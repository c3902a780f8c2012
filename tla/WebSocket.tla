------------------------------ MODULE WebSocket ------------------------------
(***************************************************************************)
(* The two connections of a realtime session (transport/websocket/conn.go):*)
(* frames are read by one goroutine and written by several, under writeMu; *)
(* the write deadline is set without it, by WriteText and by Close.        *)
(*                                                                         *)
(* A write is three steps, the points between which other goroutines run:  *)
(* the deadline, the lock, and the frame going out.                        *)
(***************************************************************************)
EXTENDS Naturals, Sequences

CONSTANT Peers   \* the pairs of peers to look at

Ends == {"down", "up"}                      \* the client's and Gemini's
Goroutines == {"run", "client", "gemini"}   \* runSession and its two copiers

(* rough: the ends that may be lost, stop reading for a while, send a ping *)
(* or send fragments; the others send whole messages, and at last a close  *)
(* or a broken frame.  asks and answers bound the messages of the two;     *)
(* targets is how many upstreams the plan has.                             *)
AllPeers == [rough : SUBSET Ends, asks : Nat, answers : Nat, targets : Nat \ {0}]

ASSUME SomePeers == Peers \subseteq AllPeers

VARIABLES
  peers,  \* who is at the two ends
  conn,   \* the connections, as this side and the kernel know them
  step    \* where each goroutine is in its write

(* "cleared": a deadline was set and another goroutine took it away.       *)
Deadlines == {"none", "armed", "expired", "cleared"}

Conn ==
  [open : BOOLEAN,                          \* conn.Close was not called
   lost : BOOLEAN,                          \* the peer is gone
   taking : BOOLEAN,                        \* the peer reads what is sent
   failed : BOOLEAN,                        \* bufio.Writer keeps its first error
   fragmented : BOOLEAN,                    \* the reader is inside a message
   pinged : BOOLEAN,                        \* the peer has sent its ping
   deadline : Deadlines,
   writeMu : Goroutines \cup {"nobody"}]

Steps == {"idle", "deadline", "lock", "flush"}

NoConn ==
  [open |-> FALSE, lost |-> FALSE, taking |-> TRUE, failed |-> FALSE,
   fragmented |-> FALSE, pinged |-> FALSE, deadline |-> "none", writeMu |-> "nobody"]

NewConn == [NoConn EXCEPT !.open = TRUE]

(* applyWriteDeadline of a context without a deadline takes away any other.*)
Cleared(c) == IF conn[c].deadline = "none" THEN "none" ELSE "cleared"

SetDeadline(g, c, deadline) ==
  /\ step[g] = "deadline"
  /\ step' = [step EXCEPT ![g] = "lock"]
  /\ conn' = [conn EXCEPT ![c].deadline = deadline]

(* SetWriteDeadline fails on a connection that was closed.                 *)
DeadlineRefused(g, c) == step[g] = "deadline" /\ ~conn[c].open

LockWriter(g, c) ==
  /\ step[g] = "lock"
  /\ conn[c].writeMu = "nobody"
  /\ conn' = [conn EXCEPT ![c].writeMu = g]
  /\ step' = [step EXCEPT ![g] = "flush"]

(* A write ends with an error at once when one of these holds.             *)
Dead(c) ==
  ~conn[c].open \/ conn[c].lost \/ conn[c].failed \/ conn[c].deadline = "expired"

(* Mutant: an early return forgets the mutex.                              *)
StillHeld(c, failed) == [conn[c] EXCEPT !.failed = @ \/ failed]

(* The deferred Unlock of writeFrame.                                      *)
Unlocked(c, failed) == [conn[c] EXCEPT !.writeMu = "nobody", !.failed = @ \/ failed]

Flush(g, c) ==
  /\ step[g] = "flush"
  /\ ~Dead(c) /\ conn[c].taking
  /\ conn' = [conn EXCEPT ![c] = Unlocked(c, FALSE)]

FlushFails(g, c) ==
  /\ step[g] = "flush"
  /\ Dead(c)
  /\ conn' = [conn EXCEPT ![c] = Unlocked(c, TRUE)]

(* The reader: a message may come in fragments, with control frames between*)
(* them.  (Pongs and further fragments change nothing.)                    *)
Readable(c) == conn[c].open /\ ~conn[c].lost

PingFrame(c) ==
  /\ c \in peers.rough
  /\ Readable(c) /\ ~conn[c].pinged
  /\ conn' = [conn EXCEPT ![c].pinged = TRUE]

FirstFragment(c) ==
  /\ c \in peers.rough
  /\ Readable(c) /\ ~conn[c].fragmented
  /\ conn' = [conn EXCEPT ![c].fragmented = TRUE]

LastFragment(c) ==
  /\ Readable(c)
  /\ conn' = [conn EXCEPT ![c].fragmented = FALSE]

-----------------------------------------------------------------------------
(* The peers and the clock.                                                *)

DeadlineExpires(c) ==
  /\ conn[c].deadline = "armed"
  /\ conn' = [conn EXCEPT ![c].deadline = "expired"]

PeerLost(c) ==
  /\ c \in peers.rough
  /\ conn[c].open /\ ~conn[c].lost
  /\ conn' = [conn EXCEPT ![c].lost = TRUE, ![c].taking = TRUE]

PeerStopsReading(c) ==
  /\ c \in peers.rough
  /\ conn[c].open /\ ~conn[c].lost /\ conn[c].taking
  /\ conn' = [conn EXCEPT ![c].taking = FALSE]

PeerReadsAgain(c) ==
  /\ ~conn[c].taking
  /\ conn' = [conn EXCEPT ![c].taking = TRUE]
=============================================================================
