----------------------------- MODULE MCAttempts -----------------------------
(* Instances of Attempts for TLC.                                          *)
EXTENDS Attempts

Plain(door, op, stream) ==
  [door |-> door, op |-> op, stream |-> stream,
   background |-> FALSE, held |-> FALSE, keeps |-> FALSE]

Turn(stream, background, held) ==
  [door |-> "openai", op |-> "responses", stream |-> stream,
   background |-> background, held |-> held, keeps |-> TRUE]

(* Every translator function, every kind of turn, an operation without     *)
(* translation and a stream flag that is not a Boolean.                    *)
SomeRequests ==
  {Plain("openai", "chat", s) : s \in {"no", "yes", "malformed"}}
    \cup {Plain("anthropic", "messages", s) : s \in {"no", "yes"}}
    \cup {Plain("gemini", "generate", s) : s \in {"no", "yes"}}
    \cup {Plain("openai", "other", "no"), Plain("openai", "responses", "yes")}
    \cup {Turn("no", b, FALSE) : b \in BOOLEAN}
    \cup {Turn("yes", FALSE, h) : h \in BOOLEAN}

Named(protocol) == [protocol |-> protocol, alias |-> FALSE]
Renamed(protocol) == [protocol |-> protocol, alias |-> TRUE]

(* All plans of one or two targets, and of three with one native.          *)
SomePlans ==
  UNION {[1 .. n -> Target] : n \in {1, 2}}
    \cup {<<Named(p[1]), Named(p[2]), Renamed(p[3])>> : p \in [1 .. 3 -> Protocols]}
=============================================================================
