-------------------------- MODULE ResponseOutcome --------------------------
(***************************************************************************)
(* What a client may rely on about the outcome of background responses,    *)
(* without jobs, contexts, loads or program counters: the right to decide  *)
(* a response's outcome passes once, from the running job to its worker or *)
(* to a caller that cancels or deletes it; a result is only published by a *)
(* worker that holds that right, once; whoever does not hold it can at     *)
(* worst put back a status that is not a result.                           *)
(***************************************************************************)
CONSTANT Ids

VARIABLES
  status,   \* the status stored for each response, or "absent"
  right     \* who may decide its outcome

Result == {"completed", "incomplete"}

Rights == {"none",       \* no request used this id yet
           "open",       \* the job runs and is unclaimed
           "worker",     \* the worker claimed it and will publish
           "rescue",     \* publishing failed, the worker will say so
           "caller",     \* a cancel or delete claimed it
           "settled",    \* the job ended
           "lost"}       \* the request or the process failed

(* Any stored response may disappear at any step: deleted, expired, pruned *)
MayVanish(S) == \A id \in S : status'[id] \in {status[id], "absent"}

Turns(id, from, to) == right[id] \in from /\ right' = [right EXCEPT ![id] = to]

(* Step of one response; all others can only vanish.                       *)
Writes(id, statuses) ==
  /\ status'[id] \in statuses \cup {"absent"}
  /\ MayVanish(Ids \ {id})

Accept(id) == Turns(id, {"none"}, "open") /\ Writes(id, {"queued"})

Reject(id) == Turns(id, {"none"}, "lost") /\ Writes(id, {status[id], "queued"})

(* Status reports of a worker that has not claimed its job; its last one   *)
(* may still land after a caller claimed it.                               *)
Report(id) ==
  /\ right[id] \in {"open", "caller"}
  /\ Writes(id, {"in_progress", "failed", status[id]})
  /\ UNCHANGED right

Cancel(id) ==
  /\ right[id] = "caller"
  /\ Writes(id, {"cancelled", status[id]})
  /\ UNCHANGED right

Claim(id, by) == Turns(id, {"open"}, by) /\ MayVanish(Ids)

Publish(id) == Turns(id, {"worker"}, "settled") /\ Writes(id, Result)

(* The result could not be saved, though it may be visible for a while.    *)
PublishFails(id) ==
  Turns(id, {"worker"}, "rescue") /\ Writes(id, Result \cup {status[id]})

Rescue(id) ==
  /\ right[id] = "rescue"
  /\ Writes(id, {"failed", status[id]})
  /\ UNCHANGED right

End(id) == Turns(id, {"open", "rescue", "settled"}, "settled") /\ MayVanish(Ids)

Vanish == MayVanish(Ids) /\ UNCHANGED right

Restart ==
  /\ right' = [id \in Ids |-> IF right[id] = "none" THEN "none" ELSE "lost"]
  /\ MayVanish(Ids)

Init ==
  /\ status = [id \in Ids |-> "absent"]
  /\ right = [id \in Ids |-> "none"]

Next ==
  /\ status' = [id \in Ids |-> status'[id]]
  /\ \/ \E id \in Ids :
          \/ Accept(id) \/ Reject(id) \/ Report(id) \/ Cancel(id)
          \/ Claim(id, "worker") \/ Claim(id, "caller")
          \/ Publish(id) \/ PublishFails(id) \/ Rescue(id) \/ End(id)
     \/ Vanish \/ Restart

Spec == Init /\ [][Next]_<<status, right>>
=============================================================================
