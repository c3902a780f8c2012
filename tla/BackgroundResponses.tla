------------------------ MODULE BackgroundResponses ------------------------
(***************************************************************************)
(* Translated `background: true` Responses: the store of response records, *)
(* the map of running jobs, the worker goroutine of each job, and the HTTP *)
(* handlers that poll, cancel and delete a response while its worker runs. *)
(*                                                                         *)
(* What makes this hard is that the job map has a mutex (backgroundMu) and *)
(* the store has its own, but nothing covers the two together: the worker  *)
(* and the canceller both read a record, change it and write it back with  *)
(* other goroutines in between.  Every lock section and every store call   *)
(* is therefore a step of its own.                                         *)
(***************************************************************************)
EXTENDS Naturals, FiniteSets

CONSTANTS
  Ids,          \* gateway response ids, each used by at most one request
  Handlers,     \* HTTP handler goroutines serving cancel and delete
  Persistent,   \* TRUE: the SQLite store; FALSE: the in-memory store
  StoreFaults   \* TRUE: a call of the SQLite store may return an error

(* The in-memory store only rejects an empty id, which no caller passes.   *)
ASSUME StoreAssumption ==
  /\ Ids # {}
  /\ Persistent \in BOOLEAN
  /\ StoreFaults \in BOOLEAN
  /\ StoreFaults => Persistent

VARIABLES
  store,       \* the response records, by id
  background,  \* Runtime.background: the ids with a registered job
  ctx,         \* the state of each job's context.WithTimeout
  passed,      \* which retention times of a record have passed
  wpc, wrec,   \* each worker's program counter and the record it loaded
  hpc, hop, hid, hrec,  \* each handler's: counter, operation, id, record
  known,       \* ids whose queued response was returned to the client
  owner,       \* history: who holds the right to decide a job's outcome
  deleted,     \* history: ids a DELETE was answered "deleted" for
  reply        \* history: the last answer of each handler

worker  == <<wpc, wrec>>
handler == <<hpc, hop, hid, hrec, reply>>
vars    == <<store, background, ctx, passed, worker, handler, known, owner, deleted>>

Pending == {"queued", "in_progress"}
Final   == {"completed", "incomplete"}
Status  == Pending \cup Final \cup {"failed", "cancelled"}

(* A record's ExpiresAt is one of two instants: ten minutes after the      *)
(* request stored it ("start") or ten minutes after the worker persisted   *)
(* the result ("finish").                                                  *)
Timers == {"start", "finish"}

Record == [status : Status \cup {"absent"}, continuable : BOOLEAN, timer : Timers]
Absent == [status |-> "absent", continuable |-> FALSE, timer |-> "start"]

-----------------------------------------------------------------------------
(* The store                                                               *)

(* A row whose ExpiresAt has passed is still there, but no load returns it *)
Live(id) == store[id].status # "absent" /\ store[id].timer \notin passed[id]

LoadFinds(id) == Live(id) /\ UNCHANGED store

(* ErrNotFound; an expired row is deleted on the way.                      *)
LoadMisses(id) == ~Live(id) /\ store' = [store EXCEPT ![id] = Absent]

LoadErrs == StoreFaults /\ UNCHANGED store

(* SQLite prunes every expired row after each upsert, the upserted row too *)
SaveSucceeds(id, rec) ==
  LET written == [store EXCEPT ![id] = rec]
  IN  store' = IF Persistent
               THEN [i \in Ids |-> IF written[i].timer \in passed[i] THEN Absent
                                                                    ELSE written[i]]
               ELSE written

(* The upsert fails, or it succeeds and the prune that follows it fails.   *)
SaveErrs(id, rec) ==
  StoreFaults /\ (UNCHANGED store \/ store' = [store EXCEPT ![id] = rec])

DeleteFinds(id)  == store[id].status # "absent" /\ store' = [store EXCEPT ![id] = Absent]
DeleteMisses(id) == store[id].status = "absent" /\ UNCHANGED store

-----------------------------------------------------------------------------
(* The request: store the queued record, register the job, start it        *)

WorkerAt(id, from, to) == wpc[id] = from /\ wpc' = [wpc EXCEPT ![id] = to]

(* Mutant: the queued record is stored without its status.                 *)
QueuedRecordUnset == [status |-> "", continuable |-> FALSE, timer |-> "start"]

QueuedRecord == [status |-> "queued", continuable |-> FALSE, timer |-> "start"]

StartSaves(id) ==
  /\ WorkerAt(id, "idle", "register")
  /\ SaveSucceeds(id, QueuedRecord)
  /\ owner' = [owner EXCEPT ![id] = "open"]
  /\ UNCHANGED <<background, ctx, passed, wrec, handler, known, deleted>>

(* SaveResponse failed: the request is answered with the error, no job.    *)
StartFails(id) ==
  /\ WorkerAt(id, "idle", "done")
  /\ SaveErrs(id, QueuedRecord)
  /\ owner' = [owner EXCEPT ![id] = "lost"]
  /\ UNCHANGED <<background, ctx, passed, wrec, handler, known, deleted>>

(* The deadline is ten minutes from here, never before the record's own    *)
(* ExpiresAt, which StartSaves computed.                                   *)
Register(id) ==
  /\ WorkerAt(id, "register", "mark")
  /\ background' = background \cup {id}
  /\ ctx' = [ctx EXCEPT ![id] = "open"]
  /\ known' = known \cup {id}
  /\ UNCHANGED <<store, passed, wrec, handler, owner, deleted>>

-----------------------------------------------------------------------------
(* The worker: setBackgroundStatus("in_progress"), work(ctx), then either  *)
(* setBackgroundStatus("failed") or claim and persist                      *)

CancelContext(id) ==
  ctx' = [ctx EXCEPT ![id] = IF @ = "open" THEN "cancelled" ELSE @]

(* The part of setBackgroundStatus under backgroundMu.                     *)
StatusLock(id, from, load, skip) ==
  /\ WorkerAt(id, from, IF id \in background THEN load ELSE skip)
  /\ UNCHANGED <<store, background, ctx, passed, wrec, handler, known, owner, deleted>>

(* Mutant: the rewritten record keeps the Continuable it was loaded with.  *)
StatusLoadKeepsContinuable(id, from, save, skip, status) ==
  /\ \/ /\ LoadFinds(id)
        /\ WorkerAt(id, from, save)
        /\ wrec' = [wrec EXCEPT ![id] = [store[id] EXCEPT !.status = status]]
     \/ /\ LoadMisses(id) \/ LoadErrs
        /\ WorkerAt(id, from, skip)
        /\ UNCHANGED wrec
  /\ UNCHANGED <<background, ctx, passed, handler, known, owner, deleted>>

(* Its LoadResponse, after the unlock: the loaded record with the new      *)
(* status is what it will write, whatever happens in between.              *)
StatusLoad(id, from, save, skip, status) ==
  /\ \/ /\ LoadFinds(id)
        /\ WorkerAt(id, from, save)
        /\ wrec' = [wrec EXCEPT ![id] =
                      [status |-> status, continuable |-> FALSE, timer |-> store[id].timer]]
     \/ /\ LoadMisses(id) \/ LoadErrs
        /\ WorkerAt(id, from, skip)
        /\ UNCHANGED wrec
  /\ UNCHANGED <<background, ctx, passed, handler, known, owner, deleted>>

StatusSave(id, from, next) ==
  /\ WorkerAt(id, from, next)
  /\ SaveSucceeds(id, wrec[id]) \/ SaveErrs(id, wrec[id])
  /\ wrec' = [wrec EXCEPT ![id] = Absent]
  /\ UNCHANGED <<background, ctx, passed, handler, known, owner, deleted>>

MarkLock(id) == StatusLock(id, "mark", "mark_load", "work")
MarkLoad(id) == StatusLoad(id, "mark_load", "mark_save", "work", "in_progress")
MarkSave(id) == StatusSave(id, "mark_save", "work")

(* work(ctx) succeeded with a 2xx answer and the context was still live.   *)
WorkSucceeds(id) ==
  /\ WorkerAt(id, "work", "claim")
  /\ ctx[id] = "open"
  /\ UNCHANGED <<store, background, ctx, passed, wrec, handler, known, owner, deleted>>

(* The context is done, or the call failed or was not answered 2xx.        *)
WorkFails(id) ==
  /\ WorkerAt(id, "work", "fail")
  /\ UNCHANGED <<store, background, ctx, passed, wrec, handler, known, owner, deleted>>

FailLock(id) == StatusLock(id, "fail", "fail_load", "exit")
FailLoad(id) == StatusLoad(id, "fail_load", "fail_save", "exit", "failed")
FailSave(id) == StatusSave(id, "fail_save", "exit")

(* Mutant: the worker looks its job up and leaves it in the map.           *)
WorkerLooksUp(id) ==
  /\ WorkerAt(id, "claim", IF id \in background THEN "persist" ELSE "exit")
  /\ IF id \in background
     THEN CancelContext(id) /\ owner' = [owner EXCEPT ![id] = "worker"]
     ELSE UNCHANGED <<ctx, owner>>
  /\ UNCHANGED <<store, background, passed, wrec, handler, known, deleted>>

(* Mutant: the worker persists whether or not its claim succeeded.         *)
WorkerClaimsAnyway(id) ==
  /\ WorkerAt(id, "claim", "persist")
  /\ background' = background \ {id}
  /\ CancelContext(id)
  /\ owner' = [owner EXCEPT ![id] = IF @ = "open" THEN "worker" ELSE @]
  /\ UNCHANGED <<store, passed, wrec, handler, known, deleted>>

WorkerClaims(id) ==
  /\ WorkerAt(id, "claim", IF id \in background THEN "persist" ELSE "exit")
  /\ background' = background \ {id}
  /\ IF id \in background
     THEN CancelContext(id) /\ owner' = [owner EXCEPT ![id] = "worker"]
     ELSE UNCHANGED <<ctx, owner>>
  /\ UNCHANGED <<store, passed, wrec, handler, known, deleted>>

(* persistResponsesState: the result, truncated or not, replaces whatever  *)
(* the store holds, without a load.                                        *)
FinalRecords == [status : Final, continuable : BOOLEAN, timer : {"finish"}]

Persist(id) ==
  /\ WorkerAt(id, "persist", "exit")
  /\ \E rec \in FinalRecords : SaveSucceeds(id, rec)
  /\ owner' = [owner EXCEPT ![id] = IF @ = "caller" THEN @ ELSE "settled"]
  /\ UNCHANGED <<background, ctx, passed, wrec, handler, known, deleted>>

(* The conversation or the response could not be saved.                    *)
PersistFails(id) ==
  /\ WorkerAt(id, "persist", "rescue_load")
  /\ \E rec \in FinalRecords : SaveErrs(id, rec)
  /\ owner' = [owner EXCEPT ![id] = "rescue"]
  /\ UNCHANGED <<background, ctx, passed, wrec, handler, known, deleted>>

RescueLoad(id) == StatusLoad(id, "rescue_load", "rescue_save", "exit", "failed")
RescueSave(id) == StatusSave(id, "rescue_save", "exit")

(* Mutant: the worker returns without its deferred removal.                *)
WorkerExitsWithoutDefer(id) ==
  /\ WorkerAt(id, "exit", "done")
  /\ owner' = [owner EXCEPT ![id] = IF @ = "caller" THEN @ ELSE "settled"]
  /\ UNCHANGED <<store, background, ctx, passed, wrec, handler, known, deleted>>

(* The deferred function: a job nobody claimed leaves the map here.        *)
WorkerExits(id) ==
  /\ WorkerAt(id, "exit", "done")
  /\ background' = background \ {id}
  /\ IF id \in background THEN CancelContext(id) ELSE UNCHANGED ctx
  /\ owner' = [owner EXCEPT ![id] = IF @ = "caller" THEN @ ELSE "settled"]
  /\ UNCHANGED <<store, passed, wrec, handler, known, deleted>>

WorkerStep(id) ==
  \/ MarkLock(id) \/ MarkLoad(id) \/ MarkSave(id)
  \/ WorkSucceeds(id) \/ WorkFails(id)
  \/ FailLock(id) \/ FailLoad(id) \/ FailSave(id)
  \/ WorkerClaims(id) \/ Persist(id) \/ PersistFails(id)
  \/ RescueLoad(id) \/ RescueSave(id) \/ WorkerExits(id)

-----------------------------------------------------------------------------
(* HandleStoredResponse                                                    *)

HandlerAt(h, from, to) == hpc[h] = from /\ hpc' = [hpc EXCEPT ![h] = to]

Answers(h, from, answer) ==
  HandlerAt(h, from, "idle") /\ reply' = [reply EXCEPT ![h] = answer]

(* GET: a single load, whose only effect is dropping an expired row.       *)
Get(id) ==
  /\ id \in known
  /\ LoadFinds(id) \/ LoadMisses(id)
  /\ UNCHANGED <<background, ctx, passed, worker, handler, known, owner, deleted>>

(* POST .../cancel or DELETE arrives.                                      *)
Begin(h, op, id) ==
  /\ id \in known
  /\ HandlerAt(h, "idle", "claim")
  /\ hop' = [hop EXCEPT ![h] = op]
  /\ hid' = [hid EXCEPT ![h] = id]
  /\ reply' = [reply EXCEPT ![h] = "none"]
  /\ UNCHANGED <<store, background, ctx, passed, worker, hrec, known, owner, deleted>>

(* claimBackgroundJob; the context is cancelled right after it.            *)
HandlerClaims(h) ==
  /\ hid[h] \in background
  /\ HandlerAt(h, "claim", "load")
  /\ background' = background \ {hid[h]}
  /\ CancelContext(hid[h])
  /\ owner' = [owner EXCEPT ![hid[h]] = "caller"]
  /\ UNCHANGED <<store, passed, worker, hop, hid, hrec, reply, known, deleted>>

NothingToClaim(h) ==
  /\ hid[h] \notin background
  /\ HandlerAt(h, "claim", IF hop[h] = "cancel" THEN "lookup" ELSE "remove")
  /\ UNCHANGED <<store, background, ctx, passed, worker, hop, hid, hrec, reply,
                 known, owner, deleted>>

(* The record is loaded with the request's context and turned cancelled.   *)
CancelLoad(h) ==
  LET id == hid[h] IN
  /\ \/ /\ LoadFinds(id)
        /\ HandlerAt(h, "load", "save")
        /\ hrec' = [hrec EXCEPT ![h] =
                      [status |-> "cancelled", continuable |-> FALSE, timer |-> store[id].timer]]
        /\ UNCHANGED reply
     \/ /\ LoadMisses(id) \/ LoadErrs
        /\ Answers(h, "load", "error")
        /\ UNCHANGED hrec
  /\ UNCHANGED <<background, ctx, passed, worker, hop, hid, known, owner, deleted>>

CancelSave(h) ==
  /\ \/ /\ SaveSucceeds(hid[h], hrec[h])
        /\ HandlerAt(h, "save", IF hop[h] = "cancel" THEN "reload" ELSE "remove")
        /\ UNCHANGED reply
     \/ /\ SaveErrs(hid[h], hrec[h])
        /\ Answers(h, "save", "error")
  /\ hrec' = [hrec EXCEPT ![h] = Absent]
  /\ UNCHANGED <<background, ctx, passed, worker, hop, hid, known, owner, deleted>>

(* The cancelled record is read back and its payload is the answer.        *)
CancelAnswers(h) ==
  /\ \/ LoadFinds(hid[h]) /\ Answers(h, "reload", store[hid[h]].status)
     \/ (LoadMisses(hid[h]) \/ LoadErrs) /\ Answers(h, "reload", "error")
  /\ UNCHANGED <<background, ctx, passed, worker, hop, hid, hrec, known, owner, deleted>>

(* No job to cancel: 400 for a stored response, otherwise not handled.     *)
CancelRefuses(h) ==
  /\ \/ LoadFinds(hid[h]) /\ Answers(h, "lookup", "not_cancellable")
     \/ LoadMisses(hid[h]) /\ Answers(h, "lookup", "missing")
     \/ LoadErrs /\ Answers(h, "lookup", "error")
  /\ UNCHANGED <<background, ctx, passed, worker, hop, hid, hrec, known, owner, deleted>>

Delete(h) ==
  /\ \/ /\ DeleteFinds(hid[h])
        /\ Answers(h, "remove", "deleted")
        /\ deleted' = deleted \cup {hid[h]}
     \/ DeleteMisses(hid[h]) /\ Answers(h, "remove", "missing") /\ UNCHANGED deleted
     \/ LoadErrs /\ Answers(h, "remove", "error") /\ UNCHANGED deleted
  /\ UNCHANGED <<background, ctx, passed, worker, hop, hid, hrec, known, owner>>

HandlerStep(h) ==
  \/ HandlerClaims(h) \/ NothingToClaim(h)
  \/ CancelLoad(h) \/ CancelSave(h) \/ CancelAnswers(h) \/ CancelRefuses(h)
  \/ Delete(h)

-----------------------------------------------------------------------------
(* Time and crashes                                                        *)

(* The ExpiresAt set when the request was stored is reached.               *)
StartRetentionPasses(id) ==
  /\ wpc[id] # "idle"
  /\ "start" \notin passed[id]
  /\ passed' = [passed EXCEPT ![id] = @ \cup {"start"}]
  /\ UNCHANGED <<store, background, ctx, worker, handler, known, owner, deleted>>

(* The later ExpiresAt, set when the result was persisted.                 *)
FinishRetentionPasses(id) ==
  /\ "start" \in passed[id]
  /\ "finish" \notin passed[id]
  /\ "finish" \in {store[id].timer, wrec[id].timer}
  /\ passed' = [passed EXCEPT ![id] = @ \cup {"finish"}]
  /\ UNCHANGED <<store, background, ctx, worker, handler, known, owner, deleted>>

(* Mutant: the job's context has no timeout.                               *)
NoDeadline(id) == FALSE

(* The job's own deadline, the same ten minutes counted from Register.     *)
Deadline(id) ==
  /\ ctx[id] = "open"
  /\ "start" \in passed[id]
  /\ ctx' = [ctx EXCEPT ![id] = "expired"]
  /\ UNCHANGED <<store, background, passed, worker, handler, known, owner, deleted>>

(* The process dies and is started again: goroutines, the job map and the  *)
(* in-memory store are gone, SQLite rows stay as they were.                *)
Crash ==
  /\ store' = IF Persistent THEN store ELSE [id \in Ids |-> Absent]
  /\ background' = {}
  /\ ctx' = [id \in Ids |-> "none"]
  /\ wpc' = [id \in Ids |-> IF wpc[id] = "idle" THEN "idle" ELSE "done"]
  /\ wrec' = [id \in Ids |-> Absent]
  /\ hpc' = [h \in Handlers |-> "idle"]
  /\ hrec' = [h \in Handlers |-> Absent]
  /\ reply' = [h \in Handlers |-> "none"]
  /\ owner' = [id \in Ids |-> IF owner[id] = "none" THEN "none" ELSE "lost"]
  /\ UNCHANGED <<passed, hop, hid, known, deleted>>

-----------------------------------------------------------------------------
Init ==
  /\ store = [id \in Ids |-> Absent]
  /\ background = {}
  /\ ctx = [id \in Ids |-> "none"]
  /\ passed = [id \in Ids |-> {}]
  /\ wpc = [id \in Ids |-> "idle"]
  /\ wrec = [id \in Ids |-> Absent]
  /\ hpc = [h \in Handlers |-> "idle"]
  /\ hop = [h \in Handlers |-> "cancel"]
  /\ hid = [h \in Handlers |-> CHOOSE id \in Ids : TRUE]
  /\ hrec = [h \in Handlers |-> Absent]
  /\ known = {}
  /\ owner = [id \in Ids |-> "none"]
  /\ deleted = {}
  /\ reply = [h \in Handlers |-> "none"]

Next ==
  \/ \E id \in Ids :
       \/ StartSaves(id) \/ StartFails(id) \/ Register(id)
       \/ WorkerStep(id)
       \/ Get(id)
       \/ StartRetentionPasses(id) \/ FinishRetentionPasses(id) \/ Deadline(id)
  \/ \E h \in Handlers :
       \/ HandlerStep(h)
       \/ \E id \in Ids, op \in {"cancel", "delete"} : Begin(h, op, id)
  \/ Crash

(* Goroutines are scheduled, clocks advance and work(ctx) returns once its *)
(* context is done; the upstream itself owes no answer, and clients owe    *)
(* no further request.                                                     *)
Fairness ==
  /\ \A id \in Ids :
       /\ WF_vars(wpc[id] # "work" /\ WorkerStep(id))
       /\ WF_vars(ctx[id] # "open" /\ WorkFails(id))
       /\ WF_vars(Register(id))
       /\ WF_vars(StartRetentionPasses(id))
       /\ WF_vars(Deadline(id))
  /\ \A h \in Handlers : WF_vars(HandlerStep(h))

Spec     == Init /\ [][Next]_vars
FairSpec == Spec /\ Fairness

-----------------------------------------------------------------------------
(* Properties                                                              *)

Decided == {"persist", "rescue_load", "rescue_save"}
Working == {"mark", "mark_load", "mark_save", "work", "fail", "fail_load",
            "fail_save", "claim", "exit"} \cup Decided

(* The shape of the state.                                                 *)
TypeOK ==
  /\ store \in [Ids -> Record]
  /\ background \in SUBSET Ids
  /\ ctx \in [Ids -> {"none", "open", "cancelled", "expired"}]
  /\ passed \in [Ids -> SUBSET Timers]
  /\ wpc \in [Ids -> {"idle", "register", "done"} \cup Working]
  /\ wrec \in [Ids -> Record]
  /\ hpc \in [Handlers -> {"idle", "claim", "load", "save", "reload", "lookup", "remove"}]
  /\ hop \in [Handlers -> {"cancel", "delete"}]
  /\ hid \in [Handlers -> Ids]
  /\ hrec \in [Handlers -> Record]
  /\ known \in SUBSET Ids
  /\ owner \in [Ids -> {"none", "open", "worker", "caller", "rescue", "settled", "lost"}]
  /\ deleted \in SUBSET Ids
  /\ reply \in [Handlers -> Status \cup {"none", "error", "missing",
                                         "not_cancellable", "deleted"}]

(* The goroutines that took the job of id out of the map and are about to  *)
(* write its outcome.                                                      *)
Deciders(id) ==
  {h \in Handlers : hid[h] = id /\ hpc[h] \in {"load", "save"}}
    \cup {w \in {id} : wpc[w] \in Decided}

(* claimBackgroundJob: of the worker and all the handlers that cancel or   *)
(* delete the response, at most one decides, and none while the job is     *)
(* still in the map.                                                       *)
OneDecider ==
  \A id \in Ids :
    /\ \A p, q \in Deciders(id) : p = q
    /\ id \in background => Deciders(id) = {}

(* Once a cancel or delete has claimed the job, no result of the worker is *)
(* ever stored, however late the upstream answers.                         *)
CancelledNeverFinal ==
  \A id \in Ids : owner[id] = "caller" => store[id].status \notin Final

(* Only a finished response can be continued by previous_response_id:      *)
(* every later write of a pending or failed status clears Continuable.     *)
ContinuableOnlyIfFinal ==
  \A id \in Ids : store[id].continuable => store[id].status \in Final

(* The job map holds no job whose worker is gone: whichever way the worker *)
(* ends, its job has left the map, with nobody else to remove it.          *)
NoLeakedJob == \A id \in background : wpc[id] \in Working

(* A worker that leaves with its job unclaimed has failed, and its record  *)
(* says so, unless the record's retention had already passed.  Holds when  *)
(* no store call fails: setBackgroundStatus drops those errors.            *)
FailureReportedInTime ==
  \A id \in background :
    wpc[id] = "exit" => store[id].status = "failed" \/ "start" \in passed[id]

(* A stored result is final: it can only disappear, or be replaced by      *)
(* `failed` by the worker whose own save reported an error.                *)
ResultKept ==
  \A id \in Ids :
    store[id].status \in Final =>
      \/ store'[id] \in {store[id], Absent}
      \/ wpc[id] = "rescue_save" /\ store'[id].status = "failed"

FinalIsStable == [][ResultKept]_vars

Polled(id) == Live(id) /\ store[id].status \in Pending

(* Every accepted job ends: its worker returns and the map forgets it,     *)
(* even if the upstream never answers.  And no response is polled for ever:*)
(* a record that a load finds queued or in progress is decided, removed or *)
(* no longer found, also when nobody is left to decide it, because a store *)
(* call failed or the process died.                                        *)
JobsDrain ==
  \A id \in Ids :
    /\ id \in known ~> (wpc[id] = "done" /\ id \notin background)
    /\ Polled(id) ~> ~Polled(id)

(* What response_resource.go says of DELETE: the worker cannot recreate a  *)
(* response after it has been deleted.                                     *)
DeletedStaysDeleted == \A id \in deleted : store[id].status = "absent"

(* What background_responses_test.go says of cancel: a cancel that is      *)
(* answered 200 shows the response cancelled.                              *)
CancelAnswersCancelled ==
  \A h \in Handlers : reply[h] \notin Status \ {"cancelled"}

(* What COMPATIBILITY.md says of later failures, for a job that ran into   *)
(* its own deadline: it leaves a `failed` record.                          *)
TimeoutReported ==
  \A id \in background :
    wpc[id] = "exit" /\ ctx[id] = "expired" => store[id].status = "failed"

(* Every step of the handlers, workers and clocks is a step of the         *)
(* promise ResponseOutcome, or invisible to it.                            *)
Outcome == INSTANCE ResponseOutcome WITH
             status <- [id \in Ids |-> store[id].status], right <- owner
KeepsOutcome == Outcome!Spec
=============================================================================
