--------------------- MODULE BackgroundResponsesProofs ---------------------
(***************************************************************************)
(* Proofs about BackgroundResponses for every set of ids and of handlers,  *)
(* both stores, with and without store errors.                             *)
(*                                                                         *)
(* The argument: `owner` says who may decide a job's outcome, and the      *)
(* program counters, the job map and the locals agree with it (OwnerInv,   *)
(* LocalsInv); only a worker that owns the job writes a result (StoreInv). *)
(***************************************************************************)
EXTENDS BackgroundResponses, TLAPS

(* Who owns the outcome of a job, by where its worker is.                  *)
OwnerAt(id) ==
  CASE wpc[id] = "idle"                             -> owner[id] = "none"
    [] wpc[id] = "register"                         -> owner[id] = "open"
    [] wpc[id] = "persist"                          -> owner[id] = "worker"
    [] wpc[id] \in {"rescue_load", "rescue_save"}   -> owner[id] = "rescue"
    [] wpc[id] = "exit"  -> owner[id] \in {"open", "caller", "rescue", "settled"}
    [] wpc[id] = "done"  -> owner[id] \in {"caller", "settled", "lost"}
    [] OTHER             -> owner[id] \in {"open", "caller"}

OwnerInv ==
  /\ \A id \in Ids :
       /\ OwnerAt(id)
       /\ id \in background <=> (owner[id] = "open" /\ wpc[id] # "register")
       /\ id \in known => wpc[id] \notin {"idle", "register"}
  /\ \A h \in Handlers :
       hpc[h] \in {"load", "save"} => owner[hid[h]] = "caller"
  /\ \A g, h \in Handlers :
       hpc[g] \in {"load", "save"} /\ hpc[h] \in {"load", "save"} /\ hid[g] = hid[h]
         => g = h

(* What a worker or a handler is about to write back.                      *)
LocalsInv ==
  /\ \A id \in Ids :
       /\ ~wrec[id].continuable
       /\ wpc[id] = "mark_save" => wrec[id].status = "in_progress"
       /\ wpc[id] \in {"fail_save", "rescue_save"} => wrec[id].status = "failed"
  /\ \A h \in Handlers :
       /\ ~hrec[h].continuable
       /\ hpc[h] = "save" => hrec[h].status = "cancelled"

(* A result is stored only where its worker owned the outcome.             *)
StoreInv ==
  \A id \in Ids :
    /\ store[id].continuable => store[id].status \in Final
    /\ owner[id] \in {"none", "open", "worker", "caller"} => store[id].status \notin Final

IInv == TypeOK /\ OwnerInv /\ LocalsInv /\ StoreInv

-----------------------------------------------------------------------------
(* What the store operations do to the map of records                      *)

(* Records can only disappear.                                             *)
Vanishes ==
  /\ store' \in [Ids -> Record]
  /\ \A i \in Ids : store'[i] \in {store[i], Absent}

(* The record of id may be replaced by one of recs.                        *)
Stores(id, recs) ==
  /\ store' \in [Ids -> Record]
  /\ store'[id] \in recs \cup {Absent}
  /\ \A i \in Ids \ {id} : store'[i] \in {store[i], Absent}

LEMMA AbsentIsRecord == Absent \in Record /\ QueuedRecord \in Record
BY DEF Absent, QueuedRecord, Record, Status, Pending, Final, Timers

(* A load changes nothing but expired rows: translator and SQLite stores.  *)
LEMMA LoadVanishes ==
  ASSUME TypeOK, NEW id \in Ids, LoadFinds(id) \/ LoadMisses(id) \/ LoadErrs
  PROVE  Vanishes
BY AbsentIsRecord DEF TypeOK, LoadFinds, LoadMisses, LoadErrs, Vanishes

(* A delete changes nothing but the row it deletes.                        *)
LEMMA DeleteVanishes ==
  ASSUME TypeOK, NEW id \in Ids, DeleteFinds(id) \/ DeleteMisses(id) \/ LoadErrs
  PROVE  Vanishes
BY AbsentIsRecord DEF TypeOK, DeleteFinds, DeleteMisses, LoadErrs, Vanishes

(* A save stores its record, or loses it to the prune, and prunes others.  *)
LEMMA SaveStores ==
  ASSUME TypeOK, NEW id \in Ids, NEW rec \in Record, SaveSucceeds(id, rec)
  PROVE  Stores(id, {rec})
<1> DEFINE written == [store EXCEPT ![id] = rec]
<1>1. written \in [Ids -> Record] /\ written[id] = rec
      /\ \A i \in Ids \ {id} : written[i] = store[i]
  BY DEF TypeOK
<1>2. CASE Persistent
  <2>1. store' = [i \in Ids |-> IF written[i].timer \in passed[i] THEN Absent
                                                                  ELSE written[i]]
    BY <1>2 DEF SaveSucceeds
  <2> HIDE DEF written
  <2> QED BY <1>1, <2>1, AbsentIsRecord DEF Stores
<1>3. CASE ~Persistent
  BY <1>1, <1>3 DEF SaveSucceeds, Stores
<1> QED BY <1>2, <1>3

(* A save that reports an error has stored the record or changed nothing.  *)
LEMMA SaveErrsStores ==
  ASSUME TypeOK, NEW id \in Ids, NEW rec \in Record, SaveErrs(id, rec)
  PROVE  Stores(id, {rec, store[id]})
BY DEF TypeOK, SaveErrs, Stores

-----------------------------------------------------------------------------
(* Every step keeps the shape of the state.                                *)
LEMMA TypeStep == TypeOK /\ [Next]_vars => TypeOK'
<1> SUFFICES ASSUME TypeOK, [Next]_vars PROVE TypeOK'
  OBVIOUS
<1> USE DEF TypeOK, worker, handler, WorkerAt, HandlerAt, Answers, CancelContext,
            Working, Decided, Timers
<1> DEFINE StoreOK == store' \in [Ids -> Record]
<1>rec. /\ \A st \in Status, t \in Timers :
             [status |-> st, continuable |-> FALSE, timer |-> t] \in Record
        /\ FinalRecords \subseteq Record /\ Absent \in Record /\ QueuedRecord \in Record
        /\ \A r \in Record : r.timer \in Timers /\ r.status \in Status \cup {"absent"}
        /\ {"in_progress", "failed", "cancelled"} \subseteq Status
  BY DEF Record, FinalRecords, Absent, QueuedRecord, Status, Pending, Final
<1>1. ASSUME NEW id \in Ids, StartSaves(id) PROVE TypeOK'
  <2>1. StoreOK BY <1>rec, <1>1, SaveStores, SaveErrsStores DEF StartSaves, Stores
  <2> QED BY <1>1, <2>1 DEF StartSaves
<1>2. ASSUME NEW id \in Ids, StartFails(id) PROVE TypeOK'
  <2>1. StoreOK BY <1>rec, <1>2, SaveStores, SaveErrsStores DEF StartFails, Stores
  <2> QED BY <1>2, <2>1 DEF StartFails
<1>3. ASSUME NEW id \in Ids, Register(id) PROVE TypeOK'
  BY <1>3 DEF Register
<1>4. ASSUME NEW id \in Ids, MarkLock(id) PROVE TypeOK'
  BY <1>4 DEF MarkLock, StatusLock
<1>5. ASSUME NEW id \in Ids, MarkLoad(id) PROVE TypeOK'
  <2>1. StoreOK BY <1>5, LoadVanishes DEF MarkLoad, StatusLoad, Vanishes
  <2>2. store[id] \in Record OBVIOUS
  <2>3. [status |-> "in_progress", continuable |-> FALSE,
     timer |-> store[id].timer] \in Record
    BY <1>rec, <2>2
  <2>4. wrec' \in [Ids -> Record] BY <2>3, <1>5 DEF MarkLoad, StatusLoad
  <2> QED BY <1>5, <2>1, <2>4 DEF MarkLoad, StatusLoad
<1>6. ASSUME NEW id \in Ids, MarkSave(id) PROVE TypeOK'
  <2>1. wrec[id] \in Record OBVIOUS
  <2>2. StoreOK BY <2>1, <1>6, SaveStores, SaveErrsStores DEF MarkSave, StatusSave, Stores
  <2> QED BY <1>rec, <1>6, <2>2 DEF MarkSave, StatusSave
<1>7. ASSUME NEW id \in Ids, WorkSucceeds(id) PROVE TypeOK'
  BY <1>7 DEF WorkSucceeds
<1>8. ASSUME NEW id \in Ids, WorkFails(id) PROVE TypeOK'
  BY <1>8 DEF WorkFails
<1>9. ASSUME NEW id \in Ids, FailLock(id) PROVE TypeOK'
  BY <1>9 DEF FailLock, StatusLock
<1>10. ASSUME NEW id \in Ids, FailLoad(id) PROVE TypeOK'
  <2>1. StoreOK BY <1>10, LoadVanishes DEF FailLoad, StatusLoad, Vanishes
  <2>2. store[id] \in Record OBVIOUS
  <2>3. [status |-> "failed", continuable |-> FALSE, timer |-> store[id].timer] \in Record
    BY <1>rec, <2>2
  <2>4. wrec' \in [Ids -> Record] BY <2>3, <1>10 DEF FailLoad, StatusLoad
  <2> QED BY <1>10, <2>1, <2>4 DEF FailLoad, StatusLoad
<1>11. ASSUME NEW id \in Ids, FailSave(id) PROVE TypeOK'
  <2>1. wrec[id] \in Record OBVIOUS
  <2>2. StoreOK BY <2>1, <1>11, SaveStores, SaveErrsStores DEF FailSave, StatusSave, Stores
  <2> QED BY <1>rec, <1>11, <2>2 DEF FailSave, StatusSave
<1>12. ASSUME NEW id \in Ids, WorkerClaims(id) PROVE TypeOK'
  BY <1>12 DEF WorkerClaims
<1>13. ASSUME NEW id \in Ids, Persist(id) PROVE TypeOK'
  <2>1. StoreOK BY <1>rec, <1>13, SaveStores, SaveErrsStores DEF Persist, Stores
  <2> QED BY <1>13, <2>1 DEF Persist
<1>14. ASSUME NEW id \in Ids, PersistFails(id) PROVE TypeOK'
  <2>1. StoreOK BY <1>rec, <1>14, SaveStores, SaveErrsStores DEF PersistFails, Stores
  <2> QED BY <1>14, <2>1 DEF PersistFails
<1>15. ASSUME NEW id \in Ids, RescueLoad(id) PROVE TypeOK'
  <2>1. StoreOK BY <1>15, LoadVanishes DEF RescueLoad, StatusLoad, Vanishes
  <2>2. store[id] \in Record OBVIOUS
  <2>3. [status |-> "failed", continuable |-> FALSE, timer |-> store[id].timer] \in Record
    BY <1>rec, <2>2
  <2>4. wrec' \in [Ids -> Record] BY <2>3, <1>15 DEF RescueLoad, StatusLoad
  <2> QED BY <1>15, <2>1, <2>4 DEF RescueLoad, StatusLoad
<1>16. ASSUME NEW id \in Ids, RescueSave(id) PROVE TypeOK'
  <2>1. wrec[id] \in Record OBVIOUS
  <2>2. StoreOK BY <2>1, <1>16, SaveStores, SaveErrsStores DEF RescueSave, StatusSave,
     Stores
  <2> QED BY <1>rec, <1>16, <2>2 DEF RescueSave, StatusSave
<1>17. ASSUME NEW id \in Ids, WorkerExits(id) PROVE TypeOK'
  BY <1>17 DEF WorkerExits
<1>18. ASSUME NEW id \in Ids, Get(id) PROVE TypeOK'
  <2>1. StoreOK BY <1>18, LoadVanishes DEF Get, Vanishes
  <2> QED BY <1>18, <2>1 DEF Get
<1>19. ASSUME NEW id \in Ids, StartRetentionPasses(id) PROVE TypeOK'
  BY <1>19 DEF StartRetentionPasses
<1>20. ASSUME NEW id \in Ids, FinishRetentionPasses(id) PROVE TypeOK'
  BY <1>20 DEF FinishRetentionPasses
<1>21. ASSUME NEW id \in Ids, Deadline(id) PROVE TypeOK'
  BY <1>21 DEF Deadline
<1>22. ASSUME NEW h \in Handlers, HandlerClaims(h) PROVE TypeOK'
  BY <1>22 DEF HandlerClaims
<1>23. ASSUME NEW h \in Handlers, NothingToClaim(h) PROVE TypeOK'
  BY <1>23 DEF NothingToClaim
<1>24. ASSUME NEW h \in Handlers, CancelLoad(h) PROVE TypeOK'
  <2>1. hid[h] \in Ids OBVIOUS
  <2>2. StoreOK BY <2>1, <1>24, LoadVanishes DEF CancelLoad, Vanishes
  <2>3. store[hid[h]] \in Record BY <2>1
  <2>4. [status |-> "cancelled", continuable |-> FALSE,
          timer |-> store[hid[h]].timer] \in Record
    BY <1>rec, <2>3
  <2>5. hrec' \in [Handlers -> Record] BY <2>4, <1>24 DEF CancelLoad
  <2> QED BY <1>24, <2>2, <2>5 DEF CancelLoad
<1>25. ASSUME NEW h \in Handlers, CancelSave(h) PROVE TypeOK'
  <2>1. hid[h] \in Ids /\ hrec[h] \in Record OBVIOUS
  <2>2. StoreOK BY <2>1, <1>25, SaveStores, SaveErrsStores DEF CancelSave, Stores
  <2>3. hrec' \in [Handlers -> Record] BY <1>rec, <1>25 DEF CancelSave
  <2>4. hpc' \in [Handlers -> {"idle", "claim", "load", "save", "reload", "lookup",
     "remove"}]
    BY <1>25 DEF CancelSave
  <2>5. reply' \in [Handlers -> Status \cup {"none", "error", "missing", "not_cancellable",
     "deleted"}]
    BY <1>25 DEF CancelSave
  <2> QED BY <1>25, <2>2, <2>3, <2>4, <2>5 DEF CancelSave
<1>26. ASSUME NEW h \in Handlers, CancelAnswers(h) PROVE TypeOK'
  <2>1. hid[h] \in Ids OBVIOUS
  <2>2. StoreOK BY <2>1, <1>26, LoadVanishes DEF CancelAnswers, Vanishes
  <2>3. LoadFinds(hid[h]) => store[hid[h]].status \in Status
    BY <1>rec, <2>1 DEF LoadFinds, Live
  <2> QED BY <1>26, <2>2, <2>3 DEF CancelAnswers
<1>27. ASSUME NEW h \in Handlers, CancelRefuses(h) PROVE TypeOK'
  <2>1. hid[h] \in Ids OBVIOUS
  <2>2. StoreOK BY <2>1, <1>27, LoadVanishes DEF CancelRefuses, Vanishes
  <2> QED BY <1>27, <2>2 DEF CancelRefuses
<1>28. ASSUME NEW h \in Handlers, Delete(h) PROVE TypeOK'
  <2>1. hid[h] \in Ids OBVIOUS
  <2>2. StoreOK BY <2>1, <1>28, DeleteVanishes DEF Delete, Vanishes
  <2> QED BY <1>28, <2>1, <2>2 DEF Delete
<1>29. ASSUME NEW h \in Handlers, NEW id \in Ids, NEW op \in {"cancel", "delete"},
            Begin(h, op, id)
      PROVE TypeOK'
  BY <1>29 DEF Begin
<1>30. CASE Crash
  BY <1>rec, <1>30 DEF Crash
<1>31. CASE UNCHANGED vars
  BY <1>31 DEF vars
<1> QED
  BY <1>1, <1>2, <1>3, <1>4, <1>5, <1>6, <1>7, <1>8, <1>9, <1>10, <1>11, <1>12, <1>13,
     <1>14,
     <1>15, <1>16, <1>17, <1>18, <1>19, <1>20, <1>21, <1>22, <1>23, <1>24, <1>25, <1>26,
        <1>27, <1>28, <1>29, <1>30, <1>31 DEF Next, WorkerStep, HandlerStep
-----------------------------------------------------------------------------
(* Every step keeps the owners in line with counters and the job map.      *)
LEMMA OwnerStep == TypeOK /\ OwnerInv /\ [Next]_vars => OwnerInv'
<1> SUFFICES ASSUME TypeOK /\ OwnerInv, [Next]_vars PROVE OwnerInv'
  OBVIOUS
<1> USE DEF TypeOK, OwnerInv, OwnerAt, worker, handler, WorkerAt, HandlerAt, Answers,
            CancelContext, Working, Decided
<1>1. ASSUME NEW id \in Ids, StartSaves(id) PROVE OwnerInv'
  BY <1>1 DEF StartSaves
<1>2. ASSUME NEW id \in Ids, StartFails(id) PROVE OwnerInv'
  BY <1>2 DEF StartFails
<1>3. ASSUME NEW id \in Ids, Register(id) PROVE OwnerInv'
  BY <1>3 DEF Register
<1>4. ASSUME NEW id \in Ids, MarkLock(id) PROVE OwnerInv'
  BY <1>4 DEF MarkLock, StatusLock
<1>5. ASSUME NEW id \in Ids, MarkLoad(id) PROVE OwnerInv'
  BY <1>5 DEF MarkLoad, StatusLoad
<1>6. ASSUME NEW id \in Ids, MarkSave(id) PROVE OwnerInv'
  BY <1>6 DEF MarkSave, StatusSave
<1>7. ASSUME NEW id \in Ids, WorkSucceeds(id) PROVE OwnerInv'
  BY <1>7 DEF WorkSucceeds
<1>8. ASSUME NEW id \in Ids, WorkFails(id) PROVE OwnerInv'
  BY <1>8 DEF WorkFails
<1>9. ASSUME NEW id \in Ids, FailLock(id) PROVE OwnerInv'
  BY <1>9 DEF FailLock, StatusLock
<1>10. ASSUME NEW id \in Ids, FailLoad(id) PROVE OwnerInv'
  BY <1>10 DEF FailLoad, StatusLoad
<1>11. ASSUME NEW id \in Ids, FailSave(id) PROVE OwnerInv'
  BY <1>11 DEF FailSave, StatusSave
<1>12. ASSUME NEW id \in Ids, WorkerClaims(id) PROVE OwnerInv'
  BY <1>12 DEF WorkerClaims
<1>13. ASSUME NEW id \in Ids, Persist(id) PROVE OwnerInv'
  BY <1>13 DEF Persist
<1>14. ASSUME NEW id \in Ids, PersistFails(id) PROVE OwnerInv'
  BY <1>14 DEF PersistFails
<1>15. ASSUME NEW id \in Ids, RescueLoad(id) PROVE OwnerInv'
  BY <1>15 DEF RescueLoad, StatusLoad
<1>16. ASSUME NEW id \in Ids, RescueSave(id) PROVE OwnerInv'
  BY <1>16 DEF RescueSave, StatusSave
<1>17. ASSUME NEW id \in Ids, WorkerExits(id) PROVE OwnerInv'
  BY <1>17 DEF WorkerExits
<1>18. ASSUME NEW id \in Ids, Get(id) PROVE OwnerInv'
  BY <1>18 DEF Get
<1>19. ASSUME NEW id \in Ids, StartRetentionPasses(id) PROVE OwnerInv'
  BY <1>19 DEF StartRetentionPasses
<1>20. ASSUME NEW id \in Ids, FinishRetentionPasses(id) PROVE OwnerInv'
  BY <1>20 DEF FinishRetentionPasses
<1>21. ASSUME NEW id \in Ids, Deadline(id) PROVE OwnerInv'
  BY <1>21 DEF Deadline
<1>22. ASSUME NEW h \in Handlers, HandlerClaims(h) PROVE OwnerInv'
  BY <1>22 DEF HandlerClaims
<1>23. ASSUME NEW h \in Handlers, NothingToClaim(h) PROVE OwnerInv'
  BY <1>23 DEF NothingToClaim
<1>24. ASSUME NEW h \in Handlers, CancelLoad(h) PROVE OwnerInv'
  BY <1>24 DEF CancelLoad
<1>25. ASSUME NEW h \in Handlers, CancelSave(h) PROVE OwnerInv'
  BY <1>25 DEF CancelSave
<1>26. ASSUME NEW h \in Handlers, CancelAnswers(h) PROVE OwnerInv'
  BY <1>26 DEF CancelAnswers
<1>27. ASSUME NEW h \in Handlers, CancelRefuses(h) PROVE OwnerInv'
  BY <1>27 DEF CancelRefuses
<1>28. ASSUME NEW h \in Handlers, Delete(h) PROVE OwnerInv'
  BY <1>28 DEF Delete
<1>29. ASSUME NEW h \in Handlers, NEW id \in Ids, NEW op \in {"cancel", "delete"},
            Begin(h, op, id)
      PROVE OwnerInv'
  BY <1>29 DEF Begin
<1>30. CASE Crash
  BY <1>30 DEF Crash
<1>31. CASE UNCHANGED vars
  BY <1>31 DEF vars
<1> QED
  BY <1>1, <1>2, <1>3, <1>4, <1>5, <1>6, <1>7, <1>8, <1>9, <1>10, <1>11, <1>12, <1>13,
     <1>14,
     <1>15, <1>16, <1>17, <1>18, <1>19, <1>20, <1>21, <1>22, <1>23, <1>24, <1>25, <1>26,
        <1>27, <1>28, <1>29, <1>30, <1>31 DEF Next, WorkerStep, HandlerStep
-----------------------------------------------------------------------------
(* What is about to be written back has a status of its own kind.          *)
LEMMA LocalsStep == TypeOK /\ LocalsInv /\ [Next]_vars => LocalsInv'
<1> SUFFICES ASSUME TypeOK /\ LocalsInv, [Next]_vars PROVE LocalsInv'
  OBVIOUS
<1> USE DEF TypeOK, LocalsInv, Absent, worker, handler, WorkerAt, HandlerAt, Answers,
   CancelContext
<1>1. ASSUME NEW id \in Ids, StartSaves(id) PROVE LocalsInv'
  BY <1>1 DEF StartSaves
<1>2. ASSUME NEW id \in Ids, StartFails(id) PROVE LocalsInv'
  BY <1>2 DEF StartFails
<1>3. ASSUME NEW id \in Ids, Register(id) PROVE LocalsInv'
  BY <1>3 DEF Register
<1>4. ASSUME NEW id \in Ids, MarkLock(id) PROVE LocalsInv'
  BY <1>4 DEF MarkLock, StatusLock
<1>5. ASSUME NEW id \in Ids, MarkLoad(id) PROVE LocalsInv'
  BY <1>5 DEF MarkLoad, StatusLoad
<1>6. ASSUME NEW id \in Ids, MarkSave(id) PROVE LocalsInv'
  BY <1>6 DEF MarkSave, StatusSave
<1>7. ASSUME NEW id \in Ids, WorkSucceeds(id) PROVE LocalsInv'
  BY <1>7 DEF WorkSucceeds
<1>8. ASSUME NEW id \in Ids, WorkFails(id) PROVE LocalsInv'
  BY <1>8 DEF WorkFails
<1>9. ASSUME NEW id \in Ids, FailLock(id) PROVE LocalsInv'
  BY <1>9 DEF FailLock, StatusLock
<1>10. ASSUME NEW id \in Ids, FailLoad(id) PROVE LocalsInv'
  BY <1>10 DEF FailLoad, StatusLoad
<1>11. ASSUME NEW id \in Ids, FailSave(id) PROVE LocalsInv'
  BY <1>11 DEF FailSave, StatusSave
<1>12. ASSUME NEW id \in Ids, WorkerClaims(id) PROVE LocalsInv'
  BY <1>12 DEF WorkerClaims
<1>13. ASSUME NEW id \in Ids, Persist(id) PROVE LocalsInv'
  BY <1>13 DEF Persist
<1>14. ASSUME NEW id \in Ids, PersistFails(id) PROVE LocalsInv'
  BY <1>14 DEF PersistFails
<1>15. ASSUME NEW id \in Ids, RescueLoad(id) PROVE LocalsInv'
  BY <1>15 DEF RescueLoad, StatusLoad
<1>16. ASSUME NEW id \in Ids, RescueSave(id) PROVE LocalsInv'
  BY <1>16 DEF RescueSave, StatusSave
<1>17. ASSUME NEW id \in Ids, WorkerExits(id) PROVE LocalsInv'
  BY <1>17 DEF WorkerExits
<1>18. ASSUME NEW id \in Ids, Get(id) PROVE LocalsInv'
  BY <1>18 DEF Get
<1>19. ASSUME NEW id \in Ids, StartRetentionPasses(id) PROVE LocalsInv'
  BY <1>19 DEF StartRetentionPasses
<1>20. ASSUME NEW id \in Ids, FinishRetentionPasses(id) PROVE LocalsInv'
  BY <1>20 DEF FinishRetentionPasses
<1>21. ASSUME NEW id \in Ids, Deadline(id) PROVE LocalsInv'
  BY <1>21 DEF Deadline
<1>22. ASSUME NEW h \in Handlers, HandlerClaims(h) PROVE LocalsInv'
  BY <1>22 DEF HandlerClaims
<1>23. ASSUME NEW h \in Handlers, NothingToClaim(h) PROVE LocalsInv'
  BY <1>23 DEF NothingToClaim
<1>24. ASSUME NEW h \in Handlers, CancelLoad(h) PROVE LocalsInv'
  BY <1>24 DEF CancelLoad
<1>25. ASSUME NEW h \in Handlers, CancelSave(h) PROVE LocalsInv'
  BY <1>25 DEF CancelSave
<1>26. ASSUME NEW h \in Handlers, CancelAnswers(h) PROVE LocalsInv'
  BY <1>26 DEF CancelAnswers
<1>27. ASSUME NEW h \in Handlers, CancelRefuses(h) PROVE LocalsInv'
  BY <1>27 DEF CancelRefuses
<1>28. ASSUME NEW h \in Handlers, Delete(h) PROVE LocalsInv'
  BY <1>28 DEF Delete
<1>29. ASSUME NEW h \in Handlers, NEW id \in Ids, NEW op \in {"cancel", "delete"},
            Begin(h, op, id)
      PROVE LocalsInv'
  BY <1>29 DEF Begin
<1>30. CASE Crash
  BY <1>30 DEF Crash
<1>31. CASE UNCHANGED vars
  BY <1>31 DEF vars
<1> QED
  BY <1>1, <1>2, <1>3, <1>4, <1>5, <1>6, <1>7, <1>8, <1>9, <1>10, <1>11, <1>12, <1>13,
     <1>14,
     <1>15, <1>16, <1>17, <1>18, <1>19, <1>20, <1>21, <1>22, <1>23, <1>24, <1>25, <1>26,
        <1>27, <1>28, <1>29, <1>30, <1>31 DEF Next, WorkerStep, HandlerStep
-----------------------------------------------------------------------------
(* A result is only stored by a worker that owns the outcome.              *)
LEMMA StoreStep == IInv /\ [Next]_vars => StoreInv'
<1> SUFFICES ASSUME IInv, [Next]_vars PROVE StoreInv'
  OBVIOUS
<1> USE DEF IInv, OwnerInv, OwnerAt, LocalsInv, StoreInv, Absent, QueuedRecord, Final
<1>1. ASSUME NEW id \in Ids, StartSaves(id) PROVE StoreInv'
  <2>2. QueuedRecord \in Record BY AbsentIsRecord DEF TypeOK
  <2>3. Stores(id, {QueuedRecord, store[id]})
    BY <2>2, <1>1, SaveStores, SaveErrsStores DEF StartSaves, Stores
  <2>4. \A i \in Ids : owner[i] # owner'[i] => i = id /\ owner'[i] \in {"open", "lost"}
    BY <1>1 DEF StartSaves, TypeOK
  <2> QED BY <1>1, <2>2, <2>3, <2>4 DEF StartSaves, Stores, WorkerAt, HandlerAt, Answers
<1>2. ASSUME NEW id \in Ids, StartFails(id) PROVE StoreInv'
  <2>2. QueuedRecord \in Record BY AbsentIsRecord DEF TypeOK
  <2>3. Stores(id, {QueuedRecord, store[id]})
    BY <2>2, <1>2, SaveStores, SaveErrsStores DEF StartFails, Stores
  <2>4. \A i \in Ids : owner[i] # owner'[i] => i = id /\ owner'[i] \in {"open", "lost"}
    BY <1>2 DEF StartFails, TypeOK
  <2> QED BY <1>2, <2>2, <2>3, <2>4 DEF StartFails, Stores, WorkerAt, HandlerAt, Answers
<1>3. ASSUME NEW id \in Ids, Register(id) PROVE StoreInv'
  BY <1>3 DEF Register
<1>4. ASSUME NEW id \in Ids, MarkLock(id) PROVE StoreInv'
  BY <1>4 DEF MarkLock, StatusLock
<1>5. ASSUME NEW id \in Ids, MarkLoad(id) PROVE StoreInv'
  <2>2. Vanishes BY <1>5, LoadVanishes DEF MarkLoad, StatusLoad
  <2>3. owner' = owner BY <1>5 DEF MarkLoad, StatusLoad
  <2> QED BY <2>2, <2>3 DEF Vanishes
<1>6. ASSUME NEW id \in Ids, MarkSave(id) PROVE StoreInv'
  <2>2. wrec[id] \in Record BY AbsentIsRecord DEF TypeOK
  <2>3. Stores(id, {wrec[id], store[id]})
    BY <2>2, <1>6, SaveStores, SaveErrsStores DEF MarkSave, StatusSave, Stores
  <2>4. owner' = owner
    BY <1>6 DEF MarkSave, StatusSave, TypeOK
  <2> QED BY <1>6, <2>2, <2>3, <2>4 DEF MarkSave, StatusSave, Stores, WorkerAt, HandlerAt,
     Answers
<1>7. ASSUME NEW id \in Ids, WorkSucceeds(id) PROVE StoreInv'
  BY <1>7 DEF WorkSucceeds
<1>8. ASSUME NEW id \in Ids, WorkFails(id) PROVE StoreInv'
  BY <1>8 DEF WorkFails
<1>9. ASSUME NEW id \in Ids, FailLock(id) PROVE StoreInv'
  BY <1>9 DEF FailLock, StatusLock
<1>10. ASSUME NEW id \in Ids, FailLoad(id) PROVE StoreInv'
  <2>2. Vanishes BY <1>10, LoadVanishes DEF FailLoad, StatusLoad
  <2>3. owner' = owner BY <1>10 DEF FailLoad, StatusLoad
  <2> QED BY <2>2, <2>3 DEF Vanishes
<1>11. ASSUME NEW id \in Ids, FailSave(id) PROVE StoreInv'
  <2>2. wrec[id] \in Record BY AbsentIsRecord DEF TypeOK
  <2>3. Stores(id, {wrec[id], store[id]})
    BY <2>2, <1>11, SaveStores, SaveErrsStores DEF FailSave, StatusSave, Stores
  <2>4. owner' = owner
    BY <1>11 DEF FailSave, StatusSave, TypeOK
  <2> QED BY <1>11, <2>2, <2>3, <2>4 DEF FailSave, StatusSave, Stores, WorkerAt, HandlerAt,
     Answers
<1>12. ASSUME NEW id \in Ids, WorkerClaims(id) PROVE StoreInv'
  BY <1>12 DEF WorkerClaims, WorkerAt, TypeOK
<1>13. ASSUME NEW id \in Ids, Persist(id) PROVE StoreInv'
  <2>1. FinalRecords \subseteq Record /\ \A r \in FinalRecords : r.status \in Final
    BY DEF FinalRecords, Record, Status, Final, Timers
  <2>2. PICK rec \in FinalRecords : Stores(id, {rec, store[id]})
    BY <2>1, <1>13, SaveStores, SaveErrsStores DEF Persist, Stores
  <2>4. owner[id] = "worker" BY <1>13 DEF OwnerInv, OwnerAt, Persist, WorkerAt, TypeOK
  <2>3. owner' = [owner EXCEPT ![id] = "settled"] BY <1>13, <2>4 DEF Persist, TypeOK
  <2> QED BY <2>1, <2>2, <2>3 DEF Stores, TypeOK
<1>14. ASSUME NEW id \in Ids, PersistFails(id) PROVE StoreInv'
  <2>1. FinalRecords \subseteq Record /\ \A r \in FinalRecords : r.status \in Final
    BY DEF FinalRecords, Record, Status, Final, Timers
  <2>2. PICK rec \in FinalRecords : Stores(id, {rec, store[id]})
    BY <2>1, <1>14, SaveStores, SaveErrsStores DEF PersistFails, Stores
  <2>3. owner' = [owner EXCEPT ![id] = "rescue"] BY <1>14 DEF PersistFails
  <2> QED BY <2>1, <2>2, <2>3 DEF Stores, TypeOK
<1>15. ASSUME NEW id \in Ids, RescueLoad(id) PROVE StoreInv'
  <2>2. Vanishes BY <1>15, LoadVanishes DEF RescueLoad, StatusLoad
  <2>3. owner' = owner BY <1>15 DEF RescueLoad, StatusLoad
  <2> QED BY <2>2, <2>3 DEF Vanishes
<1>16. ASSUME NEW id \in Ids, RescueSave(id) PROVE StoreInv'
  <2>2. wrec[id] \in Record BY AbsentIsRecord DEF TypeOK
  <2>3. Stores(id, {wrec[id], store[id]})
    BY <2>2, <1>16, SaveStores, SaveErrsStores DEF RescueSave, StatusSave, Stores
  <2>4. owner' = owner
    BY <1>16 DEF RescueSave, StatusSave, TypeOK
  <2> QED BY <1>16, <2>2, <2>3, <2>4 DEF RescueSave, StatusSave, Stores, WorkerAt,
     HandlerAt, Answers
<1>17. ASSUME NEW id \in Ids, WorkerExits(id) PROVE StoreInv'
  BY <1>17 DEF WorkerExits
<1>18. ASSUME NEW id \in Ids, Get(id) PROVE StoreInv'
  <2>2. Vanishes BY <1>18, LoadVanishes DEF Get
  <2>3. owner' = owner BY <1>18 DEF Get
  <2> QED BY <2>2, <2>3 DEF Vanishes
<1>19. ASSUME NEW id \in Ids, StartRetentionPasses(id) PROVE StoreInv'
  BY <1>19 DEF StartRetentionPasses
<1>20. ASSUME NEW id \in Ids, FinishRetentionPasses(id) PROVE StoreInv'
  BY <1>20 DEF FinishRetentionPasses
<1>21. ASSUME NEW id \in Ids, Deadline(id) PROVE StoreInv'
  BY <1>21 DEF Deadline
<1>22. ASSUME NEW h \in Handlers, HandlerClaims(h) PROVE StoreInv'
  BY <1>22 DEF HandlerClaims
<1>23. ASSUME NEW h \in Handlers, NothingToClaim(h) PROVE StoreInv'
  BY <1>23 DEF NothingToClaim
<1>24. ASSUME NEW h \in Handlers, CancelLoad(h) PROVE StoreInv'
  <2>1. hid[h] \in Ids BY DEF TypeOK
  <2>2. Vanishes BY <2>1, <1>24, LoadVanishes DEF CancelLoad
  <2>3. owner' = owner BY <1>24 DEF CancelLoad
  <2> QED BY <2>2, <2>3 DEF Vanishes
<1>25. ASSUME NEW h \in Handlers, CancelSave(h) PROVE StoreInv'
  <2>1. hid[h] \in Ids BY DEF TypeOK
  <2>2. hrec[h] \in Record BY <2>1, AbsentIsRecord DEF TypeOK
  <2>3. Stores(hid[h], {hrec[h], store[hid[h]]})
    BY <2>1, <2>2, <1>25, SaveStores, SaveErrsStores DEF CancelSave, Stores
  <2>4. owner' = owner
    BY <1>25 DEF CancelSave, TypeOK
  <2> QED BY <2>1, <1>25, <2>2, <2>3, <2>4 DEF CancelSave, Stores, WorkerAt, HandlerAt,
     Answers
<1>26. ASSUME NEW h \in Handlers, CancelAnswers(h) PROVE StoreInv'
  <2>1. hid[h] \in Ids BY DEF TypeOK
  <2>2. Vanishes BY <2>1, <1>26, LoadVanishes DEF CancelAnswers
  <2>3. owner' = owner BY <1>26 DEF CancelAnswers
  <2> QED BY <2>2, <2>3 DEF Vanishes
<1>27. ASSUME NEW h \in Handlers, CancelRefuses(h) PROVE StoreInv'
  <2>1. hid[h] \in Ids BY DEF TypeOK
  <2>2. Vanishes BY <2>1, <1>27, LoadVanishes DEF CancelRefuses
  <2>3. owner' = owner BY <1>27 DEF CancelRefuses
  <2> QED BY <2>2, <2>3 DEF Vanishes
<1>28. ASSUME NEW h \in Handlers, Delete(h) PROVE StoreInv'
  <2>1. hid[h] \in Ids BY DEF TypeOK
  <2>2. Vanishes BY <2>1, <1>28, DeleteVanishes DEF Delete
  <2>3. owner' = owner BY <1>28 DEF Delete
  <2> QED BY <2>2, <2>3 DEF Vanishes
<1>29. ASSUME NEW h \in Handlers, NEW id \in Ids, NEW op \in {"cancel", "delete"},
            Begin(h, op, id)
      PROVE StoreInv'
  BY <1>29 DEF Begin
<1>30. CASE Crash
  BY <1>30 DEF Crash
<1>31. CASE UNCHANGED vars
  BY <1>31 DEF vars
<1> QED
  BY <1>1, <1>2, <1>3, <1>4, <1>5, <1>6, <1>7, <1>8, <1>9, <1>10, <1>11, <1>12, <1>13,
     <1>14,
     <1>15, <1>16, <1>17, <1>18, <1>19, <1>20, <1>21, <1>22, <1>23, <1>24, <1>25, <1>26,
        <1>27, <1>28, <1>29, <1>30, <1>31 DEF Next, WorkerStep, HandlerStep
-----------------------------------------------------------------------------
(* The inductive invariant and what follows from it                        *)

LEMMA InitIInv == Init => IInv
BY StoreAssumption, AbsentIsRecord DEF Init, IInv, TypeOK, OwnerInv, OwnerAt, LocalsInv,
   StoreInv, Absent, Final, Timers, Working, Decided

LEMMA Inductive == IInv /\ [Next]_vars => IInv'
BY TypeStep, OwnerStep, LocalsStep, StoreStep DEF IInv

THEOREM Invariance == Spec => []IInv
BY InitIInv, Inductive, PTL DEF Spec

(* The state has the declared shape, whatever the number of ids, handlers, *)
(* faults and crashes.                                                     *)
THEOREM TypeCorrect == Spec => []TypeOK
BY Invariance, PTL DEF IInv

(* Of the worker and any number of handlers that cancel or delete a        *)
(* response, at most one decides its outcome.                              *)
THEOREM AtMostOneDecider == Spec => []OneDecider
<1>1. IInv => OneDecider
  BY DEF IInv, TypeOK, OwnerInv, OwnerAt, OneDecider, Deciders, Decided
<1> QED BY <1>1, Invariance, PTL

(* A response that was cancelled or deleted in time never shows a result.  *)
THEOREM NoResultAfterCancel == Spec => []CancelledNeverFinal
<1>1. IInv => CancelledNeverFinal
  BY DEF IInv, StoreInv, CancelledNeverFinal
<1> QED BY <1>1, Invariance, PTL

(* Only a result can be continued by previous_response_id.                 *)
THEOREM OnlyResultsContinue == Spec => []ContinuableOnlyIfFinal
<1>1. IInv => ContinuableOnlyIfFinal
  BY DEF IInv, StoreInv, ContinuableOnlyIfFinal
<1> QED BY <1>1, Invariance, PTL

(* A job in the map has a worker that will remove it.                      *)
THEOREM JobsHaveWorkers == Spec => []NoLeakedJob
<1>1. IInv => NoLeakedJob
  BY DEF IInv, TypeOK, OwnerInv, OwnerAt, NoLeakedJob, Working, Decided
<1> QED BY <1>1, Invariance, PTL

-----------------------------------------------------------------------------
(* A stored result is never replaced, except by its own worker's failure.  *)
LEMMA StableStep == IInv /\ [Next]_vars => ResultKept
<1> SUFFICES ASSUME IInv, [Next]_vars PROVE ResultKept
  OBVIOUS
<1> USE DEF IInv
<1>1. ASSUME NEW id \in Ids, StartSaves(id) PROVE ResultKept
  <2>2. QueuedRecord \in Record BY AbsentIsRecord DEF TypeOK
  <2>3. Stores(id, {QueuedRecord, store[id]})
    BY <2>2, <1>1, SaveStores, SaveErrsStores DEF StartSaves, Stores
  <2> QED BY <1>1, <2>3 DEF StartSaves, Stores, ResultKept, WorkerAt, HandlerAt, Answers,
             OwnerInv, OwnerAt, LocalsInv, StoreInv, TypeOK
<1>2. ASSUME NEW id \in Ids, StartFails(id) PROVE ResultKept
  <2>2. QueuedRecord \in Record BY AbsentIsRecord DEF TypeOK
  <2>3. Stores(id, {QueuedRecord, store[id]})
    BY <2>2, <1>2, SaveStores, SaveErrsStores DEF StartFails, Stores
  <2> QED BY <1>2, <2>3 DEF StartFails, Stores, ResultKept, WorkerAt, HandlerAt, Answers,
             OwnerInv, OwnerAt, LocalsInv, StoreInv, TypeOK
<1>3. ASSUME NEW id \in Ids, Register(id) PROVE ResultKept
  BY <1>3 DEF Register, ResultKept
<1>4. ASSUME NEW id \in Ids, MarkLock(id) PROVE ResultKept
  BY <1>4 DEF MarkLock, StatusLock, ResultKept
<1>5. ASSUME NEW id \in Ids, MarkLoad(id) PROVE ResultKept
  <2>2. Vanishes BY <1>5, LoadVanishes DEF MarkLoad, StatusLoad
  <2> QED BY <2>2 DEF Vanishes, ResultKept
<1>6. ASSUME NEW id \in Ids, MarkSave(id) PROVE ResultKept
  <2>2. wrec[id] \in Record BY AbsentIsRecord DEF TypeOK
  <2>3. Stores(id, {wrec[id], store[id]})
    BY <2>2, <1>6, SaveStores, SaveErrsStores DEF MarkSave, StatusSave, Stores
  <2> QED BY <1>6, <2>3 DEF MarkSave, StatusSave, Stores, ResultKept, WorkerAt, HandlerAt,
     Answers,
             OwnerInv, OwnerAt, LocalsInv, StoreInv, TypeOK
<1>7. ASSUME NEW id \in Ids, WorkSucceeds(id) PROVE ResultKept
  BY <1>7 DEF WorkSucceeds, ResultKept
<1>8. ASSUME NEW id \in Ids, WorkFails(id) PROVE ResultKept
  BY <1>8 DEF WorkFails, ResultKept
<1>9. ASSUME NEW id \in Ids, FailLock(id) PROVE ResultKept
  BY <1>9 DEF FailLock, StatusLock, ResultKept
<1>10. ASSUME NEW id \in Ids, FailLoad(id) PROVE ResultKept
  <2>2. Vanishes BY <1>10, LoadVanishes DEF FailLoad, StatusLoad
  <2> QED BY <2>2 DEF Vanishes, ResultKept
<1>11. ASSUME NEW id \in Ids, FailSave(id) PROVE ResultKept
  <2>2. wrec[id] \in Record BY AbsentIsRecord DEF TypeOK
  <2>3. Stores(id, {wrec[id], store[id]})
    BY <2>2, <1>11, SaveStores, SaveErrsStores DEF FailSave, StatusSave, Stores
  <2> QED BY <1>11, <2>3 DEF FailSave, StatusSave, Stores, ResultKept, WorkerAt, HandlerAt,
     Answers,
             OwnerInv, OwnerAt, LocalsInv, StoreInv, TypeOK
<1>12. ASSUME NEW id \in Ids, WorkerClaims(id) PROVE ResultKept
  BY <1>12 DEF WorkerClaims, ResultKept
<1>13. ASSUME NEW id \in Ids, Persist(id) PROVE ResultKept
  <2>1. FinalRecords \subseteq Record
    BY DEF FinalRecords, Record, Status, Final, Timers
  <2>2. PICK rec \in FinalRecords : Stores(id, {rec, store[id]})
    BY <2>1, <1>13, SaveStores, SaveErrsStores DEF Persist, Stores
  <2>3. store[id].status \notin Final
    BY <1>13 DEF Persist, WorkerAt, OwnerInv, OwnerAt, StoreInv
  <2> QED BY <2>2, <2>3 DEF Stores, ResultKept
<1>14. ASSUME NEW id \in Ids, PersistFails(id) PROVE ResultKept
  <2>1. FinalRecords \subseteq Record
    BY DEF FinalRecords, Record, Status, Final, Timers
  <2>2. PICK rec \in FinalRecords : Stores(id, {rec, store[id]})
    BY <2>1, <1>14, SaveStores, SaveErrsStores DEF PersistFails, Stores
  <2>3. store[id].status \notin Final
    BY <1>14 DEF PersistFails, WorkerAt, OwnerInv, OwnerAt, StoreInv
  <2> QED BY <2>2, <2>3 DEF Stores, ResultKept
<1>15. ASSUME NEW id \in Ids, RescueLoad(id) PROVE ResultKept
  <2>2. Vanishes BY <1>15, LoadVanishes DEF RescueLoad, StatusLoad
  <2> QED BY <2>2 DEF Vanishes, ResultKept
<1>16. ASSUME NEW id \in Ids, RescueSave(id) PROVE ResultKept
  <2>2. wrec[id] \in Record BY AbsentIsRecord DEF TypeOK
  <2>3. Stores(id, {wrec[id], store[id]})
    BY <2>2, <1>16, SaveStores, SaveErrsStores DEF RescueSave, StatusSave, Stores
  <2> QED BY <1>16, <2>3 DEF RescueSave, StatusSave, Stores, ResultKept, WorkerAt,
     HandlerAt, Answers,
             OwnerInv, OwnerAt, LocalsInv, StoreInv, TypeOK
<1>17. ASSUME NEW id \in Ids, WorkerExits(id) PROVE ResultKept
  BY <1>17 DEF WorkerExits, ResultKept
<1>18. ASSUME NEW id \in Ids, Get(id) PROVE ResultKept
  <2>2. Vanishes BY <1>18, LoadVanishes DEF Get
  <2> QED BY <2>2 DEF Vanishes, ResultKept
<1>19. ASSUME NEW id \in Ids, StartRetentionPasses(id) PROVE ResultKept
  BY <1>19 DEF StartRetentionPasses, ResultKept
<1>20. ASSUME NEW id \in Ids, FinishRetentionPasses(id) PROVE ResultKept
  BY <1>20 DEF FinishRetentionPasses, ResultKept
<1>21. ASSUME NEW id \in Ids, Deadline(id) PROVE ResultKept
  BY <1>21 DEF Deadline, ResultKept
<1>22. ASSUME NEW h \in Handlers, HandlerClaims(h) PROVE ResultKept
  BY <1>22 DEF HandlerClaims, ResultKept
<1>23. ASSUME NEW h \in Handlers, NothingToClaim(h) PROVE ResultKept
  BY <1>23 DEF NothingToClaim, ResultKept
<1>24. ASSUME NEW h \in Handlers, CancelLoad(h) PROVE ResultKept
  <2>1. hid[h] \in Ids BY DEF TypeOK
  <2>2. Vanishes BY <2>1, <1>24, LoadVanishes DEF CancelLoad
  <2> QED BY <2>2 DEF Vanishes, ResultKept
<1>25. ASSUME NEW h \in Handlers, CancelSave(h) PROVE ResultKept
  <2>1. hid[h] \in Ids BY DEF TypeOK
  <2>2. hrec[h] \in Record BY <2>1, AbsentIsRecord DEF TypeOK
  <2>3. Stores(hid[h], {hrec[h], store[hid[h]]})
    BY <2>1, <2>2, <1>25, SaveStores, SaveErrsStores DEF CancelSave, Stores
  <2> QED BY <2>1, <1>25, <2>3 DEF CancelSave, Stores, ResultKept, WorkerAt, HandlerAt,
     Answers,
             OwnerInv, OwnerAt, LocalsInv, StoreInv, TypeOK
<1>26. ASSUME NEW h \in Handlers, CancelAnswers(h) PROVE ResultKept
  <2>1. hid[h] \in Ids BY DEF TypeOK
  <2>2. Vanishes BY <2>1, <1>26, LoadVanishes DEF CancelAnswers
  <2> QED BY <2>2 DEF Vanishes, ResultKept
<1>27. ASSUME NEW h \in Handlers, CancelRefuses(h) PROVE ResultKept
  <2>1. hid[h] \in Ids BY DEF TypeOK
  <2>2. Vanishes BY <2>1, <1>27, LoadVanishes DEF CancelRefuses
  <2> QED BY <2>2 DEF Vanishes, ResultKept
<1>28. ASSUME NEW h \in Handlers, Delete(h) PROVE ResultKept
  <2>1. hid[h] \in Ids BY DEF TypeOK
  <2>2. Vanishes BY <2>1, <1>28, DeleteVanishes DEF Delete
  <2> QED BY <2>2 DEF Vanishes, ResultKept
<1>29. ASSUME NEW h \in Handlers, NEW id \in Ids, NEW op \in {"cancel", "delete"},
            Begin(h, op, id)
      PROVE ResultKept
  BY <1>29 DEF Begin, ResultKept
<1>30. CASE Crash
  BY <1>30 DEF Crash, ResultKept
<1>31. CASE UNCHANGED vars
  BY <1>31 DEF vars, ResultKept
<1> QED
  BY <1>1, <1>2, <1>3, <1>4, <1>5, <1>6, <1>7, <1>8, <1>9, <1>10, <1>11, <1>12, <1>13,
     <1>14,
     <1>15, <1>16, <1>17, <1>18, <1>19, <1>20, <1>21, <1>22, <1>23, <1>24, <1>25, <1>26,
        <1>27, <1>28, <1>29, <1>30, <1>31 DEF Next, WorkerStep, HandlerStep

(* A result, once stored, stays what it is until it expires, is deleted,   *)
(* or its own worker reports that saving it failed.                        *)
THEOREM ResultsAreStable == Spec => FinalIsStable
BY Invariance, StableStep, PTL DEF Spec, FinalIsStable

-----------------------------------------------------------------------------
(* The refinement of ResponseOutcome                                       *)

OutcomeStep ==
  Outcome!Next \/ UNCHANGED <<[id \in Ids |-> store[id].status], owner>>

LEMMA VanishMapsTo ==
  ASSUME Vanishes PROVE Outcome!MayVanish(Ids)
BY DEF Vanishes, Outcome!MayVanish, Absent

-----------------------------------------------------------------------------
(* Every step is a step of the promise, or invisible to it.                *)
LEMMA OutcomeStepHolds == IInv /\ [Next]_vars => OutcomeStep
<1> SUFFICES ASSUME IInv, [Next]_vars PROVE OutcomeStep
  OBVIOUS
<1> USE DEF IInv
<1>1. ASSUME NEW id \in Ids, StartSaves(id) PROVE OutcomeStep
  <2>2. QueuedRecord \in Record BY AbsentIsRecord DEF TypeOK
  <2>3. Stores(id, {QueuedRecord})
    BY <2>2, <1>1, SaveStores, SaveErrsStores DEF StartSaves, Stores
  <2>4. Outcome!Writes(id, {QueuedRecord.status})
    <3>1. \A r \in {QueuedRecord} : r.status \in {QueuedRecord.status} OBVIOUS
    <3> QED BY <2>3, <3>1 DEF Stores, Outcome!Writes, Outcome!MayVanish, Absent
  <2>5. Outcome!Accept(id)
    BY <2>4, <1>1 DEF StartSaves, WorkerAt, HandlerAt, Answers, QueuedRecord, OwnerInv,
       OwnerAt,
       LocalsInv, TypeOK, Outcome!Accept, Outcome!Writes, Outcome!Turns
  <2>6. \E i \in Ids : Outcome!Accept(i) BY <2>5 DEF Outcome!Accept, Outcome!Writes,
       Outcome!Turns, Outcome!MayVanish
  <2> QED BY <2>6 DEF OutcomeStep, Outcome!Next
<1>2. ASSUME NEW id \in Ids, StartFails(id) PROVE OutcomeStep
  <2>2. QueuedRecord \in Record BY AbsentIsRecord DEF TypeOK
  <2>3. Stores(id, {QueuedRecord, store[id]})
    BY <2>2, <1>2, SaveStores, SaveErrsStores DEF StartFails, Stores
  <2>4. Outcome!Writes(id, {QueuedRecord.status, store[id].status})
    <3>1. \A r \in {QueuedRecord, store[id]} : r.status \in {QueuedRecord.status,
       store[id].status} OBVIOUS
    <3> QED BY <2>3, <3>1 DEF Stores, Outcome!Writes, Outcome!MayVanish, Absent
  <2>5. Outcome!Reject(id)
    BY <2>4, <1>2 DEF StartFails, WorkerAt, HandlerAt, Answers, QueuedRecord, OwnerInv,
       OwnerAt,
       LocalsInv, TypeOK, Outcome!Reject, Outcome!Writes, Outcome!Turns
  <2>6. \E i \in Ids : Outcome!Reject(i) BY <2>5 DEF Outcome!Reject, Outcome!Writes,
       Outcome!Turns, Outcome!MayVanish
  <2> QED BY <2>6 DEF OutcomeStep, Outcome!Next
<1>3. ASSUME NEW id \in Ids, Register(id) PROVE OutcomeStep
  BY <1>3 DEF Register, OutcomeStep
<1>4. ASSUME NEW id \in Ids, MarkLock(id) PROVE OutcomeStep
  BY <1>4 DEF MarkLock, StatusLock, OutcomeStep
<1>5. ASSUME NEW id \in Ids, MarkLoad(id) PROVE OutcomeStep
  <2>2. Vanishes BY <1>5, LoadVanishes DEF MarkLoad, StatusLoad
  <2>3. owner' = owner BY <1>5 DEF MarkLoad, StatusLoad
  <2> QED BY <2>2, <2>3, VanishMapsTo DEF OutcomeStep, Outcome!Next, Outcome!Vanish
<1>6. ASSUME NEW id \in Ids, MarkSave(id) PROVE OutcomeStep
  <2>2. wrec[id] \in Record BY AbsentIsRecord DEF TypeOK
  <2>3. Stores(id, {wrec[id], store[id]})
    BY <2>2, <1>6, SaveStores, SaveErrsStores DEF MarkSave, StatusSave, Stores
  <2>4. Outcome!Writes(id, {wrec[id].status, store[id].status})
    <3>1. \A r \in {wrec[id], store[id]} : r.status \in {wrec[id].status,
       store[id].status} OBVIOUS
    <3> QED BY <2>3, <3>1 DEF Stores, Outcome!Writes, Outcome!MayVanish, Absent
  <2>5. Outcome!Report(id)
    BY <2>4, <1>6 DEF MarkSave, StatusSave, WorkerAt, HandlerAt, Answers, QueuedRecord,
       OwnerInv, OwnerAt,
       LocalsInv, TypeOK, Outcome!Report, Outcome!Writes, Outcome!Turns
  <2>6. \E i \in Ids : Outcome!Report(i) BY <2>5 DEF Outcome!Report, Outcome!Writes,
       Outcome!Turns, Outcome!MayVanish
  <2> QED BY <2>6 DEF OutcomeStep, Outcome!Next
<1>7. ASSUME NEW id \in Ids, WorkSucceeds(id) PROVE OutcomeStep
  BY <1>7 DEF WorkSucceeds, OutcomeStep
<1>8. ASSUME NEW id \in Ids, WorkFails(id) PROVE OutcomeStep
  BY <1>8 DEF WorkFails, OutcomeStep
<1>9. ASSUME NEW id \in Ids, FailLock(id) PROVE OutcomeStep
  BY <1>9 DEF FailLock, StatusLock, OutcomeStep
<1>10. ASSUME NEW id \in Ids, FailLoad(id) PROVE OutcomeStep
  <2>2. Vanishes BY <1>10, LoadVanishes DEF FailLoad, StatusLoad
  <2>3. owner' = owner BY <1>10 DEF FailLoad, StatusLoad
  <2> QED BY <2>2, <2>3, VanishMapsTo DEF OutcomeStep, Outcome!Next, Outcome!Vanish
<1>11. ASSUME NEW id \in Ids, FailSave(id) PROVE OutcomeStep
  <2>2. wrec[id] \in Record BY AbsentIsRecord DEF TypeOK
  <2>3. Stores(id, {wrec[id], store[id]})
    BY <2>2, <1>11, SaveStores, SaveErrsStores DEF FailSave, StatusSave, Stores
  <2>4. Outcome!Writes(id, {wrec[id].status, store[id].status})
    <3>1. \A r \in {wrec[id], store[id]} : r.status \in {wrec[id].status,
       store[id].status} OBVIOUS
    <3> QED BY <2>3, <3>1 DEF Stores, Outcome!Writes, Outcome!MayVanish, Absent
  <2>5. Outcome!Report(id)
    BY <2>4, <1>11 DEF FailSave, StatusSave, WorkerAt, HandlerAt, Answers, QueuedRecord,
       OwnerInv, OwnerAt,
       LocalsInv, TypeOK, Outcome!Report, Outcome!Writes, Outcome!Turns
  <2>6. \E i \in Ids : Outcome!Report(i) BY <2>5 DEF Outcome!Report, Outcome!Writes,
       Outcome!Turns, Outcome!MayVanish
  <2> QED BY <2>6 DEF OutcomeStep, Outcome!Next
<1>12. ASSUME NEW id \in Ids, WorkerClaims(id) PROVE OutcomeStep
  <2>1. CASE id \in background
    <3>1. Outcome!Claim(id, "worker")
      BY <1>12, <2>1 DEF WorkerClaims, OwnerInv, TypeOK, Outcome!Claim, Outcome!Turns,
         Outcome!MayVanish
    <3> QED BY <3>1 DEF OutcomeStep, Outcome!Next
  <2>2. CASE id \notin background
    BY <1>12, <2>2 DEF WorkerClaims, OutcomeStep
  <2> QED BY <2>1, <2>2
<1>13. ASSUME NEW id \in Ids, Persist(id) PROVE OutcomeStep
  <2>1. FinalRecords \subseteq Record /\ \A r \in FinalRecords : r.status \in Final
    BY DEF FinalRecords, Record, Status, Final, Timers
  <2>2. PICK rec \in FinalRecords : Stores(id, {rec})
    BY <2>1, <1>13, SaveStores, SaveErrsStores DEF Persist, Stores
  <2>3. Outcome!Writes(id, Final)
    <3>1. \A r \in {rec} : r.status \in Final
      BY <2>1
    <3> QED BY <2>2, <3>1 DEF Stores, Outcome!Writes, Outcome!MayVanish, Absent
  <2>4. Outcome!Publish(id)
    BY <2>3, <1>13 DEF Persist, WorkerAt, OwnerInv, OwnerAt, Final, Outcome!Publish,
       Outcome!Writes, Outcome!Turns, Outcome!Result
  <2> QED BY <2>4 DEF OutcomeStep, Outcome!Next
<1>14. ASSUME NEW id \in Ids, PersistFails(id) PROVE OutcomeStep
  <2>1. FinalRecords \subseteq Record /\ \A r \in FinalRecords : r.status \in Final
    BY DEF FinalRecords, Record, Status, Final, Timers
  <2>2. PICK rec \in FinalRecords : Stores(id, {rec, store[id]})
    BY <2>1, <1>14, SaveStores, SaveErrsStores DEF PersistFails, Stores
  <2>3. Outcome!Writes(id, Final \cup {store[id].status})
    <3>1. \A r \in {rec, store[id]} : r.status \in Final \cup {store[id].status}
      BY <2>1
    <3> QED BY <2>2, <3>1 DEF Stores, Outcome!Writes, Outcome!MayVanish, Absent
  <2>4. Outcome!PublishFails(id)
    BY <2>3, <1>14 DEF PersistFails, WorkerAt, OwnerInv, OwnerAt, Final,
       Outcome!PublishFails,
       Outcome!Writes, Outcome!Turns, Outcome!Result
  <2> QED BY <2>4 DEF OutcomeStep, Outcome!Next
<1>15. ASSUME NEW id \in Ids, RescueLoad(id) PROVE OutcomeStep
  <2>2. Vanishes BY <1>15, LoadVanishes DEF RescueLoad, StatusLoad
  <2>3. owner' = owner BY <1>15 DEF RescueLoad, StatusLoad
  <2> QED BY <2>2, <2>3, VanishMapsTo DEF OutcomeStep, Outcome!Next, Outcome!Vanish
<1>16. ASSUME NEW id \in Ids, RescueSave(id) PROVE OutcomeStep
  <2>2. wrec[id] \in Record BY AbsentIsRecord DEF TypeOK
  <2>3. Stores(id, {wrec[id], store[id]})
    BY <2>2, <1>16, SaveStores, SaveErrsStores DEF RescueSave, StatusSave, Stores
  <2>4. Outcome!Writes(id, {wrec[id].status, store[id].status})
    <3>1. \A r \in {wrec[id], store[id]} : r.status \in {wrec[id].status,
       store[id].status} OBVIOUS
    <3> QED BY <2>3, <3>1 DEF Stores, Outcome!Writes, Outcome!MayVanish, Absent
  <2>5. Outcome!Rescue(id)
    BY <2>4, <1>16 DEF RescueSave, StatusSave, WorkerAt, HandlerAt, Answers, QueuedRecord,
       OwnerInv, OwnerAt,
       LocalsInv, TypeOK, Outcome!Rescue, Outcome!Writes, Outcome!Turns
  <2>6. \E i \in Ids : Outcome!Rescue(i) BY <2>5 DEF Outcome!Rescue, Outcome!Writes,
       Outcome!Turns, Outcome!MayVanish
  <2> QED BY <2>6 DEF OutcomeStep, Outcome!Next
<1>17. ASSUME NEW id \in Ids, WorkerExits(id) PROVE OutcomeStep
  <2>1. CASE owner[id] = "caller"
    BY <1>17, <2>1 DEF WorkerExits, OutcomeStep, TypeOK
  <2>2. CASE owner[id] # "caller"
    <3>1. Outcome!End(id)
      BY <1>17, <2>2 DEF WorkerExits, WorkerAt, OwnerInv, OwnerAt, TypeOK, Outcome!End,
         Outcome!Turns,
         Outcome!MayVanish
    <3> QED BY <3>1 DEF OutcomeStep, Outcome!Next
  <2> QED BY <2>1, <2>2
<1>18. ASSUME NEW id \in Ids, Get(id) PROVE OutcomeStep
  <2>2. Vanishes BY <1>18, LoadVanishes DEF Get
  <2>3. owner' = owner BY <1>18 DEF Get
  <2> QED BY <2>2, <2>3, VanishMapsTo DEF OutcomeStep, Outcome!Next, Outcome!Vanish
<1>19. ASSUME NEW id \in Ids, StartRetentionPasses(id) PROVE OutcomeStep
  BY <1>19 DEF StartRetentionPasses, OutcomeStep
<1>20. ASSUME NEW id \in Ids, FinishRetentionPasses(id) PROVE OutcomeStep
  BY <1>20 DEF FinishRetentionPasses, OutcomeStep
<1>21. ASSUME NEW id \in Ids, Deadline(id) PROVE OutcomeStep
  BY <1>21 DEF Deadline, OutcomeStep
<1>22. ASSUME NEW h \in Handlers, HandlerClaims(h) PROVE OutcomeStep
  <2>1. hid[h] \in Ids BY DEF TypeOK
  <2>2. Outcome!Claim(hid[h], "caller")
    BY <1>22, <2>1 DEF HandlerClaims, OwnerInv, TypeOK, Outcome!Claim, Outcome!Turns,
       Outcome!MayVanish
  <2> QED BY <2>1, <2>2 DEF OutcomeStep, Outcome!Next
<1>23. ASSUME NEW h \in Handlers, NothingToClaim(h) PROVE OutcomeStep
  BY <1>23 DEF NothingToClaim, OutcomeStep
<1>24. ASSUME NEW h \in Handlers, CancelLoad(h) PROVE OutcomeStep
  <2>1. hid[h] \in Ids BY DEF TypeOK
  <2>2. Vanishes BY <2>1, <1>24, LoadVanishes DEF CancelLoad
  <2>3. owner' = owner BY <1>24 DEF CancelLoad
  <2> QED BY <2>2, <2>3, VanishMapsTo DEF OutcomeStep, Outcome!Next, Outcome!Vanish
<1>25. ASSUME NEW h \in Handlers, CancelSave(h) PROVE OutcomeStep
  <2>1. hid[h] \in Ids BY DEF TypeOK
  <2>2. hrec[h] \in Record BY <2>1, AbsentIsRecord DEF TypeOK
  <2>3. Stores(hid[h], {hrec[h], store[hid[h]]})
    BY <2>1, <2>2, <1>25, SaveStores, SaveErrsStores DEF CancelSave, Stores
  <2>4. Outcome!Writes(hid[h], {hrec[h].status, store[hid[h]].status})
    <3>1. \A r \in {hrec[h], store[hid[h]]} : r.status \in {hrec[h].status,
       store[hid[h]].status} OBVIOUS
    <3> QED BY <2>1, <2>3, <3>1 DEF Stores, Outcome!Writes, Outcome!MayVanish, Absent
  <2>5. Outcome!Cancel(hid[h])
    BY <2>1, <2>4, <1>25 DEF CancelSave, WorkerAt, HandlerAt, Answers, QueuedRecord,
       OwnerInv, OwnerAt,
       LocalsInv, TypeOK, Outcome!Cancel, Outcome!Writes, Outcome!Turns
  <2>6. \E i \in Ids : Outcome!Cancel(i) BY <2>1, <2>5 DEF Outcome!Cancel, Outcome!Writes,
       Outcome!Turns, Outcome!MayVanish
  <2> QED BY <2>6 DEF OutcomeStep, Outcome!Next
<1>26. ASSUME NEW h \in Handlers, CancelAnswers(h) PROVE OutcomeStep
  <2>1. hid[h] \in Ids BY DEF TypeOK
  <2>2. Vanishes BY <2>1, <1>26, LoadVanishes DEF CancelAnswers
  <2>3. owner' = owner BY <1>26 DEF CancelAnswers
  <2> QED BY <2>2, <2>3, VanishMapsTo DEF OutcomeStep, Outcome!Next, Outcome!Vanish
<1>27. ASSUME NEW h \in Handlers, CancelRefuses(h) PROVE OutcomeStep
  <2>1. hid[h] \in Ids BY DEF TypeOK
  <2>2. Vanishes BY <2>1, <1>27, LoadVanishes DEF CancelRefuses
  <2>3. owner' = owner BY <1>27 DEF CancelRefuses
  <2> QED BY <2>2, <2>3, VanishMapsTo DEF OutcomeStep, Outcome!Next, Outcome!Vanish
<1>28. ASSUME NEW h \in Handlers, Delete(h) PROVE OutcomeStep
  <2>1. hid[h] \in Ids BY DEF TypeOK
  <2>2. Vanishes BY <2>1, <1>28, DeleteVanishes DEF Delete
  <2>3. owner' = owner BY <1>28 DEF Delete
  <2> QED BY <2>2, <2>3, VanishMapsTo DEF OutcomeStep, Outcome!Next, Outcome!Vanish
<1>29. ASSUME NEW h \in Handlers, NEW id \in Ids, NEW op \in {"cancel", "delete"},
            Begin(h, op, id)
      PROVE OutcomeStep
  BY <1>29 DEF Begin, OutcomeStep
<1>30. CASE Crash
  <2>1. \A i \in Ids : store'[i].status \in {store[i].status, "absent"}
    BY <1>30 DEF Crash, Absent
  <2>2. Outcome!Restart
    BY <1>30, <2>1 DEF Crash, Outcome!Restart, Outcome!MayVanish
  <2> QED BY <2>2 DEF OutcomeStep, Outcome!Next
<1>31. CASE UNCHANGED vars
  BY <1>31 DEF vars, OutcomeStep
<1> QED
  BY <1>1, <1>2, <1>3, <1>4, <1>5, <1>6, <1>7, <1>8, <1>9, <1>10, <1>11, <1>12, <1>13,
     <1>14,
     <1>15, <1>16, <1>17, <1>18, <1>19, <1>20, <1>21, <1>22, <1>23, <1>24, <1>25, <1>26,
        <1>27, <1>28, <1>29, <1>30, <1>31 DEF Next, WorkerStep, HandlerStep

(* The handlers, workers, clocks and crashes implement ResponseOutcome.    *)
THEOREM ImplementsOutcome == Spec => KeepsOutcome
<1>1. Init => Outcome!Init
  BY DEF Init, Outcome!Init, Absent
<1>2. IInv /\ [Next]_vars =>
        [Outcome!Next]_<<[id \in Ids |-> store[id].status], owner>>
  BY OutcomeStepHolds DEF OutcomeStep
<1> QED
  BY <1>1, <1>2, Invariance, PTL DEF Spec, KeepsOutcome, Outcome!Spec

=============================================================================
