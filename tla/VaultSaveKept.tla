---------------------------- MODULE VaultSaveKept ----------------------------
(***************************************************************************)
(* What the save coordinator keeps, for any number of files, sessions and  *)
(* edits: the cloud pushes it owes, however saves are coalesced, and the   *)
(* promise of VaultPromise, step by step.                                  *)
(***************************************************************************)
EXTENDS VaultSaveProofs, VaultSaveRefines

-----------------------------------------------------------------------------
(* What the operators do to a pending push. *)

\* A taken slot remembers a wish to push, its own or the new request's.
WishesKept(R, sync, slots) ==
    \A s \in R : slots[path[s]] # FreeSlot /\ (sync \/ slots[path[s]].sync)
        => savesInFlight'[path[s]].sync

LEMMA RequestKeepsWishes ==
    ASSUME NEW R \in SUBSET Sessions, NEW sync \in BOOLEAN, NEW live,
           NEW slots \in [Paths -> Slot], NEW dirty,
           NEW status, NEW tasks, NEW start,
           \A s \in R : path[s] \in Paths,
           \A s, t \in R : path[s] = path[t] => s = t,
           RequestSaves(R, sync, live, slots, dirty, status, tasks, start)
    PROVE  WishesKept(R, sync, slots)
  <1> SUFFICES ASSUME NEW s \in R, slots[path[s]] # FreeSlot, sync \/ slots[path[s]].sync
               PROVE  savesInFlight'[path[s]].sync
    BY DEF WishesKept
  <1> DEFINE wants(p) == {t \in R : path[t] = p}
             both == slots[path[s]].sync \/ sync
             next(t) == [slots[path[s]] EXCEPT !.pending = t, !.sync = @ \/ sync]
  <1>1. savesInFlight' = [p \in Paths |->
            IF wants(p) = {} THEN slots[p]
            ELSE LET t == CHOOSE u \in wants(p) : TRUE
                 IN  IF slots[p] = FreeSlot THEN QueuedSave(t)
                     ELSE [slots[p] EXCEPT !.pending = t, !.sync = @ \/ sync]]
    BY DEF RequestSaves
  <1>2. wants(path[s]) = {s} /\ path[s] \in Paths
    OBVIOUS
  <1>3. (CHOOSE u \in wants(path[s]) : TRUE) = s
    BY <1>2
  <1> HIDE DEF wants
  <1>4. savesInFlight'[path[s]] = next(s)
    BY <1>1, <1>2, <1>3
  <1>5. next(s) = [slots[path[s]] EXCEPT !.pending = s, !.sync = both]
    OBVIOUS
  <1>6. both = TRUE
    OBVIOUS
  <1> HIDE DEF both, next
  <1>7. savesInFlight'[path[s]].sync = both
    BY <1>2, <1>4, <1>5 DEF Slot
  <1> QED
    BY <1>6, <1>7

\* The pushes owed are kept when nothing is requested: the slots stay, the
\* tasks of the slots' owners keep their wish.
LEMMA PushFrame ==
    ASSUME PushInv, UNCHANGED <<path, savesInFlight, owed, pushed>>,
           \A s \in Sessions : made[s] \subseteq made'[s],
           \A s \in Held' : s \in Held /\ (savesInFlight[path[s]].owner = s =>
                                               worker'[s].sync = worker[s].sync)
    PROVE  PushInv'
  <1>1. ASSUME NEW s \in Held'
        PROVE  PushKept(s, savesInFlight[path[s]], worker[s], owed[s], pushed[s])'
    <2>1. s \in Held /\ PushKept(s, savesInFlight[path[s]], worker[s], owed[s], pushed[s])
      BY DEF PushInv
    <2> QED
      BY <2>1 DEF PushKept
  <1>2. \A s \in Sessions : owed'[s] \subseteq made'[s] \ IconEdits
    BY DEF PushInv
  <1> QED
    BY <1>1, <1>2 DEF PushInv

\* The pushes owed are kept by a request: what it asks to push is the wish of
\* the task it starts, or of the slot it waits for.
LEMMA RequestedPush ==
    ASSUME NEW R \in SUBSET Sessions, NEW sync \in BOOLEAN, NEW slots \in [Paths -> Slot],
           NEW dirty, NEW status, NEW tasks, NEW start,
           SavesRequested(R, slots, dirty, status, tasks, start),
           WishesKept(R, sync, slots),
           UNCHANGED <<path, pushed>>,
           \A s \in Sessions : owed'[s] \subseteq made'[s] \ IconEdits,
           \A s \in Sessions : owed'[s] = owed[s] \/ (sync /\ s \in R),
           \A p \in Paths : slots[p].owner = NoSession => slots[p] = FreeSlot,
           \A p \in Paths : slots[p].pending = NoSession => ~slots[p].sync,
           \A s \in R : path[s] \in Paths /\ (sync => start[s].sync),
           \A s \in R, t \in Held' : path[s] = path[t] => s = t,
           \A s \in Held' : path[s] \in Paths,
           \A s \in Held' : (sync /\ s \in R)
                            \/ PushKept(s, slots[path[s]], tasks[s], owed[s], pushed[s])
    PROVE  PushInv'
  <1>1. ASSUME NEW s \in Held'
        PROVE  PushKept(s, savesInFlight[path[s]], worker[s], owed[s], pushed[s])'
    <2>0. /\ s \in Sessions /\ path[s] \in Paths
          /\ (sync /\ s \in R) \/ PushKept(s, slots[path[s]], tasks[s], owed[s], pushed[s])
      BY DEF Held
    <2>1. CASE s \notin R
      <3>1. savesInFlight'[path[s]] = slots[path[s]] /\ worker'[s] = tasks[s]
        BY <2>0, <2>1 DEF SavesRequested
      <3>2. owed'[s] = owed[s] /\ PushKept(s, slots[path[s]], tasks[s], owed[s], pushed[s])
        BY <2>0, <2>1
      <3>3. path'[s] = path[s] /\ pushed'[s] = pushed[s]
        OBVIOUS
      <3> QED
        BY <3>1, <3>2, <3>3 DEF PushKept
    <2>2. CASE s \in R /\ slots[path[s]] = FreeSlot
      <3>1. savesInFlight'[path[s]] = QueuedSave(s) /\ worker'[s] = start[s]
        BY <2>0, <2>2 DEF SavesRequested
      <3>2. savesInFlight'[path[s]].owner # NoSession
        BY <2>0, <3>1, ConstantsAssumption DEF QueuedSave
      <3>3. sync => worker'[s].sync
        BY <2>2, <3>1
      <3>4. ~sync => owed'[s] = owed[s] /\ owed[s] \subseteq pushed[s]
        BY <2>0, <2>2 DEF PushKept, FreeSlot
      <3> QED
        BY <3>2, <3>3, <3>4 DEF PushKept
    <2>3. CASE s \in R /\ slots[path[s]] # FreeSlot
      <3>1. /\ savesInFlight'[path[s]].owner = slots[path[s]].owner /\ worker'[s] = tasks[s]
            /\ slots[path[s]].owner # NoSession
        BY <2>0, <2>3 DEF SavesRequested
      <3>2. (sync \/ slots[path[s]].sync) => savesInFlight'[path[s]].sync
        BY <2>3 DEF WishesKept
      <3>3. ~sync => owed'[s] = owed[s]
        BY <2>0
      <3> QED
        BY <2>0, <3>1, <3>2, <3>3 DEF PushKept
    <2> QED
      BY <2>1, <2>2, <2>3
  <1>2. ASSUME NEW p \in Paths, savesInFlight'[p].pending = NoSession
        PROVE  ~savesInFlight'[p].sync
    <2>1. CASE \A s \in R : path[s] # p
      BY <1>2, <2>1 DEF SavesRequested
    <2>2. ASSUME NEW s \in R, path[s] = p PROVE ~savesInFlight'[p].sync
      <3>1. slots[p] = FreeSlot
        BY <1>2, <2>2, ConstantsAssumption DEF SavesRequested
      <3>2. savesInFlight'[p] = QueuedSave(s)
        BY <2>2, <3>1 DEF SavesRequested
      <3>3. QueuedSave(s).sync = FALSE
        BY DEF QueuedSave
      <3> QED
        BY <3>2, <3>3
    <2> QED
      BY <2>1, <2>2
  <1> QED
    BY <1>1, <1>2 DEF PushInv

-----------------------------------------------------------------------------
(* The operations. *)

\* The steps that request no save and free no slot.
LEMMA PushUntouched ==
    ASSUME Inv, PushInv,
           \/ \E p \in Paths : RequestPassword(p) \/ BeginOpen(p)
           \/ \E s \in Sessions : SwitchToUnlocked(s) \/ WorkerStep(s) \/ WorkerFails(s)
                                   \/ StaleCallback(s)
           \/ ReadVault \/ FailOpen \/ StartFavicons \/ DeferredLockStuck \/ RefuseQuit
           \/ DiscardRaced
           \/ \E e \in IconEdits : LandIcon(e)
           \/ \E p \in Paths, e \in ForeignEdits : ForeignWrite(p, e)
           \/ UNCHANGED vars
    PROVE  PushInv'
  <1>0. /\ worker \in [Sessions -> Worker] /\ made \in [Sessions -> Contents]
    BY DEF Inv, TypeOK, CoordinatorType, HistoryType
  <1>1. ASSUME UNCHANGED <<path, savesInFlight, worker, made, owed, pushed, fate>> PROVE PushInv'
    BY <1>1, PushFrame DEF Held
  <1>2. ASSUME \/ \E p \in Paths : RequestPassword(p) \/ BeginOpen(p)
               \/ \E s \in Sessions : SwitchToUnlocked(s)
               \/ ReadVault \/ FailOpen \/ StartFavicons \/ DeferredLockStuck \/ RefuseQuit
               \/ \E p \in Paths, e \in ForeignEdits : ForeignWrite(p, e)
        PROVE  PushInv'
    BY <1>1, <1>2 DEF RequestPassword, BeginOpen, SwitchToUnlocked, ReadVault, FailOpen, StartFavicons,
                      DeferredLockStuck, RefuseQuit, ForeignWrite, coordinator, history
  <1>3. CASE UNCHANGED vars
    BY <1>1, <1>3 DEF vars, coordinator, history
  <1>4. ASSUME UNCHANGED <<path, savesInFlight, made, owed, pushed, fate>>,
               \A t \in Sessions : savesInFlight[path[t]].owner = t => worker'[t].sync = worker[t].sync
        PROVE  PushInv'
    BY <1>4, PushFrame DEF Held
  <1>5. ASSUME NEW s \in Sessions, WorkerStep(s) \/ WorkerFails(s) PROVE PushInv'
    <2>1. UNCHANGED <<path, savesInFlight, made, owed, pushed, fate>>
      BY <1>5 DEF WorkerStep, WorkerBegin, WorkerClaim, WorkerPublish, WorkerFails, WorkerOnly,
                  coordinator, history
    <2>2. \A t \in Sessions : worker'[t].sync = worker[t].sync
      <3>1. PICK w \in Worker : worker' = [worker EXCEPT ![s] = w] /\ w.sync = worker[s].sync
        <4> DEFINE moved(o) == [worker[s] EXCEPT !.phase = "done", !.abort = "Published", !.outcome = o]
                   failed == [worker[s] EXCEPT !.phase = "done", !.outcome = "failed"]
                   writing == [worker[s] EXCEPT !.phase = "writing"]
                   claimed == [worker[s] EXCEPT !.abort = "Publishing"]
                   old == worker[s].sync
        <4>1. worker[s] \in Worker
          BY <1>0
        <4>2. /\ moved("durable") \in Worker /\ moved("unsynced") \in Worker /\ failed \in Worker
              /\ writing \in Worker /\ claimed \in Worker
          BY <4>1, MovedTask
        <4>3. /\ moved("durable").sync = old /\ moved("unsynced").sync = old /\ failed.sync = old
              /\ writing.sync = old /\ claimed.sync = old
          BY <4>1 DEF Worker
        <4>4. \/ worker' = [worker EXCEPT ![s] = moved("durable")]
              \/ worker' = [worker EXCEPT ![s] = moved("unsynced")]
              \/ worker' = [worker EXCEPT ![s] = failed]
              \/ worker' = [worker EXCEPT ![s] = writing]
              \/ worker' = [worker EXCEPT ![s] = claimed]
          BY <1>5 DEF WorkerStep, WorkerBegin, WorkerClaim, WorkerPublish, WorkerFails, Settle
        <4> HIDE DEF moved, failed, writing, claimed
        <4> QED
          BY <4>2, <4>3, <4>4
      <3> QED
        BY <1>0, <3>1
    <2> QED
      BY <1>4, <2>1, <2>2
  <1>6. ASSUME NEW s \in Sessions, StaleCallback(s) PROVE PushInv'
    <2>1. /\ worker' = EndOfTask(s) /\ savesInFlight[path[s]].owner # s
          /\ UNCHANGED <<path, savesInFlight, made, owed, pushed, fate>>
      BY <1>6 DEF StaleCallback, OwnsSlot, coordinator, history
    <2>2. \A t \in Sessions \ {s} : worker'[t] = worker[t]
      BY <1>0, <2>1 DEF EndOfTask
    <2> QED
      BY <1>4, <2>1, <2>2
  <1>7. CASE DiscardRaced
    <2>1. /\ worker' = [t \in Sessions |-> IF t \in Writers THEN TryAbort(worker[t]) ELSE worker[t]]
          /\ UNCHANGED <<path, savesInFlight, made, owed, pushed, fate>>
      BY <1>7 DEF DiscardRaced, coordinator, history
    <2>2. ASSUME NEW t \in Sessions PROVE TryAbort(worker[t]).sync = worker[t].sync
      BY <1>0 DEF TryAbort, Worker
    <2> QED
      BY <1>4, <2>1, <2>2
  <1>8. ASSUME NEW e \in IconEdits, LandIcon(e) PROVE PushInv'
    <2>1. /\ made' = [made EXCEPT ![favicon] = @ \cup {e}]
          /\ UNCHANGED <<path, savesInFlight, worker, owed, pushed, fate>>
      BY <1>8 DEF LandIcon
    <2>2. \A t \in Sessions : made[t] \subseteq made'[t]
      BY <1>0, <2>1
    <2> QED
      BY <2>1, <2>2, PushFrame DEF Held
  <1> QED
    BY <1>2, <1>3, <1>5, <1>6, <1>7, <1>8

\* A session that opens owes nothing.
LEMMA PushOpened ==
    ASSUME Inv, PushInv, NEW s \in Sessions, FinishOpen(s)
    PROVE  PushInv'
  <1>1. /\ path' = [path EXCEPT ![s] = vault.path] /\ fate' = [fate EXCEPT ![s] = "open"]
        /\ fate[s] = "unopened"
        /\ UNCHANGED <<savesInFlight, worker, made, owed, pushed>>
        /\ path \in [Sessions -> Paths \cup {NoPath}] /\ fate \in [Sessions -> Fates]
    BY DEF FinishOpen, coordinator, history, Inv, TypeOK, SessionType
  <1>2. owed[s] = {}
    BY <1>1 DEF Inv, DataInv, EditsInv, PushInv
  <1>3. ASSUME NEW t \in Held'
        PROVE  PushKept(t, savesInFlight[path[t]], worker[t], owed[t], pushed[t])'
    <2>1. CASE t = s
      BY <1>1, <1>2, <2>1 DEF PushKept
    <2>2. CASE t # s
      BY <1>1, <2>2 DEF PushInv, PushKept, Held
    <2> QED
      BY <2>1, <2>2
  <1> QED
    BY <1>1, <1>3 DEF PushInv

\* Nobody is left to owe a push: every slot is free and every session ended.
LEMMA PushWiped ==
    ASSUME Inv, PushInv, \/ Quit \/ QuitAnyway \/ Crash \/ DiscardAndLock
    PROVE  PushInv'
  <1>1. /\ savesInFlight' = [p \in Paths |-> FreeSlot] /\ UNCHANGED <<made, owed>>
        /\ \E end \in Fates \ {"open", "unopened"} : WipeSessions(end)
    BY DEF Quit, QuitAnyway, Crash, Restart, DiscardAndLock, history, Fates
  <1>2. Held' = {}
    BY <1>1 DEF WipeSessions, Held, Inv, PlaceInv, FateInv
  <1>3. \A p \in Paths : savesInFlight'[p].sync = FALSE
    BY <1>1 DEF FreeSlot
  <1> QED
    BY <1>1, <1>2, <1>3 DEF PushInv

\* A request by a session that is held, whose place in its slot's queue or
\* whose new task carries the wish.
LEMMA PushByOne ==
    ASSUME Inv, PushInv, NEW s \in Held, NEW sync \in BOOLEAN, NEW start,
           RequestSaves({s}, sync, Live, savesInFlight, unpersisted, saveStatus, worker, start),
           sync => start[s].sync,
           UNCHANGED <<path, pushed, fate>>,
           \A t \in Sessions : owed'[t] \subseteq made'[t] \ IconEdits,
           \A t \in Sessions : owed'[t] = owed[t] \/ (sync /\ t = s)
    PROVE  PushInv'
  <1>1. /\ s \in Sessions /\ path[s] \in Paths /\ Live \in SUBSET Sessions
        /\ savesInFlight \in [Paths -> Slot]
        /\ Held' = Held /\ \A t \in Held : path[t] \in Paths
        /\ \A t \in Held : path[s] = path[t] => s = t
    BY DEF Inv, TypeOK, CoordinatorType, PlaceInv, FateInv, OneSessionPerFile, Held, Live
  <1>2. SavesRequested({s}, savesInFlight, unpersisted, saveStatus, worker, start)
    BY <1>1, RequestSavesFacts DEF Inv
  <1>3. WishesKept({s}, sync, savesInFlight)
    BY <1>1, RequestKeepsWishes
  <1>4. /\ \A p \in Paths : savesInFlight[p].owner = NoSession => savesInFlight[p] = FreeSlot
        /\ \A p \in Paths : savesInFlight[p].pending = NoSession => ~savesInFlight[p].sync
        /\ \A t \in Held : PushKept(t, savesInFlight[path[t]], worker[t], owed[t], pushed[t])
    BY DEF Inv, DataInv, SlotInv, SlotsOK, PushInv
  <1> HIDE DEF Held
  <1> QED
    BY <1>1, <1>2, <1>3, <1>4, RequestedPush

\* The wish of the task an ordinary save starts.
LEMMA SaveTaskWish ==
    ASSUME NEW s \in Sessions, NEW docs, NEW sync \in BOOLEAN
    PROVE  sync => SaveTasks(docs, sync)[s].sync
  BY DEF SaveTasks, NewWorker

\* Edits, the Save command, merges and landed icons.
LEMMA PushAsked ==
    ASSUME Inv, PushInv,
           \/ \E e \in UserEdits, sync \in BOOLEAN : Edit(e, sync)
           \/ SaveNow \/ FinishFavicons
           \/ \E s \in Sessions, e \in MergeEdits : CommitMerged(s, e) \/ CommitMergedLate(s, e)
    PROVE  PushInv'
  <1>0. /\ owed \in [Sessions -> Contents] /\ made \in [Sessions -> Contents]
        /\ \A t \in Sessions : owed[t] \subseteq made[t] \ IconEdits
        /\ \A t \in Sessions : Current(t) => t \in Held
        /\ vault.status = "Open" => active \in Held
    BY DEF Inv, TypeOK, HistoryType, WindowType, PlaceInv, WindowInv, FateInv, Held, Retained, Current, PushInv
  <1>1. ASSUME NEW e \in UserEdits, NEW sync \in BOOLEAN, Edit(e, sync) PROVE PushInv'
    <2>1. /\ active \in Held /\ active \in Sessions
          /\ made' = [made EXCEPT ![active] = @ \cup {e}]
          /\ owed' = [owed EXCEPT ![active] = IF sync THEN @ \cup {e} ELSE @]
          /\ RequestSaves({active}, sync, Live, savesInFlight, unpersisted, saveStatus, worker,
                          SaveTasks(doc', sync))
          /\ UNCHANGED <<path, pushed, fate>>
      BY <1>0, <1>1 DEF Edit, Held
    <2>2. /\ \A t \in Sessions : owed'[t] \subseteq made'[t] \ IconEdits
          /\ \A t \in Sessions : owed'[t] = owed[t] \/ (sync /\ t = active)
      BY <1>0, <2>1, ConstantsAssumption
    <2> HIDE DEF Held
    <2> QED
      BY <2>1, <2>2, SaveTaskWish, PushByOne
  <1>2. ASSUME NEW s \in Held, NEW sync \in BOOLEAN, NEW start, sync => start[s].sync,
               RequestSaves({s}, sync, Live, savesInFlight, unpersisted, saveStatus, worker, start),
               UNCHANGED <<path, pushed, fate, made, owed>>
        PROVE  PushInv'
    BY <1>0, <1>2, PushByOne
  <1>3. \A s \in Held : SaveTasks(doc, TRUE)[s].sync
    BY SaveTaskWish DEF Held
  <1>4. CASE SaveNow
    BY <1>0, <1>2, <1>3, <1>4 DEF SaveNow, history
  <1>5. ASSUME NEW s \in Sessions, NEW e \in MergeEdits, CommitMerged(s, e) PROVE PushInv'
    BY <1>0, <1>2, <1>5 DEF CommitMerged
  <1>6. ASSUME NEW s \in Sessions, NEW e \in MergeEdits, CommitMergedLate(s, e) PROVE PushInv'
    BY <1>0, <1>2, <1>3, <1>6 DEF CommitMergedLate
  <1>7. CASE FinishFavicons
    <2>1. UNCHANGED <<path, pushed, fate, made, owed>>
      BY <1>7 DEF FinishFavicons, history
    <2>2. CASE Current(favicon) /\ made[favicon] \cap IconEdits # {}
      <3>1. favicon \in Sessions
        BY <1>7 DEF FinishFavicons, Inv, TypeOK, SessionType
      <3> QED
        BY <1>0, <1>2, <1>3, <1>7, <2>1, <2>2, <3>1 DEF FinishFavicons
    <2>3. CASE ~(Current(favicon) /\ made[favicon] \cap IconEdits # {})
      <3>1. UNCHANGED <<savesInFlight, worker>>
        BY <1>7, <2>3 DEF FinishFavicons, coordinator
      <3> QED
        BY <2>1, <3>1, PushFrame DEF Held
    <2> QED
      BY <2>2, <2>3
  <1> QED
    BY <1>1, <1>4, <1>5, <1>6, <1>7

\* A lock asks no push, and takes only free slots: over those nothing is owed.
LEMMA PushLocked ==
    ASSUME Inv, PushInv, LockVault, UNCHANGED <<path, made, owed, pushed>>
    PROVE  PushInv'
  <1> DEFINE R == {s \in unpersisted : ~InQueue(s, savesInFlight)}
  <1>1. TypeOK /\ FateInv /\ SlotInv /\ OneSessionPerFile
    BY DEF Inv, PlaceInv, DataInv
  <1>2. /\ R \in SUBSET Sessions /\ (\A s \in R : path[s] \in Paths /\ s \in Held)
        /\ \A s, t \in R : path[s] = path[t] => s = t
        /\ savesInFlight \in [Paths -> Slot]
        /\ \A t \in Held : path[t] \in Paths
        /\ \A s \in R, t \in Held : path[s] = path[t] => s = t
    BY <1>1, RetriedSessions DEF TypeOK, CoordinatorType, SlotInv, SlotsOK, Held, FateInv, OneSessionPerFile
  <1>3. CASE HasUnpersistedWork
    <2>1. /\ Quarantine
          /\ SavesRequested(R, savesInFlight, unpersisted, saveStatus, worker, SaveTasks(doc, FALSE))
          /\ RequestSaves(R, FALSE, {s \in Sessions : s \in deferredLock'}, savesInFlight, unpersisted,
                          saveStatus, worker, SaveTasks(doc, FALSE))
      BY <1>1, <1>3, LockVaultFacts DEF LockVault
    <2> HIDE DEF R
    <2>2. WishesKept(R, FALSE, savesInFlight)
      BY <1>2, <2>1, RequestKeepsWishes
    <2>3. Held' \subseteq Held
      BY <2>1 DEF Quarantine, Held
    <2>4. \A t \in Held : PushKept(t, savesInFlight[path[t]], worker[t], owed[t], pushed[t])
      BY DEF PushInv
    <2>5. /\ \A t \in Held' : path[t] \in Paths
          /\ \A t \in Held' : PushKept(t, savesInFlight[path[t]], worker[t], owed[t], pushed[t])
          /\ \A s \in R, t \in Held' : path[s] = path[t] => s = t
      BY <1>2, <2>3, <2>4
    <2>6. /\ \A p \in Paths : savesInFlight[p].owner = NoSession => savesInFlight[p] = FreeSlot
          /\ \A p \in Paths : savesInFlight[p].pending = NoSession => ~savesInFlight[p].sync
          /\ \A s \in Sessions : owed[s] \subseteq made[s] \ IconEdits
      BY DEF Inv, DataInv, SlotInv, SlotsOK, PushInv
    <2> DEFINE sync == FALSE
               start == SaveTasks(doc, FALSE)
    <2>7. sync \in BOOLEAN /\ ~sync
      OBVIOUS
    <2>8. /\ SavesRequested(R, savesInFlight, unpersisted, saveStatus, worker, start)
          /\ WishesKept(R, sync, savesInFlight)
      BY <2>1, <2>2
    <2> HIDE DEF Held, sync, start
    <2>9. /\ \A s \in Sessions : owed'[s] \subseteq made'[s] \ IconEdits
          /\ \A s \in Sessions : owed'[s] = owed[s] \/ (sync /\ s \in R)
          /\ \A s \in R : path[s] \in Paths /\ (sync => start[s].sync)
          /\ \A t \in Held' : (sync /\ t \in R)
                 \/ PushKept(t, savesInFlight[path[t]], worker[t], owed[t], pushed[t])
      BY <1>2, <2>5, <2>6, <2>7
    <2> QED
      BY <1>2, <2>5, <2>6, <2>7, <2>8, <2>9, RequestedPush
  <1>4. CASE ~HasUnpersistedWork
    <2>1. WipeSessions("locked") /\ UNCHANGED savesInFlight
      BY <1>1, <1>4, LockVaultFacts DEF coordinator
    <2>2. Held' = {}
      BY <1>1, <2>1 DEF WipeSessions, Held, FateInv
    <2> QED
      BY <2>1, <2>2 DEF PushInv
  <1> QED
    BY <1>3, <1>4

-----------------------------------------------------------------------------
(* The completion callbacks. *)

\* Other sessions notice nothing when the task of s ends and its slot is
\* given back.
LEMMA PushOfOthers ==
    ASSUME Inv, PushInv, NEW s \in Sessions, worker[s].phase # "idle", OwnsSlot(s)
    PROVE  /\ \A t \in Held \ {s} :
                  /\ Released(s)[path[t]] = savesInFlight[path[t]]
                  /\ EndOfTask(s)[t] = worker[t]
                  /\ PushKept(t, Released(s)[path[t]], EndOfTask(s)[t], owed[t], pushed[t])
           /\ \A p \in Paths : Released(s)[p].owner = NoSession => Released(s)[p] = FreeSlot
           /\ \A p \in Paths : Released(s)[p].pending = NoSession => ~Released(s)[p].sync
           /\ \A t \in Held : path[t] \in Paths
           /\ \A t \in Held : path[s] = path[t] => s = t
  <1>1. /\ s \in Held /\ path[s] \in Paths
        /\ savesInFlight \in [Paths -> Slot] /\ worker \in [Sessions -> Worker]
    BY EndedFacts DEF Inv, DataInv, TypeOK, CoordinatorType
  <1>2. \A t \in Held : path[t] \in Paths /\ (path[s] = path[t] => s = t)
    BY <1>1 DEF Inv, PlaceInv, FateInv, OneSessionPerFile, Held
  <1>3. /\ \A p \in Paths \ {path[s]} : Released(s)[p] = savesInFlight[p]
        /\ Released(s)[path[s]] = FreeSlot
        /\ \A t \in Sessions \ {s} : EndOfTask(s)[t] = worker[t]
    BY <1>1 DEF Released, EndOfTask
  <1>4. ASSUME NEW t \in Held \ {s}
        PROVE  /\ Released(s)[path[t]] = savesInFlight[path[t]]
               /\ EndOfTask(s)[t] = worker[t]
               /\ PushKept(t, Released(s)[path[t]], EndOfTask(s)[t], owed[t], pushed[t])
    <2>1. Released(s)[path[t]] = savesInFlight[path[t]] /\ EndOfTask(s)[t] = worker[t]
      BY <1>2, <1>3 DEF Held
    <2> QED
      BY <2>1 DEF PushInv
  <1>5. FreeSlot.sync = FALSE
    BY DEF FreeSlot
  <1>6. \A p \in Paths : Released(s)[p].owner = NoSession => Released(s)[p] = FreeSlot
    BY <1>1, <1>3 DEF Inv, DataInv, SlotInv, SlotsOK
  <1>7. \A p \in Paths : Released(s)[p].pending = NoSession => ~Released(s)[p].sync
    BY <1>1, <1>3, <1>5 DEF PushInv
  <1> QED
    BY <1>2, <1>4, <1>6, <1>7

\* The trailing save carries every wish of the save it follows.
LEMMA PushTrailing ==
    ASSUME Inv, PushInv, NEW s \in Sessions, worker[s].phase # "idle", OwnsSlot(s),
           NEW sync \in BOOLEAN, TrailingSync(s) => sync, NEW status,
           RequestSaves({s}, sync, Live, Released(s), unpersisted, status, EndOfTask(s),
                        SaveTasks(doc', sync)),
           UNCHANGED <<path, made, owed, pushed, fate>>
    PROVE  PushInv'
  <1>1. /\ Released(s) \in [Paths -> Slot] /\ path[s] \in Paths /\ s \in Held /\ Held' = Held
        /\ Live \in SUBSET Sessions
    BY EndedFacts DEF Inv, DataInv, Held, Live
  <1>2. SavesRequested({s}, Released(s), unpersisted, status, EndOfTask(s), SaveTasks(doc', sync))
    BY <1>1, RequestSavesFacts DEF Inv
  <1>3. WishesKept({s}, sync, Released(s))
    BY <1>1, RequestKeepsWishes
  <1>4. sync => SaveTasks(doc', sync)[s].sync
    BY SaveTaskWish
  <1>5. ~sync => PushKept(s, Released(s)[path[s]], EndOfTask(s)[s], owed[s], pushed[s])
    <2> SUFFICES ASSUME ~sync
                 PROVE  PushKept(s, Released(s)[path[s]], EndOfTask(s)[s], owed[s], pushed[s])
      OBVIOUS
    <2>1. ~worker[s].sync /\ ~savesInFlight[path[s]].sync
      BY DEF TrailingSync
    <2>2. owed[s] \subseteq pushed[s]
      BY <1>1, <2>1 DEF PushInv, PushKept, OwnsSlot
    <2> QED
      BY <2>2 DEF PushKept
  <1>6. \A t \in Held : (sync /\ t \in {s})
            \/ PushKept(t, Released(s)[path[t]], EndOfTask(s)[t], owed[t], pushed[t])
    BY <1>5, PushOfOthers
  <1>7. \A t \in Sessions : owed[t] \subseteq made[t] \ IconEdits
    BY DEF PushInv
  <1> HIDE DEF Held
  <1> QED
    BY <1>1, <1>2, <1>3, <1>4, <1>6, <1>7, PushOfOthers, RequestedPush

\* A settled task gives its slot back; its session owes nothing any more.
LEMMA PushSettled ==
    ASSUME Inv, PushInv, NEW s \in Sessions, worker[s].phase # "idle", OwnsSlot(s), SettleSave(s),
           UNCHANGED <<path, made>>, Held' \subseteq Held,
           owed'[s] \subseteq owed[s], s \in Held' => owed'[s] \subseteq pushed'[s],
           \A t \in Sessions \ {s} : owed'[t] = owed[t] /\ pushed'[t] = pushed[t]
    PROVE  PushInv'
  <1>1. savesInFlight' = Released(s) /\ worker' = EndOfTask(s)
    BY DEF SettleSave
  <1>2. Released(s)[path[s]] = FreeSlot
    BY EndedFacts DEF Inv, DataInv
  <1>3. ASSUME NEW t \in Held'
        PROVE  PushKept(t, savesInFlight[path[t]], worker[t], owed[t], pushed[t])'
    <2>1. CASE t = s
      BY <1>3, <2>1 DEF PushKept
    <2>2. CASE t # s
      <3>1. t \in Held \ {s} /\ t \in Sessions
        BY <2>2 DEF Held
      <3>2. PushKept(t, Released(s)[path[t]], EndOfTask(s)[t], owed[t], pushed[t])
        BY <3>1, PushOfOthers
      <3>3. owed'[t] = owed[t] /\ pushed'[t] = pushed[t] /\ path'[t] = path[t]
        BY <3>1
      <3> QED
        BY <1>1, <3>2, <3>3
    <2> QED
      BY <2>1, <2>2
  <1>4. \A p \in Paths : savesInFlight'[p].pending = NoSession => ~savesInFlight'[p].sync
    BY <1>1, PushOfOthers
  <1>5. \A t \in Sessions : owed'[t] \subseteq made'[t] \ IconEdits
    BY DEF PushInv
  <1> QED
    BY <1>3, <1>4, <1>5 DEF PushInv

\* The settled end of a save or a merge: it pushed what was owed, nothing was
\* left to push, or it failed and the push with it.
LEMMA PushDone ==
    ASSUME Inv, PushInv, NEW s \in Sessions, worker[s].phase = "done", OwnsSlot(s),
           savesInFlight[path[s]].pending = NoSession,
           made[s] \ IconEdits \subseteq worker[s].payload,
           DoneLocks(s) \/ DoneStays(s)
    PROVE  PushInv'
  <1>1. /\ owed[s] \subseteq made[s] \ IconEdits
        /\ owed \in [Sessions -> Contents] /\ pushed \in [Sessions -> Contents]
        /\ fate \in [Sessions -> Fates]
        /\ s \in Held /\ path[s] \in Paths
        /\ SettleSave(s) /\ UNCHANGED <<path, made>>
    BY EndedFacts DEF PushInv, Inv, DataInv, TypeOK, SessionType, HistoryType, DoneLocks, DoneStays
  <1>2. CASE DoneLocks(s)
    <2>1. Held' = {}
      BY <1>2 DEF DoneLocks, WipeSessions, Held, Inv, PlaceInv, FateInv
    <2>2. UNCHANGED <<owed, pushed>>
      BY <1>2 DEF DoneLocks
    <2> QED
      BY <1>1, <2>1, <2>2, PushSettled
  <1>3. CASE DoneStays(s)
    <2>1. /\ pushed' = [pushed EXCEPT ![s] = IF Durable(s) /\ worker[s].sync /\ Current(s)
                                               THEN worker[s].payload ELSE @]
          /\ owed' = [owed EXCEPT ![s] = IF Durable(s) THEN @ ELSE {}]
      BY <1>3 DEF DoneStays
    <2>2. Held' \subseteq Held /\ (s \in Held' => ~(Durable(s) /\ s \in deferredLock))
      <3>1. fate' = [fate EXCEPT ![s] = IF s \in deferredLock \ DeferredAfter(s) THEN "locked" ELSE @]
        BY <1>3 DEF DoneStays
      <3> QED
        BY <1>1, <3>1 DEF Held, DeferredAfter
    <2>3. ASSUME s \in Held' PROVE owed'[s] \subseteq pushed'[s]
      <3>1. CASE ~Durable(s)
        BY <1>1, <2>1, <3>1
      <3>2. CASE Durable(s) /\ worker[s].sync
        <4>1. Current(s)
          BY <1>1, <2>2, <2>3, <3>2 DEF Held, Inv, PlaceInv, FateInv, Retained
        <4> QED
          BY <1>1, <2>1, <3>2, <4>1
      <3>3. CASE Durable(s) /\ ~worker[s].sync
        <4>1. ~savesInFlight[path[s]].sync
          BY <1>1 DEF PushInv
        <4>2. owed[s] \subseteq pushed[s]
          BY <1>1, <3>3, <4>1 DEF PushInv, PushKept, OwnsSlot
        <4> QED
          BY <1>1, <2>1, <3>3, <4>2
      <3> QED
        BY <3>1, <3>2, <3>3
    <2>4. /\ owed'[s] \subseteq owed[s]
          /\ \A t \in Sessions \ {s} : owed'[t] = owed[t] /\ pushed'[t] = pushed[t]
      BY <1>1, <2>1
    <2> HIDE DEF Held
    <2> QED
      BY <1>1, <2>2, <2>3, <2>4, PushSettled
  <1> QED
    BY <1>2, <1>3

\* Every completion callback keeps the pushes owed.
LEMMA PushCallbacks ==
    ASSUME Inv, PushInv, NEW s \in Sessions, Callback(s)
    PROVE  PushInv'
  <1>1. CASE StaleCallback(s)
    BY <1>1, PushUntouched
  <1>2. ASSUME worker[s].phase = "done", OwnsSlot(s)
        PROVE  /\ worker[s].phase # "idle" /\ TaskOK(s, worker[s])
               /\ savesInFlight[path[s]].pending \in {NoSession, s}
               /\ worker[s].sync \in BOOLEAN /\ savesInFlight[path[s]].sync \in BOOLEAN
    <2>1. /\ savesInFlight \in [Paths -> Slot] /\ worker \in [Sessions -> Worker]
          /\ path[s] \in Paths /\ savesInFlight[path[s]].pending \in {NoSession, s}
      BY <1>2, EndedFacts DEF Inv, DataInv, TypeOK, CoordinatorType
    <2> QED
      BY <1>2, <2>1 DEF Inv, DataInv, TaskInv, Slot, Worker
  <1>3. ASSUME worker[s].phase = "done", OwnsSlot(s),
               NEW sync \in BOOLEAN, TrailingSync(s) => sync, NEW status,
               RequestSaves({s}, sync, Live, Released(s), unpersisted, status, EndOfTask(s),
                            SaveTasks(doc', sync)),
               UNCHANGED <<path, made, owed, pushed, fate>>
        PROVE  PushInv'
    BY <1>2, <1>3, PushTrailing
  <1>4. CASE SaveDonePending(s)
    <2>1. /\ worker[s].phase = "done" /\ OwnsSlot(s)
          /\ UNCHANGED <<path, doc, made, owed, pushed, fate>>
          /\ savesInFlight[path[s]].pending # NoSession
      BY <1>4 DEF SaveDonePending, history
    <2>2. savesInFlight[path[s]].pending = s
      BY <1>2, <2>1
    <2>3. PICK sync \in BOOLEAN :
              /\ sync = TrailingSync(s)
              /\ RequestSaves({s}, sync, Live, Released(s), unpersisted, StatusAfter(s), EndOfTask(s),
                              SaveTasks(doc', sync))
      BY <1>4, <2>1, <2>2 DEF SaveDonePending
    <2> QED
      BY <1>3, <2>1, <2>3
  <1>5. CASE SaveDoneSettled(s)
    <2>1. /\ worker[s].phase = "done" /\ worker[s].kind = "save" /\ OwnsSlot(s)
          /\ savesInFlight[path[s]].pending = NoSession
          /\ DoneLocks(s) \/ DoneStays(s)
      BY <1>5 DEF SaveDoneSettled
    <2>2. made[s] \ IconEdits \subseteq worker[s].payload
      BY <1>2, <2>1 DEF Inv, DataInv, TaskInv, Covered, OwnsSlot
    <2> QED
      BY <2>1, <2>2, PushDone
  <1>6. CASE MergeFailed(s)
    <2>1. /\ worker[s].phase = "done" /\ OwnsSlot(s)
          /\ UNCHANGED <<path, made, pushed, fate>>
      BY <1>6 DEF MergeFailed
    <2>2. CASE savesInFlight[path[s]].pending = NoSession
      <3>1. SettleSave(s) /\ owed' = [owed EXCEPT ![s] = {}]
        BY <1>6, <2>2 DEF MergeFailed
      <3>2. /\ owed'[s] = {} /\ \A t \in Sessions \ {s} : owed'[t] = owed[t]
        BY <3>1 DEF Inv, TypeOK, HistoryType
      <3>3. Held' = Held
        BY <2>1 DEF Held
      <3> QED
        BY <1>2, <2>1, <3>1, <3>2, <3>3, PushSettled
    <2>3. CASE savesInFlight[path[s]].pending # NoSession
      <3>1. savesInFlight[path[s]].pending = s
        BY <1>2, <2>1, <2>3
      <3>2. /\ UNCHANGED <<doc, owed>>
            /\ RequestSaves({s}, TRUE, Live, Released(s), unpersisted, StatusAfter(s), EndOfTask(s),
                            SaveTasks(doc', TRUE))
        BY <1>6, <2>3, <3>1 DEF MergeFailed
      <3> QED
        BY <1>3, <2>1, <3>2
    <2> QED
      BY <2>2, <2>3
  <1>7. CASE MergeOutdated(s)
    <2>1. /\ worker[s].phase = "done" /\ OwnsSlot(s)
          /\ UNCHANGED <<path, made, owed, pushed, fate>>
          /\ RequestSaves({s}, TRUE, Live, Released(s), unpersisted, saveStatus, EndOfTask(s),
                          SaveTasks(doc', TRUE))
      BY <1>7 DEF MergeOutdated, history
    <2> QED
      BY <1>3, <2>1
  <1>8. CASE MergeInstalled(s)
    <2>1. /\ worker[s].phase = "done" /\ worker[s].kind = "merge" /\ OwnsSlot(s)
          /\ doc[s] = worker[s].base
      BY <1>8 DEF MergeInstalled, MergeBaseMoved
    <2>2. CASE savesInFlight[path[s]].pending # NoSession
      <3>1. savesInFlight[path[s]].pending = s
        BY <1>2, <2>1, <2>2
      <3>2. /\ UNCHANGED <<path, made, owed, pushed, fate>>
            /\ RequestSaves({s}, TRUE, Live, Released(s), unpersisted, StatusAfter(s), EndOfTask(s),
                            SaveTasks(doc', TRUE))
        BY <1>8, <2>2, <3>1 DEF MergeInstalled, history
      <3> QED
        BY <1>3, <2>1, <3>2
    <2>3. CASE savesInFlight[path[s]].pending = NoSession
      <3>1. DoneLocks(s) \/ DoneStays(s)
        BY <1>8, <2>3 DEF MergeInstalled
      <3>2. made[s] \ IconEdits \subseteq worker[s].payload
        BY <1>2, <2>1 DEF Inv, DataInv, EditsInv, TaskOK
      <3> QED
        BY <2>1, <2>3, <3>1, <3>2, PushDone
    <2> QED
      BY <2>2, <2>3
  <1> QED
    BY <1>1, <1>4, <1>5, <1>6, <1>7, <1>8 DEF Callback

-----------------------------------------------------------------------------
(* The invariant. *)

\* Nothing is owed at the start.
LEMMA InitPushInv == Init => PushInv
  <1> SUFFICES ASSUME Init PROVE PushInv
    OBVIOUS
  <1>1. /\ \A s \in Sessions : owed[s] = {} /\ fate[s] # "open"
        /\ \A p \in Paths : savesInFlight[p].sync = FALSE
    BY DEF Init, FreeSlot
  <1> QED
    BY <1>1 DEF PushInv, Held

\* The pushes owed are kept by every step.
LEMMA PushStep == Inv /\ PushInv /\ [Next]_vars => PushInv'
  <1> SUFFICES ASSUME Inv, PushInv, [Next]_vars PROVE PushInv'
    OBVIOUS
  <1>1. ASSUME Lock \/ CloseWindow PROVE PushInv'
    BY <1>1, PushLocked DEF Lock, CloseWindow, history
  <1>2. ASSUME NEW s \in Sessions, WorkerStep(s) \/ WorkerFails(s) PROVE PushInv'
    BY <1>2, PushUntouched
  <1>3. CASE UNCHANGED vars
    BY <1>3, PushUntouched
  <1>4. CASE Next
    BY <1>1, <1>2, <1>4, PushUntouched, PushOpened, PushAsked, PushWiped, PushCallbacks DEF Next
  <1> QED
    BY <1>3, <1>4

\* What a run checks on a small instance holds for any: the coordinator's
\* invariant and the pushes owed.
THEOREM PushInvariance == Spec => []SaveInv
  <1>1. Inv /\ PushInv <=> SaveInv
    BY DEF SaveInv
  <1> QED
    BY <1>1, InitInv, InvStep, InitPushInv, PushStep, PTL DEF Spec

\* Coalescing never drops a cloud push (request_save_for_session's sync flag,
\* SaveQueueState): once a session's file is saved and its slot free, every
\* change that asked for a push has been handed to the sync engine.
THEOREM PushesAreNotForgotten == Spec => []CloudPushNotForgotten
  <1>1. SaveInv => CloudPushNotForgotten
    <2> SUFFICES ASSUME SaveInv, NEW s \in Sessions, Current(s), savesInFlight[path[s]] = FreeSlot
                 PROVE  owed[s] \subseteq pushed[s]
      BY DEF CloudPushNotForgotten
    <2>1. s \in Held
      BY DEF SaveInv, Inv, PlaceInv, FateInv, Retained, Held
    <2> QED
      BY <2>1 DEF SaveInv, PushInv, PushKept, FreeSlot
  <1> QED
    BY <1>1, PushInvariance, PTL

-----------------------------------------------------------------------------
(* The promise. *)

\* How a session's end looks from outside.
LEMMA PromiseStates ==
    /\ PromiseState("unopened") = "unopened"
    /\ PromiseState("open") = "open"
    /\ PromiseState("crashed") = "crashed"
    /\ PromiseState("locked") = "closed" /\ PromiseState("quit") = "closed"
    /\ PromiseState("discarded") = "givenUp" /\ PromiseState("abandoned") = "givenUp"
    /\ \A f \in Fates : PromiseState(f) = "open" <=> f = "open"
    /\ \A f \in Fates : PromiseState(f) = "unopened" <=> f = "unopened"
  BY DEF PromiseState, Fates

\* A step that touches no file, no edit and no session's end shows in nothing.
LEMMA PromiseFrame ==
    ASSUME UNCHANGED <<path, made, fate, disk, platter>>
    PROVE  Promise!Next
  BY DEF Promise!Next, Promise!Working, Promise!vars

\* Sessions that end with the same fate, their files untouched: kept if the
\* end is silent, given up otherwise.
LEMMA PromiseEnded ==
    ASSUME Inv, Inv', NEW S \in SUBSET Held, NEW end \in {"locked", "quit", "discarded", "abandoned"},
           fate' = [s \in Sessions |-> IF s \in S THEN end ELSE fate[s]],
           UNCHANGED <<path, made, disk, platter>>
    PROVE  Promise!Next
  <1> DEFINE state == [s \in Sessions |-> PromiseState(fate[s])]
             final == PromiseState(end)
  <1>1. [s \in Sessions |-> PromiseState(fate[s])]' =
            [s \in Sessions |-> IF s \in S THEN final ELSE state[s]]
    OBVIOUS
  <1>2. S \in SUBSET Promise!Open
    BY PromiseStates DEF Promise!Open, Held
  <1>3. /\ [s \in Sessions |-> made[s] \cap UserEdits]' = [s \in Sessions |-> made[s] \cap UserEdits]
        /\ [p \in Paths |-> disk[p] \cap UserEdits]' = [p \in Paths |-> disk[p] \cap UserEdits]
        /\ [p \in Paths |-> platter[p] \cap UserEdits]' = [p \in Paths |-> platter[p] \cap UserEdits]
    OBVIOUS
  <1>4. CASE end \in {"locked", "quit"}
    <2>1. \A s \in S : [t \in Sessions |-> made[t] \cap UserEdits][s]
                           \subseteq [p \in Paths |-> platter[p] \cap UserEdits][path[s]]
      <3> SUFFICES ASSUME NEW s \in S
                   PROVE  s \in Sessions /\ path[s] \in Paths
                          /\ made[s] \cap UserEdits \subseteq platter[path[s]]
        OBVIOUS
      <3>1. s \in Sessions /\ path[s] \in Paths /\ fate'[s] \in {"locked", "quit"}
        BY <1>4 DEF Held, Inv, PlaceInv, FateInv
      <3>2. made'[s] \ IconEdits \subseteq platter'[path'[s]]
        BY <3>1 DEF Inv, DataInv, SavedInv
      <3> QED
        BY <3>1, <3>2, ConstantsAssumption
    <2>2. final = "closed"
      BY <1>4, PromiseStates
    <2> HIDE DEF final
    <2>3. Promise!Close(S)
      BY <1>1, <1>3, <2>1, <2>2 DEF Promise!Close
    <2> QED
      BY <1>2, <2>3 DEF Promise!Next
  <1>5. CASE end \in {"discarded", "abandoned"}
    <2>1. final = "givenUp"
      BY <1>5, PromiseStates
    <2> HIDE DEF final
    <2>2. Promise!GiveUp(S)
      BY <1>1, <1>3, <2>1 DEF Promise!GiveUp
    <2> QED
      BY <1>2, <2>2 DEF Promise!Next
  <1> QED
    BY <1>4, <1>5

\* The same for every session at once.
LEMMA PromiseWiped ==
    ASSUME Inv, Inv', NEW end \in {"locked", "quit", "discarded", "abandoned"}, WipeSessions(end),
           UNCHANGED <<path, made, disk, platter>>
    PROVE  Promise!Next
  <1>1. fate' = [s \in Sessions |-> IF s \in Held THEN end ELSE fate[s]]
    BY DEF WipeSessions, Held, Inv, PlaceInv, FateInv
  <1> QED
    BY <1>1, PromiseEnded

\* Opening a vault: no open session has its file.
LEMMA PromiseOpened ==
    ASSUME Inv, NEW s \in Sessions, FinishOpen(s)
    PROVE  Promise!Next
  <1>1. /\ path' = [path EXCEPT ![s] = vault.path] /\ fate' = [fate EXCEPT ![s] = "open"]
        /\ fate[s] = "unopened" /\ vault.path \in Paths
        /\ UNCHANGED <<made, disk, platter>>
        /\ fate \in [Sessions -> Fates]
    BY DEF FinishOpen, history, Inv, TypeOK, SessionType, PlaceInv, WindowInv
  <1>2. \A t \in Held : path[t] # vault.path
    BY DEF FinishOpen, Inv, PlaceInv, WindowInv, FateInv, Retained, Unlocked, Held
  <1>3. Promise!Open = Held
    BY <1>1, PromiseStates DEF Promise!Open, Held
  <1>4. [t \in Sessions |-> PromiseState(fate[t])]' =
            [[t \in Sessions |-> PromiseState(fate[t])] EXCEPT ![s] = "open"]
    <2>1. \A t \in Sessions : fate'[t] = IF t = s THEN "open" ELSE fate[t]
      BY <1>1
    <2>2. \A t \in Sessions : PromiseState(fate'[t]) = IF t = s THEN "open" ELSE PromiseState(fate[t])
      BY <2>1, PromiseStates
    <2> QED
      BY <2>2
  <1>5. [t \in Sessions |-> PromiseState(fate[t])][s] = "unopened"
    BY <1>1, PromiseStates
  <1>6. Promise!Unlock(s, vault.path)
    BY <1>1, <1>2, <1>3, <1>4, <1>5 DEF Promise!Unlock
  <1> QED
    BY <1>1, <1>6 DEF Promise!Next

\* An edit is new; an icon is nobody's edit.
LEMMA PromiseMade ==
    ASSUME Inv, \/ \E e \in UserEdits, sync \in BOOLEAN : Edit(e, sync)
                \/ \E e \in IconEdits : LandIcon(e)
    PROVE  Promise!Next
  <1>0. made \in [Sessions -> Contents] /\ fate \in [Sessions -> Fates]
    BY DEF Inv, TypeOK, HistoryType, SessionType
  <1>1. ASSUME NEW e \in UserEdits, NEW sync \in BOOLEAN, Edit(e, sync) PROVE Promise!Next
    <2>1. /\ active \in Held /\ e \notin issued
          /\ made' = [made EXCEPT ![active] = @ \cup {e}]
          /\ UNCHANGED <<path, fate, disk, platter>>
      BY <1>1 DEF Edit, Inv, TypeOK, WindowType, PlaceInv, WindowInv, FateInv, Held, Retained, Current
    <2>2. active \in Promise!Open
      BY <2>1, PromiseStates DEF Promise!Open, Held
    <2>3. e \notin UNION {[s \in Sessions |-> made[s] \cap UserEdits][t] : t \in Sessions}
      BY <2>1 DEF Inv, DataInv, EditsInv
    <2>4. [s \in Sessions |-> made[s] \cap UserEdits]' =
              [[s \in Sessions |-> made[s] \cap UserEdits] EXCEPT ![active] = @ \cup {e}]
      BY <1>0, <2>1 DEF Held
    <2>5. Promise!Make(active, e)
      BY <2>1, <2>2, <2>3, <2>4 DEF Promise!Make
    <2> QED
      BY <2>1, <2>5 DEF Promise!Next, Held
  <1>2. ASSUME NEW e \in IconEdits, LandIcon(e) PROVE Promise!Next
    <2>1. /\ made' = [made EXCEPT ![favicon] = @ \cup {e}] /\ e \notin UserEdits
          /\ UNCHANGED <<path, fate, disk, platter>>
      BY <1>2, ConstantsAssumption DEF LandIcon
    <2>2. \A s \in Sessions : made'[s] \cap UserEdits = made[s] \cap UserEdits
      BY <1>0, <2>1
    <2> QED
      BY <2>1, <2>2 DEF Promise!Next, Promise!Working, Promise!vars
  <1> QED
    BY <1>1, <1>2

\* A rename adds edits of its session to the file and takes none out.
LEMMA PromisePublished ==
    ASSUME Inv, NEW s \in Sessions, WorkerPublish(s)
    PROVE  Promise!Next
  <1>1. /\ worker[s].phase = "writing" /\ worker[s].abort = "Publishing"
        /\ disk' = [disk EXCEPT ![path[s]] = worker[s].payload]
        /\ platter' \in {platter, [platter EXCEPT ![path[s]] = worker[s].payload]}
        /\ UNCHANGED <<path, made, fate>>
        /\ disk \in [Paths -> Contents] /\ platter \in [Paths -> Contents]
    BY DEF WorkerPublish, HoldsFileLock, WorkerOnly, history, Inv, TypeOK, FileType
  <1>2. s \in Held /\ path[s] \in Paths
    BY <1>1 DEF Inv, DataInv, SlotInv, SlotsOK, Held, PlaceInv, FateInv
  <1>a. PICK new : new = worker[s].payload \cap made[s] \cap UserEdits
    OBVIOUS
  <1> DEFINE view == [p \in Paths |-> disk[p] \cap UserEdits]
             safe == [p \in Paths |-> platter[p] \cap UserEdits]
  <1>3. worker[s].payload \cap UserEdits = (disk[path[s]] \cap UserEdits) \cup new
    <2>1. /\ disk[path[s]] = storage[s] /\ storage[s] \ MergeEdits \subseteq worker[s].payload
          /\ worker[s].payload \ (made[s] \cup MergeEdits) \subseteq storage[s]
      BY <1>1 DEF Inv, DataInv, TaskInv, TaskOK
    <2> QED
      BY <1>a, <2>1, ConstantsAssumption
  <1>4. /\ s \in Promise!Open
        /\ new \in SUBSET [t \in Sessions |-> made[t] \cap UserEdits][s]
    BY <1>a, <1>2, PromiseStates DEF Promise!Open, Held
  <1>5. [p \in Paths |-> disk[p] \cap UserEdits]' = [view EXCEPT ![path[s]] = @ \cup new]
    <2>1. \A p \in Paths : disk'[p] = IF p = path[s] THEN worker[s].payload ELSE disk[p]
      BY <1>1
    <2> QED
      BY <1>2, <1>3, <2>1
  <1>6. [p \in Paths |-> platter[p] \cap UserEdits]'
            \in {safe, [safe EXCEPT ![path[s]] = [p \in Paths |-> disk[p] \cap UserEdits]'[path[s]]]}
    <2>1. disk'[path[s]] = worker[s].payload
      BY <1>1, <1>2
    <2>2. CASE platter' = platter
      BY <2>2
    <2>3. CASE platter' = [platter EXCEPT ![path[s]] = worker[s].payload]
      BY <1>1, <1>2, <2>1, <2>3
    <2> QED
      BY <1>1, <2>2, <2>3
  <1>7. Promise!Publish(s, new)
    BY <1>1, <1>4, <1>5, <1>6 DEF Promise!Publish
  <1> QED
    BY <1>4, <1>7 DEF Promise!Next

\* Another program's write shows no edit of ours, but what the file showed is
\* now kept.
LEMMA PromiseForeign ==
    ASSUME Inv, NEW p \in Paths, NEW e \in ForeignEdits, ForeignWrite(p, e)
    PROVE  Promise!Next
  <1>1. /\ disk' = [disk EXCEPT ![p] = @ \cup {e}] /\ platter' = [platter EXCEPT ![p] = disk[p] \cup {e}]
        /\ disk \in [Paths -> Contents] /\ platter \in [Paths -> Contents]
        /\ UNCHANGED <<path, made, fate>> /\ e \notin UserEdits
    BY ConstantsAssumption DEF ForeignWrite, Inv, TypeOK, FileType
  <1>2. \A q \in Paths : disk'[q] \cap UserEdits = disk[q] \cap UserEdits
    BY <1>1
  <1>3. \A q \in Paths : platter'[q] \cap UserEdits =
            IF q = p THEN disk[p] \cap UserEdits ELSE platter[q] \cap UserEdits
    BY <1>1
  <1>4. Promise!Settle(p)
    BY <1>1, <1>2, <1>3 DEF Promise!Settle
  <1> QED
    BY <1>4 DEF Promise!Next

\* A crash ends every session and may take back what was never kept.
LEMMA PromiseCrashed ==
    ASSUME Inv, Crash
    PROVE  Promise!Next
  <1>1. PICK lost \in SUBSET Paths :
            /\ disk' = [p \in Paths |-> IF p \in lost THEN platter[p] ELSE disk[p]]
            /\ platter' = disk'
            /\ WipeSessions("crashed")
            /\ UNCHANGED <<path, made>>
    BY DEF Crash, Restart, history
  <1>2. Promise!Open = Held
    BY PromiseStates DEF Promise!Open, Held, Inv, TypeOK, SessionType
  <1>3. [s \in Sessions |-> PromiseState(fate[s])]' =
            [s \in Sessions |-> IF s \in Held THEN "crashed"
                                ELSE [t \in Sessions |-> PromiseState(fate[t])][s]]
    <2>1. \A s \in Sessions : fate'[s] = IF s \in Held THEN "crashed" ELSE fate[s]
      BY <1>1 DEF WipeSessions, Held, Inv, PlaceInv, FateInv
    <2> QED
      BY <2>1, PromiseStates
  <1>4. Promise!PowerLoss(lost)
    BY <1>1, <1>2, <1>3 DEF Promise!PowerLoss
  <1> QED
    BY <1>4 DEF Promise!Next

\* Locking, discarding and quitting.
LEMMA PromiseEnds ==
    ASSUME Inv, Inv', Lock \/ CloseWindow \/ DiscardAndLock \/ Quit \/ QuitAnyway
    PROVE  Promise!Next
  <1>1. ASSUME LockVault, UNCHANGED <<path, made, disk, platter>> PROVE Promise!Next
    <2>1. CASE HasUnpersistedWork
      <3>1. Quarantine
        BY <1>1, <2>1 DEF LockVault
      <3>2. CASE vault.status = "LockedPendingSave"
        BY <1>1, <3>1, <3>2, PromiseFrame DEF Quarantine
      <3>3. CASE vault.status # "LockedPendingSave"
        <4> DEFINE idle == {s \in Sessions :
                              Current(s) /\ ~(s \in unpersisted \/ InQueue(s, savesInFlight))}
        <4>1. fate' = [s \in Sessions |-> IF s \in idle THEN "locked" ELSE fate[s]]
          BY <3>1, <3>3 DEF Quarantine
        <4>2. idle \in SUBSET Held
          BY DEF Held, Inv, PlaceInv, FateInv, Retained
        <4> HIDE DEF idle, Held
        <4> QED
          BY <1>1, <4>1, <4>2, PromiseEnded
      <3> QED
        BY <3>2, <3>3
    <2>2. CASE ~HasUnpersistedWork
      <3>1. WipeSessions("locked")
        BY <1>1, <2>2 DEF LockVault
      <3> QED
        BY <1>1, <3>1, PromiseWiped
    <2> QED
      BY <2>1, <2>2
  <1>2. CASE Lock \/ CloseWindow
    BY <1>1, <1>2 DEF Lock, CloseWindow, history
  <1>3. CASE DiscardAndLock
    BY <1>3, PromiseWiped DEF DiscardAndLock, history
  <1>4. CASE Quit
    BY <1>4, PromiseWiped DEF Quit, Restart, history
  <1>5. CASE QuitAnyway
    BY <1>5, PromiseWiped DEF QuitAnyway, Restart, history
  <1> QED
    BY <1>2, <1>3, <1>4, <1>5

\* A completion callback ends no session, the settled one, or all.
LEMMA PromiseCallbacks ==
    ASSUME Inv, Inv', NEW s \in Sessions, Callback(s)
    PROVE  Promise!Next
  <1>1. UNCHANGED <<path, made, disk, platter>>
    BY DEF Callback, StaleCallback, SaveDonePending, SaveDoneSettled, MergeFailed, MergeOutdated,
           MergeInstalled, DoneLocks, DoneStays, history
  <1>2. \/ UNCHANGED fate
        \/ DoneLocks(s)
        \/ DoneStays(s) /\ worker[s].phase # "idle" /\ OwnsSlot(s)
    BY DEF Callback, StaleCallback, SaveDonePending, SaveDoneSettled, MergeFailed, MergeOutdated,
           MergeInstalled, history
  <1>3. CASE UNCHANGED fate
    BY <1>1, <1>3, PromiseFrame
  <1>4. CASE DoneLocks(s)
    BY <1>1, <1>4, PromiseWiped DEF DoneLocks
  <1>5. CASE DoneStays(s) /\ worker[s].phase # "idle" /\ OwnsSlot(s)
    <2>1. s \in Held
      BY <1>5, EndedFacts DEF Inv, DataInv
    <2>2. CASE fate' = [fate EXCEPT ![s] = "locked"]
      <3>1. fate' = [t \in Sessions |-> IF t \in {s} THEN "locked" ELSE fate[t]]
        BY <2>2 DEF Inv, TypeOK, SessionType
      <3> QED
        BY <1>1, <2>1, <3>1, PromiseEnded
    <2> QED
      BY <1>3, <1>5, <2>2, StaysFates DEF Inv
  <1> QED
    BY <1>2, <1>3, <1>4, <1>5

\* Every step of the coordinator is a step of the promise.
LEMMA PromiseStep == Inv /\ Inv' /\ [Next]_vars => [Promise!Next]_(Promise!vars)
  <1> SUFFICES ASSUME Inv, Inv', [Next]_vars PROVE Promise!Next
    OBVIOUS
  <1>1. ASSUME \/ \E p \in Paths : RequestPassword(p) \/ BeginOpen(p)
               \/ \E s \in Sessions : SwitchToUnlocked(s)
               \/ ReadVault \/ FailOpen \/ SaveNow \/ StartFavicons \/ FinishFavicons
               \/ \E s \in Sessions, e \in MergeEdits : CommitMerged(s, e) \/ CommitMergedLate(s, e)
               \/ DeferredLockStuck \/ DiscardRaced \/ RefuseQuit \/ UNCHANGED vars
        PROVE  Promise!Next
    BY <1>1, PromiseFrame DEF RequestPassword, BeginOpen, SwitchToUnlocked, ReadVault, FailOpen, SaveNow,
           StartFavicons, FinishFavicons, CommitMerged, CommitMergedLate, DeferredLockStuck, DiscardRaced,
           RefuseQuit, history, vars
  <1>2. ASSUME NEW s \in Sessions, WorkerStep(s) \/ WorkerFails(s) PROVE Promise!Next
    BY <1>2, PromiseFrame, PromisePublished
       DEF WorkerStep, WorkerBegin, WorkerClaim, WorkerFails, WorkerOnly, history
  <1>3. CASE Next
    BY <1>1, <1>2, <1>3, PromiseOpened, PromiseMade, PromiseEnds, PromiseCallbacks, PromiseForeign,
       PromiseCrashed DEF Next
  <1> QED
    BY <1>1, <1>3

\* It starts where the promise does.
LEMMA PromiseStart == Init => Promise!Init
  BY PromiseStates DEF Init, Promise!Init

\* The save coordinator implements VaultPromise: whatever its queue, its
\* writers, aborts, retries and crashes do, an edit is kept or given up by
\* name, what is kept stays, and a vault closed in silence lost nothing
\* (save_async to save_to_with_abort, lock_vault_now, discard).
THEOREM PromiseKept == Spec => KeepsPromise
  BY Invariance, PromiseStart, PromiseStep, PTL DEF Spec, KeepsPromise, Promise!Spec

=============================================================================
