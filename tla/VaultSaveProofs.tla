--------------------------- MODULE VaultSaveProofs ---------------------------
(***************************************************************************)
(* The inductive invariant of VaultSave is preserved, and the safety       *)
(* properties follow, for any number of files, sessions and edits.         *)
(***************************************************************************)
EXTENDS VaultSaveInv, TLAPS

-----------------------------------------------------------------------------
(* The operators the actions are built from. *)

\* A slot that takes a trailing request is a slot.
LEMMA QueuedSlot ==
    ASSUME NEW slot \in Slot, NEW s \in Sessions, NEW sync \in BOOLEAN
    PROVE  [slot EXCEPT !.pending = s, !.sync = sync] \in Slot
  BY DEF Slot

\* What request_save_for_session does for sessions of different files, point
\* by point.
SavesRequested(R, slots, dirty, status, tasks, start) ==
    /\ unpersisted' = dirty \cup R
    /\ saveStatus' = [s \in Sessions |-> IF s \in R THEN "Saving" ELSE status[s]]
    /\ savesInFlight' \in [Paths -> Slot]
    /\ \A p \in Paths : (\A s \in R : path[s] # p) => savesInFlight'[p] = slots[p]
    /\ \A s \in R : slots[path[s]] = FreeSlot => savesInFlight'[path[s]] = QueuedSave(s)
    /\ \A s \in R : slots[path[s]] # FreeSlot =>
           /\ savesInFlight'[path[s]].owner = slots[path[s]].owner
           /\ savesInFlight'[path[s]].pending = s
    /\ worker' = [s \in Sessions |->
                     IF s \in R /\ slots[path[s]] = FreeSlot THEN start[s] ELSE tasks[s]]
    /\ stalled' \in Paths \cup {NoPath}

\* request_save_for_session does exactly that.
LEMMA RequestSavesFacts ==
    ASSUME NEW R \in SUBSET Sessions, NEW sync \in BOOLEAN, NEW live \in SUBSET Sessions,
           NEW slots \in [Paths -> Slot], NEW dirty,
           NEW status, NEW tasks, NEW start, TypeOK,
           \A s \in R : path[s] \in Paths,
           \A s, t \in R : path[s] = path[t] => s = t,
           RequestSaves(R, sync, live, slots, dirty, status, tasks, start)
    PROVE  SavesRequested(R, slots, dirty, status, tasks, start)
  <1> DEFINE wants(p) == {s \in R : path[s] = p}
             new(p) == LET s == CHOOSE t \in wants(p) : TRUE
                       IN  IF slots[p] = FreeSlot THEN QueuedSave(s)
                           ELSE [slots[p] EXCEPT !.pending = s, !.sync = @ \/ sync]
  <1>1. savesInFlight' = [p \in Paths |-> IF wants(p) = {} THEN slots[p] ELSE new(p)]
    BY DEF RequestSaves
  <1>2. \A s \in R : wants(path[s]) = {s}
    OBVIOUS
  <1>3. \A s \in R : (CHOOSE t \in wants(path[s]) : TRUE) = s
    BY <1>2
  <1>4. \A p \in Paths : wants(p) # {} => \E s \in R : path[s] = p
    OBVIOUS
  <1> HIDE DEF wants, new
  <1>5. \A p \in Paths : (\A s \in R : path[s] # p) => savesInFlight'[p] = slots[p]
    BY <1>1 DEF wants
  <1>6. ASSUME NEW s \in R
        PROVE  savesInFlight'[path[s]] =
                   IF slots[path[s]] = FreeSlot THEN QueuedSave(s)
                   ELSE [slots[path[s]] EXCEPT !.pending = s, !.sync = @ \/ sync]
    <2>1. savesInFlight'[path[s]] = new(path[s])
      BY <1>1, <1>2
    <2> QED
      BY <2>1, <1>3 DEF new
  <1>7. savesInFlight' \in [Paths -> Slot]
    <2>1. ASSUME NEW p \in Paths PROVE savesInFlight'[p] \in Slot
      <3>1. CASE \A s \in R : path[s] # p
        BY <3>1, <1>5
      <3>2. ASSUME NEW s \in R, path[s] = p PROVE savesInFlight'[p] \in Slot
        <4> DEFINE both == slots[path[s]].sync \/ sync
        <4>1. both \in BOOLEAN
          OBVIOUS
        <4>2. slots[path[s]] = FreeSlot => savesInFlight'[path[s]] = QueuedSave(s)
          BY <1>6
        <4>3. ASSUME slots[path[s]] # FreeSlot
              PROVE  savesInFlight'[path[s]] =
                         [slots[path[s]] EXCEPT !.pending = s, !.sync = both]
          BY <1>6, <4>3
        <4> HIDE DEF both
        <4>4. QueuedSave(s) \in Slot
          BY DEF QueuedSave, Slot
        <4>5. [slots[path[s]] EXCEPT !.pending = s, !.sync = both] \in Slot
          BY <4>1, QueuedSlot
        <4> QED
          BY <3>2, <4>2, <4>3, <4>4, <4>5
      <3> QED
        BY <3>1, <3>2
    <2> QED
      BY <2>1, <1>1
  <1>8. stalled' \in Paths \cup {NoPath}
    <2>1. FailedPaths(live, [s \in Sessions |-> IF s \in R THEN "Saving" ELSE status[s]])
              \subseteq Paths \cup {NoPath}
      <3>1. \A s \in Sessions : path[s] \in Paths \cup {NoPath}
        BY DEF TypeOK, WindowType, SessionType, CoordinatorType, QuitType, FileType, HistoryType
      <3> QED
        BY <3>1 DEF FailedPaths
    <2>2. \/ stalled' \in FailedPaths(live, [s \in Sessions |->
                               IF s \in R THEN "Saving" ELSE status[s]])
          \/ stalled' = NoPath
          \/ stalled' = stalled
      BY DEF RequestSaves, PublishStalled
    <2> QED
      BY <2>1, <2>2 DEF TypeOK, WindowType, SessionType, CoordinatorType, QuitType, FileType, HistoryType
  <1>9. /\ unpersisted' = dirty \cup R
        /\ saveStatus' = [s \in Sessions |-> IF s \in R THEN "Saving" ELSE status[s]]
        /\ worker' = [s \in Sessions |->
                         IF s \in R /\ slots[path[s]] = FreeSlot THEN start[s] ELSE tasks[s]]
    BY DEF RequestSaves
  <1>10. ASSUME NEW s \in R, slots[path[s]] # FreeSlot
         PROVE  /\ savesInFlight'[path[s]].owner = slots[path[s]].owner
                /\ savesInFlight'[path[s]].pending = s
    <2> DEFINE both == slots[path[s]].sync \/ sync
    <2>1. savesInFlight'[path[s]] = [slots[path[s]] EXCEPT !.pending = s, !.sync = both]
      BY <1>6, <1>10
    <2> HIDE DEF both
    <2> QED
      BY <2>1 DEF Slot
  <1> QED
    BY <1>5, <1>6, <1>7, <1>8, <1>9, <1>10 DEF SavesRequested

-----------------------------------------------------------------------------
(* Type correctness. *)

\* The tasks of ordinary saves are tasks.
LEMMA TaskTypes ==
    ASSUME TypeOK, NEW docs \in [Sessions -> Contents], NEW sync \in BOOLEAN
    PROVE  SaveTasks(docs, sync) \in [Sessions -> Worker]
  BY DEF TypeOK, WindowType, SessionType, CoordinatorType, QuitType, FileType, HistoryType, SaveTasks, NewWorker, Worker

\* The tasks that write merged documents are tasks.
LEMMA MergeTaskTypes ==
    ASSUME TypeOK, NEW e \in MergeEdits
    PROVE  [t \in Sessions |-> NewWorker(t, "merge", doc[t] \cup {e}, doc[t], TRUE)]
               \in [Sessions -> Worker]
  BY DEF TypeOK, WindowType, SessionType, CoordinatorType, QuitType, FileType, HistoryType, NewWorker, Worker, Contents, Edits

\* What a completion callback derives from its task keeps its type.
LEMMA ReleasedType ==
    ASSUME TypeOK, NEW s \in Sessions
    PROVE  /\ Released(s) \in [Paths -> Slot]
           /\ EndOfTask(s) \in [Sessions -> Worker]
           /\ StatusAfter(s) \in [Sessions -> {"Idle", "Saving", "Saved", "Failed"}]
           /\ DirtyAfter(s) \in SUBSET Sessions
           /\ DeferredAfter(s) \in SUBSET Sessions
           /\ ToldAfter(s) \in SUBSET (Paths \cup {NoPath})
  <1>1. FreeSlot \in Slot /\ IdleWorker \in Worker
    BY DEF FreeSlot, Slot, IdleWorker, Worker, Contents
  <1>2. Released(s) \in [Paths -> Slot]
    BY <1>1 DEF TypeOK, WindowType, SessionType, CoordinatorType, QuitType, FileType, HistoryType, Released
  <1>3. EndOfTask(s) \in [Sessions -> Worker]
    BY <1>1 DEF TypeOK, WindowType, SessionType, CoordinatorType, QuitType, FileType, HistoryType, EndOfTask
  <1>4. StatusAfter(s) \in [Sessions -> {"Idle", "Saving", "Saved", "Failed"}]
    BY DEF TypeOK, WindowType, SessionType, CoordinatorType, QuitType, FileType, HistoryType, StatusAfter
  <1>5. DirtyAfter(s) \in SUBSET Sessions /\ DeferredAfter(s) \in SUBSET Sessions
    BY DEF TypeOK, WindowType, SessionType, CoordinatorType, QuitType, FileType, HistoryType, DirtyAfter, DeferredAfter
  <1>6. ToldAfter(s) \in SUBSET (Paths \cup {NoPath})
    BY DEF TypeOK, WindowType, SessionType, CoordinatorType, QuitType, FileType, HistoryType, ToldAfter
  <1> QED
    BY <1>2, <1>3, <1>4, <1>5, <1>6

\* The application starts with every variable in its type.
LEMMA InitTypeOK == Init => TypeOK
  <1>1. FreeSlot \in Slot /\ IdleWorker \in Worker
    BY DEF FreeSlot, Slot, IdleWorker, Worker, Contents
  <1>6. Init => vault \in [status : Statuses, path : Paths \cup {NoPath}]
    BY DEF Init, Statuses
  <1>7. Init => lockRequested \in BOOLEAN /\ stuck \in BOOLEAN
    BY DEF Init
  <1>8. Init => /\ active \in Sessions \cup {NoSession}
                /\ parked \in SUBSET Sessions
                /\ deferredLock \in SUBSET Sessions
                /\ reading \in SUBSET Contents
    BY DEF Init
  <1>2. Init => WindowType
    BY <1>6, <1>7, <1>8 DEF WindowType
  <1>5. Init => QuitType
    BY DEF Init, QuitType
  <1>3. Init => SessionType /\ FileType /\ HistoryType
    BY DEF Init, SessionType, FileType, HistoryType, Fates, Contents
  <1>4. Init => CoordinatorType
    BY <1>1 DEF Init, CoordinatorType
  <1> QED
    BY <1>2, <1>3, <1>4, <1>5 DEF TypeOK

\* Opening, switching and parking keep the types.
LEMMA WindowTypes ==
    ASSUME TypeOK, WindowInv,
           \/ \E p \in Paths : RequestPassword(p) \/ BeginOpen(p)
           \/ \E s \in Sessions : SwitchToUnlocked(s) \/ FinishOpen(s)
           \/ ReadVault \/ FailOpen
    PROVE  TypeOK'
  <1> USE DEF TypeOK, WindowType, SessionType, CoordinatorType, QuitType, FileType, HistoryType,
              Statuses, lifecycle, coordinator, quitVeto, history, bounds
  <1>1. ASSUME NEW p \in Paths, RequestPassword(p) PROVE TypeOK'
    BY <1>1 DEF RequestPassword, ParkActive
  <1>2. ASSUME NEW p \in Paths, BeginOpen(p) PROVE TypeOK'
    BY <1>2 DEF BeginOpen, ParkActive
  <1>3. ASSUME NEW s \in Sessions, SwitchToUnlocked(s) PROVE TypeOK'
    BY <1>3 DEF SwitchToUnlocked
  <1>4. ASSUME NEW s \in Sessions, FinishOpen(s) PROVE TypeOK'
    BY <1>4 DEF FinishOpen, Fates
  <1>5. ASSUME ReadVault PROVE TypeOK'
    BY <1>5 DEF WindowInv, ReadVault
  <1>6. ASSUME FailOpen PROVE TypeOK'
    BY <1>6 DEF FailOpen
  <1> HIDE DEF TypeOK
  <1> QED
    BY <1>1, <1>2, <1>3, <1>4, <1>5, <1>6

\* A save request keeps the types of the coordinator.
LEMMA RequestSavesTypes ==
    ASSUME NEW R \in SUBSET Sessions, NEW slots, NEW dirty \in SUBSET Sessions,
           NEW status \in [Sessions -> {"Idle", "Saving", "Saved", "Failed"}],
           NEW tasks \in [Sessions -> Worker], NEW start \in [Sessions -> Worker],
           SavesRequested(R, slots, dirty, status, tasks, start)
    PROVE  CoordinatorType' /\ stalled' \in Paths \cup {NoPath}
  <1>1. worker' \in [Sessions -> Worker]
    BY DEF SavesRequested
  <1>2. saveStatus' \in [Sessions -> {"Idle", "Saving", "Saved", "Failed"}]
    BY DEF SavesRequested
  <1> QED
    BY <1>1, <1>2 DEF CoordinatorType, SavesRequested

\* What an edit or a merge adds to the documents keeps them documents.
LEMMA GrownDocs ==
    ASSUME NEW docs \in [Sessions -> Contents], NEW s \in Sessions, NEW e \in Edits
    PROVE  [docs EXCEPT ![s] = @ \cup {e}] \in [Sessions -> Contents]
  BY DEF Contents

\* Edits, merges and favicon runs keep the types.
LEMMA EditTypes ==
    ASSUME TypeOK, WindowInv, FateInv,
           \/ \E e \in UserEdits, sync \in BOOLEAN : Edit(e, sync)
           \/ SaveNow
           \/ \E s \in Sessions, e \in MergeEdits : CommitMerged(s, e) \/ CommitMergedLate(s, e)
           \/ StartFavicons \/ FinishFavicons
           \/ \E e \in IconEdits : LandIcon(e)
    PROVE  TypeOK'
  <1> USE DEF TypeOK, WindowType, SessionType, QuitType, FileType, HistoryType,
              lifecycle, coordinator, quitVeto, history, bounds
  <1>0. /\ UserEdits \subseteq Edits /\ IconEdits \subseteq Edits /\ MergeEdits \subseteq Edits
        /\ Live \subseteq Sessions
        /\ \A s \in Sessions : Retained(s) => path[s] \in Paths
    BY DEF Edits, Live, FateInv
  <1>a. CoordinatorType
    OBVIOUS
  <1>b. savesInFlight \in [Paths -> Slot] /\ unpersisted \in SUBSET Sessions
        /\ saveStatus \in [Sessions -> {"Idle", "Saving", "Saved", "Failed"}]
        /\ worker \in [Sessions -> Worker]
    BY <1>a DEF CoordinatorType
  <1>1. ASSUME NEW e \in UserEdits, NEW sync \in BOOLEAN, Edit(e, sync) PROVE TypeOK'
    <2>1. active \in Sessions /\ path[active] \in Paths
      BY <1>1, <1>0 DEF Edit, WindowInv
    <2>2. doc' = [doc EXCEPT ![active] = @ \cup {e}] /\ made' = [made EXCEPT ![active] = @ \cup {e}]
          /\ owed' = [owed EXCEPT ![active] = IF sync THEN @ \cup {e} ELSE @]
          /\ issued' = issued \cup {e}
      BY <1>1 DEF Edit
    <2>3. doc' \in [Sessions -> Contents] /\ made' \in [Sessions -> Contents]
      BY <1>0, <2>1, <2>2, GrownDocs
    <2>4. SaveTasks(doc', sync) \in [Sessions -> Worker]
      BY <2>3, TaskTypes
    <2>5. CoordinatorType' /\ stalled' \in Paths \cup {NoPath}
      <3>1. RequestSaves({active}, sync, Live, savesInFlight, unpersisted, saveStatus, worker,
                         SaveTasks(doc', sync))
        BY <1>1 DEF Edit
      <3>2. SavesRequested({active}, savesInFlight, unpersisted, saveStatus, worker,
                           SaveTasks(doc', sync))
        BY <1>0, <1>b, <2>1, <3>1, RequestSavesFacts
      <3> QED
        BY <1>b, <2>1, <2>4, <3>2, RequestSavesTypes
    <2>6. owed' \in [Sessions -> Contents]
      <3>1. CASE sync
        BY <1>0, <2>1, <2>2, <3>1, GrownDocs
      <3>2. CASE ~sync
        BY <2>1, <2>2, <3>2
      <3> QED
        BY <3>1, <3>2
    <2>7. issued' \in Contents
      BY <1>0, <2>2 DEF Contents
    <2> QED
      BY <1>1, <2>3, <2>5, <2>6, <2>7 DEF Edit
  <1>2. ASSUME SaveNow PROVE TypeOK'
    <2>1. active \in Sessions /\ path[active] \in Paths
      BY <1>2, <1>0 DEF SaveNow, WindowInv
    <2>2. RequestSaves({active}, TRUE, Live, savesInFlight, unpersisted, saveStatus, worker,
                       SaveTasks(doc, TRUE))
      BY <1>2 DEF SaveNow
    <2>3. SaveTasks(doc, TRUE) \in [Sessions -> Worker]
      BY TaskTypes
    <2>4. SavesRequested({active}, savesInFlight, unpersisted, saveStatus, worker,
                         SaveTasks(doc, TRUE))
      BY <1>0, <1>b, <2>1, <2>2, RequestSavesFacts
    <2>5. CoordinatorType' /\ stalled' \in Paths \cup {NoPath}
      BY <1>b, <2>1, <2>3, <2>4, RequestSavesTypes
    <2> QED
      BY <1>2, <2>5 DEF SaveNow
  <1>3. ASSUME NEW s \in Sessions, NEW e \in MergeEdits, CommitMerged(s, e) PROVE TypeOK'
    <2> DEFINE start == [t \in Sessions |-> NewWorker(t, "merge", doc[t] \cup {e}, doc[t], TRUE)]
    <2>1. path[s] \in Paths
      BY <1>3, <1>0 DEF CommitMerged, Retained
    <2>2. RequestSaves({s}, FALSE, Live, savesInFlight, unpersisted, saveStatus, worker, start)
      BY <1>3 DEF CommitMerged
    <2>3. start \in [Sessions -> Worker]
      BY MergeTaskTypes
    <2> HIDE DEF start
    <2>4. SavesRequested({s}, savesInFlight, unpersisted, saveStatus, worker, start)
      BY <1>0, <1>b, <2>1, <2>2, RequestSavesFacts
    <2>5. CoordinatorType' /\ stalled' \in Paths \cup {NoPath}
      BY <1>b, <2>1, <2>3, <2>4, RequestSavesTypes
    <2>6. issued' \in Contents
      BY <1>3, <1>0 DEF Contents, CommitMerged
    <2> QED
      BY <1>3, <2>5, <2>6 DEF CommitMerged
  <1>4. ASSUME NEW s \in Sessions, NEW e \in MergeEdits, CommitMergedLate(s, e) PROVE TypeOK'
    <2>1. path[s] \in Paths
      BY <1>4, <1>0 DEF CommitMergedLate, Retained
    <2>2. RequestSaves({s}, TRUE, Live, savesInFlight, unpersisted, saveStatus, worker,
                       SaveTasks(doc, TRUE))
      BY <1>4 DEF CommitMergedLate
    <2>3. SaveTasks(doc, TRUE) \in [Sessions -> Worker]
      BY TaskTypes
    <2>4. SavesRequested({s}, savesInFlight, unpersisted, saveStatus, worker, SaveTasks(doc, TRUE))
      BY <1>0, <1>b, <2>1, <2>2, RequestSavesFacts
    <2>5. CoordinatorType' /\ stalled' \in Paths \cup {NoPath}
      BY <1>b, <2>1, <2>3, <2>4, RequestSavesTypes
    <2>6. issued' \in Contents
      BY <1>4, <1>0 DEF Contents, CommitMergedLate
    <2> QED
      BY <1>4, <2>5, <2>6 DEF CommitMergedLate
  <1>5. ASSUME StartFavicons PROVE TypeOK'
    BY <1>5, <1>a DEF StartFavicons, CoordinatorType
  <1>6. ASSUME FinishFavicons PROVE TypeOK'
    <2>1. CoordinatorType' /\ stalled' \in Paths \cup {NoPath}
      <3>1. CASE Current(favicon) /\ made[favicon] \cap IconEdits # {}
        <4>1. favicon \in Sessions /\ path[favicon] \in Paths
          BY <1>6, <3>1, <1>0 DEF FinishFavicons, Retained
        <4>2. RequestSaves({favicon}, TRUE, Live, savesInFlight, unpersisted, saveStatus, worker,
                           SaveTasks(doc, TRUE))
          BY <1>6, <3>1 DEF FinishFavicons
        <4>3. SaveTasks(doc, TRUE) \in [Sessions -> Worker]
          BY TaskTypes
        <4>4. SavesRequested({favicon}, savesInFlight, unpersisted, saveStatus, worker,
                             SaveTasks(doc, TRUE))
          BY <1>0, <1>b, <4>1, <4>2, RequestSavesFacts
        <4> QED
          BY <1>b, <4>1, <4>3, <4>4, RequestSavesTypes
      <3>2. CASE ~(Current(favicon) /\ made[favicon] \cap IconEdits # {})
        BY <1>6, <3>2, <1>a DEF FinishFavicons, CoordinatorType
      <3> QED
        BY <3>1, <3>2
    <2> QED
      BY <1>6, <2>1 DEF FinishFavicons
  <1>7. ASSUME NEW e \in IconEdits, LandIcon(e) PROVE TypeOK'
    <2>1. doc' \in [Sessions -> Contents] /\ made' \in [Sessions -> Contents]
      BY <1>0, <1>7, GrownDocs DEF LandIcon
    <2>2. issued' \in Contents /\ unpersisted' \in SUBSET Sessions
      BY <1>0, <1>b, <1>7 DEF LandIcon, Contents
    <2> QED
      BY <1>7, <1>a, <2>1, <2>2 DEF LandIcon, CoordinatorType
  <1> HIDE DEF TypeOK
  <1> QED
    BY <1>1, <1>2, <1>3, <1>4, <1>5, <1>6, <1>7

\* The sessions a lock retries have files of their own.
LEMMA RetriedSessions ==
    ASSUME TypeOK, FateInv, SlotInv, OneSessionPerFile
    PROVE  /\ {s \in unpersisted : ~InQueue(s, savesInFlight)} \in SUBSET Sessions
           /\ \A s \in {t \in unpersisted : ~InQueue(t, savesInFlight)} : path[s] \in Paths
           /\ \A s, t \in {u \in unpersisted : ~InQueue(u, savesInFlight)} :
                  path[s] = path[t] => s = t
  <1>1. unpersisted \in SUBSET Sessions
    BY DEF TypeOK, CoordinatorType
  <1>2. \A s \in unpersisted : Retained(s) /\ path[s] \in Paths
    BY <1>1 DEF SlotInv, SlotsOK, Held, FateInv
  <1> QED
    BY <1>1, <1>2 DEF OneSessionPerFile

\* lock_vault point by point: a deferred lock with retries, or a clean lock.
LEMMA LockVaultFacts ==
    ASSUME TypeOK, FateInv, SlotInv, OneSessionPerFile, LockVault
    PROVE  \/ /\ HasUnpersistedWork
              /\ lockRequested' = TRUE
              /\ Quarantine
              /\ SavesRequested({s \in unpersisted : ~InQueue(s, savesInFlight)}, savesInFlight,
                                unpersisted, saveStatus, worker, SaveTasks(doc, FALSE))
              /\ UNCHANGED favicon
           \/ /\ ~HasUnpersistedWork
              /\ WipeSessions("locked")
              /\ UNCHANGED <<coordinator, worker, stalled>>
  <1>1. ASSUME HasUnpersistedWork
        PROVE  SavesRequested({s \in unpersisted : ~InQueue(s, savesInFlight)}, savesInFlight,
                              unpersisted, saveStatus, worker, SaveTasks(doc, FALSE))
    <2> DEFINE live == {s \in Sessions : s \in deferredLock'}
               R == {s \in unpersisted : ~InQueue(s, savesInFlight)}
    <2>1. RequestSaves(R, FALSE, live, savesInFlight, unpersisted, saveStatus, worker,
                       SaveTasks(doc, FALSE))
      BY <1>1 DEF LockVault
    <2>2. live \in SUBSET Sessions
      OBVIOUS
    <2>3. R \in SUBSET Sessions /\ (\A s \in R : path[s] \in Paths)
          /\ \A s, t \in R : path[s] = path[t] => s = t
      BY RetriedSessions
    <2>4. savesInFlight \in [Paths -> Slot]
      BY DEF TypeOK, CoordinatorType
    <2> HIDE DEF live, R
    <2>5. SavesRequested(R, savesInFlight, unpersisted, saveStatus, worker, SaveTasks(doc, FALSE))
      BY <2>1, <2>2, <2>3, <2>4, RequestSavesFacts
    <2> QED
      BY <2>5 DEF R
  <1> QED
    BY <1>1 DEF LockVault

\* lock_vault keeps the types of what it changes.
LEMMA LockVaultTypes ==
    ASSUME TypeOK, FateInv, SlotInv, OneSessionPerFile, LockVault
    PROVE  WindowType' /\ CoordinatorType' /\ favicon' \in Sessions \cup {NoSession}
           /\ fate' \in [Sessions -> Fates] /\ stalled' \in Paths \cup {NoPath}
  <1> USE DEF TypeOK, WindowType, SessionType, QuitType
  <1>a. CoordinatorType
    OBVIOUS
  <1>b. CASE HasUnpersistedWork
    <2> DEFINE R == {s \in unpersisted : ~InQueue(s, savesInFlight)}
    <2>1. SavesRequested(R, savesInFlight, unpersisted, saveStatus, worker, SaveTasks(doc, FALSE))
          /\ lockRequested' = TRUE /\ Quarantine /\ UNCHANGED favicon
      BY <1>b, LockVaultFacts
    <2>2. CoordinatorType' /\ stalled' \in Paths \cup {NoPath}
      <3>1. R \in SUBSET Sessions
        BY RetriedSessions
      <3>2. SaveTasks(doc, FALSE) \in [Sessions -> Worker]
        BY TaskTypes
      <3> HIDE DEF R
      <3> QED
        BY <2>1, <3>1, <3>2, <1>a, RequestSavesTypes DEF CoordinatorType
    <2>3. WindowType' /\ fate' \in [Sessions -> Fates]
      <3>1. CASE vault.status = "LockedPendingSave"
        BY <2>1, <3>1 DEF Quarantine
      <3>2. CASE vault.status # "LockedPendingSave"
        <4> DEFINE kept == {s \in Sessions :
                              Current(s) /\ (s \in unpersisted \/ InQueue(s, savesInFlight))}
        <4>1. /\ vault' = [status |-> "LockedPendingSave", path |-> NoPath]
              /\ active' = NoSession
              /\ parked' = {}
              /\ deferredLock' = deferredLock \cup kept
              /\ stuck' = FALSE
              /\ reading' = {}
              /\ fate' = [s \in Sessions |->
                             IF Current(s) /\ s \notin kept THEN "locked" ELSE fate[s]]
          BY <2>1, <3>2 DEF Quarantine
        <4>2. kept \in SUBSET Sessions
          OBVIOUS
        <4> HIDE DEF kept
        <4>3. fate' \in [Sessions -> Fates]
          BY <4>1 DEF Fates
        <4> QED
          BY <2>1, <4>1, <4>2, <4>3 DEF Statuses
      <3> QED
        BY <3>1, <3>2
    <2> QED
      BY <2>1, <2>2, <2>3
  <1>c. CASE ~HasUnpersistedWork
    <2>1. WipeSessions("locked") /\ UNCHANGED <<coordinator, worker, stalled>>
      BY <1>c, LockVaultFacts
    <2>2. WindowType' /\ fate' \in [Sessions -> Fates] /\ favicon' \in Sessions \cup {NoSession}
      BY <2>1 DEF WipeSessions, Statuses, Fates
    <2> QED
      BY <2>1, <2>2, <1>a DEF CoordinatorType, coordinator
  <1> QED
    BY <1>b, <1>c

\* Every way of locking keeps the types.
LEMMA LockTypes ==
    ASSUME TypeOK, FateInv, SlotInv, OneSessionPerFile,
           Lock \/ CloseWindow \/ DeferredLockStuck \/ DiscardAndLock \/ DiscardRaced
    PROVE  TypeOK'
  <1> USE DEF TypeOK, SessionType, QuitType, FileType, HistoryType, history, bounds, quitVeto
  <1>1. ASSUME Lock PROVE TypeOK'
    <2>1. LockVault
      BY <1>1 DEF Lock
    <2> QED
      BY <1>1, <2>1, LockVaultTypes DEF Lock
  <1>2. ASSUME CloseWindow PROVE TypeOK'
    <2>1. LockVault
      BY <1>2 DEF CloseWindow
    <2> QED
      BY <1>2, <2>1, LockVaultTypes DEF CloseWindow
  <1>3. ASSUME DeferredLockStuck PROVE TypeOK'
    BY <1>3 DEF DeferredLockStuck, WindowType, CoordinatorType, coordinator
  <1>4. FreeSlot \in Slot /\ \A s \in Sessions : TryAbort(worker[s]) \in Worker
    BY DEF TryAbort, CoordinatorType, Worker, FreeSlot, Slot
  <1>5. ASSUME DiscardAndLock PROVE TypeOK'
    <2>1. CoordinatorType'
      BY <1>4, <1>5 DEF DiscardAndLock, CoordinatorType
    <2>2. WindowType' /\ fate' \in [Sessions -> Fates] /\ favicon' \in Sessions \cup {NoSession}
      BY <1>5 DEF DiscardAndLock, WipeSessions, WindowType, Statuses, Fates
    <2> QED
      BY <1>5, <2>1, <2>2 DEF DiscardAndLock
  <1>6. ASSUME DiscardRaced PROVE TypeOK'
    <2>1. CoordinatorType'
      BY <1>4, <1>6 DEF DiscardRaced, CoordinatorType, coordinator
    <2> QED
      BY <1>6, <2>1 DEF DiscardRaced, lifecycle, WindowType
  <1> HIDE DEF TypeOK
  <1> QED
    BY <1>1, <1>2, <1>3, <1>5, <1>6

\* A task that moves on is a task.
LEMMA MovedTask ==
    ASSUME NEW w \in Worker
    PROVE  /\ [w EXCEPT !.phase = "writing"] \in Worker
           /\ [w EXCEPT !.abort = "Publishing"] \in Worker
           /\ [w EXCEPT !.phase = "done", !.outcome = "failed"] \in Worker
           /\ [w EXCEPT !.phase = "done", !.abort = "Published", !.outcome = "durable"] \in Worker
           /\ [w EXCEPT !.phase = "done", !.abort = "Published", !.outcome = "unsynced"] \in Worker
  BY DEF Worker

\* One task moves.
LEMMA MovedWorker ==
    ASSUME TypeOK, NEW s \in Sessions, NEW w \in Worker, worker' = [worker EXCEPT ![s] = w]
    PROVE  worker' \in [Sessions -> Worker]
  BY DEF TypeOK, CoordinatorType

\* The background writer keeps the types.
LEMMA WorkerTypes ==
    ASSUME TypeOK, FateInv, SlotInv, NEW s \in Sessions, WorkerStep(s) \/ WorkerFails(s)
    PROVE  TypeOK'
  <1>a. CoordinatorType /\ worker[s] \in Worker
    BY DEF TypeOK, CoordinatorType
  <1>1. ASSUME WorkerOnly, worker' \in [Sessions -> Worker]
        PROVE  WindowType' /\ CoordinatorType' /\ QuitType' /\ UNCHANGED <<path, doc, favicon, fate,
                   issued, made, owed, pushed, restarts>>
    BY <1>a, <1>1 DEF TypeOK, WindowType, CoordinatorType, QuitType, lifecycle, coordinator,
                      quitVeto, history, WorkerOnly
  <1>2. Settle(s, "failed") => worker' \in [Sessions -> Worker]
    BY <1>a, MovedTask, MovedWorker DEF Settle
  <1> USE DEF TypeOK, SessionType, FileType, HistoryType
  <1>3. ASSUME WorkerBegin(s) PROVE TypeOK'
    <2>1. worker' \in [Sessions -> Worker]
      BY <1>3, <1>a, <1>2, MovedTask, MovedWorker DEF WorkerBegin
    <2> QED
      BY <1>3, <2>1, <1>1 DEF WorkerBegin
  <1>4. ASSUME WorkerClaim(s) PROVE TypeOK'
    <2>1. worker' \in [Sessions -> Worker]
      BY <1>4, <1>a, <1>2, MovedTask, MovedWorker DEF WorkerClaim
    <2> QED
      BY <1>4, <2>1, <1>1 DEF WorkerClaim
  <1>5. ASSUME WorkerPublish(s) PROVE TypeOK'
    <2>1. worker' \in [Sessions -> Worker]
      <3> DEFINE w(o) == [worker[s] EXCEPT !.phase = "done", !.abort = "Published", !.outcome = o]
      <3>1. \/ worker' = [worker EXCEPT ![s] = w("durable")]
            \/ worker' = [worker EXCEPT ![s] = w("unsynced")]
        BY <1>5 DEF WorkerPublish
      <3>2. w("durable") \in Worker /\ w("unsynced") \in Worker
        BY <1>a, MovedTask
      <3> HIDE DEF w
      <3> QED
        BY <3>1, <3>2, MovedWorker
    <2>2. worker[s].payload \in Contents
      BY <1>a DEF Worker
    <2>3. disk' \in [Paths -> Contents] /\ storage' \in [Sessions -> Contents]
      <3>1. /\ disk' = [disk EXCEPT ![path[s]] = worker[s].payload]
            /\ storage' = [storage EXCEPT ![s] = worker[s].payload]
        BY <1>5 DEF WorkerPublish
      <3> QED
        BY <2>2, <3>1
    <2>4. platter' \in [Paths -> Contents] /\ failures' \in Nat
      <3>1. /\ \/ platter' = [platter EXCEPT ![path[s]] = worker[s].payload]
               \/ platter' = platter
            /\ failures' = failures \/ failures' = failures + 1
        BY <1>5 DEF WorkerPublish
      <3> QED
        BY <2>2, <3>1
    <2> QED
      BY <1>5, <2>1, <2>3, <2>4, <1>1 DEF WorkerPublish
  <1>6. ASSUME WorkerFails(s) PROVE TypeOK'
    <2>1. worker' \in [Sessions -> Worker]
      BY <1>6, <1>2 DEF WorkerFails
    <2> QED
      BY <1>6, <2>1, <1>1 DEF WorkerFails
  <1> HIDE DEF TypeOK
  <1> QED
    BY <1>3, <1>4, <1>5, <1>6 DEF WorkerStep

\* The file and the slot of a task that has ended and still owns its slot.
LEMMA OwnerFacts ==
    ASSUME TypeOK, FateInv, SlotInv, NEW s \in Sessions, worker[s].phase # "idle"
    PROVE  /\ path[s] \in Paths
           /\ OwnsSlot(s) => /\ s \in unpersisted
                             /\ Retained(s)
                             /\ savesInFlight[path[s]].pending \in {NoSession, s}
  <1>1. path[s] \in Paths
    BY DEF SlotInv, FateInv
  <1>2. OwnsSlot(s) => s \in unpersisted /\ savesInFlight[path[s]].pending \in {NoSession, s}
    BY <1>1, ConstantsAssumption DEF SlotInv, SlotsOK, OwnsSlot
  <1> QED
    BY <1>1, <1>2 DEF SlotInv, SlotsOK, Held, FateInv

\* A settled save keeps the types of the coordinator.
LEMMA SettledTypes ==
    ASSUME TypeOK, NEW s \in Sessions, SettleSave(s)
    PROVE  CoordinatorType' /\ stalled' \in Paths \cup {NoPath}
           /\ told' \in SUBSET (Paths \cup {NoPath})
  <1>1. /\ Released(s) \in [Paths -> Slot]
        /\ EndOfTask(s) \in [Sessions -> Worker]
        /\ StatusAfter(s) \in [Sessions -> {"Idle", "Saving", "Saved", "Failed"}]
        /\ DirtyAfter(s) \in SUBSET Sessions
        /\ ToldAfter(s) \in SUBSET (Paths \cup {NoPath})
    BY ReleasedType
  <1>2. stalled' \in Paths \cup {NoPath}
    <2>1. path \in [Sessions -> Paths \cup {NoPath}]
      BY DEF TypeOK, SessionType
    <2> QED
      BY <2>1 DEF SettleSave, PublishStalled, FailedPaths, Live
  <1> QED
    BY <1>1, <1>2 DEF SettleSave, CoordinatorType

\* The end of a settled save keeps the types.
LEMMA DoneTypes ==
    ASSUME TypeOK, NEW s \in Sessions, DoneLocks(s) \/ DoneStays(s),
           doc' \in [Sessions -> Contents]
    PROVE  TypeOK'
  <1> USE DEF TypeOK, WindowType, SessionType, QuitType, FileType, HistoryType, bounds
  <1>1. SettleSave(s)
    BY DEF DoneLocks, DoneStays
  <1>2. CoordinatorType' /\ stalled' \in Paths \cup {NoPath}
        /\ told' \in SUBSET (Paths \cup {NoPath})
    BY <1>1, SettledTypes
  <1>3. CASE DoneLocks(s)
    BY <1>2, <1>3 DEF DoneLocks, WipeSessions, Statuses, Fates
  <1>4. CASE DoneStays(s)
    <2>1. worker[s].payload \in Contents /\ {} \in Contents
      BY DEF CoordinatorType, Worker, Contents
    <2>2. pushed' \in [Sessions -> Contents] /\ owed' \in [Sessions -> Contents]
      BY <1>4, <2>1 DEF DoneStays
    <2>3. deferredLock' \in SUBSET Sessions
      BY <1>4, ReleasedType DEF DoneStays
    <2>4. fate' \in [Sessions -> Fates]
      BY <1>4 DEF DoneStays, Fates
    <2> QED
      BY <1>2, <1>4, <2>2, <2>3, <2>4 DEF DoneStays
  <1> QED
    BY <1>3, <1>4

\* The trailing save a callback starts is the session's own.
LEMMA TrailingSave ==
    ASSUME TypeOK, FateInv, SlotInv, NEW s \in Sessions, worker[s].phase # "idle", OwnsSlot(s),
           NEW again, again = savesInFlight[path[s]].pending \/ again = s, again # NoSession,
           NEW dirty \in SUBSET Sessions, NEW docs \in [Sessions -> Contents],
           NEW status \in [Sessions -> {"Idle", "Saving", "Saved", "Failed"}],
           NEW sync \in BOOLEAN,
           RequestSaves({again}, sync, Live, Released(s), dirty, status, EndOfTask(s),
                        SaveTasks(docs, sync))
    PROVE  /\ again = s
           /\ SavesRequested({s}, Released(s), dirty, status, EndOfTask(s), SaveTasks(docs, sync))
           /\ CoordinatorType' /\ stalled' \in Paths \cup {NoPath}
  <1>1. again = s /\ path[s] \in Paths
    BY OwnerFacts
  <1>2. Live \in SUBSET Sessions
    BY DEF Live
  <1>3. Released(s) \in [Paths -> Slot] /\ EndOfTask(s) \in [Sessions -> Worker]
    BY ReleasedType
  <1>4. SaveTasks(docs, sync) \in [Sessions -> Worker]
    BY TaskTypes
  <1>5. SavesRequested({s}, Released(s), dirty, status, EndOfTask(s), SaveTasks(docs, sync))
    BY <1>1, <1>2, <1>3, RequestSavesFacts
  <1> QED
    BY <1>1, <1>3, <1>4, <1>5, RequestSavesTypes

\* An installed merge keeps the documents documents.
LEMMA MergedDocs ==
    ASSUME TypeOK, NEW s \in Sessions
    PROVE  [doc EXCEPT ![s] = worker[s].payload] \in [Sessions -> Contents]
  BY DEF TypeOK, SessionType, CoordinatorType, Worker

\* The completion callbacks keep the types.
LEMMA CallbackTypes ==
    ASSUME TypeOK, FateInv, SlotInv, NEW s \in Sessions, Callback(s)
    PROVE  TypeOK'
  <1>0. /\ doc \in [Sessions -> Contents]
        /\ saveStatus \in [Sessions -> {"Idle", "Saving", "Saved", "Failed"}]
        /\ unpersisted \in SUBSET Sessions
        /\ savesInFlight \in [Paths -> Slot]
        /\ worker \in [Sessions -> Worker]
        /\ CoordinatorType
    BY DEF TypeOK, SessionType, CoordinatorType
  <1>a. /\ EndOfTask(s) \in [Sessions -> Worker]
        /\ StatusAfter(s) \in [Sessions -> {"Idle", "Saving", "Saved", "Failed"}]
        /\ DirtyAfter(s) \in SUBSET Sessions
        /\ DeferredAfter(s) \in SUBSET Sessions
        /\ ToldAfter(s) \in SUBSET (Paths \cup {NoPath})
    BY ReleasedType
  <1>1. ASSUME StaleCallback(s) PROVE TypeOK'
    <2>1. CoordinatorType'
      BY <1>1, <1>0, <1>a DEF StaleCallback, coordinator, CoordinatorType
    <2> QED
      BY <1>1, <2>1 DEF StaleCallback, TypeOK, WindowType, SessionType, QuitType, FileType,
                        HistoryType, lifecycle, quitVeto, history, bounds
  <1>2. ASSUME SaveDonePending(s) PROVE TypeOK'
    <2>1. worker[s].phase # "idle" /\ OwnsSlot(s) /\ s # NoSession
      BY <1>2, ConstantsAssumption DEF SaveDonePending
    <2>2. savesInFlight[path[s]].pending = s
      BY <1>2, <2>1, OwnerFacts DEF SaveDonePending
    <2>3. /\ deferredLock' = deferredLock
          /\ told' = ToldAfter(s)
      BY <1>2, <2>2 DEF SaveDonePending
    <2>4. PICK sync \in BOOLEAN :
              RequestSaves({s}, sync, Live, Released(s), unpersisted, StatusAfter(s),
                           EndOfTask(s), SaveTasks(doc, sync))
      BY <1>2, <2>2 DEF SaveDonePending
    <2>5. CoordinatorType' /\ stalled' \in Paths \cup {NoPath}
      <3>1. SavesRequested({s}, Released(s), unpersisted, StatusAfter(s), EndOfTask(s),
                           SaveTasks(doc, sync))
        <4>1. {s} \in SUBSET Sessions /\ Live \in SUBSET Sessions /\ path[s] \in Paths
          BY <2>1, OwnerFacts DEF Live
        <4>2. Released(s) \in [Paths -> Slot]
          BY ReleasedType
        <4> QED
          BY <4>1, <4>2, <2>4, RequestSavesFacts
      <3>2. SaveTasks(doc, sync) \in [Sessions -> Worker]
        BY <1>0, TaskTypes
      <3> QED
        BY <1>0, <1>a, <3>1, <3>2, RequestSavesTypes
    <2> QED
      BY <1>2, <1>a, <2>3, <2>5 DEF SaveDonePending, TypeOK, WindowType, SessionType, QuitType,
                                    FileType, HistoryType, history, bounds
  <1>3. ASSUME SaveDoneSettled(s) PROVE TypeOK'
    <2>1. (DoneLocks(s) \/ DoneStays(s)) /\ doc' \in [Sessions -> Contents]
      BY <1>0, <1>3 DEF SaveDoneSettled
    <2> QED
      BY <2>1, DoneTypes
  <1>4. ASSUME MergeFailed(s) PROVE TypeOK'
    <2> DEFINE again == savesInFlight[path[s]].pending
    <2>1. worker[s].phase # "idle" /\ OwnsSlot(s)
      BY <1>4 DEF MergeFailed
    <2>2. /\ doc' \in [Sessions -> Contents] /\ owed' \in [Sessions -> Contents]
          /\ CoordinatorType' /\ stalled' \in Paths \cup {NoPath}
          /\ told' \in SUBSET (Paths \cup {NoPath})
      <3>1. CASE again = NoSession
        <4>1. /\ doc' = doc \/ doc' = [doc EXCEPT ![s] = worker[s].payload]
              /\ owed' = [owed EXCEPT ![s] = {}]
              /\ SettleSave(s)
          BY <1>4, <3>1 DEF MergeFailed
        <4>2. doc' \in [Sessions -> Contents] /\ owed' \in [Sessions -> Contents]
          BY <1>0, <4>1, MergedDocs DEF TypeOK, HistoryType, Contents
        <4> QED
          BY <4>1, <4>2, SettledTypes
      <3>2. CASE again # NoSession
        <4>1. /\ UNCHANGED <<doc, owed, told>>
              /\ RequestSaves({again}, TRUE, Live, Released(s), unpersisted, StatusAfter(s),
                              EndOfTask(s), SaveTasks(doc, TRUE))
          BY <1>4, <3>2 DEF MergeFailed
        <4>2. CoordinatorType' /\ stalled' \in Paths \cup {NoPath}
          BY <1>0, <1>a, <2>1, <3>2, <4>1, TrailingSave
        <4> QED
          BY <4>1, <4>2 DEF TypeOK, SessionType, HistoryType, QuitType
      <3> QED
        BY <3>1, <3>2
    <2> QED
      BY <1>4, <2>2 DEF MergeFailed, TypeOK, WindowType, SessionType, QuitType, FileType,
                        HistoryType, lifecycle, bounds
  <1>5. ASSUME MergeOutdated(s) PROVE TypeOK'
    <2>1. /\ worker[s].phase # "idle" /\ OwnsSlot(s)
          /\ RequestSaves({s}, TRUE, Live, Released(s), unpersisted, saveStatus, EndOfTask(s),
                          SaveTasks(doc, TRUE))
      BY <1>5 DEF MergeOutdated
    <2>2. s # NoSession
      BY ConstantsAssumption
    <2>3. CoordinatorType' /\ stalled' \in Paths \cup {NoPath}
      BY <1>0, <2>1, <2>2, TrailingSave
    <2> QED
      BY <1>5, <2>3 DEF MergeOutdated, TypeOK, WindowType, SessionType, QuitType, FileType,
                        HistoryType, lifecycle, history, bounds
  <1>6. ASSUME MergeInstalled(s) PROVE TypeOK'
    <2> DEFINE again == savesInFlight[path[s]].pending
    <2>1. worker[s].phase # "idle" /\ OwnsSlot(s) /\ doc' = [doc EXCEPT ![s] = worker[s].payload]
      BY <1>6 DEF MergeInstalled
    <2>2. doc' \in [Sessions -> Contents]
      BY <2>1, MergedDocs
    <2>3. CASE again = NoSession
      <3>1. DoneLocks(s) \/ DoneStays(s)
        BY <1>6, <2>3 DEF MergeInstalled
      <3> QED
        BY <2>2, <3>1, DoneTypes
    <2>4. CASE again # NoSession
      <3>1. /\ RequestSaves({again}, TRUE, Live, Released(s), unpersisted, StatusAfter(s),
                            EndOfTask(s), SaveTasks(doc', TRUE))
            /\ told' = ToldAfter(s)
            /\ UNCHANGED <<lifecycle, path, storage, favicon, armed, untold, disk, platter,
                           history, fate, bounds>>
        BY <1>6, <2>4 DEF MergeInstalled
      <3>2. CoordinatorType' /\ stalled' \in Paths \cup {NoPath}
        BY <1>0, <1>a, <2>1, <2>2, <2>4, <3>1, TrailingSave
      <3> QED
        BY <1>a, <2>2, <3>1, <3>2 DEF TypeOK, WindowType, SessionType, QuitType, FileType,
                                      HistoryType, lifecycle, history, bounds
    <2> QED
      BY <2>3, <2>4
  <1> QED
    BY <1>1, <1>2, <1>3, <1>4, <1>5, <1>6 DEF Callback

\* A process that ends leaves nothing but the files.
LEMMA RestartTypes ==
    ASSUME TypeOK, NEW end \in Fates, NEW files \in [Paths -> Contents], Restart(end, files),
           platter' \in [Paths -> Contents], told' \in SUBSET (Paths \cup {NoPath}),
           untold' \in BOOLEAN
    PROVE  TypeOK'
  <1>1. FreeSlot \in Slot /\ IdleWorker \in Worker
    BY DEF FreeSlot, Slot, IdleWorker, Worker, Contents
  <1>2. CoordinatorType'
    BY <1>1 DEF Restart, TypeOK, CoordinatorType
  <1>3. WindowType'
    BY DEF Restart, WipeSessions, WindowType, Statuses
  <1>4. fate' \in [Sessions -> Fates]
    BY DEF Restart, WipeSessions, TypeOK, SessionType
  <1>5. SessionType'
    BY <1>4 DEF Restart, WipeSessions, TypeOK, SessionType
  <1>6. stalled' = NoPath /\ armed' = FALSE /\ disk' = files /\ restarts' = restarts + 1
        /\ UNCHANGED <<issued, made, owed, pushed, failures>>
    BY DEF Restart, history
  <1>7. QuitType' /\ FileType'
    BY <1>6 DEF QuitType, FileType
  <1>8. HistoryType'
    BY <1>6 DEF HistoryType, TypeOK
  <1> QED
    BY <1>2, <1>3, <1>5, <1>7, <1>8 DEF TypeOK

\* Other programs, quits and crashes keep the types.
LEMMA WorldTypes ==
    ASSUME TypeOK,
           \/ \E p \in Paths, e \in ForeignEdits : ForeignWrite(p, e)
           \/ RefuseQuit \/ Quit \/ QuitAnyway \/ Crash
    PROVE  TypeOK'
  <1>1. ASSUME NEW p \in Paths, NEW e \in ForeignEdits, ForeignWrite(p, e) PROVE TypeOK'
    <2>1. {e} \in Contents
      BY DEF Contents, Edits
    <2>2. disk' \in [Paths -> Contents] /\ platter' \in [Paths -> Contents] /\ issued' \in Contents
      BY <1>1, <2>1 DEF ForeignWrite, TypeOK, FileType, HistoryType, Contents
    <2> QED
      BY <1>1, <2>2 DEF ForeignWrite, TypeOK, WindowType, SessionType, CoordinatorType, QuitType,
                        FileType, HistoryType, lifecycle, coordinator, quitVeto, bounds
  <1>2. ASSUME RefuseQuit PROVE TypeOK'
    BY <1>2 DEF RefuseQuit, TypeOK, WindowType, SessionType, CoordinatorType, QuitType,
                FileType, HistoryType, lifecycle, coordinator, history, bounds
  <1>3. ASSUME Quit PROVE TypeOK'
    <2>1. "quit" \in Fates /\ disk \in [Paths -> Contents] /\ Restart("quit", disk)
          /\ UNCHANGED <<platter, told, untold>>
      BY <1>3 DEF Quit, Fates, TypeOK, FileType
    <2> QED
      BY <2>1, RestartTypes DEF TypeOK, FileType, QuitType
  <1>4. ASSUME QuitAnyway PROVE TypeOK'
    <2>1. "abandoned" \in Fates /\ disk \in [Paths -> Contents] /\ Restart("abandoned", disk)
          /\ UNCHANGED platter /\ told' = {}
      BY <1>4 DEF QuitAnyway, Fates, TypeOK, FileType
    <2>2. untold' \in BOOLEAN
      BY <1>4 DEF QuitAnyway
    <2> QED
      BY <2>1, <2>2, RestartTypes DEF TypeOK, FileType
  <1>5. ASSUME Crash PROVE TypeOK'
    <2>1. PICK lost \in SUBSET Paths :
             LET files == [p \in Paths |-> IF p \in lost THEN platter[p] ELSE disk[p]]
             IN  Restart("crashed", files) /\ platter' = files
      BY <1>5 DEF Crash
    <2> DEFINE files == [p \in Paths |-> IF p \in lost THEN platter[p] ELSE disk[p]]
    <2>2. files \in [Paths -> Contents] /\ "crashed" \in Fates
      BY DEF TypeOK, FileType, Fates
    <2>3. Restart("crashed", files) /\ platter' = files
      BY <2>1
    <2>4. told' = {} /\ untold' = untold
      BY <1>5 DEF Crash
    <2> HIDE DEF files
    <2> QED
      BY <2>2, <2>3, <2>4, RestartTypes DEF TypeOK, QuitType
  <1> QED
    BY <1>1, <1>2, <1>3, <1>4, <1>5

\* Every step keeps the types, given where sessions and slots are.
LEMMA TypeOKStep ==
    ASSUME TypeOK, WindowInv, FateInv, SlotInv, OneSessionPerFile, [Next]_vars
    PROVE  TypeOK'
  <1>1. CASE UNCHANGED vars
    BY <1>1 DEF vars, TypeOK, WindowType, SessionType, CoordinatorType, QuitType, FileType,
                HistoryType, lifecycle, coordinator, quitVeto, history, bounds
  <1>2. CASE Next
    BY <1>2, WindowTypes, EditTypes, LockTypes, WorkerTypes, CallbackTypes, WorldTypes DEF Next
  <1> QED
    BY <1>1, <1>2


-----------------------------------------------------------------------------
(* Where a session may be. *)

\* Sessions stay where they are if no variable about their place changes.
LEMMA PlaceFrame ==
    ASSUME PlaceInv, UNCHANGED <<vault, active, parked, deferredLock, path, fate>>
    PROVE  PlaceInv'
  BY DEF PlaceInv, WindowInv, FateInv, OneSessionPerFile, Retained, Current, Unlocked

\* Asking for a password, opening, failing to open and switching.
LEMMA PlaceOpening ==
    ASSUME TypeOK, PlaceInv, SlotInv,
           \/ \E p \in Paths : RequestPassword(p) \/ BeginOpen(p)
           \/ \E s \in Sessions : SwitchToUnlocked(s) \/ FinishOpen(s)
           \/ FailOpen
    PROVE  PlaceInv'
  <1> USE ConstantsAssumption DEF TypeOK, WindowType, SessionType, PlaceInv, Retained, Current
  <1>1. ASSUME NEW p \in Paths, NEW status \in {"AwaitingPassword", "Opening"},
               vault.status # "LockedPendingSave", ~Unlocked(p), ParkActive,
               vault' = [status |-> status, path |-> p],
               UNCHANGED <<deferredLock, path, fate>>
        PROVE  PlaceInv'
    <2>1. \A s \in Sessions : Current(s)' <=> Current(s)
      BY <1>1 DEF ParkActive
    <2>2. \A s \in Sessions : Retained(s)' <=> Retained(s)
      BY <1>1, <2>1
    <2>3. active' = NoSession /\ deferredLock' = {}
      BY <1>1 DEF ParkActive, WindowInv
    <2>4. ~Unlocked(p)'
      BY <1>1, <2>1 DEF Unlocked
    <2>5. WindowInv'
      <3>1. vault'.path = p /\ vault'.status \in {"AwaitingPassword", "Opening"}
        BY <1>1
      <3>2. ~\E s \in Sessions : Current(s)' /\ path'[s] = vault'.path
        BY <2>4, <3>1 DEF Unlocked
      <3>3. NoSession \notin parked'
        BY <1>1 DEF ParkActive
      <3> HIDE DEF Current
      <3> QED
        BY <2>3, <3>1, <3>2, <3>3 DEF WindowInv, Unlocked
    <2>6. FateInv'
      BY <1>1, <2>2 DEF FateInv
    <2>7. OneSessionPerFile'
      BY <1>1, <2>2 DEF OneSessionPerFile
    <2> QED
      BY <2>5, <2>6, <2>7
  <1>2. ASSUME NEW p \in Paths, RequestPassword(p) PROVE PlaceInv'
    BY <1>1, <1>2 DEF RequestPassword
  <1>3. ASSUME NEW p \in Paths, BeginOpen(p) PROVE PlaceInv'
    BY <1>1, <1>3 DEF BeginOpen
  <1>4. ASSUME NEW s \in Sessions, SwitchToUnlocked(s) PROVE PlaceInv'
    <2>1. \A t \in Sessions : Current(t)' <=> Current(t)
      BY <1>4 DEF SwitchToUnlocked
    <2>2. \A t \in Sessions : Retained(t)' <=> Retained(t)
      BY <1>4, <2>1 DEF SwitchToUnlocked
    <2>3. path[s] \in Paths
      BY <1>4 DEF SwitchToUnlocked, FateInv
    <2>4. vault.status # "LockedPendingSave" /\ deferredLock = {}
      BY <1>4 DEF SwitchToUnlocked, WindowInv
    <2>5. WindowInv'
      BY <1>4, <2>3, <2>4 DEF SwitchToUnlocked, WindowInv
    <2>6. FateInv' /\ OneSessionPerFile'
      BY <1>4, <2>2 DEF FateInv, OneSessionPerFile, SwitchToUnlocked
    <2> QED
      BY <2>5, <2>6
  <1>5. ASSUME NEW s \in Sessions, FinishOpen(s) PROVE PlaceInv'
    <2>1. /\ vault.path \in Paths /\ active = NoSession /\ deferredLock = {}
          /\ ~Unlocked(vault.path) /\ ~Retained(s) /\ s \notin parked
      BY <1>5 DEF FinishOpen, WindowInv, FateInv
    <2>2. \A t \in Sessions : Retained(t)' <=> (Retained(t) \/ t = s)
      BY <1>5, <2>1 DEF FinishOpen
    <2>3. path' = [path EXCEPT ![s] = vault.path] /\ fate' = [fate EXCEPT ![s] = "open"]
      BY <1>5 DEF FinishOpen
    <2>4. WindowInv'
      BY <1>5, <2>1, <2>3 DEF FinishOpen, WindowInv
    <2>5. FateInv'
      BY <2>1, <2>2, <2>3 DEF FateInv
    <2>6. \A t \in Sessions : Retained(t) => path[t] # vault.path
      BY <2>1 DEF Unlocked
    <2>7. OneSessionPerFile'
      BY <2>1, <2>2, <2>3, <2>6 DEF OneSessionPerFile
    <2> QED
      BY <2>4, <2>5, <2>7
  <1>6. ASSUME FailOpen PROVE PlaceInv'
    BY <1>6 DEF FailOpen, WindowInv, FateInv, OneSessionPerFile
  <1> QED
    BY <1>2, <1>3, <1>4, <1>5, <1>6

\* Locking keeps exactly the sessions with save work.
LEMMA PlaceLocking ==
    ASSUME TypeOK, PlaceInv, SlotInv,
           \/ LockVault /\ UNCHANGED path
           \/ DiscardAndLock
           \/ \E s \in Sessions : DoneLocks(s)
           \/ Quit \/ QuitAnyway \/ Crash
    PROVE  PlaceInv'
  <1>1. ASSUME NEW end \in Fates \ {"open", "unopened"}, WipeSessions(end), UNCHANGED path
        PROVE  PlaceInv'
    <2>1. \A s \in Sessions : ~Retained(s)'
      BY <1>1, ConstantsAssumption DEF WipeSessions, Retained, Current
    <2>2. WindowInv'
      BY <1>1 DEF WipeSessions, WindowInv
    <2>3. FateInv'
      BY <1>1, <2>1 DEF WipeSessions, FateInv, PlaceInv
    <2> QED
      BY <2>1, <2>2, <2>3 DEF PlaceInv, OneSessionPerFile
  <1>2. ASSUME LockVault, UNCHANGED path PROVE PlaceInv'
    <2>1. CASE HasUnpersistedWork
      <3>1. Quarantine
        BY <1>2, <2>1 DEF LockVault
      <3>2. CASE vault.status = "LockedPendingSave"
        BY <1>2, <3>1, <3>2, PlaceFrame DEF Quarantine
      <3>3. CASE vault.status # "LockedPendingSave"
        <4> DEFINE kept == {s \in Sessions :
                              Current(s) /\ (s \in unpersisted \/ InQueue(s, savesInFlight))}
        <4>1. /\ vault' = [status |-> "LockedPendingSave", path |-> NoPath]
              /\ active' = NoSession
              /\ parked' = {}
              /\ deferredLock' = deferredLock \cup kept
              /\ fate' = [s \in Sessions |->
                             IF Current(s) /\ s \notin kept THEN "locked" ELSE fate[s]]
          BY <3>1, <3>3 DEF Quarantine
        <4>2. deferredLock = {}
          BY <3>3 DEF PlaceInv, WindowInv
        <4>3. \A s \in Sessions : Retained(s)' <=> (Retained(s) /\ s \in kept)
          BY <4>1, <4>2, ConstantsAssumption DEF Retained, Current
        <4>4. \A s \in Sessions : Retained(s) <=> Current(s)
          BY <4>2 DEF Retained
        <4>5. NoSession \notin deferredLock'
          BY <4>1, <4>2, ConstantsAssumption
        <4> HIDE DEF kept
        <4>6. WindowInv'
          BY <4>1, <4>5 DEF WindowInv
        <4>7. FateInv'
          BY <1>2, <4>1, <4>3, <4>4 DEF PlaceInv, FateInv
        <4>8. OneSessionPerFile'
          BY <1>2, <4>3 DEF PlaceInv, OneSessionPerFile
        <4> QED
          BY <4>6, <4>7, <4>8 DEF PlaceInv
      <3> QED
        BY <3>2, <3>3
    <2>2. CASE ~HasUnpersistedWork
      BY <1>1, <1>2, <2>2 DEF LockVault, Fates
    <2> QED
      BY <2>1, <2>2
  <1> QED
    BY <1>1, <1>2 DEF DiscardAndLock, DoneLocks, Quit, QuitAnyway, Crash, Restart, Fates

\* A saved session leaves the quarantine; nothing else moves.
LEMMA PlaceSettled ==
    ASSUME TypeOK, PlaceInv, SlotInv, NEW s \in Sessions, DoneStays(s)
    PROVE  PlaceInv'
  <1>1. /\ deferredLock' = deferredLock \ {s} \/ deferredLock' = deferredLock
        /\ UNCHANGED <<vault, active, parked, path>>
        /\ fate' = [fate EXCEPT ![s] = IF s \in deferredLock \ deferredLock' THEN "locked" ELSE @]
    BY DEF DoneStays, DeferredAfter
  <1>2. CASE s \in deferredLock \ deferredLock'
    <2>1. deferredLock' = deferredLock \ {s} /\ fate' = [fate EXCEPT ![s] = "locked"]
      BY <1>1, <1>2
    <2>2. ~Current(s) /\ Retained(s)
      BY <1>2 DEF PlaceInv, WindowInv, Current, Retained
    <2>3. \A t \in Sessions : Retained(t)' <=> Retained(t) /\ t # s
      BY <1>1, <2>1, <2>2 DEF Retained, Current
    <2>4. WindowInv'
      BY <1>1, <2>1 DEF PlaceInv, WindowInv, Unlocked, Current
    <2>5. FateInv'
      BY <1>1, <2>1, <2>2, <2>3 DEF PlaceInv, FateInv, TypeOK, SessionType
    <2>6. OneSessionPerFile'
      <3>1. path' = path /\ OneSessionPerFile
        BY <1>1 DEF PlaceInv
      <3> QED
        BY <2>3, <3>1 DEF OneSessionPerFile
    <2> QED
      BY <2>4, <2>5, <2>6 DEF PlaceInv
  <1>3. CASE s \notin deferredLock \ deferredLock'
    <2>1. fate' = fate
      BY <1>1, <1>3 DEF TypeOK, SessionType
    <2>2. deferredLock' = deferredLock
      BY <1>1, <1>3
    <2> QED
      BY <1>1, <2>1, <2>2, PlaceFrame
  <1> QED
    BY <1>2, <1>3

-----------------------------------------------------------------------------
(* What the slots, the tasks, the documents and the files hold. *)

\* The data invariant speaks of these variables only.
LEMMA DataFrame ==
    ASSUME DataInv,
           UNCHANGED <<path, doc, storage, coordinator, worker, disk, platter, issued, made, fate>>
    PROVE  DataInv'
  <1>1. SlotInv'
    BY DEF DataInv, SlotInv, SlotsOK, Held, coordinator
  <1>2. TaskInv'
    BY DEF DataInv, TaskInv, TaskOK, Covered, HoldsFileLock, coordinator
  <1>3. EditsInv' /\ FileInv'
    BY DEF DataInv, EditsInv, FileInv
  <1>4. SavedInv'
    BY DEF DataInv, SavedInv, coordinator
  <1> QED
    BY <1>1, <1>2, <1>3, <1>4 DEF DataInv

\* A newly opened document is what its file held, and its session has no task.
LEMMA DataOpened ==
    ASSUME TypeOK, PlaceInv, DataInv, NEW s \in Sessions, FinishOpen(s)
    PROVE  DataInv'
  <1>1. /\ path' = [path EXCEPT ![s] = vault.path]
        /\ fate' = [fate EXCEPT ![s] = "open"]
        /\ fate[s] = "unopened" /\ vault.path \in Paths
        /\ UNCHANGED <<unpersisted, savesInFlight, worker, disk, platter, issued, made>>
    BY DEF FinishOpen, PlaceInv, WindowInv, coordinator, history
  <1>2. PICK read \in reading : /\ doc' = [doc EXCEPT ![s] = read]
                                /\ storage' = [storage EXCEPT ![s] = read]
    BY DEF FinishOpen
  <1>3. /\ fate \in [Sessions -> Fates] /\ path \in [Sessions -> Paths \cup {NoPath}]
        /\ doc \in [Sessions -> Contents] /\ storage \in [Sessions -> Contents]
        /\ savesInFlight \in [Paths -> Slot]
        /\ unpersisted \in SUBSET Sessions
    BY DEF TypeOK, SessionType, CoordinatorType
  <1>4. worker[s].phase = "idle" /\ made[s] = {} /\ s \notin unpersisted
    BY <1>1 DEF DataInv, SlotInv, SlotsOK, Held, EditsInv
  <1>5. \A p \in Paths : savesInFlight[p].owner # s
    BY <1>3, <1>4, ConstantsAssumption DEF DataInv, SlotInv, SlotsOK
  <1>6. Held' = Held \cup {s}
    BY <1>1, <1>3 DEF Held
  <1>7. SlotInv'
    <2>1. SlotsOK(savesInFlight, unpersisted, worker, Held)'
      BY <1>1, <1>3, <1>4, <1>5, <1>6 DEF DataInv, SlotInv, SlotsOK, Slot
    <2> QED
      BY <1>1, <1>3, <2>1 DEF DataInv, SlotInv
  <1>8. TaskInv'
    <2>1. ASSUME NEW t \in Sessions PROVE (TaskOK(t, worker[t]) /\ Covered(t, worker[t], savesInFlight))'
      <3>1. CASE t = s
        BY <1>1, <1>4, <3>1 DEF TaskOK, Covered
      <3>2. CASE t # s
        <4>1. path'[t] = path[t] /\ doc'[t] = doc[t] /\ storage'[t] = storage[t]
          BY <1>1, <1>2, <1>3, <3>2
        <4> QED
          BY <1>1, <4>1 DEF DataInv, TaskInv, TaskOK, Covered
      <3> QED
        BY <3>1, <3>2
    <2>2. (\A t, u \in Sessions : HoldsFileLock(t) /\ HoldsFileLock(u) /\ path[t] = path[u] => t = u)'
      BY <1>1, <1>3, <1>4 DEF DataInv, TaskInv, HoldsFileLock
    <2> QED
      BY <2>1, <2>2 DEF TaskInv
  <1>9. EditsInv'
    BY <1>1, <1>2, <1>3, <1>4 DEF DataInv, EditsInv
  <1>10. FileInv'
    BY <1>1 DEF DataInv, FileInv
  <1>11. SavedInv'
    BY <1>1, <1>3, <1>4 DEF DataInv, SavedInv
  <1> QED
    BY <1>7, <1>8, <1>9, <1>10, <1>11 DEF DataInv

\* Requests of held sessions of different files keep the slots in order.
LEMMA RequestKeepsSlots ==
    ASSUME TypeOK, NEW held \in SUBSET Sessions, NEW R \in SUBSET held,
           \A s, t \in held : path[s] = path[t] => s = t,
           \A s \in held : path[s] \in Paths,
           NEW slots \in [Paths -> Slot], NEW dirty, NEW status,
           NEW tasks, NEW start, SlotsOK(slots, dirty, tasks, held),
           \A s \in R : start[s].phase # "idle",
           SavesRequested(R, slots, dirty, status, tasks, start)
    PROVE  SlotsOK(savesInFlight', unpersisted', worker', held)
  <1>1. /\ unpersisted' = dirty \cup R
        /\ savesInFlight' \in [Paths -> Slot]
        /\ \A p \in Paths : (\A s \in R : path[s] # p) => savesInFlight'[p] = slots[p]
        /\ \A s \in R : slots[path[s]] = FreeSlot => savesInFlight'[path[s]] = QueuedSave(s)
        /\ \A s \in R : slots[path[s]] # FreeSlot =>
               /\ savesInFlight'[path[s]].owner = slots[path[s]].owner
               /\ savesInFlight'[path[s]].pending = s
        /\ \A s \in Sessions : worker'[s] =
               IF s \in R /\ slots[path[s]] = FreeSlot THEN start[s] ELSE tasks[s]
    BY DEF SavesRequested
  <1>2. /\ \A p \in Paths : slots[p].owner = NoSession => slots[p] = FreeSlot
        /\ \A p \in Paths : slots[p].owner # NoSession =>
              /\ path[slots[p].owner] = p
              /\ slots[p].owner \in dirty
              /\ tasks[slots[p].owner].phase # "idle"
              /\ slots[p].pending \in {NoSession, slots[p].owner}
        /\ dirty \subseteq held
        /\ \A s \in Sessions : tasks[s].phase # "idle" =>
              IF s \in held THEN slots[path[s]].owner = s ELSE tasks[s].abort = "Aborted"
    BY DEF SlotsOK
  <1>3. /\ \A p \in Paths : slots[p].owner \in Sessions \cup {NoSession}
        /\ FreeSlot.owner = NoSession
        /\ \A s \in Sessions : QueuedSave(s).owner = s /\ QueuedSave(s).pending = NoSession
    BY DEF Slot, FreeSlot, QueuedSave
  <1>4. ASSUME NEW p \in Paths
        PROVE  /\ savesInFlight'[p].owner = NoSession => savesInFlight'[p] = FreeSlot
               /\ savesInFlight'[p].owner # NoSession =>
                      /\ path[savesInFlight'[p].owner] = p
                      /\ savesInFlight'[p].owner \in unpersisted'
                      /\ worker'[savesInFlight'[p].owner].phase # "idle"
                      /\ savesInFlight'[p].pending \in {NoSession, savesInFlight'[p].owner}
    <2>1. CASE \A s \in R : path[s] # p
      <3>1. savesInFlight'[p] = slots[p]
        BY <1>1, <2>1
      <3>2. slots[p].owner # NoSession =>
                worker'[slots[p].owner] = tasks[slots[p].owner] /\ slots[p].owner \in Sessions
        BY <1>1, <1>2, <1>3, <2>1
      <3> QED
        BY <1>1, <1>2, <3>1, <3>2
    <2>2. ASSUME NEW s \in R, path[s] = p, slots[p] = FreeSlot
          PROVE  /\ savesInFlight'[p].owner = s /\ savesInFlight'[p].pending = NoSession
                 /\ worker'[s].phase # "idle"
      BY <1>1, <1>3, <2>2
    <2>3. ASSUME NEW s \in R, path[s] = p, slots[p] # FreeSlot
          PROVE  /\ savesInFlight'[p].owner = s /\ savesInFlight'[p].pending = s
                 /\ worker'[s].phase # "idle"
      <3>1. slots[p].owner \in held /\ path[slots[p].owner] = p
        BY <1>2, <1>3, <2>3
      <3>2. slots[p].owner = s
        BY <2>3, <3>1
      <3> QED
        BY <1>1, <1>2, <1>3, <2>3, <3>2
    <2>4. CASE \E s \in R : path[s] = p
      <3>1. PICK s \in R : path[s] = p
        BY <2>4
      <3>2. /\ savesInFlight'[p].owner = s /\ savesInFlight'[p].pending \in {NoSession, s}
            /\ worker'[s].phase # "idle"
        BY <2>2, <2>3, <3>1
      <3> QED
        BY <1>1, <3>1, <3>2, ConstantsAssumption
    <2> QED
      BY <2>1, <2>4
  <1>5. unpersisted' \subseteq held
    BY <1>1, <1>2
  <1>6. ASSUME NEW s \in Sessions, worker'[s].phase # "idle"
        PROVE  IF s \in held THEN savesInFlight'[path[s]].owner = s
               ELSE worker'[s].abort = "Aborted"
    <2>1. CASE s \in R
      <3>1. path[s] \in Paths
        BY <2>1
      <3>2. slots[path[s]] # FreeSlot => slots[path[s]].owner = s
        BY <1>2, <1>3, <2>1, <3>1
      <3> QED
        BY <1>1, <1>3, <2>1, <3>2
    <2>2. CASE s \in held \ R
      <3>1. slots[path[s]].owner = s /\ path[s] \in Paths
        BY <1>1, <1>2, <1>6, <2>2
      <3>2. \A t \in R : path[t] # path[s]
        BY <2>2
      <3> QED
        BY <1>1, <2>2, <3>1, <3>2
    <2>3. CASE s \notin held
      BY <1>1, <1>2, <1>6, <2>3
    <2> QED
      BY <2>1, <2>2, <2>3
  <1> QED
    BY <1>4, <1>5, <1>6 DEF SlotsOK

\* A task stays in order while its document only grows and its file stays.
LEMMA KeptTask ==
    ASSUME NEW s \in Sessions, TaskOK(s, worker[s]), worker'[s] = worker[s],
           storage'[s] = storage[s], path'[s] = path[s],
           disk' = disk, platter' = platter,
           doc[s] \subseteq doc'[s], made[s] \subseteq made'[s]
    PROVE  TaskOK(s, worker[s])'
  BY DEF TaskOK

\* A session without a task has none to be out of order.
LEMMA IdleTask ==
    ASSUME NEW s \in Sessions, worker'[s].phase = "idle"
    PROVE  TaskOK(s, worker[s])'
  BY DEF TaskOK

\* The task of a save request is in order, and covers what was made.
LEMMA FreshTask ==
    ASSUME NEW s \in Sessions, NEW sync, EditsInv', storage'[s] = storage[s],
           worker'[s] = NewWorker(s, "save", doc'[s], doc'[s], sync)
    PROVE  /\ TaskOK(s, worker[s])'
           /\ Covered(s, worker[s], savesInFlight)'
           /\ worker'[s].phase = "queued"
  <1>1. /\ worker'[s].phase = "queued" /\ worker'[s].abort = "Writing"
        /\ worker'[s].expected = storage'[s] /\ worker'[s].outcome = "none"
        /\ worker'[s].payload = doc'[s] /\ worker'[s].kind = "save"
    BY DEF NewWorker
  <1>2. /\ made'[s] \subseteq doc'[s]
        /\ storage'[s] \ MergeEdits \subseteq doc'[s]
        /\ doc'[s] \ (made'[s] \cup MergeEdits) \subseteq storage'[s]
    BY DEF EditsInv
  <1>3. TaskOK(s, worker[s])'
    BY <1>1, <1>2 DEF TaskOK
  <1>4. Covered(s, worker[s], savesInFlight)'
    BY <1>1, <1>2 DEF Covered
  <1> QED
    BY <1>1, <1>3, <1>4

\* Save requests keep the tasks in order if those they start are.  Slots may
\* have been released and tasks may have ended just before.
LEMMA RequestKeepsTasks ==
    ASSUME TypeOK, TaskInv,
           NEW R \in SUBSET Sessions, NEW slots \in [Paths -> Slot],
           NEW dirty, NEW status, NEW tasks, NEW start,
           SavesRequested(R, slots, dirty, status, tasks, start),
           \A s \in R : slots[path[s]] = FreeSlot =>
               /\ (TaskOK(s, worker[s]) /\ Covered(s, worker[s], savesInFlight))'
               /\ worker'[s].phase = "queued",
           \A s \in R : path[s] \in Paths,
           \A p \in Paths : slots[p] \in {savesInFlight[p], FreeSlot},
           \A s \in Sessions : tasks[s] = worker[s] \/ tasks[s].phase = "idle",
           \A s \in Sessions : worker[s].phase # "idle" => path[s] \in Paths,
           UNCHANGED <<path, storage, disk, platter>>,
           \A s \in Sessions : doc[s] \subseteq doc'[s] /\ made[s] \subseteq made'[s],
           \A s \in Sessions \ R : made'[s] = made[s]
    PROVE  TaskInv'
  <1>1. /\ savesInFlight' \in [Paths -> Slot]
        /\ \A p \in Paths : (\A s \in R : path[s] # p) => savesInFlight'[p] = slots[p]
        /\ \A s \in R : slots[path[s]] = FreeSlot => savesInFlight'[path[s]] = QueuedSave(s)
        /\ \A s \in R : slots[path[s]] # FreeSlot =>
               /\ savesInFlight'[path[s]].owner = slots[path[s]].owner
               /\ savesInFlight'[path[s]].pending = s
        /\ \A s \in Sessions : worker'[s] =
               IF s \in R /\ slots[path[s]] = FreeSlot THEN start[s] ELSE tasks[s]
    BY DEF SavesRequested
  <1>2. FreeSlot.owner = NoSession /\ \A s \in R : QueuedSave(s).owner = s
    BY DEF FreeSlot, QueuedSave
  <1>3. ASSUME NEW s \in Sessions, ~(s \in R /\ slots[path[s]] = FreeSlot)
        PROVE  /\ (TaskOK(s, worker[s]) /\ Covered(s, worker[s], savesInFlight))'
               /\ worker'[s].phase = "writing" => worker[s].phase = "writing"
    <2>1. worker'[s] = worker[s] \/ worker'[s].phase = "idle"
      BY <1>1, <1>3
    <2>2. CASE worker'[s].phase = "idle"
      <3>1. Covered(s, worker[s], savesInFlight)'
        BY <2>2 DEF Covered
      <3> QED
        BY <2>2, <3>1, IdleTask
    <2>3. CASE worker'[s] = worker[s] /\ worker[s].phase # "idle"
      <3>1. TaskOK(s, worker[s])'
        BY <2>3, KeptTask DEF TaskInv
      <3>2. Covered(s, worker[s], savesInFlight)'
        <4>1. SUFFICES ASSUME worker[s].kind = "save",
                              savesInFlight'[path[s]].owner = s,
                              savesInFlight'[path[s]].pending = NoSession
                       PROVE  made'[s] \ IconEdits \subseteq worker[s].payload
          BY <2>3 DEF Covered
        <4>2. path[s] \in Paths
          BY <2>3
        <4>3. \A t \in R : path[t] # path[s]
          <5>1. SUFFICES ASSUME NEW t \in R, path[t] = path[s] PROVE FALSE
            OBVIOUS
          <5>2. CASE slots[path[t]] = FreeSlot
            BY <1>1, <1>2, <1>3, <4>1, <5>1, <5>2
          <5>3. CASE slots[path[t]] # FreeSlot
            BY <1>1, <4>1, <5>1, <5>3, ConstantsAssumption
          <5> QED
            BY <5>2, <5>3
        <4>4. savesInFlight'[path[s]] = slots[path[s]]
          BY <1>1, <4>2, <4>3
        <4>5. slots[path[s]] = savesInFlight[path[s]]
          BY <1>2, <4>1, <4>2, <4>4, ConstantsAssumption
        <4>6. s \notin R
          BY <4>3
        <4>7. made[s] \ IconEdits \subseteq worker[s].payload
          BY <2>3, <4>1, <4>4, <4>5 DEF TaskInv, Covered
        <4> QED
          BY <4>6, <4>7
      <3> QED
        BY <2>3, <3>1, <3>2
    <2> QED
      BY <2>1, <2>2, <2>3
  <1>4. (\A s, t \in Sessions : HoldsFileLock(s) /\ HoldsFileLock(t) /\ path[s] = path[t] => s = t)'
    <2>1. \A s \in Sessions : worker'[s].phase = "writing" => worker[s].phase = "writing"
      BY <1>3
    <2> QED
      BY <2>1 DEF TaskInv, HoldsFileLock
  <1> QED
    BY <1>3, <1>4 DEF TaskInv

\* Edits stay in their documents while neither changes.
LEMMA EditsKept ==
    ASSUME EditsInv, UNCHANGED <<doc, made, storage>>, issued \subseteq issued',
           \A s \in Sessions : fate'[s] = "unopened" => fate[s] = "unopened"
    PROVE  EditsInv'
  BY DEF EditsInv

\* A new edit of an open session.
LEMMA EditsGrown ==
    ASSUME TypeOK, EditsInv, NEW s \in Sessions, fate[s] # "unopened",
           NEW e \in (UserEdits \cup IconEdits) \ issued, issued' = issued \cup {e},
           doc' = [doc EXCEPT ![s] = @ \cup {e}], made' = [made EXCEPT ![s] = @ \cup {e}],
           UNCHANGED <<storage, fate>>
    PROVE  EditsInv'
  <1>1. /\ doc \in [Sessions -> Contents] /\ made \in [Sessions -> Contents]
    BY DEF TypeOK, SessionType, HistoryType
  <1>2. /\ doc'[s] = doc[s] \cup {e} /\ made'[s] = made[s] \cup {e}
        /\ \A t \in Sessions \ {s} : doc'[t] = doc[t] /\ made'[t] = made[t]
    BY <1>1
  <1>3. ASSUME NEW t \in Sessions
        PROVE  /\ made'[t] \subseteq issued' \cap (UserEdits \cup IconEdits)
               /\ made'[t] \subseteq doc'[t]
               /\ storage'[t] \ MergeEdits \subseteq doc'[t]
               /\ doc'[t] \ (made'[t] \cup MergeEdits) \subseteq storage'[t]
               /\ fate'[t] = "unopened" => made'[t] = {}
    BY <1>2 DEF EditsInv
  <1>4. ASSUME NEW t \in Sessions, NEW u \in Sessions, t # u
        PROVE  made'[t] \cap made'[u] = {}
    <2>1. e \notin made[t] /\ e \notin made[u] /\ made[t] \cap made[u] = {}
      BY <1>4 DEF EditsInv
    <2> QED
      BY <1>2, <1>4, <2>1
  <1> QED
    BY <1>3, <1>4 DEF EditsInv

\* Whoever is new among the saved sessions had everything saved.
LEMMA SavedKept ==
    ASSUME SavedInv, UNCHANGED <<path, platter>>,
           \A s \in Sessions : fate'[s] \in {"locked", "quit"} \/ (fate'[s] = "open" /\ s \notin unpersisted')
               => /\ made'[s] \ IconEdits = made[s] \ IconEdits
                  /\ fate[s] \in {"locked", "quit"} \/ (fate[s] = "open" /\ s \notin unpersisted)
    PROVE  SavedInv'
  BY DEF SavedInv

\* Save requests of held sessions keep the slots, the tasks and the files in
\* order, whatever was released just before.
LEMMA RequestedData ==
    ASSUME TypeOK, PlaceInv, DataInv, EditsInv', SavedInv', Held' \subseteq Held,
           NEW R \in SUBSET Held', NEW slots \in [Paths -> Slot],
           NEW dirty, NEW status, NEW tasks, NEW start,
           SavesRequested(R, slots, dirty, status, tasks, start),
           SlotsOK(slots, dirty, tasks, Held'),
           \A s \in R : start[s].phase # "idle",
           \A s \in R : slots[path[s]] = FreeSlot =>
               /\ (TaskOK(s, worker[s]) /\ Covered(s, worker[s], savesInFlight))'
               /\ worker'[s].phase = "queued",
           \A p \in Paths : slots[p] \in {savesInFlight[p], FreeSlot},
           \A s \in Sessions : tasks[s] = worker[s] \/ tasks[s].phase = "idle",
           \A s \in Sessions : fate'[s] = "unopened" => fate[s] = "unopened",
           UNCHANGED <<path, storage, disk, platter>>,
           \A s \in Sessions : doc[s] \subseteq doc'[s] /\ made[s] \subseteq made'[s],
           \A s \in Sessions \ R : made'[s] = made[s]
    PROVE  DataInv'
  <1>1. /\ \A s \in Held : Retained(s) /\ path[s] \in Paths
        /\ \A s \in Sessions : worker[s].phase # "idle" => path[s] \in Paths
        /\ Held' \in SUBSET Sessions
    BY DEF PlaceInv, FateInv, Held, DataInv, SlotInv
  <1>2. \A s, t \in Held' : path[s] = path[t] => s = t
    BY <1>1 DEF PlaceInv, OneSessionPerFile
  <1>3. SlotsOK(savesInFlight', unpersisted', worker', Held')
    BY <1>1, <1>2, RequestKeepsSlots
  <1>4. SlotInv'
    <2>1. SlotsOK(savesInFlight, unpersisted, worker, Held)'
      BY <1>3 DEF SlotsOK
    <2>2. ASSUME NEW s \in Sessions, worker'[s].phase # "idle" PROVE fate'[s] # "unopened"
      <3>1. CASE s \in R
        BY <3>1 DEF Held
      <3>2. CASE s \notin R
        <4>1. worker'[s] = tasks[s]
          BY <3>2 DEF SavesRequested
        <4> QED
          BY <2>2, <4>1 DEF DataInv, SlotInv
      <3> QED
        BY <3>1, <3>2
    <2> QED
      BY <2>1, <2>2 DEF SlotInv
  <1>5. TaskInv'
    <2>1. R \in SUBSET Sessions /\ \A s \in R : path[s] \in Paths
      BY <1>1
    <2>2. TaskInv
      BY DEF DataInv
    <2> HIDE DEF Held
    <2> QED
      BY <1>1, <2>1, <2>2, RequestKeepsTasks
  <1>6. FileInv'
    BY DEF DataInv, FileInv
  <1> QED
    BY <1>4, <1>5, <1>6 DEF DataInv

\* A request of one session for its latest document, with its slot as it is.
LEMMA RequestedByOne ==
    ASSUME TypeOK, PlaceInv, DataInv, EditsInv', NEW s \in Sessions, fate[s] = "open",
           NEW sync \in BOOLEAN, NEW live \in SUBSET Sessions,
           RequestSaves({s}, sync, live, savesInFlight, unpersisted, saveStatus, worker,
                        SaveTasks(doc', sync)),
           UNCHANGED <<path, storage, disk, platter, fate>>,
           \A t \in Sessions : doc[t] \subseteq doc'[t] /\ made[t] \subseteq made'[t],
           \A t \in Sessions \ {s} : made'[t] = made[t]
    PROVE  DataInv'
  <1>1. /\ savesInFlight \in [Paths -> Slot] /\ unpersisted \in SUBSET Sessions
        /\ path[s] \in Paths /\ Held' = Held /\ s \in Held
    BY DEF TypeOK, CoordinatorType, PlaceInv, FateInv, Held
  <1>2. SavesRequested({s}, savesInFlight, unpersisted, saveStatus, worker, SaveTasks(doc', sync))
    BY <1>1, RequestSavesFacts
  <1>3. SaveTasks(doc', sync)[s] = NewWorker(s, "save", doc'[s], doc'[s], sync)
    BY DEF SaveTasks
  <1>4. SaveTasks(doc', sync)[s].phase # "idle"
    BY <1>3 DEF NewWorker
  <1>5. ASSUME savesInFlight[path[s]] = FreeSlot
        PROVE  /\ (TaskOK(s, worker[s]) /\ Covered(s, worker[s], savesInFlight))'
               /\ worker'[s].phase = "queued"
    <2>1. worker'[s] = NewWorker(s, "save", doc'[s], doc'[s], sync)
      BY <1>2, <1>3, <1>5 DEF SavesRequested
    <2> QED
      BY <2>1, FreshTask
  <1>6. SavedInv'
    <2>1. unpersisted' = unpersisted \cup {s}
      BY <1>2 DEF SavesRequested
    <2>2. \A t \in Sessions : fate'[t] \in {"locked", "quit"} \/ (fate'[t] = "open" /\ t \notin unpersisted')
               => /\ made'[t] \ IconEdits = made[t] \ IconEdits
                  /\ fate[t] \in {"locked", "quit"} \/ (fate[t] = "open" /\ t \notin unpersisted)
      BY <2>1
    <2> QED
      BY <2>2, SavedKept DEF DataInv
  <1>7. SlotsOK(savesInFlight, unpersisted, worker, Held')
    BY <1>1 DEF DataInv, SlotInv
  <1> QED
    BY <1>1, <1>2, <1>4, <1>5, <1>6, <1>7, RequestedData, SMTT(60)

\* Edits, retries and the outcomes of favicon runs.
LEMMA DataEdited ==
    ASSUME TypeOK, PlaceInv, DataInv,
           \/ \E e \in UserEdits, sync \in BOOLEAN : Edit(e, sync)
           \/ SaveNow \/ FinishFavicons
           \/ \E s \in Sessions, e \in MergeEdits : CommitMergedLate(s, e)
    PROVE  DataInv'
  <1>0. /\ \A s \in Sessions : Current(s) => fate[s] = "open"
        /\ vault.status = "Open" => active \in Sessions /\ Current(active)
        /\ Live \in SUBSET Sessions
        /\ doc \in [Sessions -> Contents] /\ made \in [Sessions -> Contents]
        /\ EditsInv
    BY DEF PlaceInv, WindowInv, FateInv, Retained, Current, Live, TypeOK, WindowType,
           SessionType, HistoryType, DataInv
  <1>1. ASSUME NEW e \in UserEdits, NEW sync \in BOOLEAN, Edit(e, sync) PROVE DataInv'
    <2>1. /\ active \in Sessions /\ fate[active] = "open"
          /\ RequestSaves({active}, sync, Live, savesInFlight, unpersisted, saveStatus, worker,
                          SaveTasks(doc', sync))
          /\ UNCHANGED <<path, storage, disk, platter, fate>>
          /\ e \in (UserEdits \cup IconEdits) \ issued /\ issued' = issued \cup {e}
          /\ doc' = [doc EXCEPT ![active] = @ \cup {e}]
          /\ made' = [made EXCEPT ![active] = @ \cup {e}]
      BY <1>0, <1>1 DEF Edit
    <2>2. EditsInv'
      BY <1>0, <2>1, EditsGrown
    <2>3. /\ \A t \in Sessions : doc[t] \subseteq doc'[t] /\ made[t] \subseteq made'[t]
          /\ \A t \in Sessions \ {active} : made'[t] = made[t]
      BY <1>0, <2>1
    <2> QED
      BY <1>0, <2>1, <2>2, <2>3, RequestedByOne
  <1>2. ASSUME NEW s \in Sessions, Current(s),
               RequestSaves({s}, TRUE, Live, savesInFlight, unpersisted, saveStatus, worker,
                            SaveTasks(doc, TRUE)),
               UNCHANGED <<path, doc, storage, disk, platter, made, fate>>,
               issued \subseteq issued'
        PROVE  DataInv'
    <2>1. EditsInv'
      BY <1>0, <1>2, EditsKept
    <2>2. RequestSaves({s}, TRUE, Live, savesInFlight, unpersisted, saveStatus, worker,
                       SaveTasks(doc', TRUE))
      BY <1>2
    <2> QED
      BY <1>0, <1>2, <2>1, <2>2, RequestedByOne
  <1>3. ASSUME SaveNow PROVE DataInv'
    BY <1>0, <1>2, <1>3 DEF SaveNow, history
  <1>4. ASSUME NEW s \in Sessions, NEW e \in MergeEdits, CommitMergedLate(s, e) PROVE DataInv'
    BY <1>2, <1>4 DEF CommitMergedLate
  <1>5. ASSUME FinishFavicons PROVE DataInv'
    <2>1. UNCHANGED <<path, doc, storage, disk, platter, made, fate, issued>>
      BY <1>5 DEF FinishFavicons, history
    <2>2. CASE Current(favicon) /\ made[favicon] \cap IconEdits # {}
      <3>1. favicon \in Sessions
        BY <1>5 DEF FinishFavicons, TypeOK, SessionType
      <3> QED
        BY <1>2, <1>5, <2>1, <2>2, <3>1 DEF FinishFavicons
    <2>3. CASE UNCHANGED <<coordinator, worker>>
      BY <2>1, <2>3, DataFrame
    <2> QED
      BY <1>5, <2>2, <2>3 DEF FinishFavicons
  <1> QED
    BY <1>1, <1>3, <1>4, <1>5

\* An icon of a favicon run: its session is marked, no task changes.
LEMMA DataIcon ==
    ASSUME TypeOK, PlaceInv, DataInv, NEW e \in IconEdits, LandIcon(e)
    PROVE  DataInv'
  <1> DEFINE s == favicon
  <1>1. /\ s \in Sessions /\ Current(s) /\ fate[s] = "open"
        /\ e \in (UserEdits \cup IconEdits) \ issued /\ issued' = issued \cup {e}
        /\ doc' = [doc EXCEPT ![s] = @ \cup {e}] /\ made' = [made EXCEPT ![s] = @ \cup {e}]
        /\ unpersisted' = unpersisted \cup {s}
        /\ UNCHANGED <<path, storage, savesInFlight, worker, disk, platter, fate>>
    BY DEF LandIcon, TypeOK, SessionType, PlaceInv, FateInv, Retained
  <1> HIDE DEF s
  <1>2. doc \in [Sessions -> Contents] /\ made \in [Sessions -> Contents]
    BY DEF TypeOK, SessionType, HistoryType
  <1>3. EditsInv'
    BY <1>1, EditsGrown DEF DataInv
  <1>4. SlotInv'
    BY <1>1 DEF DataInv, SlotInv, SlotsOK, Held
  <1>5. ASSUME NEW t \in Sessions
        PROVE  /\ doc[t] \subseteq doc'[t] /\ made[t] \subseteq made'[t]
               /\ made'[t] \ IconEdits = made[t] \ IconEdits
    BY <1>1, <1>2
  <1>6. TaskInv'
    <2>1. ASSUME NEW t \in Sessions PROVE TaskOK(t, worker[t])'
      BY <1>1, <1>5, KeptTask DEF DataInv, TaskInv
    <2>2. ASSUME NEW t \in Sessions PROVE Covered(t, worker[t], savesInFlight)'
      BY <1>1, <1>5 DEF DataInv, TaskInv, Covered
    <2> QED
      BY <1>1, <2>1, <2>2 DEF DataInv, TaskInv, HoldsFileLock
  <1>7. FileInv'
    BY <1>1 DEF DataInv, FileInv
  <1>8. SavedInv'
    BY <1>1, <1>5, SavedKept DEF DataInv
  <1> QED
    BY <1>3, <1>4, <1>6, <1>7, <1>8 DEF DataInv

\* The write of a merged document.
LEMMA DataMerging ==
    ASSUME TypeOK, PlaceInv, DataInv, NEW s \in Sessions, NEW e \in MergeEdits, CommitMerged(s, e)
    PROVE  DataInv'
  <1> DEFINE start == [t \in Sessions |-> NewWorker(t, "merge", doc[t] \cup {e}, doc[t], TRUE)]
  <1>1. /\ savesInFlight \in [Paths -> Slot] /\ unpersisted \in SUBSET Sessions
        /\ fate[s] = "open" /\ path[s] \in Paths /\ Held' = Held /\ s \in Held
        /\ Live \in SUBSET Sessions
        /\ UNCHANGED <<path, doc, storage, disk, platter, made, fate>>
        /\ issued' = issued \cup {e} /\ savesInFlight[path[s]] = FreeSlot
    BY DEF CommitMerged, TypeOK, CoordinatorType, PlaceInv, FateInv, Retained, Held, Live
  <1>2. SavesRequested({s}, savesInFlight, unpersisted, saveStatus, worker, start)
    BY <1>1, RequestSavesFacts DEF CommitMerged
  <1>3. start[s] = NewWorker(s, "merge", doc[s] \cup {e}, doc[s], TRUE)
    OBVIOUS
  <1> HIDE DEF start
  <1>4. EditsInv'
    BY <1>1, EditsKept DEF DataInv
  <1>5. /\ (TaskOK(s, worker[s]) /\ Covered(s, worker[s], savesInFlight))'
        /\ worker'[s].phase = "queued" /\ start[s].phase # "idle"
    <2>1. worker'[s] = start[s]
      BY <1>1, <1>2 DEF SavesRequested
    <2>2. /\ worker'[s].phase = "queued" /\ worker'[s].abort = "Writing"
          /\ worker'[s].expected = storage'[s] /\ worker'[s].outcome = "none"
          /\ worker'[s].payload = doc'[s] \cup {e} /\ worker'[s].kind = "merge"
          /\ worker'[s].base = doc'[s]
      BY <1>1, <1>3, <2>1 DEF NewWorker
    <2>3. /\ storage'[s] \ MergeEdits \subseteq doc'[s]
          /\ doc'[s] \ (made'[s] \cup MergeEdits) \subseteq storage'[s]
      BY <1>4 DEF EditsInv
    <2>4. TaskOK(s, worker[s])'
      BY <2>2, <2>3 DEF TaskOK
    <2>5. Covered(s, worker[s], savesInFlight)'
      BY <2>2 DEF Covered
    <2> QED
      BY <2>1, <2>2, <2>4, <2>5
  <1>6. SavedInv'
    <2>1. unpersisted' = unpersisted \cup {s}
      BY <1>2 DEF SavesRequested
    <2> QED
      BY <1>1, <2>1, SavedKept DEF DataInv
  <1>7. SlotsOK(savesInFlight, unpersisted, worker, Held')
    BY <1>1 DEF DataInv, SlotInv
  <1> QED
    BY <1>1, <1>2, <1>4, <1>5, <1>6, <1>7, RequestedData, SMTT(60)

\* A session that ended never becomes unopened again.
LEMMA WipedFates ==
    ASSUME NEW end \in Fates \ {"open", "unopened"}, WipeSessions(end)
    PROVE  \A s \in Sessions : fate'[s] = "unopened" => fate[s] = "unopened"
  BY DEF WipeSessions

\* Every session ends at once: no slot is taken, and only aborted tasks run on.
LEMMA DataWiped ==
    ASSUME TypeOK, PlaceInv, DataInv, NEW end \in Fates \ {"open", "unopened"},
           WipeSessions(end), unpersisted' = {}, \A p \in Paths : savesInFlight'[p] = FreeSlot,
           \A s \in Sessions : worker'[s].phase # "idle" =>
               /\ worker'[s].abort = "Aborted"
               /\ worker[s].phase # "idle"
               /\ worker'[s].phase = "writing" => worker[s].phase = "writing"
               /\ TaskOK(s, worker[s])',
           UNCHANGED path, EditsInv', FileInv', SavedInv'
    PROVE  DataInv'
  <1>1. \A s \in Sessions : fate'[s] = IF Retained(s) THEN end ELSE fate[s]
    BY DEF WipeSessions
  <1>2. \A s \in Sessions : fate'[s] # "open" /\ (fate'[s] = "unopened" => fate[s] = "unopened")
    BY <1>1 DEF PlaceInv, FateInv
  <1>3. SlotInv'
    <2>1. Held' = {}
      BY <1>2 DEF Held
    <2>2. SlotsOK(savesInFlight, unpersisted, worker, Held)'
      <3>1. FreeSlot.owner = NoSession /\ Held' \subseteq Held' /\ unpersisted' \subseteq Held'
        BY DEF FreeSlot
      <3>2. \A p \in Paths : savesInFlight'[p].owner = NoSession /\ savesInFlight'[p] = FreeSlot
        BY <3>1
      <3>3. \A s \in Sessions : worker'[s].phase # "idle" => worker'[s].abort = "Aborted" /\ s \notin Held'
        BY <2>1
      <3> QED
        BY <3>1, <3>2, <3>3 DEF SlotsOK
    <2>3. \A s \in Sessions : worker'[s].phase # "idle" => fate'[s] # "unopened"
      BY <1>2 DEF DataInv, SlotInv
    <2> QED
      BY <2>2, <2>3 DEF SlotInv
  <1>4. TaskInv'
    <2>1. ASSUME NEW s \in Sessions PROVE TaskOK(s, worker[s])'
      <3>1. CASE worker'[s].phase = "idle"
        BY <3>1, IdleTask
      <3>2. CASE worker'[s].phase # "idle"
        BY <3>2
      <3> QED
        BY <3>1, <3>2
    <2>2. ASSUME NEW s \in Sessions PROVE Covered(s, worker[s], savesInFlight)'
      <3>1. CASE worker'[s].phase # "idle"
        <4>1. path'[s] \in Paths /\ FreeSlot.owner # s
          BY <3>1, ConstantsAssumption DEF PlaceInv, FateInv, DataInv, SlotInv, FreeSlot
        <4> QED
          BY <4>1 DEF Covered
      <3> QED
        BY <3>1 DEF Covered
    <2>3. \A s \in Sessions : worker'[s].phase = "writing" => worker[s].phase = "writing"
      OBVIOUS
    <2>4. (\A s, t \in Sessions : HoldsFileLock(s) /\ HoldsFileLock(t) /\ path[s] = path[t] => s = t)'
      BY <2>3 DEF HoldsFileLock, DataInv, TaskInv
    <2> QED
      BY <2>1, <2>2, <2>4 DEF TaskInv
  <1> QED
    BY <1>3, <1>4 DEF DataInv

\* With every slot free, whoever still runs was aborted.
LEMMA FreeMeansAborted ==
    ASSUME TypeOK, PlaceInv, DataInv, \A p \in Paths : savesInFlight[p] = FreeSlot
    PROVE  \A s \in Sessions : worker[s].phase # "idle" => worker[s].abort = "Aborted"
  <1>1. ASSUME NEW s \in Sessions, worker[s].phase # "idle" PROVE worker[s].abort = "Aborted"
    <2>1. path[s] \in Paths
      BY <1>1 DEF PlaceInv, FateInv, DataInv, SlotInv
    <2>2. savesInFlight[path[s]].owner # s
      BY <2>1, ConstantsAssumption DEF FreeSlot
    <2> QED
      BY <1>1, <2>2 DEF DataInv, SlotInv, SlotsOK
  <1> QED
    BY <1>1

\* lock_vault: what it drops was saved, what it keeps is retried.
LEMMA DataLocked ==
    ASSUME TypeOK, PlaceInv, DataInv, LockVault,
           UNCHANGED <<path, doc, storage, disk, platter, made, issued>>
    PROVE  DataInv'
  <1> DEFINE R == {s \in unpersisted : ~InQueue(s, savesInFlight)}
  <1>0. FateInv /\ SlotInv /\ OneSessionPerFile /\ WindowInv
    BY DEF PlaceInv, DataInv
  <1>1. CASE HasUnpersistedWork
    <2>1. /\ Quarantine
          /\ SavesRequested(R, savesInFlight, unpersisted, saveStatus, worker, SaveTasks(doc, FALSE))
      BY <1>0, <1>1, LockVaultFacts
    <2>2. /\ unpersisted \subseteq Held' /\ Held' \subseteq Held
          /\ \A s \in Held : s \notin Held' => s \notin unpersisted /\ ~InQueue(s, savesInFlight)
          /\ \A s \in Sessions : fate'[s] \in {"locked", "quit"} =>
                 fate[s] = fate'[s] \/ (fate[s] = "open" /\ s \notin unpersisted)
          /\ \A s \in Sessions : fate'[s] = "unopened" => fate[s] = "unopened"
      <3>1. CASE vault.status = "LockedPendingSave"
        BY <1>0, <2>1, <3>1 DEF Quarantine, Held, SlotInv, SlotsOK
      <3>2. CASE vault.status # "LockedPendingSave"
        <4>1. \A s \in Sessions : fate'[s] =
                  IF Current(s) /\ ~(s \in unpersisted \/ InQueue(s, savesInFlight))
                    THEN "locked" ELSE fate[s]
          BY <2>1, <3>2 DEF Quarantine
        <4>2. \A s \in Sessions : fate[s] = "open" <=> Current(s)
          BY <1>0, <3>2 DEF WindowInv, FateInv, Retained
        <4>3. \A s \in Sessions : fate'[s] = "open" <=>
                  fate[s] = "open" /\ (s \in unpersisted \/ InQueue(s, savesInFlight))
          BY <4>1, <4>2
        <4>4. unpersisted \subseteq Held
          BY <1>0 DEF SlotInv, SlotsOK
        <4> HIDE DEF R
        <4> QED
          BY <4>1, <4>2, <4>3, <4>4 DEF Held
      <3> QED
        BY <3>1, <3>2
    <2>3. savesInFlight \in [Paths -> Slot] /\ R \in SUBSET Held'
      BY <2>2 DEF TypeOK, CoordinatorType
    <2>4. SlotsOK(savesInFlight, unpersisted, worker, Held')
      <3>1. SlotsOK(savesInFlight, unpersisted, worker, Held)
        BY <1>0 DEF SlotInv
      <3>2. ASSUME NEW s \in Sessions, worker[s].phase # "idle", s \in Held, s \notin Held' PROVE FALSE
        <4>1. savesInFlight[path[s]].owner = s /\ path[s] \in Paths
          BY <1>0, <3>1, <3>2 DEF SlotsOK, FateInv, Held
        <4> QED
          BY <2>2, <3>2, <4>1 DEF InQueue
      <3> QED
        BY <2>2, <3>1, <3>2 DEF SlotsOK
    <2>5. \A s \in R : SaveTasks(doc, FALSE)[s] = NewWorker(s, "save", doc'[s], doc'[s], FALSE)
      BY <2>3 DEF SaveTasks, Held
    <2>6. EditsInv'
      BY <2>2, EditsKept DEF DataInv
    <2>7. SavedInv'
      <3>1. unpersisted \subseteq unpersisted'
        BY <2>1 DEF SavesRequested
      <3>2. \A s \in Sessions : fate'[s] = "open" => fate[s] = "open"
        BY <2>2 DEF Held
      <3> QED
        BY <2>2, <3>1, <3>2, SavedKept DEF DataInv
    <2>8. ASSUME NEW s \in R, savesInFlight[path[s]] = FreeSlot
          PROVE  /\ (TaskOK(s, worker[s]) /\ Covered(s, worker[s], savesInFlight))'
                 /\ worker'[s].phase = "queued"
      <3>1. worker'[s] = NewWorker(s, "save", doc'[s], doc'[s], FALSE) /\ s \in Sessions
        BY <2>1, <2>3, <2>5, <2>8 DEF SavesRequested, Held
      <3> QED
        BY <2>6, <3>1, FreshTask
    <2> HIDE DEF R
    <2>9. ASSUME NEW s \in R PROVE SaveTasks(doc, FALSE)[s].phase # "idle"
      <3>1. NewWorker(s, "save", doc'[s], doc'[s], FALSE).phase = "queued"
        BY DEF NewWorker
      <3> QED
        BY <2>5, <3>1
    <2> DEFINE start == SaveTasks(doc, FALSE)
    <2>10. /\ SavesRequested(R, savesInFlight, unpersisted, saveStatus, worker, start)
           /\ \A s \in R : start[s].phase # "idle"
      BY <2>1, <2>9
    <2> HIDE DEF start
    <2>11. /\ Held' \subseteq Held
           /\ \A s \in Sessions : fate'[s] = "unopened" => fate[s] = "unopened"
      BY <2>2
    <2>12. /\ UNCHANGED <<path, storage, disk, platter>>
           /\ \A s \in Sessions : doc[s] \subseteq doc'[s] /\ made[s] \subseteq made'[s]
           /\ \A s \in Sessions \ R : made'[s] = made[s]
      OBVIOUS
    <2>13. /\ \A p \in Paths : savesInFlight[p] \in {savesInFlight[p], FreeSlot}
           /\ \A s \in Sessions : worker[s] = worker[s] \/ worker[s].phase = "idle"
      OBVIOUS
    <2>14. \A s \in R : savesInFlight[path[s]] = FreeSlot =>
             /\ (TaskOK(s, worker[s]) /\ Covered(s, worker[s], savesInFlight))'
             /\ worker'[s].phase = "queued"
      BY <2>8
    <2> QED
      BY <2>3, <2>4, <2>6, <2>7, <2>10, <2>11, <2>12, <2>13, <2>14, RequestedData, SMTT(60)
  <1>2. CASE ~HasUnpersistedWork
    <2>1. /\ WipeSessions("locked") /\ unpersisted = {}
          /\ UNCHANGED <<unpersisted, savesInFlight, worker>>
          /\ \A p \in Paths : savesInFlight[p] = FreeSlot
      BY <1>2 DEF LockVault, HasUnpersistedWork, AllFree, coordinator
    <2>2. \A s \in Sessions : worker[s].phase # "idle" => worker[s].abort = "Aborted"
      BY <2>1, FreeMeansAborted
    <2>3. ASSUME NEW s \in Sessions PROVE TaskOK(s, worker[s])'
      BY <2>1, KeptTask DEF DataInv, TaskInv
    <2>4. FileInv'
      BY DEF DataInv, FileInv
    <2>5. SavedInv'
      <3>1. \A s \in Sessions : fate'[s] = IF Retained(s) THEN "locked" ELSE fate[s]
        BY <2>1 DEF WipeSessions
      <3>2. \A s \in Sessions : Retained(s) <=> fate[s] = "open"
        BY <1>0 DEF FateInv
      <3> QED
        BY <2>1, <3>1, <3>2, SavedKept DEF DataInv
    <2>6. EditsInv'
      BY <2>1, WipedFates, EditsKept DEF DataInv, Fates
    <2> QED
      BY <2>1, <2>2, <2>3, <2>4, <2>5, <2>6, DataWiped DEF Fates
  <1> QED
    BY <1>1, <1>2

\* try_abort changes the abort handle of a task only.
LEMMA AbortFacts ==
    ASSUME NEW w \in Worker
    PROVE  /\ TryAbort(w).phase = w.phase /\ TryAbort(w).kind = w.kind
           /\ TryAbort(w).payload = w.payload /\ TryAbort(w).base = w.base
           /\ TryAbort(w).expected = w.expected /\ TryAbort(w).outcome = w.outcome
           /\ TryAbort(w).abort = IF w.abort = "Writing" THEN "Aborted" ELSE w.abort
  BY DEF TryAbort, Worker

\* An aborted task is as much in order as it was.
LEMMA AbortedTask ==
    ASSUME TypeOK, NEW s \in Sessions, TaskOK(s, worker[s]),
           worker'[s] \in {worker[s], TryAbort(worker[s])},
           UNCHANGED <<path, doc, storage, disk, platter, made>>
    PROVE  /\ TaskOK(s, worker[s])'
           /\ worker'[s].phase = worker[s].phase /\ worker'[s].kind = worker[s].kind
           /\ worker'[s].payload = worker[s].payload
  <1>1. worker[s] \in Worker
    BY DEF TypeOK, CoordinatorType
  <1>2. CASE worker'[s] = worker[s]
    BY <1>2, KeptTask
  <1>3. CASE worker'[s] = TryAbort(worker[s])
    <2>1. /\ worker'[s].phase = worker[s].phase /\ worker'[s].kind = worker[s].kind
          /\ worker'[s].payload = worker[s].payload /\ worker'[s].base = worker[s].base
          /\ worker'[s].expected = worker[s].expected /\ worker'[s].outcome = worker[s].outcome
          /\ worker'[s].abort = IF worker[s].abort = "Writing" THEN "Aborted" ELSE worker[s].abort
      BY <1>1, <1>3, AbortFacts
    <2> QED
      BY <2>1 DEF TaskOK
  <1> QED
    BY <1>2, <1>3

\* The discard aborts every writer it leaves behind.
LEMMA DataDiscarded ==
    ASSUME TypeOK, PlaceInv, DataInv, DiscardAndLock \/ DiscardRaced
    PROVE  DataInv'
  <1>1. /\ \A s \in Sessions : worker'[s] = IF s \in Writers THEN TryAbort(worker[s]) ELSE worker[s]
        /\ UNCHANGED <<path, doc, storage, disk, platter, issued, made>>
        /\ worker \in [Sessions -> Worker] /\ worker' \in [Sessions -> Worker]
    <2>1. /\ worker' = [s \in Sessions |-> IF s \in Writers THEN TryAbort(worker[s]) ELSE worker[s]]
          /\ worker \in [Sessions -> Worker]
          /\ UNCHANGED <<path, doc, storage, disk, platter, issued, made>>
      BY DEF DiscardAndLock, DiscardRaced, TypeOK, CoordinatorType, history
    <2>2. \A w \in Worker : TryAbort(w) \in Worker
      BY DEF TryAbort, Worker
    <2> QED
      BY <2>1, <2>2
  <1>2. ASSUME NEW s \in Sessions
        PROVE  /\ TaskOK(s, worker[s])'
               /\ worker'[s].phase = worker[s].phase /\ worker'[s].kind = worker[s].kind
               /\ worker'[s].payload = worker[s].payload
    BY <1>1, AbortedTask DEF DataInv, TaskInv
  <1>3. \A s \in Sessions : worker[s].abort = "Aborted" => worker'[s].abort = "Aborted"
    <2>1. ASSUME NEW s \in Sessions, worker[s].abort = "Aborted" PROVE worker'[s].abort = "Aborted"
      <3>1. worker[s] \in Worker
        BY <1>1
      <3>2. TryAbort(worker[s]).abort = "Aborted"
        BY <2>1, <3>1, AbortFacts
      <3> QED
        BY <1>1, <2>1, <3>2
    <2> QED
      BY <2>1
  <1>4. FileInv'
    BY <1>1 DEF DataInv, FileInv
  <1>5. CASE DiscardAndLock
    <2>1. /\ WipeSessions("discarded") /\ unpersisted' = {}
          /\ savesInFlight' = [p \in Paths |-> FreeSlot]
          /\ \A s \in Writers : ~PublicationStarted(worker[s])
      BY <1>5 DEF DiscardAndLock
    <2>2. ASSUME NEW s \in Sessions, worker'[s].phase # "idle" PROVE worker'[s].abort = "Aborted"
      <3>1. worker[s].phase # "idle" /\ worker[s] \in Worker
        BY <1>1, <1>2, <2>2
      <3>2. CASE s \in Held
        <4>1. s \in Writers
          BY <3>1, <3>2 DEF DataInv, SlotInv, SlotsOK, PlaceInv, FateInv, Held, Writers
        <4>2. worker[s].abort \in {"Writing", "Aborted"}
          BY <2>1, <3>1, <4>1 DEF PublicationStarted, Worker
        <4>3. TryAbort(worker[s]).abort = "Aborted"
          BY <3>1, <4>2, AbortFacts
        <4> QED
          BY <1>1, <4>1, <4>3
      <3>3. CASE s \notin Held
        BY <1>3, <3>1, <3>3 DEF DataInv, SlotInv, SlotsOK
      <3> QED
        BY <3>2, <3>3
    <2>3. SavedInv'
      <3>1. \A s \in Sessions : fate'[s] = IF Retained(s) THEN "discarded" ELSE fate[s]
        BY <2>1 DEF WipeSessions
      <3>2. \A s \in Sessions : Retained(s) <=> fate[s] = "open"
        BY DEF PlaceInv, FateInv
      <3> QED
        BY <1>1, <3>1, <3>2, SavedKept DEF DataInv
    <2>4. EditsInv'
      BY <1>1, <2>1, WipedFates, EditsKept DEF DataInv, Fates
    <2> QED
      BY <1>1, <1>2, <1>4, <2>1, <2>2, <2>3, <2>4, DataWiped DEF Fates
  <1>6. CASE DiscardRaced
    <2>1. UNCHANGED <<unpersisted, savesInFlight, fate>>
      BY <1>6 DEF DiscardRaced, coordinator
    <2>2. SlotInv'
      BY <1>1, <1>2, <1>3, <2>1 DEF DataInv, SlotInv, SlotsOK, Held, TypeOK, CoordinatorType, Slot
    <2>3. TaskInv'
      <3>1. ASSUME NEW s \in Sessions PROVE Covered(s, worker[s], savesInFlight)'
        BY <1>1, <1>2, <2>1 DEF DataInv, TaskInv, Covered
      <3> QED
        BY <1>1, <1>2, <3>1 DEF DataInv, TaskInv, HoldsFileLock
    <2>4. EditsInv' /\ SavedInv'
      BY <1>1, <2>1, EditsKept, SavedKept DEF DataInv
    <2> QED
      BY <1>4, <2>2, <2>3, <2>4 DEF DataInv
  <1> QED
    BY <1>5, <1>6

-----------------------------------------------------------------------------
(* The background writer. *)

\* A task moves on without touching the files.
LEMMA DataTaskMoved ==
    ASSUME TypeOK, PlaceInv, DataInv, NEW s \in Sessions, worker[s].phase # "idle",
           NEW w, worker' = [worker EXCEPT ![s] = w],
           w.phase # "idle", w.kind = worker[s].kind, w.payload = worker[s].payload,
           worker[s].abort = "Aborted" => w.abort = "Aborted",
           w.phase = "writing" => \/ worker[s].phase = "writing"
                                  \/ ~\E t \in Sessions : path[t] = path[s] /\ HoldsFileLock(t),
           TaskOK(s, worker[s])',
           UNCHANGED <<path, doc, storage, coordinator, disk, platter, issued, made, fate>>
    PROVE  DataInv'
  <1>1. /\ worker'[s] = w /\ \A t \in Sessions \ {s} : worker'[t] = worker[t]
        /\ savesInFlight \in [Paths -> Slot]
    BY DEF TypeOK, CoordinatorType
  <1>2. UNCHANGED <<unpersisted, savesInFlight>> /\ Held' = Held
    BY DEF coordinator, Held
  <1>3. SlotInv'
    BY <1>1, <1>2 DEF DataInv, SlotInv, SlotsOK, Slot
  <1>4. TaskInv'
    <2>1. ASSUME NEW t \in Sessions PROVE TaskOK(t, worker[t])'
      BY <1>1, KeptTask DEF DataInv, TaskInv
    <2>2. ASSUME NEW t \in Sessions PROVE Covered(t, worker[t], savesInFlight)'
      BY <1>1, <1>2 DEF DataInv, TaskInv, Covered
    <2>3. (\A t, u \in Sessions : HoldsFileLock(t) /\ HoldsFileLock(u) /\ path[t] = path[u] => t = u)'
      BY <1>1 DEF DataInv, TaskInv, HoldsFileLock
    <2> QED
      BY <2>1, <2>2, <2>3 DEF TaskInv
  <1>5. EditsInv' /\ FileInv' /\ SavedInv'
    BY <1>2, EditsKept, SavedKept DEF DataInv, FileInv
  <1> QED
    BY <1>3, <1>4, <1>5 DEF DataInv

\* What the steps of a task before its rename leave in its record.
LEMMA MovedFacts ==
    ASSUME NEW w \in Worker, NEW v,
           v \in {[w EXCEPT !.phase = "writing"], [w EXCEPT !.abort = "Publishing"],
                  [w EXCEPT !.phase = "done", !.outcome = "failed"]}
    PROVE  /\ v.kind = w.kind /\ v.payload = w.payload /\ v.base = w.base /\ v.expected = w.expected
           /\ v = [w EXCEPT !.phase = "writing"] =>
                  v.phase = "writing" /\ v.abort = w.abort /\ v.outcome = w.outcome
           /\ v = [w EXCEPT !.abort = "Publishing"] =>
                  v.phase = w.phase /\ v.abort = "Publishing" /\ v.outcome = w.outcome
           /\ v = [w EXCEPT !.phase = "done", !.outcome = "failed"] =>
                  v.phase = "done" /\ v.abort = w.abort /\ v.outcome = "failed"
  BY DEF Worker

\* The steps of a task before its rename.
LEMMA DataWriting ==
    ASSUME TypeOK, PlaceInv, DataInv, NEW s \in Sessions,
           WorkerBegin(s) \/ WorkerClaim(s) \/ WorkerFails(s)
    PROVE  DataInv'
  <1> DEFINE w == worker[s]
  <1>1. /\ w.phase \in {"queued", "writing"} /\ w \in Worker
        /\ UNCHANGED <<path, doc, storage, coordinator, disk, platter, issued, made, fate>>
        /\ TaskOK(s, w) /\ worker \in [Sessions -> Worker]
    BY DEF WorkerBegin, WorkerClaim, WorkerFails, WorkerOnly, HoldsFileLock, history, TypeOK,
           CoordinatorType, DataInv, TaskInv
  <1>2. ASSUME Settle(s, "failed") PROVE DataInv'
    <2> DEFINE v == [w EXCEPT !.phase = "done", !.outcome = "failed"]
    <2>1. worker' = [worker EXCEPT ![s] = v]
      BY <1>2 DEF Settle
    <2>2. /\ v.kind = w.kind /\ v.payload = w.payload /\ v.base = w.base
          /\ v.phase = "done" /\ v.abort = w.abort /\ v.outcome = "failed"
      BY <1>1, MovedFacts
    <2> HIDE DEF v
    <2>3. worker'[s] = v
      BY <1>1, <2>1
    <2>4. TaskOK(s, worker[s])'
      BY <1>1, <2>2, <2>3 DEF TaskOK
    <2> QED
      BY <1>1, <2>1, <2>2, <2>4, DataTaskMoved
  <1>3. ASSUME WorkerBegin(s), worker' = [worker EXCEPT ![s] = [w EXCEPT !.phase = "writing"]],
               storage[s] = w.expected, w.phase = "queued"
        PROVE  DataInv'
    <2> DEFINE v == [w EXCEPT !.phase = "writing"]
    <2>2. /\ v.kind = w.kind /\ v.payload = w.payload /\ v.base = w.base /\ v.expected = w.expected
          /\ v.phase = "writing" /\ v.abort = w.abort /\ v.outcome = w.outcome
      BY <1>1, MovedFacts
    <2>1. worker' = [worker EXCEPT ![s] = v]
      BY <1>3
    <2> HIDE DEF v
    <2>3. worker'[s] = v
      BY <1>1, <2>1
    <2>4. TaskOK(s, worker[s])'
      BY <1>1, <1>3, <2>2, <2>3 DEF TaskOK
    <2>5. ~\E t \in Sessions : path[t] = path[s] /\ HoldsFileLock(t)
      BY <1>3 DEF WorkerBegin
    <2> QED
      BY <1>1, <2>1, <2>2, <2>4, <2>5, DataTaskMoved
  <1>4. ASSUME worker' = [worker EXCEPT ![s] = [w EXCEPT !.abort = "Publishing"]],
               disk[path[s]] = w.expected, w.abort = "Writing", w.phase = "writing"
        PROVE  DataInv'
    <2> DEFINE v == [w EXCEPT !.abort = "Publishing"]
    <2>2. /\ v.kind = w.kind /\ v.payload = w.payload /\ v.base = w.base /\ v.expected = w.expected
          /\ v.phase = w.phase /\ v.abort = "Publishing" /\ v.outcome = w.outcome
      BY <1>1, MovedFacts
    <2>1. worker' = [worker EXCEPT ![s] = v]
      BY <1>4
    <2> HIDE DEF v
    <2>3. worker'[s] = v
      BY <1>1, <2>1
    <2>4. TaskOK(s, worker[s])'
      BY <1>1, <1>4, <2>2, <2>3 DEF TaskOK
    <2> QED
      BY <1>1, <1>4, <2>1, <2>2, <2>4, DataTaskMoved
  <1>5. CASE WorkerBegin(s)
    BY <1>2, <1>3, <1>5 DEF WorkerBegin
  <1>6. CASE WorkerClaim(s)
    BY <1>2, <1>4, <1>6 DEF WorkerClaim, HoldsFileLock
  <1>7. CASE WorkerFails(s)
    BY <1>2, <1>7 DEF WorkerFails
  <1> QED
    BY <1>5, <1>6, <1>7

\* The rename: the bytes it replaces are the revision its document is bound
\* to, and the new bytes hold all of it.
LEMMA DataPublished ==
    ASSUME TypeOK, PlaceInv, DataInv, NEW s \in Sessions, WorkerPublish(s)
    PROVE  DataInv'
  <1> DEFINE w == worker[s]
             p == path[s]
  <1>1. /\ w.phase = "writing" /\ w.abort = "Publishing" /\ w \in Worker
        /\ disk' = [disk EXCEPT ![p] = w.payload] /\ storage' = [storage EXCEPT ![s] = w.payload]
        /\ UNCHANGED <<path, doc, coordinator, issued, made, fate>>
        /\ worker \in [Sessions -> Worker] /\ disk \in [Paths -> Contents]
        /\ platter \in [Paths -> Contents] /\ storage \in [Sessions -> Contents]
        /\ savesInFlight \in [Paths -> Slot]
    BY DEF WorkerPublish, WorkerOnly, HoldsFileLock, history, TypeOK, CoordinatorType, FileType,
           SessionType
  <1>2. PICK outcome \in {"durable", "unsynced"} :
            /\ worker' = [worker EXCEPT ![s] = [w EXCEPT !.phase = "done", !.abort = "Published",
                                                         !.outcome = outcome]]
            /\ outcome = "durable" => platter' = [platter EXCEPT ![p] = w.payload]
            /\ outcome = "unsynced" => platter' = platter
    BY DEF WorkerPublish
  <1>3. /\ worker'[s].kind = w.kind /\ worker'[s].payload = w.payload /\ worker'[s].base = w.base
        /\ worker'[s].phase = "done" /\ worker'[s].abort = "Published"
        /\ worker'[s].outcome = outcome
        /\ \A t \in Sessions \ {s} : worker'[t] = worker[t]
    <2> DEFINE v == [w EXCEPT !.phase = "done", !.abort = "Published", !.outcome = outcome]
    <2>1. /\ v.kind = w.kind /\ v.payload = w.payload /\ v.base = w.base
          /\ v.phase = "done" /\ v.abort = "Published" /\ v.outcome = outcome
      <3>1. w \in Worker
        BY <1>1
      <3> HIDE DEF w
      <3> QED
        BY <3>1 DEF Worker
    <2>2. worker' = [worker EXCEPT ![s] = v]
      BY <1>2
    <2> HIDE DEF v
    <2>3. worker'[s] = v /\ \A t \in Sessions \ {s} : worker'[t] = worker[t]
      BY <1>1, <2>2
    <2> QED
      BY <2>1, <2>3
  <1>4. /\ w.expected = storage[s] /\ disk[p] = storage[s] /\ TaskOK(s, w)
        /\ storage[s] \ MergeEdits \subseteq w.payload
        /\ w.payload \ MergeEdits \subseteq doc[s]
        /\ w.payload \ (made[s] \cup MergeEdits) \subseteq storage[s]
        /\ w.kind = "merge" => w.base \subseteq w.payload
    BY <1>1 DEF DataInv, TaskInv, TaskOK
  <1>5. s \in Held /\ p \in Paths /\ savesInFlight[p].owner = s
    BY <1>1 DEF DataInv, SlotInv, SlotsOK, PlaceInv, FateInv, Held
  <1>6. /\ disk'[p] = w.payload /\ storage'[s] = w.payload
        /\ \A q \in Paths \ {p} : disk'[q] = disk[q] /\ platter'[q] = platter[q]
        /\ \A t \in Sessions \ {s} : storage'[t] = storage[t]
        /\ platter'[p] \in {platter[p], w.payload}
        /\ outcome = "durable" => platter'[p] = w.payload
    BY <1>1, <1>2, <1>5
  <1> HIDE DEF w, p
  <1>7. /\ platter[p] \ MergeEdits \subseteq w.payload
        /\ w.payload \cap ForeignEdits \subseteq platter[p]
    <2>1. platter[p] \ MergeEdits \subseteq storage[s] /\ disk[p] \cap ForeignEdits \subseteq platter[p]
      BY <1>4, <1>5 DEF DataInv, FileInv
    <2>2. w.payload \cap ForeignEdits \subseteq storage[s]
      BY <1>4, ConstantsAssumption DEF DataInv, EditsInv
    <2> QED
      BY <1>4, <2>1, <2>2
  <1>8. \A q \in Paths : platter[q] \ MergeEdits \subseteq platter'[q]
    BY <1>6, <1>7
  <1>9. UNCHANGED <<unpersisted, savesInFlight>> /\ Held' = Held
    BY <1>1 DEF coordinator, Held
  <1>10. SlotInv'
    BY <1>1, <1>3, <1>5, <1>9 DEF DataInv, SlotInv, SlotsOK, Slot, w
  <1>11. TaskInv'
    <2>1. TaskOK(s, worker[s])'
      BY <1>1, <1>3, <1>4, <1>6 DEF TaskOK, p
    <2>2. ASSUME NEW t \in Sessions, t # s PROVE TaskOK(t, worker[t])'
      <3>1. /\ TaskOK(t, worker[t]) /\ worker'[t] = worker[t] /\ storage'[t] = storage[t]
            /\ path' = path /\ doc' = doc /\ made' = made
        BY <1>1, <1>3, <1>6, <2>2 DEF DataInv, TaskInv
      <3>2. worker[t].phase = "writing" => path[t] # p
        BY <1>1, <2>2 DEF DataInv, TaskInv, HoldsFileLock, w, p
      <3>3. worker[t].phase # "idle" => path[t] \in Paths
        BY DEF PlaceInv, FateInv, DataInv, SlotInv
      <3>4. worker[t].phase = "writing" => disk'[path[t]] = disk[path[t]]
        BY <1>6, <3>2, <3>3
      <3>5. worker[t].phase = "done" => platter[path[t]] \ MergeEdits \subseteq platter'[path[t]]
        BY <1>8, <3>3
      <3> QED
        BY <3>1, <3>4, <3>5 DEF TaskOK
    <2>3. ASSUME NEW t \in Sessions PROVE Covered(t, worker[t], savesInFlight)'
      BY <1>1, <1>3, <1>9 DEF DataInv, TaskInv, Covered, w
    <2>4. (\A t, u \in Sessions : HoldsFileLock(t) /\ HoldsFileLock(u) /\ path[t] = path[u] => t = u)'
      BY <1>1, <1>3 DEF DataInv, TaskInv, HoldsFileLock
    <2> QED
      BY <2>1, <2>2, <2>3, <2>4 DEF TaskInv
  <1>12. EditsInv'
    BY <1>1, <1>4, <1>6 DEF DataInv, EditsInv
  <1>13. FileInv'
    BY <1>4, <1>6, <1>7 DEF DataInv, FileInv
  <1>14. SavedInv'
    <2>1. ASSUME NEW t \in Sessions, fate[t] \in {"locked", "quit"} \/ (fate[t] = "open" /\ t \notin unpersisted)
          PROVE  made[t] \ IconEdits \subseteq platter'[path[t]]
      <3>1. /\ made[t] \ IconEdits \subseteq platter[path[t]] /\ path[t] \in Paths
            /\ made[t] \cap MergeEdits = {}
        BY <2>1, ConstantsAssumption DEF DataInv, SavedInv, EditsInv, PlaceInv, FateInv
      <3> QED
        BY <1>8, <3>1
    <2> QED
      BY <1>1, <1>9, <2>1 DEF SavedInv
  <1> QED
    BY <1>10, <1>11, <1>12, <1>13, <1>14 DEF DataInv

-----------------------------------------------------------------------------
(* The completion callbacks. *)

\* A task that ends and gives its slot back leaves the slots in order.
LEMMA ReleasedSlots ==
    ASSUME TypeOK, PlaceInv, SlotInv, NEW s \in Sessions, worker[s].phase # "idle", OwnsSlot(s),
           NEW dirty \in {unpersisted, unpersisted \ {s}},
           NEW held \in {Held, Held \ {s}}, dirty \subseteq held
    PROVE  SlotsOK(Released(s), dirty, EndOfTask(s), held)
  <1>1. /\ path[s] \in Paths /\ savesInFlight[path[s]].owner = s
        /\ savesInFlight \in [Paths -> Slot] /\ worker \in [Sessions -> Worker]
        /\ SlotsOK(savesInFlight, unpersisted, worker, Held)
    BY OwnerFacts DEF PlaceInv, OwnsSlot, TypeOK, CoordinatorType, SlotInv
  <1>2. /\ Released(s)[path[s]] = FreeSlot /\ FreeSlot.owner = NoSession
        /\ \A p \in Paths \ {path[s]} : Released(s)[p] = savesInFlight[p]
    BY <1>1 DEF Released, FreeSlot
  <1>3. /\ EndOfTask(s)[s].phase = "idle"
        /\ \A t \in Sessions \ {s} : EndOfTask(s)[t] = worker[t]
    BY <1>1 DEF EndOfTask, IdleWorker
  <1>4. ASSUME NEW p \in Paths
        PROVE  /\ Released(s)[p].owner = NoSession => Released(s)[p] = FreeSlot
               /\ Released(s)[p].owner # NoSession =>
                      /\ path[Released(s)[p].owner] = p
                      /\ Released(s)[p].owner \in dirty
                      /\ EndOfTask(s)[Released(s)[p].owner].phase # "idle"
                      /\ Released(s)[p].pending \in {NoSession, Released(s)[p].owner}
    <2>1. CASE p = path[s]
      BY <1>2, <2>1
    <2>2. CASE p # path[s]
      <3>1. Released(s)[p] = savesInFlight[p] /\ savesInFlight[p].owner \in Sessions \cup {NoSession}
        BY <1>1, <1>2, <2>2 DEF Slot
      <3>2. savesInFlight[p].owner # NoSession => savesInFlight[p].owner # s
        BY <1>1, <2>2 DEF SlotsOK
      <3> QED
        BY <1>1, <1>3, <3>1, <3>2 DEF SlotsOK
    <2> QED
      BY <2>1, <2>2
  <1>5. ASSUME NEW t \in Sessions, EndOfTask(s)[t].phase # "idle"
        PROVE  IF t \in held THEN Released(s)[path[t]].owner = t
               ELSE EndOfTask(s)[t].abort = "Aborted"
    <2>1. t # s /\ EndOfTask(s)[t] = worker[t]
      BY <1>3, <1>5
    <2>2. CASE t \in held
      <3>1. savesInFlight[path[t]].owner = t /\ path[t] \in Paths
        BY <1>1, <1>5, <2>1, <2>2 DEF SlotsOK, Held, PlaceInv, FateInv
      <3>2. path[t] # path[s]
        BY <1>1, <2>1, <3>1
      <3> QED
        BY <1>2, <2>2, <3>1, <3>2
    <2>3. CASE t \notin held
      BY <1>1, <1>5, <2>1, <2>3 DEF SlotsOK
    <2> QED
      BY <2>2, <2>3
  <1> HIDE DEF Held
  <1> QED
    BY <1>4, <1>5 DEF SlotsOK

\* What a task ends with, point by point.
LEMMA EndedFacts ==
    ASSUME TypeOK, PlaceInv, SlotInv, NEW s \in Sessions, worker[s].phase # "idle", OwnsSlot(s)
    PROVE  /\ Released(s) \in [Paths -> Slot]
           /\ \A p \in Paths : Released(s)[p] \in {savesInFlight[p], FreeSlot}
           /\ Released(s)[path[s]] = FreeSlot
           /\ EndOfTask(s)[s].phase = "idle"
           /\ \A t \in Sessions : EndOfTask(s)[t] = worker[t] \/ EndOfTask(s)[t].phase = "idle"
           /\ DirtyAfter(s) \in {unpersisted, unpersisted \ {s}}
           /\ s \in unpersisted /\ s \in Held /\ path[s] \in Paths
           /\ savesInFlight[path[s]].pending \in {NoSession, s}
  <1>1. /\ path[s] \in Paths /\ savesInFlight \in [Paths -> Slot]
        /\ worker \in [Sessions -> Worker] /\ s \in unpersisted /\ s \in Held
        /\ savesInFlight[path[s]].pending \in {NoSession, s}
    BY OwnerFacts DEF PlaceInv, FateInv, Held, TypeOK, CoordinatorType
  <1>2. Released(s) \in [Paths -> Slot]
    BY ReleasedType
  <1> QED
    BY <1>1, <1>2 DEF Released, EndOfTask, IdleWorker, DirtyAfter

\* A callback that finds its slot taken away only ends its task.
LEMMA DataStale ==
    ASSUME TypeOK, PlaceInv, DataInv, NEW s \in Sessions, StaleCallback(s)
    PROVE  DataInv'
  <1>1. /\ worker[s].phase # "idle" /\ savesInFlight[path[s]].owner # s
        /\ worker' = EndOfTask(s) /\ worker \in [Sessions -> Worker]
        /\ UNCHANGED <<path, doc, storage, unpersisted, savesInFlight, disk, platter, issued, made, fate>>
    BY DEF StaleCallback, OwnsSlot, coordinator, history, TypeOK, CoordinatorType
  <1>2. /\ worker'[s].phase = "idle" /\ \A t \in Sessions \ {s} : worker'[t] = worker[t]
        /\ Held' = Held
    BY <1>1 DEF EndOfTask, IdleWorker, Held
  <1>3. \A p \in Paths : savesInFlight[p].owner # s
    BY <1>1, ConstantsAssumption DEF DataInv, SlotInv, SlotsOK
  <1>4. SlotInv'
    BY <1>1, <1>2, <1>3 DEF DataInv, SlotInv, SlotsOK, TypeOK, CoordinatorType, Slot
  <1>5. TaskInv'
    <2>1. ASSUME NEW t \in Sessions PROVE TaskOK(t, worker[t])'
      BY <1>1, <1>2, KeptTask, IdleTask DEF DataInv, TaskInv
    <2>2. ASSUME NEW t \in Sessions PROVE Covered(t, worker[t], savesInFlight)'
      BY <1>1, <1>2 DEF DataInv, TaskInv, Covered
    <2>3. (\A t, u \in Sessions : HoldsFileLock(t) /\ HoldsFileLock(u) /\ path[t] = path[u] => t = u)'
      BY <1>1, <1>2 DEF DataInv, TaskInv, HoldsFileLock
    <2> QED
      BY <2>1, <2>2, <2>3 DEF TaskInv
  <1>6. EditsInv' /\ FileInv' /\ SavedInv'
    BY <1>1, EditsKept, SavedKept DEF DataInv, FileInv
  <1> QED
    BY <1>4, <1>5, <1>6 DEF DataInv

\* The trailing save of the session whose task ended.
LEMMA DataTrailing ==
    ASSUME TypeOK, PlaceInv, DataInv, EditsInv', NEW s \in Sessions,
           worker[s].phase # "idle", OwnsSlot(s),
           NEW sync \in BOOLEAN, NEW live \in SUBSET Sessions, NEW status,
           RequestSaves({s}, sync, live, Released(s), unpersisted, status, EndOfTask(s),
                        SaveTasks(doc', sync)),
           UNCHANGED <<path, storage, disk, platter, made, fate>>,
           \A t \in Sessions : doc[t] \subseteq doc'[t]
    PROVE  DataInv'
  <1>1. SlotInv
    BY DEF DataInv
  <1>2. /\ Released(s) \in [Paths -> Slot]
        /\ \A p \in Paths : Released(s)[p] \in {savesInFlight[p], FreeSlot}
        /\ Released(s)[path[s]] = FreeSlot
        /\ \A t \in Sessions : EndOfTask(s)[t] = worker[t] \/ EndOfTask(s)[t].phase = "idle"
        /\ s \in unpersisted /\ s \in Held /\ path[s] \in Paths /\ Held' = Held
    BY <1>1, EndedFacts DEF Held
  <1>3. SavesRequested({s}, Released(s), unpersisted, status, EndOfTask(s), SaveTasks(doc', sync))
    BY <1>2, RequestSavesFacts
  <1>4. /\ (TaskOK(s, worker[s]) /\ Covered(s, worker[s], savesInFlight))'
        /\ worker'[s].phase = "queued"
        /\ SaveTasks(doc', sync)[s].phase # "idle"
    <2>1. SaveTasks(doc', sync)[s] = NewWorker(s, "save", doc'[s], doc'[s], sync)
      BY DEF SaveTasks
    <2>2. worker'[s] = NewWorker(s, "save", doc'[s], doc'[s], sync)
      BY <1>2, <1>3, <2>1 DEF SavesRequested
    <2>3. NewWorker(s, "save", doc'[s], doc'[s], sync).phase = "queued"
      BY DEF NewWorker
    <2> QED
      BY <2>1, <2>2, <2>3, FreshTask
  <1>5. SlotsOK(Released(s), unpersisted, EndOfTask(s), Held')
    <2>1. unpersisted \subseteq Held
      BY <1>1 DEF SlotInv, SlotsOK
    <2> QED
      BY <1>1, <1>2, <2>1, ReleasedSlots
  <1>6. SavedInv'
    <2>1. unpersisted' = unpersisted \cup {s}
      BY <1>3 DEF SavesRequested
    <2> QED
      BY <2>1, SavedKept DEF DataInv
  <1> QED
    BY <1>2, <1>3, <1>4, <1>5, <1>6, RequestedData, SMTT(60)

\* A merged document that replaces the one it was computed from.
LEMMA MergedEdits ==
    ASSUME TypeOK, DataInv, NEW s \in Sessions, worker[s].phase # "idle",
           worker[s].kind = "merge", doc[s] = worker[s].base,
           doc' = [doc EXCEPT ![s] = worker[s].payload], UNCHANGED <<storage, made, issued>>,
           \A t \in Sessions : fate'[t] = "unopened" => fate[t] = "unopened"
    PROVE  EditsInv' /\ \A t \in Sessions : doc[t] \subseteq doc'[t]
  <1>1. /\ doc'[s] = worker[s].payload /\ \A t \in Sessions \ {s} : doc'[t] = doc[t]
    BY DEF TypeOK, SessionType
  <1>2. /\ storage[s] \ MergeEdits \subseteq worker[s].payload
        /\ worker[s].payload \ (made[s] \cup MergeEdits) \subseteq storage[s]
        /\ doc[s] \subseteq worker[s].payload
    BY DEF DataInv, TaskInv, TaskOK
  <1> QED
    BY <1>1, <1>2 DEF DataInv, EditsInv

\* A settled save whose durable bytes hold everything made in its session.
LEMMA DurableSaved ==
    ASSUME TypeOK, PlaceInv, DataInv, NEW s \in Sessions, worker[s].phase = "done", OwnsSlot(s),
           Durable(s), made[s] \ IconEdits \subseteq worker[s].payload
    PROVE  made[s] \ IconEdits \subseteq platter[path[s]]
  <1>1. worker[s].payload \ MergeEdits \subseteq platter[path[s]]
    BY DEF DataInv, TaskInv, TaskOK, Durable
  <1>2. made[s] \cap MergeEdits = {}
    BY ConstantsAssumption DEF DataInv, EditsInv
  <1> QED
    BY <1>1, <1>2

\* A save settles: the slot is free, a durable session is persisted.
LEMMA DataSettled ==
    ASSUME TypeOK, PlaceInv, DataInv, EditsInv', NEW s \in Sessions,
           worker[s].phase = "done", OwnsSlot(s), SettleSave(s),
           Durable(s) => made[s] \ IconEdits \subseteq worker[s].payload,
           UNCHANGED <<path, storage, disk, platter, made>>,
           \A t \in Sessions : doc[t] \subseteq doc'[t],
           \/ DoneLocks(s)
           \/ UNCHANGED fate
           \/ Durable(s) /\ fate' = [fate EXCEPT ![s] = "locked"]
    PROVE  DataInv'
  <1>0. SlotInv /\ worker[s].phase # "idle"
    BY DEF DataInv
  <1>1. /\ unpersisted' = DirtyAfter(s) /\ savesInFlight' = Released(s) /\ worker' = EndOfTask(s)
    BY DEF SettleSave
  <1>2. /\ Released(s) \in [Paths -> Slot]
        /\ \A p \in Paths : Released(s)[p] \in {savesInFlight[p], FreeSlot}
        /\ \A t \in Sessions : EndOfTask(s)[t] = worker[t] \/ EndOfTask(s)[t].phase = "idle"
        /\ DirtyAfter(s) \in {unpersisted, unpersisted \ {s}}
        /\ s \in unpersisted /\ s \in Held
        /\ Durable(s) => DirtyAfter(s) = unpersisted \ {s}
    BY <1>0, EndedFacts DEF DirtyAfter
  <1>3. Durable(s) => made[s] \ IconEdits \subseteq platter[path[s]]
    BY DurableSaved
  <1>4. FileInv'
    BY DEF DataInv, FileInv
  <1>5. ASSUME NEW t \in Sessions, fate[t] = "open", t \notin unpersisted'
        PROVE  made[t] \ IconEdits \subseteq platter[path[t]]
    <2>1. CASE t = s
      BY <1>1, <1>2, <1>3, <1>5, <2>1 DEF DirtyAfter
    <2>2. CASE t # s
      BY <1>1, <1>2, <1>5, <2>2 DEF DataInv, SavedInv
    <2> QED
      BY <2>1, <2>2
  <1>6. ASSUME NEW t \in Sessions, fate[t] \in {"locked", "quit"}
        PROVE  made[t] \ IconEdits \subseteq platter[path[t]]
    BY <1>6 DEF DataInv, SavedInv
  <1>7. ASSUME NEW t \in Sessions PROVE TaskOK(t, worker[t])'
    BY <1>1, <1>2, KeptTask, IdleTask DEF DataInv, TaskInv
  <1>8. unpersisted \subseteq Held
    BY <1>0 DEF SlotInv, SlotsOK
  <1>9. CASE DoneLocks(s)
    <2>1. /\ WipeSessions("locked") /\ unpersisted' = {}
          /\ \A p \in Paths : savesInFlight'[p] = FreeSlot
      BY <1>1, <1>9 DEF DoneLocks, LockReadyAfter, AllFree
    <2>2. \A t \in Sessions : fate'[t] = IF Retained(t) THEN "locked" ELSE fate[t]
      BY <2>1 DEF WipeSessions
    <2>3. SavedInv'
      <3>1. \A t \in Sessions : Retained(t) <=> fate[t] = "open"
        BY DEF PlaceInv, FateInv
      <3> QED
        BY <1>5, <1>6, <2>1, <2>2, <3>1 DEF SavedInv
    <2>4. SlotsOK(Released(s), DirtyAfter(s), EndOfTask(s), Held)
      BY <1>0, <1>2, <1>8, ReleasedSlots
    <2>5. ASSUME NEW t \in Sessions, worker'[t].phase # "idle"
          PROVE  worker'[t].abort = "Aborted" /\ worker'[t] = worker[t]
      <3>1. worker'[t] = worker[t] /\ worker[t].phase # "idle"
        BY <1>1, <1>2, <2>5
      <3>2. path[t] \in Paths
        BY <1>0, <3>1 DEF SlotInv, PlaceInv, FateInv
      <3>3. Released(s)[path[t]].owner # t
        BY <1>1, <2>1, <3>2, ConstantsAssumption DEF FreeSlot
      <3> QED
        BY <1>1, <2>4, <2>5, <3>1, <3>3 DEF SlotsOK
    <2> QED
      BY <1>4, <1>7, <2>1, <2>3, <2>5, DataWiped DEF Fates
  <1>10. CASE UNCHANGED fate \/ (Durable(s) /\ fate' = [fate EXCEPT ![s] = "locked"])
    <2>1. fate \in [Sessions -> Fates]
      BY DEF TypeOK, SessionType
    <2>2. /\ Held' \in {Held, Held \ {s}} /\ DirtyAfter(s) \subseteq Held'
          /\ \A t \in Sessions : fate'[t] = "unopened" <=> fate[t] = "unopened"
      <3>1. CASE UNCHANGED fate
        BY <1>2, <1>8, <3>1 DEF Held
      <3>2. CASE Durable(s) /\ fate' = [fate EXCEPT ![s] = "locked"]
        <4>1. fate[s] = "open"
          BY <1>2 DEF Held
        <4>2. Held' = Held \ {s}
          BY <2>1, <3>2 DEF Held
        <4> QED
          BY <1>2, <1>8, <2>1, <3>2, <4>1, <4>2
      <3> QED
        BY <1>10, <3>1, <3>2
    <2>3. SlotInv'
      <3>1. SlotsOK(Released(s), DirtyAfter(s), EndOfTask(s), Held')
        BY <1>0, <1>2, <2>2, ReleasedSlots
      <3>2. SlotsOK(savesInFlight, unpersisted, worker, Held)'
        BY <1>1, <3>1 DEF SlotsOK
      <3>3. \A t \in Sessions : worker'[t].phase # "idle" => fate'[t] # "unopened"
        BY <1>0, <1>1, <1>2, <2>2 DEF SlotInv
      <3> QED
        BY <3>2, <3>3 DEF SlotInv
    <2>4. TaskInv'
      <3>1. ASSUME NEW t \in Sessions PROVE Covered(t, worker[t], savesInFlight)'
        <4>1. CASE worker'[t].phase # "idle"
          <5>1. worker'[t] = worker[t] /\ path[t] \in Paths
            BY <1>0, <1>1, <1>2, <4>1 DEF SlotInv, PlaceInv, FateInv
          <5>2. savesInFlight'[path[t]] \in {savesInFlight[path[t]], FreeSlot} /\ FreeSlot.owner # t
            BY <1>1, <1>2, <5>1, ConstantsAssumption DEF FreeSlot
          <5> QED
            BY <4>1, <5>1, <5>2 DEF DataInv, TaskInv, Covered
        <4> QED
          BY <4>1 DEF Covered
      <3>2. \A t \in Sessions : worker'[t].phase = "writing" => worker[t].phase = "writing"
        BY <1>1, <1>2
      <3>3. (\A t, u \in Sessions : HoldsFileLock(t) /\ HoldsFileLock(u) /\ path[t] = path[u] => t = u)'
        BY <3>2 DEF DataInv, TaskInv, HoldsFileLock
      <3> QED
        BY <1>7, <3>1, <3>3 DEF TaskInv
    <2>5. SavedInv'
      <3>1. ASSUME NEW t \in Sessions, fate'[t] \in {"locked", "quit"} \/ (fate'[t] = "open" /\ t \notin unpersisted')
            PROVE  made[t] \ IconEdits \subseteq platter[path[t]]
        <4>1. fate'[t] = fate[t] \/ (t = s /\ Durable(s))
          BY <1>10, <2>1
        <4> QED
          BY <1>3, <1>5, <1>6, <3>1, <4>1
      <3> QED
        BY <3>1 DEF SavedInv
    <2> QED
      BY <1>4, <2>3, <2>4, <2>5 DEF DataInv
  <1> QED
    BY <1>9, <1>10

\* What DoneStays leaves of the fates: at most the settled session, once
\* durable, leaves the quarantine.
LEMMA StaysFates ==
    ASSUME TypeOK, NEW s \in Sessions, DoneStays(s)
    PROVE  UNCHANGED fate \/ (Durable(s) /\ fate' = [fate EXCEPT ![s] = "locked"])
  <1>1. /\ fate' = [fate EXCEPT ![s] = IF s \in deferredLock \ DeferredAfter(s) THEN "locked" ELSE @]
        /\ fate \in [Sessions -> Fates]
    BY DEF DoneStays, TypeOK, SessionType
  <1>2. CASE Durable(s) /\ s \in deferredLock
    BY <1>1, <1>2 DEF DeferredAfter
  <1>3. CASE ~(Durable(s) /\ s \in deferredLock)
    BY <1>1, <1>3 DEF DeferredAfter
  <1> QED
    BY <1>2, <1>3

\* The settled end of a save or a merge, the document installed first.
LEMMA DataDone ==
    ASSUME TypeOK, PlaceInv, DataInv, NEW s \in Sessions,
           worker[s].phase = "done", OwnsSlot(s), DoneLocks(s) \/ DoneStays(s),
           Durable(s) => made[s] \ IconEdits \subseteq worker[s].payload,
           \/ UNCHANGED doc
           \/ /\ worker[s].kind = "merge" /\ doc[s] = worker[s].base
              /\ doc' = [doc EXCEPT ![s] = worker[s].payload]
    PROVE  DataInv'
  <1>1. /\ SettleSave(s) /\ UNCHANGED <<path, storage, disk, platter, issued, made>>
    BY DEF DoneLocks, DoneStays
  <1>2. DoneLocks(s) \/ UNCHANGED fate \/ (Durable(s) /\ fate' = [fate EXCEPT ![s] = "locked"])
    BY StaysFates
  <1>3. \A t \in Sessions : fate'[t] = "unopened" => fate[t] = "unopened"
    <2>1. CASE DoneLocks(s)
      BY <2>1, WipedFates DEF DoneLocks, Fates
    <2>2. CASE UNCHANGED fate \/ fate' = [fate EXCEPT ![s] = "locked"]
      BY <2>2 DEF TypeOK, SessionType
    <2> QED
      BY <1>2, <2>1, <2>2
  <1>4. EditsInv' /\ \A t \in Sessions : doc[t] \subseteq doc'[t]
    <2>1. CASE UNCHANGED doc
      BY <1>1, <1>3, <2>1, EditsKept DEF DataInv
    <2>2. CASE /\ worker[s].kind = "merge" /\ doc[s] = worker[s].base
               /\ doc' = [doc EXCEPT ![s] = worker[s].payload]
      BY <1>1, <1>3, <2>2, MergedEdits
    <2> QED
      BY <2>1, <2>2
  <1> QED
    BY <1>1, <1>2, <1>4, DataSettled

\* Every completion callback keeps the data invariant.
LEMMA DataCallbacks ==
    ASSUME TypeOK, PlaceInv, DataInv, NEW s \in Sessions, Callback(s)
    PROVE  DataInv'
  <1>0. SlotInv /\ EditsInv /\ Live \in SUBSET Sessions
    BY DEF DataInv, Live
  <1>1. CASE StaleCallback(s)
    BY <1>1, DataStale
  <1>2. ASSUME worker[s].phase = "done", OwnsSlot(s)
        PROVE  /\ worker[s].phase # "idle" /\ TaskOK(s, worker[s])
               /\ savesInFlight[path[s]].pending \in {NoSession, s}
    BY <1>0, <1>2, EndedFacts DEF DataInv, TaskInv
  <1>3. ASSUME worker[s].phase = "done", OwnsSlot(s), EditsInv',
               NEW sync \in BOOLEAN, NEW status,
               RequestSaves({s}, sync, Live, Released(s), unpersisted, status, EndOfTask(s),
                            SaveTasks(doc', sync)),
               UNCHANGED <<path, storage, disk, platter, made, fate>>,
               \A t \in Sessions : doc[t] \subseteq doc'[t]
        PROVE  DataInv'
    BY <1>0, <1>2, <1>3, DataTrailing
  <1>4. CASE SaveDonePending(s)
    <2>1. /\ worker[s].phase = "done" /\ OwnsSlot(s)
          /\ UNCHANGED <<path, doc, storage, disk, platter, issued, made, fate>>
      BY <1>4 DEF SaveDonePending, history
    <2>2. PICK sync \in BOOLEAN :
              RequestSaves({s}, sync, Live, Released(s), unpersisted, StatusAfter(s), EndOfTask(s),
                           SaveTasks(doc', sync))
      <3>1. savesInFlight[path[s]].pending = s
        BY <1>2, <1>4, <2>1 DEF SaveDonePending
      <3> QED
        BY <1>4, <2>1, <3>1 DEF SaveDonePending
    <2>3. EditsInv'
      BY <1>0, <2>1, EditsKept
    <2> QED
      BY <1>3, <2>1, <2>2, <2>3
  <1>5. CASE SaveDoneSettled(s)
    <2>1. /\ worker[s].phase = "done" /\ worker[s].kind = "save" /\ OwnsSlot(s)
          /\ savesInFlight[path[s]].pending = NoSession
          /\ DoneLocks(s) \/ DoneStays(s)
          /\ UNCHANGED doc
      BY <1>5 DEF SaveDoneSettled
    <2>2. made[s] \ IconEdits \subseteq worker[s].payload
      BY <1>2, <2>1 DEF DataInv, TaskInv, Covered, OwnsSlot
    <2> QED
      BY <2>1, <2>2, DataDone
  <1>6. CASE MergeFailed(s)
    <2>1. /\ worker[s].phase = "done" /\ worker[s].kind = "merge" /\ OwnsSlot(s)
          /\ ~Durable(s)
          /\ UNCHANGED <<path, storage, disk, platter, issued, made, fate>>
      BY <1>6 DEF MergeFailed, Durable
    <2>2. CASE savesInFlight[path[s]].pending = NoSession
      <3>1. /\ SettleSave(s)
            /\ \/ UNCHANGED doc
               \/ doc[s] = worker[s].base /\ doc' = [doc EXCEPT ![s] = worker[s].payload]
        BY <1>6, <2>2 DEF MergeFailed
      <3>2. EditsInv' /\ \A t \in Sessions : doc[t] \subseteq doc'[t]
        <4>1. CASE UNCHANGED doc
          BY <1>0, <2>1, <4>1, EditsKept
        <4>2. CASE doc[s] = worker[s].base /\ doc' = [doc EXCEPT ![s] = worker[s].payload]
          BY <1>2, <2>1, <4>2, MergedEdits
        <4> QED
          BY <3>1, <4>1, <4>2
      <3> QED
        BY <2>1, <3>1, <3>2, DataSettled
    <2>3. CASE savesInFlight[path[s]].pending # NoSession
      <3>1. /\ UNCHANGED doc
            /\ RequestSaves({s}, TRUE, Live, Released(s), unpersisted, StatusAfter(s), EndOfTask(s),
                            SaveTasks(doc', TRUE))
        <4>1. savesInFlight[path[s]].pending = s
          BY <1>2, <2>1, <2>3
        <4> QED
          BY <1>6, <2>3, <4>1 DEF MergeFailed
      <3>2. EditsInv'
        BY <1>0, <2>1, <3>1, EditsKept
      <3> QED
        BY <1>3, <2>1, <3>1, <3>2
    <2> QED
      BY <2>2, <2>3
  <1>7. CASE MergeOutdated(s)
    <2>1. /\ worker[s].phase = "done" /\ OwnsSlot(s)
          /\ UNCHANGED <<path, doc, storage, disk, platter, issued, made, fate>>
          /\ RequestSaves({s}, TRUE, Live, Released(s), unpersisted, saveStatus, EndOfTask(s),
                          SaveTasks(doc', TRUE))
      BY <1>7 DEF MergeOutdated, history
    <2>2. EditsInv'
      BY <1>0, <2>1, EditsKept
    <2> QED
      BY <1>3, <2>1, <2>2
  <1>8. CASE MergeInstalled(s)
    <2>1. /\ worker[s].phase = "done" /\ worker[s].kind = "merge" /\ OwnsSlot(s)
          /\ doc[s] = worker[s].base /\ doc' = [doc EXCEPT ![s] = worker[s].payload]
      BY <1>8 DEF MergeInstalled, MergeBaseMoved
    <2>2. CASE savesInFlight[path[s]].pending # NoSession
      <3>1. /\ UNCHANGED <<path, storage, disk, platter, issued, made, fate>>
            /\ RequestSaves({s}, TRUE, Live, Released(s), unpersisted, StatusAfter(s), EndOfTask(s),
                            SaveTasks(doc', TRUE))
        <4>1. savesInFlight[path[s]].pending = s
          BY <1>2, <2>1, <2>2
        <4> QED
          BY <1>8, <2>2, <4>1 DEF MergeInstalled, history
      <3>2. EditsInv' /\ \A t \in Sessions : doc[t] \subseteq doc'[t]
        BY <1>2, <2>1, <3>1, MergedEdits
      <3> QED
        BY <1>3, <2>1, <3>1, <3>2
    <2>3. CASE savesInFlight[path[s]].pending = NoSession
      <3>1. DoneLocks(s) \/ DoneStays(s)
        BY <1>8, <2>3 DEF MergeInstalled
      <3>2. made[s] \ IconEdits \subseteq worker[s].payload
        BY <1>0, <1>2, <2>1 DEF EditsInv, TaskOK
      <3> QED
        BY <2>1, <3>1, <3>2, DataDone
    <2> QED
      BY <2>2, <2>3
  <1> QED
    BY <1>1, <1>4, <1>5, <1>6, <1>7, <1>8 DEF Callback

-----------------------------------------------------------------------------
(* The world around the application. *)

\* Another program's write reaches the platter and replaces nothing.
LEMMA DataForeign ==
    ASSUME TypeOK, PlaceInv, DataInv, NEW p \in Paths, NEW e \in ForeignEdits, ForeignWrite(p, e)
    PROVE  DataInv'
  <1>1. /\ disk' = [disk EXCEPT ![p] = @ \cup {e}] /\ platter' = [platter EXCEPT ![p] = disk[p] \cup {e}]
        /\ disk \in [Paths -> Contents] /\ platter \in [Paths -> Contents]
        /\ issued' = issued \cup {e}
        /\ UNCHANGED <<path, doc, storage, unpersisted, savesInFlight, worker, made, fate>>
        /\ ~\E s \in Sessions : path[s] = p /\ HoldsFileLock(s) /\ worker[s].abort = "Publishing"
    BY DEF ForeignWrite, TypeOK, FileType, coordinator
  <1>2. /\ disk'[p] = disk[p] \cup {e} /\ platter'[p] = disk[p] \cup {e}
        /\ \A q \in Paths \ {p} : disk'[q] = disk[q] /\ platter'[q] = platter[q]
    BY <1>1
  <1>3. \A q \in Paths : platter[q] \ MergeEdits \subseteq platter'[q]
    BY <1>2 DEF DataInv, FileInv
  <1>4. SlotInv'
    BY <1>1 DEF DataInv, SlotInv, SlotsOK, Held
  <1>5. TaskInv'
    <2>1. ASSUME NEW s \in Sessions PROVE TaskOK(s, worker[s])'
      <3>1. worker[s].phase # "idle" => path[s] \in Paths
        BY DEF DataInv, SlotInv, PlaceInv, FateInv
      <3>2. worker[s].phase = "writing" /\ worker[s].abort = "Publishing" => disk'[path[s]] = disk[path[s]]
        BY <1>1, <1>2, <3>1 DEF HoldsFileLock
      <3>3. worker[s].phase = "done" => platter[path[s]] \ MergeEdits \subseteq platter'[path[s]]
        BY <1>3, <3>1
      <3> QED
        BY <1>1, <3>2, <3>3 DEF DataInv, TaskInv, TaskOK
    <2>2. ASSUME NEW s \in Sessions PROVE Covered(s, worker[s], savesInFlight)'
      BY <1>1 DEF DataInv, TaskInv, Covered
    <2> QED
      BY <1>1, <2>1, <2>2 DEF DataInv, TaskInv, HoldsFileLock
  <1>6. EditsInv'
    BY <1>1, EditsKept DEF DataInv
  <1>7. FileInv'
    BY <1>2 DEF DataInv, FileInv
  <1>8. SavedInv'
    <2>1. ASSUME NEW s \in Sessions, fate[s] \in {"locked", "quit"} \/ (fate[s] = "open" /\ s \notin unpersisted)
          PROVE  made[s] \ IconEdits \subseteq platter'[path[s]]
      <3>1. /\ made[s] \ IconEdits \subseteq platter[path[s]] /\ path[s] \in Paths
            /\ made[s] \cap MergeEdits = {}
        BY <2>1, ConstantsAssumption DEF DataInv, SavedInv, EditsInv, PlaceInv, FateInv
      <3> QED
        BY <1>3, <3>1
    <2> QED
      BY <1>1, <2>1 DEF SavedInv
  <1> QED
    BY <1>4, <1>5, <1>6, <1>7, <1>8 DEF DataInv

\* Quitting, and the crash that may undo a rename nobody synced.
LEMMA DataRestarted ==
    ASSUME TypeOK, PlaceInv, DataInv, Quit \/ QuitAnyway \/ Crash
    PROVE  DataInv'
  <1>1. ASSUME NEW end \in {"quit", "abandoned", "crashed"}, NEW files, Restart(end, files),
               end = "quit" => unpersisted = {},
               \A p \in Paths : /\ platter[p] \ MergeEdits \subseteq platter'[p]
                                /\ platter'[p] \ MergeEdits \subseteq disk'[p]
                                /\ disk'[p] \cap ForeignEdits \subseteq platter'[p]
        PROVE  DataInv'
    <2>1. /\ WipeSessions(end) /\ unpersisted' = {} /\ savesInFlight' = [p \in Paths |-> FreeSlot]
          /\ worker' = [s \in Sessions |-> IdleWorker]
          /\ UNCHANGED <<path, doc, storage, issued, made>>
          /\ end \in Fates \ {"open", "unopened"}
      BY <1>1 DEF Restart, history, Fates
    <2>2. \A s \in Sessions : worker'[s].phase = "idle"
      BY <2>1 DEF IdleWorker
    <2>3. FileInv'
      BY <1>1 DEF FileInv
    <2>4. EditsInv'
      BY <2>1, WipedFates, EditsKept DEF DataInv
    <2>5. SavedInv'
      <3>1. \A s \in Sessions : fate'[s] = IF fate[s] = "open" THEN end ELSE fate[s]
        BY <2>1 DEF WipeSessions, PlaceInv, FateInv
      <3>2. ASSUME NEW s \in Sessions,
                   fate'[s] \in {"locked", "quit"} \/ (fate'[s] = "open" /\ s \notin unpersisted')
            PROVE  made[s] \ IconEdits \subseteq platter'[path[s]]
        <4>1. fate[s] \in {"locked", "quit"} \/ (fate[s] = "open" /\ s \notin unpersisted)
          BY <1>1, <2>1, <3>1, <3>2
        <4>2. /\ made[s] \ IconEdits \subseteq platter[path[s]] /\ path[s] \in Paths
              /\ made[s] \cap MergeEdits = {}
          BY <4>1, ConstantsAssumption DEF DataInv, SavedInv, EditsInv, PlaceInv, FateInv
        <4> QED
          BY <1>1, <4>2
      <3> QED
        BY <2>1, <3>2 DEF SavedInv
    <2> QED
      BY <2>1, <2>2, <2>3, <2>4, <2>5, DataWiped
  <1>2. /\ disk \in [Paths -> Contents] /\ platter \in [Paths -> Contents]
        /\ \A p \in Paths : platter[p] \ MergeEdits \subseteq disk[p] /\ disk[p] \cap ForeignEdits \subseteq platter[p]
    BY DEF TypeOK, FileType, DataInv, FileInv
  <1>3. CASE Quit
    <2>1. Restart("quit", disk) /\ disk' = disk /\ platter' = platter /\ unpersisted = {}
      BY <1>3 DEF Quit, Restart
    <2> QED
      BY <1>1, <1>2, <2>1
  <1>4. CASE QuitAnyway
    <2>1. Restart("abandoned", disk) /\ disk' = disk /\ platter' = platter
      BY <1>4 DEF QuitAnyway, Restart
    <2> QED
      BY <1>1, <1>2, <2>1
  <1>5. CASE Crash
    <2>1. PICK lost \in SUBSET Paths :
              /\ Restart("crashed", [p \in Paths |-> IF p \in lost THEN platter[p] ELSE disk[p]])
              /\ platter' = [p \in Paths |-> IF p \in lost THEN platter[p] ELSE disk[p]]
      BY <1>5 DEF Crash
    <2>2. disk' = platter'
      BY <2>1 DEF Restart
    <2>3. \A p \in Paths : platter'[p] \in {platter[p], disk[p]}
      BY <2>1
    <2> QED
      BY <1>1, <1>2, <2>1, <2>2, <2>3
  <1> QED
    BY <1>3, <1>4, <1>5

-----------------------------------------------------------------------------
(* The invariant. *)

\* Every step keeps the data invariant.
LEMMA DataStep ==
    ASSUME TypeOK, PlaceInv, DataInv, Next
    PROVE  DataInv'
  <1>1. ASSUME UNCHANGED <<path, doc, storage, coordinator, worker, disk, platter, history, fate>>
        PROVE  DataInv'
    BY <1>1, DataFrame DEF history
  <1>2. ASSUME \/ \E p \in Paths : RequestPassword(p) \/ BeginOpen(p)
               \/ \E s \in Sessions : SwitchToUnlocked(s)
               \/ ReadVault \/ FailOpen \/ StartFavicons \/ DeferredLockStuck \/ RefuseQuit
        PROVE  DataInv'
    BY <1>1, <1>2 DEF RequestPassword, BeginOpen, SwitchToUnlocked, ReadVault, FailOpen,
                      StartFavicons, DeferredLockStuck, RefuseQuit
  <1>3. ASSUME Lock \/ CloseWindow PROVE DataInv'
    BY <1>3, DataLocked DEF Lock, CloseWindow, history
  <1>4. ASSUME NEW s \in Sessions, WorkerStep(s) \/ WorkerFails(s) PROVE DataInv'
    BY <1>4, DataWriting, DataPublished DEF WorkerStep
  <1> QED
    BY <1>2, <1>3, <1>4, DataOpened, DataEdited, DataIcon, DataMerging, DataDiscarded,
       DataCallbacks, DataForeign, DataRestarted DEF Next

\* Every step keeps the sessions in their places.
LEMMA PlaceStep ==
    ASSUME TypeOK, PlaceInv, SlotInv, Next
    PROVE  PlaceInv'
  <1>1. ASSUME UNCHANGED <<lifecycle, path, fate>> PROVE PlaceInv'
    BY <1>1, PlaceFrame DEF lifecycle
  <1>2. ASSUME \/ \E e \in UserEdits, sync \in BOOLEAN : Edit(e, sync)
               \/ \E s \in Sessions, e \in MergeEdits : CommitMerged(s, e) \/ CommitMergedLate(s, e)
               \/ SaveNow \/ StartFavicons \/ FinishFavicons
               \/ \E e \in IconEdits : LandIcon(e)
               \/ DiscardRaced \/ RefuseQuit
               \/ \E p \in Paths, e \in ForeignEdits : ForeignWrite(p, e)
        PROVE  PlaceInv'
    BY <1>1, <1>2 DEF Edit, CommitMerged, CommitMergedLate, SaveNow, StartFavicons, FinishFavicons,
                      LandIcon, DiscardRaced, RefuseQuit, ForeignWrite
  <1>3. ASSUME ReadVault \/ DeferredLockStuck PROVE PlaceInv'
    BY <1>3, PlaceFrame DEF ReadVault, DeferredLockStuck
  <1>4. ASSUME Lock \/ CloseWindow PROVE PlaceInv'
    BY <1>4, PlaceLocking DEF Lock, CloseWindow
  <1>5. ASSUME NEW s \in Sessions, WorkerStep(s) \/ WorkerFails(s) PROVE PlaceInv'
    BY <1>1, <1>5 DEF WorkerStep, WorkerBegin, WorkerClaim, WorkerPublish, WorkerFails, WorkerOnly
  <1>6. ASSUME NEW s \in Sessions, Callback(s) PROVE PlaceInv'
    <2>1. CASE StaleCallback(s) \/ MergeFailed(s) \/ MergeOutdated(s)
      BY <1>1, <2>1 DEF StaleCallback, MergeFailed, MergeOutdated
    <2>2. CASE SaveDonePending(s)
      <3>1. worker[s].phase # "idle" /\ OwnsSlot(s)
        BY <2>2 DEF SaveDonePending
      <3>2. savesInFlight[path[s]].pending = s
        BY <2>2, <3>1, EndedFacts DEF SaveDonePending
      <3> QED
        BY <2>2, <3>2, PlaceFrame DEF SaveDonePending
    <2>3. CASE SaveDoneSettled(s) \/ MergeInstalled(s)
      <3>1. DoneLocks(s) \/ DoneStays(s) \/ UNCHANGED <<lifecycle, path, fate>>
        BY <2>3 DEF SaveDoneSettled, MergeInstalled
      <3> QED
        BY <1>1, <3>1, PlaceLocking, PlaceSettled
    <2> QED
      BY <1>6, <2>1, <2>2, <2>3 DEF Callback
  <1> QED
    BY <1>2, <1>3, <1>4, <1>5, <1>6, PlaceOpening, PlaceLocking DEF Next

\* The application starts within the invariant.
LEMMA InitInv == Init => Inv
  <1> SUFFICES ASSUME Init PROVE Inv
    OBVIOUS
  <1>1. TypeOK
    BY InitTypeOK
  <1>2. /\ \A s \in Sessions : fate[s] = "unopened" /\ worker[s].phase = "idle" /\ ~Retained(s)
        /\ \A p \in Paths : savesInFlight[p] = FreeSlot
        /\ FreeSlot.owner = NoSession
    BY ConstantsAssumption DEF Init, IdleWorker, Retained, Current, FreeSlot
  <1>3. PlaceInv
    <2>1. WindowInv
      BY DEF Init, WindowInv
    <2>2. FateInv /\ OneSessionPerFile
      BY <1>2 DEF FateInv, OneSessionPerFile
    <2> QED
      BY <2>1, <2>2 DEF PlaceInv
  <1>4. SlotInv
    BY <1>2 DEF Init, SlotInv, SlotsOK
  <1>5. TaskInv
    BY <1>2 DEF TaskInv, TaskOK, Covered, HoldsFileLock
  <1>6. EditsInv /\ FileInv
    BY DEF Init, EditsInv, FileInv
  <1>7. SavedInv
    BY <1>2 DEF SavedInv
  <1> QED
    BY <1>1, <1>3, <1>4, <1>5, <1>6, <1>7 DEF Inv, DataInv

\* The invariant is inductive.
LEMMA InvStep == Inv /\ [Next]_vars => Inv'
  <1> SUFFICES ASSUME Inv, [Next]_vars PROVE Inv'
    OBVIOUS
  <1>1. TypeOK'
    BY TypeOKStep DEF Inv, PlaceInv, DataInv
  <1>2. CASE Next
    BY <1>1, <1>2, DataStep, PlaceStep DEF Inv, DataInv
  <1>3. CASE UNCHANGED vars
    <2>1. PlaceInv'
      BY <1>3, PlaceFrame DEF vars, lifecycle, Inv
    <2>2. DataInv'
      BY <1>3, DataFrame DEF vars, history, Inv
    <2> QED
      BY <1>1, <2>1, <2>2 DEF Inv
  <1> QED
    BY <1>2, <1>3

\* The inductive invariant holds of every reachable state.
THEOREM Invariance == Spec => []Inv
  BY InitInv, InvStep, PTL DEF Spec

\* Every variable keeps its type: the window's slot, the sessions, the writer
\* slots, the tasks, the files.
THEOREM TypeCorrectness == Spec => []TypeOK
  <1>1. Inv => TypeOK
    BY DEF Inv
  <1> QED
    BY <1>1, Invariance, PTL

\* However vaults are opened, parked, locked and reopened, two retained
\* sessions never share a file (request_password, begin_open).
THEOREM NoSecondSession == Spec => []OneSessionPerFile
  <1>1. Inv => OneSessionPerFile
    BY DEF Inv, PlaceInv
  <1> QED
    BY <1>1, Invariance, PTL

\* The quit veto and the deferred lock see every owner and every waiter of a
\* writer slot, and a session they wait for can still be retried or discarded.
THEOREM VetoSeesEveryWriter == Spec => []SaveWorkIsCounted
  <1>1. Inv => SaveWorkIsCounted
    <2> SUFFICES ASSUME Inv PROVE SaveWorkIsCounted
      OBVIOUS
    <2>1. ASSUME NEW p \in Paths
          PROVE  {savesInFlight[p].owner, savesInFlight[p].pending} \subseteq unpersisted \cup {NoSession}
      <3>1. CASE savesInFlight[p].owner = NoSession
        BY <3>1 DEF Inv, DataInv, SlotInv, SlotsOK, FreeSlot
      <3>2. CASE savesInFlight[p].owner # NoSession
        BY <3>2 DEF Inv, DataInv, SlotInv, SlotsOK
      <3> QED
        BY <3>1, <3>2
    <2>2. \A s \in unpersisted : Retained(s)
      BY DEF Inv, DataInv, SlotInv, SlotsOK, Held, PlaceInv, FateInv
    <2> QED
      BY <2>1, <2>2 DEF SaveWorkIsCounted
  <1> QED
    BY <1>1, Invariance, PTL

\* A lock or a quit never loses an edit (mark_vault_session_persisted,
\* finish_deferred_lock_if_ready, lock_vault).
THEOREM LocksLoseNothing == Spec => []NothingSilentlyLost
  <1>1. Inv => NothingSilentlyLost
    BY DEF Inv, DataInv, SavedInv, NothingSilentlyLost
  <1> QED
    BY <1>1, Invariance, PTL

\* What is shown as saved survives a power loss (SaveReceipt::is_durable).
THEOREM SavedSurvivesPowerLoss == Spec => []PersistedIsDurable
  <1>1. Inv => PersistedIsDurable
    BY DEF Inv, DataInv, SavedInv, PlaceInv, FateInv, PersistedIsDurable
  <1> QED
    BY <1>1, Invariance, PTL

\* Two payloads of one document never race: StalePayload is unreachable.
THEOREM PayloadsNeverStale == Spec => []NoStalePayload
  <1>1. Inv => NoStalePayload
    BY DEF Inv, DataInv, SlotInv, SlotsOK, TaskInv, TaskOK, PlaceInv, FateInv, Held, OwnsSlot,
           NoStalePayload
  <1> QED
    BY <1>1, Invariance, PTL

-----------------------------------------------------------------------------
(* What no step may do to a file. *)

\* Only a rename, another program and a crash change what a file shows.
LEMMA FileWriters ==
    ASSUME [Next]_vars
    PROVE  \/ UNCHANGED disk
           \/ \E s \in Sessions : WorkerPublish(s)
           \/ \E p \in Paths, e \in ForeignEdits : ForeignWrite(p, e)
           \/ Crash
  <1>1. ASSUME \/ \E p \in Paths : RequestPassword(p) \/ BeginOpen(p)
               \/ \E s \in Sessions : SwitchToUnlocked(s) \/ FinishOpen(s)
               \/ ReadVault \/ FailOpen
               \/ \E e \in UserEdits, sync \in BOOLEAN : Edit(e, sync)
               \/ SaveNow
               \/ \E s \in Sessions, e \in MergeEdits : CommitMerged(s, e) \/ CommitMergedLate(s, e)
               \/ StartFavicons \/ FinishFavicons
               \/ \E e \in IconEdits : LandIcon(e)
        PROVE  UNCHANGED disk
    BY <1>1 DEF RequestPassword, BeginOpen, SwitchToUnlocked, FinishOpen, ReadVault, FailOpen,
                Edit, SaveNow, CommitMerged, CommitMergedLate, StartFavicons, FinishFavicons, LandIcon
  <1>2. ASSUME Lock \/ DeferredLockStuck \/ DiscardAndLock \/ DiscardRaced \/ RefuseQuit
               \/ Quit \/ QuitAnyway \/ CloseWindow
        PROVE  UNCHANGED disk
    BY <1>2 DEF Lock, DeferredLockStuck, DiscardAndLock, DiscardRaced, RefuseQuit, Quit,
                QuitAnyway, CloseWindow, Restart
  <1>3. ASSUME NEW s \in Sessions, WorkerStep(s) \/ WorkerFails(s)
        PROVE  UNCHANGED disk \/ WorkerPublish(s)
    BY <1>3 DEF WorkerStep, WorkerBegin, WorkerClaim, WorkerFails
  <1>4. ASSUME NEW s \in Sessions, Callback(s) PROVE UNCHANGED disk
    BY <1>4 DEF Callback, StaleCallback, SaveDonePending, SaveDoneSettled, MergeFailed,
                MergeOutdated, MergeInstalled, DoneLocks, DoneStays
  <1>5. CASE UNCHANGED vars
    BY <1>5 DEF vars
  <1>6. CASE Next
    BY <1>1, <1>2, <1>3, <1>4, <1>6 DEF Next
  <1> QED
    BY <1>5, <1>6

\* What each of them may leave in a file it writes.
LEMMA WrittenFiles ==
    ASSUME Inv, [Next]_vars, NEW p \in Paths
    PROVE  /\ disk[p] \cap ForeignEdits \subseteq disk'[p]
           /\ \A s \in Sessions : fate[s] = "discarded" => (disk'[p] \cap made[s]) \subseteq disk[p]
  <1>1. /\ disk \in [Paths -> Contents] /\ platter \in [Paths -> Contents]
        /\ \A s \in Sessions : made[s] \cap MergeEdits = {} /\ made[s] \cap ForeignEdits = {}
    BY ConstantsAssumption DEF Inv, TypeOK, FileType, DataInv, EditsInv
  <1>2. ASSUME NEW s \in Sessions, WorkerPublish(s)
        PROVE  /\ disk[p] \cap ForeignEdits \subseteq disk'[p]
               /\ \A t \in Sessions : fate[t] = "discarded" => (disk'[p] \cap made[t]) \subseteq disk[p]
    <2>1. /\ worker[s].phase = "writing" /\ worker[s].abort = "Publishing"
          /\ disk' = [disk EXCEPT ![path[s]] = worker[s].payload]
      BY <1>2 DEF WorkerPublish, HoldsFileLock
    <2>2. /\ disk[path[s]] = storage[s] /\ storage[s] \ MergeEdits \subseteq worker[s].payload
          /\ worker[s].payload \ (made[s] \cup MergeEdits) \subseteq storage[s]
      BY <2>1 DEF Inv, DataInv, TaskInv, TaskOK
    <2>3. fate[s] = "open"
      BY <2>1 DEF Inv, DataInv, SlotInv, SlotsOK, Held
    <2>4. \A t \in Sessions : fate[t] = "discarded" => made[t] \cap made[s] = {}
      BY <2>3 DEF Inv, DataInv, EditsInv
    <2>5. CASE p = path[s]
      BY <1>1, <2>1, <2>2, <2>4, <2>5, ConstantsAssumption
    <2>6. CASE p # path[s]
      BY <1>1, <2>1, <2>6
    <2> QED
      BY <2>5, <2>6
  <1>3. ASSUME NEW q \in Paths, NEW e \in ForeignEdits, ForeignWrite(q, e)
        PROVE  /\ disk[p] \cap ForeignEdits \subseteq disk'[p]
               /\ \A t \in Sessions : fate[t] = "discarded" => (disk'[p] \cap made[t]) \subseteq disk[p]
    BY <1>1, <1>3 DEF ForeignWrite
  <1>4. ASSUME Crash
        PROVE  /\ disk[p] \cap ForeignEdits \subseteq disk'[p]
               /\ \A t \in Sessions : fate[t] = "discarded" => (disk'[p] \cap made[t]) \subseteq disk[p]
    <2>1. disk'[p] \in {disk[p], platter[p]}
      BY <1>4 DEF Crash, Restart
    <2>2. platter[p] \ MergeEdits \subseteq disk[p] /\ disk[p] \cap ForeignEdits \subseteq platter[p]
      BY DEF Inv, DataInv, FileInv
    <2> QED
      BY <1>1, <2>1, <2>2
  <1> QED
    BY <1>2, <1>3, <1>4, FileWriters

\* No writer replaces a change another program made (verify_disk_revision
\* before and after encoding, the lock's order, the crash model).
THEOREM ForeignChangesSurvive == Spec => ForeignEditsKept
  <1>1. Inv /\ [Next]_vars => [\A p \in Paths : (disk[p] \cap ForeignEdits) \subseteq disk'[p]]_vars
    BY WrittenFiles
  <1> QED
    BY <1>1, Invariance, PTL DEF Spec, ForeignEditsKept

\* Once discarded, a change never reaches the file any more: not by the
\* aborted writer, not by a later session, not by a crash (SaveAbortHandle).
THEOREM DiscardsAreFinal == Spec => DiscardIsFinal
  <1>1. Inv /\ [Next]_vars => [\A s \in Sessions : fate[s] = "discarded" =>
                                  (disk'[path[s]] \cap made[s]) \subseteq disk[path[s]]]_vars
    <2> SUFFICES ASSUME Inv, [Next]_vars, NEW s \in Sessions, fate[s] = "discarded"
                 PROVE  (disk'[path[s]] \cap made[s]) \subseteq disk[path[s]]
      OBVIOUS
    <2>1. path[s] \in Paths
      BY DEF Inv, PlaceInv, FateInv
    <2> QED
      BY <2>1, WrittenFiles
  <1> QED
    BY <1>1, Invariance, PTL DEF Spec, DiscardIsFinal

=============================================================================
