--------------------------- MODULE SyncStoreProofs ---------------------------
(***************************************************************************)
(* Proofs about SyncStore, for any processes, vaults, remote files,         *)
(* accounts and tasks.                                                      *)
(***************************************************************************)
EXTENDS SyncStoreInv, TLAPS

-----------------------------------------------------------------------------
(* What the operators that change the tasks do, field by field. *)

TaskType == task \in [Task -> TaskRecord]

\* Every task but t is what it was.
OthersKept(t) == \A u \in Task \ {t} : task'[u] = task[u]

SameTask(t) ==
  /\ task'[t].kind = task[t].kind
  /\ task'[t].app = task[t].app
  /\ task'[t].vault = task[t].vault
  /\ task'[t].rel = task[t].rel
  /\ task'[t].wanted = task[t].wanted
  /\ task'[t].current = task[t].current

Moved(t, place) ==
  /\ TaskType'
  /\ OthersKept(t)
  /\ SameTask(t)
  /\ task'[t].at = place
  /\ task'[t].got = task[t].got

LEMMA MoveFacts ==
  ASSUME TaskType, NEW t \in Task, NEW place \in Place, MoveTo(t, place)
  PROVE  Moved(t, place)
  <1>1. task[t] \in TaskRecord
    BY DEF TaskType
  <1>2. [task[t] EXCEPT !.at = place] \in TaskRecord
    BY <1>1 DEF TaskRecord
  <1>3. task' = [task EXCEPT ![t] = [task[t] EXCEPT !.at = place]]
    BY DEF MoveTo
  <1>4. task'[t] = [task[t] EXCEPT !.at = place] /\ OthersKept(t) /\ TaskType'
    BY <1>2, <1>3 DEF TaskType, OthersKept
  <1>5. SameTask(t) /\ task'[t].at = place /\ task'[t].got = task[t].got
    BY <1>1, <1>4 DEF SameTask, TaskRecord
  <1> QED
    BY <1>4, <1>5 DEF Moved

Gone(t) ==
  /\ TaskType'
  /\ OthersKept(t)
  /\ task'[t] = Ended

LEMMA EndedFacts ==
  /\ Ended \in TaskRecord
  /\ Unused \in TaskRecord
  /\ Ended.kind = "none" /\ Ended.at = "ended" /\ ~Ended.wanted
  /\ Unused.kind = "none" /\ Unused.at = "unused" /\ ~Unused.wanted
  BY DEF Ended, Unused, TaskRecord, Place

LEMMA EndFacts ==
  ASSUME TaskType, NEW t \in Task, End(t)
  PROVE  Gone(t)
  BY EndedFacts DEF TaskType, End, Gone, OthersKept

\* A task that goes on as a push of its vault.
Pushing(t) ==
  /\ TaskType'
  /\ OthersKept(t)
  /\ task'[t].kind = "sync"
  /\ task'[t].at = "uploaded"
  /\ task'[t].app = task[t].app
  /\ task'[t].vault = task[t].vault
  /\ task'[t].rel = task[t].rel
  /\ task'[t].wanted = task[t].wanted
  /\ task'[t].current = task[t].current

LEMMA EndOrPushFacts ==
  ASSUME TaskType, NEW t \in Task, EndOrPush(t)
  PROVE  Gone(t) \/ Pushing(t)
  <1>1. CASE End(t)
    BY <1>1, EndFacts
  <1>2. CASE task' = [task EXCEPT ![t].kind = "sync", ![t].at = "uploaded"]
    <2>1. task[t] \in TaskRecord
      BY DEF TaskType
    <2>2. [task[t] EXCEPT !.kind = "sync", !.at = "uploaded"] \in TaskRecord
      BY <2>1 DEF TaskRecord, Kind, Place
    <2>3. task' = [task EXCEPT ![t] = [task[t] EXCEPT !.kind = "sync", !.at = "uploaded"]]
      BY <1>2, <2>1 DEF TaskType, TaskRecord
    <2>4. task'[t] = [task[t] EXCEPT !.kind = "sync", !.at = "uploaded"]
      BY <2>3 DEF TaskType
    <2>5. OthersKept(t) /\ TaskType'
      BY <2>2, <2>3 DEF OthersKept, TaskType
    <2> QED
      BY <2>1, <2>4, <2>5 DEF Pushing, TaskRecord
  <1> QED
    BY <1>1, <1>2 DEF EndOrPush

\* Tasks that an advance of the gate touches: they lose wanted and current at most.
Kept(u) ==
  /\ task'[u].kind = task[u].kind
  /\ task'[u].app = task[u].app
  /\ task'[u].vault = task[u].vault
  /\ task'[u].rel = task[u].rel
  /\ task'[u].at = task[u].at
  /\ task'[u].got = task[u].got
  /\ task'[u].wanted => task[u].wanted
  /\ task'[u].current => task[u].current

\* An abandoned task of a named vault is not current.
Dropped(p, vs) ==
  \A u \in Task : task[u].app = p /\ task[u].vault \in vs => ~task'[u].current

\* No task of the process is wanted any more.
Advanced(p, ts) == \A u \in ts : task[u].app = p => ~task'[u].wanted

LEMMA AbandonedFacts ==
  ASSUME TaskType, NEW p, NEW vs, NEW u \in Task
  PROVE  LET r == Abandon(p, vs)[u] IN
         /\ r \in TaskRecord
         /\ r.kind = task[u].kind /\ r.app = task[u].app
         /\ r.vault = task[u].vault /\ r.rel = task[u].rel
         /\ r.at = task[u].at /\ r.got = task[u].got
         /\ r.wanted => task[u].wanted
         /\ r.current => task[u].current
         /\ task[u].app = p => ~r.wanted
         /\ task[u].app = p /\ task[u].vault \in vs => ~r.current
  <1>1. task[u] \in TaskRecord
    BY DEF TaskType
  <1>2. CASE task[u].app # p
    BY <1>1, <1>2 DEF Abandon
  <1>3. CASE task[u].app = p /\ task[u].vault \in vs
    BY <1>1, <1>3 DEF Abandon, Unwanted, TaskRecord
  <1>4. CASE task[u].app = p /\ task[u].vault \notin vs
    BY <1>1, <1>4 DEF Abandon, Unwanted, TaskRecord
  <1> QED
    BY <1>2, <1>3, <1>4

LEMMA AbandonFacts ==
  ASSUME TaskType, NEW p, NEW vs
  PROVE  /\ Abandon(p, vs) \in [Task -> TaskRecord]
         /\ task' = Abandon(p, vs) => (\A u \in Task : Kept(u)) /\ Dropped(p, vs)
  <1>1. Abandon(p, vs) = [u \in Task |-> Abandon(p, vs)[u]]
    BY DEF Abandon
  <1>2. \A u \in Task : Abandon(p, vs)[u] \in TaskRecord
    BY AbandonedFacts
  <1>3. Abandon(p, vs) \in [Task -> TaskRecord]
    BY <1>1, <1>2
  <1>4. ASSUME task' = Abandon(p, vs), NEW u \in Task
        PROVE  Kept(u) /\ (task[u].app = p /\ task[u].vault \in vs => ~task'[u].current)
    BY <1>4, AbandonedFacts DEF Kept
  <1> QED
    BY <1>3, <1>4 DEF Dropped

-----------------------------------------------------------------------------
(* What a step leaves alone: a task that claims no more than it did, in a    *)
(* step that writes no file and opens no vault, breaks nothing.              *)

StagedKept(u) ==
  Staged(u)' => Staged(u) /\ task'[u].at = task[u].at /\ task'[u].vault = task[u].vault

TiedKept(u) ==
  task'[u].kind \in Tied /\ task'[u].current =>
    /\ task[u].kind \in Tied /\ task[u].current
    /\ task'[u].app = task[u].app /\ task'[u].vault = task[u].vault

WriterKept(u) ==
  Writes(u)' => Writes(u) /\ task'[u].vault = task[u].vault

ClaimsKept(u) == StagedKept(u) /\ TiedKept(u) /\ WriterKept(u)

LEMMA OthersKeepClaims ==
  ASSUME NEW t \in Task, OthersKept(t)
  PROVE  \A u \in Task \ {t} : ClaimsKept(u)
  BY DEF OthersKept, ClaimsKept, StagedKept, TiedKept, WriterKept, Staged, Writes

LEMMA KeptKeepClaims ==
  ASSUME NEW u \in Task, Kept(u)
  PROVE  ClaimsKept(u)
  BY DEF Kept, ClaimsKept, StagedKept, TiedKept, WriterKept, Staged, Writes

\* A vault that is about to be bound has no configuration.
BindingFree == \A u \in Task : task[u].at = "binding" => config[task[u].vault] = NoRel

LEMMA BindingFreeKept ==
  ASSUME StagedInv, \A u \in Task : StagedKept(u), UNCHANGED config
  PROVE  BindingFree'
  BY DEF StagedInv, StagedKept, Staged, BindingFree

LEMMA Frame ==
  ASSUME StagedInv, WindowInv, WriterInv, NEW t \in Task,
         \A u \in Task \ {t} : ClaimsKept(u),
         StagedKept(t), TiedFine(t)', WriterFine(t)',
         BindingFree', UNCHANGED <<file, lock, open>>
  PROVE  StagedInv' /\ WindowInv' /\ WriterInv'
  <1>1. \A u \in Task : StagedKept(u)
    BY DEF ClaimsKept
  <1>2. StagedInv'
    BY <1>1 DEF StagedInv, StagedKept, Staged, BindingFree
  <1>3. ASSUME NEW u \in Task
        PROVE  TiedFine(u)' /\ WriterFine(u)'
    <2>1. CASE u = t
      BY <2>1
    <2>2. CASE u # t
      <3>1. TiedKept(u) /\ WriterKept(u)
        BY <2>2 DEF ClaimsKept
      <3>2. TiedFine(u)'
        BY <3>1 DEF TiedKept, WindowInv, TiedFine
      <3>3. WriterFine(u)'
        BY <1>1, <3>1 DEF WriterKept, WriterInv, WriterFine, StagedKept
      <3> QED
        BY <3>2, <3>3
    <2> QED
      BY <2>1, <2>2
  <1>4. WindowInv'
    BY <1>1, <1>3 DEF WindowInv, StagedKept
  <1>5. WriterInv'
    BY <1>3 DEF WriterInv
  <1> QED
    BY <1>2, <1>4, <1>5

LEMMA QuietFrame ==
  ASSUME StagedInv, WindowInv, WriterInv, \A u \in Task : ClaimsKept(u),
         BindingFree', UNCHANGED <<file, lock, open>>
  PROVE  StagedInv' /\ WindowInv' /\ WriterInv'
  <1>1. ASSUME NEW t \in Task
        PROVE  StagedKept(t) /\ TiedFine(t)' /\ WriterFine(t)'
    <2>1. \A u \in Task : StagedKept(u)
      BY DEF ClaimsKept
    <2>2. TiedKept(t) /\ WriterKept(t)
      BY DEF ClaimsKept
    <2>3. TiedFine(t)'
      BY <2>2 DEF TiedKept, WindowInv, TiedFine
    <2>4. WriterFine(t)'
      BY <2>1, <2>2 DEF WriterKept, WriterInv, WriterFine, StagedKept
    <2> QED
      BY <2>1, <2>3, <2>4
  <1>2. CASE Task = {}
    BY <1>2 DEF StagedInv, WindowInv, WriterInv
  <1>3. ASSUME NEW t \in Task
        PROVE  StagedInv' /\ WindowInv' /\ WriterInv'
    BY <1>1, Frame
  <1> QED
    BY <1>2, <1>3

-----------------------------------------------------------------------------
(* Steps of one task that write no file. *)

\* The variables no such step may give a wrong type.
RestOK ==
  /\ token \in [Account -> Token \cup {NoToken}]
  /\ engaged \in [App -> SUBSET Vault]
  /\ \A p \in App : engaged[p] \subseteq open[p]
  /\ bound \in [App -> [Vault -> Remote \cup {NoRel}]]
  /\ live \in [Vault -> Remote \cup {NoRel}]
  /\ revived \subseteq Vault
  /\ abandoned \subseteq Account \cup {NoAccount}

QuietStep(t) == TaskType' /\ OthersKept(t) /\ TaskFine(t)' /\ ClaimsKept(t)

LEMMA QuietMove ==
  ASSUME NEW t \in Task, NEW place, Moved(t, place), TaskFine(t),
         place \in PlacesOf(task[t].kind), place \notin {"binding", "signing", "refreshing", "exchanging"}
  PROVE  QuietStep(t)
  <1>1. TaskFine(t)'
    BY DEF TaskFine, Moved, SameTask
  <1>2. ClaimsKept(t)
    BY DEF Moved, SameTask, ClaimsKept, StagedKept, TiedKept, WriterKept, Staged, Writes
  <1> QED
    BY <1>1, <1>2 DEF QuietStep, Moved

LEMMA QuietEnd ==
  ASSUME NEW t \in Task, Gone(t)
  PROVE  QuietStep(t)
  <1>1. TaskFine(t)'
    BY EndedFacts DEF Gone, TaskFine, PlacesOf
  <1>2. ClaimsKept(t)
    BY EndedFacts
    DEF Gone, ClaimsKept, StagedKept, TiedKept, WriterKept, Staged, Writes, Tied
  <1> QED
    BY <1>1, <1>2 DEF QuietStep, Gone

LEMMA QuietPush ==
  ASSUME NEW t \in Task, Pushing(t), TaskFine(t),
         task[t].kind \in {"reconnect", "restore", "sync"}
  PROVE  QuietStep(t)
  <1>1. TaskFine(t)'
    BY DEF Pushing, TaskFine, PlacesOf
  <1>2. ClaimsKept(t)
    BY DEF Pushing, ClaimsKept, StagedKept, TiedKept, WriterKept, Staged, Writes, Tied
  <1> QED
    BY <1>1, <1>2 DEF QuietStep, Pushing

LEMMA TypeParts ==
  TypeOK <=> /\ config \in [Vault -> Remote \cup {NoRel}]
             /\ file \subseteq Vault
             /\ lock \in Task \cup {NoTask}
             /\ open \in [App -> SUBSET Vault]
             /\ TaskType
             /\ RestOK
  BY DEF TypeOK, TaskType, RestOK

LEMMA TaskInvKept ==
  ASSUME TaskInv, NEW t \in Task, OthersKept(t), TaskFine(t)'
  PROVE  TaskInv'
  BY DEF TaskInv, OthersKept, TaskFine

LEMMA QuietKeeps ==
  ASSUME StoreInv, NEW t \in Task, QuietStep(t), RestOK',
         UNCHANGED <<config, file, lock, open>>
  PROVE  StoreInv'
  <1>1. TypeOK'
    BY TypeParts DEF StoreInv, QuietStep, TypeOK, TaskType, RestOK
  <1>2. TaskInv'
    BY TaskInvKept DEF StoreInv, QuietStep
  <1>3. \A u \in Task : ClaimsKept(u)
    BY OthersKeepClaims DEF QuietStep
  <1>4. StagedInv' /\ WindowInv' /\ WriterInv'
    <2>1. BindingFree'
      BY <1>3, BindingFreeKept DEF StoreInv, ClaimsKept
    <2> QED
      BY <1>3, <2>1, QuietFrame DEF StoreInv
  <1>5. BoundVaultHasFile'
    BY DEF StoreInv, BoundVaultHasFile
  <1> QED
    BY <1>1, <1>2, <1>4, <1>5 DEF StoreInv

\* The kinds and the places a task is at, from its invariant.
LEMMA KindsAndPlaces ==
  ASSUME StoreInv, NEW t \in Task
  PROVE  /\ TaskType /\ RestOK /\ TaskFine(t)
         /\ task[t] \in TaskRecord
         /\ task[t].at \in PlacesOf(task[t].kind)
  BY TypeParts DEF StoreInv, TaskInv, TaskFine, TaskType

LEMMA EngageTypes ==
  ASSUME RestOK, NEW p \in App, NEW v \in Vault, v \in open[p], Engage(p, v), UNCHANGED open
  PROVE  /\ engaged' \in [App -> SUBSET Vault]
         /\ \A q \in App : engaged'[q] \subseteq open'[q]
  BY DEF RestOK, Engage

LEMMA InstallsTypes ==
  ASSUME RestOK, NEW t \in Task, task[t] \in TaskRecord, task[t].app \in App,
         task[t].vault \in Vault, task[t].vault \in open[task[t].app], Installs(t),
         UNCHANGED <<open, token, history>>
  PROVE  RestOK'
  <1>1. /\ engaged' \in [App -> SUBSET Vault]
        /\ \A q \in App : engaged'[q] \subseteq open'[q]
    BY EngageTypes DEF Installs
  <1>2. task[t].rel \in Remote \cup {NoRel}
    BY DEF TaskRecord
  <1>3. bound' \in [App -> [Vault -> Remote \cup {NoRel}]]
    BY <1>2 DEF Installs, RestOK
  <1> QED
    BY <1>1, <1>3 DEF RestOK, history

\* The account of a relationship.
LEMMA AccountTypes ==
  ASSUME NEW r \in Remote \cup {NoRel}
  PROVE  Account_(r) \in Account \cup {NoAccount}
  BY StoreAssumption DEF Account_

LEMMA EndShownTypes ==
  ASSUME StoreInv, NEW t \in Task, EndShown(t), UNCHANGED <<open, bound, token, live, revived>>,
         abandoned' \subseteq Account \cup {NoAccount}
  PROVE  RestOK'
  <1>1. RestOK /\ TaskFine(t) /\ TiedFine(t)
    BY KindsAndPlaces DEF StoreInv, WindowInv
  <1>2. CASE task[t].kind = "publish" /\ task[t].wanted /\ task[t].current
    <2>1. task[t].app \in App /\ task[t].vault \in Vault /\ task[t].vault \in open[task[t].app]
      BY <1>1, <1>2 DEF TaskFine, TiedFine, Tied
    <2>2. Engage(task[t].app, task[t].vault)
      BY <1>2 DEF EndShown
    <2> QED
      BY <1>1, <2>1, <2>2, EngageTypes DEF RestOK
  <1>3. CASE ~(task[t].kind = "publish" /\ task[t].wanted /\ task[t].current)
    BY <1>1, <1>3 DEF EndShown, RestOK
  <1> QED
    BY <1>2, <1>3

LEMMA PrepareFailsKeeps ==
  ASSUME StoreInv, NEW t \in Task, PrepareFails(t)
  PROVE  StoreInv'
  <1>0. TaskType /\ RestOK /\ TaskFine(t) /\ task[t] \in TaskRecord
    BY KindsAndPlaces
  <1>1. QuietStep(t)
    BY <1>0, EndFacts, QuietEnd DEF PrepareFails, EndShown
  <1>2. RestOK'
    BY <1>0, EndShownTypes DEF PrepareFails, stores, history, RestOK
  <1>3. UNCHANGED <<config, file, lock, open>>
    BY DEF PrepareFails, stores, windows
  <1> QED
    BY <1>1, <1>2, <1>3, QuietKeeps

LEMMA PublicationFailsKeeps ==
  ASSUME StoreInv, NEW t \in Task, PublicationFails(t)
  PROVE  StoreInv'
  <1>0. TaskType /\ RestOK /\ TaskFine(t) /\ task[t] \in TaskRecord
    BY KindsAndPlaces
  <1>1. QuietStep(t)
    BY <1>0, EndFacts, QuietEnd DEF PublicationFails, EndShown
  <1>2. RestOK'
    <2>1. Account_(task[t].rel) \in Account \cup {NoAccount}
      BY <1>0, AccountTypes DEF TaskRecord
    <2>2. abandoned' \subseteq Account \cup {NoAccount}
      BY <1>0, <2>1 DEF PublicationFails, RestOK
    <2> QED
      BY <2>2, EndShownTypes DEF PublicationFails, stores
  <1>3. UNCHANGED <<config, file, lock, open>>
    BY DEF PublicationFails, stores, windows
  <1> QED
    BY <1>1, <1>2, <1>3, QuietKeeps

LEMMA ConnectCheckKeeps ==
  ASSUME StoreInv, NEW t \in Task, ConnectCheck(t)
  PROVE  StoreInv'
  <1>0. TaskType /\ RestOK /\ TaskFine(t) /\ task[t] \in TaskRecord
    BY KindsAndPlaces
  <1>1. QuietStep(t)
    <2>1. MoveTo(t, "staging") \/ End(t)
      BY DEF ConnectCheck
    <2>2. CASE MoveTo(t, "staging")
      <3>1. Moved(t, "staging")
        BY <1>0, <2>2, MoveFacts DEF Place
      <3>2. "staging" \in PlacesOf(task[t].kind)
        BY <1>0 DEF ConnectCheck, Is, TaskFine, PlacesOf
      <3> QED
        BY <1>0, <3>1, <3>2, QuietMove
    <2>3. CASE End(t)
      BY <1>0, <2>3, EndFacts, QuietEnd
    <2> QED
      BY <2>1, <2>2, <2>3
  <1>2. RestOK'
    BY <1>0 DEF ConnectCheck, RestOK, stores, windows, history
  <1>3. UNCHANGED <<config, file, lock, open>>
    BY DEF ConnectCheck, stores, windows
  <1> QED
    BY <1>1, <1>2, <1>3, QuietKeeps

LEMMA ScanBindingsKeeps ==
  ASSUME StoreInv, NEW t \in Task, ScanBindings(t)
  PROVE  StoreInv'
  <1>0. TaskType /\ RestOK /\ TaskFine(t) /\ task[t] \in TaskRecord
    BY KindsAndPlaces
  <1>1. QuietStep(t)
    <2>1. MoveTo(t, "signingOut") \/ End(t)
      BY DEF ScanBindings
    <2>2. CASE MoveTo(t, "signingOut")
      <3>1. Moved(t, "signingOut")
        BY <1>0, <2>2, MoveFacts DEF Place
      <3>2. "signingOut" \in PlacesOf(task[t].kind)
        BY <1>0 DEF ScanBindings, Is, TaskFine, PlacesOf
      <3> QED
        BY <1>0, <3>1, <3>2, QuietMove
    <2>3. CASE End(t)
      BY <1>0, <2>3, EndFacts, QuietEnd
    <2> QED
      BY <2>1, <2>2, <2>3
  <1>2. RestOK'
    BY <1>0 DEF ScanBindings, RestOK, stores, windows, history
  <1>3. UNCHANGED <<config, file, lock, open>>
    BY DEF ScanBindings, stores, windows
  <1> QED
    BY <1>1, <1>2, <1>3, QuietKeeps

LEMMA ReaderFailsKeeps ==
  ASSUME StoreInv, NEW t \in Task, ReaderFails(t)
  PROVE  StoreInv'
  <1>0. TaskType /\ RestOK /\ TaskFine(t) /\ task[t] \in TaskRecord
    BY KindsAndPlaces
  <1>1. QuietStep(t)
    <2>1. End(t)
      BY DEF ReaderFails
    <2>2. CASE End(t)
      BY <1>0, <2>2, EndFacts, QuietEnd
    <2> QED
      BY <2>1, <2>2
  <1>2. RestOK'
    BY <1>0 DEF ReaderFails, RestOK, stores, windows, history
  <1>3. UNCHANGED <<config, file, lock, open>>
    BY DEF ReaderFails, stores, windows
  <1> QED
    BY <1>1, <1>2, <1>3, QuietKeeps

LEMMA SyncUploadsKeeps ==
  ASSUME StoreInv, NEW t \in Task, SyncUploads(t)
  PROVE  StoreInv'
  <1>0. TaskType /\ RestOK /\ TaskFine(t) /\ task[t] \in TaskRecord
    BY KindsAndPlaces
  <1>1. QuietStep(t)
    <2>1. MoveTo(t, "uploaded")
      BY DEF SyncUploads
    <2>2. CASE MoveTo(t, "uploaded")
      <3>1. Moved(t, "uploaded")
        BY <1>0, <2>2, MoveFacts DEF Place
      <3>2. "uploaded" \in PlacesOf(task[t].kind)
        BY <1>0 DEF SyncUploads, Is, TaskFine, PlacesOf
      <3> QED
        BY <1>0, <3>1, <3>2, QuietMove
    <2> QED
      BY <2>1, <2>2
  <1>2. RestOK'
    BY <1>0 DEF SyncUploads, RestOK, stores, windows, history
  <1>3. UNCHANGED <<config, file, lock, open>>
    BY DEF SyncUploads, stores, windows
  <1> QED
    BY <1>1, <1>2, <1>3, QuietKeeps

LEMMA CliComparesKeeps ==
  ASSUME StoreInv, NEW t \in Task, CliCompares(t)
  PROVE  StoreInv'
  <1>0. TaskType /\ RestOK /\ TaskFine(t) /\ task[t] \in TaskRecord
    BY KindsAndPlaces
  <1>1. QuietStep(t)
    <2>1. MoveTo(t, "comparing") \/ End(t)
      BY DEF CliCompares
    <2>2. CASE MoveTo(t, "comparing")
      <3>1. Moved(t, "comparing")
        BY <1>0, <2>2, MoveFacts DEF Place
      <3>2. "comparing" \in PlacesOf(task[t].kind)
        BY <1>0 DEF CliCompares, Is, TaskFine, PlacesOf
      <3> QED
        BY <1>0, <3>1, <3>2, QuietMove
    <2>3. CASE End(t)
      BY <1>0, <2>3, EndFacts, QuietEnd
    <2> QED
      BY <2>1, <2>2, <2>3
  <1>2. RestOK'
    BY <1>0 DEF CliCompares, RestOK, stores, windows, history
  <1>3. UNCHANGED <<config, file, lock, open>>
    BY DEF CliCompares, stores, windows
  <1> QED
    BY <1>1, <1>2, <1>3, QuietKeeps

LEMMA StoreReconnectKeeps ==
  ASSUME StoreInv, NEW t \in Task, StoreReconnect(t)
  PROVE  StoreInv'
  <1>0. TaskType /\ RestOK /\ TaskFine(t) /\ task[t] \in TaskRecord
    BY KindsAndPlaces
  <1>1. QuietStep(t)
    <2>1. MoveTo(t, "saving")
      BY DEF StoreReconnect
    <2>2. CASE MoveTo(t, "saving")
      <3>1. Moved(t, "saving")
        BY <1>0, <2>2, MoveFacts DEF Place
      <3>2. "saving" \in PlacesOf(task[t].kind)
        BY <1>0 DEF StoreReconnect, Is, TaskFine, PlacesOf
      <3> QED
        BY <1>0, <3>1, <3>2, QuietMove
    <2> QED
      BY <2>1, <2>2
  <1>2. RestOK'
    BY <1>0 DEF StoreReconnect, RestOK, Token, windows, history
  <1>3. UNCHANGED <<config, file, lock, open>>
    BY DEF StoreReconnect, windows
  <1> QED
    BY <1>1, <1>2, <1>3, QuietKeeps

LEMMA DeleteTokenKeeps ==
  ASSUME StoreInv, NEW t \in Task, DeleteToken(t)
  PROVE  StoreInv'
  <1>0. TaskType /\ RestOK /\ TaskFine(t) /\ task[t] \in TaskRecord
    BY KindsAndPlaces
  <1>1. QuietStep(t)
    <2>1. End(t)
      BY DEF DeleteToken
    <2>2. CASE End(t)
      BY <1>0, <2>2, EndFacts, QuietEnd
    <2> QED
      BY <2>1, <2>2
  <1>2. RestOK'
    BY <1>0 DEF DeleteToken, RestOK, Token, windows, history
  <1>3. UNCHANGED <<config, file, lock, open>>
    BY DEF DeleteToken, windows
  <1> QED
    BY <1>1, <1>2, <1>3, QuietKeeps

LEMMA EnterGateKeeps ==
  ASSUME StoreInv, NEW t \in Task, EnterGate(t)
  PROVE  StoreInv'
  <1>0. TaskType /\ RestOK /\ TaskFine(t) /\ task[t] \in TaskRecord
    BY KindsAndPlaces
  <1>1. QuietStep(t)
    <2> DEFINE place == FirstPlace(task[t].kind)
    <2>1. CASE End(t)
      BY <1>0, <2>1, EndFacts, QuietEnd
    <2>2. CASE MoveTo(t, place)
      <3>1. place \in {"storing", "deleting", "checking"} /\ place \in PlacesOf(task[t].kind)
        BY DEF EnterGate, Gated, FirstPlace, PlacesOf
      <3> HIDE DEF place
      <3>2. Moved(t, place)
        BY <1>0, <2>2, <3>1, MoveFacts DEF Place
      <3> QED
        BY <1>0, <3>1, <3>2, QuietMove
    <2> QED
      BY <2>1, <2>2 DEF EnterGate
  <1>2. RestOK'
    BY <1>0 DEF EnterGate, RestOK, stores, windows, history
  <1>3. UNCHANGED <<config, file, lock, open>>
    BY DEF EnterGate, stores, windows
  <1> QED
    BY <1>1, <1>2, <1>3, QuietKeeps

LEMMA ConnectDoneKeeps ==
  ASSUME StoreInv, NEW t \in Task, ConnectDone(t)
  PROVE  StoreInv'
  <1>0. TaskType /\ RestOK /\ TaskFine(t) /\ task[t] \in TaskRecord
    BY KindsAndPlaces
  <1>1. QuietStep(t)
    BY <1>0, EndFacts, QuietEnd DEF ConnectDone
  <1>2. RestOK'
    <2>1. task[t].rel \in Remote \cup {NoRel}
      BY <1>0 DEF TaskRecord
    <2>2. bound' \in [App -> [Vault -> Remote \cup {NoRel}]]
      BY <1>0, <2>1 DEF ConnectDone, RestOK
    <2> QED
      BY <1>0, <2>2 DEF ConnectDone, RestOK, stores, history
  <1>3. UNCHANGED <<config, file, lock, open>>
    BY DEF ConnectDone, stores
  <1> QED
    BY <1>1, <1>2, <1>3, QuietKeeps

LEMMA PublishCheckKeeps ==
  ASSUME StoreInv, NEW t \in Task, PublishCheck(t)
  PROVE  StoreInv'
  <1>0. TaskType /\ RestOK /\ TaskFine(t) /\ task[t] \in TaskRecord
    BY KindsAndPlaces
  <1>1. CASE EndShown(t)
    <2>1. QuietStep(t)
      BY <1>0, <1>1, EndFacts, QuietEnd DEF EndShown
    <2>2. RestOK'
      BY <1>0, <1>1, EndShownTypes DEF PublishCheck, stores, history, RestOK
    <2> QED
      BY <2>1, <2>2, QuietKeeps DEF PublishCheck, stores
  <1>2. CASE MoveTo(t, "saving") /\ UNCHANGED engaged
    <2>1. Moved(t, "saving")
      BY <1>0, <1>2, MoveFacts DEF Place
    <2>2. QuietStep(t)
      BY <1>0, <2>1, QuietMove DEF PublishCheck, Is, PlacesOf
    <2>3. RestOK'
      BY <1>0, <1>2 DEF PublishCheck, RestOK, stores, history
    <2> QED
      BY <2>2, <2>3, QuietKeeps DEF PublishCheck, stores
  <1> QED
    BY <1>1, <1>2 DEF PublishCheck

LEMMA PublishDoneKeeps ==
  ASSUME StoreInv, NEW t \in Task, PublishDone(t)
  PROVE  StoreInv'
  <1>0. TaskType /\ RestOK /\ TaskFine(t) /\ task[t] \in TaskRecord /\ TiedFine(t)
    BY KindsAndPlaces DEF StoreInv, WindowInv
  <1>1. UNCHANGED <<config, file, lock, open>> /\ UNCHANGED <<token, history>>
    BY DEF PublishDone, stores
  <1>2. CASE task[t].wanted /\ task[t].current
    <2>1. task[t].app \in App /\ task[t].vault \in Vault /\ task[t].vault \in open[task[t].app]
      BY <1>0, <1>2 DEF PublishDone, Is, TaskFine, TiedFine, Tied
    <2>2. Installs(t)
      BY <1>2 DEF PublishDone
    <2>3. RestOK'
      BY <1>0, <1>1, <2>1, <2>2, InstallsTypes
    <2>4. QuietStep(t)
      <3>1. CASE End(t)
        BY <1>0, <3>1, EndFacts, QuietEnd
      <3>2. CASE EndOrPush(t) /\ task[t].kind = "reconnect"
        BY <1>0, <3>2, EndOrPushFacts, QuietEnd, QuietPush
      <3> QED
        BY <1>2, <3>1, <3>2 DEF PublishDone, Is
    <2> QED
      BY <1>1, <2>3, <2>4, QuietKeeps
  <1>3. CASE ~(task[t].wanted /\ task[t].current)
    <2>1. End(t) /\ UNCHANGED <<engaged, bound>>
      BY <1>3 DEF PublishDone
    <2>2. RestOK'
      BY <1>0, <1>1, <2>1 DEF RestOK, history
    <2> QED
      BY <1>0, <1>1, <2>1, <2>2, EndFacts, QuietEnd, QuietKeeps
  <1> QED
    BY <1>2, <1>3

LEMMA RestoreDoneKeeps ==
  ASSUME StoreInv, NEW t \in Task, RestoreDone(t)
  PROVE  StoreInv'
  <1>0. TaskType /\ RestOK /\ TaskFine(t) /\ task[t] \in TaskRecord /\ TiedFine(t)
    BY KindsAndPlaces DEF StoreInv, WindowInv
  <1>1. UNCHANGED <<config, file, lock, open>> /\ UNCHANGED <<token, history>>
    BY DEF RestoreDone, stores
  <1>2. CASE task[t].current
    <2>1. task[t].app \in App /\ task[t].vault \in Vault /\ task[t].vault \in open[task[t].app]
      BY <1>0, <1>2 DEF RestoreDone, Is, TaskFine, TiedFine, Tied
    <2>2. Installs(t) /\ EndOrPush(t)
      BY <1>2 DEF RestoreDone, SessionCurrent
    <2>3. RestOK'
      BY <1>0, <1>1, <2>1, <2>2, InstallsTypes
    <2>4. QuietStep(t)
      BY <1>0, <2>2, EndOrPushFacts, QuietEnd, QuietPush DEF RestoreDone, Is
    <2> QED
      BY <1>1, <2>3, <2>4, QuietKeeps
  <1>3. CASE ~task[t].current
    <2>1. End(t) /\ UNCHANGED <<engaged, bound>>
      BY <1>3 DEF RestoreDone, SessionCurrent
    <2>2. RestOK'
      BY <1>0, <1>1, <2>1 DEF RestOK, history
    <2> QED
      BY <1>0, <1>1, <2>1, <2>2, EndFacts, QuietEnd, QuietKeeps
  <1> QED
    BY <1>2, <1>3

LEMMA DisconnectFailsKeeps ==
  ASSUME StoreInv, NEW t \in Task, DisconnectFails(t)
  PROVE  StoreInv'
  <1>0. TaskType /\ RestOK /\ TaskFine(t) /\ task[t] \in TaskRecord
    BY KindsAndPlaces
  <1>1. QuietStep(t)
    <2>1. CASE MoveTo(t, "deleting")
      <3>1. Moved(t, "deleting")
        BY <1>0, <2>1, MoveFacts DEF Place
      <3> QED
        BY <1>0, <3>1, QuietMove DEF DisconnectFails, PlacesOf
    <2>2. CASE End(t)
      BY <1>0, <2>2, EndFacts, QuietEnd
    <2> QED
      BY <2>1, <2>2 DEF DisconnectFails
  <1>2. RestOK'
    <2>1. Account_(task[t].rel) \in Account \cup {NoAccount}
      BY <1>0, AccountTypes DEF TaskRecord
    <2>2. abandoned' \subseteq Account \cup {NoAccount}
      BY <1>0, <2>1 DEF DisconnectFails, RestOK
    <2> QED
      BY <1>0, <2>2 DEF DisconnectFails, RestOK, stores, windows
  <1>3. UNCHANGED <<config, file, lock, open>>
    BY DEF DisconnectFails, stores, windows
  <1> QED
    BY <1>1, <1>2, <1>3, QuietKeeps

LEMMA CancelKeeps ==
  ASSUME StoreInv, NEW p \in App, Cancel(p)
  PROVE  StoreInv'
  <1>1. TypeOK /\ TaskType /\ RestOK
    BY TypeParts DEF StoreInv
  <1>2. task' = Abandon(p, {})
    BY DEF Cancel
  <1>3. TaskType' /\ \A u \in Task : Kept(u)
    BY <1>1, <1>2, AbandonFacts DEF TaskType
  <1>4. TaskInv'
    BY <1>3 DEF StoreInv, TaskInv, TaskFine, Kept
  <1>5. UNCHANGED <<config, file, lock, open>> /\ UNCHANGED <<token, bound, history>>
    BY DEF Cancel, stores
  <1>6. StagedInv' /\ WindowInv' /\ WriterInv'
    <2>1. \A u \in Task : ClaimsKept(u)
      BY <1>3, KeptKeepClaims
    <2>2. BindingFree'
      BY <1>5, <2>1, BindingFreeKept DEF StoreInv, ClaimsKept
    <2> QED
      BY <1>5, <2>1, <2>2, QuietFrame DEF StoreInv
  <1>7. RestOK'
    BY <1>1, <1>5 DEF Cancel, RestOK, history
  <1>8. TypeOK'
    BY <1>1, <1>3, <1>5, <1>7 DEF TypeOK, TaskType, RestOK
  <1>9. BoundVaultHasFile'
    BY <1>5 DEF StoreInv, BoundVaultHasFile
  <1> QED
    BY <1>4, <1>6, <1>8, <1>9 DEF StoreInv

-----------------------------------------------------------------------------
(* Reading configurations and tokens. *)

LEMMA LoadConfigKeeps ==
  ASSUME StoreInv, NEW t \in Task, LoadConfig(t)
  PROVE  StoreInv'
  <1>0. TaskType /\ RestOK /\ TaskFine(t) /\ task[t] \in TaskRecord
    BY KindsAndPlaces
  <1>1. UNCHANGED <<config, file, lock, open>> /\ UNCHANGED <<token, bound, history>>
    BY DEF LoadConfig, stores
  <1> DEFINE r == config[task[t].vault]
             place == IF SharePoint(r) THEN "refreshing" ELSE "refreshed"
  <1>2. task[t].kind \in {"restore", "cli"} /\ task[t].vault \in Vault
    BY <1>0 DEF LoadConfig, TaskFine, PlacesOf
  <1>3. CASE r = NoRel
    <2>1. End(t) /\ Disengage(t)
      BY <1>3 DEF LoadConfig
    <2>2. RestOK'
      BY <1>0, <1>1, <2>1 DEF RestOK, Disengage, history
    <2> QED
      BY <1>0, <1>1, <2>1, <2>2, EndFacts, QuietEnd, QuietKeeps
  <1>4. CASE r # NoRel
    <2>1. task' = [task EXCEPT ![t].rel = r, ![t].at = place] /\ UNCHANGED engaged
      BY <1>4 DEF LoadConfig
    <2>2. /\ r \in Remote \cup {NoRel} /\ place \in {"refreshing", "refreshed"}
          /\ place = "refreshing" => SharePoint(r)
      BY <1>2 DEF StoreInv, TypeOK
    <2>3. r # NoRel /\ task[t].vault \in file
      BY <1>2, <1>4 DEF StoreInv, BoundVaultHasFile
    <2>4. \A u \in Task : Staged(u) => task[u].vault # task[t].vault
      BY <1>4, StoreAssumption DEF LoadConfig, Free, StoreInv, StagedInv, Staged
    <2> HIDE DEF r, place
    <2>5. [task[t] EXCEPT !.rel = r, !.at = place] \in TaskRecord
      BY <1>0, <2>2 DEF TaskRecord, Place
    <2>6. task' = [task EXCEPT ![t] = [task[t] EXCEPT !.rel = r, !.at = place]]
      BY <1>0, <2>1 DEF TaskType, TaskRecord
    <2>7. TaskType' /\ OthersKept(t) /\ task'[t] = [task[t] EXCEPT !.rel = r, !.at = place]
      BY <1>0, <2>5, <2>6 DEF TaskType, OthersKept
    <2>8. /\ task'[t].kind = task[t].kind /\ task'[t].app = task[t].app
          /\ task'[t].vault = task[t].vault /\ task'[t].current = task[t].current
          /\ task'[t].at = place /\ task'[t].rel = r
      BY <1>0, <2>7 DEF TaskRecord
    <2>9. TaskFine(t)'
      BY <1>0, <1>2, <2>2, <2>8 DEF TaskFine, PlacesOf
    <2>10. StagedKept(t) /\ TiedKept(t)
      BY <2>2, <2>8 DEF StagedKept, Staged, TiedKept
    <2>11. \A u \in Task : StagedKept(u)
      BY <2>7, <2>10 DEF OthersKept, StagedKept, Staged
    <2>12. WriterFine(t)'
      BY <1>1, <2>3, <2>4, <2>8, <2>11 DEF WriterFine, StagedKept
    <2>13. TiedFine(t)'
      BY <1>1, <2>10 DEF TiedKept, TiedFine, StoreInv, WindowInv
    <2>14. BindingFree'
      BY <1>1, <2>11, BindingFreeKept DEF StoreInv
    <2>15. StagedInv' /\ WindowInv' /\ WriterInv'
      BY <1>1, <2>7, <2>10, <2>12, <2>13, <2>14, OthersKeepClaims, Frame DEF StoreInv
    <2>16. RestOK'
      BY <1>0, <1>1, <2>1 DEF RestOK, history
    <2>17. TypeOK'
      BY <1>1, <2>7, <2>16 DEF StoreInv, TypeOK, TaskType, RestOK
    <2>18. TaskInv' /\ BoundVaultHasFile'
      BY <1>1, <2>7, <2>9, TaskInvKept DEF StoreInv, BoundVaultHasFile
    <2> QED
      BY <2>15, <2>17, <2>18 DEF StoreInv
  <1> QED
    BY <1>3, <1>4

\* A task that fetches or drops a token keeps everything else but its place.
Fetched(t, tok, place) ==
  /\ TaskType'
  /\ OthersKept(t)
  /\ SameTask(t)
  /\ task'[t].at = place
  /\ task'[t].got = tok

LEMMA FetchFacts ==
  ASSUME TaskType, NEW t \in Task, NEW tok \in Token \cup {NoToken}, NEW place \in Place,
         task' = [task EXCEPT ![t].got = tok, ![t].at = place]
         \/ task' = [task EXCEPT ![t].at = place, ![t].got = tok]
  PROVE  Fetched(t, tok, place)
  <1>1. task[t] \in TaskRecord
    BY DEF TaskType
  <1>2. [task[t] EXCEPT !.got = tok, !.at = place] \in TaskRecord
    BY <1>1 DEF TaskRecord
  <1>3. task' = [task EXCEPT ![t] = [task[t] EXCEPT !.got = tok, !.at = place]]
    BY <1>1 DEF TaskType, TaskRecord
  <1>4. TaskType' /\ OthersKept(t) /\ task'[t] = [task[t] EXCEPT !.got = tok, !.at = place]
    BY <1>2, <1>3 DEF TaskType, OthersKept
  <1> QED
    BY <1>1, <1>4 DEF Fetched, SameTask, TaskRecord

LEMMA QuietFetch ==
  ASSUME NEW t \in Task, NEW tok, NEW place, Fetched(t, tok, place), TaskFine(t),
         place \in PlacesOf(task[t].kind), place \notin {"binding", "signing"},
         place # "refreshing",
         place = "exchanging" => tok # NoToken /\ SharePoint(task[t].rel)
  PROVE  QuietStep(t)
  <1>1. TaskFine(t)'
    BY DEF TaskFine, Fetched, SameTask
  <1>2. ClaimsKept(t)
    BY DEF Fetched, SameTask, ClaimsKept, StagedKept, TiedKept, WriterKept, Staged, Writes
  <1> QED
    BY <1>1, <1>2 DEF QuietStep, Fetched

\* The token of a task that needs one.
LEMMA TokenTypes ==
  ASSUME StoreInv, NEW t \in Task, SharePoint(task[t].rel)
  PROVE  /\ AccountOf[task[t].rel] \in Account
         /\ token[AccountOf[task[t].rel]] \in Token \cup {NoToken}
  <1>1. task[t].rel \in Remote \cup {NoRel}
    BY KindsAndPlaces DEF TaskRecord
  <1>2. AccountOf[task[t].rel] \in Account
    BY <1>1, StoreAssumption DEF SharePoint, Account_
  <1> QED
    BY <1>2 DEF StoreInv, TypeOK

LEMMA LoadTokenKeeps ==
  ASSUME StoreInv, NEW t \in Task, LoadToken(t)
  PROVE  StoreInv'
  <1>0. TaskType /\ RestOK /\ TaskFine(t) /\ task[t] \in TaskRecord
    BY KindsAndPlaces
  <1>1. SharePoint(task[t].rel)
    BY <1>0 DEF LoadToken, TaskFine
  <1> DEFINE tok == token[AccountOf[task[t].rel]]
  <1>2. tok \in Token \cup {NoToken}
    BY <1>1, TokenTypes
  <1>3. QuietStep(t)
    <2>1. CASE End(t)
      BY <1>0, <2>1, EndFacts, QuietEnd
    <2>2. CASE tok # NoToken
                /\ task' = [task EXCEPT ![t].got = tok, ![t].at = "exchanging"]
      <3> HIDE DEF tok
      <3>1. Fetched(t, tok, "exchanging")
        BY <1>0, <1>2, <2>2, FetchFacts DEF Place
      <3>2. "exchanging" \in PlacesOf(task[t].kind)
        BY <1>0 DEF LoadToken, TaskFine, PlacesOf
      <3> QED
        BY <1>0, <1>1, <2>2, <3>1, <3>2, QuietFetch
    <2> QED
      BY <2>1, <2>2 DEF LoadToken
  <1>4. RestOK'
    BY <1>0 DEF LoadToken, RestOK, stores, windows, history
  <1>5. UNCHANGED <<config, file, lock, open>>
    BY DEF LoadToken, stores, windows
  <1> QED
    BY <1>3, <1>4, <1>5, QuietKeeps

LEMMA ReplacedTypes ==
  ASSUME TaskType, NEW t \in Task, NEW tok \in Token \cup {NoToken}, task[t].got # NoToken
  PROVE  /\ Replaced(t, tok) \in Token \cup {NoToken}
         /\ Replaced(t, tok) # tok =>
              tok # NoToken /\ Replaced(t, tok).signIn = tok.signIn
  <1>1. task[t].got \in Token
    BY DEF TaskType, TaskRecord
  <1>2. [task[t].got EXCEPT !.by = t] \in Token
    BY <1>1 DEF Token
  <1>3. [task[t].got EXCEPT !.by = t].signIn = task[t].got.signIn
    BY <1>1 DEF Token
  <1> QED
    BY <1>2, <1>3 DEF Replaced

LEMMA ExchangeKeeps ==
  ASSUME StoreInv, NEW t \in Task, Exchange(t)
  PROVE  StoreInv'
  <1>0. TaskType /\ RestOK /\ TaskFine(t) /\ task[t] \in TaskRecord
    BY KindsAndPlaces
  <1>1. SharePoint(task[t].rel) /\ task[t].got # NoToken
    BY <1>0 DEF Exchange, TaskFine
  <1>2. QuietStep(t)
    <2>1. Fetched(t, NoToken, "refreshed")
      BY <1>0, FetchFacts DEF Exchange, Place
    <2>2. "refreshed" \in PlacesOf(task[t].kind)
      BY <1>0 DEF Exchange, TaskFine, PlacesOf
    <2> QED
      BY <1>0, <2>1, <2>2, QuietFetch
  <1>3. token' \in [Account -> Token \cup {NoToken}]
    <2> DEFINE a == AccountOf[task[t].rel]
    <2>1. a \in Account /\ token[a] \in Token \cup {NoToken}
      BY <1>1, TokenTypes
    <2>2. Replaced(t, token[a]) \in Token \cup {NoToken}
      BY <1>0, <1>1, <2>1, ReplacedTypes
    <2> QED
      BY <1>0, <2>1, <2>2 DEF Exchange, RestOK
  <1>4. RestOK'
    BY <1>0, <1>3 DEF Exchange, RestOK, windows, history
  <1>5. UNCHANGED <<config, file, lock, open>>
    BY DEF Exchange, windows
  <1> QED
    BY <1>2, <1>4, <1>5, QuietKeeps

-----------------------------------------------------------------------------
(* Writing configurations. *)

LEMMA WriteKeeps ==
  ASSUME StoreInv, NEW t \in Task, QuietStep(t), RestOK', UNCHANGED <<file, lock, open>>,
         NEW v \in Vault, NEW r \in Remote \cup {NoRel},
         config' = [config EXCEPT ![v] = r],
         r # NoRel => v \in file /\ \A u \in Task : Staged(u) => task[u].vault # v
  PROVE  StoreInv'
  <1>1. TypeOK'
    BY DEF StoreInv, QuietStep, TypeOK, TaskType, RestOK
  <1>2. TaskInv'
    BY TaskInvKept DEF StoreInv, QuietStep
  <1>3. \A u \in Task : ClaimsKept(u)
    BY OthersKeepClaims DEF QuietStep
  <1>4. BindingFree'
    <2>1. ASSUME NEW u \in Task, task'[u].at = "binding"
          PROVE  config'[task'[u].vault] = NoRel
      <3>1. StagedKept(u)
        BY <1>3 DEF ClaimsKept
      <3>2. Staged(u) /\ task[u].at = "binding" /\ task'[u].vault = task[u].vault
        BY <2>1, <3>1 DEF StagedKept, Staged
      <3>3. config[task[u].vault] = NoRel
        BY <3>2 DEF StoreInv, StagedInv
      <3> QED
        BY <3>2, <3>3 DEF StoreInv, TypeOK
    <2> QED
      BY <2>1 DEF BindingFree
  <1>5. StagedInv' /\ WindowInv' /\ WriterInv'
    BY <1>3, <1>4, QuietFrame DEF StoreInv
  <1>6. BoundVaultHasFile'
    BY DEF StoreInv, BoundVaultHasFile, TypeOK
  <1> QED
    BY <1>1, <1>2, <1>5, <1>6 DEF StoreInv

\* An open vault exists and nobody stages it; the same holds of what a writer
\* writes.
LEMMA OpenVaultFree ==
  ASSUME StoreInv, NEW p \in App, NEW v \in open[p]
  PROVE  v \in Vault /\ v \in file /\ \A u \in Task : Staged(u) => task[u].vault # v
  BY DEF StoreInv, WindowInv, TypeOK

LEMMA WrittenVaultFree ==
  ASSUME StoreInv, NEW t \in Task, task[t].kind \in {"publish", "reconnect", "restore", "sync", "cli"}
  PROVE  /\ task[t].vault \in Vault
         /\ task[t].rel \in Remote \cup {NoRel}
         /\ task[t].rel # NoRel =>
              /\ task[t].vault \in file
              /\ \A u \in Task : Staged(u) => task[u].vault # task[t].vault
  <1>1. TaskFine(t) /\ task[t] \in TaskRecord
    BY KindsAndPlaces
  <1>2. task[t].vault \in Vault /\ task[t].rel \in Remote \cup {NoRel}
    BY <1>1 DEF TaskFine, TaskRecord
  <1> QED
    BY <1>2 DEF StoreInv, WriterInv, WriterFine, Writes

LEMMA TakesTypes ==
  ASSUME RestOK, NEW v \in Vault, NEW r \in Remote \cup {NoRel}, Takes(v, r)
  PROVE  live' \in [Vault -> Remote \cup {NoRel}]
  BY DEF RestOK, Takes

LEMMA SaveConfigKeeps ==
  ASSUME StoreInv, NEW t \in Task, SaveConfig(t)
  PROVE  StoreInv'
  <1>0. TaskType /\ RestOK /\ TaskFine(t) /\ task[t] \in TaskRecord
    BY KindsAndPlaces
  <1>1. task[t].kind \in {"publish", "reconnect"}
    BY DEF SaveConfig, Is
  <1>2. QuietStep(t)
    <2>1. Moved(t, "landed")
      BY <1>0, MoveFacts DEF SaveConfig, Place
    <2> QED
      BY <1>0, <1>1, <2>1, QuietMove DEF PlacesOf
  <1>3. RestOK'
    <2>1. live' \in [Vault -> Remote \cup {NoRel}]
      BY <1>0, <1>1, WrittenVaultFree, TakesTypes DEF SaveConfig
    <2> QED
      BY <1>0, <2>1 DEF SaveConfig, RestOK, windows
  <1>4. config' = [config EXCEPT ![task[t].vault] = task[t].rel] /\ UNCHANGED <<file, lock, open>>
    BY DEF SaveConfig, windows
  <1> QED
    BY <1>1, <1>2, <1>3, <1>4, WrittenVaultFree, WriteKeeps

LEMMA DeleteConfigKeeps ==
  ASSUME StoreInv, NEW t \in Task, DeleteConfig(t)
  PROVE  StoreInv'
  <1>0. TaskType /\ RestOK /\ TaskFine(t) /\ task[t] \in TaskRecord
    BY KindsAndPlaces
  <1>1. QuietStep(t)
    <2>1. Moved(t, "scanning")
      BY <1>0, MoveFacts DEF DeleteConfig, Place
    <2> QED
      BY <1>0, <2>1, QuietMove DEF DeleteConfig, Is, PlacesOf
  <1>2. RestOK'
    BY <1>0 DEF DeleteConfig, RestOK, windows, history
  <1>3. task[t].vault \in Vault
    BY <1>0 DEF DeleteConfig, Is, TaskFine
  <1>4. config' = [config EXCEPT ![task[t].vault] = NoRel] /\ UNCHANGED <<file, lock, open>>
    BY DEF DeleteConfig, windows
  <1> QED
    BY <1>1, <1>2, <1>3, <1>4, WriteKeeps

LEMMA WriteBackTypes ==
  ASSUME RestOK, NEW t \in Task, task[t].vault \in Vault, NEW r, WriteBack(t, r)
  PROVE  revived' \subseteq Vault
  BY DEF RestOK, WriteBack

LEMMA RestoreSavesKeeps ==
  ASSUME StoreInv, NEW t \in Task, RestoreSaves(t)
  PROVE  StoreInv'
  <1>0. TaskType /\ RestOK /\ TaskFine(t) /\ task[t] \in TaskRecord
    BY KindsAndPlaces
  <1>1. QuietStep(t)
    <2>1. Moved(t, "restored")
      BY <1>0, MoveFacts DEF RestoreSaves, Place
    <2> QED
      BY <1>0, <2>1, QuietMove DEF RestoreSaves, Is, PlacesOf
  <1>2. UNCHANGED <<file, lock, open>>
    BY DEF RestoreSaves, windows
  <1>3. CASE WriteBack(t, task[t].rel)
    <2>1. /\ task[t].vault \in Vault /\ task[t].rel \in Remote \cup {NoRel}
          /\ task[t].rel # NoRel =>
               /\ task[t].vault \in file
               /\ \A u \in Task : Staged(u) => task[u].vault # task[t].vault
      BY WrittenVaultFree DEF RestoreSaves, Is
    <2>2. RestOK'
      BY <1>0, <1>3, <2>1, WriteBackTypes DEF RestoreSaves, RestOK, windows
    <2> QED
      BY <1>1, <1>2, <1>3, <2>1, <2>2, WriteKeeps DEF WriteBack
  <1>4. CASE UNCHANGED <<config, revived>>
    <2>1. RestOK'
      BY <1>0, <1>4 DEF RestoreSaves, RestOK, windows
    <2> QED
      BY <1>1, <1>2, <1>4, <2>1, QuietKeeps
  <1> QED
    BY <1>3, <1>4 DEF RestoreSaves

LEMMA SyncDoneKeeps ==
  ASSUME StoreInv, NEW t \in Task, SyncDone(t)
  PROVE  StoreInv'
  <1>0. TaskType /\ RestOK /\ TaskFine(t) /\ task[t] \in TaskRecord /\ TiedFine(t)
    BY KindsAndPlaces DEF StoreInv, WindowInv
  <1> DEFINE r == bound[task[t].app][task[t].vault]
  <1>1. QuietStep(t)
    BY <1>0, EndFacts, EndOrPushFacts, QuietEnd, QuietPush DEF SyncDone, Is
  <1>2. UNCHANGED <<file, lock, open>>
    BY DEF SyncDone, windows
  <1>3. CASE UNCHANGED <<config, revived>>
    <2>1. RestOK'
      BY <1>0, <1>3 DEF SyncDone, RestOK, windows
    <2> QED
      BY <1>1, <1>2, <1>3, <2>1, QuietKeeps
  <1>4. CASE task[t].current /\ WriteBack(t, r)
    <2>1. task[t].app \in App /\ task[t].vault \in open[task[t].app]
      BY <1>0, <1>4 DEF SyncDone, Is, TaskFine, TiedFine, Tied
    <2>2. /\ task[t].vault \in Vault /\ task[t].vault \in file
          /\ \A u \in Task : Staged(u) => task[u].vault # task[t].vault
      BY <2>1, OpenVaultFree
    <2>3. r \in Remote \cup {NoRel}
      BY <1>0, <2>1, <2>2 DEF RestOK
    <2>4. RestOK'
      BY <1>0, <1>4, <2>2, WriteBackTypes DEF SyncDone, RestOK, windows
    <2> QED
      BY <1>1, <1>2, <1>4, <2>2, <2>3, <2>4, WriteKeeps DEF WriteBack
  <1> QED
    BY <1>3, <1>4 DEF SyncDone, SessionCurrent

LEMMA CliSavesKeeps ==
  ASSUME StoreInv, NEW t \in Task, CliSaves(t)
  PROVE  StoreInv'
  <1>0. TaskType /\ RestOK /\ TaskFine(t) /\ task[t] \in TaskRecord
    BY KindsAndPlaces
  <1>1. QuietStep(t)
    BY <1>0, EndFacts, QuietEnd DEF CliSaves
  <1>2. task[t].vault \in Vault
    BY <1>0 DEF CliSaves, Is, TaskFine
  <1>3. config' = config
    BY <1>2 DEF CliSaves, StillBound, BindingIsStill, StoreInv, TypeOK
  <1>4. RestOK'
    BY <1>0 DEF CliSaves, RestOK, windows, history
  <1> QED
    BY <1>1, <1>3, <1>4, QuietKeeps DEF CliSaves, windows

-----------------------------------------------------------------------------
(* Connecting: the staged vault, its configuration, its token. *)

\* The facts about a step of a connect that stays one.
LEMMA ConnectMove ==
  ASSUME StoreInv, NEW t \in Task, task[t].kind = "connect",
         NEW place \in {"binding", "signing", "landed"}, MoveTo(t, place)
  PROVE  /\ Moved(t, place)
         /\ task[t].vault \in Vault
         /\ TaskInv'
         /\ TiedFine(t)' /\ WriterFine(t)'
         /\ \A u \in Task \ {t} : ClaimsKept(u)
  <1>0. TaskType /\ TaskFine(t) /\ task[t] \in TaskRecord
    BY KindsAndPlaces
  <1>1. Moved(t, place)
    BY <1>0, MoveFacts DEF Place
  <1>2. TaskFine(t)'
    BY <1>0, <1>1 DEF Moved, SameTask, TaskFine, PlacesOf
  <1>3. TaskInv'
    BY <1>1, <1>2, TaskInvKept DEF StoreInv, Moved
  <1>4. TiedFine(t)' /\ WriterFine(t)'
    BY <1>1 DEF Moved, SameTask, TiedFine, WriterFine, Writes, Tied
  <1>5. \A u \in Task \ {t} : ClaimsKept(u)
    BY <1>1, OthersKeepClaims DEF Moved
  <1> QED
    BY <1>0, <1>1, <1>3, <1>4, <1>5 DEF TaskFine

LEMMA StageVaultKeeps ==
  ASSUME StoreInv, NEW t \in Task, StageVault(t)
  PROVE  StoreInv'
  <1>0. TaskType /\ RestOK /\ TaskFine(t) /\ task[t] \in TaskRecord
    BY KindsAndPlaces
  <1>1. UNCHANGED <<config, token, lock, windows, history>> /\ Is(t, "connect", "staging")
    BY DEF StageVault
  <1>2. RestOK'
    BY <1>0, <1>1 DEF RestOK, windows, history
  <1>3. CASE End(t) /\ UNCHANGED file
    BY <1>0, <1>1, <1>2, <1>3, EndFacts, QuietEnd, QuietKeeps DEF windows
  <1>4. CASE task[t].vault \notin file /\ MoveTo(t, "binding")
              /\ file' = file \cup {task[t].vault}
    <2> DEFINE v == task[t].vault
    <2>1. /\ Moved(t, "binding") /\ v \in Vault /\ TaskInv'
          /\ \A u \in Task \ {t} : ClaimsKept(u)
      BY <1>1, <1>4, ConnectMove DEF Is
    <2>2. task'[t].kind = "connect" /\ task'[t].vault = v /\ task'[t].at = "binding"
      BY <1>1, <2>1 DEF Moved, SameTask, Is
    <2>3. TypeOK'
      BY <1>1, <1>2, <1>4, <2>1 DEF StoreInv, TypeOK, Moved, TaskType, RestOK, windows
    <2>4. BoundVaultHasFile'
      BY <1>1, <1>4 DEF StoreInv, BoundVaultHasFile
    <2>5. config[v] = NoRel
      BY <1>4, <2>1 DEF StoreInv, BoundVaultHasFile
    <2>6. \A u \in Task : Staged(u) => task[u].vault # v
      BY <1>4 DEF StoreInv, StagedInv
    <2>7. \A u \in Task \ {t} : StagedKept(u)
      BY <2>1 DEF ClaimsKept
    <2>8. StagedInv'
      BY <1>1, <1>4, <2>2, <2>5, <2>6, <2>7 DEF StoreInv, StagedInv, StagedKept, Staged
    <2>9. \A p \in App : v \notin open[p] /\ open'[p] = open[p]
      BY <1>1, <1>4 DEF StoreInv, WindowInv, windows
    <2>10. ASSUME NEW u \in Task PROVE TiedFine(u)' /\ WriterFine(u)'
      <3>1. CASE u = t
        BY <3>1, <2>2 DEF TiedFine, WriterFine, Writes, Tied
      <3>2. CASE u # t
        <4>1. TiedKept(u) /\ WriterKept(u)
          BY <2>1, <3>2 DEF ClaimsKept
        <4>2. TiedFine(u)'
          BY <1>1, <4>1 DEF StoreInv, WindowInv, TiedKept, TiedFine, windows
        <4>3. WriterFine(u) /\ (Writes(u) => task[u].vault # v)
          BY <1>4 DEF StoreInv, WriterInv, WriterFine
        <4>4. WriterFine(u)'
          BY <1>4, <2>2, <2>7, <4>1, <4>3 DEF WriterKept, WriterFine, StagedKept
        <4> QED
          BY <4>2, <4>4
      <3> QED
        BY <3>1, <3>2
    <2>11. WindowInv'
      BY <1>4, <2>2, <2>7, <2>9, <2>10 DEF StoreInv, WindowInv, StagedKept
    <2>12. WriterInv'
      BY <2>10 DEF WriterInv
    <2> QED
      BY <2>1, <2>3, <2>4, <2>8, <2>11, <2>12 DEF StoreInv
  <1> QED
    BY <1>3, <1>4 DEF StageVault

LEMMA SaveBindingKeeps ==
  ASSUME StoreInv, NEW t \in Task, SaveBinding(t)
  PROVE  StoreInv'
  <1>0. TaskType /\ RestOK /\ TaskFine(t) /\ task[t] \in TaskRecord
    BY KindsAndPlaces
  <1> DEFINE v == task[t].vault
  <1>1. /\ UNCHANGED <<token, file, windows, revived, abandoned>> /\ Is(t, "connect", "binding")
        /\ lock = NoTask /\ config' = [config EXCEPT ![v] = task[t].rel]
    BY DEF SaveBinding, Free
  <1>2. PICK place \in {"signing", "landed"} :
          MoveTo(t, place) /\ lock' = IF place = "signing" THEN t ELSE lock
    BY DEF SaveBinding
  <1>3. /\ Moved(t, place) /\ v \in Vault /\ TaskInv'
        /\ TiedFine(t)' /\ WriterFine(t)'
        /\ \A u \in Task \ {t} : ClaimsKept(u)
    BY <1>1, <1>2, ConnectMove DEF Is
  <1>4. task[t].rel \in Remote \cup {NoRel}
    BY <1>0 DEF TaskRecord
  <1>5. live' \in [Vault -> Remote \cup {NoRel}]
    BY <1>0, <1>3, <1>4, TakesTypes DEF SaveBinding, RestOK
  <1>6. TypeOK'
    BY <1>1, <1>2, <1>3, <1>4, <1>5 DEF StoreInv, TypeOK, Moved, TaskType, windows
  <1>7. v \in file /\ \A u \in Task : Staged(u) /\ task[u].vault = v => u = t
    BY <1>1 DEF StoreInv, StagedInv, Staged, Is
  <1>8. BoundVaultHasFile'
    BY <1>1, <1>3, <1>7 DEF StoreInv, BoundVaultHasFile, TypeOK
  <1>9. \A u \in Task : task[u].at # "signing"
    BY <1>1, StoreAssumption DEF StoreInv, StagedInv, Staged
  <1>10. \A u \in Task \ {t} : StagedKept(u)
    BY <1>3 DEF ClaimsKept
  <1>11. task'[t].at = place /\ task'[t].vault = v
    BY <1>3 DEF Moved, SameTask
  <1>12. StagedInv'
    <2>1. ASSUME NEW u \in Task, u # t, Staged(u)'
          PROVE  /\ task'[u].vault = task[u].vault /\ task[u].vault # v
                 /\ Staged(u) /\ task'[u].at = "binding"
                 /\ task'[u].vault \in file' /\ config'[task'[u].vault] = NoRel
      BY <1>1, <1>7, <1>9, <1>10, <2>1 DEF StoreInv, StagedInv, StagedKept, Staged, TypeOK
    <2>2. ASSUME Staged(t)'
          PROVE  v \in file' /\ task'[t].at = "signing" /\ lock' = t
      BY <1>1, <1>2, <1>7, <1>11, <2>2 DEF Staged
    <2>3. ASSUME NEW u \in Task, NEW w \in Task, u # t, Staged(u)', Staged(w)',
                 task'[u].vault = task'[w].vault
          PROVE  u = w
      BY <1>11, <2>1, <2>3 DEF StoreInv, StagedInv
    <2> QED
      BY <1>11, <2>1, <2>2, <2>3 DEF StagedInv
  <1>13. \A u \in Task : Staged(u)' => Staged(u) /\ task'[u].vault = task[u].vault
    BY <1>1, <1>10, <1>11 DEF StagedKept, Staged, Is
  <1>14. ASSUME NEW u \in Task PROVE TiedFine(u)' /\ WriterFine(u)'
    <2>1. CASE u = t
      BY <1>3, <2>1
    <2>2. CASE u # t
      <3>1. TiedKept(u) /\ WriterKept(u)
        BY <1>3, <2>2 DEF ClaimsKept
      <3>2. TiedFine(u)'
        BY <1>1, <3>1 DEF StoreInv, WindowInv, TiedKept, TiedFine, windows
      <3>3. WriterFine(u)'
        BY <1>1, <1>13, <3>1 DEF StoreInv, WriterInv, WriterKept, WriterFine
      <3> QED
        BY <3>2, <3>3
    <2> QED
      BY <2>1, <2>2
  <1>15. WindowInv'
    BY <1>1, <1>13, <1>14 DEF StoreInv, WindowInv, windows
  <1>16. WriterInv'
    BY <1>14 DEF WriterInv
  <1> QED
    BY <1>3, <1>6, <1>8, <1>12, <1>15, <1>16 DEF StoreInv

\* A connect that lets go of its staged vault, kept or removed.
LEMMA UnstageKeeps ==
  ASSUME StoreInv, NEW t \in Task, Staged(t), ~Staged(t)', task[t].vault \in Vault,
         QuietStep(t), RestOK', UNCHANGED open,
         file' \in {file, file \ {task[t].vault}},
         \/ UNCHANGED config
         \/ config' = [config EXCEPT ![task[t].vault] = NoRel],
         file' # file => config'[task[t].vault] = NoRel,
         lock' = lock \/ (task[t].at = "signing" /\ lock' = NoTask)
  PROVE  StoreInv'
  <1> DEFINE v == task[t].vault
  <1>1. \A w \in Vault : w # v => config'[w] = config[w] /\ (w \in file' <=> w \in file)
    BY DEF StoreInv, TypeOK
  <1>2. TypeOK'
    BY DEF StoreInv, QuietStep, TypeOK, TaskType, RestOK
  <1>3. TaskInv'
    BY TaskInvKept DEF StoreInv, QuietStep
  <1>4. \A u \in Task : ClaimsKept(u)
    BY OthersKeepClaims DEF QuietStep
  <1>5. \A u \in Task : StagedKept(u)
    BY <1>4 DEF ClaimsKept
  <1>6. ASSUME NEW u \in Task, Staged(u)'
        PROVE  /\ Staged(u) /\ u # t
               /\ task'[u].vault = task[u].vault /\ task'[u].at = task[u].at
               /\ task[u].vault # v /\ task[u].vault \in Vault
    <2>1. Staged(u) /\ u # t /\ task'[u].vault = task[u].vault /\ task'[u].at = task[u].at
      BY <1>5, <1>6 DEF StagedKept
    <2>2. task[u].vault # v
      BY <2>1 DEF StoreInv, StagedInv
    <2>3. task[u].vault \in Vault
      BY <2>1 DEF StoreInv, StagedInv, TypeOK
    <2> QED
      BY <2>1, <2>2, <2>3
  <1>7. ASSUME NEW u \in Task, Staged(u)'
        PROVE  /\ task'[u].vault \in file'
               /\ task'[u].at = "binding" => config'[task'[u].vault] = NoRel
               /\ task'[u].at = "signing" => lock' = u
    BY <1>1, <1>6, <1>7 DEF StoreInv, StagedInv, Staged
  <1>8. ASSUME NEW u \in Task, NEW w \in Task, Staged(u)', Staged(w)',
               task'[u].vault = task'[w].vault
        PROVE  u = w
    BY <1>6, <1>8 DEF StoreInv, StagedInv
  <1>9. StagedInv'
    BY <1>7, <1>8 DEF StagedInv
  <1>10. \A p \in App : v \notin open[p]
    BY DEF StoreInv, WindowInv
  <1>11. ASSUME NEW u \in Task
         PROVE  TiedFine(u)' /\ WriterFine(u)'
    <2>1. TiedKept(u) /\ WriterKept(u)
      BY <1>4 DEF ClaimsKept
    <2>2. TiedFine(u)'
      BY <2>1 DEF StoreInv, WindowInv, TiedKept, TiedFine
    <2>3. Writes(u) => task[u].vault # v /\ task[u].vault \in file
      BY DEF StoreInv, WriterInv, WriterFine
    <2>4. WriterFine(u)'
      BY <1>6, <2>1, <2>3 DEF StoreInv, WriterInv, WriterKept, WriterFine
    <2> QED
      BY <2>2, <2>4
  <1>12. WindowInv'
    BY <1>6, <1>10, <1>11 DEF StoreInv, WindowInv
  <1>13. WriterInv'
    BY <1>11 DEF WriterInv
  <1>14. BoundVaultHasFile'
    BY <1>1 DEF StoreInv, BoundVaultHasFile, StagedInv, TypeOK
  <1> QED
    BY <1>2, <1>3, <1>9, <1>12, <1>13, <1>14 DEF StoreInv

\* A connect at one of these places has staged a vault; one that ended has not.
LEMMA StagedByConnect ==
  ASSUME StoreInv, NEW t \in Task, Is(t, "connect", "binding") \/ Is(t, "connect", "signing")
  PROVE  /\ Staged(t) /\ task[t].vault \in Vault /\ TaskType /\ RestOK
         /\ End(t) => QuietStep(t) /\ ~Staged(t)'
  <1>1. TaskType /\ RestOK /\ TaskFine(t)
    BY KindsAndPlaces
  <1>2. ASSUME End(t)
        PROVE  QuietStep(t) /\ ~Staged(t)'
    BY <1>1, <1>2, EndFacts, QuietEnd, EndedFacts DEF Gone, Staged
  <1> QED
    BY <1>1, <1>2 DEF Is, TaskFine, Staged

LEMMA BindingFailsKeeps ==
  ASSUME StoreInv, NEW t \in Task, BindingFails(t)
  PROVE  StoreInv'
  <1>1. /\ Staged(t) /\ task[t].vault \in Vault /\ RestOK
        /\ QuietStep(t) /\ ~Staged(t)'
    BY StagedByConnect DEF BindingFails, RollBack
  <1>2. /\ UNCHANGED <<config, token, lock, windows, history>>
        /\ file' = file \ {task[t].vault} /\ task[t].at = "binding"
    BY DEF BindingFails, RollBack, Is
  <1>3. config[task[t].vault] = NoRel
    BY <1>1, <1>2 DEF StoreInv, StagedInv
  <1>4. RestOK'
    BY <1>1, <1>2 DEF RestOK, windows, history
  <1> QED
    BY <1>1, <1>2, <1>3, <1>4, UnstageKeeps DEF windows

LEMMA SignInFailsKeeps ==
  ASSUME StoreInv, NEW t \in Task, SignInFails(t)
  PROVE  StoreInv'
  <1>1. /\ Staged(t) /\ task[t].vault \in Vault /\ RestOK
        /\ QuietStep(t) /\ ~Staged(t)'
    BY StagedByConnect DEF SignInFails, RollBack
  <1>2. /\ UNCHANGED <<token, windows, history>>
        /\ lock' = NoTask /\ task[t].at = "signing"
        /\ \/ /\ config' = [config EXCEPT ![task[t].vault] = NoRel]
              /\ file' = file \ {task[t].vault}
           \/ UNCHANGED <<config, file>>
    BY DEF SignInFails, RollBack, Is
  <1>3. file' # file => config'[task[t].vault] = NoRel
    BY <1>1, <1>2 DEF StoreInv, TypeOK
  <1>4. RestOK'
    BY <1>1, <1>2 DEF RestOK, windows, history
  <1> QED
    BY <1>1, <1>2, <1>3, <1>4, UnstageKeeps DEF windows

LEMMA StoreSignInKeeps ==
  ASSUME StoreInv, NEW t \in Task, StoreSignIn(t)
  PROVE  StoreInv'
  <1>1. Staged(t) /\ task[t].vault \in Vault /\ RestOK /\ TaskType
    BY StagedByConnect DEF StoreSignIn
  <1>2. Moved(t, "landed") /\ TaskFine(t)
    BY <1>1, MoveFacts, KindsAndPlaces DEF StoreSignIn, Place
  <1>3. QuietStep(t) /\ ~Staged(t)'
    <2>1. "landed" \in PlacesOf(task[t].kind)
      BY DEF StoreSignIn, Is, PlacesOf
    <2> QED
      BY <1>2, <2>1, QuietMove DEF Moved, Staged
  <1>4. /\ UNCHANGED <<config, file, windows, revived, abandoned>>
        /\ lock' = NoTask /\ task[t].at = "signing"
    BY DEF StoreSignIn, Is
  <1>5. token' \in [Account -> Token \cup {NoToken}]
    BY <1>1 DEF StoreSignIn, RestOK, Token
  <1>6. task[t].rel \in Remote \cup {NoRel}
    BY <1>1 DEF TaskType, TaskRecord
  <1>7. live' \in [Vault -> Remote \cup {NoRel}]
    BY <1>1, <1>6, TakesTypes DEF StoreSignIn
  <1>8. RestOK'
    BY <1>1, <1>4, <1>5, <1>7 DEF RestOK, windows
  <1> QED
    BY <1>1, <1>3, <1>4, <1>8, UnstageKeeps DEF windows

-----------------------------------------------------------------------------
(* The steps of the user: tasks start, vaults open and close. *)

\* Only vaults nobody stages are open.
WindowsFree ==
  /\ open' \in [App -> SUBSET Vault]
  /\ \A p \in App : /\ open'[p] \subseteq file
                    /\ \A u \in Task : Staged(u) => task[u].vault \notin open'[p]

LockKept ==
  /\ lock' \in Task \cup {NoTask}
  /\ \A u \in Task : Staged(u)' /\ task'[u].at = "signing" /\ lock = u => lock' = u

LEMMA UserKeeps ==
  ASSUME StoreInv, TaskType', RestOK', WindowsFree, LockKept, UNCHANGED <<config, file>>,
         \A u \in Task : TaskFine(u)' /\ StagedKept(u) /\ TiedFine(u)' /\ WriterFine(u)'
  PROVE  StoreInv'
  <1>1. TypeOK'
    BY DEF StoreInv, TypeOK, TaskType, RestOK, WindowsFree, LockKept
  <1>2. TaskInv'
    BY DEF TaskInv
  <1>3. StagedInv'
    BY DEF StoreInv, StagedInv, StagedKept, Staged, LockKept
  <1>4. WindowInv'
    BY DEF WindowInv, WindowsFree, StagedKept
  <1>5. WriterInv' /\ BoundVaultHasFile'
    BY DEF StoreInv, WriterInv, BoundVaultHasFile
  <1> QED
    BY <1>1, <1>2, <1>3, <1>4, <1>5 DEF StoreInv

\* An abandoned task keeps what it relied on, if its vault stays open.
StaysOpen(u) ==
  task'[u].kind \in Tied /\ task'[u].current =>
    (task[u].vault \in open[task[u].app] => task[u].vault \in open'[task[u].app])

LEMMA KeptFine ==
  ASSUME StoreInv, NEW u \in Task, Kept(u), StaysOpen(u), UNCHANGED file,
         \A w \in Task : StagedKept(w)
  PROVE  TaskFine(u)' /\ StagedKept(u) /\ TiedFine(u)' /\ WriterFine(u)'
  <1>1. TaskFine(u) /\ TiedFine(u) /\ WriterFine(u)
    BY DEF StoreInv, TaskInv, WindowInv, WriterInv
  <1>2. TaskFine(u)'
    BY <1>1 DEF Kept, TaskFine
  <1>3. TiedFine(u)'
    BY <1>1 DEF Kept, StaysOpen, TiedFine
  <1>4. WriterFine(u)'
    BY <1>1 DEF Kept, WriterFine, Writes, StagedKept
  <1> QED
    BY <1>2, <1>3, <1>4

\* A task has started: the others keep what they had.
Started(t, kind, p, v, r, place) ==
  /\ TaskType'
  /\ \A u \in Task \ {t} : Kept(u)
  /\ task'[t] = Begin(t, kind, p, v, r, place)

LEMMA BeginTypes ==
  ASSUME NEW t \in Task, NEW kind \in Kind, NEW p \in App \cup {NoApp}, NEW v \in Vault,
         NEW r \in Remote \cup {NoRel}, NEW place \in Place
  PROVE  /\ Begin(t, kind, p, v, r, place) \in TaskRecord
         /\ Begin(t, kind, p, v, r, place).kind = kind
         /\ Begin(t, kind, p, v, r, place).app = p
         /\ Begin(t, kind, p, v, r, place).vault = v
         /\ Begin(t, kind, p, v, r, place).rel = r
         /\ Begin(t, kind, p, v, r, place).at = place
  BY DEF Begin, TaskRecord

LEMMA BeginWanted ==
  ASSUME NEW t, NEW kind, NEW p, NEW v, NEW r, NEW place, kind \notin {"connect", "publish", "reconnect"}
  PROVE  ~Begin(t, kind, p, v, r, place).wanted
  <1> DEFINE flow == kind \in {"connect", "publish", "reconnect"}
  <1>1. ~flow
    OBVIOUS
  <1>2. Begin(t, kind, p, v, r, place).wanted = flow
    BY Zenon DEF Begin
  <1> QED
    BY <1>1, <1>2

LEMMA StartFacts ==
  ASSUME TaskType, NEW t \in Task, NEW kind \in Kind, NEW p \in App \cup {NoApp}, NEW v \in Vault,
         NEW r \in Remote \cup {NoRel}, NEW place \in Place,
         task' = [task EXCEPT ![t] = Begin(t, kind, p, v, r, place)]
  PROVE  Started(t, kind, p, v, r, place)
  <1>1. task'[t] = Begin(t, kind, p, v, r, place) /\ TaskType'
    BY BeginTypes DEF TaskType
  <1>2. \A u \in Task \ {t} : task'[u] = task[u]
    BY DEF TaskType
  <1> QED
    BY <1>1, <1>2 DEF Started, Kept

LEMMA FlowStartFacts ==
  ASSUME TaskType, NEW t \in Task, NEW kind \in Kind, NEW p \in App, NEW v \in Vault,
         NEW r \in Remote \cup {NoRel}, NEW place \in Place, NEW vs,
         task' = [Abandon(p, vs) EXCEPT ![t] = Begin(t, kind, p, v, r, place)]
  PROVE  /\ Started(t, kind, p, v, r, place)
         /\ Advanced(p, Task \ {t})
         /\ \A u \in Task \ {t} : task[u].app = p /\ task[u].vault \in vs => ~task'[u].current
  <1>1. Abandon(p, vs) \in [Task -> TaskRecord]
    BY AbandonFacts
  <1>2. task'[t] = Begin(t, kind, p, v, r, place) /\ TaskType'
    BY <1>1, BeginTypes DEF TaskType
  <1>3. ASSUME NEW u \in Task \ {t}
        PROVE  /\ Kept(u)
               /\ task[u].app = p => ~task'[u].wanted
               /\ task[u].app = p /\ task[u].vault \in vs => ~task'[u].current
    <2>1. task'[u] = Abandon(p, vs)[u]
      BY <1>1
    <2> QED
      BY <2>1, AbandonedFacts DEF Kept
  <1> QED
    BY <1>2, <1>3 DEF Started, Advanced

\* What a task that starts must find.
Startable(kind, p, v, r, place) ==
  /\ place \in PlacesOf(kind) /\ place \notin {"binding", "signing", "exchanging"}
  /\ place = "refreshing" => SharePoint(r)
  /\ kind = "cli" => p = NoApp
  /\ kind # "cli" => p \in App
  /\ kind \in Tied => v \in open'[p]
  /\ kind \in {"publish", "reconnect", "restore", "sync", "cli"} /\ r # NoRel =>
       v \in file /\ \A u \in Task : Staged(u) => task[u].vault # v

LEMMA StartKeeps ==
  ASSUME StoreInv, NEW t \in Task, NEW kind \in Kind, NEW p \in App \cup {NoApp}, NEW v \in Vault,
         NEW r \in Remote \cup {NoRel}, NEW place \in Place,
         Started(t, kind, p, v, r, place), Startable(kind, p, v, r, place),
         RestOK', WindowsFree, \A q \in App : open[q] \subseteq open'[q],
         UNCHANGED <<config, file, lock>>
  PROVE  StoreInv'
  <1>1. /\ task'[t].kind = kind /\ task'[t].app = p /\ task'[t].vault = v
        /\ task'[t].rel = r /\ task'[t].at = place
    BY BeginTypes DEF Started
  <1>2. StagedKept(t)
    BY <1>1 DEF StagedKept, Staged, Startable
  <1>3. \A u \in Task : StagedKept(u)
    BY <1>2, KeptKeepClaims DEF Started, ClaimsKept
  <1>4. TaskFine(t)'
    BY <1>1 DEF TaskFine, Startable, Kind
  <1>5. TiedFine(t)'
    BY <1>1 DEF TiedFine, Startable
  <1>6. WriterFine(t)'
    BY <1>1, <1>3 DEF WriterFine, Writes, Startable, StagedKept
  <1>7. ASSUME NEW u \in Task \ {t}
        PROVE  TaskFine(u)' /\ StagedKept(u) /\ TiedFine(u)' /\ WriterFine(u)'
    <2>1. Kept(u)
      BY DEF Started
    <2>2. StaysOpen(u)
      BY <2>1 DEF StaysOpen, Kept, StoreInv, TaskInv, TaskFine, Tied
    <2> QED
      BY <1>3, <2>1, <2>2, KeptFine
  <1>8. LockKept
    BY DEF LockKept, StoreInv, TypeOK
  <1>9. TaskType'
    BY DEF Started
  <1> QED
    BY <1>3, <1>4, <1>5, <1>6, <1>7, <1>8, <1>9, UserKeeps

\* Where no vault opens, the windows stay free of staged vaults.
LEMMA WindowsStayFree ==
  ASSUME StoreInv, UNCHANGED open
  PROVE  WindowsFree /\ \A q \in App : open[q] \subseteq open'[q]
  BY DEF StoreInv, TypeOK, WindowInv, WindowsFree

LEMMA RestTypes ==
  ASSUME RestOK, UNCHANGED <<token, windows, history>>
  PROVE  RestOK'
  BY DEF RestOK, windows, history

LEMMA OpenFacts ==
  ASSUME StoreInv, NEW p \in App, NEW v \in Vault, v \in open[p]
  PROVE  /\ v \in file
         /\ \A u \in Task : Staged(u) => task[u].vault # v
         /\ bound[p][v] \in Remote \cup {NoRel}
         /\ config[v] \in Remote \cup {NoRel}
  BY DEF StoreInv, WindowInv, TypeOK

LEMMA EngagedOpen ==
  ASSUME StoreInv, NEW p \in App, NEW v \in engaged[p]
  PROVE  v \in open[p]
  BY DEF StoreInv, TypeOK

LEMMA StartConnectKeeps ==
  ASSUME StoreInv, NEW p \in App, NEW v \in Vault, NEW r \in Remote, NEW t \in Task,
         StartConnect(p, v, r, t)
  PROVE  StoreInv'
  <1>0. TaskType /\ RestOK
    BY KindsAndPlaces
  <1>1. UNCHANGED <<stores, windows, history>>
    BY DEF StartConnect
  <1>2. Started(t, "connect", p, v, r, "ready")
    BY <1>0, FlowStartFacts DEF StartConnect, Kind, Place
  <1>3. Startable("connect", p, v, r, "ready")
    BY DEF Startable, PlacesOf, Tied
  <1>4. RestOK'
    BY <1>0, <1>1, RestTypes DEF stores
  <1> QED
    BY <1>1, <1>2, <1>3, <1>4, WindowsStayFree, StartKeeps DEF stores, windows, Kind, Place

LEMMA StartPublishKeeps ==
  ASSUME StoreInv, NEW p \in App, NEW v \in Vault, NEW r \in Remote, NEW t \in Task,
         StartPublish(p, v, r, t)
  PROVE  StoreInv'
  <1>0. TaskType /\ RestOK
    BY KindsAndPlaces
  <1>1. UNCHANGED <<stores, windows, history>> /\ v \in open[p]
    BY DEF StartPublish
  <1>2. Started(t, "publish", p, v, r, "ready")
    BY <1>0, FlowStartFacts DEF StartPublish, Kind, Place
  <1>3. Startable("publish", p, v, r, "ready")
    BY <1>1, OpenFacts DEF Startable, PlacesOf, Tied, windows
  <1>4. RestOK'
    BY <1>0, <1>1, RestTypes DEF stores
  <1> QED
    BY <1>1, <1>2, <1>3, <1>4, WindowsStayFree, StartKeeps DEF stores, windows, Kind, Place

LEMMA StartReconnectKeeps ==
  ASSUME StoreInv, NEW p \in App, NEW v \in Vault, NEW t \in Task, StartReconnect(p, v, t)
  PROVE  StoreInv'
  <1>0. TaskType /\ RestOK
    BY KindsAndPlaces
  <1>1. UNCHANGED <<stores, windows, history>> /\ v \in open[p]
    BY EngagedOpen DEF StartReconnect
  <1>2. config[v] \in Remote \cup {NoRel}
    BY <1>1, OpenFacts
  <1>3. Started(t, "reconnect", p, v, config[v], "ready")
    BY <1>0, <1>2, FlowStartFacts DEF StartReconnect, Kind, Place
  <1>4. Startable("reconnect", p, v, config[v], "ready")
    BY <1>1, OpenFacts DEF Startable, PlacesOf, Tied, windows
  <1>5. RestOK'
    BY <1>0, <1>1, RestTypes DEF stores
  <1> QED
    BY <1>1, <1>2, <1>3, <1>4, <1>5, WindowsStayFree, StartKeeps DEF stores, windows, Kind, Place

LEMMA RetryRestoreKeeps ==
  ASSUME StoreInv, NEW p \in App, NEW v \in Vault, NEW t \in Task, RetryRestore(p, v, t)
  PROVE  StoreInv'
  <1>0. TaskType /\ RestOK
    BY KindsAndPlaces
  <1>1. UNCHANGED <<stores, windows, history>> /\ v \in open[p]
    BY EngagedOpen DEF RetryRestore
  <1>2. Started(t, "restore", p, v, NoRel, "loading")
    BY <1>0, StartFacts DEF RetryRestore, Kind, Place
  <1>3. Startable("restore", p, v, NoRel, "loading")
    BY <1>1 DEF Startable, PlacesOf, Tied, windows
  <1>4. RestOK'
    BY <1>0, <1>1, RestTypes DEF stores
  <1> QED
    BY <1>1, <1>2, <1>3, <1>4, WindowsStayFree, StartKeeps DEF stores, windows, Kind, Place

LEMMA StartSyncKeeps ==
  ASSUME StoreInv, NEW p \in App, NEW v \in Vault, NEW t \in Task, StartSync(p, v, t)
  PROVE  StoreInv'
  <1>0. TaskType /\ RestOK
    BY KindsAndPlaces
  <1>1. UNCHANGED <<stores, windows, history>> /\ v \in open[p]
    BY DEF StartSync
  <1>2. bound[p][v] \in Remote \cup {NoRel}
    BY <1>1, OpenFacts
  <1>3. PICK place \in {"uploaded"} \cup {q \in {"refreshing"} : SharePoint(bound[p][v])} :
          task' = [task EXCEPT ![t] = Begin(t, "sync", p, v, bound[p][v], place)]
    BY DEF StartSync
  <1>4. Started(t, "sync", p, v, bound[p][v], place)
    BY <1>0, <1>2, <1>3, StartFacts DEF Kind, Place
  <1>5. Startable("sync", p, v, bound[p][v], place)
    BY <1>1, <1>3, OpenFacts DEF Startable, PlacesOf, Tied, windows
  <1>6. RestOK'
    BY <1>0, <1>1, RestTypes DEF stores
  <1> QED
    BY <1>1, <1>2, <1>3, <1>4, <1>5, <1>6, WindowsStayFree, StartKeeps
    DEF stores, windows, Kind, Place

LEMMA StartCliKeeps ==
  ASSUME StoreInv, NEW v \in Vault, NEW t \in Task, StartCli(v, t)
  PROVE  StoreInv'
  <1>0. TaskType /\ RestOK
    BY KindsAndPlaces
  <1>1. UNCHANGED <<stores, windows, history>>
    BY DEF StartCli
  <1>2. Started(t, "cli", NoApp, v, NoRel, "loading")
    BY <1>0, StartFacts DEF StartCli, Kind, Place
  <1>3. Startable("cli", NoApp, v, NoRel, "loading")
    BY DEF Startable, PlacesOf, Tied
  <1>4. RestOK'
    BY <1>0, <1>1, RestTypes DEF stores
  <1> QED
    BY <1>1, <1>2, <1>3, <1>4, WindowsStayFree, StartKeeps DEF stores, windows, Kind, Place

LEMMA DisconnectKeeps ==
  ASSUME StoreInv, NEW p \in App, NEW v \in Vault, NEW t \in Task, Disconnect(p, v, t)
  PROVE  StoreInv'
  <1>0. TaskType /\ RestOK
    BY KindsAndPlaces
  <1>1. UNCHANGED <<stores, open, revived, abandoned>> /\ v \in open[p]
    BY DEF Disconnect
  <1>2. bound[p][v] \in Remote \cup {NoRel}
    BY <1>1, OpenFacts
  <1>3. Started(t, "disconnect", p, v, bound[p][v], "ready")
    BY <1>0, <1>2, FlowStartFacts DEF Disconnect, Kind, Place
  <1>4. Startable("disconnect", p, v, bound[p][v], "ready")
    BY <1>1 DEF Startable, PlacesOf, Tied
  <1>5. bound' \in [App -> [Vault -> Remote \cup {NoRel}]]
    BY <1>0 DEF Disconnect, RestOK
  <1>6. /\ engaged' \in [App -> SUBSET Vault]
        /\ \A q \in App : engaged'[q] \subseteq open'[q]
    BY <1>0, <1>1 DEF Disconnect, RestOK
  <1>7. live' \in [Vault -> Remote \cup {NoRel}]
    BY <1>0 DEF Disconnect, RestOK
  <1>8. RestOK'
    BY <1>0, <1>1, <1>5, <1>6, <1>7 DEF RestOK, stores
  <1> QED
    BY <1>1, <1>2, <1>3, <1>4, <1>8, WindowsStayFree, StartKeeps DEF stores, Kind, Place

-----------------------------------------------------------------------------
(* Unlocking and locking. *)

Opened(p, v) ==
  /\ WindowsFree
  /\ \A q \in App : open[q] \subseteq open'[q]
  /\ v \in open'[p]
  /\ bound' \in [App -> [Vault -> Remote \cup {NoRel}]]

LEMMA UnlockFacts ==
  ASSUME StoreInv, NEW p \in App, NEW v \in Vault, Unlock(p, v)
  PROVE  Opened(p, v)
  <1>1. TypeOK /\ WindowInv
    BY DEF StoreInv
  <1>2. v \in file /\ \A u \in Task : Staged(u) => task[u].vault # v
    BY DEF Unlock, Settled, Staged
  <1>3. open' = [open EXCEPT ![p] = open[p] \cup {v}]
    BY DEF Unlock
  <1>4. WindowsFree /\ (\A q \in App : open[q] \subseteq open'[q]) /\ v \in open'[p]
    BY <1>1, <1>2, <1>3 DEF TypeOK, WindowInv, WindowsFree
  <1>5. Bindings(p, v) \in [Vault -> Remote \cup {NoRel}]
    BY <1>1 DEF Bindings, TypeOK
  <1>6. bound' \in [App -> [Vault -> Remote \cup {NoRel}]]
    BY <1>1, <1>5 DEF Unlock, TypeOK
  <1> QED
    BY <1>4, <1>6 DEF Opened

LEMMA UnlockTypes ==
  ASSUME StoreInv, NEW p \in App, NEW v \in Vault, Opened(p, v),
         Engage(p, v) \/ UNCHANGED engaged, UNCHANGED <<token, history>>
  PROVE  RestOK'
  <1>1. RestOK
    BY TypeParts DEF StoreInv
  <1>2. /\ engaged' \in [App -> SUBSET Vault]
        /\ \A q \in App : engaged'[q] \subseteq open'[q]
    <2>1. CASE Engage(p, v)
      <3>1. engaged' \in [App -> SUBSET Vault]
        BY <1>1, <2>1 DEF RestOK, Engage
      <3>2. ASSUME NEW q \in App
            PROVE  engaged'[q] \subseteq open[q] \cup {v} /\ (q # p => engaged'[q] \subseteq open[q])
        BY <1>1, <2>1 DEF RestOK, Engage
      <3> QED
        BY <3>1, <3>2 DEF Opened
    <2>2. CASE UNCHANGED engaged
      BY <1>1, <2>2 DEF RestOK, Opened
    <2> QED
      BY <2>1, <2>2
  <1> QED
    BY <1>1, <1>2 DEF RestOK, Opened, history

LEMMA OpenKeeps ==
  ASSUME StoreInv, NEW p \in App, NEW v \in Vault, Open(p, v)
  PROVE  StoreInv'
  <1>1. Opened(p, v) /\ UNCHANGED <<stores, task, history>>
    BY UnlockFacts DEF Open
  <1>2. RestOK'
    BY <1>1, UnlockTypes DEF Open, stores
  <1>3. ASSUME NEW u \in Task
        PROVE  Kept(u) /\ StagedKept(u) /\ StaysOpen(u)
    <2>1. Kept(u)
      BY <1>1 DEF Kept
    <2>2. StaysOpen(u)
      BY <1>1 DEF StaysOpen, Opened, StoreInv, TaskInv, TaskFine, Tied
    <2> QED
      BY <2>1, <2>2, KeptKeepClaims DEF ClaimsKept
  <1>4. UNCHANGED <<config, file, lock>> /\ LockKept
    BY <1>1 DEF stores, LockKept, StoreInv, TypeOK
  <1>5. \A u \in Task : TaskFine(u)' /\ StagedKept(u) /\ TiedFine(u)' /\ WriterFine(u)'
    BY <1>3, <1>4, KeptFine
  <1>6. TaskType'
    BY <1>1 DEF StoreInv, TypeOK, TaskType
  <1> QED
    BY <1>1, <1>2, <1>4, <1>5, <1>6, UserKeeps DEF Opened

LEMMA OpenSyncedKeeps ==
  ASSUME StoreInv, NEW p \in App, NEW v \in Vault, NEW t \in Task, OpenSynced(p, v, t)
  PROVE  StoreInv'
  <1>0. TaskType
    BY KindsAndPlaces
  <1>1. Opened(p, v) /\ UNCHANGED <<stores, history>>
    BY UnlockFacts DEF OpenSynced
  <1>2. RestOK'
    BY <1>1, UnlockTypes DEF OpenSynced, stores
  <1>3. Started(t, "restore", p, v, NoRel, "loading")
    BY <1>0, StartFacts DEF OpenSynced, Kind, Place
  <1>4. Startable("restore", p, v, NoRel, "loading")
    BY <1>1 DEF Startable, PlacesOf, Tied, Opened
  <1> QED
    BY <1>1, <1>2, <1>3, <1>4, StartKeeps DEF Opened, stores, Kind, Place

LEMMA DropPendingKeeps ==
  ASSUME StoreInv, NEW p \in App, DropPending(p)
  PROVE  StoreInv'
  <1>1. UNCHANGED <<stores, open, engaged, task, history>>
    BY DEF DropPending
  <1>2. RestOK /\ TaskType
    BY TypeParts DEF StoreInv
  <1>3. bound' \in [App -> [Vault -> Remote \cup {NoRel}]]
    BY <1>2 DEF DropPending, RestOK
  <1>4. RestOK'
    BY <1>1, <1>2, <1>3 DEF RestOK, stores, history
  <1>5. \A u \in Task : Kept(u) /\ StagedKept(u) /\ StaysOpen(u)
    BY <1>1, KeptKeepClaims DEF Kept, StaysOpen, ClaimsKept
  <1>6. LockKept /\ TaskType' /\ UNCHANGED <<config, file>>
    BY <1>1, <1>2 DEF LockKept, TaskType, stores, StoreInv, TypeOK
  <1>7. \A u \in Task : TaskFine(u)' /\ StagedKept(u) /\ TiedFine(u)' /\ WriterFine(u)'
    BY <1>5, <1>6, KeptFine
  <1> QED
    BY <1>1, <1>4, <1>6, <1>7, WindowsStayFree, UserKeeps

\* All windows of a process close.
Closed(p) ==
  /\ WindowsFree
  /\ open'[p] = {}
  /\ \A q \in App \ {p} : open'[q] = open[q]

LEMMA EmptiedFacts ==
  ASSUME StoreInv, NEW p \in App, Emptied(p)
  PROVE  /\ Closed(p)
         /\ engaged' \in [App -> SUBSET Vault]
         /\ \A q \in App : engaged'[q] \subseteq open'[q]
         /\ bound' \in [App -> [Vault -> Remote \cup {NoRel}]]
  <1>1. TypeOK /\ WindowInv
    BY DEF StoreInv
  <1>2. open' \in [App -> SUBSET Vault] /\ open'[p] = {} /\ \A q \in App \ {p} : open'[q] = open[q]
    BY <1>1 DEF Emptied, TypeOK
  <1>3. WindowsFree
    BY <1>1, <1>2 DEF WindowsFree, WindowInv
  <1>4. engaged' \in [App -> SUBSET Vault] /\ \A q \in App : engaged'[q] \subseteq open'[q]
    BY <1>1, <1>2 DEF Emptied, TypeOK
  <1>5. bound' \in [App -> [Vault -> Remote \cup {NoRel}]]
    BY <1>1 DEF Emptied, TypeOK
  <1> QED
    BY <1>2, <1>3, <1>4, <1>5 DEF Closed

LEMMA LockKeeps ==
  ASSUME StoreInv, NEW p \in App, Lock(p)
  PROVE  StoreInv'
  <1>0. TaskType /\ RestOK
    BY TypeParts DEF StoreInv
  <1>1. Emptied(p) /\ task' = Abandon(p, Vault) /\ UNCHANGED <<stores, history>>
    BY DEF Lock
  <1>2. TaskType' /\ (\A u \in Task : Kept(u)) /\ Dropped(p, Vault)
    BY <1>0, <1>1, AbandonFacts DEF TaskType
  <1>3. RestOK'
    BY <1>0, <1>1, EmptiedFacts DEF RestOK, stores, history
  <1>4. \A u \in Task : StagedKept(u)
    BY <1>2, KeptKeepClaims DEF ClaimsKept
  <1>5. ASSUME NEW u \in Task
        PROVE  StaysOpen(u)
    <2>1. ASSUME task'[u].kind \in Tied, task'[u].current
          PROVE  task[u].app \in App \ {p}
      <3>1. task[u].kind \in Tied /\ task[u].app \in App /\ task[u].vault \in Vault
        BY <1>2, <2>1 DEF Kept, StoreInv, TaskInv, TaskFine, Tied
      <3> QED
        BY <1>2, <2>1, <3>1 DEF Dropped
    <2> QED
      BY <1>1, <2>1, EmptiedFacts DEF StaysOpen, Closed
  <1>6. UNCHANGED <<config, file>> /\ LockKept
    BY <1>1 DEF stores, LockKept, StoreInv, TypeOK
  <1>7. \A u \in Task : TaskFine(u)' /\ StagedKept(u) /\ TiedFine(u)' /\ WriterFine(u)'
    BY <1>2, <1>4, <1>5, <1>6, KeptFine
  <1> QED
    BY <1>1, <1>2, <1>3, <1>6, <1>7, EmptiedFacts, UserKeeps DEF Closed

LEMMA CrashKeeps ==
  ASSUME StoreInv, NEW p \in App, Crash(p)
  PROVE  StoreInv'
  <1> DEFINE ts == {t \in Task : task[t].app = p}
  <1>0. TaskType /\ RestOK
    BY TypeParts DEF StoreInv
  <1>1. /\ Emptied(p)
        /\ task' = [t \in Task |-> IF t \in ts THEN Ended ELSE task[t]]
        /\ lock' = IF lock \in ts THEN NoTask ELSE lock
        /\ UNCHANGED <<config, token, file, live, revived>>
    BY DEF Crash
  <1>2. TaskType'
    BY <1>0, <1>1, EndedFacts DEF TaskType
  <1>3. abandoned' \subseteq Account \cup {NoAccount}
    <2>1. \A t \in Task : task[t].rel \in Remote \cup {NoRel}
      BY <1>0 DEF TaskType, TaskRecord
    <2>2. \A t \in Task : Account_(task[t].rel) \in Account \cup {NoAccount}
      BY <2>1, StoreAssumption DEF Account_
    <2> QED
      BY <1>0, <2>2 DEF Crash, RestOK
  <1>4. RestOK'
    BY <1>0, <1>1, <1>3, EmptiedFacts DEF RestOK
  <1>5. ASSUME NEW u \in Task
        PROVE  (u \in ts /\ task'[u] = Ended) \/ (u \notin ts /\ task'[u] = task[u])
    BY <1>1
  <1>6. \A u \in Task : StagedKept(u)
    BY <1>5, EndedFacts DEF StagedKept, Staged
  <1>7. ASSUME NEW u \in Task
        PROVE  TaskFine(u)' /\ StagedKept(u) /\ TiedFine(u)' /\ WriterFine(u)'
    <2>1. CASE task'[u] = Ended
      BY <1>6, <2>1, EndedFacts DEF TaskFine, TiedFine, WriterFine, Writes, Tied, PlacesOf
    <2>2. CASE u \notin ts /\ task'[u] = task[u]
      <3>1. Kept(u)
        BY <2>2 DEF Kept
      <3>2. task[u].kind \in Tied => task[u].app \in App \ {p}
        BY <2>2 DEF StoreInv, TaskInv, TaskFine, Tied
      <3>3. StaysOpen(u)
        BY <1>1, <3>1, <3>2, EmptiedFacts DEF StaysOpen, Kept, Closed
      <3> QED
        BY <1>1, <1>6, <3>1, <3>3, KeptFine
    <2> QED
      BY <1>5, <2>1, <2>2
  <1>8. LockKept
    <2>1. lock' \in Task \cup {NoTask}
      BY <1>1 DEF StoreInv, TypeOK
    <2>2. ASSUME NEW u \in Task, Staged(u)', lock = u
          PROVE  lock' = u
      <3>1. u \notin ts
        BY <1>5, <2>2, EndedFacts DEF Staged
      <3> QED
        BY <1>1, <2>2, <3>1
    <2> QED
      BY <2>1, <2>2 DEF LockKept
  <1> QED
    BY <1>1, <1>2, <1>4, <1>7, <1>8, EmptiedFacts, UserKeeps DEF Closed

-----------------------------------------------------------------------------
(* The invariant. *)

LEMMA InitStore == Init => StoreInv
  <1> SUFFICES ASSUME Init PROVE StoreInv
    OBVIOUS
  <1>1. TaskType /\ \A t \in Task : task[t] = Unused
    BY EndedFacts DEF Init, TaskType
  <1>2. token \in [Account -> Token \cup {NoToken}]
    <2>1. [signIn |-> Origin, by |-> Origin] \in Token
      BY DEF Token
    <2> QED
      BY <2>1 DEF Init
  <1>3. RestOK
    BY <1>2 DEF Init, RestOK
  <1>4. TypeOK
    BY <1>1, <1>3, TypeParts DEF Init
  <1>5. TaskInv
    BY <1>1, EndedFacts DEF TaskInv, TaskFine, PlacesOf
  <1>6. StagedInv
    BY <1>1, EndedFacts DEF StagedInv, Staged
  <1>7. WindowInv
    BY <1>1, EndedFacts DEF WindowInv, Staged, TiedFine, Tied, Init
  <1>8. WriterInv
    BY <1>1, EndedFacts DEF WriterInv, WriterFine, Writes
  <1>9. BoundVaultHasFile
    BY DEF Init, BoundVaultHasFile
  <1> QED
    BY <1>4, <1>5, <1>6, <1>7, <1>8, <1>9 DEF StoreInv

LEMMA UserStep ==
  ASSUME StoreInv, User
  PROVE  StoreInv'
  <1>1. CASE \E p \in App : Lock(p) \/ Cancel(p) \/ DropPending(p) \/ Crash(p)
    BY <1>1, LockKeeps, CancelKeeps, DropPendingKeeps, CrashKeeps
  <1>2. CASE \E p \in App, v \in Vault : Open(p, v)
    BY <1>2, OpenKeeps
  <1>3. ASSUME NEW p \in App, NEW v \in Vault, NEW t \in Task,
               \/ OpenSynced(p, v, t) \/ RetryRestore(p, v, t) \/ Disconnect(p, v, t)
               \/ StartReconnect(p, v, t) \/ StartSync(p, v, t)
        PROVE  StoreInv'
    BY <1>3, OpenSyncedKeeps, RetryRestoreKeeps, DisconnectKeeps, StartReconnectKeeps,
       StartSyncKeeps
  <1>4. ASSUME NEW p \in App, NEW v \in Vault, NEW t \in Task, NEW r \in Remote,
               StartConnect(p, v, r, t) \/ StartPublish(p, v, r, t)
        PROVE  StoreInv'
    BY <1>4, StartConnectKeeps, StartPublishKeeps
  <1>5. CASE \E v \in Vault, t \in Task : StartCli(v, t)
    BY <1>5, StartCliKeeps
  <1> QED
    BY <1>1, <1>2, <1>3, <1>4, <1>5 DEF User

LEMMA PublicationStep ==
  ASSUME StoreInv, NEW t \in Task, Publication(t)
  PROVE  StoreInv'
  BY EnterGateKeeps, PrepareFailsKeeps, ConnectCheckKeeps, StageVaultKeeps, SaveBindingKeeps,
     BindingFailsKeeps, StoreSignInKeeps, SignInFailsKeeps, ConnectDoneKeeps, PublishCheckKeeps,
     StoreReconnectKeeps, SaveConfigKeeps, PublicationFailsKeeps, PublishDoneKeeps
  DEF Publication

LEMMA CleanUpStep ==
  ASSUME StoreInv, NEW t \in Task, CleanUp(t)
  PROVE  StoreInv'
  BY DeleteConfigKeeps, ScanBindingsKeeps, DeleteTokenKeeps, DisconnectFailsKeeps DEF CleanUp

LEMMA ReaderStep ==
  ASSUME StoreInv, NEW t \in Task, Reader(t)
  PROVE  StoreInv'
  BY LoadConfigKeeps, LoadTokenKeeps, ExchangeKeeps, ReaderFailsKeeps, RestoreSavesKeeps,
     RestoreDoneKeeps, SyncUploadsKeeps, SyncDoneKeeps, CliComparesKeeps, CliSavesKeeps
  DEF Reader

LEMMA IdleStep ==
  ASSUME StoreInv, UNCHANGED vars
  PROVE  StoreInv'
  <1>1. TypeOK'
    BY DEF StoreInv, TypeOK, vars
  <1>2. TaskInv' /\ StagedInv'
    BY DEF StoreInv, TaskInv, TaskFine, StagedInv, Staged, vars
  <1>3. WindowInv' /\ WriterInv' /\ BoundVaultHasFile'
    BY DEF StoreInv, WindowInv, TiedFine, Staged, WriterInv, WriterFine, Writes, BoundVaultHasFile,
           vars
  <1> QED
    BY <1>1, <1>2, <1>3 DEF StoreInv

LEMMA StoreStep == StoreInv /\ [Next]_vars => StoreInv'
  <1> SUFFICES ASSUME StoreInv, [Next]_vars PROVE StoreInv'
    OBVIOUS
  <1>1. CASE User
    BY <1>1, UserStep
  <1>2. ASSUME NEW t \in Task, Publication(t) \/ CleanUp(t) \/ Reader(t)
        PROVE  StoreInv'
    BY <1>2, PublicationStep, CleanUpStep, ReaderStep
  <1>3. CASE UNCHANGED vars
    BY <1>3, IdleStep
  <1> QED
    BY <1>1, <1>2, <1>3 DEF Next

\* StoreInv holds in every state: a staged vault belongs to the one task that
\* published it and has no configuration before publish_binding, open vaults and
\* the vaults of tasks that write configurations exist and are not staged.
THEOREM StoreInvariance == Spec => []StoreInv
  <1> QED
    BY InitStore, StoreStep, PTL DEF Spec

\* Every variable keeps its type; in particular a sync status other than
\* Disconnected is only ever given to an open vault, whatever callback sets it.
THEOREM TypeCorrect == Spec => []TypeOK
  <1>1. StoreInv => TypeOK
    BY DEF StoreInv
  <1> QED
    BY <1>1, StoreInvariance, PTL

\* A configuration never outlives its vault, through failed connects, rolled back
\* and kept vaults, disconnects, stale restores and the command line client.
THEOREM BoundVaultsExist == Spec => []BoundVaultHasFile
  <1>1. StoreInv => BoundVaultHasFile
    BY DEF StoreInv
  <1> QED
    BY <1>1, StoreInvariance, PTL

-----------------------------------------------------------------------------
(* What a step may do to a token and to a configuration. *)

KeepsSignIn(a) ==
  token'[a] # token[a] =>
    \/ \E t \in Task : Gated(t) /\ task'[t] # task[t]
    \/ token[a] # NoToken /\ token'[a].signIn = token[a].signIn

LEMMA UserWritesNothing ==
  ASSUME User
  PROVE  UNCHANGED <<config, token>>
  <1>1. ASSUME NEW p \in App, Lock(p) \/ Cancel(p) \/ DropPending(p) \/ Crash(p)
        PROVE  UNCHANGED <<config, token>>
    BY <1>1 DEF Lock, Cancel, DropPending, Crash, stores
  <1>2. ASSUME NEW p \in App, NEW v \in Vault, Open(p, v)
        PROVE  UNCHANGED <<config, token>>
    BY <1>2 DEF Open, stores
  <1>3. ASSUME NEW p \in App, NEW v \in Vault, NEW t \in Task,
               \/ OpenSynced(p, v, t) \/ RetryRestore(p, v, t) \/ Disconnect(p, v, t)
               \/ StartReconnect(p, v, t) \/ StartSync(p, v, t)
        PROVE  UNCHANGED <<config, token>>
    BY <1>3 DEF OpenSynced, RetryRestore, Disconnect, StartReconnect, StartSync, stores
  <1>4. ASSUME NEW p \in App, NEW v \in Vault, NEW t \in Task, NEW r \in Remote,
               StartConnect(p, v, r, t) \/ StartPublish(p, v, r, t)
        PROVE  UNCHANGED <<config, token>>
    BY <1>4 DEF StartConnect, StartPublish, stores
  <1>5. ASSUME NEW v \in Vault, NEW t \in Task, StartCli(v, t)
        PROVE  UNCHANGED <<config, token>>
    BY <1>5 DEF StartCli, stores
  <1> QED
    BY <1>1, <1>2, <1>3, <1>4, <1>5 DEF User

LEMMA TokenStep ==
  ASSUME StoreInv, Next, NEW a \in Account
  PROVE  KeepsSignIn(a)
  <1>0. TaskType /\ RestOK
    BY TypeParts DEF StoreInv
  <1>1. CASE User
    BY <1>1, UserWritesNothing DEF KeepsSignIn
  <1>2. ASSUME NEW t \in Task, Publication(t)
        PROVE  KeepsSignIn(a)
    <2>1. CASE StoreSignIn(t)
      <3>1. Gated(t) /\ task[t].at = "signing" /\ Moved(t, "landed")
        BY <1>0, <2>1, MoveFacts DEF StoreSignIn, Is, Gated, Place
      <3> QED
        BY <3>1 DEF Moved, KeepsSignIn
    <2>2. CASE StoreReconnect(t)
      <3>1. Gated(t) /\ task[t].at = "storing" /\ Moved(t, "saving")
        BY <1>0, <2>2, MoveFacts DEF StoreReconnect, Is, Gated, Place
      <3> QED
        BY <3>1 DEF Moved, KeepsSignIn
    <2>3. CASE UNCHANGED token
      BY <2>3 DEF KeepsSignIn
    <2> QED
      BY <1>2, <2>1, <2>2, <2>3
      DEF Publication, EnterGate, PrepareFails, ConnectCheck, StageVault, SaveBinding, BindingFails,
          SignInFails, ConnectDone, PublishCheck, SaveConfig, PublicationFails, PublishDone, stores
  <1>3. ASSUME NEW t \in Task, CleanUp(t)
        PROVE  KeepsSignIn(a)
    <2>1. CASE DeleteToken(t)
      <3>1. Gated(t) /\ task[t].kind = "disconnect" /\ Gone(t)
        BY <1>0, <2>1, EndFacts DEF DeleteToken, Is, Gated
      <3> QED
        BY <3>1, EndedFacts DEF Gone, KeepsSignIn
    <2>2. CASE UNCHANGED token
      BY <2>2 DEF KeepsSignIn
    <2> QED
      BY <1>3, <2>1, <2>2 DEF CleanUp, DeleteConfig, ScanBindings, DisconnectFails, stores
  <1>4. ASSUME NEW t \in Task, Reader(t)
        PROVE  KeepsSignIn(a)
    <2>1. ASSUME Exchange(t), token'[a] # token[a]
          PROVE  token[a] # NoToken /\ token'[a].signIn = token[a].signIn
      <3>1. task[t].got # NoToken /\ task[t] \in TaskRecord
        BY <2>1, KindsAndPlaces DEF Exchange, TaskFine
      <3>2. a = AccountOf[task[t].rel] /\ token'[a] = Replaced(t, token[a])
        BY <1>0, <2>1 DEF Exchange, RestOK
      <3>3. token[a] = task[t].got /\ token'[a] = [task[t].got EXCEPT !.by = t]
        BY <2>1, <3>2 DEF Replaced
      <3>4. task[t].got \in Token
        BY <3>1 DEF TaskRecord
      <3> QED
        BY <3>1, <3>3, <3>4 DEF Token
    <2>2. CASE UNCHANGED token
      BY <2>2 DEF KeepsSignIn
    <2> QED
      BY <1>4, <2>1, <2>2
      DEF KeepsSignIn, Reader, LoadConfig, LoadToken, ReaderFails, RestoreSaves, RestoreDone,
          SyncUploads, SyncDone, CliCompares, CliSaves, stores
  <1> QED
    BY <1>1, <1>2, <1>3, <1>4 DEF Next

\* A refresh that ends after the token was deleted or replaced by a newer sign-in
\* leaves the keychain alone (tokens::replace).
THEOREM RefreshKeeps == Spec => RefreshKeepsSignIn
  <1>1. StoreInv /\ [Next]_vars =>
          [\A a \in Account :
             token'[a] # token[a] =>
               \/ \E t \in Task : Gated(t) /\ task'[t] # task[t]
               \/ token[a] # NoToken /\ token'[a].signIn = token[a].signIn]_vars
    BY TokenStep DEF KeepsSignIn
  <1> QED
    BY <1>1, StoreInvariance, PTL DEF Spec, RefreshKeepsSignIn

CommandsKeep == \A t \in Task : task[t].kind = "cli" /\ task'[t] # task[t] => config' = config

\* A task that is no command writes a configuration: the commands keep.
LEMMA OtherWrites ==
  ASSUME NEW t \in Task, task[t].kind # "cli", OthersKept(t)
  PROVE  CommandsKeep
  BY DEF CommandsKeep, OthersKept

LEMMA ConfigStep ==
  ASSUME StoreInv, Next
  PROVE  CommandsKeep
  <1>0. TaskType
    BY TypeParts DEF StoreInv
  <1>1. CASE UNCHANGED config
    BY <1>1 DEF CommandsKeep
  <1>2. CASE User
    BY <1>1, <1>2, UserWritesNothing
  <1>3. ASSUME NEW t \in Task, Publication(t)
        PROVE  CommandsKeep
    <2>1. CASE SaveBinding(t) \/ SignInFails(t) \/ SaveConfig(t)
      <3>1. task[t].kind # "cli"
        BY <2>1 DEF SaveBinding, SignInFails, SaveConfig, Is
      <3>2. MoveTo(t, "signing") \/ MoveTo(t, "landed") \/ End(t)
        BY <2>1 DEF SaveBinding, SignInFails, SaveConfig, RollBack
      <3>3. OthersKept(t)
        BY <1>0, <3>2, MoveFacts, EndFacts DEF Moved, Gone, Place
      <3> QED
        BY <3>1, <3>3, OtherWrites
    <2> QED
      BY <1>1, <1>3, <2>1
      DEF Publication, EnterGate, PrepareFails, ConnectCheck, StageVault, BindingFails,
          StoreSignIn, StoreReconnect, ConnectDone, PublishCheck, PublicationFails, PublishDone,
          stores
  <1>4. ASSUME NEW t \in Task, CleanUp(t)
        PROVE  CommandsKeep
    <2>1. CASE DeleteConfig(t)
      <3>1. task[t].kind # "cli" /\ OthersKept(t)
        BY <1>0, <2>1, MoveFacts DEF DeleteConfig, Is, Moved, Place
      <3> QED
        BY <3>1, OtherWrites
    <2> QED
      BY <1>1, <1>4, <2>1 DEF CleanUp, ScanBindings, DeleteToken, DisconnectFails, stores
  <1>5. ASSUME NEW t \in Task, Reader(t)
        PROVE  CommandsKeep
    <2>1. CASE RestoreSaves(t)
      <3>1. task[t].kind # "cli" /\ OthersKept(t)
        BY <1>0, <2>1, MoveFacts DEF RestoreSaves, Is, Moved, Place
      <3> QED
        BY <3>1, OtherWrites
    <2>2. CASE SyncDone(t)
      <3>1. task[t].kind # "cli" /\ (End(t) \/ EndOrPush(t))
        BY <2>2 DEF SyncDone, Is
      <3>2. OthersKept(t)
        BY <1>0, <3>1, EndFacts, EndOrPushFacts DEF Gone, Pushing
      <3> QED
        BY <3>1, <3>2, OtherWrites
    <2>3. CASE CliSaves(t)
      <3>1. task[t].vault \in Vault
        BY <2>3, KindsAndPlaces DEF CliSaves, Is, TaskFine
      <3>2. config' = config
        BY <2>3, <3>1 DEF CliSaves, StillBound, BindingIsStill, StoreInv, TypeOK
      <3> QED
        BY <1>1, <3>2
    <2> QED
      BY <1>1, <1>5, <2>1, <2>2, <2>3
      DEF Reader, LoadConfig, LoadToken, Exchange, ReaderFails, RestoreDone, SyncUploads,
          CliCompares, stores
  <1> QED
    BY <1>2, <1>3, <1>4, <1>5 DEF Next

\* A command never changes a relationship, however long its upload takes
\* (binding_is_still, the second check in the hold of the save).
THEOREM CliKeeps == Spec => CliKeepsRelationship
  <1>1. StoreInv /\ [Next]_vars =>
          [\A t \in Task : task[t].kind = "cli" /\ task'[t] # task[t] => config' = config]_vars
    BY ConfigStep DEF CommandsKeep
  <1> QED
    BY <1>1, StoreInvariance, PTL DEF Spec, CliKeepsRelationship
=============================================================================
