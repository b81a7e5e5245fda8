-------------------------- MODULE VaultSyncProofs --------------------------
(***************************************************************************)
(* SyncInv (VaultSyncInv) is inductive, and with it the safety invariants  *)
(* of VaultSync hold for any edits, clashes, remote files and bounds.  The *)
(* methods of the engine are operators on a state of the application; for  *)
(* each there is a lemma that it keeps what the application holds true     *)
(* (AppsOf) and what relates its parts (Core); the steps compose them.     *)
(* The second half does the same for the edits of the other devices        *)
(* (KeptInv): which copies still hold them when a step replaces one.       *)
(***************************************************************************)
EXTENDS VaultSyncInv, FiniteSetTheorems, TLAPS

-----------------------------------------------------------------------------
(* Numbers. *)

\* A number outside a finite set is found among the first of its size and one.
LEMMA OneIsLeft ==
  ASSUME NEW S, IsFiniteSet(S)
  PROVE  \E n \in 1..(Cardinality(S) + 1) : n \notin S
  <1> DEFINE N == 1..(Cardinality(S) + 1)
  <1>1. Cardinality(S) \in Nat
    BY FS_CardinalityType
  <1>2. IsFiniteSet(N) /\ Cardinality(N) = Cardinality(S) + 1
    BY <1>1, FS_Interval
  <1>3. ASSUME N \subseteq S PROVE FALSE
    BY <1>1, <1>2, <1>3, FS_Subset
  <1> QED
    BY <1>3

LEMMA FreshNumber ==
  ASSUME NEW S, IsFiniteSet(S)
  PROVE  LeastOutside(S) \in Nat \ {0} /\ LeastOutside(S) \notin S
  <1>1. Cardinality(S) \in Nat
    BY FS_CardinalityType
  <1>2. \A n \in 1..(Cardinality(S) + 1) : n \in Nat \ {0}
    BY <1>1
  <1> QED
    BY <1>2, OneIsLeft DEF LeastOutside

\* A new task has a number no other task has.
LEMMA FreshId ==
  ASSUME NEW a, IsFiniteSet(a.tasks)
  PROVE  NewId(a) \in Nat /\ \A t \in a.tasks : t.id # NewId(a)
  <1> DEFINE S == {t.id : t \in a.tasks}
  <1>1. IsFiniteSet(S) /\ Cardinality(S) <= Cardinality(a.tasks)
    <2> DEFINE f == [t \in a.tasks |-> t.id]
    <2>1. f \in Surjection(a.tasks, S)
      BY DEF Surjection
    <2> HIDE DEF f
    <2> QED
      BY <2>1, FS_Surjection
  <1>2. Cardinality(S) \in Nat /\ Cardinality(a.tasks) \in Nat
    BY <1>1, FS_CardinalityType
  <1>3. PICK n \in 1..(Cardinality(S) + 1) : n \notin S
    BY <1>1, OneIsLeft
  <1>4. n \in 1..(Cardinality(a.tasks) + 1)
    BY <1>1, <1>2
  <1>5. \A t \in a.tasks : t.id # n
    BY <1>3
  <1>6. \A k \in 1..(Cardinality(a.tasks) + 1) : k \in Nat
    BY <1>2
  <1> QED
    BY <1>4, <1>5, <1>6 DEF NewId

-----------------------------------------------------------------------------
(* The fields of what the methods return. *)

SameSession(a, b) == b.place = a.place /\ b.sess = a.sess /\ b.bindGen = a.bindGen
SameDocument(a, b) == b.doc = a.doc /\ b.gen = a.gen
SameSave(a, b) == b.unsaved = a.unsaved /\ b.save = a.save
SameBinding(a, b) == b.binding = a.binding /\ b.cfg = a.cfg
SameStatus(a, b) ==
  /\ b.status = a.status /\ b.conflict = a.conflict /\ b.deferred = a.deferred
  /\ b.backoff = a.backoff /\ b.token = a.token
SameMarks(a, b) ==
  b.slot = a.slot /\ b.awaiting = a.awaiting /\ b.auto = a.auto /\ b.tasks = a.tasks

\* Sets of what an application may hold.
Over(D, B, G, C) ==
  /\ {} \in D /\ D \subseteq SUBSET AllEdits
  /\ B \subseteq [edits : D, rev : Nat]
  /\ G \subseteq {b \in BindingRecords : b.etag.remote = b.remote}
  /\ C \subseteq [edits : D, etag : Etags]

\* A field at a time.
LEMMA Setters ==
  ASSUME NEW D, NEW B, NEW G, NEW C, NEW a \in AppsOf(D, B, G, C)
  PROVE  /\ \A x \in {"locked", "active", "parked", "deferred"} : [a EXCEPT !.place = x] \in AppsOf(D, B, G, C)
         /\ \A x \in Nat : [a EXCEPT !.sess = x] \in AppsOf(D, B, G, C)
         /\ \A x \in {"none", "edit", "connect", "conflict"} : [a EXCEPT !.overlay = x] \in AppsOf(D, B, G, C)
         /\ \A x \in D : [a EXCEPT !.doc = x] \in AppsOf(D, B, G, C)
         /\ \A x \in Nat : [a EXCEPT !.gen = x] \in AppsOf(D, B, G, C)
         /\ \A x \in BOOLEAN : [a EXCEPT !.unsaved = x] \in AppsOf(D, B, G, C)
         /\ \A x \in SavesOf(D) \cup {None} : [a EXCEPT !.save = x] \in AppsOf(D, B, G, C)
         /\ \A x \in G \cup {None} : [a EXCEPT !.binding = x] \in AppsOf(D, B, G, C)
         /\ \A x \in G \cup {None} : [a EXCEPT !.cfg = x] \in AppsOf(D, B, G, C)
         /\ \A x \in Nat : [a EXCEPT !.bindGen = x] \in AppsOf(D, B, G, C)
         /\ \A x \in Statuses : [a EXCEPT !.status = x] \in AppsOf(D, B, G, C)
         /\ \A x \in ConflictsOf(D, C) \cup {None} : [a EXCEPT !.conflict = x] \in AppsOf(D, B, G, C)
         /\ \A x \in Etags \cup {None} : [a EXCEPT !.deferred = x] \in AppsOf(D, B, G, C)
         /\ \A x \in BOOLEAN : [a EXCEPT !.backoff = x] \in AppsOf(D, B, G, C)
         /\ \A x \in Nat \cup {None} : [a EXCEPT !.token = x] \in AppsOf(D, B, G, C)
         /\ \A x \in SlotsOf(B) \cup {None} : [a EXCEPT !.slot = x] \in AppsOf(D, B, G, C)
         /\ \A x \in RequestsOf(B) \cup {None} : [a EXCEPT !.awaiting = x] \in AppsOf(D, B, G, C)
         /\ \A x \in BOOLEAN : [a EXCEPT !.auto = x] \in AppsOf(D, B, G, C)
         /\ \A x \in SUBSET TasksIn(D, B, G, C) : [a EXCEPT !.tasks = x] \in AppsOf(D, B, G, C)
  <1>1. \A x \in {"locked", "active", "parked", "deferred"} : [a EXCEPT !.place = x] \in AppsOf(D, B, G, C)
    BY DEF AppsOf
  <1>2. \A x \in Nat : [a EXCEPT !.sess = x] \in AppsOf(D, B, G, C)
    BY DEF AppsOf
  <1>3. \A x \in {"none", "edit", "connect", "conflict"} : [a EXCEPT !.overlay = x] \in AppsOf(D, B, G, C)
    BY DEF AppsOf
  <1>4. \A x \in D : [a EXCEPT !.doc = x] \in AppsOf(D, B, G, C)
    BY DEF AppsOf
  <1>5. \A x \in Nat : [a EXCEPT !.gen = x] \in AppsOf(D, B, G, C)
    BY DEF AppsOf
  <1>6. \A x \in BOOLEAN : [a EXCEPT !.unsaved = x] \in AppsOf(D, B, G, C)
    BY DEF AppsOf
  <1>7. \A x \in SavesOf(D) \cup {None} : [a EXCEPT !.save = x] \in AppsOf(D, B, G, C)
    BY DEF AppsOf
  <1>8. \A x \in G \cup {None} : [a EXCEPT !.binding = x] \in AppsOf(D, B, G, C)
    BY DEF AppsOf
  <1>9. \A x \in G \cup {None} : [a EXCEPT !.cfg = x] \in AppsOf(D, B, G, C)
    BY DEF AppsOf
  <1>10. \A x \in Nat : [a EXCEPT !.bindGen = x] \in AppsOf(D, B, G, C)
    BY DEF AppsOf
  <1>11. \A x \in Statuses : [a EXCEPT !.status = x] \in AppsOf(D, B, G, C)
    BY DEF AppsOf
  <1>12. \A x \in ConflictsOf(D, C) \cup {None} : [a EXCEPT !.conflict = x] \in AppsOf(D, B, G, C)
    BY DEF AppsOf
  <1>13. \A x \in Etags \cup {None} : [a EXCEPT !.deferred = x] \in AppsOf(D, B, G, C)
    BY DEF AppsOf
  <1>14. \A x \in BOOLEAN : [a EXCEPT !.backoff = x] \in AppsOf(D, B, G, C)
    BY DEF AppsOf
  <1>15. \A x \in Nat \cup {None} : [a EXCEPT !.token = x] \in AppsOf(D, B, G, C)
    BY DEF AppsOf
  <1>16. \A x \in SlotsOf(B) \cup {None} : [a EXCEPT !.slot = x] \in AppsOf(D, B, G, C)
    BY DEF AppsOf
  <1>17. \A x \in RequestsOf(B) \cup {None} : [a EXCEPT !.awaiting = x] \in AppsOf(D, B, G, C)
    BY DEF AppsOf
  <1>18. \A x \in BOOLEAN : [a EXCEPT !.auto = x] \in AppsOf(D, B, G, C)
    BY DEF AppsOf
  <1>19. \A x \in SUBSET TasksIn(D, B, G, C) : [a EXCEPT !.tasks = x] \in AppsOf(D, B, G, C)
    BY DEF AppsOf
  <1> QED
    BY <1>1, <1>2, <1>3, <1>4, <1>5, <1>6, <1>7, <1>8, <1>9, <1>10, <1>11, <1>12, <1>13, <1>14, <1>15, <1>16, <1>17, <1>18, <1>19

LEMMA RouteFields ==
  ASSUME NEW D, NEW B, NEW G, NEW C, NEW a \in AppsOf(D, B, G, C), NEW s \in Statuses
  PROVE  LET b == Route(a, s)
         IN  /\ b \in AppsOf(D, B, G, C)
             /\ SameSession(a, b) /\ SameDocument(a, b) /\ SameSave(a, b) /\ SameBinding(a, b)
             /\ SameMarks(a, b) /\ b.overlay = a.overlay
             /\ b.status = s
             /\ b.conflict = IF s = "Conflict" THEN a.conflict ELSE None
             /\ b.token = IF s \in Resting \cup {"Disconnected", "Syncing"} THEN None ELSE a.token
             /\ b.deferred = IF s = "Failed" THEN a.deferred ELSE None
             /\ b.backoff \in BOOLEAN
  <1> DEFINE conflict == IF s = "Conflict" THEN a.conflict ELSE None
             backoff == a.backoff /\ s \notin Resting
             token == IF s \in Resting \cup {"Disconnected", "Syncing"} THEN None ELSE a.token
             deferred == IF s = "Failed" THEN a.deferred ELSE None
  <1>1. Route(a, s) = [a EXCEPT !.status = s, !.conflict = conflict, !.backoff = backoff,
                                !.token = token, !.deferred = deferred]
    BY DEF Route
  <1>2. backoff \in BOOLEAN
    OBVIOUS
  <1>3. conflict \in ConflictsOf(D, C) \cup {None} /\ token \in Nat \cup {None}
        /\ deferred \in Etags \cup {None}
    BY DEF AppsOf
  <1> HIDE DEF conflict, backoff, token, deferred
  <1>4. Route(a, s) \in AppsOf(D, B, G, C)
    <2> DEFINE a1 == [a EXCEPT !.status = s]
               a2 == [a1 EXCEPT !.conflict = conflict]
               a3 == [a2 EXCEPT !.backoff = backoff]
               a4 == [a3 EXCEPT !.token = token]
               a5 == [a4 EXCEPT !.deferred = deferred]
    <2>1. Route(a, s) = a5
      BY <1>1
    <2>2. a1 \in AppsOf(D, B, G, C)
      BY Setters
    <2>3. a2 \in AppsOf(D, B, G, C)
      <3> HIDE DEF a1
      <3> QED BY <1>3, <2>2, Setters
    <2>4. a3 \in AppsOf(D, B, G, C)
      <3> HIDE DEF a2
      <3> QED BY <1>2, <2>3, Setters
    <2>5. a4 \in AppsOf(D, B, G, C)
      <3> HIDE DEF a3
      <3> QED BY <1>3, <2>4, Setters
    <2>6. a5 \in AppsOf(D, B, G, C)
      <3> HIDE DEF a4
      <3> QED BY <1>3, <2>5, Setters
    <2> QED
      BY <2>1, <2>6
  <1>5. LET b == Route(a, s)
        IN  /\ SameSession(a, b) /\ SameDocument(a, b) /\ SameSave(a, b) /\ SameBinding(a, b)
            /\ SameMarks(a, b) /\ b.overlay = a.overlay
    BY <1>1, SMTT(60) DEF AppsOf, SameSession, SameDocument, SameSave, SameBinding, SameMarks
  <1>6. LET b == Route(a, s)
        IN  /\ b.status = s /\ b.conflict = conflict /\ b.token = token /\ b.deferred = deferred
            /\ b.backoff = backoff
    BY <1>1, SMTT(60) DEF AppsOf
  <1> QED
    BY <1>2, <1>4, <1>5, <1>6 DEF conflict, backoff, token, deferred

-----------------------------------------------------------------------------
(* What keeps Core. *)

\* A new status, and what may go with it.
LEMMA StatusCore ==
  ASSUME NEW a, NEW b, Core(a),
         SameSession(a, b), SameDocument(a, b), SameSave(a, b), SameBinding(a, b), SameMarks(a, b),
         b.conflict \in {a.conflict, None}, b.token \in {a.token, None},
         ~InMemory(a) => b.status = "Disconnected",
         b.status = "Syncing" => a.binding # None,
         b.status = "Conflict" => b.conflict # None
  PROVE  Core(b)
  <1>1. InMemory(b) <=> InMemory(a)
    BY DEF SameSession, InMemory
  <1>2. \A session : IsCurrent(b, session) <=> IsCurrent(a, session)
    BY <1>1 DEF SameSession, IsCurrent, SyncSession
  <1>3. Numbered(b)
    BY DEF Core, Numbered, SameMarks
  <1>4. UserEditsGrow(b)
    BY DEF Core, UserEditsGrow, SameSession, SameDocument, SameSave
  <1>5. MergesHoldTheDocument(b)
    BY <1>2 DEF Core, MergesHoldTheDocument, SameSession, SameDocument, SameSave, SameMarks
  <1>6. SavesAreTrue(b)
    BY DEF Core, SavesAreTrue, SameSave
  <1>7. LockedIsQuiet(b)
    BY <1>1 DEF Core, LockedIsQuiet, SameBinding, SameSession, SameSave
  <1>8. SessionsArePast(b)
    BY DEF Core, SessionsArePast, Dated, SameMarks, SameSession, SameSave
  <1>9. CurrentIsBound(b)
    BY <1>2 DEF Core, CurrentIsBound, OfTheBinding, SameMarks, SameBinding, SameSave
  <1>10. SlotIsHeld(b)
    BY <1>2 DEF Core, SlotIsHeld, SameMarks
  <1>11. Marked(b)
    BY DEF Core, Marked, SameMarks
  <1> QED
    BY <1>3, <1>4, <1>5, <1>6, <1>7, <1>8, <1>9, <1>10, <1>11 DEF Core

\* A new task, with the mark that waits for it.
LEMMA TaskCore ==
  ASSUME NEW a, NEW b, NEW t, Core(a),
         SameSession(a, b), SameDocument(a, b), SameSave(a, b), SameBinding(a, b),
         b.conflict \in {a.conflict, None},
         ~InMemory(a) => b.status = "Disconnected",
         b.status = "Syncing" => a.binding # None,
         b.status = "Conflict" => b.conflict # None,
         b.awaiting = a.awaiting \/ Dated(a, b.awaiting.session),
         b.tasks = a.tasks \cup {t}, \A u \in a.tasks : u.id # t.id,
         Dated(a, t.owner),
         t.kind \in {"push", "pull", "decrypt"} /\ IsCurrent(a, t.owner) => OfTheBinding(a, t.etag),
         t.kind \in {"restore", "publish"} => t.answer = None,
         t.kind = "decrypt" /\ IsCurrent(a, t.owner) /\ t.base = a.gen => t.local = a.doc,
         \/ b.slot = a.slot /\ (t.kind = "push" => t.resolves)
         \/ /\ a.slot = None /\ b.slot # None
            /\ b.slot.owner = t.owner /\ b.slot.pending = None
            /\ t.kind = "push" /\ ~t.resolves,
         b.auto => a.auto \/ t.kind = "pull",
         b.token \in {a.token, None} \/ (b.token = t.id /\ t.kind = "decrypt")
  PROVE  Core(b)
  <1>1. InMemory(b) <=> InMemory(a)
    BY DEF SameSession, InMemory
  <1>2. \A session : IsCurrent(b, session) <=> IsCurrent(a, session)
    BY <1>1 DEF SameSession, IsCurrent, SyncSession
  <1>3. Numbered(b)
    BY FS_AddElement DEF Core, Numbered
  <1>4. UserEditsGrow(b)
    BY DEF Core, UserEditsGrow, SameSession, SameDocument, SameSave
  <1>5. MergesHoldTheDocument(b)
    BY <1>2 DEF Core, MergesHoldTheDocument, SameSession, SameDocument, SameSave
  <1>6. SavesAreTrue(b)
    BY DEF Core, SavesAreTrue, SameSave
  <1>7. LockedIsQuiet(b)
    BY <1>1 DEF Core, LockedIsQuiet, SameBinding, SameSession, SameSave
  <1>8. SessionsArePast(b)
    BY DEF Core, SessionsArePast, Dated, SameSession, SameSave
  <1>9. CurrentIsBound(b)
    BY <1>2 DEF Core, CurrentIsBound, OfTheBinding, SameBinding, SameSave
  <1>10. SlotIsHeld(b)
    BY <1>2 DEF Core, SlotIsHeld
  <1>11. Marked(b)
    BY DEF Core, Marked
  <1> QED
    BY <1>3, <1>4, <1>5, <1>6, <1>7, <1>8, <1>9, <1>10, <1>11 DEF Core

\* A request that waits in the slot or for a restore.
LEMMA RequestCore ==
  ASSUME NEW a, NEW b, Core(a),
         SameSession(a, b), SameDocument(a, b), SameSave(a, b), SameBinding(a, b),
         SameStatus(a, b), b.tasks = a.tasks, b.auto = a.auto,
         b.awaiting = a.awaiting \/ b.awaiting = None \/ Dated(a, b.awaiting.session),
         \/ b.slot = a.slot
         \/ /\ a.slot # None /\ b.slot # None /\ b.slot.owner = a.slot.owner
            /\ b.slot.pending # None => Dated(a, b.slot.pending.session)
  PROVE  Core(b)
  <1>1. InMemory(b) <=> InMemory(a)
    BY DEF SameSession, InMemory
  <1>2. \A session : IsCurrent(b, session) <=> IsCurrent(a, session)
    BY <1>1 DEF SameSession, IsCurrent, SyncSession
  <1>3. Numbered(b)
    BY DEF Core, Numbered
  <1>4. UserEditsGrow(b)
    BY DEF Core, UserEditsGrow, SameSession, SameDocument, SameSave
  <1>5. MergesHoldTheDocument(b)
    BY <1>2 DEF Core, MergesHoldTheDocument, SameSession, SameDocument, SameSave, SameStatus
  <1>6. SavesAreTrue(b)
    BY DEF Core, SavesAreTrue, SameSave
  <1>7. LockedIsQuiet(b)
    BY <1>1 DEF Core, LockedIsQuiet, SameBinding, SameSession, SameSave, SameStatus
  <1>8. SessionsArePast(b)
    BY DEF Core, SessionsArePast, Dated, SameSession, SameSave, SameStatus
  <1>9. CurrentIsBound(b)
    BY <1>2 DEF Core, CurrentIsBound, OfTheBinding, SameBinding, SameSave, SameStatus
  <1>10. SlotIsHeld(b)
    BY <1>2 DEF Core, SlotIsHeld
  <1>11. Marked(b)
    BY DEF Core, Marked, SameStatus
  <1> QED
    BY <1>3, <1>4, <1>5, <1>6, <1>7, <1>8, <1>9, <1>10, <1>11 DEF Core

-----------------------------------------------------------------------------
(* The methods. *)

\* None is none of the records.
LEMMA NoneIsNone ==
  ASSUME NEW D, NEW B, NEW G, NEW C, Over(D, B, G, C)
  PROVE  /\ None \notin Nat /\ None \notin Etags /\ None \notin B /\ None \notin G
         /\ None \notin RequestsOf(B) /\ None \notin SlotsOf(B) /\ None \notin MergeMarks
         /\ None \notin SavesOf(D) /\ None \notin ConflictsOf(D, C)
         /\ None \notin AnswersOf({"network", "throttled", "grant"})
         /\ None \notin AnswersOf({"network", "grant", "same"})
         /\ None \notin AnswersOf({"network", "grant", "gone"})
         /\ None \notin AnswersOf({"refused"})
         /\ None \notin SyncedAnswers /\ None \notin BoundAnswers(G)
         /\ None \notin CopyAnswers("conflict", C) /\ None \notin CopyAnswers("pulled", C)
  <1>1. None \notin Nat /\ None \notin Etags /\ None \notin MergeMarks /\ None \notin SyncedAnswers
    BY NoneIsNothing
  <1>2. B \subseteq FileBytes
    BY DEF Over, FileBytes
  <1>3. None \notin B
    BY <1>2, NoneIsNothing
  <1>4. G \subseteq BindingRecords /\ None \notin G
    BY NoneIsNothing DEF Over
  <1>5. C \subseteq CopyRecords
    BY DEF Over, CopyRecords
  <1>6. RequestsOf(B) \subseteq RequestsOf(FileBytes)
    BY <1>2 DEF RequestsOf
  <1>7. SlotsOf(B) \subseteq SlotsOf(FileBytes)
    BY <1>6 DEF SlotsOf
  <1>8. SavesOf(D) \subseteq SavesOf(SUBSET AllEdits)
    BY DEF SavesOf, Over
  <1>9. ConflictsOf(D, C) \subseteq ConflictsOf(SUBSET AllEdits, CopyRecords)
    BY <1>5 DEF ConflictsOf, Over
  <1>10. /\ None \notin AnswersOf({"network", "throttled", "grant"})
         /\ None \notin AnswersOf({"network", "grant", "same"})
         /\ None \notin AnswersOf({"network", "grant", "gone"})
         /\ None \notin AnswersOf({"refused"})
    BY NoneIsNothing DEF AnswersOf
  <1>11. BoundAnswers(G) \subseteq BoundAnswers(BindingRecords)
    BY <1>4 DEF BoundAnswers
  <1>12. CopyAnswers("conflict", C) \subseteq CopyAnswers("conflict", CopyRecords)
    BY <1>5 DEF CopyAnswers
  <1>13. CopyAnswers("pulled", C) \subseteq CopyAnswers("pulled", CopyRecords)
    BY <1>5 DEF CopyAnswers
  <1> QED
    BY <1>1, <1>3, <1>4, <1>6, <1>7, <1>8, <1>9, <1>10, <1>11, <1>12, <1>13, NoneIsNothing

\* The session in memory is one of the past.
LEMMA CurrentSession ==
  ASSUME NEW D, NEW B, NEW G, NEW C, NEW a \in AppsOf(D, B, G, C)
  PROVE  /\ SyncSession(a) \in SyncSessions /\ Dated(a, SyncSession(a))
         /\ InMemory(a) => IsCurrent(a, SyncSession(a))
         /\ \A session : IsCurrent(a, session) => session = SyncSession(a) /\ InMemory(a)
  <1>1. a.sess \in Nat /\ a.bindGen \in Nat
    BY DEF AppsOf
  <1> QED
    BY <1>1 DEF SyncSession, SyncSessions, Dated, IsCurrent

LEMMA SpawnFields ==
  ASSUME NEW D, NEW B, NEW G, NEW C, NEW a \in AppsOf(D, B, G, C), NEW t \in TasksIn(D, B, G, C)
  PROVE  LET b == Spawn(a, t)
         IN  /\ b \in AppsOf(D, B, G, C)
             /\ SameSession(a, b) /\ SameDocument(a, b) /\ SameSave(a, b) /\ SameBinding(a, b)
             /\ SameStatus(a, b) /\ b.overlay = a.overlay
             /\ b.slot = a.slot /\ b.awaiting = a.awaiting /\ b.auto = a.auto
             /\ b.tasks = a.tasks \cup {t}
  <1>1. a.tasks \cup {t} \in SUBSET TasksIn(D, B, G, C)
    BY DEF AppsOf
  <1>2. Spawn(a, t) = [a EXCEPT !.tasks = a.tasks \cup {t}]
    BY DEF Spawn
  <1> DEFINE tasks == a.tasks \cup {t}
  <1> HIDE DEF tasks
  <1>3. Spawn(a, t) \in AppsOf(D, B, G, C)
    <2>1. Spawn(a, t) = [a EXCEPT !.tasks = tasks] /\ tasks \in SUBSET TasksIn(D, B, G, C)
      BY <1>1, <1>2 DEF tasks
    <2>2. \A x \in SUBSET TasksIn(D, B, G, C) : [a EXCEPT !.tasks = x] \in AppsOf(D, B, G, C)
      BY Setters
    <2> QED
      BY <2>1, <2>2
  <1> QED
    BY <1>2, <1>3 DEF AppsOf, SameSession, SameDocument, SameSave, SameBinding, SameStatus

RestoreEnds(a) == a.status = "Restoring" => WillRestore(a)

\* try_restore_sync_binding.
LEMMA TryRestoreKeeps ==
  ASSUME NEW D, NEW B, NEW G, NEW C, Over(D, B, G, C), NEW a \in AppsOf(D, B, G, C),
         Core(a), InMemory(a)
  PROVE  LET b == TryRestore(a)
         IN  /\ b \in AppsOf(D, B, G, C) /\ Core(b)
             /\ SameSession(a, b) /\ SameDocument(a, b) /\ SameSave(a, b)
             /\ BusyEnds(a) \/ (RestoreEnds(a) /\ a.binding = None) => BusyEnds(b)
  <1>1. CASE a.binding # None \/ a.cfg = None
    <2>1. TryRestore(a) = a
      BY <1>1 DEF TryRestore
    <2>2. a.binding = None => a.status # "Syncing"
      BY DEF Core, LockedIsQuiet
    <2> QED
      BY <2>1, <2>2 DEF SameSession, SameDocument, SameSave, BusyEnds, RestoreEnds
  <1>2. CASE ~(a.binding # None \/ a.cfg = None)
    <2> DEFINE r == Route(a, "Restoring")
               t == [kind |-> "restore", id |-> NewId(a), owner |-> SyncSession(a),
                     phase |-> "read", answer |-> None]
               b == Spawn(r, t)
    <2>1. TryRestore(a) = b
      BY <1>2 DEF TryRestore
    <2>2. "Restoring" \in Statuses
      BY DEF Statuses, Busy
    <2>3. /\ r \in AppsOf(D, B, G, C) /\ SameSession(a, r) /\ SameDocument(a, r) /\ SameSave(a, r)
          /\ SameBinding(a, r) /\ SameMarks(a, r) /\ r.status = "Restoring" /\ r.conflict = None
          /\ r.token = a.token
      BY <2>2, RouteFields DEF Resting
    <2>4. NewId(a) \in Nat /\ \A u \in a.tasks : u.id # NewId(a)
      BY FreshId DEF Core, Numbered
    <2>5. SyncSession(a) \in SyncSessions /\ Dated(a, SyncSession(a)) /\ IsCurrent(a, SyncSession(a))
      BY CurrentSession
    <2>6. t \in RestoresOf(G) /\ t.kind = "restore" /\ t.answer = None /\ t.owner = SyncSession(a)
          /\ t.id = NewId(a)
      BY <2>4, <2>5 DEF RestoresOf
    <2>7. t \in TasksIn(D, B, G, C)
      BY <2>6 DEF TasksIn
    <2> HIDE DEF r, t
    <2>8. /\ b \in AppsOf(D, B, G, C) /\ SameSession(r, b) /\ SameDocument(r, b) /\ SameSave(r, b)
          /\ SameBinding(r, b) /\ SameStatus(r, b) /\ b.slot = r.slot /\ b.awaiting = r.awaiting
          /\ b.auto = r.auto /\ b.tasks = r.tasks \cup {t}
      BY <2>3, <2>7, SpawnFields
    <2> HIDE DEF b
    <2>9. /\ SameSession(a, b) /\ SameDocument(a, b) /\ SameSave(a, b) /\ SameBinding(a, b)
          /\ b.status = "Restoring" /\ b.conflict = None /\ b.token = a.token /\ b.slot = a.slot
          /\ b.awaiting = a.awaiting /\ b.auto = a.auto /\ b.tasks = a.tasks \cup {t}
      BY <2>3, <2>8 DEF SameSession, SameDocument, SameSave, SameBinding, SameStatus, SameMarks
    <2>10. Core(b)
      BY <2>4, <2>5, <2>6, <2>9, TaskCore
    <2>11. BusyEnds(b)
      <3>1. IsCurrent(b, t.owner) /\ t \in b.tasks
        BY <2>5, <2>6, <2>9 DEF IsCurrent, SyncSession, SameSession, InMemory
      <3> QED
        BY <2>6, <2>9, <3>1 DEF BusyEnds, WillRestore
    <2> QED
      BY <2>1, <2>8, <2>9, <2>10, <2>11
  <1> QED
    BY <1>1, <1>2

\* The task of a push is over what its binding is over.
LEMMA PushTaskTyped ==
  ASSUME NEW D, NEW B, NEW G, NEW C, Over(D, B, G, C), NEW a \in AppsOf(D, B, G, C),
         Core(a), a.binding # None, NEW session \in SyncSessions, NEW interactive \in BOOLEAN,
         NEW bytes \in B \cup {None}, NEW etag \in Etags, etag.remote = a.binding.remote,
         NEW resolves \in BOOLEAN
  PROVE  LET t == PushTask(a, session, interactive, bytes, etag, resolves)
         IN  /\ t \in TasksIn(D, B, G, C)
             /\ t.kind = "push" /\ t.owner = session /\ t.etag = etag /\ t.resolves = resolves
             /\ t.id = NewId(a) /\ \A u \in a.tasks : u.id # t.id
  <1> DEFINE t == PushTask(a, session, interactive, bytes, etag, resolves)
  <1>1. NewId(a) \in Nat /\ \A u \in a.tasks : u.id # NewId(a)
    BY FreshId DEF Core, Numbered
  <1>2. a.binding \in G
    BY DEF AppsOf
  <1>3. a.binding.remote \in Remotes
    BY <1>2 DEF Over, BindingRecords
  <1>4. t \in [kind : {"push"}, id : Nat, owner : SyncSessions, interactive : BOOLEAN,
              bytes : B \cup {None}, remote : Remotes, etag : Etags, resolves : BOOLEAN,
              phase : {"read", "send", "rejected", "done"},
              answer : AnswersOf({"network", "throttled", "grant"}) \cup SyncedAnswers
                         \cup CopyAnswers("conflict", C) \cup {None}]
    BY <1>1, <1>3 DEF PushTask
  <1>5. t.kind = "push" /\ t.owner = session /\ t.etag = etag /\ t.resolves = resolves
        /\ t.id = NewId(a) /\ t.phase = "read" /\ t.answer = None /\ t.remote = a.binding.remote
    BY DEF PushTask
  <1> HIDE DEF t
  <1>6. t \in PushesOf(B, G, C)
    BY <1>4, <1>5, NoneIsNone DEF PushesOf
  <1> QED
    BY <1>1, <1>5, <1>6 DEF t, TasksIn

\* sync_now_for_path_inner: it starts a push, or leaves a request where one will be found.
LEMMA PushNowKeeps ==
  ASSUME NEW D, NEW B, NEW G, NEW C, Over(D, B, G, C), NEW a \in AppsOf(D, B, G, C), Core(a),
         NEW session \in SyncSessions, NEW interactive \in BOOLEAN, NEW bytes \in B \cup {None}
  PROVE  LET b == PushNow(a, session, interactive, bytes)
         IN  /\ b \in AppsOf(D, B, G, C) /\ Core(b)
             /\ SameSession(a, b) /\ SameDocument(a, b) /\ SameSave(a, b)
             /\ BusyEnds(a) \/ (RestoreEnds(a) /\ IsCurrent(a, session)) => BusyEnds(b)
  <1> DEFINE request == Request(session, interactive, bytes)
             b == PushNow(a, session, interactive, bytes)
  <1>r. request \in RequestsOf(B) /\ request.session = session
    BY DEF Request, RequestsOf
  <1>s. IsCurrent(a, session) => Dated(a, session) /\ InMemory(a)
    BY CurrentSession
  <1> HIDE DEF request
  <1>1. CASE ~IsCurrent(a, session)
    BY <1>1 DEF PushNow, SameSession, SameDocument, SameSave
  <1>2. CASE IsCurrent(a, session) /\ a.slot # None
    <2> DEFINE pending == Coalesce(a.slot.pending, request)
               slot == [a.slot EXCEPT !.pending = pending]
    <2>1. b = [a EXCEPT !.slot = slot]
      BY <1>2 DEF PushNow, request
    <2>2. a.slot \in SlotsOf(B)
      BY <1>2 DEF AppsOf
    <2>3. a.slot.pending \in RequestsOf(B) \cup {None}
      BY <2>2 DEF SlotsOf
    <2>4. pending \in RequestsOf(B) /\ pending.session = session
      <3>1. CASE a.slot.pending # None /\ a.slot.pending.session = session
        <4> DEFINE both == request.interactive \/ a.slot.pending.interactive
        <4>1. both \in BOOLEAN
          OBVIOUS
        <4>2. pending = [request EXCEPT !.interactive = both]
          BY <1>r, <3>1 DEF Coalesce
        <4> HIDE DEF pending, both
        <4> QED
          BY <1>r, <4>1, <4>2 DEF RequestsOf
      <3>2. CASE ~(a.slot.pending # None /\ a.slot.pending.session = session)
        BY <1>r, <3>2 DEF Coalesce
      <3> QED
        BY <3>1, <3>2
    <2> HIDE DEF pending
    <2>5. slot \in SlotsOf(B) /\ slot.owner = a.slot.owner /\ slot.pending = pending
      BY <2>2, <2>4 DEF SlotsOf
    <2> HIDE DEF slot
    <2>6. slot # None /\ pending # None
      BY <2>4, <2>5, NoneIsNone
    <2>7. b \in AppsOf(D, B, G, C)
      <3>1. \A x \in SlotsOf(B) \cup {None} : [a EXCEPT !.slot = x] \in AppsOf(D, B, G, C)
        BY Setters
      <3> QED
        BY <2>1, <2>5, <3>1
    <2> HIDE DEF b
    <2>8. /\ SameSession(a, b) /\ SameDocument(a, b) /\ SameSave(a, b) /\ SameBinding(a, b)
          /\ SameStatus(a, b) /\ b.slot = slot /\ b.awaiting = a.awaiting /\ b.auto = a.auto
          /\ b.tasks = a.tasks
      BY <2>1 DEF AppsOf, SameSession, SameDocument, SameSave, SameBinding, SameStatus
    <2>9. Core(b)
      BY <1>2, <1>s, <2>4, <2>5, <2>6, <2>8, RequestCore
    <2>10. IsCurrent(b, session)
      BY <1>2, <2>8 DEF IsCurrent, InMemory, SyncSession, SameSession
    <2>11. WillSync(b)
      BY <2>4, <2>5, <2>6, <2>8, <2>10 DEF WillSync
    <2>12. RestoreEnds(a) => RestoreEnds(b)
      BY <2>8 DEF RestoreEnds, WillRestore, IsCurrent, InMemory, SyncSession, SameSession, SameStatus
    <2> QED
      BY <2>7, <2>8, <2>9, <2>11, <2>12 DEF b, BusyEnds, RestoreEnds
  <1>3. CASE IsCurrent(a, session) /\ a.slot = None /\ a.binding = None
    <2>1. CASE a.place = "active"
      <3> DEFINE w == [a EXCEPT !.awaiting = request]
      <3>1. b = TryRestore(w)
        BY <1>3, <2>1 DEF PushNow, request
      <3>2. w \in AppsOf(D, B, G, C)
        BY <1>r, Setters
      <3>3. /\ SameSession(a, w) /\ SameDocument(a, w) /\ SameSave(a, w) /\ SameBinding(a, w)
            /\ SameStatus(a, w) /\ w.slot = a.slot /\ w.awaiting = request /\ w.auto = a.auto
            /\ w.tasks = a.tasks
        BY DEF AppsOf, SameSession, SameDocument, SameSave, SameBinding, SameStatus
      <3> HIDE DEF w
      <3>4. Core(w)
        BY <1>3, <1>r, <1>s, <3>3, RequestCore
      <3>5. InMemory(w) /\ w.binding = None
        BY <1>3, <1>s, <3>3 DEF InMemory, SameSession, SameBinding
      <3>6. RestoreEnds(a) => RestoreEnds(w)
        BY <3>3 DEF RestoreEnds, WillRestore, IsCurrent, InMemory, SyncSession, SameSession, SameStatus
      <3>7. BusyEnds(a) => RestoreEnds(a)
        BY DEF BusyEnds, RestoreEnds
      <3>8. /\ b \in AppsOf(D, B, G, C) /\ Core(b)
            /\ SameSession(w, b) /\ SameDocument(w, b) /\ SameSave(w, b)
            /\ RestoreEnds(w) => BusyEnds(b)
        BY <3>1, <3>2, <3>4, <3>5, TryRestoreKeeps
      <3> QED
        BY <3>3, <3>6, <3>7, <3>8 DEF SameSession, SameDocument, SameSave
    <2>2. CASE a.place # "active"
      <3>1. b = a
        BY <1>3, <2>2 DEF PushNow
      <3>2. a.status # "Syncing"
        BY <1>3 DEF Core, LockedIsQuiet
      <3> QED
        BY <3>1, <3>2 DEF SameSession, SameDocument, SameSave, BusyEnds, RestoreEnds
    <2> QED
      BY <2>1, <2>2
  <1>4. CASE IsCurrent(a, session) /\ a.slot = None /\ a.binding # None
    <2> DEFINE slot == [owner |-> session, pending |-> None]
               w == [a EXCEPT !.slot = slot]
               r == Route(w, "Syncing")
               resolves == FALSE
               t == PushTask(a, session, interactive, bytes, a.binding.etag, resolves)
    <2>1. b = Spawn(r, t)
      BY <1>4 DEF PushNow
    <2>2. slot \in SlotsOf(B)
      BY DEF SlotsOf
    <2>3. slot.owner = session /\ slot.pending = None /\ slot # None
      BY <2>2, NoneIsNone
    <2> HIDE DEF slot
    <2>4. w \in AppsOf(D, B, G, C)
      BY <2>2, Setters
    <2>5. /\ SameSession(a, w) /\ SameDocument(a, w) /\ SameSave(a, w) /\ SameBinding(a, w)
          /\ SameStatus(a, w) /\ w.slot = slot /\ w.awaiting = a.awaiting /\ w.auto = a.auto
          /\ w.tasks = a.tasks
      BY DEF AppsOf, SameSession, SameDocument, SameSave, SameBinding, SameStatus
    <2> HIDE DEF w
    <2>6. "Syncing" \in Statuses
      BY DEF Statuses, Busy
    <2>7. /\ r \in AppsOf(D, B, G, C) /\ SameSession(w, r) /\ SameDocument(w, r) /\ SameSave(w, r)
          /\ SameBinding(w, r) /\ SameMarks(w, r) /\ r.status = "Syncing" /\ r.conflict = None
          /\ r.token = None
      BY <2>4, <2>6, RouteFields
    <2>8. a.binding.etag \in Etags /\ a.binding.etag.remote = a.binding.remote
      BY <1>4 DEF AppsOf, Over, BindingRecords
    <2>f. resolves \in BOOLEAN /\ ~resolves
      OBVIOUS
    <2> HIDE DEF resolves
    <2>9. /\ t \in TasksIn(D, B, G, C)
          /\ t.kind = "push" /\ t.owner = session /\ t.etag = a.binding.etag /\ t.resolves = resolves
          /\ t.id = NewId(a) /\ \A u \in a.tasks : u.id # t.id
      BY <1>4, <2>8, <2>f, PushTaskTyped
    <2> HIDE DEF t, r
    <2>10. /\ b \in AppsOf(D, B, G, C) /\ SameSession(r, b) /\ SameDocument(r, b) /\ SameSave(r, b)
           /\ SameBinding(r, b) /\ SameStatus(r, b) /\ b.slot = r.slot /\ b.awaiting = r.awaiting
           /\ b.auto = r.auto /\ b.tasks = r.tasks \cup {t}
      BY <2>1, <2>7, <2>9, SpawnFields
    <2> HIDE DEF b
    <2>11. /\ SameSession(a, b) /\ SameDocument(a, b) /\ SameSave(a, b) /\ SameBinding(a, b)
           /\ b.status = "Syncing" /\ b.conflict = None /\ b.token = None
           /\ b.slot = slot /\ b.awaiting = a.awaiting /\ b.auto = a.auto
           /\ b.tasks = a.tasks \cup {t}
      BY <2>5, <2>7, <2>10
      DEF SameSession, SameDocument, SameSave, SameBinding, SameStatus, SameMarks
    <2>12. OfTheBinding(a, t.etag)
      BY <1>4, <2>8, <2>9 DEF OfTheBinding
    <2>13. Core(b)
      BY <1>4, <1>s, <2>3, <2>9, <2>f, <2>11, <2>12, TaskCore
    <2>14. IsCurrent(b, t.owner) /\ t \in b.tasks
      BY <1>4, <2>9, <2>11 DEF IsCurrent, SyncSession, SameSession, InMemory
    <2>15. BusyEnds(b)
      BY <2>9, <2>11, <2>14 DEF BusyEnds, WillSync
    <2> QED
      BY <2>10, <2>11, <2>13, <2>15 DEF b
  <1> QED
    BY <1>1, <1>2, <1>3, <1>4

\* start_queued_sync.
LEMMA StartQueuedKeeps ==
  ASSUME NEW D, NEW B, NEW G, NEW C, Over(D, B, G, C), NEW a \in AppsOf(D, B, G, C), Core(a),
         NEW request \in RequestsOf(B) \cup {None}
  PROVE  LET b == StartQueued(a, request)
         IN  /\ b \in AppsOf(D, B, G, C) /\ Core(b)
             /\ SameSession(a, b) /\ SameDocument(a, b) /\ SameSave(a, b)
             /\ \/ BusyEnds(a)
                \/ RestoreEnds(a) /\ request # None /\ IsCurrent(a, request.session)
                => BusyEnds(b)
  <1>1. CASE request = None
    BY <1>1 DEF StartQueued, SameSession, SameDocument, SameSave
  <1>2. CASE request # None
    <2>1. /\ request.session \in SyncSessions /\ request.interactive \in BOOLEAN
          /\ request.bytes \in B \cup {None}
      BY <1>2 DEF RequestsOf
    <2>2. StartQueued(a, request) = PushNow(a, request.session, request.interactive, request.bytes)
      BY <1>2 DEF StartQueued
    <2> QED
      BY <2>1, <2>2, PushNowKeeps
  <1> QED
    BY <1>1, <1>2

-----------------------------------------------------------------------------
(* Saves and baselines. *)

\* A save fits: its merge is of a session of the past, of its binding, and holds the document
\* unless that moved on.
SaveFits(a) ==
  /\ a.place = "locked" => a.save = None
  /\ a.save # None /\ a.save.merge # None =>
        /\ Dated(a, a.save.merge.owner)
        /\ a.save.merge.base = a.gen => a.doc \subseteq a.save.edits
        /\ IsCurrent(a, a.save.merge.owner) => OfTheBinding(a, a.save.merge.etag)

LEMMA SaveCore ==
  ASSUME NEW a, NEW b, Core(a), SameSession(a, b), SameDocument(a, b), SameBinding(a, b),
         SameStatus(a, b), SameMarks(a, b), UserEditsGrow(b), SavesAreTrue(b), SaveFits(b)
  PROVE  Core(b)
  <1>1. InMemory(b) <=> InMemory(a)
    BY DEF SameSession, InMemory
  <1>2. \A session : IsCurrent(b, session) <=> IsCurrent(a, session)
    BY <1>1 DEF SameSession, IsCurrent, SyncSession
  <1>3. Numbered(b)
    BY DEF Core, Numbered, SameMarks
  <1>5. MergesHoldTheDocument(b)
    BY <1>2 DEF Core, MergesHoldTheDocument, SameDocument, SaveFits, SameStatus, SameMarks
  <1>7. LockedIsQuiet(b)
    BY <1>1 DEF Core, LockedIsQuiet, SameBinding, SameSession, SaveFits, SameStatus
  <1>8. SessionsArePast(b)
    BY DEF Core, SessionsArePast, Dated, SameMarks, SameSession, SaveFits, SameStatus
  <1>9. CurrentIsBound(b)
    BY <1>2 DEF Core, CurrentIsBound, OfTheBinding, SameMarks, SameBinding, SaveFits, SameStatus
  <1>10. SlotIsHeld(b)
    BY <1>2 DEF Core, SlotIsHeld, SameMarks
  <1>11. Marked(b)
    BY DEF Core, Marked, SameMarks, SameStatus
  <1> QED
    BY <1>3, <1>5, <1>7, <1>8, <1>9, <1>10, <1>11 DEF Core

\* A save that has a result is the one that was there.
NoNewResult(a, b) ==
  b.save # None /\ b.save.result # "running" => a.save # None /\ a.save.result = b.save.result

LEMMA NewSaveTyped ==
  ASSUME NEW D, NEW edits \in D, NEW sync \in BOOLEAN, NEW merge \in MergeMarks \cup {None}
  PROVE  LET s == NewSave(edits, sync, merge)
         IN  /\ s \in SavesOf(D)
             /\ s.edits = edits /\ s.merge = merge /\ s.result = "running" /\ s.pending = FALSE
             /\ s.sync = sync
  BY DEF NewSave, SavesOf

\* request_save_for_session.
LEMMA RequestSaveKeeps ==
  ASSUME NEW D, NEW B, NEW G, NEW C, Over(D, B, G, C), NEW a \in AppsOf(D, B, G, C), Core(a),
         a.place # "locked", NEW sync \in BOOLEAN
  PROVE  LET b == RequestSave(a, sync)
         IN  /\ b \in AppsOf(D, B, G, C) /\ Core(b)
             /\ SameSession(a, b) /\ SameDocument(a, b) /\ SameBinding(a, b) /\ SameStatus(a, b)
             /\ SameMarks(a, b) /\ b.save # None /\ NoNewResult(a, b)
             /\ BusyEnds(a) \/ (sync /\ RestoreEnds(a)) => BusyEnds(b)
  <1> DEFINE b == RequestSave(a, sync)
  <1>1. PICK s \in SavesOf(D) :
          /\ b = [a EXCEPT !.unsaved = TRUE, !.save = s]
          /\ \/ /\ a.save = None /\ s.edits = a.doc /\ s.merge = None /\ s.result = "running"
                /\ sync => s.sync
             \/ /\ a.save # None /\ s.edits = a.save.edits /\ s.merge = a.save.merge
                /\ s.result = a.save.result /\ s.rev = a.save.rev /\ s.pending
                /\ a.save.sync => s.sync
                /\ (sync \/ a.save.pendingSync) => s.pendingSync
    <2>1. CASE a.save = None
      <3>1. a.doc \in D /\ None \in MergeMarks \cup {None}
        BY DEF AppsOf
      <3> DEFINE s == NewSave(a.doc, sync, None)
      <3>2. s \in SavesOf(D) /\ s.edits = a.doc /\ s.merge = None /\ s.result = "running"
            /\ s.sync = sync
        BY <3>1 DEF NewSave, SavesOf
      <3>3. b = [a EXCEPT !.unsaved = TRUE, !.save = s]
        BY <2>1 DEF RequestSave
      <3> HIDE DEF s, b
      <3> QED
        BY <2>1, <3>2, <3>3 DEF b
    <2>2. CASE a.save # None
      <3> DEFINE pendingSync == a.save.pendingSync \/ sync
                 pending == TRUE
                 s == [a.save EXCEPT !.pending = pending, !.pendingSync = pendingSync]
      <3>1. a.save \in SavesOf(D)
        BY <2>2 DEF AppsOf
      <3>2. pendingSync \in BOOLEAN /\ pending \in BOOLEAN /\ pending
        BY <3>1 DEF SavesOf
      <3>3. b = [a EXCEPT !.unsaved = TRUE, !.save = s]
        BY <2>2 DEF RequestSave
      <3>4. (sync \/ a.save.pendingSync) => pendingSync
        OBVIOUS
      <3> HIDE DEF pendingSync, pending, b
      <3>5. s \in SavesOf(D) /\ s.pending = pending /\ s.pendingSync = pendingSync
            /\ s.edits = a.save.edits /\ s.merge = a.save.merge /\ s.result = a.save.result
            /\ s.rev = a.save.rev /\ s.sync = a.save.sync
        BY <3>1, <3>2 DEF SavesOf
      <3> HIDE DEF s
      <3> QED
        BY <2>2, <3>2, <3>3, <3>4, <3>5 DEF b
    <2> QED
      BY <2>1, <2>2
  <1> HIDE DEF b
  <1>2. s # None
    BY NoneIsNone
  <1>3. /\ SameSession(a, b) /\ SameDocument(a, b) /\ SameBinding(a, b) /\ SameStatus(a, b)
        /\ SameMarks(a, b) /\ b.save = s
    BY <1>1 DEF AppsOf, SameSession, SameDocument, SameBinding, SameStatus, SameMarks
  <1>4. b \in AppsOf(D, B, G, C)
    <2> DEFINE flag == TRUE
               w == [a EXCEPT !.unsaved = flag]
    <2>1. flag \in BOOLEAN
      OBVIOUS
    <2>2. b = [w EXCEPT !.save = s]
      BY <1>1
    <2> HIDE DEF flag
    <2>3. w \in AppsOf(D, B, G, C)
      BY <2>1, Setters
    <2> HIDE DEF w
    <2>4. \A x \in SavesOf(D) \cup {None} : [w EXCEPT !.save = x] \in AppsOf(D, B, G, C)
      BY <2>3, Setters
    <2> QED
      BY <2>2, <2>4
  <1>5. UserEditsGrow(b)
    BY <1>1, <1>2, <1>3 DEF Core, UserEditsGrow, SameSession, SameDocument
  <1>6. SavesAreTrue(b)
    <2>1. CASE a.save = None
      BY <1>1, <1>2, <1>3, <2>1 DEF SavesAreTrue
    <2>2. CASE a.save # None
      BY <1>1, <1>2, <1>3, <2>2 DEF Core, SavesAreTrue
    <2> QED
      BY <2>1, <2>2
  <1>7. \A session : IsCurrent(b, session) <=> IsCurrent(a, session)
    BY <1>3 DEF SameSession, IsCurrent, SyncSession, InMemory
  <1>8. SaveFits(b)
    BY <1>1, <1>2, <1>3, <1>7
    DEF Core, SessionsArePast, MergesHoldTheDocument, CurrentIsBound, SaveFits, SameSession,
        SameDocument, SameBinding, Dated, OfTheBinding
  <1>9. Core(b)
    BY <1>3, <1>5, <1>6, <1>8, SaveCore
  <1>10. NoNewResult(a, b)
    BY <1>1, <1>3 DEF NoNewResult
  <1>11. sync => WillSync(b)
    BY <1>1, <1>2, <1>3 DEF WillSync
  <1>12. WillSync(a) => WillSync(b)
    BY <1>1, <1>2, <1>3, <1>7 DEF WillSync, SameStatus, SameMarks
  <1>13. WillRestore(a) => WillRestore(b)
    BY <1>3, <1>7 DEF WillRestore, SameMarks
  <1> QED
    BY <1>2, <1>3, <1>4, <1>9, <1>10, <1>11, <1>12, <1>13 DEF b, BusyEnds, RestoreEnds, SameStatus

\* A binding that moves on with its remote file.
LEMMA BaselineCore ==
  ASSUME NEW a, NEW b, Core(a), SameSession(a, b), SameDocument(a, b), SameSave(a, b),
         SameStatus(a, b), SameMarks(a, b),
         a.binding # None, b.binding # None, b.binding.remote = a.binding.remote, b.cfg = b.binding
  PROVE  Core(b)
  <1>1. InMemory(b) <=> InMemory(a)
    BY DEF SameSession, InMemory
  <1>2. \A session : IsCurrent(b, session) <=> IsCurrent(a, session)
    BY <1>1 DEF SameSession, IsCurrent, SyncSession
  <1>3. Numbered(b)
    BY DEF Core, Numbered, SameMarks
  <1>4. UserEditsGrow(b)
    BY DEF Core, UserEditsGrow, SameSession, SameDocument, SameSave
  <1>5. MergesHoldTheDocument(b)
    BY <1>2 DEF Core, MergesHoldTheDocument, SameDocument, SameSave, SameStatus, SameMarks
  <1>6. SavesAreTrue(b)
    BY DEF Core, SavesAreTrue, SameSave
  <1>7. LockedIsQuiet(b)
    BY <1>1 DEF Core, LockedIsQuiet, SameSession, SameSave, SameStatus
  <1>8. SessionsArePast(b)
    BY DEF Core, SessionsArePast, Dated, SameMarks, SameSession, SameSave, SameStatus
  <1>9. CurrentIsBound(b)
    BY <1>2 DEF Core, CurrentIsBound, OfTheBinding, SameMarks, SameSave, SameStatus
  <1>10. SlotIsHeld(b)
    BY <1>2 DEF Core, SlotIsHeld, SameMarks
  <1>11. Marked(b)
    BY DEF Core, Marked, SameMarks, SameStatus
  <1> QED
    BY <1>3, <1>4, <1>5, <1>6, <1>7, <1>8, <1>9, <1>10, <1>11 DEF Core

\* What is busy stays so while no session, save, mark or status changes.
LEMMA SameBusy ==
  ASSUME NEW a, NEW b, SameSession(a, b), SameSave(a, b), SameStatus(a, b), SameMarks(a, b)
  PROVE  (BusyEnds(b) <=> BusyEnds(a)) /\ (RestoreEnds(b) <=> RestoreEnds(a))
  <1>1. \A session : IsCurrent(b, session) <=> IsCurrent(a, session)
    BY DEF SameSession, IsCurrent, SyncSession, InMemory
  <1>2. WillSync(b) <=> WillSync(a)
    BY <1>1 DEF WillSync, SameSave, SameStatus, SameMarks
  <1>3. WillRestore(b) <=> WillRestore(a)
    BY <1>1 DEF WillRestore, SameMarks
  <1> QED
    BY <1>2, <1>3 DEF BusyEnds, RestoreEnds, SameStatus

\* record_upload_baseline and adopt_fast_forward_baseline.
LEMMA RecordBaselineKeeps ==
  ASSUME NEW D, NEW B, NEW G, NEW C, Over(D, B, G, C), NEW a \in AppsOf(D, B, G, C), Core(a),
         NEW session, NEW etag, NEW rev,
         IsCurrent(a, session) /\ a.binding # None =>
             [remote |-> a.binding.remote, etag |-> etag, uploaded |-> rev] \in G
  PROVE  LET b == RecordBaseline(a, session, etag, rev)
         IN  /\ b \in AppsOf(D, B, G, C) /\ Core(b)
             /\ SameSession(a, b) /\ SameDocument(a, b) /\ SameSave(a, b) /\ SameStatus(a, b)
             /\ SameMarks(a, b)
  <1> DEFINE b == RecordBaseline(a, session, etag, rev)
  <1>1. CASE ~(IsCurrent(a, session) /\ a.binding # None)
    <2>1. b = a
      BY <1>1 DEF RecordBaseline
    <2> QED
      BY <2>1 DEF SameSession, SameDocument, SameSave, SameStatus, SameMarks
  <1>2. CASE IsCurrent(a, session) /\ a.binding # None
    <2> DEFINE g == [remote |-> a.binding.remote, etag |-> etag, uploaded |-> rev]
    <2>1. b = [a EXCEPT !.binding = g, !.cfg = g]
      BY <1>2 DEF RecordBaseline
    <2>4. g \in G /\ g # None /\ g.remote = a.binding.remote
      BY <1>2, NoneIsNone
    <2>b. b = [a EXCEPT !.binding = g, !.cfg = g]
      BY <2>1
    <2> HIDE DEF g, b
    <2>5. b \in AppsOf(D, B, G, C)
      <3> DEFINE w == [a EXCEPT !.binding = g]
      <3>1. b = [w EXCEPT !.cfg = g]
        BY <2>1
      <3>2. w \in AppsOf(D, B, G, C)
        BY <2>4, Setters
      <3> HIDE DEF w
      <3>3. \A x \in G \cup {None} : [w EXCEPT !.cfg = x] \in AppsOf(D, B, G, C)
        BY <3>2, Setters
      <3> QED
        BY <2>4, <3>1, <3>3
    <2>6. /\ SameSession(a, b) /\ SameDocument(a, b) /\ SameSave(a, b) /\ SameStatus(a, b)
          /\ SameMarks(a, b) /\ b.binding = g /\ b.cfg = g
      BY <2>b DEF AppsOf, SameSession, SameDocument, SameSave, SameStatus, SameMarks
    <2>7. Core(b)
      BY <1>2, <2>4, <2>6, BaselineCore
    <2> QED
      BY <2>5, <2>6, <2>7 DEF b
  <1> QED
    BY <1>1, <1>2

\* route_sync_status, to a status of a session in memory.
LEMMA RouteKeeps ==
  ASSUME NEW D, NEW B, NEW G, NEW C, NEW a \in AppsOf(D, B, G, C), Core(a),
         NEW s \in Statuses, InMemory(a) \/ s = "Disconnected",
         s = "Syncing" => a.binding # None, s # "Conflict"
  PROVE  LET b == Route(a, s)
         IN  /\ b \in AppsOf(D, B, G, C) /\ Core(b)
             /\ SameSession(a, b) /\ SameDocument(a, b) /\ SameSave(a, b) /\ SameBinding(a, b)
             /\ SameMarks(a, b) /\ b.status = s /\ b.conflict = None
             /\ s \notin {"Syncing", "Restoring"} => BusyEnds(b)
             /\ s # "Restoring" => RestoreEnds(b)
  <1> DEFINE b == Route(a, s)
  <1>1. /\ b \in AppsOf(D, B, G, C) /\ SameSession(a, b) /\ SameDocument(a, b) /\ SameSave(a, b)
        /\ SameBinding(a, b) /\ SameMarks(a, b) /\ b.status = s /\ b.conflict = None
        /\ b.token \in {a.token, None}
    BY RouteFields
  <1> HIDE DEF b
  <1>2. Core(b)
    BY <1>1, StatusCore
  <1> QED
    BY <1>1, <1>2 DEF b, BusyEnds, RestoreEnds

\* note_sync_failure with record_sync_throttle.
LEMMA NoteFailureKeeps ==
  ASSUME NEW D, NEW B, NEW G, NEW C, NEW a \in AppsOf(D, B, G, C), Core(a), InMemory(a), NEW why
  PROVE  LET b == NoteFailure(a, why)
         IN  /\ b \in AppsOf(D, B, G, C) /\ Core(b)
             /\ SameSession(a, b) /\ SameDocument(a, b) /\ SameSave(a, b) /\ SameBinding(a, b)
             /\ BusyEnds(b)
  <1>s. {"Failed", "Reconnect"} \subseteq Statuses
    BY DEF Statuses
  <1>1. CASE why = "throttled"
    <2> DEFINE flag == TRUE
               w == [a EXCEPT !.backoff = flag]
    <2>1. NoteFailure(a, why) = Route(w, "Failed")
      BY <1>1 DEF NoteFailure
    <2>2. flag \in BOOLEAN
      OBVIOUS
    <2> HIDE DEF flag
    <2>3. w \in AppsOf(D, B, G, C)
      BY <2>2, Setters
    <2>4. /\ SameSession(a, w) /\ SameDocument(a, w) /\ SameSave(a, w) /\ SameBinding(a, w)
          /\ SameMarks(a, w) /\ w.conflict = a.conflict /\ w.token = a.token /\ w.status = a.status
      BY DEF AppsOf, SameSession, SameDocument, SameSave, SameBinding, SameMarks
    <2> HIDE DEF w
    <2>5. Core(w) /\ InMemory(w)
      BY <2>4, StatusCore DEF Core, LockedIsQuiet, InMemory, SameSession
    <2>6. LET b == Route(w, "Failed")
          IN  /\ b \in AppsOf(D, B, G, C) /\ Core(b) /\ BusyEnds(b)
              /\ SameSession(w, b) /\ SameDocument(w, b) /\ SameSave(w, b) /\ SameBinding(w, b)
      BY <1>s, <2>3, <2>5, RouteKeeps
    <2> QED
      BY <2>1, <2>4, <2>6 DEF SameSession, SameDocument, SameSave, SameBinding
  <1>2. CASE why # "throttled"
    <2>1. PICK s \in {"Failed", "Reconnect"} : NoteFailure(a, why) = Route(a, s)
      BY <1>2 DEF NoteFailure
    <2>2. s \in Statuses /\ s \notin {"Syncing", "Restoring", "Conflict"}
      BY <1>s, <2>1
    <2> QED
      BY <2>1, <2>2, RouteKeeps
  <1> QED
    BY <1>1, <1>2

\* handle_remote_conflict_for: what was downloaded is decrypted, and the newest decryption counts.
LEMMA HandleRemoteKeeps ==
  ASSUME NEW D, NEW B, NEW G, NEW C, Over(D, B, G, C), NEW a \in AppsOf(D, B, G, C), Core(a),
         NEW session \in SyncSessions, NEW got, Copy(got) \in C, NEW interactive \in BOOLEAN,
         got.edits \cap UserEdits \subseteq file.edits,
         IsCurrent(a, session) /\ a.binding # None => got.etag.remote = a.binding.remote
  PROVE  LET b == HandleRemote(a, session, got, interactive)
         IN  /\ b \in AppsOf(D, B, G, C) /\ Core(b)
             /\ SameSession(a, b) /\ SameDocument(a, b) /\ SameSave(a, b) /\ SameBinding(a, b)
             /\ BusyEnds(a) \/ (RestoreEnds(a) /\ IsCurrent(a, session)) => BusyEnds(b)
  <1> DEFINE b == HandleRemote(a, session, got, interactive)
  <1>1. CASE ~IsCurrent(a, session) \/ a.binding = None
    <2>1. b = a
      BY <1>1 DEF HandleRemote
    <2>2. a.binding = None => a.status # "Syncing"
      BY DEF Core, LockedIsQuiet
    <2> QED
      BY <1>1, <2>1, <2>2
      DEF SameSession, SameDocument, SameSave, SameBinding, BusyEnds, RestoreEnds
  <1>2. CASE IsCurrent(a, session) /\ a.binding # None
    <2> DEFINE w == [a EXCEPT !.token = NewId(a)]
               t == [kind |-> "decrypt", id |-> NewId(a), owner |-> session, local |-> a.doc,
                     base |-> a.gen, theirs |-> got.edits, etag |-> got.etag,
                     interactive |-> interactive]
    <2>1. b = Spawn(w, t)
      BY <1>2 DEF HandleRemote
    <2>2. NewId(a) \in Nat /\ \A u \in a.tasks : u.id # NewId(a)
      BY FreshId DEF Core, Numbered
    <2>3. w \in AppsOf(D, B, G, C)
      BY <2>2, Setters
    <2>4. /\ SameSession(a, w) /\ SameDocument(a, w) /\ SameSave(a, w) /\ SameBinding(a, w)
          /\ SameMarks(a, w) /\ w.conflict = a.conflict /\ w.status = a.status
          /\ w.token = NewId(a)
      BY DEF AppsOf, SameSession, SameDocument, SameSave, SameBinding, SameMarks
    <2>5. [edits |-> got.edits, etag |-> got.etag] \in C
      BY DEF Copy
    <2>6. got.edits \in D /\ got.etag \in Etags
      BY <2>5 DEF Over
    <2>7. a.doc \in D /\ a.gen \in Nat
      BY DEF AppsOf
    <2>8. got.edits \cap UserEdits \subseteq a.doc
      BY <1>2 DEF Core, UserEditsGrow, IsCurrent, InMemory
    <2>9. /\ t.kind = "decrypt" /\ t.id = NewId(a) /\ t.owner = session /\ t.local = a.doc
          /\ t.base = a.gen /\ t.theirs = got.edits /\ t.etag = got.etag
      OBVIOUS
    <2>10. t \in [kind : {"decrypt"}, id : Nat, owner : SyncSessions, local : D, base : Nat,
                 theirs : D, etag : Etags, interactive : BOOLEAN]
      BY <2>2, <2>6, <2>7
    <2> HIDE DEF t, w
    <2>11. t \in TasksIn(D, B, G, C)
      BY <2>5, <2>8, <2>9, <2>10 DEF TasksIn, DecryptsOf, Sides
    <2>12. /\ b \in AppsOf(D, B, G, C) /\ SameSession(w, b) /\ SameDocument(w, b) /\ SameSave(w, b)
           /\ SameBinding(w, b) /\ SameStatus(w, b) /\ b.slot = w.slot /\ b.awaiting = w.awaiting
           /\ b.auto = w.auto /\ b.tasks = w.tasks \cup {t}
      BY <2>1, <2>3, <2>11, SpawnFields
    <2> HIDE DEF b
    <2>13. /\ SameSession(a, b) /\ SameDocument(a, b) /\ SameSave(a, b) /\ SameBinding(a, b)
           /\ b.status = a.status /\ b.conflict = a.conflict /\ b.token = t.id
           /\ b.slot = a.slot /\ b.awaiting = a.awaiting /\ b.auto = a.auto
           /\ b.tasks = a.tasks \cup {t}
      BY <2>4, <2>9, <2>12
      DEF SameSession, SameDocument, SameSave, SameBinding, SameStatus, SameMarks
    <2>14. OfTheBinding(a, t.etag) /\ Dated(a, t.owner) /\ InMemory(a)
      BY <1>2, <2>9, CurrentSession DEF OfTheBinding
    <2>15. a.status = "Conflict" => a.conflict # None
      BY DEF Core, LockedIsQuiet
    <2>16. Core(b)
      BY <1>2, <2>2, <2>9, <2>13, <2>14, <2>15, TaskCore
    <2>17. \A s : IsCurrent(b, s) <=> IsCurrent(a, s)
      BY <2>13 DEF IsCurrent, SyncSession, SameSession, InMemory
    <2>18. WillSync(b)
      BY <1>2, <2>9, <2>13, <2>17 DEF WillSync
    <2>19. WillRestore(a) => WillRestore(b)
      BY <2>13, <2>17 DEF WillRestore
    <2> QED
      BY <2>12, <2>13, <2>16, <2>18, <2>19 DEF b, BusyEnds, RestoreEnds
  <1> QED
    BY <1>1, <1>2

WithMerge(a, merged, mark) == [a EXCEPT !.unsaved = TRUE, !.save = NewSave(merged, FALSE, mark)]

\* The save of a merge takes the place of no other.
LEMMA MergeSaveKeeps ==
  ASSUME NEW D, NEW B, NEW G, NEW C, Over(D, B, G, C), NEW a \in AppsOf(D, B, G, C), Core(a),
         a.save = None, NEW merged \in D, NEW mark \in MergeMarks,
         IsCurrent(a, mark.owner), OfTheBinding(a, mark.etag), mark.base = a.gen,
         a.doc \subseteq merged, merged \cap UserEdits \subseteq a.doc,
         ~mark.needsUpload /\ mark.etag = remotes[mark.etag.remote].etag =>
             merged \subseteq remotes[mark.etag.remote].edits
  PROVE  LET b == WithMerge(a, merged, mark)
         IN  /\ b \in AppsOf(D, B, G, C) /\ Core(b)
             /\ SameSession(a, b) /\ SameDocument(a, b) /\ SameBinding(a, b) /\ SameStatus(a, b)
             /\ SameMarks(a, b) /\ b.save # None /\ b.save.merge = mark /\ b.save.result = "running"
  <1> DEFINE s == NewSave(merged, FALSE, mark)
             flag == TRUE
             w == [a EXCEPT !.unsaved = flag]
             b == [w EXCEPT !.save = s]
  <1>1. s \in SavesOf(D) /\ s.edits = merged /\ s.merge = mark /\ s.result = "running"
    BY DEF NewSave, SavesOf
  <1>2. flag \in BOOLEAN
    OBVIOUS
  <1> HIDE DEF s, flag
  <1>3. w \in AppsOf(D, B, G, C)
    BY <1>2, Setters
  <1>4. b \in AppsOf(D, B, G, C)
    <2> HIDE DEF w
    <2>1. \A x \in SavesOf(D) \cup {None} : [w EXCEPT !.save = x] \in AppsOf(D, B, G, C)
      BY <1>3, Setters
    <2> QED
      BY <1>1, <2>1
  <1>5. /\ SameSession(a, b) /\ SameDocument(a, b) /\ SameBinding(a, b) /\ SameStatus(a, b)
        /\ SameMarks(a, b) /\ b.save = s
    BY DEF AppsOf, SameSession, SameDocument, SameBinding, SameStatus, SameMarks
  <1>6. s # None /\ mark # None
    BY <1>1, NoneIsNone
  <1>b. b = WithMerge(a, merged, mark)
    BY DEF flag, s, WithMerge
  <1> HIDE DEF b
  <1>7. \A session : IsCurrent(b, session) <=> IsCurrent(a, session)
    BY <1>5 DEF SameSession, IsCurrent, SyncSession, InMemory
  <1>8. a.place # "locked" /\ file.edits \cap UserEdits \subseteq a.doc
    BY DEF Core, UserEditsGrow, IsCurrent, InMemory
  <1>9. UserEditsGrow(b)
    BY <1>1, <1>5, <1>6, <1>8 DEF UserEditsGrow, SameSession, SameDocument
  <1>10. SavesAreTrue(b)
    BY <1>1, <1>5, <1>6 DEF SavesAreTrue
  <1>11. Dated(a, mark.owner)
    BY CurrentSession
  <1>12. SaveFits(b)
    BY <1>1, <1>5, <1>6, <1>8, <1>11
    DEF SaveFits, SameSession, SameDocument, SameBinding, Dated, OfTheBinding
  <1>13. Core(b)
    BY <1>5, <1>9, <1>10, <1>12, SaveCore
  <1> QED
    BY <1>1, <1>4, <1>5, <1>6, <1>13, <1>b

\* commit_merged_for up to its spawn.
LEMMA CommitMergedKeeps ==
  ASSUME NEW D, NEW B, NEW G, NEW C, Over(D, B, G, C), NEW a \in AppsOf(D, B, G, C), Core(a),
         NEW session \in SyncSessions, NEW merged \in D, NEW etag \in Etags,
         NEW needsUpload \in BOOLEAN, NEW base \in Nat,
         IsCurrent(a, session) => OfTheBinding(a, etag),
         IsCurrent(a, session) /\ base = a.gen =>
             a.doc \subseteq merged /\ merged \cap UserEdits \subseteq a.doc,
         ~needsUpload /\ etag = remotes[etag.remote].etag => merged \subseteq remotes[etag.remote].edits
  PROVE  LET b == CommitMerged(a, session, merged, etag, needsUpload, base)
         IN  /\ b \in AppsOf(D, B, G, C) /\ Core(b)
             /\ SameSession(a, b) /\ SameDocument(a, b) /\ SameBinding(a, b) /\ NoNewResult(a, b)
             /\ BusyEnds(a) \/ IsCurrent(a, session) => BusyEnds(b)
  <1> DEFINE b == CommitMerged(a, session, merged, etag, needsUpload, base)
  <1>s. "Syncing" \in Statuses
    BY DEF Statuses, Busy
  <1>1. CASE ~IsCurrent(a, session) \/ a.binding = None
    <2>1. b = a
      BY <1>1 DEF CommitMerged
    <2>2. ~IsCurrent(a, session)
      BY <1>1 DEF OfTheBinding
    <2> QED
      BY <2>1, <2>2 DEF SameSession, SameDocument, SameBinding, NoNewResult
  <1>2. CASE IsCurrent(a, session) /\ a.binding # None /\ Outdated(a, base)
    <2> DEFINE r == Route(a, "Syncing")
               sync == TRUE
    <2>1. b = RequestSave(r, sync)
      BY <1>2 DEF CommitMerged
    <2>2. InMemory(a) /\ a.place # "locked"
      BY <1>2 DEF IsCurrent, InMemory
    <2>3. /\ r \in AppsOf(D, B, G, C) /\ Core(r)
          /\ SameSession(a, r) /\ SameDocument(a, r) /\ SameSave(a, r) /\ SameBinding(a, r)
          /\ RestoreEnds(r)
      BY <1>2, <1>s, <2>2, RouteKeeps
    <2>4. r.place # "locked" /\ sync \in BOOLEAN /\ sync
      BY <2>2, <2>3 DEF SameSession
    <2> HIDE DEF r, sync, b
    <2>5. /\ b \in AppsOf(D, B, G, C) /\ Core(b)
          /\ SameSession(r, b) /\ SameDocument(r, b) /\ SameBinding(r, b) /\ NoNewResult(r, b)
          /\ BusyEnds(b)
      BY <2>1, <2>3, <2>4, RequestSaveKeeps
    <2> QED
      BY <2>3, <2>5 DEF b, SameSession, SameDocument, SameBinding, SameSave, NoNewResult
  <1>3. CASE IsCurrent(a, session) /\ a.binding # None /\ ~Outdated(a, base)
    <2> DEFINE mark == [owner |-> session, etag |-> etag, base |-> base,
                        needsUpload |-> needsUpload]
               w == WithMerge(a, merged, mark)
    <2>1. b = Route(w, "Syncing")
      BY <1>3 DEF CommitMerged, WithMerge
    <2>2. mark \in MergeMarks /\ mark.owner = session /\ mark.etag = etag /\ mark.base = base
          /\ mark.needsUpload = needsUpload
      BY DEF MergeMarks
    <2>3. a.save = None /\ base = a.gen
      BY <1>3 DEF Outdated
    <2> HIDE DEF mark
    <2>m. /\ IsCurrent(a, mark.owner) /\ OfTheBinding(a, mark.etag) /\ mark.base = a.gen
          /\ a.doc \subseteq merged /\ merged \cap UserEdits \subseteq a.doc
      BY <1>3, <2>2, <2>3
    <2>u. ~mark.needsUpload /\ mark.etag = remotes[mark.etag.remote].etag =>
             merged \subseteq remotes[mark.etag.remote].edits
      BY <2>2
    <2>4. /\ w \in AppsOf(D, B, G, C) /\ Core(w)
          /\ SameSession(a, w) /\ SameDocument(a, w) /\ SameBinding(a, w)
          /\ w.save # None /\ w.save.merge = mark /\ w.save.result = "running"
      BY <2>2, <2>3, <2>m, <2>u, MergeSaveKeeps
    <2> HIDE DEF w
    <2>5. InMemory(w) /\ w.binding # None
      BY <1>3, <2>4 DEF IsCurrent, InMemory, SameSession, SameBinding
    <2>6. /\ b \in AppsOf(D, B, G, C) /\ Core(b)
          /\ SameSession(w, b) /\ SameDocument(w, b) /\ SameSave(w, b) /\ SameBinding(w, b)
          /\ RestoreEnds(b)
      BY <1>s, <2>1, <2>4, <2>5, RouteKeeps
    <2> HIDE DEF b
    <2>7. IsCurrent(b, mark.owner)
      BY <1>3, <2>2, <2>4, <2>6 DEF IsCurrent, InMemory, SyncSession, SameSession
    <2>8. mark # None
      BY <2>2, NoneIsNone
    <2>9. WillSync(b)
      BY <2>4, <2>6, <2>7, <2>8 DEF WillSync, SameSave
    <2>10. NoNewResult(a, b)
      BY <2>4, <2>6 DEF NoNewResult, SameSave
    <2> QED
      BY <2>4, <2>6, <2>9, <2>10
      DEF b, SameSession, SameDocument, SameBinding, BusyEnds, RestoreEnds
  <1> QED
    BY <1>1, <1>2, <1>3

\* The conflict a merge found, on the screen.
Shown(a, c) == [a EXCEPT !.overlay = "conflict", !.conflict = c]

LEMMA ShownKeeps ==
  ASSUME NEW D, NEW B, NEW G, NEW C, Over(D, B, G, C), NEW a \in AppsOf(D, B, G, C), Core(a),
         NEW c \in ConflictsOf(D, C), IsCurrent(a, c.owner), OfTheBinding(a, c.etag),
         c.base = a.gen => c.local = a.doc
  PROVE  LET b == Shown(a, c)
         IN  /\ b \in AppsOf(D, B, G, C) /\ Core(b)
             /\ SameSession(a, b) /\ SameDocument(a, b) /\ SameSave(a, b) /\ SameBinding(a, b)
             /\ b.conflict = c /\ b.conflict # None
  <1> DEFINE w == [a EXCEPT !.overlay = "conflict"]
             b == Shown(a, c)
  <1>1. b = [w EXCEPT !.conflict = c]
    BY DEF Shown
  <1>2. w \in AppsOf(D, B, G, C)
    BY Setters
  <1>3. b \in AppsOf(D, B, G, C)
    <2> HIDE DEF w, b
    <2>1. \A x \in ConflictsOf(D, C) \cup {None} : [w EXCEPT !.conflict = x] \in AppsOf(D, B, G, C)
      BY <1>2, Setters
    <2> QED
      BY <1>1, <2>1
  <1>4. /\ SameSession(a, b) /\ SameDocument(a, b) /\ SameSave(a, b) /\ SameBinding(a, b)
        /\ SameMarks(a, b) /\ b.conflict = c /\ b.status = a.status /\ b.token = a.token
    BY DEF Shown, AppsOf, SameSession, SameDocument, SameSave, SameBinding, SameMarks
  <1>5. c # None
    BY NoneIsNone
  <1> HIDE DEF b
  <1>6. InMemory(a) /\ Dated(a, c.owner)
    BY CurrentSession
  <1>7. InMemory(b)
    BY <1>4, <1>6 DEF SameSession, InMemory
  <1>8. \A session : IsCurrent(b, session) <=> IsCurrent(a, session)
    BY <1>4 DEF SameSession, IsCurrent, SyncSession, InMemory
  <1>9. Numbered(b)
    BY <1>4 DEF Core, Numbered, SameMarks
  <1>10. UserEditsGrow(b)
    BY <1>4 DEF Core, UserEditsGrow, SameSession, SameDocument, SameSave
  <1>11. MergesHoldTheDocument(b)
    BY <1>4, <1>8 DEF Core, MergesHoldTheDocument, SameDocument, SameSave, SameMarks
  <1>12. SavesAreTrue(b)
    BY <1>4 DEF Core, SavesAreTrue, SameSave
  <1>13. LockedIsQuiet(b)
    BY <1>4, <1>5, <1>7 DEF Core, LockedIsQuiet, SameSession, SameSave, SameBinding
  <1>14. SessionsArePast(b)
    BY <1>4, <1>6 DEF Core, SessionsArePast, Dated, SameMarks, SameSession, SameSave
  <1>15. CurrentIsBound(b)
    BY <1>4, <1>8 DEF Core, CurrentIsBound, OfTheBinding, SameMarks, SameSave, SameBinding
  <1>16. SlotIsHeld(b)
    BY <1>4, <1>8 DEF Core, SlotIsHeld, SameMarks
  <1>17. Marked(b)
    BY <1>4 DEF Core, Marked, SameMarks
  <1>18. Core(b)
    BY <1>9, <1>10, <1>11, <1>12, <1>13, <1>14, <1>15, <1>16, <1>17 DEF Core
  <1> QED
    BY <1>3, <1>4, <1>5, <1>18 DEF b

\* RemoteMergePlan::of and continue_remote_conflict_for.
LEMMA ContinueRemoteKeeps ==
  ASSUME NEW D, NEW B, NEW G, NEW C, Over(D, B, G, C), NEW a \in AppsOf(D, B, G, C), Core(a),
         NEW d \in DecryptsOf(D, C), IsCurrent(a, d.owner), OfTheBinding(a, d.etag),
         d.base = a.gen => d.local = a.doc,
         Clashing(d.local, d.theirs) = {} => d.local \cup d.theirs \in D,
         d.etag = remotes[d.etag.remote].etag => d.theirs = remotes[d.etag.remote].edits
  PROVE  LET b == ContinueRemote(a, d)
         IN  /\ b \in AppsOf(D, B, G, C) /\ Core(b)
             /\ SameSession(a, b) /\ SameDocument(a, b) /\ SameBinding(a, b) /\ NoNewResult(a, b)
             /\ BusyEnds(b)
  <1> DEFINE b == ContinueRemote(a, d)
             clashes == Clashing(d.local, d.theirs)
             shows == a.place = "active" /\ d.interactive /\ a.overlay # "edit"
  <1>d. /\ d.owner \in SyncSessions /\ d.local \in D /\ d.theirs \in D /\ d.etag \in Etags
        /\ d.base \in Nat /\ d.theirs \cap UserEdits \subseteq d.local
        /\ [edits |-> d.theirs, etag |-> d.etag] \in C
    BY DEF DecryptsOf, Sides
  <1>m. InMemory(a)
    BY CurrentSession
  <1>s. {"Conflict", "Failed"} \subseteq Statuses
    BY DEF Statuses, Busy
  <1>1. CASE clashes = {}
    <2> DEFINE merged == d.local \cup d.theirs
               needsUpload == ~(d.local \subseteq d.theirs)
    <2>1. b = CommitMerged(a, d.owner, merged, d.etag, needsUpload, d.base)
      BY <1>1 DEF ContinueRemote
    <2>2. merged \in D /\ needsUpload \in BOOLEAN
      BY <1>1
    <2>3. d.base = a.gen => a.doc \subseteq merged /\ merged \cap UserEdits \subseteq a.doc
      BY <1>d
    <2>4. ~needsUpload /\ d.etag = remotes[d.etag.remote].etag =>
             merged \subseteq remotes[d.etag.remote].edits
      OBVIOUS
    <2> HIDE DEF merged, needsUpload, b
    <2> QED
      BY <1>d, <2>1, <2>2, <2>3, <2>4, CommitMergedKeeps DEF b
  <1>2. CASE clashes # {} /\ shows
    <2> DEFINE c == [local |-> d.local, theirs |-> d.theirs, etag |-> d.etag, base |-> d.base,
                     owner |-> d.owner]
               w == Shown(a, c)
    <2>1. b = Route(w, "Conflict")
      BY <1>2 DEF ContinueRemote, Shown
    <2>2. c \in ConflictsOf(D, C) /\ c.owner = d.owner /\ c.etag = d.etag /\ c.base = d.base
          /\ c.local = d.local
      BY <1>d DEF ConflictsOf, Sides
    <2> HIDE DEF c
    <2>3. /\ w \in AppsOf(D, B, G, C) /\ Core(w)
          /\ SameSession(a, w) /\ SameDocument(a, w) /\ SameSave(a, w) /\ SameBinding(a, w)
          /\ w.conflict = c /\ w.conflict # None
      BY <2>2, ShownKeeps
    <2> HIDE DEF w
    <2>4. /\ b \in AppsOf(D, B, G, C) /\ SameSession(w, b) /\ SameDocument(w, b) /\ SameSave(w, b)
          /\ SameBinding(w, b) /\ SameMarks(w, b) /\ b.status = "Conflict" /\ b.conflict = w.conflict
          /\ b.token = w.token
      BY <1>s, <2>1, <2>3, RouteFields DEF Resting
    <2> HIDE DEF b
    <2>5. InMemory(w)
      BY <1>m, <2>3 DEF InMemory, SameSession
    <2>6. Core(b)
      BY <2>3, <2>4, <2>5, StatusCore
    <2> QED
      BY <2>3, <2>4, <2>6
      DEF b, SameSession, SameDocument, SameSave, SameBinding, NoNewResult, BusyEnds
  <1>3. CASE clashes # {} /\ ~shows
    <2> DEFINE w == [a EXCEPT !.deferred = d.etag]
    <2>1. b = Route(w, "Failed")
      BY <1>3 DEF ContinueRemote
    <2>2. w \in AppsOf(D, B, G, C)
      BY <1>d, Setters
    <2>3. /\ SameSession(a, w) /\ SameDocument(a, w) /\ SameSave(a, w) /\ SameBinding(a, w)
          /\ SameMarks(a, w) /\ w.status = a.status /\ w.conflict = a.conflict /\ w.token = a.token
      BY DEF AppsOf, SameSession, SameDocument, SameSave, SameBinding, SameMarks
    <2> HIDE DEF w
    <2>4. Core(w) /\ InMemory(w)
      BY <1>m, <2>3, StatusCore DEF Core, LockedIsQuiet, InMemory, SameSession
    <2>5. /\ b \in AppsOf(D, B, G, C) /\ Core(b) /\ BusyEnds(b)
          /\ SameSession(w, b) /\ SameDocument(w, b) /\ SameSave(w, b) /\ SameBinding(w, b)
      BY <1>s, <2>1, <2>2, <2>4, RouteKeeps
    <2> QED
      BY <2>3, <2>5 DEF SameSession, SameDocument, SameSave, SameBinding, NoNewResult
  <1> QED
    BY <1>1, <1>2, <1>3

\* auto_sync_for_path.
LEMMA AutoSyncKeeps ==
  ASSUME NEW D, NEW B, NEW G, NEW C, Over(D, B, G, C), NEW a \in AppsOf(D, B, G, C), Core(a),
         InMemory(a), a.binding # None
  PROVE  LET b == AutoSync(a)
         IN  /\ b \in AppsOf(D, B, G, C) /\ Core(b)
             /\ SameSession(a, b) /\ SameDocument(a, b) /\ SameSave(a, b)
             /\ BusyEnds(a) => BusyEnds(b)
  <1> DEFINE b == AutoSync(a)
             alone == FALSE
             pushed == PushNow(a, SyncSession(a), alone, None)
             Kept(c) == /\ c \in AppsOf(D, B, G, C) /\ Core(c)
                        /\ SameSession(a, c) /\ SameDocument(a, c) /\ SameSave(a, c)
                        /\ BusyEnds(a) => BusyEnds(c)
  <1>s. SyncSession(a) \in SyncSessions /\ Dated(a, SyncSession(a)) /\ IsCurrent(a, SyncSession(a))
    BY CurrentSession
  <1>1. ASSUME b = pushed PROVE Kept(b)
    <2>1. alone \in BOOLEAN /\ None \in B \cup {None}
      OBVIOUS
    <2> HIDE DEF alone, b
    <2> QED
      BY <1>1, <1>s, <2>1, PushNowKeeps
  <1>2. ASSUME b = a PROVE Kept(b)
    BY <1>2 DEF SameSession, SameDocument, SameSave
  <1>3. ASSUME b # a, b # pushed PROVE Kept(b)
    <2> DEFINE w == [a EXCEPT !.auto = TRUE]
               t == [kind |-> "pull", id |-> NewId(a), owner |-> SyncSession(a),
                     remote |-> a.binding.remote, etag |-> a.binding.etag,
                     deferred |-> a.deferred, phase |-> "check", answer |-> None]
    <2>1. b = Spawn(w, t)
      BY <1>3 DEF AutoSync
    <2>2. w \in AppsOf(D, B, G, C)
      <3> DEFINE flag == TRUE
      <3>1. flag \in BOOLEAN /\ w = [a EXCEPT !.auto = flag]
        OBVIOUS
      <3> HIDE DEF flag, w
      <3> QED
        BY <3>1, Setters
    <2>3. /\ SameSession(a, w) /\ SameDocument(a, w) /\ SameSave(a, w) /\ SameBinding(a, w)
          /\ SameStatus(a, w) /\ w.slot = a.slot /\ w.awaiting = a.awaiting /\ w.tasks = a.tasks
      BY DEF AppsOf, SameSession, SameDocument, SameSave, SameBinding, SameStatus
    <2>4. NewId(a) \in Nat /\ \A u \in a.tasks : u.id # NewId(a)
      BY FreshId DEF Core, Numbered
    <2>5. /\ a.binding.remote \in Remotes /\ a.binding.etag \in Etags
          /\ a.binding.etag.remote = a.binding.remote /\ a.deferred \in Etags \cup {None}
      BY DEF AppsOf, Over, BindingRecords
    <2>6. /\ t.kind = "pull" /\ t.id = NewId(a) /\ t.owner = SyncSession(a)
          /\ t.etag = a.binding.etag /\ t.remote = a.binding.remote /\ t.phase = "check"
          /\ t.answer = None
      OBVIOUS
    <2>7. t \in [kind : {"pull"}, id : Nat, owner : SyncSessions, remote : Remotes, etag : Etags,
                deferred : Etags \cup {None}, phase : {"check", "ahead", "done"},
                answer : AnswersOf({"network", "grant", "same"}) \cup CopyAnswers("pulled", C)
                           \cup {None}]
      BY <1>s, <2>4, <2>5
    <2> HIDE DEF t, w
    <2>8. t \in TasksIn(D, B, G, C)
      BY <2>5, <2>6, <2>7, NoneIsNone DEF TasksIn, PullsOf
    <2>9. /\ b \in AppsOf(D, B, G, C) /\ SameSession(w, b) /\ SameDocument(w, b) /\ SameSave(w, b)
          /\ SameBinding(w, b) /\ SameStatus(w, b) /\ b.slot = w.slot /\ b.awaiting = w.awaiting
          /\ b.auto = w.auto /\ b.tasks = w.tasks \cup {t}
      BY <2>1, <2>2, <2>8, SpawnFields
    <2> HIDE DEF b
    <2>10. /\ SameSession(a, b) /\ SameDocument(a, b) /\ SameSave(a, b) /\ SameBinding(a, b)
           /\ SameStatus(a, b) /\ b.slot = a.slot /\ b.awaiting = a.awaiting
           /\ b.tasks = a.tasks \cup {t}
      BY <2>3, <2>9 DEF SameSession, SameDocument, SameSave, SameBinding, SameStatus
    <2>11. OfTheBinding(a, t.etag)
      BY <2>5, <2>6 DEF OfTheBinding
    <2>12. LockedIsQuiet(a)
      BY DEF Core
    <2>13. Core(b)
      BY <1>s, <2>4, <2>6, <2>10, <2>11, <2>12, TaskCore DEF SameStatus, LockedIsQuiet
    <2>14. \A s : IsCurrent(b, s) <=> IsCurrent(a, s)
      BY <2>10 DEF IsCurrent, SyncSession, SameSession, InMemory
    <2>15. WillSync(a) => WillSync(b)
      BY <2>10, <2>14 DEF WillSync, SameSave, SameStatus
    <2>16. WillRestore(a) => WillRestore(b)
      BY <2>10, <2>14 DEF WillRestore
    <2> QED
      BY <2>9, <2>10, <2>13, <2>15, <2>16 DEF b, BusyEnds, SameStatus
  <1> HIDE DEF b, pushed, Kept
  <1>4. Kept(b)
    BY <1>1, <1>2, <1>3
  <1> QED
    BY <1>4 DEF b, Kept
-----------------------------------------------------------------------------
(* What keeps Core: tasks that move on or are gone, sessions that end, and   *)
(* new bindings and documents.                                               *)

\* Another screen over the same session.
LEMMA ScreenCore ==
  ASSUME NEW a, NEW b, Core(a), b.sess = a.sess, b.bindGen = a.bindGen,
         InMemory(b) <=> InMemory(a), b.place = "locked" <=> a.place = "locked",
         SameDocument(a, b), SameSave(a, b), SameBinding(a, b), SameMarks(a, b),
         b.status = a.status, b.conflict = a.conflict, b.token = a.token
  PROVE  Core(b) /\ (BusyEnds(a) => BusyEnds(b))
  <1>2. \A session : IsCurrent(b, session) <=> IsCurrent(a, session)
    BY DEF IsCurrent, SyncSession
  <1>3. Numbered(b)
    BY DEF Core, Numbered, SameMarks
  <1>4. UserEditsGrow(b)
    BY DEF Core, UserEditsGrow, SameDocument, SameSave
  <1>5. MergesHoldTheDocument(b)
    BY <1>2 DEF Core, MergesHoldTheDocument, SameDocument, SameSave, SameMarks
  <1>6. SavesAreTrue(b)
    BY DEF Core, SavesAreTrue, SameSave
  <1>7. LockedIsQuiet(b)
    BY DEF Core, LockedIsQuiet, SameBinding, SameSave
  <1>8. SessionsArePast(b)
    BY DEF Core, SessionsArePast, Dated, SameMarks, SameSave
  <1>9. CurrentIsBound(b)
    BY <1>2 DEF Core, CurrentIsBound, OfTheBinding, SameMarks, SameBinding, SameSave
  <1>10. SlotIsHeld(b)
    BY <1>2 DEF Core, SlotIsHeld, SameMarks
  <1>11. Marked(b)
    BY DEF Core, Marked, SameMarks
  <1>12. WillSync(a) => WillSync(b)
    BY <1>2 DEF WillSync, SameSave, SameMarks
  <1>13. WillRestore(a) => WillRestore(b)
    BY <1>2 DEF WillRestore, SameMarks
  <1> QED
    BY <1>3, <1>4, <1>5, <1>6, <1>7, <1>8, <1>9, <1>10, <1>11, <1>12, <1>13 DEF Core, BusyEnds

\* A task is gone, and the mark that waited for it.
LEMMA GoneCore ==
  ASSUME NEW a, NEW b, NEW t, Core(a), t \in a.tasks,
         SameSession(a, b), SameDocument(a, b), SameSave(a, b), SameBinding(a, b),
         b.status = a.status, b.conflict = a.conflict, b.awaiting = a.awaiting,
         b.tasks = a.tasks \ {t},
         \/ /\ b.slot = a.slot
            /\ t.kind = "push" /\ ~t.resolves /\ a.slot # None => a.slot.owner # t.owner
         \/ /\ a.slot # None /\ b.slot = None
            /\ a.slot.owner = t.owner /\ t.kind = "push" /\ ~t.resolves,
         b.auto => a.auto /\ t.kind # "pull",
         \/ b.token = None
         \/ b.token = a.token /\ (t.kind = "decrypt" => a.token # t.id)
  PROVE  Core(b)
  <1>1. InMemory(b) <=> InMemory(a)
    BY DEF SameSession, InMemory
  <1>2. \A session : IsCurrent(b, session) <=> IsCurrent(a, session)
    BY <1>1 DEF SameSession, IsCurrent, SyncSession
  <1>3. Numbered(b)
    BY FS_Subset DEF Core, Numbered
  <1>4. UserEditsGrow(b)
    BY DEF Core, UserEditsGrow, SameSession, SameDocument, SameSave
  <1>5. MergesHoldTheDocument(b)
    BY <1>2 DEF Core, MergesHoldTheDocument, SameSession, SameDocument, SameSave
  <1>6. SavesAreTrue(b)
    BY DEF Core, SavesAreTrue, SameSave
  <1>7. LockedIsQuiet(b)
    BY <1>1 DEF Core, LockedIsQuiet, SameBinding, SameSession, SameSave
  <1>8. SessionsArePast(b)
    BY DEF Core, SessionsArePast, Dated, SameSession, SameSave
  <1>9. CurrentIsBound(b)
    BY <1>2 DEF Core, CurrentIsBound, OfTheBinding, SameBinding, SameSave
  <1>10. SlotIsHeld(b)
    BY <1>2 DEF Core, SlotIsHeld
  <1>11. Marked(b)
    BY DEF Core, Marked
  <1> QED
    BY <1>3, <1>4, <1>5, <1>6, <1>7, <1>8, <1>9, <1>10, <1>11 DEF Core

\* A task takes its next step; a publication may write the configuration with it.
LEMMA StepCore ==
  ASSUME NEW a, NEW b, NEW t, NEW u, Core(a), t \in a.tasks,
         SameSession(a, b), SameDocument(a, b), SameSave(a, b), b.binding = a.binding,
         SameStatus(a, b), b.slot = a.slot, b.awaiting = a.awaiting, b.auto = a.auto,
         b.tasks = (a.tasks \ {t}) \cup {u},
         u.kind = t.kind, u.id = t.id, u.owner = t.owner, t.kind # "decrypt",
         t.kind \in {"push", "pull"} => u.etag = t.etag,
         t.kind = "push" => u.resolves = t.resolves,
         b.cfg = a.cfg \/ (a.cfg = None /\ b.cfg # None),
         t.kind \in {"restore", "publish"} /\ u.answer # None /\ u.answer.as = "restored" =>
             b.cfg # None /\ b.cfg.remote = u.answer.cfg.remote
  PROVE  Core(b) /\ (BusyEnds(a) => BusyEnds(b))
  <1>1. InMemory(b) <=> InMemory(a)
    BY DEF SameSession, InMemory
  <1>2. \A session : IsCurrent(b, session) <=> IsCurrent(a, session)
    BY <1>1 DEF SameSession, IsCurrent, SyncSession
  <1>3. Numbered(b)
    <2>1. IsFiniteSet(a.tasks \ {t})
      BY FS_Subset DEF Core, Numbered
    <2>2. IsFiniteSet(b.tasks)
      BY <2>1, FS_AddElement
    <2>3. \A x, y \in b.tasks : x.id = y.id => x = y
      BY DEF Core, Numbered
    <2> QED
      BY <2>2, <2>3 DEF Numbered
  <1>4. UserEditsGrow(b)
    BY DEF Core, UserEditsGrow, SameSession, SameDocument, SameSave
  <1>5. MergesHoldTheDocument(b)
    BY <1>2 DEF Core, MergesHoldTheDocument, SameDocument, SameSave, SameStatus
  <1>6. SavesAreTrue(b)
    BY DEF Core, SavesAreTrue, SameSave
  <1>7. LockedIsQuiet(b)
    BY <1>1 DEF Core, LockedIsQuiet, SameSession, SameSave, SameStatus
  <1>8. SessionsArePast(b)
    BY DEF Core, SessionsArePast, Dated, SameSession, SameSave, SameStatus
  <1>9. CurrentIsBound(b)
    BY <1>2 DEF Core, CurrentIsBound, OfTheBinding, SameSave, SameStatus
  <1>10. SlotIsHeld(b)
    BY <1>2 DEF Core, SlotIsHeld
  <1>11. Marked(b)
    BY DEF Core, Marked, SameStatus
  <1>12. WillSync(a) => WillSync(b)
    BY <1>2 DEF WillSync, SameSave, SameStatus
  <1>13. WillRestore(a) => WillRestore(b)
    BY <1>2 DEF WillRestore
  <1> QED
    BY <1>3, <1>4, <1>5, <1>6, <1>7, <1>8, <1>9, <1>10, <1>11, <1>12, <1>13
    DEF Core, BusyEnds, SameStatus

\* Callbacks and requests are of sessions.
LEMMA OwnersAreSessions ==
  ASSUME NEW D, NEW B, NEW G, NEW C, Over(D, B, G, C), NEW a \in AppsOf(D, B, G, C)
  PROVE  /\ \A t \in a.tasks : t.owner \in SyncSessions
         /\ a.slot # None => /\ a.slot.owner \in SyncSessions
                             /\ a.slot.pending # None => a.slot.pending.session \in SyncSessions
         /\ a.awaiting # None => a.awaiting.session \in SyncSessions
         /\ a.save # None /\ a.save.merge # None => a.save.merge.owner \in SyncSessions
  <1>1. \A t \in TasksIn(D, B, G, C) : t.owner \in SyncSessions
    BY DEF TasksIn, PushesOf, PullsOf, DecryptsOf, RestoresOf, PublishesOf
  <1>2. a.tasks \subseteq TasksIn(D, B, G, C)
    BY DEF AppsOf
  <1>3. a.slot \in SlotsOf(B) \cup {None} /\ a.awaiting \in RequestsOf(B) \cup {None}
        /\ a.save \in SavesOf(D) \cup {None}
    BY DEF AppsOf
  <1> QED
    BY <1>1, <1>2, <1>3 DEF SlotsOf, RequestsOf, SavesOf, MergeMarks

\* A session without a binding, none of whose callbacks is still to come.
LEMMA EndCore ==
  ASSUME NEW D, NEW B, NEW G, NEW C, Over(D, B, G, C), NEW a \in AppsOf(D, B, G, C), NEW b,
         Core(a), b.save = a.save, UserEditsGrow(b),
         b.save # None /\ b.save.merge # None /\ b.save.merge.base = b.gen =>
             b.doc \subseteq b.save.edits,
         b.status = "Disconnected", b.binding = None, b.conflict = None,
         b.place = "locked" => b.save = None,
         \A s \in SyncSessions : Dated(a, s) => Dated(b, s) /\ ~IsCurrent(b, s),
         b.slot = a.slot \/ b.slot = None, b.awaiting = a.awaiting \/ b.awaiting = None,
         b.auto => a.auto, b.token = a.token \/ b.token = None, b.tasks = a.tasks
  PROVE  Core(b) /\ BusyEnds(b)
  <1>3. Numbered(b)
    BY DEF Core, Numbered
  <1>s. SessionsArePast(a)
    BY DEF Core
  <1>o. /\ \A t \in a.tasks : t.owner \in SyncSessions
        /\ a.slot # None => /\ a.slot.owner \in SyncSessions
                            /\ a.slot.pending # None => a.slot.pending.session \in SyncSessions
        /\ a.awaiting # None => a.awaiting.session \in SyncSessions
        /\ a.save # None /\ a.save.merge # None => a.save.merge.owner \in SyncSessions
    BY OwnersAreSessions
  <1>4. \A t \in b.tasks : ~IsCurrent(b, t.owner)
    BY <1>o, <1>s DEF SessionsArePast
  <1>5. MergesHoldTheDocument(b)
    BY <1>4 DEF MergesHoldTheDocument
  <1>6. SavesAreTrue(b)
    BY DEF Core, SavesAreTrue
  <1>7. LockedIsQuiet(b)
    BY DEF LockedIsQuiet
  <1>8. SessionsArePast(b)
    BY <1>o, <1>s DEF SessionsArePast
  <1>9. CurrentIsBound(b)
    BY <1>4, <1>o, <1>s DEF CurrentIsBound, SessionsArePast
  <1>10. SlotIsHeld(b)
    BY <1>4 DEF SlotIsHeld
  <1>11. Marked(b)
    BY DEF Core, Marked
  <1> QED
    BY <1>3, <1>5, <1>6, <1>7, <1>8, <1>9, <1>10, <1>11 DEF Core, BusyEnds

\* A restored or published binding, of the remote file the configuration names.
LEMMA BoundCore ==
  ASSUME NEW a, NEW b, Core(a), InMemory(a), SameSession(a, b), SameDocument(a, b),
         SameSave(a, b), SameStatus(a, b), b.slot = a.slot, b.auto = a.auto, b.tasks = a.tasks,
         b.awaiting = a.awaiting \/ b.awaiting = None, b.cfg = a.cfg,
         b.binding # None, a.cfg # None, b.binding.remote = a.cfg.remote
  PROVE  Core(b)
  <1>1. InMemory(b)
    BY DEF SameSession, InMemory
  <1>2. \A session : IsCurrent(b, session) <=> IsCurrent(a, session)
    BY DEF SameSession, IsCurrent, SyncSession, InMemory
  <1>3. Numbered(b)
    BY DEF Core, Numbered
  <1>4. UserEditsGrow(b)
    BY DEF Core, UserEditsGrow, SameSession, SameDocument, SameSave
  <1>5. MergesHoldTheDocument(b)
    BY <1>2 DEF Core, MergesHoldTheDocument, SameDocument, SameSave, SameStatus
  <1>6. SavesAreTrue(b)
    BY DEF Core, SavesAreTrue, SameSave
  <1>7. LockedIsQuiet(b)
    BY <1>1 DEF Core, LockedIsQuiet, SameSession, SameSave, SameStatus
  <1>8. SessionsArePast(b)
    BY DEF Core, SessionsArePast, Dated, SameSession, SameSave, SameStatus
  <1>o. \A etag : OfTheBinding(a, etag) => OfTheBinding(b, etag)
    BY DEF Core, CurrentIsBound, OfTheBinding
  <1>9. CurrentIsBound(b)
    BY <1>2, <1>o DEF Core, CurrentIsBound, SameSave, SameStatus
  <1>10. SlotIsHeld(b)
    BY <1>2 DEF Core, SlotIsHeld
  <1>11. Marked(b)
    BY DEF Core, Marked, SameStatus
  <1> QED
    BY <1>3, <1>4, <1>5, <1>6, <1>7, <1>8, <1>9, <1>10, <1>11 DEF Core

\* A new generation of the document, from which no merge was computed.
LEMMA DocumentCore ==
  ASSUME NEW a, NEW b, Core(a), SameSession(a, b), SameBinding(a, b), SameStatus(a, b),
         SameMarks(a, b), UserEditsGrow(b), b.save = a.save \/ b.save = None,
         \A d \in a.tasks : d.kind = "decrypt" => d.base # b.gen,
         a.conflict # None => a.conflict.base # b.gen,
         a.save # None /\ a.save.merge # None => a.save.merge.base # b.gen
  PROVE  Core(b)
  <1>1. InMemory(b) <=> InMemory(a)
    BY DEF SameSession, InMemory
  <1>2. \A session : IsCurrent(b, session) <=> IsCurrent(a, session)
    BY <1>1 DEF SameSession, IsCurrent, SyncSession
  <1>3. Numbered(b)
    BY DEF Core, Numbered, SameMarks
  <1>5. MergesHoldTheDocument(b)
    BY DEF MergesHoldTheDocument, SameStatus, SameMarks
  <1>6. SavesAreTrue(b)
    BY DEF Core, SavesAreTrue
  <1>7. LockedIsQuiet(b)
    BY <1>1 DEF Core, LockedIsQuiet, SameBinding, SameSession, SameStatus
  <1>8. SessionsArePast(b)
    BY DEF Core, SessionsArePast, Dated, SameMarks, SameSession, SameStatus
  <1>9. CurrentIsBound(b)
    BY <1>2 DEF Core, CurrentIsBound, OfTheBinding, SameMarks, SameBinding, SameStatus
  <1>10. SlotIsHeld(b)
    BY <1>2 DEF Core, SlotIsHeld, SameMarks
  <1>11. Marked(b)
    BY DEF Core, Marked, SameMarks, SameStatus
  <1> QED
    BY <1>3, <1>5, <1>6, <1>7, <1>8, <1>9, <1>10, <1>11 DEF Core

-----------------------------------------------------------------------------
(* The ends of sessions, and tasks that are gone or move on. *)

LEMMA LockNowFields ==
  ASSUME NEW D, NEW B, NEW G, NEW C, Over(D, B, G, C), NEW a \in AppsOf(D, B, G, C)
  PROVE  LET b == LockNow(a)
         IN  /\ b \in AppsOf(D, B, G, C)
             /\ b.place = "locked" /\ b.doc = {} /\ b.binding = None /\ b.status = "Disconnected"
             /\ b.conflict = None /\ b.awaiting = None
             /\ b.sess = a.sess /\ b.gen = a.gen /\ b.save = a.save /\ b.cfg = a.cfg
             /\ b.bindGen = a.bindGen /\ b.token = a.token /\ b.slot = a.slot /\ b.auto = a.auto
             /\ b.tasks = a.tasks
  <1> DEFINE b == LockNow(a)
             no == FALSE
             empty == {}
             a1 == [a EXCEPT !.place = "locked"]
             a2 == [a1 EXCEPT !.overlay = "none"]
             a3 == [a2 EXCEPT !.doc = empty]
             a4 == [a3 EXCEPT !.binding = None]
             a5 == [a4 EXCEPT !.status = "Disconnected"]
             a6 == [a5 EXCEPT !.conflict = None]
             a7 == [a6 EXCEPT !.deferred = None]
             a8 == [a7 EXCEPT !.awaiting = None]
             a9 == [a8 EXCEPT !.unsaved = no]
  <1>1. b = a9
    BY DEF LockNow
  <1>n. no \in BOOLEAN /\ empty \in D /\ "Disconnected" \in Statuses
    BY DEF Over, Statuses
  <1>f. /\ b.place = "locked" /\ b.doc = empty /\ b.binding = None /\ b.status = "Disconnected"
        /\ b.conflict = None /\ b.awaiting = None
        /\ b.sess = a.sess /\ b.gen = a.gen /\ b.save = a.save /\ b.cfg = a.cfg
        /\ b.bindGen = a.bindGen /\ b.token = a.token /\ b.slot = a.slot /\ b.auto = a.auto
        /\ b.tasks = a.tasks
    BY SMTT(60) DEF LockNow, AppsOf
  <1> HIDE DEF no, empty, b
  <1>2. a1 \in AppsOf(D, B, G, C)
    BY Setters
  <1>3. a2 \in AppsOf(D, B, G, C)
    <2> HIDE DEF a1
    <2> QED BY <1>2, Setters
  <1>4. a3 \in AppsOf(D, B, G, C)
    <2> HIDE DEF a2
    <2> QED BY <1>3, <1>n, Setters
  <1>5. a4 \in AppsOf(D, B, G, C)
    <2> HIDE DEF a3
    <2> QED BY <1>4, Setters
  <1>6. a5 \in AppsOf(D, B, G, C)
    <2> HIDE DEF a4
    <2> QED BY <1>5, <1>n, Setters
  <1>7. a6 \in AppsOf(D, B, G, C)
    <2> HIDE DEF a5
    <2> QED BY <1>6, Setters
  <1>8. a7 \in AppsOf(D, B, G, C)
    <2> HIDE DEF a6
    <2> QED BY <1>7, Setters
  <1>9. a8 \in AppsOf(D, B, G, C)
    <2> HIDE DEF a7
    <2> QED BY <1>8, Setters
  <1>10. a9 \in AppsOf(D, B, G, C)
    <2> HIDE DEF a8
    <2> QED BY <1>9, <1>n, Setters
  <1> QED
    BY <1>1, <1>10, <1>f DEF b, empty

LEMMA LockNowKeeps ==
  ASSUME NEW D, NEW B, NEW G, NEW C, Over(D, B, G, C), NEW a \in AppsOf(D, B, G, C), Core(a),
         a.save = None
  PROVE  LET b == LockNow(a)
         IN  /\ b \in AppsOf(D, B, G, C) /\ Core(b) /\ BusyEnds(b)
             /\ b.place = "locked" /\ b.save = None /\ b.sess = a.sess
  <1> DEFINE b == LockNow(a)
  <1>f. /\ b \in AppsOf(D, B, G, C)
        /\ b.place = "locked" /\ b.doc = {} /\ b.binding = None /\ b.status = "Disconnected"
        /\ b.conflict = None /\ b.awaiting = None
        /\ b.sess = a.sess /\ b.gen = a.gen /\ b.save = a.save /\ b.cfg = a.cfg
        /\ b.bindGen = a.bindGen /\ b.token = a.token /\ b.slot = a.slot /\ b.auto = a.auto
        /\ b.tasks = a.tasks
    BY LockNowFields
  <1> HIDE DEF b
  <1>11. UserEditsGrow(b)
    BY <1>f DEF UserEditsGrow
  <1>12. \A s \in SyncSessions : Dated(a, s) => Dated(b, s) /\ ~IsCurrent(b, s)
    BY <1>f DEF Dated, IsCurrent, InMemory
  <1>13. Core(b) /\ BusyEnds(b)
    BY <1>f, <1>11, <1>12, EndCore
  <1> QED
    BY <1>13, <1>f DEF b

LEMMA QuarantineKeeps ==
  ASSUME NEW D, NEW B, NEW G, NEW C, Over(D, B, G, C), NEW a \in AppsOf(D, B, G, C), Core(a), InMemory(a)
  PROVE  LET b == Quarantine(a)
         IN  /\ b \in AppsOf(D, B, G, C) /\ Core(b) /\ BusyEnds(b)
             /\ b.place = "deferred" /\ SameSave(a, b) /\ b.sess = a.sess
  <1> DEFINE b == Quarantine(a)
             no == FALSE
             a1 == [a EXCEPT !.place = "deferred"]
             a2 == [a1 EXCEPT !.overlay = "none"]
             a3 == [a2 EXCEPT !.binding = None]
             a4 == [a3 EXCEPT !.status = "Disconnected"]
             a5 == [a4 EXCEPT !.conflict = None]
             a6 == [a5 EXCEPT !.deferred = None]
             a7 == [a6 EXCEPT !.awaiting = None]
             a8 == [a7 EXCEPT !.slot = None]
             a9 == [a8 EXCEPT !.auto = no]
  <1>1. b = a9
    BY DEF Quarantine
  <1>n. no \in BOOLEAN /\ "Disconnected" \in Statuses
    BY DEF Statuses
  <1>f. /\ b.place = "deferred" /\ b.doc = a.doc /\ b.binding = None /\ b.status = "Disconnected"
        /\ b.conflict = None /\ b.awaiting = None /\ b.slot = None /\ ~b.auto
        /\ b.sess = a.sess /\ b.gen = a.gen /\ b.save = a.save /\ b.cfg = a.cfg
        /\ b.bindGen = a.bindGen /\ b.token = a.token /\ b.tasks = a.tasks /\ b.unsaved = a.unsaved
    BY SMTT(60) DEF Quarantine, AppsOf
  <1> HIDE DEF no, b
  <1>2. a1 \in AppsOf(D, B, G, C)
    BY Setters
  <1>3. a2 \in AppsOf(D, B, G, C)
    <2> HIDE DEF a1
    <2> QED BY <1>2, Setters
  <1>4. a3 \in AppsOf(D, B, G, C)
    <2> HIDE DEF a2
    <2> QED BY <1>3, Setters
  <1>5. a4 \in AppsOf(D, B, G, C)
    <2> HIDE DEF a3
    <2> QED BY <1>4, <1>n, Setters
  <1>6. a5 \in AppsOf(D, B, G, C)
    <2> HIDE DEF a4
    <2> QED BY <1>5, Setters
  <1>7. a6 \in AppsOf(D, B, G, C)
    <2> HIDE DEF a5
    <2> QED BY <1>6, Setters
  <1>8. a7 \in AppsOf(D, B, G, C)
    <2> HIDE DEF a6
    <2> QED BY <1>7, Setters
  <1>9. a8 \in AppsOf(D, B, G, C)
    <2> HIDE DEF a7
    <2> QED BY <1>8, Setters
  <1>10. a9 \in AppsOf(D, B, G, C)
    <2> HIDE DEF a8
    <2> QED BY <1>9, <1>n, Setters
  <1>11. UserEditsGrow(b)
    BY <1>f DEF UserEditsGrow, Core, InMemory
  <1>12. \A s \in SyncSessions : Dated(a, s) => Dated(b, s) /\ ~IsCurrent(b, s)
    BY <1>f DEF Dated, IsCurrent, InMemory
  <1>m. b.save # None /\ b.save.merge # None /\ b.save.merge.base = b.gen =>
           b.doc \subseteq b.save.edits
    BY <1>f DEF Core, MergesHoldTheDocument
  <1>13. Core(b) /\ BusyEnds(b)
    BY <1>f, <1>11, <1>12, <1>m, EndCore
  <1> QED
    BY <1>1, <1>10, <1>13, <1>f DEF b, SameSave

\* A task is gone; its mark goes by itself or with it.
LEMMA WithoutFields ==
  ASSUME NEW D, NEW B, NEW G, NEW C, NEW a \in AppsOf(D, B, G, C), NEW t
  PROVE  LET b == Without(a, t)
         IN  /\ b \in AppsOf(D, B, G, C)
             /\ SameSession(a, b) /\ SameDocument(a, b) /\ SameSave(a, b) /\ SameBinding(a, b)
             /\ SameStatus(a, b) /\ b.overlay = a.overlay
             /\ b.slot = a.slot /\ b.awaiting = a.awaiting /\ b.auto = a.auto
             /\ b.tasks = a.tasks \ {t}
  <1> DEFINE tasks == a.tasks \ {t}
  <1>1. tasks \in SUBSET TasksIn(D, B, G, C)
    BY DEF AppsOf
  <1>2. Without(a, t) = [a EXCEPT !.tasks = tasks]
    BY DEF Without
  <1> HIDE DEF tasks
  <1>3. \A x \in SUBSET TasksIn(D, B, G, C) : [a EXCEPT !.tasks = x] \in AppsOf(D, B, G, C)
    BY Setters
  <1>4. Without(a, t) \in AppsOf(D, B, G, C)
    BY <1>1, <1>2, <1>3
  <1> QED
    BY <1>2, <1>4 DEF tasks, AppsOf, SameSession, SameDocument, SameSave, SameBinding, SameStatus

\* With fewer tasks, what no task that is gone would have ended still ends.
LEMMA GoneBusy ==
  ASSUME NEW a, NEW b, NEW t, SameSession(a, b), SameSave(a, b), b.status = a.status,
         b.tasks = a.tasks \ {t}
  PROVE  /\ RestoreEnds(a) /\ (t.kind = "restore" => ~IsCurrent(a, t.owner)) => RestoreEnds(b)
         /\ BusyEnds(a) /\ b.token = a.token /\ b.slot = a.slot
            /\ (t.kind \in {"push", "restore"} => ~IsCurrent(a, t.owner))
            /\ (t.kind = "decrypt" => t.id # a.token)
            => BusyEnds(b)
  <1>1. \A session : IsCurrent(b, session) <=> IsCurrent(a, session)
    BY DEF SameSession, IsCurrent, SyncSession, InMemory
  <1>2. WillRestore(a) /\ (t.kind = "restore" => ~IsCurrent(a, t.owner)) => WillRestore(b)
    BY <1>1 DEF WillRestore
  <1>3. WillSync(a) /\ b.token = a.token /\ b.slot = a.slot
            /\ (t.kind \in {"push", "restore"} => ~IsCurrent(a, t.owner))
            /\ (t.kind = "decrypt" => t.id # a.token) => WillSync(b)
    BY <1>1 DEF WillSync, SameSave
  <1> QED
    BY <1>2, <1>3 DEF BusyEnds, RestoreEnds

-----------------------------------------------------------------------------
(* The sets the application is over. *)

LEMMA SetsAreOver ==
  ASSUME FilesAreSettled
  PROVE  Over(Settled, OurBytes, TrueBindings, TrueCopies)
  <1>1. {} \in Settled /\ Settled \subseteq SUBSET AllEdits
    BY DEF Settled, FilesAreSettled
  <1>2. OurBytes \subseteq [edits : Settled, rev : Nat]
    BY DEF OurBytes
  <1>3. TrueBindings \subseteq {b \in BindingRecords : b.etag.remote = b.remote}
    BY DEF TrueBindings, BindingRecords
  <1>4. TrueCopies \subseteq [edits : Settled, etag : Etags]
    BY DEF TrueCopies
  <1> QED
    BY <1>1, <1>2, <1>3, <1>4 DEF Over

LEMMA SetsAreOverNext ==
  ASSUME FilesAreSettled'
  PROVE  Over(Settled', OurBytes', TrueBindings', TrueCopies')
  <1>1. {} \in Settled' /\ Settled' \subseteq SUBSET AllEdits
    BY DEF Settled, FilesAreSettled
  <1>2. OurBytes' \subseteq [edits : Settled', rev : Nat]
    BY DEF OurBytes
  <1>3. TrueBindings' \subseteq {b \in BindingRecords : b.etag.remote = b.remote}
    BY DEF TrueBindings, BindingRecords
  <1>4. TrueCopies' \subseteq [edits : Settled', etag : Etags]
    BY DEF TrueCopies
  <1> QED
    BY <1>1, <1>2, <1>3, <1>4 DEF Over

\* What is over some sets is over larger ones.
LEMMA LargerSets ==
  ASSUME NEW D, NEW B, NEW G, NEW C, NEW D2, NEW B2, NEW G2, NEW C2,
         D \subseteq D2, B \subseteq B2, G \subseteq G2, C \subseteq C2,
         Over(D2, B2, G2, C2)
  PROVE  AppsOf(D, B, G, C) \subseteq AppsOf(D2, B2, G2, C2)
  <1>c. CopyAnswers("conflict", C) \subseteq CopyAnswers("conflict", C2)
        /\ CopyAnswers("pulled", C) \subseteq CopyAnswers("pulled", C2)
    BY DEF CopyAnswers
  <1>n. None \notin CopyAnswers("conflict", C2) /\ None \notin CopyAnswers("pulled", C2)
    BY NoneIsNone
  <1>1. PushesOf(B, G, C) \subseteq PushesOf(B2, G2, C2)
    <2> SUFFICES ASSUME NEW p \in PushesOf(B, G, C)
                 PROVE  p \in PushesOf(B2, G2, C2)
      OBVIOUS
    <2>1. p \in [kind : {"push"}, id : Nat, owner : SyncSessions, interactive : BOOLEAN,
            bytes : B2 \cup {None}, remote : Remotes, etag : Etags, resolves : BOOLEAN,
            phase : {"read", "send", "rejected", "done"},
            answer : AnswersOf({"network", "throttled", "grant"}) \cup SyncedAnswers
                       \cup CopyAnswers("conflict", C2) \cup {None}]
      BY <1>c DEF PushesOf
    <2>2. ASSUME p.answer \in CopyAnswers("conflict", C2) PROVE p.answer \in CopyAnswers("conflict", C)
      <3>1. p.answer.as = "conflict" /\ p.answer # None
        BY <2>2, <1>n DEF CopyAnswers
      <3>2. p.answer \in AnswersOf({"network", "throttled", "grant"}) \cup SyncedAnswers
                       \cup CopyAnswers("conflict", C) \cup {None}
        BY DEF PushesOf
      <3> QED
        BY <3>1, <3>2 DEF AnswersOf, SyncedAnswers
    <2> QED
      BY <2>1, <2>2 DEF PushesOf
  <1>2. PullsOf(C) \subseteq PullsOf(C2)
    <2> SUFFICES ASSUME NEW p \in PullsOf(C)
                 PROVE  p \in PullsOf(C2)
      OBVIOUS
    <2>1. p \in [kind : {"pull"}, id : Nat, owner : SyncSessions, remote : Remotes, etag : Etags,
            deferred : Etags \cup {None}, phase : {"check", "ahead", "done"},
            answer : AnswersOf({"network", "grant", "same"}) \cup CopyAnswers("pulled", C2)
                       \cup {None}]
      BY <1>c DEF PullsOf
    <2>2. ASSUME p.answer \in CopyAnswers("pulled", C2) PROVE p.answer \in CopyAnswers("pulled", C)
      <3>1. p.answer.as = "pulled" /\ p.answer # None
        BY <2>2, <1>n DEF CopyAnswers
      <3>2. p.answer \in AnswersOf({"network", "grant", "same"})
                       \cup CopyAnswers("pulled", C) \cup {None}
        BY DEF PullsOf
      <3> QED
        BY <3>1, <3>2 DEF AnswersOf
    <2> QED
      BY <2>1, <2>2 DEF PullsOf
  <1>3. DecryptsOf(D, C) \subseteq DecryptsOf(D2, C2)
    BY DEF DecryptsOf
  <1>b. BoundAnswers(G) \subseteq BoundAnswers(G2)
    BY DEF BoundAnswers
  <1>4. RestoresOf(G) \subseteq RestoresOf(G2)
    BY <1>b DEF RestoresOf
  <1>5. PublishesOf(B, G) \subseteq PublishesOf(B2, G2)
    BY <1>b DEF PublishesOf
  <1>6. TasksIn(D, B, G, C) \subseteq TasksIn(D2, B2, G2, C2)
    BY <1>1, <1>2, <1>3, <1>4, <1>5 DEF TasksIn
  <1>7. RequestsOf(B) \subseteq RequestsOf(B2)
    BY DEF RequestsOf
  <1>8. SlotsOf(B) \subseteq SlotsOf(B2)
    BY <1>7 DEF SlotsOf
  <1>9. SavesOf(D) \subseteq SavesOf(D2)
    BY DEF SavesOf
  <1>10. ConflictsOf(D, C) \subseteq ConflictsOf(D2, C2)
    BY DEF ConflictsOf
  <1>11. SUBSET TasksIn(D, B, G, C) \subseteq SUBSET TasksIn(D2, B2, G2, C2)
    BY <1>6
  <1> HIDE DEF TasksIn
  <1> QED
    BY <1>7, <1>8, <1>9, <1>10, <1>11 DEF AppsOf

-----------------------------------------------------------------------------
(* New numbers for generations, bytes and revisions. *)

LEMMA ImageIsFinite ==
  ASSUME NEW S, IsFiniteSet(S), NEW f
  PROVE  IsFiniteSet({f[x] : x \in S})
  <1> DEFINE T == {f[x] : x \in S}
             g == [x \in S |-> f[x]]
  <1>1. g \in Surjection(S, T)
    BY DEF Surjection
  <1> HIDE DEF g
  <1> QED
    BY <1>1, FS_Surjection

LEMMA TasksAreFinite ==
  ASSUME Numbered(app), NEW kind
  PROVE  IsFiniteSet(Tasks(kind))
  <1>1. Tasks(kind) \subseteq app.tasks
    BY DEF Tasks
  <1> QED
    BY <1>1, FS_Subset DEF Numbered

\* No merge in flight was computed from a new generation.
LEMMA FreshGen ==
  ASSUME Numbered(app)
  PROVE  /\ NewGen \in Nat /\ NewGen # app.gen
         /\ \A d \in app.tasks : d.kind = "decrypt" => d.base # NewGen
         /\ app.conflict # None => app.conflict.base # NewGen
         /\ app.save # None /\ app.save.merge # None => app.save.merge.base # NewGen
  <1> DEFINE bases == {t.base : t \in Tasks("decrypt")}
             shown == IF app.conflict = None THEN {} ELSE {app.conflict.base}
             saved == IF app.save = None \/ app.save.merge = None THEN {} ELSE {app.save.merge.base}
             used == {app.gen} \cup bases \cup shown \cup saved
  <1>1. IsFiniteSet(bases)
    <2> DEFINE f == [t \in Tasks("decrypt") |-> t.base]
    <2>1. bases = {f[t] : t \in Tasks("decrypt")}
      OBVIOUS
    <2> HIDE DEF f, bases
    <2> QED
      BY <2>1, ImageIsFinite, TasksAreFinite
  <1>2. IsFiniteSet({app.gen}) /\ IsFiniteSet(shown) /\ IsFiniteSet(saved)
    BY FS_Singleton, FS_EmptySet
  <1>3. \A d \in app.tasks : d.kind = "decrypt" => d.base \in bases
    BY DEF Tasks
  <1>4. IsFiniteSet(used)
    <2> HIDE DEF bases, shown, saved
    <2> QED
      BY <1>1, <1>2, FS_Union
  <1>5. NewGen = LeastOutside(used)
    BY DEF NewGen
  <1>6. /\ app.gen \in used /\ bases \subseteq used
        /\ app.conflict # None => app.conflict.base \in used
        /\ app.save # None /\ app.save.merge # None => app.save.merge.base \in used
    OBVIOUS
  <1> HIDE DEF used, bases
  <1>7. NewGen \in Nat /\ NewGen \notin used
    BY <1>4, <1>5, FreshNumber
  <1> QED
    BY <1>3, <1>6, <1>7

LEMMA BindingsAreFinite ==
  ASSUME Numbered(app)
  PROVE  IsFiniteSet(Bindings)
  <1> DEFINE S == {u \in Tasks("restore") \cup Tasks("publish") : u.answer # None /\ u.answer.as = "restored"}
             f == [t \in S |-> t.answer.cfg]
             T == {t.answer.cfg : t \in S}
  <1>1. IsFiniteSet(Tasks("restore") \cup Tasks("publish"))
    BY TasksAreFinite, FS_Union
  <1>2. IsFiniteSet(S)
    BY <1>1, FS_Subset
  <1>3. T = {f[t] : t \in S}
    OBVIOUS
  <1>4. IsFiniteSet(T)
    <2> HIDE DEF f, S, T
    <2> QED
      BY <1>2, <1>3, ImageIsFinite
  <1>5. IsFiniteSet({app.binding, app.cfg})
    <2> DEFINE one == {app.binding}
               other == {app.cfg}
    <2>1. {app.binding, app.cfg} = one \cup other
      OBVIOUS
    <2>2. IsFiniteSet(one) /\ IsFiniteSet(other)
      BY FS_Singleton
    <2> HIDE DEF one, other
    <2> QED
      BY <2>1, <2>2, FS_Union
  <1>6. Bindings = ({app.binding, app.cfg} \cup T) \ {None}
    BY DEF Bindings
  <1>7. IsFiniteSet({app.binding, app.cfg} \cup T)
    <2> HIDE DEF T
    <2> QED
      BY <1>4, <1>5, FS_Union
  <1> HIDE DEF T
  <1> QED
    BY <1>6, <1>7, FS_Subset

\* Nothing in memory has the number of new bytes.
LEMMA FreshRev ==
  ASSUME Numbered(app)
  PROVE  /\ NewRev \in Nat /\ NewRev # file.rev
         /\ \A b \in Bindings : b.uploaded # NewRev
         /\ \A b \in BytesHeld : b.rev # NewRev
  <1> DEFINE queued == {app.awaiting} \cup (IF app.slot = None THEN {} ELSE {app.slot.pending})
             tasks == Tasks("push") \cup Tasks("publish")
             sent == {t.bytes : t \in tasks}
             asks == {q.bytes : q \in QueuedRequests}
             uploaded == {b.uploaded : b \in Bindings}
             revs == {b.rev : b \in BytesHeld}
             used == {file.rev} \cup uploaded \cup revs
  <1>1. IsFiniteSet(QueuedRequests)
    <2> DEFINE asleep == IF app.slot = None THEN {} ELSE {app.slot.pending}
    <2>0. IsFiniteSet({app.awaiting}) /\ IsFiniteSet(asleep)
      BY FS_Singleton, FS_EmptySet
    <2>1. IsFiniteSet(queued)
      <3> HIDE DEF asleep
      <3>1. IsFiniteSet({app.awaiting} \cup asleep)
        BY <2>0, FS_Union
      <3> QED
        BY <3>1 DEF asleep
    <2>2. QueuedRequests \subseteq queued
      BY DEF QueuedRequests
    <2> HIDE DEF queued
    <2> QED
      BY <2>1, <2>2, FS_Subset
  <1>2. IsFiniteSet(asks)
    <2> DEFINE f == [q \in QueuedRequests |-> q.bytes]
    <2>1. asks = {f[q] : q \in QueuedRequests}
      OBVIOUS
    <2> HIDE DEF f, asks
    <2> QED
      BY <1>1, <2>1, ImageIsFinite
  <1>3. IsFiniteSet(sent)
    <2> DEFINE f == [t \in tasks |-> t.bytes]
    <2>1. sent = {f[t] : t \in tasks}
      OBVIOUS
    <2>2. IsFiniteSet(tasks)
      BY TasksAreFinite, FS_Union
    <2> HIDE DEF f, tasks, sent
    <2> QED
      BY <2>1, <2>2, ImageIsFinite
  <1>4. IsFiniteSet(BytesHeld)
    <2>1. BytesHeld \subseteq sent \cup asks
      BY DEF BytesHeld
    <2> HIDE DEF sent, asks
    <2>2. IsFiniteSet(sent \cup asks)
      BY <1>2, <1>3, FS_Union
    <2> QED
      BY <2>1, <2>2, FS_Subset
  <1>5. IsFiniteSet(revs)
    <2> DEFINE f == [b \in BytesHeld |-> b.rev]
    <2>1. revs = {f[b] : b \in BytesHeld}
      OBVIOUS
    <2> HIDE DEF f, revs
    <2> QED
      BY <1>4, <2>1, ImageIsFinite
  <1>6. IsFiniteSet(uploaded)
    <2> DEFINE f == [b \in Bindings |-> b.uploaded]
    <2>1. uploaded = {f[b] : b \in Bindings}
      OBVIOUS
    <2> HIDE DEF f, uploaded
    <2> QED
      BY <2>1, ImageIsFinite, BindingsAreFinite
  <1>7. IsFiniteSet(used)
    <2> HIDE DEF uploaded, revs
    <2> QED
      BY <1>5, <1>6, FS_Singleton, FS_Union
  <1>8. NewRev = LeastOutside(used)
    BY DEF NewRev
  <1>9. /\ file.rev \in used /\ \A b \in Bindings : b.uploaded \in used
        /\ \A b \in BytesHeld : b.rev \in used
    OBVIOUS
  <1> HIDE DEF used
  <1>10. NewRev \in Nat /\ NewRev \notin used
    BY <1>7, <1>8, FreshNumber
  <1> QED
    BY <1>9, <1>10

\* Nothing in memory and no remote file has a new revision.
LEMMA FreshEtag ==
  ASSUME Numbered(app), NEW r \in Remotes
  PROVE  /\ NewEtag(r) \in Etags /\ NewEtag(r).remote = r /\ NewEtag(r).n # 0
         /\ NewEtag(r) \notin EtagsHeld
  <1> DEFINE S1 == {remotes[q].etag : q \in Remotes}
             S2 == {b.etag : b \in Bindings}
             T4 == Tasks("push") \cup Tasks("pull") \cup Tasks("decrypt")
             S4 == {t.etag : t \in T4}
             S5 == {t.deferred : t \in Tasks("pull")}
             T6 == {u \in Tasks("push") \cup Tasks("pull") :
                       u.answer # None /\ u.answer.as \in {"synced", "conflict", "pulled"}}
             S6 == {t.answer.etag : t \in T6}
             S7 == IF app.conflict = None THEN {} ELSE {app.conflict.etag}
             S8 == IF app.save = None \/ app.save.merge = None THEN {} ELSE {app.save.merge.etag}
             mine == {x \in EtagsHeld \ {None} : x.remote = r}
             used == {e.n : e \in mine}
  <1>1. IsFiniteSet(S1)
    <2> DEFINE f == [q \in Remotes |-> remotes[q].etag]
    <2>1. S1 = {f[q] : q \in Remotes}
      OBVIOUS
    <2> HIDE DEF f, S1
    <2> QED
      BY <2>1, RemotesAreCounted, ImageIsFinite
  <1>2. IsFiniteSet(S2)
    <2> DEFINE f == [b \in Bindings |-> b.etag]
    <2>1. S2 = {f[b] : b \in Bindings}
      OBVIOUS
    <2> HIDE DEF f, S2
    <2> QED
      BY <2>1, BindingsAreFinite, ImageIsFinite
  <1>t. IsFiniteSet(Tasks("push")) /\ IsFiniteSet(Tasks("pull")) /\ IsFiniteSet(Tasks("decrypt"))
    BY TasksAreFinite
  <1>4. IsFiniteSet(S4)
    <2> DEFINE f == [t \in T4 |-> t.etag]
    <2>1. S4 = {f[t] : t \in T4}
      OBVIOUS
    <2>2. IsFiniteSet(T4)
      BY <1>t, FS_Union
    <2> HIDE DEF f, T4, S4
    <2> QED
      BY <2>1, <2>2, ImageIsFinite
  <1>5. IsFiniteSet(S5)
    <2> DEFINE f == [t \in Tasks("pull") |-> t.deferred]
    <2>1. S5 = {f[t] : t \in Tasks("pull")}
      OBVIOUS
    <2> HIDE DEF f, S5
    <2> QED
      BY <2>1, <1>t, ImageIsFinite
  <1>6. IsFiniteSet(S6)
    <2> DEFINE f == [t \in T6 |-> t.answer.etag]
    <2>1. S6 = {f[t] : t \in T6}
      OBVIOUS
    <2>2. IsFiniteSet(Tasks("push") \cup Tasks("pull"))
      BY <1>t, FS_Union
    <2>3. IsFiniteSet(T6)
      BY <2>2, FS_Subset
    <2> HIDE DEF f, T6, S6
    <2> QED
      BY <2>1, <2>3, ImageIsFinite
  <1>7. IsFiniteSet(S7) /\ IsFiniteSet(S8) /\ IsFiniteSet({app.deferred})
    BY FS_Singleton, FS_EmptySet
  <1>8. EtagsHeld = S1 \cup S2 \cup {app.deferred} \cup S4 \cup S5 \cup S6 \cup S7 \cup S8
    BY DEF EtagsHeld
  <1>9. IsFiniteSet(EtagsHeld)
    <2> HIDE DEF S1, S2, S4, S5, S6, S7, S8
    <2>1. IsFiniteSet(S1 \cup S2)
      BY <1>1, <1>2, FS_Union
    <2>2. IsFiniteSet(S1 \cup S2 \cup {app.deferred})
      BY <2>1, <1>7, FS_Union
    <2>3. IsFiniteSet(S1 \cup S2 \cup {app.deferred} \cup S4)
      BY <2>2, <1>4, FS_Union
    <2>4. IsFiniteSet(S1 \cup S2 \cup {app.deferred} \cup S4 \cup S5)
      BY <2>3, <1>5, FS_Union
    <2>5. IsFiniteSet(S1 \cup S2 \cup {app.deferred} \cup S4 \cup S5 \cup S6)
      BY <2>4, <1>6, FS_Union
    <2>6. IsFiniteSet(S1 \cup S2 \cup {app.deferred} \cup S4 \cup S5 \cup S6 \cup S7)
      BY <2>5, <1>7, FS_Union
    <2> QED
      BY <2>6, <1>7, <1>8, FS_Union
  <1>10. IsFiniteSet(used)
    <2> DEFINE f == [e \in mine |-> e.n]
    <2>1. used = {f[e] : e \in mine}
      OBVIOUS
    <2>2. IsFiniteSet(mine)
      BY <1>9, FS_Subset
    <2> HIDE DEF f, mine, used
    <2> QED
      BY <2>1, <2>2, ImageIsFinite
  <1> DEFINE n == LeastOutside(used)
  <1>11. NewEtag(r) = [remote |-> r, n |-> n]
    BY DEF NewEtag, Etag
  <1>12. n \in Nat \ {0} /\ n \notin used
    <2> HIDE DEF used
    <2> QED
      BY <1>10, FreshNumber
  <1> HIDE DEF n
  <1>13. NewEtag(r) \in Etags /\ NewEtag(r).remote = r /\ NewEtag(r).n = n
    BY <1>11, <1>12 DEF Etags
  <1>14. NewEtag(r) # None
    BY <1>13, NoneIsNothing
  <1> QED
    BY <1>12, <1>13, <1>14

\* What is held is over the bytes and bindings that have other numbers.
LEMMA HeldAvoidsRev ==
  ASSUME HeldIsTrue, FilesAreSettled, Numbered(app)
  PROVE  app \in AppsOf(Settled, {b \in OurBytes : b.rev # NewRev},
                        {g \in TrueBindings : g.uploaded # NewRev}, TrueCopies)
  <1> DEFINE B == {b \in OurBytes : b.rev # NewRev}
             G == {g \in TrueBindings : g.uploaded # NewRev}
  <1>o. Over(Settled, OurBytes, TrueBindings, TrueCopies)
    BY SetsAreOver
  <1>n. /\ None \notin OurBytes /\ None \notin TrueBindings /\ None \notin SyncedAnswers
        /\ None \notin BoundAnswers(TrueBindings) /\ None \notin RequestsOf(OurBytes)
        /\ None \notin SlotsOf(OurBytes)
    BY <1>o, NoneIsNone
  <1>f. /\ \A b \in Bindings : b.uploaded # NewRev
        /\ \A b \in BytesHeld : b.rev # NewRev
    BY FreshRev
  <1>1. app.binding \in G \cup {None} /\ app.cfg \in G \cup {None}
    <2>1. app.binding \in TrueBindings \cup {None} /\ app.cfg \in TrueBindings \cup {None}
      BY DEF HeldIsTrue, AppsOf
    <2>2. /\ app.binding # None => app.binding \in Bindings
          /\ app.cfg # None => app.cfg \in Bindings
      BY DEF Bindings
    <2> QED
      BY <1>f, <2>1, <2>2
  <1>t. app.tasks \subseteq TasksIn(Settled, OurBytes, TrueBindings, TrueCopies)
    BY DEF HeldIsTrue, AppsOf
  <1>2. \A t \in app.tasks : t \in TasksIn(Settled, B, G, TrueCopies)
    <2> TAKE t \in app.tasks
    <2>1. CASE t \in PushesOf(OurBytes, TrueBindings, TrueCopies)
      <3>1. t.kind = "push"
        BY <2>1 DEF PushesOf
      <3>2. t.bytes # None => t.bytes \in BytesHeld
        BY <3>1 DEF BytesHeld, Tasks
      <3>3. t.bytes \in B \cup {None}
        BY <1>f, <2>1, <3>2 DEF PushesOf
      <3>4. ASSUME t.answer \in SyncedAnswers
            PROVE  [remote |-> t.remote, etag |-> t.answer.etag, uploaded |-> t.bytes.rev] \in G
        <4>1. /\ t.bytes # None
              /\ [remote |-> t.remote, etag |-> t.answer.etag, uploaded |-> t.bytes.rev] \in TrueBindings
          BY <2>1, <3>4 DEF PushesOf
        <4> QED
          BY <1>f, <3>2, <4>1
      <3>5. t \in PushesOf(B, G, TrueCopies)
        BY <2>1, <3>3, <3>4 DEF PushesOf
      <3> QED
        BY <3>5 DEF TasksIn
    <2>2. CASE t \in PullsOf(TrueCopies) \cup DecryptsOf(Settled, TrueCopies)
      BY <2>2 DEF TasksIn
    <2>b. ASSUME t.kind \in {"restore", "publish"}, t.answer \in BoundAnswers(TrueBindings)
          PROVE  t.answer \in BoundAnswers(G)
      <3>1. t.answer # None /\ t.answer.as = "restored" /\ t.answer.cfg \in TrueBindings
            /\ t.answer = [as |-> "restored", cfg |-> t.answer.cfg]
        BY <1>n, <2>b DEF BoundAnswers
      <3>2. t.answer.cfg \in Bindings
        BY <1>n, <2>b, <3>1 DEF Bindings, Tasks
      <3>3. t.answer.cfg \in G
        BY <1>f, <3>1, <3>2
      <3> QED
        BY <3>1, <3>3 DEF BoundAnswers
    <2>3. CASE t \in RestoresOf(TrueBindings)
      <3>1. t.kind = "restore"
        BY <2>3 DEF RestoresOf
      <3>2. t \in RestoresOf(G)
        BY <2>3, <2>b, <3>1 DEF RestoresOf
      <3> QED
        BY <3>2 DEF TasksIn
    <2>4. CASE t \in PublishesOf(OurBytes, TrueBindings)
      <3>1. t.kind = "publish"
        BY <2>4 DEF PublishesOf
      <3>2. t.bytes # None => t.bytes \in BytesHeld
        BY <3>1 DEF BytesHeld, Tasks
      <3>3. t.bytes \in B \cup {None}
        BY <1>f, <2>4, <3>2 DEF PublishesOf
      <3>4. t \in PublishesOf(B, G)
        BY <2>4, <2>b, <3>1, <3>3 DEF PublishesOf
      <3> QED
        BY <3>4 DEF TasksIn
    <2> QED
      BY <1>t, <2>1, <2>2, <2>3, <2>4 DEF TasksIn
  <1>q. \A q \in QueuedRequests : q \in RequestsOf(OurBytes) => q \in RequestsOf(B)
    <2> TAKE q \in QueuedRequests
    <2>1. q.bytes # None => q.bytes \in BytesHeld
      BY DEF BytesHeld
    <2> QED
      BY <1>f, <2>1 DEF RequestsOf
  <1>3. app.awaiting \in RequestsOf(B) \cup {None}
    BY <1>q DEF HeldIsTrue, AppsOf, QueuedRequests
  <1>4. app.slot \in SlotsOf(B) \cup {None}
    <2>1. app.slot \in SlotsOf(OurBytes) \cup {None}
      BY DEF HeldIsTrue, AppsOf
    <2>2. CASE app.slot # None
      <3>1. app.slot.pending \in RequestsOf(OurBytes) \cup {None}
        BY <2>1, <2>2 DEF SlotsOf
      <3>2. app.slot.pending # None => app.slot.pending \in QueuedRequests
        BY <2>2 DEF QueuedRequests
      <3>3. app.slot.pending \in RequestsOf(B) \cup {None}
        BY <1>q, <3>1, <3>2
      <3> QED
        BY <2>1, <2>2, <3>3 DEF SlotsOf
    <2> QED
      BY <2>2
  <1> HIDE DEF B, G
  <1>5. app \in AppsOf(Settled, B, G, TrueCopies)
    BY <1>1, <1>2, <1>3, <1>4 DEF HeldIsTrue, AppsOf
  <1> QED
    BY <1>5 DEF B, G

\* What is held is over the bindings and copies that have other revisions.
LEMMA HeldAvoidsEtag ==
  ASSUME HeldIsTrue, FilesAreSettled, Numbered(app), NEW r \in Remotes
  PROVE  app \in AppsOf(Settled, OurBytes, {g \in TrueBindings : g.etag # NewEtag(r)},
                        {c \in TrueCopies : c.etag # NewEtag(r)})
  <1> DEFINE n == NewEtag(r)
             G == {g \in TrueBindings : g.etag # n}
             C == {c \in TrueCopies : c.etag # n}
  <1>o. Over(Settled, OurBytes, TrueBindings, TrueCopies)
    BY SetsAreOver
  <1>n. /\ None \notin TrueBindings /\ None \notin SyncedAnswers
        /\ None \notin BoundAnswers(TrueBindings) /\ None \notin ConflictsOf(Settled, TrueCopies)
        /\ None \notin CopyAnswers("conflict", TrueCopies)
        /\ None \notin CopyAnswers("pulled", TrueCopies)
    BY <1>o, NoneIsNone
  <1>f. n \notin EtagsHeld
    BY FreshEtag
  <1>g. \A b \in Bindings : b.etag \in EtagsHeld
    BY DEF EtagsHeld
  <1> HIDE DEF n
  <1>1. app.binding \in G \cup {None} /\ app.cfg \in G \cup {None}
    <2>1. app.binding \in TrueBindings \cup {None} /\ app.cfg \in TrueBindings \cup {None}
      BY DEF HeldIsTrue, AppsOf
    <2>2. /\ app.binding # None => app.binding \in Bindings
          /\ app.cfg # None => app.cfg \in Bindings
      BY DEF Bindings
    <2> QED
      BY <1>f, <1>g, <2>1, <2>2
  <1>a. \A t \in app.tasks : t.kind \in {"push", "pull"} /\ t.answer # None
           /\ t.answer.as \in {"synced", "conflict", "pulled"} => t.answer.etag # n
    <2> SUFFICES ASSUME NEW t \in app.tasks, t.kind \in {"push", "pull"}, t.answer # None,
                        t.answer.as \in {"synced", "conflict", "pulled"}
                 PROVE  t.answer.etag \in EtagsHeld
      BY <1>f
    <2>1. t \in {u \in Tasks("push") \cup Tasks("pull") :
                    u.answer # None /\ u.answer.as \in {"synced", "conflict", "pulled"}}
      BY DEF Tasks
    <2> QED
      BY <2>1 DEF EtagsHeld
  <1>c. \A t \in app.tasks, as \in {"conflict", "pulled"} :
           t.kind \in {"push", "pull"} /\ t.answer \in CopyAnswers(as, TrueCopies)
             => t.answer \in CopyAnswers(as, C)
    <2> SUFFICES ASSUME NEW t \in app.tasks, NEW as \in {"conflict", "pulled"},
                        t.kind \in {"push", "pull"}, t.answer \in CopyAnswers(as, TrueCopies)
                 PROVE  t.answer \in CopyAnswers(as, C)
      OBVIOUS
    <2>1. t.answer.as = as /\ t.answer # None /\ Copy(t.answer) \in TrueCopies
      BY <1>n DEF CopyAnswers
    <2>2. Copy(t.answer).etag # n
      BY <1>a, <2>1 DEF Copy
    <2> QED
      BY <2>1, <2>2 DEF CopyAnswers
  <1>k. \A as \in {"conflict", "pulled"} : CopyAnswers(as, C) \subseteq CopyAnswers(as, TrueCopies)
    BY DEF CopyAnswers
  <1>t. app.tasks \subseteq TasksIn(Settled, OurBytes, TrueBindings, TrueCopies)
    BY DEF HeldIsTrue, AppsOf
  <1>2. \A t \in app.tasks : t \in TasksIn(Settled, OurBytes, G, C)
    <2> TAKE t \in app.tasks
    <2>1. CASE t \in PushesOf(OurBytes, TrueBindings, TrueCopies)
      <3>1. t.kind = "push"
        BY <2>1 DEF PushesOf
      <3>2. t.answer \in CopyAnswers("conflict", TrueCopies) => t.answer \in CopyAnswers("conflict", C)
        BY <1>c, <3>1
      <3>3. CopyAnswers("conflict", C) \subseteq CopyAnswers("conflict", TrueCopies)
        BY <1>k
      <3>4. ASSUME t.answer \in SyncedAnswers
            PROVE  [remote |-> t.remote, etag |-> t.answer.etag, uploaded |-> t.bytes.rev] \in G
        <4>1. [remote |-> t.remote, etag |-> t.answer.etag, uploaded |-> t.bytes.rev] \in TrueBindings
          BY <2>1, <3>4 DEF PushesOf
        <4>2. t.answer # None /\ t.answer.as = "synced"
          BY <1>n, <3>4 DEF SyncedAnswers
        <4>3. t.answer.etag # n
          BY <1>a, <3>1, <4>2
        <4> QED
          BY <4>1, <4>3
      <3> HIDE DEF G, C
      <3>5. t \in PushesOf(OurBytes, G, C)
        BY <2>1, <3>2, <3>3, <3>4 DEF PushesOf
      <3> QED
        BY <3>5 DEF TasksIn
    <2>2. CASE t \in PullsOf(TrueCopies)
      <3>1. t.kind = "pull"
        BY <2>2 DEF PullsOf
      <3>2. t.answer \in CopyAnswers("pulled", TrueCopies) => t.answer \in CopyAnswers("pulled", C)
        BY <1>c, <3>1
      <3>3. CopyAnswers("pulled", C) \subseteq CopyAnswers("pulled", TrueCopies)
        BY <1>k
      <3> HIDE DEF C
      <3>5. t \in PullsOf(C)
        BY <2>2, <3>2, <3>3 DEF PullsOf
      <3> QED
        BY <3>5 DEF TasksIn
    <2>3. CASE t \in DecryptsOf(Settled, TrueCopies)
      <3>1. t.kind = "decrypt" /\ [edits |-> t.theirs, etag |-> t.etag] \in TrueCopies
        BY <2>3 DEF DecryptsOf
      <3>2. t.etag \in EtagsHeld
        BY <3>1 DEF EtagsHeld, Tasks
      <3>3. [edits |-> t.theirs, etag |-> t.etag] \in C
        BY <1>f, <3>1, <3>2
      <3>4. t \in DecryptsOf(Settled, C)
        BY <2>3, <3>3 DEF DecryptsOf
      <3> QED
        BY <3>4 DEF TasksIn
    <2>b. ASSUME t.kind \in {"restore", "publish"}, t.answer \in BoundAnswers(TrueBindings)
          PROVE  t.answer \in BoundAnswers(G)
      <3>1. t.answer # None /\ t.answer.as = "restored" /\ t.answer.cfg \in TrueBindings
            /\ t.answer = [as |-> "restored", cfg |-> t.answer.cfg]
        BY <1>n, <2>b DEF BoundAnswers
      <3>2. t.answer.cfg \in Bindings
        BY <1>n, <2>b, <3>1 DEF Bindings, Tasks
      <3>3. t.answer.cfg \in G
        BY <1>f, <1>g, <3>1, <3>2
      <3> QED
        BY <3>1, <3>3 DEF BoundAnswers
    <2>4. CASE t \in RestoresOf(TrueBindings)
      <3>1. t.kind = "restore"
        BY <2>4 DEF RestoresOf
      <3>2. t \in RestoresOf(G)
        BY <2>4, <2>b, <3>1 DEF RestoresOf
      <3> QED
        BY <3>2 DEF TasksIn
    <2>5. CASE t \in PublishesOf(OurBytes, TrueBindings)
      <3>1. t.kind = "publish"
        BY <2>5 DEF PublishesOf
      <3>4. t \in PublishesOf(OurBytes, G)
        BY <2>5, <2>b, <3>1 DEF PublishesOf
      <3> QED
        BY <3>4 DEF TasksIn
    <2> QED
      BY <1>t, <2>1, <2>2, <2>3, <2>4, <2>5 DEF TasksIn
  <1>3. app.conflict \in ConflictsOf(Settled, C) \cup {None}
    <2>1. app.conflict \in ConflictsOf(Settled, TrueCopies) \cup {None}
      BY DEF HeldIsTrue, AppsOf
    <2>2. CASE app.conflict # None
      <3>1. app.conflict.etag \in EtagsHeld
        BY <2>2 DEF EtagsHeld
      <3>2. [edits |-> app.conflict.theirs, etag |-> app.conflict.etag] \in C
        BY <1>f, <2>1, <2>2, <3>1 DEF ConflictsOf
      <3> QED
        BY <2>1, <2>2, <3>2 DEF ConflictsOf
    <2> QED
      BY <2>2
  <1> HIDE DEF G, C
  <1>5. app \in AppsOf(Settled, OurBytes, G, C)
    BY <1>1, <1>2, <1>3 DEF HeldIsTrue, AppsOf
  <1> QED
    BY <1>5 DEF G, C, n

\* The merge of a save is not of a revision to come either.
LEMMA SaveAvoidsEtag ==
  ASSUME Numbered(app), NEW r \in Remotes, app.save # None, app.save.merge # None
  PROVE  app.save.merge.etag # NewEtag(r)
  <1>1. app.save.merge.etag \in EtagsHeld
    BY DEF EtagsHeld
  <1> QED
    BY <1>1, FreshEtag

-----------------------------------------------------------------------------
(* The answers of pushes. *)

LEMMA TakeAnswerKeeps ==
  ASSUME NEW D, NEW B, NEW G, NEW C, Over(D, B, G, C),
         \A c \in C : c.edits \cap UserEdits \subseteq file.edits,
         NEW a \in AppsOf(D, B, G, C), Core(a),
         NEW p \in PushesOf(B, G, C), p.phase = "done", IsCurrent(a, p.owner),
         OfTheBinding(a, p.etag), NEW interactive \in BOOLEAN
  PROVE  LET b == TakeAnswer(a, p, interactive)
         IN  /\ b \in AppsOf(D, B, G, C) /\ Core(b)
             /\ SameSession(a, b) /\ SameDocument(a, b) /\ SameSave(a, b)
             /\ RestoreEnds(a) => BusyEnds(b)
  <1> DEFINE b == TakeAnswer(a, p, interactive)
  <1>m. InMemory(a) /\ p.owner \in SyncSessions
    BY CurrentSession DEF PushesOf
  <1>p. /\ p.etag.remote = p.remote /\ a.binding # None /\ a.binding.remote = p.remote
        /\ p.answer \in AnswersOf({"network", "throttled", "grant"}) \cup SyncedAnswers
                       \cup CopyAnswers("conflict", C)
    BY DEF PushesOf, OfTheBinding
  <1>1. CASE p.answer.as = "synced"
    <2> DEFINE w == RecordBaseline(a, p.owner, p.answer.etag, UploadedRevision(p))
    <2>1. p.answer \in SyncedAnswers
      BY <1>1, <1>p DEF AnswersOf, CopyAnswers
    <2>2. [remote |-> a.binding.remote, etag |-> p.answer.etag, uploaded |-> UploadedRevision(p)] \in G
      BY <1>p, <2>1 DEF PushesOf, UploadedRevision
    <2>3. /\ w \in AppsOf(D, B, G, C) /\ Core(w)
          /\ SameSession(a, w) /\ SameDocument(a, w) /\ SameSave(a, w)
      BY <2>2, RecordBaselineKeeps
    <2> HIDE DEF w
    <2>4. IsCurrent(w, p.owner) /\ InMemory(w)
      BY <1>m, <2>3 DEF IsCurrent, InMemory, SyncSession, SameSession
    <2>5. b = Route(w, "Synced")
      BY <1>1, <2>4 DEF TakeAnswer, RouteFor, w
    <2>6. "Synced" \in Statuses
      BY DEF Statuses, Resting
    <2> HIDE DEF b
    <2>7. /\ b \in AppsOf(D, B, G, C) /\ Core(b) /\ BusyEnds(b)
          /\ SameSession(w, b) /\ SameDocument(w, b) /\ SameSave(w, b)
      BY <2>3, <2>4, <2>5, <2>6, RouteKeeps
    <2> QED
      BY <2>3, <2>7 DEF b, SameSession, SameDocument, SameSave
  <1>2. CASE p.answer.as = "conflict"
    <2>1. p.answer \in CopyAnswers("conflict", C)
      BY <1>2, <1>p DEF AnswersOf, SyncedAnswers
    <2>2. Copy(p.answer) \in C /\ p.answer.etag.remote = p.remote
      BY <2>1 DEF CopyAnswers, PushesOf
    <2>3. p.answer.edits \cap UserEdits \subseteq file.edits
      <3>1. Copy(p.answer).edits = p.answer.edits
        BY DEF Copy
      <3> QED
        BY <2>2, <3>1
    <2>4. b = HandleRemote(a, p.owner, p.answer, interactive)
      BY <1>2 DEF TakeAnswer
    <2> QED
      BY <1>m, <1>p, <2>2, <2>3, <2>4, HandleRemoteKeeps
  <1>3. CASE p.answer.as \notin {"synced", "conflict"}
    <2>1. b = NoteFailure(a, p.answer.as)
      BY <1>3 DEF TakeAnswer
    <2> QED
      BY <1>m, <2>1, NoteFailureKeeps
  <1> QED
    BY <1>1, <1>2, <1>3

-----------------------------------------------------------------------------
(* The steps. *)

Holds(a) == a \in AppsOf(Settled, OurBytes, TrueBindings, TrueCopies) /\ Core(a)

\* No result of a save comes from nowhere, and a session that goes on keeps its document.
Follows(a, b) ==
  NoNewResult(a, b) /\ (InMemory(b) /\ b.sess = a.sess => a.doc \subseteq b.doc)

\* What a step makes of the application over unchanged files.
Advances ==
  Holds(app') /\ Follows(app, app') /\ (saveFailed \/ BusyEnds(app'))

LEMMA Known ==
  ASSUME EngineInv
  PROVE  /\ Over(Settled, OurBytes, TrueBindings, TrueCopies)
         /\ \A c \in TrueCopies : c.edits \cap UserEdits \subseteq file.edits
         /\ app \in AppsOf(Settled, OurBytes, TrueBindings, TrueCopies) /\ Core(app)
         /\ HeldIsTrue /\ FilesAreSettled
         /\ Numbered(app) /\ UserEditsGrow(app) /\ MergesHoldTheDocument(app) /\ SavesAreTrue(app)
         /\ LockedIsQuiet(app) /\ SessionsArePast(app) /\ CurrentIsBound(app)
         /\ SlotIsHeld(app) /\ Marked(app)
  BY SetsAreOver DEF EngineInv, HeldIsTrue, Core, TrueCopies

LEMMA AdvancesKeeps ==
  ASSUME EngineInv, UNCHANGED World, saveFailed => saveFailed', Advances
  PROVE  EngineInv'
  <1>1. Settled' = Settled
    BY DEF World, Settled
  <1>2. OurBytes' = OurBytes
    BY <1>1 DEF World, OurBytes
  <1>3. TrueBindings' = TrueBindings
    BY DEF World, TrueBindings, Covers
  <1>4. TrueCopies' = TrueCopies
    BY <1>1 DEF World, TrueCopies
  <1>5. HeldIsTrue'
    BY <1>1, <1>2, <1>3, <1>4 DEF HeldIsTrue, Advances, Holds
  <1>6. FilesAreSettled'
    BY <1>1 DEF EngineInv, FilesAreSettled, World
  <1>7. Core(app)'
    <2>1. Core(app')
      BY DEF Advances, Holds
    <2> QED
      BY <2>1
      DEF World, Core, Numbered, UserEditsGrow, MergesHoldTheDocument, SavesAreTrue, LockedIsQuiet,
          SessionsArePast, CurrentIsBound, SlotIsHeld, Marked, Dated, IsCurrent, InMemory, SyncSession,
          OfTheBinding
  <1>8. FailuresAreKnown'
    BY DEF EngineInv, FailuresAreKnown, Advances, Follows, NoNewResult
  <1>9. (saveFailed \/ BusyEnds(app))'
    BY DEF Advances, BusyEnds, WillSync, WillRestore, IsCurrent, InMemory, SyncSession
  <1> QED
    BY <1>5, <1>6, <1>7, <1>8, <1>9 DEF EngineInv

LEMMA SyncNowAdvances ==
  ASSUME EngineInv, SyncNow
  PROVE  Advances
  <1> DEFINE yes == TRUE
  <1>1. app' = PushNow(app, SyncSession(app), yes, None) /\ InMemory(app)
    BY DEF SyncNow, InMemory
  <1>2. yes \in BOOLEAN /\ None \in OurBytes \cup {None}
    OBVIOUS
  <1>3. SyncSession(app) \in SyncSessions /\ IsCurrent(app, SyncSession(app))
    BY <1>1, Known, CurrentSession
  <1> HIDE DEF yes
  <1>4. /\ app' \in AppsOf(Settled, OurBytes, TrueBindings, TrueCopies) /\ Core(app')
        /\ SameSession(app, app') /\ SameDocument(app, app') /\ SameSave(app, app')
        /\ BusyEnds(app) => BusyEnds(app')
    BY <1>1, <1>2, <1>3, Known, PushNowKeeps
  <1> QED
    BY <1>4 DEF Advances, Holds, Follows, NoNewResult, SameDocument, SameSave, EngineInv

\* Another overlay, another place on the screen, the end of a throttle window.
LEMMA ScreenAdvances ==
  ASSUME EngineInv, OpenOverlay \/ CloseOverlay \/ Park \/ Unpark \/ WindowPasses
  PROVE  Advances
  <1> DEFINE Apps == AppsOf(Settled, OurBytes, TrueBindings, TrueCopies)
  <1>k. app \in Apps /\ Core(app)
    BY Known
  <1>1. /\ app'.sess = app.sess /\ app'.bindGen = app.bindGen
        /\ InMemory(app') <=> InMemory(app)
        /\ app'.place = "locked" <=> app.place = "locked"
        /\ SameDocument(app, app') /\ SameSave(app, app') /\ SameBinding(app, app')
        /\ SameMarks(app, app')
        /\ app'.status = app.status /\ app'.conflict = app.conflict /\ app'.token = app.token
    <2>1. CASE OpenOverlay
      <3>1. PICK o \in {"edit", "connect"} : app' = [app EXCEPT !.overlay = o]
        BY <2>1 DEF OpenOverlay
      <3> QED
        BY <1>k, <3>1 DEF AppsOf, InMemory, SameDocument, SameSave, SameBinding, SameMarks
    <2>2. CASE CloseOverlay
      BY <1>k, <2>2
      DEF CloseOverlay, AppsOf, InMemory, SameDocument, SameSave, SameBinding, SameMarks
    <2>3. CASE Park
      BY <1>k, <2>3 DEF Park, AppsOf, InMemory, SameDocument, SameSave, SameBinding, SameMarks
    <2>4. CASE Unpark
      BY <1>k, <2>4 DEF Unpark, AppsOf, InMemory, SameDocument, SameSave, SameBinding, SameMarks
    <2>5. CASE WindowPasses
      <3> DEFINE no == FALSE
      <3>1. app' = [app EXCEPT !.backoff = no]
        BY <2>5 DEF WindowPasses
      <3> HIDE DEF no
      <3> QED
        BY <1>k, <3>1 DEF AppsOf, InMemory, SameDocument, SameSave, SameBinding, SameMarks
    <2> QED
      BY <2>1, <2>2, <2>3, <2>4, <2>5
  <1>2. app' \in Apps
    <2>1. CASE OpenOverlay
      <3>1. PICK o \in {"edit", "connect"} : app' = [app EXCEPT !.overlay = o]
        BY <2>1 DEF OpenOverlay
      <3> QED
        BY <1>k, <3>1, Setters
    <2>2. CASE CloseOverlay
      BY <1>k, <2>2, Setters DEF CloseOverlay
    <2>3. CASE Park
      <3> DEFINE w == [app EXCEPT !.place = "parked"]
      <3>1. app' = [w EXCEPT !.overlay = "none"]
        BY <2>3 DEF Park
      <3>2. w \in Apps
        BY <1>k, Setters
      <3> HIDE DEF w
      <3> QED
        BY <3>1, <3>2, Setters
    <2>4. CASE Unpark
      <3> DEFINE w == [app EXCEPT !.place = "active"]
      <3>1. app' = [w EXCEPT !.overlay = "none"]
        BY <2>4 DEF Unpark
      <3>2. w \in Apps
        BY <1>k, Setters
      <3> HIDE DEF w
      <3> QED
        BY <3>1, <3>2, Setters
    <2>5. CASE WindowPasses
      <3> DEFINE no == FALSE
      <3>1. app' = [app EXCEPT !.backoff = no] /\ no \in BOOLEAN
        BY <2>5 DEF WindowPasses
      <3> HIDE DEF no
      <3> QED
        BY <1>k, <3>1, Setters
    <2> QED
      BY <2>1, <2>2, <2>3, <2>4, <2>5
  <1>3. Core(app') /\ (BusyEnds(app) => BusyEnds(app'))
    BY <1>k, <1>1, ScreenCore
  <1> QED
    BY <1>1, <1>2, <1>3 DEF Advances, Holds, Follows, NoNewResult, SameDocument, SameSave, EngineInv

LEMMA ResolveBlockedAdvances ==
  ASSUME EngineInv, ResolveBlocked
  PROVE  Advances
  <1> DEFINE Apps == AppsOf(Settled, OurBytes, TrueBindings, TrueCopies)
             w == Route(app, "Failed")
  <1>k. app \in Apps /\ Core(app)
    BY Known
  <1>1. app' = [w EXCEPT !.overlay = "none"] /\ InMemory(app)
    BY DEF ResolveBlocked, InMemory
  <1>2. "Failed" \in Statuses
    BY DEF Statuses
  <1>3. /\ w \in Apps /\ Core(w) /\ BusyEnds(w)
        /\ SameSession(app, w) /\ SameDocument(app, w) /\ SameSave(app, w)
    BY <1>k, <1>1, <1>2, RouteKeeps
  <1> HIDE DEF w
  <1>4. app' \in Apps
    BY <1>1, <1>3, Setters
  <1>5. /\ app'.sess = w.sess /\ app'.bindGen = w.bindGen
        /\ InMemory(app') <=> InMemory(w)
        /\ app'.place = "locked" <=> w.place = "locked"
        /\ SameDocument(w, app') /\ SameSave(w, app') /\ SameBinding(w, app') /\ SameMarks(w, app')
        /\ app'.status = w.status /\ app'.conflict = w.conflict /\ app'.token = w.token
    BY <1>1, <1>3, SMTT(60) DEF AppsOf, InMemory, SameDocument, SameSave, SameBinding, SameMarks
  <1>6. Core(app') /\ BusyEnds(app')
    BY <1>3, <1>5, ScreenCore
  <1> QED
    BY <1>3, <1>4, <1>5, <1>6
    DEF Advances, Holds, Follows, NoNewResult, SameDocument, SameSave

LEMMA LockAdvances ==
  ASSUME EngineInv, Lock
  PROVE  Advances
  <1> DEFINE Apps == AppsOf(Settled, OurBytes, TrueBindings, TrueCopies)
             q == Quarantine(app)
             no == FALSE
  <1>k. app \in Apps /\ Core(app) /\ Over(Settled, OurBytes, TrueBindings, TrueCopies)
    BY Known
  <1>q. /\ q \in Apps /\ Core(q) /\ BusyEnds(q) /\ q.place = "deferred" /\ SameSave(app, q)
    BY <1>k, QuarantineKeeps DEF Lock
  <1>n. no \in BOOLEAN
    OBVIOUS
  <1>1. CASE app' = LockNow(app) /\ app.save = None
    <2>1. /\ app' \in Apps /\ Core(app') /\ BusyEnds(app') /\ app'.place = "locked"
          /\ app'.save = None
      BY <1>k, <1>1, LockNowKeeps
    <2> QED
      BY <2>1 DEF Advances, Holds, Follows, NoNewResult, InMemory
  <1>2. CASE app' = q
    BY <1>q, <1>2 DEF Advances, Holds, Follows, NoNewResult, SameSave, InMemory
  <1>3. CASE app' = RequestSave(q, no)
    <2> HIDE DEF q, no
    <2>1. q.place # "locked"
      BY <1>q
    <2>2. /\ app' \in Apps /\ Core(app') /\ BusyEnds(app') /\ SameSession(q, app')
          /\ NoNewResult(q, app')
      BY <1>k, <1>q, <1>n, <1>3, <2>1, RequestSaveKeeps
    <2> QED
      BY <1>q, <2>2 DEF Advances, Holds, Follows, NoNewResult, SameSave, SameSession, InMemory
  <1> HIDE DEF q
  <1>4. app.save = None \/ app.save # None
    OBVIOUS
  <1> QED
    BY <1>1, <1>2, <1>3, <1>4 DEF Lock, q

LEMMA RetrySaveAdvances ==
  ASSUME EngineInv, RetrySave
  PROVE  Advances
  <1> DEFINE Apps == AppsOf(Settled, OurBytes, TrueBindings, TrueCopies)
             sync == app.place = "active"
  <1>1. app' = RequestSave(app, sync) /\ sync \in BOOLEAN /\ app.place # "locked"
    BY DEF RetrySave
  <1> HIDE DEF sync
  <1>2. /\ app' \in Apps /\ Core(app') /\ SameSession(app, app') /\ SameDocument(app, app')
        /\ NoNewResult(app, app')
        /\ BusyEnds(app) => BusyEnds(app')
    BY <1>1, Known, RequestSaveKeeps
  <1> QED
    BY <1>2 DEF Advances, Holds, Follows, SameDocument, EngineInv

LEMMA RetryRestoreAdvances ==
  ASSUME EngineInv, RetryRestore
  PROVE  Advances
  <1> DEFINE Apps == AppsOf(Settled, OurBytes, TrueBindings, TrueCopies)
  <1>1. app' = TryRestore(app) /\ InMemory(app)
    BY DEF RetryRestore, InMemory
  <1>2. /\ app' \in Apps /\ Core(app') /\ SameDocument(app, app') /\ SameSave(app, app')
        /\ BusyEnds(app) => BusyEnds(app')
    BY <1>1, Known, TryRestoreKeeps
  <1> QED
    BY <1>2 DEF Advances, Holds, Follows, NoNewResult, SameDocument, SameSave, EngineInv

LEMMA TickAdvances ==
  ASSUME EngineInv, Tick
  PROVE  Advances
  <1> DEFINE Apps == AppsOf(Settled, OurBytes, TrueBindings, TrueCopies)
  <1>1. app' = AutoSync(app) /\ InMemory(app) /\ app.binding # None
    BY DEF Tick
  <1>2. /\ app' \in Apps /\ Core(app') /\ SameDocument(app, app') /\ SameSave(app, app')
        /\ BusyEnds(app) => BusyEnds(app')
    BY <1>1, Known, AutoSyncKeeps
  <1> QED
    BY <1>2 DEF Advances, Holds, Follows, NoNewResult, SameDocument, SameSave, EngineInv

LEMMA UnlockAdvances ==
  ASSUME EngineInv, Unlock
  PROVE  Advances /\ app'.sess # app.sess
  <1> DEFINE Apps == AppsOf(Settled, OurBytes, TrueBindings, TrueCopies)
             zero == 0
             next == app.sess + 1
             w == [app EXCEPT !.place = "active", !.sess = next, !.doc = file.edits, !.gen = zero]
             w1 == [app EXCEPT !.place = "active"]
             w2 == [w1 EXCEPT !.sess = next]
             w3 == [w2 EXCEPT !.doc = file.edits]
             w4 == [w3 EXCEPT !.gen = zero]
  <1>k. /\ app \in Apps /\ Core(app) /\ LockedIsQuiet(app) /\ SessionsArePast(app)
        /\ Over(Settled, OurBytes, TrueBindings, TrueCopies)
    BY Known
  <1>1. app' = TryRestore(w) /\ app.place = "locked"
    BY DEF Unlock
  <1>t. app.sess \in Nat /\ app.bindGen \in Nat /\ next \in Nat /\ zero \in Nat /\ next = app.sess + 1
    BY <1>k DEF AppsOf
  <1>d. file.edits \in Settled
    BY DEF EngineInv, FilesAreSettled
  <1>f. /\ w.place = "active" /\ w.sess = next /\ w.doc = file.edits
        /\ w.bindGen = app.bindGen /\ w.save = app.save /\ w.binding = app.binding
        /\ w.status = app.status /\ w.conflict = app.conflict /\ w.slot = app.slot
        /\ w.awaiting = app.awaiting /\ w.auto = app.auto /\ w.token = app.token
        /\ w.tasks = app.tasks
    BY <1>k, SMTT(60) DEF AppsOf
  <1>w. w = w4
    OBVIOUS
  <1> HIDE DEF w, next, zero
  <1>2. w1 \in Apps
    BY <1>k, Setters
  <1>3. w2 \in Apps
    <2> HIDE DEF w1
    <2> QED BY <1>2, <1>t, Setters
  <1>4. w3 \in Apps
    <2> HIDE DEF w2
    <2> QED BY <1>3, <1>d, Setters
  <1>5. w4 \in Apps
    <2> HIDE DEF w3
    <2> QED BY <1>4, <1>t, Setters
  <1>6. app.save = None /\ app.status = "Disconnected" /\ app.binding = None /\ app.conflict = None
    BY <1>1, <1>k DEF LockedIsQuiet, InMemory
  <1>7. UserEditsGrow(w)
    BY <1>f, <1>6 DEF UserEditsGrow
  <1>8. \A s \in SyncSessions : Dated(app, s) => Dated(w, s) /\ ~IsCurrent(w, s)
    <2> SUFFICES ASSUME NEW s \in SyncSessions, Dated(app, s)
                 PROVE  Dated(w, s) /\ ~IsCurrent(w, s)
      OBVIOUS
    <2>1. s.vault <= app.sess /\ s.binding <= app.bindGen
      BY DEF Dated
    <2>2. s = SyncSession(w) => s.vault = next
      BY <1>f DEF SyncSession
    <2>3. s.vault <= next /\ s.vault # next
      BY <1>t, <2>1 DEF SyncSessions
    <2> QED
      BY <1>f, <1>t, <2>1, <2>2, <2>3 DEF Dated, IsCurrent
  <1>9. Core(w) /\ BusyEnds(w)
    BY <1>f, <1>k, <1>6, <1>7, <1>8, EndCore
  <1>10. InMemory(w)
    BY <1>f DEF InMemory
  <1>11. /\ app' \in Apps /\ Core(app') /\ SameSession(w, app') /\ SameSave(w, app') /\ BusyEnds(app')
    BY <1>1, <1>5, <1>9, <1>10, <1>k, <1>w, TryRestoreKeeps
  <1>12. app'.sess # app.sess
    BY <1>f, <1>t, <1>11 DEF SameSession
  <1> QED
    BY <1>f, <1>11, <1>12 DEF Advances, Holds, Follows, NoNewResult, SameSave

LEMMA DisconnectAdvances ==
  ASSUME EngineInv, Disconnect
  PROVE  Advances
  <1> DEFINE Apps == AppsOf(Settled, OurBytes, TrueBindings, TrueCopies)
             w1 == [app EXCEPT !.binding = None]
             w == [w1 EXCEPT !.cfg = None]
             r == Route(w, "Disconnected")
             next == app.bindGen + 1
  <1>k. /\ app \in Apps /\ Core(app) /\ UserEditsGrow(app) /\ MergesHoldTheDocument(app)
        /\ Over(Settled, OurBytes, TrueBindings, TrueCopies)
    BY Known
  <1>1. app' = [r EXCEPT !.bindGen = r.bindGen + 1] /\ app.place = "active"
    <2>1. w = [app EXCEPT !.binding = None, !.cfg = None]
      OBVIOUS
    <2> QED
      BY <2>1 DEF Disconnect
  <1>2. w1 \in Apps
    BY <1>k, Setters
  <1>3. w \in Apps
    <2> HIDE DEF w1
    <2> QED BY <1>2, Setters
  <1>f. /\ w.place = "active" /\ w.sess = app.sess /\ w.bindGen = app.bindGen /\ w.doc = app.doc
        /\ w.gen = app.gen /\ w.save = app.save /\ w.binding = None /\ w.slot = app.slot
        /\ w.awaiting = app.awaiting /\ w.auto = app.auto /\ w.tasks = app.tasks
        /\ w.token = app.token
    BY <1>k, <1>1 DEF AppsOf
  <1>t. app.bindGen \in Nat /\ next \in Nat /\ next = app.bindGen + 1
    BY <1>k DEF AppsOf
  <1> HIDE DEF w, next
  <1>4. "Disconnected" \in Statuses
    BY DEF Statuses
  <1>5. /\ r \in Apps /\ SameSession(w, r) /\ SameDocument(w, r) /\ SameSave(w, r)
        /\ SameBinding(w, r) /\ SameMarks(w, r) /\ r.status = "Disconnected" /\ r.conflict = None
        /\ r.token = None
    BY <1>3, <1>4, RouteFields
  <1> HIDE DEF r
  <1>6. app' = [r EXCEPT !.bindGen = next] /\ r.bindGen = app.bindGen
    BY <1>1, <1>f, <1>5 DEF SameSession, next
  <1>7. app' \in Apps
    BY <1>5, <1>6, <1>t, Setters
  <1>8. /\ app'.place = "active" /\ app'.sess = app.sess /\ app'.bindGen = next
        /\ app'.doc = app.doc /\ app'.gen = app.gen /\ app'.save = app.save
        /\ app'.binding = None /\ app'.slot = app.slot /\ app'.awaiting = app.awaiting
        /\ app'.auto = app.auto /\ app'.tasks = app.tasks /\ app'.status = "Disconnected"
        /\ app'.conflict = None /\ app'.token = None
    BY <1>5, <1>6, <1>f
    DEF AppsOf, SameSession, SameDocument, SameSave, SameBinding, SameMarks
  <1>9. UserEditsGrow(app')
    BY <1>k, <1>1, <1>8 DEF UserEditsGrow
  <1>10. app'.save # None /\ app'.save.merge # None /\ app'.save.merge.base = app'.gen =>
             app'.doc \subseteq app'.save.edits
    BY <1>k, <1>8 DEF MergesHoldTheDocument
  <1>11. \A s \in SyncSessions : Dated(app, s) => Dated(app', s) /\ ~IsCurrent(app', s)
    <2> SUFFICES ASSUME NEW s \in SyncSessions, Dated(app, s)
                 PROVE  Dated(app', s) /\ ~IsCurrent(app', s)
      OBVIOUS
    <2>1. s.vault <= app.sess /\ s.binding <= app.bindGen
      BY DEF Dated
    <2>2. s = SyncSession(app') => s.binding = next
      BY <1>8 DEF SyncSession
    <2>3. s.binding <= next /\ s.binding # next
      BY <1>t, <2>1 DEF SyncSessions
    <2> QED
      BY <1>8, <2>1, <2>2, <2>3 DEF Dated, IsCurrent
  <1>12. app'.place # "locked"
    BY <1>8
  <1>13. Core(app') /\ BusyEnds(app')
    BY <1>k, <1>8, <1>9, <1>10, <1>11, <1>12, EndCore
  <1> QED
    BY <1>7, <1>8, <1>13 DEF Advances, Holds, Follows, NoNewResult

LEMMA StartPublishAdvances ==
  ASSUME EngineInv, NEW r \in Remotes, StartPublish(r)
  PROVE  Advances
  <1> DEFINE Apps == AppsOf(Settled, OurBytes, TrueBindings, TrueCopies)
             t == [kind |-> "publish", id |-> NewId(app), owner |-> SyncSession(app),
                   remote |-> r, phase |-> "read", bytes |-> None, answer |-> None]
  <1>k. /\ app \in Apps /\ Core(app) /\ LockedIsQuiet(app) /\ Numbered(app)
        /\ Over(Settled, OurBytes, TrueBindings, TrueCopies)
    BY Known
  <1>1. app' = Spawn(app, t) /\ InMemory(app)
    BY DEF StartPublish, InMemory
  <1>2. NewId(app) \in Nat /\ \A u \in app.tasks : u.id # NewId(app)
    BY <1>k, FreshId DEF Numbered
  <1>3. SyncSession(app) \in SyncSessions /\ Dated(app, SyncSession(app))
    BY <1>k, CurrentSession
  <1>4. /\ t.kind = "publish" /\ t.id = NewId(app) /\ t.owner = SyncSession(app)
        /\ t.phase = "read" /\ t.answer = None
    OBVIOUS
  <1>5. t \in [kind : {"publish"}, id : Nat, owner : SyncSessions, remote : Remotes,
              phase : {"read", "write", "done"}, bytes : OurBytes \cup {None},
              answer : AnswersOf({"refused"}) \cup BoundAnswers(TrueBindings) \cup {None}]
    BY <1>2, <1>3
  <1> HIDE DEF t
  <1>6. t \in TasksIn(Settled, OurBytes, TrueBindings, TrueCopies)
    BY <1>4, <1>5 DEF TasksIn, PublishesOf
  <1>7. /\ app' \in Apps /\ SameSession(app, app') /\ SameDocument(app, app') /\ SameSave(app, app')
        /\ SameBinding(app, app') /\ SameStatus(app, app') /\ app'.slot = app.slot
        /\ app'.awaiting = app.awaiting /\ app'.auto = app.auto /\ app'.tasks = app.tasks \cup {t}
    BY <1>k, <1>1, <1>6, SpawnFields
  <1>8. Core(app')
    BY <1>k, <1>1, <1>2, <1>3, <1>4, <1>7, TaskCore DEF SameStatus, LockedIsQuiet
  <1>9. \A s : IsCurrent(app', s) <=> IsCurrent(app, s)
    BY <1>7 DEF IsCurrent, SyncSession, SameSession, InMemory
  <1>10. WillSync(app) => WillSync(app')
    BY <1>7, <1>9 DEF WillSync, SameSave, SameStatus
  <1>11. WillRestore(app) => WillRestore(app')
    BY <1>7, <1>9 DEF WillRestore
  <1> QED
    BY <1>7, <1>8, <1>10, <1>11
    DEF Advances, Holds, Follows, NoNewResult, SameDocument, SameSave, EngineInv, BusyEnds, SameStatus

LEMMA CrashAdvances ==
  ASSUME EngineInv, Crash
  PROVE  Advances
  <1> DEFINE Apps == AppsOf(Settled, OurBytes, TrueBindings, TrueCopies)
             no == FALSE
             zero == 0
             empty == {}
             l == LockNow(app)
             w1 == [l EXCEPT !.save = None]
             w2 == [w1 EXCEPT !.slot = None]
             w3 == [w2 EXCEPT !.auto = no]
             w4 == [w3 EXCEPT !.token = None]
             w5 == [w4 EXCEPT !.backoff = no]
             w6 == [w5 EXCEPT !.bindGen = zero]
             w7 == [w6 EXCEPT !.tasks = empty]
  <1>n. /\ no \in BOOLEAN /\ zero \in Nat
        /\ empty \in SUBSET TasksIn(Settled, OurBytes, TrueBindings, TrueCopies)
    OBVIOUS
  <1>1. app' = [l EXCEPT !.save = None, !.slot = None, !.auto = no, !.token = None,
                         !.backoff = no, !.bindGen = zero, !.tasks = empty]
    BY DEF Crash
  <1>2. app' = w7
    BY <1>1
  <1>l. l \in Apps /\ l.place = "locked" /\ l.binding = None /\ l.status = "Disconnected"
        /\ l.conflict = None /\ l.awaiting = None
    BY Known, LockNowFields
  <1> HIDE DEF l, no, zero
  <1>f. /\ app'.place = "locked" /\ app'.binding = None /\ app'.status = "Disconnected"
        /\ app'.conflict = None /\ app'.awaiting = None /\ app'.save = None /\ app'.slot = None
        /\ app'.auto = no /\ app'.token = None /\ app'.tasks = empty
    BY <1>1, <1>l, SMTT(60) DEF AppsOf
  <1> HIDE DEF empty
  <1>3. w1 \in Apps
    BY <1>l, Setters
  <1>4. w2 \in Apps
    <2> HIDE DEF w1
    <2> QED BY <1>3, Setters
  <1>5. w3 \in Apps
    <2> HIDE DEF w2
    <2> QED BY <1>4, <1>n, Setters
  <1>6. w4 \in Apps
    <2> HIDE DEF w3
    <2> QED BY <1>5, Setters
  <1>7. w5 \in Apps
    <2> HIDE DEF w4
    <2> QED BY <1>6, <1>n, Setters
  <1>8. w6 \in Apps
    <2> HIDE DEF w5
    <2> QED BY <1>7, <1>n, Setters
  <1>9. w7 \in Apps
    <2> HIDE DEF w6
    <2> QED BY <1>8, <1>n, Setters
  <1>e. app'.tasks = {} /\ ~app'.auto
    BY <1>f DEF no, empty
  <1>10. Numbered(app')
    BY <1>e, FS_EmptySet DEF Numbered
  <1>11. Core(app')
    BY <1>e, <1>f, <1>10
    DEF Core, UserEditsGrow, MergesHoldTheDocument, SavesAreTrue, LockedIsQuiet, SessionsArePast,
        CurrentIsBound, SlotIsHeld, Marked
  <1>12. BusyEnds(app') /\ ~InMemory(app')
    BY <1>f DEF BusyEnds, InMemory
  <1> QED
    BY <1>2, <1>9, <1>11, <1>12, <1>f DEF Advances, Holds, Follows, NoNewResult

-----------------------------------------------------------------------------
(* Tasks move on. *)

LEMMA KindsOfTasks ==
  ASSUME NEW D, NEW B, NEW G, NEW C, NEW t \in TasksIn(D, B, G, C)
  PROVE  /\ t.kind = "push" => t \in PushesOf(B, G, C)
         /\ t.kind = "pull" => t \in PullsOf(C)
         /\ t.kind = "decrypt" => t \in DecryptsOf(D, C)
         /\ t.kind = "restore" => t \in RestoresOf(G)
         /\ t.kind = "publish" => t \in PublishesOf(B, G)
  BY DEF TasksIn, PushesOf, PullsOf, DecryptsOf, RestoresOf, PublishesOf

LEMMA TasksAreTyped ==
  ASSUME EngineInv, NEW t \in app.tasks
  PROVE  /\ t.kind = "push" => t \in PushesOf(OurBytes, TrueBindings, TrueCopies)
         /\ t.kind = "pull" => t \in PullsOf(TrueCopies)
         /\ t.kind = "decrypt" => t \in DecryptsOf(Settled, TrueCopies)
         /\ t.kind = "restore" => t \in RestoresOf(TrueBindings)
         /\ t.kind = "publish" => t \in PublishesOf(OurBytes, TrueBindings)
  <1>1. t \in TasksIn(Settled, OurBytes, TrueBindings, TrueCopies)
    BY Known DEF AppsOf
  <1> QED
    BY <1>1, KindsOfTasks

Stepped(a, t, u) == [a EXCEPT !.tasks = (a.tasks \ {t}) \cup {u}]

LEMMA SteppedFields ==
  ASSUME NEW D, NEW B, NEW G, NEW C, NEW a \in AppsOf(D, B, G, C), NEW t,
         NEW u \in TasksIn(D, B, G, C)
  PROVE  LET b == Stepped(a, t, u)
         IN  /\ b \in AppsOf(D, B, G, C)
             /\ SameSession(a, b) /\ SameDocument(a, b) /\ SameSave(a, b) /\ SameBinding(a, b)
             /\ SameStatus(a, b) /\ b.slot = a.slot /\ b.awaiting = a.awaiting /\ b.auto = a.auto
             /\ b.tasks = (a.tasks \ {t}) \cup {u}
  <1> DEFINE tasks == (a.tasks \ {t}) \cup {u}
  <1>1. tasks \in SUBSET TasksIn(D, B, G, C)
    BY DEF AppsOf
  <1>2. Stepped(a, t, u) = [a EXCEPT !.tasks = tasks]
    BY DEF Stepped
  <1> HIDE DEF tasks
  <1>3. \A x \in SUBSET TasksIn(D, B, G, C) : [a EXCEPT !.tasks = x] \in AppsOf(D, B, G, C)
    BY Setters
  <1>4. Stepped(a, t, u) \in AppsOf(D, B, G, C)
    BY <1>1, <1>2, <1>3
  <1> QED
    BY <1>2, <1>4 DEF tasks, AppsOf, SameSession, SameDocument, SameSave, SameBinding, SameStatus

\* A step of a task is one of its next forms, with the same number, owner and revision.
LEMMA StepAdvances ==
  ASSUME EngineInv, NEW t \in app.tasks,
         NEW u \in TasksIn(Settled, OurBytes, TrueBindings, TrueCopies), Step(t, u),
         u.kind = t.kind, u.id = t.id, u.owner = t.owner, t.kind # "decrypt",
         t.kind \in {"push", "pull"} => u.etag = t.etag,
         t.kind = "push" => u.resolves = t.resolves,
         t.kind \in {"restore", "publish"} /\ u.answer # None /\ u.answer.as = "restored" =>
             app.cfg # None /\ app.cfg.remote = u.answer.cfg.remote
  PROVE  Advances
  <1>1. app' = Stepped(app, t, u)
    BY DEF Step, Stepped
  <1>2. /\ app' \in AppsOf(Settled, OurBytes, TrueBindings, TrueCopies)
        /\ SameSession(app, app') /\ SameDocument(app, app') /\ SameSave(app, app')
        /\ SameBinding(app, app') /\ SameStatus(app, app') /\ app'.slot = app.slot
        /\ app'.awaiting = app.awaiting /\ app'.auto = app.auto
        /\ app'.tasks = (app.tasks \ {t}) \cup {u}
    BY <1>1, Known, SteppedFields
  <1>3. app'.binding = app.binding /\ app'.cfg = app.cfg
    BY <1>2 DEF SameBinding
  <1>4. Core(app') /\ (BusyEnds(app) => BusyEnds(app'))
    BY <1>2, <1>3, Known, StepCore
  <1> QED
    BY <1>2, <1>4 DEF Advances, Holds, Follows, NoNewResult, SameDocument, SameSave, EngineInv

\* An answer ends a task.
LEMMA PushAnswered ==
  ASSUME EngineInv, NEW p \in app.tasks, p.kind = "push", NEW x,
         \/ x \in AnswersOf({"network", "throttled", "grant"})
         \/ x \in CopyAnswers("conflict", TrueCopies) /\ x.etag.remote = p.remote
  PROVE  LET u == [p EXCEPT !.phase = "done", !.answer = x]
         IN  /\ u \in TasksIn(Settled, OurBytes, TrueBindings, TrueCopies)
             /\ u.kind = p.kind /\ u.id = p.id /\ u.owner = p.owner /\ u.etag = p.etag
             /\ u.resolves = p.resolves
  <1> DEFINE u == [p EXCEPT !.phase = "done", !.answer = x]
             Records == [kind : {"push"}, id : Nat, owner : SyncSessions, interactive : BOOLEAN,
                         bytes : OurBytes \cup {None}, remote : Remotes, etag : Etags,
                         resolves : BOOLEAN, phase : {"read", "send", "rejected", "done"},
                         answer : AnswersOf({"network", "throttled", "grant"}) \cup SyncedAnswers
                                    \cup CopyAnswers("conflict", TrueCopies) \cup {None}]
  <1>1. p \in PushesOf(OurBytes, TrueBindings, TrueCopies)
    BY TasksAreTyped
  <1>2. p \in Records /\ p.etag.remote = p.remote
    BY <1>1 DEF PushesOf
  <1>n. x # None /\ x \notin SyncedAnswers
    <2>1. /\ None \notin AnswersOf({"network", "throttled", "grant"})
          /\ None \notin CopyAnswers("conflict", TrueCopies)
      BY Known, NoneIsNone
    <2>2. x.as # "synced"
      BY DEF AnswersOf, CopyAnswers
    <2> QED
      BY <2>1, <2>2 DEF SyncedAnswers
  <1>3. u \in Records
    BY <1>2
  <1>4. /\ u.phase = "done" /\ u.answer = x /\ u.etag = p.etag /\ u.remote = p.remote
        /\ u.kind = p.kind /\ u.id = p.id /\ u.owner = p.owner /\ u.resolves = p.resolves
    BY <1>2
  <1>5. x \in CopyAnswers("conflict", TrueCopies) => x.etag.remote = p.remote
    <2>1. x \in AnswersOf({"network", "throttled", "grant"}) => x.as # "conflict"
      BY DEF AnswersOf
    <2> QED
      BY <2>1 DEF CopyAnswers
  <1> HIDE DEF u
  <1>6. u \in PushesOf(OurBytes, TrueBindings, TrueCopies)
    BY <1>2, <1>3, <1>4, <1>5, <1>n DEF PushesOf
  <1> QED
    BY <1>4, <1>6 DEF u, TasksIn

LEMMA PullAnswered ==
  ASSUME EngineInv, NEW p \in app.tasks, p.kind = "pull", NEW x,
         \/ x \in AnswersOf({"network", "grant", "same"})
         \/ x \in CopyAnswers("pulled", TrueCopies) /\ x.etag.remote = p.remote
  PROVE  LET u == [p EXCEPT !.phase = "done", !.answer = x]
         IN  /\ u \in TasksIn(Settled, OurBytes, TrueBindings, TrueCopies)
             /\ u.kind = p.kind /\ u.id = p.id /\ u.owner = p.owner /\ u.etag = p.etag
  <1> DEFINE u == [p EXCEPT !.phase = "done", !.answer = x]
             Records == [kind : {"pull"}, id : Nat, owner : SyncSessions, remote : Remotes,
                         etag : Etags, deferred : Etags \cup {None},
                         phase : {"check", "ahead", "done"},
                         answer : AnswersOf({"network", "grant", "same"})
                                    \cup CopyAnswers("pulled", TrueCopies) \cup {None}]
  <1>1. p \in PullsOf(TrueCopies)
    BY TasksAreTyped
  <1>2. p \in Records /\ p.etag.remote = p.remote
    BY <1>1 DEF PullsOf
  <1>n. x # None
    <2>1. /\ None \notin AnswersOf({"network", "grant", "same"})
          /\ None \notin CopyAnswers("pulled", TrueCopies)
      BY Known, NoneIsNone
    <2> QED
      BY <2>1
  <1>3. u \in Records
    BY <1>2
  <1>4. /\ u.phase = "done" /\ u.answer = x /\ u.etag = p.etag /\ u.remote = p.remote
        /\ u.kind = p.kind /\ u.id = p.id /\ u.owner = p.owner
    BY <1>2
  <1>5. x \in CopyAnswers("pulled", TrueCopies) => x.etag.remote = p.remote
    <2>1. x \in AnswersOf({"network", "grant", "same"}) => x.as # "pulled"
      BY DEF AnswersOf
    <2> QED
      BY <2>1 DEF CopyAnswers
  <1> HIDE DEF u
  <1>6. u \in PullsOf(TrueCopies)
    BY <1>2, <1>3, <1>4, <1>5, <1>n DEF PullsOf
  <1> QED
    BY <1>4, <1>6 DEF u, TasksIn

LEMMA RestoreAnswered ==
  ASSUME EngineInv, NEW t \in app.tasks, t.kind = "restore",
         NEW x \in AnswersOf({"network", "grant", "gone"}) \cup BoundAnswers(TrueBindings)
  PROVE  LET u == [t EXCEPT !.phase = "done", !.answer = x]
         IN  /\ u \in TasksIn(Settled, OurBytes, TrueBindings, TrueCopies)
             /\ u.kind = t.kind /\ u.id = t.id /\ u.owner = t.owner /\ u.answer = x
  <1> DEFINE u == [t EXCEPT !.phase = "done", !.answer = x]
             Records == [kind : {"restore"}, id : Nat, owner : SyncSessions, phase : {"read", "done"},
                         answer : AnswersOf({"network", "grant", "gone"})
                                    \cup BoundAnswers(TrueBindings) \cup {None}]
  <1>2. t \in Records
    BY TasksAreTyped DEF RestoresOf
  <1>n. x # None
    BY Known, NoneIsNone
  <1>3. u \in Records
    BY <1>2
  <1>4. /\ u.phase = "done" /\ u.answer = x
        /\ u.kind = t.kind /\ u.id = t.id /\ u.owner = t.owner
    BY <1>2
  <1> HIDE DEF u
  <1>6. u \in RestoresOf(TrueBindings)
    BY <1>3, <1>4, <1>n DEF RestoresOf
  <1> QED
    BY <1>4, <1>6 DEF u, TasksIn

\* What a remote file is now.
LEMMA RemoteCopy ==
  ASSUME EngineInv, NEW r \in Remotes
  PROVE  /\ remotes[r].edits \in Settled /\ remotes[r].etag \in Etags /\ remotes[r].etag.remote = r
         /\ [edits |-> remotes[r].edits, etag |-> remotes[r].etag] \in TrueCopies
  <1>1. /\ remotes[r] \in [edits : Settled, etag : Etags] /\ remotes[r].etag.remote = r
        /\ remotes[r].edits \cap UserEdits \subseteq file.edits
    BY DEF EngineInv, FilesAreSettled
  <1> QED
    BY <1>1 DEF TrueCopies

LEMMA CopyAnswerOf ==
  ASSUME EngineInv, NEW r \in Remotes, NEW as \in {"conflict", "pulled"}
  PROVE  LET x == [as |-> as, edits |-> remotes[r].edits, etag |-> remotes[r].etag]
         IN  x \in CopyAnswers(as, TrueCopies) /\ x.etag.remote = r
  <1> DEFINE x == [as |-> as, edits |-> remotes[r].edits, etag |-> remotes[r].etag]
  <1>1. x \in [as : {as}, edits : SUBSET AllEdits, etag : Etags]
    BY RemoteCopy, Known DEF Over
  <1>2. Copy(x) \in TrueCopies
    BY RemoteCopy DEF Copy
  <1> QED
    BY <1>1, <1>2, RemoteCopy DEF CopyAnswers

LEMMA FileIsOurs ==
  ASSUME EngineInv
  PROVE  file \in OurBytes /\ file # None
  <1>1. file \in [edits : Settled, rev : Nat]
    BY DEF EngineInv, FilesAreSettled
  <1>2. file \in OurBytes
    BY <1>1 DEF OurBytes
  <1> QED
    BY <1>2, Known, NoneIsNone

LEMMA PushReadAdvances ==
  ASSUME EngineInv, NEW p \in app.tasks, PushRead(p)
  PROVE  Advances
  <1> DEFINE bytes == IF p.bytes = None THEN file ELSE p.bytes
             u == [p EXCEPT !.phase = "send", !.bytes = bytes]
             Records == [kind : {"push"}, id : Nat, owner : SyncSessions, interactive : BOOLEAN,
                         bytes : OurBytes \cup {None}, remote : Remotes, etag : Etags,
                         resolves : BOOLEAN, phase : {"read", "send", "rejected", "done"},
                         answer : AnswersOf({"network", "throttled", "grant"}) \cup SyncedAnswers
                                    \cup CopyAnswers("conflict", TrueCopies) \cup {None}]
  <1>1. p.kind = "push" /\ p.phase = "read" /\ Step(p, u)
    BY DEF PushRead, TasksOf
  <1>2. p \in Records /\ p.etag.remote = p.remote /\ p.answer = None
    BY <1>1, TasksAreTyped DEF PushesOf
  <1>3. bytes \in OurBytes /\ bytes # None
    BY <1>2, FileIsOurs
  <1> HIDE DEF bytes
  <1>4. u \in Records
    BY <1>2, <1>3
  <1>5. /\ u.phase = "send" /\ u.bytes = bytes /\ u.answer = None /\ u.etag = p.etag
        /\ u.remote = p.remote /\ u.kind = p.kind /\ u.id = p.id /\ u.owner = p.owner
        /\ u.resolves = p.resolves
    BY <1>2
  <1>n. None \notin CopyAnswers("conflict", TrueCopies) /\ None \notin SyncedAnswers
    BY Known, NoneIsNone
  <1> HIDE DEF u
  <1>6. u \in PushesOf(OurBytes, TrueBindings, TrueCopies)
    BY <1>2, <1>3, <1>4, <1>5, <1>n DEF PushesOf
  <1>7. u \in TasksIn(Settled, OurBytes, TrueBindings, TrueCopies)
    BY <1>6 DEF TasksIn
  <1> QED
    BY <1>1, <1>5, <1>7, StepAdvances

\* The phase of a push that was rejected.
LEMMA PushRejected ==
  ASSUME EngineInv, NEW p \in app.tasks, p.kind = "push", p.phase = "send",
         Step(p, [p EXCEPT !.phase = "rejected"])
  PROVE  Advances
  <1> DEFINE u == [p EXCEPT !.phase = "rejected"]
             Records == [kind : {"push"}, id : Nat, owner : SyncSessions, interactive : BOOLEAN,
                         bytes : OurBytes \cup {None}, remote : Remotes, etag : Etags,
                         resolves : BOOLEAN, phase : {"read", "send", "rejected", "done"},
                         answer : AnswersOf({"network", "throttled", "grant"}) \cup SyncedAnswers
                                    \cup CopyAnswers("conflict", TrueCopies) \cup {None}]
  <1>1. Step(p, u)
    OBVIOUS
  <1>2. p \in Records /\ p.etag.remote = p.remote /\ p.answer = None /\ p.bytes # None
    BY TasksAreTyped DEF PushesOf
  <1>4. u \in Records
    BY <1>2
  <1>5. /\ u.phase = "rejected" /\ u.bytes = p.bytes /\ u.answer = None /\ u.etag = p.etag
        /\ u.remote = p.remote /\ u.kind = p.kind /\ u.id = p.id /\ u.owner = p.owner
        /\ u.resolves = p.resolves
    BY <1>2
  <1>n. None \notin CopyAnswers("conflict", TrueCopies) /\ None \notin SyncedAnswers
    BY Known, NoneIsNone
  <1> HIDE DEF u
  <1>6. u \in PushesOf(OurBytes, TrueBindings, TrueCopies)
    BY <1>2, <1>4, <1>5, <1>n DEF PushesOf
  <1>7. u \in TasksIn(Settled, OurBytes, TrueBindings, TrueCopies)
    BY <1>6 DEF TasksIn
  <1> QED
    BY <1>1, <1>5, <1>7, StepAdvances

LEMMA PushDownloadAdvances ==
  ASSUME EngineInv, NEW p \in app.tasks, PushDownload(p)
  PROVE  Advances
  <1> DEFINE x == [as |-> "conflict", edits |-> remotes[p.remote].edits,
                   etag |-> remotes[p.remote].etag]
             u == [p EXCEPT !.phase = "done", !.answer = x]
  <1>1. p.kind = "push" /\ Step(p, u)
    BY DEF PushDownload, TasksOf, Answered
  <1>2. p.remote \in Remotes
    BY <1>1, TasksAreTyped DEF PushesOf
  <1>3. x \in CopyAnswers("conflict", TrueCopies) /\ x.etag.remote = p.remote
    BY <1>2, CopyAnswerOf
  <1> HIDE DEF x
  <1>4. /\ u \in TasksIn(Settled, OurBytes, TrueBindings, TrueCopies)
        /\ u.kind = p.kind /\ u.id = p.id /\ u.owner = p.owner /\ u.etag = p.etag
        /\ u.resolves = p.resolves
    BY <1>1, <1>3, PushAnswered
  <1> HIDE DEF u
  <1> QED
    BY <1>1, <1>4, StepAdvances

LEMMA PushFailsAdvances ==
  ASSUME EngineInv, NEW p \in app.tasks, NEW why \in {"network", "throttled", "grant"},
         p.kind = "push", Answered(p, [as |-> why])
  PROVE  Advances
  <1> DEFINE x == [as |-> why]
             u == [p EXCEPT !.phase = "done", !.answer = x]
  <1>1. Step(p, u)
    BY DEF Answered
  <1>3. x \in AnswersOf({"network", "throttled", "grant"})
    BY DEF AnswersOf
  <1> HIDE DEF x
  <1>4. /\ u \in TasksIn(Settled, OurBytes, TrueBindings, TrueCopies)
        /\ u.kind = p.kind /\ u.id = p.id /\ u.owner = p.owner /\ u.etag = p.etag
        /\ u.resolves = p.resolves
    BY <1>3, PushAnswered
  <1> HIDE DEF u
  <1> QED
    BY <1>1, <1>4, StepAdvances

LEMMA PullEnds ==
  ASSUME EngineInv, NEW p \in app.tasks, NEW why \in {"network", "grant", "same"},
         p.kind = "pull", Answered(p, [as |-> why])
  PROVE  Advances
  <1> DEFINE x == [as |-> why]
             u == [p EXCEPT !.phase = "done", !.answer = x]
  <1>1. Step(p, u)
    BY DEF Answered
  <1>3. x \in AnswersOf({"network", "grant", "same"})
    BY DEF AnswersOf
  <1> HIDE DEF x
  <1>4. /\ u \in TasksIn(Settled, OurBytes, TrueBindings, TrueCopies)
        /\ u.kind = p.kind /\ u.id = p.id /\ u.owner = p.owner /\ u.etag = p.etag
    BY <1>3, PullAnswered
  <1> HIDE DEF u
  <1> QED
    BY <1>1, <1>4, StepAdvances

LEMMA PullCheckAdvances ==
  ASSUME EngineInv, NEW p \in app.tasks, PullCheck(p)
  PROVE  Advances
  <1> DEFINE u == [p EXCEPT !.phase = "ahead"]
             Records == [kind : {"pull"}, id : Nat, owner : SyncSessions, remote : Remotes,
                         etag : Etags, deferred : Etags \cup {None},
                         phase : {"check", "ahead", "done"},
                         answer : AnswersOf({"network", "grant", "same"})
                                    \cup CopyAnswers("pulled", TrueCopies) \cup {None}]
  <1>1. p.kind = "pull" /\ p.phase = "check"
    BY DEF PullCheck, TasksOf
  <1>2. CASE Answered(p, [as |-> "same"])
    BY <1>1, <1>2, PullEnds
  <1>3. CASE Step(p, u)
    <2>2. p \in Records /\ p.etag.remote = p.remote /\ p.answer = None
      BY <1>1, TasksAreTyped DEF PullsOf
    <2>4. u \in Records
      BY <2>2
    <2>5. /\ u.phase = "ahead" /\ u.answer = None /\ u.etag = p.etag
          /\ u.remote = p.remote /\ u.kind = p.kind /\ u.id = p.id /\ u.owner = p.owner
      BY <2>2
    <2>n. None \notin CopyAnswers("pulled", TrueCopies)
      BY Known, NoneIsNone
    <2> HIDE DEF u
    <2>6. u \in PullsOf(TrueCopies)
      BY <2>2, <2>4, <2>5, <2>n DEF PullsOf
    <2>7. u \in TasksIn(Settled, OurBytes, TrueBindings, TrueCopies)
      BY <2>6 DEF TasksIn
    <2> QED
      BY <1>1, <1>3, <2>5, <2>7, StepAdvances
  <1> QED
    BY <1>2, <1>3 DEF PullCheck

LEMMA PullDownloadAdvances ==
  ASSUME EngineInv, NEW p \in app.tasks, PullDownload(p)
  PROVE  Advances
  <1> DEFINE x == [as |-> "pulled", edits |-> remotes[p.remote].edits,
                   etag |-> remotes[p.remote].etag]
             u == [p EXCEPT !.phase = "done", !.answer = x]
  <1>1. p.kind = "pull" /\ Step(p, u)
    BY DEF PullDownload, TasksOf, Answered
  <1>2. p.remote \in Remotes
    BY <1>1, TasksAreTyped DEF PullsOf
  <1>3. x \in CopyAnswers("pulled", TrueCopies) /\ x.etag.remote = p.remote
    BY <1>2, CopyAnswerOf
  <1> HIDE DEF x
  <1>4. /\ u \in TasksIn(Settled, OurBytes, TrueBindings, TrueCopies)
        /\ u.kind = p.kind /\ u.id = p.id /\ u.owner = p.owner /\ u.etag = p.etag
    BY <1>1, <1>3, PullAnswered
  <1> HIDE DEF u
  <1> QED
    BY <1>1, <1>4, StepAdvances

LEMMA RestoreReadAdvances ==
  ASSUME EngineInv, NEW t \in app.tasks, RestoreRead(t)
  PROVE  Advances
  <1> DEFINE x == IF app.cfg = None THEN [as |-> "gone"] ELSE [as |-> "restored", cfg |-> app.cfg]
             u == [t EXCEPT !.phase = "done", !.answer = x]
  <1>1. t.kind = "restore" /\ Step(t, u)
    BY DEF RestoreRead, TasksOf, Answered
  <1>2. app.cfg \in TrueBindings \cup {None}
    BY Known DEF AppsOf
  <1>3. /\ x \in AnswersOf({"network", "grant", "gone"}) \cup BoundAnswers(TrueBindings)
        /\ x.as = "restored" => app.cfg # None /\ x.cfg = app.cfg
    BY <1>2 DEF AnswersOf, BoundAnswers
  <1> HIDE DEF x
  <1>4. /\ u \in TasksIn(Settled, OurBytes, TrueBindings, TrueCopies)
        /\ u.kind = t.kind /\ u.id = t.id /\ u.owner = t.owner /\ u.answer = x
    BY <1>1, <1>3, RestoreAnswered
  <1> HIDE DEF u
  <1> QED
    BY <1>1, <1>3, <1>4, StepAdvances

LEMMA RestoreFailsAdvances ==
  ASSUME EngineInv, NEW t \in app.tasks, NEW why, RestoreFails(t, why)
  PROVE  Advances
  <1> DEFINE x == [as |-> why]
             u == [t EXCEPT !.phase = "done", !.answer = x]
  <1>1. t.kind = "restore" /\ Step(t, u) /\ why \in {"network", "grant"}
    BY DEF RestoreFails, TasksOf, Answered
  <1>3. x \in AnswersOf({"network", "grant", "gone"}) /\ x.as # "restored"
    BY <1>1 DEF AnswersOf
  <1> HIDE DEF x
  <1>4. /\ u \in TasksIn(Settled, OurBytes, TrueBindings, TrueCopies)
        /\ u.kind = t.kind /\ u.id = t.id /\ u.owner = t.owner /\ u.answer = x
    BY <1>1, <1>3, RestoreAnswered
  <1> HIDE DEF u
  <1> QED
    BY <1>1, <1>3, <1>4, StepAdvances

LEMMA PublishReadAdvances ==
  ASSUME EngineInv, NEW t \in app.tasks, PublishRead(t)
  PROVE  Advances
  <1> DEFINE u == [t EXCEPT !.phase = "write", !.bytes = file]
             Records == [kind : {"publish"}, id : Nat, owner : SyncSessions, remote : Remotes,
                         phase : {"read", "write", "done"}, bytes : OurBytes \cup {None},
                         answer : AnswersOf({"refused"}) \cup BoundAnswers(TrueBindings) \cup {None}]
  <1>1. t.kind = "publish" /\ t.phase = "read" /\ Step(t, u)
    BY DEF PublishRead, TasksOf
  <1>2. t \in Records /\ t.answer = None
    BY <1>1, TasksAreTyped DEF PublishesOf
  <1>4. u \in Records
    BY <1>2, FileIsOurs
  <1>5. /\ u.phase = "write" /\ u.bytes = file /\ u.answer = None
        /\ u.kind = t.kind /\ u.id = t.id /\ u.owner = t.owner
    BY <1>2
  <1> HIDE DEF u
  <1>6. u \in PublishesOf(OurBytes, TrueBindings)
    BY <1>4, <1>5, FileIsOurs DEF PublishesOf
  <1>7. u \in TasksIn(Settled, OurBytes, TrueBindings, TrueCopies)
    BY <1>6 DEF TasksIn
  <1> QED
    BY <1>1, <1>5, <1>7, StepAdvances

\* A publication that finds the vault bound does not write.
LEMMA PublishRefused ==
  ASSUME EngineInv, NEW t \in app.tasks, t.kind = "publish", Answered(t, [as |-> "refused"])
  PROVE  Advances
  <1> DEFINE x == [as |-> "refused"]
             u == [t EXCEPT !.phase = "done", !.answer = x]
             Records == [kind : {"publish"}, id : Nat, owner : SyncSessions, remote : Remotes,
                         phase : {"read", "write", "done"}, bytes : OurBytes \cup {None},
                         answer : AnswersOf({"refused"}) \cup BoundAnswers(TrueBindings) \cup {None}]
  <1>1. Step(t, u)
    BY DEF Answered
  <1>2. t \in Records
    BY TasksAreTyped DEF PublishesOf
  <1>3. x \in AnswersOf({"refused"}) /\ x.as # "restored"
    BY DEF AnswersOf
  <1>n. x # None
    BY <1>3, Known, NoneIsNone
  <1> HIDE DEF x
  <1>4. u \in Records
    BY <1>2, <1>3
  <1>5. /\ u.phase = "done" /\ u.answer = x /\ u.kind = t.kind /\ u.id = t.id /\ u.owner = t.owner
    BY <1>2
  <1> HIDE DEF u
  <1>6. u \in PublishesOf(OurBytes, TrueBindings)
    BY <1>4, <1>5, <1>n DEF PublishesOf
  <1>7. u \in TasksIn(Settled, OurBytes, TrueBindings, TrueCopies)
    BY <1>6 DEF TasksIn
  <1> QED
    BY <1>1, <1>3, <1>5, <1>7, StepAdvances

-----------------------------------------------------------------------------
(* The callbacks. *)

\* A task is gone and its slot is free.
FreeSlot(a) == [a EXCEPT !.slot = None]

LEMMA FreeSlotFields ==
  ASSUME NEW D, NEW B, NEW G, NEW C, NEW a \in AppsOf(D, B, G, C)
  PROVE  LET b == FreeSlot(a)
         IN  /\ b \in AppsOf(D, B, G, C)
             /\ SameSession(a, b) /\ SameDocument(a, b) /\ SameSave(a, b) /\ SameBinding(a, b)
             /\ SameStatus(a, b) /\ b.slot = None /\ b.awaiting = a.awaiting /\ b.auto = a.auto
             /\ b.tasks = a.tasks
  <1>1. FreeSlot(a) \in AppsOf(D, B, G, C)
    BY Setters DEF FreeSlot
  <1> QED
    BY <1>1 DEF FreeSlot, AppsOf, SameSession, SameDocument, SameSave, SameBinding, SameStatus

LEMMA PushDoneAdvances ==
  ASSUME EngineInv, NEW p \in app.tasks, PushDone(p)
  PROVE  Advances
  <1> DEFINE Apps == AppsOf(Settled, OurBytes, TrueBindings, TrueCopies)
             a == Without(app, p)
             freed == FreeSlot(a)
             pending == a.slot.pending
             wanted == pending # None /\ pending.session = p.owner /\ pending.interactive
             interactive == p.interactive \/ wanted
             taken == TakeAnswer(freed, p, interactive)
  <1>k. /\ app \in Apps /\ Core(app) /\ Over(Settled, OurBytes, TrueBindings, TrueCopies)
        /\ \A c \in TrueCopies : c.edits \cap UserEdits \subseteq file.edits
        /\ SlotIsHeld(app) /\ CurrentIsBound(app)
        /\ saveFailed \/ BusyEnds(app)
    BY Known DEF EngineInv
  <1>p. /\ p \in PushesOf(OurBytes, TrueBindings, TrueCopies) /\ p.kind = "push"
        /\ p.phase = "done" /\ ~p.resolves
    BY TasksAreTyped DEF PushDone, TasksOf
  <1>i. interactive \in BOOLEAN
    OBVIOUS
  <1>d. app' = CASE a.slot = None \/ (a.slot # None /\ a.slot.owner # p.owner) -> a
                 [] a.slot # None /\ a.slot.owner = p.owner /\ ~IsCurrent(a, p.owner) ->
                       StartQueued(freed, pending)
                 [] OTHER ->
                       IF p.answer.as = "synced" THEN StartQueued(taken, pending) ELSE taken
    BY DEF PushDone, FreeSlot
  <1> HIDE DEF interactive
  <1>a. /\ a \in Apps
        /\ SameSession(app, a) /\ SameDocument(app, a) /\ SameSave(app, a) /\ SameBinding(app, a)
        /\ SameStatus(app, a) /\ a.slot = app.slot /\ a.awaiting = app.awaiting
        /\ a.auto = app.auto /\ a.tasks = app.tasks \ {p}
    BY <1>k, WithoutFields
  <1>c. \A s : IsCurrent(a, s) <=> IsCurrent(app, s)
    BY <1>a DEF IsCurrent, SyncSession, SameSession, InMemory
  <1>1. CASE a.slot = None \/ (a.slot # None /\ a.slot.owner # p.owner)
    <2>1. app' = a
      BY <1>1, <1>d
    <2> HIDE DEF a
    <2>2. ~IsCurrent(app, p.owner)
      BY <1>1, <1>a, <1>k, <1>p DEF SlotIsHeld
    <2>3. Core(a)
      BY <1>1, <1>a, <1>k, <1>p, GoneCore DEF SameStatus
    <2>4. BusyEnds(app) => BusyEnds(a)
      BY <1>a, <1>p, <2>2, GoneBusy DEF SameStatus
    <2> QED
      BY <1>a, <1>k, <2>1, <2>3, <2>4 DEF Advances, Holds, Follows, NoNewResult, SameDocument, SameSave
  <1>2. CASE a.slot # None /\ a.slot.owner = p.owner
    <2> HIDE DEF a
    <2>f. /\ freed \in Apps
          /\ SameSession(a, freed) /\ SameDocument(a, freed) /\ SameSave(a, freed)
          /\ SameBinding(a, freed) /\ SameStatus(a, freed) /\ freed.slot = None
          /\ freed.awaiting = a.awaiting /\ freed.auto = a.auto /\ freed.tasks = a.tasks
      BY <1>a, FreeSlotFields
    <2> HIDE DEF freed
    <2>g. /\ SameSession(app, freed) /\ SameDocument(app, freed) /\ SameSave(app, freed)
          /\ SameBinding(app, freed) /\ SameStatus(app, freed) /\ freed.slot = None
          /\ freed.awaiting = app.awaiting /\ freed.auto = app.auto /\ freed.tasks = app.tasks \ {p}
      BY <1>a, <2>f DEF SameSession, SameDocument, SameSave, SameBinding, SameStatus
    <2>c. \A s : IsCurrent(freed, s) <=> IsCurrent(app, s)
      BY <2>g DEF IsCurrent, SyncSession, SameSession, InMemory
    <2>1. Core(freed)
      BY <1>2, <1>a, <1>k, <1>p, <2>g, GoneCore DEF SameStatus
    <2>2. pending \in RequestsOf(OurBytes) \cup {None} /\ app.slot \in SlotsOf(OurBytes)
          /\ app.slot.pending = pending
      BY <1>2, <1>a, <1>k DEF AppsOf, SlotsOf
    <2> HIDE DEF pending
    <2>r. RestoreEnds(app) => RestoreEnds(freed)
      BY <1>p, <2>g, GoneBusy DEF SameStatus
    <2>b. BusyEnds(app) => RestoreEnds(app)
      BY DEF BusyEnds, RestoreEnds
    <2>3. CASE ~IsCurrent(a, p.owner)
      <3>1. app' = StartQueued(freed, pending)
        BY <1>2, <1>d, <2>3
      <3>2. ~IsCurrent(app, p.owner)
        BY <1>c, <2>3
      <3>3. BusyEnds(app) => \/ BusyEnds(freed)
                             \/ RestoreEnds(freed) /\ pending # None /\ IsCurrent(freed, pending.session)
        <4>1. WillSync(app) => WillSync(freed) \/ (pending # None /\ IsCurrent(app, pending.session))
          BY <2>2, <2>c, <2>g, <3>2 DEF WillSync, SameSave, SameStatus
        <4> QED
          BY <2>c, <2>g, <2>r, <4>1 DEF BusyEnds, RestoreEnds, SameStatus
      <3>4. /\ app' \in Apps /\ Core(app')
            /\ SameSession(freed, app') /\ SameDocument(freed, app') /\ SameSave(freed, app')
            /\ \/ BusyEnds(freed)
               \/ RestoreEnds(freed) /\ pending # None /\ IsCurrent(freed, pending.session)
               => BusyEnds(app')
        BY <1>k, <2>1, <2>2, <2>f, <3>1, StartQueuedKeeps
      <3> QED
        BY <1>k, <2>g, <3>3, <3>4 DEF Advances, Holds, Follows, NoNewResult, SameDocument, SameSave
    <2>4. CASE IsCurrent(a, p.owner)
      <3>1. app' = IF p.answer.as = "synced" THEN StartQueued(taken, pending) ELSE taken
        BY <1>2, <1>d, <2>4
      <3>2. IsCurrent(app, p.owner) /\ IsCurrent(freed, p.owner)
        BY <1>c, <2>4, <2>c
      <3>3. OfTheBinding(freed, p.etag)
        BY <1>k, <1>p, <2>g, <3>2 DEF CurrentIsBound, OfTheBinding, SameBinding
      <3>4. /\ taken \in Apps /\ Core(taken)
            /\ SameSession(freed, taken) /\ SameDocument(freed, taken) /\ SameSave(freed, taken)
            /\ RestoreEnds(freed) => BusyEnds(taken)
        BY <1>i, <1>k, <1>p, <2>1, <2>f, <3>2, <3>3, TakeAnswerKeeps
      <3> HIDE DEF taken
      <3>5. CASE p.answer.as = "synced"
        <4>1. /\ app' \in Apps /\ Core(app')
              /\ SameSession(taken, app') /\ SameDocument(taken, app') /\ SameSave(taken, app')
              /\ BusyEnds(taken) => BusyEnds(app')
          BY <1>k, <2>2, <3>1, <3>4, <3>5, StartQueuedKeeps
        <4> QED
          BY <1>k, <2>b, <2>g, <2>r, <3>4, <4>1
          DEF Advances, Holds, Follows, NoNewResult, SameDocument, SameSave
      <3>6. CASE p.answer.as # "synced"
        BY <1>k, <2>b, <2>g, <2>r, <3>1, <3>4, <3>6
        DEF Advances, Holds, Follows, NoNewResult, SameDocument, SameSave
      <3> QED
        BY <3>5, <3>6
    <2> QED
      BY <2>3, <2>4
  <1> QED
    BY <1>1, <1>2

\* A screen that closes.
ShowingOverlay(a, overlay) == [a EXCEPT !.overlay = overlay]

LEMMA ShowingFields ==
  ASSUME NEW D, NEW B, NEW G, NEW C, NEW a \in AppsOf(D, B, G, C),
         NEW overlay \in {"none", "edit", "connect", "conflict"}
  PROVE  LET b == ShowingOverlay(a, overlay)
         IN  /\ b \in AppsOf(D, B, G, C)
             /\ SameSession(a, b) /\ SameDocument(a, b) /\ SameSave(a, b) /\ SameBinding(a, b)
             /\ SameStatus(a, b) /\ SameMarks(a, b)
  <1>1. ShowingOverlay(a, overlay) \in AppsOf(D, B, G, C)
    BY Setters DEF ShowingOverlay
  <1> QED
    BY <1>1
    DEF ShowingOverlay, AppsOf, SameSession, SameDocument, SameSave, SameBinding, SameStatus, SameMarks

LEMMA ResolveDoneAdvances ==
  ASSUME EngineInv, NEW p \in app.tasks, ResolveDone(p)
  PROVE  Advances
  <1> DEFINE Apps == AppsOf(Settled, OurBytes, TrueBindings, TrueCopies)
             a == Without(app, p)
             overlay == IF app.place = "active" /\ a.overlay = "conflict" THEN "none" ELSE a.overlay
             closed == ShowingOverlay(a, overlay)
             syncing == Route(a, "Syncing")
             yes == TRUE
  <1>k. /\ app \in Apps /\ Core(app) /\ Over(Settled, OurBytes, TrueBindings, TrueCopies)
        /\ \A c \in TrueCopies : c.edits \cap UserEdits \subseteq file.edits
        /\ CurrentIsBound(app)
        /\ saveFailed \/ BusyEnds(app)
    BY Known DEF EngineInv
  <1>p. /\ p \in PushesOf(OurBytes, TrueBindings, TrueCopies) /\ p.kind = "push"
        /\ p.phase = "done" /\ p.resolves
    BY TasksAreTyped DEF ResolveDone, TasksOf
  <1>y. yes \in BOOLEAN
    OBVIOUS
  <1>d. app' = CASE ~IsCurrent(a, p.owner) -> a
                 [] IsCurrent(a, p.owner) /\ p.answer.as = "synced" -> TakeAnswer(closed, p, yes)
                 [] IsCurrent(a, p.owner) /\ p.answer.as = "conflict" -> TakeAnswer(syncing, p, yes)
                 [] OTHER -> TakeAnswer(a, p, yes)
    BY DEF ResolveDone, ShowingOverlay
  <1> HIDE DEF yes
  <1>a. /\ a \in Apps
        /\ SameSession(app, a) /\ SameDocument(app, a) /\ SameSave(app, a) /\ SameBinding(app, a)
        /\ SameStatus(app, a) /\ a.slot = app.slot /\ a.awaiting = app.awaiting
        /\ a.auto = app.auto /\ a.tasks = app.tasks \ {p}
    BY <1>k, WithoutFields
  <1>c. \A s : IsCurrent(a, s) <=> IsCurrent(app, s)
    BY <1>a DEF IsCurrent, SyncSession, SameSession, InMemory
  <1>o. overlay \in {"none", "edit", "connect", "conflict"}
    BY <1>a DEF AppsOf
  <1> HIDE DEF a, overlay
  <1>1. Core(a)
    BY <1>a, <1>k, <1>p, GoneCore DEF SameStatus
  <1>r. RestoreEnds(app) => RestoreEnds(a)
    BY <1>a, <1>p, GoneBusy DEF SameStatus
  <1>b. BusyEnds(app) => RestoreEnds(app)
    BY DEF BusyEnds, RestoreEnds
  <1>2. CASE ~IsCurrent(a, p.owner)
    <2>1. app' = a
      BY <1>2, <1>d
    <2>2. BusyEnds(app) => BusyEnds(a)
      BY <1>2, <1>a, <1>c, <1>p, GoneBusy DEF SameStatus
    <2> QED
      BY <1>1, <1>a, <1>k, <2>1, <2>2 DEF Advances, Holds, Follows, NoNewResult, SameDocument, SameSave
  <1>3. CASE IsCurrent(a, p.owner)
    <2>1. OfTheBinding(a, p.etag) /\ InMemory(a)
      BY <1>3, <1>a, <1>c, <1>k, <1>p DEF CurrentIsBound, OfTheBinding, SameBinding, IsCurrent
    \* Whatever the answer is given to differs from a by its screen or status.
    <2>2. ASSUME NEW b \in Apps, Core(b), SameSession(a, b), SameDocument(a, b), SameSave(a, b),
                 SameBinding(a, b), RestoreEnds(a) => RestoreEnds(b), app' = TakeAnswer(b, p, yes)
          PROVE  Advances
      <3>1. IsCurrent(b, p.owner) /\ OfTheBinding(b, p.etag)
        BY <1>3, <2>1, <2>2
        DEF IsCurrent, SyncSession, SameSession, InMemory, OfTheBinding, SameBinding
      <3>2. /\ app' \in Apps /\ Core(app')
            /\ SameSession(b, app') /\ SameDocument(b, app') /\ SameSave(b, app')
            /\ RestoreEnds(b) => BusyEnds(app')
        BY <1>k, <1>p, <1>y, <2>2, <3>1, TakeAnswerKeeps
      <3> QED
        BY <1>a, <1>b, <1>k, <1>r, <2>2, <3>2
        DEF Advances, Holds, Follows, NoNewResult, SameDocument, SameSave
    <2>3. CASE p.answer.as = "synced"
      <3>1. /\ closed \in Apps
            /\ SameSession(a, closed) /\ SameDocument(a, closed) /\ SameSave(a, closed)
            /\ SameBinding(a, closed) /\ SameStatus(a, closed) /\ SameMarks(a, closed)
        BY <1>a, <1>o, ShowingFields
      <3>d. app' = TakeAnswer(closed, p, yes)
        BY <1>3, <1>d, <2>3
      <3> HIDE DEF closed
      <3>2. Core(closed)
        BY <1>1, <3>1, ScreenCore DEF SameSession, SameStatus, InMemory
      <3>3. RestoreEnds(closed) <=> RestoreEnds(a)
        BY <3>1, SameBusy
      <3> QED
        BY <2>2, <3>1, <3>2, <3>3, <3>d
    <2>4. CASE p.answer.as = "conflict"
      <3>1. "Syncing" \in Statuses /\ a.binding # None
        BY <2>1 DEF Statuses, Busy, OfTheBinding
      <3>2. /\ syncing \in Apps /\ Core(syncing)
            /\ SameSession(a, syncing) /\ SameDocument(a, syncing) /\ SameSave(a, syncing)
            /\ SameBinding(a, syncing) /\ RestoreEnds(syncing)
        BY <1>1, <1>a, <2>1, <3>1, RouteKeeps
      <3>d. app' = TakeAnswer(syncing, p, yes)
        BY <1>3, <1>d, <2>4
      <3> HIDE DEF syncing
      <3> QED
        BY <2>2, <3>2, <3>d
    <2>5. CASE p.answer.as \notin {"synced", "conflict"}
      <3>d. app' = TakeAnswer(a, p, yes)
        BY <1>3, <1>d, <2>5
      <3>1. SameSession(a, a) /\ SameDocument(a, a) /\ SameSave(a, a) /\ SameBinding(a, a)
        BY DEF SameSession, SameDocument, SameSave, SameBinding
      <3> QED
        BY <1>1, <1>a, <2>2, <3>1, <3>d
    <2> QED
      BY <2>3, <2>4, <2>5
  <1> QED
    BY <1>2, <1>3

\* A pull is gone, and its mark.
PullGone(a, p) == [Without(a, p) EXCEPT !.auto = FALSE]

LEMMA PullGoneFields ==
  ASSUME NEW D, NEW B, NEW G, NEW C, NEW a \in AppsOf(D, B, G, C), NEW p
  PROVE  LET b == PullGone(a, p)
         IN  /\ b \in AppsOf(D, B, G, C)
             /\ SameSession(a, b) /\ SameDocument(a, b) /\ SameSave(a, b) /\ SameBinding(a, b)
             /\ SameStatus(a, b) /\ b.slot = a.slot /\ b.awaiting = a.awaiting /\ ~b.auto
             /\ b.tasks = a.tasks \ {p}
  <1> DEFINE w == Without(a, p)
             no == FALSE
  <1>1. /\ w \in AppsOf(D, B, G, C)
        /\ SameSession(a, w) /\ SameDocument(a, w) /\ SameSave(a, w) /\ SameBinding(a, w)
        /\ SameStatus(a, w) /\ w.slot = a.slot /\ w.awaiting = a.awaiting
        /\ w.tasks = a.tasks \ {p}
    BY WithoutFields
  <1>2. PullGone(a, p) = [w EXCEPT !.auto = no] /\ no \in BOOLEAN /\ ~no
    BY DEF PullGone
  <1> HIDE DEF w, no
  <1>3. [w EXCEPT !.auto = no] \in AppsOf(D, B, G, C)
    BY <1>1, <1>2, Setters
  <1>4. LET b == [w EXCEPT !.auto = no]
        IN  /\ SameSession(w, b) /\ SameDocument(w, b) /\ SameSave(w, b) /\ SameBinding(w, b)
            /\ SameStatus(w, b) /\ b.slot = w.slot /\ b.awaiting = w.awaiting /\ b.auto = no
            /\ b.tasks = w.tasks
    BY <1>1 DEF AppsOf, SameSession, SameDocument, SameSave, SameBinding, SameStatus
  <1> QED
    BY <1>1, <1>2, <1>3, <1>4 DEF SameSession, SameDocument, SameSave, SameBinding, SameStatus

LEMMA PullDoneAdvances ==
  ASSUME EngineInv, NEW p \in app.tasks, PullDone(p)
  PROVE  Advances
  <1> DEFINE Apps == AppsOf(Settled, OurBytes, TrueBindings, TrueCopies)
             a == PullGone(app, p)
             mine == IsCurrent(a, p.owner) /\ a.binding # None
             listens == a.deferred # None \/ a.status \in Resting
             no == FALSE
  <1>k. /\ app \in Apps /\ Core(app) /\ Over(Settled, OurBytes, TrueBindings, TrueCopies)
        /\ \A c \in TrueCopies : c.edits \cap UserEdits \subseteq file.edits
        /\ CurrentIsBound(app)
        /\ saveFailed \/ BusyEnds(app)
    BY Known DEF EngineInv
  <1>p. p \in PullsOf(TrueCopies) /\ p.kind = "pull" /\ p.phase = "done"
    BY TasksAreTyped DEF PullDone, TasksOf
  <1>n. no \in BOOLEAN
    OBVIOUS
  <1>d. app' = CASE mine /\ p.answer.as = "grant" -> Route(a, "Reconnect")
                 [] mine /\ p.answer.as = "same" /\ listens /\ a.deferred = None -> Route(a, "Synced")
                 [] mine /\ p.answer.as = "pulled" /\ listens -> HandleRemote(a, p.owner, p.answer, no)
                 [] OTHER -> a
    BY DEF PullDone, PullGone
  <1> HIDE DEF no
  <1>a. /\ a \in Apps
        /\ SameSession(app, a) /\ SameDocument(app, a) /\ SameSave(app, a) /\ SameBinding(app, a)
        /\ SameStatus(app, a) /\ a.slot = app.slot /\ a.awaiting = app.awaiting
        /\ ~a.auto /\ a.tasks = app.tasks \ {p}
    BY <1>k, PullGoneFields
  <1>c. \A s : IsCurrent(a, s) <=> IsCurrent(app, s)
    BY <1>a DEF IsCurrent, SyncSession, SameSession, InMemory
  <1> HIDE DEF a
  <1>1. Core(a)
    BY <1>a, <1>k, <1>p, GoneCore DEF SameStatus
  <1>2. BusyEnds(app) => BusyEnds(a)
    BY <1>a, <1>p, GoneBusy DEF SameStatus
  <1>s. {"Reconnect", "Synced"} \subseteq Statuses
    BY DEF Statuses, Resting
  \* Whichever way it goes on.
  <1>3. ASSUME app' \in Apps, Core(app'), SameDocument(a, app'), SameSave(a, app'),
               BusyEnds(a) => BusyEnds(app')
        PROVE  Advances
    BY <1>2, <1>3, <1>a, <1>k DEF Advances, Holds, Follows, NoNewResult, SameDocument, SameSave
  <1>4. CASE mine /\ p.answer.as = "grant"
    <2>1. InMemory(a) /\ app' = Route(a, "Reconnect")
      BY <1>4, <1>d DEF IsCurrent
    <2> QED
      BY <1>1, <1>3, <1>a, <1>s, <2>1, RouteKeeps
  <1>5. CASE mine /\ p.answer.as = "same" /\ listens /\ a.deferred = None
    <2>1. InMemory(a) /\ app' = Route(a, "Synced")
      BY <1>5, <1>d DEF IsCurrent
    <2> QED
      BY <1>1, <1>3, <1>a, <1>s, <2>1, RouteKeeps
  <1>6. CASE mine /\ p.answer.as = "pulled" /\ listens
    <2>1. app' = HandleRemote(a, p.owner, p.answer, no)
      BY <1>6, <1>d
    <2>2. p.answer \in CopyAnswers("pulled", TrueCopies)
      <3>1. p.answer \in AnswersOf({"network", "grant", "same"}) \cup CopyAnswers("pulled", TrueCopies)
        BY <1>p DEF PullsOf
      <3> QED
        BY <1>6, <3>1 DEF AnswersOf
    <2>3. Copy(p.answer) \in TrueCopies /\ p.answer.etag.remote = p.remote
      BY <1>p, <2>2 DEF CopyAnswers, PullsOf
    <2>4. p.answer.edits \cap UserEdits \subseteq file.edits
      <3>1. Copy(p.answer).edits = p.answer.edits
        BY DEF Copy
      <3> QED
        BY <1>k, <2>3, <3>1
    <2>5. a.binding.remote = p.remote
      <3>1. IsCurrent(app, p.owner)
        BY <1>6, <1>c
      <3>2. OfTheBinding(app, p.etag)
        BY <1>k, <1>p, <3>1 DEF CurrentIsBound
      <3> QED
        BY <1>a, <1>p, <3>2 DEF OfTheBinding, SameBinding, PullsOf
    <2>6. p.owner \in SyncSessions
      BY <1>p DEF PullsOf
    <2>7. /\ app' \in Apps /\ Core(app')
          /\ SameSession(a, app') /\ SameDocument(a, app') /\ SameSave(a, app')
          /\ BusyEnds(a) => BusyEnds(app')
      BY <1>1, <1>a, <1>k, <1>n, <2>1, <2>3, <2>4, <2>5, <2>6, HandleRemoteKeeps
    <2> QED
      BY <1>3, <2>7
  <1>7. CASE /\ ~(mine /\ p.answer.as = "grant")
             /\ ~(mine /\ p.answer.as = "same" /\ listens /\ a.deferred = None)
             /\ ~(mine /\ p.answer.as = "pulled" /\ listens)
    <2>1. app' = a
      BY <1>7, <1>d
    <2> QED
      BY <1>1, <1>3, <1>a, <2>1 DEF SameDocument, SameSave
  <1> QED
    BY <1>4, <1>5, <1>6, <1>7

\* A merge without clashes decides none.
LEMMA MergesAreSettled ==
  ASSUME NEW local \in Settled, NEW theirs \in Settled, theirs \cap UserEdits \subseteq local
  PROVE  /\ Clashing(local, theirs) = {} => local \cup theirs \in Settled
         /\ asked' = asked \cup Clashing(local, theirs) /\ made' = made =>
               local \cup theirs \in Settled'
  <1>1. local \cup theirs \in SUBSET made
    BY DEF Settled
  <1>2. ASSUME NEW c \in Clashes \ asked, {c[1], c[2]} \subseteq local \cup theirs
        PROVE  c \in Clashing(local, theirs)
    <2>1. c[1] \in UserEdits
      BY ClashesAreMadeApart
    <2>2. c[1] \in local
      BY <1>2, <2>1
    <2>3. ~({c[1], c[2]} \subseteq local) /\ ~({c[1], c[2]} \subseteq theirs)
      BY DEF Settled
    <2> QED
      BY <1>2, <2>2, <2>3 DEF Clashing
  <1>3. ASSUME Clashing(local, theirs) = {} PROVE local \cup theirs \in Settled
    <2>1. \A c \in Clashes \ asked : ~({c[1], c[2]} \subseteq local \cup theirs)
      BY <1>2, <1>3
    <2> QED
      BY <1>1, <2>1 DEF Settled
  <1>4. ASSUME asked' = asked \cup Clashing(local, theirs), made' = made
        PROVE  local \cup theirs \in Settled'
    <2>1. \A c \in Clashes \ asked' : ~({c[1], c[2]} \subseteq local \cup theirs)
      BY <1>2, <1>4
    <2> QED
      BY <1>1, <1>4, <2>1 DEF Settled
  <1> QED
    BY <1>3, <1>4

\* A decryption is gone, and its mark if it had one.
DecryptGone(a, d) == Landed(Without(a, d), d)

LEMMA DecryptGoneFields ==
  ASSUME NEW D, NEW B, NEW G, NEW C, NEW a \in AppsOf(D, B, G, C), NEW d
  PROVE  LET b == DecryptGone(a, d)
         IN  /\ b \in AppsOf(D, B, G, C)
             /\ SameSession(a, b) /\ SameDocument(a, b) /\ SameSave(a, b) /\ SameBinding(a, b)
             /\ b.status = a.status /\ b.conflict = a.conflict /\ b.token = None
             /\ b.slot = a.slot /\ b.awaiting = a.awaiting /\ b.auto = a.auto
             /\ b.tasks = a.tasks \ {d}
  <1> DEFINE w == Without(a, d)
  <1>1. /\ w \in AppsOf(D, B, G, C)
        /\ SameSession(a, w) /\ SameDocument(a, w) /\ SameSave(a, w) /\ SameBinding(a, w)
        /\ SameStatus(a, w) /\ w.slot = a.slot /\ w.awaiting = a.awaiting /\ w.auto = a.auto
        /\ w.tasks = a.tasks \ {d}
    BY WithoutFields
  <1>2. DecryptGone(a, d) = [w EXCEPT !.token = None]
    BY DEF DecryptGone, Landed
  <1> HIDE DEF w
  <1>3. [w EXCEPT !.token = None] \in AppsOf(D, B, G, C)
    BY <1>1, Setters
  <1>4. LET b == [w EXCEPT !.token = None]
        IN  /\ SameSession(w, b) /\ SameDocument(w, b) /\ SameSave(w, b) /\ SameBinding(w, b)
            /\ b.status = w.status /\ b.conflict = w.conflict /\ b.token = None
            /\ b.slot = w.slot /\ b.awaiting = w.awaiting /\ b.auto = w.auto /\ b.tasks = w.tasks
    BY <1>1 DEF AppsOf, SameSession, SameDocument, SameSave, SameBinding
  <1> QED
    BY <1>1, <1>2, <1>3, <1>4 DEF SameSession, SameDocument, SameSave, SameBinding, SameStatus

LEMMA DecryptDoneAdvances ==
  ASSUME EngineInv, NEW d \in app.tasks, NEW unreadable \in BOOLEAN, DecryptDone(d, unreadable)
  PROVE  Advances
  <1> DEFINE Apps == AppsOf(Settled, OurBytes, TrueBindings, TrueCopies)
             a == Without(app, d)
             mine == DecryptGone(app, d)
  <1>k. /\ app \in Apps /\ Core(app) /\ Over(Settled, OurBytes, TrueBindings, TrueCopies)
        /\ CurrentIsBound(app) /\ MergesHoldTheDocument(app) /\ Numbered(app)
        /\ saveFailed \/ BusyEnds(app)
    BY Known DEF EngineInv
  <1>p. d \in DecryptsOf(Settled, TrueCopies) /\ d.kind = "decrypt"
    BY TasksAreTyped DEF DecryptDone
  <1>d. app' = CASE a.token # d.id -> a
                 [] a.token = d.id /\ (~IsCurrent(a, d.owner) \/ a.binding = None) -> mine
                 [] OTHER -> IF unreadable THEN Route(mine, "Failed") ELSE ContinueRemote(mine, d)
    BY DEF DecryptDone, DecryptGone
  <1>a. /\ a \in Apps
        /\ SameSession(app, a) /\ SameDocument(app, a) /\ SameSave(app, a) /\ SameBinding(app, a)
        /\ SameStatus(app, a) /\ a.slot = app.slot /\ a.awaiting = app.awaiting
        /\ a.auto = app.auto /\ a.tasks = app.tasks \ {d}
    BY <1>k, WithoutFields
  <1>m. /\ mine \in Apps
        /\ SameSession(app, mine) /\ SameDocument(app, mine) /\ SameSave(app, mine)
        /\ SameBinding(app, mine) /\ mine.status = app.status /\ mine.conflict = app.conflict
        /\ mine.token = None /\ mine.slot = app.slot /\ mine.awaiting = app.awaiting
        /\ mine.auto = app.auto /\ mine.tasks = app.tasks \ {d}
    BY <1>k, DecryptGoneFields
  <1>c. \A s : (IsCurrent(a, s) <=> IsCurrent(app, s)) /\ (IsCurrent(mine, s) <=> IsCurrent(app, s))
    BY <1>a, <1>m DEF IsCurrent, SyncSession, SameSession, InMemory
  <1> HIDE DEF a, mine
  <1>1. CASE a.token # d.id
    <2>1. app' = a
      BY <1>1, <1>d
    <2>2. Core(a)
      BY <1>1, <1>a, <1>k, <1>p, GoneCore DEF SameStatus
    <2>3. BusyEnds(app) => BusyEnds(a)
      BY <1>1, <1>a, <1>p, GoneBusy DEF SameStatus
    <2> QED
      BY <1>a, <1>k, <2>1, <2>2, <2>3 DEF Advances, Holds, Follows, NoNewResult, SameDocument, SameSave
  <1>2. CASE a.token = d.id
    <2>t. app.token = d.id
      BY <1>2, <1>a DEF SameStatus
    <2>1. Core(mine)
      BY <1>k, <1>m, <1>p, GoneCore
    <2>2. CASE ~IsCurrent(a, d.owner) \/ a.binding = None
      <3>1. app' = mine
        BY <1>2, <1>d, <2>2
      <3>2. ~IsCurrent(app, d.owner)
        BY <1>a, <1>c, <1>k, <1>p, <2>2 DEF CurrentIsBound, OfTheBinding, SameBinding
      <3>3. ASSUME WillSync(app) PROVE WillSync(mine)
        <4>1. \A t \in app.tasks :
                 t.kind = "decrypt" /\ IsCurrent(app, t.owner) /\ t.id = app.token => FALSE
          BY <1>k, <2>t, <3>2 DEF Numbered
        <4>2. \A t \in app.tasks : t.kind = "push" => t \in mine.tasks
          BY <1>m, <1>p
        <4> QED
          BY <1>c, <1>m, <3>3, <4>1, <4>2 DEF WillSync, SameSave
      <3>4. RestoreEnds(app) => RestoreEnds(mine)
        BY <1>m, <1>p, GoneBusy
      <3> QED
        BY <1>k, <1>m, <2>1, <3>1, <3>3, <3>4
        DEF Advances, Holds, Follows, NoNewResult, SameDocument, SameSave, BusyEnds, RestoreEnds
    <2>3. CASE IsCurrent(a, d.owner) /\ a.binding # None
      <3>1. /\ IsCurrent(app, d.owner) /\ IsCurrent(mine, d.owner) /\ InMemory(mine)
            /\ OfTheBinding(app, d.etag) /\ OfTheBinding(mine, d.etag)
        BY <1>c, <1>k, <1>m, <1>p, <2>3 DEF CurrentIsBound, OfTheBinding, SameBinding, IsCurrent
      <3>2. CASE unreadable
        <4>1. app' = Route(mine, "Failed") /\ "Failed" \in Statuses
          BY <1>2, <1>d, <2>3, <3>2 DEF Statuses
        <4>2. /\ app' \in Apps /\ Core(app') /\ BusyEnds(app')
              /\ SameDocument(mine, app') /\ SameSave(mine, app')
          BY <1>m, <2>1, <3>1, <4>1, RouteKeeps
        <4> QED
          BY <1>m, <4>2 DEF Advances, Holds, Follows, NoNewResult, SameDocument, SameSave
      <3>3. CASE ~unreadable
        <4>1. app' = ContinueRemote(mine, d)
          BY <1>2, <1>d, <2>3, <3>3
        <4>2. d.base = mine.gen => d.local = mine.doc
          BY <1>k, <1>m, <1>p, <3>1 DEF MergesHoldTheDocument, SameDocument
        <4>3. /\ d.local \in Settled /\ d.theirs \in Settled /\ d.theirs \cap UserEdits \subseteq d.local
              /\ [edits |-> d.theirs, etag |-> d.etag] \in TrueCopies
          BY <1>p DEF DecryptsOf, Sides
        <4>4. Clashing(d.local, d.theirs) = {} => d.local \cup d.theirs \in Settled
          BY <4>3, MergesAreSettled
        <4>5. d.etag = remotes[d.etag.remote].etag => d.theirs = remotes[d.etag.remote].edits
          BY <4>3 DEF TrueCopies
        <4>6. /\ app' \in Apps /\ Core(app') /\ BusyEnds(app')
              /\ SameDocument(mine, app') /\ NoNewResult(mine, app')
          BY <1>k, <1>m, <1>p, <2>1, <3>1, <4>1, <4>2, <4>4, <4>5, ContinueRemoteKeeps
        <4> QED
          BY <1>m, <4>6 DEF Advances, Holds, Follows, NoNewResult, SameDocument, SameSave
      <3> QED
        BY <3>2, <3>3
    <2> QED
      BY <2>2, <2>3
  <1> QED
    BY <1>1, <1>2

\* A binding arrives, and a push that waited for it is no longer waiting.
Bound(a, g) == [a EXCEPT !.binding = g]
Unawaited(a) == [a EXCEPT !.awaiting = None]

LEMMA BoundFields ==
  ASSUME NEW D, NEW B, NEW G, NEW C, NEW a \in AppsOf(D, B, G, C), NEW g \in G
  PROVE  LET b == Bound(a, g)
         IN  /\ b \in AppsOf(D, B, G, C)
             /\ SameSession(a, b) /\ SameDocument(a, b) /\ SameSave(a, b) /\ SameStatus(a, b)
             /\ SameMarks(a, b) /\ b.binding = g /\ b.cfg = a.cfg
  <1>1. Bound(a, g) \in AppsOf(D, B, G, C)
    BY Setters DEF Bound
  <1> QED
    BY <1>1 DEF Bound, AppsOf, SameSession, SameDocument, SameSave, SameStatus, SameMarks

LEMMA UnawaitedFields ==
  ASSUME NEW D, NEW B, NEW G, NEW C, NEW a \in AppsOf(D, B, G, C)
  PROVE  LET b == Unawaited(a)
         IN  /\ b \in AppsOf(D, B, G, C)
             /\ SameSession(a, b) /\ SameDocument(a, b) /\ SameSave(a, b) /\ SameBinding(a, b)
             /\ SameStatus(a, b) /\ b.slot = a.slot /\ b.awaiting = None /\ b.auto = a.auto
             /\ b.tasks = a.tasks
  <1>1. Unawaited(a) \in AppsOf(D, B, G, C)
    BY Setters DEF Unawaited
  <1> QED
    BY <1>1 DEF Unawaited, AppsOf, SameSession, SameDocument, SameSave, SameBinding, SameStatus

\* The end of a restore or a publication in the session in memory.
LEMMA BindingEnds ==
  ASSUME EngineInv, NEW t \in app.tasks, t.kind \in {"restore", "publish"}
  PROVE  LET a == Without(app, t)
         IN  /\ a \in AppsOf(Settled, OurBytes, TrueBindings, TrueCopies) /\ Core(a)
             /\ SameSession(app, a) /\ SameDocument(app, a) /\ SameSave(app, a)
             /\ SameBinding(app, a) /\ a.awaiting = app.awaiting
             /\ IsCurrent(a, t.owner) <=> IsCurrent(app, t.owner)
             /\ ~IsCurrent(app, t.owner) /\ BusyEnds(app) => BusyEnds(a)
             /\ IsCurrent(app, t.owner) /\ t.answer # None /\ t.answer.as = "restored" =>
                   a.cfg # None /\ a.cfg.remote = t.answer.cfg.remote
             /\ \A b \in AppsOf(Settled, OurBytes, TrueBindings, TrueCopies) :
                   /\ app' = b /\ Core(b) /\ SameDocument(a, b) /\ SameSave(a, b)
                   /\ BusyEnds(b) \/ saveFailed
                   => Advances
             /\ \A s \in {"Disconnected", "Reconnect", "Failed"} :
                   IsCurrent(app, t.owner) /\ app' = Route(a, s) => Advances
  <1> DEFINE Apps == AppsOf(Settled, OurBytes, TrueBindings, TrueCopies)
             a == Without(app, t)
  <1>k. app \in Apps /\ Core(app) /\ CurrentIsBound(app)
    BY Known
  <1>a. /\ a \in Apps
        /\ SameSession(app, a) /\ SameDocument(app, a) /\ SameSave(app, a) /\ SameBinding(app, a)
        /\ SameStatus(app, a) /\ a.slot = app.slot /\ a.awaiting = app.awaiting
        /\ a.auto = app.auto /\ a.tasks = app.tasks \ {t}
    BY <1>k, WithoutFields
  <1>c. IsCurrent(a, t.owner) <=> IsCurrent(app, t.owner)
    BY <1>a DEF IsCurrent, SyncSession, SameSession, InMemory
  <1> HIDE DEF a
  <1>1. Core(a)
    BY <1>a, <1>k, GoneCore DEF SameStatus
  <1>2. ~IsCurrent(app, t.owner) /\ BusyEnds(app) => BusyEnds(a)
    BY <1>a, GoneBusy DEF SameStatus
  <1>3. IsCurrent(app, t.owner) /\ t.answer # None /\ t.answer.as = "restored" =>
            a.cfg # None /\ a.cfg.remote = t.answer.cfg.remote
    BY <1>a, <1>k DEF CurrentIsBound, SameBinding
  <1>4. ASSUME NEW b \in Apps, app' = b, Core(b), SameDocument(a, b), SameSave(a, b),
               BusyEnds(b) \/ saveFailed
        PROVE  Advances
    BY <1>4, <1>a DEF Advances, Holds, Follows, NoNewResult, SameDocument, SameSave
  <1>5. ASSUME NEW s \in {"Disconnected", "Reconnect", "Failed"}, IsCurrent(app, t.owner),
               app' = Route(a, s)
        PROVE  Advances
    <2>1. InMemory(a) /\ s \in Statuses
      BY <1>5, <1>c DEF IsCurrent, Statuses
    <2>2. app' \in Apps /\ Core(app') /\ SameDocument(a, app') /\ SameSave(a, app') /\ BusyEnds(app')
      BY <1>1, <1>5, <1>a, <2>1, RouteKeeps
    <2> QED
      BY <1>4, <2>2
  <1> QED
    BY <1>1, <1>2, <1>3, <1>4, <1>5, <1>a, <1>c DEF a

LEMMA RestoreDoneAdvances ==
  ASSUME EngineInv, NEW t \in app.tasks, RestoreDone(t)
  PROVE  Advances
  <1> DEFINE Apps == AppsOf(Settled, OurBytes, TrueBindings, TrueCopies)
             a == Without(app, t)
             b1 == Bound(a, t.answer.cfg)
             b2 == Unawaited(b1)
             bound == Route(b2, "Idle")
  <1>k. /\ Over(Settled, OurBytes, TrueBindings, TrueCopies)
        /\ saveFailed \/ BusyEnds(app)
    BY Known DEF EngineInv
  <1>p. t \in RestoresOf(TrueBindings) /\ t.kind = "restore" /\ t.answer # None
    BY TasksAreTyped DEF RestoreDone, TasksOf, RestoresOf
  <1>d. app' = CASE ~IsCurrent(a, t.owner) -> a
                 [] IsCurrent(a, t.owner) /\ t.answer.as = "restored" -> StartQueued(bound, a.awaiting)
                 [] IsCurrent(a, t.owner) /\ t.answer.as = "gone" -> Route(a, "Disconnected")
                 [] OTHER -> Route(a, IF t.answer.as = "grant" THEN "Reconnect" ELSE "Failed")
    BY DEF RestoreDone, Bound, Unawaited
  <1>e. /\ a \in Apps /\ Core(a)
        /\ SameSession(app, a) /\ SameDocument(app, a) /\ SameSave(app, a)
        /\ SameBinding(app, a) /\ a.awaiting = app.awaiting
        /\ IsCurrent(a, t.owner) <=> IsCurrent(app, t.owner)
        /\ ~IsCurrent(app, t.owner) /\ BusyEnds(app) => BusyEnds(a)
        /\ IsCurrent(app, t.owner) /\ t.answer # None /\ t.answer.as = "restored" =>
              a.cfg # None /\ a.cfg.remote = t.answer.cfg.remote
    BY <1>p, BindingEnds
  <1>f. \A b \in Apps : /\ app' = b /\ Core(b) /\ SameDocument(a, b) /\ SameSave(a, b)
                        /\ BusyEnds(b) \/ saveFailed
                        => Advances
    BY <1>p, BindingEnds
  <1>g. \A s \in {"Disconnected", "Reconnect", "Failed"} :
            IsCurrent(app, t.owner) /\ app' = Route(a, s) => Advances
    BY <1>p, BindingEnds
  <1> HIDE DEF a
  <1>1. CASE ~IsCurrent(a, t.owner)
    <2>1. app' = a
      BY <1>1, <1>d
    <2> QED
      BY <1>1, <1>e, <1>f, <1>k, <2>1 DEF SameDocument, SameSave
  <1>2. CASE IsCurrent(a, t.owner) /\ t.answer.as = "restored"
    <2>1. app' = StartQueued(bound, a.awaiting)
      BY <1>2, <1>d
    <2>2. t.answer.cfg \in TrueBindings
      BY <1>2, <1>p DEF RestoresOf, AnswersOf, BoundAnswers
    <2>3. t.answer.cfg # None
      BY <1>k, <2>2, NoneIsNone
    <2>4. /\ b1 \in Apps
          /\ SameSession(a, b1) /\ SameDocument(a, b1) /\ SameSave(a, b1) /\ SameStatus(a, b1)
          /\ SameMarks(a, b1) /\ b1.binding = t.answer.cfg /\ b1.cfg = a.cfg
      BY <1>e, <2>2, BoundFields
    <2> HIDE DEF b1
    <2>5. /\ b2 \in Apps
          /\ SameSession(b1, b2) /\ SameDocument(b1, b2) /\ SameSave(b1, b2) /\ SameBinding(b1, b2)
          /\ SameStatus(b1, b2) /\ b2.slot = b1.slot /\ b2.awaiting = None /\ b2.auto = b1.auto
          /\ b2.tasks = b1.tasks
      BY <2>4, UnawaitedFields
    <2> HIDE DEF b2
    <2>6. /\ SameSession(a, b2) /\ SameDocument(a, b2) /\ SameSave(a, b2) /\ SameStatus(a, b2)
          /\ b2.slot = a.slot /\ b2.awaiting = None /\ b2.auto = a.auto /\ b2.tasks = a.tasks
          /\ b2.binding = t.answer.cfg /\ b2.cfg = a.cfg
      BY <2>4, <2>5 DEF SameSession, SameDocument, SameSave, SameStatus, SameBinding, SameMarks
    <2>7. InMemory(a) /\ InMemory(b2)
      BY <1>2, <2>6 DEF IsCurrent, InMemory, SameSession
    <2>8. Core(b2)
      BY <1>2, <1>e, <1>p, <2>3, <2>6, <2>7, BoundCore
    <2>9. "Idle" \in Statuses
      BY DEF Statuses, Resting
    <2>10. /\ bound \in Apps /\ Core(bound) /\ BusyEnds(bound)
           /\ SameDocument(b2, bound) /\ SameSave(b2, bound)
      BY <2>5, <2>7, <2>8, <2>9, RouteKeeps
    <2> HIDE DEF bound
    <2>11. a.awaiting \in RequestsOf(OurBytes) \cup {None}
      BY <1>e DEF AppsOf
    <2>12. /\ app' \in Apps /\ Core(app') /\ BusyEnds(app')
           /\ SameDocument(bound, app') /\ SameSave(bound, app')
      BY <1>k, <2>1, <2>10, <2>11, StartQueuedKeeps
    <2> QED
      BY <1>f, <2>6, <2>10, <2>12 DEF SameDocument, SameSave
  <1>3. CASE IsCurrent(a, t.owner) /\ t.answer.as = "gone"
    <2>1. app' = Route(a, "Disconnected")
      BY <1>3, <1>d
    <2> QED
      BY <1>3, <1>e, <1>g, <2>1
  <1>4. CASE IsCurrent(a, t.owner) /\ t.answer.as \notin {"restored", "gone"}
    <2>1. app' = Route(a, "Reconnect") \/ app' = Route(a, "Failed")
      BY <1>4, <1>d
    <2> QED
      BY <1>4, <1>e, <1>g, <2>1
  <1> QED
    BY <1>1, <1>2, <1>3, <1>4

LEMMA PublishDoneAdvances ==
  ASSUME EngineInv, NEW t \in app.tasks, PublishDone(t)
  PROVE  Advances
  <1> DEFINE Apps == AppsOf(Settled, OurBytes, TrueBindings, TrueCopies)
             a == Without(app, t)
             bound == Bound(a, t.answer.cfg)
  <1>k. /\ Over(Settled, OurBytes, TrueBindings, TrueCopies)
        /\ saveFailed \/ BusyEnds(app)
    BY Known DEF EngineInv
  <1>p. t \in PublishesOf(OurBytes, TrueBindings) /\ t.kind = "publish" /\ t.answer # None
    BY TasksAreTyped DEF PublishDone, TasksOf, PublishesOf
  <1>d. app' = CASE ~IsCurrent(a, t.owner) -> a
                 [] IsCurrent(a, t.owner) /\ t.answer.as = "refused" -> Route(a, "Failed")
                 [] OTHER -> Route(bound, "Idle")
    BY DEF PublishDone, Bound
  <1>e. /\ a \in Apps /\ Core(a)
        /\ SameSession(app, a) /\ SameDocument(app, a) /\ SameSave(app, a)
        /\ IsCurrent(a, t.owner) <=> IsCurrent(app, t.owner)
        /\ ~IsCurrent(app, t.owner) /\ BusyEnds(app) => BusyEnds(a)
        /\ IsCurrent(app, t.owner) /\ t.answer # None /\ t.answer.as = "restored" =>
              a.cfg # None /\ a.cfg.remote = t.answer.cfg.remote
    BY <1>p, BindingEnds
  <1>f. \A b \in Apps : /\ app' = b /\ Core(b) /\ SameDocument(a, b) /\ SameSave(a, b)
                        /\ BusyEnds(b) \/ saveFailed
                        => Advances
    BY <1>p, BindingEnds
  <1>g. \A s \in {"Disconnected", "Reconnect", "Failed"} :
            IsCurrent(app, t.owner) /\ app' = Route(a, s) => Advances
    BY <1>p, BindingEnds
  <1> HIDE DEF a
  <1>1. CASE ~IsCurrent(a, t.owner)
    <2>1. app' = a
      BY <1>1, <1>d
    <2> QED
      BY <1>1, <1>e, <1>f, <1>k, <2>1 DEF SameDocument, SameSave
  <1>2. CASE IsCurrent(a, t.owner) /\ t.answer.as = "refused"
    <2>1. app' = Route(a, "Failed")
      BY <1>2, <1>d
    <2> QED
      BY <1>2, <1>e, <1>g, <2>1
  <1>3. CASE IsCurrent(a, t.owner) /\ t.answer.as # "refused"
    <2>1. app' = Route(bound, "Idle")
      BY <1>3, <1>d
    <2>2. t.answer.cfg \in TrueBindings /\ t.answer.as = "restored"
      BY <1>3, <1>p DEF PublishesOf, AnswersOf, BoundAnswers
    <2>3. t.answer.cfg # None
      BY <1>k, <2>2, NoneIsNone
    <2>4. /\ bound \in Apps
          /\ SameSession(a, bound) /\ SameDocument(a, bound) /\ SameSave(a, bound)
          /\ SameStatus(a, bound) /\ SameMarks(a, bound)
          /\ bound.binding = t.answer.cfg /\ bound.cfg = a.cfg
      BY <1>e, <2>2, BoundFields
    <2> HIDE DEF bound
    <2>5. InMemory(a) /\ InMemory(bound)
      BY <1>3, <2>4 DEF IsCurrent, InMemory, SameSession
    <2>6. Core(bound)
      BY <1>3, <1>e, <1>p, <2>2, <2>3, <2>4, <2>5, BoundCore DEF SameMarks
    <2>7. "Idle" \in Statuses
      BY DEF Statuses, Resting
    <2>8. /\ app' \in Apps /\ Core(app') /\ BusyEnds(app')
          /\ SameDocument(bound, app') /\ SameSave(bound, app')
      BY <2>1, <2>4, <2>5, <2>6, <2>7, RouteKeeps
    <2> QED
      BY <1>f, <2>4, <2>8 DEF SameDocument, SameSave
  <1> QED
    BY <1>1, <1>2, <1>3

-----------------------------------------------------------------------------
(* The callbacks of a save and of a merge. *)

\* A save is gone from its slot, with the document and generation it leaves.
Freed(a, doc, gen, unsaved) ==
  [a EXCEPT !.save = None, !.doc = doc, !.gen = gen, !.unsaved = unsaved]

LEMMA FreedFields ==
  ASSUME NEW D, NEW B, NEW G, NEW C, NEW a \in AppsOf(D, B, G, C), NEW doc \in D, NEW gen \in Nat,
         NEW unsaved \in BOOLEAN
  PROVE  LET b == Freed(a, doc, gen, unsaved)
         IN  /\ b \in AppsOf(D, B, G, C)
             /\ SameSession(a, b) /\ SameBinding(a, b) /\ SameStatus(a, b) /\ SameMarks(a, b)
             /\ b.save = None /\ b.doc = doc /\ b.gen = gen
  <1> DEFINE w1 == [a EXCEPT !.save = None]
             w2 == [w1 EXCEPT !.doc = doc]
             w3 == [w2 EXCEPT !.gen = gen]
             w4 == [w3 EXCEPT !.unsaved = unsaved]
  <1>1. Freed(a, doc, gen, unsaved) = w4
    BY DEF Freed
  <1>2. w1 \in AppsOf(D, B, G, C)
    BY Setters
  <1>3. w2 \in AppsOf(D, B, G, C)
    <2> HIDE DEF w1
    <2> QED BY <1>2, Setters
  <1>4. w3 \in AppsOf(D, B, G, C)
    <2> HIDE DEF w2
    <2> QED BY <1>3, Setters
  <1>5. w4 \in AppsOf(D, B, G, C)
    <2> HIDE DEF w3
    <2> QED BY <1>4, Setters
  <1>6. LET b == Freed(a, doc, gen, unsaved)
        IN  /\ SameSession(a, b) /\ SameBinding(a, b) /\ SameStatus(a, b) /\ SameMarks(a, b)
            /\ b.save = None /\ b.doc = doc /\ b.gen = gen
    BY SMTT(60) DEF Freed, AppsOf, SameSession, SameBinding, SameStatus, SameMarks
  <1> QED
    BY <1>1, <1>5, <1>6

\* What ends the status "Syncing" is the save.
SaveSyncs(a) ==
  \/ a.save # None /\ a.save.merge = None /\ (a.save.sync \/ (a.save.pending /\ a.save.pendingSync))
  \/ a.save # None /\ a.save.merge # None /\ (IsCurrent(a, a.save.merge.owner) \/ a.save.pending)

LEMMA FreedBusy ==
  ASSUME NEW a, NEW b, SameSession(a, b), SameStatus(a, b), SameMarks(a, b)
  PROVE  /\ RestoreEnds(a) => RestoreEnds(b)
         /\ BusyEnds(a) /\ ~SaveSyncs(a) => BusyEnds(b)
  <1>1. \A s : IsCurrent(b, s) <=> IsCurrent(a, s)
    BY DEF IsCurrent, SyncSession, SameSession, InMemory
  <1>2. RestoreEnds(a) => RestoreEnds(b)
    BY <1>1 DEF RestoreEnds, WillRestore, SameStatus, SameMarks
  <1>3. WillSync(a) /\ ~SaveSyncs(a) => WillSync(b)
    BY <1>1 DEF WillSync, SaveSyncs, SameStatus, SameMarks
  <1> QED
    BY <1>2, <1>3 DEF BusyEnds, RestoreEnds, SameStatus

\* The document stays, or the merge it holds is installed.
LEMMA FreedCore ==
  ASSUME EngineInv, app.save # None, NEW doc, NEW gen, NEW unsaved \in BOOLEAN,
         \/ doc = app.doc /\ gen = app.gen
         \/ doc = app.save.edits /\ gen = NewGen
  PROVE  LET b == Freed(app, doc, gen, unsaved)
         IN  /\ b \in AppsOf(Settled, OurBytes, TrueBindings, TrueCopies) /\ Core(b)
             /\ SameSession(app, b) /\ SameBinding(app, b) /\ SameStatus(app, b)
             /\ SameMarks(app, b) /\ b.save = None /\ b.doc = doc /\ b.gen = gen
             /\ app.place # "locked" /\ b.place # "locked"
  <1> DEFINE b == Freed(app, doc, gen, unsaved)
  <1>k. /\ app \in AppsOf(Settled, OurBytes, TrueBindings, TrueCopies) /\ Core(app)
        /\ Numbered(app) /\ UserEditsGrow(app) /\ LockedIsQuiet(app)
    BY Known
  <1>1. app.save.edits \in Settled /\ app.doc \in Settled /\ app.gen \in Nat
    BY <1>k DEF AppsOf, SavesOf
  <1>2. NewGen \in Nat
    BY <1>k, FreshGen
  <1>3. app.place # "locked"
    BY <1>k DEF LockedIsQuiet
  <1>4. /\ b \in AppsOf(Settled, OurBytes, TrueBindings, TrueCopies)
        /\ SameSession(app, b) /\ SameBinding(app, b) /\ SameStatus(app, b) /\ SameMarks(app, b)
        /\ b.save = None /\ b.doc = doc /\ b.gen = gen
    BY <1>1, <1>2, <1>k, FreedFields
  <1> HIDE DEF b
  <1>5. file.edits \cap UserEdits \subseteq doc
    BY <1>3, <1>k DEF UserEditsGrow
  <1>6. UserEditsGrow(b) /\ SavesAreTrue(b) /\ SaveFits(b)
    BY <1>4, <1>5 DEF UserEditsGrow, SavesAreTrue, SaveFits
  <1>7. CASE doc = app.doc /\ gen = app.gen
    <2>1. SameDocument(app, b)
      BY <1>4, <1>7 DEF SameDocument
    <2>2. Core(b)
      BY <1>4, <1>6, <1>k, <2>1, SaveCore
    <2> QED
      BY <1>3, <1>4, <2>2 DEF b, SameSession
  <1>8. CASE doc = app.save.edits /\ gen = NewGen
    <2>1. Core(b)
      BY <1>4, <1>6, <1>8, <1>k, FreshGen, DocumentCore
    <2> QED
      BY <1>3, <1>4, <2>1 DEF b, SameSession
  <1> QED
    BY <1>7, <1>8

LEMMA WrittenIsTheFile ==
  ASSUME EngineInv, app.save # None, app.save.result \in {"written", "undurable"}
  PROVE  /\ app.save.edits = file.edits /\ app.save.rev = file.rev
         /\ Edited(app.save.edits, app.save.rev) \in OurBytes
  <1>1. app.save.edits = file.edits /\ app.save.rev = file.rev
    BY Known DEF SavesAreTrue
  <1>2. file \in [edits : Settled, rev : Nat]
    BY Known DEF FilesAreSettled
  <1>3. Edited(file.edits, file.rev) = file
    BY <1>2 DEF Edited
  <1> QED
    BY <1>1, <1>3, FileIsOurs, Known

LEMMA SaveDoneAdvances ==
  ASSUME EngineInv, SaveDone
  PROVE  Advances
  <1> DEFINE Apps == AppsOf(Settled, OurBytes, TrueBindings, TrueCopies)
             save == app.save
             unsaved == save.result # "written" \/ save.pending
             freed == Freed(app, app.doc, app.gen, unsaved)
             again == save.pendingSync \/ save.sync
             bytes == Edited(save.edits, save.rev)
             yes == TRUE
  <1>k. /\ app \in Apps /\ Core(app) /\ Over(Settled, OurBytes, TrueBindings, TrueCopies)
        /\ saveFailed \/ BusyEnds(app)
    BY Known DEF EngineInv
  <1>p. /\ save # None /\ save \in SavesOf(Settled) /\ save.result # "running" /\ save.merge = None
    BY <1>k DEF SaveDone, Finished, AppsOf
  <1>u. unsaved \in BOOLEAN /\ again \in BOOLEAN /\ yes \in BOOLEAN
    BY <1>p DEF SavesOf
  <1>f. [app EXCEPT !.save = None, !.unsaved = unsaved] = freed
    BY <1>k DEF Freed, AppsOf
  <1>d. app' = CASE save.pending -> RequestSave(freed, again)
                 [] ~save.pending /\ save.result # "written" -> freed
                 [] ~save.pending /\ save.result = "written" /\ app.place = "deferred" -> LockNow(freed)
                 [] OTHER ->
                       IF save.sync /\ InMemory(freed) /\ ReachesCloud(freed)
                         THEN PushNow(freed, SyncSession(freed), yes, bytes)
                         ELSE freed
    BY <1>f DEF SaveDone
  <1> HIDE DEF unsaved, yes
  <1>1. /\ freed \in Apps /\ Core(freed)
        /\ SameSession(app, freed) /\ SameBinding(app, freed) /\ SameStatus(app, freed)
        /\ SameMarks(app, freed) /\ freed.save = None
        /\ freed.doc = app.doc /\ freed.gen = app.gen
        /\ app.place # "locked" /\ freed.place # "locked"
    BY <1>p, <1>u, FreedCore
  <1> HIDE DEF freed
  <1>2. /\ RestoreEnds(app) => RestoreEnds(freed)
        /\ BusyEnds(app) /\ ~SaveSyncs(app) => BusyEnds(freed)
    BY <1>1, FreedBusy
  <1>3. BusyEnds(app) => RestoreEnds(app)
    BY DEF BusyEnds, RestoreEnds
  \* Whatever follows the save's end.
  <1>4. ASSUME app' \in Apps, Core(app'), NoNewResult(freed, app'), InMemory(app') => SameDocument(freed, app'),
               saveFailed \/ BusyEnds(app')
        PROVE  Advances
    BY <1>1, <1>4 DEF Advances, Holds, Follows, NoNewResult, SameDocument
  <1>5. CASE save.pending
    <2>1. app' = RequestSave(freed, again)
      BY <1>5, <1>d
    <2>2. BusyEnds(app) => BusyEnds(freed) \/ (again /\ RestoreEnds(freed))
      BY <1>2, <1>3, <1>p DEF SaveSyncs
    <2> HIDE DEF again
    <2>3. /\ app' \in Apps /\ Core(app') /\ SameDocument(freed, app') /\ NoNewResult(freed, app')
          /\ BusyEnds(freed) \/ (again /\ RestoreEnds(freed)) => BusyEnds(app')
      BY <1>1, <1>k, <1>u, <2>1, RequestSaveKeeps
    <2> QED
      BY <1>4, <1>k, <2>2, <2>3
  <1>6. CASE ~save.pending /\ save.result # "written"
    <2>1. app' = freed
      BY <1>6, <1>d
    <2>2. saveFailed
      BY <1>6, <1>p DEF EngineInv, FailuresAreKnown, SavesOf
    <2> QED
      BY <1>1, <1>4, <2>1, <2>2 DEF NoNewResult, SameDocument
  <1>7. CASE ~save.pending /\ save.result = "written" /\ app.place = "deferred"
    <2>1. app' = LockNow(freed)
      BY <1>7, <1>d
    <2>2. /\ app' \in Apps /\ Core(app') /\ BusyEnds(app') /\ app'.place = "locked" /\ app'.save = None
      BY <1>1, <1>k, <2>1, LockNowKeeps
    <2> QED
      BY <1>4, <2>2 DEF NoNewResult, InMemory
  <1>8. CASE ~save.pending /\ save.result = "written" /\ app.place # "deferred"
    <2>m. InMemory(freed)
      BY <1>1, <1>8, <1>k DEF InMemory, SameSession, AppsOf
    <2>1. CASE save.sync /\ ReachesCloud(freed)
      <3>1. app' = PushNow(freed, SyncSession(freed), yes, bytes)
        BY <1>8, <1>d, <2>1, <2>m
      <3>2. bytes \in OurBytes
        BY <1>8, <1>p, WrittenIsTheFile
      <3>3. SyncSession(freed) \in SyncSessions /\ IsCurrent(freed, SyncSession(freed))
        BY <1>1, <2>m, CurrentSession
      <3> HIDE DEF bytes
      <3>4. /\ app' \in Apps /\ Core(app')
            /\ SameSession(freed, app') /\ SameDocument(freed, app') /\ SameSave(freed, app')
            /\ RestoreEnds(freed) => BusyEnds(app')
        BY <1>1, <1>k, <1>u, <3>1, <3>2, <3>3, PushNowKeeps
      <3> QED
        BY <1>2, <1>3, <1>4, <1>k, <3>4 DEF NoNewResult, SameSave
    <2>2. CASE ~(save.sync /\ ReachesCloud(freed))
      <3>1. app' = freed
        BY <1>8, <1>d, <2>2
      <3>2. CASE ~save.sync
        <4>1. BusyEnds(app) => BusyEnds(freed)
          BY <1>2, <1>8, <1>p, <3>2 DEF SaveSyncs
        <4> QED
          BY <1>1, <1>4, <1>k, <3>1, <4>1 DEF NoNewResult, SameDocument
      <3>3. CASE ~ReachesCloud(freed)
        <4>1. BusyEnds(freed)
          BY <3>3 DEF ReachesCloud, Busy, BusyEnds
        <4> QED
          BY <1>1, <1>4, <3>1, <4>1 DEF NoNewResult, SameDocument
      <3> QED
        BY <2>2, <3>2, <3>3
    <2> QED
      BY <2>1, <2>2
  <1> QED
    BY <1>5, <1>6, <1>7, <1>8

LEMMA RouteForKeeps ==
  ASSUME NEW D, NEW B, NEW G, NEW C, NEW a \in AppsOf(D, B, G, C), Core(a), NEW session,
         NEW s \in {"Failed", "Synced"}
  PROVE  LET b == RouteFor(a, session, s)
         IN  /\ b \in AppsOf(D, B, G, C) /\ Core(b)
             /\ SameSession(a, b) /\ SameDocument(a, b) /\ SameSave(a, b) /\ SameBinding(a, b)
             /\ SameMarks(a, b)
             /\ BusyEnds(a) \/ IsCurrent(a, session) => BusyEnds(b)
  <1>1. CASE IsCurrent(a, session)
    <2>1. InMemory(a) /\ s \in Statuses /\ RouteFor(a, session, s) = Route(a, s)
      BY <1>1 DEF IsCurrent, Statuses, Resting, RouteFor
    <2>2. s \notin {"Syncing", "Restoring", "Conflict"}
      OBVIOUS
    <2> QED
      BY <2>1, <2>2, RouteKeeps
  <1>2. CASE ~IsCurrent(a, session)
    <2>1. RouteFor(a, session, s) = a
      BY <1>2 DEF RouteFor
    <2> QED
      BY <1>2, <2>1 DEF SameSession, SameDocument, SameSave, SameBinding, SameMarks
  <1> QED
    BY <1>1, <1>2

LEMMA MergeWriteFailedAdvances ==
  ASSUME EngineInv, MergeWriteFailed
  PROVE  Advances
  <1> DEFINE Apps == AppsOf(Settled, OurBytes, TrueBindings, TrueCopies)
             save == app.save
             kept == ~save.pending /\ app.place = "deferred" /\ app.gen = save.merge.base
             doc == IF kept THEN save.edits ELSE app.doc
             gen == IF kept THEN NewGen ELSE app.gen
             freed == Freed(app, doc, gen, app.unsaved)
             told == RouteFor(freed, save.merge.owner, "Failed")
             yes == TRUE
  <1>k. app \in Apps /\ Core(app) /\ Over(Settled, OurBytes, TrueBindings, TrueCopies)
    BY Known
  <1>p. save # None /\ save \in SavesOf(Settled) /\ save.result = "failed" /\ saveFailed
    BY <1>k DEF MergeWriteFailed, Finished, AppsOf, EngineInv, FailuresAreKnown
  <1>f. [app EXCEPT !.save = None, !.doc = IF kept THEN save.edits ELSE @,
                    !.gen = IF kept THEN NewGen ELSE @] = freed
    BY <1>k DEF Freed, AppsOf
  <1>d. app' = IF save.pending THEN RequestSave(told, yes) ELSE told
    BY <1>f DEF MergeWriteFailed
  <1>u. app.unsaved \in BOOLEAN /\ yes \in BOOLEAN
    BY <1>k DEF AppsOf
  <1>g. (doc = app.doc /\ gen = app.gen) \/ (doc = save.edits /\ gen = NewGen /\ app.place = "deferred")
    OBVIOUS
  <1> HIDE DEF doc, gen, yes
  <1>1. /\ freed \in Apps /\ Core(freed)
        /\ SameSession(app, freed) /\ freed.save = None /\ freed.doc = doc /\ freed.gen = gen
        /\ freed.place # "locked"
    BY <1>g, <1>p, <1>u, FreedCore
  <1> HIDE DEF freed
  <1>2. /\ told \in Apps /\ Core(told)
        /\ SameSession(freed, told) /\ SameDocument(freed, told) /\ SameSave(freed, told)
    BY <1>1, RouteForKeeps
  <1> HIDE DEF told
  <1>3. told.place = app.place /\ told.place # "locked" /\ told.save = None /\ told.doc = doc
    BY <1>1, <1>2 DEF SameSession, SameSave, SameDocument
  <1>4. /\ app' \in Apps /\ Core(app') /\ SameSession(told, app') /\ SameDocument(told, app')
        /\ NoNewResult(told, app')
    <2>1. CASE save.pending
      <3>1. app' = RequestSave(told, yes)
        BY <1>d, <2>1
      <3> QED
        BY <1>2, <1>3, <1>k, <1>u, <3>1, RequestSaveKeeps
    <2>2. CASE ~save.pending
      BY <1>2, <1>d, <2>2 DEF SameSession, SameDocument, NoNewResult
    <2> QED
      BY <2>1, <2>2
  <1>5. Follows(app, app')
    BY <1>3, <1>4, <1>g DEF Follows, NoNewResult, SameDocument, SameSession, InMemory
  <1> QED
    BY <1>4, <1>5, <1>p DEF Advances, Holds

LEMMA MergeWriteOutdatedAdvances ==
  ASSUME EngineInv, MergeWriteOutdated
  PROVE  Advances
  <1> DEFINE Apps == AppsOf(Settled, OurBytes, TrueBindings, TrueCopies)
             freed == Freed(app, app.doc, app.gen, app.unsaved)
             yes == TRUE
  <1>k. /\ app \in Apps /\ Core(app) /\ Over(Settled, OurBytes, TrueBindings, TrueCopies)
        /\ saveFailed \/ BusyEnds(app)
    BY Known DEF EngineInv
  <1>f. [app EXCEPT !.save = None] = freed
    BY <1>k DEF Freed, AppsOf
  <1>d. app' = RequestSave(freed, yes) /\ app.save # None
    BY <1>f DEF MergeWriteOutdated, Finished
  <1>u. app.unsaved \in BOOLEAN /\ yes \in BOOLEAN
    BY <1>k DEF AppsOf
  <1> HIDE DEF yes
  <1>1. /\ freed \in Apps /\ Core(freed)
        /\ SameSession(app, freed) /\ SameBinding(app, freed) /\ SameStatus(app, freed)
        /\ SameMarks(app, freed) /\ freed.save = None /\ freed.doc = app.doc
        /\ freed.place # "locked"
    BY <1>d, <1>u, FreedCore
  <1>y. yes
    BY DEF yes
  <1> HIDE DEF freed
  <1>2. RestoreEnds(app) => RestoreEnds(freed)
    BY <1>1, FreedBusy
  <1>3. /\ app' \in Apps /\ Core(app') /\ SameDocument(freed, app') /\ NoNewResult(freed, app')
        /\ BusyEnds(freed) \/ (yes /\ RestoreEnds(freed)) => BusyEnds(app')
    BY <1>1, <1>d, <1>k, <1>u, RequestSaveKeeps
  <1> QED
    BY <1>1, <1>2, <1>3, <1>k, <1>y
    DEF Advances, Holds, Follows, NoNewResult, SameDocument, BusyEnds, RestoreEnds

\* The upload of a merge's own push, which no slot holds.
LEMMA ResolvePushKeeps ==
  ASSUME NEW D, NEW B, NEW G, NEW C, Over(D, B, G, C), NEW a \in AppsOf(D, B, G, C), Core(a),
         NEW session \in SyncSessions, IsCurrent(a, session), NEW interactive \in BOOLEAN,
         NEW bytes \in B, NEW etag \in Etags, OfTheBinding(a, etag),
         NEW resolves \in BOOLEAN
  PROVE  LET b == Spawn(a, PushTask(a, session, interactive, bytes, etag, resolves))
         IN  /\ b \in AppsOf(D, B, G, C)
             /\ resolves => Core(b)
             /\ SameSession(a, b) /\ SameDocument(a, b) /\ SameSave(a, b)
             /\ RestoreEnds(a) => BusyEnds(b)
  <1> DEFINE t == PushTask(a, session, interactive, bytes, etag, resolves)
             b == Spawn(a, t)
  <1>1. a.binding # None /\ etag.remote = a.binding.remote
    BY DEF OfTheBinding
  <1>b. bytes \in B \cup {None}
    OBVIOUS
  <1>2. /\ t \in TasksIn(D, B, G, C)
        /\ t.kind = "push" /\ t.owner = session /\ t.etag = etag /\ t.resolves = resolves
        /\ \A u \in a.tasks : u.id # t.id
    BY <1>1, <1>b, PushTaskTyped
  <1> HIDE DEF t
  <1>3. /\ b \in AppsOf(D, B, G, C)
        /\ SameSession(a, b) /\ SameDocument(a, b) /\ SameSave(a, b) /\ SameBinding(a, b)
        /\ SameStatus(a, b) /\ b.slot = a.slot /\ b.awaiting = a.awaiting /\ b.auto = a.auto
        /\ b.tasks = a.tasks \cup {t}
    BY <1>2, SpawnFields
  <1> HIDE DEF b
  <1>4. LockedIsQuiet(a) /\ InMemory(a)
    BY DEF Core, IsCurrent
  <1>5. Dated(a, t.owner)
    BY <1>2, CurrentSession
  <1>6. ASSUME resolves PROVE Core(b)
    BY <1>1, <1>2, <1>3, <1>4, <1>5, <1>6, TaskCore DEF SameStatus, LockedIsQuiet
  <1>7. \A s : IsCurrent(b, s) <=> IsCurrent(a, s)
    BY <1>3 DEF IsCurrent, SyncSession, SameSession, InMemory
  <1>8. WillSync(b)
    BY <1>2, <1>3, <1>7 DEF WillSync
  <1>9. RestoreEnds(a) => RestoreEnds(b)
    BY <1>3, <1>7 DEF RestoreEnds, WillRestore, SameStatus
  <1> QED
    BY <1>3, <1>6, <1>8, <1>9 DEF b, t, BusyEnds, RestoreEnds

LEMMA MergeInstalledAdvances ==
  ASSUME EngineInv, MergeInstalled
  PROVE  Advances
  <1> DEFINE Apps == AppsOf(Settled, OurBytes, TrueBindings, TrueCopies)
             save == app.save
             m == save.merge
             durable == save.result = "written"
             unsaved == ~durable \/ save.pending
             installed == Freed(app, save.edits, NewGen, unsaved)
             told == IF durable THEN installed ELSE RouteFor(installed, m.owner, "Failed")
             bytes == Edited(save.edits, save.rev)
             based == RecordBaseline(told, m.owner, m.etag, save.rev)
             yes == TRUE
  <1>k. /\ app \in Apps /\ Core(app) /\ Over(Settled, OurBytes, TrueBindings, TrueCopies)
        /\ CurrentIsBound(app) /\ MergesHoldTheDocument(app) /\ SavesAreTrue(app)
        /\ saveFailed \/ BusyEnds(app)
    BY Known DEF EngineInv
  <1>p. /\ save # None /\ save \in SavesOf(Settled) /\ m # None /\ m \in MergeMarks
        /\ save.result \in {"written", "undurable"} /\ m.base = app.gen
    BY <1>k DEF MergeInstalled, Finished, AppsOf, SavesOf, MovedOn
  <1>e. m.owner \in SyncSessions /\ m.etag \in Etags
    BY <1>p DEF MergeMarks
  <1>f. [app EXCEPT !.save = None, !.doc = save.edits, !.gen = NewGen, !.unsaved = unsaved] = installed
    BY <1>k DEF Freed, AppsOf
  <1>d. app' = CASE save.pending -> RequestSave(told, yes)
                 [] ~save.pending /\ ~durable -> told
                 [] ~save.pending /\ durable /\ app.place = "deferred" -> LockNow(told)
                 [] ~save.pending /\ durable /\ InMemory(told) /\ ~m.needsUpload ->
                       RouteFor(based, m.owner, "Synced")
                 [] OTHER ->
                       IF IsCurrent(told, m.owner)
                         THEN Spawn(told, PushTask(told, m.owner, yes, bytes, m.etag, yes))
                         ELSE told
    BY <1>f DEF MergeInstalled
  <1>v. unsaved \in BOOLEAN /\ yes \in BOOLEAN
    BY <1>p DEF SavesOf
  <1>u. yes
    OBVIOUS
  <1>w. bytes \in OurBytes /\ save.edits = file.edits /\ save.rev = file.rev
    BY <1>p, WrittenIsTheFile
  <1>s. durable \/ saveFailed
    BY <1>p DEF EngineInv, FailuresAreKnown
  <1> HIDE DEF unsaved, yes, bytes
  <1>h. app.doc \subseteq save.edits
    BY <1>k, <1>p DEF MergesHoldTheDocument
  <1>1. /\ installed \in Apps /\ Core(installed)
        /\ SameSession(app, installed) /\ SameBinding(app, installed) /\ SameStatus(app, installed)
        /\ SameMarks(app, installed) /\ installed.save = None /\ installed.doc = save.edits
        /\ app.place # "locked"
    BY <1>p, <1>v, FreedCore
  <1> HIDE DEF installed
  <1>2. /\ RestoreEnds(app) => RestoreEnds(installed)
        /\ BusyEnds(app) /\ ~SaveSyncs(app) => BusyEnds(installed)
    BY <1>1, FreedBusy
  <1>3. /\ told \in Apps /\ Core(told) /\ SameSession(installed, told)
        /\ SameDocument(installed, told) /\ SameSave(installed, told) /\ SameBinding(installed, told)
        /\ durable => told = installed
    <2>1. CASE durable
      BY <1>1, <2>1 DEF SameSession, SameDocument, SameSave, SameBinding
    <2>2. CASE ~durable
      <3>1. told = RouteFor(installed, m.owner, "Failed")
        BY <2>2
      <3> QED
        BY <1>1, <2>2, <3>1, RouteForKeeps
    <2> QED
      BY <2>1, <2>2
  <1> HIDE DEF told
  <1>4. /\ SameSession(app, told) /\ SameBinding(app, told) /\ told.doc = save.edits
        /\ told.save = None /\ told.place # "locked"
    BY <1>1, <1>3 DEF SameSession, SameBinding, SameDocument, SameSave
  <1>5. saveFailed \/ RestoreEnds(told)
    BY <1>2, <1>3, <1>k, <1>s DEF BusyEnds, RestoreEnds
  <1>c. IsCurrent(told, m.owner) <=> IsCurrent(app, m.owner)
    BY <1>4 DEF IsCurrent, SyncSession, SameSession, InMemory
  <1>o. IsCurrent(told, m.owner) => OfTheBinding(told, m.etag)
    BY <1>4, <1>c, <1>k, <1>p DEF CurrentIsBound, OfTheBinding, SameBinding
  \* Whatever follows the installation.
  <1>6. ASSUME app' \in Apps, Core(app'), NoNewResult(told, app'),
               InMemory(app') => SameDocument(told, app'), saveFailed \/ BusyEnds(app')
        PROVE  Advances
    BY <1>4, <1>6, <1>h DEF Advances, Holds, Follows, NoNewResult, SameDocument
  <1>7. CASE save.pending
    <2>1. app' = RequestSave(told, yes)
      BY <1>7, <1>d
    <2>2. /\ app' \in Apps /\ Core(app') /\ SameDocument(told, app') /\ NoNewResult(told, app')
          /\ BusyEnds(told) \/ (yes /\ RestoreEnds(told)) => BusyEnds(app')
      BY <1>3, <1>4, <1>k, <1>v, <2>1, RequestSaveKeeps
    <2> QED
      BY <1>5, <1>6, <1>u, <2>2
  <1>8. CASE ~save.pending /\ ~durable
    <2>1. app' = told
      BY <1>8, <1>d
    <2> QED
      BY <1>3, <1>6, <1>8, <1>s, <2>1 DEF NoNewResult, SameDocument
  <1>9. CASE ~save.pending /\ durable /\ app.place = "deferred"
    <2>m. ~InMemory(told)
      BY <1>4, <1>9 DEF InMemory, SameSession
    <2>1. app' = LockNow(told)
      BY <1>9, <1>d, <2>m
    <2>2. /\ app' \in Apps /\ Core(app') /\ BusyEnds(app') /\ app'.place = "locked" /\ app'.save = None
      BY <1>3, <1>4, <1>k, <2>1, LockNowKeeps
    <2> QED
      BY <1>6, <2>2 DEF NoNewResult, InMemory
  <1>10. CASE ~save.pending /\ durable /\ app.place # "deferred"
    <2>m. InMemory(told)
      BY <1>10, <1>1, <1>4, <1>k DEF InMemory, SameSession, AppsOf
    <2>b. ~IsCurrent(told, m.owner) => saveFailed \/ BusyEnds(told)
      BY <1>10, <1>2, <1>3, <1>c, <1>k, <1>p DEF SaveSyncs
    <2>1. CASE ~m.needsUpload
      <3>1. app' = RouteFor(based, m.owner, "Synced")
        BY <1>10, <1>d, <2>1, <2>m
      <3>2. ASSUME IsCurrent(told, m.owner)
            PROVE  [remote |-> told.binding.remote, etag |-> m.etag, uploaded |-> save.rev] \in TrueBindings
        <4>1. told.binding # None /\ m.etag.remote = told.binding.remote
          BY <1>o, <3>2 DEF OfTheBinding
        <4>2. told.binding.remote \in Remotes
          BY <1>e, <4>1 DEF Etags
        <4>3. Covers(told.binding.remote, m.etag, save.rev)
          BY <1>k, <1>p, <1>w, <2>1, <4>1 DEF SavesAreTrue, Covers
        <4>4. save.rev \in Nat
          BY <1>p DEF SavesOf
        <4> QED
          BY <1>e, <4>1, <4>2, <4>3, <4>4 DEF TrueBindings
      <3>3. /\ based \in Apps /\ Core(based)
            /\ SameSession(told, based) /\ SameDocument(told, based) /\ SameSave(told, based)
            /\ SameStatus(told, based) /\ SameMarks(told, based)
        BY <1>3, <1>k, <3>2, RecordBaselineKeeps
      <3> HIDE DEF based
      <3>4. IsCurrent(based, m.owner) <=> IsCurrent(told, m.owner)
        BY <3>3 DEF IsCurrent, SyncSession, SameSession, InMemory
      <3>5. BusyEnds(told) => BusyEnds(based)
        BY <3>3, SameBusy
      <3>6. /\ app' \in Apps /\ Core(app') /\ SameDocument(based, app') /\ SameSave(based, app')
            /\ BusyEnds(based) \/ IsCurrent(based, m.owner) => BusyEnds(app')
        BY <3>1, <3>3, RouteForKeeps
      <3> QED
        BY <1>6, <2>b, <3>3, <3>4, <3>5, <3>6 DEF NoNewResult, SameSave, SameDocument
    <2>2. CASE m.needsUpload /\ IsCurrent(told, m.owner)
      <3>1. app' = Spawn(told, PushTask(told, m.owner, yes, bytes, m.etag, yes))
        BY <1>10, <1>d, <2>2
      <3>2. /\ app' \in Apps
            /\ yes => Core(app')
            /\ SameSession(told, app') /\ SameDocument(told, app') /\ SameSave(told, app')
            /\ RestoreEnds(told) => BusyEnds(app')
        BY <1>3, <1>e, <1>k, <1>o, <1>v, <1>w, <2>2, <3>1, ResolvePushKeeps
      <3> QED
        BY <1>5, <1>6, <1>u, <3>2 DEF NoNewResult, SameSave
    <2>3. CASE m.needsUpload /\ ~IsCurrent(told, m.owner)
      <3>1. app' = told
        BY <1>10, <1>d, <2>3
      <3> QED
        BY <1>3, <1>6, <2>3, <2>b, <3>1 DEF NoNewResult, SameDocument
    <2>4. m.needsUpload \in BOOLEAN
      BY <1>p DEF MergeMarks
    <2> QED
      BY <2>1, <2>2, <2>3, <2>4
  <1> QED
    BY <1>7, <1>8, <1>9, <1>10

-----------------------------------------------------------------------------
(* Steps that change the files or what is made and asked. *)

\* Only two parts of Core are about the files.
LEMMA CoreNext ==
  ASSUME Core(app') \/ (/\ Numbered(app') /\ MergesHoldTheDocument(app') /\ LockedIsQuiet(app')
                        /\ SessionsArePast(app') /\ CurrentIsBound(app') /\ SlotIsHeld(app')
                        /\ Marked(app')),
         UserEditsGrow(app)', SavesAreTrue(app)'
  PROVE  Core(app)'
  <1>1. /\ Numbered(app') /\ MergesHoldTheDocument(app') /\ LockedIsQuiet(app')
        /\ SessionsArePast(app') /\ CurrentIsBound(app') /\ SlotIsHeld(app')
        /\ Marked(app')
    BY DEF Core
  <1> QED
    BY <1>1
    DEF Core, Numbered, MergesHoldTheDocument, LockedIsQuiet, SessionsArePast, CurrentIsBound,
        SlotIsHeld, Marked, Dated, IsCurrent, InMemory, SyncSession, OfTheBinding

LEMMA BusyNext ==
  ASSUME saveFailed => saveFailed', saveFailed \/ BusyEnds(app')
  PROVE  (saveFailed \/ BusyEnds(app))'
  BY DEF BusyEnds, WillSync, WillRestore, IsCurrent, InMemory, SyncSession

LEMMA UserEditsNext ==
  ASSUME file' = file, UserEditsGrow(app')
  PROVE  UserEditsGrow(app)'
  BY DEF UserEditsGrow

\* More is made or asked: what was held is still held.
LEMMA WiderWorld ==
  ASSUME EngineInv, file' = file, remotes' = remotes, made \subseteq made', made' \subseteq AllEdits,
         asked \subseteq asked'
  PROVE  /\ FilesAreSettled' /\ Over(Settled', OurBytes', TrueBindings', TrueCopies')
         /\ Settled \subseteq Settled'
         /\ app \in AppsOf(Settled', OurBytes', TrueBindings', TrueCopies')
         /\ /\ app' \in AppsOf(Settled', OurBytes', TrueBindings', TrueCopies') /\ Core(app')
            /\ NoNewResult(app, app') /\ saveFailed' = saveFailed
            /\ saveFailed \/ BusyEnds(app')
            => EngineInv'
  <1>1. Settled \subseteq Settled'
    BY DEF Settled
  <1>2. OurBytes \subseteq OurBytes'
    BY <1>1 DEF OurBytes
  <1>3. TrueBindings' = TrueBindings
    BY DEF TrueBindings, Covers
  <1>4. TrueCopies \subseteq TrueCopies'
    BY <1>1 DEF TrueCopies
  <1>5. FilesAreSettled'
    <2>1. file \in [edits : Settled', rev : Nat]
      BY <1>1 DEF EngineInv, FilesAreSettled
    <2>2. remotes \in [Remotes -> [edits : Settled', etag : Etags]]
      BY <1>1 DEF EngineInv, FilesAreSettled
    <2> QED
      BY <2>1, <2>2 DEF EngineInv, FilesAreSettled
  <1>6. Over(Settled', OurBytes', TrueBindings', TrueCopies')
    BY <1>5, SetsAreOverNext
  <1>7. app \in AppsOf(Settled', OurBytes', TrueBindings', TrueCopies')
    <2>1. AppsOf(Settled, OurBytes, TrueBindings, TrueCopies)
            \subseteq AppsOf(Settled', OurBytes', TrueBindings', TrueCopies')
      BY <1>1, <1>2, <1>3, <1>4, <1>6, LargerSets
    <2> QED
      BY <2>1, Known
  <1>8. ASSUME app' \in AppsOf(Settled', OurBytes', TrueBindings', TrueCopies'), Core(app'),
               NoNewResult(app, app'), saveFailed' = saveFailed, saveFailed \/ BusyEnds(app')
        PROVE  EngineInv'
    <2>1. HeldIsTrue'
      BY <1>8 DEF HeldIsTrue
    <2>2. UserEditsGrow(app)' /\ SavesAreTrue(app)'
      BY <1>8 DEF Core, UserEditsGrow, SavesAreTrue
    <2>3. Core(app)'
      BY <1>8, <2>2, CoreNext
    <2>4. FailuresAreKnown'
      BY <1>8 DEF EngineInv, FailuresAreKnown, NoNewResult
    <2>5. (saveFailed \/ BusyEnds(app))'
      BY <1>8, BusyNext
    <2> QED
      BY <1>5, <2>1, <2>3, <2>4, <2>5 DEF EngineInv
  <1> QED
    BY <1>1, <1>5, <1>6, <1>7, <1>8

\* A remote file is replaced, under a revision nothing refers to.
LEMMA RemoteChanges ==
  ASSUME EngineInv, NEW r \in Remotes, NEW edits,
         remotes' = [remotes EXCEPT ![r] = [edits |-> edits, etag |-> NewEtag(r)]],
         file' = file, asked' = asked, made \subseteq made', made' \subseteq AllEdits,
         edits \in Settled', edits \cap UserEdits \subseteq file.edits
  PROVE  /\ FilesAreSettled' /\ Over(Settled', OurBytes', TrueBindings', TrueCopies')
         /\ app \in AppsOf(Settled', OurBytes', TrueBindings', TrueCopies')
         /\ remotes'[r].edits = edits /\ remotes'[r].etag = NewEtag(r)
         /\ NewEtag(r) \in Etags /\ NewEtag(r).remote = r
         /\ /\ app' \in AppsOf(Settled', OurBytes', TrueBindings', TrueCopies') /\ Core(app')
            /\ app'.save = app.save /\ saveFailed' = saveFailed
            /\ saveFailed \/ BusyEnds(app')
            => EngineInv'
  <1>k. /\ HeldIsTrue /\ FilesAreSettled /\ Numbered(app) /\ Core(app)
        /\ remotes \in [Remotes -> [edits : Settled, etag : Etags]]
    BY Known DEF FilesAreSettled
  <1>e. NewEtag(r) \in Etags /\ NewEtag(r).remote = r
    BY <1>k, FreshEtag
  <1>r. /\ remotes'[r] = [edits |-> edits, etag |-> NewEtag(r)]
        /\ \A q \in Remotes : q # r => remotes'[q] = remotes[q]
    BY <1>k
  <1>1. Settled \subseteq Settled'
    BY DEF Settled
  <1>2. OurBytes \subseteq OurBytes'
    BY <1>1 DEF OurBytes
  <1>3. {g \in TrueBindings : g.etag # NewEtag(r)} \subseteq TrueBindings'
    <2> SUFFICES ASSUME NEW g \in TrueBindings, g.etag # NewEtag(r)
                 PROVE  g \in TrueBindings'
      OBVIOUS
    <2>1. /\ g \in [remote : Remotes, etag : Etags, uploaded : Nat] /\ g.etag.remote = g.remote
          /\ g.uploaded = file.rev /\ g.etag = remotes[g.remote].etag =>
                file.edits \subseteq remotes[g.remote].edits
      BY DEF TrueBindings, Covers
    <2>2. g.uploaded = file'.rev /\ g.etag = remotes'[g.remote].etag =>
                file'.edits \subseteq remotes'[g.remote].edits
      BY <1>r, <2>1
    <2> QED
      BY <2>1, <2>2 DEF TrueBindings, Covers
  <1>4. {c \in TrueCopies : c.etag # NewEtag(r)} \subseteq TrueCopies'
    <2> SUFFICES ASSUME NEW c \in TrueCopies, c.etag # NewEtag(r)
                 PROVE  c \in TrueCopies'
      OBVIOUS
    <2>1. /\ c \in [edits : Settled', etag : Etags] /\ c.edits \cap UserEdits \subseteq file.edits
          /\ c.etag = remotes[c.etag.remote].etag => c.edits = remotes[c.etag.remote].edits
      BY <1>1 DEF TrueCopies
    <2>2. c.etag.remote \in Remotes
      BY <2>1 DEF Etags
    <2>3. c.etag = remotes'[c.etag.remote].etag => c.edits = remotes'[c.etag.remote].edits
      BY <1>r, <2>1, <2>2
    <2> QED
      BY <2>1, <2>3 DEF TrueCopies
  <1>5. FilesAreSettled'
    <2>1. file' \in [edits : Settled', rev : Nat]
      BY <1>1, <1>k DEF FilesAreSettled
    <2>2. remotes' \in [Remotes -> [edits : Settled', etag : Etags]]
      BY <1>1, <1>e, <1>k
    <2>3. \A q \in Remotes : /\ remotes'[q].etag.remote = q
                             /\ remotes'[q].edits \cap UserEdits \subseteq file'.edits
      BY <1>e, <1>k, <1>r DEF FilesAreSettled
    <2> QED
      BY <2>1, <2>2, <2>3 DEF FilesAreSettled
  <1>6. Over(Settled', OurBytes', TrueBindings', TrueCopies')
    BY <1>5, SetsAreOverNext
  <1>7. app \in AppsOf(Settled', OurBytes', TrueBindings', TrueCopies')
    <2>1. app \in AppsOf(Settled, OurBytes, {g \in TrueBindings : g.etag # NewEtag(r)},
                         {c \in TrueCopies : c.etag # NewEtag(r)})
      BY <1>k, HeldAvoidsEtag
    <2> DEFINE G == {g \in TrueBindings : g.etag # NewEtag(r)}
               C == {c \in TrueCopies : c.etag # NewEtag(r)}
    <2>2. G \subseteq TrueBindings' /\ C \subseteq TrueCopies'
      BY <1>3, <1>4
    <2>3. app \in AppsOf(Settled, OurBytes, G, C)
      BY <2>1
    <2> HIDE DEF G, C
    <2>4. AppsOf(Settled, OurBytes, G, C) \subseteq AppsOf(Settled', OurBytes', TrueBindings', TrueCopies')
      BY <1>1, <1>2, <1>6, <2>2, LargerSets
    <2> QED
      BY <2>3, <2>4
  <1>8. ASSUME app' \in AppsOf(Settled', OurBytes', TrueBindings', TrueCopies'), Core(app'),
               app'.save = app.save, saveFailed' = saveFailed, saveFailed \/ BusyEnds(app')
        PROVE  EngineInv'
    <2>1. HeldIsTrue'
      BY <1>8 DEF HeldIsTrue
    <2>2. UserEditsGrow(app)'
      BY <1>8 DEF Core, UserEditsGrow
    <2>3. SavesAreTrue(app)'
      <3>1. SavesAreTrue(app)
        BY <1>k DEF Core
      <3>2. ASSUME app.save # None, app.save.merge # None
            PROVE  app.save.merge.etag # NewEtag(r) /\ app.save.merge.etag.remote \in Remotes
        <4>1. app.save.merge.etag # NewEtag(r)
          BY <1>k, <3>2, SaveAvoidsEtag
        <4>2. app.save.merge \in MergeMarks
          BY <3>2, Known DEF AppsOf, SavesOf
        <4> QED
          BY <4>1, <4>2 DEF MergeMarks, Etags
      <3>3. ASSUME app.save # None, app.save.merge # None, ~app.save.merge.needsUpload,
                   app.save.merge.etag = remotes'[app.save.merge.etag.remote].etag
            PROVE  app.save.edits \subseteq remotes'[app.save.merge.etag.remote].edits
        <4>1. app.save.merge.etag.remote # r
          BY <1>r, <3>2, <3>3
        <4>2. remotes'[app.save.merge.etag.remote] = remotes[app.save.merge.etag.remote]
          BY <1>r, <3>2, <3>3, <4>1
        <4> QED
          BY <3>1, <3>3, <4>2 DEF SavesAreTrue
      <3> QED
        BY <1>8, <3>1, <3>3 DEF SavesAreTrue
    <2>4. Core(app)'
      BY <1>8, <2>2, <2>3, CoreNext
    <2>5. FailuresAreKnown'
      BY <1>8 DEF EngineInv, FailuresAreKnown
    <2>6. (saveFailed \/ BusyEnds(app))'
      BY <1>8, BusyNext
    <2> QED
      BY <1>5, <2>1, <2>4, <2>5, <2>6 DEF EngineInv
  <1> QED
    BY <1>5, <1>6, <1>7, <1>8, <1>e, <1>r

\* An edit of the document.
Mutated(a, doc, gen, overlay) == [a EXCEPT !.doc = doc, !.gen = gen, !.overlay = overlay]

LEMMA MutatedFields ==
  ASSUME NEW D, NEW B, NEW G, NEW C, NEW a \in AppsOf(D, B, G, C), NEW doc \in D, NEW gen \in Nat,
         NEW overlay \in {"none", "edit", "connect", "conflict"}
  PROVE  LET b == Mutated(a, doc, gen, overlay)
         IN  /\ b \in AppsOf(D, B, G, C)
             /\ SameSession(a, b) /\ SameSave(a, b) /\ SameBinding(a, b) /\ SameStatus(a, b)
             /\ SameMarks(a, b) /\ b.doc = doc /\ b.gen = gen
  <1> DEFINE w1 == [a EXCEPT !.doc = doc]
             w2 == [w1 EXCEPT !.gen = gen]
             w3 == [w2 EXCEPT !.overlay = overlay]
  <1>1. Mutated(a, doc, gen, overlay) = w3
    BY DEF Mutated
  <1>2. w1 \in AppsOf(D, B, G, C)
    BY Setters
  <1>3. w2 \in AppsOf(D, B, G, C)
    <2> HIDE DEF w1
    <2> QED BY <1>2, Setters
  <1>4. w3 \in AppsOf(D, B, G, C)
    <2> HIDE DEF w2
    <2> QED BY <1>3, Setters
  <1>5. LET b == Mutated(a, doc, gen, overlay)
        IN  /\ SameSession(a, b) /\ SameSave(a, b) /\ SameBinding(a, b) /\ SameStatus(a, b)
            /\ SameMarks(a, b) /\ b.doc = doc /\ b.gen = gen
    BY SMTT(60) DEF Mutated, AppsOf, SameSession, SameSave, SameBinding, SameStatus, SameMarks
  <1> QED
    BY <1>1, <1>4, <1>5

LEMMA EditKeeps ==
  ASSUME EngineInv, NEW e \in UserEdits, NEW sync \in BOOLEAN, Edit(e, sync)
  PROVE  EngineInv' /\ Follows(app, app')
  <1> DEFINE Apps == AppsOf(Settled', OurBytes', TrueBindings', TrueCopies')
             doc == app.doc \cup {e}
             overlay == IF app.overlay = "edit" THEN "none" ELSE app.overlay
             w == Mutated(app, doc, NewGen, overlay)
  <1>k. /\ app \in AppsOf(Settled, OurBytes, TrueBindings, TrueCopies) /\ Core(app) /\ Numbered(app)
        /\ UserEditsGrow(app) /\ FilesAreSettled /\ (saveFailed \/ BusyEnds(app))
    BY Known DEF EngineInv
  <1>p. /\ app.place = "active" /\ made' = made \cup {e} /\ asked' = asked
        /\ file' = file /\ remotes' = remotes /\ saveFailed' = saveFailed
        /\ \A r \in app.doc : <<e, r>> \notin Clashes
    BY DEF Edit, Bounds
  <1>d. app' = RequestSave(w, sync)
    BY DEF Edit, Mutated
  <1>1. made \subseteq made' /\ made' \subseteq AllEdits /\ asked \subseteq asked'
    BY <1>k, <1>p DEF FilesAreSettled, AllEdits
  <1>2. /\ Over(Settled', OurBytes', TrueBindings', TrueCopies') /\ app \in Apps
        /\ app' \in Apps /\ Core(app') /\ NoNewResult(app, app') /\ saveFailed' = saveFailed
           /\ (saveFailed \/ BusyEnds(app'))
           => EngineInv'
    BY <1>1, <1>p, WiderWorld
  <1>3. doc \in Settled'
    <2>1. app.doc \in Settled
      BY <1>k DEF AppsOf
    <2>2. doc \subseteq made'
      BY <1>p, <2>1 DEF Settled
    <2>3. ASSUME NEW c \in Clashes \ asked, {c[1], c[2]} \subseteq doc
          PROVE  FALSE
      <3>1. c = <<c[1], c[2]>> /\ c[1] \in UserEdits /\ c[2] \in DeviceEdits
        BY ClashesAreMadeApart
      <3>2. c[2] \in app.doc
        BY <2>3, <3>1, ClashesAreMadeApart
      <3>3. c[1] # e
        BY <1>p, <3>1, <3>2
      <3>4. {c[1], c[2]} \subseteq app.doc
        BY <2>3, <3>2, <3>3
      <3> QED
        BY <2>1, <3>4 DEF Settled
    <2> QED
      BY <1>p, <2>2, <2>3 DEF Settled
  <1>4. NewGen \in Nat /\ overlay \in {"none", "edit", "connect", "conflict"}
    BY <1>k, FreshGen DEF AppsOf
  <1> HIDE DEF overlay, doc
  <1>5. /\ w \in Apps
        /\ SameSession(app, w) /\ SameSave(app, w) /\ SameBinding(app, w) /\ SameStatus(app, w)
        /\ SameMarks(app, w) /\ w.doc = doc /\ w.gen = NewGen
    <2>1. app \in AppsOf(Settled', OurBytes', TrueBindings', TrueCopies')
      BY <1>2
    <2> QED
      BY <1>3, <1>4, <2>1, MutatedFields
  <1> HIDE DEF w
  <1>6. UserEditsGrow(w)
    BY <1>5, <1>k DEF doc, UserEditsGrow, SameSession, SameSave
  <1>7. Core(w)
    BY <1>5, <1>6, <1>k, FreshGen, DocumentCore DEF SameSave
  <1>8. BusyEnds(app) => BusyEnds(w)
    BY <1>5, SameBusy
  <1>9. w.place # "locked"
    BY <1>5, <1>p DEF SameSession
  <1>10. /\ app' \in Apps /\ Core(app') /\ SameDocument(w, app') /\ NoNewResult(w, app')
         /\ BusyEnds(w) => BusyEnds(app')
    BY <1>2, <1>5, <1>7, <1>9, <1>d, RequestSaveKeeps
  <1>11. NoNewResult(app, app')
    BY <1>5, <1>10 DEF NoNewResult, SameSave
  <1>12. EngineInv'
    BY <1>2, <1>8, <1>10, <1>11, <1>k, <1>p
  <1>13. Follows(app, app')
    BY <1>5, <1>10, <1>11 DEF doc, Follows, SameDocument
  <1> QED
    BY <1>12, <1>13

LEMMA ResolveKeeps ==
  ASSUME EngineInv, Resolve
  PROVE  EngineInv' /\ Follows(app, app')
  <1> DEFINE Apps == AppsOf(Settled', OurBytes', TrueBindings', TrueCopies')
             c == app.conflict
             merged == c.local \cup c.theirs
             yes == TRUE
  <1>k. /\ app \in AppsOf(Settled, OurBytes, TrueBindings, TrueCopies) /\ Core(app)
        /\ MergesHoldTheDocument(app) /\ CurrentIsBound(app) /\ LockedIsQuiet(app)
        /\ FilesAreSettled /\ (saveFailed \/ BusyEnds(app))
    BY Known DEF EngineInv
  <1>p. /\ app.status = "Conflict" /\ IsCurrent(app, c.owner)
        /\ asked' = asked \cup Clashing(c.local, c.theirs)
        /\ made' = made /\ file' = file /\ remotes' = remotes /\ saveFailed' = saveFailed
    BY DEF Resolve, Bounds
  <1>d. app' = CommitMerged(app, c.owner, merged, c.etag, yes, c.base)
    BY DEF Resolve
  <1>y. yes \in BOOLEAN
    OBVIOUS
  <1>z. yes
    OBVIOUS
  <1> HIDE DEF yes
  <1>1. made \subseteq made' /\ made' \subseteq AllEdits /\ asked \subseteq asked'
    BY <1>k, <1>p DEF FilesAreSettled
  <1>2. /\ Over(Settled', OurBytes', TrueBindings', TrueCopies') /\ app \in Apps
        /\ app' \in Apps /\ Core(app') /\ NoNewResult(app, app') /\ saveFailed' = saveFailed
           /\ (saveFailed \/ BusyEnds(app'))
           => EngineInv'
    BY <1>1, <1>p, WiderWorld
  <1>3. c # None /\ c \in ConflictsOf(Settled, TrueCopies)
    BY <1>k, <1>p DEF LockedIsQuiet, AppsOf
  <1>4. /\ c.local \in Settled /\ c.theirs \in Settled /\ c.theirs \cap UserEdits \subseteq c.local
        /\ c.owner \in SyncSessions /\ c.etag \in Etags /\ c.base \in Nat
    BY <1>3 DEF ConflictsOf, Sides
  <1>5. merged \in Settled'
    BY <1>4, <1>p, MergesAreSettled
  <1>6. OfTheBinding(app, c.etag)
    BY <1>3, <1>k, <1>p DEF CurrentIsBound
  <1>7. c.base = app.gen => app.doc \subseteq merged /\ merged \cap UserEdits \subseteq app.doc
    <2>1. c.base = app.gen => c.local = app.doc
      BY <1>3, <1>k, <1>p DEF MergesHoldTheDocument
    <2> QED
      BY <1>4, <2>1
  <1> HIDE DEF merged, c
  <1>8. /\ app' \in Apps /\ Core(app') /\ SameDocument(app, app') /\ NoNewResult(app, app')
        /\ BusyEnds(app')
    BY <1>2, <1>4, <1>5, <1>6, <1>7, <1>d, <1>k, <1>p, <1>y, <1>z, CommitMergedKeeps
  <1> QED
    BY <1>2, <1>8, <1>p DEF Follows, SameDocument

LEMMA DeviceEditKeeps ==
  ASSUME EngineInv, NEW e \in DeviceEdits, NEW r \in Remotes, DeviceEdit(e, r)
  PROVE  EngineInv' /\ Follows(app, app')
  <1> DEFINE edits == remotes[r].edits \cup {e}
  <1>k. Core(app) /\ FilesAreSettled /\ (saveFailed \/ BusyEnds(app))
    BY Known DEF EngineInv
  <1>p. /\ made' = made \cup {e} /\ asked' = asked /\ file' = file /\ app' = app
        /\ saveFailed' = saveFailed
        /\ remotes' = [remotes EXCEPT ![r] = [edits |-> edits, etag |-> NewEtag(r)]]
        /\ \A u \in remotes[r].edits : <<u, e>> \notin Clashes
    BY DEF DeviceEdit, Bounds
  <1>1. made \subseteq made' /\ made' \subseteq AllEdits
    BY <1>k, <1>p DEF FilesAreSettled, AllEdits
  <1>2. remotes[r].edits \in Settled /\ remotes[r].edits \cap UserEdits \subseteq file.edits
    BY <1>k DEF FilesAreSettled
  <1>3. edits \cap UserEdits \subseteq file.edits
    BY <1>2, ClashesAreMadeApart
  <1>4. edits \in Settled'
    <2>1. edits \subseteq made'
      BY <1>2, <1>p DEF Settled
    <2>2. ASSUME NEW c \in Clashes \ asked, {c[1], c[2]} \subseteq edits
          PROVE  FALSE
      <3>1. c = <<c[1], c[2]>> /\ c[1] \in UserEdits /\ c[2] \in DeviceEdits
        BY ClashesAreMadeApart
      <3>2. c[1] \in remotes[r].edits
        BY <2>2, <3>1, ClashesAreMadeApart
      <3>3. c[2] # e
        BY <1>p, <3>1, <3>2
      <3>4. {c[1], c[2]} \subseteq remotes[r].edits
        BY <2>2, <3>2, <3>3
      <3> QED
        BY <1>2, <3>4 DEF Settled
    <2> QED
      BY <1>p, <2>1, <2>2 DEF Settled
  <1> HIDE DEF edits
  <1>5. /\ app \in AppsOf(Settled', OurBytes', TrueBindings', TrueCopies')
        /\ /\ app' \in AppsOf(Settled', OurBytes', TrueBindings', TrueCopies') /\ Core(app')
           /\ app'.save = app.save /\ saveFailed' = saveFailed
           /\ (saveFailed \/ BusyEnds(app'))
           => EngineInv'
    BY <1>1, <1>3, <1>4, <1>p, RemoteChanges
  <1>6. EngineInv'
    BY <1>5, <1>k, <1>p
  <1> QED
    BY <1>6, <1>p DEF Follows, NoNewResult

\* An upload that was taken, and how its task may end.
LEMMA PushTaken ==
  ASSUME EngineInv, NEW p \in app.tasks, p.kind = "push", p.phase = "send",
         remotes' = [remotes EXCEPT ![p.remote] = [edits |-> p.bytes.edits, etag |-> NewEtag(p.remote)]],
         UNCHANGED <<file, asked, made, saveFailed>>,
         NEW x, x = [as |-> "synced", etag |-> NewEtag(p.remote)] \/ x = [as |-> "network"],
         Answered(p, x)
  PROVE  EngineInv' /\ Follows(app, app')
  <1> DEFINE u == [p EXCEPT !.phase = "done", !.answer = x]
             Apps == AppsOf(Settled', OurBytes', TrueBindings', TrueCopies')
             Records == [kind : {"push"}, id : Nat, owner : SyncSessions, interactive : BOOLEAN,
                         bytes : OurBytes' \cup {None}, remote : Remotes, etag : Etags,
                         resolves : BOOLEAN, phase : {"read", "send", "rejected", "done"},
                         answer : AnswersOf({"network", "throttled", "grant"}) \cup SyncedAnswers
                                    \cup CopyAnswers("conflict", TrueCopies') \cup {None}]
  <1>k. /\ Core(app) /\ FilesAreSettled
        /\ saveFailed \/ BusyEnds(app)
    BY Known DEF EngineInv
  <1>1. p \in PushesOf(OurBytes, TrueBindings, TrueCopies)
    BY TasksAreTyped
  <1>2. p.remote \in Remotes /\ p.bytes \in OurBytes
    BY <1>1 DEF PushesOf
  <1>3. /\ p.bytes.edits \in Settled /\ p.bytes.rev \in Nat
        /\ p.bytes.edits \cap UserEdits \subseteq file.edits
        /\ p.bytes.rev = file.rev => p.bytes.edits = file.edits
    BY <1>2 DEF OurBytes
  <1>4. made \subseteq made' /\ made' \subseteq AllEdits /\ p.bytes.edits \in Settled'
    BY <1>3, <1>k DEF Settled, FilesAreSettled
  <1>5. /\ Over(Settled', OurBytes', TrueBindings', TrueCopies') /\ app \in Apps
        /\ remotes'[p.remote].edits = p.bytes.edits /\ remotes'[p.remote].etag = NewEtag(p.remote)
        /\ NewEtag(p.remote) \in Etags /\ NewEtag(p.remote).remote = p.remote
        /\ app' \in Apps /\ Core(app') /\ app'.save = app.save /\ saveFailed' = saveFailed
           /\ (saveFailed \/ BusyEnds(app'))
           => EngineInv'
    BY <1>2, <1>3, <1>4, RemoteChanges
  <1>6. p \in PushesOf(OurBytes', TrueBindings', TrueCopies')
    <2>1. p \in TasksIn(Settled', OurBytes', TrueBindings', TrueCopies')
      BY <1>5 DEF AppsOf
    <2> QED
      BY <2>1, KindsOfTasks
  <1>7. p \in Records /\ p.etag.remote = p.remote /\ p.bytes # None
    BY <1>6 DEF PushesOf
  <1>8. x \in SyncedAnswers \/ x \in AnswersOf({"network", "throttled", "grant"})
    BY <1>5 DEF SyncedAnswers, AnswersOf
  <1>9. x # None /\ x \notin CopyAnswers("conflict", TrueCopies')
    <2>1. x.as # "conflict"
      OBVIOUS
    <2> QED
      BY <1>5, <1>8, <2>1, NoneIsNone DEF CopyAnswers
  <1>10. u \in Records
    BY <1>7, <1>8
  <1>11. /\ u.phase = "done" /\ u.answer = x /\ u.etag = p.etag /\ u.remote = p.remote
         /\ u.kind = p.kind /\ u.id = p.id /\ u.owner = p.owner /\ u.resolves = p.resolves
         /\ u.bytes = p.bytes
    BY <1>7
  <1>12. [remote |-> p.remote, etag |-> NewEtag(p.remote), uploaded |-> p.bytes.rev] \in TrueBindings'
    <2> DEFINE g == [remote |-> p.remote, etag |-> NewEtag(p.remote), uploaded |-> p.bytes.rev]
    <2>1. g.remote = p.remote /\ g.etag = NewEtag(p.remote) /\ g.uploaded = p.bytes.rev
      OBVIOUS
    <2>2. g \in [remote : Remotes, etag : Etags, uploaded : Nat] /\ g.etag.remote = g.remote
      BY <1>2, <1>3, <1>5
    <2>3. g.uploaded = file'.rev /\ g.etag = remotes'[g.remote].etag
          => file'.edits \subseteq remotes'[g.remote].edits
      BY <1>3, <1>5, <2>1
    <2> HIDE DEF g
    <2>4. g \in TrueBindings'
      BY <2>2, <2>3 DEF TrueBindings, Covers
    <2> QED
      BY <2>4 DEF g
  <1>13. x \in SyncedAnswers => x.etag = NewEtag(p.remote)
    BY DEF SyncedAnswers
  <1> HIDE DEF u
  <1>14. u \in PushesOf(OurBytes', TrueBindings', TrueCopies')
    BY <1>7, <1>9, <1>10, <1>11, <1>12, <1>13 DEF PushesOf
  <1>15. u \in TasksIn(Settled', OurBytes', TrueBindings', TrueCopies')
    BY <1>14 DEF TasksIn
  <1>16. app' = Stepped(app, p, u)
    BY DEF Answered, Step, Stepped, u
  <1>17. /\ app' \in Apps
         /\ SameSession(app, app') /\ SameDocument(app, app') /\ SameSave(app, app')
         /\ SameBinding(app, app') /\ SameStatus(app, app') /\ app'.slot = app.slot
         /\ app'.awaiting = app.awaiting /\ app'.auto = app.auto
         /\ app'.tasks = (app.tasks \ {p}) \cup {u}
    BY <1>5, <1>15, <1>16, SteppedFields
  <1>18. Core(app') /\ (BusyEnds(app) => BusyEnds(app'))
    BY <1>11, <1>17, <1>k, StepCore DEF SameBinding
  <1>19. EngineInv'
    BY <1>5, <1>17, <1>18, <1>k DEF SameSave
  <1> QED
    BY <1>17, <1>19 DEF Follows, NoNewResult, SameSave, SameDocument

LEMMA PushSendKeeps ==
  ASSUME EngineInv, NEW p \in app.tasks, PushSend(p)
  PROVE  EngineInv' /\ Follows(app, app')
  <1>p. p.kind = "push" /\ p.phase = "send"
    BY DEF PushSend, TasksOf
  <1>u. UNCHANGED <<file, asked, made, saveFailed>>
    BY DEF PushSend
  <1>r. p.remote \in Remotes
    BY <1>p, TasksAreTyped DEF PushesOf
  <1>1. CASE remotes[p.remote].etag = IfMatch(p)
    <2>1. remotes' = [remotes EXCEPT ![p.remote] = [edits |-> p.bytes.edits, etag |-> NewEtag(p.remote)]]
      BY <1>1 DEF PushSend
    <2>2. remotes'[p.remote].etag = NewEtag(p.remote)
      <3>1. remotes \in [Remotes -> [edits : Settled, etag : Etags]]
        BY Known DEF FilesAreSettled
      <3> QED
        BY <1>r, <2>1, <3>1
    <2>3. \/ Answered(p, [as |-> "synced", etag |-> NewEtag(p.remote)])
          \/ Answered(p, [as |-> "network"])
      BY <1>1, <2>2 DEF PushSend
    <2> QED
      BY <1>p, <1>u, <2>1, <2>3, PushTaken
  <1>2. CASE remotes[p.remote].etag # IfMatch(p)
    <2>1. Step(p, [p EXCEPT !.phase = "rejected"]) /\ UNCHANGED World
      BY <1>2, <1>u DEF PushSend, World
    <2>2. Advances
      BY <1>p, <2>1, PushRejected
    <2> QED
      BY <1>u, <2>1, <2>2, AdvancesKeeps DEF Advances
  <1> QED
    BY <1>1, <1>2

LEMMA PublishWriteKeeps ==
  ASSUME EngineInv, NEW t \in app.tasks, PublishWrite(t)
  PROVE  EngineInv' /\ Follows(app, app')
  <1> DEFINE etag == NewEtag(t.remote)
             binding == [remote |-> t.remote, etag |-> etag, uploaded |-> t.bytes.rev]
             x == [as |-> "restored", cfg |-> binding]
             u == [t EXCEPT !.phase = "done", !.answer = x]
             Apps == AppsOf(Settled', OurBytes', TrueBindings', TrueCopies')
             Records == [kind : {"publish"}, id : Nat, owner : SyncSessions, remote : Remotes,
                         phase : {"read", "write", "done"}, bytes : OurBytes' \cup {None},
                         answer : AnswersOf({"refused"}) \cup BoundAnswers(TrueBindings') \cup {None}]
  <1>p. t.kind = "publish" /\ t.phase = "write"
    BY DEF PublishWrite, TasksOf
  <1>u. UNCHANGED <<file, asked, made, saveFailed>>
    BY DEF PublishWrite, Bounds
  <1>k. /\ Core(app) /\ FilesAreSettled
        /\ saveFailed \/ BusyEnds(app)
    BY Known DEF EngineInv
  <1>1. CASE app.cfg # None
    <2>1. Answered(t, [as |-> "refused"]) /\ UNCHANGED World
      BY <1>1, <1>u DEF PublishWrite, World
    <2>2. Advances
      BY <1>p, <2>1, PublishRefused
    <2> QED
      BY <1>u, <2>1, <2>2, AdvancesKeeps DEF Advances
  <1>2. CASE app.cfg = None
    <2>1. /\ remotes' = [remotes EXCEPT ![t.remote] = [edits |-> t.bytes.edits, etag |-> NewEtag(t.remote)]]
          /\ app' = [app EXCEPT !.cfg = binding, !.tasks = (@ \ {t}) \cup {u}]
      BY <1>2 DEF PublishWrite
    <2>2. t \in PublishesOf(OurBytes, TrueBindings)
      BY <1>p, TasksAreTyped
    <2>3. t.remote \in Remotes /\ t.bytes \in OurBytes
      BY <1>p, <2>2 DEF PublishesOf
    <2>4. /\ t.bytes.edits \in Settled /\ t.bytes.rev \in Nat
          /\ t.bytes.edits \cap UserEdits \subseteq file.edits
          /\ t.bytes.rev = file.rev => t.bytes.edits = file.edits
      BY <2>3 DEF OurBytes
    <2>5. made \subseteq made' /\ made' \subseteq AllEdits /\ t.bytes.edits \in Settled'
      BY <1>k, <1>u, <2>4 DEF Settled, FilesAreSettled
    <2>6. /\ Over(Settled', OurBytes', TrueBindings', TrueCopies') /\ app \in Apps
          /\ remotes'[t.remote].edits = t.bytes.edits /\ remotes'[t.remote].etag = NewEtag(t.remote)
          /\ NewEtag(t.remote) \in Etags /\ NewEtag(t.remote).remote = t.remote
          /\ app' \in Apps /\ Core(app') /\ app'.save = app.save /\ saveFailed' = saveFailed
             /\ (saveFailed \/ BusyEnds(app'))
             => EngineInv'
      BY <1>u, <2>1, <2>3, <2>4, <2>5, RemoteChanges
    <2>7. t \in Records
      <3>1. t \in TasksIn(Settled', OurBytes', TrueBindings', TrueCopies')
        BY <2>6 DEF AppsOf
      <3>2. t \in PublishesOf(OurBytes', TrueBindings')
        BY <1>p, <3>1, KindsOfTasks
      <3> QED
        BY <3>2 DEF PublishesOf
    <2>8. binding \in TrueBindings'
      <3>1. /\ binding.remote = t.remote /\ binding.etag = NewEtag(t.remote)
            /\ binding.uploaded = t.bytes.rev
        OBVIOUS
      <3>2. /\ binding \in [remote : Remotes, etag : Etags, uploaded : Nat]
            /\ binding.etag.remote = binding.remote
        BY <2>3, <2>4, <2>6
      <3>3. binding.uploaded = file'.rev /\ binding.etag = remotes'[binding.remote].etag
            => file'.edits \subseteq remotes'[binding.remote].edits
        BY <1>u, <2>4, <2>6, <3>1
      <3> HIDE DEF binding
      <3> QED
        BY <3>2, <3>3 DEF TrueBindings, Covers
    <2>9. binding # None /\ binding.remote = t.remote
      BY <2>6, <2>8, NoneIsNone
    <2> HIDE DEF binding
    <2>10. x \in BoundAnswers(TrueBindings') /\ x.as = "restored" /\ x.cfg = binding
      BY <2>8 DEF BoundAnswers
    <2>11. x # None
      BY <2>6, <2>10, NoneIsNone
    <2> HIDE DEF x
    <2>12. u \in Records
      BY <2>7, <2>10
    <2>13. /\ u.phase = "done" /\ u.answer = x /\ u.kind = t.kind /\ u.id = t.id /\ u.owner = t.owner
      BY <2>7
    <2>s. app' = [app EXCEPT !.cfg = binding, !.tasks = (app.tasks \ {t}) \cup {u}]
      BY <2>1 DEF x, binding
    <2> HIDE DEF u
    <2>14. u \in PublishesOf(OurBytes', TrueBindings')
      BY <2>11, <2>12, <2>13 DEF PublishesOf
    <2>15. u \in TasksIn(Settled', OurBytes', TrueBindings', TrueCopies')
      BY <2>14 DEF TasksIn
    <2> DEFINE w == Stepped(app, t, u)
    <2>16. /\ w \in Apps
           /\ SameSession(app, w) /\ SameDocument(app, w) /\ SameSave(app, w)
           /\ SameBinding(app, w) /\ SameStatus(app, w) /\ w.slot = app.slot
           /\ w.awaiting = app.awaiting /\ w.auto = app.auto
           /\ w.tasks = (app.tasks \ {t}) \cup {u}
      BY <2>6, <2>15, SteppedFields
    <2>17. app' = [w EXCEPT !.cfg = binding]
      BY <2>s DEF Stepped
    <2> HIDE DEF w
    <2>18. app' \in Apps
      BY <2>8, <2>16, <2>17, Setters
    <2>19. /\ SameSession(w, app') /\ SameDocument(w, app') /\ SameSave(w, app')
           /\ SameStatus(w, app') /\ app'.binding = w.binding /\ app'.cfg = binding
           /\ app'.slot = w.slot /\ app'.awaiting = w.awaiting /\ app'.auto = w.auto
           /\ app'.tasks = w.tasks
      BY <2>16, <2>17 DEF AppsOf, SameSession, SameDocument, SameSave, SameStatus
    <2>20. /\ SameSession(app, app') /\ SameDocument(app, app') /\ SameSave(app, app')
           /\ SameStatus(app, app') /\ app'.binding = app.binding /\ app'.cfg = binding
           /\ app'.slot = app.slot /\ app'.awaiting = app.awaiting /\ app'.auto = app.auto
           /\ app'.tasks = (app.tasks \ {t}) \cup {u}
      BY <2>16, <2>19 DEF SameSession, SameDocument, SameSave, SameStatus, SameBinding
    <2>21. Core(app') /\ (BusyEnds(app) => BusyEnds(app'))
      BY <1>2, <1>k, <1>p, <2>9, <2>10, <2>13, <2>20, StepCore
    <2>22. EngineInv'
      BY <1>k, <1>u, <2>6, <2>18, <2>20, <2>21 DEF SameSave
    <2> QED
      BY <2>20, <2>22 DEF Follows, NoNewResult, SameSave, SameDocument
  <1> QED
    BY <1>1, <1>2

\* The writer gives the save a result.
Resulted(a, result, rev) == [a EXCEPT !.save = [a.save EXCEPT !.result = result, !.rev = rev]]

LEMMA ResultedFields ==
  ASSUME NEW D, NEW B, NEW G, NEW C, Over(D, B, G, C), NEW a \in AppsOf(D, B, G, C), a.save # None,
         NEW result \in {"running", "written", "undurable", "failed"}, NEW rev \in Nat
  PROVE  LET b == Resulted(a, result, rev)
         IN  /\ b \in AppsOf(D, B, G, C)
             /\ SameSession(a, b) /\ SameDocument(a, b) /\ SameBinding(a, b) /\ SameStatus(a, b)
             /\ SameMarks(a, b) /\ b.save # None
             /\ b.save.edits = a.save.edits /\ b.save.merge = a.save.merge
             /\ b.save.sync = a.save.sync /\ b.save.pending = a.save.pending
             /\ b.save.pendingSync = a.save.pendingSync
             /\ b.save.result = result /\ b.save.rev = rev
  <1> DEFINE s == [a.save EXCEPT !.result = result, !.rev = rev]
             b == [a EXCEPT !.save = s]
  <1>1. a.save \in SavesOf(D)
    BY DEF AppsOf
  <1>2. /\ s \in SavesOf(D) /\ s.edits = a.save.edits /\ s.merge = a.save.merge
        /\ s.sync = a.save.sync /\ s.pending = a.save.pending
        /\ s.pendingSync = a.save.pendingSync /\ s.result = result /\ s.rev = rev
    BY <1>1 DEF SavesOf
  <1>3. b = Resulted(a, result, rev)
    BY DEF Resulted
  <1> HIDE DEF s
  <1>4. s # None
    BY <1>2, NoneIsNone
  <1>5. b \in AppsOf(D, B, G, C)
    BY <1>2, Setters
  <1>6. /\ SameSession(a, b) /\ SameDocument(a, b) /\ SameBinding(a, b) /\ SameStatus(a, b)
        /\ SameMarks(a, b) /\ b.save = s
    BY DEF AppsOf, SameSession, SameDocument, SameBinding, SameStatus, SameMarks
  <1> HIDE DEF b
  <1> QED
    BY <1>2, <1>3, <1>4, <1>5, <1>6

LEMMA ResultedCore ==
  ASSUME NEW D, NEW B, NEW G, NEW C, NEW a \in AppsOf(D, B, G, C), NEW b, a.save # None, Core(a),
         SameSession(a, b), SameDocument(a, b), SameBinding(a, b), SameStatus(a, b),
         SameMarks(a, b), b.save # None,
         b.save.edits = a.save.edits, b.save.merge = a.save.merge, b.save.sync = a.save.sync,
         b.save.pending = a.save.pending, b.save.pendingSync = a.save.pendingSync
  PROVE  /\ Numbered(b) /\ UserEditsGrow(b) /\ MergesHoldTheDocument(b) /\ LockedIsQuiet(b)
         /\ SessionsArePast(b) /\ CurrentIsBound(b) /\ SlotIsHeld(b) /\ Marked(b)
         /\ BusyEnds(a) => BusyEnds(b)
  <1>1. \A session : IsCurrent(b, session) <=> IsCurrent(a, session)
    BY DEF SameSession, IsCurrent, SyncSession, InMemory
  <1>2. InMemory(b) <=> InMemory(a)
    BY DEF SameSession, InMemory
  <1>3. Numbered(b) /\ Marked(b)
    BY DEF Core, Numbered, Marked, SameMarks, SameStatus
  <1>4. UserEditsGrow(b)
    BY DEF Core, UserEditsGrow, SameSession, SameDocument
  <1>5. MergesHoldTheDocument(b)
    BY <1>1 DEF Core, MergesHoldTheDocument, SameDocument, SameStatus, SameMarks
  <1>6. LockedIsQuiet(b)
    BY <1>2 DEF Core, LockedIsQuiet, SameBinding, SameSession, SameStatus
  <1>7. SessionsArePast(b)
    BY DEF Core, SessionsArePast, Dated, SameMarks, SameSession, SameStatus
  <1>8. CurrentIsBound(b)
    BY <1>1 DEF Core, CurrentIsBound, OfTheBinding, SameMarks, SameBinding, SameStatus
  <1>9. SlotIsHeld(b)
    BY <1>1 DEF Core, SlotIsHeld, SameMarks
  <1>10. WillSync(a) => WillSync(b)
    BY <1>1 DEF WillSync, SameStatus, SameMarks
  <1>11. WillRestore(a) => WillRestore(b)
    BY <1>1 DEF WillRestore, SameMarks
  <1> QED
    BY <1>3, <1>4, <1>5, <1>6, <1>7, <1>8, <1>9, <1>10, <1>11 DEF BusyEnds, SameStatus

\* A session that goes on keeps its document.
KeepsDoc(a, b) == InMemory(b) /\ b.sess = a.sess => a.doc \subseteq b.doc

LEMMA FailSaveKeeps ==
  ASSUME EngineInv, FailSave
  PROVE  EngineInv' /\ KeepsDoc(app, app')
  <1> DEFINE Apps == AppsOf(Settled, OurBytes, TrueBindings, TrueCopies)
             b == Resulted(app, "failed", app.save.rev)
  <1>p. /\ app.save # None /\ saveFailed' = TRUE /\ UNCHANGED World
        /\ app' = [app EXCEPT !.save = [@ EXCEPT !.result = "failed"]]
    BY DEF FailSave, SaveFails
  <1>k. /\ app \in Apps /\ Core(app) /\ SavesAreTrue(app)
        /\ FilesAreSettled /\ Over(Settled, OurBytes, TrueBindings, TrueCopies)
    BY Known
  <1>s. app.save \in SavesOf(Settled)
    BY <1>k, <1>p DEF AppsOf
  <1>1. app' = b
    <2>1. [app.save EXCEPT !.result = "failed"]
            = [app.save EXCEPT !.result = "failed", !.rev = app.save.rev]
      BY <1>s DEF SavesOf
    <2> QED
      BY <1>p, <2>1 DEF Resulted
  <1>2. "failed" \in {"running", "written", "undurable", "failed"} /\ app.save.rev \in Nat
    BY <1>s DEF SavesOf
  <1>3. /\ b \in Apps
        /\ SameSession(app, b) /\ SameDocument(app, b) /\ SameBinding(app, b) /\ SameStatus(app, b)
        /\ SameMarks(app, b) /\ b.save # None
        /\ b.save.edits = app.save.edits /\ b.save.merge = app.save.merge
        /\ b.save.sync = app.save.sync /\ b.save.pending = app.save.pending
        /\ b.save.pendingSync = app.save.pendingSync
        /\ b.save.result = "failed"
    BY <1>2, <1>k, <1>p, ResultedFields
  <1> HIDE DEF b
  <1>4. /\ Numbered(b) /\ UserEditsGrow(b) /\ MergesHoldTheDocument(b) /\ LockedIsQuiet(b)
        /\ SessionsArePast(b) /\ CurrentIsBound(b) /\ SlotIsHeld(b) /\ Marked(b)
    BY <1>3, <1>k, <1>p, ResultedCore
  <1>5. SavesAreTrue(b)
    BY <1>3, <1>k, <1>p DEF SavesAreTrue
  <1>6. Settled' = Settled
    BY <1>p DEF World, Settled
  <1>7. OurBytes' = OurBytes
    BY <1>p, <1>6 DEF World, OurBytes
  <1>8. TrueBindings' = TrueBindings
    BY <1>p DEF World, TrueBindings, Covers
  <1>9. TrueCopies' = TrueCopies
    BY <1>p, <1>6 DEF World, TrueCopies
  <1>10. HeldIsTrue'
    BY <1>1, <1>3, <1>6, <1>7, <1>8, <1>9 DEF HeldIsTrue
  <1>11. FilesAreSettled'
    BY <1>6, <1>k, <1>p DEF FilesAreSettled, World
  <1>12. UserEditsGrow(app)' /\ SavesAreTrue(app)'
    BY <1>1, <1>4, <1>5, <1>p DEF UserEditsGrow, SavesAreTrue, World
  <1>13. Core(app)'
    BY <1>1, <1>4, <1>12, CoreNext
  <1>14. EngineInv'
    BY <1>10, <1>11, <1>13, <1>p DEF EngineInv, FailuresAreKnown
  <1>15. KeepsDoc(app, app')
    BY <1>1, <1>3 DEF KeepsDoc, SameDocument
  <1> QED
    BY <1>14, <1>15

\* The file is replaced by what the save holds, under a number nothing has.
LEMMA FileChanges ==
  ASSUME EngineInv, NEW edits \in Settled, file' = Edited(edits, NewRev),
         UNCHANGED <<remotes, made, asked>>, file.edits \cap UserEdits \subseteq edits
  PROVE  /\ FilesAreSettled' /\ Over(Settled', OurBytes', TrueBindings', TrueCopies')
         /\ app \in AppsOf(Settled', OurBytes', TrueBindings', TrueCopies')
         /\ NewRev \in Nat /\ file'.edits = edits /\ file'.rev = NewRev
  <1> DEFINE B == {b \in OurBytes : b.rev # NewRev}
             G == {g \in TrueBindings : g.uploaded # NewRev}
  <1>k. /\ HeldIsTrue /\ FilesAreSettled /\ Numbered(app)
    BY Known
  <1>r. NewRev \in Nat
    BY <1>k, FreshRev
  <1>f. file'.edits = edits /\ file'.rev = NewRev
    BY DEF Edited
  <1>1. Settled' = Settled
    BY DEF Settled
  <1>2. file' \in [edits : Settled, rev : Nat]
    BY <1>r DEF Edited
  <1>3. FilesAreSettled'
    <2>1. \A r \in Remotes : remotes[r].edits \cap UserEdits \subseteq edits
      BY <1>k DEF FilesAreSettled
    <2> QED
      BY <1>1, <1>2, <1>f, <1>k, <2>1 DEF FilesAreSettled
  <1>4. Over(Settled', OurBytes', TrueBindings', TrueCopies')
    BY <1>3, SetsAreOverNext
  <1>5. B \subseteq OurBytes'
    <2> SUFFICES ASSUME NEW b \in B PROVE b \in OurBytes'
      OBVIOUS
    <2>1. /\ b \in [edits : Settled, rev : Nat] /\ b.edits \cap UserEdits \subseteq file.edits
          /\ b.rev # NewRev
      BY DEF OurBytes
    <2>2. b.edits \cap UserEdits \subseteq file'.edits
      BY <1>f, <2>1
    <2> HIDE DEF B
    <2> QED
      BY <1>1, <1>f, <2>1, <2>2 DEF OurBytes
  <1>6. G \subseteq TrueBindings'
    <2> SUFFICES ASSUME NEW g \in G PROVE g \in TrueBindings'
      OBVIOUS
    <2>1. /\ g \in [remote : Remotes, etag : Etags, uploaded : Nat] /\ g.etag.remote = g.remote
          /\ g.uploaded # NewRev
      BY DEF TrueBindings
    <2> HIDE DEF G
    <2> QED
      BY <1>f, <2>1 DEF TrueBindings, Covers
  <1>7. TrueCopies \subseteq TrueCopies'
    <2> SUFFICES ASSUME NEW c \in TrueCopies PROVE c \in TrueCopies'
      OBVIOUS
    <2>1. /\ c \in [edits : Settled, etag : Etags] /\ c.edits \cap UserEdits \subseteq file.edits
          /\ c.etag = remotes[c.etag.remote].etag => c.edits = remotes[c.etag.remote].edits
      BY DEF TrueCopies
    <2>2. c.edits \cap UserEdits \subseteq file'.edits
      BY <1>f, <2>1
    <2> QED
      BY <1>1, <2>1, <2>2 DEF TrueCopies
  <1>8. app \in AppsOf(Settled, B, G, TrueCopies)
    BY <1>k, HeldAvoidsRev
  <1> HIDE DEF B, G
  <1>9. AppsOf(Settled, B, G, TrueCopies)
          \subseteq AppsOf(Settled', OurBytes', TrueBindings', TrueCopies')
    BY <1>1, <1>4, <1>5, <1>6, <1>7, LargerSets
  <1> QED
    BY <1>3, <1>4, <1>8, <1>9, <1>f, <1>r

LEMMA WriteSaveKeeps ==
  ASSUME EngineInv, WriteSave
  PROVE  EngineInv' /\ KeepsDoc(app, app')
  <1> DEFINE Apps == AppsOf(Settled', OurBytes', TrueBindings', TrueCopies')
  <1>p. /\ app.save # None /\ file' = Edited(app.save.edits, NewRev)
        /\ UNCHANGED <<remotes, made, asked>>
    BY DEF WriteSave
  <1>k. /\ app \in AppsOf(Settled, OurBytes, TrueBindings, TrueCopies) /\ Core(app)
        /\ SavesAreTrue(app) /\ UserEditsGrow(app) /\ (saveFailed \/ BusyEnds(app))
    BY Known DEF EngineInv
  <1>s. app.save \in SavesOf(Settled) /\ app.save.edits \in Settled
    BY <1>k, <1>p DEF AppsOf, SavesOf
  <1>1. PICK result \in {"written", "undurable"} :
          /\ app' = Resulted(app, result, NewRev)
          /\ saveFailed => saveFailed'
          /\ result = "undurable" => saveFailed'
    <2>1. CASE UNCHANGED Bounds /\ app' = [app EXCEPT !.save = [@ EXCEPT !.result = "written", !.rev = NewRev]]
      BY <2>1 DEF Resulted, Bounds
    <2>2. CASE SaveFails /\ app' = [app EXCEPT !.save = [@ EXCEPT !.result = "undurable", !.rev = NewRev]]
      BY <2>2 DEF Resulted, SaveFails
    <2> QED
      BY <2>1, <2>2 DEF WriteSave
  <1>2. file.edits \cap UserEdits \subseteq app.save.edits
    BY <1>k, <1>p DEF UserEditsGrow
  <1>3. /\ FilesAreSettled' /\ Over(Settled', OurBytes', TrueBindings', TrueCopies')
        /\ app \in Apps /\ NewRev \in Nat /\ file'.edits = app.save.edits /\ file'.rev = NewRev
    BY <1>2, <1>p, <1>s, FileChanges
  <1> DEFINE b == Resulted(app, result, NewRev)
  <1>4. /\ b \in Apps
        /\ SameSession(app, b) /\ SameDocument(app, b) /\ SameBinding(app, b) /\ SameStatus(app, b)
        /\ SameMarks(app, b) /\ b.save # None
        /\ b.save.edits = app.save.edits /\ b.save.merge = app.save.merge
        /\ b.save.sync = app.save.sync /\ b.save.pending = app.save.pending
        /\ b.save.pendingSync = app.save.pendingSync
        /\ b.save.result = result /\ b.save.rev = NewRev
    <2>1. result \in {"running", "written", "undurable", "failed"}
      OBVIOUS
    <2> HIDE DEF b
    <2> DEFINE D == Settled'
               B == OurBytes'
               G == TrueBindings'
               C == TrueCopies'
    <2>2. Over(D, B, G, C) /\ app \in AppsOf(D, B, G, C)
      BY <1>3
    <2> HIDE DEF D, B, G, C
    <2>3. /\ b \in AppsOf(D, B, G, C)
          /\ SameSession(app, b) /\ SameDocument(app, b) /\ SameBinding(app, b) /\ SameStatus(app, b)
          /\ SameMarks(app, b) /\ b.save # None
          /\ b.save.edits = app.save.edits /\ b.save.merge = app.save.merge
          /\ b.save.sync = app.save.sync /\ b.save.pending = app.save.pending
          /\ b.save.pendingSync = app.save.pendingSync
          /\ b.save.result = result /\ b.save.rev = NewRev
      BY <1>3, <1>p, <2>1, <2>2, ResultedFields DEF b
    <2> QED
      BY <2>3 DEF D, B, G, C
  <1>5. app' = b
    BY <1>1
  <1> HIDE DEF b
  <1>6. /\ Numbered(b) /\ UserEditsGrow(b) /\ MergesHoldTheDocument(b) /\ LockedIsQuiet(b)
        /\ SessionsArePast(b) /\ CurrentIsBound(b) /\ SlotIsHeld(b) /\ Marked(b)
        /\ (BusyEnds(app) => BusyEnds(b))
    BY <1>4, <1>k, <1>p, ResultedCore
  <1>7. UserEditsGrow(app)'
    <2>1. /\ app'.place # "locked" => app'.save.edits \cap UserEdits \subseteq app'.doc
          /\ app'.save # None /\ app'.save.edits \cap UserEdits \subseteq app'.doc
          /\ file'.edits = app'.save.edits
      BY <1>3, <1>4, <1>5, <1>6 DEF UserEditsGrow
    <2> QED
      BY <2>1 DEF UserEditsGrow
  <1>8. SavesAreTrue(app)'
    <2>1. /\ app'.save.edits = file'.edits /\ app'.save.rev = file'.rev
          /\ app'.save.merge = app.save.merge /\ app'.save.edits = app.save.edits
          /\ remotes' = remotes
      BY <1>3, <1>4, <1>5, <1>p
    <2> QED
      BY <1>k, <1>p, <2>1 DEF SavesAreTrue
  <1>9. Core(app)'
    BY <1>5, <1>6, <1>7, <1>8, CoreNext
  <1>10. HeldIsTrue'
    BY <1>4, <1>5 DEF HeldIsTrue
  <1>11. FailuresAreKnown'
    BY <1>1, <1>4, <1>5 DEF FailuresAreKnown
  <1>12. (saveFailed \/ BusyEnds(app))'
    BY <1>1, <1>5, <1>6, <1>k, BusyNext
  <1>13. EngineInv'
    BY <1>3, <1>9, <1>10, <1>11, <1>12 DEF EngineInv
  <1>14. KeepsDoc(app, app')
    BY <1>4, <1>5 DEF KeepsDoc, SameDocument
  <1> QED
    BY <1>13, <1>14

-----------------------------------------------------------------------------
(* The invariant. *)

LEMMA InitHolds ==
  ASSUME Init
  PROVE  EngineInv
  <1> DEFINE Apps == AppsOf(Settled, OurBytes, TrueBindings, TrueCopies)
  <1>1. PICK start \in Starts :
          LET locked == start = "locked"
              known == IF locked THEN DeviceEdits ELSE {}
          IN  /\ made = known
              /\ file = Edited(known, 0)
              /\ remotes = [r \in Remotes |-> [edits |-> IF r = 1 THEN known ELSE {},
                                              etag |-> Etag(r, 0)]]
              /\ app = [place |-> IF locked THEN "locked" ELSE "active",
                        sess |-> IF locked THEN 0 ELSE 1,
                        binding |-> IF locked THEN None ELSE Bind(1, 0, 0),
                        status |-> IF locked THEN "Disconnected" ELSE "Idle",
                        overlay |-> "none", doc |-> {}, gen |-> 0, unsaved |-> FALSE,
                        save |-> None, cfg |-> Bind(1, 0, 0), bindGen |-> 0,
                        conflict |-> None, deferred |-> None, backoff |-> FALSE,
                        token |-> None, slot |-> None, awaiting |-> None,
                        auto |-> FALSE, tasks |-> {}]
    BY DEF Init
  <1> DEFINE locked == start = "locked"
             known == IF locked THEN DeviceEdits ELSE {}
             cfg == Bind(1, 0, 0)
             place == IF locked THEN "locked" ELSE "active"
             sess == IF locked THEN 0 ELSE 1
             binding == IF locked THEN None ELSE cfg
             status == IF locked THEN "Disconnected" ELSE "Idle"
  <1>2. known \subseteq AllEdits /\ known \cap UserEdits = {}
    BY ClashesAreMadeApart DEF AllEdits
  <1>3. /\ made = known /\ file.edits = known /\ file.rev = 0 /\ file = Edited(known, 0)
        /\ \A r \in Remotes : /\ remotes[r].edits \subseteq known /\ remotes[r].etag = Etag(r, 0)
        /\ remotes[1].edits = known
    BY <1>1, RemotesAreCounted DEF Edited
  <1>4. {} \in Settled /\ known \in Settled
    <2>1. \A c \in Clashes : c[1] \in UserEdits
      BY ClashesAreMadeApart
    <2> HIDE DEF known
    <2> QED
      BY <1>2, <1>3, <2>1 DEF Settled
  <1>5. \A r \in Remotes : Etag(r, 0) \in Etags /\ Etag(r, 0).remote = r
    BY DEF Etag, Etags
  <1>6. FilesAreSettled
    <2> DEFINE copy(r) == [edits |-> IF r = 1 THEN known ELSE {}, etag |-> Etag(r, 0)]
    <2>1. remotes = [r \in Remotes |-> copy(r)]
      BY <1>1
    <2>2. \A r \in Remotes : copy(r) \in [edits : Settled, etag : Etags]
      <3> HIDE DEF known
      <3> QED
        BY <1>4, <1>5
    <2> HIDE DEF copy
    <2>3. remotes \in [Remotes -> [edits : Settled, etag : Etags]]
      BY <2>1, <2>2
    <2> HIDE DEF known
    <2>4. file \in [edits : Settled, rev : Nat]
      BY <1>3, <1>4 DEF Edited
    <2> QED
      BY <1>2, <1>3, <1>5, <2>3, <2>4 DEF FilesAreSettled
  <1>7. cfg \in TrueBindings /\ cfg.remote = 1
    <2>1. cfg \in [remote : Remotes, etag : Etags, uploaded : Nat]
      BY <1>5, RemotesAreCounted DEF Bind
    <2>2. cfg.remote = 1 /\ cfg.etag = Etag(1, 0) /\ cfg.uploaded = 0 /\ cfg.etag.remote = 1
      BY <1>5, RemotesAreCounted DEF Bind
    <2> HIDE DEF cfg, known
    <2> QED
      BY <1>3, <2>1, <2>2 DEF TrueBindings, Covers
  <1>8. /\ app = [place |-> place, sess |-> sess, binding |-> binding, status |-> status,
                  overlay |-> "none", doc |-> {}, gen |-> 0, unsaved |-> FALSE, save |-> None,
                  cfg |-> cfg, bindGen |-> 0, conflict |-> None, deferred |-> None,
                  backoff |-> FALSE, token |-> None, slot |-> None, awaiting |-> None,
                  auto |-> FALSE, tasks |-> {}]
    BY <1>1
  <1>9. /\ place \in {"locked", "active"} /\ sess \in Nat /\ binding \in TrueBindings \cup {None}
        /\ status \in {"Disconnected", "Idle"}
        /\ place = "locked" => binding = None /\ status = "Disconnected"
        /\ binding # None => binding = cfg
    BY <1>7
  <1> HIDE DEF place, sess, binding, status, cfg, known
  <1>10. app \in Apps
    <2>1. status \in Statuses
      BY <1>9 DEF Statuses, Resting
    <2>2. {} \in SUBSET TasksIn(Settled, OurBytes, TrueBindings, TrueCopies)
      OBVIOUS
    <2> QED
      BY <1>4, <1>7, <1>8, <1>9, <2>1, <2>2 DEF AppsOf
  <1>11. /\ app.place = place /\ app.save = None /\ app.conflict = None /\ app.slot = None
         /\ app.awaiting = None /\ app.auto = FALSE /\ app.token = None /\ app.tasks = {}
         /\ app.binding = binding /\ app.cfg = cfg /\ app.status = status /\ app.doc = {}
    BY <1>8
  <1>12. Numbered(app)
    BY <1>11, FS_EmptySet DEF Numbered
  <1>13. UserEditsGrow(app) /\ MergesHoldTheDocument(app) /\ SavesAreTrue(app)
    BY <1>2, <1>3, <1>11 DEF UserEditsGrow, MergesHoldTheDocument, SavesAreTrue
  <1>14. LockedIsQuiet(app)
    BY <1>9, <1>11 DEF LockedIsQuiet, InMemory
  <1>15. SessionsArePast(app)
    BY <1>11 DEF SessionsArePast
  <1>16. CurrentIsBound(app)
    BY <1>7, <1>9, <1>11, NoneIsNothing DEF CurrentIsBound
  <1>17. SlotIsHeld(app) /\ Marked(app) /\ BusyEnds(app)
    BY <1>9, <1>11 DEF SlotIsHeld, Marked, BusyEnds
  <1> QED
    BY <1>6, <1>10, <1>11, <1>12, <1>13, <1>14, <1>15, <1>16, <1>17
    DEF EngineInv, HeldIsTrue, Core, FailuresAreKnown

LEMMA AdvancesBoth ==
  ASSUME EngineInv, UNCHANGED <<World, saveFailed>>, Advances
  PROVE  EngineInv' /\ KeepsDoc(app, app')
  <1>1. EngineInv'
    BY AdvancesKeeps
  <1>2. KeepsDoc(app, app')
    BY DEF Advances, Follows, KeepsDoc
  <1> QED
    BY <1>1, <1>2

LEMMA UserKeeps ==
  ASSUME EngineInv, User
  PROVE  EngineInv' /\ KeepsDoc(app, app')
  <1>1. ASSUME NEW e \in UserEdits, NEW sync \in BOOLEAN, Edit(e, sync)
        PROVE  EngineInv' /\ KeepsDoc(app, app')
    BY <1>1, EditKeeps DEF Follows, KeepsDoc
  <1>2. CASE SyncNow
    BY <1>2, SyncNowAdvances, AdvancesBoth DEF SyncNow, World
  <1>3. CASE OpenOverlay
    BY <1>3, ScreenAdvances, AdvancesBoth DEF OpenOverlay, World, Bounds
  <1>4. CASE CloseOverlay
    BY <1>4, ScreenAdvances, AdvancesBoth DEF CloseOverlay, World, Bounds
  <1>5. CASE Resolve
    BY <1>5, ResolveKeeps DEF Follows, KeepsDoc
  <1>6. CASE ResolveBlocked
    BY <1>6, ResolveBlockedAdvances, AdvancesBoth DEF ResolveBlocked, World
  <1>7. CASE Park
    BY <1>7, ScreenAdvances, AdvancesBoth DEF Park, World, Bounds
  <1>8. CASE Unpark
    BY <1>8, ScreenAdvances, AdvancesBoth DEF Unpark, World, Bounds
  <1>9. CASE Lock
    BY <1>9, LockAdvances, AdvancesBoth DEF Lock, World, Bounds
  <1>10. CASE RetrySave
    BY <1>10, RetrySaveAdvances, AdvancesBoth DEF RetrySave, World, Bounds
  <1>11. CASE Unlock
    BY <1>11, UnlockAdvances, AdvancesBoth DEF Unlock, World
  <1>12. CASE RetryRestore
    BY <1>12, RetryRestoreAdvances, AdvancesBoth DEF RetryRestore, World, Bounds
  <1>13. CASE Disconnect
    BY <1>13, DisconnectAdvances, AdvancesBoth DEF Disconnect, World, Bounds
  <1>14. ASSUME NEW r \in Remotes, StartPublish(r)
         PROVE  EngineInv' /\ KeepsDoc(app, app')
    BY <1>14, StartPublishAdvances, AdvancesBoth DEF StartPublish, World
  <1> QED
    BY <1>1, <1>2, <1>3, <1>4, <1>5, <1>6, <1>7, <1>8, <1>9, <1>10, <1>11, <1>12, <1>13, <1>14
    DEF User

LEMMA WriterKeeps ==
  ASSUME EngineInv, Writer
  PROVE  EngineInv' /\ KeepsDoc(app, app')
  <1>1. CASE WriteSave
    BY <1>1, WriteSaveKeeps
  <1>2. CASE SaveDone
    BY <1>2, SaveDoneAdvances, AdvancesBoth DEF SaveDone, Finished, World, Bounds
  <1>3. CASE MergeWriteFailed
    BY <1>3, MergeWriteFailedAdvances, AdvancesBoth DEF MergeWriteFailed, Finished, World, Bounds
  <1>4. CASE MergeWriteOutdated
    BY <1>4, MergeWriteOutdatedAdvances, AdvancesBoth DEF MergeWriteOutdated, Finished, World, Bounds
  <1>5. CASE MergeInstalled
    BY <1>5, MergeInstalledAdvances, AdvancesBoth DEF MergeInstalled, Finished, World, Bounds
  <1> QED
    BY <1>1, <1>2, <1>3, <1>4, <1>5 DEF Writer

\* The steps of a background task and its callback.
LEMMA TaskKeeps ==
  ASSUME EngineInv, NEW t \in app.tasks,
         \/ PushRead(t) \/ PushSend(t) \/ PushDownload(t) \/ PushDone(t) \/ ResolveDone(t)
         \/ PullCheck(t) \/ PullDownload(t) \/ PullDone(t) \/ DecryptDone(t, FALSE)
         \/ RestoreRead(t) \/ RestoreDone(t) \/ PublishRead(t) \/ PublishWrite(t)
         \/ PublishDone(t)
  PROVE  EngineInv' /\ KeepsDoc(app, app')
  <1>1. CASE PushRead(t)
    BY <1>1, PushReadAdvances, AdvancesBoth DEF PushRead, World, Bounds
  <1>2. CASE PushSend(t)
    BY <1>2, PushSendKeeps DEF Follows, KeepsDoc
  <1>3. CASE PushDownload(t)
    BY <1>3, PushDownloadAdvances, AdvancesBoth DEF PushDownload, World, Bounds
  <1>4. CASE PushDone(t)
    BY <1>4, PushDoneAdvances, AdvancesBoth DEF PushDone, World, Bounds
  <1>5. CASE ResolveDone(t)
    BY <1>5, ResolveDoneAdvances, AdvancesBoth DEF ResolveDone, World, Bounds
  <1>6. CASE PullCheck(t)
    BY <1>6, PullCheckAdvances, AdvancesBoth DEF PullCheck, World, Bounds
  <1>7. CASE PullDownload(t)
    BY <1>7, PullDownloadAdvances, AdvancesBoth DEF PullDownload, World, Bounds
  <1>8. CASE PullDone(t)
    BY <1>8, PullDoneAdvances, AdvancesBoth DEF PullDone, World, Bounds
  <1>9. CASE DecryptDone(t, FALSE)
    <2> DEFINE readable == FALSE
    <2>1. readable \in BOOLEAN /\ DecryptDone(t, readable)
      BY <1>9
    <2>2. UNCHANGED <<World, saveFailed>>
      BY <1>9 DEF DecryptDone, World
    <2> HIDE DEF readable
    <2> QED
      BY <2>1, <2>2, DecryptDoneAdvances, AdvancesBoth
  <1>10. CASE RestoreRead(t)
    BY <1>10, RestoreReadAdvances, AdvancesBoth DEF RestoreRead, World, Bounds
  <1>11. CASE RestoreDone(t)
    BY <1>11, RestoreDoneAdvances, AdvancesBoth DEF RestoreDone, World, Bounds
  <1>12. CASE PublishRead(t)
    BY <1>12, PublishReadAdvances, AdvancesBoth DEF PublishRead, World, Bounds
  <1>13. CASE PublishWrite(t)
    BY <1>13, PublishWriteKeeps DEF Follows, KeepsDoc
  <1>14. CASE PublishDone(t)
    BY <1>14, PublishDoneAdvances, AdvancesBoth DEF PublishDone, World, Bounds
  <1> QED
    BY <1>1, <1>2, <1>3, <1>4, <1>5, <1>6, <1>7, <1>8, <1>9, <1>10, <1>11, <1>12, <1>13, <1>14

LEMMA FaultsKeep ==
  ASSUME EngineInv, Faults
  PROVE  EngineInv' /\ KeepsDoc(app, app')
  <1>1. CASE FailSave
    BY <1>1, FailSaveKeeps
  <1>2. CASE Crash
    BY <1>2, CrashAdvances, AdvancesBoth DEF Crash, World, Bounds
  <1>3. ASSUME NEW t \in app.tasks, NEW why \in {"network", "throttled", "grant"}, PushFails(t, why)
        PROVE  EngineInv' /\ KeepsDoc(app, app')
    <2>1. t.kind = "push" /\ Answered(t, [as |-> why]) /\ UNCHANGED <<World, saveFailed>>
      BY <1>3 DEF PushFails, World
    <2> QED
      BY <2>1, PushFailsAdvances, AdvancesBoth
  <1>4. ASSUME NEW t \in app.tasks, NEW why \in {"network", "throttled", "grant"}, PullFails(t, why)
        PROVE  EngineInv' /\ KeepsDoc(app, app')
    <2>1. /\ t.kind = "pull" /\ Answered(t, [as |-> why]) /\ UNCHANGED <<World, saveFailed>>
          /\ why \in {"network", "grant", "same"}
      BY <1>4 DEF PullFails, World
    <2> QED
      BY <2>1, PullEnds, AdvancesBoth
  <1>5. ASSUME NEW t \in app.tasks, NEW why \in {"network", "throttled", "grant"}, RestoreFails(t, why)
        PROVE  EngineInv' /\ KeepsDoc(app, app')
    <2>1. UNCHANGED <<World, saveFailed>>
      BY <1>5 DEF RestoreFails, World
    <2> QED
      BY <1>5, <2>1, RestoreFailsAdvances, AdvancesBoth
  <1>6. ASSUME NEW t \in app.tasks, DecryptDone(t, TRUE)
        PROVE  EngineInv' /\ KeepsDoc(app, app')
    <2> DEFINE unreadable == TRUE
    <2>1. unreadable \in BOOLEAN /\ DecryptDone(t, unreadable)
      BY <1>6
    <2>2. UNCHANGED <<World, saveFailed>>
      BY <1>6 DEF DecryptDone, World
    <2> HIDE DEF unreadable
    <2> QED
      BY <2>1, <2>2, DecryptDoneAdvances, AdvancesBoth
  <1> QED
    BY <1>1, <1>2, <1>3, <1>4, <1>5, <1>6 DEF Faults

LEMMA StillHolds ==
  ASSUME EngineInv, UNCHANGED vars
  PROVE  EngineInv' /\ KeepsDoc(app, app')
  <1>1. UNCHANGED <<World, saveFailed>> /\ app' = app
    BY DEF vars, World
  <1>2. Advances
    BY <1>1 DEF Advances, Holds, Follows, NoNewResult, EngineInv, HeldIsTrue
  <1> QED
    BY <1>1, <1>2, AdvancesBoth

LEMMA StepKeeps ==
  ASSUME EngineInv, [Next]_vars
  PROVE  EngineInv' /\ KeepsDoc(app, app')
  <1>1. CASE User
    BY <1>1, UserKeeps
  <1>2. CASE Others
    BY <1>2, DeviceEditKeeps DEF Others, Follows, KeepsDoc
  <1>3. CASE Writer
    BY <1>3, WriterKeeps
  <1>4. CASE Pushing
    BY <1>4, TaskKeeps DEF Pushing
  <1>5. CASE Pulling
    BY <1>5, TaskKeeps DEF Pulling
  <1>6. CASE Merging
    BY <1>6, TaskKeeps DEF Merging
  <1>7. CASE Binding
    BY <1>7, TaskKeeps DEF Binding
  <1>8. CASE Faults
    BY <1>8, FaultsKeep
  <1>9. CASE Tick
    BY <1>9, TickAdvances, AdvancesBoth DEF Tick, World, Bounds
  <1>10. CASE WindowPasses
    BY <1>10, ScreenAdvances, AdvancesBoth DEF WindowPasses, World, Bounds
  <1>11. CASE UNCHANGED vars
    BY <1>11, StillHolds
  <1> QED
    BY <1>1, <1>2, <1>3, <1>4, <1>5, <1>6, <1>7, <1>8, <1>9, <1>10, <1>11 DEF Next

LEMMA TypesFollow ==
  ASSUME EngineInv
  PROVE  TypeOK
  <1>1. /\ app \in AppsOf(Settled, OurBytes, TrueBindings, TrueCopies) /\ FilesAreSettled
        /\ Numbered(app)
    BY Known
  <1>2. /\ app.place \in {"locked", "active", "parked", "deferred"} /\ app.status \in Statuses
        /\ app.doc \in Settled
    BY <1>1 DEF AppsOf
  <1>3. file.edits \in Settled
    BY <1>1 DEF FilesAreSettled
  <1>4. app.doc \subseteq made /\ file.edits \subseteq made
    BY <1>2, <1>3 DEF Settled
  <1>5. \A t \in app.tasks : t.kind \in {"push", "pull", "decrypt", "restore", "publish"}
    <2> TAKE t \in app.tasks
    <2>1. t \in TasksIn(Settled, OurBytes, TrueBindings, TrueCopies)
      BY <1>1 DEF AppsOf
    <2>2. CASE t \in PushesOf(OurBytes, TrueBindings, TrueCopies)
      BY <2>2 DEF PushesOf
    <2>3. CASE t \in PullsOf(TrueCopies)
      BY <2>3 DEF PullsOf
    <2>4. CASE t \in DecryptsOf(Settled, TrueCopies)
      BY <2>4 DEF DecryptsOf
    <2>5. CASE t \in RestoresOf(TrueBindings)
      BY <2>5 DEF RestoresOf
    <2>6. CASE t \in PublishesOf(OurBytes, TrueBindings)
      BY <2>6 DEF PublishesOf
    <2> QED
      BY <2>1, <2>2, <2>3, <2>4, <2>5, <2>6 DEF TasksIn
  <1> QED
    BY <1>1, <1>2, <1>4, <1>5 DEF TypeOK, Numbered

LEMMA BaselineFollows ==
  ASSUME EngineInv
  PROVE  BaselineIsTrue
  <1>1. /\ app.binding \in TrueBindings \cup {None} /\ app.cfg \in TrueBindings \cup {None}
    BY Known DEF AppsOf
  <1>2. QuietMeansEqual
    BY <1>1 DEF QuietMeansEqual, Unsent, TrueBindings, Covers
  <1>3. BaselineIsOurs
    BY <1>1 DEF BaselineIsOurs, TrueBindings
  <1> QED
    BY <1>2, <1>3 DEF BaselineIsTrue

LEMMA ClashesFollow ==
  ASSUME EngineInv
  PROVE  ClashesAreAsked
  <1>1. app.doc \in Settled
    BY Known DEF AppsOf
  <1>2. file.edits \in Settled /\ \A r \in Remotes : remotes[r].edits \in Settled
    BY Known DEF FilesAreSettled
  <1> QED
    BY <1>1, <1>2 DEF ClashesAreAsked, Settled

LEMMA MarksFollow ==
  ASSUME EngineInv
  PROVE  MarksHaveTasks
  BY Known DEF Marked, MarksHaveTasks, Tasks

LEMMA BusyFollows ==
  ASSUME EngineInv
  PROVE  BusyHasAnEnd
  <1>1. saveFailed \/ BusyEnds(app)
    BY DEF EngineInv
  <1>2. ASSUME WillSync(app)
        PROVE  \/ app.save # None
               \/ \E t \in app.tasks : t.kind \in {"push", "decrypt"} /\ IsCurrent(app, t.owner)
               \/ /\ app.slot # None /\ app.slot.pending # None
                  /\ IsCurrent(app, app.slot.pending.session)
                  /\ \E t \in Tasks("push") : t.owner = app.slot.owner
    <2>1. app.slot # None => \E t \in Tasks("push") : t.owner = app.slot.owner
      BY Known DEF Marked, Tasks
    <2> QED
      BY <1>2, <2>1 DEF WillSync
  <1> QED
    BY <1>1, <1>2 DEF BusyHasAnEnd, BusyMeansWork, BusyEnds, WillRestore

-----------------------------------------------------------------------------
(* What keeps the edits of the other devices. *)

\* From a to b over unchanged files: uploads name no revision but those of a and X,
\* publications are those of a, what was firm stays so, and merges hold their copy.
KeepsOthers(a, b, X) ==
  /\ \A E : X \subseteq E /\ UploadsOver(a, E) => UploadsOver(b, E)
  /\ \A t \in b.tasks :
        t.kind = "publish" => \E u \in a.tasks : /\ u.kind = "publish" /\ u.id = t.id
                                                 /\ u.remote = t.remote
                                                 /\ t.phase # "done" => u.phase # "done"
  /\ Firm(a) \subseteq Firm(b)
  /\ MergesHoldTheCopy(a) => MergesHoldTheCopy(b)

LEMMA KeepsOthersTwice ==
  ASSUME NEW a, NEW b, NEW c, NEW X, KeepsOthers(a, b, X), KeepsOthers(b, c, X)
  PROVE  KeepsOthers(a, c, X)
  <1>1. \A E : X \subseteq E /\ UploadsOver(a, E) => UploadsOver(c, E)
    BY DEF KeepsOthers
  <1>2. ASSUME NEW t \in c.tasks, t.kind = "publish"
        PROVE  \E u \in a.tasks : /\ u.kind = "publish" /\ u.id = t.id
                                  /\ u.remote = t.remote
                                  /\ t.phase # "done" => u.phase # "done"
    <2>1. PICK v \in b.tasks : /\ v.kind = "publish" /\ v.id = t.id /\ v.remote = t.remote
                               /\ t.phase # "done" => v.phase # "done"
      BY <1>2 DEF KeepsOthers
    <2>2. PICK u \in a.tasks : /\ u.kind = "publish" /\ u.id = v.id /\ u.remote = v.remote
                               /\ v.phase # "done" => u.phase # "done"
      BY <2>1 DEF KeepsOthers
    <2> QED
      BY <2>1, <2>2
  <1>3. Firm(a) \subseteq Firm(c) /\ (MergesHoldTheCopy(a) => MergesHoldTheCopy(c))
    BY DEF KeepsOthers
  <1> QED
    BY <1>1, <1>2, <1>3 DEF KeepsOthers

\* The same place, document and save.
LEMMA SameIsFirm ==
  ASSUME NEW a, NEW b, b.place = a.place, b.doc = a.doc, b.save = a.save
  PROVE  Firm(a) \subseteq Firm(b) /\ (MergesHoldTheCopy(a) => MergesHoldTheCopy(b))
  BY DEF Firm, MergesHoldTheCopy

\* The same binding, and at most one task more, which uploads over what a does.
LEMMA OneTaskMore ==
  ASSUME NEW a, NEW b, NEW X, NEW t,
         SameSession(a, b), SameDocument(a, b), SameSave(a, b), SameBinding(a, b),
         b.tasks \subseteq a.tasks \cup {t}, t.kind # "publish",
         \A E : X \subseteq E /\ UploadsOver(a, E) => TaskOver(t, E)
  PROVE  KeepsOthers(a, b, X)
  <1>1. ASSUME NEW E, X \subseteq E, UploadsOver(a, E) PROVE UploadsOver(b, E)
    <2>1. \A u \in b.tasks : TaskOver(u, E)
      BY <1>1 DEF UploadsOver
    <2> QED
      BY <1>1, <2>1 DEF UploadsOver, SameBinding
  <1>2. Firm(a) \subseteq Firm(b) /\ (MergesHoldTheCopy(a) => MergesHoldTheCopy(b))
    BY SameIsFirm DEF SameSession, SameDocument, SameSave
  <1> QED
    BY <1>1, <1>2 DEF KeepsOthers

LEMMA NoTaskMore ==
  ASSUME NEW a, NEW b, NEW X,
         SameSession(a, b), SameDocument(a, b), SameSave(a, b), SameBinding(a, b),
         b.tasks \subseteq a.tasks
  PROVE  KeepsOthers(a, b, X)
  <1>1. ASSUME NEW E, X \subseteq E, UploadsOver(a, E) PROVE UploadsOver(b, E)
    BY <1>1 DEF UploadsOver, SameBinding
  <1>2. Firm(a) \subseteq Firm(b) /\ (MergesHoldTheCopy(a) => MergesHoldTheCopy(b))
    BY SameIsFirm DEF SameSession, SameDocument, SameSave
  <1> QED
    BY <1>1, <1>2 DEF KeepsOthers

LEMMA SpawnedFields ==
  ASSUME NEW D, NEW B, NEW G, NEW C, NEW a \in AppsOf(D, B, G, C), NEW t
  PROVE  LET b == Spawn(a, t)
         IN  /\ SameSession(a, b) /\ SameDocument(a, b) /\ SameSave(a, b) /\ SameBinding(a, b)
             /\ b.tasks = a.tasks \cup {t}
  BY DEF AppsOf, Spawn, SameSession, SameDocument, SameSave, SameBinding

LEMMA RouteKept ==
  ASSUME NEW D, NEW B, NEW G, NEW C, NEW a \in AppsOf(D, B, G, C), NEW s \in Statuses, NEW X
  PROVE  KeepsOthers(a, Route(a, s), X)
  <1> DEFINE b == Route(a, s)
  <1>1. /\ SameSession(a, b) /\ SameDocument(a, b) /\ SameSave(a, b) /\ SameBinding(a, b)
        /\ SameMarks(a, b)
    BY RouteFields
  <1> HIDE DEF b
  <1>2. KeepsOthers(a, b, X)
    BY <1>1, NoTaskMore DEF SameMarks
  <1> QED
    BY <1>2 DEF b

LEMMA RouteForKept ==
  ASSUME NEW D, NEW B, NEW G, NEW C, NEW a \in AppsOf(D, B, G, C), NEW session,
         NEW s \in Statuses, NEW X
  PROVE  KeepsOthers(a, RouteFor(a, session, s), X)
  <1>1. KeepsOthers(a, a, X)
    BY NoTaskMore DEF SameSession, SameDocument, SameSave, SameBinding
  <1> QED
    BY <1>1, RouteKept DEF RouteFor

LEMMA NoteFailureKept ==
  ASSUME NEW D, NEW B, NEW G, NEW C, NEW a \in AppsOf(D, B, G, C), NEW why, NEW X
  PROVE  KeepsOthers(a, NoteFailure(a, why), X)
  <1>s. "Failed" \in Statuses /\ "Reconnect" \in Statuses
    BY DEF Statuses
  <1>1. CASE why = "throttled"
    <2> DEFINE yes == TRUE
               w == [a EXCEPT !.backoff = yes]
    <2>1. NoteFailure(a, why) = Route(w, "Failed")
      BY <1>1 DEF NoteFailure
    <2>2. yes \in BOOLEAN
      OBVIOUS
    <2> HIDE DEF yes
    <2>3. w \in AppsOf(D, B, G, C)
      BY <2>2, Setters
    <2>4. /\ SameSession(a, w) /\ SameDocument(a, w) /\ SameSave(a, w) /\ SameBinding(a, w)
          /\ w.tasks = a.tasks
      BY DEF AppsOf, SameSession, SameDocument, SameSave, SameBinding
    <2> HIDE DEF w
    <2>5. KeepsOthers(a, w, X) /\ KeepsOthers(w, Route(w, "Failed"), X)
      BY <1>s, <2>3, <2>4, NoTaskMore, RouteKept
    <2> QED
      BY <2>1, <2>5, KeepsOthersTwice
  <1>2. CASE why # "throttled" /\ why = "grant"
    BY <1>s, <1>2, RouteKept DEF NoteFailure
  <1>3. CASE why # "throttled" /\ why # "grant"
    BY <1>s, <1>3, RouteKept DEF NoteFailure
  <1> QED
    BY <1>1, <1>2, <1>3

LEMMA TryRestoreKept ==
  ASSUME NEW D, NEW B, NEW G, NEW C, NEW a \in AppsOf(D, B, G, C), NEW X
  PROVE  KeepsOthers(a, TryRestore(a), X)
  <1>1. CASE a.binding # None \/ a.cfg = None
    <2>1. KeepsOthers(a, a, X)
      BY NoTaskMore DEF SameSession, SameDocument, SameSave, SameBinding
    <2> QED
      BY <1>1, <2>1 DEF TryRestore
  <1>2. CASE ~(a.binding # None \/ a.cfg = None)
    <2> DEFINE r == Route(a, "Restoring")
               t == [kind |-> "restore", id |-> NewId(a), owner |-> SyncSession(a),
                     phase |-> "read", answer |-> None]
               b == Spawn(r, t)
    <2>1. TryRestore(a) = b
      BY <1>2 DEF TryRestore
    <2>2. "Restoring" \in Statuses
      BY DEF Statuses, Busy
    <2>3. /\ r \in AppsOf(D, B, G, C) /\ KeepsOthers(a, r, X)
      BY <2>2, RouteFields, RouteKept
    <2>4. t.kind = "restore" /\ t.answer = None
      OBVIOUS
    <2> HIDE DEF r, t
    <2>5. /\ SameSession(r, b) /\ SameDocument(r, b) /\ SameSave(r, b) /\ SameBinding(r, b)
          /\ b.tasks = r.tasks \cup {t}
      BY <2>3, SpawnedFields
    <2> HIDE DEF b
    <2>6. \A E : TaskOver(t, E)
      BY <2>4 DEF TaskOver
    <2>7. KeepsOthers(r, b, X)
      BY <2>4, <2>5, <2>6, OneTaskMore
    <2> QED
      BY <2>1, <2>3, <2>7, KeepsOthersTwice
  <1> QED
    BY <1>1, <1>2

\* The binding of an application is one its uploads are over.
LEMMA PushTaskOver ==
  ASSUME NEW a, NEW session, NEW interactive, NEW bytes, NEW etag, NEW resolves, NEW E, etag \in E
  PROVE  LET t == PushTask(a, session, interactive, bytes, etag, resolves)
         IN  t.kind # "publish" /\ TaskOver(t, E)
  <1> DEFINE t == PushTask(a, session, interactive, bytes, etag, resolves)
  <1>1. t.kind = "push" /\ t.etag = etag /\ t.answer = None
    BY DEF PushTask
  <1> HIDE DEF t
  <1>2. t.kind # "publish" /\ TaskOver(t, E)
    BY <1>1 DEF TaskOver
  <1> QED
    BY <1>2 DEF t

LEMMA PushNowKept ==
  ASSUME NEW D, NEW B, NEW G, NEW C, Over(D, B, G, C), NEW a \in AppsOf(D, B, G, C),
         NEW session \in SyncSessions, NEW interactive \in BOOLEAN, NEW bytes \in B \cup {None},
         NEW X
  PROVE  KeepsOthers(a, PushNow(a, session, interactive, bytes), X)
  <1> DEFINE request == Request(session, interactive, bytes)
             b == PushNow(a, session, interactive, bytes)
  <1>r. request \in RequestsOf(B)
    BY DEF Request, RequestsOf
  <1> HIDE DEF request
  <1>0. KeepsOthers(a, a, X)
    BY NoTaskMore DEF SameSession, SameDocument, SameSave, SameBinding
  <1>1. CASE ~IsCurrent(a, session)
    BY <1>0, <1>1 DEF PushNow
  <1>2. CASE IsCurrent(a, session) /\ a.slot # None
    <2> DEFINE slot == [a.slot EXCEPT !.pending = Coalesce(a.slot.pending, request)]
    <2>1. b = [a EXCEPT !.slot = slot]
      BY <1>2 DEF PushNow, request
    <2> HIDE DEF slot, b
    <2>2. /\ SameSession(a, b) /\ SameDocument(a, b) /\ SameSave(a, b) /\ SameBinding(a, b)
          /\ b.tasks = a.tasks
      BY <2>1 DEF AppsOf, SameSession, SameDocument, SameSave, SameBinding
    <2>3. KeepsOthers(a, b, X)
      BY <2>2, NoTaskMore
    <2> QED
      BY <2>3 DEF b
  <1>3. CASE IsCurrent(a, session) /\ a.slot = None /\ a.binding = None
    <2>1. CASE a.place = "active"
      <3> DEFINE w == [a EXCEPT !.awaiting = request]
      <3>1. b = TryRestore(w)
        BY <1>3, <2>1 DEF PushNow, request
      <3>2. w \in AppsOf(D, B, G, C)
        BY <1>r, Setters
      <3>3. /\ SameSession(a, w) /\ SameDocument(a, w) /\ SameSave(a, w) /\ SameBinding(a, w)
            /\ w.tasks = a.tasks
        BY DEF AppsOf, SameSession, SameDocument, SameSave, SameBinding
      <3> HIDE DEF w
      <3>4. KeepsOthers(a, w, X) /\ KeepsOthers(w, TryRestore(w), X)
        BY <3>2, <3>3, NoTaskMore, TryRestoreKept
      <3> QED
        BY <3>1, <3>4, KeepsOthersTwice
    <2>2. CASE a.place # "active"
      BY <1>0, <1>3, <2>2 DEF PushNow
    <2> QED
      BY <2>1, <2>2
  <1>4. CASE IsCurrent(a, session) /\ a.slot = None /\ a.binding # None
    <2> DEFINE slot == [owner |-> session, pending |-> None]
               w == [a EXCEPT !.slot = slot]
               r == Route(w, "Syncing")
               t == PushTask(a, session, interactive, bytes, a.binding.etag, FALSE)
    <2>1. b = Spawn(r, t)
      BY <1>4 DEF PushNow
    <2>2. slot \in SlotsOf(B)
      BY DEF SlotsOf
    <2> HIDE DEF slot
    <2>4. w \in AppsOf(D, B, G, C)
      BY <2>2, Setters
    <2>5. /\ SameSession(a, w) /\ SameDocument(a, w) /\ SameSave(a, w) /\ SameBinding(a, w)
          /\ w.tasks = a.tasks
      BY DEF AppsOf, SameSession, SameDocument, SameSave, SameBinding
    <2> HIDE DEF w
    <2>6. "Syncing" \in Statuses
      BY DEF Statuses, Busy
    <2>7. /\ r \in AppsOf(D, B, G, C)
          /\ SameSession(w, r) /\ SameDocument(w, r) /\ SameSave(w, r) /\ SameBinding(w, r)
          /\ SameMarks(w, r)
      BY <2>4, <2>6, RouteFields
    <2>8. \A E : a.binding.etag \in E => TaskOver(t, E) /\ t.kind # "publish"
      BY PushTaskOver
    <2>9. t.kind # "publish"
      <3> DEFINE E == {a.binding.etag}
      <3>1. a.binding.etag \in E
        OBVIOUS
      <3> HIDE DEF E, t
      <3> QED
        BY <2>8, <3>1
    <2> HIDE DEF t, r
    <2>10. /\ SameSession(r, b) /\ SameDocument(r, b) /\ SameSave(r, b) /\ SameBinding(r, b)
           /\ b.tasks = r.tasks \cup {t}
      BY <2>1, <2>7, SpawnedFields
    <2> HIDE DEF b
    <2>11. /\ SameSession(a, b) /\ SameDocument(a, b) /\ SameSave(a, b) /\ SameBinding(a, b)
           /\ b.tasks = a.tasks \cup {t}
      BY <2>5, <2>7, <2>10 DEF SameSession, SameDocument, SameSave, SameBinding, SameMarks
    <2>12. \A E : X \subseteq E /\ UploadsOver(a, E) => TaskOver(t, E)
      BY <1>4, <2>8 DEF UploadsOver
    <2>13. KeepsOthers(a, b, X)
      BY <2>9, <2>11, <2>12, OneTaskMore
    <2> QED
      BY <2>13 DEF b
  <1> QED
    BY <1>1, <1>2, <1>3, <1>4

LEMMA StartQueuedKept ==
  ASSUME NEW D, NEW B, NEW G, NEW C, Over(D, B, G, C), NEW a \in AppsOf(D, B, G, C),
         NEW request \in RequestsOf(B) \cup {None}, NEW X
  PROVE  KeepsOthers(a, StartQueued(a, request), X)
  <1>1. CASE request = None
    <2>1. KeepsOthers(a, a, X)
      BY NoTaskMore DEF SameSession, SameDocument, SameSave, SameBinding
    <2> QED
      BY <1>1, <2>1 DEF StartQueued
  <1>2. CASE request # None
    <2>1. /\ request.session \in SyncSessions /\ request.interactive \in BOOLEAN
          /\ request.bytes \in B \cup {None}
      BY <1>2 DEF RequestsOf
    <2>2. StartQueued(a, request) = PushNow(a, request.session, request.interactive, request.bytes)
      BY <1>2 DEF StartQueued
    <2> QED
      BY <2>1, <2>2, PushNowKept
  <1> QED
    BY <1>1, <1>2

\* A save of the document, or another round of the one in flight.
LEMMA RequestSaveKept ==
  ASSUME NEW D, NEW B, NEW G, NEW C, Over(D, B, G, C), NEW a \in AppsOf(D, B, G, C),
         a.place # "locked", NEW sync \in BOOLEAN, NEW X
  PROVE  KeepsOthers(a, RequestSave(a, sync), X)
  <1> DEFINE b == RequestSave(a, sync)
  <1>1. /\ SameSession(a, b) /\ SameDocument(a, b) /\ SameBinding(a, b) /\ b.tasks = a.tasks
    BY DEF RequestSave, AppsOf, SameSession, SameDocument, SameBinding
  <1>2. \/ b.save = NewSave(a.doc, sync, None)
        \/ /\ a.save # None
           /\ b.save = [a.save EXCEPT !.pending = TRUE, !.pendingSync = a.save.pendingSync \/ sync]
    BY DEF RequestSave, AppsOf
  <1> HIDE DEF b
  <1>3. \/ b.save.edits = a.doc /\ b.save.merge = None
        \/ a.save # None /\ b.save.edits = a.save.edits /\ b.save.merge = a.save.merge
    <2>1. CASE b.save = NewSave(a.doc, sync, None)
      BY <2>1 DEF NewSave
    <2>2. CASE a.save # None /\ b.save = [a.save EXCEPT !.pending = TRUE,
                                            !.pendingSync = a.save.pendingSync \/ sync]
      <3>1. a.save \in SavesOf(D)
        BY <2>2 DEF AppsOf
      <3> QED
        BY <2>2, <3>1 DEF SavesOf
    <2> QED
      BY <1>2, <2>1, <2>2
  <1>4. Firm(a) \subseteq Firm(b)
    BY <1>1, <1>3 DEF Firm, SameSession, SameDocument
  <1>5. MergesHoldTheCopy(a) => MergesHoldTheCopy(b)
    BY <1>3 DEF MergesHoldTheCopy
  <1>6. \A E : UploadsOver(a, E) => UploadsOver(b, E)
    BY <1>1 DEF UploadsOver, SameBinding
  <1>7. KeepsOthers(a, b, X)
    BY <1>1, <1>4, <1>5, <1>6 DEF KeepsOthers
  <1> QED
    BY <1>7 DEF b

LEMMA RecordBaselineKept ==
  ASSUME NEW D, NEW B, NEW G, NEW C, NEW a \in AppsOf(D, B, G, C), NEW session, NEW etag, NEW rev,
         NEW X, IsCurrent(a, session) => etag \in X
  PROVE  KeepsOthers(a, RecordBaseline(a, session, etag, rev), X)
  <1> DEFINE b == RecordBaseline(a, session, etag, rev)
  <1>0. KeepsOthers(a, a, X)
    BY NoTaskMore DEF SameSession, SameDocument, SameSave, SameBinding
  <1>1. CASE IsCurrent(a, session) /\ a.binding # None
    <2> DEFINE g == [remote |-> a.binding.remote, etag |-> etag, uploaded |-> rev]
    <2>1. b = [a EXCEPT !.binding = g, !.cfg = g]
      BY <1>1 DEF RecordBaseline
    <2>2. g.etag \in X
      BY <1>1
    <2> HIDE DEF g, b
    <2>3. /\ SameSession(a, b) /\ SameDocument(a, b) /\ SameSave(a, b) /\ b.tasks = a.tasks
          /\ b.binding = g /\ b.cfg = g
      BY <2>1 DEF AppsOf, SameSession, SameDocument, SameSave
    <2>4. \A E : X \subseteq E /\ UploadsOver(a, E) => UploadsOver(b, E)
      BY <2>2, <2>3 DEF UploadsOver
    <2>5. Firm(a) \subseteq Firm(b) /\ (MergesHoldTheCopy(a) => MergesHoldTheCopy(b))
      BY <2>3, SameIsFirm DEF SameSession, SameDocument, SameSave
    <2>6. KeepsOthers(a, b, X)
      BY <2>3, <2>4, <2>5 DEF KeepsOthers
    <2> QED
      BY <2>6 DEF b
  <1>2. CASE ~(IsCurrent(a, session) /\ a.binding # None)
    BY <1>0, <1>2 DEF RecordBaseline
  <1> QED
    BY <1>1, <1>2

LEMMA HandleRemoteKept ==
  ASSUME NEW D, NEW B, NEW G, NEW C, Over(D, B, G, C), NEW a \in AppsOf(D, B, G, C), NEW session,
         NEW got, NEW interactive, IsFiniteSet(a.tasks), NEW X
  PROVE  KeepsOthers(a, HandleRemote(a, session, got, interactive), X)
  <1> DEFINE b == HandleRemote(a, session, got, interactive)
  <1>0. KeepsOthers(a, a, X)
    BY NoTaskMore DEF SameSession, SameDocument, SameSave, SameBinding
  <1>1. CASE ~IsCurrent(a, session) \/ a.binding = None
    BY <1>0, <1>1 DEF HandleRemote
  <1>2. CASE ~(~IsCurrent(a, session) \/ a.binding = None)
    <2> DEFINE id == NewId(a)
               w == [a EXCEPT !.token = id]
               t == [kind |-> "decrypt", id |-> NewId(a), owner |-> session, local |-> a.doc,
                     base |-> a.gen, theirs |-> got.edits, etag |-> got.etag,
                     interactive |-> interactive]
    <2>1. b = Spawn(w, t)
      BY <1>2 DEF HandleRemote
    <2>2. t.kind = "decrypt"
      OBVIOUS
    <2>3. id \in Nat
      BY FreshId
    <2> HIDE DEF id
    <2>4. w \in AppsOf(D, B, G, C)
      BY <2>3, Setters
    <2>5. /\ SameSession(a, w) /\ SameDocument(a, w) /\ SameSave(a, w) /\ SameBinding(a, w)
          /\ w.tasks = a.tasks
      BY DEF AppsOf, SameSession, SameDocument, SameSave, SameBinding
    <2> HIDE DEF w, t
    <2>6. /\ SameSession(w, b) /\ SameDocument(w, b) /\ SameSave(w, b) /\ SameBinding(w, b)
          /\ b.tasks = w.tasks \cup {t}
      BY <2>1, <2>4, SpawnedFields
    <2> HIDE DEF b
    <2>7. \A E : TaskOver(t, E)
      BY <2>2 DEF TaskOver
    <2>8. KeepsOthers(a, w, X) /\ KeepsOthers(w, b, X)
      BY <2>2, <2>5, <2>6, <2>7, NoTaskMore, OneTaskMore
    <2>9. KeepsOthers(a, b, X)
      BY <2>8, KeepsOthersTwice
    <2> QED
      BY <2>9 DEF b
  <1> QED
    BY <1>1, <1>2

\* A merge of the document with a copy of the remote file.
LEMMA CommitMergedKept ==
  ASSUME NEW D, NEW B, NEW G, NEW C, Over(D, B, G, C), NEW a \in AppsOf(D, B, G, C),
         NEW session, NEW merged, NEW etag, NEW needsUpload, NEW base, NEW X,
         IsCurrent(a, session) /\ base = a.gen => a.doc \subseteq merged,
         etag = remotes[etag.remote].etag => remotes[etag.remote].edits \subseteq merged
  PROVE  KeepsOthers(a, CommitMerged(a, session, merged, etag, needsUpload, base), X)
  <1> DEFINE b == CommitMerged(a, session, merged, etag, needsUpload, base)
  <1>s. "Syncing" \in Statuses
    BY DEF Statuses, Busy
  <1>0. KeepsOthers(a, a, X)
    BY NoTaskMore DEF SameSession, SameDocument, SameSave, SameBinding
  <1>1. CASE ~IsCurrent(a, session) \/ a.binding = None
    BY <1>0, <1>1 DEF CommitMerged
  <1>2. CASE IsCurrent(a, session) /\ a.binding # None /\ Outdated(a, base)
    <2> DEFINE r == Route(a, "Syncing")
               yes == TRUE
    <2>1. b = RequestSave(r, yes)
      BY <1>2 DEF CommitMerged
    <2>2. r \in AppsOf(D, B, G, C) /\ SameSession(a, r) /\ KeepsOthers(a, r, X)
      BY <1>s, RouteFields, RouteKept
    <2>3. r.place # "locked"
      BY <1>2, <2>2 DEF SameSession, IsCurrent, InMemory
    <2>4. yes \in BOOLEAN
      OBVIOUS
    <2> HIDE DEF r, yes, b
    <2>5. KeepsOthers(r, b, X)
      BY <2>1, <2>2, <2>3, <2>4, RequestSaveKept
    <2>6. KeepsOthers(a, b, X)
      BY <2>2, <2>5, KeepsOthersTwice
    <2> QED
      BY <2>6 DEF b
  <1>3. CASE IsCurrent(a, session) /\ a.binding # None /\ ~Outdated(a, base)
    <2> DEFINE yes == TRUE
               mark == [owner |-> session, etag |-> etag, base |-> base, needsUpload |-> needsUpload]
               save == NewSave(merged, FALSE, mark)
               w == [a EXCEPT !.unsaved = yes, !.save = save]
    <2>1. b = Route(w, "Syncing")
      BY <1>3 DEF CommitMerged
    <2>2. save.edits = merged /\ save.merge = mark /\ mark.etag = etag
      BY DEF NewSave
    <2> HIDE DEF mark, save, yes
    <2>3. /\ SameSession(a, w) /\ SameDocument(a, w) /\ SameBinding(a, w) /\ w.tasks = a.tasks
          /\ w.save = save
      BY DEF AppsOf, SameSession, SameDocument, SameBinding
    <2>4. a.doc \subseteq merged /\ a.place # "locked"
      BY <1>3 DEF Outdated, IsCurrent, InMemory
    <2>5. Firm(a) \subseteq Firm(w)
      BY <2>2, <2>3, <2>4 DEF Firm, SameSession, SameDocument
    <2>6. MergesHoldTheCopy(w)
      BY <2>2, <2>3 DEF MergesHoldTheCopy
    <2>7. b.place = w.place /\ b.doc = w.doc /\ b.save = w.save /\ b.binding = w.binding
          /\ b.cfg = w.cfg /\ b.tasks = w.tasks
      <3> HIDE DEF b
      <3> QED
        BY <2>1 DEF Route, AppsOf
    <2> HIDE DEF w, b
    <2>8. \A E : UploadsOver(a, E) => UploadsOver(b, E)
      BY <2>3, <2>7 DEF UploadsOver, SameBinding
    <2>9. Firm(a) \subseteq Firm(b) /\ MergesHoldTheCopy(b)
      BY <2>5, <2>6, <2>7, SameIsFirm
    <2>10. KeepsOthers(a, b, X)
      BY <2>3, <2>7, <2>8, <2>9 DEF KeepsOthers
    <2> QED
      BY <2>10 DEF b
  <1> QED
    BY <1>1, <1>2, <1>3

LEMMA ContinueRemoteKept ==
  ASSUME NEW D, NEW B, NEW G, NEW C, Over(D, B, G, C), NEW a \in AppsOf(D, B, G, C),
         NEW d \in DecryptsOf(D, C), IsCurrent(a, d.owner), d.base = a.gen => d.local = a.doc,
         d.etag = remotes[d.etag.remote].etag => d.theirs = remotes[d.etag.remote].edits, NEW X
  PROVE  KeepsOthers(a, ContinueRemote(a, d), X)
  <1> DEFINE clashes == Clashing(d.local, d.theirs)
             b == ContinueRemote(a, d)
  <1>1. CASE clashes = {}
    <2> DEFINE merged == d.local \cup d.theirs
               needsUpload == ~(d.local \subseteq d.theirs)
    <2>1. b = CommitMerged(a, d.owner, merged, d.etag, needsUpload, d.base)
      BY <1>1 DEF ContinueRemote
    <2>2. d.base = a.gen => a.doc \subseteq merged
      OBVIOUS
    <2>3. d.etag = remotes[d.etag.remote].etag => remotes[d.etag.remote].edits \subseteq merged
      OBVIOUS
    <2> HIDE DEF merged, needsUpload, b
    <2>4. KeepsOthers(a, b, X)
      BY <2>1, <2>2, <2>3, CommitMergedKept
    <2> QED
      BY <2>4 DEF b
  <1>2. CASE clashes # {} /\ a.place = "active" /\ d.interactive /\ a.overlay # "edit"
    <2> DEFINE c == [local |-> d.local, theirs |-> d.theirs, etag |-> d.etag, base |-> d.base,
                     owner |-> d.owner]
               w == [a EXCEPT !.overlay = "conflict", !.conflict = c]
    <2>1. b = Route(w, "Conflict")
      BY <1>2 DEF ContinueRemote
    <2> HIDE DEF c
    <2>2. /\ b.place = a.place /\ b.doc = a.doc /\ b.save = a.save /\ b.binding = a.binding
          /\ b.cfg = a.cfg /\ b.tasks = a.tasks /\ b.sess = a.sess /\ b.bindGen = a.bindGen
          /\ b.gen = a.gen /\ b.unsaved = a.unsaved
      <3> HIDE DEF b
      <3> QED
        BY <2>1, SMTT(60) DEF Route, AppsOf
    <2> HIDE DEF b
    <2>3. KeepsOthers(a, b, X)
      BY <2>2, NoTaskMore DEF SameSession, SameDocument, SameSave, SameBinding
    <2> QED
      BY <2>3 DEF b
  <1>3. CASE clashes # {} /\ ~(a.place = "active" /\ d.interactive /\ a.overlay # "edit")
    <2> DEFINE w == [a EXCEPT !.deferred = d.etag]
    <2>1. b = Route(w, "Failed")
      BY <1>3 DEF ContinueRemote
    <2>2. "Failed" \in Statuses /\ d.etag \in Etags
      BY DEF Statuses, DecryptsOf
    <2>3. w \in AppsOf(D, B, G, C)
      BY <2>2, Setters
    <2>4. /\ SameSession(a, w) /\ SameDocument(a, w) /\ SameSave(a, w) /\ SameBinding(a, w)
          /\ w.tasks = a.tasks
      BY DEF AppsOf, SameSession, SameDocument, SameSave, SameBinding
    <2> HIDE DEF w, b
    <2>5. KeepsOthers(a, w, X) /\ KeepsOthers(w, b, X)
      BY <2>1, <2>2, <2>3, <2>4, NoTaskMore, RouteKept
    <2>6. KeepsOthers(a, b, X)
      BY <2>5, KeepsOthersTwice
    <2> QED
      BY <2>6 DEF b
  <1> QED
    BY <1>1, <1>2, <1>3

LEMMA AutoSyncKept ==
  ASSUME NEW D, NEW B, NEW G, NEW C, Over(D, B, G, C), NEW a \in AppsOf(D, B, G, C), NEW X
  PROVE  KeepsOthers(a, AutoSync(a), X)
  <1> DEFINE b == AutoSync(a)
             no == FALSE
             t == [kind |-> "pull", id |-> NewId(a), owner |-> SyncSession(a),
                   remote |-> a.binding.remote, etag |-> a.binding.etag,
                   deferred |-> a.deferred, phase |-> "check", answer |-> None]
             w == [a EXCEPT !.auto = TRUE]
  <1>1. b = a \/ b = PushNow(a, SyncSession(a), no, None) \/ b = Spawn(w, t)
    BY DEF AutoSync
  <1>2. no \in BOOLEAN /\ None \in B \cup {None} /\ SyncSession(a) \in SyncSessions
    BY CurrentSession
  <1>3. t.kind = "pull"
    OBVIOUS
  <1>4. w \in AppsOf(D, B, G, C)
    <2> DEFINE yes == TRUE
               v == [a EXCEPT !.auto = yes]
    <2>1. yes \in BOOLEAN
      OBVIOUS
    <2>2. v = w
      OBVIOUS
    <2> HIDE DEF yes
    <2>3. v \in AppsOf(D, B, G, C)
      BY <2>1, Setters
    <2> QED
      BY <2>2, <2>3
  <1>5. /\ SameSession(a, w) /\ SameDocument(a, w) /\ SameSave(a, w) /\ SameBinding(a, w)
        /\ w.tasks = a.tasks
    BY DEF AppsOf, SameSession, SameDocument, SameSave, SameBinding
  <1> HIDE DEF no, t, w
  <1>6. KeepsOthers(a, a, X) /\ KeepsOthers(a, w, X)
    BY <1>5, NoTaskMore DEF SameSession, SameDocument, SameSave, SameBinding
  <1>7. KeepsOthers(a, PushNow(a, SyncSession(a), no, None), X)
    BY <1>2, PushNowKept
  <1>8. KeepsOthers(a, Spawn(w, t), X)
    <2> DEFINE s == Spawn(w, t)
    <2>1. /\ SameSession(w, s) /\ SameDocument(w, s) /\ SameSave(w, s) /\ SameBinding(w, s)
          /\ s.tasks = w.tasks \cup {t}
      BY <1>4, SpawnedFields
    <2> HIDE DEF s
    <2>2. \A E : TaskOver(t, E)
      BY <1>3 DEF TaskOver
    <2>3. KeepsOthers(w, s, X)
      BY <1>3, <2>1, <2>2, OneTaskMore
    <2> QED
      BY <1>6, <2>3, KeepsOthersTwice DEF s
  <1> QED
    BY <1>1, <1>6, <1>7, <1>8

\* A session that ends or waits for its lock; a task that has gone.
LEMMA LockNowKept ==
  ASSUME NEW D, NEW B, NEW G, NEW C, Over(D, B, G, C), NEW a \in AppsOf(D, B, G, C), NEW X
  PROVE  KeepsOthers(a, LockNow(a), X)
  <1> DEFINE b == LockNow(a)
  <1>1. /\ b.place = "locked" /\ b.binding = None /\ b.save = a.save /\ b.cfg = a.cfg
        /\ b.tasks = a.tasks
    BY LockNowFields
  <1> HIDE DEF b
  <1>2. \A E : UploadsOver(a, E) => UploadsOver(b, E)
    BY <1>1 DEF UploadsOver
  <1>3. Firm(a) \subseteq Firm(b) /\ (MergesHoldTheCopy(a) => MergesHoldTheCopy(b))
    BY <1>1 DEF Firm, MergesHoldTheCopy
  <1>4. KeepsOthers(a, b, X)
    BY <1>1, <1>2, <1>3 DEF KeepsOthers
  <1> QED
    BY <1>4 DEF b

LEMMA QuarantineKept ==
  ASSUME NEW D, NEW B, NEW G, NEW C, NEW a \in AppsOf(D, B, G, C), InMemory(a), NEW X
  PROVE  KeepsOthers(a, Quarantine(a), X)
  <1> DEFINE b == Quarantine(a)
  <1>1. /\ b.doc = a.doc /\ b.binding = None /\ b.save = a.save /\ b.cfg = a.cfg
        /\ b.tasks = a.tasks
    BY SMTT(60) DEF Quarantine, AppsOf
  <1> HIDE DEF b
  <1>2. \A E : UploadsOver(a, E) => UploadsOver(b, E)
    BY <1>1 DEF UploadsOver
  <1>3. Firm(a) \subseteq Firm(b) /\ (MergesHoldTheCopy(a) => MergesHoldTheCopy(b))
    BY <1>1 DEF Firm, MergesHoldTheCopy, InMemory
  <1>4. KeepsOthers(a, b, X)
    BY <1>1, <1>2, <1>3 DEF KeepsOthers
  <1> QED
    BY <1>4 DEF b

LEMMA WithoutKept ==
  ASSUME NEW D, NEW B, NEW G, NEW C, NEW a \in AppsOf(D, B, G, C), NEW t, NEW X
  PROVE  KeepsOthers(a, Without(a, t), X)
  <1> DEFINE b == Without(a, t)
  <1>1. /\ SameSession(a, b) /\ SameDocument(a, b) /\ SameSave(a, b) /\ SameBinding(a, b)
        /\ b.tasks = a.tasks \ {t}
    BY WithoutFields
  <1> HIDE DEF b
  <1>2. KeepsOthers(a, b, X)
    BY <1>1, NoTaskMore
  <1> QED
    BY <1>2 DEF b

LEMMA TakeAnswerKept ==
  ASSUME NEW D, NEW B, NEW G, NEW C, Over(D, B, G, C), NEW a \in AppsOf(D, B, G, C), Core(a),
         NEW p \in PushesOf(B, G, C), p.phase = "done", IsCurrent(a, p.owner),
         OfTheBinding(a, p.etag), NEW interactive, NEW X,
         p.answer.as = "synced" => p.answer.etag \in X
  PROVE  KeepsOthers(a, TakeAnswer(a, p, interactive), X)
  <1> DEFINE b == TakeAnswer(a, p, interactive)
  <1>p. /\ p.etag.remote = p.remote /\ a.binding # None /\ a.binding.remote = p.remote
        /\ p.answer \in AnswersOf({"network", "throttled", "grant"}) \cup SyncedAnswers
                       \cup CopyAnswers("conflict", C)
    BY DEF PushesOf, OfTheBinding
  <1>1. CASE p.answer.as = "synced"
    <2> DEFINE w == RecordBaseline(a, p.owner, p.answer.etag, UploadedRevision(p))
    <2>1. p.answer \in SyncedAnswers
      BY <1>1, <1>p DEF AnswersOf, CopyAnswers
    <2>2. [remote |-> a.binding.remote, etag |-> p.answer.etag, uploaded |-> UploadedRevision(p)] \in G
      BY <1>p, <2>1 DEF PushesOf, UploadedRevision
    <2>3. w \in AppsOf(D, B, G, C)
      BY <2>2, RecordBaselineKeeps
    <2>4. KeepsOthers(a, w, X)
      BY <1>1, RecordBaselineKept
    <2>5. b = RouteFor(w, p.owner, "Synced")
      BY <1>1 DEF TakeAnswer
    <2>6. "Synced" \in Statuses
      BY DEF Statuses, Resting
    <2> HIDE DEF w, b
    <2>7. KeepsOthers(w, b, X)
      BY <2>3, <2>5, <2>6, RouteForKept
    <2>8. KeepsOthers(a, b, X)
      BY <2>4, <2>7, KeepsOthersTwice
    <2> QED
      BY <2>8 DEF b
  <1>2. CASE p.answer.as = "conflict"
    <2>1. b = HandleRemote(a, p.owner, p.answer, interactive)
      BY <1>2 DEF TakeAnswer
    <2>2. IsFiniteSet(a.tasks)
      BY DEF Core, Numbered
    <2> HIDE DEF b
    <2>3. KeepsOthers(a, b, X)
      BY <2>1, <2>2, HandleRemoteKept
    <2> QED
      BY <2>3 DEF b
  <1>3. CASE p.answer.as \notin {"synced", "conflict"}
    <2>1. b = NoteFailure(a, p.answer.as)
      BY <1>3 DEF TakeAnswer
    <2> QED
      BY <2>1, NoteFailureKept
  <1> QED
    BY <1>1, <1>2, <1>3

\* A task takes a step, over what it or the application was over before.
LEMMA SteppedKept ==
  ASSUME EngineInv, NEW t \in app.tasks, NEW u, Step(t, u), u.kind = t.kind, u.id = t.id,
         t.kind = "publish" => u.remote = t.remote /\ (u.phase # "done" => t.phase # "done"),
         \A E : UploadsOver(app, E) => TaskOver(u, E)
  PROVE  KeepsOthers(app, app', {})
  <1>k. app \in AppsOf(Settled, OurBytes, TrueBindings, TrueCopies)
    BY Known
  <1>1. /\ app'.place = app.place /\ app'.doc = app.doc /\ app'.save = app.save
        /\ app'.binding = app.binding /\ app'.cfg = app.cfg
        /\ app'.tasks = (app.tasks \ {t}) \cup {u}
    BY <1>k DEF Step, AppsOf
  <1>2. \A E : UploadsOver(app, E) => UploadsOver(app', E)
    BY <1>1 DEF UploadsOver
  <1>3. ASSUME NEW v \in app'.tasks, v.kind = "publish"
        PROVE  \E w \in app.tasks : /\ w.kind = "publish" /\ w.id = v.id /\ w.remote = v.remote
                                    /\ v.phase # "done" => w.phase # "done"
    <2>1. CASE v \in app.tasks
      BY <1>3, <2>1
    <2>2. CASE v = u
      BY <1>3, <2>2
    <2> QED
      BY <1>1, <2>1, <2>2
  <1>4. Firm(app) \subseteq Firm(app') /\ (MergesHoldTheCopy(app) => MergesHoldTheCopy(app'))
    BY <1>1, SameIsFirm
  <1> QED
    BY <1>2, <1>3, <1>4 DEF KeepsOthers

\* The step of a push without the answer that the server took it.
LEMMA PushSteppedKept ==
  ASSUME EngineInv, NEW p \in app.tasks, p.kind = "push", NEW u, Step(p, u), u.kind = p.kind,
         u.id = p.id, u.etag = p.etag, u.answer = p.answer \/ u.answer.as # "synced"
  PROVE  KeepsOthers(app, app', {})
  <1>1. ASSUME NEW E, UploadsOver(app, E) PROVE TaskOver(u, E)
    <2>1. TaskOver(p, E)
      BY <1>1 DEF UploadsOver
    <2> QED
      BY <2>1 DEF TaskOver
  <1> QED
    BY <1>1, SteppedKept

\* The record of a push, stepped.
LEMMA PushFields ==
  ASSUME EngineInv, NEW p \in app.tasks, p.kind = "push"
  PROVE  /\ \A phase, bytes : LET u == [p EXCEPT !.phase = phase, !.bytes = bytes]
                              IN  u.kind = p.kind /\ u.id = p.id /\ u.etag = p.etag /\ u.answer = p.answer
         /\ \A phase : LET u == [p EXCEPT !.phase = phase]
                       IN  u.kind = p.kind /\ u.id = p.id /\ u.etag = p.etag /\ u.answer = p.answer
         /\ \A phase, answer : LET u == [p EXCEPT !.phase = phase, !.answer = answer]
                               IN  u.kind = p.kind /\ u.id = p.id /\ u.etag = p.etag /\ u.answer = answer
  <1>1. p \in PushesOf(OurBytes, TrueBindings, TrueCopies)
    BY TasksAreTyped
  <1> QED
    BY <1>1 DEF PushesOf

LEMMA PushReadKept ==
  ASSUME EngineInv, NEW p \in app.tasks, PushRead(p)
  PROVE  KeepsOthers(app, app', {})
  <1> DEFINE bytes == IF p.bytes = None THEN file ELSE p.bytes
             u == [p EXCEPT !.phase = "send", !.bytes = bytes]
  <1>1. p.kind = "push" /\ Step(p, u)
    BY DEF PushRead, TasksOf
  <1>2. u.kind = p.kind /\ u.id = p.id /\ u.etag = p.etag /\ u.answer = p.answer
    BY <1>1, PushFields
  <1> HIDE DEF u
  <1> QED
    BY <1>1, <1>2, PushSteppedKept

LEMMA PushRejectedKept ==
  ASSUME EngineInv, NEW p \in app.tasks, p.kind = "push", Step(p, [p EXCEPT !.phase = "rejected"])
  PROVE  KeepsOthers(app, app', {})
  <1> DEFINE u == [p EXCEPT !.phase = "rejected"]
  <1>1. u.kind = p.kind /\ u.id = p.id /\ u.etag = p.etag /\ u.answer = p.answer
    BY PushFields
  <1>2. Step(p, u)
    OBVIOUS
  <1> HIDE DEF u
  <1> QED
    BY <1>1, <1>2, PushSteppedKept

\* A push that is answered by a failure or by a copy of the remote file.
LEMMA PushAnsweredKept ==
  ASSUME EngineInv, NEW p \in app.tasks, p.kind = "push", NEW x, x.as # "synced", Answered(p, x)
  PROVE  KeepsOthers(app, app', {})
  <1> DEFINE u == [p EXCEPT !.phase = "done", !.answer = x]
  <1>1. u.kind = p.kind /\ u.id = p.id /\ u.etag = p.etag /\ u.answer = x
    BY PushFields
  <1>2. Step(p, u)
    BY DEF Answered
  <1> HIDE DEF u
  <1> QED
    BY <1>1, <1>2, PushSteppedKept

LEMMA PushDownloadKept ==
  ASSUME EngineInv, NEW p \in app.tasks, PushDownload(p)
  PROVE  KeepsOthers(app, app', {})
  <1> DEFINE x == [as |-> "conflict", edits |-> remotes[p.remote].edits, etag |-> remotes[p.remote].etag]
  <1>1. p.kind = "push" /\ Answered(p, x) /\ x.as # "synced"
    BY DEF PushDownload, TasksOf
  <1> HIDE DEF x
  <1> QED
    BY <1>1, PushAnsweredKept

\* A pull uploads nothing.
LEMMA PullSteppedKept ==
  ASSUME EngineInv, NEW p \in app.tasks, p.kind = "pull", NEW u, Step(p, u), u.kind = p.kind,
         u.id = p.id
  PROVE  KeepsOthers(app, app', {})
  <1>1. \A E : TaskOver(u, E)
    BY DEF TaskOver
  <1> QED
    BY <1>1, SteppedKept

LEMMA PullAnsweredKept ==
  ASSUME EngineInv, NEW p \in app.tasks, p.kind = "pull", NEW x, Answered(p, x)
  PROVE  KeepsOthers(app, app', {})
  <1> DEFINE u == [p EXCEPT !.phase = "done", !.answer = x]
  <1>1. p \in PullsOf(TrueCopies)
    BY TasksAreTyped
  <1>2. u.kind = p.kind /\ u.id = p.id
    BY <1>1 DEF PullsOf
  <1>3. Step(p, u)
    BY DEF Answered
  <1> HIDE DEF u
  <1> QED
    BY <1>2, <1>3, PullSteppedKept

LEMMA PullCheckKept ==
  ASSUME EngineInv, NEW p \in app.tasks, PullCheck(p)
  PROVE  KeepsOthers(app, app', {})
  <1> DEFINE u == [p EXCEPT !.phase = "ahead"]
             same == [as |-> "same"]
  <1>1. p.kind = "pull" /\ (Answered(p, same) \/ Step(p, u))
    BY DEF PullCheck, TasksOf
  <1>2. p \in PullsOf(TrueCopies)
    BY <1>1, TasksAreTyped
  <1>3. u.kind = p.kind /\ u.id = p.id
    BY <1>2 DEF PullsOf
  <1> HIDE DEF u, same
  <1> QED
    BY <1>1, <1>3, PullSteppedKept, PullAnsweredKept

LEMMA PullDownloadKept ==
  ASSUME EngineInv, NEW p \in app.tasks, PullDownload(p)
  PROVE  KeepsOthers(app, app', {})
  <1> DEFINE x == [as |-> "pulled", edits |-> remotes[p.remote].edits, etag |-> remotes[p.remote].etag]
  <1>1. p.kind = "pull" /\ Answered(p, x)
    BY DEF PullDownload, TasksOf
  <1> HIDE DEF x
  <1> QED
    BY <1>1, PullAnsweredKept

\* The restore of a binding reads the configuration of the application.
LEMMA RestoreAnsweredKept ==
  ASSUME EngineInv, NEW t \in app.tasks, t.kind = "restore", NEW x, Answered(t, x),
         x.as = "restored" => app.cfg # None /\ x.cfg = app.cfg
  PROVE  KeepsOthers(app, app', {})
  <1> DEFINE u == [t EXCEPT !.phase = "done", !.answer = x]
  <1>1. t \in RestoresOf(TrueBindings)
    BY TasksAreTyped
  <1>2. u.kind = t.kind /\ u.id = t.id /\ u.answer = x
    BY <1>1 DEF RestoresOf
  <1>3. Step(t, u)
    BY DEF Answered
  <1> HIDE DEF u
  <1>4. \A E : UploadsOver(app, E) => TaskOver(u, E)
    BY <1>2 DEF UploadsOver, TaskOver
  <1> QED
    BY <1>2, <1>3, <1>4, SteppedKept

LEMMA RestoreReadKept ==
  ASSUME EngineInv, NEW t \in app.tasks, RestoreRead(t)
  PROVE  KeepsOthers(app, app', {})
  <1> DEFINE gone == [as |-> "gone"]
             restored == [as |-> "restored", cfg |-> app.cfg]
  <1>1. /\ t.kind = "restore"
        /\ (app.cfg = None /\ Answered(t, gone)) \/ (app.cfg # None /\ Answered(t, restored))
    BY DEF RestoreRead, TasksOf
  <1>2. gone.as # "restored" /\ restored.cfg = app.cfg
    OBVIOUS
  <1> HIDE DEF gone, restored
  <1> QED
    BY <1>1, <1>2, RestoreAnsweredKept

LEMMA RestoreFailsKept ==
  ASSUME EngineInv, NEW t \in app.tasks, NEW why, RestoreFails(t, why)
  PROVE  KeepsOthers(app, app', {})
  <1> DEFINE x == [as |-> why]
  <1>1. t.kind = "restore" /\ Answered(t, x) /\ x.as # "restored"
    BY DEF RestoreFails, TasksOf
  <1> HIDE DEF x
  <1> QED
    BY <1>1, RestoreAnsweredKept

\* A publication that reads its bytes or is refused.
LEMMA PublishReadKept ==
  ASSUME EngineInv, NEW t \in app.tasks, PublishRead(t)
  PROVE  KeepsOthers(app, app', {})
  <1> DEFINE u == [t EXCEPT !.phase = "write", !.bytes = file]
  <1>1. t.kind = "publish" /\ t.phase = "read" /\ Step(t, u)
    BY DEF PublishRead, TasksOf
  <1>2. t \in PublishesOf(OurBytes, TrueBindings)
    BY <1>1, TasksAreTyped
  <1>3. u.kind = t.kind /\ u.id = t.id /\ u.remote = t.remote /\ u.answer = t.answer
    BY <1>2 DEF PublishesOf
  <1> HIDE DEF u
  <1>4. ASSUME NEW E, UploadsOver(app, E) PROVE TaskOver(u, E)
    <2>1. TaskOver(t, E)
      BY <1>4 DEF UploadsOver
    <2> QED
      BY <1>1, <1>3, <2>1 DEF TaskOver
  <1> QED
    BY <1>1, <1>3, <1>4, SteppedKept

LEMMA PublishRefusedKept ==
  ASSUME EngineInv, NEW t \in app.tasks, t.kind = "publish", Answered(t, [as |-> "refused"])
  PROVE  KeepsOthers(app, app', {})
  <1> DEFINE x == [as |-> "refused"]
             u == [t EXCEPT !.phase = "done", !.answer = x]
  <1>1. Step(t, u)
    BY DEF Answered
  <1>2. t \in PublishesOf(OurBytes, TrueBindings)
    BY TasksAreTyped
  <1>3. u.kind = t.kind /\ u.id = t.id /\ u.remote = t.remote /\ u.answer = x /\ u.phase = "done"
    BY <1>2 DEF PublishesOf
  <1>4. x.as # "restored"
    OBVIOUS
  <1> HIDE DEF u, x
  <1>5. \A E : TaskOver(u, E)
    BY <1>3, <1>4 DEF TaskOver
  <1> QED
    BY <1>1, <1>3, <1>5, SteppedKept

\* Nothing new: at most the save, the binding or some tasks are gone, or the
\* vault is locked.
LEMMA LessKept ==
  ASSUME NEW a, NEW b, NEW X, b.binding \in {a.binding, None}, b.cfg \in {a.cfg, None},
         b.tasks \subseteq a.tasks, b.save \in {a.save, None},
         b.place # "locked" => a.place # "locked" /\ b.doc = a.doc
  PROVE  KeepsOthers(a, b, X)
  <1>1. \A E : UploadsOver(a, E) => UploadsOver(b, E)
    BY DEF UploadsOver
  <1>2. Firm(a) \subseteq Firm(b) /\ (MergesHoldTheCopy(a) => MergesHoldTheCopy(b))
    BY DEF Firm, MergesHoldTheCopy
  <1> QED
    BY <1>1, <1>2 DEF KeepsOthers

LEMMA SyncNowKept ==
  ASSUME EngineInv, SyncNow
  PROVE  KeepsOthers(app, app', {})
  <1> DEFINE yes == TRUE
  <1>1. app' = PushNow(app, SyncSession(app), yes, None)
    BY DEF SyncNow
  <1>2. yes \in BOOLEAN /\ None \in OurBytes \cup {None} /\ SyncSession(app) \in SyncSessions
    BY Known, CurrentSession
  <1> HIDE DEF yes
  <1> QED
    BY <1>1, <1>2, Known, PushNowKept

LEMMA ScreenKept ==
  ASSUME EngineInv, OpenOverlay \/ CloseOverlay \/ Park \/ Unpark \/ WindowPasses
  PROVE  KeepsOthers(app, app', {})
  <1>k. app \in AppsOf(Settled, OurBytes, TrueBindings, TrueCopies)
    BY Known
  <1>1. /\ app'.binding = app.binding /\ app'.cfg = app.cfg /\ app'.tasks = app.tasks
        /\ app'.save = app.save /\ app'.doc = app.doc
        /\ app'.place # "locked" => app.place # "locked"
    <2>1. CASE OpenOverlay
      <3>1. PICK o \in {"edit", "connect"} : app' = [app EXCEPT !.overlay = o]
        BY <2>1 DEF OpenOverlay
      <3> QED
        BY <1>k, <3>1 DEF AppsOf
    <2>2. CASE CloseOverlay
      BY <1>k, <2>2 DEF CloseOverlay, AppsOf
    <2>3. CASE Park
      BY <1>k, <2>3 DEF Park, AppsOf
    <2>4. CASE Unpark
      BY <1>k, <2>4 DEF Unpark, AppsOf
    <2>5. CASE WindowPasses
      <3> DEFINE no == FALSE
      <3>1. app' = [app EXCEPT !.backoff = no]
        BY <2>5 DEF WindowPasses
      <3> HIDE DEF no
      <3> QED
        BY <1>k, <3>1 DEF AppsOf
    <2> QED
      BY <2>1, <2>2, <2>3, <2>4, <2>5
  <1> QED
    BY <1>1, LessKept

LEMMA ResolveBlockedKept ==
  ASSUME EngineInv, ResolveBlocked
  PROVE  KeepsOthers(app, app', {})
  <1> DEFINE w == Route(app, "Failed")
  <1>k. app \in AppsOf(Settled, OurBytes, TrueBindings, TrueCopies)
    BY Known
  <1>1. app' = [w EXCEPT !.overlay = "none"] /\ "Failed" \in Statuses
    BY DEF ResolveBlocked, Statuses
  <1>2. w \in AppsOf(Settled, OurBytes, TrueBindings, TrueCopies)
    BY <1>k, <1>1, RouteFields
  <1>3. KeepsOthers(app, w, {})
    BY <1>k, <1>1, RouteKept
  <1> HIDE DEF w
  <1>4. /\ app'.binding = w.binding /\ app'.cfg = w.cfg /\ app'.tasks = w.tasks
        /\ app'.save = w.save /\ app'.doc = w.doc /\ app'.place = w.place
    BY <1>1, <1>2 DEF AppsOf
  <1>5. KeepsOthers(w, app', {})
    BY <1>4, LessKept
  <1> QED
    BY <1>3, <1>5, KeepsOthersTwice

LEMMA LockKept ==
  ASSUME EngineInv, Lock
  PROVE  KeepsOthers(app, app', {})
  <1> DEFINE q == Quarantine(app)
             no == FALSE
  <1>k. /\ app \in AppsOf(Settled, OurBytes, TrueBindings, TrueCopies) /\ Core(app)
        /\ Over(Settled, OurBytes, TrueBindings, TrueCopies)
    BY Known
  <1>q. /\ q \in AppsOf(Settled, OurBytes, TrueBindings, TrueCopies) /\ q.place = "deferred"
        /\ KeepsOthers(app, q, {})
    BY <1>k, QuarantineKeeps, QuarantineKept DEF Lock
  <1>1. CASE app' = LockNow(app)
    BY <1>k, <1>1, LockNowKept
  <1>2. CASE app' = q
    BY <1>q, <1>2
  <1>3. CASE app' = RequestSave(q, no)
    <2>1. no \in BOOLEAN
      OBVIOUS
    <2> HIDE DEF q, no
    <2>2. KeepsOthers(q, app', {})
      BY <1>k, <1>q, <1>3, <2>1, RequestSaveKept
    <2> QED
      BY <1>q, <2>2, KeepsOthersTwice
  <1> HIDE DEF q
  <1> QED
    BY <1>1, <1>2, <1>3 DEF Lock, q

LEMMA RetrySaveKept ==
  ASSUME EngineInv, RetrySave
  PROVE  KeepsOthers(app, app', {})
  <1> DEFINE sync == app.place = "active"
  <1>1. app' = RequestSave(app, sync) /\ sync \in BOOLEAN /\ app.place # "locked"
    BY DEF RetrySave
  <1> HIDE DEF sync
  <1> QED
    BY <1>1, Known, RequestSaveKept

LEMMA RetryRestoreKept ==
  ASSUME EngineInv, RetryRestore
  PROVE  KeepsOthers(app, app', {})
  BY Known, TryRestoreKept DEF RetryRestore

LEMMA TickKept ==
  ASSUME EngineInv, Tick
  PROVE  KeepsOthers(app, app', {})
  BY Known, AutoSyncKept DEF Tick

LEMMA UnlockKept ==
  ASSUME EngineInv, Unlock
  PROVE  KeepsOthers(app, app', {})
  <1> DEFINE Apps == AppsOf(Settled, OurBytes, TrueBindings, TrueCopies)
             zero == 0
             next == app.sess + 1
             w == [app EXCEPT !.place = "active", !.sess = next, !.doc = file.edits, !.gen = zero]
             w1 == [app EXCEPT !.place = "active"]
             w2 == [w1 EXCEPT !.sess = next]
             w3 == [w2 EXCEPT !.doc = file.edits]
             w4 == [w3 EXCEPT !.gen = zero]
  <1>k. app \in Apps /\ LockedIsQuiet(app)
    BY Known
  <1>1. app' = TryRestore(w) /\ app.place = "locked"
    BY DEF Unlock
  <1>t. next \in Nat /\ zero \in Nat
    BY <1>k DEF AppsOf
  <1>d. file.edits \in Settled
    BY DEF EngineInv, FilesAreSettled
  <1>f. /\ w.doc = file.edits /\ w.save = app.save /\ w.binding = app.binding
        /\ w.cfg = app.cfg /\ w.tasks = app.tasks
    BY <1>k, SMTT(60) DEF AppsOf
  <1>w. w = w4
    OBVIOUS
  <1> HIDE DEF w, next, zero
  <1>2. w1 \in Apps
    BY <1>k, Setters
  <1>3. w2 \in Apps
    <2> HIDE DEF w1
    <2> QED BY <1>2, <1>t, Setters
  <1>4. w3 \in Apps
    <2> HIDE DEF w2
    <2> QED BY <1>3, <1>d, Setters
  <1>5. w4 \in Apps
    <2> HIDE DEF w3
    <2> QED BY <1>4, <1>t, Setters
  <1>6. app.save = None
    BY <1>1, <1>k DEF LockedIsQuiet
  <1>7. \A E : UploadsOver(app, E) => UploadsOver(w, E)
    BY <1>f DEF UploadsOver
  <1>8. Firm(app) \subseteq Firm(w) /\ MergesHoldTheCopy(w)
    BY <1>f, <1>6 DEF Firm, MergesHoldTheCopy
  <1>9. KeepsOthers(app, w, {})
    BY <1>f, <1>7, <1>8 DEF KeepsOthers
  <1>10. KeepsOthers(w, app', {})
    BY <1>1, <1>5, <1>w, TryRestoreKept
  <1> QED
    BY <1>9, <1>10, KeepsOthersTwice

LEMMA DisconnectKept ==
  ASSUME EngineInv, Disconnect
  PROVE  KeepsOthers(app, app', {})
  <1> DEFINE Apps == AppsOf(Settled, OurBytes, TrueBindings, TrueCopies)
             w1 == [app EXCEPT !.binding = None]
             w == [w1 EXCEPT !.cfg = None]
             r == Route(w, "Disconnected")
  <1>k. app \in Apps
    BY Known
  <1>1. app' = [r EXCEPT !.bindGen = r.bindGen + 1] /\ app.place = "active"
    <2>1. w = [app EXCEPT !.binding = None, !.cfg = None]
      OBVIOUS
    <2> QED
      BY <2>1 DEF Disconnect
  <1>2. w1 \in Apps
    BY <1>k, Setters
  <1>3. w \in Apps
    <2> HIDE DEF w1
    <2> QED BY <1>2, Setters
  <1>f. /\ w.place = "active" /\ w.doc = app.doc /\ w.save = app.save /\ w.binding = None
        /\ w.cfg = None /\ w.tasks = app.tasks
    BY <1>k, <1>1 DEF AppsOf
  <1> HIDE DEF w
  <1>4. KeepsOthers(app, w, {})
    BY <1>1, <1>f, LessKept
  <1>5. "Disconnected" \in Statuses
    BY DEF Statuses
  <1>6. r \in Apps /\ KeepsOthers(w, r, {})
    BY <1>3, <1>5, RouteFields, RouteKept
  <1> HIDE DEF r
  <1>7. /\ app'.place = r.place /\ app'.doc = r.doc /\ app'.save = r.save
        /\ app'.binding = r.binding /\ app'.cfg = r.cfg /\ app'.tasks = r.tasks
    BY <1>1, <1>6 DEF AppsOf
  <1>8. KeepsOthers(r, app', {})
    BY <1>7, LessKept
  <1> QED
    BY <1>4, <1>6, <1>8, KeepsOthersTwice

LEMMA CrashKept ==
  ASSUME EngineInv, Crash
  PROVE  KeepsOthers(app, app', {})
  <1> DEFINE no == FALSE
             zero == 0
             empty == {}
             l == LockNow(app)
  <1>k. /\ app \in AppsOf(Settled, OurBytes, TrueBindings, TrueCopies)
        /\ Over(Settled, OurBytes, TrueBindings, TrueCopies)
    BY Known
  <1>1. app' = [l EXCEPT !.save = None, !.slot = None, !.auto = no, !.token = None,
                         !.backoff = no, !.bindGen = zero, !.tasks = empty]
    BY DEF Crash
  <1>l. l \in AppsOf(Settled, OurBytes, TrueBindings, TrueCopies) /\ l.place = "locked"
    BY <1>k, LockNowFields
  <1>2. KeepsOthers(app, l, {})
    BY <1>k, LockNowKept
  <1> HIDE DEF l, no, zero
  <1>f. /\ app'.place = "locked" /\ app'.binding = l.binding /\ app'.cfg = l.cfg
        /\ app'.save = None /\ app'.tasks = empty
    BY <1>1, <1>l, SMTT(60) DEF AppsOf
  <1>3. KeepsOthers(l, app', {})
    BY <1>f, LessKept
  <1> QED
    BY <1>2, <1>3, KeepsOthersTwice

\* Revisions the uploads of a name already are no new ones.
LEMMA HeldAlready ==
  ASSUME NEW a, NEW b, NEW X, KeepsOthers(a, b, X), \A E : UploadsOver(a, E) => X \subseteq E
  PROVE  KeepsOthers(a, b, {})
  BY DEF KeepsOthers

LEMMA PushDoneKept ==
  ASSUME EngineInv, NEW p \in app.tasks, PushDone(p)
  PROVE  KeepsOthers(app, app', {})
  <1> DEFINE Apps == AppsOf(Settled, OurBytes, TrueBindings, TrueCopies)
             X == IF p.answer.as = "synced" THEN {p.answer.etag} ELSE {}
             a == Without(app, p)
             freed == FreeSlot(a)
             pending == a.slot.pending
             wanted == pending # None /\ pending.session = p.owner /\ pending.interactive
             interactive == p.interactive \/ wanted
             taken == TakeAnswer(freed, p, interactive)
  <1>k. /\ app \in Apps /\ Core(app) /\ Over(Settled, OurBytes, TrueBindings, TrueCopies)
        /\ \A c \in TrueCopies : c.edits \cap UserEdits \subseteq file.edits
        /\ CurrentIsBound(app)
    BY Known
  <1>p. /\ p \in PushesOf(OurBytes, TrueBindings, TrueCopies) /\ p.kind = "push"
        /\ p.phase = "done" /\ ~p.resolves /\ p.answer # None
    BY TasksAreTyped DEF PushDone, TasksOf, PushesOf
  <1>i. interactive \in BOOLEAN
    OBVIOUS
  <1>d. app' = CASE a.slot = None \/ (a.slot # None /\ a.slot.owner # p.owner) -> a
                 [] a.slot # None /\ a.slot.owner = p.owner /\ ~IsCurrent(a, p.owner) ->
                       StartQueued(freed, pending)
                 [] OTHER ->
                       IF p.answer.as = "synced" THEN StartQueued(taken, pending) ELSE taken
    BY DEF PushDone, FreeSlot
  <1>x. \A E : UploadsOver(app, E) => X \subseteq E
    BY <1>p DEF UploadsOver, TaskOver
  <1>y. p.answer.as = "synced" => p.answer.etag \in X
    OBVIOUS
  <1> HIDE DEF interactive, X
  <1>a. /\ a \in Apps
        /\ SameSession(app, a) /\ SameDocument(app, a) /\ SameSave(app, a) /\ SameBinding(app, a)
        /\ SameStatus(app, a) /\ a.slot = app.slot /\ a.awaiting = app.awaiting
        /\ a.auto = app.auto /\ a.tasks = app.tasks \ {p}
    BY <1>k, WithoutFields
  <1>w. KeepsOthers(app, a, X)
    BY <1>k, WithoutKept
  <1>c. \A s : IsCurrent(a, s) <=> IsCurrent(app, s)
    BY <1>a DEF IsCurrent, SyncSession, SameSession, InMemory
  <1>1. CASE a.slot = None \/ (a.slot # None /\ a.slot.owner # p.owner)
    <2>1. app' = a
      BY <1>1, <1>d
    <2> HIDE DEF a
    <2> QED
      BY <1>w, <1>x, <2>1, HeldAlready
  <1>2. CASE a.slot # None /\ a.slot.owner = p.owner
    <2> HIDE DEF a
    <2>f. /\ freed \in Apps
          /\ SameSession(a, freed) /\ SameDocument(a, freed) /\ SameSave(a, freed)
          /\ SameBinding(a, freed) /\ SameStatus(a, freed) /\ freed.slot = None
          /\ freed.awaiting = a.awaiting /\ freed.auto = a.auto /\ freed.tasks = a.tasks
      BY <1>a, FreeSlotFields
    <2> HIDE DEF freed
    <2>g. /\ SameSession(app, freed) /\ SameDocument(app, freed) /\ SameSave(app, freed)
          /\ SameBinding(app, freed) /\ SameStatus(app, freed) /\ freed.slot = None
          /\ freed.awaiting = app.awaiting /\ freed.auto = app.auto /\ freed.tasks = app.tasks \ {p}
      BY <1>a, <2>f DEF SameSession, SameDocument, SameSave, SameBinding, SameStatus
    <2>w. KeepsOthers(app, freed, X)
      BY <2>g, NoTaskMore
    <2>c. \A s : IsCurrent(freed, s) <=> IsCurrent(app, s)
      BY <2>g DEF IsCurrent, SyncSession, SameSession, InMemory
    <2>1. Core(freed)
      BY <1>2, <1>a, <1>k, <1>p, <2>g, GoneCore DEF SameStatus
    <2>2. pending \in RequestsOf(OurBytes) \cup {None}
      BY <1>2, <1>a, <1>k DEF AppsOf, SlotsOf
    <2> HIDE DEF pending
    <2>3. CASE ~IsCurrent(a, p.owner)
      <3>1. app' = StartQueued(freed, pending)
        BY <1>2, <1>d, <2>3
      <3>2. KeepsOthers(freed, app', X)
        BY <1>k, <2>2, <2>f, <3>1, StartQueuedKept
      <3>3. KeepsOthers(app, app', X)
        BY <2>w, <3>2, KeepsOthersTwice
      <3> QED
        BY <1>x, <3>3, HeldAlready
    <2>4. CASE IsCurrent(a, p.owner)
      <3>1. app' = IF p.answer.as = "synced" THEN StartQueued(taken, pending) ELSE taken
        BY <1>2, <1>d, <2>4
      <3>2. IsCurrent(app, p.owner) /\ IsCurrent(freed, p.owner)
        BY <1>c, <2>4, <2>c
      <3>3. OfTheBinding(freed, p.etag)
        BY <1>k, <1>p, <2>g, <3>2 DEF CurrentIsBound, OfTheBinding, SameBinding
      <3>4. taken \in Apps
        BY <1>i, <1>k, <1>p, <2>1, <2>f, <3>2, <3>3, TakeAnswerKeeps
      <3>5. KeepsOthers(freed, taken, X)
        BY <1>k, <1>p, <1>y, <2>1, <2>f, <3>2, <3>3, TakeAnswerKept
      <3> HIDE DEF taken
      <3>6. KeepsOthers(app, taken, X)
        BY <2>w, <3>5, KeepsOthersTwice
      <3>7. CASE p.answer.as = "synced"
        <4>1. KeepsOthers(taken, app', X)
          BY <1>k, <2>2, <3>1, <3>4, <3>7, StartQueuedKept
        <4>2. KeepsOthers(app, app', X)
          BY <3>6, <4>1, KeepsOthersTwice
        <4> QED
          BY <1>x, <4>2, HeldAlready
      <3>8. CASE p.answer.as # "synced"
        BY <1>x, <3>1, <3>6, <3>8, HeldAlready
      <3> QED
        BY <3>7, <3>8
    <2> QED
      BY <2>3, <2>4
  <1> QED
    BY <1>1, <1>2

LEMMA ResolveDoneKept ==
  ASSUME EngineInv, NEW p \in app.tasks, ResolveDone(p)
  PROVE  KeepsOthers(app, app', {})
  <1> DEFINE Apps == AppsOf(Settled, OurBytes, TrueBindings, TrueCopies)
             X == IF p.answer.as = "synced" THEN {p.answer.etag} ELSE {}
             a == Without(app, p)
             overlay == IF app.place = "active" /\ a.overlay = "conflict" THEN "none" ELSE a.overlay
             closed == ShowingOverlay(a, overlay)
             syncing == Route(a, "Syncing")
             yes == TRUE
  <1>k. /\ app \in Apps /\ Core(app) /\ Over(Settled, OurBytes, TrueBindings, TrueCopies)
        /\ CurrentIsBound(app)
    BY Known
  <1>p. /\ p \in PushesOf(OurBytes, TrueBindings, TrueCopies) /\ p.kind = "push"
        /\ p.phase = "done" /\ p.resolves /\ p.answer # None
    BY TasksAreTyped DEF ResolveDone, TasksOf, PushesOf
  <1>d. app' = CASE ~IsCurrent(a, p.owner) -> a
                 [] IsCurrent(a, p.owner) /\ p.answer.as = "synced" -> TakeAnswer(closed, p, yes)
                 [] IsCurrent(a, p.owner) /\ p.answer.as = "conflict" -> TakeAnswer(syncing, p, yes)
                 [] OTHER -> TakeAnswer(a, p, yes)
    BY DEF ResolveDone, ShowingOverlay
  <1>x. \A E : UploadsOver(app, E) => X \subseteq E
    BY <1>p DEF UploadsOver, TaskOver
  <1>y. p.answer.as = "synced" => p.answer.etag \in X
    OBVIOUS
  <1> HIDE DEF yes, X
  <1>a. /\ a \in Apps
        /\ SameSession(app, a) /\ SameDocument(app, a) /\ SameSave(app, a) /\ SameBinding(app, a)
        /\ SameStatus(app, a) /\ a.slot = app.slot /\ a.awaiting = app.awaiting
        /\ a.auto = app.auto /\ a.tasks = app.tasks \ {p}
    BY <1>k, WithoutFields
  <1>w. KeepsOthers(app, a, X)
    BY <1>k, WithoutKept
  <1>c. \A s : IsCurrent(a, s) <=> IsCurrent(app, s)
    BY <1>a DEF IsCurrent, SyncSession, SameSession, InMemory
  <1>o. overlay \in {"none", "edit", "connect", "conflict"}
    BY <1>a DEF AppsOf
  <1> HIDE DEF a, overlay
  <1>1. Core(a)
    BY <1>a, <1>k, <1>p, GoneCore DEF SameStatus
  <1>2. CASE ~IsCurrent(a, p.owner)
    <2>1. app' = a
      BY <1>2, <1>d
    <2> QED
      BY <1>w, <1>x, <2>1, HeldAlready
  <1>3. CASE IsCurrent(a, p.owner)
    <2>1. OfTheBinding(a, p.etag) /\ InMemory(a)
      BY <1>3, <1>a, <1>c, <1>k, <1>p DEF CurrentIsBound, OfTheBinding, SameBinding, IsCurrent
    <2>2. ASSUME NEW b \in Apps, Core(b), SameSession(a, b), SameDocument(a, b), SameSave(a, b),
                 SameBinding(a, b), b.tasks = a.tasks, app' = TakeAnswer(b, p, yes)
          PROVE  KeepsOthers(app, app', {})
      <3>1. IsCurrent(b, p.owner) /\ OfTheBinding(b, p.etag)
        BY <1>3, <2>1, <2>2
        DEF IsCurrent, SyncSession, SameSession, InMemory, OfTheBinding, SameBinding
      <3>2. KeepsOthers(a, b, X)
        BY <2>2, NoTaskMore
      <3>3. KeepsOthers(b, app', X)
        BY <1>k, <1>p, <1>y, <2>2, <3>1, TakeAnswerKept
      <3>4. KeepsOthers(app, b, X)
        BY <1>w, <3>2, KeepsOthersTwice
      <3>5. KeepsOthers(app, app', X)
        BY <3>3, <3>4, KeepsOthersTwice
      <3> QED
        BY <1>x, <3>5, HeldAlready
    <2>3. CASE p.answer.as = "synced"
      <3>1. /\ closed \in Apps
            /\ SameSession(a, closed) /\ SameDocument(a, closed) /\ SameSave(a, closed)
            /\ SameBinding(a, closed) /\ SameStatus(a, closed) /\ SameMarks(a, closed)
        BY <1>a, <1>o, ShowingFields
      <3>d. app' = TakeAnswer(closed, p, yes)
        BY <1>3, <1>d, <2>3
      <3> HIDE DEF closed
      <3>2. Core(closed)
        BY <1>1, <3>1, ScreenCore DEF SameSession, SameStatus, InMemory
      <3>3. closed.tasks = a.tasks
        BY <3>1 DEF SameMarks
      <3> QED
        BY <2>2, <3>1, <3>2, <3>3, <3>d
    <2>4. CASE p.answer.as = "conflict"
      <3>1. "Syncing" \in Statuses /\ a.binding # None
        BY <2>1 DEF Statuses, Busy, OfTheBinding
      <3>2. /\ syncing \in Apps /\ Core(syncing)
            /\ SameSession(a, syncing) /\ SameDocument(a, syncing) /\ SameSave(a, syncing)
            /\ SameBinding(a, syncing) /\ SameMarks(a, syncing)
        BY <1>1, <1>a, <2>1, <3>1, RouteKeeps
      <3>d. app' = TakeAnswer(syncing, p, yes)
        BY <1>3, <1>d, <2>4
      <3> HIDE DEF syncing
      <3>3. syncing.tasks = a.tasks
        BY <3>2 DEF SameMarks
      <3> QED
        BY <2>2, <3>2, <3>3, <3>d
    <2>5. CASE p.answer.as \notin {"synced", "conflict"}
      <3>d. app' = TakeAnswer(a, p, yes)
        BY <1>3, <1>d, <2>5
      <3>1. SameSession(a, a) /\ SameDocument(a, a) /\ SameSave(a, a) /\ SameBinding(a, a)
        BY DEF SameSession, SameDocument, SameSave, SameBinding
      <3> QED
        BY <1>1, <1>a, <2>2, <3>1, <3>d
    <2> QED
      BY <2>3, <2>4, <2>5
  <1> QED
    BY <1>2, <1>3

LEMMA PullDoneKept ==
  ASSUME EngineInv, NEW p \in app.tasks, PullDone(p)
  PROVE  KeepsOthers(app, app', {})
  <1> DEFINE Apps == AppsOf(Settled, OurBytes, TrueBindings, TrueCopies)
             a == PullGone(app, p)
             no == FALSE
  <1>k. /\ app \in Apps /\ Core(app) /\ Over(Settled, OurBytes, TrueBindings, TrueCopies)
    BY Known
  <1>p. p.kind = "pull" /\ p.phase = "done"
    BY DEF PullDone, TasksOf
  <1>d. \/ app' = Route(a, "Reconnect") \/ app' = Route(a, "Synced")
        \/ app' = HandleRemote(a, p.owner, p.answer, no) \/ app' = a
    BY DEF PullDone, PullGone
  <1> HIDE DEF no
  <1>a. /\ a \in Apps
        /\ SameSession(app, a) /\ SameDocument(app, a) /\ SameSave(app, a) /\ SameBinding(app, a)
        /\ SameStatus(app, a) /\ a.slot = app.slot /\ a.awaiting = app.awaiting
        /\ ~a.auto /\ a.tasks = app.tasks \ {p}
    BY <1>k, PullGoneFields
  <1> HIDE DEF a
  <1>1. Core(a)
    BY <1>a, <1>k, <1>p, GoneCore DEF SameStatus
  <1>2. IsFiniteSet(a.tasks)
    BY <1>1 DEF Core, Numbered
  <1>s. "Reconnect" \in Statuses /\ "Synced" \in Statuses
    BY DEF Statuses, Resting
  <1>3. KeepsOthers(app, a, {})
    BY <1>a, NoTaskMore
  <1>4. KeepsOthers(a, a, {})
    BY NoTaskMore DEF SameSession, SameDocument, SameSave, SameBinding
  <1>5. KeepsOthers(a, app', {})
    BY <1>2, <1>4, <1>a, <1>d, <1>k, <1>s, RouteKept, HandleRemoteKept
  <1> QED
    BY <1>3, <1>5, KeepsOthersTwice

LEMMA DecryptDoneKept ==
  ASSUME EngineInv, NEW d \in app.tasks, NEW unreadable \in BOOLEAN, DecryptDone(d, unreadable)
  PROVE  KeepsOthers(app, app', {})
  <1> DEFINE Apps == AppsOf(Settled, OurBytes, TrueBindings, TrueCopies)
             a == Without(app, d)
             mine == DecryptGone(app, d)
  <1>k. /\ app \in Apps /\ Over(Settled, OurBytes, TrueBindings, TrueCopies)
        /\ MergesHoldTheDocument(app)
    BY Known
  <1>p. d \in DecryptsOf(Settled, TrueCopies) /\ d.kind = "decrypt"
    BY TasksAreTyped DEF DecryptDone
  <1>d. \/ app' = a \/ app' = mine \/ app' = Route(mine, "Failed")
        \/ app' = ContinueRemote(mine, d) /\ IsCurrent(a, d.owner)
    BY DEF DecryptDone, DecryptGone
  <1>a. /\ SameSession(app, a) /\ SameDocument(app, a) /\ SameSave(app, a) /\ SameBinding(app, a)
        /\ a.tasks = app.tasks \ {d}
    BY <1>k, WithoutFields
  <1>m. /\ mine \in Apps
        /\ SameSession(app, mine) /\ SameDocument(app, mine) /\ SameSave(app, mine)
        /\ SameBinding(app, mine) /\ mine.tasks = app.tasks \ {d}
    BY <1>k, DecryptGoneFields
  <1>c. \A s : (IsCurrent(a, s) <=> IsCurrent(app, s)) /\ (IsCurrent(mine, s) <=> IsCurrent(app, s))
    BY <1>a, <1>m DEF IsCurrent, SyncSession, SameSession, InMemory
  <1> HIDE DEF a, mine
  <1>1. KeepsOthers(app, a, {}) /\ KeepsOthers(app, mine, {})
    BY <1>a, <1>m, NoTaskMore
  <1>2. CASE app' = Route(mine, "Failed")
    <2>1. "Failed" \in Statuses
      BY DEF Statuses
    <2>2. KeepsOthers(mine, app', {})
      BY <1>2, <1>m, <2>1, RouteKept
    <2> QED
      BY <1>1, <2>2, KeepsOthersTwice
  <1>3. CASE app' = ContinueRemote(mine, d) /\ IsCurrent(a, d.owner)
    <2>1. IsCurrent(app, d.owner) /\ IsCurrent(mine, d.owner)
      BY <1>3, <1>c
    <2>2. d.base = mine.gen => d.local = mine.doc
      BY <1>k, <1>m, <1>p, <2>1 DEF MergesHoldTheDocument, SameDocument
    <2>3. [edits |-> d.theirs, etag |-> d.etag] \in TrueCopies
      BY <1>p DEF DecryptsOf
    <2>4. d.etag = remotes[d.etag.remote].etag => d.theirs = remotes[d.etag.remote].edits
      BY <2>3 DEF TrueCopies
    <2>5. KeepsOthers(mine, app', {})
      BY <1>3, <1>k, <1>m, <1>p, <2>1, <2>2, <2>4, ContinueRemoteKept
    <2> QED
      BY <1>1, <2>5, KeepsOthersTwice
  <1> QED
    BY <1>1, <1>2, <1>3, <1>d

LEMMA RestoreDoneKept ==
  ASSUME EngineInv, NEW t \in app.tasks, RestoreDone(t)
  PROVE  KeepsOthers(app, app', {})
  <1> DEFINE Apps == AppsOf(Settled, OurBytes, TrueBindings, TrueCopies)
             X == IF t.answer.as = "restored" THEN {t.answer.cfg.etag} ELSE {}
             a == Without(app, t)
             b1 == Bound(a, t.answer.cfg)
             b2 == Unawaited(b1)
             bound == Route(b2, "Idle")
  <1>k. app \in Apps /\ Over(Settled, OurBytes, TrueBindings, TrueCopies)
    BY Known
  <1>p. t \in RestoresOf(TrueBindings) /\ t.kind = "restore" /\ t.answer # None
    BY TasksAreTyped DEF RestoreDone, TasksOf, RestoresOf
  <1>d. app' = CASE ~IsCurrent(a, t.owner) -> a
                 [] IsCurrent(a, t.owner) /\ t.answer.as = "restored" -> StartQueued(bound, a.awaiting)
                 [] IsCurrent(a, t.owner) /\ t.answer.as = "gone" -> Route(a, "Disconnected")
                 [] OTHER -> Route(a, IF t.answer.as = "grant" THEN "Reconnect" ELSE "Failed")
    BY DEF RestoreDone, Bound, Unawaited
  <1>x. \A E : UploadsOver(app, E) => X \subseteq E
    BY <1>p DEF UploadsOver, TaskOver
  <1>y. t.answer.as = "restored" => t.answer.cfg.etag \in X
    OBVIOUS
  <1> HIDE DEF X
  <1>a. a \in Apps /\ KeepsOthers(app, a, X)
    BY <1>k, WithoutFields, WithoutKept
  <1> HIDE DEF a
  <1>s. "Idle" \in Statuses /\ "Disconnected" \in Statuses /\ "Reconnect" \in Statuses /\ "Failed" \in Statuses
    BY DEF Statuses, Resting
  <1>1. CASE t.answer.as = "restored" /\ app' = StartQueued(bound, a.awaiting)
    <2>1. t.answer.cfg \in TrueBindings
      BY <1>1, <1>p DEF RestoresOf, AnswersOf, BoundAnswers
    <2>2. /\ b1 \in Apps
          /\ SameSession(a, b1) /\ SameDocument(a, b1) /\ SameSave(a, b1) /\ SameStatus(a, b1)
          /\ SameMarks(a, b1) /\ b1.binding = t.answer.cfg /\ b1.cfg = a.cfg
      BY <1>a, <2>1, BoundFields
    <2> HIDE DEF b1
    <2>3. \A E : X \subseteq E /\ UploadsOver(a, E) => UploadsOver(b1, E)
      BY <1>1, <1>y, <2>2 DEF UploadsOver, SameMarks
    <2>4. Firm(a) \subseteq Firm(b1) /\ (MergesHoldTheCopy(a) => MergesHoldTheCopy(b1))
      BY <2>2, SameIsFirm DEF SameSession, SameDocument, SameSave
    <2>5. KeepsOthers(a, b1, X)
      BY <2>2, <2>3, <2>4 DEF KeepsOthers, SameMarks
    <2>6. /\ b2 \in Apps
          /\ SameSession(b1, b2) /\ SameDocument(b1, b2) /\ SameSave(b1, b2) /\ SameBinding(b1, b2)
          /\ b2.tasks = b1.tasks
      BY <2>2, UnawaitedFields
    <2> HIDE DEF b2
    <2>7. KeepsOthers(b1, b2, X)
      BY <2>6, NoTaskMore
    <2>8. bound \in Apps /\ KeepsOthers(b2, bound, X)
      BY <1>s, <2>6, RouteFields, RouteKept
    <2> HIDE DEF bound
    <2>9. a.awaiting \in RequestsOf(OurBytes) \cup {None}
      BY <1>a DEF AppsOf
    <2>10. KeepsOthers(bound, app', X)
      BY <1>1, <1>k, <2>8, <2>9, StartQueuedKept
    <2>11. KeepsOthers(app, b1, X)
      BY <1>a, <2>5, KeepsOthersTwice
    <2>12. KeepsOthers(app, b2, X)
      BY <2>7, <2>11, KeepsOthersTwice
    <2>13. KeepsOthers(app, bound, X)
      BY <2>8, <2>12, KeepsOthersTwice
    <2>14. KeepsOthers(app, app', X)
      BY <2>10, <2>13, KeepsOthersTwice
    <2> QED
      BY <1>x, <2>14, HeldAlready
  <1>2. CASE app' = a
    BY <1>2, <1>a, <1>x, HeldAlready
  <1>3. CASE app' = Route(a, "Disconnected") \/ app' = Route(a, "Reconnect") \/ app' = Route(a, "Failed")
    <2>1. KeepsOthers(a, app', X)
      BY <1>3, <1>a, <1>s, RouteKept
    <2>2. KeepsOthers(app, app', X)
      BY <1>a, <2>1, KeepsOthersTwice
    <2> QED
      BY <1>x, <2>2, HeldAlready
  <1> HIDE DEF bound
  <1> QED
    BY <1>1, <1>2, <1>3, <1>d

LEMMA PublishDoneKept ==
  ASSUME EngineInv, NEW t \in app.tasks, PublishDone(t)
  PROVE  KeepsOthers(app, app', {})
  <1> DEFINE Apps == AppsOf(Settled, OurBytes, TrueBindings, TrueCopies)
             X == IF t.answer.as = "restored" THEN {t.answer.cfg.etag} ELSE {}
             a == Without(app, t)
             bound == Bound(a, t.answer.cfg)
  <1>k. app \in Apps
    BY Known
  <1>p. t \in PublishesOf(OurBytes, TrueBindings) /\ t.kind = "publish" /\ t.answer # None
    BY TasksAreTyped DEF PublishDone, TasksOf, PublishesOf
  <1>d. \/ app' = a \/ app' = Route(a, "Failed")
        \/ app' = Route(bound, "Idle") /\ t.answer.as # "refused"
    BY DEF PublishDone, Bound
  <1>x. \A E : UploadsOver(app, E) => X \subseteq E
    BY <1>p DEF UploadsOver, TaskOver
  <1>y. t.answer.as = "restored" => t.answer.cfg.etag \in X
    OBVIOUS
  <1> HIDE DEF X
  <1>a. a \in Apps /\ KeepsOthers(app, a, X)
    BY <1>k, WithoutFields, WithoutKept
  <1> HIDE DEF a
  <1>s. "Idle" \in Statuses /\ "Failed" \in Statuses
    BY DEF Statuses, Resting
  <1>1. CASE app' = Route(bound, "Idle") /\ t.answer.as # "refused"
    <2>1. t.answer.cfg \in TrueBindings /\ t.answer.as = "restored"
      BY <1>1, <1>p DEF PublishesOf, AnswersOf, BoundAnswers
    <2>2. /\ bound \in Apps
          /\ SameSession(a, bound) /\ SameDocument(a, bound) /\ SameSave(a, bound)
          /\ SameMarks(a, bound) /\ bound.binding = t.answer.cfg /\ bound.cfg = a.cfg
      BY <1>a, <2>1, BoundFields
    <2> HIDE DEF bound
    <2>3. \A E : X \subseteq E /\ UploadsOver(a, E) => UploadsOver(bound, E)
      BY <1>y, <2>1, <2>2 DEF UploadsOver, SameMarks
    <2>4. Firm(a) \subseteq Firm(bound) /\ (MergesHoldTheCopy(a) => MergesHoldTheCopy(bound))
      BY <2>2, SameIsFirm DEF SameSession, SameDocument, SameSave
    <2>5. KeepsOthers(a, bound, X)
      BY <2>2, <2>3, <2>4 DEF KeepsOthers, SameMarks
    <2>6. KeepsOthers(bound, app', X)
      BY <1>1, <1>s, <2>2, RouteKept
    <2>7. KeepsOthers(app, bound, X)
      BY <1>a, <2>5, KeepsOthersTwice
    <2>8. KeepsOthers(app, app', X)
      BY <2>6, <2>7, KeepsOthersTwice
    <2> QED
      BY <1>x, <2>8, HeldAlready
  <1>2. CASE app' = a
    BY <1>2, <1>a, <1>x, HeldAlready
  <1>3. CASE app' = Route(a, "Failed")
    <2>1. KeepsOthers(a, app', X)
      BY <1>3, <1>a, <1>s, RouteKept
    <2>2. KeepsOthers(app, app', X)
      BY <1>a, <2>1, KeepsOthersTwice
    <2> QED
      BY <1>x, <2>2, HeldAlready
  <1> HIDE DEF bound
  <1> QED
    BY <1>1, <1>2, <1>3, <1>d

\* A save that is gone held what was firm, so the document may be what it held.
LEMMA FreedKept ==
  ASSUME EngineInv, app.save # None, NEW doc, NEW gen, NEW unsaved \in BOOLEAN,
         \/ doc = app.doc /\ gen = app.gen
         \/ doc = app.save.edits /\ gen = NewGen
  PROVE  KeepsOthers(app, Freed(app, doc, gen, unsaved), {})
  <1> DEFINE b == Freed(app, doc, gen, unsaved)
  <1>1. /\ SameBinding(app, b) /\ SameMarks(app, b) /\ b.save = None /\ b.doc = doc
        /\ app.place # "locked"
    BY FreedCore
  <1> HIDE DEF b
  <1>2. \A E : UploadsOver(app, E) => UploadsOver(b, E)
    BY <1>1 DEF UploadsOver, SameBinding, SameMarks
  <1>3. Firm(app) \subseteq Firm(b) /\ MergesHoldTheCopy(b)
    BY <1>1 DEF Firm, MergesHoldTheCopy
  <1>4. KeepsOthers(app, b, {})
    BY <1>1, <1>2, <1>3 DEF KeepsOthers, SameMarks
  <1> QED
    BY <1>4 DEF b

LEMMA SaveDoneKept ==
  ASSUME EngineInv, SaveDone
  PROVE  KeepsOthers(app, app', {})
  <1> DEFINE Apps == AppsOf(Settled, OurBytes, TrueBindings, TrueCopies)
             save == app.save
             unsaved == save.result # "written" \/ save.pending
             freed == Freed(app, app.doc, app.gen, unsaved)
             again == save.pendingSync \/ save.sync
             bytes == Edited(save.edits, save.rev)
             yes == TRUE
  <1>k. app \in Apps /\ Over(Settled, OurBytes, TrueBindings, TrueCopies)
    BY Known
  <1>p. save # None /\ save \in SavesOf(Settled) /\ save.result # "running"
    BY <1>k DEF SaveDone, Finished, AppsOf
  <1>u. unsaved \in BOOLEAN /\ again \in BOOLEAN /\ yes \in BOOLEAN
    BY <1>p DEF SavesOf
  <1>f. [app EXCEPT !.save = None, !.unsaved = unsaved] = freed
    BY <1>k DEF Freed, AppsOf
  <1>d. \/ app' = RequestSave(freed, again) \/ app' = freed \/ app' = LockNow(freed)
        \/ app' = PushNow(freed, SyncSession(freed), yes, bytes) /\ save.result = "written"
    BY <1>f DEF SaveDone
  <1> HIDE DEF unsaved, yes, again
  <1>1. freed \in Apps /\ freed.place # "locked"
    BY <1>p, <1>u, FreedCore
  <1>2. KeepsOthers(app, freed, {})
    BY <1>p, <1>u, FreedKept
  <1> HIDE DEF freed
  <1>3. CASE app' = RequestSave(freed, again) \/ app' = LockNow(freed)
    <2>1. KeepsOthers(freed, app', {})
      BY <1>1, <1>3, <1>k, <1>u, RequestSaveKept, LockNowKept
    <2> QED
      BY <1>2, <2>1, KeepsOthersTwice
  <1>4. CASE app' = PushNow(freed, SyncSession(freed), yes, bytes) /\ save.result = "written"
    <2>1. bytes \in OurBytes \cup {None}
      BY <1>4, <1>p, WrittenIsTheFile
    <2>2. SyncSession(freed) \in SyncSessions
      BY <1>1, CurrentSession
    <2> HIDE DEF bytes
    <2>3. KeepsOthers(freed, app', {})
      BY <1>1, <1>4, <1>k, <1>u, <2>1, <2>2, PushNowKept
    <2> QED
      BY <1>2, <2>3, KeepsOthersTwice
  <1> HIDE DEF bytes, save
  <1> QED
    BY <1>2, <1>3, <1>4, <1>d

LEMMA MergeWriteFailedKept ==
  ASSUME EngineInv, MergeWriteFailed
  PROVE  KeepsOthers(app, app', {})
  <1> DEFINE Apps == AppsOf(Settled, OurBytes, TrueBindings, TrueCopies)
             save == app.save
             kept == ~save.pending /\ app.place = "deferred" /\ app.gen = save.merge.base
             doc == IF kept THEN save.edits ELSE app.doc
             gen == IF kept THEN NewGen ELSE app.gen
             freed == Freed(app, doc, gen, app.unsaved)
             told == RouteFor(freed, save.merge.owner, "Failed")
             yes == TRUE
  <1>k. app \in Apps /\ Over(Settled, OurBytes, TrueBindings, TrueCopies)
    BY Known
  <1>p. save # None
    BY DEF MergeWriteFailed, Finished
  <1>f. [app EXCEPT !.save = None, !.doc = IF kept THEN save.edits ELSE @,
                    !.gen = IF kept THEN NewGen ELSE @] = freed
    BY <1>k DEF Freed, AppsOf
  <1>d. app' = RequestSave(told, yes) \/ app' = told
    BY <1>f DEF MergeWriteFailed
  <1>u. app.unsaved \in BOOLEAN /\ yes \in BOOLEAN
    BY <1>k DEF AppsOf
  <1>g. (doc = app.doc /\ gen = app.gen) \/ (doc = save.edits /\ gen = NewGen)
    OBVIOUS
  <1> HIDE DEF doc, gen, yes
  <1>1. freed \in Apps /\ Core(freed) /\ freed.place # "locked"
    BY <1>g, <1>p, <1>u, FreedCore
  <1>2. KeepsOthers(app, freed, {})
    BY <1>g, <1>p, <1>u, FreedKept
  <1> HIDE DEF freed
  <1>3. told \in Apps /\ SameSession(freed, told)
    BY <1>1, RouteForKeeps
  <1>4. KeepsOthers(freed, told, {})
    <2>1. "Failed" \in Statuses
      BY DEF Statuses
    <2> QED
      BY <1>1, <2>1, RouteForKept
  <1> HIDE DEF told
  <1>5. KeepsOthers(app, told, {})
    BY <1>2, <1>4, KeepsOthersTwice
  <1>6. CASE app' = RequestSave(told, yes)
    <2>1. told.place # "locked"
      BY <1>1, <1>3 DEF SameSession
    <2>2. KeepsOthers(told, app', {})
      BY <1>3, <1>6, <1>k, <1>u, <2>1, RequestSaveKept
    <2> QED
      BY <1>5, <2>2, KeepsOthersTwice
  <1> QED
    BY <1>5, <1>6, <1>d

LEMMA MergeWriteOutdatedKept ==
  ASSUME EngineInv, MergeWriteOutdated
  PROVE  KeepsOthers(app, app', {})
  <1> DEFINE freed == Freed(app, app.doc, app.gen, app.unsaved)
             yes == TRUE
  <1>k. /\ app \in AppsOf(Settled, OurBytes, TrueBindings, TrueCopies)
        /\ Over(Settled, OurBytes, TrueBindings, TrueCopies)
    BY Known
  <1>f. [app EXCEPT !.save = None] = freed
    BY <1>k DEF Freed, AppsOf
  <1>d. app' = RequestSave(freed, yes) /\ app.save # None
    BY <1>f DEF MergeWriteOutdated, Finished
  <1>u. app.unsaved \in BOOLEAN /\ yes \in BOOLEAN
    BY <1>k DEF AppsOf
  <1> HIDE DEF yes
  <1>1. /\ freed \in AppsOf(Settled, OurBytes, TrueBindings, TrueCopies)
        /\ freed.place # "locked"
    BY <1>d, <1>u, FreedCore
  <1>2. KeepsOthers(app, freed, {})
    BY <1>d, <1>u, FreedKept
  <1> HIDE DEF freed
  <1>3. KeepsOthers(freed, app', {})
    BY <1>1, <1>d, <1>k, <1>u, RequestSaveKept
  <1> QED
    BY <1>2, <1>3, KeepsOthersTwice

\* The merge that is installed brings its revision, and what it holds is firm.
LEMMA MergeInstalledKept ==
  ASSUME EngineInv, MergeInstalled
  PROVE  LET m == app.save.merge
             X == IF IsCurrent(app, m.owner) THEN {m.etag} ELSE {}
         IN  /\ KeepsOthers(app, app', X) /\ app.save.edits \subseteq Firm(app')
             /\ app.save # None /\ m # None
  <1> DEFINE Apps == AppsOf(Settled, OurBytes, TrueBindings, TrueCopies)
             save == app.save
             m == save.merge
             X == IF IsCurrent(app, m.owner) THEN {m.etag} ELSE {}
             durable == save.result = "written"
             unsaved == ~durable \/ save.pending
             installed == Freed(app, save.edits, NewGen, unsaved)
             told == IF durable THEN installed ELSE RouteFor(installed, m.owner, "Failed")
             bytes == Edited(save.edits, save.rev)
             based == RecordBaseline(told, m.owner, m.etag, save.rev)
             yes == TRUE
  <1>k. /\ app \in Apps /\ Core(app) /\ Over(Settled, OurBytes, TrueBindings, TrueCopies)
        /\ SavesAreTrue(app) /\ CurrentIsBound(app)
    BY Known
  <1>p. /\ save # None /\ save \in SavesOf(Settled) /\ m # None /\ m \in MergeMarks
        /\ save.result \in {"written", "undurable"}
    BY <1>k DEF MergeInstalled, Finished, AppsOf, SavesOf, MovedOn
  <1>f. [app EXCEPT !.save = None, !.doc = save.edits, !.gen = NewGen, !.unsaved = unsaved] = installed
    BY <1>k DEF Freed, AppsOf
  <1>d. \/ app' = RequestSave(told, yes) \/ app' = told \/ app' = LockNow(told)
        \/ app' = RouteFor(based, m.owner, "Synced") /\ ~m.needsUpload
        \/ /\ app' = Spawn(told, PushTask(told, m.owner, yes, bytes, m.etag, yes))
           /\ IsCurrent(told, m.owner)
    <2>1. app' = CASE save.pending -> RequestSave(told, yes)
                   [] ~save.pending /\ ~durable -> told
                   [] ~save.pending /\ durable /\ app.place = "deferred" -> LockNow(told)
                   [] ~save.pending /\ durable /\ InMemory(told) /\ ~m.needsUpload ->
                         RouteFor(based, m.owner, "Synced")
                   [] OTHER ->
                         IF IsCurrent(told, m.owner)
                           THEN Spawn(told, PushTask(told, m.owner, yes, bytes, m.etag, yes))
                           ELSE told
      BY <1>f DEF MergeInstalled
    <2> HIDE DEF told, based, bytes, durable, m, yes, save
    <2> QED
      BY <2>1
  <1>v. unsaved \in BOOLEAN /\ yes \in BOOLEAN
    BY <1>p DEF SavesOf
  <1>w. bytes \in OurBytes /\ save.edits = file.edits /\ save.rev = file.rev
    BY <1>p, WrittenIsTheFile
  <1>e. m.etag \in Etags
    BY <1>p DEF MergeMarks
  <1>t. "Failed" \in Statuses /\ "Synced" \in Statuses
    BY DEF Statuses, Resting
  <1>x. IsCurrent(app, m.owner) => m.etag \in X
    OBVIOUS
  <1> HIDE DEF unsaved, yes, bytes, X
  <1>1. /\ installed \in Apps /\ Core(installed)
        /\ SameSession(app, installed) /\ SameBinding(app, installed)
        /\ installed.save = None /\ installed.doc = save.edits
        /\ app.place # "locked"
    BY <1>p, <1>v, FreedCore
  <1>2. KeepsOthers(app, installed, {})
    BY <1>p, <1>v, FreedKept
  <1>3. KeepsOthers(app, installed, X)
    BY <1>2 DEF KeepsOthers
  <1>i. KeepsOthers(installed, installed, X)
    BY NoTaskMore DEF SameSession, SameDocument, SameSave, SameBinding
  <1> HIDE DEF installed
  <1>4. /\ told \in Apps /\ Core(told) /\ SameSession(installed, told) /\ SameDocument(installed, told)
        /\ SameSave(installed, told) /\ SameBinding(installed, told)
    <2>1. CASE durable
      BY <1>1, <2>1 DEF SameSession, SameDocument, SameSave, SameBinding
    <2>2. CASE ~durable
      <3>1. told = RouteFor(installed, m.owner, "Failed")
        BY <2>2
      <3> QED
        BY <1>1, <3>1, RouteForKeeps
    <2> QED
      BY <2>1, <2>2
  <1>5. KeepsOthers(installed, told, X)
    BY <1>1, <1>i, <1>t, RouteForKept
  <1> HIDE DEF told
  <1>6. KeepsOthers(app, told, X)
    BY <1>3, <1>5, KeepsOthersTwice
  <1>7. /\ told.place # "locked" /\ told.doc = save.edits /\ told.save = None
        /\ SameSession(app, told) /\ SameBinding(app, told)
    BY <1>1, <1>4 DEF SameSession, SameDocument, SameSave, SameBinding
  <1>8. save.edits \subseteq Firm(told)
    BY <1>7, <1>w DEF Firm
  <1>c. IsCurrent(told, m.owner) <=> IsCurrent(app, m.owner)
    BY <1>7 DEF IsCurrent, SyncSession, SameSession, InMemory
  <1>o. IsCurrent(told, m.owner) => told.binding # None /\ m.etag.remote = told.binding.remote
    BY <1>7, <1>c, <1>k, <1>p DEF CurrentIsBound, OfTheBinding, SameBinding
  <1>9. KeepsOthers(told, told, X)
    BY NoTaskMore DEF SameSession, SameDocument, SameSave, SameBinding
  \* Whatever follows the installation.
  <1>10. KeepsOthers(told, app', X)
    <2>1. CASE app' = RequestSave(told, yes)
      BY <1>4, <1>7, <1>k, <1>v, <2>1, RequestSaveKept
    <2>2. CASE app' = told
      BY <1>9, <2>2
    <2>3. CASE app' = LockNow(told)
      BY <1>4, <1>k, <2>3, LockNowKept
    <2>4. CASE app' = RouteFor(based, m.owner, "Synced") /\ ~m.needsUpload
      <3>1. IsCurrent(told, m.owner) => m.etag \in X
        BY <1>c, <1>x
      <3>2. KeepsOthers(told, based, X)
        BY <1>4, <3>1, RecordBaselineKept
      <3>3. ASSUME IsCurrent(told, m.owner)
            PROVE  [remote |-> told.binding.remote, etag |-> m.etag, uploaded |-> save.rev] \in TrueBindings
        <4>1. told.binding.remote \in Remotes /\ m.etag.remote = told.binding.remote
          BY <1>e, <1>o, <3>3 DEF Etags
        <4>2. Covers(told.binding.remote, m.etag, save.rev)
          BY <1>k, <1>p, <1>w, <2>4, <4>1 DEF SavesAreTrue, Covers
        <4>3. save.rev \in Nat
          BY <1>p DEF SavesOf
        <4> QED
          BY <1>e, <4>1, <4>2, <4>3 DEF TrueBindings
      <3>4. based \in Apps
        BY <1>4, <1>k, <3>3, RecordBaselineKeeps
      <3> HIDE DEF based
      <3>5. KeepsOthers(based, app', X)
        BY <1>t, <2>4, <3>4, RouteForKept
      <3> QED
        BY <3>2, <3>5, KeepsOthersTwice
    <2>5. CASE /\ app' = Spawn(told, PushTask(told, m.owner, yes, bytes, m.etag, yes))
               /\ IsCurrent(told, m.owner)
      <3> DEFINE t == PushTask(told, m.owner, yes, bytes, m.etag, yes)
      <3>1. m.etag \in X
        BY <1>c, <1>x, <2>5
      <3>2. t.kind # "publish" /\ \A E : X \subseteq E => TaskOver(t, E)
        BY <3>1, PushTaskOver
      <3>3. app' = Spawn(told, t)
        BY <2>5
      <3> HIDE DEF t
      <3>4. /\ SameSession(told, app') /\ SameDocument(told, app') /\ SameSave(told, app')
            /\ SameBinding(told, app') /\ app'.tasks = told.tasks \cup {t}
        BY <1>4, <3>3, SpawnedFields
      <3> QED
        BY <3>2, <3>4, OneTaskMore
    <2> HIDE DEF based
    <2> QED
      BY <1>d, <2>1, <2>2, <2>3, <2>4, <2>5
  <1>11. KeepsOthers(app, app', X)
    BY <1>6, <1>10, KeepsOthersTwice
  <1>12. save.edits \subseteq Firm(app')
    BY <1>8, <1>10 DEF KeepsOthers
  <1> QED
    BY <1>11, <1>12, <1>p DEF X

LEMMA FailSaveKept ==
  ASSUME EngineInv, FailSave
  PROVE  KeepsOthers(app, app', {})
  <1>p. app.save # None /\ app' = [app EXCEPT !.save = [@ EXCEPT !.result = "failed"]]
    BY DEF FailSave
  <1>k. /\ app \in AppsOf(Settled, OurBytes, TrueBindings, TrueCopies)
        /\ Over(Settled, OurBytes, TrueBindings, TrueCopies)
    BY Known
  <1>1. app.save \in SavesOf(Settled)
    BY <1>k, <1>p DEF AppsOf
  <1> DEFINE s == [app.save EXCEPT !.result = "failed"]
  <1>2. s.edits = app.save.edits /\ s.merge = app.save.merge
    BY <1>1 DEF SavesOf
  <1>3. app' = [app EXCEPT !.save = s]
    BY <1>p
  <1> HIDE DEF s
  <1>4. /\ app'.place = app.place /\ app'.doc = app.doc /\ app'.binding = app.binding
        /\ app'.cfg = app.cfg /\ app'.tasks = app.tasks /\ app'.save = s
    BY <1>3, <1>k DEF AppsOf
  <1>5. \A E : UploadsOver(app, E) => UploadsOver(app', E)
    BY <1>4 DEF UploadsOver
  <1>6. Firm(app) \subseteq Firm(app') /\ (MergesHoldTheCopy(app) => MergesHoldTheCopy(app'))
    BY <1>2, <1>4, <1>p DEF Firm, MergesHoldTheCopy
  <1> QED
    BY <1>4, <1>5, <1>6 DEF KeepsOthers

LEMMA EditKept ==
  ASSUME EngineInv, NEW e \in UserEdits, NEW sync \in BOOLEAN, Edit(e, sync), EngineInv'
  PROVE  KeepsOthers(app, app', {})
  <1> DEFINE doc == app.doc \cup {e}
             overlay == IF app.overlay = "edit" THEN "none" ELSE app.overlay
             w == Mutated(app, doc, NewGen, overlay)
             D == SUBSET AllEdits
             G == {b \in BindingRecords : b.etag.remote = b.remote}
  <1>k. app \in AppsOf(Settled, OurBytes, TrueBindings, TrueCopies)
    BY Known
  <1>p. app.place = "active" /\ app' = RequestSave(w, sync)
    BY DEF Edit, Mutated
  <1>1. Over(D, FileBytes, G, CopyRecords)
    BY DEF Over, FileBytes, CopyRecords
  <1>2. app \in AppsOf(D, FileBytes, G, CopyRecords)
    <2>1. Settled \subseteq D /\ TrueBindings \subseteq G
      BY Known DEF Settled, FilesAreSettled, TrueBindings, BindingRecords
    <2>2. OurBytes \subseteq FileBytes /\ TrueCopies \subseteq CopyRecords
      BY <2>1 DEF OurBytes, FileBytes, TrueCopies, CopyRecords
    <2> QED
      BY <1>1, <1>k, <2>1, <2>2, LargerSets
  <1>3. /\ doc \in D /\ NewGen \in Nat /\ overlay \in {"none", "edit", "connect", "conflict"}
        /\ app.doc \subseteq doc
    BY <1>2, Known, FreshGen DEF AppsOf, AllEdits
  <1> HIDE DEF doc, overlay, D, G
  <1>4. /\ w \in AppsOf(D, FileBytes, G, CopyRecords)
        /\ SameSession(app, w) /\ SameSave(app, w) /\ SameBinding(app, w)
        /\ SameMarks(app, w) /\ w.doc = doc
    BY <1>2, <1>3, MutatedFields
  <1> HIDE DEF w
  <1>5. \A E : UploadsOver(app, E) => UploadsOver(w, E)
    BY <1>4 DEF UploadsOver, SameBinding, SameMarks
  <1>6. Firm(app) \subseteq Firm(w) /\ (MergesHoldTheCopy(app) => MergesHoldTheCopy(w))
    BY <1>3, <1>4, <1>p DEF Firm, MergesHoldTheCopy, SameSession, SameSave
  <1>7. KeepsOthers(app, w, {})
    BY <1>4, <1>5, <1>6 DEF KeepsOthers, SameMarks
  <1>8. w.place # "locked"
    BY <1>4, <1>p DEF SameSession
  <1>9. KeepsOthers(w, app', {})
    BY <1>1, <1>4, <1>8, <1>p, RequestSaveKept
  <1> QED
    BY <1>7, <1>9, KeepsOthersTwice

LEMMA ResolveKept ==
  ASSUME EngineInv, Resolve
  PROVE  KeepsOthers(app, app', {})
  <1> DEFINE c == app.conflict
             merged == c.local \cup c.theirs
             yes == TRUE
  <1>k. /\ app \in AppsOf(Settled, OurBytes, TrueBindings, TrueCopies)
        /\ Over(Settled, OurBytes, TrueBindings, TrueCopies)
        /\ MergesHoldTheDocument(app) /\ LockedIsQuiet(app)
    BY Known
  <1>p. app.status = "Conflict" /\ IsCurrent(app, c.owner)
    BY DEF Resolve
  <1>d. app' = CommitMerged(app, c.owner, merged, c.etag, yes, c.base)
    BY DEF Resolve
  <1>1. c # None /\ c \in ConflictsOf(Settled, TrueCopies)
    BY <1>k, <1>p DEF LockedIsQuiet, AppsOf
  <1>2. c.base = app.gen => app.doc \subseteq merged
    BY <1>1, <1>k, <1>p DEF MergesHoldTheDocument
  <1>3. [edits |-> c.theirs, etag |-> c.etag] \in TrueCopies
    BY <1>1 DEF ConflictsOf
  <1>4. c.etag = remotes[c.etag.remote].etag => remotes[c.etag.remote].edits \subseteq merged
    BY <1>3 DEF TrueCopies
  <1> HIDE DEF merged, c, yes
  <1> QED
    BY <1>2, <1>4, <1>d, <1>k, CommitMergedKept

\* What a step may leave of KeptInv: neither the files nor the edits of the other
\* devices change, and where it brings a revision the remote file has, what that
\* file holds is firm.
LEMMA StillKept ==
  ASSUME KeptInv, NEW X, X \subseteq PublishedEtags, KeepsOthers(app, app', X), Numbered(app)',
         file' = file, remotes' = remotes, made' \cap DeviceEdits = made \cap DeviceEdits,
         \A r \in Remotes : Guarded(app, r) /\ remotes[r].etag \in X => remotes[r].edits \subseteq Firm(app')
  PROVE  KeptInv'
  <1>k. /\ OthersAreKept(app) /\ MergesHoldTheCopy(app)
        /\ PublishesAreNew(app) /\ UploadsOver(app, PublishedEtags)
    BY DEF KeptInv
  <1>1. \A r : Published(r)' <=> Published(r)
    BY DEF Published
  <1>2. PublishedEtags' = PublishedEtags
    BY <1>1 DEF PublishedEtags
  <1>3. UploadsOver(app, PublishedEtags)'
    <2>1. UploadsOver(app', PublishedEtags)
      BY <1>k DEF KeepsOthers
    <2> QED
      BY <1>2, <2>1 DEF UploadsOver
  <1>4. MergesHoldTheCopy(app)'
    <2>1. MergesHoldTheCopy(app')
      BY <1>k DEF KeepsOthers
    <2> QED
      BY <2>1 DEF MergesHoldTheCopy
  <1>5. PublishesAreNew(app)'
    <2>1. ASSUME NEW t \in app'.tasks, t.kind = "publish"
          PROVE  /\ t.phase # "done" => ~Published(t.remote)' /\ remotes'[t.remote].edits = {}
                 /\ \A w \in app'.tasks : w.kind = "publish" => w = t
      <3>1. PICK u \in app.tasks : /\ u.kind = "publish" /\ u.id = t.id /\ u.remote = t.remote
                                   /\ t.phase # "done" => u.phase # "done"
        BY <2>1 DEF KeepsOthers
      <3>2. t.phase # "done" => ~Published(t.remote)' /\ remotes'[t.remote].edits = {}
        BY <1>1, <1>k, <3>1 DEF PublishesAreNew
      <3>3. ASSUME NEW w \in app'.tasks, w.kind = "publish" PROVE w = t
        <4>1. PICK v \in app.tasks : v.kind = "publish" /\ v.id = w.id
          BY <3>3 DEF KeepsOthers
        <4>2. v = u
          BY <1>k, <3>1, <4>1 DEF PublishesAreNew
        <4>3. w.id = t.id
          BY <3>1, <4>1, <4>2
        <4> QED
          BY <2>1, <3>3, <4>3 DEF Numbered
      <3> QED
        BY <3>2, <3>3
    <2> QED
      BY <2>1 DEF PublishesAreNew
  <1>6. OthersAreKept(app)'
    <2>1. Firm(app)' = Firm(app')
      BY DEF Firm
    <2>2. \A r \in Remotes : Guarded(app, r)' <=> Guarded(app', r)
      BY DEF Guarded, UploadsOver
    <2>3. ASSUME NEW e \in made' \cap DeviceEdits
          PROVE  e \in Firm(app') \/ \E r \in Remotes : e \in remotes[r].edits /\ Guarded(app', r)
      <3>1. e \in Firm(app) \/ \E r \in Remotes : e \in remotes[r].edits /\ Guarded(app, r)
        BY <1>k, <2>3 DEF OthersAreKept
      <3>2. CASE e \in Firm(app)
        BY <3>2 DEF KeepsOthers
      <3>3. CASE \E r \in Remotes : e \in remotes[r].edits /\ Guarded(app, r)
        <4>1. PICK r \in Remotes : e \in remotes[r].edits /\ Guarded(app, r)
          BY <3>3
        <4>2. CASE remotes[r].etag \in X
          BY <4>1, <4>2
        <4>3. CASE remotes[r].etag \notin X
          <5>1. X \subseteq Etags \ {remotes[r].etag}
            BY <4>3 DEF PublishedEtags
          <5>2. Guarded(app', r)
            BY <4>1, <5>1 DEF Guarded, KeepsOthers
          <5> QED
            BY <4>1, <5>2
        <4> QED
          BY <4>2, <4>3
      <3> QED
        BY <3>1, <3>2, <3>3
    <2> QED
      BY <2>1, <2>2, <2>3 DEF OthersAreKept
  <1> QED
    BY <1>3, <1>4, <1>5, <1>6 DEF KeptInv

LEMMA QuietlyKept ==
  ASSUME KeptInv, KeepsOthers(app, app', {}), Numbered(app)',
         file' = file, remotes' = remotes, made' \cap DeviceEdits = made \cap DeviceEdits
  PROVE  KeptInv'
  <1> DEFINE X == {}
  <1>1. /\ X \subseteq PublishedEtags /\ KeepsOthers(app, app', X)
        /\ \A r \in Remotes : Guarded(app, r) /\ remotes[r].etag \in X => remotes[r].edits \subseteq Firm(app')
    OBVIOUS
  <1> HIDE DEF X
  <1> QED
    BY <1>1, StillKept

LEMMA MergeInstalledStep ==
  ASSUME EngineInv, KeptInv, MergeInstalled, EngineInv'
  PROVE  KeptInv'
  <1> DEFINE m == app.save.merge
             X == IF IsCurrent(app, m.owner) THEN {m.etag} ELSE {}
  <1>1. /\ KeepsOthers(app, app', X) /\ app.save.edits \subseteq Firm(app')
        /\ app.save # None /\ m # None
    BY MergeInstalledKept
  <1>k. /\ app \in AppsOf(Settled, OurBytes, TrueBindings, TrueCopies)
        /\ CurrentIsBound(app)
    BY Known
  <1>w. file' = file /\ remotes' = remotes /\ made' = made
    BY DEF MergeInstalled, Finished, World
  <1>n. Numbered(app)'
    BY DEF EngineInv, Core
  <1>e. m.etag \in Etags
    BY <1>1, <1>k DEF AppsOf, SavesOf, MergeMarks
  <1>2. X \subseteq PublishedEtags
    <2>1. ASSUME IsCurrent(app, m.owner) PROVE m.etag \in PublishedEtags
      <3>1. app.binding # None /\ m.etag.remote = app.binding.remote
        BY <1>1, <1>k, <2>1 DEF CurrentIsBound, OfTheBinding
      <3>2. app.binding \in TrueBindings
        BY <1>k, <3>1 DEF AppsOf
      <3>3. app.binding.etag.remote = app.binding.remote
        BY <3>2 DEF TrueBindings
      <3>4. app.binding.etag \in PublishedEtags
        BY <3>1 DEF KeptInv, UploadsOver
      <3> QED
        BY <1>e, <3>1, <3>3, <3>4 DEF PublishedEtags
    <2> QED
      BY <2>1
  <1>3. \A r \in Remotes : remotes[r].etag \in X => remotes[r].edits \subseteq Firm(app')
    <2>1. ASSUME NEW r \in Remotes, remotes[r].etag \in X PROVE remotes[r].edits \subseteq Firm(app')
      <3>1. remotes[r].etag = m.etag
        BY <2>1
      <3>2. m.etag.remote = r
        BY <3>1 DEF EngineInv, FilesAreSettled
      <3>3. MergesHoldTheCopy(app)
        BY DEF KeptInv
      <3>4. remotes[r].edits \subseteq app.save.edits
        BY <1>1, <3>1, <3>2, <3>3 DEF MergesHoldTheCopy
      <3> QED
        BY <1>1, <3>4
    <2> QED
      BY <2>1
  <1> HIDE DEF X, m
  <1> QED
    BY <1>1, <1>2, <1>3, <1>n, <1>w, StillKept

-----------------------------------------------------------------------------
(* The steps that change a file. *)

\* No upload is over a revision that is new.
LEMMA NothingIsOverTheNew ==
  ASSUME EngineInv, NEW r \in Remotes
  PROVE  UploadsOver(app, Etags \ {NewEtag(r)})
  <1> DEFINE n == NewEtag(r)
             G == {g \in TrueBindings : g.etag # NewEtag(r)}
             C == {c \in TrueCopies : c.etag # NewEtag(r)}
             E == Etags \ {n}
  <1>k. HeldIsTrue /\ FilesAreSettled /\ Numbered(app)
    BY Known
  <1>1. app \in AppsOf(Settled, OurBytes, G, C)
    BY <1>k, HeldAvoidsEtag
  <1>f. n \notin EtagsHeld
    BY <1>k, FreshEtag
  <1>g. \A g \in G : g.etag \in E
    BY DEF TrueBindings
  <1> HIDE DEF G, C, n, E
  <1>2. /\ app.binding \in G \cup {None} /\ app.cfg \in G \cup {None}
        /\ app.tasks \subseteq TasksIn(Settled, OurBytes, G, C)
    BY <1>1 DEF AppsOf
  <1>3. ASSUME NEW t \in app.tasks PROVE TaskOver(t, E)
    <2>1. /\ t.kind = "push" => t \in PushesOf(OurBytes, G, C)
          /\ t.kind = "restore" => t \in RestoresOf(G)
          /\ t.kind = "publish" => t \in PublishesOf(OurBytes, G)
      BY <1>2, KindsOfTasks
    <2>2. CASE t.kind = "push"
      <3>1. t \in PushesOf(OurBytes, G, C)
        BY <2>1, <2>2
      <3>2. t.etag \in Etags
        BY <3>1 DEF PushesOf
      <3>3. t.etag \in EtagsHeld
        BY <2>2 DEF EtagsHeld, Tasks
      <3>4. t.etag \in E
        BY <1>f, <3>2, <3>3 DEF E
      <3>5. ASSUME t.answer # None, t.answer.as = "synced" PROVE t.answer.etag \in E
        <4>1. t.answer \in SyncedAnswers
          BY <3>1, <3>5 DEF PushesOf, AnswersOf, CopyAnswers
        <4>2. [remote |-> t.remote, etag |-> t.answer.etag, uploaded |-> t.bytes.rev] \in G
          BY <3>1, <4>1 DEF PushesOf
        <4> QED
          BY <1>g, <4>2
      <3> QED
        BY <2>2, <3>4, <3>5 DEF TaskOver
    <2>3. CASE t.kind \in {"restore", "publish"}
      <3>1. ASSUME t.answer # None, t.answer.as = "restored" PROVE t.answer.cfg.etag \in E
        <4>1. t.answer \in BoundAnswers(G)
          BY <2>1, <2>3, <3>1 DEF RestoresOf, PublishesOf, AnswersOf
        <4> QED
          BY <1>g, <4>1 DEF BoundAnswers
      <3> QED
        BY <2>3, <3>1 DEF TaskOver
    <2>4. CASE t.kind \notin {"push", "restore", "publish"}
      BY <2>4 DEF TaskOver
    <2> QED
      BY <2>2, <2>3, <2>4
  <1>4. UploadsOver(app, E)
    BY <1>2, <1>3, <1>g DEF UploadsOver
  <1> QED
    BY <1>4 DEF E, n

LEMMA OverMore ==
  ASSUME NEW a, NEW E, NEW F, E \subseteq F, UploadsOver(a, E)
  PROVE  UploadsOver(a, F)
  <1>1. ASSUME NEW t, TaskOver(t, E) PROVE TaskOver(t, F)
    BY <1>1 DEF TaskOver
  <1> QED
    BY <1>1 DEF UploadsOver

\* A remote file r gets new contents.  The step keeps what this device holds; what
\* the other devices have in r was not kept by it, or is in the new contents.
LEMMA RemoteKept ==
  ASSUME EngineInv, KeptInv, EngineInv', NEW r \in Remotes, NEW edits,
         remotes' = [remotes EXCEPT ![r] = [edits |-> edits, etag |-> NewEtag(r)]],
         file' = file, app'.place = app.place, app'.doc = app.doc, app'.save = app.save,
         \A E : NewEtag(r) \in E /\ UploadsOver(app, E) => UploadsOver(app', E),
         \A x \in made' \cap DeviceEdits :
            \/ x \in made /\ ~(x \in remotes[r].edits /\ Guarded(app, r))
            \/ x \in edits /\ UploadsOver(app', Etags \ {NewEtag(r)}),
         \A t \in app'.tasks :
            t.kind = "publish" => \E u \in app.tasks : /\ u.kind = "publish" /\ u.id = t.id
                                                       /\ u.remote = t.remote
                                                       /\ t.phase # "done" => u.phase # "done" /\ u.remote # r
  PROVE  KeptInv'
  <1>k. /\ OthersAreKept(app) /\ MergesHoldTheCopy(app)
        /\ PublishesAreNew(app) /\ UploadsOver(app, PublishedEtags)
    BY DEF KeptInv
  <1>f. FilesAreSettled /\ Numbered(app)
    BY Known
  <1>n. NewEtag(r) \in Etags /\ NewEtag(r).remote = r /\ NewEtag(r).n # 0
    BY <1>f, FreshEtag
  <1>e. \A q \in Remotes : remotes[q].etag \in Etags /\ remotes[q].etag.remote = q
    BY <1>f DEF FilesAreSettled
  <1>r. /\ remotes'[r].edits = edits /\ remotes'[r].etag = NewEtag(r)
        /\ \A q \in Remotes : q # r => remotes'[q] = remotes[q]
    <2>1. remotes \in [Remotes -> [edits : Settled, etag : Etags]]
      BY <1>f DEF FilesAreSettled
    <2> QED
      BY <2>1
  <1>1. /\ Published(r)'
        /\ \A q \in Remotes : q # r => (Published(q)' <=> Published(q))
    <2>1. NewEtag(r) # Etag(r, 0)
      BY <1>n DEF Etag
    <2> QED
      BY <1>r, <2>1 DEF Published
  <1>2. PublishedEtags \subseteq PublishedEtags' /\ NewEtag(r) \in PublishedEtags'
    <2>1. \A etag \in Etags : etag.remote \in Remotes
      BY DEF Etags
    <2>2. \A etag \in Etags : Published(etag.remote) => Published(etag.remote)'
      BY <1>1, <2>1
    <2> QED
      BY <1>1, <1>n, <2>2 DEF PublishedEtags
  <1> DEFINE P == PublishedEtags'
  <1>3. UploadsOver(app, PublishedEtags)'
    <2>1. PublishedEtags \subseteq P /\ NewEtag(r) \in P
      BY <1>2
    <2> HIDE DEF P
    <2>2. UploadsOver(app, P)
      BY <1>k, <2>1, OverMore
    <2>3. UploadsOver(app', P)
      BY <2>1, <2>2
    <2> QED
      BY <2>3 DEF P, UploadsOver
  <1>4. MergesHoldTheCopy(app)'
    <2> SUFFICES ASSUME app.save # None, app.save.merge # None,
                        app.save.merge.etag = remotes'[app.save.merge.etag.remote].etag
                 PROVE  remotes'[app.save.merge.etag.remote].edits \subseteq app.save.edits
      BY DEF MergesHoldTheCopy
    <2>1. app.save.merge.etag # NewEtag(r)
      BY <1>f, SaveAvoidsEtag
    <2>2. app.save.merge.etag.remote # r
      BY <1>r, <2>1
    <2>3. app.save.merge.etag \in Etags
      BY Known DEF AppsOf, SavesOf, MergeMarks
    <2>4. app.save.merge.etag.remote \in Remotes
      BY <2>3 DEF Etags
    <2> QED
      BY <1>k, <1>r, <2>2, <2>4 DEF MergesHoldTheCopy
  <1>5. PublishesAreNew(app)'
    <2>1. ASSUME NEW t \in app'.tasks, t.kind = "publish"
          PROVE  /\ t.phase # "done" => ~Published(t.remote)' /\ remotes'[t.remote].edits = {}
                 /\ \A w \in app'.tasks : w.kind = "publish" => w = t
      <3>1. PICK u \in app.tasks : /\ u.kind = "publish" /\ u.id = t.id /\ u.remote = t.remote
                                   /\ t.phase # "done" => u.phase # "done" /\ u.remote # r
        BY <2>1
      <3>2. u.remote \in Remotes
        BY <3>1, TasksAreTyped DEF PublishesOf
      <3>3. t.phase # "done" => ~Published(t.remote)' /\ remotes'[t.remote].edits = {}
        BY <1>1, <1>k, <1>r, <3>1, <3>2 DEF PublishesAreNew
      <3>4. ASSUME NEW w \in app'.tasks, w.kind = "publish" PROVE w = t
        <4>1. PICK v \in app.tasks : v.kind = "publish" /\ v.id = w.id
          BY <3>4
        <4>2. v = u
          BY <1>k, <3>1, <4>1 DEF PublishesAreNew
        <4>3. w.id = t.id
          BY <3>1, <4>1, <4>2
        <4>4. Numbered(app)'
          BY DEF EngineInv, Core
        <4> QED
          BY <2>1, <3>4, <4>3, <4>4 DEF Numbered
      <3> QED
        BY <3>3, <3>4
    <2> QED
      BY <2>1 DEF PublishesAreNew
  <1>6. OthersAreKept(app)'
    <2>1. Firm(app)' = Firm(app)
      BY DEF Firm
    <2>2. \A q \in Remotes : Guarded(app, q)' <=> UploadsOver(app', Etags \ {remotes'[q].etag})
      BY DEF Guarded, UploadsOver
    <2>3. ASSUME NEW x \in made' \cap DeviceEdits
          PROVE  x \in Firm(app) \/ \E q \in Remotes : x \in remotes'[q].edits /\ Guarded(app, q)'
      <3>1. CASE x \in edits /\ UploadsOver(app', Etags \ {NewEtag(r)})
        BY <1>r, <2>2, <3>1
      <3>2. CASE x \in made /\ ~(x \in remotes[r].edits /\ Guarded(app, r))
        <4>1. x \in Firm(app) \/ \E q \in Remotes : x \in remotes[q].edits /\ Guarded(app, q)
          BY <1>k, <2>3, <3>2 DEF OthersAreKept
        <4>2. ASSUME NEW q \in Remotes, x \in remotes[q].edits, Guarded(app, q)
              PROVE  x \in remotes'[q].edits /\ Guarded(app, q)'
          <5>1. q # r
            BY <3>2, <4>2
          <5>2. remotes'[q] = remotes[q]
            BY <1>r, <5>1
          <5>3. NewEtag(r) \in Etags \ {remotes[q].etag}
            BY <1>e, <1>n, <5>1
          <5>4. UploadsOver(app', Etags \ {remotes[q].etag})
            BY <4>2, <5>3 DEF Guarded
          <5> QED
            BY <2>2, <4>2, <5>2, <5>4
        <4> QED
          BY <4>1, <4>2
      <3> QED
        BY <2>3, <3>1, <3>2
    <2> QED
      BY <2>1, <2>3 DEF OthersAreKept
  <1> QED
    BY <1>3, <1>4, <1>5, <1>6 DEF KeptInv

LEMMA DeviceEditKept ==
  ASSUME EngineInv, KeptInv, EngineInv', NEW e \in DeviceEdits, NEW r \in Remotes, DeviceEdit(e, r)
  PROVE  KeptInv'
  <1> DEFINE edits == remotes[r].edits \cup {e}
  <1>p. /\ made' = made \cup {e} /\ file' = file /\ app' = app
        /\ remotes' = [remotes EXCEPT ![r] = [edits |-> edits, etag |-> NewEtag(r)]]
        /\ Published(r)
    BY DEF DeviceEdit, Published
  <1>1. UploadsOver(app', Etags \ {NewEtag(r)})
    BY <1>p, NothingIsOverTheNew
  <1>2. \A x \in made' \cap DeviceEdits :
            \/ x \in made /\ ~(x \in remotes[r].edits /\ Guarded(app, r))
            \/ x \in edits /\ UploadsOver(app', Etags \ {NewEtag(r)})
    BY <1>1, <1>p
  <1>3. \A t \in app'.tasks :
            t.kind = "publish" => \E u \in app.tasks : /\ u.kind = "publish" /\ u.id = t.id
                                                       /\ u.remote = t.remote
                                                       /\ t.phase # "done" => u.phase # "done" /\ u.remote # r
    BY <1>p DEF KeptInv, PublishesAreNew
  <1>4. \A E : NewEtag(r) \in E /\ UploadsOver(app, E) => UploadsOver(app', E)
    BY <1>p
  <1> HIDE DEF edits
  <1> QED
    BY <1>2, <1>3, <1>4, <1>p, RemoteKept

\* The server has taken an upload: it was over the revision the remote file had.
LEMMA PushTakenKept ==
  ASSUME EngineInv, KeptInv, EngineInv', NEW p \in app.tasks, p.kind = "push", p.phase = "send",
         remotes[p.remote].etag = p.etag,
         remotes' = [remotes EXCEPT ![p.remote] = [edits |-> p.bytes.edits, etag |-> NewEtag(p.remote)]],
         UNCHANGED <<file, made>>,
         NEW x, x = [as |-> "synced", etag |-> NewEtag(p.remote)] \/ x = [as |-> "network"],
         Answered(p, x)
  PROVE  KeptInv'
  <1> DEFINE u == [p EXCEPT !.phase = "done", !.answer = x]
             r == p.remote
             edits == p.bytes.edits
  <1>1. u.kind = p.kind /\ u.id = p.id /\ u.etag = p.etag /\ u.answer = x
    BY PushFields
  <1>2. app' = [app EXCEPT !.tasks = (app.tasks \ {p}) \cup {u}]
    BY DEF Answered, Step
  <1>x. x.as = "synced" => x.etag = NewEtag(r)
    OBVIOUS
  <1> HIDE DEF u
  <1>3. /\ app'.place = app.place /\ app'.doc = app.doc /\ app'.save = app.save
        /\ app'.binding = app.binding /\ app'.cfg = app.cfg
        /\ app'.tasks = (app.tasks \ {p}) \cup {u}
    BY <1>2, Known DEF AppsOf
  <1>4. r \in Remotes /\ p.etag \in Etags /\ p.etag.remote = r
    BY TasksAreTyped DEF PushesOf
  <1>5. ASSUME NEW E, NewEtag(r) \in E, UploadsOver(app, E) PROVE UploadsOver(app', E)
    <2>1. TaskOver(p, E) /\ \A t \in app.tasks : TaskOver(t, E)
      BY <1>5 DEF UploadsOver
    <2>2. TaskOver(u, E)
      BY <1>1, <1>5, <1>x, <2>1 DEF TaskOver
    <2> QED
      BY <1>3, <1>5, <2>1, <2>2 DEF UploadsOver
  <1>6. ~Guarded(app, r)
    <2>1. ASSUME Guarded(app, r) PROVE FALSE
      <3>1. TaskOver(p, Etags \ {remotes[r].etag})
        BY <2>1 DEF Guarded, UploadsOver
      <3> QED
        BY <3>1 DEF TaskOver
    <2> QED
      BY <2>1
  <1>7. Published(r)
    <2>1. TaskOver(p, PublishedEtags)
      BY DEF KeptInv, UploadsOver
    <2>2. p.etag \in PublishedEtags
      BY <2>1 DEF TaskOver
    <2> QED
      BY <1>4, <2>2 DEF PublishedEtags
  <1>8. \A t \in app'.tasks :
            t.kind = "publish" => \E v \in app.tasks : /\ v.kind = "publish" /\ v.id = t.id
                                                       /\ v.remote = t.remote
                                                       /\ t.phase # "done" => v.phase # "done" /\ v.remote # r
    BY <1>1, <1>3, <1>7 DEF KeptInv, PublishesAreNew
  <1>9. \A y \in made' \cap DeviceEdits :
            \/ y \in made /\ ~(y \in remotes[r].edits /\ Guarded(app, r))
            \/ y \in edits /\ UploadsOver(app', Etags \ {NewEtag(r)})
    BY <1>6
  <1>10. remotes' = [remotes EXCEPT ![r] = [edits |-> edits, etag |-> NewEtag(r)]]
    OBVIOUS
  <1> HIDE DEF r, edits
  <1> QED
    BY <1>3, <1>4, <1>5, <1>8, <1>9, <1>10, RemoteKept

LEMMA PushSendKept ==
  ASSUME EngineInv, KeptInv, EngineInv', NEW p \in app.tasks, PushSend(p)
  PROVE  KeptInv'
  <1>p. p.kind = "push" /\ p.phase = "send"
    BY DEF PushSend, TasksOf
  <1>u. UNCHANGED <<file, asked, made, saveFailed>>
    BY DEF PushSend
  <1>r. p.remote \in Remotes
    BY <1>p, TasksAreTyped DEF PushesOf
  <1>1. CASE remotes[p.remote].etag = IfMatch(p)
    <2>1. remotes' = [remotes EXCEPT ![p.remote] = [edits |-> p.bytes.edits, etag |-> NewEtag(p.remote)]]
      BY <1>1 DEF PushSend
    <2>2. remotes'[p.remote].etag = NewEtag(p.remote)
      <3>1. remotes \in [Remotes -> [edits : Settled, etag : Etags]]
        BY Known DEF FilesAreSettled
      <3> QED
        BY <1>r, <2>1, <3>1
    <2>3. \/ Answered(p, [as |-> "synced", etag |-> NewEtag(p.remote)])
          \/ Answered(p, [as |-> "network"])
      BY <1>1, <2>2 DEF PushSend
    <2>4. remotes[p.remote].etag = p.etag
      BY <1>1 DEF IfMatch
    <2> QED
      BY <1>p, <1>u, <2>1, <2>3, <2>4, PushTakenKept
  <1>2. CASE remotes[p.remote].etag # IfMatch(p)
    <2>1. Step(p, [p EXCEPT !.phase = "rejected"]) /\ UNCHANGED remotes
      BY <1>2 DEF PushSend
    <2>2. KeepsOthers(app, app', {})
      BY <1>p, <2>1, PushRejectedKept
    <2>3. Numbered(app)'
      BY DEF EngineInv, Core
    <2> QED
      BY <1>u, <2>1, <2>2, <2>3, QuietlyKept
  <1> QED
    BY <1>1, <1>2

LEMMA PublishWriteKept ==
  ASSUME EngineInv, KeptInv, EngineInv', NEW t \in app.tasks, PublishWrite(t)
  PROVE  KeptInv'
  <1> DEFINE r == t.remote
             edits == t.bytes.edits
             etag == NewEtag(r)
             binding == [remote |-> r, etag |-> etag, uploaded |-> t.bytes.rev]
             x == [as |-> "restored", cfg |-> binding]
             u == [t EXCEPT !.phase = "done", !.answer = x]
  <1>p. t.kind = "publish" /\ t.phase = "write"
    BY DEF PublishWrite, TasksOf
  <1>u. UNCHANGED <<file, asked, made, saveFailed>>
    BY DEF PublishWrite, Bounds
  <1>1. CASE app.cfg # None
    <2>1. Answered(t, [as |-> "refused"]) /\ UNCHANGED remotes
      BY <1>1 DEF PublishWrite
    <2>2. KeepsOthers(app, app', {})
      BY <1>p, <2>1, PublishRefusedKept
    <2>3. Numbered(app)'
      BY DEF EngineInv, Core
    <2> QED
      BY <1>u, <2>1, <2>2, <2>3, QuietlyKept
  <1>2. CASE app.cfg = None
    <2>1. /\ remotes' = [remotes EXCEPT ![r] = [edits |-> edits, etag |-> etag]]
          /\ app' = [app EXCEPT !.cfg = binding, !.tasks = (@ \ {t}) \cup {u}]
      BY <1>2 DEF PublishWrite
    <2>2. t \in PublishesOf(OurBytes, TrueBindings)
      BY <1>p, TasksAreTyped
    <2>3. r \in Remotes
      BY <2>2 DEF PublishesOf
    <2>4. /\ u.kind = "publish" /\ u.id = t.id /\ u.remote = t.remote /\ u.phase = "done"
          /\ u.answer = x
      BY <2>2 DEF PublishesOf
    <2>5. binding.etag = etag /\ x.cfg = binding /\ x.as = "restored"
      OBVIOUS
    <2> HIDE DEF u, x, binding, etag, edits, r
    <2>6. /\ app'.place = app.place /\ app'.doc = app.doc /\ app'.save = app.save
          /\ app'.binding = app.binding /\ app'.cfg = binding
          /\ app'.tasks = (app.tasks \ {t}) \cup {u}
      BY <2>1, Known DEF AppsOf
    <2>7. ASSUME NEW E, etag \in E, UploadsOver(app, E) PROVE UploadsOver(app', E)
      <3>1. TaskOver(u, E)
        BY <2>4, <2>5, <2>7 DEF TaskOver
      <3> QED
        BY <2>5, <2>6, <2>7, <3>1 DEF UploadsOver
    <2>8. remotes[r].edits = {} /\ \A v \in app.tasks : v.kind = "publish" => v = t
      BY <1>p DEF KeptInv, PublishesAreNew, r
    <2>9. \A v \in app'.tasks :
              v.kind = "publish" => \E w \in app.tasks : /\ w.kind = "publish" /\ w.id = v.id
                                                         /\ w.remote = v.remote
                                                         /\ v.phase # "done" => w.phase # "done" /\ w.remote # r
      BY <1>p, <2>4, <2>6, <2>8
    <2>10. \A y \in made' \cap DeviceEdits :
              \/ y \in made /\ ~(y \in remotes[r].edits /\ Guarded(app, r))
              \/ y \in edits /\ UploadsOver(app', Etags \ {NewEtag(r)})
      BY <1>u, <2>8
    <2> QED
      BY <1>u, <2>1, <2>3, <2>6, <2>7, <2>9, <2>10, RemoteKept DEF etag
  <1> QED
    BY <1>1, <1>2

LEMMA WriteSaveKept ==
  ASSUME EngineInv, KeptInv, WriteSave
  PROVE  KeptInv'
  <1>p. /\ app.save # None /\ file' = Edited(app.save.edits, NewRev)
        /\ UNCHANGED <<remotes, made, asked>>
    BY DEF WriteSave
  <1>k. app \in AppsOf(Settled, OurBytes, TrueBindings, TrueCopies)
    BY Known
  <1>1. PICK result \in {"written", "undurable"} : app' = Resulted(app, result, NewRev)
    BY DEF WriteSave, Resulted
  <1>2. app.save \in SavesOf(Settled)
    BY <1>k, <1>p DEF AppsOf
  <1> DEFINE s == [app.save EXCEPT !.result = result, !.rev = NewRev]
  <1>3. s.edits = app.save.edits /\ s.merge = app.save.merge
    BY <1>2 DEF SavesOf
  <1>4. app' = [app EXCEPT !.save = s]
    BY <1>1 DEF Resulted
  <1> HIDE DEF s
  <1>5. /\ app'.place = app.place /\ app'.doc = app.doc /\ app'.binding = app.binding
        /\ app'.cfg = app.cfg /\ app'.tasks = app.tasks /\ app'.save = s
    BY <1>4, <1>k DEF AppsOf
  <1>f. file'.edits = app.save.edits
    BY <1>p DEF Edited
  <1>g. \A E : UploadsOver(app, E) => UploadsOver(app', E)
    BY <1>5 DEF UploadsOver
  <1>6. Firm(app) \subseteq Firm(app)'
    BY <1>3, <1>5, <1>f, <1>p DEF Firm
  <1>7. \A r : Published(r)' <=> Published(r)
    BY <1>p DEF Published
  <1>8. PublishedEtags' = PublishedEtags
    BY <1>7 DEF PublishedEtags
  <1>9. UploadsOver(app, PublishedEtags)'
    BY <1>5, <1>8 DEF KeptInv, UploadsOver
  <1>10. MergesHoldTheCopy(app)'
    BY <1>3, <1>5, <1>p DEF KeptInv, MergesHoldTheCopy
  <1>11. PublishesAreNew(app)'
    BY <1>5, <1>7, <1>p DEF KeptInv, PublishesAreNew
  <1>12. \A r \in Remotes : Guarded(app, r) => Guarded(app, r)'
    BY <1>5, <1>p DEF Guarded, UploadsOver
  <1>13. OthersAreKept(app)'
    BY <1>6, <1>12, <1>p DEF KeptInv, OthersAreKept
  <1> QED
    BY <1>9, <1>10, <1>11, <1>13 DEF KeptInv

LEMMA StartPublishKept ==
  ASSUME EngineInv, KeptInv, NEW r \in Remotes, StartPublish(r)
  PROVE  KeptInv'
  <1> DEFINE t == [kind |-> "publish", id |-> NewId(app), owner |-> SyncSession(app),
                   remote |-> r, phase |-> "read", bytes |-> None, answer |-> None]
  <1>p. /\ remotes[r] = [edits |-> {}, etag |-> Etag(r, 0)] /\ r # 1
        /\ \A u \in app.tasks : u.kind # "publish"
        /\ file' = file /\ remotes' = remotes /\ made' = made
    BY DEF StartPublish, World
  <1>1. app' = Spawn(app, t)
    BY DEF StartPublish
  <1>2. t.kind = "publish" /\ t.remote = r /\ t.answer = None
    OBVIOUS
  <1> HIDE DEF t
  <1>3. /\ app'.place = app.place /\ app'.doc = app.doc /\ app'.save = app.save
        /\ app'.binding = app.binding /\ app'.cfg = app.cfg /\ app'.tasks = app.tasks \cup {t}
    BY <1>1, Known DEF Spawn, AppsOf
  <1>4. ~Published(r) /\ remotes[r].edits = {}
    BY <1>p DEF Published
  <1>5. ASSUME NEW E, UploadsOver(app, E) PROVE UploadsOver(app', E)
    <2>1. TaskOver(t, E)
      BY <1>2 DEF TaskOver
    <2> QED
      BY <1>3, <1>5, <2>1 DEF UploadsOver
  <1>6. Firm(app)' = Firm(app)
    BY <1>3, <1>p DEF Firm
  <1>7. \A q : Published(q)' <=> Published(q)
    BY <1>p DEF Published
  <1>8. PublishedEtags' = PublishedEtags
    BY <1>7 DEF PublishedEtags
  <1>9. UploadsOver(app, PublishedEtags)'
    <2>1. UploadsOver(app', PublishedEtags)
      BY <1>5 DEF KeptInv
    <2> QED
      BY <1>8, <2>1 DEF UploadsOver
  <1>10. MergesHoldTheCopy(app)'
    BY <1>3, <1>p DEF KeptInv, MergesHoldTheCopy
  <1>11. PublishesAreNew(app)'
    BY <1>2, <1>3, <1>4, <1>7, <1>p DEF PublishesAreNew
  <1>12. \A q \in Remotes : Guarded(app, q) => Guarded(app, q)'
    <2>1. \A q \in Remotes : Guarded(app, q) => Guarded(app', q)
      BY <1>5 DEF Guarded
    <2>2. \A q \in Remotes : Guarded(app', q) <=> Guarded(app, q)'
      BY <1>p DEF Guarded, UploadsOver
    <2> QED
      BY <2>1, <2>2
  <1>13. OthersAreKept(app)'
    BY <1>6, <1>12, <1>p DEF KeptInv, OthersAreKept
  <1> QED
    BY <1>9, <1>10, <1>11, <1>13 DEF KeptInv

-----------------------------------------------------------------------------
(* The steps together keep the edits. *)

\* No edit is unmade, and the file loses none of the user's.
Grows == made \subseteq made' /\ file.edits \cap UserEdits \subseteq file'.edits

LEMMA QuietStep ==
  ASSUME KeptInv, EngineInv', KeepsOthers(app, app', {}), UNCHANGED <<file, remotes, made>>
  PROVE  KeptInv' /\ Grows
  <1>1. Numbered(app)'
    BY DEF EngineInv, Core
  <1>2. KeptInv'
    BY <1>1, QuietlyKept
  <1> QED
    BY <1>2 DEF Grows

LEMMA StartKept ==
  ASSUME Init
  PROVE  KeptInv
  <1>1. PICK start \in Starts :
          LET locked == start = "locked"
              known == IF locked THEN DeviceEdits ELSE {}
          IN  /\ made = known
              /\ file = Edited(known, 0)
              /\ remotes = [r \in Remotes |-> [edits |-> IF r = 1 THEN known ELSE {},
                                              etag |-> Etag(r, 0)]]
              /\ app = [place |-> IF locked THEN "locked" ELSE "active",
                        sess |-> IF locked THEN 0 ELSE 1,
                        binding |-> IF locked THEN None ELSE Bind(1, 0, 0),
                        status |-> IF locked THEN "Disconnected" ELSE "Idle",
                        overlay |-> "none", doc |-> {}, gen |-> 0, unsaved |-> FALSE,
                        save |-> None, cfg |-> Bind(1, 0, 0), bindGen |-> 0,
                        conflict |-> None, deferred |-> None, backoff |-> FALSE,
                        token |-> None, slot |-> None, awaiting |-> None,
                        auto |-> FALSE, tasks |-> {}]
    BY DEF Init
  <1> DEFINE locked == start = "locked"
             known == IF locked THEN DeviceEdits ELSE {}
             cfg == Bind(1, 0, 0)
  <1>2. /\ made = known /\ file.edits = known
        /\ app.place # "locked" => known = {}
        /\ app.binding \in {None, cfg} /\ app.cfg = cfg
        /\ app.save = None /\ app.tasks = {}
    BY <1>1 DEF Edited
  <1>3. cfg.etag \in PublishedEtags
    <2>1. cfg.etag = Etag(1, 0) /\ Etag(1, 0) \in Etags /\ Etag(1, 0).remote = 1
      BY RemotesAreCounted DEF Bind, Etag, Etags
    <2> QED
      BY <2>1 DEF PublishedEtags, Published
  <1> HIDE DEF known, cfg
  <1>4. OthersAreKept(app)
    BY <1>2 DEF OthersAreKept, Firm
  <1>5. MergesHoldTheCopy(app) /\ PublishesAreNew(app)
    BY <1>2 DEF MergesHoldTheCopy, PublishesAreNew
  <1>6. UploadsOver(app, PublishedEtags)
    BY <1>2, <1>3 DEF UploadsOver
  <1> QED
    BY <1>4, <1>5, <1>6 DEF KeptInv

LEMMA UserKept ==
  ASSUME EngineInv, KeptInv, EngineInv', User
  PROVE  KeptInv' /\ Grows
  <1>1. ASSUME NEW e \in UserEdits, NEW sync \in BOOLEAN, Edit(e, sync)
        PROVE  KeptInv' /\ Grows
    <2>1. KeepsOthers(app, app', {})
      BY <1>1, EditKept
    <2>2. file' = file /\ remotes' = remotes /\ made' = made \cup {e}
      BY <1>1 DEF Edit
    <2>3. made' \cap DeviceEdits = made \cap DeviceEdits
      BY <2>2, ClashesAreMadeApart
    <2>4. Numbered(app)'
      BY DEF EngineInv, Core
    <2>5. KeptInv'
      BY <2>1, <2>2, <2>3, <2>4, QuietlyKept
    <2> QED
      BY <2>2, <2>5 DEF Grows
  <1>2. CASE SyncNow
    BY <1>2, SyncNowKept, QuietStep DEF SyncNow, World
  <1>3. CASE OpenOverlay
    BY <1>3, ScreenKept, QuietStep DEF OpenOverlay, World
  <1>4. CASE CloseOverlay
    BY <1>4, ScreenKept, QuietStep DEF CloseOverlay, World
  <1>5. CASE Resolve
    BY <1>5, ResolveKept, QuietStep DEF Resolve
  <1>6. CASE ResolveBlocked
    BY <1>6, ResolveBlockedKept, QuietStep DEF ResolveBlocked, World
  <1>7. CASE Park
    BY <1>7, ScreenKept, QuietStep DEF Park, World
  <1>8. CASE Unpark
    BY <1>8, ScreenKept, QuietStep DEF Unpark, World
  <1>9. CASE Lock
    BY <1>9, LockKept, QuietStep DEF Lock, World
  <1>10. CASE RetrySave
    BY <1>10, RetrySaveKept, QuietStep DEF RetrySave, World
  <1>11. CASE Unlock
    BY <1>11, UnlockKept, QuietStep DEF Unlock, World
  <1>12. CASE RetryRestore
    BY <1>12, RetryRestoreKept, QuietStep DEF RetryRestore, World
  <1>13. CASE Disconnect
    BY <1>13, DisconnectKept, QuietStep DEF Disconnect, World
  <1>14. ASSUME NEW r \in Remotes, StartPublish(r)
         PROVE  KeptInv' /\ Grows
    <2>1. KeptInv'
      BY <1>14, StartPublishKept
    <2> QED
      BY <1>14, <2>1 DEF StartPublish, World, Grows
  <1> QED
    BY <1>1, <1>2, <1>3, <1>4, <1>5, <1>6, <1>7, <1>8, <1>9, <1>10, <1>11, <1>12, <1>13, <1>14
    DEF User

LEMMA WriterKept ==
  ASSUME EngineInv, KeptInv, EngineInv', Writer
  PROVE  KeptInv' /\ Grows
  <1>1. CASE WriteSave
    <2>1. /\ app.save # None /\ file' = Edited(app.save.edits, NewRev) /\ made' = made
      BY <1>1 DEF WriteSave
    <2>2. file.edits \cap UserEdits \subseteq app.save.edits
      BY <2>1, Known DEF UserEditsGrow
    <2>3. Grows
      BY <2>1, <2>2 DEF Edited, Grows
    <2> QED
      BY <1>1, <2>3, WriteSaveKept
  <1>2. CASE SaveDone
    BY <1>2, SaveDoneKept, QuietStep DEF SaveDone, Finished, World
  <1>3. CASE MergeWriteFailed
    BY <1>3, MergeWriteFailedKept, QuietStep DEF MergeWriteFailed, Finished, World
  <1>4. CASE MergeWriteOutdated
    BY <1>4, MergeWriteOutdatedKept, QuietStep DEF MergeWriteOutdated, Finished, World
  <1>5. CASE MergeInstalled
    <2>1. KeptInv'
      BY <1>5, MergeInstalledStep
    <2> QED
      BY <1>5, <2>1 DEF MergeInstalled, Finished, World, Grows
  <1> QED
    BY <1>1, <1>2, <1>3, <1>4, <1>5 DEF Writer

LEMMA TaskKept ==
  ASSUME EngineInv, KeptInv, EngineInv', NEW t \in app.tasks,
         \/ PushRead(t) \/ PushSend(t) \/ PushDownload(t) \/ PushDone(t) \/ ResolveDone(t)
         \/ PullCheck(t) \/ PullDownload(t) \/ PullDone(t) \/ DecryptDone(t, FALSE)
         \/ RestoreRead(t) \/ RestoreDone(t) \/ PublishRead(t) \/ PublishWrite(t)
         \/ PublishDone(t)
  PROVE  KeptInv' /\ Grows
  <1>1. CASE PushRead(t)
    BY <1>1, PushReadKept, QuietStep DEF PushRead, World
  <1>2. CASE PushSend(t)
    <2>1. KeptInv'
      BY <1>2, PushSendKept
    <2> QED
      BY <1>2, <2>1 DEF PushSend, Grows
  <1>3. CASE PushDownload(t)
    BY <1>3, PushDownloadKept, QuietStep DEF PushDownload, World
  <1>4. CASE PushDone(t)
    BY <1>4, PushDoneKept, QuietStep DEF PushDone, World
  <1>5. CASE ResolveDone(t)
    BY <1>5, ResolveDoneKept, QuietStep DEF ResolveDone, World
  <1>6. CASE PullCheck(t)
    BY <1>6, PullCheckKept, QuietStep DEF PullCheck, World
  <1>7. CASE PullDownload(t)
    BY <1>7, PullDownloadKept, QuietStep DEF PullDownload, World
  <1>8. CASE PullDone(t)
    BY <1>8, PullDoneKept, QuietStep DEF PullDone, World
  <1>9. CASE DecryptDone(t, FALSE)
    <2> DEFINE readable == FALSE
    <2>1. readable \in BOOLEAN /\ DecryptDone(t, readable)
      BY <1>9
    <2>2. UNCHANGED <<file, remotes, made>>
      BY <1>9 DEF DecryptDone, World
    <2> HIDE DEF readable
    <2> QED
      BY <2>1, <2>2, DecryptDoneKept, QuietStep
  <1>10. CASE RestoreRead(t)
    BY <1>10, RestoreReadKept, QuietStep DEF RestoreRead, World
  <1>11. CASE RestoreDone(t)
    BY <1>11, RestoreDoneKept, QuietStep DEF RestoreDone, World
  <1>12. CASE PublishRead(t)
    BY <1>12, PublishReadKept, QuietStep DEF PublishRead, World
  <1>13. CASE PublishWrite(t)
    <2>1. KeptInv'
      BY <1>13, PublishWriteKept
    <2> QED
      BY <1>13, <2>1 DEF PublishWrite, Grows
  <1>14. CASE PublishDone(t)
    BY <1>14, PublishDoneKept, QuietStep DEF PublishDone, World
  <1> QED
    BY <1>1, <1>2, <1>3, <1>4, <1>5, <1>6, <1>7, <1>8, <1>9, <1>10, <1>11, <1>12, <1>13, <1>14

LEMMA FaultsKept ==
  ASSUME EngineInv, KeptInv, EngineInv', Faults
  PROVE  KeptInv' /\ Grows
  <1>1. CASE FailSave
    BY <1>1, FailSaveKept, QuietStep DEF FailSave, World
  <1>2. CASE Crash
    BY <1>2, CrashKept, QuietStep DEF Crash, World
  <1>3. ASSUME NEW t \in app.tasks, NEW why \in {"network", "throttled", "grant"}, PushFails(t, why)
        PROVE  KeptInv' /\ Grows
    <2> DEFINE x == [as |-> why]
    <2>1. /\ t.kind = "push" /\ Answered(t, x) /\ x.as # "synced" /\ UNCHANGED <<file, remotes, made>>
      BY <1>3 DEF PushFails, World
    <2> HIDE DEF x
    <2> QED
      BY <2>1, PushAnsweredKept, QuietStep
  <1>4. ASSUME NEW t \in app.tasks, NEW why \in {"network", "throttled", "grant"}, PullFails(t, why)
        PROVE  KeptInv' /\ Grows
    <2> DEFINE x == [as |-> why]
    <2>1. /\ t.kind = "pull" /\ Answered(t, x) /\ UNCHANGED <<file, remotes, made>>
      BY <1>4 DEF PullFails, World
    <2> HIDE DEF x
    <2> QED
      BY <2>1, PullAnsweredKept, QuietStep
  <1>5. ASSUME NEW t \in app.tasks, NEW why \in {"network", "throttled", "grant"}, RestoreFails(t, why)
        PROVE  KeptInv' /\ Grows
    BY <1>5, RestoreFailsKept, QuietStep DEF RestoreFails, World
  <1>6. ASSUME NEW t \in app.tasks, DecryptDone(t, TRUE)
        PROVE  KeptInv' /\ Grows
    <2> DEFINE unreadable == TRUE
    <2>1. unreadable \in BOOLEAN /\ DecryptDone(t, unreadable)
      BY <1>6
    <2>2. UNCHANGED <<file, remotes, made>>
      BY <1>6 DEF DecryptDone, World
    <2> HIDE DEF unreadable
    <2> QED
      BY <2>1, <2>2, DecryptDoneKept, QuietStep
  <1> QED
    BY <1>1, <1>2, <1>3, <1>4, <1>5, <1>6 DEF Faults

LEMMA NothingIsLost ==
  ASSUME EngineInv, KeptInv, EngineInv', [Next]_vars
  PROVE  KeptInv' /\ Grows
  <1>1. CASE User
    BY <1>1, UserKept
  <1>2. ASSUME NEW e \in DeviceEdits, NEW r \in Remotes, DeviceEdit(e, r)
        PROVE  KeptInv' /\ Grows
    <2>1. KeptInv'
      BY <1>2, DeviceEditKept
    <2> QED
      BY <1>2, <2>1 DEF DeviceEdit, Grows
  <1>3. CASE Writer
    BY <1>3, WriterKept
  <1>4. CASE Pushing
    BY <1>4, TaskKept DEF Pushing
  <1>5. CASE Pulling
    BY <1>5, TaskKept DEF Pulling
  <1>6. CASE Merging
    BY <1>6, TaskKept DEF Merging
  <1>7. CASE Binding
    BY <1>7, TaskKept DEF Binding
  <1>8. CASE Faults
    BY <1>8, FaultsKept
  <1>9. CASE Tick
    BY <1>9, TickKept, QuietStep DEF Tick, World
  <1>10. CASE WindowPasses
    BY <1>10, ScreenKept, QuietStep DEF WindowPasses, World
  <1>11. CASE UNCHANGED vars
    <2> DEFINE X == {}
    <2>1. UNCHANGED <<file, remotes, made>> /\ app' = app
      BY <1>11 DEF vars
    <2>2. KeepsOthers(app, app, X)
      BY NoTaskMore DEF SameSession, SameDocument, SameSave, SameBinding
    <2>3. KeepsOthers(app, app', {})
      BY <2>1, <2>2
    <2> QED
      BY <2>1, <2>3, QuietStep
  <1> QED
    BY <1>1, <1>2, <1>3, <1>4, <1>5, <1>6, <1>7, <1>8, <1>9, <1>10, <1>11 DEF Next, Others

\* What a remote file holds is in the vault file or a remote file afterwards: the
\* user's edits are in the vault file as it is, another device's are kept.
LEMMA OnlyCopyFollows ==
  ASSUME SyncInv, SyncInv', Grows
  PROVE  \A r \in Remotes, e \in made :
            e \in remotes[r].edits =>
                e \in file'.edits \/ \E q \in Remotes : e \in remotes'[q].edits
  <1> SUFFICES ASSUME NEW r \in Remotes, NEW e \in made, e \in remotes[r].edits
               PROVE  e \in file'.edits \/ \E q \in Remotes : e \in remotes'[q].edits
    OBVIOUS
  <1>k. FilesAreSettled /\ OthersAreKept(app)'
    BY DEF SyncInv, EngineInv, KeptInv
  <1>1. e \in UserEdits \/ e \in DeviceEdits
    BY <1>k DEF FilesAreSettled, AllEdits
  <1>2. CASE e \in UserEdits
    BY <1>2, <1>k DEF FilesAreSettled, Grows
  <1>3. CASE e \in DeviceEdits
    <2>1. e \in made' \cap DeviceEdits
      BY <1>3 DEF Grows
    <2> QED
      BY <1>k, <2>1 DEF OthersAreKept, Firm
  <1> QED
    BY <1>1, <1>2, <1>3

LEMMA SyncStep ==
  ASSUME SyncInv, [Next]_vars
  PROVE  SyncInv' /\ KeepsDoc(app, app') /\ Grows
  <1>1. EngineInv' /\ KeepsDoc(app, app')
    BY StepKeeps DEF SyncInv
  <1>2. KeptInv' /\ Grows
    BY <1>1, NothingIsLost DEF SyncInv
  <1> QED
    BY <1>1, <1>2 DEF SyncInv

-----------------------------------------------------------------------------
(* The theorems. *)

\* SyncInv holds: everything the application holds or has in flight is true of
\* the files, whatever it waits for is there, and what another device uploaded
\* is firm here or in a remote file no upload replaces (state.rs, the sync
\* section).
THEOREM SyncInvariance == Spec => []SyncInv
  <1>1. Init => SyncInv
    BY InitHolds, StartKept DEF SyncInv
  <1>2. SyncInv /\ [Next]_vars => SyncInv'
    BY SyncStep
  <1> QED
    BY <1>1, <1>2, PTL DEF Spec

\* The types; edits only come from being made, and tasks have numbers of their
\* own (syncs_in_flight, remote_merges_in_flight go by them).
THEOREM SyncTypes == Spec => []TypeOK
  <1>1. SyncInv => TypeOK
    BY TypesFollow DEF SyncInv
  <1> QED
    BY <1>1, SyncInvariance, PTL

\* A baseline is of its own remote file, and a file that looks uploaded is: the
\* timer leaves a vault alone only when the cloud lacks nothing of it
\* (local_is_ahead_of_the_cloud, record_upload_baseline).
THEOREM BaselineStaysTrue == Spec => []BaselineIsTrue
  <1>1. SyncInv => BaselineIsTrue
    BY BaselineFollows DEF SyncInv
  <1> QED
    BY <1>1, SyncInvariance, PTL

\* Neither the document nor the file nor a remote file ever holds both sides of
\* a clash the user was not asked about (continue_remote_conflict_for,
\* apply_conflict_resolution).
THEOREM ClashesStayAsked == Spec => []ClashesAreAsked
  <1>1. SyncInv => ClashesAreAsked
    BY ClashesFollow DEF SyncInv
  <1> QED
    BY <1>1, SyncInvariance, PTL

\* A mark that keeps the engine from starting a task has a task that clears it
\* (syncs_in_flight, auto_sync_in_flight, remote_merges_in_flight).
THEOREM MarksKeepTasks == Spec => []MarksHaveTasks
  <1>1. SyncInv => MarksHaveTasks
    BY MarksFollow DEF SyncInv
  <1> QED
    BY <1>1, SyncInvariance, PTL

\* Unless a save failed, a vault shown as busy has something in flight that will
\* show it otherwise (route_sync_status and its callers).
THEOREM BusyEndsAgain == Spec => []BusyHasAnEnd
  <1>1. SyncInv => BusyHasAnEnd
    BY BusyFollows DEF SyncInv
  <1> QED
    BY <1>1, SyncInvariance, PTL

\* While a session is open, no callback takes an edit out of its document
\* (commit_merged_for compares the mutation generation).
THEOREM DocumentsOnlyGain == Spec => DocKeepsEdits
  <1>1. SyncInv /\ [Next]_vars =>
          [InMemory(app) /\ InMemory(app') /\ app.sess = app'.sess => app.doc \subseteq app'.doc]_vars
    BY SyncStep DEF KeepsDoc
  <1> QED
    BY <1>1, SyncInvariance, PTL DEF Spec, DocKeepsEdits

\* Neither a result of a background task nor an upload loses an edit: the open
\* document keeps its own, and what leaves the cloud is in the vault file of this
\* device (upload_after_save, commit_merged_for, record_upload_baseline).
THEOREM EditsStayKept == Spec => EditsAreKept
  <1>1. SyncInv /\ SyncInv' /\ [Next]_vars =>
          [\A r \in Remotes, e \in made :
              e \in remotes[r].edits =>
                  e \in file'.edits \/ \E q \in Remotes : e \in remotes'[q].edits]_vars
    BY OnlyCopyFollows, SyncStep
  <1>2. Spec => OnlyCopyIsKept
    BY <1>1, SyncInvariance, PTL DEF Spec, OnlyCopyIsKept
  <1> QED
    BY <1>2, DocumentsOnlyGain DEF EditsAreKept
=============================================================================
