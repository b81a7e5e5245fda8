-------------------------- MODULE ConnectGateProofs --------------------------
(***************************************************************************)
(* Proofs about the operation gate, for any set of operations.             *)
(*                                                                         *)
(* Inv is inductive: Typing and the lemmas below take its parts one by     *)
(* one, each over the actions that can disturb it.                         *)
(***************************************************************************)
EXTENDS ConnectGate, FiniteSetTheorems, TLAPS

\* What a move does to the table of operations.
LEMMA Moving ==
  ASSUME TypeOK, NEW o \in Op, NEW place \in Place, MoveTo(o, place)
  PROVE  /\ task' \in [Op -> [kind : Kind, gen : Nat, at : Place]]
         /\ task'[o].at = place
         /\ \A t \in Op : task'[t].kind = task[t].kind /\ task'[t].gen = task[t].gen
         /\ \A t \in Op \ {o} : task'[t] = task[t]
  BY DEF MoveTo, TypeOK

\* What a decision does to it.
LEMMA Deciding ==
  ASSUME TypeOK, NEW o \in Op, NEW k \in Kind, NEW p \in Place, Decide(o, k, p)
  PROVE  /\ task' \in [Op -> [kind : Kind, gen : Nat, at : Place]]
         /\ task'[o].at = p /\ task'[o].kind = k /\ task'[o].gen = generation + 1
         /\ \A t \in Op \ {o} : task'[t] = task[t]
         /\ task[o].at = "unused" /\ generation' = generation + 1 /\ reserving = NoOp
  BY DEF TypeOK, Decide, Advance, At

\* The two operations the user can start.
LEMMA Starting ==
  ASSUME TypeOK, NEW o \in Op, StartPublish(o) \/ ReserveAdvance(o)
  PROVE  \E k \in {"publish", "cleanup"}, p \in {"preparing", "reserving"} :
           /\ k \in Kind /\ p \in Place /\ Decide(o, k, p)
           /\ k = "publish" => p = "preparing" /\ UNCHANGED reserving
           /\ k = "cleanup" => p = "reserving" /\ reserving' = o
           /\ UNCHANGED <<cleanupPending, commit, landed>>
  BY DEF StartPublish, ReserveAdvance, Kind, Place

\* What the end of a clean-up does to it.
LEMMA Cleaning ==
  ASSUME TypeOK, NEW o \in Op, FinishCleanup(o)
  PROVE  /\ task' \in [Op -> [kind : Kind, gen : Nat, at : Place]]
         /\ task'[o].at = "landed"
         /\ \A t \in Op : task'[t].kind = task[t].kind /\ task'[t].gen = task[t].gen
         /\ \A t \in Op \ {o} : \/ task'[t].at = task[t].at
                                \/ task[t].at = "waiting" /\ task'[t].at = "locking"
<1>1. task' = [t \in Op |-> Notified(o, t)] /\ task[o].at = "cleaning"
  BY DEF FinishCleanup, At
<1>2. ASSUME NEW t \in Op
      PROVE  /\ Notified(o, t) \in [kind : Kind, gen : Nat, at : Place]
             /\ Notified(o, t).kind = task[t].kind /\ Notified(o, t).gen = task[t].gen
             /\ t = o => Notified(o, t).at = "landed"
             /\ t # o => \/ Notified(o, t).at = task[t].at
                         \/ task[t].at = "waiting" /\ Notified(o, t).at = "locking"
  <2> USE DEF Notified, At, TypeOK, Place
  <2>1. CASE task[t].at = "waiting" /\ cleanupPending = 1
    BY <1>1, <2>1
  <2>2. CASE ~(task[t].at = "waiting" /\ cleanupPending = 1)
    BY <1>1, <2>2
  <2> QED BY <2>1, <2>2
<1> QED BY <1>1, <1>2

\* A clean-up that runs is counted.
LEMMA CountedWhileRunning ==
  ASSUME TypeOK, CountInv, NEW o \in Op, task[o].at = "cleaning"
  PROVE  cleanupPending # 0
  BY FS_EmptySet DEF CountInv, Due

\* The types, over every action.
LEMMA Typing == Inv /\ [Next]_vars => TypeOK'
<1> SUFFICES ASSUME TypeOK, CountInv, [Next]_vars PROVE TypeOK'
  BY DEF Inv
<1> USE OpAssumption
<1>1. CASE Cancel
  BY <1>1 DEF Cancel, Advance, TypeOK
<1>2. ASSUME NEW o \in Op, StartPublish(o) \/ ReserveAdvance(o)
      PROVE  TypeOK'
  BY <1>2, Starting, Deciding DEF TypeOK
<1>3. ASSUME NEW o \in Op, ReserveCount(o) \/ Callback(o)
      PROVE  TypeOK'
  BY <1>3, Moving DEF ReserveCount, Callback, Advance, TypeOK, Place
<1>4. ASSUME NEW o \in Op,
             \/ Prepared(o) \/ Lock(o) \/ Wait(o) \/ WakeSpuriously(o)
             \/ SeeNoCleanup(o) \/ Refuse(o) \/ BeginLanding(o)
      PROVE  TypeOK'
  BY <1>4, Moving DEF Prepared, Lock, Wait, WakeSpuriously, SeeNoCleanup, Refuse, BeginLanding,
              TypeOK, Place
<1>5. ASSUME NEW o \in Op, FinishLanding(o)
      PROVE  TypeOK'
  <2>1. Append(landed, o) \in Seq(Op)
    BY DEF TypeOK
  <2> QED BY <1>5, <2>1, Moving DEF FinishLanding, TypeOK, Place
<1>6. ASSUME NEW o \in Op, FinishCleanup(o)
      PROVE  TypeOK'
  <2>1. cleanupPending # 0
    BY <1>6, CountedWhileRunning DEF FinishCleanup, At
  <2> QED BY <1>6, <2>1, Cleaning DEF FinishCleanup, TypeOK
<1>7. CASE UNCHANGED vars
  BY <1>7 DEF vars, TypeOK
<1> QED BY <1>1, <1>2, <1>3, <1>4, <1>5, <1>6, <1>7 DEF Next, MainThread, Thread

\* The kind of an operation says where it can be, and the other way round.
LEMMA KindByPlace ==
  ASSUME TypeOK, DecisionInv, NEW o \in Op
  PROVE  /\ task[o].at = "unused" <=> task[o].kind = "none"
         /\ task[o].at \in {"reserving", "queued", "cleaning"} => task[o].kind = "cleanup"
         /\ task[o].kind = "cleanup" => task[o].at \in {"reserving", "queued", "cleaning", "landed"}
         /\ task[o].at \in Place \ {"unused", "reserving", "queued", "cleaning", "landed"}
              => task[o].kind = "publish"
<1>1. task[o].kind \in Kind /\ task[o].at \in Place /\ task[o].at \in PlacesOf(task[o].kind)
  BY DEF TypeOK, DecisionInv
<1>2. CASE task[o].kind = "none"
  BY <1>1, <1>2 DEF PlacesOf
<1>3. CASE task[o].kind = "cleanup"
  BY <1>1, <1>3 DEF PlacesOf
<1>4. CASE task[o].kind = "publish"
  BY <1>1, <1>4 DEF PlacesOf, Place
<1> QED BY <1>1, <1>2, <1>3, <1>4 DEF Kind

\* A step that starts nothing keeps kinds and generations, and keeps every
\* operation in the places of its kind.
KeepsTable ==
  /\ \A t \in Op : task'[t].kind = task[t].kind /\ task'[t].gen = task[t].gen
  /\ \A t \in Op : task'[t].at # task[t].at
       => task[t].at # "unused" /\ task'[t].at \in PlacesOf(task[t].kind)
  /\ generation' >= generation

Starts == \E o \in Op : StartPublish(o) \/ ReserveAdvance(o)

LEMMA OthersKeepTable == Inv /\ [Next]_vars => Starts \/ KeepsTable
<1> SUFFICES ASSUME TypeOK, DecisionInv, ReserveInv, [Next]_vars PROVE Starts \/ KeepsTable
  BY DEF Inv
<1>1. ASSUME NEW o \in Op, NEW p \in Place, MoveTo(o, p), task[o].at # "unused",
             p \in PlacesOf(task[o].kind), generation' \in {generation, generation + 1}
      PROVE  KeepsTable
  BY <1>1, Moving DEF KeepsTable, TypeOK
<1>2. ASSUME NEW o \in Op, NEW p \in Place, MoveTo(o, p), task[o].kind = "publish",
             p \notin {"unused", "reserving", "queued", "cleaning"},
             generation' \in {generation, generation + 1}
      PROVE  KeepsTable
  BY <1>1, <1>2, KindByPlace DEF PlacesOf
<1>3. ASSUME NEW o \in Op, NEW p \in Place, MoveTo(o, p), task[o].kind = "cleanup",
             p \in {"queued", "cleaning", "landed"}, generation' = generation
      PROVE  KeepsTable
  BY <1>1, <1>3, KindByPlace DEF PlacesOf
<1>4. CASE Cancel
  BY <1>4 DEF Cancel, Advance, KeepsTable, TypeOK
<1>5. ASSUME NEW o \in Op, Callback(o)
      PROVE  KeepsTable
  BY <1>2, <1>5 DEF Callback, Advance, Place
<1>6. ASSUME NEW o \in Op, ReserveCount(o)
      PROVE  KeepsTable
  BY <1>3, <1>6, KindByPlace DEF ReserveCount, ReserveInv, Place
<1>7. ASSUME NEW o \in Op, Lock(o)
      PROVE  KeepsTable
  BY <1>2, <1>3, <1>7, KindByPlace DEF Lock, At, Place
<1>8. ASSUME NEW o \in Op,
             \/ Prepared(o) \/ Wait(o) \/ WakeSpuriously(o) \/ SeeNoCleanup(o)
             \/ Refuse(o) \/ BeginLanding(o) \/ FinishLanding(o)
      PROVE  KeepsTable
  BY <1>2, <1>8, KindByPlace DEF Prepared, Wait, WakeSpuriously, SeeNoCleanup, Refuse,
                                 BeginLanding, FinishLanding, At, Place
<1>9. ASSUME NEW o \in Op, FinishCleanup(o)
      PROVE  KeepsTable
  <2>1. ASSUME NEW t \in Op
        PROVE  task'[t].at # task[t].at
                 => task[t].at # "unused" /\ task'[t].at \in PlacesOf(task[t].kind)
    <3>1. CASE t = o
      BY <1>9, <3>1, Cleaning, KindByPlace DEF FinishCleanup, At, PlacesOf
    <3>2. CASE t # o
      BY <1>9, <3>2, Cleaning, KindByPlace DEF PlacesOf, Place
    <3> QED BY <3>1, <3>2
  <2> QED BY <1>9, <2>1, Cleaning DEF FinishCleanup, KeepsTable, TypeOK
<1>10. CASE UNCHANGED vars
  BY <1>10 DEF vars, KeepsTable, TypeOK
<1> QED BY <1>4, <1>5, <1>6, <1>7, <1>8, <1>9, <1>10 DEF Next, MainThread, Thread, Starts

\* Generations stay distinct, and places stay those of the kinds.
LEMMA Decisions == Inv /\ [Next]_vars => DecisionInv'
<1> SUFFICES ASSUME Inv, [Next]_vars PROVE DecisionInv'
  OBVIOUS
<1> USE DEF Inv
<1>1. TypeOK'
  BY Typing
<1>2. CASE Starts
  <2>1. PICK o \in Op : StartPublish(o) \/ ReserveAdvance(o)
    BY <1>2 DEF Starts
  <2>2. PICK k \in {"publish", "cleanup"}, p \in {"preparing", "reserving"} :
          /\ k \in Kind /\ p \in Place /\ Decide(o, k, p)
          /\ k = "publish" => p = "preparing"
          /\ k = "cleanup" => p = "reserving"
    BY <2>1, Starting
  <2>3. p \in PlacesOf(k)
    BY <2>2 DEF PlacesOf, Place
  <2>4. /\ task'[o].at = p /\ task'[o].kind = k /\ task'[o].gen = generation + 1
        /\ \A t \in Op \ {o} : task'[t] = task[t]
        /\ generation' = generation + 1
    BY <2>2, Deciding
  <2>5. generation \in Nat /\ \A t \in Op : task[t].gen \in Nat /\ task[t].gen <= generation
    BY DEF DecisionInv, TypeOK
  <2>6. ASSUME NEW t \in Op
        PROVE  task'[t].gen <= generation' /\ task'[t].at \in PlacesOf(task'[t].kind)
    BY <2>3, <2>4, <2>5 DEF DecisionInv
  <2>7. ASSUME NEW s \in Op, NEW t \in Op, s # t,
               task'[s].at # "unused", task'[t].at # "unused"
        PROVE  task'[s].gen # task'[t].gen
    BY <2>4, <2>5, <2>7 DEF DecisionInv
  <2> QED BY <2>6, <2>7 DEF DecisionInv
<1>3. CASE KeepsTable
  <2>1. ASSUME NEW t \in Op
        PROVE  task'[t].gen <= generation' /\ task'[t].at \in PlacesOf(task'[t].kind)
    BY <1>1, <1>3 DEF DecisionInv, KeepsTable, TypeOK
  <2>2. ASSUME NEW s \in Op, NEW t \in Op, s # t,
               task'[s].at # "unused", task'[t].at # "unused"
        PROVE  task'[s].gen # task'[t].gen
    BY <1>3, <2>2 DEF DecisionInv, KeepsTable
  <2> QED BY <2>1, <2>2 DEF DecisionInv
<1> QED BY <1>2, <1>3, OthersKeepTable

\* A step of a background thread or a callback is a move or the end of a clean-up.
LEMMA Reserves == Inv /\ [Next]_vars => ReserveInv'
<1> SUFFICES ASSUME TypeOK, DecisionInv, ReserveInv, [Next]_vars PROVE ReserveInv'
  BY DEF Inv
<1> USE OpAssumption
<1>1. CASE Cancel
  BY <1>1 DEF Cancel, Advance, ReserveInv
<1>2. ASSUME NEW o \in Op, StartPublish(o) \/ ReserveAdvance(o)
      PROVE  ReserveInv'
  <2>1. PICK k \in {"publish", "cleanup"}, p \in {"preparing", "reserving"} :
          /\ k \in Kind /\ p \in Place /\ Decide(o, k, p)
          /\ k = "publish" => p = "preparing" /\ UNCHANGED reserving
          /\ k = "cleanup" => p = "reserving" /\ reserving' = o
    BY <1>2, Starting
  <2> QED BY <2>1, Deciding DEF ReserveInv
<1>3. ASSUME NEW o \in Op, ReserveCount(o)
      PROVE  ReserveInv'
  BY <1>3, Moving DEF ReserveCount, ReserveInv, Place
<1>4. ASSUME NEW o \in Op, Callback(o)
      PROVE  ReserveInv'
  BY <1>4, Moving DEF Callback, ReserveInv, Place
<1>5. ASSUME NEW o \in Op, NEW p \in Place, MoveTo(o, p), p # "reserving", task[o].at # "reserving",
             UNCHANGED <<generation, reserving>>
      PROVE  ReserveInv'
  BY <1>5, Moving DEF ReserveInv
<1>6. ASSUME NEW o \in Op,
             \/ Prepared(o) \/ Lock(o) \/ Wait(o) \/ WakeSpuriously(o) \/ SeeNoCleanup(o)
             \/ Refuse(o) \/ BeginLanding(o) \/ FinishLanding(o)
      PROVE  ReserveInv'
  BY <1>5, <1>6 DEF Prepared, Lock, Wait, WakeSpuriously, SeeNoCleanup, Refuse,
                    BeginLanding, FinishLanding, At, Place
<1>7. ASSUME NEW o \in Op, FinishCleanup(o)
      PROVE  ReserveInv'
  BY <1>7, Cleaning DEF FinishCleanup, At, ReserveInv
<1>8. CASE UNCHANGED vars
  BY <1>8 DEF vars, ReserveInv
<1> QED BY <1>1, <1>2, <1>3, <1>4, <1>6, <1>7, <1>8 DEF Next, MainThread, Thread

\* The mutex is taken and released with the places that need it.
LEMMA Mutex == Inv /\ [Next]_vars => MutexInv'
<1> SUFFICES ASSUME TypeOK, DecisionInv, ReserveInv, MutexInv, [Next]_vars PROVE MutexInv'
  BY DEF Inv
<1> USE OpAssumption DEF InMutex
<1>1. CASE Cancel
  BY <1>1 DEF Cancel, MutexInv
<1>2. ASSUME NEW o \in Op, StartPublish(o) \/ ReserveAdvance(o)
      PROVE  MutexInv'
  <2>1. PICK k \in {"publish", "cleanup"}, p \in {"preparing", "reserving"} :
          /\ k \in Kind /\ p \in Place /\ Decide(o, k, p) /\ UNCHANGED commit
    BY <1>2, Starting
  <2> QED BY <2>1, Deciding DEF MutexInv
<1>3. ASSUME NEW o \in Op, ReserveCount(o) \/ Callback(o)
      PROVE  MutexInv'
  BY <1>3, Moving DEF ReserveCount, Callback, ReserveInv, MutexInv, Place, At
<1>4. ASSUME NEW o \in Op, Lock(o)
      PROVE  MutexInv'
  BY <1>4, Moving DEF Lock, MutexInv, Place
<1>5. ASSUME NEW o \in Op, Wait(o) \/ Refuse(o) \/ FinishLanding(o)
      PROVE  MutexInv'
  BY <1>5, Moving DEF Wait, Refuse, FinishLanding, MutexInv, Place, At
<1>6. ASSUME NEW o \in Op, Prepared(o) \/ WakeSpuriously(o) \/ SeeNoCleanup(o) \/ BeginLanding(o)
      PROVE  MutexInv'
  BY <1>6, Moving DEF Prepared, WakeSpuriously, SeeNoCleanup, BeginLanding, MutexInv, Place, At
<1>7. ASSUME NEW o \in Op, FinishCleanup(o)
      PROVE  MutexInv'
  BY <1>7, Cleaning DEF FinishCleanup, At, MutexInv
<1>8. CASE UNCHANGED vars
  BY <1>8 DEF vars, MutexInv
<1> QED BY <1>1, <1>2, <1>3, <1>4, <1>5, <1>6, <1>7, <1>8 DEF Next, MainThread, Thread

\* cleanup_pending follows the clean-ups that are due.
LEMMA Counting == Inv /\ [Next]_vars => CountInv'
<1> SUFFICES ASSUME TypeOK, ReserveInv, CountInv, [Next]_vars PROVE CountInv'
  BY DEF Inv
<1>1. ASSUME Due' = Due, UNCHANGED cleanupPending
      PROVE  CountInv'
  BY <1>1 DEF CountInv
<1>2. CASE Cancel
  BY <1>1, <1>2 DEF Cancel, Due
<1>3. ASSUME NEW o \in Op, StartPublish(o) \/ ReserveAdvance(o)
      PROVE  CountInv'
  <2>1. PICK k \in {"publish", "cleanup"}, p \in {"preparing", "reserving"} :
          /\ k \in Kind /\ p \in Place /\ Decide(o, k, p) /\ UNCHANGED cleanupPending
    BY <1>3, Starting
  <2> QED BY <1>1, <2>1, Deciding DEF Due
<1>4. ASSUME NEW o \in Op, ReserveCount(o)
      PROVE  CountInv'
  <2>1. task[o].at = "reserving"
    BY <1>4 DEF ReserveCount, ReserveInv
  <2>2. o \notin Due /\ Due' = Due \cup {o}
    BY <1>4, <2>1, Moving DEF ReserveCount, Due, Place
  <2> QED BY <1>4, <2>2, FS_AddElement DEF ReserveCount, CountInv
<1>5. ASSUME NEW o \in Op, NEW p \in Place, MoveTo(o, p), UNCHANGED cleanupPending,
             task[o].at \in {"queued", "cleaning"} <=> p \in {"queued", "cleaning"}
      PROVE  CountInv'
  BY <1>1, <1>5, Moving DEF Due
<1>6. ASSUME NEW o \in Op,
             \/ Callback(o) \/ Prepared(o) \/ Lock(o) \/ Wait(o) \/ WakeSpuriously(o)
             \/ SeeNoCleanup(o) \/ Refuse(o) \/ BeginLanding(o) \/ FinishLanding(o)
      PROVE  CountInv'
  BY <1>5, <1>6 DEF Callback, Prepared, Lock, Wait, WakeSpuriously, SeeNoCleanup, Refuse,
                    BeginLanding, FinishLanding, At, Place
<1>7. ASSUME NEW o \in Op, FinishCleanup(o)
      PROVE  CountInv'
  <2>1. o \in Due /\ Due' = Due \ {o}
    BY <1>7, Cleaning DEF FinishCleanup, At, Due
  <2> QED BY <1>7, <2>1, FS_RemoveElement DEF FinishCleanup, CountInv
<1>8. CASE UNCHANGED vars
  BY <1>1, <1>8 DEF vars, Due
<1> QED BY <1>2, <1>3, <1>4, <1>6, <1>7, <1>8 DEF Next, MainThread, Thread

Past == {"checking", "landing"} \cup Effective

\* A clean-up that has taken effect is done with, and only the loop over
\* cleanup_pending lets a publication past it.
LEMMA PlacesAhead ==
  Inv /\ [Next]_vars /\ KeepsTable =>
    \A t \in Op :
      /\ task[t].kind = "cleanup" /\ task[t].at = "landed" => task'[t].at = "landed"
      /\ task[t].kind = "publish" /\ task'[t].at \in Past /\ task[t].at \notin Past
           => task[t].at = "counting" /\ cleanupPending = 0
<1> SUFFICES ASSUME Inv, [Next]_vars, KeepsTable, NEW t \in Op
             PROVE  /\ task[t].kind = "cleanup" /\ task[t].at = "landed" => task'[t].at = "landed"
                    /\ task[t].kind = "publish" /\ task'[t].at \in Past /\ task[t].at \notin Past
                         => task[t].at = "counting" /\ cleanupPending = 0
  OBVIOUS
<1> USE DEF Inv, Past, Effective
<1>1. CASE Cancel
  BY <1>1 DEF Cancel
<1>2. ASSUME NEW o \in Op, StartPublish(o) \/ ReserveAdvance(o)
      PROVE  /\ task[t].kind = "cleanup" /\ task[t].at = "landed" => task'[t].at = "landed"
             /\ ~(task'[t].at \in Past /\ task[t].at \notin Past)
  <2>1. PICK k \in {"publish", "cleanup"}, p \in {"preparing", "reserving"} :
          k \in Kind /\ p \in Place /\ Decide(o, k, p)
    BY <1>2, Starting
  <2> QED BY <2>1, Deciding
<1>3. ASSUME NEW o \in Op, NEW p \in Place, MoveTo(o, p), p \notin Past, task[o].at # "landed"
      PROVE  /\ task[t].kind = "cleanup" /\ task[t].at = "landed" => task'[t].at = "landed"
             /\ ~(task'[t].at \in Past /\ task[t].at \notin Past)
  BY <1>3, Moving
<1>4. ASSUME NEW o \in Op,
             ReserveCount(o) \/ Prepared(o) \/ Lock(o) \/ Wait(o) \/ WakeSpuriously(o) \/ Refuse(o)
      PROVE  /\ task[t].kind = "cleanup" /\ task[t].at = "landed" => task'[t].at = "landed"
             /\ ~(task'[t].at \in Past /\ task[t].at \notin Past)
  BY <1>3, <1>4 DEF ReserveCount, ReserveInv, Prepared, Lock, Wait, WakeSpuriously, Refuse, At, Place
<1>5. ASSUME NEW o \in Op, SeeNoCleanup(o)
      PROVE  /\ task[t].kind = "cleanup" /\ task[t].at = "landed" => task'[t].at = "landed"
             /\ task'[t].at \in Past /\ task[t].at \notin Past
                  => task[t].at = "counting" /\ cleanupPending = 0
  BY <1>5, Moving DEF SeeNoCleanup, At, Place
<1>6. ASSUME NEW o \in Op, BeginLanding(o) \/ FinishLanding(o) \/ Callback(o)
      PROVE  /\ task[t].kind = "cleanup" /\ task[t].at = "landed" => task'[t].at = "landed"
             /\ ~(task'[t].at \in Past /\ task[t].at \notin Past)
  BY <1>6, Moving DEF BeginLanding, FinishLanding, Callback, At, Place
<1>7. ASSUME NEW o \in Op, FinishCleanup(o)
      PROVE  /\ task[t].kind = "cleanup" /\ task[t].at = "landed" => task'[t].at = "landed"
             /\ ~(task[t].kind = "publish" /\ task'[t].at \in Past /\ task[t].at \notin Past)
  <2>1. task[o].kind = "cleanup" /\ task[o].at = "cleaning"
    BY <1>7, KindByPlace DEF FinishCleanup, At
  <2> QED BY <1>7, <2>1, Cleaning
<1>8. CASE UNCHANGED vars
  BY <1>8 DEF vars
<1> QED BY <1>1, <1>2, <1>4, <1>5, <1>6, <1>7, <1>8 DEF Next, MainThread, Thread

\* What has passed the loop came after every earlier clean-up, and still does:
\* a clean-up that landed stays, and a new one is decided later.
LEMMA Passing == Inv /\ [Next]_vars => PassedInv'
<1> SUFFICES ASSUME Inv, [Next]_vars,
                    NEW o \in Op, (task[o].kind = "publish")',
                    (task[o].at \in {"checking", "landing"} \cup Effective)',
                    NEW c \in Op, (task[c].kind = "cleanup")', (task[c].gen < task[o].gen)'
             PROVE  (task[c].at = "landed")'
  BY DEF PassedInv
<1> USE DEF Inv
<1>1. CASE Starts
  <2>1. PICK d \in Op : StartPublish(d) \/ ReserveAdvance(d)
    BY <1>1 DEF Starts
  <2>2. PICK k \in {"publish", "cleanup"}, p \in {"preparing", "reserving"} :
          k \in Kind /\ p \in Place /\ Decide(d, k, p)
    BY <2>1, Starting
  <2>3. /\ task'[d].at = p /\ task'[d].gen = generation + 1
        /\ \A t \in Op \ {d} : task'[t] = task[t]
    BY <2>2, Deciding
  <2>4. o # d
    BY <2>3 DEF Effective
  <2>5. c # d
    BY <2>3, <2>4 DEF DecisionInv, TypeOK
  <2> QED BY <2>3, <2>4, <2>5 DEF PassedInv
<1>2. CASE KeepsTable
  <2>1. task[o].kind = "publish" /\ task[c].kind = "cleanup" /\ task[c].gen < task[o].gen
    BY <1>2 DEF KeepsTable
  <2>2. task[c].at = "landed" => task'[c].at = "landed"
    BY <1>2, <2>1, PlacesAhead
  <2>3. CASE task[o].at \in {"checking", "landing"} \cup Effective
    BY <2>1, <2>2, <2>3 DEF PassedInv
  <2>4. CASE task[o].at \notin {"checking", "landing"} \cup Effective
    <3>1. task[o].at = "counting" /\ cleanupPending = 0
      BY <1>2, <2>1, <2>4, PlacesAhead DEF Past
    <3>2. task[c].at \notin {"queued", "cleaning"}
      BY <3>1, FS_EmptySet DEF CountInv, Due
    <3>3. task[c].at # "reserving"
      BY <2>1 DEF ReserveInv, DecisionInv, TypeOK
    <3> QED BY <2>1, <2>2, <3>2, <3>3, KindByPlace
  <2> QED BY <2>3, <2>4
<1> QED BY <1>1, <1>2, OthersKeepTable

\* Steps that start nothing do not need a free operation.
LEMMA NoStart ==
  ASSUME Inv, NEW o \in Op, task[o].at \in {"landing", "cleaning"}, landed' = Append(landed, o)
  PROVE  ~Starts
<1>1. landed' # landed
  <2>1. landed \in Seq(Op) /\ Len(Append(landed, o)) = Len(landed) + 1 /\ Len(landed) \in Nat
    BY DEF Inv, TypeOK
  <2> QED BY <2>1
<1> QED BY <1>1, Starting DEF Starts, Inv

\* Only a completion callback adopts.
LEMMA OnlyCallbackAdopts ==
  ASSUME Inv, [Next]_vars, NEW o \in Op, task[o].at # "adopted", task'[o].at = "adopted"
  PROVE  task[o].at = "landed" /\ task[o].kind = "publish" /\ task[o].gen = generation
<1> USE DEF Inv
<1>1. CASE Cancel \/ UNCHANGED vars
  BY <1>1 DEF Cancel, vars
<1>2. ASSUME NEW d \in Op, StartPublish(d) \/ ReserveAdvance(d)
      PROVE  FALSE
  <2>1. PICK k \in {"publish", "cleanup"}, p \in {"preparing", "reserving"} :
          k \in Kind /\ p \in Place /\ Decide(d, k, p)
    BY <1>2, Starting
  <2> QED BY <2>1, Deciding
<1>3. ASSUME NEW d \in Op, NEW p \in Place, MoveTo(d, p), p # "adopted"
      PROVE  FALSE
  BY <1>3, Moving
<1>4. ASSUME NEW d \in Op,
             \/ ReserveCount(d) \/ Prepared(d) \/ Lock(d) \/ Wait(d) \/ WakeSpuriously(d)
             \/ SeeNoCleanup(d) \/ Refuse(d) \/ BeginLanding(d) \/ FinishLanding(d)
      PROVE  FALSE
  BY <1>3, <1>4 DEF ReserveCount, Prepared, Lock, Wait, WakeSpuriously, SeeNoCleanup, Refuse,
                    BeginLanding, FinishLanding, Place
<1>5. ASSUME NEW d \in Op, FinishCleanup(d)
      PROVE  FALSE
  BY <1>5, Cleaning
<1>6. ASSUME NEW d \in Op, Callback(d)
      PROVE  task[o].at = "landed" /\ task[o].kind = "publish" /\ task[o].gen = generation
  <2>1. d = o
    BY <1>6, Moving DEF Callback, Place
  <2>2. task[o].gen = generation
    BY <1>6, <2>1, Moving DEF Callback, Place
  <2> QED BY <1>6, <2>1, <2>2 DEF Callback, At
<1> QED BY <1>1, <1>2, <1>4, <1>5, <1>6 DEF Next, MainThread, Thread

\* What has taken effect is in landed, and what is taking effect comes after it.
LEMMA Landing == Inv /\ [Next]_vars => LandedInv' /\ LandsInOrder'
<1> SUFFICES ASSUME Inv, [Next]_vars PROVE LandedInv' /\ LandsInOrder'
  OBVIOUS
<1> USE DEF Inv
<1>t. landed \in Seq(Op) /\ \A i \in 1..Len(landed) : landed[i] \in Op
  BY DEF TypeOK
<1>k. \A i \in 1..Len(landed) : task[landed[i]].at # "unused"
  BY DEF LandedInv, Effective
\* Nothing takes effect.
<1>1. ASSUME UNCHANGED landed, \A t \in Op : task[t].at # "unused" => task'[t].gen = task[t].gen,
             \A t \in Op : task[t].at # "unused" => task'[t].kind = task[t].kind,
             \A t \in Op : task[t].at \in Effective <=> task'[t].at \in Effective,
             \A t \in Op : task'[t].at = "landing" =>
               task[t].at # "unused" /\ (task[t].at # "landing" => task[t].gen = generation)
      PROVE  LandedInv' /\ LandsInOrder'
  <2>1. \A i \in 1..Len(landed) : task'[landed[i]].gen = task[landed[i]].gen
                                  /\ task'[landed[i]].kind = task[landed[i]].kind
    BY <1>1, <1>t, <1>k
  <2>2. LandsInOrder'
    BY <1>1, <2>1, <1>t DEF LandsInOrder
  <2>3. ASSUME NEW o \in Op, task'[o].at = "landing", NEW i \in 1..Len(landed)
        PROVE  task'[landed[i]].gen < task'[o].gen
    <3>1. CASE task[o].at = "landing"
      BY <1>1, <2>1, <2>3, <3>1 DEF LandedInv
    <3>2. CASE task[o].at # "landing"
      <4>1. landed[i] # o
        BY <1>1, <2>3, <1>t DEF LandedInv, Effective
      <4>2. task[o].gen = generation /\ task[o].at # "unused"
        BY <1>1, <2>3, <3>2
      <4>3. task[landed[i]].gen # task[o].gen /\ task[landed[i]].gen <= generation
        BY <1>t, <1>k, <4>1, <4>2 DEF DecisionInv
      <4> QED BY <1>1, <2>1, <4>2, <4>3, <1>t DEF TypeOK
    <3> QED BY <3>1, <3>2
  <2> QED BY <1>1, <1>t, <2>2, <2>3 DEF LandedInv
\* Operation o takes effect after everything in landed.
<1>2. ASSUME NEW o \in Op, landed' = Append(landed, o), KeepsTable,
             task'[o].at = "landed", task[o].at \notin Effective,
             \A t \in Op \ {o} : task[t].at \in Effective <=> task'[t].at \in Effective,
             \A t \in Op : task'[t].at # "landing",
             \A i \in 1..Len(landed) :
               \/ task[landed[i]].gen < task[o].gen
               \/ task[landed[i]].kind = "cleanup" /\ task[o].kind = "cleanup"
      PROVE  LandedInv' /\ LandsInOrder'
  <2>1. /\ Len(landed') = Len(landed) + 1 /\ landed'[Len(landed) + 1] = o
        /\ \A i \in 1..Len(landed) : landed'[i] = landed[i]
        /\ Len(landed) \in Nat
    BY <1>2, <1>t
  <2>2. \A i \in 1..Len(landed) : landed[i] # o
    BY <1>2 DEF LandedInv
  <2>3. \A t \in Op : task'[t].kind = task[t].kind /\ task'[t].gen = task[t].gen
    BY <1>2 DEF KeepsTable
  <2>4. LandsInOrder'
    <3> SUFFICES ASSUME NEW i \in 1..Len(landed'), NEW j \in 1..Len(landed'), i < j,
                        ~(task'[landed'[i]].kind = "cleanup" /\ task'[landed'[j]].kind = "cleanup")
                 PROVE  task'[landed'[i]].gen < task'[landed'[j]].gen
      BY DEF LandsInOrder
    <3>1. i \in 1..Len(landed)
      BY <2>1
    <3>2. CASE j \in 1..Len(landed)
      BY <1>t, <2>1, <2>3, <3>1, <3>2 DEF LandsInOrder
    <3>3. CASE j = Len(landed) + 1
      BY <1>2, <1>t, <2>1, <2>3, <3>1, <3>3
    <3> QED BY <2>1, <3>2, <3>3
  <2>5. \A i \in 1..Len(landed') : task'[landed'[i]].at \in Effective
    BY <1>2, <1>t, <2>1, <2>2 DEF LandedInv, Effective
  <2>6. ASSUME NEW t \in Op, task'[t].at \in Effective
        PROVE  \E i \in 1..Len(landed') : landed'[i] = t
    <3>1. CASE t = o
      BY <2>1, <3>1
    <3>2. CASE t # o
      <4>1. PICK i \in 1..Len(landed) : landed[i] = t
        BY <1>2, <2>6, <3>2 DEF LandedInv
      <4> QED BY <2>1, <4>1
    <3> QED BY <3>1, <3>2
  <2> QED BY <1>2, <2>4, <2>5, <2>6 DEF LandedInv
<1>3. ASSUME NEW o \in Op, NEW p \in Place, MoveTo(o, p), UNCHANGED landed,
             task[o].at \in Effective <=> p \in Effective,
             p = "landing" => task[o].gen = generation /\ task[o].at # "unused"
      PROVE  LandedInv' /\ LandsInOrder'
  <2>1. /\ task'[o].at = p
        /\ \A t \in Op : task'[t].kind = task[t].kind /\ task'[t].gen = task[t].gen
        /\ \A t \in Op \ {o} : task'[t] = task[t]
    BY <1>3, Moving
  <2> QED BY <1>1, <1>3, <2>1
<1>4. CASE Cancel \/ UNCHANGED vars
  BY <1>1, <1>4 DEF Cancel, vars
<1>5. ASSUME NEW o \in Op, StartPublish(o) \/ ReserveAdvance(o)
      PROVE  LandedInv' /\ LandsInOrder'
  <2>1. PICK k \in {"publish", "cleanup"}, p \in {"preparing", "reserving"} :
          k \in Kind /\ p \in Place /\ Decide(o, k, p) /\ UNCHANGED landed
    BY <1>5, Starting
  <2>2. /\ task[o].at = "unused" /\ task'[o].at = p
        /\ \A t \in Op \ {o} : task'[t] = task[t]
    BY <2>1, Deciding
  <2> QED BY <1>1, <2>1, <2>2 DEF Effective
<1>6. ASSUME NEW o \in Op,
             \/ ReserveCount(o) \/ Prepared(o) \/ Lock(o) \/ Wait(o) \/ WakeSpuriously(o)
             \/ SeeNoCleanup(o) \/ Refuse(o)
      PROVE  LandedInv' /\ LandsInOrder'
  BY <1>3, <1>6 DEF ReserveCount, ReserveInv, Prepared, Lock, Wait, WakeSpuriously,
                    SeeNoCleanup, Refuse, At, Place, Effective
<1>7. ASSUME NEW o \in Op, BeginLanding(o) \/ Callback(o)
      PROVE  LandedInv' /\ LandsInOrder'
  BY <1>3, <1>7 DEF BeginLanding, IsCurrent, Callback, At, Place, Effective
<1>8. ASSUME NEW o \in Op, FinishLanding(o)
      PROVE  LandedInv' /\ LandsInOrder'
  <2>1. task[o].at = "landing" /\ landed' = Append(landed, o) /\ MoveTo(o, "landed")
    BY <1>8 DEF FinishLanding, At
  <2>2. /\ task'[o].at = "landed" /\ \A t \in Op \ {o} : task'[t] = task[t]
    BY <2>1, Moving DEF Place
  <2>3. \A t \in Op \ {o} : task[t].at # "landing"
    BY <2>1 DEF MutexInv, InMutex
  <2>4. KeepsTable
    BY <1>8, <2>1, OthersKeepTable, NoStart DEF Starts
  <2> QED BY <1>2, <2>1, <2>2, <2>3, <2>4 DEF LandedInv, Effective
<1>9. ASSUME NEW o \in Op, FinishCleanup(o)
      PROVE  LandedInv' /\ LandsInOrder'
  <2>1. task[o].at = "cleaning" /\ task[o].kind = "cleanup" /\ landed' = Append(landed, o)
    BY <1>9, KindByPlace DEF FinishCleanup, At
  <2>2. \A t \in Op : task[t].at # "landing"
    BY <2>1 DEF MutexInv, InMutex
  <2>3. KeepsTable
    BY <1>9, <2>1, OthersKeepTable, NoStart DEF Starts
  <2>4. ASSUME NEW i \in 1..Len(landed), task[landed[i]].kind # "cleanup"
        PROVE  task[landed[i]].gen < task[o].gen
    <3>1. landed[i] \in Op /\ task[landed[i]].at \in Effective /\ landed[i] # o
      BY <1>t, <2>1, <2>4 DEF LandedInv
    <3>2. task[landed[i]].kind = "publish"
      BY <1>k, <2>4, <3>1, KindByPlace DEF TypeOK, Kind
    <3>3. ~(task[o].gen < task[landed[i]].gen)
      BY <2>1, <3>1, <3>2 DEF PassedInv
    <3>4. task[o].gen # task[landed[i]].gen
      BY <2>1, <3>1 DEF DecisionInv, Effective
    <3> QED BY <3>1, <3>3, <3>4 DEF TypeOK
  <2> QED BY <1>2, <1>9, <2>1, <2>2, <2>3, <2>4, Cleaning DEF Effective
<1> QED BY <1>4, <1>5, <1>6, <1>7, <1>8, <1>9 DEF Next, MainThread, Thread

\* The invariant holds in every reachable state.
THEOREM GateInvariance == Spec => []Inv
<1>1. Init => Inv
  <2> SUFFICES ASSUME Init PROVE Inv
    OBVIOUS
  <2> USE OpAssumption DEF Init
  <2>1. TypeOK
    BY DEF TypeOK, Kind, Place
  <2>2. DecisionInv
    BY DEF DecisionInv, PlacesOf
  <2>3. ReserveInv /\ MutexInv
    BY DEF ReserveInv, MutexInv, InMutex
  <2>4. CountInv
    <3>1. Due = {}
      BY DEF Due
    <3> QED BY <3>1, FS_EmptySet DEF CountInv
  <2>5. PassedInv /\ LandedInv /\ LandsInOrder
    BY DEF PassedInv, LandedInv, LandsInOrder, Effective
  <2> QED BY <2>1, <2>2, <2>3, <2>4, <2>5 DEF Inv
<1>2. Inv /\ [Next]_vars => Inv'
  BY Typing, Decisions, Reserves, Mutex, Counting, Passing, Landing DEF Inv
<1> QED BY <1>1, <1>2, PTL DEF Spec

\* Effects take place in the order of the user's decisions (LandsInOrder).
THEOREM GateKeepsOrder == Spec => []LandsInOrder
<1>1. Inv => LandsInOrder
  BY DEF Inv
<1> QED BY <1>1, GateInvariance, PTL

\* The window adopts only the last effect (AdoptsTheLastEffect).
THEOREM GateAdoptsLast == Spec => AdoptsTheLastEffect
<1>1. ASSUME Inv, [Next]_vars, NEW o \in Op, task[o].at # "adopted", task'[o].at = "adopted"
      PROVE  landed # <<>> /\ landed[Len(landed)] = o
  <2>1. task[o].at = "landed" /\ task[o].kind = "publish" /\ task[o].gen = generation
    BY <1>1, OnlyCallbackAdopts
  <2>2. PICK i \in 1..Len(landed) : landed[i] = o
    BY <1>1, <2>1 DEF Inv, LandedInv, Effective
  <2>3. landed \in Seq(Op) /\ Len(landed) \in Nat /\ landed[Len(landed)] \in Op
    BY <1>1, <2>2 DEF Inv, TypeOK
  <2>4. CASE i = Len(landed)
    BY <2>2, <2>3, <2>4
  <2>5. CASE i # Len(landed)
    <3>1. task[o].gen < task[landed[Len(landed)]].gen
      BY <1>1, <2>1, <2>2, <2>3, <2>5 DEF Inv, LandsInOrder
    <3> QED BY <1>1, <2>1, <2>3, <3>1 DEF Inv, TypeOK, DecisionInv
  <2> QED BY <2>4, <2>5
<1>2. Inv /\ [Next]_vars =>
        [\A o \in Op : task[o].at # "adopted" /\ task'[o].at = "adopted"
           => landed # <<>> /\ landed[Len(landed)] = o]_vars
  BY <1>1
<1> QED BY <1>2, GateInvariance, PTL DEF Spec, AdoptsTheLastEffect
=============================================================================
