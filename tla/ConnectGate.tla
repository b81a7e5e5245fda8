---------------------------- MODULE ConnectGate ----------------------------
(***************************************************************************)
(* The operation gate of the connect flow: ConnectOperationGate in         *)
(* src/app/state.rs with the operations that pass it.                      *)
(*                                                                         *)
(* Connecting a vault downloads it on a background thread and then         *)
(* publishes a local file, a configuration and a token; disconnecting one  *)
(* removes them on another.  The window never waits for either.  The gate  *)
(* keeps the order of the user's decisions: a generation that every        *)
(* decision advances, a mutex around the irreversible part of each         *)
(* operation, a count of the clean-ups that are reserved and not finished, *)
(* and a condition variable on which publications wait for them.           *)
(***************************************************************************)
EXTENDS Naturals, Sequences, FiniteSets

CONSTANTS Op,             \* publications and clean-ups the user starts
          NoOp,
          MaxGeneration   \* bound on cancelling

ASSUME OpAssumption == NoOp \notin Op

VARIABLES
  generation,      \* ConnectOperationGateInner.generation
  cleanupPending,  \* ConnectOperationGateInner.cleanup_pending
  commit,          \* the thread that holds ConnectOperationGateInner.commit
  task,            \* kind, generation and place of each operation
  reserving,       \* the clean-up inside reserve_cleanup on the main thread
  landed           \* history: operations in the order they took effect

vars == <<generation, cleanupPending, commit, task, reserving, landed>>

Kind == {"none", "publish", "cleanup"}

\* Where an operation is.  A publication goes from preparing (the download) to
\* locking, counting (the loop over cleanup_pending), checking (is_current),
\* landing; a clean-up from reserving to queued, cleaning, landed.
Place == {"unused", "preparing", "failed", "locking", "counting", "waiting",
          "checking", "refused", "landing", "landed", "adopted", "kept",
          "reserving", "queued", "cleaning"}

InMutex == {"counting", "checking", "landing", "cleaning"}
Ended   == {"failed", "refused", "adopted", "kept"}
Effective == {"landed", "adopted", "kept"}

At(o, place) == task[o].at = place

MoveTo(o, place) == task' = [task EXCEPT ![o].at = place]

Init ==
  /\ generation = 0
  /\ cleanupPending = 0
  /\ commit = NoOp
  /\ task = [o \in Op |-> [kind |-> "none", gen |-> 0, at |-> "unused"]]
  /\ reserving = NoOp
  /\ landed = <<>>

----------------------------------------------------------------------------
(* The main thread.  reserve_cleanup makes two atomic steps; nothing else   *)
(* of the main thread runs between them.                                    *)

Advance == generation' = generation + 1

\* Cancel, Back, another overlay, another provider or a lock.
Cancel ==
  /\ reserving = NoOp
  /\ generation < MaxGeneration
  /\ Advance
  /\ UNCHANGED <<cleanupPending, commit, task, reserving, landed>>

Decide(o, kind, place) ==
  /\ reserving = NoOp
  /\ At(o, "unused")
  /\ Advance
  /\ task' = [task EXCEPT ![o] = [kind |-> kind, gen |-> generation + 1, at |-> place]]

\* The user picks a file, publishes to iCloud or signs in again.
StartPublish(o) ==
  /\ Decide(o, "publish", "preparing")
  /\ UNCHANGED <<cleanupPending, commit, reserving, landed>>

\* The user disconnects: the first half of reserve_cleanup.
ReserveAdvance(o) ==
  /\ Decide(o, "cleanup", "reserving")
  /\ reserving' = o
  /\ UNCHANGED <<cleanupPending, commit, landed>>

\* Mutant: the reservation only invalidates older operations.
ReserveUncounted(o) ==
  /\ reserving = o
  /\ MoveTo(o, "queued")
  /\ reserving' = NoOp
  /\ UNCHANGED <<generation, cleanupPending, commit, landed>>

\* The second half, and the clean-up is handed to the executor.
ReserveCount(o) ==
  /\ reserving = o
  /\ cleanupPending' = cleanupPending + 1
  /\ MoveTo(o, "queued")
  /\ reserving' = NoOp
  /\ UNCHANGED <<generation, commit, landed>>

\* Mutant: the window adopts what landed, whatever was decided since.
CallbackBlind(o) ==
  /\ reserving = NoOp
  /\ task[o].kind = "publish"
  /\ At(o, "landed")
  /\ Advance
  /\ MoveTo(o, "adopted")
  /\ UNCHANGED <<cleanupPending, commit, reserving, landed>>

\* The completion callback of a publication that landed: adopted by the window
\* when nothing was decided since and its vault is still there, otherwise only
\* kept on disk.
Callback(o) ==
  /\ reserving = NoOp
  /\ task[o].kind = "publish"
  /\ At(o, "landed")
  /\ \/ task[o].gen = generation /\ Advance /\ MoveTo(o, "adopted")
     \/ MoveTo(o, "kept") /\ UNCHANGED generation
  /\ UNCHANGED <<cleanupPending, commit, reserving, landed>>

----------------------------------------------------------------------------
(* commit_if_current on a background thread                                 *)

Prepared(o) ==
  /\ At(o, "preparing")
  /\ \/ MoveTo(o, "locking")
     \/ MoveTo(o, "failed")
  /\ UNCHANGED <<generation, cleanupPending, commit, reserving, landed>>

Lock(o) ==
  /\ commit = NoOp
  /\ \/ At(o, "locking") /\ MoveTo(o, "counting")
     \/ At(o, "queued") /\ MoveTo(o, "cleaning")
  /\ commit' = o
  /\ UNCHANGED <<generation, cleanupPending, reserving, landed>>

\* Condvar::wait releases the mutex and sleeps in one step.
Wait(o) ==
  /\ At(o, "counting")
  /\ cleanupPending # 0
  /\ MoveTo(o, "waiting")
  /\ commit' = NoOp
  /\ UNCHANGED <<generation, cleanupPending, reserving, landed>>

\* A wait may also end without a notification.
WakeSpuriously(o) ==
  /\ At(o, "waiting")
  /\ MoveTo(o, "locking")
  /\ UNCHANGED <<generation, cleanupPending, commit, reserving, landed>>

\* Mutant: a publication does not wait for clean-ups.
GoAhead(o) ==
  /\ At(o, "counting")
  /\ MoveTo(o, "checking")
  /\ UNCHANGED <<generation, cleanupPending, commit, reserving, landed>>

SeeNoCleanup(o) ==
  /\ At(o, "counting")
  /\ cleanupPending = 0
  /\ MoveTo(o, "checking")
  /\ UNCHANGED <<generation, cleanupPending, commit, reserving, landed>>

\* Mutant: an abandoned operation is as good as a current one.
AlwaysCurrent(o) == TRUE

IsCurrent(o) == task[o].gen = generation

Refuse(o) ==
  /\ At(o, "checking")
  /\ ~IsCurrent(o)
  /\ MoveTo(o, "refused")
  /\ commit' = NoOp
  /\ UNCHANGED <<generation, cleanupPending, reserving, landed>>

BeginLanding(o) ==
  /\ At(o, "checking")
  /\ IsCurrent(o)
  /\ MoveTo(o, "landing")
  /\ UNCHANGED <<generation, cleanupPending, commit, reserving, landed>>

FinishLanding(o) ==
  /\ At(o, "landing")
  /\ MoveTo(o, "landed")
  /\ landed' = Append(landed, o)
  /\ commit' = NoOp
  /\ UNCHANGED <<generation, cleanupPending, reserving>>

----------------------------------------------------------------------------
(* run_reserved_cleanup.  The decrement and the notification are one step:  *)
(* both are made under the mutex, and a waiter needs the mutex to go on.    *)

\* Mutant: the condition variable is not notified.
NobodyNotified(o, t) == IF t = o THEN [task[t] EXCEPT !.at = "landed"] ELSE task[t]

Notified(o, t) ==
  IF At(t, "waiting") /\ cleanupPending = 1 THEN [task[t] EXCEPT !.at = "locking"]
  ELSE IF t = o THEN [task[t] EXCEPT !.at = "landed"]
  ELSE task[t]

FinishCleanup(o) ==
  /\ At(o, "cleaning")
  /\ task' = [t \in Op |-> Notified(o, t)]
  /\ landed' = Append(landed, o)
  /\ cleanupPending' = cleanupPending - 1
  /\ commit' = NoOp
  /\ UNCHANGED <<generation, reserving>>

----------------------------------------------------------------------------
Thread(o) ==
  \/ Prepared(o) \/ Lock(o) \/ Wait(o) \/ SeeNoCleanup(o) \/ Refuse(o)
  \/ BeginLanding(o) \/ FinishLanding(o) \/ FinishCleanup(o)

MainThread(o) ==
  StartPublish(o) \/ ReserveAdvance(o) \/ ReserveCount(o) \/ Callback(o)

Next == Cancel \/ \E o \in Op : MainThread(o) \/ Thread(o) \/ WakeSpuriously(o)

Spec == Init /\ [][Next]_vars

\* Tasks run until they end, and a callback that is due is run.  The mutex is
\* free again and again while others use it; a thread that asks for it gets it
\* at last.  Starting an operation is the user's choice.
Fairness ==
  \A o \in Op : /\ WF_vars(Thread(o))
                /\ SF_vars(Lock(o))
                /\ WF_vars(ReserveCount(o) \/ Callback(o))

FairSpec == Spec /\ Fairness

----------------------------------------------------------------------------
TypeOK ==
  /\ generation \in Nat
  /\ cleanupPending \in Nat
  /\ commit \in Op \cup {NoOp}
  /\ task \in [Op -> [kind : Kind, gen : Nat, at : Place]]
  /\ reserving \in Op \cup {NoOp}
  /\ landed \in Seq(Op)

\* Effects take place in the order of the user's decisions: what was decided
\* later never takes effect before what was decided earlier, unless both are
\* clean-ups.  So an abandoned publication never recreates what a later
\* disconnect removed, and a disconnect never removes what a later connect
\* published (commit_if_current, run_reserved_cleanup).
LandsInOrder ==
  \A i, j \in 1..Len(landed) :
    (i < j /\ ~(task[landed[i]].kind = "cleanup" /\ task[landed[j]].kind = "cleanup"))
      => task[landed[i]].gen < task[landed[j]].gen

\* The inductive invariant, in parts.  Decisions have generations of their own,
\* and an operation is only in places its kind has.
PlacesOf(kind) ==
  CASE kind = "none"    -> {"unused"}
    [] kind = "cleanup" -> {"reserving", "queued", "cleaning", "landed"}
    [] kind = "publish" -> Place \ {"unused", "reserving", "queued", "cleaning"}

DecisionInv ==
  /\ \A o \in Op :
       /\ task[o].gen <= generation
       /\ task[o].at \in PlacesOf(task[o].kind)
  /\ \A o, p \in Op :
       o # p /\ task[o].at # "unused" /\ task[p].at # "unused"
         => task[o].gen # task[p].gen

\* The main thread is inside reserve_cleanup with its newest decision.
ReserveInv ==
  \A o \in Op :
    /\ reserving = o <=> task[o].at = "reserving"
    /\ reserving = o => task[o].gen = generation

\* The mutex has the owner that its places say.
MutexInv == \A o \in Op : commit = o <=> task[o].at \in InMutex

\* cleanup_pending counts the clean-ups that are due.
Due == {o \in Op : task[o].at \in {"queued", "cleaning"}}

CountInv == IsFiniteSet(Due) /\ cleanupPending = Cardinality(Due)

\* A publication past the loop over cleanup_pending comes after every earlier
\* clean-up; past is_current, after everything that has taken effect.
PassedInv ==
  \A o \in Op : (task[o].kind = "publish" /\ task[o].at \in {"checking", "landing"} \cup Effective)
    => \A c \in Op : (task[c].kind = "cleanup" /\ task[c].gen < task[o].gen)
         => task[c].at = "landed"

LandedInv ==
  /\ \A i \in 1..Len(landed) : task[landed[i]].at \in Effective
  /\ \A o \in Op : task[o].at \in Effective => \E i \in 1..Len(landed) : landed[i] = o
  /\ \A o \in Op : task[o].at = "landing"
       => \A i \in 1..Len(landed) : task[landed[i]].gen < task[o].gen

Inv ==
  /\ TypeOK /\ DecisionInv /\ ReserveInv /\ MutexInv /\ CountInv
  /\ PassedInv /\ LandedInv /\ LandsInOrder

\* The window adopts a publication only while it is the last effect on disk:
\* the binding it installs is then the one the files hold (pick_kdbx_file and
\* its siblings, the is_current guards of their callbacks).
AdoptsTheLastEffect ==
  [][\A o \in Op :
       task[o].at # "adopted" /\ task'[o].at = "adopted"
         => landed # <<>> /\ landed[Len(landed)] = o]_vars

\* No operation stays at the gate for ever: a publication that waits for
\* clean-ups is woken when the last of them ends, and a clean-up that was
\* reserved is carried out.
NobodyWaitsForever ==
  \A o \in Op : task[o].at # "unused" ~>
                  task[o].at \in Ended \/ (task[o].kind = "cleanup" /\ task[o].at = "landed")
=============================================================================
