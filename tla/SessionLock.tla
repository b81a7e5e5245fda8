----------------------------- MODULE SessionLock -----------------------------
(***************************************************************************)
(* The screen-lock observer (session_lock.rs) and the task that consumes   *)
(* it (AppShell::start_session_lock_task), beside the idle timer and the   *)
(* user.  Notifications arrive on threads of the system, each as two       *)
(* steps: the latch, then the wake-up in a bounded channel that drops what *)
(* does not fit.  The consumer runs on the main thread without awaiting    *)
(* anything between a wake-up and the lock, so that only the notification  *)
(* threads come in between.                                                *)
(*                                                                         *)
(* A vault with unsaved work is locked later (VaultSave); here a lock is   *)
(* its removal from the screen, which happens at once in either case.      *)
(***************************************************************************)
EXTENDS Integers

CONSTANTS Threads,       \* notification threads
          QueueCap       \* the capacity of the wake-up channel, at least 1

ASSUME SessionLockConstants == QueueCap \in Nat \ {0}

VARIABLES screen,    \* "locked", "opening" or "open": a vault
          fresh,     \* a vault was opened less than five seconds ago
          latch,     \* a genuine lock event happened since the last look
          queue,     \* wake-ups in the channel
          sending,   \* sending[t]: "none", "event" (to be noted), or "wake-up" (to be sent)
          genuine,   \* genuine[t]: the event of t is a Lock
          consumer,  \* "waiting", "draining", "looking", or what it found: "Lock", "PostWake"
          due        \* history: "noted", a Lock since the last look; "looked", one the look was for

lockVars == <<screen, fresh, latch, queue, sending, genuine, consumer, due>>

LockInit ==
  /\ screen = "locked" /\ fresh = FALSE
  /\ latch = FALSE /\ queue = 0
  /\ sending = [t \in Threads |-> "none"]
  /\ genuine = [t \in Threads |-> FALSE]
  /\ consumer = "waiting"
  /\ due = "none"

-----------------------------------------------------------------------------
(* The notification threads (EventSink::dispatch).                         *)

Notified(t) ==
  /\ sending[t] = "none"
  /\ sending' = [sending EXCEPT ![t] = "event"]
  /\ \E g \in BOOLEAN : genuine' = [genuine EXCEPT ![t] = g]
  /\ UNCHANGED <<screen, fresh, latch, queue, consumer, due>>

\* As a mistake: a Lock is noted by the wake-up that carries it.
NotedIfItFits(t) == genuine[t] /\ queue < QueueCap

Noted(t) == genuine[t]

DispatchLatches(t) ==
  /\ sending[t] = "event"
  /\ sending' = [sending EXCEPT ![t] = "wake-up"]
  /\ latch' = (latch \/ Noted(t))
  /\ due' = IF genuine[t] THEN "noted" ELSE due
  /\ UNCHANGED <<screen, fresh, queue, genuine, consumer>>

DispatchWakes(t) ==
  /\ sending[t] = "wake-up"
  /\ sending' = [sending EXCEPT ![t] = "none"]
  /\ queue' = IF queue < QueueCap THEN queue + 1 ELSE queue
  /\ UNCHANGED <<screen, fresh, latch, genuine, consumer, due>>

-----------------------------------------------------------------------------
(* The consumer.                                                           *)

Receive ==
  /\ consumer = "waiting" /\ queue > 0
  /\ queue' = queue - 1
  /\ consumer' = "draining"
  /\ UNCHANGED <<screen, fresh, latch, sending, genuine, due>>

DrainOne ==
  /\ consumer = "draining" /\ queue > 0
  /\ queue' = queue - 1
  /\ UNCHANGED <<screen, fresh, latch, sending, genuine, consumer, due>>

Drained ==
  /\ consumer = "draining" /\ queue = 0
  /\ consumer' = "looking"
  /\ UNCHANGED <<screen, fresh, latch, queue, sending, genuine, due>>

\* As a mistake: the latch is read and left as it is.
LatchLeft == latch

LatchTaken == FALSE

ConsultLatch ==
  /\ consumer = "looking"
  /\ consumer' = IF latch THEN "Lock" ELSE "PostWake"
  /\ latch' = LatchTaken
  /\ due' = IF due = "noted" THEN "looked" ELSE "none"
  /\ UNCHANGED <<screen, fresh, queue, sending, genuine>>

\* Within the grace period of an unlock a trailing wake-up locks nothing, and a Lock does.
Graced == consumer = "PostWake" /\ fresh

HandleEvent ==
  /\ consumer \in {"Lock", "PostWake"}
  /\ screen' = IF Graced THEN screen ELSE "locked"
  /\ consumer' = "waiting"
  /\ due' = IF due = "looked" THEN "none" ELSE due
  /\ UNCHANGED <<fresh, latch, queue, sending, genuine>>

-----------------------------------------------------------------------------
(* The user and the clock, between two turns of the main thread.           *)

Unlock ==
  /\ consumer = "waiting" /\ screen = "locked"
  /\ screen' = "opening"
  /\ UNCHANGED <<fresh, latch, queue, sending, genuine, consumer, due>>

\* The key derivation ends; a vault that was locked meanwhile is not opened.
Unlocked ==
  /\ consumer = "waiting" /\ screen = "opening"
  /\ screen' = "open" /\ fresh' = TRUE
  /\ UNCHANGED <<latch, queue, sending, genuine, consumer, due>>

GraceEnds ==
  /\ fresh
  /\ fresh' = FALSE
  /\ UNCHANGED <<screen, latch, queue, sending, genuine, consumer, due>>

\* The user locks, or the idle timer does.
LockByUserOrTimer ==
  /\ consumer = "waiting" /\ screen # "locked"
  /\ screen' = "locked"
  /\ UNCHANGED <<fresh, latch, queue, sending, genuine, consumer, due>>

LockNext ==
  \/ \E t \in Threads : Notified(t) \/ DispatchLatches(t) \/ DispatchWakes(t)
  \/ Receive \/ DrainOne \/ Drained \/ ConsultLatch \/ HandleEvent
  \/ Unlock \/ Unlocked \/ GraceEnds \/ LockByUserOrTimer

LockSpec == LockInit /\ [][LockNext]_lockVars

-----------------------------------------------------------------------------
\* Type invariant of the observer and its consumer.
LockTypeOK ==
  /\ screen \in {"locked", "opening", "open"} /\ fresh \in BOOLEAN
  /\ latch \in BOOLEAN /\ queue \in 0..QueueCap
  /\ sending \in [Threads -> {"none", "event", "wake-up"}]
  /\ genuine \in [Threads -> BOOLEAN]
  /\ consumer \in {"waiting", "draining", "looking", "Lock", "PostWake"}
  /\ due \in {"none", "noted", "looked"}

\* A genuine lock event that the consumer has looked at is the one it handles.
LookedAtIsHandled == due = "looked" => consumer = "Lock"

\* Until then the latch has it and the consumer is going to look, though wake-ups are dropped
\* by a full channel and drained in bursts.
NotedIsLookedFor ==
  due = "noted" => /\ latch
                   /\ \/ queue > 0 \/ consumer \in {"draining", "looking"}
                      \/ \E t \in Threads : sending[t] = "wake-up"

\* A vault the user has only just opened is locked by the observer for a Lock noted since
\* it last looked, and never for a wake-up that trails behind.
FreshVaultIsSpared ==
  [][HandleEvent /\ screen = "open" /\ fresh /\ screen' = "locked" => due # "none"]_lockVars

\* Every lock of the screen arrives, and only locks of the screen do.
LocksArrive == [](LookedAtIsHandled /\ NotedIsLookedFor) /\ FreshVaultIsSpared
=============================================================================
