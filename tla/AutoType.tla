------------------------------- MODULE AutoType -------------------------------
(***************************************************************************)
(* Auto-type (autotype/mod.rs, autotype/typer.rs and perform_auto_type of  *)
(* ui/app_shell.rs): attempts start on the main thread, by hotkey or after *)
(* a countdown, and type on background threads, while windows come to the  *)
(* front and the main thread locks or switches the vault, which revokes    *)
(* the context of everything under way (rotate_auto_type_context).         *)
(*                                                                         *)
(* What is typed is a sequence of operations: a "key", or a "text" of two  *)
(* characters.  Pauses are left out, everything may take any time.         *)
(***************************************************************************)
EXTENDS Integers, Sequences

CONSTANTS Attempts,      \* attempts to type
          Apps,          \* applications that may be in front, FerrisPass among them
          FerrisPass,
          Script,        \* the operations of the rendered sequence
          MaxContexts    \* bound: vault contexts

Nobody == "nobody"

\* A sequence of no operations types nothing.
ASSUME AutoTypeConstants ==
  /\ FerrisPass \in Apps /\ Nobody \notin Attempts
  /\ Script \in Seq({"key", "text"}) /\ Script # <<>>
  /\ MaxContexts \in Nat \ {0}

VARIABLES front,      \* the application in front
          context,    \* the vault context, whose token everything under way holds
          unlocked,   \* a vault is open in it
          cancelled,  \* the contexts whose token is cancelled
          rotating,   \* the main thread is cancelling the token and waits for its gate
          gate,       \* gate[k]: the attempt that holds the dispatch gate of context k
          try,        \* try[t]: the attempt
          late,       \* history: late[t], its characters since its token was cancelled
          strayed     \* history: strayed[t], the operation at which its target was left

typeVars == <<front, context, unlocked, cancelled, rotating, gate, try, late, strayed>>

NotYet == [at |-> "off", context |-> 0, target |-> FerrisPass, op |-> 1, char |-> 1]

Length(op) == IF Script[op] = "text" THEN 2 ELSE 1

TypeInit ==
  /\ front = FerrisPass
  /\ context = 1 /\ unlocked = TRUE
  /\ cancelled = {}
  /\ rotating = FALSE
  /\ gate = [k \in 1..MaxContexts |-> Nobody]
  /\ try = [t \in Attempts |-> NotYet]
  /\ late = [t \in Attempts |-> 0]
  /\ strayed = [t \in Attempts |-> 0]

Trying(t, step) == try[t].at = step
Moves(t, step) == try' = [try EXCEPT ![t].at = step]
Revoked(t) == try[t].context \in cancelled

-----------------------------------------------------------------------------
(* The main thread, which rotating blocks.                                 *)

Countdown(t) ==
  /\ ~rotating /\ Trying(t, "off") /\ unlocked
  /\ try' = [try EXCEPT ![t].at = "countdown", ![t].context = context]
  /\ UNCHANGED <<front, context, unlocked, cancelled, rotating, gate, late, strayed>>

\* perform_auto_type and prepare: the window in front becomes the target of the plan.
Prepare(t, token) ==
  IF token \in cancelled \/ ~unlocked \/ front = FerrisPass
    THEN Moves(t, "done")
    ELSE try' = [try EXCEPT ![t].at = "queued", ![t].context = token, ![t].target = front]

Hotkey(t) ==
  /\ ~rotating /\ Trying(t, "off")
  /\ Prepare(t, context)
  /\ UNCHANGED <<front, context, unlocked, cancelled, rotating, gate, late, strayed>>

CountdownElapsed(t) ==
  /\ ~rotating /\ Trying(t, "countdown")
  /\ Prepare(t, try[t].context)
  /\ UNCHANGED <<front, context, unlocked, cancelled, rotating, gate, late, strayed>>

\* A lock, a switch or an unlock: the token is cancelled, and then its gate is waited for.
Cancel ==
  /\ ~rotating /\ context < MaxContexts
  /\ cancelled' = cancelled \union {context}
  /\ rotating' = TRUE
  /\ UNCHANGED <<front, context, unlocked, gate, try, late, strayed>>

\* As a mistake: cancelling waits for nobody.
WaitsForNobody == TRUE

Barrier == gate[context] = Nobody

CancelReturns ==
  /\ rotating /\ Barrier
  /\ rotating' = FALSE
  /\ context' = context + 1
  /\ unlocked' \in BOOLEAN
  /\ UNCHANGED <<front, cancelled, gate, try, late, strayed>>

-----------------------------------------------------------------------------
(* The typing threads (typer::perform).                                    *)

Execute(t) ==
  /\ Trying(t, "queued")
  /\ Moves(t, IF Revoked(t) THEN "done" ELSE "next")
  /\ UNCHANGED <<front, context, unlocked, cancelled, rotating, gate, late, strayed>>

\* As a mistake: the window in front is looked at before the first operation only.
GuardedOnce(t) == front = try[t].target \/ try[t].op > 1

FocusGuard(t) == front = try[t].target

\* The inter-operation pause, and the focus guard before every operation.
GuardOperation(t) ==
  /\ Trying(t, "next")
  /\ Moves(t, IF Revoked(t) \/ ~FocusGuard(t) THEN "done" ELSE "guarded")
  /\ UNCHANGED <<front, context, unlocked, cancelled, rotating, gate, late, strayed>>

\* dispatch_if_active: under the gate, and only while the token is not cancelled.
EnterGate(t) ==
  /\ Trying(t, "guarded") /\ gate[try[t].context] = Nobody
  /\ IF Revoked(t)
       THEN Moves(t, "done") /\ UNCHANGED gate
       ELSE /\ Moves(t, "dispatching")
            /\ gate' = [gate EXCEPT ![try[t].context] = t]
  /\ UNCHANGED <<front, context, unlocked, cancelled, rotating, late, strayed>>

\* As a mistake: an operation is typed to its end.
ToItsEnd(t) == TRUE

\* dispatch_text asks before every character, a key is one event.
StillActive(t) == Script[try[t].op] = "text" => ~Revoked(t)

BeforeCharacter(t) ==
  /\ Trying(t, "dispatching")
  /\ IF StillActive(t)
       THEN Moves(t, "character") /\ UNCHANGED gate
       ELSE Moves(t, "done") /\ gate' = [gate EXCEPT ![try[t].context] = Nobody]
  /\ UNCHANGED <<front, context, unlocked, cancelled, rotating, late, strayed>>

\* The character goes to whatever is in front.
Character(t) ==
  /\ Trying(t, "character")
  /\ late' = IF Revoked(t) THEN [late EXCEPT ![t] = @ + 1] ELSE late
  /\ IF try[t].char < Length(try[t].op)
       THEN /\ try' = [try EXCEPT ![t].at = "dispatching", ![t].char = @ + 1]
            /\ UNCHANGED gate
       ELSE /\ try' = IF try[t].op < Len(Script)
                        THEN [try EXCEPT ![t].at = "next", ![t].op = @ + 1, ![t].char = 1]
                        ELSE [try EXCEPT ![t].at = "done"]
            /\ gate' = [gate EXCEPT ![try[t].context] = Nobody]
  /\ UNCHANGED <<front, context, unlocked, cancelled, rotating, strayed>>

-----------------------------------------------------------------------------
\* Another application comes to the front.
FocusMoves ==
  /\ \E a \in Apps \ {front} :
       /\ front' = a
       /\ strayed' = [t \in Attempts |->
            CASE a = try[t].target -> 0
              [] front = try[t].target -> try[t].op
              [] OTHER -> strayed[t]]
  /\ UNCHANGED <<context, unlocked, cancelled, rotating, gate, try, late>>

TypeStep(t) ==
  \/ Countdown(t) \/ Hotkey(t) \/ CountdownElapsed(t)
  \/ Execute(t) \/ GuardOperation(t) \/ EnterGate(t) \/ BeforeCharacter(t) \/ Character(t)

TypeNext == FocusMoves \/ Cancel \/ CancelReturns \/ \E t \in Attempts : TypeStep(t)

TypeSpec == TypeInit /\ [][TypeNext]_typeVars

-----------------------------------------------------------------------------
\* Type invariant of auto-type.
AutoTypeOK ==
  /\ front \in Apps /\ context \in 1..MaxContexts /\ unlocked \in BOOLEAN
  /\ cancelled \subseteq 1..MaxContexts /\ rotating \in BOOLEAN
  /\ gate \in [1..MaxContexts -> Attempts \union {Nobody}]
  /\ \A t \in Attempts :
       /\ try[t].context \in 0..MaxContexts /\ try[t].target \in Apps
       /\ try[t].op \in 1..Len(Script) /\ try[t].char \in 1..2
       /\ late[t] \in Nat /\ strayed[t] \in 0..Len(Script)

\* When locking or switching the vault returns, nothing its context authorised is being
\* typed any more, or ever will be: the plans of that context hold its passwords.
NothingTypedAfterTheLock == [][\A t \in Attempts : Character(t) => try[t].context = context]_typeVars

\* An attempt that is typing when its token is cancelled sends one character more at most.
CancelStopsTheText(t) == late[t] <= 1

\* Once the target is no longer in front, what is typed elsewhere is at most the rest of the
\* operation that had begun: no later operation begins until the target is back.
StrayIsOneOperation ==
  [][\A t \in Attempts : Character(t) /\ front # try[t].target => strayed[t] = try[t].op]_typeVars

\* Typing ends with the vault it is from, with its token, and with its target.
TypingStops ==
  [](\A t \in Attempts : CancelStopsTheText(t)) /\ NothingTypedAfterTheLock /\ StrayIsOneOperation
=============================================================================
