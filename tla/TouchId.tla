------------------------------- MODULE TouchId -------------------------------
(***************************************************************************)
(* Unlocking (app/state.rs, ui/app_shell.rs): the password form and the    *)
(* Touch ID prompt, both answered by background tasks, while the user      *)
(* moves between vaults, locks, and brings other windows to the front.     *)
(* The prompt comes up on its own once per visit to the unlock screen, and *)
(* again when the system withdrew it.  Every vault here is enrolled        *)
(* (Enrolment has the rest) and none asks for a cost to be confirmed.      *)
(***************************************************************************)
EXTENDS Integers, Sequences, SequencesExt

CONSTANTS Vaults,        \* paths of vault files
          MaxPrompts,    \* bound: Touch ID prompts raised
          MaxOpens       \* bound: opens begun

ASSUME TouchIdConstants == MaxPrompts \in Nat /\ MaxOpens \in Nat

NoVault == "no vault"
IdleAttempt == 0         \* biometric_attempt: Idle, Error, or the generation in flight
FailedAttempt == -1

VARIABLES shown,     \* the active slot: [at, path]; "empty", "awaiting", "opening" or "open"
          kept,      \* parked vaults, the most recent last
          touch,     \* [attempt, generation]
          prompts,   \* prompts[g]: [path, automatic, left, out], the prompt of generation g
          opens,     \* opens[n]: [path, left, out], the password open of attempt n
          attempts,  \* open_attempt
          shell,     \* [attempted, interrupted, rearmed], of the automatic prompt
          active,    \* the window is in front
          raised     \* history: automatic prompts since the user last did anything

touchVars == <<shown, kept, touch, prompts, opens, attempts, shell, active, raised>>

NoPrompt == [path |-> NoVault, automatic |-> FALSE, left |-> FALSE, out |-> FALSE]
NoOpen == [path |-> NoVault, left |-> FALSE, out |-> FALSE]
Calm == [attempted |-> NoVault, interrupted |-> FALSE, rearmed |-> FALSE]

TouchInit ==
  /\ shown = [at |-> "empty", path |-> NoVault]
  /\ kept = <<>>
  /\ touch = [attempt |-> IdleAttempt, generation |-> 0]
  /\ prompts = [g \in 1..MaxPrompts |-> NoPrompt]
  /\ opens = [n \in 1..MaxOpens |-> NoOpen]
  /\ attempts = 0
  /\ shell = Calm
  /\ active = TRUE
  /\ raised = 0

Screen(at, path) == [at |-> at, path |-> path]

\* begin_biometric_unlock: a new generation supersedes the one in flight.
Raise(path, automatic, asked) ==
  /\ touch.generation < MaxPrompts
  /\ LET g == touch.generation + 1 IN
     /\ touch' = [attempt |-> g, generation |-> g]
     /\ prompts' = [asked EXCEPT ![g] =
                      [path |-> path, automatic |-> automatic, left |-> FALSE, out |-> TRUE]]

\* The observer of the state, schedule_automatic_biometric_unlock: what follows every change
\* to a screen, an attempt, the flags of the shell and the activity of the window.
Settles(screen, attempt, flags, front, asked, count) ==
  /\ shown' = screen
  /\ active' = front
  /\ IF screen.at = "awaiting" /\ attempt = IdleAttempt
       /\ front /\ flags.attempted # screen.path
       THEN /\ shell' = [flags EXCEPT !.attempted = screen.path]
            /\ Raise(screen.path, TRUE, asked)
            /\ raised' = count + 1
       ELSE /\ shell' = IF screen.at = "awaiting" THEN flags ELSE Calm
            /\ touch' = [touch EXCEPT !.attempt = attempt]
            /\ prompts' = asked
            /\ raised' = count

\* What the user left behind: the prompts and the opens still under way.
LeftPrompts == [g \in 1..MaxPrompts |-> [prompts[g] EXCEPT !.left = @ \/ prompts[g].out]]
LeftOpens == [n \in 1..MaxOpens |-> [opens[n] EXCEPT !.left = @ \/ opens[n].out]]

Parked == IF shown.at = "open" THEN Append(kept, shown.path) ELSE kept
IsKept(path) == Contains(kept, path)
\* retain, of a path that is there once.
Without(vaults, path) == RemoveAt(vaults, CHOOSE i \in 1..Len(vaults) : vaults[i] = path)

-----------------------------------------------------------------------------
(* The user.                                                               *)

\* request_password, for a vault that is not unlocked.
RequestPasswordFor(path) ==
  /\ shown # Screen("open", path) /\ ~IsKept(path)
  /\ kept' = Parked
  /\ opens' = LeftOpens
  /\ Settles(Screen("awaiting", path), IdleAttempt, shell, active, LeftPrompts, 0)
  /\ UNCHANGED attempts

\* switch_to_unlocked: an attempt in flight stays in flight.
SwitchTo(path) ==
  /\ IsKept(path)
  /\ kept' = Without(Parked, path)
  /\ Settles(Screen("open", path), touch.attempt, shell, active, prompts, 0)
  /\ UNCHANGED <<opens, attempts>>

\* Escape on the unlock screen, with another vault unlocked; and without.
CancelToParked ==
  /\ shown.at = "awaiting" /\ kept # <<>>
  /\ kept' = Front(kept)
  /\ Settles(Screen("open", Last(kept)), touch.attempt, shell, active, prompts, 0)
  /\ UNCHANGED <<opens, attempts>>

\* As a mistake: a lock leaves the attempt as it is.
AttemptKept == touch.attempt

AttemptCleared == IdleAttempt

LockVaultNow ==
  /\ shown.at # "empty"
  /\ shown.at = "awaiting" => kept = <<>>     \* Escape, else the timer: both wipe what is kept
  /\ kept' = <<>>
  /\ opens' = LeftOpens
  /\ Settles(Screen("empty", NoVault), AttemptCleared, shell, active, LeftPrompts, 0)
  /\ UNCHANGED attempts

\* submit_password, begin_open.
SubmitPassword ==
  /\ shown.at = "awaiting" /\ attempts < MaxOpens
  /\ attempts' = attempts + 1
  /\ opens' = [opens EXCEPT ![attempts + 1] =
                 [path |-> shown.path, left |-> FALSE, out |-> TRUE]]
  /\ Settles(Screen("opening", shown.path), touch.attempt, shell, active, prompts, 0)
  /\ UNCHANGED kept

\* The Touch ID button.
SubmitBiometricUnlock ==
  /\ shown.at = "awaiting"
  /\ Raise(shown.path, FALSE, prompts)
  /\ raised' = 0
  /\ UNCHANGED <<shown, kept, opens, attempts, shell, active>>

WindowActivated ==
  /\ ~active
  /\ LET flags == [shell EXCEPT !.rearmed = FALSE, !.interrupted = FALSE,
                                !.attempted = IF shell.interrupted THEN NoVault ELSE @] IN
     Settles(shown, touch.attempt, flags, TRUE, prompts, 0)
  /\ UNCHANGED <<kept, opens, attempts>>

WindowLeft ==
  /\ active
  /\ active' = FALSE
  /\ UNCHANGED <<shown, kept, touch, prompts, opens, attempts, shell, raised>>

-----------------------------------------------------------------------------
(* Background tasks that come back.                                        *)

\* open_attempt_is_current.
OpenAttemptIsCurrent(n) ==
  n = attempts /\ shown = Screen("opening", opens[n].path)

\* finish_open_attempt: either way it ends the attempt in flight.
PasswordOpenEnds(n) ==
  /\ opens[n].out
  /\ opens' = [opens EXCEPT ![n] = NoOpen]
  /\ \E at \in {"open", "awaiting"} :
       IF OpenAttemptIsCurrent(n)
         THEN Settles(Screen(at, opens[n].path), IdleAttempt, shell, active, prompts, raised)
         ELSE UNCHANGED <<shown, touch, prompts, shell, active, raised>>
  /\ UNCHANGED <<kept, attempts>>

Answered(g) == [prompts EXCEPT ![g] = NoPrompt]
Current(g) == touch.attempt = g

\* The prompt was satisfied and the vault decrypted, or not, with the stored password.
PromptSatisfied(g) ==
  /\ prompts[g].out
  /\ CASE ~Current(g) ->                  \* clears whatever attempt is in flight
            /\ touch' = [touch EXCEPT !.attempt = IdleAttempt]
            /\ prompts' = Answered(g)
            /\ UNCHANGED <<shown, kept, shell, active, raised, attempts>>
       [] Current(g) /\ shown = Screen("open", prompts[g].path) ->
            /\ prompts' = Answered(g)
            /\ UNCHANGED <<shown, kept, touch, shell, active, raised, attempts>>
       [] Current(g) /\ IsKept(prompts[g].path) ->
            /\ kept' = Without(Parked, prompts[g].path)
            /\ Settles(Screen("open", prompts[g].path), g, shell, active, Answered(g), raised)
            /\ UNCHANGED attempts
       [] OTHER ->
            /\ attempts < MaxOpens
            /\ attempts' = attempts + 1
            /\ kept' = Parked
            /\ \E at \in {"open", "awaiting"} :
                 Settles(Screen(at, prompts[g].path), IdleAttempt, shell, active,
                         Answered(g), raised)
  /\ UNCHANGED opens

\* As mistakes: a prompt that was withdrawn is always raised again, or on the next activation.
AlwaysAgain == [shell EXCEPT !.attempted = NoVault]
OnActivation == [shell EXCEPT !.interrupted = TRUE]

\* note_automatic_biometric_interruption.
AfterInterruption ==
  CASE ~active -> [shell EXCEPT !.interrupted = TRUE]
    [] active /\ shell.rearmed -> shell
    [] OTHER -> [shell EXCEPT !.rearmed = TRUE, !.attempted = NoVault]

\* fail_biometric_unlock: cancelled by the user, or withdrawn by the system.
PromptFails(g, withdrawn) ==
  /\ prompts[g].out
  /\ LET here == shown = Screen("awaiting", prompts[g].path) IN
     IF Current(g)
       THEN Settles(shown,
                    IF here /\ ~withdrawn THEN FailedAttempt ELSE IdleAttempt,
                    IF withdrawn /\ prompts[g].automatic THEN AfterInterruption ELSE shell,
                    active, Answered(g), raised)
       ELSE prompts' = Answered(g) /\ UNCHANGED <<shown, touch, shell, active, raised>>
  /\ UNCHANGED <<kept, opens, attempts>>

TouchNext ==
  \/ \E v \in Vaults : RequestPasswordFor(v) \/ SwitchTo(v)
  \/ CancelToParked \/ LockVaultNow \/ SubmitPassword \/ SubmitBiometricUnlock
  \/ WindowActivated \/ WindowLeft
  \/ \E n \in 1..MaxOpens : PasswordOpenEnds(n)
  \/ \E g \in 1..MaxPrompts : PromptSatisfied(g) \/ \E w \in BOOLEAN : PromptFails(g, w)

TouchSpec == TouchInit /\ [][TouchNext]_touchVars

-----------------------------------------------------------------------------
\* Type invariant of unlocking; no vault is in two places.
TouchTypeOK ==
  /\ shown.at \in {"empty", "awaiting", "opening", "open"}
  /\ shown.path \in Vaults \union {NoVault}
  /\ kept \in Seq(Vaults) /\ IsInjective(kept)
  /\ shown.at = "open" => ~IsKept(shown.path)
  /\ touch.attempt \in -1..MaxPrompts /\ touch.generation \in 0..MaxPrompts
  /\ attempts \in 0..MaxOpens
  /\ shell.attempted \in Vaults \union {NoVault}

\* An answer to what was asked before the user locked, or went to the unlock screen of another
\* vault, opens nothing and changes no screen, though the same vault is being opened again.
LeftAnswersAreDropped ==
  [][/\ \A n \in 1..MaxOpens : PasswordOpenEnds(n) /\ opens[n].left => UNCHANGED <<shown, kept>>
     /\ \A g \in 1..MaxPrompts :
          PromptSatisfied(g) /\ prompts[g].left => UNCHANGED <<shown, kept>>]_touchVars

\* The prompt comes up by itself at most twice before the user does something.
AutomaticPromptsEnd == raised <= 2

\* A withdrawn prompt waits for the window to come to the front only while it is not there:
\* that activation is still to come, and raises it again.
InterruptionIsNotMissed == shell.interrupted => ~active

\* A prompt answers the screen it was raised for, and neither nags nor gives up.
PromptsServeTheirScreen ==
  [](AutomaticPromptsEnd /\ InterruptionIsNotMissed) /\ LeftAnswersAreDropped
=============================================================================
