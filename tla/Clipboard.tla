------------------------------ MODULE Clipboard ------------------------------
(***************************************************************************)
(* Copies that are cleared again (copy_with_auto_clear of ui/app_shell.rs, *)
(* clipboard_macos.rs): the pasteboard is shared with every other          *)
(* application and known by a change count, a copy is written in several   *)
(* calls, a timer belongs to each copy, and a timer that was replaced or   *)
(* cancelled may already be on its way.  Comparing the count and clearing  *)
(* are one step here; the pasteboard offers nothing better.                *)
(***************************************************************************)
EXTENDS Integers

CONSTANT MaxCount      \* bound: the pasteboard's change count

ASSUME ClipboardConstants == MaxCount \in Nat

VARIABLES board,     \* the pasteboard: its change count, and whose text it holds
          writing,   \* the count reserved for a copy being written, 0 for none
          written,   \* the text of that copy is on the pasteboard
          pending,   \* pending_clipboard_write: the count of our copy, 0 for none
          timers,    \* the copies whose clear timer may still fire
          timed      \* the pending copy got a timer

clipVars == <<board, writing, written, pending, timers, timed>>

ClipInit ==
  /\ board = [count |-> 0, holds |-> "theirs"]
  /\ writing = 0 /\ written = FALSE
  /\ pending = 0
  /\ timers = {} /\ timed = FALSE

OtherAppCopies ==
  /\ board.count < MaxCount
  /\ board' = [count |-> board.count + 1, holds |-> "theirs"]
  /\ UNCHANGED <<writing, written, pending, timers, timed>>

\* clear_if_unchanged; clearing counts as a change.
ClearIfUnchanged(count) ==
  IF count = board.count THEN [count |-> count + 1, holds |-> "nothing"] ELSE board

\* write_secret_text: a count is reserved, then the item is written.
PrepareForNewContents ==
  /\ writing = 0 /\ board.count < MaxCount
  /\ board' = [count |-> board.count + 1, holds |-> "nothing"]
  /\ writing' = board.count + 1
  /\ UNCHANGED <<written, pending, timers, timed>>

WriteObjects ==
  /\ writing # 0 /\ ~written
  /\ board.count = writing
  /\ board' = [board EXCEPT !.holds = "secret"]
  /\ written' = TRUE
  /\ UNCHANGED <<writing, pending, timers, timed>>

\* A refused item: what was prepared is cleared, and our earlier copy is given up.
WriteFails ==
  /\ writing # 0 /\ ~written
  /\ board' = ClearIfUnchanged(writing)
  /\ writing' = 0 /\ pending' = 0 /\ timed' = FALSE
  /\ timers' \in {{}, timers}
  /\ UNCHANGED written

\* As a mistake: the count is read when the text has been written.
CountReadBack == board.count

CountOfTheCopy == writing

\* schedule_clipboard_clear: replacing the timer drops the one before, or comes too late for it.
CopyDone ==
  /\ written
  /\ pending' = CountOfTheCopy
  /\ timed' \in BOOLEAN                       \* "Never" is a setting
  /\ LET kept == IF timed' THEN {CountOfTheCopy} ELSE {} IN
     timers' \in {kept, timers \union kept}
  /\ writing' = 0 /\ written' = FALSE
  /\ UNCHANGED board

ClearOwned ==
  /\ board' = IF pending = 0 THEN board ELSE ClearIfUnchanged(pending)
  /\ pending' = 0 /\ timed' = FALSE

\* As mistakes: a timer clears whatever copy is pending, or gives up a copy not its own.
ClearsAnyCopy(t) == ClearOwned
GivesUpAnyCopy(t) ==
  IF pending = t THEN ClearOwned ELSE pending' = 0 /\ timed' = FALSE /\ UNCHANGED board

ClearsItsCopy(t) == IF pending = t THEN ClearOwned ELSE UNCHANGED <<board, pending, timed>>

TimerFires(t) ==
  /\ t \in timers /\ writing = 0
  /\ timers' = timers \ {t}
  /\ ClearsItsCopy(t)
  /\ UNCHANGED <<writing, written>>

\* wipe_session_secrets, at a lock and at every change of the open vault.
WipeSessionSecrets ==
  /\ writing = 0
  /\ ClearOwned
  /\ timers' \in {{}, timers}
  /\ UNCHANGED <<writing, written>>

ClipNext ==
  \/ OtherAppCopies
  \/ PrepareForNewContents \/ WriteObjects \/ WriteFails \/ CopyDone
  \/ \E t \in timers : TimerFires(t)
  \/ WipeSessionSecrets

ClipSpec == ClipInit /\ [][ClipNext]_clipVars

-----------------------------------------------------------------------------
\* Type invariant of the clipboard.
ClipTypeOK ==
  /\ board.count \in 0..(MaxCount + 1) /\ board.holds \in {"secret", "theirs", "nothing"}
  /\ writing \in 0..MaxCount /\ pending \in 0..MaxCount
  /\ timers \subseteq 1..MaxCount
  /\ written \in BOOLEAN /\ timed \in BOOLEAN

\* What another application put on the pasteboard is replaced by the user's next copy, and
\* cleared by no timer, no lock and no failed write.
OthersCopyStays ==
  [][board.holds = "theirs" /\ board'.holds # "theirs" => PrepareForNewContents]_clipVars

OurCopyIsThere == board.holds = "secret" /\ ~written

\* A copy of ours on the pasteboard is known by its count, so that the next lock clears it.
OurCopyIsKnown == OurCopyIsThere => pending = board.count

\* Its own timer is still to come, unless the setting says never.
OurCopyIsTimed == OurCopyIsThere /\ timed => board.count \in timers

\* A timer ends the life of the copy it was started for, not of one made since.
CopyLivesItsTime ==
  [][\A t \in timers : TimerFires(t) /\ board.holds = "secret" /\ board' # board
       => t = board.count]_clipVars

\* A secret is cleared in its time, and nothing else is ever cleared.
OnlyOurCopiesAreCleared ==
  [](OurCopyIsKnown /\ OurCopyIsTimed) /\ OthersCopyStays /\ CopyLivesItsTime
=============================================================================
