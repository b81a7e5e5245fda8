---------------------------- MODULE DesktopProofs ----------------------------
(***************************************************************************)
(* Proofs about what the application does beside its vaults, for any       *)
(* instances, threads, files, vaults and bounds.  Each part has its        *)
(* inductive invariant and its own section; the theorems at the end put    *)
(* the parts together again.                                               *)
(***************************************************************************)
EXTENDS MCDesktop, SequenceTheorems, TLAPS

-----------------------------------------------------------------------------
(* The screen-lock observer.                                               *)

\* A latch that is set is a lock still to be looked at, and what the consumer is to lock for
\* was found or is noted again.
LatchInv ==
  /\ latch => due = "noted"
  /\ consumer = "Lock" => due # "none"

LockInv == LockTypeOK /\ LatchInv /\ LookedAtIsHandled /\ NotedIsLookedFor

LEMMA LockInitial == LockInit => LockInv
  <1> SUFFICES ASSUME LockInit PROVE LockInv
    OBVIOUS
  <1>1. /\ fresh \in BOOLEAN /\ latch \in BOOLEAN /\ genuine \in [Threads -> BOOLEAN]
        /\ sending \in [Threads -> {"none", "event", "wake-up"}]
    BY DEF LockInit
  <1>2. LockTypeOK
    BY <1>1, SessionLockConstants DEF LockInit, LockTypeOK
  <1> QED
    BY <1>2 DEF LockInit, LockInv, LatchInv, LookedAtIsHandled, NotedIsLookedFor

\* The notification threads.
LEMMA Notifications ==
  ASSUME LockInv, NEW t \in Threads, Notified(t) \/ DispatchLatches(t) \/ DispatchWakes(t)
  PROVE  LockInv'
  <1> USE SessionLockConstants DEF LockInv, LatchInv, LookedAtIsHandled, NotedIsLookedFor, LockTypeOK
  <1>1. CASE Notified(t)
    <2>1. \A u \in Threads : sending[u] = "wake-up" => sending'[u] = "wake-up"
      BY <1>1 DEF Notified
    <2> QED
      BY <1>1, <2>1 DEF Notified
  <1>2. CASE DispatchLatches(t)
    <2>1. sending'[t] = "wake-up" /\ sending' \in [Threads -> {"none", "event", "wake-up"}]
      BY <1>2 DEF DispatchLatches
    <2>2. \A u \in Threads : sending[u] = "wake-up" => sending'[u] = "wake-up"
      BY <1>2 DEF DispatchLatches
    <2>3. latch' \in BOOLEAN /\ (latch' <=> latch \/ genuine[t]) /\ genuine[t] \in BOOLEAN
      BY <1>2 DEF DispatchLatches, Noted
    <2>4. due' \in {"none", "noted", "looked"} /\ due' = IF genuine[t] THEN "noted" ELSE due
      BY <1>2 DEF DispatchLatches
    <2>5. UNCHANGED <<screen, fresh, queue, genuine, consumer>>
      BY <1>2 DEF DispatchLatches
    <2> HIDE DEF LockTypeOK
    <2>6. LockTypeOK'
      BY <2>1, <2>3, <2>4, <2>5 DEF LockTypeOK
    <2> QED
      BY <2>1, <2>2, <2>3, <2>4, <2>5, <2>6
  <1>3. CASE DispatchWakes(t)
    <2>1. queue' \in 1..QueueCap
      BY <1>3 DEF DispatchWakes
    <2> QED
      BY <1>3, <2>1 DEF DispatchWakes
  <1> QED
    BY <1>1, <1>2, <1>3

\* The consumer, the user and the clock.
LEMMA Consumption ==
  ASSUME LockInv,
         \/ Receive \/ DrainOne \/ Drained \/ ConsultLatch \/ HandleEvent
         \/ Unlock \/ Unlocked \/ GraceEnds \/ LockByUserOrTimer
  PROVE  LockInv'
  <1> USE SessionLockConstants DEF LockInv, LatchInv, LookedAtIsHandled, NotedIsLookedFor, LockTypeOK
  <1>1. CASE Receive \/ DrainOne \/ Drained
    BY <1>1 DEF Receive, DrainOne, Drained
  <1>2. CASE ConsultLatch
    BY <1>2 DEF ConsultLatch, LatchTaken
  <1>3. CASE HandleEvent
    BY <1>3 DEF HandleEvent
  <1>4. CASE Unlock \/ Unlocked \/ GraceEnds \/ LockByUserOrTimer
    <2>1. fresh' \in BOOLEAN /\ screen' \in {"locked", "opening", "open"}
      BY <1>4 DEF Unlock, Unlocked, GraceEnds, LockByUserOrTimer
    <2>2. UNCHANGED <<latch, queue, sending, genuine, consumer, due>>
      BY <1>4 DEF Unlock, Unlocked, GraceEnds, LockByUserOrTimer
    <2> QED
      BY <2>1, <2>2
  <1> QED
    BY <1>1, <1>2, <1>3, <1>4

LEMMA LockStep == LockInv /\ [LockNext]_lockVars => LockInv'
  <1> SUFFICES ASSUME LockInv, [LockNext]_lockVars PROVE LockInv'
    OBVIOUS
  <1>1. CASE UNCHANGED lockVars
    BY <1>1 DEF lockVars, LockInv, LatchInv, LookedAtIsHandled, NotedIsLookedFor, LockTypeOK
  <1> QED
    BY <1>1, Notifications, Consumption DEF LockNext

\* Every lock of the screen reaches the vault and only locks of the screen lock a fresh one.
LEMMA LocksOfTheScreen == LockSpec => LocksArrive /\ []LockTypeOK
  <1>1. LockInit => LockInv
    BY LockInitial
  <1>2. LockInv /\ [LockNext]_lockVars => LockInv'
    BY LockStep
  <1>3. LockInv => LookedAtIsHandled /\ NotedIsLookedFor /\ LockTypeOK
    BY DEF LockInv
  <1>4. LockInv => (HandleEvent /\ screen = "open" /\ fresh /\ screen' = "locked" => due # "none")
    BY DEF LockInv, LatchInv, HandleEvent, Graced
  <1> QED
    BY <1>1, <1>2, <1>3, <1>4, PTL DEF LockSpec, LocksArrive, FreshVaultIsSpared

-----------------------------------------------------------------------------
(* The clipboard.                                                          *)

\* A secret on the pasteboard is the copy being written, or the pending one; what another
\* application copied came after either.
CopyInv ==
  /\ board \in [count : Nat, holds : {"secret", "theirs", "nothing"}]
  /\ writing <= board.count /\ pending <= board.count
  /\ written => writing # 0
  /\ writing # 0 /\ ~written => board.holds # "secret"
  /\ board.holds = "secret" => board.count # 0
  /\ board.holds = "secret" /\ written => board.count = writing
  /\ board.holds = "theirs" => \/ board.count # writing \/ writing = 0
  /\ board.holds = "theirs" => \/ board.count # pending \/ pending = 0

ClipInv == ClipTypeOK /\ CopyInv /\ OurCopyIsKnown /\ OurCopyIsTimed

LEMMA ClipInitial == ClipInit => ClipInv
  <1> SUFFICES ASSUME ClipInit PROVE ClipInv
    OBVIOUS
  <1>1. board \in [count : Nat, holds : {"secret", "theirs", "nothing"}]
    BY DEF ClipInit
  <1>2. written \in BOOLEAN /\ timed \in BOOLEAN /\ written = FALSE
    BY DEF ClipInit
  <1>3. ClipTypeOK
    BY <1>2, ClipboardConstants DEF ClipInit, ClipTypeOK
  <1> QED
    BY <1>1, <1>2, <1>3 DEF ClipInit, ClipInv, CopyInv, OurCopyIsKnown, OurCopyIsTimed, OurCopyIsThere

\* What is cleared is empty and has a new count.
LEMMA Clearing ==
  ASSUME ClipInv, NEW n \in 0..MaxCount, board' = ClearIfUnchanged(n)
  PROVE  /\ board' \in [count : Nat, holds : {"secret", "theirs", "nothing"}]
         /\ board'.count \in 0..(MaxCount + 1) /\ board'.count >= board.count
         /\ board.count = n => board'.holds = "nothing" /\ board'.count = n + 1
         /\ board.count # n => board' = board
  BY ClipboardConstants DEF ClipInv, ClipTypeOK, CopyInv, ClearIfUnchanged

\* A lock, or the timer of the pending copy, leaves no secret of ours behind.
LEMMA Owned ==
  ASSUME ClipInv, ~written, ClearOwned
  PROVE  /\ board' \in [count : Nat, holds : {"theirs", "nothing"}]
         /\ board'.count \in 0..(MaxCount + 1) /\ board'.count >= board.count
         /\ board.holds = "theirs" => board' = board
         /\ pending' = 0 /\ timed' = FALSE
         /\ board' # board => pending # 0 /\ pending = board.count
  <1>1. CASE pending = 0
    <2>1. board' = board /\ board.holds # "secret"
      BY <1>1 DEF ClearOwned, ClipInv, CopyInv, OurCopyIsKnown, OurCopyIsThere
    <2> QED
      BY <1>1, <2>1 DEF ClearOwned, ClipInv, CopyInv, ClipTypeOK
  <1>2. CASE pending # 0
    <2>1. board' = ClearIfUnchanged(pending) /\ pending \in 0..MaxCount
      BY <1>2 DEF ClearOwned, ClipInv, ClipTypeOK
    <2>2. board.holds = "secret" => pending = board.count
      BY DEF ClipInv, OurCopyIsKnown, OurCopyIsThere
    <2>3. board.holds = "theirs" => pending # board.count
      BY <1>2 DEF ClipInv, CopyInv
    <2>4. board.holds \in {"secret", "theirs", "nothing"}
      BY DEF ClipInv, ClipTypeOK
    <2> QED
      BY <1>2, <2>1, <2>2, <2>3, <2>4, Clearing DEF ClearOwned
  <1> QED
    BY <1>1, <1>2

\* The copies.
LEMMA Copying ==
  ASSUME ClipInv, OtherAppCopies \/ PrepareForNewContents \/ WriteObjects \/ WriteFails \/ CopyDone
  PROVE  ClipInv' /\ (board.holds = "theirs" /\ board'.holds # "theirs" => PrepareForNewContents)
  <1> USE ClipboardConstants
  <1> DEFINE New == [board EXCEPT !.holds = "secret"]
  <1>1. CASE OtherAppCopies
    BY <1>1 DEF OtherAppCopies, ClipInv, CopyInv, ClipTypeOK, OurCopyIsKnown, OurCopyIsTimed,
                OurCopyIsThere
  <1>2. CASE PrepareForNewContents
    BY <1>2 DEF PrepareForNewContents, ClipInv, CopyInv, ClipTypeOK, OurCopyIsKnown,
                OurCopyIsTimed, OurCopyIsThere
  <1>3. CASE WriteObjects
    <2>1. board' \in [count : Nat, holds : {"secret"}] /\ board'.count = board.count
      BY <1>3 DEF WriteObjects, ClipInv, CopyInv
    <2>2. board.holds # "theirs"
      BY <1>3 DEF WriteObjects, ClipInv, CopyInv
    <2>3. written' = TRUE /\ UNCHANGED <<writing, pending, timers, timed>>
          /\ writing # 0 /\ board.count = writing
      BY <1>3 DEF WriteObjects
    <2> QED
      BY <2>1, <2>2, <2>3 DEF ClipInv, CopyInv, ClipTypeOK, OurCopyIsKnown, OurCopyIsTimed,
                              OurCopyIsThere
  <1>4. CASE WriteFails
    <2>1. board' = ClearIfUnchanged(writing) /\ writing \in 0..MaxCount /\ board.holds # "secret"
      BY <1>4 DEF WriteFails, ClipInv, ClipTypeOK, CopyInv
    <2>2. board.holds = "theirs" => board' = board
      BY <1>4, <2>1, Clearing DEF WriteFails, ClipInv, CopyInv
    <2>3. /\ board' \in [count : Nat, holds : {"theirs", "nothing"}]
          /\ board'.count \in 0..(MaxCount + 1)
      BY <2>1, Clearing DEF ClipInv, CopyInv
    <2>4. writing' = 0 /\ pending' = 0 /\ timed' = FALSE /\ written' = written /\ written = FALSE
      BY <1>4, Zenon DEF WriteFails, ClipInv, ClipTypeOK
    <2>5. timers' \subseteq 1..MaxCount
      BY <1>4 DEF WriteFails, ClipInv, ClipTypeOK
    <2>6. writing' = 0 /\ pending' = 0 /\ written' \in BOOLEAN /\ timed' \in BOOLEAN /\ ~written'
      BY <2>4, Zenon
    <2>7. ClipTypeOK' /\ CopyInv'
      BY <2>3, <2>5, <2>6 DEF CopyInv, ClipTypeOK
    <2> QED
      BY <2>2, <2>3, <2>7 DEF ClipInv, OurCopyIsKnown, OurCopyIsTimed, OurCopyIsThere
  <1>5. CASE CopyDone
    <2>1. /\ writing \in 1..MaxCount /\ pending' = writing /\ timed' \in BOOLEAN
          /\ timers' \subseteq timers \union {writing} /\ (timed' => writing \in timers')
          /\ writing' = 0 /\ written' = FALSE /\ board' = board /\ written
      BY <1>5 DEF CopyDone, CountOfTheCopy, ClipInv, CopyInv, ClipTypeOK
    <2>2. writing' = 0 /\ written' \in BOOLEAN /\ ~written'
      BY <2>1, Zenon
    <2>3. ClipTypeOK' /\ CopyInv'
      BY <2>1, <2>2 DEF ClipInv, CopyInv, ClipTypeOK
    <2>4. board.holds = "secret" => writing = board.count
      BY <2>1 DEF ClipInv, CopyInv
    <2> QED
      BY <2>1, <2>2, <2>3, <2>4 DEF ClipInv, OurCopyIsKnown, OurCopyIsTimed, OurCopyIsThere
  <1> QED
    BY <1>1, <1>2, <1>3, <1>4, <1>5

\* The ends of their lives.
LEMMA Expiry ==
  ASSUME ClipInv, (\E t \in timers : TimerFires(t)) \/ WipeSessionSecrets
  PROVE  ClipInv' /\ (board.holds = "theirs" => board'.holds = "theirs")
  <1> USE ClipboardConstants
  <1>1. ~written /\ written = FALSE
    BY DEF TimerFires, WipeSessionSecrets, ClipInv, ClipTypeOK, CopyInv
  <1>2. writing' = 0 /\ written' = FALSE /\ writing = 0 /\ timers' \subseteq timers
    BY <1>1 DEF TimerFires, WipeSessionSecrets
  <1>3. CASE ClearOwned
    <2> HIDE DEF ClearOwned
    <2>1. /\ board' \in [count : Nat, holds : {"theirs", "nothing"}]
          /\ board'.count \in 0..(MaxCount + 1)
          /\ board.holds = "theirs" => board' = board
          /\ pending' = 0 /\ timed' = FALSE
      BY <1>1, <1>3, Owned
    <2>2. written' \in BOOLEAN /\ ~written' /\ timed' \in BOOLEAN
      BY <1>2, <2>1, Zenon
    <2>3. ClipTypeOK' /\ CopyInv'
      BY <1>2, <2>1, <2>2 DEF ClipInv, CopyInv, ClipTypeOK
    <2> QED
      BY <2>1, <2>2, <2>3 DEF ClipInv, OurCopyIsKnown, OurCopyIsTimed, OurCopyIsThere
  <1>4. CASE ~ClearOwned
    <2>1. PICK t \in timers : TimerFires(t)
      BY <1>4 DEF WipeSessionSecrets
    <2>2. t # pending /\ UNCHANGED <<board, pending, timed>> /\ timers' = timers \ {t}
      BY <1>4, <2>1 DEF TimerFires, ClearsItsCopy
    <2> QED
      BY <1>2, <2>2 DEF ClipInv, CopyInv, ClipTypeOK, OurCopyIsKnown, OurCopyIsTimed, OurCopyIsThere
  <1> QED
    BY <1>3, <1>4

LEMMA ClipStep ==
  ClipInv /\ [ClipNext]_clipVars =>
    /\ ClipInv'
    /\ board.holds = "theirs" /\ board'.holds # "theirs" => PrepareForNewContents
  <1> SUFFICES ASSUME ClipInv, [ClipNext]_clipVars
               PROVE  /\ ClipInv'
                      /\ board.holds = "theirs" /\ board'.holds # "theirs" => PrepareForNewContents
    OBVIOUS
  <1>1. CASE UNCHANGED clipVars
    BY <1>1 DEF clipVars, ClipInv, CopyInv, ClipTypeOK, OurCopyIsKnown, OurCopyIsTimed,
                OurCopyIsThere
  <1> QED
    BY <1>1, Copying, Expiry DEF ClipNext

\* A secret is cleared in its time, by its own timer, and nothing else is ever cleared.
LEMMA CopiesAreCleared == ClipSpec => OnlyOurCopiesAreCleared /\ []ClipTypeOK
  <1>1. ClipInit => ClipInv
    BY ClipInitial
  <1>2. ClipInv /\ [ClipNext]_clipVars => ClipInv'
    BY ClipStep
  <1>3. ClipInv => OurCopyIsKnown /\ OurCopyIsTimed /\ ClipTypeOK
    BY DEF ClipInv
  <1>4. ClipInv /\ [ClipNext]_clipVars =>
          (board.holds = "theirs" /\ board'.holds # "theirs" => PrepareForNewContents)
    BY ClipStep
  <1>5. \A t \in timers : TimerFires(t) /\ board.holds = "secret" /\ board' # board => t = board.count
    BY DEF TimerFires, ClearsItsCopy, ClearOwned, ClearIfUnchanged
  <1> QED
    BY <1>1, <1>2, <1>3, <1>4, <1>5, PTL
       DEF ClipSpec, OnlyOurCopiesAreCleared, OthersCopyStays, CopyLivesItsTime

-----------------------------------------------------------------------------
(* The entry editor.                                                       *)

\* The form is compared with what it began with, a discard that is armed was asked about, and
\* what is typed belongs to the vault in front.
SheetInv ==
  /\ editor \in [text : Drafts, base : Drafts \union {NoBaseline}, armed : BOOLEAN]
  /\ sheet \in [began : Drafts, of : Databases \union {NoDatabase}, asked : BOOLEAN]
  /\ editor.base \in {NoBaseline, sheet.began}
  /\ editor.armed => sheet.asked
  /\ ~IsEditor(overlay) => editor.text = Blank /\ sheet.began = Blank
  /\ sheet.of = inFront

FormInv == FormTypeOK /\ SheetInv

\* No draft is lost that was not asked about.
Answerable == editor.text # sheet.began => sheet.asked \/ editor.base = NoBaseline

LEMMA Forms == /\ Blank \in Drafts /\ StoredEntry \in Drafts /\ NoBaseline \notin Drafts
               /\ "" # "stored"
  BY DEF Blank, StoredEntry, NoBaseline, Drafts

LEMMA FormInitial == FormInit => FormInv
  <1> SUFFICES ASSUME FormInit PROVE FormInv
    OBVIOUS
  <1>1. editor \in [text : Drafts, base : Drafts \union {NoBaseline}, armed : BOOLEAN]
    BY Forms DEF FormInit
  <1>2. sheet \in [began : Drafts, of : Databases \union {NoDatabase}, asked : BOOLEAN]
    BY Forms DEF FormInit
  <1>3. /\ editor.text = Blank /\ editor.base = NoBaseline /\ editor.armed = FALSE
        /\ sheet.began = Blank /\ sheet.of = inFront /\ ~IsEditor(overlay)
    BY DEF FormInit, IsEditor
  <1>4. SheetInv
    BY <1>1, <1>2, <1>3 DEF SheetInv
  <1>5. FormTypeOK
    BY <1>1, <1>3 DEF FormInit, FormTypeOK, NoDialog
  <1> QED
    BY <1>4, <1>5 DEF FormInv

\* A form that begins anew.
LEMMA Beginning ==
  ASSUME NEW text \in Drafts, NEW base \in {NoBaseline, text}, NEW why, Begins(text, base, why),
         inFront' \in Databases \union {NoDatabase}, ~IsEditor(overlay)' => text = Blank
  PROVE  SheetInv' /\ news' = why
  <1>1. editor' \in [text : Drafts, base : Drafts \union {NoBaseline}, armed : BOOLEAN]
    BY DEF Begins
  <1>2. sheet' \in [began : Drafts, of : Databases \union {NoDatabase}, asked : BOOLEAN]
    BY DEF Begins
  <1>3. /\ editor'.base = base /\ ~editor'.armed /\ editor'.text = text
        /\ sheet'.began = text /\ sheet'.of = inFront' /\ news' = why
    BY DEF Begins
  <1> QED
    BY <1>1, <1>2, <1>3 DEF SheetInv

LEMMA Staying ==
  ASSUME SheetInv, FormStays, inFront' = inFront, IsEditor(overlay) => IsEditor(overlay)'
  PROVE  SheetInv' /\ news' = "kept"
  BY DEF SheetInv, FormStays

\* The observer.
LEMMA Observing ==
  ASSUME SheetInv, NEW why, Observed(why), inFront' \in Databases \union {NoDatabase}
  PROVE  SheetInv' /\ news' \in {"kept", why}
  <1>1. CASE FormIsCleared
    BY <1>1, Beginning, Forms DEF Observed
  <1>2. CASE ~FormIsCleared
    BY <1>2, Staying DEF Observed, FormIsCleared, IsEditor
  <1> QED
    BY <1>1, <1>2

\* What does not ask, or has been answered.
LEMMA Asked == SheetInv /\ ~BlocksClose => Answerable
  BY DEF SheetInv, BlocksClose, Dirty, Answerable

LEMMA OutsideEditor == SheetInv /\ ~IsEditor(overlay) => Answerable
  BY DEF SheetInv, Answerable

LEMMA Showing ==
  ASSUME FormTypeOK, NEW place \in {"none", "new", "edit", "connect", "other"}, Shows(place)
  PROVE  /\ overlay' = place
         /\ dialog'.at \in {"none", "open", "publish", "publishing"}
  BY DEF Shows, FormTypeOK, NoDialog

\* The type invariant is about the form as it is and the screens around it.
LEMMA FormTyping ==
  ASSUME SheetInv', inFront' \in Databases \union {NoDatabase}, aside' \subseteq Databases \ {inFront'},
         overlay' \in {"none", "new", "edit", "connect", "other"},
         IsEditor(overlay)' => inFront' # NoDatabase,
         dialog'.at \in {"none", "open", "publish", "publishing"}
  PROVE  FormInv'
  <1>1. /\ editor'.text \in Drafts /\ editor'.base \in Drafts \union {NoBaseline}
        /\ editor'.armed \in BOOLEAN
    BY DEF SheetInv
  <1> QED
    BY <1>1 DEF FormInv, FormTypeOK

\* What the user does in the editor and with the overlays.
LEMMA Editing ==
  ASSUME FormInv, \/ AskFirst \/ NewEntry \/ EditEntry \/ Type \/ ToggleProtected
                  \/ SubmitEntryForm \/ CloseEntryForm
  PROVE  FormInv' /\ (news' = "closed" => Answerable)
  <1> USE Forms, EntryFormConstants
  <1>0. FormTypeOK /\ SheetInv
    BY DEF FormInv
  <1>1. CASE AskFirst
    <2> DEFINE armed == [editor EXCEPT !.armed = TRUE]
               asked == [sheet EXCEPT !.asked = TRUE]
    <2>1. /\ armed \in [text : Drafts, base : Drafts \union {NoBaseline}, armed : BOOLEAN]
          /\ asked \in [began : Drafts, of : Databases \union {NoDatabase}, asked : BOOLEAN]
          /\ armed.text = editor.text /\ armed.base = editor.base
          /\ asked.began = sheet.began /\ asked.of = sheet.of /\ asked.asked
      BY <1>0 DEF SheetInv
    <2>2. editor' = armed /\ sheet' = asked /\ news' = "kept"
          /\ UNCHANGED <<inFront, aside, overlay, dialog>>
      BY <1>1 DEF AskFirst
    <2> HIDE DEF armed, asked
    <2>3. SheetInv'
      BY <1>0, <2>1, <2>2 DEF SheetInv
    <2> QED
      BY <1>0, <2>2, <2>3, FormTyping DEF FormTypeOK
  <1>2. CASE NewEntry
    <2>1. /\ Begins(Blank, Blank, "closed") /\ Shows("new") /\ ~BlocksClose
          /\ inFront # NoDatabase /\ UNCHANGED <<inFront, aside>>
      BY <1>2 DEF NewEntry
    <2>2. overlay' = "new" /\ dialog'.at \in {"none", "open", "publish", "publishing"}
      BY <1>0, <2>1, Showing
    <2>3. inFront' \in Databases \union {NoDatabase} /\ IsEditor(overlay)'
      BY <1>0, <2>1, <2>2 DEF FormTypeOK, IsEditor
    <2>4. SheetInv'
      BY <2>1, <2>3, Beginning
    <2> QED
      BY <1>0, <2>1, <2>2, <2>3, <2>4, Asked, FormTyping DEF FormTypeOK
  <1>3. CASE EditEntry
    <2>1. /\ Begins(StoredEntry, StoredEntry, "closed") /\ Shows("edit") /\ ~BlocksClose
          /\ inFront # NoDatabase /\ UNCHANGED <<inFront, aside>>
      BY <1>3 DEF EditEntry, PristineAfter
    <2>2. overlay' = "edit" /\ dialog'.at \in {"none", "open", "publish", "publishing"}
      BY <1>0, <2>1, Showing
    <2>3. inFront' \in Databases \union {NoDatabase} /\ IsEditor(overlay)'
      BY <1>0, <2>1, <2>2 DEF FormTypeOK, IsEditor
    <2>4. SheetInv'
      BY <2>1, <2>3, Beginning
    <2> QED
      BY <1>0, <2>1, <2>2, <2>3, <2>4, Asked, FormTyping DEF FormTypeOK
  <1>4. CASE Type
    <2>1. PICK text \in Drafts : editor' = [editor EXCEPT !.text = text, !.armed = FALSE]
      BY <1>4 DEF Type, TypingDisarms
    <2>2. /\ IsEditor(overlay) /\ sheet' = [sheet EXCEPT !.asked = FALSE] /\ news' = "kept"
          /\ UNCHANGED <<inFront, aside, overlay, dialog>>
      BY <1>4 DEF Type
    <2>3. /\ editor' \in [text : Drafts, base : Drafts \union {NoBaseline}, armed : BOOLEAN]
          /\ editor'.base = editor.base /\ ~editor'.armed
      BY <1>0, <2>1 DEF SheetInv
    <2>4. /\ sheet' \in [began : Drafts, of : Databases \union {NoDatabase}, asked : BOOLEAN]
          /\ sheet'.began = sheet.began /\ sheet'.of = sheet.of
      BY <1>0, <2>2 DEF SheetInv
    <2>5. SheetInv'
      BY <1>0, <2>2, <2>3, <2>4 DEF SheetInv
    <2> QED
      BY <1>0, <2>2, <2>5, FormTyping DEF FormTypeOK
  <1>5. CASE ToggleProtected
    <2> DEFINE flip == ~editor.text.shield
               text == [editor.text EXCEPT !.shield = flip]
    <2>1. editor' = [editor EXCEPT !.text = text]
      BY <1>5 DEF ToggleProtected
    <2>2. /\ IsEditor(overlay) /\ news' = "kept"
          /\ UNCHANGED <<inFront, aside, overlay, dialog, sheet>>
      BY <1>5 DEF ToggleProtected
    <2>3. flip \in BOOLEAN /\ editor.text \in Drafts
      BY <1>0 DEF FormTypeOK
    <2> HIDE DEF flip
    <2>4. text \in Drafts
      BY <2>3 DEF Drafts
    <2> HIDE DEF text
    <2>5. /\ editor' \in [text : Drafts, base : Drafts \union {NoBaseline}, armed : BOOLEAN]
          /\ editor'.base = editor.base /\ editor'.armed = editor.armed
      BY <1>0, <2>1, <2>4 DEF SheetInv
    <2>6. SheetInv'
      BY <1>0, <2>2, <2>5 DEF SheetInv
    <2> QED
      BY <1>0, <2>2, <2>6, FormTyping DEF FormTypeOK
  <1>6. CASE SubmitEntryForm
    <2>1. /\ Begins(Blank, NoBaseline, "saved") /\ Shows("none") /\ UNCHANGED <<inFront, aside>>
      BY <1>6 DEF SubmitEntryForm
    <2>2. overlay' = "none" /\ dialog'.at \in {"none", "open", "publish", "publishing"}
      BY <1>0, <2>1, Showing
    <2>3. inFront' \in Databases \union {NoDatabase} /\ ~IsEditor(overlay)'
      BY <1>0, <2>1, <2>2 DEF FormTypeOK, IsEditor
    <2>4. SheetInv' /\ news' = "saved"
      BY <2>1, <2>3, Beginning
    <2> QED
      BY <1>0, <2>1, <2>2, <2>3, <2>4, FormTyping DEF FormTypeOK
  <1>7. CASE CloseEntryForm
    <2>1. /\ Begins(Blank, NoBaseline, "closed") /\ Shows("none") /\ ~BlocksClose
          /\ UNCHANGED <<inFront, aside>>
      BY <1>7 DEF CloseEntryForm
    <2>2. overlay' = "none" /\ dialog'.at \in {"none", "open", "publish", "publishing"}
      BY <1>0, <2>1, Showing
    <2>3. inFront' \in Databases \union {NoDatabase} /\ ~IsEditor(overlay)'
      BY <1>0, <2>1, <2>2 DEF FormTypeOK, IsEditor
    <2>4. SheetInv'
      BY <2>1, <2>3, Beginning
    <2> QED
      BY <1>0, <2>1, <2>2, <2>3, <2>4, Asked, FormTyping DEF FormTypeOK
  <1> QED
    BY <1>1, <1>2, <1>3, <1>4, <1>5, <1>6, <1>7

\* The other overlays, the locks and the vaults in front.
LEMMA Moving ==
  ASSUME FormInv, \/ OpenOther \/ CloseOther \/ ClickLockVault \/ LockVaultAutomatically
                  \/ \E v \in Databases : PickInSwitcher(v) \/ Unlocks(v) \/ DialogOpens(v)
  PROVE  FormInv' /\ (news' = "closed" => Answerable)
  <1> USE Forms, EntryFormConstants
  <1>0. FormTypeOK /\ SheetInv
    BY DEF FormInv
  <1>1. CASE OpenOther
    <2>1. PICK place \in {"connect", "other"} : Shows(place)
      BY <1>1 DEF OpenOther
    <2>2. overlay' = place /\ dialog'.at \in {"none", "open", "publish", "publishing"}
      BY <1>0, <2>1, Showing
    <2>3. Observed("closed") /\ ~BlocksClose /\ UNCHANGED <<inFront, aside>>
      BY <1>1 DEF OpenOther
    <2>4. ~IsEditor(overlay)'
      BY <2>2 DEF IsEditor
    <2>5. SheetInv'
      BY <1>0, <2>3, Observing DEF FormTypeOK
    <2> QED
      BY <1>0, <2>2, <2>3, <2>4, <2>5, Asked, FormTyping DEF FormTypeOK
  <1>2. CASE CloseOther
    <2>1. FormStays /\ Shows("none") /\ UNCHANGED <<inFront, aside>> /\ ~IsEditor(overlay)
      BY <1>2 DEF CloseOther, IsEditor
    <2>2. overlay' = "none" /\ dialog'.at \in {"none", "open", "publish", "publishing"}
      BY <1>0, <2>1, Showing
    <2>3. SheetInv' /\ news' = "kept" /\ ~IsEditor(overlay)'
      BY <1>0, <2>1, <2>2, Staying DEF IsEditor
    <2> QED
      BY <1>0, <2>1, <2>2, <2>3, FormTyping DEF FormTypeOK
  <1>3. ASSUME NEW why, Locks(why) PROVE FormInv' /\ news' = why
    <2>1. /\ inFront' = NoDatabase /\ aside' = {} /\ overlay' = "none" /\ ~IsEditor(overlay)'
          /\ dialog'.at \in {"none", "open", "publish", "publishing"}
          /\ Begins(Blank, NoBaseline, why)
      BY <1>0, <1>3 DEF Locks, NoDialog, FormTypeOK, IsEditor
    <2>2. SheetInv' /\ news' = why
      BY <2>1, Beginning
    <2> QED
      BY <2>1, <2>2, FormTyping
  <1>4. CASE ClickLockVault
    BY <1>0, <1>3, <1>4, Asked DEF ClickLockVault
  <1>5. CASE LockVaultAutomatically
    <2>1. CASE Dirty
      BY <1>3, <1>5, <2>1 DEF LockVaultAutomatically
    <2>2. CASE ~Dirty
      BY <1>0, <1>3, <1>5, <2>2, Asked DEF LockVaultAutomatically, BlocksClose
    <2> QED
      BY <2>1, <2>2
  <1>6. ASSUME NEW v \in Databases, PickInSwitcher(v) PROVE FormInv' /\ Answerable
    <2>1. /\ Shows("none") /\ Observed("closed") /\ ~IsEditor(overlay)
          /\ inFront' = IF v \in aside THEN v ELSE NoDatabase
          /\ aside' = (aside \union ({inFront} \ {NoDatabase})) \ {v}
      BY <1>6 DEF PickInSwitcher, IsEditor
    <2>2. overlay' = "none" /\ dialog'.at \in {"none", "open", "publish", "publishing"}
      BY <1>0, <2>1, Showing
    <2>3. inFront' \in Databases \union {NoDatabase} /\ aside' \subseteq Databases \ {inFront'}
      BY <1>0, <2>1 DEF FormTypeOK
    <2>4. SheetInv' /\ ~IsEditor(overlay)'
      BY <1>0, <2>1, <2>2, <2>3, Observing DEF IsEditor
    <2> QED
      BY <1>0, <2>1, <2>2, <2>3, <2>4, OutsideEditor, FormTyping
  <1>7. ASSUME NEW v \in Databases, Unlocks(v) PROVE FormInv' /\ Answerable
    <2>1. /\ Observed("closed") /\ inFront' = v /\ aside' = aside \ {v}
          /\ UNCHANGED <<overlay, dialog>> /\ ~IsEditor(overlay)
      BY <1>0, <1>7 DEF Unlocks, FormTypeOK
    <2>2. SheetInv' /\ ~IsEditor(overlay)'
      BY <1>0, <2>1, Observing DEF IsEditor
    <2> QED
      BY <1>0, <2>1, <2>2, OutsideEditor, FormTyping DEF FormTypeOK
  <1>8. ASSUME NEW v \in Databases, DialogOpens(v) PROVE FormInv' /\ news' # "closed"
    <2>1. /\ Observed("chosen") /\ dialog' = NoDialog /\ v # inFront
          /\ aside' = (aside \union ({inFront} \ {NoDatabase})) \ {v}
          /\ \/ v \in aside /\ inFront' = v /\ overlay' = overlay
             \/ v \notin aside /\ inFront' = NoDatabase /\ overlay' = "none"
      BY <1>8 DEF DialogOpens, Selects
    <2>2. inFront' \in Databases \union {NoDatabase} /\ aside' \subseteq Databases \ {inFront'}
      BY <1>0, <2>1 DEF FormTypeOK
    <2>3. SheetInv' /\ news' # "closed"
      BY <1>0, <2>1, <2>2, Observing
    <2>4. /\ overlay' \in {"none", "new", "edit", "connect", "other"}
          /\ IsEditor(overlay)' => inFront' # NoDatabase
      BY <1>0, <2>1 DEF FormTypeOK, IsEditor
    <2> QED
      BY <2>1, <2>2, <2>3, <2>4, FormTyping DEF NoDialog
  <1> QED
    BY <1>1, <1>2, <1>4, <1>5, <1>6, <1>7, <1>8

\* The dialogs and the merge.
LEMMA Incoming ==
  ASSUME FormInv, OpenDialog \/ DialogIsCancelled \/ DialogPublishes \/ PublishEnds \/ MergeAsks
  PROVE  FormInv' /\ (news' = "closed" => Answerable)
  <1> USE Forms, EntryFormConstants
  <1>0. FormTypeOK /\ SheetInv
    BY DEF FormInv
  <1>1. CASE OpenDialog \/ DialogIsCancelled \/ DialogPublishes
    <2>1. FormStays /\ UNCHANGED <<inFront, aside, overlay>>
      BY <1>1 DEF OpenDialog, DialogIsCancelled, DialogPublishes
    <2>2. SheetInv' /\ news' = "kept"
      BY <1>0, <2>1, Staying DEF IsEditor
    <2>3. dialog'.at \in {"none", "open", "publish", "publishing"}
      BY <1>1 DEF OpenDialog, DialogIsCancelled, DialogPublishes, NoDialog
    <2> QED
      BY <1>0, <2>1, <2>2, <2>3, FormTyping DEF FormTypeOK, IsEditor
  <1>2. CASE PublishEnds
    <2>1. /\ Observed("chosen") /\ UNCHANGED <<inFront, aside>> /\ dialog' = NoDialog
          /\ overlay' \in {overlay, "none"}
      BY <1>2 DEF PublishEnds
    <2>2. SheetInv' /\ news' # "closed"
      BY <1>0, <2>1, Observing DEF FormTypeOK
    <2> QED
      BY <1>0, <2>1, <2>2, FormTyping DEF FormTypeOK, IsEditor, NoDialog
  <1>3. CASE MergeAsks
    <2>1. /\ Observed("closed") /\ UNCHANGED <<inFront, aside, dialog>> /\ overlay' = "other"
          /\ ~IsEditor(overlay) /\ ~IsEditor(overlay)'
      BY <1>3 DEF MergeAsks, NotEditing, IsEditor
    <2>2. SheetInv'
      BY <1>0, <2>1, Observing DEF FormTypeOK
    <2> QED
      BY <1>0, <2>1, <2>2, OutsideEditor, FormTyping DEF FormTypeOK
  <1> QED
    BY <1>1, <1>2, <1>3

LEMMA FormStep == FormInv /\ [FormNext]_formVars => FormInv'
  <1>1. FormInv /\ UNCHANGED formVars => FormInv'
    BY DEF formVars, FormInv, FormTypeOK, SheetInv, IsEditor
  <1> QED
    BY <1>1, Editing, Moving, Incoming DEF FormNext

\* A draft is not lost without a question or a word, nor carried into another vault.
LEMMA DraftsStay == FormSpec => DraftsAreKept /\ []FormTypeOK
  <1>1. FormInit => FormInv
    BY FormInitial
  <1>2. FormInv /\ [FormNext]_formVars => FormInv'
    BY FormStep
  <1>3. FormInv => QuestionsAreAboutEdits /\ ClosedEditorIsBlank /\ FormTypeOK
    BY DEF FormInv, SheetInv, QuestionsAreAboutEdits, ClosedEditorIsBlank, Dirty
  <1>4. FormInv /\ [FormNext]_formVars =>
          \/ editor.text # sheet.began /\ news' = "closed" => sheet.asked \/ editor.base = NoBaseline
          \/ UNCHANGED formVars
    BY Editing, Moving, Incoming DEF FormNext, Answerable
  <1>5. FormInv => (news' = "saved" => sheet.of = inFront)
    BY DEF FormInv, SheetInv
  <1> QED
    BY <1>1, <1>2, <1>3, <1>4, <1>5, PTL
       DEF FormSpec, DraftsAreKept, DraftsAreAskedAbout, SavedWhereTyped

-----------------------------------------------------------------------------
(* The cost notice.                                                        *)

\* The shapes of the state, and the screen the observer has last started a check for.
ObserverInv ==
  /\ stands \in [at : {"away", "awaiting", "opening"}, path : Headers \union {NoHeader}, visit : Nat]
  /\ stands.at # "away" => stands.path \in Headers
  /\ stands.visit <= generation
  /\ startedFor = IF stands.at = "awaiting" THEN stands.path ELSE NoHeader
  /\ finger \in Headers \union {NoHeader}
  /\ costOf \in [Headers -> Costs \union {NoCost}]

\* A check in flight is of this generation or an earlier one, and one of this generation is
\* about the screen there is and reads nothing that is allowed.
ChecksInv ==
  /\ checks \subseteq [generation : 1..generation, path : Headers, visit : Nat,
                       cost : Costs \union {NoCost, Unread}]
  /\ stands.at = "awaiting" =>
       \A c \in checks : c.generation = generation =>
         c.path = stands.path /\ c.visit = stands.visit /\ c.cost \notin allowed

CostInv == CostTypeOK /\ ObserverInv /\ ChecksInv /\ NoticesAreTrue

LEMMA Undecided ==
  ASSUME CostInv, NEW path \in Headers
  PROVE  Asks(path) \in (Costs \union {NoCost}) \ allowed
  BY CostNoticeConstants DEF CostInv, CostTypeOK, ObserverInv, Asks

LEMMA CostInitial == CostInit => CostInv
  <1> SUFFICES ASSUME CostInit PROVE CostInv
    OBVIOUS
  <1>1. /\ stands \in [at : {"away", "awaiting", "opening"}, path : Headers \union {NoHeader}, visit : Nat]
        /\ costOf \in [Headers -> Costs \union {NoCost}]
    BY DEF CostInit
  <1> QED
    BY <1>1, CostNoticeConstants
       DEF CostInit, CostInv, CostTypeOK, ObserverInv, ChecksInv, NoticesAreTrue, AskedOnlyOnce,
           NoticeIsOfThisVisit, AnswerIsComing, NoticeShown, NoNotice

\* A visit to the unlock screen: the answer before is forgotten and a check of its own begins.
LEMMA NewCheck ==
  ASSUME CostInv, NEW now, NEW noted, NEW g \in generation..MaxChecks, Observes(now, noted, g),
         now \in [at : {"away", "awaiting", "opening"}, path : Headers \union {NoHeader}, visit : Nat],
         now.at = "awaiting", now.path \in Headers, startedFor # now.path, now.visit <= g + 1,
         allowed' \subseteq Costs, costOf' = costOf, finger' \in Headers \union {NoHeader}
  PROVE  CostInv'
  <1> USE CostNoticeConstants
  <1> DEFINE new == [generation |-> g + 1, path |-> now.path, visit |-> now.visit, cost |-> Unread]
  <1>1. /\ stands' = now /\ startedFor' = now.path /\ g < MaxChecks
        /\ generation' = g + 1 /\ notice' = NoNotice /\ checks' = checks \union {new}
    BY DEF Observes, Forgotten
  <1>2. generation \in Nat /\ g \in Nat /\ generation' \in 1..MaxChecks /\ generation < generation'
    BY <1>1 DEF CostInv, CostTypeOK
  <1>3. new \in [generation : 1..generation', path : Headers, visit : Nat,
                 cost : Costs \union {NoCost, Unread}]
    BY <1>1, <1>2
  <1>4. \A c \in checks : /\ c \in [generation : 1..generation', path : Headers, visit : Nat,
                                    cost : Costs \union {NoCost, Unread}]
                          /\ c.generation < generation'
    BY <1>2 DEF CostInv, ChecksInv
  <1>5. new.path = now.path /\ new.visit = now.visit /\ new.cost \notin allowed'
        /\ new.generation = generation' /\ new \in checks'
    BY <1>1 DEF Unread
  <1> HIDE DEF new
  <1>6. ChecksInv'
    BY <1>1, <1>3, <1>4, <1>5 DEF ChecksInv
  <1>7. ObserverInv'
    BY <1>1, <1>2 DEF ObserverInv, CostInv
  <1>8. CostTypeOK'
    BY <1>1, <1>2, <1>3, <1>4 DEF CostTypeOK, NoNotice
  <1>9. NoticesAreTrue'
    BY <1>1, <1>5 DEF NoticesAreTrue, AskedOnlyOnce, NoticeIsOfThisVisit, AnswerIsComing, NoticeShown,
                      NoNotice
  <1> QED
    BY <1>6, <1>7, <1>8, <1>9 DEF CostInv

\* Anywhere else nothing is shown, and what is in flight may say what it likes.
LEMMA Elsewhere ==
  ASSUME CostInv, NEW now, NEW noted, NEW g \in generation..MaxChecks, Observes(now, noted, g),
         now \in [at : {"away", "opening"}, path : Headers \union {NoHeader}, visit : {stands.visit}],
         now.at # "away" => now.path \in Headers,
         noted.path \in Headers \union {NoHeader}, noted.cost \in Costs \union {NoCost},
         allowed' \subseteq Costs, costOf' = costOf, finger' \in Headers \union {NoHeader}
  PROVE  CostInv'
  <1> USE CostNoticeConstants
  <1>1. /\ stands' = now /\ startedFor' = NoHeader /\ generation' = g /\ notice' = noted
        /\ checks' = checks /\ now.at # "awaiting"
    BY DEF Observes
  <1>2. generation \in Nat /\ g \in Nat /\ g <= MaxChecks /\ generation <= g
    BY DEF CostInv, CostTypeOK
  <1>3. ChecksInv'
    <2>1. 1..generation \subseteq 1..g
      BY <1>2
    <2>2. checks \subseteq [generation : 1..g, path : Headers, visit : Nat,
                            cost : Costs \union {NoCost, Unread}]
      BY <2>1 DEF CostInv, ChecksInv
    <2> QED
      BY <1>1, <2>2 DEF ChecksInv
  <1>4. ObserverInv'
    BY <1>1, <1>2 DEF ObserverInv, CostInv
  <1>5. CostTypeOK'
    BY <1>1, <1>2, <1>3, <1>4 DEF CostTypeOK, CostInv, ObserverInv, ChecksInv
  <1>6. NoticesAreTrue'
    BY <1>1, <1>5 DEF NoticesAreTrue, AskedOnlyOnce, NoticeIsOfThisVisit, AnswerIsComing, NoticeShown,
                      CostTypeOK
  <1> QED
    BY <1>3, <1>4, <1>5, <1>6 DEF CostInv

\* The same visit goes on; its answer is replaced by one that is more current.
LEMMA SameVisit ==
  ASSUME CostInv, NEW cost \in (Costs \union {NoCost}) \ allowed', stands.at = "awaiting",
         generation < MaxChecks, Observes(stands, Answer(cost), Superseded),
         allowed' \subseteq Costs, costOf' = costOf, finger' \in Headers \union {NoHeader}
  PROVE  CostInv'
  <1> USE CostNoticeConstants
  <1>1. /\ stands' = stands /\ startedFor' = startedFor /\ generation' = generation + 1
        /\ notice' = [path |-> stands.path, cost |-> cost, visit |-> stands.visit]
        /\ checks' = checks
    BY DEF Observes, Answer, Superseded, CostInv, ObserverInv
  <1>2. generation \in Nat /\ stands.path \in Headers
    BY DEF CostInv, CostTypeOK, ObserverInv
  <1>3. \A c \in checks : /\ c \in [generation : 1..generation', path : Headers, visit : Nat,
                                    cost : Costs \union {NoCost, Unread}]
                          /\ c.generation < generation'
    BY <1>1, <1>2 DEF CostInv, ChecksInv
  <1>4. ChecksInv'
    BY <1>1, <1>3 DEF ChecksInv
  <1>5. ObserverInv'
    BY <1>1, <1>2 DEF ObserverInv, CostInv
  <1>6. CostTypeOK'
    BY <1>1, <1>2, <1>3 DEF CostTypeOK, CostInv
  <1>7. NoticesAreTrue'
    BY <1>1 DEF NoticesAreTrue, AskedOnlyOnce, NoticeIsOfThisVisit, AnswerIsComing, NoticeShown
  <1> QED
    BY <1>4, <1>5, <1>6, <1>7 DEF CostInv

\* Nothing of the notice changes.
LEMMA NoNews ==
  ASSUME CostInv, UNCHANGED <<stands, startedFor, notice, generation, checks, allowed>>,
         costOf' \in [Headers -> Costs \union {NoCost}], finger' \in Headers \union {NoHeader}
  PROVE  CostInv'
  BY DEF CostInv, CostTypeOK, ObserverInv, ChecksInv, NoticesAreTrue, AskedOnlyOnce,
         NoticeIsOfThisVisit, AnswerIsComing, NoticeShown

\* The observer sees the screen it has seen.
LEMMA Unmoved ==
  ASSUME CostInv, stands.at = "awaiting", Observes(stands, notice, generation)
  PROVE  UNCHANGED <<stands, startedFor, notice, generation, checks>>
  BY DEF Observes, CostInv, ObserverInv

\* The user and the prompts.
LEMMA Visiting ==
  ASSUME CostInv, \/ \E v \in Headers : AsksForPassword(v) \/ HeaderChanges(v)
                  \/ Leaves \/ StartsOpen \/ TouchIdClicked \/ TouchIdPrompts \/ TouchIdFails
                  \/ \E c \in Costs : AllowsRemote(c)
  PROVE  CostInv'
  <1> USE CostNoticeConstants
  <1>0. /\ CostTypeOK /\ ObserverInv /\ generation \in generation..MaxChecks /\ generation \in Nat
        /\ notice.path \in Headers \union {NoHeader} /\ notice.cost \in Costs \union {NoCost}
    BY DEF CostInv, CostTypeOK
  <1> DEFINE Places == [at : {"away", "awaiting", "opening"}, path : Headers \union {NoHeader}, visit : Nat]
             Quiet == [at : {"away", "opening"}, path : Headers \union {NoHeader}, visit : {stands.visit}]
  <1>1. ASSUME NEW v \in Headers, AsksForPassword(v) PROVE CostInv'
    <2> DEFINE now == Visits(v)
    <2>1. /\ now \in Places /\ now.at = "awaiting" /\ now.path = v /\ now.visit = stands.visit + 1
          /\ Observes(now, notice, generation) /\ allowed' = allowed /\ costOf' = costOf
          /\ finger' = NoHeader
      BY <1>0, <1>1 DEF AsksForPassword, Visits, ObserverInv
    <2>2. startedFor # v
      BY <1>0, <1>1 DEF AsksForPassword, ObserverInv
    <2>3. now.visit <= generation + 1 /\ allowed' \subseteq Costs /\ now.path \in Headers
      BY <1>0, <2>1 DEF ObserverInv, CostTypeOK
    <2> HIDE DEF now
    <2> QED
      BY <1>0, <2>1, <2>2, <2>3, NewCheck
  <1>2. ASSUME NEW v \in Headers, HeaderChanges(v) PROVE CostInv'
    <2>1. UNCHANGED <<stands, startedFor, notice, generation, checks, finger, allowed>>
      BY <1>2 DEF HeaderChanges
    <2>2. costOf' \in [Headers -> Costs \union {NoCost}]
      BY <1>0, <1>2 DEF HeaderChanges, ObserverInv
    <2> QED
      BY <1>0, <2>1, <2>2, NoNews DEF ObserverInv
  <1>3. CASE Leaves
    <2> DEFINE now == At("away", NoHeader)
    <2>1. /\ now \in Quiet /\ now.at = "away" /\ Observes(now, notice, generation)
          /\ allowed' = allowed /\ costOf' = costOf /\ finger' \in Headers \union {NoHeader}
      BY <1>0, <1>3 DEF Leaves, At, ObserverInv
    <2> HIDE DEF now
    <2> QED
      BY <1>0, <2>1, Elsewhere DEF CostTypeOK
  <1>4. CASE StartsOpen
    <2> DEFINE now == At("opening", stands.path)
    <2>1. /\ now \in Quiet /\ now.path \in Headers /\ Confirms(now)
          /\ costOf' = costOf /\ finger' \in Headers \union {NoHeader}
      BY <1>0, <1>4 DEF StartsOpen, At, ObserverInv
    <2> HIDE DEF now
    <2>2. CASE NoticeShown # NoCost
      <3>1. /\ allowed' = allowed \union {NoticeShown} /\ generation < MaxChecks
            /\ Observes(now, Answer(NoCost), Superseded)
        BY <2>1, <2>2 DEF Confirms
      <3>3. allowed' \subseteq Costs
        BY <1>0, <2>2, <3>1 DEF NoticeShown, CostTypeOK
      <3>4. Superseded \in generation..MaxChecks
        BY <1>0, <3>1 DEF Superseded
      <3>2. /\ Answer(NoCost).path \in Headers \union {NoHeader}
            /\ Answer(NoCost).cost \in Costs \union {NoCost}
        BY <1>0 DEF Answer, ObserverInv
      <3> QED
        BY <2>1, <3>1, <3>3, <3>4, <3>2, Elsewhere
    <2>3. CASE NoticeShown = NoCost
      BY <1>0, <2>1, <2>3, Elsewhere DEF Confirms, CostTypeOK
    <2> QED
      BY <2>2, <2>3
  <1>5. CASE TouchIdClicked
    <2>1. /\ stands.at = "awaiting" /\ Confirms(stands) /\ costOf' = costOf
          /\ finger' \in Headers \union {NoHeader}
      BY <1>0, <1>5 DEF TouchIdClicked, ObserverInv
    <2>2. CASE NoticeShown # NoCost
      <3>1. /\ allowed' \subseteq Costs /\ NoCost \in (Costs \union {NoCost}) \ allowed'
            /\ generation < MaxChecks /\ Observes(stands, Answer(NoCost), Superseded)
        BY <1>0, <2>1, <2>2 DEF Confirms, NoticeShown, CostTypeOK
      <3> QED
        BY <2>1, <3>1, SameVisit
    <2>3. CASE NoticeShown = NoCost
      BY <1>0, <2>1, <2>3, Unmoved, NoNews DEF Confirms, ObserverInv
    <2> QED
      BY <2>2, <2>3
  <1>6. CASE TouchIdPrompts \/ TouchIdFails
    BY <1>0, <1>6, NoNews DEF TouchIdPrompts, TouchIdFails, ObserverInv
  <1>7. ASSUME NEW c \in Costs, AllowsRemote(c) PROVE CostInv'
    <2>1. /\ UNCHANGED <<stands, startedFor, notice, generation, checks, finger, costOf>>
          /\ stands.at # "awaiting" /\ allowed' \subseteq Costs
      BY <1>0, <1>7 DEF AllowsRemote, CostTypeOK
    <2> QED
      BY <2>1 DEF CostInv, CostTypeOK, ObserverInv, ChecksInv, NoticesAreTrue, AskedOnlyOnce,
                  NoticeIsOfThisVisit, AnswerIsComing, NoticeShown
  <1> QED
    BY <1>1, <1>2, <1>3, <1>4, <1>5, <1>6, <1>7

\* The checks.
LEMMA Checking ==
  ASSUME CostInv, NEW c \in checks, CheckReads(c) \/ CheckLands(c)
  PROVE  CostInv'
  <1> USE CostNoticeConstants
  <1>0. /\ c \in [generation : 1..generation, path : Headers, visit : Nat,
                  cost : Costs \union {NoCost, Unread}]
        /\ stands.at = "awaiting" /\ c.generation = generation =>
             c.path = stands.path /\ c.visit = stands.visit /\ c.cost \notin allowed
    BY DEF CostInv, ChecksInv
  <1>1. CASE CheckReads(c)
    <2> DEFINE read == [c EXCEPT !.cost = Asks(c.path)]
    <2>1. /\ read \in [generation : 1..generation, path : Headers, visit : Nat,
                       cost : Costs \union {NoCost, Unread}]
          /\ read.generation = c.generation /\ read.path = c.path /\ read.visit = c.visit
          /\ read.cost \notin allowed
      BY <1>0, Undecided
    <2>2. /\ checks' = (checks \ {c}) \union {read}
          /\ UNCHANGED <<stands, startedFor, notice, generation, finger, allowed, costOf>>
      BY <1>1 DEF CheckReads
    <2> HIDE DEF read
    <2>3. ChecksInv'
      BY <1>0, <2>1, <2>2 DEF CostInv, ChecksInv
    <2>4. ObserverInv'
      BY <2>2 DEF CostInv, ObserverInv
    <2>5. CostTypeOK'
      BY <2>1, <2>2 DEF CostInv, CostTypeOK
    <2>6. NoticesAreTrue'
      <3>1. AskedOnlyOnce' /\ NoticeIsOfThisVisit'
        BY <2>2 DEF CostInv, NoticesAreTrue, AskedOnlyOnce, NoticeIsOfThisVisit, NoticeShown
      <3>2. AnswerIsComing'
        BY <2>1, <2>2 DEF CostInv, NoticesAreTrue, AnswerIsComing
      <3> QED
        BY <3>1, <3>2 DEF NoticesAreTrue
    <2> QED
      BY <2>3, <2>4, <2>5, <2>6 DEF CostInv
  <1>2. CASE CheckLands(c)
    <2>1. /\ checks' = checks \ {c} /\ c.cost \in Costs \union {NoCost}
          /\ UNCHANGED <<stands, startedFor, generation, finger, allowed, costOf>>
      BY <1>0, <1>2 DEF CheckLands
    <2>2. ChecksInv' /\ ObserverInv'
      BY <2>1 DEF CostInv, ChecksInv, ObserverInv
    <2>3. CASE c.generation = generation
      <3>1. notice' = [path |-> c.path, cost |-> c.cost, visit |-> c.visit]
        BY <1>2, <2>3 DEF CheckLands, CurrentCheck
      <3>2. CostTypeOK'
        BY <1>0, <2>1, <3>1 DEF CostInv, CostTypeOK
      <3>3. NoticesAreTrue'
        BY <1>0, <2>1, <2>3, <3>1
           DEF CostInv, CostTypeOK, NoticesAreTrue, AskedOnlyOnce, NoticeIsOfThisVisit, AnswerIsComing,
               NoticeShown
      <3> QED
        BY <2>2, <3>2, <3>3 DEF CostInv
    <2>4. CASE c.generation # generation
      <3>1. notice' = notice
        BY <1>2, <2>4 DEF CheckLands, CurrentCheck
      <3>2. CostTypeOK'
        BY <2>1, <3>1 DEF CostInv, CostTypeOK
      <3>3. AskedOnlyOnce' /\ NoticeIsOfThisVisit'
        BY <2>1, <3>1 DEF CostInv, NoticesAreTrue, AskedOnlyOnce, NoticeIsOfThisVisit, NoticeShown
      <3>4. AnswerIsComing'
        BY <2>1, <2>4, <3>1 DEF CostInv, NoticesAreTrue, AnswerIsComing
      <3> QED
        BY <2>2, <3>2, <3>3, <3>4 DEF CostInv, NoticesAreTrue
    <2> QED
      BY <2>3, <2>4
  <1> QED
    BY <1>1, <1>2

\* The opens that end, by password or by finger.
LEMMA Ending ==
  ASSUME CostInv, OpenEnds \/ TouchIdOpens
  PROVE  CostInv'
  <1> USE CostNoticeConstants
  <1>0. /\ CostTypeOK /\ ObserverInv /\ generation \in generation..MaxChecks /\ generation \in Nat
        /\ notice.path \in Headers \union {NoHeader} /\ notice.cost \in Costs \union {NoCost}
    BY DEF CostInv, CostTypeOK
  <1>1. /\ finger' \in Headers \union {NoHeader} /\ allowed' = allowed /\ costOf' = costOf
        /\ allowed' \subseteq Costs
    BY <1>0 DEF OpenEnds, TouchIdOpens, CostTypeOK
  <1> DEFINE Places == [at : {"away", "awaiting", "opening"}, path : Headers \union {NoHeader}, visit : Nat]
             Quiet == [at : {"away", "opening"}, path : Headers \union {NoHeader}, visit : {stands.visit}]
             gone == At("away", NoHeader)
  <1>2. gone \in Quiet /\ gone.at = "away"
    BY <1>0 DEF At, ObserverInv
  <1>3. ASSUME NEW path \in Headers
        PROVE  /\ At("awaiting", path) \in Places /\ At("awaiting", path).at = "awaiting"
               /\ At("awaiting", path).path = path /\ At("awaiting", path).visit = stands.visit
               /\ Visits(path) \in Places /\ Visits(path).at = "awaiting"
               /\ Visits(path).path = path /\ Visits(path).visit = stands.visit + 1
    <2>1. stands \in Places
      BY <1>0 DEF ObserverInv
    <2>2. /\ At("awaiting", path) \in Places /\ At("awaiting", path).at = "awaiting"
          /\ At("awaiting", path).path = path /\ At("awaiting", path).visit = stands.visit
      BY <2>1 DEF At
    <2>3. /\ Visits(path) \in Places /\ Visits(path).at = "awaiting"
          /\ Visits(path).path = path /\ Visits(path).visit = stands.visit + 1
      BY <2>1 DEF Visits
    <2> QED
      BY <2>2, <2>3
  <1> HIDE DEF gone
  <1>4. ASSUME Observes(gone, notice, generation) PROVE CostInv'
    BY <1>0, <1>1, <1>2, <1>4, Elsewhere
  \* A place on the unlock screen that the observer has not seen.
  <1>5. ASSUME NEW place \in Places, NEW noted, NEW g \in generation..MaxChecks,
               place.at = "awaiting", place.path \in Headers, startedFor # place.path,
               place.visit <= g + 1, Observes(place, noted, g)
        PROVE  CostInv'
    BY <1>1, <1>5, NewCheck
  <1>6. CASE OpenEnds
    <2> DEFINE path == stands.path
               back == At("awaiting", path)
    <2>1. path \in Headers /\ startedFor # path /\ stands.visit <= generation /\ stands.visit \in Nat
      BY <1>0, <1>6 DEF OpenEnds, ObserverInv
    <2>2. back \in Places /\ back.at = "awaiting" /\ back.path = path /\ back.visit = stands.visit
      BY <1>3, <2>1
    <2>3. \/ Observes(gone, notice, generation)
          \/ Observes(back, notice, generation)
          \/ generation < MaxChecks /\ Observes(back, Answer(Asks(path)), generation + 1)
      BY <1>6 DEF OpenEnds, Superseded, gone
    <2> HIDE DEF back, path
    <2> QED
      BY <1>0, <1>4, <1>5, <2>1, <2>2, <2>3
  <1>7. CASE TouchIdOpens
    <2> DEFINE unlocking == stands.at # "away" /\ stands.path = finger
               back == IF unlocking THEN At("awaiting", finger) ELSE Visits(finger)
    <2>1. finger \in Headers /\ stands.visit <= generation /\ stands.visit \in Nat
      BY <1>0, <1>7 DEF TouchIdOpens, ObserverInv
    <2>2. /\ back \in Places /\ back.at = "awaiting" /\ back.path = finger
          /\ back.visit <= stands.visit + 1
      BY <1>3, <2>1
    <2>3. \/ Observes(gone, notice, generation)
          \/ Observes(back, notice, generation)
          \/ /\ generation < MaxChecks /\ Asks(finger) # NoCost /\ unlocking
             /\ Observes(back, Answer(Asks(finger)), Superseded)
      BY <1>7 DEF TouchIdOpens, gone
    <2>4. CASE startedFor # finger
      <3> HIDE DEF back, unlocking
      <3>1. Superseded \in generation..MaxChecks \/ ~(generation < MaxChecks)
        BY <1>0 DEF Superseded
      <3>2. back.visit <= generation + 1 /\ (generation < MaxChecks => back.visit <= Superseded + 1)
        BY <1>0, <2>1, <2>2 DEF Superseded, ObserverInv
      <3> QED
        BY <1>0, <1>4, <1>5, <2>1, <2>2, <2>3, <2>4, <3>1, <3>2
    <2>5. CASE startedFor = finger
      <3>1. stands.at = "awaiting" /\ stands.path = finger /\ back = stands
        BY <1>0, <2>1, <2>5 DEF ObserverInv, At
      <3>2. Asks(finger) \in (Costs \union {NoCost}) \ allowed'
        BY <1>1, <2>1, Undecided
      <3> HIDE DEF back, unlocking
      <3>3. CASE Observes(stands, notice, generation)
        BY <1>0, <1>1, <3>1, <3>3, Unmoved, NoNews DEF ObserverInv
      <3>4. CASE generation < MaxChecks /\ Observes(stands, Answer(Asks(finger)), Superseded)
        BY <1>1, <3>1, <3>2, <3>4, SameVisit
      <3> QED
        BY <1>4, <2>3, <3>1, <3>3, <3>4
    <2> QED
      BY <2>4, <2>5
  <1> QED
    BY <1>6, <1>7

LEMMA CostStep == CostInv /\ [CostNext]_costVars => CostInv'
  <1>1. CostInv /\ UNCHANGED costVars => CostInv'
    BY NoNews DEF costVars, CostInv, ObserverInv
  <1> QED
    BY <1>1, Visiting, Checking, Ending DEF CostNext

\* The notice says what the user has yet to decide about the screen they are at.
LEMMA NoticesStayTrue == CostSpec => []NoticesAreTrue /\ []CostTypeOK
  <1>1. CostInit => CostInv
    BY CostInitial
  <1>2. CostInv /\ [CostNext]_costVars => CostInv'
    BY CostStep
  <1>3. CostInv => NoticesAreTrue /\ CostTypeOK
    BY DEF CostInv
  <1> QED
    BY <1>1, <1>2, <1>3, PTL DEF CostSpec

-----------------------------------------------------------------------------
(* Enrolling Touch ID.                                                     *)

\* What the handler under way has pointed at, and what a restart would find.
PointerInv ==
  /\ handler \in [at : {"none", "enrolling", "saving", "forgetting"},
                  path : Holders \union {"no path"}, id : Nat]
  /\ handler.at = "enrolling" => handler.path \in Holders /\ registry[handler.path] = NoId
  /\ handler.at = "saving" => /\ handler.path \in Holders /\ handler.id \in 1..ids
                              /\ registry[handler.path] = handler.id
  /\ ids \in Nat
  /\ \A id \in items \ orphaned :
       (\E v \in Holders : onDisk[v] = id) \/ (handler.at = "saving" /\ id = handler.id)

EnrolInv == EnrolTypeOK /\ PointerInv /\ PasswordsHaveAPointer

\* A live password has its pointer.
LEMMA Pointed ==
  ASSUME EnrolTypeOK
  PROVE  PasswordsHaveAPointer <=> \A id \in items \ orphaned : \E v \in Holders : registry[v] = id
  BY DEF EnrolTypeOK, PasswordsHaveAPointer, Range

LEMMA PointedNext ==
  ASSUME EnrolTypeOK', \A id \in items' \ orphaned' : \E v \in Holders : registry'[v] = id
  PROVE  PasswordsHaveAPointer'
  BY DEF EnrolTypeOK, PasswordsHaveAPointer, Range

LEMMA EnrolInitial == EnrolInit => EnrolInv
  <1> SUFFICES ASSUME EnrolInit PROVE EnrolInv
    OBVIOUS
  <1>1. handler = [at |-> "none", path |-> "no path", id |-> 0] /\ items = {}
    BY DEF EnrolInit, NoHandler, NoId
  <1>2. /\ handler \in [at : {"none", "enrolling", "saving", "forgetting"},
                        path : Holders \union {"no path"}, id : Nat]
        /\ handler.at = "none"
    BY <1>1
  <1>3. registry = [v \in Holders |-> 0] /\ onDisk = [v \in Holders |-> 0]
    BY DEF EnrolInit, NobodyEnrolled, NoId
  <1>4. EnrolTypeOK
    <2>1. ids = 0 /\ mishaps = 0 /\ items = {} /\ orphaned = {}
      BY DEF EnrolInit
    <2>2. 0 \in 0..ids /\ mishaps \in 0..MaxFaults
      BY <2>1, EnrolmentConstants
    <2>3. registry \in [Holders -> 0..ids] /\ onDisk \in [Holders -> 0..ids]
      BY <1>3, <2>2
    <2> QED
      BY <1>2, <2>1, <2>2, <2>3 DEF EnrolTypeOK
  <1>5. PointerInv /\ PasswordsHaveAPointer
    BY <1>1, <1>2 DEF EnrolInit, PointerInv, PasswordsHaveAPointer
  <1> QED
    BY <1>4, <1>5 DEF EnrolInv

\* A pointer that is moved, and the others.
LEMMA Pointing ==
  ASSUME EnrolTypeOK, NEW path \in Holders, NEW id, Points(path, id)
  PROVE  /\ registry'[path] = id
         /\ \A v \in Holders : v # path => registry'[v] = registry[v]
         /\ registry' \in [Holders -> (0..ids) \union {id}]
  BY DEF EnrolTypeOK, Points

\* The next thing the handler does.
LEMMA Writing ==
  ASSUME NEW step \in {"none", "enrolling", "saving", "forgetting"}, NEW path \in Holders,
         NEW id \in Nat, WritesNext(step, path, id)
  PROVE  /\ handler' \in [at : {"none", "enrolling", "saving", "forgetting"},
                          path : Holders \union {"no path"}, id : Nat]
         /\ handler'.at = step /\ handler'.path = path /\ handler'.id = id
  BY DEF WritesNext

LEMMA Idle ==
  ASSUME handler' = NoHandler
  PROVE  /\ handler' \in [at : {"none", "enrolling", "saving", "forgetting"},
                          path : Holders \union {"no path"}, id : Nat]
         /\ handler'.at = "none"
  BY DEF NoHandler, NoId

\* A mishap is one of those that are allowed.
LEMMA Faults == EnrolTypeOK /\ (Mishap \/ UNCHANGED mishaps) => mishaps' \in 0..MaxFaults
  BY EnrolmentConstants DEF EnrolTypeOK, Mishap

\* A prior enrolment is deleted, for certain or not at all.
LEMMA Deleting ==
  ASSUME EnrolInv, handler = NoHandler, NEW path \in Holders, registry[path] # NoId,
         UNCHANGED <<onDisk, ids, orphaned>>,
         \/ /\ DeletionConfirmed(registry[path]) /\ Points(path, NoId)
            /\ WritesNext("enrolling", path, NoId) \/ WritesNext("forgetting", path, NoId)
         \/ DeletionUnconfirmed(registry[path]) /\ UNCHANGED <<registry, handler>>
  PROVE  EnrolInv'
  <1>0. EnrolTypeOK /\ PointerInv /\ handler.at = "none" /\ mishaps' \in 0..MaxFaults
        /\ items' \subseteq items
    BY Faults DEF EnrolInv, NoHandler, DeletionConfirmed, DeletionUnconfirmed
  <1>1. \A id \in items \ orphaned : \E v \in Holders : registry[v] = id
    BY <1>0, Pointed DEF EnrolInv
  <1>2. \A id \in items \ orphaned : \E v \in Holders : onDisk[v] = id
    BY <1>0 DEF PointerInv
  <1>3. CASE DeletionConfirmed(registry[path]) /\ Points(path, NoId)
             /\ (WritesNext("enrolling", path, NoId) \/ WritesNext("forgetting", path, NoId))
    <2>1. /\ registry'[path] = NoId
          /\ \A v \in Holders : v # path => registry'[v] = registry[v]
          /\ registry' \in [Holders -> 0..ids]
      <3>1. registry' \in [Holders -> (0..ids) \union {NoId}]
        BY <1>0, <1>3, Pointing
      <3>2. ids \in Nat /\ NoId = 0
        BY <1>0 DEF NoId, PointerInv
      <3>3. registry' \in [Holders -> 0..ids]
        BY <3>1, <3>2
      <3> QED
        BY <1>0, <1>3, <3>3, Pointing
    <2>2. items' = items \ {registry[path]}
      BY <1>3 DEF DeletionConfirmed
    <2>3. NoId \in Nat
      BY DEF NoId
    <2>4. /\ handler' \in [at : {"none", "enrolling", "saving", "forgetting"},
                           path : Holders \union {"no path"}, id : Nat]
          /\ handler'.at \in {"enrolling", "forgetting"} /\ handler'.path = path
      BY <1>3, <2>3, Writing
    <2>5. EnrolTypeOK'
      BY <1>0, <2>1, <2>4 DEF EnrolTypeOK
    <2>6. PointerInv'
      BY <1>0, <1>2, <2>1, <2>2, <2>4 DEF PointerInv
    <2>7. \A id \in items' \ orphaned' : \E v \in Holders : registry'[v] = id
      BY <1>1, <2>1, <2>2
    <2>8. PasswordsHaveAPointer'
      BY <2>5, <2>7, PointedNext
    <2> QED
      BY <2>5, <2>6, <2>8 DEF EnrolInv
  <1>4. CASE DeletionUnconfirmed(registry[path]) /\ UNCHANGED <<registry, handler>>
    BY <1>0, <1>1, <1>2, <1>4 DEF EnrolInv, EnrolTypeOK, PointerInv, PasswordsHaveAPointer
  <1> QED
    BY <1>3, <1>4

LEMMA Enrolling ==
  ASSUME EnrolInv, \/ \E v \in Holders : BeginEnrolment(v) \/ ForgetBiometric(v)
                   \/ StorePassword \/ EnrolmentSaved \/ EnrolmentRollsBack
  PROVE  EnrolInv'
  <1>0. EnrolTypeOK /\ PointerInv /\ ids \in Nat
    BY DEF EnrolInv, PointerInv
  <1>1. \A id \in items \ orphaned : \E v \in Holders : registry[v] = id
    BY <1>0, Pointed DEF EnrolInv
  <1>2. ASSUME NEW v \in Holders, BeginEnrolment(v) PROVE EnrolInv'
    <2>1. CASE registry[v] # NoId
      BY <1>2, <2>1, Deleting DEF BeginEnrolment, DropsPrior
    <2>2. CASE registry[v] = NoId
      <3>1. /\ handler = NoHandler /\ WritesNext("enrolling", v, NoId) /\ NoId \in Nat
            /\ UNCHANGED <<items, registry, mishaps, onDisk, ids, orphaned>>
        BY <1>2, <2>2 DEF BeginEnrolment, DropsPrior, NoId
      <3>2. /\ handler' \in [at : {"none", "enrolling", "saving", "forgetting"},
                             path : Holders \union {"no path"}, id : Nat]
            /\ handler'.at = "enrolling" /\ handler'.path = v
        BY <3>1, Writing
      <3>3. EnrolTypeOK' /\ PasswordsHaveAPointer'
        BY <1>0, <3>1, <3>2 DEF EnrolInv, EnrolTypeOK, PasswordsHaveAPointer
      <3>4. PointerInv'
        BY <1>0, <2>2, <3>1, <3>2 DEF PointerInv, NoHandler
      <3> QED
        BY <3>3, <3>4 DEF EnrolInv
    <2> QED
      BY <2>1, <2>2
  <1>3. ASSUME NEW v \in Holders, ForgetBiometric(v) PROVE EnrolInv'
    BY <1>3, Deleting DEF ForgetBiometric, DropsConfirmed
  <1>4. CASE StorePassword
    <2>1. handler.at = "enrolling" /\ handler.path \in Holders /\ registry[handler.path] = NoId
          /\ UNCHANGED <<onDisk, orphaned>> /\ mishaps' \in 0..MaxFaults
      BY <1>0, <1>4, Faults DEF StorePassword, PointerInv
    <2>2. CASE /\ ids' = ids + 1 /\ items' = items \union {ids'} /\ Points(handler.path, ids')
               /\ WritesNext("saving", handler.path, ids')
      <3>1. ids' \in Nat /\ ids' # NoId /\ 0..ids \subseteq 0..ids' /\ 1..ids \subseteq 1..ids'
            /\ ids' \in 1..ids'
        BY <1>0, <2>2 DEF NoId
      <3>2. /\ registry'[handler.path] = ids'
            /\ \A v \in Holders : v # handler.path => registry'[v] = registry[v]
            /\ registry' \in [Holders -> 0..ids']
        <4>1. (0..ids) \union {ids'} \subseteq 0..ids'
          BY <1>0, <2>2
        <4>2. registry' \in [Holders -> (0..ids) \union {ids'}]
          BY <1>0, <2>1, <2>2, Pointing
        <4>3. registry' \in [Holders -> 0..ids']
          BY <4>1, <4>2
        <4> QED
          BY <1>0, <2>1, <2>2, <4>3, Pointing
      <3>3. /\ handler' \in [at : {"none", "enrolling", "saving", "forgetting"},
                             path : Holders \union {"no path"}, id : Nat]
            /\ handler'.at = "saving" /\ handler'.path = handler.path /\ handler'.id = ids'
        BY <2>1, <2>2, <3>1, Writing
      <3>4. EnrolTypeOK'
        BY <1>0, <2>1, <2>2, <3>1, <3>2, <3>3 DEF EnrolTypeOK
      <3>5. PointerInv'
        BY <1>0, <2>1, <2>2, <3>1, <3>2, <3>3 DEF PointerInv
      <3>6. 0 \notin items
        BY <1>0 DEF EnrolTypeOK
      <3>7. \A id \in items' \ orphaned' : \E v \in Holders : registry'[v] = id
        BY <1>1, <2>1, <2>2, <3>2, <3>6 DEF NoId
      <3>8. PasswordsHaveAPointer'
        BY <3>4, <3>7, PointedNext
      <3> QED
        BY <3>4, <3>5, <3>8 DEF EnrolInv
    <2>3. CASE handler' = NoHandler /\ UNCHANGED <<items, ids, registry>>
      <3>1. PointerInv'
        BY <1>0, <2>1, <2>3, Idle DEF PointerInv
      <3>2. EnrolTypeOK' /\ PasswordsHaveAPointer'
        BY <1>0, <2>1, <2>3, Idle DEF EnrolInv, EnrolTypeOK, PasswordsHaveAPointer
      <3> QED
        BY <3>1, <3>2 DEF EnrolInv
    <2> QED
      BY <1>4, <2>2, <2>3 DEF StorePassword
  <1>5. CASE EnrolmentSaved
    <2>1. onDisk' = registry /\ handler' = NoHandler
          /\ UNCHANGED <<items, registry, ids, mishaps, orphaned>>
      BY <1>5 DEF EnrolmentSaved
    <2>2. EnrolTypeOK' /\ PasswordsHaveAPointer'
      BY <1>0, <2>1, Idle DEF EnrolInv, EnrolTypeOK, PasswordsHaveAPointer
    <2>3. PointerInv'
      BY <1>0, <1>1, <2>1, Idle DEF PointerInv
    <2> QED
      BY <2>2, <2>3 DEF EnrolInv
  <1>6. CASE EnrolmentRollsBack
    <2>1. /\ handler.at = "saving" /\ handler.path \in Holders /\ handler.id \in 1..ids
          /\ registry[handler.path] = handler.id
      BY <1>0, <1>6 DEF EnrolmentRollsBack, PointerInv
    <2>2. /\ items' \subseteq items /\ orphaned' = orphaned \union (items' \cap {handler.id})
          /\ mishaps' \in 0..MaxFaults /\ handler' = NoHandler /\ UNCHANGED <<onDisk, ids>>
      BY <1>0, <1>6, Faults DEF EnrolmentRollsBack, PasswordGoes
    <2>3. /\ \A v \in Holders : v # handler.path => registry'[v] = registry[v]
          /\ registry' \in [Holders -> 0..ids]
      BY <1>0, <1>6, <2>1, Pointing DEF EnrolmentRollsBack, NoId
    <2>4. \A id \in items' \ orphaned' : id \in items \ orphaned /\ id # handler.id
      BY <2>2
    <2>5. EnrolTypeOK'
      BY <1>0, <2>1, <2>2, <2>3, Idle DEF EnrolTypeOK
    <2>6. PointerInv'
      BY <1>0, <2>2, <2>4, Idle DEF PointerInv
    <2>7. \A id \in items' \ orphaned' : \E v \in Holders : registry'[v] = id
      BY <1>1, <2>1, <2>3, <2>4
    <2> QED
      BY <2>5, <2>6, <2>7, PointedNext DEF EnrolInv
  <1> QED
    BY <1>2, <1>3, <1>4, <1>5, <1>6

LEMMA Mishaps ==
  ASSUME EnrolInv, ForgetSaved \/ (\E id \in items : ItemVanishes(id)) \/ Restart
  PROVE  EnrolInv'
  <1>0. EnrolTypeOK /\ PointerInv /\ ids \in Nat
    BY DEF EnrolInv, PointerInv
  <1>1. \A id \in items \ orphaned : \E v \in Holders : registry[v] = id
    BY <1>0, Pointed DEF EnrolInv
  <1>2. CASE ForgetSaved
    <2>1. /\ handler' = NoHandler /\ onDisk' \in {registry, onDisk} /\ mishaps' \in 0..MaxFaults
          /\ UNCHANGED <<items, registry, ids, orphaned>> /\ handler.at = "forgetting"
      BY <1>0, <1>2, Faults DEF ForgetSaved
    <2>2. EnrolTypeOK' /\ PasswordsHaveAPointer'
      BY <1>0, <2>1, Idle DEF EnrolInv, EnrolTypeOK, PasswordsHaveAPointer
    <2>3. \A id \in items' \ orphaned' : \E v \in Holders : onDisk'[v] = id
      <3>1. CASE onDisk' = registry
        BY <1>1, <2>1, <3>1
      <3>2. CASE onDisk' = onDisk
        BY <1>0, <2>1, <3>2 DEF PointerInv
      <3> QED
        BY <2>1, <3>1, <3>2
    <2>4. PointerInv'
      BY <1>0, <2>1, <2>3, Idle DEF PointerInv
    <2> QED
      BY <2>2, <2>4 DEF EnrolInv
  <1>3. ASSUME NEW id \in items, ItemVanishes(id) PROVE EnrolInv'
    <2>1. items' \subseteq items /\ UNCHANGED <<registry, onDisk, ids, handler, mishaps, orphaned>>
      BY <1>3 DEF ItemVanishes
    <2> QED
      BY <2>1 DEF EnrolInv, EnrolTypeOK, PointerInv, PasswordsHaveAPointer
  <1>4. CASE Restart
    <2>1. handler' = NoHandler /\ UNCHANGED <<items, onDisk, ids>> /\ mishaps' \in 0..MaxFaults
      BY <1>0, <1>4, Faults DEF Restart
    <2>2. CASE registry' = onDisk
               /\ orphaned' = orphaned \union IF handler.at = "saving" THEN {handler.id} ELSE {}
      <3>1. \A id \in items' \ orphaned' :
              id \in items \ orphaned /\ (handler.at = "saving" => id # handler.id)
        BY <2>1, <2>2
      <3>2. \A id \in items' \ orphaned' : \E v \in Holders : onDisk[v] = id
        BY <1>0, <3>1 DEF PointerInv
      <3>3. orphaned' \subseteq 1..ids
        BY <1>0, <2>2 DEF PointerInv, EnrolTypeOK
      <3>4. EnrolTypeOK'
        BY <1>0, <2>1, <2>2, <3>3, Idle DEF EnrolTypeOK
      <3>5. PointerInv'
        BY <1>0, <2>1, <3>2, Idle DEF PointerInv
      <3> QED
        BY <2>2, <3>2, <3>4, <3>5, PointedNext DEF EnrolInv
    <2>3. CASE registry' = NobodyEnrolled /\ orphaned' = orphaned \union items
      <3>1. items' \ orphaned' = {} /\ orphaned' \subseteq 1..ids
        BY <1>0, <2>1, <2>3 DEF EnrolTypeOK
      <3>2. registry' \in [Holders -> 0..ids]
        BY <1>0, <2>3 DEF NobodyEnrolled, NoId
      <3>4. EnrolTypeOK'
        BY <1>0, <2>1, <3>1, <3>2, Idle DEF EnrolTypeOK
      <3>3. PointerInv' /\ PasswordsHaveAPointer'
        BY <1>0, <2>1, <3>1, Idle DEF PointerInv, PasswordsHaveAPointer
      <3> QED
        BY <3>4, <3>3 DEF EnrolInv
    <2> QED
      BY <1>4, <2>2, <2>3 DEF Restart
  <1> QED
    BY <1>2, <1>3, <1>4

\* The password behind Touch ID can be forgotten.
LEMMA PasswordsArePointedAt == EnrolSpec => []PasswordsHaveAPointer /\ []EnrolTypeOK
  <1>1. EnrolInit => EnrolInv
    BY EnrolInitial
  <1>2. EnrolInv /\ [EnrolNext]_enrolVars => EnrolInv'
    <2>1. EnrolInv /\ UNCHANGED enrolVars => EnrolInv'
      BY DEF enrolVars, EnrolInv, EnrolTypeOK, PointerInv, PasswordsHaveAPointer
    <2> QED
      BY <2>1, Enrolling, Mishaps DEF EnrolNext
  <1>3. EnrolInv => PasswordsHaveAPointer /\ EnrolTypeOK
    BY DEF EnrolInv
  <1> QED
    BY <1>1, <1>2, <1>3, PTL DEF EnrolSpec

-----------------------------------------------------------------------------
(* Launch payloads.                                                        *)

\* A command's file has the shortest time to live, and belongs to it from its creation on; what
\* the start of the window found was there.
FilesInv ==
  /\ \A f \in Files : payload[f] = "none" => owner[f] = "dead" /\ keep[f] = 1
  /\ \A f \in Files : owner[f] = "cli" => keep[f] = 1
  /\ \A f \in earlier : payload[f] # "none"
  /\ client \in {"off", "ready"} => \A f \in Files : owner[f] # "cli"
  /\ client \in {"created", "registered"} =>
       \A f \in Files : owner[f] = "cli" => payload[f] \in {"empty", "gone"}

LaunchInv == LaunchTypeOK /\ FilesInv /\ (window = "settled" => LeftoversAreCollected)

Payloads == {"none", "empty", "staged", "gone"}
Owners == {"window", "cli", "dead"}

LEMMA LaunchInitial == LaunchInit => LaunchInv
  <1> SUFFICES ASSUME LaunchInit PROVE LaunchInv
    OBVIOUS
  <1>1. stop \in BOOLEAN
    BY DEF LaunchInit
  <1>2. LaunchTypeOK
    BY <1>1 DEF LaunchInit, LaunchTypeOK
  <1> QED
    BY <1>2 DEF LaunchInit, LaunchInv, FilesInv

\* What unlinking files does to them, and giving up their handles.
LEMMA Unlinking ==
  ASSUME LaunchTypeOK, NEW fs, Unlink(fs)
  PROVE  /\ payload' \in [Files -> Payloads]
         /\ \A f \in Files : \/ payload'[f] = payload[f]
                             \/ f \in fs /\ payload[f] \in {"empty", "staged"} /\ payload'[f] = "gone"
         /\ There' = There \ fs
  <1>1. payload' = [f \in Files |-> IF f \in fs \cap There THEN "gone" ELSE payload[f]]
    BY DEF Unlink
  <1> QED
    BY <1>1 DEF LaunchTypeOK, Payloads, There

LEMMA Releasing ==
  ASSUME LaunchTypeOK, NEW fs, Release(fs)
  PROVE  /\ owner' \in [Files -> Owners]
         /\ \A f \in Files : owner'[f] = IF f \in fs THEN "dead" ELSE owner[f]
  BY DEF LaunchTypeOK, Owners, Release

\* Steps that only take files and handles away.
LEMMA Ebbing ==
  ASSUME LaunchInv,
         payload' \in [Files -> Payloads], owner' \in [Files -> Owners],
         \A f \in Files : \/ payload'[f] = payload[f]
                          \/ payload[f] \in {"empty", "staged"} /\ payload'[f] = "gone",
         \A f \in Files : owner'[f] \in {owner[f], "dead"},
         age' \in [Files -> 0..3], keep' = keep,
         earlier' \subseteq Files, \A f \in earlier' : payload'[f] # "none",
         window' \in {"off", "new", "settled"}, window' = "settled" => earlier' \cap There' = {},
         client' \in {"off", "ready", "created", "registered", "staged"},
         live' \subseteq Files, stop' \in BOOLEAN,
         client' \in {"off", "ready"} => \A f \in Files : owner'[f] # "cli",
         client' \in {"created", "registered"} => client \in {"created", "registered"}
  PROVE  LaunchInv'
  <1>1. LaunchTypeOK'
    BY DEF LaunchInv, LaunchTypeOK, Payloads, Owners
  <1>2. FilesInv'
    BY DEF LaunchInv, LaunchTypeOK, FilesInv, Payloads, Owners
  <1> QED
    BY <1>1, <1>2 DEF LaunchInv, LeftoversAreCollected

\* The files made and written.
LEMMA Making ==
  ASSUME LaunchInv, NEW f \in Files, LaunchFromWindow(f) \/ LaunchFromClient(f) \/ WriteBody(f)
  PROVE  LaunchInv'
  <1>0. LaunchTypeOK /\ FilesInv
    BY DEF LaunchInv
  <1>1. CASE LaunchFromWindow(f)
    <2>1. /\ payload[f] = "none" /\ payload' = [payload EXCEPT ![f] = "empty"]
          /\ owner' = [owner EXCEPT ![f] = "window"]
          /\ UNCHANGED <<age, window, earlier, client, live, stop>>
      BY <1>1 DEF LaunchFromWindow, CreateNew
    <2>2. PICK k \in {1, 2} : keep' = [keep EXCEPT ![f] = k]
      BY <1>1 DEF LaunchFromWindow
    <2>3. LaunchTypeOK'
      BY <1>0, <2>1, <2>2 DEF LaunchTypeOK
    <2>4. FilesInv'
      BY <1>0, <2>1, <2>2 DEF LaunchTypeOK, FilesInv
    <2>5. earlier' \cap There' = earlier \cap There
      BY <1>0, <2>1 DEF LaunchTypeOK, FilesInv, There
    <2> QED
      BY <2>1, <2>3, <2>4, <2>5 DEF LaunchInv, LeftoversAreCollected
  <1>2. CASE LaunchFromClient(f)
    <2>1. /\ payload[f] = "none" /\ payload' = [payload EXCEPT ![f] = "empty"]
          /\ owner' = [owner EXCEPT ![f] = "cli"] /\ client = "ready" /\ client' = "created"
          /\ UNCHANGED <<age, keep, window, earlier, live, stop>>
      BY <1>2 DEF LaunchFromClient, CreateNew
    <2>2. LaunchTypeOK'
      BY <1>0, <2>1 DEF LaunchTypeOK
    <2>3. FilesInv'
      BY <1>0, <2>1 DEF LaunchTypeOK, FilesInv
    <2>4. earlier' \cap There' = earlier \cap There
      BY <1>0, <2>1 DEF LaunchTypeOK, FilesInv, There
    <2> QED
      BY <2>1, <2>2, <2>3, <2>4 DEF LaunchInv, LeftoversAreCollected
  <1>3. CASE WriteBody(f)
    <2>1. /\ payload[f] = "empty" /\ payload' = [payload EXCEPT ![f] = "staged"]
          /\ \/ owner[f] = "window" /\ client' = client
             \/ owner[f] = "cli" /\ client = "registered" /\ client' = "staged"
          /\ UNCHANGED <<age, owner, keep, window, earlier, live, stop>>
      BY <1>3 DEF WriteBody
    <2>2. LaunchTypeOK'
      BY <1>0, <2>1 DEF LaunchTypeOK
    <2>3. FilesInv'
      BY <1>0, <2>1 DEF LaunchTypeOK, FilesInv
    <2>4. There' = There
      BY <1>0, <2>1 DEF LaunchTypeOK, There
    <2> QED
      BY <2>1, <2>2, <2>3, <2>4 DEF LaunchInv, LeftoversAreCollected
  <1> QED
    BY <1>1, <1>2, <1>3

\* The steps of the window and its timers.
LEMMA WindowSteps ==
  ASSUME LaunchInv, \/ \E f \in Files : LaunchFails(f) \/ CleanupTimer(f)
                    \/ Lock \/ Quit \/ KillWindow \/ StartWindow \/ UnlockSweeps \/ SecondSweep
                    \/ TimePasses
  PROVE  LaunchInv'
  <1>0. LaunchTypeOK /\ FilesInv /\ (window = "settled" => earlier \cap There = {})
        /\ owner \in [Files -> Owners] /\ payload \in [Files -> Payloads]
    BY DEF LaunchInv, LeftoversAreCollected, LaunchTypeOK, Payloads, Owners
  \* Files go, with handles, and the window stays or ends.
  <1>1. ASSUME NEW fs, NEW gs, Unlink(fs), Release(gs), window' \in {window, "off"},
               UNCHANGED <<age, keep, earlier, client, live, stop>>
        PROVE  LaunchInv'
    <2>1. /\ payload' \in [Files -> Payloads] /\ There' \subseteq There
          /\ \A f \in Files : \/ payload'[f] = payload[f]
                              \/ payload[f] \in {"empty", "staged"} /\ payload'[f] = "gone"
      BY <1>0, <1>1, Unlinking
    <2>2. owner' \in [Files -> Owners] /\ \A f \in Files : owner'[f] \in {owner[f], "dead"}
      BY <1>0, <1>1, Releasing
    <2>3. \A f \in earlier' : payload'[f] # "none"
      BY <1>0, <1>1, <2>1 DEF LaunchTypeOK, FilesInv
    <2>4. client' \in {"off", "ready"} => \A f \in Files : owner'[f] # "cli"
      BY <1>0, <1>1, <2>2 DEF FilesInv
    <2> QED
      BY <1>0, <1>1, <2>1, <2>2, <2>3, <2>4, Ebbing DEF LaunchTypeOK
  \* Files go in a sweep.
  <1>2. ASSUME Unlink(Stale), UNCHANGED <<age, owner, keep, client, live, stop>>,
               window' \in {"off", "new", "settled"},
               earlier' \subseteq There \/ earlier' = earlier,
               window' = "settled" => earlier' \cap There' = {}
        PROVE  LaunchInv'
    <2>1. /\ payload' \in [Files -> Payloads]
          /\ \A f \in Files : \/ payload'[f] = payload[f]
                              \/ payload[f] \in {"empty", "staged"} /\ payload'[f] = "gone"
      BY <1>0, <1>2, Unlinking
    <2>2. earlier' \subseteq Files /\ \A f \in earlier' : payload'[f] # "none"
      BY <1>0, <1>2, <2>1 DEF LaunchTypeOK, FilesInv, There
    <2>3. client' \in {"off", "ready"} => \A f \in Files : owner'[f] # "cli"
      BY <1>0, <1>2 DEF FilesInv
    <2> QED
      BY <1>0, <1>2, <2>1, <2>2, <2>3, Ebbing DEF LaunchTypeOK
  <1>3. ASSUME NEW f \in Files, LaunchFails(f) \/ CleanupTimer(f) PROVE LaunchInv'
    BY <1>1, <1>3 DEF LaunchFails, CleanupTimer, TimersPayload
  <1>4. CASE Lock \/ Quit
    BY <1>1, <1>4 DEF Lock, Quit, Purge
  <1>5. CASE KillWindow
    <2>1. Release(Of("window")) /\ window' = "off" /\ UNCHANGED <<payload, age, keep, earlier, client, live, stop>>
      BY <1>5 DEF KillWindow
    <2>2. owner' \in [Files -> Owners] /\ \A f \in Files : owner'[f] \in {owner[f], "dead"}
      BY <1>0, <2>1, Releasing
    <2>3. client' \in {"off", "ready"} => \A f \in Files : owner'[f] # "cli"
      BY <1>0, <2>1, <2>2 DEF FilesInv
    <2> QED
      BY <1>0, <2>1, <2>2, <2>3, Ebbing DEF LaunchTypeOK, FilesInv
  <1>6. CASE StartWindow
    BY <1>2, <1>6 DEF StartWindow
  <1>7. CASE UnlockSweeps
    <2>1. There' \subseteq There
      BY <1>0, <1>7, Unlinking DEF UnlockSweeps
    <2> QED
      BY <1>0, <1>2, <1>7, <2>1 DEF UnlockSweeps, LaunchTypeOK
  <1>8. CASE SecondSweep
    <2>1. Unlink(Stale) /\ \A f \in earlier \cap There : age[f] = 3
      BY <1>8 DEF SecondSweep, SweptAgain
    <2>2. There' = There \ Stale
      BY <1>0, <2>1, Unlinking
    <2>3. earlier \cap There' = {}
      BY <2>1, <2>2 DEF Stale
    <2> QED
      BY <1>2, <1>8, <2>1, <2>3 DEF SecondSweep
  <1>9. CASE TimePasses
    <2>1. age' \in [Files -> 0..3]
      BY <1>0, <1>9 DEF TimePasses, LaunchTypeOK
    <2>2. UNCHANGED <<payload, owner, keep, window, earlier, client, live, stop>> /\ There' = There
      BY <1>9 DEF TimePasses, There
    <2> QED
      BY <1>0, <2>1, <2>2, Ebbing DEF LaunchTypeOK, FilesInv
  <1> QED
    BY <1>3, <1>4, <1>5, <1>6, <1>7, <1>8, <1>9

\* The steps of the command and its interrupt.
LEMMA ClientSteps ==
  ASSUME LaunchInv, \/ Register \/ ClientEnds \/ InterruptUnlinks \/ InterruptExits \/ KillClient
                    \/ StartClient
  PROVE  LaunchInv'
  <1>0. LaunchTypeOK /\ FilesInv /\ (window = "settled" => earlier \cap There = {})
        /\ owner \in [Files -> Owners] /\ payload \in [Files -> Payloads] /\ {} \subseteq Files
    BY DEF LaunchInv, LeftoversAreCollected, LaunchTypeOK, Payloads, Owners
  <1>1. UNCHANGED <<age, keep, window, earlier>>
    BY DEF Register, ClientEnds, InterruptUnlinks, InterruptExits, KillClient, StartClient
  \* Files go; the command goes on as it was, or starts.
  <1>2. ASSUME NEW fs, Unlink(fs), owner' = owner, live' = live, stop' \in BOOLEAN,
               client' = client \/ (client = "off" /\ client' = "ready")
        PROVE  LaunchInv'
    <2>1. /\ payload' \in [Files -> Payloads] /\ There' \subseteq There
          /\ \A f \in Files : \/ payload'[f] = payload[f]
                              \/ payload[f] \in {"empty", "staged"} /\ payload'[f] = "gone"
      BY <1>0, <1>2, Unlinking
    <2>2. \A f \in earlier' : payload'[f] # "none"
      BY <1>0, <1>1, <2>1 DEF LaunchTypeOK, FilesInv
    <2>3. client' \in {"off", "ready"} => \A f \in Files : owner'[f] # "cli"
      BY <1>0, <1>2 DEF FilesInv
    <2> QED
      BY <1>0, <1>1, <1>2, <2>1, <2>2, <2>3, Ebbing DEF LaunchTypeOK
  \* The command ends; its files go or stay.
  <1>3. ASSUME Release(Of("cli")), Unlink(Of("cli")) \/ UNCHANGED payload,
               client' = "off", live' = {}, stop' = FALSE
        PROVE  LaunchInv'
    <2>1. /\ payload' \in [Files -> Payloads] /\ There' \subseteq There
          /\ \A f \in Files : \/ payload'[f] = payload[f]
                              \/ payload[f] \in {"empty", "staged"} /\ payload'[f] = "gone"
      <3>1. CASE Unlink(Of("cli"))
        BY <1>0, <3>1, Unlinking
      <3>2. CASE UNCHANGED payload
        BY <1>0, <3>2 DEF There
      <3> QED
        BY <1>3, <3>1, <3>2
    <2>2. \A f \in earlier' : payload'[f] # "none"
      BY <1>0, <1>1, <2>1 DEF LaunchTypeOK, FilesInv
    <2>3. /\ owner' \in [Files -> Owners]
          /\ \A f \in Files : owner'[f] \in {owner[f], "dead"} /\ owner'[f] # "cli"
      BY <1>0, <1>3, Releasing DEF Of
    <2>4. stop' \in BOOLEAN
      BY <1>3
    <2> QED
      BY <1>0, <1>1, <1>3, <2>1, <2>2, <2>3, <2>4, Ebbing DEF LaunchTypeOK
  <1>4. CASE Register
    <2>1. /\ client = "created" /\ client' = "registered" /\ live' \subseteq Files
          /\ UNCHANGED <<payload, age, owner, keep, window, earlier, stop>> /\ There' = There
      BY <1>4 DEF Register, Of, There
    <2> QED
      BY <1>0, <2>1, Ebbing DEF LaunchTypeOK, FilesInv
  <1>5. CASE ClientEnds \/ InterruptExits \/ KillClient
    <2>1. client' = "off" /\ live' = {} /\ stop' = FALSE /\ Release(Of("cli"))
      BY <1>5, Zenon DEF ClientEnds, InterruptExits, KillClient
    <2>2. Unlink(Of("cli")) \/ UNCHANGED payload
      BY <1>5 DEF ClientEnds, InterruptExits, KillClient
    <2> QED
      BY <1>3, <2>1, <2>2
  <1>6. CASE InterruptUnlinks
    <2>1. stop' \in BOOLEAN
      BY <1>6 DEF InterruptUnlinks
    <2> QED
      BY <1>2, <1>6, <2>1 DEF InterruptUnlinks
  <1>7. CASE StartClient
    <2>1. stop' \in BOOLEAN
      BY <1>0, <1>7 DEF StartClient, LaunchTypeOK
    <2> QED
      BY <1>2, <1>7, <2>1 DEF StartClient
  <1> QED
    BY <1>4, <1>5, <1>6, <1>7

\* A payload that is there to be read goes before its time only in a lock, a quit or an
\* interrupt (Files, by their owners).
LEMMA NotBeforeItsTime ==
  ASSUME LaunchInv, LaunchNext, NEW f \in There, owner[f] # "dead", age[f] < keep[f],
         payload[f] = "staged", payload'[f] = "gone"
  PROVE  Lock \/ Quit \/ InterruptUnlinks
  <1>0. LaunchTypeOK /\ FilesInv /\ f \in Files
    BY DEF LaunchInv, There
  <1>1. ASSUME NEW fs, Unlink(fs) PROVE f \in fs
    BY <1>0, <1>1, Unlinking
  <1>2. age[f] # 3
    BY <1>0 DEF LaunchTypeOK
  <1>3. ~Unlink(Stale)
    BY <1>1, <1>2 DEF Stale
  <1>4. payload' # payload
    OBVIOUS
  <1>5. ASSUME NEW g \in Files, LaunchFails(g) \/ CleanupTimer(g) PROVE FALSE
    <2>1. Unlink({g}) /\ (payload[g] = "empty" \/ age[g] >= keep[g])
      BY <1>5 DEF LaunchFails, CleanupTimer, TimersPayload
    <2>2. f = g
      BY <1>1, <2>1
    <2> QED
      BY <1>0, <2>1, <2>2 DEF LaunchTypeOK
  <1>6. ASSUME NEW g \in Files, LaunchFromWindow(g) \/ LaunchFromClient(g) \/ WriteBody(g)
        PROVE  FALSE
    BY <1>0, <1>6 DEF LaunchFromWindow, LaunchFromClient, CreateNew, WriteBody, LaunchTypeOK
  <1>7. ~ClientEnds
    <2> SUFFICES ASSUME ClientEnds PROVE FALSE
      OBVIOUS
    <2>1. owner[f] = "cli"
      BY <1>1 DEF ClientEnds, Of
    <2>2. keep[f] = 1 /\ age[f] \in 0..3
      BY <1>0, <2>1 DEF FilesInv, LaunchTypeOK
    <2>3. client = "staged"
      BY <1>0, <2>1 DEF ClientEnds, FilesInv
    <2> QED
      BY <1>0, <2>1, <2>2, <2>3 DEF ClientEnds, Of
  <1>8. ~StartWindow /\ ~UnlockSweeps /\ ~StartClient /\ ~SecondSweep
    BY <1>3 DEF StartWindow, UnlockSweeps, StartClient, SecondSweep, SweptAgain
  <1>9. ~Register /\ ~InterruptExits /\ ~KillWindow /\ ~KillClient /\ ~TimePasses
    BY <1>4 DEF Register, InterruptExits, KillWindow, KillClient, TimePasses
  <1> QED
    BY <1>5, <1>6, <1>7, <1>8, <1>9 DEF LaunchNext

LEMMA LaunchStep == LaunchInv /\ [LaunchNext]_launchVars => LaunchInv'
  <1>1. LaunchInv /\ UNCHANGED launchVars => LaunchInv'
    BY DEF launchVars, LaunchInv, LaunchTypeOK, FilesInv, LeftoversAreCollected, There
  <1> QED
    BY <1>1, Making, WindowSteps, ClientSteps DEF LaunchNext

\* A payload is there while it is needed and, crash or not, not for much longer.
LEMMA PayloadsLive == LaunchSpec => PayloadsLiveTheirTime /\ []LaunchTypeOK
  <1>1. LaunchInit => LaunchInv
    BY LaunchInitial
  <1>2. LaunchInv /\ [LaunchNext]_launchVars => LaunchInv'
    BY LaunchStep
  <1>3. LaunchInv => LaunchTypeOK /\ (window = "settled" => LeftoversAreCollected)
    BY DEF LaunchInv
  <1> DEFINE Kept == \A f \in There : owner[f] # "dead" /\ age[f] < keep[f] /\ payload[f] = "staged"
                                      /\ payload'[f] = "gone" => Lock \/ Quit \/ InterruptUnlinks
  <1>4. LaunchInv /\ [LaunchNext]_launchVars => [Kept]_launchVars
    <2> SUFFICES ASSUME LaunchInv, LaunchNext, NEW f \in There, owner[f] # "dead", age[f] < keep[f],
                        payload[f] = "staged", payload'[f] = "gone"
                 PROVE  Lock \/ Quit \/ InterruptUnlinks
      OBVIOUS
    <2> QED
      BY NotBeforeItsTime
  <1> QED
    BY <1>1, <1>2, <1>3, <1>4, PTL DEF LaunchSpec, PayloadsLiveTheirTime, KeptUntilItsTime

-----------------------------------------------------------------------------
(* Auto-type.                                                              *)

Steps == {"off", "countdown", "queued", "next", "guarded", "dispatching", "character", "done"}
Tries == [at : Steps, context : 0..MaxContexts, target : Apps, op : 1..Len(Script), char : 1..2]

\* An attempt that types holds the gate of the context there is; one whose token is cancelled
\* has sent its last character or is about to see it; one that strays has begun its operation.
AttemptInv(t) ==
  /\ try[t].at \notin {"off", "done"} => try[t].context \in 1..context
  /\ try[t].at \in {"dispatching", "character"} =>
       gate[try[t].context] = t /\ try[t].context = context
  /\ late[t] \in 0..1
  /\ late[t] = 1 => /\ Revoked(t)
                    /\ \/ try[t].at \in {"next", "done"}
                       \/ try[t].at = "dispatching" /\ Script[try[t].op] = "text"
  /\ try[t].at \in {"guarded", "dispatching", "character"} /\ front # try[t].target =>
       strayed[t] = try[t].op

\* Every context before this one is cancelled, and this one while the main thread waits.
ContextInv ==
  /\ front \in Apps /\ context \in 1..MaxContexts /\ unlocked \in BOOLEAN /\ rotating \in BOOLEAN
  /\ cancelled \subseteq 1..context /\ 1..(context - 1) \subseteq cancelled
  /\ rotating => context \in cancelled /\ context < MaxContexts

TableInv ==
  /\ gate \in [1..MaxContexts -> Attempts \union {Nobody}]
  /\ try \in [Attempts -> Tries]
  /\ late \in [Attempts -> Nat] /\ strayed \in [Attempts -> 0..Len(Script)]

TypingInv == ContextInv /\ TableInv /\ \A t \in Attempts : AttemptInv(t)

LEMMA Scripted == Len(Script) \in Nat \ {0} /\ 1 \in 1..Len(Script) /\ 0 \in 0..Len(Script)
  BY AutoTypeConstants

LEMMA TypeInitial == TypeInit => TypingInv
  <1> SUFFICES ASSUME TypeInit PROVE TypingInv
    OBVIOUS
  <1> USE AutoTypeConstants, Scripted
  <1>1. NotYet \in Tries /\ NotYet.at = "off"
    BY DEF NotYet, Tries, Steps
  <1>2. TableInv
    BY <1>1 DEF TypeInit, TableInv
  <1>3. ContextInv
    <2>1. unlocked \in BOOLEAN /\ rotating \in BOOLEAN /\ ~rotating
      BY DEF TypeInit
    <2> QED
      BY <2>1 DEF TypeInit, ContextInv
  <1>4. ASSUME NEW t \in Attempts PROVE AttemptInv(t)
    BY <1>1 DEF TypeInit, AttemptInv
  <1> QED
    BY <1>2, <1>3, <1>4 DEF TypingInv

\* A step of one attempt leaves the others what they have.
LEMMA OneAttempt ==
  ASSUME TypingInv, NEW t \in Attempts,
         UNCHANGED <<front, context, unlocked, cancelled, rotating, strayed>>,
         try' \in [Attempts -> Tries], \A u \in Attempts : u # t => try'[u] = try[u],
         late' \in [Attempts -> Nat], \A u \in Attempts : u # t => late'[u] = late[u],
         gate' \in [1..MaxContexts -> Attempts \union {Nobody}],
         \A k \in 1..MaxContexts : gate[k] \notin {t, Nobody} => gate'[k] = gate[k],
         AttemptInv(t)'
  PROVE  TypingInv'
  <1>1. ASSUME NEW u \in Attempts, u # t PROVE AttemptInv(u)'
    <2>1. try'[u] = try[u] /\ late'[u] = late[u] /\ AttemptInv(u) /\ try[u] \in Tries
      BY <1>1 DEF TypingInv, TableInv
    <2>2. try[u].at \in {"dispatching", "character"} => gate'[try[u].context] = u
      BY <1>1, <2>1, AutoTypeConstants DEF AttemptInv, TypingInv, ContextInv, Tries
    <2> QED
      BY <1>1, <2>1, <2>2 DEF AttemptInv, Revoked
  <1>2. ContextInv' /\ TableInv'
    BY DEF TypingInv, ContextInv, TableInv
  <1> QED
    BY <1>1, <1>2 DEF TypingInv

\* An attempt that goes on to another step of its own.
LEMMA Stepping ==
  ASSUME TypingInv, NEW t \in Attempts, NEW step \in Steps, Moves(t, step)
  PROVE  /\ try' \in [Attempts -> Tries] /\ \A u \in Attempts : u # t => try'[u] = try[u]
         /\ try'[t].at = step /\ try'[t].context = try[t].context /\ try'[t].target = try[t].target
         /\ try'[t].op = try[t].op /\ try'[t].char = try[t].char
  BY DEF TypingInv, TableInv, Moves, Tries

\* The attempts on the main thread.
LEMMA Preparing ==
  ASSUME TypingInv, NEW t \in Attempts, Countdown(t) \/ Hotkey(t) \/ CountdownElapsed(t)
  PROVE  TypingInv'
  <1> USE AutoTypeConstants
  <1>0. /\ UNCHANGED <<front, context, unlocked, cancelled, rotating, gate, late, strayed>>
        /\ AttemptInv(t) /\ ContextInv /\ TableInv /\ try[t] \in Tries
        /\ try[t].at \in {"off", "countdown"} /\ late[t] = 0
    BY DEF Countdown, Hotkey, CountdownElapsed, TypingInv, TableInv, Trying, AttemptInv
  \* The record is typed, on its way, and of a context there has been.
  <1>1. ASSUME NEW step \in {"countdown", "queued", "done"}, NEW token \in 0..context, NEW target \in Apps,
               token = 0 => step = "done",
               \A u \in Attempts : u # t => try'[u] = try[u],
               try' \in [Attempts -> Tries], try'[t].at = step, try'[t].context = token
        PROVE  TypingInv'
    <2>1. AttemptInv(t)'
      BY <1>0, <1>1 DEF AttemptInv, ContextInv
    <2> QED
      BY <1>0, <1>1, <2>1, OneAttempt DEF TableInv
  <1>2. CASE Countdown(t)
    <2>1. /\ try' = [try EXCEPT ![t].at = "countdown", ![t].context = context]
          /\ context \in 1..MaxContexts /\ context \in 0..MaxContexts /\ context \in 0..context
      BY <1>0, <1>2 DEF Countdown, ContextInv
    <2>2. try' \in [Attempts -> Tries]
      BY <1>0, <2>1 DEF TableInv, Tries, Steps
    <2>3. /\ \A u \in Attempts : u # t => try'[u] = try[u]
          /\ try'[t].at = "countdown" /\ try'[t].context = context
      BY <1>0, <2>1 DEF TableInv, Tries
    <2> QED
      BY <1>0, <1>1, <2>1, <2>2, <2>3 DEF ContextInv
  <1>3. ASSUME NEW token \in 1..context, Prepare(t, token),
               try[t].at # "off" => try[t].context = token
        PROVE  TypingInv'
    <2>1. CASE Moves(t, "done")
      <3>1. "done" \in Steps
        BY DEF Steps
      <3>2. /\ try' \in [Attempts -> Tries] /\ \A u \in Attempts : u # t => try'[u] = try[u]
            /\ try'[t].at = "done"
        BY <2>1, <3>1, Stepping
      <3>3. AttemptInv(t)'
        BY <1>0, <3>2 DEF AttemptInv
      <3> QED
        BY <1>0, <3>2, <3>3, OneAttempt DEF TableInv
    <2>2. CASE try' = [try EXCEPT ![t].at = "queued", ![t].context = token, ![t].target = front]
      <3>1. token \in 0..MaxContexts /\ front \in Apps
        BY <1>0 DEF ContextInv
      <3>2. try' \in [Attempts -> Tries]
        BY <1>0, <2>2, <3>1 DEF TableInv, Tries, Steps
      <3>3. /\ \A u \in Attempts : u # t => try'[u] = try[u]
            /\ try'[t].at = "queued" /\ try'[t].context = token
        BY <1>0, <2>2 DEF TableInv, Tries
      <3> QED
        BY <1>0, <1>1, <3>1, <3>2, <3>3 DEF ContextInv
    <2> QED
      BY <1>3, <2>1, <2>2 DEF Prepare
  <1>4. CASE Hotkey(t)
    BY <1>0, <1>3, <1>4 DEF Hotkey, Trying, ContextInv
  <1>5. CASE CountdownElapsed(t)
    BY <1>0, <1>3, <1>5 DEF CountdownElapsed, Trying, AttemptInv
  <1> QED
    BY <1>2, <1>4, <1>5

\* The typing threads, up to the gate.
LEMMA Approaching ==
  ASSUME TypingInv, NEW t \in Attempts, Execute(t) \/ GuardOperation(t) \/ EnterGate(t)
  PROVE  TypingInv'
  <1> USE AutoTypeConstants
  <1>0. /\ UNCHANGED <<front, context, unlocked, cancelled, rotating, late, strayed>>
        /\ AttemptInv(t) /\ ContextInv /\ TableInv /\ try[t] \in Tries
        /\ try[t].at \in {"queued", "next", "guarded"}
    BY DEF Execute, GuardOperation, EnterGate, TypingInv, TableInv, Trying
  <1>1. ASSUME NEW step \in {"done", "next"}, Moves(t, step), gate' = gate,
               try[t].at = "queued" \/ step = "done"
        PROVE  TypingInv'
    <2>1. /\ try' \in [Attempts -> Tries] /\ \A u \in Attempts : u # t => try'[u] = try[u]
          /\ try'[t].at = step /\ try'[t].context = try[t].context
      BY <1>1, Stepping DEF Steps
    <2>2. AttemptInv(t)'
      BY <1>0, <1>1, <2>1 DEF AttemptInv, Revoked
    <2> QED
      BY <1>0, <1>1, <2>1, <2>2, OneAttempt DEF TableInv
  <1>2. CASE Execute(t)
    BY <1>1, <1>2 DEF Execute, Trying
  <1>3. CASE GuardOperation(t)
    <2>1. CASE Moves(t, "done")
      BY <1>1, <1>3, <2>1 DEF GuardOperation
    <2>2. CASE Moves(t, "guarded") /\ ~Revoked(t) /\ front = try[t].target
      <3>1. /\ try' \in [Attempts -> Tries] /\ \A u \in Attempts : u # t => try'[u] = try[u]
            /\ try'[t].at = "guarded" /\ try'[t].context = try[t].context
            /\ try'[t].target = try[t].target
        BY <2>2, Stepping DEF Steps
      <3>2. AttemptInv(t)'
        BY <1>0, <2>2, <3>1 DEF AttemptInv, Revoked
      <3> QED
        BY <1>0, <1>3, <3>1, <3>2, OneAttempt DEF TableInv, GuardOperation
    <2> QED
      BY <1>3, <2>1, <2>2 DEF GuardOperation, FocusGuard
  <1>4. CASE EnterGate(t)
    <2>1. CASE Revoked(t)
      BY <1>1, <1>4, <2>1 DEF EnterGate
    <2>2. CASE ~Revoked(t)
      <3>1. /\ Moves(t, "dispatching") /\ gate' = [gate EXCEPT ![try[t].context] = t]
            /\ gate[try[t].context] = Nobody /\ try[t].at = "guarded"
        BY <1>4, <2>2 DEF EnterGate, Trying
      <3>2. /\ try' \in [Attempts -> Tries] /\ \A u \in Attempts : u # t => try'[u] = try[u]
            /\ try'[t].at = "dispatching" /\ try'[t].context = try[t].context
            /\ try'[t].target = try[t].target /\ try'[t].op = try[t].op
        BY <3>1, Stepping DEF Steps
      <3>3. try[t].context \in 1..MaxContexts /\ try[t].context = context
        BY <1>0, <2>2, <3>1 DEF AttemptInv, ContextInv, Revoked
      <3>4. /\ gate' \in [1..MaxContexts -> Attempts \union {Nobody}] /\ gate'[try[t].context] = t
            /\ \A k \in 1..MaxContexts : gate[k] \notin {t, Nobody} => gate'[k] = gate[k]
        BY <1>0, <3>1, <3>3 DEF TableInv
      <3>5. AttemptInv(t)'
        BY <1>0, <2>2, <3>1, <3>2, <3>3, <3>4 DEF AttemptInv, Revoked
      <3> QED
        BY <1>0, <3>2, <3>4, <3>5, OneAttempt DEF TableInv
    <2> QED
      BY <2>1, <2>2
  <1> QED
    BY <1>2, <1>3, <1>4

\* What the end of an operation and a cancelled text do with the gate.
LEMMA GateOpens ==
  ASSUME TypingInv, NEW t \in Attempts, try[t].at \in {"dispatching", "character"},
         gate' = [gate EXCEPT ![try[t].context] = Nobody]
  PROVE  /\ gate' \in [1..MaxContexts -> Attempts \union {Nobody}]
         /\ \A k \in 1..MaxContexts : gate[k] \notin {t, Nobody} => gate'[k] = gate[k]
  <1>1. gate[try[t].context] = t /\ gate \in [1..MaxContexts -> Attempts \union {Nobody}]
    BY DEF TypingInv, TableInv, AttemptInv
  <1> QED
    BY <1>1

\* The typing threads, inside the gate.
LEMMA Dispatching ==
  ASSUME TypingInv, NEW t \in Attempts, BeforeCharacter(t) \/ Character(t)
  PROVE  TypingInv'
  <1> USE AutoTypeConstants
  <1>0. /\ UNCHANGED <<front, context, unlocked, cancelled, rotating, strayed>>
        /\ AttemptInv(t) /\ ContextInv /\ TableInv /\ try[t] \in Tries
        /\ try[t].at \in {"dispatching", "character"} /\ late[t] \in 0..1
        /\ gate \in [1..MaxContexts -> Attempts \union {Nobody}] /\ late \in [Attempts -> Nat]
    BY DEF BeforeCharacter, Character, TypingInv, TableInv, Trying, AttemptInv
  <1>1. CASE BeforeCharacter(t)
    <2>0. late' = late /\ try[t].at = "dispatching"
      BY <1>1 DEF BeforeCharacter, Trying
    <2>1. CASE StillActive(t)
      <3>1. Moves(t, "character") /\ gate' = gate
        BY <1>1, <2>1 DEF BeforeCharacter
      <3>2. /\ try' \in [Attempts -> Tries] /\ \A u \in Attempts : u # t => try'[u] = try[u]
            /\ try'[t].at = "character" /\ try'[t].context = try[t].context
            /\ try'[t].target = try[t].target /\ try'[t].op = try[t].op
        BY <3>1, Stepping DEF Steps
      <3>3. late[t] = 0
        BY <1>0, <2>0, <2>1 DEF AttemptInv, StillActive
      <3>4. AttemptInv(t)'
        BY <1>0, <2>0, <3>1, <3>2, <3>3 DEF AttemptInv, Revoked
      <3> QED
        BY <1>0, <2>0, <3>1, <3>2, <3>4, OneAttempt
    <2>2. CASE ~StillActive(t)
      <3>1. Moves(t, "done") /\ gate' = [gate EXCEPT ![try[t].context] = Nobody]
        BY <1>1, <2>2 DEF BeforeCharacter
      <3>2. /\ try' \in [Attempts -> Tries] /\ \A u \in Attempts : u # t => try'[u] = try[u]
            /\ try'[t].at = "done" /\ try'[t].context = try[t].context
        BY <3>1, Stepping DEF Steps
      <3>3. AttemptInv(t)'
        BY <1>0, <2>0, <3>2 DEF AttemptInv, Revoked
      <3> QED
        BY <1>0, <2>0, <3>1, <3>2, <3>3, GateOpens, OneAttempt
    <2> QED
      BY <2>1, <2>2
  <1>2. CASE Character(t)
    <2>0. try[t].at = "character" /\ late[t] = 0
      BY <1>0, <1>2 DEF Character, Trying, AttemptInv
    <2>1. /\ late' \in [Attempts -> Nat] /\ \A u \in Attempts : u # t => late'[u] = late[u]
          /\ late'[t] \in 0..1 /\ (late'[t] = 1 => Revoked(t))
      <3>1. CASE Revoked(t) /\ late' = [late EXCEPT ![t] = @ + 1]
        BY <1>0, <2>0, <3>1
      <3>2. CASE late' = late
        BY <1>0, <2>0, <3>2
      <3> QED
        BY <1>2, <3>1, <3>2 DEF Character
    <2>2. try[t].op \in 1..Len(Script) /\ try[t].char \in 1..2
      BY <1>0 DEF Tries
    <2>3. CASE try[t].char < Length(try[t].op)
      <3>1. /\ try' = [try EXCEPT ![t].at = "dispatching", ![t].char = @ + 1] /\ gate' = gate
            /\ Script[try[t].op] = "text" /\ try[t].char + 1 \in 1..2
        BY <1>2, <2>2, <2>3 DEF Character, Length
      <3>2. try' \in [Attempts -> Tries]
        BY <1>0, <3>1 DEF TableInv, Tries, Steps
      <3>3. /\ \A u \in Attempts : u # t => try'[u] = try[u]
            /\ try'[t].at = "dispatching" /\ try'[t].context = try[t].context
            /\ try'[t].target = try[t].target /\ try'[t].op = try[t].op
        BY <1>0, <3>1 DEF TableInv, Tries
      <3>4. AttemptInv(t)'
        BY <1>0, <2>0, <2>1, <3>1, <3>3 DEF AttemptInv, Revoked
      <3> QED
        BY <1>0, <2>1, <3>1, <3>2, <3>3, <3>4, OneAttempt
    <2>4. CASE ~(try[t].char < Length(try[t].op))
      <3>0. gate' = [gate EXCEPT ![try[t].context] = Nobody]
        BY <1>2, <2>4 DEF Character
      <3>1. /\ try' \in [Attempts -> Tries] /\ \A u \in Attempts : u # t => try'[u] = try[u]
            /\ try'[t].at \in {"next", "done"} /\ try'[t].context = try[t].context
        <4>1. CASE try[t].op < Len(Script)
          <5>0. try[t].op + 1 \in 1..Len(Script) /\ 1 \in 1..2
            BY <2>2, <4>1, Scripted
          <5>1. try' = [try EXCEPT ![t].at = "next", ![t].op = @ + 1, ![t].char = 1]
            BY <1>2, <2>4, <4>1 DEF Character
          <5>2. try' \in [Attempts -> Tries]
            BY <1>0, <5>0, <5>1 DEF TableInv, Tries, Steps
          <5> QED
            BY <1>0, <5>1, <5>2 DEF TableInv, Tries
        <4>2. CASE ~(try[t].op < Len(Script))
          <5>1. Moves(t, "done")
            BY <1>2, <2>4, <4>2 DEF Character, Moves
          <5> QED
            BY <5>1, Stepping DEF Steps
        <4> QED
          BY <4>1, <4>2
      <3>2. AttemptInv(t)'
        BY <1>0, <2>0, <2>1, <3>1 DEF AttemptInv, Revoked
      <3> QED
        BY <1>0, <2>1, <3>0, <3>1, <3>2, GateOpens, OneAttempt
    <2> QED
      BY <2>3, <2>4
  <1> QED
    BY <1>1, <1>2

\* The main thread revokes a context, and the windows come and go.
LEMMA Surroundings ==
  ASSUME TypingInv, Cancel \/ CancelReturns \/ FocusMoves
  PROVE  TypingInv'
  <1> USE AutoTypeConstants
  <1>0. UNCHANGED <<gate, try, late>> /\ ContextInv /\ TableInv
    BY DEF Cancel, CancelReturns, FocusMoves, TypingInv
  <1>1. CASE Cancel
    <2>1. /\ ~rotating /\ context < MaxContexts /\ cancelled' = cancelled \union {context}
          /\ rotating' = TRUE /\ UNCHANGED <<front, context, unlocked, strayed>>
      BY <1>1 DEF Cancel
    <2>2. rotating' \in BOOLEAN
      BY <2>1
    <2>3. ContextInv'
      BY <1>0, <2>1, <2>2 DEF ContextInv
    <2>4. TableInv'
      BY <1>0, <2>1 DEF TableInv
    <2>5. ASSUME NEW t \in Attempts PROVE AttemptInv(t)'
      BY <1>0, <2>1 DEF TypingInv, AttemptInv, Revoked
    <2> QED
      BY <2>3, <2>4, <2>5 DEF TypingInv
  <1>2. CASE CancelReturns
    <2>1. /\ rotating /\ Barrier /\ context' = context + 1
          /\ unlocked' \in BOOLEAN /\ UNCHANGED <<front, cancelled, strayed>>
      BY <1>2 DEF CancelReturns
    <2>2. rotating' \in BOOLEAN /\ ~rotating'
      BY <1>2, Zenon DEF CancelReturns
    <2>3. ContextInv'
      BY <1>0, <2>1, <2>2 DEF ContextInv
    <2>4. TableInv'
      BY <1>0, <2>1 DEF TableInv
    <2>5. ASSUME NEW t \in Attempts PROVE AttemptInv(t)'
      <3>1. AttemptInv(t)
        BY DEF TypingInv
      <3>2. try[t].at \notin {"dispatching", "character"}
        BY <2>1, <3>1 DEF AttemptInv, Barrier
      <3>3. context' = context + 1 /\ context \in Nat /\ 1..context \subseteq 1..context'
        BY <1>0, <2>1 DEF ContextInv
      <3> QED
        BY <1>0, <2>1, <3>1, <3>2, <3>3 DEF AttemptInv, Revoked
    <2> QED
      BY <2>3, <2>4, <2>5 DEF TypingInv
  <1>3. CASE FocusMoves
    <2>1. PICK a \in Apps \ {front} :
            /\ front' = a
            /\ strayed' = [t \in Attempts |->
                 CASE a = try[t].target -> 0
                   [] front = try[t].target -> try[t].op
                   [] OTHER -> strayed[t]]
      BY <1>3 DEF FocusMoves
    <2>2. UNCHANGED <<context, unlocked, cancelled, rotating>>
      BY <1>3 DEF FocusMoves
    <2>3. ASSUME NEW t \in Attempts
          PROVE  /\ strayed'[t] \in 0..Len(Script)
                 /\ front' # try[t].target =>
                      strayed'[t] = IF front = try[t].target THEN try[t].op ELSE strayed[t]
      <3>1. try[t].op \in 1..Len(Script) /\ strayed[t] \in 0..Len(Script)
        BY <1>0 DEF TableInv, Tries
      <3> QED
        BY <2>1, <3>1, Scripted
    <2>4. ContextInv'
      BY <1>0, <2>1, <2>2 DEF ContextInv
    <2>5. TableInv'
      BY <1>0, <2>1, <2>3 DEF TableInv
    <2>6. ASSUME NEW t \in Attempts PROVE AttemptInv(t)'
      BY <1>0, <2>2, <2>3 DEF TypingInv, AttemptInv, Revoked
    <2> QED
      BY <2>4, <2>5, <2>6 DEF TypingInv
  <1> QED
    BY <1>1, <1>2, <1>3

LEMMA TypeStepping == TypingInv /\ [TypeNext]_typeVars => TypingInv'
  <1>1. TypingInv /\ UNCHANGED typeVars => TypingInv'
    BY DEF typeVars, TypingInv, ContextInv, TableInv, AttemptInv, Revoked
  <1> QED
    BY <1>1, Preparing, Approaching, Dispatching, Surroundings DEF TypeNext, TypeStep

\* Typing ends with its vault, with its token and with its target.
LEMMA TypingEnds == TypeSpec => TypingStops /\ []AutoTypeOK
  <1>1. TypeInit => TypingInv
    BY TypeInitial
  <1>2. TypingInv /\ [TypeNext]_typeVars => TypingInv'
    BY TypeStepping
  <1>3. TypingInv => AutoTypeOK
    <2> SUFFICES ASSUME TypingInv PROVE AutoTypeOK
      OBVIOUS
    <2>1. ContextInv /\ TableInv /\ cancelled \subseteq 1..MaxContexts
      BY AutoTypeConstants DEF TypingInv, ContextInv
    <2>2. ASSUME NEW t \in Attempts
          PROVE  try[t] \in Tries /\ late[t] \in Nat /\ strayed[t] \in 0..Len(Script)
      BY <2>1 DEF TableInv
    <2> QED
      BY <2>1, <2>2 DEF ContextInv, TableInv, AutoTypeOK, Tries
  <1>4. TypingInv => \A t \in Attempts : CancelStopsTheText(t)
    BY DEF TypingInv, AttemptInv, CancelStopsTheText
  <1>5. TypingInv => \A t \in Attempts : Character(t) =>
          try[t].context = context /\ (front # try[t].target => strayed[t] = try[t].op)
    BY DEF TypingInv, AttemptInv, Character, Trying
  <1> DEFINE Timely == \A t \in Attempts : Character(t) => try[t].context = context
             Near == \A t \in Attempts : Character(t) /\ front # try[t].target => strayed[t] = try[t].op
  <1>6. TypingInv => [Timely]_typeVars /\ [Near]_typeVars
    BY <1>5
  <1> QED
    BY <1>1, <1>2, <1>3, <1>4, <1>6, PTL
    DEF TypeSpec, TypingStops, NothingTypedAfterTheLock, StrayIsOneOperation

-----------------------------------------------------------------------------
(* Unlocking and its Touch ID prompt.                                      *)

Paths == Vaults \union {NoVault}
Prompts == [1..MaxPrompts -> [path : Paths, automatic : BOOLEAN, left : BOOLEAN, out : BOOLEAN]]
Opens == [1..MaxOpens -> [path : Paths, left : BOOLEAN, out : BOOLEAN]]
Flags == [attempted : Paths, interrupted : BOOLEAN, rearmed : BOOLEAN]
Screens == [at : {"empty", "awaiting", "opening", "open"}, path : Paths]
Touches == {c \in [attempt : -1..MaxPrompts, generation : 0..MaxPrompts] : c.attempt <= c.generation}

\* Vaults that stay unlocked, each in one place.
Keeping(vaults, scr) ==
  /\ vaults \in Seq(Vaults) /\ IsInjective(vaults)
  /\ scr.at # "empty" => scr.path \in Vaults /\ ~Contains(vaults, scr.path)

\* An open under way, and the prompt in flight, are of the screen and the visit they were
\* begun on.
Asking(scr, asked, begun, count) ==
  /\ \A g \in 1..MaxPrompts : asked[g].out => asked[g].path \in Vaults
  /\ scr.at = "opening" => count # 0 /\ ~begun[count].left
InFlight(scr, attempt, asked) ==
  attempt > 0 => /\ ~asked[attempt].left
                 /\ scr.at = "awaiting" /\ asked[attempt].out => asked[attempt].path = scr.path

\* Every automatic prompt after the first takes a visit that is new or the one re-arming; on
\* another screen than the password's a prompt that was counted is no longer in flight.
Counting(scr, attempt, asked, flags, count) ==
  /\ count <= 2
  /\ scr.at = "awaiting" /\ (flags.attempted # scr.path \/ ~flags.rearmed) => count <= 1
  /\ scr.at = "awaiting" /\ flags.attempted # scr.path /\ ~flags.rearmed => count = 0
  /\ scr.at = "opening" => count = 0
  /\ scr.at # "awaiting" /\ count > 0 /\ attempt > 0 => ~asked[attempt].out

TouchTyped ==
  /\ shown \in Screens /\ touch \in Touches /\ prompts \in Prompts /\ opens \in Opens
  /\ attempts \in 0..MaxOpens /\ shell \in Flags /\ active \in BOOLEAN /\ raised \in Nat

TouchInv ==
  /\ TouchTyped
  /\ Keeping(kept, shown)
  /\ Asking(shown, prompts, opens, attempts)
  /\ InFlight(shown, touch.attempt, prompts)
  /\ Counting(shown, touch.attempt, prompts, shell, raised)
  /\ InterruptionIsNotMissed

LEMMA TouchInitial == TouchInit => TouchInv
  <1> SUFFICES ASSUME TouchInit PROVE TouchInv
    OBVIOUS
  <1> USE TouchIdConstants
  <1>1. NoPrompt \in [path : Paths, automatic : BOOLEAN, left : BOOLEAN, out : BOOLEAN] /\ ~NoPrompt.out
        /\ NoOpen \in [path : Paths, left : BOOLEAN, out : BOOLEAN]
        /\ Calm \in Flags /\ ~Calm.interrupted
    BY DEF NoPrompt, NoOpen, Calm, Paths, Flags
  <1>2. prompts \in Prompts /\ (\A g \in 1..MaxPrompts : ~prompts[g].out) /\ opens \in Opens
    BY <1>1 DEF TouchInit, Prompts, Opens
  <1>3. shown \in Screens /\ shown.at = "empty" /\ touch \in Touches /\ touch.attempt = 0
    BY DEF TouchInit, Screens, Touches, Paths, IdleAttempt
  <1>4. kept \in Seq(Vaults) /\ IsInjective(kept)
    <2>1. kept = <<>> /\ DOMAIN kept = 1..0
      BY DEF TouchInit
    <2> QED
      BY <2>1 DEF IsInjective
  <1>5. TouchTyped
    <2>1. active \in BOOLEAN
      BY DEF TouchInit
    <2> QED
      BY <1>1, <1>2, <1>3, <2>1 DEF TouchTyped, TouchInit
  <1>6. Keeping(kept, shown) /\ Asking(shown, prompts, opens, attempts)
        /\ InFlight(shown, touch.attempt, prompts) /\ Counting(shown, touch.attempt, prompts, shell, raised)
    BY <1>2, <1>3, <1>4 DEF Keeping, Asking, InFlight, Counting, TouchInit
  <1>7. InterruptionIsNotMissed
    BY <1>1 DEF TouchInit, InterruptionIsNotMissed
  <1> QED
    BY <1>5, <1>6, <1>7 DEF TouchInv

\* What the observer does with what a handler leaves it.
LEMMA Settled ==
  ASSUME touch \in Touches, MaxPrompts \in Nat,
         NEW scr \in Screens, NEW attempt \in -1..touch.generation, NEW flags \in Flags,
         NEW facing \in BOOLEAN, NEW asked \in Prompts, NEW count \in Nat,
         Settles(scr, attempt, flags, facing, asked, count)
  PROVE  /\ shown' = scr /\ active' = facing
         /\ touch' \in Touches /\ shell' \in Flags /\ prompts' \in Prompts /\ raised' \in Nat
         /\ shell'.interrupted => flags.interrupted
         /\ \/ /\ scr.at = "awaiting" /\ flags.attempted # scr.path /\ attempt = 0
               /\ touch'.attempt \in 1..MaxPrompts
               /\ prompts'[touch'.attempt].path = scr.path /\ ~prompts'[touch'.attempt].left
               /\ \A g \in 1..MaxPrompts : g # touch'.attempt => prompts'[g] = asked[g]
               /\ shell'.attempted = scr.path /\ shell'.rearmed = flags.rearmed
               /\ raised' = count + 1
            \/ /\ touch'.attempt = attempt /\ prompts' = asked /\ raised' = count
               /\ scr.at = "awaiting" => shell' = flags
  <1>0. /\ shown' = scr /\ active' = facing
        /\ touch.generation \in 0..MaxPrompts /\ scr.path \in Paths
    BY DEF Settles, Touches, Screens
  <1>1. CASE scr.at = "awaiting" /\ attempt = IdleAttempt /\ facing /\ flags.attempted # scr.path
    <2>1. /\ shell' = [flags EXCEPT !.attempted = scr.path]
          /\ Raise(scr.path, TRUE, asked) /\ raised' = count + 1
      BY <1>1 DEF Settles
    <2> DEFINE g == touch.generation + 1
               asking == [path |-> scr.path, automatic |-> TRUE, left |-> FALSE, out |-> TRUE]
    <2>2. /\ g \in 1..MaxPrompts /\ touch' = [attempt |-> g, generation |-> g]
          /\ prompts' = [asked EXCEPT ![g] = asking]
      BY <1>0, <2>1 DEF Raise
    <2>3. asking \in [path : Paths, automatic : BOOLEAN, left : BOOLEAN, out : BOOLEAN]
          /\ asking.path = scr.path /\ ~asking.left
      BY <1>0
    <2> HIDE DEF g, asking
    <2>4. touch' \in Touches /\ touch'.attempt = g
      BY <2>2 DEF Touches
    <2>5. prompts' \in Prompts /\ prompts'[g] = asking
          /\ \A h \in 1..MaxPrompts : h # g => prompts'[h] = asked[h]
      BY <2>2, <2>3 DEF Prompts
    <2>6. shell' \in Flags /\ shell'.attempted = scr.path /\ shell'.rearmed = flags.rearmed
          /\ (shell'.interrupted <=> flags.interrupted)
      BY <1>0, <2>1 DEF Flags
    <2> QED
      BY <1>0, <1>1, <2>1, <2>2, <2>3, <2>4, <2>5, <2>6 DEF IdleAttempt
  <1>2. CASE ~(scr.at = "awaiting" /\ attempt = IdleAttempt /\ facing /\ flags.attempted # scr.path)
    <2>1. /\ shell' = IF scr.at = "awaiting" THEN flags ELSE Calm
          /\ touch' = [touch EXCEPT !.attempt = attempt] /\ prompts' = asked /\ raised' = count
      BY <1>2 DEF Settles
    <2>2. touch' \in Touches /\ touch'.attempt = attempt
      BY <1>0, <2>1 DEF Touches
    <2>3. shell' \in Flags /\ (shell'.interrupted => flags.interrupted)
      BY <2>1 DEF Flags, Calm, Paths
    <2> QED
      BY <1>0, <2>1, <2>2, <2>3
  <1> QED
    BY <1>1, <1>2

\* What the handler has to leave for the invariant to hold after the observer.
LEMMA Settling ==
  ASSUME touch \in Touches,
         NEW scr \in Screens, NEW attempt \in -1..touch.generation, NEW flags \in Flags,
         NEW facing \in BOOLEAN, NEW asked \in Prompts, NEW count \in Nat,
         Settles(scr, attempt, flags, facing, asked, count),
         opens' \in Opens, attempts' \in 0..MaxOpens,
         Keeping(kept', scr), Asking(scr, asked, opens', attempts'), InFlight(scr, attempt, asked),
         Counting(scr, attempt, asked, flags, count), flags.interrupted => ~facing
  PROVE  TouchInv'
  <1> USE TouchIdConstants
  <1>0. /\ shown' = scr /\ active' = facing
        /\ touch' \in Touches /\ shell' \in Flags /\ prompts' \in Prompts /\ raised' \in Nat
        /\ shell'.interrupted => flags.interrupted
    BY Settled
  <1>1. TouchTyped'
    BY <1>0 DEF TouchTyped
  <1>2. Keeping(kept', shown') /\ InterruptionIsNotMissed'
    BY <1>0 DEF InterruptionIsNotMissed
  <1>3. CASE /\ scr.at = "awaiting" /\ flags.attempted # scr.path /\ attempt = 0
             /\ touch'.attempt \in 1..MaxPrompts
             /\ prompts'[touch'.attempt].path = scr.path /\ ~prompts'[touch'.attempt].left
             /\ \A g \in 1..MaxPrompts : g # touch'.attempt => prompts'[g] = asked[g]
             /\ shell'.attempted = scr.path /\ shell'.rearmed = flags.rearmed
             /\ raised' = count + 1
    <2>1. Asking(shown', prompts', opens', attempts')
      BY <1>0, <1>3 DEF Asking, Keeping
    <2>2. InFlight(shown', touch'.attempt, prompts')
      BY <1>0, <1>3 DEF InFlight
    <2>3. Counting(shown', touch'.attempt, prompts', shell', raised')
      BY <1>0, <1>3 DEF Counting
    <2> QED
      BY <1>1, <1>2, <2>1, <2>2, <2>3 DEF TouchInv
  <1>4. CASE /\ touch'.attempt = attempt /\ prompts' = asked /\ raised' = count
             /\ scr.at = "awaiting" => shell' = flags
    <2>1. Asking(shown', prompts', opens', attempts') /\ InFlight(shown', touch'.attempt, prompts')
      BY <1>0, <1>4
    <2>2. Counting(shown', touch'.attempt, prompts', shell', raised')
      BY <1>0, <1>4 DEF Counting
    <2> QED
      BY <1>1, <1>2, <2>1, <2>2 DEF TouchInv
  <1> QED
    BY <1>3, <1>4, Settled

\* The vaults that stay unlocked: one more, the last one less, one of them less.
LEMMA ParkedOne ==
  ASSUME TouchInv
  PROVE  /\ Parked \in Seq(Vaults) /\ IsInjective(Parked)
         /\ \A v : Contains(Parked, v) => Contains(kept, v) \/ shown = Screen("open", v)
         /\ \A v : Contains(kept, v) => Contains(Parked, v)
  <1>0. Keeping(kept, shown) /\ shown \in Screens
    BY DEF TouchInv, TouchTyped
  <1>1. CASE shown.at = "open"
    <2>1. /\ Parked = Append(kept, shown.path) /\ shown.path \in Vaults /\ kept \in Seq(Vaults)
          /\ ~Contains(kept, shown.path) /\ IsInjective(kept)
      BY <1>0, <1>1 DEF Parked, Keeping
    <2> DEFINE n == Len(kept)
               longer == Append(kept, shown.path)
    <2>2. /\ longer \in Seq(Vaults) /\ Len(longer) = n + 1 /\ longer[n + 1] = shown.path
          /\ \A i \in 1..n : longer[i] = kept[i]
      BY <2>1, AppendProperties
    <2>3. n \in Nat /\ DOMAIN kept = 1..n /\ DOMAIN longer = 1..(n + 1)
      BY <2>1, <2>2
    <2>4. \A i \in 1..n : kept[i] # shown.path
      BY <2>1 DEF Contains
    <2> HIDE DEF n, longer
    <2>5. IsInjective(longer)
      BY <2>1, <2>2, <2>3, <2>4 DEF IsInjective
    <2>6. shown = Screen("open", shown.path)
      BY <1>0, <1>1 DEF Screens, Screen
    <2>7. ASSUME NEW v PROVE (Contains(longer, v) => Contains(kept, v) \/ v = shown.path)
                             /\ (Contains(kept, v) => Contains(longer, v))
      <3>1. 1..Len(kept) = 1..n
        BY DEF n
      <3> QED
        BY <2>2, <2>3, <3>1 DEF Contains
    <2> QED
      BY <2>1, <2>2, <2>5, <2>6, <2>7 DEF longer
  <1>2. CASE shown.at # "open"
    BY <1>0, <1>2 DEF Parked, Keeping
  <1> QED
    BY <1>1, <1>2

LEMMA FrontOfKept ==
  ASSUME NEW s \in Seq(Vaults), IsInjective(s), s # <<>>
  PROVE  Front(s) \in Seq(Vaults) /\ IsInjective(Front(s)) /\ Last(s) \in Vaults
         /\ ~Contains(Front(s), Last(s))
  <1> DEFINE n == Len(s)
             f == SubSeq(s, 1, n - 1)
  <1>1. n \in Nat /\ n # 0 /\ DOMAIN s = 1..n /\ \A i \in 1..n : s[i] \in Vaults
    BY EmptySeq
  <1>2. 1 \in Int /\ n - 1 \in Int /\ \A i \in 1..(n - 1) : s[i] \in Vaults
    BY <1>1
  <1>3. /\ f \in Seq(Vaults) /\ Len(f) = (IF 1 <= n - 1 THEN (n - 1) - 1 + 1 ELSE 0)
        /\ \A i \in 1..((n - 1) - 1 + 1) : f[i] = s[1 + i - 1]
    <2> HIDE DEF n
    <2> QED
      BY <1>2, SubSeqProperties
  <1>4. Front(s) = f /\ Last(s) = s[n]
    BY DEF Front, Last
  <1> HIDE DEF n, f
  <1>5. Len(f) = n - 1 /\ DOMAIN f = 1..(n - 1) /\ \A i \in 1..(n - 1) : f[i] = s[i]
    BY <1>1, <1>3
  <1>6. IsInjective(f)
    BY <1>1, <1>5 DEF IsInjective
  <1>7. ~Contains(f, s[n])
    BY <1>1, <1>5 DEF IsInjective, Contains
  <1> QED
    BY <1>1, <1>3, <1>4, <1>6, <1>7

LEMMA OneRemoved ==
  ASSUME NEW s \in Seq(Vaults), IsInjective(s), NEW v, Contains(s, v)
  PROVE  Without(s, v) \in Seq(Vaults) /\ IsInjective(Without(s, v)) /\ v \in Vaults
         /\ ~Contains(Without(s, v), v)
  <1> DEFINE n == Len(s)
             k == CHOOSE i \in 1..n : s[i] = v
             a == SubSeq(s, 1, k - 1)
             b == SubSeq(s, k + 1, n)
             r == a \o b
  <1>1. n \in Nat /\ DOMAIN s = 1..n /\ (\A i \in 1..n : s[i] \in Vaults) /\ k \in 1..n /\ s[k] = v
    BY DEF Contains
  <1>2. Without(s, v) = r
    BY DEF Without, RemoveAt
  <1> HIDE DEF n, k
  <1>3. /\ 1 \in Int /\ k - 1 \in Int /\ k + 1 \in Int /\ n \in Int
        /\ \A i \in 1..(k - 1) : s[i] \in Vaults
        /\ \A i \in (k + 1)..n : s[i] \in Vaults
    BY <1>1
  <1>4. /\ a \in Seq(Vaults) /\ Len(a) = (IF 1 <= k - 1 THEN (k - 1) - 1 + 1 ELSE 0)
        /\ \A i \in 1..((k - 1) - 1 + 1) : a[i] = s[1 + i - 1]
    BY <1>3, SubSeqProperties
  <1>5. /\ b \in Seq(Vaults) /\ Len(b) = (IF k + 1 <= n THEN n - (k + 1) + 1 ELSE 0)
        /\ \A i \in 1..(n - (k + 1) + 1) : b[i] = s[(k + 1) + i - 1]
    BY <1>3, SubSeqProperties
  <1>6. Len(a) = k - 1 /\ Len(b) = n - k
    BY <1>1, <1>4, <1>5
  <1>7. /\ r \in Seq(Vaults) /\ Len(r) = Len(a) + Len(b)
        /\ \A i \in 1..(Len(a) + Len(b)) : r[i] = IF i <= Len(a) THEN a[i] ELSE b[i - Len(a)]
    BY <1>4, <1>5, ConcatProperties
  <1> HIDE DEF r, a, b
  <1>8. Len(r) = n - 1 /\ DOMAIN r = 1..(n - 1)
    BY <1>1, <1>6, <1>7
  <1>9. ASSUME NEW i \in 1..(n - 1) PROVE r[i] = s[IF i < k THEN i ELSE i + 1]
    <2>1. CASE i < k
      BY <1>1, <1>4, <1>6, <1>7, <2>1
    <2>2. CASE ~(i < k)
      <3>1. i - (k - 1) \in 1..(n - (k + 1) + 1)
        BY <1>1, <2>2
      <3>2. b[i - (k - 1)] = s[(k + 1) + (i - (k - 1)) - 1]
        BY <1>5, <3>1
      <3>3. (k + 1) + (i - (k - 1)) - 1 = i + 1
        BY <1>1
      <3> QED
        BY <1>1, <1>6, <1>7, <2>2, <3>2, <3>3
    <2> QED
      BY <1>1, <2>1, <2>2
  <1>10. IsInjective(r)
    <2> SUFFICES ASSUME NEW i \in 1..(n - 1), NEW j \in 1..(n - 1), r[i] = r[j] PROVE i = j
      BY <1>8 DEF IsInjective
    <2> DEFINE x == IF i < k THEN i ELSE i + 1
               y == IF j < k THEN j ELSE j + 1
    <2>1. x \in 1..n /\ y \in 1..n
      BY <1>1
    <2>2. s[x] = s[y]
      BY <1>9
    <2>3. x = y
      BY <1>1, <2>1, <2>2 DEF IsInjective
    <2> QED
      BY <1>1, <2>3
  <1>11. ~Contains(r, v)
    <2> SUFFICES ASSUME NEW i \in 1..(n - 1), r[i] = v PROVE FALSE
      BY <1>8 DEF Contains
    <2> DEFINE x == IF i < k THEN i ELSE i + 1
    <2>1. x \in 1..n /\ x # k
      BY <1>1
    <2> QED
      BY <1>1, <1>9, <2>1 DEF IsInjective
  <1> QED
    BY <1>1, <1>2, <1>7, <1>10, <1>11

LEMMA LeftOnes ==
  ASSUME TouchInv
  PROVE  /\ LeftPrompts \in Prompts /\ LeftOpens \in Opens
         /\ \A g \in 1..MaxPrompts : /\ LeftPrompts[g].path = prompts[g].path
                                     /\ LeftPrompts[g].out <=> prompts[g].out
  <1>1. prompts \in Prompts /\ opens \in Opens
    BY DEF TouchInv, TouchTyped
  <1>2. ASSUME NEW g \in 1..MaxPrompts
        PROVE  /\ LeftPrompts[g] \in [path : Paths, automatic : BOOLEAN, left : BOOLEAN, out : BOOLEAN]
               /\ LeftPrompts[g].path = prompts[g].path
               /\ LeftPrompts[g].out <=> prompts[g].out
    <2> DEFINE gone == prompts[g].left \/ prompts[g].out
    <2>1. gone \in BOOLEAN
      OBVIOUS
    <2>2. LeftPrompts[g] = [prompts[g] EXCEPT !.left = gone]
      BY DEF LeftPrompts
    <2> HIDE DEF gone
    <2> QED
      BY <1>1, <2>1, <2>2 DEF Prompts
  <1>3. ASSUME NEW n \in 1..MaxOpens
        PROVE  LeftOpens[n] \in [path : Paths, left : BOOLEAN, out : BOOLEAN]
    <2> DEFINE gone == opens[n].left \/ opens[n].out
    <2>1. gone \in BOOLEAN
      OBVIOUS
    <2>2. LeftOpens[n] = [opens[n] EXCEPT !.left = gone]
      BY DEF LeftOpens
    <2> HIDE DEF gone
    <2> QED
      BY <1>1, <2>1, <2>2 DEF Opens
  <1> QED
    BY <1>2, <1>3 DEF LeftPrompts, LeftOpens, Prompts, Opens

LEMMA PromptAnswered ==
  ASSUME TouchInv, NEW g \in 1..MaxPrompts
  PROVE  /\ Answered(g) \in Prompts /\ ~Answered(g)[g].out /\ ~Answered(g)[g].left
         /\ \A h \in 1..MaxPrompts : h # g => Answered(g)[h] = prompts[h]
  <1>1. NoPrompt \in [path : Paths, automatic : BOOLEAN, left : BOOLEAN, out : BOOLEAN]
        /\ ~NoPrompt.out /\ ~NoPrompt.left
    BY DEF NoPrompt, Paths
  <1> QED
    BY <1>1 DEF TouchInv, TouchTyped, Answered, Prompts

LEMMA ScreensAre ==
  ASSUME NEW at \in {"empty", "awaiting", "opening", "open"}, NEW path \in Paths
  PROVE  Screen(at, path) \in Screens /\ Screen(at, path).at = at /\ Screen(at, path).path = path
  BY DEF Screen, Screens

\* The user's steps.
LEMMA UsersSteps ==
  ASSUME TouchInv,
         \/ \E v \in Vaults : RequestPasswordFor(v) \/ SwitchTo(v)
         \/ CancelToParked \/ LockVaultNow \/ SubmitPassword \/ SubmitBiometricUnlock
         \/ WindowActivated \/ WindowLeft
  PROVE  TouchInv'
  <1> USE TouchIdConstants
  <1>0. /\ TouchTyped /\ Keeping(kept, shown) /\ Asking(shown, prompts, opens, attempts)
        /\ InFlight(shown, touch.attempt, prompts) /\ Vaults \subseteq Paths /\ NoVault \in Paths
        /\ Counting(shown, touch.attempt, prompts, shell, raised) /\ InterruptionIsNotMissed
    BY DEF TouchInv, Paths
  <1>t. /\ touch \in Touches /\ touch.attempt \in -1..touch.generation
        /\ 0 \in -1..touch.generation /\ 0 \in Nat
        /\ shell \in Flags /\ active \in BOOLEAN /\ prompts \in Prompts /\ raised \in Nat
    BY <1>0 DEF TouchTyped, Touches
  <1>1. ASSUME NEW v \in Vaults, RequestPasswordFor(v) PROVE TouchInv'
    <2> DEFINE scr == Screen("awaiting", v)
    <2>1. /\ shown # Screen("open", v) /\ ~IsKept(v) /\ kept' = Parked /\ opens' = LeftOpens
          /\ Settles(scr, 0, shell, active, LeftPrompts, 0) /\ attempts' = attempts
      BY <1>1 DEF RequestPasswordFor, IdleAttempt
    <2>2. scr \in Screens /\ scr.at = "awaiting" /\ scr.path = v
      BY <1>0, ScreensAre
    <2>3. Keeping(kept', scr)
      BY <2>1, <2>2, ParkedOne DEF Keeping, IsKept
    <2>4. Asking(scr, LeftPrompts, opens', attempts') /\ InFlight(scr, 0, LeftPrompts)
          /\ Counting(scr, 0, LeftPrompts, shell, 0)
      BY <1>0, <2>2, LeftOnes DEF Asking, InFlight, Counting
    <2> HIDE DEF scr
    <2> QED
      BY <1>0, <1>t, <2>1, <2>2, <2>3, <2>4, LeftOnes, Settling DEF TouchTyped, InterruptionIsNotMissed
  \* To a vault that is unlocked, whatever the attempt in flight.
  <1>2. ASSUME NEW v \in Vaults, Keeping(kept', Screen("open", v)), UNCHANGED <<opens, attempts>>,
               Settles(Screen("open", v), touch.attempt, shell, active, prompts, 0)
        PROVE  TouchInv'
    <2> DEFINE scr == Screen("open", v)
    <2>2. scr \in Screens /\ scr.at = "open" /\ scr.path = v
      BY <1>0, ScreensAre
    <2>4. Asking(scr, prompts, opens', attempts') /\ InFlight(scr, touch.attempt, prompts)
          /\ Counting(scr, touch.attempt, prompts, shell, 0)
      BY <1>0, <2>2 DEF Asking, InFlight, Counting
    <2>5. Keeping(kept', scr) /\ Settles(scr, touch.attempt, shell, active, prompts, 0)
          /\ opens' \in Opens /\ attempts' \in 0..MaxOpens
      BY <1>0, <1>2 DEF TouchTyped
    <2> HIDE DEF scr
    <2> QED
      BY <1>0, <1>t, <2>2, <2>4, <2>5, Settling DEF InterruptionIsNotMissed
  <1>3. ASSUME NEW v \in Vaults, SwitchTo(v) PROVE TouchInv'
    <2>1. /\ Contains(kept, v) /\ kept' = Without(Parked, v) /\ UNCHANGED <<opens, attempts>>
          /\ Settles(Screen("open", v), touch.attempt, shell, active, prompts, 0)
      BY <1>3 DEF SwitchTo, IsKept
    <2>2. Parked \in Seq(Vaults) /\ IsInjective(Parked) /\ Contains(Parked, v)
      BY <2>1, ParkedOne
    <2>3. kept' \in Seq(Vaults) /\ IsInjective(kept') /\ ~Contains(kept', v)
      BY <2>1, <2>2, OneRemoved
    <2>4. Keeping(kept', Screen("open", v))
      BY <1>0, <2>3, ScreensAre DEF Keeping
    <2> QED
      BY <1>2, <2>1, <2>4
  <1>4. ASSUME CancelToParked PROVE TouchInv'
    <2>1. /\ kept # <<>> /\ kept' = Front(kept) /\ UNCHANGED <<opens, attempts>>
          /\ Settles(Screen("open", Last(kept)), touch.attempt, shell, active, prompts, 0)
      BY <1>4 DEF CancelToParked
    <2>2. kept' \in Seq(Vaults) /\ IsInjective(kept') /\ ~Contains(kept', Last(kept))
          /\ Last(kept) \in Vaults
      BY <1>0, <2>1, FrontOfKept DEF Keeping
    <2>3. Keeping(kept', Screen("open", Last(kept)))
      BY <1>0, <2>2, ScreensAre DEF Keeping
    <2> QED
      BY <1>2, <2>1, <2>2, <2>3
  <1>5. ASSUME LockVaultNow PROVE TouchInv'
    <2> DEFINE scr == Screen("empty", NoVault)
    <2>1. /\ kept' = <<>> /\ opens' = LeftOpens /\ attempts' = attempts
          /\ Settles(scr, 0, shell, active, LeftPrompts, 0)
      BY <1>5 DEF LockVaultNow, AttemptCleared, IdleAttempt
    <2>2. scr \in Screens /\ scr.at = "empty"
      BY <1>0, ScreensAre
    <2>3. Keeping(kept', scr)
      <3>1. kept' \in Seq(Vaults) /\ DOMAIN kept' = 1..0
        BY <2>1
      <3> QED
        BY <2>2, <3>1 DEF Keeping, IsInjective
    <2>4. Asking(scr, LeftPrompts, opens', attempts') /\ InFlight(scr, 0, LeftPrompts)
          /\ Counting(scr, 0, LeftPrompts, shell, 0)
      BY <1>0, <2>2, LeftOnes DEF Asking, InFlight, Counting
    <2> HIDE DEF scr
    <2> QED
      BY <1>0, <1>t, <2>1, <2>2, <2>3, <2>4, LeftOnes, Settling DEF TouchTyped, InterruptionIsNotMissed
  <1>6. ASSUME SubmitPassword PROVE TouchInv'
    <2> DEFINE scr == Screen("opening", shown.path)
               open == [path |-> shown.path, left |-> FALSE, out |-> TRUE]
    <2>1. /\ shown.at = "awaiting" /\ attempts < MaxOpens /\ attempts' = attempts + 1
          /\ opens' = [opens EXCEPT ![attempts + 1] = open] /\ kept' = kept
          /\ Settles(scr, touch.attempt, shell, active, prompts, 0)
      BY <1>6 DEF SubmitPassword
    <2>2. scr \in Screens /\ scr.at = "opening" /\ scr.path = shown.path /\ shown.path \in Paths
      BY <1>0, ScreensAre DEF TouchTyped, Screens
    <2>3. open \in [path : Paths, left : BOOLEAN, out : BOOLEAN] /\ ~open.left
      BY <2>2
    <2> HIDE DEF scr, open
    <2>4. /\ opens' \in Opens /\ attempts' \in 0..MaxOpens /\ attempts' # 0
          /\ opens'[attempts'] = open
      BY <1>0, <2>1, <2>3 DEF TouchTyped, Opens
    <2>5. Keeping(kept', scr)
      BY <1>0, <2>1, <2>2 DEF Keeping
    <2>6. Asking(scr, prompts, opens', attempts') /\ InFlight(scr, touch.attempt, prompts)
          /\ Counting(scr, touch.attempt, prompts, shell, 0)
      BY <1>0, <2>2, <2>3, <2>4 DEF Asking, InFlight, Counting
    <2> QED
      BY <1>0, <1>t, <2>1, <2>2, <2>4, <2>5, <2>6, Settling DEF InterruptionIsNotMissed
  <1>7. ASSUME SubmitBiometricUnlock PROVE TouchInv'
    <2> DEFINE g == touch.generation + 1
               asking == [path |-> shown.path, automatic |-> FALSE, left |-> FALSE, out |-> TRUE]
    <2>1. /\ shown.at = "awaiting" /\ touch.generation < MaxPrompts /\ raised' = 0
          /\ touch' = [attempt |-> g, generation |-> g] /\ prompts' = [prompts EXCEPT ![g] = asking]
          /\ UNCHANGED <<shown, kept, opens, attempts, shell, active>>
      BY <1>7 DEF SubmitBiometricUnlock, Raise
    <2>2. /\ asking \in [path : Paths, automatic : BOOLEAN, left : BOOLEAN, out : BOOLEAN]
          /\ asking.path = shown.path /\ ~asking.left
      BY <1>0 DEF TouchTyped, Screens
    <2>3. g \in 1..MaxPrompts
      BY <1>t, <2>1 DEF Touches
    <2> HIDE DEF g, asking
    <2>4. touch' \in Touches /\ touch'.attempt = g
      BY <2>1, <2>3 DEF Touches
    <2>5. prompts' \in Prompts /\ prompts'[g] = asking
          /\ \A h \in 1..MaxPrompts : h # g => prompts'[h] = prompts[h]
      BY <1>t, <2>1, <2>2, <2>3 DEF Prompts
    <2>6. TouchTyped'
      BY <1>0, <2>1, <2>4, <2>5 DEF TouchTyped
    <2>7. Keeping(kept', shown') /\ InterruptionIsNotMissed'
      BY <1>0, <2>1 DEF InterruptionIsNotMissed
    <2>8. Asking(shown', prompts', opens', attempts') /\ InFlight(shown', touch'.attempt, prompts')
          /\ Counting(shown', touch'.attempt, prompts', shell', raised')
      BY <1>0, <2>1, <2>2, <2>3, <2>4, <2>5 DEF Asking, InFlight, Counting, Keeping
    <2> QED
      BY <2>6, <2>7, <2>8 DEF TouchInv
  <1>8. ASSUME WindowActivated PROVE TouchInv'
    <2> DEFINE flags == [shell EXCEPT !.rearmed = FALSE, !.interrupted = FALSE,
                                      !.attempted = IF shell.interrupted THEN NoVault ELSE @]
    <2>1. Settles(shown, touch.attempt, flags, TRUE, prompts, 0) /\ UNCHANGED <<kept, opens, attempts>>
      BY <1>8 DEF WindowActivated
    <2>2. flags \in Flags /\ ~flags.interrupted
      BY <1>0, <1>t DEF Flags
    <2> HIDE DEF flags
    <2>3. Counting(shown, touch.attempt, prompts, flags, 0)
      BY DEF Counting
    <2>4. /\ Keeping(kept', shown) /\ Asking(shown, prompts, opens', attempts') /\ opens' \in Opens
          /\ attempts' \in 0..MaxOpens /\ shown \in Screens /\ TRUE \in BOOLEAN
      BY <1>0, <2>1 DEF TouchTyped
    <2> QED
      BY <1>0, <1>t, <2>1, <2>2, <2>3, <2>4, Settling
  <1>9. ASSUME WindowLeft PROVE TouchInv'
    <2>1. active' = FALSE /\ UNCHANGED <<shown, kept, touch, prompts, opens, attempts, shell, raised>>
      BY <1>9 DEF WindowLeft
    <2>2. active' \in BOOLEAN /\ ~active'
      BY <2>1
    <2> QED
      BY <1>0, <2>1, <2>2 DEF TouchInv, TouchTyped, InterruptionIsNotMissed
  <1> QED
    BY <1>1, <1>3, <1>4, <1>5, <1>6, <1>7, <1>8, <1>9

\* A password open comes back.
LEMMA OpensEnd ==
  ASSUME TouchInv, NEW n \in 1..MaxOpens, PasswordOpenEnds(n)
  PROVE  TouchInv'
  <1> USE TouchIdConstants
  <1>0. /\ TouchTyped /\ Keeping(kept, shown) /\ Asking(shown, prompts, opens, attempts)
        /\ InFlight(shown, touch.attempt, prompts) /\ Vaults \subseteq Paths /\ NoVault \in Paths
        /\ Counting(shown, touch.attempt, prompts, shell, raised) /\ InterruptionIsNotMissed
    BY DEF TouchInv, Paths
  <1>t. /\ touch \in Touches /\ touch.attempt \in -1..touch.generation
        /\ 0 \in -1..touch.generation /\ 0 \in Nat
        /\ shell \in Flags /\ active \in BOOLEAN /\ prompts \in Prompts /\ raised \in Nat
    BY <1>0 DEF TouchTyped, Touches
  <1>1. /\ opens' = [opens EXCEPT ![n] = NoOpen] /\ UNCHANGED <<kept, attempts>>
        /\ \E at \in {"open", "awaiting"} :
             IF OpenAttemptIsCurrent(n)
               THEN Settles(Screen(at, opens[n].path), 0, shell, active, prompts, raised)
               ELSE UNCHANGED <<shown, touch, prompts, shell, active, raised>>
    BY DEF PasswordOpenEnds, IdleAttempt
  <1>2. NoOpen \in [path : Paths, left : BOOLEAN, out : BOOLEAN] /\ ~NoOpen.left
    BY DEF NoOpen, Paths
  <1>3. opens' \in Opens /\ \A m \in 1..MaxOpens : ~opens[m].left => ~opens'[m].left
    BY <1>0, <1>1, <1>2 DEF TouchTyped, Opens
  <1>4. CASE ~OpenAttemptIsCurrent(n)
    <2>1. UNCHANGED <<shown, touch, prompts, shell, active, raised>>
      BY <1>1, <1>4
    <2>2. Asking(shown', prompts', opens', attempts')
      BY <1>0, <1>1, <1>3, <2>1 DEF Asking, TouchTyped
    <2>3. TouchTyped'
      BY <1>0, <1>1, <1>3, <2>1 DEF TouchTyped
    <2> QED
      BY <1>0, <1>1, <2>1, <2>2, <2>3 DEF TouchInv, InterruptionIsNotMissed
  <1>5. CASE OpenAttemptIsCurrent(n)
    <2>1. n = attempts /\ shown = Screen("opening", opens[n].path) /\ opens[n].path \in Paths
      BY <1>0, <1>5 DEF OpenAttemptIsCurrent, TouchTyped, Opens
    <2>2. shown.at = "opening" /\ shown.path = opens[n].path /\ raised = 0
      BY <1>0, <2>1, ScreensAre DEF Counting
    <2>3. PICK at \in {"open", "awaiting"} :
            Settles(Screen(at, opens[n].path), 0, shell, active, prompts, raised)
      BY <1>1, <1>5
    <2> DEFINE scr == Screen(at, opens[n].path)
    <2>4. scr \in Screens /\ scr.at \in {"open", "awaiting"} /\ scr.path = shown.path
      BY <2>1, <2>2, ScreensAre
    <2>5. Settles(scr, 0, shell, active, prompts, raised)
      BY <2>3
    <2> HIDE DEF scr
    <2>6. Keeping(kept', scr)
      BY <1>0, <1>1, <2>2, <2>4 DEF Keeping
    <2>7. Asking(scr, prompts, opens', attempts') /\ InFlight(scr, 0, prompts)
          /\ Counting(scr, 0, prompts, shell, raised)
      BY <1>0, <2>2, <2>4 DEF Asking, InFlight, Counting
    <2>8. attempts' \in 0..MaxOpens
      BY <1>0, <1>1 DEF TouchTyped
    <2> QED
      BY <1>0, <1>t, <1>3, <2>4, <2>5, <2>6, <2>7, <2>8, Settling DEF InterruptionIsNotMissed
  <1> QED
    BY <1>4, <1>5

\* A prompt is satisfied, or fails.
LEMMA PromptsEnd ==
  ASSUME TouchInv, NEW g \in 1..MaxPrompts,
         PromptSatisfied(g) \/ \E w \in BOOLEAN : PromptFails(g, w)
  PROVE  TouchInv'
  <1> USE TouchIdConstants
  <1>0. /\ TouchTyped /\ Keeping(kept, shown) /\ Asking(shown, prompts, opens, attempts)
        /\ InFlight(shown, touch.attempt, prompts) /\ Vaults \subseteq Paths /\ NoVault \in Paths
        /\ Counting(shown, touch.attempt, prompts, shell, raised) /\ InterruptionIsNotMissed
    BY DEF TouchInv, Paths
  <1>t. /\ touch \in Touches /\ touch.attempt \in -1..touch.generation
        /\ 0 \in -1..touch.generation /\ 0 \in Nat
        /\ shell \in Flags /\ active \in BOOLEAN /\ prompts \in Prompts /\ raised \in Nat
        /\ shown \in Screens /\ opens \in Opens /\ attempts \in 0..MaxOpens
    BY <1>0 DEF TouchTyped, Touches
  <1>a. /\ Answered(g) \in Prompts /\ ~Answered(g)[g].out /\ ~Answered(g)[g].left
        /\ \A h \in 1..MaxPrompts : h # g => Answered(g)[h] = prompts[h]
    BY PromptAnswered
  <1>p. prompts[g].out => prompts[g].path \in Vaults
    BY <1>0 DEF Asking
  <1>q. touch.attempt > 0 => touch.attempt \in 1..MaxPrompts
    BY <1>t DEF Touches
  <1>i. shell.interrupted => ~active
    BY <1>0 DEF InterruptionIsNotMissed
  \* Nothing but the prompt, and the attempt perhaps cleared.
  <1>1. ASSUME prompts' = Answered(g), touch' = touch \/ touch' = [touch EXCEPT !.attempt = 0],
               UNCHANGED <<shown, kept, shell, active, raised, opens, attempts>>
        PROVE  TouchInv'
    <2>1. touch' \in Touches /\ touch'.attempt \in {0, touch.attempt}
      BY <1>t, <1>1 DEF Touches
    <2>2. TouchTyped'
      BY <1>0, <1>a, <1>1, <2>1 DEF TouchTyped
    <2>3. Keeping(kept', shown') /\ InterruptionIsNotMissed'
      BY <1>0, <1>1 DEF InterruptionIsNotMissed
    <2>4. Asking(shown', prompts', opens', attempts')
      BY <1>0, <1>a, <1>1 DEF Asking
    <2>5. InFlight(shown', touch'.attempt, prompts')
      BY <1>0, <1>a, <1>q, <1>1, <2>1 DEF InFlight
    <2>6. Counting(shown', touch'.attempt, prompts', shell', raised')
      BY <1>0, <1>a, <1>q, <1>1, <2>1 DEF Counting
    <2> QED
      BY <2>2, <2>3, <2>4, <2>5, <2>6 DEF TouchInv
  <1>2. CASE PromptSatisfied(g)
    <2>0. prompts[g].out /\ prompts[g].path \in Vaults /\ opens' = opens
      BY <1>p, <1>2 DEF PromptSatisfied
    <2>1. CASE ~Current(g)
      <3>1. /\ touch' = [touch EXCEPT !.attempt = 0] /\ prompts' = Answered(g)
            /\ UNCHANGED <<shown, kept, shell, active, raised, attempts>>
        BY <1>2, <2>1 DEF PromptSatisfied, IdleAttempt
      <3> QED
        BY <1>1, <2>0, <3>1
    <2>2. CASE Current(g) /\ shown = Screen("open", prompts[g].path)
      <3>0. ~IsKept(prompts[g].path)
        BY <1>0, <2>0, <2>2, ScreensAre DEF Keeping, IsKept
      <3>1. prompts' = Answered(g) /\ UNCHANGED <<shown, kept, touch, shell, active, raised, attempts>>
        BY <1>2, <2>2, <3>0 DEF PromptSatisfied
      <3> QED
        BY <1>1, <2>0, <3>1
    <2>3. CASE Current(g) /\ shown # Screen("open", prompts[g].path) /\ IsKept(prompts[g].path)
      <3> DEFINE v == prompts[g].path
                 scr == Screen("open", v)
      <3>1. /\ kept' = Without(Parked, v) /\ attempts' = attempts
            /\ Settles(scr, g, shell, active, Answered(g), raised)
        BY <1>2, <2>3 DEF PromptSatisfied
      <3>2. Parked \in Seq(Vaults) /\ IsInjective(Parked) /\ Contains(Parked, v)
        BY <2>3, ParkedOne DEF IsKept
      <3>3. kept' \in Seq(Vaults) /\ IsInjective(kept') /\ ~Contains(kept', v)
        BY <3>1, <3>2, OneRemoved
      <3>4. scr \in Screens /\ scr.at = "open" /\ scr.path = v
        BY <1>0, <2>0, ScreensAre
      <3>5. g \in -1..touch.generation
        BY <1>t, <2>3 DEF Current
      <3> HIDE DEF scr
      <3>6. Keeping(kept', scr)
        BY <2>0, <3>3, <3>4 DEF Keeping
      <3>7. /\ Asking(scr, Answered(g), opens', attempts') /\ InFlight(scr, g, Answered(g))
            /\ Counting(scr, g, Answered(g), shell, raised)
        BY <1>0, <1>a, <3>4 DEF Asking, InFlight, Counting
      <3> QED
        BY <1>t, <1>a, <1>i, <2>0, <3>1, <3>4, <3>5, <3>6, <3>7, Settling
    <2>4. CASE Current(g) /\ shown # Screen("open", prompts[g].path) /\ ~IsKept(prompts[g].path)
      <3> DEFINE v == prompts[g].path
      <3>1. /\ attempts < MaxOpens /\ attempts' = attempts + 1 /\ kept' = Parked
            /\ \E at \in {"open", "awaiting"} :
                 Settles(Screen(at, v), 0, shell, active, Answered(g), raised)
        BY <1>2, <2>4 DEF PromptSatisfied, IdleAttempt
      <3>2. PICK at \in {"open", "awaiting"} :
              Settles(Screen(at, v), 0, shell, active, Answered(g), raised)
        BY <3>1
      <3> DEFINE scr == Screen(at, v)
      <3>3. scr \in Screens /\ scr.at \in {"open", "awaiting"} /\ scr.path = v
        BY <1>0, <2>0, ScreensAre
      <3>4. Settles(scr, 0, shell, active, Answered(g), raised)
        BY <3>2
      <3> HIDE DEF scr
      <3>5. Keeping(kept', scr)
        BY <2>0, <2>4, <3>1, <3>3, ParkedOne DEF Keeping, IsKept
      <3>6. Asking(scr, Answered(g), opens', attempts') /\ InFlight(scr, 0, Answered(g))
        BY <1>0, <1>a, <3>3 DEF Asking, InFlight
      <3>7. Counting(scr, 0, Answered(g), shell, raised)
        <4>1. CASE shown.at = "awaiting"
          <5>1. shown.path = scr.path
            BY <1>0, <2>0, <2>4, <3>3, <4>1 DEF InFlight, Current
          <5> QED
            BY <1>0, <3>3, <4>1, <5>1 DEF Counting
        <4>2. CASE shown.at # "awaiting"
          <5>1. raised = 0
            BY <1>0, <1>t, <2>0, <2>4, <4>2 DEF Counting, Current
          <5> QED
            BY <3>3, <5>1 DEF Counting
        <4> QED
          BY <4>1, <4>2
      <3>8. attempts' \in 0..MaxOpens
        BY <1>t, <3>1
      <3> QED
        BY <1>t, <1>a, <1>i, <2>0, <3>3, <3>4, <3>5, <3>6, <3>7, <3>8, Settling
    <2> QED
      BY <2>1, <2>2, <2>3, <2>4
  <1>3. ASSUME NEW w \in BOOLEAN, PromptFails(g, w) PROVE TouchInv'
    <2>0. UNCHANGED <<kept, opens, attempts>>
      BY <1>3 DEF PromptFails
    <2>1. CASE ~Current(g)
      <3>1. prompts' = Answered(g) /\ UNCHANGED <<shown, touch, shell, active, raised>>
        BY <1>3, <2>1 DEF PromptFails
      <3> QED
        BY <1>1, <2>0, <3>1
    <2>2. CASE Current(g)
      <3> DEFINE here == shown = Screen("awaiting", prompts[g].path)
                 attempt == IF here /\ ~w THEN FailedAttempt ELSE IdleAttempt
                 flags == IF w /\ prompts[g].automatic THEN AfterInterruption ELSE shell
      <3>1. Settles(shown, attempt, flags, active, Answered(g), raised)
        BY <1>3, <2>2 DEF PromptFails
      <3>2. attempt \in -1..touch.generation /\ ~(attempt > 0)
        BY <1>t DEF IdleAttempt, FailedAttempt, Touches
      <3>3. /\ AfterInterruption \in Flags /\ (AfterInterruption.interrupted => ~active)
            /\ AfterInterruption = shell
               \/ (~active /\ AfterInterruption = [shell EXCEPT !.interrupted = TRUE])
               \/ (~shell.rearmed /\ AfterInterruption = [shell EXCEPT !.rearmed = TRUE,
                                                                   !.attempted = NoVault])
        <4>1. CASE ~active
          BY <1>t, <4>1 DEF AfterInterruption, Flags
        <4>2. CASE active /\ shell.rearmed
          BY <1>t, <1>i, <4>2 DEF AfterInterruption
        <4>3. CASE active /\ ~shell.rearmed
          BY <1>0, <1>t, <1>i, <4>3 DEF AfterInterruption, Flags
        <4> QED
          BY <4>1, <4>2, <4>3
      <3>4. /\ flags \in Flags /\ (flags.interrupted => ~active)
            /\ \/ flags.attempted = shell.attempted /\ (flags.rearmed <=> shell.rearmed)
               \/ flags.rearmed /\ ~shell.rearmed
        <4>1. CASE w /\ prompts[g].automatic
          BY <1>t, <3>3, <4>1 DEF Flags
        <4>2. CASE ~(w /\ prompts[g].automatic)
          BY <1>t, <1>i, <4>2
        <4> QED
          BY <4>1, <4>2
      <3> HIDE DEF attempt, flags, here
      <3>5. /\ Keeping(kept', shown) /\ Asking(shown, Answered(g), opens', attempts')
            /\ InFlight(shown, attempt, Answered(g))
        BY <1>0, <1>a, <2>0, <3>2 DEF Asking, InFlight
      <3>6. Counting(shown, attempt, Answered(g), flags, raised)
        BY <1>0, <1>t, <3>2, <3>4 DEF Counting
      <3> QED
        BY <1>t, <1>a, <2>0, <3>1, <3>2, <3>4, <3>5, <3>6, Settling
    <2> QED
      BY <2>1, <2>2
  <1> QED
    BY <1>2, <1>3

LEMMA TouchStep == TouchInv /\ [TouchNext]_touchVars => TouchInv'
  <1>1. TouchInv /\ UNCHANGED touchVars => TouchInv'
    BY DEF touchVars, TouchInv, TouchTyped, InterruptionIsNotMissed
  <1> QED
    BY <1>1, UsersSteps, OpensEnd, PromptsEnd DEF TouchNext

\* A prompt answers the screen it was raised for, and neither nags nor gives up.
LEMMA PromptsServe == TouchSpec => PromptsServeTheirScreen /\ []TouchTypeOK
  <1>1. TouchInit => TouchInv
    BY TouchInitial
  <1>2. TouchInv /\ [TouchNext]_touchVars => TouchInv'
    BY TouchStep
  <1>3. TouchInv => AutomaticPromptsEnd /\ InterruptionIsNotMissed
    BY DEF TouchInv, Counting, AutomaticPromptsEnd
  <1>4. TouchInv => TouchTypeOK
    BY DEF TouchInv, TouchTyped, Keeping, TouchTypeOK, Screens, Touches, Flags, Paths, IsKept
  <1> DEFINE Dropped ==
        /\ \A n \in 1..MaxOpens : PasswordOpenEnds(n) /\ opens[n].left => UNCHANGED <<shown, kept>>
        /\ \A g \in 1..MaxPrompts :
             PromptSatisfied(g) /\ prompts[g].left => UNCHANGED <<shown, kept>>
  <1>5. TouchInv => Dropped
    <2> SUFFICES ASSUME TouchInv PROVE Dropped
      OBVIOUS
    <2>1. ASSUME NEW n \in 1..MaxOpens, PasswordOpenEnds(n), opens[n].left
          PROVE  UNCHANGED <<shown, kept>>
      <3>1. Asking(shown, prompts, opens, attempts) /\ opens[n].path \in Paths
        BY DEF TouchInv, TouchTyped, Opens
      <3>2. Screen("opening", opens[n].path).at = "opening"
        BY DEF Screen
      <3>3. ~OpenAttemptIsCurrent(n)
        <4> SUFFICES ASSUME n = attempts, shown = Screen("opening", opens[n].path) PROVE FALSE
          BY DEF OpenAttemptIsCurrent
        <4> QED
          BY <2>1, <3>1, <3>2 DEF Asking
      <3> QED
        BY <2>1, <3>3 DEF PasswordOpenEnds
    <2>2. ASSUME NEW g \in 1..MaxPrompts, PromptSatisfied(g), prompts[g].left
          PROVE  UNCHANGED <<shown, kept>>
      <3>1. ~Current(g)
        BY <2>2 DEF TouchInv, InFlight, Current
      <3> QED
        BY <2>2, <3>1 DEF PromptSatisfied
    <2> QED
      BY <2>1, <2>2
  <1>6. TouchInv => [Dropped]_touchVars
    BY <1>5
  <1> QED
    BY <1>1, <1>2, <1>3, <1>4, <1>6, PTL DEF TouchSpec, PromptsServeTheirScreen, LeftAnswersAreDropped

-----------------------------------------------------------------------------
(* The updater.                                                            *)

UpdateSteps == {"off", "idle", "failed", "no signature", "available", "signature", "candidate",
                "install", "swept", "ready"} \union Installing
UpdateJobs == [at : UpdateSteps, runs : Published, goal : {"check", "install"},
               manifest : Published, seen : Published, attempt : 1..2, offer : Published,
               slot : {0} \union Slots]

DiskTyped ==
  /\ latest \in 1..MaxVersion /\ bundle \in Bundle
  /\ stage \in [Slots -> {"none", "fresh", "old"}]
  /\ holds \in [Slots -> Bundle]
  /\ marker \in [Slots -> {"none", "durable"}]
  /\ images \subseteq [bundle : Bundle, holds : [Slots -> Bundle]]

Whole(b) == b.v # 0 /\ b.settled
Confirmed == {"candidate", "install", "swept"} \union Installing

\* What an instance has of the release it installs, and of the releases it saw.
Planned(r, newest) ==
  /\ r.at \in Confirmed => r.manifest = r.offer
  /\ r.at \in Confirmed \union {"signature"} => r.manifest # 0
  /\ r.at = "signature" => r.seen + r.attempt - 1 <= r.manifest /\ r.manifest <= newest
  /\ r.at # "signature" => r.attempt = 1
  /\ r.at = "no signature" => newest >= r.seen + 2
  /\ r.offer # 0 => r.offer > r.runs

\* Its staging directory: fresh, with the marker once it is written, and what is in it.
Staged(r, dirs, markers, within) ==
  /\ r.at \in Installing =>
       /\ r.slot \in Slots /\ dirs[r.slot] = "fresh"
       /\ markers[r.slot] = IF r.at \in {"staging", "extracted", "flushed"} THEN "none" ELSE "durable"
  /\ r.at \in {"extracted", "flushed", "marked"} => within[r.slot].v = r.manifest
  /\ r.at \in {"flushed", "marked"} => within[r.slot].settled
  /\ r.at \in {"swapped", "roll back"} => Whole(within[r.slot])

JobsInv == \A i \in Instances : Planned(job[i], latest) /\ Staged(job[i], stage, marker, holds)

Apart ==
  \A i, j \in Instances : i # j /\ job[i].at \in Installing /\ job[j].at \in Installing =>
    job[i].slot # job[j].slot

\* Whatever a power loss leaves at the installed path is whole.
DiskInv ==
  /\ Whole(bundle) /\ \A im \in images : Whole(im.bundle)
  /\ \A s \in Slots : stage[s] = "none" => marker[s] = "none"

\* A marked directory keeps what a power loss could bring back, but for those whose exchange is
\* to come or was flushed: their instance removes them.
Keeps(s) ==
  /\ marker[s] = "durable"
  /\ \A i \in Instances : job[i].at \in {"marked", "replaced", "undone"} => job[i].slot # s

KeptInv ==
  \A im \in images :
    im.bundle.v = bundle.v \/ \E s \in Slots : Keeps(s) /\ holds[s].v = im.bundle.v

UpdateInv ==
  DiskTyped /\ job \in [Instances -> UpdateJobs] /\ JobsInv /\ Apart /\ DiskInv /\ KeptInv

LEMMA Versions ==
  /\ 0 \in Published /\ 1 \in Published /\ 2 \in Published /\ Published \subseteq Nat
  /\ \A n \in 1..MaxVersion : n \in Published /\ n # 0
  BY AppUpdateConstants DEF Published

LEMMA OffIsAJob ==
  ASSUME NEW step \in UpdateSteps, NEW version \in Published
  PROVE  /\ Off \in UpdateJobs /\ Off.at = "off" /\ Off.offer = 0 /\ Off.attempt = 1
         /\ [Off EXCEPT !.at = step, !.runs = version] \in UpdateJobs
  <1>1. "off" \in UpdateSteps
    BY DEF UpdateSteps
  <1>2. Off \in UpdateJobs
    BY <1>1, Versions DEF Off, UpdateJobs
  <1>3. [Off EXCEPT !.at = step, !.runs = version] \in UpdateJobs
    BY <1>2 DEF UpdateJobs
  <1>4. Off.at = "off" /\ Off.offer = 0 /\ Off.attempt = 1
    BY DEF Off
  <1> QED
    BY <1>2, <1>3, <1>4

LEMMA OffInstallsNothing ==
  /\ Planned(Off, latest) /\ Staged(Off, stage, marker, holds) /\ Off.at = "off"
  /\ "off" \notin Installing /\ "off" \notin Confirmed
  BY DEF Planned, Staged, Off, Confirmed, Installing

LEMMA UpdateInitial == UpdateInit => UpdateInv
  <1> SUFFICES ASSUME UpdateInit PROVE UpdateInv
    OBVIOUS
  <1> USE AppUpdateConstants
  <1> DEFINE first == [v |-> 1, settled |-> TRUE]
  <1>1. first \in Bundle /\ Broken \in Bundle /\ Whole(first) /\ bundle = first
    BY DEF Bundle, Broken, Published, Whole, UpdateInit
  <1> HIDE DEF first
  <1>2. stage = [s \in Slots |-> "none"] /\ holds = [s \in Slots |-> Broken]
        /\ marker = [s \in Slots |-> "none"] /\ images = {[bundle |-> bundle, holds |-> holds]}
        /\ latest = 2 /\ job = [i \in Instances |-> Off]
    BY DEF UpdateInit
  <1>3. DiskTyped
    BY <1>1, <1>2 DEF DiskTyped
  <1>4. DiskInv
    BY <1>1, <1>2 DEF DiskInv
  <1>5. KeptInv
    BY <1>2 DEF KeptInv
  <1>6. job \in [Instances -> UpdateJobs] /\ \A i \in Instances : job[i] = Off
    <2>1. "off" \in UpdateSteps /\ 0 \in Published
      BY DEF UpdateSteps, Published
    <2> QED
      BY <1>2, <2>1, OffIsAJob
  <1>7. JobsInv /\ Apart
    BY <1>6, OffInstallsNothing DEF JobsInv, Apart
  <1> QED
    BY <1>3, <1>4, <1>5, <1>6, <1>7 DEF UpdateInv

LEMMA JobChanges ==
  ASSUME job \in [Instances -> UpdateJobs], NEW i \in Instances, NEW r \in UpdateJobs, Then(i, r)
  PROVE  /\ job' \in [Instances -> UpdateJobs] /\ job'[i] = r
         /\ \A j \in Instances : j # i => job'[j] = job[j]
  BY DEF Then

\* A step of one instance, from what it does to itself, to the disk and to the others' directories.
LEMMA OneInstance ==
  ASSUME UpdateInv, NEW i \in Instances, NEW r \in UpdateJobs, Then(i, r), latest' = latest,
         DiskTyped', DiskInv', KeptInv', Planned(r, latest), Staged(r, stage', marker', holds'),
         \A j \in Instances : j # i /\ job[j].at \in Installing =>
           /\ stage'[job[j].slot] = stage[job[j].slot] /\ marker'[job[j].slot] = marker[job[j].slot]
           /\ holds'[job[j].slot] = holds[job[j].slot]
           /\ r.at \in Installing => job[j].slot # r.slot
  PROVE  UpdateInv'
  <1>1. /\ job' \in [Instances -> UpdateJobs] /\ job'[i] = r
        /\ \A j \in Instances : j # i => job'[j] = job[j]
    BY JobChanges DEF UpdateInv
  <1>2. ASSUME NEW j \in Instances
        PROVE  Planned(job'[j], latest') /\ Staged(job'[j], stage', marker', holds')
    <2>1. CASE j = i
      BY <1>1, <2>1
    <2>2. CASE j # i
      <3>1. job'[j] = job[j] /\ Planned(job[j], latest) /\ Staged(job[j], stage, marker, holds)
        BY <1>1, <2>2 DEF UpdateInv, JobsInv
      <3>2. Staged(job[j], stage', marker', holds')
        <4>1. CASE job[j].at \in Installing
          BY <2>2, <3>1, <4>1 DEF Staged
        <4>2. CASE job[j].at \notin Installing
          BY <4>2 DEF Staged, Installing
        <4> QED
          BY <4>1, <4>2
      <3> QED
        BY <3>1, <3>2
    <2> QED
      BY <2>1, <2>2
  <1>3. JobsInv'
    BY <1>2 DEF JobsInv
  <1>4. Apart'
    BY <1>1 DEF UpdateInv, Apart
  <1> QED
    BY <1>1, <1>3, <1>4 DEF UpdateInv

\* A step of one instance that leaves the disk, and stages nothing.
LEMMA JobOnly ==
  ASSUME UpdateInv, NEW i \in Instances, NEW r \in UpdateJobs, Then(i, r),
         UNCHANGED <<latest, bundle, stage, holds, marker, images>>,
         r.at \notin Installing, Planned(r, latest)
  PROVE  UpdateInv'
  <1>1. DiskTyped' /\ DiskInv'
    BY DEF UpdateInv, DiskTyped, DiskInv
  <1>2. ASSUME NEW s \in Slots, Keeps(s) PROVE Keeps(s)'
    <2>1. /\ job'[i] = r /\ \A j \in Instances : j # i => job'[j] = job[j]
      BY JobChanges DEF UpdateInv
    <2> QED
      BY <1>2, <2>1 DEF Keeps, Installing
  <1>3. KeptInv'
    BY <1>2 DEF UpdateInv, KeptInv
  <1>4. Staged(r, stage', marker', holds')
    BY DEF Staged, Installing
  <1> QED
    BY <1>1, <1>3, <1>4, OneInstance

LEMMA Removal ==
  ASSUME DiskTyped, NEW gone \in SUBSET Slots, RemoveDirs(gone)
  PROVE  /\ stage' \in [Slots -> {"none", "fresh", "old"}] /\ holds' \in [Slots -> Bundle]
         /\ marker' \in [Slots -> {"none", "durable"}]
         /\ images' \subseteq [bundle : Bundle, holds : [Slots -> Bundle]]
         /\ \A s \in Slots \ gone : /\ stage'[s] = stage[s] /\ holds'[s] = holds[s]
                                    /\ marker'[s] = marker[s]
         /\ \A s \in gone : stage'[s] = "none" /\ marker'[s] = "none"
         /\ \A im \in images' : \E was \in images : im.bundle = was.bundle
  <1>1. Broken \in Bundle
    BY AppUpdateConstants DEF Broken, Bundle, Published
  <1>2. /\ stage' \in [Slots -> {"none", "fresh", "old"}] /\ holds' \in [Slots -> Bundle]
        /\ marker' \in [Slots -> {"none", "durable"}]
    BY <1>1 DEF RemoveDirs, DiskTyped
  <1>3. /\ \A s \in Slots \ gone : /\ stage'[s] = stage[s] /\ holds'[s] = holds[s]
                                   /\ marker'[s] = marker[s]
        /\ \A s \in gone : stage'[s] = "none" /\ marker'[s] = "none"
    BY DEF RemoveDirs
  <1>4. ASSUME NEW im \in images'
        PROVE  im \in [bundle : Bundle, holds : [Slots -> Bundle]]
               /\ \E was \in images : im.bundle = was.bundle
    <2>1. PICK was \in images :
            im = [was EXCEPT !.holds = [s \in Slots |-> IF s \in gone THEN Broken ELSE was.holds[s]]]
      BY <1>4 DEF RemoveDirs, DiskTyped
    <2>2. was \in [bundle : Bundle, holds : [Slots -> Bundle]]
      BY DEF DiskTyped
    <2> DEFINE cleared == [s \in Slots |-> IF s \in gone THEN Broken ELSE was.holds[s]]
    <2>3. cleared \in [Slots -> Bundle]
      BY <1>1, <2>2
    <2>4. im = [was EXCEPT !.holds = cleared]
      BY <2>1
    <2> HIDE DEF cleared
    <2> QED
      BY <2>2, <2>3, <2>4
  <1> QED
    BY <1>2, <1>3, <1>4

LEMMA Putting ==
  ASSUME DiskTyped, NEW s \in Slots, NEW b \in Bundle, Puts(s, b)
  PROVE  /\ holds' \in [Slots -> Bundle] /\ holds'[s] = b
         /\ \A t \in Slots : t # s => holds'[t] = holds[t]
         /\ images' \subseteq [bundle : Bundle, holds : [Slots -> Bundle]]
         /\ \A im \in images' : \E was \in images : im.bundle = was.bundle
  <1>1. /\ holds' \in [Slots -> Bundle] /\ holds'[s] = b
        /\ \A t \in Slots : t # s => holds'[t] = holds[t]
    BY DEF Puts, DiskTyped
  <1>2. ASSUME NEW im \in images'
        PROVE  im \in [bundle : Bundle, holds : [Slots -> Bundle]]
               /\ \E was \in images : im.bundle = was.bundle
    <2>1. PICK was \in images : im = [was EXCEPT !.holds = [was.holds EXCEPT ![s] = b]]
      BY <1>2 DEF Puts
    <2>2. was \in [bundle : Bundle, holds : [Slots -> Bundle]]
      BY DEF DiskTyped
    <2> DEFINE filled == [was.holds EXCEPT ![s] = b]
    <2>3. filled \in [Slots -> Bundle]
      BY <2>2
    <2>4. im = [was EXCEPT !.holds = filled]
      BY <2>1
    <2> HIDE DEF filled
    <2> QED
      BY <2>2, <2>3, <2>4
  <1> QED
    BY <1>1, <1>2

\* An instance gives up, or is done, or is told.
LEMMA InstanceEnds ==
  ASSUME UpdateInv, NEW i \in Instances, NEW step \in {"idle", "failed", "ready"}
  PROVE  \E r \in UpdateJobs : /\ r = [Off EXCEPT !.at = step, !.runs = job[i].runs]
                               /\ r.at \notin Installing /\ Planned(r, latest)
                               /\ Staged(r, stage', marker', holds')
  <1>1. job[i].runs \in Published /\ step \in UpdateSteps
    BY DEF UpdateInv, UpdateJobs, UpdateSteps
  <1> DEFINE r == [Off EXCEPT !.at = step, !.runs = job[i].runs]
  <1>2. r \in UpdateJobs
    BY <1>1, OffIsAJob
  <1>3. r.at = step /\ r.offer = 0 /\ r.attempt = 1
    BY DEF Off
  <1> HIDE DEF r
  <1>4. r.at \notin Installing /\ Planned(r, latest) /\ Staged(r, stage', marker', holds')
    BY <1>3 DEF Planned, Staged, Installing, Confirmed
  <1> QED
    BY <1>2, <1>4 DEF r

\* The check and the installation, as far as the network goes.
LEMMA LooksForReleases ==
  ASSUME UpdateInv, NEW i \in Instances,
         Launch(i) \/ StartUpdateCheck(i) \/ InstallUpdate(i) \/ GetSignature(i)
         \/ DownloadBundle(i) \/ Kill(i)
  PROVE  UpdateInv'
  <1> USE AppUpdateConstants
  <1>0. /\ UNCHANGED <<latest, bundle, stage, holds, marker, images>>
        /\ job[i] \in UpdateJobs /\ Planned(job[i], latest)
        /\ latest \in Published /\ latest # 0 /\ bundle.v \in Published
    <2>1. UNCHANGED <<latest, bundle, stage, holds, marker, images>>
      BY DEF Launch, StartUpdateCheck, InstallUpdate, GetSignature, DownloadBundle, Kill
    <2>2. job[i] \in UpdateJobs /\ Planned(job[i], latest)
      BY DEF UpdateInv, JobsInv
    <2>3. latest \in Published /\ latest # 0 /\ bundle.v \in Published
      BY Versions DEF UpdateInv, DiskTyped, Bundle
    <2> QED
      BY <2>1, <2>2, <2>3
  <1> DEFINE j == job[i]
  <1>t. /\ j.runs \in Nat /\ j.manifest \in Nat /\ j.seen \in Nat /\ j.attempt \in 1..2
        /\ j.offer \in Nat /\ latest \in Nat
    BY <1>0 DEF UpdateJobs, Published
  <1> HIDE DEF j
  <1>e. ASSUME NEW step \in {"idle", "failed"}, Ends(i, step) PROVE UpdateInv'
    <2>1. PICK r \in UpdateJobs : /\ r = [Off EXCEPT !.at = step, !.runs = job[i].runs]
                                  /\ r.at \notin Installing /\ Planned(r, latest)
      BY InstanceEnds
    <2>2. Then(i, r)
      BY <1>e, <2>1 DEF Ends
    <2> QED
      BY <1>0, <2>1, <2>2, JobOnly
  <1>1. ASSUME NEW goal \in {"check", "install"}, j.at # "signature",
               Fetching(i, goal)
        PROVE  UpdateInv'
    <2> DEFINE r == [j EXCEPT !.at = "signature", !.goal = goal, !.manifest = latest, !.seen = latest]
    <2>1. Then(i, r)
      BY <1>1 DEF Fetching, j
    <2>2. r \in UpdateJobs
      BY <1>0 DEF UpdateJobs, UpdateSteps, j
    <2>3. /\ r.at = "signature" /\ r.manifest = latest /\ r.seen = latest /\ r.attempt = j.attempt
          /\ r.offer = j.offer /\ r.runs = j.runs
      BY <1>0 DEF UpdateJobs, j
    <2> HIDE DEF r
    <2>4. j.attempt = 1 /\ (j.offer # 0 => j.offer > j.runs)
      BY <1>0, <1>1 DEF Planned, j
    <2>a. r.seen + r.attempt - 1 <= r.manifest /\ r.manifest <= latest /\ r.manifest # 0
      BY <1>0, <1>t, <2>3, <2>4
    <2>5. Planned(r, latest) /\ r.at \notin Installing
      BY <2>3, <2>4, <2>a DEF Planned, Confirmed, Installing
    <2> QED
      BY <1>0, <2>1, <2>2, <2>5, JobOnly
  <1>2. CASE Launch(i)
    <2> DEFINE r == [Off EXCEPT !.at = "idle", !.runs = bundle.v]
    <2>1. Then(i, r)
      BY <1>2 DEF Launch
    <2>2. r \in UpdateJobs
      BY <1>0, OffIsAJob DEF UpdateSteps
    <2>3. r.at = "idle" /\ r.offer = 0 /\ r.attempt = 1
      BY DEF Off
    <2> HIDE DEF r
    <2>4. Planned(r, latest) /\ r.at \notin Installing
      BY <2>3 DEF Planned, Confirmed, Installing
    <2> QED
      BY <1>0, <2>1, <2>2, <2>4, JobOnly
  <1>3. CASE StartUpdateCheck(i)
    BY <1>1, <1>3 DEF StartUpdateCheck, j
  <1>4. CASE InstallUpdate(i)
    BY <1>1, <1>4 DEF InstallUpdate, Doing, j
  <1>5. CASE GetSignature(i)
    <2>0. j.at = "signature" /\ j.seen + j.attempt - 1 <= j.manifest /\ j.manifest <= latest
          /\ j.manifest # 0 /\ (j.offer # 0 => j.offer > j.runs)
      BY <1>0, <1>5 DEF GetSignature, Doing, Planned, j
    <2>1. CASE latest # j.manifest /\ j.attempt < 2
      <3> DEFINE r == [j EXCEPT !.manifest = latest, !.attempt = j.attempt + 1]
      <3>1. Then(i, r)
        BY <1>5, <2>1 DEF GetSignature, MayTryAgain, j
      <3>2. r \in UpdateJobs
        <4>1. j.attempt + 1 \in 1..2
          BY <1>t, <2>1
        <4> QED
          BY <1>0, <4>1 DEF UpdateJobs, j
      <3>3. /\ r.at = "signature" /\ r.manifest = latest /\ r.seen = j.seen
            /\ r.attempt = j.attempt + 1 /\ r.offer = j.offer /\ r.runs = j.runs
        BY <1>0, <2>0 DEF UpdateJobs, j
      <3> HIDE DEF r
      <3>a. r.seen + r.attempt - 1 <= r.manifest /\ r.manifest <= latest /\ r.manifest # 0
        BY <1>0, <1>t, <2>0, <2>1, <3>3
      <3>4. Planned(r, latest) /\ r.at \notin Installing
        BY <2>0, <3>3, <3>a DEF Planned, Confirmed, Installing
      <3> QED
        BY <1>0, <3>1, <3>2, <3>4, JobOnly
    <2>2. CASE latest # j.manifest /\ ~(j.attempt < 2)
      <3> DEFINE r == [Off EXCEPT !.at = "no signature", !.runs = j.runs, !.seen = j.seen]
      <3>1. Then(i, r)
        BY <1>5, <2>2 DEF GetSignature, MayTryAgain, j
      <3>2. r \in UpdateJobs
        BY <1>0, OffIsAJob DEF UpdateJobs, UpdateSteps, j
      <3>3. r.at = "no signature" /\ r.seen = j.seen /\ r.attempt = 1 /\ r.offer = 0
        BY DEF Off
      <3> HIDE DEF r
      <3>4. latest >= j.seen + 2
        BY <1>t, <2>0, <2>2
      <3>5. Planned(r, latest) /\ r.at \notin Installing
        BY <3>3, <3>4 DEF Planned, Confirmed, Installing
      <3> QED
        BY <1>0, <3>1, <3>2, <3>5, JobOnly
    <2>3. CASE latest = j.manifest /\ j.goal = "check"
      <3>1. CASE j.manifest > j.runs
        <4> DEFINE r == [Off EXCEPT !.at = "available", !.runs = j.runs, !.offer = latest]
        <4>1. Then(i, r)
          BY <1>5, <2>3, <3>1 DEF GetSignature, Newer, j
        <4>2. r \in UpdateJobs
          BY <1>0, OffIsAJob DEF UpdateJobs, UpdateSteps, j
        <4>3. r.at = "available" /\ r.runs = j.runs /\ r.attempt = 1 /\ r.offer = latest
          BY DEF Off
        <4> HIDE DEF r
        <4>4. Planned(r, latest) /\ r.at \notin Installing
          BY <1>t, <2>3, <3>1, <4>3 DEF Planned, Confirmed, Installing
        <4> QED
          BY <1>0, <4>1, <4>2, <4>4, JobOnly
      <3>2. CASE ~(j.manifest > j.runs)
        BY <1>5, <1>e, <2>3, <3>2 DEF GetSignature, Newer, j
      <3> QED
        BY <3>1, <3>2
    <2>4. CASE latest = j.manifest /\ j.goal # "check"
      <3>1. CASE j.manifest = j.offer
        <4> DEFINE r == [j EXCEPT !.at = "candidate", !.seen = 0, !.attempt = 1]
        <4>1. Then(i, r)
          BY <1>5, <2>4, <3>1 DEF GetSignature, ExpectedCandidate, j
        <4>a. 0 \in Published /\ 1 \in 1..2 /\ "candidate" \in UpdateSteps
          BY Versions DEF UpdateSteps
        <4>2. r \in UpdateJobs
          BY <1>0, <4>a DEF UpdateJobs, j
        <4>3. /\ r.at = "candidate" /\ r.manifest = j.manifest /\ r.attempt = 1
              /\ r.offer = j.offer /\ r.runs = j.runs
          BY <1>0 DEF UpdateJobs, j
        <4> HIDE DEF r
        <4>4. Planned(r, latest) /\ r.at \notin Installing
          BY <2>0, <3>1, <4>3 DEF Planned, Confirmed, Installing
        <4> QED
          BY <1>0, <4>1, <4>2, <4>4, JobOnly
      <3>2. CASE j.manifest # j.offer
        BY <1>5, <1>e, <2>4, <3>2 DEF GetSignature, ExpectedCandidate, j
      <3> QED
        BY <3>1, <3>2
    <2> QED
      BY <2>1, <2>2, <2>3, <2>4
  <1>6. CASE DownloadBundle(i)
    <2>1. CASE latest = j.manifest
      <3> DEFINE r == [j EXCEPT !.at = "install"]
      <3>1. Then(i, r) /\ j.at = "candidate"
        BY <1>6, <2>1 DEF DownloadBundle, Goes, Doing, j
      <3>2. r \in UpdateJobs
        BY <1>0 DEF UpdateJobs, UpdateSteps, j
      <3>3. /\ r.at = "install" /\ r.manifest = j.manifest /\ r.attempt = j.attempt
            /\ r.offer = j.offer /\ r.runs = j.runs
        BY <1>0 DEF UpdateJobs, j
      <3> HIDE DEF r
      <3>4. Planned(r, latest) /\ r.at \notin Installing
        BY <1>0, <3>1, <3>3 DEF Planned, Confirmed, Installing, j
      <3> QED
        BY <1>0, <3>1, <3>2, <3>4, JobOnly
    <2>2. CASE latest # j.manifest
      BY <1>6, <1>e, <2>2 DEF DownloadBundle, j
    <2> QED
      BY <2>1, <2>2
  <1>7. CASE Kill(i)
    <2>1. Then(i, Off) /\ Off \in UpdateJobs /\ Off.at \notin Installing /\ Planned(Off, latest)
      BY <1>0, <1>7, OffIsAJob, OffInstallsNothing DEF Kill, UpdateSteps
    <2> QED
      BY <1>0, <2>1, JobOnly
  <1> QED
    BY <1>2, <1>3, <1>4, <1>5, <1>6, <1>7

\* An installation goes on to another step.
LEMMA GoingOn ==
  ASSUME UpdateInv, NEW i \in Instances, NEW step \in Confirmed, job[i].at \in Confirmed,
         Goes(i, step)
  PROVE  \E r \in UpdateJobs : /\ Then(i, r) /\ r.at = step /\ r.slot = job[i].slot
                               /\ r.manifest = job[i].manifest /\ Planned(r, latest)
  <1> DEFINE r == [job[i] EXCEPT !.at = step]
  <1>1. job[i] \in UpdateJobs /\ Planned(job[i], latest) /\ step \in UpdateSteps
    BY DEF UpdateInv, JobsInv, UpdateSteps, Confirmed
  <1>2. Then(i, r) /\ r \in UpdateJobs
    BY <1>1 DEF Goes, UpdateJobs
  <1>3. /\ r.at = step /\ r.slot = job[i].slot /\ r.manifest = job[i].manifest
        /\ r.offer = job[i].offer /\ r.runs = job[i].runs /\ r.attempt = job[i].attempt
    BY <1>1 DEF UpdateJobs
  <1> HIDE DEF r
  <1>4. Planned(r, latest)
    BY <1>1, <1>3 DEF Planned, Confirmed, Installing
  <1> QED
    BY <1>2, <1>3, <1>4

\* What is kept stays kept while its directories are left alone.
LEMMA StillKept ==
  ASSUME KeptInv, bundle'.v = bundle.v,
         \A im \in images' : \E was \in images : im.bundle = was.bundle,
         \A s \in Slots : Keeps(s) => Keeps(s)' /\ holds'[s].v = holds[s].v
  PROVE  KeptInv'
  <1> SUFFICES ASSUME NEW im \in images'
               PROVE  im.bundle.v = bundle'.v
                      \/ \E s \in Slots : Keeps(s)' /\ holds'[s].v = im.bundle.v
    BY DEF KeptInv
  <1>1. PICK was \in images : im.bundle = was.bundle
    OBVIOUS
  <1> QED
    BY <1>1 DEF KeptInv

\* A directory is removed by the instance it belongs to, or swept.
LEMMA Removes ==
  ASSUME UpdateInv, NEW i \in Instances, NEW r \in UpdateJobs, Then(i, r), r.at \notin Installing,
         Planned(r, latest), NEW gone \in SUBSET Slots, RemoveDirs(gone),
         UNCHANGED <<latest, bundle>>,
         \A s \in gone : ~Keeps(s),
         \A j \in Instances : j # i /\ job[j].at \in Installing => job[j].slot \notin gone
  PROVE  UpdateInv'
  <1>0. DiskTyped /\ DiskInv /\ KeptInv /\ JobsInv /\ job \in [Instances -> UpdateJobs]
    BY DEF UpdateInv
  <1>1. /\ stage' \in [Slots -> {"none", "fresh", "old"}] /\ holds' \in [Slots -> Bundle]
        /\ marker' \in [Slots -> {"none", "durable"}]
        /\ images' \subseteq [bundle : Bundle, holds : [Slots -> Bundle]]
        /\ \A s \in Slots \ gone : /\ stage'[s] = stage[s] /\ holds'[s] = holds[s]
                                   /\ marker'[s] = marker[s]
        /\ \A s \in gone : stage'[s] = "none" /\ marker'[s] = "none"
        /\ \A im \in images' : \E was \in images : im.bundle = was.bundle
    BY <1>0, Removal
  <1>2. DiskTyped'
    BY <1>0, <1>1 DEF DiskTyped
  <1>3. DiskInv'
    BY <1>0, <1>1 DEF DiskInv
  <1>4. /\ job'[i] = r /\ \A j \in Instances : j # i => job'[j] = job[j]
    BY <1>0, JobChanges
  <1>5. \A s \in Slots : Keeps(s) => Keeps(s)' /\ holds'[s].v = holds[s].v
    BY <1>1, <1>4 DEF Keeps, Installing
  <1>6. KeptInv'
    BY <1>0, <1>1, <1>5, StillKept
  <1>7. Staged(r, stage', marker', holds')
    BY DEF Staged, Installing
  <1>8. ASSUME NEW j \in Instances, j # i, job[j].at \in Installing
        PROVE  job[j].slot \in Slots \ gone
    BY <1>0, <1>8 DEF JobsInv, Staged
  <1> QED
    BY <1>1, <1>2, <1>3, <1>6, <1>7, <1>8, OneInstance

LEMMA Sweeping ==
  ASSUME UpdateInv, NEW i \in Instances,
         SweepStaleStaging(i) \/ PrepareFails(i) \/ RemoveStaging(i)
  PROVE  UpdateInv'
  <1>0. JobsInv /\ Apart /\ UNCHANGED <<latest, bundle>> /\ Staged(job[i], stage, marker, holds)
    BY DEF UpdateInv, JobsInv, SweepStaleStaging, PrepareFails, RemoveStaging
  <1>1. CASE SweepStaleStaging(i)
    <2> DEFINE gone == IF bundle.v # 0 THEN {s \in Slots : Sweepable(s)} ELSE {}
    <2>1. RemoveDirs(gone) /\ Goes(i, "swept") /\ job[i].at = "install"
      BY <1>1 DEF SweepStaleStaging, Doing
    <2>2. gone \in SUBSET Slots /\ \A s \in gone : stage[s] = "old" /\ marker[s] = "none"
      BY DEF Sweepable
    <2> HIDE DEF gone
    <2>3. PICK r \in UpdateJobs : Then(i, r) /\ r.at = "swept" /\ Planned(r, latest)
      BY <2>1, GoingOn DEF Confirmed
    <2>4. \A s \in gone : ~Keeps(s)
      BY <2>2 DEF Keeps
    <2>5. \A j \in Instances : job[j].at \in Installing => job[j].slot \notin gone
      BY <1>0, <2>2 DEF JobsInv, Staged
    <2>6. r.at \notin Installing
      BY <2>3 DEF Installing
    <2> QED
      BY <1>0, <2>1, <2>2, <2>3, <2>4, <2>5, <2>6, Removes
  <1>2. ASSUME NEW step \in {"failed", "ready"}, Ends(i, step), RemoveDirs({job[i].slot}),
               job[i].at \in Installing, ~Keeps(job[i].slot)
        PROVE  UpdateInv'
    <2>1. PICK r \in UpdateJobs : /\ r = [Off EXCEPT !.at = step, !.runs = job[i].runs]
                                  /\ r.at \notin Installing /\ Planned(r, latest)
      BY InstanceEnds
    <2>2. Then(i, r)
      BY <1>2, <2>1 DEF Ends
    <2> DEFINE gone == {job[i].slot}
    <2>3. gone \in SUBSET Slots /\ RemoveDirs(gone) /\ \A s \in gone : ~Keeps(s)
      BY <1>0, <1>2 DEF Staged
    <2>4. \A j \in Instances : j # i /\ job[j].at \in Installing => job[j].slot \notin gone
      BY <1>0, <1>2 DEF Apart
    <2> HIDE DEF gone
    <2> QED
      BY <1>0, <2>1, <2>2, <2>3, <2>4, Removes
  <1>3. CASE PrepareFails(i)
    <2>1. /\ job[i].at \in {"staging", "extracted", "flushed", "marked"}
          /\ RemoveDirs({job[i].slot}) /\ Ends(i, "failed")
      BY <1>3 DEF PrepareFails
    <2>2. job[i].at \in Installing /\ ~Keeps(job[i].slot)
      BY <1>0, <2>1 DEF Staged, Installing, Keeps
    <2> QED
      BY <1>2, <2>1, <2>2
  <1>4. CASE RemoveStaging(i)
    <2>1. job[i].at \in {"replaced", "undone"} /\ RemoveDirs({job[i].slot})
      BY <1>4 DEF RemoveStaging
    <2>2. Ends(i, "ready") \/ Ends(i, "failed")
      BY <1>4 DEF RemoveStaging
    <2>3. job[i].at \in Installing /\ ~Keeps(job[i].slot)
      BY <2>1 DEF Installing, Keeps
    <2> QED
      BY <1>2, <2>1, <2>2, <2>3
  <1> QED
    BY <1>1, <1>3, <1>4

\* The staging directory: made, filled, flushed and marked.
LEMMA StagingGrows ==
  ASSUME UpdateInv, NEW i \in Instances,
         CreateStaging(i) \/ ExtractBundle(i) \/ SyncTree(i) \/ WriteKeepMarker(i)
  PROVE  UpdateInv'
  <1>0. /\ DiskTyped /\ DiskInv /\ KeptInv /\ JobsInv /\ Apart /\ job \in [Instances -> UpdateJobs]
        /\ UNCHANGED <<latest, bundle>> /\ job[i] \in UpdateJobs
        /\ Planned(job[i], latest) /\ Staged(job[i], stage, marker, holds)
    BY DEF UpdateInv, JobsInv, CreateStaging, ExtractBundle, SyncTree, WriteKeepMarker
  <1>1. CASE CreateStaging(i)
    <2>1. PICK s \in Slots : /\ stage[s] = "none" /\ stage' = [stage EXCEPT ![s] = "fresh"]
                             /\ Then(i, [job[i] EXCEPT !.at = "staging", !.slot = s])
      BY <1>1 DEF CreateStaging
    <2>2. job[i].at = "swept" /\ UNCHANGED <<holds, marker, images>>
      BY <1>1 DEF CreateStaging, Doing
    <2> DEFINE r == [job[i] EXCEPT !.at = "staging", !.slot = s]
    <2>3. /\ Then(i, r) /\ r \in UpdateJobs /\ r.at = "staging" /\ r.slot = s
          /\ r.manifest = job[i].manifest /\ r.offer = job[i].offer /\ r.runs = job[i].runs
          /\ r.attempt = job[i].attempt
      BY <1>0, <2>1 DEF UpdateJobs, UpdateSteps, Installing
    <2> HIDE DEF r
    <2>4. Planned(r, latest)
      BY <1>0, <2>2, <2>3 DEF Planned, Confirmed, Installing
    <2>5. Staged(r, stage', marker', holds')
      BY <1>0, <2>1, <2>2, <2>3 DEF Staged, DiskInv, DiskTyped
    <2>6. DiskTyped' /\ DiskInv'
      BY <1>0, <2>1, <2>2 DEF DiskTyped, DiskInv
    <2>7. /\ job'[i] = r /\ \A j \in Instances : j # i => job'[j] = job[j]
      BY <1>0, <2>3, JobChanges
    <2>8. KeptInv'
      <3>1. \A t \in Slots : Keeps(t) => Keeps(t)' /\ holds'[t].v = holds[t].v
        BY <2>2, <2>3, <2>7 DEF Keeps
      <3> QED
        BY <1>0, <2>2, <3>1, StillKept
    <2>9. \A j \in Instances : j # i /\ job[j].at \in Installing =>
            stage[job[j].slot] = "fresh" /\ job[j].slot # s /\ stage'[job[j].slot] = "fresh"
      BY <1>0, <2>1 DEF JobsInv, Staged, DiskTyped
    <2> QED
      BY <1>0, <2>2, <2>3, <2>4, <2>5, <2>6, <2>8, <2>9, OneInstance
  \* Something is put into the directory, which has no marker yet.
  <1>2. ASSUME NEW step \in {"extracted", "flushed"}, NEW b \in Bundle, Puts(job[i].slot, b),
               Goes(i, step), UNCHANGED <<stage, marker>>,
               job[i].at \in {"staging", "extracted"},
               b.v = job[i].manifest, step = "flushed" => b.settled
        PROVE  UpdateInv'
    <2>1. PICK r \in UpdateJobs : /\ Then(i, r) /\ r.at = step /\ r.slot = job[i].slot
                                  /\ r.manifest = job[i].manifest /\ Planned(r, latest)
      BY <1>2, GoingOn DEF Confirmed, Installing
    <2>2. /\ r.slot \in Slots /\ stage[r.slot] = "fresh" /\ marker[r.slot] = "none"
          /\ job[i].at \in Installing /\ r.at \in Installing
      BY <1>0, <1>2, <2>1 DEF Staged, Installing
    <2>3. /\ holds' \in [Slots -> Bundle] /\ holds'[r.slot] = b
          /\ \A t \in Slots : t # r.slot => holds'[t] = holds[t]
          /\ images' \subseteq [bundle : Bundle, holds : [Slots -> Bundle]]
          /\ \A im \in images' : \E was \in images : im.bundle = was.bundle
      BY <1>0, <1>2, <2>1, <2>2, Putting
    <2>4. DiskTyped' /\ DiskInv'
      BY <1>0, <1>2, <2>3 DEF DiskTyped, DiskInv
    <2>5. Staged(r, stage', marker', holds')
      BY <1>2, <2>1, <2>2, <2>3 DEF Staged
    <2>6. /\ job'[i] = r /\ \A j \in Instances : j # i => job'[j] = job[j]
      BY <1>0, <2>1, JobChanges
    <2>7. KeptInv'
      <3>1. \A t \in Slots : Keeps(t) => Keeps(t)' /\ holds'[t].v = holds[t].v
        BY <1>2, <2>1, <2>2, <2>3, <2>6 DEF Keeps
      <3> QED
        BY <1>0, <2>3, <3>1, StillKept
    <2>8. \A j \in Instances : j # i /\ job[j].at \in Installing =>
            job[j].slot # r.slot /\ job[j].slot \in Slots
      BY <1>0, <2>1, <2>2 DEF Apart, JobsInv, Staged
    <2> QED
      BY <1>0, <1>2, <2>1, <2>3, <2>4, <2>5, <2>7, <2>8, OneInstance
  <1>3. CASE ExtractBundle(i)
    <2> DEFINE b == [v |-> job[i].manifest, settled |-> FALSE]
    <2>1. b \in Bundle /\ b.v = job[i].manifest
      BY <1>0 DEF Bundle, UpdateJobs
    <2>2. /\ job[i].at = "staging" /\ Puts(job[i].slot, b) /\ Goes(i, "extracted")
          /\ UNCHANGED <<stage, marker>>
      BY <1>3 DEF ExtractBundle, Doing
    <2> HIDE DEF b
    <2> QED
      BY <1>2, <2>1, <2>2
  <1>4. CASE SyncTree(i)
    <2> DEFINE b == Flushed(holds[job[i].slot])
    <2>1. /\ job[i].at = "extracted" /\ Puts(job[i].slot, b) /\ Goes(i, "flushed")
          /\ UNCHANGED <<stage, marker>>
      BY <1>4 DEF SyncTree, Doing
    <2>2. holds[job[i].slot] \in Bundle /\ holds[job[i].slot].v = job[i].manifest
      BY <1>0, <2>1 DEF Staged, DiskTyped, Installing
    <2>3. b \in Bundle /\ b.v = job[i].manifest /\ b.settled
      BY <2>2 DEF Flushed, Bundle
    <2> HIDE DEF b
    <2> QED
      BY <1>2, <2>1, <2>3
  <1>5. CASE WriteKeepMarker(i)
    <2>1. /\ job[i].at = "flushed" /\ marker' = [marker EXCEPT ![job[i].slot] = "durable"]
          /\ Goes(i, "marked") /\ UNCHANGED <<stage, holds, images>>
      BY <1>5 DEF WriteKeepMarker, Doing
    <2>2. PICK r \in UpdateJobs : /\ Then(i, r) /\ r.at = "marked" /\ r.slot = job[i].slot
                                  /\ r.manifest = job[i].manifest /\ Planned(r, latest)
      BY <2>1, GoingOn DEF Confirmed, Installing
    <2>3. /\ r.slot \in Slots /\ stage[r.slot] = "fresh" /\ marker[r.slot] = "none"
          /\ job[i].at \in Installing /\ r.at \in Installing
          /\ holds[r.slot].v = r.manifest /\ holds[r.slot].settled
      BY <1>0, <2>1, <2>2 DEF Staged, Installing
    <2>4. DiskTyped' /\ DiskInv'
      BY <1>0, <2>1, <2>2, <2>3 DEF DiskTyped, DiskInv
    <2>5. Staged(r, stage', marker', holds')
      BY <1>0, <2>1, <2>2, <2>3 DEF Staged, DiskTyped
    <2>6. /\ job'[i] = r /\ \A j \in Instances : j # i => job'[j] = job[j]
      BY <1>0, <2>2, JobChanges
    <2>7. KeptInv'
      <3>1. \A t \in Slots : Keeps(t) => Keeps(t)' /\ holds'[t].v = holds[t].v
        BY <1>0, <2>1, <2>2, <2>3, <2>6 DEF Keeps, DiskTyped
      <3> QED
        BY <1>0, <2>1, <3>1, StillKept
    <2>8. \A j \in Instances : j # i /\ job[j].at \in Installing =>
            job[j].slot # r.slot /\ marker'[job[j].slot] = marker[job[j].slot]
      BY <1>0, <2>1, <2>2, <2>3 DEF Apart, DiskTyped
    <2>9. stage' = stage /\ holds' = holds /\ latest' = latest
      BY <1>0, <2>1
    <2> QED
      BY <2>2, <2>4, <2>5, <2>7, <2>8, <2>9, OneInstance
  <1> QED
    BY <1>1, <1>3, <1>4, <1>5

\* The exchange of what is installed with what a marked directory holds: each is where the
\* other was.
LEMMA Exchanging ==
  ASSUME UpdateInv, NEW i \in Instances, NEW step \in {"swapped", "rolled back"},
         job[i].at \in {"marked", "roll back"}, step = "swapped" <=> job[i].at = "marked",
         Exchange(job[i].slot), Goes(i, step), UNCHANGED <<latest, stage, marker>>
  PROVE  UpdateInv'
  <1>0. /\ DiskTyped /\ DiskInv /\ KeptInv /\ JobsInv /\ Apart /\ job \in [Instances -> UpdateJobs]
        /\ Planned(job[i], latest) /\ Staged(job[i], stage, marker, holds)
    BY DEF UpdateInv, JobsInv
  <1>1. PICK r \in UpdateJobs : /\ Then(i, r) /\ r.at = step /\ r.slot = job[i].slot
                                /\ r.manifest = job[i].manifest /\ Planned(r, latest)
    BY GoingOn DEF Confirmed, Installing
  <1>s. PICK s \in Slots : s = job[i].slot
    BY <1>0 DEF Staged, Installing
  <1>2. /\ stage[s] = "fresh" /\ marker[s] = "durable" /\ r.slot = s
        /\ job[i].at \in Installing /\ r.at \in Installing
    BY <1>0, <1>1, <1>s DEF Staged, Installing
  <1>3. Whole(holds[s])
    BY <1>0, <1>s DEF Staged, Planned, Whole, Confirmed, Installing
  <1>4. /\ bundle' = holds[s] /\ holds' = [holds EXCEPT ![s] = bundle]
        /\ images' = images \union {[bundle |-> bundle', holds |-> holds']}
    BY <1>s DEF Exchange
  <1>5. /\ bundle' \in Bundle /\ holds' \in [Slots -> Bundle] /\ holds'[s] = bundle
        /\ \A t \in Slots : t # s => holds'[t] = holds[t]
    BY <1>0, <1>2, <1>4 DEF DiskTyped
  <1>6. DiskTyped'
    <2>1. [bundle |-> bundle', holds |-> holds'] \in [bundle : Bundle, holds : [Slots -> Bundle]]
      BY <1>5
    <2>2. images' \subseteq [bundle : Bundle, holds : [Slots -> Bundle]]
      BY <1>0, <1>4, <2>1 DEF DiskTyped
    <2> QED
      BY <1>0, <1>5, <2>2 DEF DiskTyped
  <1>7. DiskInv'
    <2>1. ASSUME NEW im \in images' PROVE Whole(im.bundle)
      <3>1. CASE im \in images
        BY <1>0, <3>1 DEF DiskInv
      <3>2. CASE im = [bundle |-> bundle', holds |-> holds']
        BY <1>3, <1>4, <3>2
      <3> QED
        BY <1>4, <3>1, <3>2
    <2>2. Whole(bundle')
      BY <1>3, <1>4
    <2> QED
      BY <1>0, <2>1, <2>2 DEF DiskInv
  <1>8. Staged(r, stage', marker', holds')
    <2>1. Whole(holds'[s])
      BY <1>0, <1>5 DEF DiskInv
    <2> QED
      BY <1>0, <1>1, <1>2, <2>1 DEF Staged
  <1>9. /\ job'[i] = r /\ \A j \in Instances : j # i => job'[j] = job[j]
    BY <1>0, <1>1, JobChanges
  <1>10. \A j \in Instances : j # i /\ job[j].at \in Installing =>
           job[j].slot # s /\ job[j].slot \in Slots
    BY <1>0, <1>2, <1>s DEF Apart, JobsInv, Staged
  <1>11. Keeps(s)'
    <2>1. ASSUME NEW j \in Instances, job'[j].at \in {"marked", "replaced", "undone"}
          PROVE  job'[j].slot # s
      <3>1. j # i
        BY <1>1, <1>9, <2>1
      <3>2. job'[j] = job[j] /\ job[j].at \in Installing
        BY <1>9, <2>1, <3>1 DEF Installing
      <3> QED
        BY <1>10, <3>1, <3>2
    <2>2. marker'[s] = "durable"
      BY <1>2
    <2> QED
      BY <2>1, <2>2 DEF Keeps
  <1>12. \A t \in Slots : Keeps(t) => Keeps(t)'
    BY <1>1, <1>9 DEF Keeps
  <1>13. KeptInv'
    <2> SUFFICES ASSUME NEW im \in images'
                 PROVE  im.bundle.v = bundle'.v
                        \/ \E t \in Slots : Keeps(t)' /\ holds'[t].v = im.bundle.v
      BY DEF KeptInv
    <2>1. CASE im \in images
      <3>1. CASE im.bundle.v = bundle.v
        <4>1. holds'[s].v = im.bundle.v
          BY <1>5, <3>1
        <4> QED
          BY <1>11, <4>1
      <3>2. CASE \E t \in Slots : Keeps(t) /\ holds[t].v = im.bundle.v
        BY <1>4, <1>5, <1>12, <3>2
      <3> QED
        BY <1>0, <2>1, <3>1, <3>2 DEF KeptInv
    <2>2. CASE im = [bundle |-> bundle', holds |-> holds']
      BY <2>2
    <2> QED
      BY <1>4, <2>1, <2>2
  <1>14. \A j \in Instances : j # i /\ job[j].at \in Installing =>
           /\ stage'[job[j].slot] = stage[job[j].slot] /\ marker'[job[j].slot] = marker[job[j].slot]
           /\ holds'[job[j].slot] = holds[job[j].slot]
           /\ r.at \in Installing => job[j].slot # r.slot
    BY <1>2, <1>5, <1>10
  <1> QED
    BY <1>1, <1>6, <1>7, <1>8, <1>13, <1>14, OneInstance

\* What is flushed is all a power loss can leave.
LEMMA Flushing ==
  ASSUME UpdateInv, NEW i \in Instances, NEW step \in {"replaced", "undone", "roll back"},
         job[i].at \in {"swapped", "rolled back"}, step = "roll back" => job[i].at = "swapped",
         images' = {[bundle |-> bundle, holds |-> holds]} \/ (step = "roll back" /\ images' = images),
         Goes(i, step), UNCHANGED <<latest, bundle, stage, holds, marker>>
  PROVE  UpdateInv'
  <1>0. /\ DiskTyped /\ DiskInv /\ KeptInv /\ JobsInv /\ Apart /\ job \in [Instances -> UpdateJobs]
        /\ Planned(job[i], latest) /\ Staged(job[i], stage, marker, holds)
    BY DEF UpdateInv, JobsInv
  <1>1. PICK r \in UpdateJobs : /\ Then(i, r) /\ r.at = step /\ r.slot = job[i].slot
                                /\ r.manifest = job[i].manifest /\ Planned(r, latest)
    BY GoingOn DEF Confirmed, Installing
  <1>2. job[i].at \in Installing /\ r.at \in Installing
    BY <1>1 DEF Installing
  <1>3. Staged(r, stage', marker', holds')
    BY <1>0, <1>1, <1>2 DEF Staged
  <1> DEFINE now == [bundle |-> bundle, holds |-> holds]
  <1>n. now \in [bundle : Bundle, holds : [Slots -> Bundle]] /\ now.bundle = bundle
    BY <1>0 DEF DiskTyped
  <1>i. images' = {now} \/ (step = "roll back" /\ images' = images)
    OBVIOUS
  <1> HIDE DEF now
  <1>4. DiskTyped'
    <2>1. images' \subseteq [bundle : Bundle, holds : [Slots -> Bundle]]
      BY <1>0, <1>n, <1>i DEF DiskTyped
    <2> QED
      BY <1>0, <2>1 DEF DiskTyped
  <1>5. DiskInv'
    <2>1. \A im \in images' : Whole(im.bundle)
      BY <1>0, <1>n, <1>i DEF DiskInv
    <2> QED
      BY <1>0, <2>1 DEF DiskInv
  <1>6. /\ job'[i] = r /\ \A j \in Instances : j # i => job'[j] = job[j]
    BY <1>0, <1>1, JobChanges
  <1>7. KeptInv'
    <2>1. CASE images' = {now}
      <3>1. \A im \in images' : im.bundle.v = bundle'.v
        BY <1>n, <2>1
      <3> QED
        BY <3>1 DEF KeptInv
    <2>2. CASE step = "roll back" /\ images' = images
      <3>1. \A t \in Slots : Keeps(t) => Keeps(t)' /\ holds'[t].v = holds[t].v
        BY <1>1, <1>6, <2>2 DEF Keeps
      <3> QED
        BY <1>0, <2>2, <3>1, StillKept
    <2> QED
      BY <1>i, <2>1, <2>2
  <1>8. \A j \in Instances : j # i /\ job[j].at \in Installing => job[j].slot # r.slot
    BY <1>0, <1>1, <1>2 DEF Apart
  <1> QED
    BY <1>1, <1>3, <1>4, <1>5, <1>7, <1>8, OneInstance

\* The transaction, from the exchange on.
LEMMA Swapping ==
  ASSUME UpdateInv, NEW i \in Instances,
         AtomicSwap(i) \/ SyncSwapParents(i) \/ RollBackSwap(i) \/ SyncRollback(i)
  PROVE  UpdateInv'
  <1>1. CASE AtomicSwap(i)
    BY <1>1, Exchanging DEF AtomicSwap, Doing
  <1>2. CASE SyncSwapParents(i)
    BY <1>2, Flushing DEF SyncSwapParents, Doing
  <1>3. ASSUME Ends(i, "failed"), UNCHANGED <<latest, bundle, stage, holds, marker, images>>
        PROVE  UpdateInv'
    <2>1. PICK r \in UpdateJobs : /\ r = [Off EXCEPT !.at = "failed", !.runs = job[i].runs]
                                  /\ r.at \notin Installing /\ Planned(r, latest)
      BY InstanceEnds
    <2> QED
      BY <1>3, <2>1, JobOnly DEF Ends
  <1>4. CASE RollBackSwap(i)
    BY <1>3, <1>4, Exchanging DEF RollBackSwap, Doing
  <1>5. CASE SyncRollback(i)
    BY <1>3, <1>5, Flushing DEF SyncRollback, Doing
  <1> QED
    BY <1>1, <1>2, <1>4, <1>5

LEMMA PlannedLater ==
  ASSUME NEW r \in UpdateJobs, NEW newest \in Nat, Planned(r, newest)
  PROVE  Planned(r, newest + 1)
  <1>1. r.manifest \in Nat /\ r.seen \in Nat
    BY Versions DEF UpdateJobs
  <1>2. r.at = "signature" => r.manifest <= newest
    BY DEF Planned
  <1>3. r.at = "no signature" => newest >= r.seen + 2
    BY DEF Planned
  <1>4. (r.manifest <= newest => r.manifest <= newest + 1)
        /\ (newest >= r.seen + 2 => newest + 1 >= r.seen + 2)
    BY <1>1
  <1> QED
    BY <1>2, <1>3, <1>4 DEF Planned

\* A release, a power loss, a day.
LEMMA Machine ==
  ASSUME UpdateInv, Publish \/ PowerLoss \/ DayPasses
  PROVE  UpdateInv'
  <1>0. /\ DiskTyped /\ DiskInv /\ KeptInv /\ JobsInv /\ Apart /\ job \in [Instances -> UpdateJobs]
    BY DEF UpdateInv
  <1>1. CASE Publish
    <2>1. latest < MaxVersion /\ latest' = latest + 1 /\ UNCHANGED <<bundle, stage, holds, marker, images, job>>
      BY <1>1 DEF Publish
    <2>a. latest \in Nat /\ latest + 1 \in 1..MaxVersion
      BY <1>0, <2>1, AppUpdateConstants DEF DiskTyped
    <2>2. latest \in Nat /\ DiskTyped'
      BY <1>0, <2>1, <2>a DEF DiskTyped
    <2>3. ASSUME NEW i \in Instances PROVE Planned(job[i], latest')
      <3>1. Planned(job[i], latest) /\ job[i] \in UpdateJobs
        BY <1>0 DEF JobsInv
      <3> QED
        BY <2>1, <2>2, <3>1, PlannedLater
    <2>4. JobsInv'
      BY <1>0, <2>1, <2>3 DEF JobsInv
    <2> QED
      BY <1>0, <2>1, <2>2, <2>4 DEF UpdateInv, Apart, DiskInv, KeptInv, Keeps
  <1>2. CASE PowerLoss
    <2>1. PICK im \in images : /\ bundle' = AsFlushed(im.bundle)
                               /\ holds' = [s \in Slots |-> AsFlushed(im.holds[s])]
      BY <1>2 DEF PowerLoss
    <2>2. /\ images' = {[bundle |-> bundle', holds |-> holds']} /\ job' = [i \in Instances |-> Off]
          /\ UNCHANGED <<latest, stage, marker>>
      BY <1>2 DEF PowerLoss
    <2>3. im \in [bundle : Bundle, holds : [Slots -> Bundle]] /\ Broken \in Bundle
      BY <1>0, AppUpdateConstants DEF DiskTyped, Broken, Bundle, Published
    <2>4. bundle' \in Bundle /\ Whole(bundle') /\ holds' \in [Slots -> Bundle]
      BY <1>0, <2>1, <2>3 DEF AsFlushed, DiskInv, Whole
    <2>5. DiskTyped' /\ DiskInv' /\ KeptInv'
      BY <1>0, <2>2, <2>4 DEF DiskTyped, DiskInv, KeptInv
    <2>6. job' \in [Instances -> UpdateJobs] /\ \A i \in Instances : job'[i] = Off
      <3>1. "off" \in UpdateSteps /\ 0 \in Published
        BY Versions DEF UpdateSteps
      <3> QED
        BY <2>2, <3>1, OffIsAJob
    <2>7. JobsInv' /\ Apart'
      <3>1. Planned(Off, latest') /\ Staged(Off, stage', marker', holds') /\ Off.at \notin Installing
        BY DEF Planned, Staged, Off, Confirmed, Installing
      <3> QED
        BY <2>6, <3>1 DEF JobsInv, Apart
    <2> QED
      BY <2>5, <2>6, <2>7 DEF UpdateInv
  <1>3. CASE DayPasses
    <2>1. /\ \A i \in Instances : job[i].at \notin Installing
          /\ stage' = [s \in Slots |-> IF stage[s] = "fresh" THEN "old" ELSE stage[s]]
          /\ UNCHANGED <<latest, bundle, holds, marker, images, job>>
      BY <1>3 DEF DayPasses
    <2>2. stage' \in [Slots -> {"none", "fresh", "old"}]
          /\ \A s \in Slots : stage'[s] = "none" => stage[s] = "none"
      BY <1>0, <2>1 DEF DiskTyped
    <2>3. DiskTyped' /\ DiskInv' /\ KeptInv' /\ Apart'
      BY <1>0, <2>1, <2>2 DEF DiskTyped, DiskInv, KeptInv, Keeps, Apart
    <2>4. JobsInv'
      <3>1. ASSUME NEW i \in Instances PROVE Staged(job[i], stage', marker, holds)
        BY <2>1 DEF Staged, Installing
      <3> QED
        BY <1>0, <2>1, <3>1 DEF JobsInv
    <2> QED
      BY <1>0, <2>1, <2>3, <2>4 DEF UpdateInv
  <1> QED
    BY <1>1, <1>2, <1>3

LEMMA UpdateStepping == UpdateInv /\ [UpdateNext]_updateVars => UpdateInv'
  <1>1. UpdateInv /\ UNCHANGED updateVars => UpdateInv'
    <2> SUFFICES ASSUME UpdateInv, UNCHANGED updateVars PROVE UpdateInv'
      OBVIOUS
    <2>1. UNCHANGED <<latest, bundle, stage, holds, marker, images, job>>
      BY DEF updateVars
    <2>2. DiskTyped' /\ (job \in [Instances -> UpdateJobs])'
      BY <2>1 DEF UpdateInv, DiskTyped
    <2>3. JobsInv' /\ Apart'
      BY <2>1 DEF UpdateInv, JobsInv, Apart
    <2>4. DiskInv' /\ KeptInv'
      BY <2>1 DEF UpdateInv, DiskInv, KeptInv, Keeps
    <2> QED
      BY <2>2, <2>3, <2>4 DEF UpdateInv
  <1>2. ASSUME UpdateInv, NEW i \in Instances, UpdateStep(i) PROVE UpdateInv'
    BY <1>2, LooksForReleases, Sweeping, StagingGrows, Swapping DEF UpdateStep
  <1> QED
    BY <1>1, <1>2, Machine DEF UpdateNext

\* A whole application, the one that was confirmed, from a directory nobody else clears.
LEMMA UpdatesHold == UpdateSpec => UpdatesAreSafe /\ []UpdateTypeOK
  <1>1. UpdateInit => UpdateInv
    BY UpdateInitial
  <1>2. UpdateInv /\ [UpdateNext]_updateVars => UpdateInv'
    BY UpdateStepping
  <1>3. UpdateInv => UpdateTypeOK
    <2> SUFFICES ASSUME UpdateInv PROVE UpdateTypeOK
      OBVIOUS
    <2>1. DiskTyped /\ latest \in Published
      BY Versions DEF UpdateInv, DiskTyped
    <2>2. ASSUME NEW i \in Instances
          PROVE  /\ job[i].manifest \in Published /\ job[i].offer \in Published
                 /\ job[i].attempt \in 1..2 /\ job[i].slot \in {0} \union Slots
                 /\ job[i].offer # 0 => job[i].offer > job[i].runs
      BY DEF UpdateInv, JobsInv, Planned, UpdateJobs
    <2> QED
      BY <2>1, <2>2 DEF DiskTyped, UpdateTypeOK
  <1>4. UpdateInv => AppIsAlwaysWhole /\ ReplacedAppOutlivesTheSwap /\ LiveStagingStays
                     /\ OneReleaseIsNoForgery
    <2> SUFFICES ASSUME UpdateInv
                 PROVE  AppIsAlwaysWhole /\ ReplacedAppOutlivesTheSwap /\ LiveStagingStays
                        /\ OneReleaseIsNoForgery
      OBVIOUS
    <2>1. AppIsAlwaysWhole
      BY DEF UpdateInv, DiskInv, Whole, AppIsAlwaysWhole
    <2>2. ReplacedAppOutlivesTheSwap
      BY DEF UpdateInv, KeptInv, ReplacedAppOutlivesTheSwap
    <2>3. LiveStagingStays
      BY DEF UpdateInv, JobsInv, Staged, Apart, LiveStagingStays
    <2>4. OneReleaseIsNoForgery
      BY DEF UpdateInv, JobsInv, Planned, OneReleaseIsNoForgery, Doing
    <2> QED
      BY <2>1, <2>2, <2>3, <2>4
  <1> DEFINE AsConfirmed == \A i \in Instances : AtomicSwap(i) => bundle'.v = job[i].offer
  <1>5. UpdateInv => AsConfirmed
    <2> SUFFICES ASSUME UpdateInv, NEW i \in Instances, AtomicSwap(i)
                 PROVE  bundle'.v = job[i].offer
      OBVIOUS
    <2>1. job[i].at = "marked" /\ bundle' = holds[job[i].slot]
      BY DEF AtomicSwap, Exchange, Doing
    <2>2. Planned(job[i], latest) /\ Staged(job[i], stage, marker, holds)
      BY DEF UpdateInv, JobsInv
    <2> QED
      BY <2>1, <2>2 DEF Planned, Staged, Confirmed, Installing
  <1>6. UpdateInv => [AsConfirmed]_updateVars
    BY <1>5
  <1> QED
    BY <1>1, <1>2, <1>3, <1>4, <1>6, PTL DEF UpdateSpec, UpdatesAreSafe, InstalledAsConfirmed

-----------------------------------------------------------------------------
(* The parts together.                                                     *)

PartOK == part \in {"update", "lock", "type", "clip", "launch", "touch", "cost", "enrol", "form"}

desktopVars == <<part, updateVars, lockVars, typeVars, clipVars, launchVars, touchVars, costVars,
                 enrolVars, formVars>>

LEMMA PartByPart ==
  [DesktopNext]_desktopVars =>
    /\ [UpdateNext]_updateVars /\ [LockNext]_lockVars /\ [TypeNext]_typeVars
    /\ [ClipNext]_clipVars /\ [LaunchNext]_launchVars /\ [TouchNext]_touchVars
    /\ [CostNext]_costVars /\ [EnrolNext]_enrolVars /\ [FormNext]_formVars
    /\ part' = part
  <1>1. DesktopNext =>
          /\ part' = part /\ (UpdateNext \/ UNCHANGED updateVars) /\ (LockNext \/ UNCHANGED lockVars)
          /\ (TypeNext \/ UNCHANGED typeVars) /\ (ClipNext \/ UNCHANGED clipVars)
          /\ (LaunchNext \/ UNCHANGED launchVars) /\ (TouchNext \/ UNCHANGED touchVars)
          /\ (CostNext \/ UNCHANGED costVars) /\ (EnrolNext \/ UNCHANGED enrolVars)
          /\ (FormNext \/ UNCHANGED formVars)
    BY DEF DesktopNext
  <1>2. UNCHANGED desktopVars =>
          UNCHANGED <<part, updateVars, lockVars, typeVars, clipVars, launchVars, touchVars,
                      costVars, enrolVars, formVars>>
    BY DEF desktopVars
  <1> QED
    BY <1>1, <1>2

LEMMA EveryPart ==
  DesktopSpec => /\ UpdateSpec /\ LockSpec /\ TypeSpec /\ ClipSpec /\ LaunchSpec /\ TouchSpec
                 /\ CostSpec /\ EnrolSpec /\ FormSpec /\ []PartOK
  <1>1. DesktopInit => /\ UpdateInit /\ LockInit /\ TypeInit /\ ClipInit /\ LaunchInit /\ TouchInit
                       /\ CostInit /\ EnrolInit /\ FormInit /\ PartOK
    BY DEF DesktopInit, PartOK
  <1>2. PartOK /\ part' = part => PartOK'
    BY DEF PartOK
  <1>3. DesktopSpec => DesktopInit /\ [][DesktopNext]_desktopVars
    BY DEF DesktopSpec, desktopVars
  <1> QED
    BY <1>1, <1>2, <1>3, PartByPart, PTL
    DEF UpdateSpec, LockSpec, TypeSpec, ClipSpec, LaunchSpec, TouchSpec, CostSpec, EnrolSpec, FormSpec

\* Whatever is killed, and whatever a power loss undoes, the installed path holds a whole
\* application, the release the user confirmed, and no release that comes in the way is taken for
\* a forged one (update/macos_installer.rs, update/client.rs).
THEOREM UpdatesStaySafe == DesktopSpec => UpdatesAreSafe
  BY EveryPart, UpdatesHold

\* Every lock of the screen that was noted is looked for and handled, though wake-ups are dropped
\* by a full queue, and a vault opened a moment ago is locked only for a lock noted since
\* (session_lock.rs, ui/app_shell.rs).
THEOREM LocksGetThrough == DesktopSpec => LocksArrive
  BY EveryPart, LocksOfTheScreen

\* Nothing of a vault is typed once its lock has returned, one character at most once its token
\* is cancelled, and no operation begins in a window that is not the target (autotype/).
THEOREM TypingIsStopped == DesktopSpec => TypingStops
  BY EveryPart, TypingEnds

\* What was copied or written for a launch goes in its time, and nothing that is not ours
\* (clipboard_macos.rs, launch/).
THEOREM CleartextGoes == DesktopSpec => CleartextIsCollected
  BY EveryPart, CopiesAreCleared, PayloadsLive DEF CleartextIsCollected

\* An answer opens the vault it was asked for, on the visit it was asked in; prompts neither nag
\* nor give up; a stored password has a registry entry to forget it by (app/state.rs,
\* ui/app_shell.rs, biometric.rs).
THEOREM UnlocksServe == DesktopSpec => UnlocksServeTheirScreen
  BY EveryPart, PromptsServe, NoticesStayTrue, PasswordsArePointedAt, PTL DEF UnlocksServeTheirScreen

\* What is typed in the entry editor goes only where the user was asked (ui/app_shell.rs).
THEOREM DraftsAreSafe == DesktopSpec => DraftsAreKept
  BY EveryPart, DraftsStay

\* Every part keeps its type.
THEOREM DesktopTypes == DesktopSpec => []DesktopTypeOK
  <1>1. ASSUME UpdateTypeOK, LockTypeOK, AutoTypeOK, ClipTypeOK, LaunchTypeOK, TouchTypeOK,
               CostTypeOK, EnrolTypeOK, FormTypeOK, PartOK
        PROVE  DesktopTypeOK
    <2>1. CASE part = "update"
      BY <1>1, <2>1 DEF DesktopTypeOK
    <2>2. CASE part = "lock"
      BY <1>1, <2>2 DEF DesktopTypeOK
    <2>3. CASE part = "type"
      BY <1>1, <2>3 DEF DesktopTypeOK
    <2>4. CASE part = "clip"
      BY <1>1, <2>4 DEF DesktopTypeOK
    <2>5. CASE part = "launch"
      BY <1>1, <2>5 DEF DesktopTypeOK
    <2>6. CASE part = "touch"
      BY <1>1, <2>6 DEF DesktopTypeOK
    <2>7. CASE part = "cost"
      BY <1>1, <2>7 DEF DesktopTypeOK
    <2>8. CASE part = "enrol"
      BY <1>1, <2>8 DEF DesktopTypeOK
    <2>9. CASE part = "form"
      BY <1>1, <2>9 DEF DesktopTypeOK
    <2> QED
      BY <1>1, <2>1, <2>2, <2>3, <2>4, <2>5, <2>6, <2>7, <2>8, <2>9 DEF PartOK
  <1> QED
    BY <1>1, EveryPart, UpdatesHold, LocksOfTheScreen, TypingEnds, CopiesAreCleared, PayloadsLive,
       PromptsServe, NoticesStayTrue, PasswordsArePointedAt, DraftsStay, PTL
=============================================================================
