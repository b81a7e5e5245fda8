------------------------------ MODULE EntryForm ------------------------------
(***************************************************************************)
(* The entry editor (ui/app_shell.rs): what is typed there is in no vault  *)
(* yet, so no save vetoes its loss.  Everything that would replace the     *)
(* editor asks first, and the same gesture again goes through.  Meanwhile  *)
(* locks, merges and the answers of file dialogs come in, and one form     *)
(* serves every vault and every entry.  An edit of an entry that a merge   *)
(* took away is refused, and the form stays.                               *)
(***************************************************************************)
CONSTANT Databases       \* paths of vault files

NoDatabase == "no vault in front"

ASSUME EntryFormConstants == NoDatabase \notin Databases

\* What the form reads: its fields, and the protection of its custom field.
Drafts == [words : {"", "stored", "typed"}, shield : BOOLEAN]
Blank == [words |-> "", shield |-> FALSE]
StoredEntry == [words |-> "stored", shield |-> FALSE]
NoBaseline == [words |-> "none", shield |-> FALSE]

VARIABLES inFront,   \* the vault in front, open
          aside,     \* the others that are unlocked
          overlay,   \* "none"; "new" or "edit", the editor; "connect" or "other"
          editor,    \* [text, base, armed]: the form, entry_form_baseline, entry_discard_armed
          dialog,    \* [at, of]: a file dialog that is up, to "open" or to "publish"; "publishing"
          sheet,     \* history: [began, of, asked], what the form began with, in which vault,
                     \*   and whether the user was asked about it
          news       \* history: what the last step did to the form

formVars == <<inFront, aside, overlay, editor, dialog, sheet, news>>

NoDialog == [at |-> "none", of |-> NoDatabase]
IsEditor(screen) == screen \in {"new", "edit"}

FormInit ==
  /\ inFront = NoDatabase /\ aside = {} /\ overlay = "none"
  /\ editor = [text |-> Blank, base |-> NoBaseline, armed |-> FALSE]
  /\ dialog = NoDialog
  /\ sheet = [began |-> Blank, of |-> inFront, asked |-> FALSE]
  /\ news = "kept"

\* entry_form_is_dirty: what the save would write differs from what the editor opened with.
Dirty == editor.base # NoBaseline /\ editor.base # editor.text

\* entry_draft_blocks_close.
BlocksClose == Dirty /\ ~editor.armed

\* clear_entry_form, and mark_entry_form_pristine after any prefill.
Begins(text, base, why) ==
  /\ editor' = [text |-> text, base |-> base, armed |-> FALSE]
  /\ sheet' = [began |-> text, of |-> inFront', asked |-> FALSE]
  /\ news' = why

FormStays == UNCHANGED <<editor, sheet>> /\ news' = "kept"

\* As a mistake: only the end of the editor clears the form, not another vault in front.
EditorEnds == IsEditor(overlay) /\ ~IsEditor(overlay')

\* The observer of the state, after every change of the vault in front or of the overlay.
FormIsCleared == inFront' # inFront \/ (IsEditor(overlay) /\ ~IsEditor(overlay'))

Observed(why) == IF FormIsCleared THEN Begins(Blank, NoBaseline, why) ELSE FormStays

\* open_overlay and close_overlay: coming to connect, or leaving it, gives up a transfer.
Shows(screen) ==
  /\ overlay' = screen
  /\ dialog' = IF dialog.at = "publishing" /\ "connect" \in {overlay, screen}
                 THEN NoDialog ELSE dialog

-----------------------------------------------------------------------------
(* The user.                                                               *)

\* Any gesture that would lose a draft: the first time it only asks.
AskFirst ==
  /\ BlocksClose
  /\ editor' = [editor EXCEPT !.armed = TRUE]
  /\ sheet' = [sheet EXCEPT !.asked = TRUE]
  /\ news' = "kept"
  /\ UNCHANGED <<inFront, aside, overlay, dialog>>

NewEntry ==
  /\ inFront # NoDatabase /\ ~BlocksClose
  /\ UNCHANGED <<inFront, aside>>
  /\ Begins(Blank, Blank, "closed")
  /\ Shows("new")

\* As a mistake: the prefill reads as the user's typing.
PristineBefore(text) == Blank

PristineAfter(text) == text

\* on_action_edit_entry, begin_edit_selected_entry.
EditEntry ==
  /\ inFront # NoDatabase /\ ~BlocksClose
  /\ UNCHANGED <<inFront, aside>>
  /\ Begins(StoredEntry, PristineAfter(StoredEntry), "closed")
  /\ Shows("edit")

\* As a mistake: typing leaves the discard armed.
StillArmed == editor.armed

TypingDisarms == FALSE

\* on_entry_form_input_event.
Type ==
  /\ IsEditor(overlay)
  /\ \E text \in Drafts :
       /\ text.words # editor.text.words
       /\ text.shield = (text.words # "" /\ editor.text.shield)
       /\ editor' = [editor EXCEPT !.text = text, !.armed = TypingDisarms]
  /\ sheet' = [sheet EXCEPT !.asked = FALSE]
  /\ news' = "kept"
  /\ UNCHANGED <<inFront, aside, overlay, dialog>>

\* toggle_custom_field_protected: no field changes, so a discard stays armed.
ToggleProtected ==
  /\ IsEditor(overlay) /\ editor.text.words # ""
  /\ editor' = [editor EXCEPT !.text.shield = ~@]
  /\ news' = "kept"
  /\ UNCHANGED <<inFront, aside, overlay, dialog, sheet>>

\* submit_entry_form, with a title; create_entry or update_entry in the vault in front.
SubmitEntryForm ==
  /\ IsEditor(overlay) /\ editor.text.words # ""
  /\ UNCHANGED <<inFront, aside>>
  /\ Begins(Blank, NoBaseline, "saved")
  /\ Shows("none")

\* request_close_entry_form.
CloseEntryForm ==
  /\ IsEditor(overlay) /\ ~BlocksClose
  /\ UNCHANGED <<inFront, aside>>
  /\ Begins(Blank, NoBaseline, "closed")
  /\ Shows("none")

\* Connecting; the switcher, the settings, a group's name, about and what is new.
OpenOther ==
  /\ ~BlocksClose
  /\ \E screen \in {"connect", "other"} \ {overlay} : Shows(screen)
  /\ UNCHANGED <<inFront, aside>>
  /\ Observed("closed")

CloseOther ==
  /\ overlay \in {"connect", "other"}
  /\ Shows("none")
  /\ UNCHANGED <<inFront, aside>>
  /\ FormStays

Locks(why) ==
  /\ inFront' = NoDatabase /\ aside' = {}
  /\ overlay' = "none"
  /\ dialog' = IF dialog.at = "publishing" THEN NoDialog ELSE dialog
  /\ Begins(Blank, NoBaseline, why)

\* click_lock_vault, and the shortcut; closing the window and quitting ask the same question.
ClickLockVault == inFront # NoDatabase /\ ~BlocksClose /\ Locks("closed")

\* request_password and switch_to_unlocked: the vault in front is put aside, and an overlay
\* stays if the vault to come is unlocked already.
Selects(v, why) ==
  /\ v # inFront
  /\ aside' = (aside \union ({inFront} \ {NoDatabase})) \ {v}
  /\ IF v \in aside THEN inFront' = v /\ overlay' = overlay
                    ELSE inFront' = NoDatabase /\ overlay' = "none"
  /\ Observed(why)

\* The vault switcher: its overlay has replaced the editor.
PickInSwitcher(v) ==
  /\ overlay = "other" /\ v # inFront
  /\ inFront' = IF v \in aside THEN v ELSE NoDatabase
  /\ aside' = (aside \union ({inFront} \ {NoDatabase})) \ {v}
  /\ Shows("none")
  /\ Observed("closed")

\* A password, Touch ID, or Escape on the unlock screen back to a vault that was put aside.
Unlocks(v) ==
  /\ inFront = NoDatabase
  /\ inFront' = v /\ aside' = aside \ {v}
  /\ UNCHANGED <<overlay, dialog>>
  /\ Observed("closed")

\* on_action_open_vault; prompt_for_icloud_publish, in the connect overlay.
OpenDialog ==
  /\ dialog = NoDialog
  /\ \/ ~BlocksClose /\ dialog' = [at |-> "open", of |-> inFront]
     \/ overlay = "connect" /\ inFront # NoDatabase /\ dialog' = [at |-> "publish", of |-> inFront]
  /\ UNCHANGED <<inFront, aside, overlay>>
  /\ FormStays

-----------------------------------------------------------------------------
(* What comes in.                                                          *)

\* Or answered with the vault that is in front.
DialogIsCancelled ==
  /\ dialog.at \in {"open", "publish"}
  /\ dialog' = NoDialog
  /\ UNCHANGED <<inFront, aside, overlay>>
  /\ FormStays

\* select_vault_path: nobody is asked again.
DialogOpens(v) ==
  /\ dialog.at = "open"
  /\ dialog' = NoDialog
  /\ Selects(v, "chosen")

\* publish_active_to_icloud: whatever vault is in front by now, whatever the overlay.
DialogPublishes ==
  /\ dialog.at = "publish" /\ inFront # NoDatabase
  /\ dialog' = [at |-> "publishing", of |-> inFront]
  /\ UNCHANGED <<inFront, aside, overlay>>
  /\ FormStays

\* apply_icloud_publish_result: published, it closes the overlay there is.
PublishEnds ==
  /\ dialog.at = "publishing"
  /\ dialog' = NoDialog
  /\ overlay' \in {overlay, IF inFront = dialog.of THEN "none" ELSE overlay}
  /\ UNCHANGED <<inFront, aside>>
  /\ Observed("chosen")

\* lock_vault_automatically: the timer and the screen lock do not ask, they tell.
LockVaultAutomatically ==
  /\ inFront # NoDatabase
  /\ Locks(IF Dirty THEN "told" ELSE "closed")

\* As a mistake: the conflict screen takes the place of an editor.
WhateverIsOpen == TRUE

NotEditing == ~IsEditor(overlay)

\* RemoteMergePlan::Ask.
MergeAsks ==
  /\ inFront # NoDatabase /\ NotEditing
  /\ overlay' = "other"
  /\ UNCHANGED <<inFront, aside, dialog>>
  /\ Observed("closed")

FormNext ==
  \/ AskFirst \/ NewEntry \/ EditEntry \/ Type \/ ToggleProtected
  \/ SubmitEntryForm \/ CloseEntryForm \/ OpenOther \/ CloseOther
  \/ ClickLockVault \/ LockVaultAutomatically
  \/ \E v \in Databases : PickInSwitcher(v) \/ Unlocks(v) \/ DialogOpens(v)
  \/ OpenDialog \/ DialogIsCancelled \/ DialogPublishes \/ PublishEnds \/ MergeAsks

FormSpec == FormInit /\ [][FormNext]_formVars

-----------------------------------------------------------------------------
\* Type invariant of the editor.
FormTypeOK ==
  /\ inFront \in Databases \union {NoDatabase} /\ aside \subseteq Databases \ {inFront}
  /\ overlay \in {"none", "new", "edit", "connect", "other"}
  /\ IsEditor(overlay) => inFront # NoDatabase
  /\ editor.text \in Drafts /\ editor.base \in Drafts \union {NoBaseline}
  /\ editor.armed \in BOOLEAN
  /\ dialog.at \in {"none", "open", "publish", "publishing"}

\* The user is asked about what they typed, never about what the editor showed at first.
QuestionsAreAboutEdits == Dirty => editor.text # sheet.began

\* An editor that is closed keeps nothing of what was in it.
ClosedEditorIsBlank == ~IsEditor(overlay) => editor.text = Blank

\* A gesture or a merge takes away a draft only after a question about it as it stands, but for
\* its field's protection.  Two ways round the question are known: the editor that stayed over
\* another vault has no baseline, and the answer of a dialog ("chosen") is never asked about.
DraftsAreAskedAbout ==
  [][editor.text # sheet.began /\ news' = "closed"
       => sheet.asked \/ editor.base = NoBaseline]_formVars

\* An entry is saved in the vault it was typed in.
SavedWhereTyped == [][news' = "saved" => sheet.of = inFront]_formVars

\* A draft is neither lost without a word nor carried into another vault.
DraftsAreKept ==
  [](QuestionsAreAboutEdits /\ ClosedEditorIsBlank) /\ DraftsAreAskedAbout /\ SavedWhereTyped
=============================================================================
