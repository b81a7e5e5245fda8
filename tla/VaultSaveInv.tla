---------------------------- MODULE VaultSaveInv ----------------------------
(***************************************************************************)
(* The inductive invariant of VaultSave, in parts: where a session may be, *)
(* who holds a file's writer slot, what a background task carries, and     *)
(* what the documents and the files hold.  The safety properties follow    *)
(* from it.                                                                *)
(***************************************************************************)
EXTENDS VaultSave

\* The window shows one vault, a parked or quarantined session is nowhere
\* else, and a file being opened is not unlocked.
WindowInv ==
    /\ vault.status \in {"AwaitingPassword", "Opening", "Open"} => vault.path \in Paths
    /\ vault.status = "Open" <=> active # NoSession
    /\ active # NoSession => path[active] = vault.path
    /\ active \notin parked
    /\ active \notin deferredLock
    /\ deferredLock \cap parked = {}
    /\ vault.status = "LockedPendingSave" => parked = {}
    /\ vault.status # "LockedPendingSave" => deferredLock = {}
    /\ vault.status = "Opening" => ~Unlocked(vault.path)

\* A session is retained from its opening to its end, on one file.
FateInv ==
    /\ \A s \in Sessions : Retained(s) <=> fate[s] = "open"
    /\ \A s \in Sessions : fate[s] # "unopened" => path[s] \in Paths

Held == {s \in Sessions : fate[s] = "open"}

\* A slot is free or belongs to a counted session of its file whose task is
\* not over; the task of a session that is held has the slot of its file, and
\* any other task is aborted.
SlotsOK(slots, dirty, tasks, held) ==
    /\ \A p \in Paths : slots[p].owner = NoSession => slots[p] = FreeSlot
    /\ \A p \in Paths : slots[p].owner # NoSession =>
          /\ path[slots[p].owner] = p
          /\ slots[p].owner \in dirty
          /\ tasks[slots[p].owner].phase # "idle"
          /\ slots[p].pending \in {NoSession, slots[p].owner}
    /\ dirty \subseteq held
    /\ \A s \in Sessions : tasks[s].phase # "idle" =>
          IF s \in held THEN slots[path[s]].owner = s ELSE tasks[s].abort = "Aborted"

SlotInv ==
    /\ SlotsOK(savesInFlight, unpersisted, worker, Held)
    /\ \A s \in Sessions : worker[s].phase # "idle" => fate[s] # "unopened"

\* What a task may still write: a snapshot that holds the file's revision it
\* replaces and nothing its document does not hold.
TaskOK(s, w) ==
    /\ w.phase = "queued" => w.abort \in {"Writing", "Aborted"}
    /\ w.phase \in {"queued", "writing"} => w.expected = storage[s] /\ w.outcome = "none"
    /\ w.phase # "idle" =>
          /\ storage[s] \ MergeEdits \subseteq w.payload
          /\ w.payload \ MergeEdits \subseteq doc[s]
          /\ w.payload \ (made[s] \cup MergeEdits) \subseteq storage[s]
          /\ w.kind = "merge" => w.base \subseteq w.payload
    /\ w.phase = "writing" /\ w.abort = "Publishing" => disk[path[s]] = w.expected
    /\ w.phase = "done" /\ w.outcome = "durable" =>
          w.payload \ MergeEdits \subseteq platter[path[s]]

\* The task of an ordinary save without a trailing request saves everything.
Covered(s, w, slots) ==
    w.phase # "idle" /\ w.kind = "save"
            /\ slots[path[s]].owner = s /\ slots[path[s]].pending = NoSession
        => made[s] \ IconEdits \subseteq w.payload

TaskInv ==
    /\ \A s \in Sessions : TaskOK(s, worker[s]) /\ Covered(s, worker[s], savesInFlight)
    /\ \A s, t \in Sessions : HoldsFileLock(s) /\ HoldsFileLock(t) /\ path[s] = path[t] => s = t

\* Every edit is made once and stays in its document; what a document holds
\* beyond its own edits and merges, its file held.
EditsInv ==
    /\ \A s \in Sessions :
          /\ made[s] \subseteq issued \cap (UserEdits \cup IconEdits)
          /\ made[s] \subseteq doc[s]
          /\ storage[s] \ MergeEdits \subseteq doc[s]
          /\ doc[s] \ (made[s] \cup MergeEdits) \subseteq storage[s]
          /\ fate[s] = "unopened" => made[s] = {}
    /\ \A s, t \in Sessions : s # t => made[s] \cap made[t] = {}

\* The platter is behind the visible file, never ahead of it, and a foreign
\* change reaches both at once.
FileInv ==
    \A p \in Paths :
        /\ platter[p] \ MergeEdits \subseteq disk[p]
        /\ disk[p] \cap ForeignEdits \subseteq platter[p]

\* What counts as saved, or was locked away as saved, is on the platter.
SavedInv ==
    \A s \in Sessions :
        fate[s] \in {"locked", "quit"} \/ (fate[s] = "open" /\ s \notin unpersisted)
            => made[s] \ IconEdits \subseteq platter[path[s]]

\* What the coordinator, the tasks, the documents and the files hold.
DataInv == SlotInv /\ TaskInv /\ EditsInv /\ FileInv /\ SavedInv

\* Where every session is.
PlaceInv == WindowInv /\ FateInv /\ OneSessionPerFile

\* The inductive invariant: what every operation of the coordinator, the
\* writer and the lifecycle keeps, and what the safety properties follow from.
Inv == TypeOK /\ PlaceInv /\ DataInv

\* A push a session still owes is on its way: none is owed over a free slot,
\* and the slot's queue or its task asks for one as long as one is owed.
PushKept(s, slot, task, owes, has) ==
    /\ slot.owner = NoSession => owes \subseteq has
    /\ slot.owner = s => owes \subseteq has \/ slot.sync \/ task.sync

\* Only changes made in the editor are owed, nothing owed is forgotten, and
\* a slot nobody waits for remembers no push.
PushInv ==
    /\ \A s \in Sessions : owed[s] \subseteq made[s] \ IconEdits
    /\ \A s \in Held : PushKept(s, savesInFlight[path[s]], worker[s], owed[s], pushed[s])
    /\ \A p \in Paths : savesInFlight[p].pending = NoSession => ~savesInFlight[p].sync

\* Both together, as a run checks them.
SaveInv == Inv /\ PushInv

=============================================================================
