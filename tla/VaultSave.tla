------------------------------ MODULE VaultSave ------------------------------
(***************************************************************************)
(* The local save coordinator of FerrisPass: unlocked vault sessions, the  *)
(* one-writer-per-file queue (saves_in_flight), the background writer with *)
(* its abort handle, the deferred lock with its discard escape, and the    *)
(* quit veto.  Source: app/state.rs, keepass/document.rs, app/actions.rs.  *)
(*                                                                         *)
(* A vault's contents are the set of edits they hold; every edit is made   *)
(* once.  A disk revision (a hash of the bytes) is the contents it hashes, *)
(* and a document generation is the contents it numbers, because every     *)
(* mutation adds an edit nobody else adds.                                 *)
(***************************************************************************)
EXTENDS Naturals, FiniteSets

CONSTANTS
    Paths,         \* vault files
    Sessions,      \* unlocked sessions that may ever exist (VaultSessionId)
    UserEdits,     \* edits made in the entry editor
    MergeEdits,    \* changes pulled in by a sync merge
    IconEdits,     \* icons landed by a favicon download run
    ForeignEdits,  \* changes other programs write into the file
    NoPath,
    NoSession,
    MaxFailures,   \* bound: how many I/O steps of writers may fail
    MaxRestarts    \* bound: how often the application quits or crashes

Edits == UserEdits \cup MergeEdits \cup IconEdits \cup ForeignEdits

ASSUME ConstantsAssumption ==
    /\ NoPath \notin Paths
    /\ NoSession \notin Sessions
    /\ MergeEdits \cap (UserEdits \cup IconEdits \cup ForeignEdits) = {}
    /\ IconEdits \cap (UserEdits \cup ForeignEdits) = {}
    /\ UserEdits \cap ForeignEdits = {}
    /\ MaxFailures \in Nat
    /\ MaxRestarts \in Nat

VARIABLES
    vault,          \* AppState.vault: the status of the window's active slot
    active,         \* active_vault_session_id
    parked,         \* sessions in the parked map
    deferredLock,   \* sessions in deferred_lock_sessions (quarantined)
    unpersisted,    \* unpersisted_vault_sessions
    lockRequested,  \* lock_requested_after_save
    stuck,          \* deferred_lock_since is older than DEFERRED_LOCK_STUCK_AFTER
    reading,        \* {} or {what the running open attempt has read}
    path,           \* the file of each session
    doc,            \* the in-memory database of each session
    storage,        \* the disk revision each document is bound to
    saveStatus,     \* the SaveStatus that travels with each session
    savesInFlight,  \* saves_in_flight: the writer slot of each file
    worker,         \* the background save task of each session
    favicon,        \* the session a favicon run belongs to
    stalled,        \* STALLED_SAVE_VAULT
    armed,          \* QUIT_ARMED_OVER_STALLED_SAVE
    disk,           \* what a reader of each file sees
    platter         \* what survives a power loss

\* History variables: what the properties compare the state against.
VARIABLES
    issued,         \* edits that exist
    made,           \* edits made in each session, icons included
    owed,           \* edits of a session whose cloud push is promised
    pushed,         \* contents last handed to the sync engine
    fate,           \* how each session ended
    told,           \* files named in a quit refusal and not saved since
    untold,         \* a quit dropped a failed save nobody was told about
    failures,       \* I/O failures so far
    restarts        \* quits and crashes so far

lifecycle == <<vault, active, parked, deferredLock, lockRequested, stuck, reading>>
coordinator == <<unpersisted, saveStatus, savesInFlight>>
quitVeto == <<stalled, armed, told, untold>>
history == <<issued, made, owed, pushed>>
bounds == <<failures, restarts>>
vars == <<lifecycle, path, doc, storage, coordinator, worker, favicon,
          quitVeto, disk, platter, history, fate, bounds>>

Contents == SUBSET Edits

-----------------------------------------------------------------------------
(* Sessions. *)

Current(s) == s = active \/ s \in parked              \* vault_session_is_current
Retained(s) == Current(s) \/ s \in deferredLock        \* save_session_is_retained
Unlocked(p) == \E s \in Sessions : Current(s) /\ path[s] = p

(* Writer slots and tasks. *)

FreeSlot == [owner |-> NoSession, pending |-> NoSession, sync |-> FALSE]
QueuedSave(s) == [owner |-> s, pending |-> NoSession, sync |-> FALSE]

AllFree(slots) == \A p \in Paths : slots[p] = FreeSlot

InQueue(s, slots) ==                                   \* save_queue_contains_session
    \E p \in Paths : slots[p].owner = s \/ slots[p].pending = s

HasUnpersistedWork == unpersisted # {} \/ ~AllFree(savesInFlight)

IdleWorker ==
    [phase |-> "idle", kind |-> "save", payload |-> {}, base |-> {},
     expected |-> {}, sync |-> FALSE, abort |-> "Writing", outcome |-> "none"]

\* SavePayload: an immutable snapshot of a document and of the revision its
\* file is expected to hold, with the abort handle of its task.
NewWorker(s, kind, payload, base, sync) ==
    [phase |-> "queued", kind |-> kind, payload |-> payload, base |-> base,
     expected |-> storage[s], sync |-> sync, abort |-> "Writing", outcome |-> "none"]

(* The quit handler's signal: a file whose save failed, if no slot is taken. *)
FailedPaths(sessions, status) ==
    {path[s] : s \in {t \in sessions : status[t] = "Failed"}}

PublishStalled(sessions, status, slots) ==
    IF AllFree(slots) /\ FailedPaths(sessions, status) # {}
      THEN stalled' \in FailedPaths(sessions, status)
      ELSE stalled' = NoPath

Live == {s \in Sessions : Retained(s)}

-----------------------------------------------------------------------------
\* Mutant: a request does not mark its session unpersisted.
RequestSavesUncounted(R, sync, live, slots, dirty, status, tasks, start) ==
    LET wants(p) == {s \in R : path[s] = p}
        starts == {s \in R : slots[path[s]] = FreeSlot}
    IN  /\ unpersisted' = dirty
        /\ saveStatus' = [s \in Sessions |-> IF s \in R THEN "Saving" ELSE status[s]]
        /\ savesInFlight' = [p \in Paths |->
               IF wants(p) = {} THEN slots[p]
               ELSE LET s == CHOOSE t \in wants(p) : TRUE
                    IN  IF slots[p] = FreeSlot THEN QueuedSave(s)
                        ELSE [slots[p] EXCEPT !.pending = s, !.sync = @ \/ sync]]
        /\ worker' = [s \in Sessions |-> IF s \in starts THEN start[s] ELSE tasks[s]]
        /\ stalled' = NoPath

(***************************************************************************)
(* request_save_for_session, for every session of R at once (a deferred    *)
(* lock retries several in one turn; their files differ).  The slots, the  *)
(* unpersisted set, the statuses and the tasks are those the caller has    *)
(* already changed in this turn; "live" are the sessions still retained.   *)
(* A taken slot only remembers that the session wants a trailing save.     *)
(* The stalled signal is published with the status, before the slot is     *)
(* taken.                                                                  *)
(***************************************************************************)
RequestSaves(R, sync, live, slots, dirty, status, tasks, start) ==
    LET wants(p) == {s \in R : path[s] = p}
        starts == {s \in R : slots[path[s]] = FreeSlot}
        status2 == [s \in Sessions |-> IF s \in R THEN "Saving" ELSE status[s]]
        slots2 == [p \in Paths |->
            IF wants(p) = {} THEN slots[p]
            ELSE LET s == CHOOSE t \in wants(p) : TRUE
                 IN  IF slots[p] = FreeSlot THEN QueuedSave(s)
                     ELSE [slots[p] EXCEPT !.pending = s, !.sync = @ \/ sync]]
    IN  /\ unpersisted' = dirty \cup R
        /\ saveStatus' = status2
        /\ savesInFlight' = slots2
        /\ worker' = [s \in Sessions |-> IF s \in starts THEN start[s] ELSE tasks[s]]
        /\ IF R = {} THEN stalled' = stalled
           ELSE IF Cardinality(R) = 1 THEN PublishStalled(live, status2, slots)
           ELSE stalled' = NoPath

\* The task an ordinary save of session s runs: the latest document as it is.
SaveTasks(docs, sync) ==
    [s \in Sessions |-> NewWorker(s, "save", docs[s], docs[s], sync)]

-----------------------------------------------------------------------------
(* Opening, switching and parking. *)

Init ==
    /\ vault = [status |-> "Empty", path |-> NoPath]
    /\ active = NoSession
    /\ parked = {}
    /\ deferredLock = {}
    /\ unpersisted = {}
    /\ lockRequested = FALSE
    /\ stuck = FALSE
    /\ reading = {}
    /\ path = [s \in Sessions |-> NoPath]
    /\ doc = [s \in Sessions |-> {}]
    /\ storage = [s \in Sessions |-> {}]
    /\ saveStatus = [s \in Sessions |-> "Idle"]
    /\ savesInFlight = [p \in Paths |-> FreeSlot]
    /\ worker = [s \in Sessions |-> IdleWorker]
    /\ favicon = NoSession
    /\ stalled = NoPath
    /\ armed = FALSE
    /\ disk = [p \in Paths |-> {}]
    /\ platter = [p \in Paths |-> {}]
    /\ issued = {}
    /\ made = [s \in Sessions |-> {}]
    /\ owed = [s \in Sessions |-> {}]
    /\ pushed = [s \in Sessions |-> {}]
    /\ fate = [s \in Sessions |-> "unopened"]
    /\ told = {}
    /\ untold = FALSE
    /\ failures = 0
    /\ restarts = 0

\* Mutant: the active slot is parked even when it holds no open vault.
ParkAlways ==
    /\ active' = NoSession
    /\ parked' = parked \cup {active}

\* park_active
ParkActive ==
    /\ active' = NoSession
    /\ parked' = IF active = NoSession THEN parked ELSE parked \cup {active}

\* request_password: ask for the password of a file that is not unlocked.
RequestPassword(p) ==
    /\ vault.status # "LockedPendingSave"
    /\ ~Unlocked(p)
    /\ ParkActive
    /\ vault' = [status |-> "AwaitingPassword", path |-> p]
    /\ reading' = {}
    /\ UNCHANGED <<deferredLock, lockRequested, stuck, path, doc, storage, coordinator,
                   worker, favicon, quitVeto, disk, platter, history, fate, bounds>>

\* switch_to_unlocked, and rehydrate_most_recent_park for the same move from
\* an unlock screen.
SwitchToUnlocked(s) ==
    /\ s \in parked
    /\ active' = s
    /\ parked' = (IF active = NoSession THEN parked ELSE parked \cup {active}) \ {s}
    /\ vault' = [status |-> "Open", path |-> path[s]]
    /\ reading' = {}
    /\ UNCHANGED <<deferredLock, lockRequested, stuck, path, doc, storage, coordinator,
                   worker, favicon, quitVeto, disk, platter, history, fate, bounds>>

\* Mutant: begin_open without switch_to_unlocked first.
BeginOpenTwice(p) ==
    /\ vault.status # "LockedPendingSave"
    /\ vault # [status |-> "Opening", path |-> p]
    /\ ParkActive
    /\ vault' = [status |-> "Opening", path |-> p]
    /\ reading' = {}
    /\ UNCHANGED <<deferredLock, lockRequested, stuck, path, doc, storage, coordinator,
                   worker, favicon, quitVeto, disk, platter, history, fate, bounds>>

\* begin_open: start a numbered open attempt; the file is read in background.
BeginOpen(p) ==
    /\ vault.status # "LockedPendingSave"
    /\ ~Unlocked(p)
    /\ vault # [status |-> "Opening", path |-> p]
    /\ ParkActive
    /\ vault' = [status |-> "Opening", path |-> p]
    /\ reading' = {}
    /\ UNCHANGED <<deferredLock, lockRequested, stuck, path, doc, storage, coordinator,
                   worker, favicon, quitVeto, disk, platter, history, fate, bounds>>

ReadVault ==
    /\ vault.status = "Opening"
    /\ reading = {}
    /\ reading' = {disk[vault.path]}
    /\ UNCHANGED <<vault, active, parked, deferredLock, lockRequested, stuck, path, doc,
                   storage, coordinator, worker, favicon, quitVeto, disk, platter,
                   history, fate, bounds>>

\* finish_open_attempt with a decrypted document: a new session id.
FinishOpen(s) ==
    /\ vault.status = "Opening"
    /\ fate[s] = "unopened"
    /\ \E read \in reading :
        /\ doc' = [doc EXCEPT ![s] = read]
        /\ storage' = [storage EXCEPT ![s] = read]
    /\ path' = [path EXCEPT ![s] = vault.path]
    /\ fate' = [fate EXCEPT ![s] = "open"]
    /\ active' = s
    /\ vault' = [status |-> "Open", path |-> vault.path]
    /\ reading' = {}
    /\ UNCHANGED <<parked, deferredLock, lockRequested, stuck, coordinator, worker,
                   favicon, quitVeto, disk, platter, history, bounds>>

\* finish_open_attempt with an error: back to the unlock screen.
FailOpen ==
    /\ vault.status = "Opening"
    /\ reading # {}
    /\ vault' = [vault EXCEPT !.status = "AwaitingPassword"]
    /\ reading' = {}
    /\ UNCHANGED <<active, parked, deferredLock, lockRequested, stuck, path, doc, storage,
                   coordinator, worker, favicon, quitVeto, disk, platter, history,
                   fate, bounds>>

-----------------------------------------------------------------------------
(* Requests to save. *)

\* A mutation of the active document and the save it triggers in the same
\* turn; "sync" is FALSE for save_async_local_only.
Edit(e, sync) ==
    /\ vault.status = "Open"
    /\ e \in UserEdits \ issued
    /\ issued' = issued \cup {e}
    /\ doc' = [doc EXCEPT ![active] = @ \cup {e}]
    /\ made' = [made EXCEPT ![active] = @ \cup {e}]
    /\ owed' = [owed EXCEPT ![active] = IF sync THEN @ \cup {e} ELSE @]
    /\ RequestSaves({active}, sync, Live, savesInFlight, unpersisted, saveStatus, worker,
                    SaveTasks(doc', sync))
    /\ UNCHANGED <<lifecycle, path, storage, favicon, armed, told, untold, disk, platter,
                   pushed, fate, bounds>>

\* The Save command on an open vault (on_action_save_vault): a retry.
SaveNow ==
    /\ vault.status = "Open"
    /\ RequestSaves({active}, TRUE, Live, savesInFlight, unpersisted, saveStatus, worker,
                    SaveTasks(doc, TRUE))
    /\ UNCHANGED <<lifecycle, path, doc, storage, favicon, armed, told, untold, disk,
                   platter, history, fate, bounds>>

\* commit_merged_for, phase 1: the merge write takes the slot of the file.
\* The remote change reached this session's merge whatever its vault's place.
CommitMerged(s, e) ==
    /\ Current(s)
    /\ e \in MergeEdits \ issued
    /\ savesInFlight[path[s]] = FreeSlot
    /\ issued' = issued \cup {e}
    /\ RequestSaves({s}, FALSE, Live, savesInFlight, unpersisted, saveStatus, worker,
            [t \in Sessions |-> NewWorker(t, "merge", doc[t] \cup {e}, doc[t], TRUE)])
    /\ UNCHANGED <<lifecycle, path, doc, storage, favicon, armed, told, untold, disk,
                   platter, made, owed, pushed, fate, bounds>>

\* commit_merged_for on a taken slot or a stale base: save the latest instead.
\* The change it had merged stays on the server.
CommitMergedLate(s, e) ==
    /\ Current(s)
    /\ e \in MergeEdits \ issued
    /\ issued' = issued \cup {e}
    /\ RequestSaves({s}, TRUE, Live, savesInFlight, unpersisted, saveStatus, worker,
                    SaveTasks(doc, TRUE))
    /\ UNCHANGED <<lifecycle, path, doc, storage, favicon, armed, told, untold, disk,
                   platter, made, owed, pushed, fate, bounds>>

\* start_favicon_download: a run of sequential fetches for the active vault.
StartFavicons ==
    /\ vault.status = "Open"
    /\ favicon = NoSession
    /\ IconEdits \ issued # {}
    /\ favicon' = active
    /\ UNCHANGED <<lifecycle, path, doc, storage, coordinator, worker, quitVeto, disk,
                   platter, history, fate, bounds>>

\* One fetch of the run landed and is not the last: the icon goes into the
\* document and the session is marked, but no save is requested yet.
LandIcon(e) ==
    /\ favicon # NoSession
    /\ Current(favicon)
    /\ e \in IconEdits \ issued
    /\ issued' = issued \cup {e}
    /\ doc' = [doc EXCEPT ![favicon] = @ \cup {e}]
    /\ made' = [made EXCEPT ![favicon] = @ \cup {e}]
    /\ unpersisted' = unpersisted \cup {favicon}
    /\ UNCHANGED <<lifecycle, path, storage, saveStatus, savesInFlight, worker, favicon,
                   quitVeto, disk, platter, owed, pushed, fate, bounds>>

\* The run ends: one save for all icons, or nothing once the session is gone.
FinishFavicons ==
    /\ favicon # NoSession
    /\ favicon' = NoSession
    /\ IF Current(favicon) /\ made[favicon] \cap IconEdits # {}
         THEN RequestSaves({favicon}, TRUE, Live, savesInFlight, unpersisted, saveStatus,
                           worker, SaveTasks(doc, TRUE))
         ELSE UNCHANGED <<coordinator, worker, stalled>>
    /\ UNCHANGED <<lifecycle, path, doc, storage, armed, told, untold, disk, platter,
                   history, fate, bounds>>

-----------------------------------------------------------------------------
(* Locking. *)

\* lock_vault_now: every decrypted session goes; each ends with the given fate.
WipeSessions(end) ==
    /\ vault' = [status |-> "Empty", path |-> NoPath]
    /\ active' = NoSession
    /\ parked' = {}
    /\ deferredLock' = {}
    /\ lockRequested' = FALSE
    /\ stuck' = FALSE
    /\ reading' = {}
    /\ favicon' = NoSession
    /\ fate' = [s \in Sessions |-> IF Retained(s) THEN end ELSE fate[s]]

\* quarantine_sessions_for_deferred_lock: access ends now; only sessions with
\* save work stay, out of reach of every vault lookup.
Quarantine ==
    IF vault.status = "LockedPendingSave"
      THEN UNCHANGED <<vault, active, parked, deferredLock, stuck, reading, fate>>
      ELSE LET kept == {s \in Sessions : Current(s) /\ (s \in unpersisted \/ InQueue(s, savesInFlight))}
           IN  /\ vault' = [status |-> "LockedPendingSave", path |-> NoPath]
               /\ active' = NoSession
               /\ parked' = {}
               /\ deferredLock' = deferredLock \cup kept
               /\ stuck' = FALSE
               /\ reading' = {}
               /\ fate' = [s \in Sessions |->
                              IF Current(s) /\ s \notin kept THEN "locked" ELSE fate[s]]

\* Mutant: the deferred lock clears the writer slots as it clears the sync
\* requests in flight.
LockVaultForgetsWriters ==
    IF HasUnpersistedWork
      THEN /\ lockRequested' = TRUE
           /\ Quarantine
           /\ RequestSaves({s \in unpersisted : ~InQueue(s, savesInFlight)}, FALSE,
                           {s \in Sessions : s \in deferredLock'},
                           [p \in Paths |-> FreeSlot], unpersisted, saveStatus, worker,
                           SaveTasks(doc, FALSE))
           /\ UNCHANGED favicon
      ELSE /\ WipeSessions("locked")
           /\ UNCHANGED <<coordinator, worker, stalled>>

\* lock_vault: the Lock command, the idle timer, the screen lock, closing the
\* window.  With save work left it quarantines and retries what failed; the
\* Save command of the deferred-lock screen is the retry alone.
LockVault ==
    IF HasUnpersistedWork
      THEN /\ lockRequested' = TRUE
           /\ Quarantine
           /\ RequestSaves({s \in unpersisted : ~InQueue(s, savesInFlight)}, FALSE,
                           {s \in Sessions : s \in deferredLock'},
                           savesInFlight, unpersisted, saveStatus, worker,
                           SaveTasks(doc, FALSE))
           /\ UNCHANGED favicon
      ELSE /\ WipeSessions("locked")
           /\ UNCHANGED <<coordinator, worker, stalled>>

Lock ==
    /\ LockVault
    /\ UNCHANGED <<path, doc, storage, armed, told, untold, disk, platter, history, bounds>>

\* The deferred lock has waited DEFERRED_LOCK_STUCK_AFTER.
DeferredLockStuck ==
    /\ vault.status = "LockedPendingSave"
    /\ ~stuck
    /\ stuck' = TRUE
    /\ UNCHANGED <<vault, active, parked, deferredLock, lockRequested, reading, path, doc,
                   storage, coordinator, worker, favicon, quitVeto, disk, platter,
                   history, fate, bounds>>

\* refresh_locked_pending_save_status: the status the deferred-lock screen shows.
LockedStatusFailed == \E s \in deferredLock : saveStatus[s] = "Failed"

DiscardGateOpen ==
    /\ vault.status = "LockedPendingSave"
    /\ \/ LockedStatusFailed /\ AllFree(savesInFlight)
       \/ stuck

PublicationStarted(w) == w.abort \in {"Publishing", "Published"}

Writers == {s \in Sessions : \E p \in Paths : savesInFlight[p].owner = s}

\* Mutant: the discard forgets to abort the writer it leaves behind.
LeaveRunning(w) == w

\* SaveAbortHandle::try_abort
TryAbort(w) == IF w.abort = "Writing" THEN [w EXCEPT !.abort = "Aborted"] ELSE w

\* can_discard_deferred_saves: the screen offers the discard.
CanDiscard == DiscardGateOpen /\ ~\E s \in Writers : PublicationStarted(worker[s])

\* discard_deferred_saves_and_lock_now, once every writer is aborted.
DiscardAndLock ==
    /\ DiscardGateOpen
    /\ \A s \in Writers : ~PublicationStarted(worker[s])
    /\ worker' = [s \in Sessions |-> IF s \in Writers THEN TryAbort(worker[s]) ELSE worker[s]]
    /\ unpersisted' = {}
    /\ savesInFlight' = [p \in Paths |-> FreeSlot]
    /\ WipeSessions("discarded")
    /\ UNCHANGED <<path, doc, storage, saveStatus, quitVeto, disk, platter, history, bounds>>

\* The same call when a writer already claimed publication: the others are
\* aborted, nothing is dropped.
DiscardRaced ==
    /\ DiscardGateOpen
    /\ \E s \in Writers : PublicationStarted(worker[s])
    /\ worker' = [s \in Sessions |-> IF s \in Writers THEN TryAbort(worker[s]) ELSE worker[s]]
    /\ UNCHANGED <<lifecycle, path, doc, storage, coordinator, favicon, quitVeto, disk,
                   platter, history, fate, bounds>>

-----------------------------------------------------------------------------
(* The background writer: save_to_with_abort. *)

HoldsFileLock(s) == worker[s].phase = "writing"

WorkerOnly ==
    UNCHANGED <<lifecycle, path, doc, coordinator, favicon, quitVeto, history, fate, restarts>>

Settle(s, outcome) ==
    worker' = [worker EXCEPT ![s] = [@ EXCEPT !.phase = "done", !.outcome = outcome]]

\* Mutant: the task does not look at the file again after encoding.
WorkerClaimBlind(s) ==
    /\ HoldsFileLock(s)
    /\ ~PublicationStarted(worker[s])
    /\ IF worker[s].abort = "Writing"
         THEN worker' = [worker EXCEPT ![s] = [@ EXCEPT !.abort = "Publishing"]]
         ELSE Settle(s, "failed")
    /\ WorkerOnly
    /\ UNCHANGED <<storage, disk, platter, failures>>

\* Mutant: the task does not wait for the file locks.
WorkerBeginBlind(s) ==
    /\ worker[s].phase = "queued"
    /\ IF storage[s] = worker[s].expected /\ disk[path[s]] = worker[s].expected
         THEN worker' = [worker EXCEPT ![s] = [@ EXCEPT !.phase = "writing"]]
         ELSE Settle(s, "failed")
    /\ WorkerOnly
    /\ UNCHANGED <<storage, disk, platter, failures>>

\* Take the storage guard and both file locks, check the document's revision
\* and the file's: a stale payload or a changed file ends the save.
WorkerBegin(s) ==
    /\ worker[s].phase = "queued"
    /\ ~\E t \in Sessions : path[t] = path[s] /\ HoldsFileLock(t)
    /\ IF storage[s] = worker[s].expected /\ disk[path[s]] = worker[s].expected
         THEN worker' = [worker EXCEPT ![s] = [@ EXCEPT !.phase = "writing"]]
         ELSE Settle(s, "failed")
    /\ WorkerOnly
    /\ UNCHANGED <<storage, disk, platter, failures>>

\* The bytes are encoded and synced in a temporary file: recheck the target
\* and claim publication, unless a discard already aborted the save.
WorkerClaim(s) ==
    /\ HoldsFileLock(s)
    /\ ~PublicationStarted(worker[s])
    /\ IF disk[path[s]] = worker[s].expected /\ worker[s].abort = "Writing"
         THEN worker' = [worker EXCEPT ![s] = [@ EXCEPT !.abort = "Publishing"]]
         ELSE Settle(s, "failed")
    /\ WorkerOnly
    /\ UNCHANGED <<storage, disk, platter, failures>>

\* Rename over the vault, record the new revision, sync the directory.  The
\* directory sync may fail: then the bytes are visible but not durable.
WorkerPublish(s) ==
    /\ HoldsFileLock(s)
    /\ worker[s].abort = "Publishing"
    /\ disk' = [disk EXCEPT ![path[s]] = worker[s].payload]
    /\ storage' = [storage EXCEPT ![s] = worker[s].payload]
    /\ \/ /\ platter' = [platter EXCEPT ![path[s]] = worker[s].payload]
          /\ worker' = [worker EXCEPT ![s] = [@ EXCEPT !.phase = "done", !.abort = "Published",
                                                      !.outcome = "durable"]]
          /\ UNCHANGED failures
       \/ /\ failures < MaxFailures
          /\ failures' = failures + 1
          /\ worker' = [worker EXCEPT ![s] = [@ EXCEPT !.phase = "done", !.abort = "Published",
                                                      !.outcome = "unsynced"]]
          /\ UNCHANGED platter
    /\ WorkerOnly

\* Any other error of the task: a lock not granted in time, a failed write of
\* the temporary file, a failed rename.
WorkerFails(s) ==
    /\ worker[s].phase \in {"queued", "writing"}
    /\ failures < MaxFailures
    /\ failures' = failures + 1
    /\ Settle(s, "failed")
    /\ WorkerOnly
    /\ UNCHANGED <<storage, disk, platter>>

-----------------------------------------------------------------------------
(* The completion callbacks. *)

OwnsSlot(s) == savesInFlight[path[s]].owner = s

Released(s) == [savesInFlight EXCEPT ![path[s]] = FreeSlot]

\* Mutant: a published save counts as durable whatever its directory says.
DurableOncePublished(s) == worker[s].outcome \in {"durable", "unsynced"}

\* SaveReceipt::is_durable
Durable(s) == worker[s].outcome = "durable"

\* apply_save_status_for_session reaches a session that is still retained.
StatusAfter(s) == [saveStatus EXCEPT ![s] = IF Durable(s) THEN "Saved" ELSE "Failed"]

ToldAfter(s) == IF Durable(s) THEN told \ {path[s]} ELSE told

\* Mutant: a settled save clears the mark whatever its result.
DirtyAfterAny(s) == unpersisted \ {s}

\* mark_vault_session_persisted
DirtyAfter(s) == IF Durable(s) THEN unpersisted \ {s} ELSE unpersisted
DeferredAfter(s) == IF Durable(s) THEN deferredLock \ {s} ELSE deferredLock

\* Mutant: the trailing save keeps only the wish of the save that ran.
TrailingSyncOfOwner(s) == worker[s].sync

\* The trailing save pushes if its queue or the save that ran wanted to.
TrailingSync(s) == savesInFlight[path[s]].sync \/ worker[s].sync

EndOfTask(s) == [worker EXCEPT ![s] = IdleWorker]

\* A callback that finds its slot gone or owned by a newer session.
StaleCallback(s) ==
    /\ worker[s].phase = "done"
    /\ ~OwnsSlot(s)
    /\ worker' = EndOfTask(s)
    /\ UNCHANGED <<lifecycle, path, doc, storage, coordinator, favicon, quitVeto, disk,
                   platter, history, fate, bounds>>

\* More requests came in while the save ran: one trailing save of the latest
\* document, which carries the cloud push as well.
SaveDonePending(s) ==
    /\ worker[s].phase = "done" /\ worker[s].kind = "save" /\ OwnsSlot(s)
    /\ LET again == savesInFlight[path[s]].pending
           dirty == IF again = s THEN unpersisted ELSE DirtyAfter(s)
       IN  /\ again # NoSession
           /\ deferredLock' = IF again = s THEN deferredLock ELSE DeferredAfter(s)
           /\ \E sync \in BOOLEAN :
                 /\ sync = TrailingSync(s)
                 /\ RequestSaves({again}, sync, Live, Released(s), dirty, StatusAfter(s),
                                 EndOfTask(s), SaveTasks(doc, sync))
    /\ told' = ToldAfter(s)
    /\ UNCHANGED <<vault, active, parked, lockRequested, stuck, reading, path, doc, storage, favicon, armed, untold, disk, platter,
                   history, fate, bounds>>

\* What a settled save leaves: its slot free, its session persisted if the
\* bytes are durable.
SettleSave(s) ==
    /\ unpersisted' = DirtyAfter(s)
    /\ saveStatus' = StatusAfter(s)
    /\ savesInFlight' = Released(s)
    /\ worker' = EndOfTask(s)
    /\ PublishStalled(Live, StatusAfter(s), Released(s))
    /\ told' = ToldAfter(s)

\* Mutant: the lock waits for the save that settled, not for all of them.
LockReadyAfterOne(s) == Durable(s) /\ lockRequested

\* Mutant: nothing looks at the requested lock when a save settles.
LockNeverReady(s) == FALSE

\* finish_deferred_lock_if_ready holds after the save of s settled.
LockReadyAfter(s) ==
    /\ Durable(s)
    /\ lockRequested
    /\ DirtyAfter(s) = {}
    /\ AllFree(Released(s))

\* The last save of a deferred lock: the lock completes, nothing is pushed.
DoneLocks(s) ==
    /\ SettleSave(s)
    /\ LockReadyAfter(s)
    /\ WipeSessions("locked")
    /\ UNCHANGED <<path, storage, armed, untold, disk, platter, issued, made, owed, pushed,
                   bounds>>

\* Otherwise the session stays and, if it can still reach the cloud, the
\* saved bytes are handed to the sync engine.  A quarantined session whose
\* save is durable leaves the quarantine.
DoneStays(s) ==
    /\ SettleSave(s)
    /\ ~LockReadyAfter(s)
    /\ deferredLock' = DeferredAfter(s)
    /\ fate' = [fate EXCEPT ![s] = IF s \in deferredLock \ DeferredAfter(s) THEN "locked" ELSE @]
    /\ pushed' = [pushed EXCEPT ![s] =
                     IF Durable(s) /\ worker[s].sync /\ Current(s)
                       THEN worker[s].payload ELSE @]
    /\ owed' = [owed EXCEPT ![s] = IF Durable(s) THEN @ ELSE {}]
    /\ UNCHANGED <<vault, active, parked, lockRequested, stuck, reading, path, storage,
                   favicon, armed, untold, disk, platter, issued, made, bounds>>

SaveDoneSettled(s) ==
    /\ worker[s].phase = "done" /\ worker[s].kind = "save" /\ OwnsSlot(s)
    /\ savesInFlight[path[s]].pending = NoSession
    /\ DoneLocks(s) \/ DoneStays(s)
    /\ UNCHANGED doc

\* The merge write failed: a quarantined session keeps the merged document
\* for its retry (install_failed_merge_for_deferred_retry); a queued request
\* is served.
MergeFailed(s) ==
    /\ worker[s].phase = "done" /\ worker[s].kind = "merge" /\ OwnsSlot(s)
    /\ worker[s].outcome = "failed"
    /\ LET again == savesInFlight[path[s]].pending
       IN  IF again = NoSession
             THEN /\ doc' = IF s \in deferredLock /\ doc[s] = worker[s].base
                              THEN [doc EXCEPT ![s] = worker[s].payload] ELSE doc
                  /\ owed' = [owed EXCEPT ![s] = {}]
                  /\ SettleSave(s)
             ELSE /\ UNCHANGED <<doc, owed, told>>
                  /\ RequestSaves({again}, TRUE, Live, Released(s), unpersisted,
                                  StatusAfter(s), EndOfTask(s), SaveTasks(doc, TRUE))
    /\ UNCHANGED <<lifecycle, path, storage, favicon, armed, untold, disk, platter, issued,
                   made, pushed, fate, bounds>>

\* Mutant: the generation is not compared again after the write.
MergeBaseNeverMoves(s) == FALSE

\* The document changed since the merge was computed (base_generation).
MergeBaseMoved(s) == doc[s] # worker[s].base

\* The merged file was written but the document moved on: save the latest
\* document over it; the next push meets the remote again.
MergeOutdated(s) ==
    /\ worker[s].phase = "done" /\ worker[s].kind = "merge" /\ OwnsSlot(s)
    /\ worker[s].outcome # "failed"
    /\ MergeBaseMoved(s)
    /\ RequestSaves({s}, TRUE, Live, Released(s), unpersisted, saveStatus,
                    EndOfTask(s), SaveTasks(doc, TRUE))
    /\ UNCHANGED <<lifecycle, path, doc, storage, favicon, armed, told, untold, disk,
                   platter, history, fate, bounds>>

\* The merged document is installed; then as after an ordinary save.  The
\* upload of phase 2 counts as the push.
MergeInstalled(s) ==
    /\ worker[s].phase = "done" /\ worker[s].kind = "merge" /\ OwnsSlot(s)
    /\ worker[s].outcome # "failed"
    /\ ~MergeBaseMoved(s)
    /\ doc' = [doc EXCEPT ![s] = worker[s].payload]
    /\ LET again == savesInFlight[path[s]].pending
       IN  \/ /\ again # NoSession
              /\ RequestSaves({again}, TRUE, Live, Released(s), unpersisted,
                              StatusAfter(s), EndOfTask(s), SaveTasks(doc', TRUE))
              /\ told' = ToldAfter(s)
              /\ UNCHANGED <<lifecycle, path, storage, favicon, armed, untold, disk,
                             platter, history, fate, bounds>>
           \/ /\ again = NoSession
              /\ DoneLocks(s) \/ DoneStays(s)

-----------------------------------------------------------------------------
(* The world around the application. *)

\* Another program replaces the file with its own change added.  It may run
\* while a writer encodes; the model leaves it out of the instant between
\* the writer's last check and its rename.
ForeignWrite(p, e) ==
    /\ e \in ForeignEdits \ issued
    /\ ~\E s \in Sessions : path[s] = p /\ HoldsFileLock(s) /\ worker[s].abort = "Publishing"
    /\ issued' = issued \cup {e}
    /\ disk' = [disk EXCEPT ![p] = @ \cup {e}]
    /\ platter' = [platter EXCEPT ![p] = disk[p] \cup {e}]
    /\ UNCHANGED <<lifecycle, path, doc, storage, coordinator, worker, favicon, quitVeto,
                   made, owed, pushed, fate, bounds>>

\* The process ends; a new one starts with the files as they are.
Restart(end, files) ==
    /\ restarts < MaxRestarts
    /\ restarts' = restarts + 1
    /\ WipeSessions(end)
    /\ unpersisted' = {}
    /\ savesInFlight' = [p \in Paths |-> FreeSlot]
    /\ worker' = [s \in Sessions |-> IdleWorker]
    /\ stalled' = NoPath
    /\ armed' = FALSE
    /\ disk' = files
    /\ UNCHANGED <<path, doc, storage, saveStatus, history, failures>>

\* block_lifecycle_action_while_saving over a stalled save: told once, armed.
RefuseQuit ==
    /\ restarts < MaxRestarts
    /\ unpersisted # {}
    /\ stalled # NoPath
    /\ ~armed
    /\ armed' = TRUE
    /\ told' = told \cup {stalled}
    /\ UNCHANGED <<lifecycle, path, doc, storage, coordinator, worker, favicon, stalled,
                   untold, disk, platter, history, fate, bounds>>

\* request_quit with nothing unsaved.
Quit ==
    /\ unpersisted = {}
    /\ Restart("quit", disk)
    /\ UNCHANGED <<platter, told, untold>>

\* request_quit repeated over a stalled save: let them out.
QuitAnyway ==
    /\ unpersisted # {}
    /\ stalled # NoPath
    /\ armed
    /\ untold' = (untold \/ stalled \notin told)
    /\ told' = {}
    /\ Restart("abandoned", disk)
    /\ UNCHANGED platter

\* request_window_close: the same veto, then every vault locks.
CloseWindow ==
    /\ restarts < MaxRestarts
    /\ armed
    /\ unpersisted = {} \/ stalled # NoPath
    /\ armed' = FALSE
    /\ LockVault
    /\ UNCHANGED <<path, doc, storage, told, untold, disk, platter, history, bounds>>

\* A crash or a power loss: a rename whose directory was never synced may be
\* undone.
Crash ==
    /\ \E lost \in SUBSET Paths :
          LET files == [p \in Paths |-> IF p \in lost THEN platter[p] ELSE disk[p]]
          IN  Restart("crashed", files) /\ platter' = files
    /\ told' = {}
    /\ UNCHANGED untold

-----------------------------------------------------------------------------
WorkerStep(s) == WorkerBegin(s) \/ WorkerClaim(s) \/ WorkerPublish(s)

Callback(s) ==
    \/ StaleCallback(s)
    \/ SaveDonePending(s)
    \/ SaveDoneSettled(s)
    \/ MergeFailed(s)
    \/ MergeOutdated(s)
    \/ MergeInstalled(s)

Next ==
    \/ \E p \in Paths : RequestPassword(p) \/ BeginOpen(p)
    \/ \E s \in Sessions : SwitchToUnlocked(s) \/ FinishOpen(s)
    \/ ReadVault \/ FailOpen
    \/ \E e \in UserEdits, sync \in BOOLEAN : Edit(e, sync)
    \/ SaveNow
    \/ \E s \in Sessions, e \in MergeEdits : CommitMerged(s, e) \/ CommitMergedLate(s, e)
    \/ StartFavicons \/ FinishFavicons
    \/ \E e \in IconEdits : LandIcon(e)
    \/ Lock \/ DeferredLockStuck \/ DiscardAndLock \/ DiscardRaced
    \/ \E s \in Sessions : WorkerStep(s) \/ WorkerFails(s) \/ Callback(s)
    \/ \E p \in Paths, e \in ForeignEdits : ForeignWrite(p, e)
    \/ RefuseQuit \/ Quit \/ QuitAnyway \/ CloseWindow \/ Crash

Spec == Init /\ [][Next]_vars

\* The executor runs background tasks and their callbacks to completion.
FairSpec ==
    /\ Spec
    /\ \A s \in Sessions : WF_vars(WorkerStep(s)) /\ WF_vars(Callback(s))

-----------------------------------------------------------------------------
(***************************************************************************)
(* Properties.                                                             *)
(***************************************************************************)

Statuses == {"Empty", "AwaitingPassword", "Opening", "Open", "LockedPendingSave"}
Fates == {"unopened", "open", "locked", "discarded", "quit", "abandoned", "crashed"}
Worker == [phase : {"idle", "queued", "writing", "done"}, kind : {"save", "merge"},
           payload : Contents, base : Contents, expected : Contents, sync : BOOLEAN,
           abort : {"Writing", "Publishing", "Published", "Aborted"},
           outcome : {"none", "failed", "durable", "unsynced"}]
Slot == [owner : Sessions \cup {NoSession}, pending : Sessions \cup {NoSession},
         sync : BOOLEAN]

WindowType ==
    /\ vault \in [status : Statuses, path : Paths \cup {NoPath}]
    /\ active \in Sessions \cup {NoSession}
    /\ parked \in SUBSET Sessions
    /\ deferredLock \in SUBSET Sessions
    /\ lockRequested \in BOOLEAN
    /\ stuck \in BOOLEAN
    /\ reading \in SUBSET Contents

SessionType ==
    /\ path \in [Sessions -> Paths \cup {NoPath}]
    /\ doc \in [Sessions -> Contents]
    /\ storage \in [Sessions -> Contents]
    /\ favicon \in Sessions \cup {NoSession}
    /\ fate \in [Sessions -> Fates]

CoordinatorType ==
    /\ unpersisted \in SUBSET Sessions
    /\ saveStatus \in [Sessions -> {"Idle", "Saving", "Saved", "Failed"}]
    /\ savesInFlight \in [Paths -> Slot]
    /\ worker \in [Sessions -> Worker]

QuitType ==
    /\ stalled \in Paths \cup {NoPath}
    /\ armed \in BOOLEAN
    /\ told \in SUBSET (Paths \cup {NoPath})
    /\ untold \in BOOLEAN

FileType ==
    /\ disk \in [Paths -> Contents]
    /\ platter \in [Paths -> Contents]

HistoryType ==
    /\ issued \in Contents
    /\ made \in [Sessions -> Contents]
    /\ owed \in [Sessions -> Contents]
    /\ pushed \in [Sessions -> Contents]
    /\ failures \in Nat
    /\ restarts \in Nat

\* Every variable holds what its Rust type allows.
TypeOK ==
    WindowType /\ SessionType /\ CoordinatorType /\ QuitType /\ FileType /\ HistoryType

\* request_password: "Never create a second decrypted session for the same
\* file."  Whatever opens, parks, locks and reopens, two retained sessions
\* never share a file.
OneSessionPerFile ==
    \A s, t \in Sessions : Retained(s) /\ Retained(t) /\ path[s] = path[t] => s = t

\* The quit veto only counts unpersisted sessions, so it must see every
\* writer: whoever owns or waits for a slot is unpersisted, and whoever is
\* unpersisted is still retained, so a retry or a discard can reach it.
SaveWorkIsCounted ==
    /\ \A p \in Paths : {savesInFlight[p].owner, savesInFlight[p].pending}
                           \subseteq unpersisted \cup {NoSession}
    /\ \A s \in unpersisted : Retained(s)

\* A lock or a quit never loses an edit.  Once a session ended without the
\* user giving its changes up, every change made in it is on the platter and
\* stays there, whatever later sessions, aborted writers, failing
\* directories, merges, other programs and crashes do.
NothingSilentlyLost ==
    \A s \in Sessions : fate[s] \in {"locked", "quit"} =>
        (made[s] \ IconEdits) \subseteq platter[path[s]]

\* The same for a session that is open and counted as persisted: what the
\* status bar calls saved would survive a power loss.
PersistedIsDurable ==
    \A s \in Sessions : Retained(s) /\ s \notin unpersisted =>
        (made[s] \ IconEdits) \subseteq platter[path[s]]

\* verify_disk_revision before and after encoding: no writer replaces a
\* change another program made in the file.
ForeignEditsKept ==
    [][\A p \in Paths : (disk[p] \cap ForeignEdits) \subseteq disk'[p]]_vars

\* SaveAbortHandle: "a successful discard means the bytes never reach the
\* target".  No step after the discard adds a discarded change to the file.
DiscardIsFinal ==
    [][\A s \in Sessions : fate[s] = "discarded" =>
          (disk'[path[s]] \cap made[s]) \subseteq disk[path[s]]]_vars

\* The coordinator never lets two payloads of one document race: a task of
\* a retained session that has not started still expects the revision the
\* document is bound to, so StalePayload is unreachable.
NoStalePayload ==
    \A s \in Sessions : Retained(s) /\ worker[s].phase \in {"queued", "writing"} =>
        OwnsSlot(s) /\ worker[s].expected = storage[s]

\* Coalescing never drops a cloud push: in a session whose saves did not
\* fail, once its file is saved and its slot free, every change that asked
\* for a push has been handed to the sync engine.
CloudPushNotForgotten ==
    \A s \in Sessions :
        Current(s) /\ saveStatus[s] = "Saved" /\ savesInFlight[path[s]] = FreeSlot
            => owed[s] \subseteq pushed[s]

\* A deferred lock never wedges: it completes, or its saves have settled as
\* failed and the screen offers to discard them.
DeferredLockResolves ==
    (vault.status = "LockedPendingSave")
        ~> (vault.status # "LockedPendingSave" \/ CanDiscard)

\* The quit that drops a failed save is "the user's call to make once they
\* have been told" of it.
QuitOnlyAfterTold == ~untold

=============================================================================
