------------------------------ MODULE VaultSync ------------------------------
(***************************************************************************)
(* The sync engine of one open vault (state.rs): pushes after a save,      *)
(* pulls by the timer, the decryption of a remote copy, its merge, the     *)
(* conflict screen, the restore of a binding, and the lifecycle of the     *)
(* vault around them.  Other devices change the remote file.               *)
(*                                                                         *)
(* Callbacks run one at a time on the main thread and call each other's    *)
(* methods, so a method is an operator from a state of the application to  *)
(* a state, and an action applies one.  Background tasks are records of    *)
(* app.tasks; each of their steps is an action.                            *)
(*                                                                         *)
(* A database is the set of edits it holds, merged or superseded.  Bytes   *)
(* carry a number of their own: every save encrypts anew.  An etag is the  *)
(* remote it comes from and a number.  Only whether two numbers are equal  *)
(* matters, so a new one is the least that nothing refers to any more.     *)
(***************************************************************************)
EXTENDS Naturals, FiniteSets

CONSTANTS UserEdits,     \* edits the user of this device makes
          DeviceEdits,   \* edits another device uploads
          Clashes,       \* pairs of both that diff reports as a conflict
          Remotes,       \* the remote files this vault may be bound to: 1..n
          MaxExtras,     \* bound: uses of Sync now, failed steps, unlocks after
                         \* the first and publications, together
          Starts,        \* how the vault may be found: "open", "locked"
          None

Etags == [remote : Remotes, n : Nat]

\* Whom a callback belongs to: the vault session and its binding generation.
SyncSessions == [vault : Nat, binding : Nat]

\* What the save of a merge remembers.
MergeMarks == [owner : SyncSessions, etag : Etags, base : Nat, needsUpload : BOOLEAN]

ASSUME StartsAreKnown == Starts \subseteq {"open", "locked"}

ASSUME RemotesAreCounted == 1 \in Remotes /\ Remotes \subseteq Nat /\ IsFiniteSet(Remotes)

\* The two edits of a clash are made apart, and an edit is made by one device.
ASSUME ClashesAreMadeApart ==
    Clashes \subseteq UserEdits \X DeviceEdits /\ UserEdits \cap DeviceEdits = {}

VARIABLES app,        \* the application: see Fields below
          file,       \* the vault file: [edits, rev]
          remotes,    \* the remote files: [edits, etag]
          made,       \* edits made so far
          asked,      \* clashes the user has decided
          extras,      \* how many of what MaxExtras bounds
          saveFailed   \* a save has failed or was not durable

vars == <<app, file, remotes, made, asked, extras, saveFailed>>

(***************************************************************************)
(* app is a record:                                                        *)
(*   place     "locked", "active", "parked", "deferred" (lock waits)       *)
(*   sess      number of the newest vault session                          *)
(*   overlay   "none", "edit", "connect", "conflict"                       *)
(*   doc, gen  the decrypted database and its mutation generation          *)
(*   unsaved   in unpersisted_vault_sessions                               *)
(*   save      the entry of saves_in_flight with its writer, or None       *)
(*   binding   [remote, etag, uploaded] or None; cfg the same on disk      *)
(*   bindGen   sync_binding_generations                                    *)
(*   status, conflict      SyncStatus and what Conflict carries            *)
(*   deferred  deferred_conflicts: an etag or None                         *)
(*   backoff   inside the window of sync_backoff                           *)
(*   token     remote_merges_in_flight: the id of a decryption or None     *)
(*   slot      syncs_in_flight: [owner, pending] or None                   *)
(*   awaiting  pushes_awaiting_restore: a request or None                  *)
(*   auto      in auto_sync_in_flight                                      *)
(*   tasks     background tasks, by id                                     *)
(***************************************************************************)

Busy == {"Syncing", "Connecting", "Restoring", "Conflict"}
Resting == {"Synced", "Idle"}
Statuses == Busy \cup Resting \cup {"Disconnected", "Failed", "Reconnect"}

Edited(edits, rev) == [edits |-> edits, rev |-> rev]

\* Mutant: the sides of the diff are swapped.
ClashingSwapped(local, remote) ==
    {c \in Clashes : c[1] \in remote \ local /\ c[2] \in local \ remote}

\* The clashes a diff of two databases finds: each side holds one edit of the
\* pair the other has never seen.
Clashing(local, remote) ==
    {c \in Clashes : /\ c[1] \in local \ remote
                     /\ c[2] \in remote \ local}

-----------------------------------------------------------------------------
(* Who a callback belongs to. *)

InMemory(a) == a.place \in {"active", "parked"}

SyncSession(a) == [vault |-> a.sess, binding |-> a.bindGen]

\* Mutant: any session of this path will do.
IsCurrentPath(a, session) == InMemory(a)

\* sync_session_is_current
IsCurrent(a, session) == InMemory(a) /\ session = SyncSession(a)

\* Mutant: every task has the same number.
OneId(a) == 1

NewId(a) == CHOOSE i \in 1..(Cardinality(a.tasks) + 1) : \A t \in a.tasks : t.id # i

Spawn(a, task) == [a EXCEPT !.tasks = @ \cup {task}]

Without(a, task) == [a EXCEPT !.tasks = @ \ {task}]

-----------------------------------------------------------------------------
(* The status of the vault, and what it clears with it. *)

\* route_sync_status
Route(a, status) ==
    [a EXCEPT !.status = status,
              !.conflict = IF status = "Conflict" THEN @ ELSE None,
              !.backoff = @ /\ status \notin Resting,
              !.token = IF status \in Resting \cup {"Disconnected", "Syncing"} THEN None ELSE @,
              !.deferred = IF status = "Failed" THEN @ ELSE None]

\* route_sync_status_for_session
RouteFor(a, session, status) == IF IsCurrent(a, session) THEN Route(a, status) ELSE a

\* Mutant: a throttled push only opens the window.
NoteFailureQuietly(a, why) ==
    CASE why = "throttled" -> [a EXCEPT !.backoff = TRUE]
      [] why = "grant"     -> Route(a, "Reconnect")
      [] OTHER             -> Route(a, "Failed")

\* note_sync_failure with record_sync_throttle
NoteFailure(a, why) ==
    CASE why = "throttled" -> Route([a EXCEPT !.backoff = TRUE], "Failed")
      [] why = "grant"     -> Route(a, "Reconnect")
      [] OTHER             -> Route(a, "Failed")

-----------------------------------------------------------------------------
(* Saves: the slot of the file and its writer. *)

NewSave(edits, sync, merge) ==
    [edits |-> edits, sync |-> sync, pending |-> FALSE, pendingSync |-> FALSE,
     merge |-> merge, result |-> "running", rev |-> 0]

\* request_save_for_session, for the session in memory or in quarantine.
RequestSave(a, sync) ==
    IF a.save = None
      THEN [a EXCEPT !.unsaved = TRUE, !.save = NewSave(a.doc, sync, None)]
      ELSE [a EXCEPT !.unsaved = TRUE,
                     !.save = [a.save EXCEPT !.pending = TRUE,
                                             !.pendingSync = a.save.pendingSync \/ sync]]

\* save_should_reach_the_cloud
ReachesCloud(a) == a.binding # None \/ a.status \in Busy \cup {"Failed"}

\* lock_vault_now.  The slot of a push, the mark of a pull and the backoff
\* outlive it, and so do the binding generations.
LockNow(a) ==
    [a EXCEPT !.place = "locked", !.overlay = "none", !.doc = {}, !.binding = None,
              !.status = "Disconnected", !.conflict = None, !.deferred = None,
              !.awaiting = None, !.unsaved = FALSE]

\* quarantine_sessions_for_deferred_lock
Quarantine(a) ==
    [a EXCEPT !.place = "deferred", !.overlay = "none", !.binding = None,
              !.status = "Disconnected", !.conflict = None, !.deferred = None,
              !.awaiting = None, !.slot = None, !.auto = FALSE]

-----------------------------------------------------------------------------
(* Restoring a binding from the configuration on disk. *)

\* try_restore_sync_binding
TryRestore(a) ==
    IF a.binding # None \/ a.cfg = None
      THEN a
      ELSE Spawn(Route(a, "Restoring"),
                 [kind |-> "restore", id |-> NewId(a), owner |-> SyncSession(a),
                  phase |-> "read", answer |-> None])

-----------------------------------------------------------------------------
(* Pushing. *)

PushTask(a, session, interactive, bytes, etag, resolves) ==
    [kind |-> "push", id |-> NewId(a), owner |-> session, interactive |-> interactive,
     bytes |-> bytes, remote |-> a.binding.remote, etag |-> etag, resolves |-> resolves,
     phase |-> "read", answer |-> None]

Request(session, interactive, bytes) ==
    [session |-> session, interactive |-> interactive, bytes |-> bytes]

\* QueuedSync::queue
Coalesce(pending, request) ==
    IF pending # None /\ pending.session = request.session
      THEN [request EXCEPT !.interactive = @ \/ pending.interactive]
      ELSE request

\* sync_now_for_path_inner.  bytes is None when the task reads the file.
PushNow(a, session, interactive, bytes) ==
    LET request == Request(session, interactive, bytes)
    IN  CASE ~IsCurrent(a, session) -> a
          [] IsCurrent(a, session) /\ a.slot # None ->
                [a EXCEPT !.slot = [a.slot EXCEPT !.pending = Coalesce(a.slot.pending, request)]]
          [] IsCurrent(a, session) /\ a.slot = None /\ a.binding = None ->
                IF a.place = "active" THEN TryRestore([a EXCEPT !.awaiting = request]) ELSE a
          [] OTHER ->
                Spawn(Route([a EXCEPT !.slot = [owner |-> session, pending |-> None]], "Syncing"),
                      PushTask(a, session, interactive, bytes, a.binding.etag, FALSE))

\* start_queued_sync
StartQueued(a, request) ==
    IF request = None THEN a
    ELSE PushNow(a, request.session, request.interactive, request.bytes)

\* record_upload_baseline and adopt_fast_forward_baseline, with the
\* configuration their callers write.
RecordBaseline(a, session, etag, rev) ==
    IF IsCurrent(a, session) /\ a.binding # None
      THEN LET binding == [remote |-> a.binding.remote, etag |-> etag, uploaded |-> rev]
           IN  [a EXCEPT !.binding = binding, !.cfg = binding]
      ELSE a

-----------------------------------------------------------------------------
(* Merging a remote copy. *)

\* handle_remote_conflict_for: decrypt in the background.
HandleRemote(a, session, got, interactive) ==
    IF ~IsCurrent(a, session) \/ a.binding = None
      THEN a
      ELSE Spawn([a EXCEPT !.token = NewId(a)],
                 [kind |-> "decrypt", id |-> NewId(a), owner |-> session, local |-> a.doc,
                  base |-> a.gen, theirs |-> got.edits, etag |-> got.etag,
                  interactive |-> interactive])

\* The document a merge was computed from is not the one it would replace.
Outdated(a, base) == a.gen # base \/ a.save # None

\* commit_merged_for up to its spawn.
CommitMerged(a, session, merged, etag, needsUpload, base) ==
    CASE ~IsCurrent(a, session) \/ a.binding = None -> a
      [] IsCurrent(a, session) /\ a.binding # None /\ Outdated(a, base) ->
            RequestSave(Route(a, "Syncing"), TRUE)
      [] OTHER ->
            Route([a EXCEPT !.unsaved = TRUE,
                            !.save = NewSave(merged, FALSE,
                                             [owner |-> session, etag |-> etag, base |-> base,
                                              needsUpload |-> needsUpload])],
                  "Syncing")

\* RemoteMergePlan::of and the three branches of continue_remote_conflict_for
\* for a remote copy that decrypted.
ContinueRemote(a, d) ==
    LET clashes == Clashing(d.local, d.theirs)
    IN  CASE clashes = {} ->
                CommitMerged(a, d.owner, d.local \cup d.theirs, d.etag,
                             ~(d.local \subseteq d.theirs), d.base)
          [] clashes # {} /\ a.place = "active" /\ d.interactive /\ a.overlay # "edit" ->
                Route([a EXCEPT !.overlay = "conflict",
                                !.conflict = [local |-> d.local, theirs |-> d.theirs,
                                              etag |-> d.etag, base |-> d.base,
                                              owner |-> d.owner]],
                      "Conflict")
          [] OTHER -> Route([a EXCEPT !.deferred = d.etag], "Failed")

-----------------------------------------------------------------------------
(* The background timer. *)

\* Mutant: the timer only pulls.
NeverAhead(a) == FALSE

\* local_is_ahead_of_the_cloud
LocalIsAhead(a) == a.binding # None /\ file.rev # a.binding.uploaded

Occupied(a) ==
    \/ a.status \in Busy \/ a.overlay \in {"conflict", "connect"}
    \/ a.auto \/ a.token # None

\* auto_sync_for_path
AutoSync(a) ==
    CASE Occupied(a) -> a
      [] ~Occupied(a) /\ a.status = "Failed" /\ a.deferred = None ->
            IF a.backoff THEN a ELSE PushNow(a, SyncSession(a), FALSE, None)
      [] /\ ~Occupied(a) /\ ~(a.status = "Failed" /\ a.deferred = None)
         /\ LocalIsAhead(a) ->
            PushNow(a, SyncSession(a), FALSE, None)
      [] OTHER ->
            Spawn([a EXCEPT !.auto = TRUE],
                  [kind |-> "pull", id |-> NewId(a), owner |-> SyncSession(a),
                   remote |-> a.binding.remote, etag |-> a.binding.etag,
                   deferred |-> a.deferred, phase |-> "check", answer |-> None])

-----------------------------------------------------------------------------
Etag(remote, n) == [remote |-> remote, n |-> n]

Bind(remote, n, rev) == [remote |-> remote, etag |-> Etag(remote, n), uploaded |-> rev]

\* The vault is open and connected, its file as uploaded; or it is locked, with
\* everything of the other devices in it.
Init ==
    /\ asked = {}
    /\ extras = 0
    /\ saveFailed = FALSE
    /\ \E start \in Starts :
          LET locked == start = "locked"
              known == IF locked THEN DeviceEdits ELSE {}
          IN  /\ made = known
              /\ file = Edited(known, 0)
              /\ remotes = [r \in Remotes |-> [edits |-> IF r = 1 THEN known ELSE {},
                                              etag |-> Etag(r, 0)]]
              /\ app = [place |-> IF locked THEN "locked" ELSE "active",
                        sess |-> IF locked THEN 0 ELSE 1,
                        binding |-> IF locked THEN None ELSE Bind(1, 0, 0),
                        status |-> IF locked THEN "Disconnected" ELSE "Idle",
                        overlay |-> "none", doc |-> {}, gen |-> 0, unsaved |-> FALSE,
                        save |-> None, cfg |-> Bind(1, 0, 0), bindGen |-> 0,
                        conflict |-> None, deferred |-> None, backoff |-> FALSE,
                        token |-> None, slot |-> None, awaiting |-> None,
                        auto |-> FALSE, tasks |-> {}]

World == <<file, remotes, made, asked>>

Bounds == <<extras, saveFailed>>

Extra == extras < MaxExtras /\ extras' = extras + 1

SaveFails == Extra /\ saveFailed' = TRUE

-----------------------------------------------------------------------------
(* New numbers for bytes, generations and revisions of a remote file. *)

LeastOutside(used) == CHOOSE n \in 1..(Cardinality(used) + 1) : n \notin used

Tasks(kind) == {t \in app.tasks : t.kind = kind}

Bindings ==
    ({app.binding, app.cfg}
        \cup {t.answer.cfg : t \in {u \in Tasks("restore") \cup Tasks("publish") :
                                       u.answer # None /\ u.answer.as = "restored"}})
      \ {None}

QueuedRequests ==
    ({app.awaiting} \cup (IF app.slot = None THEN {} ELSE {app.slot.pending})) \ {None}

BytesHeld ==
    ({t.bytes : t \in Tasks("push") \cup Tasks("publish")} \cup {q.bytes : q \in QueuedRequests}) \ {None}

NewRev ==
    LeastOutside({file.rev} \cup {b.uploaded : b \in Bindings} \cup {b.rev : b \in BytesHeld})

EtagsHeld ==
    {remotes[r].etag : r \in Remotes} \cup {b.etag : b \in Bindings} \cup {app.deferred}
      \cup {t.etag : t \in Tasks("push") \cup Tasks("pull") \cup Tasks("decrypt")}
      \cup {t.deferred : t \in Tasks("pull")}
      \cup {t.answer.etag : t \in {u \in Tasks("push") \cup Tasks("pull") :
                    u.answer # None /\ u.answer.as \in {"synced", "conflict", "pulled"}}}
      \cup (IF app.conflict = None THEN {} ELSE {app.conflict.etag})
      \cup (IF app.save = None \/ app.save.merge = None THEN {} ELSE {app.save.merge.etag})

NewGen ==
    LeastOutside({app.gen} \cup {t.base : t \in Tasks("decrypt")}
                   \cup (IF app.conflict = None THEN {} ELSE {app.conflict.base})
                   \cup (IF app.save = None \/ app.save.merge = None THEN {}
                         ELSE {app.save.merge.base}))

NewEtag(r) ==
    Etag(r, LeastOutside({e.n : e \in {x \in EtagsHeld \ {None} : x.remote = r}}))

-----------------------------------------------------------------------------
(* The user and the other devices. *)

\* A mutation of the active document with the save it requests; sync is FALSE
\* for save_async_local_only.  The two edits of a clash are made apart.
Edit(e, sync) ==
    /\ app.place = "active"
    /\ e \in UserEdits \ made
    /\ \A r \in app.doc : <<e, r>> \notin Clashes
    /\ made' = made \cup {e}
    /\ app' = RequestSave([app EXCEPT !.doc = @ \cup {e}, !.gen = NewGen,
                                      !.overlay = IF @ = "edit" THEN "none" ELSE @], sync)
    /\ UNCHANGED <<file, remotes, asked, Bounds>>

\* Another device merges its edit into the file it downloaded.
DeviceEdit(e, r) ==
    /\ e \in DeviceEdits \ made
    /\ r = 1 \/ remotes[r].etag # Etag(r, 0)
    /\ \A u \in remotes[r].edits : <<u, e>> \notin Clashes
    /\ made' = made \cup {e}
    /\ remotes' = [remotes EXCEPT ![r] = [edits |-> @.edits \cup {e}, etag |-> NewEtag(r)]]
    /\ UNCHANGED <<app, file, asked, Bounds>>

\* on_action_sync_now and sync_now.
SyncNow ==
    /\ app.place = "active"
    /\ app.status \in Resting \cup {"Failed"}
    /\ app' = PushNow(app, SyncSession(app), TRUE, None)
    /\ Extra
    /\ UNCHANGED <<World, saveFailed>>

\* An editor or the Connect overlay opens over the window, or one is left.
OpenOverlay ==
    /\ app.place = "active" /\ app.overlay = "none"
    /\ \E overlay \in {"edit", "connect"} : app' = [app EXCEPT !.overlay = overlay]
    /\ UNCHANGED <<World, Bounds>>

CloseOverlay ==
    /\ app.overlay # "none"
    /\ app' = [app EXCEPT !.overlay = "none"]
    /\ UNCHANGED <<World, Bounds>>

\* apply_conflict_resolution: the user has picked a side of every clash.
Resolve ==
    /\ app.place = "active" /\ app.overlay = "conflict" /\ app.status = "Conflict"
    /\ LET c == app.conflict
       IN  /\ IsCurrent(app, c.owner)
           /\ asked' = asked \cup Clashing(c.local, c.theirs)
           /\ app' = CommitMerged(app, c.owner, c.local \cup c.theirs, c.etag, TRUE, c.base)
    /\ UNCHANGED <<file, remotes, made, Bounds>>

\* The picks do not yield a database: apply_picks refuses.
ResolveBlocked ==
    /\ app.place = "active" /\ app.overlay = "conflict" /\ app.status = "Conflict"
    /\ IsCurrent(app, app.conflict.owner)
    /\ Extra
    /\ app' = [Route(app, "Failed") EXCEPT !.overlay = "none"]
    /\ UNCHANGED <<World, saveFailed>>

\* park_active and unpark: another vault takes the window and gives it back.
Park ==
    /\ app.place = "active"
    /\ app' = [app EXCEPT !.place = "parked", !.overlay = "none"]
    /\ UNCHANGED <<World, Bounds>>

Unpark ==
    /\ app.place = "parked"
    /\ app' = [app EXCEPT !.place = "active", !.overlay = "none"]
    /\ UNCHANGED <<World, Bounds>>

\* lock_vault: at once, or deferred until the last save is durable.
Lock ==
    /\ InMemory(app)
    /\ app' = IF app.unsaved \/ app.save # None
                THEN (IF app.save = None THEN RequestSave(Quarantine(app), FALSE)
                      ELSE Quarantine(app))
                ELSE LockNow(app)
    /\ UNCHANGED <<World, Bounds>>

\* The Save command: a retry on the open vault or on the deferred-lock screen.
RetrySave ==
    /\ app.place \in {"active", "deferred"}
    /\ app.unsaved /\ app.save = None
    /\ app' = RequestSave(app, app.place = "active")
    /\ UNCHANGED <<World, Bounds>>

\* finish_open_attempt: a new session from the file, and its restore.
Unlock ==
    /\ app.place = "locked"
    /\ IF app.sess = 0 THEN UNCHANGED extras ELSE Extra
    /\ app' = TryRestore([app EXCEPT !.place = "active", !.sess = @ + 1,
                                     !.doc = file.edits, !.gen = 0])
    /\ UNCHANGED <<World, saveFailed>>

\* retry_sync_restore: the Retry button of the restore card.
RetryRestore ==
    /\ app.place = "active" /\ app.status = "Failed" /\ app.binding = None
    /\ app' = TryRestore(app)
    /\ UNCHANGED <<World, Bounds>>

\* disconnect_sync with end_sync_relationship.
Disconnect ==
    /\ app.place = "active"
    /\ app.cfg # None
    /\ app' = [Route([app EXCEPT !.binding = None, !.cfg = None], "Disconnected")
                  EXCEPT !.bindGen = @ + 1]
    /\ UNCHANGED <<World, Bounds>>

\* publish_active_to_icloud: connect the open vault to a new remote file.
StartPublish(r) ==
    /\ app.place = "active" /\ app.binding = None
    /\ remotes[r] = [edits |-> {}, etag |-> Etag(r, 0)]
    /\ ~\E t \in app.tasks : t.kind = "publish"
    /\ r # 1
    /\ app' = Spawn(app, [kind |-> "publish", id |-> NewId(app), owner |-> SyncSession(app),
                          remote |-> r, phase |-> "read", bytes |-> None, answer |-> None])
    /\ Extra
    /\ UNCHANGED <<World, saveFailed>>

\* The process ends: what memory and its tasks held is gone.
Crash ==
    /\ app.place # "locked"
    /\ extras < MaxExtras
    /\ app' = [LockNow(app) EXCEPT !.save = None, !.slot = None, !.auto = FALSE,
                                   !.token = None, !.backoff = FALSE, !.bindGen = 0,
                                   !.tasks = {}]
    /\ UNCHANGED <<World, Bounds>>

\* The auto-sync timer (auto_sync_all, for this vault).
Tick ==
    /\ InMemory(app) /\ app.binding # None
    /\ app' = AutoSync(app)
    /\ UNCHANGED <<World, Bounds>>

\* The throttle window ends.
WindowPasses ==
    /\ app.backoff
    /\ app' = [app EXCEPT !.backoff = FALSE]
    /\ UNCHANGED <<World, Bounds>>

-----------------------------------------------------------------------------
(* The writer of a save or of a merge. *)

WriteSave ==
    /\ app.save # None /\ app.save.result = "running"
    /\ file' = Edited(app.save.edits, NewRev)
    /\ \/ /\ app' = [app EXCEPT !.save = [@ EXCEPT !.result = "written", !.rev = NewRev]]
          /\ UNCHANGED Bounds
       \/ /\ SaveFails
          /\ app' = [app EXCEPT !.save = [@ EXCEPT !.result = "undurable", !.rev = NewRev]]
    /\ UNCHANGED <<remotes, asked, made>>

FailSave ==
    /\ app.save # None /\ app.save.result = "running"
    /\ SaveFails
    /\ app' = [app EXCEPT !.save = [@ EXCEPT !.result = "failed"]]
    /\ UNCHANGED World

Finished(kind) ==
    /\ app.save # None /\ app.save.result # "running"
    /\ (app.save.merge = None) = (kind = "save")
    /\ UNCHANGED <<World, Bounds>>

\* The callback of request_save_for_session.
SaveDone ==
    /\ Finished("save")
    /\ LET save == app.save
           freed == [app EXCEPT !.save = None,
                                !.unsaved = save.result # "written" \/ save.pending]
       IN  app' = CASE save.pending -> RequestSave(freed, save.pendingSync \/ save.sync)
                    [] ~save.pending /\ save.result # "written" -> freed
                    [] ~save.pending /\ save.result = "written" /\ app.place = "deferred" ->
                          LockNow(freed)
                    [] OTHER ->
                          IF save.sync /\ InMemory(freed) /\ ReachesCloud(freed)
                            THEN PushNow(freed, SyncSession(freed), TRUE,
                                         Edited(save.edits, save.rev))
                            ELSE freed

\* The callback of phase 1 of commit_merged_for: the write failed.
MergeWriteFailed ==
    /\ Finished("merge")
    /\ app.save.result = "failed"
    /\ LET save == app.save
           kept == ~save.pending /\ app.place = "deferred" /\ app.gen = save.merge.base
           freed == [app EXCEPT !.save = None,
                                !.doc = IF kept THEN save.edits ELSE @,
                                !.gen = IF kept THEN NewGen ELSE @]
           told == RouteFor(freed, save.merge.owner, "Failed")
       IN  app' = IF save.pending THEN RequestSave(told, TRUE) ELSE told

\* Mutant: the generation is not compared again after the write.
NeverMovedOn(merge) == FALSE

\* The document was edited while the merge was written.
MovedOn(merge) == app.gen # merge.base

\* The same callback when the document moved on during the write: the newest
\* state goes over the merged file, and its push merges again.
MergeWriteOutdated ==
    /\ Finished("merge")
    /\ app.save.result # "failed"
    /\ MovedOn(app.save.merge)
    /\ app' = RequestSave([app EXCEPT !.save = None], TRUE)

\* The same callback, the merge installed: adopt the remote revision, or
\* upload what this side contributes.  That upload is not in the slot.
MergeInstalled ==
    /\ Finished("merge")
    /\ app.save.result # "failed"
    /\ ~MovedOn(app.save.merge)
    /\ LET save == app.save
           m == save.merge
           durable == save.result = "written"
           installed == [app EXCEPT !.save = None, !.doc = save.edits, !.gen = NewGen,
                                    !.unsaved = ~durable \/ save.pending]
           told == IF durable THEN installed ELSE RouteFor(installed, m.owner, "Failed")
       IN  app' = CASE save.pending -> RequestSave(told, TRUE)
                    [] ~save.pending /\ ~durable -> told
                    [] ~save.pending /\ durable /\ app.place = "deferred" -> LockNow(told)
                    [] ~save.pending /\ durable /\ InMemory(told) /\ ~m.needsUpload ->
                          RouteFor(RecordBaseline(told, m.owner, m.etag, save.rev),
                                   m.owner, "Synced")
                    [] OTHER ->
                          IF IsCurrent(told, m.owner)
                            THEN Spawn(told, PushTask(told, m.owner, TRUE,
                                                      Edited(save.edits, save.rev),
                                                      m.etag, TRUE))
                            ELSE told

-----------------------------------------------------------------------------
(* The background task of a push: upload_after_save. *)

Step(task, next) == app' = [app EXCEPT !.tasks = (@ \ {task}) \cup {next}]

Answered(task, answer) == Step(task, [task EXCEPT !.phase = "done", !.answer = answer])

TasksOf(kind, phase) == {t \in app.tasks : t.kind = kind /\ t.phase = phase}

\* The bytes: those the save published, or the file as it is now.
PushRead(p) ==
    /\ p \in TasksOf("push", "read")
    /\ Step(p, [p EXCEPT !.phase = "send", !.bytes = IF @ = None THEN file ELSE @])
    /\ UNCHANGED <<World, Bounds>>

\* Mutant: the upload replaces whatever is there.
IfMatchAny(p) == remotes[p.remote].etag

\* The revision an upload replaces.
IfMatch(p) == p.etag

\* A conditional upload: the server takes it only over the revision the
\* caller knows.  The answer to an upload it took may be lost.
PushSend(p) ==
    /\ p \in TasksOf("push", "send")
    /\ IF remotes[p.remote].etag = IfMatch(p)
         THEN /\ remotes' = [remotes EXCEPT ![p.remote] =
                                [edits |-> p.bytes.edits, etag |-> NewEtag(p.remote)]]
              /\ \/ /\ Answered(p, [as |-> "synced", etag |-> remotes'[p.remote].etag])
                    /\ UNCHANGED extras
                 \/ /\ Extra
                    /\ Answered(p, [as |-> "network"])
         ELSE /\ Step(p, [p EXCEPT !.phase = "rejected"])
              /\ UNCHANGED <<remotes, extras>>
    /\ UNCHANGED <<file, asked, made, saveFailed>>

\* After a rejection: the remote copy with the revision it is.
PushDownload(p) ==
    /\ p \in TasksOf("push", "rejected")
    /\ Answered(p, [as |-> "conflict", edits |-> remotes[p.remote].edits,
                    etag |-> remotes[p.remote].etag])
    /\ UNCHANGED <<World, Bounds>>

\* The network, the throttle, a sign-in that ended: at any step.
PushFails(p, why) ==
    /\ p \in app.tasks /\ p.kind = "push" /\ p.phase # "done"
    /\ why \in {"network", "throttled", "grant"}
    /\ Extra
    /\ Answered(p, [as |-> why])
    /\ UNCHANGED <<World, saveFailed>>

\* Mutant: the fingerprint of the file as it is when the answer arrives.
UploadedNow(p) == file.rev

\* local_revision of the bytes that were sent
UploadedRevision(p) == p.bytes.rev

\* What a push answered, to the session that asked (the middle of both
\* callbacks).
TakeAnswer(a, p, interactive) ==
    CASE p.answer.as = "synced" ->
            RouteFor(RecordBaseline(a, p.owner, p.answer.etag, UploadedRevision(p)),
                     p.owner, "Synced")
      [] p.answer.as = "conflict" -> HandleRemote(a, p.owner, p.answer, interactive)
      [] OTHER -> NoteFailure(a, p.answer.as)

\* The callback of sync_now_for_path_inner.
PushDone(p) ==
    /\ p \in TasksOf("push", "done")
    /\ ~p.resolves
    /\ LET a == Without(app, p)
           freed == [a EXCEPT !.slot = None]
           pending == a.slot.pending
           wanted == pending # None /\ pending.session = p.owner /\ pending.interactive
           taken == TakeAnswer(freed, p, p.interactive \/ wanted)
       IN  app' = CASE a.slot = None \/ (a.slot # None /\ a.slot.owner # p.owner) -> a
                    [] a.slot # None /\ a.slot.owner = p.owner /\ ~IsCurrent(a, p.owner) ->
                          StartQueued(freed, pending)
                    [] OTHER ->
                          IF p.answer.as = "synced" THEN StartQueued(taken, pending) ELSE taken
    /\ UNCHANGED <<World, Bounds>>

\* The callback of phase 2 of commit_merged_for.
ResolveDone(p) ==
    /\ p \in TasksOf("push", "done")
    /\ p.resolves
    /\ LET a == Without(app, p)
           closed == [a EXCEPT !.overlay = IF app.place = "active" /\ @ = "conflict"
                                             THEN "none" ELSE @]
       IN  app' = CASE ~IsCurrent(a, p.owner) -> a
                    [] IsCurrent(a, p.owner) /\ p.answer.as = "synced" ->
                          TakeAnswer(closed, p, TRUE)
                    [] IsCurrent(a, p.owner) /\ p.answer.as = "conflict" ->
                          TakeAnswer(Route(a, "Syncing"), p, TRUE)
                    [] OTHER -> TakeAnswer(a, p, TRUE)
    /\ UNCHANGED <<World, Bounds>>

-----------------------------------------------------------------------------
(* The background task of a pull: refresh_check, then download_remote. *)

PullCheck(p) ==
    /\ p \in TasksOf("pull", "check")
    /\ LET etag == remotes[p.remote].etag
       IN  IF etag = p.etag \/ etag = p.deferred
             THEN Answered(p, [as |-> "same"])
             ELSE Step(p, [p EXCEPT !.phase = "ahead"])
    /\ UNCHANGED <<World, Bounds>>

PullDownload(p) ==
    /\ p \in TasksOf("pull", "ahead")
    /\ Answered(p, [as |-> "pulled", edits |-> remotes[p.remote].edits,
                    etag |-> remotes[p.remote].etag])
    /\ UNCHANGED <<World, Bounds>>

PullFails(p, why) ==
    /\ p \in app.tasks /\ p.kind = "pull" /\ p.phase # "done"
    /\ why \in {"network", "grant"}
    /\ Extra
    /\ Answered(p, [as |-> why])
    /\ UNCHANGED <<World, saveFailed>>

\* The callback of auto_sync_for_path.
PullDone(p) ==
    /\ p \in TasksOf("pull", "done")
    /\ LET a == [Without(app, p) EXCEPT !.auto = FALSE]
           mine == IsCurrent(a, p.owner) /\ a.binding # None
           listens == a.deferred # None \/ a.status \in Resting
       IN  app' = CASE mine /\ p.answer.as = "grant" -> Route(a, "Reconnect")
                    [] mine /\ p.answer.as = "same" /\ listens /\ a.deferred = None ->
                          Route(a, "Synced")
                    [] mine /\ p.answer.as = "pulled" /\ listens ->
                          HandleRemote(a, p.owner, p.answer, FALSE)
                    [] OTHER -> a
    /\ UNCHANGED <<World, Bounds>>

-----------------------------------------------------------------------------
(* The decryption of a remote copy, and the restore and publication of a     *)
(* binding.                                                                  *)

\* Mutant: a decryption nobody waits for keeps its mark.
LandedIfCurrent(a, d) == IF IsCurrent(a, d.owner) THEN [a EXCEPT !.token = None] ELSE a

\* A decryption has landed.
Landed(a, d) == [a EXCEPT !.token = None]

\* The callback of handle_remote_conflict_for; unreadable stands for another
\* password, a limit, or a merge that apply_picks refuses.
DecryptDone(d, unreadable) ==
    /\ d \in app.tasks /\ d.kind = "decrypt"
    /\ LET a == Without(app, d)
           mine == Landed(a, d)
       IN  app' = CASE a.token # d.id -> a
                    [] a.token = d.id /\ (~IsCurrent(a, d.owner) \/ a.binding = None) -> mine
                    [] OTHER -> IF unreadable THEN Route(mine, "Failed")
                                ELSE ContinueRemote(mine, d)
    /\ IF unreadable THEN Extra ELSE UNCHANGED extras
    /\ UNCHANGED <<World, saveFailed>>

\* The restore's task: read the configuration, refresh the token, write it.
RestoreRead(t) ==
    /\ t \in TasksOf("restore", "read")
    /\ Answered(t, IF app.cfg = None THEN [as |-> "gone"] ELSE [as |-> "restored", cfg |-> app.cfg])
    /\ UNCHANGED <<World, Bounds>>

RestoreFails(t, why) ==
    /\ t \in TasksOf("restore", "read")
    /\ why \in {"network", "grant"}
    /\ Extra
    /\ Answered(t, [as |-> why])
    /\ UNCHANGED <<World, saveFailed>>

\* finish_sync_binding_restore and replay_push_awaiting_restore.
RestoreDone(t) ==
    /\ t \in TasksOf("restore", "done")
    /\ LET a == Without(app, t)
           bound == Route([a EXCEPT !.binding = t.answer.cfg, !.awaiting = None], "Idle")
       IN  app' = CASE ~IsCurrent(a, t.owner) -> a
                    [] IsCurrent(a, t.owner) /\ t.answer.as = "restored" ->
                          StartQueued(bound, a.awaiting)
                    [] IsCurrent(a, t.owner) /\ t.answer.as = "gone" -> Route(a, "Disconnected")
                    [] OTHER -> Route(a, IF t.answer.as = "grant" THEN "Reconnect" ELSE "Failed")
    /\ UNCHANGED <<World, Bounds>>

\* publish_icloud_binding: the bytes, then the new remote file and its
\* configuration, unless the vault has one.
PublishRead(t) ==
    /\ t \in TasksOf("publish", "read")
    /\ Step(t, [t EXCEPT !.phase = "write", !.bytes = file])
    /\ UNCHANGED <<World, Bounds>>

PublishWrite(t) ==
    /\ t \in TasksOf("publish", "write")
    /\ IF app.cfg # None
         THEN /\ Answered(t, [as |-> "refused"])
              /\ UNCHANGED remotes
         ELSE LET etag == NewEtag(t.remote)
                  binding == [remote |-> t.remote, etag |-> etag, uploaded |-> t.bytes.rev]
                  done == [t EXCEPT !.phase = "done",
                                    !.answer = [as |-> "restored", cfg |-> binding]]
              IN  /\ remotes' = [remotes EXCEPT ![t.remote] = [edits |-> t.bytes.edits, etag |-> etag]]
                  /\ app' = [app EXCEPT !.cfg = binding, !.tasks = (@ \ {t}) \cup {done}]
    /\ UNCHANGED <<file, asked, made, Bounds>>

\* apply_icloud_publish_result
PublishDone(t) ==
    /\ t \in TasksOf("publish", "done")
    /\ LET a == Without(app, t)
       IN  app' = CASE ~IsCurrent(a, t.owner) -> a
                    [] IsCurrent(a, t.owner) /\ t.answer.as = "refused" -> Route(a, "Failed")
                    [] OTHER -> Route([a EXCEPT !.binding = t.answer.cfg], "Idle")
    /\ UNCHANGED <<World, Bounds>>

-----------------------------------------------------------------------------
User ==
    \/ \E e \in UserEdits, sync \in BOOLEAN : Edit(e, sync)
    \/ SyncNow \/ OpenOverlay \/ CloseOverlay \/ Resolve \/ ResolveBlocked \/ Park \/ Unpark \/ Lock
    \/ RetrySave \/ Unlock \/ RetryRestore \/ Disconnect
    \/ \E r \in Remotes : StartPublish(r)

Writer == WriteSave \/ SaveDone \/ MergeWriteFailed \/ MergeWriteOutdated \/ MergeInstalled

Pushing ==
    \E t \in app.tasks :
        PushRead(t) \/ PushSend(t) \/ PushDownload(t) \/ PushDone(t) \/ ResolveDone(t)

Pulling == \E t \in app.tasks : PullCheck(t) \/ PullDownload(t) \/ PullDone(t)

Merging == \E t \in app.tasks : DecryptDone(t, FALSE)

Binding ==
    \E t \in app.tasks : RestoreRead(t) \/ RestoreDone(t) \/ PublishRead(t) \/ PublishWrite(t) \/ PublishDone(t)

Faults ==
    \/ FailSave \/ Crash
    \/ \E t \in app.tasks :
          \/ \E why \in {"network", "throttled", "grant"} :
                PushFails(t, why) \/ PullFails(t, why) \/ RestoreFails(t, why)
          \/ DecryptDone(t, TRUE)

Others == \E e \in DeviceEdits, r \in Remotes : DeviceEdit(e, r)

Next ==
    \/ User \/ Others \/ Writer \/ Pushing \/ Pulling \/ Merging \/ Binding \/ Faults
    \/ Tick \/ WindowPasses

Spec == Init /\ [][Next]_vars

\* The executor runs every task it was given and every callback; the timer
\* ticks while a vault is bound; a throttle window ends.
Fairness ==
    /\ WF_vars(Writer) /\ WF_vars(Pushing) /\ WF_vars(Pulling) /\ WF_vars(Merging)
    /\ WF_vars(Binding) /\ WF_vars(Tick) /\ WF_vars(WindowPasses)

FairSpec == Spec /\ Fairness

-----------------------------------------------------------------------------
(* Properties. *)

TypeOK ==
    /\ app.place \in {"locked", "active", "parked", "deferred"}
    /\ app.status \in Statuses
    /\ app.doc \subseteq made /\ file.edits \subseteq made
    /\ \A t \in app.tasks : t.kind \in {"push", "pull", "decrypt", "restore", "publish"}
    /\ \A t, u \in app.tasks : t.id = u.id => t = u

\* The cloud only gains: whatever this device uploads, an edit that had reached
\* a remote file stays in one (upload_after_save, the bytes of QueuedSync).
CloudKeepsEdits ==
    [][\A r \in Remotes, e \in made :
          e \in remotes[r].edits => \E q \in Remotes : e \in remotes'[q].edits]_vars

\* What leaves the cloud is in this device's vault file: nothing that exists
\* only in the cloud is ever removed from it (upload_after_save,
\* record_upload_baseline, adopt_fast_forward_baseline).
OnlyCopyIsKept ==
    [][\A r \in Remotes, e \in made :
          e \in remotes[r].edits =>
              e \in file'.edits \/ \E q \in Remotes : e \in remotes'[q].edits]_vars

\* While a session is open, no result of a background task takes an edit out of
\* its document (commit_merged_for compares the generation).
DocKeepsEdits ==
    [][InMemory(app) /\ InMemory(app') /\ app.sess = app'.sess => app.doc \subseteq app'.doc]_vars

\* The vault file holds what this device has not uploaded.
Unsent == app.binding # None /\ file.rev # app.binding.uploaded

\* When the timer sees the file as uploaded and the remote as unchanged, it
\* leaves both alone: then the remote file lacks nothing of the vault file
\* (local_is_ahead_of_the_cloud, refresh_check).
QuietMeansEqual ==
    (app.binding # None /\ ~Unsent /\ app.binding.etag = remotes[app.binding.remote].etag)
        => file.edits \subseteq remotes[app.binding.remote].edits

\* A clash is never decided without the user: no database holds both of its
\* sides before the conflict screen was answered.
ClashesAreAsked ==
    \A c \in Clashes \ asked :
        /\ ~({c[1], c[2]} \subseteq app.doc)
        /\ ~({c[1], c[2]} \subseteq file.edits)
        /\ \A r \in Remotes : ~({c[1], c[2]} \subseteq remotes[r].edits)

\* The revision a binding remembers is one of its own remote file, whatever
\* answers were in flight when the user moved to another provider.
BaselineIsOurs ==
    /\ app.binding # None => app.binding.etag.remote = app.binding.remote
    /\ app.cfg # None => app.cfg.etag.remote = app.cfg.remote

\* What the engine waits for before it starts a push, a pull or a decryption of
\* this vault is there: a mark that outlived its task would end the vault's
\* synchronisation for good (syncs_in_flight, auto_sync_in_flight,
\* remote_merges_in_flight).
MarksHaveTasks ==
    /\ app.slot # None =>
          \E t \in Tasks("push") : ~t.resolves /\ t.owner = app.slot.owner
    /\ app.auto => Tasks("pull") # {}
    /\ app.token # None => \E t \in Tasks("decrypt") : t.id = app.token

\* A vault shown as busy is: something will end that status, and the timer,
\* which leaves busy vaults alone, does not wait for nothing.
BusyMeansWork ==
    /\ app.status = "Syncing" =>
          \/ app.save # None
          \/ \E t \in app.tasks : t.kind \in {"push", "decrypt"} /\ IsCurrent(app, t.owner)
          \/ /\ app.slot # None /\ app.slot.pending # None
             /\ IsCurrent(app, app.slot.pending.session)
             /\ \E t \in Tasks("push") : t.owner = app.slot.owner
    /\ app.status = "Restoring" =>
          \E t \in app.tasks : t.kind = "restore" /\ IsCurrent(app, t.owner)

BusyHasAnEnd == saveFailed \/ BusyMeansWork

\* What was saved and not sent is sent, unless the user locks or disconnects
\* the vault or is asked for something.
UnsentIsServed ==
    Unsent /\ InMemory(app) ~>
        \/ ~Unsent \/ ~InMemory(app)
        \/ app.status \in {"Conflict", "Reconnect"} \/ app.deferred # None
        \/ app.overlay \in {"conflict", "connect"} \/ saveFailed

\* Neither a result of a background task nor an upload loses an edit: the open
\* document keeps its own, the cloud or the vault file everybody's.
EditsAreKept == OnlyCopyIsKept /\ DocKeepsEdits

\* The baseline of a binding is of its own remote file, and a file that looks
\* uploaded is.
BaselineIsTrue == QuietMeansEqual /\ BaselineIsOurs

=============================================================================
