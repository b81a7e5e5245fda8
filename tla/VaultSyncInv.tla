---------------------------- MODULE VaultSyncInv ----------------------------
(***************************************************************************)
(* The inductive invariant of VaultSync.  Its first part is a type: every  *)
(* database, bytes, binding or copy the application holds, in whatever     *)
(* task or mark, is one of a set that says what is true of it.             *)
(***************************************************************************)
EXTENDS VaultSync

-----------------------------------------------------------------------------
(* What databases, bytes, bindings and copies may be. *)

AllEdits == UserEdits \cup DeviceEdits

\* Nothing unmade, and both sides of a clash only where the user was asked.
Settled ==
    {db \in SUBSET made : \A c \in Clashes \ asked : ~({c[1], c[2]} \subseteq db)}

\* The user's edits in an upload are in the file, and so is the rest of it if
\* it has the file's number.
OurBytes ==
    {b \in [edits : Settled, rev : Nat] :
        /\ b.edits \cap UserEdits \subseteq file.edits
        /\ b.rev = file.rev => b.edits = file.edits}

\* A binding's baseline is of its own remote file, and if neither it nor the
\* file has changed since, the remote file lacks nothing.
Covers(remote, etag, rev) ==
    rev = file.rev /\ etag = remotes[remote].etag => file.edits \subseteq remotes[remote].edits

TrueBindings ==
    {b \in [remote : Remotes, etag : Etags, uploaded : Nat] :
        /\ b.etag.remote = b.remote
        /\ Covers(b.remote, b.etag, b.uploaded)}

\* A copy of a remote file is what its etag says.
TrueCopies ==
    {c \in [edits : Settled, etag : Etags] :
        /\ c.edits \cap UserEdits \subseteq file.edits
        /\ c.etag = remotes[c.etag.remote].etag => c.edits = remotes[c.etag.remote].edits}

Copy(x) == [edits |-> x.edits, etag |-> x.etag]

-----------------------------------------------------------------------------
(* The application over databases D, bytes B, bindings G and copies C. *)

AnswersOf(kinds) == [as : kinds]
SyncedAnswers == [as : {"synced"}, etag : Etags]
CopyAnswers(as, C) == {x \in [as : {as}, edits : SUBSET AllEdits, etag : Etags] : Copy(x) \in C}
BoundAnswers(G) == [as : {"restored"}, cfg : G]

PushesOf(B, G, C) ==
    {p \in [kind : {"push"}, id : Nat, owner : SyncSessions, interactive : BOOLEAN,
            bytes : B \cup {None}, remote : Remotes, etag : Etags, resolves : BOOLEAN,
            phase : {"read", "send", "rejected", "done"},
            answer : AnswersOf({"network", "throttled", "grant"}) \cup SyncedAnswers
                       \cup CopyAnswers("conflict", C) \cup {None}] :
        /\ p.etag.remote = p.remote
        /\ p.phase = "done" <=> p.answer # None
        /\ p.phase \in {"send", "rejected"} => p.bytes # None
        /\ p.answer \in CopyAnswers("conflict", C) => p.answer.etag.remote = p.remote
        /\ p.answer \in SyncedAnswers =>
              /\ p.bytes # None
              /\ [remote |-> p.remote, etag |-> p.answer.etag, uploaded |-> p.bytes.rev] \in G}

PullsOf(C) ==
    {p \in [kind : {"pull"}, id : Nat, owner : SyncSessions, remote : Remotes, etag : Etags,
            deferred : Etags \cup {None}, phase : {"check", "ahead", "done"},
            answer : AnswersOf({"network", "grant", "same"}) \cup CopyAnswers("pulled", C)
                       \cup {None}] :
        /\ p.etag.remote = p.remote
        /\ p.phase = "done" <=> p.answer # None
        /\ p.answer \in CopyAnswers("pulled", C) => p.answer.etag.remote = p.remote}

\* What a merge starts from: the remote side has no edit of the user's that the
\* local one lacks.
Sides(x) == x.theirs \cap UserEdits \subseteq x.local

DecryptsOf(D, C) ==
    {d \in [kind : {"decrypt"}, id : Nat, owner : SyncSessions, local : D, base : Nat,
            theirs : D, etag : Etags, interactive : BOOLEAN] :
        /\ Sides(d)
        /\ [edits |-> d.theirs, etag |-> d.etag] \in C}

RestoresOf(G) ==
    {t \in [kind : {"restore"}, id : Nat, owner : SyncSessions, phase : {"read", "done"},
            answer : AnswersOf({"network", "grant", "gone"}) \cup BoundAnswers(G) \cup {None}] :
        t.phase = "done" <=> t.answer # None}

PublishesOf(B, G) ==
    {t \in [kind : {"publish"}, id : Nat, owner : SyncSessions, remote : Remotes,
            phase : {"read", "write", "done"}, bytes : B \cup {None},
            answer : AnswersOf({"refused"}) \cup BoundAnswers(G) \cup {None}] :
        /\ t.phase = "done" <=> t.answer # None
        /\ t.phase = "write" => t.bytes # None}

TasksIn(D, B, G, C) ==
    PushesOf(B, G, C) \cup PullsOf(C) \cup DecryptsOf(D, C) \cup RestoresOf(G) \cup PublishesOf(B, G)

RequestsOf(B) == [session : SyncSessions, interactive : BOOLEAN, bytes : B \cup {None}]

SlotsOf(B) == [owner : SyncSessions, pending : RequestsOf(B) \cup {None}]

SavesOf(D) ==
    [edits : D, sync : BOOLEAN, pending : BOOLEAN, pendingSync : BOOLEAN,
     merge : MergeMarks \cup {None}, result : {"running", "written", "undurable", "failed"},
     rev : Nat]

ConflictsOf(D, C) ==
    {x \in [local : D, theirs : D, etag : Etags, base : Nat, owner : SyncSessions] :
        /\ Sides(x)
        /\ [edits |-> x.theirs, etag |-> x.etag] \in C}

AppsOf(D, B, G, C) ==
    [place : {"locked", "active", "parked", "deferred"}, sess : Nat,
     overlay : {"none", "edit", "connect", "conflict"}, doc : D, gen : Nat, unsaved : BOOLEAN,
     save : SavesOf(D) \cup {None}, binding : G \cup {None}, cfg : G \cup {None}, bindGen : Nat,
     status : Statuses, conflict : ConflictsOf(D, C) \cup {None}, deferred : Etags \cup {None},
     backoff : BOOLEAN, token : Nat \cup {None}, slot : SlotsOf(B) \cup {None},
     awaiting : RequestsOf(B) \cup {None}, auto : BOOLEAN, tasks : SUBSET TasksIn(D, B, G, C)]

\* What these may be at most.
FileBytes == [edits : SUBSET AllEdits, rev : Nat]
BindingRecords == [remote : Remotes, etag : Etags, uploaded : Nat]
CopyRecords == [edits : SUBSET AllEdits, etag : Etags]

ASSUME NoneIsNothing ==
    /\ None \notin Nat /\ None \notin Etags /\ None \notin FileBytes /\ None \notin BindingRecords
    /\ None \notin RequestsOf(FileBytes) /\ None \notin SlotsOf(FileBytes) /\ None \notin MergeMarks
    /\ None \notin SavesOf(SUBSET AllEdits) /\ None \notin ConflictsOf(SUBSET AllEdits, CopyRecords)
    /\ None \notin AnswersOf({"network", "throttled", "grant", "same", "gone", "refused"})
    /\ None \notin SyncedAnswers /\ None \notin BoundAnswers(BindingRecords)
    /\ None \notin CopyAnswers("conflict", CopyRecords) /\ None \notin CopyAnswers("pulled", CopyRecords)

HeldIsTrue == app \in AppsOf(Settled, OurBytes, TrueBindings, TrueCopies)

-----------------------------------------------------------------------------
(* The file and the remote files. *)

FilesAreSettled ==
    /\ made \subseteq AllEdits
    /\ file \in [edits : Settled, rev : Nat]
    /\ remotes \in [Remotes -> [edits : Settled, etag : Etags]]
    /\ \A r \in Remotes : /\ remotes[r].etag.remote = r
                          /\ remotes[r].edits \cap UserEdits \subseteq file.edits

\* Tasks have numbers of their own.
Numbered(a) ==
    /\ IsFiniteSet(a.tasks)
    /\ \A t, u \in a.tasks : t.id = u.id => t = u

-----------------------------------------------------------------------------
(* The document, its saves and the merges in flight. *)

\* The user's edits only grow from the remote files to the file to the document.
UserEditsGrow(a) ==
    /\ a.place # "locked" => file.edits \cap UserEdits \subseteq a.doc
    /\ a.save # None => /\ file.edits \cap UserEdits \subseteq a.save.edits
                        /\ a.save.edits \cap UserEdits \subseteq a.doc

\* A merge that the document did not outrun holds the document.
MergesHoldTheDocument(a) ==
    /\ a.save # None /\ a.save.merge # None /\ a.save.merge.base = a.gen =>
          a.doc \subseteq a.save.edits
    /\ a.conflict # None /\ a.conflict.base = a.gen /\ IsCurrent(a, a.conflict.owner) =>
          a.conflict.local = a.doc
    /\ \A d \in a.tasks :
          d.kind = "decrypt" /\ d.base = a.gen /\ IsCurrent(a, d.owner) => d.local = a.doc

\* What a written save is, and what a merge without an upload adds to nothing.
SavesAreTrue(a) ==
    a.save # None =>
        /\ a.save.result \in {"written", "undurable"} =>
              a.save.edits = file.edits /\ a.save.rev = file.rev
        /\ (a.save.merge # None /\ ~a.save.merge.needsUpload) =>
              LET e == a.save.merge.etag
              IN  e = remotes[e.remote].etag => a.save.edits \subseteq remotes[e.remote].edits

-----------------------------------------------------------------------------
(* Sessions. *)

\* A session that is locked or waits for its lock has no binding and no status;
\* a locked one has no save.
LockedIsQuiet(a) ==
    /\ ~InMemory(a) => /\ a.status = "Disconnected"
                       /\ a.binding = None /\ a.conflict = None
    /\ a.place = "locked" => a.save = None
    /\ a.status = "Syncing" => a.binding # None
    /\ a.status = "Conflict" => a.conflict # None

Dated(a, session) == session.vault <= a.sess /\ session.binding <= a.bindGen

\* No callback is of a session to come.
SessionsArePast(a) ==
    /\ \A t \in a.tasks : Dated(a, t.owner)
    /\ a.slot # None => /\ Dated(a, a.slot.owner)
                        /\ a.slot.pending # None => Dated(a, a.slot.pending.session)
    /\ a.awaiting # None => Dated(a, a.awaiting.session)
    /\ a.conflict # None => Dated(a, a.conflict.owner)
    /\ a.save # None /\ a.save.merge # None => Dated(a, a.save.merge.owner)

\* What belongs to the session in memory belongs to its binding.
OfTheBinding(a, etag) == a.binding # None /\ etag.remote = a.binding.remote

CurrentIsBound(a) ==
    /\ \A t \in a.tasks :
          t.kind \in {"push", "pull", "decrypt"} /\ IsCurrent(a, t.owner) =>
              OfTheBinding(a, t.etag)
    /\ a.conflict # None /\ IsCurrent(a, a.conflict.owner) => OfTheBinding(a, a.conflict.etag)
    /\ a.save # None /\ a.save.merge # None /\ IsCurrent(a, a.save.merge.owner) =>
          OfTheBinding(a, a.save.merge.etag)
    /\ a.binding # None => a.cfg # None /\ a.cfg.remote = a.binding.remote
    /\ \A t \in a.tasks :
          /\ t.kind \in {"restore", "publish"} /\ IsCurrent(a, t.owner)
          /\ t.answer # None /\ t.answer.as = "restored"
          => a.cfg # None /\ a.cfg.remote = t.answer.cfg.remote

-----------------------------------------------------------------------------
(* Marks and what they wait for. *)

\* A push of the session in memory holds the slot, alone.
SlotIsHeld(a) ==
    \A t \in a.tasks :
        t.kind = "push" /\ ~t.resolves /\ IsCurrent(a, t.owner) =>
            /\ a.slot # None /\ a.slot.owner = t.owner
            /\ \A u \in a.tasks : u.kind = "push" /\ ~u.resolves /\ u.owner = t.owner => u = t

Marked(a) ==
    /\ a.slot # None =>
          \E t \in a.tasks : t.kind = "push" /\ ~t.resolves /\ t.owner = a.slot.owner
    /\ a.auto => \E t \in a.tasks : t.kind = "pull"
    /\ a.token # None => \E t \in a.tasks : t.kind = "decrypt" /\ t.id = a.token

\* What ends the status "Syncing".
WillSync(a) ==
    \/ a.save # None /\ a.save.merge = None /\ (a.save.sync \/ (a.save.pending /\ a.save.pendingSync))
    \/ a.save # None /\ a.save.merge # None /\ (IsCurrent(a, a.save.merge.owner) \/ a.save.pending)
    \/ \E t \in a.tasks : t.kind = "push" /\ IsCurrent(a, t.owner)
    \/ \E t \in a.tasks : t.kind = "decrypt" /\ IsCurrent(a, t.owner) /\ t.id = a.token
    \/ /\ a.slot # None /\ a.slot.pending # None
       /\ IsCurrent(a, a.slot.pending.session)

WillRestore(a) == \E t \in a.tasks : t.kind = "restore" /\ IsCurrent(a, t.owner)

BusyEnds(a) ==
    /\ a.status = "Syncing" => WillSync(a)
    /\ a.status = "Restoring" => WillRestore(a)

\* A save that failed is remembered.
FailuresAreKnown ==
    app.save # None /\ app.save.result \in {"failed", "undurable"} => saveFailed

Core(a) ==
    /\ Numbered(a)
    /\ UserEditsGrow(a) /\ MergesHoldTheDocument(a) /\ SavesAreTrue(a)
    /\ LockedIsQuiet(a) /\ SessionsArePast(a) /\ CurrentIsBound(a)
    /\ SlotIsHeld(a) /\ Marked(a)

EngineInv ==
    /\ HeldIsTrue /\ FilesAreSettled /\ Core(app)
    /\ FailuresAreKnown
    /\ saveFailed \/ BusyEnds(app)

-----------------------------------------------------------------------------
(* What keeps the edits of the other devices. *)

\* The edits no step of this device takes out of the vault file: what the file
\* holds and the document and a save, which replace it, hold too.
Firm(a) ==
    {e \in file.edits : /\ a.place # "locked" => e \in a.doc
                        /\ a.save # None => e \in a.save.edits}

\* A task uploads over revisions of E only, and so does what it will answer.
TaskOver(t, E) ==
    /\ t.kind = "push" =>
          /\ t.etag \in E
          /\ t.answer # None /\ t.answer.as = "synced" => t.answer.etag \in E
    /\ t.kind \in {"restore", "publish"} /\ t.answer # None /\ t.answer.as = "restored" =>
          t.answer.cfg.etag \in E

\* The revisions an upload may name in its If-Match, now or later, are of E.
UploadsOver(a, E) ==
    /\ a.binding # None => a.binding.etag \in E
    /\ a.cfg # None => a.cfg.etag \in E
    /\ \A t \in a.tasks : TaskOver(t, E)

\* No upload can replace the remote file as it is.
Guarded(a, r) == UploadsOver(a, Etags \ {remotes[r].etag})

\* What another device has uploaded is firm here or where no upload reaches it.
OthersAreKept(a) ==
    \A e \in made \cap DeviceEdits :
        e \in Firm(a) \/ \E r \in Remotes : e \in remotes[r].edits /\ Guarded(a, r)

\* A merge over the revision the remote file has holds that file.
MergesHoldTheCopy(a) ==
    a.save # None /\ a.save.merge # None =>
        LET etag == a.save.merge.etag
        IN  etag = remotes[etag.remote].etag => remotes[etag.remote].edits \subseteq a.save.edits

\* The first remote file is there from the start, the others once published.
Published(r) == r = 1 \/ remotes[r].etag # Etag(r, 0)

PublishedEtags == {etag \in Etags : Published(etag.remote)}

\* The file a publication will write is new, and nothing else is published.
PublishesAreNew(a) ==
    \A t \in a.tasks :
        t.kind = "publish" =>
            /\ t.phase # "done" => ~Published(t.remote) /\ remotes[t.remote].edits = {}
            /\ \A u \in a.tasks : u.kind = "publish" => u = t

KeptInv ==
    /\ OthersAreKept(app) /\ MergesHoldTheCopy(app)
    /\ PublishesAreNew(app) /\ UploadsOver(app, PublishedEtags)

SyncInv == EngineInv /\ KeptInv
=============================================================================
