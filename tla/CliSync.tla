------------------------------- MODULE CliSync -------------------------------
(***************************************************************************)
(* The command line client beside everybody else: `entry ... --commit`,    *)
(* `sync now` and `sync now --commit --plan-token` (src/cli.rs), the save  *)
(* they share with the window (keepass/document.rs), and the wire they     *)
(* synchronise over, SharePoint (sync/service.rs, sync/graph.rs) or iCloud *)
(* Drive (sync/icloud.rs).  Several commands run at once; another program  *)
(* saves the vault file and another device replaces the cloud copy between *)
(* any two of their steps.                                                 *)
(*                                                                         *)
(* A vault's content is the set of edits it holds: a merge is their union  *)
(* and asks when each side has an edit the other lacks (what the merge     *)
(* does to an entry is the subject of MergeEntry and MergeMeta).  Bytes    *)
(* are never written twice alike, so a digest is the number of a write.    *)
(***************************************************************************)
EXTENDS Integers, Sequences

CONSTANTS Commands,    \* command processes that may run at once
          Runs,        \* Runs[c]: what c runs, of "edit", "plan" and "commit"
          Providers,   \* "sharepoint", "icloud"
          MaxWrites    \* bound: edits made, and versions of the file and of the cloud copy

ASSUME CliSyncConstants ==
  /\ MaxWrites \in Nat \ {0}                     \* the file and the cloud copy are writes
  /\ Runs \in [Commands -> SUBSET {"edit", "plan", "commit"}]
  /\ Providers \subseteq {"sharepoint", "icloud"}

NoCommand == "no command"
Unbound == [etag |-> 0, uploaded |-> 0]     \* no configuration for this vault
NoPlan == [rev |-> 0, etag |-> 0, asks |-> FALSE]

VARIABLES file,      \* the vault file: [rev, has], its write number and its edits
          cloud,     \* cloud[e]: the edits of the cloud copy whose revision is e
          config,    \* the stored binding: the cloud revision last merged, the write last uploaded
          provider,  \* the provider the vault is bound to
          made,      \* edits made so far, by anybody
          saveLock,  \* the command holding the sidecar lock of a save
          run,       \* run[c]: the command process c
          plan,      \* plan[c]: the plan token the script running c was last given
          decided    \* decided[c]: the two contents that plan was made from

cliVars == <<file, cloud, config, provider, made, saveLock, run, plan, decided>>

CloudVersion == Len(cloud)

Idle == [at |-> "idle", kind |-> "edit", doc |-> [rev |-> 0, has |-> {}],
         baseline |-> Unbound, remote |-> [etag |-> 0, has |-> {}],
         before |-> 0, tries |-> 0, upload |-> [rev |-> 0, has |-> {}]]

CliInit ==
  /\ file = [rev |-> 1, has |-> {}]
  /\ cloud = <<{}>>
  /\ config = [etag |-> 1, uploaded |-> 1]
  /\ provider \in Providers
  /\ made = 0
  /\ saveLock = NoCommand
  /\ run = [c \in Commands |-> Idle]
  /\ plan = [c \in Commands |-> NoPlan]
  /\ decided = [c \in Commands |-> [mine |-> {}, theirs |-> {}]]

At(c, step) == run[c].at = step

Becomes(c, changed) == run' = [run EXCEPT ![c] = changed]

Leave(c) == Becomes(c, Idle)

-----------------------------------------------------------------------------
(* Everybody else.                                                         *)

OtherProgramSaves ==
  /\ made < MaxWrites /\ file.rev < MaxWrites
  /\ made' = made + 1
  /\ file' = [rev |-> file.rev + 1, has |-> file.has \union {made'}]
  /\ UNCHANGED <<cloud, config, provider, saveLock, run, plan, decided>>

OtherDeviceUploads ==
  /\ made < MaxWrites /\ CloudVersion < MaxWrites
  /\ made' = made + 1
  /\ cloud' = Append(cloud, cloud[CloudVersion] \union {made'})
  /\ UNCHANGED <<file, config, provider, saveLock, run, plan, decided>>

Disconnect ==
  /\ config # Unbound
  /\ config' = Unbound
  /\ UNCHANGED <<file, cloud, provider, made, saveLock, run, plan, decided>>

-----------------------------------------------------------------------------
(* Opening, and the save every command shares (save_to).                   *)

StartCommand(c, kind) ==
  /\ At(c, "idle")
  /\ kind = "commit" => plan[c] # NoPlan
  /\ Becomes(c, [Idle EXCEPT !.at = IF kind = "edit" THEN "edit" ELSE "config",
                             !.kind = kind, !.doc = file])
  /\ UNCHANGED <<file, cloud, config, provider, made, saveLock, plan, decided>>

\* A mutation: the document takes the edit, and without --commit it is dropped here.
MutateVault(c) ==
  /\ At(c, "edit") /\ made < MaxWrites
  /\ made' = made + 1
  /\ Becomes(c, [run[c] EXCEPT !.at = "save",
                               !.upload.has = run[c].doc.has \union {made'}])
  /\ UNCHANGED <<file, cloud, config, provider, saveLock, plan, decided>>

\* The locks are taken and the file is what the document was opened from.
SaveBegins(c) ==
  /\ At(c, "save") /\ saveLock = NoCommand
  /\ file.rev = run[c].doc.rev
  /\ saveLock' = c
  /\ Becomes(c, [run[c] EXCEPT !.at = "encoded"])
  /\ UNCHANGED <<file, cloud, config, provider, made, plan, decided>>

\* As a mistake: the rename follows the encoding without another look at the file.
OursSinceTheBeginning(c) == TRUE

\* Encoding took its time: the file is looked at again just before the rename.
StillOurs(c) == file.rev = run[c].doc.rev

SavePublishes(c) ==
  /\ At(c, "encoded") /\ file.rev < MaxWrites
  /\ StillOurs(c)
  /\ file' = [rev |-> file.rev + 1, has |-> run[c].upload.has]
  /\ saveLock' = NoCommand
  /\ IF run[c].kind = "edit"
       THEN Leave(c)
       ELSE Becomes(c, [run[c] EXCEPT !.at = "first check", !.upload = file'])
  /\ UNCHANGED <<cloud, config, provider, made, plan, decided>>

-----------------------------------------------------------------------------
(* sync now: the plan.                                                     *)

LoadConfig(c) ==
  /\ At(c, "config") /\ config # Unbound
  /\ Becomes(c, [run[c] EXCEPT !.at = "read", !.baseline = config])
  /\ UNCHANGED <<file, cloud, config, provider, made, saveLock, plan, decided>>

\* read_current_bytes: under the locks of a save, and only while the file is the document's.
ReadCurrentBytes(c) ==
  /\ At(c, "read") /\ saveLock = NoCommand
  /\ file.rev = run[c].doc.rev
  /\ Becomes(c, [run[c] EXCEPT !.at = "download"])
  /\ UNCHANGED <<file, cloud, config, provider, made, saveLock, plan, decided>>

Received(c, etag, body) ==
  Becomes(c, [run[c] EXCEPT !.at = "compare", !.remote = [etag |-> etag, has |-> body]])

\* The content response carries the revision of its own body; an iCloud read digests it.
Download(c) ==
  /\ At(c, "download")
  /\ Received(c, CloudVersion, cloud[CloudVersion])
  /\ UNCHANGED <<file, cloud, config, provider, made, saveLock, plan, decided>>

\* A proxy stripped the header: two attempts to bracket a body with equal revisions.
DownloadUnnamed(c) ==
  /\ At(c, "download") /\ provider = "sharepoint"
  /\ Becomes(c, [run[c] EXCEPT !.at = "before"])
  /\ UNCHANGED <<file, cloud, config, provider, made, saveLock, plan, decided>>

AskBefore(c) ==
  /\ At(c, "before")
  /\ Becomes(c, [run[c] EXCEPT !.at = "body", !.before = CloudVersion])
  /\ UNCHANGED <<file, cloud, config, provider, made, saveLock, plan, decided>>

FetchBody(c) ==
  /\ At(c, "body")
  /\ \/ Becomes(c, [run[c] EXCEPT !.at = "after", !.remote.has = cloud[CloudVersion]])
     \/ Received(c, CloudVersion, cloud[CloudVersion])
  /\ UNCHANGED <<file, cloud, config, provider, made, saveLock, plan, decided>>

StableFallbackEtag(before, after) == before = after

AskAfter(c) ==
  /\ At(c, "after")
  /\ CASE StableFallbackEtag(run[c].before, CloudVersion) ->
            Received(c, run[c].before, run[c].remote.has)
       [] ~StableFallbackEtag(run[c].before, CloudVersion) /\ run[c].tries = 0 ->
            Becomes(c, [run[c] EXCEPT !.at = "before", !.tries = 1])
       [] OTHER -> Leave(c)
  /\ UNCHANGED <<file, cloud, config, provider, made, saveLock, plan, decided>>

Ours(c) == run[c].doc.has \ run[c].remote.has
Theirs(c) == run[c].remote.has \ run[c].doc.has

NeedsADecision(c) == Ours(c) # {} /\ Theirs(c) # {}

\* sync_plan_token: the local bytes, the cloud revision, and what is asked.
PlanToken(c) ==
  [rev |-> run[c].doc.rev, etag |-> run[c].remote.etag, asks |-> NeedsADecision(c)]

Plan(c) ==
  /\ At(c, "compare") /\ run[c].kind = "plan"
  /\ plan' = [plan EXCEPT ![c] = PlanToken(c)]
  /\ decided' = [decided EXCEPT ![c] = [mine |-> run[c].doc.has, theirs |-> run[c].remote.has]]
  /\ Leave(c)
  /\ UNCHANGED <<file, cloud, config, provider, made, saveLock>>

-----------------------------------------------------------------------------
(* sync now --commit.                                                      *)

\* The merge is saved when it holds more than the document, and the bytes read are sent otherwise.
Commit(c) ==
  /\ At(c, "compare") /\ run[c].kind = "commit"
  /\ plan[c] = PlanToken(c)
  /\ LET merged == run[c].doc.has \union run[c].remote.has IN
     Becomes(c, [run[c] EXCEPT
       !.at = IF merged = run[c].doc.has THEN "first check" ELSE "save",
       !.upload = [rev |-> run[c].doc.rev, has |-> merged]])
  /\ UNCHANGED <<file, cloud, config, provider, made, saveLock, plan, decided>>

SomethingToUpload(c) == Ours(c) # {} \/ NeedsADecision(c)

\* The relationship may have moved on, but it must still be there.
BindingIsStill == config # Unbound

FirstCheck(c) ==
  /\ At(c, "first check") /\ BindingIsStill
  /\ Becomes(c, [run[c] EXCEPT
       !.at = IF SomethingToUpload(c) THEN "upload" ELSE "second check"])
  /\ UNCHANGED <<file, cloud, config, provider, made, saveLock, plan, decided>>

\* The cloud copy is replaced only while it is the revision that was downloaded.
IfMatch(c) == run[c].remote.etag = CloudVersion

Replaces(c) == cloud' = Append(cloud, run[c].upload.has)

\* PUT with If-Match: the answer names the version the request made.
UploadContent(c) ==
  /\ At(c, "upload") /\ provider = "sharepoint" /\ CloudVersion < MaxWrites
  /\ IfMatch(c)
  /\ Replaces(c)
  /\ \/ Becomes(c, [run[c] EXCEPT !.at = "second check", !.remote.etag = CloudVersion + 1])
     \/ Leave(c)                     \* the answer is lost, or names no version
  /\ UNCHANGED <<file, config, provider, made, saveLock, plan, decided>>

\* icloud::publish: replaced under coordination, read back under another one.
PublishReplaces(c) ==
  /\ At(c, "upload") /\ provider = "icloud" /\ CloudVersion < MaxWrites
  /\ IfMatch(c)
  /\ Replaces(c)
  /\ Becomes(c, [run[c] EXCEPT !.at = "read back", !.remote.etag = CloudVersion + 1])
  /\ UNCHANGED <<file, config, provider, made, saveLock, plan, decided>>

\* What a publish may report: the revision it wrote, and nothing else.
PublishedOrConflict(c) ==
  IF run[c].remote.etag = CloudVersion
    THEN Becomes(c, [run[c] EXCEPT !.at = "second check"])
    ELSE Leave(c)

PublishReadsBack(c) ==
  /\ At(c, "read back")
  /\ PublishedOrConflict(c)
  /\ UNCHANGED <<file, cloud, config, provider, made, saveLock, plan, decided>>

\* What the binding says after this sync: the revision merged, and the write that was sent.
Recorded(c) == [etag |-> run[c].remote.etag, uploaded |-> run[c].upload.rev]

SaveConfig(c) ==
  /\ At(c, "second check") /\ BindingIsStill
  /\ config' = Recorded(c)
  /\ Leave(c)
  /\ UNCHANGED <<file, cloud, provider, made, saveLock, plan, decided>>

\* Every check that fails, every error and a killed process: nothing is undone.
Fails(c) ==
  /\ ~At(c, "idle")
  /\ saveLock' = IF saveLock = c THEN NoCommand ELSE saveLock
  /\ Leave(c)
  /\ UNCHANGED <<file, cloud, config, provider, made, plan, decided>>

Step(c) ==
  \/ \E kind \in Runs[c] : StartCommand(c, kind)
  \/ MutateVault(c) \/ SaveBegins(c) \/ SavePublishes(c)
  \/ LoadConfig(c) \/ ReadCurrentBytes(c)
  \/ Download(c) \/ DownloadUnnamed(c) \/ AskBefore(c) \/ FetchBody(c) \/ AskAfter(c)
  \/ Plan(c) \/ Commit(c) \/ FirstCheck(c)
  \/ UploadContent(c) \/ PublishReplaces(c) \/ PublishReadsBack(c) \/ SaveConfig(c)
  \/ Fails(c)

CliNext == OtherProgramSaves \/ OtherDeviceUploads \/ Disconnect \/ \E c \in Commands : Step(c)

CliSpec == CliInit /\ [][CliNext]_cliVars

-----------------------------------------------------------------------------
Versions == 1..MaxWrites
Edits == 1..MaxWrites
Content == SUBSET Edits

\* Type invariant of the command line client and the wire.
CliTypeOK ==
  /\ file \in [rev : Versions, has : Content]
  /\ cloud \in Seq(Content) /\ CloudVersion \in Versions
  /\ config \in [etag : {0} \union Versions, uploaded : {0} \union Versions]
  /\ provider \in Providers /\ made \in {0} \union Edits
  /\ saveLock \in Commands \union {NoCommand}
  /\ \A c \in Commands :
       /\ run[c].doc.has \in Content /\ run[c].remote.has \in Content
       /\ run[c].upload.has \in Content
       /\ plan[c].rev \in {0} \union Versions /\ plan[c].etag \in {0} \union Versions

\* A cloud revision the binding names is merged into the vault file: the next pull passes it
\* by, and the next push replaces it without a conflict, on the strength of that name.
NamedRevisionIsMerged == config # Unbound => cloud[config.etag] \subseteq file.has

\* A write of the file that the binding calls uploaded is in the cloud: the window compares
\* the two on its next tick and sends nothing when they agree.
UploadedWriteIsInTheCloud ==
  config # Unbound /\ config.uploaded = file.rev => file.has \subseteq cloud[config.etag]

\* What one client uploaded, no later upload throws away.
CloudKeepsEverything == [][cloud[CloudVersion] \subseteq cloud'[Len(cloud')]]_cliVars

\* What another program or another command saved, no command's save throws away.
FileKeepsEverything == [][file.has \subseteq file'.has]_cliVars

\* A commit merges the two contents its plan was made from, and no others.
CommitAnswersItsPlan ==
  [][\A c \in Commands : Commit(c) =>
       decided[c] = [mine |-> run[c].doc.has, theirs |-> run[c].remote.has]]_cliVars

\* Beside everybody else a command loses nothing of theirs, records what is
\* true, and commits what was planned (execute_sync, save_to, publish).
CommandsLoseNothing ==
  /\ [](NamedRevisionIsMerged /\ UploadedWriteIsInTheCloud)
  /\ CloudKeepsEverything /\ FileKeepsEverything /\ CommitAnswersItsPlan
=============================================================================
