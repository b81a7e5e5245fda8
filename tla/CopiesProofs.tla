----------------------------- MODULE CopiesProofs -----------------------------
(***************************************************************************)
(* Proofs about how copies of a vault change and come together, for any    *)
(* commands, groups, entries and bounds.                                   *)
(***************************************************************************)
EXTENDS MCCopies, TLAPS

-----------------------------------------------------------------------------
(* The command line client and the wire.                                   *)

Writes == [rev : {0} \union Versions, has : Content]
BindingsKept == [etag : {0} \union Versions, uploaded : {0} \union Versions]
RemoteCopies == [etag : {0} \union Versions, has : Content]
Processes ==
  [at : {"idle", "edit", "config", "save", "encoded", "read", "download", "before", "body", "after",
         "compare", "first check", "upload", "read back", "second check"},
   kind : {"edit", "plan", "commit"}, doc : Writes, baseline : BindingsKept, remote : RemoteCopies,
   before : {0} \union Versions, tries : 0..1, upload : Writes]
Plans == [rev : {0} \union Versions, etag : {0} \union Versions, asks : BOOLEAN]
Decisions == [mine : Content, theirs : Content]

WireTyped ==
  /\ file \in [rev : Versions, has : Content]
  /\ cloud \in Seq(Content) /\ Len(cloud) \in Versions
  /\ config \in BindingsKept
  /\ provider \in Providers /\ made \in {0} \union Edits
  /\ saveLock \in Commands \union {NoCommand}

CommandsTyped ==
  /\ run \in [Commands -> Processes]
  /\ plan \in [Commands -> Plans]
  /\ decided \in [Commands -> Decisions]

\* A revision of the cloud copy holds all that the ones before it held.
CloudGrows == \A i, j \in 1..Len(cloud) : i <= j => cloud[i] \subseteq cloud[j]

\* What was once the vault file f, or is.
WasTheFile(w, f) ==
  /\ w.rev \in 1..f.rev /\ w.has \subseteq f.has
  /\ w.rev = f.rev => w.has = f.has

\* A revision of the cloud copy, by its name.
Revision(etag, has, revisions) == etag \in 1..Len(revisions) /\ has = revisions[etag]

\* What the binding may say of the file f: the cloud revision is merged into it, and a write that
\* was sent is in that revision.
TrueOf(etag, uploaded, f, revisions) ==
  /\ etag \in 1..Len(revisions) /\ revisions[etag] \subseteq f.has
  /\ uploaded <= f.rev
  /\ uploaded = f.rev => f.has \subseteq revisions[etag]

Merged == {"first check", "upload"}
Sent == {"read back", "second check"}

\* What a command knows of the file and of the cloud copy at each of its steps.
Fine(p, f, revisions) ==
  /\ p.at # "idle" => WasTheFile(p.doc, f)
  /\ p.at = "edit" => p.kind = "edit"
  /\ p.at \in {"save", "encoded"} =>
       p.kind \in {"edit", "commit"} /\ p.doc.has \subseteq p.upload.has
  /\ p.at \in {"body", "after"} => p.before \in 1..Len(revisions)
  /\ p.at = "after" /\ p.before = Len(revisions) => p.remote.has = revisions[p.before]
  /\ p.at = "compare" => Revision(p.remote.etag, p.remote.has, revisions)
  /\ p.kind = "commit" /\ p.at \in {"save", "encoded"} \union Merged =>
       /\ Revision(p.remote.etag, p.remote.has, revisions)
       /\ p.upload.has = p.doc.has \union p.remote.has
  /\ p.at \in Merged => p.kind = "commit" /\ WasTheFile(p.upload, f)
  /\ p.at \in Sent => TrueOf(p.remote.etag, p.upload.rev, f, revisions)

\* What a plan was made from: the bytes and the revision it names.
Decided(token, what, f, revisions) ==
  /\ token.rev <= f.rev
  /\ token.rev = f.rev => what.mine = f.has
  /\ token.rev # 0 => Revision(token.etag, what.theirs, revisions)

SameBytes(p, token, what) == p.at # "idle" /\ p.doc.rev = token.rev => p.doc.has = what.mine

FineAt(c, f, revisions) ==
  /\ Fine(run[c], f, revisions)
  /\ Decided(plan[c], decided[c], f, revisions)
  /\ SameBytes(run[c], plan[c], decided[c])

CliInv ==
  /\ WireTyped /\ CommandsTyped /\ CloudGrows
  /\ config # Unbound => TrueOf(config.etag, config.uploaded, file, cloud)
  /\ \A c \in Commands : FineAt(c, file, cloud)

LEMMA CliInitial == CliInit => CliInv
  <1> SUFFICES ASSUME CliInit PROVE CliInv
    OBVIOUS
  <1> USE CliSyncConstants
  <1>1. 1 \in Versions /\ {} \in Content
    BY DEF Versions, Content
  <1>2. /\ file = [rev |-> 1, has |-> {}] /\ cloud = <<{}>> /\ Len(cloud) = 1 /\ cloud[1] = {}
        /\ cloud \in Seq(Content)
    BY <1>1 DEF CliInit
  <1>3. Idle \in Processes
    BY <1>1 DEF Idle, Unbound, Processes, Writes, BindingsKept, RemoteCopies
  <1>4. WireTyped
    BY <1>1, <1>2 DEF CliInit, WireTyped, BindingsKept
  <1>5. CommandsTyped
    BY <1>1, <1>3 DEF CliInit, CommandsTyped, Plans, Decisions, NoPlan
  <1>6. CloudGrows
    BY <1>2 DEF CloudGrows
  <1>7. config # Unbound => TrueOf(config.etag, config.uploaded, file, cloud)
    BY <1>2 DEF CliInit, TrueOf
  <1>8. ASSUME NEW c \in Commands PROVE FineAt(c, file, cloud)
    <2>1. run[c] = Idle /\ plan[c] = NoPlan
      BY DEF CliInit
    <2> QED
      BY <1>2, <2>1 DEF FineAt, Fine, Decided, SameBytes, Idle, NoPlan, Merged, Sent
  <1> QED
    BY <1>4, <1>5, <1>6, <1>7, <1>8 DEF CliInv

\* One command goes on, and nothing changes for the others.
LEMMA OneGoesOn ==
  ASSUME CliInv, NEW c \in Commands, NEW p \in Processes,
         run' = [run EXCEPT ![c] = p],
         UNCHANGED <<file, cloud, config, provider, plan, decided>>,
         made' \in {0} \union Edits, saveLock' \in Commands \union {NoCommand},
         Fine(p, file, cloud), SameBytes(p, plan[c], decided[c])
  PROVE  CliInv'
  <1>1. WireTyped' /\ CommandsTyped' /\ CloudGrows'
    BY DEF CliInv, WireTyped, CommandsTyped, CloudGrows
  <1>2. (config # Unbound => TrueOf(config.etag, config.uploaded, file, cloud))'
    BY DEF CliInv, TrueOf
  <1>3. ASSUME NEW d \in Commands PROVE FineAt(d, file, cloud)'
    <2>1. FineAt(d, file, cloud)
      BY DEF CliInv
    <2>2. run'[d] = IF d = c THEN p ELSE run[d]
      BY DEF CliInv, CommandsTyped
    <2>3. Fine(run'[d], file, cloud) /\ SameBytes(run'[d], plan[d], decided[d])
      BY <2>1, <2>2 DEF FineAt
    <2>4. Decided(plan[d], decided[d], file, cloud)
      BY <2>1 DEF FineAt
    <2> QED
      BY <2>3, <2>4 DEF FineAt
  <1> QED
    BY <1>1, <1>2, <1>3 DEF CliInv
\* What a command has at hand.
LEMMA AtHand ==
  ASSUME CliInv, NEW c \in Commands
  PROVE  /\ run[c] \in Processes /\ FineAt(c, file, cloud)
         /\ file \in [rev : Versions, has : Content] /\ file.rev \in Versions /\ file.has \in Content
         /\ cloud \in Seq(Content) /\ CloudVersion \in Versions /\ CloudVersion \in 1..Len(cloud)
         /\ cloud[CloudVersion] \in Content
         /\ Versions \subseteq Nat \ {0} /\ made \in {0} \union Edits
         /\ saveLock \in Commands \union {NoCommand}
         /\ config \in BindingsKept /\ plan[c] \in Plans /\ decided[c] \in Decisions
  <1>1. CloudVersion \in Versions /\ Versions \subseteq Nat \ {0} /\ CloudVersion \in 1..Len(cloud)
    BY CliSyncConstants DEF CliInv, WireTyped, CloudVersion, Versions
  <1> QED
    BY <1>1 DEF CliInv, WireTyped, CommandsTyped, CloudVersion

LEMMA IdleIsOne == Idle \in Processes
  <1>1. {} \in Content
    BY DEF Content
  <1> QED
    BY <1>1 DEF Idle, Unbound, Processes, Writes, BindingsKept, RemoteCopies

LEMMA Starting ==
  ASSUME CliInv, NEW c \in Commands, NEW kind \in Runs[c], StartCommand(c, kind)
  PROVE  CliInv'
  <1> DEFINE p == [Idle EXCEPT !.at = IF kind = "edit" THEN "edit" ELSE "config",
                               !.kind = kind, !.doc = file]
  <1>1. kind \in {"edit", "plan", "commit"}
    BY CliSyncConstants
  <1>2. Idle \in Processes /\ run' = [run EXCEPT ![c] = p]
    BY IdleIsOne DEF StartCommand, Becomes
  <1>6. p.at \in {"edit", "config"} /\ p.doc = file /\ (p.at = "edit" => p.kind = "edit")
    BY <1>2 DEF Processes
  <1>3. p \in Processes
    BY AtHand, <1>1, <1>2 DEF Processes, Writes
  <1>4. Fine(p, file, cloud)
    BY AtHand, <1>6 DEF Fine, WasTheFile, Merged, Sent
  <1>5. SameBytes(p, plan[c], decided[c])
    BY AtHand, <1>6 DEF SameBytes, FineAt, Decided
  <1> HIDE DEF p
  <1> QED
    BY OneGoesOn, AtHand, <1>2, <1>3, <1>4, <1>5 DEF StartCommand

LEMMA Mutating ==
  ASSUME CliInv, NEW c \in Commands, MutateVault(c)
  PROVE  CliInv'
  <1> DEFINE r == run[c]
             p == [r EXCEPT !.at = "save", !.upload.has = r.doc.has \union {made'}]
  <1>1. made' \in Edits /\ run' = [run EXCEPT ![c] = p]
    BY AtHand, CliSyncConstants DEF MutateVault, Becomes, Edits
  <1>2. r \in Processes /\ r.at = "edit"
    BY AtHand DEF MutateVault, At
  <1>3. /\ p.at = "save" /\ p.kind = r.kind /\ p.doc = r.doc
        /\ p.upload.has = r.doc.has \union {made'} /\ p \in Processes
    BY <1>1, <1>2 DEF Processes, Writes, Content
  <1>4. Fine(r, file, cloud) /\ SameBytes(r, plan[c], decided[c])
    BY AtHand DEF FineAt
  <1> HIDE DEF p
  <1>5. SameBytes(p, plan[c], decided[c])
    BY <1>2, <1>3, <1>4 DEF SameBytes
  <1>6. r.kind = "edit"
    BY <1>2, <1>4 DEF Fine
  <1>7. Fine(p, file, cloud)
    BY <1>2, <1>3, <1>4, <1>6 DEF Fine, Merged, Sent
  <1> QED
    BY OneGoesOn, AtHand, <1>1, <1>3, <1>5, <1>7 DEF MutateVault
\* A command gives up, is done or is killed: it is as if it had never been started.
LEMMA Leaving ==
  ASSUME CliInv, NEW c \in Commands, Leave(c),
         UNCHANGED <<file, cloud, config, provider, made, plan, decided>>,
         saveLock' \in Commands \union {NoCommand}
  PROVE  CliInv'
  <1>1. Fine(Idle, file, cloud) /\ SameBytes(Idle, plan[c], decided[c])
    BY DEF Fine, SameBytes, Idle, Merged, Sent
  <1> QED
    BY OneGoesOn, AtHand, IdleIsOne, <1>1 DEF Leave, Becomes

\* A step after which a command knows no more of the file and the cloud than before.
LEMMA Going ==
  ASSUME CliInv, NEW c \in Commands, NEW p \in Processes,
         run' = [run EXCEPT ![c] = p],
         UNCHANGED <<file, cloud, config, provider, made, plan, decided>>,
         saveLock' \in Commands \union {NoCommand},
         run[c].at # "idle", p.doc = run[c].doc, Fine(p, file, cloud)
  PROVE  CliInv'
  <1>1. SameBytes(p, plan[c], decided[c])
    BY AtHand DEF FineAt, SameBytes
  <1> QED
    BY OneGoesOn, AtHand, <1>1

LEMMA SaveBeginning ==
  ASSUME CliInv, NEW c \in Commands, SaveBegins(c)
  PROVE  CliInv'
  <1> DEFINE r == run[c]
             p == [r EXCEPT !.at = "encoded"]
  <1>1. run' = [run EXCEPT ![c] = p] /\ r.at = "save" /\ saveLock' = c
    BY DEF SaveBegins, Becomes, At
  <1>2. /\ p \in Processes /\ p.at = "encoded" /\ p.kind = r.kind /\ p.doc = r.doc
        /\ p.upload = r.upload /\ p.remote = r.remote
    BY AtHand DEF Processes
  <1> HIDE DEF p
  <1>3. Fine(p, file, cloud)
    BY AtHand, <1>1, <1>2 DEF FineAt, Fine, Merged, Sent
  <1> QED
    BY Going, <1>1, <1>2, <1>3 DEF SaveBegins

LEMMA LoadingConfig ==
  ASSUME CliInv, NEW c \in Commands, LoadConfig(c)
  PROVE  CliInv'
  <1> DEFINE r == run[c]
             p == [r EXCEPT !.at = "read", !.baseline = config]
  <1>1. run' = [run EXCEPT ![c] = p] /\ r.at = "config"
    BY DEF LoadConfig, Becomes, At
  <1>2. p \in Processes /\ p.at = "read" /\ p.doc = r.doc
    BY AtHand DEF Processes
  <1> HIDE DEF p
  <1>3. Fine(p, file, cloud)
    BY AtHand, <1>1, <1>2 DEF FineAt, Fine, Merged, Sent
  <1> QED
    BY Going, AtHand, <1>1, <1>2, <1>3 DEF LoadConfig

LEMMA ReadingBytes ==
  ASSUME CliInv, NEW c \in Commands, ReadCurrentBytes(c)
  PROVE  CliInv'
  <1> DEFINE r == run[c]
             p == [r EXCEPT !.at = "download"]
  <1>1. run' = [run EXCEPT ![c] = p] /\ r.at = "read"
    BY DEF ReadCurrentBytes, Becomes, At
  <1>2. p \in Processes /\ p.at = "download" /\ p.doc = r.doc
    BY AtHand DEF Processes
  <1> HIDE DEF p
  <1>3. Fine(p, file, cloud)
    BY AtHand, <1>1, <1>2 DEF FineAt, Fine, Merged, Sent
  <1> QED
    BY Going, AtHand, <1>1, <1>2, <1>3 DEF ReadCurrentBytes

\* A body that belongs to the revision it came with.
LEMMA Receiving ==
  ASSUME CliInv, NEW c \in Commands, NEW etag, NEW body, Received(c, etag, body),
         Revision(etag, body, cloud), run[c].at # "idle",
         UNCHANGED <<file, cloud, config, provider, made, saveLock, plan, decided>>
  PROVE  CliInv'
  <1> DEFINE r == run[c]
             p == [r EXCEPT !.at = "compare", !.remote = [etag |-> etag, has |-> body]]
  <1>1. run' = [run EXCEPT ![c] = p]
    BY DEF Received, Becomes
  <1>2. etag \in Versions /\ body \in Content
    <2>1. cloud \in Seq(Content) /\ Len(cloud) \in 1..MaxWrites /\ etag \in 1..Len(cloud)
      BY AtHand DEF Revision, Versions, CloudVersion
    <2> QED
      BY <2>1, CliSyncConstants DEF Revision, Versions
  <1>3. /\ p \in Processes /\ p.at = "compare" /\ p.doc = r.doc /\ p.remote.etag = etag
        /\ p.remote.has = body
    BY AtHand, <1>2 DEF Processes, RemoteCopies
  <1> HIDE DEF p
  <1>5. WasTheFile(r.doc, file)
    BY AtHand DEF FineAt, Fine
  <1>4. Fine(p, file, cloud)
    BY <1>3, <1>5 DEF Fine, Merged, Sent
  <1> QED
    BY Going, AtHand, <1>1, <1>3, <1>4

LEMMA Downloading ==
  ASSUME CliInv, NEW c \in Commands, Download(c) \/ DownloadUnnamed(c) \/ AskBefore(c)
  PROVE  CliInv'
  <1> DEFINE r == run[c]
  <1>1. CASE Download(c)
    BY AtHand, Receiving, <1>1 DEF Download, Revision, At
  <1>2. CASE DownloadUnnamed(c)
    <2> DEFINE p == [r EXCEPT !.at = "before"]
    <2>1. run' = [run EXCEPT ![c] = p] /\ r.at = "download"
      BY <1>2 DEF DownloadUnnamed, Becomes, At
    <2>2. p \in Processes /\ p.at = "before" /\ p.doc = r.doc
      BY AtHand DEF Processes
    <2> HIDE DEF p
    <2>3. Fine(p, file, cloud)
      BY AtHand, <2>1, <2>2 DEF FineAt, Fine, Merged, Sent
    <2> QED
      BY Going, AtHand, <1>2, <2>1, <2>2, <2>3 DEF DownloadUnnamed
  <1>3. CASE AskBefore(c)
    <2> DEFINE p == [r EXCEPT !.at = "body", !.before = CloudVersion]
    <2>1. run' = [run EXCEPT ![c] = p] /\ r.at = "before"
      BY <1>3 DEF AskBefore, Becomes, At
    <2>2. p \in Processes /\ p.at = "body" /\ p.doc = r.doc /\ p.before = CloudVersion
      BY AtHand DEF Processes
    <2> HIDE DEF p
    <2>3. Fine(p, file, cloud)
      BY AtHand, <2>1, <2>2 DEF FineAt, Fine, Merged, Sent
    <2> QED
      BY Going, AtHand, <1>3, <2>1, <2>2, <2>3 DEF AskBefore
  <1> QED
    BY <1>1, <1>2, <1>3

LEMMA Bracketing ==
  ASSUME CliInv, NEW c \in Commands, FetchBody(c) \/ AskAfter(c)
  PROVE  CliInv'
  <1> DEFINE r == run[c]
  <1>1. Fine(r, file, cloud)
    BY AtHand DEF FineAt
  <1>2. CASE FetchBody(c)
    <2> DEFINE p == [r EXCEPT !.at = "after", !.remote.has = cloud[CloudVersion]]
    <2>1. r.at = "body"
      BY <1>2 DEF FetchBody, At
    <2>2. CASE Becomes(c, p)
      <3>1. /\ p \in Processes /\ p.at = "after" /\ p.doc = r.doc /\ p.before = r.before
            /\ p.remote.has = cloud[CloudVersion] /\ run' = [run EXCEPT ![c] = p]
        BY AtHand, <2>2 DEF Processes, RemoteCopies, Becomes
      <3> HIDE DEF p
      <3>2. Fine(p, file, cloud)
        BY <1>1, <2>1, <3>1 DEF Fine, Merged, Sent, CloudVersion
      <3> QED
        BY Going, AtHand, <1>2, <2>1, <3>1, <3>2 DEF FetchBody
    <2>3. CASE Received(c, CloudVersion, cloud[CloudVersion])
      BY AtHand, Receiving, <1>2, <2>1, <2>3 DEF FetchBody, Revision
    <2> QED
      BY <1>2, <2>2, <2>3 DEF FetchBody
  <1>3. CASE AskAfter(c)
    <2>1. r.at = "after"
      BY <1>3 DEF AskAfter, At
    <2>2. CASE r.before = CloudVersion
      <3>1. Received(c, r.before, r.remote.has)
        BY <1>3, <2>2 DEF AskAfter, StableFallbackEtag
      <3>2. Revision(r.before, r.remote.has, cloud)
        BY AtHand, <1>1, <2>1, <2>2 DEF Fine, Revision, CloudVersion
      <3> QED
        BY Receiving, <1>3, <2>1, <3>1, <3>2 DEF AskAfter
    <2>3. CASE r.before # CloudVersion /\ r.tries = 0
      <3> DEFINE p == [r EXCEPT !.at = "before", !.tries = 1]
      <3>1. run' = [run EXCEPT ![c] = p]
        BY <1>3, <2>3 DEF AskAfter, StableFallbackEtag, Becomes
      <3>4. r \in Processes /\ 1 \in 0..1
        BY AtHand
      <3>2. p \in Processes /\ p.at = "before" /\ p.doc = r.doc
        BY <3>4 DEF Processes
      <3> HIDE DEF p
      <3>3. Fine(p, file, cloud)
        BY <1>1, <2>1, <3>2 DEF Fine, Merged, Sent
      <3> QED
        BY Going, AtHand, <1>3, <2>1, <3>1, <3>2, <3>3 DEF AskAfter
    <2>4. CASE r.before # CloudVersion /\ r.tries # 0
      <3>1. Leave(c)
        BY <1>3, <2>4 DEF AskAfter, StableFallbackEtag
      <3> QED
        BY Leaving, AtHand, <1>3, <3>1 DEF AskAfter
    <2> QED
      BY <2>2, <2>3, <2>4
  <1> QED
    BY <1>2, <1>3
LEMMA Planning ==
  ASSUME CliInv, NEW c \in Commands, Plan(c)
  PROVE  CliInv'
  <1> DEFINE r == run[c]
             token == PlanToken(c)
             what == [mine |-> r.doc.has, theirs |-> r.remote.has]
  <1>1. /\ r.at = "compare" /\ run' = [run EXCEPT ![c] = Idle]
        /\ plan' = [plan EXCEPT ![c] = token] /\ decided' = [decided EXCEPT ![c] = what]
        /\ UNCHANGED <<file, cloud, config, provider, made, saveLock>>
    BY DEF Plan, At, Leave, Becomes
  <1>2. /\ r \in Processes /\ WasTheFile(r.doc, file)
        /\ Revision(r.remote.etag, r.remote.has, cloud)
    BY AtHand, <1>1 DEF FineAt, Fine
  <1>3. token.rev = r.doc.rev /\ token.etag = r.remote.etag /\ token \in Plans /\ what \in Decisions
    BY <1>2 DEF PlanToken, NeedsADecision, Plans, Decisions, Processes, Writes, RemoteCopies
  <1>4. Decided(token, what, file, cloud)
    BY AtHand, <1>2, <1>3 DEF Decided, WasTheFile
  <1> HIDE DEF token, what
  <1>5. WireTyped' /\ CommandsTyped' /\ CloudGrows'
    BY <1>1, <1>3, IdleIsOne DEF CliInv, WireTyped, CommandsTyped, CloudGrows
  <1>6. (config # Unbound => TrueOf(config.etag, config.uploaded, file, cloud))'
    BY <1>1 DEF CliInv, TrueOf
  <1>7. ASSUME NEW d \in Commands PROVE FineAt(d, file, cloud)'
    <2>1. FineAt(d, file, cloud)
      BY DEF CliInv
    <2>2. /\ run'[d] = IF d = c THEN Idle ELSE run[d]
          /\ plan'[d] = IF d = c THEN token ELSE plan[d]
          /\ decided'[d] = IF d = c THEN what ELSE decided[d]
      BY <1>1 DEF CliInv, CommandsTyped
    <2>3. /\ Fine(run'[d], file, cloud) /\ Decided(plan'[d], decided'[d], file, cloud)
          /\ SameBytes(run'[d], plan'[d], decided'[d])
      <3>1. CASE d = c
        BY <1>4, <2>2, <3>1 DEF Fine, SameBytes, Idle, Merged, Sent
      <3>2. CASE d # c
        BY <2>1, <2>2, <3>2 DEF FineAt
      <3> QED
        BY <3>1, <3>2
    <2> QED
      BY <1>1, <2>3 DEF FineAt
  <1> QED
    BY <1>5, <1>6, <1>7 DEF CliInv

LEMMA Committing ==
  ASSUME CliInv, NEW c \in Commands, Commit(c)
  PROVE  CliInv'
  <1> DEFINE r == run[c]
             merged == r.doc.has \union r.remote.has
             p == [r EXCEPT !.at = IF merged = r.doc.has THEN "first check" ELSE "save",
                            !.upload = [rev |-> r.doc.rev, has |-> merged]]
  <1>1. r.at = "compare" /\ r.kind = "commit" /\ run' = [run EXCEPT ![c] = p]
    BY DEF Commit, At, Becomes
  <1>2. /\ r \in Processes /\ WasTheFile(r.doc, file)
        /\ Revision(r.remote.etag, r.remote.has, cloud)
    BY AtHand, <1>1 DEF FineAt, Fine
  <1>3. merged \in Content /\ r.doc.rev \in {0} \union Versions
    BY <1>2 DEF Processes, Writes, RemoteCopies, Content
  <1>4. /\ p \in Processes /\ p.kind = "commit" /\ p.doc = r.doc /\ p.remote = r.remote
        /\ p.upload.rev = r.doc.rev /\ p.upload.has = merged
        /\ p.at = IF merged = r.doc.has THEN "first check" ELSE "save"
    BY <1>1, <1>2, <1>3 DEF Processes, Writes
  <1> HIDE DEF p
  <1>5. CASE merged = r.doc.has
    <2>1. WasTheFile(p.upload, file) /\ p.at = "first check"
      BY <1>2, <1>4, <1>5 DEF WasTheFile
    <2>2. Fine(p, file, cloud)
      BY <1>2, <1>4, <2>1 DEF Fine, Merged, Sent
    <2> QED
      BY Going, AtHand, <1>1, <1>4, <2>2 DEF Commit
  <1>6. CASE merged # r.doc.has
    <2>1. Fine(p, file, cloud)
      BY <1>2, <1>4, <1>6 DEF Fine, Merged, Sent
    <2> QED
      BY Going, AtHand, <1>1, <1>4, <2>1 DEF Commit
  <1> QED
    BY <1>5, <1>6

\* Nothing of ours is to be sent: the merge is the cloud copy.
LEMMA Checking ==
  ASSUME CliInv, NEW c \in Commands, FirstCheck(c)
  PROVE  CliInv'
  <1> DEFINE r == run[c]
             p == [r EXCEPT !.at = IF SomethingToUpload(c) THEN "upload" ELSE "second check"]
  <1>1. r.at = "first check" /\ run' = [run EXCEPT ![c] = p]
    BY DEF FirstCheck, At, Becomes
  <1>2. r \in Processes /\ Fine(r, file, cloud)
    BY AtHand DEF FineAt
  <1>3. /\ WasTheFile(r.doc, file) /\ Revision(r.remote.etag, r.remote.has, cloud)
        /\ r.upload.has = r.doc.has \union r.remote.has /\ r.kind = "commit"
        /\ WasTheFile(r.upload, file)
    BY <1>1, <1>2 DEF Fine, Merged
  <1>4. /\ p \in Processes /\ p.kind = r.kind /\ p.doc = r.doc /\ p.remote = r.remote
        /\ p.upload = r.upload /\ p.at = IF SomethingToUpload(c) THEN "upload" ELSE "second check"
    BY <1>2 DEF Processes
  <1> HIDE DEF p
  <1>5. CASE SomethingToUpload(c)
    <2>1. Fine(p, file, cloud)
      BY <1>3, <1>4, <1>5 DEF Fine, Merged, Sent
    <2> QED
      BY Going, AtHand, <1>1, <1>4, <2>1 DEF FirstCheck
  <1>6. CASE ~SomethingToUpload(c)
    <2>1. r.doc.has \subseteq r.remote.has
      BY <1>6 DEF SomethingToUpload, Ours
    <2>2. r.upload.has = cloud[r.remote.etag]
      BY <1>3, <2>1 DEF Revision
    <2>3. TrueOf(r.remote.etag, r.upload.rev, file, cloud)
      BY AtHand, <1>3, <2>2 DEF TrueOf, WasTheFile, Revision
    <2>4. Fine(p, file, cloud)
      BY <1>3, <1>4, <1>6, <2>3 DEF Fine, Merged, Sent
    <2> QED
      BY Going, AtHand, <1>1, <1>4, <2>4 DEF FirstCheck
  <1> QED
    BY <1>5, <1>6

LEMMA ReadingBack ==
  ASSUME CliInv, NEW c \in Commands, PublishReadsBack(c)
  PROVE  CliInv'
  <1> DEFINE r == run[c]
             p == [r EXCEPT !.at = "second check"]
  <1>1. r.at = "read back"
    BY DEF PublishReadsBack, At
  <1>2. r \in Processes /\ Fine(r, file, cloud)
    BY AtHand DEF FineAt
  <1>3. CASE r.remote.etag = CloudVersion
    <2>1. run' = [run EXCEPT ![c] = p]
      BY <1>3 DEF PublishReadsBack, PublishedOrConflict, Becomes
    <2>2. p \in Processes /\ p.at = "second check" /\ p.doc = r.doc /\ p.remote = r.remote /\ p.upload = r.upload
      BY <1>2 DEF Processes
    <2> HIDE DEF p
    <2>3. Fine(p, file, cloud)
      BY <1>1, <1>2, <2>2 DEF Fine, Merged, Sent
    <2> QED
      BY Going, AtHand, <1>1, <2>1, <2>2, <2>3 DEF PublishReadsBack
  <1>4. CASE r.remote.etag # CloudVersion
    BY Leaving, AtHand, <1>4 DEF PublishReadsBack, PublishedOrConflict
  <1> QED
    BY <1>3, <1>4

LEMMA Failing ==
  ASSUME CliInv, NEW c \in Commands, Fails(c)
  PROVE  CliInv'
  <1>1. saveLock' \in Commands \union {NoCommand}
    BY AtHand DEF Fails
  <1> QED
    BY Leaving, <1>1 DEF Fails
\* The file takes a write that holds what it held: what commands know stays true.
LEMMA FileGrows ==
  ASSUME CliInv, file' \in [rev : Versions, has : Content], file'.rev = file.rev + 1,
         file.has \subseteq file'.has
  PROVE  /\ \A p \in Processes : Fine(p, file, cloud) => Fine(p, file', cloud)
         /\ \A c \in Commands : Decided(plan[c], decided[c], file', cloud)
         /\ config # Unbound => TrueOf(config.etag, config.uploaded, file', cloud)
  <1>1. /\ file \in [rev : Versions, has : Content] /\ Versions \subseteq Nat
        /\ file.rev \in Nat /\ file'.rev \in Nat
    BY CliSyncConstants DEF CliInv, WireTyped, Versions
  <1>2. ASSUME NEW w, WasTheFile(w, file)
        PROVE  WasTheFile(w, file')
    BY <1>1, <1>2 DEF WasTheFile
  <1>3. ASSUME NEW etag, NEW uploaded \in {0} \union Versions, TrueOf(etag, uploaded, file, cloud)
        PROVE  TrueOf(etag, uploaded, file', cloud)
    BY <1>1, <1>3 DEF TrueOf
  <1>4. ASSUME NEW p \in Processes, Fine(p, file, cloud)
        PROVE  Fine(p, file', cloud)
    <2>1. p.upload.rev \in {0} \union Versions
      BY DEF Processes, Writes
    <2>2. p.at \in Sent => TrueOf(p.remote.etag, p.upload.rev, file', cloud)
      BY <1>3, <1>4, <2>1 DEF Fine
    <2>3. p.at \in Merged => p.kind = "commit" /\ WasTheFile(p.upload, file')
      BY <1>2, <1>4 DEF Fine
    <2>4. p.at # "idle" => WasTheFile(p.doc, file')
      BY <1>2, <1>4 DEF Fine
    <2> QED
      BY <1>4, <2>2, <2>3, <2>4 DEF Fine
  <1>5. ASSUME NEW c \in Commands PROVE Decided(plan[c], decided[c], file', cloud)
    <2>0. plan[c].rev \in {0} \union Versions /\ Versions \subseteq Nat
      BY AtHand DEF Plans
    <2>1. Decided(plan[c], decided[c], file, cloud)
      BY AtHand DEF FineAt
    <2>2. plan[c].rev \in Nat
      <3>1. \A n \in {0} \union Versions : n \in Nat
        BY CliSyncConstants DEF Versions
      <3> QED
        BY <2>0, <3>1
    <2>3. plan[c].rev <= file'.rev /\ plan[c].rev # file'.rev
      BY <1>1, <2>1, <2>2 DEF Decided
    <2> QED
      BY <2>1, <2>3 DEF Decided
  <1>6. config # Unbound => TrueOf(config.etag, config.uploaded, file', cloud)
    BY <1>3 DEF CliInv, WireTyped, BindingsKept
  <1> QED
    BY <1>4, <1>5, <1>6

\* The cloud copy gets a revision that holds what the last one held.
LEMMA CloudTakes ==
  ASSUME CliInv, NEW has \in Content, cloud' = Append(cloud, has), Len(cloud) < MaxWrites,
         cloud[Len(cloud)] \subseteq has
  PROVE  /\ cloud' \in Seq(Content) /\ Len(cloud') = Len(cloud) + 1 /\ Len(cloud') \in Versions
         /\ cloud'[Len(cloud')] = has
         /\ CloudGrows'
         /\ \A p \in Processes : Fine(p, file, cloud) => Fine(p, file, cloud')
         /\ \A c \in Commands : Decided(plan[c], decided[c], file, cloud')
         /\ config # Unbound => TrueOf(config.etag, config.uploaded, file, cloud')
  <1>1. /\ cloud \in Seq(Content) /\ Len(cloud) \in Nat \ {0}
        /\ \A n \in 1..Len(cloud) : cloud[n] \in Content
    BY CliSyncConstants DEF CliInv, WireTyped, Versions
  <1>2. /\ cloud' \in Seq(Content) /\ Len(cloud') = Len(cloud) + 1 /\ Len(cloud') \in Versions
        /\ cloud'[Len(cloud) + 1] = has
        /\ \A n \in 1..Len(cloud) : cloud'[n] = cloud[n]
    BY <1>1, CliSyncConstants DEF Versions
  <1>3. CloudGrows'
    <2>1. \A i, j \in 1..Len(cloud) : i <= j => cloud[i] \subseteq cloud[j]
      BY DEF CliInv, CloudGrows
    <2>2. \A i \in 1..Len(cloud) : cloud[i] \subseteq has
      <3>1. \A i \in 1..Len(cloud) : i <= Len(cloud) /\ Len(cloud) \in 1..Len(cloud)
        BY <1>1
      <3> QED
        BY <2>1, <3>1
    <2>3. ASSUME NEW i \in 1..Len(cloud'), NEW j \in 1..Len(cloud'), i <= j
          PROVE  cloud'[i] \subseteq cloud'[j]
      <3>1. CASE j = Len(cloud')
        <4>1. i \in 1..Len(cloud) \/ i = Len(cloud) + 1
          BY <1>1, <1>2
        <4> QED
          BY <1>2, <2>2, <3>1, <4>1
      <3>2. CASE j # Len(cloud')
        <4>1. i \in 1..Len(cloud) /\ j \in 1..Len(cloud)
          BY <1>1, <1>2, <2>3, <3>2
        <4> QED
          BY <1>2, <2>1, <2>3, <4>1
      <3> QED
        BY <3>1, <3>2
    <2> QED
      BY <2>3 DEF CloudGrows
  <1>4. ASSUME NEW etag, NEW body, Revision(etag, body, cloud)
        PROVE  Revision(etag, body, cloud')
    BY <1>1, <1>2, <1>4 DEF Revision
  <1>5. ASSUME NEW etag, NEW uploaded, TrueOf(etag, uploaded, file, cloud)
        PROVE  TrueOf(etag, uploaded, file, cloud')
    BY <1>1, <1>2, <1>5 DEF TrueOf
  <1>6. ASSUME NEW p \in Processes, Fine(p, file, cloud)
        PROVE  Fine(p, file, cloud')
    <2>1. p.at \in {"body", "after"} =>
            p.before \in 1..Len(cloud') /\ p.before # Len(cloud')
      BY <1>1, <1>2, <1>6 DEF Fine
    <2>2. p.at = "compare" => Revision(p.remote.etag, p.remote.has, cloud')
      BY <1>4, <1>6 DEF Fine
    <2>3. p.kind = "commit" /\ p.at \in {"save", "encoded"} \union Merged =>
            /\ Revision(p.remote.etag, p.remote.has, cloud')
            /\ p.upload.has = p.doc.has \union p.remote.has
      BY <1>4, <1>6 DEF Fine
    <2>4. p.at \in Sent => TrueOf(p.remote.etag, p.upload.rev, file, cloud')
      BY <1>5, <1>6 DEF Fine
    <2> QED
      BY <1>6, <2>1, <2>2, <2>3, <2>4 DEF Fine
  <1>7. ASSUME NEW c \in Commands PROVE Decided(plan[c], decided[c], file, cloud')
    BY <1>4, AtHand DEF FineAt, Decided
  <1>8. config # Unbound => TrueOf(config.etag, config.uploaded, file, cloud')
    BY <1>5 DEF CliInv
  <1> QED
    BY <1>2, <1>3, <1>6, <1>7, <1>8

LEMMA OthersSave ==
  ASSUME CliInv, OtherProgramSaves
  PROVE  CliInv'
  <1>0. /\ file \in [rev : Versions, has : Content] /\ Versions \subseteq Nat
        /\ made \in {0} \union Edits /\ made \in Nat
    BY CliSyncConstants DEF CliInv, WireTyped, Versions, Edits
  <1>1. /\ made' \in Edits /\ file' \in [rev : Versions, has : Content]
        /\ file'.rev = file.rev + 1 /\ file.has \subseteq file'.has
    BY <1>0, CliSyncConstants DEF OtherProgramSaves, Versions, Edits, Content
  <1>2. WireTyped' /\ CommandsTyped' /\ CloudGrows'
    BY <1>1 DEF OtherProgramSaves, CliInv, WireTyped, CommandsTyped, CloudGrows
  <1>3. (config # Unbound => TrueOf(config.etag, config.uploaded, file, cloud))'
    <2>1. config # Unbound => TrueOf(config.etag, config.uploaded, file', cloud)
      BY <1>1, FileGrows
    <2> QED
      BY <2>1 DEF OtherProgramSaves, TrueOf
  <1>4. ASSUME NEW d \in Commands PROVE FineAt(d, file, cloud)'
    <2>1. run[d] \in Processes /\ FineAt(d, file, cloud)
      BY AtHand
    <2>2. Fine(run[d], file', cloud) /\ Decided(plan[d], decided[d], file', cloud)
      BY <1>1, <2>1, FileGrows DEF FineAt
    <2> QED
      BY <2>1, <2>2 DEF OtherProgramSaves, FineAt, Fine, Decided, SameBytes, TrueOf, Revision
  <1> QED
    BY <1>2, <1>3, <1>4 DEF CliInv

LEMMA OthersUpload ==
  ASSUME CliInv, OtherDeviceUploads
  PROVE  CliInv'
  <1>0. /\ cloud \in Seq(Content) /\ Len(cloud) \in Nat \ {0} /\ cloud[Len(cloud)] \in Content
        /\ made \in {0} \union Edits /\ made \in Nat
    BY CliSyncConstants DEF CliInv, WireTyped, Versions, Edits
  <1> DEFINE has == cloud[CloudVersion] \union {made'}
  <1>1. /\ made' \in Edits /\ has \in Content /\ cloud[Len(cloud)] \subseteq has
        /\ cloud' = Append(cloud, has) /\ Len(cloud) < MaxWrites
    BY <1>0, CliSyncConstants DEF OtherDeviceUploads, Edits, Content, CloudVersion
  <1> HIDE DEF has
  <1>2. /\ cloud' \in Seq(Content) /\ Len(cloud') \in Versions /\ CloudGrows'
        /\ \A p \in Processes : Fine(p, file, cloud) => Fine(p, file, cloud')
        /\ \A c \in Commands : Decided(plan[c], decided[c], file, cloud')
        /\ config # Unbound => TrueOf(config.etag, config.uploaded, file, cloud')
    BY <1>1, CloudTakes
  <1>3. WireTyped' /\ CommandsTyped'
    BY <1>1, <1>2 DEF OtherDeviceUploads, CliInv, WireTyped, CommandsTyped
  <1>4. (config # Unbound => TrueOf(config.etag, config.uploaded, file, cloud))'
    BY <1>2 DEF OtherDeviceUploads, TrueOf
  <1>5. ASSUME NEW d \in Commands PROVE FineAt(d, file, cloud)'
    <2>1. run[d] \in Processes /\ FineAt(d, file, cloud)
      BY AtHand
    <2>2. Fine(run[d], file, cloud') /\ Decided(plan[d], decided[d], file, cloud')
      BY <1>2, <2>1 DEF FineAt
    <2> QED
      BY <2>1, <2>2 DEF OtherDeviceUploads, FineAt, Fine, Decided, SameBytes, TrueOf, Revision, WasTheFile
  <1> QED
    BY <1>2, <1>3, <1>4, <1>5 DEF CliInv

\* A save puts its bytes into place: the file was still the document's, so nothing is lost.
LEMMA Publishing ==
  ASSUME CliInv, NEW c \in Commands, SavePublishes(c)
  PROVE  CliInv'
  <1> DEFINE r == run[c]
             p == IF r.kind = "edit" THEN Idle
                  ELSE [r EXCEPT !.at = "first check", !.upload = file']
  <1>1. /\ run' = [run EXCEPT ![c] = p] /\ r.at = "encoded" /\ file.rev = r.doc.rev
        /\ file' = [rev |-> file.rev + 1, has |-> r.upload.has] /\ file.rev < MaxWrites
        /\ saveLock' = NoCommand
        /\ UNCHANGED <<cloud, config, provider, made, plan, decided>>
    BY DEF SavePublishes, Becomes, Leave, At, StillOurs
  <1>2. r \in Processes /\ Fine(r, file, cloud) /\ SameBytes(r, plan[c], decided[c])
    BY AtHand DEF FineAt
  <1>3. /\ r.kind \in {"edit", "commit"} /\ r.doc.has = file.has
        /\ file.has \subseteq r.upload.has /\ r.upload.has \in Content
    BY <1>1, <1>2 DEF Fine, WasTheFile, Processes, Writes
  <1>4. /\ file \in [rev : Versions, has : Content] /\ Versions \subseteq Nat
        /\ file.rev \in Nat /\ file.rev + 1 \in Versions
    BY <1>1, CliSyncConstants DEF CliInv, WireTyped, Versions
  <1>5. /\ file' \in [rev : Versions, has : Content] /\ file'.rev = file.rev + 1
        /\ file'.has = r.upload.has /\ file.has \subseteq file'.has
    BY <1>1, <1>3, <1>4
  <1>6. /\ \A q \in Processes : Fine(q, file, cloud) => Fine(q, file', cloud)
        /\ \A d \in Commands : Decided(plan[d], decided[d], file', cloud)
        /\ config # Unbound => TrueOf(config.etag, config.uploaded, file', cloud)
    BY <1>5, FileGrows
  <1>7. p \in Processes /\ Fine(p, file', cloud) /\ SameBytes(p, plan[c], decided[c])
    <2>1. CASE r.kind = "edit"
      BY <2>1, IdleIsOne DEF Fine, SameBytes, Idle, Merged, Sent
    <2>2. CASE r.kind # "edit"
      <3>1. p = [r EXCEPT !.at = "first check", !.upload = file']
        BY <2>2
      <3>2. file' \in Writes
        BY <1>5 DEF Writes
      <3>3. /\ p \in Processes /\ p.at = "first check" /\ p.upload = file' /\ p.doc = r.doc
            /\ p.kind = r.kind /\ p.remote = r.remote
        BY <1>2, <3>1, <3>2 DEF Processes
      <3> HIDE DEF p
      <3>4. SameBytes(p, plan[c], decided[c])
        BY <1>1, <1>2, <3>3 DEF SameBytes
      <3>5. Fine(r, file', cloud)
        BY <1>2, <1>6
      <3>6. WasTheFile(file', file')
        BY <1>4, <1>5 DEF WasTheFile
      <3>7. Fine(p, file', cloud)
        BY <1>1, <1>3, <1>5, <2>2, <3>3, <3>5, <3>6 DEF Fine, Merged, Sent
      <3> QED
        BY <3>3, <3>4, <3>7
    <2> QED
      BY <2>1, <2>2
  <1> HIDE DEF p
  <1>8. WireTyped' /\ CommandsTyped' /\ CloudGrows'
    BY <1>1, <1>5, <1>7 DEF CliInv, WireTyped, CommandsTyped, CloudGrows
  <1>9. (config # Unbound => TrueOf(config.etag, config.uploaded, file, cloud))'
    BY <1>1, <1>6 DEF TrueOf
  <1>10. ASSUME NEW d \in Commands PROVE FineAt(d, file, cloud)'
    <2>1. run[d] \in Processes /\ FineAt(d, file, cloud)
      BY AtHand
    <2>2. run'[d] = IF d = c THEN p ELSE run[d]
      BY <1>1 DEF CliInv, CommandsTyped
    <2>3. Fine(run'[d], file', cloud) /\ SameBytes(run'[d], plan[d], decided[d])
      BY <1>6, <1>7, <2>1, <2>2 DEF FineAt
    <2>4. Decided(plan[d], decided[d], file', cloud)
      BY <1>6
    <2> QED
      BY <1>1, <2>3, <2>4 DEF FineAt
  <1> QED
    BY <1>8, <1>9, <1>10 DEF CliInv

\* The cloud copy takes what command c sends, and c goes on with what it knows then.
LEMMA Uploading ==
  ASSUME CliInv, NEW c \in Commands, NEW p \in Processes, Replaces(c), IfMatch(c),
         At(c, "upload"), CloudVersion < MaxWrites,
         run' = [run EXCEPT ![c] = p],
         UNCHANGED <<file, config, provider, made, saveLock, plan, decided>>,
         \/ p = Idle
         \/ /\ p.at \in Sent /\ p.doc = run[c].doc /\ p.upload = run[c].upload
            /\ p.kind = run[c].kind /\ p.remote.etag = CloudVersion + 1
  PROVE  CliInv'
  <1> DEFINE r == run[c]
  <1>1. r \in Processes /\ Fine(r, file, cloud) /\ SameBytes(r, plan[c], decided[c])
    BY AtHand DEF FineAt
  <1>2. /\ Revision(r.remote.etag, r.remote.has, cloud) /\ r.kind = "commit"
        /\ r.upload.has = r.doc.has \union r.remote.has /\ WasTheFile(r.upload, file)
        /\ r.upload.has \in Content /\ r.remote.etag = Len(cloud)
        /\ r.upload.rev \in {0} \union Versions
    BY <1>1 DEF Fine, At, Merged, IfMatch, CloudVersion, Processes, Writes
  <1>3. cloud[Len(cloud)] \subseteq r.upload.has
    BY <1>2 DEF Revision
  <1>4. cloud' = Append(cloud, r.upload.has) /\ Len(cloud) < MaxWrites
    BY DEF Replaces, CloudVersion
  <1>5. /\ cloud' \in Seq(Content) /\ Len(cloud') = Len(cloud) + 1 /\ Len(cloud') \in Versions
        /\ cloud'[Len(cloud')] = r.upload.has
        /\ CloudGrows'
        /\ \A q \in Processes : Fine(q, file, cloud) => Fine(q, file, cloud')
        /\ \A d \in Commands : Decided(plan[d], decided[d], file, cloud')
        /\ config # Unbound => TrueOf(config.etag, config.uploaded, file, cloud')
    BY <1>2, <1>3, <1>4, CloudTakes
  <1>6. Fine(p, file, cloud') /\ SameBytes(p, plan[c], decided[c])
    <2>1. CASE p = Idle
      BY <2>1 DEF Fine, SameBytes, Idle, Merged, Sent
    <2>2. CASE /\ p.at \in Sent /\ p.doc = r.doc /\ p.upload = r.upload /\ p.kind = r.kind
               /\ p.remote.etag = CloudVersion + 1
      <3>1. Len(cloud') \in 1..Len(cloud') /\ p.remote.etag = Len(cloud')
        BY <1>5, <2>2, CliSyncConstants DEF CloudVersion, Versions
      <3>2. r.upload.rev <= file.rev
        BY <1>2 DEF WasTheFile
      <3>3. TrueOf(p.remote.etag, p.upload.rev, file, cloud')
        BY <1>2, <1>5, <2>2, <3>1, <3>2 DEF TrueOf, WasTheFile
      <3>4. WasTheFile(p.doc, file)
        BY <1>1, <2>2 DEF Fine, At
      <3>5. SameBytes(p, plan[c], decided[c])
        BY <1>1, <2>2 DEF SameBytes, At
      <3> QED
        BY <2>2, <3>3, <3>4, <3>5 DEF Fine, Merged, Sent
    <2> QED
      BY <2>1, <2>2
  <1>7. WireTyped' /\ CommandsTyped'
    BY <1>5 DEF CliInv, WireTyped, CommandsTyped
  <1>8. (config # Unbound => TrueOf(config.etag, config.uploaded, file, cloud))'
    BY <1>5 DEF TrueOf
  <1>9. ASSUME NEW d \in Commands PROVE FineAt(d, file, cloud)'
    <2>1. run[d] \in Processes /\ FineAt(d, file, cloud)
      BY AtHand
    <2>2. run'[d] = IF d = c THEN p ELSE run[d]
      BY DEF CliInv, CommandsTyped
    <2>3. Fine(run'[d], file, cloud') /\ SameBytes(run'[d], plan[d], decided[d])
      BY <1>5, <1>6, <2>1, <2>2 DEF FineAt
    <2>4. Decided(plan[d], decided[d], file, cloud')
      BY <1>5
    <2> QED
      BY <2>3, <2>4 DEF FineAt
  <1> QED
    BY <1>5, <1>7, <1>8, <1>9 DEF CliInv

LEMMA Saving ==
  ASSUME CliInv, NEW c \in Commands, SaveConfig(c)
  PROVE  CliInv'
  <1> DEFINE r == run[c]
  <1>1. /\ run' = [run EXCEPT ![c] = Idle] /\ r.at = "second check"
        /\ config' = [etag |-> r.remote.etag, uploaded |-> r.upload.rev]
        /\ UNCHANGED <<file, cloud, provider, made, saveLock, plan, decided>>
    BY DEF SaveConfig, Leave, Becomes, At, Recorded
  <1>2. r \in Processes /\ TrueOf(r.remote.etag, r.upload.rev, file, cloud)
    BY AtHand, <1>1 DEF FineAt, Fine, Sent
  <1>3. config' \in BindingsKept /\ TrueOf(config'.etag, config'.uploaded, file, cloud)
    BY <1>1, <1>2 DEF Processes, RemoteCopies, Writes, BindingsKept
  <1>4. WireTyped' /\ CommandsTyped' /\ CloudGrows'
    BY <1>1, <1>3, IdleIsOne DEF CliInv, WireTyped, CommandsTyped, CloudGrows
  <1>5. (config # Unbound => TrueOf(config.etag, config.uploaded, file, cloud))'
    BY <1>1, <1>3 DEF TrueOf
  <1>6. ASSUME NEW d \in Commands PROVE FineAt(d, file, cloud)'
    <2>1. FineAt(d, file, cloud)
      BY AtHand
    <2>2. run'[d] = IF d = c THEN Idle ELSE run[d]
      BY <1>1 DEF CliInv, CommandsTyped
    <2>3. Fine(Idle, file, cloud) /\ SameBytes(Idle, plan[d], decided[d])
      BY DEF Fine, SameBytes, Idle, Merged, Sent
    <2>4. Fine(run'[d], file, cloud) /\ SameBytes(run'[d], plan[d], decided[d])
      BY <2>1, <2>2, <2>3 DEF FineAt
    <2> QED
      BY <1>1, <2>1, <2>4 DEF FineAt
  <1> QED
    BY <1>4, <1>5, <1>6 DEF CliInv

LEMMA Disconnecting ==
  ASSUME CliInv, Disconnect
  PROVE  CliInv'
  <1>1. config' = Unbound /\ UNCHANGED <<file, cloud, provider, made, saveLock, run, plan, decided>>
    BY DEF Disconnect
  <1>2. WireTyped' /\ CommandsTyped' /\ CloudGrows'
    BY <1>1 DEF CliInv, WireTyped, CommandsTyped, CloudGrows, Unbound, BindingsKept
  <1>3. ASSUME NEW d \in Commands PROVE FineAt(d, file, cloud)'
    <2>1. FineAt(d, file, cloud)
      BY AtHand
    <2> QED
      BY <1>1, <2>1 DEF FineAt
  <1> QED
    BY <1>1, <1>2, <1>3 DEF CliInv

LEMMA UploadingContent ==
  ASSUME CliInv, NEW c \in Commands, UploadContent(c)
  PROVE  CliInv'
  <1> DEFINE r == run[c]
             p == [r EXCEPT !.at = "second check", !.remote.etag = CloudVersion + 1]
  <1>1. r \in Processes /\ r.at = "upload" /\ CloudVersion + 1 \in Versions
    BY AtHand, CliSyncConstants DEF UploadContent, At, Versions
  <1>2. /\ p \in Processes /\ p.at = "second check" /\ p.doc = r.doc /\ p.upload = r.upload
        /\ p.kind = r.kind /\ p.remote.etag = CloudVersion + 1
    BY <1>1 DEF Processes, RemoteCopies
  <1>3. run' = [run EXCEPT ![c] = p] \/ run' = [run EXCEPT ![c] = Idle]
    BY DEF UploadContent, Becomes, Leave
  <1>4. /\ Replaces(c) /\ IfMatch(c) /\ At(c, "upload") /\ CloudVersion < MaxWrites
        /\ UNCHANGED <<file, config, provider, made, saveLock, plan, decided>>
    BY DEF UploadContent
  <1> HIDE DEF p
  <1>5. CASE run' = [run EXCEPT ![c] = p]
    BY Uploading, <1>2, <1>4, <1>5 DEF Sent
  <1>6. CASE run' = [run EXCEPT ![c] = Idle]
    BY Uploading, IdleIsOne, <1>4, <1>6
  <1> QED
    BY <1>3, <1>5, <1>6

LEMMA Replacing ==
  ASSUME CliInv, NEW c \in Commands, PublishReplaces(c)
  PROVE  CliInv'
  <1> DEFINE r == run[c]
             p == [r EXCEPT !.at = "read back", !.remote.etag = CloudVersion + 1]
  <1>1. r \in Processes /\ r.at = "upload" /\ CloudVersion + 1 \in Versions
    BY AtHand, CliSyncConstants DEF PublishReplaces, At, Versions
  <1>2. /\ p \in Processes /\ p.at = "read back" /\ p.doc = r.doc /\ p.upload = r.upload
        /\ p.kind = r.kind /\ p.remote.etag = CloudVersion + 1
    BY <1>1 DEF Processes, RemoteCopies
  <1>3. run' = [run EXCEPT ![c] = p]
    BY DEF PublishReplaces, Becomes
  <1>4. /\ Replaces(c) /\ IfMatch(c) /\ At(c, "upload") /\ CloudVersion < MaxWrites
        /\ UNCHANGED <<file, config, provider, made, saveLock, plan, decided>>
    BY DEF PublishReplaces
  <1> HIDE DEF p
  <1> QED
    BY Uploading, <1>2, <1>3, <1>4 DEF Sent

\* Whatever anybody does next, what the commands know stays true.
LEMMA CliInductive == CliInv /\ [CliNext]_cliVars => CliInv'
  <1> SUFFICES ASSUME CliInv, [CliNext]_cliVars PROVE CliInv'
    OBVIOUS
  <1>1. ASSUME NEW c \in Commands, Step(c) PROVE CliInv'
    <2>1. CASE \E kind \in Runs[c] : StartCommand(c, kind)
      BY Starting, <2>1
    <2>2. CASE MutateVault(c) \/ SaveBegins(c) \/ SavePublishes(c)
      BY Mutating, SaveBeginning, Publishing, <2>2
    <2>3. CASE LoadConfig(c) \/ ReadCurrentBytes(c)
      BY LoadingConfig, ReadingBytes, <2>3
    <2>4. CASE Download(c) \/ DownloadUnnamed(c) \/ AskBefore(c)
      BY Downloading, <2>4
    <2>5. CASE FetchBody(c) \/ AskAfter(c)
      BY Bracketing, <2>5
    <2>6. CASE Plan(c) \/ Commit(c) \/ FirstCheck(c)
      BY Planning, Committing, Checking, <2>6
    <2>7. CASE UploadContent(c) \/ PublishReplaces(c) \/ PublishReadsBack(c)
      BY UploadingContent, Replacing, ReadingBack, <2>7
    <2>8. CASE SaveConfig(c) \/ Fails(c)
      BY Saving, Failing, <2>8
    <2> QED
      BY <1>1, <2>1, <2>2, <2>3, <2>4, <2>5, <2>6, <2>7, <2>8 DEF Step
  <1>2. CASE UNCHANGED cliVars
    <2>1. UNCHANGED <<file, cloud, config, provider, made, saveLock, run, plan, decided>>
      BY <1>2 DEF cliVars
    <2>2. WireTyped' /\ CommandsTyped' /\ CloudGrows'
      BY <2>1 DEF CliInv, WireTyped, CommandsTyped, CloudGrows
    <2>3. (config # Unbound => TrueOf(config.etag, config.uploaded, file, cloud))'
      BY <2>1 DEF CliInv
    <2>4. \A d \in Commands : FineAt(d, file, cloud)'
      BY <2>1 DEF CliInv, FineAt
    <2> QED
      BY <2>2, <2>3, <2>4 DEF CliInv
  <1> QED
    BY <1>1, <1>2, OthersSave, OthersUpload, Disconnecting DEF CliNext

\* The cloud copy only gains: what a command sends holds what it replaces.
LEMMA CloudOnlyGains ==
  CliInv /\ [CliNext]_cliVars => [cloud[CloudVersion] \subseteq cloud'[Len(cloud')]]_cliVars
  <1> SUFFICES ASSUME CliInv, CliNext PROVE cloud[CloudVersion] \subseteq cloud'[Len(cloud')]
    OBVIOUS
  <1>1. cloud' = cloud => cloud[CloudVersion] \subseteq cloud'[Len(cloud')]
    BY DEF CloudVersion
  <1>2. cloud \in Seq(Content) /\ Len(cloud) \in Nat \ {0}
    BY CliSyncConstants DEF CliInv, WireTyped, Versions
  <1>3. ASSUME NEW has \in Content, cloud' = Append(cloud, has), cloud[CloudVersion] \subseteq has
        PROVE  cloud[CloudVersion] \subseteq cloud'[Len(cloud')]
    <2>1. cloud'[Len(cloud')] = has
      BY <1>2, <1>3
    <2> QED
      BY <1>3, <2>1
  <1>4. CASE OtherDeviceUploads
    <2>1. made' \in Edits /\ cloud[CloudVersion] \union {made'} \in Content
      BY AtHand, <1>2, <1>4, CliSyncConstants
      DEF OtherDeviceUploads, CliInv, WireTyped, Edits, Content, CloudVersion
    <2> QED
      BY <1>3, <1>4, <2>1 DEF OtherDeviceUploads
  <1>5. ASSUME NEW c \in Commands, UploadContent(c) \/ PublishReplaces(c)
        PROVE  cloud[CloudVersion] \subseteq cloud'[Len(cloud')]
    <2>1. run[c] \in Processes /\ Fine(run[c], file, cloud) /\ run[c].at = "upload" /\ IfMatch(c)
      BY AtHand, <1>5 DEF FineAt, UploadContent, PublishReplaces, At
    <2>2. run[c].upload.has \in Content /\ cloud[CloudVersion] \subseteq run[c].upload.has
      BY <2>1 DEF Fine, Merged, Revision, IfMatch, Processes, Writes
    <2>3. cloud' = Append(cloud, run[c].upload.has)
      BY <1>5 DEF UploadContent, PublishReplaces, Replaces
    <2> QED
      BY <1>3, <2>2, <2>3
  <1>6. \/ cloud' = cloud \/ OtherDeviceUploads
        \/ \E c \in Commands : UploadContent(c) \/ PublishReplaces(c)
    BY DEF CliNext, Step, OtherProgramSaves, Disconnect, StartCommand, MutateVault, SaveBegins,
           SavePublishes, LoadConfig, ReadCurrentBytes, Download, DownloadUnnamed, AskBefore,
           FetchBody, AskAfter, Plan, Commit, FirstCheck, PublishReadsBack, SaveConfig, Fails
  <1> QED
    BY <1>1, <1>4, <1>5, <1>6

\* The vault file only gains: what a save publishes holds what it replaces.
LEMMA FileOnlyGains ==
  CliInv /\ [CliNext]_cliVars => [file.has \subseteq file'.has]_cliVars
  <1> SUFFICES ASSUME CliInv, CliNext PROVE file.has \subseteq file'.has
    OBVIOUS
  <1>1. CASE OtherProgramSaves
    BY <1>1 DEF OtherProgramSaves
  <1>2. ASSUME NEW c \in Commands, SavePublishes(c) PROVE file.has \subseteq file'.has
    <2>1. Fine(run[c], file, cloud) /\ run[c].at = "encoded" /\ file.rev = run[c].doc.rev
      BY AtHand, <1>2 DEF FineAt, SavePublishes, At, StillOurs
    <2>2. file.has \subseteq run[c].upload.has
      BY <2>1 DEF Fine, WasTheFile
    <2> QED
      BY <1>2, <2>2 DEF SavePublishes
  <1>3. \/ file' = file \/ OtherProgramSaves \/ \E c \in Commands : SavePublishes(c)
    BY DEF CliNext, Step, OtherDeviceUploads, Disconnect, StartCommand, MutateVault, SaveBegins,
           LoadConfig, ReadCurrentBytes, Download, DownloadUnnamed, AskBefore,
           FetchBody, AskAfter, Plan, Commit, FirstCheck, UploadContent, PublishReplaces,
           PublishReadsBack, SaveConfig, Fails
  <1> QED
    BY <1>1, <1>2, <1>3

\* The two contents a commit merges are those its plan was made from.
LEMMA CommitsAnswer ==
  ASSUME CliInv, NEW c \in Commands, Commit(c)
  PROVE  decided[c] = [mine |-> run[c].doc.has, theirs |-> run[c].remote.has]
  <1> DEFINE r == run[c]
  <1>1. /\ Fine(r, file, cloud) /\ Decided(plan[c], decided[c], file, cloud)
        /\ SameBytes(r, plan[c], decided[c]) /\ r.at = "compare"
        /\ decided[c] \in [mine : Content, theirs : Content]
    BY AtHand DEF FineAt, Commit, At, Decisions
  <1>2. plan[c].rev = r.doc.rev /\ plan[c].etag = r.remote.etag
    BY DEF Commit, PlanToken
  <1>3. r.doc.rev # 0
    <2>1. r.doc.rev \in 1..file.rev /\ file.rev \in Nat
      BY AtHand, <1>1 DEF Fine, WasTheFile
    <2> QED
      BY <2>1
  <1>4. decided[c].mine = r.doc.has
    BY <1>1, <1>2 DEF SameBytes
  <1>5. decided[c].theirs = r.remote.has
    BY <1>1, <1>2, <1>3 DEF Fine, Decided, Revision
  <1> QED
    BY <1>1, <1>4, <1>5

\* What the invariant says of the binding and of the types.
LEMMA CliPromises ==
  CliInv => NamedRevisionIsMerged /\ UploadedWriteIsInTheCloud /\ CliTypeOK
  <1> SUFFICES ASSUME CliInv PROVE NamedRevisionIsMerged /\ UploadedWriteIsInTheCloud /\ CliTypeOK
    OBVIOUS
  <1>1. NamedRevisionIsMerged /\ UploadedWriteIsInTheCloud
    BY DEF CliInv, TrueOf, NamedRevisionIsMerged, UploadedWriteIsInTheCloud
  <1>2. ASSUME NEW c \in Commands
        PROVE  /\ run[c].doc.has \in Content /\ run[c].remote.has \in Content
               /\ run[c].upload.has \in Content
               /\ plan[c].rev \in {0} \union Versions /\ plan[c].etag \in {0} \union Versions
    BY AtHand DEF Processes, Writes, RemoteCopies, Plans
  <1>3. CliTypeOK
    BY <1>2 DEF CliInv, WireTyped, CliTypeOK, BindingsKept, CloudVersion
  <1> QED
    BY <1>1, <1>3

\* Beside everybody else a command loses nothing of theirs.
LEMMA CommandsKeep == CliSpec => CommandsLoseNothing /\ []CliTypeOK
  <1>1. CliInv /\ [CliNext]_cliVars =>
          [\A c \in Commands : Commit(c) =>
             decided[c] = [mine |-> run[c].doc.has, theirs |-> run[c].remote.has]]_cliVars
    BY CommitsAnswer
  <1> QED
    BY <1>1, CliInitial, CliInductive, CliPromises, CloudOnlyGains, FileOnlyGains, PTL
    DEF CliSpec, CommandsLoseNothing, CloudKeepsEverything, FileKeepsEverything, CommitAnswersItsPlan

-----------------------------------------------------------------------------
(* The tree of groups: places.                                             *)

Anywhere == Groups \union {Root, Nowhere}

\* What every set closed upward holds with x, it holds with what x is within.
LEMMA WithinItself == ASSUME NEW where, NEW x PROVE Within(where, x, x)
  BY DEF Within

LEMMA WithinFurther ==
  ASSUME NEW where, NEW x, NEW y, NEW z, Within(where, x, y), Within(where, y, z)
  PROVE  Within(where, x, z)
  BY DEF Within

\* A group is within the place it is in.
LEMMA WithinParent ==
  ASSUME NEW where, NEW g \in Groups
  PROVE  Within(where, g, where[g])
  BY DEF Within, UpwardClosed

\* Nothing but the root itself is met from the root, and nothing from nowhere.
LEMMA FromTheRoot ==
  ASSUME NEW where, NEW g \in Groups
  PROVE  ~Within(where, Root, g) /\ ~Within(where, Nowhere, Root)
  <1>1. {Root} \in UpwardClosed(where) /\ {Nowhere} \in UpwardClosed(where)
    BY GroupTreeConstants DEF UpwardClosed, Items
  <1>2. g \notin {Root} /\ Root \notin {Nowhere}
    BY GroupTreeConstants DEF Items, Root, Nowhere
  <1> QED
    BY <1>1, <1>2 DEF Within

\* In a tree the place of what is there is there as well.
LEMMA PlaceIsThere ==
  ASSUME NEW where \in [Items -> Anywhere], Hangs(where), NEW x \in Items, where[x] # Nowhere
  PROVE  where[x] = Root \/ (where[x] \in Groups /\ where[where[x]] # Nowhere)
  <1> DEFINE g == where[x]
  <1>1. SUFFICES ASSUME g \in Groups, where[g] = Nowhere PROVE FALSE
    BY DEF Anywhere
  <1>2. {g, Nowhere} \in UpwardClosed(where)
    BY <1>1, GroupTreeConstants DEF UpwardClosed, Items
  <1>3. Root \notin {g, Nowhere}
    BY <1>1, GroupTreeConstants DEF Items, Root, Nowhere
  <1> QED
    BY <1>2, <1>3 DEF Hangs, Within

\* A tree stays one when one group is put below a place that is there and not within that group.
LEMMA MoveKeepsTheTree ==
  ASSUME NEW where \in [Items -> Anywhere], Hangs(where), NEW g \in Groups,
         NEW target \in Groups \union {Root}, target = Root \/ where[target] # Nowhere,
         ~Within(where, target, g)
  PROVE  Hangs([where EXCEPT ![g] = target])
  <1> DEFINE new == [where EXCEPT ![g] = target]
  <1>1. new \in [Items -> Anywhere] /\ new[g] = target /\ \A x \in Items \ {g} : new[x] = where[x]
    BY DEF Items, Anywhere
  <1>2. PICK T \in UpwardClosed(where) : target \in T /\ g \notin T
    BY DEF Within
  <1>3. ASSUME NEW S \in UpwardClosed(where), target \in S
        PROVE  Root \in S
    <2>1. CASE target = Root
      BY <1>3, <2>1
    <2>2. CASE target # Root
      <3>1. target \in Groups /\ where[target] \in S /\ target \in Items
        BY <1>3, <2>2 DEF UpwardClosed, Items
      <3> QED
        BY <1>3, <2>2, <3>1 DEF Hangs, Within
    <2> QED
      BY <2>1, <2>2
  <1> HIDE DEF new
  <1>4. ASSUME NEW x \in Items, new[x] # Nowhere, NEW S \in UpwardClosed(new), new[x] \in S
        PROVE  Root \in S
    <2>1. CASE g \in S
      <3>1. target \in S
        BY <1>1, <2>1 DEF UpwardClosed
      <3>2. S \intersect T \in UpwardClosed(where)
        BY <1>1, <1>2 DEF UpwardClosed, Items
      <3> QED
        BY <1>2, <1>3, <3>1, <3>2
    <2>2. CASE g \notin S
      <3>1. S \in UpwardClosed(where)
        BY <1>1, <2>2 DEF UpwardClosed, Items
      <3>2. CASE x = g
        BY <1>1, <1>3, <1>4, <3>1, <3>2
      <3>3. CASE x # g
        BY <1>1, <1>4, <3>1, <3>3 DEF Hangs, Within
      <3> QED
        BY <3>2, <3>3
    <2> QED
      BY <2>1, <2>2
  <1>5. Hangs(new)
    BY <1>4 DEF Hangs, Within
  <1> QED
    BY <1>5 DEF new

\* Nothing is below an entry: it may be anywhere that is there, or nowhere.
LEMMA EntryKeepsTheTree ==
  ASSUME NEW where \in [Items -> Anywhere], Hangs(where), NEW e \in Entries,
         NEW target \in Anywhere,
         target \in {Root, Nowhere} \/ where[target] # Nowhere
  PROVE  Hangs([where EXCEPT ![e] = target])
  <1> DEFINE new == [where EXCEPT ![e] = target]
  <1>1. e \notin Groups /\ e \in Items
    BY GroupTreeConstants DEF Items
  <1>2. new[e] = target /\ \A x \in Items \ {e} : new[x] = where[x]
    BY <1>1
  <1>3. ASSUME NEW S \in UpwardClosed(new) PROVE S \in UpwardClosed(where)
    BY <1>1, <1>2 DEF UpwardClosed, Items
  <1>4. ASSUME NEW S \in UpwardClosed(where), target \in S, target # Nowhere
        PROVE  Root \in S
    <2>1. CASE target = Root
      BY <1>4, <2>1
    <2>2. CASE target # Root
      <3>1. target \in Groups /\ where[target] \in S /\ target \in Items /\ where[target] # Nowhere
        BY <1>4, <2>2 DEF UpwardClosed, Items, Anywhere
      <3> QED
        BY <1>4, <3>1 DEF Hangs, Within
    <2> QED
      BY <2>1, <2>2
  <1> HIDE DEF new
  <1>5. ASSUME NEW x \in Items, new[x] # Nowhere, NEW S \in UpwardClosed(new), new[x] \in S
        PROVE  Root \in S
    BY <1>2, <1>3, <1>4, <1>5 DEF Hangs, Within
  <1>6. Hangs(new)
    BY <1>5 DEF Hangs, Within
  <1> QED
    BY <1>6 DEF new

\* A group that is there is not below itself.
LEMMA NoCircle ==
  ASSUME NEW where \in [Items -> Anywhere], Hangs(where), NEW g \in Groups, where[g] # Nowhere
  PROVE  ~Within(where, where[g], g)
  <1>1. SUFFICES ASSUME Within(where, where[g], g) PROVE FALSE
    OBVIOUS
  <1> DEFINE D == {y \in Anywhere : Within(where, y, g)}
  <1>2. ASSUME NEW y \in D \intersect Groups PROVE where[y] \in D
    <2>1. where[y] \in Anywhere /\ Within(where, y, g)
      BY DEF Items
    <2>2. CASE y = g
      BY <1>1, <2>1, <2>2
    <2>3. CASE y # g
      <3>1. ASSUME NEW S \in UpwardClosed(where), where[y] \in S PROVE g \in S
        <4>1. S \union {y} \in UpwardClosed(where)
          BY <3>1 DEF UpwardClosed
        <4> QED
          BY <2>1, <2>3, <4>1 DEF Within
      <3> QED
        BY <2>1, <3>1 DEF Within
    <2> QED
      BY <2>2, <2>3
  <1>3. D \in UpwardClosed(where)
    BY <1>2 DEF UpwardClosed, Anywhere
  <1>4. where[g] \in D /\ g \in Items
    BY <1>1 DEF Items
  <1>5. Root \in D
    BY <1>3, <1>4 DEF Hangs, Within
  <1> QED
    BY <1>5, FromTheRoot

-----------------------------------------------------------------------------
(* The tree of groups: histories and images.                               *)

AnyVersion == [text : Nat, icon : Icons \union {NoIcon}]

PlacesInv ==
  /\ parent \in [Items -> Anywhere] /\ previous \in [Items -> Anywhere]
  /\ home \in [Items -> Anywhere] /\ recycleBin \in Groups \union {Nowhere}
  /\ Hangs(parent)
  /\ recycleBin # Nowhere => parent[recycleBin] # Nowhere
  /\ \A x \in Items : previous[x] \in Groups => parent[previous[x]] # Nowhere
  /\ \A x \in Items : home[x] # Nowhere => home[x] = previous[x] /\ recycleBin # Nowhere

ClocksInv ==
  /\ at \in [Items -> Nat] /\ moved \in [Items -> Nat] /\ grave \in [Items -> Nat]
  /\ second \in Nat /\ changes \in Nat

VersionsInv ==
  /\ says \in [Entries -> AnyVersion] /\ past \in [Entries -> Seq(AnyVersion)]
  /\ \A e \in Entries : Len(past[e]) <= HistoryCap /\ (parent[e] = Nowhere => past[e] = <<>>)
  /\ IconsAreThoseUsed

TreeInv == PlacesInv /\ ClocksInv /\ VersionsInv

\* What is kept of a history is the newest of it, as much as the cap allows.
LEMMA TrimmedKeeps ==
  ASSUME NEW h \in Seq(AnyVersion)
  PROVE  /\ Trimmed(h) \in Seq(AnyVersion) /\ Len(Trimmed(h)) <= HistoryCap
         /\ \A i \in DOMAIN Trimmed(h) : i \in DOMAIN h /\ Trimmed(h)[i] = h[i]
         /\ h = <<>> => Trimmed(h) = <<>>
  <1> DEFINE n == IF Len(h) < HistoryCap THEN Len(h) ELSE HistoryCap
  <1>1. n \in 0..Len(h) /\ n <= HistoryCap /\ Len(h) \in Nat
    BY GroupTreeConstants
  <1> HIDE DEF n
  <1>2. SubSeq(h, 1, n) \in Seq(AnyVersion) /\ Len(SubSeq(h, 1, n)) = n
    BY <1>1
  <1>3. \A i \in 1..n : SubSeq(h, 1, n)[i] = h[i]
    BY <1>1
  <1>4. Trimmed(h) = SubSeq(h, 1, n)
    BY DEF Trimmed, n
  <1>5. DOMAIN SubSeq(h, 1, n) = 1..n /\ DOMAIN h = 1..Len(h) /\ 1..n \subseteq 1..Len(h)
    BY <1>1, <1>2
  <1>6. h = <<>> => SubSeq(h, 1, n) = <<>>
    BY <1>1
  <1> QED
    BY <1>1, <1>2, <1>3, <1>4, <1>5, <1>6

\* An entry that is there, or may be.
LEMMA EntryExists ==
  ASSUME NEW e \in Entries
  PROVE  Exists(e) <=> parent[e] # Nowhere
  BY GroupTreeConstants DEF Exists, Items

\* After a refresh histories are within the cap and the table is what they show, if all images
\* shown were in the table before.
LEMMA Refreshed ==
  ASSUME NEW where \in [Items -> Anywhere], NEW s \in [Entries -> AnyVersion],
         NEW p \in [Entries -> Seq(AnyVersion)], NEW table, RefreshSnapshot(where, s, p, table),
         \A e \in Entries : where[e] = Nowhere => p[e] = <<>>,
         \A e \in Entries : where[e] # Nowhere => IconsOf(VersionsOf(s, p, e)) \subseteq table
  PROVE  VersionsInv'
  <1>1. /\ parent' = where /\ says' = s /\ past' = [e \in Entries |-> Trimmed(p[e])]
        /\ icons' = table \intersect
             UNION {IconsOf(VersionsOf(s, past', e)) : e \in {x \in Entries : where[x] # Nowhere}}
    BY DEF RefreshSnapshot
  <1>2. ASSUME NEW e \in Entries
        PROVE  /\ past'[e] \in Seq(AnyVersion) /\ Len(past'[e]) <= HistoryCap
               /\ where[e] = Nowhere => past'[e] = <<>>
               /\ IconsOf(VersionsOf(s, past', e)) \subseteq IconsOf(VersionsOf(s, p, e))
    <2>1. past'[e] = Trimmed(p[e]) /\ p[e] \in Seq(AnyVersion)
      BY <1>1
    <2>2. VersionsOf(s, past', e) \subseteq VersionsOf(s, p, e)
      BY <2>1, TrimmedKeeps DEF VersionsOf
    <2> QED
      BY <2>1, <2>2, TrimmedKeeps DEF IconsOf
  <1>3. \A e \in Entries : (Exists(e))' <=> where[e] # Nowhere
    BY <1>1, GroupTreeConstants DEF Exists, Items
  <1>4. ThereAre(Entries)' = {x \in Entries : where[x] # Nowhere}
    BY <1>3 DEF ThereAre
  <1> DEFINE shown == UNION {IconsOf(VersionsOf(s, past', e)) : e \in {x \in Entries : where[x] # Nowhere}}
  <1>5. shown \subseteq table
    BY <1>2
  <1>6. icons' = shown
    BY <1>1, <1>5
  <1>7. IconsAreThoseUsed'
    BY <1>1, <1>4, <1>6 DEF IconsAreThoseUsed
  <1>8. past' \in [Entries -> Seq(AnyVersion)]
    BY <1>1, <1>2
  <1> QED
    BY <1>1, <1>2, <1>7, <1>8 DEF VersionsInv

\* All images shown are in the table, also those of what an edit archives.
LEMMA ImagesShown ==
  ASSUME VersionsInv, NEW e \in Entries, parent[e] # Nowhere
  PROVE  /\ IconsOf(VersionsOf(says, past, e)) \subseteq icons
         /\ Tracked(e) \in [Entries -> Seq(AnyVersion)]
         /\ \A d \in Entries : VersionsOf(says, Tracked(e), d) = VersionsOf(says, past, d)
         /\ \A d \in Entries \ {e} : Tracked(e)[d] = past[d]
  <1>1. says[e] \in AnyVersion /\ past[e] \in Seq(AnyVersion) /\ Len(past[e]) \in Nat
        /\ DOMAIN past[e] = 1..Len(past[e])
    BY DEF VersionsInv
  <1> DEFINE h == <<says[e]>> \o past[e]
  <1>2. h \in Seq(AnyVersion) /\ Len(h) = Len(past[e]) + 1 /\ h[1] = says[e]
        /\ DOMAIN h = 1..(Len(past[e]) + 1)
    BY <1>1
  <1>3. \A i \in DOMAIN past[e] : h[i + 1] = past[e][i] /\ i + 1 \in DOMAIN h
    BY <1>1, <1>2
  <1>4. \A i \in DOMAIN h : i # 1 => i - 1 \in DOMAIN past[e] /\ (i - 1) + 1 = i
    BY <1>1, <1>2
  <1>5. Tracked(e) = [past EXCEPT ![e] = h]
    BY DEF Tracked, VersionsInv
  <1> HIDE DEF h
  <1>6. /\ Tracked(e) \in [Entries -> Seq(AnyVersion)] /\ Tracked(e)[e] = h
        /\ \A d \in Entries \ {e} : Tracked(e)[d] = past[d]
    BY <1>2, <1>5 DEF VersionsInv
  <1>7. ASSUME NEW d \in Entries
        PROVE  VersionsOf(says, Tracked(e), d) = VersionsOf(says, past, d)
    <2>1. CASE d # e
      BY <1>6, <2>1 DEF VersionsOf
    <2>2. CASE d = e
      <3> DEFINE before == {says[e]} \union {past[e][j] : j \in DOMAIN past[e]}
      <3>2. ASSUME NEW i \in DOMAIN h PROVE h[i] \in before
        BY <1>2, <1>3, <1>4
      <3>3. ASSUME NEW j \in DOMAIN past[e] PROVE past[e][j] \in {h[i] : i \in DOMAIN h}
        BY <1>3
      <3>4. 1 \in DOMAIN h
        BY <1>1, <1>2
      <3>5. says[e] \in {h[i] : i \in DOMAIN h} /\ says[e] = h[1]
        BY <1>2, <3>4
      <3>6. {h[i] : i \in DOMAIN h} \subseteq before
        BY <3>2
      <3>7. before \subseteq {h[i] : i \in DOMAIN h}
        BY <3>3, <3>5
      <3>8. before = {h[i] : i \in DOMAIN h}
        BY <3>6, <3>7
      <3>9. {says[e]} \union {h[i] : i \in DOMAIN h} = before
        BY <3>5, <3>8
      <3> HIDE DEF before
      <3>10. VersionsOf(says, Tracked(e), e) = {says[e]} \union {h[i] : i \in DOMAIN h}
        BY <1>6 DEF VersionsOf
      <3>11. VersionsOf(says, past, e) = before
        BY DEF VersionsOf, before
      <3> QED
        BY <2>2, <3>9, <3>10, <3>11
    <2> QED
      BY <2>1, <2>2
  <1>8. IconsOf(VersionsOf(says, past, e)) \subseteq icons
    BY EntryExists DEF VersionsInv, IconsAreThoseUsed, ThereAre
  <1> QED
    BY <1>2, <1>3, <1>4, <1>6, <1>7, <1>8

-----------------------------------------------------------------------------
(* The tree of groups: the mutations.                                      *)

LEMMA ItemExists ==
  /\ \A x \in Items : Exists(x) <=> parent[x] # Nowhere
  /\ ThereAre(Items) = {x \in Items : parent[x] # Nowhere}
  /\ GroupsNow = {Root} \union {g \in Groups : parent[g] # Nowhere}
  <1>1. \A x \in Items : Exists(x) <=> parent[x] # Nowhere
    BY GroupTreeConstants DEF Exists
  <1>2. Groups \subseteq Items
    BY DEF Items
  <1> QED
    BY <1>1, <1>2 DEF ThereAre, GroupsNow

RestoredWell(x) ==
  home[x] # Nowhere /\ home'[x] = Nowhere /\ previous'[x] = Nowhere
  => parent'[x] = IF Within(parent, home[x], recycleBin) THEN Root ELSE home[x]

NewerWell(x) ==
  Larger(at[x], moved[x]) < second + MaxLead =>
    /\ parent'[x] \notin {parent[x], Nowhere} =>
         moved'[x] > moved[x] /\ (x \in Entries => at'[x] > at[x])
    /\ parent'[x] = Nowhere => grave'[x] > Larger(at[x], moved[x])

BinWell ==
  recycleBin # Nowhere => recycleBin' = recycleBin /\ parent'[recycleBin] = parent[recycleBin]

StepsWell ==
  BinWell /\ \A x \in ThereAre(Items) : RestoredWell(x) /\ NewerWell(x)

\* A step that changes the place of one item only.
LEMMA OneMoves ==
  ASSUME TreeInv, NEW x \in Items,
         \A y \in Items \ {x} : home'[y] = home[y] /\ (parent[y] # Nowhere => parent'[y] = parent[y]),
         recycleBin # Nowhere => recycleBin' = recycleBin,
         x = recycleBin => parent'[x] = parent[x],
         parent[x] # Nowhere => RestoredWell(x) /\ NewerWell(x)
  PROVE  StepsWell
  <1>1. BinWell
    <2>1. recycleBin # Nowhere => recycleBin \in Items /\ parent[recycleBin] # Nowhere
      BY DEF TreeInv, PlacesInv, Items
    <2> QED
      BY <2>1 DEF BinWell
  <1>2. ASSUME NEW y \in ThereAre(Items) PROVE RestoredWell(y) /\ NewerWell(y)
    <2>1. y \in Items /\ parent[y] # Nowhere
      BY ItemExists
    <2>2. CASE y = x
      BY <2>1, <2>2
    <2>3. CASE y # x
      <3>1. home'[y] = home[y] /\ parent'[y] = parent[y]
        BY <2>1, <2>3
      <3> QED
        BY <2>1, <3>1 DEF RestoredWell, NewerWell
    <2> QED
      BY <2>2, <2>3
  <1> QED
    BY <1>1, <1>2 DEF StepsWell

\* Where everything is stays in order when one item was recorded to have been somewhere.
LEMMA PlacesKept ==
  ASSUME PlacesInv, parent' \in [Items -> Anywhere], Hangs(parent'),
         \A g \in Groups : parent[g] # Nowhere => parent'[g] # Nowhere,
         recycleBin' \in Groups \union {Nowhere},
         recycleBin # Nowhere => recycleBin' = recycleBin,
         recycleBin' # Nowhere => parent'[recycleBin'] # Nowhere,
         NEW x \in Items, NEW was \in Anywhere, NEW from \in Anywhere,
         previous' = [previous EXCEPT ![x] = was], home' = [home EXCEPT ![x] = from],
         was \in Groups => parent[was] # Nowhere,
         from # Nowhere => from = was /\ recycleBin' # Nowhere
  PROVE  PlacesInv'
  <1>1. /\ previous \in [Items -> Anywhere] /\ home \in [Items -> Anywhere]
        /\ previous' \in [Items -> Anywhere] /\ home' \in [Items -> Anywhere]
    BY DEF PlacesInv
  <1>2. /\ previous'[x] = was /\ home'[x] = from
        /\ \A y \in Items \ {x} : previous'[y] = previous[y] /\ home'[y] = home[y]
    BY <1>1
  <1>3. ASSUME NEW y \in Items, previous'[y] \in Groups PROVE parent'[previous'[y]] # Nowhere
    BY <1>2, <1>3 DEF PlacesInv
  <1>4. ASSUME NEW y \in Items, home'[y] # Nowhere
        PROVE  home'[y] = previous'[y] /\ recycleBin' # Nowhere
    BY <1>2, <1>4 DEF PlacesInv
  <1> QED
    BY <1>1, <1>3, <1>4 DEF PlacesInv

\* A stamp follows the one before it, up to the lead.
LEMMA NextTimeFollows ==
  ASSUME ClocksInv, NEW n \in Nat
  PROVE  NextTime(n) \in Nat /\ (n < second + MaxLead => NextTime(n) > n)
  <1>1. second \in Nat /\ MaxLead \in Nat
    BY GroupTreeConstants DEF ClocksInv
  <1> QED
    BY <1>1 DEF NextTime

LEMMA LargerOfTwo ==
  ASSUME NEW a \in Nat, NEW b \in Nat
  PROVE  Larger(a, b) \in Nat /\ a <= Larger(a, b) /\ b <= Larger(a, b)
  BY DEF Larger

\* No entry comes or goes for good, and one may have had a version archived.
LEMMA VersionsStay ==
  ASSUME VersionsInv, NEW where \in [Items -> Anywhere], NEW p,
         \A d \in Entries : where[d] = Nowhere <=> parent[d] = Nowhere,
         p = past \/ \E e \in Entries : parent[e] # Nowhere /\ p = Tracked(e),
         RefreshSnapshot(where, says, p, icons)
  PROVE  VersionsInv'
  <1>1. says \in [Entries -> AnyVersion] /\ past \in [Entries -> Seq(AnyVersion)]
    BY DEF VersionsInv
  <1>2. ASSUME NEW d \in Entries, parent[d] # Nowhere
        PROVE  IconsOf(VersionsOf(says, past, d)) \subseteq icons
    BY ImagesShown, <1>2
  <1>3. CASE p = past
    BY Refreshed, <1>1, <1>2, <1>3 DEF VersionsInv
  <1>4. ASSUME NEW e \in Entries, parent[e] # Nowhere, p = Tracked(e) PROVE VersionsInv'
    <2>1. /\ p \in [Entries -> Seq(AnyVersion)]
          /\ \A d \in Entries : VersionsOf(says, p, d) = VersionsOf(says, past, d)
          /\ \A d \in Entries \ {e} : p[d] = past[d]
      BY ImagesShown, <1>4
    <2>2. \A d \in Entries : where[d] = Nowhere => p[d] = <<>>
      BY <1>4, <2>1 DEF VersionsInv
    <2>3. \A d \in Entries : where[d] # Nowhere => IconsOf(VersionsOf(says, p, d)) \subseteq icons
      BY <1>2, <2>1
    <2> QED
      BY Refreshed, <1>1, <2>1, <2>2, <2>3
  <1> QED
    BY <1>3, <1>4

\* An entry gets another version, the one before is archived, and an image may join the table.
LEMMA VersionsGrow ==
  ASSUME VersionsInv, parent \in [Items -> Anywhere], NEW e \in Entries, parent[e] # Nowhere,
         NEW v \in AnyVersion, NEW table, icons \subseteq table, v.icon \in table \union {NoIcon},
         RefreshSnapshot(parent, [says EXCEPT ![e] = v], Tracked(e), table)
  PROVE  VersionsInv'
  <1> DEFINE s == [says EXCEPT ![e] = v]
             p == Tracked(e)
  <1>1. says \in [Entries -> AnyVersion]
    BY DEF VersionsInv
  <1>2. s \in [Entries -> AnyVersion] /\ s[e] = v /\ \A d \in Entries \ {e} : s[d] = says[d]
    BY <1>1
  <1>3. /\ p \in [Entries -> Seq(AnyVersion)]
        /\ \A d \in Entries : VersionsOf(says, p, d) = VersionsOf(says, past, d)
        /\ \A d \in Entries \ {e} : p[d] = past[d]
    BY ImagesShown
  <1> HIDE DEF s, p
  <1>4. \A d \in Entries : parent[d] = Nowhere => p[d] = <<>>
    BY <1>3 DEF VersionsInv
  <1>5. ASSUME NEW d \in Entries, parent[d] # Nowhere
        PROVE  IconsOf(VersionsOf(s, p, d)) \subseteq table
    <2>1. IconsOf(VersionsOf(says, p, d)) \subseteq icons
      BY ImagesShown, <1>3, <1>5
    <2>2. VersionsOf(s, p, d) \subseteq VersionsOf(says, p, d) \union {v}
          \/ VersionsOf(s, p, d) = VersionsOf(says, p, d)
      BY <1>2 DEF VersionsOf
    <2> QED
      BY <2>1, <2>2 DEF IconsOf
  <1>6. RefreshSnapshot(parent, s, p, table)
    BY DEF s, p
  <1> QED
    BY Refreshed, <1>2, <1>3, <1>4, <1>5, <1>6

\* A step that leaves everything in its place, and nothing has been deleted or restored.
LEMMA NothingMoves ==
  ASSUME TreeInv, UNCHANGED <<parent, previous, recycleBin, home>>
  PROVE  PlacesInv' /\ StepsWell
  <1>1. PlacesInv'
    BY DEF TreeInv, PlacesInv
  <1>2. BinWell
    BY DEF BinWell
  <1>3. \A x \in ThereAre(Items) : RestoredWell(x) /\ NewerWell(x)
    BY ItemExists DEF RestoredWell, NewerWell
  <1> QED
    BY <1>1, <1>2, <1>3 DEF StepsWell

LEMMA Refreshing ==
  ASSUME ClocksInv, NEW where, NEW s, NEW p, NEW table, RefreshSnapshot(where, s, p, table),
         at' \in [Items -> Nat], moved' \in [Items -> Nat], grave' \in [Items -> Nat]
  PROVE  ClocksInv' /\ parent' = where
  BY DEF RefreshSnapshot, ClocksInv

LEMMA UpdatingText ==
  ASSUME TreeInv, NEW e \in Entries, UpdateEntryText(e)
  PROVE  TreeInv' /\ StepsWell
  <1>1. /\ e \in Items /\ parent[e] # Nowhere
        /\ at' = [at EXCEPT ![e] = NextTime(at[e])] /\ UNCHANGED <<previous, recycleBin, moved, grave, home>>
        /\ RefreshSnapshot(parent, [says EXCEPT ![e].text = changes + 1], Tracked(e), icons)
    BY ItemExists DEF UpdateEntryText, Items, TreeInv, ClocksInv
  <1>2. NextTime(at[e]) \in Nat
    BY NextTimeFollows, <1>1 DEF TreeInv, ClocksInv
  <1>3. ClocksInv' /\ parent' = parent
    BY Refreshing, <1>1, <1>2 DEF TreeInv, ClocksInv
  <1> DEFINE v == [says[e] EXCEPT !.text = changes + 1]
  <1>4. says[e] \in AnyVersion /\ changes + 1 \in Nat
    BY DEF TreeInv, ClocksInv, VersionsInv
  <1>5. v \in AnyVersion /\ v.icon = says[e].icon
    BY <1>4 DEF AnyVersion
  <1>6. [says EXCEPT ![e].text = changes + 1] = [says EXCEPT ![e] = v]
    OBVIOUS
  <1>7. v.icon \in icons \union {NoIcon}
    <2>1. IconsOf(VersionsOf(says, past, e)) \subseteq icons
      BY ImagesShown, <1>1 DEF TreeInv
    <2>2. says[e] \in VersionsOf(says, past, e)
      BY DEF VersionsOf
    <2> QED
      BY <1>5, <2>1, <2>2 DEF IconsOf
  <1> HIDE DEF v
  <1>8. VersionsInv'
    BY VersionsGrow, <1>1, <1>5, <1>6, <1>7 DEF TreeInv, PlacesInv
  <1> QED
    BY NothingMoves, <1>1, <1>3, <1>8 DEF TreeInv

LEMMA SettingIcon ==
  ASSUME TreeInv, NEW e \in Entries, NEW i \in Icons, SetEntryCustomIcon(e, i)
  PROVE  TreeInv' /\ StepsWell
  <1>1. /\ e \in Items /\ parent[e] # Nowhere
        /\ at' = [at EXCEPT ![e] = NextTime(at[e])] /\ UNCHANGED <<previous, recycleBin, moved, grave, home>>
        /\ RefreshSnapshot(parent, [says EXCEPT ![e].icon = i], Tracked(e), icons \union {i})
    BY ItemExists DEF SetEntryCustomIcon, Items, TreeInv, ClocksInv
  <1>2. NextTime(at[e]) \in Nat
    BY NextTimeFollows, <1>1 DEF TreeInv, ClocksInv
  <1>3. ClocksInv' /\ parent' = parent
    BY Refreshing, <1>1, <1>2 DEF TreeInv, ClocksInv
  <1> DEFINE v == [says[e] EXCEPT !.icon = i]
  <1>4. says[e] \in AnyVersion
    BY DEF TreeInv, VersionsInv
  <1>5. v \in AnyVersion /\ v.icon = i
    BY <1>4 DEF AnyVersion
  <1>6. [says EXCEPT ![e].icon = i] = [says EXCEPT ![e] = v]
    OBVIOUS
  <1> HIDE DEF v
  <1>8. VersionsInv'
    BY VersionsGrow, <1>1, <1>5, <1>6 DEF TreeInv, PlacesInv
  <1> QED
    BY NothingMoves, <1>1, <1>3, <1>8 DEF TreeInv

LEMMA Renaming ==
  ASSUME TreeInv, NEW g \in Groups, RenameGroup(g)
  PROVE  TreeInv' /\ StepsWell
  <1>1. /\ g \in Items /\ at' = [at EXCEPT ![g] = NextTime(at[g])]
        /\ UNCHANGED <<previous, recycleBin, moved, grave, home>>
        /\ RefreshSnapshot(parent, says, past, icons)
    BY DEF RenameGroup, Items, TreeInv, ClocksInv
  <1>2. NextTime(at[g]) \in Nat
    BY NextTimeFollows, <1>1 DEF TreeInv, ClocksInv
  <1>3. ClocksInv' /\ parent' = parent
    BY Refreshing, <1>1, <1>2 DEF TreeInv, ClocksInv
  <1>4. VersionsInv'
    BY VersionsStay, <1>1 DEF TreeInv, PlacesInv
  <1> QED
    BY NothingMoves, <1>1, <1>3, <1>4 DEF TreeInv

LEMMA Passing ==
  ASSUME TreeInv, SecondPasses \/ UNCHANGED treeVars
  PROVE  TreeInv' /\ StepsWell
  <1>1. UNCHANGED <<parent, previous, recycleBin, says, past, icons, at, moved, grave, changes, home>>
        /\ second' \in Nat
    BY DEF SecondPasses, stamps, treeVars, TreeInv, ClocksInv
  <1>2. ClocksInv'
    BY <1>1 DEF TreeInv, ClocksInv
  <1>3. VersionsInv'
    BY <1>1 DEF TreeInv, VersionsInv, IconsAreThoseUsed, ThereAre, Exists
  <1> QED
    BY NothingMoves, <1>1, <1>2, <1>3 DEF TreeInv

\* Something comes into being below a group that is there.
LEMMA Creating ==
  ASSUME TreeInv, NEW x \in Items, parent[x] = Nowhere, NEW below \in GroupsNow,
         at' = [at EXCEPT ![x] = second], moved' = [moved EXCEPT ![x] = second],
         UNCHANGED <<previous, recycleBin, grave, home>>,
         NEW s, NEW p, NEW table, RefreshSnapshot([parent EXCEPT ![x] = below], s, p, table)
  PROVE  /\ PlacesInv' /\ ClocksInv' /\ StepsWell
         /\ below \in Groups \union {Root} /\ below # Nowhere
  <1>0. /\ parent \in [Items -> Anywhere] /\ Hangs(parent) /\ second \in Nat
        /\ below \in Groups \union {Root} /\ (below = Root \/ parent[below] # Nowhere)
        /\ below # Nowhere
    BY ItemExists, GroupTreeConstants DEF TreeInv, PlacesInv, ClocksInv, Items, Root, Nowhere
  <1>1. ClocksInv' /\ parent' = [parent EXCEPT ![x] = below]
    BY Refreshing, <1>0 DEF TreeInv, ClocksInv
  <1>2. Hangs(parent')
    <2>1. CASE x \in Entries
      BY <1>0, <1>1, <2>1, EntryKeepsTheTree DEF Anywhere
    <2>2. CASE x \in Groups
      <3>1. GroupsNow \union {Nowhere} \in UpwardClosed(parent)
        <4>1. \A g \in Groups : parent[g] # Nowhere => parent[g] \in GroupsNow
          BY PlaceIsThere, ItemExists, <1>0 DEF Items
        <4> QED
          BY <4>1, ItemExists, GroupTreeConstants DEF UpwardClosed, Items
      <3>2. x \notin GroupsNow \union {Nowhere}
        BY <2>2, ItemExists, GroupTreeConstants DEF Items
      <3>3. ~Within(parent, below, x)
        BY <3>1, <3>2 DEF Within
      <3> QED
        BY <1>0, <1>1, <2>2, <3>3, MoveKeepsTheTree
    <2> QED
      BY <2>1, <2>2 DEF Items
  <1>3. /\ parent' \in [Items -> Anywhere] /\ parent'[x] = below
        /\ \A y \in Items \ {x} : parent'[y] = parent[y]
    BY <1>0, <1>1 DEF Anywhere
  <1>4. PlacesInv'
    <2>1. /\ previous' = [previous EXCEPT ![x] = previous[x]] /\ home' = [home EXCEPT ![x] = home[x]]
          /\ previous[x] \in Anywhere /\ home[x] \in Anywhere
      BY DEF TreeInv, PlacesInv
    <2>2. \A g \in Groups : parent[g] # Nowhere => parent'[g] # Nowhere
      BY <1>0, <1>3 DEF Items
    <2>3. previous[x] \in Groups => parent[previous[x]] # Nowhere
      BY DEF TreeInv, PlacesInv
    <2>4. home[x] # Nowhere => home[x] = previous[x] /\ recycleBin' # Nowhere
      BY DEF TreeInv, PlacesInv
    <2>5. recycleBin' \in Groups \union {Nowhere} /\ (recycleBin' # Nowhere => parent'[recycleBin'] # Nowhere)
      BY <2>2 DEF TreeInv, PlacesInv
    <2> QED
      BY PlacesKept, <1>2, <1>3, <2>1, <2>2, <2>3, <2>4, <2>5 DEF TreeInv
  <1>5. x # recycleBin
    BY GroupTreeConstants DEF TreeInv, PlacesInv
  <1>6. StepsWell
    BY OneMoves, <1>3, <1>5
  <1> QED
    BY <1>0, <1>1, <1>4, <1>6

LEMMA CreatingEntry ==
  ASSUME TreeInv, NEW e \in Entries, NEW g \in GroupsNow, CreateEntry(e, g)
  PROVE  TreeInv' /\ StepsWell
  <1> DEFINE where == [parent EXCEPT ![e] = g]
             v == [text |-> changes + 1, icon |-> NoIcon]
             s == [says EXCEPT ![e] = v]
  <1>1. e \in Items /\ parent[e] = Nowhere /\ RefreshSnapshot(where, s, past, icons)
    BY ItemExists DEF CreateEntry, Items
  <1>2. PlacesInv' /\ ClocksInv' /\ StepsWell /\ g \in Groups \union {Root} /\ g # Nowhere
    BY Creating, <1>1 DEF CreateEntry
  <1>3. v \in AnyVersion
    BY DEF AnyVersion, TreeInv, ClocksInv
  <1>4. /\ s \in [Entries -> AnyVersion] /\ s[e] = v /\ \A d \in Entries \ {e} : s[d] = says[d]
    BY <1>3 DEF TreeInv, VersionsInv
  <1>5. /\ where \in [Items -> Anywhere] /\ where[e] = g
        /\ \A d \in Items \ {e} : where[d] = parent[d]
    BY <1>1, <1>2 DEF TreeInv, PlacesInv, Anywhere
  <1>6. past \in [Entries -> Seq(AnyVersion)] /\ past[e] = <<>>
    BY <1>1 DEF TreeInv, VersionsInv
  <1>7. ASSUME NEW d \in Entries, where[d] # Nowhere
        PROVE  IconsOf(VersionsOf(s, past, d)) \subseteq icons
    <2>1. CASE d = e
      <3>1. VersionsOf(s, past, d) = {v}
        BY <1>4, <1>6, <2>1 DEF VersionsOf
      <3>2. v.icon = NoIcon
        OBVIOUS
      <3> HIDE DEF v
      <3>3. IconsOf({v}) = {}
        BY <3>2 DEF IconsOf
      <3> QED
        BY <3>1, <3>3
    <2>2. CASE d # e
      <3>1. parent[d] # Nowhere
        BY <1>5, <1>7, <2>2 DEF Items
      <3>2. VersionsOf(s, past, d) = VersionsOf(says, past, d)
        BY <1>4, <2>2 DEF VersionsOf
      <3> QED
        BY ImagesShown, <3>1, <3>2 DEF TreeInv
    <2> QED
      BY <2>1, <2>2
  <1>8. \A d \in Entries : where[d] = Nowhere => past[d] = <<>>
    BY <1>2, <1>5 DEF TreeInv, VersionsInv, Items
  <1> HIDE DEF where, s, v
  <1>9. VersionsInv'
    BY Refreshed, <1>1, <1>4, <1>5, <1>6, <1>7, <1>8
  <1> QED
    BY <1>2, <1>9 DEF TreeInv

LEMMA CreatingGroup ==
  ASSUME TreeInv, NEW g \in Groups, NEW below \in GroupsNow, CreateGroup(g, below)
  PROVE  TreeInv' /\ StepsWell
  <1> DEFINE where == [parent EXCEPT ![g] = below]
  <1>1. g \in Items /\ parent[g] = Nowhere /\ RefreshSnapshot(where, says, past, icons)
    BY ItemExists DEF CreateGroup, Items
  <1>2. PlacesInv' /\ ClocksInv' /\ StepsWell /\ below \in Groups \union {Root}
    BY Creating, <1>1 DEF CreateGroup
  <1>3. where \in [Items -> Anywhere] /\ \A d \in Entries : where[d] = parent[d]
    BY <1>1, <1>2, GroupTreeConstants DEF TreeInv, PlacesInv, Anywhere, Items
  <1> HIDE DEF where
  <1>4. VersionsInv'
    BY VersionsStay, <1>1, <1>3 DEF TreeInv
  <1> QED
    BY <1>2, <1>4 DEF TreeInv

\* What a step may have done to the place of one item that was there.
LEMMA Replacing1 ==
  ASSUME TreeInv, NEW x \in Items, parent[x] # Nowhere,
         NEW start \in [Items -> Anywhere], Hangs(start),
         \A y \in Items : start[y] = parent[y] \/ (y \in Groups /\ parent[y] = Nowhere /\ start[y] = Root),
         NEW target \in Groups \union {Root}, target = Root \/ start[target] # Nowhere,
         x \in Groups => ~Within(start, target, x),
         parent' = [start EXCEPT ![x] = target],
         recycleBin' \in Groups \union {Nowhere},
         recycleBin # Nowhere => recycleBin' = recycleBin,
         recycleBin' # Nowhere => start[recycleBin'] # Nowhere,
         NEW was \in Anywhere, NEW from \in Anywhere,
         previous' = [previous EXCEPT ![x] = was], home' = [home EXCEPT ![x] = from],
         was \in Groups => parent[was] # Nowhere,
         from # Nowhere => from = was /\ recycleBin' # Nowhere,
         x # recycleBin,
         home[x] # Nowhere /\ from = Nowhere /\ was = Nowhere =>
           target = IF Within(parent, home[x], recycleBin) THEN Root ELSE home[x],
         Larger(at[x], moved[x]) < second + MaxLead =>
           moved'[x] > moved[x] /\ (x \in Entries => at'[x] > at[x])
  PROVE  PlacesInv' /\ StepsWell
  <1>1. /\ parent' \in [Items -> Anywhere] /\ parent'[x] = target
        /\ \A y \in Items \ {x} : parent'[y] = start[y]
    BY DEF Anywhere
  <1>2. target # Nowhere
    BY GroupTreeConstants DEF Items, Root, Nowhere
  <1>3. \A y \in Items : parent[y] # Nowhere => start[y] = parent[y]
    OBVIOUS
  <1>4. Hangs(parent')
    <2>1. CASE x \in Entries
      BY <2>1, EntryKeepsTheTree DEF Anywhere
    <2>2. CASE x \in Groups
      BY <2>2, MoveKeepsTheTree
    <2> QED
      BY <2>1, <2>2 DEF Items
  <1>5. \A g \in Items : start[g] # Nowhere => parent'[g] # Nowhere
    BY <1>1, <1>2
  <1>6. \A g \in Groups : parent[g] # Nowhere => parent'[g] # Nowhere
    BY <1>3, <1>5 DEF Items
  <1>7. recycleBin' # Nowhere => parent'[recycleBin'] # Nowhere
    BY <1>5 DEF Items
  <1>8. PlacesInv'
    BY PlacesKept, <1>1, <1>4, <1>6, <1>7 DEF TreeInv
  <1>9. /\ home'[x] = from /\ previous'[x] = was
        /\ \A y \in Items \ {x} : home'[y] = home[y]
    BY DEF TreeInv, PlacesInv
  <1>10. RestoredWell(x)
    BY <1>1, <1>9 DEF RestoredWell
  <1>11. NewerWell(x)
    BY <1>1, <1>2 DEF NewerWell
  <1>12. \A y \in Items \ {x} : home'[y] = home[y] /\ (parent[y] # Nowhere => parent'[y] = parent[y])
    BY <1>1, <1>3, <1>9
  <1> QED
    BY OneMoves, <1>8, <1>10, <1>11, <1>12

\* Stamps of a move.
LEMMA Stamping ==
  ASSUME ClocksInv, NEW x \in Items, NEW t \in Nat, BothClocks(x, t)
  PROVE  /\ at' \in [Items -> Nat] /\ moved' \in [Items -> Nat] /\ grave' \in [Items -> Nat]
         /\ at'[x] = t /\ moved'[x] = t
  BY DEF ClocksInv, BothClocks

\* The two ways a move is dated, both newer than what they must be newer than.
LEMMA Dates ==
  ASSUME ClocksInv, NEW x \in Items
  PROVE  /\ NextTime(Larger(at[x], moved[x])) \in Nat /\ NextTime(moved[x]) \in Nat
         /\ at[x] \in Nat /\ moved[x] \in Nat
         /\ Larger(at[x], moved[x]) < second + MaxLead =>
              /\ NextTime(Larger(at[x], moved[x])) > Larger(at[x], moved[x])
              /\ NextTime(Larger(at[x], moved[x])) > moved[x]
              /\ NextTime(Larger(at[x], moved[x])) > at[x]
              /\ NextTime(moved[x]) > moved[x]
  <1>1. at[x] \in Nat /\ moved[x] \in Nat /\ second \in Nat /\ MaxLead \in Nat
    BY GroupTreeConstants DEF ClocksInv
  <1>2. /\ Larger(at[x], moved[x]) \in Nat /\ at[x] <= Larger(at[x], moved[x])
        /\ moved[x] <= Larger(at[x], moved[x])
    BY <1>1, LargerOfTwo
  <1> DEFINE l == Larger(at[x], moved[x])
  <1>3. NextTime(l) \in Nat /\ (l < second + MaxLead => NextTime(l) > l)
    BY <1>2, NextTimeFollows
  <1>4. NextTime(moved[x]) \in Nat /\ (moved[x] < second + MaxLead => NextTime(moved[x]) > moved[x])
    BY <1>1, NextTimeFollows
  <1> HIDE DEF l
  <1>5. l \in Nat /\ at[x] <= l /\ moved[x] <= l
    BY <1>2 DEF l
  <1>6. l < second + MaxLead =>
          NextTime(l) > l /\ NextTime(l) > moved[x] /\ NextTime(l) > at[x] /\ NextTime(moved[x]) > moved[x]
    BY <1>1, <1>3, <1>4, <1>5
  <1> QED
    BY <1>1, <1>3, <1>4, <1>6 DEF l

LEMMA MovingEntry ==
  ASSUME TreeInv, NEW e \in Entries, NEW g \in GroupsNow, MoveEntryTo(e, g)
  PROVE  TreeInv' /\ StepsWell
  <1> DEFINE where == [parent EXCEPT ![e] = g]
             t == NextTime(Larger(at[e], moved[e]))
  <1>1. /\ e \in Items /\ parent[e] # Nowhere /\ BothClocks(e, t)
        /\ home' = [home EXCEPT ![e] = Nowhere] /\ UNCHANGED <<previous, recycleBin>>
        /\ RefreshSnapshot(where, says, Tracked(e), icons)
        /\ g \in Groups \union {Root} /\ (g = Root \/ parent[g] # Nowhere) /\ g # Nowhere
    BY ItemExists, GroupTreeConstants DEF MoveEntryTo, Items, Root, Nowhere
  <1>2. /\ t \in Nat
        /\ Larger(at[e], moved[e]) < second + MaxLead => t > moved[e] /\ t > at[e]
    BY Dates, <1>1 DEF TreeInv
  <1> HIDE DEF t
  <1>3. /\ at' \in [Items -> Nat] /\ moved' \in [Items -> Nat] /\ grave' \in [Items -> Nat]
        /\ at'[e] = t /\ moved'[e] = t
    BY Stamping, <1>1, <1>2 DEF TreeInv
  <1>4. /\ parent \in [Items -> Anywhere] /\ Hangs(parent) /\ e \notin Groups
        /\ previous' = [previous EXCEPT ![e] = previous[e]] /\ previous[e] \in Anywhere
        /\ Nowhere \in Anywhere /\ recycleBin \in Groups \union {Nowhere}
        /\ (recycleBin # Nowhere => parent[recycleBin] # Nowhere) /\ e # recycleBin
        /\ (previous[e] \in Groups => parent[previous[e]] # Nowhere)
        /\ (home[e] # Nowhere => home[e] = previous[e])
    BY <1>1, GroupTreeConstants DEF TreeInv, PlacesInv, Anywhere, Items
  <1>5. ClocksInv' /\ parent' = where
    BY Refreshing, <1>1, <1>3 DEF TreeInv
  <1>6. PlacesInv' /\ StepsWell
    BY Replacing1, <1>1, <1>2, <1>3, <1>4, <1>5
  <1>7. where \in [Items -> Anywhere] /\ \A d \in Entries : where[d] = Nowhere <=> parent[d] = Nowhere
    BY <1>1, <1>4 DEF Anywhere, Items
  <1>8. VersionsInv'
    <2> HIDE DEF where
    <2> QED
      BY VersionsStay, <1>1, <1>7 DEF TreeInv
  <1> QED
    BY <1>5, <1>6, <1>8 DEF TreeInv

LEMMA MovingGroup ==
  ASSUME TreeInv, NEW g \in Groups, NEW target \in GroupsNow, MoveGroup(g, target)
  PROVE  TreeInv' /\ StepsWell
  <1> DEFINE where == [parent EXCEPT ![g] = target]
             t == NextTime(moved[g])
  <1>1. /\ g \in Items /\ parent[g] # Nowhere /\ BothClocks(g, t) /\ ~Within(parent, target, g)
        /\ home' = [home EXCEPT ![g] = Nowhere] /\ UNCHANGED <<previous, recycleBin>>
        /\ RefreshSnapshot(where, says, past, icons) /\ g # recycleBin
        /\ target \in Groups \union {Root} /\ (target = Root \/ parent[target] # Nowhere)
    BY ItemExists DEF MoveGroup, Items
  <1>2. /\ t \in Nat
        /\ Larger(at[g], moved[g]) < second + MaxLead => t > moved[g]
    BY Dates, <1>1 DEF TreeInv
  <1> HIDE DEF t
  <1>3. /\ at' \in [Items -> Nat] /\ moved' \in [Items -> Nat] /\ grave' \in [Items -> Nat]
        /\ at'[g] = t /\ moved'[g] = t
    BY Stamping, <1>1, <1>2 DEF TreeInv
  <1>4. /\ parent \in [Items -> Anywhere] /\ Hangs(parent) /\ g \notin Entries
        /\ previous' = [previous EXCEPT ![g] = previous[g]] /\ previous[g] \in Anywhere
        /\ Nowhere \in Anywhere /\ recycleBin \in Groups \union {Nowhere}
        /\ (recycleBin # Nowhere => parent[recycleBin] # Nowhere)
        /\ (previous[g] \in Groups => parent[previous[g]] # Nowhere)
        /\ (home[g] # Nowhere => home[g] = previous[g])
    BY <1>1, GroupTreeConstants DEF TreeInv, PlacesInv, Anywhere, Items
  <1>5. ClocksInv' /\ parent' = where
    BY Refreshing, <1>1, <1>3 DEF TreeInv
  <1>6. PlacesInv' /\ StepsWell
    BY Replacing1, <1>1, <1>2, <1>3, <1>4, <1>5
  <1>7. where \in [Items -> Anywhere] /\ \A d \in Entries : where[d] = Nowhere <=> parent[d] = Nowhere
    BY <1>1, <1>4 DEF Anywhere, Items
  <1>8. VersionsInv'
    <2> HIDE DEF where
    <2> QED
      BY VersionsStay, <1>1, <1>7 DEF TreeInv
  <1> QED
    BY <1>5, <1>6, <1>8 DEF TreeInv

\* What a deletion put into the bin goes back; a group goes to no place below itself, for that
\* would be below the bin as well.
LEMMA Restoring ==
  ASSUME TreeInv, NEW x \in Items, NEW t \in Nat, NEW p, Restored(x, t, p),
         p = past \/ (x \in Entries /\ p = Tracked(x)),
         Larger(at[x], moved[x]) < second + MaxLead => t > moved[x] /\ (x \in Entries => t > at[x])
  PROVE  TreeInv' /\ StepsWell
  <1> DEFINE target == RestoreTarget(x)
             where == [parent EXCEPT ![x] = target]
  <1>1. /\ parent[x] # Nowhere /\ BothClocks(x, t) /\ recycleBin # Nowhere
        /\ Within(parent, parent[x], recycleBin)
        /\ home' = [home EXCEPT ![x] = Nowhere] /\ previous' = [previous EXCEPT ![x] = Nowhere]
        /\ UNCHANGED recycleBin
        /\ RefreshSnapshot(where, says, p, icons)
    BY ItemExists DEF Restored, InBin
  <1>2. /\ parent \in [Items -> Anywhere] /\ Hangs(parent) /\ previous[x] \in Anywhere
        /\ Nowhere \in Anywhere /\ recycleBin \in Groups
        /\ parent[recycleBin] # Nowhere
        /\ (previous[x] \in Groups => parent[previous[x]] # Nowhere)
        /\ (home[x] # Nowhere => home[x] = previous[x])
        /\ Nowhere \notin Groups \union {Root} /\ Root \notin Groups
    BY <1>1, GroupTreeConstants DEF TreeInv, PlacesInv, Anywhere, Items, Root, Nowhere
  <1>3. target = IF previous[x] # Nowhere /\ ~Within(parent, previous[x], recycleBin)
                 THEN previous[x] ELSE Root
    BY <1>2, ItemExists DEF RestoreTarget, Exists, Anywhere, Items
  <1>4. target \in Groups \union {Root} /\ (target = Root \/ parent[target] # Nowhere)
    BY <1>2, <1>3 DEF Anywhere
  <1>5. ASSUME x \in Groups PROVE ~Within(parent, target, x)
    <2>1. CASE target = Root
      BY <1>5, <2>1, FromTheRoot
    <2>2. CASE target # Root
      <3>1. ~Within(parent, target, recycleBin)
        BY <1>3, <2>2
      <3>2. Within(parent, target, x) => Within(parent, target, parent[x])
        BY <1>5, WithinParent, WithinFurther
      <3>3. Within(parent, target, parent[x]) => Within(parent, target, recycleBin)
        BY <1>1, WithinFurther
      <3> QED
        BY <3>1, <3>2, <3>3
    <2> QED
      BY <2>1, <2>2
  <1>6. x # recycleBin
    BY <1>1, <1>2, NoCircle
  <1>7. home[x] # Nowhere => target = IF Within(parent, home[x], recycleBin) THEN Root ELSE home[x]
    BY <1>2, <1>3
  <1> HIDE DEF target
  <1>8. /\ at' \in [Items -> Nat] /\ moved' \in [Items -> Nat] /\ grave' \in [Items -> Nat]
        /\ at'[x] = t /\ moved'[x] = t
    BY Stamping, <1>1 DEF TreeInv
  <1>9. ClocksInv' /\ parent' = where
    BY Refreshing, <1>1, <1>8 DEF TreeInv
  <1>10. PlacesInv' /\ StepsWell
    BY Replacing1, <1>1, <1>2, <1>4, <1>5, <1>6, <1>7, <1>8, <1>9
  <1>11. /\ where \in [Items -> Anywhere] /\ \A d \in Entries : where[d] = Nowhere <=> parent[d] = Nowhere
         /\ p = past \/ \E e \in Entries : parent[e] # Nowhere /\ p = Tracked(e)
    BY <1>1, <1>2, <1>4 DEF Anywhere, Items
  <1>12. VersionsInv'
    <2> HIDE DEF where
    <2> QED
      BY VersionsStay, <1>1, <1>11 DEF TreeInv
  <1> QED
    BY <1>9, <1>10, <1>12 DEF TreeInv

LEMMA RestoringEither ==
  ASSUME TreeInv, NEW x \in Items,
         (x \in Entries /\ RestoreEntryFromBin(x)) \/ (x \in Groups /\ RestoreGroup(x))
  PROVE  TreeInv' /\ StepsWell
  <1>1. /\ NextTime(Larger(at[x], moved[x])) \in Nat /\ NextTime(moved[x]) \in Nat
        /\ Larger(at[x], moved[x]) < second + MaxLead =>
             /\ NextTime(Larger(at[x], moved[x])) > moved[x]
             /\ NextTime(Larger(at[x], moved[x])) > at[x]
             /\ NextTime(moved[x]) > moved[x]
    BY Dates DEF TreeInv
  <1>2. CASE x \in Entries /\ RestoreEntryFromBin(x)
    BY Restoring, <1>1, <1>2 DEF RestoreEntryFromBin
  <1>3. CASE x \in Groups /\ RestoreGroup(x)
    BY Restoring, <1>1, <1>3, GroupTreeConstants DEF RestoreGroup
  <1> QED
    BY <1>2, <1>3

\* The bin, made below the root where there is none.
LEMMA BinIsThere ==
  ASSUME TreeInv, NEW b \in Groups, EnsureRecycleBin(b)
  PROVE  /\ WithBin(b) \in [Items -> Anywhere] /\ Hangs(WithBin(b)) /\ WithBin(b)[b] # Nowhere
         /\ recycleBin' = b /\ (recycleBin # Nowhere => b = recycleBin)
         /\ \A y \in Items : WithBin(b)[y] = parent[y]
              \/ (y \in Groups /\ parent[y] = Nowhere /\ WithBin(b)[y] = Root)
         /\ \A y \in Groups : parent[y] # Nowhere /\ (recycleBin # Nowhere => ~Within(parent, recycleBin, y))
              => ~Within(WithBin(b), b, y)
  <1>1. /\ parent \in [Items -> Anywhere] /\ Hangs(parent) /\ b \in Items /\ Root # Nowhere
        /\ Root \in Groups \union {Root} /\ Root \notin Groups /\ Nowhere \notin Groups
        /\ (recycleBin # Nowhere => parent[recycleBin] # Nowhere)
    BY GroupTreeConstants DEF TreeInv, PlacesInv, Items, Root, Nowhere
  <1>2. CASE recycleBin # Nowhere
    BY <1>1, <1>2 DEF EnsureRecycleBin, WithBin
  <1>3. CASE recycleBin = Nowhere
    <2> DEFINE where == [parent EXCEPT ![b] = Root]
    <2>1. parent[b] = Nowhere /\ recycleBin' = b /\ WithBin(b) = where
      BY <1>1, <1>3, ItemExists DEF EnsureRecycleBin, WithBin
    <2>2. /\ where \in [Items -> Anywhere] /\ where[b] = Root
          /\ \A y \in Items \ {b} : where[y] = parent[y]
      BY <1>1 DEF Anywhere
    <2>3. Hangs(where)
      BY <1>1, FromTheRoot, MoveKeepsTheTree
    <2> HIDE DEF where
    <2>4. ASSUME NEW y \in Groups, parent[y] # Nowhere PROVE ~Within(where, b, y)
      <3>1. {b, Root} \in UpwardClosed(where)
        BY <1>1, <2>2 DEF UpwardClosed
      <3>2. y \notin {b, Root}
        BY <1>1, <2>1, <2>4
      <3> QED
        BY <3>1, <3>2 DEF Within
    <2> QED
      BY <1>1, <1>3, <2>1, <2>2, <2>3, <2>4
  <1> QED
    BY <1>2, <1>3

\* A deletion: into the bin, and the place it was taken from is noted.
LEMMA Binning ==
  ASSUME TreeInv, NEW x \in Items, NEW b \in Groups, NEW p, parent[x] # Nowhere,
         EnsureRecycleBin(b), BothClocks(x, NextTime(Larger(at[x], moved[x]))),
         previous' = [previous EXCEPT ![x] = parent[x]], home' = [home EXCEPT ![x] = parent[x]],
         RefreshSnapshot([WithBin(b) EXCEPT ![x] = b], says, p, icons),
         p = past \/ (x \in Entries /\ p = Tracked(x)),
         x \in Groups /\ recycleBin # Nowhere => ~Within(parent, recycleBin, x)
  PROVE  TreeInv' /\ StepsWell
  <1> DEFINE start == WithBin(b)
             where == [start EXCEPT ![x] = b]
             t == NextTime(Larger(at[x], moved[x]))
  <1>1. /\ start \in [Items -> Anywhere] /\ Hangs(start) /\ start[b] # Nowhere
        /\ recycleBin' = b /\ (recycleBin # Nowhere => b = recycleBin)
        /\ \A y \in Items : start[y] = parent[y] \/ (y \in Groups /\ parent[y] = Nowhere /\ start[y] = Root)
        /\ (x \in Groups => ~Within(start, b, x))
    BY BinIsThere
  <1> HIDE DEF start
  <1>2. /\ t \in Nat
        /\ Larger(at[x], moved[x]) < second + MaxLead => t > moved[x] /\ t > at[x]
    BY Dates DEF TreeInv
  <1> HIDE DEF t
  <1>3. /\ at' \in [Items -> Nat] /\ moved' \in [Items -> Nat] /\ grave' \in [Items -> Nat]
        /\ at'[x] = t /\ moved'[x] = t
    BY Stamping, <1>2 DEF TreeInv, t
  <1>4. RefreshSnapshot(where, says, p, icons)
    BY DEF start
  <1>5. /\ parent[x] \in Anywhere /\ recycleBin \in Groups \union {Nowhere}
        /\ (parent[x] \in Groups => parent[parent[x]] # Nowhere)
        /\ b # Nowhere /\ Root # Nowhere /\ Groups \intersect Entries = {} /\ b \in Items
        /\ x # Nowhere /\ b \in Anywhere
    <2>1. /\ b # Nowhere /\ Root # Nowhere /\ Groups \intersect Entries = {} /\ b \in Items
          /\ x # Nowhere /\ Root \notin Groups /\ b \in Anywhere
      BY GroupTreeConstants DEF Items, Root, Nowhere, Anywhere
    <2>2. /\ parent \in [Items -> Anywhere] /\ Hangs(parent)
          /\ recycleBin \in Groups \union {Nowhere}
      BY DEF TreeInv, PlacesInv
    <2>3. parent[x] = Root \/ (parent[x] \in Groups /\ parent[parent[x]] # Nowhere)
      BY <2>2, PlaceIsThere
    <2> QED
      BY <2>1, <2>2, <2>3
  <1>6. x # recycleBin
    <2>1. x = recycleBin => x \in Groups /\ recycleBin # Nowhere
      BY <1>5
    <2> QED
      BY <2>1, WithinItself
  <1>7. ClocksInv' /\ parent' = where
    BY Refreshing, <1>3, <1>4 DEF TreeInv
  <1>8. PlacesInv' /\ StepsWell
    BY Replacing1, <1>1, <1>2, <1>3, <1>5, <1>6, <1>7
  <1>9. /\ where \in [Items -> Anywhere]
        /\ p = past \/ \E e \in Entries : parent[e] # Nowhere /\ p = Tracked(e)
    BY <1>1 DEF Anywhere
  <1>10. \A d \in Entries : where[d] = Nowhere <=> parent[d] = Nowhere
    BY <1>1, <1>5 DEF Items
  <1>11. VersionsInv'
    <2> HIDE DEF where
    <2> QED
      BY VersionsStay, <1>4, <1>9, <1>10 DEF TreeInv
  <1> QED
    BY <1>7, <1>8, <1>11 DEF TreeInv

LEMMA Deleting ==
  ASSUME TreeInv, NEW x \in Items,
         (x \in Entries /\ DeleteEntryToBin(x)) \/ (x \in Groups /\ DeleteGroup(x))
  PROVE  TreeInv' /\ StepsWell
  <1>1. CASE x \in Entries /\ DeleteEntryToBin(x)
    <2>1. PICK b \in Groups :
            /\ parent[x] # Nowhere /\ EnsureRecycleBin(b)
            /\ BothClocks(x, NextTime(Larger(at[x], moved[x])))
            /\ previous' = [previous EXCEPT ![x] = parent[x]] /\ home' = [home EXCEPT ![x] = parent[x]]
            /\ RefreshSnapshot([WithBin(b) EXCEPT ![x] = b], says, Tracked(x), icons)
      BY <1>1, ItemExists DEF DeleteEntryToBin
    <2> QED
      BY Binning, <1>1, <2>1, GroupTreeConstants
  <1>2. CASE x \in Groups /\ DeleteGroup(x)
    <2>1. PICK b \in Groups :
            /\ parent[x] # Nowhere /\ EnsureRecycleBin(b)
            /\ (recycleBin = Nowhere \/ ~Within(parent, recycleBin, x))
            /\ BothClocks(x, NextTime(Larger(at[x], moved[x])))
            /\ previous' = [previous EXCEPT ![x] = parent[x]] /\ home' = [home EXCEPT ![x] = parent[x]]
            /\ RefreshSnapshot([WithBin(b) EXCEPT ![x] = b], says, past, icons)
      BY <1>2, ItemExists DEF DeleteGroup
    <2> QED
      BY Binning, <2>1
  <1> QED
    BY <1>1, <1>2

LEMMA Erasing ==
  ASSUME TreeInv, NEW e \in Entries, DeleteForGood(e)
  PROVE  TreeInv' /\ StepsWell
  <1> DEFINE where == [parent EXCEPT ![e] = Nowhere]
             p == [past EXCEPT ![e] = <<>>]
             t == NextTime(Larger(at[e], moved[e]))
  <1>1. /\ e \in Items /\ parent[e] # Nowhere /\ grave' = [grave EXCEPT ![e] = t]
        /\ RefreshSnapshot(where, says, p, icons)
        /\ UNCHANGED <<previous, recycleBin, at, moved, home>>
    BY ItemExists DEF DeleteForGood, Items
  <1>2. /\ t \in Nat
        /\ Larger(at[e], moved[e]) < second + MaxLead => t > Larger(at[e], moved[e])
    BY Dates, <1>1 DEF TreeInv
  <1> HIDE DEF t
  <1>3. /\ at' \in [Items -> Nat] /\ moved' \in [Items -> Nat] /\ grave' \in [Items -> Nat]
        /\ grave'[e] = t
    BY <1>1, <1>2 DEF TreeInv, ClocksInv
  <1>4. ClocksInv' /\ parent' = where
    BY Refreshing, <1>1, <1>3 DEF TreeInv
  <1>5. /\ parent \in [Items -> Anywhere] /\ Hangs(parent) /\ e \notin Groups /\ Nowhere \in Anywhere
        /\ previous' = [previous EXCEPT ![e] = previous[e]] /\ previous[e] \in Anywhere
        /\ home' = [home EXCEPT ![e] = home[e]] /\ home[e] \in Anywhere
        /\ recycleBin' \in Groups \union {Nowhere} /\ e # recycleBin
        /\ (previous[e] \in Groups => parent[previous[e]] # Nowhere)
        /\ (home[e] # Nowhere => home[e] = previous[e] /\ recycleBin' # Nowhere)
        /\ (recycleBin # Nowhere => parent[recycleBin] # Nowhere)
    BY <1>1, GroupTreeConstants DEF TreeInv, PlacesInv, Anywhere, Items
  <1>6. /\ where \in [Items -> Anywhere] /\ where[e] = Nowhere
        /\ \A y \in Items \ {e} : where[y] = parent[y]
    BY <1>1, <1>5
  <1>7. Hangs(where)
    BY <1>5, EntryKeepsTheTree
  <1>8. \A g \in Groups : where[g] = parent[g]
    BY <1>5, <1>6 DEF Items
  <1>9. past \in [Entries -> Seq(AnyVersion)] /\ says \in [Entries -> AnyVersion]
    BY DEF TreeInv, VersionsInv
  <1>10. /\ p \in [Entries -> Seq(AnyVersion)] /\ p[e] = <<>>
         /\ \A d \in Entries \ {e} : p[d] = past[d]
    <2>1. <<>> \in Seq(AnyVersion)
      OBVIOUS
    <2> QED
      BY <1>9, <2>1
  <1> HIDE DEF where, p
  <1>11. PlacesInv'
    <2>1. /\ parent' \in [Items -> Anywhere] /\ Hangs(parent')
          /\ \A g \in Groups : parent[g] # Nowhere => parent'[g] # Nowhere
          /\ recycleBin' # Nowhere => parent'[recycleBin'] # Nowhere
      BY <1>1, <1>4, <1>5, <1>6, <1>7, <1>8
    <2> DEFINE was == previous[e]
               from == home[e]
    <2>2. /\ was \in Anywhere /\ from \in Anywhere
          /\ previous' = [previous EXCEPT ![e] = was] /\ home' = [home EXCEPT ![e] = from]
          /\ (was \in Groups => parent[was] # Nowhere)
          /\ (from # Nowhere => from = was /\ recycleBin' # Nowhere)
          /\ recycleBin' \in Groups \union {Nowhere} /\ recycleBin' = recycleBin
      BY <1>1, <1>5
    <2> HIDE DEF was, from
    <2>3. PlacesInv
      BY DEF TreeInv
    <2> QED
      BY PlacesKept, <1>1, <2>1, <2>2, <2>3
  <1>12. RestoredWell(e) /\ NewerWell(e)
    BY <1>1, <1>2, <1>3, <1>4, <1>6 DEF RestoredWell, NewerWell
  <1>13. StepsWell
    BY OneMoves, <1>1, <1>4, <1>5, <1>6, <1>12
  <1>14. \A d \in Entries : where[d] = Nowhere => p[d] = <<>>
    BY <1>6, <1>10 DEF TreeInv, VersionsInv, Items
  <1>15. ASSUME NEW d \in Entries, where[d] # Nowhere
         PROVE  IconsOf(VersionsOf(says, p, d)) \subseteq icons
    <2>1. d # e /\ parent[d] # Nowhere
      BY <1>6, <1>15 DEF Items
    <2>2. VersionsOf(says, p, d) = VersionsOf(says, past, d)
      BY <1>10, <2>1 DEF VersionsOf
    <2> QED
      BY ImagesShown, <2>1, <2>2 DEF TreeInv
  <1>16. VersionsInv'
    BY Refreshed, <1>1, <1>6, <1>9, <1>10, <1>14, <1>15
  <1> QED
    BY <1>4, <1>11, <1>13, <1>16 DEF TreeInv

LEMMA TreeInitial == TreeInit => TreeInv
  <1> SUFFICES ASSUME TreeInit PROVE TreeInv
    OBVIOUS
  <1>1. PICK layout \in Layouts : parent = layout.parent /\ recycleBin = layout.bin
    BY DEF TreeInit
  <1>2. /\ layout.parent \in [Items -> Anywhere] /\ Hangs(layout.parent)
        /\ layout.bin \in Groups \union {Nowhere}
        /\ layout.bin # Nowhere => layout.parent[layout.bin] # Nowhere
    BY GroupTreeConstants DEF Anywhere
  <1>3. Nowhere \in Anywhere /\ Nowhere \notin Groups
    BY GroupTreeConstants DEF Anywhere, Items
  <1>4. PlacesInv
    BY <1>1, <1>2, <1>3 DEF TreeInit, PlacesInv
  <1>5. ClocksInv
    BY DEF TreeInit, ClocksInv
  <1>6. /\ says = [e \in Entries |-> [text |-> 0, icon |-> NoIcon]] /\ past = [e \in Entries |-> <<>>]
        /\ icons = {}
    BY DEF TreeInit
  <1>7. \A e \in Entries : VersionsOf(says, past, e) = {[text |-> 0, icon |-> NoIcon]}
    BY <1>6 DEF VersionsOf
  <1>8. IconsOf({[text |-> 0, icon |-> NoIcon]}) = {}
    BY DEF IconsOf
  <1>9. IconsAreThoseUsed
    BY <1>6, <1>7, <1>8 DEF IconsAreThoseUsed, ThereAre
  <1>10. VersionsInv
    <2>1. says \in [Entries -> AnyVersion]
      BY <1>6 DEF AnyVersion
    <2>2. past \in [Entries -> Seq(AnyVersion)] /\ \A e \in Entries : past[e] = <<>> /\ Len(past[e]) = 0
      BY <1>6
    <2> QED
      BY <1>9, <2>1, <2>2, GroupTreeConstants DEF VersionsInv
  <1> QED
    BY <1>4, <1>5, <1>10 DEF TreeInv

LEMMA TreeSteps == TreeInv /\ [TreeNext]_treeVars => TreeInv' /\ StepsWell
  <1> SUFFICES ASSUME TreeInv, [TreeNext]_treeVars PROVE TreeInv' /\ StepsWell
    OBVIOUS
  <1>1. Groups \subseteq Items /\ Entries \subseteq Items
    BY DEF Items
  <1>2. ASSUME NEW e \in Entries,
               UpdateEntryText(e) \/ DeleteEntryToBin(e) \/ DeleteForGood(e) \/ RestoreEntryFromBin(e)
        PROVE  TreeInv' /\ StepsWell
    BY <1>1, <1>2, UpdatingText, Deleting, Erasing, RestoringEither
  <1>3. ASSUME NEW e \in Entries, NEW g \in GroupsNow, CreateEntry(e, g) \/ MoveEntryTo(e, g)
        PROVE  TreeInv' /\ StepsWell
    BY <1>3, CreatingEntry, MovingEntry
  <1>4. ASSUME NEW g \in Groups, RenameGroup(g) \/ DeleteGroup(g) \/ RestoreGroup(g)
        PROVE  TreeInv' /\ StepsWell
    BY <1>1, <1>4, Renaming, Deleting, RestoringEither
  <1>5. ASSUME NEW g \in Groups, NEW below \in GroupsNow, CreateGroup(g, below) \/ MoveGroup(g, below)
        PROVE  TreeInv' /\ StepsWell
    BY <1>5, CreatingGroup, MovingGroup
  <1> QED
    BY <1>2, <1>3, <1>4, <1>5, SettingIcon, Passing DEF TreeNext

\* The tree keeps its shape through any sequence of mutations.
LEMMA TreesHold == TreeSpec => TreeKeepsItsShape /\ []TreeTypeOK
  <1>1. TreeInv => EverythingUnderRoot /\ IconsAreThoseUsed
    BY DEF TreeInv, PlacesInv, VersionsInv, EverythingUnderRoot
  <1>2. TreeInv => TreeTypeOK
    <2> SUFFICES ASSUME TreeInv PROVE TreeTypeOK
      OBVIOUS
    <2>1. \A x \in Items : {at[x], moved[x], grave[x]} \subseteq Nat
      BY DEF TreeInv, ClocksInv
    <2> QED
      BY <2>1 DEF TreeInv, PlacesInv, VersionsInv, TreeTypeOK, Anywhere
  <1> DEFINE
    Bin == recycleBin # Nowhere => recycleBin' = recycleBin /\ parent'[recycleBin] = parent[recycleBin]
    Back == \A x \in ThereAre(Items) :
              /\ home[x] # Nowhere /\ home'[x] = Nowhere
              /\ previous'[x] = Nowhere
              => parent'[x] = IF Within(parent, home[x], recycleBin) THEN Root ELSE home[x]
    Newer == \A x \in ThereAre(Items) :
               Larger(at[x], moved[x]) < second + MaxLead =>
                 /\ parent'[x] \notin {parent[x], Nowhere} =>
                      moved'[x] > moved[x] /\ (x \in Entries => at'[x] > at[x])
                 /\ parent'[x] = Nowhere => grave'[x] > Larger(at[x], moved[x])
  <1>3. TreeInv /\ [TreeNext]_treeVars => [Bin /\ Back /\ Newer]_treeVars
    BY TreeSteps DEF StepsWell, BinWell, RestoredWell, NewerWell
  <1>4. TreeInv /\ [TreeNext]_treeVars => [Bin]_treeVars /\ [Back]_treeVars /\ [Newer]_treeVars
    BY <1>3
  <1> HIDE DEF Bin, Back, Newer
  <1>5. TreeInv /\ [TreeNext]_treeVars => TreeInv'
    BY TreeSteps
  <1>6. TreeSpec => [](EverythingUnderRoot /\ IconsAreThoseUsed) /\ []TreeTypeOK
                    /\ [][Bin]_treeVars /\ [][Back]_treeVars /\ [][Newer]_treeVars
    BY <1>1, <1>2, <1>4, <1>5, TreeInitial, PTL DEF TreeSpec
  <1> QED
    BY <1>6 DEF TreeKeepsItsShape, BinStaysInPlace, RestoredWhereDeleted, MovesAndDeletionsAreNewer,
                Bin, Back, Newer

-----------------------------------------------------------------------------
(* What a vault has once: records of a copy.                               *)

Moments == Nat \union {NoDate}
Copies ==
  [name : Nat, nameAt : Moments, bin : AllGroups \union {None}, binAt : Moments,
   marker : [value : Nat, at : Moments],
   where : [AllGroups -> AllGroups \union {Top, None}], moved : [AllGroups -> Nat],
   entry : [Secrets -> AllGroups \union {Top}], put : [Secrets -> Nat]]

\* A copy whose bin, if it names one, is there.
CopyOK(v) == v \in Copies /\ (v.bin # None => v.where[v.bin] # None)

Either == {"local", "remote"}

\* The same copy but for when its groups and entries were put where they are.
ButForPlacing(v, w) ==
  /\ v.name = w.name /\ v.nameAt = w.nameAt /\ v.bin = w.bin /\ v.binAt = w.binAt
  /\ v.where = w.where /\ v.entry = w.entry

LEMMA NamesApart ==
  /\ None \notin AllGroups /\ Top \notin AllGroups /\ Top # None
  /\ Server \notin Installs /\ \A d \in Installs : OwnBin[d] \in AllGroups
  /\ SharedGroups \subseteq AllGroups
  BY MergeMetaConstants DEF AllGroups, None, Top, Server

\* Whether something must be asked, and who wins, goes by names, bins and places.
LEMMA WinnersAreTheSame ==
  ASSUME NEW a, NEW b, NEW v, NEW w, ButForPlacing(a, v), ButForPlacing(b, w)
  PROVE  /\ NameWinner(a, b) = NameWinner(v, w)
         /\ RecycleBinWinner(a, b) = RecycleBinWinner(v, w)
  <1>1. NameWinner(a, b) = NameWinner(v, w)
    BY DEF NameWinner, ButForPlacing
  <1>2. \A g, top : Under(a, g, top) = Under(v, g, top) /\ Under(b, g, top) = Under(w, g, top)
    BY DEF Under, ButForPlacing
  <1>3. \A g : HoldsEntries(a, g) = HoldsEntries(v, g) /\ HoldsEntries(b, g) = HoldsEntries(w, g)
    BY <1>2 DEF HoldsEntries, ButForPlacing
  <1>4. \A g : Has(a, g) = Has(v, g) /\ Has(b, g) = Has(w, g)
    BY DEF Has, GroupsOf, ButForPlacing
  <1>5. RecycleBinWinner(a, b) = RecycleBinWinner(v, w)
    <2>1. /\ a.bin = v.bin /\ b.bin = w.bin /\ a.binAt = v.binAt /\ b.binAt = w.binAt
      BY DEF ButForPlacing
    <2>2. CASE Rank(a.binAt, b.binAt) = "local"
      BY <1>2, <1>3, <1>4, <2>1, <2>2 DEF RecycleBinWinner
    <2>3. CASE Rank(a.binAt, b.binAt) # "local"
      BY <1>2, <1>3, <1>4, <2>1, <2>3 DEF RecycleBinWinner
    <2> QED
      BY <2>2, <2>3
  <1> QED
    BY <1>1, <1>5

LEMMA NewestOfTwo ==
  ASSUME NEW a \in Moments, NEW b \in Moments
  PROVE  /\ Newest(a, b) \in Moments
         /\ \A t \in Nat : Newest(Newest(a, b), t) + 1 \in Nat
         /\ a \in Nat /\ b \in Nat => Newest(a, b) \in Nat
  BY DEF Newest, Moments, NoDate

\* Places that tie are dated anew on one side and as old as can be on the other.
LEMMA PlacesForced ==
  ASSUME NEW ours, NEW theirs, CopyOK(ours), CopyOK(theirs), time \in Nat, NEW side \in Either
  PROVE  LET p == ForcePlaces(ours, theirs, side) IN
         /\ CopyOK(p.ours) /\ CopyOK(p.theirs)
         /\ ButForPlacing(p.ours, ours) /\ ButForPlacing(p.theirs, theirs)
  <1> DEFINE groups == TiedGroups(ours, theirs)
             entries == {e \in TiedEntries(ours, theirs) : ~Deleted(ours, e) /\ ~Deleted(theirs, e)}
             Stamped(v, wins) == [v EXCEPT
               !.moved = [g \in AllGroups |-> IF g \notin groups THEN v.moved[g] ELSE IF wins
                                              THEN After(ours.moved[g], theirs.moved[g]) ELSE DayOne],
               !.put = [e \in Secrets |-> IF e \notin entries THEN v.put[e] ELSE IF wins
                                          THEN After(ours.put[e], theirs.put[e]) ELSE DayOne]]
  <1>1. /\ \A g \in AllGroups : After(ours.moved[g], theirs.moved[g]) \in Nat
        /\ \A e \in Secrets : After(ours.put[e], theirs.put[e]) \in Nat
    <2>1. ASSUME NEW a \in Nat, NEW b \in Nat PROVE After(a, b) \in Nat
      BY DEF After, Newest
    <2> QED
      BY <2>1 DEF CopyOK, Copies
  <1> HIDE DEF groups, entries
  <1>2. ASSUME NEW v, CopyOK(v), NEW wins \in BOOLEAN
        PROVE  CopyOK(Stamped(v, wins)) /\ ButForPlacing(Stamped(v, wins), v)
    <2> DEFINE when == [g \in AllGroups |-> IF g \notin groups THEN v.moved[g] ELSE IF wins
                                            THEN After(ours.moved[g], theirs.moved[g]) ELSE DayOne]
               since == [e \in Secrets |-> IF e \notin entries THEN v.put[e] ELSE IF wins
                                           THEN After(ours.put[e], theirs.put[e]) ELSE DayOne]
               w == Stamped(v, wins)
    <2>1. v \in Copies
      BY <1>2 DEF CopyOK
    <2>2. when \in [AllGroups -> Nat] /\ since \in [Secrets -> Nat]
      BY <1>1, <2>1 DEF Copies, DayOne
    <2>3. w = [v EXCEPT !.moved = when, !.put = since]
      OBVIOUS
    <2> HIDE DEF when, since, w
    <2>4. w \in Copies /\ ButForPlacing(w, v)
      BY <2>1, <2>2, <2>3 DEF Copies, ButForPlacing
    <2>5. CopyOK(w)
      BY <1>2, <2>4 DEF CopyOK, ButForPlacing
    <2> QED
      BY <2>4, <2>5 DEF w
  <1>3. ForcePlaces(ours, theirs, side) =
          [ours |-> Stamped(ours, side = "local"), theirs |-> Stamped(theirs, side = "remote")]
    BY DEF ForcePlaces, groups, entries
  <1> DEFINE ourSide == side = "local"
             theirSide == side = "remote"
  <1>4. ourSide \in BOOLEAN /\ theirSide \in BOOLEAN
    OBVIOUS
  <1>5. ForcePlaces(ours, theirs, side) =
          [ours |-> Stamped(ours, ourSide), theirs |-> Stamped(theirs, theirSide)]
    BY <1>3
  <1> HIDE DEF Stamped, ourSide, theirSide
  <1>6. /\ CopyOK(Stamped(ours, ourSide)) /\ ButForPlacing(Stamped(ours, ourSide), ours)
        /\ CopyOK(Stamped(theirs, theirSide)) /\ ButForPlacing(Stamped(theirs, theirSide), theirs)
    BY <1>2, <1>4
  <1> QED
    BY <1>5, <1>6

\* Of the settings only what nothing ranks is forced.
LEMMA MetaForced ==
  ASSUME NEW ours, NEW theirs, CopyOK(ours), CopyOK(theirs), time \in Nat, NEW side \in Either
  PROVE  LET f == ForceMeta(ours, theirs, side) IN
         /\ f.ours \in Copies /\ f.theirs \in Copies
         /\ f.ours.where = ours.where /\ f.theirs.where = theirs.where
         /\ f.ours.entry = ours.entry /\ f.theirs.entry = theirs.entry
         /\ f.ours.moved = ours.moved /\ f.theirs.moved = theirs.moved
         /\ f.ours.put = ours.put /\ f.theirs.put = theirs.put
         /\ f.ours.bin \in {ours.bin, theirs.bin} /\ f.theirs.bin = theirs.bin
         /\ NameWinner(ours, theirs) # None =>
              /\ f.ours.name = ours.name /\ f.ours.nameAt = ours.nameAt
              /\ f.theirs.name = theirs.name /\ f.theirs.nameAt = theirs.nameAt
         /\ RecycleBinWinner(ours, theirs) # None =>
              /\ f.ours.bin = ours.bin /\ f.ours.binAt = ours.binAt
              /\ f.theirs.binAt = theirs.binAt
  <1> DEFINE named == NameWinner(ours, theirs) = None
             binned == RecycleBinWinner(ours, theirs) = None
             chosen == IF side = "local" THEN ours ELSE theirs
             name == IF named THEN chosen.name ELSE ours.name
             nameAt == IF named THEN After(ours.nameAt, theirs.nameAt) ELSE ours.nameAt
             bin == IF binned THEN chosen.bin ELSE ours.bin
             binAt == IF binned THEN After(ours.binAt, theirs.binAt) ELSE ours.binAt
             oldName == IF named THEN DayOne ELSE theirs.nameAt
             oldBin == IF binned THEN DayOne ELSE theirs.binAt
  <1>1. ours \in Copies /\ theirs \in Copies
    BY DEF CopyOK
  <1>2. After(ours.nameAt, theirs.nameAt) \in Nat /\ After(ours.binAt, theirs.binAt) \in Nat
    BY <1>1, NewestOfTwo DEF Copies, After
  <1>3. /\ name \in Nat /\ nameAt \in Moments /\ bin \in AllGroups \union {None} /\ binAt \in Moments
        /\ oldName \in Moments /\ oldBin \in Moments /\ bin \in {ours.bin, theirs.bin}
    BY <1>1, <1>2 DEF Copies, Moments, DayOne
  <1>4. /\ ~named => name = ours.name /\ nameAt = ours.nameAt /\ oldName = theirs.nameAt
        /\ ~binned => bin = ours.bin /\ binAt = ours.binAt /\ oldBin = theirs.binAt
    OBVIOUS
  <1>5. ForceMeta(ours, theirs, side) =
          [ours |-> [ours EXCEPT !.name = name, !.nameAt = nameAt, !.bin = bin, !.binAt = binAt],
           theirs |-> [theirs EXCEPT !.nameAt = oldName, !.binAt = oldBin]]
    BY DEF ForceMeta
  <1> HIDE DEF name, nameAt, bin, binAt, oldName, oldBin
  <1> DEFINE o == [ours EXCEPT !.name = name, !.nameAt = nameAt, !.bin = bin, !.binAt = binAt]
             t == [theirs EXCEPT !.nameAt = oldName, !.binAt = oldBin]
  <1>6. /\ o \in Copies /\ o.name = name /\ o.nameAt = nameAt /\ o.bin = bin /\ o.binAt = binAt
        /\ o.where = ours.where /\ o.entry = ours.entry /\ o.moved = ours.moved /\ o.put = ours.put
    BY <1>1, <1>3 DEF Copies
  <1>7. /\ t \in Copies /\ t.name = theirs.name /\ t.nameAt = oldName /\ t.bin = theirs.bin
        /\ t.binAt = oldBin /\ t.where = theirs.where /\ t.entry = theirs.entry
        /\ t.moved = theirs.moved /\ t.put = theirs.put
    BY <1>1, <1>3 DEF Copies
  <1>8. ForceMeta(ours, theirs, side).ours = o /\ ForceMeta(ours, theirs, side).theirs = t
    BY <1>5
  <1> HIDE DEF o, t
  <1> QED
    BY <1>3, <1>4, <1>6, <1>7, <1>8

\* The two copies put together: each setting and each place by its own clock.
LEMMA ForkPuts ==
  ASSUME NEW ours, NEW theirs, ours \in Copies, theirs \in Copies
  PROVE  LET m == ForkTogether(ours, theirs) IN
         /\ m \in Copies
         /\ m.name = IF theirs.nameAt > ours.nameAt THEN theirs.name ELSE ours.name
         /\ m.bin = IF theirs.binAt > ours.binAt THEN theirs.bin ELSE ours.bin
         /\ \A g \in AllGroups : m.where[g] # None <=> ours.where[g] # None \/ theirs.where[g] # None
         /\ ours.where = theirs.where => m.where = ours.where
         /\ ours.entry = theirs.entry => m.entry = ours.entry
  <1> DEFINE theirMove(g) == Has(theirs, g) /\ (~Has(ours, g) \/ theirs.moved[g] > ours.moved[g])
             theirPut(e) == theirs.put[e] > ours.put[e]
             name == IF theirs.nameAt > ours.nameAt THEN theirs.name ELSE ours.name
             nameAt == Newest(ours.nameAt, theirs.nameAt)
             bin == IF theirs.binAt > ours.binAt THEN theirs.bin ELSE ours.bin
             binAt == Newest(ours.binAt, theirs.binAt)
             where == [g \in AllGroups |-> IF theirMove(g) THEN theirs.where[g] ELSE ours.where[g]]
             moments == [g \in AllGroups |-> IF theirMove(g) THEN theirs.moved[g] ELSE ours.moved[g]]
             entry == [e \in Secrets |-> IF theirPut(e) THEN theirs.entry[e] ELSE ours.entry[e]]
             put == [e \in Secrets |-> IF theirPut(e) THEN theirs.put[e] ELSE ours.put[e]]
  <1>1. nameAt \in Moments /\ binAt \in Moments
    BY NewestOfTwo DEF Copies
  <1>2. name \in Nat /\ bin \in AllGroups \union {None}
    BY DEF Copies
  <1>3. /\ \A g \in AllGroups : Has(ours, g) <=> ours.where[g] # None
        /\ \A g \in AllGroups : Has(theirs, g) <=> theirs.where[g] # None
    BY DEF Has, GroupsOf
  <1>4. /\ where \in [AllGroups -> AllGroups \union {Top, None}] /\ moments \in [AllGroups -> Nat]
        /\ entry \in [Secrets -> AllGroups \union {Top}] /\ put \in [Secrets -> Nat]
    BY DEF Copies
  <1>5. \A g \in AllGroups : where[g] # None <=> ours.where[g] # None \/ theirs.where[g] # None
    BY <1>3
  <1>6. ours.where = theirs.where => where = ours.where
    BY <1>4 DEF Copies
  <1>7. ours.entry = theirs.entry => entry = ours.entry
    BY <1>4 DEF Copies
  <1>8. ForkTogether(ours, theirs) =
          [ours EXCEPT !.name = name, !.nameAt = nameAt, !.bin = bin, !.binAt = binAt,
                       !.where = where, !.moved = moments, !.entry = entry, !.put = put]
    BY DEF ForkTogether
  <1>9. name = (IF theirs.nameAt > ours.nameAt THEN theirs.name ELSE ours.name)
        /\ bin = (IF theirs.binAt > ours.binAt THEN theirs.bin ELSE ours.bin)
    OBVIOUS
  <1> HIDE DEF name, nameAt, bin, binAt, where, moments, entry, put
  <1> DEFINE m == [ours EXCEPT !.name = name, !.nameAt = nameAt, !.bin = bin, !.binAt = binAt,
                               !.where = where, !.moved = moments, !.entry = entry, !.put = put]
  <1>10. /\ m \in Copies /\ m.name = name /\ m.bin = bin /\ m.where = where /\ m.entry = entry
    BY <1>1, <1>2, <1>4 DEF Copies
  <1>11. ForkTogether(ours, theirs) = m
    BY <1>8
  <1> HIDE DEF m
  <1> QED
    BY <1>5, <1>6, <1>7, <1>9, <1>10, <1>11

\* A group put somewhere.
LEMMA PlacedSomewhere ==
  ASSUME NEW v, CopyOK(v), NEW g \in AllGroups, NEW target \in AllGroups \union {Top}, time \in Nat
  PROVE  /\ CopyOK(Placed(v, g, target))
         /\ Placed(v, g, target).name = v.name /\ Placed(v, g, target).bin = v.bin
         /\ Placed(v, g, target).marker = v.marker
         /\ Placed(v, g, target).where = [v.where EXCEPT ![g] = target]
  <1> DEFINE where == [v.where EXCEPT ![g] = target]
             moments == [v.moved EXCEPT ![g] = time]
             w == [v EXCEPT !.where = where, !.moved = moments]
  <1>1. v \in Copies
    BY DEF CopyOK
  <1>2. where \in [AllGroups -> AllGroups \union {Top, None}] /\ moments \in [AllGroups -> Nat]
    BY <1>1 DEF Copies
  <1>3. Placed(v, g, target) = w
    BY DEF Placed
  <1>4. \A h \in AllGroups : v.where[h] # None => where[h] # None
    BY <1>1, NamesApart DEF Copies
  <1> HIDE DEF where, moments
  <1>5. /\ w \in Copies /\ w.name = v.name /\ w.bin = v.bin /\ w.marker = v.marker /\ w.where = where
    BY <1>1, <1>2 DEF Copies
  <1> HIDE DEF w
  <1>6. CopyOK(w)
    BY <1>1, <1>4, <1>5 DEF CopyOK, Copies
  <1> QED
    BY <1>3, <1>5, <1>6 DEF where

\* A bin that lost goes into the one that won, and no name changes.
LEMMA Reunited ==
  ASSUME NEW v, CopyOK(v), NEW ours, NEW theirs, time \in Nat,
         ours.bin \in AllGroups \union {None}, theirs.bin \in AllGroups \union {None}
  PROVE  LET w == ReuniteRecycleBins(v, ours, theirs) IN
         /\ CopyOK(w) /\ w.name = v.name /\ w.bin = v.bin /\ w.marker = v.marker
         /\ (\A g \in {ours.bin, theirs.bin} \ {None, v.bin} :
               Has(v, g) => RetiredOnPurpose({ours, theirs}, v.bin, g)) => w = v
  <1> DEFINE displaced == {g \in {ours.bin, theirs.bin} \ {None, v.bin} :
                             Has(v, g) /\ ~RetiredOnPurpose({ours, theirs}, v.bin, g)}
             lost == CHOOSE g \in displaced : TRUE
  <1>1. CASE v.bin = None \/ displaced = {}
    BY <1>1 DEF ReuniteRecycleBins
  <1>2. CASE v.bin # None /\ displaced # {}
    <2>1. lost \in displaced
      BY <1>2
    <2>2. ReuniteRecycleBins(v, ours, theirs) = NestIntoBin(v, lost)
      BY <1>2 DEF ReuniteRecycleBins
    <2>3. lost \in AllGroups /\ Has(v, lost) /\ v.where[lost] \in AllGroups \union {Top}
      BY <2>1 DEF CopyOK, Copies, Has, GroupsOf
    <2>4. v.bin \in AllGroups
      BY <1>2 DEF CopyOK, Copies
    <2> HIDE DEF lost
    <2> DEFINE lifted == IF Under(v, v.bin, lost) THEN Placed(v, v.bin, v.where[lost]) ELSE v
    <2>5. CopyOK(lifted) /\ lifted.name = v.name /\ lifted.bin = v.bin /\ lifted.marker = v.marker
      BY <2>3, <2>4, PlacedSomewhere
    <2>6. NestIntoBin(v, lost) = Placed(lifted, lost, v.bin)
      BY DEF NestIntoBin
    <2> HIDE DEF lifted
    <2>7. /\ CopyOK(Placed(lifted, lost, v.bin)) /\ Placed(lifted, lost, v.bin).name = v.name
          /\ Placed(lifted, lost, v.bin).bin = v.bin /\ Placed(lifted, lost, v.bin).marker = v.marker
      <3> DEFINE target == v.bin
      <3>1. target \in AllGroups \union {Top}
        BY <2>4
      <3> HIDE DEF target
      <3>2. /\ CopyOK(Placed(lifted, lost, target)) /\ Placed(lifted, lost, target).name = lifted.name
            /\ Placed(lifted, lost, target).bin = lifted.bin
            /\ Placed(lifted, lost, target).marker = lifted.marker
        BY <2>3, <2>5, <3>1, PlacedSomewhere
      <3> QED
        BY <2>5, <3>2 DEF target
    <2>8. ~(\A g \in {ours.bin, theirs.bin} \ {None, v.bin} :
              Has(v, g) => RetiredOnPurpose({ours, theirs}, v.bin, g))
      BY <1>2
    <2> QED
      BY <2>2, <2>6, <2>7, <2>8
  <1> QED
    BY <1>1, <1>2

\* What two copies make together, in the settings and the places.
LEMMA TogetherIs ==
  ASSUME NEW ours, NEW theirs, CopyOK(ours), CopyOK(theirs), time \in Nat, NEW side \in Either
  PROVE  LET v == Together(ours, theirs, side) IN
         /\ CopyOK(v) /\ v.marker = StandingMarker(ours.marker, theirs.marker)
         /\ NameWinner(ours, theirs) # None =>
              v.name = IF theirs.nameAt > ours.nameAt THEN theirs.name ELSE ours.name
         /\ RecycleBinWinner(ours, theirs) # None =>
              v.bin = IF theirs.binAt > ours.binAt THEN theirs.bin ELSE ours.bin
         /\ /\ RecycleBinWinner(ours, theirs) \in {"same", "remote"}
            /\ ours.where = theirs.where /\ ours.entry = theirs.entry
            => v.where = ours.where /\ v.entry = ours.entry
  <1> DEFINE placed == ForcePlaces(ours, theirs, side)
             forced == ForceMeta(placed.ours, placed.theirs, side)
             fork == ForkTogether(forced.ours, forced.theirs)
             marker == StandingMarker(ours.marker, theirs.marker)
             merged == [fork EXCEPT !.marker = marker]
  <1>1. Together(ours, theirs, side) = ReuniteRecycleBins(merged, ours, theirs)
    BY DEF Together
  <1>2. /\ CopyOK(placed.ours) /\ CopyOK(placed.theirs)
        /\ ButForPlacing(placed.ours, ours) /\ ButForPlacing(placed.theirs, theirs)
    BY PlacesForced
  <1> HIDE DEF placed
  <1>3. /\ NameWinner(placed.ours, placed.theirs) = NameWinner(ours, theirs)
        /\ RecycleBinWinner(placed.ours, placed.theirs) = RecycleBinWinner(ours, theirs)
    BY <1>2, WinnersAreTheSame
  <1>4. /\ forced.ours \in Copies /\ forced.theirs \in Copies
        /\ forced.ours.where = ours.where /\ forced.theirs.where = theirs.where
        /\ forced.ours.entry = ours.entry /\ forced.theirs.entry = theirs.entry
        /\ forced.ours.bin \in {ours.bin, theirs.bin} /\ forced.theirs.bin = theirs.bin
        /\ NameWinner(ours, theirs) # None =>
             /\ forced.ours.name = ours.name /\ forced.ours.nameAt = ours.nameAt
             /\ forced.theirs.name = theirs.name /\ forced.theirs.nameAt = theirs.nameAt
        /\ RecycleBinWinner(ours, theirs) # None =>
             /\ forced.ours.bin = ours.bin /\ forced.ours.binAt = ours.binAt
             /\ forced.theirs.binAt = theirs.binAt
    BY <1>2, <1>3, MetaForced DEF ButForPlacing
  <1> HIDE DEF forced
  <1>5. /\ fork \in Copies
        /\ fork.name = IF forced.theirs.nameAt > forced.ours.nameAt THEN forced.theirs.name ELSE forced.ours.name
        /\ fork.bin = IF forced.theirs.binAt > forced.ours.binAt THEN forced.theirs.bin ELSE forced.ours.bin
        /\ \A g \in AllGroups : fork.where[g] # None <=> ours.where[g] # None \/ theirs.where[g] # None
        /\ (ours.where = theirs.where => fork.where = ours.where)
        /\ (ours.entry = theirs.entry => fork.entry = ours.entry)
    BY <1>4, ForkPuts
  <1> HIDE DEF fork
  <1>6. marker \in [value : Nat, at : Moments]
    <2>1. ours.marker \in [value : Nat, at : Moments] /\ theirs.marker \in [value : Nat, at : Moments]
      BY DEF CopyOK, Copies
    <2> DEFINE o == ours.marker
               t == theirs.marker
    <2>2. Newest(o.at, t.at) \in Moments
      BY <2>1, NewestOfTwo
    <2>3. marker \in {o, t, [o EXCEPT !.at = Newest(o.at, t.at)]}
      BY DEF StandingMarker
    <2> QED
      BY <2>1, <2>2, <2>3
  <1> HIDE DEF marker
  <1>7. /\ merged \in Copies /\ merged.marker = marker /\ merged.name = fork.name
        /\ merged.bin = fork.bin /\ merged.where = fork.where /\ merged.entry = fork.entry
    BY <1>5, <1>6 DEF Copies
  <1> HIDE DEF merged
  <1>8. /\ ours.bin \in AllGroups \union {None} /\ theirs.bin \in AllGroups \union {None}
        /\ (ours.bin # None => ours.where[ours.bin] # None)
        /\ (theirs.bin # None => theirs.where[theirs.bin] # None)
    BY DEF CopyOK, Copies
  <1>9. merged.bin \in {ours.bin, theirs.bin}
    BY <1>4, <1>5, <1>7
  <1>10. CopyOK(merged)
    BY <1>5, <1>7, <1>8, <1>9 DEF CopyOK
  <1> DEFINE v == ReuniteRecycleBins(merged, ours, theirs)
  <1>11. /\ CopyOK(v) /\ v.name = merged.name /\ v.bin = merged.bin /\ v.marker = merged.marker
         /\ (\A g \in {ours.bin, theirs.bin} \ {None, merged.bin} :
               Has(merged, g) => RetiredOnPurpose({ours, theirs}, merged.bin, g)) => v = merged
    BY <1>8, <1>10, Reunited
  <1> HIDE DEF v
  <1>12. ASSUME RecycleBinWinner(ours, theirs) \in {"same", "remote"},
                ours.where = theirs.where, ours.entry = theirs.entry
         PROVE  v.where = ours.where /\ v.entry = ours.entry
    <2>1. RecycleBinWinner(ours, theirs) # None
      BY <1>12 DEF None
    <2>2. merged.bin = IF theirs.binAt > ours.binAt THEN theirs.bin ELSE ours.bin
      BY <1>4, <1>5, <1>7, <2>1
    <2>3. ours.bin = theirs.bin \/ theirs.binAt > ours.binAt
      <3>1. ours.binAt \in Moments /\ theirs.binAt \in Moments
        BY DEF CopyOK, Copies
      <3>2. ours.bin # theirs.bin => RecycleBinWinner(ours, theirs) = Rank(ours.binAt, theirs.binAt)
                                     \/ RecycleBinWinner(ours, theirs) = None
        BY DEF RecycleBinWinner
      <3>3. Rank(ours.binAt, theirs.binAt) \in {None, "local", "remote"}
        BY DEF Rank
      <3>4. Rank(ours.binAt, theirs.binAt) = "remote" => theirs.binAt > ours.binAt
        BY <3>1 DEF Rank, Moments, NoDate, None
      <3>5. ours.bin # theirs.bin => Rank(ours.binAt, theirs.binAt) = "remote"
        <4>1. ours.bin # theirs.bin => RecycleBinWinner(ours, theirs) \in {None, "local", "remote"}
          BY <3>2, <3>3
        <4>2. ours.bin # theirs.bin => RecycleBinWinner(ours, theirs) = "remote"
          BY <1>12, <4>1 DEF None
        <4> QED
          BY <3>2, <4>2 DEF None
      <3> QED
        BY <3>4, <3>5
    <2>4. merged.bin = theirs.bin
      BY <2>2, <2>3
    <2>5. ASSUME NEW g \in {ours.bin, theirs.bin} \ {None, merged.bin}, Has(merged, g)
          PROVE  RetiredOnPurpose({ours, theirs}, merged.bin, g)
      <3>1. Has(theirs, g)
        BY <1>5, <1>7, <1>12, <2>5 DEF Has, GroupsOf
      <3> QED
        BY <2>4, <3>1 DEF RetiredOnPurpose
    <2>6. v = merged
      BY <1>11, <2>5
    <2> QED
      BY <1>5, <1>7, <1>12, <2>6
  <1>13. Together(ours, theirs, side) = v
    BY <1>1 DEF v
  <1> QED
    BY <1>4, <1>5, <1>7, <1>11, <1>12, <1>13 DEF marker

-----------------------------------------------------------------------------
(* What a vault has once: the steps.                                       *)

MetaInv ==
  /\ \A c \in Installs \union {Server} : CopyOK(vault[c])
  /\ DOMAIN vault = Installs \union {Server} /\ vault = [c \in DOMAIN vault |-> vault[c]]
  /\ stale \subseteq Installs /\ time \in Nat /\ changed \in 0..MaxEdits
  /\ vault[Server].marker.value # NoMarker =>
       \A d \in Installs \ stale : vault[d].marker.value # NoMarker

MarkerStays == vault[Server].marker.value # NoMarker => vault'[Server].marker.value # NoMarker

LEMMA MetaInitial == MetaInit => MetaInv
  <1> SUFFICES ASSUME MetaInit PROVE MetaInv
    OBVIOUS
  <1>1. PICK bin \in SharedGroups \union {None} : vault = [c \in Installs \union {Server} |->
                [name |-> 0, nameAt |-> NoDate, bin |-> bin, binAt |-> NoDate,
                 marker |-> [value |-> NoMarker, at |-> NoDate],
                 where |-> [g \in AllGroups |-> IF g \in SharedGroups THEN Top ELSE None],
                 moved |-> [g \in AllGroups |-> DayOne],
                 entry |-> [e \in Secrets |-> Top],
                 put |-> [e \in Secrets |-> DayOne]]]
    BY DEF MetaInit
  <1> DEFINE v == [name |-> 0, nameAt |-> NoDate, bin |-> bin, binAt |-> NoDate,
                   marker |-> [value |-> NoMarker, at |-> NoDate],
                   where |-> [g \in AllGroups |-> IF g \in SharedGroups THEN Top ELSE None],
                   moved |-> [g \in AllGroups |-> DayOne],
                   entry |-> [e \in Secrets |-> Top],
                   put |-> [e \in Secrets |-> DayOne]]
  <1>2. v \in Copies /\ v.bin = bin /\ v.marker.value = NoMarker
    BY NamesApart DEF Copies, Moments, NoDate, NoMarker, DayOne
  <1>3. CopyOK(v)
    BY <1>2, NamesApart DEF CopyOK
  <1>4. vault = [c \in Installs \union {Server} |-> v]
    BY <1>1
  <1>5. stale = {} /\ time = 1 /\ changed = 0
    BY DEF MetaInit
  <1> HIDE DEF v
  <1>6. /\ DOMAIN vault = Installs \union {Server} /\ vault = [c \in DOMAIN vault |-> vault[c]]
        /\ \A c \in Installs \union {Server} : vault[c] = v
    BY <1>4
  <1>7. vault[Server] = v /\ v.marker.value = NoMarker
    BY <1>2, <1>6
  <1>8. time \in Nat /\ changed \in 0..MaxEdits /\ stale \subseteq Installs
    BY <1>5, MergeMetaConstants
  <1> QED
    BY <1>3, <1>6, <1>7, <1>8 DEF MetaInv

\* A change on one device, to a copy that is in order and keeps its marker.
LEMMA Edited ==
  ASSUME MetaInv, NEW d \in Installs, NEW v, Edit(d, v), CopyOK(v),
         vault[d].marker.value # NoMarker => v.marker.value # NoMarker
  PROVE  MetaInv' /\ MarkerStays
  <1>1. /\ vault' = [vault EXCEPT ![d] = v] /\ changed' = changed + 1 /\ changed < MaxEdits
        /\ stale' = stale /\ time' = time /\ d # Server
    BY NamesApart DEF Edit
  <1>2. /\ vault'[d] = v /\ \A c \in (Installs \union {Server}) \ {d} : vault'[c] = vault[c]
        /\ DOMAIN vault' = DOMAIN vault /\ vault' = [c \in DOMAIN vault' |-> vault'[c]]
    BY <1>1 DEF MetaInv
  <1>3. vault'[Server] = vault[Server]
    BY <1>1, <1>2
  <1>4. changed' \in 0..MaxEdits
    BY <1>1, MergeMetaConstants DEF MetaInv
  <1>5. ASSUME NEW c \in Installs \ stale, vault[Server].marker.value # NoMarker
        PROVE  vault'[c].marker.value # NoMarker
    BY <1>2, <1>5 DEF MetaInv
  <1>6. \A c \in Installs \union {Server} : CopyOK(vault'[c])
    BY <1>2 DEF MetaInv
  <1> QED
    BY <1>1, <1>2, <1>3, <1>4, <1>5, <1>6 DEF MetaInv, MarkerStays

LEMMA Trashing ==
  ASSUME MetaInv, NEW d \in Installs, NEW e \in Secrets, Trash(d, e)
  PROVE  MetaInv' /\ MarkerStays
  <1> DEFINE v == vault[d]
             new == v.bin = None
             bin == IF new THEN OwnBin[d] ELSE v.bin
             binAt == IF new THEN time ELSE v.binAt
             where == [v.where EXCEPT ![bin] = IF new THEN Top ELSE v.where[bin]]
             moments == [v.moved EXCEPT ![bin] = IF new THEN time ELSE v.moved[bin]]
             entry == [v.entry EXCEPT ![e] = bin]
             put == [v.put EXCEPT ![e] = Later1(v.put[e])]
             w == [v EXCEPT !.bin = bin, !.binAt = binAt, !.where = where, !.moved = moments,
                            !.entry = entry, !.put = put]
  <1>1. v \in Copies /\ time \in Nat /\ (v.bin # None => v.where[v.bin] # None)
    BY DEF MetaInv, CopyOK
  <1>2. bin \in AllGroups
    BY <1>1, NamesApart DEF Copies
  <1>3. binAt \in Moments
    BY <1>1 DEF Copies, Moments
  <1>4. where \in [AllGroups -> AllGroups \union {Top, None}] /\ where[bin] # None
    BY <1>1, <1>2, NamesApart DEF Copies
  <1>5. moments \in [AllGroups -> Nat] /\ entry \in [Secrets -> AllGroups \union {Top}]
    BY <1>1, <1>2 DEF Copies
  <1>6. put \in [Secrets -> Nat]
    BY <1>1 DEF Copies, Later1
  <1>7. Edit(d, [v EXCEPT !.bin = bin, !.binAt = IF new THEN time ELSE @,
                          !.where[bin] = IF new THEN Top ELSE @,
                          !.moved[bin] = IF new THEN time ELSE @,
                          !.entry[e] = bin, !.put[e] = Later1(@)])
    BY DEF Trash
  <1>8. Edit(d, w)
    BY <1>7
  <1> HIDE DEF bin, binAt, where, moments, entry, put
  <1>9. w \in Copies /\ w.bin = bin /\ w.where = where /\ w.marker = v.marker
    BY <1>1, <1>2, <1>3, <1>4, <1>5, <1>6 DEF Copies
  <1> HIDE DEF w
  <1>10. CopyOK(w)
    BY <1>4, <1>9 DEF CopyOK
  <1> QED
    BY <1>8, <1>9, <1>10, Edited

LEMMA EditingOtherwise ==
  ASSUME MetaInv, NEW d \in Installs,
         \/ \E e \in Secrets, g \in AllGroups \union {Top} : MoveSecret(d, e, g)
         \/ \E g \in AllGroups \union {None} : DesignateBin(d, g)
         \/ RenameVault(d) \/ SetMarker(d)
  PROVE  MetaInv' /\ MarkerStays
  <1> DEFINE v == vault[d]
  <1>1. v \in Copies /\ time \in Nat /\ (v.bin # None => v.where[v.bin] # None) /\ changed + 1 \in Nat
        /\ changed + 1 # 0
    BY DEF MetaInv, CopyOK
  <1> HIDE DEF v
  <1>2. ASSUME NEW e \in Secrets, NEW g \in AllGroups \union {Top}, MoveSecret(d, e, g)
        PROVE  MetaInv' /\ MarkerStays
    <2> DEFINE entry == [v.entry EXCEPT ![e] = g]
               put == [v.put EXCEPT ![e] = Later1(v.put[e])]
               w == [v EXCEPT !.entry = entry, !.put = put]
    <2>1. entry \in [Secrets -> AllGroups \union {Top}] /\ put \in [Secrets -> Nat]
      BY <1>1 DEF Copies, Later1
    <2>2. Edit(d, w)
      BY <1>2 DEF MoveSecret, v
    <2> HIDE DEF entry, put
    <2>3. w \in Copies /\ w.bin = v.bin /\ w.where = v.where /\ w.marker = v.marker
      BY <1>1, <2>1 DEF Copies
    <2> HIDE DEF w
    <2>4. CopyOK(w)
      BY <1>1, <2>3 DEF CopyOK
    <2> QED
      BY <2>2, <2>3, <2>4, Edited DEF v
  <1>3. ASSUME NEW g \in AllGroups \union {None}, DesignateBin(d, g)
        PROVE  MetaInv' /\ MarkerStays
    <2> DEFINE w == [v EXCEPT !.bin = g, !.binAt = time]
    <2>1. Edit(d, w) /\ (g # None => v.where[g] # None)
      BY <1>3 DEF DesignateBin, v, GroupsOf
    <2>2. w \in Copies /\ w.bin = g /\ w.where = v.where /\ w.marker = v.marker
      BY <1>1 DEF Copies, Moments
    <2> HIDE DEF w
    <2>3. CopyOK(w)
      BY <2>1, <2>2 DEF CopyOK
    <2> QED
      BY <2>1, <2>2, <2>3, Edited DEF v
  <1>4. CASE RenameVault(d)
    <2> DEFINE w == [v EXCEPT !.name = changed + 1, !.nameAt = time]
    <2>1. Edit(d, w)
      BY <1>4 DEF RenameVault, v
    <2>2. w \in Copies /\ w.bin = v.bin /\ w.where = v.where /\ w.marker = v.marker
      BY <1>1 DEF Copies, Moments
    <2> HIDE DEF w
    <2>3. CopyOK(w)
      BY <1>1, <2>2 DEF CopyOK
    <2> QED
      BY <2>1, <2>2, <2>3, Edited DEF v
  <1>5. CASE SetMarker(d)
    <2>1. PICK t \in {NoDate, time} : Edit(d, [v EXCEPT !.marker = [value |-> changed + 1, at |-> t]])
      BY <1>5 DEF SetMarker, v
    <2> DEFINE w == [v EXCEPT !.marker = [value |-> changed + 1, at |-> t]]
    <2>2. t \in Moments
      BY <1>1 DEF Moments
    <2>3. w \in Copies /\ w.bin = v.bin /\ w.where = v.where /\ w.marker.value = changed + 1
      BY <1>1, <2>2 DEF Copies
    <2>4. Edit(d, w)
      BY <2>1
    <2> HIDE DEF w
    <2>5. CopyOK(w)
      BY <1>1, <2>3 DEF CopyOK
    <2> QED
      BY <1>1, <2>3, <2>4, <2>5, Edited DEF NoMarker
  <1> QED
    BY <1>2, <1>3, <1>4, <1>5

LEMMA SendingCopy ==
  ASSUME MetaInv, NEW d \in Installs, Send(d)
  PROVE  MetaInv' /\ MarkerStays
  <1>1. /\ vault' = [vault EXCEPT ![Server] = vault[d]] /\ stale' = Installs \ {d}
        /\ time' = time /\ changed' = changed /\ d \notin stale /\ d # Server
    BY NamesApart DEF Send
  <1>2. /\ vault'[Server] = vault[d] /\ \A c \in Installs : vault'[c] = vault[c]
        /\ DOMAIN vault' = DOMAIN vault /\ vault' = [c \in DOMAIN vault' |-> vault'[c]]
    BY <1>1, NamesApart DEF MetaInv
  <1> QED
    BY <1>1, <1>2 DEF MetaInv, MarkerStays

LEMMA ReconcilingCopies ==
  ASSUME MetaInv, NEW d \in Installs, Reconcile(d)
  PROVE  MetaInv' /\ MarkerStays
  <1>1. PICK side \in Either :
          LET v == Result(d, side) IN
          vault' = [vault EXCEPT ![d] = v, ![Server] = IF Sends(d) THEN v ELSE @]
    BY DEF Reconcile, Either
  <1> DEFINE ours == vault[d]
             theirs == vault[Server]
             v == Result(d, side)
             sent == IF Sends(d) THEN v ELSE theirs
  <1>2. CopyOK(ours) /\ CopyOK(theirs) /\ d # Server
    BY NamesApart DEF MetaInv
  <1>3. CopyOK(v) /\ v.marker = StandingMarker(ours.marker, theirs.marker)
    <2>1. v = Together(ours, theirs, side)
      BY DEF Result
    <2>2. time \in Nat
      BY DEF MetaInv
    <2> HIDE DEF v, ours, theirs
    <2> QED
      BY <1>2, <2>1, <2>2, TogetherIs
  <1>4. vault' = [vault EXCEPT ![d] = v, ![Server] = sent]
    BY <1>1, <1>2
  <1>5. /\ stale' = IF Sends(d) THEN Installs \ {d} ELSE stale \ {d}
        /\ time' = time /\ changed' = IF Asked(d) THEN changed + 1 ELSE changed
        /\ (Asked(d) => changed < MaxEdits)
    BY DEF Reconcile
  <1> HIDE DEF v, sent
  <1>6. /\ vault'[d] = v /\ vault'[Server] = sent
        /\ \A c \in Installs \ {d} : vault'[c] = vault[c]
        /\ DOMAIN vault' = DOMAIN vault /\ vault' = [c \in DOMAIN vault' |-> vault'[c]]
    BY <1>2, <1>4, NamesApart DEF MetaInv
  <1>7. ours.marker.value # NoMarker \/ theirs.marker.value # NoMarker => v.marker.value # NoMarker
    <2>1. ours.marker \in [value : Nat, at : Moments]
      BY <1>2 DEF CopyOK, Copies
    <2>2. [ours.marker EXCEPT !.at = Newest(@, theirs.marker.at)].value = ours.marker.value
      BY <2>1
    <2> QED
      BY <1>3, <2>2 DEF StandingMarker
  <1>8. theirs.marker.value # NoMarker => sent.marker.value # NoMarker
    BY <1>7 DEF sent
  <1>9. \A c \in Installs \union {Server} : CopyOK(vault'[c])
    BY <1>2, <1>3, <1>6 DEF MetaInv, sent
  <1>10. changed' \in 0..MaxEdits
    BY <1>5, MergeMetaConstants DEF MetaInv
  <1>11. stale' \subseteq Installs
    BY <1>5 DEF MetaInv
  <1>12. ASSUME NEW c \in Installs \ stale', vault'[Server].marker.value # NoMarker
         PROVE  vault'[c].marker.value # NoMarker
    <2>1. CASE Sends(d)
      BY <1>5, <1>6, <1>12, <2>1 DEF sent
    <2>2. CASE ~Sends(d)
      <3>1. theirs.marker.value # NoMarker
        BY <1>6, <1>12, <2>2 DEF sent
      <3>2. c = d => vault'[c].marker.value # NoMarker
        BY <1>6, <1>7, <3>1
      <3>3. c # d => c \in Installs \ stale /\ vault'[c] = vault[c]
        BY <1>5, <1>6, <1>12, <2>2
      <3> QED
        BY <3>1, <3>2, <3>3 DEF MetaInv
    <2> QED
      BY <2>1, <2>2
  <1>13. MarkerStays
    BY <1>6, <1>8 DEF MarkerStays
  <1> QED
    BY <1>5, <1>6, <1>9, <1>10, <1>11, <1>12, <1>13 DEF MetaInv

LEMMA MetaSteps == MetaInv /\ [MetaNext]_metaVars => MetaInv' /\ MarkerStays
  <1> SUFFICES ASSUME MetaInv, [MetaNext]_metaVars PROVE MetaInv' /\ MarkerStays
    OBVIOUS
  <1>1. ASSUME UNCHANGED <<vault, stale, changed>>, time' \in Nat PROVE MetaInv' /\ MarkerStays
    BY <1>1 DEF MetaInv, MarkerStays
  <1>2. CASE TheClockMoves \/ UNCHANGED metaVars
    BY <1>1, <1>2 DEF TheClockMoves, metaVars, MetaInv
  <1>3. ASSUME NEW d \in Installs,
               \/ \E e \in Secrets : Trash(d, e) \/ \E g \in AllGroups \union {Top} : MoveSecret(d, e, g)
               \/ \E g \in AllGroups \union {None} : DesignateBin(d, g)
               \/ RenameVault(d) \/ SetMarker(d) \/ Send(d) \/ Reconcile(d)
        PROVE  MetaInv' /\ MarkerStays
    BY <1>3, Trashing, EditingOtherwise, SendingCopy, ReconcilingCopies
  <1> QED
    BY <1>2, <1>3 DEF MetaNext

\* An answer settles ties only, whatever the side.
LEMMA TiesOnly == MetaInv => PickSettlesTiesOnly
  <1> SUFFICES ASSUME MetaInv, NEW d \in stale
               PROVE  /\ NameWinner(vault[d], vault[Server]) # None =>
                           Result(d, "local").name = Result(d, "remote").name
                      /\ RecycleBinWinner(vault[d], vault[Server]) # None =>
                           Result(d, "local").bin = Result(d, "remote").bin
    BY DEF PickSettlesTiesOnly
  <1>1. CopyOK(vault[d]) /\ CopyOK(vault[Server]) /\ time \in Nat
    BY DEF MetaInv
  <1>2. "local" \in Either /\ "remote" \in Either
    BY DEF Either
  <1> QED
    BY <1>1, <1>2, TogetherIs DEF Result

\* A merge that sends nothing has made what the cloud file holds.
LEMMA NothingToSend == MetaInv => SkippedUploadAgrees
  <1> SUFFICES ASSUME MetaInv, NEW d \in stale, ~Sends(d)
               PROVE  LET v == Silent(d) IN
                      /\ v.name = vault[Server].name /\ v.bin = vault[Server].bin
                      /\ v.where = vault[Server].where /\ v.entry = vault[Server].entry
    BY DEF SkippedUploadAgrees
  <1> DEFINE ours == vault[d]
             theirs == vault[Server]
  <1>1. CopyOK(ours) /\ CopyOK(theirs) /\ time \in Nat /\ "local" \in Either
    BY DEF MetaInv, Either
  <1>2. /\ NameWinner(ours, theirs) \notin {None, "local"}
        /\ RecycleBinWinner(ours, theirs) \notin {None, "local"}
        /\ ours.where = theirs.where /\ ours.entry = theirs.entry
    BY DEF Sends, Asked, MustAsk, SomethingToSend
  <1>3. ours.nameAt \in Moments /\ theirs.nameAt \in Moments /\ ours.binAt \in Moments
        /\ theirs.binAt \in Moments
    BY <1>1 DEF CopyOK, Copies
  <1>4. ASSUME NEW a \in Moments, NEW b \in Moments, Rank(a, b) \notin {None, "local"} PROVE b > a
    BY <1>4 DEF Rank, Moments, NoDate
  <1>5. NameWinner(ours, theirs) = (IF ours.name = theirs.name THEN "same" ELSE Rank(ours.nameAt, theirs.nameAt))
    BY DEF NameWinner
  <1>6. ours.name = theirs.name \/ theirs.nameAt > ours.nameAt
    BY <1>2, <1>3, <1>4, <1>5
  <1>7. \/ ours.bin = theirs.bin /\ RecycleBinWinner(ours, theirs) = "same"
        \/ ours.bin # theirs.bin /\ RecycleBinWinner(ours, theirs) \in {None, Rank(ours.binAt, theirs.binAt)}
    BY DEF RecycleBinWinner
  <1>8. ours.bin = theirs.bin \/ theirs.binAt > ours.binAt
    BY <1>2, <1>3, <1>4, <1>7
  <1>9. RecycleBinWinner(ours, theirs) \in {"same", "remote"}
    BY <1>2, <1>7 DEF Rank
  <1>10. /\ Silent(d) = Together(ours, theirs, "local")
    BY DEF Silent, Result
  <1> HIDE DEF ours, theirs
  <1>11. LET v == Together(ours, theirs, "local") IN
         /\ v.name = IF theirs.nameAt > ours.nameAt THEN theirs.name ELSE ours.name
         /\ v.bin = IF theirs.binAt > ours.binAt THEN theirs.bin ELSE ours.bin
         /\ v.where = ours.where /\ v.entry = ours.entry
    BY <1>1, <1>2, <1>9, TogetherIs
  <1> QED
    BY <1>2, <1>6, <1>8, <1>10, <1>11 DEF theirs

\* The vault's own settings settle, and each copy keeps its type.
LEMMA SettingsHold == MetaSpec => SettingsSettle /\ []MetaTypeOK
  <1>1. MetaInv => MetaTypeOK
    <2> SUFFICES ASSUME MetaInv PROVE MetaTypeOK
      OBVIOUS
    <2>1. ASSUME NEW c \in Installs \union {Server}
          PROVE  /\ vault[c].bin \in GroupsOf(vault[c]) \union {None}
                 /\ vault[c].where \in [AllGroups -> AllGroups \union {Top, None}]
                 /\ vault[c].entry \in [Secrets -> AllGroups \union {Top}]
                 /\ {vault[c].nameAt, vault[c].binAt} \subseteq Nat \union {NoDate}
      BY DEF MetaInv, CopyOK, Copies, GroupsOf, Moments
    <2> QED
      BY <2>1 DEF MetaInv, MetaTypeOK
  <1>2. MetaInv /\ [MetaNext]_metaVars => [MarkerStays]_metaVars
    BY MetaSteps
  <1>3. MetaInv /\ [MetaNext]_metaVars => MetaInv'
    BY MetaSteps
  <1>4. MetaInv => PickSettlesTiesOnly /\ SkippedUploadAgrees
    BY TiesOnly, NothingToSend
  <1>5. MetaSpec => [](PickSettlesTiesOnly /\ SkippedUploadAgrees) /\ []MetaTypeOK /\ [][MarkerStays]_metaVars
    BY <1>1, <1>2, <1>3, <1>4, MetaInitial, PTL DEF MetaSpec
  <1> QED
    BY <1>5 DEF SettingsSettle, MarkersSurvive, MarkerStays

-----------------------------------------------------------------------------
(* One entry.                                                              *)

Stamps == Nat \union {Undated}
Wordings == 0..MaxOps
Archive == [text : Wordings, at : Stamps]
HeldEntries ==
  [held : {TRUE}, text : Wordings, at : Stamps, in : Places \union {"bin"}, moved : Stamps,
   past : SUBSET Archive]
EntryCopies == [entry : HeldEntries \union {NoEntry}, grave : Nat]

\* Every copy is whole, and a copy that knows the cloud's latest revision has
\* all that the cloud's has ever said.
EntryInv ==
  /\ copy \in [Devices \union {Cloud} -> EntryCopies]
  /\ behind \subseteq Devices /\ touched \subseteq Devices
  /\ now \in Start..(Start + MaxTicks) /\ ops \in 0..MaxOps
  /\ \A d \in Devices \ behind :
       copy[d].entry.held /\ copy[Cloud].entry.held =>
         Texts(copy[Cloud].entry) \subseteq Texts(copy[d].entry)

NothingLost ==
  \A c \in Devices \union {Cloud} :
    copy[c].entry.held /\ copy'[c].entry.held =>
      Texts(copy[c].entry) \subseteq Texts(copy'[c].entry)

LEMMA StampsAreIntegers == Stamps \subseteq Int /\ Epoch \in Nat /\ Epoch \in Stamps /\ Start \in Nat
  BY DEF Stamps, Undated, Epoch, Start

LEMMA ClocksAreNatural ==
  ASSUME now \in Start..(Start + MaxTicks), NEW d \in Devices
  PROVE  ClockOf(d) \in Nat /\ ClockOf(d) > 0
  BY MergeEntryConstants DEF ClockOf, Start

LEMMA LaterIsOneOfThem ==
  ASSUME NEW a \in Nat, NEW b \in Nat
  PROVE  Later(a, b) \in Nat
  BY DEF Later

LEMMA NextChangeIsAStamp ==
  ASSUME NEW last \in Stamps, NEW clock \in Nat
  PROVE  NextChangeTime(last, clock) \in Nat
  BY DEF NextChangeTime, Stamps, Undated

LEMMA LaterStamp ==
  ASSUME NEW a \in Stamps, NEW b \in Stamps
  PROVE  Later(a, b) \in Stamps
  BY DEF Later

\* The answer's stamp is after the clock, and after every stamp to believe.
LEMMA ResolutionIsLatest ==
  ASSUME NEW a \in Stamps, NEW b \in Stamps, NEW clock \in Nat
  PROVE  ResolutionTime({a, b}, clock) \in Nat /\ ResolutionTime({a, b}, clock) > clock
  <1> DEFINE believed == {s \in {a, b} : s # Undated /\ ~IsFutureDated(s, clock)} \union {clock}
             x == IF a \in believed /\ a > clock THEN a ELSE clock
             top == IF b \in believed /\ b > x THEN b ELSE x
             t == CHOOSE t \in believed : \A s \in believed : s <= t
  <1>1. /\ believed \subseteq Nat /\ clock \in believed
        /\ a \in Int /\ b \in Int /\ clock \in Int
    BY DEF Stamps, Undated
  <1>2. \A s \in believed : s = a \/ s = b \/ s = clock
    OBVIOUS
  <1> HIDE DEF believed
  <1>3. x \in believed /\ x \in Int /\ x >= clock /\ (a \in believed => a <= x)
    <2>1. CASE a \in believed /\ a > clock
      BY <1>1, <2>1
    <2>2. CASE ~(a \in believed /\ a > clock)
      BY <1>1, <2>2
    <2> QED
      BY <2>1, <2>2
  <1> HIDE DEF x
  <1>4. top \in believed /\ top \in Int /\ x <= top /\ (b \in believed => b <= top)
    <2>1. CASE b \in believed /\ b > x
      BY <1>1, <1>3, <2>1
    <2>2. CASE ~(b \in believed /\ b > x)
      BY <1>1, <1>3, <2>2
    <2> QED
      BY <2>1, <2>2
  <1> HIDE DEF top
  <1>5. \A s \in believed : s <= top
    BY <1>1, <1>2, <1>3, <1>4
  <1>6. t \in believed /\ clock <= t
    BY <1>1, <1>4, <1>5
  <1>7. ResolutionTime({a, b}, clock) = t + 1
    BY DEF ResolutionTime, believed
  <1> HIDE DEF t
  <1> QED
    BY <1>1, <1>6, <1>7

LEMMA VersionIsArchived ==
  ASSUME NEW e \in HeldEntries
  PROVE  Version(e) \in Archive /\ Version(e).text = e.text
  BY DEF Version, Archive, HeldEntries

\* What forcing an answer on one of two entries makes of it.
ForcedTo(f, e, o, wins, clock) ==
  /\ f \in HeldEntries /\ f.text = e.text /\ f.in = e.in
  /\ f.past = IF wins THEN e.past \union {Version(o)} ELSE e.past
  /\ IF wins THEN f.at > clock ELSE f.at = Epoch
  /\ e.in # o.in => IF wins THEN f.moved > clock ELSE f.moved = Epoch

LEMMA ForcedIsWhole ==
  ASSUME NEW e \in HeldEntries, NEW o \in HeldEntries, NEW wins \in BOOLEAN, NEW clock \in Nat
  PROVE  ForcedTo(Forced(e, o, wins, clock), e, o, wins, clock)
  <1> DEFINE byAt == ResolutionTime({e.at, o.at}, clock)
             byMoved == ResolutionTime({e.moved, o.moved}, clock)
             placed == IF e.moved # o.moved \/ e.in # o.in
                       THEN [e EXCEPT !.moved = IF wins THEN byMoved ELSE Epoch]
                       ELSE e
  <1>1. /\ e.at \in Stamps /\ o.at \in Stamps /\ e.moved \in Stamps /\ o.moved \in Stamps
    BY DEF HeldEntries
  <1>2. byAt \in Nat /\ byAt > clock /\ byMoved \in Nat /\ byMoved > clock
    BY <1>1, ResolutionIsLatest
  <1>3. Forced(e, o, wins, clock) =
          IF wins THEN [placed EXCEPT !.at = byAt, !.past = @ \union {Version(o)}]
          ELSE [placed EXCEPT !.at = Epoch]
    BY DEF Forced
  <1> HIDE DEF byAt, byMoved
  <1>4. /\ placed \in HeldEntries /\ placed.text = e.text /\ placed.in = e.in /\ placed.past = e.past
        /\ placed.at = e.at
        /\ e.in # o.in => placed.moved = IF wins THEN byMoved ELSE Epoch
    BY <1>2 DEF HeldEntries, Stamps, Epoch
  <1> HIDE DEF placed
  <1>5. Version(o) \in Archive
    BY VersionIsArchived
  <1>6. CASE wins
    <2> DEFINE f == [placed EXCEPT !.at = byAt, !.past = @ \union {Version(o)}]
    <2>1. /\ f \in HeldEntries /\ f.text = placed.text /\ f.in = placed.in /\ f.at = byAt
          /\ f.past = placed.past \union {Version(o)} /\ f.moved = placed.moved
      BY <1>2, <1>4, <1>5 DEF HeldEntries, Stamps
    <2> QED
      BY <1>2, <1>3, <1>4, <1>6, <2>1 DEF ForcedTo
  <1>7. CASE ~wins
    <2> DEFINE f == [placed EXCEPT !.at = Epoch]
    <2>1. /\ f \in HeldEntries /\ f.text = placed.text /\ f.in = placed.in /\ f.at = Epoch
          /\ f.past = placed.past /\ f.moved = placed.moved
      BY <1>4 DEF HeldEntries, Stamps, Epoch
    <2> QED
      BY <1>2, <1>3, <1>4, <1>7, <2>1 DEF ForcedTo
  <1> QED
    BY <1>6, <1>7

LEMMA RefusedIsNoCopy ==
  ASSUME NEW c \in EntryCopies
  PROVE  c # Refused /\ c = [entry |-> c.entry, grave |-> c.grave]
  <1>1. DOMAIN c = {"entry", "grave"} /\ c = [entry |-> c.entry, grave |-> c.grave]
    BY DEF EntryCopies
  <1>2. DOMAIN Refused = {"refused"}
    BY DEF Refused
  <1> QED
    BY <1>1, <1>2

LEMMA HoldingIsWhole ==
  ASSUME NEW c \in EntryCopies
  PROVE  /\ c.entry.held \in BOOLEAN /\ c.grave \in Nat
         /\ c.entry.held <=> c.entry \in HeldEntries
         /\ ~c.entry.held <=> c.entry = NoEntry
  <1>1. \A e \in HeldEntries : e.held = TRUE
    BY DEF HeldEntries
  <1>2. NoEntry.held = FALSE
    BY DEF NoEntry
  <1>3. c.entry \in HeldEntries \union {NoEntry} /\ c.grave \in Nat
    BY DEF EntryCopies
  <1> QED
    BY <1>1, <1>2, <1>3

\* A deletion on record takes the entry whole or leaves it as it is.
LEMMA ForkDeleteIs ==
  ASSUME NEW e \in HeldEntries \union {NoEntry}, NEW tomb \in Nat
  PROVE  LET m == ForkDelete(e, tomb) IN
         /\ m # Refused => /\ m \in EntryCopies /\ m.grave = tomb
                           /\ m.entry.held => m.entry = e
         /\ tomb = Epoch => m # Refused
  <1> DEFINE kept == IF e.held /\ tomb # Epoch /\ e.at <= tomb THEN NoEntry ELSE e
  <1>1. ForkDelete(e, tomb) = Refused \/ ForkDelete(e, tomb) = [entry |-> kept, grave |-> tomb]
    BY DEF ForkDelete
  <1>2. tomb = Epoch => ForkDelete(e, tomb) = [entry |-> kept, grave |-> tomb]
    BY DEF ForkDelete
  <1>3. kept \in HeldEntries \union {NoEntry} /\ (kept = e \/ kept = NoEntry)
    OBVIOUS
  <1> HIDE DEF kept
  <1> DEFINE m == [entry |-> kept, grave |-> tomb]
  <1>4. m \in EntryCopies /\ m.entry = kept /\ m.grave = tomb
    BY <1>3 DEF EntryCopies
  <1> HIDE DEF m
  <1>5. m # Refused
    BY <1>4, RefusedIsNoCopy
  <1>6. NoEntry.held = FALSE
    BY DEF NoEntry
  <1> QED
    BY <1>1, <1>2, <1>3, <1>4, <1>5, <1>6 DEF m

\* Two held entries put together: the newer one's text, both clocks apart, and
\* every version of both.
ForkMerged(m, ours, theirs, harmless) ==
  LET l == ours.entry
      r == theirs.entry
  IN /\ m # Refused =>
          /\ m \in EntryCopies
          /\ m.entry.held =>
               /\ Texts(l) \subseteq Texts(m.entry) /\ Texts(r) \subseteq Texts(m.entry)
               /\ (Undated \notin {l.at, r.at} =>
                     m.entry.text = IF r.at > l.at THEN r.text ELSE l.text)
               /\ (l.in = r.in => m.entry.in = l.in)
               /\ (l.in # r.in => m.entry.in = IF r.moved > l.moved THEN r.in ELSE l.in)
     /\ /\ (l.in # r.in => Undated \notin {l.moved, r.moved} /\ l.moved # r.moved)
        /\ (Undated \notin {l.at, r.at} => l.at # r.at \/ l.text = r.text)
        /\ (Undated \in {l.at, r.at} => harmless)
        /\ ours.grave = Epoch /\ theirs.grave = Epoch
        => m # Refused

LEMMA ForkMergeIs ==
  ASSUME NEW ours \in EntryCopies, NEW theirs \in EntryCopies,
         ours.entry.held, theirs.entry.held, NEW harmless \in BOOLEAN, NEW clock \in Nat
  PROVE  ForkMerged(ForkMerge(ours, theirs, harmless, clock), ours, theirs, harmless)
  <1> DEFINE l == ours.entry
             r == theirs.entry
             undated == Undated \in {l.at, r.at}
             remoteNewer == IF undated THEN l.at = Undated /\ r.at > clock ELSE r.at > l.at
             newer == IF remoteNewer THEN r ELSE l
             older == IF remoteNewer THEN l ELSE r
             placedBy == IF l.in = r.in THEN newer ELSE IF r.moved > l.moved THEN r ELSE l
             archive == l.past \union r.past \union (IF l.text = r.text THEN {} ELSE {Version(older)})
             e == [newer EXCEPT !.in = placedBy.in, !.moved = placedBy.moved, !.past = archive]
             tomb == Later(ours.grave, theirs.grave)
             blocked == \/ l.in # r.in /\ (Undated \in {l.moved, r.moved} \/ l.moved = r.moved)
                        \/ ~undated /\ l.at = r.at /\ l.text # r.text
                        \/ undated /\ ~harmless
             m == ForkMerge(ours, theirs, harmless, clock)
  <1>1. m = IF blocked THEN Refused ELSE ForkDelete(e, tomb)
    BY DEF ForkMerge
  <1>2. l \in HeldEntries /\ r \in HeldEntries /\ tomb \in Nat
    BY HoldingIsWhole, LaterIsOneOfThem
  <1>3. (ours.grave = Epoch /\ theirs.grave = Epoch) => tomb = Epoch
    BY DEF Later
  <1>4. blocked => \/ l.in # r.in /\ (Undated \in {l.moved, r.moved} \/ l.moved = r.moved)
                   \/ Undated \notin {l.at, r.at} /\ l.at = r.at /\ l.text # r.text
                   \/ Undated \in {l.at, r.at} /\ ~harmless
    OBVIOUS
  <1>5. ~undated => remoteNewer = (r.at > l.at)
    OBVIOUS
  <1>6. undated <=> Undated \in {l.at, r.at}
    OBVIOUS
  <1> HIDE DEF remoteNewer, m, blocked, tomb, undated
  <1>7. newer \in HeldEntries /\ older \in HeldEntries /\ {newer, older} = {l, r}
    BY <1>2
  <1>8. newer.text = IF remoteNewer THEN r.text ELSE l.text
    OBVIOUS
  <1>9. Version(older) \in Archive /\ Version(older).text = older.text
    BY <1>7, VersionIsArchived
  <1>10. placedBy \in HeldEntries
    BY <1>2, <1>7
  <1>11. /\ (l.in = r.in => placedBy.in = l.in)
         /\ (l.in # r.in => placedBy.in = IF r.moved > l.moved THEN r.in ELSE l.in)
    BY <1>7
  <1> HIDE DEF placedBy
  <1>12. archive \in SUBSET Archive /\ l.past \subseteq archive /\ r.past \subseteq archive
    BY <1>2, <1>9 DEF HeldEntries
  <1>13. l.text # r.text => Version(older) \in archive
    OBVIOUS
  <1> HIDE DEF archive, newer, older
  <1>14. e \in HeldEntries /\ e.text = newer.text /\ e.in = placedBy.in /\ e.past = archive
    BY <1>7, <1>10, <1>12 DEF HeldEntries
  <1> HIDE DEF e
  <1>15. {l.text, r.text} \subseteq Texts(e)
    <2>1. {newer.text, older.text} = {l.text, r.text}
      BY <1>7
    <2>2. newer.text \in Texts(e)
      BY <1>14 DEF Texts
    <2>3. l.text # r.text => older.text \in Texts(e)
      BY <1>9, <1>13, <1>14 DEF Texts
    <2> QED
      BY <2>1, <2>2, <2>3
  <1>16. Texts(l) \subseteq Texts(e) /\ Texts(r) \subseteq Texts(e)
    BY <1>12, <1>14, <1>15 DEF Texts
  <1>17. /\ ForkDelete(e, tomb) # Refused =>
              /\ ForkDelete(e, tomb) \in EntryCopies
              /\ ForkDelete(e, tomb).entry.held => ForkDelete(e, tomb).entry = e
         /\ tomb = Epoch => ForkDelete(e, tomb) # Refused
    BY <1>2, <1>14, ForkDeleteIs
  <1>18. m # Refused => /\ m \in EntryCopies
                        /\ m.entry.held => m.entry = e
    BY <1>1, <1>17
  <1>19. ~blocked /\ tomb = Epoch => m # Refused
    BY <1>1, <1>17
  <1>20. Undated \notin {l.at, r.at} => e.text = IF r.at > l.at THEN r.text ELSE l.text
    BY <1>5, <1>6, <1>8, <1>14
  <1> QED
    BY <1>3, <1>4, <1>11, <1>14, <1>16, <1>18, <1>19, <1>20 DEF m, ForkMerged

\* What a merge takes for its two sides once questions are answered and losing
\* versions archived: the two entries, with more in their archives.
ReadyFor(ready, ours, theirs) ==
  /\ ready.ours \in EntryCopies /\ ready.theirs \in EntryCopies
  /\ ready.ours.entry.held /\ ready.theirs.entry.held
  /\ ready.ours.grave = ours.grave /\ ready.theirs.grave = theirs.grave
  /\ ready.ours.entry.text = ours.entry.text /\ ready.theirs.entry.text = theirs.entry.text
  /\ ready.ours.entry.in = ours.entry.in /\ ready.theirs.entry.in = theirs.entry.in
  /\ ours.entry.past \subseteq ready.ours.entry.past
  /\ theirs.entry.past \subseteq ready.theirs.entry.past

LEMMA AnswerForced ==
  ASSUME NEW ours \in EntryCopies, NEW theirs \in EntryCopies, BothHold(ours, theirs),
         NEW side \in Sides, NEW clock \in Nat
  PROVE  LET ready == ForceManualWinner(ours, theirs, side, clock)
             won == IF side = "local" THEN ready.ours.entry ELSE ready.theirs.entry
             lost == IF side = "local" THEN ready.theirs.entry ELSE ready.ours.entry
         IN /\ ReadyFor(ready, ours, theirs)
            /\ won.at > clock /\ lost.at = Epoch
            /\ won.in # lost.in => won.moved > clock /\ lost.moved = Epoch
  <1> DEFINE l == ours.entry
             r == theirs.entry
             wins == side = "local"
             loses == ~wins
             f == Forced(l, r, wins, clock)
             g == Forced(r, l, loses, clock)
             a == [ours EXCEPT !.entry = f]
             b == [theirs EXCEPT !.entry = g]
             ready == ForceManualWinner(ours, theirs, side, clock)
  <1>1. l \in HeldEntries /\ r \in HeldEntries
    BY HoldingIsWhole DEF BothHold
  <1>2. (side = "remote") = loses
    BY DEF Sides
  <1>3. ready.ours = a /\ ready.theirs = b
    <2>1. ready = [ours   |-> [ours EXCEPT !.entry = Forced(l, r, wins, clock)],
                   theirs |-> [theirs EXCEPT !.entry = Forced(r, l, side = "remote", clock)]]
      BY DEF ForceManualWinner, EntryCopies
    <2> QED
      BY <1>2, <2>1
  <1>4. wins \in BOOLEAN /\ loses \in BOOLEAN /\ (loses <=> ~wins)
    OBVIOUS
  <1> HIDE DEF ready, wins, loses, l, r
  <1>5. /\ f \in HeldEntries /\ f.text = l.text /\ f.in = l.in /\ l.past \subseteq f.past
        /\ IF wins THEN f.at > clock ELSE f.at = Epoch
        /\ l.in # r.in => IF wins THEN f.moved > clock ELSE f.moved = Epoch
    <2>1. ForcedTo(f, l, r, wins, clock)
      BY <1>1, <1>4, ForcedIsWhole
    <2> QED
      BY <2>1 DEF ForcedTo
  <1>6. /\ g \in HeldEntries /\ g.text = r.text /\ g.in = r.in /\ r.past \subseteq g.past
        /\ IF loses THEN g.at > clock ELSE g.at = Epoch
        /\ r.in # l.in => IF loses THEN g.moved > clock ELSE g.moved = Epoch
    <2>1. ForcedTo(g, r, l, loses, clock)
      BY <1>1, <1>4, ForcedIsWhole
    <2> QED
      BY <2>1 DEF ForcedTo
  <1> HIDE DEF f, g
  <1>7. a \in EntryCopies /\ a.entry = f /\ a.grave = ours.grave
    BY <1>5 DEF EntryCopies
  <1>8. b \in EntryCopies /\ b.entry = g /\ b.grave = theirs.grave
    BY <1>6 DEF EntryCopies
  <1> HIDE DEF a, b
  <1>9. f.held /\ g.held
    BY <1>5, <1>6 DEF HeldEntries
  <1>10. ReadyFor(ready, ours, theirs)
    BY <1>3, <1>5, <1>6, <1>7, <1>8, <1>9 DEF ReadyFor, l, r
  <1> QED
    BY <1>3, <1>4, <1>5, <1>6, <1>7, <1>8, <1>10 DEF ready, wins

LEMMA HistoryPreserved ==
  ASSUME NEW ours \in EntryCopies, NEW theirs \in EntryCopies, BothHold(ours, theirs), NEW winner
  PROVE  LET ready == PreserveAutoResolvedHistory(ours, theirs, winner) IN
         /\ ReadyFor(ready, ours, theirs)
         /\ ready.ours.entry.at = ours.entry.at /\ ready.theirs.entry.at = theirs.entry.at
         /\ ready.ours.entry.moved = ours.entry.moved /\ ready.theirs.entry.moved = theirs.entry.moved
  <1> DEFINE More(c, o) == [c EXCEPT !.entry.past = @ \union {Version(o.entry)}]
             ready == PreserveAutoResolvedHistory(ours, theirs, winner)
  <1>1. ASSUME NEW c \in EntryCopies, NEW o \in EntryCopies, c.entry.held, o.entry.held
        PROVE  /\ More(c, o) \in EntryCopies /\ More(c, o).entry.held
               /\ More(c, o).grave = c.grave /\ More(c, o).entry.text = c.entry.text
               /\ More(c, o).entry.in = c.entry.in /\ c.entry.past \subseteq More(c, o).entry.past
               /\ More(c, o).entry.at = c.entry.at /\ More(c, o).entry.moved = c.entry.moved
    <2> DEFINE e == c.entry
               w == Version(o.entry)
               x == [e EXCEPT !.past = @ \union {w}]
    <2>1. e \in HeldEntries /\ o.entry \in HeldEntries
      BY <1>1, HoldingIsWhole
    <2>2. w \in Archive
      BY <2>1, VersionIsArchived
    <2> HIDE DEF w
    <2>3. /\ x \in HeldEntries /\ x.held /\ x.text = e.text /\ x.in = e.in /\ e.past \subseteq x.past
          /\ x.at = e.at /\ x.moved = e.moved
      BY <2>1, <2>2 DEF HeldEntries
    <2>4. More(c, o) = [c EXCEPT !.entry = x]
      BY <1>1 DEF w, EntryCopies
    <2> HIDE DEF x
    <2>5. More(c, o) \in EntryCopies /\ More(c, o).entry = x /\ More(c, o).grave = c.grave
      BY <1>1, <2>3, <2>4 DEF EntryCopies
    <2> QED
      BY <2>3, <2>5
  <1>2. /\ ready.ours = IF winner = "local" THEN More(ours, theirs) ELSE ours
        /\ ready.theirs = IF winner = "remote" THEN More(theirs, ours) ELSE theirs
    BY DEF PreserveAutoResolvedHistory
  <1> HIDE DEF More, ready
  <1>3. ours.entry.held /\ theirs.entry.held
    BY DEF BothHold
  <1> QED
    BY <1>1, <1>2, <1>3 DEF ReadyFor, ready

Chosen(ours, theirs, side) == IF side = "local" THEN ours.entry ELSE theirs.entry

\* A merge keeps all that either side ever said of an entry it does not delete,
\* an answer stands on both clocks, and answered merges go through.
LEMMA MergeIs ==
  ASSUME NEW ours \in EntryCopies, NEW theirs \in EntryCopies, NEW side \in Sides,
         NEW clock \in Nat, clock > 0
  PROVE  LET m == ApplyPicks(ours, theirs, side, clock) IN
         /\ m # Refused =>
              /\ m \in EntryCopies
              /\ m.entry.held =>
                   /\ ours.entry.held => Texts(ours.entry) \subseteq Texts(m.entry)
                   /\ theirs.entry.held => Texts(theirs.entry) \subseteq Texts(m.entry)
                   /\ InConflict(ours, theirs, clock) =>
                        /\ m.entry.text = Chosen(ours, theirs, side).text
                        /\ m.entry.in = Chosen(ours, theirs, side).in
         /\ IsLive(ours) /\ IsLive(theirs) /\ ours.grave = Epoch /\ theirs.grave = Epoch
            => m # Refused
  <1> DEFINE m == ApplyPicks(ours, theirs, side, clock)
             l == ours.entry
             r == theirs.entry
             harmless == WarningIsHarmless(ours, theirs)
             won == ContentWinner(ours, theirs, clock)
             ready == IF InConflict(ours, theirs, clock)
                      THEN ForceManualWinner(ours, theirs, side, clock)
                      ELSE IF IsLive(ours) /\ IsLive(theirs)
                      THEN PreserveAutoResolvedHistory(ours, theirs, won)
                      ELSE [ours |-> ours, theirs |-> theirs]
  <1>1. CASE ~BothHold(ours, theirs)
    <2> DEFINE e == IF l.held THEN l ELSE r
               tomb == Later(ours.grave, theirs.grave)
    <2>1. m = ForkDelete(e, tomb)
      BY <1>1 DEF ApplyPicks
    <2>2. e \in HeldEntries \union {NoEntry} /\ tomb \in Nat
      BY HoldingIsWhole, LaterIsOneOfThem DEF EntryCopies
    <2>3. (l.held => e = l) /\ (r.held => e = r)
      BY <1>1 DEF BothHold
    <2>4. ~(IsLive(ours) /\ IsLive(theirs)) /\ ~InConflict(ours, theirs, clock)
      BY <1>1 DEF InConflict, IsLive, BothHold
    <2> HIDE DEF e, tomb, m
    <2>5. m # Refused => m \in EntryCopies /\ (m.entry.held => m.entry = e)
      BY <2>1, <2>2, ForkDeleteIs
    <2> QED
      BY <2>3, <2>4, <2>5 DEF m
  <1>2. CASE BothHold(ours, theirs)
    <2>1. m = ForkMerge(ready.ours, ready.theirs, harmless, clock)
      BY <1>2 DEF ApplyPicks
    <2>2. ReadyFor(ready, ours, theirs)
      <3>1. CASE InConflict(ours, theirs, clock)
        BY <1>2, <3>1, AnswerForced
      <3>2. CASE ~InConflict(ours, theirs, clock) /\ IsLive(ours) /\ IsLive(theirs)
        BY <1>2, <3>2, HistoryPreserved
      <3>3. CASE ~InConflict(ours, theirs, clock) /\ ~(IsLive(ours) /\ IsLive(theirs))
        BY <1>2, <3>3 DEF ReadyFor, BothHold
      <3> QED
        BY <3>1, <3>2, <3>3
    <2> DEFINE a == ready.ours
               b == ready.theirs
               x == a.entry
               y == b.entry
    <2>3. /\ a \in EntryCopies /\ b \in EntryCopies /\ x.held /\ y.held
          /\ a.grave = ours.grave /\ b.grave = theirs.grave
          /\ x.text = l.text /\ y.text = r.text /\ x.in = l.in /\ y.in = r.in
          /\ l.past \subseteq x.past /\ r.past \subseteq y.past
      BY <2>2 DEF ReadyFor
    <2>4. InConflict(ours, theirs, clock) =>
            LET w == IF side = "local" THEN x ELSE y
                o == IF side = "local" THEN y ELSE x
            IN /\ w.at > clock /\ o.at = Epoch
               /\ w.in # o.in => w.moved > clock /\ o.moved = Epoch
      BY <1>2, AnswerForced
    <2>5. ~InConflict(ours, theirs, clock) =>
            x.at = l.at /\ y.at = r.at /\ x.moved = l.moved /\ y.moved = r.moved
      BY <1>2, HistoryPreserved
    <2> HIDE DEF ready, a, b, m
    <2>6. harmless \in BOOLEAN
      BY DEF WarningIsHarmless
    <2>7. x \in HeldEntries /\ y \in HeldEntries /\ l \in HeldEntries /\ r \in HeldEntries
      BY <1>2, <2>3, HoldingIsWhole DEF BothHold
    <2>8. Texts(l) \subseteq Texts(x) /\ Texts(r) \subseteq Texts(y)
      BY <2>3 DEF Texts
    <2>9. m = ForkMerge(a, b, harmless, clock)
      BY <2>1 DEF a, b
    <2> HIDE DEF harmless
    <2>10. /\ m # Refused =>
                /\ m \in EntryCopies
                /\ m.entry.held =>
                     /\ Texts(x) \subseteq Texts(m.entry) /\ Texts(y) \subseteq Texts(m.entry)
                     /\ (Undated \notin {x.at, y.at} =>
                           m.entry.text = IF y.at > x.at THEN y.text ELSE x.text)
                     /\ (x.in = y.in => m.entry.in = x.in)
                     /\ (x.in # y.in => m.entry.in = IF y.moved > x.moved THEN y.in ELSE x.in)
           /\ /\ (x.in # y.in => Undated \notin {x.moved, y.moved} /\ x.moved # y.moved)
              /\ (Undated \notin {x.at, y.at} => x.at # y.at \/ x.text = y.text)
              /\ (Undated \in {x.at, y.at} => harmless)
              /\ a.grave = Epoch /\ b.grave = Epoch
              => m # Refused
      <3>1. ForkMerged(m, a, b, harmless)
        BY <2>3, <2>6, <2>9, ForkMergeIs
      <3> QED
        BY <3>1 DEF ForkMerged
    <2>11. /\ x.at \in Stamps /\ y.at \in Stamps /\ x.moved \in Stamps /\ y.moved \in Stamps
           /\ l.at \in Stamps /\ r.at \in Stamps /\ l.moved \in Stamps /\ r.moved \in Stamps
      BY <2>7 DEF HeldEntries
    <2>12. InConflict(ours, theirs, clock) =>
             /\ Undated \notin {x.at, y.at} /\ x.at # y.at /\ (y.at > x.at <=> side = "remote")
             /\ x.in # y.in => /\ Undated \notin {x.moved, y.moved} /\ x.moved # y.moved
                               /\ (y.moved > x.moved <=> side = "remote")
      BY <2>4, <2>11 DEF Sides, Stamps, Undated, Epoch
    <2>13. ASSUME IsLive(ours), IsLive(theirs), ~InConflict(ours, theirs, clock)
           PROVE  /\ (l.in # r.in => Undated \notin {l.moved, r.moved} /\ l.moved # r.moved)
                  /\ (Undated \notin {l.at, r.at} => l.at # r.at \/ l.text = r.text)
                  /\ (Undated \in {l.at, r.at} => harmless)
      <3>1. /\ ContentWinner(ours, theirs, clock) # "nobody"
            /\ LocationWinner(ours, theirs, clock) # "nobody"
        BY <2>13 DEF InConflict
      <3>2. l.text # r.text => Undated \notin {l.at, r.at} /\ l.at # r.at
        BY <3>1 DEF ContentWinner, TimestampWinner
      <3>3. l.in # r.in => Undated \notin {l.moved, r.moved} /\ l.moved # r.moved
        BY <3>1 DEF LocationWinner, TimestampWinner
      <3>4. Undated \in {l.at, r.at} => harmless
        BY <3>2, <3>3 DEF harmless, WarningIsHarmless
      <3> QED
        BY <3>2, <3>3, <3>4
    <2>14. IsLive(ours) /\ IsLive(theirs) /\ ours.grave = Epoch /\ theirs.grave = Epoch
           => m # Refused
      <3>1. CASE InConflict(ours, theirs, clock)
        BY <2>3, <2>10, <2>12, <3>1
      <3>2. CASE ~InConflict(ours, theirs, clock)
        BY <2>3, <2>5, <2>10, <2>13, <3>2
      <3> QED
        BY <3>1, <3>2
    <2>15. ASSUME InConflict(ours, theirs, clock), m # Refused, m.entry.held
           PROVE  /\ m.entry.text = Chosen(ours, theirs, side).text
                  /\ m.entry.in = Chosen(ours, theirs, side).in
      <3>1. m.entry.text = IF side = "remote" THEN r.text ELSE l.text
        BY <2>3, <2>10, <2>12, <2>15
      <3>2. m.entry.in = IF side = "remote" THEN r.in ELSE l.in
        BY <2>3, <2>10, <2>12, <2>15
      <3> QED
        BY <3>1, <3>2 DEF Chosen, Sides
    <2> QED
      BY <2>8, <2>10, <2>14, <2>15 DEF m
  <1> QED
    BY <1>1, <1>2

-----------------------------------------------------------------------------
(* One entry: the steps.                                                   *)

LEMMA CloudIsNoDevice == Cloud \notin Devices
  BY MergeEntryConstants DEF Cloud

LEMMA EntryInitial == EntryInit => EntryInv
  <1> SUFFICES ASSUME EntryInit PROVE EntryInv
    OBVIOUS
  <1> DEFINE g == CHOOSE g \in Places : TRUE
  <1>1. PICK stamp \in {Undated, 1, FarFuture}, movedAt \in {Undated, 1, FarFuture} :
          copy = [c \in Devices \union {Cloud} |->
                   [entry |-> [held |-> TRUE, text |-> 0, at |-> stamp, in |-> g,
                               moved |-> movedAt, past |-> {}],
                    grave |-> Epoch]]
    BY DEF EntryInit
  <1>0. g \in Places
    BY MergeEntryConstants
  <1> HIDE DEF g
  <1> DEFINE e == [held |-> TRUE, text |-> 0, at |-> stamp, in |-> g, moved |-> movedAt, past |-> {}]
             c == [entry |-> e, grave |-> Epoch]
  <1>2. e \in HeldEntries
    BY <1>0, MergeEntryConstants DEF HeldEntries, Stamps, Wordings, FarFuture, Undated
  <1>3. c \in EntryCopies
    BY <1>2 DEF EntryCopies, Epoch
  <1>4. copy = [d \in Devices \union {Cloud} |-> c]
    BY <1>1
  <1> HIDE DEF c
  <1>5. copy \in [Devices \union {Cloud} -> EntryCopies]
    BY <1>3, <1>4
  <1>6. \A d \in Devices : copy[d] = copy[Cloud]
    BY <1>4
  <1>7. behind = {} /\ touched = {} /\ now = Start /\ ops = 0
    BY DEF EntryInit
  <1> QED
    BY <1>5, <1>6, <1>7, MergeEntryConstants DEF EntryInv, Start

\* A change on one device, to a copy that is whole and keeps what it said.
LEMMA Mutated ==
  ASSUME EntryInv, NEW d \in Devices, NEW c \in EntryCopies, Mutate(d, c),
         copy[d].entry.held /\ c.entry.held => Texts(copy[d].entry) \subseteq Texts(c.entry),
         c.entry.held => copy[d].entry.held
  PROVE  EntryInv' /\ NothingLost
  <1>1. /\ copy' = [copy EXCEPT ![d] = c] /\ ops' = ops + 1 /\ ops < MaxOps
        /\ behind' = behind /\ now' = now /\ touched' = touched \union {d}
    BY DEF Mutate
  <1>2. /\ copy' \in [Devices \union {Cloud} -> EntryCopies] /\ copy'[d] = c
        /\ \A x \in (Devices \union {Cloud}) \ {d} : copy'[x] = copy[x]
    BY <1>1 DEF EntryInv
  <1>3. NothingLost
    BY <1>2 DEF NothingLost
  <1>4. copy'[Cloud] = copy[Cloud]
    BY <1>2, CloudIsNoDevice
  <1>5. ASSUME NEW x \in Devices \ behind', copy'[x].entry.held, copy'[Cloud].entry.held
        PROVE  Texts(copy'[Cloud].entry) \subseteq Texts(copy'[x].entry)
    BY <1>1, <1>2, <1>4, <1>5 DEF EntryInv
  <1>6. ops' \in 0..MaxOps
    BY <1>1, MergeEntryConstants DEF EntryInv
  <1> QED
    BY <1>1, <1>2, <1>3, <1>5, <1>6 DEF EntryInv

\* A copy whose entry says something new, or is somewhere else, with the old version archived.
LEMMA Rewritten ==
  ASSUME EntryInv, NEW d \in Devices, copy[d].entry.held, NEW text \in Wordings, NEW stamp \in Stamps,
         NEW place \in Places \union {"bin"}, NEW movedAt \in Stamps
  PROVE  LET e == copy[d].entry
             f == [e EXCEPT !.text = text, !.at = stamp, !.in = place, !.moved = movedAt,
                            !.past = @ \union {Version(e)}]
             c == [copy[d] EXCEPT !.entry = f]
         IN /\ c \in EntryCopies /\ c.entry.held /\ Texts(e) \subseteq Texts(c.entry)
            /\ c.entry = f /\ c.grave = copy[d].grave
  <1> DEFINE e == copy[d].entry
             w == Version(e)
             f == [e EXCEPT !.text = text, !.at = stamp, !.in = place, !.moved = movedAt,
                            !.past = @ \union {w}]
             c == [copy[d] EXCEPT !.entry = f]
  <1>1. copy[d] \in EntryCopies
    BY DEF EntryInv
  <1>2. e \in HeldEntries
    BY <1>1, HoldingIsWhole
  <1>3. w \in Archive /\ w.text = e.text
    BY <1>2, VersionIsArchived
  <1> HIDE DEF w
  <1>4. f \in HeldEntries /\ f.past = e.past \union {w} /\ f.held
    BY <1>2, <1>3 DEF HeldEntries
  <1>5. Texts(e) \subseteq Texts(f)
    BY <1>3, <1>4 DEF Texts
  <1> HIDE DEF f
  <1>6. c \in EntryCopies /\ c.entry = f /\ c.grave = copy[d].grave
    BY <1>1, <1>4 DEF EntryCopies
  <1> QED
    BY <1>4, <1>5, <1>6 DEF f, w

LEMMA StampsOfHeld ==
  ASSUME EntryInv, NEW d \in Devices, copy[d].entry.held
  PROVE  /\ copy[d] \in EntryCopies /\ copy[d].entry \in HeldEntries
         /\ copy[d].entry.at \in Stamps /\ copy[d].entry.moved \in Stamps
         /\ copy[d].entry.in \in Places \union {"bin"} /\ copy[d].entry.text \in Wordings
         /\ \A p \in Stamps : NextChangeTime(p, ClockOf(d)) \in Nat
  <1>1. copy[d] \in EntryCopies /\ copy[d].entry \in HeldEntries
    BY HoldingIsWhole DEF EntryInv
  <1>2. ClockOf(d) \in Nat
    BY ClocksAreNatural DEF EntryInv
  <1> QED
    BY <1>1, <1>2, NextChangeIsAStamp DEF HeldEntries

LEMMA Updating ==
  ASSUME EntryInv, NEW d \in Devices, UpdateEntry(d)
  PROVE  EntryInv' /\ NothingLost
  <1> DEFINE e == copy[d].entry
             text == ops + 1
             stamp == NextChangeTime(e.at, ClockOf(d))
             c == [copy[d] EXCEPT !.entry.text = text, !.entry.at = stamp,
                                  !.entry.past = @ \union {Version(e)}]
  <1>1. e.held /\ Mutate(d, c)
    BY DEF UpdateEntry
  <1>2. /\ copy[d] \in EntryCopies /\ e \in HeldEntries /\ stamp \in Stamps
        /\ e.in \in Places \union {"bin"} /\ e.moved \in Stamps
    BY <1>1, StampsOfHeld DEF Stamps
  <1>3. text \in Wordings
    <2>1. ops < MaxOps /\ ops \in 0..MaxOps
      BY <1>1 DEF Mutate, EntryInv
    <2> QED
      BY <2>1, MergeEntryConstants DEF Wordings
  <1> HIDE DEF text, stamp
  <1>4. c = [copy[d] EXCEPT !.entry = [e EXCEPT !.text = text, !.at = stamp, !.in = e.in,
                                                !.moved = e.moved, !.past = @ \union {Version(e)}]]
    BY <1>2 DEF EntryCopies, HeldEntries
  <1> DEFINE place == e.in
             movedAt == e.moved
  <1>5. place \in Places \union {"bin"} /\ movedAt \in Stamps
    BY <1>2
  <1>6. c \in EntryCopies /\ c.entry.held /\ Texts(e) \subseteq Texts(c.entry)
    <2>1. c = [copy[d] EXCEPT !.entry = [e EXCEPT !.text = text, !.at = stamp, !.in = place,
                                                  !.moved = movedAt, !.past = @ \union {Version(e)}]]
      BY <1>4
    <2> HIDE DEF c, place, movedAt
    <2> QED
      BY <1>1, <1>2, <1>3, <1>5, <2>1, Rewritten
  <1> HIDE DEF c
  <1> QED
    BY <1>1, <1>6, Mutated

LEMMA Relocating ==
  ASSUME EntryInv, NEW d \in Devices, copy[d].entry.held,
         NEW g \in Places \union {"bin"}, Relocate(d, g)
  PROVE  EntryInv' /\ NothingLost
  <1> DEFINE e == copy[d].entry
             last == Later(e.at, e.moved)
             stamp == NextChangeTime(last, ClockOf(d))
             text == e.text
             c == [copy[d] EXCEPT !.entry.in = g, !.entry.at = stamp, !.entry.moved = stamp,
                                  !.entry.past = @ \union {Version(e)}]
  <1>1. Mutate(d, c)
    BY DEF Relocate
  <1>2. /\ copy[d] \in EntryCopies /\ e \in HeldEntries /\ text \in Wordings
        /\ e.at \in Stamps /\ e.moved \in Stamps
        /\ \A p \in Stamps : NextChangeTime(p, ClockOf(d)) \in Nat
    BY StampsOfHeld
  <1>3. last \in Stamps
    BY <1>2, LaterStamp
  <1>4. stamp \in Stamps
    BY <1>2, <1>3 DEF Stamps
  <1> HIDE DEF last, stamp
  <1>5. c = [copy[d] EXCEPT !.entry = [e EXCEPT !.text = text, !.at = stamp, !.in = g, !.moved = stamp,
                                                !.past = @ \union {Version(e)}]]
    BY <1>2 DEF EntryCopies, HeldEntries
  <1>6. c \in EntryCopies /\ c.entry.held /\ Texts(e) \subseteq Texts(c.entry)
    <2> HIDE DEF c, text
    <2> QED
      BY <1>2, <1>4, <1>5, Rewritten
  <1> HIDE DEF c
  <1> QED
    BY <1>1, <1>6, Mutated

LEMMA Burying ==
  ASSUME EntryInv, NEW d \in Devices, DeleteEntryPermanent(d)
  PROVE  EntryInv' /\ NothingLost
  <1> DEFINE e == copy[d].entry
             last == Later(e.at, e.moved)
             tomb == NextChangeTime(last, ClockOf(d))
             c == [entry |-> NoEntry, grave |-> tomb]
  <1>1. e.held /\ Mutate(d, c)
    BY DEF DeleteEntryPermanent
  <1>2. last \in Stamps
    BY <1>1, StampsOfHeld, LaterStamp
  <1>3. tomb \in Nat
    BY <1>1, <1>2, StampsOfHeld
  <1> HIDE DEF tomb
  <1>4. c \in EntryCopies /\ ~c.entry.held
    BY <1>3 DEF EntryCopies, NoEntry
  <1> HIDE DEF c
  <1> QED
    BY <1>1, <1>4, Mutated

LEMMA UploadingCopy ==
  ASSUME EntryInv, NEW d \in Devices, Upload(d)
  PROVE  EntryInv' /\ NothingLost
  <1>1. /\ copy' = [copy EXCEPT ![Cloud] = copy[d]] /\ behind' = Devices \ {d} /\ d \notin behind
        /\ touched' = touched \ {d} /\ now' = now /\ ops' = ops
    BY DEF Upload
  <1>2. /\ copy' \in [Devices \union {Cloud} -> EntryCopies] /\ copy'[Cloud] = copy[d]
        /\ \A x \in Devices : copy'[x] = copy[x]
    BY <1>1, CloudIsNoDevice DEF EntryInv
  <1>3. NothingLost
    BY <1>1, <1>2 DEF NothingLost, EntryInv
  <1> QED
    BY <1>1, <1>2, <1>3 DEF EntryInv

LEMMA MergingCopies ==
  ASSUME EntryInv, NEW d \in Devices, Merge(d)
  PROVE  EntryInv' /\ NothingLost
  <1>1. PICK side \in IF Ask(d) THEN Sides ELSE {"local"} :
          LET merged == Outcome(d, side)
              cloudNow == IF Contributes(d) THEN merged ELSE copy[Cloud]
          IN /\ merged # Refused
             /\ copy' = [copy EXCEPT ![d] = merged, ![Cloud] = cloudNow]
             /\ touched' = IF merged = cloudNow THEN touched \ {d} ELSE touched
             /\ behind' = IF Contributes(d) THEN Devices \ {d} ELSE behind \ {d}
    BY DEF Merge
  <1> DEFINE ours == copy[d]
             theirs == copy[Cloud]
             clock == ClockOf(d)
             merged == Outcome(d, side)
             cloudNow == IF Contributes(d) THEN merged ELSE theirs
  <1>2. /\ merged # Refused /\ copy' = [copy EXCEPT ![d] = merged, ![Cloud] = cloudNow]
        /\ touched' \subseteq Devices /\ now' = now /\ ops' = ops
        /\ behind' = IF Contributes(d) THEN Devices \ {d} ELSE behind \ {d}
    BY <1>1 DEF Merge, EntryInv
  <1>3. /\ ours \in EntryCopies /\ theirs \in EntryCopies /\ side \in Sides
        /\ clock \in Nat /\ clock > 0
    BY ClocksAreNatural DEF EntryInv, Sides
  <1>4. merged = ApplyPicks(ours, theirs, side, clock)
    BY DEF Outcome
  <1> HIDE DEF merged, ours, theirs, clock
  <1>5. /\ merged \in EntryCopies
        /\ merged.entry.held =>
             /\ ours.entry.held => Texts(ours.entry) \subseteq Texts(merged.entry)
             /\ theirs.entry.held => Texts(theirs.entry) \subseteq Texts(merged.entry)
    BY <1>2, <1>3, <1>4, MergeIs
  <1>6. cloudNow \in EntryCopies /\ (cloudNow = merged \/ cloudNow = theirs)
    BY <1>3, <1>5
  <1>7. Contributes(d) => cloudNow = merged
    OBVIOUS
  <1> HIDE DEF cloudNow
  <1>8. /\ copy' \in [Devices \union {Cloud} -> EntryCopies]
        /\ copy'[d] = merged /\ copy'[Cloud] = cloudNow
        /\ \A x \in Devices \ {d} : copy'[x] = copy[x]
    BY <1>2, <1>5, <1>6, CloudIsNoDevice DEF EntryInv
  <1>9. NothingLost
    <2> SUFFICES ASSUME NEW c \in Devices \union {Cloud}, copy[c].entry.held, copy'[c].entry.held
                 PROVE  Texts(copy[c].entry) \subseteq Texts(copy'[c].entry)
      BY DEF NothingLost
    <2>1. CASE c = d
      BY <1>5, <1>8, <2>1 DEF ours
    <2>2. CASE c = Cloud
      BY <1>5, <1>6, <1>8, <2>2 DEF theirs
    <2>3. CASE c \in Devices \ {d}
      BY <1>8, <2>3
    <2> QED
      BY <2>1, <2>2, <2>3
  <1>10. ASSUME NEW x \in Devices \ behind', copy'[x].entry.held, copy'[Cloud].entry.held
         PROVE  Texts(copy'[Cloud].entry) \subseteq Texts(copy'[x].entry)
    <2>1. CASE x = d
      BY <1>5, <1>6, <1>8, <1>10, <2>1
    <2>2. CASE x # d
      <3>1. ~Contributes(d) /\ x \notin behind
        BY <1>2, <2>2
      <3>2. copy'[x] = copy[x]
        BY <1>8, <2>2
      <3>3. copy'[Cloud] = theirs
        BY <1>8, <3>1 DEF cloudNow
      <3> QED
        BY <1>10, <3>1, <3>2, <3>3 DEF EntryInv, theirs
    <2> QED
      BY <2>1, <2>2
  <1> QED
    BY <1>2, <1>8, <1>9, <1>10 DEF EntryInv

LEMMA EntrySteps ==
  ASSUME EntryInv, [EntryNext]_entryVars
  PROVE  EntryInv' /\ [NothingLost]_entryVars
  <1>1. CASE UNCHANGED entryVars
    <2>1. /\ copy' = copy /\ behind' = behind /\ now' = now /\ ops' = ops /\ touched' = touched
      BY <1>1 DEF entryVars
    <2> QED
      BY <1>1, <2>1 DEF EntryInv
  <1>2. ASSUME NEW d \in Devices, UpdateEntry(d)
        PROVE  EntryInv' /\ NothingLost
    BY <1>2, Updating
  <1>3. ASSUME NEW d \in Devices, DeleteEntry(d)
        PROVE  EntryInv' /\ NothingLost
    BY <1>3, Relocating DEF DeleteEntry, IsLive
  <1>4. ASSUME NEW d \in Devices, RestoreEntry(d)
        PROVE  EntryInv' /\ NothingLost
    BY <1>4, Relocating DEF RestoreEntry
  <1>5. ASSUME NEW d \in Devices, NEW g \in Places, MoveEntry(d, g)
        PROVE  EntryInv' /\ NothingLost
    BY <1>5, Relocating DEF MoveEntry, IsLive
  <1>6. ASSUME NEW d \in Devices, DeleteEntryPermanent(d)
        PROVE  EntryInv' /\ NothingLost
    BY <1>6, Burying
  <1>7. ASSUME NEW d \in Devices, Upload(d)
        PROVE  EntryInv' /\ NothingLost
    BY <1>7, UploadingCopy
  <1>8. ASSUME NEW d \in Devices, Merge(d)
        PROVE  EntryInv' /\ NothingLost
    BY <1>8, MergingCopies
  <1>9. Tick => EntryInv' /\ NothingLost
    <2> SUFFICES ASSUME Tick PROVE EntryInv' /\ NothingLost
      OBVIOUS
    <2>1. /\ copy' = copy /\ behind' = behind /\ ops' = ops /\ touched' = touched
          /\ now' = now + 1 /\ now < Start + MaxTicks
      BY DEF Tick
    <2>2. now' \in Start..(Start + MaxTicks)
      BY <2>1, MergeEntryConstants DEF EntryInv, Start
    <2> QED
      BY <2>1, <2>2 DEF EntryInv, NothingLost
  <1> QED
    BY <1>1, <1>2, <1>3, <1>4, <1>5, <1>6, <1>7, <1>8, <1>9 DEF EntryNext

LEMMA EntryIsWhole == EntryInv => EntryTypeOK
  <1> SUFFICES ASSUME EntryInv PROVE EntryTypeOK
    OBVIOUS
  <1>1. ASSUME NEW c \in Devices \union {Cloud}
        PROVE  /\ copy[c].grave \in Nat
               /\ copy[c].entry.held => copy[c].entry \in HeldEntries
    BY HoldingIsWhole DEF EntryInv
  <1>2. \A e \in HeldEntries :
          /\ e.text \in 0..MaxOps /\ e.in \in Places \union {"bin"}
          /\ \A v \in e.past : v.text \in 0..MaxOps /\ v.at \in Nat \union {Undated}
          /\ {e.at, e.moved} \subseteq Nat \union {Undated}
    BY DEF HeldEntries, Archive, Wordings, Stamps
  <1> QED
    BY <1>1, <1>2 DEF EntryInv, EntryTypeOK

\* An answer once given stands: the merge it was given for goes through, with the text and the
\* place the user picked.
LEMMA AnswersGoThrough == EntryInv => AnsweredMergeSucceeds /\ PickStands
  <1> SUFFICES ASSUME EntryInv PROVE AnsweredMergeSucceeds /\ PickStands
    OBVIOUS
  <1>1. ASSUME NEW d \in Devices, NEW side \in Sides
        PROVE  LET m == Outcome(d, side) IN
               /\ m # Refused /\ m.entry.held /\ InConflict(copy[d], copy[Cloud], ClockOf(d)) =>
                    /\ m.entry.text = Chosen(copy[d], copy[Cloud], side).text
                    /\ m.entry.in = Chosen(copy[d], copy[Cloud], side).in
               /\ IsLive(copy[d]) /\ IsLive(copy[Cloud])
                  /\ copy[d].grave = Epoch /\ copy[Cloud].grave = Epoch
                  => m # Refused
    <2> DEFINE ours == copy[d]
               theirs == copy[Cloud]
               clock == ClockOf(d)
               m == Outcome(d, side)
    <2>1. ours \in EntryCopies /\ theirs \in EntryCopies /\ clock \in Nat /\ clock > 0
      BY ClocksAreNatural DEF EntryInv
    <2>2. m = ApplyPicks(ours, theirs, side, clock)
      BY DEF Outcome
    <2> HIDE DEF m, ours, theirs, clock
    <2>3. /\ m # Refused /\ m.entry.held /\ InConflict(ours, theirs, clock) =>
               /\ m.entry.text = Chosen(ours, theirs, side).text
               /\ m.entry.in = Chosen(ours, theirs, side).in
          /\ IsLive(ours) /\ IsLive(theirs) /\ ours.grave = Epoch /\ theirs.grave = Epoch
             => m # Refused
      BY <2>1, <2>2, MergeIs
    <2> QED
      BY <2>3 DEF m, ours, theirs, clock
  <1>2. AnsweredMergeSucceeds
    BY <1>1 DEF AnsweredMergeSucceeds, EntryInv
  <1>3. PickStands
    BY <1>1 DEF PickStands, Ask, Chosen
  <1> QED
    BY <1>2, <1>3

LEMMA EntriesHold ==
  EntrySpec => NothingForgotten /\ [](EntryTypeOK /\ AnsweredMergeSucceeds /\ PickStands)
  <1>1. EntryInv /\ [EntryNext]_entryVars => EntryInv' /\ [NothingLost]_entryVars
    BY EntrySteps
  <1> QED
    BY <1>1, EntryInitial, EntryIsWhole, AnswersGoThrough, PTL
    DEF EntrySpec, NothingForgotten, NothingLost

-----------------------------------------------------------------------------
(* One entry on two devices: copies in order.                              *)

\* y is x, or was made by someone who knew x: what differs is newer in y, and what
\* y does not hold any more was deleted after x.
Succeeds(x, y) ==
  /\ x.grave <= y.grave
  /\ x.entry.held /\ y.entry.held =>
       /\ x.entry.at <= y.entry.at
       /\ x.entry.text = y.entry.text \/ x.entry.at < y.entry.at
       /\ x.entry.in = y.entry.in \/ x.entry.moved < y.entry.moved
  /\ x.entry.held /\ ~y.entry.held => x.entry.at <= y.grave

\* An entry is never newer in its place than in what it says, and is newer than any
\* deletion it survived.
Sound(c) ==
  c.entry.held =>
    /\ c.entry.at \in Nat /\ c.entry.moved \in Nat
    /\ c.entry.moved <= c.entry.at /\ c.grave < c.entry.at

Believed(c, clock) == c.entry.held => c.entry.at <= clock + MaxClockSkew

\* The version that gives way, where the two say different things.
Loser(l, r) == Version(IF r.at > l.at THEN l ELSE r)
Archived(v, l, r) == v \in l.past \union r.past \/ (l.text # r.text /\ v = Loser(l, r))

\* What the fork makes of two entries that their stamps rank.
Joined(m, l, r) ==
  /\ m.at = IF r.at > l.at THEN r.at ELSE l.at
  /\ m.text = IF r.at > l.at THEN r.text ELSE l.text
  /\ l.in = r.in => m.in = l.in /\ m.moved = IF r.at > l.at THEN r.moved ELSE l.moved
  /\ l.in # r.in => IF r.moved > l.moved THEN m.in = r.in /\ m.moved = r.moved
                    ELSE m.in = l.in /\ m.moved = l.moved
  /\ r.past \subseteq m.past
  /\ \A v \in m.past : Archived(v, l, r)

Ranked(l, r) == (l.at = r.at => l.text = r.text) /\ (l.in # r.in => l.moved # r.moved)

Joint(m, ours, theirs) ==
  /\ m # Refused <=> Ranked(ours.entry, theirs.entry)
  /\ m # Refused =>
       /\ m \in EntryCopies /\ m.grave = Later(ours.grave, theirs.grave)
       /\ m.entry.held <=> ours.entry.at > m.grave \/ theirs.entry.at > m.grave
       /\ m.entry.held => Joined(m.entry, ours.entry, theirs.entry)

LEMMA EntryIsTyped ==
  ASSUME NEW c \in EntryCopies
  PROVE  /\ c.grave \in Nat /\ c.entry.held \in BOOLEAN
         /\ c.entry.held => /\ c.entry \in HeldEntries
                            /\ c.entry.at \in Stamps /\ c.entry.moved \in Stamps
                            /\ c.entry.in \in Places \union {"bin"}
                            /\ c.entry.text \in Wordings /\ c.entry.past \subseteq Archive
  BY HoldingIsWhole DEF HeldEntries

\* A deletion takes the entry where it is not older than it.
LEMMA ForkDeletes ==
  ASSUME NEW e \in HeldEntries \union {NoEntry}, NEW tomb \in Nat,
         e.held => e.at \in Nat /\ e.at > 0
  PROVE  LET m == ForkDelete(e, tomb) IN
         /\ m # Refused /\ m \in EntryCopies /\ m.grave = tomb
         /\ m.entry.held <=> e.held /\ e.at > tomb
         /\ m.entry.held => m.entry = e
  <1> DEFINE kept == IF e.held /\ tomb # Epoch /\ e.at <= tomb THEN NoEntry ELSE e
             m == [entry |-> kept, grave |-> tomb]
  <1>1. e.held => e.at # Undated
    BY DEF Undated
  <1>2. ForkDelete(e, tomb) = m
    BY <1>1 DEF ForkDelete
  <1>3. NoEntry.held = FALSE /\ (e.held \/ e = NoEntry)
    BY DEF NoEntry, HeldEntries
  <1>4. /\ kept \in HeldEntries \union {NoEntry}
        /\ kept.held <=> e.held /\ e.at > tomb
        /\ kept.held => kept = e
    <2>1. CASE e.held /\ tomb # Epoch /\ e.at <= tomb
      BY <1>3, <2>1
    <2>2. CASE ~(e.held /\ tomb # Epoch /\ e.at <= tomb)
      <3>1. kept = e
        BY <2>2
      <3>2. e.held => e.at > tomb
        BY <2>2 DEF Epoch
      <3> QED
        BY <1>3, <3>1, <3>2
    <2> QED
      BY <2>1, <2>2
  <1> HIDE DEF kept
  <1>5. m \in EntryCopies /\ m.entry = kept /\ m.grave = tomb
    BY <1>4 DEF EntryCopies
  <1> QED
    BY <1>2, <1>4, <1>5, RefusedIsNoCopy

LEMMA LaterIs ==
  ASSUME NEW a \in Nat, NEW b \in Nat
  PROVE  /\ Later(a, b) \in Nat /\ Later(a, b) >= a /\ Later(a, b) >= b
         /\ Later(a, b) = a \/ Later(a, b) = b
  BY DEF Later

LEMMA ForkJoins ==
  ASSUME NEW ours \in EntryCopies, NEW theirs \in EntryCopies,
         ours.entry.held, theirs.entry.held, NEW harmless \in BOOLEAN, NEW clock \in Nat,
         ours.entry.at \in Nat, theirs.entry.at \in Nat,
         ours.entry.moved \in Nat, theirs.entry.moved \in Nat,
         ours.entry.at > 0 \/ theirs.entry.at > 0
  PROVE  Joint(ForkMerge(ours, theirs, harmless, clock), ours, theirs)
  <1> DEFINE l == ours.entry
             r == theirs.entry
             undated == Undated \in {l.at, r.at}
             remoteNewer == IF undated THEN l.at = Undated /\ r.at > clock ELSE r.at > l.at
             newer == IF remoteNewer THEN r ELSE l
             older == IF remoteNewer THEN l ELSE r
             placedBy == IF l.in = r.in THEN newer ELSE IF r.moved > l.moved THEN r ELSE l
             archive == l.past \union r.past \union (IF l.text = r.text THEN {} ELSE {Version(older)})
             e == [newer EXCEPT !.in = placedBy.in, !.moved = placedBy.moved, !.past = archive]
             tomb == Later(ours.grave, theirs.grave)
             blocked == \/ l.in # r.in /\ (Undated \in {l.moved, r.moved} \/ l.moved = r.moved)
                        \/ ~undated /\ l.at = r.at /\ l.text # r.text
                        \/ undated /\ ~harmless
             m == ForkMerge(ours, theirs, harmless, clock)
  <1>1. m = IF blocked THEN Refused ELSE ForkDelete(e, tomb)
    BY DEF ForkMerge
  <1>2. l \in HeldEntries /\ r \in HeldEntries /\ tomb \in Nat
    BY HoldingIsWhole, LaterIsOneOfThem
  <1>3. ~undated /\ Undated \notin {l.moved, r.moved}
    BY DEF Undated
  <1>4. remoteNewer <=> r.at > l.at
    BY <1>3
  <1>5. blocked <=> ~Ranked(l, r)
    BY <1>3 DEF Ranked
  <1> HIDE DEF remoteNewer, m, blocked, tomb, undated
  <1>6. newer \in HeldEntries /\ older \in HeldEntries
    BY <1>2
  <1>7. newer.at = (IF r.at > l.at THEN r.at ELSE l.at) /\ newer.text = (IF r.at > l.at THEN r.text ELSE l.text)
        /\ newer.moved = (IF r.at > l.at THEN r.moved ELSE l.moved)
    BY <1>4
  <1>8. Version(older) \in Archive
    BY <1>6, VersionIsArchived
  <1>9. placedBy \in HeldEntries
    BY <1>2, <1>6
  <1>10. /\ l.in = r.in => placedBy.in = l.in /\ placedBy.moved = newer.moved
         /\ l.in # r.in => IF r.moved > l.moved THEN placedBy.in = r.in /\ placedBy.moved = r.moved
                           ELSE placedBy.in = l.in /\ placedBy.moved = l.moved
    BY DEF newer
  <1> HIDE DEF placedBy
  <1>11. archive \in SUBSET Archive /\ r.past \subseteq archive
    BY <1>2, <1>8 DEF HeldEntries
  <1>12. \A v \in archive : Archived(v, l, r)
    <2>1. Version(older) = Loser(l, r)
      BY <1>4 DEF Loser
    <2> HIDE DEF older
    <2> QED
      BY <2>1 DEF Archived
  <1> HIDE DEF archive, newer, older
  <1>13. /\ e \in HeldEntries /\ e.text = newer.text /\ e.at = newer.at /\ e.in = placedBy.in
         /\ e.moved = placedBy.moved /\ e.past = archive /\ e.held
    BY <1>6, <1>9, <1>11 DEF HeldEntries
  <1> HIDE DEF e
  <1>14. Joined(e, l, r)
    BY <1>7, <1>10, <1>11, <1>13, <1>12 DEF Joined
  <1>15. e.at \in Nat /\ e.at > 0
    BY <1>7, <1>13
  <1>16. LET f == ForkDelete(e, tomb) IN
         /\ f # Refused /\ f \in EntryCopies /\ f.grave = tomb
         /\ f.entry.held <=> e.at > tomb
         /\ f.entry.held => f.entry = e
    BY <1>2, <1>13, <1>15, ForkDeletes
  <1>17. e.at > tomb <=> l.at > tomb \/ r.at > tomb
    BY <1>2, <1>7, <1>13
  <1>18. Joint(m, ours, theirs)
    BY <1>1, <1>5, <1>14, <1>16, <1>17 DEF tomb, Joint
  <1> QED
    BY <1>18 DEF m

-----------------------------------------------------------------------------
(* One entry on two devices: an answer.                                    *)

\* The stamp of an answer is one more than the latest of the two stamps and the clock.
LEMMA ResolutionIs ==
  ASSUME NEW a \in Nat, NEW b \in Nat, NEW clock \in Nat,
         a <= clock + MaxClockSkew, b <= clock + MaxClockSkew
  PROVE  LET t == ResolutionTime({a, b}, clock) - 1 IN
         /\ ResolutionTime({a, b}, clock) \in Nat
         /\ a <= t /\ b <= t /\ clock <= t /\ t \in {a, b, clock}
  <1> DEFINE believed == {s \in {a, b} : s # Undated /\ ~IsFutureDated(s, clock)} \union {clock}
             x == IF a > clock THEN a ELSE clock
             top == IF b > x THEN b ELSE x
             t == CHOOSE t \in believed : \A s \in believed : s <= t
  <1>1. believed = {a, b, clock}
    <2>1. \A s \in {a, b} : s # Undated /\ ~IsFutureDated(s, clock)
      BY DEF Undated, IsFutureDated, MaxClockSkew
    <2> QED
      BY <2>1
  <1> HIDE DEF believed
  <1>2. x \in {a, clock} /\ a <= x /\ clock <= x
    OBVIOUS
  <1> HIDE DEF x
  <1>3. top \in {b, x} /\ b <= top /\ x <= top
    BY <1>2
  <1> HIDE DEF top
  <1>4. top \in believed /\ \A s \in believed : s <= top
    BY <1>1, <1>2, <1>3
  <1>5. t \in believed /\ \A s \in believed : s <= t
    BY <1>4
  <1>6. ResolutionTime({a, b}, clock) = t + 1
    BY DEF ResolutionTime, believed
  <1> HIDE DEF t
  <1> QED
    BY <1>1, <1>5, <1>6

\* An answer forced on one of two entries, to the second.
ForcedBy(f, e, o, wins, clock) ==
  /\ f \in HeldEntries /\ f.held /\ f.text = e.text /\ f.in = e.in
  /\ f.past \subseteq e.past \union {Version(o)}
  /\ wins => f.at = ResolutionTime({e.at, o.at}, clock)
  /\ ~wins => f.at = 0
  /\ e.moved = o.moved /\ e.in = o.in => f.moved = e.moved
  /\ (e.moved # o.moved \/ e.in # o.in) /\ wins => f.moved = ResolutionTime({e.moved, o.moved}, clock)
  /\ (e.moved # o.moved \/ e.in # o.in) /\ ~wins => f.moved = 0

LEMMA ForcedExactly ==
  ASSUME NEW e \in HeldEntries, NEW o \in HeldEntries, NEW wins \in BOOLEAN, NEW clock \in Nat
  PROVE  ForcedBy(Forced(e, o, wins, clock), e, o, wins, clock)
  <1> DEFINE byAt == ResolutionTime({e.at, o.at}, clock)
             byMoved == ResolutionTime({e.moved, o.moved}, clock)
             placed == IF e.moved # o.moved \/ e.in # o.in
                       THEN [e EXCEPT !.moved = IF wins THEN byMoved ELSE Epoch]
                       ELSE e
  <1>1. /\ e.at \in Stamps /\ o.at \in Stamps /\ e.moved \in Stamps /\ o.moved \in Stamps
    BY DEF HeldEntries
  <1>2. byAt \in Nat /\ byMoved \in Nat
    BY <1>1, ResolutionIsLatest
  <1>3. Forced(e, o, wins, clock) =
          IF wins THEN [placed EXCEPT !.at = byAt, !.past = @ \union {Version(o)}]
          ELSE [placed EXCEPT !.at = Epoch]
    BY DEF Forced
  <1>4. /\ placed \in HeldEntries /\ placed.text = e.text /\ placed.in = e.in /\ placed.past = e.past
        /\ placed.moved = IF e.moved # o.moved \/ e.in # o.in
                          THEN IF wins THEN byMoved ELSE Epoch ELSE e.moved
    <2> HIDE DEF byAt, byMoved
    <2> QED
      BY <1>2 DEF HeldEntries, Stamps, Epoch
  <1> HIDE DEF placed
  <1>5. Version(o) \in Archive
    BY VersionIsArchived
  <1>6. CASE wins
    <2> HIDE DEF byAt, byMoved
    <2> DEFINE f == [placed EXCEPT !.at = byAt, !.past = @ \union {Version(o)}]
    <2>1. /\ f \in HeldEntries /\ f.held /\ f.text = placed.text /\ f.in = placed.in /\ f.at = byAt
          /\ f.past = placed.past \union {Version(o)} /\ f.moved = placed.moved
      BY <1>2, <1>4, <1>5 DEF HeldEntries, Stamps
    <2> QED
      BY <1>3, <1>4, <1>6, <2>1 DEF byAt, byMoved, ForcedBy
  <1>7. CASE ~wins
    <2> HIDE DEF byAt, byMoved
    <2> DEFINE f == [placed EXCEPT !.at = Epoch]
    <2>1. /\ f \in HeldEntries /\ f.held /\ f.text = placed.text /\ f.in = placed.in /\ f.at = Epoch
          /\ f.past = placed.past /\ f.moved = placed.moved
      BY <1>4 DEF HeldEntries, Stamps, Epoch
    <2> QED
      BY <1>3, <1>4, <1>7, <2>1 DEF ForcedBy, Epoch
  <1> QED
    BY <1>6, <1>7

LEMMA LosingVersionArchived ==
  ASSUME NEW ours \in EntryCopies, NEW theirs \in EntryCopies, BothHold(ours, theirs), NEW winner
  PROVE  LET ready == PreserveAutoResolvedHistory(ours, theirs, winner) IN
         /\ \A v \in ready.ours.entry.past :
              v \in ours.entry.past \/ (winner = "local" /\ v = Version(theirs.entry))
         /\ \A v \in ready.theirs.entry.past :
              v \in theirs.entry.past \/ (winner = "remote" /\ v = Version(ours.entry))
  <1> DEFINE ready == PreserveAutoResolvedHistory(ours, theirs, winner)
  <1>1. ASSUME NEW c \in EntryCopies, c.entry.held, NEW w
        PROVE  [c EXCEPT !.entry.past = @ \union {w}].entry.past = c.entry.past \union {w}
    <2>1. c.entry \in HeldEntries
      BY <1>1, HoldingIsWhole
    <2> QED
      BY <1>1, <2>1 DEF EntryCopies, HeldEntries
  <1>2. ours.entry.held /\ theirs.entry.held
    BY DEF BothHold
  <1>3. winner = "local" => /\ ready.ours.entry.past = ours.entry.past \union {Version(theirs.entry)}
                            /\ ready.theirs = theirs
    <2>1. winner = "local" =>
            ready = [ours |-> [ours EXCEPT !.entry.past = @ \union {Version(theirs.entry)}],
                     theirs |-> theirs]
      BY DEF PreserveAutoResolvedHistory
    <2> DEFINE c == [ours EXCEPT !.entry.past = @ \union {Version(theirs.entry)}]
    <2>2. c.entry.past = ours.entry.past \union {Version(theirs.entry)}
      BY <1>1, <1>2
    <2>3. winner = "local" => ready.ours = c /\ ready.theirs = theirs
      <3> HIDE DEF c
      <3>1. winner = "local" => ready = [ours |-> c, theirs |-> theirs]
        BY <2>1 DEF c
      <3> HIDE DEF ready
      <3> QED
        BY <3>1
    <2> HIDE DEF ready, c
    <2> QED
      BY <2>2, <2>3
  <1>4. winner = "remote" => /\ ready.theirs.entry.past = theirs.entry.past \union {Version(ours.entry)}
                             /\ ready.ours = ours
    <2>1. winner = "remote" =>
            ready = [ours |-> ours,
                     theirs |-> [theirs EXCEPT !.entry.past = @ \union {Version(ours.entry)}]]
      BY DEF PreserveAutoResolvedHistory
    <2> DEFINE c == [theirs EXCEPT !.entry.past = @ \union {Version(ours.entry)}]
    <2>2. c.entry.past = theirs.entry.past \union {Version(ours.entry)}
      BY <1>1, <1>2
    <2>3. winner = "remote" => ready.theirs = c /\ ready.ours = ours
      <3> HIDE DEF c
      <3>1. winner = "remote" => ready = [ours |-> ours, theirs |-> c]
        BY <2>1 DEF c
      <3> HIDE DEF ready
      <3> QED
        BY <3>1
    <2> HIDE DEF ready, c
    <2> QED
      BY <2>2, <2>3
  <1>5. winner # "local" /\ winner # "remote" => ready.ours = ours /\ ready.theirs = theirs
    BY DEF PreserveAutoResolvedHistory
  <1> HIDE DEF ready
  <1>6. /\ \A v \in ready.ours.entry.past :
             v \in ours.entry.past \/ (winner = "local" /\ v = Version(theirs.entry))
        /\ \A v \in ready.theirs.entry.past :
             v \in theirs.entry.past \/ (winner = "remote" /\ v = Version(ours.entry))
    BY <1>3, <1>4, <1>5
  <1> QED
    BY <1>6 DEF ready

\* What a merge makes of two copies it does not ask about: as their stamps say.
LEMMA UnaskedJoins ==
  ASSUME NEW ours \in EntryCopies, NEW theirs \in EntryCopies, BothHold(ours, theirs),
         Sound(ours), Sound(theirs), NEW side \in Sides, NEW clock \in Nat,
         ~InConflict(ours, theirs, clock)
  PROVE  Joint(ApplyPicks(ours, theirs, side, clock), ours, theirs)
  <1> DEFINE m == ApplyPicks(ours, theirs, side, clock)
             l == ours.entry
             r == theirs.entry
             harmless == WarningIsHarmless(ours, theirs)
             won == ContentWinner(ours, theirs, clock)
             ready == IF IsLive(ours) /\ IsLive(theirs)
                      THEN PreserveAutoResolvedHistory(ours, theirs, won)
                      ELSE [ours |-> ours, theirs |-> theirs]
             a == ready.ours
             b == ready.theirs
             x == a.entry
             y == b.entry
  <1>1. m = ForkMerge(a, b, harmless, clock)
    BY DEF ApplyPicks
  <1>2. /\ ReadyFor(ready, ours, theirs)
        /\ x.at = l.at /\ y.at = r.at /\ x.moved = l.moved /\ y.moved = r.moved
    <2>1. CASE IsLive(ours) /\ IsLive(theirs)
      BY <2>1, HistoryPreserved
    <2>2. CASE ~(IsLive(ours) /\ IsLive(theirs))
      BY <2>2 DEF ReadyFor, BothHold
    <2> QED
      BY <2>1, <2>2
  <1>3. /\ a \in EntryCopies /\ b \in EntryCopies /\ x.held /\ y.held
        /\ a.grave = ours.grave /\ b.grave = theirs.grave
        /\ x.text = l.text /\ y.text = r.text /\ x.in = l.in /\ y.in = r.in
        /\ r.past \subseteq y.past
    BY <1>2 DEF ReadyFor
  <1>4. \A v \in x.past \union y.past : Archived(v, l, r)
    <2>1. CASE IsLive(ours) /\ IsLive(theirs)
      <3>1. ready = PreserveAutoResolvedHistory(ours, theirs, won)
        BY <2>1
      <3>2. /\ \A v \in ready.ours.entry.past : v \in l.past \/ (won = "local" /\ v = Version(r))
            /\ \A v \in ready.theirs.entry.past : v \in r.past \/ (won = "remote" /\ v = Version(l))
        BY <3>1, LosingVersionArchived
      <3>3. won = "local" => l.text # r.text /\ ~(r.at > l.at)
        <4>1. l.at \in Nat /\ r.at \in Nat
          BY DEF Sound, BothHold
        <4> QED
          BY <4>1 DEF ContentWinner, TimestampWinner
      <3>4. won = "remote" => l.text # r.text /\ r.at > l.at
        <4>1. l.at \in Nat /\ r.at \in Nat
          BY DEF Sound, BothHold
        <4> QED
          BY <4>1 DEF ContentWinner, TimestampWinner
      <3> HIDE DEF ready, won
      <3> QED
        BY <3>2, <3>3, <3>4 DEF Archived, Loser
    <2>2. CASE ~(IsLive(ours) /\ IsLive(theirs))
      BY <2>2 DEF Archived
    <2> QED
      BY <2>1, <2>2
  <1>5. harmless \in BOOLEAN
    BY DEF WarningIsHarmless
  <1>6. /\ l.at \in Nat /\ r.at \in Nat /\ l.moved \in Nat /\ r.moved \in Nat /\ l.at > 0
    BY EntryIsTyped DEF Sound, BothHold
  <1> HIDE DEF ready, a, b, m, harmless
  <1>7. /\ m # Refused <=> Ranked(x, y)
        /\ m # Refused =>
             /\ m \in EntryCopies /\ m.grave = Later(a.grave, b.grave)
             /\ m.entry.held <=> x.at > m.grave \/ y.at > m.grave
             /\ m.entry.held => Joined(m.entry, x, y)
    <2>1. Joint(m, a, b)
      BY <1>1, <1>2, <1>3, <1>5, <1>6, ForkJoins
    <2> QED
      BY <2>1 DEF Joint
  <1>8. Ranked(x, y) <=> Ranked(l, r)
    BY <1>2, <1>3 DEF Ranked
  <1>9. m # Refused /\ m.entry.held /\ Joined(m.entry, x, y) => Joined(m.entry, l, r)
    <2> SUFFICES ASSUME Joined(m.entry, x, y) PROVE Joined(m.entry, l, r)
      OBVIOUS
    <2>1. Loser(x, y) = Loser(l, r)
      BY <1>2, <1>3 DEF Version, Loser
    <2>2. \A v \in m.entry.past : Archived(v, l, r)
      <3>1. \A v \in m.entry.past : Archived(v, x, y)
        BY DEF Joined
      <3>2. x.text = l.text /\ y.text = r.text
        BY <1>3
      <3>3. \A v \in x.past \union y.past : Archived(v, l, r)
        BY <1>4
      <3> QED
        BY <2>1, <3>1, <3>2, <3>3 DEF Archived
    <2> QED
      BY <1>2, <1>3, <2>2 DEF Joined
  <1>10. Joint(m, ours, theirs)
    BY <1>2, <1>3, <1>7, <1>8, <1>9 DEF Joint
  <1> QED
    BY <1>10 DEF m

\* An answer makes the winner newer than both, in what it says and, where the two are in
\* different places, in its place.
Settled(m, l, r, clock) ==
  /\ m.at \in Nat /\ m.moved \in Nat /\ m.moved <= m.at
  /\ m.at > l.at /\ m.at > r.at /\ m.at > clock
  /\ m.at <= l.at + 1 \/ m.at <= r.at + 1 \/ m.at <= clock + 1
  /\ l.in = r.in => m.in = l.in
  /\ l.in # r.in => m.moved > l.moved /\ m.moved > r.moved
  /\ m.text \in {l.text, r.text}
  /\ \A v \in m.past : v \in l.past \union r.past \/ v.text \in {l.text, r.text}

Answered(m, ours, theirs, clock) ==
  /\ m \in EntryCopies /\ m.grave = Later(ours.grave, theirs.grave)
  /\ m.entry.held /\ Settled(m.entry, ours.entry, theirs.entry, clock)

LEMMA AskedSettles ==
  ASSUME NEW ours \in EntryCopies, NEW theirs \in EntryCopies, BothHold(ours, theirs),
         Sound(ours), Sound(theirs), NEW side \in Sides, NEW clock \in Nat,
         Believed(ours, clock), Believed(theirs, clock),
         InConflict(ours, theirs, clock)
  PROVE  Answered(ApplyPicks(ours, theirs, side, clock), ours, theirs, clock)
  <1> DEFINE m == ApplyPicks(ours, theirs, side, clock)
             l == ours.entry
             r == theirs.entry
             wins == side = "local"
             loses == ~wins
             f == Forced(l, r, wins, clock)
             g == Forced(r, l, loses, clock)
             a == [ours EXCEPT !.entry = f]
             b == [theirs EXCEPT !.entry = g]
             harmless == WarningIsHarmless(ours, theirs)
             byAt == ResolutionTime({l.at, r.at}, clock)
             byMoved == ResolutionTime({l.moved, r.moved}, clock)
  <1>1. /\ l \in HeldEntries /\ r \in HeldEntries
        /\ l.at \in Nat /\ r.at \in Nat /\ l.moved \in Nat /\ r.moved \in Nat
        /\ l.moved <= l.at /\ r.moved <= r.at
        /\ l.at <= clock + MaxClockSkew /\ r.at <= clock + MaxClockSkew
        /\ ours.grave < l.at /\ theirs.grave < r.at /\ ours.grave \in Nat /\ theirs.grave \in Nat
    BY EntryIsTyped DEF Sound, BothHold, Believed
  <1>2. l.moved <= clock + MaxClockSkew /\ r.moved <= clock + MaxClockSkew
    BY <1>1 DEF MaxClockSkew
  <1>3. /\ byAt \in Nat /\ l.at <= byAt - 1 /\ r.at <= byAt - 1 /\ clock <= byAt - 1
        /\ byAt - 1 \in {l.at, r.at, clock}
    BY <1>1, ResolutionIs
  <1>4. /\ byMoved \in Nat /\ l.moved <= byMoved - 1 /\ r.moved <= byMoved - 1
        /\ byMoved - 1 \in {l.moved, r.moved, clock}
    BY <1>1, <1>2, ResolutionIs
  <1>5. {r.at, l.at} = {l.at, r.at} /\ {r.moved, l.moved} = {l.moved, r.moved}
    OBVIOUS
  <1>6. m = ForkMerge(a, b, harmless, clock)
    <2>1. (side = "remote") = loses
      BY DEF Sides
    <2>2. ForceManualWinner(ours, theirs, side, clock) = [ours |-> a, theirs |-> b]
      <3>1. ForceManualWinner(ours, theirs, side, clock) =
              [ours   |-> [ours EXCEPT !.entry = Forced(l, r, wins, clock)],
               theirs |-> [theirs EXCEPT !.entry = Forced(r, l, side = "remote", clock)]]
        BY DEF ForceManualWinner, EntryCopies
      <3> QED
        BY <2>1, <3>1
    <2> QED
      BY <2>2 DEF ApplyPicks
  <1>7. wins \in BOOLEAN /\ loses \in BOOLEAN /\ (loses <=> ~wins) /\ harmless \in BOOLEAN
    BY DEF WarningIsHarmless
  <1> HIDE DEF wins, loses, m, harmless, byAt, byMoved
  <1>8. /\ f \in HeldEntries /\ f.held /\ f.text = l.text /\ f.in = l.in
        /\ f.at = IF wins THEN byAt ELSE 0
        /\ f.moved = IF l.moved # r.moved \/ l.in # r.in THEN IF wins THEN byMoved ELSE 0 ELSE l.moved
        /\ f.past \subseteq l.past \union {Version(r)}
    <2>1. ForcedBy(f, l, r, wins, clock)
      BY <1>1, <1>7, ForcedExactly
    <2> HIDE DEF f
    <2> QED
      BY <2>1 DEF ForcedBy, byAt, byMoved
  <1>9. /\ g \in HeldEntries /\ g.held /\ g.text = r.text /\ g.in = r.in
        /\ g.at = IF wins THEN 0 ELSE byAt
        /\ g.moved = IF l.moved # r.moved \/ l.in # r.in THEN IF wins THEN 0 ELSE byMoved ELSE r.moved
        /\ g.past \subseteq r.past \union {Version(l)}
    <2>1. ForcedBy(g, r, l, loses, clock)
      BY <1>1, <1>7, ForcedExactly
    <2> HIDE DEF g
    <2> QED
      BY <1>5, <1>7, <2>1 DEF ForcedBy, byAt, byMoved
  <1> HIDE DEF f, g
  <1>10. /\ a \in EntryCopies /\ a.entry = f /\ a.grave = ours.grave
         /\ b \in EntryCopies /\ b.entry = g /\ b.grave = theirs.grave
    BY <1>8, <1>9 DEF EntryCopies
  <1> HIDE DEF a, b
  <1>11. Ranked(f, g)
    BY <1>1, <1>3, <1>4, <1>7, <1>8, <1>9 DEF Ranked
  <1>12. /\ f.at \in Nat /\ g.at \in Nat /\ f.moved \in Nat /\ g.moved \in Nat
         /\ f.at > 0 \/ g.at > 0
    BY <1>1, <1>3, <1>4, <1>7, <1>8, <1>9
  <1>13. /\ m # Refused /\ m \in EntryCopies /\ m.grave = Later(ours.grave, theirs.grave)
         /\ m.entry.held <=> f.at > m.grave \/ g.at > m.grave
         /\ m.entry.held => Joined(m.entry, f, g)
    <2>1. /\ a.entry.held /\ b.entry.held /\ Ranked(a.entry, b.entry)
          /\ a.entry.at \in Nat /\ b.entry.at \in Nat /\ a.entry.moved \in Nat /\ b.entry.moved \in Nat
          /\ a.entry.at > 0 \/ b.entry.at > 0
      BY <1>8, <1>9, <1>10, <1>11, <1>12
    <2>2. /\ m # Refused /\ m \in EntryCopies /\ m.grave = Later(a.grave, b.grave)
          /\ m.entry.held <=> a.entry.at > m.grave \/ b.entry.at > m.grave
          /\ m.entry.held => Joined(m.entry, a.entry, b.entry)
      <3>1. Joint(m, a, b)
        BY <1>6, <1>7, <1>10, <2>1, ForkJoins
      <3> QED
        BY <2>1, <3>1 DEF Joint
    <2> QED
      BY <1>10, <2>2
  <1>14. m.entry.held
    <2>1. m.grave < byAt /\ m.grave \in Nat
      <3>1. ours.grave < byAt /\ theirs.grave < byAt /\ ours.grave \in Nat /\ theirs.grave \in Nat
        BY <1>1, <1>3
      <3> QED
        BY <1>13, <3>1, LaterIs
    <2> QED
      BY <1>3, <1>7, <1>8, <1>9, <1>13, <2>1
  <1>15. m.entry.at = byAt
    BY <1>3, <1>7, <1>8, <1>9, <1>13, <1>14 DEF Joined
  <1>16. l.in = r.in => m.entry.in = l.in /\ m.entry.moved \in {l.moved, byMoved}
    BY <1>3, <1>7, <1>8, <1>9, <1>13, <1>14 DEF Joined
  <1>17. l.in # r.in => m.entry.moved = byMoved
    BY <1>4, <1>7, <1>8, <1>9, <1>13, <1>14 DEF Joined
  <1>18. byMoved <= byAt /\ l.moved <= byAt /\ byAt - 1 \in Nat
    BY <1>1, <1>3, <1>4
  <1>19. Settled(m.entry, l, r, clock)
    <2>1. m.entry.moved \in Nat /\ m.entry.moved <= byAt
      BY <1>1, <1>4, <1>16, <1>17, <1>18, <1>3
    <2>2. l.in # r.in => m.entry.moved > l.moved /\ m.entry.moved > r.moved
      BY <1>1, <1>4, <1>17
    <2>3. m.entry.text \in {l.text, r.text}
      BY <1>8, <1>9, <1>13, <1>14 DEF Joined
    <2>4. \A v \in m.entry.past : v \in l.past \union r.past \/ v.text \in {l.text, r.text}
      <3>1. \A v \in m.entry.past : \/ v \in f.past \union g.past
                                   \/ v \in {Version(f), Version(g)}
        BY <1>13, <1>14 DEF Joined, Archived, Loser
      <3>2. /\ Version(f).text = l.text /\ Version(g).text = r.text
            /\ Version(l).text = l.text /\ Version(r).text = r.text
        BY <1>8, <1>9 DEF Version
      <3> QED
        BY <1>8, <1>9, <3>1, <3>2
    <2> QED
      BY <1>1, <1>3, <1>15, <1>16, <2>1, <2>2, <2>3, <2>4 DEF Settled
  <1>20. Answered(m, ours, theirs, clock)
    BY <1>13, <1>14, <1>19 DEF Answered
  <1> QED
    BY <1>20 DEF m

-----------------------------------------------------------------------------
(* One entry on two devices: merges of copies in order.                    *)

\* Copies that know each other are never asked about.
LEMMA KnownIsNotAsked ==
  ASSUME NEW ours \in EntryCopies, NEW theirs \in EntryCopies, Sound(ours), Sound(theirs),
         NEW clock \in Nat, Believed(ours, clock), Believed(theirs, clock),
         Succeeds(ours, theirs) \/ Succeeds(theirs, ours)
  PROVE  ~InConflict(ours, theirs, clock)
  <1> SUFFICES ASSUME IsLive(ours), IsLive(theirs)
               PROVE  /\ ContentWinner(ours, theirs, clock) # "nobody"
                      /\ LocationWinner(ours, theirs, clock) # "nobody"
    BY DEF InConflict
  <1> DEFINE l == ours.entry
             r == theirs.entry
  <1>1. l.held /\ r.held
    BY DEF IsLive
  <1>2. /\ l.at \in Nat /\ r.at \in Nat /\ l.moved \in Nat /\ r.moved \in Nat
        /\ l.moved <= l.at /\ r.moved <= r.at
        /\ l.at <= clock + MaxClockSkew /\ r.at <= clock + MaxClockSkew
    BY <1>1 DEF Sound, Believed
  <1>3. /\ l.text # r.text => l.at # r.at
        /\ l.in # r.in => l.moved # r.moved
    BY <1>1, <1>2 DEF Succeeds
  <1>4. ASSUME NEW a \in Nat, NEW b \in Nat, a # b, a <= clock + MaxClockSkew, b <= clock + MaxClockSkew
        PROVE  TimestampWinner(a, b, clock) # "nobody"
    <2>1. Undated \notin {a, b} /\ ~IsFutureDated(a, clock) /\ ~IsFutureDated(b, clock)
      BY <1>4 DEF Undated, IsFutureDated, MaxClockSkew
    <2> QED
      BY <1>4, <2>1 DEF TimestampWinner
  <1>5. l.moved <= clock + MaxClockSkew /\ r.moved <= clock + MaxClockSkew
    BY <1>2 DEF MaxClockSkew
  <1>6. ContentWinner(ours, theirs, clock) # "nobody"
    BY <1>2, <1>3, <1>4 DEF ContentWinner
  <1>7. LocationWinner(ours, theirs, clock) # "nobody"
    BY <1>2, <1>3, <1>4, <1>5 DEF LocationWinner
  <1> QED
    BY <1>6, <1>7

\* A copy only one of the two holds is kept unless a deletion is later.
KeptOfOne(m, ours, theirs) ==
  /\ m # Refused /\ m \in EntryCopies /\ m.grave = Later(ours.grave, theirs.grave)
  /\ ours.entry.held => /\ m.entry.held <=> ours.entry.at > m.grave
                        /\ m.entry.held => m.entry = ours.entry
  /\ theirs.entry.held => /\ m.entry.held <=> theirs.entry.at > m.grave
                          /\ m.entry.held => m.entry = theirs.entry
  /\ ~ours.entry.held /\ ~theirs.entry.held => ~m.entry.held

LEMMA OneHolds ==
  ASSUME NEW ours \in EntryCopies, NEW theirs \in EntryCopies, ~BothHold(ours, theirs),
         Sound(ours), Sound(theirs), NEW side \in Sides, NEW clock \in Nat
  PROVE  KeptOfOne(ApplyPicks(ours, theirs, side, clock), ours, theirs)
  <1> DEFINE m == ApplyPicks(ours, theirs, side, clock)
             e == IF ours.entry.held THEN ours.entry ELSE theirs.entry
             tomb == Later(ours.grave, theirs.grave)
  <1>1. m = ForkDelete(e, tomb)
    BY DEF ApplyPicks
  <1>2. ours.grave \in Nat /\ theirs.grave \in Nat
    BY EntryIsTyped
  <1>3. e \in HeldEntries \union {NoEntry} /\ tomb \in Nat
    BY <1>2, LaterIs DEF EntryCopies
  <1>4. /\ ours.entry.held => e = ours.entry
        /\ theirs.entry.held => e = theirs.entry
        /\ e.held <=> ours.entry.held \/ theirs.entry.held
    BY DEF BothHold
  <1>5. e.held => e.at \in Nat /\ e.at > 0
    BY <1>2, <1>4 DEF Sound
  <1> HIDE DEF m, e, tomb
  <1>6. /\ m # Refused /\ m \in EntryCopies /\ m.grave = tomb
        /\ m.entry.held <=> e.held /\ e.at > tomb
        /\ m.entry.held => m.entry = e
    BY <1>1, <1>3, <1>5, ForkDeletes
  <1>7. KeptOfOne(m, ours, theirs)
    BY <1>4, <1>6 DEF tomb, KeptOfOne
  <1> QED
    BY <1>7 DEF m

\* Where the stamps in a merge come from.
Stamped(m, ours, theirs, clock) ==
  m.entry.held =>
    \/ ours.entry.held /\ m.entry.at = ours.entry.at
    \/ theirs.entry.held /\ m.entry.at = theirs.entry.at
    \/ /\ InConflict(ours, theirs, clock)
       /\ \/ m.entry.at <= ours.entry.at + 1
          \/ m.entry.at <= theirs.entry.at + 1
          \/ m.entry.at <= clock + 1

\* Whatever is merged into a copy succeeds it.
LEMMA MergeSucceeds ==
  ASSUME NEW ours \in EntryCopies, NEW theirs \in EntryCopies, Sound(ours), Sound(theirs),
         NEW side \in Sides, NEW clock \in Nat, Believed(ours, clock), Believed(theirs, clock),
         NEW m, m = ApplyPicks(ours, theirs, side, clock), m # Refused
  PROVE  /\ m \in EntryCopies /\ Sound(m) /\ Succeeds(theirs, m)
         /\ Stamped(m, ours, theirs, clock)
  <1> DEFINE l == ours.entry
             r == theirs.entry
  <1>1. ours.grave \in Nat /\ theirs.grave \in Nat /\ l.held \in BOOLEAN /\ r.held \in BOOLEAN
    BY EntryIsTyped
  <1>2. /\ Later(ours.grave, theirs.grave) \in Nat
        /\ theirs.grave <= Later(ours.grave, theirs.grave)
        /\ Later(ours.grave, theirs.grave) \in {ours.grave, theirs.grave}
    BY <1>1 DEF Later
  <1>3. ASSUME m.grave = Later(ours.grave, theirs.grave)
        PROVE  /\ m.grave \in Nat /\ theirs.grave <= m.grave
               /\ m.grave = ours.grave \/ m.grave = theirs.grave
    BY <1>2, <1>3
  <1>4. CASE ~BothHold(ours, theirs)
    <2>1. /\ m \in EntryCopies /\ m.grave = Later(ours.grave, theirs.grave)
          /\ l.held => (m.entry.held <=> l.at > m.grave) /\ (m.entry.held => m.entry = l)
          /\ r.held => (m.entry.held <=> r.at > m.grave) /\ (m.entry.held => m.entry = r)
          /\ ~l.held /\ ~r.held => ~m.entry.held
      <3>1. KeptOfOne(m, ours, theirs)
        BY <1>4, OneHolds
      <3> QED
        BY <3>1 DEF KeptOfOne
    <2>2. theirs.grave <= m.grave /\ m.grave \in Nat
      <3>1. m.grave = Later(ours.grave, theirs.grave)
        BY <2>1
      <3> QED
        BY <1>3, <3>1
    <2>3. Succeeds(theirs, m)
      <3>1. CASE r.held
        BY <2>1, <2>2, <3>1 DEF Succeeds, Sound
      <3>2. CASE ~r.held
        BY <2>2, <3>2 DEF Succeeds
      <3> QED
        BY <3>1, <3>2
    <2>4. Sound(m) /\ Stamped(m, ours, theirs, clock)
      BY <2>1, <2>2 DEF Sound, Stamped
    <2> QED
      BY <2>1, <2>3, <2>4
  <1>5. CASE BothHold(ours, theirs)
    <2>1. /\ l.held /\ r.held /\ l.at \in Nat /\ r.at \in Nat /\ l.moved \in Nat /\ r.moved \in Nat
          /\ l.moved <= l.at /\ r.moved <= r.at
      BY <1>5 DEF BothHold, Sound
    <2>2. CASE InConflict(ours, theirs, clock)
      <3>1. /\ m \in EntryCopies /\ m.grave = Later(ours.grave, theirs.grave) /\ m.entry.held
            /\ Settled(m.entry, l, r, clock)
        <4>1. Answered(m, ours, theirs, clock)
          BY <1>5, <2>2, AskedSettles
        <4> QED
          BY <4>1 DEF Answered
      <3>2. theirs.grave <= m.grave /\ m.grave \in Nat /\ m.grave < m.entry.at
        <4>1. /\ m.entry.at \in Nat /\ m.entry.at > l.at /\ m.entry.at > r.at
          BY <3>1 DEF Settled
        <4>2. ours.grave < l.at /\ theirs.grave < r.at
          BY <2>1 DEF Sound
        <4>3. m.grave \in Nat /\ theirs.grave <= m.grave /\ (m.grave = ours.grave \/ m.grave = theirs.grave)
          <5>1. m.grave = Later(ours.grave, theirs.grave)
            BY <3>1
          <5> QED
            BY <1>3, <5>1
        <4> QED
          BY <1>1, <2>1, <4>1, <4>2, <4>3
      <3>3. Sound(m)
        BY <3>1, <3>2 DEF Sound, Settled
      <3>4. Succeeds(theirs, m)
        BY <2>1, <3>1, <3>2 DEF Succeeds, Settled
      <3>5. Stamped(m, ours, theirs, clock)
        BY <2>2, <3>1 DEF Stamped, Settled
      <3> QED
        BY <3>1, <3>3, <3>4, <3>5
    <2>3. CASE ~InConflict(ours, theirs, clock)
      <3>1. /\ Ranked(l, r) /\ m \in EntryCopies /\ m.grave = Later(ours.grave, theirs.grave)
            /\ m.entry.held <=> l.at > m.grave \/ r.at > m.grave
            /\ m.entry.held => Joined(m.entry, l, r)
        <4>1. Joint(m, ours, theirs)
          BY <1>5, <2>3, UnaskedJoins
        <4> QED
          BY <4>1 DEF Joint
      <3>2. theirs.grave <= m.grave /\ m.grave \in Nat
        <4>1. m.grave = Later(ours.grave, theirs.grave)
          BY <3>1
        <4> QED
          BY <1>3, <4>1
      <3>3. CASE m.entry.held
        <4>1. /\ m.entry.at = (IF r.at > l.at THEN r.at ELSE l.at)
              /\ m.entry.text = (IF r.at > l.at THEN r.text ELSE l.text)
              /\ l.in = r.in => m.entry.in = l.in /\ m.entry.moved = IF r.at > l.at THEN r.moved ELSE l.moved
              /\ l.in # r.in => IF r.moved > l.moved THEN m.entry.in = r.in /\ m.entry.moved = r.moved
                                ELSE m.entry.in = l.in /\ m.entry.moved = l.moved
          BY <3>1, <3>3 DEF Joined
        <4>2. /\ l.at = r.at => l.text = r.text
              /\ l.in # r.in => l.moved # r.moved
          BY <3>1 DEF Ranked
        <4>3. Sound(m)
          <5>1. m.entry.at \in Nat /\ m.entry.at > m.grave
            BY <2>1, <3>1, <3>2, <3>3, <4>1
          <5>2. m.entry.moved \in Nat /\ m.entry.moved <= m.entry.at
            BY <2>1, <4>1
          <5> QED
            BY <5>1, <5>2 DEF Sound
        <4>4. /\ r.at <= m.entry.at
              /\ r.text = m.entry.text \/ r.at < m.entry.at
          BY <2>1, <4>1, <4>2
        <4>5. r.in = m.entry.in \/ r.moved < m.entry.moved
          BY <2>1, <4>1, <4>2
        <4>6. Succeeds(theirs, m)
          BY <2>1, <3>2, <3>3, <4>4, <4>5 DEF Succeeds
        <4>7. Stamped(m, ours, theirs, clock)
          BY <2>1, <4>1 DEF Stamped
        <4> QED
          BY <3>1, <4>3, <4>6, <4>7
      <3>4. CASE ~m.entry.held
        <4>1. r.at <= m.grave
          BY <2>1, <3>1, <3>2, <3>4
        <4> QED
          BY <2>1, <3>1, <3>2, <3>4, <4>1 DEF Sound, Succeeds, Stamped
      <3> QED
        BY <3>3, <3>4
    <2> QED
      BY <2>2, <2>3
  <1> QED
    BY <1>4, <1>5

\* A merge with a copy that succeeds ours is that copy, and comes before whatever
\* comes after both.
LEMMA MergeFollows ==
  ASSUME NEW ours \in EntryCopies, NEW theirs \in EntryCopies, Sound(ours), Sound(theirs),
         NEW side \in Sides, NEW clock \in Nat, Believed(ours, clock), Believed(theirs, clock),
         NEW m, m = ApplyPicks(ours, theirs, side, clock), Succeeds(ours, theirs)
  PROVE  /\ m # Refused /\ Follows(m, theirs)
         /\ \A z \in EntryCopies : Succeeds(ours, z) /\ Succeeds(theirs, z) => Succeeds(m, z)
  <1> DEFINE l == ours.entry
             r == theirs.entry
  <1>1. /\ ours.grave \in Nat /\ theirs.grave \in Nat /\ l.held \in BOOLEAN /\ r.held \in BOOLEAN
        /\ ours.grave <= theirs.grave /\ Later(ours.grave, theirs.grave) = theirs.grave
    BY EntryIsTyped DEF Succeeds, Later
  <1>2. CASE ~BothHold(ours, theirs)
    <2>1. /\ m # Refused /\ m \in EntryCopies /\ m.grave = theirs.grave
          /\ l.held => (m.entry.held <=> l.at > m.grave) /\ (m.entry.held => m.entry = l)
          /\ r.held => (m.entry.held <=> r.at > m.grave) /\ (m.entry.held => m.entry = r)
          /\ ~l.held /\ ~r.held => ~m.entry.held
      <3>1. KeptOfOne(m, ours, theirs)
        BY <1>2, OneHolds
      <3> QED
        BY <1>1, <3>1 DEF KeptOfOne
    <2>2. r.held => m.entry = r /\ m.entry.held
      BY <2>1 DEF Sound
    <2>3. ~r.held => ~m.entry.held
      <3>1. CASE l.held /\ ~r.held
        <4>1. l.at <= m.grave /\ l.at \in Nat
          BY <2>1, <3>1 DEF Succeeds, Sound
        <4> QED
          BY <1>1, <2>1, <3>1, <4>1
      <3> QED
        BY <1>1, <2>1, <3>1
    <2>4. m.entry.held \in BOOLEAN
      BY <2>1, EntryIsTyped
    <2>5. Follows(m, theirs)
      BY <1>1, <2>1, <2>2, <2>3, <2>4 DEF Follows
    <2>6. ASSUME NEW z \in EntryCopies, Succeeds(theirs, z) PROVE Succeeds(m, z)
      <3>1. CASE r.held
        BY <2>1, <2>2, <2>6, <3>1 DEF Succeeds
      <3>2. CASE ~r.held
        BY <2>1, <2>3, <2>6, <3>2 DEF Succeeds
      <3> QED
        BY <3>1, <3>2
    <2> QED
      BY <2>1, <2>5, <2>6
  <1>3. CASE BothHold(ours, theirs)
    <2>1. /\ l.held /\ r.held /\ l.at \in Nat /\ r.at \in Nat /\ l.moved \in Nat /\ r.moved \in Nat
          /\ theirs.grave < r.at
      BY <1>3 DEF BothHold, Sound
    <2>2. /\ l.at <= r.at
          /\ l.text = r.text \/ l.at < r.at
          /\ l.in = r.in \/ l.moved < r.moved
      BY <2>1 DEF Succeeds
    <2>3. ~InConflict(ours, theirs, clock)
      BY KnownIsNotAsked
    <2>4. Ranked(l, r)
      BY <2>1, <2>2 DEF Ranked
    <2>5. /\ m # Refused /\ m \in EntryCopies /\ m.grave = theirs.grave
          /\ m.entry.held <=> l.at > m.grave \/ r.at > m.grave
          /\ m.entry.held => Joined(m.entry, l, r)
      <3>1. Joint(m, ours, theirs)
        BY <1>3, <2>3, UnaskedJoins
      <3> QED
        BY <1>1, <2>4, <3>1 DEF Joint
    <2>6. m.entry.held
      BY <2>1, <2>5
    <2>7. /\ m.entry.at = r.at /\ m.entry.text = r.text /\ m.entry.in = r.in /\ r.past \subseteq m.entry.past
          /\ m.entry.moved = r.moved \/ (l.in = r.in /\ m.entry.moved = l.moved)
      <3>1. Joined(m.entry, l, r)
        BY <2>5, <2>6
      <3>2. m.entry.at = r.at /\ m.entry.text = r.text /\ r.past \subseteq m.entry.past
        BY <2>1, <2>2, <3>1 DEF Joined
      <3>3. l.in = r.in => m.entry.in = r.in /\ m.entry.moved \in {l.moved, r.moved}
        BY <3>1 DEF Joined
      <3>4. l.in # r.in => m.entry.in = r.in /\ m.entry.moved = r.moved
        BY <2>1, <2>2, <3>1 DEF Joined
      <3> QED
        BY <3>2, <3>3, <3>4
    <2>8. Follows(m, theirs)
      BY <2>1, <2>5, <2>6, <2>7 DEF Follows, EntryCopies
    <2>9. ASSUME NEW z \in EntryCopies, Succeeds(ours, z), Succeeds(theirs, z)
          PROVE  Succeeds(m, z)
      <3>1. CASE z.entry.held
        <4>1. /\ r.at <= z.entry.at
              /\ r.text = z.entry.text \/ r.at < z.entry.at
              /\ r.in = z.entry.in \/ r.moved < z.entry.moved
              /\ l.in = z.entry.in \/ l.moved < z.entry.moved
              /\ theirs.grave <= z.grave
          BY <2>1, <2>9, <3>1 DEF Succeeds
        <4> QED
          BY <2>5, <2>7, <3>1, <4>1 DEF Succeeds
      <3>2. CASE ~z.entry.held
        <4>1. theirs.grave <= z.grave /\ r.at <= z.grave
          BY <2>1, <2>9, <3>2 DEF Succeeds
        <4> QED
          BY <2>5, <2>7, <3>2, <4>1 DEF Succeeds
      <3> QED
        BY <3>1, <3>2
    <2> QED
      BY <2>5, <2>8, <2>9
  <1> QED
    BY <1>2, <1>3

LEMMA SucceedsItself ==
  ASSUME NEW c \in EntryCopies, Sound(c)
  PROVE  Succeeds(c, c)
  BY EntryIsTyped DEF Succeeds, Sound

-----------------------------------------------------------------------------
(* One entry on two devices: the steps.                                    *)

TwoDevices == \A x, y, z \in Devices : x = y \/ y = z \/ x = z

\* Every entry started with stamps to believe.
Believable == base \intersect {Undated, FarFuture} = {}

\* A copy that knows the cloud's latest revision succeeds it; one that changed nothing
\* since it last agreed with the cloud is succeeded by the cloud's and by any other copy
\* that knows the cloud; and where that other one does not, it wrote the cloud's itself.
CopiesInOrder ==
  /\ \A c \in Devices \union {Cloud} : Sound(copy[c])
  /\ \A d, o \in behind : d = o
  /\ \A d \in Devices \ behind : Succeeds(copy[Cloud], copy[d])
  /\ \A d \in Devices \ touched : Succeeds(copy[d], copy[Cloud])
  /\ \A d \in Devices \ touched, o \in Devices \ behind : o # d => Succeeds(copy[d], copy[o])
  /\ \A d \in Devices \ touched, o \in behind : o # d => copy[d] = copy[Cloud]

Own(d) == IF d \in touched THEN 1 ELSE 0
Others(d) == IF touched \subseteq {d} THEN 0 ELSE 1

\* No stamp is later than this: the clocks, the drift allowed for, and a second for
\* every mutation so far.
Horizon == now + 5 - MaxOps + ops

\* A device that has something to be asked about leaves a second for the answer.
LeadKept ==
  \A d \in Devices :
    /\ Own(d) + Others(d) <= ops
    /\ copy[d].entry.held => copy[d].entry.at + Others(d) <= Horizon
    /\ copy[Cloud].entry.held => copy[Cloud].entry.at + Own(d) + Others(d) <= Horizon
    /\ d \in behind /\ copy[d].entry.held =>
         Succeeds(copy[Cloud], copy[d]) \/ copy[d].entry.at + Others(d) + 1 <= Horizon

OrderInv == EntryInv /\ CopiesInOrder /\ LeadKept

LEMMA Numbers ==
  ASSUME EntryInv, NEW d \in Devices
  PROVE  /\ now \in Nat /\ ops \in 0..MaxOps /\ MaxOps \in Nat /\ Horizon \in Int
         /\ Own(d) \in {0, 1} /\ Others(d) \in {0, 1}
         /\ ClockOf(d) \in Nat /\ ClockOf(d) > 0
         /\ now <= ClockOf(d) /\ ClockOf(d) <= now + 5 - MaxOps
         /\ Horizon <= ClockOf(d) + 5
  <1>1. Drift[d] \in Nat /\ Drift[d] + MaxOps <= 5 /\ MaxOps \in Nat /\ MaxTicks \in Nat
    BY MergeEntryConstants
  <1>2. now \in Nat /\ now > 0 /\ ops \in 0..MaxOps
    BY <1>1 DEF EntryInv, Start
  <1> QED
    BY <1>1, <1>2 DEF ClockOf, Horizon, Own, Others

LEMMA CopiesAreTyped ==
  ASSUME EntryInv
  PROVE  \A c \in Devices \union {Cloud} :
           /\ copy[c] \in EntryCopies /\ copy[c].entry.held \in BOOLEAN /\ copy[c].grave \in Nat
           /\ copy[c].entry.held => copy[c].entry.at \in Stamps /\ copy[c].entry.moved \in Stamps
  BY EntryIsTyped DEF EntryInv

LEMMA StampsBelieved ==
  ASSUME OrderInv, NEW d \in Devices
  PROVE  /\ copy[d] \in EntryCopies /\ copy[Cloud] \in EntryCopies
         /\ Sound(copy[d]) /\ Sound(copy[Cloud])
         /\ Believed(copy[d], ClockOf(d)) /\ Believed(copy[Cloud], ClockOf(d))
  <1>1. /\ Horizon \in Int /\ ClockOf(d) \in Nat /\ Horizon <= ClockOf(d) + 5
        /\ Own(d) \in {0, 1} /\ Others(d) \in {0, 1}
    BY Numbers DEF OrderInv
  <1>2. /\ copy[d] \in EntryCopies /\ copy[Cloud] \in EntryCopies
        /\ Sound(copy[d]) /\ Sound(copy[Cloud])
    BY CopiesAreTyped DEF OrderInv, CopiesInOrder
  <1>3. copy[d].entry.held => copy[d].entry.at <= ClockOf(d) + 5 /\ copy[d].entry.at \in Nat
    BY <1>1, <1>2 DEF OrderInv, LeadKept, Sound
  <1>4. copy[Cloud].entry.held => copy[Cloud].entry.at <= ClockOf(d) + 5 /\ copy[Cloud].entry.at \in Nat
    BY <1>1, <1>2 DEF OrderInv, LeadKept, Sound
  <1>5. ASSUME NEW a \in Nat, a <= ClockOf(d) + 5
        PROVE  a <= ClockOf(d) + MaxClockSkew
    BY <1>1, <1>5 DEF MaxClockSkew
  <1> QED
    BY <1>2, <1>3, <1>4, <1>5 DEF Believed

\* A device that changed nothing has nothing to be asked about.
LEMMA UntouchedIsNotAsked ==
  ASSUME OrderInv, NEW d \in Devices \ touched
  PROVE  ~InConflict(copy[d], copy[Cloud], ClockOf(d))
  <1>1. /\ copy[d] \in EntryCopies /\ copy[Cloud] \in EntryCopies
        /\ Sound(copy[d]) /\ Sound(copy[Cloud])
        /\ Believed(copy[d], ClockOf(d)) /\ Believed(copy[Cloud], ClockOf(d))
    BY StampsBelieved
  <1>2. Succeeds(copy[d], copy[Cloud])
    BY DEF OrderInv, CopiesInOrder
  <1>3. ClockOf(d) \in Nat
    BY Numbers DEF OrderInv
  <1> QED
    BY <1>1, <1>2, <1>3, KnownIsNotAsked

\* A change to one copy, newer than all it was made from.
LEMMA OrderMutated ==
  ASSUME OrderInv, NEW d \in Devices, NEW c \in EntryCopies, Mutate(d, c),
         copy[d].entry.held, Sound(c),
         c.entry.held => \/ c.entry.at <= copy[d].entry.at + 1
                         \/ c.entry.at <= ClockOf(d),
         \A x \in EntryCopies : Sound(x) /\ Succeeds(x, copy[d]) => Succeeds(x, c)
  PROVE  CopiesInOrder' /\ LeadKept'
  <1>1. /\ copy' = [copy EXCEPT ![d] = c] /\ ops' = ops + 1
        /\ behind' = behind /\ now' = now /\ touched' = touched \union {d}
    BY DEF Mutate
  <1>2. /\ copy'[d] = c /\ copy'[Cloud] = copy[Cloud]
        /\ \A x \in (Devices \union {Cloud}) \ {d} : copy'[x] = copy[x]
    BY <1>1, CloudIsNoDevice DEF OrderInv, EntryInv
  <1>3. \A x \in Devices \union {Cloud} : copy[x] \in EntryCopies /\ Sound(copy[x])
    BY CopiesAreTyped DEF OrderInv, CopiesInOrder
  <1>4. \A x \in Devices \union {Cloud} : Succeeds(copy[x], copy[d]) => Succeeds(copy[x], c)
    BY <1>3
  <1>5. CopiesInOrder'
    <2>1. \A x \in Devices \union {Cloud} : Sound(copy'[x])
      BY <1>2, <1>3
    <2>2. \A x, o \in behind' : x = o
      BY <1>1 DEF OrderInv, CopiesInOrder
    <2>3. \A x \in Devices \ behind' : Succeeds(copy'[Cloud], copy'[x])
      BY <1>1, <1>2, <1>4 DEF OrderInv, CopiesInOrder
    <2>4. \A x \in Devices \ touched' : Succeeds(copy'[x], copy'[Cloud])
      BY <1>1, <1>2 DEF OrderInv, CopiesInOrder
    <2>5. ASSUME NEW x \in Devices \ touched', NEW o \in Devices \ behind', o # x
          PROVE  Succeeds(copy'[x], copy'[o])
      <3>1. copy'[x] = copy[x] /\ Succeeds(copy[x], copy[o])
        BY <1>1, <1>2, <2>5 DEF OrderInv, CopiesInOrder
      <3> QED
        BY <1>2, <1>4, <3>1
    <2>6. \A x \in Devices \ touched', o \in behind' : o # x => copy'[x] = copy'[Cloud]
      BY <1>1, <1>2 DEF OrderInv, CopiesInOrder
    <2> QED
      BY <2>1, <2>2, <2>3, <2>4, <2>5, <2>6 DEF CopiesInOrder
  <1>6. LeadKept'
    <2> SUFFICES ASSUME NEW x \in Devices
                 PROVE  /\ Own(x)' + Others(x)' <= ops'
                        /\ copy'[x].entry.held => copy'[x].entry.at + Others(x)' <= Horizon'
                        /\ copy'[Cloud].entry.held =>
                             copy'[Cloud].entry.at + Own(x)' + Others(x)' <= Horizon'
                        /\ x \in behind' /\ copy'[x].entry.held =>
                             \/ Succeeds(copy'[Cloud], copy'[x])
                             \/ copy'[x].entry.at + Others(x)' + 1 <= Horizon'
      BY DEF LeadKept
    <2>1. /\ now \in Nat /\ ops \in 0..MaxOps /\ MaxOps \in Nat /\ Horizon \in Int
          /\ Own(x) \in {0, 1} /\ Others(x) \in {0, 1} /\ Horizon' = Horizon + 1
          /\ ClockOf(x) \in Nat /\ ClockOf(x) <= now + 5 - MaxOps
      BY <1>1, Numbers DEF OrderInv, Horizon
    <2>2. /\ Own(x) + Others(x) <= ops
          /\ copy[x].entry.held => copy[x].entry.at + Others(x) <= Horizon
          /\ copy[Cloud].entry.held => copy[Cloud].entry.at + Own(x) + Others(x) <= Horizon
          /\ x \in behind /\ copy[x].entry.held =>
               Succeeds(copy[Cloud], copy[x]) \/ copy[x].entry.at + Others(x) + 1 <= Horizon
      BY DEF OrderInv, LeadKept
    <2>3. /\ copy[x].entry.held => copy[x].entry.at \in Nat
          /\ copy[Cloud].entry.held => copy[Cloud].entry.at \in Nat
      BY <1>3 DEF Sound
    <2>4. CASE x = d
      <3>1. Own(x)' = 1 /\ Others(x)' = Others(x)
        BY <1>1, <2>4 DEF Own, Others
      <3>2. c.entry.held => c.entry.at \in Nat
        BY DEF Sound
      <3>3. ClockOf(x) + Others(x) <= Horizon
        BY <2>1, <2>2 DEF Horizon
      <3>4. copy[x].entry.at + Others(x) <= Horizon
        BY <2>2, <2>4
      <3>5. c.entry.held => c.entry.at + Others(x) <= Horizon + 1
        BY <2>1, <2>3, <2>4, <3>2, <3>3, <3>4
      <3>6. x \in behind /\ c.entry.held =>
              Succeeds(copy[Cloud], c) \/ c.entry.at + Others(x) + 1 <= Horizon + 1
        <4> SUFFICES ASSUME x \in behind, c.entry.held, ~Succeeds(copy[Cloud], c)
                     PROVE  c.entry.at + Others(x) <= Horizon
          BY <2>1, <3>2
        <4>1. copy[x].entry.at + Others(x) + 1 <= Horizon
          BY <1>4, <2>2, <2>4
        <4> QED
          BY <2>1, <2>3, <2>4, <3>2, <3>3, <4>1
      <3> QED
        BY <1>1, <1>2, <2>1, <2>2, <2>3, <2>4, <3>1, <3>5, <3>6
    <2>5. CASE x # d
      <3>1. Own(x)' = Own(x) /\ Others(x)' = 1
        BY <1>1, <2>5 DEF Own, Others
      <3>2. copy'[x] = copy[x]
        BY <1>2, <2>5
      <3> QED
        BY <1>1, <1>2, <2>1, <2>2, <2>3, <3>1, <3>2
    <2> QED
      BY <2>4, <2>5
  <1> QED
    BY <1>5, <1>6

LEMMA OrderUploaded ==
  ASSUME OrderInv, TwoDevices, NEW d \in Devices, Upload(d)
  PROVE  CopiesInOrder' /\ LeadKept'
  <1>1. /\ copy' = [copy EXCEPT ![Cloud] = copy[d]] /\ behind' = Devices \ {d} /\ d \notin behind
        /\ touched' = touched \ {d} /\ now' = now /\ ops' = ops /\ copy[d] # copy[Cloud]
    BY DEF Upload
  <1>2. copy'[Cloud] = copy[d] /\ \A x \in Devices : copy'[x] = copy[x]
    BY <1>1, CloudIsNoDevice DEF OrderInv, EntryInv
  <1>3. \A x \in Devices \union {Cloud} : copy[x] \in EntryCopies /\ Sound(copy[x])
    BY CopiesAreTyped DEF OrderInv, CopiesInOrder
  <1>4. Succeeds(copy[d], copy[d])
    BY <1>3, SucceedsItself
  <1>5. touched \subseteq Devices /\ behind \subseteq Devices
    BY DEF OrderInv, EntryInv
  <1>6. CopiesInOrder'
    <2>1. \A x \in Devices \union {Cloud} : Sound(copy'[x])
      BY <1>2, <1>3
    <2>2. \A x, o \in behind' : x = o
      BY <1>1 DEF TwoDevices
    <2>3. \A x \in Devices \ behind' : Succeeds(copy'[Cloud], copy'[x])
      BY <1>1, <1>2, <1>4
    <2>4. \A x \in Devices \ touched' : Succeeds(copy'[x], copy'[Cloud])
      BY <1>1, <1>2, <1>4 DEF OrderInv, CopiesInOrder
    <2>5. \A x \in Devices \ touched', o \in Devices \ behind' : o # x => Succeeds(copy'[x], copy'[o])
      BY <1>1, <1>2 DEF OrderInv, CopiesInOrder
    <2>6. \A x \in Devices \ touched', o \in behind' : o # x => copy'[x] = copy'[Cloud]
      BY <1>1, <1>2 DEF TwoDevices
    <2> QED
      BY <2>1, <2>2, <2>3, <2>4, <2>5, <2>6 DEF CopiesInOrder
  <1>7. LeadKept'
    <2> SUFFICES ASSUME NEW x \in Devices
                 PROVE  /\ Own(x)' + Others(x)' <= ops'
                        /\ copy'[x].entry.held => copy'[x].entry.at + Others(x)' <= Horizon'
                        /\ copy'[Cloud].entry.held =>
                             copy'[Cloud].entry.at + Own(x)' + Others(x)' <= Horizon'
                        /\ x \in behind' /\ copy'[x].entry.held =>
                             \/ Succeeds(copy'[Cloud], copy'[x])
                             \/ copy'[x].entry.at + Others(x)' + 1 <= Horizon'
      BY DEF LeadKept
    <2>1. /\ now \in Nat /\ ops \in 0..MaxOps /\ MaxOps \in Nat /\ Horizon \in Int
          /\ Own(x) \in {0, 1} /\ Others(x) \in {0, 1} /\ Horizon' = Horizon
          /\ Own(d) \in {0, 1} /\ Others(d) \in {0, 1}
      BY <1>1, Numbers DEF OrderInv, Horizon
    <2>2. /\ Own(x) + Others(x) <= ops
          /\ copy[x].entry.held => copy[x].entry.at + Others(x) <= Horizon
          /\ copy[d].entry.held => copy[d].entry.at + Others(d) <= Horizon
      BY DEF OrderInv, LeadKept
    <2>3. /\ copy[x].entry.held => copy[x].entry.at \in Nat
          /\ copy[d].entry.held => copy[d].entry.at \in Nat
      BY <1>3 DEF Sound
    <2>4. CASE x = d
      <3>1. Own(x)' = 0 /\ Others(x)' = Others(x)
        BY <1>1, <2>4 DEF Own, Others
      <3> QED
        BY <1>1, <1>2, <2>1, <2>2, <2>3, <2>4, <3>1
    <2>5. CASE x # d
      <3>1. Own(x)' = Own(x) /\ Others(x)' = 0
        BY <1>1, <1>5, <2>5 DEF Own, Others, TwoDevices
      <3>2. Own(x) <= Others(d)
        BY <2>5 DEF Own, Others
      <3>3. copy[x].entry.held =>
              Succeeds(copy[d], copy[x]) \/ copy[x].entry.at + 1 <= Horizon
        <4>1. CASE d \in touched
          <5>1. Others(x) = 1
            BY <2>5, <4>1 DEF Others
          <5> QED
            BY <2>2, <5>1
        <4>2. CASE d \notin touched
          <5>1. x \notin behind
            BY <1>1, <2>5, <4>2 DEF OrderInv, CopiesInOrder
          <5> QED
            BY <2>5, <4>2, <5>1 DEF OrderInv, CopiesInOrder
        <4> QED
          BY <4>1, <4>2
      <3> QED
        BY <1>1, <1>2, <2>1, <2>2, <2>3, <3>1, <3>2, <3>3
    <2> QED
      BY <2>4, <2>5
  <1> QED
    BY <1>6, <1>7

\* What a merge makes of a device's copy fits under the horizon, an answer included:
\* who asks was not known to the other side.
LEMMA MergeLeads ==
  ASSUME OrderInv, NEW d \in behind, NEW m \in EntryCopies, Sound(m), m.entry.held,
         Stamped(m, copy[d], copy[Cloud], ClockOf(d))
  PROVE  m.entry.at + Others(d) <= Horizon
  <1>0. d \in Devices
    BY DEF OrderInv, EntryInv
  <1> DEFINE l == copy[d].entry
             r == copy[Cloud].entry
             clock == ClockOf(d)
  <1>1. /\ now \in Nat /\ ops \in 0..MaxOps /\ MaxOps \in Nat /\ Horizon \in Int
        /\ Own(d) \in {0, 1} /\ Others(d) \in {0, 1}
        /\ clock \in Nat /\ clock <= now + 5 - MaxOps
    BY <1>0, Numbers DEF OrderInv
  <1>2. /\ Own(d) + Others(d) <= ops
        /\ l.held => l.at + Others(d) <= Horizon
        /\ r.held => r.at + Own(d) + Others(d) <= Horizon
        /\ l.held => Succeeds(copy[Cloud], copy[d]) \/ l.at + Others(d) + 1 <= Horizon
    BY <1>0 DEF OrderInv, LeadKept
  <1>3. /\ copy[d] \in EntryCopies /\ copy[Cloud] \in EntryCopies
        /\ Sound(copy[d]) /\ Sound(copy[Cloud])
        /\ Believed(copy[d], clock) /\ Believed(copy[Cloud], clock)
    BY <1>0, StampsBelieved
  <1>4. (l.held => l.at \in Nat) /\ (r.held => r.at \in Nat) /\ m.entry.at \in Nat
    BY <1>3 DEF Sound
  <1>5. CASE l.held /\ m.entry.at = l.at
    BY <1>2, <1>5
  <1>6. CASE r.held /\ m.entry.at = r.at
    BY <1>1, <1>2, <1>4, <1>6
  <1>7. CASE /\ InConflict(copy[d], copy[Cloud], clock)
             /\ m.entry.at <= l.at + 1 \/ m.entry.at <= r.at + 1 \/ m.entry.at <= clock + 1
    <2>1. l.held /\ r.held
      BY <1>7 DEF InConflict, IsLive
    <2>2. Own(d) = 1
      BY <1>0, <1>7, UntouchedIsNotAsked DEF Own
    <2>3. l.at + Others(d) + 1 <= Horizon
      BY <1>1, <1>2, <1>3, <1>7, <2>1, KnownIsNotAsked
    <2>4. r.at + Others(d) + 1 <= Horizon
      BY <1>1, <1>2, <1>4, <2>1, <2>2
    <2>5. clock + Others(d) + 1 <= Horizon
      BY <1>1, <1>2, <2>2 DEF Horizon
    <2> QED
      BY <1>1, <1>4, <1>7, <2>1, <2>3, <2>4, <2>5
  <1> QED
    BY <1>5, <1>6, <1>7 DEF Stamped

LEMMA OrderMerged ==
  ASSUME OrderInv, TwoDevices, NEW d \in Devices, Merge(d)
  PROVE  CopiesInOrder' /\ LeadKept'
  <1> DEFINE clock == ClockOf(d)
  <1>1. PICK side \in IF Ask(d) THEN Sides ELSE {"local"} :
          LET merged == Outcome(d, side)
              cloudNow == IF Contributes(d) THEN merged ELSE copy[Cloud]
          IN /\ merged # Refused
             /\ copy' = [copy EXCEPT ![d] = merged, ![Cloud] = cloudNow]
             /\ touched' = IF merged = cloudNow THEN touched \ {d} ELSE touched
             /\ behind' = IF Contributes(d) THEN Devices \ {d} ELSE behind \ {d}
    BY DEF Merge
  <1> DEFINE m == Outcome(d, side)
             cloudNow == IF Contributes(d) THEN m ELSE copy[Cloud]
  <1>2. /\ m # Refused /\ copy' = [copy EXCEPT ![d] = m, ![Cloud] = cloudNow]
        /\ touched' = (IF m = cloudNow THEN touched \ {d} ELSE touched)
        /\ behind' = (IF Contributes(d) THEN Devices \ {d} ELSE behind \ {d})
        /\ now' = now /\ ops' = ops /\ d \in behind
    BY <1>1 DEF Merge
  <1>3. side \in Sides /\ m = ApplyPicks(copy[d], copy[Cloud], side, clock)
    BY DEF Sides, Outcome
  <1> HIDE DEF m
  <1>4. /\ copy[d] \in EntryCopies /\ copy[Cloud] \in EntryCopies
        /\ Sound(copy[d]) /\ Sound(copy[Cloud])
        /\ Believed(copy[d], clock) /\ Believed(copy[Cloud], clock)
    BY StampsBelieved
  <1>5. clock \in Nat
    BY Numbers DEF OrderInv
  <1> HIDE DEF clock
  <1>6. /\ m \in EntryCopies /\ Sound(m) /\ Succeeds(copy[Cloud], m)
        /\ Stamped(m, copy[d], copy[Cloud], clock)
    BY <1>2, <1>3, <1>4, <1>5, MergeSucceeds
  <1>7. Succeeds(m, m) /\ Succeeds(copy[Cloud], copy[Cloud])
    BY <1>4, <1>6, SucceedsItself
  <1>8. d \notin touched =>
          \A z \in EntryCopies : Succeeds(copy[d], z) /\ Succeeds(copy[Cloud], z) => Succeeds(m, z)
    <2>1. d \notin touched => Succeeds(copy[d], copy[Cloud])
      BY DEF OrderInv, CopiesInOrder
    <2> QED
      BY <1>3, <1>4, <1>5, <2>1, MergeFollows
  <1>9. \A x \in Devices \union {Cloud} : copy[x] \in EntryCopies /\ Sound(copy[x])
    BY CopiesAreTyped DEF OrderInv, CopiesInOrder
  <1>10. touched \subseteq Devices /\ behind = {d}
    BY <1>2 DEF OrderInv, EntryInv, CopiesInOrder
  <1>11. /\ copy'[d] = m /\ copy'[Cloud] = cloudNow
         /\ \A x \in Devices \ {d} : copy'[x] = copy[x]
    BY <1>2, CloudIsNoDevice DEF OrderInv, EntryInv
  <1>12. ASSUME NEW x \in Devices \ {d}
         PROVE  /\ Succeeds(copy[Cloud], copy[x])
                /\ x \notin touched => copy[x] = copy[Cloud]
                /\ d \notin touched => Succeeds(copy[d], copy[x]) /\ Succeeds(m, copy[x])
    <2>1. Succeeds(copy[Cloud], copy[x])
      BY <1>10 DEF OrderInv, CopiesInOrder
    <2>2. x \notin touched => copy[x] = copy[Cloud]
      BY <1>10 DEF OrderInv, CopiesInOrder
    <2>3. d \notin touched => Succeeds(copy[d], copy[x])
      BY <1>10 DEF OrderInv, CopiesInOrder
    <2> QED
      BY <1>8, <1>9, <2>1, <2>2, <2>3
  <1>13. m.entry.held => m.entry.at + Others(d) <= Horizon /\ m.entry.at \in Nat
    BY <1>2, <1>6, MergeLeads DEF clock, Sound
  <1>14. CASE Contributes(d)
    <2>1. /\ copy'[Cloud] = m /\ touched' = touched \ {d} /\ behind' = Devices \ {d}
      BY <1>2, <1>11, <1>14
    <2>2. CopiesInOrder'
      <3>1. \A x \in Devices \union {Cloud} : Sound(copy'[x])
        BY <1>6, <1>9, <1>11, <2>1
      <3>2. \A x, o \in behind' : x = o
        BY <2>1 DEF TwoDevices
      <3>3. \A x \in Devices \ behind' : Succeeds(copy'[Cloud], copy'[x])
        BY <1>7, <1>11, <2>1
      <3>4. \A x \in Devices \ touched' : Succeeds(copy'[x], copy'[Cloud])
        BY <1>6, <1>7, <1>11, <1>12, <2>1
      <3>5. \A x \in Devices \ touched', o \in Devices \ behind' :
              o # x => Succeeds(copy'[x], copy'[o])
        BY <1>6, <1>11, <1>12, <2>1
      <3>6. \A x \in Devices \ touched', o \in behind' : o # x => copy'[x] = copy'[Cloud]
        BY <1>11, <2>1 DEF TwoDevices
      <3> QED
        BY <3>1, <3>2, <3>3, <3>4, <3>5, <3>6 DEF CopiesInOrder
    <2>3. LeadKept'
      <3> SUFFICES ASSUME NEW x \in Devices
                   PROVE  /\ Own(x)' + Others(x)' <= ops'
                          /\ copy'[x].entry.held => copy'[x].entry.at + Others(x)' <= Horizon'
                          /\ copy'[Cloud].entry.held =>
                               copy'[Cloud].entry.at + Own(x)' + Others(x)' <= Horizon'
                          /\ x \in behind' /\ copy'[x].entry.held =>
                               \/ Succeeds(copy'[Cloud], copy'[x])
                               \/ copy'[x].entry.at + Others(x)' + 1 <= Horizon'
        BY DEF LeadKept
      <3>1. /\ now \in Nat /\ ops \in 0..MaxOps /\ MaxOps \in Nat /\ Horizon \in Int
            /\ Own(x) \in {0, 1} /\ Others(x) \in {0, 1} /\ Horizon' = Horizon
            /\ Own(d) \in {0, 1} /\ Others(d) \in {0, 1}
        BY <1>2, Numbers DEF OrderInv, Horizon
      <3>2. /\ Own(x) + Others(x) <= ops
            /\ copy[x].entry.held => copy[x].entry.at + Others(x) <= Horizon
        BY DEF OrderInv, LeadKept
      <3>3. copy[x].entry.held => copy[x].entry.at \in Nat
        BY <1>9 DEF Sound
      <3>4. CASE x = d
        <4>1. Own(x)' = 0 /\ Others(x)' = Others(x)
          BY <2>1, <3>4 DEF Own, Others
        <4> QED
          BY <1>2, <1>11, <1>13, <2>1, <3>1, <3>2, <3>4, <4>1
      <3>5. CASE x # d
        <4>1. Own(x)' = Own(x) /\ Others(x)' = 0
          BY <1>10, <2>1, <3>5 DEF Own, Others, TwoDevices
        <4>2. Own(x) <= Others(d)
          BY <3>5 DEF Own, Others
        <4>3. copy[x].entry.held => Succeeds(m, copy[x]) \/ copy[x].entry.at + 1 <= Horizon
          <5>1. CASE d \in touched
            <6>1. Others(x) = 1
              BY <3>5, <5>1 DEF Others
            <6> QED
              BY <3>2, <6>1
          <5>2. CASE d \notin touched
            BY <1>12, <3>5, <5>2
          <5> QED
            BY <5>1, <5>2
        <4>4. copy'[x] = copy[x]
          BY <1>11, <3>5
        <4> QED
          BY <1>2, <1>13, <2>1, <3>1, <3>2, <3>3, <4>1, <4>2, <4>3, <4>4
      <3> QED
        BY <3>4, <3>5
    <2> QED
      BY <2>2, <2>3
  <1>15. CASE ~Contributes(d)
    <2>1. /\ copy'[Cloud] = copy[Cloud] /\ behind' = {} /\ touched' \subseteq touched
          /\ d \notin touched' => d \notin touched \/ m = copy[Cloud]
          /\ \A x \in Devices \ {d} : x \in touched' <=> x \in touched
      BY <1>2, <1>10, <1>11, <1>15
    <2>2. CopiesInOrder'
      <3>1. \A x \in Devices \union {Cloud} : Sound(copy'[x])
        BY <1>6, <1>9, <1>11, <2>1
      <3>2. \A x \in Devices \ behind' : Succeeds(copy'[Cloud], copy'[x])
        BY <1>6, <1>11, <1>12, <2>1
      <3>3. ASSUME NEW x \in Devices \ touched'
            PROVE  Succeeds(copy'[x], copy'[Cloud])
        <4>1. CASE x = d
          <5>1. d \notin touched => Succeeds(copy[d], copy[Cloud])
            BY DEF OrderInv, CopiesInOrder
          <5> QED
            BY <1>4, <1>7, <1>8, <1>11, <2>1, <3>3, <4>1, <5>1
        <4>2. CASE x # d
          BY <1>7, <1>11, <1>12, <2>1, <3>3, <4>2
        <4> QED
          BY <4>1, <4>2
      <3>4. ASSUME NEW x \in Devices \ touched', NEW o \in Devices, o # x
            PROVE  Succeeds(copy'[x], copy'[o])
        <4>1. CASE x = d
          BY <1>11, <1>12, <2>1, <3>4, <4>1
        <4>2. CASE o = d
          BY <1>6, <1>11, <1>12, <2>1, <3>4, <4>2
        <4> QED
          BY <3>4, <4>1, <4>2 DEF TwoDevices
      <3> QED
        BY <2>1, <3>1, <3>2, <3>3, <3>4 DEF CopiesInOrder
    <2>3. LeadKept'
      <3> SUFFICES ASSUME NEW x \in Devices
                   PROVE  /\ Own(x)' + Others(x)' <= ops'
                          /\ copy'[x].entry.held => copy'[x].entry.at + Others(x)' <= Horizon'
                          /\ copy'[Cloud].entry.held =>
                               copy'[Cloud].entry.at + Own(x)' + Others(x)' <= Horizon'
        BY <2>1 DEF LeadKept
      <3>1. /\ now \in Nat /\ ops \in 0..MaxOps /\ MaxOps \in Nat /\ Horizon \in Int
            /\ Own(x) \in {0, 1} /\ Others(x) \in {0, 1} /\ Horizon' = Horizon
            /\ Own(d) \in {0, 1} /\ Others(d) \in {0, 1}
        BY <1>2, Numbers DEF OrderInv, Horizon
      <3>2. /\ Own(x) + Others(x) <= ops
            /\ copy[x].entry.held => copy[x].entry.at + Others(x) <= Horizon
            /\ copy[Cloud].entry.held => copy[Cloud].entry.at + Own(x) + Others(x) <= Horizon
        BY DEF OrderInv, LeadKept
      <3>3. /\ copy[x].entry.held => copy[x].entry.at \in Nat
            /\ copy[Cloud].entry.held => copy[Cloud].entry.at \in Nat
        BY <1>9 DEF Sound
      <3>4. /\ Own(x)' \in {0, 1} /\ Own(x)' <= Own(x)
            /\ Others(x)' \in {0, 1} /\ Others(x)' <= Others(x)
        BY <2>1 DEF Own, Others
      <3>5. CASE x = d
        BY <1>2, <1>11, <1>13, <2>1, <3>1, <3>2, <3>3, <3>4, <3>5
      <3>6. CASE x # d
        <4>1. copy'[x] = copy[x]
          BY <1>11, <3>6
        <4> QED
          BY <1>2, <2>1, <3>1, <3>2, <3>3, <3>4, <4>1
      <3> QED
        BY <3>5, <3>6
    <2> QED
      BY <2>2, <2>3
  <1> QED
    BY <1>14, <1>15

\* Where it was made from is known to a changed entry's stamps.
LEMMA Advanced ==
  ASSUME NEW x \in EntryCopies, NEW y \in EntryCopies, Sound(x), Sound(y), y.entry.held,
         NEW c \in EntryCopies, c.entry.held, c.grave = y.grave,
         c.entry.at \in Nat, c.entry.at > y.entry.at, c.entry.moved \in Nat,
         (c.entry.in = y.entry.in /\ c.entry.moved = y.entry.moved) \/ c.entry.moved > y.entry.at,
         Succeeds(x, y)
  PROVE  Succeeds(x, c)
  <1>1. CASE x.entry.held
    <2>1. /\ x.entry.at \in Nat /\ x.entry.moved \in Nat /\ x.entry.moved <= x.entry.at
          /\ y.entry.at \in Nat /\ y.entry.moved \in Nat
      BY <1>1 DEF Sound
    <2>2. /\ x.grave <= y.grave /\ x.entry.at <= y.entry.at
          /\ x.entry.in = y.entry.in \/ x.entry.moved < y.entry.moved
      BY <1>1 DEF Succeeds
    <2>3. x.entry.in = c.entry.in \/ x.entry.moved < c.entry.moved
      BY <2>1, <2>2
    <2> QED
      BY <2>1, <2>2, <2>3 DEF Succeeds
  <1>2. CASE ~x.entry.held
    BY <1>2 DEF Succeeds
  <1> QED
    BY <1>1, <1>2

\* A device's copy with the entry changed and its old version archived.
Rewriting(d, text, stamp, place, movedAt) ==
  [copy[d] EXCEPT !.entry =
    [copy[d].entry EXCEPT !.text = text, !.at = stamp, !.in = place, !.moved = movedAt,
                          !.past = @ \union {Version(copy[d].entry)}]]

LEMMA RewrittenIs ==
  ASSUME EntryInv, NEW d \in Devices, copy[d].entry.held, NEW text \in Wordings, NEW stamp \in Stamps,
         NEW place \in Places \union {"bin"}, NEW movedAt \in Stamps
  PROVE  LET c == Rewriting(d, text, stamp, place, movedAt) IN
            /\ c \in EntryCopies /\ c.entry.held /\ c.grave = copy[d].grave
            /\ c.entry.at = stamp /\ c.entry.in = place /\ c.entry.moved = movedAt
            /\ c.entry.text = text /\ c.entry.past = copy[d].entry.past \union {Version(copy[d].entry)}
  <1> DEFINE e == copy[d].entry
             w == Version(e)
             f == [e EXCEPT !.text = text, !.at = stamp, !.in = place, !.moved = movedAt,
                            !.past = @ \union {w}]
  <1>1. copy[d] \in EntryCopies /\ e \in HeldEntries
    BY StampsOfHeld
  <1>2. w \in Archive
    BY <1>1, VersionIsArchived
  <1> HIDE DEF w
  <1>3. /\ f \in HeldEntries /\ f.held /\ f.at = stamp /\ f.in = place /\ f.moved = movedAt
        /\ f.text = text /\ f.past = e.past \union {w}
    BY <1>1, <1>2 DEF HeldEntries
  <1> HIDE DEF f
  <1>4. /\ [copy[d] EXCEPT !.entry = f] \in EntryCopies
        /\ [copy[d] EXCEPT !.entry = f].entry = f
        /\ [copy[d] EXCEPT !.entry = f].grave = copy[d].grave
    BY <1>1, <1>3 DEF EntryCopies
  <1> QED
    BY <1>3, <1>4 DEF f, w, Rewriting

\* The stamps stay within what the code lets them run ahead, so that each mutation is
\* after what it changes.
LEMMA MutationsAdvance ==
  ASSUME OrderInv, NEW d \in Devices, copy[d].entry.held, ops < MaxOps
  PROVE  LET e == copy[d].entry
             next == NextChangeTime(e.at, ClockOf(d))
         IN /\ e.at \in Nat /\ e.moved \in Nat /\ e.moved <= e.at /\ copy[d].grave < e.at
            /\ Later(e.at, e.moved) = e.at
            /\ next \in Nat /\ next > e.at
            /\ next <= e.at + 1 \/ next <= ClockOf(d)
  <1> DEFINE e == copy[d].entry
  <1>1. /\ e.at \in Nat /\ e.moved \in Nat /\ e.moved <= e.at /\ copy[d].grave < e.at
    BY StampsBelieved DEF Sound
  <1>2. Later(e.at, e.moved) = e.at
    BY <1>1 DEF Later
  <1>3. /\ now \in Nat /\ ops \in 0..MaxOps /\ MaxOps \in Nat /\ Others(d) \in {0, 1}
        /\ ClockOf(d) \in Nat /\ now <= ClockOf(d)
    BY Numbers DEF OrderInv
  <1>4. e.at + Others(d) <= Horizon
    BY DEF OrderInv, LeadKept
  <1>5. e.at <= ClockOf(d) + 4
    BY <1>1, <1>3, <1>4 DEF Horizon
  <1>6. NextChangeTime(e.at, ClockOf(d)) = IF ClockOf(d) <= e.at THEN e.at + 1 ELSE ClockOf(d)
    BY <1>1, <1>3, <1>5 DEF NextChangeTime, Undated, MaxTimestampLead
  <1> QED
    BY <1>1, <1>2, <1>3, <1>6

\* What each mutation puts in place of the copy it changes.
LEMMA UpdatedIs ==
  ASSUME OrderInv, NEW d \in Devices, UpdateEntry(d)
  PROVE  LET e == copy[d].entry IN
         /\ e.held /\ e.at \in Nat /\ e.moved \in Nat /\ ops < MaxOps
         /\ \E c \in EntryCopies :
              /\ Mutate(d, c) /\ Sound(c) /\ c.entry.held /\ c.grave = copy[d].grave
              /\ c.entry.at \in Nat /\ c.entry.at > e.at
              /\ c.entry.at <= e.at + 1 \/ c.entry.at <= ClockOf(d)
              /\ c.entry.in = e.in /\ c.entry.moved = e.moved
              /\ c.entry.text = ops + 1 /\ c.entry.past = e.past \union {Version(e)}
  <1> DEFINE e == copy[d].entry
             text == ops + 1
             stamp == NextChangeTime(e.at, ClockOf(d))
             place == e.in
             movedAt == e.moved
             c == [copy[d] EXCEPT !.entry.text = text, !.entry.at = stamp,
                                  !.entry.past = @ \union {Version(e)}]
  <1>0. EntryInv
    BY DEF OrderInv
  <1>1. e.held /\ Mutate(d, c) /\ ops < MaxOps
    BY DEF UpdateEntry, Mutate
  <1>2. /\ copy[d] \in EntryCopies /\ e \in HeldEntries
        /\ place \in Places \union {"bin"} /\ movedAt \in Stamps
    BY <1>1, StampsOfHeld DEF OrderInv
  <1>3. text \in Wordings
    BY <1>1, MergeEntryConstants DEF Wordings, OrderInv, EntryInv
  <1>4. /\ e.at \in Nat /\ e.moved \in Nat /\ e.moved <= e.at /\ copy[d].grave < e.at
        /\ stamp \in Nat /\ stamp > e.at /\ (stamp <= e.at + 1 \/ stamp <= ClockOf(d))
    BY <1>1, MutationsAdvance
  <1> HIDE DEF text, stamp
  <1>5. c = [copy[d] EXCEPT !.entry = [e EXCEPT !.text = text, !.at = stamp, !.in = e.in,
                                                !.moved = e.moved, !.past = @ \union {Version(e)}]]
    BY <1>2 DEF EntryCopies, HeldEntries
  <1>6. /\ c \in EntryCopies /\ c.entry.held /\ c.grave = copy[d].grave
        /\ c.entry.at = stamp /\ c.entry.in = place /\ c.entry.moved = movedAt
        /\ c.entry.text = text /\ c.entry.past = e.past \union {Version(e)}
    <2>1. c = Rewriting(d, text, stamp, place, movedAt)
      BY <1>5 DEF Rewriting
    <2>2. stamp \in Stamps
      BY <1>4 DEF Stamps
    <2> HIDE DEF c, place, movedAt
    <2> QED
      BY <1>0, <1>1, <1>2, <1>3, <2>1, <2>2, RewrittenIs
  <1> HIDE DEF c
  <1>7. Sound(c)
    BY <1>2, <1>4, <1>6, EntryIsTyped DEF Sound
  <1> QED
    BY <1>1, <1>4, <1>6, <1>7 DEF text

LEMMA RelocatedIs ==
  ASSUME OrderInv, NEW d \in Devices, copy[d].entry.held,
         NEW g \in Places \union {"bin"}, Relocate(d, g)
  PROVE  LET e == copy[d].entry IN
         /\ e.at \in Nat /\ e.moved \in Nat
         /\ \E c \in EntryCopies :
              /\ Mutate(d, c) /\ Sound(c) /\ c.entry.held /\ c.grave = copy[d].grave
              /\ c.entry.at \in Nat /\ c.entry.at > e.at
              /\ c.entry.at <= e.at + 1 \/ c.entry.at <= ClockOf(d)
              /\ c.entry.in = g /\ c.entry.moved = c.entry.at
              /\ c.entry.text = e.text /\ c.entry.past = e.past \union {Version(e)}
  <1> DEFINE e == copy[d].entry
             stamp == NextChangeTime(e.at, ClockOf(d))
             text == e.text
             c == [copy[d] EXCEPT !.entry.in = g, !.entry.at = stamp, !.entry.moved = stamp,
                                  !.entry.past = @ \union {Version(e)}]
  <1>0. EntryInv
    BY DEF OrderInv
  <1>1. ops < MaxOps
    BY DEF Relocate, Mutate
  <1>2. /\ e.at \in Nat /\ e.moved \in Nat /\ e.moved <= e.at /\ copy[d].grave < e.at
        /\ stamp \in Nat /\ stamp > e.at /\ (stamp <= e.at + 1 \/ stamp <= ClockOf(d))
        /\ Later(e.at, e.moved) = e.at
    BY <1>1, MutationsAdvance
  <1>3. Mutate(d, c)
    BY <1>2 DEF Relocate
  <1>4. copy[d] \in EntryCopies /\ e \in HeldEntries /\ text \in Wordings
    BY StampsOfHeld DEF OrderInv
  <1> HIDE DEF stamp
  <1>5. c = [copy[d] EXCEPT !.entry = [e EXCEPT !.text = text, !.at = stamp, !.in = g, !.moved = stamp,
                                                !.past = @ \union {Version(e)}]]
    BY <1>4 DEF EntryCopies, HeldEntries
  <1>6. /\ c \in EntryCopies /\ c.entry.held /\ c.grave = copy[d].grave
        /\ c.entry.at = stamp /\ c.entry.in = g /\ c.entry.moved = stamp
        /\ c.entry.text = text /\ c.entry.past = e.past \union {Version(e)}
    <2>1. stamp \in Stamps
      BY <1>2 DEF Stamps
    <2>2. c = Rewriting(d, text, stamp, g, stamp)
      BY <1>5 DEF Rewriting
    <2> HIDE DEF c, text
    <2> QED
      BY <1>0, <1>4, <2>1, <2>2, RewrittenIs
  <1> HIDE DEF c
  <1>7. Sound(c)
    BY <1>2, <1>4, <1>6, EntryIsTyped DEF Sound
  <1> QED
    BY <1>2, <1>3, <1>6, <1>7

LEMMA BuriedIs ==
  ASSUME OrderInv, NEW d \in Devices, DeleteEntryPermanent(d)
  PROVE  /\ copy[d].entry.held /\ copy[d].entry.at \in Nat
         /\ \E c \in EntryCopies :
              /\ Mutate(d, c) /\ ~c.entry.held
              /\ copy[d].entry.at < c.grave /\ copy[d].grave < c.grave
  <1> DEFINE e == copy[d].entry
             tomb == NextChangeTime(e.at, ClockOf(d))
             c == [entry |-> NoEntry, grave |-> tomb]
  <1>1. e.held /\ ops < MaxOps
    BY DEF DeleteEntryPermanent, Mutate
  <1>2. /\ e.at \in Nat /\ copy[d].grave < e.at /\ tomb \in Nat /\ tomb > e.at
        /\ Later(e.at, e.moved) = e.at
    BY <1>1, MutationsAdvance
  <1>3. Mutate(d, c)
    BY <1>2 DEF DeleteEntryPermanent
  <1> HIDE DEF tomb
  <1>4. c \in EntryCopies /\ ~c.entry.held /\ c.grave = tomb
    BY <1>2 DEF EntryCopies, NoEntry
  <1>5. copy[d].grave \in Nat
    BY CopiesAreTyped DEF OrderInv
  <1>6. copy[d].grave < tomb
    BY <1>2, <1>5
  <1> HIDE DEF c
  <1> QED
    BY <1>1, <1>2, <1>3, <1>4, <1>6

LEMMA OrderUpdated ==
  ASSUME OrderInv, NEW d \in Devices, UpdateEntry(d)
  PROVE  CopiesInOrder' /\ LeadKept'
  <1> DEFINE e == copy[d].entry
  <1>1. e.held /\ e.at \in Nat /\ e.moved \in Nat
    BY UpdatedIs
  <1>2. PICK c \in EntryCopies :
          /\ Mutate(d, c) /\ Sound(c) /\ c.entry.held /\ c.grave = copy[d].grave
          /\ c.entry.at \in Nat /\ c.entry.at > e.at
          /\ c.entry.at <= e.at + 1 \/ c.entry.at <= ClockOf(d)
          /\ c.entry.in = e.in /\ c.entry.moved = e.moved
    BY UpdatedIs
  <1>3. Sound(copy[d]) /\ copy[d] \in EntryCopies
    BY StampsBelieved
  <1>4. \A x \in EntryCopies : Sound(x) /\ Succeeds(x, copy[d]) => Succeeds(x, c)
    BY <1>1, <1>2, <1>3, Advanced
  <1> QED
    BY <1>1, <1>2, <1>4, OrderMutated

LEMMA OrderRelocated ==
  ASSUME OrderInv, NEW d \in Devices, copy[d].entry.held,
         NEW g \in Places \union {"bin"}, Relocate(d, g)
  PROVE  CopiesInOrder' /\ LeadKept'
  <1> DEFINE e == copy[d].entry
  <1>1. e.at \in Nat /\ e.moved \in Nat
    BY RelocatedIs
  <1>2. PICK c \in EntryCopies :
          /\ Mutate(d, c) /\ Sound(c) /\ c.entry.held /\ c.grave = copy[d].grave
          /\ c.entry.at \in Nat /\ c.entry.at > e.at
          /\ c.entry.at <= e.at + 1 \/ c.entry.at <= ClockOf(d)
          /\ c.entry.moved = c.entry.at
    BY RelocatedIs
  <1>3. Sound(copy[d]) /\ copy[d] \in EntryCopies
    BY StampsBelieved
  <1>4. \A x \in EntryCopies : Sound(x) /\ Succeeds(x, copy[d]) => Succeeds(x, c)
    BY <1>1, <1>2, <1>3, Advanced
  <1> QED
    BY <1>1, <1>2, <1>4, OrderMutated

LEMMA OrderBuried ==
  ASSUME OrderInv, NEW d \in Devices, DeleteEntryPermanent(d)
  PROVE  CopiesInOrder' /\ LeadKept'
  <1> DEFINE e == copy[d].entry
  <1>1. PICK c \in EntryCopies :
          /\ Mutate(d, c) /\ ~c.entry.held
          /\ e.at < c.grave /\ copy[d].grave < c.grave
    BY BuriedIs
  <1>2. e.held /\ e.at \in Nat /\ copy[d].grave \in Nat /\ c.grave \in Nat
    BY BuriedIs, CopiesAreTyped, EntryIsTyped DEF OrderInv
  <1>3. ASSUME NEW x \in EntryCopies, Sound(x), Succeeds(x, copy[d])
        PROVE  Succeeds(x, c)
    <2>1. x.grave \in Nat /\ x.grave <= copy[d].grave
      BY <1>3, EntryIsTyped DEF Succeeds
    <2>2. x.entry.held => x.entry.at \in Nat /\ x.entry.at <= e.at
      BY <1>2, <1>3 DEF Succeeds, Sound
    <2> QED
      BY <1>1, <1>2, <2>1, <2>2 DEF Succeeds
  <1>4. Sound(c)
    BY <1>1 DEF Sound
  <1> QED
    BY <1>1, <1>2, <1>3, <1>4, OrderMutated

LEMMA OrderTicks ==
  ASSUME OrderInv, copy' = copy, behind' = behind, ops' = ops, touched' = touched,
         now' = now \/ now' = now + 1
  PROVE  CopiesInOrder' /\ LeadKept'
  <1>1. CopiesInOrder'
    BY DEF OrderInv, CopiesInOrder
  <1>2. LeadKept'
    <2> SUFFICES ASSUME NEW x \in Devices
                 PROVE  /\ Own(x) + Others(x) <= ops
                        /\ copy[x].entry.held => copy[x].entry.at + Others(x) <= Horizon'
                        /\ copy[Cloud].entry.held => copy[Cloud].entry.at + Own(x) + Others(x) <= Horizon'
                        /\ x \in behind /\ copy[x].entry.held =>
                             \/ Succeeds(copy[Cloud], copy[x])
                             \/ copy[x].entry.at + Others(x) + 1 <= Horizon'
      BY DEF LeadKept, Own, Others
    <2>1. /\ now \in Nat /\ ops \in 0..MaxOps /\ MaxOps \in Nat /\ Horizon \in Int
          /\ Own(x) \in {0, 1} /\ Others(x) \in {0, 1} /\ Horizon' \in {Horizon, Horizon + 1}
      BY Numbers DEF OrderInv, Horizon
    <2>2. /\ copy[x].entry.held => copy[x].entry.at \in Nat
          /\ copy[Cloud].entry.held => copy[Cloud].entry.at \in Nat
      BY DEF OrderInv, CopiesInOrder, Sound
    <2> QED
      BY <2>1, <2>2 DEF OrderInv, LeadKept
  <1> QED
    BY <1>1, <1>2

-----------------------------------------------------------------------------
(* One entry on two devices: the invariant.                                *)

TwoInv == TwoDevices /\ EntryInv /\ (Believable => CopiesInOrder /\ LeadKept)

LEMMA TwoInitial == TwoDevices /\ EntryInit => TwoInv
  <1> SUFFICES ASSUME TwoDevices, EntryInit, Believable PROVE CopiesInOrder /\ LeadKept
    BY EntryInitial DEF TwoInv
  <1> DEFINE g == CHOOSE g \in Places : TRUE
  <1>1. PICK stamp \in {Undated, 1, FarFuture}, movedAt \in {Undated, 1, FarFuture} :
          /\ base = {stamp, movedAt}
          /\ copy = [c \in Devices \union {Cloud} |->
                   [entry |-> [held |-> TRUE, text |-> 0, at |-> stamp, in |-> g,
                               moved |-> movedAt, past |-> {}],
                    grave |-> Epoch]]
    BY DEF EntryInit
  <1>2. stamp = 1 /\ movedAt = 1
    BY <1>1 DEF Believable
  <1> HIDE DEF g
  <1> DEFINE e == [held |-> TRUE, text |-> 0, at |-> 1, in |-> g, moved |-> 1, past |-> {}]
             c == [entry |-> e, grave |-> 0]
  <1>3. \A x \in Devices \union {Cloud} : copy[x] = c
    BY <1>1, <1>2 DEF Epoch
  <1>4. /\ c.entry.held /\ c.entry.at = 1 /\ c.entry.moved = 1 /\ c.grave = 0
    OBVIOUS
  <1> HIDE DEF c
  <1>5. Sound(c) /\ Succeeds(c, c)
    BY <1>4 DEF Sound, Succeeds
  <1>6. behind = {} /\ touched = {} /\ now = Start /\ ops = 0
    BY DEF EntryInit
  <1>7. CopiesInOrder
    BY <1>3, <1>5, <1>6 DEF CopiesInOrder
  <1>8. ASSUME NEW d \in Devices PROVE Horizon \in Int /\ Horizon >= 10
    <2>1. MaxOps \in Nat /\ MaxOps <= 5
      BY MergeEntryConstants
    <2> QED
      BY <1>6, <2>1 DEF Horizon, Start
  <1>9. LeadKept
    BY <1>3, <1>4, <1>6, <1>8 DEF LeadKept, Own, Others
  <1> QED
    BY <1>7, <1>9

LEMMA BaseStays == [EntryNext]_entryVars => base' = base
  <1> SUFFICES ASSUME [EntryNext]_entryVars PROVE base' = base
    OBVIOUS
  <1>1. ASSUME NEW d, NEW g, Relocate(d, g) PROVE base' = base
    BY <1>1 DEF Relocate, Mutate
  <1>2. ASSUME NEW d \in Devices,
               UpdateEntry(d) \/ DeleteEntry(d) \/ RestoreEntry(d) \/ DeleteEntryPermanent(d)
        PROVE  base' = base
    <2>1. CASE UpdateEntry(d)
      BY <2>1 DEF UpdateEntry, Mutate
    <2>2. CASE DeleteEntry(d)
      BY <1>1, <2>2 DEF DeleteEntry
    <2>3. CASE RestoreEntry(d)
      BY <1>1, <2>3 DEF RestoreEntry
    <2>4. CASE DeleteEntryPermanent(d)
      BY <2>4 DEF DeleteEntryPermanent, Mutate
    <2> QED
      BY <1>2, <2>1, <2>2, <2>3, <2>4
  <1>3. ASSUME NEW d \in Devices, NEW g \in Places, MoveEntry(d, g) PROVE base' = base
    BY <1>1, <1>3 DEF MoveEntry
  <1>4. ASSUME NEW d \in Devices, Upload(d) \/ Merge(d) PROVE base' = base
    BY <1>4 DEF Upload, Merge
  <1>5. Tick \/ UNCHANGED entryVars => base' = base
    BY DEF Tick, entryVars
  <1> QED
    BY <1>2, <1>3, <1>4, <1>5 DEF EntryNext

LEMMA TwoSteps == TwoInv /\ [EntryNext]_entryVars => TwoInv'
  <1> SUFFICES ASSUME TwoInv, [EntryNext]_entryVars PROVE TwoInv'
    OBVIOUS
  <1>1. TwoDevices /\ TwoDevices' /\ EntryInv'
    BY EntrySteps DEF TwoInv, TwoDevices
  <1>2. Believable' <=> Believable
    BY BaseStays DEF Believable
  <1> SUFFICES ASSUME Believable PROVE CopiesInOrder' /\ LeadKept'
    BY <1>1, <1>2 DEF TwoInv
  <1>3. OrderInv
    BY DEF TwoInv, OrderInv
  <1>4. CASE UNCHANGED entryVars
    BY <1>3, <1>4, OrderTicks DEF entryVars
  <1>5. ASSUME NEW d \in Devices, UpdateEntry(d) PROVE CopiesInOrder' /\ LeadKept'
    BY <1>3, <1>5, OrderUpdated
  <1>6. ASSUME NEW d \in Devices, DeleteEntry(d) PROVE CopiesInOrder' /\ LeadKept'
    BY <1>3, <1>6, OrderRelocated DEF DeleteEntry, IsLive
  <1>7. ASSUME NEW d \in Devices, RestoreEntry(d) PROVE CopiesInOrder' /\ LeadKept'
    BY <1>3, <1>7, OrderRelocated DEF RestoreEntry
  <1>8. ASSUME NEW d \in Devices, NEW g \in Places, MoveEntry(d, g) PROVE CopiesInOrder' /\ LeadKept'
    BY <1>3, <1>8, OrderRelocated DEF MoveEntry, IsLive
  <1>9. ASSUME NEW d \in Devices, DeleteEntryPermanent(d) PROVE CopiesInOrder' /\ LeadKept'
    BY <1>3, <1>9, OrderBuried
  <1>10. ASSUME NEW d \in Devices, Upload(d) PROVE CopiesInOrder' /\ LeadKept'
    BY <1>1, <1>3, <1>10, OrderUploaded
  <1>11. ASSUME NEW d \in Devices, Merge(d) PROVE CopiesInOrder' /\ LeadKept'
    BY <1>1, <1>3, <1>11, OrderMerged
  <1>12. Tick => CopiesInOrder' /\ LeadKept'
    BY <1>3, OrderTicks DEF Tick
  <1> QED
    BY <1>4, <1>5, <1>6, <1>7, <1>8, <1>9, <1>10, <1>11, <1>12 DEF EntryNext

LEMMA TwoPromises == TwoInv => AnswersStand /\ UnchangedCopyFollows
  <1> SUFFICES ASSUME TwoInv PROVE AnswersStand /\ UnchangedCopyFollows
    OBVIOUS
  <1>1. Believable => OrderInv
    BY DEF TwoInv, OrderInv
  <1>2. AskedOnce
    BY <1>1, UntouchedIsNotAsked DEF AskedOnce, Ask, Believable
  <1>3. UnchangedCopyFollows
    <2> SUFFICES ASSUME Believable, NEW d \in behind \ touched
                 PROVE  Follows(Outcome(d, "local"), copy[Cloud])
      BY DEF UnchangedCopyFollows, Believable
    <2>1. d \in Devices \ touched
      BY DEF TwoInv, EntryInv
    <2>2. Succeeds(copy[d], copy[Cloud])
      BY <1>1, <2>1 DEF OrderInv, CopiesInOrder
    <2>3. /\ copy[d] \in EntryCopies /\ copy[Cloud] \in EntryCopies
          /\ Sound(copy[d]) /\ Sound(copy[Cloud])
          /\ Believed(copy[d], ClockOf(d)) /\ Believed(copy[Cloud], ClockOf(d))
      BY <1>1, <2>1, StampsBelieved
    <2>4. ClockOf(d) \in Nat /\ "local" \in Sides
      BY <1>1, <2>1, Numbers DEF OrderInv, Sides
    <2> QED
      BY <2>2, <2>3, <2>4, MergeFollows DEF Outcome
  <1> QED
    BY <1>2, <1>3, AnswersGoThrough DEF AnswersStand, TwoInv

-----------------------------------------------------------------------------
(* One entry on two devices: what it says.                                 *)

\* The entry, wherever it is held.
Held == {copy[c].entry : c \in {x \in Devices \union {Cloud} : copy[x].entry.held}}

\* What a user chose to have although something else may be newer.
Kept == picked \union carried

\* A version is named by the mutation that made it.
WordingsSoFar ==
  /\ \A e \in Held : e.text <= ops /\ \A v \in e.past : v.text <= ops
  /\ buried \in [Devices -> SUBSET Nat]
  /\ \A d \in Devices : \A t \in buried[d] : t <= ops

\* What was written once has one stamp, is older than what replaced it, and is no newer
\* than its deletion on the device that deleted it.
OneStamp ==
  \A e, f \in Held : e.text = f.text /\ e.text \notin Kept => e.at = f.at

ReplacedIsOlder ==
  \A e, f \in Held : \A v \in e.past :
    v.text = f.text /\ v.text \notin Kept => f.at < e.at

BuriedIsOlder ==
  \A d \in Devices : \A e \in Held : e.text \in buried[d] \ Kept => e.at <= copy[d].grave

WordInv == WordingsSoFar /\ OneStamp /\ ReplacedIsOlder /\ BuriedIsOlder

\* What the entry of a step says is new, chosen, or as it was; and what its archive has, an
\* older entry had or was.
Told(e) ==
  /\ e.text <= ops'
  /\ \/ e.text \in Kept' \/ e.text > ops
     \/ \E f \in Held : f.text = e.text /\ f.at = e.at
  /\ \A v \in e.past : \E f \in Held :
       (v \in f.past /\ f.at <= e.at) \/ (v.text = f.text /\ f.at < e.at)

LEMMA HeldIs ==
  ASSUME OrderInv
  PROVE  /\ \A e \in Held : /\ e \in HeldEntries /\ e.held /\ e.at \in Nat /\ e.text \in Nat
                            /\ \A v \in e.past : v.text \in Nat
         /\ \A d \in Devices : copy[d].grave \in Nat
         /\ ops \in Nat
  <1>1. \A c \in Devices \union {Cloud} :
          copy[c].entry.held => copy[c].entry \in HeldEntries /\ copy[c].entry.at \in Nat
    BY EntryIsTyped DEF OrderInv, EntryInv, CopiesInOrder, Sound
  <1>2. \A e \in HeldEntries : e.text \in Nat /\ \A v \in e.past : v.text \in Nat
    BY MergeEntryConstants DEF HeldEntries, Archive, Wordings
  <1>3. \A d \in Devices : copy[d].grave \in Nat
    BY EntryIsTyped DEF OrderInv, EntryInv
  <1>4. ops \in Nat
    BY MergeEntryConstants DEF OrderInv, EntryInv
  <1> QED
    BY <1>1, <1>2, <1>3, <1>4 DEF Held

LEMMA WordsKept ==
  ASSUME OrderInv, WordInv, NEW m \in EntryCopies, Sound(m),
         \A c \in Devices \union {Cloud} : copy'[c] \in {copy[c], m},
         m.entry.held => Told(m.entry),
         Kept \subseteq Kept', ops' \in Nat, ops <= ops',
         \A d \in Devices : copy[d].grave <= copy'[d].grave /\ copy'[d].grave \in Nat,
         buried' \in [Devices -> SUBSET Nat],
         \A d \in Devices : \A t \in buried'[d] :
           t \in buried[d] \/ \E f \in Held : f.text = t /\ f.at <= copy'[d].grave
  PROVE  WordInv'
  <1> DEFINE e == m.entry
  <1>1. \A f \in Held' : f \in Held \/ (f = e /\ e.held)
    BY DEF Held
  <1>2. e.held => /\ e \in HeldEntries /\ e.at \in Nat /\ e.text \in Nat
                  /\ \A v \in e.past : v.text \in Nat
    <2>1. \A x \in HeldEntries : x.text \in Nat /\ \A v \in x.past : v.text \in Nat
      BY MergeEntryConstants DEF HeldEntries, Archive, Wordings
    <2>2. e.held => e \in HeldEntries /\ e.at \in Nat
      BY EntryIsTyped DEF Sound
    <2> QED
      BY <2>1, <2>2
  <1>3. e.held => Told(e)
    OBVIOUS
  <1> HIDE DEF e
  <1>4. /\ \A f \in Held : /\ f.at \in Nat /\ f.text \in Nat /\ f.text <= ops
                           /\ \A v \in f.past : v.text \in Nat /\ v.text <= ops
        /\ \A d \in Devices : copy[d].grave \in Nat
        /\ ops \in Nat
    BY HeldIs DEF WordInv, WordingsSoFar
  <1>5. e.held => \A v \in e.past : v.text <= ops
    BY <1>3, <1>4 DEF Told
  <1>6. \A d \in Devices : \A t \in buried'[d] : t <= ops
    BY <1>4 DEF WordInv, WordingsSoFar
  <1>7. WordingsSoFar'
    <2>1. \A f \in Held' : f.text <= ops' /\ \A v \in f.past : v.text <= ops'
      BY <1>1, <1>2, <1>3, <1>4, <1>5 DEF Told
    <2>2. \A d \in Devices : \A t \in buried'[d] : t <= ops'
      BY <1>4, <1>6
    <2> QED
      BY <2>1, <2>2 DEF WordingsSoFar
  <1>8. ASSUME e.held, e.text \notin Kept', NEW f \in Held, f.text = e.text
        PROVE  f.at = e.at
    <2>1. PICK g \in Held : g.text = e.text /\ g.at = e.at
      BY <1>2, <1>3, <1>4, <1>8 DEF Told
    <2> QED
      BY <1>8, <2>1 DEF WordInv, OneStamp
  <1>9. OneStamp'
    <2> SUFFICES ASSUME NEW f \in Held', NEW g \in Held', f.text = g.text, f.text \notin Kept'
                 PROVE  f.at = g.at
      BY DEF OneStamp
    <2>1. f \in Held /\ g \in Held => f.at = g.at
      BY DEF WordInv, OneStamp
    <2> QED
      BY <1>1, <1>8, <2>1
  <1>10. ReplacedIsOlder'
    <2> SUFFICES ASSUME NEW f \in Held', NEW g \in Held', NEW v \in f.past,
                        v.text = g.text, v.text \notin Kept'
                 PROVE  g.at < f.at
      BY DEF ReplacedIsOlder
    <2>1. ASSUME NEW x \in Held, NEW y \in Held, NEW w \in x.past, w.text = y.text, w.text \notin Kept
          PROVE  y.at < x.at
      BY <2>1 DEF WordInv, ReplacedIsOlder
    <2>2. g.at \in Nat /\ f.at \in Nat /\ v.text \notin Kept
      BY <1>1, <1>2, <1>4
    <2>3. ASSUME NEW x \in Held, v \in x.past PROVE g.at < x.at
      <3>1. CASE g \in Held
        BY <2>1, <2>2, <2>3, <3>1
      <3>2. CASE g = e /\ e.held
        <4>1. v.text <= ops /\ v.text \in Nat
          BY <1>4, <2>3
        <4>2. PICK y \in Held : y.text = e.text /\ y.at = e.at
          BY <1>3, <1>4, <3>2, <4>1 DEF Told
        <4> QED
          BY <2>1, <2>2, <2>3, <3>2, <4>2
      <3> QED
        BY <1>1, <3>1, <3>2
    <2>4. ASSUME NEW x \in Held, v.text = x.text PROVE g.at = x.at
      <3>1. CASE g \in Held
        BY <2>2, <2>4, <3>1 DEF WordInv, OneStamp
      <3>2. CASE g = e /\ e.held
        BY <1>8, <2>4, <3>2
      <3> QED
        BY <1>1, <3>1, <3>2
    <2>5. CASE f \in Held
      BY <2>3, <2>5
    <2>6. CASE f = e /\ e.held
      <3>1. PICK x \in Held : (v \in x.past /\ x.at <= e.at) \/ (v.text = x.text /\ x.at < e.at)
        BY <1>3, <2>6 DEF Told
      <3>2. x.at \in Nat
        BY <1>4
      <3> QED
        BY <2>2, <2>3, <2>4, <2>6, <3>1, <3>2
    <2> QED
      BY <1>1, <2>5, <2>6
  <1>11. BuriedIsOlder'
    <2> SUFFICES ASSUME NEW d \in Devices, NEW f \in Held', f.text \in buried'[d], f.text \notin Kept'
                 PROVE  f.at <= copy'[d].grave
      BY DEF BuriedIsOlder
    <2>1. PICK g \in Held : g.text = f.text /\ g.at = f.at
      <3>1. f.text <= ops
        BY <1>6
      <3>2. CASE f = e /\ e.held
        BY <1>2, <1>3, <1>4, <3>1, <3>2 DEF Told
      <3> QED
        BY <1>1, <3>2
    <2>2. f.text \notin Kept /\ g.at \in Nat /\ copy[d].grave \in Nat /\ copy'[d].grave \in Nat
          /\ copy[d].grave <= copy'[d].grave
      BY <1>4
    <2>3. CASE f.text \in buried[d]
      <3>1. g.at <= copy[d].grave
        BY <2>1, <2>2, <2>3 DEF WordInv, BuriedIsOlder
      <3> QED
        BY <2>1, <2>2, <3>1
    <2>4. CASE f.text \notin buried[d]
      <3>1. PICK x \in Held : x.text = f.text /\ x.at <= copy'[d].grave
        BY <2>4
      <3>2. x.at = g.at
        BY <2>1, <2>2, <3>1 DEF WordInv, OneStamp
      <3> QED
        BY <2>1, <3>1, <3>2
    <2> QED
      BY <2>3, <2>4
  <1> QED
    BY <1>7, <1>9, <1>10, <1>11 DEF WordInv

LEMMA WordsMutated ==
  ASSUME OrderInv, WordInv, NEW d \in Devices, copy[d].entry.held,
         NEW c \in EntryCopies, Mutate(d, c), Sound(c), copy[d].grave <= c.grave,
         c.entry.held => Told(c.entry), carried \subseteq carried',
         buried' \in [Devices -> SUBSET Nat],
         \A x \in Devices : \A t \in buried'[x] :
           t \in buried[x] \/ \E f \in Held : f.text = t /\ f.at <= copy'[x].grave
  PROVE  WordInv'
  <1>1. /\ copy' = [copy EXCEPT ![d] = c] /\ ops' = ops + 1 /\ picked' = picked
    BY DEF Mutate
  <1>2. \A x \in Devices \union {Cloud} : copy'[x] = IF x = d THEN c ELSE copy[x]
    BY <1>1 DEF OrderInv, EntryInv
  <1>3. ops' \in Nat /\ ops <= ops'
    BY <1>1, HeldIs
  <1>4. \A x \in Devices : copy[x].grave <= copy'[x].grave /\ copy'[x].grave \in Nat
    BY <1>2, EntryIsTyped, HeldIs
  <1>5. Kept \subseteq Kept'
    BY <1>1 DEF Kept
  <1> QED
    BY <1>2, <1>3, <1>4, <1>5, WordsKept

LEMMA WordsUpdated ==
  ASSUME OrderInv, WordInv, NEW d \in Devices, UpdateEntry(d)
  PROVE  WordInv'
  <1> DEFINE e == copy[d].entry
  <1>1. e.held /\ e.at \in Nat /\ e \in Held
    BY UpdatedIs DEF Held
  <1>2. PICK c \in EntryCopies :
          /\ Mutate(d, c) /\ Sound(c) /\ c.entry.held /\ c.grave = copy[d].grave
          /\ c.entry.at \in Nat /\ c.entry.at > e.at
          /\ c.entry.text = ops + 1 /\ c.entry.past = e.past \union {Version(e)}
    BY UpdatedIs
  <1>3. /\ ops' = ops + 1 /\ carried' = carried /\ buried' = buried
    BY <1>2 DEF UpdateEntry, Mutate
  <1>4. Told(c.entry)
    <2>1. \A v \in c.entry.past : (v \in e.past /\ e.at <= c.entry.at) \/ (v.text = e.text /\ e.at < c.entry.at)
      BY <1>1, <1>2 DEF Version
    <2>2. c.entry.text <= ops' /\ c.entry.text > ops
      BY <1>2, <1>3, HeldIs
    <2> QED
      BY <1>1, <2>1, <2>2 DEF Told
  <1>5. copy[d].grave <= c.grave
    BY <1>2, HeldIs
  <1>6. buried' \in [Devices -> SUBSET Nat]
    BY <1>3 DEF WordInv, WordingsSoFar
  <1> QED
    BY <1>1, <1>2, <1>3, <1>4, <1>5, <1>6, WordsMutated

LEMMA WordsRelocated ==
  ASSUME OrderInv, WordInv, NEW d \in Devices, copy[d].entry.held,
         NEW g \in Places \union {"bin"}, Relocate(d, g)
  PROVE  WordInv'
  <1> DEFINE e == copy[d].entry
  <1>1. e.at \in Nat /\ e \in Held
    BY RelocatedIs DEF Held
  <1>2. PICK c \in EntryCopies :
          /\ Mutate(d, c) /\ Sound(c) /\ c.entry.held /\ c.grave = copy[d].grave
          /\ c.entry.at \in Nat /\ c.entry.at > e.at
          /\ c.entry.text = e.text /\ c.entry.past = e.past \union {Version(e)}
    BY RelocatedIs
  <1>3. /\ ops' = ops + 1 /\ carried' = carried \union {e.text} /\ buried' = buried
    BY <1>2 DEF Relocate, Mutate
  <1>4. Told(c.entry)
    <2>1. \A v \in c.entry.past : (v \in e.past /\ e.at <= c.entry.at) \/ (v.text = e.text /\ e.at < c.entry.at)
      BY <1>1, <1>2 DEF Version
    <2>2. c.entry.text <= ops'
      BY <1>1, <1>2, <1>3, HeldIs DEF WordInv, WordingsSoFar
    <2>3. c.entry.text \in Kept'
      BY <1>2, <1>3 DEF Kept
    <2> QED
      BY <1>1, <2>1, <2>2, <2>3 DEF Told
  <1>5. copy[d].grave <= c.grave
    BY <1>2, HeldIs
  <1>6. buried' \in [Devices -> SUBSET Nat] /\ carried \subseteq carried'
    BY <1>3 DEF WordInv, WordingsSoFar
  <1> QED
    BY <1>2, <1>3, <1>4, <1>5, <1>6, WordsMutated

LEMMA WordsBuried ==
  ASSUME OrderInv, WordInv, NEW d \in Devices, DeleteEntryPermanent(d)
  PROVE  WordInv'
  <1> DEFINE e == copy[d].entry
  <1>1. e.held /\ e.at \in Nat /\ e \in Held
    BY BuriedIs DEF Held
  <1>2. PICK c \in EntryCopies :
          /\ Mutate(d, c) /\ ~c.entry.held /\ e.at < c.grave /\ copy[d].grave < c.grave
    BY BuriedIs
  <1>3. /\ carried' = carried /\ buried' = [buried EXCEPT ![d] = @ \union {e.text}]
        /\ copy' = [copy EXCEPT ![d] = c]
    BY <1>2 DEF DeleteEntryPermanent, Mutate
  <1>4. c.grave \in Nat /\ copy[d].grave \in Nat /\ e.text \in Nat
    BY <1>1, EntryIsTyped, HeldIs
  <1>5. buried \in [Devices -> SUBSET Nat]
    BY DEF WordInv, WordingsSoFar
  <1>6. /\ buried' \in [Devices -> SUBSET Nat]
        /\ \A x \in Devices : \A t \in buried'[x] : t \in buried[x] \/ (x = d /\ t = e.text)
    BY <1>3, <1>4, <1>5
  <1>7. copy'[d] = c
    BY <1>3 DEF OrderInv, EntryInv
  <1>8. e.at <= copy'[d].grave
    BY <1>1, <1>2, <1>4, <1>7
  <1>9. \A x \in Devices : \A t \in buried'[x] :
          t \in buried[x] \/ \E f \in Held : f.text = t /\ f.at <= copy'[x].grave
    BY <1>1, <1>6, <1>8
  <1>10. Sound(c) /\ copy[d].grave <= c.grave
    BY <1>2, <1>4 DEF Sound
  <1> HIDE DEF e
  <1> QED
    BY <1>1, <1>2, <1>3, <1>6, <1>9, <1>10, WordsMutated DEF e

\* A step that makes no new copy.
LEMMA WordsStay ==
  ASSUME OrderInv, WordInv, NEW m \in EntryCopies, Sound(m),
         \A c \in Devices \union {Cloud} : copy'[c] \in {copy[c], m},
         m.entry.held => m.entry \in Held,
         \A d \in Devices : copy'[d] = copy[d],
         UNCHANGED <<ops, picked, carried, buried>>
  PROVE  WordInv'
  <1>1. m.entry.held => Told(m.entry)
    <2> SUFFICES ASSUME m.entry.held PROVE Told(m.entry)
      OBVIOUS
    <2> DEFINE e == m.entry
    <2>1. e \in Held /\ e.text <= ops' /\ e.at <= e.at
      BY HeldIs DEF WordInv, WordingsSoFar
    <2> QED
      BY <2>1 DEF Told
  <1>2. Kept \subseteq Kept' /\ ops' \in Nat /\ ops <= ops' /\ buried' \in [Devices -> SUBSET Nat]
    BY HeldIs DEF Kept, WordInv, WordingsSoFar
  <1>3. \A d \in Devices : copy[d].grave <= copy'[d].grave /\ copy'[d].grave \in Nat
    BY HeldIs
  <1> QED
    BY <1>1, <1>2, <1>3, WordsKept

LEMMA WordsUploaded ==
  ASSUME OrderInv, WordInv, NEW d \in Devices, Upload(d)
  PROVE  WordInv'
  <1>1. /\ copy' = [copy EXCEPT ![Cloud] = copy[d]] /\ UNCHANGED <<ops, picked, carried, buried>>
    BY DEF Upload
  <1>2. \A x \in Devices \union {Cloud} : copy'[x] = IF x = Cloud THEN copy[d] ELSE copy[x]
    BY <1>1 DEF OrderInv, EntryInv
  <1>3. copy[d] \in EntryCopies /\ Sound(copy[d])
    BY StampsBelieved
  <1>4. copy[d].entry.held => copy[d].entry \in Held
    BY DEF Held
  <1> QED
    BY <1>1, <1>2, <1>3, <1>4, CloudIsNoDevice, WordsStay

LEMMA WordsTick ==
  ASSUME OrderInv, WordInv, UNCHANGED <<copy, ops, picked, carried, buried>>
  PROVE  WordInv'
  BY DEF WordInv, WordingsSoFar, OneStamp, ReplacedIsOlder, BuriedIsOlder, Held, Kept

\* What was there of the entry is older than what the merge makes of it, or the same.
Behind(v, e, m) == (v \in e.past /\ e.at <= m.at) \/ (v.text = e.text /\ e.at < m.at)

LEMMA MergeSays ==
  ASSUME NEW ours \in EntryCopies, NEW theirs \in EntryCopies, Sound(ours), Sound(theirs),
         NEW side \in Sides, NEW clock \in Nat, Believed(ours, clock), Believed(theirs, clock),
         NEW m, m = ApplyPicks(ours, theirs, side, clock), m # Refused, m.entry.held
  PROVE  LET l == ours.entry
             r == theirs.entry
         IN /\ \/ l.held /\ m.entry.text = l.text /\ (m.entry.at = l.at \/ InConflict(ours, theirs, clock))
               \/ r.held /\ m.entry.text = r.text /\ (m.entry.at = r.at \/ InConflict(ours, theirs, clock))
            /\ \A v \in m.entry.past : (l.held /\ Behind(v, l, m.entry)) \/ (r.held /\ Behind(v, r, m.entry))
  <1> DEFINE l == ours.entry
             r == theirs.entry
             e == m.entry
  <1>1. CASE ~BothHold(ours, theirs)
    <2>1. /\ l.held => e = l
          /\ r.held => e = r
          /\ l.held \/ r.held
      <3>1. KeptOfOne(m, ours, theirs)
        BY <1>1, OneHolds
      <3> QED
        BY <3>1 DEF KeptOfOne
    <2>2. (l.held => l.at \in Nat) /\ (r.held => r.at \in Nat)
      BY DEF Sound
    <2> QED
      BY <2>1, <2>2 DEF Behind
  <1>2. CASE BothHold(ours, theirs)
    <2>1. l.held /\ r.held /\ l.at \in Nat /\ r.at \in Nat
      BY <1>2 DEF BothHold, Sound
    <2>2. CASE InConflict(ours, theirs, clock)
      <3>1. Settled(e, l, r, clock)
        <4>1. Answered(m, ours, theirs, clock)
          BY <1>2, <2>2, AskedSettles
        <4> QED
          BY <4>1 DEF Answered
      <3>2. e.text \in {l.text, r.text} /\ e.at > l.at /\ e.at > r.at /\ e.at \in Nat
        BY <3>1 DEF Settled
      <3>3. \A v \in e.past : v \in l.past \union r.past \/ v.text \in {l.text, r.text}
        BY <3>1 DEF Settled
      <3> HIDE DEF e
      <3> QED
        BY <2>1, <2>2, <3>2, <3>3 DEF Behind, e
    <2>3. CASE ~InConflict(ours, theirs, clock)
      <3>1. Ranked(l, r) /\ Joined(e, l, r)
        <4>1. Joint(m, ours, theirs)
          BY <1>2, <2>3, UnaskedJoins
        <4> QED
          BY <4>1 DEF Joint
      <3>2. /\ e.at = (IF r.at > l.at THEN r.at ELSE l.at)
            /\ e.text = (IF r.at > l.at THEN r.text ELSE l.text)
            /\ \A v \in e.past : Archived(v, l, r)
        BY <3>1 DEF Joined
      <3>3. l.text # r.text => l.at # r.at
        BY <3>1 DEF Ranked
      <3>4. ASSUME NEW v \in e.past PROVE Behind(v, l, e) \/ Behind(v, r, e)
        <4>1. CASE v \in l.past \union r.past
          BY <2>1, <3>2, <4>1 DEF Behind
        <4>2. CASE l.text # r.text /\ v = Loser(l, r)
          <5>1. v.text = IF r.at > l.at THEN l.text ELSE r.text
            BY <4>2 DEF Loser, Version
          <5> QED
            BY <2>1, <3>2, <3>3, <4>2, <5>1 DEF Behind
        <4> QED
          BY <3>2, <4>1, <4>2 DEF Archived
      <3>5. \/ e.text = l.text /\ e.at = l.at
            \/ e.text = r.text /\ e.at = r.at
        BY <3>2
      <3> QED
        BY <2>1, <3>4, <3>5
    <2> QED
      BY <2>2, <2>3
  <1> QED
    BY <1>1, <1>2

LEMMA WordsMerged ==
  ASSUME OrderInv, WordInv, NEW d \in Devices, Merge(d)
  PROVE  WordInv'
  <1> DEFINE clock == ClockOf(d)
  <1>1. PICK side \in IF Ask(d) THEN Sides ELSE {"local"} :
          LET merged == Outcome(d, side)
              cloudNow == IF Contributes(d) THEN merged ELSE copy[Cloud]
          IN /\ merged # Refused
             /\ copy' = [copy EXCEPT ![d] = merged, ![Cloud] = cloudNow]
             /\ picked' = IF Ask(d) /\ merged.entry.held
                          THEN picked \union {merged.entry.text} ELSE picked
    BY DEF Merge
  <1> DEFINE m == Outcome(d, side)
             cloudNow == IF Contributes(d) THEN m ELSE copy[Cloud]
  <1>2. /\ m # Refused /\ copy' = [copy EXCEPT ![d] = m, ![Cloud] = cloudNow]
        /\ picked' = (IF Ask(d) /\ m.entry.held THEN picked \union {m.entry.text} ELSE picked)
        /\ UNCHANGED <<ops, carried, buried>> /\ d \in behind
    BY <1>1 DEF Merge
  <1>3. side \in Sides /\ m = ApplyPicks(copy[d], copy[Cloud], side, clock)
    BY DEF Sides, Outcome
  <1> HIDE DEF m
  <1>4. /\ copy[d] \in EntryCopies /\ copy[Cloud] \in EntryCopies
        /\ Sound(copy[d]) /\ Sound(copy[Cloud])
        /\ Believed(copy[d], clock) /\ Believed(copy[Cloud], clock)
    BY StampsBelieved
  <1>5. clock \in Nat
    BY Numbers DEF OrderInv
  <1>6. Ask(d) <=> InConflict(copy[d], copy[Cloud], clock)
    BY <1>2 DEF Ask
  <1> HIDE DEF clock
  <1>7. m \in EntryCopies /\ Sound(m) /\ Later(copy[d].grave, copy[Cloud].grave) = m.grave
    <2>1. m \in EntryCopies /\ Sound(m)
      BY <1>2, <1>3, <1>4, <1>5, MergeSucceeds
    <2>2. CASE ~BothHold(copy[d], copy[Cloud])
      <3>1. KeptOfOne(m, copy[d], copy[Cloud])
        BY <1>3, <1>4, <1>5, <2>2, OneHolds
      <3> QED
        BY <2>1, <3>1 DEF KeptOfOne
    <2>3. CASE BothHold(copy[d], copy[Cloud]) /\ InConflict(copy[d], copy[Cloud], clock)
      <3>1. Answered(m, copy[d], copy[Cloud], clock)
        BY <1>3, <1>4, <1>5, <2>3, AskedSettles
      <3> QED
        BY <2>1, <3>1 DEF Answered
    <2>4. CASE BothHold(copy[d], copy[Cloud]) /\ ~InConflict(copy[d], copy[Cloud], clock)
      <3>1. Joint(m, copy[d], copy[Cloud])
        BY <1>3, <1>4, <1>5, <2>4, UnaskedJoins
      <3> QED
        BY <1>2, <2>1, <3>1 DEF Joint
    <2> QED
      BY <2>1, <2>2, <2>3, <2>4
  <1>8. \A x \in Devices \union {Cloud} :
          copy'[x] = IF x = d THEN m ELSE IF x = Cloud THEN cloudNow ELSE copy[x]
    BY <1>2, CloudIsNoDevice DEF OrderInv, EntryInv
  <1>9. \A x \in Devices : copy[x].grave <= copy'[x].grave /\ copy'[x].grave \in Nat
    <2>1. copy[d].grave <= m.grave /\ m.grave \in Nat
      BY <1>4, <1>7, EntryIsTyped, LaterIs
    <2> QED
      BY <1>8, <2>1, CloudIsNoDevice, HeldIs
  <1>10. m.entry.held => Told(m.entry)
    <2> SUFFICES ASSUME m.entry.held PROVE Told(m.entry)
      OBVIOUS
    <2> DEFINE l == copy[d].entry
               r == copy[Cloud].entry
               e == m.entry
    <2>1. (l.held => l \in Held) /\ (r.held => r \in Held)
      BY DEF Held
    <2>2. /\ \/ l.held /\ e.text = l.text /\ (e.at = l.at \/ Ask(d))
             \/ r.held /\ e.text = r.text /\ (e.at = r.at \/ Ask(d))
          /\ \A v \in e.past : (l.held /\ Behind(v, l, e)) \/ (r.held /\ Behind(v, r, e))
      BY <1>2, <1>3, <1>4, <1>5, <1>6, MergeSays
    <2>3. Ask(d) => e.text \in Kept'
      BY <1>2 DEF Kept
    <2> HIDE DEF l, r, e
    <2>4. e.text <= ops'
      BY <1>2, <2>1, <2>2 DEF WordInv, WordingsSoFar
    <2>5. e.text \in Kept' \/ \E f \in Held : f.text = e.text /\ f.at = e.at
      BY <2>1, <2>2, <2>3
    <2>6. \A v \in e.past : \E f \in Held :
            (v \in f.past /\ f.at <= e.at) \/ (v.text = f.text /\ f.at < e.at)
      BY <2>1, <2>2 DEF Behind
    <2>7. Told(e)
      BY <2>4, <2>5, <2>6 DEF Told
    <2> QED
      BY <2>7 DEF e
  <1>11. Kept \subseteq Kept' /\ ops' \in Nat /\ ops <= ops' /\ buried' \in [Devices -> SUBSET Nat]
    BY <1>2, HeldIs DEF Kept, WordInv, WordingsSoFar
  <1> HIDE DEF cloudNow
  <1>12. cloudNow \in {copy[Cloud], m}
    BY DEF cloudNow
  <1> QED
    BY <1>2, <1>7, <1>8, <1>9, <1>10, <1>11, <1>12, WordsKept

\* A merge nobody is asked about, of what both hold: it goes by the stamps.
LEMMA UnaskedOutcome ==
  ASSUME OrderInv, NEW d \in Devices, BothHold(copy[d], copy[Cloud]),
         ~InConflict(copy[d], copy[Cloud], ClockOf(d)), Outcome(d, "local") # Refused
  PROVE  LET m == Outcome(d, "local")
             l == copy[d].entry
             r == copy[Cloud].entry
         IN /\ l.at \in Nat /\ r.at \in Nat
            /\ l.held /\ r.held /\ copy[d].grave < l.at /\ copy[Cloud].grave < r.at
            /\ m.grave = Later(copy[d].grave, copy[Cloud].grave)
            /\ m.entry.held <=> l.at > m.grave \/ r.at > m.grave
            /\ m.entry.held => Joined(m.entry, l, r)
            /\ Ranked(l, r)
  <1>1. /\ copy[d] \in EntryCopies /\ copy[Cloud] \in EntryCopies
        /\ Sound(copy[d]) /\ Sound(copy[Cloud])
    BY StampsBelieved
  <1>2. ClockOf(d) \in Nat /\ "local" \in Sides
    BY Numbers DEF OrderInv, Sides
  <1> DEFINE m == Outcome(d, "local")
  <1>3. m = ApplyPicks(copy[d], copy[Cloud], "local", ClockOf(d)) /\ m # Refused
    BY DEF Outcome
  <1> HIDE DEF m
  <1>4. /\ m.grave = Later(copy[d].grave, copy[Cloud].grave)
        /\ m.entry.held <=> copy[d].entry.at > m.grave \/ copy[Cloud].entry.at > m.grave
        /\ m.entry.held => Joined(m.entry, copy[d].entry, copy[Cloud].entry)
        /\ Ranked(copy[d].entry, copy[Cloud].entry)
    <2>1. Joint(m, copy[d], copy[Cloud])
      BY <1>1, <1>2, <1>3, UnaskedJoins
    <2> QED
      BY <1>3, <2>1 DEF Joint
  <1> QED
    BY <1>1, <1>4 DEF m, Sound, BothHold

LEMMA EditsBeat ==
  ASSUME OrderInv, WordInv, NEW d \in Devices, BroughtBack(d)
  PROVE  Outcome(d, "local").entry.text \in Kept
  <1> DEFINE m == Outcome(d, "local")
             e == m.entry
             l == copy[d].entry
             r == copy[Cloud].entry
  <1>1. /\ BothHold(copy[d], copy[Cloud]) /\ ~InConflict(copy[d], copy[Cloud], ClockOf(d))
        /\ m # Refused /\ e.held /\ e.text # l.text /\ e.text \in {v.text : v \in l.past}
    BY DEF BroughtBack, Ask, IsLive, BothHold
  <1>2. l.at \in Nat /\ r.at \in Nat /\ l.held /\ r.held /\ Joined(e, l, r)
    BY <1>1, UnaskedOutcome
  <1> HIDE DEF m
  <1>3. e.text = r.text /\ r.at > l.at
    BY <1>1, <1>2 DEF Joined
  <1>4. PICK v \in l.past : v.text = r.text
    BY <1>1, <1>3
  <1>5. l \in Held /\ r \in Held
    BY <1>2 DEF Held
  <1>6. v.text \notin Kept => r.at < l.at
    BY <1>4, <1>5 DEF WordInv, ReplacedIsOlder
  <1>7. v.text \in Kept
    BY <1>2, <1>3, <1>6
  <1> QED
    BY <1>3, <1>4, <1>7 DEF m

LEMMA DeletedStays ==
  ASSUME OrderInv, WordInv, NEW d \in Devices, copy[d].entry.held
  PROVE  copy[d].entry.text \notin buried[d] \ Kept
  <1>1. copy[d].entry \in Held
    BY DEF Held
  <1>2. copy[d].entry.at \in Nat /\ copy[d].grave \in Nat /\ copy[d].grave < copy[d].entry.at
    BY HeldIs, StampsBelieved DEF Sound
  <1>3. copy[d].entry.text \in buried[d] \ Kept => copy[d].entry.at <= copy[d].grave
    BY <1>1 DEF WordInv, BuriedIsOlder
  <1> QED
    BY <1>2, <1>3

LEMMA SkippedLoses ==
  ASSUME OrderInv, NEW d \in behind, IsLive(copy[d]) \/ IsLive(copy[Cloud]),
         Outcome(d, "local") # Refused, ~Contributes(d)
  PROVE  LET merged == Outcome(d, "local") IN
         /\ merged.grave = copy[Cloud].grave
         /\ merged.entry.held = copy[Cloud].entry.held
         /\ merged.entry.held =>
              /\ merged.entry.text = copy[Cloud].entry.text
              /\ merged.entry.in = copy[Cloud].entry.in
              /\ \A v \in merged.entry.past \ copy[Cloud].entry.past :
                   copy[d].entry.held /\ v = Version(copy[d].entry)
  <1> DEFINE ours == copy[d]
             theirs == copy[Cloud]
             l == copy[d].entry
             r == copy[Cloud].entry
             clock == ClockOf(d)
             m == Outcome(d, "local")
             e == m.entry
  <1>1. d \in Devices
    BY DEF OrderInv, EntryInv
  <1>2. ours \in EntryCopies /\ theirs \in EntryCopies /\ Sound(ours) /\ Sound(theirs)
        /\ ours.grave \in Nat /\ theirs.grave \in Nat /\ l.held \in BOOLEAN /\ r.held \in BOOLEAN
    BY <1>1, StampsBelieved, EntryIsTyped
  <1>3. ~InConflict(ours, theirs, clock) /\ ~HasLocalContribution(ours, theirs, clock)
    BY DEF Contributes, Ask
  <1>4. /\ ours.grave = theirs.grave
        /\ BothHold(ours, theirs) => l.in = r.in /\ l.past \subseteq r.past
        /\ ~(IsLive(ours) /\ ~IsLive(theirs))
        /\ IsLive(ours) /\ IsLive(theirs) => ContentWinner(ours, theirs, clock) # "local"
    BY <1>3 DEF HasLocalContribution, StructureDiffers, HistoryAhead
  <1>5. Later(ours.grave, theirs.grave) = theirs.grave
    BY <1>2, <1>4 DEF Later
  <1>6. clock \in Nat /\ "local" \in Sides
    BY <1>1, Numbers DEF OrderInv, Sides
  <1>7. m # Refused /\ m = ApplyPicks(ours, theirs, "local", clock)
    BY DEF Outcome
  <1>8. CASE ~BothHold(ours, theirs)
    <2>1. r.held /\ ~l.held
      BY <1>2, <1>4, <1>8 DEF IsLive, BothHold
    <2>2. r.at \in Nat /\ theirs.grave < r.at
      BY <1>2, <2>1 DEF Sound
    <2> HIDE DEF m
    <2>3. /\ m.grave = Later(ours.grave, theirs.grave)
          /\ r.held => (m.entry.held <=> r.at > m.grave) /\ (m.entry.held => m.entry = r)
      <3>1. KeptOfOne(m, ours, theirs)
        BY <1>2, <1>6, <1>7, <1>8, OneHolds
      <3> QED
        BY <3>1 DEF KeptOfOne
    <2>4. m.grave = theirs.grave /\ m.entry = r
      BY <1>2, <1>5, <2>1, <2>2, <2>3
    <2> QED
      BY <2>4 DEF m
  <1>9. CASE BothHold(ours, theirs)
    <2>1. /\ l.at \in Nat /\ r.at \in Nat
          /\ l.held /\ r.held /\ ours.grave < l.at /\ theirs.grave < r.at
          /\ m.grave = Later(ours.grave, theirs.grave)
          /\ e.held <=> l.at > m.grave \/ r.at > m.grave
          /\ e.held => Joined(e, l, r)
      BY <1>1, <1>3, <1>7, <1>9, UnaskedOutcome
    <2>2. IsLive(ours) /\ IsLive(theirs)
      BY <1>4, <1>9, <2>1 DEF IsLive
    <2>3. ContentWinner(ours, theirs, clock) \notin {"local", "nobody"}
      BY <1>3, <1>4, <2>2 DEF InConflict
    <2>4. l.text = r.text \/ r.at > l.at
      BY <2>1, <2>3 DEF ContentWinner, TimestampWinner
    <2> HIDE DEF m
    <2>5. m.grave = theirs.grave /\ e.held
      BY <1>2, <1>5, <2>1
    <2>6. Joined(e, l, r)
      BY <2>1, <2>5
    <2>7. e.text = r.text /\ e.in = r.in
      BY <1>4, <1>9, <2>4, <2>6 DEF Joined
    <2>8. \A v \in e.past \ r.past : v = Version(l)
      <3>1. \A v \in e.past : v \in l.past \union r.past \/ (l.text # r.text /\ v = Loser(l, r))
        BY <2>6 DEF Joined, Archived
      <3>2. l.text # r.text => Loser(l, r) = Version(l)
        BY <2>4 DEF Loser
      <3> QED
        BY <1>4, <1>9, <3>1, <3>2
    <2> QED
      BY <2>1, <2>5, <2>7, <2>8 DEF m
  <1> QED
    BY <1>8, <1>9

LastInv == TwoInv /\ Believable /\ WordInv

LEMMA LastInitial == TwoDevices /\ EntryInit /\ Believable => LastInv
  <1> SUFFICES ASSUME TwoDevices, EntryInit, Believable PROVE WordInv
    BY TwoInitial DEF LastInv
  <1> DEFINE g == CHOOSE g \in Places : TRUE
  <1>1. PICK stamp \in {Undated, 1, FarFuture}, movedAt \in {Undated, 1, FarFuture} :
          copy = [c \in Devices \union {Cloud} |->
                   [entry |-> [held |-> TRUE, text |-> 0, at |-> stamp, in |-> g,
                               moved |-> movedAt, past |-> {}],
                    grave |-> Epoch]]
    BY DEF EntryInit
  <1> HIDE DEF g
  <1> DEFINE only == [held |-> TRUE, text |-> 0, at |-> stamp, in |-> g, moved |-> movedAt, past |-> {}]
  <1>2. \A c \in Devices \union {Cloud} : copy[c].entry = only
    BY <1>1
  <1>3. only.text = 0 /\ only.past = {}
    OBVIOUS
  <1> HIDE DEF only
  <1>4. \A e \in Held : e = only
    BY <1>2 DEF Held
  <1>5. \A e \in Held : e.text = 0 /\ e.past = {}
    BY <1>3, <1>4
  <1>6. \A e, f \in Held : e.at = f.at
    BY <1>4
  <1>7. ops = 0 /\ buried = [d \in Devices |-> {}]
    BY DEF EntryInit
  <1> QED
    BY <1>5, <1>6, <1>7 DEF WordInv, WordingsSoFar, OneStamp, ReplacedIsOlder, BuriedIsOlder

LEMMA LastSteps == LastInv /\ [EntryNext]_entryVars => LastInv'
  <1> SUFFICES ASSUME LastInv, [EntryNext]_entryVars PROVE WordInv'
    BY TwoSteps, BaseStays DEF LastInv, Believable
  <1>1. OrderInv /\ WordInv
    BY DEF LastInv, TwoInv, OrderInv
  <1>2. UNCHANGED entryVars \/ Tick => WordInv'
    BY <1>1, WordsTick DEF Tick, entryVars
  <1>3. ASSUME NEW d \in Devices, UpdateEntry(d) PROVE WordInv'
    BY <1>1, <1>3, WordsUpdated
  <1>4. ASSUME NEW d \in Devices, DeleteEntry(d) PROVE WordInv'
    BY <1>1, <1>4, WordsRelocated DEF DeleteEntry, IsLive
  <1>5. ASSUME NEW d \in Devices, RestoreEntry(d) PROVE WordInv'
    BY <1>1, <1>5, WordsRelocated DEF RestoreEntry
  <1>6. ASSUME NEW d \in Devices, NEW g \in Places, MoveEntry(d, g) PROVE WordInv'
    BY <1>1, <1>6, WordsRelocated DEF MoveEntry, IsLive
  <1>7. ASSUME NEW d \in Devices, DeleteEntryPermanent(d) PROVE WordInv'
    BY <1>1, <1>7, WordsBuried
  <1>8. ASSUME NEW d \in Devices, Upload(d) PROVE WordInv'
    BY <1>1, <1>8, WordsUploaded
  <1>9. ASSUME NEW d \in Devices, Merge(d) PROVE WordInv'
    BY <1>1, <1>9, WordsMerged
  <1> QED
    BY <1>2, <1>3, <1>4, <1>5, <1>6, <1>7, <1>8, <1>9 DEF EntryNext

LEMMA LastPromises ==
  LastInv => EditBeatsItsBase /\ DeletedStaysDeleted /\ UnchangedCopyFollows /\ SkippedUploadLosesNothing
  <1> SUFFICES ASSUME LastInv
               PROVE  EditBeatsItsBase /\ DeletedStaysDeleted /\ SkippedUploadLosesNothing
    BY TwoPromises DEF LastInv
  <1>1. OrderInv /\ WordInv
    BY DEF LastInv, TwoInv, OrderInv
  <1>2. EditBeatsItsBase
    BY <1>1, EditsBeat DEF EditBeatsItsBase, Kept
  <1>3. DeletedStaysDeleted
    BY <1>1, DeletedStays DEF DeletedStaysDeleted, Kept
  <1>4. SkippedUploadLosesNothing
    BY <1>1, SkippedLoses DEF SkippedUploadLosesNothing
  <1> QED
    BY <1>2, <1>3, <1>4

LEMMA TwoHold == TwoDevices => (EntrySpec => [](AnswersStand /\ UnchangedCopyFollows))
  BY TwoInitial, TwoSteps, TwoPromises, PTL DEF EntrySpec

LEMMA LastHold ==
  TwoDevices => (EntrySpec /\ Believable =>
    [](EditBeatsItsBase /\ DeletedStaysDeleted /\ UnchangedCopyFollows /\ SkippedUploadLosesNothing))
  BY LastInitial, LastSteps, LastPromises, PTL DEF EntrySpec

-----------------------------------------------------------------------------
(* What a vault has once: what a walk upwards meets.                       *)

Spots == AllGroups \union {Top, None}
Above(v, p) == {z \in Spots : Under(v, p, z)}

LEMMA AboveIsClosed ==
  ASSUME NEW v, v.where \in [AllGroups -> Spots], NEW p \in Spots
  PROVE  /\ Above(v, p) \in ClosedUpwards(v.where) /\ p \in Above(v, p)
         /\ \A S \in ClosedUpwards(v.where) : p \in S => Above(v, p) \subseteq S
  <1>1. \A S \in ClosedUpwards(v.where) : p \in S => Above(v, p) \subseteq S
    BY DEF Above, Under
  <1>2. ASSUME NEW h \in Above(v, p) \intersect AllGroups PROVE v.where[h] \in Above(v, p)
    <2>1. v.where[h] \in Spots
      BY <1>2
    <2>2. ASSUME NEW S \in ClosedUpwards(v.where), p \in S PROVE v.where[h] \in S
      BY <1>1, <1>2, <2>2 DEF ClosedUpwards
    <2> QED
      BY <2>1, <2>2 DEF Above, Under
  <1>3. p \in Above(v, p)
    BY DEF Above, Under
  <1> QED
    BY <1>1, <1>2, <1>3 DEF Above, ClosedUpwards, Spots

\* Two trees that agree on what is above a place have the same above it.
LEMMA SameAbove ==
  ASSUME NEW v, NEW w, NEW C \in ClosedUpwards(v.where), NEW p \in C,
         \A h \in C \intersect AllGroups : w.where[h] = v.where[h]
  PROVE  /\ C \in ClosedUpwards(w.where)
         /\ \A x : Under(v, p, x) <=> Under(w, p, x)
  <1>1. C \in ClosedUpwards(w.where)
    BY DEF ClosedUpwards
  <1>2. ASSUME NEW S \in ClosedUpwards(v.where) PROVE S \intersect C \in ClosedUpwards(w.where)
    BY <1>2 DEF ClosedUpwards
  <1>3. ASSUME NEW S \in ClosedUpwards(w.where) PROVE S \intersect C \in ClosedUpwards(v.where)
    BY <1>3 DEF ClosedUpwards
  <1>4. ASSUME NEW x, Under(w, p, x) PROVE Under(v, p, x)
    BY <1>2, <1>4 DEF Under
  <1>5. ASSUME NEW x, Under(v, p, x) PROVE Under(w, p, x)
    BY <1>3, <1>5 DEF Under
  <1> QED
    BY <1>1, <1>4, <1>5

\* The groups and entries of a copy are in groups it has, or at the top.
GroupsThere(v) == \A g \in GroupsOf(v) : v.where[g] \in GroupsOf(v) \union {Top}
EntriesThere(v) == \A e \in Secrets : v.entry[e] \in GroupsOf(v) \union {Top}

-----------------------------------------------------------------------------
(* What a vault has once: where a merge puts groups and entries.           *)

Decider(ours, theirs, side) ==
  LET winner == RecycleBinWinner(ours, theirs)
  IN IF (IF winner \in {"local", "remote"} THEN winner ELSE side) = "local" THEN ours ELSE theirs

\* Before the bins are looked at: a group both have is where it was put last, and newer
\* than either where that had to be asked.
Mixed(m, ours, theirs) ==
  /\ \A g \in AllGroups :
       /\ ~Has(theirs, g) => m.where[g] = ours.where[g] /\ m.moved[g] = ours.moved[g]
       /\ ~Has(ours, g) /\ Has(theirs, g) => m.where[g] = theirs.where[g] /\ m.moved[g] = theirs.moved[g]
       /\ Has(ours, g) /\ Has(theirs, g) =>
            IF g \in TiedGroups(ours, theirs)
            THEN /\ m.where[g] \in {ours.where[g], theirs.where[g]}
                 /\ m.moved[g] > ours.moved[g]
            ELSE IF theirs.moved[g] > ours.moved[g]
                 THEN m.where[g] = theirs.where[g] /\ m.moved[g] = theirs.moved[g]
                 ELSE m.where[g] = ours.where[g] /\ m.moved[g] = ours.moved[g]
  /\ \A e \in Secrets :
       /\ m.entry[e] \in {ours.entry[e], theirs.entry[e]}
       /\ e \notin TiedEntries(ours, theirs) =>
            m.entry[e] = IF theirs.put[e] > ours.put[e] THEN theirs.entry[e] ELSE ours.entry[e]

\* The group x of the bin that lost put into the bin of m, which is lifted out first
\* where it is below x.
Nested(w, m, x) ==
  /\ m.bin \in AllGroups /\ x \in AllGroups /\ x # m.bin /\ m.where[x] # None
  /\ w.bin = m.bin /\ w.entry = m.entry
  /\ IF Under(m, m.bin, x)
     THEN /\ w.where = [m.where EXCEPT ![m.bin] = m.where[x], ![x] = m.bin]
          /\ w.moved = [m.moved EXCEPT ![m.bin] = time, ![x] = time]
     ELSE /\ w.where = [m.where EXCEPT ![x] = m.bin]
          /\ w.moved = [m.moved EXCEPT ![x] = time]

Lost(m, ours, theirs) ==
  {g \in {ours.bin, theirs.bin} \ {None, m.bin} :
     Has(m, g) /\ ~RetiredOnPurpose({ours, theirs}, m.bin, g)}

LEMMA PlacedIs ==
  ASSUME NEW v \in Copies, NEW g \in AllGroups, NEW target \in AllGroups \union {Top}, time \in Nat
  PROVE  /\ Placed(v, g, target) \in Copies
         /\ Placed(v, g, target).bin = v.bin /\ Placed(v, g, target).entry = v.entry
         /\ Placed(v, g, target).where = [v.where EXCEPT ![g] = target]
         /\ Placed(v, g, target).moved = [v.moved EXCEPT ![g] = time]
  <1> DEFINE where == [v.where EXCEPT ![g] = target]
             moments == [v.moved EXCEPT ![g] = time]
             w == [v EXCEPT !.where = where, !.moved = moments]
  <1>1. where \in [AllGroups -> AllGroups \union {Top, None}] /\ moments \in [AllGroups -> Nat]
    BY DEF Copies
  <1>2. Placed(v, g, target) = w
    BY DEF Placed
  <1> HIDE DEF where, moments
  <1>3. /\ w \in Copies /\ w.bin = v.bin /\ w.entry = v.entry /\ w.where = where /\ w.moved = moments
    BY <1>1 DEF Copies
  <1> QED
    BY <1>2, <1>3 DEF where, moments

LEMMA NestingIs ==
  ASSUME NEW m \in Copies, NEW x \in AllGroups, NEW y \in AllGroups, y = m.bin, x # y,
         NEW p \in AllGroups \union {Top}, p = m.where[x], time \in Nat
  PROVE  Nested(NestIntoBin(m, x), m, x)
  <1>1. ASSUME Under(m, y, x) PROVE Nested(NestIntoBin(m, x), m, x)
    <2>1. PICK l : l = Placed(m, y, p)
      OBVIOUS
    <2>2. PICK w : w = Placed(l, x, y)
      OBVIOUS
    <2>3. NestIntoBin(m, x) = w
      BY <1>1, <2>1, <2>2 DEF NestIntoBin
    <2>4. /\ l \in Copies /\ l.bin = m.bin /\ l.entry = m.entry
          /\ l.where = [m.where EXCEPT ![y] = p] /\ l.moved = [m.moved EXCEPT ![y] = time]
      BY <2>1, PlacedIs
    <2>5. /\ w.bin = l.bin /\ w.entry = l.entry
          /\ w.where = [l.where EXCEPT ![x] = y] /\ w.moved = [l.moved EXCEPT ![x] = time]
      BY <2>2, <2>4, PlacedIs
    <2>6. /\ w.where = [m.where EXCEPT ![y] = p, ![x] = y]
          /\ w.moved = [m.moved EXCEPT ![y] = time, ![x] = time]
      BY <2>4, <2>5 DEF Copies
    <2> QED
      BY <1>1, <2>3, <2>4, <2>5, <2>6, NamesApart DEF Nested
  <1>2. ASSUME ~Under(m, y, x) PROVE Nested(NestIntoBin(m, x), m, x)
    <2>1. PICK w : w = Placed(m, x, y)
      OBVIOUS
    <2>2. NestIntoBin(m, x) = w
      BY <1>2, <2>1 DEF NestIntoBin
    <2>3. /\ w.bin = m.bin /\ w.entry = m.entry
          /\ w.where = [m.where EXCEPT ![x] = y] /\ w.moved = [m.moved EXCEPT ![x] = time]
      BY <2>1, PlacedIs
    <2> QED
      BY <1>2, <2>2, <2>3, NamesApart DEF Nested
  <1> QED
    BY <1>1, <1>2

LEMMA ReunionIs ==
  ASSUME NEW m, CopyOK(m), NEW ours, NEW theirs, time \in Nat,
         ours.bin \in AllGroups \union {None}, theirs.bin \in AllGroups \union {None}
  PROVE  LET w == ReuniteRecycleBins(m, ours, theirs) IN
         \/ w = m /\ (m.bin = None \/ Lost(m, ours, theirs) = {})
         \/ m.bin # None /\ \E x \in Lost(m, ours, theirs) : Nested(w, m, x)
  <1> DEFINE lost == Lost(m, ours, theirs)
             x == CHOOSE g \in lost : TRUE
             y == m.bin
  <1>1. ReuniteRecycleBins(m, ours, theirs) = IF m.bin = None \/ lost = {} THEN m ELSE NestIntoBin(m, x)
    BY DEF ReuniteRecycleBins, Lost
  <1>2. CASE m.bin = None \/ lost = {}
    BY <1>1, <1>2
  <1>3. CASE m.bin # None /\ lost # {}
    <2>1. x \in lost
      BY <1>3
    <2>2. /\ x \in AllGroups /\ x # y /\ y \in AllGroups /\ m.where[x] \in AllGroups \union {Top}
          /\ m \in Copies
      BY <1>3, <2>1 DEF Lost, CopyOK, Copies, Has, GroupsOf
    <2> HIDE DEF x
    <2>3. Nested(NestIntoBin(m, x), m, x)
      BY <2>2, NestingIs
    <2> QED
      BY <1>1, <1>3, <2>1, <2>3
  <1> QED
    BY <1>2, <1>3

\* Where two places tie, one side is dated after both and the other as old as can be.
LEMMA PlacesDated ==
  ASSUME NEW ours, NEW theirs, CopyOK(ours), CopyOK(theirs), time \in Nat, NEW side \in Either
  PROVE  LET p == ForcePlaces(ours, theirs, side) IN
         /\ \A g \in AllGroups : IF g \in TiedGroups(ours, theirs)
              THEN IF side = "local"
                   THEN p.ours.moved[g] = After(ours.moved[g], theirs.moved[g]) /\ p.theirs.moved[g] = DayOne
                   ELSE p.theirs.moved[g] = After(ours.moved[g], theirs.moved[g]) /\ p.ours.moved[g] = DayOne
              ELSE p.ours.moved[g] = ours.moved[g] /\ p.theirs.moved[g] = theirs.moved[g]
         /\ \A e \in Secrets \ TiedEntries(ours, theirs) :
              p.ours.put[e] = ours.put[e] /\ p.theirs.put[e] = theirs.put[e]
  <1> DEFINE groups == TiedGroups(ours, theirs)
             entries == {e \in TiedEntries(ours, theirs) : ~Deleted(ours, e) /\ ~Deleted(theirs, e)}
             when(v, wins) == [g \in AllGroups |-> IF g \notin groups THEN v.moved[g] ELSE IF wins
                                 THEN After(ours.moved[g], theirs.moved[g]) ELSE DayOne]
             since(v, wins) == [e \in Secrets |-> IF e \notin entries THEN v.put[e] ELSE IF wins
                                  THEN After(ours.put[e], theirs.put[e]) ELSE DayOne]
             stamped(v, wins) == [v EXCEPT !.moved = when(v, wins), !.put = since(v, wins)]
  <1>1. ForcePlaces(ours, theirs, side) =
          [ours |-> stamped(ours, side = "local"), theirs |-> stamped(theirs, side = "remote")]
    BY DEF ForcePlaces
  <1>2. ours \in Copies /\ theirs \in Copies
    BY DEF CopyOK
  <1>3. /\ \A g \in AllGroups : \A v : \A wins : when(v, wins)[g] =
             IF g \notin groups THEN v.moved[g] ELSE IF wins
             THEN After(ours.moved[g], theirs.moved[g]) ELSE DayOne
        /\ \A e \in Secrets \ entries : \A v : \A wins : since(v, wins)[e] = v.put[e]
    OBVIOUS
  <1> HIDE DEF when, since, groups, entries
  <1>4. \A v \in Copies : \A wins :
          stamped(v, wins).moved = when(v, wins) /\ stamped(v, wins).put = since(v, wins)
    BY DEF Copies
  <1>5. entries \subseteq TiedEntries(ours, theirs)
    BY DEF entries
  <1> HIDE DEF stamped
  <1> DEFINE p == ForcePlaces(ours, theirs, side)
  <1>6. /\ p.ours.moved = when(ours, side = "local") /\ p.theirs.moved = when(theirs, side = "remote")
        /\ p.ours.put = since(ours, side = "local") /\ p.theirs.put = since(theirs, side = "remote")
    BY <1>1, <1>2, <1>4
  <1> HIDE DEF p
  <1>7. side = "local" \/ side = "remote"
    BY DEF Either
  <1>8. ASSUME NEW g \in AllGroups
        PROVE  IF g \in groups
               THEN IF side = "local"
                    THEN p.ours.moved[g] = After(ours.moved[g], theirs.moved[g]) /\ p.theirs.moved[g] = DayOne
                    ELSE p.theirs.moved[g] = After(ours.moved[g], theirs.moved[g]) /\ p.ours.moved[g] = DayOne
               ELSE p.ours.moved[g] = ours.moved[g] /\ p.theirs.moved[g] = theirs.moved[g]
    <2>1. p.ours.moved[g] = when(ours, side = "local")[g] /\ p.theirs.moved[g] = when(theirs, side = "remote")[g]
      BY <1>6
    <2>2. when(ours, side = "local")[g] = IF g \notin groups THEN ours.moved[g] ELSE IF side = "local"
                                          THEN After(ours.moved[g], theirs.moved[g]) ELSE DayOne
      BY <1>3
    <2>3. when(theirs, side = "remote")[g] = IF g \notin groups THEN theirs.moved[g] ELSE IF side = "remote"
                                          THEN After(ours.moved[g], theirs.moved[g]) ELSE DayOne
      BY <1>3
    <2> QED
      BY <1>7, <2>1, <2>2, <2>3
  <1>9. ASSUME NEW e \in Secrets \ TiedEntries(ours, theirs)
        PROVE  p.ours.put[e] = ours.put[e] /\ p.theirs.put[e] = theirs.put[e]
    BY <1>3, <1>5, <1>6
  <1> QED
    BY <1>8, <1>9 DEF p, groups

\* A bin nothing ranks is the one of the side picked.
LEMMA BinPicked ==
  ASSUME NEW ours, NEW theirs, CopyOK(ours), CopyOK(theirs), time \in Nat, NEW side \in Either,
         RecycleBinWinner(ours, theirs) = None
  PROVE  LET f == ForceMeta(ours, theirs, side) IN
         /\ f.ours.bin = IF side = "local" THEN ours.bin ELSE theirs.bin
         /\ f.ours.binAt \in Nat /\ f.ours.binAt > f.theirs.binAt
  <1> DEFINE named == NameWinner(ours, theirs) = None
             chosen == IF side = "local" THEN ours ELSE theirs
             name == IF named THEN chosen.name ELSE ours.name
             nameAt == IF named THEN After(ours.nameAt, theirs.nameAt) ELSE ours.nameAt
             oldName == IF named THEN DayOne ELSE theirs.nameAt
             bin == chosen.bin
             binAt == After(ours.binAt, theirs.binAt)
             o == [ours EXCEPT !.name = name, !.nameAt = nameAt, !.bin = bin, !.binAt = binAt]
             t == [theirs EXCEPT !.nameAt = oldName, !.binAt = DayOne]
  <1>1. ForceMeta(ours, theirs, side) = [ours |-> o, theirs |-> t]
    BY DEF ForceMeta
  <1>2. ours \in Copies /\ theirs \in Copies
    BY DEF CopyOK
  <1>3. binAt \in Nat /\ binAt > 0
    BY <1>2 DEF Copies, After, Newest, Moments, NoDate
  <1> HIDE DEF name, nameAt, oldName, binAt, bin
  <1>4. o.bin = bin /\ o.binAt = binAt /\ t.binAt = DayOne
    BY <1>2 DEF Copies
  <1> HIDE DEF o, t
  <1> QED
    BY <1>1, <1>3, <1>4 DEF DayOne, bin

LEMMA ForkMixes ==
  ASSUME NEW ours \in Copies, NEW theirs \in Copies
  PROVE  LET m == ForkTogether(ours, theirs) IN
         /\ \A g \in AllGroups :
              IF Has(theirs, g) /\ (~Has(ours, g) \/ theirs.moved[g] > ours.moved[g])
              THEN m.where[g] = theirs.where[g] /\ m.moved[g] = theirs.moved[g]
              ELSE m.where[g] = ours.where[g] /\ m.moved[g] = ours.moved[g]
         /\ \A e \in Secrets :
              m.entry[e] = IF theirs.put[e] > ours.put[e] THEN theirs.entry[e] ELSE ours.entry[e]
  <1> DEFINE theirMove(g) == Has(theirs, g) /\ (~Has(ours, g) \/ theirs.moved[g] > ours.moved[g])
             theirPut(e) == theirs.put[e] > ours.put[e]
             name == IF theirs.nameAt > ours.nameAt THEN theirs.name ELSE ours.name
             nameAt == Newest(ours.nameAt, theirs.nameAt)
             bin == IF theirs.binAt > ours.binAt THEN theirs.bin ELSE ours.bin
             binAt == Newest(ours.binAt, theirs.binAt)
             where == [g \in AllGroups |-> IF theirMove(g) THEN theirs.where[g] ELSE ours.where[g]]
             moments == [g \in AllGroups |-> IF theirMove(g) THEN theirs.moved[g] ELSE ours.moved[g]]
             entry == [e \in Secrets |-> IF theirPut(e) THEN theirs.entry[e] ELSE ours.entry[e]]
             put == [e \in Secrets |-> IF theirPut(e) THEN theirs.put[e] ELSE ours.put[e]]
             m == [ours EXCEPT !.name = name, !.nameAt = nameAt, !.bin = bin, !.binAt = binAt,
                               !.where = where, !.moved = moments, !.entry = entry, !.put = put]
  <1>1. ForkTogether(ours, theirs) = m
    BY DEF ForkTogether
  <1>2. /\ \A g \in AllGroups : IF theirMove(g) THEN where[g] = theirs.where[g] /\ moments[g] = theirs.moved[g]
                                ELSE where[g] = ours.where[g] /\ moments[g] = ours.moved[g]
        /\ \A e \in Secrets : entry[e] = IF theirPut(e) THEN theirs.entry[e] ELSE ours.entry[e]
    OBVIOUS
  <1> HIDE DEF name, nameAt, bin, binAt, where, moments, entry, put
  <1>3. m.where = where /\ m.moved = moments /\ m.entry = entry
    BY DEF Copies
  <1> HIDE DEF m
  <1> QED
    BY <1>1, <1>2, <1>3

LEMMA TogetherMixes ==
  ASSUME NEW ours, NEW theirs, CopyOK(ours), CopyOK(theirs), time \in Nat, NEW side \in Either
  PROVE  \E m : /\ CopyOK(m) /\ Mixed(m, ours, theirs)
                /\ m.bin = Decider(ours, theirs, side).bin
                /\ Together(ours, theirs, side) = ReuniteRecycleBins(m, ours, theirs)
  <1> DEFINE p == ForcePlaces(ours, theirs, side)
             f == ForceMeta(p.ours, p.theirs, side)
             fork == ForkTogether(f.ours, f.theirs)
             marker == StandingMarker(ours.marker, theirs.marker)
             m == [fork EXCEPT !.marker = marker]
  <1>1. Together(ours, theirs, side) = ReuniteRecycleBins(m, ours, theirs)
    BY DEF Together
  <1>2. /\ CopyOK(p.ours) /\ CopyOK(p.theirs)
        /\ ButForPlacing(p.ours, ours) /\ ButForPlacing(p.theirs, theirs)
    BY PlacesForced
  <1>3. /\ \A g \in AllGroups : IF g \in TiedGroups(ours, theirs)
             THEN IF side = "local"
                  THEN p.ours.moved[g] = After(ours.moved[g], theirs.moved[g]) /\ p.theirs.moved[g] = DayOne
                  ELSE p.theirs.moved[g] = After(ours.moved[g], theirs.moved[g]) /\ p.ours.moved[g] = DayOne
             ELSE p.ours.moved[g] = ours.moved[g] /\ p.theirs.moved[g] = theirs.moved[g]
        /\ \A e \in Secrets \ TiedEntries(ours, theirs) :
             p.ours.put[e] = ours.put[e] /\ p.theirs.put[e] = theirs.put[e]
    BY PlacesDated
  <1> HIDE DEF p
  <1>4. RecycleBinWinner(p.ours, p.theirs) = RecycleBinWinner(ours, theirs)
    BY <1>2, WinnersAreTheSame
  <1>5. /\ f.ours \in Copies /\ f.theirs \in Copies
        /\ f.ours.where = ours.where /\ f.theirs.where = theirs.where
        /\ f.ours.entry = ours.entry /\ f.theirs.entry = theirs.entry
        /\ f.ours.moved = p.ours.moved /\ f.theirs.moved = p.theirs.moved
        /\ f.ours.put = p.ours.put /\ f.theirs.put = p.theirs.put
        /\ f.ours.bin \in {ours.bin, theirs.bin} /\ f.theirs.bin = theirs.bin
        /\ RecycleBinWinner(ours, theirs) # None =>
             /\ f.ours.bin = ours.bin /\ f.ours.binAt = ours.binAt
             /\ f.theirs.binAt = theirs.binAt
    BY <1>2, <1>4, MetaForced DEF ButForPlacing
  <1>6. RecycleBinWinner(ours, theirs) = None =>
          /\ f.ours.bin = IF side = "local" THEN ours.bin ELSE theirs.bin
          /\ f.ours.binAt \in Nat /\ f.ours.binAt > f.theirs.binAt
    BY <1>2, <1>4, BinPicked DEF ButForPlacing
  <1> HIDE DEF f
  <1>7. /\ fork \in Copies
        /\ fork.bin = IF f.theirs.binAt > f.ours.binAt THEN f.theirs.bin ELSE f.ours.bin
        /\ \A g \in AllGroups : fork.where[g] # None <=> ours.where[g] # None \/ theirs.where[g] # None
    BY <1>5, ForkPuts
  <1>8. /\ \A g \in AllGroups :
             IF Has(f.theirs, g) /\ (~Has(f.ours, g) \/ f.theirs.moved[g] > f.ours.moved[g])
             THEN fork.where[g] = f.theirs.where[g] /\ fork.moved[g] = f.theirs.moved[g]
             ELSE fork.where[g] = f.ours.where[g] /\ fork.moved[g] = f.ours.moved[g]
        /\ \A e \in Secrets :
             fork.entry[e] = IF f.theirs.put[e] > f.ours.put[e] THEN f.theirs.entry[e] ELSE f.ours.entry[e]
    BY <1>5, ForkMixes
  <1> HIDE DEF fork
  <1>9. marker \in [value : Nat, at : Moments]
    <2>1. ours.marker \in [value : Nat, at : Moments] /\ theirs.marker \in [value : Nat, at : Moments]
      BY DEF CopyOK, Copies
    <2> DEFINE o == ours.marker
               t == theirs.marker
    <2>2. Newest(o.at, t.at) \in Moments
      BY <2>1, NewestOfTwo
    <2>3. marker \in {o, t, [o EXCEPT !.at = Newest(o.at, t.at)]}
      BY DEF StandingMarker
    <2> QED
      BY <2>1, <2>2, <2>3
  <1> HIDE DEF marker
  <1>10. /\ m \in Copies /\ m.bin = fork.bin /\ m.where = fork.where /\ m.moved = fork.moved
         /\ m.entry = fork.entry
    BY <1>7, <1>9 DEF Copies
  <1> HIDE DEF m
  <1>11. /\ ours.bin \in AllGroups \union {None} /\ theirs.bin \in AllGroups \union {None}
         /\ (ours.bin # None => ours.where[ours.bin] # None)
         /\ (theirs.bin # None => theirs.where[theirs.bin] # None)
         /\ ours.binAt \in Moments /\ theirs.binAt \in Moments
         /\ ours \in Copies /\ theirs \in Copies
    BY DEF CopyOK, Copies
  <1>12. CopyOK(m)
    <2>1. m.bin \in {ours.bin, theirs.bin}
      BY <1>5, <1>7, <1>10
    <2> QED
      BY <1>7, <1>10, <1>11, <2>1 DEF CopyOK
  <1>13. m.bin = Decider(ours, theirs, side).bin
    <2> DEFINE winner == RecycleBinWinner(ours, theirs)
    <2>1. \/ ours.bin = theirs.bin /\ winner = "same"
          \/ ours.bin # theirs.bin /\ winner \in {None, Rank(ours.binAt, theirs.binAt)}
      BY DEF RecycleBinWinner
    <2> HIDE DEF winner
    <2>2. \/ winner = "same" /\ ours.bin = theirs.bin
          \/ winner = None
          \/ winner = "local" /\ ours.binAt > theirs.binAt
          \/ winner = "remote" /\ theirs.binAt > ours.binAt
      BY <1>11, <2>1 DEF Rank, Moments, NoDate
    <2>3. CASE winner = None
      <3>1. f.theirs.binAt \in Int
        BY <1>5 DEF Copies, Moments, NoDate
      <3>2. m.bin = f.ours.bin
        BY <1>6, <1>7, <1>10, <2>3, <3>1 DEF winner
      <3> QED
        BY <1>6, <2>3, <3>2 DEF Decider, winner, None
    <2>4. CASE winner = "same" /\ ours.bin = theirs.bin
      BY <1>5, <1>7, <1>10, <2>4 DEF Decider
    <2>5. CASE winner = "local" /\ ours.binAt > theirs.binAt
      BY <1>5, <1>7, <1>10, <1>11, <2>5 DEF Decider, winner, None, Moments, NoDate
    <2>6. CASE winner = "remote" /\ theirs.binAt > ours.binAt
      BY <1>5, <1>7, <1>10, <1>11, <2>6 DEF Decider, winner, None, Moments, NoDate
    <2> QED
      BY <2>2, <2>3, <2>4, <2>5, <2>6
  <1>14. Mixed(m, ours, theirs)
    <2>1. ASSUME NEW g \in AllGroups
          PROVE  /\ ~Has(theirs, g) => m.where[g] = ours.where[g] /\ m.moved[g] = ours.moved[g]
                 /\ ~Has(ours, g) /\ Has(theirs, g) => m.where[g] = theirs.where[g] /\ m.moved[g] = theirs.moved[g]
                 /\ Has(ours, g) /\ Has(theirs, g) =>
                      IF g \in TiedGroups(ours, theirs)
                      THEN /\ m.where[g] \in {ours.where[g], theirs.where[g]}
                           /\ m.moved[g] > ours.moved[g]
                      ELSE IF theirs.moved[g] > ours.moved[g]
                           THEN m.where[g] = theirs.where[g] /\ m.moved[g] = theirs.moved[g]
                           ELSE m.where[g] = ours.where[g] /\ m.moved[g] = ours.moved[g]
      <3>1. /\ Has(f.ours, g) = Has(ours, g) /\ Has(f.theirs, g) = Has(theirs, g)
        BY <1>5 DEF Has, GroupsOf
      <3>2. IF Has(theirs, g) /\ (~Has(ours, g) \/ p.theirs.moved[g] > p.ours.moved[g])
            THEN m.where[g] = theirs.where[g] /\ m.moved[g] = p.theirs.moved[g]
            ELSE m.where[g] = ours.where[g] /\ m.moved[g] = p.ours.moved[g]
        BY <1>5, <1>8, <1>10, <3>1
      <3>3. g \in TiedGroups(ours, theirs) => Has(ours, g) /\ Has(theirs, g) /\ ours.moved[g] = theirs.moved[g]
        BY DEF TiedGroups
      <3>4. ours.moved[g] \in Nat /\ theirs.moved[g] \in Nat
        BY <1>11 DEF Copies
      <3>5. CASE g \notin TiedGroups(ours, theirs)
        BY <1>3, <3>2, <3>5
      <3>6. CASE g \in TiedGroups(ours, theirs)
        <4>1. After(ours.moved[g], theirs.moved[g]) \in Nat /\ After(ours.moved[g], theirs.moved[g]) > ours.moved[g]
              /\ After(ours.moved[g], theirs.moved[g]) > 0
          BY <3>4 DEF After, Newest
        <4>2. CASE side = "local"
          <5>1. p.ours.moved[g] = After(ours.moved[g], theirs.moved[g]) /\ p.theirs.moved[g] = 0
            BY <1>3, <3>6, <4>2 DEF DayOne
          <5> QED
            BY <3>2, <3>3, <3>6, <4>1, <5>1
        <4>3. CASE side # "local"
          <5>1. p.theirs.moved[g] = After(ours.moved[g], theirs.moved[g]) /\ p.ours.moved[g] = 0
            BY <1>3, <3>6, <4>3 DEF DayOne
          <5> QED
            BY <3>2, <3>3, <3>6, <4>1, <5>1
        <4> QED
          BY <4>2, <4>3
      <3> QED
        BY <3>5, <3>6
    <2>2. ASSUME NEW e \in Secrets
          PROVE  /\ m.entry[e] \in {ours.entry[e], theirs.entry[e]}
                 /\ e \notin TiedEntries(ours, theirs) =>
                      m.entry[e] = IF theirs.put[e] > ours.put[e] THEN theirs.entry[e] ELSE ours.entry[e]
      BY <1>3, <1>5, <1>8, <1>10
    <2> QED
      BY <2>1, <2>2 DEF Mixed
  <1> QED
    BY <1>1, <1>12, <1>13, <1>14

-----------------------------------------------------------------------------
(* What a vault has once: an entry that is in one place for both copies.   *)

\* Putting the lost bin away changes nothing above a place that is not below it.
LEMMA NestingSpares ==
  ASSUME NEW m, CopyOK(m), NEW w, NEW x, Nested(w, m, x), NEW p \in Spots, x \notin Above(m, p)
  PROVE  \A z : Under(w, p, z) <=> Under(m, p, z)
  <1> DEFINE y == m.bin
             K == Above(m, p)
  <1>1. m.where \in [AllGroups -> Spots] /\ x \in AllGroups /\ y \in AllGroups
    BY DEF CopyOK, Copies, Spots, Nested
  <1>2. K \in ClosedUpwards(m.where) /\ p \in K
    BY <1>1, AboveIsClosed
  <1>3. Under(m, y, x) => y \notin K
    BY <1>2 DEF Under
  <1>4. ASSUME NEW h \in K \intersect AllGroups PROVE w.where[h] = m.where[h]
    BY <1>1, <1>3, <1>4 DEF Nested
  <1> HIDE DEF K
  <1> QED
    BY <1>2, <1>4, SameAbove

LEMMA FateKept ==
  ASSUME NEW ours, NEW theirs, CopyOK(ours), CopyOK(theirs), time \in Nat, NEW side \in Either,
         GroupsThere(ours), GroupsThere(theirs), EntriesThere(ours), EntriesThere(theirs),
         NEW e \in Secrets, ours.entry[e] = theirs.entry[e],
         \A g \in GroupsOf(ours) \intersect GroupsOf(theirs) : ours.where[g] = theirs.where[g]
  PROVE  Deleted(Together(ours, theirs, side), e) <=> Deleted(Decider(ours, theirs, side), e)
  <1> DEFINE D == Decider(ours, theirs, side)
             v == Together(ours, theirs, side)
             p == ours.entry[e]
             C == (GroupsOf(ours) \intersect GroupsOf(theirs)) \union {Top}
  <1>1. PICK m : /\ CopyOK(m) /\ Mixed(m, ours, theirs) /\ m.bin = D.bin
                 /\ v = ReuniteRecycleBins(m, ours, theirs)
    BY TogetherMixes
  <1>2. /\ ours.where \in [AllGroups -> Spots] /\ theirs.where \in [AllGroups -> Spots]
        /\ m.where \in [AllGroups -> Spots] /\ C \subseteq Spots /\ Top \notin AllGroups
        /\ C \intersect AllGroups = GroupsOf(ours) \intersect GroupsOf(theirs)
    BY <1>1, NamesApart DEF CopyOK, Copies, Spots, GroupsOf
  <1>3. p \in C /\ m.entry[e] = p /\ theirs.entry[e] = p
    BY <1>1 DEF EntriesThere, Mixed
  <1>4. ASSUME NEW h \in C \intersect AllGroups
        PROVE  /\ ours.where[h] = theirs.where[h] /\ m.where[h] = ours.where[h] /\ ours.where[h] \in C
    <2>1. Has(ours, h) /\ Has(theirs, h) /\ h \in AllGroups /\ ours.where[h] = theirs.where[h]
      BY <1>2, <1>4 DEF Has
    <2>2. ours.where[h] \in C
      BY <2>1 DEF GroupsThere, Has
    <2>3. m.where[h] \in {ours.where[h], theirs.where[h]}
      BY <1>1, <2>1 DEF Mixed
    <2> QED
      BY <2>1, <2>2, <2>3
  <1>5. C \in ClosedUpwards(ours.where)
    BY <1>2, <1>4 DEF ClosedUpwards, Spots
  <1> HIDE DEF C
  <1>6. \A z : (Under(ours, p, z) <=> Under(theirs, p, z)) /\ (Under(ours, p, z) <=> Under(m, p, z))
    BY <1>3, <1>4, <1>5, SameAbove
  <1>7. D \in {ours, theirs}
    BY DEF Decider
  <1> HIDE DEF D, v
  <1>8. Deleted(m, e) <=> Deleted(D, e)
    BY <1>1, <1>3, <1>6, <1>7 DEF Deleted
  <1>9. ours.bin \in AllGroups \union {None} /\ theirs.bin \in AllGroups \union {None}
    BY DEF CopyOK, Copies
  <1>10. \/ v = m \/ \E x \in Lost(m, ours, theirs) : Nested(v, m, x)
    BY <1>1, <1>9, ReunionIs
  <1>11. ASSUME NEW x \in Lost(m, ours, theirs), Nested(v, m, x) PROVE Deleted(v, e) <=> Deleted(m, e)
    <2>1. ~Has(D, x)
      BY <1>1, <1>7, <1>11 DEF Lost, RetiredOnPurpose
    <2>2. x \in AllGroups /\ x \notin C
      BY <1>2, <1>7, <2>1, <1>11 DEF C, Nested, Has
    <2>3. C \in ClosedUpwards(m.where)
      BY <1>3, <1>4, <1>5, SameAbove
    <2>4. x \notin Above(m, p)
      BY <1>2, <1>3, <2>2, <2>3, AboveIsClosed
    <2>5. \A z : Under(v, p, z) <=> Under(m, p, z)
      BY <1>1, <1>2, <1>3, <1>11, <2>4, NestingSpares
    <2> QED
      BY <1>3, <1>11, <2>5 DEF Deleted, Nested
  <1> QED
    BY <1>8, <1>10, <1>11 DEF D, v

-----------------------------------------------------------------------------
(* What a vault has once: groups and entries stay where there is something. *)

ThereInv ==
  MetaInv /\ \A c \in Installs \union {Server} : GroupsThere(vault[c]) /\ EntriesThere(vault[c])

LEMMA ThereInitial == MetaInit => ThereInv
  <1> SUFFICES ASSUME MetaInit, NEW c \in Installs \union {Server}
               PROVE  GroupsThere(vault[c]) /\ EntriesThere(vault[c])
    BY MetaInitial DEF ThereInv
  <1>1. /\ \A g \in AllGroups : vault[c].where[g] = IF g \in SharedGroups THEN Top ELSE None
        /\ \A e \in Secrets : vault[c].entry[e] = Top
    BY DEF MetaInit
  <1> QED
    BY <1>1 DEF GroupsThere, EntriesThere, GroupsOf

\* A device's own change makes it a bin at most, out of a group nobody had.
LEMMA EditsDo ==
  ASSUME ThereInv, NEW d \in Installs,
         \/ \E e \in Secrets : Trash(d, e)
         \/ \E e \in Secrets, g \in AllGroups \union {Top} : MoveSecret(d, e, g)
         \/ \E g \in AllGroups \union {None} : DesignateBin(d, g)
         \/ RenameVault(d) \/ SetMarker(d)
  PROVE  /\ \A c \in (Installs \union {Server}) \ {d} : vault'[c] = vault[c]
         /\ stale' = stale /\ time' = time
         /\ \/ vault'[d].where = vault[d].where /\ vault'[d].moved = vault[d].moved
            \/ /\ ~Has(vault[d], OwnBin[d])
               /\ vault'[d].where = [vault[d].where EXCEPT ![OwnBin[d]] = Top]
               /\ vault'[d].moved = [vault[d].moved EXCEPT ![OwnBin[d]] = time]
         /\ EntriesThere(vault'[d])
  <1> DEFINE v == vault[d]
  <1>1. /\ v \in Copies /\ time \in Nat /\ (v.bin # None => v.where[v.bin] # None)
        /\ EntriesThere(v) /\ d # Server /\ OwnBin[d] \in AllGroups
    BY NamesApart DEF ThereInv, MetaInv, CopyOK
  <1>2. ASSUME NEW w, Edit(d, w)
        PROVE  /\ vault'[d] = w /\ \A c \in (Installs \union {Server}) \ {d} : vault'[c] = vault[c]
               /\ stale' = stale /\ time' = time
    BY <1>2 DEF Edit, ThereInv, MetaInv
  <1> HIDE DEF v
  <1>3. ASSUME NEW w, Edit(d, w), w.where = v.where, w.moved = v.moved, w.entry = v.entry
        PROVE  /\ vault'[d].where = v.where /\ vault'[d].moved = v.moved /\ EntriesThere(vault'[d])
               /\ \A c \in (Installs \union {Server}) \ {d} : vault'[c] = vault[c]
               /\ stale' = stale /\ time' = time
    BY <1>1, <1>2, <1>3 DEF EntriesThere, GroupsOf
  <1>4. ASSUME NEW e \in Secrets, Trash(d, e)
        PROVE  /\ \A c \in (Installs \union {Server}) \ {d} : vault'[c] = vault[c]
               /\ stale' = stale /\ time' = time
               /\ \/ vault'[d].where = v.where /\ vault'[d].moved = v.moved
                  \/ /\ ~Has(v, OwnBin[d])
                     /\ vault'[d].where = [v.where EXCEPT ![OwnBin[d]] = Top]
                     /\ vault'[d].moved = [v.moved EXCEPT ![OwnBin[d]] = time]
               /\ EntriesThere(vault'[d])
    <2> DEFINE new == v.bin = None
               bin == IF new THEN OwnBin[d] ELSE v.bin
               binAt == IF new THEN time ELSE v.binAt
               where == [v.where EXCEPT ![bin] = IF new THEN Top ELSE v.where[bin]]
               moments == [v.moved EXCEPT ![bin] = IF new THEN time ELSE v.moved[bin]]
               entry == [v.entry EXCEPT ![e] = bin]
               put == [v.put EXCEPT ![e] = Later1(v.put[e])]
               w == [v EXCEPT !.bin = bin, !.binAt = binAt, !.where = where, !.moved = moments,
                              !.entry = entry, !.put = put]
    <2>1. bin \in AllGroups /\ (new => ~Has(v, OwnBin[d]))
      BY <1>1, <1>4 DEF Copies, Trash, v
    <2>2. Edit(d, [v EXCEPT !.bin = bin, !.binAt = IF new THEN time ELSE @,
                            !.where[bin] = IF new THEN Top ELSE @,
                            !.moved[bin] = IF new THEN time ELSE @,
                            !.entry[e] = bin, !.put[e] = Later1(@)])
      BY <1>4 DEF Trash, v
    <2>3. Edit(d, w)
      BY <2>2
    <2>4. \/ where = v.where /\ moments = v.moved
          \/ /\ ~Has(v, OwnBin[d])
             /\ where = [v.where EXCEPT ![OwnBin[d]] = Top]
             /\ moments = [v.moved EXCEPT ![OwnBin[d]] = time]
      <3>1. CASE new
        BY <2>1, <3>1
      <3>2. CASE ~new
        BY <1>1, <2>1, <3>2 DEF Copies
      <3> QED
        BY <3>1, <3>2
    <2>5. /\ \A g \in AllGroups : v.where[g] # None => where[g] # None
          /\ where[bin] # None
          /\ \A i \in Secrets : entry[i] \in {v.entry[i], bin}
      BY <1>1, <2>1, NamesApart DEF Copies
    <2> HIDE DEF new, bin, binAt, where, moments, entry, put
    <2>6. w.where = where /\ w.moved = moments /\ w.entry = entry
      BY <1>1 DEF Copies
    <2> HIDE DEF w
    <2>7. EntriesThere(w)
      BY <1>1, <2>1, <2>5, <2>6 DEF EntriesThere, GroupsOf
    <2> QED
      BY <1>2, <2>3, <2>4, <2>6, <2>7
  <1>5. ASSUME NEW e \in Secrets, NEW g \in AllGroups \union {Top}, MoveSecret(d, e, g)
        PROVE  /\ vault'[d].where = v.where /\ vault'[d].moved = v.moved /\ EntriesThere(vault'[d])
               /\ \A c \in (Installs \union {Server}) \ {d} : vault'[c] = vault[c]
               /\ stale' = stale /\ time' = time
    <2> DEFINE entry == [v.entry EXCEPT ![e] = g]
               put == [v.put EXCEPT ![e] = Later1(v.put[e])]
               w == [v EXCEPT !.entry = entry, !.put = put]
    <2>1. Edit(d, w) /\ g \in GroupsOf(v) \union {Top}
      BY <1>5 DEF MoveSecret, v
    <2>2. \A i \in Secrets : entry[i] \in {v.entry[i], g}
      BY <1>1 DEF Copies
    <2> HIDE DEF entry, put
    <2>3. w.where = v.where /\ w.moved = v.moved /\ w.entry = entry
      BY <1>1 DEF Copies
    <2> HIDE DEF w
    <2>4. EntriesThere(w)
      BY <1>1, <2>1, <2>2, <2>3 DEF EntriesThere, GroupsOf
    <2> QED
      BY <1>2, <2>1, <2>3, <2>4
  <1>6. ASSUME NEW g \in AllGroups \union {None}, DesignateBin(d, g)
        PROVE  /\ vault'[d].where = v.where /\ vault'[d].moved = v.moved /\ EntriesThere(vault'[d])
               /\ \A c \in (Installs \union {Server}) \ {d} : vault'[c] = vault[c]
               /\ stale' = stale /\ time' = time
    <2> DEFINE w == [v EXCEPT !.bin = g, !.binAt = time]
    <2>1. Edit(d, w)
      BY <1>6 DEF DesignateBin, v
    <2>2. w.where = v.where /\ w.moved = v.moved /\ w.entry = v.entry
      BY <1>1 DEF Copies
    <2> QED
      BY <1>3, <2>1, <2>2
  <1>7. ASSUME RenameVault(d)
        PROVE  /\ vault'[d].where = v.where /\ vault'[d].moved = v.moved /\ EntriesThere(vault'[d])
               /\ \A c \in (Installs \union {Server}) \ {d} : vault'[c] = vault[c]
               /\ stale' = stale /\ time' = time
    <2> DEFINE w == [v EXCEPT !.name = changed + 1, !.nameAt = time]
    <2>1. Edit(d, w)
      BY <1>7 DEF RenameVault, v
    <2>2. w.where = v.where /\ w.moved = v.moved /\ w.entry = v.entry
      BY <1>1 DEF Copies
    <2> QED
      BY <1>3, <2>1, <2>2
  <1>8. ASSUME SetMarker(d)
        PROVE  /\ vault'[d].where = v.where /\ vault'[d].moved = v.moved /\ EntriesThere(vault'[d])
               /\ \A c \in (Installs \union {Server}) \ {d} : vault'[c] = vault[c]
               /\ stale' = stale /\ time' = time
    <2>1. PICK t \in {NoDate, time} : Edit(d, [v EXCEPT !.marker = [value |-> changed + 1, at |-> t]])
      BY <1>8 DEF SetMarker, v
    <2> DEFINE w == [v EXCEPT !.marker = [value |-> changed + 1, at |-> t]]
    <2>2. w.where = v.where /\ w.moved = v.moved /\ w.entry = v.entry
      BY <1>1 DEF Copies
    <2> QED
      BY <1>3, <2>1, <2>2
  <1> QED
    BY <1>4, <1>5, <1>6, <1>7, <1>8 DEF v

\* What two copies make together has everything in a group it has.
LEMMA TogetherThere ==
  ASSUME NEW ours, NEW theirs, CopyOK(ours), CopyOK(theirs), time \in Nat, NEW side \in Either,
         GroupsThere(ours), GroupsThere(theirs), EntriesThere(ours), EntriesThere(theirs)
  PROVE  /\ GroupsThere(Together(ours, theirs, side)) /\ EntriesThere(Together(ours, theirs, side))
         /\ GroupsOf(Together(ours, theirs, side)) = GroupsOf(ours) \union GroupsOf(theirs)
  <1> DEFINE v == Together(ours, theirs, side)
  <1>1. PICK m : /\ CopyOK(m) /\ Mixed(m, ours, theirs)
                 /\ v = ReuniteRecycleBins(m, ours, theirs)
    BY TogetherMixes
  <1> HIDE DEF v
  <1>2. ours.bin \in AllGroups \union {None} /\ theirs.bin \in AllGroups \union {None}
    BY DEF CopyOK, Copies
  <1>3. \/ v = m \/ \E x \in Lost(m, ours, theirs) : Nested(v, m, x)
    BY <1>1, <1>2, ReunionIs
  <1>4. \A g \in AllGroups : Has(m, g) <=> Has(ours, g) \/ Has(theirs, g)
    <2> SUFFICES ASSUME NEW g \in AllGroups PROVE Has(m, g) <=> Has(ours, g) \/ Has(theirs, g)
      OBVIOUS
    <2>1. m.where[g] = ours.where[g] \/ m.where[g] = theirs.where[g]
      BY <1>1 DEF Mixed
    <2> QED
      BY <1>1, <2>1 DEF Mixed, Has, GroupsOf
  <1>5. GroupsOf(m) = GroupsOf(ours) \union GroupsOf(theirs)
    BY <1>4 DEF Has, GroupsOf
  <1>6. ASSUME NEW g \in GroupsOf(m) PROVE m.where[g] \in GroupsOf(m) \union {Top}
    <2>1. g \in AllGroups /\ m.where[g] # None
      BY <1>6 DEF GroupsOf
    <2>2. m.where[g] = ours.where[g] \/ m.where[g] = theirs.where[g]
      BY <1>1, <2>1 DEF Mixed
    <2>3. CASE m.where[g] = ours.where[g]
      BY <1>5, <2>1, <2>3 DEF GroupsThere, GroupsOf
    <2>4. CASE m.where[g] = theirs.where[g]
      BY <1>5, <2>1, <2>4 DEF GroupsThere, GroupsOf
    <2> QED
      BY <2>2, <2>3, <2>4
  <1>7. \A e \in Secrets : m.entry[e] \in GroupsOf(m) \union {Top}
    BY <1>1, <1>5 DEF Mixed, EntriesThere
  <1>8. ASSUME NEW x, Nested(v, m, x)
        PROVE  GroupsThere(v) /\ EntriesThere(v) /\ GroupsOf(v) = GroupsOf(m)
    <2>1. /\ x \in GroupsOf(m) /\ m.bin \in GroupsOf(m) /\ m.where \in [AllGroups -> Spots]
          /\ m.bin \in AllGroups /\ x \in AllGroups /\ v.entry = m.entry
      BY <1>1, <1>8, NamesApart DEF Nested, CopyOK, Copies, GroupsOf, Spots
    <2>2. m.where[x] \in GroupsOf(m) \union {Top} /\ m.where[x] # None
      BY <1>6, <2>1 DEF GroupsOf
    <2>3. \A g \in AllGroups : \/ v.where[g] = m.where[g]
                               \/ g \in GroupsOf(m) /\ v.where[g] \in {m.bin, m.where[x]}
      BY <1>8, <2>1 DEF Nested
    <2>4. GroupsOf(v) = GroupsOf(m)
      BY <2>1, <2>2, <2>3, NamesApart DEF GroupsOf
    <2> QED
      BY <1>6, <1>7, <2>1, <2>2, <2>3, <2>4 DEF GroupsThere, EntriesThere, GroupsOf
  <1> QED
    BY <1>3, <1>5, <1>6, <1>7, <1>8 DEF v, GroupsThere, EntriesThere

\* What sending and reconciling do to the copies.
LEMMA ReconcileDoes ==
  ASSUME MetaInv, NEW d \in Installs, Reconcile(d)
  PROVE  \E side \in Either :
           LET v == Together(vault[d], vault[Server], side)
           IN /\ ~Circular(v) /\ (~Asked(d) => side = "local")
              /\ vault'[d] = v /\ vault'[Server] = IF Sends(d) THEN v ELSE vault[Server]
              /\ \A c \in Installs \ {d} : vault'[c] = vault[c]
              /\ stale' = (IF Sends(d) THEN Installs \ {d} ELSE stale \ {d}) /\ time' = time
              /\ d \in stale
  <1>1. PICK side \in Either :
          /\ ~Circular(Result(d, side)) /\ (~Asked(d) => side = "local")
          /\ vault' = [vault EXCEPT ![d] = Result(d, side), ![Server] = IF Sends(d) THEN Result(d, side) ELSE @]
    BY DEF Reconcile, Either
  <1> DEFINE v == Result(d, side)
             sent == IF Sends(d) THEN v ELSE vault[Server]
  <1>2. d # Server /\ DOMAIN vault = Installs \union {Server}
    BY NamesApart DEF MetaInv
  <1>3. vault' = [vault EXCEPT ![d] = v, ![Server] = sent]
    BY <1>1, <1>2
  <1> HIDE DEF v, sent
  <1>4. /\ vault'[d] = v /\ vault'[Server] = sent
        /\ \A c \in Installs \ {d} : vault'[c] = vault[c]
    BY <1>2, <1>3, NamesApart DEF MetaInv
  <1>5. stale' = (IF Sends(d) THEN Installs \ {d} ELSE stale \ {d}) /\ time' = time /\ d \in stale
    BY DEF Reconcile
  <1> QED
    BY <1>1, <1>4, <1>5 DEF v, sent, Result

LEMMA SendDoes ==
  ASSUME MetaInv, NEW d \in Installs, Send(d)
  PROVE  /\ vault'[Server] = vault[d] /\ \A c \in Installs : vault'[c] = vault[c]
         /\ stale' = Installs \ {d} /\ time' = time /\ d \notin stale
  BY NamesApart DEF Send, MetaInv

LEMMA ThereSteps == ThereInv /\ [MetaNext]_metaVars => ThereInv'
  <1> SUFFICES ASSUME ThereInv, [MetaNext]_metaVars,
                      NEW c \in Installs \union {Server}
               PROVE  GroupsThere(vault'[c]) /\ EntriesThere(vault'[c])
    BY MetaSteps DEF ThereInv
  <1>1. CASE UNCHANGED vault
    BY <1>1 DEF ThereInv
  <1>2. ASSUME NEW d \in Installs,
               \/ \E e \in Secrets : Trash(d, e)
               \/ \E e \in Secrets, g \in AllGroups \union {Top} : MoveSecret(d, e, g)
               \/ \E g \in AllGroups \union {None} : DesignateBin(d, g)
               \/ RenameVault(d) \/ SetMarker(d)
        PROVE  GroupsThere(vault'[c]) /\ EntriesThere(vault'[c])
    <2>1. CASE c # d
      BY <1>2, <2>1, EditsDo DEF ThereInv
    <2>2. CASE c = d
      <3>1. EntriesThere(vault'[d])
        BY <1>2, EditsDo
      <3>2. GroupsThere(vault[d]) /\ vault[d].where \in [AllGroups -> Spots] /\ OwnBin[d] \in AllGroups
        BY NamesApart DEF ThereInv, MetaInv, CopyOK, Copies, Spots
      <3>3. CASE vault'[d].where = vault[d].where
        BY <2>2, <3>1, <3>2, <3>3 DEF GroupsThere, GroupsOf
      <3>4. CASE vault'[d].where = [vault[d].where EXCEPT ![OwnBin[d]] = Top]
        BY <2>2, <3>1, <3>2, <3>4, NamesApart DEF GroupsThere, GroupsOf
      <3> QED
        BY <1>2, <3>3, <3>4, EditsDo
    <2> QED
      BY <2>1, <2>2
  <1>3. ASSUME NEW d \in Installs, Send(d) PROVE GroupsThere(vault'[c]) /\ EntriesThere(vault'[c])
    BY <1>3, SendDoes DEF ThereInv
  <1>4. ASSUME NEW d \in Installs, Reconcile(d) PROVE GroupsThere(vault'[c]) /\ EntriesThere(vault'[c])
    <2>1. MetaInv /\ CopyOK(vault[d]) /\ CopyOK(vault[Server]) /\ time \in Nat
          /\ GroupsThere(vault[d]) /\ GroupsThere(vault[Server])
          /\ EntriesThere(vault[d]) /\ EntriesThere(vault[Server])
      BY DEF ThereInv, MetaInv
    <2>2. PICK side \in Either :
            LET v == Together(vault[d], vault[Server], side)
            IN /\ vault'[d] = v /\ vault'[Server] = IF Sends(d) THEN v ELSE vault[Server]
               /\ \A o \in Installs \ {d} : vault'[o] = vault[o]
      BY <1>4, <2>1, ReconcileDoes
    <2> DEFINE v == Together(vault[d], vault[Server], side)
    <2>3. GroupsThere(v) /\ EntriesThere(v)
      BY <2>1, TogetherThere
    <2>4. vault'[c] = v \/ vault'[c] = vault[c]
      BY <2>2
    <2> HIDE DEF v
    <2> QED
      BY <2>3, <2>4 DEF ThereInv
  <1> QED
    BY <1>1, <1>2, <1>3, <1>4 DEF MetaNext, TheClockMoves, metaVars

LEMMA SameFate == ThereInv => SameEntrySameFate
  <1> SUFFICES ASSUME ThereInv, NEW d \in stale, NEW e \in Secrets, NEW side \in Either,
                      SamePlace(d, e), SameGroups(d)
               PROVE  Deleted(Result(d, side), e) =
                        IF Deleted(vault[d], e) = Deleted(vault[Server], e)
                        THEN Deleted(vault[d], e) ELSE Deleted(BinDecider(d, side), e)
    BY DEF SameEntrySameFate, Either
  <1>1. /\ CopyOK(vault[d]) /\ CopyOK(vault[Server]) /\ time \in Nat
        /\ GroupsThere(vault[d]) /\ GroupsThere(vault[Server])
        /\ EntriesThere(vault[d]) /\ EntriesThere(vault[Server])
    BY DEF ThereInv, MetaInv
  <1>2. Deleted(Result(d, side), e) <=> Deleted(Decider(vault[d], vault[Server], side), e)
    BY <1>1, FateKept DEF SamePlace, SameGroups, Result
  <1>3. BinDecider(d, side) = Decider(vault[d], vault[Server], side)
    BY DEF BinDecider, Decider
  <1>4. BinDecider(d, side) \in {vault[d], vault[Server]}
    BY DEF BinDecider
  <1>5. /\ Deleted(Result(d, side), e) \in BOOLEAN /\ Deleted(vault[d], e) \in BOOLEAN
        /\ Deleted(vault[Server], e) \in BOOLEAN /\ Deleted(BinDecider(d, side), e) \in BOOLEAN
    BY DEF Deleted
  <1> QED
    BY <1>2, <1>3, <1>4, <1>5

LEMMA FatesHold == MetaSpec => []SameEntrySameFate
  BY ThereInitial, ThereSteps, SameFate, PTL DEF MetaSpec

-----------------------------------------------------------------------------
(* What a vault has once: two devices.                                     *)

TwoInstalls == \A x, y, z \in Installs : x = y \/ y = z \/ x = z

SharedAtTop ==
  \A c \in Installs \union {Server} : \A g \in SharedGroups : vault[c].where[g] = Top
MadeByOne ==
  \A c \in Installs \union {Server}, d \in Installs : Has(vault[c], OwnBin[d]) => Has(vault[d], OwnBin[d])

\* A group that was not sent is at the top, with no group in it, on one device.
UnsentAlone ==
  \A d \in Installs : \A g \in GroupsOf(vault[d]) \ GroupsOf(vault[Server]) :
    /\ vault[d].where[g] = Top
    /\ \A h \in AllGroups : vault[d].where[h] # g
    /\ \A o \in Installs \ {d} : ~Has(vault[o], g)

\* No device has a later word than the cloud file on where a group of both is.
ServerLatest ==
  \A d \in Installs : \A g \in GroupsOf(vault[d]) \intersect GroupsOf(vault[Server]) :
    vault[d].moved[g] <= vault[Server].moved[g]
FreshAgree ==
  \A d \in Installs \ stale : \A g \in GroupsOf(vault[Server]) :
    /\ Has(vault[d], g) /\ vault[d].where[g] = vault[Server].where[g]
    /\ vault[d].moved[g] = vault[Server].moved[g]

\* A group of the cloud file that a device has not seen was sent by the other one,
\* which has nothing to fetch; and neither it nor what is in it is dated ahead.
Unmet(d, h) == Has(vault[Server], h) /\ ~Has(vault[d], h)
OtherFresh == \A d, o \in Installs : \A h \in AllGroups : d # o /\ Unmet(d, h) => o \notin stale
NotAhead ==
  \A d \in Installs : \A g \in AllGroups : ~Has(vault[d], g) =>
    \A c \in Installs \union {Server} : Has(vault[c], g) => vault[c].moved[g] <= time
NestedNow ==
  \A d \in Installs : \A g, h \in AllGroups :
    Unmet(d, h) /\ vault[Server].where[g] = h => vault[Server].moved[g] <= time
NoneCircular == \A c \in Installs \union {Server} : ~Circular(vault[c])

PairInv ==
  /\ SharedAtTop /\ MadeByOne /\ UnsentAlone /\ ServerLatest /\ FreshAgree
  /\ OtherFresh /\ NotAhead /\ NestedNow /\ NoneCircular

ReunionInv == TwoInstalls /\ ThereInv /\ PairInv

LEMMA ReunionInitial == TwoInstalls /\ MetaInit => ReunionInv
  <1> SUFFICES ASSUME TwoInstalls, MetaInit PROVE PairInv
    BY ThereInitial DEF ReunionInv
  <1>1. \A c \in Installs \union {Server} : \A g \in AllGroups :
          /\ vault[c].where[g] = IF g \in SharedGroups THEN Top ELSE None
          /\ vault[c].moved[g] = 0
    BY DEF MetaInit, DayOne
  <1>2. /\ \A c \in Installs \union {Server} : GroupsOf(vault[c]) = SharedGroups
        /\ \A d \in Installs : OwnBin[d] \notin SharedGroups
    BY <1>1, NamesApart, MergeMetaConstants DEF GroupsOf
  <1>3. stale = {} /\ time = 1
    BY DEF MetaInit
  <1>4. NoneCircular
    <2> SUFFICES ASSUME NEW c \in Installs \union {Server}, NEW g \in SharedGroups PROVE Under(vault[c], g, Top)
      BY <1>2 DEF NoneCircular, Circular, Has
    <2> QED
      BY <1>1, NamesApart DEF Under, ClosedUpwards
  <1>5. SharedAtTop /\ MadeByOne /\ UnsentAlone /\ ServerLatest /\ FreshAgree
    BY <1>1, <1>2, NamesApart DEF SharedAtTop, MadeByOne, UnsentAlone, ServerLatest, FreshAgree, Has
  <1>6. OtherFresh /\ NotAhead /\ NestedNow
    BY <1>1, <1>2, <1>3, NamesApart DEF OtherFresh, NotAhead, NestedNow, Unmet, Has
  <1> QED
    BY <1>4, <1>5, <1>6 DEF PairInv

LEMMA CircleByPlaces ==
  ASSUME NEW v, NEW w, w.where = v.where
  PROVE  /\ Circular(w) <=> Circular(v)
         /\ GroupsOf(w) = GroupsOf(v) /\ \A g : Has(w, g) <=> Has(v, g)
  BY DEF Circular, Has, GroupsOf, Under, ClosedUpwards

\* Where no group moves nothing changes, also when time passes.
LEMMA PairRests ==
  ASSUME ReunionInv, stale' = stale, time' \in Nat, time' >= time,
         \A c \in Installs \union {Server} :
           vault'[c].where = vault[c].where /\ vault'[c].moved = vault[c].moved
  PROVE  PairInv'
  <1>1. \A c \in Installs \union {Server} :
          /\ Circular(vault'[c]) <=> Circular(vault[c])
          /\ GroupsOf(vault'[c]) = GroupsOf(vault[c]) /\ \A g : Has(vault'[c], g) <=> Has(vault[c], g)
    BY CircleByPlaces
  <1>2. SharedAtTop' /\ MadeByOne' /\ NoneCircular'
    BY <1>1 DEF ReunionInv, PairInv, SharedAtTop, MadeByOne, NoneCircular
  <1>3. /\ \A c \in Installs : /\ vault'[c].where = vault[c].where /\ vault'[c].moved = vault[c].moved
                               /\ GroupsOf(vault'[c]) = GroupsOf(vault[c])
                               /\ \A g : Has(vault'[c], g) <=> Has(vault[c], g)
        /\ vault'[Server].where = vault[Server].where /\ vault'[Server].moved = vault[Server].moved
        /\ GroupsOf(vault'[Server]) = GroupsOf(vault[Server])
        /\ \A g : Has(vault'[Server], g) <=> Has(vault[Server], g)
    BY <1>1
  <1>6. UnsentAlone'
    BY <1>3 DEF ReunionInv, PairInv, UnsentAlone
  <1>7. ServerLatest' /\ FreshAgree'
    BY <1>3 DEF ReunionInv, PairInv, ServerLatest, FreshAgree
  <1>8. OtherFresh'
    BY <1>3 DEF ReunionInv, PairInv, OtherFresh, Unmet
  <1>4. /\ \A c \in Installs \union {Server} : \A g \in AllGroups : vault[c].moved[g] \in Nat
        /\ time \in Nat
    BY DEF ReunionInv, ThereInv, MetaInv, CopyOK, Copies
  <1>5. NotAhead'
    <2> SUFFICES ASSUME NEW d \in Installs, NEW g \in AllGroups, ~Has(vault'[d], g),
                        NEW c \in Installs \union {Server}, Has(vault'[c], g)
                 PROVE  vault'[c].moved[g] <= time'
      BY DEF NotAhead
    <2>1. vault[c].moved[g] <= time
      BY <1>1 DEF ReunionInv, PairInv, NotAhead
    <2>2. vault'[c].moved[g] = vault[c].moved[g] /\ vault[c].moved[g] \in Nat
      BY <1>4
    <2> QED
      BY <1>4, <2>1, <2>2
  <1>9. NestedNow'
    <2> SUFFICES ASSUME NEW d \in Installs, NEW g \in AllGroups, NEW h \in AllGroups,
                        Has(vault'[Server], h), ~Has(vault'[d], h), vault'[Server].where[g] = h
                 PROVE  vault'[Server].moved[g] <= time'
      BY DEF NestedNow, Unmet
    <2>1. vault[Server].moved[g] <= time
      BY <1>3 DEF ReunionInv, PairInv, NestedNow, Unmet
    <2>2. vault'[Server].moved[g] = vault[Server].moved[g] /\ vault[Server].moved[g] \in Nat
      BY <1>3, <1>4
    <2> QED
      BY <1>4, <2>1, <2>2
  <1> QED
    BY <1>2, <1>5, <1>6, <1>7, <1>8, <1>9 DEF PairInv

\* Above a group that another tree has in the same places nothing changes.
LEMMA GrownTree ==
  ASSUME NEW v, NEW w, CopyOK(v), GroupsThere(v),
         \A g \in GroupsOf(v) : w.where[g] = v.where[g],
         NEW p \in GroupsOf(v) \union {Top}
  PROVE  \A z : Under(w, p, z) <=> Under(v, p, z)
  <1> DEFINE C == GroupsOf(v) \union {Top}
  <1>1. C \intersect AllGroups = GroupsOf(v) /\ C \subseteq Spots /\ p \in C
    BY NamesApart DEF GroupsOf, Spots
  <1>2. C \in ClosedUpwards(v.where)
    BY <1>1 DEF ClosedUpwards, GroupsThere, Spots
  <1>3. \A h \in C \intersect AllGroups : w.where[h] = v.where[h]
    BY <1>1
  <1> HIDE DEF C
  <1> QED
    BY <1>1, <1>2, <1>3, SameAbove

\* A bin of its own that a device makes.
LEMMA BinMade ==
  ASSUME ReunionInv, NEW d \in Installs, NEW b \in AllGroups, b = OwnBin[d], ~Has(vault[d], b),
         \A c \in (Installs \union {Server}) \ {d} : vault'[c] = vault[c],
         stale' = stale, time' = time,
         vault'[d].where = [vault[d].where EXCEPT ![b] = Top],
         vault'[d].moved = [vault[d].moved EXCEPT ![b] = time]
  PROVE  PairInv'
  <1> DEFINE D == vault[d]
             E == vault'[d]
  <1>1. /\ CopyOK(D) /\ D.where \in [AllGroups -> Spots] /\ D.moved \in [AllGroups -> Nat]
        /\ time \in Nat /\ GroupsThere(D) /\ d # Server /\ b \notin SharedGroups
    BY MergeMetaConstants, NamesApart DEF ReunionInv, ThereInv, MetaInv, CopyOK, Copies, Spots
  <1>2. \A c \in Installs \union {Server} : ~Has(vault[c], b)
    BY DEF ReunionInv, PairInv, MadeByOne
  <1>3. /\ E.where[b] = Top /\ E.moved[b] = time
        /\ \A g \in AllGroups \ {b} : E.where[g] = D.where[g] /\ E.moved[g] = D.moved[g]
        /\ D.where[b] = None
    BY <1>1, <1>2 DEF Has, GroupsOf
  <1>4. GroupsOf(E) = GroupsOf(D) \union {b} /\ b \notin GroupsOf(D)
    BY <1>3, NamesApart DEF GroupsOf
  <1>5. \A h \in AllGroups : D.where[h] # b
    BY <1>1, <1>2, NamesApart DEF GroupsThere, GroupsOf, Has
  <1>6. \A c \in Installs \union {Server} : c # d => vault'[c] = vault[c]
    OBVIOUS
  <1>7. PairInv
    BY DEF ReunionInv
  <1>8. \A x \in Installs : OwnBin[x] = b => x = d
    BY MergeMetaConstants
  <1> HIDE DEF D, E
  <1>9. /\ \A c \in Installs \union {Server} : \A g : Has(vault'[c], g) <=> Has(vault[c], g) \/ (c = d /\ g = b)
        /\ \A g : Has(E, g) <=> Has(D, g) \/ g = b
        /\ \A g : Has(vault'[Server], g) <=> Has(vault[Server], g)
    BY <1>1, <1>4, <1>6 DEF Has, D, E
  <1>10. SharedAtTop'
    BY <1>1, <1>3, <1>6, <1>7, NamesApart DEF PairInv, SharedAtTop, D, E
  <1>11. MadeByOne'
    BY <1>1, <1>6, <1>7, <1>8, <1>9, NamesApart DEF PairInv, MadeByOne
  <1>12. UnsentAlone'
    <2> SUFFICES ASSUME NEW x \in Installs, NEW g \in GroupsOf(vault'[x]) \ GroupsOf(vault'[Server])
                 PROVE  /\ vault'[x].where[g] = Top
                        /\ \A h \in AllGroups : vault'[x].where[h] # g
                        /\ \A o \in Installs \ {x} : ~Has(vault'[o], g)
      BY DEF UnsentAlone
    <2>1. vault'[Server] = vault[Server]
      BY <1>1, <1>6
    <2>2. CASE g = b
      <3>1. x = d
        BY <1>2, <1>9, <2>2 DEF Has
      <3> QED
        BY <1>2, <1>3, <1>5, <1>9, <2>2, <3>1, NamesApart DEF D, E
    <2>3. CASE g # b
      <3>1. g \in GroupsOf(vault[x]) \ GroupsOf(vault[Server]) /\ g \in AllGroups
        BY <1>9, <2>1, <2>3 DEF Has, GroupsOf
      <3>2. /\ vault[x].where[g] = Top /\ \A h \in AllGroups : vault[x].where[h] # g
            /\ \A o \in Installs \ {x} : ~Has(vault[o], g)
        BY <1>7, <3>1 DEF PairInv, UnsentAlone
      <3>3. \A o \in Installs \ {x} : ~Has(vault'[o], g)
        BY <1>9, <2>3, <3>2
      <3>4. CASE x = d
        <4>1. E.where[g] = Top
          BY <1>3, <2>3, <3>1, <3>2, <3>4 DEF D
        <4>2. \A h \in AllGroups : E.where[h] # g
          BY <1>3, <3>1, <3>2, <3>4, NamesApart DEF D
        <4> QED
          BY <3>3, <3>4, <4>1, <4>2 DEF E
      <3>5. CASE x # d
        BY <1>6, <3>2, <3>3, <3>5
      <3> QED
        BY <3>4, <3>5
    <2> QED
      BY <2>2, <2>3
  <1>13. ServerLatest' /\ FreshAgree'
    <2>1. vault'[Server] = vault[Server] /\ b \notin GroupsOf(vault[Server])
      BY <1>1, <1>2, <1>6 DEF Has
    <2>2. \A x \in Installs : \A g \in GroupsOf(vault[Server]) :
            /\ Has(vault'[x], g) <=> Has(vault[x], g)
            /\ vault'[x].where[g] = vault[x].where[g] /\ vault'[x].moved[g] = vault[x].moved[g]
      BY <1>3, <1>6, <1>9, <2>1 DEF GroupsOf, D, E
    <2> QED
      BY <1>7, <2>1, <2>2 DEF PairInv, ServerLatest, FreshAgree, Has
  <1>14. OtherFresh'
    BY <1>7, <1>9 DEF PairInv, OtherFresh, Unmet
  <1>15. NotAhead'
    <2> SUFFICES ASSUME NEW x \in Installs, NEW g \in AllGroups, ~Has(vault'[x], g),
                        NEW c \in Installs \union {Server}, Has(vault'[c], g)
                 PROVE  vault'[c].moved[g] <= time
      BY DEF NotAhead
    <2>1. CASE c = d /\ g = b
      <3>1. vault'[c].moved[g] = time
        BY <1>3, <2>1 DEF E
      <3> QED
        BY <1>1, <3>1
    <2>2. CASE ~(c = d /\ g = b)
      <3>1. vault[c].moved[g] <= time
        BY <1>7, <1>9, <2>2 DEF PairInv, NotAhead
      <3>2. vault'[c].moved[g] = vault[c].moved[g]
        BY <1>3, <1>6, <2>2 DEF D, E
      <3> QED
        BY <3>1, <3>2
    <2> QED
      BY <2>1, <2>2
  <1>16. NestedNow'
    BY <1>1, <1>6, <1>7, <1>9 DEF PairInv, NestedNow, Unmet
  <1>17. NoneCircular'
    <2>1. \A g \in GroupsOf(D) : Under(E, g, Top)
      <3> SUFFICES ASSUME NEW g \in GroupsOf(D) PROVE Under(E, g, Top)
        OBVIOUS
      <3>1. Under(D, g, Top)
        BY <1>7 DEF PairInv, NoneCircular, Circular, Has, GroupsOf, D
      <3>2. \A h \in GroupsOf(D) : E.where[h] = D.where[h]
        BY <1>3, <1>4 DEF GroupsOf
      <3> QED
        BY <1>1, <3>1, <3>2, GrownTree DEF D
    <2>2. Under(E, b, Top)
      BY <1>3 DEF Under, ClosedUpwards
    <2>3. ~Circular(E)
      BY <1>4, <2>1, <2>2 DEF Circular, Has
    <2> QED
      BY <1>6, <1>7, <2>3 DEF PairInv, NoneCircular, E
  <1> QED
    BY <1>10, <1>11, <1>12, <1>13, <1>14, <1>15, <1>16, <1>17 DEF PairInv

\* A device that has nothing to fetch has all that the cloud file has, and what it alone
\* has is at the top.
LEMMA PairSends ==
  ASSUME ReunionInv, NEW d \in Installs, Send(d)
  PROVE  PairInv'
  <1> DEFINE D == vault[d]
             S == vault[Server]
  <1>1. MetaInv /\ PairInv /\ TwoInstalls /\ time \in Nat
    BY DEF ReunionInv, ThereInv, MetaInv
  <1>2. /\ vault'[Server] = D /\ \A c \in Installs : vault'[c] = vault[c]
        /\ stale' = Installs \ {d} /\ time' = time /\ d \notin stale
    BY <1>1, SendDoes
  <1>3. \A g \in GroupsOf(S) : Has(D, g) /\ D.where[g] = S.where[g] /\ D.moved[g] = S.moved[g]
    BY <1>1, <1>2 DEF PairInv, FreshAgree
  <1>4. \A g \in GroupsOf(D) \ GroupsOf(S) :
          /\ \A h \in AllGroups : D.where[h] # g
          /\ \A o \in Installs \ {d} : ~Has(vault[o], g)
    BY <1>1 DEF PairInv, UnsentAlone
  <1>5. \A g : g \in GroupsOf(D) <=> Has(D, g)
    BY DEF Has
  <1> HIDE DEF D, S
  <1>6. SharedAtTop' /\ MadeByOne' /\ NoneCircular'
    BY <1>1, <1>2 DEF PairInv, SharedAtTop, MadeByOne, NoneCircular, D
  <1>7. UnsentAlone'
    <2> SUFFICES ASSUME NEW x \in Installs, NEW g \in GroupsOf(vault[x]) \ GroupsOf(D)
                 PROVE  /\ vault[x].where[g] = Top
                        /\ \A h \in AllGroups : vault[x].where[h] # g
                        /\ \A o \in Installs \ {x} : ~Has(vault[o], g)
      BY <1>2 DEF UnsentAlone
    <2>1. g \notin GroupsOf(S)
      BY <1>3, <1>5
    <2> QED
      BY <1>1, <2>1 DEF PairInv, UnsentAlone, S
  <1>8. ServerLatest'
    <2> SUFFICES ASSUME NEW x \in Installs, NEW g \in GroupsOf(vault[x]) \intersect GroupsOf(D)
                 PROVE  vault[x].moved[g] <= D.moved[g]
      BY <1>2 DEF ServerLatest
    <2>1. CASE x = d
      BY <1>1, <2>1 DEF MetaInv, CopyOK, Copies, GroupsOf, D
    <2>2. CASE x # d
      <3>1. g \in GroupsOf(S)
        BY <1>4, <2>2 DEF Has
      <3>2. vault[x].moved[g] <= S.moved[g]
        BY <1>1, <3>1 DEF PairInv, ServerLatest, S
      <3> QED
        BY <1>3, <3>1, <3>2
    <2> QED
      BY <2>1, <2>2
  <1>9. FreshAgree'
    BY <1>2, <1>5 DEF FreshAgree, D
  <1>10. \A x \in Installs : \A h \in AllGroups : Has(D, h) /\ ~Has(vault[x], h) => x # d
    BY DEF D
  <1>11. OtherFresh'
    <2> SUFFICES ASSUME NEW x \in Installs, NEW o \in Installs, NEW h \in AllGroups, x # o,
                        Has(D, h), ~Has(vault[x], h)
                 PROVE  o \notin Installs \ {d}
      BY <1>2 DEF OtherFresh, Unmet
    <2> QED
      BY <1>1, <1>10 DEF TwoInstalls
  <1>12. NotAhead'
    BY <1>1, <1>2 DEF PairInv, NotAhead, D
  <1>13. NestedNow'
    <2> SUFFICES ASSUME NEW x \in Installs, NEW g \in AllGroups, NEW h \in AllGroups,
                        Has(D, h), ~Has(vault[x], h), D.where[g] = h
                 PROVE  D.moved[g] <= time
      BY <1>2 DEF NestedNow, Unmet
    <2>1. h \in GroupsOf(S)
      BY <1>4, <1>5
    <2>2. g \in GroupsOf(D)
      BY NamesApart DEF GroupsOf
    <2>3. g \in GroupsOf(S)
      <3>1. g \notin GroupsOf(S) => D.where[g] = Top
        BY <1>1, <2>2 DEF PairInv, UnsentAlone, D, S
      <3> QED
        BY <3>1, NamesApart
    <2>4. S.where[g] = h /\ Has(S, h)
      BY <1>3, <2>1, <2>3 DEF Has
    <2>5. S.moved[g] <= time
      BY <1>1, <2>4 DEF PairInv, NestedNow, Unmet, S
    <2> QED
      BY <1>3, <2>3, <2>5
  <1> QED
    BY <1>6, <1>7, <1>8, <1>9, <1>11, <1>12, <1>13 DEF PairInv

\* What a device and the cloud file make together, while one of two devices merges.
LEMMA PairMixes ==
  ASSUME ReunionInv, NEW d \in stale, NEW m, CopyOK(m), Mixed(m, vault[d], vault[Server])
  PROVE  LET D == vault[d]
             S == vault[Server]
         IN /\ GroupsOf(m) = GroupsOf(D) \union GroupsOf(S)
            /\ \A g \in GroupsOf(S) : m.moved[g] >= S.moved[g]
            /\ \A g \in SharedGroups : m.where[g] = Top
            /\ \A g \in GroupsOf(D) \ GroupsOf(S) :
                 /\ m.where[g] = Top /\ m.moved[g] = D.moved[g]
                 /\ \A h \in AllGroups : m.where[h] # g
            /\ TiedGroups(D, S) = {} =>
                 \A g \in GroupsOf(S) : m.where[g] = S.where[g] /\ m.moved[g] = S.moved[g]
  <1> DEFINE D == vault[d]
             S == vault[Server]
  <1>1. /\ MetaInv /\ PairInv /\ d \in Installs /\ CopyOK(D) /\ CopyOK(S) /\ GroupsThere(D) /\ GroupsThere(S)
        /\ \A g \in AllGroups : D.moved[g] \in Nat /\ S.moved[g] \in Nat
    BY DEF ReunionInv, ThereInv, MetaInv, CopyOK, Copies
  <1>2. /\ \A g \in SharedGroups : D.where[g] = Top /\ S.where[g] = Top
        /\ \A g \in GroupsOf(D) \ GroupsOf(S) :
             D.where[g] = Top /\ \A h \in AllGroups : D.where[h] # g
        /\ \A g \in GroupsOf(D) \intersect GroupsOf(S) : D.moved[g] <= S.moved[g]
    BY <1>1 DEF PairInv, SharedAtTop, UnsentAlone, ServerLatest
  <1>3. \A g \in AllGroups :
          /\ Has(D, g) <=> g \in GroupsOf(D)
          /\ Has(S, g) <=> g \in GroupsOf(S)
    BY DEF Has
  <1>5. Mixed(m, D, S)
    OBVIOUS
  <1> HIDE DEF D, S
  <1>4. ASSUME NEW h \in AllGroups
        PROVE  \/ m.where[h] = D.where[h]
               \/ h \in GroupsOf(S) /\ m.where[h] = S.where[h]
    <2>1. /\ ~Has(S, h) => m.where[h] = D.where[h]
          /\ ~Has(D, h) /\ Has(S, h) => m.where[h] = S.where[h]
          /\ Has(D, h) /\ Has(S, h) => m.where[h] \in {D.where[h], S.where[h]}
      BY <1>4, <1>5 DEF Mixed
    <2> QED
      BY <1>3, <1>4, <2>1
  <1>6. GroupsOf(m) = GroupsOf(D) \union GroupsOf(S)
    <2> SUFFICES ASSUME NEW g \in AllGroups
                 PROVE  m.where[g] # None <=> D.where[g] # None \/ S.where[g] # None
      BY DEF GroupsOf
    <2> QED
      BY <1>5 DEF Mixed, Has, GroupsOf
  <1>7. ASSUME NEW g \in GroupsOf(S) PROVE m.moved[g] >= S.moved[g]
    <2>1. g \in AllGroups
      BY <1>7 DEF GroupsOf
    <2>2. CASE g \notin GroupsOf(D)
      BY <1>1, <1>3, <1>5, <1>7, <2>1, <2>2 DEF Mixed
    <2>3. CASE g \in GroupsOf(D) /\ g \in TiedGroups(D, S)
      <3>1. D.moved[g] = S.moved[g]
        BY <2>3 DEF TiedGroups
      <3>2. m.moved[g] > D.moved[g]
        BY <1>3, <1>5, <1>7, <2>1, <2>3 DEF Mixed
      <3>3. m.moved[g] \in Nat
        BY <2>1 DEF CopyOK, Copies
      <3> QED
        BY <1>1, <2>1, <3>1, <3>2, <3>3
    <2>4. CASE g \in GroupsOf(D) /\ g \notin TiedGroups(D, S)
      BY <1>1, <1>3, <1>5, <1>7, <2>1, <2>4 DEF Mixed
    <2> QED
      BY <2>2, <2>3, <2>4
  <1>8. ASSUME NEW g \in SharedGroups PROVE m.where[g] = Top
    BY <1>2, <1>4, NamesApart
  <1>9. ASSUME NEW g \in GroupsOf(D) \ GroupsOf(S)
        PROVE  /\ m.where[g] = Top /\ m.moved[g] = D.moved[g]
               /\ \A h \in AllGroups : m.where[h] # g
    <2>1. g \in AllGroups
      BY <1>9 DEF GroupsOf
    <2>2. m.where[g] = D.where[g] /\ m.moved[g] = D.moved[g]
      BY <1>3, <1>5, <1>9, <2>1 DEF Mixed
    <2>3. \A h \in GroupsOf(S) : S.where[h] # g
      BY <1>1, <1>9, <2>1, NamesApart DEF GroupsThere
    <2> QED
      BY <1>2, <1>4, <1>9, <2>2, <2>3
  <1>10. ASSUME TiedGroups(D, S) = {}, NEW g \in GroupsOf(S)
         PROVE  m.where[g] = S.where[g] /\ m.moved[g] = S.moved[g]
    <2>1. g \in AllGroups
      BY <1>10 DEF GroupsOf
    <2>2. CASE g \notin GroupsOf(D)
      BY <1>3, <1>5, <1>10, <2>1, <2>2 DEF Mixed
    <2>3. CASE g \in GroupsOf(D)
      <3>1. D.where[g] = S.where[g] \/ D.moved[g] # S.moved[g]
        BY <1>3, <1>10, <2>1, <2>3 DEF TiedGroups
      <3>2. D.moved[g] <= S.moved[g]
        BY <1>2, <1>10, <2>3
      <3>3. IF S.moved[g] > D.moved[g]
            THEN m.where[g] = S.where[g] /\ m.moved[g] = S.moved[g]
            ELSE m.where[g] = D.where[g] /\ m.moved[g] = D.moved[g]
        BY <1>3, <1>5, <1>10, <2>1, <2>3 DEF Mixed
      <3> QED
        BY <1>1, <2>1, <3>1, <3>2, <3>3
    <2> QED
      BY <2>2, <2>3
  <1> QED
    BY <1>6, <1>7, <1>8, <1>9, <1>10 DEF D, S

\* Putting a bin away redates nothing that the cloud file has a later word on: a bin is
\* lifted out only of a group that this device had not seen.
LEMMA NestingDates ==
  ASSUME ReunionInv, NEW d \in stale, NEW side \in Either,
         NEW m, CopyOK(m), Mixed(m, vault[d], vault[Server]),
         m.bin = Decider(vault[d], vault[Server], side).bin,
         NEW v, NEW x \in Lost(m, vault[d], vault[Server]), Nested(v, m, x)
  PROVE  /\ \A g \in GroupsOf(vault[Server]) : v.moved[g] >= vault[Server].moved[g]
         /\ \A g \in SharedGroups : v.where[g] = Top
         /\ x \in GroupsOf(vault[d]) <=> x \notin GroupsOf(vault[Server])
  <1> DEFINE D == vault[d]
             S == vault[Server]
             y == m.bin
  <1>1. /\ MetaInv /\ PairInv /\ TwoInstalls /\ d \in Installs /\ CopyOK(D) /\ CopyOK(S)
        /\ GroupsThere(D) /\ GroupsThere(S) /\ time \in Nat
        /\ \A g \in AllGroups : D.moved[g] \in Nat /\ S.moved[g] \in Nat /\ m.moved[g] \in Nat
    BY DEF ReunionInv, ThereInv, MetaInv, CopyOK, Copies
  <1>2. /\ GroupsOf(m) = GroupsOf(D) \union GroupsOf(S)
        /\ \A g \in GroupsOf(S) : m.moved[g] >= S.moved[g]
        /\ \A g \in SharedGroups : m.where[g] = Top
        /\ \A g \in GroupsOf(D) \ GroupsOf(S) : \A h \in AllGroups : m.where[h] # g
    BY PairMixes
  <1>3. /\ x \in AllGroups /\ y \in AllGroups /\ x # y
        /\ m.where \in [AllGroups -> Spots] /\ m.moved \in [AllGroups -> Nat]
    BY DEF Nested, CopyOK, Copies, Spots
  <1>4. /\ Decider(D, S, side) \in {D, S} /\ Decider(D, S, side).bin = y
        /\ x \in {D.bin, S.bin} /\ x # None
        /\ \A w \in {D, S} : w.bin = y => ~Has(w, x)
    BY DEF Decider, Lost, RetiredOnPurpose
  <1>5. /\ x \in GroupsOf(D) \/ x \in GroupsOf(S)
        /\ x \notin GroupsOf(D) \/ x \notin GroupsOf(S)
    BY <1>1, <1>3, <1>4 DEF CopyOK, Has, GroupsOf
  <1>6. SharedGroups \subseteq GroupsOf(D) /\ SharedGroups \subseteq GroupsOf(S)
    BY <1>1, NamesApart DEF PairInv, SharedAtTop, GroupsOf
  <1>7. x \notin SharedGroups
    BY <1>5, <1>6
  <1>8. /\ v.where[x] = y /\ v.moved[x] = time
        /\ \A g \in AllGroups \ {x, y} : v.where[g] = m.where[g] /\ v.moved[g] = m.moved[g]
        /\ IF Under(m, y, x) THEN v.moved[y] = time ELSE v.where[y] = m.where[y] /\ v.moved[y] = m.moved[y]
    BY <1>3 DEF Nested
  <1>9. \A g \in AllGroups : Has(D, g) <=> g \in GroupsOf(D)
    BY DEF Has
  <1> HIDE DEF D, S, y
  <1>10. ASSUME Under(m, y, x)
         PROVE  /\ y \notin SharedGroups
                /\ y \in GroupsOf(S) => S.moved[y] <= time
    <2>1. ASSUME NEW K \in SUBSET Spots, y \in K, x \notin K, \A h \in K \intersect AllGroups : m.where[h] \in K
          PROVE  FALSE
      <3>1. K \in ClosedUpwards(m.where)
        BY <2>1 DEF ClosedUpwards, Spots
      <3> QED
        BY <1>10, <2>1, <3>1 DEF Under
    <2>2. y \notin SharedGroups
      <3> SUFFICES ASSUME y \in SharedGroups PROVE FALSE
        OBVIOUS
      <3>1. {y, Top} \in SUBSET Spots /\ x \notin {y, Top}
        BY <1>3, NamesApart DEF Spots
      <3>2. \A h \in {y, Top} \intersect AllGroups : m.where[h] \in {y, Top}
        BY <1>2, NamesApart
      <3> QED
        BY <2>1, <3>1, <3>2
    <2>3. m.where[y] = x
      <3> SUFFICES ASSUME m.where[y] # x PROVE FALSE
        OBVIOUS
      <3> DEFINE K == Spots \ {x}
      <3>1. \A h \in K \intersect AllGroups : m.where[h] \in K
        <4> SUFFICES ASSUME NEW h \in AllGroups, h # x PROVE m.where[h] # x
          BY <1>3 DEF Spots
        <4>1. CASE h \in SharedGroups
          BY <1>2, <1>3, <4>1, NamesApart
        <4>2. CASE h \notin SharedGroups
          <5>1. PICK p \in Installs, q \in Installs, r \in Installs : h = OwnBin[p] /\ x = OwnBin[q] /\ y = OwnBin[r]
            BY <1>3, <1>7, <2>2, <4>2 DEF AllGroups
          <5>2. h = y
            BY <1>1, <1>3, <5>1 DEF TwoInstalls
          <5> QED
            BY <5>2
        <4> QED
          BY <4>1, <4>2
      <3>2. y \in K /\ x \notin K /\ K \subseteq Spots
        BY <1>3 DEF Spots
      <3> HIDE DEF K
      <3> QED
        BY <2>1, <3>1, <3>2
    <2>4. x \in GroupsOf(S) /\ x \notin GroupsOf(D)
      BY <1>2, <1>3, <1>5, <2>3
    <2>5. ASSUME y \in GroupsOf(S) PROVE S.moved[y] <= time
      <3>1. S.where[y] = x
        <4>1. m.where[y] = D.where[y] \/ m.where[y] = S.where[y]
          BY <1>3 DEF Mixed, D, S
        <4>2. D.where[y] # x
          BY <1>1, <1>3, <2>4, NamesApart DEF GroupsThere, GroupsOf
        <4> QED
          BY <2>3, <4>1, <4>2
      <3>2. Unmet(d, x)
        BY <2>4 DEF Unmet, Has, D, S
      <3> QED
        BY <1>1, <1>3, <3>1, <3>2 DEF PairInv, NestedNow, S
    <2> QED
      BY <2>2, <2>5
  <1>11. ASSUME x \in GroupsOf(S) PROVE S.moved[x] <= time
    BY <1>1, <1>3, <1>5, <1>9, <1>11 DEF PairInv, NotAhead, Has, D, S
  <1>12. ASSUME NEW g \in GroupsOf(S) PROVE v.moved[g] >= S.moved[g]
    <2>1. g \in AllGroups
      BY <1>12 DEF GroupsOf
    <2>2. CASE g = x
      BY <1>1, <1>3, <1>8, <1>11, <1>12, <2>2
    <2>3. CASE g = y
      BY <1>1, <1>2, <1>3, <1>8, <1>10, <1>12, <2>3
    <2>4. CASE g \notin {x, y}
      BY <1>2, <1>8, <1>12, <2>1, <2>4
    <2> QED
      BY <2>2, <2>3, <2>4
  <1>13. ASSUME NEW g \in SharedGroups PROVE v.where[g] = Top
    BY <1>2, <1>7, <1>8, <1>10, NamesApart
  <1> QED
    BY <1>5, <1>12, <1>13 DEF D, S

\* What one of two devices makes together with the cloud file.
LEMMA PairTogether ==
  ASSUME ReunionInv, NEW d \in stale, NEW side \in Either
  PROVE  LET D == vault[d]
             S == vault[Server]
             v == Together(D, S, side)
         IN /\ GroupsOf(v) = GroupsOf(D) \union GroupsOf(S)
            /\ \A g \in GroupsOf(S) : v.moved[g] >= S.moved[g]
            /\ \A g \in SharedGroups : v.where[g] = Top
            /\ \A g \in GroupsOf(D) \ GroupsOf(S) : v.moved[g] \in {D.moved[g], time}
            /\ \A g \in GroupsOf(D) \ GroupsOf(S) : \A h \in AllGroups :
                 v.where[h] = g => v.moved[h] = time
            /\ D.where = S.where /\ TiedGroups(D, S) = {} =>
                 \A g \in GroupsOf(S) : v.where[g] = S.where[g] /\ v.moved[g] = S.moved[g]
            /\ \A g \in AllGroups : v.moved[g] \in Nat
  <1> DEFINE D == vault[d]
             S == vault[Server]
             v == Together(D, S, side)
  <1>1. /\ MetaInv /\ PairInv /\ d \in Installs /\ CopyOK(D) /\ CopyOK(S) /\ time \in Nat
        /\ GroupsThere(D) /\ GroupsThere(S) /\ EntriesThere(D) /\ EntriesThere(S)
    BY DEF ReunionInv, ThereInv, MetaInv
  <1>2. PICK m : /\ CopyOK(m) /\ Mixed(m, D, S) /\ m.bin = Decider(D, S, side).bin
                 /\ v = ReuniteRecycleBins(m, D, S)
    BY <1>1, TogetherMixes
  <1>3. GroupsOf(v) = GroupsOf(D) \union GroupsOf(S)
    BY <1>1, TogetherThere
  <1> HIDE DEF v
  <1>4. D.bin \in AllGroups \union {None} /\ S.bin \in AllGroups \union {None}
    BY <1>1 DEF CopyOK, Copies
  <1>5. \/ v = m \/ \E x \in Lost(m, D, S) : Nested(v, m, x)
    BY <1>1, <1>2, <1>4, ReunionIs
  <1>6. /\ \A g \in GroupsOf(S) : m.moved[g] >= S.moved[g]
        /\ \A g \in SharedGroups : m.where[g] = Top
        /\ \A g \in GroupsOf(D) \ GroupsOf(S) :
             m.moved[g] = D.moved[g] /\ \A h \in AllGroups : m.where[h] # g
        /\ TiedGroups(D, S) = {} =>
             \A g \in GroupsOf(S) : m.where[g] = S.where[g] /\ m.moved[g] = S.moved[g]
        /\ GroupsOf(m) = GroupsOf(D) \union GroupsOf(S)
    BY <1>2, PairMixes
  <1>7. ASSUME NEW x \in Lost(m, D, S), Nested(v, m, x)
        PROVE  /\ \A g \in GroupsOf(S) : v.moved[g] >= S.moved[g]
               /\ \A g \in SharedGroups : v.where[g] = Top
               /\ x \in GroupsOf(D) <=> x \notin GroupsOf(S)
               /\ m.moved \in [AllGroups -> Nat] /\ m.where \in [AllGroups -> Spots]
               /\ x \in AllGroups /\ m.bin \in AllGroups /\ x # m.bin
    <2>1. m.moved \in [AllGroups -> Nat] /\ m.where \in [AllGroups -> Spots]
      BY <1>2 DEF CopyOK, Copies, Spots
    <2>2. x \in AllGroups /\ m.bin \in AllGroups /\ x # m.bin
      BY <1>7 DEF Nested
    <2> QED
      BY <1>2, <1>7, <2>1, <2>2, NestingDates
  <1>9. m.moved \in [AllGroups -> Nat]
    BY <1>2 DEF CopyOK, Copies
  <1> HIDE DEF D, S
  <1>10. \A g \in GroupsOf(D) : g \in AllGroups
    BY DEF GroupsOf
  <1>11. ASSUME v = m
         PROVE  /\ \A g \in GroupsOf(S) : v.moved[g] >= S.moved[g]
                /\ \A g \in SharedGroups : v.where[g] = Top
                /\ \A g \in GroupsOf(D) \ GroupsOf(S) : v.moved[g] \in {D.moved[g], time}
                /\ \A g \in GroupsOf(D) \ GroupsOf(S) : \A h \in AllGroups :
                     v.where[h] = g => v.moved[h] = time
                /\ D.where = S.where /\ TiedGroups(D, S) = {} =>
                     \A g \in GroupsOf(S) : v.where[g] = S.where[g] /\ v.moved[g] = S.moved[g]
                /\ \A g \in AllGroups : v.moved[g] \in Nat
    BY <1>6, <1>9, <1>11
  <1>12. ASSUME NEW x \in Lost(m, D, S), Nested(v, m, x)
         PROVE  /\ \A g \in GroupsOf(D) \ GroupsOf(S) : v.moved[g] \in {D.moved[g], time}
                /\ \A g \in GroupsOf(D) \ GroupsOf(S) : \A h \in AllGroups :
                     v.where[h] = g => v.moved[h] = time
                /\ D.where # S.where
                /\ \A g \in AllGroups : v.moved[g] \in Nat
    <2>1. \A g \in AllGroups : \/ v.where[g] = m.where[g] /\ v.moved[g] = m.moved[g]
                               \/ v.moved[g] = time
      BY <1>7, <1>12 DEF Nested
    <2>2. D.where # S.where
      BY <1>7, <1>12 DEF GroupsOf
    <2> QED
      BY <1>1, <1>6, <1>9, <1>10, <2>1, <2>2
  <1>13. /\ \A g \in GroupsOf(S) : v.moved[g] >= S.moved[g]
         /\ \A g \in SharedGroups : v.where[g] = Top
         /\ \A g \in GroupsOf(D) \ GroupsOf(S) : v.moved[g] \in {D.moved[g], time}
         /\ \A g \in GroupsOf(D) \ GroupsOf(S) : \A h \in AllGroups :
              v.where[h] = g => v.moved[h] = time
         /\ D.where = S.where /\ TiedGroups(D, S) = {} =>
              \A g \in GroupsOf(S) : v.where[g] = S.where[g] /\ v.moved[g] = S.moved[g]
         /\ \A g \in AllGroups : v.moved[g] \in Nat
    BY <1>5, <1>7, <1>11, <1>12
  <1> QED
    BY <1>3, <1>13 DEF D, S, v

LEMMA PairReconciles ==
  ASSUME ReunionInv, NEW d \in Installs, Reconcile(d)
  PROVE  PairInv'
  <1> DEFINE D == vault[d]
             S == vault[Server]
             E == vault'[d]
             T == vault'[Server]
  <1>1. /\ MetaInv /\ PairInv /\ TwoInstalls /\ CopyOK(D) /\ CopyOK(S) /\ time \in Nat
        /\ \A g \in AllGroups : D.moved[g] \in Nat /\ S.moved[g] \in Nat
        /\ D.where \in [AllGroups -> Spots] /\ S.where \in [AllGroups -> Spots]
    BY DEF ReunionInv, ThereInv, MetaInv, CopyOK, Copies, Spots
  <1>2. PICK side \in Either :
          LET v == Together(D, S, side)
          IN /\ ~Circular(v) /\ (~Asked(d) => side = "local")
             /\ E = v /\ T = IF Sends(d) THEN v ELSE S
             /\ \A c \in Installs \ {d} : vault'[c] = vault[c]
             /\ stale' = (IF Sends(d) THEN Installs \ {d} ELSE stale \ {d}) /\ time' = time
             /\ d \in stale
    BY <1>1, ReconcileDoes
  <1>3. /\ GroupsOf(E) = GroupsOf(D) \union GroupsOf(S)
        /\ \A g \in GroupsOf(S) : E.moved[g] >= S.moved[g]
        /\ \A g \in SharedGroups : E.where[g] = Top
        /\ \A g \in GroupsOf(D) \ GroupsOf(S) : E.moved[g] \in {D.moved[g], time}
        /\ \A g \in GroupsOf(D) \ GroupsOf(S) : \A h \in AllGroups :
             E.where[h] = g => E.moved[h] = time
        /\ D.where = S.where /\ TiedGroups(D, S) = {} =>
             \A g \in GroupsOf(S) : E.where[g] = S.where[g] /\ E.moved[g] = S.moved[g]
        /\ \A g \in AllGroups : E.moved[g] \in Nat
    BY <1>2, PairTogether
  <1>4. ~Sends(d) => D.where = S.where /\ TiedGroups(D, S) = {}
    BY DEF Sends, Asked, MustAsk, SomethingToSend
  <1>5. /\ \A c \in Installs : c # d => vault'[c] = vault[c]
        /\ T = (IF Sends(d) THEN E ELSE S) /\ ~Circular(E)
        /\ stale' = (IF Sends(d) THEN Installs \ {d} ELSE stale \ {d}) /\ time' = time
        /\ d \in stale /\ d # Server
    BY <1>2, NamesApart
  <1>6. D.where = S.where => GroupsOf(D) = GroupsOf(S)
    BY DEF GroupsOf
  <1>7. /\ \A c \in Installs : \A g : Has(vault[c], g) => Has(vault'[c], g)
        /\ \A g : Has(E, g) <=> Has(D, g) \/ Has(S, g)
        /\ \A g : Has(T, g) <=> Has(S, g) \/ (Sends(d) /\ Has(D, g))
    BY <1>3, <1>5 DEF Has
  <1>8. \A g : (Has(D, g) <=> g \in GroupsOf(D)) /\ (Has(S, g) <=> g \in GroupsOf(S))
    BY DEF Has
  \* What the other device has not seen, only this one has.
  <1>9. ASSUME NEW o \in Installs, o # d, NEW g \in AllGroups, ~Has(vault[o], g) PROVE ~Has(S, g)
    BY <1>1, <1>5, <1>9 DEF PairInv, OtherFresh, Unmet
  <1>10. ASSUME NEW o \in Installs, o # d, NEW g \in GroupsOf(vault[o]) \ GroupsOf(S)
         PROVE  /\ vault[o].where[g] = Top /\ \A h \in AllGroups : vault[o].where[h] # g
                /\ \A x \in Installs \ {o} : ~Has(vault[x], g)
    BY <1>1, <1>10 DEF PairInv, UnsentAlone
  <1>11. \A x, z \in Installs : x = z \/ x = d \/ z = d
    BY <1>1 DEF TwoInstalls
  <1>12. ~Sends(d) => /\ \A g \in GroupsOf(S) : E.where[g] = S.where[g] /\ E.moved[g] = S.moved[g]
                      /\ GroupsOf(E) = GroupsOf(S) /\ GroupsOf(D) = GroupsOf(S)
    BY <1>3, <1>4, <1>6
  <1> HIDE DEF D, S, E, T
  <1>13. SharedAtTop' /\ NoneCircular'
    BY <1>1, <1>3, <1>5 DEF PairInv, SharedAtTop, NoneCircular, S, E, T
  <1>14. MadeByOne'
    <2> SUFFICES ASSUME NEW c \in Installs \union {Server}, NEW x \in Installs, Has(vault'[c], OwnBin[x])
                 PROVE  Has(vault'[x], OwnBin[x])
      BY DEF MadeByOne
    <2>1. Has(vault[c], OwnBin[x]) \/ Has(D, OwnBin[x]) \/ Has(S, OwnBin[x])
      BY <1>5, <1>7 DEF E, T
    <2>2. Has(vault[x], OwnBin[x])
      BY <1>1, <2>1 DEF PairInv, MadeByOne, D, S
    <2> QED
      BY <1>7, <2>2
  <1>15. UnsentAlone'
    <2> SUFFICES ASSUME NEW x \in Installs, NEW g \in GroupsOf(vault'[x]) \ GroupsOf(T)
                 PROVE  /\ vault'[x].where[g] = Top
                        /\ \A h \in AllGroups : vault'[x].where[h] # g
                        /\ \A o \in Installs \ {x} : ~Has(vault'[o], g)
      BY DEF UnsentAlone, T
    <2>1. x # d
      BY <1>5, <1>12 DEF E
    <2>2. g \in GroupsOf(vault[x]) \ GroupsOf(S)
      BY <1>5, <1>7, <2>1 DEF Has
    <2>3. ASSUME NEW o \in Installs \ {x} PROVE ~Has(vault'[o], g)
      BY <1>5, <1>7, <1>8, <1>10, <1>11, <2>1, <2>2, <2>3 DEF D, E
    <2> QED
      BY <1>5, <1>10, <2>1, <2>2, <2>3
  <1>16. ServerLatest'
    <2> SUFFICES ASSUME NEW x \in Installs, NEW g \in GroupsOf(vault'[x]) \intersect GroupsOf(T)
                 PROVE  vault'[x].moved[g] <= T.moved[g]
      BY DEF ServerLatest, T
    <2>1. g \in AllGroups
      BY DEF GroupsOf
    <2>2. CASE x = d
      BY <1>1, <1>3, <1>5, <1>12, <2>1, <2>2 DEF E
    <2>3. CASE x # d
      <3>1. g \in GroupsOf(vault[x]) /\ vault'[x] = vault[x] /\ vault[x].moved[g] \in Nat
        BY <1>1, <1>5, <2>1, <2>3 DEF MetaInv, CopyOK, Copies
      <3>2. g \in GroupsOf(S)
        BY <1>5, <1>7, <1>8, <1>10, <2>3, <3>1 DEF Has, D
      <3>3. vault[x].moved[g] <= S.moved[g]
        BY <1>1, <3>1, <3>2 DEF PairInv, ServerLatest, S
      <3>4. S.moved[g] <= T.moved[g] /\ T.moved[g] \in Nat
        BY <1>1, <1>3, <1>5, <2>1, <3>2
      <3> QED
        BY <1>1, <2>1, <3>1, <3>3, <3>4
    <2> QED
      BY <2>2, <2>3
  <1>17. FreshAgree'
    <2> SUFFICES ASSUME NEW x \in Installs, x \notin stale', NEW g \in GroupsOf(T)
                 PROVE  /\ Has(vault'[x], g) /\ vault'[x].where[g] = T.where[g]
                        /\ vault'[x].moved[g] = T.moved[g]
      BY DEF FreshAgree, T
    <2>1. CASE x = d
      BY <1>5, <1>7, <1>12, <2>1 DEF Has, E
    <2>2. CASE x # d
      <3>1. ~Sends(d) /\ x \notin stale /\ T = S
        BY <1>5, <2>2
      <3> QED
        BY <1>1, <1>5, <2>2, <3>1 DEF PairInv, FreshAgree, S
    <2> QED
      BY <2>1, <2>2
  <1>18. OtherFresh'
    <2> SUFFICES ASSUME NEW x \in Installs, NEW o \in Installs, NEW h \in AllGroups, x # o,
                        Has(T, h), ~Has(vault'[x], h), o \in stale'
                 PROVE  FALSE
      BY DEF OtherFresh, Unmet, T
    <2>1. x # d
      BY <1>7 DEF E
    <2> QED
      BY <1>5, <1>11, <2>1
  <1>19. NotAhead'
    <2> SUFFICES ASSUME NEW x \in Installs, NEW g \in AllGroups, ~Has(vault'[x], g),
                        NEW c \in Installs \union {Server}, Has(vault'[c], g)
                 PROVE  vault'[c].moved[g] <= time
      BY <1>5 DEF NotAhead
    <2>1. ~Has(vault[x], g)
      BY <1>7
    <2>2. \A z \in Installs \union {Server} : Has(vault[z], g) => vault[z].moved[g] <= time
      BY <1>1, <2>1 DEF PairInv, NotAhead
    <2>3. CASE vault'[c] = vault[c]
      BY <2>2, <2>3
    <2>4. CASE vault'[c] # vault[c]
      <3>1. vault'[c] = E
        BY <1>5, <2>4 DEF E, T, S
      <3>2. CASE x = d
        BY <2>4, <3>1, <3>2 DEF E
      <3>3. CASE x # d
        <4>1. g \in GroupsOf(D) \ GroupsOf(S)
          BY <1>7, <1>8, <1>9, <2>1, <3>1, <3>3
        <4>2. D.moved[g] <= time
          BY <1>8, <2>2, <4>1 DEF D
        <4> QED
          BY <1>1, <1>3, <3>1, <4>1, <4>2
      <3> QED
        BY <3>2, <3>3
    <2> QED
      BY <2>3, <2>4
  <1>20. NestedNow'
    <2> SUFFICES ASSUME NEW x \in Installs, NEW g \in AllGroups, NEW h \in AllGroups,
                        Has(T, h), ~Has(vault'[x], h), T.where[g] = h
                 PROVE  T.moved[g] <= time
      BY <1>5 DEF NestedNow, Unmet, T
    <2>1. ~Has(vault[x], h) /\ x # d
      BY <1>7 DEF E
    <2>2. CASE Sends(d)
      <3>1. h \in GroupsOf(D) \ GroupsOf(S)
        BY <1>7, <1>8, <1>9, <2>1
      <3> QED
        BY <1>1, <1>3, <1>5, <2>2, <3>1
    <2>3. CASE ~Sends(d)
      BY <1>1, <1>5, <2>1, <2>3 DEF PairInv, NestedNow, Unmet, S
    <2> QED
      BY <2>2, <2>3
  <1> QED
    BY <1>13, <1>14, <1>15, <1>16, <1>17, <1>18, <1>19, <1>20 DEF PairInv

LEMMA ReunionSteps == ReunionInv /\ [MetaNext]_metaVars => ReunionInv'
  <1> SUFFICES ASSUME ReunionInv, [MetaNext]_metaVars PROVE PairInv'
    BY ThereSteps DEF ReunionInv, TwoInstalls
  <1>1. ThereInv /\ time \in Nat
    BY DEF ReunionInv, ThereInv, MetaInv
  <1>2. CASE UNCHANGED metaVars
    BY <1>1, <1>2, PairRests DEF metaVars
  <1>3. CASE TheClockMoves
    BY <1>1, <1>3, PairRests DEF TheClockMoves
  <1>4. ASSUME NEW d \in Installs,
               \/ \E e \in Secrets : Trash(d, e)
               \/ \E e \in Secrets, g \in AllGroups \union {Top} : MoveSecret(d, e, g)
               \/ \E g \in AllGroups \union {None} : DesignateBin(d, g)
               \/ RenameVault(d) \/ SetMarker(d)
        PROVE  PairInv'
    <2>1. /\ \A c \in (Installs \union {Server}) \ {d} : vault'[c] = vault[c]
          /\ stale' = stale /\ time' = time
          /\ \/ vault'[d].where = vault[d].where /\ vault'[d].moved = vault[d].moved
             \/ /\ ~Has(vault[d], OwnBin[d])
                /\ vault'[d].where = [vault[d].where EXCEPT ![OwnBin[d]] = Top]
                /\ vault'[d].moved = [vault[d].moved EXCEPT ![OwnBin[d]] = time]
      BY <1>1, <1>4, EditsDo
    <2>2. CASE vault'[d].where = vault[d].where /\ vault'[d].moved = vault[d].moved
      <3>1. \A c \in Installs \union {Server} :
              vault'[c].where = vault[c].where /\ vault'[c].moved = vault[c].moved
        BY <2>1, <2>2
      <3>2. time' \in Nat /\ time' >= time
        BY <1>1, <2>1
      <3> QED
        BY <2>1, <3>1, <3>2, PairRests
    <2>3. CASE /\ ~Has(vault[d], OwnBin[d])
               /\ vault'[d].where = [vault[d].where EXCEPT ![OwnBin[d]] = Top]
               /\ vault'[d].moved = [vault[d].moved EXCEPT ![OwnBin[d]] = time]
      <3>1. OwnBin[d] \in AllGroups
        BY NamesApart
      <3> QED
        BY <2>1, <2>3, <3>1, BinMade
    <2> QED
      BY <2>1, <2>2, <2>3
  <1>5. ASSUME NEW d \in Installs, Send(d) PROVE PairInv'
    BY <1>5, PairSends
  <1>6. ASSUME NEW d \in Installs, Reconcile(d) PROVE PairInv'
    BY <1>6, PairReconciles
  <1> QED
    BY <1>2, <1>3, <1>4, <1>5, <1>6 DEF MetaNext

\* In a tree that hangs from the top no group is above its own place.
LEMMA NoReturn ==
  ASSUME NEW v, v.where \in [AllGroups -> Spots], NEW x \in AllGroups, Under(v, x, Top)
  PROVE  x \notin Above(v, v.where[x])
  <1> SUFFICES ASSUME Under(v, v.where[x], x) PROVE FALSE
    BY DEF Above
  <1> DEFINE K == {z \in Above(v, x) : x \in Above(v, z)}
  <1>1. x \in Spots /\ Top \notin AllGroups /\ AllGroups \subseteq Spots
    BY NamesApart DEF Spots
  <1>2. Above(v, x) \in ClosedUpwards(v.where) /\ x \in Above(v, x)
    BY <1>1, AboveIsClosed
  <1>3. ASSUME NEW z \in K \intersect AllGroups PROVE v.where[z] \in K
    <2>1. v.where[z] \in Above(v, x) /\ v.where[z] \in Spots
      BY <1>2, <1>3 DEF ClosedUpwards
    <2>2. CASE z = x
      BY <1>1, <2>1, <2>2 DEF Above
    <2>3. CASE z # x
      <3> DEFINE J == {z} \union Above(v, v.where[z])
      <3>1. Above(v, v.where[z]) \in ClosedUpwards(v.where) /\ v.where[z] \in Above(v, v.where[z])
        BY <2>1, AboveIsClosed
      <3>2. J \in ClosedUpwards(v.where)
        BY <1>1, <1>3, <3>1 DEF ClosedUpwards, Spots
      <3>3. x \in J
        BY <1>3, <3>2 DEF Above, Under
      <3> QED
        BY <2>1, <2>3, <3>3
    <2> QED
      BY <2>2, <2>3
  <1>4. K \in ClosedUpwards(v.where)
    <2>1. K \subseteq Spots
      BY DEF Above
    <2> HIDE DEF K
    <2> QED
      BY <1>3, <2>1 DEF ClosedUpwards, Spots
  <1>5. x \in K
    BY <1>2
  <1>6. Top \in Above(v, x) /\ x \in Above(v, Top)
    BY <1>4, <1>5 DEF Under
  <1>7. {Top} \in ClosedUpwards(v.where)
    BY <1>1 DEF ClosedUpwards, Spots
  <1> QED
    BY <1>1, <1>6, <1>7 DEF Above, Under

\* A bin put away, and one lifted out, leave a tree that hangs from the top.
LEMMA NestingHangs ==
  ASSUME NEW m, CopyOK(m), GroupsThere(m), ~Circular(m), NEW w, NEW x, Nested(w, m, x)
  PROVE  ~Circular(w)
  <1> DEFINE y == m.bin
             p == m.where[x]
  <1>1. /\ x \in AllGroups /\ y \in AllGroups /\ x # y /\ p # None
        /\ m.where \in [AllGroups -> Spots] /\ AllGroups \subseteq Spots
        /\ y \in GroupsOf(m) /\ x \in GroupsOf(m)
    BY NamesApart DEF CopyOK, Copies, Nested, Spots, GroupsOf
  <1>2. \A g \in GroupsOf(m) : Under(m, g, Top)
    BY DEF Circular, Has, GroupsOf
  <1>3. p \in GroupsOf(m) \union {Top} /\ p \in Spots /\ Under(m, p, Top)
    BY <1>1, <1>2 DEF GroupsThere, Under
  <1>4. x \notin Above(m, p)
    BY <1>1, <1>2, NoReturn
  <1>5. Under(w, p, Top)
    BY <1>3, <1>4, NestingSpares
  <1>6. ~Under(m, y, x) => Under(w, y, Top)
    <2> SUFFICES ASSUME ~Under(m, y, x) PROVE Under(w, y, Top)
      OBVIOUS
    <2>1. x \notin Above(m, y) /\ y \in Spots
      BY <1>1 DEF Above
    <2> QED
      BY <1>1, <1>2, <2>1, NestingSpares
  <1>7. /\ w.where[x] = y
        /\ \A g \in AllGroups \ {x, y} : w.where[g] = m.where[g]
        /\ IF Under(m, y, x) THEN w.where[y] = p ELSE w.where[y] = m.where[y]
    BY <1>1 DEF Nested
  <1>8. \A g \in AllGroups : Has(w, g) => Has(m, g)
    <2> SUFFICES ASSUME NEW g \in AllGroups, w.where[g] # None PROVE m.where[g] # None
      BY DEF Has, GroupsOf
    <2> QED
      BY <1>1, <1>7 DEF GroupsOf
  <1> HIDE DEF y, p
  <1> SUFFICES ASSUME NEW g \in AllGroups, Has(m, g), NEW K \in ClosedUpwards(w.where), g \in K
               PROVE  Top \in K
    BY <1>8 DEF Circular, Under
  <1>9. \A h \in K \intersect AllGroups : w.where[h] \in K
    BY DEF ClosedUpwards
  <1>10. CASE x \in K \/ y \in K
    <2>1. y \in K
      BY <1>1, <1>7, <1>9, <1>10
    <2>2. CASE Under(m, y, x)
      BY <1>1, <1>5, <1>7, <1>9, <2>1, <2>2 DEF Under
    <2>3. CASE ~Under(m, y, x)
      BY <1>6, <2>1, <2>3 DEF Under
    <2> QED
      BY <2>2, <2>3
  <1>11. CASE x \notin K /\ y \notin K
    <2>1. K \in ClosedUpwards(m.where)
      BY <1>7, <1>9, <1>11 DEF ClosedUpwards
    <2> QED
      BY <1>2, <2>1 DEF Has, Under
  <1> QED
    BY <1>10, <1>11

\* A merge that does not ask, in the open: what it is made of.
LEMMA QuietMixes ==
  ASSUME ReunionInv, NEW d \in stale, Quiet(d)
  PROVE  LET D == vault[d]
             S == vault[Server]
         IN \E m : /\ CopyOK(m) /\ Mixed(m, D, S) /\ m.bin = Decider(D, S, "local").bin
                   /\ GroupsOf(m) = GroupsOf(D) \union GroupsOf(S)
                   /\ \A g \in GroupsOf(S) : m.where[g] = S.where[g]
                   /\ \A g \in GroupsOf(D) \ GroupsOf(S) : m.where[g] = Top
                   /\ \/ Silent(d) = m /\ (m.bin = None \/ Lost(m, D, S) = {})
                      \/ m.bin # None /\ \E x \in Lost(m, D, S) : Nested(Silent(d), m, x)
  <1> DEFINE D == vault[d]
             S == vault[Server]
  <1>1. /\ MetaInv /\ d \in Installs /\ CopyOK(D) /\ CopyOK(S) /\ time \in Nat /\ "local" \in Either
        /\ D.bin \in AllGroups \union {None} /\ S.bin \in AllGroups \union {None}
    BY DEF ReunionInv, ThereInv, MetaInv, CopyOK, Copies, Either
  <1>2. PICK m : /\ CopyOK(m) /\ Mixed(m, D, S) /\ m.bin = Decider(D, S, "local").bin
                 /\ Silent(d) = ReuniteRecycleBins(m, D, S)
    BY <1>1, TogetherMixes DEF Silent, Result
  <1>3. TiedGroups(D, S) = {}
    BY DEF Quiet, Asked, MustAsk
  <1>4. /\ GroupsOf(m) = GroupsOf(D) \union GroupsOf(S)
        /\ \A g \in GroupsOf(S) : m.where[g] = S.where[g]
        /\ \A g \in GroupsOf(D) \ GroupsOf(S) : m.where[g] = Top
    BY <1>2, <1>3, PairMixes
  <1>5. \/ Silent(d) = m /\ (m.bin = None \/ Lost(m, D, S) = {})
        \/ m.bin # None /\ \E x \in Lost(m, D, S) : Nested(Silent(d), m, x)
    BY <1>1, <1>2, ReunionIs
  <1> QED
    BY <1>2, <1>4, <1>5

LEMMA NoneInItself == ReunionInv => NoGroupInItself
  <1> SUFFICES ASSUME ReunionInv, NEW d \in stale, Quiet(d) PROVE ~Circular(Silent(d))
    BY DEF NoGroupInItself
  <1> DEFINE D == vault[d]
             S == vault[Server]
  <1>1. PICK m : /\ CopyOK(m)
                 /\ GroupsOf(m) = GroupsOf(D) \union GroupsOf(S)
                 /\ \A g \in GroupsOf(S) : m.where[g] = S.where[g]
                 /\ \A g \in GroupsOf(D) \ GroupsOf(S) : m.where[g] = Top
                 /\ \/ Silent(d) = m
                    \/ \E x : Nested(Silent(d), m, x)
    BY QuietMixes
  <1>2. GroupsThere(S) /\ CopyOK(S) /\ ~Circular(S)
    BY DEF ReunionInv, ThereInv, MetaInv, PairInv, NoneCircular
  <1> HIDE DEF D, S
  <1>3. ASSUME NEW g \in AllGroups, Has(m, g) PROVE Under(m, g, Top)
    <2>1. CASE g \in GroupsOf(S)
      <3>1. Under(S, g, Top)
        BY <1>2, <1>3, <2>1 DEF Circular, Has
      <3> QED
        BY <1>1, <1>2, <2>1, <3>1, GrownTree
    <2>2. CASE g \notin GroupsOf(S)
      <3>1. m.where[g] = Top
        BY <1>1, <1>3, <2>2 DEF Has
      <3> QED
        BY <1>3, <3>1 DEF Under, ClosedUpwards
    <2> QED
      BY <2>1, <2>2
  <1>4. GroupsThere(m)
    BY <1>1, <1>2 DEF GroupsThere
  <1>5. ~Circular(m)
    BY <1>3 DEF Circular
  <1> QED
    BY <1>1, <1>4, <1>5, NestingHangs

LEMMA DeletionsSurvive == ReunionInv => DeletionSurvivesReunion
  <1> SUFFICES ASSUME ReunionInv, NEW d \in stale, NEW e \in Secrets, Undeleted(d, e),
                      ~RetiredOnPurpose({vault[d], vault[Server]}, Silent(d).bin, LastToPlace(d, e).bin)
               PROVE  FALSE
    BY DEF DeletionSurvivesReunion
  <1> DEFINE D == vault[d]
             S == vault[Server]
             L == LastToPlace(d, e)
             M == Decider(D, S, "local")
             v == Silent(d)
             X == L.bin
             q == L.entry[e]
  <1>1. /\ MetaInv /\ d \in Installs /\ CopyOK(D) /\ CopyOK(S) /\ EntriesThere(D) /\ EntriesThere(S)
        /\ GroupsThere(S) /\ D.put[e] \in Nat /\ S.put[e] \in Nat
        /\ D.where \in [AllGroups -> Spots]
    BY DEF ReunionInv, ThereInv, MetaInv, CopyOK, Copies, Spots
  <1>2. /\ D.entry[e] # S.entry[e] /\ Deleted(L, e) /\ Quiet(d) /\ v.bin # None /\ ~Deleted(v, e)
    BY DEF Undeleted, SamePlace
  <1>3. PICK m : /\ CopyOK(m) /\ Mixed(m, D, S) /\ m.bin = M.bin
                 /\ GroupsOf(m) = GroupsOf(D) \union GroupsOf(S)
                 /\ \A g \in GroupsOf(S) : m.where[g] = S.where[g]
                 /\ \A g \in GroupsOf(D) \ GroupsOf(S) : m.where[g] = Top
                 /\ \/ v = m /\ (m.bin = None \/ Lost(m, D, S) = {})
                    \/ m.bin # None /\ \E x \in Lost(m, D, S) : Nested(v, m, x)
    BY <1>2, QuietMixes
  <1>4. L \in {D, S} /\ M \in {D, S}
    BY DEF LastToPlace, Decider
  <1>5. e \notin TiedEntries(D, S)
    BY <1>2 DEF Quiet, Asked, MustAsk, Blocked
  <1>6. m.entry[e] = q
    <2>1. D.put[e] # S.put[e]
      BY <1>2, <1>5 DEF TiedEntries
    <2>2. m.entry[e] = IF S.put[e] > D.put[e] THEN S.entry[e] ELSE D.entry[e]
      BY <1>3, <1>5 DEF Mixed
    <2>3. L = IF D.put[e] > S.put[e] THEN D ELSE S
      BY DEF LastToPlace
    <2> HIDE DEF D, S, L
    <2> QED
      BY <1>1, <2>1, <2>2, <2>3
  <1>7. /\ X # None /\ Under(L, q, X)
        /\ ~Under(v, v.entry[e], v.bin)
    BY <1>2 DEF Deleted
  <1>8. v.bin = m.bin
    BY <1>3 DEF Nested
  <1>9. \A w \in {D, S} : w.bin = v.bin => ~Has(w, X)
    BY DEF RetiredOnPurpose
  <1>10. q \in GroupsOf(L) \union {Top} /\ X \in AllGroups /\ Has(L, X)
    BY <1>1, <1>4, <1>7 DEF EntriesThere, CopyOK, Copies, Has, GroupsOf
  <1>11. \A g \in GroupsOf(D) \ GroupsOf(S) : \A h \in AllGroups : D.where[h] # g
    BY <1>1 DEF ReunionInv, PairInv, UnsentAlone
  <1> HIDE DEF D, S, L, M, v, X, q
  <1>12. X # v.bin /\ M.bin = v.bin /\ ~Has(M, X) /\ L # M
    BY <1>3, <1>4, <1>8, <1>9, <1>10 DEF X
  <1>13. {D, S} = {L, M} /\ {D.bin, S.bin} = {X, m.bin}
    BY <1>3, <1>4, <1>12 DEF X
  <1>14. X \in Lost(m, D, S)
    <2>1. Has(m, X)
      BY <1>3, <1>4, <1>10 DEF Has
    <2> QED
      BY <1>7, <1>8, <1>9, <1>12, <1>13, <2>1 DEF Lost, RetiredOnPurpose
  <1>15. \A x \in Lost(m, D, S) : x = X
    BY <1>13 DEF Lost
  <1>16. Nested(v, m, X)
    BY <1>2, <1>3, <1>8, <1>14, <1>15
  <1>17. Under(m, q, X)
    <2>1. CASE L = S
      BY <1>1, <1>3, <1>7, <1>10, <2>1, GrownTree
    <2>2. CASE L = D
      <3>1. X \in GroupsOf(D) \ GroupsOf(S)
        BY <1>4, <1>10, <1>12, <2>2 DEF Has
      <3>2. \A h \in AllGroups : D.where[h] # X
        BY <1>11, <3>1
      <3>3. q # X => ~Under(D, q, X)
        <4>1. q \in Spots
          BY <1>10 DEF GroupsOf, Spots
        <4>2. Spots \ {X} \in ClosedUpwards(D.where)
          BY <1>1, <3>2 DEF ClosedUpwards, Spots
        <4> QED
          BY <4>1, <4>2 DEF Under
      <3>4. q = X
        BY <1>7, <2>2, <3>3
      <3> QED
        BY <3>4 DEF Under
    <2> QED
      BY <1>4, <2>1, <2>2
  <1>18. v.entry[e] = q
    BY <1>6, <1>16 DEF Nested
  <1>19. ASSUME NEW K \in ClosedUpwards(v.where), q \in K PROVE v.bin \in K
    <2> SUFFICES ASSUME v.bin \notin K PROVE FALSE
      OBVIOUS
    <2>1. /\ v.where[X] = m.bin /\ m.where \in [AllGroups -> Spots]
          /\ \A g \in AllGroups \ {X, m.bin} : v.where[g] = m.where[g]
      BY <1>3, <1>16 DEF Nested, CopyOK, Copies, Spots
    <2>2. X \notin K
      BY <1>8, <1>10, <2>1 DEF ClosedUpwards
    <2>3. K \in ClosedUpwards(m.where)
      BY <1>8, <2>1, <2>2 DEF ClosedUpwards
    <2> QED
      BY <1>17, <1>19, <2>2, <2>3 DEF Under
  <1> QED
    BY <1>7, <1>18, <1>19 DEF Under

LEMMA ReunionsHold == TwoInstalls => (MetaSpec => []BinsReunite)
  <1>1. ReunionInv => BinsReunite
    BY SameFate, DeletionsSurvive, NoneInItself DEF ReunionInv, BinsReunite
  <1> QED
    BY <1>1, ReunionInitial, ReunionSteps, PTL DEF MetaSpec

-----------------------------------------------------------------------------
(* The parts together.                                                     *)

RulesPart == part \in {"entry", "meta", "tree", "cli"}

copiesVars == <<part, entryVars, metaVars, treeVars, cliVars>>

LEMMA RuleByRule ==
  [CopiesNext]_copiesVars =>
    /\ [EntryNext]_entryVars /\ [MetaNext]_metaVars /\ [TreeNext]_treeVars /\ [CliNext]_cliVars
    /\ part' = part
  <1>1. CopiesNext =>
          /\ part' = part /\ (EntryNext \/ UNCHANGED entryVars) /\ (MetaNext \/ UNCHANGED metaVars)
          /\ (TreeNext \/ UNCHANGED treeVars) /\ (CliNext \/ UNCHANGED cliVars)
    BY DEF CopiesNext
  <1>2. UNCHANGED copiesVars => UNCHANGED <<part, entryVars, metaVars, treeVars, cliVars>>
    BY DEF copiesVars
  <1> QED
    BY <1>1, <1>2

LEMMA EveryRule == CopiesSpec => EntrySpec /\ MetaSpec /\ TreeSpec /\ CliSpec /\ []RulesPart
  <1>1. CopiesInit => EntryInit /\ MetaInit /\ TreeInit /\ CliInit /\ RulesPart
    BY DEF CopiesInit, RulesPart
  <1>2. RulesPart /\ part' = part => RulesPart'
    BY DEF RulesPart
  <1>3. CopiesSpec => CopiesInit /\ [][CopiesNext]_copiesVars
    BY DEF CopiesSpec, copiesVars
  <1> QED
    BY <1>1, <1>2, <1>3, RuleByRule, PTL DEF EntrySpec, MetaSpec, TreeSpec, CliSpec

\* Copies, clocks, trees, and the client's processes are always of their types.
THEOREM CopiesTypes == CopiesSpec => []CopiesTypeOK
  <1>1. RulesPart /\ EntryTypeOK /\ MetaTypeOK /\ TreeTypeOK /\ CliTypeOK => CopiesTypeOK
    BY DEF RulesPart, CopiesTypeOK
  <1> QED
    BY <1>1, EveryRule, EntriesHold, SettingsHold, TreesHold, CommandsKeep, PTL

\* Where an entry is live on both sides and no deletion is on record, the merge whose question is
\* answered is never refused, and it leaves the text and the place the user picked, on whichever
\* clocks the two copies differed (merge.rs, apply_picks and force_winner).
THEOREM AnswersSettleIt == CopiesSpec => [](AnsweredMergeSucceeds /\ PickStands)
  BY EveryRule, EntriesHold, PTL

\* Nothing an entry ever said on a device or in the cloud goes missing while the entry is held:
\* every step of every device, merges and uploads too, keeps all of it (merge.rs, merge_databases).
THEOREM VersionsAreKept == CopiesSpec => NothingForgotten
  BY EveryRule, EntriesHold, PTL

\* The vault's own settings: an answer decides ties and nothing else, a merge that sends nothing
\* had nothing to send, and a marker that reached the cloud file stays there (merge.rs,
\* force_meta_winner, has_local_contribution, merge_markers).
THEOREM SettingsStaySettled == CopiesSpec => SettingsSettle
  BY EveryRule, SettingsHold, PTL

\* Through any sequence of changes all groups and entries hang from the root, the images kept are
\* those in use, the bin stays where it is, what is restored comes back to where it was, and moves
\* and deletions can be ranked against what they replace (document.rs).
THEOREM TreeStaysWhole == CopiesSpec => TreeKeepsItsShape
  BY EveryRule, TreesHold, PTL

\* Beside other processes and whoever else writes the cloud file, a command loses no write, in the
\* cloud or on the disk, records only what is true, and commits the two contents its plan was made
\* from (cli.rs, execute_sync, publish).
THEOREM CommandsStaySafe == CopiesSpec => CommandsLoseNothing
  BY EveryRule, CommandsKeep, PTL

\* With two devices a question is asked once and its answer settles it: a device that changed
\* nothing since it last agreed with the cloud is never asked, an answered merge goes through, and
\* what the user picked is what the entry says and where it is (merge.rs, apply_picks and
\* resolution_time).  Two devices are what the property is about: with a third it is false.
THEOREM AskedOnceOfTwo == TwoDevices => (CopiesSpec => []AnswersStand)
  BY EveryRule, TwoHold, PTL

\* With two devices one that changed nothing since it last agreed with the cloud takes over the
\* entry, its place, its deletion and its archive as the cloud has them, and nothing blocks that
\* merge (merge.rs, merge_databases).
THEOREM UnchangedFollowOfTwo == TwoDevices => (CopiesSpec => []UnchangedCopyFollows)
  BY EveryRule, TwoHold, PTL

\* Where nobody is asked the last word wins on both devices, also over a deletion: no merge brings
\* back a version this copy had replaced, or one its device deleted for good, unless a user chose
\* it elsewhere; an unchanged copy takes over the cloud's; what a merge decides not to upload the
\* cloud has; and no version is lost on the way (merge.rs, merge_databases and
\* has_local_contribution).  For an entry that started with both stamps.
THEOREM LastWordOfTwo == TwoDevices => (CopiesSpec /\ Believable => LastWordWins)
  BY EveryRule, LastHold, VersionsAreKept, PTL DEF LastWordWins

\* On however many devices: an entry that both copies have in the same place is deleted after a
\* merge if it was for both, live if it was for both, and otherwise what it was for the copy whose
\* bin was designated last or picked; which bin is put into which makes no difference to it
\* (merge.rs, reunite_recycle_bins).
THEOREM FateStaysTheSame == CopiesSpec => []SameEntrySameFate
  BY EveryRule, FatesHold, PTL

\* With two devices, when copies with different bins meet, an entry that moved nowhere is deleted
\* if the deciding copy has it deleted, a deletion that is the last word on where an entry is
\* survives where each made its own bin, and in no merge that does not ask a group ends up in
\* itself (merge.rs, reunite_recycle_bins and nest_into_bin).
THEOREM BinsReuniteOfTwo == TwoInstalls => (CopiesSpec => []BinsReunite)
  BY EveryRule, ReunionsHold, PTL
=============================================================================
