---------------------------- MODULE SyncStoreInv ----------------------------
(***************************************************************************)
(* The inductive invariant behind the safety of SyncStore: who may touch a  *)
(* vault between the moment its staged file appears and the moment it is    *)
(* bound or removed, and what a task of an open vault may rely on.          *)
(***************************************************************************)
EXTENDS SyncStore

\* The places of each kind of task.
PlacesOf(kind) ==
  CASE kind = "connect" -> {"ready", "checking", "staging", "binding", "signing", "landed"}
    [] kind = "publish" -> {"ready", "checking", "saving", "landed"}
    [] kind = "reconnect" -> {"ready", "storing", "saving", "landed"}
    [] kind = "disconnect" -> {"ready", "deleting", "scanning", "signingOut"}
    [] kind = "restore" -> {"loading", "refreshing", "exchanging", "refreshed", "restored"}
    [] kind = "sync" -> {"refreshing", "exchanging", "refreshed", "uploaded"}
    [] kind = "cli" -> {"loading", "refreshing", "exchanging", "refreshed", "comparing"}
    [] OTHER -> {"unused", "ended"}

TaskFine(t) ==
  /\ task[t].at \in PlacesOf(task[t].kind)
  /\ task[t].kind # "none" => task[t].vault \in Vault
  /\ task[t].kind = "cli" => task[t].app = NoApp
  /\ task[t].kind \notin {"cli", "none"} => task[t].app \in App
  /\ task[t].at \in {"refreshing", "exchanging"} => SharePoint(task[t].rel)
  /\ task[t].at = "exchanging" => task[t].got # NoToken

TaskInv == \A t \in Task : TaskFine(t)

\* The vault of the task is on disk under its name and not bound yet.
Staged(t) == task[t].at \in {"binding", "signing"}

\* Nobody else staged the vault: StagedVault does not replace a file.  Its
\* configuration is missing until publish_binding, which holds the lock.
StagedInv ==
  \A t \in Task : Staged(t) =>
    /\ task[t].vault \in file
    /\ task[t].at = "binding" => config[task[t].vault] = NoRel
    /\ task[t].at = "signing" => lock = t
    /\ \A u \in Task : Staged(u) /\ task[u].vault = task[t].vault => u = t

\* Open vaults exist and are not staged, and a task whose session is current
\* belongs to an open one.
Tied == {"publish", "reconnect", "disconnect", "restore", "sync"}

TiedFine(t) ==
  task[t].kind \in Tied /\ task[t].current => task[t].vault \in open[task[t].app]

WindowInv ==
  /\ \A p \in App : open[p] \subseteq file
  /\ \A t \in Task, p \in App : Staged(t) => task[t].vault \notin open[p]
  /\ \A t \in Task : TiedFine(t)

\* A task that may write a configuration without staging a vault writes that
\* of a vault which was there before, and which nobody staged since.
Writes(t) ==
  /\ task[t].kind \in {"publish", "reconnect", "restore", "sync", "cli"}
  /\ task[t].rel # NoRel

WriterFine(t) ==
  Writes(t) => task[t].vault \in file /\ \A u \in Task : Staged(u) => task[u].vault # task[t].vault

WriterInv == \A t \in Task : WriterFine(t)

\* All of it: what makes TypeOK and BoundVaultHasFile hold in every state
\* (StagedVault, publish_binding, sync_session_is_current).
StoreInv ==
  TypeOK /\ TaskInv /\ StagedInv /\ WindowInv /\ WriterInv /\ BoundVaultHasFile

----------------------------------------------------------------------------
(* One process: what its gate makes the tasks rely on while they keep the  *)
(* configurations and the tokens together.                                 *)

OneProcess == \A p, q \in App : p = q

MutexInv == \A t, u \in Task : Inside(t) /\ Inside(u) => t = u

\* Starting a publication advances the gate: the others are not wanted.
WantedInv ==
  /\ \A t \in Task : task[t].wanted => task[t].app \in App
  /\ \A t, u \in Task : task[t].wanted /\ task[u].wanted => t = u

\* What kind of remote file a task brings.
RemoteFine(t) ==
  /\ task[t].kind \in {"connect", "publish", "disconnect"} => task[t].rel \in Remote
  /\ task[t].kind = "publish" => ~SharePoint(task[t].rel)
  /\ task[t].kind = "reconnect" \/ task[t].at \in {"signing", "signingOut"} =>
       SharePoint(task[t].rel)

GateInv == MutexInv /\ WantedInv /\ \A t \in Task : RemoteFine(t)

\* A decision to disconnect stands; a sign-in in the making has its
\* configuration and nobody's decision; a token is deleted while no
\* configuration names its account.
LiveFine(t) ==
  LET v == task[t].vault  r == task[t].rel IN
  /\ task[t].kind = "disconnect" => live[v] = NoRel
  /\ Is(t, "reconnect", "saving") => token[AccountOf[r]] # NoToken
  /\ revived = {} /\ task[t].at = "signing" => config[v] = r /\ live[v] = NoRel
  /\ revived = {} /\ task[t].at = "signingOut" => BoundTo(AccountOf[r]) = {}

LiveInv == LiveBindingsHold /\ \A t \in Task : LiveFine(t)

\* A reconnect that may still write its configuration.
Alive(t) ==
  /\ task[t].kind = "reconnect"
  /\ \/ task[t].at \in {"storing", "saving"}
     \/ task[t].at = "ready" /\ task[t].wanted

AliveAt(v) == \E t \in Task : Alive(t) /\ task[t].vault = v

\* r is the SharePoint file of v, or may become it once more.
Relates(v, r) ==
  \/ SharePoint(r) /\ config[v] = r
  \/ \E t \in Task : Alive(t) /\ task[t].vault = v /\ task[t].rel = r

\* Tasks that may install, write or sign out of the relationship they know of.
Knows(t) ==
  /\ task[t].kind \in {"reconnect", "disconnect", "restore"} \/ Is(t, "connect", "landed")
  /\ task[t].rel # NoRel

Unstaged(v) == v \in file /\ \A t \in Task : Staged(t) => task[t].vault # v

\* Who knows of a relationship knows a vault that is there to stay.
KnownInv ==
  /\ \A t \in Task : Knows(t) => Unstaged(task[t].vault)
  /\ \A p \in App, v \in Vault : bound[p][v] # NoRel => Unstaged(v)

\* No two SharePoint files for one vault.
AgreeOn(v, r) ==
  /\ config[v] \in {NoRel, r}
  /\ \A p \in App : bound[p][v] \in {NoRel, r}
  /\ \A t \in Task : Knows(t) /\ task[t].vault = v => task[t].rel = r

AgreeAt(v) == \A r \in Remote : Relates(v, r) => AgreeOn(v, r)

\* A publication to iCloud only fills a vault without a configuration.
PublishFine(t) ==
  LET v == task[t].vault IN
  task[t].kind = "publish" =>
    /\ task[t].at = "checking" /\ AliveAt(v) => config[v] # NoRel
    /\ task[t].at = "saving" => config[v] = NoRel /\ ~AliveAt(v)
    /\ task[t].at # "ready" /\ task[t].current =>
         \A u \in Task : task[u].kind = "disconnect" => task[u].vault # v
    /\ task[t].at = "landed" /\ task[t].current => config[v] = task[t].rel

PublishInv == \A t \in Task : PublishFine(t)

\* A vault that is not being signed in keeps the token of its account.
Keeps(v, a) ==
  Account_(config[v]) = a /\ \A t \in Task : task[t].at = "signing" => task[t].vault # v

Owned(a) ==
  \/ \E v \in Vault : Keeps(v, a)
  \/ \E t \in Task : HalfWay(t) /\ Account_(task[t].rel) = a
  \/ a \in abandoned

TokensOwned == \A a \in Account : token[a] # NoToken => Owned(a)

OwnerInv == revived = {} => (\A v \in Vault : AgreeAt(v)) /\ PublishInv /\ TokensOwned

\* All of it, for one process.
BindingInv == StoreInv /\ GateInv /\ LiveInv /\ KnownInv /\ OwnerInv
=============================================================================
