------------------------------ MODULE SyncStore ------------------------------
(***************************************************************************)
(* What binds vaults to the cloud on one machine: one configuration per    *)
(* vault, one refresh token per account, and the tasks of the application  *)
(* and of the command line client that change them (src/sync/service.rs,   *)
(* config.rs, tokens.rs, lock.rs, their callers in src/app/state.rs and    *)
(* src/cli.rs).                                                            *)
(*                                                                         *)
(* Every read or write of a configuration or a token is one hold of the    *)
(* cross-process lock, and so one step here; connecting a vault holds the  *)
(* lock over two writes.  Nothing is held over a request to the server.    *)
(* The operation gate orders the publications and clean-ups of one process *)
(* (module ConnectGate).                                                   *)
(***************************************************************************)
CONSTANTS App, Vault, Remote, Account, Task,
          AccountOf,   \* the account a remote file belongs to, NoAccount: iCloud
          Offered,     \* the kinds of task that may be started
          NoApp, NoVault, NoRel, NoAccount, NoToken, NoTask, Origin

Kind == {"connect", "publish", "reconnect", "disconnect", "restore", "sync", "cli"}

ASSUME StoreAssumption ==
  /\ AccountOf \in [Remote -> Account \cup {NoAccount}]
  /\ Offered \subseteq Kind
  /\ NoApp \notin App /\ NoVault \notin Vault /\ NoRel \notin Remote
  /\ NoAccount \notin Account /\ {NoTask, Origin} \cap Task = {} /\ NoTask # Origin
  /\ NoToken \notin [signIn : Task \cup {Origin}, by : Task \cup {Origin}]

VARIABLES
  config,     \* the relationship in each vault's configuration file
  token,      \* the refresh token of each account in the keychain
  file,       \* the vaults that exist on disk
  lock,       \* the task inside publish_binding
  open,       \* each process: its unlocked vaults
  engaged,    \* each process: its vaults whose sync status is not Disconnected
  bound,      \* each process: the binding of a vault, pending or installed
  task,
  live,       \* history: the relationship the user last decided on and got
  revived,    \* history: vaults whose configuration a task wrote back
  abandoned   \* history: accounts of tasks that gave up or crashed half-way

stores == <<config, token, file, lock>>
windows == <<open, engaged, bound>>
history == <<live, revived, abandoned>>
vars == <<config, token, file, lock, open, engaged, bound, task, live, revived, abandoned>>

\* A token knows the sign-in it descends from and the task that got it.
Token == [signIn : Task \cup {Origin}, by : Task \cup {Origin}]

Account_(r) == IF r = NoRel THEN NoAccount ELSE AccountOf[r]
SharePoint(r) == Account_(r) # NoAccount
BoundTo(a) == {v \in Vault : Account_(config[v]) = a}

Unused == [kind |-> "none", app |-> NoApp, vault |-> NoVault, rel |-> NoRel,
           got |-> NoToken, at |-> "unused", wanted |-> FALSE, current |-> FALSE]
Ended == [Unused EXCEPT !.at = "ended"]

Is(t, kind, place) == task[t].kind = kind /\ task[t].at = place
MoveTo(t, place) == task' = [task EXCEPT ![t].at = place]
End(t) == task' = [task EXCEPT ![t] = Ended]

Free == lock = NoTask

Init ==
  /\ file \in SUBSET Vault
  /\ config \in [Vault -> Remote \cup {NoRel}]
  /\ \A v \in Vault : config[v] # NoRel => v \in file
  /\ token = [a \in Account |->
       IF BoundTo(a) = {} THEN NoToken ELSE [signIn |-> Origin, by |-> Origin]]
  /\ lock = NoTask
  /\ open = [p \in App |-> {}]
  /\ engaged = [p \in App |-> {}]
  /\ bound = [p \in App |-> [v \in Vault |-> NoRel]]
  /\ task = [t \in Task |-> Unused]
  /\ live = config
  /\ revived = {}
  /\ abandoned = {}

----------------------------------------------------------------------------
(* The main thread: what the user starts and ends                           *)

CanStart(t, kind) == kind \in Offered /\ task[t] = Unused

\* The gate advances: no publication under way is wanted any more.  The tasks
\* of the named vaults lose their session or their binding generation.
Unwanted(r) == [r EXCEPT !.wanted = FALSE]

Abandon(p, vs) ==
  [u \in Task |->
    IF task[u].app # p THEN task[u]
    ELSE IF task[u].vault \in vs THEN [Unwanted(task[u]) EXCEPT !.current = FALSE]
    ELSE Unwanted(task[u])]

Begin(t, kind, p, v, r, place) ==
  [kind |-> kind, app |-> p, vault |-> v, rel |-> r, got |-> NoToken, at |-> place,
   wanted |-> kind \in {"connect", "publish", "reconnect"}, current |-> TRUE]

\* Unlocking a vault installs the binding of a connect that was just adopted,
\* or restores the one on disk; it drops a binding pending for another vault.
Bindings(p, v) == [w \in Vault |-> IF w = v \/ w \in open[p] THEN bound[p][w] ELSE NoRel]

\* A staged vault is on disk for the length of one hold before it is bound or
\* removed; nobody finds it and types its password in that quarter of a second.
Settled(v) == \A t \in Task : task[t].at \in {"binding", "signing"} => task[t].vault # v

Unlock(p, v) ==
  /\ v \in file \ open[p]
  /\ Settled(v)
  /\ open' = [open EXCEPT ![p] = @ \cup {v}]
  /\ bound' = [bound EXCEPT ![p] = Bindings(p, v)]

Engage(p, v) == engaged' = [engaged EXCEPT ![p] = @ \cup {v}]

\* rebind_sync: a callback installs the binding its task brings.
Installs(t) ==
  /\ bound' = [bound EXCEPT ![task[t].app][task[t].vault] = task[t].rel]
  /\ Engage(task[t].app, task[t].vault)

\* A callback that installs a binding runs the push that waited for it.
EndOrPush(t) ==
  \/ End(t)
  \/ task' = [task EXCEPT ![t].kind = "sync", ![t].at = "uploaded"]

Open(p, v) ==
  /\ Unlock(p, v)
  /\ \/ bound[p][v] # NoRel /\ Engage(p, v)
     \/ bound[p][v] = NoRel /\ config[v] = NoRel /\ UNCHANGED engaged
  /\ UNCHANGED <<stores, task, history>>

OpenSynced(p, v, t) ==
  /\ CanStart(t, "restore")
  /\ Unlock(p, v)
  /\ bound[p][v] = NoRel
  /\ config[v] # NoRel
  /\ Engage(p, v)
  /\ task' = [task EXCEPT ![t] = Begin(t, "restore", p, v, NoRel, "loading")]
  /\ UNCHANGED <<stores, history>>

\* A push without a binding, or the Retry button, restores once more.
RetryRestore(p, v, t) ==
  /\ CanStart(t, "restore")
  /\ v \in engaged[p]
  /\ bound[p][v] = NoRel
  /\ config[v] # NoRel
  /\ task' = [task EXCEPT ![t] = Begin(t, "restore", p, v, NoRel, "loading")]
  /\ UNCHANGED <<stores, windows, history>>

Emptied(p) ==
  /\ open' = [open EXCEPT ![p] = {}]
  /\ engaged' = [engaged EXCEPT ![p] = {}]
  /\ bound' = [bound EXCEPT ![p] = [v \in Vault |-> NoRel]]

Lock(p) ==
  /\ open[p] # {}
  /\ Emptied(p)
  /\ task' = Abandon(p, Vault)
  /\ UNCHANGED <<stores, history>>

\* Turning to another vault drops a binding that waits for an unlock.
DropPending(p) ==
  /\ \E v \in Vault \ open[p] : bound[p][v] # NoRel
  /\ bound' = [bound EXCEPT ![p] = [v \in Vault |-> IF v \in open[p] THEN @[v] ELSE NoRel]]
  /\ UNCHANGED <<stores, open, engaged, task, history>>

\* Leaving the connect overlay; the sync status of the vault in front goes back
\* to Disconnected if it has no binding.
Cancel(p) ==
  /\ task' = Abandon(p, {})
  /\ \/ UNCHANGED engaged
     \/ \E v \in Vault : /\ bound[p][v] = NoRel
                        /\ engaged' = [engaged EXCEPT ![p] = @ \ {v}]
  /\ UNCHANGED <<stores, open, bound, history>>

StartConnect(p, v, r, t) ==
  /\ CanStart(t, "connect")
  /\ v \notin open[p]
  /\ \A w \in Vault : bound[p][w] # r
  /\ task' = [Abandon(p, {}) EXCEPT ![t] = Begin(t, "connect", p, v, r, "ready")]
  /\ UNCHANGED <<stores, windows, history>>

StartPublish(p, v, r, t) ==
  /\ CanStart(t, "publish")
  /\ v \in open[p]
  /\ bound[p][v] = NoRel
  /\ ~SharePoint(r)
  /\ task' = [Abandon(p, {}) EXCEPT ![t] = Begin(t, "publish", p, v, r, "ready")]
  /\ UNCHANGED <<stores, windows, history>>

StartReconnect(p, v, t) ==
  /\ CanStart(t, "reconnect")
  /\ Free
  /\ v \in engaged[p]
  /\ SharePoint(config[v])
  /\ task' = [Abandon(p, {}) EXCEPT ![t] = Begin(t, "reconnect", p, v, config[v], "ready")]
  /\ UNCHANGED <<stores, windows, history>>

\* The binding goes at once, the files in the background.
Disconnect(p, v, t) ==
  /\ CanStart(t, "disconnect")
  /\ v \in open[p]
  /\ bound[p][v] # NoRel
  /\ bound' = [bound EXCEPT ![p][v] = NoRel]
  /\ engaged' = [engaged EXCEPT ![p] = @ \ {v}]
  /\ task' = [Abandon(p, {v}) EXCEPT
                ![t] = Begin(t, "disconnect", p, v, bound[p][v], "ready")]
  /\ live' = [live EXCEPT ![v] = NoRel]
  /\ UNCHANGED <<stores, open, revived, abandoned>>

\* A push or a pull over the installed binding; the access token may be about
\* to expire.
StartSync(p, v, t) ==
  /\ CanStart(t, "sync")
  /\ v \in open[p]
  /\ bound[p][v] # NoRel
  /\ \E place \in {"uploaded"} \cup {q \in {"refreshing"} : SharePoint(bound[p][v])} :
       task' = [task EXCEPT ![t] = Begin(t, "sync", p, v, bound[p][v], place)]
  /\ UNCHANGED <<stores, windows, history>>

StartCli(v, t) ==
  /\ CanStart(t, "cli")
  /\ v \in file
  /\ task' = [task EXCEPT ![t] = Begin(t, "cli", NoApp, v, NoRel, "loading")]
  /\ UNCHANGED <<stores, windows, history>>

----------------------------------------------------------------------------
(* The operation gate of a process                                          *)

Gated(t) == task[t].kind \in {"connect", "publish", "reconnect", "disconnect"}
Inside(t) == Gated(t) /\ task[t].at \notin {"ready", "landed"}

MutexFree(p) == \A t \in Task : task[t].app = p => ~Inside(t)

CleanUpDue(p) == \E t \in Task : task[t].kind = "disconnect" /\ task[t].app = p

FirstPlace(kind) ==
  CASE kind = "reconnect" -> "storing" [] kind = "disconnect" -> "deleting" [] OTHER -> "checking"

EnterGate(t) ==
  /\ Gated(t) /\ task[t].at = "ready"
  /\ MutexFree(task[t].app)
  /\ task[t].kind # "disconnect" => ~CleanUpDue(task[t].app)
  /\ IF task[t].kind = "disconnect" \/ task[t].wanted
     THEN MoveTo(t, FirstPlace(task[t].kind))
     ELSE End(t)
  /\ UNCHANGED <<stores, windows, history>>

\* A failed publication ends; that of an open vault shows in its sync status.
EndShown(t) ==
  /\ End(t)
  /\ IF task[t].kind = "publish" /\ task[t].wanted /\ task[t].current
     THEN Engage(task[t].app, task[t].vault) ELSE UNCHANGED engaged

\* The download, the sign-in or the account check fails before the gate.
PrepareFails(t) ==
  /\ Gated(t) /\ task[t].at = "ready"
  /\ task[t].kind # "disconnect"
  /\ EndShown(t)
  /\ UNCHANGED <<stores, open, bound, history>>

\* History: a publication is what the user has, unless a disconnect of its vault
\* was decided on meanwhile.
Takes(v, r) ==
  live' = IF \E t \in Task : task[t].kind = "disconnect" /\ task[t].vault = v
          THEN live ELSE [live EXCEPT ![v] = r]

----------------------------------------------------------------------------
(* persist_connect_picked                                                   *)

\* Dropping the staged vault removes what it published.
RollBack(t) == file' = file \ {task[t].vault} /\ End(t)

ConnectCheck(t) ==
  /\ Is(t, "connect", "checking")
  /\ Free
  /\ IF config[task[t].vault] = NoRel THEN MoveTo(t, "staging") ELSE End(t)
  /\ UNCHANGED <<stores, windows, history>>

\* Mutant: a vault that exists is replaced.
StageVaultOver(t) ==
  /\ Is(t, "connect", "staging")
  /\ MoveTo(t, "binding")
  /\ file' = file \cup {task[t].vault}
  /\ UNCHANGED <<config, token, lock, windows, history>>

\* StagedVault refuses to replace a vault that exists.
StageVault(t) ==
  /\ Is(t, "connect", "staging")
  /\ IF task[t].vault \in file
     THEN End(t) /\ UNCHANGED file
     ELSE MoveTo(t, "binding") /\ file' = file \cup {task[t].vault}
  /\ UNCHANGED <<config, token, lock, windows, history>>

\* publish_binding writes the configuration; iCloud needs nothing else.
SaveBinding(t) ==
  LET v == task[t].vault  r == task[t].rel IN
  /\ Is(t, "connect", "binding")
  /\ Free
  /\ config[v] = NoRel
  /\ config' = [config EXCEPT ![v] = r]
  /\ IF SharePoint(r)
     THEN MoveTo(t, "signing") /\ lock' = t /\ UNCHANGED live
     ELSE MoveTo(t, "landed") /\ Takes(v, r) /\ UNCHANGED lock
  /\ UNCHANGED <<token, file, windows, revived, abandoned>>

\* Another process was first, the lock is not to be had, the write fails: the
\* staged vault goes.
BindingFails(t) ==
  /\ Is(t, "connect", "binding")
  /\ RollBack(t)
  /\ UNCHANGED <<config, token, lock, windows, history>>

\* The second half of publish_binding, still under the lock.
StoreSignIn(t) ==
  /\ Is(t, "connect", "signing")
  /\ token' = [token EXCEPT ![AccountOf[task[t].rel]] = [signIn |-> t, by |-> t]]
  /\ Takes(task[t].vault, task[t].rel)
  /\ lock' = NoTask
  /\ MoveTo(t, "landed")
  /\ UNCHANGED <<config, file, windows, revived, abandoned>>

\* Mutant: the vault goes although its configuration stayed.
SignInFailsRollsBack(t) ==
  /\ Is(t, "connect", "signing")
  /\ \/ config' = [config EXCEPT ![task[t].vault] = NoRel]
     \/ UNCHANGED config
  /\ RollBack(t)
  /\ lock' = NoTask
  /\ UNCHANGED <<token, windows, history>>

\* No token: the configuration is taken back and the staged vault goes; if the
\* configuration will not go, the vault stays (keep_vault).
SignInFails(t) ==
  /\ Is(t, "connect", "signing")
  /\ \/ config' = [config EXCEPT ![task[t].vault] = NoRel] /\ RollBack(t)
     \/ UNCHANGED <<config, file>> /\ End(t)
  /\ lock' = NoTask
  /\ UNCHANGED <<token, windows, history>>

\* The callback: the binding is pending until the unlock, unless the flow was
\* left or the vault is open already.
ConnectDone(t) ==
  LET p == task[t].app  v == task[t].vault IN
  /\ Is(t, "connect", "landed")
  /\ bound' = IF task[t].wanted
              THEN [bound EXCEPT ![p] =
                      [w \in Vault |-> IF w \in open[p] THEN @[w]
                                       ELSE IF w = v THEN task[t].rel ELSE NoRel]]
              ELSE bound
  /\ End(t)
  /\ UNCHANGED <<stores, open, engaged, history>>

----------------------------------------------------------------------------
(* publish_icloud_binding and persist_reconnect_rebind                      *)

PublishCheck(t) ==
  /\ Is(t, "publish", "checking")
  /\ Free
  /\ IF config[task[t].vault] = NoRel THEN MoveTo(t, "saving") /\ UNCHANGED engaged
     ELSE EndShown(t)
  /\ UNCHANGED <<stores, open, bound, history>>

StoreReconnect(t) ==
  /\ Is(t, "reconnect", "storing")
  /\ Free
  /\ token' = [token EXCEPT ![AccountOf[task[t].rel]] = [signIn |-> t, by |-> t]]
  /\ MoveTo(t, "saving")
  /\ UNCHANGED <<config, file, lock, windows, history>>

SaveConfig(t) ==
  LET v == task[t].vault  r == task[t].rel IN
  /\ Is(t, "publish", "saving") \/ Is(t, "reconnect", "saving")
  /\ Free
  /\ config' = [config EXCEPT ![v] = r]
  /\ Takes(v, r)
  /\ MoveTo(t, "landed")
  /\ UNCHANGED <<token, file, lock, windows, revived, abandoned>>

\* Half-way, a token may be stored that no configuration needs: a clean-up has
\* not deleted it yet, or a reconnect stored it before the configuration.
HalfWay(t) == task[t].kind = "disconnect" \/ Is(t, "reconnect", "saving")

\* Creating the remote file, the keychain or the lock fails.  The token a
\* reconnect has stored stays.
PublicationFails(t) ==
  /\ Inside(t)
  /\ task[t].kind \in {"publish", "reconnect"} \/ task[t].at \in {"checking", "staging"}
  /\ task[t].kind # "disconnect"
  /\ EndShown(t)
  /\ abandoned' = IF HalfWay(t) THEN abandoned \cup {Account_(task[t].rel)} ELSE abandoned
  /\ UNCHANGED <<stores, open, bound, live, revived>>

\* The callback installs the binding while the flow and the session are those
\* it was started in.
PublishDone(t) ==
  /\ Is(t, "publish", "landed") \/ Is(t, "reconnect", "landed")
  /\ IF task[t].wanted /\ task[t].current
     THEN Installs(t) /\ IF task[t].kind = "publish" THEN End(t) ELSE EndOrPush(t)
     ELSE UNCHANGED <<engaged, bound>> /\ End(t)
  /\ UNCHANGED <<stores, open, history>>

----------------------------------------------------------------------------
(* disconnect                                                               *)

DeleteConfig(t) ==
  /\ Is(t, "disconnect", "deleting")
  /\ Free
  /\ config' = [config EXCEPT ![task[t].vault] = NoRel]
  /\ MoveTo(t, "scanning")
  /\ UNCHANGED <<token, file, lock, windows, history>>

\* Mutant: any configuration counts as a reason to keep the token.
NoBinding(t) == SharePoint(task[t].rel) /\ \A v \in Vault : config[v] = NoRel

\* Mutant: the token goes with its first configuration.
FirstBinding(t) == SharePoint(task[t].rel)

LastBinding(t) == SharePoint(task[t].rel) /\ BoundTo(AccountOf[task[t].rel]) = {}

\* has_account_binding reads the configurations without the lock.
ScanBindings(t) ==
  /\ Is(t, "disconnect", "scanning")
  /\ IF LastBinding(t) THEN MoveTo(t, "signingOut") ELSE End(t)
  /\ UNCHANGED <<stores, windows, history>>

DeleteToken(t) ==
  /\ Is(t, "disconnect", "signingOut")
  /\ Free
  /\ token' = [token EXCEPT ![AccountOf[task[t].rel]] = NoToken]
  /\ End(t)
  /\ UNCHANGED <<config, file, lock, windows, history>>

\* A busy lock starts the clean-up over; any other error ends it with a notice.
DisconnectFails(t) ==
  /\ task[t].kind = "disconnect"
  /\ Inside(t)
  /\ \/ MoveTo(t, "deleting") /\ UNCHANGED abandoned
     \/ End(t) /\ abandoned' = abandoned \cup {Account_(task[t].rel)}
  /\ UNCHANGED <<stores, windows, live, revived>>

----------------------------------------------------------------------------
(* Restoring a binding, refreshing a token, syncing, the command line       *)

\* A restore that finds no configuration says Disconnected.
Disengage(t) ==
  engaged' = IF task[t].kind = "restore" /\ task[t].current
             THEN [engaged EXCEPT ![task[t].app] = @ \ {task[t].vault}] ELSE engaged

\* The binding is read from disk; a SharePoint binding needs an access token.
LoadConfig(t) ==
  LET r == config[task[t].vault] IN
  /\ task[t].at = "loading"
  /\ Free
  /\ IF r = NoRel THEN End(t) /\ Disengage(t)
     ELSE UNCHANGED engaged /\ task' = [task EXCEPT ![t].rel = r,
                               ![t].at = IF SharePoint(r) THEN "refreshing" ELSE "refreshed"]
  /\ UNCHANGED <<stores, open, bound, history>>

LoadToken(t) ==
  LET tok == token[AccountOf[task[t].rel]] IN
  /\ task[t].at = "refreshing"
  /\ Free
  /\ IF tok = NoToken THEN End(t)
     ELSE task' = [task EXCEPT ![t].got = tok, ![t].at = "exchanging"]
  /\ UNCHANGED <<stores, windows, history>>

\* Mutant: a rotated token is stored without looking what is stored now.
Overwritten(t, tok) == [task[t].got EXCEPT !.by = t]

\* tokens::replace writes a rotated token over the one it came from only.
Replaced(t, tok) == IF tok = task[t].got THEN [task[t].got EXCEPT !.by = t] ELSE tok

\* The server answers with the same refresh token or with a rotated one.
Exchange(t) ==
  /\ task[t].at = "exchanging"
  /\ \/ UNCHANGED token
     \/ Free /\ token' = [token EXCEPT ![AccountOf[task[t].rel]] = Replaced(t, @)]
  /\ task' = [task EXCEPT ![t].at = "refreshed", ![t].got = NoToken]
  /\ UNCHANGED <<config, file, lock, windows, history>>

\* A refused grant, the network, the lock, the end of the command: the task
\* ends without a change.
ReaderFails(t) ==
  /\ task[t].at \in {"loading", "refreshing", "exchanging", "refreshed", "comparing"}
  /\ End(t)
  /\ UNCHANGED <<stores, windows, history>>

\* A configuration is written without a look at what is there.
WriteBack(t, r) ==
  LET v == task[t].vault IN
  /\ Free
  /\ config' = [config EXCEPT ![v] = r]
  /\ revived' = IF config[v] = r THEN revived ELSE revived \cup {v}

\* A restore writes the configuration it read (an iCloud bookmark may be
\* fresher); an error is ignored.
RestoreSaves(t) ==
  /\ Is(t, "restore", "refreshed")
  /\ WriteBack(t, task[t].rel) \/ UNCHANGED <<config, revived>>
  /\ MoveTo(t, "restored")
  /\ UNCHANGED <<token, file, lock, windows, live, abandoned>>

\* Mutant: the session is not compared.
SessionAssumed(t) == TRUE

\* sync_session_is_current: the vault session and the binding generation.
SessionCurrent(t) == task[t].current

RestoreDone(t) ==
  /\ Is(t, "restore", "restored")
  /\ IF SessionCurrent(t) THEN Installs(t) /\ EndOrPush(t)
     ELSE UNCHANGED <<engaged, bound>> /\ End(t)
  /\ UNCHANGED <<stores, open, history>>

SyncUploads(t) ==
  /\ Is(t, "sync", "refreshed")
  /\ MoveTo(t, "uploaded")
  /\ UNCHANGED <<stores, windows, history>>

\* The callback records what was uploaded in the binding and on disk.
SyncDone(t) ==
  LET r == bound[task[t].app][task[t].vault] IN
  /\ Is(t, "sync", "uploaded")
  /\ IF SessionCurrent(t) /\ r # NoRel
     THEN EndOrPush(t) /\ (WriteBack(t, r) \/ UNCHANGED <<config, revived>>)
     ELSE End(t) /\ UNCHANGED <<config, revived>>
  /\ UNCHANGED <<token, file, lock, windows, live, abandoned>>

\* binding_is_still: the relationship is the one the command started from.
BindingIsStill(t) == config[task[t].vault] = task[t].rel

\* Mutant: the answer from before the upload is good enough.
BindingWasChecked(t) == TRUE

StillBound(t) == BindingIsStill(t)

CliCompares(t) ==
  /\ Is(t, "cli", "refreshed")
  /\ Free
  /\ IF BindingIsStill(t) THEN MoveTo(t, "comparing") ELSE End(t)
  /\ UNCHANGED <<stores, windows, history>>

\* After the upload the check is repeated and the configuration saved in one
\* hold.
CliSaves(t) ==
  /\ Is(t, "cli", "comparing")
  /\ Free
  /\ IF StillBound(t) THEN config' = [config EXCEPT ![task[t].vault] = task[t].rel]
     ELSE UNCHANGED config
  /\ End(t)
  /\ UNCHANGED <<token, file, lock, windows, history>>

----------------------------------------------------------------------------
(* The application ends at any time                                         *)

Crash(p) ==
  LET ts == {t \in Task : task[t].app = p} IN
  /\ open[p] # {} \/ ts # {}
  /\ task' = [t \in Task |-> IF t \in ts THEN Ended ELSE task[t]]
  /\ lock' = IF lock \in ts THEN NoTask ELSE lock
  /\ Emptied(p)
  /\ abandoned' = abandoned \cup {Account_(task[t].rel) : t \in {u \in ts : HalfWay(u)}}
  /\ UNCHANGED <<config, token, file, live, revived>>

----------------------------------------------------------------------------
User ==
  \/ \E p \in App : Lock(p) \/ Cancel(p) \/ DropPending(p) \/ Crash(p)
  \/ \E p \in App, v \in Vault : Open(p, v)
  \/ \E p \in App, v \in Vault, t \in Task :
       \/ OpenSynced(p, v, t) \/ RetryRestore(p, v, t) \/ Disconnect(p, v, t)
       \/ StartReconnect(p, v, t) \/ StartSync(p, v, t)
       \/ \E r \in Remote : StartConnect(p, v, r, t) \/ StartPublish(p, v, r, t)
  \/ \E v \in Vault, t \in Task : StartCli(v, t)

Publication(t) ==
  \/ EnterGate(t) \/ PrepareFails(t) \/ ConnectCheck(t) \/ StageVault(t)
  \/ SaveBinding(t) \/ BindingFails(t) \/ StoreSignIn(t) \/ SignInFails(t)
  \/ ConnectDone(t) \/ PublishCheck(t) \/ StoreReconnect(t) \/ SaveConfig(t)
  \/ PublicationFails(t) \/ PublishDone(t)

CleanUp(t) ==
  DeleteConfig(t) \/ ScanBindings(t) \/ DeleteToken(t) \/ DisconnectFails(t)

Reader(t) ==
  \/ LoadConfig(t) \/ LoadToken(t) \/ Exchange(t) \/ ReaderFails(t)
  \/ RestoreSaves(t) \/ RestoreDone(t) \/ SyncUploads(t) \/ SyncDone(t)
  \/ CliCompares(t) \/ CliSaves(t)

Next == User \/ \E t \in Task : Publication(t) \/ CleanUp(t) \/ Reader(t)

Spec == Init /\ [][Next]_vars

----------------------------------------------------------------------------
Place == {"unused", "ended", "ready", "checking", "staging", "binding", "signing",
          "storing", "saving", "landed", "deleting", "scanning", "signingOut", "loading",
          "refreshing", "exchanging", "refreshed", "restored", "uploaded", "comparing"}

TaskRecord ==
  [kind : Kind \cup {"none"}, app : App \cup {NoApp}, vault : Vault \cup {NoVault},
   rel : Remote \cup {NoRel}, got : Token \cup {NoToken}, at : Place,
   wanted : BOOLEAN, current : BOOLEAN]

TypeOK ==
  /\ config \in [Vault -> Remote \cup {NoRel}]
  /\ token \in [Account -> Token \cup {NoToken}]
  /\ file \subseteq Vault
  /\ lock \in Task \cup {NoTask}
  /\ open \in [App -> SUBSET Vault]
  /\ engaged \in [App -> SUBSET Vault]
  /\ \A p \in App : engaged[p] \subseteq open[p]
  /\ bound \in [App -> [Vault -> Remote \cup {NoRel}]]
  /\ task \in [Task -> TaskRecord]
  /\ live \in [Vault -> Remote \cup {NoRel}]
  /\ revived \subseteq Vault
  /\ abandoned \subseteq Account \cup {NoAccount}

\* A configuration never outlives the vault it belongs to: Disconnect is reached
\* by opening the vault, so one without a vault could not be removed
\* (PublishFailure.keep_vault, the drop of a StagedVault).
BoundVaultHasFile == \A v \in Vault : config[v] # NoRel => v \in file

\* No task writes a configuration back once it is gone or replaced
\* (same_relationship: a copy must not "resurrect the relationship that ended").
EndedStaysEnded == revived = {}

\* What the user connected and did not disconnect stays connected: its
\* configuration names it and its account has a token, whatever other vaults,
\* earlier clean-ups and failed publications do (disconnect,
\* has_account_binding, commit_if_current, publish_binding).
LiveBindingsHold ==
  revived = {} =>
    \A v \in Vault : live[v] # NoRel =>
      /\ config[v] = live[v]
      /\ SharePoint(live[v]) => token[AccountOf[live[v]]] # NoToken

\* A token nobody needs does not stay behind: it has a vault bound to its
\* account, or a clean-up or the save of a reconnect is under way or has reported
\* that it failed (disconnect, persist_reconnect_rebind, tokens::replace).
SignInsHaveOwners ==
  revived = {} =>
    \A a \in Account : token[a] # NoToken =>
      \/ BoundTo(a) # {}
      \/ \E t \in Task : HalfWay(t) /\ Account_(task[t].rel) = a
      \/ a \in abandoned

\* A refresh neither brings a deleted token back nor replaces the token of a
\* newer sign-in with one of the sign-in it started from (tokens::replace).
RefreshKeepsSignIn ==
  [][\A a \in Account :
       token'[a] # token[a] =>
         \/ \E t \in Task : Gated(t) /\ task'[t] # task[t]
         \/ token[a] # NoToken /\ token'[a].signIn = token[a].signIn]_vars

\* The command line client writes a configuration only where it changes no
\* relationship, though its upload takes any time (binding_is_still).
CliKeepsRelationship ==
  [][\A t \in Task : task[t].kind = "cli" /\ task'[t] # task[t] => config' = config]_vars
=============================================================================
