---------------------------- MODULE SyncStoreKept ----------------------------
(***************************************************************************)
(* Proofs about SyncStore with one process, for any vaults, remote files,   *)
(* accounts and tasks: what is connected stays connected, and a token has   *)
(* an owner.                                                                *)
(***************************************************************************)
EXTENDS SyncStoreProofs

-----------------------------------------------------------------------------
(* A task that claims no more than it did. *)

Tame(u) ==
  /\ task'[u].wanted => task[u].wanted /\ task'[u].app = task[u].app
  /\ Gated(u)' =>
       /\ task'[u].kind = task[u].kind /\ task'[u].vault = task[u].vault
       /\ task'[u].rel = task[u].rel /\ (task'[u].current => task[u].current)
       /\ \/ task'[u].at = task[u].at
          \/ task[u].kind = "connect" /\ task[u].at = "checking" /\ task'[u].at = "staging"
  /\ Knows(u)' => Knows(u) /\ task'[u].vault = task[u].vault /\ task'[u].rel = task[u].rel
  /\ HalfWay(u) => HalfWay(u)'

Tamed(ts) == \A u \in ts : Tame(u)

LEMMA KeptTame ==
  ASSUME NEW u \in Task, Kept(u)
  PROVE  Tame(u)
  BY DEF Kept, Tame, Gated, Knows, HalfWay, Is

LEMMA OthersTame ==
  ASSUME NEW t \in Task, OthersKept(t)
  PROVE  Tamed(Task \ {t})
  BY KeptTame DEF OthersKept, Kept, Tamed

LEMMA StartedTame ==
  ASSUME NEW t \in Task, NEW kind, NEW p, NEW v, NEW r, NEW place,
         Started(t, kind, p, v, r, place)
  PROVE  Tamed(Task \ {t})
  BY KeptTame DEF Started, Tamed

LEMMA GoneTame ==
  ASSUME NEW u \in Task, task'[u] = Ended, ~HalfWay(u)
  PROVE  Tame(u)
  <1>1. task'[u].kind = "none" /\ task'[u].at = "ended" /\ ~task'[u].wanted
    BY EndedFacts
  <1> QED
    BY <1>1 DEF Tame, Gated, Knows, Is

LEMMA PushTame ==
  ASSUME NEW u \in Task, Pushing(u), ~HalfWay(u)
  PROVE  Tame(u)
  BY DEF Pushing, Tame, Gated, Knows, Is

\* The places at which a restore, a push or a command reads.
LEMMA ReaderTame ==
  ASSUME NEW u \in Task, SameTask(u), task[u].kind \in {"restore", "sync", "cli"}
  PROVE  Tame(u)
  BY DEF SameTask, Tame, Gated, Knows, HalfWay, Is

\* What a tame task cannot come to be.
LEMMA TameClaims ==
  ASSUME NEW u \in Task, Tame(u), TaskFine(u)'
  PROVE  /\ Inside(u)' => Inside(u)
         /\ task'[u].kind = "disconnect" =>
              task[u].kind = "disconnect" /\ task'[u].vault = task[u].vault
         /\ Alive(u)' =>
              Alive(u) /\ task'[u].vault = task[u].vault /\ task'[u].rel = task[u].rel
         /\ Staged(u)' =>
              Staged(u) /\ task'[u].at = task[u].at /\ task'[u].vault = task[u].vault
         /\ HalfWay(u) => HalfWay(u)' /\ task'[u].rel = task[u].rel
  <1>1. Staged(u)' => task'[u].kind = "connect"
    BY DEF TaskFine, PlacesOf, Staged
  <1>2. Inside(u)' => Inside(u)
    BY DEF Tame, Inside, Gated
  <1>3. task'[u].kind = "disconnect" =>
          task[u].kind = "disconnect" /\ task'[u].vault = task[u].vault
    BY DEF Tame, Gated
  <1>4. Alive(u)' => Alive(u) /\ task'[u].vault = task[u].vault /\ task'[u].rel = task[u].rel
    BY DEF Tame, Alive, Gated
  <1>5. HalfWay(u) => HalfWay(u)' /\ task'[u].rel = task[u].rel
    BY DEF Tame, HalfWay, Is, Gated
  <1> QED
    BY <1>1, <1>2, <1>3, <1>4, <1>5 DEF Tame, Staged, Gated

-----------------------------------------------------------------------------
(* The gate. *)

\* Nobody else is inside the gate.
Alone(t) == \A u \in Task \ {t} : ~Inside(u)

LEMMA InsideAlone ==
  ASSUME GateInv, NEW t \in Task, Inside(t)
  PROVE  Alone(t)
  BY DEF GateInv, MutexInv, Alone

LEMMA GateFrame ==
  ASSUME GateInv, TaskInv', NEW t \in Task, Tamed(Task \ {t}),
         Inside(t)' => Inside(t) \/ Alone(t),
         task'[t].wanted => /\ task'[t].app \in App
                            /\ task[t].wanted \/ \A u \in Task \ {t} : ~task'[u].wanted,
         RemoteFine(t)'
  PROVE  GateInv'
  <1>1. \A u \in Task \ {t} : TaskFine(u)' /\ Tame(u)
    BY DEF TaskInv, Tamed
  <1>2. \A u \in Task \ {t} : Inside(u)' => Inside(u)
    BY <1>1, TameClaims
  <1>3. MutexInv'
    BY <1>2 DEF GateInv, MutexInv, Alone
  <1>4. WantedInv'
    BY <1>1 DEF GateInv, WantedInv, Tame
  <1>5. ASSUME NEW u \in Task \ {t}
        PROVE  RemoteFine(u)'
    <2>1. TaskFine(u)' /\ Tame(u) /\ RemoteFine(u)
      BY <1>1 DEF GateInv
    <2>2. task'[u].at \in {"signing", "signingOut"} => Gated(u)'
      BY <2>1 DEF TaskFine, PlacesOf, Gated
    <2> QED
      BY <2>1, <2>2 DEF RemoteFine, Tame, Gated
  <1> QED
    BY <1>3, <1>4, <1>5 DEF GateInv

LEMMA TameGate ==
  ASSUME GateInv, TaskInv', Tamed(Task)
  PROVE  GateInv'
  <1>1. CASE Task = {}
    BY <1>1 DEF GateInv, MutexInv, WantedInv
  <1>2. ASSUME NEW t \in Task
        PROVE  GateInv'
    <2>1. TaskFine(t)' /\ Tame(t) /\ RemoteFine(t) /\ Tamed(Task \ {t})
      BY DEF TaskInv, Tamed, GateInv
    <2>2. Inside(t)' => Inside(t)
      BY <2>1, TameClaims
    <2>3. task'[t].wanted => task'[t].app \in App /\ task[t].wanted
      BY <2>1 DEF Tame, GateInv, WantedInv
    <2>4. task'[t].at \in {"signing", "signingOut"} => Gated(t)'
      BY <2>1 DEF TaskFine, PlacesOf, Gated
    <2>5. RemoteFine(t)'
      BY <2>1, <2>4 DEF RemoteFine, Tame, Gated
    <2> QED
      BY <2>1, <2>2, <2>3, <2>5, GateFrame
  <1> QED
    BY <1>1, <1>2

-----------------------------------------------------------------------------
(* Live bindings. *)

\* What a task inside the gate relies on is there.
LEMMA LiveTame ==
  ASSUME NEW u \in Task, LiveFine(u), Tame(u), TaskFine(u)',
         UNCHANGED <<config, token, live, revived>>
  PROVE  LiveFine(u)'
  <1>1. task'[u].at \in {"signing", "signingOut"} \/ Is(u, "reconnect", "saving")' => Gated(u)'
    BY DEF TaskFine, PlacesOf, Gated, Is
  <1>2. task'[u].kind = "disconnect" => live'[task'[u].vault] = NoRel
    BY DEF LiveFine, Tame, Gated
  <1>3. Is(u, "reconnect", "saving")' => token'[AccountOf[task'[u].rel]] # NoToken
    BY <1>1 DEF LiveFine, Tame, Is
  <1>4. revived' = {} /\ task'[u].at = "signing" =>
          config'[task'[u].vault] = task'[u].rel /\ live'[task'[u].vault] = NoRel
    BY <1>1 DEF LiveFine, Tame
  <1>5. revived' = {} /\ task'[u].at = "signingOut" => BoundTo(AccountOf[task[u].rel])' = {}
    BY <1>1 DEF LiveFine, Tame, BoundTo
  <1> QED
    BY <1>2, <1>3, <1>4, <1>5 DEF LiveFine

LEMMA LiveFrame ==
  ASSUME LiveInv, TaskInv', NEW t \in Task, Tamed(Task \ {t}), LiveFine(t)',
         UNCHANGED <<config, token, live, revived>>
  PROVE  LiveInv'
  <1>1. \A u \in Task \ {t} : LiveFine(u)'
    BY LiveTame DEF LiveInv, TaskInv, Tamed
  <1>2. LiveBindingsHold'
    BY DEF LiveInv, LiveBindingsHold
  <1> QED
    BY <1>1, <1>2 DEF LiveInv

\* The token that a sign-in or a clean-up changes is none a live binding misses.
LEMMA LiveTokens ==
  ASSUME TypeOK, LiveBindingsHold, UNCHANGED <<config, live, revived>>,
         \A w \in Vault :
           revived = {} /\ live[w] # NoRel /\ SharePoint(live[w])
                /\ token[AccountOf[live[w]]] # NoToken =>
             token'[AccountOf[live[w]]] # NoToken
  PROVE  LiveBindingsHold'
  <1>1. ASSUME revived = {}, NEW w \in Vault, live[w] # NoRel
        PROVE  config[w] = live[w] /\ (SharePoint(live[w]) => token'[AccountOf[live[w]]] # NoToken)
    BY <1>1 DEF LiveBindingsHold
  <1> QED
    BY <1>1 DEF LiveBindingsHold, SharePoint, Account_

LEMMA TameLive ==
  ASSUME TypeOK, GateInv', LiveInv, TaskInv', TypeOK', Tamed(Task), UNCHANGED <<config, live, revived>>,
         \A a \in Account : token'[a] # NoToken <=> token[a] # NoToken
  PROVE  LiveInv'
  <1>1. \A r \in Remote \cup {NoRel} : SharePoint(r) => AccountOf[r] \in Account
    BY StoreAssumption DEF SharePoint, Account_
  <1>2. ASSUME NEW u \in Task
        PROVE  LiveFine(u)'
    <2>1. LiveFine(u) /\ Tame(u) /\ TaskFine(u)' /\ RemoteFine(u)'
      BY DEF LiveInv, TaskInv, Tamed, GateInv
    <2>2. task'[u].at \in {"signing", "signingOut"} \/ Is(u, "reconnect", "saving")' => Gated(u)'
      BY <2>1 DEF TaskFine, PlacesOf, Gated, Is
    <2>3. task'[u].kind = "disconnect" => live'[task'[u].vault] = NoRel
      BY <2>1 DEF LiveFine, Tame, Gated
    <2>4. Is(u, "reconnect", "saving")' => token'[AccountOf[task'[u].rel]] # NoToken
      <3>1. task'[u].kind = "reconnect" => AccountOf[task'[u].rel] \in Account
        BY <1>1, <2>1 DEF RemoteFine, TypeOK, TaskRecord, SharePoint, Account_
      <3> QED
        BY <2>1, <2>2, <3>1 DEF LiveFine, Tame, Is
    <2>5. revived' = {} /\ task'[u].at = "signing" =>
            config'[task'[u].vault] = task'[u].rel /\ live'[task'[u].vault] = NoRel
      BY <2>1, <2>2 DEF LiveFine, Tame
    <2>6. revived' = {} /\ task'[u].at = "signingOut" => BoundTo(AccountOf[task[u].rel])' = {}
      BY <2>1, <2>2 DEF LiveFine, Tame, BoundTo
    <2> QED
      BY <2>3, <2>4, <2>5, <2>6 DEF LiveFine
  <1>3. LiveBindingsHold'
    <2>1. \A w \in Vault : SharePoint(live[w]) => AccountOf[live[w]] \in Account
      BY <1>1 DEF TypeOK
    <2> QED
      BY <2>1, LiveTokens DEF LiveInv
  <1> QED
    BY <1>2, <1>3 DEF LiveInv

\* Decisions on vaults which others disconnect stand.
DecisionsStand(t) ==
  \A v \in Vault :
    \/ live'[v] = live[v] \/ live'[v] = NoRel
    \/ \A u \in Task \ {t} : task[u].kind = "disconnect" => task[u].vault # v

\* The step of a task that is alone in the gate.
LEMMA LiveAlone ==
  ASSUME StoreInv, LiveInv, TaskInv', NEW t \in Task, Tamed(Task \ {t}), Alone(t),
         LiveFine(t)', LiveBindingsHold', DecisionsStand(t)
  PROVE  LiveInv'
  <1>1. ASSUME NEW u \in Task \ {t}
        PROVE  LiveFine(u)'
    <2>1. LiveFine(u) /\ TaskFine(u)' /\ Tame(u) /\ TaskFine(u) /\ ~Inside(u)
      BY DEF LiveInv, TaskInv, Tamed, Alone, StoreInv
    <2>2. ~Inside(u)'
      BY <2>1, TameClaims
    <2>3. ~Is(u, "reconnect", "saving")' /\ task'[u].at \notin {"signing", "signingOut"}
      BY <2>1, <2>2 DEF TaskFine, PlacesOf, Inside, Gated, Is
    <2>4. task'[u].kind = "disconnect" => live'[task'[u].vault] = NoRel
      <3>1. SUFFICES ASSUME task'[u].kind = "disconnect"
                     PROVE  live'[task'[u].vault] = NoRel
        OBVIOUS
      <3>2. task[u].kind = "disconnect" /\ task'[u].vault = task[u].vault
        BY <2>1, <3>1, TameClaims
      <3>3. task[u].vault \in Vault /\ live[task[u].vault] = NoRel
        BY <2>1, <3>2 DEF TaskFine, LiveFine
      <3> QED
        BY <3>2, <3>3 DEF DecisionsStand
    <2> QED
      BY <2>3, <2>4 DEF LiveFine
  <1> QED
    BY <1>1 DEF LiveInv

-----------------------------------------------------------------------------
(* Who knows of a relationship. *)

\* No task stages a vault.
StagedLess == \A u \in Task : Staged(u)' => Staged(u) /\ task'[u].vault = task[u].vault

LEMMA KnownFrame ==
  ASSUME KnownInv, NEW t \in Task, Tamed(Task \ {t}), UNCHANGED file,
         StagedLess,
         Knows(t)' => Unstaged(task'[t].vault),
         \A p \in App, v \in Vault : bound'[p][v] # NoRel => Unstaged(v)
  PROVE  KnownInv'
  <1>1. \A v \in Vault : Unstaged(v) => Unstaged(v)'
    BY DEF Unstaged, StagedLess
  <1>2. \A u \in Task : Knows(u)' => Unstaged(task'[u].vault)
    BY DEF KnownInv, Tamed, Tame
  <1>3. \A u \in Task : Knows(u)' => Unstaged(task[u].vault)'
    BY <1>2 DEF Unstaged, StagedLess
  <1> QED
    BY <1>1, <1>3 DEF KnownInv

LEMMA TameKnown ==
  ASSUME KnownInv, TaskInv', Tamed(Task), UNCHANGED file,
         \A p \in App, v \in Vault : bound'[p][v] # NoRel => Unstaged(v)
  PROVE  KnownInv'
  <1>1. \A u \in Task : Staged(u)' => Staged(u) /\ task'[u].vault = task[u].vault
    BY TameClaims DEF TaskInv, Tamed
  <1>2. \A v \in Vault : Unstaged(v) => Unstaged(v)'
    BY <1>1 DEF Unstaged
  <1>3. \A u \in Task : Knows(u)' => Unstaged(task'[u].vault)
    BY DEF KnownInv, Tamed, Tame
  <1>4. \A u \in Task : Knows(u)' => Unstaged(task[u].vault)'
    BY <1>1, <1>3 DEF Unstaged
  <1> QED
    BY <1>2, <1>4 DEF KnownInv

-----------------------------------------------------------------------------
(* No two SharePoint files for one vault. *)

KnownRel(v, r) ==
  \/ r = config[v]
  \/ \E p \in App : bound[p][v] = r
  \/ \E u \in Task : Knows(u) /\ task[u].vault = v /\ task[u].rel = r

\* Nothing new is learnt about a vault.
Informed(v) ==
  /\ config'[v] = NoRel \/ KnownRel(v, config'[v])
  /\ \A p \in App : bound'[p][v] = NoRel \/ KnownRel(v, bound'[p][v])
  /\ \A u \in Task : Knows(u)' /\ task'[u].vault = v => KnownRel(v, task'[u].rel)

LEMMA InformedAgree ==
  ASSUME NEW v \in Vault, NEW r \in Remote, AgreeOn(v, r), Informed(v)
  PROVE  AgreeOn(v, r)'
  <1>1. \A k : KnownRel(v, k) => k \in {NoRel, r}
    BY DEF KnownRel, AgreeOn
  <1>2. config'[v] \in {NoRel, r}
    BY <1>1 DEF Informed
  <1>3. \A p \in App : bound'[p][v] \in {NoRel, r}
    BY <1>1 DEF Informed
  <1>4. \A u \in Task : Knows(u)' /\ task'[u].vault = v => task'[u].rel = r
    <2>1. \A u \in Task : Knows(u)' => task'[u].rel # NoRel
      BY DEF Knows
    <2> QED
      BY <1>1, <2>1 DEF Informed
  <1> QED
    BY <1>2, <1>3, <1>4 DEF AgreeOn

LEMMA AgreeFrame ==
  ASSUME NEW v \in Vault, AgreeAt(v), TaskInv', NEW t \in Task, Tamed(Task \ {t}),
         SharePoint(config'[v]) =>
           config'[v] = config[v] \/ (Relates(v, config'[v]) /\ KnownRel(v, config'[v])),
         AliveAt(v)' => config'[v] = NoRel \/ KnownRel(v, config'[v]),
         Alive(t)' /\ task'[t].vault = v => Relates(v, task'[t].rel),
         \A p \in App : bound'[p][v] = NoRel \/ KnownRel(v, bound'[p][v]),
         Knows(t)' /\ task'[t].vault = v => KnownRel(v, task'[t].rel)
  PROVE  AgreeAt(v)'
  <1> SUFFICES ASSUME NEW r \in Remote, Relates(v, r)'
               PROVE  AgreeOn(v, r)'
    BY DEF AgreeAt
  <1>1. \A u \in Task \ {t} : TaskFine(u)' /\ Tame(u)
    BY DEF TaskInv, Tamed
  <1>2. \A u \in Task \ {t} : Alive(u)' =>
          Alive(u) /\ task'[u].vault = task[u].vault /\ task'[u].rel = task[u].rel
    BY <1>1, TameClaims
  <1>3. Relates(v, r)
    <2>1. CASE SharePoint(r) /\ config'[v] = r
      BY <2>1 DEF Relates
    <2>2. ASSUME NEW u \in Task, Alive(u)', task'[u].vault = v, task'[u].rel = r
          PROVE  Relates(v, r)
      BY <1>2, <2>2 DEF Relates
    <2> QED
      BY <2>1, <2>2 DEF Relates
  <1>4. config'[v] = NoRel \/ KnownRel(v, config'[v])
    <2>1. CASE SharePoint(config'[v])
      BY <2>1 DEF KnownRel
    <2>2. CASE ~SharePoint(config'[v])
      BY <2>2 DEF Relates, AliveAt
    <2> QED
      BY <2>1, <2>2
  <1>5. \A u \in Task \ {t} : Knows(u)' /\ task'[u].vault = v => KnownRel(v, task'[u].rel)
    BY <1>1 DEF Tame, KnownRel
  <1>6. Informed(v)
    BY <1>4, <1>5 DEF Informed
  <1> QED
    BY <1>3, <1>6, InformedAgree DEF AgreeAt

LEMMA AgreeQuiet ==
  ASSUME NEW v \in Vault, AgreeAt(v), TaskInv', NEW t \in Task, Tamed(Task \ {t}),
         config'[v] = config[v],
         Alive(t)' /\ task'[t].vault = v => Relates(v, task'[t].rel),
         \A p \in App : bound'[p][v] = NoRel \/ KnownRel(v, bound'[p][v]),
         Knows(t)' /\ task'[t].vault = v => KnownRel(v, task'[t].rel)
  PROVE  AgreeAt(v)'
  <1>1. config'[v] = NoRel \/ KnownRel(v, config'[v])
    BY DEF KnownRel
  <1>2. SharePoint(config'[v]) =>
          config'[v] = config[v] \/ (Relates(v, config'[v]) /\ KnownRel(v, config'[v]))
    <2>1. config'[v] = config[v]
      OBVIOUS
    <2> QED
      BY <2>1, Zenon
  <1> QED
    BY <1>1, <1>2, AgreeFrame

-----------------------------------------------------------------------------
(* Publications to iCloud. *)

LEMMA PublishOther ==
  ASSUME NEW u \in Task, NEW t \in Task, u # t, PublishFine(u), Tame(u), Tamed(Task \ {t}),
         TaskInv', TaskFine(u), UNCHANGED config,
         \A v \in Vault : AliveAt(v)' => AliveAt(v) \/ config[v] # NoRel,
         task'[t].kind = "disconnect" =>
           \/ task[t].kind = "disconnect" /\ task'[t].vault = task[t].vault
           \/ task[u].kind = "publish" /\ task[u].vault = task'[t].vault => ~task'[u].current
  PROVE  PublishFine(u)'
  <1> SUFFICES ASSUME task'[u].kind = "publish"
               PROVE  PublishFine(u)'
    BY DEF PublishFine
  <1>1. /\ task[u].kind = "publish" /\ task'[u].vault = task[u].vault /\ task'[u].rel = task[u].rel
        /\ task'[u].at = task[u].at /\ (task'[u].current => task[u].current)
    BY DEF Tame, Gated
  <1>2. task[u].vault \in Vault
    BY <1>1 DEF TaskFine
  <1>3. ASSUME NEW w \in Task, task'[w].kind = "disconnect", task'[u].current
        PROVE  \/ task[w].kind = "disconnect" /\ task'[w].vault = task[w].vault
               \/ task'[w].vault # task[u].vault
    <2>1. CASE w = t
      BY <1>1, <1>3, <2>1
    <2>2. CASE w # t
      BY <1>3, <2>2, TameClaims DEF Tamed, TaskInv
    <2> QED
      BY <2>1, <2>2
  <1>4. task'[u].at = "checking" /\ AliveAt(task[u].vault)' => config'[task[u].vault] # NoRel
    BY <1>1, <1>2 DEF PublishFine
  <1> QED
    BY <1>1, <1>2, <1>3 DEF PublishFine

LEMMA PublishFrame ==
  ASSUME PublishInv, TaskInv, TaskInv', NEW t \in Task, Tamed(Task \ {t}), PublishFine(t)',
         UNCHANGED config,
         \A v \in Vault : AliveAt(v)' => AliveAt(v) \/ config[v] # NoRel,
         task'[t].kind = "disconnect" =>
           \/ task[t].kind = "disconnect" /\ task'[t].vault = task[t].vault
           \/ \A u \in Task \ {t} :
                task[u].kind = "publish" /\ task[u].vault = task'[t].vault => ~task'[u].current
  PROVE  PublishInv'
  <1>1. ASSUME NEW u \in Task \ {t}
        PROVE  PublishFine(u)'
    <2>1. PublishFine(u) /\ Tame(u) /\ TaskFine(u)
      BY DEF PublishInv, Tamed, TaskInv
    <2> QED
      BY <2>1, PublishOther
  <1> QED
    BY <1>1 DEF PublishInv

\* A task that is alone in the gate writes a configuration.
LEMMA PublishAlone ==
  ASSUME PublishInv, TaskInv, TaskInv', NEW t \in Task, Tamed(Task \ {t}), Alone(t), PublishFine(t)',
         \A u \in Task \ {t} :
           task[u].kind = "publish" /\ task[u].at = "landed" /\ task[u].current =>
             config'[task[u].vault] = config[task[u].vault],
         task'[t].kind = "disconnect" =>
           task[t].kind = "disconnect" /\ task'[t].vault = task[t].vault
  PROVE  PublishInv'
  <1>1. ASSUME NEW u \in Task \ {t}, task'[u].kind = "publish"
        PROVE  PublishFine(u)'
    <2>1. /\ task[u].kind = "publish" /\ task'[u].vault = task[u].vault /\ task'[u].rel = task[u].rel
          /\ task'[u].at = task[u].at /\ (task'[u].current => task[u].current)
      BY <1>1 DEF Tamed, Tame, Gated
    <2>2. PublishFine(u) /\ TaskFine(u) /\ ~Inside(u)
      BY DEF PublishInv, TaskInv, Alone
    <2>3. task'[u].at \in {"ready", "landed"}
      BY <2>1, <2>2 DEF TaskFine, PlacesOf, Inside, Gated
    <2>4. \A w \in Task : task'[w].kind = "disconnect" =>
            task[w].kind = "disconnect" /\ task'[w].vault = task[w].vault
      BY TameClaims DEF Tamed, TaskInv
    <2> QED
      BY <2>1, <2>2, <2>3, <2>4 DEF PublishFine
  <1>2. \A u \in Task \ {t} : PublishFine(u)'
    BY <1>1 DEF PublishFine
  <1> QED
    BY <1>2 DEF PublishInv

-----------------------------------------------------------------------------
(* Owners of tokens. *)

LEMMA OwnedFrame ==
  ASSUME TaskInv', NEW t \in Task, Tamed(Task \ {t}), UNCHANGED config, abandoned \subseteq abandoned',
         task'[t].at = "signing" => task[t].at = "signing" /\ task'[t].vault = task[t].vault,
         NEW a \in Account, Owned(a),
         HalfWay(t) /\ Account_(task[t].rel) = a =>
           (HalfWay(t)' /\ task'[t].rel = task[t].rel) \/ Owned(a)'
  PROVE  Owned(a)'
  <1>1. \A u \in Task \ {t} : TaskFine(u)' /\ Tame(u)
    BY DEF TaskInv, Tamed
  <1>2. CASE \E v \in Vault : Keeps(v, a)
    <2>1. PICK v \in Vault : Keeps(v, a)
      BY <1>2
    <2>2. \A u \in Task : task'[u].at = "signing" => task'[u].vault # v
      BY <1>1, <2>1, TameClaims DEF Keeps, Staged
    <2>3. Keeps(v, a)'
      BY <2>1, <2>2 DEF Keeps
    <2> QED
      BY <2>3 DEF Owned
  <1>3. ASSUME NEW u \in Task, HalfWay(u), Account_(task[u].rel) = a
        PROVE  Owned(a)'
    <2>1. CASE u = t
      BY <1>3, <2>1 DEF Owned
    <2>2. CASE u # t
      <3>1. HalfWay(u)' /\ task'[u].rel = task[u].rel
        BY <1>1, <1>3, <2>2, TameClaims
      <3> QED
        BY <1>3, <3>1 DEF Owned
    <2> QED
      BY <2>1, <2>2
  <1>4. CASE a \in abandoned
    BY <1>4 DEF Owned
  <1> QED
    BY <1>2, <1>3, <1>4 DEF Owned

LEMMA OwnersFrame ==
  ASSUME TokensOwned, TaskInv', NEW t \in Task, Tamed(Task \ {t}), UNCHANGED config,
         \A a \in Account : token'[a] # NoToken => token[a] # NoToken,
         abandoned \subseteq abandoned',
         task'[t].at = "signing" => task[t].at = "signing" /\ task'[t].vault = task[t].vault,
         HalfWay(t) => \/ HalfWay(t)' /\ task'[t].rel = task[t].rel
                       \/ Account_(task[t].rel) \in abandoned'
  PROVE  TokensOwned'
  <1>1. ASSUME NEW a \in Account, token'[a] # NoToken
        PROVE  Owned(a)'
    <2>1. Owned(a)
      BY <1>1 DEF TokensOwned
    <2>2. Account_(task[t].rel) \in abandoned' /\ Account_(task[t].rel) = a => Owned(a)'
      BY DEF Owned
    <2> QED
      BY <2>1, <2>2, OwnedFrame
  <1> QED
    BY <1>1 DEF TokensOwned

-----------------------------------------------------------------------------
(* Steps that only make tasks claim less. *)

\* Bindings are dropped at most.
BoundLess == \A p \in App, v \in Vault : bound'[p][v] = NoRel \/ bound'[p][v] = bound[p][v]

LEMMA TameOwner ==
  ASSUME OwnerInv, TaskInv, TaskInv', Tamed(Task), BoundLess, abandoned \subseteq abandoned',
         UNCHANGED <<config, revived>>,
         \A a \in Account : token'[a] # NoToken => token[a] # NoToken
  PROVE  OwnerInv'
  <1> SUFFICES ASSUME revived = {}
               PROVE  (\A v \in Vault : AgreeAt(v)') /\ PublishInv' /\ TokensOwned'
    BY DEF OwnerInv
  <1>0. (\A v \in Vault : AgreeAt(v)) /\ PublishInv /\ TokensOwned
    BY DEF OwnerInv
  <1>1. CASE Task = {}
    <2>1. \A v \in Vault : AgreeAt(v)'
      BY <1>0, <1>1 DEF AgreeAt, Relates, AgreeOn, BoundLess
    <2>2. PublishInv'
      BY <1>1 DEF PublishInv
    <2>3. TokensOwned'
      BY <1>0, <1>1 DEF TokensOwned, Owned, Keeps
    <2> QED
      BY <2>1, <2>2, <2>3
  <1>2. ASSUME NEW t \in Task
        PROVE  (\A v \in Vault : AgreeAt(v)') /\ PublishInv' /\ TokensOwned'
    <2>1. Tamed(Task \ {t}) /\ Tame(t) /\ TaskFine(t)' /\ TaskFine(t) /\ PublishFine(t)
      BY <1>0 DEF Tamed, TaskInv, PublishInv
    <2>2. ASSUME NEW v \in Vault
          PROVE  AgreeAt(v)'
      <3>1. AgreeAt(v)
        BY <1>0
      <3>2. Alive(t)' /\ task'[t].vault = v => Relates(v, task'[t].rel)
        BY <2>1, TameClaims DEF Relates
      <3>3. Knows(t)' /\ task'[t].vault = v => KnownRel(v, task'[t].rel)
        BY <2>1 DEF Tame, KnownRel
      <3>4. \A p \in App : bound'[p][v] = NoRel \/ KnownRel(v, bound'[p][v])
        BY DEF BoundLess, KnownRel
      <3>5. config'[v] = NoRel \/ KnownRel(v, config'[v])
        BY DEF KnownRel
      <3> QED
        BY <2>1, <3>1, <3>2, <3>3, <3>4, <3>5, AgreeQuiet
    <2>3. \A v \in Vault : AliveAt(v)' => AliveAt(v)
      BY TameClaims DEF AliveAt, Tamed, TaskInv
    <2>4. PublishFine(t)'
      <3>1. SUFFICES ASSUME task'[t].kind = "publish"
                     PROVE  PublishFine(t)'
        BY DEF PublishFine
      <3>2. /\ task[t].kind = "publish" /\ task'[t].vault = task[t].vault
            /\ task'[t].rel = task[t].rel /\ task'[t].at = task[t].at
            /\ (task'[t].current => task[t].current)
        BY <2>1, <3>1 DEF Tame, Gated
      <3>3. \A w \in Task : task'[w].kind = "disconnect" =>
              task[w].kind = "disconnect" /\ task'[w].vault = task[w].vault
        BY TameClaims DEF Tamed, TaskInv
      <3>4. task[t].vault \in Vault
        BY <2>1, <3>2 DEF TaskFine
      <3> QED
        BY <2>1, <2>3, <3>2, <3>3, <3>4 DEF PublishFine
    <2>5. task'[t].kind = "disconnect" =>
            task[t].kind = "disconnect" /\ task'[t].vault = task[t].vault
      BY <2>1, TameClaims
    <2>6. PublishInv'
      BY <1>0, <2>1, <2>3, <2>4, <2>5, PublishFrame
    <2>7. task'[t].at = "signing" => task[t].at = "signing" /\ task'[t].vault = task[t].vault
      BY <2>1, TameClaims DEF Staged
    <2>8. HalfWay(t) => HalfWay(t)' /\ task'[t].rel = task[t].rel
      BY <2>1, TameClaims
    <2>9. TokensOwned'
      BY <1>0, <2>1, <2>7, <2>8, OwnersFrame
    <2> QED
      BY <2>2, <2>6, <2>9
  <1> QED
    BY <1>1, <1>2

LEMMA TameStep ==
  ASSUME BindingInv, StoreInv', Tamed(Task), BoundLess, abandoned \subseteq abandoned',
         UNCHANGED <<config, token, file, live, revived>>
  PROVE  BindingInv'
  <1>1. /\ TaskInv /\ TaskInv' /\ GateInv /\ LiveInv /\ KnownInv /\ OwnerInv
        /\ TypeOK /\ TypeOK'
    BY DEF BindingInv, StoreInv
  <1>2. \A p \in App, v \in Vault : bound'[p][v] # NoRel => Unstaged(v)
    BY <1>1 DEF BoundLess, KnownInv
  <1>3. GateInv'
    BY <1>1, TameGate
  <1>4. LiveInv'
    BY <1>1, <1>3, TameLive
  <1>5. KnownInv'
    BY <1>1, <1>2, TameKnown
  <1>6. OwnerInv'
    BY <1>1, TameOwner
  <1> QED
    BY <1>3, <1>4, <1>5, <1>6 DEF BindingInv

\* The same, for one task that moves.
LEMMA TameTask ==
  ASSUME BindingInv, StoreInv', NEW t \in Task, Tame(t), Tamed(Task \ {t}), BoundLess,
         UNCHANGED <<config, token, file, live, revived, abandoned>>
  PROVE  BindingInv'
  <1>1. Tamed(Task)
    BY DEF Tamed
  <1> QED
    BY <1>1, TameStep

LEMMA SameBound ==
  ASSUME UNCHANGED bound
  PROVE  BoundLess
  BY DEF BoundLess

\* A task that only ends, and none that others rely on.
LEMMA EndKeepsAll ==
  ASSUME BindingInv, StoreInv', NEW t \in Task, End(t), ~HalfWay(t),
         UNCHANGED <<config, token, file, bound, live, revived, abandoned>>
  PROVE  BindingInv'
  <1>1. Gone(t)
    BY EndFacts, TypeParts DEF BindingInv, StoreInv
  <1>2. Tame(t) /\ Tamed(Task \ {t})
    BY <1>1, GoneTame, OthersTame DEF Gone
  <1> QED
    BY <1>2, SameBound, TameTask

\* Tasks that the gate does not order start without a claim.
LEMMA FreeStart ==
  ASSUME BindingInv, StoreInv', NEW t \in Task, task[t] = Unused,
         NEW kind, kind \in {"restore", "sync", "cli"}, NEW p, NEW v, NEW r, NEW place,
         kind = "restore" => r = NoRel,
         Started(t, kind, p, v, r, place), BoundLess,
         task'[t] \in TaskRecord,
         UNCHANGED <<config, token, file, live, revived, abandoned>>
  PROVE  BindingInv'
  <1>1. task'[t].kind = kind /\ task'[t].rel = r
    BY DEF Started, Begin
  <1>2. ~task'[t].wanted
    BY BeginWanted DEF Started
  <1>3. ~HalfWay(t)
    BY EndedFacts DEF HalfWay, Is
  <1>4. Tame(t)
    BY <1>1, <1>2, <1>3 DEF Tame, Gated, Knows, Is
  <1> QED
    BY <1>4, StartedTame, TameTask

LEMMA TaskParts ==
  ASSUME BindingInv, NEW t \in Task
  PROVE  /\ StoreInv /\ TaskType /\ TaskInv /\ task[t] \in TaskRecord
         /\ TaskFine(t) /\ task[t].at \in PlacesOf(task[t].kind)
  BY KindsAndPlaces DEF BindingInv, StoreInv

\* Windows open and close.
LEMMA LockBinds ==
  ASSUME BindingInv, StoreInv', NEW p \in App, Lock(p)
  PROVE  BindingInv'
  <1>1. TaskType /\ TypeOK
    BY TypeParts DEF BindingInv, StoreInv
  <1>2. \A u \in Task : Kept(u)
    BY <1>1, AbandonFacts DEF Lock
  <1>3. Tamed(Task)
    BY <1>2, KeptTame DEF Tamed
  <1>4. BoundLess
    BY <1>1 DEF Lock, Emptied, BoundLess, TypeOK
  <1> QED
    BY <1>3, <1>4, TameStep DEF Lock, stores, history

LEMMA CancelBinds ==
  ASSUME BindingInv, StoreInv', NEW p \in App, Cancel(p)
  PROVE  BindingInv'
  <1>1. TaskType
    BY TypeParts DEF BindingInv, StoreInv
  <1>2. \A u \in Task : Kept(u)
    BY <1>1, AbandonFacts DEF Cancel
  <1>3. Tamed(Task)
    BY <1>2, KeptTame DEF Tamed
  <1>4. BoundLess
    BY SameBound DEF Cancel
  <1> QED
    BY <1>3, <1>4, TameStep DEF Cancel, stores, history

LEMMA DropPendingBinds ==
  ASSUME BindingInv, StoreInv', NEW p \in App, DropPending(p)
  PROVE  BindingInv'
  <1>1. TypeOK
    BY DEF BindingInv, StoreInv
  <1>2. Tamed(Task)
    BY KeptTame DEF Tamed, DropPending, Kept
  <1>3. BoundLess
    BY <1>1 DEF DropPending, BoundLess, TypeOK
  <1> QED
    BY <1>2, <1>3, TameStep DEF DropPending, stores, history

LEMMA UnlockLess ==
  ASSUME TypeOK, NEW p \in App, NEW v \in Vault, Unlock(p, v)
  PROVE  BoundLess
  BY DEF Unlock, Bindings, BoundLess, TypeOK

LEMMA OpenBinds ==
  ASSUME BindingInv, StoreInv', NEW p \in App, NEW v \in Vault, Open(p, v)
  PROVE  BindingInv'
  <1>1. TypeOK
    BY DEF BindingInv, StoreInv
  <1>2. Tamed(Task)
    BY KeptTame DEF Tamed, Open, Kept
  <1>3. BoundLess
    BY <1>1, UnlockLess DEF Open
  <1> QED
    BY <1>2, <1>3, TameStep DEF Open, stores, history

LEMMA OpenSyncedBinds ==
  ASSUME BindingInv, StoreInv', NEW p \in App, NEW v \in Vault, NEW t \in Task, OpenSynced(p, v, t)
  PROVE  BindingInv'
  <1>1. TaskType /\ TypeOK
    BY TypeParts DEF BindingInv, StoreInv
  <1>2. Started(t, "restore", p, v, NoRel, "loading")
    BY <1>1, StartFacts DEF OpenSynced, Kind, Place
  <1>3. BoundLess
    BY <1>1, UnlockLess DEF OpenSynced
  <1>4. task'[t] \in TaskRecord
    BY <1>2 DEF Started, TaskType
  <1> QED
    BY <1>2, <1>3, <1>4, FreeStart DEF OpenSynced, CanStart, stores, history

LEMMA RetryRestoreBinds ==
  ASSUME BindingInv, StoreInv', NEW p \in App, NEW v \in Vault, NEW t \in Task, RetryRestore(p, v, t)
  PROVE  BindingInv'
  <1>1. TaskType
    BY TypeParts DEF BindingInv, StoreInv
  <1>2. Started(t, "restore", p, v, NoRel, "loading")
    BY <1>1, StartFacts DEF RetryRestore, Kind, Place
  <1>3. BoundLess
    BY SameBound DEF RetryRestore, windows
  <1>4. task'[t] \in TaskRecord
    BY <1>2 DEF Started, TaskType
  <1> QED
    BY <1>2, <1>3, <1>4, FreeStart DEF RetryRestore, CanStart, stores, history

LEMMA StartSyncBinds ==
  ASSUME BindingInv, StoreInv', NEW p \in App, NEW v \in Vault, NEW t \in Task, StartSync(p, v, t)
  PROVE  BindingInv'
  <1>1. TaskType /\ bound[p][v] \in Remote \cup {NoRel}
    BY TypeParts DEF BindingInv, StoreInv, TypeOK
  <1>2. PICK place \in {"uploaded", "refreshing"} :
          task' = [task EXCEPT ![t] = Begin(t, "sync", p, v, bound[p][v], place)]
    BY DEF StartSync
  <1>3. PICK r \in Remote \cup {NoRel} : r = bound[p][v]
    BY <1>1
  <1>4. Started(t, "sync", p, v, r, place)
    BY <1>1, <1>2, <1>3, StartFacts DEF Kind, Place
  <1>5. BoundLess
    BY SameBound DEF StartSync, windows
  <1>6. task'[t] \in TaskRecord
    BY <1>4 DEF Started, TaskType
  <1> QED
    BY <1>4, <1>5, <1>6, FreeStart DEF StartSync, CanStart, stores, history

LEMMA StartCliBinds ==
  ASSUME BindingInv, StoreInv', NEW v \in Vault, NEW t \in Task, StartCli(v, t)
  PROVE  BindingInv'
  <1>1. TaskType
    BY TypeParts DEF BindingInv, StoreInv
  <1>2. Started(t, "cli", NoApp, v, NoRel, "loading")
    BY <1>1, StartFacts DEF StartCli, Kind, Place
  <1>3. BoundLess
    BY SameBound DEF StartCli, windows
  <1>4. task'[t] \in TaskRecord
    BY <1>2 DEF Started, TaskType
  <1> QED
    BY <1>2, <1>3, <1>4, FreeStart DEF StartCli, CanStart, stores, history

-----------------------------------------------------------------------------
(* Readers that write nothing. *)

LEMMA MovedTame ==
  ASSUME NEW t \in Task, NEW place, Moved(t, place), task[t].kind \in {"restore", "sync", "cli"}
  PROVE  Tame(t) /\ Tamed(Task \ {t})
  BY ReaderTame, OthersTame DEF Moved

LEMMA FetchedTame ==
  ASSUME NEW t \in Task, NEW tok, NEW place, Fetched(t, tok, place),
         task[t].kind \in {"restore", "sync", "cli"}
  PROVE  Tame(t) /\ Tamed(Task \ {t})
  BY ReaderTame, OthersTame DEF Fetched

\* Where a task reads, it is no publication and no clean-up.
LEMMA ReaderKinds ==
  ASSUME BindingInv, NEW t \in Task,
         task[t].at \in {"loading", "refreshing", "exchanging", "refreshed", "comparing", "restored",
                         "uploaded"}
  PROVE  task[t].kind \in {"restore", "sync", "cli"} /\ ~HalfWay(t)
  <1>1. task[t].at \in PlacesOf(task[t].kind)
    BY TaskParts
  <1> QED
    BY <1>1 DEF PlacesOf, HalfWay, Is

LEMMA LoadTokenBinds ==
  ASSUME BindingInv, StoreInv', NEW t \in Task, LoadToken(t)
  PROVE  BindingInv'
  <1>1. task[t].kind \in {"restore", "sync", "cli"} /\ ~HalfWay(t)
    BY ReaderKinds DEF LoadToken
  <1>2. UNCHANGED <<config, token, file, bound, live, revived, abandoned>>
    BY DEF LoadToken, stores, windows, history
  <1>3. CASE End(t)
    BY <1>1, <1>2, <1>3, EndKeepsAll
  <1>4. CASE ~End(t)
    <2>1. PICK tok \in Token \cup {NoToken} : tok = token[AccountOf[task[t].rel]]
      <3>1. SharePoint(task[t].rel) /\ task[t].rel \in Remote \cup {NoRel}
        BY TaskParts DEF LoadToken, TaskFine, TaskRecord
      <3>2. AccountOf[task[t].rel] \in Account
        BY <3>1, StoreAssumption DEF SharePoint, Account_
      <3> QED
        BY <3>2 DEF BindingInv, StoreInv, TypeOK
    <2>2. task' = [task EXCEPT ![t].got = tok, ![t].at = "exchanging"]
      BY <1>4, <2>1 DEF LoadToken
    <2>3. Fetched(t, tok, "exchanging")
      BY <2>2, TaskParts, FetchFacts DEF Place
    <2> QED
      BY <1>1, <1>2, <2>3, FetchedTame, SameBound, TameTask
  <1> QED
    BY <1>3, <1>4

LEMMA ReaderFailsBinds ==
  ASSUME BindingInv, StoreInv', NEW t \in Task, ReaderFails(t)
  PROVE  BindingInv'
  <1>1. ~HalfWay(t)
    BY ReaderKinds DEF ReaderFails
  <1>2. UNCHANGED <<config, token, file, bound, live, revived, abandoned>>
    BY DEF ReaderFails, stores, windows, history
  <1> QED
    BY <1>1, <1>2, EndKeepsAll DEF ReaderFails

LEMMA SyncUploadsBinds ==
  ASSUME BindingInv, StoreInv', NEW t \in Task, SyncUploads(t)
  PROVE  BindingInv'
  <1>1. Moved(t, "uploaded") /\ task[t].kind = "sync"
    BY TaskParts, MoveFacts DEF SyncUploads, Is, Place
  <1> QED
    BY <1>1, MovedTame, SameBound, TameTask DEF SyncUploads, stores, windows, history

LEMMA CliComparesBinds ==
  ASSUME BindingInv, StoreInv', NEW t \in Task, CliCompares(t)
  PROVE  BindingInv'
  <1>1. task[t].kind = "cli" /\ ~HalfWay(t)
    BY DEF CliCompares, Is, HalfWay
  <1>2. UNCHANGED <<config, token, file, bound, live, revived, abandoned>>
    BY DEF CliCompares, stores, windows, history
  <1>3. CASE End(t)
    BY <1>1, <1>2, <1>3, EndKeepsAll
  <1>4. CASE MoveTo(t, "comparing")
    <2>1. Moved(t, "comparing")
      BY <1>4, TaskParts, MoveFacts DEF Place
    <2> QED
      BY <1>1, <1>2, <2>1, MovedTame, SameBound, TameTask
  <1> QED
    BY <1>3, <1>4 DEF CliCompares

LEMMA CliSavesBinds ==
  ASSUME BindingInv, StoreInv', NEW t \in Task, CliSaves(t)
  PROVE  BindingInv'
  <1>1. task[t].kind = "cli" /\ ~HalfWay(t)
    BY DEF CliSaves, Is, HalfWay
  <1>2. task[t].vault \in Vault
    BY <1>1, TaskParts DEF TaskFine
  <1>3. config' = config
    BY <1>2 DEF CliSaves, StillBound, BindingIsStill, BindingInv, StoreInv, TypeOK
  <1> QED
    BY <1>1, <1>3, EndKeepsAll DEF CliSaves, windows, history

-----------------------------------------------------------------------------
(* A publication or a clean-up starts: the gate advances. *)

Flow == {"connect", "publish", "reconnect", "disconnect"}

LEMMA FlowGate ==
  ASSUME OneProcess, GateInv, TaskInv', NEW t \in Task, NEW kind \in Flow, NEW p \in App,
         NEW v \in Vault, NEW r \in Remote \cup {NoRel}, Started(t, kind, p, v, r, "ready"),
         Advanced(p, Task \ {t}),
         kind \in {"connect", "publish", "disconnect"} => r \in Remote,
         kind = "publish" => ~SharePoint(r),
         kind = "reconnect" => SharePoint(r)
  PROVE  GateInv'
  <1>1. /\ task'[t].kind = kind /\ task'[t].app = p /\ task'[t].vault = v
        /\ task'[t].rel = r /\ task'[t].at = "ready"
    BY BeginTypes DEF Started, Flow, Kind, Place
  <1>2. ~Inside(t)'
    BY <1>1 DEF Inside
  <1>3. \A u \in Task \ {t} : ~task'[u].wanted
    BY DEF Started, Kept, Advanced, GateInv, WantedInv, OneProcess
  <1>4. RemoteFine(t)'
    BY <1>1 DEF RemoteFine
  <1> QED
    BY <1>1, <1>2, <1>3, <1>4, StartedTame, GateFrame

\* What the start or the move of one task may claim while no configuration and
\* no token changes.
MayClaim(t) ==
  /\ Alive(t)' => /\ Relates(task'[t].vault, task'[t].rel)
                  /\ AliveAt(task'[t].vault) \/ config[task'[t].vault] # NoRel
  /\ Knows(t)' => KnownRel(task'[t].vault, task'[t].rel)
  /\ \A p \in App, v \in Vault : bound'[p][v] = NoRel \/ KnownRel(v, bound'[p][v])
  /\ PublishFine(t)'
  /\ task'[t].kind = "disconnect" =>
       \/ task[t].kind = "disconnect" /\ task'[t].vault = task[t].vault
       \/ \A u \in Task \ {t} :
                task[u].kind = "publish" /\ task[u].vault = task'[t].vault => ~task'[u].current
  /\ task'[t].at = "signing" => task[t].at = "signing" /\ task'[t].vault = task[t].vault

LEMMA OwnerFrame ==
  ASSUME OwnerInv, TaskInv, TaskInv', NEW t \in Task, Tamed(Task \ {t}),
         UNCHANGED <<config, token, revived>>, abandoned \subseteq abandoned',
         revived = {} => MayClaim(t),
         revived = {} /\ HalfWay(t) => \/ HalfWay(t)' /\ task'[t].rel = task[t].rel
                                       \/ \A a \in Account :
                                            Account_(task[t].rel) = a /\ token[a] # NoToken => Owned(a)'
  PROVE  OwnerInv'
  <1> SUFFICES ASSUME revived = {}
               PROVE  (\A v \in Vault : AgreeAt(v)') /\ PublishInv' /\ TokensOwned'
    BY DEF OwnerInv
  <1>1. (\A v \in Vault : AgreeAt(v)) /\ PublishInv /\ TokensOwned
    BY DEF OwnerInv
  <1>2. MayClaim(t)
    OBVIOUS
  <1>3. ASSUME NEW v \in Vault
        PROVE  AgreeAt(v)'
    <2>1. Alive(t)' /\ task'[t].vault = v => Relates(v, task'[t].rel)
      BY <1>2 DEF MayClaim
    <2>2. \A p \in App : bound'[p][v] = NoRel \/ KnownRel(v, bound'[p][v])
      BY <1>2 DEF MayClaim
    <2>3. Knows(t)' /\ task'[t].vault = v => KnownRel(v, task'[t].rel)
      BY <1>2 DEF MayClaim
    <2>4. config'[v] = NoRel \/ KnownRel(v, config'[v])
      BY DEF KnownRel
    <2> QED
      BY <1>1, <2>1, <2>2, <2>3, AgreeQuiet
  <1>4. PublishInv'
    <2>1. ASSUME NEW v \in Vault, AliveAt(v)'
          PROVE  AliveAt(v) \/ config[v] # NoRel
      <3>1. PICK u \in Task : Alive(u)' /\ task'[u].vault = v
        BY <2>1 DEF AliveAt
      <3>2. CASE u = t
        BY <1>2, <3>1, <3>2 DEF MayClaim
      <3>3. CASE u # t
        <4>1. Tame(u) /\ TaskFine(u)'
          BY <3>3 DEF Tamed, TaskInv
        <4> QED
          BY <3>1, <4>1, TameClaims DEF AliveAt
      <3> QED
        BY <3>2, <3>3
    <2>2. PublishFine(t)'
      BY <1>2 DEF MayClaim
    <2>3. task'[t].kind = "disconnect" =>
            \/ task[t].kind = "disconnect" /\ task'[t].vault = task[t].vault
            \/ \A u \in Task \ {t} :
                task[u].kind = "publish" /\ task[u].vault = task'[t].vault => ~task'[u].current
      BY <1>2 DEF MayClaim
    <2> QED
      BY <1>1, <2>1, <2>2, <2>3, PublishFrame
  <1>5. TokensOwned'
    <2>1. ASSUME NEW a \in Account, token'[a] # NoToken
          PROVE  Owned(a)'
      <3>1. Owned(a) /\ token[a] # NoToken
        BY <1>1, <2>1 DEF TokensOwned
      <3>2. task'[t].at = "signing" => task[t].at = "signing" /\ task'[t].vault = task[t].vault
        BY <1>2 DEF MayClaim
      <3>3. HalfWay(t) /\ Account_(task[t].rel) = a =>
              (HalfWay(t)' /\ task'[t].rel = task[t].rel) \/ Owned(a)'
        BY <3>1
      <3> QED
        BY <3>1, <3>2, <3>3, OwnedFrame
    <2> QED
      BY <2>1 DEF TokensOwned
  <1> QED
    BY <1>3, <1>4, <1>5

\* A task that nobody else relies on moves, and no store changes.
LEMMA MoveBinds ==
  ASSUME BindingInv, StoreInv', NEW t \in Task, Tamed(Task \ {t}), GateInv',
         UNCHANGED <<config, token, file, revived>>, abandoned \subseteq abandoned',
         LiveInv', StagedLess,
         Knows(t)' => Unstaged(task'[t].vault),
         \A p \in App, v \in Vault : bound'[p][v] # NoRel => Unstaged(v),
         revived = {} => MayClaim(t),
         revived = {} /\ HalfWay(t) => \/ HalfWay(t)' /\ task'[t].rel = task[t].rel
                                       \/ \A a \in Account :
                                            Account_(task[t].rel) = a /\ token[a] # NoToken => Owned(a)'
  PROVE  BindingInv'
  <1>1. StoreInv /\ TaskInv /\ TaskInv' /\ GateInv /\ LiveInv /\ KnownInv /\ OwnerInv
    BY DEF BindingInv, StoreInv
  <1>2. KnownInv'
    BY <1>1, KnownFrame
  <1>3. OwnerInv'
    BY <1>1, OwnerFrame
  <1> QED
    BY <1>2, <1>3 DEF BindingInv

\* The bindings that were there.
LEMMA OldBound ==
  ASSUME BindingInv, BoundLess
  PROVE  /\ \A p \in App, v \in Vault : bound'[p][v] # NoRel => Unstaged(v)
         /\ \A p \in App, v \in Vault : bound'[p][v] = NoRel \/ KnownRel(v, bound'[p][v])
  BY DEF BindingInv, KnownInv, BoundLess, KnownRel

LEMMA StartedStaged ==
  ASSUME NEW t \in Task, NEW kind, NEW p, NEW v, NEW r, NEW place,
         place \notin {"binding", "signing"}, task'[t].at = place,
         Started(t, kind, p, v, r, place)
  PROVE  StagedLess
  BY KeptKeepClaims DEF Started, ClaimsKept, StagedKept, Staged, StagedLess

\* A connect or a publication starts; it claims nothing before it is inside.
LEMMA ConnectStarts ==
  ASSUME OneProcess, BindingInv, StoreInv', NEW t \in Task, NEW kind \in {"connect", "publish"},
         NEW p \in App, NEW v \in Vault, NEW r \in Remote, task[t] = Unused,
         Started(t, kind, p, v, r, "ready"), Advanced(p, Task \ {t}),
         kind = "publish" => ~SharePoint(r),
         UNCHANGED <<config, token, file, bound, live, revived, abandoned>>
  PROVE  BindingInv'
  <1>1. TaskInv' /\ GateInv /\ LiveInv
    BY DEF BindingInv, StoreInv
  <1>2. task'[t].kind = kind /\ task'[t].at = "ready"
    BY BeginTypes DEF Started, Kind, Place
  <1>3. GateInv'
    BY <1>1, FlowGate DEF Flow
  <1>4. Tamed(Task \ {t})
    BY StartedTame
  <1>5. LiveInv'
    BY <1>1, <1>2, <1>4, LiveFrame DEF LiveFine, Is
  <1>6. ~Alive(t)' /\ ~Knows(t)'
    BY <1>2 DEF Alive, Knows, Is
  <1>7. BoundLess
    BY SameBound
  <1>8. MayClaim(t)
    BY <1>2, <1>6, <1>7, OldBound DEF MayClaim, PublishFine
  <1>9. ~HalfWay(t)
    BY EndedFacts DEF HalfWay, Is
  <1>10. StagedLess
    BY <1>2, StartedStaged
  <1> QED
    BY <1>3, <1>4, <1>5, <1>6, <1>7, <1>8, <1>9, <1>10, OldBound, MoveBinds

LEMMA StartConnectBinds ==
  ASSUME OneProcess, BindingInv, StoreInv', NEW p \in App, NEW v \in Vault, NEW r \in Remote,
         NEW t \in Task, StartConnect(p, v, r, t)
  PROVE  BindingInv'
  <1>1. Started(t, "connect", p, v, r, "ready") /\ Advanced(p, Task \ {t})
    BY TaskParts, FlowStartFacts DEF StartConnect, Kind, Place
  <1> QED
    BY <1>1, ConnectStarts DEF StartConnect, CanStart, stores, windows, history

LEMMA StartPublishBinds ==
  ASSUME OneProcess, BindingInv, StoreInv', NEW p \in App, NEW v \in Vault, NEW r \in Remote,
         NEW t \in Task, StartPublish(p, v, r, t)
  PROVE  BindingInv'
  <1>1. Started(t, "publish", p, v, r, "ready") /\ Advanced(p, Task \ {t})
    BY TaskParts, FlowStartFacts DEF StartPublish, Kind, Place
  <1> QED
    BY <1>1, ConnectStarts DEF StartPublish, CanStart, stores, windows, history

LEMMA StartReconnectBinds ==
  ASSUME OneProcess, BindingInv, StoreInv', NEW p \in App, NEW v \in Vault, NEW t \in Task,
         StartReconnect(p, v, t)
  PROVE  BindingInv'
  <1>1. UNCHANGED <<config, token, file, bound, live, revived, abandoned>>
    BY DEF StartReconnect, stores, windows, history
  <1>2. TaskInv' /\ GateInv /\ LiveInv /\ StoreInv /\ TaskType
    BY TaskParts DEF BindingInv, StoreInv
  <1>3. PICK r \in Remote \cup {NoRel} : r = config[v]
    BY <1>2 DEF StoreInv, TypeOK
  <1>4. Started(t, "reconnect", p, v, r, "ready") /\ Advanced(p, Task \ {t})
    BY <1>2, <1>3, FlowStartFacts DEF StartReconnect, Kind, Place
  <1>5. SharePoint(r) /\ r # NoRel
    BY <1>3 DEF StartReconnect, SharePoint, Account_
  <1>6. /\ task'[t].kind = "reconnect" /\ task'[t].at = "ready"
        /\ task'[t].vault = v /\ task'[t].rel = r
    BY <1>4, BeginTypes DEF Started, Kind, Place
  <1>7. GateInv'
    BY <1>2, <1>4, <1>5, FlowGate DEF Flow
  <1>8. Tamed(Task \ {t})
    BY <1>4, StartedTame
  <1>9. LiveInv'
    BY <1>1, <1>2, <1>6, <1>8, LiveFrame DEF LiveFine, Is
  <1>10. BoundLess
    BY <1>1, SameBound
  <1>11. MayClaim(t)
    BY <1>3, <1>5, <1>6, <1>10, OldBound DEF MayClaim, PublishFine, Relates, KnownRel
  <1>12. ~HalfWay(t)
    BY EndedFacts DEF StartReconnect, CanStart, HalfWay, Is
  <1>13. StagedLess
    BY <1>4, <1>6, StartedStaged
  <1>14. Unstaged(v)
    <2>1. v \in open[p]
      BY <1>2, EngagedOpen DEF StartReconnect
    <2> QED
      BY <1>2, <2>1, OpenFacts DEF Unstaged
  <1> QED
    BY <1>1, <1>6, <1>7, <1>8, <1>9, <1>10, <1>11, <1>12, <1>13, <1>14, OldBound, MoveBinds

\* A disconnect is decided on: the binding goes, and with it every task of the
\* vault loses its session.
LEMMA DisconnectBinds ==
  ASSUME OneProcess, BindingInv, StoreInv', NEW p \in App, NEW v \in Vault, NEW t \in Task,
         Disconnect(p, v, t)
  PROVE  BindingInv'
  <1>1. UNCHANGED <<config, token, file, revived, abandoned>>
    BY DEF Disconnect, stores
  <1>2. TaskInv' /\ GateInv /\ LiveInv /\ StoreInv /\ TaskType /\ TypeOK
    BY TaskParts DEF BindingInv, StoreInv
  <1>3. PICK r \in Remote : r = bound[p][v]
    BY <1>2 DEF TypeOK, Disconnect
  <1>4. /\ Started(t, "disconnect", p, v, r, "ready") /\ Advanced(p, Task \ {t})
        /\ \A u \in Task \ {t} : task[u].app = p /\ task[u].vault \in {v} => ~task'[u].current
    <2>1. task' = [Abandon(p, {v}) EXCEPT ![t] = Begin(t, "disconnect", p, v, r, "ready")]
      BY <1>3 DEF Disconnect
    <2>2. "disconnect" \in Kind /\ "ready" \in Place
      BY DEF Kind, Place
    <2> QED
      BY <1>2, <2>1, <2>2, FlowStartFacts
  <1>5. /\ task'[t].kind = "disconnect" /\ task'[t].at = "ready"
        /\ task'[t].vault = v /\ task'[t].rel = r
    BY <1>4, BeginTypes DEF Started, Kind, Place
  <1>6. GateInv'
    BY <1>2, <1>4, FlowGate DEF Flow
  <1>7. Tamed(Task \ {t})
    BY <1>4, StartedTame
  <1>8. BoundLess
    BY <1>2 DEF Disconnect, BoundLess, TypeOK
  <1>9. live' = [live EXCEPT ![v] = NoRel]
    BY DEF Disconnect
  <1>10. LiveInv'
    <2>1. \A w \in Vault : live'[w] = live[w] \/ live'[w] = NoRel
      BY <1>2, <1>9 DEF TypeOK
    <2>2. LiveBindingsHold'
      BY <1>1, <1>2, <2>1 DEF LiveInv, LiveBindingsHold
    <2>3. LiveFine(t)'
      BY <1>2, <1>5, <1>9 DEF LiveFine, Is, TypeOK
    <2>4. ASSUME NEW u \in Task \ {t}
          PROVE  LiveFine(u)'
      <3>1. Kept(u) /\ LiveFine(u) /\ TaskFine(u)
        BY <1>2, <1>4 DEF Started, LiveInv, StoreInv, TaskInv
      <3>2. task[u].kind # "none" => task[u].vault \in Vault
        BY <3>1 DEF TaskFine
      <3>3. task'[u].kind = "disconnect" => live'[task'[u].vault] = NoRel
        BY <2>1, <3>1, <3>2 DEF Kept, LiveFine
      <3>4. Is(u, "reconnect", "saving")' => token'[AccountOf[task'[u].rel]] # NoToken
        BY <1>1, <3>1 DEF Kept, LiveFine, Is
      <3>5. revived' = {} /\ task'[u].at = "signing" =>
              config'[task'[u].vault] = task'[u].rel /\ live'[task'[u].vault] = NoRel
        BY <1>1, <2>1, <3>1, <3>2 DEF Kept, LiveFine, TaskFine, PlacesOf
      <3>6. revived' = {} /\ task'[u].at = "signingOut" => BoundTo(AccountOf[task[u].rel])' = {}
        BY <1>1, <3>1 DEF Kept, LiveFine, BoundTo
      <3> QED
        BY <3>3, <3>4, <3>5, <3>6 DEF LiveFine
    <2> QED
      BY <2>2, <2>3, <2>4 DEF LiveInv
  <1>11. ASSUME NEW u \in Task \ {t}, task[u].kind = "publish", task[u].vault = v
         PROVE  ~task'[u].current
    <2>1. task[u].app \in App
      BY <1>2, <1>11 DEF StoreInv, TaskInv, TaskFine
    <2>2. task[u].app = p
      BY <2>1 DEF OneProcess
    <2> QED
      BY <1>4, <1>11, <2>2
  <1>12. ~Alive(t)' /\ ~HalfWay(t)
    BY <1>5, EndedFacts DEF Alive, Disconnect, CanStart, HalfWay, Is
  <1>13. StagedLess
    BY <1>4, <1>5, StartedStaged
  <1>14. Unstaged(v)
    BY <1>2, OpenFacts DEF Unstaged, Disconnect
  <1>15. KnownRel(v, r)
    BY <1>3 DEF KnownRel
  <1>16. MayClaim(t)
    BY <1>5, <1>8, <1>11, <1>12, <1>15, OldBound DEF MayClaim, PublishFine
  <1> QED
    BY <1>1, <1>5, <1>6, <1>7, <1>8, <1>10, <1>12, <1>13, <1>14, <1>16, OldBound, MoveBinds

-----------------------------------------------------------------------------
(* Tasks of the gate. *)

LEMMA MovedGate ==
  ASSUME GateInv, TaskInv', NEW t \in Task, NEW place, Moved(t, place), Inside(t) \/ Alone(t),
         place \in {"signing", "signingOut"} => SharePoint(task[t].rel)
  PROVE  GateInv'
  <1>1. Tamed(Task \ {t})
    BY OthersTame DEF Moved
  <1>2. RemoteFine(t)'
    BY DEF GateInv, RemoteFine, Moved, SameTask
  <1>3. task'[t].wanted => task'[t].app \in App /\ task[t].wanted
    BY DEF Moved, SameTask, GateInv, WantedInv
  <1> QED
    BY <1>1, <1>2, <1>3, GateFrame

LEMMA GoneGate ==
  ASSUME GateInv, TaskInv', NEW t \in Task, Gone(t)
  PROVE  GateInv'
  <1>1. Tamed(Task \ {t})
    BY OthersTame DEF Gone
  <1>2. task'[t].kind = "none" /\ task'[t].at = "ended" /\ ~task'[t].wanted
    BY EndedFacts DEF Gone
  <1> QED
    BY <1>1, <1>2, GateFrame DEF RemoteFine, Inside, Gated

\* Whoever runs next to a task in the gate has not entered or has left it.
LEMMA AloneWhenFree ==
  ASSUME OneProcess, BindingInv, NEW t \in Task, Gated(t), MutexFree(task[t].app)
  PROVE  Alone(t)
  <1>1. \A u \in Task : Gated(u) => task[u].app \in App
    BY TaskParts DEF TaskFine, Gated
  <1> QED
    BY <1>1 DEF Alone, MutexFree, Inside, OneProcess

LEMMA MovedStaged ==
  ASSUME NEW t \in Task, NEW place, Moved(t, place), place \notin {"binding", "signing"}
  PROVE  StagedLess
  BY DEF Moved, OthersKept, StagedLess, Staged

LEMMA GoneStaged ==
  ASSUME NEW t \in Task, Gone(t)
  PROVE  StagedLess
  BY EndedFacts DEF Gone, OthersKept, StagedLess, Staged

\* The vault of a task that knows its relationship.
LEMMA MovedKnows ==
  ASSUME BindingInv, NEW t \in Task, NEW place, Moved(t, place), place # "landed" \/ task[t].kind # "connect"
  PROVE  /\ Knows(t)' => Unstaged(task'[t].vault)
         /\ Knows(t)' => KnownRel(task'[t].vault, task'[t].rel)
  <1>1. Knows(t)' => Knows(t) /\ task'[t].vault = task[t].vault /\ task'[t].rel = task[t].rel
    BY DEF Knows, Is, Moved, SameTask
  <1> QED
    BY <1>1 DEF BindingInv, KnownInv, KnownRel

LEMMA EnterGateBinds ==
  ASSUME OneProcess, BindingInv, StoreInv', NEW t \in Task, EnterGate(t)
  PROVE  BindingInv'
  <1>1. UNCHANGED <<config, token, file, bound, live, revived, abandoned>>
    BY DEF EnterGate, stores, windows, history
  <1>2. TaskInv' /\ GateInv /\ LiveInv /\ StoreInv /\ TaskType
    BY TaskParts DEF BindingInv, StoreInv
  <1>3. CASE task[t].kind # "disconnect" /\ End(t)
    BY <1>1, <1>3, EndKeepsAll DEF EnterGate, HalfWay, Is
  <1>4. CASE MoveTo(t, FirstPlace(task[t].kind)) /\ (task[t].kind = "disconnect" \/ task[t].wanted)
    <2>1. PICK place \in {"storing", "deleting", "checking"} :
            /\ place = FirstPlace(task[t].kind)
            /\ task[t].kind = "reconnect" <=> place = "storing"
            /\ task[t].kind = "disconnect" <=> place = "deleting"
      BY DEF FirstPlace
    <2>2. Moved(t, place)
      BY <1>2, <1>4, <2>1, MoveFacts DEF Place
    <2>3. Alone(t) /\ Gated(t) /\ task[t].at = "ready"
      BY AloneWhenFree DEF EnterGate
    <2>4. GateInv'
      BY <1>2, <2>2, <2>3, MovedGate
    <2>5. Tamed(Task \ {t})
      BY <2>2, OthersTame DEF Moved
    <2>6. LiveInv'
      <3>1. LiveFine(t)'
        BY <1>1, <1>2, <2>2 DEF LiveInv, LiveFine, Moved, SameTask, Is
      <3> QED
        BY <1>1, <1>2, <2>5, <3>1, LiveFrame
    <2>7. Alive(t)' => Relates(task'[t].vault, task'[t].rel) /\ AliveAt(task'[t].vault)
      BY <1>4, <2>2, <2>3 DEF Alive, Moved, SameTask, Relates, AliveAt
    <2>8. PublishFine(t)'
      <3>1. SUFFICES ASSUME task'[t].kind = "publish"
                     PROVE  PublishFine(t)'
        BY DEF PublishFine
      <3>2. task[t].kind = "publish" /\ task[t].wanted /\ task'[t].at = "checking"
        BY <1>4, <2>1, <2>2, <3>1 DEF Moved, SameTask
      <3>3. ASSUME NEW u \in Task, Alive(u)'
            PROVE  FALSE
        <4>1. u # t
          BY <3>1, <3>3 DEF Alive
        <4>2. task[u].kind = "reconnect" /\ Alive(u)
          BY <2>2, <3>3, <4>1 DEF Moved, OthersKept, Alive
        <4>3. ~Inside(u)
          BY <2>3, <4>1 DEF Alone
        <4>4. task[u].wanted
          BY <4>2, <4>3 DEF Alive, Inside, Gated
        <4> QED
          BY <1>2, <3>2, <4>1, <4>4 DEF GateInv, WantedInv
      <3>4. \A u \in Task : task'[u].kind # "disconnect"
        <4>1. \A u \in Task : task[u].kind = "disconnect" => task[u].app \in App
          BY TaskParts DEF TaskFine
        <4>2. task[t].app \in App
          BY <3>2, TaskParts DEF TaskFine
        <4>3. \A u \in Task : task[u].kind # "disconnect"
          BY <3>2, <4>1, <4>2 DEF EnterGate, CleanUpDue, OneProcess
        <4> QED
          BY <2>2, <3>1, <4>3 DEF Moved, OthersKept
      <3> QED
        BY <3>2, <3>3, <3>4 DEF PublishFine, AliveAt
    <2>9. BoundLess
      BY <1>1, SameBound
    <2>10. Knows(t)' => Unstaged(task'[t].vault) /\ KnownRel(task'[t].vault, task'[t].rel)
      BY <2>2, MovedKnows
    <2>11. MayClaim(t)
      BY <2>2, <2>7, <2>8, <2>9, <2>10, OldBound DEF MayClaim, Moved, SameTask
    <2>12. HalfWay(t) => HalfWay(t)' /\ task'[t].rel = task[t].rel
      BY <2>2, <2>3 DEF HalfWay, Is, Moved, SameTask
    <2> QED
      BY <1>1, <2>2, <2>4, <2>5, <2>6, <2>9, <2>10, <2>11, <2>12, MovedStaged, OldBound, MoveBinds
  <1> QED
    BY <1>3, <1>4 DEF EnterGate

LEMMA PrepareFailsBinds ==
  ASSUME BindingInv, StoreInv', NEW t \in Task, PrepareFails(t)
  PROVE  BindingInv'
  BY EndKeepsAll DEF PrepareFails, EndShown, HalfWay, Is, stores, history

LEMMA ConnectCheckBinds ==
  ASSUME BindingInv, StoreInv', NEW t \in Task, ConnectCheck(t)
  PROVE  BindingInv'
  <1>1. task[t].kind = "connect" /\ task[t].at = "checking" /\ ~HalfWay(t)
    BY DEF ConnectCheck, Is, HalfWay
  <1>2. UNCHANGED <<config, token, file, bound, live, revived, abandoned>>
    BY DEF ConnectCheck, stores, windows, history
  <1>3. CASE End(t)
    BY <1>1, <1>2, <1>3, EndKeepsAll
  <1>4. CASE MoveTo(t, "staging")
    <2>1. Moved(t, "staging")
      BY <1>4, TaskParts, MoveFacts DEF Place
    <2>2. Tame(t) /\ Tamed(Task \ {t})
      BY <1>1, <2>1, OthersTame DEF Moved, SameTask, Tame, Gated, Knows, Is, HalfWay
    <2> QED
      BY <1>2, <2>2, SameBound, TameTask
  <1> QED
    BY <1>3, <1>4 DEF ConnectCheck

-----------------------------------------------------------------------------
(* Tasks that end, with or without a binding to install. *)

\* The end of a task, or its going on as a push, claims nothing.
LEMMA Claimless ==
  ASSUME NEW t \in Task, Gone(t) \/ Pushing(t)
  PROVE  /\ task'[t].kind \in {"none", "sync"} /\ task'[t].at \in {"ended", "uploaded"}
         /\ Tamed(Task \ {t}) /\ StagedLess
         /\ ~Alive(t)' /\ ~Knows(t)' /\ ~Inside(t)' /\ ~HalfWay(t)'
         /\ LiveFine(t)' /\ PublishFine(t)' /\ RemoteFine(t)'
         /\ task'[t].wanted => task[t].wanted /\ task'[t].app = task[t].app
  <1>1. CASE Gone(t)
    <2>1. task'[t].kind = "none" /\ task'[t].at = "ended" /\ ~task'[t].wanted
      BY <1>1, EndedFacts DEF Gone
    <2> QED
      BY <1>1, <2>1, OthersTame, GoneStaged
      DEF Gone, Alive, Knows, Inside, Gated, HalfWay, Is, LiveFine, PublishFine, RemoteFine
  <1>2. CASE Pushing(t)
    <2>1. task'[t].kind = "sync" /\ task'[t].at = "uploaded"
      BY <1>2 DEF Pushing
    <2>2. StagedLess
      BY <1>2 DEF Pushing, OthersKept, StagedLess, Staged
    <2>3. task'[t].wanted => task[t].wanted /\ task'[t].app = task[t].app
      BY <1>2 DEF Pushing
    <2> QED
      BY <1>2, <2>1, <2>2, <2>3, OthersTame
      DEF Pushing, Alive, Knows, Inside, Gated, HalfWay, Is, LiveFine, PublishFine, RemoteFine
  <1> QED
    BY <1>1, <1>2

\* What a task installs is known already.
Installed(t) ==
  \A p \in App, v \in Vault :
    \/ bound'[p][v] = NoRel \/ bound'[p][v] = bound[p][v]
    \/ bound'[p][v] = task[t].rel /\ v = task[t].vault

LEMMA EndBinds ==
  ASSUME BindingInv, StoreInv', NEW t \in Task, Gone(t) \/ Pushing(t), Installed(t),
         bound' # bound /\ task[t].rel # NoRel => Unstaged(task[t].vault),
         bound' # bound /\ revived = {} /\ task[t].rel # NoRel => KnownRel(task[t].vault, task[t].rel),
         UNCHANGED <<config, token, file, live, revived>>, abandoned \subseteq abandoned',
         revived = {} /\ HalfWay(t) => \A a \in Account :
                        Account_(task[t].rel) = a /\ token[a] # NoToken => Owned(a)'
  PROVE  BindingInv'
  <1>1. TaskInv' /\ GateInv /\ LiveInv
    BY DEF BindingInv, StoreInv
  <1>2. /\ task'[t].kind \in {"none", "sync"} /\ task'[t].at \in {"ended", "uploaded"}
        /\ Tamed(Task \ {t}) /\ StagedLess
        /\ ~Alive(t)' /\ ~Knows(t)' /\ ~Inside(t)' /\ ~HalfWay(t)'
        /\ LiveFine(t)' /\ PublishFine(t)' /\ RemoteFine(t)'
        /\ task'[t].wanted => task[t].wanted /\ task'[t].app = task[t].app
    BY Claimless
  <1>3. GateInv'
    BY <1>1, <1>2, GateFrame DEF GateInv, WantedInv
  <1>4. LiveInv'
    BY <1>1, <1>2, LiveFrame
  <1>5. ASSUME NEW p \in App, NEW v \in Vault, bound'[p][v] # NoRel
        PROVE  Unstaged(v) /\ (revived = {} => KnownRel(v, bound'[p][v]))
    <2>1. CASE bound'[p][v] = bound[p][v]
      BY <1>5, <2>1 DEF BindingInv, KnownInv, KnownRel
    <2>2. CASE bound'[p][v] # bound[p][v]
      BY <1>5, <2>2 DEF Installed
    <2> QED
      BY <2>1, <2>2
  <1>6. revived = {} => MayClaim(t)
    BY <1>2, <1>5 DEF MayClaim
  <1> QED
    BY <1>1, <1>2, <1>3, <1>4, <1>5, <1>6, MoveBinds

LEMMA ConnectDoneBinds ==
  ASSUME BindingInv, StoreInv', NEW t \in Task, ConnectDone(t)
  PROVE  BindingInv'
  <1>1. Gone(t) /\ TypeOK /\ TaskFine(t)
    BY TaskParts, EndFacts DEF ConnectDone, BindingInv, StoreInv
  <1>2. task[t].rel \in Remote /\ task[t].rel # NoRel
    BY StoreAssumption DEF ConnectDone, Is, BindingInv, GateInv, RemoteFine
  <1>3. Knows(t)
    BY <1>2 DEF ConnectDone, Is, Knows
  <1>4. Unstaged(task[t].vault) /\ KnownRel(task[t].vault, task[t].rel)
    BY <1>3 DEF BindingInv, KnownInv, KnownRel
  <1>5. ~HalfWay(t)
    BY DEF ConnectDone, Is, HalfWay
  <1>6. Installed(t)
    BY <1>1 DEF ConnectDone, Installed, TypeOK
  <1> QED
    BY <1>1, <1>4, <1>5, <1>6, EndBinds DEF ConnectDone, stores, history

LEMMA InstallsInstalled ==
  ASSUME TypeOK, NEW t \in Task, Installs(t) \/ UNCHANGED bound
  PROVE  Installed(t)
  BY DEF Installs, Installed, TypeOK

LEMMA PublishDoneBinds ==
  ASSUME BindingInv, StoreInv', NEW t \in Task, PublishDone(t)
  PROVE  BindingInv'
  <1>1. TypeOK /\ TaskType /\ RemoteFine(t) /\ WriterFine(t)
    BY TaskParts DEF BindingInv, StoreInv, GateInv, WriterInv
  <1>2. Gone(t) \/ Pushing(t)
    BY <1>1, EndFacts, EndOrPushFacts DEF PublishDone
  <1>3. task[t].kind \in {"publish", "reconnect"} /\ task[t].at = "landed" /\ ~HalfWay(t)
    BY DEF PublishDone, Is, HalfWay
  <1>4. Installed(t)
    BY <1>1, InstallsInstalled DEF PublishDone
  <1>5. task[t].rel # NoRel
    BY <1>1, <1>3, StoreAssumption DEF RemoteFine, SharePoint, Account_
  <1>6. Unstaged(task[t].vault)
    BY <1>1, <1>3, <1>5 DEF WriterFine, Writes, Unstaged
  <1>7. bound' # bound /\ revived = {} => KnownRel(task[t].vault, task[t].rel)
    <2>1. CASE task[t].kind = "reconnect"
      BY <1>5, <2>1 DEF Knows, KnownRel
    <2>2. ASSUME task[t].kind = "publish", revived = {}, bound' # bound
          PROVE  KnownRel(task[t].vault, task[t].rel)
      <3>1. PublishFine(t)
        BY <2>2 DEF BindingInv, OwnerInv, PublishInv
      <3>2. task[t].current
        BY <2>2 DEF PublishDone
      <3> QED
        BY <1>3, <2>2, <3>1, <3>2 DEF PublishFine, KnownRel
    <2> QED
      BY <1>3, <2>1, <2>2
  <1> QED
    BY <1>2, <1>3, <1>4, <1>6, <1>7, EndBinds DEF PublishDone, stores, history

LEMMA RestoreDoneBinds ==
  ASSUME BindingInv, StoreInv', NEW t \in Task, RestoreDone(t)
  PROVE  BindingInv'
  <1>1. TypeOK /\ TaskType
    BY TaskParts DEF BindingInv, StoreInv
  <1>2. Gone(t) \/ Pushing(t)
    BY <1>1, EndFacts, EndOrPushFacts DEF RestoreDone
  <1>3. task[t].kind = "restore" /\ ~HalfWay(t)
    BY DEF RestoreDone, Is, HalfWay
  <1>4. Installed(t)
    BY <1>1, InstallsInstalled DEF RestoreDone
  <1>5. task[t].rel # NoRel => Unstaged(task[t].vault) /\ KnownRel(task[t].vault, task[t].rel)
    BY <1>3 DEF Knows, KnownRel, BindingInv, KnownInv
  <1> QED
    BY <1>2, <1>3, <1>4, <1>5, EndBinds DEF RestoreDone, stores, history

LEMMA EndUnbound ==
  ASSUME BindingInv, StoreInv', NEW t \in Task, Gone(t) \/ Pushing(t),
         UNCHANGED <<config, token, file, bound, live, revived>>, abandoned \subseteq abandoned',
         revived = {} /\ HalfWay(t) => \A a \in Account :
                        Account_(task[t].rel) = a /\ token[a] # NoToken => Owned(a)'
  PROVE  BindingInv'
  <1>1. Installed(t)
    BY DEF Installed
  <1> QED
    BY <1>1, EndBinds

LEMMA PublicationFailsBinds ==
  ASSUME BindingInv, StoreInv', NEW t \in Task, PublicationFails(t)
  PROVE  BindingInv'
  <1>1. Gone(t)
    BY TaskParts, EndFacts DEF PublicationFails, EndShown
  <1>2. abandoned \subseteq abandoned'
    BY DEF PublicationFails
  <1>3. HalfWay(t) => \A a : Account_(task[t].rel) = a => a \in abandoned'
    BY DEF PublicationFails
  <1> QED
    BY <1>1, <1>2, <1>3, EndUnbound DEF PublicationFails, Owned, stores

-----------------------------------------------------------------------------
(* Steps that write no configuration and no token. *)

\* Nobody else is at a place inside the gate.
LEMMA AloneSigns ==
  ASSUME TaskInv', NEW t \in Task, Alone(t), Tamed(Task \ {t}), NEW u \in Task \ {t}
  PROVE  ~Staged(u)' \/ task'[u].at = "binding"
  <1>1. Tame(u) /\ TaskFine(u)' /\ ~Inside(u)
    BY DEF Tamed, TaskInv, Alone
  <1> QED
    BY <1>1, TameClaims DEF Staged, TaskFine, PlacesOf, Inside, Gated

LEMMA KeepsTokens ==
  ASSUME NEW t \in Task, NEW v \in Vault, NEW a \in Account, Account_(config'[v]) = a,
         TaskInv', Alone(t), Tamed(Task \ {t}), task'[t].at # "signing"
  PROVE  Owned(a)'
  <1>1. \A u \in Task : task'[u].at # "signing"
    BY AloneSigns, SMT DEF Staged
  <1>2. Keeps(v, a)'
    BY <1>1 DEF Keeps
  <1> QED
    BY <1>2 DEF Owned

LEMMA StageVaultBinds ==
  ASSUME BindingInv, StoreInv', NEW t \in Task, StageVault(t)
  PROVE  BindingInv'
  <1>1. UNCHANGED <<config, token, bound, live, revived, abandoned>>
    BY DEF StageVault, windows, history
  <1>2. task[t].kind = "connect" /\ task[t].at = "staging" /\ ~HalfWay(t)
    BY DEF StageVault, Is, HalfWay
  <1>3. CASE End(t) /\ UNCHANGED file
    BY <1>1, <1>2, <1>3, EndKeepsAll
  <1>4. CASE MoveTo(t, "binding") /\ task[t].vault \notin file /\ file' = file \cup {task[t].vault}
    <2>1. Moved(t, "binding")
      BY <1>4, TaskParts, MoveFacts DEF Place
    <2>2. TaskInv /\ TaskInv' /\ GateInv /\ LiveInv /\ KnownInv /\ OwnerInv
      BY DEF BindingInv, StoreInv
    <2>3. task'[t].kind = "connect" /\ task'[t].at = "binding" /\ task'[t].vault = task[t].vault
      BY <1>2, <2>1 DEF Moved, SameTask
    <2>4. Tamed(Task \ {t}) /\ Inside(t)
      BY <1>2, <2>1, OthersTame DEF Moved, Inside, Gated
    <2>5. GateInv'
      BY <2>1, <2>2, <2>4, MovedGate
    <2>6. LiveInv'
      BY <1>1, <2>2, <2>3, <2>4, LiveFrame DEF LiveFine, Is
    <2>7. ~Alive(t)' /\ ~Knows(t)'
      BY <2>3 DEF Alive, Knows, Is
    <2>8. \A v \in Vault : Unstaged(v) => Unstaged(v)'
      BY <1>4, <2>1, <2>3 DEF Unstaged, Moved, OthersKept, Staged
    <2>9. ASSUME NEW u \in Task, Knows(u)'
          PROVE  Unstaged(task[u].vault)' /\ task'[u].vault = task[u].vault
      <3>1. u # t /\ task'[u] = task[u]
        BY <2>1, <2>7, <2>9 DEF Moved, OthersKept
      <3>2. Unstaged(task[u].vault)
        BY <2>2, <2>9, <3>1 DEF Knows, Is, KnownInv
      <3>3. task[u].vault \in Vault
        BY <3>2, TypeParts DEF Unstaged, BindingInv, StoreInv
      <3> QED
        BY <2>8, <3>1, <3>2, <3>3
    <2>10. KnownInv'
      BY <1>1, <2>2, <2>8, <2>9 DEF KnownInv
    <2>11. BoundLess
      BY <1>1, SameBound
    <2>12. MayClaim(t)
      BY <2>3, <2>7, <2>11, OldBound DEF MayClaim, PublishFine
    <2>13. OwnerInv'
      BY <1>1, <1>2, <2>2, <2>4, <2>12, OwnerFrame
    <2> QED
      BY <2>5, <2>6, <2>10, <2>13 DEF BindingInv
  <1> QED
    BY <1>3, <1>4 DEF StageVault

LEMMA PublishCheckBinds ==
  ASSUME BindingInv, StoreInv', NEW t \in Task, PublishCheck(t)
  PROVE  BindingInv'
  <1>1. UNCHANGED <<config, token, file, bound, live, revived, abandoned>>
    BY DEF PublishCheck, stores, history
  <1>2. task[t].kind = "publish" /\ task[t].at = "checking" /\ ~HalfWay(t)
    BY DEF PublishCheck, Is, HalfWay
  <1>3. CASE End(t)
    BY <1>1, <1>2, <1>3, EndKeepsAll
  <1>4. CASE config[task[t].vault] = NoRel /\ MoveTo(t, "saving")
    <2>1. Moved(t, "saving")
      BY <1>4, TaskParts, MoveFacts DEF Place
    <2>2. TaskInv' /\ GateInv /\ LiveInv
      BY DEF BindingInv, StoreInv
    <2>3. /\ task'[t].kind = "publish" /\ task'[t].at = "saving"
          /\ task'[t].vault = task[t].vault /\ task'[t].current = task[t].current
      BY <1>2, <2>1 DEF Moved, SameTask
    <2>4. Tamed(Task \ {t}) /\ Inside(t) /\ StagedLess
      BY <1>2, <2>1, OthersTame, MovedStaged DEF Moved, Inside, Gated
    <2>5. GateInv'
      BY <2>1, <2>2, <2>4, MovedGate
    <2>6. LiveInv'
      BY <1>1, <2>2, <2>3, <2>4, LiveFrame DEF LiveFine, Is
    <2>7. ~Alive(t)' /\ ~Knows(t)'
      BY <2>3 DEF Alive, Knows, Is
    <2>8. ASSUME revived = {}
          PROVE  PublishFine(t)'
      <3>1. PublishFine(t)
        BY <2>8 DEF BindingInv, OwnerInv, PublishInv
      <3>2. ~AliveAt(task[t].vault)'
        <4>1. ~AliveAt(task[t].vault)
          BY <1>2, <1>4, <3>1 DEF PublishFine
        <4>2. \A u \in Task : Alive(u)' => Alive(u) /\ task'[u].vault = task[u].vault
          BY <2>1, <2>7 DEF Moved, OthersKept, Alive
        <4> QED
          BY <2>3, <4>1, <4>2 DEF AliveAt
      <3>3. \A u \in Task : task'[u].kind = "disconnect" => task[u].kind = "disconnect" /\ task'[u].vault = task[u].vault
        BY <2>1, <2>3 DEF Moved, OthersKept
      <3> QED
        BY <1>1, <1>2, <1>4, <2>3, <3>1, <3>2, <3>3 DEF PublishFine
    <2>9. BoundLess
      BY <1>1, SameBound
    <2>10. revived = {} => MayClaim(t)
      BY <2>3, <2>7, <2>8, <2>9, OldBound DEF MayClaim
    <2> QED
      BY <1>1, <1>2, <2>4, <2>5, <2>6, <2>7, <2>9, <2>10, OldBound, MoveBinds
  <1> QED
    BY <1>3, <1>4 DEF PublishCheck, EndShown

\* A clean-up that goes on inside the gate.
LEMMA CleanUpMoves ==
  ASSUME BindingInv, StoreInv', NEW t \in Task, task[t].kind = "disconnect", Inside(t),
         NEW place \in {"deleting", "signingOut"}, MoveTo(t, place),
         place = "signingOut" => LastBinding(t),
         UNCHANGED <<config, token, file, bound, live, revived, abandoned>>
  PROVE  BindingInv'
  <1>1. Moved(t, place)
    BY TaskParts, MoveFacts DEF Place
  <1>2. TaskInv' /\ GateInv /\ LiveInv
    BY DEF BindingInv, StoreInv
  <1>3. /\ task'[t].kind = "disconnect" /\ task'[t].at = place
        /\ task'[t].vault = task[t].vault /\ task'[t].rel = task[t].rel
    BY <1>1 DEF Moved, SameTask
  <1>4. Tamed(Task \ {t}) /\ StagedLess
    BY <1>1, OthersTame, MovedStaged DEF Moved
  <1>5. GateInv'
    BY <1>1, <1>2, MovedGate DEF LastBinding
  <1>6. LiveInv'
    <2>1. place = "signingOut" => BoundTo(AccountOf[task[t].rel])' = {}
      BY <1>3 DEF LastBinding, BoundTo
    <2>2. LiveFine(t)'
      BY <1>2, <1>3, <2>1 DEF LiveInv, LiveFine, Is
    <2> QED
      BY <1>2, <1>4, <2>2, LiveFrame
  <1>7. ~Alive(t)'
    BY <1>3 DEF Alive
  <1>8. Knows(t)' => Unstaged(task'[t].vault) /\ KnownRel(task'[t].vault, task'[t].rel)
    BY <1>1, MovedKnows
  <1>9. BoundLess
    BY SameBound
  <1>10. MayClaim(t)
    BY <1>3, <1>7, <1>8, <1>9, OldBound DEF MayClaim, PublishFine
  <1>11. HalfWay(t)'
    BY <1>3 DEF HalfWay
  <1> QED
    BY <1>3, <1>4, <1>5, <1>6, <1>8, <1>9, <1>10, <1>11, OldBound, MoveBinds

LEMMA ScanBindingsBinds ==
  ASSUME BindingInv, StoreInv', NEW t \in Task, ScanBindings(t)
  PROVE  BindingInv'
  <1>1. UNCHANGED <<config, token, file, bound, live, revived, abandoned>>
    BY DEF ScanBindings, stores, windows, history
  <1>2. task[t].kind = "disconnect" /\ Inside(t)
    BY DEF ScanBindings, Is, Inside, Gated
  <1>3. CASE LastBinding(t) /\ MoveTo(t, "signingOut")
    BY <1>1, <1>2, <1>3, CleanUpMoves
  <1>4. CASE ~LastBinding(t) /\ End(t)
    <2>1. Gone(t)
      BY <1>4, TaskParts, EndFacts
    <2>2. ASSUME NEW a \in Account, Account_(task[t].rel) = a
          PROVE  Owned(a)'
      <3>1. SharePoint(task[t].rel) /\ AccountOf[task[t].rel] = a
        BY <2>2, StoreAssumption DEF SharePoint, Account_
      <3>2. PICK v \in Vault : Account_(config[v]) = a
        BY <1>4, <3>1 DEF LastBinding, BoundTo
      <3>3. TaskInv' /\ Alone(t) /\ Tamed(Task \ {t}) /\ task'[t].at # "signing"
        BY <1>2, <2>1, InsideAlone, Claimless DEF BindingInv, StoreInv
      <3> QED
        BY <1>1, <3>2, <3>3, KeepsTokens
    <2> QED
      BY <1>1, <2>1, <2>2, EndUnbound
  <1> QED
    BY <1>3, <1>4 DEF ScanBindings

LEMMA DisconnectFailsBinds ==
  ASSUME BindingInv, StoreInv', NEW t \in Task, DisconnectFails(t)
  PROVE  BindingInv'
  <1>1. UNCHANGED <<config, token, file, bound, live, revived>>
    BY DEF DisconnectFails, stores, windows
  <1>2. CASE MoveTo(t, "deleting") /\ UNCHANGED abandoned
    BY <1>1, <1>2, CleanUpMoves DEF DisconnectFails
  <1>3. CASE End(t) /\ abandoned' = abandoned \cup {Account_(task[t].rel)}
    <2>1. Gone(t)
      BY <1>3, TaskParts, EndFacts
    <2>2. \A a \in Account : Account_(task[t].rel) = a => Owned(a)'
      BY <1>3 DEF Owned
    <2> QED
      BY <1>1, <1>3, <2>1, <2>2, EndUnbound
  <1> QED
    BY <1>2, <1>3 DEF DisconnectFails

LEMMA LoadConfigBinds ==
  ASSUME BindingInv, StoreInv', NEW t \in Task, LoadConfig(t)
  PROVE  BindingInv'
  <1>0. TaskType /\ TaskFine(t) /\ task[t] \in TaskRecord /\ StoreInv /\ TaskInv'
    BY TaskParts DEF BindingInv, StoreInv
  <1>1. UNCHANGED <<config, token, file, bound, live, revived, abandoned>>
    BY DEF LoadConfig, stores, history
  <1>2. task[t].kind \in {"restore", "cli"} /\ task[t].vault \in Vault /\ ~HalfWay(t)
    BY <1>0 DEF LoadConfig, TaskFine, PlacesOf, HalfWay, Is
  <1>3. CASE End(t)
    BY <1>1, <1>2, <1>3, EndKeepsAll
  <1>4. CASE ~End(t)
    <2> DEFINE r == config[task[t].vault]
               place == IF SharePoint(r) THEN "refreshing" ELSE "refreshed"
    <2>1. task' = [task EXCEPT ![t].rel = r, ![t].at = place] /\ r # NoRel
      BY <1>4 DEF LoadConfig
    <2>2. r \in Remote \cup {NoRel} /\ place \in {"refreshing", "refreshed"}
      BY <1>0, <1>2 DEF StoreInv, TypeOK
    <2>3. Unstaged(task[t].vault)
      BY <1>0, <1>2, <2>1, StoreAssumption
      DEF LoadConfig, Free, StoreInv, StagedInv, Staged, BoundVaultHasFile, Unstaged
    <2>4. KnownRel(task[t].vault, r)
      BY DEF KnownRel
    <2> HIDE DEF r, place
    <2>5. task' = [task EXCEPT ![t] = [task[t] EXCEPT !.rel = r, !.at = place]]
      BY <1>0, <2>1 DEF TaskType, TaskRecord
    <2>6. OthersKept(t) /\ task'[t] = [task[t] EXCEPT !.rel = r, !.at = place]
      BY <1>0, <2>5 DEF TaskType, OthersKept
    <2>7. /\ task'[t].kind = task[t].kind /\ task'[t].app = task[t].app
          /\ task'[t].vault = task[t].vault /\ task'[t].wanted = task[t].wanted
          /\ task'[t].at = place /\ task'[t].rel = r
      BY <1>0, <2>6 DEF TaskRecord
    <2>8. Tamed(Task \ {t})
      BY <2>6, OthersTame
    <2>9. /\ ~Inside(t)' /\ ~Alive(t)' /\ ~Staged(t)'
          /\ LiveFine(t)' /\ PublishFine(t)' /\ RemoteFine(t)'
      BY <1>2, <2>2, <2>7
      DEF Inside, Gated, Alive, Staged, LiveFine, PublishFine, RemoteFine, Is
    <2>10. GateInv'
      BY <1>0, <2>7, <2>8, <2>9, GateFrame DEF BindingInv, GateInv, WantedInv
    <2>11. LiveInv'
      BY <1>0, <1>1, <2>8, <2>9, LiveFrame DEF BindingInv
    <2>12. StagedLess
      BY <2>6, <2>9 DEF StagedLess, OthersKept, Staged
    <2>13. BoundLess
      BY <1>1, SameBound
    <2>14. MayClaim(t)
      BY <1>2, <2>2, <2>4, <2>7, <2>9, <2>13, OldBound DEF MayClaim
    <2> QED
      BY <1>1, <1>2, <2>3, <2>7, <2>8, <2>10, <2>11, <2>12, <2>13, <2>14, OldBound, MoveBinds
  <1> QED
    BY <1>3, <1>4

-----------------------------------------------------------------------------
(* Connecting. *)

\* Whoever writes a configuration without staging writes that of another vault.
LEMMA WritersElsewhere ==
  ASSUME BindingInv, NEW t \in Task, Staged(t), NEW u \in Task,
         task[u].kind \in {"publish", "reconnect"}
  PROVE  task[u].vault # task[t].vault
  <1>1. RemoteFine(u) /\ WriterFine(u)
    BY DEF BindingInv, GateInv, StoreInv, WriterInv
  <1>2. task[u].rel # NoRel
    BY <1>1, StoreAssumption DEF RemoteFine, SharePoint, Account_
  <1> QED
    BY <1>1, <1>2 DEF WriterFine, Writes

\* The vault of a connect is known to nobody while it is staged.
LEMMA StagedUnknown ==
  ASSUME BindingInv, NEW t \in Task, Staged(t), task[t].vault \in Vault
  PROVE  /\ \A u \in Task : Knows(u) => task[u].vault # task[t].vault
         /\ \A p \in App : bound[p][task[t].vault] = NoRel
         /\ ~AliveAt(task[t].vault)
         /\ \A u \in Task : task[u].kind \in {"publish", "reconnect"} => task[u].vault # task[t].vault
  <1>1. ~Unstaged(task[t].vault)
    BY DEF Unstaged
  <1>2. \A u \in Task : Knows(u) => Unstaged(task[u].vault)
    BY DEF BindingInv, KnownInv
  <1>3. \A p \in App : bound[p][task[t].vault] = NoRel
    BY <1>1 DEF BindingInv, KnownInv
  <1>4. \A u \in Task : task[u].kind \in {"publish", "reconnect"} => task[u].vault # task[t].vault
    BY WritersElsewhere
  <1> QED
    BY <1>1, <1>2, <1>3, <1>4 DEF AliveAt, Alive

\* The staged vault is given up, kept or removed.
LEMMA UnstageKnown ==
  ASSUME BindingInv, NEW t \in Task, Staged(t), task[t].vault \in Vault, Gone(t),
         file' \in {file, file \ {task[t].vault}}, UNCHANGED bound
  PROVE  KnownInv'
  <1>1. \A v \in Vault : Unstaged(v) => Unstaged(v)'
    BY GoneStaged DEF Unstaged, StagedLess
  <1>2. ASSUME NEW u \in Task, Knows(u)'
        PROVE  Unstaged(task[u].vault)' /\ task'[u].vault = task[u].vault
    <2>1. u # t /\ task'[u] = task[u]
      BY <1>2, Claimless DEF Gone, OthersKept
    <2>2. Unstaged(task[u].vault)
      BY <1>2, <2>1 DEF Knows, Is, BindingInv, KnownInv
    <2>3. task[u].vault \in Vault
      BY <2>2, TypeParts DEF Unstaged, BindingInv, StoreInv
    <2> QED
      BY <1>1, <2>1, <2>2, <2>3
  <1> QED
    BY <1>1, <1>2 DEF BindingInv, KnownInv

LEMMA BindingFailsBinds ==
  ASSUME BindingInv, StoreInv', NEW t \in Task, BindingFails(t)
  PROVE  BindingInv'
  <1>1. UNCHANGED <<config, token, bound, live, revived, abandoned>>
    BY DEF BindingFails, windows, history
  <1>2. Staged(t) /\ task[t].kind = "connect" /\ ~HalfWay(t)
    BY DEF BindingFails, Is, Staged, HalfWay
  <1>3. Gone(t) /\ task[t].vault \in Vault
    BY <1>2, TaskParts, EndFacts DEF BindingFails, RollBack, TaskFine
  <1>4. TaskInv /\ TaskInv' /\ GateInv /\ LiveInv /\ OwnerInv /\ TypeOK /\ TypeOK'
    BY DEF BindingInv, StoreInv
  <1>5. KnownInv'
    BY <1>1, <1>2, <1>3, UnstageKnown DEF BindingFails, RollBack
  <1>6. GateInv'
    BY <1>3, <1>4, GoneGate
  <1>7. Tame(t) /\ Tamed(Task \ {t})
    BY <1>2, <1>3, GoneTame, OthersTame DEF Gone
  <1>8. Tamed(Task)
    BY <1>7 DEF Tamed
  <1>9. LiveInv' /\ OwnerInv'
    BY <1>1, <1>4, <1>6, <1>8, SameBound, TameLive, TameOwner
  <1> QED
    BY <1>5, <1>6, <1>9 DEF BindingInv

\* Who owns the token of an account while configurations change.
LEMMA OwnedBy ==
  ASSUME TaskInv', NEW t \in Task, Tamed(Task \ {t}), abandoned \subseteq abandoned',
         NEW a \in Account, Owned(a),
         \A v \in Vault : Keeps(v, a) => Owned(a)',
         HalfWay(t) /\ Account_(task[t].rel) = a =>
           (HalfWay(t)' /\ task'[t].rel = task[t].rel) \/ Owned(a)'
  PROVE  Owned(a)'
  <1>1. \A u \in Task \ {t} : TaskFine(u)' /\ Tame(u)
    BY DEF TaskInv, Tamed
  <1>2. ASSUME NEW u \in Task, HalfWay(u), Account_(task[u].rel) = a
        PROVE  Owned(a)'
    <2>1. CASE u = t
      BY <1>2, <2>1 DEF Owned
    <2>2. CASE u # t
      <3>1. HalfWay(u)' /\ task'[u].rel = task[u].rel
        BY <1>1, <1>2, <2>2, TameClaims
      <3> QED
        BY <1>2, <3>1 DEF Owned
    <2> QED
      BY <2>1, <2>2
  <1>3. CASE a \in abandoned
    BY <1>3 DEF Owned
  <1> QED
    BY <1>2, <1>3 DEF Owned

\* A configuration that stays keeps its token.
LEMMA KeptOwned ==
  ASSUME TaskInv', NEW t \in Task, Tamed(Task \ {t}), NEW v \in Vault, NEW a \in Account,
         Keeps(v, a), config'[v] = config[v],
         task'[t].at = "signing" => task'[t].vault # v
  PROVE  Owned(a)'
  <1>1. \A u \in Task \ {t} : TaskFine(u)' /\ Tame(u)
    BY DEF TaskInv, Tamed
  <1>2. \A u \in Task : task'[u].at = "signing" => task'[u].vault # v
    BY <1>1, TameClaims DEF Keeps, Staged
  <1>3. Keeps(v, a)'
    BY <1>2 DEF Keeps
  <1> QED
    BY <1>3 DEF Owned

LEMMA SignInFailsBinds ==
  ASSUME BindingInv, StoreInv', NEW t \in Task, SignInFails(t)
  PROVE  BindingInv'
  <1>1. UNCHANGED <<token, bound, live, revived, abandoned>>
    BY DEF SignInFails, windows, history
  <1>2. Staged(t) /\ task[t].kind = "connect" /\ task[t].at = "signing" /\ ~HalfWay(t) /\ Inside(t)
    BY DEF SignInFails, Is, Staged, HalfWay, Inside, Gated
  <1>3. Gone(t) /\ task[t].vault \in Vault
    BY <1>2, TaskParts, EndFacts DEF SignInFails, RollBack, TaskFine
  <1>4. CASE UNCHANGED <<config, file>>
    BY <1>1, <1>2, <1>4, EndKeepsAll DEF SignInFails, RollBack
  <1>5. CASE /\ config' = [config EXCEPT ![task[t].vault] = NoRel]
             /\ file' = file \ {task[t].vault}
    <2> DEFINE v == task[t].vault
    <2>1. /\ TaskInv /\ TaskInv' /\ GateInv /\ LiveInv /\ OwnerInv /\ StoreInv /\ TypeOK
          /\ Alone(t) /\ LiveFine(t)
      BY <1>2, InsideAlone DEF BindingInv, StoreInv, LiveInv
    <2>2. KnownInv'
      BY <1>1, <1>2, <1>3, <1>5, UnstageKnown
    <2>3. GateInv'
      BY <1>3, <2>1, GoneGate
    <2>4. /\ Tamed(Task \ {t}) /\ LiveFine(t)' /\ PublishFine(t)' /\ ~Alive(t)' /\ ~Knows(t)'
          /\ task'[t].at # "signing" /\ task'[t].kind # "disconnect"
      BY <1>3, Claimless
    <2>5. config'[v] = NoRel /\ \A w \in Vault : w # v => config'[w] = config[w]
      BY <1>3, <1>5, <2>1 DEF TypeOK
    <2>6. LiveInv'
      <3>1. revived = {} => live[v] = NoRel
        BY <1>2, <2>1 DEF LiveFine
      <3>2. LiveBindingsHold'
        BY <1>1, <2>1, <2>5, <3>1 DEF LiveInv, LiveBindingsHold
      <3>3. DecisionsStand(t)
        BY <1>1 DEF DecisionsStand
      <3> QED
        BY <2>1, <2>4, <3>2, <3>3, LiveAlone
    <2>7. ASSUME revived = {}
          PROVE  (\A w \in Vault : AgreeAt(w)') /\ PublishInv' /\ TokensOwned'
      <3>1. (\A w \in Vault : AgreeAt(w)) /\ PublishInv /\ TokensOwned
        BY <2>1, <2>7 DEF OwnerInv
      <3>2. ASSUME NEW w \in Vault
            PROVE  AgreeAt(w)'
        <4>1. SharePoint(config'[w]) =>
                config'[w] = config[w] \/ (Relates(w, config'[w]) /\ KnownRel(w, config'[w]))
          BY <2>5, StoreAssumption DEF SharePoint, Account_
        <4>2. config'[w] = NoRel \/ KnownRel(w, config'[w])
          BY <2>5 DEF KnownRel
        <4>3. \A p \in App : bound'[p][w] = NoRel \/ KnownRel(w, bound'[p][w])
          BY <1>1 DEF KnownRel
        <4> QED
          BY <2>1, <2>4, <3>1, <4>1, <4>2, <4>3, AgreeFrame
      <3>3. PublishInv'
        <4>1. ASSUME NEW u \in Task, task[u].kind = "publish"
              PROVE  config'[task[u].vault] = config[task[u].vault]
          <5>1. task[u].vault \in Vault
            BY <2>1, <4>1 DEF TaskInv, TaskFine
          <5>2. task[u].vault # v
            BY <1>2, <4>1, WritersElsewhere
          <5> QED
            BY <2>5, <5>1, <5>2
        <4> QED
          BY <2>1, <2>4, <3>1, <4>1, PublishAlone
      <3>4. ASSUME NEW a \in Account, token'[a] # NoToken
            PROVE  Owned(a)'
        <4>1. Owned(a)
          BY <1>1, <3>1, <3>4 DEF TokensOwned
        <4>2. ASSUME NEW w \in Vault, Keeps(w, a)
              PROVE  Owned(a)'
          <5>1. w # v
            BY <1>2, <4>2 DEF Keeps
          <5> QED
            BY <2>1, <2>4, <2>5, <4>2, <5>1, KeptOwned
        <4> QED
          BY <1>1, <1>2, <2>1, <2>4, <4>1, <4>2, OwnedBy
      <3> QED
        BY <3>2, <3>3, <3>4 DEF TokensOwned
    <2>8. OwnerInv'
      BY <1>1, <2>7 DEF OwnerInv
    <2> QED
      BY <2>2, <2>3, <2>6, <2>8 DEF BindingInv
  <1> QED
    BY <1>4, <1>5 DEF SignInFails, RollBack
\* What becomes of the decisions.
LEMMA TakesFacts ==
  ASSUME TypeOK, NEW t \in Task, NEW v \in Vault, NEW r \in Remote, Takes(v, r)
  PROVE  /\ DecisionsStand(t)
         /\ \A w \in Vault : w # v => live'[w] = live[w]
         /\ \/ live'[v] = r
            \/ live'[v] = live[v] /\ \E u \in Task : task[u].kind = "disconnect" /\ task[u].vault = v
  <1>1. CASE \E u \in Task : task[u].kind = "disconnect" /\ task[u].vault = v
    BY <1>1 DEF Takes, DecisionsStand
  <1>2. CASE ~\E u \in Task : task[u].kind = "disconnect" /\ task[u].vault = v
    <2>1. live' = [live EXCEPT ![v] = r]
      BY <1>2 DEF Takes
    <2>2. live'[v] = r /\ \A w \in Vault : w # v => live'[w] = live[w]
      BY <2>1 DEF TypeOK
    <2> QED
      BY <1>2, <2>2 DEF DecisionsStand
  <1> QED
    BY <1>1, <1>2

\* A connect is done: from now on it knows its relationship.
LEMMA KnownLanded ==
  ASSUME BindingInv, NEW t \in Task, Staged(t), task[t].vault \in Vault, Moved(t, "landed"),
         UNCHANGED <<file, bound>>
  PROVE  KnownInv'
  <1>1. \A v \in Vault : Unstaged(v) => Unstaged(v)'
    BY MovedStaged DEF Unstaged, StagedLess
  <1>2. ASSUME NEW u \in Task, Knows(u)', u # t
        PROVE  Unstaged(task[u].vault)' /\ task'[u].vault = task[u].vault
    <2>1. task'[u] = task[u]
      BY <1>2 DEF Moved, OthersKept
    <2>2. Unstaged(task[u].vault)
      BY <1>2, <2>1 DEF Knows, Is, BindingInv, KnownInv
    <2>3. task[u].vault \in Vault
      BY <2>2, TypeParts DEF Unstaged, BindingInv, StoreInv
    <2> QED
      BY <1>1, <2>1, <2>2, <2>3
  <1>3. Unstaged(task[t].vault)' /\ task'[t].vault = task[t].vault
    <2>1. task[t].vault \in file
      BY DEF BindingInv, StoreInv, StagedInv
    <2>2. \A u \in Task \ {t} : Staged(u) => task[u].vault # task[t].vault
      BY DEF BindingInv, StoreInv, StagedInv
    <2>3. task'[t].at = "landed" /\ task'[t].vault = task[t].vault
      BY DEF Moved, SameTask
    <2>4. \A u \in Task : Staged(u)' => u # t /\ task'[u].vault # task[t].vault
      BY <2>2, <2>3 DEF Moved, OthersKept, Staged
    <2> QED
      BY <2>1, <2>3, <2>4 DEF Unstaged
  <1> QED
    BY <1>1, <1>2, <1>3 DEF BindingInv, KnownInv

LEMMA SaveBindingBinds ==
  ASSUME BindingInv, StoreInv', NEW t \in Task, SaveBinding(t)
  PROVE  BindingInv'
  <1> DEFINE v == task[t].vault
             r == task[t].rel
  <1>1. /\ UNCHANGED <<token, file, bound, revived, abandoned>>
        /\ config[v] = NoRel /\ config' = [config EXCEPT ![v] = r]
    BY DEF SaveBinding, windows
  <1>2. Staged(t) /\ task[t].kind = "connect" /\ task[t].at = "binding" /\ ~HalfWay(t) /\ Inside(t)
    BY DEF SaveBinding, Is, Staged, HalfWay, Inside, Gated
  <1>3. /\ TaskInv /\ TaskInv' /\ GateInv /\ LiveInv /\ KnownInv /\ OwnerInv /\ StoreInv /\ TypeOK
        /\ Alone(t)
    BY <1>2, InsideAlone DEF BindingInv, StoreInv
  <1>4. v \in Vault /\ r \in Remote
    BY <1>2, <1>3, TaskParts DEF TaskFine, GateInv, RemoteFine
  <1>5. \/ SharePoint(r) /\ MoveTo(t, "signing") /\ live' = live
        \/ ~SharePoint(r) /\ MoveTo(t, "landed") /\ Takes(v, r)
    BY DEF SaveBinding
  <1>6. PICK place \in {"signing", "landed"} :
          /\ Moved(t, place)
          /\ place = "signing" => SharePoint(r) /\ live' = live
          /\ place = "landed" => ~SharePoint(r) /\ Takes(v, r)
    BY <1>5, TaskParts, MoveFacts DEF Place
  <1>7. /\ task'[t].kind = "connect" /\ task'[t].at = place
        /\ task'[t].vault = v /\ task'[t].rel = r
    BY <1>2, <1>6 DEF Moved, SameTask
  <1>8. Tamed(Task \ {t}) /\ PublishFine(t)' /\ ~Alive(t)' /\ (Knows(t)' => task'[t].vault = v)
    BY <1>6, <1>7, OthersTame DEF Moved, PublishFine, Alive
  <1>9. config'[v] = r /\ \A w \in Vault : w # v => config'[w] = config[w]
    BY <1>1, <1>3, <1>4 DEF TypeOK
  <1>10. GateInv'
    BY <1>2, <1>3, <1>6, MovedGate
  <1>11. LiveInv'
    <2>1. revived = {} => live[v] = NoRel
      BY <1>1, <1>3, <1>4 DEF LiveInv, LiveBindingsHold
    <2>2. /\ DecisionsStand(t)
          /\ \A w \in Vault : w # v => live'[w] = live[w]
          /\ live'[v] = live[v] \/ (live'[v] = r /\ ~SharePoint(r))
      BY <1>3, <1>4, <1>6, TakesFacts DEF DecisionsStand
    <2>3. LiveBindingsHold'
      BY <1>1, <1>3, <1>9, <2>1, <2>2 DEF LiveInv, LiveBindingsHold, SharePoint, Account_
    <2>4. LiveFine(t)'
      BY <1>1, <1>6, <1>7, <1>9, <2>1 DEF LiveFine, Is
    <2> QED
      BY <1>3, <1>8, <2>2, <2>3, <2>4, LiveAlone
  <1>12. KnownInv'
    <2>1. CASE place = "landed"
      BY <1>1, <1>2, <1>4, <1>6, <2>1, KnownLanded
    <2>2. CASE place = "signing"
      <3>1. ~Knows(t)'
        BY <1>7, <2>2 DEF Knows, Is
      <3>2. StagedLess
        BY <1>2, <1>6, <1>7 DEF StagedLess, Moved, OthersKept, Staged
      <3>3. BoundLess
        BY <1>1, SameBound
      <3> QED
        BY <1>1, <1>3, <1>8, <3>1, <3>2, <3>3, OldBound, KnownFrame
    <2> QED
      BY <2>1, <2>2
  <1>13. ASSUME revived = {}
         PROVE  (\A w \in Vault : AgreeAt(w)') /\ PublishInv' /\ TokensOwned'
    <2>1. (\A w \in Vault : AgreeAt(w)) /\ PublishInv /\ TokensOwned
      BY <1>3, <1>13 DEF OwnerInv
    <2>2. /\ \A u \in Task : Knows(u) => task[u].vault # v
          /\ \A p \in App : bound[p][v] = NoRel
          /\ ~AliveAt(v)
          /\ \A u \in Task : task[u].kind \in {"publish", "reconnect"} => task[u].vault # v
      BY <1>2, <1>4, StagedUnknown
    <2>3. ASSUME NEW w \in Vault, w # v
          PROVE  AgreeAt(w)'
      <3>1. \A p \in App : bound'[p][w] = NoRel \/ KnownRel(w, bound'[p][w])
        BY <1>1 DEF KnownRel
      <3>2. AgreeAt(w) /\ config'[w] = config[w]
        BY <1>9, <2>1, <2>3
      <3> QED
        BY <1>3, <1>7, <1>8, <2>3, <3>1, <3>2, AgreeQuiet
    <2>4. ASSUME NEW w \in Vault, w = v
          PROVE  AgreeAt(w)'
      <3>1. \A u \in Task \ {t} : TaskFine(u)' /\ Tame(u)
        BY <1>3, <1>8 DEF TaskInv, Tamed
      <3>2. \A u \in Task : ~(Alive(u)' /\ task'[u].vault = v)
        BY <1>8, <2>2, <3>1, TameClaims DEF AliveAt
      <3>3. \A u \in Task \ {t} : ~(Knows(u)' /\ task'[u].vault = v)
        BY <2>2, <3>1 DEF Tame
      <3>4. ASSUME NEW q \in Remote, Relates(w, q)'
            PROVE  AgreeOn(w, q)'
        <4>1. q = r
          BY <1>9, <2>4, <3>2, <3>4 DEF Relates
        <4>2. config'[w] \in {NoRel, q}
          BY <1>9, <2>4, <4>1
        <4>3. \A p \in App : bound'[p][w] \in {NoRel, q}
          BY <1>1, <2>2, <2>4
        <4>4. \A u \in Task : Knows(u)' /\ task'[u].vault = w => task'[u].rel = q
          BY <1>7, <2>4, <3>3, <4>1
        <4> QED
          BY <4>2, <4>3, <4>4 DEF AgreeOn
      <3> QED
        BY <3>4 DEF AgreeAt
    <2>5. PublishInv'
      <3>1. \A u \in Task : task[u].kind = "publish" => config'[task[u].vault] = config[task[u].vault]
        BY <1>3, <1>9, <2>2 DEF TaskInv, TaskFine
      <3> QED
        BY <1>3, <1>7, <1>8, <2>1, <3>1, PublishAlone
    <2>6. ASSUME NEW a \in Account, token'[a] # NoToken
          PROVE  Owned(a)'
      <3>1. Owned(a)
        BY <1>1, <2>1, <2>6 DEF TokensOwned
      <3>2. ASSUME NEW w \in Vault, Keeps(w, a)
            PROVE  Owned(a)'
        <4>1. w # v
          BY <1>1, <3>2, StoreAssumption DEF Keeps, Account_
        <4> QED
          BY <1>3, <1>7, <1>8, <1>9, <3>2, <4>1, KeptOwned
      <3> QED
        BY <1>1, <1>2, <1>3, <1>8, <3>1, <3>2, OwnedBy
    <2> QED
      BY <2>3, <2>4, <2>5, <2>6 DEF TokensOwned
  <1>14. OwnerInv'
    BY <1>1, <1>13 DEF OwnerInv
  <1> QED
    BY <1>10, <1>11, <1>12, <1>14 DEF BindingInv

\* A sign-in is stored.
LEMMA SignedIn ==
  ASSUME TypeOK, NEW t \in Task, NEW r \in Remote, SharePoint(r),
         token' = [token EXCEPT ![AccountOf[r]] = [signIn |-> t, by |-> t]]
  PROVE  /\ AccountOf[r] \in Account /\ token'[AccountOf[r]] # NoToken
         /\ \A a \in Account : a # AccountOf[r] => token'[a] = token[a]
  <1>1. AccountOf[r] \in Account
    BY StoreAssumption DEF SharePoint, Account_
  <1>2. [signIn |-> t, by |-> t] # NoToken
    BY StoreAssumption
  <1> QED
    BY <1>1, <1>2 DEF TypeOK

LEMMA StoreSignInBinds ==
  ASSUME BindingInv, StoreInv', NEW t \in Task, StoreSignIn(t)
  PROVE  BindingInv'
  <1> DEFINE v == task[t].vault
             r == task[t].rel
  <1>1. /\ UNCHANGED <<config, file, bound, revived, abandoned>> /\ Takes(v, r)
        /\ token' = [token EXCEPT ![AccountOf[r]] = [signIn |-> t, by |-> t]]
    BY DEF StoreSignIn, windows
  <1>2. Staged(t) /\ task[t].kind = "connect" /\ task[t].at = "signing" /\ ~HalfWay(t) /\ Inside(t)
    BY DEF StoreSignIn, Is, Staged, HalfWay, Inside, Gated
  <1>3. /\ TaskInv /\ TaskInv' /\ GateInv /\ LiveInv /\ OwnerInv /\ StoreInv /\ TypeOK
        /\ Alone(t)
    BY <1>2, InsideAlone DEF BindingInv, StoreInv
  <1>4. v \in Vault /\ r \in Remote /\ SharePoint(r)
    BY <1>2, <1>3, TaskParts DEF TaskFine, GateInv, RemoteFine
  <1>5. Moved(t, "landed")
    BY TaskParts, MoveFacts DEF StoreSignIn, Place
  <1>6. /\ task'[t].kind = "connect" /\ task'[t].at = "landed"
        /\ task'[t].vault = v /\ task'[t].rel = r
    BY <1>2, <1>5 DEF Moved, SameTask
  <1>7. Tamed(Task \ {t}) /\ PublishFine(t)' /\ ~Alive(t)'
    BY <1>5, <1>6, OthersTame DEF Moved, PublishFine, Alive
  <1>8. /\ AccountOf[r] \in Account /\ token'[AccountOf[r]] # NoToken
        /\ \A a \in Account : a # AccountOf[r] => token'[a] = token[a]
    BY <1>1, <1>3, <1>4, SignedIn
  <1>9. revived = {} => config[v] = r
    BY <1>2, <1>3 DEF LiveInv, LiveFine
  <1>10. GateInv'
    BY <1>2, <1>3, <1>5, MovedGate
  <1>11. LiveInv'
    <2>1. /\ DecisionsStand(t)
          /\ \A w \in Vault : w # v => live'[w] = live[w]
          /\ live'[v] = live[v] \/ live'[v] = r
      BY <1>1, <1>3, <1>4, TakesFacts
    <2>2. ASSUME revived = {}, NEW w \in Vault, live'[w] # NoRel
          PROVE  config'[w] = live'[w] /\ (SharePoint(live'[w]) => token'[AccountOf[live'[w]]] # NoToken)
      <3>1. CASE w = v /\ live'[v] = r
        BY <1>1, <1>8, <1>9, <2>2, <3>1
      <3>2. CASE live'[w] = live[w]
        <4>1. config[w] = live[w] /\ (SharePoint(live[w]) => token[AccountOf[live[w]]] # NoToken)
          BY <1>3, <2>2, <3>2 DEF LiveInv, LiveBindingsHold
        <4>2. SharePoint(live[w]) => AccountOf[live[w]] \in Account
          BY <1>3, StoreAssumption DEF TypeOK, SharePoint, Account_
        <4> QED
          BY <1>1, <1>8, <3>2, <4>1, <4>2
      <3> QED
        BY <2>1, <3>1, <3>2
    <2>3. LiveBindingsHold'
      BY <1>1, <2>2 DEF LiveBindingsHold, SharePoint, Account_
    <2>4. LiveFine(t)'
      BY <1>6 DEF LiveFine, Is
    <2> QED
      BY <1>3, <1>7, <2>1, <2>3, <2>4, LiveAlone
  <1>12. KnownInv'
    BY <1>1, <1>2, <1>4, <1>5, KnownLanded
  <1>13. ASSUME revived = {}
         PROVE  (\A w \in Vault : AgreeAt(w)') /\ PublishInv' /\ TokensOwned'
    <2>1. (\A w \in Vault : AgreeAt(w)) /\ PublishInv /\ TokensOwned
      BY <1>3, <1>13 DEF OwnerInv
    <2>2. ASSUME NEW w \in Vault
          PROVE  AgreeAt(w)'
      <3>1. \A p \in App : bound'[p][w] = NoRel \/ KnownRel(w, bound'[p][w])
        BY <1>1 DEF KnownRel
      <3>2. Knows(t)' /\ task'[t].vault = w => KnownRel(w, task'[t].rel)
        BY <1>6, <1>9, <1>13 DEF KnownRel
      <3>3. AgreeAt(w) /\ config'[w] = config[w]
        BY <1>1, <2>1
      <3> QED
        BY <1>3, <1>7, <3>1, <3>2, <3>3, AgreeQuiet
    <2>3. PublishInv'
      BY <1>1, <1>3, <1>6, <1>7, <2>1, PublishAlone
    <2>4. ASSUME NEW a \in Account, token'[a] # NoToken
          PROVE  Owned(a)'
      <3>1. CASE a = AccountOf[r]
        <4>1. Account_(config'[v]) = a
          BY <1>1, <1>4, <1>9, <1>13, <3>1, StoreAssumption DEF Account_
        <4> QED
          BY <1>3, <1>4, <1>6, <1>7, <4>1, KeepsTokens
      <3>2. CASE a # AccountOf[r]
        <4>1. Owned(a)
          BY <1>8, <2>1, <2>4, <3>2 DEF TokensOwned
        <4> QED
          BY <1>1, <1>2, <1>3, <1>6, <1>7, <4>1, OwnedFrame
      <3> QED
        BY <3>1, <3>2
    <2> QED
      BY <2>2, <2>3, <2>4 DEF TokensOwned
  <1>14. OwnerInv'
    BY <1>1, <1>13 DEF OwnerInv
  <1> QED
    BY <1>10, <1>11, <1>12, <1>14 DEF BindingInv
-----------------------------------------------------------------------------
(* Publishing, reconnecting, disconnecting. *)

LEMMA StoreReconnectBinds ==
  ASSUME BindingInv, StoreInv', NEW t \in Task, StoreReconnect(t)
  PROVE  BindingInv'
  <1> DEFINE r == task[t].rel
  <1>1. /\ UNCHANGED <<config, file, bound, live, revived, abandoned>>
        /\ token' = [token EXCEPT ![AccountOf[r]] = [signIn |-> t, by |-> t]]
    BY DEF StoreReconnect, windows, history
  <1>2. task[t].kind = "reconnect" /\ task[t].at = "storing" /\ ~HalfWay(t) /\ Inside(t) /\ Alive(t)
    BY DEF StoreReconnect, Is, HalfWay, Inside, Gated, Alive
  <1>3. /\ TaskInv /\ TaskInv' /\ GateInv /\ LiveInv /\ KnownInv /\ OwnerInv /\ StoreInv /\ TypeOK
        /\ Alone(t)
    BY <1>2, InsideAlone DEF BindingInv, StoreInv
  <1>4. r \in Remote /\ SharePoint(r)
    BY <1>2, <1>3, TaskParts, StoreAssumption
    DEF GateInv, RemoteFine, TaskRecord, SharePoint, Account_
  <1>5. Moved(t, "saving")
    BY TaskParts, MoveFacts DEF StoreReconnect, Place
  <1>6. /\ task'[t].kind = "reconnect" /\ task'[t].at = "saving"
        /\ task'[t].vault = task[t].vault /\ task'[t].rel = r
    BY <1>2, <1>5 DEF Moved, SameTask
  <1>7. Tamed(Task \ {t}) /\ PublishFine(t)' /\ StagedLess
    BY <1>5, <1>6, OthersTame, MovedStaged DEF Moved, PublishFine
  <1>8. /\ AccountOf[r] \in Account /\ token'[AccountOf[r]] # NoToken
        /\ \A a \in Account : a # AccountOf[r] => token'[a] = token[a]
    BY <1>1, <1>3, <1>4, SignedIn
  <1>9. Knows(t)' => Unstaged(task'[t].vault) /\ KnownRel(task'[t].vault, task'[t].rel)
    BY <1>5, MovedKnows
  <1>10. GateInv'
    BY <1>2, <1>3, <1>5, MovedGate
  <1>11. LiveInv'
    <2>1. LiveBindingsHold'
      <3>1. \A w \in Vault : SharePoint(live[w]) => AccountOf[live[w]] \in Account
        BY <1>3, StoreAssumption DEF TypeOK, SharePoint, Account_
      <3> QED
        BY <1>1, <1>3, <1>8, <3>1, LiveTokens DEF LiveInv
    <2>2. LiveFine(t)'
      BY <1>6, <1>8 DEF LiveFine, Is
    <2>3. DecisionsStand(t)
      BY <1>1 DEF DecisionsStand
    <2> QED
      BY <1>3, <1>7, <2>1, <2>2, <2>3, LiveAlone
  <1>12. BoundLess
    BY <1>1, SameBound
  <1>13. KnownInv'
    BY <1>1, <1>3, <1>7, <1>9, <1>12, OldBound, KnownFrame
  <1>14. ASSUME revived = {}
         PROVE  (\A w \in Vault : AgreeAt(w)') /\ PublishInv' /\ TokensOwned'
    <2>1. (\A w \in Vault : AgreeAt(w)) /\ PublishInv /\ TokensOwned
      BY <1>3, <1>14 DEF OwnerInv
    <2>2. ASSUME NEW w \in Vault
          PROVE  AgreeAt(w)'
      <3>1. \A p \in App : bound'[p][w] = NoRel \/ KnownRel(w, bound'[p][w])
        BY <1>12, OldBound
      <3>2. Knows(t)' /\ task'[t].vault = w => KnownRel(w, task'[t].rel)
        BY <1>9
      <3>3. Alive(t)' /\ task'[t].vault = w => Relates(w, task'[t].rel)
        BY <1>2, <1>6 DEF Relates
      <3>4. AgreeAt(w) /\ config'[w] = config[w]
        BY <1>1, <2>1
      <3> QED
        BY <1>3, <1>7, <3>1, <3>2, <3>3, <3>4, AgreeQuiet
    <2>3. PublishInv'
      BY <1>1, <1>3, <1>6, <1>7, <2>1, PublishAlone
    <2>4. ASSUME NEW a \in Account, token'[a] # NoToken
          PROVE  Owned(a)'
      <3>1. CASE a = AccountOf[r]
        <4>1. HalfWay(t)' /\ Account_(task'[t].rel) = a
          BY <1>4, <1>6, <3>1, StoreAssumption DEF HalfWay, Is, Account_
        <4> QED
          BY <4>1 DEF Owned
      <3>2. CASE a # AccountOf[r]
        <4>1. Owned(a)
          BY <1>8, <2>1, <2>4, <3>2 DEF TokensOwned
        <4> QED
          BY <1>1, <1>2, <1>3, <1>6, <1>7, <4>1, OwnedFrame
      <3> QED
        BY <3>1, <3>2
    <2> QED
      BY <2>2, <2>3, <2>4 DEF TokensOwned
  <1>15. OwnerInv'
    BY <1>1, <1>14 DEF OwnerInv
  <1> QED
    BY <1>10, <1>11, <1>13, <1>15 DEF BindingInv

LEMMA SaveConfigBinds ==
  ASSUME BindingInv, StoreInv', NEW t \in Task, SaveConfig(t)
  PROVE  BindingInv'
  <1> DEFINE v == task[t].vault
             r == task[t].rel
  <1>1. /\ UNCHANGED <<token, file, bound, revived, abandoned>> /\ Takes(v, r)
        /\ config' = [config EXCEPT ![v] = r]
    BY DEF SaveConfig, windows
  <1>2. task[t].kind \in {"publish", "reconnect"} /\ task[t].at = "saving" /\ Inside(t)
    BY DEF SaveConfig, Is, Inside, Gated
  <1>3. /\ TaskInv /\ TaskInv' /\ GateInv /\ LiveInv /\ KnownInv /\ OwnerInv /\ StoreInv /\ TypeOK
        /\ Alone(t) /\ LiveFine(t) /\ RemoteFine(t)
    BY <1>2, InsideAlone DEF BindingInv, StoreInv, LiveInv, GateInv
  <1>4. /\ v \in Vault /\ r \in Remote /\ r # NoRel
        /\ task[t].kind = "reconnect" <=> SharePoint(r)
    BY <1>2, <1>3, TaskParts, StoreAssumption
    DEF RemoteFine, TaskFine, TaskRecord, SharePoint, Account_
  <1>5. Moved(t, "landed")
    BY TaskParts, MoveFacts DEF SaveConfig, Place
  <1>6. /\ task'[t].kind = task[t].kind /\ task'[t].at = "landed"
        /\ task'[t].vault = v /\ task'[t].rel = r /\ task'[t].current = task[t].current
    BY <1>2, <1>5 DEF Moved, SameTask
  <1>7. Tamed(Task \ {t}) /\ StagedLess /\ ~Alive(t)'
    BY <1>5, <1>6, OthersTame, MovedStaged DEF Moved, Alive
  <1>8. config'[v] = r /\ \A w \in Vault : w # v => config'[w] = config[w]
    BY <1>1, <1>3, <1>4 DEF TypeOK
  <1>9. Knows(t)' => Unstaged(task'[t].vault) /\ KnownRel(task'[t].vault, task'[t].rel)
    BY <1>2, <1>5, MovedKnows
  <1>10. GateInv'
    BY <1>2, <1>3, <1>5, MovedGate
  <1>11. BoundLess
    BY <1>1, SameBound
  <1>12. KnownInv'
    BY <1>1, <1>3, <1>7, <1>9, <1>11, OldBound, KnownFrame
  <1>13. LiveInv'
    <2>1. /\ DecisionsStand(t)
          /\ \A w \in Vault : w # v => live'[w] = live[w]
          /\ \/ live'[v] = r
             \/ live'[v] = live[v] /\ \E u \in Task : task[u].kind = "disconnect" /\ task[u].vault = v
      BY <1>1, <1>3, <1>4, TakesFacts
    <2>2. live'[v] \in {NoRel, r}
      BY <1>3, <2>1 DEF LiveInv, LiveFine
    <2>3. SharePoint(r) => token[AccountOf[r]] # NoToken
      BY <1>2, <1>3, <1>4 DEF LiveFine, Is
    <2>4. ASSUME revived = {}, NEW w \in Vault, live'[w] # NoRel
          PROVE  config'[w] = live'[w] /\ (SharePoint(live'[w]) => token'[AccountOf[live'[w]]] # NoToken)
      <3>1. CASE w = v
        BY <1>1, <1>8, <2>2, <2>3, <2>4, <3>1
      <3>2. CASE w # v
        BY <1>1, <1>3, <1>8, <2>1, <2>4, <3>2 DEF LiveInv, LiveBindingsHold
      <3> QED
        BY <3>1, <3>2
    <2>5. LiveBindingsHold'
      BY <1>1, <2>4 DEF LiveBindingsHold, SharePoint, Account_
    <2>6. LiveFine(t)'
      BY <1>2, <1>6 DEF LiveFine, Is
    <2> QED
      BY <1>3, <1>7, <2>1, <2>5, <2>6, LiveAlone
  <1>14. ASSUME revived = {}
         PROVE  (\A w \in Vault : AgreeAt(w)') /\ PublishInv' /\ TokensOwned'
    <2>1. (\A w \in Vault : AgreeAt(w)) /\ PublishInv /\ TokensOwned /\ PublishFine(t)
      BY <1>3, <1>14 DEF OwnerInv, PublishInv
    <2>2. CASE task[t].kind = "publish"
      <3>1. config[v] = NoRel /\ ~AliveAt(v) /\ ~SharePoint(r) /\ ~HalfWay(t) /\ ~Knows(t)'
        BY <1>2, <1>4, <1>6, <2>1, <2>2 DEF PublishFine, HalfWay, Is, Knows
      <3>2. \A w \in Vault : AliveAt(w)' => AliveAt(w)
        <4>1. \A u \in Task \ {t} : TaskFine(u)' /\ Tame(u)
          BY <1>3, <1>7 DEF TaskInv, Tamed
        <4> QED
          BY <1>7, <4>1, TameClaims DEF AliveAt
      <3>3. ASSUME NEW w \in Vault
            PROVE  AgreeAt(w)'
        <4>1. \A p \in App : bound'[p][w] = NoRel \/ KnownRel(w, bound'[p][w])
          BY <1>11, OldBound
        <4>2. AgreeAt(w)
          BY <2>1
        <4>3. SharePoint(config'[w]) =>
                config'[w] = config[w] \/ (Relates(w, config'[w]) /\ KnownRel(w, config'[w]))
          BY <1>8, <3>1
        <4>4. AliveAt(w)' => config'[w] = NoRel \/ KnownRel(w, config'[w])
          BY <1>8, <3>1, <3>2 DEF KnownRel
        <4> QED
          BY <1>3, <1>7, <3>1, <4>1, <4>2, <4>3, <4>4, AgreeFrame
      <3>4. PublishFine(t)'
        <4>1. \A u \in Task : task'[u].kind = "disconnect" => task[u].kind = "disconnect" /\ task'[u].vault = task[u].vault
          BY <1>6, <1>5, <2>2 DEF Moved, OthersKept
        <4> QED
          BY <1>2, <1>6, <1>8, <2>1, <2>2, <4>1 DEF PublishFine
      <3>5. PublishInv'
        <4>1. ASSUME NEW u \in Task \ {t}, task[u].kind = "publish", task[u].at = "landed",
                     task[u].current
              PROVE  config'[task[u].vault] = config[task[u].vault]
          <5>1. task[u].vault \in Vault /\ config[task[u].vault] = task[u].rel /\ task[u].rel \in Remote
            BY <1>3, <2>1, <4>1 DEF TaskInv, TaskFine, PublishInv, PublishFine, GateInv, RemoteFine
          <5>2. task[u].vault # v
            BY <3>1, <5>1, StoreAssumption
          <5> QED
            BY <1>8, <5>1, <5>2
        <4> QED
          BY <1>3, <1>6, <1>7, <2>1, <2>2, <3>4, <4>1, PublishAlone
      <3>6. ASSUME NEW a \in Account, token'[a] # NoToken
            PROVE  Owned(a)'
        <4>1. Owned(a)
          BY <1>1, <2>1, <3>6 DEF TokensOwned
        <4>2. ASSUME NEW w \in Vault, Keeps(w, a)
              PROVE  Owned(a)'
          <5>1. w # v
            BY <3>1, <4>2, StoreAssumption DEF Keeps, Account_
          <5> QED
            BY <1>3, <1>6, <1>7, <1>8, <4>2, <5>1, KeptOwned
        <4> QED
          BY <1>1, <1>3, <1>7, <3>1, <4>1, <4>2, OwnedBy
      <3> QED
        BY <3>3, <3>5, <3>6 DEF TokensOwned
    <2>3. CASE task[t].kind = "reconnect"
      <3>1. /\ SharePoint(r) /\ Alive(t) /\ Knows(t)
            /\ Relates(v, r) /\ KnownRel(v, r)
        BY <1>2, <1>4, <2>3 DEF Alive, Knows, Relates, KnownRel
      <3>2. config[v] \in {NoRel, r}
        BY <1>4, <2>1, <3>1 DEF AgreeAt, AgreeOn
      <3>3. ASSUME NEW w \in Vault
            PROVE  AgreeAt(w)'
        <4>1. \A p \in App : bound'[p][w] = NoRel \/ KnownRel(w, bound'[p][w])
          BY <1>11, OldBound
        <4>2. AgreeAt(w)
          BY <2>1
        <4>3. SharePoint(config'[w]) =>
                config'[w] = config[w] \/ (Relates(w, config'[w]) /\ KnownRel(w, config'[w]))
          BY <1>8, <3>1
        <4>4. config'[w] = NoRel \/ KnownRel(w, config'[w])
          BY <1>8, <3>1 DEF KnownRel
        <4>5. Knows(t)' /\ task'[t].vault = w => KnownRel(w, task'[t].rel)
          BY <1>9
        <4> QED
          BY <1>3, <1>7, <4>1, <4>2, <4>3, <4>4, <4>5, AgreeFrame
      <3>4. PublishInv'
        <4>1. PublishFine(t)'
          BY <1>6, <2>3 DEF PublishFine
        <4>2. ASSUME NEW u \in Task \ {t}, task[u].kind = "publish", task[u].at = "landed",
                     task[u].current
              PROVE  config'[task[u].vault] = config[task[u].vault]
          <5>1. /\ task[u].vault \in Vault /\ config[task[u].vault] = task[u].rel
                /\ task[u].rel \in Remote /\ ~SharePoint(task[u].rel)
            BY <1>3, <2>1, <4>2 DEF TaskInv, TaskFine, PublishInv, PublishFine, GateInv, RemoteFine
          <5>2. task[u].vault # v
            BY <3>1, <3>2, <5>1, StoreAssumption
          <5> QED
            BY <1>8, <5>1, <5>2
        <4> QED
          BY <1>3, <1>6, <1>7, <2>1, <2>3, <4>1, <4>2, PublishAlone
      <3>5. ASSUME NEW a \in Account, token'[a] # NoToken
            PROVE  Owned(a)'
        <4>1. Owned(a)
          BY <1>1, <2>1, <3>5 DEF TokensOwned
        <4>2. ASSUME NEW w \in Vault, Keeps(w, a)
              PROVE  Owned(a)'
          <5>1. config'[w] = config[w]
            BY <1>8, <3>2, <4>2, StoreAssumption DEF Keeps, Account_
          <5> QED
            BY <1>3, <1>6, <1>7, <4>2, <5>1, KeptOwned
        <4>3. Account_(r) = a => Owned(a)'
          <5>1. Account_(config'[v]) = Account_(r)
            BY <1>8
          <5> QED
            BY <1>3, <1>4, <1>6, <1>7, <5>1, KeepsTokens
        <4> QED
          BY <1>1, <1>3, <1>7, <4>1, <4>2, <4>3, OwnedBy
      <3> QED
        BY <3>3, <3>4, <3>5 DEF TokensOwned
    <2> QED
      BY <1>2, <2>2, <2>3
  <1>15. OwnerInv'
    BY <1>1, <1>14 DEF OwnerInv
  <1> QED
    BY <1>10, <1>12, <1>13, <1>15 DEF BindingInv
LEMMA DeleteConfigBinds ==
  ASSUME BindingInv, StoreInv', NEW t \in Task, DeleteConfig(t)
  PROVE  BindingInv'
  <1> DEFINE v == task[t].vault
  <1>1. /\ UNCHANGED <<token, file, bound, live, revived, abandoned>>
        /\ config' = [config EXCEPT ![v] = NoRel]
    BY DEF DeleteConfig, windows, history
  <1>2. task[t].kind = "disconnect" /\ task[t].at = "deleting" /\ Inside(t)
    BY DEF DeleteConfig, Is, Inside, Gated
  <1>3. /\ TaskInv /\ TaskInv' /\ GateInv /\ LiveInv /\ KnownInv /\ OwnerInv /\ StoreInv /\ TypeOK
        /\ Alone(t) /\ LiveFine(t) /\ RemoteFine(t)
    BY <1>2, InsideAlone DEF BindingInv, StoreInv, LiveInv, GateInv
  <1>4. v \in Vault /\ task[t].rel \in Remote /\ task[t].rel # NoRel
    BY <1>2, <1>3, StoreAssumption DEF RemoteFine, TaskInv, TaskFine
  <1>5. Moved(t, "scanning")
    BY TaskParts, MoveFacts DEF DeleteConfig, Place
  <1>6. /\ task'[t].kind = "disconnect" /\ task'[t].at = "scanning"
        /\ task'[t].vault = v /\ task'[t].rel = task[t].rel
    BY <1>2, <1>5 DEF Moved, SameTask
  <1>7. Tamed(Task \ {t}) /\ StagedLess /\ ~Alive(t)' /\ PublishFine(t)' /\ HalfWay(t)'
    BY <1>5, <1>6, OthersTame, MovedStaged DEF Moved, Alive, PublishFine, HalfWay
  <1>8. config'[v] = NoRel /\ \A w \in Vault : w # v => config'[w] = config[w]
    BY <1>1, <1>3, <1>4 DEF TypeOK
  <1>9. Knows(t)' => Unstaged(task'[t].vault) /\ KnownRel(task'[t].vault, task'[t].rel)
    BY <1>5, MovedKnows
  <1>10. GateInv'
    BY <1>2, <1>3, <1>5, MovedGate
  <1>11. BoundLess
    BY <1>1, SameBound
  <1>12. KnownInv'
    BY <1>1, <1>3, <1>7, <1>9, <1>11, OldBound, KnownFrame
  <1>13. LiveInv'
    <2>1. live[v] = NoRel
      BY <1>2, <1>3 DEF LiveFine
    <2>2. LiveBindingsHold'
      BY <1>1, <1>3, <1>8, <2>1 DEF LiveInv, LiveBindingsHold
    <2>3. LiveFine(t)'
      BY <1>1, <1>6, <2>1 DEF LiveFine, Is
    <2>4. DecisionsStand(t)
      BY <1>1 DEF DecisionsStand
    <2> QED
      BY <1>3, <1>7, <2>2, <2>3, <2>4, LiveAlone
  <1>14. ASSUME revived = {}
         PROVE  (\A w \in Vault : AgreeAt(w)') /\ PublishInv' /\ TokensOwned'
    <2>1. (\A w \in Vault : AgreeAt(w)) /\ PublishInv /\ TokensOwned
      BY <1>3, <1>14 DEF OwnerInv
    <2>2. ASSUME NEW w \in Vault
          PROVE  AgreeAt(w)'
      <3>1. \A p \in App : bound'[p][w] = NoRel \/ KnownRel(w, bound'[p][w])
        BY <1>11, OldBound
      <3>2. Knows(t)' /\ task'[t].vault = w => KnownRel(w, task'[t].rel)
        BY <1>9
      <3>3. SharePoint(config'[w]) =>
              config'[w] = config[w] \/ (Relates(w, config'[w]) /\ KnownRel(w, config'[w]))
        BY <1>8, StoreAssumption DEF SharePoint, Account_
      <3>4. config'[w] = NoRel \/ KnownRel(w, config'[w])
        BY <1>8 DEF KnownRel
      <3>5. AgreeAt(w)
        BY <2>1
      <3> QED
        BY <1>3, <1>7, <3>1, <3>2, <3>3, <3>4, <3>5, AgreeFrame
    <2>3. PublishInv'
      <3>1. ASSUME NEW u \in Task \ {t}, task[u].kind = "publish", task[u].at = "landed",
                   task[u].current
            PROVE  config'[task[u].vault] = config[task[u].vault]
        <4>1. task[u].vault \in Vault /\ task[u].vault # v
          BY <1>2, <1>3, <2>1, <3>1 DEF TaskInv, TaskFine, PublishInv, PublishFine
        <4> QED
          BY <1>8, <4>1
      <3> QED
        BY <1>2, <1>3, <1>6, <1>7, <2>1, <3>1, PublishAlone
    <2>4. ASSUME NEW a \in Account, token'[a] # NoToken
          PROVE  Owned(a)'
      <3>1. Owned(a)
        BY <1>1, <2>1, <2>4 DEF TokensOwned
      <3>2. ASSUME NEW w \in Vault, Keeps(w, a)
            PROVE  Owned(a)'
        <4>1. CASE w # v
          BY <1>3, <1>6, <1>7, <1>8, <3>2, <4>1, KeptOwned
        <4>2. CASE w = v
          <5>1. Account_(config[v]) = a /\ config[v] \in Remote \cup {NoRel}
            BY <1>3, <1>4, <3>2, <4>2 DEF Keeps, TypeOK
          <5>2. config[v] \in Remote /\ SharePoint(config[v])
            BY <5>1, StoreAssumption DEF SharePoint, Account_
          <5>3. AgreeOn(v, config[v])
            BY <1>4, <2>1, <5>2 DEF AgreeAt, Relates
          <5>4. Knows(t)
            BY <1>2, <1>4 DEF Knows
          <5>5. task[t].rel = config[v]
            BY <5>3, <5>4 DEF AgreeOn
          <5> QED
            BY <1>6, <1>7, <5>1, <5>5 DEF Owned
        <4> QED
          BY <4>1, <4>2
      <3> QED
        BY <1>1, <1>3, <1>6, <1>7, <3>1, <3>2, OwnedBy
    <2> QED
      BY <2>2, <2>3, <2>4 DEF TokensOwned
  <1>15. OwnerInv'
    BY <1>1, <1>14 DEF OwnerInv
  <1> QED
    BY <1>10, <1>12, <1>13, <1>15 DEF BindingInv

LEMMA DeleteTokenBinds ==
  ASSUME BindingInv, StoreInv', NEW t \in Task, DeleteToken(t)
  PROVE  BindingInv'
  <1> DEFINE acc == AccountOf[task[t].rel]
  <1>1. /\ UNCHANGED <<config, file, bound, live, revived, abandoned>>
        /\ token' = [token EXCEPT ![acc] = NoToken]
    BY DEF DeleteToken, windows, history
  <1>2. task[t].kind = "disconnect" /\ task[t].at = "signingOut" /\ Inside(t)
    BY DEF DeleteToken, Is, Inside, Gated
  <1>3. /\ TaskInv /\ TaskInv' /\ GateInv /\ LiveInv /\ KnownInv /\ OwnerInv /\ StoreInv /\ TypeOK
        /\ Alone(t) /\ LiveFine(t) /\ RemoteFine(t)
    BY <1>2, InsideAlone DEF BindingInv, StoreInv, LiveInv, GateInv
  <1>4. Account_(task[t].rel) = acc /\ acc \in Account
    BY <1>2, <1>3, StoreAssumption DEF RemoteFine, SharePoint, Account_
  <1>5. Gone(t)
    BY TaskParts, EndFacts DEF DeleteToken
  <1>6. /\ Tamed(Task \ {t}) /\ StagedLess
        /\ ~Alive(t)' /\ ~Knows(t)' /\ LiveFine(t)' /\ PublishFine(t)'
        /\ task'[t].at # "signing" /\ task'[t].kind # "disconnect"
    BY <1>5, Claimless
  <1>7. token'[acc] = NoToken /\ \A a \in Account : a # acc => token'[a] = token[a]
    BY <1>1, <1>3, <1>4 DEF TypeOK
  <1>8. GateInv'
    BY <1>3, <1>5, GoneGate
  <1>9. BoundLess
    BY <1>1, SameBound
  <1>10. KnownInv'
    BY <1>1, <1>3, <1>6, <1>9, OldBound, KnownFrame
  <1>11. LiveInv'
    <2>1. ASSUME revived = {}, NEW w \in Vault, live[w] # NoRel, SharePoint(live[w])
          PROVE  AccountOf[live[w]] \in Account /\ AccountOf[live[w]] # acc
      <3>1. config[w] = live[w] /\ BoundTo(acc) = {}
        BY <1>2, <1>3, <2>1 DEF LiveInv, LiveBindingsHold, LiveFine
      <3>2. Account_(config[w]) # acc
        BY <3>1 DEF BoundTo
      <3>3. Account_(live[w]) = AccountOf[live[w]]
        BY <2>1 DEF Account_
      <3>4. AccountOf[live[w]] \in Account
        BY <1>3, <2>1, StoreAssumption DEF TypeOK, SharePoint, Account_
      <3> QED
        BY <3>1, <3>2, <3>3, <3>4
    <2>2. LiveBindingsHold'
      BY <1>1, <1>3, <1>7, <2>1, LiveTokens DEF LiveInv
    <2>3. DecisionsStand(t)
      BY <1>1 DEF DecisionsStand
    <2> QED
      BY <1>3, <1>6, <2>2, <2>3, LiveAlone
  <1>12. ASSUME revived = {}
         PROVE  (\A w \in Vault : AgreeAt(w)') /\ PublishInv' /\ TokensOwned'
    <2>1. (\A w \in Vault : AgreeAt(w)) /\ PublishInv /\ TokensOwned
      BY <1>3, <1>12 DEF OwnerInv
    <2>2. ASSUME NEW w \in Vault
          PROVE  AgreeAt(w)'
      <3>1. \A p \in App : bound'[p][w] = NoRel \/ KnownRel(w, bound'[p][w])
        BY <1>9, OldBound
      <3>2. AgreeAt(w) /\ config'[w] = config[w]
        BY <1>1, <2>1
      <3> QED
        BY <1>3, <1>6, <3>1, <3>2, AgreeQuiet
    <2>3. PublishInv'
      BY <1>1, <1>3, <1>6, <2>1, PublishAlone
    <2>4. ASSUME NEW a \in Account, token'[a] # NoToken
          PROVE  Owned(a)'
      <3>1. a # acc /\ Owned(a)
        BY <1>7, <2>1, <2>4 DEF TokensOwned
      <3> QED
        BY <1>1, <1>3, <1>4, <1>6, <3>1, OwnedFrame
    <2> QED
      BY <2>2, <2>3, <2>4 DEF TokensOwned
  <1>13. OwnerInv'
    BY <1>1, <1>12 DEF OwnerInv
  <1> QED
    BY <1>8, <1>10, <1>11, <1>13 DEF BindingInv

-----------------------------------------------------------------------------
(* Refreshing a token, writing a configuration back. *)

LEMMA ExchangeBinds ==
  ASSUME BindingInv, StoreInv', NEW t \in Task, Exchange(t)
  PROVE  BindingInv'
  <1> DEFINE acc == AccountOf[task[t].rel]
  <1>1. UNCHANGED <<config, file, bound, live, revived, abandoned>>
    BY DEF Exchange, windows, history
  <1>2. task[t].kind \in {"restore", "sync", "cli"} /\ ~HalfWay(t)
    BY ReaderKinds DEF Exchange
  <1>3. Fetched(t, NoToken, "refreshed")
    BY TaskParts, FetchFacts DEF Exchange, Place
  <1>4. Tame(t) /\ Tamed(Task \ {t})
    BY <1>2, <1>3, FetchedTame
  <1>5. BoundLess
    BY <1>1, SameBound
  <1>6. CASE UNCHANGED token
    BY <1>1, <1>4, <1>5, <1>6, TameTask
  <1>7. CASE token' = [token EXCEPT ![acc] = Replaced(t, @)]
    <2>1. /\ TaskInv /\ TaskInv' /\ GateInv /\ LiveInv /\ KnownInv /\ OwnerInv /\ StoreInv /\ TypeOK
          /\ TypeOK'
      BY DEF BindingInv, StoreInv
    <2>2. acc \in Account /\ token[acc] \in Token \cup {NoToken}
      BY <2>1, TaskParts, TokenTypes DEF Exchange, TaskFine
    <2>3. task[t].got \in Token
      BY TaskParts DEF Exchange, TaskFine, TaskRecord
    <2>4. token'[acc] = token[acc] \/ (token[acc] # NoToken /\ token'[acc] # NoToken)
      <3>1. [task[t].got EXCEPT !.by = t] \in Token
        BY <2>3 DEF Token
      <3>2. [task[t].got EXCEPT !.by = t] # NoToken /\ task[t].got # NoToken
        BY <2>3, <3>1, StoreAssumption DEF Token
      <3>3. token'[acc] = Replaced(t, token[acc])
        BY <1>7, <2>1, <2>2 DEF TypeOK
      <3> QED
        BY <3>2, <3>3 DEF Replaced
    <2>5. \A a \in Account : a # acc => token'[a] = token[a]
      BY <1>7, <2>1 DEF TypeOK
    <2>6. \A a \in Account : token'[a] # NoToken <=> token[a] # NoToken
      BY <2>4, <2>5
    <2>7. Tamed(Task)
      BY <1>4 DEF Tamed
    <2>8. GateInv'
      BY <2>1, <2>7, TameGate
    <2>9. KnownInv'
      BY <1>1, <1>5, <2>1, <2>7, OldBound, TameKnown
    <2>10. LiveInv'
      BY <1>1, <2>1, <2>6, <2>7, <2>8, TameLive
    <2>11. OwnerInv'
      BY <1>1, <1>5, <2>1, <2>6, <2>7, TameOwner
    <2> QED
      BY <2>8, <2>9, <2>10, <2>11 DEF BindingInv
  <1> QED
    BY <1>6, <1>7 DEF Exchange

\* A configuration is written back: nobody promises anything from then on but
\* what a vault, a binding and a decision to disconnect are.
LEMMA ReviveBinds ==
  ASSUME BindingInv, StoreInv', Tamed(Task), BoundLess,
         UNCHANGED <<token, file, live>>, revived' # {}
  PROVE  BindingInv'
  <1>1. TaskInv /\ TaskInv' /\ GateInv /\ LiveInv /\ KnownInv
    BY DEF BindingInv, StoreInv
  <1>2. GateInv'
    BY <1>1, TameGate
  <1>3. KnownInv'
    BY <1>1, OldBound, TameKnown
  <1>4. ASSUME NEW u \in Task
        PROVE  LiveFine(u)'
    <2>1. LiveFine(u) /\ Tame(u) /\ TaskFine(u)'
      BY <1>1 DEF LiveInv, TaskInv, Tamed
    <2>2. task'[u].kind = "disconnect" => live'[task'[u].vault] = NoRel
      BY <2>1 DEF LiveFine, Tame, Gated
    <2>3. Is(u, "reconnect", "saving")' => token'[AccountOf[task'[u].rel]] # NoToken
      BY <2>1 DEF LiveFine, Tame, Is, Gated
    <2> QED
      BY <2>2, <2>3 DEF LiveFine
  <1>5. LiveInv'
    BY <1>4 DEF LiveInv, LiveBindingsHold
  <1>6. OwnerInv'
    BY DEF OwnerInv
  <1> QED
    BY <1>2, <1>3, <1>5, <1>6 DEF BindingInv

LEMMA WriteBackBinds ==
  ASSUME BindingInv, StoreInv', NEW t \in Task, Tame(t), Tamed(Task \ {t}), NEW r,
         task[t].vault \in Vault, WriteBack(t, r) \/ UNCHANGED <<config, revived>>,
         UNCHANGED <<token, file, bound, live, abandoned>>
  PROVE  BindingInv'
  <1>1. TypeOK /\ Tamed(Task) /\ BoundLess
    BY SameBound DEF BindingInv, StoreInv, Tamed
  <1>2. CASE UNCHANGED <<config, revived>>
    BY <1>1, <1>2, TameStep
  <1>3. CASE WriteBack(t, r)
    <2>1. CASE config[task[t].vault] = r
      <3>1. config' = config /\ revived' = revived
        BY <1>1, <1>3, <2>1 DEF WriteBack, TypeOK
      <3> QED
        BY <1>2, <3>1
    <2>2. CASE config[task[t].vault] # r
      BY <1>1, <1>3, <2>2, ReviveBinds DEF WriteBack
    <2> QED
      BY <2>1, <2>2
  <1> QED
    BY <1>2, <1>3

LEMMA RestoreSavesBinds ==
  ASSUME BindingInv, StoreInv', NEW t \in Task, RestoreSaves(t)
  PROVE  BindingInv'
  <1>1. task[t].kind = "restore" /\ task[t].vault \in Vault
    BY TaskParts DEF RestoreSaves, Is, TaskFine
  <1>2. Moved(t, "restored")
    BY TaskParts, MoveFacts DEF RestoreSaves, Place
  <1>3. Tame(t) /\ Tamed(Task \ {t})
    BY <1>1, <1>2, MovedTame
  <1>4. /\ WriteBack(t, task[t].rel) \/ UNCHANGED <<config, revived>>
        /\ UNCHANGED <<token, file, bound, live, abandoned>>
    BY DEF RestoreSaves, windows
  <1>5. PICK r : WriteBack(t, r) \/ UNCHANGED <<config, revived>>
    BY <1>4
  <1> QED
    BY <1>1, <1>3, <1>4, <1>5, WriteBackBinds

LEMMA SyncDoneBinds ==
  ASSUME BindingInv, StoreInv', NEW t \in Task, SyncDone(t)
  PROVE  BindingInv'
  <1>1. task[t].kind = "sync" /\ task[t].vault \in Vault /\ ~HalfWay(t)
    BY TaskParts DEF SyncDone, Is, TaskFine, HalfWay
  <1>2. Gone(t) \/ Pushing(t)
    BY TaskParts, EndFacts, EndOrPushFacts DEF SyncDone
  <1>3. Tame(t) /\ Tamed(Task \ {t})
    BY <1>1, <1>2, GoneTame, PushTame, OthersTame DEF Gone, Pushing
  <1>4. UNCHANGED <<token, file, bound, live, abandoned>>
    BY DEF SyncDone, windows
  <1>5. PICK r : WriteBack(t, r) \/ UNCHANGED <<config, revived>>
    BY DEF SyncDone
  <1> QED
    BY <1>1, <1>3, <1>4, <1>5, WriteBackBinds
-----------------------------------------------------------------------------
(* The process ends. *)

\* What is left are commands, and tasks that have ended.
LEMMA CrashLeaves ==
  ASSUME OneProcess, BindingInv, StoreInv', NEW p \in App, Crash(p), NEW u \in Task
  PROVE  /\ task'[u].kind \in {"none", "cli"} /\ ~task'[u].wanted
         /\ ~Inside(u)' /\ ~Alive(u)' /\ ~Knows(u)' /\ ~Staged(u)' /\ task'[u].at # "signing"
         /\ LiveFine(u)' /\ PublishFine(u)' /\ RemoteFine(u)'
         /\ HalfWay(u) => Account_(task[u].rel) \in abandoned'
  <1>1. /\ task[u].app = p => task'[u] = Ended
        /\ task[u].app # p => task'[u] = task[u]
    BY DEF Crash
  <1>2. TaskFine(u) /\ TaskFine(u)' /\ task[u] \in TaskRecord /\ (task[u].wanted => task[u].app \in App)
    BY TaskParts DEF BindingInv, GateInv, WantedInv, StoreInv, TaskInv
  <1>3. task[u].app \in App => task[u].app = p
    BY DEF OneProcess
  <1>4. task'[u].kind \in {"none", "cli"} /\ ~task'[u].wanted
    <2>1. CASE task[u].app = p
      BY <1>1, <2>1, EndedFacts
    <2>2. CASE task[u].app # p
      <3>1. task[u].kind \in Kind \cup {"none"}
        BY <1>2 DEF TaskRecord
      <3> QED
        BY <1>1, <1>2, <1>3, <2>2, <3>1 DEF TaskFine, Kind
    <2> QED
      BY <2>1, <2>2
  <1>5. task'[u].at \in {"unused", "ended", "loading", "refreshing", "exchanging", "refreshed", "comparing"}
    BY <1>2, <1>4 DEF TaskFine, PlacesOf
  <1>6. HalfWay(u) => Account_(task[u].rel) \in abandoned'
    <2>1. HalfWay(u) => task[u].app = p
      BY <1>2, <1>3 DEF HalfWay, Is, TaskFine
    <2> QED
      BY <2>1 DEF Crash
  <1>7. ~Inside(u)' /\ ~Alive(u)' /\ ~Knows(u)'
    BY <1>4 DEF Inside, Gated, Alive, Knows, Is
  <1>8. LiveFine(u)' /\ PublishFine(u)' /\ RemoteFine(u)'
    BY <1>4, <1>5 DEF LiveFine, PublishFine, RemoteFine, Is
  <1> QED
    BY <1>4, <1>5, <1>6, <1>7, <1>8 DEF Staged

LEMMA CrashBinds ==
  ASSUME OneProcess, BindingInv, StoreInv', NEW p \in App, Crash(p)
  PROVE  BindingInv'
  <1>1. UNCHANGED <<config, token, file, live, revived>> /\ abandoned \subseteq abandoned'
    BY DEF Crash
  <1>2. \A u \in Task :
          /\ ~task'[u].wanted
          /\ ~Inside(u)' /\ ~Alive(u)' /\ ~Knows(u)' /\ ~Staged(u)' /\ task'[u].at # "signing"
          /\ LiveFine(u)' /\ PublishFine(u)' /\ RemoteFine(u)'
          /\ HalfWay(u) => Account_(task[u].rel) \in abandoned'
    BY CrashLeaves
  <1>3. GateInv'
    BY <1>2 DEF GateInv, MutexInv, WantedInv
  <1>4. LiveInv'
    <2>1. LiveBindingsHold'
      BY <1>1 DEF BindingInv, LiveInv, LiveBindingsHold
    <2> QED
      BY <1>2, <2>1 DEF LiveInv
  <1>5. \A q \in App, v \in Vault : bound'[q][v] = NoRel
    BY DEF Crash, Emptied, OneProcess, BindingInv, StoreInv, TypeOK
  <1>6. KnownInv'
    BY <1>2, <1>5 DEF KnownInv
  <1>7. ASSUME revived = {}
        PROVE  (\A v \in Vault : AgreeAt(v)') /\ PublishInv' /\ TokensOwned'
    <2>1. ASSUME NEW v \in Vault
          PROVE  AgreeAt(v)'
      BY <1>2, <1>5 DEF AgreeAt, Relates, AgreeOn
    <2>2. PublishInv'
      BY <1>2 DEF PublishInv
    <2>3. ASSUME NEW a \in Account, token'[a] # NoToken
          PROVE  Owned(a)'
      <3>1. Owned(a)
        BY <1>1, <1>7, <2>3 DEF BindingInv, OwnerInv, TokensOwned
      <3>2. \A v \in Vault : Keeps(v, a) => Keeps(v, a)'
        BY <1>1, <1>2 DEF Keeps
      <3> QED
        BY <1>1, <1>2, <3>1, <3>2 DEF Owned
    <2> QED
      BY <2>1, <2>2, <2>3 DEF TokensOwned
  <1>8. OwnerInv'
    BY <1>1, <1>7 DEF OwnerInv
  <1> QED
    BY <1>3, <1>4, <1>6, <1>8 DEF BindingInv

-----------------------------------------------------------------------------
(* The invariant. *)

LEMMA InitBinding == Init => BindingInv
  <1> SUFFICES ASSUME Init PROVE BindingInv
    OBVIOUS
  <1>1. StoreInv
    BY InitStore
  <1>2. \A t \in Task : task[t].kind = "none" /\ task[t].at = "unused" /\ ~task[t].wanted
    BY EndedFacts DEF Init
  <1>3. GateInv
    BY <1>2 DEF GateInv, MutexInv, WantedInv, RemoteFine, Inside, Gated
  <1>4. LiveInv
    <2>1. ASSUME NEW v \in Vault, SharePoint(config[v])
          PROVE  token[AccountOf[config[v]]] # NoToken
      <3>1. Account_(config[v]) = AccountOf[config[v]] /\ AccountOf[config[v]] \in Account
        BY <2>1, StoreAssumption DEF Init, SharePoint, Account_
      <3>2. v \in BoundTo(AccountOf[config[v]])
        BY <3>1 DEF BoundTo
      <3>3. [signIn |-> Origin, by |-> Origin] # NoToken
        BY StoreAssumption
      <3> QED
        BY <3>1, <3>2, <3>3 DEF Init
    <2>2. LiveBindingsHold
      BY <2>1 DEF LiveBindingsHold, Init
    <2> QED
      BY <1>2, <2>2 DEF LiveInv, LiveFine, Is
  <1>5. KnownInv
    BY <1>2 DEF KnownInv, Knows, Is, Init
  <1>6. ASSUME NEW v \in Vault
        PROVE  AgreeAt(v)
    BY <1>2 DEF AgreeAt, Relates, Alive, AgreeOn, Knows, Is, Init
  <1>7. PublishInv
    BY <1>2 DEF PublishInv, PublishFine
  <1>8. TokensOwned
    <2>1. ASSUME NEW a \in Account, token[a] # NoToken
          PROVE  Owned(a)
      <3>1. BoundTo(a) # {}
        BY <2>1 DEF Init
      <3>2. PICK v \in Vault : Account_(config[v]) = a
        BY <3>1 DEF BoundTo
      <3> QED
        BY <1>2, <3>2 DEF Owned, Keeps
    <2> QED
      BY <2>1 DEF TokensOwned
  <1> QED
    BY <1>1, <1>3, <1>4, <1>5, <1>6, <1>7, <1>8 DEF BindingInv, OwnerInv

LEMMA UserBinds ==
  ASSUME OneProcess, BindingInv, StoreInv', User
  PROVE  BindingInv'
  <1>1. CASE \E p \in App : Lock(p) \/ Cancel(p) \/ DropPending(p) \/ Crash(p)
    BY <1>1, LockBinds, CancelBinds, DropPendingBinds, CrashBinds
  <1>2. CASE \E p \in App, v \in Vault : Open(p, v)
    BY <1>2, OpenBinds
  <1>3. ASSUME NEW p \in App, NEW v \in Vault, NEW t \in Task,
               \/ OpenSynced(p, v, t) \/ RetryRestore(p, v, t) \/ Disconnect(p, v, t)
               \/ StartReconnect(p, v, t) \/ StartSync(p, v, t)
        PROVE  BindingInv'
    BY <1>3, OpenSyncedBinds, RetryRestoreBinds, DisconnectBinds, StartReconnectBinds,
       StartSyncBinds
  <1>4. ASSUME NEW p \in App, NEW v \in Vault, NEW t \in Task, NEW r \in Remote,
               StartConnect(p, v, r, t) \/ StartPublish(p, v, r, t)
        PROVE  BindingInv'
    BY <1>4, StartConnectBinds, StartPublishBinds
  <1>5. CASE \E v \in Vault, t \in Task : StartCli(v, t)
    BY <1>5, StartCliBinds
  <1> QED
    BY <1>1, <1>2, <1>3, <1>4, <1>5 DEF User

LEMMA PublicationBinds ==
  ASSUME OneProcess, BindingInv, StoreInv', NEW t \in Task, Publication(t)
  PROVE  BindingInv'
  BY EnterGateBinds, PrepareFailsBinds, ConnectCheckBinds, StageVaultBinds, SaveBindingBinds,
     BindingFailsBinds, StoreSignInBinds, SignInFailsBinds, ConnectDoneBinds, PublishCheckBinds,
     StoreReconnectBinds, SaveConfigBinds, PublicationFailsBinds, PublishDoneBinds
  DEF Publication

LEMMA CleanUpBinds ==
  ASSUME BindingInv, StoreInv', NEW t \in Task, CleanUp(t)
  PROVE  BindingInv'
  BY DeleteConfigBinds, ScanBindingsBinds, DeleteTokenBinds, DisconnectFailsBinds DEF CleanUp

LEMMA ReaderBinds ==
  ASSUME BindingInv, StoreInv', NEW t \in Task, Reader(t)
  PROVE  BindingInv'
  BY LoadConfigBinds, LoadTokenBinds, ExchangeBinds, ReaderFailsBinds, RestoreSavesBinds,
     RestoreDoneBinds, SyncUploadsBinds, SyncDoneBinds, CliComparesBinds, CliSavesBinds
  DEF Reader

LEMMA IdleBinds ==
  ASSUME BindingInv, StoreInv', UNCHANGED vars
  PROVE  BindingInv'
  <1>1. Tamed(Task)
    BY KeptTame DEF vars, Kept, Tamed
  <1>2. BoundLess
    BY SameBound DEF vars
  <1> QED
    BY <1>1, <1>2, TameStep DEF vars

LEMMA BindingStep ==
  ASSUME OneProcess
  PROVE  BindingInv /\ [Next]_vars => BindingInv'
  <1> SUFFICES ASSUME BindingInv, [Next]_vars
               PROVE  BindingInv'
    OBVIOUS
  <1>1. StoreInv'
    BY StoreStep DEF BindingInv
  <1>2. CASE User
    BY <1>1, <1>2, UserBinds
  <1>3. ASSUME NEW t \in Task, Publication(t) \/ CleanUp(t) \/ Reader(t)
        PROVE  BindingInv'
    BY <1>1, <1>3, PublicationBinds, CleanUpBinds, ReaderBinds
  <1>4. CASE UNCHANGED vars
    BY <1>1, <1>4, IdleBinds
  <1> QED
    BY <1>2, <1>3, <1>4 DEF Next

\* BindingInv holds in every state of one process: its gate lets one publication
\* or clean-up at a time change a configuration and a token, so that each may
\* rely on what it has checked (sync_operation_gate, PublishGate, disconnect).
THEOREM BindingInvariance == ASSUME OneProcess PROVE Spec => []BindingInv
  <1>1. Init => BindingInv
    BY InitBinding
  <1>2. BindingInv /\ [Next]_vars => BindingInv'
    BY BindingStep
  <1> QED
    BY <1>1, <1>2, PTL DEF Spec

\* What the user connected and did not disconnect keeps its configuration and the
\* token of its account, until a task writes a configuration back.
THEOREM LiveBindingsStand == ASSUME OneProcess PROVE Spec => []LiveBindingsHold
  <1>1. BindingInv => LiveBindingsHold
    BY DEF BindingInv, LiveInv
  <1> QED
    BY <1>1, BindingInvariance, PTL

\* A stored token has a vault bound to its account, a task that is to delete it or
\* to save the configuration it needs, or one that has reported that it failed.
THEOREM SignInsOwned == ASSUME OneProcess PROVE Spec => []SignInsHaveOwners
  <1>1. BindingInv => SignInsHaveOwners
    <2> SUFFICES ASSUME BindingInv, revived = {}, NEW a \in Account, token[a] # NoToken
                 PROVE  \/ BoundTo(a) # {}
                        \/ \E t \in Task : HalfWay(t) /\ Account_(task[t].rel) = a
                        \/ a \in abandoned
      BY DEF SignInsHaveOwners
    <2>1. Owned(a)
      BY DEF BindingInv, OwnerInv, TokensOwned
    <2>2. (\E v \in Vault : Keeps(v, a)) => BoundTo(a) # {}
      BY DEF Keeps, BoundTo
    <2> QED
      BY <2>1, <2>2 DEF Owned
  <1> QED
    BY <1>1, BindingInvariance, PTL
=============================================================================
