---------------------------- MODULE VaultPromise ----------------------------
(***************************************************************************)
(* What saving a vault promises, with no word about queues, tasks, locks   *)
(* or aborts: an edit of an open vault reaches its file or is given up by  *)
(* somebody who says so, what a file keeps it keeps, and a vault is closed *)
(* in silence only when nothing of it can be lost any more.                *)
(***************************************************************************)
EXTENDS Naturals

CONSTANTS Paths, Sessions, UserEdits, NoPath

VARIABLES
    file,      \* the file a session has opened
    edits,     \* the edits made in a session
    state,     \* unopened, open, closed, givenUp or crashed
    visible,   \* the edits a reader of a file sees
    kept       \* the edits a power loss cannot take from a file

vars == <<file, edits, state, visible, kept>>

Open == {s \in Sessions : state[s] = "open"}

TypeOK ==
    /\ file \in [Sessions -> Paths \cup {NoPath}]
    /\ edits \in [Sessions -> SUBSET UserEdits]
    /\ state \in [Sessions -> {"unopened", "open", "closed", "givenUp", "crashed"}]
    /\ visible \in [Paths -> SUBSET UserEdits]
    /\ kept \in [Paths -> SUBSET UserEdits]

Init ==
    /\ file = [s \in Sessions |-> NoPath]
    /\ edits = [s \in Sessions |-> {}]
    /\ state = [s \in Sessions |-> "unopened"]
    /\ visible = [p \in Paths |-> {}]
    /\ kept = [p \in Paths |-> {}]

Unlock(s, p) ==
    /\ state[s] = "unopened"
    /\ \A t \in Open : file[t] # p
    /\ state' = [state EXCEPT ![s] = "open"]
    /\ file' = [file EXCEPT ![s] = p]
    /\ UNCHANGED <<edits, visible, kept>>

Make(s, e) ==
    /\ s \in Open
    /\ e \notin UNION {edits[t] : t \in Sessions}
    /\ edits' = [edits EXCEPT ![s] = @ \cup {e}]
    /\ UNCHANGED <<file, state, visible, kept>>

\* Only an open vault's edits reach its file, and nothing leaves it.
Publish(s, new) ==
    /\ s \in Open
    /\ new \subseteq edits[s]
    /\ visible' = [visible EXCEPT ![file[s]] = @ \cup new]
    /\ kept' \in {kept, [kept EXCEPT ![file[s]] = visible'[file[s]]]}
    /\ UNCHANGED <<file, edits, state>>

Settle(p) ==
    /\ kept' = [kept EXCEPT ![p] = visible[p]]
    /\ UNCHANGED <<file, edits, state, visible>>

\* Locked or left in silence: everything is kept.
Close(S) ==
    /\ \A s \in S : edits[s] \subseteq kept[file[s]]
    /\ state' = [s \in Sessions |-> IF s \in S THEN "closed" ELSE state[s]]
    /\ UNCHANGED <<file, edits, visible, kept>>

GiveUp(S) ==
    /\ state' = [s \in Sessions |-> IF s \in S THEN "givenUp" ELSE state[s]]
    /\ UNCHANGED <<file, edits, visible, kept>>

PowerLoss(S) ==
    /\ state' = [s \in Sessions |-> IF s \in Open THEN "crashed" ELSE state[s]]
    /\ visible' = [p \in Paths |-> IF p \in S THEN kept[p] ELSE visible[p]]
    /\ kept' = visible'
    /\ UNCHANGED <<file, edits>>

\* Queueing, writing a temporary file, waiting, failing and trying again: most
\* of what a coordinator does shows in none of this.
Working == UNCHANGED vars

Next ==
    \/ Working
    \/ \E s \in Sessions, p \in Paths : Unlock(s, p)
    \/ \E s \in Sessions, e \in UserEdits : Make(s, e)
    \/ \E s \in Sessions : \E new \in SUBSET edits[s] : Publish(s, new)
    \/ \E p \in Paths : Settle(p)
    \/ \E S \in SUBSET Open : Close(S) \/ GiveUp(S)
    \/ \E S \in SUBSET Paths : PowerLoss(S)

Spec == Init /\ [][Next]_vars
=============================================================================
