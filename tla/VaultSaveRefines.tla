-------------------------- MODULE VaultSaveRefines --------------------------
(***************************************************************************)
(* The save coordinator keeps the promise of VaultPromise about the user's *)
(* edits.  Merged, downloaded and foreign changes are somebody else's, and *)
(* invisible here.                                                         *)
(***************************************************************************)
EXTENDS VaultSaveInv

PromiseState(f) ==
    CASE f \in {"unopened", "open", "crashed"} -> f
      [] f \in {"locked", "quit"} -> "closed"
      [] f \in {"discarded", "abandoned"} -> "givenUp"

Promise == INSTANCE VaultPromise WITH
    file <- path,
    edits <- [s \in Sessions |-> made[s] \cap UserEdits],
    state <- [s \in Sessions |-> PromiseState(fate[s])],
    visible <- [p \in Paths |-> disk[p] \cap UserEdits],
    kept <- [p \in Paths |-> platter[p] \cap UserEdits]

\* Everything the coordinator, its writers, aborts, retries and crashes do is
\* a step of the promise: an edit is kept or given up by name, what is kept
\* stays, and a vault that is locked or left in silence lost nothing
\* (save_async to save_to_with_abort, lock_vault_now, discard).
KeepsPromise == Promise!Spec
=============================================================================
