------------------------------ MODULE Enrolment ------------------------------
(***************************************************************************)
(* Enabling Touch ID (app/state.rs, biometric/registry.rs): the master     *)
(* password goes into the keychain under a fresh id, the registry on disk  *)
(* says which id is whose.  The two cannot be written together, either may *)
(* fail, a deletion may succeed and not be confirmed, and the application  *)
(* may die between the two.                                                *)
(***************************************************************************)
EXTENDS Integers, Functions

CONSTANTS Holders,       \* paths of vault files
          MaxIds,        \* bound: ids made
          MaxFaults      \* bound: failures of the keychain or of the registry file

ASSUME EnrolmentConstants == MaxFaults \in Nat

NoId == 0

VARIABLES items,     \* ids with a password in the keychain
          registry,  \* biometric_registry: the id of each vault, or NoId
          onDisk,    \* biometric.json
          ids,       \* ids made so far
          handler,   \* [at, path, id]: what the handler under way does next
          mishaps,   \* failures so far
          orphaned   \* history: items whose pointer a crash or a double failure took

enrolVars == <<items, registry, onDisk, ids, handler, mishaps, orphaned>>

NobodyEnrolled == [p \in Holders |-> NoId]
NoHandler == [at |-> "none", path |-> "no path", id |-> NoId]

EnrolInit ==
  /\ items = {} /\ registry = NobodyEnrolled /\ onDisk = NobodyEnrolled
  /\ ids = 0 /\ handler = NoHandler /\ mishaps = 0 /\ orphaned = {}

Mishap == mishaps < MaxFaults /\ mishaps' = mishaps + 1

\* BiometricStore::forget: a deletion is read back, and that may fail as well.
DeletionConfirmed(id) == items' = items \ {id} /\ UNCHANGED mishaps
DeletionUnconfirmed(id) == items' \in {items, items \ {id}} /\ Mishap

Points(path, id) == registry' = [registry EXCEPT ![path] = id]
WritesNext(step, path, id) == handler' = [at |-> step, path |-> path, id |-> id]

-----------------------------------------------------------------------------
(* complete_biometric_enrollment, after the vault opened with the password. *)

\* As a mistake: the pointer to the item there was is written over.
WritesOver(path) ==
  /\ WritesNext("enrolling", path, NoId)
  /\ UNCHANGED <<items, registry, mishaps>>

\* An enrolment there was is deleted first, for certain or not at all.
DropsPrior(path) ==
  \/ registry[path] = NoId
     /\ WritesNext("enrolling", path, NoId) /\ UNCHANGED <<items, registry, mishaps>>
  \/ registry[path] # NoId /\ DeletionConfirmed(registry[path])
     /\ Points(path, NoId) /\ WritesNext("enrolling", path, NoId)
  \/ registry[path] # NoId /\ DeletionUnconfirmed(registry[path])
     /\ UNCHANGED <<registry, handler>>

BeginEnrolment(path) ==
  /\ handler = NoHandler
  /\ DropsPrior(path)
  /\ UNCHANGED <<onDisk, ids, orphaned>>

StorePassword ==
  /\ handler.at = "enrolling"
  /\ \/ /\ ids < MaxIds
        /\ ids' = ids + 1
        /\ items' = items \union {ids'}
        /\ Points(handler.path, ids')
        /\ WritesNext("saving", handler.path, ids')
        /\ UNCHANGED mishaps
     \/ Mishap /\ handler' = NoHandler /\ UNCHANGED <<items, ids, registry>>
  /\ UNCHANGED <<onDisk, orphaned>>

\* save_in: a new file takes the place of the old one, or there is no change.
EnrolmentSaved ==
  /\ handler.at = "saving"
  /\ onDisk' = registry
  /\ handler' = NoHandler
  /\ UNCHANGED <<items, registry, ids, mishaps, orphaned>>

\* As a mistake: only the registry is rolled back.
PasswordStays(id) == UNCHANGED <<items, orphaned>> /\ Mishap

\* The item goes too; if that fails as well, it is an orphan.
PasswordGoes(id) ==
  /\ items' \in {items, items \ {id}}
  /\ orphaned' = orphaned \union (items' \cap {id})
  /\ Mishap

EnrolmentRollsBack ==
  /\ handler.at = "saving"
  /\ Points(handler.path, NoId)
  /\ PasswordGoes(handler.id)
  /\ handler' = NoHandler
  /\ UNCHANGED <<onDisk, ids>>

-----------------------------------------------------------------------------
(* forget_biometric; fail_biometric_unlock, of an item gone or unusable.   *)

\* As a mistake: the pointer is dropped whether the deletion is confirmed or not.
DropsAnyway(path) ==
  /\ DeletionConfirmed(registry[path]) \/ DeletionUnconfirmed(registry[path])
  /\ Points(path, NoId) /\ WritesNext("forgetting", path, NoId)

\* The pointer is dropped once the deletion is confirmed.
DropsConfirmed(path) ==
  \/ DeletionConfirmed(registry[path]) /\ Points(path, NoId) /\ WritesNext("forgetting", path, NoId)
  \/ DeletionUnconfirmed(registry[path]) /\ UNCHANGED <<registry, handler>>

ForgetBiometric(path) ==
  /\ handler = NoHandler /\ registry[path] # NoId
  /\ DropsConfirmed(path)
  /\ UNCHANGED <<onDisk, ids, orphaned>>

\* A failure to save is ignored.
ForgetSaved ==
  /\ handler.at = "forgetting"
  /\ handler' = NoHandler
  /\ \/ onDisk' = registry /\ UNCHANGED mishaps
     \/ UNCHANGED onDisk /\ Mishap
  /\ UNCHANGED <<items, registry, ids, orphaned>>

-----------------------------------------------------------------------------
(* The system.                                                             *)

\* The keychain loses an item: reset, or deleted by hand.
ItemVanishes(id) ==
  /\ items' = items \ {id}
  /\ UNCHANGED <<registry, onDisk, ids, handler, mishaps, orphaned>>

\* The application ends, at any point, and starts again: load_or_default.  A registry that
\* cannot be read counts as empty, and the next save replaces it.
Restart ==
  /\ \/ /\ registry' = onDisk
        /\ orphaned' = orphaned \union
                          IF handler.at = "saving" THEN {handler.id} ELSE {}
        /\ UNCHANGED mishaps
     \/ /\ registry' = NobodyEnrolled
        /\ orphaned' = orphaned \union items
        /\ Mishap
  /\ handler' = NoHandler
  /\ UNCHANGED <<items, onDisk, ids>>

EnrolNext ==
  \/ \E v \in Holders : BeginEnrolment(v) \/ ForgetBiometric(v)
  \/ StorePassword \/ EnrolmentSaved \/ EnrolmentRollsBack \/ ForgetSaved
  \/ \E id \in items : ItemVanishes(id)
  \/ Restart

EnrolSpec == EnrolInit /\ [][EnrolNext]_enrolVars

-----------------------------------------------------------------------------
\* Type invariant of the enrolments.
EnrolTypeOK ==
  /\ items \subseteq 1..ids /\ orphaned \subseteq 1..ids
  /\ registry \in [Holders -> 0..ids] /\ onDisk \in [Holders -> 0..ids]
  /\ handler.at \in {"none", "enrolling", "saving", "forgetting"}
  /\ mishaps \in 0..MaxFaults

\* A master password in the keychain is one the application can forget, also after a restart.
\* The exceptions: an application that died before it could write the pointer down, a registry
\* that could not be read, and a rollback that failed as the save before it had.
PasswordsHaveAPointer == items \ orphaned \subseteq Range(registry)
=============================================================================
