------------------------------ MODULE AppUpdate ------------------------------
(***************************************************************************)
(* The updater: the check and the installation of a running application    *)
(* (app/state.rs, update/client.rs) and the transactional replacement of   *)
(* its bundle (update/macos_installer.rs), with releases published and     *)
(* other instances updating meanwhile, processes killed at any point, and  *)
(* a power loss that undoes what was never flushed.                        *)
(*                                                                         *)
(* A bundle is its version, 0 when it is not a whole bundle; it is settled *)
(* when its files are flushed.  `images` are the directory states a power  *)
(* loss may leave: one more for each exchange since the last flush.        *)
(***************************************************************************)
EXTENDS Integers, FiniteSets

CONSTANTS Instances,    \* running copies of the application, on one installed bundle
          Slots,        \* names of staging directories
          MaxVersion    \* bound: releases published

\* A release is out when the applications start.
ASSUME AppUpdateConstants == MaxVersion \in Nat /\ MaxVersion >= 2 /\ Slots \subseteq Nat

Published == 0..MaxVersion
Bundle == [v : Published, settled : BOOLEAN]
Broken == [v |-> 0, settled |-> TRUE]

VARIABLES latest,    \* the version of the newest release
          bundle,    \* the bundle at the installed path
          stage,     \* stage[s]: "none", or the staging directory "fresh" or older than a day
          holds,     \* holds[s]: the bundle in it
          marker,    \* marker[s]: its keep-marker, "none" or "durable"
          images,    \* [bundle, holds] after a power loss
          job        \* job[i]: what instance i does

updateVars == <<latest, bundle, stage, holds, marker, images, job>>

Off == [at |-> "off", runs |-> 0, goal |-> "check", manifest |-> 0, seen |-> 0,
        attempt |-> 1, offer |-> 0, slot |-> 0]

UpdateInit ==
  /\ latest = 2
  /\ bundle = [v |-> 1, settled |-> TRUE]
  /\ stage = [s \in Slots |-> "none"]
  /\ holds = [s \in Slots |-> Broken]
  /\ marker = [s \in Slots |-> "none"]
  /\ images = {[bundle |-> bundle, holds |-> holds]}
  /\ job = [i \in Instances |-> Off]

Doing(i, step) == job[i].at = step
Then(i, changed) == job' = [job EXCEPT ![i] = changed]
Goes(i, step) == Then(i, [job[i] EXCEPT !.at = step])
Ends(i, step) == Then(i, [Off EXCEPT !.at = step, !.runs = job[i].runs])

-----------------------------------------------------------------------------
(* The signed manifest, and what the check and the installation make of it. *)

Publish ==
  /\ latest < MaxVersion
  /\ latest' = latest + 1
  /\ UNCHANGED <<bundle, stage, holds, marker, images, job>>

Launch(i) ==
  /\ Doing(i, "off") /\ bundle.v # 0
  /\ Then(i, [Off EXCEPT !.at = "idle", !.runs = bundle.v])
  /\ UNCHANGED <<latest, bundle, stage, holds, marker, images>>

\* fetch_verified_manifest: the manifest first.
Fetching(i, goal) ==
  Then(i, [job[i] EXCEPT !.at = "signature", !.goal = goal, !.manifest = latest, !.seen = latest])

StartUpdateCheck(i) ==
  /\ job[i].at \in {"idle", "failed", "no signature", "available"}
  /\ Fetching(i, "check")
  /\ UNCHANGED <<latest, bundle, stage, holds, marker, images>>

InstallUpdate(i) ==
  /\ Doing(i, "available")
  /\ Fetching(i, "install")
  /\ UNCHANGED <<latest, bundle, stage, holds, marker, images>>

\* As a mistake: the pair is asked for once.
MayTryAgainNever(i) == FALSE

MayTryAgain(i) == job[i].attempt < 2

\* As a mistake: whatever is newest is installed.
ExpectedIsNewest(i) == TRUE

\* validate_expected_candidate: the release the user confirmed.
ExpectedCandidate(i) == job[i].manifest = job[i].offer

\* As a mistake: the release that runs is offered to itself.
NotOlder(i) == job[i].manifest >= job[i].runs

Newer(i) == job[i].manifest > job[i].runs

\* The manifest and its signature are two requests, and a release may come between them.
GetSignature(i) ==
  /\ Doing(i, "signature")
  /\ CASE latest # job[i].manifest /\ MayTryAgain(i) ->
            Then(i, [job[i] EXCEPT !.manifest = latest, !.attempt = @ + 1])
       [] latest # job[i].manifest /\ ~MayTryAgain(i) ->
            Then(i, [Off EXCEPT !.at = "no signature", !.runs = job[i].runs, !.seen = job[i].seen])
       [] latest = job[i].manifest /\ job[i].goal = "check" ->
            IF Newer(i)
              THEN Then(i, [Off EXCEPT !.at = "available", !.runs = job[i].runs,
                                             !.offer = latest])
              ELSE Ends(i, "idle")
       [] OTHER ->
            IF ExpectedCandidate(i)
              THEN Then(i, [job[i] EXCEPT !.at = "candidate", !.seen = 0, !.attempt = 1])
              ELSE Ends(i, "failed")
  /\ UNCHANGED <<latest, bundle, stage, holds, marker, images>>

\* The packager's own, unsigned lookup must name the same release; its bundle is verified.
DownloadBundle(i) ==
  /\ Doing(i, "candidate")
  /\ IF latest = job[i].manifest THEN Goes(i, "install") ELSE Ends(i, "failed")
  /\ UNCHANGED <<latest, bundle, stage, holds, marker, images>>

-----------------------------------------------------------------------------
(* The transaction.                                                        *)

\* As mistakes: a directory younger than a day is swept, or a marked one.
SweepableAtAnyAge(s) == stage[s] # "none" /\ marker[s] = "none"
SweepableThoughMarked(s) == stage[s] = "old"

Sweepable(s) == stage[s] = "old" /\ marker[s] = "none"

RemoveDirs(gone) ==
  /\ stage' = [s \in Slots |-> IF s \in gone THEN "none" ELSE stage[s]]
  /\ holds' = [s \in Slots |-> IF s \in gone THEN Broken ELSE holds[s]]
  /\ marker' = [s \in Slots |-> IF s \in gone THEN "none" ELSE marker[s]]
  /\ images' = {[im EXCEPT !.holds = [s \in Slots |-> IF s \in gone THEN Broken ELSE @[s]]]
                 : im \in images}

\* The leftovers of earlier installations are swept while the installed bundle is a bundle.
SweepStaleStaging(i) ==
  /\ Doing(i, "install")
  /\ RemoveDirs(IF bundle.v # 0 THEN {s \in Slots : Sweepable(s)} ELSE {})
  /\ Goes(i, "swept")
  /\ UNCHANGED <<latest, bundle>>

CreateStaging(i) ==
  /\ Doing(i, "swept")
  /\ \E s \in Slots :
       /\ stage[s] = "none" /\ \A t \in Slots : stage[t] = "none" => s <= t
       /\ stage' = [stage EXCEPT ![s] = "fresh"]
       /\ Then(i, [job[i] EXCEPT !.at = "staging", !.slot = s])
  /\ UNCHANGED <<latest, bundle, holds, marker, images>>

Puts(s, b) ==
  /\ holds' = [holds EXCEPT ![s] = b]
  /\ images' = {[im EXCEPT !.holds[s] = b] : im \in images}

ExtractBundle(i) ==
  /\ Doing(i, "staging")
  /\ Puts(job[i].slot, [v |-> job[i].manifest, settled |-> FALSE])
  /\ Goes(i, "extracted")
  /\ UNCHANGED <<latest, bundle, stage, marker>>

\* As a mistake: the extracted files are left to the system to write.
NothingFlushed(b) == b

Flushed(b) == [b EXCEPT !.settled = TRUE]

SyncTree(i) ==
  /\ Doing(i, "extracted")
  /\ Puts(job[i].slot, Flushed(holds[job[i].slot]))
  /\ Goes(i, "flushed")
  /\ UNCHANGED <<latest, bundle, stage, marker>>

WriteKeepMarker(i) ==
  /\ Doing(i, "flushed")
  /\ marker' = [marker EXCEPT ![job[i].slot] = "durable"]
  /\ Goes(i, "marked")
  /\ UNCHANGED <<latest, bundle, stage, holds, images>>

\* Whatever fails before the exchange: the staging directory goes, nothing else was touched.
PrepareFails(i) ==
  /\ job[i].at \in {"staging", "extracted", "flushed", "marked"}
  /\ RemoveDirs({job[i].slot})
  /\ Ends(i, "failed")
  /\ UNCHANGED <<latest, bundle>>

Exchange(s) ==
  /\ bundle' = holds[s]
  /\ holds' = [holds EXCEPT ![s] = bundle]
  /\ images' = images \union {[bundle |-> bundle', holds |-> holds']}

AtomicSwap(i) ==
  /\ Doing(i, "marked")
  /\ Exchange(job[i].slot)
  /\ Goes(i, "swapped")
  /\ UNCHANGED <<latest, stage, marker>>

SyncSwapParents(i) ==
  /\ Doing(i, "swapped")
  /\ \/ /\ images' = {[bundle |-> bundle, holds |-> holds]}
        /\ Goes(i, "replaced")
     \/ /\ Goes(i, "roll back")
        /\ UNCHANGED images
  /\ UNCHANGED <<latest, bundle, stage, holds, marker>>

RollBackSwap(i) ==
  /\ Doing(i, "roll back")
  /\ \/ Exchange(job[i].slot) /\ Goes(i, "rolled back")
     \/ Ends(i, "failed") /\ UNCHANGED <<bundle, holds, images>>
  /\ UNCHANGED <<latest, stage, marker>>

\* Both copies are retained when the rollback could not be made durable.
SyncRollback(i) ==
  /\ Doing(i, "rolled back")
  /\ \/ images' = {[bundle |-> bundle, holds |-> holds]} /\ Goes(i, "undone")
     \/ Ends(i, "failed") /\ UNCHANGED images
  /\ UNCHANGED <<latest, bundle, stage, holds, marker>>

RemoveStaging(i) ==
  /\ job[i].at \in {"replaced", "undone"}
  /\ RemoveDirs({job[i].slot})
  /\ Ends(i, IF Doing(i, "replaced") THEN "ready" ELSE "failed")
  /\ UNCHANGED <<latest, bundle>>

-----------------------------------------------------------------------------
(* What happens to the machine.                                            *)

Kill(i) ==
  /\ ~Doing(i, "off")
  /\ Then(i, Off)
  /\ UNCHANGED <<latest, bundle, stage, holds, marker, images>>

AsFlushed(b) == IF b.settled THEN b ELSE Broken

PowerLoss ==
  /\ \E im \in images :
       /\ bundle' = AsFlushed(im.bundle)
       /\ holds' = [s \in Slots |-> AsFlushed(im.holds[s])]
  /\ images' = {[bundle |-> bundle', holds |-> holds']}
  /\ job' = [i \in Instances |-> Off]
  /\ UNCHANGED <<latest, stage, marker>>

Installing == {"staging", "extracted", "flushed", "marked", "swapped", "roll back",
               "rolled back", "replaced", "undone"}

\* A day passes; no installation takes that long.
DayPasses ==
  /\ \A i \in Instances : job[i].at \notin Installing
  /\ \E s \in Slots : stage[s] = "fresh"
  /\ stage' = [s \in Slots |-> IF stage[s] = "fresh" THEN "old" ELSE stage[s]]
  /\ UNCHANGED <<latest, bundle, holds, marker, images, job>>

UpdateStep(i) ==
  \/ Launch(i) \/ StartUpdateCheck(i) \/ InstallUpdate(i)
  \/ GetSignature(i) \/ DownloadBundle(i)
  \/ SweepStaleStaging(i) \/ CreateStaging(i) \/ ExtractBundle(i) \/ SyncTree(i)
  \/ WriteKeepMarker(i) \/ PrepareFails(i)
  \/ AtomicSwap(i) \/ SyncSwapParents(i) \/ RollBackSwap(i) \/ SyncRollback(i)
  \/ RemoveStaging(i) \/ Kill(i)

UpdateNext == Publish \/ PowerLoss \/ DayPasses \/ \E i \in Instances : UpdateStep(i)

UpdateSpec == UpdateInit /\ [][UpdateNext]_updateVars

-----------------------------------------------------------------------------
\* Type invariant of the updater; what is offered is newer than what runs.
UpdateTypeOK ==
  /\ latest \in Published /\ bundle \in Bundle
  /\ stage \in [Slots -> {"none", "fresh", "old"}]
  /\ holds \in [Slots -> Bundle]
  /\ marker \in [Slots -> {"none", "durable"}]
  /\ images \subseteq [bundle : Bundle, holds : [Slots -> Bundle]]
  /\ \A i \in Instances : /\ job[i].manifest \in Published /\ job[i].offer \in Published
                          /\ job[i].attempt \in 1..2 /\ job[i].slot \in {0} \union Slots
                          /\ job[i].offer # 0 => job[i].offer > job[i].runs

\* The installed path always holds a whole bundle, whatever was killed and whatever a power
\* loss undid: the old one or the new one, and never half of one.
AppIsAlwaysWhole == bundle.v # 0

\* Every application a power loss could bring back is still on the disk: the one that was
\* replaced is not swept or cleaned away before its replacement is there to stay.
ReplacedAppOutlivesTheSwap ==
  \A im \in images : im.bundle.v \in {bundle.v} \union {holds[s].v : s \in Slots}

\* The staging directory of a running installation is its own, and no other sweeps it.
LiveStagingStays ==
  \A i \in Instances : job[i].at \in Installing =>
    /\ stage[job[i].slot] # "none"
    /\ \A j \in Instances \ {i} : job[j].at \in Installing => job[j].slot # job[i].slot

\* A release published between the manifest and its signature is no signature failure: the
\* check reports one only after two releases came in its way.
OneReleaseIsNoForgery ==
  \A i \in Instances : Doing(i, "no signature") => latest >= job[i].seen + 2

\* What is put in place is the release the user confirmed, though newer ones appeared.
InstalledAsConfirmed ==
  [][\A i \in Instances : AtomicSwap(i) => bundle'.v = job[i].offer]_updateVars

\* Through kills, power losses and other instances: a whole application, the
\* one confirmed, from a directory nobody else clears, and no false alarm.
UpdatesAreSafe ==
  /\ [](AppIsAlwaysWhole /\ ReplacedAppOutlivesTheSwap /\ LiveStagingStays /\ OneReleaseIsNoForgery)
  /\ InstalledAsConfirmed
=============================================================================
