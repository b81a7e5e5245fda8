------------------------------ MODULE MCDesktop ------------------------------
(***************************************************************************)
(* What the application does beside its vaults on one computer, part by    *)
(* part.  The parts share no state: a behaviour is one of one part, chosen *)
(* at the start, while the others stay as they begin.                      *)
(***************************************************************************)
EXTENDS AppUpdate, SessionLock, AutoType, Clipboard, LaunchFile, TouchId, CostNotice, Enrolment,
        EntryForm

CONSTANTS p, q, t1, t2    \* instances of the application; notification threads

VARIABLE part

InstancesAreAlike == Permutations({p, q})

\* AppUpdate: the last release comes in the way of a check that met one already, with no other
\* instance there.
LastReleaseInTheWay ==
  latest = MaxVersion =>
    \E i \in Instances : /\ job[i].at \in {"signature", "no signature"}
                         /\ job[i].seen = MaxVersion - 2
                         /\ \A j \in Instances \ {i} : Doing(j, "off")

\* AutoType: two texts with a key between them.
TwoTexts == <<"text", "key", "text">>

DesktopInit ==
  /\ part \in {"update", "lock", "type", "clip", "launch", "touch", "cost", "enrol", "form"}
  /\ UpdateInit /\ LockInit /\ TypeInit /\ ClipInit /\ LaunchInit /\ TouchInit
  /\ CostInit /\ EnrolInit /\ FormInit

DesktopNext ==
  /\ part' = part
  /\ \/ /\ part = "update" /\ UpdateNext
        /\ UNCHANGED <<lockVars, typeVars, clipVars, launchVars, touchVars, costVars,
                       enrolVars, formVars>>
     \/ /\ part = "lock" /\ LockNext
        /\ UNCHANGED <<updateVars, typeVars, clipVars, launchVars, touchVars, costVars,
                       enrolVars, formVars>>
     \/ /\ part = "type" /\ TypeNext
        /\ UNCHANGED <<updateVars, lockVars, clipVars, launchVars, touchVars, costVars,
                       enrolVars, formVars>>
     \/ /\ part = "clip" /\ ClipNext
        /\ UNCHANGED <<updateVars, lockVars, typeVars, launchVars, touchVars, costVars,
                       enrolVars, formVars>>
     \/ /\ part = "launch" /\ LaunchNext
        /\ UNCHANGED <<updateVars, lockVars, typeVars, clipVars, touchVars, costVars,
                       enrolVars, formVars>>
     \/ /\ part = "touch" /\ TouchNext
        /\ UNCHANGED <<updateVars, lockVars, typeVars, clipVars, launchVars, costVars,
                       enrolVars, formVars>>
     \/ /\ part = "cost" /\ CostNext
        /\ UNCHANGED <<updateVars, lockVars, typeVars, clipVars, launchVars, touchVars,
                       enrolVars, formVars>>
     \/ /\ part = "enrol" /\ EnrolNext
        /\ UNCHANGED <<updateVars, lockVars, typeVars, clipVars, launchVars, touchVars,
                       costVars, formVars>>
     \/ /\ part = "form" /\ FormNext
        /\ UNCHANGED <<updateVars, lockVars, typeVars, clipVars, launchVars, touchVars,
                       costVars, enrolVars>>

DesktopSpec ==
  DesktopInit /\ [][DesktopNext]_<<part, updateVars, lockVars, typeVars, clipVars, launchVars,
                                   touchVars, costVars, enrolVars, formVars>>

\* The type invariants of the parts.
DesktopTypeOK ==
  CASE part = "update" -> UpdateTypeOK
    [] part = "lock" -> LockTypeOK
    [] part = "type" -> AutoTypeOK
    [] part = "clip" -> ClipTypeOK
    [] part = "launch" -> LaunchTypeOK
    [] part = "touch" -> TouchTypeOK
    [] part = "cost" -> CostTypeOK
    [] part = "enrol" -> EnrolTypeOK
    [] part = "form" -> FormTypeOK

\* Cleartext that leaves the application, on the pasteboard or in a file, is collected in its
\* time, and nothing that is not ours is (clipboard_macos.rs, launch).
CleartextIsCollected == OnlyOurCopiesAreCleared /\ PayloadsLiveTheirTime

\* What the unlock screen asks and is answered belongs to that screen and that visit, and the
\* password behind Touch ID can always be forgotten.
UnlocksServeTheirScreen ==
  [](NoticesAreTrue /\ PasswordsHaveAPointer) /\ PromptsServeTheirScreen
=============================================================================
