------------------------------ MODULE LaunchFile ------------------------------
(***************************************************************************)
(* Launch payloads (launch/tempfile.rs, launch/sweeper.rs, and their use   *)
(* in ui/app_shell.rs, app/actions.rs and cli.rs): small files with a      *)
(* password, staged for another application to read and then unlinked, by  *)
(* a timer, by a lock, by a quit, or by the sweeps that collect what a     *)
(* crash left.  The window and the command line client share a directory,  *)
(* and either may be killed at any point.                                  *)
(*                                                                         *)
(* Ages: 0, then 1 after 10 s (the shortest time a payload is kept), 2     *)
(* after 60 s (the longest), 3 when it is older than that.                 *)
(***************************************************************************)
EXTENDS Integers, FiniteSets

CONSTANTS Files         \* names of payload files, each used once; numbers, in order of use

ASSUME LaunchConstants == Files \subseteq Nat

VARIABLES payload,  \* payload[f]: "none", "empty", "staged" or "gone"
          age,      \* age[f]
          owner,    \* owner[f]: "window" or "cli", while that process holds its handle, or "dead"
          keep,     \* keep[f]: the age at which its timer fires, 1 or 2
          window,   \* "off", or "new" until the second sweep of its start, then "settled"
          earlier,  \* the payloads that were there when the window started
          client,   \* the command: "off", "ready", "created", "registered", "staged"
          live,     \* LIVE_STAGED_FILES of the command
          stop      \* the interrupt thread of the command has unlinked what was live

launchVars == <<payload, age, owner, keep, window, earlier, client, live, stop>>

LaunchInit ==
  /\ payload = [f \in Files |-> "none"]
  /\ age = [f \in Files |-> 0]
  /\ owner = [f \in Files |-> "dead"]
  /\ keep = [f \in Files |-> 1]
  /\ window = "off" /\ earlier = {}
  /\ client = "off" /\ live = {} /\ stop = FALSE

There == {f \in Files : payload[f] \in {"empty", "staged"}}
Of(process) == {f \in Files : owner[f] = process}

Unlink(fs) == payload' = [f \in Files |-> IF f \in fs \cap There THEN "gone" ELSE payload[f]]
Release(fs) == owner' = [f \in Files |-> IF f \in fs THEN "dead" ELSE owner[f]]

\* The main thread of the window is in the middle of a launch.
Staging == \E f \in Of("window") : payload[f] = "empty"

\* Time passes alike for every file; a timer that is due fires within the next age.
TimePasses ==
  /\ ~Staging
  /\ \A f \in Of("window") : age[f] < keep[f]
  /\ \E f \in There : age[f] < 3
  /\ age' = [f \in Files |-> IF f \in There /\ age[f] < 3 THEN age[f] + 1 ELSE age[f]]
  /\ UNCHANGED <<payload, owner, keep, window, earlier, client, live, stop>>

-----------------------------------------------------------------------------
(* Staging (TempLaunchFile::create_in, LaunchHandle).                      *)

CreateNew(f, process) ==
  /\ payload[f] = "none" /\ \A g \in Files : g < f => payload[g] # "none"
  /\ payload' = [payload EXCEPT ![f] = "empty"]
  /\ owner' = [owner EXCEPT ![f] = process]

\* The time to keep a payload is a setting, and may differ from one launch to the next.
LaunchFromWindow(f) ==
  /\ window # "off" /\ ~Staging
  /\ CreateNew(f, "window")
  /\ \E k \in {1, 2} : keep' = [keep EXCEPT ![f] = k]
  /\ UNCHANGED <<age, window, earlier, client, live, stop>>

\* The file is registered before its first byte is written.
LaunchFromClient(f) ==
  /\ client = "ready"
  /\ CreateNew(f, "cli")
  /\ client' = "created"
  /\ UNCHANGED <<age, keep, window, earlier, live, stop>>

Register ==
  /\ client = "created"
  /\ client' = "registered" /\ live' = Of("cli")
  /\ UNCHANGED <<payload, age, owner, keep, window, earlier, stop>>

WriteBody(f) ==
  /\ payload[f] = "empty"
  /\ \/ owner[f] = "window" /\ UNCHANGED client
     \/ owner[f] = "cli" /\ client = "registered" /\ client' = "staged"
  /\ payload' = [payload EXCEPT ![f] = "staged"]
  /\ UNCHANGED <<age, owner, keep, window, earlier, live, stop>>

\* A failed write or start of the application drops the handle, which unlinks the file.
LaunchFails(f) ==
  /\ owner[f] = "window" /\ payload[f] = "empty"
  /\ Unlink({f}) /\ Release({f})
  /\ UNCHANGED <<age, keep, window, earlier, client, live, stop>>

-----------------------------------------------------------------------------
(* Unlinking, by the owner.                                                *)

\* As a mistake: a timer collects the payload that was launched first.
TheFirst(f) == {g \in Of("window") : \A h \in Of("window") : g <= h}

TimersPayload(f) == {f}

\* schedule_launch_cleanup: each timer carries the id of its payload.
CleanupTimer(f) ==
  /\ ~Staging
  /\ owner[f] = "window" /\ age[f] >= keep[f]
  /\ Unlink(TimersPayload(f)) /\ Release(TimersPayload(f))
  /\ UNCHANGED <<age, keep, window, earlier, client, live, stop>>

\* The grace period of the command is over, or its launch failed: the handle is dropped.
ClientEnds ==
  /\ client = "ready" \/ (client \in {"registered", "staged"}
                           /\ \A f \in Of("cli") : client = "staged" => age[f] >= 1)
  /\ Unlink(Of("cli")) /\ Release(Of("cli"))
  /\ client' = "off" /\ live' = {} /\ stop' = FALSE
  /\ UNCHANGED <<age, keep, window, earlier>>

\* wipe_session_secrets, request_window_close, request_quit: the whole directory goes.
Purge ==
  /\ window # "off" /\ ~Staging
  /\ Unlink(There) /\ Release(Of("window"))
  /\ UNCHANGED <<age, keep, earlier, client, live, stop>>

Lock == Purge /\ UNCHANGED window
Quit == Purge /\ window' = "off"

\* Ctrl+C: a thread unlinks what is live, and ends the process.
InterruptUnlinks ==
  /\ client # "off" /\ ~stop
  /\ Unlink(live)
  /\ stop' = TRUE
  /\ UNCHANGED <<age, owner, keep, window, earlier, client, live>>

InterruptExits ==
  /\ stop
  /\ Release(Of("cli"))
  /\ client' = "off" /\ live' = {} /\ stop' = FALSE
  /\ UNCHANGED <<payload, age, keep, window, earlier>>

-----------------------------------------------------------------------------
(* Crashes, and the sweeps that collect what they left.                    *)

KillWindow ==
  /\ window # "off"
  /\ window' = "off" /\ Release(Of("window"))
  /\ UNCHANGED <<payload, age, keep, earlier, client, live, stop>>

KillClient ==
  /\ client # "off"
  /\ client' = "off" /\ live' = {} /\ stop' = FALSE /\ Release(Of("cli"))
  /\ UNCHANGED <<payload, age, keep, window, earlier>>

Stale == {f \in There : age[f] = 3}

\* sweep_stale at the start of either, and at every unlock.
StartWindow ==
  /\ window = "off"
  /\ window' = "new" /\ Unlink(Stale) /\ earlier' = There \ Stale
  /\ UNCHANGED <<age, owner, keep, client, live, stop>>

UnlockSweeps ==
  /\ window # "off" /\ ~Staging /\ Stale # {}
  /\ Unlink(Stale)
  /\ UNCHANGED <<age, owner, keep, window, earlier, client, live, stop>>

StartClient ==
  /\ client = "off"
  /\ client' = "ready" /\ Unlink(Stale)
  /\ UNCHANGED <<age, owner, keep, window, earlier, live, stop>>

\* As a mistake: the sweep at the start is the only one.
SweptAlready == UNCHANGED payload

SweptAgain == Unlink(Stale)

\* Two minutes after its start, when what was there then has become stale.
SecondSweep ==
  /\ window = "new" /\ ~Staging
  /\ \A f \in earlier \cap There : age[f] = 3
  /\ window' = "settled" /\ SweptAgain
  /\ UNCHANGED <<age, owner, keep, earlier, client, live, stop>>

LaunchNext ==
  \/ \E f \in Files : \/ LaunchFromWindow(f) \/ LaunchFromClient(f)
                       \/ WriteBody(f) \/ LaunchFails(f) \/ CleanupTimer(f)
  \/ Register \/ ClientEnds \/ Lock \/ Quit \/ InterruptUnlinks \/ InterruptExits
  \/ KillWindow \/ KillClient \/ StartWindow \/ UnlockSweeps \/ StartClient \/ SecondSweep
  \/ TimePasses

LaunchSpec == LaunchInit /\ [][LaunchNext]_launchVars

-----------------------------------------------------------------------------
\* Type invariant of the launch payloads.
LaunchTypeOK ==
  /\ payload \in [Files -> {"none", "empty", "staged", "gone"}]
  /\ age \in [Files -> 0..3] /\ keep \in [Files -> {1, 2}]
  /\ owner \in [Files -> {"window", "cli", "dead"}]
  /\ window \in {"off", "new", "settled"} /\ earlier \subseteq Files
  /\ client \in {"off", "ready", "created", "registered", "staged"}
  /\ live \subseteq Files /\ stop \in BOOLEAN

\* Whatever an earlier run left, killed or interrupted at any point, is gone two minutes into
\* a session, also when that session started right after the crash.
LeftoversAreCollected == earlier \cap There = {}

\* A payload whose process is running is there for the application to read until its time
\* is up, unless the user locks, quits or interrupts: another payload's timer or a sweep does
\* not take it.
KeptUntilItsTime ==
  [][\A f \in There : owner[f] # "dead" /\ age[f] < keep[f] /\ payload[f] = "staged"
                        /\ payload'[f] = "gone"
       => Lock \/ Quit \/ InterruptUnlinks]_launchVars

\* A payload is there while it is needed and, crash or not, not for much longer.
PayloadsLiveTheirTime ==
  [](window = "settled" => LeftoversAreCollected) /\ KeptUntilItsTime
=============================================================================
