----------------------------- MODULE MergeEntry -----------------------------
(***************************************************************************)
(* One entry of a vault that several devices edit and synchronise through  *)
(* a cloud file (src/keepass/merge.rs with the mutations of document.rs).  *)
(* A synchronisation is one step here; what happens while one is under way *)
(* is module VaultSync's subject.  What an entry says is one number per    *)
(* version; where it is and when it changed are as in the code, in seconds.*)
(***************************************************************************)
EXTENDS Integers, FiniteSets

CONSTANTS Devices,      \* installations of FerrisPass on one vault
          Drift,        \* how far the clock of each runs ahead, in seconds
          Places,       \* groups outside the recycle bin
          MaxOps,       \* bound: mutations of the entry, all devices together
          MaxTicks      \* bound: seconds that pass

ASSUME MergeEntryConstants ==
  /\ "cloud" \notin Devices
  /\ Drift \in [Devices -> Nat]
  /\ \A d \in Devices : Drift[d] + MaxOps <= 5   \* clocks and hurried edits stay within MaxTimestampLead
  /\ Places # {} /\ "bin" \notin Places
  /\ MaxOps \in Nat /\ MaxTicks \in Nat

VARIABLES copy,     \* what each device and the cloud file hold
          behind,   \* devices that do not know the cloud file's latest revision
          now,      \* the true time
          ops,      \* mutations so far; a new version is named by its number
          touched,  \* ghost: devices that changed the entry since they last agreed with the cloud
          picked,   \* ghost: versions a user kept when asked
          carried,  \* ghost: versions that were moved as they were
          buried,   \* ghost: the versions each device deleted for good
          base      \* ghost: the stamps of the entry all of them started from

entryVars == <<copy, behind, now, ops, touched, picked, carried, buried, base>>

Cloud == "cloud"
Sides == {"local", "remote"}
NoEntry == [held |-> FALSE]
Texts(e) == {e.text} \union {v.text : v \in e.past}
Version(e) == [text |-> e.text, at |-> e.at]
Refused == [refused |-> TRUE]

Undated == -1
Epoch == 0
Start == 10
MaxTimestampLead == 5
MaxClockSkew == 600
FarFuture == 1000000

ClockOf(d) == now + Drift[d]
Later(a, b) == IF a > b THEN a ELSE b

-----------------------------------------------------------------------------
(* Clocks *)

\* A stamp no clock can have written yet is no evidence.
IsFutureDated(at, clock) == at > clock + MaxClockSkew

TimestampWinner(ours, theirs, clock) ==
  IF \/ Undated \in {ours, theirs}
     \/ IsFutureDated(ours, clock) \/ IsFutureDated(theirs, clock)
     \/ ours = theirs
  THEN "nobody"
  ELSE IF ours > theirs THEN "local" ELSE "remote"

ResolutionTime(stamps, clock) ==
  LET believed == {s \in stamps : s # Undated /\ ~IsFutureDated(s, clock)} \union {clock}
  IN (CHOOSE t \in believed : \A s \in believed : s <= t) + 1

NextChangeTimeByClock(previous, clock) == clock

\* Mutations in one second are told apart, up to a lead no other clock minds.
NextChangeTime(previous, clock) ==
  IF /\ previous # Undated
     /\ clock <= previous
     /\ previous + 1 <= clock + MaxTimestampLead
  THEN previous + 1
  ELSE clock

-----------------------------------------------------------------------------
(* What diff reports of the entry *)

IsLive(c) == c.entry.held /\ c.entry.in # "bin"
BothHold(ours, theirs) == ours.entry.held /\ theirs.entry.held

ContentWinner(ours, theirs, clock) ==
  IF ours.entry.text = theirs.entry.text THEN "same"
  ELSE TimestampWinner(ours.entry.at, theirs.entry.at, clock)

LocationWinner(ours, theirs, clock) ==
  IF ours.entry.in = theirs.entry.in THEN "same"
  ELSE TimestampWinner(ours.entry.moved, theirs.entry.moved, clock)

\* Only an entry outside the bin on both sides can be asked about.
InConflict(ours, theirs, clock) ==
  /\ IsLive(ours) /\ IsLive(theirs)
  /\ "nobody" \in {ContentWinner(ours, theirs, clock), LocationWinner(ours, theirs, clock)}

StructureDiffers(ours, theirs) ==
  \/ ours.grave # theirs.grave
  \/ BothHold(ours, theirs) /\ ours.entry.in # theirs.entry.in

HistoryAhead(ours, theirs) ==
  BothHold(ours, theirs) /\ ~(ours.entry.past \subseteq theirs.entry.past)

HasLocalContributionIgnoringMoves(ours, theirs, clock) ==
  \/ HistoryAhead(ours, theirs)
  \/ IsLive(ours) /\ ~IsLive(theirs)
  \/ /\ IsLive(ours) /\ IsLive(theirs)
     /\ ~InConflict(ours, theirs, clock)
     /\ ContentWinner(ours, theirs, clock) = "local"

HasLocalContribution(ours, theirs, clock) ==
  \/ StructureDiffers(ours, theirs)
  \/ HistoryAhead(ours, theirs)
  \/ IsLive(ours) /\ ~IsLive(theirs)
  \/ /\ IsLive(ours) /\ IsLive(theirs)
     /\ ~InConflict(ours, theirs, clock)
     /\ ContentWinner(ours, theirs, clock) = "local"

-----------------------------------------------------------------------------
(* What apply_picks makes of it *)

\* The answer reaches the content's clock alone.
ForcedInPlace(entry, other, wins, clock) ==
  IF wins
  THEN [entry EXCEPT !.at = ResolutionTime({entry.at, other.at}, clock),
                     !.past = @ \union {Version(other)}]
  ELSE [entry EXCEPT !.at = Epoch]

\* The answer demotes the loser without a new stamp for the winner.
ForcedUnstamped(entry, other, wins, clock) ==
  LET placed == IF entry.moved # other.moved \/ entry.in # other.in
                THEN [entry EXCEPT !.moved = IF wins
                        THEN ResolutionTime({entry.moved, other.moved}, clock) ELSE Epoch]
                ELSE entry
  IN IF wins
     THEN [placed EXCEPT !.past = @ \union {Version(other)}]
     ELSE [placed EXCEPT !.at = Epoch]

\* The answer reaches both clocks, in opposite directions, and the losing
\* version is archived with the winner.
Forced(entry, other, wins, clock) ==
  LET placed == IF entry.moved # other.moved \/ entry.in # other.in
                THEN [entry EXCEPT !.moved = IF wins
                        THEN ResolutionTime({entry.moved, other.moved}, clock) ELSE Epoch]
                ELSE entry
  IN IF wins
     THEN [placed EXCEPT !.at = ResolutionTime({entry.at, other.at}, clock),
                         !.past = @ \union {Version(other)}]
     ELSE [placed EXCEPT !.at = Epoch]

ForceManualWinner(ours, theirs, side, clock) ==
  [ours   |-> [ours EXCEPT !.entry = Forced(@, theirs.entry, side = "local", clock)],
   theirs |-> [theirs EXCEPT !.entry = Forced(@, ours.entry, side = "remote", clock)]]

PreserveAutoResolvedHistory(ours, theirs, winner) ==
  [ours   |-> IF winner = "local"
              THEN [ours EXCEPT !.entry.past = @ \union {Version(theirs.entry)}] ELSE ours,
   theirs |-> IF winner = "remote"
              THEN [theirs EXCEPT !.entry.past = @ \union {Version(ours.entry)}] ELSE theirs]

\* A missing stamp is harmless where the two copies agree anyway.
WarningIsHarmless(ours, theirs) ==
  /\ ours.entry.text = theirs.entry.text
  /\ \/ ours.entry.in = theirs.entry.in
     \/ Undated \notin {ours.entry.moved, theirs.entry.moved}
        /\ ours.entry.moved # theirs.entry.moved

\* Database::merge: a deletion stands unless the entry changed after it, and
\* an entry without a stamp cannot be told.
ForkDelete(entry, grave) ==
  IF entry.held /\ grave # Epoch /\ entry.at = Undated THEN Refused
  ELSE [entry |-> IF entry.held /\ grave # Epoch /\ entry.at <= grave THEN NoEntry ELSE entry,
        grave |-> grave]

\* An entry both hold: the newer one whole, each place by its own clock, all
\* archived versions, and an error where nothing ranks them.
ForkMerge(ours, theirs, harmless, clock) ==
  LET l == ours.entry
      r == theirs.entry
      undated == Undated \in {l.at, r.at}
      remoteNewer == IF undated THEN l.at = Undated /\ r.at > clock ELSE r.at > l.at
      newer == IF remoteNewer THEN r ELSE l
      older == IF remoteNewer THEN l ELSE r
      placedBy == IF l.in = r.in THEN newer ELSE IF r.moved > l.moved THEN r ELSE l
  IN IF \/ l.in # r.in /\ (Undated \in {l.moved, r.moved} \/ l.moved = r.moved)
        \/ ~undated /\ l.at = r.at /\ l.text # r.text
        \/ undated /\ ~harmless
     THEN Refused
     ELSE ForkDelete([newer EXCEPT !.in = placedBy.in, !.moved = placedBy.moved,
                        !.past = l.past \union r.past
                                 \union (IF l.text = r.text THEN {} ELSE {Version(older)})],
                     Later(ours.grave, theirs.grave))

ApplyPicks(ours, theirs, side, clock) ==
  IF ~BothHold(ours, theirs) 
  THEN ForkDelete(IF ours.entry.held THEN ours.entry ELSE theirs.entry,
                  Later(ours.grave, theirs.grave))
  ELSE LET won == ContentWinner(ours, theirs, clock)
           ready == IF InConflict(ours, theirs, clock)
                    THEN ForceManualWinner(ours, theirs, side, clock)
                    ELSE IF IsLive(ours) /\ IsLive(theirs)
                    THEN PreserveAutoResolvedHistory(ours, theirs, won)
                    ELSE [ours |-> ours, theirs |-> theirs]
       IN ForkMerge(ready.ours, ready.theirs, WarningIsHarmless(ours, theirs), clock)

-----------------------------------------------------------------------------
(* The steps *)

\* What other clients leave: stamps in order, one missing, one nobody believes.
EntryInit ==
  /\ \E at, moved \in {Undated, 1, FarFuture} :
       LET g == CHOOSE g \in Places : TRUE IN
       /\ 1 \in {at, moved}
       /\ base = {at, moved}
       /\ copy = [c \in Devices \union {Cloud} |->
                   [entry |-> [held |-> TRUE, text |-> 0, at |-> at, in |-> g,
                               moved |-> moved, past |-> {}],
                    grave |-> Epoch]]
  /\ behind = {}
  /\ now = Start
  /\ ops = 0
  /\ touched = {}
  /\ picked = {}
  /\ carried = {}
  /\ buried = [d \in Devices |-> {}]

Mutate(d, c) ==
  /\ ops < MaxOps
  /\ ops' = ops + 1
  /\ copy' = [copy EXCEPT ![d] = c]
  /\ touched' = touched \union {d}
  /\ UNCHANGED <<behind, now, picked, base>>

UpdateEntryInPlace(d) ==
  /\ copy[d].entry.held
  /\ Mutate(d, [copy[d] EXCEPT !.entry.text = ops + 1,
                               !.entry.at = NextChangeTime(@, ClockOf(d))])
  /\ UNCHANGED <<carried, buried>>

UpdateEntry(d) ==
  /\ copy[d].entry.held
  /\ Mutate(d, [copy[d] EXCEPT !.entry.text = ops + 1,
                               !.entry.at = NextChangeTime(@, ClockOf(d)),
                               !.entry.past = @ \union {Version(copy[d].entry)}])
  /\ UNCHANGED <<carried, buried>>

\* A move, a deletion and a restoration advance both clocks.
Relocate(d, g) ==
  LET e == copy[d].entry
      at == NextChangeTime(Later(e.at, e.moved), ClockOf(d))
  IN /\ Mutate(d, [copy[d] EXCEPT !.entry.in = g, !.entry.at = at, !.entry.moved = at,
                                  !.entry.past = @ \union {Version(e)}])
     /\ carried' = carried \union {e.text}
     /\ UNCHANGED buried

MoveEntry(d, g) ==
  /\ IsLive(copy[d])
  /\ copy[d].entry.in # g
  /\ Relocate(d, g)

DeleteEntry(d) ==
  /\ IsLive(copy[d])
  /\ Relocate(d, "bin")

\* Where it was before is module GroupTree's subject: any place will do.
RestoreEntry(d) ==
  /\ copy[d].entry.held /\ ~IsLive(copy[d])
  /\ \E g \in Places : Relocate(d, g)

DeleteEntryPermanentByClock(d) ==
  /\ copy[d].entry.held
  /\ Mutate(d, [entry |-> NoEntry, grave |-> ClockOf(d)])
  /\ buried' = [buried EXCEPT ![d] = @ \union {copy[d].entry.text}]
  /\ UNCHANGED carried

DeleteEntryPermanent(d) ==
  LET e == copy[d].entry
  IN /\ e.held
     /\ Mutate(d, [entry |-> NoEntry,
                   grave |-> NextChangeTime(Later(e.at, e.moved), ClockOf(d))])
     /\ buried' = [buried EXCEPT ![d] = @ \union {e.text}]
     /\ UNCHANGED carried

\* Where the cloud file is as this device left it, its copy is uploaded as it is.
Upload(d) ==
  /\ d \notin behind
  /\ copy[d] # copy[Cloud]
  /\ copy' = [copy EXCEPT ![Cloud] = copy[d]]
  /\ behind' = Devices \ {d}
  /\ touched' = touched \ {d}
  /\ UNCHANGED <<now, ops, picked, carried, buried, base>>

Ask(d) == d \in behind /\ InConflict(copy[d], copy[Cloud], ClockOf(d))
Outcome(d, side) == ApplyPicks(copy[d], copy[Cloud], side, ClockOf(d))
Contributes(d) == Ask(d) \/ HasLocalContribution(copy[d], copy[Cloud], ClockOf(d))

\* Otherwise the two are merged: without a question only what this copy
\* contributes is uploaded, an answer always is.
Merge(d) ==
  /\ d \in behind
  /\ \E side \in IF Ask(d) THEN Sides ELSE {"local"} :
       LET merged == Outcome(d, side)
           cloud == IF Contributes(d) THEN merged ELSE copy[Cloud]
       IN /\ merged # Refused
          /\ copy' = [copy EXCEPT ![d] = merged, ![Cloud] = cloud]
          /\ picked' = IF Ask(d) /\ merged.entry.held
                       THEN picked \union {merged.entry.text} ELSE picked
          /\ touched' = IF merged = cloud THEN touched \ {d} ELSE touched
          /\ behind' = IF Contributes(d) THEN Devices \ {d} ELSE behind \ {d}
  /\ UNCHANGED <<now, ops, carried, buried, base>>

Tick ==
  /\ now < Start + MaxTicks
  /\ now' = now + 1
  /\ UNCHANGED <<copy, behind, ops, touched, picked, carried, buried, base>>

EntryNext ==
  \/ \E d \in Devices :
       \/ UpdateEntry(d) \/ DeleteEntry(d) \/ RestoreEntry(d) \/ DeleteEntryPermanent(d)
       \/ \E g \in Places : MoveEntry(d, g)
       \/ Upload(d) \/ Merge(d)
  \/ Tick

EntrySpec == EntryInit /\ [][EntryNext]_entryVars
-----------------------------------------------------------------------------
(* Properties *)

EntryTypeOK ==
  /\ \A c \in Devices \union {Cloud} :
       /\ copy[c].grave \in Nat
       /\ copy[c].entry.held =>
            /\ copy[c].entry.text \in 0..MaxOps
            /\ copy[c].entry.in \in Places \union {"bin"}
            /\ \A v \in copy[c].entry.past : v.text \in 0..MaxOps /\ v.at \in Nat \union {Undated}
            /\ {copy[c].entry.at, copy[c].entry.moved} \subseteq Nat \union {Undated}
  /\ now \in Start..(Start + MaxTicks)
  /\ ops \in 0..MaxOps
  /\ touched \subseteq Devices /\ behind \subseteq Devices

\* A device that changed nothing since it last agreed with the cloud is never asked:
\* what another device decided is not asked a second time.  Holds for an entry
\* that started with stamps to believe (merge.rs, resolution_time), and for two
\* devices: a merge may keep a version with an older move than the cloud had, and a
\* third device can be left with a newer one.
AskedOnce ==
  base \intersect {Undated, FarFuture} = {} => \A d \in Devices \ touched : ~Ask(d)

\* Where an entry is outside the bin in both copies and no deletion of it is on
\* record, a merge whose question is answered goes through: "Merge blocked"
\* would leave nothing to answer.
AnsweredMergeSucceeds ==
  \A d \in behind, side \in Sides :
    /\ IsLive(copy[d]) /\ IsLive(copy[Cloud])
    /\ copy[d].grave = Epoch /\ copy[Cloud].grave = Epoch
    => Outcome(d, side) # Refused

\* The side the user picked is what the merged entry says and where it is, on
\* whichever clock the two copies differed.
PickStands ==
  \A d \in Devices, side \in Sides :
    Ask(d) /\ Outcome(d, side) # Refused /\ Outcome(d, side).entry.held =>
      LET chosen == IF side = "local" THEN copy[d].entry ELSE copy[Cloud].entry
          merged == Outcome(d, side).entry
      IN merged.text = chosen.text /\ merged.in = chosen.in

BroughtBack(d) ==
  /\ d \in behind
  /\ IsLive(copy[d]) /\ IsLive(copy[Cloud])
  /\ ~Ask(d)
  /\ Outcome(d, "local") # Refused /\ Outcome(d, "local").entry.held
  /\ Outcome(d, "local").entry.text # copy[d].entry.text
  /\ Outcome(d, "local").entry.text \in {v.text : v \in copy[d].entry.past}

\* A merge nobody was asked about never brings back a version this copy had
\* already replaced, unless a user kept the older one when asked or moved it:
\* content goes by the clock of the content, and an edit is newer than what it
\* was made from.  Moving an entry stamps its content too, so that an older
\* version moved later counts as the newer one.
EditBeatsItsBase ==
  FarFuture \notin base =>
    \A d \in Devices : BroughtBack(d) => Outcome(d, "local").entry.text \in picked \union carried

\* No merge brings back a version its device deleted for good, unless
\* elsewhere a user kept it when asked or moved it since.
DeletedStaysDeleted ==
  FarFuture \notin base =>
    \A d \in Devices :
      copy[d].entry.held => copy[d].entry.text \notin buried[d] \ (picked \union carried)

\* What a merge decides not to upload, the cloud has: the entry, its place and
\* its deletion, though not the archived version of an edit of ours that lost.
\* Not so of an entry in the bin of both, which diff never looks at.
SkippedUploadLosesNothing ==
  FarFuture \notin base =>
  \A d \in behind :
    LET merged == Outcome(d, "local")
    IN /\ IsLive(copy[d]) \/ IsLive(copy[Cloud])
       /\ merged # Refused
       /\ ~Contributes(d)
       => /\ merged.grave = copy[Cloud].grave
          /\ merged.entry.held = copy[Cloud].entry.held
          /\ merged.entry.held =>
               /\ merged.entry.text = copy[Cloud].entry.text
               /\ merged.entry.in = copy[Cloud].entry.in
               /\ \A v \in merged.entry.past \ copy[Cloud].entry.past :
                    copy[d].entry.held /\ v = Version(copy[d].entry)

\* No step of any device loses a version another one still counts on: all that
\* an entry ever said on a device stays with it until it is deleted for good.
NothingForgotten ==
  [][\A c \in Devices \union {Cloud} :
       copy[c].entry.held /\ copy'[c].entry.held =>
         Texts(copy[c].entry) \subseteq Texts(copy'[c].entry)]_entryVars

Follows(c, d) ==
  /\ c.grave = d.grave
  /\ c.entry.held = d.entry.held
  /\ c.entry.held => /\ c.entry.text = d.entry.text
                     /\ c.entry.in = d.entry.in
                     /\ d.entry.past \subseteq c.entry.past

\* A device that changed nothing since it last agreed with the cloud takes over
\* what the cloud holds, and so ends up where every other such device does.  Of
\* two devices, as AskedOnce.
UnchangedCopyFollows ==
  base \intersect {Undated, FarFuture} = {} =>
    \A d \in behind \ touched : Follows(Outcome(d, "local"), copy[Cloud])

\* A question is asked once and its answer settles it: on every device, with
\* both clocks, and with nothing left to refuse (apply_picks, force_winner).
AnswersStand == AskedOnce /\ AnsweredMergeSucceeds /\ PickStands

\* Where nobody is asked the last word wins, on every device alike, also over
\* a deletion, and no version is lost on the way, sent or not (merge_databases,
\* has_local_contribution).
LastWordWins ==
  /\ [](EditBeatsItsBase /\ DeletedStaysDeleted /\ UnchangedCopyFollows /\ SkippedUploadLosesNothing)
  /\ NothingForgotten
=============================================================================
