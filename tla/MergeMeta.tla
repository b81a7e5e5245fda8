----------------------------- MODULE MergeMeta -----------------------------
(***************************************************************************)
(* What several devices and a cloud file agree on beside the entries: the  *)
(* vault's name, which group is its recycle bin, where the groups and the  *)
(* entries are, and the markers a later version of the program keeps       *)
(* (src/keepass/merge.rs).  An entry is deleted when it is below the bin,  *)
(* so a merge of bins decides what is deleted.                             *)
(***************************************************************************)
EXTENDS Integers

CONSTANTS Installs,       \* devices
          OwnBin,         \* the group each would make as its bin
          SharedGroups,   \* groups every copy starts with
          Secrets,        \* entries
          MaxEdits,       \* bound: changes, all devices together
          LastTime        \* bound: when the clock stops

ASSUME MergeMetaConstants ==
  /\ "server" \notin Installs /\ {"root", "none"} \intersect SharedGroups = {}
  /\ OwnBin \in [Installs -> STRING]
  /\ \A c \in Installs : OwnBin[c] \notin SharedGroups \union {"root", "none"}
  /\ \A c, d \in Installs : OwnBin[c] = OwnBin[d] => c = d   \* a fresh UUID
  /\ MaxEdits \in Nat /\ LastTime \in Nat

VARIABLES vault,    \* what each device and the cloud file hold
          stale,    \* devices that do not know the cloud file's latest revision
          time,
          changed     \* changes and answers so far; a new name or marker is its number

metaVars == <<vault, stale, time, changed>>

Server == "server"
Top == "root"
None == "none"
AllGroups == SharedGroups \union {OwnBin[d] : d \in Installs}
NoDate == -1
NoMarker == 0
DayOne == 0
Newest(a, b) == IF a > b THEN a ELSE b

\* Sets of places that have, with each group in them, the place the group is in.
ClosedUpwards(where) ==
  {S \in SUBSET (AllGroups \union {Top, None}) : \A h \in S \intersect AllGroups : where[h] \in S}

\* group_is_within: what the walk upwards from g meets is in every such set that g is in.
Under(v, g, top) == \A S \in ClosedUpwards(v.where) : g \in S => top \in S

GroupsOf(v) == {g \in AllGroups : v.where[g] # None}
Has(v, g) == g \in GroupsOf(v)
Deleted(v, e) == v.bin # None /\ Under(v, v.entry[e], v.bin)
HoldsEntries(v, g) == \E e \in Secrets : Under(v, v.entry[e], g)

-----------------------------------------------------------------------------
(* Which side decides *)

\* A side that dates its change against one that does not recorded making it.
Rank(ours, theirs) ==
  IF ours = theirs THEN None ELSE IF ours > theirs THEN "local" ELSE "remote"

NameWinner(ours, theirs) ==
  IF ours.name = theirs.name THEN "same" ELSE Rank(ours.nameAt, theirs.nameAt)

\* The clock decides, unless the other side's bin still holds entries on the
\* deciding side, where it is an ordinary group.
RecycleBinWinner(ours, theirs) ==
  LET ranked == Rank(ours.binAt, theirs.binAt)
      winner == IF ranked = "local" THEN ours ELSE theirs
      displaced == IF ranked = "local" THEN theirs.bin ELSE ours.bin
  IN IF ours.bin = theirs.bin THEN "same"
     ELSE IF \/ ranked = None \/ displaced = None \/ ~Has(winner, displaced)
             \/ ~HoldsEntries(winner, displaced)
             \/ winner.bin # None /\ Under(winner, displaced, winner.bin)
     THEN ranked ELSE None

TiedGroups(ours, theirs) ==
  {g \in AllGroups : /\ Has(ours, g) /\ Has(theirs, g)
                     /\ ours.where[g] # theirs.where[g]
                     /\ ours.moved[g] = theirs.moved[g]}
TiedEntries(ours, theirs) ==
  {e \in Secrets : ours.entry[e] # theirs.entry[e] /\ ours.put[e] = theirs.put[e]}

MustAsk(ours, theirs) ==
  \/ None \in {NameWinner(ours, theirs), RecycleBinWinner(ours, theirs)}
  \/ TiedGroups(ours, theirs) # {}
  \/ \E e \in TiedEntries(ours, theirs) : ~Deleted(ours, e) /\ ~Deleted(theirs, e)

SettingsToSend(ours, theirs) ==
  "local" \in {NameWinner(ours, theirs), RecycleBinWinner(ours, theirs)}

\* meta_local_contributes and what structural_state_differs says of places
SomethingToSend(ours, theirs) ==
  \/ "local" \in {NameWinner(ours, theirs), RecycleBinWinner(ours, theirs)}
  \/ ours.where # theirs.where
  \/ ours.entry # theirs.entry

-----------------------------------------------------------------------------
(* What apply_picks makes of it *)

After(a, b) == Newest(Newest(a, b), time) + 1

ForceWholeMeta(ours, theirs, side) ==
  LET chosen == IF side = "local" THEN ours ELSE theirs
  IN [ours |-> [ours EXCEPT
        !.name = chosen.name, !.nameAt = After(ours.nameAt, theirs.nameAt),
        !.bin = chosen.bin, !.binAt = After(ours.binAt, theirs.binAt)],
      theirs |-> [theirs EXCEPT !.nameAt = DayOne, !.binAt = DayOne]]

\* force_metadata_winner: only what nothing ranks, and each on its own clock.
ForceMeta(ours, theirs, side) ==
  LET namePicked == NameWinner(ours, theirs) = None
      binPicked == RecycleBinWinner(ours, theirs) = None
      chosen == IF side = "local" THEN ours ELSE theirs
  IN [ours |-> [ours EXCEPT
        !.name = IF namePicked THEN chosen.name ELSE @,
        !.nameAt = IF namePicked THEN After(ours.nameAt, theirs.nameAt) ELSE @,
        !.bin = IF binPicked THEN chosen.bin ELSE @,
        !.binAt = IF binPicked THEN After(ours.binAt, theirs.binAt) ELSE @],
      theirs |-> [theirs EXCEPT
        !.nameAt = IF namePicked THEN DayOne ELSE @,
        !.binAt = IF binPicked THEN DayOne ELSE @]]

\* force_group_winner and force_manual_winner, of the places that tie
ForcePlaces(ours, theirs, side) ==
  LET groups == TiedGroups(ours, theirs)
      entries == {e \in TiedEntries(ours, theirs) : ~Deleted(ours, e) /\ ~Deleted(theirs, e)}
      Stamped(v, wins) == [v EXCEPT
        !.moved = [g \in AllGroups |-> IF g \notin groups THEN @[g] ELSE IF wins
                                       THEN After(ours.moved[g], theirs.moved[g]) ELSE DayOne],
        !.put = [e \in Secrets |-> IF e \notin entries THEN @[e] ELSE IF wins
                                   THEN After(ours.put[e], theirs.put[e]) ELSE DayOne]]
  IN [ours |-> Stamped(ours, side = "local"), theirs |-> Stamped(theirs, side = "remote")]

OurMarker(ours, theirs) == ours

\* A marker one side has is kept; of two the later one, else the other side's.
StandingMarker(ours, theirs) ==
  IF theirs.value = NoMarker THEN ours
  ELSE IF ours.value = NoMarker THEN theirs
  ELSE IF ours.value = theirs.value THEN [ours EXCEPT !.at = Newest(@, theirs.at)]
  ELSE IF NoDate \notin {ours.at, theirs.at} /\ ours.at > theirs.at THEN ours ELSE theirs

\* Database::merge: settings and places go by their clocks, the local ones stay on a tie.
ForkTogether(ours, theirs) ==
  LET theirMove(g) == Has(theirs, g) /\ (~Has(ours, g) \/ theirs.moved[g] > ours.moved[g])
      theirPut(e) == theirs.put[e] > ours.put[e]
  IN [ours EXCEPT
        !.name = IF theirs.nameAt > ours.nameAt THEN theirs.name ELSE @,
        !.nameAt = Newest(@, theirs.nameAt),
        !.bin = IF theirs.binAt > ours.binAt THEN theirs.bin ELSE @,
        !.binAt = Newest(@, theirs.binAt),
        !.where = [g \in AllGroups |-> IF theirMove(g) THEN theirs.where[g] ELSE @[g]],
        !.moved = [g \in AllGroups |-> IF theirMove(g) THEN theirs.moved[g] ELSE @[g]],
        !.entry = [e \in Secrets |-> IF theirPut(e) THEN theirs.entry[e] ELSE @[e]],
        !.put = [e \in Secrets |-> IF theirPut(e) THEN theirs.put[e] ELSE @[e]]]

Placed(v, g, target) == [v EXCEPT !.where[g] = target, !.moved[g] = time]

\* Under the bin; a bin that is itself below the group is lifted out first.
NestIntoBin(v, g) ==
  Placed(IF Under(v, v.bin, g) THEN Placed(v, v.bin, v.where[g]) ELSE v, g, v.bin)

NeverRetired(sides, designated, g) == FALSE

\* The side that designated the bin knows the group as an ordinary one.
RetiredOnPurpose(sides, designated, g) ==
  \E v \in sides : v.bin = designated /\ Has(v, g)

BinsLeftApart(v, ours, theirs) == v

\* The bins of either side that lost go into the one that won.
ReuniteRecycleBins(v, ours, theirs) ==
  LET displaced == {g \in {ours.bin, theirs.bin} \ {None, v.bin} :
                      Has(v, g) /\ ~RetiredOnPurpose({ours, theirs}, v.bin, g)}
  IN IF v.bin = None \/ displaced = {} THEN v
     ELSE NestIntoBin(v, CHOOSE g \in displaced : TRUE)

Together(ours, theirs, side) ==
  LET placed == ForcePlaces(ours, theirs, side)
      forced == ForceMeta(placed.ours, placed.theirs, side)
      merged == [ForkTogether(forced.ours, forced.theirs)
                   EXCEPT !.marker = StandingMarker(ours.marker, theirs.marker)]
  IN ReuniteRecycleBins(merged, ours, theirs)

Circular(v) == \E g \in AllGroups : Has(v, g) /\ ~Under(v, g, Top)
-----------------------------------------------------------------------------
(* The steps *)

MetaInit ==
  /\ \E bin \in SharedGroups \union {None} : vault = [c \in Installs \union {Server} |->
                [name |-> 0, nameAt |-> NoDate, bin |-> bin, binAt |-> NoDate,
                 marker |-> [value |-> NoMarker, at |-> NoDate],
                 where |-> [g \in AllGroups |-> IF g \in SharedGroups THEN Top ELSE None],
                 moved |-> [g \in AllGroups |-> DayOne],
                 entry |-> [e \in Secrets |-> Top],
                 put |-> [e \in Secrets |-> DayOne]]]
  /\ stale = {}
  /\ time = 1
  /\ changed = 0

Edit(d, v) ==
  /\ changed < MaxEdits
  /\ changed' = changed + 1
  /\ vault' = [vault EXCEPT ![d] = v]
  /\ UNCHANGED <<stale, time>>

Later1(t) == IF time <= t THEN t + 1 ELSE time

\* delete_entry: a vault without a bin gets one, a fresh group of this device.
Trash(d, e) ==
  LET v == vault[d]
      new == v.bin = None
      bin == IF new THEN OwnBin[d] ELSE v.bin
  IN /\ ~Deleted(v, e)
     /\ new => ~Has(v, bin)
     /\ Edit(d, [v EXCEPT !.bin = bin, !.binAt = IF new THEN time ELSE @,
                          !.where[bin] = IF new THEN Top ELSE @,
                          !.moved[bin] = IF new THEN time ELSE @,
                          !.entry[e] = bin, !.put[e] = Later1(@)])

MoveSecret(d, e, g) ==
  /\ g \in (GroupsOf(vault[d]) \union {Top}) \ {vault[d].entry[e]}
  /\ Edit(d, [vault[d] EXCEPT !.entry[e] = g, !.put[e] = Later1(@)])

\* What only other clients that open the file change: a bin may also be
\* designated afresh.
RenameVault(d) ==
  Edit(d, [vault[d] EXCEPT !.name = changed + 1, !.nameAt = time])
DesignateBin(d, g) ==
  /\ g \in GroupsOf(vault[d]) \union {None}
  /\ Edit(d, [vault[d] EXCEPT !.bin = g, !.binAt = time])
SetMarker(d) ==
  \E t \in {NoDate, time} :
    Edit(d, [vault[d] EXCEPT !.marker = [value |-> changed + 1, at |-> t]])

Send(d) ==
  /\ d \notin stale
  /\ vault[d] # vault[Server]
  /\ vault' = [vault EXCEPT ![Server] = vault[d]]
  /\ stale' = Installs \ {d}
  /\ UNCHANGED <<time, changed>>

Asked(d) == MustAsk(vault[d], vault[Server])
Result(d, side) == Together(vault[d], vault[Server], side)
Sends(d) == Asked(d) \/ SomethingToSend(vault[d], vault[Server])

Blocked(d) == \E e \in TiedEntries(vault[d], vault[Server]) :
                Deleted(vault[d], e) \/ Deleted(vault[Server], e)

Reconcile(d) ==
  /\ d \in stale
  /\ Asked(d) => changed < MaxEdits
  /\ changed' = IF Asked(d) THEN changed + 1 ELSE changed
  /\ ~Blocked(d)
  /\ \E v \in {Result(d, side) : side \in IF Asked(d) THEN {"local", "remote"} ELSE {"local"}} :
       /\ ~Circular(v)
       /\ vault' = [vault EXCEPT ![d] = v, ![Server] = IF Sends(d) THEN v ELSE @]
  /\ stale' = IF Sends(d) THEN Installs \ {d} ELSE stale \ {d}
  /\ UNCHANGED time

\* Two moments that nothing happens between are one.
TheClockMoves ==
  /\ time < LastTime /\ time <= changed
  /\ time' = time + 1
  /\ UNCHANGED <<vault, stale, changed>>

MetaNext ==
  \/ \E d \in Installs :
       \/ \E e \in Secrets : Trash(d, e) \/ \E g \in AllGroups \union {Top} : MoveSecret(d, e, g)
       \/ \E g \in AllGroups \union {None} : DesignateBin(d, g)
       \/ RenameVault(d) \/ SetMarker(d) \/ Send(d) \/ Reconcile(d)
  \/ TheClockMoves

MetaSpec == MetaInit /\ [][MetaNext]_metaVars
-----------------------------------------------------------------------------
(* Properties *)

MetaTypeOK ==
  /\ \A c \in Installs \union {Server} :
       LET v == vault[c] IN
       /\ v.bin \in GroupsOf(v) \union {None}
       /\ v.where \in [AllGroups -> AllGroups \union {Top, None}]
       /\ v.entry \in [Secrets -> AllGroups \union {Top}]
       /\ {v.nameAt, v.binAt} \subseteq Nat \union {NoDate}
  /\ stale \subseteq Installs
  /\ changed \in 0..MaxEdits

\* A merge that asks nothing and goes through.
Quiet(d) == d \in stale /\ ~Asked(d) /\ ~Blocked(d)
SamePlace(d, e) == vault[d].entry[e] = vault[Server].entry[e]
SameGroups(d) == \A g \in GroupsOf(vault[d]) \intersect GroupsOf(vault[Server]) :
                   vault[d].where[g] = vault[Server].where[g]
Silent(d) == Result(d, "local")

BinDecider(d, side) ==
  LET winner == RecycleBinWinner(vault[d], vault[Server])
  IN IF (IF winner \in {"local", "remote"} THEN winner ELSE side) = "local"
     THEN vault[d] ELSE vault[Server]

\* An entry that both copies have in the same place is deleted after a merge
\* if it is for both, live if it is for both, and otherwise what it is for the
\* copy whose bin was designated last or picked: no archive goes into the bin
\* and nothing comes back from it only because two bins met.  Of copies whose
\* common groups are where they were.
SameEntrySameFate ==
  \A d \in stale, e \in Secrets, side \in {"local", "remote"} :
    SamePlace(d, e) /\ SameGroups(d) /\ ~Blocked(d) =>
      Deleted(Result(d, side), e) =
        IF Deleted(vault[d], e) = Deleted(vault[Server], e)
        THEN Deleted(vault[d], e) ELSE Deleted(BinDecider(d, side), e)

LastToPlace(d, e) == IF vault[d].put[e] > vault[Server].put[e] THEN vault[d] ELSE vault[Server]
Undeleted(d, e) ==
  /\ ~SamePlace(d, e) /\ Deleted(LastToPlace(d, e), e)
  /\ Quiet(d)
  /\ LET v == Silent(d) IN v.bin # None /\ ~Deleted(v, e)

\* A deletion that is the last word on where an entry is survives the merge of
\* two bins, where each copy made its own: the bin that lost goes into the
\* other.
DeletionSurvivesReunion ==
  \A d \in stale, e \in Secrets :
    Undeleted(d, e) => RetiredOnPurpose({vault[d], vault[Server]}, Silent(d).bin,
                                        LastToPlace(d, e).bin)

\* The same where the copy that decided has the other one's bin as an ordinary
\* group: recycle_bin_winner means to ask then.
TrashedStaysTrashed == \A d \in stale, e \in Secrets : ~Undeleted(d, e)

\* However bins are nested and lifted out, every group stays below the root in
\* a merge that does not ask.
NoGroupInItself ==
  \A d \in stale : Quiet(d) => ~Circular(Silent(d))

\* What a merge decides not to upload, the cloud file has, name and bin and
\* places; a marker alone asks for no upload.
SkippedUploadAgrees ==
  \A d \in stale : ~Sends(d) =>
    LET v == Silent(d)
    IN /\ v.name = vault[Server].name /\ v.bin = vault[Server].bin
       /\ v.where = vault[Server].where /\ v.entry = vault[Server].entry

\* An answer settles what nothing ranked and reverts no setting that the other
\* side changed last.
PickSettlesTiesOnly ==
  \A d \in stale :
    /\ NameWinner(vault[d], vault[Server]) # None =>
         Result(d, "local").name = Result(d, "remote").name
    /\ RecycleBinWinner(vault[d], vault[Server]) # None =>
         Result(d, "local").bin = Result(d, "remote").bin

\* A marker that reached the cloud file stays there, whichever copies merge:
\* a version that cannot read markers keeps them for one that can.
MarkersSurvive ==
  [][vault[Server].marker.value # NoMarker => vault'[Server].marker.value # NoMarker]_metaVars

\* When copies with different bins meet, what is deleted is what the deciding
\* copy has deleted, and no group ends up in itself (reunite_recycle_bins).
BinsReunite == SameEntrySameFate /\ DeletionSurvivesReunion /\ NoGroupInItself

\* The vault's own settings: an answer touches ties only, a merge that sends
\* nothing had nothing to send, and markers are carried (force_meta_winner,
\* has_local_contribution, merge_markers).
SettingsSettle == [](PickSettlesTiesOnly /\ SkippedUploadAgrees) /\ MarkersSurvive
=============================================================================
