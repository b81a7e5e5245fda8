----------------------------- MODULE GroupTree -----------------------------
(***************************************************************************)
(* The groups and entries of one open vault and its recycle bin: the       *)
(* mutations of src/keepass/document.rs.  Stamps are seconds, the contents *)
(* of an entry one number per version and an icon.                         *)
(***************************************************************************)
EXTENDS Integers, Sequences

CONSTANTS Groups,       \* ids of groups below the root
          Entries,      \* ids of entries
          Icons,        \* custom images
          Layouts,      \* where everything is when the vault is opened, and which group is the bin
          HistoryCap,   \* the vault's HistoryMaxItems
          MaxLead,      \* how far a stamp may be ahead of the clock: 5 s in the code
          MaxChanges,   \* bound: mutations
          LastSecond    \* bound: when the clock stops

VARIABLES parent,     \* where each group and entry is, Nowhere if there is none of that id
          previous,   \* PreviousParentGroup
          recycleBin, \* the group Meta names as recycle bin, if there is one
          says,       \* each entry's current version: its number and its icon
          past,       \* each entry's archived versions, newest first
          icons,      \* the vault's table of custom images
          at, moved,  \* last_modification and location_changed
          grave,      \* deleted_objects: when, 0 if not
          second,     \* the clock
          changes,    \* mutations so far
          home        \* ghost: the place the last deletion took each group or entry from

treeVars == <<parent, previous, recycleBin, says, past, icons, at, moved, grave,
              second, changes, home>>
stamps == <<at, moved, grave>>

Root == "root"
Nowhere == "nowhere"
NoIcon == "no icon"
Items == Groups \union Entries

Exists(x) == x = Root \/ parent[x] # Nowhere
ThereAre(S) == {x \in S : Exists(x)}
GroupsNow == {Root} \union ThereAre(Groups)

\* Sets of places that have, with each group in them, the place the group is in.
UpwardClosed(where) ==
  {S \in SUBSET (Groups \union {Root, Nowhere}) : \A g \in S \intersect Groups : where[g] \in S}

\* group_is_within: the walk upwards from x, x itself included, meets what is in every such set
\* that x is in.
Within(where, x, ancestor) == \A S \in UpwardClosed(where) : x \in S => ancestor \in S

\* What is there hangs below the root.
Hangs(where) == \A x \in Items : where[x] # Nowhere => Within(where, where[x], Root)

\* A vault that can be opened is a tree: groups are nested in its file.
ASSUME GroupTreeConstants ==
  /\ Root \notin Items /\ Nowhere \notin Items
  /\ Groups \intersect Entries = {}
  /\ \A x \in Layouts :
       /\ x.parent \in [Items -> Groups \union {Root, Nowhere}]
       /\ Hangs(x.parent)
       /\ x.bin \in Groups \union {Nowhere}
       /\ x.bin # Nowhere => x.parent[x.bin] # Nowhere
  /\ HistoryCap \in Nat /\ MaxLead \in Nat /\ MaxChanges \in Nat /\ LastSecond \in Nat

InBin(x) == recycleBin # Nowhere /\ Within(parent, parent[x], recycleBin)

Larger(a, b) == IF a > b THEN a ELSE b
NextTime(before) ==
  IF second <= before /\ before + 1 <= second + MaxLead THEN before + 1 ELSE second

-----------------------------------------------------------------------------
TreeInit ==
  \E layout \in Layouts :
    /\ parent = layout.parent
    /\ recycleBin = layout.bin
    /\ previous = [x \in Items |-> Nowhere]
    /\ says = [e \in Entries |-> [text |-> 0, icon |-> NoIcon]]
    /\ past = [e \in Entries |-> <<>>]
    /\ icons = {}
    /\ at = [x \in Items |-> 1]
    /\ moved = [x \in Items |-> 1]
    /\ grave = [x \in Items |-> 0]
    /\ second = 1
    /\ changes = 0
    /\ home = [x \in Items |-> Nowhere]

IconsOf(versions) == {v.icon : v \in versions} \ {NoIcon}
VersionsOf(s, p, e) == {s[e]} \union {p[e][i] : i \in DOMAIN p[e]}
Untrimmed(history) == history

Trimmed(history) ==
  SubSeq(history, 1, IF Len(history) < HistoryCap THEN Len(history) ELSE HistoryCap)

PrunedBeforeTheTrim(where, s, p, table) ==
  /\ parent' = where
  /\ says' = s
  /\ past' = [e \in Entries |-> Trimmed(p[e])]
  /\ icons' = table \intersect
       UNION {IconsOf(VersionsOf(s, p, e)) : e \in {x \in Entries : where[x] # Nowhere}}
  /\ changes < MaxChanges
  /\ changes' = changes + 1
  /\ UNCHANGED second

\* Every mutation ends in refresh_snapshot: histories are trimmed, then the
\* images no version uses any more are collected.
RefreshSnapshot(where, s, p, table) ==
  /\ parent' = where
  /\ says' = s
  /\ past' = [e \in Entries |-> Trimmed(p[e])]
  /\ icons' = table \intersect
       UNION {IconsOf(VersionsOf(s, past', e)) : e \in {x \in Entries : where[x] # Nowhere}}
  /\ changes < MaxChanges
  /\ changes' = changes + 1
  /\ UNCHANGED second

\* track_changes: the version so far is archived when the edit closes.
Tracked(e) == [past EXCEPT ![e] = <<says[e]>> \o @]

CreateEntry(e, g) ==
  /\ ~Exists(e) /\ grave[e] = 0 /\ g \in GroupsNow
  /\ at' = [at EXCEPT ![e] = second]
  /\ moved' = [moved EXCEPT ![e] = second]
  /\ RefreshSnapshot([parent EXCEPT ![e] = g],
                     [says EXCEPT ![e] = [text |-> changes + 1, icon |-> NoIcon]], past, icons)
  /\ UNCHANGED <<previous, recycleBin, grave, home>>

\* update_entry, toggle_starred and set_entry_tags write different fields.
UpdateEntryText(e) ==
  /\ Exists(e)
  /\ at' = [at EXCEPT ![e] = NextTime(@)]
  /\ RefreshSnapshot(parent, [says EXCEPT ![e].text = changes + 1], Tracked(e), icons)
  /\ UNCHANGED <<previous, recycleBin, moved, grave, home>>

SetEntryCustomIcon(e, i) ==
  /\ Exists(e)
  /\ says[e].icon # i
  /\ at' = [at EXCEPT ![e] = NextTime(@)]
  /\ RefreshSnapshot(parent, [says EXCEPT ![e].icon = i], Tracked(e), icons \union {i})
  /\ UNCHANGED <<previous, recycleBin, moved, grave, home>>

CreateGroup(g, below) ==
  /\ ~Exists(g) /\ below \in GroupsNow
  /\ at' = [at EXCEPT ![g] = second]
  /\ moved' = [moved EXCEPT ![g] = second]
  /\ RefreshSnapshot([parent EXCEPT ![g] = below], says, past, icons)
  /\ UNCHANGED <<previous, recycleBin, grave, home>>

RenameGroup(g) ==
  /\ Exists(g)
  /\ at' = [at EXCEPT ![g] = NextTime(@)]
  /\ RefreshSnapshot(parent, says, past, icons)
  /\ UNCHANGED <<previous, recycleBin, moved, grave, home>>

BothClocks(x, t) ==
  /\ at' = [at EXCEPT ![x] = t]
  /\ moved' = [moved EXCEPT ![x] = t]
  /\ UNCHANGED grave

MoveEntryTo(e, g) ==
  /\ Exists(e) /\ g \in GroupsNow
  /\ parent[e] # g
  /\ BothClocks(e, NextTime(Larger(at[e], moved[e])))
  /\ home' = [home EXCEPT ![e] = Nowhere]
  /\ RefreshSnapshot([parent EXCEPT ![e] = g], says, Tracked(e), icons)
  /\ UNCHANGED <<previous, recycleBin>>

MoveGroupAnywhere(g, target) ==
  /\ Exists(g) /\ target \in GroupsNow
  /\ g # recycleBin /\ g # target
  /\ parent[g] # target
  /\ BothClocks(g, NextTime(moved[g]))
  /\ home' = [home EXCEPT ![g] = Nowhere]
  /\ RefreshSnapshot([parent EXCEPT ![g] = target], says, past, icons)
  /\ UNCHANGED <<previous, recycleBin>>

\* The new place is dated by location_changed alone.
MoveGroup(g, target) ==
  /\ Exists(g) /\ target \in GroupsNow
  /\ g # recycleBin
  /\ ~Within(parent, target, g)
  /\ parent[g] # target
  /\ BothClocks(g, NextTime(moved[g]))
  /\ home' = [home EXCEPT ![g] = Nowhere]
  /\ RefreshSnapshot([parent EXCEPT ![g] = target], says, past, icons)
  /\ UNCHANGED <<previous, recycleBin>>

\* ensure_recycle_bin: b is the bin, made below the root where there is none.
EnsureRecycleBin(b) ==
  /\ IF recycleBin # Nowhere THEN b = recycleBin ELSE b \in Groups /\ ~Exists(b)
  /\ recycleBin' = b
WithBin(b) == IF recycleBin = Nowhere THEN [parent EXCEPT ![b] = Root] ELSE parent

DeleteEntryToBin(e) ==
  \E b \in Groups :
    /\ Exists(e) /\ ~InBin(e)
    /\ EnsureRecycleBin(b)
    /\ BothClocks(e, NextTime(Larger(at[e], moved[e])))
    /\ previous' = [previous EXCEPT ![e] = parent[e]]
    /\ home' = [home EXCEPT ![e] = parent[e]]
    /\ RefreshSnapshot([WithBin(b) EXCEPT ![e] = b], says, Tracked(e), icons)

DeleteForGoodByClock(e) ==
  /\ Exists(e)
  /\ grave' = [grave EXCEPT ![e] = second]
  /\ RefreshSnapshot([parent EXCEPT ![e] = Nowhere], says, [past EXCEPT ![e] = <<>>], icons)
  /\ UNCHANGED <<previous, recycleBin, at, moved, home>>

DeleteForGood(e) ==
  /\ Exists(e)
  /\ grave' = [grave EXCEPT ![e] = NextTime(Larger(at[e], moved[e]))]
  /\ RefreshSnapshot([parent EXCEPT ![e] = Nowhere], says, [past EXCEPT ![e] = <<>>], icons)
  /\ UNCHANGED <<previous, recycleBin, at, moved, home>>

RestoreTargetAsRecorded(x) == IF previous[x] = Nowhere THEN Root ELSE previous[x]

\* Back to where it was, unless that is gone or in the bin itself.
RestoreTarget(x) ==
  IF /\ previous[x] # Nowhere /\ Exists(previous[x])
     /\ ~Within(parent, previous[x], recycleBin)
  THEN previous[x] ELSE Root

Restored(x, t, p) ==
  /\ Exists(x) /\ InBin(x)
  /\ previous' = [previous EXCEPT ![x] = Nowhere]
  /\ BothClocks(x, t)
  /\ home' = [home EXCEPT ![x] = Nowhere]
  /\ RefreshSnapshot([parent EXCEPT ![x] = RestoreTarget(x)], says, p, icons)
  /\ UNCHANGED recycleBin

RestoreEntryFromBin(e) == Restored(e, NextTime(Larger(at[e], moved[e])), Tracked(e))
RestoreGroup(g) == Restored(g, NextTime(moved[g]), past)

DeleteGroupUnguarded(g) ==
  \E b \in Groups :
    /\ Exists(g) /\ ~InBin(g)
    /\ EnsureRecycleBin(b)
    /\ BothClocks(g, NextTime(Larger(at[g], moved[g])))
    /\ previous' = [previous EXCEPT ![g] = parent[g]]
    /\ home' = [home EXCEPT ![g] = parent[g]]
    /\ RefreshSnapshot([WithBin(b) EXCEPT ![g] = b], says, past, icons)

\* Refused for the bin and for every group the bin is in.
DeleteGroup(g) ==
  \E b \in Groups :
    /\ Exists(g) /\ ~InBin(g)
    /\ recycleBin = Nowhere \/ ~Within(parent, recycleBin, g)
    /\ EnsureRecycleBin(b)
    /\ BothClocks(g, NextTime(Larger(at[g], moved[g])))
    /\ previous' = [previous EXCEPT ![g] = parent[g]]
    /\ home' = [home EXCEPT ![g] = parent[g]]
    /\ RefreshSnapshot([WithBin(b) EXCEPT ![g] = b], says, past, icons)

SecondPasses ==
  /\ second < LastSecond
  /\ second' = second + 1
  /\ UNCHANGED <<parent, previous, recycleBin, says, past, icons, stamps, changes, home>>

TreeNext ==
  \/ \E e \in Entries :
       \/ UpdateEntryText(e) \/ DeleteEntryToBin(e) \/ DeleteForGood(e) \/ RestoreEntryFromBin(e)
       \/ \E i \in Icons : SetEntryCustomIcon(e, i)
       \/ \E g \in GroupsNow : CreateEntry(e, g) \/ MoveEntryTo(e, g)
  \/ \E g \in Groups :
       \/ RenameGroup(g) \/ DeleteGroup(g) \/ RestoreGroup(g)
       \/ \E below \in GroupsNow : CreateGroup(g, below) \/ MoveGroup(g, below)
  \/ SecondPasses

TreeSpec == TreeInit /\ [][TreeNext]_treeVars
-----------------------------------------------------------------------------
TreeTypeOK ==
  /\ parent \in [Items -> Groups \union {Root, Nowhere}]
  /\ previous \in [Items -> Groups \union {Root, Nowhere}]
  /\ recycleBin \in Groups \union {Nowhere}
  /\ \A e \in Entries : Len(past[e]) <= HistoryCap
  /\ \A x \in Items : {at[x], moved[x], grave[x]} \subseteq Nat

\* Everything that exists hangs below the root, in the bin or outside it: no
\* sequence of moves, deletions and restorations closes a circle or leaves
\* anything behind.
EverythingUnderRoot == Hangs(parent)

\* The recycle bin is made once and nothing takes it from its place or puts it
\* into the trash with the group it is in.
BinStaysInPlace ==
  [][recycleBin # Nowhere =>
       recycleBin' = recycleBin /\ parent'[recycleBin] = parent[recycleBin]]_treeVars

\* What a deletion put in the bin comes back to where it was taken from, as
\* long as that is outside the bin, and to the root otherwise.
RestoredWhereDeleted ==
  [][\A x \in ThereAre(Items) :
       /\ home[x] # Nowhere /\ home'[x] = Nowhere
       /\ previous'[x] = Nowhere
       => parent'[x] = IF Within(parent, home[x], recycleBin) THEN Root ELSE home[x]]_treeVars

\* A move is newer than the place and, for an entry, the contents it leaves,
\* and a deletion for good is newer than all the entry was, so that a merge can
\* tell which came last: also within one second, as long as the stamps before
\* are not yet MaxLead ahead of the clock.
MovesAndDeletionsAreNewer ==
  [][\A x \in ThereAre(Items) :
       Larger(at[x], moved[x]) < second + MaxLead =>
         /\ parent'[x] \notin {parent[x], Nowhere} =>
              moved'[x] > moved[x] /\ (x \in Entries => at'[x] > at[x])
         /\ parent'[x] = Nowhere => grave'[x] > Larger(at[x], moved[x])]_treeVars

\* The table of images holds what some version of some entry shows, archived
\* ones included, and nothing else.
IconsAreThoseUsed ==
  icons = UNION {IconsOf(VersionsOf(says, past, e)) : e \in ThereAre(Entries)}

\* Through any sequence of changes the tree stays whole, its images are those
\* in use, the bin stays, and deletions can be undone and ranked.
TreeKeepsItsShape ==
  /\ [](EverythingUnderRoot /\ IconsAreThoseUsed)
  /\ BinStaysInPlace /\ RestoredWhereDeleted /\ MovesAndDeletionsAreNewer
=============================================================================
