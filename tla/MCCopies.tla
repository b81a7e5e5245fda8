------------------------------ MODULE MCCopies ------------------------------
(***************************************************************************)
(* The rules by which copies of a vault change and come together again,    *)
(* side by side: entries, what a vault has once, the tree of groups, and   *)
(* the command line client.  They share no state: a behaviour is one of    *)
(* one part, chosen at the start, while the others stay as they begin.     *)
(***************************************************************************)
EXTENDS MergeEntry, MergeMeta, GroupTree, CliSync

VARIABLE part

\* MergeEntry: the clock of "a" is one second ahead.
DriftOfA == [d \in {"a", "b"} |-> IF d = "a" THEN 1 ELSE 0]

\* MergeMeta: each device makes a bin of its own.
BinOfEach == [d \in {"a", "b"} |-> IF d = "a" THEN "binA" ELSE "binB"]

\* GroupTree: the vault before it has a bin, with one, and with the bin inside a group.
Layout(a, b, e, bin) ==
  [parent |-> [x \in {"a", "b", "bin", "e"} |->
                 CASE x = "a" -> a [] x = "b" -> b [] x = "e" -> e [] x = "bin" -> bin],
   bin |-> IF bin = Nowhere THEN Nowhere ELSE "bin"]
SomeLayouts == {Layout(Root, "a", "b", Nowhere), Layout(Root, "a", "a", Root),
                Layout(Root, Root, Root, "a")}

\* CliSync: a script that writes, plans and commits, and a command that only writes.
ScriptAndOther ==
  [c \in {"script", "other"} |-> IF c = "script" THEN {"edit", "plan", "commit"} ELSE {"edit"}]

CopiesInit ==
  /\ part \in {"entry", "meta", "tree", "cli"}
  /\ EntryInit /\ MetaInit /\ TreeInit /\ CliInit
  /\ part # "entry" => base = {1}
  /\ part # "meta" => vault[Server].bin = None
  /\ part # "tree" => recycleBin = Nowhere
  /\ part # "cli" => provider = "icloud"

CopiesNext ==
  /\ part' = part
  /\ \/ part = "entry" /\ EntryNext /\ UNCHANGED <<metaVars, treeVars, cliVars>>
     \/ part = "meta" /\ MetaNext /\ UNCHANGED <<entryVars, treeVars, cliVars>>
     \/ part = "tree" /\ TreeNext /\ UNCHANGED <<entryVars, metaVars, cliVars>>
     \/ part = "cli" /\ CliNext /\ UNCHANGED <<entryVars, metaVars, treeVars>>

CopiesSpec ==
  CopiesInit /\ [][CopiesNext]_<<part, entryVars, metaVars, treeVars, cliVars>>

\* Action constraint: markers and the places of entries are merged apart from
\* each other, so a behaviour has one or the other.
MarkersOrMoves ==
  \/ \A c \in Installs \union {Server} : vault'[c].marker.value = NoMarker
  \/ \A c \in Installs \union {Server} : vault'[c].entry = [e \in Secrets |-> Top]

\* The type invariants of the four.
CopiesTypeOK ==
  CASE part = "entry" -> EntryTypeOK
    [] part = "meta" -> MetaTypeOK
    [] part = "tree" -> TreeTypeOK
    [] part = "cli" -> CliTypeOK
=============================================================================
