----------------------------- MODULE MCVaultSave -----------------------------
\* Model-checking instance of VaultSave: symmetry of the sets whose members
\* nothing tells apart, for the runs without liveness.
EXTENDS VaultSaveRefines, FiniteSets, TLC

Symmetry == Permutations(Sessions) \cup Permutations(UserEdits) \cup Permutations(Paths)

PathsInUse ==
    ({path[s] : s \in Sessions} \cup {vault.path} \cup {p \in Paths : disk[p] # {}}) \ {NoPath}

\* Action constraint: either the user's edits alone, over all the files, or one
\* of them in one file, where merges and other programs write as well; with a
\* failure, one file and two edits of any origin.
SeveralFilesOrSeveralWriters ==
    LET oneFile == Cardinality(PathsInUse') <= 1
    IN  /\ \/ issued' \subseteq UserEdits
           \/ oneFile /\ Cardinality(issued' \cap UserEdits) <= 1
        /\ failures' > 0 => oneFile /\ Cardinality(issued') <= 2

=============================================================================
