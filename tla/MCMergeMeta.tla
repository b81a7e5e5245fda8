----------------------------- MODULE MCMergeMeta -----------------------------
\* Two devices that each make a bin of their own.
EXTENDS MergeMeta

BinOfEach == [d \in {"a", "b"} |-> IF d = "a" THEN "binA" ELSE "binB"]
=============================================================================
