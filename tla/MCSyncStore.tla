---------------------------- MODULE MCSyncStore ----------------------------
\* Constants of the TLC runs of SyncStore: SharePoint files of one account
\* and one iCloud file.
EXTENDS SyncStoreInv, TLC

CONSTANTS icloud, account

OneAccount == [r \in Remote |-> IF r = icloud THEN NoAccount ELSE account]

Connecting == {"connect", "sync", "disconnect"}
Unbinding == {"restore", "disconnect"}
TasksAndVaults == Permutations(Task) \cup Permutations(Vault)
=============================================================================
