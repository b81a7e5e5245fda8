---------------------------- MODULE MCVaultSync ----------------------------
EXTENDS VaultSyncInv

CONSTANTS u1, u2, d1

MCClashes == {<<u1, d1>>}
=============================================================================
