--------------------------- MODULE MCVaultSigner ---------------------------
(* Small instances of VaultSigner for TLC. *)
EXTENDS VaultSigner

CONSTANTS c1, c2

TwoCallers == {c1, c2}
=============================================================================
