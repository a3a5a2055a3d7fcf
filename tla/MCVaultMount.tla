---------------------------- MODULE MCVaultMount ----------------------------
EXTENDS VaultMount

CONSTANTS v1, v2

\* One vault to begin with, room and an id for a second.
MCFirst == <<v1>>
=============================================================================
