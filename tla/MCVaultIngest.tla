---------------------------- MODULE MCVaultIngest ----------------------------
(***************************************************************************)
(* A small instance of the Vault ingest for TLC.                           *)
(***************************************************************************)
EXTENDS VaultIngest

CONSTANT ra

\* The same track sent twice.
OneRecording == [u \in Uploads |-> ra]
=============================================================================
