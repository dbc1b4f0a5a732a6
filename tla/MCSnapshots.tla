---------------------------- MODULE MCSnapshots ----------------------------
(* Snapshots with small sets of writers and requests.                      *)
EXTENDS Snapshots
=============================================================================
