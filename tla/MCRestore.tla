------------------------------ MODULE MCRestore ------------------------------
(* A primary with one sidecar, two restores and three starts.                 *)
EXTENDS DatabaseRestore
MCSidecars == <<"wal">>
=============================================================================
