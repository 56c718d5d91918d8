------------------------------ MODULE MCService ------------------------------
(***************************************************************************)
(* Service with two API processes and a worker.                            *)
(***************************************************************************)
EXTENDS Service
\* A value within each bucket, on the bounds and beyond the last one.
Bounds == <<1, 3>>
Times == {1, 2, 4}
=============================================================================
