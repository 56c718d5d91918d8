------------------------------- MODULE MCExport -------------------------------
(***************************************************************************)
(* Export on small instances.                                              *)
(***************************************************************************)
EXTENDS Export, TLC

CONSTANTS d1, d2, d3, n1, n2

\* Two files called alike (or differing in what follows the last dot only),
\* and a third one.
Names12 == (d1 :> n1) @@ (d2 :> n1) @@ (d3 :> n2)
=============================================================================
