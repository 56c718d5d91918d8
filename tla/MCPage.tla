-------------------------------- MODULE MCPage --------------------------------
(***************************************************************************)
(* Page with two uploads and a poll limit of two.                          *)
(***************************************************************************)
EXTENDS Page
=============================================================================
