------------------------------ MODULE MCExtractor ------------------------------
(***************************************************************************)
(* Extractor on every document of three pages, three attempts as in the    *)
(* default configuration.                                                  *)
(***************************************************************************)
EXTENDS Extractor
=============================================================================
