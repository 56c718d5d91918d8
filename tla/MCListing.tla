------------------------------ MODULE MCListing ------------------------------
(***************************************************************************)
(* Listing on a small instance: three documents, two on a page; the        *)
(* second, in the middle of the listing, is delivered twice.               *)
(***************************************************************************)
EXTENDS Listing
=============================================================================
