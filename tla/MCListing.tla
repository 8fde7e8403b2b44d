------------------------------ MODULE MCListing ------------------------------
(* The instance of Listing that TLC checks is given in Listing.cfg.        *)
EXTENDS Listing
=============================================================================
