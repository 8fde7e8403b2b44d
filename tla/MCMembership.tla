---------------------------- MODULE MCMembership ----------------------------
(* The instance of Membership that TLC checks is given in Membership.cfg.  *)
EXTENDS Membership
=============================================================================
