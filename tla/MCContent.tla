----------------------------- MODULE MCContent -----------------------------
(* The instance of Content that TLC checks is given in Content.cfg.        *)
EXTENDS Content
=============================================================================
