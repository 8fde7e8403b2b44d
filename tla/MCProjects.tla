----------------------------- MODULE MCProjects -----------------------------
(* The instance of Projects that TLC checks is given in Projects.cfg.      *)
EXTENDS Projects
=============================================================================
