----------------------------- MODULE MCCalendar -----------------------------
(* The instance of Calendar that TLC checks is given in Calendar.cfg.      *)
EXTENDS Calendar
=============================================================================
