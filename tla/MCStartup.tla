------------------------------ MODULE MCStartup ------------------------------
(* Environments for the TLC runs of Startup: two base environments under     *)
(* every profile, with at most one variable changed.                         *)
EXTENDS Startup, TLC

Production ==
  [k \in Locations |-> "set"] @@ [APP_ENV |-> "production",
     PERMISSION_CONTEXT_SECRET |-> "strong", WEB_APP_BASE_URL |-> "public",
     METRICS_AUTH_TOKEN |-> "strong"]

Profiled == {<<>>, Production} \cup
            {[APP_PROFILE |-> p] @@ e : p \in ValuesOf("APP_PROFILE"), e \in {<<>>, Production}}

Without(e, k) == [j \in DOMAIN e \ {k} |-> e[j]]

Changed(e) == UNION {{Without(e, k)} \cup {(k :> v) @@ e : v \in ValuesOf(k)} : k \in Keys}

Started == UNION {Changed(e) : e \in Profiled}
=============================================================================
