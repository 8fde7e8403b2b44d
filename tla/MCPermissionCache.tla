-------------------------- MODULE MCPermissionCache --------------------------
(* The instance of PermissionCache for TLC: one user's permissions in two   *)
(* projects, which share a key.                                             *)
EXTENDS PermissionCache, TLC

CONSTANT MaxBusy   \* bound: resolutions and writing requests under way at once

Busy(reqs) == Cardinality({i \in DOMAIN reqs : reqs[i].pc # "idle"})

FewAtOnce == Busy(rs) + Busy(ws) <= MaxBusy

Symmetry == Permutations(Resolvers) \cup Permutations(Writers)
                \cup Permutations(Projects) \cup Permutations(Masks)
=============================================================================
