------------------------------ MODULE MCGateway ------------------------------
(* Two requests at a time of two users on two projects. *)
EXTENDS Gateway, TLC

ServedKinds == {"task"}

\* where KnownGap excuses an answer, the code has no tag that would have reached it
ASSUME GapsAreGaps ==
  \A c \in Pairs : KnownGap(c.read.name, c.write.name)
    => c.read.project # c.write.project \/ c.read.tags \cap c.write.tags = {}

Sym == {a @@ b @@ c @@ d : a \in Permutations(Slots), b \in Permutations(Users),
                           c \in Permutations(Projects), d \in Permutations(Items)}
=============================================================================
