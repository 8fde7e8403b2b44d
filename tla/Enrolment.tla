------------------------------ MODULE Enrolment ------------------------------
(***************************************************************************)
(* What the team and home services promise of one project's people,        *)
(* whatever their requests do at the same time: a letter invites one       *)
(* person, is open once, and ends in one way for good; who joins does so   *)
(* by a letter of theirs; nobody but the founder is promoted to Owner by   *)
(* an update; and a deleted project stays empty.                           *)
(***************************************************************************)
EXTENDS Naturals, Sequences

CONSTANTS Users, Founder, Roles, OwnerRole, None

VARIABLES exists,    \* the project is there
          role,      \* of each user, or None
          letters    \* invites in the order they were sent: [to, role, status]

enrolmentVars == <<exists, role, letters>>

Letter(u, r, status) == [to |-> u, role |-> r, status |-> status]

Open == {i \in DOMAIN letters : letters[i].status = "pending"}

OpenTo(u) == {i \in Open : letters[i].to = u}

\* the letters with those of a set ended in one way
Ending(set, way) ==
    [i \in DOMAIN letters |->
        IF i \in set THEN Letter(letters[i].to, letters[i].role, way) ELSE letters[i]]

EnrolmentInit ==
    /\ exists = TRUE
    /\ role = [u \in Users |-> IF u = Founder THEN OwnerRole ELSE None]
    /\ letters \in {<<>>} \cup {<<Letter(u, r, "pending")>> : u \in Users \ {Founder}, r \in Roles}

\* A letter is sent to somebody with no other that is open; some open ones
\* expire by it.
Send(u, r) ==
    /\ exists /\ u # Founder
    /\ \E late \in SUBSET Open :
         /\ OpenTo(u) \subseteq late
         /\ letters' = Append(Ending(late, "expired"), Letter(u, r, "pending"))
    /\ UNCHANGED <<exists, role>>

Expire ==
    /\ \E late \in SUBSET Open : letters' = Ending(late, "expired")
    /\ UNCHANGED <<exists, role>>

Cancel(u) ==
    /\ letters' = Ending(OpenTo(u), "cancelled")
    /\ UNCHANGED <<exists, role>>

Decline(i) ==
    /\ i \in Open
    /\ letters' = Ending({i}, "declined")
    /\ UNCHANGED <<exists, role>>

\* The letter's role, whatever the user's was.  A letter that ended while it
\* was being answered is honoured and stays as it ended.
Join(i) ==
    /\ exists
    /\ role' = [role EXCEPT ![letters[i].to] = letters[i].role]
    /\ letters' = Ending({i} \cap Open, "accepted")
    /\ UNCHANGED exists

Change(u, r) ==
    /\ exists /\ u # Founder /\ r # OwnerRole /\ role[u] # None
    /\ role' = [role EXCEPT ![u] = r]
    /\ UNCHANGED <<exists, letters>>

Delete ==
    /\ exists' = FALSE
    /\ role' = [u \in Users |-> None]
    /\ letters' = Ending(DOMAIN letters, "deleted")

EnrolmentNext ==
    \/ \E u \in Users, r \in Roles : Send(u, r) \/ Change(u, r)
    \/ \E u \in Users : Cancel(u)
    \/ \E i \in DOMAIN letters : Decline(i) \/ Join(i)
    \/ Expire \/ Delete

EnrolmentSpec == EnrolmentInit /\ [][EnrolmentNext]_enrolmentVars
=============================================================================
