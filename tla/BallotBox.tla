------------------------------ MODULE BallotBox ------------------------------
(***************************************************************************)
(* What voting on data requests promises its users: every user has at most *)
(* one ballot on a request, and the totals published with a request are    *)
(* the tally of its ballots, except while a ballot is being counted.       *)
(***************************************************************************)
EXTENDS Integers, FiniteSets

CONSTANTS Requests, Users

VARIABLES
    ballot,     \* request -> user -> the ballot in the box
    published,  \* request -> the totals shown with it
    counting    \* requests with a ballot that is not counted yet

boxVars == <<ballot, published, counting>>

Choices == {"like", "dislike", "none"}

BallotsFor(r, b) == {u \in Users : ballot[r][u] = b}
TallyOf(r) == [likes |-> Cardinality(BallotsFor(r, "like")),
               dislikes |-> Cardinality(BallotsFor(r, "dislike"))]

Init ==
    /\ ballot = [r \in Requests |-> [u \in Users |-> "none"]]
    /\ published = [r \in Requests |-> [likes |-> 0, dislikes |-> 0]]
    /\ counting = {}

\* A user casts, changes or takes back a ballot; the count starts.
Cast(r, u, b) ==
    /\ counting = {}
    /\ ballot' = [ballot EXCEPT ![r][u] = b]
    /\ counting' = {r}
    /\ UNCHANGED published

Publish(r) ==
    /\ r \in counting
    /\ published' = [published EXCEPT ![r] = TallyOf(r)]
    /\ counting' = {}
    /\ UNCHANGED ballot

Next ==
    \E r \in Requests :
        \/ \E u \in Users, b \in Choices : Cast(r, u, b)
        \/ Publish(r)

Spec ==
    /\ Init
    /\ [][Next]_boxVars
    /\ \A r \in Requests : WF_boxVars(Publish(r))

\* The published totals are the tally of the ballots, or the request is
\* being counted.
Honest == \A r \in Requests : r \in counting \/ published[r] = TallyOf(r)
=============================================================================
