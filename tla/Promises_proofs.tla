--------------------------- MODULE Promises_proofs ---------------------------
(***************************************************************************)
(* What follows from the abstract specifications alone: an implementation  *)
(* that refines them inherits these invariants.                            *)
(***************************************************************************)
EXTENDS BallotBox, FiniteSetTheorems, TLAPS

CONSTANTS Plugins, Requires

VARIABLE up

Order == INSTANCE ServiceOrder

\* Honest is not inductive alone: a count that ends must leave no other
\* request in counting.
BoxInv ==
    /\ ballot \in [Requests -> [Users -> Choices]]
    /\ DOMAIN published = Requests
    /\ \A r, s \in counting : r = s
    /\ Honest

-----------------------------------------------------------------------------

\* Under the ballot box, the totals published with a request are the tally
\* of its ballots whenever that request is not being counted
\* (service.py:186-247).
THEOREM TotalsHonest == Spec => []Honest
<1>1. Init => BoxInv
  <2>. SUFFICES ASSUME Init
                PROVE  BoxInv
    OBVIOUS
  <2>1. ballot \in [Requests -> [Users -> Choices]]
    BY DEF Init, Choices
  <2>2. ASSUME NEW r \in Requests
        PROVE  published[r] = TallyOf(r)
    <3>1. BallotsFor(r, "like") = {} /\ BallotsFor(r, "dislike") = {}
      BY DEF Init, BallotsFor
    <3>. QED  BY <3>1, FS_EmptySet DEF Init, TallyOf
  <2>. QED  BY <2>1, <2>2 DEF Init, BoxInv, Honest
<1>2. BoxInv /\ [Next]_boxVars => BoxInv'
  <2>. SUFFICES ASSUME BoxInv, [Next]_boxVars
                PROVE  BoxInv'
    OBVIOUS
  <2>1. ASSUME NEW r \in Requests, NEW u \in Users, NEW b \in Choices, Cast(r, u, b)
        PROVE  BoxInv'
    <3>1. ballot' \in [Requests -> [Users -> Choices]]
      BY <2>1 DEF BoxInv, Cast
    <3>2. ASSUME NEW s \in Requests, s # r
          PROVE  published'[s] = TallyOf(s)'
      <4>1. ballot'[s] = ballot[s]
        BY <2>1, <3>2 DEF BoxInv, Cast
      <4>2. published'[s] = published[s] /\ published[s] = TallyOf(s)
        BY <2>1, <3>2 DEF BoxInv, Cast, Honest
      <4>. QED  BY <4>1, <4>2 DEF TallyOf, BallotsFor
    <3>3. Honest'
      BY <2>1, <3>2 DEF Honest, Cast
    <3>. QED  BY <2>1, <3>1, <3>3 DEF BoxInv, Cast
  <2>2. ASSUME NEW r \in Requests, Publish(r)
        PROVE  BoxInv'
    <3>1. ASSUME NEW s \in Requests
          PROVE  published'[s] = TallyOf(s)'
      <4>1. TallyOf(s)' = TallyOf(s)
        BY <2>2 DEF Publish, TallyOf, BallotsFor
      <4>2. published'[s] = TallyOf(s)
        BY <2>2 DEF BoxInv, Publish, Honest
      <4>. QED  BY <4>1, <4>2
    <3>2. Honest'
      BY <3>1 DEF Honest
    <3>. QED  BY <2>2, <3>2 DEF BoxInv, Publish
  <2>3. CASE UNCHANGED boxVars
    BY <2>3 DEF BoxInv, boxVars, Honest, TallyOf, BallotsFor
  <2>. QED  BY <2>1, <2>2, <2>3 DEF Next
<1>3. BoxInv => Honest
  BY DEF BoxInv
<1>. QED  BY <1>1, <1>2, <1>3, PTL DEF Spec

\* Under the service order, whatever a plugin that is up requires is up
\* (manager.py:223-231 and 282-291).
THEOREM RequiredAreUp == ASSUME Requires \subseteq Plugins \X Plugins
                         PROVE  Order!Spec => []Order!Closed
<1>1. Order!Init => Order!Closed
  BY DEF Order!Init, Order!Closed
<1>2. Order!Closed /\ [Order!Next]_up => Order!Closed'
  <2>. SUFFICES ASSUME Order!Closed, [Order!Next]_up
                PROVE  Order!Closed'
    OBVIOUS
  <2>1. ASSUME NEW p \in Plugins, Order!Start(p)
        PROVE  Order!Closed'
    BY <2>1 DEF Order!Closed, Order!Start
  <2>2. ASSUME NEW p \in Plugins, Order!Stop(p)
        PROVE  Order!Closed'
    BY <2>2 DEF Order!Closed, Order!Stop
  <2>3. CASE UNCHANGED up
    BY <2>3 DEF Order!Closed
  <2>. QED  BY <2>1, <2>2, <2>3 DEF Order!Next
<1>. QED  BY <1>1, <1>2, PTL DEF Order!Spec
=============================================================================
