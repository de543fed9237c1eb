------------------------ MODULE AccessPromiseProofs ------------------------
(* The abstract access-request flow keeps its promise, for any quorums.    *)
EXTENDS AccessPromise, TLAPS

\* Rows exist only for a request that exists: what Ask starts from is empty.
Keeps(r) ==
    /\ status[r] = "none" => subs[r] = {}
    /\ status[r] = "PENDING" =>
          subs[r] \notin Quorums /\ released[r] = {}
    /\ status[r] = "APPROVED" => subs[r] = {}
    /\ \A P, Q \in released[r] : P = Q
    /\ released[r] \subseteq Quorums

IInv == TypeOK /\ \A r \in Reqs : Keeps(r)

LEMMA InitInv == Init => IInv
<1> SUFFICES ASSUME Init PROVE IInv
  OBVIOUS
<1>1. TypeOK
  BY DEF Init, TypeOK
<1>2. \A r \in Reqs : Keeps(r)
  BY DEF Init, Keeps
<1> QED
  BY <1>1, <1>2 DEF IInv

\* An action on request r leaves the other requests as they are.
LEMMA OthersKeep ==
  ASSUME IInv, NEW r \in Reqs, NEW s \in Reqs, s # r,
         (\E u \in Users : Ask(u, r)) \/ Refuse(r) \/ Lapse(r)
         \/ \E h \in Holders : Contribute(h, r) \/ Complete(h, r)
  PROVE  Keeps(s)'
<1>1. status'[s] = status[s] /\ subs'[s] = subs[s] /\ released'[s] = released[s]
  BY DEF IInv, TypeOK, Ask, Contribute, Complete, Refuse, Lapse
<1> QED
  BY <1>1 DEF IInv, Keeps

LEMMA NextInv == PromiseAssumption /\ IInv /\ [Next]_vars => IInv'
<1> SUFFICES ASSUME PromiseAssumption, IInv, [Next]_vars PROVE IInv'
  OBVIOUS
<1> USE DEF IInv, PromiseAssumption
<1>1. ASSUME NEW u \in Users, NEW r \in Reqs, Ask(u, r) PROVE IInv'
  <2>1. TypeOK'
    BY <1>1 DEF Ask, TypeOK
  <2>2. Keeps(r)'
    <3>1. subs'[r] = {} /\ released'[r] = {} /\ status'[r] = "PENDING"
      BY <1>1 DEF Ask, Keeps, TypeOK
    <3> QED  BY <3>1 DEF Keeps
  <2> QED  BY <1>1, <2>1, <2>2, OthersKeep
<1>2. ASSUME NEW h \in Holders, NEW r \in Reqs, Contribute(h, r) PROVE IInv'
  <2>1. TypeOK'
    BY <1>2 DEF Contribute, TypeOK
  <2>2. Keeps(r)'
    BY <1>2 DEF Contribute, Keeps, TypeOK
  <2> QED  BY <1>2, <2>1, <2>2, OthersKeep
<1>3. ASSUME NEW h \in Holders, NEW r \in Reqs, Complete(h, r) PROVE IInv'
  <2>1. TypeOK'
    BY <1>3 DEF Complete, TypeOK
  <2>2. Keeps(r)'
    <3>1. released'[r] = {subs[r] \cup {h}}
      BY <1>3 DEF Complete, Keeps, TypeOK
    <3>2. status'[r] = "APPROVED" /\ subs'[r] = {}
      BY <1>3 DEF Complete, TypeOK
    <3>3. subs[r] \cup {h} \in Quorums
      BY <1>3 DEF Complete
    <3> QED  BY <3>1, <3>2, <3>3 DEF Keeps
  <2> QED  BY <1>3, <2>1, <2>2, OthersKeep
<1>4. ASSUME NEW r \in Reqs, Refuse(r) \/ Lapse(r) PROVE IInv'
  <2>1. TypeOK'
    BY <1>4 DEF Refuse, Lapse, TypeOK
  <2>2. Keeps(r)'
    BY <1>4 DEF Refuse, Lapse, Keeps, TypeOK
  <2> QED  BY <1>4, <2>1, <2>2, OthersKeep
<1>5. CASE Vanish
  BY <1>5 DEF Vanish, TypeOK, Keeps
<1>6. CASE UNCHANGED vars
  BY <1>6 DEF vars, TypeOK, Keeps
<1> QED
  BY <1>1, <1>2, <1>3, <1>4, <1>5, <1>6 DEF Next

\* No quorum while pending, none once approved, one release at most.
THEOREM PromiseKept ==
  ASSUME PromiseAssumption
  PROVE  Spec => []Promise
<1>1. IInv => Promise
  BY DEF IInv, Keeps, Promise
<1> QED
  BY <1>1, InitInv, NextInv, PTL DEF Spec

=============================================================================
