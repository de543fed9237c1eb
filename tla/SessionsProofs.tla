--------------------------- MODULE SessionsProofs ---------------------------
(***************************************************************************)
(* Proofs about Sessions, for any number of browsers and handlers and any  *)
(* limit on the sessions of a user.                                        *)
(***************************************************************************)
EXTENDS Sessions, FiniteSetTheorems, WellFoundedInduction, TLAPS

(* The inductive invariant. *)

\* A busy slot belongs to a browser.
Placed == \A p \in Procs : pc[p] # "idle" => by[p] \in Browsers

IInv == TypeOK /\ Placed /\ SessionsBounded /\ OldestIsEvicted

Less == {ss \in Nat \X Nat : ss[1] < ss[2]}

LEMMA MinIsLeast ==
  ASSUME NEW S \in SUBSET Nat, S # {}
  PROVE  Min(S) \in S /\ \A y \in S : Min(S) <= y
<1>0. OpToRel(<, Nat) = Less
  BY Zenon DEF OpToRel, Less
<1>1. PICK x \in S : \A y \in S : ~(<<y, x>> \in Less)
  <2>1. IsWellFoundedOn(Less, Nat)
    BY <1>0, NatLessThanWellFounded
  <2> QED
    BY <2>1, WFMin
<1>2. \A y \in S : x <= y
  <2> SUFFICES ASSUME NEW y \in S PROVE x <= y
    OBVIOUS
  <2>1. <<y, x>> \in Nat \X Nat /\ <<y, x>>[1] = y /\ <<y, x>>[2] = x
    OBVIOUS
  <2>2. ~(y < x)
    BY <1>1, <2>1 DEF Less
  <2> QED
    BY <2>2
<1> QED
  BY <1>2 DEF Min

LEMMA Finite ==
  ASSUME TypeOK
  PROVE  /\ IsFiniteSet(live) /\ Cardinality(live) \in Nat
         /\ IsFiniteSet(Creating) /\ Cardinality(Creating) \in Nat
         /\ Cardinality(Creating) <= Cardinality(Procs) /\ Cardinality(Procs) \in Nat
<1>1. IsFiniteSet(live)
  <2>1. IsFiniteSet(Ids)
    BY FS_Interval, BoundsAssumption DEF Ids
  <2> QED
    BY <2>1, FS_Subset DEF TypeOK, ServerOK, ClientOK, SlotsOK
<1>2. Creating \in SUBSET Procs
  BY DEF Creating
<1> QED
  BY <1>1, <1>2, FS_Subset, FS_CardinalityType, BoundsAssumption

\* Steps that add no row, and let nobody into "create" or "evict".
LEMMA NothingAdded ==
  ASSUME IInv, TypeOK', live' \subseteq live, Creating' \subseteq Creating,
         \A q \in Procs : pc'[q] = "evict" => pc[q] = "evict" /\ sid'[q] = sid[q]
  PROVE  SessionsBounded' /\ OldestIsEvicted'
<1>1. Cardinality(live') <= Cardinality(live)
      /\ Cardinality(Creating') <= Cardinality(Creating)
  BY Finite, FS_Subset DEF IInv
<1>2. /\ Cardinality(live') \in Nat /\ Cardinality(Creating') \in Nat
      /\ Cardinality(live) \in Nat /\ Cardinality(Creating) \in Nat
      /\ Cardinality(Procs) \in Nat
  <2>1. IsFiniteSet(live') /\ IsFiniteSet(Creating')
    BY Finite, FS_Subset DEF IInv
  <2> QED
    BY <2>1, Finite, FS_CardinalityType DEF IInv
<1>3. SessionsBounded'
  BY <1>1, <1>2, BoundsAssumption DEF IInv, SessionsBounded
<1>4. OldestIsEvicted'
  BY DEF IInv, OldestIsEvicted
<1> QED
  BY <1>3, <1>4

LEMMA InitInv == Init => IInv
<1> SUFFICES ASSUME Init PROVE IInv
  OBVIOUS
<1> USE DEF Init
<1>1. live = {} /\ Creating = {}
  BY DEF Creating
<1>2. TypeOK /\ Placed
  BY <1>1, AgentsAssumption, BoundsAssumption DEF TypeOK, ServerOK, ClientOK, SlotsOK, Placed, Labels, Ids, Tokens
<1>3. Cardinality(live) = 0 /\ Cardinality(Creating) = 0
  BY <1>1, FS_EmptySet
<1>4. SessionsBounded
  BY <1>2, <1>3, Finite, BoundsAssumption DEF SessionsBounded
<1>5. OldestIsEvicted
  BY DEF OldestIsEvicted
<1> QED
  BY <1>2, <1>4, <1>5 DEF IInv

LEMMA RemoveOK ==
  ASSUME ServerOK, NEW S, Remove(S), UNCHANGED <<tokens, nextId>>
  PROVE  ServerOK'
<1> USE DEF ServerOK, Remove, tokens
<1>1. live' \subseteq Ids /\ (\A i \in live' : i < nextId') /\ lapsed' \subseteq live'
  OBVIOUS
<1>2. agent' \in [Ids -> Agents]
  BY AgentsAssumption
<1>3. token' \in [Ids -> 0 .. MaxTok]
  BY BoundsAssumption
<1> QED
  BY <1>1, <1>2, <1>3

LEMMA RequestInv ==
  ASSUME IInv, NEW p \in Procs, NEW b \in Browsers,
         StartLogin(p, b) \/ Call(p, b) \/ Logout(p, b)
  PROVE  IInv'
<1> USE DEF IInv, StartLogin, Call, Logout, Send, Goto, server, rows, tokens
<1>1. TypeOK'
  <2>1. ServerOK'
    BY DEF TypeOK, ServerOK
  <2>2. ClientOK'
    BY DEF TypeOK, ClientOK
  <2>3. SlotsOK'
    <3>1. pc' \in [Procs -> Labels]
      BY DEF TypeOK, SlotsOK, Labels
    <3>2. by' \in [Procs -> Browsers \cup {NoBrowser}]
      BY DEF TypeOK, SlotsOK
    <3>3. tok' \in [Procs -> 0 .. MaxTok]
      BY BoundsAssumption DEF TypeOK, SlotsOK, ClientOK
    <3> QED
      BY <3>1, <3>2, <3>3 DEF TypeOK, SlotsOK
  <2> QED
    BY <2>1, <2>2, <2>3 DEF TypeOK
<1>2. Placed'
  BY DEF Placed, TypeOK, SlotsOK
<1>3. live' = live /\ Creating' \subseteq Creating
  BY DEF Creating, TypeOK, SlotsOK
<1>4. \A q \in Procs : pc'[q] = "evict" => pc[q] = "evict" /\ sid'[q] = sid[q]
  BY DEF TypeOK, SlotsOK
<1> QED
  BY <1>1, <1>2, <1>3, <1>4, NothingAdded

\* The steps of a handler that leave the rows, or change or remove one.
LEMMA QuietStepInv ==
  ASSUME IInv, NEW p \in Procs,
         \/ LoginFind(p) \/ SendRefresh(p) \/ RefreshFind(p) \/ Rotate(p)
         \/ Answer(p) \/ Refused(p) \/ LogoutDelete(p) \/ Drop(p)
  PROVE  IInv'
<1> USE DEF IInv, Goto, Finish, server, rows, tokens, client, Answered
<1>1. TypeOK'
  <2>1. ServerOK'
    <3>1. CASE LoginFind(p) \/ SendRefresh(p) \/ RefreshFind(p) \/ Answer(p) \/ Refused(p)
               \/ Drop(p)
      <4>1. UNCHANGED <<live, agent, token, lapsed, nextId, nextTok, issued>>
        BY <3>1 DEF LoginFind, SendRefresh, RefreshFind, Answer, Refused, Drop
      <4> QED
        BY <4>1 DEF TypeOK, ServerOK
    <3>2. CASE LogoutDelete(p)
      BY <3>2, RemoveOK DEF LogoutDelete, TypeOK
    <3>3. CASE Rotate(p)
      <4>1. CASE sid[p] \in live
        <5>1. nextTok \in 1 .. MaxTok /\ nextTok' = nextTok + 1
          BY <3>3, <4>1 DEF Rotate, Issue, Tokens
        <5>2. /\ token' = [token EXCEPT ![sid[p]] = nextTok]
              /\ issued' = [issued EXCEPT ![nextTok] = sid[p]]
              /\ lapsed' \subseteq lapsed /\ UNCHANGED <<live, agent, nextId>>
          BY <3>3, <4>1 DEF Rotate, Issue
        <5>3. token' \in [Ids -> 0 .. MaxTok]
          <6>1. nextTok \in 0 .. MaxTok
            BY <5>1, BoundsAssumption
          <6> QED
            BY <5>2, <6>1 DEF TypeOK, ServerOK
        <5>4. issued' \in [Tokens -> 0 .. MaxIds]
          <6>1. sid[p] \in 0 .. MaxIds
            BY DEF TypeOK, SlotsOK
          <6> QED
            BY <5>2, <6>1 DEF TypeOK, ServerOK
        <5> QED
          BY <5>1, <5>2, <5>3, <5>4, BoundsAssumption DEF TypeOK, ServerOK
      <4>2. CASE sid[p] \notin live
        <5>1. UNCHANGED <<live, agent, token, lapsed, nextId, nextTok, issued>>
          BY <3>3, <4>2 DEF Rotate
        <5> QED
          BY <5>1 DEF TypeOK, ServerOK
      <4> QED
        BY <4>1, <4>2
    <3> QED
      BY <3>1, <3>2, <3>3
  <2>2. ClientOK'
    BY DEF LoginFind, SendRefresh, RefreshFind, Rotate, Answer, Refused, LogoutDelete, Drop,
       TypeOK, ClientOK, SlotsOK, Placed
  <2>3. SlotsOK'
    <3>1. pc' \in [Procs -> Labels]
      BY DEF LoginFind, SendRefresh, RefreshFind, Rotate, Answer, Refused, LogoutDelete,
         Drop, TypeOK, SlotsOK, Labels
    <3>2. by' \in [Procs -> Browsers \cup {NoBrowser}]
      BY DEF LoginFind, SendRefresh, RefreshFind, Rotate, Answer, Refused, LogoutDelete,
         Drop, TypeOK, SlotsOK
    <3>3. tok' \in [Procs -> 0 .. MaxTok]
      BY BoundsAssumption DEF LoginFind, SendRefresh, RefreshFind, Rotate, Issue, Answer,
         Refused, LogoutDelete, Drop, TypeOK, SlotsOK, ServerOK, ClientOK, Tokens, Placed
    <3>4. sid' \in [Procs -> 0 .. MaxIds] /\ \A q \in Procs : sid'[q] < nextId'
      <4>1. \A i \in live : i \in 0 .. MaxIds /\ i < nextId
        BY BoundsAssumption DEF TypeOK, ServerOK, Ids
      <4>2. nextId' = nextId /\ 0 \in 0 .. MaxIds /\ 0 < nextId
        BY BoundsAssumption DEF LoginFind, SendRefresh, RefreshFind, Rotate, Answer, Refused,
           LogoutDelete, Drop, TypeOK, ServerOK
      <4>3. \/ UNCHANGED sid
            \/ \E i \in live \cup {0} : sid' = [sid EXCEPT ![p] = i]
        BY DEF LoginFind, SendRefresh, RefreshFind, Rotate, Answer, Refused, LogoutDelete, Drop
      <4> QED
        BY <4>1, <4>2, <4>3 DEF TypeOK, SlotsOK
    <3> QED
      BY <3>1, <3>2, <3>3, <3>4 DEF SlotsOK
  <2> QED
    BY <2>1, <2>2, <2>3 DEF TypeOK
<1>2. Placed'
  BY DEF Placed, TypeOK, ServerOK, ClientOK, SlotsOK, LoginFind, SendRefresh, RefreshFind, Rotate, Answer, Refused,
     LogoutDelete, Drop
<1>3. live' \subseteq live
  BY DEF Remove, LoginFind, SendRefresh, RefreshFind, Rotate, Answer, Refused,
     LogoutDelete, Drop
<1>4. Creating' \subseteq Creating
  BY DEF Creating, TypeOK, ServerOK, ClientOK, SlotsOK, LoginFind, SendRefresh, RefreshFind, Rotate, Answer, Refused,
     LogoutDelete, Drop
<1>5. \A q \in Procs : pc'[q] = "evict" => pc[q] = "evict" /\ sid'[q] = sid[q]
  BY DEF TypeOK, ServerOK, ClientOK, SlotsOK, LoginFind, SendRefresh, RefreshFind, Rotate, Answer, Refused,
     LogoutDelete, Drop
<1> QED
  BY <1>1, <1>2, <1>3, <1>4, <1>5, NothingAdded

\* LoginCount finds room, or chooses the oldest row.
LEMMA LoginCountInv ==
  ASSUME IInv, NEW p \in Procs, LoginCount(p)
  PROVE  IInv'
<1> USE DEF IInv, LoginCount, Goto, server, rows, tokens, client
<1>1. live' = live
  OBVIOUS
<1>2. Full => Min(live) \in live /\ \A i \in live : Min(live) <= i
  <2>1. Full => live # {}
    BY Finite, FS_EmptySet, BoundsAssumption DEF Full
  <2>2. live \in SUBSET Nat
    BY BoundsAssumption DEF TypeOK, ServerOK, Ids
  <2> QED
    BY <2>1, <2>2, MinIsLeast
<1>3. TypeOK' /\ Placed'
  <2>1. ServerOK' /\ ClientOK'
    BY DEF TypeOK, ServerOK, ClientOK
  <2>2. pc' \in [Procs -> Labels] /\ Placed'
    BY DEF TypeOK, SlotsOK, Labels, Placed
  <2>3. sid' \in [Procs -> 0 .. MaxIds] /\ \A q \in Procs : sid'[q] < nextId'
    <3>1. \A i \in live : i \in 0 .. MaxIds /\ i < nextId
      BY BoundsAssumption DEF TypeOK, ServerOK, Ids
    <3>2. UNCHANGED sid \/ \E i \in live : sid' = [sid EXCEPT ![p] = i]
      BY <1>2
    <3> QED
      BY <3>1, <3>2 DEF TypeOK, SlotsOK
  <2> QED
    BY <2>1, <2>2, <2>3 DEF TypeOK, SlotsOK
<1>4. SessionsBounded'
  <2>1. CASE ~Full
    <3>1. Cardinality(live') < MaxSessions
      BY <1>1, <2>1, Finite, BoundsAssumption DEF Full
    <3>2. /\ Cardinality(Creating') \in Nat /\ Cardinality(Procs) \in Nat
          /\ Cardinality(Creating') <= Cardinality(Procs) /\ Cardinality(live') \in Nat
      BY <1>1, <1>3, Finite, FS_Subset, FS_CardinalityType, BoundsAssumption DEF Creating
    <3> QED
      BY <3>1, <3>2, BoundsAssumption DEF SessionsBounded
  <2>2. CASE Full
    <3>1. Creating' = Creating
      BY <2>2 DEF Creating, TypeOK, SlotsOK
    <3> QED
      BY <1>1, <3>1 DEF SessionsBounded
  <2> QED
    BY <2>1, <2>2
<1>5. OldestIsEvicted'
  BY <1>1, <1>2 DEF OldestIsEvicted, TypeOK, SlotsOK
<1> QED
  BY <1>3, <1>4, <1>5

\* An eviction makes the room that its handler goes on to take.
LEMMA LoginEvictInv ==
  ASSUME IInv, NEW p \in Procs, LoginEvict(p)
  PROVE  IInv'
<1> USE DEF IInv, LoginEvict, Goto, rows, tokens, client, Remove
<1>1. TypeOK' /\ Placed'
  <2>1. ServerOK'
    <3>1. CASE sid[p] \in live
      BY <3>1, RemoveOK DEF TypeOK
    <3>2. CASE sid[p] \notin live
      BY <3>2 DEF TypeOK, ServerOK
    <3> QED
      BY <3>1, <3>2
  <2>2. ClientOK' /\ Placed'
    BY DEF TypeOK, ClientOK, SlotsOK, Placed
  <2>3. pc' \in [Procs -> Labels]
    BY DEF TypeOK, SlotsOK, Labels
  <2> QED
    BY <2>1, <2>2, <2>3 DEF TypeOK, SlotsOK
<1>2. CASE sid[p] \in live
  <2>1. live' = live \ {sid[p]}
    BY <1>2
  <2>2. Creating' = Creating \cup {p} /\ p \notin Creating
    BY <1>2 DEF Creating, TypeOK, ServerOK, ClientOK, SlotsOK
  <2>3. /\ Cardinality(live') = Cardinality(live) - 1
        /\ Cardinality(Creating') = Cardinality(Creating) + 1
    BY <1>2, <2>1, <2>2, Finite, FS_RemoveElement, FS_AddElement
  <2>4. SessionsBounded'
    BY <2>3, Finite, BoundsAssumption DEF SessionsBounded
  <2>5. OldestIsEvicted'
    BY <1>2, <2>1 DEF OldestIsEvicted, TypeOK, ServerOK, ClientOK, SlotsOK
  <2> QED
    BY <1>1, <2>4, <2>5
<1>3. CASE sid[p] \notin live
  <2>1. live' = live /\ Creating' = Creating
    BY <1>3 DEF Creating, TypeOK, ServerOK, ClientOK, SlotsOK
  <2> QED
    BY <1>1, <1>3, <2>1, NothingAdded DEF TypeOK, ServerOK, ClientOK, SlotsOK
<1> QED
  BY <1>2, <1>3

\* A row that is inserted takes the place of a handler that was about to.
LEMMA LoginCreateInv ==
  ASSUME IInv, NEW p \in Procs, LoginCreate(p)
  PROVE  IInv'
<1> USE DEF IInv, LoginCreate, Goto, client, Issue
<1>1. live' = live \cup {nextId}
  OBVIOUS
<1>2. Agent(by[p]) \in Agents
  BY AgentsAssumption DEF Agent, Placed
<1>3. TypeOK'
  <2>1. ServerOK'
    <3>1. nextId' \in 1 .. MaxIds + 1 /\ nextTok' \in 1 .. MaxTok + 1
      BY BoundsAssumption DEF TypeOK, ServerOK, Ids, Tokens
    <3>2. live' \subseteq Ids /\ (\A i \in live' : i < nextId') /\ lapsed' \subseteq live'
      BY BoundsAssumption DEF TypeOK, ServerOK, Ids
    <3>3. /\ agent' \in [Ids -> Agents] /\ token' \in [Ids -> 0 .. MaxTok]
          /\ issued' \in [Tokens -> 0 .. MaxIds]
      BY <1>2, BoundsAssumption DEF TypeOK, ServerOK, Ids, Tokens
    <3> QED
      BY <3>1, <3>2, <3>3 DEF ServerOK
  <2>2. ClientOK'
    BY DEF TypeOK, ClientOK
  <2>3. pc' \in [Procs -> Labels] /\ tok' \in [Procs -> 0 .. MaxTok]
    BY BoundsAssumption DEF TypeOK, SlotsOK, Labels, Tokens
  <2>4. \A q \in Procs : sid'[q] < nextId'
    BY BoundsAssumption DEF TypeOK, SlotsOK, ServerOK
  <2> QED
    BY <2>1, <2>2, <2>3, <2>4 DEF TypeOK, SlotsOK
<1>4. Placed'
  BY DEF Placed, TypeOK, ServerOK, ClientOK, SlotsOK
<1>5. Creating' = Creating \ {p} /\ p \in Creating
  BY DEF Creating, TypeOK, ServerOK, ClientOK, SlotsOK
<1>6. /\ Cardinality(live') = Cardinality(live) + 1
      /\ Cardinality(Creating') = Cardinality(Creating) - 1
  <2>1. nextId \notin live
    BY BoundsAssumption DEF TypeOK, ServerOK, ClientOK, SlotsOK, Ids
  <2> QED
    BY <1>1, <1>5, <2>1, Finite, FS_RemoveElement, FS_AddElement
<1>7. SessionsBounded'
  BY <1>6, Finite, BoundsAssumption DEF SessionsBounded
<1>8. OldestIsEvicted'
  BY <1>1, BoundsAssumption DEF OldestIsEvicted, TypeOK, ServerOK, ClientOK, SlotsOK, Ids
<1> QED
  BY <1>3, <1>4, <1>7, <1>8

LEMMA OutsideInv ==
  ASSUME IInv, Revoke \/ \E i \in live \ lapsed : Lapse(i)
  PROVE  IInv'
<1> USE DEF IInv, client, slots, tokens
<1>1. CASE Revoke
  <2>1. TypeOK' /\ Placed'
    <3>1. PICK S : S \subseteq live /\ Remove(S)
      BY <1>1 DEF Revoke
    <3>2. ServerOK'
      BY <1>1, <3>1, RemoveOK DEF Revoke, TypeOK
    <3> QED
      BY <1>1, <3>2 DEF Revoke, TypeOK, ClientOK, SlotsOK, Placed
  <2>2. live' \subseteq live /\ Creating' = Creating
    BY <1>1 DEF Revoke, Remove, Creating
  <2> QED
    BY <1>1, <2>1, <2>2, NothingAdded DEF Revoke
<1>2. ASSUME NEW i \in live \ lapsed, Lapse(i) PROVE IInv'
  <2>1. TypeOK' /\ Placed'
    BY <1>2 DEF Lapse, TypeOK, ServerOK, ClientOK, SlotsOK, Placed
  <2>2. live' = live /\ Creating' = Creating
    BY <1>2 DEF Lapse, Creating
  <2> QED
    BY <1>2, <2>1, <2>2, NothingAdded DEF Lapse
<1> QED
  BY <1>1, <1>2

LEMMA NextInv == IInv /\ [Next]_vars => IInv'
<1> SUFFICES ASSUME IInv, [Next]_vars PROVE IInv'
  OBVIOUS
<1>1. CASE Next
  BY <1>1, RequestInv, QuietStepInv, LoginCountInv, LoginEvictInv, LoginCreateInv, OutsideInv
     DEF Next, Handle
<1>2. CASE UNCHANGED vars
  BY <1>2 DEF vars, server, rows, tokens, client, slots, IInv, TypeOK, ServerOK, ClientOK, SlotsOK, Placed,
       SessionsBounded, OldestIsEvicted, Creating
<1> QED
  BY <1>1, <1>2

LEMMA Invariance == Spec => []IInv
BY InitInv, NextInv, PTL DEF Spec

----------------------------------------------------------------------------

\* Every variable keeps its type.
THEOREM TypeCorrect == Spec => []TypeOK
BY Invariance, PTL DEF IInv

\* Logins that overlap exceed MAX_SESSIONS by less than their number.
THEOREM OvershootIsBounded == Spec => []SessionsBounded
BY Invariance, PTL DEF IInv

\* The session an eviction removes is the oldest one of that moment.
THEOREM EvictionIsFair == Spec => []OldestIsEvicted
BY Invariance, PTL DEF IInv

\* No step brings a removed session back.
THEOREM RevocationIsFinal == Spec => RevokedStaysRevoked
<1>1. ASSUME IInv, [Next]_vars PROVE \A i \in live' : i < nextId => i \in live
  <2> USE DEF Remove, rows, server
  <2>1. ASSUME NEW p \in Procs, LoginCreate(p) PROVE live' = live \cup {nextId}
    BY <2>1 DEF LoginCreate
  <2>2. ASSUME NEW p \in Procs,
               \/ LoginFind(p) \/ LoginCount(p) \/ LoginEvict(p)
               \/ SendRefresh(p) \/ RefreshFind(p) \/ Rotate(p)
               \/ Answer(p) \/ Refused(p) \/ LogoutDelete(p) \/ Drop(p)
               \/ \E b \in Browsers : StartLogin(p, b) \/ Call(p, b) \/ Logout(p, b)
        PROVE live' \subseteq live
    BY <2>2 DEF LoginFind, LoginCount, LoginEvict, SendRefresh, RefreshFind, Rotate,
       Answer, Refused, LogoutDelete, Drop, StartLogin, Call, Logout, Send
  <2>3. CASE Revoke \/ (\E i \in live \ lapsed : Lapse(i)) \/ UNCHANGED vars
    BY <2>3 DEF Revoke, Lapse, vars
  <2>4. nextId \in Nat
    BY <1>1, BoundsAssumption DEF IInv, TypeOK, ServerOK, ClientOK, SlotsOK
  <2> QED
    BY <1>1, <2>1, <2>2, <2>3, <2>4 DEF Next, Handle
<1>2. IInv /\ [Next]_vars => [\A i \in live' : i < nextId => i \in live]_vars
  BY <1>1
<1> QED
  BY <1>2, Invariance, PTL DEF Spec, RevokedStaysRevoked

----------------------------------------------------------------------------
(* The cookie of a browser whose requests do not overlap *)

Fresh(t) == issued[t] \in live => token[issued[t]] = t
Dead(t) == \A i \in live : ~Valid(i, t)

\* Every row has a token of its own.
Traced ==
    /\ \A t \in Tokens : issued[t] < nextId
    /\ \A i \in live : token[i] \in 1 .. nextTok - 1 /\ issued[token[i]] = i

\* Token t has been handed out, for a session of b's agent.
Owned(t, b) ==
    t \in 1 .. nextTok - 1 /\ (issued[t] \in live => agent[issued[t]] = Agent(b))

\* Nobody holds, brings or is about to change a token of somebody else.
Separate ==
    /\ \A b \in Browsers : /\ cookie[b] # 0 => Owned(cookie[b], b)
                           /\ b \in signed => cookie[b] # 0
    /\ \A p \in Procs :
          /\ tok[p] # 0 => Owned(tok[p], by[p])
          /\ pc[p] = "idle" => by[p] = NoBrowser /\ tok[p] = 0
          /\ pc[p] \in {"find", "count", "evict", "create", "unauthorized"} => tok[p] = 0
          /\ pc[p] \in {"refresh", "welcome", "answer", "logout"} => tok[p] # 0
          /\ pc[p] = "unauthorized" => cookie[by[p]] # 0
          /\ pc[p] = "rotate" /\ sid[p] \in live => agent[sid[p]] = Agent(by[p])

\* The only request of a browser carries its cookie, or a newer token.
InTurn ==
    \A p \in Procs : by[p] \in alone =>
        /\ \A q \in Procs : by[q] = by[p] => q = p
        /\ pc[p] \in {"refresh", "logout"} => tok[p] = cookie[by[p]]
        /\ pc[p] \in {"rotate", "refused"} /\ tok[p] # 0 => tok[p] = cookie[by[p]]
        /\ pc[p] = "rotate" /\ tok[p] # 0 => issued[tok[p]] = sid[p]
        /\ pc[p] = "refused" /\ tok[p] # 0 => Dead(tok[p])
        /\ pc[p] = "logout" => by[p] \notin signed
        /\ pc[p] \in {"welcome", "answer"} /\ OwnAgent(by[p]) => Fresh(tok[p])

CookieInv == IInv /\ Traced /\ Separate /\ InTurn /\ CookieIsCurrent /\ SignedOutIsDead

CookieOK(b) ==
    /\ cookie[b] # 0 => Owned(cookie[b], b)
    /\ b \in signed => cookie[b] # 0

SlotOK(p) ==
    /\ tok[p] # 0 => Owned(tok[p], by[p])
    /\ pc[p] = "idle" => by[p] = NoBrowser /\ tok[p] = 0
    /\ pc[p] \in {"find", "count", "evict", "create", "unauthorized"} => tok[p] = 0
    /\ pc[p] \in {"refresh", "welcome", "answer", "logout"} => tok[p] # 0
    /\ pc[p] = "unauthorized" => cookie[by[p]] # 0
    /\ pc[p] = "rotate" /\ sid[p] \in live => agent[sid[p]] = Agent(by[p])

Only(p) == \A q \in Procs : by[q] = by[p] => q = p

StageOK(p) ==
    /\ pc[p] \in {"refresh", "logout"} => tok[p] = cookie[by[p]]
    /\ pc[p] \in {"rotate", "refused"} /\ tok[p] # 0 => tok[p] = cookie[by[p]]
    /\ pc[p] = "rotate" /\ tok[p] # 0 => issued[tok[p]] = sid[p]
    /\ pc[p] = "refused" /\ tok[p] # 0 => Dead(tok[p])
    /\ pc[p] = "logout" => by[p] \notin signed
    /\ pc[p] \in {"welcome", "answer"} /\ OwnAgent(by[p]) => Fresh(tok[p])

RestOK(b) ==
    b \in alone /\ Quiet(b) =>
        /\ b \in signed /\ OwnAgent(b) => Fresh(cookie[b])
        /\ b \notin signed => Dead(cookie[b])

Parts ==
    /\ Traced
    /\ \A b \in Browsers : CookieOK(b) /\ RestOK(b)
    /\ \A p \in Procs : SlotOK(p) /\ (by[p] \in alone => Only(p) /\ StageOK(p))

LEMMA PartsOfCookieInv ==
  ASSUME TypeOK
  PROVE  CookieInv <=> IInv /\ Parts
<1>1. Separate <=> (\A b \in Browsers : CookieOK(b)) /\ (\A p \in Procs : SlotOK(p))
  BY DEF Separate, CookieOK, SlotOK
<1>2. InTurn <=> \A p \in Procs : by[p] \in alone => Only(p) /\ StageOK(p)
  BY DEF InTurn, Only, StageOK
<1>3. alone \subseteq Browsers /\ signed \subseteq Browsers
  BY DEF TypeOK, ClientOK
<1>4. CookieIsCurrent <=>
        \A b \in Browsers :
           b \in alone /\ Quiet(b) /\ b \in signed /\ OwnAgent(b) => Fresh(cookie[b])
  BY <1>3 DEF CookieIsCurrent, Fresh
<1>5. SignedOutIsDead <=>
        \A b \in Browsers : b \in alone /\ Quiet(b) /\ b \notin signed => Dead(cookie[b])
  BY <1>3 DEF SignedOutIsDead, Dead
<1>6. CookieIsCurrent /\ SignedOutIsDead <=> \A b \in Browsers : RestOK(b)
  BY <1>4, <1>5 DEF RestOK
<1> QED
  BY <1>1, <1>2, <1>6 DEF CookieInv, Parts

LEMMA InitParts == ASSUME Init PROVE Parts
<1> USE DEF Init
<1>1. Traced
  BY BoundsAssumption DEF Traced
<1>2. \A b \in Browsers : CookieOK(b) /\ RestOK(b)
  BY DEF CookieOK, RestOK
<1>3. \A p \in Procs : SlotOK(p)
  BY DEF SlotOK
<1> QED
  BY <1>1, <1>2, <1>3 DEF Parts

----------------------------------------------------------------------------
(* What steps do to the rows *)

\* What other browsers than b know of the rows stays true.
Kept(b) ==
    /\ Traced'
    /\ \A t \in 1 .. nextTok - 1 : issued'[t] = issued[t]
    /\ \A t \in Nat, c \in Browsers : Owned(t, c) => Owned(t, c)'
    /\ \A t \in 0 .. nextTok - 1 : Dead(t) => Dead(t)'
    /\ \A t \in Nat, c \in Browsers \ {b} :
          OwnAgent(c) /\ Owned(t, c) /\ Fresh(t) => Fresh(t)'
    /\ \A q \in Procs : sid[q] \in live' => sid[q] \in live /\ agent'[sid[q]] = agent[sid[q]]

Numbers == nextId \in Nat /\ nextTok \in Nat /\ MaxIds \in Nat /\ MaxTok \in Nat

LEMMA NumbersOK == ASSUME TypeOK PROVE Numbers
BY BoundsAssumption DEF TypeOK, ServerOK, Numbers

\* Rows are only removed, or expire.
LEMMA RowsKept ==
  ASSUME TypeOK, Traced, live' \subseteq live, UNCHANGED <<nextId, nextTok, issued>>,
         \A i \in live' : /\ token'[i] = token[i] /\ agent'[i] = agent[i]
                          /\ i \in lapsed => i \in lapsed'
  PROVE  /\ \A b \in Browsers : Kept(b)
         /\ \A t \in Nat : Fresh(t) => Fresh(t)'
<1>1. Traced'
  BY DEF Traced
<1>2. \A t \in Nat, c \in Browsers : Owned(t, c) => Owned(t, c)'
  BY DEF Owned
<1>3. \A t \in 0 .. nextTok - 1 : Dead(t) => Dead(t)'
  BY DEF Dead, Valid
<1>4. \A t \in Nat : Fresh(t) => Fresh(t)'
  BY DEF Fresh
<1>5. \A q \in Procs : sid[q] \in live' => sid[q] \in live /\ agent'[sid[q]] = agent[sid[q]]
  OBVIOUS
<1> QED
  BY <1>1, <1>2, <1>3, <1>4, <1>5 DEF Kept

\* A row of b's agent, old or new, gets the next token.
LEMMA RowRenewed ==
  ASSUME TypeOK, Traced, NEW b \in Browsers, NEW i \in Ids,
         live' = live \cup {i}, i \in live \/ i = nextId, nextId' \in Nat,
         i < nextId', nextId <= nextId',
         nextTok \in Tokens, nextTok' = nextTok + 1,
         issued' = [issued EXCEPT ![nextTok] = i],
         token' = [token EXCEPT ![i] = nextTok],
         \A j \in live \ {i} : agent'[j] = agent[j] /\ (j \in lapsed => j \in lapsed'),
         i \in live => agent'[i] = agent[i],
         agent'[i] = Agent(b)
  PROVE  Kept(b) /\ \A t \in {nextTok} : Owned(t, b)' /\ Fresh(t)'
<1> USE DEF Numbers
<1>0. /\ Numbers /\ nextTok \in 1 .. MaxTok
      /\ token \in [Ids -> 0 .. MaxTok] /\ issued \in [Tokens -> 0 .. MaxIds]
      /\ live \subseteq Ids /\ \A j \in live : j < nextId
      /\ Ids \subseteq Nat
  BY NumbersOK DEF TypeOK, ServerOK, Tokens, Ids
<1>1. \A t \in 1 .. nextTok - 1 : t \in Tokens /\ issued'[t] = issued[t] /\ issued[t] < nextId
                                 /\ issued[t] \in Nat
  BY <1>0 DEF Traced, Tokens
<1>2. issued'[nextTok] = i /\ token'[i] = nextTok
  BY <1>0
<1>3. \A j \in live \ {i} : token'[j] = token[j] /\ token[j] \in 1 .. nextTok - 1
                          /\ issued[token[j]] = j
  BY <1>0 DEF Traced
<1>4. Traced'
  <2>1. \A t \in Tokens : issued'[t] < nextId'
    BY <1>0 DEF Traced
  <2>2. ASSUME NEW j \in live'
        PROVE  token'[j] \in 1 .. nextTok' - 1 /\ issued'[token'[j]] = j
    <3>1. CASE j = i
      BY <1>0, <1>2, <3>1
    <3>2. CASE j # i
      <4>1. j \in live \ {i}
        BY <2>2, <3>2
      <4>2. token'[j] \in 1 .. nextTok - 1 /\ issued[token'[j]] = j
        BY <1>3, <4>1
      <4> QED
        BY <1>0, <1>1, <4>2
    <3> QED
      BY <3>1, <3>2
  <2> QED
    BY <2>1, <2>2 DEF Traced
<1>5. \A t \in Nat, c \in Browsers : Owned(t, c) => Owned(t, c)'
  <2> SUFFICES ASSUME NEW t \in Nat, NEW c \in Browsers, Owned(t, c) PROVE Owned(t, c)'
    OBVIOUS
  <2>1. t \in 1 .. nextTok - 1 /\ t \in 1 .. nextTok' - 1
    BY <1>0 DEF Owned
  <2>2. ASSUME issued'[t] \in live' PROVE agent'[issued'[t]] = Agent(c)
    <3>1. issued[t] \in live
      BY <1>0, <1>1, <2>1, <2>2
    <3> QED
      BY <1>1, <2>1, <3>1 DEF Owned
  <2> QED
    BY <2>1, <2>2 DEF Owned
<1>6. \A t \in 0 .. nextTok - 1 : Dead(t) => Dead(t)'
  <2> SUFFICES ASSUME NEW t \in 0 .. nextTok - 1, Dead(t), NEW j \in live' PROVE ~Valid(j, t)'
    BY DEF Dead
  <2>1. CASE j = i
    BY <1>0, <1>2, <2>1 DEF Valid
  <2>2. CASE j # i
    BY <1>3, <2>2 DEF Dead, Valid
  <2> QED
    BY <2>1, <2>2
<1>7. \A t \in Nat, c \in Browsers \ {b} : OwnAgent(c) /\ Owned(t, c) /\ Fresh(t) => Fresh(t)'
  <2> SUFFICES ASSUME NEW t \in Nat, NEW c \in Browsers \ {b}, OwnAgent(c), Owned(t, c), Fresh(t),
                      issued'[t] \in live'
               PROVE  token'[issued'[t]] = t
    BY DEF Fresh
  <2>1. t \in 1 .. nextTok - 1
    BY DEF Owned
  <2>2. issued'[t] = issued[t] /\ issued[t] \in live
    BY <1>0, <1>1, <2>1
  <2>3. issued[t] # i
    BY <2>2 DEF Owned, OwnAgent
  <2> QED
    BY <1>3, <2>2, <2>3 DEF Fresh
<1>8. \A q \in Procs : sid[q] \in live' => sid[q] \in live /\ agent'[sid[q]] = agent[sid[q]]
  <2>1. \A q \in Procs : sid[q] < nextId /\ sid[q] \in Nat
    BY <1>0 DEF TypeOK, SlotsOK
  <2> QED
    BY <1>0, <2>1
<1>9. \A t \in {nextTok} : Owned(t, b)' /\ Fresh(t)'
  <2> SUFFICES ASSUME NEW t \in {nextTok} PROVE Owned(t, b)' /\ Fresh(t)'
    OBVIOUS
  <2>1. t \in 1 .. nextTok' - 1 /\ issued'[t] = i /\ token'[i] = t
    BY <1>0, <1>2
  <2>2. Owned(t, b)'
    BY <2>1 DEF Owned
  <2> QED
    BY <2>1, <2>2 DEF Fresh
<1> QED
  BY <1>1, <1>4, <1>5, <1>6, <1>7, <1>8, <1>9 DEF Kept

----------------------------------------------------------------------------
(* What steps do to the requests *)

\* A step of slot p, for browser b: others see no difference.
LEMMA OneSlotMoves ==
  ASSUME TypeOK, Placed, Parts, NEW p \in Procs, NEW b \in Browsers, Kept(b),
         TypeOK',
         \A q \in Procs \ {p} : /\ pc'[q] = pc[q] /\ by'[q] = by[q]
                                /\ tok'[q] = tok[q] /\ sid'[q] = sid[q],
         \A c \in Browsers \ {b} : /\ cookie'[c] = cookie[c]
                                   /\ c \in signed' <=> c \in signed
                                   /\ c \in alone' => c \in alone,
         by[p] \in {b, NoBrowser}, by'[p] \in {b, NoBrowser},
         cookie[b] # 0 => cookie'[b] # 0,
         b \in alone' => \A q \in Procs \ {p} : by[q] # b,
         nextTok <= nextTok',
         CookieOK(b)', SlotOK(p)',
         by'[p] = b /\ b \in alone' => StageOK(p)',
         RestOK(b)'
  PROVE  Parts'
<1>1. Traced'
  BY DEF Kept
<1>2. \A t \in 0 .. MaxTok, c \in Browsers : Owned(t, c) => Owned(t, c)'
  BY NumbersOK DEF Kept, Numbers
<1>3. /\ tok \in [Procs -> 0 .. MaxTok] /\ cookie \in [Browsers -> 0 .. MaxTok]
      /\ by \in [Procs -> Browsers \cup {NoBrowser}] /\ pc \in [Procs -> Labels]
      /\ 0 .. MaxTok \subseteq Nat
  BY DEF TypeOK, SlotsOK, ClientOK
<1>4. \A t \in 0 .. MaxTok, c \in Browsers : Owned(t, c) => t \in 0 .. nextTok - 1
  BY NumbersOK DEF Owned, Numbers
<1>5. 0 \in 0 .. nextTok - 1
  BY NumbersOK DEF TypeOK, ServerOK, Numbers
<1>6. ASSUME NEW c \in Browsers \ {b} PROVE CookieOK(c)' /\ RestOK(c)'
  <2>1. CookieOK(c)'
    <3>1. PICK t \in 0 .. MaxTok : t = cookie[c] /\ t = cookie'[c]
      BY <1>3, <1>6
    <3>2. t # 0 => Owned(t, c)'
      BY <1>2, <3>1 DEF Parts, CookieOK
    <3> QED
      BY <1>6, <3>1, <3>2 DEF Parts, CookieOK, Owned
  <2>2. RestOK(c)'
    <3> SUFFICES ASSUME c \in alone', Quiet(c)'
                 PROVE  (c \in signed' /\ OwnAgent(c) => Fresh(cookie[c])') /\ (c \notin signed' => Dead(cookie[c])')
      BY DEF RestOK
    <3>1. c \in alone /\ Quiet(c)
      <4>1. c # NoBrowser
        BY NoBrowserAssumption
      <4> QED
        BY <1>6, <4>1 DEF Quiet
    <3>2. CASE c \in signed /\ OwnAgent(c)
      <4>1. Fresh(cookie[c]) /\ Owned(cookie[c], c)
        BY <3>1, <3>2 DEF Parts, RestOK, CookieOK
      <4>2. cookie[c] \in Nat /\ cookie'[c] = cookie[c]
        BY <1>3, <1>6
      <4>3. issued'[cookie[c]] \in live' => token'[issued'[cookie[c]]] = cookie[c]
        BY <1>6, <3>2, <4>1, <4>2 DEF Kept, Fresh
      <4> QED
        BY <1>6, <3>2, <4>2, <4>3 DEF Fresh
    <3>3. CASE c \notin signed
      <4>1. Dead(cookie[c])
        BY <3>1, <3>3 DEF Parts, RestOK
      <4>2. cookie[c] \in 0 .. nextTok - 1 /\ cookie'[c] = cookie[c]
        BY <1>3, <1>4, <1>5, <1>6 DEF Parts, CookieOK
      <4>3. \A i \in live' : ~(token'[i] = cookie[c] /\ i \notin lapsed')
        BY <4>1, <4>2 DEF Kept, Dead, Valid
      <4> QED
        BY <1>6, <3>3, <4>2, <4>3 DEF Dead, Valid
    <3> QED
      BY <1>6, <3>2, <3>3
  <2> QED
    BY <2>1, <2>2
<1>7. ASSUME NEW q \in Procs \ {p}
      PROVE  SlotOK(q)' /\ (by'[q] \in alone' => Only(q)' /\ StageOK(q)')
  <2> USE DEF Labels
  <2>0. pc'[q] = pc[q] /\ by'[q] = by[q] /\ tok'[q] = tok[q] /\ sid'[q] = sid[q]
    BY <1>7
  <2>1. SlotOK(q)'
    <3>0. SlotOK(q)
      BY <1>7 DEF Parts
    <3>1. tok[q] # 0 => by[q] \in Browsers
      BY <1>3, <1>7, <3>0 DEF SlotOK, Placed, Labels
    <3>2. pc'[q] = "unauthorized" => cookie'[by[q]] # 0
      BY <1>3, <1>7, <2>0, <3>0 DEF SlotOK, Placed
    <3>3. pc'[q] = "rotate" /\ sid'[q] \in live' => agent'[sid'[q]] = Agent(by'[q])
      BY <1>7, <2>0, <3>0 DEF SlotOK, Kept
    <3>4. PICK t \in 0 .. MaxTok : t = tok[q] /\ t = tok'[q]
      BY <1>3, <1>7, <2>0
    <3>5. t # 0 => Owned(t, by[q]) /\ by[q] \in Browsers
      BY <3>0, <3>1, <3>4 DEF SlotOK
    <3>6. t # 0 => \E c \in Browsers : c = by'[q] /\ Owned(t, c)'
      BY <1>2, <2>0, <3>5
    <3>7. tok'[q] # 0 => Owned(tok[q], by[q])'
      BY <3>4, <3>6 DEF Owned
    <3> QED
      BY <2>0, <3>0, <3>2, <3>3, <3>7 DEF SlotOK
  <2> SUFFICES ASSUME by'[q] \in alone' PROVE Only(q)' /\ StageOK(q)'
    BY <2>1
  <2>2. by[q] \in Browsers \ {b} /\ by[q] \in alone
    <3>1. by[q] \in Browsers
      BY <2>0 DEF TypeOK, ClientOK
    <3> QED
      BY <1>7, <2>0, <3>1
  <2>3. Only(q) /\ StageOK(q) /\ SlotOK(q)
    BY <1>7, <2>2 DEF Parts
  <2>4. Only(q)'
    <3>1. by'[p] # by[q]
      BY <2>2, NoBrowserAssumption
    <3> QED
      BY <1>7, <2>0, <2>3, <3>1 DEF Only
  <2>5. StageOK(q)'
    <3>1. cookie'[by[q]] = cookie[by[q]] /\ (by[q] \in signed' <=> by[q] \in signed)
      BY <2>2
    <3>2. pc[q] = "rotate" /\ tok[q] # 0 => issued'[tok[q]] = sid[q]
      <4>1. ASSUME pc[q] = "rotate", tok[q] # 0 PROVE issued'[tok[q]] = issued[tok[q]]
        <5>1. Owned(tok[q], by[q])
          BY <2>3, <4>1 DEF SlotOK
        <5> QED
          BY <5>1 DEF Kept, Owned
      <4> QED
        BY <2>3, <4>1 DEF StageOK
    <3>3. pc[q] = "refused" /\ tok[q] # 0 => \A i \in live' : ~(token'[i] = tok[q] /\ i \notin lapsed')
      <4>1. tok[q] # 0 => tok[q] \in 0 .. nextTok - 1
        BY <1>3, <1>4, <1>7, <2>2, <2>3 DEF SlotOK
      <4> QED
        BY <2>3, <4>1 DEF StageOK, Kept, Dead, Valid
    <3>4. pc[q] \in {"welcome", "answer"} /\ OwnAgent(by[q]) =>
             (issued'[tok[q]] \in live' => token'[issued'[tok[q]]] = tok[q])
      BY <1>3, <1>7, <2>2, <2>3 DEF StageOK, SlotOK, Kept, Fresh
    <3> QED
      BY <2>0, <2>3, <3>1, <3>2, <3>3, <3>4 DEF StageOK, Dead, Valid, Fresh
  <2> QED
    BY <2>4, <2>5
<1>8. by'[p] \in alone' => by'[p] = b /\ Only(p)'
  <2>1. alone' \subseteq Browsers
    BY DEF TypeOK, ClientOK
  <2> QED
    BY <2>1, NoBrowserAssumption DEF Only
<1>9. \A c \in Browsers : CookieOK(c)' /\ RestOK(c)'
  BY <1>6
<1>10. \A q \in Procs : SlotOK(q)' /\ (by'[q] \in alone' => Only(q)' /\ StageOK(q)')
  BY <1>7, <1>8
<1> QED
  BY <1>1, <1>9, <1>10 DEF Parts

Others(p) ==
    \A q \in Procs \ {p} : /\ pc'[q] = pc[q] /\ by'[q] = by[q]
                           /\ tok'[q] = tok[q] /\ sid'[q] = sid[q]

LEMMA ServerStays ==
  ASSUME TypeOK, Traced, UNCHANGED server
  PROVE  /\ nextTok' = nextTok
         /\ \A b \in Browsers : Kept(b)
         /\ \A t \in Nat : Fresh(t) => Fresh(t)'
BY RowsKept DEF server, rows, tokens

\* What a browser that is at rest, or sends, knows of its cookie.
LEMMA CookieStays ==
  ASSUME TypeOK, NEW b \in Browsers, CookieOK(b), Kept(b),
         cookie'[b] = cookie[b], b \in signed' => b \in signed
  PROVE  CookieOK(b)'
<1>1. PICK t \in Nat : t = cookie[b] /\ t = cookie'[b]
  BY DEF TypeOK, ClientOK
<1> QED
  BY <1>1 DEF Kept, CookieOK, Owned

\* A request goes on.
LEMMA HandlerStep ==
  ASSUME IInv, Parts, IInv', NEW p \in Procs, NEW b \in Browsers, by[p] = b, Kept(b), Others(p),
         UNCHANGED <<client, by>>, nextTok <= nextTok',
         SlotOK(p)', b \in alone => StageOK(p)'
  PROVE  Parts'
<1>1. UNCHANGED <<cookie, signed, alone>>
  BY DEF client
<1>2. CookieOK(b)'
  BY <1>1, CookieStays DEF Parts, IInv
<1>3. RestOK(b)'
  BY DEF RestOK, Quiet
<1>4. b \in alone' => \A q \in Procs \ {p} : by[q] # b
  BY <1>1 DEF Parts, Only
<1> QED
  BY <1>1, <1>2, <1>3, <1>4, OneSlotMoves DEF IInv, Others

\* A request ends.
LEMMA LastStep ==
  ASSUME IInv, Parts, IInv', NEW p \in Procs, NEW b \in Browsers, by[p] = b, Kept(b), Finish(p),
         \A c \in Browsers \ {b} : /\ cookie'[c] = cookie[c]
                                   /\ c \in signed' <=> c \in signed,
         alone' \subseteq alone, nextTok' = nextTok,
         CookieOK(b)', cookie[b] # 0 => cookie'[b] # 0,
         b \in alone' /\ b \in signed' /\ OwnAgent(b) => Fresh(cookie[b])',
         b \in alone' /\ b \notin signed' => Dead(cookie[b])'
  PROVE  Parts'
<1>1. Others(p)
  BY DEF Others, Finish, IInv, TypeOK, SlotsOK
<1>2. by'[p] = NoBrowser /\ pc'[p] = "idle" /\ tok'[p] = 0
  BY DEF Finish, IInv, TypeOK, SlotsOK
<1>3. SlotOK(p)'
  BY <1>2 DEF SlotOK
<1>4. RestOK(b)'
  BY DEF RestOK
<1>5. b \in alone' => \A q \in Procs \ {p} : by[q] # b
  BY DEF Parts, Only
<1>6. ~(by'[p] = b)
  BY <1>2, NoBrowserAssumption
<1>7. nextTok <= nextTok'
  BY NumbersOK DEF IInv, Numbers
<1> QED
  BY <1>1, <1>2, <1>3, <1>4, <1>5, <1>6, <1>7, OneSlotMoves DEF IInv, Others

LEMMA SendParts ==
  ASSUME IInv, Parts, IInv', NEW p \in Procs, NEW b \in Browsers,
         StartLogin(p, b) \/ Call(p, b) \/ Logout(p, b)
  PROVE  Parts'
<1> USE DEF StartLogin, Call, Logout, Send, Goto
<1>1. Kept(b) /\ nextTok' = nextTok
  BY ServerStays DEF IInv, Parts
<1>2. pc[p] = "idle" /\ by[p] = NoBrowser /\ tok[p] = 0
  BY DEF Parts, SlotOK
<1>3. Others(p) /\ by'[p] = b /\ UNCHANGED <<cookie, sid>>
  BY DEF Others, IInv, TypeOK, SlotsOK
<1>4. \A c \in Browsers \ {b} : (c \in signed' <=> c \in signed) /\ (c \in alone' => c \in alone)
  OBVIOUS
<1>5. b \in signed' => b \in signed
  OBVIOUS
<1>6. CookieOK(b)'
  BY <1>1, <1>3, <1>5, CookieStays DEF IInv, Parts
<1>7. b \in alone' => \A q \in Procs \ {p} : by[q] # b
  <2>1. CASE Quiet(b)
    BY <2>1 DEF Quiet
  <2>2. CASE ~Quiet(b)
    BY <2>2
  <2> QED
    BY <2>1, <2>2
<1>8. RestOK(b)'
  BY <1>3 DEF RestOK, Quiet
<1>9. SlotOK(p)' /\ StageOK(p)'
  <2>1. CASE StartLogin(p, b)
    <3>1. pc'[p] = "find" /\ tok'[p] = 0
      BY <2>1 DEF IInv, TypeOK, SlotsOK
    <3> QED
      BY <3>1 DEF SlotOK, StageOK
  <2>2. CASE Call(p, b)
    <3>1. pc'[p] = "unauthorized" /\ tok'[p] = 0 /\ cookie'[b] # 0
      BY <2>2 DEF IInv, TypeOK, SlotsOK, Parts, CookieOK
    <3> QED
      BY <1>3, <3>1 DEF SlotOK, StageOK
  <2>3. CASE Logout(p, b)
    <3>1. pc'[p] = "logout" /\ tok'[p] = cookie'[b] /\ cookie'[b] # 0 /\ b \notin signed'
      BY <2>3 DEF IInv, TypeOK, SlotsOK, Parts, CookieOK
    <3>2. tok'[p] # 0 => Owned(tok[p], by[p])'
      BY <1>3, <1>6, <3>1 DEF CookieOK, Owned
    <3> QED
      BY <1>3, <3>1, <3>2 DEF SlotOK, StageOK
  <2> QED
    BY <2>1, <2>2, <2>3
<1>10. nextTok <= nextTok'
  BY <1>1, NumbersOK DEF IInv, Numbers
<1> QED
  BY <1>1, <1>2, <1>3, <1>4, <1>6, <1>7, <1>8, <1>9, <1>10, OneSlotMoves DEF IInv, Others

\* Steps of a handler that leave the rows alone.
LEMMA ReadParts ==
  ASSUME IInv, Parts, IInv', NEW p \in Procs,
         LoginFind(p) \/ LoginCount(p) \/ SendRefresh(p) \/ RefreshFind(p)
  PROVE  Parts'
<1> DEFINE b == by[p]
<1> USE DEF LoginFind, LoginCount, SendRefresh, RefreshFind, Goto
<1>1. UNCHANGED <<server, client, by>> /\ pc[p] # "idle"
  OBVIOUS
<1>2. b \in Browsers
  BY <1>1 DEF IInv, Placed
<1>3. Kept(b) /\ nextTok' = nextTok
  BY <1>1, <1>2, ServerStays DEF IInv, Parts
<1>4. Others(p) /\ by'[p] = b
  BY DEF Others, IInv, TypeOK, SlotsOK
<1>5. SlotOK(p) /\ (b \in alone => StageOK(p)) /\ CookieOK(b) /\ Traced
  BY <1>2 DEF Parts
<1>6. UNCHANGED <<live, agent, token, lapsed, issued, cookie, signed, alone, nextTok>>
  BY <1>1 DEF server, rows, tokens, client
<1>7. SlotOK(p)' /\ (b \in alone => StageOK(p)')
  <2>1. CASE LoginFind(p)
    <3>1. tok'[p] = 0 /\ pc'[p] \in {"count", "rotate"}
          /\ (pc'[p] = "rotate" => agent'[sid'[p]] = Agent(by'[p]))
      BY <1>4, <1>5, <1>6, <2>1 DEF SlotOK, IInv, TypeOK, SlotsOK
    <3> QED
      BY <3>1 DEF SlotOK, StageOK
  <2>2. CASE LoginCount(p)
    <3>1. tok'[p] = 0 /\ pc'[p] \in {"create", "evict"}
      BY <1>5, <2>2 DEF SlotOK, IInv, TypeOK, SlotsOK
    <3> QED
      BY <3>1 DEF SlotOK, StageOK
  <2>3. CASE SendRefresh(p)
    <3>1. tok'[p] = cookie'[b] /\ pc'[p] = "refresh" /\ cookie'[b] # 0
      BY <1>5, <1>6, <2>3 DEF SlotOK, IInv, TypeOK, SlotsOK
    <3>2. Owned(tok[p], by[p])'
      BY <1>4, <1>5, <1>6, <3>1 DEF CookieOK, Owned
    <3> QED
      BY <1>4, <3>1, <3>2 DEF SlotOK, StageOK
  <2>4. CASE RefreshFind(p)
    <3>1. tok'[p] = tok[p] /\ tok[p] # 0 /\ Owned(tok[p], by[p])
          /\ (b \in alone => tok[p] = cookie[b])
      BY <1>5, <2>4 DEF SlotOK, StageOK
    <3>2. Owned(tok[p], by[p])'
      BY <1>4, <1>6, <3>1 DEF Owned
    <3>3. CASE pc'[p] = "rotate"
      <4>1. sid'[p] \in live /\ Valid(sid'[p], tok[p])
        BY <2>4, <3>3 DEF IInv, TypeOK, SlotsOK
      <4>2. issued[tok[p]] = sid'[p]
        BY <1>5, <4>1 DEF Traced, Valid
      <4>3. agent[sid'[p]] = Agent(b)
        BY <3>1, <4>1, <4>2 DEF Owned
      <4> QED
        BY <1>4, <1>6, <3>1, <3>2, <3>3, <4>2, <4>3 DEF SlotOK, StageOK
    <3>4. CASE pc'[p] = "refused"
      <4>1. Dead(tok[p])'
        BY <1>6, <2>4, <3>1, <3>4 DEF Dead, Valid, IInv, TypeOK, SlotsOK
      <4> QED
        BY <1>4, <1>6, <3>1, <3>2, <3>4, <4>1 DEF SlotOK, StageOK
    <3>5. pc'[p] \in {"rotate", "refused"}
      BY <2>4 DEF IInv, TypeOK, SlotsOK
    <3> QED
      BY <3>3, <3>4, <3>5
  <2> QED
    BY <2>1, <2>2, <2>3, <2>4
<1>8. nextTok <= nextTok'
  BY <1>3, NumbersOK DEF IInv, Numbers
<1> QED
  BY <1>1, <1>2, <1>3, <1>4, <1>7, <1>8, HandlerStep

LEMMA RemoveKeeps ==
  ASSUME TypeOK, Traced, NEW S, Remove(S), UNCHANGED <<tokens, nextId>>
  PROVE  /\ nextTok' = nextTok
         /\ \A b \in Browsers : Kept(b)
         /\ \A t \in Nat : Fresh(t) => Fresh(t)'
<1>1. \A i \in live' : token'[i] = token[i] /\ agent'[i] = agent[i]
                       /\ (i \in lapsed => i \in lapsed')
  BY DEF Remove, TypeOK, ServerOK
<1>2. live' \subseteq live /\ UNCHANGED <<nextId, nextTok, issued>>
  BY DEF Remove, tokens
<1> QED
  BY <1>1, <1>2, RowsKept

LEMMA EvictParts ==
  ASSUME IInv, Parts, IInv', NEW p \in Procs, LoginEvict(p)
  PROVE  Parts'
<1> DEFINE b == by[p]
<1> USE DEF LoginEvict, Goto
<1>1. UNCHANGED <<tokens, nextId, client, by, tok, sid>> /\ pc[p] = "evict"
  OBVIOUS
<1>2. b \in Browsers
  BY <1>1 DEF IInv, Placed
<1>3. Kept(b) /\ nextTok' = nextTok
  <2>1. CASE sid[p] \in live
    BY <1>1, <1>2, <2>1, RemoveKeeps DEF IInv, Parts
  <2>2. CASE sid[p] \notin live
    BY <1>1, <1>2, <2>2, ServerStays DEF IInv, Parts, server
  <2> QED
    BY <2>1, <2>2
<1>4. Others(p)
  BY DEF Others, IInv, TypeOK, SlotsOK
<1>5. tok'[p] = 0 /\ pc'[p] \in {"create", "refused"}
  BY <1>1 DEF Parts, SlotOK, IInv, TypeOK, SlotsOK
<1>6. SlotOK(p)' /\ StageOK(p)'
  BY <1>5 DEF SlotOK, StageOK
<1>7. nextTok <= nextTok'
  BY <1>3, NumbersOK DEF IInv, Numbers
<1> QED
  BY <1>1, <1>2, <1>3, <1>4, <1>6, <1>7, HandlerStep

LEMMA CreateParts ==
  ASSUME IInv, Parts, IInv', NEW p \in Procs, LoginCreate(p)
  PROVE  Parts'
<1> DEFINE b == by[p]
<1> USE DEF LoginCreate, Goto, Issue
<1>1. UNCHANGED <<client, by, sid>> /\ pc[p] = "create"
  OBVIOUS
<1>2. b \in Browsers
  BY <1>1 DEF IInv, Placed
<1>3. /\ nextId \in Ids /\ nextTok \in Tokens /\ nextTok' = nextTok + 1
      /\ nextId' = nextId + 1 /\ nextId \in Nat
  BY BoundsAssumption DEF Ids
<1>4. agent'[nextId] = Agent(b)
      /\ \A j \in live \ {nextId} : agent'[j] = agent[j] /\ (j \in lapsed => j \in lapsed')
  BY <1>3 DEF IInv, TypeOK, ServerOK
<1>5. nextId \notin live
  BY <1>3 DEF IInv, TypeOK, ServerOK
<1>6. Kept(b) /\ \A t \in {nextTok} : Owned(t, b)' /\ Fresh(t)'
  <2>1. TypeOK /\ Traced
    BY DEF IInv, Parts
  <2>2. /\ live' = live \cup {nextId} /\ issued' = [issued EXCEPT ![nextTok] = nextId]
        /\ token' = [token EXCEPT ![nextId] = nextTok]
    OBVIOUS
  <2>3. nextId' \in Nat /\ nextId < nextId' /\ nextId <= nextId'
    BY <1>3
  <2> QED
    BY <1>2, <1>3, <1>4, <1>5, <2>1, <2>2, <2>3, RowRenewed
<1>7. Others(p) /\ tok'[p] = nextTok /\ pc'[p] = "welcome" /\ by'[p] = b
  BY DEF Others, IInv, TypeOK, SlotsOK
<1>8. nextTok # 0 /\ nextTok <= nextTok'
  BY <1>3, BoundsAssumption DEF Tokens
<1>9. Owned(tok[p], by[p])' /\ Fresh(tok[p])'
  BY <1>6, <1>7 DEF Owned, Fresh
<1>10. SlotOK(p)' /\ StageOK(p)'
  BY <1>7, <1>8, <1>9 DEF SlotOK, StageOK
<1> QED
  BY <1>1, <1>2, <1>6, <1>7, <1>8, <1>10, HandlerStep

LEMMA RotateParts ==
  ASSUME IInv, Parts, IInv', NEW p \in Procs, Rotate(p)
  PROVE  Parts'
<1> DEFINE b == by[p]
<1> USE DEF Rotate, Goto, Issue
<1>1. UNCHANGED <<live, agent, nextId, client, by, sid>> /\ pc[p] = "rotate"
  OBVIOUS
<1>2. b \in Browsers
  BY <1>1 DEF IInv, Placed
<1>3. SlotOK(p) /\ (b \in alone => StageOK(p)) /\ Traced /\ TypeOK
  BY <1>2 DEF Parts, IInv
<1>4. Others(p) /\ by'[p] = b
  BY DEF Others, IInv, TypeOK, SlotsOK
<1>5. CASE sid[p] \in live
  <2>1. /\ nextTok \in Tokens /\ nextTok' = nextTok + 1
        /\ issued' = [issued EXCEPT ![nextTok] = sid[p]]
        /\ token' = [token EXCEPT ![sid[p]] = nextTok]
        /\ lapsed' = lapsed \ {sid[p]}
        /\ tok' = [tok EXCEPT ![p] = nextTok] /\ pc' = [pc EXCEPT ![p] = Answered(p)]
    BY <1>5
  <2>2. /\ sid[p] \in Ids /\ sid[p] < nextId' /\ nextId' \in Nat /\ nextId <= nextId'
        /\ live' = live \cup {sid[p]}
    BY <1>1, <1>3, <1>5, NumbersOK DEF TypeOK, ServerOK, Numbers
  <2>3. agent'[sid[p]] = Agent(b) /\ agent'[sid[p]] = agent[sid[p]]
    BY <1>1, <1>3, <1>5 DEF SlotOK
  <2>4. \A j \in live \ {sid[p]} : agent'[j] = agent[j] /\ (j \in lapsed => j \in lapsed')
    BY <1>1, <2>1
  <2>5. Kept(b) /\ \A t \in {nextTok} : Owned(t, b)' /\ Fresh(t)'
    BY <1>2, <1>3, <1>5, <2>1, <2>2, <2>3, <2>4, RowRenewed
  <2>6. tok'[p] = nextTok /\ pc'[p] \in {"welcome", "answer"}
    BY <1>3, <2>1 DEF TypeOK, SlotsOK, Answered
  <2>7. nextTok # 0 /\ nextTok <= nextTok'
    BY <2>1, BoundsAssumption DEF Tokens
  <2>8. Owned(tok[p], by[p])' /\ Fresh(tok[p])'
    BY <1>4, <2>5, <2>6 DEF Owned, Fresh
  <2>9. SlotOK(p)' /\ StageOK(p)'
    BY <2>6, <2>7, <2>8 DEF SlotOK, StageOK
  <2> QED
    BY <1>1, <1>2, <1>4, <2>5, <2>7, <2>9, HandlerStep
<1>6. CASE sid[p] \notin live
  <2>1. UNCHANGED <<server, client, by, tok, sid>> /\ pc' = [pc EXCEPT ![p] = "refused"]
    BY <1>1, <1>6 DEF server, rows
  <2>2. Kept(b) /\ nextTok' = nextTok /\ nextTok <= nextTok'
    BY <1>2, <1>3, <2>1, ServerStays, NumbersOK DEF Numbers
  <2>3. pc'[p] = "refused" /\ tok'[p] = tok[p] /\ UNCHANGED <<issued, live, token, lapsed, agent,
          cookie, nextTok>>
    BY <1>3, <2>1 DEF TypeOK, SlotsOK, server, rows, tokens, client
  <2>4. SlotOK(p)'
    BY <1>3, <1>4, <2>3 DEF SlotOK, Owned
  <2>5. b \in alone => StageOK(p)'
    <3> SUFFICES ASSUME b \in alone, tok[p] # 0 PROVE tok[p] = cookie[b] /\ Dead(tok[p])
      BY <1>4, <2>3 DEF StageOK, Dead, Valid
    <3>1. tok[p] = cookie[b] /\ issued[tok[p]] = sid[p]
      BY <1>1, <1>3 DEF StageOK
    <3> QED
      BY <1>3, <1>6, <3>1 DEF Dead, Valid, Traced
  <2> QED
    BY <1>1, <1>2, <1>4, <2>2, <2>4, <2>5, HandlerStep
<1> QED
  BY <1>5, <1>6

LEMMA AnswerParts ==
  ASSUME IInv, Parts, IInv', NEW p \in Procs, Answer(p)
  PROVE  Parts'
<1> USE DEF Answer
<1>0. PICK b \in Browsers : b = by[p]
  BY DEF IInv, Placed
<1>1. pc[p] \in {"welcome", "answer"} /\ UNCHANGED <<server, alone>> /\ Finish(p)
  OBVIOUS
<1>2. by[p] = b /\ b \in Browsers
  BY <1>0
<1>3. Kept(b) /\ nextTok' = nextTok /\ Traced
  BY <1>1, <1>2, ServerStays DEF IInv, Parts
<1>4. tok[p] # 0 /\ Owned(tok[p], b) /\ (b \in alone /\ OwnAgent(b) => Fresh(tok[p]))
  BY <1>1, <1>2 DEF Parts, SlotOK, StageOK
<1>5. cookie'[b] = tok[p] /\ b \in signed'
      /\ \A c \in Browsers \ {b} : cookie'[c] = cookie[c] /\ (c \in signed' <=> c \in signed)
  BY <1>2 DEF IInv, TypeOK, ClientOK
<1>6. UNCHANGED <<issued, live, token, lapsed, agent, nextTok>>
  BY <1>1 DEF server, rows, tokens
<1>7. CookieOK(b)' /\ (b \in alone' /\ OwnAgent(b) => Fresh(cookie[b])')
  BY <1>1, <1>4, <1>5, <1>6 DEF CookieOK, Owned, Fresh
<1> QED
  BY <1>1, <1>2, <1>3, <1>4, <1>5, <1>7, LastStep

LEMMA RefusedParts ==
  ASSUME IInv, Parts, IInv', NEW p \in Procs, Refused(p)
  PROVE  Parts'
<1> USE DEF Refused
<1>0. PICK b \in Browsers : b = by[p]
  BY DEF IInv, Placed
<1>1. pc[p] = "refused" /\ UNCHANGED <<server, cookie>> /\ Finish(p)
  OBVIOUS
<1>2. by[p] = b /\ b \in Browsers
  BY <1>0
<1>3. Kept(b) /\ nextTok' = nextTok
  BY <1>1, <1>2, ServerStays DEF IInv, Parts
<1>4. b \in alone /\ tok[p] # 0 => tok[p] = cookie[b] /\ Dead(tok[p])
  BY <1>1, <1>2 DEF Parts, StageOK
<1>5. CookieOK(b)'
  BY <1>1, <1>2, <1>3, CookieStays DEF IInv, Parts
<1>6. b \in alone' => b \notin signed' /\ Dead(cookie[b])'
  <2>1. b \in alone' => b \in alone /\ tok[p] # 0 /\ b \notin signed'
    BY <1>0
  <2>2. UNCHANGED <<live, token, lapsed, cookie>>
    BY <1>1 DEF server, rows
  <2>3. b \in alone' => Dead(cookie[b])
    BY <1>4, <2>1
  <2> QED
    BY <2>1, <2>2, <2>3 DEF Dead, Valid
<1>7. alone' \subseteq alone /\ \A c \in Browsers \ {b} : c \in signed' <=> c \in signed
  BY <1>0
<1> QED
  BY <1>1, <1>2, <1>3, <1>5, <1>6, <1>7, LastStep

LEMMA LogoutParts ==
  ASSUME IInv, Parts, IInv', NEW p \in Procs, LogoutDelete(p)
  PROVE  Parts'
<1> USE DEF LogoutDelete
<1>0. PICK b \in Browsers : b = by[p]
  BY DEF IInv, Placed
<1>1. pc[p] = "logout" /\ UNCHANGED client /\ Finish(p)
  OBVIOUS
<1>2. by[p] = b /\ b \in Browsers
  BY <1>0
<1>3. Kept(b) /\ nextTok' = nextTok
  BY <1>1, <1>2, RemoveKeeps DEF IInv, Parts
<1>4. UNCHANGED <<cookie, signed, alone>>
  BY <1>1 DEF client
<1>5. CookieOK(b)'
  BY <1>2, <1>3, <1>4, CookieStays DEF IInv, Parts
<1>6. b \in alone' => tok[p] = cookie'[b] /\ b \notin signed'
  BY <1>1, <1>2, <1>4 DEF Parts, StageOK
<1>7. \A i \in live' : token'[i] = token[i] /\ token[i] # tok[p]
  BY DEF Remove, IInv, TypeOK, ServerOK
<1>8. b \in alone' => Dead(cookie[b])'
  BY <1>6, <1>7 DEF Dead, Valid
<1> QED
  BY <1>1, <1>2, <1>3, <1>4, <1>5, <1>6, <1>8, LastStep

LEMMA DropParts ==
  ASSUME IInv, Parts, IInv', NEW p \in Procs, Drop(p)
  PROVE  Parts'
<1> USE DEF Drop
<1>0. PICK b \in Browsers : b = by[p]
  BY DEF IInv, Placed
<1>1. pc[p] # "idle" /\ UNCHANGED <<server, cookie>> /\ Finish(p) /\ alone' = alone \ {b}
  BY <1>0
<1>2. by[p] = b /\ b \in Browsers
  BY <1>0
<1>3. Kept(b) /\ nextTok' = nextTok
  BY <1>1, <1>2, ServerStays DEF IInv, Parts
<1>4. CookieOK(b)'
  BY <1>1, <1>2, <1>3, CookieStays DEF IInv, Parts
<1>5. \A c \in Browsers \ {b} : c \in signed' <=> c \in signed
  BY <1>0
<1> QED
  BY <1>1, <1>2, <1>3, <1>4, <1>5, LastStep

LEMMA OutsideParts ==
  ASSUME IInv, Parts, Revoke \/ (\E i \in live \ lapsed : Lapse(i))
  PROVE  Parts'
<1>1. UNCHANGED <<client, slots, tokens, nextId>>
  BY DEF Revoke, Lapse
<1>2. /\ nextTok' = nextTok
      /\ \A b \in Browsers : Kept(b)
      /\ \A t \in Nat : Fresh(t) => Fresh(t)'
  <2>1. CASE Revoke
    <3>1. PICK S : Remove(S)
      BY <2>1 DEF Revoke
    <3> QED
      BY <1>1, <3>1, RemoveKeeps DEF IInv, Parts
  <2>2. CASE \E i \in live \ lapsed : Lapse(i)
    <3>1. UNCHANGED <<live, token, agent>> /\ lapsed \subseteq lapsed'
      BY <2>2 DEF Lapse
    <3>2. UNCHANGED <<nextId, nextTok, issued>>
      BY <1>1 DEF tokens
    <3> QED
      BY <3>1, <3>2, RowsKept DEF IInv, Parts
  <2> QED
    BY <2>1, <2>2
<1>3. UNCHANGED <<cookie, signed, alone, pc, by, tok, sid, issued>>
  BY <1>1 DEF client, slots, tokens
<1>5. ASSUME NEW b \in Browsers PROVE CookieOK(b)' /\ RestOK(b)'
  <2>1. CookieOK(b)'
    BY <1>2, <1>3, CookieStays DEF IInv, Parts
  <2>2. RestOK(b)'
    <3> SUFFICES ASSUME b \in alone, Quiet(b)
                 PROVE  (b \in signed /\ OwnAgent(b) => Fresh(cookie[b])') /\ (b \notin signed => Dead(cookie[b])')
      BY <1>3 DEF RestOK, Quiet
    <3>1. PICK t \in Nat : t = cookie[b] /\ t = cookie'[b]
      BY <1>3 DEF IInv, TypeOK, ClientOK
    <3>2. b \in signed /\ OwnAgent(b) => Fresh(cookie[b])'
      BY <1>2, <1>3, <3>1 DEF Parts, RestOK, Fresh
    <3>3. b \notin signed => Dead(cookie[b])'
      <4>1. t \in 0 .. nextTok - 1
        <5>1. t = 0 \/ t \in 1 .. nextTok - 1
          BY <3>1 DEF Parts, CookieOK, Owned
        <5>2. 1 <= nextTok /\ nextTok \in Nat
          BY BoundsAssumption DEF IInv, TypeOK, ServerOK
        <5> QED
          BY <5>1, <5>2
      <4> QED
        BY <1>2, <1>3, <3>1, <4>1 DEF Parts, RestOK, Kept, Dead, Valid
    <3> QED
      BY <3>2, <3>3
  <2> QED
    BY <2>1, <2>2
<1>6. ASSUME NEW p \in Procs
      PROVE  SlotOK(p)' /\ (by'[p] \in alone' => Only(p)' /\ StageOK(p)')
  <2>1. SlotOK(p) /\ (by[p] \in alone => Only(p) /\ StageOK(p))
    BY DEF Parts
  <2>2. CASE by[p] = NoBrowser
    <3>1. pc[p] = "idle" /\ tok[p] = 0 /\ by[p] \notin alone
      BY <2>1, <2>2, NoBrowserAssumption DEF IInv, Placed, SlotOK, TypeOK, ClientOK
    <3> QED
      BY <1>3, <2>1, <2>2, <3>1 DEF SlotOK
  <2>3. ASSUME NEW b \in Browsers, by[p] = b
        PROVE  SlotOK(p)' /\ (by'[p] \in alone' => Only(p)' /\ StageOK(p)')
    <3>1. Kept(b)
      BY <1>2
    <3>2. PICK t \in Nat : t = tok[p] /\ t = tok'[p]
      BY <1>3 DEF IInv, TypeOK, SlotsOK
    <3>3. t # 0 => Owned(t, b) /\ Owned(t, b)' /\ t \in 0 .. nextTok - 1
      BY <2>1, <2>3, <3>1, <3>2, NumbersOK DEF SlotOK, Kept, Owned, IInv, Numbers
    <3>4. SlotOK(p)'
      <4>1. t # 0 => Owned(tok[p], by[p])'
        BY <1>3, <2>3, <3>2, <3>3 DEF Owned
      <4>2. pc[p] = "rotate" /\ sid[p] \in live' => agent'[sid[p]] = Agent(by[p])
        BY <2>1, <3>1 DEF SlotOK, Kept
      <4> QED
        BY <1>3, <2>1, <3>2, <4>1, <4>2 DEF SlotOK
    <3>5. ASSUME b \in alone PROVE Only(p)' /\ StageOK(p)'
      <4>1. Only(p)'
        BY <1>3, <2>1, <2>3, <3>5 DEF Only
      <4>2. pc[p] = "refused" /\ tok[p] # 0 => Dead(tok[p])'
        BY <1>3, <2>1, <2>3, <3>1, <3>2, <3>3, <3>5 DEF StageOK, Kept, Dead, Valid
      <4>3. pc[p] \in {"welcome", "answer"} /\ OwnAgent(b) => Fresh(tok[p])'
        BY <1>2, <1>3, <2>1, <2>3, <3>2, <3>5 DEF StageOK, Fresh
      <4> QED
        BY <1>3, <2>1, <2>3, <3>5, <4>1, <4>2, <4>3 DEF StageOK
    <3> QED
      BY <1>3, <2>3, <3>4, <3>5
  <2>4. by[p] \in Browsers \cup {NoBrowser}
    BY DEF IInv, TypeOK, SlotsOK
  <2> QED
    BY <2>2, <2>3, <2>4
<1>7. Traced'
  <2>1. CASE Browsers = {}
    <3>1. live' \subseteq live /\ \A i \in live' : token'[i] = token[i]
      BY DEF Revoke, Lapse, Remove, IInv, TypeOK, ServerOK
    <3> QED
      BY <1>1, <3>1 DEF Parts, Traced, tokens
  <2>2. CASE Browsers # {}
    BY <1>2, <2>2 DEF Kept
  <2> QED
    BY <2>1, <2>2
<1> QED
  BY <1>5, <1>6, <1>7 DEF Parts

LEMMA StutterParts == ASSUME Parts, UNCHANGED vars PROVE Parts'
<1> USE DEF vars, server, rows, tokens, client, slots
<1>1. Traced'
  BY DEF Parts, Traced
<1>2. \A b \in Browsers : CookieOK(b)' /\ RestOK(b)'
  BY DEF Parts, CookieOK, RestOK, Owned, Fresh, Dead, Valid, Quiet
<1>3. \A p \in Procs : SlotOK(p)' /\ (by'[p] \in alone' => Only(p)' /\ StageOK(p)')
  BY DEF Parts, SlotOK, Only, StageOK, Owned, Fresh, Dead, Valid
<1> QED
  BY <1>1, <1>2, <1>3 DEF Parts

LEMMA CookieInvariance == Spec => []CookieInv
<1>1. Init => CookieInv
  BY InitInv, InitParts, PartsOfCookieInv DEF IInv
<1>2. ASSUME CookieInv, [Next]_vars PROVE CookieInv'
  <2>1. IInv /\ Parts /\ IInv'
    BY <1>2, NextInv, PartsOfCookieInv DEF CookieInv, IInv
  <2>2. Parts'
    BY <1>2, <2>1, SendParts, ReadParts, EvictParts, CreateParts, RotateParts, AnswerParts,
       RefusedParts, LogoutParts, DropParts, OutsideParts, StutterParts DEF Next, Handle
  <2>3. TypeOK' => (CookieInv' <=> IInv' /\ Parts')
    BY PartsOfCookieInv, PTL
  <2> QED
    BY <2>1, <2>2, <2>3 DEF IInv
<1> QED
  BY <1>1, <1>2, PTL DEF Spec

\* A browser whose requests do not overlap, and whose User-Agent no other browser
\* of the user sends, has the current token of its session, whatever the others do.
THEOREM CookiesAreCurrent == Spec => []CookieIsCurrent
BY CookieInvariance, PTL DEF CookieInv

\* A browser that has signed out has no session left that its cookie refreshes,
\* even if it shared the row with others.
THEOREM SignedOutSessionsAreDead == Spec => []SignedOutIsDead
BY CookieInvariance, PTL DEF CookieInv

----------------------------------------------------------------------------
(* Tokens, and what holds of requests that are apart.  Each condition below is *)
(* needed: two logins that overlap exceed the limit, and two refreshes that    *)
(* found the same row both rotate it, the second with a token that is no more. *)

\* No session has token t; the refreshes that have found it all the same, before
\* it was replaced or its row removed.
OutOfUse(t) == \A i \in live : token[i] # t
Exchanging(t) == {p \in Procs : pc[p] = "rotate" /\ tok[p] = t}

\* README.md:130, a refresh invalidates the previous token, as far as it holds
\* when requests overlap: a token that no session has gets into no session again,
\* and no request that comes with it after that is let through.  Those that had
\* found it while it was current still exchange it, each of them once.
ReplacedStaysDead ==
    [][\A t \in 1 .. nextTok - 1 :
          OutOfUse(t) => OutOfUse(t)' /\ Exchanging(t)' \subseteq Exchanging(t)]_vars

\* No two logins between count and insert; no two handlers about to rotate one row.
Apart ==
    \A p, q \in Procs : p # q =>
        /\ ~({pc[p], pc[q]} \subseteq {"evict", "create"})
        /\ pc[p] = "rotate" /\ pc[q] = "rotate" => sid[p] # sid[q]

\* README.md:131: at most MAX_SESSIONS sessions.
LimitKept == Cardinality(live) <= MaxSessions

\* The refresh that rotates a row brings the token the row has at that moment.
\* With ReplacedStaysDead: no token is exchanged twice.
TokensUsedOnce ==
    [][\A p \in Procs : pc[p] = "rotate" /\ tok[p] # 0 /\ pc'[p] = "answer" =>
          sid[p] \in live /\ token[sid[p]] = tok[p]]_vars

RoomToCreate == \A p \in Procs : pc[p] = "create" => Cardinality(live) < MaxSessions

\* What a refresh has found, or its row is gone.
FoundIsCurrent ==
    \A p \in Procs : pc[p] = "rotate" /\ tok[p] # 0 /\ sid[p] \in live =>
        token[sid[p]] = tok[p]

\* A step of a handler that leaves rows and other slots alone.
Reads(p) ==
    LoginFind(p) \/ LoginCount(p) \/ SendRefresh(p) \/ RefreshFind(p)

LEMMA StepReplaces ==
  ASSUME TypeOK, [Next]_vars, NEW i \in live'
  PROVE  (i \in live /\ token'[i] = token[i]) \/ token'[i] = nextTok
<1> USE DEF TypeOK, ServerOK, server, rows, tokens, client, slots
<1>1. ASSUME NEW p \in Procs, NEW b \in Browsers, StartLogin(p, b) \/ Call(p, b) \/ Logout(p, b)
      PROVE  UNCHANGED <<live, token>>
  BY <1>1 DEF StartLogin, Call, Logout, Send
<1>2. ASSUME NEW p \in Procs, Reads(p) \/ Answer(p) \/ Refused(p) \/ Drop(p)
      PROVE  UNCHANGED <<live, token>>
  BY <1>2 DEF Reads, LoginFind, LoginCount, SendRefresh, RefreshFind, Answer, Refused, Drop
<1>3. ASSUME NEW p \in Procs, LoginEvict(p) \/ LogoutDelete(p)
      PROVE  i \in live /\ token'[i] = token[i]
  BY <1>3 DEF LoginEvict, LogoutDelete, Remove
<1>4. ASSUME NEW p \in Procs, LoginCreate(p)
      PROVE  (i \in live /\ token'[i] = token[i]) \/ token'[i] = nextTok
  BY <1>4 DEF LoginCreate
<1>5. ASSUME NEW p \in Procs, Rotate(p)
      PROVE  (i \in live /\ token'[i] = token[i]) \/ token'[i] = nextTok
  BY <1>5 DEF Rotate
<1>6. ASSUME Revoke \/ \E j \in live \ lapsed : Lapse(j)
      PROVE  i \in live /\ token'[i] = token[i]
  BY <1>6 DEF Revoke, Lapse, Remove
<1>7. CASE UNCHANGED vars
  BY <1>7 DEF vars
<1> QED
  BY <1>1, <1>2, <1>3, <1>4, <1>5, <1>6, <1>7 DEF Next, Handle, Reads

\* Only a refresh that finds its token in a row gets to exchange it.
LEMMA NobodyStartsExchange ==
  ASSUME TypeOK, Separate, [Next]_vars, NEW t \in 1 .. nextTok - 1, OutOfUse(t),
         NEW q \in Procs, q \in Exchanging(t)'
  PROVE  q \in Exchanging(t)
<1> DEFINE Same == pc'[q] = pc[q] /\ tok'[q] = tok[q]
<1> USE DEF TypeOK, SlotsOK, Goto, slots, server, rows, tokens, client
<1>1. nextTok \in Nat /\ t # 0 /\ t # nextTok
  BY BoundsAssumption DEF ServerOK
<1>2. pc'[q] = "rotate" /\ tok'[q] = t
  BY DEF Exchanging
<1>3. ASSUME NEW p \in Procs, NEW b \in Browsers, StartLogin(p, b) \/ Call(p, b) \/ Logout(p, b)
      PROVE  Same
  BY <1>2, <1>3 DEF StartLogin, Call, Logout, Send
<1>4. ASSUME NEW p \in Procs, LoginFind(p) PROVE Same
  <2>1. p # q
    BY <1>1, <1>2, <1>4 DEF LoginFind, Separate
  <2> QED
    BY <1>4, <2>1 DEF LoginFind
<1>5. ASSUME NEW p \in Procs, RefreshFind(p) PROVE Same
  <2>1. p # q
    BY <1>2, <1>5 DEF RefreshFind, Valid, OutOfUse
  <2> QED
    BY <1>5, <2>1 DEF RefreshFind
<1>6. ASSUME NEW p \in Procs, LoginCount(p) \/ LoginEvict(p) \/ LoginCreate(p) \/ SendRefresh(p)
      PROVE  Same
  BY <1>2, <1>6 DEF LoginCount, LoginEvict, LoginCreate, SendRefresh, Issue
<1>7. ASSUME NEW p \in Procs, Rotate(p) PROVE Same
  BY <1>2, <1>7 DEF Rotate, Issue, Answered
<1>8. ASSUME NEW p \in Procs, Answer(p) \/ Refused(p) \/ LogoutDelete(p) \/ Drop(p) PROVE Same
  BY <1>2, <1>8 DEF Answer, Refused, LogoutDelete, Drop, Finish
<1>9. ASSUME Revoke \/ (\E i \in live \ lapsed : Lapse(i)) \/ UNCHANGED vars PROVE Same
  BY <1>9 DEF Revoke, Lapse, vars
<1>10. Same
  BY <1>3, <1>4, <1>5, <1>6, <1>7, <1>8, <1>9 DEF Next, Handle
<1> QED
  BY <1>2, <1>10 DEF Exchanging

\* Whatever overlaps, a token that no session has any more comes back into none,
\* and whoever exchanges it had found it before.
THEOREM ReplacedTokensAreDead == Spec => ReplacedStaysDead
<1>1. ASSUME TypeOK, Separate, [Next]_vars
      PROVE  \A t \in 1 .. nextTok - 1 :
                OutOfUse(t) => OutOfUse(t)' /\ Exchanging(t)' \subseteq Exchanging(t)
  <2> SUFFICES ASSUME NEW t \in 1 .. nextTok - 1, OutOfUse(t)
               PROVE  OutOfUse(t)' /\ Exchanging(t)' \subseteq Exchanging(t)
    OBVIOUS
  <2>1. nextTok \in Nat /\ t # nextTok
    BY <1>1, BoundsAssumption DEF TypeOK, ServerOK
  <2>2. OutOfUse(t)'
    BY <1>1, <2>1, StepReplaces DEF OutOfUse
  <2>3. \A q \in Exchanging(t)' : q \in Procs /\ q \in Exchanging(t)
    BY <1>1, NobodyStartsExchange DEF Exchanging
  <2> QED
    BY <2>2, <2>3
<1>2. CookieInv => TypeOK /\ Separate
  BY DEF CookieInv, IInv
<1> QED
  BY <1>1, <1>2, CookieInvariance, PTL DEF Spec, ReplacedStaysDead

LEMMA RoomKept ==
  ASSUME TypeOK, TypeOK', Apart, LimitKept, RoomToCreate, [Next]_vars
  PROVE  LimitKept' /\ RoomToCreate'
<1> USE DEF server, rows, tokens, client, slots
<1>1. /\ IsFiniteSet(live) /\ Cardinality(live) \in Nat /\ MaxSessions \in Nat
      /\ IsFiniteSet(live') /\ Cardinality(live') \in Nat
  <2>1. IsFiniteSet(Ids)
    BY FS_Interval, BoundsAssumption DEF Ids
  <2> QED
    BY <2>1, FS_Subset, FS_CardinalityType, BoundsAssumption DEF TypeOK, ServerOK
<1>2. ASSUME live' \subseteq live, \A q \in Procs : pc'[q] = "create" => pc[q] = "create"
      PROVE  LimitKept' /\ RoomToCreate'
  <2>1. Cardinality(live') <= Cardinality(live)
    BY <1>1, <1>2, FS_Subset
  <2> QED
    BY <1>1, <1>2, <2>1 DEF LimitKept, RoomToCreate
<1>3. ASSUME NEW p \in Procs, NEW b \in Browsers, StartLogin(p, b) \/ Call(p, b) \/ Logout(p, b)
      PROVE  LimitKept' /\ RoomToCreate'
  BY <1>2, <1>3 DEF StartLogin, Call, Logout, Send, Goto, TypeOK, SlotsOK
<1>4. ASSUME NEW p \in Procs,
             \/ LoginFind(p) \/ SendRefresh(p) \/ RefreshFind(p) \/ Rotate(p)
             \/ Answer(p) \/ Refused(p) \/ Drop(p)
      PROVE  LimitKept' /\ RoomToCreate'
  BY <1>2, <1>4
     DEF LoginFind, SendRefresh, RefreshFind, Rotate, Answered, Answer, Refused, Drop,
         Finish, Goto, TypeOK, SlotsOK
<1>5. ASSUME NEW p \in Procs, LogoutDelete(p) PROVE LimitKept' /\ RoomToCreate'
  BY <1>2, <1>5 DEF LogoutDelete, Remove, Finish, TypeOK, SlotsOK
<1>6. ASSUME NEW p \in Procs, LoginCount(p) PROVE LimitKept' /\ RoomToCreate'
  <2>1. live' = live /\ \A q \in Procs \ {p} : pc'[q] = pc[q]
    BY <1>6 DEF LoginCount, Goto, TypeOK, SlotsOK
  <2>2. pc'[p] = "create" => Cardinality(live) < MaxSessions
    BY <1>1, <1>6 DEF LoginCount, Full, Goto, TypeOK, SlotsOK
  <2> QED
    BY <2>1, <2>2 DEF LimitKept, RoomToCreate
<1>7. ASSUME NEW p \in Procs, LoginEvict(p) PROVE LimitKept' /\ RoomToCreate'
  <2>1. CASE sid[p] \notin live
    BY <1>2, <1>7, <2>1 DEF LoginEvict, Goto, TypeOK, SlotsOK
  <2>2. CASE sid[p] \in live
    <3>1. live' = live \ {sid[p]}
      BY <1>7, <2>2 DEF LoginEvict, Remove
    <3>2. Cardinality(live') = Cardinality(live) - 1
      BY <1>1, <2>2, <3>1, FS_RemoveElement
    <3> QED
      BY <1>1, <3>2 DEF LimitKept, RoomToCreate
  <2> QED
    BY <2>1, <2>2
<1>8. ASSUME NEW p \in Procs, LoginCreate(p) PROVE LimitKept' /\ RoomToCreate'
  <2>1. live' = live \cup {nextId} /\ nextId \notin live
    BY <1>8, BoundsAssumption DEF LoginCreate, TypeOK, ServerOK, Ids
  <2>2. Cardinality(live') = Cardinality(live) + 1
    BY <1>1, <2>1, FS_AddElement
  <2>3. \A q \in Procs : pc'[q] # "create"
    BY <1>8 DEF LoginCreate, Goto, TypeOK, SlotsOK, Apart
  <2> QED
    BY <1>1, <1>8, <2>2, <2>3 DEF LimitKept, RoomToCreate, LoginCreate
<1>9. ASSUME Revoke \/ \E i \in live \ lapsed : Lapse(i) PROVE LimitKept' /\ RoomToCreate'
  BY <1>2, <1>9 DEF Revoke, Lapse, Remove
<1>10. CASE UNCHANGED vars
  BY <1>2, <1>10 DEF vars
<1> QED
  BY <1>3, <1>4, <1>5, <1>6, <1>7, <1>8, <1>9, <1>10 DEF Next, Handle

\* Logins that do not overlap between count and insert keep the limit exactly:
\* their overlap is the only way to exceed it.
THEOREM ApartKeepsLimit == Spec /\ []Apart => []LimitKept
<1>1. Init => LimitKept /\ RoomToCreate
  <2>1. Cardinality({}) = 0
    BY FS_EmptySet
  <2> QED
    BY <2>1, BoundsAssumption DEF Init, LimitKept, RoomToCreate
<1> QED
  BY <1>1, RoomKept, TypeCorrect, PTL DEF Spec

LEMMA FoundStays ==
  ASSUME CookieInv, TypeOK', Apart, FoundIsCurrent, [Next]_vars
  PROVE  FoundIsCurrent'
<1> USE DEF CookieInv, IInv, TypeOK, ServerOK, SlotsOK, server, rows, tokens, client, slots, Ids
<1> SUFFICES ASSUME NEW q \in Procs, pc'[q] = "rotate", tok'[q] # 0, sid'[q] \in live'
             PROVE  token'[sid'[q]] = tok'[q]
  BY DEF FoundIsCurrent
<1> DEFINE Same == pc[q] = "rotate" /\ tok'[q] = tok[q] /\ sid'[q] = sid[q]
<1>0. sid[q] < nextId /\ sid[q] # nextId
  BY BoundsAssumption
<1>1. ASSUME Same, live' \subseteq live, \A i \in live' : token'[i] = token[i]
      PROVE  token'[sid'[q]] = tok'[q]
  BY <1>1 DEF FoundIsCurrent
<1>2. ASSUME NEW p \in Procs, NEW b \in Browsers, StartLogin(p, b) \/ Call(p, b) \/ Logout(p, b)
      PROVE  Same /\ UNCHANGED <<live, token>>
  BY <1>2 DEF StartLogin, Call, Logout, Send, Goto
<1>3. ASSUME NEW p \in Procs, p # q, Handle(p) \/ Drop(p)
      PROVE  Same
  BY <1>3 DEF Handle, LoginFind, LoginCount, LoginEvict, LoginCreate, SendRefresh, RefreshFind,
              Rotate, Issue, Answer, Refused, LogoutDelete, Drop, Finish, Goto, Answered
<1>4. ASSUME NEW p \in Procs, Reads(p) \/ Answer(p) \/ Refused(p) \/ Drop(p)
      PROVE  UNCHANGED <<live, token>>
  BY <1>4 DEF Reads, LoginFind, LoginCount, SendRefresh, RefreshFind, Answer, Refused, Drop
<1>5. ASSUME NEW p \in Procs, LoginEvict(p) \/ LogoutDelete(p)
      PROVE  live' \subseteq live /\ \A i \in live' : token'[i] = token[i]
  BY <1>5 DEF LoginEvict, LogoutDelete, Remove
<1>6. ASSUME NEW p \in Procs, p # q, LoginCreate(p) PROVE token'[sid'[q]] = tok'[q]
  BY <1>0, <1>3, <1>6 DEF LoginCreate, Handle, FoundIsCurrent
<1>7. ASSUME NEW p \in Procs, p # q, Rotate(p) PROVE token'[sid'[q]] = tok'[q]
  <2>1. Same /\ live' = live
    BY <1>3, <1>7 DEF Rotate, Handle
  <2>2. sid[p] # sid[q]
    BY <1>7, <2>1 DEF Apart, Rotate
  <2> QED
    BY <1>7, <2>1, <2>2 DEF Rotate, FoundIsCurrent
<1>8. ASSUME Handle(q) \/ Drop(q) PROVE token'[sid'[q]] = tok'[q]
  <2>1. LoginFind(q) \/ RefreshFind(q)
    BY <1>8 DEF Handle, LoginCount, LoginEvict, LoginCreate, SendRefresh, Rotate, Answer,
                Refused, LogoutDelete, Drop, Finish, Goto, Answered
  <2>2. ~LoginFind(q)
    BY DEF LoginFind, Separate
  <2> QED
    BY <2>1, <2>2 DEF RefreshFind, Valid, Goto
<1>9. ASSUME Revoke \/ \E i \in live \ lapsed : Lapse(i)
      PROVE  Same /\ live' \subseteq live /\ \A i \in live' : token'[i] = token[i]
  BY <1>9 DEF Revoke, Lapse, Remove
<1>10. ASSUME UNCHANGED vars PROVE Same /\ UNCHANGED <<live, token>>
  BY <1>10 DEF vars
<1>11. ASSUME NEW p \in Procs, p # q, Handle(p) \/ Drop(p) PROVE token'[sid'[q]] = tok'[q]
  BY <1>1, <1>3, <1>4, <1>5, <1>6, <1>7, <1>11 DEF Handle, Reads
<1> HIDE DEF Same
<1> QED
  BY <1>1, <1>2, <1>8, <1>9, <1>10, <1>11 DEF Next

\* If handlers that found one row do not overlap, whoever exchanges a token has the
\* current one: two answers to one token come from such an overlap only.
THEOREM ApartUsesTokensOnce == Spec /\ []Apart => TokensUsedOnce
<1>1. Init => FoundIsCurrent
  BY DEF Init, FoundIsCurrent
<1>2. ASSUME TypeOK, FoundIsCurrent, [Next]_vars
      PROVE  \A p \in Procs : pc[p] = "rotate" /\ tok[p] # 0 /\ pc'[p] = "answer" =>
                sid[p] \in live /\ token[sid[p]] = tok[p]
  <2> SUFFICES ASSUME NEW p \in Procs, pc[p] = "rotate", tok[p] # 0, pc'[p] = "answer"
               PROVE  sid[p] \in live
    BY <1>2 DEF FoundIsCurrent
  <2>1. Rotate(p)
    <3>1. pc'[p] # pc[p]
      OBVIOUS
    <3>2. ASSUME NEW q \in Procs, q # p, Handle(q) \/ Drop(q) PROVE FALSE
      BY <1>2, <3>1, <3>2
         DEF Handle, LoginFind, LoginCount, LoginEvict, LoginCreate, SendRefresh, RefreshFind,
             Rotate, Answer, Refused, LogoutDelete, Drop, Finish, Goto, TypeOK, SlotsOK
    <3>3. ASSUME NEW q \in Procs, NEW b \in Browsers, StartLogin(q, b) \/ Call(q, b) \/ Logout(q, b)
          PROVE  FALSE
      BY <1>2, <3>1, <3>3 DEF StartLogin, Call, Logout, Send, Goto, TypeOK, SlotsOK
    <3>4. Handle(p) \/ Drop(p)
      BY <1>2, <3>1, <3>2, <3>3 DEF Next, Revoke, Lapse, vars, slots
    <3> QED
      BY <1>2, <3>4 DEF Handle, LoginFind, LoginCount, LoginEvict, LoginCreate, SendRefresh,
                  RefreshFind, Answer, Refused, LogoutDelete, Drop, Finish, TypeOK, SlotsOK
  <2> QED
    BY <1>2, <2>1 DEF Rotate, Goto, TypeOK, SlotsOK
<1>3. CookieInv => TypeOK
  BY DEF CookieInv, IInv
<1> QED
  BY <1>1, <1>2, <1>3, FoundStays, CookieInvariance, PTL DEF Spec, TokensUsedOnce

=============================================================================
