------------------------ MODULE VaultRotationProofs ------------------------
(***************************************************************************)
(* Proofs about VaultRotation and OrderlyRotation, for any number of       *)
(* holders, any threshold, any set of rotations and of concurrent          *)
(* activities, and any order in which the database returns the share rows. *)
(* The last section shows that the requests of rotations implement         *)
(* AccessPromise, as those for access do.                                  *)
(***************************************************************************)
EXTENDS OrderlyRotation, FiniteSetTheorems, TLAPS

(* The inductive invariant. *)

\* A request that does not exist yet is empty and belongs to one slot at most.
Placed ==
    /\ \A r \in Rots : status[r] = "none" => subs[r] = NoSubs
    /\ \A p \in Procs :
        /\ pc[p] # "idle" => on[p] \in Rots
        /\ pc[p] = "create" => /\ status[on[p]] = "none"
                               /\ \A q \in Procs \ {p} : on[q] # on[p]
        /\ pc[p] \notin {"idle", "create"} => status[on[p]] # "none"
        /\ pc[p] \in {"fetched", "checked", "counted"} => by[p] \in Holders

\* A transaction past the check is not the requester's, nor are rows it counted.
OnlyOthers ==
    \A p \in Procs :
        /\ pc[p] \in {"checked", "counted"} => by[p] # requester[on[p]]
        /\ pc[p] = "counted" => requester[on[p]] \notin Submitters(seen[p])

\* The unique index lets an update loop pass only holders in index order.
InOrder ==
    /\ idx = Identity
    /\ \A p \in Procs : pc[p] # "update" => pos[p] = 0
    /\ \A p \in Procs : \A i \in 1 .. pos[p] : order[p][i] = i

IInv == TypeOK /\ Placed /\ OnlyOthers /\ InOrder /\ OneSplit /\ QuorumOfOthers

LEMMA InitInv == Init => IInv
<1> SUFFICES ASSUME Init PROVE IInv
  OBVIOUS
<1> USE SizeAssumption, NoRotAssumption
     DEF Init, Holders, NoSubs, NoKeys, Identity, Nobody, Absent
<1>1. TypeOK
  BY DEF TypeOK
<1>2. Placed /\ OnlyOthers /\ InOrder
  BY DEF Placed, OnlyOthers, InOrder
<1>3. OneSplit /\ QuorumOfOthers
  BY DEF OneSplit, QuorumOfOthers, Submitters
<1> QED
  BY <1>1, <1>2, <1>3 DEF IInv

(* What a slot that ends leaves behind. *)

\* The fields a slot gets back are those of an idle one.
LEMMA FinishTypes ==
  ASSUME TypeOK, NEW p \in Procs, Finish(p)
  PROVE  /\ pc' \in [Procs -> {"idle", "create", "fetched", "checked", "counted",
                               "notify", "put", "update", "deny"}]
         /\ on' \in [Procs -> Rots \cup {NoRot}]
         /\ by' \in [Procs -> 0 .. N]
         /\ got' \in [Procs -> Nat]
         /\ seen' \in [Procs -> [Holders -> Nat \cup {Absent}]]
         /\ sound' \in [Procs -> BOOLEAN]
         /\ keys' \in [Procs -> [Holders -> Nat]]
         /\ order' \in [Procs -> [Holders -> Holders]]
         /\ pos' \in [Procs -> 0 .. N]
<1>1. 0 \in 0 .. N /\ NoSubs \in [Holders -> Nat \cup {Absent}]
        /\ NoKeys \in [Holders -> Nat] /\ Identity \in [Holders -> Holders]
  BY SizeAssumption DEF NoSubs, NoKeys, Identity
<1> QED
  BY <1>1 DEF TypeOK, Finish, Nobody

\* The other slots keep all their fields.
LEMMA FinishOthers ==
  ASSUME TypeOK, NEW p \in Procs, Finish(p)
  PROVE  /\ pc'[p] = "idle" /\ on'[p] = NoRot /\ pos'[p] = 0
         /\ \A q \in Procs \ {p} :
              /\ pc'[q] = pc[q] /\ on'[q] = on[q] /\ by'[q] = by[q]
              /\ seen'[q] = seen[q] /\ order'[q] = order[q] /\ pos'[q] = pos[q]
              /\ keys'[q] = keys[q]
  BY DEF TypeOK, Finish

\* A slot that ends without a change to the tables keeps the invariant.
LEMMA FinishInOrder ==
  ASSUME TypeOK, InOrder, NEW p \in Procs, Finish(p), idx' = Identity
  PROVE  InOrder'
<1>1. \A i \in 1 .. pos'[p] : FALSE
  BY FinishOthers
<1> QED
  BY <1>1, FinishOthers DEF InOrder

LEMMA FinishInv ==
  ASSUME IInv, NEW p \in Procs, Finish(p), UNCHANGED <<rows, shares, browser>>
  PROVE  IInv'
<1> USE DEF IInv, rows, shares, browser
<1>1. TypeOK'
  BY FinishTypes DEF TypeOK
<1>2. Placed'
  <2>1. status' = status /\ subs' = subs
    OBVIOUS
  <2>2. ASSUME NEW q \in Procs, q # p
        PROVE  /\ pc'[q] # "idle" => on'[q] \in Rots
               /\ pc'[q] = "create" =>
                    /\ status[on'[q]] = "none"
                    /\ \A q2 \in Procs \ {q} : on'[q2] # on'[q]
               /\ pc'[q] \notin {"idle", "create"} => status[on'[q]] # "none"
               /\ pc'[q] \in {"fetched", "checked", "counted"} => by'[q] \in Holders
    BY <2>2, FinishOthers, NoRotAssumption DEF Placed
  <2> QED
    BY <2>1, <2>2, FinishOthers DEF Placed
<1>3. OnlyOthers'
  BY FinishOthers DEF OnlyOthers
<1>4. InOrder'
  BY FinishInOrder DEF InOrder
<1>5. OneSplit'
  BY DEF OneSplit
<1>6. QuorumOfOthers'
  BY FinishOthers DEF QuorumOfOthers, QuorumSeen
<1> QED
  BY <1>1, <1>2, <1>3, <1>4, <1>5, <1>6

----------------------------------------------------------------------------
(* One lemma per group of actions. *)

LEMMA HolderTypes ==
  ASSUME TypeOK, NEW h \in Holders
  PROVE  h \in 0 .. N /\ local[h] + 1 \in Nat /\ key[h] \in Nat /\ gen[h] \in Nat
<1>1. h \in 0 .. N
  BY SizeAssumption DEF Holders
<1>2. local[h] \in Nat /\ key[h] \in Nat /\ gen[h] \in Nat
  BY DEF TypeOK
<1> QED
  BY <1>1, <1>2

LEMMA ArriveInv ==
  ASSUME IInv, NEW p \in Procs, Arrive(p)
  PROVE  IInv'
<1> USE DEF IInv, Goto, rows, shares, browser, slots, payload
<1>1. ASSUME NEW h \in Holders, RequestRotation(p, h)
      PROVE  IInv'
  <2> DEFINE Started ==
               /\ \E r \in Rots : /\ status[r] = "none" /\ \A q \in Procs : on[q] # r
                                  /\ on' = [on EXCEPT ![p] = r]
               /\ by' = [by EXCEPT ![p] = h]
               /\ got' = [got EXCEPT ![p] = local[h] + 1]
               /\ pc' = [pc EXCEPT ![p] = "create"]
  <2>1. /\ pc[p] = "idle"
        /\ UNCHANGED <<rows, shares, seen, payload>>
        /\ local' = [local EXCEPT ![h] = @ + 1]
        /\ pub' = [pub EXCEPT ![h] = local[h] + 1]
    BY <1>1 DEF RequestRotation, GenerateFreshKeyPair
  <2>2. UNCHANGED <<pc, on, by, got>> \/ Started
    BY <1>1 DEF RequestRotation
  <2>3. TypeOK'
    <3>1. h \in 0 .. N /\ local[h] + 1 \in Nat
      BY HolderTypes
    <3>2. /\ on' \in [Procs -> Rots \cup {NoRot}] /\ by' \in [Procs -> 0 .. N]
          /\ got' \in [Procs -> Nat]
          /\ pc' \in [Procs -> {"idle", "create", "fetched", "checked", "counted",
                               "notify", "put", "update", "deny"}]
      <4>1. CASE UNCHANGED <<pc, on, by, got>>
        BY <4>1 DEF TypeOK
      <4>2. CASE Started
        <5>1. PICK r \in Rots : on' = [on EXCEPT ![p] = r]
          BY <4>2
        <5> QED
          BY <3>1, <4>2, <5>1 DEF TypeOK
      <4> QED
        BY <2>2, <4>1, <4>2
    <3>3. local' \in [Holders -> Nat] /\ pub' \in [Holders -> Nat]
      BY <2>1, <3>1 DEF TypeOK
    <3> QED
      BY <2>1, <3>2, <3>3 DEF TypeOK
  <2>4. Placed'
    BY <2>1, <2>2 DEF Placed, TypeOK
  <2>5. OnlyOthers' /\ InOrder'
    BY <2>1, <2>2 DEF OnlyOthers, InOrder, TypeOK
  <2>6. OneSplit'
    BY <2>1 DEF OneSplit
  <2>7. QuorumOfOthers'
    BY <2>1, <2>2 DEF QuorumOfOthers, QuorumSeen, TypeOK
  <2> QED
    BY <2>3, <2>4, <2>5, <2>6, <2>7
<1>2. ASSUME NEW h \in Holders, NEW r \in Rots, Fetch(p, h, r)
      PROVE  IInv'
  <2> USE <1>2 DEF Fetch
  <2>1. TypeOK'
    <3>1. h \in 0 .. N /\ gen[h] \in Nat
      BY HolderTypes
    <3> QED
      BY <3>1 DEF TypeOK
  <2>2. Placed'
    BY DEF Placed, TypeOK
  <2>3. OnlyOthers' /\ InOrder'
    BY DEF OnlyOthers, InOrder, TypeOK
  <2>4. OneSplit' /\ QuorumOfOthers'
    BY DEF OneSplit, QuorumOfOthers, QuorumSeen, TypeOK
  <2> QED
    BY <2>1, <2>2, <2>3, <2>4
<1>3. ASSUME NEW r \in Rots, DenyCheck(p, r)
      PROVE  IInv'
  <2> USE <1>3 DEF DenyCheck
  <2>1. TypeOK'
    BY DEF TypeOK
  <2>2. Placed'
    BY DEF Placed, TypeOK
  <2>3. OnlyOthers' /\ InOrder'
    BY DEF OnlyOthers, InOrder, TypeOK
  <2>4. OneSplit' /\ QuorumOfOthers'
    BY DEF OneSplit, QuorumOfOthers, QuorumSeen, TypeOK
  <2> QED
    BY <2>1, <2>2, <2>3, <2>4
<1> QED
  BY <1>1, <1>2, <1>3 DEF Arrive

\* A slot that moves on without a change to anything else.
LEMMA MoveInv ==
  ASSUME IInv, NEW p \in Procs, NEW label \in {"checked", "put", "update"},
         pc' = [pc EXCEPT ![p] = label],
         label = "checked" => pc[p] = "fetched" /\ by[p] # requester[on[p]],
         label = "put" => pc[p] = "notify",
         label = "update" => pc[p] = "put",
         UNCHANGED <<rows, shares, browser, on, by, got, seen, payload>>
  PROVE  IInv'
<1> USE DEF IInv, rows, shares, browser, payload
<1>1. TypeOK'
  BY DEF TypeOK
<1>2. Placed'
  BY DEF Placed, TypeOK
<1>3. OnlyOthers' /\ InOrder'
  BY DEF OnlyOthers, InOrder, TypeOK
<1>4. OneSplit' /\ QuorumOfOthers'
  BY DEF OneSplit, QuorumOfOthers, QuorumSeen, TypeOK
<1> QED
  BY <1>1, <1>2, <1>3, <1>4

\* submitRotationShare: rows of other holders only, counted to k.
LEMMA SubmitInv ==
  ASSUME IInv, NEW p \in Procs,
         SubmitCheck(p) \/ CountShares(p) \/ CommitPending(p) \/ CommitQuorum(p)
  PROVE  IInv'
<1> USE DEF IInv, Goto, rows, shares, browser, payload
<1>1. CASE SubmitCheck(p)
  BY <1>1, FinishInv, MoveInv DEF SubmitCheck
<1>2. CASE CountShares(p)
  <2> USE <1>2 DEF CountShares
  <2>0. [subs[on[p]] EXCEPT ![by[p]] = got[p]] \in [Holders -> Nat \cup {Absent}]
    BY DEF TypeOK, Placed
  <2>1. TypeOK'
    BY <2>0 DEF TypeOK
  <2>5. Placed'
    BY DEF TypeOK, Placed
  <2>2. OnlyOthers'
    BY DEF OnlyOthers, QuorumOfOthers, Submitters, Absent, TypeOK, Placed
  <2>3. InOrder'
    BY DEF InOrder, TypeOK
  <2>4. OneSplit' /\ QuorumOfOthers'
    BY DEF OneSplit, QuorumOfOthers, QuorumSeen, TypeOK
  <2> QED
    BY <2>1, <2>2, <2>3, <2>4, <2>5
<1>3. CASE CommitPending(p)
  <2> USE <1>3 DEF CommitPending
  <2>1. /\ on[p] \in Rots /\ by[p] \in Holders /\ by[p] # requester[on[p]]
        /\ status[on[p]] # "none"
    BY DEF Placed, OnlyOthers
  <2>2. subs' \in [Rots -> [Holders -> Nat \cup {Absent}]]
    BY <2>1 DEF TypeOK
  <2>3. TypeOK'
    BY <2>2, FinishTypes DEF TypeOK
  <2>4. Placed'
    <3>1. \A r \in Rots : status'[r] = "none" => subs'[r] = NoSubs
      BY <2>1 DEF Placed, TypeOK
    <3>2. ASSUME NEW q \in Procs, q # p
          PROVE  /\ pc'[q] # "idle" => on'[q] \in Rots
                 /\ pc'[q] = "create" =>
                      /\ status'[on'[q]] = "none"
                      /\ \A q2 \in Procs \ {q} : on'[q2] # on'[q]
                 /\ pc'[q] \notin {"idle", "create"} => status'[on'[q]] # "none"
                 /\ pc'[q] \in {"fetched", "checked", "counted"} => by'[q] \in Holders
      BY <3>2, FinishOthers, NoRotAssumption DEF Placed
    <3> QED
      BY <3>1, <3>2, FinishOthers DEF Placed
  <2>5. OnlyOthers' /\ InOrder'
    BY FinishOthers, FinishInOrder DEF OnlyOthers, InOrder
  <2>6. OneSplit'
    BY DEF OneSplit
  <2>7. QuorumOfOthers'
    <3>1. \A r \in Rots : \A h \in Submitters(subs'[r]) : h # requester[r]
      BY <2>1 DEF QuorumOfOthers, Submitters, TypeOK
    <3> QED
      BY <3>1, FinishOthers DEF QuorumOfOthers, QuorumSeen
  <2> QED
    BY <2>3, <2>4, <2>5, <2>6, <2>7
<1>4. CASE CommitQuorum(p)
  <2> USE <1>4 DEF CommitQuorum, PayloadKeys
  <2>1. /\ on[p] \in Rots /\ requester[on[p]] \in 0 .. N /\ newKey[on[p]] \in Nat
        /\ NoSubs \in [Holders -> Nat \cup {Absent}]
    BY DEF Placed, TypeOK, NoSubs
  <2>2. [key EXCEPT ![requester[on[p]]] = newKey[on[p]]] \in [Holders -> Nat]
    BY <2>1 DEF TypeOK
  <2>3. OneSecret(seen[p]) \in BOOLEAN
    BY DEF OneSecret
  <2>4. \A o \in RowOrders : o \in [Holders -> Holders]
    BY OrderAssumption
  <2>5. TypeOK'
    BY <2>1, <2>2, <2>3, <2>4 DEF TypeOK
  <2>6. Placed'
    BY <2>1 DEF Placed, TypeOK
  <2>7. OnlyOthers'
    BY DEF OnlyOthers, TypeOK
  <2>8. InOrder' /\ OneSplit'
    <3>1. \A i \in 1 .. pos[p] : FALSE
      BY DEF InOrder
    <3>2. \A q \in Procs \ {p} : order'[q] = order[q]
      BY DEF TypeOK
    <3> QED
      BY <3>1, <3>2 DEF InOrder, OneSplit, TypeOK
  <2>9. QuorumOfOthers'
    <3>1. Submitters(NoSubs) = {}
      BY DEF Submitters, NoSubs
    <3> QED
      BY <3>1 DEF QuorumOfOthers, QuorumSeen, OnlyOthers, TypeOK
  <2> QED
    BY <2>5, <2>6, <2>7, <2>8, <2>9
<1> QED
  BY <1>1, <1>2, <1>3, <1>4

\* A row of ShareRotationRequest changes to status st, by a slot that ends and
\* that was alone with the row if the row was not there yet.
LEMMA RowWrittenInv ==
  ASSUME IInv, NEW p \in Procs, Finish(p), UNCHANGED <<lapsed, subs, shares, local>>,
         pub' \in [Holders -> Nat],
         NEW st \in {"PENDING", "APPROVED", "DENIED"},
         pc[p] # "idle",
         status' = [status EXCEPT ![on[p]] = st],
         \/ /\ pc[p] = "create"
            /\ requester' = [requester EXCEPT ![on[p]] = by[p]]
            /\ newKey' = [newKey EXCEPT ![on[p]] = got[p]]
         \/ pc[p] # "create" /\ UNCHANGED <<requester, newKey>>
  PROVE  IInv'
<1> USE DEF IInv, shares
<1>1. on[p] \in Rots
  BY DEF Placed
<1>2. TypeOK'
  <2>1. /\ requester' \in [Rots -> 0 .. N] /\ newKey' \in [Rots -> Nat]
        /\ status' \in [Rots -> {"none", "PENDING", "APPROVED", "DENIED", "EXPIRED"}]
    BY <1>1 DEF TypeOK
  <2> QED
    BY <2>1, FinishTypes DEF TypeOK
<1>3. \A r \in Rots : requester'[r] # requester[r] =>
         /\ pc[p] = "create" /\ r = on[p] /\ status[r] = "none"
         /\ subs[r] = NoSubs /\ \A q \in Procs \ {p} : on[q] # r
  BY DEF Placed, TypeOK
<1>4. Placed'
  <2>1. \A r \in Rots : status'[r] = "none" => subs'[r] = NoSubs
    BY <1>1 DEF Placed, TypeOK
  <2>2. ASSUME NEW q \in Procs, q # p
        PROVE  /\ pc'[q] # "idle" => on'[q] \in Rots
               /\ pc'[q] = "create" =>
                    /\ status'[on'[q]] = "none"
                    /\ \A q2 \in Procs \ {q} : on'[q2] # on'[q]
               /\ pc'[q] \notin {"idle", "create"} => status'[on'[q]] # "none"
               /\ pc'[q] \in {"fetched", "checked", "counted"} => by'[q] \in Holders
    <3>1. pc[q] = "create" => on[p] # on[q] /\ status'[on[q]] = status[on[q]]
      BY <2>2 DEF Placed, TypeOK
    <3>2. pc[q] \notin {"idle", "create"} => status'[on[q]] # "none"
      BY <1>1, <2>2 DEF Placed, TypeOK
    <3> QED
      BY <2>2, <3>1, <3>2, FinishOthers, NoRotAssumption DEF Placed
  <2> QED
    BY <2>1, <2>2, FinishOthers DEF Placed
<1>5. OnlyOthers'
  BY <1>3, FinishOthers DEF OnlyOthers, Placed
<1>6. InOrder' /\ OneSplit'
  BY FinishInOrder DEF InOrder, OneSplit
<1>7. QuorumOfOthers'
  <2>1. Submitters(NoSubs) = {}
    BY DEF Submitters, NoSubs
  <2>2. \A r \in Rots : \A h \in Submitters(subs[r]) : h # requester'[r]
    BY <1>3, <2>1 DEF QuorumOfOthers
  <2>3. \A q \in Procs \ {p} : pc[q] \in {"notify", "put", "update"} =>
          requester'[on[q]] = requester[on[q]]
    BY <1>3 DEF Placed
  <2> QED
    BY <2>2, <2>3, FinishOthers DEF QuorumOfOthers, QuorumSeen
<1> QED
  BY <1>2, <1>4, <1>5, <1>6, <1>7

\* Only the holder whose turn it is in index order passes the unique index.
LEMMA UpdateRowInv ==
  ASSUME IInv, NEW p \in Procs, UpdateRow(p)
  PROVE  IInv'
<1> USE DEF IInv, rows, shares, browser
<1>1. CASE Finish(p)
  BY <1>1, FinishInv DEF UpdateRow
<1>2. CASE ~Finish(p)
  <2> DEFINE i == pos[p] + 1
  <2>1. /\ pc[p] = "update" /\ pos[p] < N
        /\ ~\E g \in Holders \ (Updated(p) \cup {order[p][i]}) : idx[g] = i
        /\ pos' = [pos EXCEPT ![p] = i]
        /\ UNCHANGED <<pc, on, by, got, seen, sound, keys, order, rows, shares, browser>>
    BY <1>2 DEF UpdateRow
  <2>2. pos[p] \in 0 .. N /\ i \in 0 .. N /\ i \in Holders
    <3>1. pos[p] \in 0 .. N
      BY DEF TypeOK
    <3> QED
      BY <2>1, <3>1, SizeAssumption DEF Holders
  <2>3. i \notin Updated(p)
    BY <2>2 DEF InOrder, Updated
  <2>4. order[p][i] = i
    BY <2>1, <2>2, <2>3 DEF InOrder, Identity
  <2>5. \A j \in 1 .. i : order[p][j] = j
    <3>1. ASSUME NEW j \in 1 .. i PROVE j \in 1 .. pos[p] \/ j = i
      BY <2>2
    <3> QED
      BY <2>4, <3>1 DEF InOrder
  <2>6. TypeOK'
    BY <2>1, <2>2 DEF TypeOK
  <2>7. InOrder'
    <3>1. pos'[p] = i /\ \A q \in Procs \ {p} : pos'[q] = pos[q]
      BY <2>1 DEF TypeOK
    <3> QED
      BY <2>1, <2>5, <3>1 DEF InOrder
  <2>8. Placed' /\ OnlyOthers' /\ OneSplit' /\ QuorumOfOthers'
    BY <2>1 DEF Placed, OnlyOthers, OneSplit, QuorumOfOthers, QuorumSeen
  <2> QED
    BY <2>6, <2>7, <2>8
<1> QED
  BY <1>1, <1>2

\* With every row updated, the order is that of the indices.
LEMMA CommitsInOrder ==
  ASSUME IInv, NEW p \in Procs, FinalizeCommit(p)
  PROVE  idx' = idx
<1>1. \A i \in Holders : order[p][i] = i
  BY DEF IInv, InOrder, FinalizeCommit, Holders
<1>2. ASSUME NEW h \in Holders
      PROVE  (CHOOSE i \in Holders : order[p][i] = h) = h
  BY <1>1
<1> QED
  BY <1>2 DEF FinalizeCommit, IndexGiven, IInv, InOrder, Identity

LEMMA FinalizeCommitInv ==
  ASSUME IInv, NEW p \in Procs, FinalizeCommit(p)
  PROVE  IInv'
<1> USE DEF IInv
<1>1. /\ pc[p] = "update" /\ on[p] \in Rots
      /\ Finish(p)
      /\ splits' = splits + 1
      /\ gen' = [h \in Holders |-> splits + 1]
      /\ key' = keys[p]
      /\ garbage' = IF sound[p] THEN garbage ELSE garbage \cup {splits + 1}
      /\ pub' = [pub EXCEPT ![requester[on[p]]] = keys[p][requester[on[p]]]]
      /\ status' = [status EXCEPT ![on[p]] = "APPROVED"]
      /\ UNCHANGED <<requester, newKey, lapsed, subs, local>>
  BY DEF FinalizeCommit, Placed
<1>2. idx' = idx
  BY CommitsInOrder
<1>3. splits' \in Nat /\ garbage' \subseteq 0 .. splits'
  BY <1>1 DEF TypeOK
<1>4. gen' \in [Holders -> Nat] /\ key' \in [Holders -> Nat]
  BY <1>1 DEF TypeOK
<1>5. pub' \in [Holders -> Nat]
  <2>1. \A h \in Holders : keys[p][h] \in Nat
    BY DEF TypeOK
  <2>2. requester[on[p]] \in Holders => pub' \in [Holders -> Nat]
    BY <1>1, <2>1 DEF TypeOK
  <2>3. requester[on[p]] \notin Holders => pub' = pub
    BY <1>1 DEF TypeOK
  <2> QED
    BY <2>2, <2>3 DEF TypeOK
<1>6. status' \in [Rots -> {"none", "PENDING", "APPROVED", "DENIED", "EXPIRED"}]
  BY <1>1 DEF TypeOK
<1>7. TypeOK'
  BY <1>1, <1>2, <1>3, <1>4, <1>5, <1>6, FinishTypes DEF TypeOK
<1>8. Placed'
  <2>1. \A r \in Rots : status'[r] = "none" => subs'[r] = NoSubs
    BY <1>1 DEF Placed, TypeOK
  <2>2. \A r \in Rots : status[r] # "none" => status'[r] # "none"
    BY <1>1 DEF TypeOK
  <2>3. \A q \in Procs \ {p} : pc[q] = "create" => status'[on[q]] = status[on[q]]
    BY <1>1 DEF Placed, TypeOK
  <2> QED
    BY <1>1, <2>1, <2>2, <2>3, FinishOthers, NoRotAssumption DEF Placed
<1>9. OnlyOthers'
  BY <1>1, FinishOthers DEF OnlyOthers
<1>10. InOrder' /\ OneSplit'
  BY <1>1, <1>2, FinishInOrder DEF InOrder, OneSplit
<1>11. QuorumOfOthers'
  BY <1>1, FinishOthers DEF QuorumOfOthers, QuorumSeen
<1> QED
  BY <1>7, <1>8, <1>9, <1>10, <1>11

LEMMA StepInv ==
  ASSUME IInv, NEW p \in Procs, Step(p)
  PROVE  IInv'
<1>1. CASE CreateInsert(p)
  BY <1>1, RowWrittenInv DEF CreateInsert, IInv, TypeOK, shares, browser
<1>2. CASE SubmitCheck(p) \/ CountShares(p) \/ CommitPending(p) \/ CommitQuorum(p)
  BY <1>2, SubmitInv
<1>3. CASE Notify(p)
  BY <1>3, FinishInv, MoveInv DEF Notify, Goto
<1>4. CASE FinalizeCheck(p)
  BY <1>4, FinishInv, MoveInv DEF FinalizeCheck, Goto
<1>5. CASE UpdateRow(p) \/ FinalizeCommit(p)
  BY <1>5, UpdateRowInv, FinalizeCommitInv
<1>6. CASE DenyWrite(p)
  BY <1>6, RowWrittenInv DEF DenyWrite, IInv, TypeOK, shares, browser
<1> QED
  BY <1>1, <1>2, <1>3, <1>4, <1>5, <1>6 DEF Step

LEMMA EnvironmentInv ==
  ASSUME IInv,
         \/ \E p \in Procs : Stop(p)
         \/ \E h \in Holders : NewDevice(h)
         \/ \E r \in Rots : Lapse(r)
  PROVE  IInv'
<1>1. ASSUME NEW p \in Procs, Stop(p) PROVE IInv'
  BY <1>1, FinishInv DEF Stop
<1>2. ASSUME NEW h \in Holders, NewDevice(h) PROVE IInv'
  <2>1. /\ local' = [local EXCEPT ![h] = @ + 1]
        /\ pub' = [pub EXCEPT ![h] = local[h] + 1]
        /\ UNCHANGED <<rows, shares, slots>>
    BY <1>2 DEF NewDevice, GenerateFreshKeyPair
  <2>2. TypeOK'
    BY <2>1, HolderTypes DEF IInv, TypeOK, rows, shares, slots, payload
  <2>3. Placed' /\ OnlyOthers' /\ InOrder' /\ OneSplit' /\ QuorumOfOthers'
    BY <2>1 DEF IInv, Placed, OnlyOthers, InOrder, OneSplit, QuorumOfOthers,
         QuorumSeen, rows, shares, slots, payload
  <2> QED
    BY <2>2, <2>3 DEF IInv
<1>3. ASSUME NEW r \in Rots, Lapse(r) PROVE IInv'
  BY <1>3 DEF Lapse, IInv, TypeOK, Placed, OnlyOthers, InOrder, OneSplit,
       QuorumOfOthers, QuorumSeen, rows, shares, slots, payload, browser
<1> QED
  BY <1>1, <1>2, <1>3

LEMMA NextInv == IInv /\ [Next]_vars => IInv'
<1> SUFFICES ASSUME IInv, [Next]_vars PROVE IInv'
  OBVIOUS
<1>1. CASE Next
  BY <1>1, ArriveInv, StepInv, EnvironmentInv DEF Next
<1>2. CASE UNCHANGED vars
  BY <1>2 DEF IInv, TypeOK, Placed, OnlyOthers, InOrder, OneSplit, QuorumOfOthers,
       QuorumSeen, vars, rows, shares, browser, slots, payload
<1> QED
  BY <1>1, <1>2

LEMMA Invariance == Spec => []IInv
BY InitInv, NextInv, PTL DEF Spec

----------------------------------------------------------------------------

\* Every variable keeps its type; in particular share indices stay in 1..n.
THEOREM TypeCorrect == Spec => []TypeOK
BY Invariance, PTL DEF IInv

\* However finalizations overlap, fail or stop half way, the rows at rest are
\* one split of the vault, with n different indices.
THEOREM SharesAreOneSplit == Spec => []OneSplit
BY Invariance, PTL DEF IInv

\* What a requester rebuilds the secret from are shares of k other holders.
THEOREM QuorumIsOfOthers == Spec => []QuorumOfOthers
BY Invariance, PTL DEF IInv

(* The two action properties need one more look at each step. *)

\* In whatever order the payload listed the holders, a finalization that gets
\* to its commit has left every holder his index.
THEOREM IndicesNeverMove == Spec => IndexStays
<1>1. ASSUME IInv, [Next]_vars PROVE UNCHANGED idx
  <2> USE <1>1
  <2>1. ASSUME NEW p \in Procs, Arrive(p) PROVE UNCHANGED idx
    BY <2>1 DEF Arrive, RequestRotation, Fetch, DenyCheck, shares
  <2>2. ASSUME NEW p \in Procs, Step(p) PROVE UNCHANGED idx
    BY <2>2, CommitsInOrder DEF Step, CreateInsert, SubmitCheck, CountShares,
         CommitPending, CommitQuorum, Notify, FinalizeCheck, UpdateRow, DenyWrite, shares
  <2>3. CASE UNCHANGED vars
    BY <2>3 DEF vars, shares
  <2> QED
    BY <2>1, <2>2, <2>3 DEF Next, Stop, NewDevice, Lapse, shares
<1>2. IInv /\ [Next]_vars => [idx' = idx]_vars
  BY <1>1
<1> QED
  BY <1>2, Invariance, PTL DEF Spec, IndexStays

\* A rotation that is denied, with no activity past its check, stays denied and
\* collects nothing.
THEOREM DenialIsFinal == Spec => DeniedStays
<1> DEFINE Kept(r) == DeniedForGood(r)' /\ subs'[r] = subs[r]
<1>1. ASSUME IInv, [Next]_vars, NEW r \in Rots, DeniedForGood(r)
      PROVE  Kept(r)
  <2> USE <1>1 DEF DeniedForGood, rows
  <2>0. ASSUME NEW p \in Procs, pc'[p] = "idle", UNCHANGED subs,
               \A q \in Procs \ {p} : pc'[q] = pc[q] /\ on'[q] = on[q],
               status'[r] = status[r]
        PROVE  Kept(r)
    BY <2>0
  <2>1. ASSUME NEW p \in Procs, Arrive(p) PROVE Kept(r)
    <3>1. /\ pc \in [Procs -> {"idle", "create", "fetched", "checked", "counted",
                               "notify", "put", "update", "deny"}]
          /\ on \in [Procs -> Rots \cup {NoRot}]
      BY DEF IInv, TypeOK
    <3>2. CASE UNCHANGED <<pc, on>> /\ UNCHANGED rows
      BY <3>2
    <3>3. CASE UNCHANGED rows /\ \E q \in Rots, label \in {"create", "fetched", "deny"} :
                 /\ status[q] # "DENIED"
                 /\ on' = [on EXCEPT ![p] = q] /\ pc' = [pc EXCEPT ![p] = label]
      BY <3>1, <3>3
    <3>4. CASE \E h \in Holders : RequestRotation(p, h)
      BY <3>2, <3>3, <3>4 DEF RequestRotation, Goto
    <3>5. CASE \E h \in Holders, q \in Rots : Fetch(p, h, q)
      BY <3>3, <3>5 DEF Fetch, Goto
    <3>6. CASE \E q \in Rots : DenyCheck(p, q)
      BY <3>3, <3>6 DEF DenyCheck, Goto
    <3> QED
      BY <2>1, <3>4, <3>5, <3>6 DEF Arrive
  <2>2. ASSUME NEW p \in Procs, Step(p) PROVE Kept(r)
    <3>1. CASE CreateInsert(p) \/ DenyWrite(p) \/ FinalizeCommit(p)
      <4>1. on[p] # r /\ Finish(p) /\ UNCHANGED subs
        BY <3>1 DEF CreateInsert, DenyWrite, FinalizeCommit, IInv, Placed
      <4>2. status'[r] = status[r]
        BY <3>1, <4>1 DEF CreateInsert, DenyWrite, FinalizeCommit, IInv, TypeOK
      <4> QED
        BY <2>0, <4>1, <4>2, FinishOthers DEF IInv
    <3>2. CASE CommitPending(p)
      <4>1. on[p] # r /\ Finish(p) /\ UNCHANGED status
        BY <3>2 DEF CommitPending
      <4>2. subs'[r] = subs[r]
        BY <3>2, <4>1 DEF CommitPending, IInv, TypeOK
      <4> QED
        BY <4>1, <4>2, FinishOthers DEF IInv
    <3>3. CASE CommitQuorum(p)
      BY <3>3 DEF CommitQuorum, Goto, IInv, TypeOK
    <3>4. CASE Finish(p) /\ UNCHANGED rows
      BY <2>0, <3>4, FinishOthers DEF IInv
    <3>5. CASE SubmitCheck(p) /\ ~Finish(p)
      BY <3>5 DEF SubmitCheck, Active, Goto, IInv, TypeOK
    <3>6. CASE FinalizeCheck(p) /\ ~Finish(p)
      BY <3>6 DEF FinalizeCheck, Goto, IInv, TypeOK
    <3>7. CASE CountShares(p) \/ (Notify(p) /\ ~Finish(p)) \/ (UpdateRow(p) /\ ~Finish(p))
      BY <3>7 DEF CountShares, Notify, UpdateRow, Goto, IInv, TypeOK
    <3> QED
      BY <2>2, <3>1, <3>2, <3>3, <3>4, <3>5, <3>6, <3>7 DEF Step, SubmitCheck,
           FinalizeCheck, Notify, UpdateRow
  <2>3. ASSUME NEW p \in Procs, Stop(p) PROVE Kept(r)
    BY <2>0, <2>3, FinishOthers DEF Stop, IInv
  <2>4. CASE UNCHANGED vars
    BY <2>4 DEF vars, slots
  <2> QED
    BY <2>1, <2>2, <2>3, <2>4 DEF Next, NewDevice, Lapse, slots
<1>2. IInv /\ [Next]_vars =>
        [\A r \in Rots : DeniedForGood(r) => DeniedForGood(r)' /\ subs'[r] = subs[r]]_vars
  BY <1>1
<1> QED
  BY <1>2, Invariance, PTL DEF Spec, DeniedStays

----------------------------------------------------------------------------
(* The key a requester asks with is the one he gets his share under. *)

Addressed ==
    /\ \A r \in Rots : status[r] # "none" => requester[r] \in Holders
    /\ \A p \in Procs : pc[p] = "create" => by[p] \in Holders
    /\ \A p \in Procs : pc[p] \in {"notify", "put", "update"} =>
          keys[p][requester[on[p]]] = newKey[on[p]]

\* The other slots keep what Addressed says of them, if a step leaves the
\* requests alone.
LEMMA AddressedFrame ==
  ASSUME IInv, Addressed, NEW p \in Procs, UNCHANGED <<requester, newKey>>,
         \A r \in Rots : status'[r] # "none" => status[r] # "none",
         \A q \in Procs \ {p} : /\ pc'[q] = pc[q] /\ on'[q] = on[q]
                               /\ by'[q] = by[q] /\ keys'[q] = keys[q],
         pc'[p] = "create" => by'[p] \in Holders,
         pc'[p] \in {"notify", "put", "update"} =>
            keys'[p][requester[on'[p]]] = newKey[on'[p]]
  PROVE  Addressed'
<1>1. \A q \in Procs : pc'[q] = "create" => by'[q] \in Holders
  BY DEF Addressed
<1>2. \A q \in Procs : pc'[q] \in {"notify", "put", "update"} =>
         keys'[q][requester[on'[q]]] = newKey[on'[q]]
  BY DEF Addressed
<1> QED
  BY <1>1, <1>2 DEF Addressed

\* A slot that ends without a new request.
LEMMA AddressedFinish ==
  ASSUME IInv, Addressed, NEW p \in Procs, Finish(p), UNCHANGED <<requester, newKey>>,
         \A r \in Rots : status'[r] # "none" => status[r] # "none"
  PROVE  Addressed'
BY AddressedFrame, FinishOthers DEF IInv

\* A slot that moves on with its request and its payload.
LEMMA AddressedMove ==
  ASSUME IInv, Addressed, NEW p \in Procs,
         NEW label \in {"checked", "counted", "put", "update"},
         pc' = [pc EXCEPT ![p] = label],
         label = "put" => pc[p] = "notify",
         label = "update" => pc[p] \in {"put", "update"},
         UNCHANGED <<rows, on, by, keys>>
  PROVE  Addressed'
BY AddressedFrame DEF IInv, TypeOK, Addressed, rows

LEMMA AddressedArrive ==
  ASSUME IInv, Addressed, NEW p \in Procs, Arrive(p)
  PROVE  Addressed'
<1> USE DEF IInv, TypeOK, Goto, rows, payload
<1>1. ASSUME NEW h \in Holders, RequestRotation(p, h) PROVE Addressed'
  <2>1. /\ UNCHANGED <<status, requester, newKey, keys>>
        /\ \A q \in Procs \ {p} : pc'[q] = pc[q] /\ on'[q] = on[q] /\ by'[q] = by[q]
    BY <1>1 DEF RequestRotation
  <2>2. /\ pc'[p] = "create" => by'[p] \in Holders
        /\ pc'[p] \notin {"notify", "put", "update"}
    BY <1>1 DEF RequestRotation
  <2> QED
    BY <2>1, <2>2, AddressedFrame
<1>2. ASSUME NEW h \in Holders, NEW r \in Rots, Fetch(p, h, r) PROVE Addressed'
  BY <1>2, AddressedFrame DEF Fetch
<1>3. ASSUME NEW r \in Rots, DenyCheck(p, r) PROVE Addressed'
  BY <1>3, AddressedFrame DEF DenyCheck
<1> QED
  BY <1>1, <1>2, <1>3 DEF Arrive

LEMMA AddressedStep ==
  ASSUME IInv, Addressed, NEW p \in Procs, Step(p)
  PROVE  Addressed'
<1> USE DEF IInv
<1>0. pc[p] # "idle" => on[p] \in Rots
  BY DEF Placed
<1>1. CASE CreateInsert(p)
  <2> USE <1>1 DEF CreateInsert
  <2>1. on[p] \in Rots /\ by[p] \in Holders /\ status[on[p]] = "none"
    BY DEF Placed, Addressed
  <2>2. \A r \in Rots : status'[r] # "none" => requester'[r] \in Holders
    BY <2>1 DEF TypeOK, Addressed
  <2>3. \A q \in Procs : pc'[q] = "create" => by'[q] \in Holders
    BY FinishOthers DEF Addressed
  <2>4. ASSUME NEW q \in Procs, pc'[q] \in {"notify", "put", "update"}
        PROVE  keys'[q][requester'[on'[q]]] = newKey'[on'[q]]
    <3>1. q # p /\ pc'[q] = pc[q] /\ on'[q] = on[q] /\ keys'[q] = keys[q]
      BY <2>4, FinishOthers
    <3>2. on[q] # on[p]
      BY <2>1, <2>4, <3>1 DEF Placed
    <3>3. requester'[on[q]] = requester[on[q]] /\ newKey'[on[q]] = newKey[on[q]]
      BY <3>2 DEF TypeOK
    <3> QED
      BY <2>4, <3>1, <3>3 DEF Addressed
  <2> QED
    BY <2>2, <2>3, <2>4 DEF Addressed
<1>2. CASE Finish(p) /\ UNCHANGED rows
  BY <1>2, AddressedFinish DEF rows
<1>3. CASE CommitPending(p) \/ DenyWrite(p) \/ FinalizeCommit(p)
  <2>1. on[p] \in Rots /\ status[on[p]] # "none"
    BY <1>3 DEF Placed, CommitPending, DenyWrite, FinalizeCommit
  <2>2. Finish(p) /\ UNCHANGED <<requester, newKey>>
    BY <1>3 DEF CommitPending, DenyWrite, FinalizeCommit
  <2>3. \A r \in Rots : status'[r] # "none" => status[r] # "none"
    BY <1>3, <2>1 DEF TypeOK, CommitPending, DenyWrite, FinalizeCommit
  <2> QED
    BY <2>2, <2>3, AddressedFinish
<1>4. CASE CommitQuorum(p)
  <2>1. on[p] \in Rots /\ status[on[p]] # "none" /\ requester[on[p]] \in Holders
    BY <1>4 DEF Placed, CommitQuorum, Addressed
  <2>2. /\ pc' = [pc EXCEPT ![p] = "notify"]
        /\ status' = [status EXCEPT ![on[p]] = "APPROVED"]
        /\ keys' = [keys EXCEPT ![p] = PayloadKeys(on[p])]
        /\ UNCHANGED <<requester, newKey, on, by>>
    BY <1>4 DEF CommitQuorum, Goto
  <2>3. PayloadKeys(on[p])[requester[on[p]]] = newKey[on[p]]
    BY <2>1 DEF PayloadKeys, TypeOK
  <2>4. \A r \in Rots : status'[r] # "none" => status[r] # "none"
    BY <2>1, <2>2 DEF TypeOK
  <2> QED
    BY <2>2, <2>3, <2>4, AddressedFrame DEF TypeOK
<1>5. CASE SubmitCheck(p) /\ ~Finish(p)
  BY <1>5, AddressedMove DEF SubmitCheck, Goto, payload
<1>6. CASE CountShares(p)
  BY <1>6, AddressedMove DEF CountShares, Goto, payload
<1>7. CASE Notify(p) /\ ~Finish(p)
  BY <1>7, AddressedMove DEF Notify, Goto, payload
<1>8. CASE FinalizeCheck(p) /\ ~Finish(p)
  BY <1>8, AddressedMove DEF FinalizeCheck, Goto, payload
<1>9. CASE UpdateRow(p) /\ ~Finish(p)
  BY <1>9 DEF UpdateRow, Addressed, rows
<1> QED
  BY <1>1, <1>2, <1>3, <1>4, <1>5, <1>6, <1>7, <1>8, <1>9
     DEF Step, SubmitCheck, Notify, FinalizeCheck, UpdateRow

LEMMA AddressedNext == IInv /\ Addressed /\ [Next]_vars => Addressed'
<1> SUFFICES ASSUME IInv, Addressed, [Next]_vars PROVE Addressed'
  OBVIOUS
<1>1. ASSUME NEW p \in Procs, Stop(p) PROVE Addressed'
  BY <1>1, AddressedFinish DEF Stop, rows
<1>2. CASE (\E h \in Holders : NewDevice(h)) \/ (\E r \in Rots : Lapse(r)) \/ UNCHANGED vars
  BY <1>2 DEF NewDevice, Lapse, Addressed, vars, rows, slots, payload
<1> QED
  BY <1>1, <1>2, AddressedArrive, AddressedStep DEF Next

LEMMA AddressedAlways == Spec => []Addressed
<1>1. Init => Addressed
  BY DEF Init, Addressed
<1> QED
  BY <1>1, AddressedNext, Invariance, PTL DEF Spec

\* A finalization that commits gives the requester his share under the key he
\* asked with: whoever else asked, finalized or stopped in between, he can read
\* it if that key's private half is still in his browser.
THEOREM RequesterReadsAgain == Spec => AccessRestored
<1> DEFINE Restored(p) ==
      pc[p] = "update" /\ splits' # splits /\ pc'[p] = "idle"
         /\ local[requester[on[p]]] = newKey[on[p]]
      => key'[requester[on[p]]] = local[requester[on[p]]]
<1>3. ASSUME IInv, Addressed, [Next]_vars, NEW p \in Procs PROVE Restored(p)
  <2> USE <1>3
  <2>1. ASSUME NEW q \in Procs, FinalizeCommit(q) PROVE Restored(p)
    <3>1. CASE q = p
      BY <2>1, <3>1 DEF FinalizeCommit, Addressed
    <3>2. CASE q # p
      BY <2>1, <3>2, FinishOthers DEF FinalizeCommit, IInv
    <3> QED
      BY <3>1, <3>2
  <2>2. ASSUME NEW q \in Procs, Arrive(q) PROVE UNCHANGED splits
    BY <2>2 DEF Arrive, RequestRotation, Fetch, DenyCheck, shares
  <2>3. ASSUME NEW q \in Procs, Step(q), ~FinalizeCommit(q) PROVE UNCHANGED splits
    BY <2>3 DEF Step, CreateInsert, SubmitCheck, CountShares, CommitPending,
         CommitQuorum, Notify, FinalizeCheck, UpdateRow, DenyWrite, shares
  <2>4. CASE UNCHANGED vars
    BY <2>4 DEF vars, shares
  <2> QED
    BY <2>1, <2>2, <2>3, <2>4 DEF Next, Stop, NewDevice, Lapse, shares
<1>4. IInv /\ Addressed /\ [Next]_vars =>
        [\A p \in Procs : LET h == requester[on[p]] IN
          pc[p] = "update" /\ splits' # splits /\ pc'[p] = "idle"
             /\ local[h] = newKey[on[p]] => key'[h] = local[h]]_vars
  BY <1>3
<1> QED
  BY <1>4, AddressedAlways, Invariance, PTL DEF Spec, AccessRestored

----------------------------------------------------------------------------
(* Without overlaps: one active rotation per holder, no key goes back, and k *)
(* holders can read.                                                         *)

\* A pair is in its holder's browser before a request, a row or a payload has it.
Generated ==
    /\ \A r \in Rots : status[r] # "none" => newKey[r] <= local[requester[r]]
    /\ \A h \in Holders : key[h] <= local[h]
    /\ \A p \in Procs :
          /\ pc[p] = "create" => got[p] <= local[by[p]]
          /\ pc[p] \in {"notify", "put", "update"} =>
                \A h \in Holders : keys[p][h] <= local[h]

\* A request about to be inserted is its holder's only one, and its pair is newer
\* than those of his rotations so far and than that of his row.
Newest ==
    \A p \in Procs : pc[p] = "create" =>
        /\ key[by[p]] < got[p]
        /\ \A r \in Rots : status[r] # "none" /\ requester[r] = by[p] =>
              ~Active(r) /\ newKey[r] < got[p]

\* A rotation that can still replace the rows will bring its requester forward.
Forward ==
    /\ \A r \in Rots : Active(r) => key[requester[r]] < newKey[r]
    /\ \A p \in PastCheck : key[requester[on[p]]] < newKey[on[p]]

\* One that goes on after it has lapsed or been denied is older than the active one.
Older ==
    \A p \in PastCheck : \A r \in Rots \ {on[p]} :
        Active(r) /\ requester[r] = requester[on[p]] => newKey[on[p]] < newKey[r]

\* No row has changed since the payload was made.
PayloadCurrent ==
    \A p \in Procs : pc[p] \in {"notify", "put", "update"} =>
        keys[p] = PayloadKeys(on[p])

InOrderOfKeys ==
    ~Overlap /\ Newest /\ Forward /\ Older /\ PayloadCurrent /\ OneActiveRotation

OrderlyInv ==
    /\ overlapped \in BOOLEAN
    /\ Generated
    /\ ~overlapped => InOrderOfKeys /\ QuorumReadable

LEMMA OrderlyImplements == OrderlySpec => Spec
<1>1. [OrderlyNext]_orderly => [Next]_vars
  BY DEF OrderlyNext, orderly
<1> QED
  BY <1>1, PTL DEF OrderlySpec, OrderlyInit, Spec

\* Cardinalities of sets of holders can be compared.
LEMMA HoldersAreFinite ==
  ASSUME NEW S \in SUBSET Holders, NEW T \in SUBSET S
  PROVE  /\ Cardinality(S) \in Nat /\ Cardinality(T) \in Nat
         /\ Cardinality(T) <= Cardinality(S)
<1>1. IsFiniteSet(Holders)
  BY FS_Interval, SizeAssumption DEF Holders
<1>2. IsFiniteSet(S) /\ IsFiniteSet(T)
  BY <1>1, FS_Subset
<1> QED
  BY <1>2, FS_Subset, FS_CardinalityType

\* Whoever loses his key, as long as those who can read keep it.
LEMMA ReadableGrows ==
  ASSUME QuorumReadable, \A h \in Holders : Readable(h) => Readable(h)'
  PROVE  QuorumReadable'
<1> DEFINE S == {h \in Holders : Readable(h)}
           T == {h \in Holders : Readable(h)'}
<1>1. S \subseteq T /\ T \subseteq Holders
  OBVIOUS
<1>2. Cardinality(S) \in Nat /\ Cardinality(T) \in Nat /\ Cardinality(S) <= Cardinality(T)
  BY <1>1, HoldersAreFinite
<1>3. Cardinality(S) >= Threshold
  BY DEF QuorumReadable
<1>4. Cardinality(T) >= Threshold
  BY <1>2, <1>3, SizeAssumption
<1> QED
  BY <1>4 DEF QuorumReadable

(* What a step may do to keep Generated and InOrderOfKeys as they are. *)

SameSlot(q) ==
    pc'[q] = pc[q] /\ on'[q] = on[q] /\ by'[q] = by[q] /\ got'[q] = got[q] /\ keys'[q] = keys[q]

\* The slot has moved on with an active rotation, or with the one it had.
Continues(q) ==
    /\ pc'[q] # "create"
    /\ q \in PastCheck' => \/ q \in PastCheck /\ on'[q] = on[q]
                           \/ on'[q] \in Rots /\ Active(on'[q])
    /\ pc'[q] \in {"notify", "put", "update"} => keys'[q] = PayloadKeys(on'[q])

\* No request is new or active again, and no row changes its key.
OldRequests ==
    /\ UNCHANGED <<requester, newKey, key>>
    /\ \A r \in Rots : status'[r] # "none" => status[r] # "none"
    /\ \A r \in Rots : Active(r)' => Active(r)

LEMMA OrderFrame ==
  ASSUME IInv, InOrderOfKeys, ~Overlap', OldRequests,
         \A q \in Procs : SameSlot(q) \/ Continues(q)
  PROVE  InOrderOfKeys'
<1> USE DEF OldRequests, InOrderOfKeys
<1>1. Newest'
  <2>1. ASSUME NEW q \in Procs, pc'[q] = "create"
        PROVE  pc[q] = "create" /\ by'[q] = by[q] /\ got'[q] = got[q]
    BY <2>1 DEF SameSlot, Continues
  <2> QED
    BY <2>1 DEF Newest
<1>2. \A q \in PastCheck' : \/ q \in PastCheck /\ on'[q] = on[q]
                            \/ on'[q] \in Rots /\ Active(on'[q])
  BY DEF SameSlot, Continues, PastCheck
<1>3. Forward'
  <2>1. \A q \in PastCheck' : key[requester[on'[q]]] < newKey[on'[q]]
    BY <1>2 DEF Forward
  <2> QED
    BY <2>1 DEF Forward
<1>4. Older'
  <2>1. ASSUME NEW q \in PastCheck', NEW r \in Rots, r # on'[q],
               Active(r), requester[r] = requester[on'[q]]
        PROVE  newKey[on'[q]] < newKey[r]
    <3>1. CASE q \in PastCheck /\ on'[q] = on[q]
      BY <2>1, <3>1 DEF Older
    <3>2. CASE on'[q] \in Rots /\ Active(on'[q])
      BY <2>1, <3>2 DEF OneActiveRotation
    <3> QED
      BY <1>2, <2>1, <3>1, <3>2
  <2> QED
    BY <2>1 DEF Older
<1>5. PayloadCurrent'
  <2>1. \A q \in Procs : pc'[q] \in {"notify", "put", "update"} => keys'[q] = PayloadKeys(on'[q])
    BY DEF SameSlot, Continues, PayloadCurrent
  <2> QED
    BY <2>1 DEF PayloadCurrent, PayloadKeys
<1>6. OneActiveRotation'
  BY DEF OneActiveRotation
<1> QED
  BY <1>1, <1>3, <1>4, <1>5, <1>6

\* What has been generated stays generated, whatever overlaps.
LEMMA GeneratedFrame ==
  ASSUME IInv, IInv', Addressed', Generated,
         \A r \in Rots : status'[r] # "none" =>
            \/ status[r] # "none" /\ newKey'[r] = newKey[r] /\ requester'[r] = requester[r]
            \/ newKey'[r] <= local[requester'[r]],
         \A h \in Holders : local[h] <= local'[h] /\ key'[h] <= local[h],
         \A q \in Procs : pc'[q] = "create" =>
            \/ pc[q] = "create" /\ by'[q] = by[q] /\ got'[q] = got[q]
            \/ got'[q] <= local'[by'[q]],
         \A q \in Procs : pc'[q] \in {"notify", "put", "update"} =>
            \/ pc[q] \in {"notify", "put", "update"} /\ keys'[q] = keys[q]
            \/ \A h \in Holders : keys'[q][h] <= local[h]
  PROVE  Generated'
<1>0. /\ \A h \in Holders : local[h] \in Nat /\ local'[h] \in Nat /\ key'[h] \in Nat
      /\ \A r \in Rots : newKey'[r] \in Nat
      /\ \A q \in Procs : got'[q] \in Nat /\ \A h \in Holders : keys'[q][h] \in Nat
  BY DEF IInv, TypeOK
<1>1. ASSUME NEW r \in Rots, status'[r] # "none"
      PROVE  newKey'[r] <= local'[requester'[r]]
  <2>1. requester'[r] \in Holders /\ newKey'[r] <= local[requester'[r]]
    BY <1>1 DEF Generated, Addressed
  <2> QED
    BY <1>0, <2>1
<1>2. ASSUME NEW q \in Procs, pc'[q] = "create"
      PROVE  got'[q] <= local'[by'[q]]
  <2>1. CASE pc[q] = "create" /\ by'[q] = by[q] /\ got'[q] = got[q]
    <3>1. by'[q] \in Holders /\ got'[q] <= local[by'[q]]
      BY <1>2, <2>1 DEF Generated, Addressed
    <3> QED
      BY <1>0, <3>1
  <2> QED
    BY <1>2, <2>1
<1>3. \A h \in Holders : key'[h] <= local'[h]
  BY <1>0
<1>4. ASSUME NEW q \in Procs, pc'[q] \in {"notify", "put", "update"}, NEW h \in Holders
      PROVE  keys'[q][h] <= local'[h]
  <2>1. keys'[q][h] <= local[h]
    BY <1>4 DEF Generated
  <2> QED
    BY <1>0, <2>1
<1> QED
  BY <1>1, <1>2, <1>3, <1>4 DEF Generated

\* A slot that takes no part: rows and requests as they are.
LEMMA GeneratedSame ==
  ASSUME IInv, IInv', Addressed', Generated,
         UNCHANGED <<requester, newKey, key>>,
         \A r \in Rots : status'[r] # "none" => status[r] # "none",
         \A h \in Holders : local[h] <= local'[h],
         \A q \in Procs : pc'[q] = "create" =>
            pc[q] = "create" /\ by'[q] = by[q] /\ got'[q] = got[q],
         \A q \in Procs : pc'[q] \in {"notify", "put", "update"} =>
            pc[q] \in {"notify", "put", "update"} /\ keys'[q] = keys[q]
  PROVE  Generated'
<1>1. \A h \in Holders : local[h] <= local'[h] /\ key'[h] <= local[h]
  BY DEF Generated
<1> QED
  BY <1>1, GeneratedFrame

LEMMA GeneratedArrive ==
  ASSUME IInv, IInv', Addressed', Generated, NEW p \in Procs, Arrive(p)
  PROVE  Generated'
<1> USE DEF Goto, rows, shares, browser, payload
<1>0. \A h \in Holders : local[h] \in Nat
  BY DEF IInv, TypeOK
<1>1. ASSUME NEW h \in Holders, RequestRotation(p, h) PROVE Generated'
  <2>1. /\ UNCHANGED <<rows, shares, keys>>
        /\ local' = [local EXCEPT ![h] = @ + 1] /\ local \in [Holders -> Nat]
        /\ \A q \in Procs : pc'[q] \in {"notify", "put", "update"} => pc'[q] = pc[q]
    BY <1>1 DEF RequestRotation, GenerateFreshKeyPair, IInv, TypeOK
  <2>2. \A g \in Holders : local[g] <= local'[g] /\ key'[g] <= local[g]
    BY <2>1 DEF Generated
  <2>3. local'[h] = local[h] + 1
    BY <2>1
  <2>4. ASSUME NEW q \in Procs, pc'[q] = "create"
        PROVE  \/ pc[q] = "create" /\ by'[q] = by[q] /\ got'[q] = got[q]
               \/ by'[q] = h /\ got'[q] = local[h] + 1
    BY <1>1, <2>4 DEF RequestRotation, IInv, TypeOK
  <2>5. \A q \in Procs : pc'[q] = "create" =>
          \/ pc[q] = "create" /\ by'[q] = by[q] /\ got'[q] = got[q]
          \/ got'[q] <= local'[by'[q]]
    BY <1>0, <2>3, <2>4
  <2> QED
    BY <2>1, <2>2, <2>5, GeneratedFrame
<1>2. ASSUME NEW h \in Holders, NEW r \in Rots, Fetch(p, h, r) PROVE Generated'
  BY <1>0, <1>2, GeneratedSame DEF Fetch, IInv, TypeOK
<1>3. ASSUME NEW r \in Rots, DenyCheck(p, r) PROVE Generated'
  BY <1>0, <1>3, GeneratedSame DEF DenyCheck, IInv, TypeOK
<1> QED
  BY <1>1, <1>2, <1>3 DEF Arrive

LEMMA GeneratedStep ==
  ASSUME IInv, IInv', Addressed, Addressed', Generated, NEW p \in Procs, Step(p) \/ Stop(p)
  PROVE  Generated'
<1> USE DEF Goto, rows, shares, browser, payload
<1>0. \A h \in Holders : local[h] \in Nat
  BY DEF IInv, TypeOK
<1>1. CASE CreateInsert(p)
  <2>1. /\ on[p] \in Rots /\ got[p] <= local[by[p]] /\ Finish(p) /\ UNCHANGED <<key, local>>
        /\ requester' = [requester EXCEPT ![on[p]] = by[p]]
        /\ newKey' = [newKey EXCEPT ![on[p]] = got[p]]
        /\ status' = [status EXCEPT ![on[p]] = "PENDING"]
    BY <1>1 DEF CreateInsert, IInv, Placed, Generated
  <2>2. \A r \in Rots : status'[r] # "none" =>
           \/ status[r] # "none" /\ newKey'[r] = newKey[r] /\ requester'[r] = requester[r]
           \/ newKey'[r] <= local[requester'[r]]
    BY <2>1 DEF IInv, TypeOK
  <2>3. \A h \in Holders : local[h] <= local'[h] /\ key'[h] <= local[h]
    BY <1>0, <2>1 DEF Generated
  <2>4. \A q \in Procs : pc'[q] # "idle" =>
           pc'[q] = pc[q] /\ by'[q] = by[q] /\ got'[q] = got[q] /\ keys'[q] = keys[q]
    BY <2>1 DEF Finish, IInv, TypeOK
  <2> QED
    BY <2>2, <2>3, <2>4, GeneratedFrame
<1>2. CASE FinalizeCommit(p)
  <2>1. /\ on[p] \in Rots /\ status[on[p]] # "none" /\ Finish(p)
        /\ UNCHANGED <<local, requester, newKey>>
        /\ key' = keys[p] /\ pc[p] = "update"
        /\ status' = [status EXCEPT ![on[p]] = "APPROVED"]
    BY <1>2 DEF FinalizeCommit, IInv, Placed
  <2>2. \A r \in Rots : status'[r] # "none" => status[r] # "none"
    BY <2>1 DEF IInv, TypeOK
  <2>3. \A h \in Holders : local[h] <= local'[h] /\ key'[h] <= local[h]
    BY <1>0, <2>1 DEF Generated
  <2>4. \A q \in Procs : pc'[q] # "idle" =>
           pc'[q] = pc[q] /\ by'[q] = by[q] /\ got'[q] = got[q] /\ keys'[q] = keys[q]
    BY <2>1 DEF Finish, IInv, TypeOK
  <2> QED
    BY <2>1, <2>2, <2>3, <2>4, GeneratedFrame
<1>3. CASE CommitQuorum(p)
  <2>1. /\ on[p] \in Rots /\ status[on[p]] # "none" /\ requester[on[p]] \in Holders
        /\ UNCHANGED <<local, requester, newKey, key, by, got>>
        /\ pc' = [pc EXCEPT ![p] = "notify"]
        /\ status' = [status EXCEPT ![on[p]] = "APPROVED"]
        /\ keys' = [keys EXCEPT ![p] = PayloadKeys(on[p])]
    BY <1>3 DEF CommitQuorum, IInv, Placed, Addressed
  <2>2. \A r \in Rots : status'[r] # "none" => status[r] # "none"
    BY <2>1 DEF IInv, TypeOK
  <2>3. \A h \in Holders : PayloadKeys(on[p])[h] <= local[h]
    BY <2>1 DEF PayloadKeys, Generated, IInv, TypeOK
  <2>4. \A h \in Holders : local[h] <= local'[h] /\ key'[h] <= local[h]
    BY <1>0, <2>1 DEF Generated
  <2>5. \A q \in Procs : pc'[q] = "create" => pc[q] = "create"
    BY <2>1 DEF IInv, TypeOK
  <2>6. \A q \in Procs : pc'[q] \in {"notify", "put", "update"} =>
            \/ pc[q] \in {"notify", "put", "update"} /\ keys'[q] = keys[q]
            \/ \A h \in Holders : keys'[q][h] <= local[h]
    BY <2>1, <2>3 DEF IInv, TypeOK
  <2> QED
    BY <2>1, <2>2, <2>4, <2>5, <2>6, GeneratedFrame
<1>4. ASSUME Finish(p), UNCHANGED <<requester, newKey, key, local>>,
             \A r \in Rots : status'[r] # "none" => status[r] # "none"
      PROVE  Generated'
  <2>1. \A q \in Procs : pc'[q] # "idle" =>
           pc'[q] = pc[q] /\ by'[q] = by[q] /\ got'[q] = got[q] /\ keys'[q] = keys[q]
    BY <1>4 DEF Finish, IInv, TypeOK
  <2> QED
    BY <1>0, <1>4, <2>1, GeneratedSame
<1>5. CASE CommitPending(p) \/ DenyWrite(p) \/ Stop(p)
  <2>1. status[on[p]] # "none" \/ UNCHANGED status
    BY <1>5 DEF CommitPending, DenyWrite, Stop, IInv, Placed
  <2> QED
    BY <1>4, <1>5, <2>1 DEF CommitPending, DenyWrite, Stop, IInv, TypeOK
<1>6. ASSUME NEW label \in {"checked", "counted", "put", "update"},
             pc' = [pc EXCEPT ![p] = label] \/ pc' = pc,
             label \in {"put", "update"} => pc[p] \in {"notify", "put"},
             UNCHANGED <<rows, key, local, on, by, got, keys>>
      PROVE  Generated'
  BY <1>0, <1>6, GeneratedSame DEF IInv, TypeOK
<1>7. CASE SubmitCheck(p) \/ CountShares(p)
  BY <1>4, <1>6, <1>7 DEF SubmitCheck, CountShares
<1>8. CASE Notify(p) \/ FinalizeCheck(p) \/ UpdateRow(p)
  <2>1. CASE Finish(p)
    BY <1>4, <1>8, <2>1 DEF Notify, FinalizeCheck, UpdateRow
  <2>2. CASE ~Finish(p) /\ ~UpdateRow(p)
    BY <1>6, <1>8, <2>2 DEF Notify, FinalizeCheck
  <2>3. CASE ~Finish(p) /\ UpdateRow(p)
    BY <1>6, <2>3 DEF UpdateRow
  <2> QED
    BY <2>1, <2>2, <2>3
<1> QED
  BY <1>1, <1>2, <1>3, <1>5, <1>7, <1>8 DEF Step

LEMMA GeneratedNext ==
  ASSUME IInv, IInv', Addressed, Addressed', Generated, [Next]_vars
  PROVE  Generated'
<1>0. \A h \in Holders : local[h] \in Nat
  BY DEF IInv, TypeOK
<1>1. ASSUME NEW h \in Holders, NewDevice(h) PROVE Generated'
  <2>1. \A g \in Holders : local[g] <= local'[g]
    BY <1>0, <1>1 DEF NewDevice, GenerateFreshKeyPair, IInv, TypeOK
  <2> QED
    BY <1>1, <2>1, GeneratedSame DEF NewDevice, rows, shares, slots, payload
<1>2. CASE (\E r \in Rots : Lapse(r)) \/ UNCHANGED vars
  BY <1>0, <1>2, GeneratedSame DEF Lapse, vars, rows, shares, browser, slots, payload
<1> QED
  BY <1>1, <1>2, GeneratedArrive, GeneratedStep DEF Next

\* The request that is inserted is the newest of its holder, and his only one.
LEMMA OrderInsert ==
  ASSUME IInv, IInv', Addressed, InOrderOfKeys, ~Overlap', NEW p \in Procs, CreateInsert(p)
  PROVE  InOrderOfKeys'
<1> USE DEF InOrderOfKeys
<1> DEFINE r == on[p]
           h == by[p]
<1>1. /\ r \in Rots /\ h \in Holders /\ status[r] = "none" /\ pc[p] = "create"
      /\ Finish(p) /\ UNCHANGED <<lapsed, key>>
      /\ \A q \in Procs \ {p} : on[q] # r
  BY DEF CreateInsert, IInv, Placed, Addressed, shares
<1>2. /\ requester'[r] = h /\ newKey'[r] = got[p] /\ status'[r] = "PENDING"
      /\ \A s \in Rots \ {r} : /\ requester'[s] = requester[s] /\ newKey'[s] = newKey[s]
                               /\ status'[s] = status[s] /\ (Active(s)' <=> Active(s))
  BY <1>1 DEF CreateInsert, Active, IInv, TypeOK
<1>3. \A q \in Procs : pc'[q] # "idle" =>
         /\ q # p /\ pc'[q] = pc[q] /\ on'[q] = on[q] /\ by'[q] = by[q]
         /\ got'[q] = got[q] /\ keys'[q] = keys[q] /\ on[q] # r
  BY <1>1 DEF Finish, IInv, TypeOK
<1>4. /\ key[h] < got[p]
      /\ \A s \in Rots : status[s] # "none" /\ requester[s] = h => ~Active(s) /\ newKey[s] < got[p]
  BY <1>1 DEF Newest
<1>5. Newest'
  <2>1. ASSUME NEW q \in Procs, pc'[q] = "create"
        PROVE  /\ key'[by'[q]] < got'[q]
               /\ \A s \in Rots : status'[s] # "none" /\ requester'[s] = by'[q] =>
                     ~Active(s)' /\ newKey'[s] < got'[q]
    <3>1. by[q] # h /\ pc[q] = "create"
      BY <1>1, <1>3, <2>1 DEF Overlap
    <3> QED
      BY <1>1, <1>2, <1>3, <2>1, <3>1 DEF Newest
  <2> QED
    BY <2>1 DEF Newest
<1>6. \A q \in PastCheck' : q \in PastCheck /\ on'[q] = on[q] /\ on[q] \in Rots \ {r}
                            /\ status[on[q]] # "none"
  BY <1>3 DEF PastCheck, IInv, Placed
<1>7. Forward'
  <2>1. \A s \in Rots : Active(s)' => key[requester'[s]] < newKey'[s]
    BY <1>2, <1>4 DEF Forward
  <2>2. \A q \in PastCheck' : key[requester'[on'[q]]] < newKey'[on'[q]]
    BY <1>2, <1>6 DEF Forward
  <2> QED
    BY <1>1, <2>1, <2>2 DEF Forward
<1>8. Older'
  <2>1. ASSUME NEW q \in PastCheck', NEW s \in Rots, s # on'[q],
               Active(s)', requester'[s] = requester'[on'[q]]
        PROVE  newKey'[on'[q]] < newKey'[s]
    <3>1. CASE s = r
      BY <1>2, <1>4, <1>6, <2>1, <3>1
    <3>2. CASE s # r
      BY <1>2, <1>6, <2>1, <3>2 DEF Older
    <3> QED
      BY <3>1, <3>2
  <2> QED
    BY <2>1 DEF Older
<1>9. PayloadCurrent'
  <2>1. ASSUME NEW q \in Procs, pc'[q] \in {"notify", "put", "update"}
        PROVE  keys'[q] = [key EXCEPT ![requester'[on'[q]]] = newKey'[on'[q]]]
    <3>1. /\ pc[q] \in {"notify", "put", "update"} /\ on'[q] = on[q] /\ keys'[q] = keys[q]
          /\ on[q] \in Rots \ {r}
      BY <1>3, <2>1 DEF IInv, Placed
    <3>2. keys[q] = [key EXCEPT ![requester[on[q]]] = newKey[on[q]]]
      BY <3>1 DEF PayloadCurrent, PayloadKeys
    <3>3. requester'[on[q]] = requester[on[q]] /\ newKey'[on[q]] = newKey[on[q]]
      BY <1>2, <3>1
    <3> QED
      BY <3>1, <3>2, <3>3
  <2> QED
    BY <1>1, <2>1 DEF PayloadCurrent, PayloadKeys
<1>10. OneActiveRotation'
  <2>1. ASSUME NEW s \in Rots, NEW t \in Rots, Active(s)', Active(t)',
               requester'[s] = requester'[t]
        PROVE  s = t
    <3>1. ASSUME NEW u \in Rots, u # r, Active(u)', requester'[u] = h PROVE FALSE
      <4>1. Active(u) /\ requester[u] = h
        BY <1>2, <3>1
      <4>2. status[u] # "none"
        BY <4>1 DEF Active
      <4> QED
        BY <1>4, <4>1, <4>2
    <3>2. s = r \/ t = r => s = t
      BY <1>2, <2>1, <3>1
    <3>3. s # r /\ t # r => s = t
      BY <1>2, <2>1 DEF OneActiveRotation
    <3> QED
      BY <3>2, <3>3
  <2> QED
    BY <2>1 DEF OneActiveRotation
<1> QED
  BY <1>5, <1>7, <1>8, <1>9, <1>10

\* The finalization's rotation is older than what its requester asked since, and
\* it changes no other row's key.
LEMMA OrderFinalize ==
  ASSUME IInv, IInv', Addressed, InOrderOfKeys, ~Overlap', NEW p \in Procs, FinalizeCommit(p)
  PROVE  /\ InOrderOfKeys'
         /\ key[requester[on[p]]] < newKey[on[p]]
         /\ key' = [key EXCEPT ![requester[on[p]]] = newKey[on[p]]]
<1> USE DEF InOrderOfKeys
<1> DEFINE r == on[p]
           h == requester[r]
<1>1. /\ r \in Rots /\ h \in Holders /\ status[r] # "none" /\ pc[p] = "update"
      /\ Finish(p) /\ UNCHANGED <<lapsed, requester, newKey>> /\ key' = keys[p]
      /\ status' = [status EXCEPT ![r] = "APPROVED"]
  BY DEF FinalizeCommit, IInv, Placed, Addressed
<1>2. key' = [key EXCEPT ![h] = newKey[r]]
  BY <1>1 DEF PayloadCurrent, PayloadKeys
<1>3. p \in PastCheck /\ key[h] < newKey[r]
  BY <1>1 DEF PastCheck, Forward
<1>4. \A s \in Rots : Active(s)' => s # r /\ Active(s)
  BY <1>1 DEF Active, IInv, TypeOK
<1>5. \A q \in Procs : pc'[q] # "idle" =>
         /\ q # p /\ pc'[q] = pc[q] /\ on'[q] = on[q] /\ by'[q] = by[q] /\ got'[q] = got[q]
  BY <1>1 DEF Finish, IInv, TypeOK
<1>6. PastCheck' = {}
  <2>1. \A q \in Procs \ {p} : q \notin PastCheck
    BY <1>3 DEF Overlap
  <2> QED
    BY <1>5, <2>1 DEF PastCheck
<1>7. \A s \in Rots : status'[s] # "none" => status[s] # "none"
  BY <1>1 DEF IInv, TypeOK
<1>8. key'[h] = newKey[r] /\ \A g \in Holders \ {h} : key'[g] = key[g]
  BY <1>1, <1>2 DEF IInv, TypeOK
<1>9. Newest'
  <2>1. ASSUME NEW q \in Procs, pc'[q] = "create"
        PROVE  /\ key'[by[q]] < got[q]
               /\ by'[q] = by[q] /\ got'[q] = got[q]
               /\ \A s \in Rots : status'[s] # "none" /\ requester[s] = by[q] =>
                     ~Active(s)' /\ newKey[s] < got[q]
    <3>1. pc[q] = "create" /\ by[q] \in Holders
      BY <1>5, <2>1 DEF Addressed
    <3>2. by[q] = h => newKey[r] < got[q]
      BY <1>1, <3>1 DEF Newest
    <3>3. key'[by[q]] < got[q]
      BY <1>8, <3>1, <3>2 DEF Newest
    <3> QED
      BY <1>4, <1>5, <1>7, <2>1, <3>1, <3>3 DEF Newest
  <2> QED
    BY <1>1, <2>1 DEF Newest
<1>10. Forward'
  <2>1. ASSUME NEW s \in Rots, Active(s)' PROVE key'[requester[s]] < newKey[s]
    <3>1. s # r /\ Active(s) /\ requester[s] \in Holders
      BY <1>4, <2>1 DEF Addressed, Active
    <3>2. requester[s] = h => newKey[r] < newKey[s]
      BY <1>3, <3>1 DEF Older
    <3> QED
      BY <1>8, <3>1, <3>2 DEF Forward
  <2> QED
    BY <1>1, <1>6, <2>1 DEF Forward
<1>11. Older'
  BY <1>6 DEF Older
<1>12. PayloadCurrent'
  BY <1>6 DEF PayloadCurrent, PastCheck
<1>13. OneActiveRotation'
  BY <1>1, <1>4 DEF OneActiveRotation
<1> QED
  BY <1>2, <1>3, <1>9, <1>10, <1>11, <1>12, <1>13

\* The steps in between: a slot goes on with what it has, or gives up.
LEMMA OrderStep ==
  ASSUME IInv, IInv', Addressed, InOrderOfKeys, ~Overlap', NEW p \in Procs,
         Step(p) \/ Stop(p), ~CreateInsert(p), ~FinalizeCommit(p)
  PROVE  InOrderOfKeys' /\ UNCHANGED <<key, local>>
<1> USE DEF Goto, rows, shares, browser, payload
<1>1. ASSUME OldRequests, \A q \in Procs \ {p} : SameSlot(q), SameSlot(p) \/ Continues(p)
      PROVE  InOrderOfKeys'
  BY <1>1, OrderFrame
<1>2. ASSUME Finish(p), UNCHANGED <<requester, newKey, lapsed, key>>,
             \A r \in Rots : status'[r] # status[r] =>
                status[r] # "none" /\ status'[r] # "PENDING"
      PROVE  InOrderOfKeys'
  <2>1. \A q \in Procs \ {p} : SameSlot(q)
    BY <1>2 DEF SameSlot, Finish, IInv, TypeOK
  <2>2. Continues(p)
    BY <1>2 DEF Continues, Finish, PastCheck, IInv, TypeOK
  <2>3. OldRequests
    BY <1>2 DEF OldRequests, Active
  <2> QED
    BY <1>1, <2>1, <2>2, <2>3
<1>3. CASE CommitPending(p) \/ DenyWrite(p) \/ Stop(p)
  <2>1. /\ Finish(p) /\ UNCHANGED <<requester, newKey, lapsed, shares, local>>
        /\ \/ /\ on[p] \in Rots /\ status[on[p]] # "none"
              /\ status' = [status EXCEPT ![on[p]] = "DENIED"]
           \/ UNCHANGED status
    BY <1>3 DEF CommitPending, DenyWrite, Stop, IInv, Placed
  <2>2. \A r \in Rots : status'[r] # status[r] => status[r] # "none" /\ status'[r] # "PENDING"
    BY <2>1 DEF IInv, TypeOK
  <2> QED
    BY <1>2, <2>1, <2>2
<1>4. ASSUME UNCHANGED <<rows, shares, local, on, by, got, keys>>,
             NEW label \in {"checked", "counted", "put", "update"},
             pc' = [pc EXCEPT ![p] = label],
             label = "checked" => pc[p] = "fetched" /\ Active(on[p]),
             label # "checked" => p \in PastCheck,
             label \in {"put", "update"} => pc[p] \in {"notify", "put"}
      PROVE  InOrderOfKeys'
  <2>1. \A q \in Procs \ {p} : SameSlot(q)
    BY <1>4 DEF SameSlot, IInv, TypeOK
  <2>2. Continues(p)
    <3>1. pc'[p] = label /\ on'[p] = on[p] /\ on[p] \in Rots
      BY <1>4 DEF IInv, TypeOK, Placed, PastCheck
    <3>2. label \in {"put", "update"} => keys'[p] = PayloadKeys(on'[p])
      BY <1>4, <3>1 DEF InOrderOfKeys, PayloadCurrent
    <3> QED
      BY <1>4, <3>1, <3>2 DEF Continues, PastCheck
  <2>3. OldRequests
    BY <1>4 DEF OldRequests, Active
  <2> QED
    BY <1>1, <2>1, <2>2, <2>3
<1>5. CASE SubmitCheck(p)
  <2>1. CASE Finish(p)
    BY <1>2, <1>5, <2>1 DEF SubmitCheck
  <2>2. CASE ~Finish(p)
    BY <1>4, <1>5, <2>2 DEF SubmitCheck
  <2> QED
    BY <1>5, <2>1, <2>2 DEF SubmitCheck
<1>6. CASE CountShares(p)
  <2>1. p \in PastCheck
    BY <1>6 DEF CountShares, PastCheck
  <2> QED
    BY <1>4, <1>6, <2>1 DEF CountShares
<1>7. CASE CommitQuorum(p)
  <2>1. /\ UNCHANGED <<requester, newKey, lapsed, key, local, on, by, got>>
        /\ pc[p] = "counted" /\ pc' = [pc EXCEPT ![p] = "notify"]
        /\ keys' = [keys EXCEPT ![p] = PayloadKeys(on[p])]
        /\ on[p] \in Rots /\ status[on[p]] # "none"
        /\ status' = [status EXCEPT ![on[p]] = "APPROVED"]
    BY <1>7 DEF CommitQuorum, IInv, Placed
  <2>2. \A q \in Procs \ {p} : SameSlot(q)
    BY <2>1 DEF SameSlot, IInv, TypeOK
  <2>3. Continues(p)
    BY <2>1 DEF Continues, PastCheck, IInv, TypeOK
  <2>4. OldRequests
    BY <2>1 DEF OldRequests, Active, IInv, TypeOK
  <2> QED
    BY <1>1, <2>1, <2>2, <2>3, <2>4
<1>8. CASE Notify(p) \/ FinalizeCheck(p) \/ UpdateRow(p)
  <2>1. CASE Finish(p)
    BY <1>2, <1>8, <2>1 DEF Notify, FinalizeCheck, UpdateRow
  <2>2. CASE ~Finish(p) /\ ~UpdateRow(p)
    <3>1. p \in PastCheck
      BY <1>8, <2>2 DEF Notify, FinalizeCheck, PastCheck
    <3> QED
      BY <1>4, <1>8, <2>2, <3>1 DEF Notify, FinalizeCheck
  <2>3. CASE ~Finish(p) /\ UpdateRow(p)
    <3>1. UNCHANGED <<rows, shares, local, pc, on, by, got, keys>>
      BY <2>3 DEF UpdateRow
    <3>2. OldRequests /\ \A q \in Procs : SameSlot(q)
      BY <3>1 DEF OldRequests, Active, SameSlot
    <3> QED
      BY <1>1, <3>1, <3>2
  <2> QED
    BY <1>8, <2>1, <2>2, <2>3 DEF Notify, FinalizeCheck, UpdateRow
<1> QED
  BY <1>3, <1>5, <1>6, <1>7, <1>8 DEF Step

\* A new request is only begun by a holder who has no active one.
LEMMA OrderArrive ==
  ASSUME IInv, IInv', Addressed, Generated, InOrderOfKeys, ~Overlap', NEW p \in Procs, Arrive(p)
  PROVE  InOrderOfKeys' /\ UNCHANGED key
<1> USE DEF Goto, rows, shares, browser, payload
<1>1. ASSUME UNCHANGED <<rows, key>>, \A q \in Procs : SameSlot(q) \/ Continues(q)
      PROVE  InOrderOfKeys'
  BY <1>1, OrderFrame DEF OldRequests, Active
<1>2. ASSUME NEW h \in Holders, NEW r \in Rots, Fetch(p, h, r) PROVE InOrderOfKeys'
  BY <1>1, <1>2 DEF Fetch, SameSlot, Continues, PastCheck, IInv, TypeOK
<1>3. ASSUME NEW r \in Rots, DenyCheck(p, r) PROVE InOrderOfKeys'
  BY <1>1, <1>3 DEF DenyCheck, SameSlot, Continues, PastCheck, IInv, TypeOK
<1>4. ASSUME NEW h \in Holders, RequestRotation(p, h) PROVE InOrderOfKeys'
  <2>0. UNCHANGED <<rows, key, keys>> /\ pc[p] = "idle"
    BY <1>4 DEF RequestRotation
  <2>1. CASE UNCHANGED <<pc, on, by, got>>
    BY <1>1, <2>0, <2>1 DEF SameSlot
  <2>2. CASE ~UNCHANGED <<pc, on, by, got>>
    <3>1. /\ pc' = [pc EXCEPT ![p] = "create"] /\ by' = [by EXCEPT ![p] = h]
          /\ got' = [got EXCEPT ![p] = local[h] + 1]
          /\ ~HasActive(h) /\ ~Readable(h)
          /\ \A q \in Procs \ {p} : on'[q] = on[q]
      BY <1>4, <2>2 DEF RequestRotation, IInv, TypeOK
    <3>2. /\ pc'[p] = "create" /\ by'[p] = h /\ got'[p] = local[h] + 1
          /\ \A q \in Procs \ {p} : SameSlot(q)
      BY <2>0, <3>1 DEF SameSlot, IInv, TypeOK
    <3>3. key[h] < local[h] + 1
      BY DEF Generated, IInv, TypeOK
    <3>4. ASSUME NEW r \in Rots, status[r] # "none", requester[r] = h
          PROVE  ~Active(r) /\ newKey[r] < local[h] + 1
      <4>1. newKey[r] <= local[h] /\ newKey[r] \in Nat /\ local[h] \in Nat
        BY <3>4 DEF Generated, IInv, TypeOK
      <4> QED
        BY <3>1, <3>4, <4>1 DEF HasActive
    <3>5. Newest'
      <4>1. ASSUME NEW q \in Procs, pc'[q] = "create"
            PROVE  /\ key[by'[q]] < got'[q]
                   /\ \A r \in Rots : status[r] # "none" /\ requester[r] = by'[q] =>
                         ~Active(r) /\ newKey[r] < got'[q]
        BY <3>2, <3>3, <3>4, <4>1 DEF InOrderOfKeys, Newest, SameSlot
      <4> QED
        BY <2>0, <4>1 DEF Newest, Active
    <3>6. \A q \in PastCheck' : q \in PastCheck /\ on'[q] = on[q]
      BY <3>2 DEF PastCheck, SameSlot
    <3>7. Forward' /\ Older'
      BY <2>0, <3>6 DEF InOrderOfKeys, Forward, Older, Active
    <3>8. PayloadCurrent'
      <4>1. \A q \in Procs : pc'[q] \in {"notify", "put", "update"} =>
               pc[q] \in {"notify", "put", "update"} /\ on'[q] = on[q] /\ keys'[q] = keys[q]
        BY <3>2 DEF SameSlot
      <4> QED
        BY <2>0, <4>1 DEF InOrderOfKeys, PayloadCurrent, PayloadKeys
    <3>9. OneActiveRotation'
      BY <2>0 DEF InOrderOfKeys, OneActiveRotation, Active
    <3> QED
      BY <3>5, <3>7, <3>8, <3>9 DEF InOrderOfKeys
  <2> QED
    BY <2>1, <2>2
<1> QED
  BY <1>2, <1>3, <1>4 DEF Arrive, RequestRotation, Fetch, DenyCheck

LEMMA OrderlyNextInv ==
  ASSUME IInv, IInv', Addressed, Addressed', OrderlyInv, [OrderlyNext]_orderly
  PROVE  /\ OrderlyInv'
         /\ ~overlapped' => \A h \in Holders : key'[h] >= key[h]
<1> USE DEF OrderlyInv
<1>1. [Next]_vars /\ overlapped' \in BOOLEAN
  BY DEF OrderlyNext, orderly
<1>2. Generated'
  BY <1>1, GeneratedNext
<1>3. ASSUME ~overlapped', OrderlyNext
      PROVE  /\ InOrderOfKeys' /\ QuorumReadable'
             /\ \A h \in Holders : key'[h] >= key[h]
  <2>1. /\ ~overlapped /\ ~Overlap' /\ Next
        /\ InOrderOfKeys /\ QuorumReadable
    BY <1>3 DEF OrderlyNext
  <2>2. \A h \in Holders : key[h] \in Nat /\ local[h] \in Nat
    BY DEF IInv, TypeOK
  <2> USE DEF rows, shares, browser, slots, payload
  <2>3. ASSUME NEW p \in Procs, Arrive(p)
        PROVE  InOrderOfKeys' /\ QuorumReadable' /\ UNCHANGED key
    <3>1. InOrderOfKeys' /\ UNCHANGED key
      BY <2>1, <2>3, OrderArrive
    <3>2. \A h \in Holders : Readable(h) => local'[h] = local[h]
      BY <2>3 DEF Arrive, RequestRotation, Fetch, DenyCheck, GenerateFreshKeyPair, IInv, TypeOK
    <3> QED
      BY <2>1, <3>1, <3>2, ReadableGrows DEF Readable
  <2>4. ASSUME NEW p \in Procs, FinalizeCommit(p)
        PROVE  /\ InOrderOfKeys' /\ QuorumReadable'
               /\ \A h \in Holders : key'[h] >= key[h]
    <3> DEFINE g == requester[on[p]]
    <3>1. InOrderOfKeys' /\ key[g] < newKey[on[p]] /\ key' = [key EXCEPT ![g] = newKey[on[p]]]
      BY <2>1, <2>4, OrderFinalize
    <3>2. /\ g \in Holders /\ newKey[on[p]] <= local[g] /\ newKey[on[p]] \in Nat
          /\ UNCHANGED local
      BY <2>4 DEF FinalizeCommit, IInv, TypeOK, Placed, Addressed, Generated
    <3>3. key'[g] = newKey[on[p]] /\ \A h \in Holders \ {g} : key'[h] = key[h]
      BY <3>1, <3>2 DEF IInv, TypeOK
    <3>4. ~Readable(g)
      BY <2>2, <3>1, <3>2 DEF Readable
    <3>5. \A h \in Holders : Readable(h) => Readable(h)'
      BY <3>2, <3>3, <3>4 DEF Readable
    <3>6. \A h \in Holders : key'[h] >= key[h]
      BY <2>2, <3>1, <3>2, <3>3
    <3> QED
      BY <2>1, <3>1, <3>5, <3>6, ReadableGrows
  <2>5. ASSUME NEW p \in Procs, CreateInsert(p)
        PROVE  InOrderOfKeys' /\ QuorumReadable' /\ UNCHANGED key
    <3>1. UNCHANGED <<key, local>>
      BY <2>5 DEF CreateInsert
    <3> QED
      BY <2>1, <2>5, <3>1, OrderInsert, ReadableGrows DEF Readable
  <2>6. ASSUME NEW p \in Procs, Step(p) \/ Stop(p), ~CreateInsert(p), ~FinalizeCommit(p)
        PROVE  InOrderOfKeys' /\ QuorumReadable' /\ UNCHANGED key
    BY <2>1, <2>6, OrderStep, ReadableGrows DEF Readable
  <2>7. ASSUME OldRequests, \A q \in Procs : SameSlot(q) PROVE InOrderOfKeys'
    BY <2>1, <2>7, OrderFrame
  <2>8. ASSUME NEW h \in Holders, NewDevice(h)
        PROVE  InOrderOfKeys' /\ QuorumReadable' /\ UNCHANGED key
    <3>1. OldRequests /\ \A q \in Procs : SameSlot(q)
      BY <2>8 DEF NewDevice, OldRequests, Active, SameSlot
    <3>2. /\ Cardinality({g \in Holders \ {h} : Readable(g)}) >= Threshold
          /\ local' = [local EXCEPT ![h] = @ + 1] /\ UNCHANGED key
      BY <2>8 DEF NewDevice, GenerateFreshKeyPair
    <3> DEFINE S == {g \in Holders \ {h} : Readable(g)}
               T == {g \in Holders : Readable(g)'}
    <3>3. S \subseteq T /\ T \subseteq Holders
      BY <3>2 DEF Readable, IInv, TypeOK
    <3>4. Cardinality(S) \in Nat /\ Cardinality(T) \in Nat /\ Cardinality(S) <= Cardinality(T)
      BY <3>3, HoldersAreFinite
    <3>5. Cardinality(T) >= Threshold
      BY <3>2, <3>4, SizeAssumption
    <3>6. QuorumReadable'
      BY <3>5 DEF QuorumReadable
    <3> QED
      BY <2>7, <3>1, <3>2, <3>6
  <2>9. ASSUME NEW r \in Rots, Lapse(r)
        PROVE  InOrderOfKeys' /\ QuorumReadable' /\ UNCHANGED key
    <3>1. OldRequests /\ (\A q \in Procs : SameSlot(q)) /\ UNCHANGED <<key, local>>
      BY <2>9 DEF Lapse, OldRequests, Active, SameSlot, IInv, TypeOK
    <3> QED
      BY <2>1, <2>7, <3>1, ReadableGrows DEF Readable
  <2> QED
    BY <2>1, <2>2, <2>3, <2>4, <2>5, <2>6, <2>8, <2>9 DEF Next
<1>4. ASSUME ~overlapped', UNCHANGED orderly
      PROVE  /\ InOrderOfKeys' /\ QuorumReadable'
             /\ \A h \in Holders : key'[h] >= key[h]
  <2> USE <1>4 DEF orderly, vars, rows, shares, browser, slots, payload
  <2>1. InOrderOfKeys /\ QuorumReadable
    OBVIOUS
  <2>2. ~Overlap' /\ OldRequests /\ \A q \in Procs : SameSlot(q)
    BY <2>1 DEF InOrderOfKeys, Overlap, PastCheck, OldRequests, Active, SameSlot
  <2>3. InOrderOfKeys'
    BY <2>1, <2>2, OrderFrame
  <2>4. QuorumReadable'
    BY <2>1, ReadableGrows DEF Readable
  <2>5. \A h \in Holders : key'[h] >= key[h]
    BY DEF IInv, TypeOK
  <2> QED
    BY <2>3, <2>4, <2>5
<1> QED
  BY <1>1, <1>2, <1>3, <1>4

LEMMA OrderlyInitInv == OrderlyInit => OrderlyInv
<1> SUFFICES ASSUME OrderlyInit PROVE OrderlyInv
  OBVIOUS
<1> USE DEF OrderlyInit, Init
<1>1. Generated
  BY DEF Generated, NoKeys
<1>2. InOrderOfKeys
  BY DEF InOrderOfKeys, Overlap, PastCheck, Newest, Forward, Older, PayloadCurrent,
       OneActiveRotation, Active
<1>3. QuorumReadable
  <2>1. {h \in Holders : Readable(h)} = 1 .. N
    BY DEF Readable, Holders
  <2>2. N \in Int /\ Threshold \in Int /\ Threshold <= N /\ 1 <= N
    BY SizeAssumption
  <2>3. Cardinality(1 .. N) = N
    <3>1. Cardinality(1 .. N) = IF 1 > N THEN 0 ELSE N - 1 + 1
      BY <2>2, FS_Interval
    <3> QED
      BY <3>1, <2>2
  <2>4. Cardinality({h \in Holders : Readable(h)}) = N
    BY <2>1, <2>3
  <2> QED
    <3> HIDE DEF OrderlyInit, Init
    <3> QED
      BY <2>2, <2>4 DEF QuorumReadable
<1> QED
  BY <1>1, <1>2, <1>3 DEF OrderlyInv

LEMMA OrderlyInvariance == OrderlySpec => []OrderlyInv
<1>1. OrderlySpec => [](IInv /\ Addressed)
  BY OrderlyImplements, Invariance, AddressedAlways, PTL
<1>2. IInv /\ Addressed /\ OrderlyInv /\ [OrderlyNext]_orderly /\ IInv' /\ Addressed'
        => OrderlyInv'
  BY OrderlyNextInv
<1> QED
  BY <1>1, <1>2, OrderlyInitInv, PTL DEF OrderlySpec

\* Without such overlaps a holder never has two active rotations, however many
\* lapse, are denied or are finalized late.
THEOREM ActiveOnlyOnce == OrderlySpec => []SerialActive
<1>1. OrderlyInv => SerialActive
  BY DEF OrderlyInv, InOrderOfKeys, SerialActive
<1> QED
  BY <1>1, OrderlyInvariance, PTL

\* Nor are there ever fewer than k holders who can read their shares.
THEOREM QuorumStaysReadable == OrderlySpec => []SerialReadable
<1>1. OrderlyInv => SerialReadable
  BY DEF OrderlyInv, SerialReadable
<1> QED
  BY <1>1, OrderlyInvariance, PTL

\* Nor does a finalization, however late, bring back a key that was replaced.
THEOREM KeysGoForward == OrderlySpec => SerialKeys
<1>1. OrderlySpec => [](IInv /\ Addressed)
  BY OrderlyImplements, Invariance, AddressedAlways, PTL
<1>2. IInv /\ Addressed /\ OrderlyInv /\ [OrderlyNext]_orderly /\ IInv' /\ Addressed'
        => [~overlapped' => \A h \in Holders : key'[h] >= key[h]]_orderly
  BY OrderlyNextInv
<1> QED
  BY <1>1, <1>2, OrderlyInvariance, PTL DEF OrderlySpec, SerialKeys

----------------------------------------------------------------------------
(* The secret, as long as no share of a replaced split is still on its way.  *)

\* No share is on its way, and none waits for others of its split.
Settled ==
    /\ \A p \in Procs : pc[p] \notin {"fetched", "checked", "counted"}
    /\ \A r \in Rots : Active(r) => subs[r] = NoSubs

\* The rows are replaced only then.  Nothing in the code sees to it.
OneByOne == [][splits' # splits => Settled]_vars

\* A share for it may still be counted.
Open(r) == Active(r) \/ \E p \in Procs : on[p] = r /\ pc[p] \in {"checked", "counted"}

AllOfLast(f) == \A h \in Submitters(f) : f[h] = splits

\* All shares there are, and all that will still be counted, are of the last split.
Unmixed ==
    /\ garbage = {}
    /\ \A h \in Holders : gen[h] = splits
    /\ \A r \in Rots : Open(r) => AllOfLast(subs[r])
    /\ \A p \in Procs :
          /\ pc[p] \in {"fetched", "checked", "counted"} => got[p] = splits
          /\ pc[p] = "counted" => AllOfLast(seen[p])
          /\ pc[p] \in {"notify", "put", "update"} => sound[p]

\* A step that replaces no row: every share it carries on or counts was there, or
\* is of the last split.
LEMMA UnmixedFrame ==
  ASSUME Unmixed, UNCHANGED <<gen, splits, garbage>>,
         \A r \in Rots : Open(r)' =>
            (Open(r) /\ subs'[r] = subs[r]) \/ AllOfLast(subs'[r]),
         \A q \in Procs : pc'[q] \in {"fetched", "checked", "counted"} =>
            \/ pc[q] \in {"fetched", "checked", "counted"} /\ got'[q] = got[q]
            \/ got'[q] = splits,
         \A q \in Procs : pc'[q] = "counted" =>
            (pc[q] = "counted" /\ seen'[q] = seen[q]) \/ AllOfLast(seen'[q]),
         \A q \in Procs : pc'[q] \in {"notify", "put", "update"} =>
            (pc[q] \in {"notify", "put", "update"} /\ sound'[q] = sound[q]) \/ sound'[q]
  PROVE  Unmixed'
<1>1. garbage' = {} /\ \A h \in Holders : gen'[h] = splits'
  BY DEF Unmixed
<1>2. \A r \in Rots : Open(r)' => AllOfLast(subs'[r])
  BY DEF Unmixed
<1>3. \A q \in Procs : pc'[q] \in {"fetched", "checked", "counted"} => got'[q] = splits'
  BY DEF Unmixed
<1>4. \A q \in Procs : pc'[q] = "counted" => AllOfLast(seen'[q])
  BY DEF Unmixed
<1>5. \A q \in Procs : pc'[q] \in {"notify", "put", "update"} => sound'[q]
  BY DEF Unmixed
<1>6. ASSUME NEW f, AllOfLast(f) PROVE \A h \in Submitters(f) : f[h] = splits'
  BY <1>6 DEF AllOfLast
<1>7. \A r \in Rots : Open(r)' => \A h \in Submitters(subs'[r]) : subs'[r][h] = splits'
  BY <1>2, <1>6
<1>8. \A q \in Procs : pc'[q] = "counted" => \A h \in Submitters(seen'[q]) : seen'[q][h] = splits'
  BY <1>4, <1>6
<1> QED
  BY <1>1, <1>3, <1>5, <1>7, <1>8 DEF Unmixed, AllOfLast, Submitters

\* A slot that ends, and changes no submission of a rotation that stays open.
LEMMA UnmixedFinish ==
  ASSUME IInv, Unmixed, NEW p \in Procs, Finish(p), UNCHANGED <<gen, splits, garbage>>,
         \A r \in Rots : /\ Active(r)' => Active(r) \/ AllOfLast(subs'[r])
                         /\ subs'[r] = subs[r] \/ AllOfLast(subs'[r])
  PROVE  Unmixed'
<1>1. \A q \in Procs : pc'[q] # "idle" =>
         /\ q # p /\ pc'[q] = pc[q] /\ on'[q] = on[q] /\ got'[q] = got[q]
         /\ seen'[q] = seen[q] /\ sound'[q] = sound[q]
  BY DEF Finish, IInv, TypeOK
<1>2. \A r \in Rots : Open(r)' =>
         (Open(r) /\ subs'[r] = subs[r]) \/ AllOfLast(subs'[r])
  BY <1>1 DEF Open
<1> QED
  BY <1>1, <1>2, UnmixedFrame

\* A slot that goes on with the share or the payload it has.
LEMMA UnmixedMove ==
  ASSUME IInv, Unmixed, NEW p \in Procs, NEW label,
         pc' = [pc EXCEPT ![p] = label],
         label \in {"checked", "put", "update", "deny"},
         label = "checked" => pc[p] = "fetched" /\ Active(on[p]),
         label \in {"put", "update"} => pc[p] \in {"notify", "put"},
         label = "deny" => pc[p] = "idle",
         label # "deny" => UNCHANGED on,
         \A q \in Procs \ {p} : on'[q] = on[q],
         UNCHANGED <<gen, splits, garbage, status, lapsed, subs, got, seen, sound>>
  PROVE  Unmixed'
<1>1. \A r \in Rots : Open(r)' => Open(r)
  BY DEF Open, Active, IInv, TypeOK
<1> QED
  BY <1>1, UnmixedFrame DEF IInv, TypeOK

LEMMA UnmixedArrive ==
  ASSUME IInv, Unmixed, NEW p \in Procs, Arrive(p)
  PROVE  Unmixed'
<1> USE DEF Goto, rows, shares, payload
<1>1. ASSUME NEW h \in Holders, RequestRotation(p, h) PROVE Unmixed'
  <2>1. /\ pc[p] = "idle" /\ UNCHANGED <<status, lapsed, subs, gen, splits, garbage, seen, sound>>
        /\ \A q \in Procs : pc'[q] # "create" =>
              pc'[q] = pc[q] /\ (pc[q] # "idle" => on'[q] = on[q] /\ got'[q] = got[q])
    BY <1>1 DEF RequestRotation, IInv, TypeOK
  <2>2. \A r \in Rots : Open(r)' => Open(r)
    BY <2>1 DEF Open, Active
  <2> QED
    BY <2>1, <2>2, UnmixedFrame
<1>2. ASSUME NEW h \in Holders, NEW r \in Rots, Fetch(p, h, r) PROVE Unmixed'
  <2>1. /\ pc[p] = "idle" /\ UNCHANGED <<status, lapsed, subs, gen, splits, garbage, seen, sound>>
        /\ pc'[p] = "fetched" /\ got'[p] = splits
        /\ \A q \in Procs \ {p} : pc'[q] = pc[q] /\ on'[q] = on[q] /\ got'[q] = got[q]
    BY <1>2 DEF Fetch, Unmixed, IInv, TypeOK
  <2>2. \A s \in Rots : Open(s)' => Open(s)
    BY <2>1 DEF Open, Active
  <2> QED
    BY <2>1, <2>2, UnmixedFrame
<1>3. ASSUME NEW r \in Rots, DenyCheck(p, r) PROVE Unmixed'
  BY <1>3, UnmixedMove DEF DenyCheck, IInv, TypeOK
<1> QED
  BY <1>1, <1>2, <1>3 DEF Arrive

LEMMA UnmixedStep ==
  ASSUME IInv, Unmixed, NEW p \in Procs, Step(p), splits' # splits => Settled
  PROVE  Unmixed'
<1> USE DEF Goto, rows, shares, payload
<1>1. CASE CreateInsert(p)
  <2>1. /\ on[p] \in Rots /\ status[on[p]] = "none" /\ Finish(p)
        /\ UNCHANGED <<lapsed, subs, gen, splits, garbage>>
        /\ status' = [status EXCEPT ![on[p]] = "PENDING"]
    BY <1>1 DEF CreateInsert, IInv, Placed
  <2>2. subs'[on[p]] = NoSubs
    BY <2>1 DEF IInv, Placed
  <2>3. AllOfLast(subs'[on[p]])
    BY <2>2 DEF AllOfLast, NoSubs, Submitters, Holders
  <2>4. \A r \in Rots : Active(r)' => Active(r) \/ AllOfLast(subs'[r])
    BY <2>1, <2>3 DEF Active, IInv, TypeOK
  <2> QED
    BY <2>1, <2>4, UnmixedFinish
<1>2. CASE Finish(p) /\ UNCHANGED <<rows, shares>>
  BY <1>2, UnmixedFinish DEF Active
<1>3. CASE SubmitCheck(p) /\ ~Finish(p)
  BY <1>3, UnmixedMove DEF SubmitCheck
<1>4. CASE CountShares(p)
  <2>1. /\ on[p] \in Rots /\ by[p] \in Holders /\ pc[p] = "checked"
        /\ UNCHANGED <<rows, shares, on, by, got, sound>>
        /\ pc' = [pc EXCEPT ![p] = "counted"]
        /\ seen' = [seen EXCEPT ![p] = [subs[on[p]] EXCEPT ![by[p]] = got[p]]]
    BY <1>4 DEF CountShares, IInv, Placed
  <2>2. Open(on[p]) /\ got[p] = splits
    BY <2>1 DEF Open, Unmixed
  <2>3. AllOfLast(subs[on[p]])
    BY <2>1, <2>2 DEF Unmixed
  <2>4. seen'[p] = [subs[on[p]] EXCEPT ![by[p]] = splits]
    BY <2>1, <2>2 DEF IInv, TypeOK
  <2>5. AllOfLast(seen'[p])
    BY <2>1, <2>3, <2>4 DEF AllOfLast, Submitters, IInv, TypeOK
  <2>6. \A r \in Rots : Open(r)' => Open(r)
    BY <2>1 DEF Open, Active, IInv, TypeOK
  <2>7. \A q \in Procs : q # p => pc'[q] = pc[q] /\ seen'[q] = seen[q]
    BY <2>1 DEF IInv, TypeOK
  <2>8. \A q \in Procs : pc'[q] = "counted" =>
            (pc[q] = "counted" /\ seen'[q] = seen[q]) \/ AllOfLast(seen'[q])
    BY <2>5, <2>7
  <2> QED
    BY <2>1, <2>6, <2>8, UnmixedFrame DEF IInv, TypeOK
<1>5. CASE CommitPending(p)
  <2>1. /\ on[p] \in Rots /\ by[p] \in Holders /\ pc[p] = "counted" /\ Finish(p)
        /\ UNCHANGED <<status, lapsed, gen, splits, garbage>>
        /\ subs' = [subs EXCEPT ![on[p]][by[p]] = got[p]]
    BY <1>5 DEF CommitPending, IInv, Placed
  <2>2. Open(on[p]) /\ got[p] = splits
    BY <2>1 DEF Open, Unmixed
  <2>3. AllOfLast(subs[on[p]])
    BY <2>1, <2>2 DEF Unmixed
  <2>4. /\ subs'[on[p]] = [subs[on[p]] EXCEPT ![by[p]] = splits]
        /\ \A r \in Rots \ {on[p]} : subs'[r] = subs[r]
    BY <2>1, <2>2 DEF IInv, TypeOK
  <2>5. AllOfLast(subs'[on[p]])
    BY <2>1, <2>3, <2>4 DEF AllOfLast, Submitters, IInv, TypeOK
  <2> QED
    BY <2>1, <2>4, <2>5, UnmixedFinish DEF Active
<1>6. CASE CommitQuorum(p)
  <2>1. /\ on[p] \in Rots /\ pc[p] = "counted"
        /\ UNCHANGED <<lapsed, gen, splits, garbage, on, by, got, seen>>
        /\ pc' = [pc EXCEPT ![p] = "notify"]
        /\ status' = [status EXCEPT ![on[p]] = "APPROVED"]
        /\ subs' = [subs EXCEPT ![on[p]] = NoSubs]
        /\ sound' = [sound EXCEPT ![p] = OneSecret(seen[p])]
    BY <1>6 DEF CommitQuorum, IInv, Placed
  <2>2. OneSecret(seen[p])
    <3>1. AllOfLast(seen[p]) /\ garbage = {} /\ splits \in 0 .. splits
      BY <2>1 DEF Unmixed, IInv, TypeOK
    <3> QED
      BY <3>1 DEF OneSecret, AllOfLast
  <2>3. AllOfLast(NoSubs)
    BY DEF AllOfLast, NoSubs, Submitters, Holders
  <2>4. \A r \in Rots : Open(r)' =>
           (Open(r) /\ subs'[r] = subs[r]) \/ AllOfLast(subs'[r])
    BY <2>1, <2>3 DEF Open, Active, IInv, TypeOK
  <2>5. \A q \in Procs : q # p => pc'[q] = pc[q] /\ sound'[q] = sound[q]
    BY <2>1 DEF IInv, TypeOK
  <2>6. pc'[p] = "notify" /\ sound'[p]
    BY <2>1, <2>2 DEF IInv, TypeOK
  <2> QED
    BY <2>1, <2>4, <2>5, <2>6, UnmixedFrame
<1>7. CASE Notify(p) /\ ~Finish(p)
  BY <1>7, UnmixedMove DEF Notify
<1>8. CASE FinalizeCheck(p) /\ ~Finish(p)
  BY <1>8, UnmixedMove DEF FinalizeCheck
<1>9. CASE UpdateRow(p) /\ ~Finish(p)
  BY <1>9, UnmixedFrame DEF UpdateRow, Open, Active
<1>10. CASE DenyWrite(p)
  <2>1. \A r \in Rots : Active(r)' => Active(r)
    BY <1>10 DEF DenyWrite, Active, IInv, Placed, TypeOK
  <2> QED
    BY <1>10, <2>1, UnmixedFinish DEF DenyWrite
<1>11. CASE FinalizeCommit(p)
  <2>1. /\ on[p] \in Rots /\ pc[p] = "update" /\ Finish(p) /\ UNCHANGED <<lapsed, subs>>
        /\ splits' = splits + 1 /\ gen' = [h \in Holders |-> splits + 1]
        /\ garbage' = IF sound[p] THEN garbage ELSE garbage \cup {splits + 1}
        /\ status' = [status EXCEPT ![on[p]] = "APPROVED"]
    BY <1>11 DEF FinalizeCommit, IInv, Placed
  <2>2. Settled
    BY <2>1 DEF IInv, TypeOK
  <2>3. garbage' = {} /\ \A h \in Holders : gen'[h] = splits'
    BY <2>1 DEF Unmixed
  <2>4. \A q \in Procs : pc'[q] # "idle" => pc'[q] = pc[q] /\ sound'[q] = sound[q]
    BY <2>1 DEF Finish, IInv, TypeOK
  <2>5. \A q \in Procs : pc'[q] \notin {"fetched", "checked", "counted"}
    BY <2>2, <2>4 DEF Settled
  <2>6. \A q \in Procs : pc'[q] \in {"notify", "put", "update"} => sound'[q]
    BY <2>4 DEF Unmixed
  <2>7. \A r \in Rots : Open(r)' => subs'[r] = NoSubs
    BY <2>1, <2>2, <2>5 DEF Open, Settled, Active, IInv, TypeOK
  <2>8. \A r \in Rots : Open(r)' => \A h \in Submitters(subs'[r]) : subs'[r][h] = splits'
    BY <2>7 DEF NoSubs, Submitters, Holders
  <2> QED
    BY <2>3, <2>5, <2>6, <2>8 DEF Unmixed, AllOfLast, Submitters
<1> QED
  BY <1>1, <1>2, <1>3, <1>4, <1>5, <1>6, <1>7, <1>8, <1>9, <1>10, <1>11
     DEF Step, SubmitCheck, Notify, FinalizeCheck, UpdateRow

LEMMA UnmixedNext ==
  ASSUME IInv, Unmixed, [Next]_vars, [splits' # splits => Settled]_vars
  PROVE  Unmixed'
<1>1. CASE UNCHANGED vars
  BY <1>1, UnmixedFrame DEF vars, rows, shares, slots, payload, Open, Active
<1>2. ASSUME NEW p \in Procs, Stop(p) PROVE Unmixed'
  BY <1>2, UnmixedFinish DEF Stop, rows, shares, Active
<1>3. ASSUME NEW h \in Holders, NewDevice(h) PROVE Unmixed'
  BY <1>3, UnmixedFrame DEF NewDevice, rows, shares, slots, payload, Open, Active
<1>4. ASSUME NEW r \in Rots, Lapse(r) PROVE Unmixed'
  <2>1. \A s \in Rots : Open(s)' => Open(s)
    BY <1>4 DEF Lapse, Open, Active, slots, payload, IInv, TypeOK
  <2> QED
    BY <1>4, <2>1, UnmixedFrame DEF Lapse, shares, slots, payload
<1>5. ASSUME NEW p \in Procs, Arrive(p) \/ Step(p) PROVE Unmixed'
  <2>1. CASE UNCHANGED vars
    BY <2>1, <1>1
  <2>2. CASE ~UNCHANGED vars
    BY <1>5, <2>2, UnmixedArrive, UnmixedStep
  <2> QED
    BY <2>1, <2>2
<1> QED
  BY <1>1, <1>2, <1>3, <1>4, <1>5 DEF Next

\* The secret survives any number of rotations, of any holders and with any of
\* them lapsed, denied, stopped or finalized late, if the rows are only replaced
\* while no share is on its way and none waits for others: shares of two splits
\* in one payload are the one way the code can lose it.
THEOREM SecretSurvivesUnmixed == Spec /\ OneByOne => []SecretSurvives
<1>1. Init => Unmixed
  <2>1. SUFFICES ASSUME Init PROVE Unmixed
    OBVIOUS
  <2>2. \A r \in Rots : AllOfLast(subs[r])
    BY <2>1 DEF Init, AllOfLast, NoSubs, Submitters, Holders
  <2> QED
    BY <2>1, <2>2 DEF Init, Unmixed
<1>2. Unmixed => SecretSurvives
  BY DEF Unmixed, SecretSurvives
<1>3. IInv /\ Unmixed /\ [Next]_vars /\ [splits' # splits => Settled]_vars => Unmixed'
  BY UnmixedNext
<1> QED
  BY <1>1, <1>2, <1>3, Invariance, PTL DEF Spec, OneByOne

----------------------------------------------------------------------------
(* Requests that are Apart: the life of a rotation request, from its insert to *)
(* its release, is that of an access request, with calls that are atomic steps *)
(* (AccessPromise).  What the finalization does comes after the release and is *)
(* a stutter.  Each part of the condition is needed.                           *)

VARIABLE released       \* history: sets of holders released for a rotation

Releases(p, r) == on[p] = r /\ pc[p] = "counted" /\ pc'[p] = "notify"

FlowInit == Init /\ released = [r \in Rots |-> {}]

FlowNext ==
    /\ Next
    /\ released' = [r \in Rots |->
         released[r] \cup {Submitters(seen[p]) : p \in {q \in Procs : Releases(q, r)}}]

FlowSpec == FlowInit /\ [][FlowNext]_<<vars, released>>

\* No two calls past their checks decide on or add to one request, and no two
\* requests of one holder are made at the same time.
Apart ==
    \A p, q \in Procs : p # q =>
        /\ {pc[p], pc[q]} \subseteq {"checked", "counted", "deny"} => on[p] # on[q]
        /\ pc[p] = "create" /\ pc[q] = "create" => by[p] # by[q]

Flow == INSTANCE AccessPromiseProofs WITH
    Users <- Holders, Holders <- Holders, Reqs <- Rots, NoUser <- Nobody,
    Quorums <- {S \in SUBSET Holders : Cardinality(S) >= Threshold},
    status <- status, requester <- requester, lapsed <- lapsed,
    subs <- [r \in Rots |-> Submitters(subs[r])], released <- released

\* What a call has read is still so when it writes.
ReadIsCurrent(p) ==
    /\ pc[p] \in {"checked", "counted", "deny"} => status[on[p]] = "PENDING"
    /\ pc[p] = "counted" => Submitters(seen[p]) = Submitters(subs[on[p]]) \cup {by[p]}
    /\ pc[p] \in {"notify", "put", "update"} => status[on[p]] = "APPROVED"
    /\ pc[p] = "create" => ~HasActive(by[p])

FlowInv ==
    /\ \A p \in Procs : ReadIsCurrent(p)
    /\ \A r \in Rots : status[r] = "none" => released[r] = {}
    /\ released = [r \in Rots |-> released[r]]

\* A step of another slot that leaves the rows of this one alone.
LEMMA ReadKept ==
  ASSUME IInv, FlowInv, NEW q \in Procs,
         pc'[q] = pc[q], on'[q] = on[q], by'[q] = by[q], seen'[q] = seen[q],
         pc[q] # "idle" => status'[on[q]] = status[on[q]],
         pc[q] = "counted" => subs'[on[q]] = subs[on[q]],
         pc[q] = "create" => \A r \in Rots :
            Active(r)' /\ requester'[r] = by[q] => Active(r) /\ requester[r] = by[q]
  PROVE  ReadIsCurrent(q)'
BY DEF FlowInv, ReadIsCurrent, HasActive, Submitters

\* Nothing is released unless a slot goes from its count to the notification.
LEMMA NothingReleased ==
  ASSUME FlowInv, [FlowNext]_<<vars, released>>,
         \A q \in Procs : ~(pc[q] = "counted" /\ pc'[q] = "notify")
  PROVE  released' = released
<1>1. CASE FlowNext
  <2>1. \A r \in Rots : {q \in Procs : Releases(q, r)} = {}
    BY DEF Releases
  <2>2. \A r \in Rots :
          released[r] \cup {Submitters(seen[p]) : p \in {q \in Procs : Releases(q, r)}} = released[r]
    BY <2>1
  <2>3. released' = [r \in Rots |-> released[r]]
    BY <1>1, <2>2 DEF FlowNext
  <2> QED
    BY <2>3 DEF FlowInv
<1> QED
  BY <1>1

\* Steps that change no row of a request.
LEMMA QuietStep ==
  ASSUME IInv, FlowInv, released' = released, UNCHANGED <<status, requester, lapsed, subs>>,
         \A q \in Procs : \/ ReadIsCurrent(q)'
                          \/ /\ pc'[q] = pc[q] /\ on'[q] = on[q] /\ by'[q] = by[q]
                             /\ seen'[q] = seen[q]
  PROVE  FlowInv' /\ [Flow!Next]_(Flow!vars)
<1>1. \A q \in Procs : ReadIsCurrent(q)'
  BY ReadKept DEF Active
<1>2. UNCHANGED Flow!vars
  BY DEF Flow!vars
<1> QED
  BY <1>1, <1>2 DEF FlowInv

\* A slot other than p stays as it is.
OthersStay(p) ==
    \A q \in Procs \ {p} : /\ pc'[q] = pc[q] /\ on'[q] = on[q]
                           /\ by'[q] = by[q] /\ seen'[q] = seen[q]

LEMMA OthersWait ==
  ASSUME IInv, NEW p \in Procs, Arrive(p) \/ Step(p) \/ Stop(p)
  PROVE  OthersStay(p)
<1> USE DEF IInv, TypeOK, OthersStay, Goto, slots, payload
<1>1. CASE Arrive(p)
  BY <1>1 DEF Arrive, RequestRotation, Fetch, DenyCheck
<1>2. CASE Finish(p)
  BY <1>2, FinishOthers
<1>3. CASE SubmitCheck(p) \/ CountShares(p) \/ CommitQuorum(p)
  BY <1>2, <1>3 DEF SubmitCheck, CountShares, CommitQuorum
<1>4. CASE Notify(p) \/ FinalizeCheck(p) \/ UpdateRow(p)
  BY <1>2, <1>4 DEF Notify, FinalizeCheck, UpdateRow
<1> QED
  BY <1>1, <1>2, <1>3, <1>4
     DEF Step, Stop, CreateInsert, CommitPending, FinalizeCommit, DenyWrite

\* The insert is Ask, as nobody else has inserted a request of that holder since.
LEMMA FlowInsert ==
  ASSUME IInv, IInv', Addressed, Apart, FlowInv, NEW p \in Procs, CreateInsert(p), OthersStay(p),
         released' = released
  PROVE  FlowInv' /\ [Flow!Next]_(Flow!vars)
<1> DEFINE r == on[p]
           u == by[p]
<1>1. /\ pc[p] = "create" /\ r \in Rots /\ u \in Holders /\ status[r] = "none" /\ subs[r] = NoSubs
      /\ \A q \in Procs \ {p} : on[q] # r
      /\ released[r] = {} /\ ~HasActive(u)
  BY DEF CreateInsert, IInv, Placed, Addressed, FlowInv, ReadIsCurrent
<1>2. /\ status' = [status EXCEPT ![r] = "PENDING"] /\ requester' = [requester EXCEPT ![r] = u]
      /\ UNCHANGED <<lapsed, subs>> /\ pc'[p] = "idle"
  BY FinishOthers DEF CreateInsert, IInv
<1>3. Flow!Ask(u, r)
  <2>1. \A s \in Rots : requester[s] = u => status[s] # "PENDING" \/ lapsed[s]
    BY <1>1 DEF HasActive, Active
  <2> QED
    BY <1>1, <1>2, <2>1 DEF Flow!Ask
<1>4. ASSUME NEW q \in Procs PROVE ReadIsCurrent(q)'
  <2>1. CASE q = p
    BY <1>2, <2>1 DEF ReadIsCurrent
  <2>2. CASE q # p
    <3>1. pc[q] # "idle" => on[q] \in Rots /\ on[q] # r
      BY <1>1, <2>2 DEF IInv, Placed
    <3>2. pc[q] # "idle" => status'[on[q]] = status[on[q]]
      BY <1>2, <3>1 DEF IInv, TypeOK
    <3>3. ASSUME pc[q] = "create", NEW s \in Rots, Active(s)', requester'[s] = by[q]
          PROVE  Active(s) /\ requester[s] = by[q]
      <4>1. by[q] # u
        BY <1>1, <2>2, <3>3 DEF Apart
      <4>2. s # r
        BY <1>1, <1>2, <3>3, <4>1 DEF IInv, TypeOK
      <4> QED
        BY <1>1, <1>2, <3>3, <4>2 DEF Active, IInv, TypeOK
    <3> QED
      BY <1>2, <2>2, <3>2, <3>3, ReadKept DEF OthersStay
  <2> QED
    BY <2>1, <2>2
<1>5. \A s \in Rots : status'[s] = "none" => released'[s] = {}
  BY <1>1, <1>2 DEF FlowInv, IInv, TypeOK
<1> QED
  BY <1>1, <1>3, <1>4, <1>5 DEF FlowInv, Flow!Next

\* A slot that writes rows of its request, which is pending, finds no other slot
\* past a check of the same request.
LEMMA OwnRequest ==
  ASSUME IInv, Apart, FlowInv, NEW p \in Procs, pc[p] \in {"counted", "deny"}, OthersStay(p),
         UNCHANGED <<requester, lapsed>>,
         \A r \in Rots : r # on[p] => status'[r] = status[r] /\ subs'[r] = subs[r],
         status'[on[p]] \in {"PENDING", "APPROVED", "DENIED"},
         status'[on[p]] = "PENDING" => status[on[p]] = "PENDING",
         NEW q \in Procs, q # p
  PROVE  ReadIsCurrent(q)'
<1>1. on[p] \in Rots /\ status[on[p]] = "PENDING"
  BY DEF IInv, Placed, FlowInv, ReadIsCurrent
<1>2. pc[q] # "idle" /\ on[q] = on[p] => pc[q] = "fetched"
  BY <1>1 DEF IInv, TypeOK, Placed, Apart, FlowInv, ReadIsCurrent
<1>3. pc[q] # "idle" => on[q] \in Rots
  BY DEF IInv, Placed
<1>4. CASE pc[q] = "fetched"
  BY <1>4 DEF OthersStay, ReadIsCurrent
<1>5. CASE pc[q] # "fetched"
  <2>1. /\ pc[q] # "idle" => status'[on[q]] = status[on[q]]
        /\ pc[q] = "counted" => subs'[on[q]] = subs[on[q]]
    BY <1>2, <1>3, <1>5
  <2>2. \A r \in Rots : Active(r)' => Active(r)
    BY <1>1 DEF Active
  <2> QED
    BY <2>1, <2>2, ReadKept DEF OthersStay
<1> QED
  BY <1>4, <1>5

LEMMA QuorumsAre ==
  ASSUME NEW f \in [Holders -> Nat \cup {Absent}]
  PROVE  (Submitters(f) \in {S \in SUBSET Holders : Cardinality(S) >= Threshold})
           <=> Cardinality(Submitters(f)) >= Threshold
BY DEF Submitters

\* A submission is Contribute or Complete.
LEMMA FlowSubmit ==
  ASSUME IInv, IInv', Apart, FlowInv, NEW p \in Procs, OthersStay(p),
         [FlowNext]_<<vars, released>>, CommitPending(p) \/ CommitQuorum(p)
  PROVE  FlowInv' /\ [Flow!Next]_(Flow!vars)
<1> DEFINE r == on[p]
           h == by[p]
<1>1. /\ pc[p] = "counted" /\ r \in Rots /\ h \in Holders /\ status[r] = "PENDING"
      /\ Submitters(seen[p]) = Submitters(subs[r]) \cup {h}
      /\ (Submitters(seen[p]) \in {S \in SUBSET Holders : Cardinality(S) >= Threshold})
            <=> QuorumSeen(p)
  BY QuorumsAre DEF CommitPending, CommitQuorum, IInv, TypeOK, Placed, FlowInv, ReadIsCurrent, QuorumSeen
<1>2. CASE CommitPending(p)
  <2>1. /\ subs' = [subs EXCEPT ![r][h] = got[p]] /\ UNCHANGED <<status, requester, lapsed>>
        /\ pc'[p] = "idle" /\ ~QuorumSeen(p)
    BY <1>2, FinishOthers DEF CommitPending, IInv
  <2>2. released' = released
    BY <2>1, NothingReleased DEF OthersStay
  <2>3. \A s \in Rots : Submitters(subs'[s]) = IF s = r THEN Submitters(subs[s]) \cup {h}
                                                         ELSE Submitters(subs[s])
    <3>1. got[p] # Absent
      BY DEF IInv, TypeOK, Absent
    <3> QED
      BY <1>1, <2>1, <3>1 DEF Submitters, IInv, TypeOK
  <2>4. Flow!Contribute(h, r)
    BY <1>1, <2>1, <2>2, <2>3 DEF Flow!Contribute
  <2>5. \A q \in Procs : ReadIsCurrent(q)'
    <3>1. ReadIsCurrent(p)'
      BY <2>1 DEF ReadIsCurrent
    <3>2. \A s \in Rots : s # r => status'[s] = status[s] /\ subs'[s] = subs[s]
      BY <2>1 DEF IInv, TypeOK
    <3> QED
      BY <1>1, <2>1, <3>1, <3>2, OwnRequest
  <2> QED
    BY <1>1, <2>1, <2>2, <2>4, <2>5 DEF FlowInv, Flow!Next
<1>3. CASE CommitQuorum(p)
  <2>1. /\ status' = [status EXCEPT ![r] = "APPROVED"] /\ subs' = [subs EXCEPT ![r] = NoSubs]
        /\ UNCHANGED <<requester, lapsed, on>> /\ pc'[p] = "notify" /\ QuorumSeen(p)
    BY <1>3 DEF CommitQuorum, Goto, IInv, TypeOK
  <2>2. released' = [released EXCEPT ![r] = @ \cup {Submitters(subs[r]) \cup {h}}]
    <3>1. FlowNext
      BY <1>1, <2>1 DEF vars, slots
    <3>2. \A s \in Rots : {q \in Procs : Releases(q, s)} = IF s = r THEN {p} ELSE {}
      BY <1>1, <2>1 DEF Releases, OthersStay
    <3>3. \A s \in Rots : released'[s] = IF s = r THEN released[s] \cup {Submitters(subs[r]) \cup {h}}
                                                  ELSE released[s]
      BY <1>1, <3>1, <3>2 DEF FlowNext
    <3>4. released' = [s \in Rots |-> released'[s]]
      BY <3>1 DEF FlowNext
    <3> QED
      BY <3>3, <3>4 DEF FlowInv
  <2>3. \A s \in Rots : Submitters(subs'[s]) = IF s = r THEN {} ELSE Submitters(subs[s])
    BY <1>1, <2>1 DEF Submitters, NoSubs, IInv, TypeOK
  <2>4. Flow!Complete(h, r)
    BY <1>1, <2>1, <2>2, <2>3 DEF Flow!Complete
  <2>5. \A q \in Procs : ReadIsCurrent(q)'
    <3>1. ReadIsCurrent(p)'
      BY <1>1, <2>1 DEF ReadIsCurrent, IInv, TypeOK
    <3>2. \A s \in Rots : s # r => status'[s] = status[s] /\ subs'[s] = subs[s]
      BY <2>1 DEF IInv, TypeOK
    <3>3. status'[r] = "APPROVED"
      BY <1>1, <2>1 DEF IInv, TypeOK
    <3> QED
      BY <1>1, <2>1, <3>1, <3>2, <3>3, OwnRequest
  <2>6. \A s \in Rots : status'[s] = "none" => released'[s] = {}
    BY <1>1, <2>1, <2>2 DEF FlowInv, IInv, TypeOK
  <2>7. released' = [s \in Rots |-> released'[s]]
    BY <2>2 DEF FlowInv
  <2> QED
    BY <1>1, <2>4, <2>5, <2>6, <2>7 DEF FlowInv, Flow!Next
<1> QED
  BY <1>2, <1>3

\* A denial is Refuse.
LEMMA FlowDeny ==
  ASSUME IInv, IInv', Apart, FlowInv, NEW p \in Procs, OthersStay(p), DenyWrite(p),
         released' = released
  PROVE  FlowInv' /\ [Flow!Next]_(Flow!vars)
<1> DEFINE r == on[p]
<1>1. pc[p] = "deny" /\ r \in Rots /\ status[r] = "PENDING"
  BY DEF DenyWrite, IInv, Placed, FlowInv, ReadIsCurrent
<1>2. /\ status' = [status EXCEPT ![r] = "DENIED"] /\ UNCHANGED <<requester, lapsed, subs>>
      /\ pc'[p] = "idle"
  BY FinishOthers DEF DenyWrite, IInv
<1>3. Flow!Refuse(r)
  BY <1>1, <1>2 DEF Flow!Refuse
<1>4. \A q \in Procs : ReadIsCurrent(q)'
  <2>1. ReadIsCurrent(p)'
    BY <1>2 DEF ReadIsCurrent
  <2>2. status'[r] = "DENIED" /\ \A s \in Rots : s # r => status'[s] = status[s] /\ subs'[s] = subs[s]
    BY <1>1, <1>2 DEF IInv, TypeOK
  <2> QED
    BY <1>1, <1>2, <2>1, <2>2, OwnRequest
<1>5. \A s \in Rots : status'[s] = "none" => released'[s] = {}
  BY <1>1, <1>2 DEF FlowInv, IInv, TypeOK
<1> QED
  BY <1>1, <1>3, <1>4, <1>5 DEF FlowInv, Flow!Next

\* The steps of a slot that change no row of a request; the finalization writes
\* APPROVED where it is already.
LEMMA FlowQuiet ==
  ASSUME IInv, Apart, FlowInv, NEW p \in Procs, OthersStay(p), [FlowNext]_<<vars, released>>,
         \/ Arrive(p) \/ Stop(p) \/ SubmitCheck(p) \/ CountShares(p)
         \/ Notify(p) \/ FinalizeCheck(p) \/ UpdateRow(p) \/ FinalizeCommit(p)
  PROVE  FlowInv' /\ [Flow!Next]_(Flow!vars)
<1> USE DEF Goto, rows, payload
<1> DEFINE Quiet == /\ UNCHANGED <<status, requester, lapsed, subs>>
                    /\ ReadIsCurrent(p)' /\ ~(pc[p] = "counted" /\ pc'[p] = "notify")
<1>1. ASSUME Arrive(p) PROVE Quiet
  <2>1. ASSUME NEW h \in Holders, RequestRotation(p, h) PROVE Quiet
    <3>1. CASE HasActive(h)
      BY <2>1, <3>1 DEF RequestRotation, ReadIsCurrent
    <3>2. CASE ~HasActive(h)
      <4>1. pc'[p] = "create" /\ by'[p] = h /\ UNCHANGED <<status, requester, lapsed, subs>>
        BY <2>1, <3>2 DEF RequestRotation, IInv, TypeOK
      <4>2. ~HasActive(h)'
        BY <3>2, <4>1 DEF HasActive, Active
      <4> QED
        BY <4>1, <4>2 DEF ReadIsCurrent, HasActive, Active
    <3> QED
      BY <3>1, <3>2
  <2>2. ASSUME NEW h \in Holders, NEW r \in Rots, Fetch(p, h, r) PROVE Quiet
    BY <2>2 DEF Fetch, ReadIsCurrent, IInv, TypeOK
  <2>3. ASSUME NEW r \in Rots, DenyCheck(p, r) PROVE Quiet
    BY <2>3 DEF DenyCheck, ReadIsCurrent, IInv, TypeOK
  <2> QED
    BY <1>1, <2>1, <2>2, <2>3 DEF Arrive
<1>2. ASSUME Finish(p), UNCHANGED rows PROVE Quiet
  BY <1>2, FinishOthers DEF ReadIsCurrent, IInv
<1>3. ASSUME SubmitCheck(p) PROVE Quiet
  BY <1>2, <1>3 DEF SubmitCheck, Active, ReadIsCurrent, IInv, TypeOK
<1>4. ASSUME CountShares(p) PROVE Quiet
  <2>1. /\ pc[p] = "checked" /\ pc'[p] = "counted" /\ UNCHANGED <<status, requester, lapsed, subs, on, by>>
        /\ seen'[p] = [subs[on[p]] EXCEPT ![by[p]] = got[p]]
    BY <1>4 DEF CountShares, IInv, TypeOK
  <2>2. by[p] \in Holders /\ on[p] \in Rots /\ status[on[p]] = "PENDING" /\ got[p] # Absent
    BY <2>1 DEF IInv, TypeOK, Placed, Absent, FlowInv, ReadIsCurrent
  <2>3. Submitters(seen'[p]) = Submitters(subs[on[p]]) \cup {by[p]}
    BY <2>1, <2>2 DEF Submitters, IInv, TypeOK
  <2> QED
    BY <2>1, <2>2, <2>3 DEF ReadIsCurrent, Submitters
<1>5. ASSUME Notify(p) \/ UpdateRow(p) \/ FinalizeCheck(p) PROVE Quiet
  <2>1. CASE Finish(p)
    BY <1>2, <1>5, <2>1 DEF Notify, UpdateRow, FinalizeCheck
  <2>2. CASE ~Finish(p)
    <3>1. /\ pc[p] \in {"notify", "put", "update"} /\ pc'[p] \in {"put", "update"}
          /\ on'[p] = on[p] /\ UNCHANGED <<status, requester, lapsed, subs>>
      BY <1>5, <2>2 DEF Notify, UpdateRow, FinalizeCheck, IInv, TypeOK
    <3>2. status[on[p]] = "APPROVED"
      BY <3>1 DEF FlowInv, ReadIsCurrent
    <3> QED
      BY <3>1, <3>2 DEF ReadIsCurrent
  <2> QED
    BY <2>1, <2>2
<1>6. ASSUME FinalizeCommit(p) PROVE Quiet
  <2>1. pc[p] = "update" /\ on[p] \in Rots /\ status[on[p]] = "APPROVED"
    BY <1>6 DEF FinalizeCommit, FlowInv, ReadIsCurrent, IInv, Placed
  <2>2. status' = status
    BY <1>6, <2>1 DEF FinalizeCommit, IInv, TypeOK
  <2>3. UNCHANGED <<requester, lapsed, subs>> /\ pc'[p] = "idle"
    BY <1>6, FinishOthers DEF FinalizeCommit, IInv
  <2> QED
    BY <2>1, <2>2, <2>3 DEF ReadIsCurrent
<1>7. Quiet
  BY <1>1, <1>2, <1>3, <1>4, <1>5, <1>6 DEF Stop
<1>8. released' = released
  BY <1>7, NothingReleased DEF OthersStay
<1> QED
  BY <1>7, <1>8, QuietStep DEF OthersStay

LEMMA FlowStep ==
  ASSUME IInv, IInv', Addressed, Apart, FlowInv, [FlowNext]_<<vars, released>>
  PROVE  FlowInv' /\ [Flow!Next]_(Flow!vars)
<1>1. CASE UNCHANGED <<vars, released>>
  BY <1>1, QuietStep DEF vars, rows, slots
<1>2. ASSUME NEW p \in Procs, Arrive(p) \/ Step(p) \/ Stop(p)
      PROVE  FlowInv' /\ [Flow!Next]_(Flow!vars)
  <2>1. OthersStay(p)
    BY <1>2, OthersWait
  <2>2. CASE CreateInsert(p) \/ DenyWrite(p)
    <3>1. pc'[p] = "idle"
      BY <2>2, FinishOthers DEF CreateInsert, DenyWrite, IInv
    <3>2. released' = released
      BY <2>1, <3>1, NothingReleased DEF OthersStay
    <3> QED
      BY <2>1, <2>2, <3>2, FlowInsert, FlowDeny
  <2> QED
    BY <1>2, <2>1, <2>2, FlowSubmit, FlowQuiet DEF Step
<1>3. ASSUME NEW h \in Holders, NewDevice(h) PROVE FlowInv' /\ [Flow!Next]_(Flow!vars)
  <2>1. UNCHANGED <<status, requester, lapsed, subs, pc, on, by, seen>>
    BY <1>3 DEF NewDevice, rows, slots
  <2>2. released' = released
    BY <2>1, NothingReleased
  <2> QED
    BY <2>1, <2>2, QuietStep
<1>4. ASSUME NEW r \in Rots, Lapse(r) PROVE FlowInv' /\ [Flow!Next]_(Flow!vars)
  <2>1. /\ UNCHANGED <<status, requester, subs, pc, on, by, seen>> /\ status[r] = "PENDING"
        /\ lapsed' = [lapsed EXCEPT ![r] = TRUE]
    BY <1>4 DEF Lapse, Active, slots
  <2>2. released' = released
    BY <2>1, NothingReleased
  <2>3. Flow!Lapse(r)
    BY <2>1, <2>2 DEF Flow!Lapse
  <2>4. \A s \in Rots : Active(s)' => Active(s)
    BY <2>1 DEF Active, IInv, TypeOK
  <2>5. \A q \in Procs : ReadIsCurrent(q)'
    BY <2>1, <2>4, ReadKept
  <2> QED
    BY <2>1, <2>2, <2>3, <2>5 DEF FlowInv, Flow!Next
<1> QED
  BY <1>1, <1>2, <1>3, <1>4 DEF FlowNext, Next

\* For any n, k, requests and number of slots: with calls that are Apart, what is
\* spread over statements, browsers and messages is the atomic flow of AccessPromise.
THEOREM ApartIsAtomic == FlowSpec /\ []Apart => Flow!Spec
<1>1. FlowInit => FlowInv /\ Flow!Init
  <2> SUFFICES ASSUME FlowInit PROVE FlowInv /\ Flow!Init
    OBVIOUS
  <2>1. \A r \in Rots : Submitters(subs[r]) = {}
    BY DEF FlowInit, Init, Submitters, NoSubs
  <2> QED
    BY <2>1 DEF FlowInit, Init, FlowInv, ReadIsCurrent, Flow!Init
<1>2. [FlowNext]_<<vars, released>> => [Next]_vars
  BY DEF FlowNext
<1>3. IInv /\ IInv' /\ Addressed /\ Apart /\ FlowInv /\ [FlowNext]_<<vars, released>>
        => FlowInv' /\ [Flow!Next]_(Flow!vars)
  BY FlowStep
<1>4. FlowInit => Init
  BY DEF FlowInit
<1>5. FlowSpec => Spec
  BY <1>2, <1>4, PTL DEF FlowSpec, Spec
<1> QED
  BY <1>1, <1>3, <1>5, Invariance, AddressedAlways, PTL DEF FlowSpec, Flow!Spec

\* So rotations keep what access requests promise: k shares never wait, those of an
\* approved request are purged, and no request releases twice or to fewer than k.
THEOREM ApartRotationsKeepPromise == FlowSpec /\ []Apart => []Flow!Promise
<1>1. Flow!PromiseAssumption
  <2>1. Cardinality({}) = 0
    BY FS_EmptySet
  <2> QED
    BY <2>1, SizeAssumption DEF Flow!PromiseAssumption, Holders, Nobody
<1>2. Flow!Spec => []Flow!Promise
  BY <1>1, Flow!PromiseKept
<1> QED
  BY <1>2, ApartIsAtomic, PTL

=============================================================================
