------------------------- MODULE VaultAccessProofs -------------------------
(***************************************************************************)
(* Proofs about VaultAccess and VaultSecret, for any set of users, holders, *)
(* requests and handler slots and any threshold.                           *)
(***************************************************************************)
EXTENDS VaultSecret, FiniteSetTheorems, FunctionTheorems, TLAPS

(* The inductive invariant. *)

\* A busy slot names its request and its caller; only holders get to submit.
Placed ==
    \A p \in Procs :
        /\ pc[p] \in InTransaction \cup {"notify"} => on[p] \in Reqs /\ by[p] \in Holders
        /\ pc[p] \in {"create", "deny"} => on[p] \in Reqs /\ by[p] \in Users

\* The row a handler works on exists; one that is to be inserted does not yet.
RowsExist ==
    \A p \in Procs :
        /\ pc[p] = "create" => /\ status[on[p]] = None
                               /\ \A q \in Procs \ {p} :
                                     pc[q] = "create" => on[q] # on[p]
        /\ vaultUp /\ pc[p] \in InTransaction \cup {"deny"} => status[on[p]] # None

\* What is counted was submitted, and what is purged was counted to k.
Accounted ==
    /\ \A r \in Reqs : subs[r] \subseteq consented[r]
    /\ \A p \in Procs :
        /\ pc[p] \in {"counted", "approved", "purged"} =>
              seen[p] \subseteq consented[on[p]] \cup {by[p]}
        /\ pc[p] \in {"approved", "purged"} => QuorumSeen(p)
        /\ pc[p] = "notify" => seen[p] \in released[on[p]]

\* Nothing outlives the vault, and no transaction can still write to it.
NothingOutlivesVault ==
    ~vaultUp => /\ \A r \in Reqs : status[r] = None /\ subs[r] = {}
                /\ \A p \in Procs : pc[p] \notin Wrote

IInv ==
    /\ TypeOK /\ Placed /\ RowsExist /\ Accounted /\ NothingOutlivesVault
    /\ QuorumGenuine /\ ApprovedMeansReleased

LEMMA InitInv == Init => IInv
<1> SUFFICES ASSUME Init PROVE IInv
  OBVIOUS
<1> USE NoneAssumption DEF Init, InitLocal
<1>1. TypeOK
  BY DEF TypeOK, Statuses, Labels, None
<1>2. Placed /\ RowsExist /\ Accounted /\ NothingOutlivesVault
  BY DEF Placed, RowsExist, Accounted, NothingOutlivesVault, InTransaction, Wrote
<1>3. QuorumGenuine /\ ApprovedMeansReleased
  BY DEF QuorumGenuine, ApprovedMeansReleased, None
<1> QED
  BY <1>1, <1>2, <1>3 DEF IInv

(* One lemma per group of actions: arrivals, the statements of a handler,  *)
(* and the environment.                                                    *)

LEMMA ArriveInv ==
  ASSUME IInv, NEW p \in Procs, Arrive(p)
  PROVE  IInv'
<1> USE DEF IInv, Begin, table, history, TypeOK, Labels, InTransaction, Wrote
<1>1. PICK u \in Users, r \in Reqs, label \in {"create", "checked", "deny"} :
        /\ Begin(p, label, u, r)
        /\ label = "checked" => u \in Holders
        /\ vaultUp
        /\ UNCHANGED <<table, history, inbox>>
  BY DEF Arrive, CreateCheck, SubmitCheck, DenyCheck
<1>2. TypeOK'
  BY <1>1
<1>3. Placed'
  BY <1>1 DEF Placed
<1>7. RowsExist'
  <2>1. ASSUME CreateCheck(p, u), NEW s \in Reqs, on'[p] = s PROVE status[s] = None
    BY <2>1, <1>1 DEF CreateCheck
  <2> QED
    BY DEF RowsExist, Arrive, CreateCheck, SubmitCheck, DenyCheck, None
<1>4. Accounted'
  BY <1>1 DEF Accounted, QuorumSeen
<1>5. NothingOutlivesVault'
  BY <1>1 DEF NothingOutlivesVault
<1>6. QuorumGenuine' /\ ApprovedMeansReleased'
  BY <1>1 DEF QuorumGenuine, ApprovedMeansReleased
<1> QED
  BY <1>2, <1>3, <1>4, <1>5, <1>6, <1>7

LEMMA StepInv ==
  ASSUME IInv, NEW p \in Procs, Step(p)
  PROVE  IInv'
<1> USE DEF IInv, Finish, Goto, table, local, history, InTransaction, Wrote
<1>1. CASE CreateInsert(p)
  <2> USE <1>1 DEF CreateInsert
  <2>1. TypeOK' /\ Placed'
    BY DEF TypeOK, Placed, Labels, Statuses
  <2>9. RowsExist'
    BY DEF RowsExist, Placed, TypeOK, NothingOutlivesVault, None
  <2>2. Accounted' /\ NothingOutlivesVault'
    BY DEF Accounted, NothingOutlivesVault, QuorumSeen, TypeOK, Placed
  <2>3. QuorumGenuine' /\ ApprovedMeansReleased'
    BY DEF QuorumGenuine, ApprovedMeansReleased, TypeOK, Placed
  <2> QED  BY <2>9, <2>1, <2>2, <2>3
<1>2. CASE Upsert(p)
  <2> USE <1>2 DEF Upsert
  <2>1. TypeOK' /\ Placed'
    BY DEF TypeOK, Placed, Labels
  <2>9. RowsExist'
    BY DEF RowsExist, Placed, TypeOK, NothingOutlivesVault, None
  <2>2. Accounted' /\ NothingOutlivesVault'
    BY DEF Accounted, NothingOutlivesVault, QuorumSeen, TypeOK
  <2>3. QuorumGenuine' /\ ApprovedMeansReleased'
    BY DEF QuorumGenuine, ApprovedMeansReleased
  <2> QED  BY <2>9, <2>1, <2>2, <2>3
<1>3. CASE CountShares(p)
  <2> USE <1>3 DEF CountShares
  <2>1. TypeOK' /\ Placed'
    BY DEF TypeOK, Placed, Labels
  <2>9. RowsExist'
    BY DEF RowsExist, Placed, TypeOK, NothingOutlivesVault, None
  <2>2. Accounted' /\ NothingOutlivesVault'
    BY DEF Accounted, NothingOutlivesVault, QuorumSeen, TypeOK, Placed
  <2>3. QuorumGenuine' /\ ApprovedMeansReleased'
    BY DEF QuorumGenuine, ApprovedMeansReleased
  <2> QED  BY <2>9, <2>1, <2>2, <2>3
<1>4. CASE CommitPending(p)
  <2> USE <1>4 DEF CommitPending
  <2>1. TypeOK' /\ Placed'
    BY DEF TypeOK, Placed, Labels
  <2>9. RowsExist'
    BY DEF RowsExist, Placed, TypeOK, NothingOutlivesVault, None
  <2>2. Accounted' /\ NothingOutlivesVault'
    BY DEF Accounted, NothingOutlivesVault, QuorumSeen, TypeOK, Placed
  <2>3. QuorumGenuine' /\ ApprovedMeansReleased'
    BY DEF QuorumGenuine, ApprovedMeansReleased, TypeOK, Placed
  <2> QED  BY <2>9, <2>1, <2>2, <2>3
<1>5. CASE Approve(p)
  <2> USE <1>5 DEF Approve
  <2>1. TypeOK' /\ Placed'
    BY DEF TypeOK, Placed, Labels
  <2>9. RowsExist'
    BY DEF RowsExist, Placed, TypeOK, NothingOutlivesVault, None
  <2>2. Accounted' /\ NothingOutlivesVault'
    BY DEF Accounted, NothingOutlivesVault, QuorumSeen, TypeOK
  <2>3. QuorumGenuine' /\ ApprovedMeansReleased'
    BY DEF QuorumGenuine, ApprovedMeansReleased
  <2> QED  BY <2>9, <2>1, <2>2, <2>3
<1>6. CASE Purge(p)
  <2> USE <1>6 DEF Purge
  <2>1. TypeOK' /\ Placed'
    BY DEF TypeOK, Placed, Labels
  <2>9. RowsExist'
    BY DEF RowsExist, Placed, TypeOK, NothingOutlivesVault, None
  <2>2. Accounted' /\ NothingOutlivesVault'
    BY DEF Accounted, NothingOutlivesVault, QuorumSeen, TypeOK
  <2>3. QuorumGenuine' /\ ApprovedMeansReleased'
    BY DEF QuorumGenuine, ApprovedMeansReleased
  <2> QED  BY <2>9, <2>1, <2>2, <2>3
<1>7. CASE CommitRelease(p)
  <2> USE <1>7 DEF CommitRelease
  <2>1. TypeOK' /\ Placed'
    BY DEF TypeOK, Placed, Labels, Statuses
  <2>9. RowsExist'
    BY DEF RowsExist, Placed, TypeOK, NothingOutlivesVault, None
  <2>2. Accounted'
    BY DEF Accounted, QuorumSeen, TypeOK, Placed
  <2>3. NothingOutlivesVault'
    BY DEF NothingOutlivesVault, TypeOK
  <2>4. QuorumGenuine'
    BY DEF QuorumGenuine, Accounted, QuorumSeen, TypeOK, Placed
  <2>5. ApprovedMeansReleased'
    BY DEF ApprovedMeansReleased, TypeOK, Placed
  <2> QED  BY <2>9, <2>1, <2>2, <2>3, <2>4, <2>5
<1>8. CASE Notify(p)
  <2> USE <1>8 DEF Notify
  <2>1. TypeOK' /\ Placed'
    BY DEF TypeOK, Placed, Labels
  <2>9. RowsExist'
    BY DEF RowsExist, Placed, TypeOK, NothingOutlivesVault, None
  <2>2. Accounted' /\ NothingOutlivesVault'
    BY DEF Accounted, NothingOutlivesVault, QuorumSeen, TypeOK
  <2>3. QuorumGenuine' /\ ApprovedMeansReleased'
    BY DEF QuorumGenuine, ApprovedMeansReleased, Accounted, TypeOK, Placed
  <2> QED  BY <2>9, <2>1, <2>2, <2>3
<1>9. CASE DenyWrite(p)
  <2> USE <1>9 DEF DenyWrite
  <2>1. TypeOK' /\ Placed'
    BY DEF TypeOK, Placed, Labels, Statuses
  <2>9. RowsExist'
    BY DEF RowsExist, Placed, TypeOK, NothingOutlivesVault, None
  <2>2. Accounted' /\ NothingOutlivesVault'
    BY DEF Accounted, NothingOutlivesVault, QuorumSeen, TypeOK
  <2>3. QuorumGenuine' /\ ApprovedMeansReleased'
    BY DEF QuorumGenuine, ApprovedMeansReleased, TypeOK, Placed
  <2> QED  BY <2>9, <2>1, <2>2, <2>3
<1> QED
  BY <1>1, <1>2, <1>3, <1>4, <1>5, <1>6, <1>7, <1>8, <1>9 DEF Step, Submit

LEMMA EnvironmentInv ==
  ASSUME IInv,
         \/ \E p \in Procs : Abort(p)
         \/ \E u \in Users : DeleteVault(u)
         \/ \E r \in Reqs : Lapse(r)
         \/ Crash
  PROVE  IInv'
<1> USE DEF IInv, table, local, history, InTransaction, Wrote
<1>1. ASSUME NEW p \in Procs, Abort(p) PROVE IInv'
  <2> USE <1>1 DEF Abort, Finish
  <2>1. TypeOK' /\ Placed'
    BY DEF TypeOK, Placed, Labels
  <2>9. RowsExist'
    BY DEF RowsExist, Placed, TypeOK, NothingOutlivesVault, None
  <2>2. Accounted' /\ NothingOutlivesVault'
    BY DEF Accounted, NothingOutlivesVault, QuorumSeen, TypeOK
  <2>3. QuorumGenuine' /\ ApprovedMeansReleased'
    BY DEF QuorumGenuine, ApprovedMeansReleased
  <2> QED  BY <2>9, <2>1, <2>2, <2>3
<1>2. ASSUME NEW u \in Users, DeleteVault(u) PROVE IInv'
  <2> USE <1>2 DEF DeleteVault
  <2>1. TypeOK' /\ Placed'
    BY DEF TypeOK, Placed, Labels, Statuses
  <2>9. RowsExist'
    BY DEF RowsExist, Placed, TypeOK, NothingOutlivesVault, None
  <2>2. Accounted' /\ NothingOutlivesVault'
    BY DEF Accounted, NothingOutlivesVault, QuorumSeen, TypeOK
  <2>3. QuorumGenuine' /\ ApprovedMeansReleased'
    BY DEF QuorumGenuine, ApprovedMeansReleased, None
  <2> QED  BY <2>9, <2>1, <2>2, <2>3
<1>3. ASSUME NEW r \in Reqs, Lapse(r) PROVE IInv'
  <2> USE <1>3 DEF Lapse
  <2>1. TypeOK' /\ Placed'
    BY DEF TypeOK, Placed, Labels
  <2>9. RowsExist'
    BY DEF RowsExist, Placed, TypeOK, NothingOutlivesVault, None
  <2>2. Accounted' /\ NothingOutlivesVault'
    BY DEF Accounted, NothingOutlivesVault, QuorumSeen
  <2>3. QuorumGenuine' /\ ApprovedMeansReleased'
    BY DEF QuorumGenuine, ApprovedMeansReleased
  <2> QED  BY <2>9, <2>1, <2>2, <2>3
<1>4. ASSUME Crash PROVE IInv'
  <2> USE <1>4 DEF Crash
  <2>1. TypeOK' /\ Placed'
    BY DEF TypeOK, Placed, Labels
  <2>9. RowsExist'
    BY DEF RowsExist, Placed, TypeOK, NothingOutlivesVault, None
  <2>2. Accounted' /\ NothingOutlivesVault'
    BY DEF Accounted, NothingOutlivesVault, QuorumSeen
  <2>3. QuorumGenuine' /\ ApprovedMeansReleased'
    BY DEF QuorumGenuine, ApprovedMeansReleased
  <2> QED  BY <2>9, <2>1, <2>2, <2>3
<1> QED
  BY <1>1, <1>2, <1>3, <1>4

LEMMA NextInv == IInv /\ [Next]_vars => IInv'
<1> SUFFICES ASSUME IInv, [Next]_vars PROVE IInv'
  OBVIOUS
<1>1. CASE Next
  BY <1>1, ArriveInv, StepInv, EnvironmentInv DEF Next
<1>2. CASE UNCHANGED vars
  BY <1>2 DEF vars, table, local, history, IInv, TypeOK, Placed, RowsExist, Accounted,
       QuorumSeen, NothingOutlivesVault, QuorumGenuine, ApprovedMeansReleased
<1> QED
  BY <1>1, <1>2

LEMMA Invariance == Spec => []IInv
BY InitInv, NextInv, PTL DEF Spec

----------------------------------------------------------------------------

\* Every variable keeps its type.
THEOREM TypeCorrect == Spec => []TypeOK
BY Invariance, PTL DEF IInv

\* Whatever submissions overlap, roll back or crash, a payload that leaves the
\* server holds at least k shares, all committed for that request.
THEOREM QuorumIsGenuine == Spec => []QuorumGenuine
BY Invariance, PTL DEF IInv

\* No request is APPROVED without a release.
THEOREM ApprovalImpliesRelease == Spec => []ApprovedMeansReleased
BY Invariance, PTL DEF IInv

(* ClosedStaysClosed is proved step by step: a step that changes request r *)
(* belongs to a handler that works on r and is used up by it, deletes the   *)
(* vault, or lets r lapse; and no handler enters a closed request.         *)

SameRequest(r) ==
    /\ status'[r] = status[r] /\ subs'[r] = subs[r] /\ released'[r] = released[r]
    /\ lapsed'[r] = lapsed[r] /\ vaultUp' = vaultUp

NoneEnters(r) ==
    Submitting(r)' \subseteq Submitting(r) /\ Deciding(r)' \subseteq Deciding(r)

Final(r) ==
    /\ Closed(r) =>
         /\ Closed(r)' /\ Submitting(r)' \subseteq Submitting(r)
         /\ \/ subs'[r] \subseteq subs[r] /\ released'[r] = released[r]
            \/ Submitting(r)' # Submitting(r)
    /\ Decided(r) =>
         /\ Decided(r)' /\ Deciding(r)' \subseteq Deciding(r)
         /\ status'[r] \in {status[r], None} \/ Deciding(r)' # Deciding(r)

LEMMA SameRequestIsFinal ==
  ASSUME NEW r \in Reqs, SameRequest(r), NoneEnters(r)
  PROVE  Final(r)
BY DEF Final, SameRequest, NoneEnters, Closed, Decided

LEMMA StepTouchesOwnRequest ==
  ASSUME IInv, NEW p \in Procs, Step(p), NEW r \in Reqs
  PROVE  (on[p] # r => SameRequest(r)) /\ NoneEnters(r)
<1> USE DEF SameRequest, NoneEnters, Submitting, Deciding, Goto, Finish, InTransaction, Wrote,
            table, local, history, IInv, TypeOK, Placed, None
<1> USE NoneAssumption
<1>1. CASE CreateInsert(p)
  BY <1>1 DEF CreateInsert
<1>2. CASE Upsert(p) \/ CountShares(p) \/ Approve(p) \/ Purge(p) \/ Notify(p)
  BY <1>2 DEF Upsert, CountShares, Approve, Purge, Notify
<1>3. CASE CommitPending(p)
  BY <1>3 DEF CommitPending
<1>4. CASE CommitRelease(p)
  BY <1>4 DEF CommitRelease
<1>5. CASE DenyWrite(p)
  BY <1>5 DEF DenyWrite
<1> QED
  BY <1>1, <1>2, <1>3, <1>4, <1>5 DEF Step, Submit

\* A step of a handler that works on r itself.
LEMMA OwnStepIsFinal ==
  ASSUME IInv, NEW p \in Procs, Step(p), NEW r \in Reqs, on[p] = r
  PROVE  Final(r)
<1> USE NoneAssumption DEF InTransaction, Wrote, table, local, history, None
<1>1. NoneEnters(r)
  BY StepTouchesOwnRequest
<1>2. CASE CreateInsert(p)
  <2>1. status[r] = None
    BY <1>2 DEF CreateInsert, IInv, RowsExist
  <2>2. /\ subs' = subs /\ released' = released /\ vaultUp' = vaultUp
        /\ lapsed' = lapsed /\ (~vaultUp => status' = status)
    BY <1>2 DEF CreateInsert
  <2> QED
    BY <1>1, <2>1, <2>2 DEF Final, Closed, Decided, NoneEnters
<1>3. CASE Upsert(p) \/ CountShares(p) \/ Approve(p) \/ Purge(p) \/ Notify(p)
  <2>1. SameRequest(r)
    BY <1>3 DEF SameRequest, Upsert, CountShares, Approve, Purge, Notify
  <2> QED
    BY <1>1, <2>1, SameRequestIsFinal
<1>4. CASE CommitPending(p) \/ CommitRelease(p)
  <2>1. p \in Submitting(r) /\ p \in Deciding(r)
    BY <1>4 DEF CommitPending, CommitRelease, Submitting, Deciding
  <2>2. pc'[p] \in {"idle", "notify"}
    BY <1>4 DEF CommitPending, CommitRelease, Finish, Goto, IInv, TypeOK
  <2>3. p \notin Submitting(r)' /\ p \notin Deciding(r)'
    BY <2>2 DEF Submitting, Deciding
  <2>4. vaultUp' = vaultUp /\ lapsed' = lapsed /\ status'[r] \in {status[r], "APPROVED"}
    BY <1>4 DEF CommitPending, CommitRelease, IInv, TypeOK
  <2> QED
    BY <1>1, <2>1, <2>3, <2>4 DEF Final, Closed, Decided, NoneEnters
<1>5. CASE DenyWrite(p)
  <2>1. p \in Deciding(r) /\ p \notin Deciding(r)'
    BY <1>5 DEF DenyWrite, Finish, Deciding, IInv, TypeOK
  <2>2. /\ subs' = subs /\ released' = released /\ vaultUp' = vaultUp /\ lapsed' = lapsed
        /\ status'[r] \in {status[r], "DENIED"}
    BY <1>5 DEF DenyWrite, IInv, TypeOK
  <2> QED
    BY <1>1, <2>1, <2>2 DEF Final, Closed, Decided, NoneEnters
<1> QED
  BY <1>2, <1>3, <1>4, <1>5 DEF Step, Submit

LEMMA ArrivalIsFinal ==
  ASSUME IInv, NEW p \in Procs, Arrive(p), NEW r \in Reqs
  PROVE  Final(r)
<1> USE NoneAssumption
    DEF Begin, InTransaction, Wrote, table, history, None, IInv, TypeOK
<1>1. CASE \E u \in Users : CreateCheck(p, u)
  <2>1. UNCHANGED table /\ UNCHANGED history /\ NoneEnters(r)
    BY <1>1 DEF CreateCheck, NoneEnters, Submitting, Deciding
  <2> QED
    BY <2>1, SameRequestIsFinal DEF SameRequest
<1>2. ASSUME NEW h \in Users, NEW s \in Reqs, SubmitCheck(p, h, s) PROVE Final(r)
  <2>1. /\ UNCHANGED table /\ UNCHANGED history
        /\ s # r => NoneEnters(r)
    BY <1>2 DEF SubmitCheck, NoneEnters, Submitting, Deciding
  <2>2. s = r => ~Closed(r) /\ ~Decided(r)
    BY <1>2 DEF SubmitCheck, Closed, Decided
  <2> QED
    BY <2>1, <2>2, SameRequestIsFinal DEF SameRequest, Final
<1>3. ASSUME NEW u \in Users, NEW s \in Reqs, DenyCheck(p, u, s) PROVE Final(r)
  <2>1. UNCHANGED table /\ UNCHANGED history
    BY <1>3 DEF DenyCheck
  <2>2. Submitting(r)' \subseteq Submitting(r)
    BY <1>3 DEF DenyCheck, Submitting
  <2>3. s # r => Deciding(r)' \subseteq Deciding(r)
    BY <1>3 DEF DenyCheck, Deciding
  <2>4. s = r => ~Decided(r)
    BY <1>3 DEF DenyCheck, Decided
  <2> QED
    BY <2>1, <2>2, <2>3, <2>4 DEF Final, Closed, Decided
<1> QED
  BY <1>1, <1>2, <1>3 DEF Arrive

LEMMA EnvironmentIsFinal ==
  ASSUME IInv, NEW r \in Reqs,
         \/ \E p \in Procs : Abort(p)
         \/ \E u \in Users : DeleteVault(u)
         \/ \E s \in Reqs : Lapse(s)
         \/ Crash
  PROVE  Final(r)
<1> USE DEF InTransaction, Wrote, table, local, history, IInv, TypeOK
<1>1. ASSUME NEW p \in Procs, Abort(p) PROVE Final(r)
  <2>1. UNCHANGED table /\ UNCHANGED history /\ \A q \in Procs :
           pc'[q] = "idle" \/ (pc'[q] = pc[q] /\ on'[q] = on[q])
    BY <1>1 DEF Abort, Finish
  <2> QED
    BY <2>1, SameRequestIsFinal DEF SameRequest, NoneEnters, Submitting, Deciding
<1>2. ASSUME NEW u \in Users, DeleteVault(u) PROVE Final(r)
  <2>1. NoneEnters(r)
    BY <1>2 DEF DeleteVault, NoneEnters, Submitting, Deciding
  <2> QED
    BY <1>2, <2>1 DEF DeleteVault, Final, Closed, Decided, NoneEnters
<1>3. ASSUME NEW s \in Reqs, Lapse(s) PROVE Final(r)
  <2>1. NoneEnters(r)
    BY <1>3 DEF Lapse, NoneEnters, Submitting, Deciding
  <2> QED
    BY <1>3, <2>1 DEF Lapse, Final, Closed, Decided, NoneEnters
<1>4. CASE Crash
  BY <1>4, SameRequestIsFinal DEF Crash, SameRequest, NoneEnters, Submitting, Deciding
<1> QED
  BY <1>1, <1>2, <1>3, <1>4

\* A request that is decided or lapsed takes no further submission, and each
\* later change of it uses up a handler that was past its check before, for any
\* number of requests and handlers.
THEOREM ClosedIsFinal == Spec => ClosedStaysClosed
<1>1. ASSUME IInv, [Next]_vars, NEW r \in Reqs PROVE Final(r)
  <2>1. ASSUME NEW p \in Procs, Step(p) PROVE Final(r)
    BY <1>1, <2>1, OwnStepIsFinal, StepTouchesOwnRequest, SameRequestIsFinal
  <2>2. ASSUME NEW p \in Procs, Arrive(p) PROVE Final(r)
    BY <1>1, <2>2, ArrivalIsFinal
  <2>3. CASE UNCHANGED vars
    BY <2>3, SameRequestIsFinal
       DEF vars, table, local, history, SameRequest, NoneEnters, Submitting, Deciding
  <2> QED
    BY <1>1, <2>1, <2>2, <2>3, EnvironmentIsFinal DEF Next
<1>2. ASSUME IInv, [Next]_vars
      PROVE  [\A r \in Reqs :
                /\ Closed(r) =>
                     /\ Closed(r)' /\ Submitting(r)' \subseteq Submitting(r)
                     /\ \/ subs'[r] \subseteq subs[r] /\ released'[r] = released[r]
                        \/ Submitting(r)' # Submitting(r)
                /\ Decided(r) =>
                     /\ Decided(r)' /\ Deciding(r)' \subseteq Deciding(r)
                     /\ status'[r] \in {status[r], None} \/ Deciding(r)' # Deciding(r)]_vars
  BY <1>1, <1>2 DEF Final
<1> QED
  BY <1>2, Invariance, PTL DEF Spec, ClosedStaysClosed

----------------------------------------------------------------------------
(* Handlers that are Apart: each call is an atomic step of AccessPromise. *)

\* What a handler has read is still so when it writes.  This holds as long as
\* handlers are Apart.
ReadIsCurrent(p) ==
    /\ pc[p] = "create" =>
          /\ released[on[p]] = {}
          /\ \A r \in Reqs : requester[r] = by[p] => status[r] # "PENDING" \/ lapsed[r]
    /\ vaultUp /\ pc[p] \in {"checked", "deny"} => status[on[p]] = "PENDING"
    /\ pc[p] \in Wrote => vaultUp /\ status[on[p]] = "PENDING"
    /\ pc[p] \in {"counted", "approved", "purged"} => seen[p] = subs[on[p]] \cup {by[p]}
    /\ pc[p] = "purged" => gone[p] = seen[p]

ReadsAreCurrent == \A p \in Procs : ReadIsCurrent(p)

SameSlot(q) ==
    /\ pc'[q] = pc[q] /\ on'[q] = on[q] /\ by'[q] = by[q]
    /\ seen'[q] = seen[q] /\ gone'[q] = gone[q]

\* The request itself, as far as a handler has read it.
SameRow(r) == status'[r] = status[r] /\ subs'[r] = subs[r] /\ released'[r] = released[r]

\* What a handler has read stays true if its request does not change and no
\* request of its caller becomes active.
LEMMA ReadStaysCurrent ==
  ASSUME NEW q \in Procs, ReadIsCurrent(q), SameSlot(q), SameRow(on[q]), UNCHANGED vaultUp,
         pc[q] = "create" => \A r \in Reqs :
            requester'[r] = by[q] /\ status'[r] = "PENDING" /\ ~lapsed'[r] =>
               requester[r] = by[q] /\ status[r] = "PENDING" /\ ~lapsed[r]
  PROVE  ReadIsCurrent(q)'
<1> USE DEF ReadIsCurrent, SameSlot, SameRow
<1>1. pc'[q] = "create" => /\ released'[on'[q]] = {}
                           /\ \A r \in Reqs : requester'[r] = by'[q] => status'[r] # "PENDING" \/ lapsed'[r]
  OBVIOUS
<1>2. /\ vaultUp' /\ pc'[q] \in {"checked", "deny"} => status'[on'[q]] = "PENDING"
      /\ pc'[q] \in Wrote => vaultUp' /\ status'[on'[q]] = "PENDING"
  BY DEF Wrote
<1>3. /\ pc'[q] \in {"counted", "approved", "purged"} => seen'[q] = subs'[on'[q]] \cup {by'[q]}
      /\ pc'[q] = "purged" => gone'[q] = seen'[q]
  OBVIOUS
<1> QED
  BY <1>1, <1>2, <1>3, Wrote' = Wrote DEF Wrote

\* A step of one handler spoils what no other handler has read.
LEMMA OthersReadOn ==
  ASSUME IInv, ReadsAreCurrent, Apart, NEW p \in Procs, NEW q \in Procs \ {p},
         Arrive(p) \/ Step(p) \/ Abort(p)
  PROVE  ReadIsCurrent(q)'
<1> USE DEF IInv, TypeOK, table, local, history
<1>1. SameSlot(q) /\ UNCHANGED vaultUp /\ ReadIsCurrent(q)
  BY DEF SameSlot, ReadsAreCurrent, Arrive, CreateCheck, SubmitCheck, DenyCheck, Begin, Abort,
         Step, Submit, CreateInsert, Upsert, CountShares, CommitPending, Approve, Purge,
         CommitRelease, Notify, DenyWrite, Goto, Finish
<1>2. CASE UNCHANGED <<status, requester, lapsed, subs, released>>
  BY <1>1, <1>2, ReadStaysCurrent DEF SameRow
<1>3. CASE CreateInsert(p) /\ vaultUp
  <2>1. /\ on[p] \in Reqs /\ status[on[p]] = None /\ UNCHANGED <<lapsed, subs, released>>
        /\ status' = [status EXCEPT ![on[p]] = "PENDING"]
        /\ requester' = [requester EXCEPT ![on[p]] = by[p]]
        /\ pc[p] = "create"
    BY <1>3 DEF CreateInsert, Placed, RowsExist
  <2>2. CASE pc[q] = "create"
    <3>1. by[q] # by[p] /\ on[q] # on[p]
      BY <2>1, <2>2 DEF Apart, RowsExist
    <3>2. \A r \in Reqs : requester'[r] = by[q] => r # on[p]
      BY <2>1, <3>1
    <3> QED
      BY <1>1, <2>1, <3>1, <3>2, ReadStaysCurrent DEF SameRow
  <2>3. CASE pc[q] \in InTransaction \cup {"deny"}
    <3>1. on[q] # on[p] /\ pc[q] # "create"
      BY <1>3, <2>1, <2>3 DEF RowsExist, InTransaction, Wrote
    <3> QED
      BY <1>1, <2>1, <3>1, ReadStaysCurrent DEF SameRow
  <2>4. CASE pc[q] \in {"idle", "notify"}
    BY <1>1, <2>4 DEF SameSlot, ReadIsCurrent, Wrote
  <2> QED
    BY <2>2, <2>3, <2>4 DEF Labels
<1>4. CASE CommitPending(p) \/ CommitRelease(p) \/ (DenyWrite(p) /\ vaultUp)
  <2>1. /\ on[p] \in Reqs /\ vaultUp /\ UNCHANGED <<requester, lapsed>>
        /\ \A r \in Reqs \ {on[p]} : SameRow(r)
        /\ \A r \in Reqs : status'[r] = "PENDING" => status[r] = "PENDING"
        /\ pc[p] \in InTransaction \cup {"deny"} /\ status[on[p]] # None
    <3>1. /\ pc[p] \in InTransaction \cup {"deny"} /\ on[p] \in Reqs /\ vaultUp
          /\ UNCHANGED <<requester, lapsed>>
      BY <1>4 DEF CommitPending, CommitRelease, DenyWrite, Placed, NothingOutlivesVault,
                  InTransaction, Wrote
    <3>2. status[on[p]] # None
      BY <3>1 DEF RowsExist
    <3>3. \A r \in Reqs \ {on[p]} : SameRow(r)
      BY <1>4 DEF CommitPending, CommitRelease, DenyWrite, SameRow
    <3>4. \A r \in Reqs : status'[r] = "PENDING" => status[r] = "PENDING"
      BY <1>4 DEF CommitPending, CommitRelease, DenyWrite
    <3> QED
      BY <3>1, <3>2, <3>3, <3>4
  <2>2. CASE pc[q] \in {"create", "deny"} \cup InTransaction
    <3>1. on[q] # on[p] /\ on[q] \in Reqs
      BY <2>1, <2>2 DEF Apart, RowsExist, Placed, InTransaction, Wrote
    <3> QED
      BY <1>1, <2>1, <3>1, ReadStaysCurrent
  <2>3. CASE pc[q] \in {"idle", "notify"}
    BY <1>1, <2>3 DEF SameSlot, ReadIsCurrent, Wrote
  <2> QED
    BY <2>2, <2>3 DEF Labels
<1>5. CASE Arrive(p) \/ Abort(p)
  BY <1>2, <1>5 DEF Arrive, CreateCheck, SubmitCheck, DenyCheck, Abort
<1>6. CASE Upsert(p) \/ CountShares(p) \/ Approve(p) \/ Purge(p) \/ Notify(p)
  BY <1>2, <1>6 DEF Upsert, CountShares, Approve, Purge, Notify
<1>7. CASE (CreateInsert(p) \/ DenyWrite(p)) /\ ~vaultUp
  BY <1>2, <1>7 DEF CreateInsert, DenyWrite
<1> HIDE DEF IInv, TypeOK, table, local, history
<1>8. \/ Arrive(p) \/ Abort(p)
      \/ Upsert(p) \/ CountShares(p) \/ Approve(p) \/ Purge(p) \/ Notify(p)
      \/ CommitPending(p) \/ CommitRelease(p) \/ CreateInsert(p) \/ DenyWrite(p)
  BY DEF Step, Submit
<1> QED
  BY <1>3, <1>4, <1>5, <1>6, <1>7, <1>8

\* A step of a handler finds what the handler has read, and is a step of the
\* call it stands for.
LEMMA ApartStep ==
  ASSUME IInv, ReadsAreCurrent, NEW p \in Procs, Arrive(p) \/ Step(p) \/ Abort(p)
  PROVE  ReadIsCurrent(p)' /\ [Serial!Next]_(Serial!vars)
<1> USE DEF IInv, TypeOK, table, local, history
<1> ReadIsCurrent(p)
  BY DEF ReadsAreCurrent
<1> DEFINE Same == UNCHANGED <<status, requester, lapsed, subs, released>>
<1>0. ASSUME Same PROVE [Serial!Next]_(Serial!vars)
  BY <1>0 DEF Serial!vars
<1>1. ASSUME pc'[p] \in {"idle", "notify"} PROVE ReadIsCurrent(p)'
  BY <1>1 DEF ReadIsCurrent, Wrote
<1>2. CASE Arrive(p)
  <2>1. Same /\ UNCHANGED vaultUp
    BY <1>2 DEF Arrive, CreateCheck, SubmitCheck, DenyCheck
  <2>2. ASSUME NEW u \in Users, CreateCheck(p, u) PROVE ReadIsCurrent(p)'
    <3>1. PICK r \in Reqs : released[r] = {} /\ Begin(p, "create", u, r)
      BY <2>2 DEF CreateCheck
    <3>2. pc'[p] = "create" /\ on'[p] = r /\ by'[p] = u
      BY <3>1 DEF Begin
    <3>3. \A x \in Reqs : requester[x] = u => status[x] # "PENDING" \/ lapsed[x]
      BY <2>2 DEF CreateCheck, Active
    <3> QED
      BY <2>1, <3>1, <3>2, <3>3 DEF ReadIsCurrent, Wrote
  <2>3. ASSUME NEW h \in Users, NEW r \in Reqs, SubmitCheck(p, h, r) PROVE ReadIsCurrent(p)'
    <3>1. pc'[p] = "checked" /\ on'[p] = r /\ status[r] = "PENDING"
      BY <2>3 DEF SubmitCheck, Begin
    <3> QED
      BY <2>1, <3>1 DEF ReadIsCurrent, Wrote
  <2>4. ASSUME NEW u \in Users, NEW r \in Reqs, DenyCheck(p, u, r) PROVE ReadIsCurrent(p)'
    <3>1. pc'[p] = "deny" /\ on'[p] = r /\ status[r] = "PENDING"
      BY <2>4 DEF DenyCheck, Begin
    <3> QED
      BY <2>1, <3>1 DEF ReadIsCurrent, Wrote
  <2> QED
    BY <1>0, <1>2, <2>1, <2>2, <2>3, <2>4 DEF Arrive
<1>3. CASE CreateInsert(p)
  <2>1. pc'[p] = "idle" /\ on[p] \in Reqs /\ by[p] \in Users
    BY <1>3 DEF CreateInsert, Finish, Placed
  <2>2. CASE vaultUp
    <3>1. Serial!Ask(by[p], on[p])
      BY <1>3, <2>1, <2>2 DEF CreateInsert, Serial!Ask, ReadIsCurrent, RowsExist, None
    <3> QED
      BY <1>1, <2>1, <3>1 DEF Serial!Next
  <2>3. CASE ~vaultUp
    BY <1>0, <1>1, <1>3, <2>1, <2>3 DEF CreateInsert
  <2> QED
    BY <2>2, <2>3
<1>4. CASE Upsert(p)
  <2>1. Same /\ UNCHANGED vaultUp
    BY <1>4 DEF Upsert
  <2>2. ReadIsCurrent(p)'
    BY <1>1, <1>4, <2>1 DEF Upsert, Goto, Finish, ReadIsCurrent, Wrote
  <2> QED
    BY <1>0, <2>1, <2>2
<1>5. CASE CountShares(p)
  <2>1. Same /\ UNCHANGED <<vaultUp, on, by, gone>>
    BY <1>5 DEF CountShares
  <2>2. pc'[p] = "counted" /\ seen'[p] = subs[on[p]] \cup {by[p]} /\ pc[p] = "wrote"
    BY <1>5 DEF CountShares, Goto
  <2>3. ReadIsCurrent(p)'
    BY <2>1, <2>2 DEF ReadIsCurrent, Wrote
  <2> QED
    BY <1>0, <2>1, <2>3
<1>6. CASE CommitPending(p)
  <2>1. /\ pc'[p] = "idle" /\ on[p] \in Reqs /\ by[p] \in Holders
        /\ status[on[p]] = "PENDING" /\ seen[p] = subs[on[p]] \cup {by[p]}
    BY <1>6 DEF CommitPending, Finish, Placed, InTransaction, Wrote, ReadIsCurrent
  <2>2. ~(Cardinality(seen[p]) >= Threshold)
    BY <1>6 DEF CommitPending, QuorumSeen
  <2>3. Serial!Contribute(by[p], on[p])
    <3>1. /\ subs' = [subs EXCEPT ![on[p]] = @ \cup {by[p]}]
          /\ UNCHANGED <<status, requester, lapsed, released>>
      BY <1>6 DEF CommitPending
    <3>2. ~(Cardinality(subs[on[p]] \cup {by[p]}) >= Threshold)
      BY <2>1, <2>2
    <3> QED
      BY <2>1, <3>1, <3>2 DEF Serial!Contribute
  <2> QED
    BY <1>1, <2>1, <2>3 DEF Serial!Next
<1>7. CASE Approve(p)
  <2>1. Same /\ UNCHANGED <<vaultUp, on, by, seen, gone>> /\ pc[p] = "counted" /\ pc'[p] = "approved"
    BY <1>7 DEF Approve, Goto
  <2>2. ReadIsCurrent(p)'
    BY <2>1 DEF ReadIsCurrent, Wrote
  <2> QED
    BY <1>0, <2>1, <2>2
<1>8. CASE Purge(p)
  <2>1. /\ Same /\ UNCHANGED <<vaultUp, on, by, seen>> /\ pc[p] = "approved" /\ pc'[p] = "purged"
        /\ gone'[p] = subs[on[p]] \cup {by[p]}
    BY <1>8 DEF Purge, Goto
  <2>2. ReadIsCurrent(p)'
    BY <2>1 DEF ReadIsCurrent, Wrote
  <2> QED
    BY <1>0, <2>1, <2>2
<1>9. CASE CommitRelease(p)
  <2>1. /\ pc'[p] = "notify" /\ on[p] \in Reqs /\ by[p] \in Holders
        /\ status[on[p]] = "PENDING"
        /\ seen[p] = subs[on[p]] \cup {by[p]} /\ gone[p] = seen[p]
    BY <1>9 DEF CommitRelease, Goto, Placed, InTransaction, Wrote, ReadIsCurrent
  <2>2. Cardinality(seen[p]) >= Threshold
    BY <1>9 DEF CommitRelease, Accounted, QuorumSeen
  <2>3. subs' = [subs EXCEPT ![on[p]] = {}]
    BY <1>9, <2>1 DEF CommitRelease
  <2>4. Serial!Complete(by[p], on[p])
    <3>1. /\ status' = [status EXCEPT ![on[p]] = "APPROVED"]
          /\ released' = [released EXCEPT ![on[p]] = @ \cup {subs[on[p]] \cup {by[p]}}]
          /\ UNCHANGED <<requester, lapsed>>
      BY <1>9, <2>1 DEF CommitRelease
    <3>2. subs[on[p]] \cup {by[p]} \subseteq Holders /\ Cardinality(subs[on[p]] \cup {by[p]}) >= Threshold
      BY <2>1, <2>2
    <3> QED
      BY <2>1, <2>3, <3>1, <3>2 DEF Serial!Complete
  <2> QED
    BY <1>1, <2>1, <2>4 DEF Serial!Next
<1>10. CASE Notify(p) \/ Abort(p)
  <2>1. Same /\ pc'[p] = "idle"
    BY <1>10 DEF Notify, Abort, Finish
  <2> QED
    BY <1>0, <1>1, <2>1
<1>11. CASE DenyWrite(p)
  <2>1. pc'[p] = "idle" /\ on[p] \in Reqs
    BY <1>11 DEF DenyWrite, Finish, Placed
  <2>2. CASE vaultUp
    <3>1. Serial!Refuse(on[p])
      BY <1>11, <2>1, <2>2 DEF DenyWrite, Serial!Refuse, ReadIsCurrent
    <3> QED
      BY <1>1, <2>1, <3>1 DEF Serial!Next
  <2>3. CASE ~vaultUp
    BY <1>0, <1>1, <1>11, <2>1, <2>3 DEF DenyWrite
  <2> QED
    BY <2>2, <2>3
<1> QED
  BY <1>2, <1>3, <1>4, <1>5, <1>6, <1>7, <1>8, <1>9, <1>10, <1>11 DEF Step, Submit

\* So do the steps of the environment.
LEMMA ApartEnvironment ==
  ASSUME IInv, ReadsAreCurrent,
         (\E u \in Users : DeleteVault(u)) \/ (\E r \in Reqs : Lapse(r)) \/ Crash
  PROVE  ReadsAreCurrent' /\ [Serial!Next]_(Serial!vars)
<1> USE DEF IInv, TypeOK, table, local, history
<1>1. CASE \E u \in Users : DeleteVault(u)
  <2>1. Serial!Vanish
    BY <1>1 DEF DeleteVault, Serial!Vanish, None
  <2>2. \A r \in Reqs : status'[r] # "PENDING"
    BY <1>1 DEF DeleteVault, None
  <2>3. ReadsAreCurrent'
    BY <1>1, <2>2 DEF DeleteVault, ReadsAreCurrent, ReadIsCurrent, Wrote
  <2> QED
    BY <2>1, <2>3 DEF Serial!Next
<1>2. ASSUME NEW r \in Reqs, Lapse(r) PROVE ReadsAreCurrent' /\ [Serial!Next]_(Serial!vars)
  <2>1. Serial!Lapse(r)
    BY <1>2 DEF Lapse, Active, Serial!Lapse
  <2>2. \A s \in Reqs : lapsed[s] => lapsed'[s]
    BY <1>2 DEF Lapse
  <2>3. ReadsAreCurrent'
    BY <1>2, <2>2 DEF Lapse, ReadsAreCurrent, ReadIsCurrent, Wrote
  <2> QED
    BY <2>1, <2>3 DEF Serial!Next
<1>3. CASE Crash
  BY <1>3 DEF Crash, ReadsAreCurrent, ReadIsCurrent, Wrote, Serial!vars
<1> QED
  BY <1>1, <1>2, <1>3

\* For any k, holders, requests and number of handlers: as long as calls for one
\* request do not overlap, the statements of the handlers implement the atomic
\* calls, whatever is rolled back and wherever the process stops
\* (createAccessRequest, submitShare, denyAccessRequest, deleteVault).
THEOREM ApartIsSerial == Spec /\ []Apart => Serial!Spec
<1>1. Init => Serial!Init /\ ReadsAreCurrent
  BY DEF Init, Serial!Init, ReadsAreCurrent, ReadIsCurrent, Wrote, None
<1>2. IInv /\ Apart /\ ReadsAreCurrent /\ [Next]_vars
        => ReadsAreCurrent' /\ [Serial!Next]_(Serial!vars)
  <2>1. CASE UNCHANGED vars
    BY <2>1 DEF vars, table, local, history, ReadsAreCurrent, ReadIsCurrent, Wrote, Serial!vars
  <2>2. ASSUME IInv, Apart, ReadsAreCurrent, NEW p \in Procs, Arrive(p) \/ Step(p) \/ Abort(p)
        PROVE  ReadsAreCurrent' /\ [Serial!Next]_(Serial!vars)
    BY <2>2, ApartStep, OthersReadOn DEF ReadsAreCurrent
  <2> QED
    BY <2>1, <2>2, ApartEnvironment DEF Next
<1> QED
  BY <1>1, <1>2, Invariance, PTL DEF Spec, Serial!Spec

\* One handler slot is the simplest way to keep the calls apart.
THEOREM OneAtATime ==
  ASSUME NEW p, Procs = {p}
  PROVE  Spec => Serial!Spec
<1>1. Apart
  BY DEF Apart
<1> QED
  BY <1>1, ApartIsSerial, PTL

Kept == INSTANCE AccessPromiseProofs WITH
    Users <- Users, Holders <- Holders, Reqs <- Reqs, NoUser <- None,
    Quorums <- {S \in SUBSET Holders : Cardinality(S) >= Threshold},
    status <- status, requester <- requester, lapsed <- lapsed,
    subs <- subs, released <- released

\* Then the two promises of the documents hold that overlapping calls break: the
\* shares of an approved request are gone, and k shares are never left waiting.
THEOREM ApartKeepsPromise ==
  Spec /\ []Apart => [](PurgedOnApproval /\ QuorumIsApproved)
<1>1. Kept!PromiseAssumption
  <2>1. Cardinality({}) = 0
    BY FS_EmptySet
  <2> QED
    BY <2>1, HoldersAssumption, NoneAssumption, ThresholdAssumption
       DEF Kept!PromiseAssumption, None
<1>2. Kept!Spec => []Kept!Promise
  BY <1>1, Kept!PromiseKept
<1>3. Serial!Spec => Kept!Spec
  <2>1. Serial!Init => Kept!Init
    BY DEF Serial!Init, Kept!Init
  <2>2. [Serial!Next]_(Serial!vars) => [Kept!Next]_(Kept!vars)
    BY DEF Serial!Next, Kept!Next, Serial!vars, Kept!vars, Serial!Ask, Kept!Ask,
           Serial!Contribute, Kept!Contribute, Serial!Complete, Kept!Complete,
           Serial!Refuse, Kept!Refuse, Serial!Lapse, Kept!Lapse, Serial!Vanish, Kept!Vanish
  <2> QED
    BY <2>1, <2>2, PTL DEF Serial!Spec, Kept!Spec
<1>4. TypeOK /\ Kept!Promise => PurgedOnApproval /\ QuorumIsApproved
  <2> SUFFICES ASSUME TypeOK, Kept!Promise PROVE PurgedOnApproval /\ QuorumIsApproved
    OBVIOUS
  <2>1. ASSUME NEW r \in Reqs, status[r] = "PENDING" PROVE Cardinality(subs[r]) < Threshold
    <3>1. subs[r] \subseteq Holders /\ ~(Cardinality(subs[r]) >= Threshold)
      BY <2>1 DEF TypeOK, Kept!Promise
    <3>2. Cardinality(subs[r]) \in Nat
      BY <3>1, HoldersAssumption, FS_Subset, FS_CardinalityType
    <3> QED
      BY <3>1, <3>2, ThresholdAssumption
  <2> QED
    BY <2>1 DEF Kept!Promise, PurgedOnApproval, QuorumIsApproved
<1> QED
  BY <1>2, <1>3, <1>4, ApartIsSerial, TypeCorrect, PTL

----------------------------------------------------------------------------
(* From the secret to its reader (VaultSecret) *)

Total == Cardinality(Holders)

\* What the scheme computes, for the shares of one split: any k or more of
\* them, in any order, combine to the secret (for up to 255 holders).  A fact
\* about sssplit and sscombine only, which no request enters into.
SchemeRecovers ==
    \A coeffs \in [1 .. Threshold -> Byte], m \in Nat :
        \A f \in [1 .. m -> 1 .. Total] :
            m >= Threshold /\ (\A i, j \in 1 .. m : f[i] = f[j] => i = j)
            => sscombine([i \in 1 .. m |->
                  [index |-> f[i], share |-> sssplit(coeffs, Total)[f[i]]]]) = coeffs[1]

\* A request that is not there has no shares, and one that is to be inserted
\* has had no payload.
Untouched ==
    /\ \A r \in Reqs : status[r] = None => subs[r] = {}
    /\ \A p \in Procs : pc[p] = "create" => released[on[p]] = {}

\* Every variable of VaultSecret is of its shape.
Shaped ==
    /\ split \in Splits \cup {<<>>}
    /\ since \in [Reqs -> SUBSET Splits]
    /\ dto = [p \in Procs |-> dto[p]]
    /\ share = [r \in Reqs |-> [u \in Users |-> share[r][u]]]
    /\ read = [p \in Procs |-> [u \in Users |-> read[p][u]]]

\* What is at rest, on its way to the table or read from it is the share that
\* its holder got from a split which the vault had while the request was open.
AtRest ==
    \A r \in Reqs : \A h \in subs[r] : \E c \in since[r] : share[r][h] = ShareOf(c, h)

InHand ==
    \A p \in Procs : pc[p] \in InTransaction =>
        \E c \in since[on[p]] : dto[p] = ShareOf(c, by[p])

Reading == {"counted", "approved", "purged", "notify"}

InPayload ==
    \A p \in Procs : pc[p] \in Reading =>
        \A h \in seen[p] : \E c \in since[on[p]] : read[p][h] = ShareOf(c, h)

SInv == IInv /\ Untouched /\ Shaped /\ AtRest /\ InHand /\ InPayload

LEMMA IndicesGiven ==
  \A h \in Holders : /\ ShareIndex[h] \in 1 .. Total
                     /\ \A g \in Holders : ShareIndex[g] = ShareIndex[h] => g = h
<1>1. ExistsBijection(Holders, 1 .. Total)
  <2>1. PICK n \in Nat : ExistsBijection(1 .. n, Holders)
    BY HoldersAssumption, FS_NatBijection
  <2>2. Total = n
    BY <2>1, FS_CountingElements DEF Total
  <2> QED
    BY <2>1, <2>2, Fun_ExistsBijSymmetric
<1> DEFINE Places == {f \in [Holders -> 1 .. Total] : \A g, h \in Holders : f[g] = f[h] => g = h}
           place == CHOOSE f \in [Holders -> 1 .. Total] : \A g, h \in Holders : f[g] = f[h] => g = h
<1>2. PICK f \in [Holders -> 1 .. Total] : \A g, h \in Holders : f[g] = f[h] => g = h
  BY <1>1 DEF ExistsBijection, Bijection, Injection, IsInjective
<1>3. place \in Places
  BY <1>2
<1>4. \A u \in Users : ShareIndex[u] = IF u \in Holders THEN place[u] ELSE 1
  BY DEF ShareIndex, Total
<1> QED
  BY <1>3, <1>4, HoldersAssumption

LEMMA SecretStepIsStep == SecretNext => [Next]_vars
<1>1. ASSUME NEW p \in Procs, Insert(p) \/ Find(p) \/ Store(p) PROVE Next
  BY <1>1 DEF Insert, Find, Store, Next, Step, Submit
<1>2. ASSUME NEW p \in Procs, NEW h \in Users, NEW r \in Reqs, Bring(p, h, r) PROVE Next
  BY <1>2 DEF Bring, Next, Arrive
<1>3. ASSUME NEW u \in Users, Cascade(u) PROVE Next
  BY <1>3 DEF Cascade, Next
<1>4. ASSUME Rest PROVE Next
  BY <1>4 DEF Rest, Next, Arrive, Step, Submit
<1> QED
  BY <1>1, <1>2, <1>3, <1>4 DEF SecretNext, Live, createVault, finalizeRotation

LEMMA UntouchedStays == IInv /\ Untouched /\ [Next]_vars => Untouched'
<1> SUFFICES ASSUME IInv, Untouched, [Next]_vars PROVE Untouched'
  OBVIOUS
<1> USE NoneAssumption DEF Untouched, InTransaction, Wrote, table, local, history, None
<1>1. ASSUME NEW p \in Procs, Arrive(p) PROVE Untouched'
  BY <1>1 DEF Arrive, CreateCheck, SubmitCheck, DenyCheck, Begin, IInv, TypeOK
<1>2. ASSUME NEW p \in Procs, CommitPending(p) \/ CommitRelease(p) PROVE Untouched'
  <2>1. /\ on[p] \in Reqs /\ vaultUp /\ status[on[p]] # None
        /\ \A q \in Procs : pc[q] = "create" => on[q] # on[p] /\ q # p
    BY <1>2 DEF CommitPending, CommitRelease, IInv, Placed, RowsExist, NothingOutlivesVault
  <2>2. /\ \A r \in Reqs : r # on[p] =>
              status'[r] = status[r] /\ subs'[r] = subs[r] /\ released'[r] = released[r]
        /\ status'[on[p]] # None
        /\ \A q \in Procs : pc'[q] = "create" => pc[q] = "create" /\ on'[q] = on[q]
    BY <1>2, <2>1 DEF CommitPending, CommitRelease, Finish, Goto, IInv, TypeOK
  <2>3. \A q \in Procs : pc[q] = "create" => on[q] \in Reqs
    BY DEF IInv, Placed
  <2> QED
    BY <2>1, <2>2, <2>3
<1>3. ASSUME NEW p \in Procs, CreateInsert(p) \/ DenyWrite(p) PROVE Untouched'
  <2>1. /\ on[p] \in Reqs /\ subs' = subs /\ released' = released
        /\ \A r \in Reqs : status'[r] = None => status[r] = None
        /\ \A q \in Procs : pc'[q] = "create" => pc[q] = "create" /\ on'[q] = on[q]
    BY <1>3 DEF CreateInsert, DenyWrite, Finish, IInv, TypeOK, Placed
  <2> QED
    BY <2>1
<1>4. ASSUME NEW p \in Procs,
             Upsert(p) \/ CountShares(p) \/ Approve(p) \/ Purge(p) \/ Notify(p) \/ Abort(p)
      PROVE  Untouched'
  <2>1. /\ subs' = subs /\ released' = released /\ status' = status
        /\ \A q \in Procs : pc'[q] = "create" => pc[q] = "create" /\ on'[q] = on[q]
    BY <1>4 DEF Upsert, CountShares, Approve, Purge, Notify, Abort, Finish, Goto, IInv, TypeOK
  <2> QED
    BY <2>1
<1>5. ASSUME NEW u \in Users, DeleteVault(u) PROVE Untouched'
  BY <1>5 DEF DeleteVault
<1>6. ASSUME NEW r \in Reqs, Lapse(r) PROVE Untouched'
  BY <1>6 DEF Lapse
<1>7. CASE Crash
  BY <1>7 DEF Crash
<1>8. CASE UNCHANGED vars
  BY <1>8 DEF vars
<1> QED
  BY <1>1, <1>2, <1>3, <1>4, <1>5, <1>6, <1>7, <1>8 DEF Next, Step, Submit

\* A step that neither stores a share, nor brings one, nor reads any.
LEMMA NothingNew ==
  ASSUME AtRest, InHand, InPayload,
         \A r \in Reqs : since[r] \subseteq since'[r],
         \A r \in Reqs : \A h \in subs'[r] : h \in subs[r] /\ share'[r][h] = share[r][h],
         \A p \in Procs : pc'[p] \in InTransaction =>
             /\ pc[p] \in InTransaction /\ on[p] \in Reqs
             /\ on'[p] = on[p] /\ by'[p] = by[p] /\ dto'[p] = dto[p],
         \A p \in Procs : pc'[p] \in Reading =>
             /\ pc[p] \in Reading /\ on[p] \in Reqs
             /\ on'[p] = on[p] /\ seen'[p] = seen[p] /\ read'[p] = read[p]
  PROVE  AtRest' /\ InHand' /\ InPayload'
<1>1. AtRest'
  BY DEF AtRest
<1>2. InHand'
  BY DEF InHand
<1>3. InPayload'
  BY DEF InPayload
<1> QED
  BY <1>1, <1>2, <1>3

LEMMA CarryIsShaped ==
  ASSUME NEW brought, NEW found, Carry(brought, found),
         \A p \in Procs : found[p] = [u \in Users |-> found[p][u]]
  PROVE  /\ dto' = [p \in Procs |-> dto'[p]]
         /\ read' = [p \in Procs |-> [u \in Users |-> read'[p][u]]]
         /\ \A p \in Procs : pc'[p] # "idle" => dto'[p] = brought[p] /\ read'[p] = found[p]
BY DEF Carry, NoShares

LEMMA RestKeeps ==
  ASSUME SInv, Rest, UNCHANGED split
  PROVE  Shaped' /\ AtRest' /\ InHand' /\ InPayload'
<1>1. Shaped'
  BY CarryIsShaped DEF SInv, Shaped, Rest
<1>2. \A p \in Procs : pc'[p] # "idle" => dto'[p] = dto[p] /\ read'[p] = read[p]
  BY CarryIsShaped DEF SInv, Shaped, Rest
<1>3. subs' = subs /\ share' = share /\ since' = since
  BY DEF Rest, CreateCheck, DenyCheck, Upsert, Approve, Purge, Notify, DenyWrite, Abort,
         Lapse, Crash, table
<1>4. \A p \in Procs : pc[p] \in InTransaction \cup Reading => on[p] \in Reqs
  BY DEF SInv, IInv, Placed, InTransaction, Wrote, Reading
<1> DEFINE Stays(q) ==
             /\ pc'[q] \in InTransaction =>
                  /\ pc[q] \in InTransaction
                  /\ on'[q] = on[q] /\ by'[q] = by[q]
             /\ pc'[q] \in Reading =>
                  pc[q] \in Reading /\ on'[q] = on[q] /\ seen'[q] = seen[q]
<1>5. ASSUME NEW q \in Procs PROVE Stays(q)
  <2> USE DEF InTransaction, Wrote, Reading, Begin, Goto, Finish, local, SInv, IInv, TypeOK
  <2>1. ASSUME NEW p \in Procs,
               \E u \in Users : CreateCheck(p, u) \/ \E r \in Reqs : DenyCheck(p, u, r)
        PROVE  Stays(q)
    BY <2>1 DEF CreateCheck, DenyCheck
  <2>2. ASSUME NEW p \in Procs, Upsert(p) \/ Approve(p) \/ Purge(p) PROVE Stays(q)
    BY <2>2 DEF Upsert, Approve, Purge
  <2>3. ASSUME NEW p \in Procs, Notify(p) \/ DenyWrite(p) \/ Abort(p) PROVE Stays(q)
    BY <2>3 DEF Notify, DenyWrite, Abort
  <2>4. ASSUME NEW r \in Reqs, Lapse(r) PROVE Stays(q)
    BY <2>4 DEF Lapse
  <2>5. CASE Crash
    BY <2>5 DEF Crash
  <2> QED
    BY <2>1, <2>2, <2>3, <2>4, <2>5 DEF Rest
<1>6. "idle" \notin InTransaction \cup Reading
  BY DEF InTransaction, Wrote, Reading
<1>7. \A q \in Procs :
         /\ pc'[q] \in InTransaction =>
              /\ pc[q] \in InTransaction /\ on[q] \in Reqs
              /\ on'[q] = on[q] /\ by'[q] = by[q] /\ dto'[q] = dto[q]
         /\ pc'[q] \in Reading =>
              /\ pc[q] \in Reading /\ on[q] \in Reqs
              /\ on'[q] = on[q] /\ seen'[q] = seen[q] /\ read'[q] = read[q]
  <2> SUFFICES ASSUME NEW q \in Procs
               PROVE  /\ pc'[q] \in InTransaction =>
                           /\ pc[q] \in InTransaction /\ on[q] \in Reqs
                           /\ on'[q] = on[q] /\ by'[q] = by[q] /\ dto'[q] = dto[q]
                      /\ pc'[q] \in Reading =>
                           /\ pc[q] \in Reading /\ on[q] \in Reqs
                           /\ on'[q] = on[q] /\ seen'[q] = seen[q] /\ read'[q] = read[q]
    OBVIOUS
  <2>1. Stays(q)
    BY <1>5
  <2>2. pc'[q] \in InTransaction \cup Reading => dto'[q] = dto[q] /\ read'[q] = read[q]
    BY <1>2, <1>6
  <2>3. pc[q] \in InTransaction \cup Reading => on[q] \in Reqs
    BY <1>4
  <2> QED
    BY <2>1, <2>2, <2>3
<1>8. AtRest /\ InHand /\ InPayload
  BY DEF SInv
<1> QED
  BY <1>1, <1>3, <1>7, <1>8, NothingNew

\* A request gets the split that the vault has; nothing of it exists before.
LEMMA InsertKeeps ==
  ASSUME SInv, NEW p \in Procs, Insert(p), split # <<>>, UNCHANGED split
  PROVE  Shaped' /\ AtRest' /\ InHand' /\ InPayload'
<1> USE DEF SInv
<1>1. on[p] \in Reqs /\ pc[p] = "create"
  BY DEF Insert, CreateInsert, IInv, Placed
<1>2. Shaped'
  BY <1>1, CarryIsShaped DEF Shaped, Insert
<1>3. \A q \in Procs : pc'[q] # "idle" =>
         /\ dto'[q] = dto[q] /\ read'[q] = read[q]
         /\ pc'[q] = pc[q] /\ on'[q] = on[q] /\ by'[q] = by[q] /\ seen'[q] = seen[q]
  <2>1. \A q \in Procs : pc'[q] # "idle" => dto'[q] = dto[q] /\ read'[q] = read[q]
    BY CarryIsShaped DEF Shaped, Insert
  <2> QED
    BY <2>1 DEF Insert, CreateInsert, Finish, IInv, TypeOK
<1>4. subs' = subs /\ share' = share
  BY DEF Insert, CreateInsert
<1>5. \A r \in Reqs : since'[r] = since[r] \/ (vaultUp /\ r = on[p])
  BY <1>1 DEF Insert, Shaped
<1>6. subs[on[p]] = {} /\ released[on[p]] = {} /\ status[on[p]] = None
  BY <1>1 DEF Untouched, IInv, RowsExist
<1>7. \A q \in Procs : pc[q] \in InTransaction /\ vaultUp => on[q] # on[p]
  BY <1>6 DEF IInv, RowsExist
<1>8. \A q \in Procs : pc[q] = "notify" => on[q] # on[p]
  BY <1>6 DEF IInv, Accounted
<1>9. AtRest'
  BY <1>4, <1>5, <1>6 DEF AtRest
<1>10. \A q \in Procs : pc'[q] \in InTransaction \cup Reading =>
          /\ pc[q] = pc'[q] /\ on[q] \in Reqs /\ since'[on[q]] = since[on[q]]
          /\ on'[q] = on[q] /\ by'[q] = by[q] /\ seen'[q] = seen[q]
          /\ dto'[q] = dto[q] /\ read'[q] = read[q]
  BY <1>3, <1>5, <1>7, <1>8 DEF IInv, Placed, InTransaction, Wrote, Reading
<1>11. InHand'
  BY <1>10 DEF InHand
<1>12. InPayload'
  BY <1>10 DEF InPayload
<1> QED
  BY <1>2, <1>9, <1>11, <1>12

LEMMA BringKeeps ==
  ASSUME SInv, NEW p \in Procs, NEW h \in Users, NEW r \in Reqs, Bring(p, h, r), UNCHANGED split
  PROVE  Shaped' /\ AtRest' /\ InHand' /\ InPayload'
<1> USE DEF SInv
<1>1. PICK c \in since[r] : Carry([dto EXCEPT ![p] = ShareOf(c, h)], read)
  BY DEF Bring
<1>2. Shaped'
  BY <1>1, CarryIsShaped DEF Shaped, Bring
<1>3. /\ dto'[p] = ShareOf(c, h) /\ pc'[p] = "checked" /\ on'[p] = r /\ by'[p] = h
      /\ \A q \in Procs \ {p} : pc'[q] # "idle" =>
            /\ dto'[q] = dto[q] /\ read'[q] = read[q]
            /\ pc'[q] = pc[q] /\ on'[q] = on[q] /\ by'[q] = by[q] /\ seen'[q] = seen[q]
  <2>1. pc'[p] = "checked" /\ on'[p] = r /\ by'[p] = h
    BY DEF Bring, SubmitCheck, Begin, IInv, TypeOK
  <2>2. \A q \in Procs : pc'[q] # "idle" =>
           /\ dto'[q] = [dto EXCEPT ![p] = ShareOf(c, h)][q]
           /\ read'[q] = read[q]
    BY <1>1, CarryIsShaped DEF Shaped
  <2>3. \A q \in Procs \ {p} : [dto EXCEPT ![p] = ShareOf(c, h)][q] = dto[q]
    BY DEF Shaped
  <2>4. [dto EXCEPT ![p] = ShareOf(c, h)][p] = ShareOf(c, h)
    BY DEF Shaped
  <2>5. \A q \in Procs \ {p} : pc'[q] = pc[q] /\ on'[q] = on[q] /\ by'[q] = by[q] /\ seen'[q] = seen[q]
    BY DEF Bring, SubmitCheck, Begin, IInv, TypeOK
  <2> QED
    BY <2>1, <2>2, <2>3, <2>4, <2>5
<1>4. subs' = subs /\ share' = share /\ since' = since
  BY DEF Bring, SubmitCheck, table
<1>5. AtRest'
  BY <1>4 DEF AtRest
<1>6. InHand'
  BY <1>3, <1>4 DEF InHand, InTransaction, Wrote
<1>7. InPayload'
  BY <1>3, <1>4 DEF InPayload, Reading
<1> QED
  BY <1>2, <1>5, <1>6, <1>7

\* What a handler reads is what is at rest, and what it has brought itself.
LEMMA FindKeeps ==
  ASSUME SInv, NEW p \in Procs, Find(p), UNCHANGED split
  PROVE  Shaped' /\ AtRest' /\ InHand' /\ InPayload'
<1> USE DEF SInv
<1> DEFINE found == [share[on[p]] EXCEPT ![by[p]] = dto[p]]
<1>1. /\ on[p] \in Reqs /\ by[p] \in Holders /\ by[p] \in Users
      /\ pc[p] = "wrote" /\ pc[p] \in InTransaction
  BY HoldersAssumption DEF Find, CountShares, IInv, Placed, InTransaction, Wrote
<1>2. /\ found = [u \in Users |-> found[u]]
      /\ \A u \in Users : found[u] = IF u = by[p] THEN dto[p] ELSE share[on[p]][u]
  <2>1. share[on[p]] = [u \in Users |-> share[on[p]][u]]
    <3>1. share = [r \in Reqs |-> [u \in Users |-> share[r][u]]]
      BY DEF Shaped
    <3> HIDE DEF SInv
    <3> QED
      BY <1>1, <3>1
  <2> DEFINE row == share[on[p]]
  <2>2. row = [u \in Users |-> row[u]]
    BY <2>1
  <2> HIDE DEF row
  <2>3. /\ [row EXCEPT ![by[p]] = dto[p]] = [u \in Users |-> [row EXCEPT ![by[p]] = dto[p]][u]]
        /\ \A u \in Users : [row EXCEPT ![by[p]] = dto[p]][u] = IF u = by[p] THEN dto[p] ELSE row[u]
    BY <2>2
  <2> QED
    BY <2>3 DEF row
<1> HIDE DEF found
<1>3. \A q \in Procs : [read EXCEPT ![p] = found][q] = IF q = p THEN found ELSE read[q]
  BY DEF Shaped
<1>4. \A q \in Procs : [read EXCEPT ![p] = found][q] = [u \in Users |-> [read EXCEPT ![p] = found][q][u]]
  <2>1. \A q \in Procs : read[q] = [u \in Users |-> read[q][u]]
    BY DEF Shaped
  <2> SUFFICES ASSUME NEW q \in Procs
               PROVE  [read EXCEPT ![p] = found][q] = [u \in Users |-> [read EXCEPT ![p] = found][q][u]]
    OBVIOUS
  <2> DEFINE it == [read EXCEPT ![p] = found][q]
  <2>2. it = found \/ it = read[q]
    BY <1>3
  <2> HIDE DEF it
  <2>3. it = [u \in Users |-> it[u]]
    <3>1. CASE it = found
      <4>1. \A u \in Users : it[u] = found[u]
        BY <3>1
      <4> QED
        BY <3>1, <4>1, <1>2
    <3>2. CASE it = read[q]
      BY <3>2, <2>1
    <3> QED
      BY <2>2, <3>1, <3>2
  <2> QED
    BY <2>3 DEF it
<1>5. Carry(dto, [read EXCEPT ![p] = found])
  BY DEF Find, found
<1>6. Shaped'
  BY <1>4, <1>5, CarryIsShaped DEF Shaped, Find
<1>7. \A q \in Procs :
         /\ pc'[q] # "idle" => dto'[q] = dto[q] /\ read'[q] = (IF q = p THEN found ELSE read[q])
         /\ on'[q] = on[q] /\ by'[q] = by[q]
         /\ pc'[q] = IF q = p THEN "counted" ELSE pc[q]
         /\ seen'[q] = IF q = p THEN subs[on[p]] \cup {by[p]} ELSE seen[q]
  <2>1. \A q \in Procs : pc'[q] # "idle" => dto'[q] = dto[q] /\ read'[q] = [read EXCEPT ![p] = found][q]
    <3> DEFINE R == [read EXCEPT ![p] = found]
    <3>1. Carry(dto, R) /\ \A q \in Procs : R[q] = [u \in Users |-> R[q][u]]
      BY <1>4, <1>5
    <3> HIDE DEF R
    <3>2. \A q \in Procs : pc'[q] # "idle" => dto'[q] = dto[q] /\ read'[q] = R[q]
      BY <3>1, CarryIsShaped
    <3> QED
      BY <3>2 DEF R
  <2>2. \A q \in Procs :
         /\ on'[q] = on[q] /\ by'[q] = by[q]
         /\ pc'[q] = IF q = p THEN "counted" ELSE pc[q]
         /\ seen'[q] = IF q = p THEN subs[on[p]] \cup {by[p]} ELSE seen[q]
    BY DEF Find, CountShares, Goto, IInv, TypeOK
  <2> QED
    BY <1>3, <2>1, <2>2
<1>8. subs' = subs /\ share' = share /\ since' = since
  BY DEF Find, CountShares, table
<1>9. AtRest'
  BY <1>8 DEF AtRest
<1>10. InHand'
  BY <1>1, <1>7, <1>8 DEF InHand, InTransaction, Wrote
<1>11. InPayload'
  <2> SUFFICES ASSUME NEW q \in Procs, pc'[q] \in Reading, NEW h \in seen'[q]
               PROVE  \E c \in since[on[q]] : read'[q][h] = ShareOf(c, h)
    BY <1>7, <1>8 DEF InPayload
  <2>1. CASE q # p
    BY <2>1, <1>7 DEF InPayload, Reading
  <2>2. CASE q = p
    <3>1. h \in subs[on[p]] \cup {by[p]} /\ h \in Users /\ read'[p] = found
      BY <2>2, <1>1, <1>7, HoldersAssumption DEF Reading, IInv, TypeOK
    <3>2. CASE h = by[p]
      BY <3>1, <3>2, <2>2, <1>1, <1>2 DEF InHand
    <3>3. CASE h # by[p]
      BY <3>1, <3>3, <2>2, <1>1, <1>2 DEF AtRest
    <3> QED
      BY <3>2, <3>3
  <2> QED
    BY <2>1, <2>2
<1> QED
  BY <1>6, <1>9, <1>10, <1>11

\* A commit stores what its handler brought, among what is at rest.
LEMMA StoreKeeps ==
  ASSUME SInv, NEW p \in Procs, Store(p), UNCHANGED split
  PROVE  Shaped' /\ AtRest' /\ InHand' /\ InPayload'
<1> USE DEF SInv
<1>1. on[p] \in Reqs /\ by[p] \in Holders /\ pc[p] \in InTransaction /\ pc[p] \in Reading
  BY DEF Store, CommitPending, CommitRelease, IInv, Placed, InTransaction, Wrote, Reading
<1>2. Shaped'
  <2>1. /\ dto' = [q \in Procs |-> dto'[q]]
        /\ read' = [q \in Procs |-> [u \in Users |-> read'[q][u]]]
    BY CarryIsShaped DEF Shaped, Store
  <2>2. share' = [r \in Reqs |-> [u \in Users |-> share'[r][u]]]
    BY <1>1 DEF Shaped, Store
  <2> QED
    BY <2>1, <2>2 DEF Shaped, Store
<1>3. \A r \in Reqs : \A u \in Users : u \in subs'[r] =>
         share'[r][u] = IF r = on[p] /\ u = by[p] THEN dto[p] ELSE share[r][u]
  BY <1>1 DEF Store, Shaped
<1>4. \A r \in Reqs : subs'[r] \subseteq Users /\
         subs'[r] \subseteq IF r = on[p] THEN subs[r] \cup {by[p]} ELSE subs[r]
  BY <1>1, HoldersAssumption DEF Store, CommitPending, CommitRelease, IInv, TypeOK
<1>5. since' = since
  BY DEF Store
<1>6. AtRest'
  <2> SUFFICES ASSUME NEW r \in Reqs, NEW h \in subs'[r]
               PROVE  \E c \in since[r] : share'[r][h] = ShareOf(c, h)
    BY <1>5 DEF AtRest
  <2>1. CASE r = on[p] /\ h = by[p]
    BY <2>1, <1>1, <1>3, <1>4 DEF InHand
  <2>2. CASE ~(r = on[p] /\ h = by[p])
    BY <2>2, <1>3, <1>4 DEF AtRest
  <2> QED
    BY <2>1, <2>2
<1>7. \A q \in Procs : pc'[q] # "idle" => dto'[q] = dto[q] /\ read'[q] = read[q]
  BY CarryIsShaped DEF Shaped, Store
<1>8. \A q \in Procs : pc'[q] # "idle" =>
         /\ on'[q] = on[q] /\ by'[q] = by[q] /\ seen'[q] = seen[q]
         /\ q # p => pc'[q] = pc[q]
         /\ q = p => pc'[q] = "notify"
  BY DEF Store, CommitPending, CommitRelease, Finish, Goto, local, IInv, TypeOK
<1>9. InHand'
  BY <1>1, <1>5, <1>7, <1>8 DEF InHand, InTransaction, Wrote
<1>10. InPayload'
  BY <1>1, <1>5, <1>7, <1>8 DEF InPayload, Reading
<1> QED
  BY <1>2, <1>6, <1>9, <1>10

\* The vault is created, split again, or deleted.
LEMMA VaultKeeps ==
  ASSUME SInv, createVault \/ finalizeRotation \/ \E u \in Users : Cascade(u) /\ UNCHANGED split
  PROVE  Shaped' /\ AtRest' /\ InHand' /\ InPayload'
<1> USE DEF SInv
<1>1. /\ dto' = dto /\ read' = read /\ split' \in Splits \cup {<<>>}
      /\ pc' = pc /\ on' = on /\ by' = by /\ seen' = seen
      /\ (subs' = subs /\ share' = share) \/ (subs' = [r \in Reqs |-> {}] /\ share' = [r \in Reqs |-> NoShares])
  BY DEF createVault, finalizeRotation, Cascade, DeleteVault, vars, table, local, bytes, Shaped
<1>2. since' \in [Reqs -> SUBSET Splits] /\ \A r \in Reqs : since[r] \subseteq since'[r]
  BY DEF createVault, finalizeRotation, Cascade, Shaped
<1>3. Shaped'
  <2>1. share' = [r \in Reqs |-> [u \in Users |-> share'[r][u]]]
    BY <1>1 DEF Shaped, NoShares
  <2> QED
    BY <1>1, <1>2, <2>1 DEF Shaped
<1>4. \A p \in Procs : pc[p] \in InTransaction \cup Reading => on[p] \in Reqs
  BY DEF IInv, Placed, InTransaction, Wrote, Reading
<1> QED
  BY <1>1, <1>2, <1>3, <1>4, NothingNew

LEMMA SecretInvariance == SecretSpec => []SInv
<1>1. SecretInit => SInv
  <2> SUFFICES ASSUME SecretInit PROVE SInv
    OBVIOUS
  <2>1. IInv
    BY InitInv DEF SecretInit
  <2>2. Untouched /\ AtRest /\ InHand /\ InPayload
    BY DEF SecretInit, Init, Untouched, AtRest, InHand, InPayload, InTransaction, Wrote, Reading
  <2>3. Shaped
    BY DEF SecretInit, Shaped, NoShares
  <2> QED
    BY <2>1, <2>2, <2>3 DEF SInv
<1>2. SInv /\ [SecretNext]_all => SInv'
  <2> SUFFICES ASSUME SInv, [SecretNext]_all PROVE SInv'
    OBVIOUS
  <2>1. [Next]_vars
    BY SecretStepIsStep DEF all
  <2>2. IInv' /\ Untouched'
    BY <2>1, NextInv, UntouchedStays DEF SInv
  <2>3. Shaped' /\ AtRest' /\ InHand' /\ InPayload'
    <3>1. CASE UNCHANGED all
      BY <3>1 DEF all, vars, table, local, bytes, SInv, Shaped, AtRest, InHand, InPayload
    <3>2. CASE Live
      <4>1. CASE Rest
        BY <4>1, <3>2, RestKeeps DEF Live
      <4>2. CASE \E p \in Procs : \/ Insert(p) \/ Find(p) \/ Store(p)
                                  \/ \E h \in Users, r \in Reqs : Bring(p, h, r)
        BY <4>2, <3>2, InsertKeeps, FindKeeps, StoreKeeps, BringKeeps DEF Live
      <4>3. CASE \E u \in Users : Cascade(u)
        BY <4>3, <3>2, VaultKeeps DEF Live
      <4> QED
        BY <3>2, <4>1, <4>2, <4>3 DEF Live
    <3> QED
      BY <3>1, <3>2, VaultKeeps DEF SecretNext
  <2> QED
    BY <2>2, <2>3 DEF SInv
<1> QED
  BY <1>1, <1>2, PTL DEF SecretSpec

\* If the scheme recovers secrets, then whatever handlers overlap, roll back or
\* stop, and whenever rotations replace the rows: a payload that goes out whose
\* shares are all of one split gives the requester what was split.  That every
\* share is of a split which the vault had while the request was open does not
\* rest on the scheme.
THEOREM PayloadsOpen ==
  ASSUME SchemeRecovers
  PROVE  SecretSpec => []PayloadOpens
<1>1. ASSUME SInv, NEW p \in Procs, pc[p] = "notify", NEW c \in since[on[p]],
             \A h \in seen[p] : read[p][h] = ShareOf(c, h), NEW given \in Payloads(p)
      PROVE  sscombine(given) = c[1]
  <2> DEFINE m == Cardinality(seen[p])
  <2>1. m \in Nat /\ m >= Threshold /\ seen[p] \subseteq Holders /\ on[p] \in Reqs
    <3>1. seen[p] \in released[on[p]] /\ seen[p] \subseteq Holders /\ on[p] \in Reqs
      BY <1>1 DEF SInv, IInv, Accounted, TypeOK, Placed
    <3> QED
      BY <1>1, <3>1, HoldersAssumption, FS_Subset, FS_CardinalityType
         DEF SInv, IInv, QuorumGenuine
  <2>2. PICK f \in [1 .. m -> seen[p]] :
          /\ \A i, j \in 1 .. m : f[i] = f[j] => i = j
          /\ given = [n \in 1 .. m |-> [index |-> ShareIndex[f[n]], share |-> read[p][f[n]]]]
    BY <1>1 DEF Payloads
  <2> DEFINE g == [n \in 1 .. m |-> ShareIndex[f[n]]]
  <2>3. g \in [1 .. m -> 1 .. Total] /\ \A i, j \in 1 .. m : g[i] = g[j] => i = j
    <3>1. \A n \in 1 .. m : f[n] \in Holders
      BY <2>1, <2>2
    <3> QED
      BY <2>2, <3>1, IndicesGiven
  <2>4. given = [n \in 1 .. m |-> [index |-> g[n], share |-> sssplit(c, Total)[g[n]]]]
    <3>1. \A n \in 1 .. m : read[p][f[n]] = sssplit(c, Total)[g[n]]
      BY <1>1, <2>2 DEF ShareOf, Total
    <3> QED
      BY <2>2, <3>1
  <2>5. c \in [1 .. Threshold -> Byte]
    <3>1. c \in Splits
      BY <1>1, <2>1 DEF SInv, Shaped
    <3> QED
      BY <3>1, BytesAssumption DEF Splits
  <2> QED
    BY <2>1, <2>3, <2>4, <2>5, SchemeRecovers DEF SchemeRecovers
<1>2. SInv => PayloadOpens
  <2> SUFFICES ASSUME SInv PROVE PayloadOpens
    OBVIOUS
  <2>1. \A p \in Procs : pc[p] = "notify" =>
           \A h \in seen[p] : \E c \in since[on[p]] : read[p][h] = ShareOf(c, h)
    BY DEF SInv, InPayload, Reading
  <2> QED
    BY <1>1, <2>1 DEF PayloadOpens
<1> QED
  BY <1>2, SecretInvariance, PTL

=============================================================================
