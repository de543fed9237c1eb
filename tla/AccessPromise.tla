--------------------------- MODULE AccessPromise ---------------------------
(***************************************************************************)
(* What the access-request flow promises when no two handlers overlap on   *)
(* one request: a call of createAccessRequest, submitShare or              *)
(* denyAccessRequest is one atomic step.  VaultAccess, where the same      *)
(* calls are several database statements, implements this specification as *)
(* long as they are Apart; access_purge and access_quorum show what is     *)
(* lost when they are not.  The requests of VaultRotation implement it too *)
(* (VaultRotationProofs).                                                  *)
(***************************************************************************)
CONSTANTS
    Users, Holders, Reqs,
    NoUser,     \* the requester of a request that has never been made
    Quorums     \* the sets of holders that are enough, those of k or more

PromiseAssumption == Holders \subseteq Users /\ NoUser \notin Users /\ {} \notin Quorums

VARIABLES
    status, requester, lapsed,  \* the AccessRequest row, "none": no row
    subs,                       \* holders with a ShareSubmission row
    released                    \* payloads released so far

vars == <<status, requester, lapsed, subs, released>>

Init ==
    /\ status = [r \in Reqs |-> "none"]
    /\ requester = [r \in Reqs |-> NoUser]
    /\ lapsed = [r \in Reqs |-> FALSE]
    /\ subs = [r \in Reqs |-> {}]
    /\ released = [r \in Reqs |-> {}]

\* A member asks, unless one of his requests is still active.
Ask(u, r) ==
    /\ status[r] = "none" /\ released[r] = {}
    /\ \A s \in Reqs : requester[s] = u => status[s] # "PENDING" \/ lapsed[s]
    /\ status' = [status EXCEPT ![r] = "PENDING"]
    /\ requester' = [requester EXCEPT ![r] = u]
    /\ UNCHANGED <<lapsed, subs, released>>

\* A holder submits and the quorum is not met.
Contribute(h, r) ==
    /\ status[r] = "PENDING"
    /\ subs[r] \cup {h} \notin Quorums
    /\ subs' = [subs EXCEPT ![r] = @ \cup {h}]
    /\ UNCHANGED <<status, requester, lapsed, released>>

\* A holder completes the quorum: approve, purge and release at once.
Complete(h, r) ==
    /\ status[r] = "PENDING"
    /\ subs[r] \cup {h} \in Quorums
    /\ status' = [status EXCEPT ![r] = "APPROVED"]
    /\ subs' = [subs EXCEPT ![r] = {}]
    /\ released' = [released EXCEPT ![r] = @ \cup {subs[r] \cup {h}}]
    /\ UNCHANGED <<requester, lapsed>>

Refuse(r) ==
    /\ status[r] = "PENDING"
    /\ status' = [status EXCEPT ![r] = "DENIED"]
    /\ UNCHANGED <<requester, lapsed, subs, released>>

Lapse(r) ==
    /\ status[r] = "PENDING"
    /\ lapsed' = [lapsed EXCEPT ![r] = TRUE]
    /\ UNCHANGED <<status, requester, subs, released>>

\* The vault is deleted with its requests and submissions.
Vanish ==
    /\ status' = [r \in Reqs |-> "none"]
    /\ subs' = [r \in Reqs |-> {}]
    /\ UNCHANGED <<requester, lapsed, released>>

Next ==
    \/ \E u \in Users, r \in Reqs : Ask(u, r)
    \/ \E h \in Holders, r \in Reqs : Contribute(h, r) \/ Complete(h, r)
    \/ \E r \in Reqs : Refuse(r) \/ Lapse(r)
    \/ Vanish

Spec == Init /\ [][Next]_vars

----------------------------------------------------------------------------

TypeOK ==
    /\ status \in [Reqs -> {"none", "PENDING", "APPROVED", "DENIED"}]
    /\ requester \in [Reqs -> Users \cup {NoUser}]
    /\ lapsed \in [Reqs -> BOOLEAN]
    /\ subs \in [Reqs -> SUBSET Holders]
    /\ released \in [Reqs -> SUBSET SUBSET Holders]

\* A pending request rests on no quorum and has released nothing,
\* an approved one rests on none, and no request releases twice.
Promise ==
    \A r \in Reqs :
        /\ status[r] = "PENDING" =>
              subs[r] \notin Quorums /\ released[r] = {}
        /\ status[r] = "APPROVED" => subs[r] = {}
        /\ \A P, Q \in released[r] : P = Q
        /\ released[r] \subseteq Quorums

=============================================================================
