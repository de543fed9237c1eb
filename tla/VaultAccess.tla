---------------------------- MODULE VaultAccess ----------------------------
(***************************************************************************)
(* The access-request flow of one vault: a member asks to read the secret, *)
(* holders submit their shares, and the handler that counts the k-th share *)
(* approves the request, purges the shares and emits them to the requester *)
(* (server/src/vault/vault.service.ts, createAccessRequest, submitShare,   *)
(* denyAccessRequest, deleteVault).                                        *)
(*                                                                         *)
(* Each HTTP handler is a process that performs one database statement per *)
(* step.  PostgreSQL runs at READ COMMITTED, the default that Prisma       *)
(* leaves in place: a statement sees what is committed when it runs and    *)
(* what its own transaction wrote, a written row stays locked until the    *)
(* transaction ends, and a writer of a locked row waits.                   *)
(***************************************************************************)
EXTENDS Naturals, FiniteSets

CONSTANTS
    Users,      \* members of the workspace
    Holders,    \* users that hold a share of the vault
    Admins,     \* users with role ADMIN or OWNER
    Reqs,       \* identifiers an access request can get
    Procs,      \* slots for handlers that run at the same time
    Threshold   \* k: vault.threshold

ASSUME HoldersAssumption == Holders \subseteq Users /\ IsFiniteSet(Holders)
ASSUME AdminsAssumption == Admins \subseteq Users
ASSUME ThresholdAssumption == Threshold \in Nat \ {0}

None == "none"
ASSUME NoneAssumption == None \notin Users /\ None \notin Reqs

VARIABLES
    vaultUp,    \* the Vault row exists
    status,     \* AccessRequest.status; None: no such row
    requester,  \* AccessRequest.requesterId
    lapsed,     \* AccessRequest.expiresAt has passed
    subs,       \* holders with a committed ShareSubmission row, per request
    pc,         \* where each handler is, "idle" for a free slot
    on, by,     \* the request a handler works on, and its caller
    seen,       \* result of the handler's shareSubmission.findMany
    gone,       \* rows its uncommitted deleteMany removed
    released,   \* history: payloads (sets of holders) committed for release
    consented,  \* history: holders whose submission was committed
    inbox       \* payloads that reached a socket of the requester

table == <<vaultUp, status, requester, lapsed, subs>>
local == <<on, by, seen, gone>>
history == <<released, consented>>
vars == <<table, pc, local, history, inbox>>

Statuses == {None, "PENDING", "APPROVED", "DENIED", "EXPIRED"}

\* Inside submitShare's transaction, after its upsert.
Wrote == {"wrote", "counted", "approved", "purged"}
InTransaction == {"checked"} \cup Wrote
Labels == InTransaction \cup {"idle", "create", "notify", "deny"}

\* An idle slot, in every field.
InitLocal ==
    /\ on = [p \in Procs |-> None]
    /\ by = [p \in Procs |-> None]
    /\ seen = [p \in Procs |-> {}]
    /\ gone = [p \in Procs |-> {}]

Init ==
    /\ vaultUp = TRUE
    /\ status = [r \in Reqs |-> None]
    /\ requester = [r \in Reqs |-> None]
    /\ lapsed = [r \in Reqs |-> FALSE]
    /\ subs = [r \in Reqs |-> {}]
    /\ pc = [p \in Procs |-> "idle"]
    /\ InitLocal
    /\ released = [r \in Reqs |-> {}]
    /\ consented = [r \in Reqs |-> {}]
    /\ inbox = [r \in Reqs |-> {}]

----------------------------------------------------------------------------
(* Handlers and locks *)

Begin(p, label, u, r) ==
    /\ pc[p] = "idle"
    /\ pc' = [pc EXCEPT ![p] = label]
    /\ on' = [on EXCEPT ![p] = r]
    /\ by' = [by EXCEPT ![p] = u]
    /\ UNCHANGED <<seen, gone>>

Goto(p, label) == pc' = [pc EXCEPT ![p] = label]

Finish(p) ==
    /\ pc' = [pc EXCEPT ![p] = "idle"]
    /\ on' = [on EXCEPT ![p] = None]
    /\ by' = [by EXCEPT ![p] = None]
    /\ seen' = [seen EXCEPT ![p] = {}]
    /\ gone' = [gone EXCEPT ![p] = {}]

Others(p) == {q \in Procs \ {p} : on[q] = on[p]}

\* Another transaction has updated the AccessRequest row and is still open.
StatusLocked(p) == \E q \in Others(p) : pc[q] \in {"approved", "purged"}

\* Another open transaction has written or deleted the caller's own
\* (accessRequestId, holderId) row; ON CONFLICT waits for it to end.
OwnRowLocked(p) ==
    \E q \in Others(p) : \/ pc[q] \in Wrote /\ by[q] = by[p]
                         \/ pc[q] = "purged" /\ by[p] \in gone[q]

\* Another open transaction has updated a row that deleteMany would remove.
PurgeBlocked(p) ==
    \E q \in Others(p) : pc[q] \in Wrote /\ by[q] \in subs[on[p]]

Active(r) == status[r] = "PENDING" /\ ~lapsed[r]

----------------------------------------------------------------------------
(* createAccessRequest: look for an active request, then insert. *)

CreateCheck(p, u) ==
    /\ vaultUp
    /\ ~\E r \in Reqs : Active(r) /\ requester[r] = u
    /\ \E r \in Reqs :
         /\ status[r] = None /\ released[r] = {}
         /\ \A q \in Procs : ~(pc[q] = "create" /\ on[q] = r)
         /\ Begin(p, "create", u, r)
    /\ UNCHANGED <<table, history, inbox>>

CreateInsert(p) ==
    /\ pc[p] = "create"
    /\ IF vaultUp
         THEN /\ status' = [status EXCEPT ![on[p]] = "PENDING"]
              /\ requester' = [requester EXCEPT ![on[p]] = by[p]]
         ELSE UNCHANGED <<status, requester>>    \* foreign key violation
    /\ Finish(p)
    /\ UNCHANGED <<vaultUp, lapsed, subs, history, inbox>>

----------------------------------------------------------------------------
(* submitShare, one statement at a time. *)

\* Fault: the caller's VaultShare row is not looked up.
SubmitCheckAnyMember(p, h, r) ==
    /\ vaultUp /\ status[r] = "PENDING" /\ ~lapsed[r]
    /\ Begin(p, "checked", h, r)
    /\ UNCHANGED <<table, history, inbox>>

\* Fault: the status of the request is not looked at.
SubmitCheckAnyStatus(p, h, r) ==
    /\ vaultUp /\ status[r] # None /\ ~lapsed[r] /\ h \in Holders
    /\ Begin(p, "checked", h, r)
    /\ UNCHANGED <<table, history, inbox>>

\* getVault, the request's status and expiry, and the caller's VaultShare.
\* The handler of a lapsed request writes EXPIRED and throws in the same
\* transaction: the write is rolled back and nothing changes.
SubmitCheck(p, h, r) ==
    /\ vaultUp
    /\ status[r] = "PENDING"
    /\ ~lapsed[r]
    /\ h \in Holders
    /\ Begin(p, "checked", h, r)
    /\ UNCHANGED <<table, history, inbox>>

Upsert(p) ==
    /\ pc[p] = "checked"
    /\ IF vaultUp
         THEN ~OwnRowLocked(p) /\ Goto(p, "wrote") /\ UNCHANGED local
         ELSE Finish(p)                          \* foreign key violation
    /\ UNCHANGED <<table, history, inbox>>

CountShares(p) ==
    /\ pc[p] = "wrote"
    /\ seen' = [seen EXCEPT ![p] = subs[on[p]] \cup {by[p]}]
    /\ Goto(p, "counted")
    /\ UNCHANGED <<table, on, by, gone, history, inbox>>

\* Fault: one share short of the quorum is enough.
QuorumSeenOffByOne(p) == Cardinality(seen[p]) >= Threshold - 1

QuorumSeen(p) == Cardinality(seen[p]) >= Threshold

\* return null: the commit publishes the caller's row.
CommitPending(p) ==
    /\ pc[p] = "counted"
    /\ ~QuorumSeen(p)
    /\ subs' = [subs EXCEPT ![on[p]] = @ \cup {by[p]}]
    /\ consented' = [consented EXCEPT ![on[p]] = @ \cup {by[p]}]
    /\ Finish(p)
    /\ UNCHANGED <<vaultUp, status, requester, lapsed, released, inbox>>

\* Fault: the update runs on its own connection, outside the transaction.
ApproveOutsideTransaction(p) ==
    /\ pc[p] = "counted" /\ QuorumSeen(p) /\ ~StatusLocked(p)
    /\ status' = [status EXCEPT ![on[p]] = "APPROVED"]
    /\ Goto(p, "approved")
    /\ UNCHANGED <<vaultUp, requester, lapsed, subs, local, history, inbox>>

\* update status APPROVED: not visible before the commit, but it locks the row.
Approve(p) ==
    /\ pc[p] = "counted"
    /\ QuorumSeen(p)
    /\ ~StatusLocked(p)
    /\ Goto(p, "approved")
    /\ UNCHANGED <<table, local, history, inbox>>

\* deleteMany removes the rows visible now, which may be more than were counted.
Purge(p) ==
    /\ pc[p] = "approved"
    /\ ~PurgeBlocked(p)
    /\ gone' = [gone EXCEPT ![p] = subs[on[p]] \cup {by[p]}]
    /\ Goto(p, "purged")
    /\ UNCHANGED <<table, on, by, seen, history, inbox>>

\* Fault: the rows that were forwarded are kept.
CommitReleaseUnpurged(p) ==
    /\ pc[p] = "purged"
    /\ status' = [status EXCEPT ![on[p]] = "APPROVED"]
    /\ subs' = [subs EXCEPT ![on[p]] = @ \cup {by[p]}]
    /\ consented' = [consented EXCEPT ![on[p]] = @ \cup {by[p]}]
    /\ released' = [released EXCEPT ![on[p]] = @ \cup {seen[p]}]
    /\ Goto(p, "notify")
    /\ UNCHANGED <<vaultUp, requester, lapsed, local, inbox>>

CommitRelease(p) ==
    /\ pc[p] = "purged"
    /\ status' = [status EXCEPT ![on[p]] = "APPROVED"]
    /\ subs' = [subs EXCEPT ![on[p]] = @ \ gone[p]]
    /\ consented' = [consented EXCEPT ![on[p]] = @ \cup {by[p]}]
    /\ released' = [released EXCEPT ![on[p]] = @ \cup {seen[p]}]
    /\ Goto(p, "notify")
    /\ UNCHANGED <<vaultUp, requester, lapsed, local, inbox>>

\* The controller emits to user:<requesterId>.  The room may be empty: the
\* emission is then lost, it is neither stored nor repeated.
Notify(p) ==
    /\ pc[p] = "notify"
    /\ \/ inbox' = [inbox EXCEPT ![on[p]] = @ \cup {seen[p]}]
       \/ UNCHANGED inbox
    /\ Finish(p)
    /\ UNCHANGED <<table, history>>

----------------------------------------------------------------------------
(* denyAccessRequest: read and check, then an unconditional update. *)

DenyCheck(p, u, r) ==
    /\ vaultUp
    /\ status[r] = "PENDING"
    /\ u \in Admins \/ requester[r] = u
    /\ Begin(p, "deny", u, r)
    /\ UNCHANGED <<table, history, inbox>>

DenyWrite(p) ==
    /\ pc[p] = "deny"
    /\ ~StatusLocked(p)
    /\ status' = IF vaultUp THEN [status EXCEPT ![on[p]] = "DENIED"] ELSE status
    /\ Finish(p)
    /\ UNCHANGED <<vaultUp, requester, lapsed, subs, history, inbox>>

----------------------------------------------------------------------------
(* The environment of the handlers *)

\* deleteVault cascades to requests and submissions; it waits for open
\* transactions that hold a row of the vault.
DeleteVault(u) ==
    /\ vaultUp
    /\ u \in Admins
    /\ \A p \in Procs : pc[p] \notin Wrote
    /\ vaultUp' = FALSE
    /\ status' = [r \in Reqs |-> None]
    /\ subs' = [r \in Reqs |-> {}]
    /\ UNCHANGED <<requester, lapsed, pc, local, history, inbox>>

\* The clock passes expiresAt.
Lapse(r) ==
    /\ Active(r)
    /\ lapsed' = [lapsed EXCEPT ![r] = TRUE]
    /\ UNCHANGED <<vaultUp, status, requester, subs, pc, local, history, inbox>>

\* Fault: nothing limits how long a transaction may wait for a lock.
AbortUnlessWaiting(p) ==
    /\ pc[p] \in {"checked", "wrote"}
    /\ Finish(p)
    /\ UNCHANGED <<table, history, inbox>>

\* An open transaction is rolled back: victim of a lock cycle, Prisma's limit
\* on interactive transactions, or a lost connection.
Abort(p) ==
    /\ pc[p] \in InTransaction
    /\ Finish(p)
    /\ UNCHANGED <<table, history, inbox>>

\* The server process stops: every handler is gone, open transactions roll back.
Crash ==
    /\ \E p \in Procs : pc[p] # "idle"
    /\ pc' = [p \in Procs |-> "idle"]
    /\ on' = [p \in Procs |-> None]
    /\ by' = [p \in Procs |-> None]
    /\ seen' = [p \in Procs |-> {}]
    /\ gone' = [p \in Procs |-> {}]
    /\ UNCHANGED <<table, history, inbox>>

----------------------------------------------------------------------------

Submit(p) ==
    \/ Upsert(p) \/ CountShares(p) \/ CommitPending(p)
    \/ Approve(p) \/ Purge(p) \/ CommitRelease(p) \/ Notify(p)

Step(p) == CreateInsert(p) \/ Submit(p) \/ DenyWrite(p)

Arrive(p) ==
    \/ \E u \in Users : CreateCheck(p, u)
    \/ \E h \in Users, r \in Reqs : SubmitCheck(p, h, r)
    \/ \E u \in Users, r \in Reqs : DenyCheck(p, u, r)

Next ==
    \/ \E p \in Procs : Arrive(p) \/ Step(p) \/ Abort(p)
    \/ \E u \in Users : DeleteVault(u)
    \/ \E r \in Reqs : Lapse(r)
    \/ Crash

Spec == Init /\ [][Next]_vars

\* A handler that has started goes on, or its transaction is rolled back at
\* the time limit; row locks are granted in order, so an update that waits for
\* one is not overtaken for ever.  Nobody is obliged to call the API.
Fairness ==
    \A p \in Procs : WF_vars(Step(p) \/ Abort(p)) /\ SF_vars(DenyWrite(p))

----------------------------------------------------------------------------
(* Properties *)

\* The types of all variables.
TypeOK ==
    /\ vaultUp \in BOOLEAN
    /\ status \in [Reqs -> Statuses]
    /\ requester \in [Reqs -> Users \cup {None}]
    /\ lapsed \in [Reqs -> BOOLEAN]
    /\ subs \in [Reqs -> SUBSET Holders]
    /\ pc \in [Procs -> Labels]
    /\ on \in [Procs -> Reqs \cup {None}]
    /\ by \in [Procs -> Users \cup {None}]
    /\ seen \in [Procs -> SUBSET Holders]
    /\ gone \in [Procs -> SUBSET Holders]
    /\ released \in [Reqs -> SUBSET SUBSET Holders]
    /\ consented \in [Reqs -> SUBSET Holders]
    /\ inbox \in [Reqs -> SUBSET SUBSET Holders]

\* However handlers overlap, a payload that is released, or that reached the
\* requester, holds the shares of at least k holders, each of whom had a
\* submission to this very request committed (submitShare counts rows and
\* releases them in one transaction).
QuorumGenuine ==
    \A r \in Reqs :
        /\ inbox[r] \subseteq released[r]
        /\ \A P \in released[r] : /\ Cardinality(P) >= Threshold
                                  /\ P \subseteq consented[r]

\* A request shows APPROVED only if a payload was released for it: status and
\* purge are committed together, whatever rolls back or crashes.
ApprovedMeansReleased ==
    \A r \in Reqs : status[r] = "APPROVED" => released[r] # {}

\* No handler at all works on request r.
Drained(r) == \A p \in Procs : on[p] # r

\* Handlers that are past their checks of request r: submissions, and with the
\* denials all that may still decide on it.
Submitting(r) == {p \in Procs : on[p] = r /\ pc[p] \in InTransaction}
Deciding(r) == {p \in Procs : on[p] = r /\ pc[p] \in {"deny"} \cup InTransaction}

\* A vault that is deleted takes its requests along.
Decided(r) == status[r] \in {"APPROVED", "DENIED"} \/ ~vaultUp
Closed(r) == Decided(r) \/ lapsed[r]

\* A request that is decided or lapsed stays so and admits no further
\* submission: each share that is added and each payload that is released after
\* that uses up a submission that had passed its check before.  A decision may
\* still be overwritten, an approval by a denial too, but only by a handler that
\* read the request as PENDING before it was made, once for each such handler;
\* when none is left it stands (submitShare, denyAccessRequest).
ClosedStaysClosed ==
    [][\A r \in Reqs :
        /\ Closed(r) =>
             /\ Closed(r)' /\ Submitting(r)' \subseteq Submitting(r)
             /\ \/ subs'[r] \subseteq subs[r] /\ released'[r] = released[r]
                \/ Submitting(r)' # Submitting(r)
        /\ Decided(r) =>
             /\ Decided(r)' /\ Deciding(r)' \subseteq Deciding(r)
             /\ status'[r] \in {status[r], None} \/ Deciding(r)' # Deciding(r)]_vars

\* No handler waits for ever, although two transactions can wait for each
\* other's rows (a holder that submits again while another handler purges).
HandlersTerminate ==
    \A p \in Procs : pc[p] # "idle" ~> pc[p] = "idle"

\* The calls as atomic steps, over the tables of the database.
Serial == INSTANCE AccessPromise WITH
    Users <- Users, Holders <- Holders, Reqs <- Reqs, NoUser <- None,
    Quorums <- {S \in SUBSET Holders : Cardinality(S) >= Threshold},
    status <- status, requester <- requester, lapsed <- lapsed,
    subs <- subs, released <- released

\* No two calls that decide on or add to one request overlap, and no two requests
\* of one member.  Nothing in the code sees to it.
Apart ==
    \A p, q \in Procs : p # q =>
        /\ pc[p] \in InTransaction \cup {"deny"} /\ pc[q] \in InTransaction \cup {"deny"} =>
              on[p] # on[q]
        /\ pc[p] = "create" /\ pc[q] = "create" => by[p] # by[q]

\* README.md:153: the shares of an approved request are purged immediately.
PurgedOnApproval == \A r \in Reqs : status[r] = "APPROVED" => subs[r] = {}

\* docs/SSS/readme.md:24: as soon as k shares are there they are transmitted,
\* so a request without a handler in flight is not pending with k rows.
QuorumIsApproved ==
    \A r \in Reqs : status[r] = "PENDING" /\ Drained(r) =>
        Cardinality(subs[r]) < Threshold

=============================================================================
