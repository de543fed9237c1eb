--------------------------- MODULE VaultRotation ---------------------------
(***************************************************************************)
(* Key rotation of one vault.  A holder whose browser lost the private key *)
(* asks the other holders for their shares; the k-th submission releases   *)
(* the shares to the requester's browser, which rebuilds the secret, splits*)
(* it again and replaces every VaultShare row (server/src/vault/           *)
(* vault.service.ts, createRotationRequest, submitRotationShare,           *)
(* finalizeRotation, denyRotationRequest; client/src/app/core/services/    *)
(* vault.service.ts, holderSubmitRotationShare, finalizeRotationClientSide)*)
(*                                                                         *)
(* A slot follows one activity from the browser through the server and     *)
(* back.  Statements of one transaction are merged into a step where they  *)
(* commute with everything other slots do: a write is invisible until the  *)
(* commit, so the upsert moves to the count that follows it, and approve,  *)
(* collect and purge move to the commit.  What a merged step would have to *)
(* wait for is in its guard.                                               *)
(***************************************************************************)
EXTENDS Integers, FiniteSets

CONSTANTS
    N,          \* vault.totalShares
    Threshold,  \* vault.threshold
    Rots,       \* identifiers a rotation request can get
    Procs,      \* slots for activities that run at the same time
    RowOrders,  \* orders in which the database may return the share rows
    MaxKey      \* bound: key pairs a holder generates

Holders == 1 .. N

ASSUME SizeAssumption == N \in Nat /\ Threshold \in 1 .. N
ASSUME OrderAssumption ==
    \A o \in RowOrders : /\ o \in [Holders -> Holders]
                         /\ \A i, j \in Holders : o[i] = o[j] => i = j
ASSUME MaxKeyAssumption == MaxKey \in Nat

VARIABLES
    status, requester, newKey, lapsed,  \* ShareRotationRequest rows
    subs,                               \* RotationSubmission: split of the share, or Absent
    idx, gen, key,                      \* VaultShare rows: index, split, holder's key
    splits, garbage,                    \* splits stored so far; those not of the secret
    local, pub,                         \* key in the holder's browser; User.publicKey
    pc, on, by,                         \* activity, its rotation and its caller
    got, seen,                          \* split of the share it carries; rows it counted
    sound, keys, order, pos             \* payload: does it yield the secret, keys, row
                                        \* order; rows updated so far

rows == <<status, requester, newKey, lapsed, subs>>
shares == <<idx, gen, key, splits, garbage>>
browser == <<local, pub>>
payload == <<sound, keys, order, pos>>
slots == <<pc, on, by, got, seen, payload>>
vars == <<rows, shares, browser, slots>>

Absent == -1
NoRot == "none"
ASSUME NoRotAssumption == NoRot \notin Rots

Nobody == 0             \* not a holder
NoSubs == [h \in Holders |-> Absent]
NoKeys == [h \in Holders |-> 0]
Identity == [h \in Holders |-> h]
Submitters(f) == {h \in Holders : f[h] # Absent}

\* createVault: holder i gets share i of split 0, under his first key.
Init ==
    /\ status = [r \in Rots |-> "none"]
    /\ requester = [r \in Rots |-> Nobody]
    /\ newKey = [r \in Rots |-> 0]
    /\ lapsed = [r \in Rots |-> FALSE]
    /\ subs = [r \in Rots |-> NoSubs]
    /\ idx = Identity
    /\ gen = [h \in Holders |-> 0]
    /\ key = NoKeys
    /\ splits = 0
    /\ garbage = {}
    /\ local = NoKeys
    /\ pub = NoKeys
    /\ pc = [p \in Procs |-> "idle"]
    /\ on = [p \in Procs |-> NoRot]
    /\ by = [p \in Procs |-> Nobody]
    /\ got = [p \in Procs |-> 0]
    /\ seen = [p \in Procs |-> NoSubs]
    /\ sound = [p \in Procs |-> TRUE]
    /\ keys = [p \in Procs |-> NoKeys]
    /\ order = [p \in Procs |-> Identity]
    /\ pos = [p \in Procs |-> 0]

----------------------------------------------------------------------------

Goto(p, label) == pc' = [pc EXCEPT ![p] = label]

\* The slot is free again, with every field as in Init.
Finish(p) ==
    /\ pc' = [pc EXCEPT ![p] = "idle"]
    /\ on' = [on EXCEPT ![p] = NoRot]
    /\ by' = [by EXCEPT ![p] = Nobody]
    /\ got' = [got EXCEPT ![p] = 0]
    /\ seen' = [seen EXCEPT ![p] = NoSubs]
    /\ sound' = [sound EXCEPT ![p] = TRUE]
    /\ keys' = [keys EXCEPT ![p] = NoKeys]
    /\ order' = [order EXCEPT ![p] = Identity]
    /\ pos' = [pos EXCEPT ![p] = 0]

Active(r) == status[r] = "PENDING" /\ ~lapsed[r]
Readable(h) == key[h] = local[h]

----------------------------------------------------------------------------
(* Browser: new device, and the request for rotation. *)

\* A new pair replaces the one in the browser and is published.
GenerateFreshKeyPair(h) ==
    /\ local[h] < MaxKey
    /\ local' = [local EXCEPT ![h] = @ + 1]
    /\ pub' = [pub EXCEPT ![h] = local[h] + 1]

\* ensureKeyPair in a browser that has no pair stored.
\* Environment: at any time at least k holders can read their share.
NewDevice(h) ==
    /\ Cardinality({g \in Holders \ {h} : Readable(g)}) >= Threshold
    /\ GenerateFreshKeyPair(h)
    /\ UNCHANGED <<rows, shares, slots>>

\* Fault: createRotationRequest does not look for an active rotation.
HasActiveNever(h) == h \notin Holders

HasActive(h) == \E r \in Rots : Active(r) /\ requester[r] = h

\* requestRotation: a holder with a mismatch generates and publishes a fresh
\* pair, then posts; the server refuses him if he has an active request, which
\* his page may not show, but the old pair is gone by then.
RequestRotation(p, h) ==
    /\ pc[p] = "idle"
    /\ ~Readable(h)
    /\ Threshold < N
    /\ GenerateFreshKeyPair(h)
    /\ \/ /\ HasActive(h)
          /\ UNCHANGED <<pc, on, by, got>>
       \/ /\ ~HasActive(h)
          /\ \E r \in Rots :
               /\ status[r] = "none" /\ \A q \in Procs : on[q] # r
               /\ on' = [on EXCEPT ![p] = r]
          /\ by' = [by EXCEPT ![p] = h]
          /\ got' = [got EXCEPT ![p] = local[h] + 1]
          /\ Goto(p, "create")
    /\ UNCHANGED <<rows, shares, seen, payload>>

CreateInsert(p) ==
    /\ pc[p] = "create"
    /\ status' = [status EXCEPT ![on[p]] = "PENDING"]
    /\ requester' = [requester EXCEPT ![on[p]] = by[p]]
    /\ newKey' = [newKey EXCEPT ![on[p]] = got[p]]
    /\ Finish(p)
    /\ UNCHANGED <<lapsed, subs, shares, browser>>

----------------------------------------------------------------------------
(* holderSubmitRotationShare and submitRotationShare *)

\* getMyEncryptedShare: the browser refuses a share under another key.
Fetch(p, h, r) ==
    /\ pc[p] = "idle"
    /\ status[r] = "PENDING"
    /\ Readable(h)
    /\ on' = [on EXCEPT ![p] = r]
    /\ by' = [by EXCEPT ![p] = h]
    /\ got' = [got EXCEPT ![p] = gen[h]]
    /\ Goto(p, "fetched")
    /\ UNCHANGED <<rows, shares, browser, seen, payload>>

\* Fault: the requester is not told apart from the other holders.
SubmitCheckAnyHolder(p) ==
    /\ pc[p] = "fetched"
    /\ IF Active(on[p])
         THEN Goto(p, "checked") /\ UNCHANGED <<on, by, got, seen, payload>>
         ELSE Finish(p)
    /\ UNCHANGED <<rows, shares, browser>>

\* Fault: only the expiry is looked at, not the status.
SubmitCheckAnyStatus(p) ==
    /\ pc[p] = "fetched"
    /\ IF ~lapsed[on[p]] /\ by[p] # requester[on[p]]
         THEN Goto(p, "checked") /\ UNCHANGED <<on, by, got, seen, payload>>
         ELSE Finish(p)
    /\ UNCHANGED <<rows, shares, browser>>

\* The transaction reads the request; a refusal rolls back.
SubmitCheck(p) ==
    /\ pc[p] = "fetched"
    /\ IF Active(on[p]) /\ by[p] # requester[on[p]]
         THEN Goto(p, "checked") /\ UNCHANGED <<on, by, got, seen, payload>>
         ELSE Finish(p)
    /\ UNCHANGED <<rows, shares, browser>>

\* Upsert and findMany.  The upsert waits for an open transaction of the same
\* holder on the same request.
CountShares(p) ==
    /\ pc[p] = "checked"
    /\ \A q \in Procs \ {p} : ~(pc[q] = "counted" /\ on[q] = on[p] /\ by[q] = by[p])
    /\ seen' = [seen EXCEPT ![p] = [subs[on[p]] EXCEPT ![by[p]] = got[p]]]
    /\ Goto(p, "counted")
    /\ UNCHANGED <<rows, shares, browser, on, by, got, payload>>

QuorumSeen(p) == Cardinality(Submitters(seen[p])) >= Threshold

CommitPending(p) ==
    /\ pc[p] = "counted"
    /\ ~QuorumSeen(p)
    /\ subs' = [subs EXCEPT ![on[p]][by[p]] = got[p]]
    /\ Finish(p)
    /\ UNCHANGED <<status, requester, newKey, lapsed, shares, browser>>

\* The shares combine to the secret only if they stem from one split of it.
OneSecret(f) ==
    \E g \in 0 .. splits : g \notin garbage /\ \A h \in Submitters(f) : f[h] = g

\* Fault: the payload carries the keys of the rows for everybody.
PayloadKeysOld(r) == [key EXCEPT ![requester[r]] = @]

\* Every holder's key on his row, the requester's from his request.
PayloadKeys(r) == [key EXCEPT ![requester[r]] = newKey[r]]

\* Fault: every slot of the payload gets the requester's new key.
CommitQuorumOneKey(p) ==
    /\ pc[p] = "counted" /\ QuorumSeen(p)
    /\ status' = [status EXCEPT ![on[p]] = "APPROVED"]
    /\ subs' = [subs EXCEPT ![on[p]] = NoSubs]
    /\ sound' = [sound EXCEPT ![p] = OneSecret(seen[p])]
    /\ keys' = [keys EXCEPT ![p] = [h \in Holders |-> newKey[on[p]]]]
    /\ \E o \in RowOrders : order' = [order EXCEPT ![p] = o]
    /\ Goto(p, "notify")
    /\ UNCHANGED <<requester, newKey, lapsed, shares, browser, on, by, got, seen, pos>>

\* APPROVED, shares and keys collected, submissions purged, commit.  deleteMany
\* waits for an open transaction that has updated one of the rows.
CommitQuorum(p) ==
    /\ pc[p] = "counted"
    /\ QuorumSeen(p)
    /\ \A q \in Procs \ {p} :
          ~(pc[q] = "counted" /\ on[q] = on[p] /\ subs[on[p]][by[q]] # Absent)
    /\ status' = [status EXCEPT ![on[p]] = "APPROVED"]
    /\ subs' = [subs EXCEPT ![on[p]] = NoSubs]
    /\ sound' = [sound EXCEPT ![p] = OneSecret(seen[p])]
    /\ keys' = [keys EXCEPT ![p] = PayloadKeys(on[p])]
    /\ \E o \in RowOrders : order' = [order EXCEPT ![p] = o]
    /\ Goto(p, "notify")
    /\ UNCHANGED <<requester, newKey, lapsed, shares, browser, on, by, got, seen, pos>>

\* To user:<requesterId>: an open vault page takes the payload, else it is lost.
Notify(p) ==
    /\ pc[p] = "notify"
    /\ \/ Goto(p, "put") /\ UNCHANGED <<on, by, got, seen, payload>>
       \/ Finish(p)
    /\ UNCHANGED <<rows, shares, browser>>

----------------------------------------------------------------------------
(* finalizeRotationClientSide and finalizeRotation *)

\* The browser has split what it rebuilt and sends share i to the i-th holder
\* of the payload's order; the server reads the request outside a transaction.
FinalizeCheck(p) ==
    /\ pc[p] = "put"
    /\ IF status[on[p]] \in {"EXPIRED", "DENIED"}
         THEN Finish(p)
         ELSE Goto(p, "update") /\ UNCHANGED <<on, by, got, seen, payload>>
    /\ UNCHANGED <<rows, shares, browser>>

\* Rows the open transaction of p has updated, and so locked.
Updated(p) == {order[p][i] : i \in 1 .. pos[p]}

\* Fault: the loop of updates is not in a transaction.
UpdateRowAtOnce(p) ==
    /\ pc[p] = "update" /\ pos[p] < N
    /\ LET h == order[p][pos[p] + 1]
       IN IF \E g \in Holders \ {h} : idx[g] = pos[p] + 1
            THEN Finish(p) /\ UNCHANGED <<gen, key>>
            ELSE /\ pos' = [pos EXCEPT ![p] = @ + 1]
                 /\ gen' = [gen EXCEPT ![h] = splits + 1]
                 /\ key' = [key EXCEPT ![h] = keys[p][h]]
                 /\ UNCHANGED <<pc, on, by, got, seen, sound, keys, order>>
    /\ UNCHANGED <<rows, idx, splits, garbage, browser>>

\* Fault: the unique index on (vaultId, shareIndex) is missing.
UpdateRowNoIndex(p) ==
    /\ pc[p] = "update" /\ pos[p] < N
    /\ \A q \in Procs \ {p} :
          ~(pc[q] = "update" /\ order[p][pos[p] + 1] \in Updated(q))
    /\ pos' = [pos EXCEPT ![p] = @ + 1]
    /\ UNCHANGED <<rows, shares, browser, pc, on, by, got, seen, sound, keys, order>>

\* Update of the next row.  It waits for a lock; a (vaultId, shareIndex) that
\* another row still has violates the unique index and rolls everything back.
UpdateRow(p) ==
    /\ pc[p] = "update"
    /\ pos[p] < N
    /\ LET h == order[p][pos[p] + 1]
       IN IF \E g \in Holders \ (Updated(p) \cup {h}) : idx[g] = pos[p] + 1
            THEN Finish(p)
            ELSE /\ \A q \in Procs \ {p} : ~(pc[q] = "update" /\ h \in Updated(q))
                 /\ pos' = [pos EXCEPT ![p] = @ + 1]
                 /\ UNCHANGED <<pc, on, by, got, seen, sound, keys, order>>
    /\ UNCHANGED <<rows, shares, browser>>

\* Fault: the browser numbers the new shares from 0.
FinalizeCommitFromZero(p) ==
    /\ pc[p] = "update" /\ pos[p] = N
    /\ splits' = splits + 1
    /\ gen' = [h \in Holders |-> splits + 1]
    /\ idx' = [h \in Holders |-> (CHOOSE i \in Holders : order[p][i] = h) - 1]
    /\ key' = keys[p]
    /\ garbage' = IF sound[p] THEN garbage ELSE garbage \cup {splits + 1}
    /\ pub' = [pub EXCEPT ![requester[on[p]]] = keys[p][requester[on[p]]]]
    /\ status' = [status EXCEPT ![on[p]] = "APPROVED"]
    /\ Finish(p)
    /\ UNCHANGED <<requester, newKey, lapsed, subs, local>>

\* The browser numbers the new shares by the holders' places in the payload.
IndexGiven(p) == [h \in Holders |-> CHOOSE i \in Holders : order[p][i] = h]

\* User.publicKey, status APPROVED, and the commit of all rows.
FinalizeCommit(p) ==
    /\ pc[p] = "update"
    /\ pos[p] = N
    /\ LET r == on[p] IN
         /\ splits' = splits + 1
         /\ gen' = [h \in Holders |-> splits + 1]
         /\ idx' = IndexGiven(p)
         /\ key' = keys[p]
         /\ garbage' = IF sound[p] THEN garbage ELSE garbage \cup {splits + 1}
         /\ pub' = [pub EXCEPT ![requester[r]] = keys[p][requester[r]]]
         /\ status' = [status EXCEPT ![r] = "APPROVED"]
    /\ Finish(p)
    /\ UNCHANGED <<requester, newKey, lapsed, subs, local>>

----------------------------------------------------------------------------
(* denyRotationRequest: read and check, then an unconditional update. *)

\* By an ADMIN, or by the requester who cancels.
DenyCheck(p, r) ==
    /\ pc[p] = "idle"
    /\ status[r] = "PENDING"
    /\ on' = [on EXCEPT ![p] = r]
    /\ Goto(p, "deny")
    /\ UNCHANGED <<rows, shares, browser, by, got, seen, payload>>

DenyWrite(p) ==
    /\ pc[p] = "deny"
    /\ status' = [status EXCEPT ![on[p]] = "DENIED"]
    /\ Finish(p)
    /\ UNCHANGED <<requester, newKey, lapsed, subs, shares, browser>>

----------------------------------------------------------------------------

Lapse(r) ==
    /\ Active(r)
    /\ lapsed' = [lapsed EXCEPT ![r] = TRUE]
    /\ UNCHANGED <<status, requester, newKey, subs, shares, browser, slots>>

\* A closed page, a stopped server, a transaction rolled back at its time limit
\* or as the victim of a lock cycle: the activity ends, nothing is committed.
Stop(p) ==
    /\ pc[p] # "idle"
    /\ Finish(p)
    /\ UNCHANGED <<rows, shares, browser>>

Step(p) ==
    \/ CreateInsert(p)
    \/ SubmitCheck(p) \/ CountShares(p) \/ CommitPending(p) \/ CommitQuorum(p)
    \/ Notify(p)
    \/ FinalizeCheck(p) \/ UpdateRow(p) \/ FinalizeCommit(p)
    \/ DenyWrite(p)

Arrive(p) ==
    \/ \E h \in Holders : RequestRotation(p, h)
    \/ \E h \in Holders, r \in Rots : Fetch(p, h, r)
    \/ \E r \in Rots : DenyCheck(p, r)

Next ==
    \/ \E p \in Procs : Arrive(p) \/ Step(p) \/ Stop(p)
    \/ \E h \in Holders : NewDevice(h)
    \/ \E r \in Rots : Lapse(r)

Spec == Init /\ [][Next]_vars

----------------------------------------------------------------------------
(* Properties *)

TypeOK ==
    /\ status \in [Rots -> {"none", "PENDING", "APPROVED", "DENIED", "EXPIRED"}]
    /\ requester \in [Rots -> 0 .. N]
    /\ newKey \in [Rots -> Nat]
    /\ lapsed \in [Rots -> BOOLEAN]
    /\ subs \in [Rots -> [Holders -> Nat \cup {Absent}]]
    /\ idx \in [Holders -> Holders]
    /\ gen \in [Holders -> Nat] /\ key \in [Holders -> Nat]
    /\ splits \in Nat /\ garbage \subseteq 0 .. splits
    /\ local \in [Holders -> Nat] /\ pub \in [Holders -> Nat]
    /\ pc \in [Procs -> {"idle", "create", "fetched", "checked", "counted",
                         "notify", "put", "update", "deny"}]
    /\ on \in [Procs -> Rots \cup {NoRot}]
    /\ by \in [Procs -> 0 .. N]
    /\ got \in [Procs -> Nat]
    /\ seen \in [Procs -> [Holders -> Nat \cup {Absent}]]
    /\ sound \in [Procs -> BOOLEAN]
    /\ keys \in [Procs -> [Holders -> Nat]]
    /\ order \in [Procs -> [Holders -> Holders]]
    /\ pos \in [Procs -> 0 .. N]

\* At rest the rows of the vault are one split with indices 1..n, whatever
\* finalizations overlap or fail half way ("Replace all shares atomically").
OneSplit ==
    /\ \A g, h \in Holders : gen[g] = gen[h]
    /\ \A g, h \in Holders : idx[g] = idx[h] => g = h

\* No rotation moves a holder to another index, so a share that was submitted
\* before a finalization is still released with the index it was made for.
IndexStays == [][idx' = idx]_vars

\* The requester never contributes to his own rotation, and what he gets to
\* rebuild the secret from are shares of at least k other holders.
QuorumOfOthers ==
    /\ \A r \in Rots : \A h \in Submitters(subs[r]) : h # requester[r]
    /\ \A p \in Procs : pc[p] \in {"notify", "put", "update"} =>
          /\ QuorumSeen(p)
          /\ requester[on[p]] \notin Submitters(seen[p])

\* Denied, and no activity is past its own check of the status.
DeniedForGood(r) ==
    /\ status[r] = "DENIED"
    /\ \A p \in Procs : on[p] = r => pc[p] \notin {"checked", "counted", "update", "deny"}

\* Then nothing gets past a check again: the rotation stays denied, collects no
\* share, and what a late page still sends for it replaces no row.
DeniedStays ==
    [][\A r \in Rots : DeniedForGood(r) => DeniedForGood(r)' /\ subs'[r] = subs[r]]_vars

\* With at most n - k holders on new devices, k holders can read.  Finalizations
\* that overlap may break it.
QuorumReadable == Cardinality({h \in Holders : Readable(h)}) >= Threshold

\* schema.prisma:203: the requester reconstructs the secret from k shares.
SecretSurvives == splits \notin garbage

\* At most one rotation per holder is active (vault.service.ts:369).  Two calls of
\* one holder that overlap may break it.
OneActiveRotation ==
    \A r, s \in Rots : Active(r) /\ Active(s) /\ requester[r] = requester[s] => r = s

\* A finalization lets the requester read his share again, if the pair in his
\* browser is still the one he asked with.
AccessRestored ==
    [][\A p \in Procs : LET h == requester[on[p]] IN
          pc[p] = "update" /\ splits' # splits /\ pc'[p] = "idle"
             /\ local[h] = newKey[on[p]] => key'[h] = local[h]]_vars

=============================================================================
