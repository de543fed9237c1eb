---------------------------- MODULE VaultSecret ----------------------------
(***************************************************************************)
(* A vault from its secret to its reader: the creator's page splits the    *)
(* secret and gives each holder a share (createVault); holders' pages send *)
(* the shares they have fetched; the server collects them as VaultAccess   *)
(* says, while rotations replace the rows by those of another split        *)
(* (finalizeRotation); the requester's page combines what it is sent       *)
(* (vault:quorum_reached).                                                 *)
(***************************************************************************)
EXTENDS VaultAccess, Shamir

CONSTANTS
    Secrets,    \* bytes that are split
    Random      \* bytes that crypto.getRandomValues may yield

ASSUME BytesAssumption == Secrets \subseteq Byte /\ Random \subseteq Byte

VARIABLES
    split,      \* what the VaultShare rows are computed from, coefficients with the
                \* secret first; none before the vault exists
    dto,        \* the share in the body of a submission, 0: none
    share,      \* ShareSubmission.share, by request and holder
    read,       \* the shares that a handler's findMany returned
    since       \* history: what split has been since a request was made, as long
                \* as it was open

bytes == <<dto, share, read>>
all == <<vars, split, bytes, since>>

\* What sssplit may start from: the secret, and a random byte for each power.
Splits == {c \in [1 .. Threshold -> Secrets \cup Random] :
              c[1] \in Secrets /\ \A n \in 2 .. Threshold : c[n] \in Random}

\* VaultShare.shareIndex, the place of a holder in the creator's selection; no
\* rotation moves it (VaultRotation, IndexStays).  A payload has 1 for others.
ShareIndex ==
    LET place == CHOOSE f \in [Holders -> 1 .. Cardinality(Holders)] :
                    \A g, h \in Holders : f[g] = f[h] => g = h
    IN  [u \in Users |-> IF u \in Holders THEN place[u] ELSE 1]

\* The share that u decrypts from his row.
ShareOf(c, u) == sssplit(c, Cardinality(Holders))[ShareIndex[u]]

NoShares == [u \in Users |-> 0]

\* What the slots bring and have read; a slot that is free again has nothing.
Carry(brought, found) ==
    /\ dto' = [p \in Procs |-> IF pc'[p] = "idle" THEN 0 ELSE brought[p]]
    /\ read' = [p \in Procs |-> IF pc'[p] = "idle" THEN NoShares ELSE found[p]]

----------------------------------------------------------------------------

createVault ==
    /\ split = <<>>
    /\ split' \in Splits
    /\ UNCHANGED <<vars, bytes, since>>

\* The commit that replaces every VaultShare row (VaultRotation).  The page has
\* split what it rebuilt: the secret, or something else if it was sent shares of
\* two splits.  Submissions to requests for access stay where they are.
finalizeRotation ==
    /\ split # <<>> /\ vaultUp
    /\ split' \in Splits
    /\ since' = [r \in Reqs |-> IF Active(r) THEN since[r] \cup {split'} ELSE since[r]]
    /\ UNCHANGED <<vars, bytes>>

Insert(p) ==
    /\ CreateInsert(p)
    /\ since' = IF vaultUp THEN [since EXCEPT ![on[p]] = {split}] ELSE since
    /\ Carry(dto, read)
    /\ UNCHANGED share

\* holderSubmitShare fetched the row at some time since the request was made.
Bring(p, h, r) ==
    /\ SubmitCheck(p, h, r)
    /\ \E c \in since[r] : Carry([dto EXCEPT ![p] = ShareOf(c, h)], read)
    /\ UNCHANGED <<share, since>>

Find(p) ==
    /\ CountShares(p)
    /\ Carry(dto, [read EXCEPT ![p] = [share[on[p]] EXCEPT ![by[p]] = dto[p]]])
    /\ UNCHANGED <<share, since>>

\* The rows that are left, with the caller's own.
Store(p) ==
    /\ CommitPending(p) \/ CommitRelease(p)
    /\ share' = [share EXCEPT ![on[p]] = [u \in Users |->
                    IF u \notin subs'[on[p]] THEN 0 ELSE IF u = by[p] THEN dto[p] ELSE @[u]]]
    /\ Carry(dto, read)
    /\ UNCHANGED since

Cascade(u) ==
    /\ DeleteVault(u)
    /\ share' = [r \in Reqs |-> NoShares]
    /\ UNCHANGED <<dto, read, since>>

\* Every other step of VaultAccess leaves the shares where they are.
Rest ==
    /\ \/ \E p \in Procs :
            \/ \E u \in Users : CreateCheck(p, u) \/ \E r \in Reqs : DenyCheck(p, u, r)
            \/ Upsert(p) \/ Approve(p) \/ Purge(p) \/ Notify(p) \/ DenyWrite(p) \/ Abort(p)
       \/ \E r \in Reqs : Lapse(r)
       \/ Crash
    /\ Carry(dto, read)
    /\ UNCHANGED <<share, since>>

Live ==
    /\ split # <<>> /\ UNCHANGED split
    /\ \/ \E p \in Procs : \/ Insert(p) \/ Find(p) \/ Store(p)
                           \/ \E h \in Users, r \in Reqs : Bring(p, h, r)
       \/ \E u \in Users : Cascade(u)
       \/ Rest

SecretInit ==
    /\ Init
    /\ split = <<>>
    /\ dto = [p \in Procs |-> 0]
    /\ share = [r \in Reqs |-> NoShares]
    /\ read = [p \in Procs |-> NoShares]
    /\ since = [r \in Reqs |-> {}]

SecretNext == createVault \/ finalizeRotation \/ Live

SecretSpec == SecretInit /\ [][SecretNext]_all

----------------------------------------------------------------------------
(* Properties *)

\* The payload of p, in the orders in which findMany may return its rows.
Payloads(p) ==
    {[n \in 1 .. Cardinality(seen[p]) |-> [index |-> ShareIndex[f[n]], share |-> read[p][f[n]]]] :
        f \in {g \in [1 .. Cardinality(seen[p]) -> seen[p]] :
                  \A m, n \in DOMAIN g : g[m] = g[n] => m = n}}

\* Whatever handlers overlap, crash or repeat, and whenever pages have fetched
\* what they send: a payload that goes out consists of shares of splits that the
\* vault had while the request was open, and if they are all of one split, the
\* requester reads what was split, in whatever order he is sent them.  So he does
\* if no rotation was finalized while his request was open.  Otherwise shares of
\* two splits may go out, which combine to something else
\* (submitShare, vault:quorum_reached, sscombine).
PayloadOpens ==
    \A p \in Procs : pc[p] = "notify" =>
        /\ \A h \in seen[p] : \E c \in since[on[p]] : read[p][h] = ShareOf(c, h)
        /\ \A c \in since[on[p]] : (\A h \in seen[p] : read[p][h] = ShareOf(c, h)) =>
              \A given \in Payloads(p) : sscombine(given) = c[1]

\* docs/SSS/readme.md:25: the page of the requester reconstructs the original
\* secret from what it is sent.
OriginalIsRead ==
    \A p \in Procs : pc[p] = "notify" =>
        \A given \in Payloads(p) : \E c \in since[on[p]] : sscombine(given) = c[1]

\* The tables multiply and divide as the field does, for all bytes
\* (buildGFTables, gfMul, gfInv); the page fills them before any vault.
TablesMultiply ==
    split = <<>> =>
        /\ \A a, b \in Byte : gfMul(a, b) = Times(a, b)
        /\ \A a \in Byte \ {0} : Times(a, gfInv(a)) = 1

=============================================================================
