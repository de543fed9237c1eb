-------------------------- MODULE OrderlyRotation --------------------------
(***************************************************************************)
(* VaultRotation with a history of what has overlapped.  Some of what the  *)
(* server promises of active requests and of the holders' keys holds only  *)
(* as long as certain calls do not overlap (server/src/vault/vault.service *)
(* .ts: check and insert are two statements of createRotationRequest, and  *)
(* the payload's keys are a copy made long before finalizeRotation writes  *)
(* them).                                                                  *)
(***************************************************************************)
EXTENDS VaultRotation

VARIABLE overlapped     \* history: calls that must not have overlapped

\* A submission past its check, until the finalization it may lead to is over.
PastCheck == {p \in Procs : pc[p] \in {"checked", "counted", "notify", "put", "update"}}

\* Two submissions past their checks, or two requests of one holder.
Overlap ==
    \E p, q \in Procs :
        /\ p # q
        /\ \/ {p, q} \subseteq PastCheck
           \/ pc[p] = "create" /\ pc[q] = "create" /\ by[p] = by[q]

OrderlyInit == Init /\ overlapped = FALSE
OrderlyNext == Next /\ overlapped' = (overlapped \/ Overlap')

orderly == <<vars, overlapped>>

OrderlySpec == OrderlyInit /\ [][OrderlyNext]_orderly

\* Without such overlaps k holders can read their shares, whatever device
\* changes, denials and late finalizations happen (VaultRotation's
\* QuorumReadable, vault.service.ts:508).
SerialReadable == ~overlapped => QuorumReadable

\* Without such overlaps a holder has at most one active rotation
\* (vault.service.ts:369; the check and the insert are two statements).
SerialActive == ~overlapped => OneActiveRotation

\* Without such overlaps no row goes back to a key its holder has replaced: the
\* payload's keys are a copy that may be old when it is used.
SerialKeys == [][~overlapped' => \A h \in Holders : key'[h] >= key[h]]_orderly

=============================================================================
