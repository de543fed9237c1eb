--------------------------- MODULE MCVaultSecret ---------------------------
(* VaultSecret for TLC.  Three instances in one run: three handlers that   *)
(* overlap on one request, with two of the holders (overlapping); calls    *)
(* that are Apart on two requests, by two handlers, with three holders     *)
(* (serial); two handlers that overlap on one request, with two of the     *)
(* holders, while a rotation is finalized (rotating).                      *)
EXTENDS VaultSecret

CONSTANTS admin, alice, carol, p1, p2, r1
VARIABLE mode

\* Bounds: the vault is split once, or twice, the second time differently.
OneSplit(c) == c = [n \in 1 .. Threshold |-> IF n = 1 THEN 83 ELSE 202]

\* Request identifiers are interchangeable, and so are the holders: alice asks
\* first, as r1; she or the ADMIN, who holds no share, asks again.
InScope ==
    /\ mode # "overlapping" => \A p \in Procs : pc[p] # "idle" => p \in {p1, p2}
    /\ mode # "serial" => \A p \in Procs : on[p] \in {r1, None}
    /\ mode # "serial" => \A p \in Procs : by[p] # carol
    /\ mode = "rotating" => \A p \in Procs :
          pc[p] # "deny" /\ (pc[p] = "create" => by[p] = alice)
    /\ mode = "serial" =>
          /\ Apart
          /\ \A p \in Procs : pc[p] = "create" =>
                IF on[p] = r1 THEN by[p] = alice
                              ELSE by[p] \in {alice, admin} /\ requester[r1] # None

\* The first split is always the same; in a rotating vault one more follows.
Splitting ==
    split' # split => IF split = <<>> THEN OneSplit(split')
                                      ELSE mode = "rotating" /\ OneSplit(split)

MCInit == SecretInit /\ mode \in {"overlapping", "serial", "rotating"}
MCNext == SecretNext /\ UNCHANGED mode /\ Splitting /\ InScope'
MCSpec == MCInit /\ [][MCNext]_<<all, mode>> /\ Fairness

\* Calls that do not overlap on one request keep the promise of AccessPromise,
\* whatever transaction is rolled back and wherever the process stops in between.
KeepsPromise == Serial!Init /\ [][mode = "serial" => Serial!Next]_(Serial!vars)

=============================================================================
