----------------------------- MODULE MCSessions -----------------------------
(* Sessions for TLC: a browser with an agent of its own, and two that share *)
(* one because they send no User-Agent header.                              *)
EXTENDS Sessions, TLC

CONSTANTS laptop, phone, tablet, firefox

TwoAgents == {firefox, Unknown}
TwoHeaders == laptop :> firefox @@ phone :> Missing @@ tablet :> Missing
Symmetry == Permutations(Procs) \cup Permutations({phone, tablet})

=============================================================================
