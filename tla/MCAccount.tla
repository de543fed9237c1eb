----------------------------- MODULE MCAccount -----------------------------
(* Account for TLC: one name, so that two registrations compete for the    *)
(* same slugs.                                                             *)
EXTENDS Account

OneName == {<<>>}

=============================================================================
