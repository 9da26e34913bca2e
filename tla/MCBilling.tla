------------------------------ MODULE MCBilling ------------------------------
(* Billing for TLC: two workers race over two reviews of one tenant that has *)
(* a purchase and an open-source application to get credits from.            *)
EXTENDS Billing

CONSTANTS t1, p1, a1

MCSources     == {p1, a1}
MCApplicantOf == [a \in {a1} |-> t1]

=============================================================================
