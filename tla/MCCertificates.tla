----------------------------- MODULE MCCertificates -----------------------------
(* One site of the panel's and an imported one (Marked = {s1}), two orders.   *)
EXTENDS AcmeOrders, TLC

\* Three requests, or two and a fault.
OneTrouble == spent.faults + spent.requests <= 3
=============================================================================
