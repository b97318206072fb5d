---------------------------- MODULE MCSSLServer ----------------------------
(* Instances of the ppp-over-TLS server small enough for TLC. *)
EXTENDS SSLServer, TLC

CONSTANTS c1, c2

\* a client that satisfies every mode
GoodCred == [named |-> TRUE, verified |-> TRUE, sysUser |-> TRUE,
             userListed |-> TRUE, ipListed |-> TRUE]
OneCred == {GoodCred}
TwoHost == {2}
ClientSymmetry == Permutations(Clients)
=============================================================================
