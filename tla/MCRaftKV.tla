------------------------------ MODULE MCRaftKV ------------------------------
(* The three nodes of cmd/node/main.go and two goroutines calling the KV    *)
(* service, as in the stress test.                                          *)
EXTENDS RaftKV, TLC

CONSTANTS n1, n2, n3, c1, c2, k1, v1

MCNodes == {n1, n2, n3}
MCClients == {c1, c2}

Symmetry == Permutations(MCNodes) \cup Permutations(MCClients)
====
