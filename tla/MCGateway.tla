------------------------------ MODULE MCGateway ------------------------------
(***************************************************************************)
(* The configuration of the cmd/gateway main, cut down for TLC: route     *)
(* "/a" takes any method, needs key k1 and has two targets; route "/b"    *)
(* takes GET, needs no key and has no target.  Paths are sequences of     *)
(* characters.                                                             *)
(***************************************************************************)
EXTENDS Gateway

CONSTANTS c1, c2, GET, OPT, k1, t1, t2, none

MCClients == {c1, c2}
MCMethods == {GET, OPT}
MCPaths == {<<"/", "a", "x">>, <<"/", "b">>, <<"/", "c">>}
MCRoutes ==
    <<[prefix |-> <<"/", "a">>, methods |-> {}, apiKey |-> k1,
       targets |-> <<t1, t2>>, qps |-> 2000, burst |-> 3000],
      [prefix |-> <<"/", "b">>, methods |-> {GET}, apiKey |-> none,
       targets |-> <<>>, qps |-> 2000, burst |-> 3000]>>
=============================================================================
