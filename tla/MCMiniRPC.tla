------------------------------ MODULE MCMiniRPC -----------------------------
EXTENDS MiniRPC

CONSTANTS r1, r2

MCClients == {r1, r2}
OneClient == {r1}

=============================================================================
