------------------------------ MODULE MCMiniMQ ------------------------------
EXTENDS MiniMQ

CONSTANTS c1, c2

MCConsumers == {c1, c2}
OneConsumer == {c1}

=============================================================================
