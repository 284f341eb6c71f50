------------------------------ MODULE MCRedisDB ------------------------------
(* Instance of RedisDB for TLC: two keys, two values, one member, one     *)
(* field, two scores, a clock of two seconds.                             *)
EXTENDS RedisDB

CONSTANTS k1, k2, v1, v2, m1, f1

MCKeys == {k1, k2}
MCVals == {v1, v2}
OneKey == {k1}
MCExpireTTLs == {-1, 1}
=============================================================================
