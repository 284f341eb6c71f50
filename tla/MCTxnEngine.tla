---------------------------- MODULE MCTxnEngine ----------------------------
(***************************************************************************)
(* Instantiates TxnEngine for TLC: sessions, keys, values and tables are  *)
(* model values given in the .cfg files; the symmetry sets below are used *)
(* only by runs that check safety alone.                                   *)
(***************************************************************************)
EXTENDS TxnEngine, TLC

CONSTANTS s1, s2, k1, k2, v1, v2

MCSessions == {s1, s2}
MCKeys == {k1, k2}
MCValues == {v1, v2}
OneSession == {s1}
OneValue == {v1}

Symmetry == Permutations(MCSessions) \union Permutations(MCKeys)
            \union Permutations(MCValues)
(* The statement arguments and the deadline flag of an idle session are   *)
(* dead: every statement start overwrites them.  States that differ only  *)
(* there are identified.                                                   *)
LiveArgs == [s \in Sessions |-> IF pc[s] = "idle" THEN <<>> ELSE <<arg[s], expired[s]>>]

View == <<index, created, wal, durable, nextLSN, nextTxID, lockHolder,
          engineMu, activeTx, pc, LiveArgs, epoch, status, writer,
          crashes, timeouts>>
=============================================================================
