---------------------------- MODULE MCBufferPool ----------------------------
(* Instance of BufferPool for TLC: a few goroutines, a pool of one or two *)
(* frames over three page ids.                                            *)
EXTENDS BufferPool, TLC

CONSTANTS t1, t2

OneThread == {t1}
TwoThreads == {t1, t2}
ThreadSymmetry == Permutations(TwoThreads)

\* Object slots nothing refers to, and the locals of idle threads, are dead.
DeadObj == [pid |-> 0, pin |-> 0, dirty |-> FALSE, data |-> 0]
DeadLoc == [pid |-> 0, frame |-> NoFrame, obj |-> NoObj, data |-> 0]
View ==
    <<disk, nextPageID,
      [o \in Objs |-> IF o \in Referenced THEN objects[o] ELSE DeadObj],
      pages, frameByPID, pidByFrame, freeList, lru, pc,
      [t \in Threads |-> IF pc[t] = "idle" /\ loc[t].frame = NoFrame
                         THEN DeadLoc ELSE loc[t]],
      held, wrote, latest>>
=============================================================================
