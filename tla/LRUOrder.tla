------------------------------ MODULE LRUOrder ------------------------------
(***************************************************************************)
(* What buffer.Replacer promises its caller, the buffer pool: the frames  *)
(* that may be evicted, in the order they were made evictable, newest     *)
(* first.  Unpin of a frame already evictable leaves it where it is;      *)
(* Pin takes a frame out; Victim takes out the oldest one.                *)
(*                                                                         *)
(* BufferPool's LRUReplacer, a doubly linked list with a node map, is     *)
(* shown to implement this order by a refinement mapping (MCBufferPool).  *)
(***************************************************************************)
EXTENDS Sequences, SequencesExt

CONSTANT Frames

VARIABLE order   \* evictable frames, most recently unpinned first

TypeOK == order \in Seq(Frames) /\ IsInjective(order)

Init == order = <<>>

Unpin(f) ==
    /\ f \notin ToSet(order)
    /\ order' = <<f>> \o order

Pin(f) ==
    /\ f \in ToSet(order)
    /\ order' = Remove(order, f)

Victim ==
    /\ order # <<>>
    /\ order' = Front(order)

Next == Victim \/ \E f \in Frames : Pin(f) \/ Unpin(f)

Spec == Init /\ [][Next]_order

=============================================================================
