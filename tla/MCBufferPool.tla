---------------------------- MODULE MCBufferPool ----------------------------
(* Instances of BufferPool for TLC. *)
EXTENDS BufferPool

CONSTANTS s0, s1, s2, s3, p1, p2, p3, p4, p5, t1, t2, t3, t4

Symmetry == Permutations(Slots \ {slot_0}) \cup Permutations(Pages)
              \cup Permutations(Tasks \ Prefetchers)

(* No guard reads the bytes, so properties that do not mention them hold   *)
(* on the states without them.                                             *)
WithoutBytes == <<slot, zero_key, page_table, ongoing, io, ref, resuming, current, live, fault>>
=============================================================================
