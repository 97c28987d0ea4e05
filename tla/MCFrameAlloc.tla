---------------------------- MODULE MCFrameAlloc ----------------------------
(* Frames of 4 bytes; every sorted, disjoint map of up to three regions that *)
(* begin at one of a few addresses, some of them inside a frame.             *)
EXTENDS FrameAlloc

MCRegions == {[start |-> s, len |-> n, usable |-> u] :
                s \in {0, 4, 6, 12, 17, 20}, n \in {3, 8, 10}, u \in BOOLEAN}
MCMemoryMaps ==
  {m \in UNION {[1..n -> MCRegions] : n \in 0..3} :
     /\ \A i, j \in DOMAIN m : i < j => EndAddr(m[i]) < m[j].start}
MCUsedRanges == {[first |-> 4, last |-> 4], [first |-> 8, last |-> 12], [first |-> 40, last |-> 40]}
=============================================================================
