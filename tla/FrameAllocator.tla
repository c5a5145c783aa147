--------------------------- MODULE FrameAllocator ---------------------------
(***************************************************************************)
(* What a physical memory manager promises to its callers: a frame has one *)
(* owner at a time.  claims[f] is how many callers were handed frame f and *)
(* have not given it back.                                                 *)
(***************************************************************************)
EXTENDS Naturals

CONSTANT Frame
VARIABLE claims

Init == claims = [f \in Frame |-> 0]

Grant(f) == claims[f] = 0 /\ claims' = [claims EXCEPT ![f] = 1]

Return(f) == claims[f] = 1 /\ claims' = [claims EXCEPT ![f] = 0]

Next == \E f \in Frame : Grant(f) \/ Return(f)

Spec == Init /\ [][Next]_claims
=============================================================================
