--------------------------- MODULE MCStudioOutbox ---------------------------
(* The instance of StudioOutbox that TLC checks. *)
EXTENDS StudioOutbox

CONSTANTS e1, p1, t1, t2, w1, w2, o1, o2

MCTypeOf == [e \in Events |-> t1]

(* Processes named apart, and replicas that listen on the same address. *)
MCNaming == {[w \in Workers |-> IF w = w1 THEN o1 ELSE o2],
             [w \in Workers |-> o1]}
=============================================================================
