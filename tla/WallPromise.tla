---------------------------- MODULE WallPromise ----------------------------
(***************************************************************************)
(* What the wall promises the program that draws on it: each panel shows   *)
(* an image drawn for it, and moves forward only, through the pictures in  *)
(* the order they were drawn.  It may skip pictures, and two panels may be *)
(* at different ones: nothing in the transport is retransmitted.           *)
(***************************************************************************)
EXTENDS Naturals

CONSTANT Panels

VARIABLES
  drawn,      (* How many pictures have been drawn.                        *)
  seen        (* The picture each panel is at; 0 before the first.         *)

vars == <<drawn, seen>>

Init == drawn = 1 /\ seen = [p \in Panels |-> 0]

Draw == drawn' = drawn + 1 /\ UNCHANGED seen

Advance(p) == /\ \E n \in seen[p] .. drawn : seen' = [seen EXCEPT ![p] = n]
              /\ UNCHANGED drawn

Next == Draw \/ \E p \in Panels : Advance(p)

Spec == Init /\ [][Next]_vars

=============================================================================
