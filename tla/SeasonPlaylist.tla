--------------------------- MODULE SeasonPlaylist ---------------------------
(***************************************************************************)
(* What the automatic change of seasons promises: the season it picks is   *)
(* none of the last MAX_HISTORY it picked, whatever else was shown between *)
(* them.                                                                   *)
(***************************************************************************)
EXTENDS Integers

CONSTANTS MAX_SEASONS, MAX_HISTORY

VARIABLES
  shown,           (* The season that is shown; 0 is the transition.       *)
  recent           (* recent[1] is the latest pick, recent[2] the one      *)
                   (* before; 0 where there was none.                      *)

Ages == 1 .. MAX_HISTORY

Pick(s) ==
  /\ \A i \in Ages : recent[i] # s
  /\ shown' = s
  /\ recent' = [i \in Ages |-> IF i = 1 THEN s ELSE recent[i - 1]]

Show == shown' \in 0 .. MAX_SEASONS /\ UNCHANGED recent

Init == recent = [i \in Ages |-> 0]

Next == Show \/ \E s \in 1 .. MAX_SEASONS : Pick(s)

Spec == Init /\ [][Next]_<<shown, recent>>

=============================================================================
