--------------------------- MODULE MCQuestionMaker ---------------------------
(***************************************************************************)
(* The Spanish lists with few phrases each and small histories.  Group 2   *)
(* is of lists 4 to 6 and never comes up.                                  *)
(***************************************************************************)
EXTENDS QuestionMaker

MCGroupFreq == <<3, 1, 1>>                    (* 60, 20, 20 of 100.        *)
MCDices     == 0 .. 4                         (* 0 .. 99.                  *)
MCListsOf   == << <<1, 2, 3>>, <<4, 5, 6>>, <<7, 2, 6>> >>
MCPlain     == {1, 4, 7}
MCCount     == <<1, 3, 1, 1, 1, 1, 1>>
=============================================================================
