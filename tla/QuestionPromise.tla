--------------------------- MODULE QuestionPromise ---------------------------
(***************************************************************************)
(* What the question maker of 33 Questions Per Minute promises: it keeps   *)
(* in mind the last MaxQHistory questions of each group and the last       *)
(* MaxPhraseHistory phrases tried of each list.  It asks none of those     *)
(* questions, and tries none of those phrases, unless its time is up.      *)
(***************************************************************************)
EXTENDS Naturals, Sequences, SequencesExt

CONSTANTS MaxQHistory, MaxPhraseHistory, Groups, Lists, ListsOf, Questions(_)

VARIABLES
  asked,            (* group -> the last questions, oldest first.          *)
  tried,            (* list -> the last phrases tried, oldest first.       *)
  late,             (* The time of the question last tried was up.         *)
  slips             (* The lists at which the time of a phrase was up.     *)

LastOf(s, max) == IF Len(s) <= max THEN s ELSE Tail(s)

Init == /\ asked = [g \in Groups |-> <<>>]
        /\ tried = [l \in Lists |-> <<>>]

(* The phrases of question q of group g are tried, of those lists that     *)
(* remember them.                                                          *)
Try(g, q) ==
  /\ \A j \in DOMAIN q : LET l == ListsOf[g][j] IN
       l \in Lists /\ q[j] \in ToSet(tried[l]) => l \in slips'
  /\ tried' = [l \in Lists |->
       IF \E j \in DOMAIN q : ListsOf[g][j] = l
       THEN LastOf(Append(tried[l], q[CHOOSE j \in DOMAIN q : ListsOf[g][j] = l]),
                   MaxPhraseHistory)
       ELSE tried[l]]

(* And it is asked; only one of the last ones, before the time is up, is   *)
(* not.                                                                    *)
Ask(g, q) ==
  IF late' \/ q \notin ToSet(asked[g])
  THEN asked' = [asked EXCEPT ![g] = LastOf(Append(@, q), MaxQHistory)]
  ELSE UNCHANGED asked

Next == \E g \in Groups : \E q \in Questions(g) : Try(g, q) /\ Ask(g, q)

(* late and slips say of a step what excuses it.                           *)
Spec == Init /\ [][Next]_<<asked, tried>>
=============================================================================
