---------------------------- MODULE QuestionMaker ----------------------------
(***************************************************************************)
(* How 33 Questions Per Minute makes a question: QMakerU.pas.  A dice      *)
(* chooses one of three groups, and a phrase is taken from each of the     *)
(* group's three lists until the question is none of the last ones of the  *)
(* group, or a second has passed.  A phrase, in turn, is taken until it is *)
(* none of the last ones of its list, or a tenth of a second has passed.   *)
(* Phrases are their numbers; English and Spanish have the same code over  *)
(* lists of their own, and are two values of the constants.                *)
(***************************************************************************)
EXTENDS Naturals, Sequences

CONSTANTS
  MaxQHistory,      (* Questions a group remembers: 100.                   *)
  MaxPhraseHistory, (* Phrases a list remembers: 10.                       *)
  Dices,            (* Outcomes of Random(100).                            *)
  GroupFreq,        (* The frequencies of the groups.                      *)
  ListsOf,          (* group -> its three lists.                           *)
  Plain,            (* The lists without a history: 1, 4 and 7.            *)
  Count,            (* list -> its phrases.                                *)
  MaxTries          (* The tries of a second.                              *)

Groups == 1 .. 3
Lists  == DOMAIN Count

ASSUME MakerAssumption ==
  /\ MaxQHistory \in Nat \ {0} /\ MaxPhraseHistory \in Nat \ {0}
  /\ Dices \subseteq Nat /\ MaxTries \in Nat \ {0}
  /\ GroupFreq \in [Groups -> Nat]
  /\ Count \in [Lists -> Nat \ {0}]
  /\ ListsOf \in [Groups -> Lists \X Lists \X Lists]
  /\ Plain \subseteq Lists

VARIABLES
  history,          (* list -> its ring of phrases tried.                  *)
  qHistory,         (* group -> its ring of questions asked.               *)
  group,            (* Of the question being made; 0: none is.             *)
  tries,            (* The phrases taken for it, so many times.            *)
  late,             (* History: TimedOut, at the last try.                 *)
  slips             (* History: the lists whose phrase was late then.      *)

makerVars == <<history, qHistory, group, tries, late, slips>>

NoQuestion == <<0, 0, 0>>

Questions(g) == (1 .. Count[ListsOf[g][1]]) \X (1 .. Count[ListsOf[g][2]])
                  \X (1 .. Count[ListsOf[g][3]])

(* A ring of size entries: Index is the next to be written.                *)
EmptyRing(size, none) == [Index |-> 1, Entry |-> [i \in 1 .. size |-> none]]

(* Mutant: the index runs past the last entry.                             *)
Recorded_Past(ring, x, size) ==
  [Index |-> IF ring.Index <= size THEN ring.Index + 1 ELSE 1,
   Entry |-> [ring.Entry EXCEPT ![ring.Index] = x]]

Recorded(ring, x, size) ==
  [Index |-> IF ring.Index < size THEN ring.Index + 1 ELSE 1,
   Entry |-> [ring.Entry EXCEPT ![ring.Index] = x]]

Holds(ring, x) == \E i \in DOMAIN ring.Entry : ring.Entry[i] = x

(* Mutant: the look back stops one short of the whole ring.                *)
QuestionAsked_AllButOne(g, q) ==
  \E i \in 1 .. MaxQHistory - 1 : qHistory[g].Entry[i] = q

QuestionAsked(g, q) == Holds(qHistory[g], q)

-----------------------------------------------------------------------------
(* The second threshold is a frequency, not the sum of the two.            *)
GroupOf(dice) ==
  IF dice < GroupFreq[1] THEN 1 ELSE IF dice < GroupFreq[2] THEN 2 ELSE 3

(* MakeNextQuestion: the group is chosen.                                  *)
ChooseGroup ==
  /\ group = 0
  /\ \E dice \in Dices : group' = GroupOf(dice)
  /\ tries' = 0 /\ late' = FALSE /\ slips' = {}
  /\ UNCHANGED <<history, qHistory>>

(* RandomPhraseIndex: a phrase not in the history, or any if it is late.   *)
MayTake(l, phrase, slipped) ==
  l \in Plain \/ slipped \/ ~Holds(history[l], phrase)

(* Each of the lists remembers the phrase taken, whether or not the        *)
(* question is then asked.                                                 *)
Remember(q) ==
  history' = [l \in Lists |->
    IF l \notin Plain /\ \E j \in 1 .. 3 : ListsOf[group][j] = l
    THEN Recorded(history[l], q[CHOOSE j \in 1 .. 3 : ListsOf[group][j] = l],
                  MaxPhraseHistory)
    ELSE history[l]]

(* Mutant: the loop does not end with the second.                          *)
Ends_OnlyNew(q, timedOut) == ~QuestionAsked(group, q)

Ends(q, timedOut) == timedOut \/ ~QuestionAsked(group, q)

(* Three phrases are taken; the question they make is asked, or another    *)
(* try is made.  The second is up at the last of MaxTries.                 *)
Try ==
  /\ group # 0
  /\ \E q \in Questions(group),
        slipped \in SUBSET {ListsOf[group][j] : j \in 1 .. 3},
        timedOut \in BOOLEAN :
       LET done == Ends(q, timedOut)
       IN  /\ slipped \cap Plain = {}
           /\ tries + 1 >= MaxTries => timedOut
           /\ \A j \in 1 .. 3 : MayTake(ListsOf[group][j], q[j],
                                        ListsOf[group][j] \in slipped)
           /\ Remember(q)
           /\ qHistory' = IF done
                          THEN [qHistory EXCEPT ![group] =
                                  Recorded(@, q, MaxQHistory)]
                          ELSE qHistory
           /\ group' = IF done THEN 0 ELSE group
           /\ tries' = IF done THEN 0 ELSE IF tries < MaxTries THEN tries + 1
                                           ELSE tries
           /\ late' = timedOut /\ slips' = slipped

MakerInit ==
  /\ history = [l \in Lists |-> EmptyRing(MaxPhraseHistory, 0)]
  /\ qHistory = [g \in Groups |-> EmptyRing(MaxQHistory, NoQuestion)]
  /\ group = 0 /\ tries = 0
  /\ late = FALSE /\ slips = {}

MakerNext == ChooseGroup \/ Try

MakerSpec == MakerInit /\ [][MakerNext]_makerVars

(* The loops end by the clock.                                             *)
MakerFairSpec == MakerSpec /\ WF_makerVars(MakerNext)

-----------------------------------------------------------------------------
(* The state is what the rings and the loop can hold: a group that the     *)
(* dice cannot choose has asked nothing.                                   *)
MakerTypeOK ==
  /\ \A l \in Lists :
       /\ history[l].Index \in 1 .. MaxPhraseHistory
       /\ history[l].Entry \in [1 .. MaxPhraseHistory -> 0 .. Count[l]]
  /\ \A g \in Groups :
       /\ qHistory[g].Index \in 1 .. MaxQHistory
       /\ \A i \in 1 .. MaxQHistory : LET q == qHistory[g].Entry[i] IN
            \/ q = NoQuestion
            \/ /\ q \in Questions(g)
               /\ \E dice \in Dices : GroupOf(dice) = g
  /\ group \in 0 .. 3 /\ tries \in 0 .. MaxTries
  /\ late \in BOOLEAN /\ slips \in SUBSET (Lists \ Plain)

(* A ring from its oldest entry, which is the next to be overwritten; or,  *)
(* while that has never been written, the first.                           *)
Queue(ring, none) ==
  LET newest == SubSeq(ring.Entry, 1, ring.Index - 1)
  IN  IF ring.Entry[ring.Index] = none THEN newest
      ELSE SubSeq(ring.Entry, ring.Index, Len(ring.Entry)) \o newest

asked == [g \in Groups |-> Queue(qHistory[g], NoQuestion)]
tried == [l \in Lists \ Plain |-> Queue(history[l], 0)]

Promise == INSTANCE QuestionPromise WITH Lists <- Lists \ Plain

(* No question of a group's last MaxQHistory is asked, and no phrase of a  *)
(* list's last MaxPhraseHistory is tried, before the time is up, however   *)
(* the groups share their lists and the rings turn.                        *)
KeepsPromise == Promise!Spec

(* A question that is begun is made, also when every phrase and every      *)
(* question of the lists is still remembered.                              *)
AlwaysAsks == group # 0 ~> group = 0
=============================================================================
