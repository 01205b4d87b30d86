--------------------------- MODULE Questions_proofs ---------------------------
(***************************************************************************)
(* Proofs about 33 Questions Per Minute.                                   *)
(*                                                                         *)
(* QuestionScreen, for every range of the clock and all settings: it keeps *)
(* its types; a question keeps the screen for its period; the screen does  *)
(* not stand still; entry and count-down give it back; and a visitor's     *)
(* question is answered on time.                                           *)
(*                                                                         *)
(* QuestionMaker, for any lists and histories: its rings are the queues of *)
(* QuestionPromise.  A ring that is not full is known by the empty entry   *)
(* at its index (IsRing); from there on its queue is read entry by entry   *)
(* (Unrolls), and recording appends to it (QueueRecorded).                 *)
(***************************************************************************)
EXTENDS QuestionScreen, QuestionMaker, SequenceTheorems, TLAPS

(* The sizes, each by itself.                                              *)
LEMMA Sizes ==
  /\ Wrap \in Nat /\ Second \in Nat /\ CountDownPeriod \in Nat
  /\ Longest \in Nat
  /\ \A p \in Periods : p \in Nat /\ p > 0
  /\ \A n \in PerLanguages : n \in Nat /\ n > 0
  BY ScreenAssumption

(* The clock goes on by one, or starts again.                              *)
LEMMA NextReading ==
  ASSUME TypeOK, now' = (now + 1) % Wrap
  PROVE  /\ now' \in Times
         /\ now + 1 < Wrap => now' = now + 1
         /\ now + 1 = Wrap => now' = 0
<1>1. now \in Nat /\ Wrap \in Nat /\ now < Wrap
  BY ScreenAssumption DEF TypeOK, Times
<1>2. (now + 1) % Wrap \in 0 .. Wrap - 1
  BY <1>1, SMT
<1>3. now + 1 < Wrap => (now + 1) % Wrap = now + 1
  BY <1>1, SMT
<1>4. now + 1 = Wrap => (now + 1) % Wrap = 0
  BY <1>1, SMT
<1>5. QED
  BY <1>2, <1>3, <1>4 DEF Times

(* What a tick does to Edit and Lcd.                                       *)
LEMMA DisplayType ==
  ASSUME TypeOK, Display
  PROVE  /\ edit' \in BOOLEAN /\ lcd' \in BOOLEAN /\ zero' \in BOOLEAN
         /\ ~(edit' /\ lcd') /\ since' \in Times
<1>1. 0 \in Times
  BY ScreenAssumption DEF TypeOK, Times
<1>2. CASE lcd /\ UpdateLcd /\ edit' = edit
  <2>1. edit' = FALSE
    BY <1>2 DEF TypeOK
  <2>2. zero' \in BOOLEAN
    <3>1. zero' = zero \/ zero' = TRUE \/ zero' = FALSE
      BY <1>2 DEF UpdateLcd
    <3>2. QED
      BY <3>1 DEF TypeOK
  <2>3. lcd' \in BOOLEAN /\ since' \in Times
    BY <1>1, <1>2 DEF UpdateLcd, TypeOK
  <2>4. QED
    BY <2>1, <2>2, <2>3
<1>3. CASE ~lcd /\ edit /\ UpdateEditTimeOut /\ UNCHANGED <<lcd, zero>>
  BY <1>1, <1>3 DEF UpdateEditTimeOut, TypeOK
<1>4. CASE ~lcd /\ ~edit /\ UNCHANGED entry
  BY <1>4 DEF TypeOK, entry
<1>5. QED
  BY <1>2, <1>3, <1>4 DEF Display

(* Which language a question is in, and how many have been.                *)
LEMMA NextLanguageType ==
  ASSUME TypeOK, NextLanguage
  PROVE  /\ QCount' \in Nat
         /\ QCount' > 1 => \E n \in PerLanguages : QCount' <= n
         /\ CurrentLanguage' \in {"english", "spanish"}
<1>1. CASE language = "sequence" /\ QCount < QPerLanguage
  BY <1>1, ScreenAssumption DEF NextLanguage, TypeOK
<1>2. CASE language = "sequence" /\ QCount >= QPerLanguage
  <2>1. QCount' = 1 /\ CurrentLanguage' = Other(CurrentLanguage)
    BY <1>2, ScreenAssumption DEF NextLanguage, TypeOK
  <2>2. QED
    BY <2>1 DEF Other
<1>3. CASE language # "sequence"
  BY <1>3 DEF NextLanguage, TypeOK
<1>4. QED
  BY <1>1, <1>2, <1>3, ScreenAssumption DEF TypeOK

(* What a tick leaves on the screen.                                       *)
LEMMA ShownType ==
  ASSUME TypeOK, NEW asks \in BOOLEAN, Shown(asks),
         CurrentLanguage' \in {"english", "spanish"}
  PROVE  /\ question' \in {"none", "visitor", "torn", "english", "spanish"}
         /\ unfit' \in BOOLEAN /\ LastQuestionTime' \in Times
         /\ age' \in 0 .. Longest /\ lost' \in 0 .. Longest /\ paused' \in BOOLEAN
<1>1. question' \in {"none", "visitor", "torn", "english", "spanish"}
  BY DEF Shown, TypeOK
<1>2. unfit' \in BOOLEAN
  BY DEF Shown, TypeOK
<1>3. LastQuestionTime' \in Times
  BY DEF Shown, PeriodStart, TypeOK
<1>4. age' \in 0 .. Longest /\ lost' \in 0 .. Longest
  BY Sizes DEF Shown, Later, TypeOK
<1>5. paused' \in BOOLEAN
  BY DEF Shown, TypeOK
<1>6. QED
  BY <1>1, <1>2, <1>3, <1>4, <1>5

LEMMA TimerTimerType == TypeOK /\ TimerTimer => TypeOK'
<1> SUFFICES ASSUME TypeOK, TimerTimer PROVE TypeOK'
  OBVIOUS
<1>1. /\ ticked' = TRUE
      /\ UNCHANGED <<now, timer, setup, language, QPerLanguage, period, waited, held>>
      /\ ~setup /\ timer
  BY DEF TimerTimer, settings, TypeOK
<1>2. CASE UNCHANGED <<maker, entry, age, lost, paused>>
  BY <1>1, <1>2 DEF TypeOK, maker, entry
<1>3. CASE /\ NextLanguage /\ LastQuestionTime' = now
           /\ UNCHANGED <<question, unfit, entry, age, lost, paused>>
  BY <1>1, <1>3, NextLanguageType DEF TypeOK, entry
<1>4. CASE NextLanguage /\ Display /\ Shown(TRUE)
  BY <1>1, <1>4, NextLanguageType, DisplayType, ShownType DEF TypeOK
<1>5. CASE Display /\ Shown(FALSE) /\ UNCHANGED <<QCount, CurrentLanguage>>
  BY <1>1, <1>5, DisplayType, ShownType DEF TypeOK
<1>6. QED
  BY <1>2, <1>3, <1>4, <1>5 DEF TimerTimer

LEMMA InitType == Init => TypeOK
<1> SUFFICES ASSUME Init PROVE TypeOK
  OBVIOUS
<1>1. 0 \in Times /\ 0 \in 0 .. Longest /\ QCount = 0
  BY Sizes DEF Init, Times
<1>2. QCount \in Nat /\ ~(QCount > 1)
  BY <1>1
<1>3. /\ ticked \in BOOLEAN /\ timer /\ timer \in BOOLEAN /\ ~setup /\ setup \in BOOLEAN
      /\ unfit \in BOOLEAN /\ edit \in BOOLEAN
      /\ lcd \in BOOLEAN /\ zero \in BOOLEAN /\ ~(edit /\ lcd)
      /\ paused \in BOOLEAN /\ held \in BOOLEAN
  BY DEF Init
<1>4. QED
  BY <1>1, <1>2, <1>3 DEF Init, TypeOK

(* Every step keeps the types.                                             *)
LEMMA NextType == TypeOK /\ [Next]_vars => TypeOK'
<1> SUFFICES ASSUME TypeOK, [Next]_vars PROVE TypeOK'
  OBVIOUS
<1>1. CASE TimerTimer
  BY <1>1, TimerTimerType
<1>2. CASE FormKeyDown
  <2>1. waited' \in 0 .. Longest /\ held' = FALSE /\ edit' = TRUE /\ since' = now
    BY <1>2, Sizes DEF FormKeyDown
  <2>2. UNCHANGED <<now, ticked, timer, setup, language, QPerLanguage, period, QCount,
                    CurrentLanguage, question, unfit, LastQuestionTime, lcd, zero, age,
                    lost, paused>> /\ lcd = FALSE
    BY <1>2 DEF FormKeyDown, maker, settings, TypeOK
  <2>3. QED
    BY <2>1, <2>2 DEF TypeOK
<1>3. CASE EditKeyPress
  <2>1. waited' \in 0 .. Longest /\ held' \in BOOLEAN /\ edit' = FALSE /\ since' = now
    BY <1>3, Sizes DEF EditKeyPress
  <2>2. UNCHANGED <<now, ticked, timer, setup, language, QPerLanguage, period, QCount,
                    CurrentLanguage, question, unfit, LastQuestionTime, age, lost, paused>>
    BY <1>3 DEF EditKeyPress, maker, settings
  <2>3. zero' \in BOOLEAN /\ lcd' = TRUE
    BY <1>3 DEF EditKeyPress
  <2>4. QED
    BY <2>1, <2>2, <2>3 DEF TypeOK
<1>4. CASE OpenSetup
  BY <1>4 DEF OpenSetup, TypeOK, maker, settings, entry
<1>5. CASE CloseSetup
  BY <1>5 DEF CloseSetup, TypeOK, maker, entry, histories
<1>6. CASE Clock
  <2>1. now' \in Times
    BY <1>6, NextReading DEF Clock
  <2>2. age' \in 0 .. Longest /\ waited' \in 0 .. Longest
    BY <1>6, ScreenAssumption DEF Clock, Later, TypeOK
  <2>3. held' \in BOOLEAN /\ ticked' = FALSE
    BY <1>6 DEF Clock, TypeOK
  <2>4. QED
    BY <1>6, <2>1, <2>2, <2>3 DEF Clock, TypeOK, settings, maker, entry
<1>7. CASE UNCHANGED vars
  BY <1>7 DEF vars, TypeOK, settings, maker, entry, histories
<1>8. QED
  BY <1>1, <1>2, <1>3, <1>4, <1>5, <1>6, <1>7 DEF Next

(* Every variable keeps its type, Edit and Lcd are never on the screen     *)
(* together, and the count of questions stays within a setting's           *)
(* (Main.pas:136-145, 290-318; QMakerU.pas:542-560).                       *)
THEOREM ScreenTypeCorrect == Spec => []TypeOK
  BY InitType, NextType, PTL DEF Spec

-----------------------------------------------------------------------------
(* Ages are counted further than any period.                               *)
LEMMA PeriodFits ==
  ASSUME TypeOK
  PROVE  /\ period \in Nat /\ period > 0 /\ period < Longest
         /\ QPerLanguage \in Nat /\ QPerLanguage > 0
<1>1. period \in Nat /\ period > 0 /\ QPerLanguage \in Nat /\ QPerLanguage > 0
  BY Sizes DEF TypeOK
<1>2. (QPerLanguage + 1) * period < Longest
  BY ScreenAssumption DEF TypeOK
<1>3. (QPerLanguage + 1) * period >= period
  <2>1. QPerLanguage * period >= 0
    BY <1>1, SMT
  <2>2. (QPerLanguage + 1) * period = QPerLanguage * period + period
    BY <1>1, SMT
  <2>3. QED
    BY <1>1, <2>1, <2>2
<1>4. QED
  BY <1>1, <1>2, <1>3, Sizes

(* The numbers of the state, as numbers.                                   *)
LEMMA Numbers ==
  ASSUME TypeOK
  PROVE  /\ now \in Nat /\ now < Wrap /\ Wrap \in Nat
         /\ LastQuestionTime \in Nat /\ LastQuestionTime < Wrap
         /\ age \in Nat /\ age <= Longest /\ Longest \in Nat
         /\ lost \in Nat /\ lost <= Longest
         /\ QCount \in Nat
  BY Sizes DEF TypeOK, Times

(* A tick either leaves question, age and LastQuestionTime alone, or keeps *)
(* the time and fails, or starts both anew, or loses a visitor's text.     *)
TickUnchanged == /\ UNCHANGED <<QCount, CurrentLanguage, question, LastQuestionTime,
                                age, lost>>
                 /\ (paused' <=> paused)
TickFails == /\ TimeForANewQuestion /\ NextLanguage
             /\ Overflows(CurrentLanguage') /\ LastQuestionTime' = now
             /\ UNCHANGED <<question, age, lost>> /\ (paused' <=> paused)
TickShows == /\ LastQuestionTime' = now /\ age' = 0
             /\ ~paused'
             /\ TimeForANewQuestion \/ Answered
TickLoses == /\ Answered /\ LastQuestionTime' = now
             /\ UNCHANGED <<QCount, CurrentLanguage, age>> /\ lost' = Later(lost)
             /\ (paused' <=> paused)

LEMMA TickCases ==
  ASSUME TypeOK, TimerTimer
  PROVE  /\ timer
         /\ UNCHANGED <<now, timer, language, QPerLanguage, period>>
         /\ ticked' = TRUE
         /\ \/ TickUnchanged /\ (OutOfRange \/ ~TimeForANewQuestion)
            \/ TickFails
            \/ TickShows
            \/ TickLoses
<1>1. /\ timer /\ ticked' = TRUE
      /\ UNCHANGED <<now, timer, language, QPerLanguage, period>>
  BY DEF TimerTimer, settings
<1>2. CASE OutOfRange /\ UNCHANGED <<maker, entry, age, lost, paused>>
  BY <1>1, <1>2 DEF TickUnchanged, maker
<1>3. CASE /\ TimeForANewQuestion /\ NextLanguage /\ Overflows(CurrentLanguage')
           /\ LastQuestionTime' = now
           /\ UNCHANGED <<question, unfit, entry, age, lost, paused>>
  BY <1>1, <1>3 DEF TickFails
<1>4. CASE TimeForANewQuestion /\ NextLanguage /\ Shown(TRUE)
  BY <1>1, <1>4 DEF Shown, PeriodStart, TickShows
<1>5. CASE /\ ~TimeForANewQuestion /\ Shown(FALSE)
           /\ UNCHANGED <<QCount, CurrentLanguage>>
  <2>1. CASE Answered /\ ~unfit'
    BY <1>1, <1>5, <2>1 DEF Shown, PeriodStart, TickShows
  <2>2. CASE Answered /\ unfit'
    BY <1>1, <1>5, <2>2 DEF Shown, PeriodStart, TickLoses
  <2>3. CASE ~Answered
    BY <1>1, <1>5, <2>3 DEF Shown, PeriodStart, TickUnchanged
  <2>4. QED
    BY <2>1, <2>2, <2>3
<1>6. QED
  BY <1>1, <1>2, <1>3, <1>4, <1>5 DEF TimerTimer

(* Only a tick that has come to UpdateLcd answers a visitor.               *)
LEMMA TickAnswers ==
  ASSUME TypeOK, TimerTimer, Answered
  PROVE  ~OutOfRange
BY DEF TimerTimer, Answered, entry, TimeForANewQuestion, TypeOK

(* What the others leave alone.                                            *)
LEMMA OtherCases ==
  ASSUME TypeOK, FormKeyDown \/ EditKeyPress \/ OpenSetup \/ CloseSetup
                   \/ UNCHANGED vars
  PROVE  /\ UNCHANGED <<now, question, LastQuestionTime, age, lost, QCount,
                        CurrentLanguage>>
         /\ UNCHANGED <<timer, ticked, paused, language, QPerLanguage, period>>
              \/ paused' \/ (~timer /\ paused' = paused)
<1>1. setup => ~timer
  BY DEF TypeOK
<1>2. QED
  BY <1>1 DEF FormKeyDown, EditKeyPress, OpenSetup, CloseSetup, vars, maker, histories,
              settings, entry

-----------------------------------------------------------------------------
(* A question is as old as the time since it was asked.                    *)
LEMMA NextAgeInv ==
  ASSUME TypeOK, AgeInv, [Next]_vars
  PROVE  AgeInv'
<1>1. CASE TimerTimer
  <2>1. CASE TickUnchanged
    BY <1>1, <2>1, TickCases DEF TickUnchanged, AgeInv
  <2>2. CASE TickFails \/ TickShows \/ TickLoses
    <3>1. LastQuestionTime' = now /\ now' = now /\ age' \in Nat
      BY <1>1, <2>2, TickCases, Numbers DEF TickFails, TickShows, TickLoses
    <3>2. QED
      BY <3>1, Numbers DEF AgeInv
  <2>3. QED
    BY <1>1, <2>1, <2>2, TickCases
<1>2. CASE Clock
  <2>1. /\ UNCHANGED <<question, LastQuestionTime>> /\ age' = Later(age)
        /\ now' = (now + 1) % Wrap
    BY <1>2 DEF Clock, maker
  <2>2. now' = now + 1 \/ now' = 0
    BY <2>1, NextReading, Numbers
  <2>3. age' \in Nat /\ (age' = Longest \/ age' = age + 1)
    BY <2>1, Numbers DEF Later
  <2>4. CASE now' = 0
    BY <2>1, <2>3, <2>4, Numbers DEF AgeInv
  <2>5. CASE now' = now + 1
    <3>1. now >= LastQuestionTime \/ now' - LastQuestionTime <= 0
      BY <2>5, Numbers
    <3>2. now' - LastQuestionTime = now - LastQuestionTime + 1
      BY <2>5, Numbers
    <3>3. age = Longest => age' = Longest
      BY <2>1, Numbers DEF Later
    <3>4. UNCHANGED <<question, LastQuestionTime>>
      BY <2>1
    <3>5. ASSUME question # "none"
          PROVE  age' >= now' - LastQuestionTime \/ age' = Longest
      <4>1. CASE now >= LastQuestionTime
        BY <2>3, <3>2, <3>3, <3>5, <4>1, Numbers DEF AgeInv
      <4>2. CASE now' - LastQuestionTime <= 0
        BY <2>3, <2>5, <4>2, Numbers
      <4>3. QED
        BY <3>1, <4>1, <4>2
    <3>6. QED
      BY <3>4, <3>5 DEF AgeInv
  <2>6. QED
    BY <2>2, <2>4, <2>5
<1>3. CASE FormKeyDown \/ EditKeyPress \/ OpenSetup \/ CloseSetup \/ UNCHANGED vars
  BY <1>3, OtherCases DEF AgeInv
<1>4. QED
  BY <1>1, <1>2, <1>3 DEF Next

(* For every range of the clock and all settings: a question gives way to  *)
(* one the program made no sooner than a period after it came up, over the *)
(* clock's restart, a Spanish question that failed and a visit to the      *)
(* dialog too (QMakerU.pas:568-578, Main.pas:181-188, 325-328).            *)
THEOREM ScreenHoldsItsQuestion == Spec => HoldsItsQuestion
<1>1. Init => AgeInv
  BY DEF Init, AgeInv
<1>2. TypeOK /\ AgeInv /\ [Next]_vars => AgeInv'
  BY NextAgeInv
<1>3. ASSUME TypeOK, AgeInv, [Next]_vars
      PROVE  LastQuestionTime' # LastQuestionTime /\ ~Answered
               => question = "none" \/ age >= period
  <2>1. CASE TimerTimer
    <3>1. ASSUME TimeForANewQuestion, question # "none" PROVE age >= period
      BY <1>3, <3>1, Numbers, PeriodFits DEF TimeForANewQuestion, AgeInv
    <3>2. QED
      BY <1>3, <2>1, <3>1, TickCases DEF TickUnchanged, TickFails, TickShows, TickLoses
  <2>2. CASE ~TimerTimer
    BY <1>3, <2>2, OtherCases DEF Next, Clock, maker
  <2>3. QED
    BY <2>1, <2>2
<1>4. TypeOK /\ AgeInv /\ [Next]_vars =>
        [LastQuestionTime' # LastQuestionTime /\ ~Answered
           => question = "none" \/ age >= period]_vars
  BY <1>3
<1>5. QED
  BY <1>1, <1>2, <1>4, ScreenTypeCorrect, PTL DEF Spec, HoldsItsQuestion

-----------------------------------------------------------------------------
(* One more period.                                                        *)
LEMMA OneMore ==
  ASSUME NEW f \in Nat, NEW p \in Nat
  PROVE  /\ 0 * p = 0 /\ f * p \in Nat /\ (f + 1) * p = f * p + p
         /\ \A n \in Nat : f <= n => f * p <= n * p
<1>1. 0 * p = 0 /\ f * p \in Nat /\ (f + 1) * p = f * p + p
  BY SMT
<1>2. ASSUME NEW n \in Nat, f <= n PROVE f * p <= n * p
  <2>1. n = f + (n - f) /\ n - f \in Nat
    BY <1>2
  <2>2. (n - f) * p \in Nat
    BY <2>1, SMT
  <2>3. n * p = f * p + (n - f) * p
    BY <2>1, SMT
  <2>4. QED
    BY <1>1, <2>2, <2>3
<1>3. QED
  BY <1>1, <1>2

(* Of a question that just came up.                                        *)
JustUp    == TypeOK /\ LastQuestionTime = now /\ age = 0
WithinOne == /\ now >= LastQuestionTime /\ now - LastQuestionTime <= period
             /\ now - LastQuestionTime < period
             /\ \E f \in 0 .. QPerLanguage : FailedSince(f)

LEMMA JustUpWithin == JustUp => WithinOne
<1> SUFFICES ASSUME JustUp PROVE WithinOne
  OBVIOUS
<1>1. now - LastQuestionTime = 0 /\ now >= LastQuestionTime /\ age = 0
  BY Numbers DEF JustUp
<1>2. period \in Nat /\ period > 0 /\ QPerLanguage \in Nat
  BY PeriodFits DEF JustUp
<1>3. FailedSince(0)
  <2>1. lost + 0 \in Nat /\ (lost + 0) * period \in Nat
    BY <1>2, OneMore, Numbers DEF JustUp
  <2>2. QED
    BY <1>1, <2>1 DEF FailedSince
<1>4. QED
  BY <1>1, <1>2, <1>3 DEF WithinOne

(* And so after a step.                                                    *)
LEMMA NoneFailed == JustUp' => WithinOne'
  BY JustUpWithin, PTL

(* A tick that fails: a Spanish question of a run of them.                 *)
LEMMA OneMoreFailed ==
  ASSUME TypeOK, StillInv, TickFails, ~paused, ~OutOfRange,
         language \in {"english", "sequence"},
         UNCHANGED <<now, language, QPerLanguage, period>>
  PROVE  \E f \in 0 .. QPerLanguage : FailedSince(f)'
<1>1. PICK f \in 0 .. QPerLanguage : FailedSince(f)
  BY DEF StillInv
<1>2. /\ now >= LastQuestionTime /\ now - LastQuestionTime <= period
      /\ LastQuestionTime' = now /\ age' = age /\ lost' = lost
  BY DEF StillInv, TickFails
<1>8. age <= (lost + (f + 1)) * period + (now - now)
  <2>1. /\ lost + f \in Nat /\ lost + (f + 1) = (lost + f) + 1
        /\ ((lost + f) + 1) * period = (lost + f) * period + period
        /\ (lost + f) * period \in Nat
    BY <1>1, OneMore, Numbers, PeriodFits
  <2>2. QED
    BY <1>1, <1>2, <2>1, Numbers, PeriodFits DEF FailedSince
<1>3. CurrentLanguage' = "spanish" /\ now >= HalfWrap
  BY DEF TickFails, Overflows
<1>4. language = "sequence"
  BY <1>3 DEF TickFails, NextLanguage
<1>5. CASE QCount < QPerLanguage /\ CurrentLanguage' = CurrentLanguage
             /\ QCount' = QCount + 1
  <2>1. f + 1 <= QCount' /\ f + 1 \in 0 .. QPerLanguage
    BY <1>1, <1>5, Numbers, PeriodFits DEF FailedSince
  <2>3. FailedSince(f + 1)'
    BY <1>2, <1>3, <1>4, <1>8, <2>1 DEF FailedSince
  <2>4. QED
    BY <2>1, <2>3
<1>6. CASE QCount >= QPerLanguage /\ QCount' = 1
             /\ CurrentLanguage' = Other(CurrentLanguage)
  <2>1. f = 0
    BY <1>1, <1>3, <1>6 DEF FailedSince, Other
  <2>3. FailedSince(1)'
    BY <1>2, <1>3, <1>4, <1>6, <1>8, <2>1 DEF FailedSince
  <2>4. QED
    BY <2>3, PeriodFits
<1>7. QED
  BY <1>4, <1>5, <1>6 DEF TickFails, NextLanguage

(* A tick that loses a visitor's text: a period more.                      *)
LEMMA OneMoreLost ==
  ASSUME TypeOK, StillInv, TickLoses, ~paused, ~OutOfRange,
         language \in {"english", "sequence"},
         UNCHANGED <<now, language, QPerLanguage, period>>
  PROVE  \E f \in 0 .. QPerLanguage : FailedSince(f)'
<1>1. PICK f \in 0 .. QPerLanguage : FailedSince(f)
  BY DEF StillInv
<1>2. /\ now >= LastQuestionTime /\ now - LastQuestionTime <= period
      /\ LastQuestionTime' = now /\ age' = age /\ lost' = Later(lost)
      /\ UNCHANGED <<QCount, CurrentLanguage>>
  BY DEF StillInv, TickLoses
<1>3. age <= (lost' + f) * period + (now - now)
  <2>1. CASE lost < Longest
    <3>1. /\ lost + f \in Nat /\ lost' + f = (lost + f) + 1
          /\ ((lost + f) + 1) * period = (lost + f) * period + period
          /\ (lost + f) * period \in Nat
      BY <1>1, <1>2, <2>1, OneMore, Numbers, PeriodFits DEF Later
    <3>2. QED
      BY <1>1, <1>2, <3>1, Numbers, PeriodFits DEF FailedSince
  <2>2. CASE lost = Longest
    <3>1. lost' = Longest /\ Longest + f \in Nat /\ Longest <= Longest + f
      BY <1>1, <1>2, <2>2, Numbers, PeriodFits DEF Later
    <3>2. (Longest + f) * 1 <= (Longest + f) * period
      BY <3>1, PeriodFits, SMT
    <3>3. (Longest + f) * period \in Nat
      BY <3>1, OneMore, PeriodFits
    <3>4. QED
      BY <3>1, <3>2, <3>3, Numbers
  <2>3. QED
    BY <2>1, <2>2, Numbers
<1>4. LastQuestionTime >= HalfWrap => now >= HalfWrap
  <2>1. HalfWrap \in Int
    BY Sizes DEF HalfWrap
  <2>2. QED
    BY <1>2, <2>1, Numbers
<1>5. FailedSince(f)'
  BY <1>1, <1>2, <1>3, <1>4 DEF FailedSince
<1>6. QED
  BY <1>5

LEMMA NextStillInv ==
  ASSUME TypeOK, TypeOK', StillInv, [Next]_vars
  PROVE  StillInv'
<1>1. CASE TimerTimer
  <2>1. /\ UNCHANGED <<now, timer, language, QPerLanguage, period>> /\ timer
        /\ ticked' = TRUE
    BY <1>1, TickCases
  <2>2. CASE TickUnchanged /\ (OutOfRange \/ ~TimeForANewQuestion)
    <3>1. UNCHANGED <<LastQuestionTime, age, lost, QCount, CurrentLanguage>>
            /\ (paused' <=> paused)
      BY <2>2 DEF TickUnchanged
    <3>2. ~OutOfRange => now - LastQuestionTime < period
      BY <2>2, Numbers, PeriodFits DEF TimeForANewQuestion
    <3>3. (OutOfRange' <=> OutOfRange)
            /\ \A f \in Nat : FailedSince(f)' <=> FailedSince(f)
      BY <2>1, <3>1 DEF OutOfRange, FailedSince
    <3>4. QED
      BY <2>1, <3>1, <3>2, <3>3, PeriodFits DEF StillInv
  <2>3. CASE TickFails
    <3>1. LastQuestionTime' = now' /\ (paused' <=> paused) /\ ~OutOfRange
      BY <2>1, <2>3 DEF TickFails, TimeForANewQuestion
    <3>2. ~paused /\ language \in {"english", "sequence"}
            => \E f \in 0 .. QPerLanguage : FailedSince(f)'
      BY <2>1, <2>3, <3>1, OneMoreFailed
    <3>3. now' - LastQuestionTime' = 0 /\ period' > 0
      BY <2>1, <3>1, Numbers, PeriodFits
    <3>4. QED
      BY <2>1, <3>1, <3>2, <3>3, Numbers, PeriodFits DEF StillInv
  <2>4. CASE TickShows
    <3>1. JustUp'
      BY <2>1, <2>4 DEF TickShows, JustUp
    <3>2. QED
      BY <2>1, <3>1, NoneFailed DEF StillInv, WithinOne
  <2>5. CASE TickLoses
    <3>1. LastQuestionTime' = now' /\ (paused' <=> paused)
      BY <2>1, <2>5 DEF TickLoses
    <3>2. ~paused /\ ~OutOfRange /\ language \in {"english", "sequence"}
            => \E f \in 0 .. QPerLanguage : FailedSince(f)'
      BY <2>1, <2>5, OneMoreLost
    <3>3. now' - LastQuestionTime' = 0 /\ period' > 0
      BY <2>1, <3>1, Numbers, PeriodFits
    <3>4. CASE OutOfRange
      BY <1>1, <2>5, <3>4, TickAnswers DEF TickLoses
    <3>5. CASE ~OutOfRange
      BY <2>1, <3>1, <3>2, <3>3, <3>5, Numbers, PeriodFits DEF StillInv
    <3>6. QED
      BY <3>4, <3>5
  <2>6. QED
    BY <1>1, <2>2, <2>3, <2>4, <2>5, TickCases
<1>2. CASE Clock
  <2>1. /\ UNCHANGED <<timer, language, QPerLanguage, period, QCount,
                       CurrentLanguage, LastQuestionTime, lost, paused>>
        /\ now' = (now + 1) % Wrap /\ age' = Later(age) /\ ticked' = FALSE
        /\ ticked \/ ~timer
    BY <1>2 DEF Clock, maker, settings
  <2>2. SUFFICES ASSUME ~paused, ~OutOfRange, language \in {"english", "sequence"}
                 PROVE  /\ now' >= LastQuestionTime
                        /\ now' - LastQuestionTime <= period
                        /\ \E f \in 0 .. QPerLanguage : FailedSince(f)'
    BY <2>1 DEF StillInv, OutOfRange
  <2>3. now >= LastQuestionTime /\ now - LastQuestionTime < period
    BY <2>1, <2>2 DEF StillInv
  <2>4. now' = now + 1
    <3>1. now + 1 < Wrap
      BY <2>2, <2>3, Numbers, PeriodFits DEF OutOfRange
    <3>2. QED
      BY <2>1, <3>1, NextReading
  <2>5. PICK f \in 0 .. QPerLanguage : FailedSince(f)
    BY <2>2 DEF StillInv
  <2>6. age' <= age + 1 /\ age' \in Nat
    BY <2>1, Numbers DEF Later
  <2>7. (lost + f) * period \in Nat
    BY <2>5, OneMore, Numbers, PeriodFits
  <2>8. age' <= (lost + f) * period + (now' - LastQuestionTime)
    BY <2>4, <2>5, <2>6, <2>7, Numbers DEF FailedSince
  <2>9. FailedSince(f)'
    BY <2>1, <2>5, <2>8 DEF FailedSince
  <2>10. QED
    BY <2>3, <2>4, <2>9, Numbers, PeriodFits
<1>3. CASE FormKeyDown \/ EditKeyPress \/ OpenSetup \/ CloseSetup \/ UNCHANGED vars
  <2>1. UNCHANGED <<now, LastQuestionTime, age, lost, QCount, CurrentLanguage>>
    BY <1>3, OtherCases
  <2>2. CASE UNCHANGED <<timer, ticked, paused, language, QPerLanguage, period>>
    BY <2>1, <2>2 DEF StillInv, OutOfRange, FailedSince
  <2>3. CASE paused' \/ (~timer /\ paused' = paused)
    BY <2>3 DEF StillInv
  <2>4. QED
    BY <1>3, <2>2, <2>3, OtherCases
<1>4. QED
  BY <1>1, <1>2, <1>3 DEF Next

(* For every range of the clock and all settings: a question on the screen *)
(* is not older than its period; when Spanish ones fail, than the periods  *)
(* of a run of them and of the next; and than a period more for each       *)
(* visitor's text that could not be laid out since (QMakerU.pas:449-470,   *)
(* 542-578, Main.pas:320-334); unless the operator has been there, or      *)
(* every tick fails.                                                       *)
THEOREM ScreenNeverStandsStill == Spec => []NeverStandsStill
<1>1. Init => StillInv
  BY DEF Init, StillInv
<1>2. TypeOK /\ TypeOK' /\ StillInv /\ [Next]_vars => StillInv'
  BY NextStillInv
<1>3. TypeOK /\ StillInv => NeverStandsStill
  <2> SUFFICES ASSUME TypeOK, StillInv, ~paused, ~OutOfRange,
                      language \in {"english", "sequence"}
               PROVE  age <= (lost + IF language = "sequence" /\ now >= HalfWrap
                                     THEN QPerLanguage + 1 ELSE 1) * period
    BY DEF NeverStandsStill
  <2> DEFINE runs == IF language = "sequence" /\ now >= HalfWrap
                     THEN QPerLanguage + 1 ELSE 1
  <2>1. PICK f \in 0 .. QPerLanguage : FailedSince(f)
    BY DEF StillInv
  <2>2. now >= LastQuestionTime /\ now - LastQuestionTime <= period
    BY DEF StillInv
  <2>3. runs \in Nat /\ f + 1 <= runs
    <3>1. HalfWrap \in Int
      BY Sizes DEF HalfWrap
    <3>2. f > 0 => language = "sequence" /\ now >= HalfWrap
      BY <2>1, <2>2, <3>1, Numbers DEF FailedSince
    <3>3. QED
      BY <2>1, <3>2, PeriodFits
  <2>4. /\ lost + f \in Nat /\ (lost + f) * period \in Nat
        /\ ((lost + f) + 1) * period = (lost + f) * period + period
    BY <2>1, OneMore, Numbers, PeriodFits
  <2>5. age <= ((lost + f) + 1) * period
    BY <2>1, <2>2, <2>4, Numbers, PeriodFits DEF FailedSince
  <2>6. (lost + f) + 1 \in Nat /\ lost + runs \in Nat /\ (lost + f) + 1 <= lost + runs
    BY <2>1, <2>3, Numbers
  <2>7. ((lost + f) + 1) * period <= (lost + runs) * period
    BY <2>6, OneMore, PeriodFits
  <2>8. ((lost + f) + 1) * period \in Nat /\ (lost + runs) * period \in Nat
    BY <2>6, OneMore, PeriodFits
  <2>9. age <= (lost + runs) * period
    BY <2>5, <2>7, <2>8, Numbers
  <2>10. QED
    BY <2>9
<1>4. QED
  BY <1>1, <1>2, <1>3, ScreenTypeCorrect, PTL DEF Spec

-----------------------------------------------------------------------------
(* The sizes behind entry and count-down.                                  *)
LEMMA EntrySizes ==
  ASSUME TypeOK
  PROVE  /\ CountDownPeriod \in Nat /\ Second \in Nat /\ Second >= 2
         /\ CountDownPeriod + Second < Longest
         /\ EditTimeOut \in Nat /\ EditTimeOut > 0
         /\ period \in Nat /\ period >= 2
         /\ since \in Nat /\ waited \in Nat /\ waited <= Longest
<1>1. /\ CountDownPeriod \in Nat /\ Second \in Nat /\ Second >= 2
      /\ CountDownPeriod + Second < Longest
      /\ EditTimeOut \in Nat /\ EditTimeOut > 0
  BY ScreenAssumption
<1>2. period \in Nat /\ period > 0 /\ period # 1
  BY PeriodFits, ScreenAssumption DEF TypeOK
<1>3. since \in Nat /\ waited \in Nat /\ waited <= Longest
  BY Numbers DEF TypeOK, Times
<1>4. QED
  BY <1>1, <1>2, <1>3

(* What a tick does to entry and count-down: nothing, when it fails.       *)
TickStuck  == OutOfRange /\ UNCHANGED <<entry, LastQuestionTime>>
TickMissed == /\ TimeForANewQuestion /\ LastQuestionTime' = now
              /\ Overflows(CurrentLanguage') /\ UNCHANGED entry
TickDone   == /\ ~OutOfRange /\ Display
              /\ LastQuestionTime' = LastQuestionTime \/ LastQuestionTime' = now

LEMMA TickEntry ==
  ASSUME TimerTimer
  PROVE  /\ UNCHANGED <<now, timer, setup, period, waited, held>> /\ ticked' = TRUE
         /\ timer
         /\ TickStuck \/ TickMissed \/ TickDone
<1>1. /\ UNCHANGED <<now, timer, setup, period, waited, held>> /\ ticked' = TRUE
      /\ timer
  BY DEF TimerTimer, settings
<1>2. CASE OutOfRange /\ UNCHANGED <<maker, entry, age, lost, paused>>
  BY <1>1, <1>2 DEF TickStuck, maker
<1>3. CASE /\ TimeForANewQuestion /\ Overflows(CurrentLanguage')
           /\ LastQuestionTime' = now
           /\ UNCHANGED <<question, unfit, entry, age, lost, paused>>
  BY <1>1, <1>3 DEF TickMissed
<1>4. CASE TimeForANewQuestion /\ Display /\ Shown(TRUE)
  BY <1>1, <1>4 DEF TickDone, TimeForANewQuestion, Shown, PeriodStart
<1>5. CASE ~OutOfRange /\ Display /\ Shown(FALSE)
  BY <1>1, <1>5 DEF TickDone, Shown, PeriodStart
<1>6. QED
  BY <1>1, <1>2, <1>3, <1>4, <1>5 DEF TimerTimer

(* The clock, under Edit or Lcd and not restarted: one reading further.    *)
LEMMA ClockEntry ==
  ASSUME TypeOK, Clock
  PROVE  /\ UNCHANGED <<timer, entry, LastQuestionTime, period>>
         /\ ticked \/ ~timer
         /\ ~ticked'
         /\ (edit \/ lcd) /\ ~held' =>
              ~held /\ now' = now + 1 /\ waited' = Later(waited)
<1>1. /\ UNCHANGED <<timer, entry, LastQuestionTime, period>>
      /\ ticked \/ ~timer
      /\ ~ticked'
  BY DEF Clock, settings, maker
<1>2. ASSUME edit \/ lcd, ~held'
      PROVE  ~held /\ now' = now + 1 /\ waited' = Later(waited)
  <2>1. ~held /\ now' # 0 /\ waited' = Later(waited)
    BY <1>2 DEF Clock, TypeOK
  <2>2. now' = now + 1 \/ now' = 0
    BY NextReading, Numbers DEF Clock
  <2>3. QED
    BY <2>1, <2>2
<1>3. QED
  BY <1>1, <1>2

-----------------------------------------------------------------------------
(* What is measured is the time since Edit or Lcd came up.                 *)
LEMMA NextSinceInv ==
  ASSUME TypeOK, SinceInv, [Next]_vars
  PROVE  SinceInv'
<1>1. CASE TimerTimer
  <2>1. UNCHANGED <<now, waited, held>>
    BY <1>1, TickEntry
  <2>2. CASE UNCHANGED entry
    BY <2>1, <2>2 DEF entry, SinceInv
  <2>3. CASE Display
    <3>1. edit' \/ lcd' => (edit \/ lcd) /\ since' = since
      BY <2>3 DEF Display, UpdateLcd, UpdateEditTimeOut, entry, TypeOK
    <3>2. QED
      BY <2>1, <3>1 DEF SinceInv
  <2>4. QED
    BY <1>1, <2>2, <2>3, TickEntry DEF TickStuck, TickMissed, TickDone
<1>2. CASE FormKeyDown \/ EditKeyPress
  <2>1. now' = now /\ since' = now /\ waited' = 0
    BY <1>2 DEF FormKeyDown, EditKeyPress
  <2>2. now - now = 0 /\ now >= now
    BY Numbers
  <2>3. QED
    BY <2>1, <2>2 DEF SinceInv
<1>3. CASE OpenSetup
  BY <1>3 DEF OpenSetup, SinceInv, entry
<1>4. CASE CloseSetup \/ UNCHANGED vars
  BY <1>4 DEF CloseSetup, vars, SinceInv, entry, histories
<1>5. CASE Clock
  <2>1. SUFFICES ASSUME edit' \/ lcd', ~held'
                 PROVE  /\ now' >= since' /\ waited' <= now' - since'
                        /\ waited' = now' - since' \/ waited' = Longest
    BY DEF SinceInv
  <2>2. /\ edit \/ lcd
        /\ since' = since /\ ~held /\ now' = now + 1 /\ waited' = Later(waited)
    BY <1>5, <2>1, ClockEntry DEF entry
  <2>3. /\ now >= since /\ waited <= now - since
        /\ waited = now - since \/ waited = Longest
    BY <2>2 DEF SinceInv
  <2>4. QED
    BY <2>2, <2>3, Numbers, EntrySizes DEF Later
<1>6. QED
  BY <1>1, <1>2, <1>3, <1>4, <1>5 DEF Next

-----------------------------------------------------------------------------
(* A text left standing is taken away by a tick that does not fail.        *)
LEMMA NextEditInv ==
  ASSUME TypeOK, SinceInv, EditInv, [Next]_vars
  PROVE  EditInv'
<1> SUFFICES ASSUME ticked', ~setup', ~held', ~TickFailed', edit'
             PROVE  waited' < EditTimeOut
  BY DEF EditInv
<1>1. CASE TimerTimer
  <2>1. UNCHANGED <<now, period, waited, held>>
    BY <1>1, TickEntry
  <2>2. ~TickStuck
    BY <2>1 DEF TickStuck, TickFailed, OutOfRange
  <2>3. ~TickMissed
    BY <2>1 DEF TickMissed, TickFailed, Overflows
  <2>4. TickDone
    BY <1>1, <2>2, <2>3, TickEntry
  <2>5. edit /\ UpdateEditTimeOut
    BY <2>4 DEF TickDone, Display, entry, TypeOK
  <2>6. now < since \/ now - since < EditTimeOut
    BY <2>5 DEF UpdateEditTimeOut, Elapsed
  <2>7. now >= since /\ waited <= now - since
    BY <2>1, <2>5 DEF SinceInv
  <2>8. QED
    BY <2>1, <2>6, <2>7, Numbers, EntrySizes
<1>2. CASE FormKeyDown
  BY <1>2, EntrySizes DEF FormKeyDown
<1>3. CASE UNCHANGED vars
  BY <1>3 DEF vars, EditInv, TickFailed, OutOfRange, Overflows, entry, histories,
              maker, settings
<1>4. CASE EditKeyPress \/ CloseSetup \/ Clock
  BY <1>4 DEF EditKeyPress, CloseSetup, Clock
<1>5. CASE OpenSetup
  <2>1. /\ UNCHANGED <<now, ticked, edit, waited, period, LastQuestionTime, CurrentLanguage>>
        /\ ~setup /\ held' = (held \/ lcd)
    BY <1>5 DEF OpenSetup, settings, maker, entry
  <2>2. ~held /\ ~TickFailed
    BY <2>1 DEF TickFailed, OutOfRange, Overflows, TypeOK
  <2>3. QED
    BY <2>1, <2>2 DEF EditInv
<1>6. QED
  BY <1>1, <1>2, <1>3, <1>4, <1>5 DEF Next

-----------------------------------------------------------------------------
(* The two parts of the invariant of a count-down.                         *)
Ending  == zero /\ 2 * PastEnd >= -Second /\ PastEnd <= 2 /\ OnlyFailedAt(1)
Running == ~zero /\ PastEnd <= 0 /\ OnlyFailedAt(-1)

LEMMA TickCountDown ==
  ASSUME TypeOK, SinceInv, CountDownInv, TimerTimer, lcd', ~held'
  PROVE  timer' /\ (OutOfRange' \/ Ending' \/ Running')
<1>1. UNCHANGED <<now, timer, period, waited, held>> /\ ticked' = TRUE /\ timer
  BY TickEntry
<1>2. PastEnd \in Int
  BY Numbers, EntrySizes DEF PastEnd
<1>3. CASE TickStuck
  BY <1>1, <1>3 DEF TickStuck, OutOfRange
<1>4. CASE TickMissed
  <2>1. /\ UNCHANGED <<lcd, zero, since>> /\ LastQuestionTime' = now
        /\ ~OutOfRange /\ now >= LastQuestionTime + period
    BY <1>4 DEF TickMissed, TimeForANewQuestion, entry
  <2>2. PastEnd' = PastEnd
    BY <1>1, <2>1 DEF PastEnd
  <2>3. LastQuestionTime # now - 1
    BY <2>1, Numbers, EntrySizes
  <2>4. ASSUME NEW t \in {-1, 1}, OnlyFailedAt(t) PROVE OnlyFailedAt(t)'
    BY <1>1, <2>1, <2>2, <2>3, <2>4 DEF OnlyFailedAt
  <2>5. Ending \/ Running
    BY <1>1, <2>1 DEF CountDownInv, Ending, Running
  <2>6. QED
    BY <1>1, <2>1, <2>2, <2>4, <2>5 DEF Ending, Running
<1>5. CASE TickDone
  <2>1. lcd /\ ~OutOfRange /\ UpdateLcd
    BY <1>5 DEF TickDone, Display, entry, TypeOK
  <2>2. now >= since /\ ~zero /\ since' = since
    BY <1>1, <2>1 DEF UpdateLcd, SinceInv
  <2>3. PastEnd <= 0 /\ PastEnd' = PastEnd
    BY <1>1, <2>1, <2>2 DEF CountDownInv, PastEnd
  <2>4. CountDownPeriod - Elapsed(since) = -PastEnd
    BY Numbers, EntrySizes DEF Elapsed, PastEnd
  <2>5. CASE zero' = TRUE /\ 2 * (-PastEnd) \in -Second .. Second
    <3>1. 2 * PastEnd' >= -Second /\ PastEnd' <= 2
      BY <1>2, <2>3, <2>5, EntrySizes
    <3>2. OnlyFailedAt(1)'
      BY <1>2, <2>3 DEF OnlyFailedAt
    <3>3. QED
      BY <1>1, <2>5, <3>1, <3>2 DEF Ending
  <2>6. CASE /\ zero' = FALSE
             /\ 2 * (-PastEnd) \notin -Second .. Second \/ -PastEnd < 0
    <3>1. PastEnd' <= -2
      BY <1>2, <2>3, <2>6, EntrySizes
    <3>2. PastEnd' \in Int
      BY <1>2, <2>3
    <3>3. PastEnd' <= 0 /\ OnlyFailedAt(-1)'
      BY <3>1, <3>2 DEF OnlyFailedAt
    <3>4. QED
      BY <1>1, <2>6, <3>3 DEF Running
  <2>7. LET left == CountDownPeriod - Elapsed(since)
        IN  \/ zero' = TRUE /\ 2 * left \in -Second .. Second
            \/ /\ zero' = FALSE
               /\ 2 * left \notin -Second .. Second \/ left < 0
    <3>1. ~(now < since)
      BY <2>2, Numbers, EntrySizes
    <3>2. QED
      BY <2>1, <2>2, <3>1 DEF UpdateLcd
  <2>8. QED
    BY <2>4, <2>5, <2>6, <2>7
<1>6. QED
  BY <1>3, <1>4, <1>5, TickEntry

LEMMA ClockCountDown ==
  ASSUME TypeOK, CountDownInv, Clock, lcd', ~held'
  PROVE  timer' /\ (OutOfRange' \/ Ending' \/ Running')
<1>1. /\ lcd /\ UNCHANGED <<timer, zero, since, LastQuestionTime, period>>
      /\ ticked \/ ~timer
      /\ ~ticked'
    BY ClockEntry DEF entry
<1>2. ~held /\ now' = now + 1
    BY <1>1, ClockEntry
<1>3. timer /\ ticked /\ (OutOfRange \/ Ending \/ Running)
    BY <1>1, <1>2 DEF CountDownInv, Ending, Running
<1>4. PastEnd \in Int /\ PastEnd' = PastEnd + 1
    BY <1>1, <1>2, Numbers, EntrySizes DEF PastEnd
<1>5. ASSUME NEW t \in {-1, 1}, OnlyFailedAt(t), PastEnd <= t + 1
      PROVE  OnlyFailedAt(t)' /\ PastEnd' <= t + 1
  <2>1. PastEnd <= t
    BY <1>3, <1>4, <1>5 DEF OnlyFailedAt
  <2>2. PastEnd' = t + 1 => LastQuestionTime = now
    BY <1>3, <1>4, <1>5 DEF OnlyFailedAt
  <2>3. now' - 1 = now
    BY <1>2, Numbers
  <2>4. QED
    BY <1>1, <1>4, <2>1, <2>2, <2>3 DEF OnlyFailedAt
<1>6. CASE OutOfRange
  BY <1>1, <1>3, <1>6 DEF OutOfRange
<1>7. CASE Ending
  <2>1. OnlyFailedAt(1)' /\ PastEnd' <= 2
    BY <1>5, <1>7 DEF Ending
  <2>2. 2 * PastEnd' >= -Second
    BY <1>4, <1>7, EntrySizes DEF Ending
  <2>3. QED
    BY <1>1, <1>3, <1>7, <2>1, <2>2 DEF Ending
<1>8. CASE Running
  <2>1. OnlyFailedAt(-1)' /\ PastEnd' <= 0
    BY <1>5, <1>8 DEF Running
  <2>2. QED
    BY <1>1, <1>3, <1>8, <2>1 DEF Running
<1>9. QED
  BY <1>3, <1>6, <1>7, <1>8

LEMMA NextCountDownInv ==
  ASSUME TypeOK, SinceInv, CountDownInv, [Next]_vars
  PROVE  CountDownInv'
<1> SUFFICES ASSUME lcd', ~held'
             PROVE  timer' /\ (OutOfRange' \/ Ending' \/ Running')
  BY DEF CountDownInv, Ending, Running
<1>1. CASE TimerTimer
  BY <1>1, TickCountDown
<1>2. CASE Clock
  BY <1>2, ClockCountDown
<1>3. CASE EditKeyPress
  <2>1. /\ timer' /\ since' = now' /\ now' = now
        /\ zero' <=> 2 * CountDownPeriod <= Second
    BY <1>3 DEF EditKeyPress
  <2>2. PastEnd' = -CountDownPeriod /\ CountDownPeriod \in Nat
    BY <2>1, Numbers, EntrySizes DEF PastEnd
  <2>3. CASE zero'
    <3>1. 2 * PastEnd' >= -Second /\ PastEnd' <= 0 /\ PastEnd' \in Int
      BY <2>1, <2>2, <2>3, EntrySizes
    <3>2. OnlyFailedAt(1)' /\ PastEnd' <= 2
      BY <3>1 DEF OnlyFailedAt
    <3>3. QED
      BY <2>1, <2>3, <3>1, <3>2 DEF Ending
  <2>4. CASE ~zero'
    <3>1. PastEnd' <= -2 /\ PastEnd' \in Int
      BY <2>1, <2>2, <2>4, EntrySizes
    <3>2. OnlyFailedAt(-1)' /\ PastEnd' <= 0
      BY <3>1 DEF OnlyFailedAt
    <3>3. QED
      BY <2>1, <2>4, <3>2 DEF Running
  <2>5. QED
    BY <2>3, <2>4
<1>4. CASE FormKeyDown \/ OpenSetup \/ CloseSetup
  <2>1. setup => ~timer
    BY DEF TypeOK
  <2>2. QED
    BY <1>4, <2>1 DEF FormKeyDown, OpenSetup, CloseSetup, CountDownInv, entry, histories
<1>5. CASE UNCHANGED vars
  <2>1. UNCHANGED <<lcd, held, timer, zero, since, now, ticked, LastQuestionTime, period>>
    BY <1>5 DEF vars, entry, histories, maker, settings
  <2>2. QED
    BY <2>1 DEF CountDownInv, OutOfRange, Ending, Running, PastEnd, OnlyFailedAt
<1>6. QED
  BY <1>1, <1>2, <1>3, <1>4, <1>5 DEF Next

EntryInv == SinceInv /\ EditInv /\ CountDownInv

LEMMA EntryInvariance == Spec => []EntryInv
<1>1. Init => EntryInv
  BY DEF Init, EntryInv, SinceInv, EditInv, CountDownInv
<1>2. TypeOK /\ EntryInv /\ [Next]_vars => EntryInv'
  BY NextSinceInv, NextEditInv, NextCountDownInv DEF EntryInv
<1>3. QED
  BY <1>1, <1>2, ScreenTypeCorrect, PTL DEF Spec

(* For every range of the clock and all settings: once the timer has       *)
(* ticked and not failed, a text left standing is taken away and a         *)
(* count-down over, unless the operator's dialog or a restart of the clock *)
(* has held it (Main.pas:320-345).                                         *)
THEOREM ScreenIsGivenBack == Spec => []ScreenGivenBack
<1>1. TypeOK /\ EntryInv => ScreenGivenBack
  <2> SUFFICES ASSUME TypeOK, EntryInv, ticked, ~setup, ~held, ~TickFailed
               PROVE  /\ edit => waited < EditTimeOut
                      /\ lcd => 2 * (waited - CountDownPeriod) <= Second
    BY DEF ScreenGivenBack
  <2>1. edit => waited < EditTimeOut
    BY DEF EntryInv, EditInv
  <2>2. ASSUME lcd PROVE 2 * (waited - CountDownPeriod) <= Second
    <3>1. PastEnd \in Int /\ waited - CountDownPeriod <= PastEnd
      BY <2>2, Numbers, EntrySizes DEF EntryInv, SinceInv, PastEnd
    <3>2. Ending \/ Running
      BY <2>2 DEF EntryInv, CountDownInv, TickFailed, Ending, Running
    <3>3. PastEnd <= 1
      BY <3>1, <3>2 DEF Ending, Running, OnlyFailedAt
    <3>4. QED
      BY <3>1, <3>3, EntrySizes
  <2>3. QED
    BY <2>1, <2>2
<1>2. QED
  BY <1>1, EntryInvariance, ScreenTypeCorrect, PTL

(* And the visitor's question comes up when the count-down says so, to     *)
(* half a second and a reading of the clock, a Spanish question that fails *)
(* at that very moment included (Main.pas:320-334, QMakerU.pas:449-469).   *)
THEOREM ScreenAnswersOnTime == Spec => AnswersOnTime
<1>1. ASSUME TypeOK, EntryInv, [Next]_vars
      PROVE  Answered /\ ~held => /\ 2 * (waited - CountDownPeriod) >= -Second
                                  /\ 2 * (waited - CountDownPeriod) <= Second + 2
  <2> SUFFICES ASSUME Answered, ~held
               PROVE  /\ 2 * (waited - CountDownPeriod) >= -Second
                      /\ 2 * (waited - CountDownPeriod) <= Second + 2
    OBVIOUS
  <2>1. TimerTimer
    BY <1>1 DEF Next, Answered, FormKeyDown, EditKeyPress, OpenSetup, CloseSetup,
                Clock, vars, entry
  <2>2. lcd /\ zero /\ ~OutOfRange
    BY <2>1, TickEntry DEF TickStuck, TickMissed, TickDone, Answered, Display,
                           UpdateLcd, entry
  <2>3. 2 * PastEnd >= -Second /\ PastEnd <= 2
    BY <1>1, <2>2 DEF EntryInv, CountDownInv
  <2>4. PastEnd \in Int
    BY <1>1, Numbers, EntrySizes DEF PastEnd
  <2>5. /\ waited - CountDownPeriod <= PastEnd
        /\ waited - CountDownPeriod = PastEnd \/ waited = Longest
    BY <1>1, <2>2, Numbers, EntrySizes DEF EntryInv, SinceInv, PastEnd
  <2>6. QED
    BY <1>1, <2>3, <2>4, <2>5, Numbers, EntrySizes
<1>2. TypeOK /\ EntryInv /\ [Next]_vars =>
        [Answered /\ ~held => /\ 2 * (waited - CountDownPeriod) >= -Second
                              /\ 2 * (waited - CountDownPeriod) <= Second + 2]_vars
  BY <1>1
<1>3. QED
  BY <1>2, EntryInvariance, ScreenTypeCorrect, PTL DEF Spec, AnswersOnTime

-----------------------------------------------------------------------------
(* The question maker: its rings.                                          *)

(* A ring of things in S: where none has yet been written the index is at  *)
(* the first such entry, and behind it there are only such.                *)
IsRing(ring, size, none, S) ==
  /\ ring = [Index |-> ring.Index, Entry |-> ring.Entry]
  /\ ring.Index \in 1 .. size
  /\ ring.Entry \in [1 .. size -> S \cup {none}]
  /\ \/ \A i \in 1 .. size : ring.Entry[i] \in S
     \/ \A i \in 1 .. size : ring.Entry[i] \in S <=> i < ring.Index

LEMMA EmptyIsRing ==
  ASSUME NEW size \in Nat \ {0}, NEW S, NEW none, none \notin S
  PROVE  IsRing(EmptyRing(size, none), size, none, S)
BY SMT DEF IsRing, EmptyRing

(* What recording leaves.                                                  *)
LEMMA RecordedEntries ==
  ASSUME NEW size \in Nat \ {0}, NEW S, NEW none, none \notin S,
         NEW ring, IsRing(ring, size, none, S), NEW x \in S
  PROVE  /\ IsRing(Recorded(ring, x, size), size, none, S)
         /\ Recorded(ring, x, size).Index
              = IF ring.Index < size THEN ring.Index + 1 ELSE 1
         /\ \A i \in 1 .. size : Recorded(ring, x, size).Entry[i]
                                   = IF i = ring.Index THEN x ELSE ring.Entry[i]
<1> DEFINE new == Recorded(ring, x, size)
<1>1. /\ ring.Index \in 1 .. size
      /\ ring.Entry \in [1 .. size -> S \cup {none}]
  BY DEF IsRing
<1>2. /\ new = [Index |-> new.Index, Entry |-> new.Entry]
      /\ new.Index = IF ring.Index < size THEN ring.Index + 1 ELSE 1
      /\ new.Entry = [ring.Entry EXCEPT ![ring.Index] = x]
  BY DEF Recorded
<1>3. new.Index \in 1 .. size
  BY <1>1, <1>2, SMT
<1>4. /\ new.Entry \in [1 .. size -> S \cup {none}]
      /\ \A i \in 1 .. size : new.Entry[i]
                                = IF i = ring.Index THEN x ELSE ring.Entry[i]
  BY <1>1, <1>2
<1>5. \/ \A i \in 1 .. size : new.Entry[i] \in S
      \/ \A i \in 1 .. size : new.Entry[i] \in S <=> i < new.Index
  <2>1. CASE \A i \in 1 .. size : ring.Entry[i] \in S
    BY <1>4, <2>1
  <2>2. CASE \A i \in 1 .. size : ring.Entry[i] \in S <=> i < ring.Index
    BY <1>1, <1>2, <1>4, <2>2, SMT
  <2> QED BY <2>1, <2>2 DEF IsRing
<1> QED BY <1>2, <1>3, <1>4, <1>5 DEF IsRing

(* Q is what a ring with index I and entries E has, from the oldest on.    *)
Unrolls(Q, I, E, size, none) ==
  IF E[I] = none THEN /\ Len(Q) = I - 1
                      /\ \A j \in 1 .. I - 1 : Q[j] = E[j]
  ELSE /\ Len(Q) = size
       /\ \A j \in 1 .. size : Q[j] = IF j <= size - I + 1 THEN E[I + j - 1]
                                      ELSE E[j - (size - I + 1)]

LEMMA QueueShape ==
  ASSUME NEW size \in Nat \ {0}, NEW S, NEW none, none \notin S,
         NEW ring, IsRing(ring, size, none, S)
  PROVE  /\ Queue(ring, none) \in Seq(S)
         /\ Unrolls(Queue(ring, none), ring.Index, ring.Entry, size, none)
<1>1. PICK I \in 1 .. size, E \in [1 .. size -> S \cup {none}] :
        /\ I = ring.Index /\ E = ring.Entry
        /\ \/ \A i \in 1 .. size : E[i] \in S
           \/ \A i \in 1 .. size : E[i] \in S <=> i < I
  BY DEF IsRing
<1> DEFINE newest == SubSeq(E, 1, I - 1)
           oldest == SubSeq(E, I, size)
<1>2. Len(E) = size
  BY SMT
<1>3. \A i \in 1 .. I - 1 : i \in 1 .. size /\ E[i] \in S
  BY <1>1, SMT
<1>4. /\ newest \in Seq(S) /\ Len(newest) = I - 1
      /\ \A j \in 1 .. I - 1 : newest[j] = E[j]
  <2>1. /\ newest \in Seq(S)
        /\ Len(newest) = IF 1 <= I - 1 THEN I - 1 - 1 + 1 ELSE 0
        /\ \A j \in 1 .. I - 1 - 1 + 1 : newest[j] = E[1 + j - 1]
    <3> HIDE DEF newest
    <3>1. 1 \in Int /\ I - 1 \in Int
      BY SMT
    <3> QED BY <1>3, <3>1, SubSeqProperties DEF newest
  <2> QED BY <2>1, SMT
<1>5. CASE E[I] = none
  <2>1. Queue(ring, none) = newest
    BY <1>1, <1>5 DEF Queue
  <2> QED BY <1>1, <1>4, <1>5, <2>1 DEF Unrolls
<1>6. CASE E[I] # none
  <2>1. \A i \in 1 .. size : E[i] \in S
    BY <1>1, <1>6, SMT
  <2>2. /\ oldest \in Seq(S) /\ Len(oldest) = size - I + 1
        /\ \A j \in 1 .. size - I + 1 : oldest[j] = E[I + j - 1]
    <3>1. /\ oldest \in Seq(S)
          /\ Len(oldest) = IF I <= size THEN size - I + 1 ELSE 0
          /\ \A j \in 1 .. size - I + 1 : oldest[j] = E[I + j - 1]
      <4>1. I \in Int /\ size \in Int /\ \A i \in I .. size : E[i] \in S
        BY <2>1, SMT
      <4> QED BY <4>1, SubSeqProperties
    <3> QED BY <3>1, SMT
  <2>3. Queue(ring, none) = oldest \o newest
    BY <1>1, <1>2, <1>6 DEF Queue
  <2> HIDE DEF oldest, newest
  <2>4. /\ oldest \o newest \in Seq(S)
        /\ Len(oldest \o newest) = Len(oldest) + Len(newest)
        /\ \A j \in 1 .. Len(oldest) + Len(newest) :
             (oldest \o newest)[j] = IF j <= Len(oldest) THEN oldest[j]
                                     ELSE newest[j - Len(oldest)]
    BY <1>4, <2>2, ConcatProperties
  <2>5. Len(oldest) + Len(newest) = size
    BY <1>4, <2>2, SMT
  <2>6. ASSUME NEW j \in 1 .. size
        PROVE  (oldest \o newest)[j]
                 = IF j <= size - I + 1 THEN E[I + j - 1]
                   ELSE E[j - (size - I + 1)]
    <3>1. CASE j <= size - I + 1
      <4>1. j \in 1 .. size - I + 1
        BY <3>1, SMT
      <4>2. (oldest \o newest)[j] = oldest[j]
        BY <2>2, <2>4, <2>5, <3>1
      <4> QED BY <2>2, <3>1, <4>1, <4>2
    <3>2. CASE ~(j <= size - I + 1)
      <4>1. j - (size - I + 1) \in 1 .. I - 1
        BY <3>2, SMT
      <4>2. (oldest \o newest)[j] = newest[j - (size - I + 1)]
        BY <2>2, <2>4, <2>5, <3>2
      <4> QED BY <1>4, <3>2, <4>1, <4>2
    <3> QED BY <3>1, <3>2
  <2> QED BY <1>1, <1>6, <2>3, <2>4, <2>5, <2>6 DEF Unrolls
<1> QED BY <1>5, <1>6

(* What a ring holds is what is in its queue.                              *)
LEMMA QueueHolds ==
  ASSUME NEW size \in Nat \ {0}, NEW S, NEW none, none \notin S,
         NEW ring, IsRing(ring, size, none, S), NEW x \in S
  PROVE  Holds(ring, x) <=> x \in Promise!ToSet(Queue(ring, none))
<1>1. PICK I \in 1 .. size, E \in [1 .. size -> S \cup {none}] :
        /\ I = ring.Index /\ E = ring.Entry
        /\ \/ \A i \in 1 .. size : E[i] \in S
           \/ \A i \in 1 .. size : E[i] \in S <=> i < I
  BY DEF IsRing
<1>2. PICK Q \in Seq(S) :
        /\ Q = Queue(ring, none)
        /\ Unrolls(Q, I, E, size, none)
  BY <1>1, QueueShape
<1>3. Holds(ring, x) <=> \E i \in 1 .. size : E[i] = x
  BY <1>1 DEF Holds
<1>4. x \in Promise!ToSet(Q) <=> \E j \in 1 .. Len(Q) : Q[j] = x
  BY LenProperties DEF Promise!ToSet
<1>5. CASE E[I] = none
  <2>1. \A i \in 1 .. size : E[i] \in S <=> i < I
    BY <1>1, <1>5
  <2>2. \A i \in 1 .. size : E[i] = x => i \in 1 .. I - 1
    BY <2>1, SMT
  <2>3. \A i \in 1 .. I - 1 : i \in 1 .. size
    BY SMT
  <2> QED BY <1>2, <1>3, <1>4, <1>5, <2>2, <2>3 DEF Unrolls
<1>6. CASE E[I] # none
  <2>1. ASSUME NEW i \in 1 .. size, E[i] = x
        PROVE  \E j \in 1 .. Len(Q) : Q[j] = x
    <3>1. CASE i >= I
      <4>1. PICK j \in 1 .. size : j = i - I + 1
        BY <3>1, SMT
      <4>2. j <= size - I + 1 /\ I + j - 1 = i
        BY <4>1, SMT
      <4> QED BY <1>2, <1>6, <2>1, <4>2 DEF Unrolls
    <3>2. CASE ~(i >= I)
      <4>1. PICK j \in 1 .. size : j = i + (size - I + 1)
        BY <3>2, SMT
      <4>2. ~(j <= size - I + 1) /\ j - (size - I + 1) = i
        BY <4>1, SMT
      <4> QED BY <1>2, <1>6, <2>1, <4>2 DEF Unrolls
    <3> QED BY <3>1, <3>2
  <2>2. ASSUME NEW j \in 1 .. Len(Q), Q[j] = x
        PROVE  \E i \in 1 .. size : E[i] = x
    <3>1. CASE j <= size - I + 1
      <4>1. I + j - 1 \in 1 .. size
        BY <1>2, <1>6, <3>1, SMT DEF Unrolls
      <4> QED BY <1>2, <1>6, <2>2, <3>1, <4>1 DEF Unrolls
    <3>2. CASE ~(j <= size - I + 1)
      <4>1. j - (size - I + 1) \in 1 .. size
        BY <1>2, <1>6, <3>2, SMT DEF Unrolls
      <4> QED BY <1>2, <1>6, <2>2, <3>2, <4>1 DEF Unrolls
    <3> QED BY <3>1, <3>2
  <2> QED BY <1>2, <1>3, <1>4, <2>1, <2>2 DEF Unrolls
<1> QED BY <1>2, <1>5, <1>6 DEF Unrolls

(* Recording in a ring is appending to its queue, of which the oldest      *)
(* leaves when it is full.                                                 *)
LEMMA QueueRecorded ==
  ASSUME NEW size \in Nat \ {0}, NEW S, NEW none, none \notin S,
         NEW ring, IsRing(ring, size, none, S), NEW x \in S
  PROVE  Queue(Recorded(ring, x, size), none)
           = Promise!LastOf(Append(Queue(ring, none), x), size)
<1>1. PICK I \in 1 .. size, E \in [1 .. size -> S \cup {none}] :
        /\ I = ring.Index /\ E = ring.Entry
        /\ \/ \A i \in 1 .. size : E[i] \in S
           \/ \A i \in 1 .. size : E[i] \in S <=> i < I
  BY DEF IsRing
<1>2. PICK I1 \in 1 .. size, E1 \in [1 .. size -> S \cup {none}] :
        /\ I1 = Recorded(ring, x, size).Index
        /\ E1 = Recorded(ring, x, size).Entry
        /\ I1 = IF I < size THEN I + 1 ELSE 1
        /\ \A i \in 1 .. size : E1[i] = IF i = I THEN x ELSE E[i]
  BY <1>1, RecordedEntries DEF IsRing
<1>3. PICK old \in Seq(S) :
      /\ old = Queue(ring, none)
        /\ Unrolls(old, I, E, size, none)
  BY <1>1, QueueShape
<1>4. PICK new \in Seq(S) :
      /\ new = Queue(Recorded(ring, x, size), none)
        /\ Unrolls(new, I1, E1, size, none)
  <2>1. IsRing(Recorded(ring, x, size), size, none, S)
    BY RecordedEntries
  <2> DEFINE ring1 == Recorded(ring, x, size)
  <2> HIDE DEF ring1
  <2>2. /\ Queue(ring1, none) \in Seq(S)
        /\ Unrolls(Queue(ring1, none), ring1.Index, ring1.Entry, size, none)
    BY <2>1, QueueShape DEF ring1
  <2> QED BY <1>2, <2>2 DEF ring1
<1>5. PICK all \in Seq(S) :
      /\ all = Append(old, x) /\ Len(all) = Len(old) + 1
      /\ \A j \in 1 .. Len(old) : all[j] = old[j]
      /\ all[Len(old) + 1] = x
  <2>1. /\ Append(old, x) \in Seq(S) /\ Len(Append(old, x)) = Len(old) + 1
        /\ \A j \in 1 .. Len(old) : Append(old, x)[j] = old[j]
        /\ Append(old, x)[Len(old) + 1] = x
    BY AppendProperties
  <2> QED BY <2>1
<1>6. PICK n \in Nat : n = Len(old)
  BY <1>3, LenProperties DEF Unrolls
<1>7. CASE E[I] = none
  <2>1. \A i \in 1 .. size : E[i] \in S <=> i < I
    BY <1>1, <1>7
  <2>2. Len(all) = I /\ \A j \in 1 .. I : all[j] = IF j = I THEN x ELSE E[j]
    BY <1>3, <1>5, <1>7, SMT DEF Unrolls
  <2>3. Promise!LastOf(all, size) = all
    BY <2>2, SMT DEF Promise!LastOf
  <2>4. Len(new) = I /\ \A j \in 1 .. I : new[j] = E1[j]
    <3>1. CASE I < size
      <4>1. I1 = I + 1 /\ E1[I1] = none
        BY <1>2, <2>1, <3>1, SMT
      <4> QED BY <1>4, <4>1, SMT DEF Unrolls
    <3>2. CASE ~(I < size)
      <4>1. I1 = 1 /\ I = size
        BY <1>2, <3>2, SMT
      <4>2. E1[1] # none
        BY <1>2, <2>1, <4>1, SMT
      <4> QED BY <1>4, <4>1, <4>2, SMT DEF Unrolls
    <3> QED BY <3>1, <3>2
  <2>5. \A j \in 1 .. I : new[j] = all[j]
    BY <1>2, <2>2, <2>4, SMT
  <2>6. new = all
    BY <1>4, <1>5, <2>2, <2>4, <2>5, SeqEqual DEF Unrolls
  <2> QED BY <1>3, <1>4, <1>5, <2>3, <2>6 DEF Unrolls
<1>8. CASE E[I] # none
  <2>1. \A i \in 1 .. size : E[i] \in S
    <3>1. E[I] \in S
      BY <1>8
    <3>2. ~(I < I)
      BY SMT
    <3> QED BY <1>1, <3>1, <3>2
  <2>2. E1[I1] # none
    BY <1>2, <2>1
  <2>3. Len(all) = size + 1 /\ all # << >>
    <3>1. Len(old) = size
      BY <1>3, <1>8 DEF Unrolls
    <3>2. Len(all) = size + 1
      BY <1>5, <3>1
    <3>3. size + 1 # 0 /\ Len(<< >>) = 0
      BY SMT
    <3> QED BY <3>2, <3>3
  <2>4. Promise!LastOf(all, size) = Tail(all)
    BY <2>3, SMT DEF Promise!LastOf
  <2>5. /\ Tail(all) \in Seq(S) /\ Len(Tail(all)) = size
        /\ \A j \in 1 .. size : Tail(all)[j] = all[j + 1]
    BY <1>5, <2>3, HeadTailProperties, SMT
  <2>6. ASSUME NEW j \in 1 .. size
        PROVE  new[j] = all[j + 1]
    <3>1. CASE j = size
      <4>1. all[j + 1] = x
        BY <1>3, <1>5, <1>8, <3>1 DEF Unrolls
      <4>2. new[j] = E1[I]
        BY <1>2, <1>4, <2>2, <3>1, SMT DEF Unrolls
      <4> QED BY <1>2, <4>1, <4>2
    <3>2. CASE j < size
      <4>1. all[j + 1] = old[j + 1]
        BY <1>3, <1>5, <1>8, <3>2, SMT DEF Unrolls
      <4>2. PICK i \in 1 .. size :
              i = IF j <= size - I THEN I + j ELSE j - (size - I)
        <5>1. j <= size - I => I + j \in 1 .. size
          BY SMT
        <5>2. ~(j <= size - I) => j - (size - I) \in 1 .. size
          BY <3>2, SMT
        <5> QED BY <5>1, <5>2
      <4>3. old[j + 1] = E[i] /\ i # I
        BY <1>3, <1>8, <3>2, <4>2, SMT DEF Unrolls
      <4>4. new[j] = E1[i]
        <5>1. new[j] = IF j <= size - I1 + 1 THEN E1[I1 + j - 1]
                       ELSE E1[j - (size - I1 + 1)]
          BY <1>4, <2>2 DEF Unrolls
        <5>2. CASE I < size
          <6>1. I1 = I + 1
            BY <1>2, <5>2
          <6>2. /\ j <= size - I => j <= size - I1 + 1 /\ I1 + j - 1 = I + j
                /\ ~(j <= size - I) => /\ ~(j <= size - I1 + 1)
                                       /\ j - (size - I1 + 1) = j - (size - I)
            BY <6>1, SMT
          <6> QED BY <4>2, <5>1, <6>2
        <5>3. CASE ~(I < size)
          <6>1. I1 = 1 /\ I = size
            BY <1>2, <5>3, SMT
          <6>2. /\ j <= size - I1 + 1 /\ I1 + j - 1 = j
                /\ ~(j <= size - I) /\ j - (size - I) = j
            BY <6>1, SMT
          <6> QED BY <4>2, <5>1, <6>2
        <5> QED BY <5>2, <5>3
      <4> QED BY <1>2, <4>1, <4>3, <4>4
    <3> QED BY <3>1, <3>2, SMT
  <2>7. new = Tail(all)
    BY <1>4, <2>2, <2>5, <2>6, SeqEqual DEF Unrolls
  <2> QED BY <1>3, <1>4, <1>5, <2>4, <2>7 DEF Unrolls
<1> QED BY <1>7, <1>8

-----------------------------------------------------------------------------
(* The question maker: its state.  A group comes up, and has asked         *)
(* something, only if the dice can choose it.                              *)
Chosen(g) == \E dice \in Dices : GroupOf(dice) = g

RingsInv ==
  /\ history = [l \in Lists |-> history[l]]
  /\ \A l \in Lists : IsRing(history[l], MaxPhraseHistory, 0, 1 .. Count[l])
  /\ qHistory = [g \in Groups |-> qHistory[g]]
  /\ \A g \in Groups :
       IsRing(qHistory[g], MaxQHistory, NoQuestion, Questions(g))

AskedInv ==
  \A g \in Groups, i \in 1 .. MaxQHistory :
    qHistory[g].Entry[i] # NoQuestion => Chosen(g)

LoopInv ==
  /\ group \in 0 .. 3 /\ tries \in 0 .. MaxTries
  /\ group # 0 => Chosen(group)
  /\ late \in BOOLEAN /\ slips \in SUBSET (Lists \ Plain)

MakerInv == RingsInv /\ AskedInv /\ LoopInv

(* A question is of phrases of the group's lists.                          *)
LEMMA PhrasesOf ==
  ASSUME NEW g \in Groups, NEW q \in Questions(g)
  PROVE  /\ DOMAIN q = 1 .. 3 /\ q # NoQuestion
         /\ \A j \in 1 .. 3 : /\ ListsOf[g][j] \in Lists
                              /\ q[j] \in 1 .. Count[ListsOf[g][j]]
<1>1. PICK l1 \in Lists, l2 \in Lists, l3 \in Lists :
        ListsOf[g] = <<l1, l2, l3>>
  BY MakerAssumption
<1>2. PICK p1 \in 1 .. Count[l1], p2 \in 1 .. Count[l2],
           p3 \in 1 .. Count[l3] : q = <<p1, p2, p3>>
  BY <1>1 DEF Questions
<1>3. p1 # 0
  BY MakerAssumption, SMT
<1>4. q # NoQuestion
  BY <1>2, <1>3 DEF NoQuestion
<1>5. \A j \in 1 .. 3 : j \in {1, 2, 3}
  BY SMT
<1> QED BY <1>1, <1>2, <1>4, <1>5

LEMMA NotQuestions ==
  ASSUME NEW g \in Groups
  PROVE  NoQuestion \notin Questions(g)
BY PhrasesOf

LEMMA NotAPhrase ==
  ASSUME NEW l \in Lists
  PROVE  0 \notin 1 .. Count[l]
BY MakerAssumption, SMT

LEMMA MakerSizes ==
  /\ MaxQHistory \in Nat \ {0} /\ MaxPhraseHistory \in Nat \ {0}
  /\ MaxTries \in Nat \ {0}
BY MakerAssumption

(* The phrase that a list remembers of a question.                         *)
Uses(l) == \E j \in 1 .. 3 : ListsOf[group][j] = l

PhraseOf(l, q) == q[CHOOSE j \in 1 .. 3 : ListsOf[group][j] = l]

LEMMA PhraseInList ==
  ASSUME group \in Groups, NEW q \in Questions(group), NEW l \in Lists, Uses(l)
  PROVE  PhraseOf(l, q) \in 1 .. Count[l]
<1>1. PICK i \in 1 .. 3 :
        /\ i = CHOOSE j \in 1 .. 3 : ListsOf[group][j] = l
        /\ ListsOf[group][i] = l
  BY DEF Uses
<1> QED BY <1>1, PhrasesOf DEF PhraseOf

LEMMA RememberRings ==
  ASSUME RingsInv, group \in Groups, NEW q \in Questions(group), Remember(q)
  PROVE  /\ history' = [l \in Lists |-> history'[l]]
         /\ \A l \in Lists :
              /\ IsRing(history'[l], MaxPhraseHistory, 0, 1 .. Count[l])
              /\ history'[l] = IF l \notin Plain /\ Uses(l)
                               THEN Recorded(history[l], PhraseOf(l, q),
                                             MaxPhraseHistory)
                               ELSE history[l]
<1>1. history' = [l \in Lists |->
        IF l \notin Plain /\ Uses(l)
        THEN Recorded(history[l], PhraseOf(l, q), MaxPhraseHistory)
        ELSE history[l]]
  BY DEF Remember, Uses, PhraseOf
<1>2. ASSUME NEW l \in Lists
      PROVE  IsRing(history'[l], MaxPhraseHistory, 0, 1 .. Count[l])
  <2>1. IsRing(history[l], MaxPhraseHistory, 0, 1 .. Count[l])
    BY DEF RingsInv
  <2>2. CASE l \notin Plain /\ Uses(l)
    <3>1. history'[l] = Recorded(history[l], PhraseOf(l, q), MaxPhraseHistory)
      BY <1>1, <2>2
    <3>2. PICK ring, S : ring = history[l] /\ S = 1 .. Count[l]
      OBVIOUS
    <3>3. PICK x \in S : x = PhraseOf(l, q)
      BY <2>2, <3>2, PhraseInList
    <3>4. 0 \notin S /\ MaxPhraseHistory \in Nat \ {0}
      BY <3>2, NotAPhrase, MakerSizes
    <3>5. IsRing(Recorded(ring, x, MaxPhraseHistory), MaxPhraseHistory, 0, S)
      BY <2>1, <3>2, <3>4, RecordedEntries
    <3> QED BY <3>1, <3>2, <3>3, <3>5
  <2>3. CASE ~(l \notin Plain /\ Uses(l))
    <3>1. history'[l] = history[l]
      BY <1>1, <2>3
    <3> QED BY <2>1, <3>1
  <2> QED BY <2>2, <2>3
<1>3. history' = [l \in Lists |-> history'[l]]
  BY <1>1
<1>4. \A l \in Lists :
        history'[l] = IF l \notin Plain /\ Uses(l)
                      THEN Recorded(history[l], PhraseOf(l, q),
                                    MaxPhraseHistory)
                      ELSE history[l]
  BY <1>1
<1> QED BY <1>2, <1>3, <1>4

(* The question is asked, or it is not.                                    *)
LEMMA AskRings ==
  ASSUME RingsInv, AskedInv, group \in Groups, Chosen(group),
         NEW q \in Questions(group),
         qHistory' = [qHistory EXCEPT ![group] = Recorded(@, q, MaxQHistory)]
  PROVE  /\ qHistory' = [g \in Groups |-> qHistory'[g]]
         /\ \A g \in Groups :
              /\ IsRing(qHistory'[g], MaxQHistory, NoQuestion, Questions(g))
              /\ qHistory'[g] = IF g = group
                                THEN Recorded(qHistory[g], q, MaxQHistory)
                                ELSE qHistory[g]
         /\ AskedInv'
<1>1. qHistory = [g \in Groups |-> qHistory[g]]
  BY DEF RingsInv
<1>2. /\ qHistory' = [g \in Groups |-> qHistory'[g]]
      /\ \A g \in Groups :
           qHistory'[g] = IF g = group THEN Recorded(qHistory[g], q, MaxQHistory)
                          ELSE qHistory[g]
  BY <1>1
<1>3. ASSUME NEW g \in Groups
      PROVE  /\ IsRing(qHistory'[g], MaxQHistory, NoQuestion, Questions(g))
             /\ \A i \in 1 .. MaxQHistory :
                  qHistory'[g].Entry[i] # NoQuestion => Chosen(g)
  <2>1. IsRing(qHistory[g], MaxQHistory, NoQuestion, Questions(g))
    BY DEF RingsInv
  <2>2. CASE g = group
    <3>1. /\ qHistory'[g] = Recorded(qHistory[g], q, MaxQHistory)
          /\ q \in Questions(g)
      BY <1>2, <2>2
    <3>2. IsRing(qHistory'[g], MaxQHistory, NoQuestion, Questions(g))
      BY <2>1, <3>1, MakerSizes, NotQuestions, RecordedEntries
    <3> QED BY <2>2, <3>2
  <2>3. CASE g # group
    <3>1. qHistory'[g] = qHistory[g]
      BY <1>2, <2>3
    <3> QED BY <2>1, <3>1 DEF AskedInv
  <2> QED BY <2>2, <2>3
<1>4. AskedInv'
  BY <1>3 DEF AskedInv, Chosen, GroupOf, Groups
<1> QED BY <1>2, <1>3, <1>4

LEMMA MakerInitInv == MakerInit => MakerInv
<1> SUFFICES ASSUME MakerInit PROVE MakerInv
  OBVIOUS
<1>1. /\ history = [l \in Lists |-> EmptyRing(MaxPhraseHistory, 0)]
      /\ qHistory = [g \in Groups |-> EmptyRing(MaxQHistory, NoQuestion)]
  BY DEF MakerInit
<1>2. RingsInv
  <2>1. \A l \in Lists : IsRing(history[l], MaxPhraseHistory, 0, 1 .. Count[l])
    BY <1>1, MakerSizes, NotAPhrase, EmptyIsRing
  <2>2. \A g \in Groups :
          IsRing(qHistory[g], MaxQHistory, NoQuestion, Questions(g))
    BY <1>1, MakerSizes, NotQuestions, EmptyIsRing
  <2> QED BY <1>1, <2>1, <2>2 DEF RingsInv
<1>3. AskedInv
  BY <1>1 DEF AskedInv, EmptyRing
<1>4. LoopInv
  <2>1. tries \in 0 .. MaxTries /\ group \in 0 .. 3
    BY MakerSizes, SMT DEF MakerInit
  <2> QED BY <2>1 DEF MakerInit, LoopInv
<1> QED BY <1>2, <1>3, <1>4 DEF MakerInv

LEMMA ChooseGroupInv == MakerInv /\ ChooseGroup => MakerInv'
<1> SUFFICES ASSUME MakerInv, ChooseGroup PROVE MakerInv'
  OBVIOUS
<1>1. RingsInv' /\ AskedInv'
  BY DEF MakerInv, RingsInv, AskedInv, ChooseGroup, Groups, Lists, Questions,
         Chosen, GroupOf
<1>2. PICK dice \in Dices : group' = GroupOf(dice)
  BY DEF ChooseGroup
<1>3. group' \in 1 .. 3 /\ Chosen(group)'
  <2>1. group' \in {1, 2, 3}
    BY <1>2 DEF GroupOf
  <2> QED BY <1>2, <2>1 DEF Chosen, GroupOf
<1>4. LoopInv'
  <2>1. tries' \in 0 .. MaxTries /\ group' \in 0 .. 3
    BY <1>3, MakerSizes, SMT DEF ChooseGroup
  <2> QED BY <1>3, <2>1 DEF LoopInv, ChooseGroup, Lists
<1> QED BY <1>1, <1>4 DEF MakerInv

LEMMA TryInv ==
  ASSUME MakerInv, Try
  PROVE  MakerInv'
<1>1. group \in Groups /\ Chosen(group) /\ RingsInv /\ AskedInv
  BY SMT DEF MakerInv, LoopInv, Try, Groups
<1>2. PICK q \in Questions(group),
           slipped \in SUBSET {ListsOf[group][j] : j \in 1 .. 3},
           timedOut \in BOOLEAN :
        /\ slipped \cap Plain = {} /\ Remember(q)
        /\ qHistory' = IF Ends(q, timedOut)
                       THEN [qHistory EXCEPT ![group] =
                               Recorded(@, q, MaxQHistory)]
                       ELSE qHistory
        /\ group' = IF Ends(q, timedOut) THEN 0 ELSE group
        /\ tries' = IF Ends(q, timedOut) THEN 0
                    ELSE IF tries < MaxTries THEN tries + 1 ELSE tries
        /\ late' = timedOut /\ slips' = slipped
  BY Zenon DEF Try
<1>3. /\ history' = [l \in Lists |-> history'[l]]
      /\ \A l \in Lists :
           IsRing(history'[l], MaxPhraseHistory, 0, 1 .. Count[l])
  BY <1>1, <1>2, RememberRings
<1>4. /\ qHistory' = [g \in Groups |-> qHistory'[g]]
      /\ \A g \in Groups :
           IsRing(qHistory'[g], MaxQHistory, NoQuestion, Questions(g))
      /\ AskedInv'
  <2>1. CASE Ends(q, timedOut)
    BY <1>1, <1>2, <2>1, AskRings
  <2>2. CASE ~Ends(q, timedOut)
    BY <1>1, <1>2, <2>2 DEF RingsInv, AskedInv, Chosen, GroupOf, Groups
  <2> QED BY <2>1, <2>2
<1>5. RingsInv'
  BY <1>3, <1>4 DEF RingsInv, Lists, Groups, Questions
<1>6. LoopInv'
  <2>1. tries' \in 0 .. MaxTries
    BY <1>2, MakerSizes, SMT DEF MakerInv, LoopInv
  <2>2. group' \in 0 .. 3 /\ (group' # 0 => Chosen(group)')
    BY <1>1, <1>2, SMT DEF MakerInv, LoopInv, Chosen, GroupOf
  <2>3. slips' \in SUBSET (Lists \ Plain)
    BY <1>1, <1>2, PhrasesOf
  <2>4. late' \in BOOLEAN
    BY <1>2
  <2> QED BY <2>1, <2>2, <2>3, <2>4 DEF LoopInv, Lists
<1> QED BY <1>4, <1>5, <1>6 DEF MakerInv

LEMMA MakerTypes == MakerInv => MakerTypeOK
<1> SUFFICES ASSUME MakerInv PROVE MakerTypeOK
  OBVIOUS
<1>1. ASSUME NEW l \in Lists
      PROVE  /\ history[l].Index \in 1 .. MaxPhraseHistory
             /\ history[l].Entry \in [1 .. MaxPhraseHistory -> 0 .. Count[l]]
  <2>1. (1 .. Count[l]) \cup {0} = 0 .. Count[l]
    BY MakerAssumption, SMT
  <2> QED BY <2>1 DEF MakerInv, RingsInv, IsRing
<1>2. ASSUME NEW g \in Groups
      PROVE  /\ qHistory[g].Index \in 1 .. MaxQHistory
             /\ \A i \in 1 .. MaxQHistory :
                  \/ qHistory[g].Entry[i] = NoQuestion
                  \/ qHistory[g].Entry[i] \in Questions(g) /\ Chosen(g)
  <2>1. /\ qHistory[g].Index \in 1 .. MaxQHistory
        /\ qHistory[g].Entry
             \in [1 .. MaxQHistory -> Questions(g) \cup {NoQuestion}]
    BY DEF MakerInv, RingsInv, IsRing
  <2> QED BY <2>1 DEF MakerInv, AskedInv
<1> QED BY <1>1, <1>2 DEF MakerInv, LoopInv, MakerTypeOK, Chosen

LEMMA MakerInvariance == MakerSpec => []MakerInv
<1>1. MakerInv /\ [MakerNext]_makerVars => MakerInv'
  <2> SUFFICES ASSUME MakerInv, [MakerNext]_makerVars PROVE MakerInv'
    OBVIOUS
  <2>1. CASE ChooseGroup
    BY <2>1, ChooseGroupInv
  <2>2. CASE Try
    BY <2>2, TryInv
  <2>3. CASE UNCHANGED makerVars
    BY <2>3 DEF makerVars, MakerInv, RingsInv, AskedInv, LoopInv, Lists,
                Groups, Questions, Chosen, GroupOf
  <2> QED BY <2>1, <2>2, <2>3 DEF MakerNext
<1> QED BY <1>1, MakerInitInv, PTL DEF MakerSpec

(* The rings hold phrases of their lists and questions of their groups,    *)
(* for any lists and sizes; a group that the dice cannot choose, whatever  *)
(* the frequencies, has asked nothing (QMakerU.pas 329-334, 356-364).      *)
THEOREM MakerTypeCorrect == MakerSpec => []MakerTypeOK
BY MakerInvariance, MakerTypes, PTL

-----------------------------------------------------------------------------
(* The question maker: its promise.                                        *)
LEMMA TryKeepsPromise ==
  ASSUME MakerInv, Try
  PROVE  Promise!Next
<1>1. group \in Groups /\ Chosen(group) /\ RingsInv /\ AskedInv
  BY SMT DEF MakerInv, LoopInv, Try, Groups
<1>2. PICK q \in Questions(group),
           slipped \in SUBSET {ListsOf[group][j] : j \in 1 .. 3},
           timedOut \in BOOLEAN :
        /\ \A j \in 1 .. 3 : MayTake(ListsOf[group][j], q[j],
                                     ListsOf[group][j] \in slipped)
        /\ Remember(q)
        /\ qHistory' = IF Ends(q, timedOut)
                       THEN [qHistory EXCEPT ![group] =
                               Recorded(@, q, MaxQHistory)]
                       ELSE qHistory
        /\ late' = timedOut /\ slips' = slipped
  BY Zenon DEF Try
<1>3. DOMAIN q = 1 .. 3
  BY <1>1, PhrasesOf
<1>4. ASSUME NEW j \in DOMAIN q,
             ListsOf[group][j] \in Lists \ Plain,
             q[j] \in Promise!ToSet(tried[ListsOf[group][j]])
      PROVE  ListsOf[group][j] \in slips'
  <2>1. PICK l \in Lists \ Plain : l = ListsOf[group][j]
    BY <1>4
  <2>2. PICK x \in 1 .. Count[l] : x = q[j]
    BY <1>1, <1>3, <2>1, PhrasesOf
  <2>3. PICK ring : /\ ring = history[l]
                    /\ IsRing(ring, MaxPhraseHistory, 0, 1 .. Count[l])
    BY <1>1 DEF RingsInv
  <2>4. 0 \notin 1 .. Count[l] /\ MaxPhraseHistory \in Nat \ {0}
    BY NotAPhrase, MakerSizes
  <2>5. Holds(ring, x) <=> x \in Promise!ToSet(Queue(ring, 0))
    BY <2>3, <2>4, QueueHolds
  <2>6. x \in Promise!ToSet(Queue(ring, 0))
    BY <1>4, <2>1, <2>2, <2>3 DEF tried
  <2>7. MayTake(l, x, l \in slipped)
    BY <1>2, <1>3, <2>1, <2>2
  <2> QED BY <1>2, <2>1, <2>3, <2>5, <2>6, <2>7 DEF MayTake
<1>5. tried' = [l \in Lists \ Plain |->
        IF \E j \in DOMAIN q : ListsOf[group][j] = l
        THEN Promise!LastOf(Append(tried[l],
               q[CHOOSE j \in DOMAIN q : ListsOf[group][j] = l]),
               MaxPhraseHistory)
        ELSE tried[l]]
  <2>1. ASSUME NEW l \in Lists \ Plain
        PROVE  Queue(history'[l], 0) =
                 IF Uses(l)
                 THEN Promise!LastOf(Append(tried[l], PhraseOf(l, q)),
                                     MaxPhraseHistory)
                 ELSE tried[l]
    <3>1. history'[l] = IF Uses(l)
                        THEN Recorded(history[l], PhraseOf(l, q),
                                      MaxPhraseHistory)
                        ELSE history[l]
      BY <1>1, <1>2, RememberRings
    <3>2. tried[l] = Queue(history[l], 0)
      BY DEF tried
    <3>3. CASE Uses(l)
      <4>1. PICK ring, S : ring = history[l] /\ S = 1 .. Count[l]
        OBVIOUS
      <4>2. PICK x \in S : x = PhraseOf(l, q)
        BY <1>1, <3>3, <4>1, PhraseInList
      <4>3. IsRing(ring, MaxPhraseHistory, 0, S)
        BY <1>1, <4>1 DEF RingsInv
      <4>4. 0 \notin S /\ MaxPhraseHistory \in Nat \ {0}
        BY <4>1, NotAPhrase, MakerSizes
      <4>5. Queue(Recorded(ring, x, MaxPhraseHistory), 0)
              = Promise!LastOf(Append(Queue(ring, 0), x), MaxPhraseHistory)
        BY <4>3, <4>4, QueueRecorded
      <4> QED BY <3>1, <3>2, <3>3, <4>1, <4>2, <4>5
    <3>4. CASE ~Uses(l)
      BY <3>1, <3>2, <3>4
    <3> QED BY <3>3, <3>4
  <2>2. tried' = [l \in Lists \ Plain |-> Queue(history'[l], 0)]
    BY DEF tried, Lists
  <2> QED BY <1>3, <2>1, <2>2 DEF Uses, PhraseOf
<1>6. IF late' \/ q \notin Promise!ToSet(asked[group])
      THEN asked' = [asked EXCEPT ![group] =
                       Promise!LastOf(Append(@, q), MaxQHistory)]
      ELSE UNCHANGED asked
  <2>1. IsRing(qHistory[group], MaxQHistory, NoQuestion, Questions(group))
    BY <1>1 DEF RingsInv
  <2>2. NoQuestion \notin Questions(group) /\ MaxQHistory \in Nat \ {0}
    BY <1>1, NotQuestions, MakerSizes
  <2>3. PICK ring, S : ring = qHistory[group] /\ S = Questions(group)
    OBVIOUS
  <2>4. /\ Holds(ring, q) <=> q \in Promise!ToSet(Queue(ring, NoQuestion))
        /\ Queue(Recorded(ring, q, MaxQHistory), NoQuestion)
             = Promise!LastOf(Append(Queue(ring, NoQuestion), q), MaxQHistory)
    BY <2>1, <2>2, <2>3, QueueHolds, QueueRecorded
  <2>5. asked[group] = Queue(ring, NoQuestion)
    BY <1>1, <2>3 DEF asked
  <2>6. Ends(q, timedOut) <=> late' \/ q \notin Promise!ToSet(asked[group])
    BY <1>2, <2>3, <2>4, <2>5 DEF Ends, QuestionAsked
  <2>7. CASE Ends(q, timedOut)
    <3>1. /\ qHistory' = [qHistory EXCEPT ![group] =
                            Recorded(@, q, MaxQHistory)]
          /\ qHistory = [g \in Groups |-> qHistory[g]]
      BY <1>1, <1>2, <2>7 DEF RingsInv
    <3>2. \A g \in Groups : qHistory'[g] = IF g = group
                                           THEN Recorded(ring, q, MaxQHistory)
                                           ELSE qHistory[g]
      BY <1>1, <2>3, <3>1
    <3>3. asked' = [g \in Groups |-> Queue(qHistory'[g], NoQuestion)]
      BY DEF asked, Groups, NoQuestion
    <3>4. asked' = [asked EXCEPT ![group] =
                       Promise!LastOf(Append(@, q), MaxQHistory)]
      BY <1>1, <2>4, <2>5, <3>2, <3>3 DEF asked
    <3> QED BY <2>6, <2>7, <3>4
  <2>8. CASE ~Ends(q, timedOut)
    <3>1. UNCHANGED asked
      BY <1>2, <2>8 DEF asked, Groups, NoQuestion
    <3> QED BY <2>6, <2>8, <3>1
  <2> QED BY <2>7, <2>8
<1> QED BY <1>1, <1>4, <1>5, <1>6 DEF Promise!Next, Promise!Try, Promise!Ask,
                                      asked, tried

(* For any lists, frequencies and sizes of the histories: the rings are    *)
(* the queues of QuestionPromise; so no question is asked that is among    *)
(* the last of its group, and no phrase tried among the last of its list,  *)
(* before its time is up (QMakerU.pas 283-334, 388-425).                   *)
THEOREM MakerKeepsPromise == MakerSpec => KeepsPromise
<1>1. MakerInit => Promise!Init
  <2> SUFFICES ASSUME MakerInit PROVE Promise!Init
    OBVIOUS
  <2>1. \A size \in Nat \ {0} : \A none :
          Queue(EmptyRing(size, none), none) = << >>
    <3>1. ASSUME NEW size \in Nat \ {0}, NEW none
          PROVE  Queue(EmptyRing(size, none), none)
                   = SubSeq([i \in 1 .. size |-> none], 1, 0)
      <4>1. 1 \in 1 .. size /\ 1 - 1 = 0
        BY SMT
      <4> QED BY <4>1 DEF Queue, EmptyRing
    <3> QED BY <3>1, SubSeqEmpty, SMT
  <2>2. asked = [g \in Groups |-> << >>]
    BY <2>1, MakerSizes DEF MakerInit, asked
  <2>3. tried = [l \in Lists \ Plain |-> << >>]
    BY <2>1, MakerSizes DEF MakerInit, tried
  <2> QED BY <2>2, <2>3 DEF Promise!Init, asked, tried
<1>2. MakerInv /\ [MakerNext]_makerVars => [Promise!Next]_<<asked, tried>>
  <2> SUFFICES ASSUME MakerInv, [MakerNext]_makerVars
               PROVE  Promise!Next \/ UNCHANGED <<asked, tried>>
    OBVIOUS
  <2>1. CASE Try
    BY <2>1, TryKeepsPromise
  <2>2. CASE ChooseGroup \/ UNCHANGED makerVars
    BY <2>2 DEF ChooseGroup, makerVars, asked, tried, Groups, Lists, NoQuestion
  <2> QED BY <2>1, <2>2 DEF MakerNext
<1>3. MakerSpec => Promise!Init /\ [][Promise!Next]_<<asked, tried>>
  BY <1>1, <1>2, MakerInvariance, PTL DEF MakerSpec
<1>4. (Promise!Init /\ [][Promise!Next]_<<asked, tried>>) => KeepsPromise
  BY PTL DEF KeepsPromise, Promise!Spec, asked, tried
<1> QED BY <1>3, <1>4, PTL
=============================================================================
