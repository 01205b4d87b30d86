---------------------------- MODULE QuestionScreen ----------------------------
(***************************************************************************)
(* The screen of 33 Questions Per Minute: a timer makes a new question     *)
(* every period; a visitor types one of his own, and after a count-down it *)
(* takes the screen; the operator changes the settings in a modal dialog,  *)
(* over which the timer is off.                                            *)
(*                                                                         *)
(* Times are readings of GetTickCount, which starts again from 0 after     *)
(* Wrap.  The program is built with overflow and range checks on: an       *)
(* operation that leaves its type raises an exception, which ends the      *)
(* handler where it stands; the message box it shows is left out, and so   *)
(* are the log file and the text of the questions (see QuestionMaker).     *)
(* One thing matters of a text: whether the lines can be laid out.  The    *)
(* program's own words are taken to fit the screen; a visitor's need not.  *)
(***************************************************************************)
EXTENDS Integers

CONSTANTS
  Wrap,             (* Readings of GetTickCount: 2^32 ms; DWord holds them. *)
  Second,           (* A second.                                           *)
  CountDownPeriod, EditTimeOut,
  Periods,          (* 60000 / QPerMinute, for what the settings allow.    *)
  PerLanguages,     (* QPerLanguage, for what the settings allow.          *)
  Languages,        (* Settings of the language, of Settings below.        *)
  Longest           (* The histories count no further.                     *)

Settings == {"english", "spanish", "random", "sequence"}

ASSUME ScreenAssumption ==
  /\ Wrap \in Nat /\ Second \in Nat /\ CountDownPeriod \in Nat
  /\ EditTimeOut \in Nat \ {0}
  /\ Periods \subseteq Nat \ {0} /\ PerLanguages \subseteq Nat \ {0}
  /\ Languages \subseteq Settings
  /\ Longest \in Nat
  /\ \A p \in Periods, n \in PerLanguages : (n + 1) * p < Longest
  /\ CountDownPeriod + Second < Longest
  /\ Second >= 2 /\ 1 \notin Periods  (* The clock is finer than either.    *)

VARIABLES
  now,              (* GetTickCount.                                       *)
  ticked,           (* The timer, since it is on, has ticked at this       *)
                    (* reading of the clock.                               *)
  timer,            (* Timer.Enabled.                                      *)
  setup,            (* The dialog is open.                                 *)
  language, QPerLanguage, period,                           (* Settings.   *)
  QCount, CurrentLanguage,
  question,         (* What the labels show: how it was come by; torn, if  *)
                    (* they are left with lines of two questions.          *)
  unfit,            (* To lay out QuestionMaker.Question raises an         *)
                    (* exception.                                          *)
  LastQuestionTime,
  edit,             (* Edit.Visible.                                       *)
  lcd, zero,        (* Lcd.Visible; Lcd.Value is 0.                        *)
  since,            (* EditTime under Edit, CountDownTime under Lcd; then  *)
                    (* neither is read again, and it is 0.                 *)
  age,              (* History: for how long the question has been shown.  *)
  lost,             (* History: visitors' texts that could not be shown    *)
                    (* in its place.                                       *)
  paused,           (* History: the dialog has been open since.            *)
  waited,           (* History: time since Edit, or Lcd, came up.          *)
  held              (* History: dialog or wrap since Edit or Lcd came up.  *)

settings == <<language, QPerLanguage, period>>
maker    == <<QCount, CurrentLanguage, question, unfit, LastQuestionTime>>
entry    == <<edit, lcd, zero, since>>
histories == <<age, lost, paused, waited, held>>
vars == <<now, ticked, timer, setup, settings, maker, entry, histories>>

Times    == 0 .. Wrap - 1
HalfWrap == Wrap \div 2                          (* MaxInt + 1.            *)

(* The histories stop counting at Longest.                                 *)
Later(t) == IF t < Longest THEN t + 1 ELSE t

-----------------------------------------------------------------------------
(* "NextQuestionTime := LastQuestionTime + Round(...)" does not fit DWord. *)
OutOfRange == LastQuestionTime + period >= Wrap

(* Mutant: no questions are made over a count-down.                        *)
TimeForANewQuestion_NotOverLcd ==
  ~lcd /\ ~OutOfRange /\ now >= LastQuestionTime + period

TimeForANewQuestion == ~OutOfRange /\ now >= LastQuestionTime + period

Other(l) == IF l = "english" THEN "spanish" ELSE "english"

(* Which language the next question is in.                                 *)
NextLanguage ==
  \/ language \in {"english", "spanish"} /\ CurrentLanguage' = language
     /\ QCount' = QCount
  \/ language = "random" /\ CurrentLanguage' \in {"english", "spanish"}
     /\ QCount' = QCount
  \/ language = "sequence" /\ QCount < QPerLanguage
     /\ QCount' = QCount + 1 /\ CurrentLanguage' = CurrentLanguage
  \/ language = "sequence" /\ QCount >= QPerLanguage
     /\ QCount' = 1 /\ CurrentLanguage' = Other(CurrentLanguage)

(* Mutant: in a type of half the range.                                    *)
Overflows_Sooner(l) == l = "spanish" /\ 2 * now >= HalfWrap

(* SpanishQuestion keeps its start in an Integer.                          *)
Overflows(l) == l = "spanish" /\ now >= HalfWrap

(* What it displays besides, when no exception has ended the tick before.  *)
(* "GetTickCount - t" overflows when the clock has started again since t.  *)
Elapsed(t) == now - t

(* Lcd.Value := Round((CountDownPeriod - TimeElapsed) / 1000) is 0.  Past  *)
(* the period the difference either has a sign or overflows.               *)
UpdateLcd ==
  LET left   == CountDownPeriod - Elapsed(since)
      isZero == 2 * left \in -Second .. Second
  IN  \/ zero /\ lcd' = FALSE /\ zero' = zero /\ since' = 0
      \/ ~zero /\ now < since /\ UNCHANGED <<lcd, zero, since>>
      \/ /\ ~zero /\ now >= since
         /\ \/ isZero /\ zero' = TRUE
            \/ (~isZero \/ left < 0) /\ zero' = FALSE
         /\ UNCHANGED <<lcd, since>>

(* Mutant: the time-out must be met to the reading.                        *)
UpdateEditTimeOut_Exactly ==
  /\ edit' = (now < since \/ Elapsed(since) # EditTimeOut)
  /\ since' = IF edit' THEN since ELSE 0

UpdateEditTimeOut ==
  /\ edit' = (now < since \/ Elapsed(since) < EditTimeOut)
  /\ since' = IF edit' THEN since ELSE 0

(* The display's part of a tick.                                           *)
Display ==
  \/ lcd /\ UpdateLcd /\ edit' = edit
  \/ ~lcd /\ edit /\ UpdateEditTimeOut /\ UNCHANGED <<lcd, zero>>
  \/ ~lcd /\ ~edit /\ UNCHANGED entry

(* The visitor's question takes the screen in this tick.                   *)
Answered == lcd /\ ~lcd'

(* Mutant: a visitor's question does not start a period.                   *)
PeriodStart_Asked(asks) == IF asks THEN now ELSE LastQuestionTime

PeriodStart(asks) == IF asks \/ Answered THEN now ELSE LastQuestionTime

(* What is on the screen after a tick.  A visitor's text may not be laid   *)
(* out: "QLabel[QLblCount]" is read with QLblCount 0 when its first word   *)
(* is wider than the screen and others follow, and "Question[I2]" past the *)
(* end.  The exception leaves the labels as they were, or some of them;    *)
(* the period has begun and Lcd is gone.                                   *)
Shown(asks) ==
  LET before == IF asks THEN CurrentLanguage' ELSE question
      new    == asks \/ (Answered /\ ~unfit')
  IN  /\ \/ ~Answered /\ question' = before /\ unfit' = (unfit /\ ~asks)
         \/ Answered /\ question' = "visitor" /\ unfit' = FALSE
         \/ Answered /\ question' \in {before, "torn"} /\ unfit' = TRUE
      /\ LastQuestionTime' = PeriodStart(asks)
      /\ age' = IF new THEN 0 ELSE age
      /\ lost' = IF new THEN 0 ELSE IF Answered THEN Later(lost) ELSE lost
      /\ paused' = (paused /\ ~new)

TimerTimer ==
  /\ timer
  /\ ticked' = TRUE
  /\ \/ OutOfRange /\ UNCHANGED <<maker, entry, age, lost, paused>>
     \/ /\ TimeForANewQuestion /\ NextLanguage
        /\ Overflows(CurrentLanguage')
        /\ LastQuestionTime' = now
        /\ UNCHANGED <<question, unfit, entry, age, lost, paused>>
     \/ /\ TimeForANewQuestion /\ NextLanguage
        /\ ~Overflows(CurrentLanguage')
        /\ Display /\ Shown(TRUE)
     \/ /\ ~OutOfRange /\ ~TimeForANewQuestion
        /\ Display /\ Shown(FALSE)
        /\ UNCHANGED <<QCount, CurrentLanguage>>
  /\ UNCHANGED <<now, timer, setup, settings, waited, held>>

-----------------------------------------------------------------------------
(* Mutant: a second Enter, or any key, starts Edit over a count-down.      *)
FormKeyDown_OverLcd ==
  /\ ~setup /\ ~edit
  /\ edit' = TRUE /\ since' = now
  /\ waited' = 0 /\ held' = FALSE
  /\ UNCHANGED <<now, ticked, timer, setup, settings, maker, lcd, zero, age,
                 lost, paused>>

(* A key: with neither Edit nor Lcd on the screen it brings up Edit.       *)
FormKeyDown ==
  /\ ~setup /\ ~edit /\ ~lcd
  /\ edit' = TRUE /\ since' = now
  /\ waited' = 0 /\ held' = FALSE
  /\ UNCHANGED <<now, ticked, timer, setup, settings, maker, lcd, zero, age,
                 lost, paused>>

(* Mutant: the count-down's start is not taken.                            *)
EditKeyPress_OldStart ==
  /\ ~setup /\ edit
  /\ edit' = FALSE /\ lcd' = TRUE
  /\ zero' \in BOOLEAN /\ (zero' <=> 2 * CountDownPeriod <= Second)
  /\ waited' = 0 /\ held' = ~timer
  /\ UNCHANGED <<now, ticked, timer, setup, settings, maker, since, age, lost,
                 paused>>

(* Enter in Edit.                                                          *)
EditKeyPress ==
  /\ ~setup /\ edit
  /\ edit' = FALSE /\ lcd' = TRUE
  /\ zero' \in BOOLEAN /\ (zero' <=> 2 * CountDownPeriod <= Second)
  /\ since' = now
  /\ waited' = 0 /\ held' = ~timer
  /\ UNCHANGED <<now, ticked, timer, setup, settings, maker, age, lost, paused>>

(* The right button: the timer is put off and the dialog comes up.  Before *)
(* it does, Initialize sets HAlignmentRG, whose handler lays the question  *)
(* out again; if that raises, the dialog is freed and the timer stays off. *)
OpenSetup ==
  /\ ~setup
  /\ timer' = FALSE /\ setup' = ~unfit
  /\ paused' = TRUE /\ held' = (held \/ lcd)
  /\ UNCHANGED <<now, ticked, settings, maker, entry, age, lost, waited>>

(* Save or Cancel.  A font or a border that was saved may no longer lay    *)
(* out the visitor's question on the screen.                               *)
CloseSetup ==
  /\ setup
  /\ setup' = FALSE /\ timer' = TRUE /\ ticked' = FALSE
  /\ language' \in Languages /\ QPerLanguage' \in PerLanguages
  /\ period' \in Periods
  /\ unfit' \in BOOLEAN /\ (unfit' => question = "visitor")
  /\ UNCHANGED <<now, QCount, CurrentLanguage, question, LastQuestionTime>>
  /\ UNCHANGED <<entry, histories>>

(* Time passes; the timer does not miss a reading of the clock.            *)
Clock ==
  /\ ticked \/ ~timer
  /\ now' = (now + 1) % Wrap
  /\ ticked' = FALSE
  /\ age' = Later(age) /\ waited' = IF edit \/ lcd THEN Later(waited) ELSE 0
  /\ held' = ((edit \/ lcd) /\ (held \/ now' = 0))
  /\ UNCHANGED <<timer, setup, settings, maker, entry, lost, paused>>

(* LoadCfgFile and FormCreate, at any time after the computer started.     *)
Init ==
  /\ now \in Times /\ ticked = FALSE /\ timer = TRUE /\ setup = FALSE
  /\ language \in Languages /\ QPerLanguage \in PerLanguages
  /\ period \in Periods
  /\ QCount = 0 /\ CurrentLanguage = "english" /\ question = "none"
  /\ unfit = FALSE /\ LastQuestionTime = 0
  /\ edit = FALSE /\ lcd = FALSE /\ zero = FALSE /\ since = 0
  /\ age = 0 /\ lost = 0 /\ paused = TRUE /\ waited = 0 /\ held = FALSE

Next == \/ TimerTimer \/ FormKeyDown \/ EditKeyPress
        \/ OpenSetup \/ CloseSetup \/ Clock

Spec == Init /\ [][Next]_vars

(* Time passes and, while it is on, the timer ticks.                       *)
Fairness == WF_vars(Clock) /\ WF_vars(TimerTimer)

FairSpec == Spec /\ Fairness

-----------------------------------------------------------------------------
(* The state is what the program can be in: Edit and Lcd are never on the  *)
(* screen together, the count of questions stays within the settings', and *)
(* the timer is off under the dialog, or when the dialog could not open.   *)
TypeOK ==
  /\ now \in Times /\ ticked \in BOOLEAN
  /\ timer \in BOOLEAN /\ setup \in BOOLEAN /\ unfit \in BOOLEAN
  /\ IF timer THEN ~setup ELSE setup <=> ~unfit
  /\ language \in Languages /\ QPerLanguage \in PerLanguages
  /\ period \in Periods
  /\ QCount \in Nat
  /\ QCount > 1 => \E n \in PerLanguages : QCount <= n
  /\ CurrentLanguage \in {"english", "spanish"}
  /\ question \in {"none", "visitor", "torn", "english", "spanish"}
  /\ LastQuestionTime \in Times
  /\ edit \in BOOLEAN /\ lcd \in BOOLEAN /\ zero \in BOOLEAN
  /\ ~(edit /\ lcd)
  /\ since \in Times
  /\ age \in 0 .. Longest /\ lost \in 0 .. Longest /\ waited \in 0 .. Longest
  /\ paused \in BOOLEAN /\ held \in BOOLEAN

(* A question gives way to one the program made no sooner than a period    *)
(* after it came up, the visitor's included, over the clock's restart and  *)
(* a visit to the dialog too; one that a visitor's text could not replace  *)
(* no sooner than a period after that.                                     *)
HoldsItsQuestion ==
  [][LastQuestionTime' # LastQuestionTime /\ ~Answered
       => question = "none" \/ age >= period]_vars

(* The visitor's question, if it can be laid out, comes up when the        *)
(* count-down says so, to half a second, when no dialog and no restart of  *)
(* the clock has come between; and if not, Lcd is gone then.               *)
AnswersOnTime ==
  [][Answered /\ ~held => /\ 2 * (waited - CountDownPeriod) >= -Second
                          /\ 2 * (waited - CountDownPeriod) <= Second + 2]_vars

(* The screen never stands still: the question on it is not older than a   *)
(* period; after half the clock's range, when no Spanish one can be made,  *)
(* than a period for each one of a run and the next; and than a period     *)
(* more for every visitor's text that should have taken the screen since   *)
(* and could not be laid out (Main.pas:279).  Unless the operator has been *)
(* there, or every tick now fails.                                         *)
NeverStandsStill ==
  ~paused /\ ~OutOfRange /\ language \in {"english", "sequence"}
    => age <= (lost + IF language = "sequence" /\ now >= HalfWrap
                      THEN QPerLanguage + 1 ELSE 1) * period

(* No tick succeeds any more, or the one at this reading of the clock made *)
(* no question and went no further.                                        *)
TickFailed == \/ OutOfRange
              \/ LastQuestionTime = now /\ Overflows(CurrentLanguage)

(* What a visitor began is ended in time, once the timer has ticked: the   *)
(* text left standing is taken away, a visit to the dialog in between or   *)
(* not, and the text submitted takes the screen.  Not so after a restart   *)
(* of the clock, or a dialog over the count-down, or one that could not    *)
(* open and took the timer with it: the screen stays taken.                *)
ScreenGivenBack ==
  ticked /\ ~setup /\ ~held /\ ~TickFailed
    => /\ edit => waited < EditTimeOut
       /\ lcd => 2 * (waited - CountDownPeriod) <= Second

(* Questions keep being asked; until the time of the next one leaves the   *)
(* clock's range, and then none ever is; or the right button is clicked    *)
(* after a visitor's text that cannot be laid out: the exception skips     *)
(* "Timer.Enabled:=True" (Main.pas:132).                                   *)
KeepsAsking ==
  \/ []<><<LastQuestionTime' # LastQuestionTime>>_vars
  \/ []<>setup
  \/ <>[]OutOfRange
  \/ <>[](unfit /\ ~timer)

-----------------------------------------------------------------------------
(* The inductive invariants behind HoldsItsQuestion and NeverStandsStill:  *)
(* a question is at least as old as its period; and older than that only   *)
(* by the periods of the Spanish ones that failed since, and those of the  *)
(* visitors' texts.                                                        *)
AgeInv == question # "none" /\ now >= LastQuestionTime
            => age >= now - LastQuestionTime \/ age = Longest

FailedSince(f) ==
  /\ age <= (lost + f) * period + (now - LastQuestionTime)
  /\ f > 0 => /\ language = "sequence" /\ CurrentLanguage = "spanish"
              /\ f <= QCount /\ LastQuestionTime >= HalfWrap

StillInv ==
  /\ timer \/ paused
  /\ ~paused /\ ~OutOfRange /\ language \in {"english", "sequence"}
       => /\ now >= LastQuestionTime /\ now - LastQuestionTime <= period
          /\ ticked => now - LastQuestionTime < period
          /\ \E f \in 0 .. QPerLanguage : FailedSince(f)

(* And those behind ScreenGivenBack and AnswersOnTime: what is measured is *)
(* the time since Edit or Lcd came up; a tick that fails is followed by    *)
(* one that does not, so the count-down finds the value 0 in the half      *)
(* second before its end, and ends at the next or the one after.           *)
SinceInv == (edit \/ lcd) /\ ~held =>
              /\ now >= since /\ waited <= now - since
              /\ waited = now - since \/ waited = Longest

PastEnd == now - since - CountDownPeriod

OnlyFailedAt(t) == /\ PastEnd = t /\ ticked => LastQuestionTime = now
                   /\ PastEnd = t + 1 => ~ticked /\ LastQuestionTime = now - 1

CountDownInv ==
  lcd /\ ~held => /\ timer
                  /\ \/ OutOfRange
                     \/ zero /\ 2 * PastEnd >= -Second
                          /\ PastEnd <= 2 /\ OnlyFailedAt(1)
                     \/ ~zero /\ PastEnd <= 0 /\ OnlyFailedAt(-1)

EditInv == ticked /\ ~setup /\ ~held /\ ~TickFailed /\ edit
             => waited < EditTimeOut

=============================================================================
