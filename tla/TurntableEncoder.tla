-------------------------- MODULE TurntableEncoder --------------------------
(***************************************************************************)
(* How the turntable of Cardinal Directions knows where it stands: the     *)
(* part of the Arduino sketch UDPAPP13_zeroG that counts the edges of a    *)
(* quadrature encoder in an interrupt handler, reads the count in loop(),  *)
(* zeroes it at an infrared sensor and ends a homing when it is zero.      *)
(*                                                                         *)
(* counterValue is a 16-bit int of an 8-bit processor, volatile but never  *)
(* read or written with interrupts off: the compiler moves it byte by      *)
(* byte, reading the low byte first and writing the high byte first, and   *)
(* the handler may run between the two (once: after an interrupt the       *)
(* processor executes an instruction before it takes the next).            *)
(***************************************************************************)
EXTENDS Integers

CONSTANTS
  linesPerRevolution,  (* Counts in a turn: 9600.                          *)
  Byte,                (* Values of a byte: 256.                           *)
  debounceDelay        (* For so long must the sensor read the same.       *)

(* Four edges of the encoder make a period, and a turn is whole periods;   *)
(* so are the values of a byte.  A count fits a word with its sign.        *)
ASSUME EncoderAssumption == /\ linesPerRevolution \in Nat \ {0}
                            /\ linesPerRevolution % 4 = 0
                            /\ Byte \in Nat \ {0} /\ Byte % 4 = 0
                            /\ Byte < linesPerRevolution
                            /\ 2 * linesPerRevolution <= Byte * Byte
                            /\ debounceDelay \in Nat

VARIABLES
  turn,             (* The turntable: edges from a mark, modulo a turn.    *)
  pending,          (* A pin has changed since the handler was entered.    *)
  counterValue, A_set, B_set,                  (* What the handler writes. *)
  pc,               (* loop(): the next access to what it shares.          *)
  negative,         (* The outcome of "counterValue < 0".                  *)
  wrappedCounter,
  buttonState, last_buttonState, last_reading, (* The infrared sensor.     *)
  age,              (* Time since lastDebounceTime, as of the last look.   *)
  doHoming,
  zeroed,           (* History: the sensor has zeroed the counter.         *)
  seen,             (* History: turn as the handler saw it last.           *)
  offset,           (* History: where it was zeroed; 0 if missed.           *)
  missed            (* History: the handler has missed an edge since.      *)

tableVars   == <<turn, pending>>
encoderVars == <<counterValue, A_set, B_set, seen>>
sensorVars  == <<buttonState, last_buttonState, last_reading, age>>
history     == <<zeroed, offset, missed>>
vars == <<tableVars, encoderVars, pc, negative, wrappedCounter, sensorVars,
          doHoming, history>>

Bit     == {0, 1}
Counter == 1 - linesPerRevolution .. linesPerRevolution - 1
Word    == Byte * Byte

(* The pins, a quarter of a period apart, and the edges of B up to turn t. *)
PinA(t)  == IF t % 4 \in {1, 2} THEN 1 ELSE 0
PinB(t)  == IF t % 4 \in {2, 3} THEN 1 ELSE 0
EdgesB(t) == t \div 2

(* The % of C: the remainder has the sign of the dividend.                 *)
Remainder(c) == IF c >= 0 THEN c % linesPerRevolution
                ELSE -((-c) % linesPerRevolution)

(* The high byte carries the sign.                                         *)
Low(c)        == c % Byte
High(c)       == c \div Byte
Bytes(hi, lo) == hi * Byte + lo

-----------------------------------------------------------------------------
(* The turntable turns by an edge, driven, coasting or pushed.             *)
Rotate ==
  /\ \E d \in {1, -1} : turn' = (turn + d) % linesPerRevolution
  /\ pending' = TRUE
  /\ missed' = (missed \/ pending)
  /\ offset' = IF missed' THEN 0 ELSE offset
  /\ UNCHANGED <<encoderVars, pc, negative, wrappedCounter, sensorVars,
                 doHoming, zeroed>>

(* Mutant: the first comparison uses B as it is now.                       *)
Counted_NewB(c, a, b) == Remainder(c + (IF a = b THEN 1 ELSE -1)
                                     + (IF a # b THEN 1 ELSE -1))

(* What the handler makes of the counter: A is compared with the B of the  *)
(* time before, and with the B of now.                                     *)
Counted(c, a, b) == Remainder(c + (IF a = B_set THEN 1 ELSE -1)
                                + (IF a # b THEN 1 ELSE -1))

(* The handler reads A and then B: an edge may come in between, and makes  *)
(* it run again.  It finds the counter at c and leaves it at count.        *)
HandlerOn(c, count) ==
  /\ pending
  /\ \E d \in {0, 1, -1} :
       LET now == (turn + d) % linesPerRevolution
       IN  /\ turn' = now /\ pending' = (d # 0) /\ seen' = now
           /\ A_set' = PinA(turn) /\ B_set' = PinB(now)
           /\ count = Counted(c, PinA(turn), PinB(now))

Quiet == UNCHANGED <<tableVars, A_set, B_set, seen>>

Handler ==
  /\ HandlerOn(counterValue, counterValue')
  /\ UNCHANGED <<pc, negative, wrappedCounter, sensorVars, doHoming, history>>

-----------------------------------------------------------------------------
(* loop(): the sign of the counter is in one byte, its value in two.       *)
ReadSign ==
  /\ pc = "sign"
  /\ wrappedCounter' = 0
  /\ negative' = (counterValue < 0)
  /\ pc' = "value"
  /\ UNCHANGED <<tableVars, encoderVars, sensorVars, doHoming, history>>

(* wrappedCounter is unsigned.                                             *)
Wrapped(c) == (IF negative THEN linesPerRevolution + c ELSE c) % Word

(* Mutant: the high byte is read first.                                    *)
Torn_HighFirst(before, after) == Bytes(High(before), Low(after))

(* A read with the handler in its middle.                                  *)
Torn(before, after) == Bytes(High(after), Low(before))

ReadValue ==
  /\ pc = "value"
  /\ \/ /\ wrappedCounter' = Wrapped(counterValue)
        /\ Quiet /\ UNCHANGED counterValue
     \/ /\ HandlerOn(counterValue, counterValue')
        /\ wrappedCounter' = Wrapped(Torn(counterValue, counterValue'))
  /\ pc' = "sensor" /\ negative' = FALSE
  /\ UNCHANGED <<sensorVars, doHoming, history>>

-----------------------------------------------------------------------------
(* From here on the counter follows the turntable, if the handler has seen *)
(* all that happened before.                                               *)
Noted == /\ zeroed' = TRUE 
         /\ missed' = (missed /\ (pending' \/ B_set' # PinB(seen')))
         /\ offset' = IF missed' THEN 0 ELSE 2 * EdgesB(seen')

(* counterValue = 0, high byte first; then wrappedCounter = 0.             *)
Zero ==
  /\ \/ counterValue' = 0 /\ Quiet
     \/ \E count \in Counter : /\ HandlerOn(Low(counterValue), count)
                               /\ counterValue' = Bytes(High(count), 0)
  /\ wrappedCounter' = 0 /\ Noted

(* checkIRsensor.  The two states move on only when the reading has been   *)
(* the same for long enough; the counter is zeroed as long as they say     *)
(* that the sensor has just been covered.                                  *)
CheckIRsensor ==
  /\ pc = "sensor"
  /\ \E reading \in Bit, elapsed \in {0, 1} :
       /\ age' = IF reading # last_reading THEN 0
                 ELSE IF age > debounceDelay THEN age ELSE age + elapsed
       /\ last_reading' = reading
       /\ IF age' > debounceDelay
            THEN last_buttonState' = buttonState /\ buttonState' = reading
            ELSE UNCHANGED <<last_buttonState, buttonState>>
  /\ IF buttonState' = 1 /\ last_buttonState' = 0 THEN Zero
       ELSE Quiet /\ UNCHANGED <<counterValue, wrappedCounter, history>>
  /\ pc' = "homing"
  /\ UNCHANGED <<negative, doHoming>>

(* Homing ends at zero; otherwise, and then at once, a command that has    *)
(* been received may start one.                                            *)
AtHome == doHoming /\ wrappedCounter = 0

Home ==
  /\ pc = "homing"
  /\ doHoming' \in IF doHoming /\ ~AtHome THEN {TRUE} ELSE BOOLEAN
  /\ pc' = "sign"
  /\ UNCHANGED <<tableVars, encoderVars, negative, wrappedCounter, sensorVars,
                 history>>

-----------------------------------------------------------------------------
(* Mutant: the counter starts at zero.                                     *)
InitialCount_Zero == 0

InitialCount == 1

(* The pins are high at rest, A_set and B_set start false all the same.    *)
Init == /\ turn \in 0 .. 3 /\ pending = FALSE /\ missed = (PinB(turn) = 1)
        /\ counterValue = InitialCount /\ A_set = 0 /\ B_set = 0
        /\ seen = turn /\ offset = 0
        /\ pc = "sign" /\ negative = FALSE /\ wrappedCounter = 1
        /\ buttonState = 0 /\ last_buttonState = 0 /\ last_reading = 0
        /\ age = debounceDelay + 1
        /\ doHoming = FALSE /\ zeroed = FALSE

Next == \/ Rotate \/ Handler
        \/ ReadSign \/ ReadValue \/ CheckIRsensor \/ Home

Spec == Init /\ [][Next]_vars

-----------------------------------------------------------------------------
(* Properties.                                                             *)

(* Every variable keeps its type.                                          *)
TypeOK == /\ turn \in 0 .. linesPerRevolution - 1 /\ pending \in BOOLEAN
          /\ counterValue \in Counter /\ A_set \in Bit /\ B_set \in Bit
          /\ pc \in {"sign", "value", "sensor", "homing"}
          /\ negative \in BOOLEAN /\ wrappedCounter \in 0 .. Word - 1
          /\ buttonState \in Bit /\ last_buttonState \in Bit
          /\ last_reading \in Bit /\ age \in 0 .. debounceDelay + 1
          /\ doHoming \in BOOLEAN
          /\ zeroed \in BOOLEAN /\ missed \in BOOLEAN
          /\ seen \in 0 .. linesPerRevolution - 1
          /\ offset \in 0 .. linesPerRevolution - 1

(* The counter means nothing before the sensor has zeroed it: no homing    *)
(* ends earlier, whatever edges are missed and however reads are torn.     *)
(* (The counter starts at 1 and moves by 2, so it cannot be read as zero.) *)
HomesAtSensor == pc = "homing" /\ AtHome => zeroed

(* Once zeroed, the counter follows the turntable.  Zeroing it byte by     *)
(* byte may put it off by what the high byte counts, and by nothing else;  *)
(* the next zeroing puts that right.                                       *)
TracksToAPage ==
  zeroed /\ ~missed =>
    \E page \in {0, Byte, -Byte} :
      (counterValue + 2 * EdgesB(seen) - offset - page)
         % linesPerRevolution = 0

(* Where a homing may end by the count: the turntable is at zero or, if    *)
(* the handler tore the read, a page further, where the high byte changes. *)
ReadsZeroAtAPage ==
  [][pc = "value" /\ pc' = "sensor" /\ wrappedCounter' = 0
       => counterValue % linesPerRevolution \in {0, Byte}]_vars
=============================================================================
