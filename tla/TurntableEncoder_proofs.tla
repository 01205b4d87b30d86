----------------------- MODULE TurntableEncoder_proofs -----------------------
(***************************************************************************)
(* Proofs about TurntableEncoder: it keeps its types, no homing ends       *)
(* before the infrared sensor has zeroed the counter, from then on the     *)
(* counter follows the table, and what is read as zero is at most a page   *)
(* away from it.                                                           *)
(*                                                                         *)
(* The first argument is parity.  The handler changes the counter by 0 or  *)
(* 2, and the remainder by an even number of counts does not change its    *)
(* parity; nor does a torn read, since the parity is in the low byte       *)
(* alone.  So the counter, 1 at first, is odd until it is zeroed, and so   *)
(* is what loop() makes of it.                                             *)
(*                                                                         *)
(* The second counts the edges of B.  Unless an edge is missed, the table  *)
(* is at most an edge away from where the handler saw it (TableInv), so    *)
(* what the handler adds is what B has turned by (EdgesCounted), modulo a  *)
(* turn (TrackInv).                                                        *)
(*                                                                         *)
(* The third is about a read torn by the handler, which puts the low byte  *)
(* of one count under the high byte of the next.  It is half a word at     *)
(* most (TornInWord), so it is taken for zero only if it is zero or a turn *)
(* below (TakenForZero); the next count is near (CountedNear), and so then *)
(* is this one (TornZero).                                                 *)
(***************************************************************************)
EXTENDS TurntableEncoder, TLAPS

Odd(c) == c % 2 = 1

(* Until it is zeroed the counter is odd, and so is its copy in loop().    *)
ParityInv == ~zeroed => /\ Odd(counterValue)
                        /\ pc \in {"sensor", "homing"} => Odd(wrappedCounter)

IInv == TypeOK /\ ParityInv

-----------------------------------------------------------------------------
(* Division with an even divisor keeps parity.                             *)
LEMMA EvenDivisor ==
  ASSUME NEW m \in Nat \ {0}, m % 2 = 0, NEW c \in Int
  PROVE  /\ c = m * (c \div m) + (c % m)
         /\ c % m \in 0 .. m - 1
         /\ c \div m \in Int
         /\ (c % m) % 2 = c % 2
<1>1. c = m * (c \div m) + (c % m) /\ c % m \in 0 .. m - 1 /\ c \div m \in Int
  BY SMT
<1>2. PICK h \in Int : m = 2 * h
  <2>1. m = 2 * (m \div 2) /\ m \div 2 \in Int
    BY SMT
  <2> QED BY <2>1
<1>3. PICK k \in Int : k = h * (c \div m)
  BY <1>1, <1>2, SMT
<1>4. m * (c \div m) = 2 * k
  BY <1>1, <1>2, <1>3, SMT
<1>5. ASSUME NEW r \in Int, c = 2 * k + r
      PROVE  r % 2 = c % 2
  BY <1>3, <1>5, SMT
<1> QED BY <1>1, <1>4, <1>5

(* An even number of times anything is even.                               *)
LEMMA EvenProduct ==
  ASSUME NEW m \in Nat \ {0}, m % 2 = 0, NEW q \in Int, NEW r \in Int
  PROVE  m * q + r \in Int /\ (m * q + r) % 2 = r % 2
<1>1. PICK h \in Int : m = 2 * h
  <2>1. m = 2 * (m \div 2) /\ m \div 2 \in Int
    BY SMT
  <2> QED BY <2>1
<1>2. PICK k \in Int : k = h * q
  BY SMT
<1>3. m * q = 2 * k
  BY <1>1, <1>2, SMT
<1>4. 2 * k + r \in Int /\ (2 * k + r) % 2 = r % 2
  BY <1>2, SMT
<1> QED BY <1>3, <1>4

LEMMA EvenLines == linesPerRevolution \in Nat \ {0} /\ linesPerRevolution % 2 = 0
BY EncoderAssumption, SMT

LEMMA EvenWord == Word \in Nat \ {0} /\ Word % 2 = 0
<1>1. Byte * Byte + 0 \in Int /\ (Byte * Byte + 0) % 2 = 0 % 2
  BY EncoderAssumption, EvenProduct, SMT
<1>2. Byte * Byte \in Nat \ {0}
  BY EncoderAssumption, SMT
<1> QED BY <1>1, <1>2, SMT DEF Word

(* The remainder of C stays within a turn and keeps parity.                *)
LEMMA RemainderParity ==
  ASSUME NEW c \in Int
  PROVE  Remainder(c) \in Counter /\ Remainder(c) % 2 = c % 2
<1> DEFINE L == linesPerRevolution
<1>1. L \in Nat \ {0} /\ L % 2 = 0
  BY EvenLines
<1>2. \A x \in Int : x % L \in 0 .. L - 1 /\ (x % L) % 2 = x % 2
  BY <1>1, EvenDivisor
<1>3. CASE c >= 0
  <2>1. Remainder(c) = c % L
    BY <1>3 DEF Remainder
  <2>2. c % L \in Counter
    BY <1>1, <1>2, SMT DEF Counter
  <2> QED BY <1>2, <2>1, <2>2
<1>4. CASE ~(c >= 0)
  <2>1. Remainder(c) = -((-c) % L)
    BY <1>4 DEF Remainder
  <2>2. PICK r \in 0 .. L - 1 : r = (-c) % L /\ r % 2 = (-c) % 2
    <3>1. -c \in Int
      BY SMT
    <3> QED BY <1>2, <3>1
  <2>3. -r \in Counter
    BY <1>1, SMT DEF Counter
  <2>4. (-r) % 2 = c % 2
    BY <2>2, SMT
  <2> QED BY <2>1, <2>2, <2>3, <2>4
<1> QED BY <1>3, <1>4

(* So does the handler.                                                    *)
LEMMA CountedParity ==
  ASSUME NEW c \in Int, NEW a, NEW b
  PROVE  Counted(c, a, b) \in Counter /\ Counted(c, a, b) % 2 = c % 2
<1>1. PICK d \in {-2, 0, 2} : c + (IF a = B_set THEN 1 ELSE -1)
                                + (IF a # b THEN 1 ELSE -1) = c + d
  BY SMT
<1>2. c + d \in Int /\ (c + d) % 2 = c % 2
  BY SMT
<1> QED BY <1>1, <1>2, RemainderParity DEF Counted

LEMMA CounterInt == Counter \subseteq Int
BY EncoderAssumption, SMT DEF Counter
-----------------------------------------------------------------------------
(* What a turn of the table and a run of the handler leave behind.         *)
EncoderType == /\ turn \in 0 .. linesPerRevolution - 1 /\ pending \in BOOLEAN
               /\ A_set \in Bit /\ B_set \in Bit
               /\ seen \in 0 .. linesPerRevolution - 1

LEMMA TurnedType ==
  ASSUME TypeOK, NEW d \in {0, 1, -1}
  PROVE  (turn + d) % linesPerRevolution \in 0 .. linesPerRevolution - 1
<1>1. turn + d \in Int
  BY EncoderAssumption, SMT DEF TypeOK
<1> QED BY <1>1, EvenLines, EvenDivisor

LEMMA HandlerTypes ==
  ASSUME TypeOK, NEW c \in Int, NEW count, HandlerOn(c, count)
  PROVE  EncoderType' /\ count \in Counter /\ count % 2 = c % 2
<1>1. PICK d \in {0, 1, -1} :
        LET now == (turn + d) % linesPerRevolution
        IN  /\ turn' = now /\ pending' = (d # 0) /\ seen' = now
            /\ A_set' = PinA(turn) /\ B_set' = PinB(now)
            /\ count = Counted(c, PinA(turn), PinB(now))
  BY Zenon DEF HandlerOn
<1>2. PinA(turn) \in Bit /\ B_set' \in Bit
  BY <1>1 DEF PinA, PinB, Bit
<1> QED BY <1>1, <1>2, TurnedType, CountedParity DEF EncoderType

LEMMA QuietTypes ==
  ASSUME TypeOK, Quiet
  PROVE  EncoderType'
BY DEF TypeOK, Quiet, tableVars, EncoderType

(* What loop() makes of a read has the parity of its low byte.             *)
LEMMA WrappedParity ==
  ASSUME NEW c \in Int
  PROVE  Wrapped(c) \in 0 .. Word - 1 /\ Wrapped(c) % 2 = c % 2
<1>1. linesPerRevolution + c \in Int /\ (linesPerRevolution + c) % 2 = c % 2
  <2>1. /\ linesPerRevolution * 1 + c \in Int
        /\ (linesPerRevolution * 1 + c) % 2 = c % 2
    BY EvenLines, EvenProduct, SMT
  <2>2. linesPerRevolution * 1 = linesPerRevolution
    BY EvenLines, SMT
  <2> QED BY <2>1, <2>2
<1>2. PICK x \in Int : /\ x % 2 = c % 2
                       /\ Wrapped(c) = x % Word
  BY <1>1, Zenon DEF Wrapped
<1> QED BY <1>2, EvenWord, EvenDivisor

LEMMA TornParity ==
  ASSUME NEW before \in Int, NEW after \in Int
  PROVE  Torn(before, after) \in Int /\ Torn(before, after) % 2 = before % 2
<1>1. Byte \in Nat \ {0} /\ Byte % 2 = 0
  BY EncoderAssumption
<1>2. after \div Byte \in Int
  BY <1>1, EvenDivisor
<1>3. before % Byte \in 0 .. Byte - 1 /\ (before % Byte) % 2 = before % 2
  BY <1>1, EvenDivisor
<1>4. PICK q \in Int : q = after \div Byte
  BY <1>2
<1>5. PICK r \in Int : r = before % Byte /\ r % 2 = before % 2
  BY <1>1, <1>3, SMT
<1>6. Byte * q + r \in Int /\ (Byte * q + r) % 2 = before % 2
  BY <1>1, <1>5, EvenProduct
<1>7. Torn(before, after) = q * Byte + r
  BY <1>4, <1>5 DEF Torn, Bytes, High, Low
<1>8. q * Byte = Byte * q
  BY <1>1, <1>4, SMT
<1> QED BY <1>6, <1>7, <1>8

(* A zeroing torn by the handler leaves a page at most.                    *)
LEMMA ZeroedToAPage ==
  ASSUME TypeOK, NEW count, HandlerOn(Low(counterValue), count)
  PROVE  Bytes(High(count), 0) \in {-Byte, 0, Byte}
<1>1. PICK low \in 0 .. Byte - 1 : low = Low(counterValue)
  <2>1. counterValue \in Int
    BY CounterInt DEF TypeOK
  <2> QED BY <2>1, EncoderAssumption, EvenDivisor DEF Low
<1>2. PICK e \in {-2, 0, 2} : count = Remainder(low + e)
  <2>1. PICK a, b : count = Counted(low, a, b)
    BY <1>1, Zenon DEF HandlerOn
  <2>2. PICK e \in {-2, 0, 2} : low + (IF a = B_set THEN 1 ELSE -1)
                                    + (IF a # b THEN 1 ELSE -1) = low + e
    BY SMT
  <2> QED BY <2>1, <2>2 DEF Counted
<1>3. Byte >= 2 /\ Byte + 2 <= linesPerRevolution
  <2>1. /\ Byte = 2 * (Byte \div 2) /\ Byte \div 2 \in Int
        /\ linesPerRevolution = 2 * (linesPerRevolution \div 2)
        /\ linesPerRevolution \div 2 \in Int
    BY EncoderAssumption, EvenLines, SMT
  <2> QED BY <2>1, EncoderAssumption, SMT
<1>4. \A n \in 0 .. linesPerRevolution - 1 : n % linesPerRevolution = n
  BY EncoderAssumption, SMT
<1>5. count = low + e /\ count \in -2 .. Byte + 1
  <2>1. CASE low + e >= 0
    BY <1>2, <1>3, <1>4, <2>1, EncoderAssumption, SMT DEF Remainder
  <2>2. CASE ~(low + e >= 0)
    BY <1>2, <1>3, <1>4, <2>2, EncoderAssumption, SMT DEF Remainder
  <2> QED BY <2>1, <2>2
<1>6. count \div Byte \in {-1, 0, 1}
  <2>1. PICK q \in Int, r \in 0 .. Byte - 1 : count = Byte * q + r /\ q = count \div Byte
    <3>1. count \in Int
      BY <1>5, EncoderAssumption, SMT
    <3>2. /\ count = Byte * (count \div Byte) + (count % Byte)
          /\ count % Byte \in 0 .. Byte - 1 /\ count \div Byte \in Int
      BY <3>1, EncoderAssumption, EvenDivisor
    <3> QED BY <3>2
  <2>2. CASE q >= 2
    <3>1. Byte * q >= Byte * 2
      BY <2>1, <2>2, EncoderAssumption, SMT
    <3> QED BY <1>3, <1>5, <2>1, <3>1, EncoderAssumption, SMT
  <2>3. CASE q <= -2
    <3>1. Byte * q <= Byte * (-2)
      BY <2>1, <2>3, EncoderAssumption, SMT
    <3> QED BY <1>3, <1>5, <2>1, <3>1, EncoderAssumption, SMT
  <2> QED BY <2>1, <2>2, <2>3, SMT
<1> QED BY <1>6, EncoderAssumption, SMT DEF Bytes, High

LEMMA PagesAreCounts == {-Byte, 0, Byte} \subseteq Counter
BY EncoderAssumption, SMT DEF Counter

-----------------------------------------------------------------------------
(* The invariant holds at the start: InitialCount is odd.                  *)
LEMMA InitIInv == Init => IInv
<1> SUFFICES ASSUME Init PROVE IInv
  OBVIOUS
<1>1. linesPerRevolution >= 4
  <2>1. linesPerRevolution = 4 * (linesPerRevolution \div 4)
        /\ linesPerRevolution \div 4 \in Int
    BY EncoderAssumption, SMT
  <2> QED BY <2>1, EncoderAssumption, SMT
<1>2. Word >= 2
  <2>1. Word = 2 * (Word \div 2) /\ Word \div 2 \in Int
    BY EvenWord, SMT
  <2> QED BY <2>1, EvenWord, SMT
<1>3. TypeOK
  <2>1. turn \in 0 .. linesPerRevolution - 1 /\ seen \in 0 .. linesPerRevolution - 1
    BY <1>1, EncoderAssumption, SMT DEF Init
  <2>2. counterValue \in Counter
    BY <1>1, EncoderAssumption, SMT DEF Init, InitialCount, Counter
  <2>3. wrappedCounter \in 0 .. Word - 1
    BY <1>2, EvenWord, SMT DEF Init
  <2>4. age \in 0 .. debounceDelay + 1 /\ offset \in 0 .. linesPerRevolution - 1
    BY <1>1, EncoderAssumption, SMT DEF Init
  <2>5. missed \in BOOLEAN
    BY Zenon DEF Init
  <2> QED BY <2>1, <2>2, <2>3, <2>4, <2>5 DEF Init, TypeOK, Bit
<1>4. ParityInv
  BY SMT DEF Init, InitialCount, ParityInv, Odd
<1> QED BY <1>3, <1>4 DEF IInv

-----------------------------------------------------------------------------
(* The actions, one lemma each.                                            *)
LEMMA RotateStep == IInv /\ Rotate => IInv'
<1> SUFFICES ASSUME IInv, Rotate PROVE IInv'
  OBVIOUS
<1>1. turn' \in 0 .. linesPerRevolution - 1
  BY TurnedType DEF Rotate, IInv
<1>2. missed' \in BOOLEAN
  BY Zenon DEF Rotate, IInv, TypeOK
<1>3. offset' \in 0 .. linesPerRevolution - 1
  BY EncoderAssumption, SMT DEF Rotate, IInv, TypeOK
<1>4. TypeOK'
  BY <1>1, <1>2, <1>3 DEF Rotate, IInv, TypeOK, encoderVars, sensorVars
<1>5. ParityInv'
  BY DEF Rotate, IInv, ParityInv, encoderVars
<1> QED BY <1>4, <1>5 DEF IInv

LEMMA HandlerStep == IInv /\ Handler => IInv'
<1> SUFFICES ASSUME IInv, Handler PROVE IInv'
  OBVIOUS
<1>1. counterValue \in Int /\ HandlerOn(counterValue, counterValue')
  BY CounterInt DEF IInv, TypeOK, Handler
<1>2. /\ EncoderType' /\ counterValue' \in Counter
      /\ counterValue' % 2 = counterValue % 2
  BY <1>1, HandlerTypes DEF IInv
<1>3. TypeOK'
  BY <1>2 DEF Handler, IInv, TypeOK, EncoderType, sensorVars, history
<1>4. ParityInv'
  BY <1>2 DEF Handler, IInv, ParityInv, Odd, history
<1> QED BY <1>3, <1>4 DEF IInv

LEMMA ReadSignStep == IInv /\ ReadSign => IInv'
<1> SUFFICES ASSUME IInv, ReadSign PROVE IInv'
  OBVIOUS
<1>1. wrappedCounter' \in 0 .. Word - 1 /\ negative' \in BOOLEAN
  <2>1. negative' \in BOOLEAN
    <3>1. (counterValue < 0) \in BOOLEAN
      BY SMT
    <3> QED BY <3>1 DEF ReadSign
  <2> QED BY <2>1, EvenWord, SMT DEF ReadSign
<1>2. TypeOK'
  BY <1>1 DEF ReadSign, IInv, TypeOK, tableVars, encoderVars, sensorVars, history
<1>3. ParityInv'
  BY DEF ReadSign, IInv, ParityInv, encoderVars, history
<1> QED BY <1>2, <1>3 DEF IInv

(* A read takes its low byte, and with it its parity, from the count as it *)
(* was.                                                                    *)
LEMMA ReadValueStep == IInv /\ ReadValue => IInv'
<1> SUFFICES ASSUME IInv, ReadValue PROVE IInv'
  OBVIOUS
<1>1. counterValue \in Int
  BY CounterInt DEF IInv, TypeOK
<1>2. /\ EncoderType' /\ counterValue' \in Counter
      /\ counterValue' % 2 = counterValue % 2
      /\ wrappedCounter' \in 0 .. Word - 1
      /\ wrappedCounter' % 2 = counterValue % 2
  <2>1. CASE wrappedCounter' = Wrapped(counterValue) /\ Quiet /\ UNCHANGED counterValue
    BY <1>1, <2>1, QuietTypes, WrappedParity DEF IInv, TypeOK
  <2>2. CASE /\ HandlerOn(counterValue, counterValue')
             /\ wrappedCounter' = Wrapped(Torn(counterValue, counterValue'))
    <3>1. /\ EncoderType' /\ counterValue' \in Counter
          /\ counterValue' % 2 = counterValue % 2
      BY <1>1, <2>2, HandlerTypes DEF IInv
    <3>2. counterValue' \in Int
      BY <3>1, CounterInt
    <3> QED BY <1>1, <2>2, <3>1, <3>2, TornParity, WrappedParity
  <2> QED BY <2>1, <2>2 DEF ReadValue
<1>3. TypeOK'
  BY <1>2 DEF ReadValue, IInv, TypeOK, EncoderType, sensorVars, history
<1>4. ParityInv'
  BY <1>2 DEF ReadValue, IInv, ParityInv, Odd, history
<1> QED BY <1>3, <1>4 DEF IInv

(* The sensor zeroes the counter, and from then on parity is free.         *)
LEMMA CheckIRsensorStep == IInv /\ CheckIRsensor => IInv'
<1> SUFFICES ASSUME IInv, CheckIRsensor PROVE IInv'
  OBVIOUS
<1>1. /\ buttonState' \in Bit /\ last_buttonState' \in Bit
      /\ last_reading' \in Bit /\ age' \in 0 .. debounceDelay + 1
  <2>1. PICK reading \in Bit, elapsed \in {0, 1} :
          /\ age' = IF reading # last_reading THEN 0
                    ELSE IF age > debounceDelay THEN age ELSE age + elapsed
          /\ last_reading' = reading
          /\ IF age' > debounceDelay
               THEN last_buttonState' = buttonState /\ buttonState' = reading
               ELSE UNCHANGED <<last_buttonState, buttonState>>
    BY Zenon DEF CheckIRsensor
  <2>2. age' \in 0 .. debounceDelay + 1
    BY <2>1, EncoderAssumption, SMT DEF IInv, TypeOK
  <2> QED BY <2>1, <2>2 DEF IInv, TypeOK
<1>2. pc = "sensor" /\ pc' = "homing" /\ UNCHANGED <<negative, doHoming>>
  BY DEF CheckIRsensor
<1>3. CASE Zero
  <2>1. EncoderType' /\ counterValue' \in Counter
    <3>1. CASE counterValue' = 0 /\ Quiet
      BY <3>1, QuietTypes, PagesAreCounts DEF IInv
    <3>2. CASE \E count \in Counter : /\ HandlerOn(Low(counterValue), count)
                                      /\ counterValue' = Bytes(High(count), 0)
      <4>1. PICK count \in Counter : /\ HandlerOn(Low(counterValue), count)
                                     /\ counterValue' = Bytes(High(count), 0)
        BY <3>2
      <4>2. Low(counterValue) \in Int
        BY EncoderAssumption, CounterInt, EvenDivisor, SMT DEF IInv, TypeOK, Low
      <4>3. EncoderType'
        BY <4>1, <4>2, HandlerTypes DEF IInv
      <4> QED BY <4>1, <4>3, ZeroedToAPage, PagesAreCounts DEF IInv
    <3> QED BY <1>3, <3>1, <3>2 DEF Zero
  <2>2. zeroed' = TRUE /\ wrappedCounter' \in 0 .. Word - 1
    BY <1>3, EvenWord, SMT DEF Zero, Noted
  <2>3. missed' \in BOOLEAN
    BY <1>3, Zenon DEF Zero, Noted, IInv, TypeOK
  <2>4. offset' \in 0 .. linesPerRevolution - 1
    <3>1. offset' = 0 \/ offset' = 2 * (seen' \div 2)
      BY <1>3, Zenon DEF Zero, Noted, EdgesB
    <3>2. seen' \in 0 .. linesPerRevolution - 1
      BY <2>1 DEF EncoderType
    <3> QED BY <3>1, <3>2, EncoderAssumption, SMT
  <2>5. TypeOK'
    BY <1>1, <1>2, <2>1, <2>2, <2>3, <2>4 DEF IInv, TypeOK, EncoderType
  <2> QED BY <2>2, <2>5 DEF IInv, ParityInv
<1>4. CASE Quiet /\ UNCHANGED <<counterValue, wrappedCounter, history>>
  <2>1. EncoderType'
    BY <1>4, QuietTypes DEF IInv
  <2>2. TypeOK'
    BY <1>1, <1>2, <1>4, <2>1 DEF IInv, TypeOK, EncoderType, history
  <2>3. ParityInv'
    BY <1>2, <1>4 DEF IInv, ParityInv, history
  <2> QED BY <2>2, <2>3 DEF IInv
<1>5. Zero \/ (Quiet /\ UNCHANGED <<counterValue, wrappedCounter, history>>)
  <2>1. CASE buttonState' = 1 /\ last_buttonState' = 0
    BY <2>1 DEF CheckIRsensor
  <2>2. CASE ~(buttonState' = 1 /\ last_buttonState' = 0)
    BY <2>2 DEF CheckIRsensor
  <2> QED BY <2>1, <2>2
<1> QED BY <1>3, <1>4, <1>5

LEMMA HomeStep == IInv /\ Home => IInv'
<1> SUFFICES ASSUME IInv, Home PROVE IInv'
  OBVIOUS
<1>1. doHoming' \in BOOLEAN /\ pc' = "sign"
  BY DEF Home
<1> QED BY <1>1 DEF Home, IInv, TypeOK, ParityInv, tableVars, encoderVars,
                    sensorVars, history

LEMMA StutterStep == IInv /\ UNCHANGED vars => IInv'
BY DEF vars, tableVars, encoderVars, sensorVars, history, IInv, TypeOK, ParityInv

-----------------------------------------------------------------------------
LEMMA EncoderInvariance == Spec => []IInv
<1>1. IInv /\ [Next]_vars => IInv'
  BY RotateStep, HandlerStep, ReadSignStep, ReadValueStep, CheckIRsensorStep,
     HomeStep, StutterStep DEF Next
<1> QED BY InitIInv, <1>1, PTL DEF Spec

(* Whatever the constants, every variable keeps its type: in particular    *)
(* the counter stays within a turn, torn zeroings included.                *)
THEOREM EncoderTypeCorrect == Spec => []TypeOK
<1>1. IInv => TypeOK
  BY DEF IInv
<1> QED BY EncoderInvariance, <1>1, PTL

(* No homing ends before the sensor has zeroed the counter (pde 178-191),  *)
(* whatever edges are missed and reads torn, however long a turn.          *)
THEOREM HomingEndsAtSensor == Spec => []HomesAtSensor
<1>1. IInv => HomesAtSensor
  BY SMT DEF IInv, ParityInv, HomesAtSensor, AtHome, Odd
<1> QED BY EncoderInvariance, <1>1, PTL

-----------------------------------------------------------------------------
(* The edges the handler counts.  Where the table is known to be, its last *)
(* edge is the only one the handler has not seen.                          *)
L == linesPerRevolution

TableInv == /\ ~pending => turn = seen
            /\ ~missed => /\ B_set = PinB(seen)
                          /\ \E e \in {-1, 0, 1} : turn = (seen + e) % L

(* Modulo a turn, the counter is what the edges of B since the zeroing     *)
(* make of it, and a page.                                                 *)
Tracked(page, k) == counterValue + 2 * EdgesB(seen) - offset - page = k * L

TrackInv == zeroed /\ ~missed =>
              \E page \in {0, Byte, -Byte}, k \in Int : Tracked(page, k)

(* From s the table turns by e before A is read, and by d before B is:     *)
(* what the handler adds.                                                  *)
Steps(s, e, d) == (IF PinA(s + e) = PinB(s) THEN 1 ELSE -1)
                    + (IF PinA(s + e) # PinB(s + e + d) THEN 1 ELSE -1)

LEMMA EdgesCounted ==
  ASSUME NEW s \in Int, NEW e \in {-1, 0, 1}, NEW d \in {0, 1, -1}
  PROVE  Steps(s, e, d) = 2 * EdgesB(s) - 2 * EdgesB(s + e + d)
<1>1. PICK q \in Int, r \in 0 .. 3 : s = 4 * q + r
  <2>1. s = 4 * (s \div 4) + (s % 4) /\ s \div 4 \in Int /\ s % 4 \in 0 .. 3
    BY SMT
  <2> QED BY <2>1
<1>2. \A t \in -2 .. 5 : /\ (4 * q + t) % 4 = t % 4
                         /\ 2 * ((4 * q + t) \div 2) = 4 * q + 2 * (t \div 2)
  BY SMT
<1>3. /\ s = 4 * q + r /\ s + e = 4 * q + (r + e)
      /\ s + e + d = 4 * q + (r + e + d)
  BY <1>1, SMT
<1>4. /\ s % 4 = r % 4 /\ (s + e) % 4 = (r + e) % 4
      /\ (s + e + d) % 4 = (r + e + d) % 4
      /\ 2 * (s \div 2) = 4 * q + 2 * (r \div 2)
      /\ 2 * ((s + e + d) \div 2) = 4 * q + 2 * ((r + e + d) \div 2)
  BY <1>2, <1>3, SMT
<1>5. (IF PinA(r + e) = PinB(r) THEN 1 ELSE -1)
        + (IF PinA(r + e) # PinB(r + e + d) THEN 1 ELSE -1)
          = 2 * (r \div 2) - 2 * ((r + e + d) \div 2)
  BY SMTT(30) DEF PinA, PinB
<1>6. /\ PinA(s + e) = PinA(r + e) /\ PinB(s) = PinB(r)
      /\ PinB(s + e + d) = PinB(r + e + d)
  BY <1>4 DEF PinA, PinB
<1>7. 2 * (s \div 2) - 2 * ((s + e + d) \div 2)
        = 2 * (r \div 2) - 2 * ((r + e + d) \div 2)
  BY <1>1, <1>4, SMT
<1> QED BY <1>5, <1>6, <1>7 DEF EdgesB, Steps

(* Past the ends of a turn.                                                *)
LEMMA OneTurn ==
  ASSUME NEW t \in Int, -1 <= t, t <= L
  PROVE  t % L \in {t, t + L, t - L}
<1>1. L \in Nat \ {0}
  BY EvenLines DEF L
<1>2. PICK q \in Int, r \in 0 .. L - 1 : t = L * q + r /\ r = t % L
  <2>1. /\ t = L * (t \div L) + (t % L) /\ t % L \in 0 .. L - 1
        /\ t \div L \in Int
    BY <1>1, EvenLines, EvenDivisor DEF L
  <2> QED BY <2>1
<1>3. CASE q >= 2
  <2>1. L * q >= L * 2
    BY <1>1, <1>3, SMT
  <2> QED BY <1>1, <1>2, <2>1, SMT
<1>4. CASE q <= -2
  <2>1. L * q <= L * (-2)
    BY <1>1, <1>4, SMT
  <2> QED BY <1>1, <1>2, <2>1, SMT
<1>5. CASE q \in {-1, 0, 1}
  BY <1>1, <1>2, <1>5, SMT
<1> QED BY <1>3, <1>4, <1>5, SMT

(* A turn further the pins are the same, and B has had L / 2 edges more.   *)
LEMMA SamePins ==
  ASSUME NEW t \in Int, NEW w \in {t, t + L, t - L}
  PROVE  /\ PinA(w) = PinA(t) /\ PinB(w) = PinB(t)
         /\ \E k \in {-1, 0, 1} : 2 * EdgesB(w) = 2 * EdgesB(t) + k * L
<1>1. PICK h \in Int : L = 4 * h
  <2>1. L = 4 * (L \div 4) /\ L \div 4 \in Int
    BY EncoderAssumption, SMT DEF L
  <2> QED BY <2>1
<1>2. PICK k \in {-1, 0, 1} : w = t + k * L
  BY <1>1, SMT
<1>3. w = t + 4 * (k * h) /\ k * h \in Int
  BY <1>1, <1>2, SMT
<1>4. w % 4 = t % 4 /\ 2 * (w \div 2) = 2 * (t \div 2) + 4 * (k * h)
  BY <1>3, SMT
<1>5. 4 * (k * h) = k * L
  BY <1>1, SMT
<1> QED BY <1>4, <1>5 DEF PinA, PinB, EdgesB

(* The remainder of C, too, differs from its dividend by whole turns.      *)
LEMMA RemainderTurns ==
  ASSUME NEW c \in Int
  PROVE  \E k \in Int : Remainder(c) = c + k * L
<1>1. ASSUME NEW x \in Int PROVE \E q \in Int : x % L = x - q * L
  <2>1. x = L * (x \div L) + (x % L) /\ x \div L \in Int /\ x % L \in Int
    BY EvenLines, EvenDivisor, SMT DEF L
  <2>2. L * (x \div L) = (x \div L) * L
    BY <2>1, EvenLines, SMT DEF L
  <2>3. L * (x \div L) \in Int
    BY <2>1, EvenLines, SMT DEF L
  <2> QED BY <2>1, <2>2, <2>3, SMT
<1>2. CASE c >= 0
  <2>1. PICK q \in Int : c % L = c - q * L
    BY <1>1
  <2>2. c - q * L = c + (-q) * L /\ -q \in Int
    BY EvenLines, SMT DEF L
  <2> QED BY <1>2, <2>1, <2>2 DEF Remainder, L
<1>3. CASE ~(c >= 0)
  <2>1. PICK q \in Int : (-c) % L = -c - q * L
    BY <1>1, SMT
  <2>2. -(-c - q * L) = c + q * L
    BY EvenLines, SMT DEF L
  <2> QED BY <1>3, <2>1, <2>2 DEF Remainder, L
<1> QED BY <1>2, <1>3

(* The handler brings the counter up to the last edge of B.                *)
LEMMA HandlerTable ==
  ASSUME TypeOK, TableInv, NEW c \in Int, NEW count, HandlerOn(c, count)
  PROVE  /\ turn' = seen' /\ B_set' = PinB(seen')
         /\ ~missed => \E k \in Int :
              count + 2 * EdgesB(seen') = c + 2 * EdgesB(seen) + k * L
<1>1. PICK d \in {0, 1, -1} :
        /\ turn' = (turn + d) % L /\ seen' = (turn + d) % L
        /\ B_set' = PinB((turn + d) % L)
        /\ count = Counted(c, PinA(turn), PinB((turn + d) % L))
  BY Zenon DEF HandlerOn, L
<1>2. turn \in 0 .. L - 1 /\ seen \in 0 .. L - 1 /\ L \in Nat \ {0}
  BY EvenLines DEF TypeOK, L
<1>3. ASSUME ~missed
      PROVE  \E k \in Int :
               count + 2 * EdgesB(seen') = c + 2 * EdgesB(seen) + k * L
  <2>1. PICK e \in {-1, 0, 1} : turn = (seen + e) % L
    BY <1>3 DEF TableInv
  <2>2. turn \in {seen + e, seen + e + L, seen + e - L}
    BY <1>2, <2>1, OneTurn, SMT
  <2>3. seen' \in {turn + d, turn + d + L, turn + d - L}
    BY <1>1, <1>2, OneTurn, SMT
  <2>4. PinA(turn) = PinA(seen + e)
    BY <1>2, <2>2, SamePins, SMT
  <2>5. PICK k1 \in {-1, 0, 1} :
          /\ PinB(turn + d) = PinB(seen + e + d)
          /\ 2 * EdgesB(turn + d) = 2 * EdgesB(seen + e + d) + k1 * L
    <3>1. turn + d \in {(seen + e + d), (seen + e + d) + L, (seen + e + d) - L}
            /\ seen + e + d \in Int
      BY <1>2, <2>2, SMT
    <3> QED BY <3>1, SamePins
  <2>6. PICK k2 \in {-1, 0, 1} :
          /\ PinB(seen') = PinB(turn + d)
          /\ 2 * EdgesB(seen') = 2 * EdgesB(turn + d) + k2 * L
    <3>1. turn + d \in Int
      BY <1>2, SMT
    <3>2. PICK t \in Int : t = turn + d
      BY <3>1
    <3>3. PICK w \in {t, t + L, t - L} : w = seen'
      BY <1>2, <2>3, <3>2, SMT
    <3>4. PICK k \in {-1, 0, 1} :
            PinB(w) = PinB(t) /\ 2 * EdgesB(w) = 2 * EdgesB(t) + k * L
      BY SamePins
    <3> QED BY <3>2, <3>3, <3>4
  <2>7. B_set = PinB(seen) /\ seen \in Int
    BY <1>2, <1>3, SMT DEF TableInv
  <2>8. PICK a \in Int, b \in Int :
          /\ a = (IF PinA(seen + e) = PinB(seen) THEN 1 ELSE -1)
          /\ b = (IF PinA(seen + e) # PinB(seen + e + d) THEN 1 ELSE -1)
    BY SMT
  <2>9. a + b = 2 * EdgesB(seen) - 2 * EdgesB(seen + e + d)
    <3>1. Steps(seen, e, d) = 2 * EdgesB(seen) - 2 * EdgesB(seen + e + d)
      BY <2>7, EdgesCounted
    <3>2. Steps(seen, e, d) = a + b
      BY <2>8 DEF Steps
    <3> QED BY <3>1, <3>2
  <2>10. count = Remainder(c + a + b)
    BY <1>1, <2>4, <2>5, <2>6, <2>7, <2>8 DEF Counted
  <2>11. PICK k0 \in Int : Remainder(c + a + b) = c + a + b + k0 * L
    BY RemainderTurns, SMT
  <2>12. /\ EdgesB(seen) \in Int /\ EdgesB(seen + e + d) \in Int
         /\ EdgesB(seen') \in Int
    BY <1>2, <2>3, SMT DEF EdgesB
  <2>13. (k0 + k1 + k2) * L = k0 * L + k1 * L + k2 * L /\ k0 + k1 + k2 \in Int
         /\ k0 * L \in Int /\ k1 * L \in Int /\ k2 * L \in Int
    BY <1>2, SMT
  <2>14. count + 2 * EdgesB(seen')
           = c + 2 * EdgesB(seen) + (k0 + k1 + k2) * L
    BY <2>5, <2>6, <2>8, <2>9, <2>10, <2>11, <2>12, <2>13, SMT
  <2> QED BY <2>13, <2>14
<1> QED BY <1>1, <1>3

LEMMA EdgesInt == TypeOK => EdgesB(seen) \in Int /\ offset \in Int
<1> SUFFICES ASSUME TypeOK
             PROVE  EdgesB(seen) \in Int /\ offset \in Int
  OBVIOUS
<1>1. linesPerRevolution - 1 \in Int
  BY EvenLines, SMT
<1>2. seen \in Int /\ offset \in Int
  BY <1>1, SMT DEF TypeOK
<1>3. \A t \in Int : t \div 2 \in Int
  BY SMT
<1> QED BY <1>2, <1>3 DEF EdgesB

LEMMA ItselfModulo == ASSUME NEW t \in 0 .. L - 1 PROVE t = (t + 0) % L
BY EvenLines, SMT DEF L

LEMMA SeenItself == TypeOK => seen = (seen + 0) % L
BY ItselfModulo DEF TypeOK, L

(* The handler leaves the table just where it has seen it.                 *)
LEMMA SeenTable ==
  ASSUME TypeOK', turn' = seen', B_set' = PinB(seen')
  PROVE  TableInv'
<1>1. seen' \in 0 .. L - 1
  BY DEF TypeOK, L
<1>2. seen' = (seen' + 0) % L
  BY <1>1, ItselfModulo
<1> QED BY <1>2 DEF TableInv, L

(* The counter, after a handler that runs on it.                           *)
LEMMA HandlerTracks ==
  ASSUME TypeOK, TypeOK', TableInv, TrackInv,
         HandlerOn(counterValue, counterValue'), UNCHANGED history
  PROVE  TrackInv'
<1> SUFFICES ASSUME zeroed', ~missed'
             PROVE  \E page \in {0, Byte, -Byte}, k \in Int : Tracked(page, k)'
  BY DEF TrackInv
<1>1. zeroed /\ ~missed /\ offset' = offset /\ counterValue \in Int
  BY CounterInt DEF history, TypeOK
<1>2. PICK page \in {0, Byte, -Byte}, k \in Int : Tracked(page, k)
  BY <1>1 DEF TrackInv
<1>3. PICK j \in Int : counterValue' + 2 * EdgesB(seen')
                        = counterValue + 2 * EdgesB(seen) + j * L
  BY <1>1, HandlerTable
<1>4. (k + j) * L = k * L + j * L /\ k + j \in Int /\ k * L \in Int /\ j * L \in Int
  BY EvenLines, SMT DEF L
<1>5. counterValue' \in Int /\ EdgesB(seen') \in Int
  BY CounterInt, EdgesInt, EvenLines, SMT DEF TypeOK, EdgesB
<1>6. counterValue' + 2 * EdgesB(seen') - offset - page = (k + j) * L
  BY <1>1, <1>2, <1>3, <1>4, <1>5, EdgesInt, EncoderAssumption, SMT DEF Tracked
<1>7. Tracked(page, k + j)'
  BY <1>1, <1>6 DEF Tracked, L
<1> QED BY <1>4, <1>7

LEMMA SameTrack ==
  ASSUME TrackInv, UNCHANGED <<counterValue, seen, history>>
  PROVE  TrackInv'
BY DEF TrackInv, Tracked, history, L

-----------------------------------------------------------------------------
(* Step by step.                                                           *)
LEMMA RotateTrack ==
  ASSUME TypeOK, TypeOK', TableInv, TrackInv, Rotate
  PROVE  TableInv' /\ TrackInv'
<1>1. PICK d \in {1, -1} : turn' = (turn + d) % L
  BY DEF Rotate, L
<1>2. /\ pending' = TRUE /\ (missed' <=> missed \/ pending)
      /\ UNCHANGED <<counterValue, A_set, B_set, seen, zeroed>>
      /\ ~missed' => offset' = offset
  BY DEF Rotate, encoderVars
<1>3. ASSUME ~missed'
      PROVE  turn' = (seen + d) % L
  BY <1>1, <1>2, <1>3 DEF TableInv
<1>4. TableInv'
  BY <1>1, <1>2, <1>3 DEF TableInv, L
<1>5. TrackInv'
  BY <1>2 DEF TrackInv, Tracked, L
<1> QED BY <1>4, <1>5

LEMMA HandlerTrack ==
  ASSUME TypeOK, TypeOK', TableInv, TrackInv,
         HandlerOn(counterValue, counterValue'), UNCHANGED history
  PROVE  TableInv' /\ TrackInv'
<1>1. counterValue \in Int
  BY CounterInt DEF TypeOK
<1>2. turn' = seen' /\ B_set' = PinB(seen')
  BY <1>1, HandlerTable
<1> QED BY <1>2, SeenTable, HandlerTracks

(* Where the sensor zeroes it, the counter is right, or a page off.        *)
LEMMA ZeroTrack ==
  ASSUME TypeOK, TypeOK', TableInv, Zero
  PROVE  TableInv' /\ TrackInv'
<1>1. PICK page \in {0, Byte, -Byte} : counterValue' = page
  <2>1. CASE counterValue' = 0
    BY <2>1
  <2>2. CASE \E count \in Counter : /\ HandlerOn(Low(counterValue), count)
                                    /\ counterValue' = Bytes(High(count), 0)
    BY <2>2, ZeroedToAPage
  <2> QED BY <2>1, <2>2 DEF Zero
<1>2. TableInv'
  <2>1. CASE Quiet
    <3>1. ~missed' => /\ missed => ~pending' /\ B_set' = PinB(seen')
                      /\ UNCHANGED <<turn, pending, B_set, seen>>
      BY <2>1 DEF Zero, Noted, Quiet, tableVars
    <3>2. CASE missed /\ ~missed'
      BY <3>1, <3>2, SeenTable DEF TableInv
    <3>3. CASE missed' <=> missed
      BY <2>1, <3>3 DEF TableInv, Quiet, tableVars, L
    <3>4. CASE ~missed /\ missed'
      BY <3>4 DEF Zero, Noted
    <3> QED BY <3>2, <3>3, <3>4
  <2>2. CASE \E count \in Counter : HandlerOn(Low(counterValue), count)
    <3>1. PICK count \in Counter : HandlerOn(Low(counterValue), count)
      BY <2>2
    <3>2. Low(counterValue) \in Int
      BY EncoderAssumption, CounterInt, EvenDivisor, SMT DEF TypeOK, Low
    <3> QED BY <3>1, <3>2, HandlerTable, SeenTable
  <2> QED BY <2>1, <2>2 DEF Zero
<1>3. TrackInv'
  <2> SUFFICES ASSUME ~missed'
               PROVE  Tracked(page, 0)'
    BY <1>1 DEF TrackInv
  <2>1. offset' = 2 * EdgesB(seen') /\ EdgesB(seen') \in Int
    BY EvenLines, SMT DEF Zero, Noted, EdgesB, TypeOK
  <2>2. page + 2 * EdgesB(seen') - 2 * EdgesB(seen') - page = 0 * L
    BY <1>1, <2>1, EncoderAssumption, EvenLines, SMT DEF L
  <2> QED BY <1>1, <2>1, <2>2 DEF Tracked, L
<1> QED BY <1>2, <1>3

LEMMA NextTrack ==
  ASSUME TypeOK, TypeOK', TableInv, TrackInv, [Next]_vars
  PROVE  TableInv' /\ TrackInv'
<1>1. CASE Rotate
  BY <1>1, RotateTrack
<1>2. CASE Handler
  BY <1>2, HandlerTrack DEF Handler
<1>3. ASSUME UNCHANGED <<tableVars, encoderVars, history>>
      PROVE  TableInv' /\ TrackInv'
  BY <1>3, SameTrack DEF TableInv, tableVars, encoderVars, history, L
<1>4. CASE ReadSign \/ Home \/ UNCHANGED vars
  BY <1>3, <1>4 DEF ReadSign, Home, vars
<1>5. CASE ReadValue
  <2>1. CASE Quiet /\ UNCHANGED counterValue
    BY <1>3, <1>5, <2>1 DEF ReadValue, Quiet, encoderVars
  <2>2. CASE HandlerOn(counterValue, counterValue')
    BY <1>5, <2>2, HandlerTrack DEF ReadValue
  <2> QED BY <1>5, <2>1, <2>2 DEF ReadValue
<1>6. CASE CheckIRsensor
  <2>1. CASE Zero
    BY <2>1, ZeroTrack
  <2>2. CASE Quiet /\ UNCHANGED <<counterValue, wrappedCounter, history>>
    BY <1>3, <2>2 DEF Quiet, encoderVars
  <2>3. Zero \/ (Quiet /\ UNCHANGED <<counterValue, wrappedCounter, history>>)
    <3>1. CASE buttonState' = 1 /\ last_buttonState' = 0
      BY <1>6, <3>1 DEF CheckIRsensor
    <3>2. CASE ~(buttonState' = 1 /\ last_buttonState' = 0)
      BY <1>6, <3>2 DEF CheckIRsensor
    <3> QED BY <3>1, <3>2
  <2> QED BY <2>1, <2>2, <2>3
<1> QED BY <1>1, <1>2, <1>4, <1>5, <1>6 DEF Next

(* Whole turns leave nothing.                                              *)
LEMMA WholeTurns == ASSUME NEW k \in Int PROVE (k * L) % L = 0
<1>1. L \in Nat \ {0} /\ k * L \in Int
  BY EvenLines, SMT DEF L
<1>2. PICK q \in Int, r \in 0 .. L - 1 : k * L = L * q + r /\ r = (k * L) % L
  <2>1. /\ k * L = L * ((k * L) \div L) + ((k * L) % L)
        /\ (k * L) % L \in 0 .. L - 1 /\ (k * L) \div L \in Int
    BY <1>1, EvenLines, EvenDivisor DEF L
  <2> QED BY <2>1
<1>3. PICK j \in Int : j = k - q /\ L * j = k * L - L * q
  BY <1>1, SMT
<1>4. CASE j >= 1
  <2>1. L * j >= L * 1
    BY <1>1, <1>4, SMT
  <2> QED BY <1>1, <1>2, <1>3, <2>1, SMT
<1>5. CASE j <= -1
  <2>1. L * j <= L * (-1)
    BY <1>1, <1>5, SMT
  <2> QED BY <1>1, <1>2, <1>3, <2>1, SMT
<1>6. CASE j = 0
  BY <1>1, <1>2, <1>3, <1>6, SMT
<1> QED BY <1>4, <1>5, <1>6, SMT

(* For every length of a turn and size of a byte: once zeroed, the counter *)
(* follows the turntable, but for a page when the zeroing was torn, as     *)
(* long as no edge is missed (pde 128-148, homingSensor.pde 18-22).        *)
THEOREM CounterTracks == Spec => []TracksToAPage
<1>1. Init => TableInv /\ TrackInv
  <2> SUFFICES ASSUME Init PROVE TableInv /\ TrackInv
    OBVIOUS
  <2>1. TypeOK
    BY InitIInv DEF IInv
  <2>2. seen = (seen + 0) % L
    BY <2>1, SeenItself
  <2>3. turn = seen /\ ~zeroed /\ B_set = 0 /\ (~missed => PinB(turn) = 0)
    BY DEF Init, PinB
  <2> QED BY <2>2, <2>3 DEF TableInv, TrackInv
<1>2. TypeOK /\ TypeOK' /\ TableInv /\ TrackInv /\ [Next]_vars
        => TableInv' /\ TrackInv'
  BY NextTrack
<1>3. TypeOK /\ TrackInv => TracksToAPage
  <2> SUFFICES ASSUME TypeOK, TrackInv, zeroed, ~missed
               PROVE  \E page \in {0, Byte, -Byte} :
                        (counterValue + 2 * EdgesB(seen) - offset - page) % L = 0
    BY DEF TracksToAPage, L
  <2>1. PICK page \in {0, Byte, -Byte}, k \in Int : Tracked(page, k)
    BY DEF TrackInv
  <2> QED BY <2>1, WholeTurns DEF Tracked
<1> QED BY <1>1, <1>2, <1>3, EncoderTypeCorrect, PTL DEF Spec

-----------------------------------------------------------------------------
(* Torn reads.  Both bytes of a count, and of a torn read of it.           *)
LEMMA TornBytes ==
  ASSUME NEW c \in Int, NEW d \in Int
  PROVE  \E k \in Int, h \in Int, low \in 0 .. Byte - 1, newLow \in 0 .. Byte - 1 :
           /\ c = Byte * k + low /\ d = Byte * h + newLow
           /\ Torn(c, d) = Byte * h + low
<1>1. Byte \in Nat \ {0} /\ Byte % 2 = 0
  BY EncoderAssumption, SMT
<1>2. PICK k \in Int, low \in 0 .. Byte - 1 : c = Byte * k + low /\ low = c % Byte
  BY <1>1, EvenDivisor
<1>3. PICK h \in Int, newLow \in 0 .. Byte - 1 :
        d = Byte * h + newLow /\ h = d \div Byte
  BY <1>1, EvenDivisor
<1>4. h * Byte + low = Byte * h + low
  BY <1>1, SMT
<1> QED BY <1>2, <1>3, <1>4 DEF Torn, Bytes, High, Low

LEMMA ByteFacts ==
  /\ Byte \in Nat /\ Byte >= 4 /\ L \in Nat /\ Byte < L /\ L % 4 = 0
  /\ \E n \in Nat : Byte = 4 * n
<1>1. PICK n \in Int : Byte = 4 * n
  <2>1. Byte = 4 * (Byte \div 4) /\ Byte \div 4 \in Int
    BY EncoderAssumption, SMT
  <2> QED BY <2>1
<1> QED BY <1>1, EncoderAssumption, SMT DEF L

(* A torn read of counts is half a word at most either way.                *)
LEMMA TornInWord ==
  ASSUME NEW d \in Counter, NEW h \in Int, NEW low \in 0 .. Byte - 1,
         NEW newLow \in 0 .. Byte - 1, d = Byte * h + newLow
  PROVE  /\ Word \in Nat /\ 2 * L <= Word
         /\ -Word <= 2 * (Byte * h + low) /\ 2 * (Byte * h + low) < Word
<1>1. PICK m \in Nat : Byte = 2 * m
  BY ByteFacts, SMT
<1>2. PICK half \in Nat : half = Byte * m
  BY ByteFacts, SMT
<1>3. Word = 2 * half
  <2>1. Byte * (2 * m) = 2 * (Byte * m)
    BY ByteFacts, SMT
  <2> QED BY <1>1, <1>2, <2>1 DEF Word
<1>4. L <= half
  BY <1>2, <1>3, EncoderAssumption, SMT DEF Word, L
<1>5. -L < d /\ d < L
  BY ByteFacts, SMT DEF Counter, L
<1>6. CASE h >= m
  <2>1. Byte * h >= Byte * m
    BY <1>6, ByteFacts, SMT
  <2> QED BY <1>2, <1>4, <1>5, <2>1, ByteFacts, SMT
<1>7. CASE h <= -m - 1
  <2>1. Byte * h <= Byte * (-m - 1) /\ Byte * (-m - 1) = -(Byte * m) - Byte
    BY <1>7, ByteFacts, SMT
  <2> QED BY <1>2, <1>4, <1>5, <2>1, ByteFacts, SMT
<1>8. CASE h <= m - 1 /\ h >= -m
  <2>1. /\ Byte * h <= Byte * (m - 1) /\ Byte * (m - 1) = Byte * m - Byte
        /\ Byte * h >= Byte * (-m) /\ Byte * (-m) = -(Byte * m)
    BY <1>8, ByteFacts, SMT
  <2> QED BY <1>2, <1>3, <1>4, <2>1, ByteFacts, SMT
<1> QED BY <1>6, <1>7, <1>8, SMT

(* Within a word nothing but zero is zero modulo a word.                   *)
LEMMA ZeroInWord ==
  ASSUME NEW w \in Nat \ {0}, w % 2 = 0, NEW x \in Int, -w < x, x < w, x % w = 0
  PROVE  x = 0
<1>1. PICK q \in Int : x = w * q
  BY EvenDivisor, SMT
<1>2. CASE q >= 1
  <2>1. w * q >= w * 1
    BY <1>2, SMT
  <2> QED BY <1>1, <2>1, SMT
<1>3. CASE q <= -1
  <2>1. w * q <= w * (-1)
    BY <1>3, SMT
  <2> QED BY <1>1, <2>1, SMT
<1>4. CASE q = 0
  BY <1>1, <1>4, SMT
<1> QED BY <1>2, <1>3, <1>4, SMT

(* So loop() takes for zero what is zero, or a turn below it.              *)
LEMMA TakenForZero ==
  ASSUME NEW t \in Int, -Word <= 2 * t, 2 * t < Word, 2 * L <= Word, Wrapped(t) = 0
  PROVE  t = 0 \/ t = -L
<1>1. PICK w \in Nat \ {0} : w = Word /\ w % 2 = 0
  BY EvenWord
<1>2. CASE negative
  <2>1. (L + t) % w = 0
    BY <1>1, <1>2 DEF Wrapped, L
  <2>2. L + t \in Int /\ -w < L + t /\ L + t < w
    BY <1>1, ByteFacts, SMT
  <2>3. L + t = 0
    BY <1>1, <2>1, <2>2, ZeroInWord
  <2> QED BY <2>3, ByteFacts, SMT
<1>3. CASE ~negative
  <2>1. t % w = 0
    BY <1>1, <1>3 DEF Wrapped
  <2>2. -w < t /\ t < w
    BY <1>1, SMT
  <2> QED BY <1>1, <2>1, <2>2, ZeroInWord
<1> QED BY <1>2, <1>3

(* The handler moves the count by 2 at most, or past the end of a turn.    *)
LEMMA CountedNear ==
  ASSUME NEW c \in Counter, NEW a, NEW b
  PROVE  \/ \E e \in {-2, 0, 2} : Counted(c, a, b) = c + e
         \/ c \in {L - 2, L - 1} /\ Counted(c, a, b) \in {0, 1}
         \/ c \in {2 - L, 1 - L} /\ Counted(c, a, b) \in {0, -1}
<1>1. PICK e \in {-2, 0, 2} : c + (IF a = B_set THEN 1 ELSE -1)
                                + (IF a # b THEN 1 ELSE -1) = c + e
  BY CounterInt, SMT
<1>2. Counted(c, a, b) = Remainder(c + e)
  BY <1>1 DEF Counted
<1>3. c \in Int /\ -L < c /\ c < L
  BY ByteFacts, SMT DEF Counter, L
<1>4. \A x \in 0 .. L - 1 : x % L = x /\ (x + L) % L = x
  BY ByteFacts, SMT
<1>5. CASE c + e >= 0
  <2>1. Remainder(c + e) = (c + e) % L
    BY <1>5 DEF Remainder, L
  <2>2. CASE c + e < L
    <3>1. (c + e) % L = c + e
      BY <1>3, <1>4, <1>5, <2>2, ByteFacts, SMT
    <3> QED BY <1>2, <2>1, <3>1
  <2>3. CASE c + e >= L
    <3>1. PICK x \in {0, 1} : c + e = x + L
      BY <1>3, <2>3, ByteFacts, SMT
    <3>2. (x + L) % L = x
      BY <1>4, ByteFacts, SMT
    <3>3. c \in {L - 2, L - 1}
      BY <1>3, <3>1, ByteFacts, SMT
    <3> QED BY <1>2, <2>1, <3>1, <3>2, <3>3
  <2> QED BY <1>3, <2>2, <2>3, ByteFacts, SMT
<1>6. CASE ~(c + e >= 0)
  <2>1. Remainder(c + e) = -((-(c + e)) % L)
    BY <1>6 DEF Remainder, L
  <2>2. CASE c + e > -L
    <3>1. (-(c + e)) % L = -(c + e)
      BY <1>3, <1>4, <1>6, <2>2, ByteFacts, SMT
    <3>2. -(-(c + e)) = c + e
      BY <1>3, SMT
    <3> QED BY <1>2, <2>1, <3>1, <3>2
  <2>3. CASE c + e <= -L
    <3>1. PICK x \in {0, 1} : -(c + e) = x + L
      BY <1>3, <2>3, ByteFacts, SMT
    <3>2. (x + L) % L = x
      BY <1>4, ByteFacts, SMT
    <3>3. c \in {2 - L, 1 - L} /\ -x \in {0, -1}
      BY <1>3, <3>1, ByteFacts, SMT
    <3> QED BY <1>2, <2>1, <3>1, <3>2, <3>3
  <2> QED BY <1>3, <2>2, <2>3, ByteFacts, SMT
<1> QED BY <1>5, <1>6


(* Two counts not far apart, both in or at the end of a page of bytes.     *)
LEMMA NextPage ==
  ASSUME NEW k \in Int, NEW h \in Int, NEW newLow \in 0 .. Byte - 1,
         NEW e \in {-2, 0, 2}, Byte * h + newLow = Byte * k + e
  PROVE  k = h \/ k = h + 1
<1>1. PICK j \in Int : j = k - h /\ Byte * j = Byte * k - Byte * h
  BY ByteFacts, SMT
<1>2. Byte * h \in Int /\ Byte * k \in Int
  BY ByteFacts, SMT
<1>3. newLow = Byte * j + e /\ Byte * j \in Int
  BY <1>1, <1>2, ByteFacts, SMT
<1>4. CASE j >= 2
  <2>1. Byte * j >= Byte * 2
    BY <1>4, ByteFacts, SMT
  <2> QED BY <1>3, <2>1, ByteFacts, SMT
<1>5. CASE j <= -1
  <2>1. Byte * j <= Byte * (-1)
    BY <1>5, ByteFacts, SMT
  <2> QED BY <1>3, <2>1, ByteFacts, SMT
<1>6. CASE j \in {0, 1}
  BY <1>1, <1>6, SMT
<1> QED BY <1>4, <1>5, <1>6, SMT

(* A multiple of a byte is a multiple of 4, so it is not at a turn's end.  *)
LEMMA NotAtTheEnd ==
  ASSUME NEW k \in Int
  PROVE  Byte * k \notin {L - 2, L - 1, 2 - L, 1 - L}
<1>1. PICK n \in Nat : Byte = 4 * n
  BY ByteFacts
<1>2. PICK j \in Int : j = n * k
  BY SMT
<1>3. (4 * n) * k = 4 * (n * k)
  BY SMT
<1>4. Byte * k = 4 * j
  BY <1>1, <1>2, <1>3
<1> QED BY <1>4, ByteFacts, SMT

(* A torn read that loop() takes for zero: the count is zero modulo a      *)
(* turn, or a page further.                                                *)
LEMMA TornZero ==
  ASSUME NEW c \in Counter, NEW a, NEW b,
         Wrapped(Torn(c, Counted(c, a, b))) = 0
  PROVE  c % L \in {0, Byte}
<1>1. PICK d \in Counter : d = Counted(c, a, b)
  BY CountedParity, CounterInt
<1>2. c \in Int /\ d \in Int /\ -L < c /\ c < L
  BY CounterInt, ByteFacts, SMT DEF Counter, L
<1>3. PICK k \in Int, h \in Int, low \in 0 .. Byte - 1, newLow \in 0 .. Byte - 1 :
        /\ c = Byte * k + low /\ d = Byte * h + newLow
        /\ Torn(c, d) = Byte * h + low
  BY <1>2, TornBytes
<1>4. PICK t \in Int : t = Byte * h + low
  BY ByteFacts, SMT
<1>5. t = 0 \/ t = -L
  <2>1. 2 * L <= Word /\ -Word <= 2 * t /\ 2 * t < Word
    BY <1>3, <1>4, TornInWord
  <2>2. Wrapped(t) = 0
    BY <1>1, <1>3, <1>4
  <2> QED BY <2>1, <2>2, TakenForZero
<1>6. \/ \E e \in {-2, 0, 2} : d = c + e
      \/ c \in {L - 2, L - 1} /\ d \in {0, 1}
      \/ c \in {2 - L, 1 - L} /\ d \in {0, -1}
  BY <1>1, CountedNear
<1>7. /\ 0 % L = 0 /\ Byte % L = Byte
      /\ (Byte - L) % L = Byte
  BY ByteFacts, SMT
<1>8. Byte * k \in Int /\ Byte * h \in Int
  BY ByteFacts, SMT
<1>9. CASE t = 0
  <2>1. low = 0 /\ h = 0
    <3>1. Byte * h = -low
      BY <1>4, <1>8, <1>9, SMT
    <3>2. CASE h >= 1
      <4>1. Byte * h >= Byte * 1
        BY <3>2, ByteFacts, SMT
      <4> QED BY <3>1, <4>1, ByteFacts, SMT
    <3>3. CASE h <= -1
      <4>1. Byte * h <= Byte * (-1)
        BY <3>3, ByteFacts, SMT
      <4> QED BY <3>1, <4>1, ByteFacts, SMT
    <3>4. CASE h = 0
      BY <3>1, <3>4, ByteFacts, SMT
    <3> QED BY <3>2, <3>3, <3>4, SMT
  <2>2. c = Byte * k
    BY <1>3, <1>8, <2>1, SMT
  <2>3. PICK e \in {-2, 0, 2} : d = c + e
    BY <1>6, <2>2, NotAtTheEnd
  <2>4. k \in {0, 1}
    BY <1>3, <2>1, <2>2, <2>3, NextPage, SMT
  <2>5. c \in {0, Byte}
    BY <2>2, <2>4, ByteFacts, SMT
  <2> QED BY <1>7, <2>5
<1>10. CASE t = -L
  <2>1. Byte * h = -L - low
    BY <1>4, <1>8, <1>10, ByteFacts, SMT
  <2>2. c = Byte * k - Byte * h - L
    BY <1>3, <1>8, <2>1, ByteFacts, SMT
  <2>3. PICK e \in {-2, 0, 2} : d = c + e
    <3>1. d < 0
      BY <1>3, <1>8, <2>1, ByteFacts, SMT
    <3>2. d # -1
      <4>1. d < Byte - L
        BY <1>3, <1>8, <2>1, ByteFacts, SMT
      <4>2. Byte <= L - 4
        BY ByteFacts, SMT
      <4> QED BY <4>1, <4>2, ByteFacts, SMT
    <3> QED BY <1>6, <3>1, <3>2, SMT
  <2>4. PICK j \in Int : j = k - h /\ Byte * j = Byte * k - Byte * h
    BY ByteFacts, SMT
  <2>5. c = Byte * j - L /\ Byte * j \in Int
    BY <1>8, <2>2, <2>4, SMT
  <2>6. Byte * j > 0
    BY <1>2, <2>5, ByteFacts, SMT
  <2>7. Byte * j <= Byte + 1
    BY <1>3, <1>8, <2>3, <2>4, ByteFacts, SMT
  <2>8. CASE j >= 2
    <3>1. Byte * j >= Byte * 2
      BY <2>8, ByteFacts, SMT
    <3> QED BY <2>5, <2>7, <3>1, ByteFacts, SMT
  <2>9. CASE j <= 0
    <3>1. Byte * j <= Byte * 0
      BY <2>9, ByteFacts, SMT
    <3> QED BY <2>5, <2>6, <3>1, ByteFacts, SMT
  <2>10. CASE j = 1
    <3>1. c = Byte - L
      BY <2>5, <2>10, ByteFacts, SMT
    <3> QED BY <1>7, <3>1
  <2> QED BY <2>8, <2>9, <2>10, SMT
<1> QED BY <1>5, <1>9, <1>10

LEMMA ReadValueZero ==
  ASSUME TypeOK, ReadValue, wrappedCounter' = 0
  PROVE  counterValue % L \in {0, Byte}
<1>1. PICK c \in Counter : c = counterValue
  BY DEF TypeOK
<1>2. CASE wrappedCounter' = Wrapped(counterValue)
  <2>1. c \in Int /\ -L < c /\ c < L
    BY ByteFacts, SMT DEF Counter, L
  <2>2. 2 * L <= Word
    BY EncoderAssumption DEF Word, L
  <2>3. Word \in Nat
    BY EvenWord
  <2>4. c = 0
    <3>1. PICK w \in Nat \ {0} : w = Word /\ w % 2 = 0
      BY EvenWord
    <3>2. CASE negative
      <4>1. (L + c) % w = 0
        BY <1>1, <1>2, <3>1, <3>2 DEF Wrapped, L
      <4>2. L + c \in Int /\ -w < L + c /\ L + c < w /\ L + c > 0
        BY <2>1, <2>2, <3>1, ByteFacts, SMT
      <4>3. L + c = 0
        BY <3>1, <4>1, <4>2, ZeroInWord
      <4> QED BY <4>2, <4>3, ByteFacts, SMT
    <3>3. CASE ~negative
      <4>1. c % w = 0
        BY <1>1, <1>2, <3>1, <3>3 DEF Wrapped
      <4>2. -w < c /\ c < w
        BY <2>1, <2>2, <3>1, ByteFacts, SMT
      <4> QED BY <2>1, <3>1, <4>1, <4>2, ZeroInWord
    <3> QED BY <3>2, <3>3
  <2>5. 0 % L = 0
    BY ByteFacts, SMT
  <2> QED BY <1>1, <2>4, <2>5
<1>3. CASE /\ HandlerOn(counterValue, counterValue')
           /\ wrappedCounter' = Wrapped(Torn(counterValue, counterValue'))
  <2>1. PICK a, b : counterValue' = Counted(c, a, b)
    BY <1>1, <1>3, Zenon DEF HandlerOn
  <2>2. Wrapped(Torn(c, Counted(c, a, b))) = 0
    BY <1>1, <1>3, <2>1
  <2> QED BY <1>1, <2>2, TornZero
<1> QED BY <1>2, <1>3 DEF ReadValue

(* For every length of a turn and size of a byte: a count that loop()      *)
(* takes for zero is zero modulo a turn or, where the handler tore the     *)
(* read, a page further; so far off may a homing end and no further (pde   *)
(* 145-148, 178-179).                                                      *)
THEOREM ZeroReadAtAPage == Spec => ReadsZeroAtAPage
<1>1. TypeOK /\ [Next]_vars
        => [pc = "value" /\ pc' = "sensor" /\ wrappedCounter' = 0
              => counterValue % linesPerRevolution \in {0, Byte}]_vars
  <2> SUFFICES ASSUME TypeOK, [Next]_vars, pc = "value", pc' = "sensor",
                      wrappedCounter' = 0
               PROVE  counterValue % L \in {0, Byte}
    BY DEF L
  <2>1. CASE ReadValue
    BY <2>1, ReadValueZero
  <2>2. CASE Rotate \/ Handler \/ ReadSign \/ CheckIRsensor \/ Home
    BY <2>2 DEF Rotate, Handler, ReadSign, CheckIRsensor, Home
  <2>3. CASE UNCHANGED vars
    BY <2>3 DEF vars
  <2> QED BY <2>1, <2>2, <2>3 DEF Next
<1> QED BY <1>1, EncoderTypeCorrect, PTL DEF Spec, ReadsZeroAtAPage
=============================================================================
