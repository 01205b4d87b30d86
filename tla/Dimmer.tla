------------------------------- MODULE Dimmer -------------------------------
(***************************************************************************)
(* How bright the Flatsun wall is: the Dimmer object, the timer callbacks  *)
(* of FlatSunAppDelegate that feed it, and the sources of its readings: a  *)
(* knob polled over a serial line, or the slider that replaces it when the *)
(* port does not open, and UDP commands.                                   *)
(*                                                                         *)
(* All handlers run on the main run loop, so each is one step; they        *)
(* interleave in any order, and a timer may fire late by any amount.  Time *)
(* is counted in periods of the 50 ms timers; the age of a fade or a boost *)
(* is the time since its startTime, and saturates at its duration.         *)
(***************************************************************************)
EXTENDS Integers, Sequences

CONSTANTS
  Readings,        (* Positions of knob and slider, 8 bits in the code.    *)
  StaticTicks,     (* STATIC_SECONDS                                       *)
  RampTicks,       (* BOOST_UP_SECONDS and BOOST_DOWN_SECONDS              *)
  BoostTicks,      (* BOOST_SECONDS                                        *)
  UdpValues,       (* What UDP may ask for.                                *)
  SplitReads,      (* A read may get only the end of a serial reply.       *)
  MaxMoves         (* Bound: knob or slider moves and UDP commands.        *)

BOOST_TRIGGER_VALUE == 253
BOOST_ARM_VALUE     == 0
BOOST_VALUE         == 250
MAX_STATIC_VALUE    == 127

UInt8 == 0 .. 255

ASSUME DimmerAssumption == /\ Readings \subseteq UInt8 /\ 0 \in Readings
                           /\ UdpValues \subseteq UInt8
                           /\ SplitReads \in BOOLEAN
                           /\ StaticTicks \in Nat \ {0}
                           /\ RampTicks \in Nat \ {0}
                           /\ BoostTicks \in Nat \ {0}
                           /\ MaxMoves \in Nat

VARIABLES
  value,       (* Dimmer.value                                             *)
  fade,        (* Dimmer.fade                                              *)
  boost,       (* Dimmer.boost                                             *)
  brightness,  (* What ledPanel was last told.                             *)
  opened,      (* The serial port opened at launch.                        *)
  slider,      (* dimmerSlider.intValue; hidden if the port opened.        *)
  knob,        (* The knob of the serial device.                           *)
  wire,        (* Replies of the device that wait to be read.              *)
  moves

vars == <<value, fade, boost, brightness, opened, slider, knob, wire, moves>>

-----------------------------------------------------------------------------
(* Dimmer.                                                                 *)
FadeTo(v, ticks) == [active |-> TRUE, age |-> 0, duration |-> ticks,
                     startValue |-> value, endValue |-> v]

Level(v) == IF v = 1 THEN 1 ELSE v \div 2

(* Mutant: a boost does not have to be armed.                              *)
Entering_Unarmed(v) == v >= BOOST_TRIGGER_VALUE /\ ~boost.active

(* update: into boost mode, out of it, or to half the reading.             *)
Entering(v) == v >= BOOST_TRIGGER_VALUE /\ boost.armed /\ ~boost.active
Leaving(v)  == v < BOOST_TRIGGER_VALUE /\ boost.active

BoostAfter(v) ==
  [active |-> Entering(v) \/ (boost.active /\ ~Leaving(v)),
   armed  |-> boost.armed /\ ~Entering(v),
   age    |-> IF Entering(v) THEN 0 ELSE boost.age]

(* Mutants: a reading that is half way through a boost counts as static;   *)
(* every reading starts the fade over.                                     *)
FadeAfter_InBoost(v) ==
  LET turned == IF Entering(v) THEN FadeTo(BOOST_VALUE, RampTicks)
                ELSE IF Leaving(v) THEN FadeTo(Level(v), StaticTicks) ELSE fade
  IN  IF /\ v < BOOST_TRIGGER_VALUE \/ ~BoostAfter(v).armed
         /\ Level(v) # turned.endValue
        THEN FadeTo(Level(v), StaticTicks) ELSE turned

FadeAfter_Restarts(v) ==
  IF v < BOOST_TRIGGER_VALUE \/ ~(BoostAfter(v).armed \/ BoostAfter(v).active)
    THEN FadeTo(Level(v), StaticTicks)
    ELSE IF Entering(v) THEN FadeTo(BOOST_VALUE, RampTicks) ELSE fade

FadeAfter(v) ==
  LET turned == IF Entering(v) THEN FadeTo(BOOST_VALUE, RampTicks)
                ELSE IF Leaving(v) THEN FadeTo(Level(v), StaticTicks) ELSE fade
      static == \/ v < BOOST_TRIGGER_VALUE
                \/ ~(BoostAfter(v).armed \/ BoostAfter(v).active)
  IN  IF static /\ Level(v) # turned.endValue THEN FadeTo(Level(v), StaticTicks)
                                              ELSE turned

Update(v) ==
  /\ fade' = FadeAfter(v)
  /\ boost' = [BoostAfter(v) EXCEPT !.armed = @ \/ v <= BOOST_ARM_VALUE]
  /\ UNCHANGED value

(* jumpTo: the fade stops where it is, its endValue stays.                 *)
JumpTo(v) == /\ value' = v
             /\ fade' = [fade EXCEPT !.active = FALSE]
             /\ UNCHANGED boost

(* timerCallBack: updateFade, then updateBoost.  (UInt8) truncates; values *)
(* are never negative.                                                     *)
Interpolated ==
  (fade.startValue * (fade.duration - fade.age) + fade.endValue * fade.age)
    \div fade.duration

FadeDone == fade.age >= fade.duration

Faded == IF ~fade.active THEN value
         ELSE IF FadeDone THEN fade.endValue ELSE Interpolated

BoostDone == boost.active /\ boost.age >= BoostTicks

DimmerTimer ==
  /\ fade.active \/ boost.active
  /\ value' = Faded
  /\ fade' = IF BoostDone
               THEN [FadeTo(MAX_STATIC_VALUE, RampTicks) EXCEPT !.startValue = Faded]
               ELSE [fade EXCEPT !.active = @ /\ ~FadeDone]
  /\ boost' = [boost EXCEPT !.active = @ /\ ~BoostDone]
  /\ UNCHANGED <<brightness, opened, slider, knob, wire, moves>>

-----------------------------------------------------------------------------
(* The delegate.  setDimmer passes dim.value on as update leaves it.       *)
SetDimmer(v) == Update(v) /\ brightness' = value

(* serialTimerCallBack, the port closed: the slider is the reading.        *)
SliderTick ==
  /\ ~opened
  /\ SetDimmer(slider)
  /\ UNCHANGED <<opened, slider, knob, wire, moves>>

(* pollRx of Serial: a reply is up to three digits, CR, LF and a space; a  *)
(* read that does not end in those three bytes is dropped.  A reply that   *)
(* comes in two reads thus leaves its last digits, or none, which count as *)
(* 0.                                                                      *)
Tails(v) == IF SplitReads THEN {v, v % 100, v % 10, 0} ELSE {v}

(* serialTimerCallBack, the port open: what came in is read, and the       *)
(* device asked again.  It answers with its knob, or not at all.           *)
Asked == wire' \in {<<>>, <<knob>>}

SerialTick ==
  /\ opened
  /\ \/ wire = <<>> /\ UNCHANGED <<value, fade, boost, brightness>>
     \/ wire # <<>> /\ \E v \in Tails(Head(wire)) : SetDimmer(v)
  /\ Asked
  /\ UNCHANGED <<opened, slider, knob, moves>>

(* setDimmerFromUdp, also at launch (200) and for a boost request (253).   *)
SetDimmerFromUdp(v) ==
  /\ slider' = v
  /\ JumpTo(v)
  /\ brightness' = v
  /\ UNCHANGED <<opened, knob, wire>>

-----------------------------------------------------------------------------
(* The world.                                                              *)
Move == moves < MaxMoves /\ moves' = moves + 1

Udp == /\ Move
       /\ \E v \in UdpValues : SetDimmerFromUdp(v)

TurnKnob == /\ opened /\ Move
            /\ knob' \in Readings
            /\ UNCHANGED <<value, fade, boost, brightness, opened, slider, wire>>

MoveSlider == /\ ~opened /\ Move
              /\ slider' \in Readings
              /\ UNCHANGED <<value, fade, boost, brightness, opened, knob, wire>>

(* overrideSliderMoved: the wall is told, the dimmer is not.               *)
MoveOverride == /\ Move
                /\ brightness' \in Readings
                /\ UNCHANGED <<value, fade, boost, opened, slider, knob, wire>>

Older(a, limit) == IF a < limit THEN a + 1 ELSE a

Clock ==
  /\ \/ fade.active /\ fade.age < fade.duration
     \/ boost.active /\ boost.age < BoostTicks
  /\ fade' = [fade EXCEPT !.age = Older(@, fade.duration)]
  /\ boost' = [boost EXCEPT !.age = IF boost.active THEN Older(@, BoostTicks) ELSE @]
  /\ UNCHANGED <<value, brightness, opened, slider, knob, wire, moves>>

-----------------------------------------------------------------------------
(* awakeFromNib of Dimmer, then setDimmerFromUdp : 200 as the application  *)
(* has launched.                                                           *)
Init ==
  /\ value = 200 /\ brightness = 200 /\ slider = 200
  /\ fade = [active |-> FALSE, age |-> 0, duration |-> StaticTicks,
             startValue |-> 0, endValue |-> 0]
  /\ boost = [active |-> FALSE, armed |-> TRUE, age |-> 0]
  /\ opened \in BOOLEAN
  /\ knob \in Readings
  /\ wire = <<>>
  /\ moves = 0

Next == \/ DimmerTimer \/ SliderTick \/ SerialTick
        \/ Udp \/ TurnKnob \/ MoveSlider \/ MoveOverride \/ Clock

Spec == Init /\ [][Next]_vars

(* Timers fire, time passes, and the device answers again and again.       *)
Fairness == /\ WF_vars(DimmerTimer) /\ WF_vars(Clock) /\ WF_vars(SliderTick)
            /\ WF_vars(SerialTick)
            /\ SF_vars(SerialTick /\ wire' # <<>>)

FairSpec == Spec /\ Fairness

-----------------------------------------------------------------------------
(* Properties.                                                             *)
TypeOK == /\ value \in UInt8 /\ brightness \in UInt8 /\ slider \in UInt8
          /\ fade \in [active : BOOLEAN, age : Nat, duration : Nat,
                       startValue : UInt8, endValue : UInt8]
          /\ fade.age <= fade.duration
          /\ boost \in [active : BOOLEAN, armed : BOOLEAN, age : 0 .. BoostTicks]
          /\ opened \in BOOLEAN /\ knob \in Readings
          /\ wire \in {<<>>} \union { <<k>> : k \in Readings }
          /\ moves \in 0 .. MaxMoves

Reading == IF opened THEN knob ELSE slider

(* Where the dimmer is heading agrees with its mode, through every order   *)
(* of readings, timers and jumps: to BOOST_VALUE in a boost, and to no     *)
(* more than half scale once a boost was left or ran out (Dimmer.m:24-66,  *)
(* 133-142).                                                               *)
TargetMatchesMode ==
  IF boost.active THEN fade.endValue = BOOST_VALUE
                  ELSE fade.endValue <= MAX_STATIC_VALUE

(* Boosts come to an end: a knob or slider left at the trigger does not    *)
(* start the next one, for it has to come down to BOOST_ARM_VALUE first    *)
(* (Dimmer.h:4-7, Dimmer.m:30).                                            *)
BoostsEnd == <>[]~boost.active

(* A reading below the trigger that stays is followed: the wall comes to   *)
(* half of it and stays there (Dimmer.m:50-59).                            *)
Settles ==
  \A v \in Readings : v < BOOST_TRIGGER_VALUE =>
    (<>[](Reading = v) => <>[](brightness = Level(v)))

(* What the code keeps of that: once readings stay, the wall shows what    *)
(* the dimmer holds, and this is half the reading, or else a jump set it   *)
(* and the reading is the one the last fade went to.                       *)
SettlesOrHeld ==
  \A v \in Readings : v < BOOST_TRIGGER_VALUE =>
    (<>[](Reading = v) =>
       <>[](brightness = value /\ fade.endValue = Level(v) /\ ~fade.active))

=============================================================================
