---------------------------- MODULE Dimmer_proofs ---------------------------
(***************************************************************************)
(* Where the dimmer is heading agrees with its mode, for any readings, UDP *)
(* values and durations, and split replies.                                *)
(***************************************************************************)
EXTENDS Dimmer, TLAPS

Fades == [active : BOOLEAN, age : Nat, duration : Nat, startValue : UInt8, endValue : UInt8]
Boosts == [active : BOOLEAN, armed : BOOLEAN, age : 0 .. BoostTicks]

(* What update and the timer may disturb.                                  *)
DimmerOK(f, b) == /\ f \in Fades /\ f.age <= f.duration
                  /\ b \in Boosts
                  /\ IF b.active THEN f.endValue = BOOST_VALUE
                                 ELSE f.endValue <= MAX_STATIC_VALUE

(* The invariant, in the parts that the handlers disturb.                  *)
Inv == /\ DimmerOK(fade, boost) /\ value \in UInt8
       /\ brightness \in UInt8 /\ slider \in UInt8
       /\ opened \in BOOLEAN /\ knob \in Readings
       /\ wire \in {<<>>} \union { <<k>> : k \in Readings }
       /\ moves \in 0 .. MaxMoves

(* The invariant gives the two properties.                                 *)
LEMMA InvImplies == Inv => TypeOK /\ TargetMatchesMode
BY DEF DimmerOK, Fades, Boosts, Inv, TypeOK, TargetMatchesMode

(* update halves a reading to no more than half scale.                     *)
LEMMA LevelIsStatic ==
  ASSUME NEW v \in UInt8
  PROVE  Level(v) \in 0 .. MAX_STATIC_VALUE /\ Level(v) \in UInt8
BY DEF UInt8, Level, MAX_STATIC_VALUE

(* The end of a split reply is again an 8-bit value.                       *)
LEMMA TailsAreReadings ==
  ASSUME NEW v \in UInt8
  PROVE  Tails(v) \subseteq UInt8
BY DEF UInt8, Tails

(* A fade stays between its two ends.                                      *)
LEMMA FadeInRange ==
  ASSUME NEW a \in UInt8, NEW b \in UInt8, NEW d \in Nat \ {0}, NEW g \in 0 .. d
  PROVE  (a * (d - g) + b * g) \div d \in UInt8
<1>. DEFINE x == a * (d - g) + b * g
<1>1. a * (d - g) \in Nat /\ a * (d - g) <= 255 * (d - g)
  BY DEF UInt8
<1>2. b * g \in Nat /\ b * g <= 255 * g
  BY DEF UInt8
<1>3. 255 * (d - g) + 255 * g = 255 * d
  OBVIOUS
<1>4. x \in Nat /\ x <= 255 * d
  BY <1>1, <1>2, <1>3
<1>. HIDE DEF x
<1>5. x \div d \in Int /\ x \div d >= 0 /\ x \div d <= 255
  BY <1>4
<1>. QED  BY <1>5 DEF x, UInt8

(* fadeTo starts a fade, within its duration, to the given end.            *)
LEMMA FadeToTyped ==
  ASSUME TypeOK, NEW v \in UInt8, NEW ticks \in Nat
  PROVE  /\ FadeTo(v, ticks) \in Fades
         /\ FadeTo(v, ticks).age <= FadeTo(v, ticks).duration
         /\ FadeTo(v, ticks).endValue = v
BY DEF FadeTo, Fades, TypeOK

(* update of any reading, from any state, leaves the two in agreement: the *)
(* four ways through its conditions.                                       *)
LEMMA UpdateKeepsTarget ==
  ASSUME Inv, NEW v \in UInt8, Update(v)
  PROVE  DimmerOK(fade', boost')
<1>. USE DimmerAssumption
<1>0. TypeOK /\ TargetMatchesMode
  BY InvImplies
<1>1. /\ Level(v) \in UInt8 /\ Level(v) <= MAX_STATIC_VALUE /\ Level(v) \in Int
      /\ BOOST_VALUE \in UInt8
  <2>1. Level(v) \in 0 .. MAX_STATIC_VALUE /\ Level(v) \in UInt8
    BY LevelIsStatic
  <2>2. BOOST_VALUE \in UInt8
    BY DEF UInt8, BOOST_VALUE
  <2>. QED BY <2>1, <2>2 DEF MAX_STATIC_VALUE
<1>2. /\ FadeTo(BOOST_VALUE, RampTicks) \in Fades
      /\ FadeTo(BOOST_VALUE, RampTicks).age <= FadeTo(BOOST_VALUE, RampTicks).duration
      /\ FadeTo(BOOST_VALUE, RampTicks).endValue = BOOST_VALUE
  BY <1>0, <1>1, FadeToTyped
<1>3. /\ FadeTo(Level(v), StaticTicks) \in Fades
      /\ FadeTo(Level(v), StaticTicks).age <= FadeTo(Level(v), StaticTicks).duration
      /\ FadeTo(Level(v), StaticTicks).endValue = Level(v)
  BY <1>0, <1>1, FadeToTyped
<1>4. fade \in Fades /\ fade.age <= fade.duration /\ boost \in Boosts
  BY <1>0 DEF TypeOK, Fades, Boosts
<1>5. /\ BoostAfter(v).active <=> (Entering(v) \/ (boost.active /\ ~Leaving(v)))
      /\ BoostAfter(v).armed <=> (boost.armed /\ ~Entering(v))
      /\ BoostAfter(v) \in Boosts
  <2>1. 0 \in 0 .. BoostTicks
    OBVIOUS
  <2>2. Entering(v) \in BOOLEAN /\ Leaving(v) \in BOOLEAN
    BY DEF Entering, Leaving
  <2>. QED BY <1>4, <2>1, <2>2 DEF BoostAfter, Boosts
<1>6. fade' = FadeAfter(v) /\ v \in Int
  BY DEF Update, UInt8
<1>7. /\ boost' \in Boosts
      /\ boost'.active <=> (Entering(v) \/ (boost.active /\ ~Leaving(v)))
  <2>1. boost' = [BoostAfter(v) EXCEPT !.armed = BoostAfter(v).armed \/ v <= BOOST_ARM_VALUE]
    BY DEF Update
  <2>2. boost'.active = BoostAfter(v).active
    BY <1>5, <2>1 DEF Boosts
  <2>3. boost' \in Boosts
    BY <1>5, <2>1 DEF Boosts
  <2>. QED BY <1>5, <2>2, <2>3
<1>8. CASE Entering(v)
  <2>1. fade' = FadeTo(BOOST_VALUE, RampTicks)
    <3>1. ~(v < BOOST_TRIGGER_VALUE) /\ BoostAfter(v).active
      BY <1>5, <1>6, <1>8 DEF Entering, BOOST_TRIGGER_VALUE
    <3>. QED BY <1>6, <1>8, <3>1 DEF FadeAfter
  <2>. QED BY <1>2, <1>7, <1>8, <2>1 DEF DimmerOK
<1>9. CASE Leaving(v)
  <2>1. ~Entering(v)
    BY <1>9 DEF Entering, Leaving
  <2>2. fade' = FadeTo(Level(v), StaticTicks)
    BY <1>1, <1>3, <1>6, <1>9, <2>1 DEF FadeAfter
  <2>. QED BY <1>1, <1>3, <1>7, <1>9, <2>1, <2>2 DEF DimmerOK, Leaving
<1>10. CASE ~Entering(v) /\ ~Leaving(v)
  <2>1. boost'.active <=> boost.active
    BY <1>7, <1>10
  <2>2. fade' = fade \/ (fade' = FadeTo(Level(v), StaticTicks) /\ ~boost.active)
    BY <1>5, <1>6, <1>10 DEF FadeAfter, Leaving, BOOST_TRIGGER_VALUE
  <2>. QED BY <1>0, <1>1, <1>3, <1>4, <1>7, <2>1, <2>2 DEF DimmerOK, TargetMatchesMode
<1>. QED  BY <1>8, <1>9, <1>10

(* The timer: a fade goes on or ends, a boost that is over fades to half   *)
(* scale.                                                                  *)
LEMMA TimerKeepsTarget ==
  ASSUME Inv, DimmerTimer
  PROVE  DimmerOK(fade', boost') /\ value' \in UInt8
<1>. USE DimmerAssumption
<1>0. TypeOK /\ TargetMatchesMode
  BY InvImplies
<1>1. Faded \in UInt8
  <2>1. CASE fade.active /\ ~FadeDone
    <3>1. /\ fade.startValue \in UInt8 /\ fade.endValue \in UInt8
          /\ fade.duration \in Nat \ {0} /\ fade.age \in 0 .. fade.duration
      BY <1>0, <2>1 DEF TypeOK, FadeDone
    <3>. QED BY <2>1, <3>1, FadeInRange DEF Faded, Interpolated
  <2>2. CASE ~(fade.active /\ ~FadeDone)
    BY <1>0, <2>2 DEF Faded, TypeOK
  <2>. QED BY <2>1, <2>2
<1>2. MAX_STATIC_VALUE \in UInt8
  BY DEF MAX_STATIC_VALUE, UInt8
<1>3. CASE BoostDone
  <2>1. /\ fade' = [active |-> TRUE, age |-> 0, duration |-> RampTicks,
                    startValue |-> Faded, endValue |-> MAX_STATIC_VALUE]
        /\ boost' = [boost EXCEPT !.active = FALSE]
    BY <1>3 DEF DimmerTimer, FadeTo
  <2>2. fade' \in Fades /\ fade'.age <= fade'.duration
    BY <1>1, <1>2, <2>1 DEF Fades
  <2>3. boost' \in Boosts /\ boost'.active = FALSE
    BY <1>0, <2>1 DEF TypeOK, Boosts
  <2>4. fade'.endValue <= MAX_STATIC_VALUE
    BY <2>1 DEF MAX_STATIC_VALUE
  <2>. QED BY <1>1, <2>2, <2>3, <2>4 DEF DimmerOK, DimmerTimer
<1>4. CASE ~BoostDone
  <2>1. /\ fade' \in Fades /\ fade'.age = fade.age /\ fade'.duration = fade.duration
        /\ fade'.endValue = fade.endValue
    BY <1>0, <1>4 DEF DimmerTimer, TypeOK, Fades, FadeDone
  <2>2. boost' \in Boosts /\ (boost'.active <=> boost.active)
    BY <1>0, <1>4 DEF DimmerTimer, TypeOK, Boosts
  <2>. QED BY <1>0, <1>1, <2>1, <2>2 DEF DimmerOK, DimmerTimer, TypeOK, TargetMatchesMode
<1>. QED  BY <1>3, <1>4

(* The invariant holds in every reachable state.                           *)
THEOREM DimmerInvariance == Spec => []Inv
<1>1. Init => Inv
  BY DimmerAssumption DEF Init, Inv, DimmerOK, Fades, Boosts, UInt8, MAX_STATIC_VALUE
<1>2. Inv /\ [Next]_vars => Inv'
  <2>. SUFFICES ASSUME Inv, [Next]_vars
                PROVE  Inv'
    OBVIOUS
  <2>. USE DimmerAssumption
  <2>1. CASE DimmerTimer
    BY <2>1, TimerKeepsTarget DEF DimmerTimer, Inv
  <2>2. CASE SliderTick
    BY <2>2, UpdateKeepsTarget DEF SliderTick, SetDimmer, Update, Inv
  <2>3. CASE SerialTick
    <3>1. wire' \in {<<>>} \union { <<k>> : k \in Readings }
      BY <2>3 DEF SerialTick, Asked, Inv
    <3>2. DimmerOK(fade', boost') /\ value' = value /\ brightness' \in UInt8
      <4>1. CASE wire = <<>>
        BY <2>3, <4>1 DEF SerialTick, Inv
      <4>2. CASE wire # <<>>
        <5>1. Head(wire) \in UInt8
          BY <4>2 DEF Inv
        <5>2. PICK v \in UInt8 : SetDimmer(v)
          BY <2>3, <4>2, <5>1, TailsAreReadings DEF SerialTick
        <5>. QED BY <5>2, UpdateKeepsTarget DEF SetDimmer, Update, Inv
      <4>. QED BY <4>1, <4>2
    <3>. QED BY <2>3, <3>1, <3>2 DEF SerialTick, Inv
  <2>4. CASE Udp
    <3>1. PICK v \in UdpValues : SetDimmerFromUdp(v)
      BY <2>4 DEF Udp
    <3>2. moves' \in 0 .. MaxMoves
      BY <2>4 DEF Udp, Move, Inv
    <3>3. DimmerOK(fade', boost')
      BY <3>1 DEF SetDimmerFromUdp, JumpTo, Inv, DimmerOK, Fades
    <3>. QED BY <3>1, <3>2, <3>3 DEF SetDimmerFromUdp, JumpTo, Inv
  <2>5. CASE TurnKnob
    BY <2>5 DEF TurnKnob, Move, Inv
  <2>6. CASE MoveSlider
    BY <2>6 DEF MoveSlider, Move, Inv
  <2>7. CASE MoveOverride
    BY <2>7 DEF MoveOverride, Move, Inv
  <2>8. CASE Clock
    <3>1. /\ fade' \in Fades /\ fade'.age <= fade'.duration
          /\ fade'.endValue = fade.endValue
      BY <2>8 DEF Clock, Inv, DimmerOK, Fades, Older
    <3>2. boost' \in Boosts /\ boost'.active = boost.active
      BY <2>8 DEF Clock, Inv, DimmerOK, Boosts, Older
    <3>. QED BY <2>8, <3>1, <3>2 DEF Clock, Inv, DimmerOK
  <2>9. CASE UNCHANGED vars
    BY <2>9 DEF vars, Inv
  <2>. QED
    BY <2>1, <2>2, <2>3, <2>4, <2>5, <2>6, <2>7, <2>8, <2>9 DEF Next
<1>. QED  BY <1>1, <1>2, PTL DEF Spec

(* The variables keep their types: no fade leaves the 8 bits of its ends.  *)
THEOREM DimmerTypeCorrect == Spec => []TypeOK
BY DimmerInvariance, InvImplies, PTL

(* Where the dimmer is heading agrees with its mode (Dimmer.m:24-66,       *)
(* 133-142).                                                               *)
THEOREM TargetAlwaysMatches == Spec => []TargetMatchesMode
BY DimmerInvariance, InvImplies, PTL

=============================================================================
