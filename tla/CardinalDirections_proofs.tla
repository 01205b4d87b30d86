---------------------- MODULE CardinalDirections_proofs ----------------------
(***************************************************************************)
(* Proofs about CardinalDirections, for any number of places, any sensors  *)
(* and settings and any number of losses: it keeps its types, and with all *)
(* commands obeyed the iPod is right about the motor.                      *)
(*                                                                         *)
(* What the iPod believes is what it last sent.  That is the last command  *)
(* on its way, or else the one the Arduino holds (LastCommand), unless it  *)
(* was lost (BeliefInv); and what the motor does is what the last command  *)
(* obeyed says, or a homing that is done (MotorInv).                       *)
(***************************************************************************)
EXTENDS CardinalDirections, SequenceTheorems, WellFoundedInduction, TLAPS

LastCommand == IF wire = <<>> THEN message ELSE wire[Len(wire)]

MotorInv ==
  /\ message = NoCommand => last_temp_ID = NoCommand
  /\ last_temp_ID \in {NoCommand, "s"} => motorTask = 0
  /\ last_temp_ID = "m" => motorTask = 1
  /\ last_temp_ID = "z" => motorTask = 4
  /\ last_temp_ID = "h" /\ ~doHoming => motorTask = 0
  /\ doHoming => last_temp_ID = "h"

BeliefInv == ~inDoubt =>
  /\ ipod.initStage = 2 => LastCommand = "h"
  /\ initDone => (ipod.motorStopped <=> LastCommand \notin {"m", "z"})

IInv == TypeOK /\ MotorInv /\ BeliefInv

-----------------------------------------------------------------------------
(* The last of several sensors: a bounded set of numbers has a greatest    *)
(* one.                                                                    *)
LEMMA GreatestOf ==
  ASSUME NEW S, S \subseteq Nat, S # {}, NEW n \in Nat, \A i \in S : i <= n
  PROVE  \E i \in S : \A j \in S : j <= i
<1> DEFINE Below == {k \in Nat : n - k \in S}
<1>1. ASSUME NEW i \in S PROVE n - i \in Below
  <2>1. n - i \in Nat /\ n - (n - i) = i
    BY SMT
  <2> QED BY <2>1
<1>2. PICK x \in Below : \A y \in Below : <<y, x>> \notin OpToRel(<, Nat)
  BY <1>1, NatLessThanWellFounded, WFMin
<1>3. \A y \in Below : ~(y < x)
  BY <1>2 DEF OpToRel
<1>4. ASSUME NEW j \in S PROVE j <= n - x
  <2>1. n - j \in Below
    BY <1>1
  <2> QED BY <1>3, <2>1, SMT
<1> QED BY <1>4

-----------------------------------------------------------------------------
(* A frame's passage through update().                                     *)
FrameType == [app : IPod, out : SUBSET Timers, sent : Seq(Commands)]

(* The belief is that of the last command sent, or still the first one.    *)
Believes(f, first) ==
  /\ f \in FrameType /\ f.app.initStage = Done
  /\ IF f.sent = <<>> THEN f.app.motorStopped = first
     ELSE f.app.motorStopped <=> f.sent[Len(f.sent)] \notin {"m", "z"}

LEMMA SendsCommand ==
  ASSUME NEW f \in FrameType, NEW c \in Commands
  PROVE  /\ shortSend_cmd(f, c) \in FrameType
         /\ shortSend_cmd(f, c).sent # <<>>
         /\ shortSend_cmd(f, c).sent[Len(shortSend_cmd(f, c).sent)] = c
         /\ shortSend_cmd(f, c).app.initStage = f.app.initStage
         /\ c = "s" => shortSend_cmd(f, c).app.motorStopped = TRUE
         /\ c \in {"m", "h"} => shortSend_cmd(f, c).app.motorStopped = FALSE
<1> DEFINE g == shortSend_cmd(f, c)
           stopped == CASE c = "s" -> TRUE [] c \in {"m", "h"} -> FALSE
                        [] OTHER -> f.app.motorStopped
<1>1. f.app \in IPod /\ f.out \in SUBSET Timers /\ f.sent \in Seq(Commands)
  BY DEF FrameType
<1>2. stopped \in BOOLEAN
  BY <1>1 DEF IPod, Commands
<1>3. [f.app EXCEPT !.motorStopped = stopped] \in IPod
  BY <1>1, <1>2 DEF IPod
<1>4. /\ Append(f.sent, c) \in Seq(Commands) /\ Append(f.sent, c) # <<>>
      /\ Append(f.sent, c)[Len(Append(f.sent, c))] = c
  BY <1>1, AppendProperties
<1>5. g = [f EXCEPT !.app = [f.app EXCEPT !.motorStopped = stopped],
                    !.sent = Append(f.sent, c)]
  BY DEF shortSend_cmd, FrameType
<1>6. /\ g.app = [f.app EXCEPT !.motorStopped = stopped]
      /\ g.sent = Append(f.sent, c) /\ g \in FrameType
  BY <1>1, <1>3, <1>4, <1>5 DEF FrameType
<1>7. /\ g.app.motorStopped = stopped /\ g.app.initStage = f.app.initStage
  BY <1>1, <1>6 DEF IPod
<1> QED BY <1>4, <1>6, <1>7

LEMMA MoveOrStop ==
  ASSUME NEW first, NEW f, Believes(f, first), NEW c \in {"s", "m"}
  PROVE  Believes(shortSend_cmd(f, c), first)
<1>1. f \in FrameType /\ c \in Commands
  BY DEF Believes, Commands
<1> QED BY <1>1, SendsCommand DEF Believes

(* Whatever else changes of the application, by a step of update().        *)
Alike(a, b) == /\ a \in IPod /\ b \in IPod
               /\ a.motorStopped = b.motorStopped /\ a.initStage = b.initStage

LEMMA ChangedAlike ==
  ASSUME NEW a \in IPod, NEW b \in BOOLEAN
  PROVE  /\ Alike([a EXCEPT !.personPresent = b], a)
         /\ Alike([a EXCEPT !.doRotate = b], a)
         /\ Alike([a EXCEPT !.setNorthPos = b], a)
         /\ Alike([a EXCEPT !.setDefaultPos = b], a)
         /\ Alike([a EXCEPT !.noticedNow = b], a)
         /\ Alike([a EXCEPT !.showGui = b], a)
BY DEF Alike, IPod

LEMMA MovedAlike ==
  ASSUME NEW a \in IPod
  PROVE  /\ \A d \in {0, 1, 3} : Alike([a EXCEPT !.defaulting = d], a)
         /\ \A d \in Position : Alike([a EXCEPT !.motorDegree = d], a)
         /\ \A n \in Sensors : Alike([a EXCEPT !.nextSensor = n], a)
         /\ \A r \in SUBSET Sensors : Alike([a EXCEPT !.lastSensorReadings = r], a)
BY DEF Alike, IPod

LEMMA AlikeBelieves ==
  ASSUME NEW first, NEW f, Believes(f, first),
         NEW a, Alike(a, f.app), NEW out \in SUBSET Timers
  PROVE  Believes([f EXCEPT !.app = a, !.out = out], first)
BY DEF Believes, FrameType, Alike

LEMMA AppBelieves ==
  ASSUME NEW first, NEW f, Believes(f, first), NEW a, Alike(a, f.app)
  PROVE  Believes([f EXCEPT !.app = a], first)
BY DEF Believes, FrameType, Alike

(* The steps of update(), one by one.                                      *)
LEMMA PersonTimeoutBelieves ==
  ASSUME NEW first, NEW f, Believes(f, first)
  PROVE  Believes(PersonTimeout(f), first)
<1> DEFINE g == [f EXCEPT !.app.personPresent = FALSE, !.out = {"personTimer"}]
<1>1. Alike([f.app EXCEPT !.personPresent = FALSE], f.app)
  BY ChangedAlike DEF Believes, FrameType
<1>2. g = [f EXCEPT !.app = [f.app EXCEPT !.personPresent = FALSE],
                    !.out = {"personTimer"}]
  BY DEF Believes, FrameType
<1>3. Believes(g, first)
  BY <1>1, <1>2, AlikeBelieves DEF Timers
<1>4. Believes(shortSend_cmd(g, "s"), first)
  BY <1>3, MoveOrStop
<1> QED BY <1>4 DEF PersonTimeout

LEMMA SecondStopBelieves ==
  ASSUME NEW first, NEW f, Believes(f, first)
  PROVE  Believes(SecondStop(f), first)
<1> DEFINE g == [f EXCEPT !.out = {}]
<1>1. Believes(g, first)
  BY SMT DEF Believes, FrameType
<1>2. Believes(shortSend_cmd(g, "s"), first)
  BY <1>1, MoveOrStop
<1> QED BY <1>2 DEF SecondStop

LEMMA MoveIfStoppedBelieves ==
  ASSUME NEW first, NEW f, Believes(f, first)
  PROVE  Believes(MoveIfStopped(f), first)
BY MoveOrStop DEF MoveIfStopped

LEMMA BeginDefaultBelieves ==
  ASSUME NEW first, NEW f, Believes(f, first)
  PROVE  Believes(BeginDefault(f), first)
<1> DEFINE g == [f EXCEPT !.app.defaulting = 1]
<1>1. Believes(g, first)
  BY SMT DEF Believes, FrameType, IPod
<1>2. Believes(MoveIfStopped(g), first)
  BY <1>1, MoveIfStoppedBelieves
<1> QED BY <1>2 DEF BeginDefault

LEMMA StopAtDefaultBelieves ==
  ASSUME NEW first, NEW f, Believes(f, first)
  PROVE  Believes(StopAtDefault(f), first)
<1> DEFINE g == [f EXCEPT !.app.defaulting = 3]
<1>1. Believes(g, first)
  BY SMT DEF Believes, FrameType, IPod
<1>2. Believes(shortSend_cmd(g, "s"), first)
  BY <1>1, MoveOrStop
<1> QED BY <1>2 DEF StopAtDefault

LEMMA GoToDefaultBelieves ==
  ASSUME NEW first, NEW f, Believes(f, first)
  PROVE  Believes(GoToDefault(f), first)
<1>1. Believes(StopAtDefault(MoveIfStopped(f)), first)
  BY MoveIfStoppedBelieves, StopAtDefaultBelieves
<1> QED BY <1>1 DEF GoToDefault

LEMMA RotateBelieves ==
  ASSUME NEW first, NEW f, Believes(f, first)
  PROVE  Believes(Rotate(f), first)
<1> DEFINE g == [f EXCEPT !.app.doRotate = FALSE]
           h == MoveIfStopped(g)
<1>1. Believes(g, first)
  <2>1. Alike([f.app EXCEPT !.doRotate = FALSE], f.app)
    BY ChangedAlike DEF Believes, FrameType
  <2>2. g = [f EXCEPT !.app = [f.app EXCEPT !.doRotate = FALSE]]
    BY DEF Believes, FrameType
  <2> QED BY <2>1, <2>2, AppBelieves
<1>2. Believes(h, first)
  BY <1>1, MoveIfStoppedBelieves
<1> HIDE DEF h
<1>3. Believes([h EXCEPT !.app.defaulting = 0], first)
  BY <1>2, SMT DEF Believes, FrameType, IPod
<1> QED BY <1>3 DEF Rotate, h

LEMMA ReachNorthBelieves ==
  ASSUME NEW first, NEW f, Believes(f, first)
  PROVE  Believes(ReachNorth(f), first)
<1> DEFINE g == [f EXCEPT !.app.setNorthPos = FALSE]
<1>1. Believes(g, first)
  <2>1. Alike([f.app EXCEPT !.setNorthPos = FALSE], f.app)
    BY ChangedAlike DEF Believes, FrameType
  <2>2. g = [f EXCEPT !.app = [f.app EXCEPT !.setNorthPos = FALSE]]
    BY DEF Believes, FrameType
  <2> QED BY <2>1, <2>2, AppBelieves
<1>2. Believes(shortSend_cmd(g, "s"), first)
  BY <1>1, MoveOrStop
<1> QED BY <1>2 DEF ReachNorth

LEMMA ReachDefaultBelieves ==
  ASSUME NEW first, NEW f, Believes(f, first)
  PROVE  Believes(ReachDefault(f), first)
<1> DEFINE g == [f EXCEPT !.app.setDefaultPos = FALSE]
<1>1. Believes(g, first)
  <2>1. Alike([f.app EXCEPT !.setDefaultPos = FALSE], f.app)
    BY ChangedAlike DEF Believes, FrameType
  <2>2. g = [f EXCEPT !.app = [f.app EXCEPT !.setDefaultPos = FALSE]]
    BY DEF Believes, FrameType
  <2> QED BY <2>1, <2>2, AppBelieves
<1>2. Believes(shortSend_cmd(g, "s"), first)
  BY <1>1, MoveOrStop
<1> QED BY <1>2 DEF ReachDefault

LEMMA PerformedBelieves ==
  ASSUME NEW first, NEW f, Believes(f, first), NEW g \in Performed(f)
  PROVE  Believes(g, first)
<1>1. g = Rotate(GoToDefault(BeginDefault(SecondStop(PersonTimeout(f)))))
  BY DEF Performed
<1>2. Believes(SecondStop(PersonTimeout(f)), first)
  BY PersonTimeoutBelieves, SecondStopBelieves
<1>3. Believes(GoToDefault(BeginDefault(SecondStop(PersonTimeout(f)))), first)
  BY <1>2, BeginDefaultBelieves, GoToDefaultBelieves
<1> QED BY <1>1, <1>3, RotateBelieves

(* The sensors change neither the belief nor the stage.                    *)
LEMMA SensorsKeepBelief ==
  ASSUME NEW app \in IPod, NEW active \in SUBSET Sensors, NEW pos \in Position
  PROVE  Alike(readUDP(app, active, pos), app)
<1> DEFINE new  == Triggered(app, active)
           next == CHOOSE i \in new : \A j \in new : j <= i
           seen == [app EXCEPT !.lastSensorReadings = active, !.noticedNow = FALSE]
           read == SensorReadings(app, active)
<1>1. new \subseteq Sensors
  BY DEF Triggered
<1>2. ASSUME new # {} PROVE next \in Sensors
  <2>1. Places \in Nat /\ Sensors \subseteq Nat /\ \A i \in Sensors : i <= Places
    BY CardinalAssumption, SMT DEF Position
  <2> HIDE DEF new
  <2>2. \E i \in new : \A j \in new : j <= i
    BY <1>1, <1>2, <2>1, GreatestOf
  <2> QED BY <1>1, <2>2
<1> HIDE DEF new, next
<1>3. Alike(seen, app)
  <2>1. Alike([app EXCEPT !.lastSensorReadings = active], app)
    BY MovedAlike
  <2>2. seen = [[app EXCEPT !.lastSensorReadings = active] EXCEPT !.noticedNow = FALSE]
    OBVIOUS
  <2> QED BY <2>1, <2>2, ChangedAlike DEF Alike
<1>4. Alike(read, app)
  <2>1. CASE new = {}
    BY <1>3, <2>1 DEF SensorReadings, new
  <2>2. CASE new # {}
    <3>1. PICK n \in Sensors : n = next
      BY <1>2, <2>2
    <3> DEFINE a == [seen EXCEPT !.nextSensor = n]
               b == [a EXCEPT !.doRotate = TRUE]
               c == [b EXCEPT !.personPresent = TRUE]
               d == [c EXCEPT !.noticedNow = TRUE]
    <3>2. read = d
      BY <2>2, <3>1 DEF SensorReadings, new, next
    <3> HIDE DEF read, seen
    <3>3. Alike(a, app)
      BY <1>3, MovedAlike DEF Alike
    <3> HIDE DEF a
    <3>4. Alike(b, app)
      BY <3>3, ChangedAlike DEF Alike
    <3> HIDE DEF b
    <3>5. Alike(c, app)
      BY <3>4, ChangedAlike DEF Alike
    <3> HIDE DEF c
    <3>6. Alike(d, app)
      BY <3>5, ChangedAlike DEF Alike
    <3> QED BY <3>2, <3>6
  <2> QED BY <2>1, <2>2
<1> HIDE DEF read
<1>5. readUDP(app, active, pos) = [read EXCEPT !.motorDegree = pos]
  BY DEF readUDP, read
<1>6. read \in IPod
  BY <1>4 DEF Alike
<1>7. Alike([read EXCEPT !.motorDegree = pos], read)
  BY <1>6, MovedAlike
<1> QED BY <1>4, <1>5, <1>7 DEF Alike

-----------------------------------------------------------------------------
(* What is sent, and what of it gets through.                              *)
LEMMA GetsThrough ==
  ASSUME TypeOK, NEW sent \in Seq(Commands), Send(sent)
  PROVE  /\ wire' \in Seq(Commands) /\ losses' \in 0 .. MaxLosses
         /\ inDoubt' \in BOOLEAN
         /\ sent = <<>> => wire' = wire /\ (inDoubt' <=> inDoubt)
         /\ sent # <<>> /\ ~inDoubt'
              => wire' # <<>> /\ wire'[Len(wire')] = sent[Len(sent)]
<1>0. PICK k \in 0 .. Len(sent) : \E kept \in InOrder(Len(sent), k) :
        /\ losses' = losses + (Len(sent) - k) /\ losses' <= MaxLosses
        /\ wire' = wire \o [i \in 1 .. k |-> sent[kept[i]]]
        /\ inDoubt' = Doubtful(sent, {kept[i] : i \in 1 .. k})
  BY DEF Send
<1>1. PICK kept \in InOrder(Len(sent), k) :
        /\ losses' = losses + (Len(sent) - k) /\ losses' <= MaxLosses
        /\ wire' = wire \o [i \in 1 .. k |-> sent[kept[i]]]
        /\ inDoubt' = Doubtful(sent, {kept[i] : i \in 1 .. k})
  BY <1>0
<1> DEFINE got == [i \in 1 .. k |-> sent[kept[i]]]
           arrived == {kept[i] : i \in 1 .. k}
           stops == {i \in arrived : sent[i] = "s"}
<1>2. /\ Len(sent) \in Nat /\ k \in Nat /\ k <= Len(sent)
      /\ DOMAIN sent = 1 .. Len(sent)
      /\ \A i \in 1 .. Len(sent) : sent[i] \in Commands
      /\ wire \in Seq(Commands) /\ losses \in 0 .. MaxLosses
      /\ inDoubt \in BOOLEAN /\ MaxLosses \in Nat
  BY CardinalAssumption DEF TypeOK
<1>3. /\ kept \in [1 .. k -> 1 .. Len(sent)]
      /\ \A i, j \in 1 .. k : i < j => kept[i] < kept[j]
  BY DEF InOrder
<1>4. got \in Seq(Commands) /\ Len(got) = k
  <2>1. got \in [1 .. k -> Commands]
    BY <1>2, <1>3
  <2> QED BY <1>2, <2>1, IsASeq, LenProperties
<1> HIDE DEF got
<1>5. /\ wire' \in Seq(Commands) /\ Len(wire') = Len(wire) + k
      /\ \A i \in 1 .. Len(wire') :
           wire'[i] = IF i <= Len(wire) THEN wire[i] ELSE got[i - Len(wire)]
  BY <1>1, <1>2, <1>4, ConcatProperties DEF got
<1>6. losses' \in 0 .. MaxLosses
  BY <1>1, <1>2, SMT
<1>7. inDoubt' <=> \/ \E i \in DOMAIN sent \ arrived : \A j \in stops : j < i
                   \/ inDoubt /\ stops = {}
  BY <1>1 DEF Doubtful
<1>8. inDoubt' \in BOOLEAN
  BY <1>1 DEF Doubtful
<1>9. ASSUME sent = <<>>
      PROVE  wire' = wire /\ (inDoubt' <=> inDoubt)
  <2>1. Len(sent) = 0 /\ k = 0 /\ DOMAIN sent = {}
    BY <1>2, <1>9, SMT
  <2>2. arrived = {} /\ got = <<>>
    BY <2>1, <1>4, EmptySeq
  <2>3. wire' = wire
    BY <1>1, <1>2, <2>2, ConcatEmptySeq DEF got
  <2> QED BY <1>7, <2>1, <2>2, <2>3
<1>10. ASSUME sent # <<>>, ~inDoubt'
       PROVE  wire' # <<>> /\ wire'[Len(wire')] = sent[Len(sent)]
  <2>1. Len(sent) \in DOMAIN sent
    BY <1>2, <1>10, EmptySeq, SMT
  <2>2. Len(sent) \in arrived
    <3>1. SUFFICES ASSUME Len(sent) \notin arrived PROVE FALSE
      OBVIOUS
    <3>2. PICK j \in stops : ~(j < Len(sent))
      BY <1>7, <1>10, <2>1, <3>1
    <3>3. j \in arrived /\ j \in 1 .. Len(sent)
      BY <1>3
    <3>4. ASSUME NEW n \in Nat, NEW i \in 1 .. n, ~(i < n)
          PROVE  i = n
      BY <3>4, SMT
    <3> QED BY <1>2, <3>1, <3>2, <3>3, <3>4
  <2>3. PICK n \in 1 .. k : kept[n] = Len(sent)
    BY <2>2
  <2>4. n = k
    <3>1. SUFFICES ASSUME n < k PROVE FALSE
      BY <1>2, <2>3, SMT
    <3>2. kept[n] < kept[k] /\ kept[k] \in 1 .. Len(sent)
      BY <1>2, <1>3, <3>1, SMT
    <3> QED BY <1>2, <2>3, <3>2, SMT
  <2>5. got[k] = sent[Len(sent)]
    BY <2>3, <2>4 DEF got
  <2>6. Len(wire) \in Nat /\ Len(wire') \in 1 .. Len(wire') /\ Len(wire') > Len(wire)
        /\ Len(wire') - Len(wire) = k
    BY <1>2, <1>5, <2>3, SMT
  <2> QED BY <1>5, <2>5, <2>6, EmptySeq
<1> QED BY <1>5, <1>6, <1>8, <1>9, <1>10

-----------------------------------------------------------------------------
(* Step by step.  What depends on the wire and the message alone:          *)
LEMMA SameCommand ==
  ASSUME UNCHANGED <<wire, message>>
  PROVE  LastCommand' = LastCommand
BY DEF LastCommand

LEMMA NextCommand ==
  ASSUME wire' # <<>> PROVE LastCommand' = wire'[Len(wire')]
BY DEF LastCommand

(* The motor follows from the Arduino alone.                               *)
LEMMA SameMotor ==
  ASSUME MotorInv, UNCHANGED arduino PROVE MotorInv'
BY DEF MotorInv, arduino

LEMMA UpdateStep ==
  ASSUME IInv, NEW out \in {{}} \union {{t} : t \in Timers}, Update(out)
  PROVE  IInv'
<1>1. PICK f : /\ Believes(f, ipod.motorStopped)
               /\ \E active \in SUBSET Sensors :
                    ipod' = readUDP(f.app, active, position)
               /\ Send(f.sent)
  <2> DEFINE frame == Frame(ipod, out)
  <2>1. Believes(frame, ipod.motorStopped)
    BY EmptySeq DEF Believes, FrameType, Frame, Update, initDone, IInv, TypeOK
  <2>2. ASSUME NEW f \in IF ~ipod.showGui THEN Performed(frame)
                         ELSE {ReachDefault(ReachNorth(frame))}
        PROVE  Believes(f, ipod.motorStopped)
    <3>1. CASE f \in Performed(frame)
      BY <2>1, <3>1, PerformedBelieves
    <3>2. CASE f = ReachDefault(ReachNorth(frame))
      BY <2>1, <3>2, ReachNorthBelieves, ReachDefaultBelieves
    <3> QED BY <2>2, <3>1, <3>2
  <2> QED BY <2>2 DEF Update
<1>2. /\ f.app \in IPod /\ f.sent \in Seq(Commands) /\ position \in Position
      /\ UNCHANGED <<position, defaultDegree, arduino>>
      /\ ipod.initStage = Done /\ TypeOK /\ MotorInv /\ BeliefInv
  BY <1>1 DEF Believes, FrameType, IInv, TypeOK, Update, initDone
<1>3. Alike(ipod', f.app)
  BY <1>1, <1>2, SensorsKeepBelief
<1>4. /\ wire' \in Seq(Commands) /\ losses' \in 0 .. MaxLosses
      /\ inDoubt' \in BOOLEAN
      /\ f.sent = <<>> => wire' = wire /\ (inDoubt' <=> inDoubt)
      /\ f.sent # <<>> /\ ~inDoubt'
           => wire' # <<>> /\ wire'[Len(wire')] = f.sent[Len(f.sent)]
  BY <1>1, <1>2, GetsThrough
<1>5. TypeOK'
  BY <1>2, <1>3, <1>4 DEF TypeOK, arduino, Alike
<1>6. BeliefInv'
  <2> SUFFICES ASSUME ~inDoubt'
               PROVE  /\ ipod'.initStage = Done
                      /\ ipod'.motorStopped <=> LastCommand' \notin {"m", "z"}
    BY DEF BeliefInv, Done, initDone
  <2>1. ipod'.initStage = Done /\ ipod'.motorStopped = f.app.motorStopped
    BY <1>1, <1>3 DEF Alike, Believes
  <2>2. CASE f.sent = <<>>
    <3>1. LastCommand' = LastCommand
      BY <1>2, <1>4, <2>2, SameCommand DEF arduino
    <3>2. f.app.motorStopped = ipod.motorStopped
      BY <1>1, <2>2 DEF Believes
    <3> QED BY <1>2, <1>4, <2>1, <2>2, <3>1, <3>2 DEF BeliefInv, initDone
  <2>3. CASE f.sent # <<>>
    <3>1. LastCommand' = f.sent[Len(f.sent)]
      BY <1>4, <2>3, NextCommand
    <3> QED BY <1>1, <2>1, <2>3, <3>1 DEF Believes
  <2> QED BY <2>1, <2>2, <2>3
<1> QED BY <1>2, <1>5, <1>6, SameMotor DEF IInv

LEMMA InitStageStep == IInv /\ InitStage => IInv'
<1> SUFFICES ASSUME IInv, InitStage PROVE IInv'
  OBVIOUS
<1>1. TypeOK /\ MotorInv /\ BeliefInv /\ UNCHANGED <<position, defaultDegree, arduino>>
  BY DEF IInv, InitStage
<1>2. MotorInv'
  BY <1>1, SameMotor
<1>3. CASE ipod.initStage \in {0, 1}
  <2> DEFINE app == [ipod EXCEPT !.initStage = @ + 1]
             cmd == IF ipod.initStage = 0 THEN "s" ELSE "h"
             frame == Frame(app, {})
             f == shortSend_cmd(frame, cmd)
  <2>1. ipod' = f.app /\ Send(f.sent)
    BY <1>3 DEF InitStage
  <2>2. app \in IPod /\ app.initStage = ipod.initStage + 1
    BY <1>1, <1>3, SMT DEF TypeOK, IPod, Off, Done
  <2>3. frame \in FrameType /\ frame.app = app
        /\ cmd \in Commands
    BY <2>2, EmptySeq DEF Frame, FrameType, Commands
  <2> HIDE DEF app, cmd, frame
  <2>4. /\ f \in FrameType /\ f.sent # <<>> /\ f.sent[Len(f.sent)] = cmd
        /\ f.app.initStage = ipod.initStage + 1
    BY <2>2, <2>3, SendsCommand
  <2>5. /\ wire' \in Seq(Commands) /\ losses' \in 0 .. MaxLosses
        /\ inDoubt' \in BOOLEAN
        /\ ~inDoubt' => wire' # <<>> /\ wire'[Len(wire')] = cmd
    BY <1>1, <2>1, <2>4, GetsThrough DEF FrameType
  <2>6. TypeOK'
    BY <1>1, <2>1, <2>4, <2>5 DEF TypeOK, arduino, FrameType
  <2>7. BeliefInv'
    <3>1. /\ ipod'.initStage = 2 => cmd = "h"
          /\ ipod'.initStage # Done
      BY <1>3, <2>1, <2>4, SMT DEF Done, cmd
    <3> QED BY <2>5, <3>1, NextCommand DEF BeliefInv, initDone
  <2> QED BY <1>2, <2>6, <2>7 DEF IInv
<1>4. CASE ipod.initStage = 2
  <2> DEFINE a == [ipod EXCEPT !.initStage = Done]
             b == [a EXCEPT !.motorDegree = 0]
             c == [b EXCEPT !.motorStopped = TRUE]
             d == [c EXCEPT !.doRotate = FALSE]
  <2>1. ipod' = d /\ UNCHANGED <<wire, losses, inDoubt>>
    BY <1>4 DEF InitStage
  <2>2. a \in IPod /\ a.initStage = Done
    BY <1>1 DEF TypeOK, IPod, Off, Done
  <2> HIDE DEF a
  <2>3. 0 \in Position
    BY CardinalAssumption, SMT DEF Position
  <2>4. b \in IPod /\ b.initStage = Done
    BY <2>2, <2>3, MovedAlike DEF Alike
  <2> HIDE DEF b
  <2>5. c \in IPod /\ c.initStage = Done /\ c.motorStopped = TRUE
    BY <2>4 DEF IPod
  <2> HIDE DEF c
  <2>6. d \in IPod /\ d.initStage = Done /\ d.motorStopped = TRUE
    BY <2>5, ChangedAlike DEF Alike
  <2>7. TypeOK'
    BY <1>1, <2>1, <2>6 DEF TypeOK, arduino
  <2>8. BeliefInv'
    BY <1>1, <1>4, <2>1, <2>6, SameCommand DEF BeliefInv, initDone, arduino, Done
  <2> QED BY <1>2, <2>7, <2>8 DEF IInv
<1> QED BY <1>3, <1>4 DEF InitStage

(* The operator's commands leave the belief in doubt.                      *)
LEMMA OperateKeeps ==
  ASSUME TypeOK, BeliefInv, NEW app \in IPod, NEW sent \in Seq(Commands),
         Operate(app, sent), defaultDegree' \in Defaults,
         sent = <<>> => Alike(app, ipod)
  PROVE  TypeOK' /\ BeliefInv'
<1>1. /\ ipod' = app /\ UNCHANGED <<position, arduino>>
      /\ inDoubt' = (inDoubt \/ sent # <<>>)
      /\ \/ wire' = wire \o sent /\ losses' = losses
         \/ sent # <<>> /\ losses < MaxLosses /\ losses' = losses + 1 /\ wire' = wire
  BY DEF Operate
<1>2. wire' \in Seq(Commands)
  BY <1>1, ConcatProperties DEF TypeOK
<1>3. losses' \in 0 .. MaxLosses
  BY <1>1, CardinalAssumption, SMT DEF TypeOK
<1>4. inDoubt' \in BOOLEAN
  BY <1>1
<1>5. TypeOK'
  BY <1>1, <1>2, <1>3, <1>4 DEF TypeOK, arduino
<1>6. BeliefInv'
  <2> SUFFICES ASSUME ~inDoubt' PROVE BeliefInv'
    BY DEF BeliefInv
  <2>1. sent = <<>> /\ ~inDoubt
    BY <1>1
  <2>2. wire' = wire
    BY <1>1, <2>1, ConcatEmptySeq DEF TypeOK
  <2>3. LastCommand' = LastCommand
    BY <1>1, <2>2, SameCommand DEF arduino
  <2> QED BY <1>1, <2>1, <2>3 DEF BeliefInv, Alike, initDone
<1> QED BY <1>5, <1>6

LEMMA OperatorStep ==
  IInv /\ (touchDoubleTap \/ panelSwitch \/ hide) => IInv'
<1> SUFFICES ASSUME IInv, touchDoubleTap \/ panelSwitch \/ hide PROVE IInv'
  OBVIOUS
<1>1. TypeOK /\ MotorInv /\ BeliefInv
  BY DEF IInv
<1>2. UNCHANGED arduino
  BY DEF touchDoubleTap, panelSwitch, hide, Operate
<1>3. ipod \in IPod /\ defaultDegree \in Defaults
  BY <1>1 DEF TypeOK
<1>4. CASE touchDoubleTap
  <2> DEFINE a == [ipod EXCEPT !.showGui = TRUE]
             b == [a EXCEPT !.motorDegree = 0]
             frame == Frame(b, {})
             f == shortSend_cmd(frame, "h")
  <2>1. Operate(f.app, f.sent) /\ UNCHANGED defaultDegree
    BY <1>4 DEF touchDoubleTap
  <2>2. a \in IPod
    BY <1>3, ChangedAlike DEF Alike
  <2> HIDE DEF a
  <2>3. 0 \in Position
    BY CardinalAssumption, SMT DEF Position
  <2>4. b \in IPod
    BY <2>2, <2>3, MovedAlike DEF Alike
  <2>5. frame \in FrameType /\ "h" \in Commands
    BY <2>4, EmptySeq DEF Frame, FrameType, Commands
  <2> HIDE DEF b, frame
  <2>6. f \in FrameType /\ f.sent # <<>>
    BY <2>5, SendsCommand
  <2>7. f.app \in IPod /\ f.sent \in Seq(Commands)
    BY <2>6 DEF FrameType
  <2>8. TypeOK' /\ BeliefInv'
    BY <1>1, <1>3, <2>1, <2>6, <2>7, OperateKeeps
  <2> QED BY <1>1, <1>2, <2>8, SameMotor DEF IInv
<1>5. CASE panelSwitch
  <2>1. PICK app : /\ app = [ipod EXCEPT !.setNorthPos = TRUE]
                        \/ app = [ipod EXCEPT !.setDefaultPos = TRUE]
                   /\ Operate(app, <<"z">>) /\ defaultDegree' \in Defaults
    BY <1>3, <1>5 DEF panelSwitch
  <2>2. app \in IPod
    BY <1>3, <2>1, ChangedAlike DEF Alike
  <2>3. <<"z">> \in Seq(Commands) /\ <<"z">> # <<>>
    BY DEF Commands
  <2>4. TypeOK' /\ BeliefInv'
    BY <1>1, <2>1, <2>2, <2>3, OperateKeeps
  <2> QED BY <1>1, <1>2, <2>4, SameMotor DEF IInv
<1>6. CASE hide
  <2>1. Operate([ipod EXCEPT !.showGui = FALSE], <<>>) /\ UNCHANGED defaultDegree
    BY <1>6 DEF hide
  <2>2. Alike([ipod EXCEPT !.showGui = FALSE], ipod)
    BY <1>3, ChangedAlike
  <2>3. [ipod EXCEPT !.showGui = FALSE] \in IPod
    BY <2>2 DEF Alike
  <2>4. TypeOK' /\ BeliefInv'
    BY <1>1, <1>3, <2>1, <2>2, <2>3, EmptySeq, OperateKeeps
  <2> QED BY <1>1, <1>2, <2>4, SameMotor DEF IInv
<1> QED BY <1>4, <1>5, <1>6

LEMMA StartedType ==
  /\ Started \in IPod /\ Started.initStage = 0
  /\ Exited \in IPod /\ Exited.initStage = Off
<1>1. 0 \in Sensors /\ 0 \in Position
  BY CardinalAssumption
<1>2. Off \in Off .. Done /\ 0 \in Off .. Done
  BY SMT DEF Off, Done
<1>3. Started \in IPod /\ Started.initStage = 0
  BY <1>1, <1>2 DEF Started, IPod
<1>4. Exited \in IPod /\ Exited.initStage = Off
  BY <1>2, <1>3 DEF Exited, IPod
<1> QED BY <1>3, <1>4

LEMMA ExitStep == IInv /\ exit => IInv'
<1> SUFFICES ASSUME IInv, exit PROVE IInv'
  OBVIOUS
<1>1. /\ TypeOK /\ MotorInv /\ ipod' = Exited /\ Send(<<"s">>)
      /\ UNCHANGED <<position, defaultDegree, arduino>>
  BY DEF IInv, exit
<1>2. <<"s">> \in Seq(Commands)
  BY DEF Commands
<1>3. wire' \in Seq(Commands) /\ losses' \in 0 .. MaxLosses /\ inDoubt' \in BOOLEAN
  BY <1>1, <1>2, GetsThrough
<1>4. TypeOK'
  BY <1>1, <1>3, StartedType DEF TypeOK, arduino
<1>5. BeliefInv'
  BY <1>1, StartedType DEF BeliefInv, initDone, Off, Done
<1> QED BY <1>1, <1>4, <1>5, SameMotor DEF IInv

LEMMA SetupStep == IInv /\ setup => IInv'
<1> SUFFICES ASSUME IInv, setup PROVE IInv'
  OBVIOUS
<1>1. /\ TypeOK /\ MotorInv /\ ipod' = Started
      /\ UNCHANGED <<position, defaultDegree, wire, arduino, losses, inDoubt>>
  BY DEF IInv, setup
<1>2. TypeOK'
  BY <1>1, StartedType DEF TypeOK, arduino
<1>3. BeliefInv'
  BY <1>1, StartedType DEF BeliefInv, initDone, Done
<1> QED BY <1>1, <1>2, <1>3, SameMotor DEF IInv

(* A command that arrives is still the last one, if it was.                *)
LEMMA ParseStep == IInv /\ parse_msg => IInv'
<1> SUFFICES ASSUME IInv, parse_msg PROVE IInv'
  OBVIOUS
<1>1. /\ TypeOK /\ MotorInv /\ BeliefInv
      /\ wire # <<>> /\ message' = Head(wire) /\ wire' = Tail(wire)
      /\ UNCHANGED <<position, ipod, defaultDegree, last_temp_ID, motorTask,
                     doHoming, losses, inDoubt>>
  BY DEF IInv, parse_msg
<1>2. wire \in Seq(Commands)
  BY <1>1 DEF TypeOK
<1>3. /\ Head(wire) \in Commands /\ Head(wire) = wire[1]
      /\ Tail(wire) \in Seq(Commands) /\ Len(Tail(wire)) = Len(wire) - 1
      /\ \A i \in 1 .. Len(Tail(wire)) : Tail(wire)[i] = wire[i + 1]
      /\ Len(wire) \in Nat \ {0}
  BY <1>1, <1>2, HeadTailProperties, EmptySeq
<1>4. TypeOK'
  BY <1>1, <1>3 DEF TypeOK
<1>5. LastCommand' = LastCommand
  <2>1. CASE Len(wire) = 1
    <3>1. wire' = <<>>
      BY <1>1, <1>3, <2>1, EmptySeq, SMT
    <3> QED BY <1>1, <1>3, <2>1, <3>1 DEF LastCommand
  <2>2. CASE Len(wire) # 1
    <3>1. /\ Len(wire) - 1 \in 1 .. Len(Tail(wire))
          /\ (Len(wire) - 1) + 1 = Len(wire)
      BY <1>3, <2>2, SMT
    <3>2. wire'[Len(wire')] = wire[Len(wire)]
      BY <1>1, <1>3, <3>1
    <3>3. wire' # <<>>
      <4>1. Len(wire') # 0
        BY <1>1, <1>3, <3>1, SMT
      <4> QED BY <4>1, EmptySeq
    <3> QED BY <1>1, <3>2, <3>3 DEF LastCommand
  <2> QED BY <2>1, <2>2
<1>6. MotorInv' /\ BeliefInv'
  BY <1>1, <1>3, <1>5 DEF MotorInv, BeliefInv, initDone, Commands, NoCommand
<1> QED BY <1>4, <1>6 DEF IInv

(* The Arduino obeys; what has been sent stays sent.                       *)
LEMMA ArduinoStep == IInv /\ (udpReceive \/ HomingDone \/ Turn) => IInv'
<1> SUFFICES ASSUME IInv, udpReceive \/ HomingDone \/ Turn PROVE IInv'
  OBVIOUS
<1>1. TypeOK /\ MotorInv /\ BeliefInv
  BY DEF IInv
<1>2. UNCHANGED <<ipod, defaultDegree, wire, message, inDoubt>>
  BY DEF udpReceive, HomingDone, Turn, arduino
<1>3. BeliefInv'
  BY <1>1, <1>2, SameCommand DEF BeliefInv, initDone
<1>4. CASE udpReceive
  <2>1. /\ ~doHoming /\ message # last_temp_ID
        /\ last_temp_ID' = message /\ motorTask' = Task[message]
        /\ doHoming' = (message = "h")
        /\ UNCHANGED <<position, ipod, defaultDegree, wire, message, losses, inDoubt>>
    BY <1>4 DEF udpReceive
  <2>2. message \in Commands
    BY <1>1, <2>1 DEF TypeOK, MotorInv
  <2>3. /\ message = "s" => motorTask' = 0
        /\ message = "m" => motorTask' = 1
        /\ message = "h" => motorTask' = 2
        /\ message = "z" => motorTask' = 4
    BY <2>1, <2>2 DEF Task, Commands
  <2>4. TypeOK'
    BY <1>1, <2>1, <2>2, <2>3 DEF TypeOK, Commands
  <2>5. MotorInv'
    BY <2>1, <2>2, <2>3 DEF MotorInv, Commands, NoCommand
  <2> QED BY <1>3, <2>4, <2>5 DEF IInv
<1>5. CASE HomingDone
  <2>1. /\ doHoming /\ motorTask' = 0 /\ doHoming' = FALSE
        /\ UNCHANGED <<position, ipod, defaultDegree, wire, message,
                       last_temp_ID, losses, inDoubt>>
    BY <1>5 DEF HomingDone
  <2>2. TypeOK'
    BY <1>1, <2>1 DEF TypeOK
  <2>3. MotorInv'
    BY <1>1, <2>1 DEF MotorInv, NoCommand
  <2> QED BY <1>3, <2>2, <2>3 DEF IInv
<1>6. CASE Turn
  <2>1. /\ position' = (position + 1) % Places
        /\ losses' = losses \/ (losses < MaxLosses /\ losses' = losses + 1)
        /\ UNCHANGED <<ipod, defaultDegree, wire, arduino, inDoubt>>
    BY <1>6 DEF Turn
  <2>2. position' \in Position
    BY <1>1, <2>1, CardinalAssumption, SMT DEF TypeOK, Position
  <2>3. losses' \in 0 .. MaxLosses
    BY <1>1, <2>1, CardinalAssumption, SMT DEF TypeOK
  <2>4. TypeOK'
    BY <1>1, <2>1, <2>2, <2>3 DEF TypeOK, arduino
  <2> QED BY <1>1, <1>3, <2>1, <2>4, SameMotor DEF IInv
<1> QED BY <1>4, <1>5, <1>6

LEMMA StutterStep == IInv /\ UNCHANGED vars => IInv'
BY SameCommand DEF IInv, TypeOK, MotorInv, BeliefInv, initDone, vars, arduino

LEMMA InitIInv == Init => IInv
<1> SUFFICES ASSUME Init PROVE IInv
  OBVIOUS
<1>1. TypeOK
  <2>1. wire \in Seq(Commands) /\ 0 \in 0 .. MaxLosses
    BY EmptySeq, CardinalAssumption DEF Init
  <2> QED BY <2>1, StartedType DEF Init, TypeOK
<1>2. MotorInv
  BY DEF Init, MotorInv, NoCommand
<1>3. BeliefInv
  BY StartedType DEF Init, BeliefInv, initDone, Done
<1> QED BY <1>1, <1>2, <1>3 DEF IInv

LEMMA CardinalInvariance == Spec => []IInv
<1>1. IInv /\ [Next]_vars => IInv'
  BY UpdateStep, InitStageStep, OperatorStep, ExitStep, SetupStep, ParseStep,
     ArduinoStep, StutterStep DEF Next
<1> QED BY <1>1, InitIInv, PTL DEF Spec

(* For every number of places and losses: the application, the commands    *)
(* and the Arduino keep their types (testApp.mm, UDP.pde, motorControl.pde).*)
THEOREM CardinalTypeCorrect == Spec => []TypeOK
<1>1. IInv => TypeOK
  BY DEF IInv
<1> QED BY <1>1, CardinalInvariance, PTL

(* The iPod, which is told of nothing, is right about the motor when all   *)
(* that it sent has been obeyed, unless a command was lost or was the      *)
(* operator's and no stop has got through since (testApp.mm:944-963,       *)
(* UDP.pde, motorControl.pde).                                             *)
THEOREM BeliefIsRight == Spec => []RightAboutMotor
<1>1. IInv => RightAboutMotor
  <2> SUFFICES ASSUME IInv, initDone, Settled, ~inDoubt
               PROVE  ipod.motorStopped <=> motorTask = 0
    BY DEF RightAboutMotor
  <2>1. message = last_temp_ID /\ ~doHoming /\ LastCommand = message
    BY DEF Settled, LastCommand
  <2>2. ipod.motorStopped <=> message \notin {"m", "z"}
    BY <2>1 DEF IInv, BeliefInv
  <2>3. message \in Commands \union {NoCommand} /\ MotorInv
    BY DEF IInv, TypeOK
  <2> QED BY <2>1, <2>2, <2>3 DEF MotorInv, Commands
<1> QED BY <1>1, CardinalInvariance, PTL
=============================================================================
