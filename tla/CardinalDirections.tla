------------------------- MODULE CardinalDirections -------------------------
(***************************************************************************)
(* Who moves the turntable of Cardinal Directions, and who believes what   *)
(* about it: the application on the iPod (testApp.mm), which is told of    *)
(* visitors and of the table's position and sends commands over UDP, and   *)
(* the Arduino under the table (UDP.pde, motorControl.pde), which holds    *)
(* one command, looks at it now and then and not while it is homing, and   *)
(* ignores a command equal to the last it obeyed.  The iPod never hears    *)
(* whether the motor turns: motorStopped is what it last sent.             *)
(*                                                                         *)
(* A command is its letter.  An angle is one of a few places round the     *)
(* table, and a frame finds that some of the timers have run out.          *)
(***************************************************************************)
EXTENDS Integers, Sequences

CONSTANTS
  Places,         (* Places round the table, 0 .. Places - 1; homing to 0. *)
  Sensors,        (* Places with a motion sensor.                          *)
  sensorBlinder,  (* How far from the band a visitor is noticed.           *)
  Defaults,       (* What the operator may choose as default position.     *)
  northDegree,    (* The north the operator may turn the table to.         *)
  MaxLosses,      (* Bound: commands and positions lost in a run.          *)
  MaxWire         (* Bound: commands on their way when a hand is at the    *)
                  (* screen.                                               *)

Position == 0 .. Places - 1

ASSUME CardinalAssumption == /\ Places \in Nat \ {0}
                             /\ Sensors \subseteq Position /\ 0 \in Sensors
                             /\ sensorBlinder \in Nat
                             /\ Defaults \subseteq Position /\ Defaults # {}
                             /\ northDegree \in Position
                             /\ MaxLosses \in Nat /\ MaxWire \in Nat

VARIABLES
  position,      (* Where the table stands.                                *)
  ipod,          (* The iPod: a record, see IPod.                          *)
  defaultDegree, (* Kept in the settings of the iPod.                      *)
  wire,          (* Commands on their way.                                 *)
  message, last_temp_ID, motorTask, doHoming,               (* The Arduino *)
  losses,
  inDoubt        (* History: since the last stop that was not lost, one of *)
                 (* the commands was, or was the operator's.               *)

arduino == <<message, last_temp_ID, motorTask, doHoming>>
vars    == <<position, ipod, defaultDegree, wire, arduino, losses, inDoubt>>

Commands == {"s", "m", "h", "z"}
NoCommand == "none"

(* initStage, or Off: the application has exited.  lastSensor is nextSensor *)
(* wherever it is used.  noticedNow: personTimer was set a frame ago.       *)
Off  == -1
Done == 3
IPod == [initStage : Off .. Done, motorStopped : BOOLEAN,
         personPresent : BOOLEAN, doRotate : BOOLEAN, defaulting : {0, 1, 3},
         motorDegree : Position, lastSensorReadings : SUBSET Sensors,
         nextSensor : Sensors,
         noticedNow : BOOLEAN, showGui : BOOLEAN, setNorthPos : BOOLEAN, setDefaultPos : BOOLEAN]

initDone == ipod.initStage = Done

-----------------------------------------------------------------------------
(* The passage of a frame through update(): the application, the timers    *)
(* that have run out, and what has been sent.                              *)
Frame(app, out) == [app |-> app, out |-> out, sent |-> <<>>]

(* The belief follows the command.                                         *)
shortSend_cmd(f, c) ==
  [f EXCEPT !.app.motorStopped = CASE c = "s" -> TRUE
                                   [] c \in {"m", "h"} -> FALSE
                                   [] OTHER -> @,
            !.sent = Append(@, c)]

(* What becomes of what is sent: some of it is lost, the rest is in order. *)
Doubtful(sent, kept) ==
  LET stops == {i \in kept : sent[i] = "s"}
  IN  \/ \E i \in DOMAIN sent \ kept : \A j \in stops : j < i
      \/ inDoubt /\ stops = {}

InOrder(n, k) ==
  {f \in [1 .. k -> 1 .. n] : \A i, j \in 1 .. k : i < j => f[i] < f[j]}

Send(sent) ==
  \E k \in 0 .. Len(sent) : \E kept \in InOrder(Len(sent), k) :
    /\ losses' = losses + (Len(sent) - k) /\ losses' <= MaxLosses
    /\ wire' = wire \o [i \in 1 .. k |-> sent[kept[i]]]
    /\ inDoubt' = Doubtful(sent, {kept[i] : i \in 1 .. k})

-----------------------------------------------------------------------------
(* update(), once initDone and with the screen to itself: step by step.    *)
PersonTimeout(f) ==
  IF f.app.personPresent /\ "personTimer" \in f.out /\ ~f.app.noticedNow
    THEN shortSend_cmd([f EXCEPT !.app.personPresent = FALSE,
                                 !.out = {"personTimer"}], "s")
    ELSE f

SecondStop(f) ==
  IF /\ ~f.app.personPresent /\ ~f.app.doRotate /\ ~f.app.motorStopped
     /\ "secondStopTimer" \in f.out /\ f.app.defaulting = 0
    THEN shortSend_cmd([f EXCEPT !.out = {}], "s")
    ELSE f

MoveIfStopped(f) == IF f.app.motorStopped THEN shortSend_cmd(f, "m") ELSE f

BeginDefault(f) ==
  IF ~f.app.personPresent /\ "motorStopTimer" \in f.out /\ f.app.defaulting = 0
    THEN MoveIfStopped([f EXCEPT !.app.defaulting = 1])
    ELSE f

(* Mutants: it is not noted that the default position is reached, or noted *)
(* as a state there is not.                                                *)
StopAtDefault_Again(f) ==
  IF ~f.app.motorStopped /\ f.app.motorDegree = defaultDegree
    THEN shortSend_cmd(f, "s") ELSE f

StopAtDefault_Two(f) ==
  IF ~f.app.motorStopped /\ f.app.motorDegree = defaultDegree
    THEN shortSend_cmd([f EXCEPT !.app.defaulting = 2], "s") ELSE f

StopAtDefault(f) ==
  IF ~f.app.motorStopped /\ f.app.motorDegree = defaultDegree
    THEN shortSend_cmd([f EXCEPT !.app.defaulting = 3], "s")
    ELSE f

GoToDefault(f) ==
  IF f.app.defaulting = 1 THEN StopAtDefault(MoveIfStopped(f)) ELSE f

(* A visitor: the band moves, and is not on its way to its default.        *)
Rotate(f) ==
  IF f.app.doRotate
    THEN [MoveIfStopped([f EXCEPT !.app.doRotate = FALSE])
            EXCEPT !.app.defaulting = 0]
    ELSE f

(* One after the other; there is one outcome.                              *)
Performed(f) ==
  {Rotate(d) : d \in {GoToDefault(c) : c \in {BeginDefault(b) : b \in
     {SecondStop(a) : a \in {PersonTimeout(f)}}}}}

(* With the operator's screen up: stop where the operator wants the table. *)
ReachNorth(f) ==
  IF f.app.setNorthPos /\ f.app.motorDegree = northDegree
    THEN shortSend_cmd([f EXCEPT !.app.setNorthPos = FALSE], "s") ELSE f

ReachDefault(f) ==
  IF f.app.setDefaultPos /\ f.app.motorDegree = defaultDegree
    THEN shortSend_cmd([f EXCEPT !.app.setDefaultPos = FALSE], "s") ELSE f

(* readUDP at the end: first the sensors, by the position known so far.    *)
(* Several at once: the last one found counts.                             *)
Distance(a, b) ==
  LET d == (a - b) % Places IN IF d <= Places - d THEN d ELSE Places - d

Triggered(app, active) ==
  {i \in active \ app.lastSensorReadings :
     i # app.nextSensor /\ Distance(app.motorDegree, i) <= sensorBlinder}

SensorReadings(app, active) ==
  LET new  == Triggered(app, active)
      seen == [app EXCEPT !.lastSensorReadings = active, !.noticedNow = FALSE]
  IN  IF new = {} THEN seen
      ELSE [seen EXCEPT !.nextSensor = CHOOSE i \in new : \A j \in new : j <= i,
                        !.doRotate = TRUE, !.personPresent = TRUE,
                        !.noticedNow = TRUE]

readUDP(app, active, pos) ==
  [SensorReadings(app, active) EXCEPT !.motorDegree = pos]

(* All timers last longer than a command takes to be obeyed.               *)
Prompt == wire = <<>> /\ (message = last_temp_ID \/ doHoming)

Timers == {"personTimer", "motorStopTimer", "secondStopTimer"}

(* A frame, in which one of the timers may be found to have run out: the   *)
(* first to be looked at sends a stop, and with it starts the others anew. *)
(* At its end the report of the Arduino: what its sensors see and where    *)
(* the table stands.                                                       *)
Update(out) ==
  /\ initDone /\ (out # {} => Prompt)
  /\ \E f \in IF ~ipod.showGui
                THEN Performed(Frame(ipod, out))
                ELSE {ReachDefault(ReachNorth(Frame(ipod, out)))} :
       /\ \E active \in SUBSET Sensors :
            ipod' = readUDP(f.app, active, position)
       /\ Send(f.sent)
  /\ UNCHANGED <<position, defaultDegree, arduino>>

(* Mutant: after the homing the iPod takes the motor to be moving.         *)
InitStage_NoBelief ==
  /\ Prompt
  /\ \/ /\ ipod.initStage \in {0, 1}
        /\ LET f == shortSend_cmd(Frame([ipod EXCEPT !.initStage = @ + 1], {}),
                                  IF ipod.initStage = 0 THEN "s" ELSE "h")
           IN  ipod' = f.app /\ Send(f.sent)
     \/ /\ ipod.initStage = 2
        /\ ipod' = [ipod EXCEPT !.initStage = Done, !.motorDegree = 0,
                                !.doRotate = FALSE]
        /\ UNCHANGED <<wire, losses, inDoubt>>
  /\ UNCHANGED <<position, defaultDegree, arduino>>

(* The stages of the start: stop; home; ten seconds later, all is well.    *)
InitStage ==
  /\ Prompt
  /\ \/ /\ ipod.initStage \in {0, 1}
        /\ LET f == shortSend_cmd(Frame([ipod EXCEPT !.initStage = @ + 1], {}),
                                  IF ipod.initStage = 0 THEN "s" ELSE "h")
           IN  ipod' = f.app /\ Send(f.sent)
     \/ /\ ipod.initStage = 2
        /\ ipod' = [ipod EXCEPT !.initStage = Done, !.motorDegree = 0,
                                !.motorStopped = TRUE, !.doRotate = FALSE]
        /\ UNCHANGED <<wire, losses, inDoubt>>
  /\ UNCHANGED <<position, defaultDegree, arduino>>

-----------------------------------------------------------------------------
(* The operator's hand.                                                    *)
Operate(app, sent) ==
  /\ Len(wire) < MaxWire
  /\ ipod' = app
  /\ \/ wire' = wire \o sent /\ UNCHANGED losses
     \/ sent # <<>> /\ losses < MaxLosses /\ losses' = losses + 1 /\ UNCHANGED wire
  /\ inDoubt' = (inDoubt \/ sent # <<>>)
  /\ UNCHANGED <<position, arduino>>

touchDoubleTap ==
  /\ ipod.initStage # Off /\ ~ipod.showGui
  /\ LET f == shortSend_cmd(Frame([ipod EXCEPT !.showGui = TRUE,
                                               !.motorDegree = 0], {}), "h")
     IN  Operate(f.app, f.sent)
  /\ UNCHANGED defaultDegree

panelSwitch ==
  /\ ipod.showGui
  /\ \/ /\ Operate([ipod EXCEPT !.setNorthPos = TRUE], <<"z">>)
        /\ UNCHANGED defaultDegree
     \/ /\ Operate([ipod EXCEPT !.setDefaultPos = TRUE], <<"z">>)
        /\ defaultDegree' \in Defaults

hide ==
  /\ ipod.showGui
  /\ Operate([ipod EXCEPT !.showGui = FALSE], <<>>)
  /\ UNCHANGED defaultDegree

(* setup, and what is left of an application that has exited.              *)
Started == [initStage |-> 0, motorStopped |-> FALSE, personPresent |-> FALSE,
            doRotate |-> FALSE, defaulting |-> 3, motorDegree |-> 0,
            lastSensorReadings |-> {}, nextSensor |-> 0, noticedNow |-> FALSE,
            showGui |-> FALSE, setNorthPos |-> FALSE, setDefaultPos |-> FALSE]

Exited == [Started EXCEPT !.initStage = Off]

(* The battery has been in use for a minute, or the application is closed. *)
exit ==
  /\ ipod.initStage # Off
  /\ ipod' = Exited /\ Send(<<"s">>)
  /\ UNCHANGED <<position, defaultDegree, arduino>>

setup ==
  /\ ipod.initStage = Off /\ Prompt
  /\ ipod' = Started
  /\ UNCHANGED <<position, defaultDegree, wire, arduino, losses, inDoubt>>

-----------------------------------------------------------------------------
(* The Arduino: a command that arrives overwrites the one before.          *)
parse_msg ==
  /\ wire # <<>>
  /\ message' = Head(wire) /\ wire' = Tail(wire)
  /\ UNCHANGED <<position, ipod, defaultDegree, last_temp_ID, motorTask,
                 doHoming, losses, inDoubt>>

Task == [c \in Commands |-> CASE c = "s" -> 0 [] c = "m" -> 1
                              [] c = "h" -> 2 [] c = "z" -> 4]

(* Mutant: commands are obeyed while homing.                               *)
udpReceive_Homing ==
  /\ message # last_temp_ID
  /\ last_temp_ID' = message /\ motorTask' = Task[message]
  /\ doHoming' = (doHoming \/ message = "h")
  /\ UNCHANGED <<position, ipod, defaultDegree, wire, message, losses, inDoubt>>

udpReceive ==
  /\ ~doHoming /\ message # last_temp_ID
  /\ last_temp_ID' = message /\ motorTask' = Task[message]
  /\ doHoming' = (message = "h")
  /\ UNCHANGED <<position, ipod, defaultDegree, wire, message, losses, inDoubt>>

(* The loop, homing: at the sensor it is done.                             *)
HomingDone ==
  /\ doHoming /\ position = 0
  /\ motorTask' = 0 /\ doHoming' = FALSE
  /\ UNCHANGED <<position, ipod, defaultDegree, wire, message, last_temp_ID,
                 losses, inDoubt>>

(* The motor turns the table.  The iPod hears of each place, or a report   *)
(* is lost.                                                                *)
Turn ==
  /\ motorTask # 0
  /\ doHoming => position # 0
  /\ position' = (position + 1) % Places
  /\ IF initDone /\ ipod.motorDegree # position
       THEN losses < MaxLosses /\ losses' = losses + 1 ELSE UNCHANGED losses
  /\ UNCHANGED <<ipod, defaultDegree, wire, arduino, inDoubt>>

-----------------------------------------------------------------------------
Init == /\ position \in Position /\ defaultDegree \in Defaults
        /\ ipod = Started /\ wire = <<>>
        /\ message = NoCommand /\ last_temp_ID = NoCommand
        /\ motorTask = 0 /\ doHoming = FALSE
        /\ losses = 0 /\ inDoubt = FALSE

Next == \/ Update({}) \/ \E t \in Timers : Update({t})
        \/ InitStage
        \/ touchDoubleTap \/ panelSwitch \/ hide \/ exit \/ setup
        \/ parse_msg \/ udpReceive \/ HomingDone \/ Turn

Spec == Init /\ [][Next]_vars

(* The application draws frame after frame, the loop of the Arduino loops, *)
(* time passes.  Nobody has to come, or to touch the screen.               *)
Fairness == /\ WF_vars(Update({})) /\ WF_vars(InitStage)
            /\ \A t \in Timers : WF_vars(Update({t}))
            /\ WF_vars(parse_msg) /\ WF_vars(udpReceive)
            /\ WF_vars(HomingDone) /\ WF_vars(Turn)

FairSpec == Spec /\ Fairness

-----------------------------------------------------------------------------
(* Properties.                                                             *)

(* Every variable keeps its type.                                          *)
TypeOK == /\ position \in Position /\ defaultDegree \in Defaults
          /\ ipod \in IPod
          /\ wire \in Seq(Commands)
          /\ message \in Commands \union {NoCommand}
          /\ last_temp_ID \in Commands \union {NoCommand}
          /\ motorTask \in {0, 1, 2, 4} /\ doHoming \in BOOLEAN
          /\ losses \in 0 .. MaxLosses /\ inDoubt \in BOOLEAN

(* With all commands obeyed, the iPod is right about the motor, although   *)
(* it is never told: commands overwritten or ignored on the Arduino, and   *)
(* those that wait for a homing to end, change nothing of that.  A single  *)
(* stop that gets through settles what losses and the operator have put in *)
(* doubt.                                                                  *)
Settled == wire = <<>> /\ message = last_temp_ID /\ ~doHoming

RightAboutMotor ==
  initDone /\ Settled /\ ~inDoubt => (ipod.motorStopped <=> motorTask = 0)

(* The table comes to rest when nobody comes any more, unless a command of *)
(* the last visit was lost or an operator has been at it since.            *)
LeftAlone == initDone /\ ~ipod.showGui /\ ~ipod.doRotate /\ ~inDoubt

ComesToRest == <>[]LeftAlone => <>[](motorTask = 0)

(* A visitor who is noticed sets the band in motion, and it moves before   *)
(* the visit is over: not just on its way back to the default position.    *)
Undisturbed == initDone /\ ~ipod.showGui /\ ~inDoubt

VisitorMovesBand ==
  (Undisturbed /\ ipod.noticedNow)
     ~> (ipod.personPresent /\ motorTask # 0) \/ ~Undisturbed
=============================================================================
