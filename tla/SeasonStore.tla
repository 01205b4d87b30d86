---------------------------- MODULE SeasonStore -----------------------------
(***************************************************************************)
(* The settings of the Flatsun application through a change of season, an  *)
(* edit, the home button, a reset to the defaults, a quit and a crash: a   *)
(* live parameter of Sphere, LedPanel, ReactDiffuse, RDColor or Perlin,    *)
(* its season[] array, the swing from one season to the next, and          *)
(* Settings.plist.                                                         *)
(*                                                                         *)
(* The module follows one of the parameters that swing, whichever: they    *)
(* share seasonI and swing.active and nothing else.  It is of a kind that  *)
(* never changes.  An angle (sceneRx, sceneRz) and a zoom (camZ, fov) are  *)
(* of the scene: they know where they swing to, and the home button turns  *)
(* an angle.  A look (halo, reaction diffusion, Perlin noise) has a start  *)
(* and an end as well, but copyVarsToSeason writes the live value.  The    *)
(* two colour dividers are neither: setSwingEndVars gives them one end     *)
(* between them.                                                           *)
(*                                                                         *)
(* The render thread holds a recursive lock for the whole of a frame.  On  *)
(* the main thread setSeasonI, the reset and the setters of the scene take *)
(* it: each is one step.  The setters of the look do not, but write one    *)
(* variable.  The home button's handler takes it only in the setters it    *)
(* calls: what it reads and writes besides are steps, which come between   *)
(* those of a frame.                                                       *)
(***************************************************************************)
EXTENDS Integers

CONSTANTS
  Seasons,         (* 0 .. SEASONS, 0 the season of transitions            *)
  Values,          (* of a parameter, floats in the code                   *)
  Home,            (* Where the home button turns an angle: 0.             *)
  Default          (* Defaults.plist                                       *)

Kinds == {"angle", "zoom", "look"}

ASSUME StoreAssumption == /\ 1 \in Seasons
                          /\ Values \subseteq Int /\ Home \in Values
                          /\ Default \in [Seasons -> Values]

VARIABLES
  kind,            (* What the parameter is; it stays so.                  *)
  running,         (* The application runs.                                *)
  seasonI,
  live,            (* The parameter, as the picture is rendered with it.   *)
  swing,           (* Sphere.swing, of this parameter.                     *)
  season,          (* Its season[] array.                                  *)
  plist,           (* Settings.plist                                       *)
  frame,           (* Where the render thread is in a frame of a swing,    *)
                   (* and the value it is about to set.                    *)
  home,            (* Where the main thread is in homeBtnClicked, and the  *)
                   (* value it has read.                                   *)
  astray           (* History: the home button has read the parameter in   *)
                   (* mid-swing, and it has not come to rest properly.     *)

vars == <<kind, running, seasonI, live, swing, season, plist, frame, home, astray>>

FrameFree == [pc |-> "free", v |-> Home]
HomeIdle == [pc |-> "idle", v |-> Home]

(* The lock is free, and the main thread in no handler.                    *)
Unlocked == frame.pc = "free" /\ home.pc = "idle"

(* The picture still has to go where it swings to.                         *)
OnItsWay == swing.active /\ frame.pc # "set"

-----------------------------------------------------------------------------
(* Mutants: the setters never set the end of the swing, or always do.      *)
EndSet_Never(v) == swing.end
EndSet_Always(v) == IF kind = "look" THEN swing.end ELSE v

(* setSceneRx and the like: outside a swing they set its end too.          *)
EndSet(v) == IF kind = "look" \/ swing.active THEN swing.end ELSE v

SetTo(v) ==
  /\ live' = v
  /\ swing' = [swing EXCEPT !.end = EndSet(v)]

(* startSwing, from the value p to the value q.                            *)
StartSwing(p, q) == [active |-> TRUE, start |-> p, end |-> q]

(* copyVarsToSeason: which value a season is given, of the live one p and  *)
(* the end of the swing.                                                   *)
Stored(p, end) == IF kind = "look" THEN p ELSE end

(* setSeasonI, of a live value p, a swing end and a season array that the  *)
(* caller may have changed before.                                         *)
ChangeSeason(s, p, end, seasons) ==
  LET stored == [seasons EXCEPT ![seasonI] = Stored(p, end)]
  IN  /\ seasonI' = s
      /\ season' = stored
      /\ live' = stored[s]
      /\ swing' = StartSwing(p, stored[s])
      /\ astray' = FALSE

SetSeasonI(s) ==
  /\ running /\ Unlocked
  /\ ChangeSeason(s, live, swing.end, season)
  /\ UNCHANGED <<kind, running, plist, frame, home>>

(* A control bound to a parameter of the scene, or the mouse in the view.  *)
EditScene(v) ==
  /\ running /\ kind # "look" /\ Unlocked
  /\ SetTo(v)
  /\ astray' = (astray /\ OnItsWay)
  /\ UNCHANGED <<kind, running, seasonI, season, plist, frame, home>>

(* A control bound to a parameter of the look.                             *)
EditLook(v) ==
  /\ running /\ kind = "look" /\ home.pc = "idle"
  /\ live' = v
  /\ astray' = (astray /\ OnItsWay)
  /\ UNCHANGED <<kind, running, seasonI, swing, season, plist, frame, home>>

(* defaultsBtnClicked, confirmed: loadAll, then the same season again.     *)
Defaults ==
  /\ running /\ Unlocked
  /\ ChangeSeason(seasonI, Default[seasonI], EndSet(Default[seasonI]), Default)
  /\ UNCHANGED <<kind, running, plist, frame, home>>

-----------------------------------------------------------------------------
(* A frame of a swing: updateSwing takes the value the parameter goes to,  *)
(* which is the end of the swing when its time is over, and sets it; then  *)
(* endSwing, all parameters set, ends the swing.                           *)
Between(a, b) == { v \in Values : (a <= v /\ v <= b) \/ (b <= v /\ v <= a) }

FrameTakes ==
  /\ running /\ swing.active /\ frame.pc = "free"
  /\ \/ /\ \E v \in Between(swing.start, swing.end) :
             frame' = [pc |-> "moving", v |-> v]
        /\ UNCHANGED astray
     \/ /\ frame' = [pc |-> "ending", v |-> swing.end]
        /\ astray' = (astray /\ home.pc \in {"taken", "written"})
  /\ UNCHANGED <<kind, running, seasonI, live, swing, season, plist, home>>

FrameSets ==
  /\ running /\ frame.pc \in {"moving", "ending"}
  /\ SetTo(frame.v)
  /\ frame' = IF frame.pc = "moving" THEN FrameFree ELSE [pc |-> "set", v |-> Home]
  /\ UNCHANGED <<kind, running, seasonI, season, plist, home, astray>>

EndSwing ==
  /\ running /\ frame.pc = "set"
  /\ swing' = [swing EXCEPT !.active = FALSE]
  /\ frame' = FrameFree
  /\ UNCHANGED <<kind, running, seasonI, live, season, plist, home, astray>>

-----------------------------------------------------------------------------
(* homeBtnClicked, of GLView: setSwingStartVars; the setters, for which it *)
(* waits for the lock; and startSwing, which takes where the picture is    *)
(* for where it goes to.                                                   *)
HomeStep(from, to, v) ==
  /\ running /\ home.pc = from
  /\ home' = [pc |-> to, v |-> v]
  /\ UNCHANGED <<kind, running, seasonI, season, plist, frame>>

HomeClicked ==
  /\ HomeStep("idle", "clicked", Home)
  /\ swing' = [swing EXCEPT !.start = live]
  /\ UNCHANGED <<live, astray>>

HomeTurns ==
  /\ HomeStep("clicked", "turned", Home) /\ frame.pc = "free"
  /\ \/ kind = "angle" /\ SetTo(Home) /\ astray' = (astray /\ OnItsWay)
     \/ kind # "angle" /\ UNCHANGED <<live, swing, astray>>

HomeTakes ==
  /\ HomeStep("turned", "taken", live)
  /\ astray' = (astray \/ OnItsWay)
  /\ UNCHANGED <<live, swing>>

HomeWrites ==
  /\ HomeStep("taken", "written", Home)
  /\ swing' = [swing EXCEPT !.end = home.v]
  /\ UNCHANGED <<live, astray>>

HomeStarts ==
  /\ HomeStep("written", "idle", Home)
  /\ swing' = [swing EXCEPT !.active = TRUE]
  /\ UNCHANGED <<live, astray>>

HomeBtnClicked == HomeClicked \/ HomeTurns \/ HomeTakes \/ HomeWrites \/ HomeStarts

-----------------------------------------------------------------------------
(* applicationWillTerminate, the render thread stopped: shutDown stores    *)
(* the season, and saveSettings of Sphere ends a swing before it writes.   *)
ShutDown ==
  /\ running /\ running' = FALSE /\ Unlocked
  /\ season' = [season EXCEPT ![seasonI] = Stored(live, swing.end)]
  /\ plist' = season'
  /\ live' = IF swing.active THEN swing.end ELSE live
  /\ swing' = [swing EXCEPT !.active = FALSE]
  /\ UNCHANGED <<kind, seasonI, frame, home, astray>>

(* The power goes, or the process is killed: nothing is saved.             *)
Crash ==
  /\ running /\ running' = FALSE
  /\ UNCHANGED <<kind, seasonI, live, swing, season, plist, frame, home, astray>>

(* applicationDidFinishLaunching: the settings are loaded, season 1 is     *)
(* taken up, then the first season is chosen, which swings to it from 1.   *)
Launch(s) ==
  /\ ~running /\ running' = TRUE
  /\ seasonI' = s
  /\ season' = plist
  /\ live' = plist[s]
  /\ swing' = StartSwing(plist[1], plist[s])
  /\ frame' = FrameFree /\ home' = HomeIdle /\ astray' = FALSE
  /\ UNCHANGED <<kind, plist>>

-----------------------------------------------------------------------------
Init ==
  /\ kind \in Kinds
  /\ running = FALSE
  /\ seasonI = 1
  /\ plist \in [Seasons -> Values]
  /\ season = plist
  /\ live = plist[1]
  /\ swing = [active |-> FALSE, start |-> plist[1], end |-> plist[1]]
  /\ frame = FrameFree /\ home = HomeIdle /\ astray = FALSE

Next ==
  \/ FrameTakes \/ FrameSets \/ EndSwing
  \/ HomeBtnClicked
  \/ Defaults \/ ShutDown \/ Crash
  \/ \E s \in Seasons : SetSeasonI(s) \/ Launch(s)
  \/ \E v \in Values : EditScene(v) \/ EditLook(v)

Spec == Init /\ [][Next]_vars

-----------------------------------------------------------------------------
(* Properties.                                                             *)
TypeOK ==
  /\ kind \in Kinds
  /\ running \in BOOLEAN
  /\ seasonI \in Seasons
  /\ live \in Values
  /\ swing \in [active : BOOLEAN, start : Values, end : Values]
  /\ season \in [Seasons -> Values]
  /\ plist \in [Seasons -> Values]
  /\ frame \in [pc : {"free", "moving", "ending", "set"}, v : Values]
  /\ home \in [pc : {"idle", "clicked", "turned", "taken", "written"}, v : Values]
  /\ astray \in BOOLEAN

(* Once the picture has arrived, where it swung to is where it is: what    *)
(* copyVarsToSeason takes from swing.end* is the scene that is seen, after *)
(* any order of edits, swings cut short, resets and clicks on the home     *)
(* button; but for one whose startSwing and the end of a swing, which the  *)
(* lock does not keep apart, have crossed (GLView.m:704-710).              *)
ArrivedScene == kind # "look" /\ ~OnItsWay /\ ~astray => live = swing.end

(* SeasonBook: a season has the scene that was edited into it last, while  *)
(* it was shown and had arrived, through changes of season in mid-swing,   *)
(* quits and restarts; its look is only lost by leaving it in mid-swing;   *)
(* and either is, when the home button is clicked in mid-swing.            *)
Page == [s \in Seasons |-> IF s # seasonI THEN season[s]
                           ELSE IF OnItsWay THEN swing.end ELSE Stored(live, swing.end)]

Book == INSTANCE SeasonBook WITH
          current <- seasonI, swinging <- running /\ OnItsWay, page <- Page,
          saved <- plist

KeepsTheBook == Book!Spec

-----------------------------------------------------------------------------
(* The inductive invariant: unless it is astray, an ending swing sets what *)
(* is still its end, and the home button takes a picture that has arrived. *)
FrameInv == /\ frame.pc # "free" => swing.active
            /\ frame.pc = "ending" /\ ~astray
                 => frame.v = swing.end /\ home.pc \notin {"taken", "written"}

HomeInv == ~astray => /\ home.pc = "taken" => ~OnItsWay /\ home.v = live
                      /\ home.pc = "written" => ~OnItsWay /\ swing.end = live

StoreInv == TypeOK /\ ArrivedScene /\ FrameInv /\ HomeInv

=============================================================================
