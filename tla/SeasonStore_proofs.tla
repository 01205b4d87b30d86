------------------------- MODULE SeasonStore_proofs -------------------------
(***************************************************************************)
(* SeasonStore implements SeasonBook, for a parameter of any kind and any  *)
(* seasons, values and defaults.                                           *)
(*                                                                         *)
(* The argument is about the one pair of handlers that the lock does not   *)
(* keep apart.  Unless the home button has read the parameter in mid-swing *)
(* (astray), an ending swing sets what is still its end (FrameInv), and    *)
(* what startSwing takes for the end is the value of a picture that has    *)
(* arrived (HomeInv); so an arrived scene is the end of its swing.         *)
(***************************************************************************)
EXTENDS SeasonStore, TLAPS

Frames == [pc : {"free", "moving", "ending", "set"}, v : Values]
Homes == [pc : {"idle", "clicked", "turned", "taken", "written"}, v : Values]
Swings == [active : BOOLEAN, start : Values, end : Values]

(* What a setter makes of a value.                                         *)
LEMMA SetTyped ==
  ASSUME TypeOK, NEW v \in Values, SetTo(v)
  PROVE  /\ live' = v /\ live' \in Values /\ swing' \in Swings
         /\ swing'.active = swing.active /\ swing'.start = swing.start
         /\ swing'.end = IF kind = "look" \/ swing.active THEN swing.end ELSE v
BY DEF SetTo, EndSet, TypeOK, Swings

(* What a change of season makes of values.                                *)
LEMMA ChangeTyped ==
  ASSUME TypeOK, NEW s \in Seasons, NEW p \in Values, NEW end \in Values,
         NEW seasons \in [Seasons -> Values], ChangeSeason(s, p, end, seasons)
  PROVE  /\ seasonI' \in Seasons /\ live' \in Values /\ swing' \in Swings
         /\ season' \in [Seasons -> Values] /\ astray' = FALSE
         /\ swing'.active = TRUE /\ swing'.end = live'
BY DEF TypeOK, ChangeSeason, StartSwing, Stored, Swings

(* A step of the home button's handler.                                    *)
LEMMA HomeStepTyped ==
  ASSUME TypeOK, NEW from, NEW v \in Values,
         NEW to \in {"idle", "clicked", "turned", "taken", "written"},
         HomeStep(from, to, v)
  PROVE  /\ home' \in Homes /\ home'.pc = to /\ home'.v = v
         /\ UNCHANGED <<kind, running, seasonI, season, plist, frame>>
BY DEF HomeStep, Homes

-----------------------------------------------------------------------------
(* The parameters keep their types.                                        *)
LEMMA StoreTypes == TypeOK /\ [Next]_vars => TypeOK'
<1>. SUFFICES ASSUME TypeOK, [Next]_vars PROVE TypeOK'
  OBVIOUS
<1>. USE StoreAssumption
<1>1. CASE FrameTakes
  <2>1. PICK v \in Values : \/ frame' = [pc |-> "moving", v |-> v] /\ astray' = astray
                           \/ /\ frame' = [pc |-> "ending", v |-> v]
                              /\ astray' = (astray /\ home.pc \in {"taken", "written"})
    BY <1>1 DEF FrameTakes, Between, TypeOK
  <2>3. frame' \in Frames
    BY <2>1 DEF Frames
  <2>4. astray' \in BOOLEAN
    BY <2>1 DEF TypeOK
  <2>. QED BY <1>1, <2>3, <2>4 DEF FrameTakes, TypeOK, Frames
<1>2. CASE FrameSets
  <2>1. live' \in Values /\ swing' \in Swings
    BY <1>2, SetTyped DEF FrameSets, TypeOK
  <2>2. frame' \in Frames
    BY <1>2 DEF FrameSets, FrameFree, Frames
  <2>. QED BY <1>2, <2>1, <2>2 DEF FrameSets, TypeOK, Frames, Swings
<1>3. CASE EndSwing
  BY <1>3 DEF EndSwing, FrameFree, TypeOK
<1>4. CASE HomeBtnClicked
  <2>1. home' \in Homes /\ UNCHANGED <<kind, running, seasonI, season, plist, frame>>
    BY <1>4, HomeStepTyped DEF HomeBtnClicked, HomeClicked, HomeTurns, HomeTakes,
         HomeWrites, HomeStarts, TypeOK
  <2>2. live' \in Values /\ swing' \in Swings /\ astray' \in BOOLEAN
    <3>1. CASE HomeClicked
      BY <3>1 DEF HomeClicked, TypeOK, Swings
    <3>2. CASE HomeTurns
      BY <3>2, SetTyped DEF HomeTurns, TypeOK, Swings
    <3>3. CASE HomeTakes
      BY <3>3 DEF HomeTakes, TypeOK, Swings
    <3>4. CASE HomeWrites
      BY <3>4 DEF HomeWrites, TypeOK, Swings
    <3>5. CASE HomeStarts
      BY <3>5 DEF HomeStarts, TypeOK, Swings
    <3>. QED BY <1>4, <3>1, <3>2, <3>3, <3>4, <3>5 DEF HomeBtnClicked
  <2>. QED BY <2>1, <2>2 DEF TypeOK, Homes, Swings
<1>5. CASE Defaults
  <2>1. Default[seasonI] \in Values /\ EndSet(Default[seasonI]) \in Values
    BY DEF TypeOK, EndSet
  <2>. QED BY <1>5, <2>1, ChangeTyped DEF Defaults, TypeOK, Swings
<1>6. CASE ShutDown
  BY <1>6 DEF ShutDown, Stored, TypeOK
<1>7. CASE Crash
  BY <1>7 DEF Crash, TypeOK
<1>8. ASSUME NEW s \in Seasons, SetSeasonI(s) PROVE TypeOK'
  <2>1. ChangeSeason(s, live, swing.end, season) /\ swing.end \in Values
    BY <1>8 DEF SetSeasonI, TypeOK
  <2>. QED BY <1>8, <2>1, ChangeTyped DEF SetSeasonI, TypeOK, Swings
<1>9. ASSUME NEW s \in Seasons, Launch(s) PROVE TypeOK'
  BY <1>9 DEF Launch, StartSwing, FrameFree, HomeIdle, TypeOK
<1>10. ASSUME NEW v \in Values, EditScene(v) PROVE TypeOK'
  BY <1>10, SetTyped DEF EditScene, TypeOK, Swings
<1>11. ASSUME NEW v \in Values, EditLook(v) PROVE TypeOK'
  BY <1>11 DEF EditLook, TypeOK
<1>12. CASE UNCHANGED vars
  BY <1>12 DEF vars, TypeOK
<1>. QED
  BY <1>1, <1>2, <1>3, <1>4, <1>5, <1>6, <1>7, <1>8, <1>9, <1>10, <1>11, <1>12 DEF Next

(* And what is said of the two handlers and of an arrived scene.           *)
Crossing == ArrivedScene /\ FrameInv /\ HomeInv

LEMMA StoreCrossing == TypeOK /\ Crossing /\ [Next]_vars => Crossing'
<1>. SUFFICES ASSUME TypeOK, Crossing, [Next]_vars PROVE Crossing'
  OBVIOUS
<1>. USE DEF Crossing
<1>1. CASE FrameTakes
  <2>1. /\ swing.active /\ frame.pc = "free" /\ frame'.pc \in {"moving", "ending"}
        /\ frame'.pc = "ending" => frame'.v = swing.end
        /\ ~astray => ~astray'
        /\ astray /\ ~astray' => frame'.pc = "ending" /\ home.pc \notin {"taken", "written"}
        /\ UNCHANGED <<kind, live, swing, home>>
    <3>1. CASE \E v \in Values : frame' = [pc |-> "moving", v |-> v] /\ astray' = astray
      <4>1. frame'.pc = "moving" /\ astray' = astray
        BY <3>1
      <4>. QED BY <1>1, <4>1 DEF FrameTakes
    <3>2. CASE /\ frame' = [pc |-> "ending", v |-> swing.end]
               /\ astray' = (astray /\ home.pc \in {"taken", "written"})
      <4>1. frame'.pc = "ending" /\ frame'.v = swing.end
        BY <3>2
      <4>2. astray' <=> astray /\ home.pc \in {"taken", "written"}
        BY <3>2 DEF TypeOK
      <4>. QED BY <1>1, <4>1, <4>2 DEF FrameTakes
    <3>. QED BY <1>1, <3>1, <3>2 DEF FrameTakes, Between
  <2>2. OnItsWay /\ OnItsWay'
    BY <2>1 DEF OnItsWay
  <2>3. CASE astray
    BY <2>1, <2>2, <2>3 DEF ArrivedScene, FrameInv, HomeInv
  <2>4. CASE ~astray
    <3>1. ~astray' /\ home.pc \notin {"taken", "written"}
      BY <2>1, <2>2, <2>4 DEF HomeInv
    <3>. QED BY <2>1, <2>2, <2>4, <3>1 DEF ArrivedScene, FrameInv, HomeInv
  <2>. QED BY <2>3, <2>4
<1>2. CASE FrameSets
  <2>1. /\ frame.pc \in {"moving", "ending"} /\ swing.active
        /\ live' = frame.v /\ swing'.active = swing.active /\ swing'.end = swing.end
        /\ frame'.pc = (IF frame.pc = "moving" THEN "free" ELSE "set")
        /\ UNCHANGED <<kind, home, astray>>
    BY <1>2, SetTyped DEF FrameSets, FrameFree, FrameInv, TypeOK
  <2>2. OnItsWay /\ (OnItsWay' <=> frame.pc = "moving")
    BY <2>1 DEF OnItsWay
  <2>. QED BY <2>1, <2>2 DEF ArrivedScene, FrameInv, HomeInv
<1>3. CASE EndSwing
  <2>1. /\ frame.pc = "set" /\ swing'.active = FALSE /\ swing'.end = swing.end
        /\ frame'.pc = "free" /\ UNCHANGED <<kind, live, home, astray>>
    BY <1>3 DEF EndSwing, FrameFree, TypeOK
  <2>2. ~OnItsWay /\ ~OnItsWay'
    BY <2>1 DEF OnItsWay
  <2>. QED BY <2>1, <2>2 DEF ArrivedScene, FrameInv, HomeInv
<1>4. CASE HomeClicked
  <2>1. /\ home.pc = "idle" /\ home'.pc = "clicked"
        /\ swing'.active = swing.active /\ swing'.end = swing.end
        /\ UNCHANGED <<kind, live, frame, astray>>
    BY <1>4 DEF HomeClicked, HomeStep, TypeOK
  <2>. QED BY <2>1 DEF ArrivedScene, FrameInv, HomeInv, OnItsWay
<1>5. CASE HomeTurns
  <2>1. /\ home.pc = "clicked" /\ home'.pc = "turned" /\ frame.pc = "free"
        /\ UNCHANGED <<kind, frame>>
    BY <1>5 DEF HomeTurns, HomeStep
  <2>2. CASE kind = "angle" /\ SetTo(Home) /\ astray' = (astray /\ OnItsWay)
    <3>1. /\ live' = Home /\ swing'.active = swing.active
          /\ ~swing.active => swing'.end = Home
      BY <2>2, SetTyped, StoreAssumption
    <3>. QED BY <2>1, <2>2, <3>1 DEF ArrivedScene, FrameInv, HomeInv, OnItsWay
  <2>3. CASE UNCHANGED <<live, swing, astray>>
    BY <2>1, <2>3 DEF ArrivedScene, FrameInv, HomeInv, OnItsWay
  <2>. QED BY <1>5, <2>2, <2>3 DEF HomeTurns
<1>6. CASE HomeTakes
  <2>1. /\ home.pc = "turned" /\ home'.pc = "taken" /\ home'.v = live
        /\ astray' = (astray \/ OnItsWay)
        /\ UNCHANGED <<kind, live, swing, frame>>
    BY <1>6 DEF HomeTakes, HomeStep
  <2>2. frame.pc = "ending" => OnItsWay
    BY <2>1 DEF FrameInv, OnItsWay
  <2>. QED BY <2>1, <2>2 DEF ArrivedScene, FrameInv, HomeInv, OnItsWay
<1>7. CASE HomeWrites
  <2>1. /\ home.pc = "taken" /\ home'.pc = "written"
        /\ swing'.active = swing.active /\ swing'.end = home.v
        /\ UNCHANGED <<kind, live, frame, astray>>
    BY <1>7 DEF HomeWrites, HomeStep, TypeOK
  <2>2. OnItsWay' <=> OnItsWay
    BY <2>1 DEF OnItsWay
  <2>. QED BY <2>1, <2>2 DEF ArrivedScene, FrameInv, HomeInv
<1>8. CASE HomeStarts
  <2>1. /\ home.pc = "written" /\ home'.pc = "idle"
        /\ swing'.active = TRUE /\ swing'.end = swing.end
        /\ UNCHANGED <<kind, live, frame, astray>>
    BY <1>8 DEF HomeStarts, HomeStep, TypeOK
  <2>2. frame.pc = "set" => ~OnItsWay /\ ~OnItsWay'
    BY <2>1 DEF OnItsWay
  <2>. QED BY <2>1, <2>2 DEF ArrivedScene, FrameInv, HomeInv, OnItsWay
<1>9. ASSUME NEW s \in Seasons, SetSeasonI(s) \/ (Defaults /\ s = seasonI)
      PROVE  Crossing'
  <2>1. /\ swing'.active = TRUE /\ frame'.pc = "free" /\ home'.pc = "idle"
        /\ kind' = kind
    BY <1>9 DEF SetSeasonI, Defaults, ChangeSeason, StartSwing, Unlocked
  <2>. QED BY <2>1 DEF ArrivedScene, FrameInv, HomeInv, OnItsWay
<1>10. ASSUME NEW s \in Seasons, Launch(s) PROVE Crossing'
  <2>1. swing'.active = TRUE /\ frame'.pc = "free" /\ home'.pc = "idle" /\ kind' = kind
    BY <1>10 DEF Launch, StartSwing, FrameFree, HomeIdle
  <2>. QED BY <2>1 DEF ArrivedScene, FrameInv, HomeInv, OnItsWay
<1>11. CASE ShutDown
  <2>1. /\ frame.pc = "free" /\ home.pc = "idle" /\ swing'.active = FALSE
        /\ swing'.end = swing.end /\ live' = (IF swing.active THEN swing.end ELSE live)
        /\ UNCHANGED <<kind, frame, home, astray>>
    BY <1>11 DEF ShutDown, Unlocked, TypeOK
  <2>. QED BY <2>1 DEF ArrivedScene, FrameInv, HomeInv, OnItsWay
<1>12. ASSUME NEW v \in Values, EditScene(v) PROVE Crossing'
  <2>1. /\ frame.pc = "free" /\ home.pc = "idle" /\ live' = v
        /\ swing'.active = swing.active /\ (~swing.active => swing'.end = v)
        /\ astray' = (astray /\ OnItsWay) /\ UNCHANGED <<kind, frame, home>>
    BY <1>12, SetTyped DEF EditScene, Unlocked
  <2>. QED BY <2>1 DEF ArrivedScene, FrameInv, HomeInv, OnItsWay
<1>13. ASSUME NEW v \in Values, EditLook(v) PROVE Crossing'
  <2>1. /\ kind = "look" /\ home.pc = "idle" /\ UNCHANGED <<kind, swing, frame, home>>
        /\ astray' = (astray /\ OnItsWay)
    BY <1>13 DEF EditLook
  <2>2. frame.pc = "ending" => OnItsWay
    BY DEF FrameInv, OnItsWay
  <2>. QED BY <2>1, <2>2 DEF ArrivedScene, FrameInv, HomeInv, OnItsWay
<1>14. CASE Crash
  BY <1>14 DEF Crash, ArrivedScene, FrameInv, HomeInv, OnItsWay
<1>15. CASE UNCHANGED vars
  BY <1>15 DEF vars, ArrivedScene, FrameInv, HomeInv, OnItsWay
<1>16. Defaults => \E s \in Seasons : Defaults /\ s = seasonI
  BY DEF TypeOK
<1>. QED
  BY <1>1, <1>2, <1>3, <1>4, <1>5, <1>6, <1>7, <1>8, <1>9, <1>10, <1>11, <1>12, <1>13,
     <1>14, <1>15, <1>16 DEF Next, HomeBtnClicked

(* The inductive invariant, for any kind, seasons, values and defaults.    *)
THEOREM StoreInvariance == Spec => []StoreInv
<1>1. Init => StoreInv
  <2>. SUFFICES ASSUME Init PROVE StoreInv
    OBVIOUS
  <2>1. /\ frame = FrameFree /\ frame.pc = "free" /\ frame.v = Home
        /\ home = HomeIdle /\ home.pc = "idle" /\ home.v = Home
        /\ live = plist[1] /\ swing.end = plist[1]
    BY DEF Init, FrameFree, HomeIdle
  <2>2. plist[1] \in Values
    BY StoreAssumption DEF Init
  <2>3. TypeOK
    BY <2>1, <2>2, StoreAssumption DEF Init, TypeOK, FrameFree, HomeIdle
  <2>. QED
    BY <2>1, <2>3 DEF StoreInv, ArrivedScene, FrameInv, HomeInv
<1>2. StoreInv /\ [Next]_vars => StoreInv'
  BY StoreTypes, StoreCrossing DEF StoreInv, Crossing
<1>. QED  BY <1>1, <1>2, PTL DEF Spec

(* The variables of the store keep their types (Sphere.m:203-277).         *)
THEOREM StoreTypeCorrect == Spec => []TypeOK
BY StoreInvariance, PTL DEF StoreInv

(* A picture that has arrived is where its swing went, unless a click on   *)
(* the home button took it for another's end (Sphere.m:242-277).           *)
THEOREM SceneArrives == Spec => []ArrivedScene
BY StoreInvariance, PTL DEF StoreInv

-----------------------------------------------------------------------------
(* The store keeps a book.  Its page of the current season is Shown.       *)
Shown == IF OnItsWay THEN swing.end ELSE Stored(live, swing.end)

LEMMA PageIs ==
  ASSUME TypeOK
  PROVE  Page = [season EXCEPT ![seasonI] = Shown] /\ Page[seasonI] = Shown /\ Shown \in Values
BY DEF TypeOK, Page, Shown, Stored

LEMMA PageWillBe ==
  ASSUME TypeOK'
  PROVE  Page' = [season' EXCEPT ![seasonI'] = Shown'] /\ Shown' \in Values
BY DEF TypeOK, Page, Shown, Stored

(* As long as the seasons are not written, only Shown may change.          *)
LEMMA PageOfStep ==
  ASSUME TypeOK, TypeOK', UNCHANGED <<seasonI, season>>
  PROVE  /\ Page' = [Page EXCEPT ![seasonI] = Shown']
         /\ Shown' = Shown => Page' = Page
         /\ Page' \in Book!Blurred
<1>1. Page' = [season EXCEPT ![seasonI] = Shown'] /\ Shown' \in Values
  BY PageWillBe
<1>2. Page = [season EXCEPT ![seasonI] = Shown]
  BY PageIs
<1>3. Page' = [Page EXCEPT ![seasonI] = Shown']
  BY <1>1, <1>2 DEF TypeOK
<1>. QED BY <1>1, <1>2, <1>3 DEF Book!Blurred

(* A frame turns no page, except that it settles a picture gone astray.    *)
LEMMA FrameStep ==
  ASSUME StoreInv, StoreInv', FrameTakes \/ FrameSets \/ EndSwing
  PROVE  Book!Next \/ UNCHANGED Book!vars
<1>. USE DEF StoreInv
<1>0. /\ running /\ UNCHANGED <<kind, running, seasonI, season, plist>>
      /\ Shown' = Shown => Page' = Page
      /\ Page' \in Book!Blurred
  BY PageOfStep DEF FrameTakes, FrameSets, EndSwing
<1>1. CASE FrameTakes
  <2>1. /\ OnItsWay /\ OnItsWay' /\ UNCHANGED <<live, swing>>
        /\ astray' = astray \/ (astray /\ ~astray')
    BY <1>1 DEF FrameTakes, OnItsWay, TypeOK
  <2>2. Shown' = Shown
    BY <2>1 DEF Shown
  <2>3. CASE astray' = astray
    BY <1>0, <2>1, <2>2, <2>3 DEF Book!vars
  <2>4. CASE astray /\ ~astray'
    BY <1>0, <2>1, <2>2, <2>4 DEF Book!Next, Book!Settle
  <2>. QED BY <2>1, <2>3, <2>4
<1>2. CASE FrameSets
  <2>1. /\ frame.pc \in {"moving", "ending"} /\ swing.active
        /\ live' = frame.v /\ swing'.active /\ swing'.end = swing.end
        /\ frame'.pc = (IF frame.pc = "moving" THEN "free" ELSE "set")
        /\ astray' = astray
    BY <1>2, SetTyped DEF FrameSets, FrameFree, FrameInv, TypeOK
  <2>2. OnItsWay /\ (OnItsWay' <=> frame.pc = "moving")
    BY <2>1 DEF OnItsWay
  <2>3. CASE frame.pc = "moving"
    <3>1. Shown' = Shown
      BY <2>1, <2>2, <2>3 DEF Shown
    <3>. QED BY <1>0, <2>1, <2>2, <2>3, <3>1 DEF Book!vars
  <2>4. CASE frame.pc = "ending"
    <3>1. ~astray => Shown' = Shown
      BY <1>0, <2>1, <2>2, <2>4 DEF Shown, Stored, FrameInv
    <3>2. Page' \in Book!OnItsWay
      BY <1>0, <3>1 DEF Book!OnItsWay
    <3>. QED BY <1>0, <2>1, <2>2, <2>4, <3>2 DEF Book!Next, Book!Arrive
  <2>. QED BY <2>1, <2>3, <2>4
<1>3. CASE EndSwing
  <2>1. /\ frame.pc = "set" /\ swing'.active = FALSE /\ swing'.end = swing.end
        /\ UNCHANGED <<live, astray>>
    BY <1>3 DEF EndSwing, TypeOK
  <2>2. ~OnItsWay /\ ~OnItsWay'
    BY <2>1 DEF OnItsWay
  <2>3. Shown' = Shown
    BY <1>0, <2>1, <2>2 DEF Shown, Stored
  <2>. QED BY <1>0, <2>1, <2>2, <2>3 DEF Book!vars
<1>. QED BY <1>1, <1>2, <1>3

(* Nor does the home button, but at rest, or once it has sent the picture  *)
(* astray.                                                                 *)
LEMMA HomeBookStep ==
  ASSUME StoreInv, StoreInv', HomeBtnClicked
  PROVE  Book!Next \/ UNCHANGED Book!vars
<1>. USE DEF StoreInv
<1>0. /\ running /\ UNCHANGED <<kind, running, seasonI, season, plist, frame>>
      /\ Page' = [Page EXCEPT ![seasonI] = Shown']
      /\ Shown' = Shown => Page' = Page
      /\ Page' \in Book!Blurred
  BY PageOfStep DEF HomeBtnClicked, HomeClicked, HomeTurns, HomeTakes, HomeWrites,
       HomeStarts, HomeStep
<1>1. CASE HomeClicked
  <2>1. /\ swing'.active = swing.active /\ swing'.end = swing.end
        /\ UNCHANGED <<live, astray>>
    BY <1>1 DEF HomeClicked, TypeOK
  <2>2. (OnItsWay' <=> OnItsWay) /\ Shown' = Shown
    BY <1>0, <2>1 DEF OnItsWay, Shown, Stored
  <2>. QED BY <1>0, <2>1, <2>2 DEF Book!vars
<1>2. CASE HomeTurns
  <2>1. CASE UNCHANGED <<live, swing, astray>>
    <3>1. (OnItsWay' <=> OnItsWay) /\ Shown' = Shown
      BY <1>0, <2>1 DEF OnItsWay, Shown, Stored
    <3>. QED BY <1>0, <2>1, <3>1 DEF Book!vars
  <2>2. CASE kind = "angle" /\ SetTo(Home) /\ astray' = (astray /\ OnItsWay)
    <3>1. /\ frame.pc = "free" /\ swing'.active = swing.active
          /\ swing'.end = IF swing.active THEN swing.end ELSE Home
      BY <1>2, <2>2, SetTyped, StoreAssumption DEF HomeTurns
    <3>2. OnItsWay' <=> OnItsWay
      BY <1>0, <3>1 DEF OnItsWay
    <3>3. CASE OnItsWay
      <4>1. Shown' = Shown /\ astray' = astray
        BY <2>2, <3>1, <3>2, <3>3 DEF Shown, OnItsWay, TypeOK
      <4>. QED BY <1>0, <3>2, <4>1 DEF Book!vars
    <3>4. CASE ~OnItsWay
      <4>1. Shown' = Home
        BY <1>0, <2>2, <3>1, <3>2, <3>4 DEF Shown, OnItsWay, Stored
      <4>2. Book!Edit(Home)
        BY <1>0, <2>2, <3>2, <3>4, <4>1 DEF Book!Edit
      <4>. QED BY <4>2, StoreAssumption DEF Book!Next
    <3>. QED BY <3>3, <3>4
  <2>. QED BY <1>2, <2>1, <2>2 DEF HomeTurns
<1>3. CASE HomeTakes
  <2>1. astray' = (astray \/ OnItsWay) /\ UNCHANGED <<live, swing>>
    BY <1>3 DEF HomeTakes
  <2>2. (OnItsWay' <=> OnItsWay) /\ Shown' = Shown
    BY <1>0, <2>1 DEF OnItsWay, Shown, Stored
  <2>3. CASE OnItsWay
    BY <1>0, <2>1, <2>2, <2>3 DEF Book!Next, Book!GoAstray
  <2>4. CASE ~OnItsWay
    BY <1>0, <2>1, <2>2, <2>4 DEF Book!vars, TypeOK
  <2>. QED BY <2>3, <2>4
<1>4. CASE HomeWrites
  <2>1. /\ home.pc = "taken" /\ swing'.active = swing.active /\ swing'.end = home.v
        /\ UNCHANGED <<live, astray>>
    BY <1>4 DEF HomeWrites, HomeStep, TypeOK
  <2>2. OnItsWay' <=> OnItsWay
    BY <1>0, <2>1 DEF OnItsWay
  <2>3. CASE astray
    <3>1. Page' \in Book!OnItsWay
      BY <1>0, <2>3 DEF Book!OnItsWay
    <3>. QED BY <1>0, <2>1, <2>2, <2>3, <3>1 DEF Book!Next, Book!Wander
  <2>4. CASE ~astray
    <3>1. Shown' = Shown
      BY <1>0, <2>1, <2>2, <2>4 DEF Shown, Stored, HomeInv, ArrivedScene
    <3>. QED BY <1>0, <2>1, <2>2, <3>1 DEF Book!vars
  <2>. QED BY <2>3, <2>4
<1>5. CASE HomeStarts
  <2>1. /\ home.pc = "written" /\ swing'.active = TRUE /\ swing'.end = swing.end
        /\ UNCHANGED <<live, astray>>
    BY <1>5 DEF HomeStarts, HomeStep, TypeOK
  <2>2. CASE OnItsWay' <=> OnItsWay
    <3>1. Shown' = Shown
      BY <1>0, <2>1, <2>2 DEF Shown, Stored
    <3>. QED BY <1>0, <2>1, <2>2, <3>1 DEF Book!vars
  <2>3. CASE ~OnItsWay /\ OnItsWay'
    <3>1. ~astray => Shown' = Shown
      BY <2>1, <2>3 DEF Shown, Stored, HomeInv
    <3>2. Page' \in Book!OnItsWay
      BY <1>0, <3>1 DEF Book!OnItsWay
    <3>. QED BY <1>0, <2>1, <2>3, <3>2 DEF Book!Next, Book!Start
  <2>4. OnItsWay => OnItsWay'
    BY <1>0, <2>1 DEF OnItsWay
  <2>. QED BY <2>2, <2>3, <2>4
<1>. QED BY <1>1, <1>2, <1>3, <1>4, <1>5 DEF HomeBtnClicked

(* A change of season turns to its page; what it leaves behind is the page *)
(* as it was, but for a look left in mid-swing.                            *)
LEMMA ChangedPages ==
  ASSUME TypeOK, TypeOK', UNCHANGED <<kind, frame>>, frame.pc = "free",
         NEW s \in Seasons, NEW p \in Values, NEW end \in Values,
         NEW seasons \in [Seasons -> Values], ChangeSeason(s, p, end, seasons)
  PROVE  /\ OnItsWay' /\ ~astray' /\ seasonI' = s
         /\ Page' = [seasons EXCEPT ![seasonI] = Stored(p, end)]
<1>1. /\ swing'.active /\ astray' = FALSE /\ seasonI' = s
      /\ season' = [seasons EXCEPT ![seasonI] = Stored(p, end)]
      /\ swing'.end = season'[s]
  BY DEF ChangeSeason, StartSwing
<1>2. OnItsWay' /\ Shown' = season'[s]
  BY <1>1 DEF OnItsWay, Shown
<1>3. Page' = [season' EXCEPT ![s] = season'[s]] /\ season' \in [Seasons -> Values]
  BY <1>1, <1>2, PageWillBe DEF TypeOK
<1>4. Page' = season'
  BY <1>3
<1>. QED BY <1>1, <1>2, <1>4

LEMMA ChooseStep ==
  ASSUME StoreInv, StoreInv', NEW s \in Seasons, SetSeasonI(s)
  PROVE  Book!Choose(s)
<1>. USE DEF StoreInv
<1>1. /\ running /\ frame.pc = "free" /\ UNCHANGED <<kind, running, plist, frame>>
      /\ ChangeSeason(s, live, swing.end, season)
      /\ live \in Values /\ swing.end \in Values /\ season \in [Seasons -> Values]
  BY DEF SetSeasonI, Unlocked, TypeOK
<1>2. /\ OnItsWay' /\ ~astray' /\ seasonI' = s
      /\ Page' = [season EXCEPT ![seasonI] = Stored(live, swing.end)]
  BY <1>1, ChangedPages
<1>3. Page = [season EXCEPT ![seasonI] = Shown]
  BY PageIs
<1>4. CASE kind = "look" /\ OnItsWay
  <2>1. Page' = [Page EXCEPT ![seasonI] = live]
    BY <1>1, <1>2, <1>3, <1>4 DEF Stored, TypeOK
  <2>2. Page' \in Book!OnLeaving
    BY <1>1, <1>4, <2>1 DEF Book!OnLeaving, Book!Blurred
  <2>. QED BY <1>1, <1>2, <2>2 DEF Book!Choose
<1>5. CASE ~(kind = "look" /\ OnItsWay)
  <2>1. Page' = Page
    BY <1>2, <1>3, <1>5 DEF Stored, Shown
  <2>2. Page' \in Book!OnLeaving
    BY <1>5, <2>1 DEF Book!OnLeaving
  <2>. QED BY <1>1, <1>2, <2>2 DEF Book!Choose
<1>. QED BY <1>4, <1>5

LEMMA ResetStep ==
  ASSUME StoreInv, StoreInv', Defaults
  PROVE  Book!Reset
<1>. USE DEF StoreInv
<1>1. /\ running /\ frame.pc = "free" /\ UNCHANGED <<kind, running, plist, frame>>
      /\ ChangeSeason(seasonI, Default[seasonI], EndSet(Default[seasonI]), Default)
      /\ seasonI \in Seasons /\ Default[seasonI] \in Values
      /\ EndSet(Default[seasonI]) \in Values /\ Default \in [Seasons -> Values]
  BY StoreAssumption DEF Defaults, Unlocked, EndSet, TypeOK
<1>2. /\ OnItsWay' /\ ~astray' /\ seasonI' = seasonI
      /\ Page' = [Default EXCEPT ![seasonI] =
                    Stored(Default[seasonI], EndSet(Default[seasonI]))]
  BY <1>1, ChangedPages
<1>3. CASE kind # "look" /\ swing.active
  <2>1. OnItsWay /\ Page[seasonI] = swing.end
    BY <1>1, <1>3, PageIs DEF OnItsWay, Shown
  <2>2. Page' = [Default EXCEPT ![seasonI] = Page[seasonI]]
    BY <1>2, <1>3, <2>1 DEF Stored, EndSet
  <2>. QED BY <1>1, <1>2, <1>3, <2>1, <2>2 DEF Book!Reset
<1>4. CASE ~(kind # "look" /\ swing.active)
  <2>1. Page' = Default
    BY <1>1, <1>2, <1>4 DEF Stored, EndSet
  <2>. QED BY <1>1, <1>2, <2>1 DEF Book!Reset
<1>. QED BY <1>3, <1>4

LEMMA EditStep ==
  ASSUME StoreInv, StoreInv', NEW v \in Values, EditScene(v) \/ EditLook(v)
  PROVE  Book!Edit(v) \/ UNCHANGED Book!vars
<1>. USE DEF StoreInv
<1>0. /\ running /\ UNCHANGED <<kind, running, seasonI, season, plist, frame>>
      /\ astray' = (astray /\ OnItsWay)
      /\ Page' = [Page EXCEPT ![seasonI] = Shown']
      /\ Shown' = Shown => Page' = Page
  BY PageOfStep DEF EditScene, EditLook
<1>1. /\ swing'.active = swing.active
      /\ kind = "look" => live' = v /\ swing'.end = swing.end
      /\ kind # "look" => /\ frame.pc = "free"
                          /\ swing'.end = IF swing.active THEN swing.end ELSE v
  BY SetTyped DEF EditScene, EditLook, Unlocked
<1>2. OnItsWay' <=> OnItsWay
  BY <1>0, <1>1 DEF OnItsWay
<1>3. CASE OnItsWay
  <2>1. Shown' = Shown /\ astray' = astray
    BY <1>0, <1>1, <1>2, <1>3 DEF Shown, OnItsWay, TypeOK
  <2>. QED BY <1>0, <1>2, <2>1 DEF Book!vars
<1>4. CASE ~OnItsWay
  <2>1. Shown' = v
    BY <1>0, <1>1, <1>2, <1>4 DEF Shown, OnItsWay, Stored
  <2>. QED BY <1>0, <1>2, <1>4, <2>1 DEF Book!Edit
<1>. QED BY <1>3, <1>4

LEMMA LaunchStep ==
  ASSUME StoreInv, StoreInv', NEW s \in Seasons, Launch(s)
  PROVE  Book!Launch
<1>. USE DEF StoreInv
<1>1. /\ ~running /\ running' = TRUE /\ UNCHANGED <<kind, plist>> /\ astray' = FALSE
      /\ seasonI' = s /\ season' = plist /\ swing'.active /\ swing'.end = plist[s]
      /\ frame'.pc = "free"
  BY DEF Launch, StartSwing, FrameFree
<1>2. OnItsWay' /\ Shown' = plist[s]
  BY <1>1 DEF OnItsWay, Shown
<1>3. Page' = [plist EXCEPT ![s] = plist[s]] /\ plist \in [Seasons -> Values]
  BY <1>1, <1>2, PageWillBe DEF TypeOK
<1>4. Page' = plist
  BY <1>3
<1>. QED BY <1>1, <1>2, <1>4 DEF Book!Launch

LEMMA QuitStep ==
  ASSUME StoreInv, StoreInv', ShutDown
  PROVE  Book!Quit
<1>. USE DEF StoreInv
<1>1. /\ running /\ running' = FALSE /\ frame.pc = "free"
      /\ season' = [season EXCEPT ![seasonI] = Stored(live, swing.end)]
      /\ plist' = season'
      /\ live' = (IF swing.active THEN swing.end ELSE live)
      /\ ~swing'.active /\ swing'.end = swing.end
      /\ UNCHANGED <<kind, seasonI, frame, astray>>
  BY DEF ShutDown, Unlocked, TypeOK
<1>2. ~OnItsWay' /\ Shown' = Shown
  BY <1>1 DEF OnItsWay, Shown, Stored
<1>3. Page' = [season' EXCEPT ![seasonI] = Shown] /\ Page = [season EXCEPT ![seasonI] = Shown]
  BY <1>1, <1>2, PageIs, PageWillBe
<1>4. Page' = Page
  BY <1>1, <1>3 DEF TypeOK
<1>5. plist' \in Book!OnLeaving
  <2>1. CASE kind = "look" /\ OnItsWay
    <3>1. plist' = [Page EXCEPT ![seasonI] = live] /\ live \in Values
      BY <1>1, <1>3, <2>1 DEF Stored, TypeOK
    <3>. QED BY <1>1, <2>1, <3>1 DEF Book!OnLeaving, Book!Blurred
  <2>2. CASE ~(kind = "look" /\ OnItsWay)
    <3>1. plist' = Page
      BY <1>1, <1>3, <2>2 DEF Stored, Shown
    <3>. QED BY <2>2, <3>1 DEF Book!OnLeaving
  <2>. QED BY <2>1, <2>2
<1>. QED BY <1>1, <1>2, <1>4, <1>5 DEF Book!Quit

LEMMA DieStep ==
  ASSUME StoreInv, StoreInv', Crash
  PROVE  Book!Die
<1>1. /\ running /\ running' = FALSE
      /\ UNCHANGED <<kind, seasonI, live, swing, season, plist, frame, astray>>
  BY DEF Crash
<1>2. Shown' = Shown
  BY <1>1 DEF Shown, Stored, OnItsWay
<1>3. Page' = Page
  BY <1>1, <1>2, PageOfStep DEF StoreInv
<1>. QED BY <1>1, <1>3 DEF Book!Die

(* The store implements the book: a season has the scene that was edited   *)
(* into it last while it was shown and had arrived, unless the home button *)
(* was clicked in mid-swing; a change of season, a quit and a restart take *)
(* none away (Sphere.m:1104-1122, GLView.m:596-704).                       *)
THEOREM StoreKeepsTheBook == Spec => KeepsTheBook
<1>1. Init => Book!Init
  BY DEF Init, Book!Init
<1>2. StoreInv /\ StoreInv' /\ [Next]_vars => [Book!Next]_(Book!vars)
  <2>. SUFFICES ASSUME StoreInv, StoreInv', [Next]_vars
                PROVE  Book!Next \/ UNCHANGED Book!vars
    OBVIOUS
  <2>1. CASE FrameTakes \/ FrameSets \/ EndSwing
    BY <2>1, FrameStep
  <2>2. CASE HomeBtnClicked
    BY <2>2, HomeBookStep
  <2>3. CASE Defaults
    BY <2>3, ResetStep DEF Book!Next
  <2>4. CASE ShutDown
    BY <2>4, QuitStep DEF Book!Next
  <2>5. CASE Crash
    BY <2>5, DieStep DEF Book!Next
  <2>6. ASSUME NEW s \in Seasons, SetSeasonI(s) \/ Launch(s) PROVE Book!Next
    BY <2>6, ChooseStep, LaunchStep DEF Book!Next
  <2>7. ASSUME NEW v \in Values, EditScene(v) \/ EditLook(v)
        PROVE  Book!Next \/ UNCHANGED Book!vars
    BY <2>7, EditStep DEF Book!Next
  <2>8. CASE UNCHANGED vars
    BY <2>8 DEF vars, Book!vars, Page, OnItsWay, Stored
  <2>. QED BY <2>1, <2>2, <2>3, <2>4, <2>5, <2>6, <2>7, <2>8 DEF Next
<1>. QED BY <1>1, <1>2, StoreInvariance, PTL DEF Spec, KeepsTheBook, Book!Spec

=============================================================================
