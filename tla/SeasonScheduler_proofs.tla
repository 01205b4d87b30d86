----------------------- MODULE SeasonScheduler_proofs -----------------------
(***************************************************************************)
(* The timer of SeasonScheduler is set exactly while seasons change by     *)
(* themselves, and its ring never repeats a recent pick: for any number of *)
(* seasons, any shorter history and any settings.                          *)
(***************************************************************************)
EXTENDS SeasonScheduler, TLAPS

Inv == TypeOK /\ TimerWhileAuto

(* What randomInt yields lies between 0 and its argument, so an interval   *)
(* is never negative, even with the limits the wrong way round.            *)
LEMMA IntervalInNat ==
  ASSUME NEW min \in Nat, NEW max \in Nat, NEW k \in RandomInt(max - min)
  PROVE  min + k \in Nat
BY DEF RandomInt

(* Picking the next time sets the timer.                                   *)
LEMMA PickTyped ==
  ASSUME NEW min \in Nat, NEW max \in Nat, PickNextSeasonChangeTime(min, max)
  PROVE  timer' \in Nat /\ timer' # None /\ since' \in Nat
BY IntervalInNat DEF PickNextSeasonChangeTime, None

(* Facts about the sets of slots and seasons.                              *)
LEMMA SlotsMeetRegular ==
  /\ Slots \subseteq Nat /\ 0 \in Slots
  /\ Regular \subseteq 0 .. MAX_SEASONS
  /\ 1 \in 0 .. MAX_SEASONS
BY SchedulerAssumption DEF Slots, Regular

(* changeSeason keeps the ring a ring of seasons.                          *)
LEMMA ChangeTyped ==
  ASSUME TypeOK, ChangeSeason
  PROVE  /\ seasonI' \in 0 .. MAX_SEASONS
         /\ seasonHistory' \in [Slots -> 0 .. MAX_SEASONS]
         /\ historyI' \in Slots
<1>1. PICK s \in Regular : /\ seasonI' = s
                           /\ seasonHistory' = [seasonHistory EXCEPT ![historyI] = s]
                           /\ historyI' = NextHistoryI
  BY DEF ChangeSeason
<1>2. NextHistoryI \in Slots
  BY SchedulerAssumption DEF TypeOK, NextHistoryI, Slots
<1>. QED  BY <1>1, <1>2, SlotsMeetRegular DEF TypeOK

(* The types hold at the start.                                            *)
LEMMA InitTyped == Init => TypeOK
<1>. SUFFICES ASSUME Init PROVE TypeOK
  OBVIOUS
<1>1. 0 \in 0 .. MAX_SEASONS /\ 0 \in 0 .. MaxSettings
  BY SchedulerAssumption
<1>2. seasonHistory \in [Slots -> 0 .. MAX_SEASONS]
  <2>1. seasonHistory = [i \in Slots |-> 0]
    BY DEF Init
  <2>. QED BY <1>1, <2>1
<1>3. historyI \in Slots /\ seasonI \in 0 .. MAX_SEASONS
  BY SlotsMeetRegular DEF Init
<1>4. minSeasonSeconds \in Nat /\ maxSeasonSeconds \in Nat /\ since \in Nat
  BY DEF Init
<1>5. /\ launched \in BOOLEAN /\ autoChangeSeasons \in BOOLEAN
      /\ transitioning \in BOOLEAN /\ timer \in {None}
      /\ settings \in 0 .. MaxSettings
  BY <1>1 DEF Init
<1>. QED  BY <1>2, <1>3, <1>4, <1>5 DEF TypeOK

(* The invariant holds in every reachable state.                           *)
THEOREM SchedulerInvariance == Spec => []Inv
<1>1. Init => Inv
  BY InitTyped DEF Init, Inv, TimerWhileAuto
<1>2. Inv /\ [Next]_vars => Inv'
  <2>. SUFFICES ASSUME Inv, [Next]_vars
                PROVE  Inv'
    OBVIOUS
  <2>. USE SchedulerAssumption DEF Inv
  <2>1. CASE TimerCallBack
    <3>1. timer' \in Nat /\ timer' # None /\ since' \in Nat
      BY <2>1, PickTyped DEF TimerCallBack, TypeOK
    <3>2. /\ seasonI' \in 0 .. MAX_SEASONS
          /\ seasonHistory' \in [Slots -> 0 .. MAX_SEASONS]
          /\ historyI' \in Slots
      <4>1. CASE transitioning'
        BY <2>1, <4>1 DEF TimerCallBack, TypeOK, ringVars
      <4>2. CASE ~transitioning'
        BY <2>1, <4>2, ChangeTyped DEF TimerCallBack
      <4>. QED BY <4>1, <4>2
    <3>3. /\ UNCHANGED <<launched, autoChangeSeasons, minSeasonSeconds,
                         maxSeasonSeconds, settings>>
          /\ transitioning' \in BOOLEAN /\ timer = 0
      BY <2>1 DEF TimerCallBack, settingVars
    <3>4. TypeOK'
      BY <3>1, <3>2, <3>3 DEF TypeOK
    <3>5. TimerWhileAuto'
      BY <3>1, <3>3 DEF TimerWhileAuto, None
    <3>. QED BY <3>4, <3>5
  <2>2. CASE SwitchAuto
    <3>1. PICK auto \in BOOLEAN : SetAutoChangeSeasons(auto)
      BY <2>2 DEF SwitchAuto
    <3>2. /\ autoChangeSeasons' = auto
          /\ timer' \in Nat \union {None} /\ since' \in Nat
          /\ auto <=> timer' # None
      BY <3>1, PickTyped DEF SetAutoChangeSeasons, TypeOK
    <3>3. UNCHANGED <<launched, minSeasonSeconds, maxSeasonSeconds, transitioning,
                      seasonHistory, historyI, seasonI>>
      BY <2>2 DEF SwitchAuto, ringVars
    <3>4. settings' \in 0 .. MaxSettings
      BY <2>2 DEF SwitchAuto, Setting, TypeOK
    <3>5. TypeOK'
      BY <3>2, <3>3, <3>4 DEF TypeOK
    <3>6. TimerWhileAuto'
      BY <3>2 DEF TimerWhileAuto
    <3>. QED BY <3>5, <3>6
  <2>3. CASE SetSeconds
    <3>1. settings' \in 0 .. MaxSettings
      BY <2>3 DEF SetSeconds, Setting, TypeOK
    <3>2. minSeasonSeconds' \in Nat /\ maxSeasonSeconds' \in Nat
      BY <2>3 DEF SetSeconds, TypeOK
    <3>3. UNCHANGED <<launched, autoChangeSeasons, timer, since, transitioning,
                      seasonHistory, historyI, seasonI>>
      BY <2>3 DEF SetSeconds, timerVars, ringVars
    <3>. QED BY <3>1, <3>2, <3>3 DEF TypeOK, TimerWhileAuto
  <2>4. CASE ChooseSeason
    BY <2>4 DEF ChooseSeason, settingVars, timerVars, ringVars, TypeOK, TimerWhileAuto
  <2>5. CASE Tick
    <3>1. timer \in Nat /\ timer' \in Nat /\ since' \in Nat
      BY <2>5 DEF Tick, TypeOK, None
    <3>2. UNCHANGED <<launched, autoChangeSeasons, minSeasonSeconds, maxSeasonSeconds,
                      settings, transitioning, seasonHistory, historyI, seasonI>>
      BY <2>5 DEF Tick, settingVars, ringVars
    <3>3. timer # None /\ timer' # None
      BY <3>1 DEF None
    <3>. QED BY <3>1, <3>2, <3>3 DEF TypeOK, TimerWhileAuto
  <2>6. ASSUME NEW auto \in BOOLEAN, NEW min \in Seconds, NEW max \in Seconds,
               Launch(auto, min, max)
        PROVE  Inv'
    <3>1. /\ autoChangeSeasons' = auto
          /\ timer' \in Nat \union {None} /\ since' \in Nat
          /\ auto <=> timer' # None
      BY <2>6, PickTyped DEF Launch, SetAutoChangeSeasons, TypeOK
    <3>2. /\ seasonI' \in 0 .. MAX_SEASONS
          /\ seasonHistory' \in [Slots -> 0 .. MAX_SEASONS]
          /\ historyI' \in Slots
      <4>1. CASE auto
        BY <2>6, <4>1, ChangeTyped DEF Launch
      <4>2. CASE ~auto
        BY <2>6, <4>2, SlotsMeetRegular DEF Launch, ringVars, TypeOK
      <4>. QED BY <4>1, <4>2
    <3>3. /\ launched' = TRUE /\ minSeasonSeconds' = min /\ maxSeasonSeconds' = max
          /\ UNCHANGED <<transitioning, settings>>
      BY <2>6 DEF Launch
    <3>4. TypeOK'
      BY <3>1, <3>2, <3>3 DEF TypeOK
    <3>5. TimerWhileAuto'
      BY <3>1 DEF TimerWhileAuto
    <3>. QED BY <3>4, <3>5
  <2>7. CASE UNCHANGED vars
    BY <2>7 DEF vars, settingVars, timerVars, ringVars, TypeOK, TimerWhileAuto
  <2>. QED
    BY <2>1, <2>2, <2>3, <2>4, <2>5, <2>6, <2>7 DEF Next
<1>. QED  BY <1>1, <1>2, PTL DEF Spec

(* The variables keep their types; no timer is ever set to the past.       *)
THEOREM SchedulerTypeCorrect == Spec => []TypeOK
BY SchedulerInvariance, PTL DEF Inv

(* The timer is set exactly while seasons change by themselves             *)
(* (FlatSunAppDelegate.m:362-386, 420-430).                                *)
THEOREM TimerIsSetWhileAuto == Spec => []TimerWhileAuto
BY SchedulerInvariance, PTL DEF Inv

-----------------------------------------------------------------------------
Ages == 1 .. MAX_HISTORY
Recent == [age \in Ages |-> seasonHistory[Slot(age)]]

(* Read backwards from historyI, the slots are all there, ...              *)
LEMMA SlotsInRange ==
  ASSUME TypeOK
  PROVE  \A age \in Ages : Slot(age) \in Slots
BY SchedulerAssumption DEF TypeOK, Slot, Slots, Ages

(* ... every one of them is read, ...                                      *)
LEMMA SlotsAllRead ==
  ASSUME TypeOK, NEW i \in Slots
  PROVE  \E age \in Ages : Slot(age) = i
<1>. DEFINE age == IF i < historyI THEN historyI - i ELSE historyI - i + MAX_HISTORY
<1>1. age \in Ages /\ Slot(age) = i
  BY SchedulerAssumption DEF TypeOK, Slot, Slots, Ages
<1>. QED  BY <1>1

(* ... and the next change shifts them by one.                             *)
LEMMA SlotsShift ==
  ASSUME TypeOK, historyI' = NextHistoryI
  PROVE  /\ Slot(1)' = historyI
         /\ \A age \in Ages : age # 1 => /\ age - 1 \in Ages
                                         /\ Slot(age)' = Slot(age - 1)
                                         /\ Slot(age)' # historyI
BY SchedulerAssumption DEF TypeOK, Slot, Slots, Ages, NextHistoryI

(* changeSeason picks what the playlist allows and remembers it.           *)
LEMMA ChangeIsPick ==
  ASSUME TypeOK, ChangeSeason
  PROVE  \E s \in 1 .. MAX_SEASONS : Playlist!Pick(s)
<1>1. PICK s \in Regular : /\ ~InHistory(s)
                           /\ seasonI' = s
                           /\ seasonHistory' = [seasonHistory EXCEPT ![historyI] = s]
                           /\ historyI' = NextHistoryI
  BY DEF ChangeSeason, Picked
<1>2. \A age \in Ages : Recent[age] # s
  BY <1>1, SlotsInRange DEF InHistory, Recent
<1>3. ASSUME NEW age \in Ages
      PROVE  seasonHistory'[Slot(age)'] = IF age = 1 THEN s ELSE Recent[age - 1]
  <2>1. CASE age = 1
    BY <1>1, <2>1, SlotsShift DEF TypeOK
  <2>2. CASE age # 1
    <3>1. /\ Slot(age)' = Slot(age - 1) /\ Slot(age)' # historyI /\ age - 1 \in Ages
      BY <1>1, <2>2, SlotsShift
    <3>2. Slot(age - 1) \in Slots
      BY <3>1, SlotsInRange
    <3>. QED BY <1>1, <2>2, <3>1, <3>2 DEF TypeOK, Recent
  <2>. QED BY <2>1, <2>2
<1>4. Recent' = [age \in Ages |-> IF age = 1 THEN s ELSE Recent[age - 1]]
  BY <1>3 DEF Recent
<1>5. Playlist!Pick(s)
  BY <1>1, <1>2, <1>4 DEF Playlist!Pick, Playlist!Ages, Ages, Recent
<1>. QED  BY <1>5 DEF Regular

(* A step that leaves the ring alone shows a season.                       *)
LEMMA OtherStepsShow ==
  ASSUME TypeOK', UNCHANGED ringVars
  PROVE  Playlist!Show
BY DEF TypeOK, Playlist!Show, ringVars, Slot

(* The automatic change never picks one of the last MAX_HISTORY seasons it *)
(* picked (seasonInHistory, changeSeason).                                 *)
THEOREM SchedulerKeepsPlaylist == Spec => KeepsPlaylist
<1>1. Init => Playlist!Init
  <2>. SUFFICES ASSUME Init PROVE Playlist!Init
    OBVIOUS
  <2>1. TypeOK
    BY InitTyped
  <2>2. \A age \in Ages : seasonHistory[Slot(age)] = 0
    BY <2>1, SlotsInRange DEF Init
  <2>. QED BY <2>2 DEF Playlist!Init, Playlist!Ages, Ages
<1>2. TypeOK /\ TypeOK' /\ [Next]_vars => [Playlist!Next]_(<<seasonI, Recent>>)
  <2>. SUFFICES ASSUME TypeOK, TypeOK', [Next]_vars
                PROVE  [Playlist!Next]_(<<seasonI, Recent>>)
    OBVIOUS
  <2>1. ASSUME UNCHANGED ringVars PROVE Playlist!Next
    BY <2>1, OtherStepsShow DEF Playlist!Next
  <2>2. ASSUME ChangeSeason PROVE Playlist!Next
    BY <2>2, ChangeIsPick DEF Playlist!Next
  <2>3. CASE TimerCallBack
    BY <2>1, <2>2, <2>3 DEF TimerCallBack
  <2>4. CASE SwitchAuto \/ SetSeconds \/ ChooseSeason \/ Tick
    BY <2>1, <2>4 DEF SwitchAuto, SetSeconds, ChooseSeason, Tick, ringVars
  <2>5. ASSUME NEW auto \in BOOLEAN, NEW min \in Seconds, NEW max \in Seconds,
               Launch(auto, min, max)
        PROVE  Playlist!Next
    BY <2>1, <2>2, <2>5 DEF Launch
  <2>6. CASE UNCHANGED vars
    BY <2>6 DEF vars, ringVars, Recent, Slot
  <2>. QED BY <2>3, <2>4, <2>5, <2>6 DEF Next
<1>. QED
  BY <1>1, <1>2, SchedulerTypeCorrect, PTL DEF Spec, KeepsPlaylist, Playlist!Spec, Recent, Ages

=============================================================================
