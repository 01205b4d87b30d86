-------------------------- MODULE SeasonScheduler ---------------------------
(***************************************************************************)
(* The automatic change of seasons of FlatSunAppDelegate: the settings it  *)
(* is given, its one-shot timer, and the ring of the seasons it picked.    *)
(* Everything runs on the main run loop, so each handler is one step; the  *)
(* timer may fire late.                                                    *)
(***************************************************************************)
EXTENDS Integers

CONSTANTS
  MAX_SEASONS,     (* 11                                                   *)
  MAX_HISTORY,     (* 6                                                    *)
  Seconds,         (* What the season seconds may be set to.               *)
  MaxSettings      (* Bound: changes of the settings.                      *)

ASSUME SchedulerAssumption ==
  /\ MAX_SEASONS \in Nat /\ MAX_HISTORY \in Nat \ {0}
  /\ MAX_HISTORY < MAX_SEASONS
  /\ Seconds \subseteq Nat
  /\ MaxSettings \in Nat

VARIABLES
  launched,
  autoChangeSeasons, minSeasonSeconds, maxSeasonSeconds,
  timer,           (* Seconds until it is due, or None.                    *)
  since,           (* Seconds that passed since it was set.                *)
  transitioning,
  seasonHistory, historyI,
  seasonI,         (* sphere.seasonI                                       *)
  settings         (* How often the settings were changed.                 *)

settingVars == <<autoChangeSeasons, minSeasonSeconds, maxSeasonSeconds, settings>>
timerVars == <<timer, since>>
ringVars == <<seasonHistory, historyI>>
vars == <<launched, settingVars, timerVars, transitioning, ringVars, seasonI>>

None == -1
Slots == 0 .. MAX_HISTORY - 1
Regular == 1 .. MAX_SEASONS

-----------------------------------------------------------------------------
(* randomInt: a fraction of max, truncated.  The fraction may be 1.0.      *)
RandomInt(max) == IF max >= 0 THEN 0 .. max ELSE max .. 0

(* pickNextSeasonChangeTime, with these limits.  The timer that was set    *)
(* before is invalidated.                                                  *)
PickNextSeasonChangeTime(min, max) ==
  /\ timer' \in { min + k : k \in RandomInt(max - min) }
  /\ since' = 0

(* Mutant: switching off leaves the timer.                                 *)
SetAutoChangeSeasons_KeepsTimer(auto) ==
  /\ autoChangeSeasons' = auto
  /\ IF auto THEN PickNextSeasonChangeTime(minSeasonSeconds, maxSeasonSeconds)
             ELSE UNCHANGED timerVars

(* setAutoChangeSeasons.                                                   *)
SetAutoChangeSeasons(auto) ==
  /\ autoChangeSeasons' = auto
  /\ IF auto THEN PickNextSeasonChangeTime(minSeasonSeconds, maxSeasonSeconds)
             ELSE timer' = None /\ UNCHANGED since

(* Mutant: the search stops one slot early.                                *)
InHistory_Short(s) == \E i \in 0 .. MAX_HISTORY - 2 : seasonHistory[i] = s

(* changeSeason: from a random season on, upwards and around, to the first *)
(* that is not in the history, which then takes the oldest one's slot.     *)
InHistory(s) == \E i \in Slots : seasonHistory[i] = s

Ahead(from, s) == IF s >= from THEN s - from ELSE s - from + MAX_SEASONS

Picked(s) ==
  /\ s \in Regular /\ ~InHistory(s)
  /\ \E k \in RandomInt(MAX_SEASONS - 1) :
       \A t \in Regular : Ahead(1 + k, t) < Ahead(1 + k, s) => InHistory(t)

NextHistoryI == IF historyI + 1 = MAX_HISTORY THEN 0 ELSE historyI + 1

ChangeSeason ==
  \E s \in Regular :
    /\ Picked(s)
    /\ seasonI' = s
    /\ seasonHistory' = [seasonHistory EXCEPT ![historyI] = s]
    /\ historyI' = NextHistoryI

(* Mutant: a transition does not set the timer again.                      *)
TimerCallBack_Stops ==
  /\ timer = 0
  /\ transitioning' \in IF transitioning THEN {FALSE} ELSE BOOLEAN
  /\ IF transitioning'
       THEN seasonI' = 0 /\ timer' = None /\ UNCHANGED <<ringVars, since>>
       ELSE ChangeSeason /\ PickNextSeasonChangeTime(minSeasonSeconds, maxSeasonSeconds)
  /\ UNCHANGED <<launched, settingVars>>

(* timerCallBack: a transition by chance (transitionPercent), but never    *)
(* two in a row; else the next season.  Either way the timer is set again. *)
TimerCallBack ==
  /\ timer = 0
  /\ transitioning' \in IF transitioning THEN {FALSE} ELSE BOOLEAN
  /\ IF transitioning' THEN seasonI' = 0 /\ UNCHANGED ringVars
                       ELSE ChangeSeason
  /\ PickNextSeasonChangeTime(minSeasonSeconds, maxSeasonSeconds)
  /\ UNCHANGED <<launched, settingVars>>

(* applicationDidFinishLaunching: loadSettings sets autoChangeSeasons      *)
(* before the seconds, which are still 0.                                  *)
Launch(auto, min, max) ==
  /\ ~launched /\ launched' = TRUE
  /\ SetAutoChangeSeasons(auto)
  /\ minSeasonSeconds' = min /\ maxSeasonSeconds' = max
  /\ IF auto THEN ChangeSeason ELSE seasonI' = 1 /\ UNCHANGED ringVars
  /\ UNCHANGED <<transitioning, settings>>

-----------------------------------------------------------------------------
(* The user at the Seasons window, or UDP; and time.                       *)
Setting == launched /\ settings < MaxSettings /\ settings' = settings + 1

SwitchAuto ==
  /\ Setting
  /\ \E auto \in BOOLEAN : SetAutoChangeSeasons(auto)
  /\ UNCHANGED <<launched, minSeasonSeconds, maxSeasonSeconds, transitioning,
                 ringVars, seasonI>>

SetSeconds ==
  /\ Setting
  /\ \/ minSeasonSeconds' \in Seconds /\ UNCHANGED maxSeasonSeconds
     \/ maxSeasonSeconds' \in Seconds /\ UNCHANGED minSeasonSeconds
  /\ UNCHANGED <<launched, autoChangeSeasons, timerVars, transitioning, ringVars,
                 seasonI>>

ChooseSeason ==
  /\ launched
  /\ seasonI' \in 0 .. MAX_SEASONS
  /\ UNCHANGED <<launched, settingVars, timerVars, transitioning, ringVars>>

Tick ==
  /\ timer > 0
  /\ timer' = timer - 1
  /\ since' = since + 1
  /\ UNCHANGED <<launched, settingVars, transitioning, ringVars, seasonI>>

Init ==
  /\ launched = FALSE
  /\ autoChangeSeasons = FALSE /\ minSeasonSeconds = 0 /\ maxSeasonSeconds = 0
  /\ timer = None /\ since = 0
  /\ transitioning = FALSE
  /\ seasonHistory = [i \in Slots |-> 0] /\ historyI = 0
  /\ seasonI = 1
  /\ settings = 0

Next ==
  \/ TimerCallBack \/ SwitchAuto \/ SetSeconds \/ ChooseSeason \/ Tick
  \/ \E auto \in BOOLEAN, min \in Seconds, max \in Seconds : Launch(auto, min, max)

Spec == Init /\ [][Next]_vars

(* The run loop runs: time passes, and a timer that is due fires.          *)
FairSpec == Spec /\ WF_vars(Tick) /\ WF_vars(TimerCallBack)

-----------------------------------------------------------------------------
(* Properties.                                                             *)
TypeOK ==
  /\ launched \in BOOLEAN /\ autoChangeSeasons \in BOOLEAN
  /\ minSeasonSeconds \in Nat /\ maxSeasonSeconds \in Nat
  /\ timer \in Nat \union {None}
  /\ since \in Nat
  /\ transitioning \in BOOLEAN
  /\ seasonHistory \in [Slots -> 0 .. MAX_SEASONS] /\ historyI \in Slots
  /\ seasonI \in 0 .. MAX_SEASONS
  /\ settings \in 0 .. MaxSettings

(* The timer is set exactly while seasons change automatically, through    *)
(* every order of callbacks and switches: never one left over that would   *)
(* change a season nobody wants changed, never none (setAutoChangeSeasons  *)
(* and timerCallBack, FlatSunAppDelegate.m:362-386, 420-430).              *)
TimerWhileAuto == launched => (autoChangeSeasons <=> timer # None)

(* SeasonPlaylist: what is picked is none of the last MAX_HISTORY picks,   *)
(* for the ring, read backwards from historyI, is the list of them.        *)
Slot(age) == IF historyI >= age THEN historyI - age ELSE historyI - age + MAX_HISTORY

Playlist == INSTANCE SeasonPlaylist WITH
              shown <- seasonI,
              recent <- [age \in 1 .. MAX_HISTORY |-> seasonHistory[Slot(age)]]

KeepsPlaylist == Playlist!Spec

(* Left on automatic, the seasons go on changing (timerCallBack, 420-430). *)
KeepsChanging == <>[]autoChangeSeasons => []<><<TimerCallBack>>_vars

(* "Automatically change seasons between <min> and <max> secs"             *)
(* (MainMenu.xib:9168, 9151): two automatic changes are at least the       *)
(* minimum apart, no one having changed it since.                          *)
LastsTheMinimum == [][TimerCallBack => since >= minSeasonSeconds]_vars

=============================================================================
