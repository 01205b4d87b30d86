----------------------------- MODULE SeasonBook -----------------------------
(***************************************************************************)
(* What Flatsun promises about the settings of its seasons, told of one of *)
(* the parameters.  There is one page per season; editing writes the page  *)
(* of the current season only, turning to another season writes none, and  *)
(* quitting saves them all.  While the picture swings to a new season the  *)
(* page of that season may blur in two ways: a look when it is left then,  *)
(* and any parameter when the home button sends the picture astray.        *)
(***************************************************************************)
CONSTANTS
  Seasons,
  Values,          (* What a parameter may be.                             *)
  Default          (* What Defaults.plist holds: a value for every season. *)

VARIABLES
  kind,            (* An angle or a zoom of the scene, or a look.          *)
  running,         (* The application runs.                                *)
  current,         (* The season that is shown.                            *)
  swinging,        (* The picture is on its way to that season.            *)
  astray,          (* It has been sent home on its way.                    *)
  page,            (* The parameter of every season.                       *)
  saved            (* Settings.plist.                                      *)

vars == <<kind, running, current, swinging, astray, page, saved>>

(* The pages, with that of the current season as it may have blurred.      *)
Blurred == {page} \union { [page EXCEPT ![current] = v] : v \in Values }

OnLeaving == IF kind = "look" /\ swinging THEN Blurred ELSE {page}
OnItsWay  == IF astray THEN Blurred ELSE {page}

Launch ==
  /\ ~running /\ running'
  /\ page' = saved
  /\ current' \in Seasons
  /\ swinging' /\ ~astray'
  /\ UNCHANGED <<kind, saved>>

Choose(s) ==
  /\ running
  /\ current' = s
  /\ swinging' /\ ~astray'
  /\ page' \in OnLeaving
  /\ UNCHANGED <<kind, running, saved>>

Arrive ==
  /\ running /\ swinging
  /\ ~swinging'
  /\ page' \in OnItsWay
  /\ UNCHANGED <<kind, running, current, astray, saved>>

(* An edit, or the home button's turn; it ends a straying.                 *)
Edit(v) ==
  /\ running /\ ~swinging
  /\ page' = [page EXCEPT ![current] = v]
  /\ ~astray'
  /\ UNCHANGED <<kind, running, current, swinging, saved>>

(* The home button starts a swing; it writes no page.                      *)
Start ==
  /\ running /\ ~swinging
  /\ swinging'
  /\ page' \in OnItsWay
  /\ UNCHANGED <<kind, running, current, astray, saved>>

(* The home button, clicked in mid-swing: until the picture comes to rest  *)
(* the page may blur, as the button takes a value on its way for the end.  *)
GoAstray ==
  /\ running /\ swinging
  /\ astray'
  /\ UNCHANGED <<kind, running, current, swinging, page, saved>>

Wander ==
  /\ running /\ astray
  /\ page' \in OnItsWay
  /\ UNCHANGED <<kind, running, current, swinging, astray, saved>>

Settle ==
  /\ running /\ swinging /\ astray
  /\ ~astray'
  /\ UNCHANGED <<kind, running, current, swinging, page, saved>>

(* Defaults on all pages; only a scene that is being swung to may stay.    *)
Reset ==
  /\ running
  /\ \/ page' = Default
     \/ kind # "look" /\ swinging /\ page' = [Default EXCEPT ![current] = page[current]]
  /\ swinging' /\ ~astray'
  /\ UNCHANGED <<kind, running, current, saved>>

Quit ==
  /\ running /\ ~running'
  /\ ~swinging'
  /\ saved' \in OnLeaving
  /\ UNCHANGED <<kind, current, astray, page>>

Die ==
  /\ running /\ ~running'
  /\ ~swinging'
  /\ UNCHANGED <<kind, current, astray, page, saved>>

Init == ~running /\ ~swinging /\ ~astray /\ saved \in [Seasons -> Values]

Next == \/ Launch \/ Arrive \/ Start \/ GoAstray \/ Wander \/ Settle
        \/ Reset \/ Quit \/ Die
        \/ \E s \in Seasons : Choose(s)
        \/ \E v \in Values : Edit(v)

Spec == Init /\ [][Next]_vars

=============================================================================
