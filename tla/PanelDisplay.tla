---------------------------- MODULE PanelDisplay ----------------------------
(***************************************************************************)
(* What a Flatsun panel promises, whatever the bus does to it: it is a     *)
(* one-place register of whole frames.  A frame it has taken in whole      *)
(* stays as it is until the panel lets it go; the panel lets go of a good  *)
(* frame of its own only after showing it; what it shows is one whole      *)
(* image, or its address until the first image, and never the address      *)
(* again after that.                                                       *)
(***************************************************************************)
CONSTANTS Addresses, Frames

VARIABLES
  address,    (* The address the panel answers to.                         *)
  held,       (* The frame it has taken in and not yet let go, or None.    *)
  shown       (* The image on its LEDs.                                    *)

vars == <<address, held, shown>>

None     == [kind |-> "none"]
Dark     == [kind |-> "dark"]
Glyph(a) == [kind |-> "glyph", address |-> a]

Mine(f) == f.crc /\ f.id = address

Init == address \in Addresses /\ held = None /\ shown = Dark

TakeIn == /\ held = None
          /\ held' \in Frames
          /\ UNCHANGED <<address, shown>>

Show == /\ held # None /\ Mine(held)
        /\ shown' = held
        /\ UNCHANGED <<address, held>>

LetGo == /\ held # None
         /\ Mine(held) => shown = held
         /\ held' = None
         /\ UNCHANGED <<address, shown>>

ShowAddress == /\ shown \notin Frames
               /\ shown' = Glyph(address)
               /\ UNCHANGED <<address, held>>

ChangeAddress == /\ address' \in Addresses
                 /\ UNCHANGED <<held, shown>>

Next == TakeIn \/ Show \/ LetGo \/ ShowAddress \/ ChangeAddress

Spec == Init /\ [][Next]_vars

=============================================================================
