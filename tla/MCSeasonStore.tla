--------------------------- MODULE MCSeasonStore ----------------------------
(* Two seasons, three values of a parameter, the middle one between the    *)
(* other two, and defaults that differ from season to season.              *)
EXTENDS SeasonStore

MCSeasons == {0, 1}
MCValues == 0 .. 2
MCDefault == [s \in MCSeasons |-> 2 - s]

=============================================================================
