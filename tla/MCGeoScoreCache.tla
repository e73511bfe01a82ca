--------------------------- MODULE MCGeoScoreCache ---------------------------
(* A few places for TLC.                                                   *)
EXTENDS GeoScoreCache

(* "land; city", the same place as "land, city", and "7". *)
Places == {<< <<"land">>, <<"city">> >>, << <<"land", "city">> >>,
           << <<"7">> >>}
KnownPlaces == {<<"land">>}
Numbers == {<<"7">>}
Some == {{}, {"limit", "crash"}, {"network", "denied"}, {"write", "crash"},
         {"read"}}
==============================================================================
