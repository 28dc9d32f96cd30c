--------------------------- MODULE MCGeoProvider ---------------------------
(***************************************************************************)
(* A directory with one Country database, for IPv4, which IPv6 falls back *)
(* to.  Its first version is downloaded at the start.                      *)
(***************************************************************************)
EXTENDS GeoProvider, TLC

MCSlotsOf   == 1 :> <<"country4">>
MCInitFiles == 1 :> 0
=============================================================================
