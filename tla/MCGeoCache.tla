------------------------------ MODULE MCGeoCache ------------------------------
(* Instances of GeoCache for TLC: one public and one private address.      *)
EXTENDS GeoCache

CONSTANTS c1, c2, home, lan
=============================================================================
