--------------------------- MODULE MCInternetTask ---------------------------
(* Small instances of InternetTask: two networks, of which one accepts the *)
(* device.                                                                 *)
EXTENDS InternetTask

CONSTANTS home, other

MCNetworks == {home, other}
=============================================================================
