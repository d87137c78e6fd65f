--------------------------- MODULE MCInstallService ---------------------------
(* InstallService for TLC: an app, a service with two APIs on CAN and two  *)
(* more, one of which shares an API with the first, the other has none.    *)
EXTENDS InstallService

CONSTANTS anApp, seatService, lightService, radio, seat, light

MCKindOf == [a \in Apps |-> IF a = anApp THEN "vehicle" ELSE "vehicle-service"]
MCApisOf == [a \in Apps |-> CASE a = seatService -> {seat, light}
                              [] a = lightService -> {light}
                              [] OTHER -> {}]
=============================================================================
