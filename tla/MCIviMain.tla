------------------------------- MODULE MCIviMain -------------------------------
(* IviMain for TLC: a light, the seat and a fan.                           *)
EXTENDS IviMain

CONSTANTS beam, seat, fan

MCOrder == <<beam, seat, fan>>

MCOthers == [s \in Signals |->
  CASE s = beam -> {0, 1} [] s = seat -> {2} [] s = fan -> {55, 255}]
=============================================================================
