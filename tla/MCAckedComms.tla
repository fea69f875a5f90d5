---------------------------- MODULE MCAckedComms ----------------------------
(* Small instances of AckedComms for TLC. *)
EXTENDS AckedComms, TLC

CONSTANTS v1, typo, x, y

OneVehicle == <<v1>>

\* A variable that is sent again and, if there are two, one that is not.
MCRepeat == [z \in Var |-> IF z = x THEN 2 ELSE 1]
=============================================================================
