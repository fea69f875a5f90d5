--------------------------- MODULE MCAcommsNetwork ---------------------------
(* Small instances of AcommsNetwork for TLC. *)
EXTENDS AcommsNetwork

CONSTANTS a, b, c

\* A mini packet; the second rate is refused.
MCBatch == {<<[kind |-> "RATE", rate |-> "MINI"],
              [kind |-> "RATE", rate |-> "unsupported"],
              [kind |-> "DATA", data |-> TRUE]>>}

\* The others are at some distance from a and close to each other.
MCFlight == [v \in Vehicle |-> [w \in Vehicle |-> IF a \in {v, w} THEN 1 ELSE 0]]
=============================================================================
