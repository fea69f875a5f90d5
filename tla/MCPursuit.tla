----------------------------- MODULE MCPursuit ------------------------------
(* The pursuit or the sharing of positions, which follow slots with the same engine.  *)
(* Each is checked by itself, with schedules in the order and roughly the proportions *)
(* of the missions PursuitFourSlot, PursuitInterleaved and TDOA_centralized.           *)
EXTENDS Pursuit, Tdoa

VARIABLE part

Multicast == [lengths |-> <<2, 1, 2, 1, 2, 1, 2, 1>>,
              times |-> <<0, 2, 3, 5, 6, 8, 9, 11>>, period |-> 12]
Interleaved == [lengths |-> <<2, 1, 2, 1, 2, 1, 2, 1, 2, 1, 2, 1>>,
                times |-> <<0, 2, 3, 5, 6, 8, 9, 11, 12, 14, 15, 17>>, period |-> 18]

MCShoreSchedule == [mode \in BOOLEAN |-> IF mode THEN Multicast ELSE Interleaved]

MCVehicleSchedule ==
  [mode \in BOOLEAN |->
     IF mode THEN [lengths |-> <<3, 3, 3, 3>>, times |-> <<0, 3, 6, 9>>, period |-> 12]
     ELSE [lengths |-> <<3, 3, 3, 3, 3, 3>>, times |-> <<0, 3, 6, 9, 12, 15>>, period |-> 18]]

MCTdoaShore == [lengths |-> <<2, 1, 3, 3, 2, 1, 3>>, times |-> <<0, 2, 3, 6, 9, 11, 12>>, period |-> 15]
MCTdoaVehicle == [lengths |-> <<2, 1, 3, 3, 3, 3>>, times |-> <<0, 2, 3, 6, 9, 12>>, period |-> 15]

\* They are what appendSlot makes of the configured lengths.
ASSUME AsConfigured ==
  \A mode \in BOOLEAN :
    \A sched \in {MCShoreSchedule[mode], MCVehicleSchedule[mode], MCTdoaShore, MCTdoaVehicle} :
      sched = Schedule(sched.lengths)

MCInit ==
  /\ Init /\ TdoaInit
  /\ part \in {"pursuit", "positions"}
  /\ part = "positions" => multicast

MCNext ==
  /\ UNCHANGED part
  /\ \/ part = "pursuit" /\ Next /\ UNCHANGED tdoaVars
     \/ part = "positions" /\ TdoaNext /\ UNCHANGED vars
  /\ orders' + late' <= MaxOrders    \* bound: oversleeping counts like an order

MCSpec == MCInit /\ [][MCNext]_<<part, vars, tdoaVars>>
=============================================================================
