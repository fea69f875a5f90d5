---------------------------- MODULE MCMicroModem ----------------------------
(* A small instance of MicroModem for TLC. *)
EXTENDS MicroModem

Changes == [kind : {"RATE"}, rate : {"FSK0", "MINI", "REMUS_LBL"}]
           \cup [kind : {"LOCKOUT"}, on : BOOLEAN]

\* Data, and a pre-built protobuf with neither data nor rate.
Requests == {[kind |-> "DATA", data |-> TRUE],
             [kind |-> "PREBUILT", data |-> FALSE, rateSet |-> FALSE]}

Others == {[kind |-> "RATE", rate |-> "unsupported"], [kind |-> "LOGGER_DIRECTORY"]}

\* Each mail by itself, and a request with a mail that changes it, in both orders.
MCBatch == {<<m>> : m \in Changes \cup Requests \cup Others}
           \cup (Changes \X Requests) \cup (Requests \X Changes)
=============================================================================
