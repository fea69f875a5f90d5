--------------------------- MODULE AckedDelivery ---------------------------
(***************************************************************************)
(* What the acknowledged bridge between the shoreside and the vehicles     *)
(* (pAckedCommsShoreside with pAckedCommsVehicle) promises to the operator *)
(* who posts a variable, without its retransmissions, its numbering or its *)
(* network: a request that was accepted is resolved once, and it is        *)
(* confirmed only if it reached its vehicle.  A request that was abandoned *)
(* may have arrived, or may still arrive.                                  *)
(***************************************************************************)

CONSTANT Request        \* the identities a request may have

VARIABLES accepted,     \* the requests the operator has made
          arrived,      \* the requests published in their vehicle's community
          confirmed,    \* those the operator was told had succeeded
          abandoned     \* those the operator was told had failed

vars == <<accepted, arrived, confirmed, abandoned>>

Pending == accepted \ (confirmed \cup abandoned)

Init == /\ accepted = {}
        /\ arrived = {}
        /\ confirmed = {}
        /\ abandoned = {}

\* One post is one request, or one for each vehicle when it is a broadcast.
Accept == \E new \in SUBSET (Request \ accepted) :
            /\ accepted' = accepted \cup new
            /\ UNCHANGED <<arrived, confirmed, abandoned>>

\* A request arrives whatever the operator has been told of it.
Arrive == \E r \in accepted :
            /\ arrived' = arrived \cup {r}
            /\ UNCHANGED <<accepted, confirmed, abandoned>>

Confirm(r) == /\ r \in Pending \cap arrived
              /\ confirmed' = confirmed \cup {r}
              /\ UNCHANGED <<accepted, arrived, abandoned>>

Abandon(gone) == /\ gone \subseteq Pending
                 /\ abandoned' = abandoned \cup gone
                 /\ UNCHANGED <<accepted, arrived, confirmed>>

Next == \/ Accept
        \/ Arrive
        \/ \E r \in Request : Confirm(r)
        \/ \E gone \in SUBSET Request : Abandon(gone)

\* Request r is resolved, one way or the other.
Resolve(r) == \/ Confirm(r)
              \/ \E gone \in SUBSET Request : r \in gone /\ Abandon(gone)

SafeSpec == Init /\ [][Next]_vars

Spec == SafeSpec /\ \A r \in Request : WF_vars(Resolve(r))
=============================================================================
