-------------------------------- MODULE Deal --------------------------------
(***************************************************************************)
(* What agreements/service.py promises of the agreement for each offer:    *)
(* DRAFT, PARTIAL_SIGNED, PENDING_PAYMENT, SIGNED in this order, the last  *)
(* step only once the fees it asks for are settled.                        *)
(***************************************************************************)
CONSTANT OfferId

VARIABLES
    stage,      \* how far the agreement for each offer has come
    settled     \* have the fees it asks for been paid in full?

vars == <<stage, settled>>

Init ==
    /\ stage   = [o \in OfferId |-> "none"]
    /\ settled = [o \in OfferId |-> FALSE]

Advance(o, from, to) ==
    /\ stage[o] = from
    /\ stage' = [stage EXCEPT ![o] = to]
    /\ UNCHANGED settled

DrawUp(o) == Advance(o, "none", "DRAFT")

SignFirst(o) == Advance(o, "DRAFT", "PARTIAL_SIGNED")

SignSecond(o) == Advance(o, "PARTIAL_SIGNED", "PENDING_PAYMENT")

Settle(o) ==
    /\ stage[o] = "PENDING_PAYMENT"
    /\ ~settled[o]
    /\ settled' = [settled EXCEPT ![o] = TRUE]
    /\ UNCHANGED stage

Complete(o) == settled[o] /\ Advance(o, "PENDING_PAYMENT", "SIGNED")

Next ==
    \E o \in OfferId :
        DrawUp(o) \/ SignFirst(o) \/ SignSecond(o) \/ Settle(o) \/ Complete(o)

Spec == Init /\ [][Next]_vars
=============================================================================
