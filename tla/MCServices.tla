----------------------------- MODULE MCServices -----------------------------
(***************************************************************************)
(* Instances of Inspections, Valuation, SyncQueue, Notifications and       *)
(* Prices for TLC: a behaviour moves one of the five, which focus picks,   *)
(* and the others stay in one initial state.  When requests overlap,       *)
(* Inspections uses one report.                                            *)
(***************************************************************************)
EXTENDS Inspections, Valuation, SyncQueue, Notifications, Prices, TLC

VARIABLE focus

ListingToInspect == [assignable |-> TRUE, documented |-> TRUE, physical |-> 0]

MCInit ==
    /\ focus \in {"inspections", "valuation", "sync", "notifications", "prices"}
    /\ InspectionsInit /\ ValuationInit /\ SyncInit /\ NotificationsInit /\ PricesInit
    /\ focus # "inspections"   => subject = ListingToInspect
    /\ focus # "inspections"   => ~overlap
    /\ focus # "valuation"     => place = 4
    /\ focus # "sync"          => online
    /\ focus # "notifications" => call = CallOfferReceived /\ channel = "EMAIL" /\ phone
    /\ focus # "prices"        => deal = CHOOSE d \in Deals : TRUE

OneReportWhenOverlapping ==
    overlap => \A w \in Workers : review'[w] # Idle => review'[w].report = CHOOSE r \in ReportId : TRUE

MCNext ==
    \/ /\ focus = "inspections" /\ InspectionsNext /\ OneReportWhenOverlapping
       /\ UNCHANGED <<valuationVars, syncVars, notificationVars, priceVars, focus>>
    \/ /\ focus = "valuation" /\ ValuationNext
       /\ UNCHANGED <<inspectionVars, syncVars, notificationVars, priceVars, focus>>
    \/ /\ focus = "sync" /\ SyncNext
       /\ UNCHANGED <<inspectionVars, valuationVars, notificationVars, priceVars, focus>>
    \/ /\ focus = "notifications" /\ NotificationsNext
       /\ UNCHANGED <<inspectionVars, valuationVars, syncVars, priceVars, focus>>
    \/ /\ focus = "prices" /\ PricesNext
       /\ UNCHANGED <<inspectionVars, valuationVars, syncVars, notificationVars, focus>>

MCSpec ==
    MCInit /\ [][MCNext]_<<inspectionVars, valuationVars, syncVars, notificationVars, priceVars, focus>>

\* Fairness of SyncQueue and Notifications, whose actions are enabled in
\* their own behaviours only.
MCFairSpec == MCSpec /\ SyncFairness /\ DeliveryFairness
=============================================================================
