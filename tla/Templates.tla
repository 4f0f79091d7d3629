----------------------------- MODULE Templates -----------------------------
(***************************************************************************)
(* The notification templates (backend/app/notifications/templates.py) and *)
(* the payloads of the calls of dispatch_notification.  A renderer is the  *)
(* set of the payload's keys it puts into the message; a payload is the    *)
(* set of its keys that have a value, not an empty string or None.         *)
(***************************************************************************)
Title == "listing_title"

\* What each renderer shows.
BadgeIssuedEmail == {Title, "badge_type"}
BadgeIssuedWhatsApp == {Title}
ListingQueriedEmail == {Title, "note"}
ListingRejectedEmail == {Title, "note"}
NewOfferWhatsApp == {Title, "offer_amount"}
OtpWhatsApp == {"code"}
OfferAcceptedEmail == {Title, "offer_amount", "visit_required"}
OfferAcceptedWhatsApp == {Title}
OfferCounteredWhatsApp == {Title, "offer_amount"}
OfferExpiringEmail == {Title, "hours_remaining"}
OfferExpiringWhatsApp == {Title, "hours_remaining"}
OfferExpiredEmail == {Title}
OfferExpiredWhatsApp == {Title}
VisitAssignedWhatsApp == {Title}
VisitConfirmedEmail == {Title, "scheduled_at", "agent_first_name"}
VisitConfirmedWhatsApp == {Title, "scheduled_at"}
VisitCancelledEmail == {Title, "reason", "cancelled_by"}
VisitCancelledWhatsApp == {Title}
VisitReportApprovedEmail == {Title}
AgreementReadyEmail == {Title, "agreement_type"}
AgreementReadyWhatsApp == {Title}
AgreementSignedEmail == {Title}
SalesInvoiceEmail == {"amount", "due_at", "invoice_url"}
BookingRequestedEmail == {Title, "nights", "amount", "decision_deadline"}
BookingRequestedWhatsApp == {Title, "nights"}
BookingConfirmedEmail == {Title, "check_in", "check_out"}
BookingConfirmedWhatsApp == {Title, "check_in", "check_out"}
BookingDeclinedEmail == {Title, "reason"}
BookingCancelledEmail == {Title, "reason"}
AccessDetailsEmail == {Title, "access_details"}
AccessDetailsWhatsApp == {Title}
HostPayoutEmail == {"amount", Title}
RenewalPromptEmail == {Title, "days_remaining"}
NinVerifiedEmail == {"first_name"}
NinRejectedEmail == {"first_name", "note"}

\* The keys a renderer replaces with words of its own when they are missing
\* ("the property", "your BeeBop agent", "the other party"...), or leaves out
\* with the text around them (the link to an invoice).
HasWording == {Title, "badge_type", "agent_first_name", "cancelled_by", "first_name", "invoice_url"}

Email(shown) == [channel \in {"EMAIL"} |-> shown]
WhatsApp(shown) == [channel \in {"WHATSAPP"} |-> shown]
Both(email, whatsapp) == [channel \in {"EMAIL", "WHATSAPP"} |-> IF channel = "EMAIL" THEN email ELSE whatsapp]
Unrendered == [channel \in {} |-> {}]

Template(event, channels, render) == [event |-> event, channels |-> channels, render |-> render]
InApp(event, render) == Template(event, {"IN_APP"}, render)
ByEmail(event, render) == Template(event, {"EMAIL", "IN_APP"}, render)
ByWhatsApp(event, render) == Template(event, {"WHATSAPP", "IN_APP"}, render)
Everywhere(event, render) == Template(event, {"EMAIL", "WHATSAPP", "IN_APP"}, render)

ExpiringRender == Both(OfferExpiringEmail, OfferExpiringWhatsApp)

\* One template for an event.
REGISTRY ==
    {ByEmail("landlord.nin_verified", Email(NinVerifiedEmail)),
     ByEmail("landlord.nin_rejected", Email(NinRejectedEmail)),
     Everywhere("badge.issued", Both(BadgeIssuedEmail, BadgeIssuedWhatsApp)),
     ByEmail("listing.queried", Email(ListingQueriedEmail)),
     ByEmail("listing.rejected", Email(ListingRejectedEmail)),
     ByWhatsApp("offer.received", WhatsApp(NewOfferWhatsApp)),
     Everywhere("offer.accepted", Both(OfferAcceptedEmail, OfferAcceptedWhatsApp)),
     InApp("offer.rejected", Unrendered),
     ByWhatsApp("offer.countered", WhatsApp(OfferCounteredWhatsApp)),
     InApp("offer.expiring", ExpiringRender),
     Everywhere("offer.expiring_urgent", ExpiringRender),
     Everywhere("offer.expired", Both(OfferExpiredEmail, OfferExpiredWhatsApp)),
     ByWhatsApp("visit.assigned", WhatsApp(VisitAssignedWhatsApp)),
     Everywhere("visit.confirmed", Both(VisitConfirmedEmail, VisitConfirmedWhatsApp)),
     Everywhere("visit.cancelled", Both(VisitCancelledEmail, VisitCancelledWhatsApp)),
     ByEmail("visit_report.approved", Email(VisitReportApprovedEmail)),
     InApp("visit_report.queried", Unrendered),
     Everywhere("agreement.ready_to_sign", Both(AgreementReadyEmail, AgreementReadyWhatsApp)),
     ByEmail("agreement.signed", Email(AgreementSignedEmail)),
     ByEmail("sales.invoice_issued", Email(SalesInvoiceEmail)),
     ByEmail("agreement.renewal_prompt", Email(RenewalPromptEmail)),
     Everywhere("booking.requested", Both(BookingRequestedEmail, BookingRequestedWhatsApp)),
     Everywhere("booking.confirmed", Both(BookingConfirmedEmail, BookingConfirmedWhatsApp)),
     ByEmail("booking.declined", Email(BookingDeclinedEmail)),
     Everywhere("booking.cancelled", Email(BookingCancelledEmail)),
     Everywhere("access_details.released", Both(AccessDetailsEmail, AccessDetailsWhatsApp)),
     ByEmail("host.payout", Email(HostPayoutEmail)),
     Template("otp.requested", {"WHATSAPP"}, WhatsApp(OtpWhatsApp))}

-----------------------------------------------------------------------------
(* The calls of dispatch_notification: the event and the payload's keys that *)
(* some renderer shows.  Two calls may lack a value: Paystack's answer to an *)
(* invoice may have no link, and a host may have saved no access details.    *)

Call(event, payload) == [event |-> event, payload |-> payload]

CallOfferReceived == Call("offer.received", {Title, "offer_amount"})
CallOfferCountered == Call("offer.countered", {Title, "offer_amount"})
CallOfferAccepted == Call("offer.accepted", {Title, "offer_amount", "visit_required"})
CallOfferRejected == Call("offer.rejected", {Title})
CallOfferExpired == Call("offer.expired", {Title})
CallOfferUrgent == Call("offer.expiring_urgent", {Title, "hours_remaining"})
CallOfferExpiring == Call("offer.expiring", {Title, "hours_remaining"})
CallAgentConflict == Call("visit.cancelled", {Title, "reason"})
CallVisitConfirmed == Call("visit.confirmed", {Title, "scheduled_at", "agent_first_name"})
CallVisitCancelled == Call("visit.cancelled", {Title, "reason", "cancelled_by"})
CallReportApproved == Call("visit_report.approved", {Title})
CallReportQueried == Call("visit_report.queried", {"note"})
CallVisitAssigned == Call("visit.assigned", {Title})
CallAgreementReady == Call("agreement.ready_to_sign", {Title, "agreement_type"})
CallInvoiceIssued == Call("sales.invoice_issued", {"amount", "due_at", "invoice_url"})
CallInvoiceWithoutLink == Call("sales.invoice_issued", {"amount", "due_at"})
CallAgreementSigned == Call("agreement.signed", {Title})
CallRenewalPrompt == Call("agreement.renewal_prompt", {Title, "days_remaining"})
CallInstantBooking == Call("booking.confirmed", {Title, "check_in", "check_out"})
CallBookingRequested == Call("booking.requested", {Title, "nights", "amount", "decision_deadline"})
CallRequestAccepted == Call("booking.confirmed", {Title, "check_in", "check_out"})
\* Fault: the host's reason is left out.
DeclinedWithoutReason == Call("booking.declined", {Title})

CallRequestDeclined == Call("booking.declined", {Title, "reason"})
CallRequestLapsed == Call("booking.declined", {Title, "reason"})
CallBookingCancelled == Call("booking.cancelled", {Title, "reason"})
CallAccessReleased == Call("access_details.released", {Title, "access_details", "check_in"})
CallAccessWithoutDetails == Call("access_details.released", {Title, "check_in"})
CallHostPayout == Call("host.payout", {"amount", Title})
CallBadgeAwarded == Call("badge.issued", {Title, "badge_type"})
CallListingQueried == Call("listing.queried", {Title, "note"})
CallListingRejected == Call("listing.rejected", {Title, "note"})
CallNinVerified == Call("landlord.nin_verified", {"first_name"})
CallNinRejected == Call("landlord.nin_rejected", {"first_name", "note"})
CallInspectionSubmitted == Call("inspection.submitted", {Title})

Calls ==
    {CallOfferReceived, CallOfferCountered, CallOfferAccepted, CallOfferRejected,
     CallOfferExpired, CallOfferUrgent, CallOfferExpiring, CallAgentConflict,
     CallVisitConfirmed, CallVisitCancelled, CallReportApproved, CallReportQueried,
     CallVisitAssigned, CallAgreementReady, CallInvoiceIssued, CallAgreementSigned,
     CallRenewalPrompt, CallInstantBooking, CallBookingRequested, CallRequestAccepted,
     CallRequestDeclined, CallRequestLapsed, CallBookingCancelled, CallAccessReleased,
     CallHostPayout, CallBadgeAwarded, CallListingQueried, CallListingRejected,
     CallNinVerified, CallNinRejected, CallInspectionSubmitted,
     CallInvoiceWithoutLink, CallAccessWithoutDetails}
=============================================================================
