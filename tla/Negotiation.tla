----------------------------- MODULE Negotiation ----------------------------
(***************************************************************************)
(* What offers/service.py promises of the negotiations on a listing: every *)
(* seeker has at most one round awaiting an answer, rounds follow each     *)
(* other up to a cap, and an acceptance, once given, counts for good.      *)
(***************************************************************************)
EXTENDS Naturals

CONSTANTS Seekers, MaxRounds

VARIABLES
    live,    \* the round that awaits an answer for each seeker, 0 if none does
    deals    \* how many of each seeker's rounds have been accepted

vars == <<live, deals>>

Init ==
    /\ live  = [s \in Seekers |-> 0]
    /\ deals = [s \in Seekers |-> 0]

Submit(s) ==
    /\ live[s] = 0
    /\ live' = [live EXCEPT ![s] = 1]
    /\ UNCHANGED deals

Counter(s) ==
    /\ live[s] \in 1..(MaxRounds - 1)
    /\ live' = [live EXCEPT ![s] = @ + 1]
    /\ UNCHANGED deals

Accept(s) ==
    /\ live[s] > 0
    /\ live' = [live EXCEPT ![s] = 0]
    /\ deals' = [deals EXCEPT ![s] = @ + 1]

\* A rejection, or a sweep under which several rounds expire at once.
Lapse(S) ==
    /\ \A s \in S : live[s] > 0
    /\ live' = [s \in Seekers |-> IF s \in S THEN 0 ELSE live[s]]
    /\ UNCHANGED deals

Next ==
    \/ \E s \in Seekers : Submit(s) \/ Counter(s) \/ Accept(s)
    \/ \E S \in SUBSET Seekers : Lapse(S)

Spec == Init /\ [][Next]_vars
=============================================================================
