------------------------------- MODULE Logins -------------------------------
(***************************************************************************)
(* What auth/refresh_store.py promises of the logins behind the refresh    *)
(* tokens: a user has one at a time, it lasts until the next one, a        *)
(* logout or a replay, and from then on nothing brings it back.            *)
(***************************************************************************)
EXTENDS Naturals

CONSTANTS
    Users,
    Login        \* a set of positive numbers

VARIABLES
    live,        \* the login of each user, 0 when there is none
    begun        \* the logins each user ever began

vars == <<live, begun>>

Init ==
    /\ live  = [u \in Users |-> 0]
    /\ begun = [u \in Users |-> {}]

Begin(u) ==
    \E l \in Login :
        /\ \A v \in Users : l \notin begun[v]
        /\ live'  = [live EXCEPT ![u] = l]
        /\ begun' = [begun EXCEPT ![u] = @ \cup {l}]

End(u) ==
    /\ live[u] # 0
    /\ live' = [live EXCEPT ![u] = 0]
    /\ UNCHANGED begun

Next == \E u \in Users : Begin(u) \/ End(u)

Spec == Init /\ [][Next]_vars
=============================================================================
