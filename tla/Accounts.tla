------------------------------ MODULE Accounts ------------------------------
(***************************************************************************)
(* Accounts and refresh tokens (backend/app/auth/service.py and            *)
(* refresh_store.py): the login behind an accepted code, the rotation of   *)
(* refresh tokens, logout, and the other places that write an email.       *)
(*                                                                         *)
(* A login has a step for each statement to the database and each command  *)
(* to Redis; the row it inserts is there from the commit, the token it     *)
(* records is there at once.  A request may end after any step             *)
(* (AccountsFail).  Access tokens are not stored and not modelled, and     *)
(* nothing in the program makes an account inactive.                       *)
(***************************************************************************)
EXTENDS Naturals, FiniteSets, Sessions

CONSTANTS
    Users,              \* identities of the rows of table users
    Emails, Phones,     \* addresses
    None,               \* NULL in a column, or no row
    MaxTokens           \* bound

ASSUME AccountsAssumption ==
    /\ MaxTokens \in Nat
    /\ Emails \cap Phones = {}

VARIABLES
    account,    \* table users: email and phone
    current,    \* Redis refresh:user:*, 0 when absent
    authCall,   \* the request each worker has open
    issued,     \* the last refresh token
    owner,      \* whose token it is
    handed,     \* tokens that reached the client
    exchanges,  \* ghost: how often a token was exchanged for a new one
    family,     \* ghost: the login a token goes back to
    burnt       \* ghost: logins ended by a replay or a logout

tokens      == <<issued, owner, family>>
accountVars == <<account, current, authCall, tokens, handed, exchanges, burnt, overlap>>

-----------------------------------------------------------------------------
(* Data *)

\* What is typed for an address: with capital letters, or without.
Spelling == [address : Emails, capital : BOOLEAN] \cup [address : Phones, capital : {FALSE}]

Lower(id)   == [id EXCEPT !.capital = FALSE]
IsEmail(id) == id.address \in Emails
Typed(addresses) == {id \in Spelling : id.address \in addresses}

\* email None is the pending-...@beebop.ng of an account that came by WhatsApp.
Account == [email : Spelling \cup {None}, phone : Spelling \cup {None}]

ASSUME NullAssumption == None \notin Spelling \cup Account

Exists(u) == account[u] # None

AccountsInit ==
    /\ account   = [u \in Users |-> None]
    /\ current   = [u \in Users |-> 0]
    /\ authCall  = [w \in Workers |-> Idle]
    /\ issued    = 0
    /\ owner     = [t \in 1..MaxTokens |-> None]
    /\ handed    = {}
    /\ exchanges = [t \in 1..MaxTokens |-> 0]
    /\ family    = [t \in 1..MaxTokens |-> 0]
    /\ burnt     = {}
    /\ overlap \in Modes

Enter(w, request) ==
    /\ authCall[w] = Idle
    /\ MayStart(authCall)
    /\ authCall' = [authCall EXCEPT ![w] = request]

Continue(w, request) == authCall' = [authCall EXCEPT ![w] = request]
Leave(w)  == Continue(w, Idle)
At(w, op) == authCall[w].op = op

\* The worker dies, or Redis or the database fails: nothing is committed.
AccountsFail(w) ==
    /\ authCall[w] # Idle
    /\ Leave(w)
    /\ UNCHANGED <<account, current, tokens, handed, exchanges, burnt, overlap>>

-----------------------------------------------------------------------------
(* verify_otp_and_issue_tokens *)

\* The column is compared with what was typed.
Matches(id) ==
    {u \in Users : Exists(u) /\ id = (IF IsEmail(id) THEN account[u].email ELSE account[u].phone)}

\* A code sent to the address has been accepted (module Otp).
LogIn(w, id) ==
    /\ Enter(w, [op |-> "look_up", id |-> id])
    /\ UNCHANGED <<account, current, tokens, handed, exchanges, burnt, overlap>>

LookUp(w) ==
    LET id    == authCall[w].id
        found == Matches(id)
    IN  /\ At(w, "look_up")
        /\ \/ /\ Cardinality(found) > 1                  \* scalar_one_or_none raises
              /\ Leave(w)
           \/ /\ Cardinality(found) = 1
              /\ \E u \in found : Continue(w, [op |-> "issue", user |-> u, new |-> None])
           \/ /\ found = {}
              /\ Continue(w, [op |-> "insert", id |-> id])
        /\ UNCHANGED <<current, account, tokens, handed, exchanges, burnt, overlap>>

NewAccount(id) == [email |-> IF IsEmail(id) THEN id ELSE None,
                   phone |-> IF IsEmail(id) THEN None ELSE id]

Adding(w) == authCall[w] # Idle /\ authCall[w].op \in {"issue", "commit"} /\ authCall[w].new # None
EmailTaken(e) == e # None /\ \E u \in Users : Exists(u) /\ account[u].email = e
EmailWaits(e) == e # None /\ \E w \in Workers : Adding(w) /\ authCall[w].new.email = e
Free == {u \in Users : ~Exists(u) /\ \A w \in Workers : ~(Adding(w) /\ authCall[w].user = u)}

\* INSERT waits for an uncommitted row with its email, and fails on a committed
\* one; there is no such index on phone.
Insert(w) ==
    LET new == NewAccount(authCall[w].id) IN
    /\ At(w, "insert")
    /\ ~EmailWaits(new.email)
    /\ IF EmailTaken(new.email)
       THEN Leave(w)
       ELSE \E u \in Free : Continue(w, [op |-> "issue", user |-> u, new |-> new])
    /\ UNCHANGED <<current, account, tokens, handed, exchanges, burnt, overlap>>

NewToken(u, root) ==
    /\ issued < MaxTokens
    /\ issued' = issued + 1
    /\ owner'  = [owner EXCEPT ![issued'] = u]
    /\ family' = [family EXCEPT ![issued'] = IF root = 0 THEN issued' ELSE root]

\* _issue_token_pair, before the commit
IssueTokens(w) ==
    /\ At(w, "issue")
    /\ NewToken(authCall[w].user, 0)
    /\ current' = [current EXCEPT ![authCall[w].user] = issued']
    /\ Continue(w, [op |-> "commit", user |-> authCall[w].user, new |-> authCall[w].new,
                    token |-> issued'])
    /\ UNCHANGED <<account, handed, exchanges, burnt, overlap>>

CommitLogin(w) ==
    LET r == authCall[w] IN
    /\ At(w, "commit")
    /\ account' = IF r.new = None THEN account ELSE [account EXCEPT ![r.user] = r.new]
    /\ handed'  = handed \cup {r.token}
    /\ Leave(w)
    /\ UNCHANGED <<current, tokens, exchanges, burnt, overlap>>

-----------------------------------------------------------------------------
(* rotate_refresh_token and logout *)

\* Fault: a token is believed for its signature.
IsSigned(t) == t \in 1..issued

IsCurrent(t) == current[owner[t]] = t

Refresh(w, t) ==
    /\ t \in handed
    /\ Enter(w, [op |-> IF IsCurrent(t) THEN "rotate" ELSE "revoke", token |-> t])
    /\ UNCHANGED <<current, account, tokens, handed, exchanges, burnt, overlap>>

\* Fault: a replay is refused and nothing more.
StillCurrent(token) == token

Revoked(token) == 0

\* refresh_replay
Revoke(w) ==
    /\ At(w, "revoke")
    /\ current' = [current EXCEPT ![owner[authCall[w].token]] = Revoked(@)]
    /\ burnt' = burnt \cup {family[authCall[w].token]}
    /\ Leave(w)
    /\ UNCHANGED <<account, tokens, handed, exchanges, overlap>>

NowCurrent(old, new) == new

Rotate(w) ==
    LET t == authCall[w].token
        u == owner[t]
    IN  /\ At(w, "rotate")
        /\ NewToken(u, family[t])
        /\ current'   = [current EXCEPT ![u] = NowCurrent(@, issued')]
        /\ handed'    = handed \cup {issued'}
        /\ exchanges' = [exchanges EXCEPT ![t] = @ + 1]
        /\ Leave(w)
        /\ UNCHANGED <<account, burnt, overlap>>

Logout(u) ==
    /\ Exists(u) /\ current[u] # 0
    /\ MayStart(authCall)
    /\ burnt' = burnt \cup {family[current[u]]}
    /\ current' = [current EXCEPT ![u] = 0]
    /\ UNCHANGED <<account, authCall, tokens, handed, exchanges, overlap>>

-----------------------------------------------------------------------------
(* set_identity and the invitations *)

\* Only an account that came by WhatsApp may still set its email; it is
\* written in lower case.
OpenIdentity(w, u, id) ==
    /\ Exists(u) /\ account[u].email = None
    /\ Enter(w, [op |-> "identity", user |-> u, email |-> Lower(id)])
    /\ UNCHANGED <<current, account, tokens, handed, exchanges, burnt, overlap>>

CommitIdentity(w) ==
    LET r == authCall[w] IN
    /\ At(w, "identity")
    /\ ~EmailWaits(r.email)
    /\ account' = IF EmailTaken(r.email) THEN account ELSE [account EXCEPT ![r.user].email = r.email]
    /\ Leave(w)
    /\ UNCHANGED <<current, tokens, handed, exchanges, burnt, overlap>>

\* invite_agent, invite_inspector: only the email is looked up, in lower case.
InviteStaff(id, phone) ==
    LET email == Lower(id) IN
    /\ MayStart(authCall)
    /\ ~EmailTaken(email) /\ ~EmailWaits(email)
    /\ \E u \in Free : account' = [account EXCEPT ![u] = [email |-> email, phone |-> phone]]
    /\ UNCHANGED <<current, authCall, tokens, handed, exchanges, burnt, overlap>>

-----------------------------------------------------------------------------
AccountsNext ==
    \/ \E w \in Workers :
        \/ \E id \in Spelling : LogIn(w, id)
        \/ LookUp(w) \/ Insert(w) \/ IssueTokens(w) \/ CommitLogin(w)
        \/ \E t \in 1..issued : Refresh(w, t)
        \/ Revoke(w) \/ Rotate(w)
        \/ \E u \in Users, id \in Typed(Emails) : OpenIdentity(w, u, id)
        \/ CommitIdentity(w)
        \/ AccountsFail(w)
    \/ \E u \in Users : Logout(u)
    \/ \E id \in Typed(Emails), phone \in Typed(Phones) \cup {None} : InviteStaff(id, phone)

AccountsSpec == AccountsInit /\ [][AccountsNext]_accountVars

-----------------------------------------------------------------------------
(* Properties *)

\* Types; every account has an address it can be found by.
AccountsTypeOK ==
    /\ current \in [Users -> 0..issued]
    /\ account \in [Users -> Account \cup {None}]
    /\ \A u \in Users : Exists(u) => account[u].email # None \/ account[u].phone # None
    /\ handed \subseteq 1..issued /\ burnt \subseteq 1..issued
    /\ \A t \in 1..issued : owner[t] \in Users /\ family[t] \in 1..t

\* When requests do not overlap, a refresh token is exchanged once.
TokenExchangedOnce ==
    ~overlap => \A t \in 1..issued : exchanges[t] <= 1

\* ... and after a replay or a logout no token that goes back to the same
\* login is current again: "forces re-login".
BurntIsDead ==
    ~overlap => \A u \in Users : current[u] # 0 => family[current[u]] \notin burnt

\* An email finds one row at most, whatever overlaps: a login that inserts waits
\* for another one that does.
EmailFindsOne ==
    \A id \in Spelling : IsEmail(id) => Cardinality(Matches(id)) <= 1

\* Logins, rotations, replays, logouts, identities and invitations, in any order
\* (auth/service.py, refresh_store.py).
AccountsInv == AccountsTypeOK /\ TokenExchangedOnce /\ BurntIsDead /\ EmailFindsOne

(* Refinement *)

\* The login whose token is current, and the logins a user began: the first
\* token of each gives it its number.
LoginOf == [u \in Users |-> IF current[u] = 0 THEN 0 ELSE family[current[u]]]
BegunBy == [u \in Users |-> {t \in 1..issued : family[t] = t /\ owner[t] = u}]

Lasting == INSTANCE Logins WITH Login <- 1..MaxTokens, live <- LoginOf, begun <- BegunBy

\* When requests do not overlap, accounts implement the abstract logins: a
\* rotation carries a login on, and one that was replaced or ended, by whatever
\* it was, never has a current token again (auth/refresh_store.py).
ImplementsLogins ==
    Lasting!Init /\ [][~overlap => [Lasting!Next]_(Lasting!vars)]_accountVars
=============================================================================
