-------------------------------- MODULE Otp ---------------------------------
(***************************************************************************)
(* One-time passwords (backend/app/auth/otp_service.py): the codes and the *)
(* request counters in Redis.                                              *)
(*                                                                         *)
(* A request is a sequence of commands to Redis, each of which takes       *)
(* effect at once; it may end after any of them (OtpFails).  When overlap  *)
(* holds, the commands of different requests interleave.  Redis drops a    *)
(* key when its TTL ends: ExpireCode and EndWindow, at any moment.  A code *)
(* is known by the number of codes before it; 0 was never sent.            *)
(***************************************************************************)
EXTENDS Naturals, Sessions

CONSTANTS
    Address,              \* emails, in lower case, and telephone numbers
    RateLimit,            \* REQUEST_RATE_LIMIT
    MaxVerifyAttempts,
    MaxCodes, MaxWindows  \* bounds

ASSUME OtpAssumption ==
    /\ {RateLimit, MaxVerifyAttempts} \subseteq Nat \ {0}
    /\ {MaxCodes, MaxWindows} \subseteq Nat

VARIABLES
    code,       \* Redis otp:*, the code and the wrong guesses counted
    rate,       \* Redis otp-rate:*, the counter and whether it has a TTL
    otpCall,    \* the request each worker has open
    sent,       \* the last code
    windows,    \* ghost: how often the counter of an address has ended
    codesFor,   \* ghost: codes stored for an address
    guesses,    \* ghost: wrong guesses at a code, of those judged
    uses        \* ghost: how often a code was accepted

otpVars == <<code, rate, otpCall, sent, windows, codesFor, guesses, uses, overlap>>

NoCode == [number |-> 0, attempts |-> 0]

OtpInit ==
    /\ code      = [a \in Address |-> NoCode]
    /\ rate      = [a \in Address |-> [count |-> 0, ends |-> FALSE]]
    /\ otpCall   = [w \in Workers |-> Idle]
    /\ sent      = 0
    /\ windows   = [a \in Address |-> 0]
    /\ codesFor  = [a \in Address |-> 0]
    /\ guesses   = [c \in 1..MaxCodes |-> 0]
    /\ uses      = [c \in 1..MaxCodes |-> 0]
    /\ overlap \in Modes

OtpEnter(w, request) ==
    /\ otpCall[w] = Idle
    /\ MayStart(otpCall)
    /\ otpCall' = [otpCall EXCEPT ![w] = request]

OtpLeave(w)  == otpCall' = [otpCall EXCEPT ![w] = Idle]
OtpAt(w, op) == otpCall[w].op = op

\* The worker dies, or Redis does not answer.
OtpFails(w) ==
    /\ otpCall[w] # Idle
    /\ OtpLeave(w)
    /\ UNCHANGED <<code, rate, sent, windows, codesFor, guesses, uses, overlap>>

-----------------------------------------------------------------------------
(* OtpService.request *)

WithinLimit(count) == count <= RateLimit

\* INCR; the counter of a refused request goes on, which tells nothing.
RequestOtp(w, a) ==
    LET count == rate[a].count + 1 IN
    /\ sent < MaxCodes /\ count <= RateLimit + 1
    /\ rate' = [rate EXCEPT ![a].count = count]
    /\ IF WithinLimit(count)
       THEN OtpEnter(w, [op |-> "send", address |-> a, first |-> count = 1])
       ELSE OtpEnter(w, Idle)                            \* otp_rate_limited
    /\ UNCHANGED <<code, sent, windows, codesFor, guesses, uses, overlap>>

\* EXPIRE, only by the request that made the key
SetWindow(w) ==
    /\ OtpAt(w, "send") /\ otpCall[w].first
    /\ rate' = [rate EXCEPT ![otpCall[w].address].ends = TRUE]
    /\ otpCall' = [otpCall EXCEPT ![w].first = FALSE]
    /\ UNCHANGED <<code, sent, windows, codesFor, guesses, uses, overlap>>

\* SET, over the code before it, and delivery
StoreCode(w) ==
    /\ OtpAt(w, "send") /\ ~otpCall[w].first
    /\ sent < MaxCodes
    /\ sent' = sent + 1
    /\ code' = [code EXCEPT ![otpCall[w].address] = [number |-> sent', attempts |-> 0]]
    /\ codesFor' = [codesFor EXCEPT ![otpCall[w].address] = @ + 1]
    /\ OtpLeave(w)
    /\ UNCHANGED <<rate, windows, guesses, uses, overlap>>

EndWindow(a) ==
    /\ rate[a].ends
    /\ windows[a] < MaxWindows
    /\ rate' = [rate EXCEPT ![a] = [count |-> 0, ends |-> FALSE]]
    /\ windows' = [windows EXCEPT ![a] = @ + 1]
    /\ UNCHANGED <<code, otpCall, sent, codesFor, guesses, uses, overlap>>

ExpireCode(a) ==
    /\ code[a] # NoCode
    /\ code' = [code EXCEPT ![a] = NoCode]
    /\ UNCHANGED <<rate, otpCall, sent, windows, codesFor, guesses, uses, overlap>>

-----------------------------------------------------------------------------
(* OtpService.verify *)

VerifyOtp(w, a, guess) ==
    /\ code[a] # NoCode                                  \* otp_missing
    /\ OtpEnter(w, [op |-> "judge", address |-> a, guess |-> guess, seen |-> code[a]])
    /\ UNCHANGED <<code, rate, sent, windows, codesFor, guesses, uses, overlap>>

MayGuess(seen) == seen.attempts < MaxVerifyAttempts

Judge(w, right) ==
    /\ OtpAt(w, "judge") /\ MayGuess(otpCall[w].seen)
    /\ right <=> otpCall[w].guess = otpCall[w].seen.number
    /\ OtpLeave(w)

\* otp_attempts_exceeded
DropCode(w) ==
    /\ OtpAt(w, "judge") /\ ~MayGuess(otpCall[w].seen)
    /\ code' = [code EXCEPT ![otpCall[w].address] = NoCode]
    /\ OtpLeave(w)
    /\ UNCHANGED <<rate, sent, windows, codesFor, guesses, uses, overlap>>

\* Fault: a wrong guess is not counted.
NotCounted(seen) == seen

Counted(seen) == [seen EXCEPT !.attempts = @ + 1]

\* otp_mismatch: the record that was read is written back, whatever is there now.
CountGuess(w) ==
    LET seen == otpCall[w].seen IN
    /\ Judge(w, FALSE)
    /\ guesses[seen.number] <= MaxVerifyAttempts         \* bound
    /\ code' = [code EXCEPT ![otpCall[w].address] = Counted(seen)]
    /\ guesses' = [guesses EXCEPT ![seen.number] = @ + 1]
    /\ UNCHANGED <<rate, sent, windows, codesFor, uses, overlap>>

Used(record) == NoCode

AcceptCode(w) ==
    LET seen == otpCall[w].seen IN
    /\ Judge(w, TRUE)
    /\ uses[seen.number] < 2                             \* bound
    /\ code' = [code EXCEPT ![otpCall[w].address] = Used(@)]
    /\ uses' = [uses EXCEPT ![seen.number] = @ + 1]
    /\ UNCHANGED <<rate, sent, windows, codesFor, guesses, overlap>>

-----------------------------------------------------------------------------
OtpNext ==
    \/ \E w \in Workers :
        \/ \E a \in Address : RequestOtp(w, a) \/ \E guess \in 0..sent : VerifyOtp(w, a, guess)
        \/ SetWindow(w) \/ StoreCode(w)
        \/ DropCode(w) \/ CountGuess(w) \/ AcceptCode(w)
        \/ OtpFails(w)
    \/ \E a \in Address : EndWindow(a) \/ ExpireCode(a)

OtpSpec == OtpInit /\ [][OtpNext]_otpVars

-----------------------------------------------------------------------------
(* Properties *)

\* Types and bounds of the records in Redis; the attempts of a record stop at
\* MaxVerifyAttempts also when guesses overlap.
OtpTypeOK ==
    \A a \in Address :
        /\ code[a].number \in 0..sent /\ code[a].attempts \in 0..MaxVerifyAttempts
        /\ rate[a].count \in 0..(RateLimit + 1) /\ rate[a].ends \in BOOLEAN

\* An address is sent at most REQUEST_RATE_LIMIT codes per window of its
\* counter, whatever requests overlap, die or are late.
CodesPerWindow ==
    \A a \in Address : codesFor[a] <= RateLimit * (1 + windows[a])

\* When requests do not overlap, a code bears MAX_VERIFY_ATTEMPTS wrong guesses
\* and no more, although each of them writes the whole record again.
GuessesAreLimited ==
    ~overlap => \A c \in 1..sent : guesses[c] <= MaxVerifyAttempts

\* ... and it is accepted once ("so the same code cannot be reused").
CodeWorksOnce ==
    ~overlap => \A c \in 1..sent : uses[c] <= 1

\* The limits of otp_service.py hold through expiries, crashes between two Redis
\* commands and late answers.
OtpInv == OtpTypeOK /\ CodesPerWindow /\ GuessesAreLimited /\ CodeWorksOnce
=============================================================================
