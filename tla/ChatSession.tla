---------------------------- MODULE ChatSession ----------------------------
(***************************************************************************)
(* One session of the conversational search                               *)
(* (backend/app/ai_search/service.py, session_store.py): a request loads   *)
(* the session from Redis, has the question interpreted by the LLM or,     *)
(* after three attempts, by the heuristics, acts on it, and saves the      *)
(* whole session.                                                          *)
(*                                                                         *)
(* Serial sessions are those of a user who gets every reply.  They overlap *)
(* when the panel gave a request up (an error of a proxy, say) and the     *)
(* user asks again while it still runs; what is on the screen is not       *)
(* followed then.                                                          *)
(*                                                                         *)
(* The category and the amenities stand for all parameters of a search:    *)
(* scalars are carried forward like the one, lists like the others.  The   *)
(* text of questions and answers, and the order of results, are left out;  *)
(* an interpretation may be anything that passes LLMResponse's validation. *)
(***************************************************************************)
EXTENDS Sessions, Naturals, Sequences, SequencesExt

CONSTANTS
    Categories,     \* listing categories
    Amenities,      \* amenities of the vocabulary
    Nothing,        \* no category, no amenity, or no session
    Unknown,        \* an amenity outside the vocabulary
    LlmAttempts,    \* attempts of _interpret_query
    MaxTurns,       \* MAX_TURNS
    ResultLimit     \* _CHAT_RESULT_LIMIT

\* A session keeps whole exchanges (MAX_TURNS is even); the enum of categories
\* and the vocabulary are finite.
ASSUME ChatAssumption ==
    /\ LlmAttempts \in Nat
    /\ MaxTurns \in Nat \ {0} /\ MaxTurns % 2 = 0
    /\ ResultLimit \in Nat \ {0}
    /\ IsFiniteSet(Categories) /\ IsFiniteSet(Amenities)
    /\ Nothing \notin Categories

VARIABLES
    market,     \* the public listings
    chat,       \* the session's value in Redis
    asked,      \* the open requests
    listed,     \* the results of the last reply that came from a search
    screen      \* the results in the window: those of the last reply

panelVars == <<listed, screen>>
chatVars == <<overlap, market, chat, asked, panelVars>>

Catalogue == [category : Categories, amenities : SUBSET Amenities]

Parameters == [category : Categories \cup {Nothing}, amenities : SUBSET Amenities]

NewSession == [parameters |-> [category |-> Nothing, amenities |-> {}], results |-> <<>>, turns |-> <<>>]

Ordinals == [kind : {"ordinal"}, index : 0 .. ResultLimit]

References ==
    Ordinals
        \cup [kind : {"filter"}, amenity : Amenities \cup {Unknown, Nothing}]
        \cup [kind : {"all", "action"}]

\* What the LLM or the heuristics make of a question; no reference is
\* treated like one to "all" results.
Interpretations ==
    [intent     : {"search", "clarification", "information", "transactional"},
     parameters : Parameters,
     reference  : References]

ChatInit ==
    /\ overlap \in Modes
    /\ market = Catalogue
    /\ chat = Nothing
    /\ asked = [w \in Workers |-> Idle]
    /\ listed = <<>>
    /\ screen = <<>>

-----------------------------------------------------------------------------
(* Parameters and results *)

Merged(previous, incoming) ==
    [category  |-> IF incoming.category # Nothing THEN incoming.category ELSE previous.category,
     amenities |-> previous.amenities \cup incoming.amenities]

\* The token of the vocabulary, if the amenity has one.
Normalised(amenity) == {amenity} \cap Amenities

Narrowed(parameters, amenity) ==
    [parameters EXCEPT !.amenities = @ \cup Normalised(amenity)]

Satisfies(listing, parameters) ==
    /\ listing.category = parameters.category
    /\ parameters.amenities \subseteq listing.amenities

\* _execute_search: the best of the public listings that match.
Found(parameters) ==
    LET ranked == SetToSeq({l \in market : Satisfies(l, parameters)}) IN
    SubSeq(ranked, 1, IF Len(ranked) < ResultLimit THEN Len(ranked) ELSE ResultLimit)

\* Fault: ordinals count from zero.
NthFromZero(results, n) == IF n + 1 \in DOMAIN results THEN <<results[n + 1]>> ELSE <<>>

\* The n-th of the last results, whether it is public still or not; or nothing.
Nth(results, n) == IF n \in DOMAIN results THEN <<results[n]>> ELSE <<>>

Resolved(reference, state, parameters) ==
    CASE reference.kind = "ordinal" -> Nth(state.results, reference.index)
      [] reference.kind = "filter" /\ reference.amenity # Nothing ->
             Nth(Found(Narrowed(parameters, reference.amenity)), 1)
      [] OTHER -> <<>>

\* The amenity a reference adds to the parameters, for whatever follows.
Refined(parameters, reference) ==
    IF reference.kind = "filter" THEN Narrowed(parameters, reference.amenity) ELSE parameters

-----------------------------------------------------------------------------
(* The replies: parameters, the results the session keeps, and what is shown *)

\* Results are shown and kept.
List(parameters) ==
    [parameters |-> parameters, results |-> Found(parameters), lists |-> TRUE, points |-> <<>>]

\* One listing is shown, or nothing (a question is asked back); what the session
\* keeps are still the results of the last search.
Point(state, parameters, listing) ==
    [parameters |-> parameters, results |-> state.results, lists |-> FALSE, points |-> listing]

AskBack(state, parameters) == Point(state, parameters, <<>>)

\* ChatResponse.results
Shown(reply) == IF reply.lists THEN reply.results ELSE reply.points

Search(state, parameters) ==
    IF parameters.category = Nothing THEN AskBack(state, parameters) ELSE List(parameters)

Clarify(state, parameters, reference) ==
    CASE reference.kind = "all" -> Search(state, parameters)
      [] reference.kind = "filter" /\ reference.amenity # Nothing -> List(Refined(parameters, reference))
      [] OTHER -> Point(state, parameters, Resolved(reference, state, parameters))

Transact(state, parameters, reference) ==
    LET selected == Resolved(reference, state, parameters)
        refined  == Refined(parameters, reference) IN
    IF selected = <<>> /\ Found(refined) # <<>>
    THEN List(refined)
    ELSE Point(state, refined, selected)

Reply(state, said) ==
    LET parameters == Merged(state.parameters, said.parameters) IN
    CASE said.intent = "information"   -> AskBack(state, state.parameters)
      [] said.intent = "clarification" -> Clarify(state, parameters, said.reference)
      [] said.intent = "transactional" -> Transact(state, parameters, said.reference)
      [] said.intent = "search"        -> Search(state, parameters)

-----------------------------------------------------------------------------
(* run_chat_query *)

LoadSession == IF chat = Nothing THEN NewSession ELSE chat

\* Without an LLM (StubLLMClient) the heuristics answer at once.
Ask(w) ==
    /\ asked[w] = Idle
    /\ MayStart(asked)
    /\ \E attempts \in {0, LlmAttempts} :
         asked' = [asked EXCEPT ![w] =
             [op |-> "interpret", state |-> LoadSession, attempts |-> attempts]]
    /\ UNCHANGED <<overlap, market, chat, panelVars>>

LlmFails(w) ==
    /\ asked[w].op = "interpret"
    /\ asked[w].attempts < LlmAttempts
    /\ asked' = [asked EXCEPT ![w].attempts = @ + 1]
    /\ UNCHANGED <<overlap, market, chat, panelVars>>

Handle(w, said) ==
    /\ asked[w].op = "interpret"
    /\ asked' = [asked EXCEPT ![w] =
         [op |-> "save", turns |-> asked[w].state.turns,
          ordinal |-> {r.index : r \in {said.reference} \cap Ordinals},
          reply |-> Reply(asked[w].state, said)]]
    /\ UNCHANGED <<overlap, market, chat, panelVars>>

LlmAnswers(w) ==
    /\ asked[w].op = "interpret" /\ asked[w].attempts < LlmAttempts
    /\ \E said \in Interpretations : Handle(w, said)

\* _heuristic_interpretation
FallBack(w) ==
    /\ asked[w].op = "interpret" /\ asked[w].attempts = LlmAttempts
    /\ \E said \in Interpretations : Handle(w, said)

Trimmed(turns) ==
    IF Len(turns) > MaxTurns THEN SubSeq(turns, Len(turns) - MaxTurns + 1, Len(turns)) ELSE turns

\* SessionStore.save, and the reply: the panel's window is of its results, or is
\* closed when it has none.
Save(w) ==
    LET reply == asked[w].reply IN
    /\ asked[w].op = "save"
    /\ chat' = [parameters |-> reply.parameters,
                results    |-> reply.results,
                turns      |-> Trimmed(asked[w].turns \o <<"user", "assistant">>)]
    /\ IF overlap THEN UNCHANGED panelVars
       ELSE /\ listed' = IF reply.lists THEN reply.results ELSE listed
            /\ screen' = Shown(reply)
    /\ asked' = [asked EXCEPT ![w] = Idle]
    /\ UNCHANGED <<overlap, market>>

\* The database or Redis fails, and the panel shows an error.
AskFails(w) ==
    /\ asked[w] # Idle
    /\ asked' = [asked EXCEPT ![w] = Idle]
    /\ UNCHANGED <<overlap, market, chat, panelVars>>

\* SESSION_TTL_SECONDS after the last save.
Expire ==
    /\ chat # Nothing
    /\ chat' = Nothing
    /\ UNCHANGED <<overlap, market, asked, panelVars>>

\* "New chat" deletes the session and goes on under a new id; what is still
\* running saves under the old one, which nobody uses again.
NewChat ==
    /\ chat' = Nothing
    /\ listed' = <<>>
    /\ screen' = <<>>
    /\ asked' = [w \in Workers |-> Idle]
    /\ UNCHANGED <<overlap, market>>

\* Listings are published and taken down.
MarketMoves ==
    /\ \E l \in Catalogue : market' = (IF l \in market THEN market \ {l} ELSE market \cup {l})
    /\ UNCHANGED <<overlap, chat, asked, panelVars>>

ChatNext ==
    \/ \E w \in Workers : Ask(w) \/ LlmFails(w) \/ LlmAnswers(w) \/ FallBack(w) \/ Save(w) \/ AskFails(w)
    \/ Expire \/ NewChat \/ MarketMoves

ChatSpec == ChatInit /\ [][ChatNext]_chatVars

-----------------------------------------------------------------------------
(* Properties *)

\* Types; a stored session consists of whole exchanges, question before
\* answer, whatever was trimmed (session_store.py: MAX_TURNS).
ChatTypeOK ==
    /\ market \subseteq Catalogue
    /\ chat # Nothing =>
         /\ chat.parameters \in Parameters
         /\ chat.results \in BoundedSeq(Catalogue, ResultLimit)
         /\ Len(chat.turns) <= MaxTurns
         /\ \A i \in DOMAIN chat.turns : chat.turns[i] = IF i % 2 = 1 THEN "user" ELSE "assistant"
    /\ \A w \in Workers : asked[w] = Idle \/ asked[w].op \in {"interpret", "save"}
    /\ {listed, screen} \subseteq BoundedSeq(Catalogue, ResultLimit)

\* "The second one" is the second listing of the window the user looks at, if
\* that shows more than one, and of the list before it otherwise, or nothing:
\* after the session expired, after a new chat, after replies that listed nothing
\* or one listing, and although the market moves (_resolve_listing_reference).
OrdinalIsInTheList ==
    \A w \in Workers :
        asked[w].op = "save" /\ asked[w].reply.points # <<>> =>
            \A index \in asked[w].ordinal :
                LET seen == IF Len(screen) > 1 THEN screen ELSE listed IN
                \/ overlap
                \/ index \in DOMAIN seen /\ asked[w].reply.points = <<seen[index]>>

\* However requests overlap and overwrite each other's session, its results
\* are those of a search: without a category there are none (run_chat_query).
NoCategoryNoResults ==
    chat # Nothing /\ chat.parameters.category = Nothing => chat.results = <<>>

\* The stored session, what a turn points at and the lists the user was shown
\* belong together (ai_search/service.py, session_store.py).
ChatInv == ChatTypeOK /\ OrdinalIsInTheList /\ NoCategoryNoResults
=============================================================================
