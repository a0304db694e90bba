----------------------------- MODULE OrderPanel -----------------------------
(***************************************************************************)
(* The order panel of a card's page (frontend/src/components/card-detail/  *)
(* OrderPanel.tsx) and its quote (frontend/src/hooks/useTradeQuote.ts): an *)
(* effect per order entered waits for the user to stop typing, asks for a  *)
(* quote, counts its seconds down and asks again.  Answers come in any     *)
(* order, or not at all, and may belong to an effect that has been cleaned *)
(* up.                                                                     *)
(***************************************************************************)
EXTENDS Integers, FiniteSets

CONSTANTS Orders,         \* a type and a number of shares
          NoOrder,        \* no shares entered
          QuoteTTL,       \* QUOTE_TTL_SECONDS
          MaxAsked        \* quote requests under way at once, the bound of Second

ASSUME OrderPanelAssumption ==
    NoOrder \notin Orders /\ QuoteTTL \in Nat \ {0} /\ MaxAsked \in Nat \ {0}

VARIABLES
    mounted,    \* the panel is on the page
    order,      \* the inputs
    quote,      \* what is shown: [order, loading, failed, seconds]
    debounce,   \* the effect's timer is running
    asked       \* quote requests under way: [id, order, token, cancelled]

panelVars == <<mounted, order, quote, debounce, asked>>

NoQuote == [order |-> NoOrder, loading |-> FALSE, failed |-> FALSE, seconds |-> 0]

PanelInit ==
    /\ mounted = FALSE
    /\ order = NoOrder
    /\ quote = NoQuote
    /\ debounce = FALSE
    /\ asked = {}

\* The cleanup of an effect: its answers will not count.
Cancelled(requests) == {[a EXCEPT !.cancelled = TRUE] : a \in requests}

\* The panel comes with its page, and goes with it; requests stay under way.
ShowPanel(shown, requests) ==
    /\ mounted' = shown
    /\ order' = NoOrder /\ quote' = NoQuote /\ debounce' = FALSE
    /\ asked' = Cancelled(requests)

\* The inputs change.  What was shown stays until the next answer, unless there
\* is nothing to ask for.
SetOrder(o) ==
    /\ mounted /\ o # order
    /\ order' = o
    /\ asked' = Cancelled(asked)
    /\ debounce' = (o # NoOrder)
    /\ quote' = IF o = NoOrder THEN NoQuote ELSE quote
    /\ UNCHANGED mounted

\* Mutant of Outdated: a request outdates those before it.
AllOutdated(requests) == Cancelled(requests)

\* The requests an effect has sent before stay good.
Outdated(requests) == requests

\* fetchQuote.  Ids only tell the requests under way from each other.
Ids == 1..(MaxAsked + 1)

Ask(token) ==
    /\ LET id == CHOOSE n \in Ids : \A a \in asked : a.id # n
       IN  asked' = Outdated(asked) \cup
              {[id |-> id, order |-> order, token |-> token, cancelled |-> FALSE]}
    /\ quote' = [quote EXCEPT !.loading = TRUE, !.failed = FALSE]

\* The user has stopped typing.
Debounced(token) ==
    /\ debounce /\ Cardinality(asked) <= MaxAsked
    /\ debounce' = FALSE
    /\ Ask(token)
    /\ UNCHANGED <<mounted, order>>

\* The interval of the effect: with a second left it asks again, every second
\* until an answer sets the countdown.
Second(token) ==
    /\ mounted /\ order # NoOrder
    /\ quote.order # NoOrder
    /\ IF quote.seconds <= 1
       THEN Cardinality(asked) < MaxAsked /\ Ask(token)
       ELSE quote' = [quote EXCEPT !.seconds = @ - 1] /\ UNCHANGED asked
    /\ UNCHANGED <<mounted, order, debounce>>

\* Mutant of Counts: the answers of effects that are over count as well.
EveryAnswerCounts(a) == mounted

Counts(a) == ~a.cancelled

Quoted(a) ==
    /\ a \in asked
    /\ asked' = asked \ {a}
    /\ quote' = IF Counts(a)
                THEN [order |-> a.order, loading |-> FALSE, failed |-> FALSE,
                      seconds |-> QuoteTTL]
                ELSE quote
    /\ UNCHANGED <<mounted, order, debounce>>

AfterFailure == [NoQuote EXCEPT !.failed = TRUE]

\* Refused, or lost on the way.
QuoteFails(a) ==
    /\ a \in asked
    /\ asked' = asked \ {a}
    /\ quote' = IF Counts(a) THEN AfterFailure ELSE quote
    /\ UNCHANGED <<mounted, order, debounce>>

\* The button of the panel works as long as any quote is shown.
CanSubmit == mounted /\ order # NoOrder /\ quote.order # NoOrder

-----------------------------------------------------------------------------
(* Correctness.                                                            *)

\* With nothing typed and nothing asked for since, the quote shown is that of the
\* inputs, in whatever order the answers came that were under way.
QuoteIsOfInputs ==
    ~debounce /\ ~quote.loading => quote.order \in {NoOrder, order}

\* Inputs that are left alone are quoted in the end, or it is said that they can
\* not be.
InputsAreQuoted ==
    \A o \in Orders :
        order = o ~> \/ order # o \/ quote.failed
                     \/ quote.order = o /\ ~debounce
=============================================================================
