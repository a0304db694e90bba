------------------------------ MODULE Browser ------------------------------
(***************************************************************************)
(* A browser on the API: the session it keeps (frontend/src/stores/        *)
(* authStore.ts), the forms that log in and sign up, the order panel and   *)
(* its trade (hooks/useExecuteTrade.ts), and the holdings it has loaded    *)
(* (hooks/useHoldings.ts, a query of TanStack Query).  Every call is sent, *)
(* served and answered in steps of its own, or lost, in any order with     *)
(* what the user does meanwhile: log out, log in as somebody else.         *)
(***************************************************************************)
EXTENDS OrderPanel, Accounts

CONSTANTS FirstSession,   \* a token kept from before
          Loads           \* what a behaviour is about: whether there is such a token,
                          \* the orders and the credentials [name, password] typed,
                          \* and how many presses of the button, forms sent, and
                          \* disturbances (calls lost, tokens expired, refetches)

NoToken == [user |-> "nobody", serial |-> 0]

ASSUME BrowserAssumption ==
    \* Nobody is a name, and who has a token has logged in with a password.
    /\ NoToken.user \notin Names
    /\ FirstSession \in [user : DOMAIN SeededAccounts, serial : {1}]
    /\ SeededAccounts[FirstSession.user] # NoPassword
    /\ \A load \in Loads :
          /\ load.in \in BOOLEAN /\ load.orders \subseteq Orders
          /\ \A c \in load.credentials : c.name \in Names /\ c.password \in Passwords
          /\ load.presses \in Nat /\ load.forms \in Nat
          \* A query gives up after a third failure: below that, it is retried.
          /\ load.disturbances \in 0..2

VARIABLES
    token, user,    \* the session: the user shown is the token's
    typed,          \* the password it was opened with (auxiliary)
    calls,          \* calls under way, see Call
    pending,        \* the press whose trade the panel waits for, or 0
    presses,        \* how often the button was pressed
    holdings,       \* the cached query: [of, trades, fetching, stale]
    confirmed,      \* trades confirmed while holdings were shown (auxiliary)
    strayed,        \* the user shown is that of another session's trade (auxiliary)
    load, forms, disturbances

session     == <<token, user, typed, strayed>>
tradeVars   == <<pending, presses, confirmed>>
bounds      == <<load, forms, disturbances>>
browserVars == <<panelVars, accountVars, session, calls, tradeVars, holdings, bounds>>

NotLoaded == [of |-> NoToken, trades |-> {}, fetching |-> FALSE, stale |-> FALSE]
Loaded == holdings.of # NoToken

\* A call: what was sent, and what the server has answered so far.
Call == [kind |-> "none", token |-> NoToken, name |-> "nobody", password |-> "none",
         press |-> 0, reply |-> "none", trades |-> {}, session |-> NoToken]

HoldingsCall(t) == [Call EXCEPT !.kind = "holdings", !.token = t]
TradeCall(t, p) == [Call EXCEPT !.kind = "trade", !.token = t, !.press = p]
FormCall(form, c) ==
    [Call EXCEPT !.kind = form, !.name = c.name, !.password = c.password,
                 !.press = forms + 1]

BrowserInit ==
    /\ load \in Loads
    /\ AccountsInit(IF load.in THEN {FirstSession} ELSE {})
    /\ PanelInit
    /\ token = NoToken /\ user = "nobody" /\ typed = NoPassword
    /\ strayed = FALSE
    /\ calls = {}
    /\ pending = 0 /\ presses = 0 /\ confirmed = {}
    /\ holdings = NotLoaded
    /\ forms = 0 /\ disturbances = 0

Disturbed ==
    /\ disturbances < load.disturbances
    /\ disturbances' = disturbances + 1
    /\ UNCHANGED <<load, forms>>

-----------------------------------------------------------------------------
(* The session.                                                            *)

\* setSession.
OpenSession(t, password) ==
    /\ token' = t /\ user' = t.user /\ typed' = password
    /\ strayed' = FALSE

\* The page of a card comes up behind the login, if it is not there already, and
\* loads the holdings unless they are there and not stale; c is answered by then.
EnterPages(t, c) ==
    IF token # NoToken
    THEN calls' = calls \ {c} /\ UNCHANGED <<panelVars, holdings>>
    ELSE /\ ShowPanel(TRUE, asked)
         /\ \/ /\ ~holdings.fetching
               /\ holdings' = [holdings EXCEPT !.fetching = TRUE]
               /\ calls' = (calls \ {c}) \cup {HoldingsCall(t)}
            \/ /\ holdings.fetching \/ (Loaded /\ ~holdings.stale)
               /\ calls' = calls \ {c}
               /\ UNCHANGED holdings

\* Opened again with a session kept in the browser's storage.
Reopen ==
    /\ load.in /\ token = NoToken /\ issued = 1 /\ forms = 0
    /\ FirstSession \in valid
    /\ presses = 0 /\ holdings = NotLoaded
    /\ OpenSession(FirstSession, accounts[FirstSession.user])
    /\ EnterPages(FirstSession, Call)
    /\ UNCHANGED <<accountVars, tradeVars, bounds>>

\* logout: what is behind the login goes.  Calls under way stay so.
Logout(requests) ==
    /\ token' = NoToken /\ user' = "nobody" /\ typed' = NoPassword
    /\ ShowPanel(FALSE, requests)
    /\ pending' = 0
    /\ strayed' = FALSE

PressLogout ==
    /\ token # NoToken
    /\ Logout(asked)
    /\ UNCHANGED <<accountVars, calls, presses, confirmed, holdings, bounds>>

\* A form is sent.  Its button is disabled until the answer, but only as long as
\* the page is not left: who comes back to it may send it again.
SendForm(form, c) ==
    /\ token = NoToken
    /\ forms < load.forms /\ forms' = forms + 1
    /\ calls' = calls \cup {FormCall(form, c)}
    /\ UNCHANGED <<panelVars, accountVars, session, tradeVars, holdings, load, disturbances>>

-----------------------------------------------------------------------------
(* The panel.                                                              *)

\* While a trade is waited for, the shares can not be changed; the type can.
Type(o) ==
    /\ o \in load.orders \cup {NoOrder}
    /\ \/ pending = 0
       \/ NoOrder \notin {o, order} /\ o.shares = order.shares
    /\ SetOrder(o)
    /\ UNCHANGED <<accountVars, session, calls, tradeVars, holdings, bounds>>

Wait ==
    /\ Debounced(token) \/ Second(token)
    /\ UNCHANGED <<accountVars, session, calls, tradeVars, holdings, bounds>>

\* The quote's handler is behind RequireAuth, too.  A 401 to any call ends the
\* session there is, be it a later one.
AnswerQuote(a) ==
    \/ /\ Authorized(a.token)
       /\ \/ Quoted(a) /\ UNCHANGED bounds
          \/ QuoteFails(a) /\ Disturbed
       /\ UNCHANGED <<accountVars, session, calls, tradeVars, holdings>>
    \/ /\ ~Authorized(a.token)
       /\ a \in asked
       /\ Logout(asked \ {a})
       /\ UNCHANGED <<accountVars, calls, presses, confirmed, holdings, bounds>>

\* Every press of the button sends a trade under a new key.
Submit ==
    /\ CanSubmit /\ pending = 0
    /\ presses < load.presses /\ presses' = presses + 1
    /\ pending' = presses + 1
    /\ calls' = calls \cup {TradeCall(token, presses + 1)}
    /\ UNCHANGED <<panelVars, accountVars, session, confirmed, holdings, bounds>>

-----------------------------------------------------------------------------
(* Calls.                                                                  *)

Answer(c, answered) == calls' = (calls \ {c}) \cup {answered}
Reply(c, reply) == Answer(c, [c EXCEPT !.reply = reply])

\* The server handles a call.
Serve(c) ==
    /\ c \in calls /\ c.reply = "none"
    /\ CASE c.kind = "register" ->
              /\ Register(c.name, c.password)
              /\ Reply(c, IF NameFree(c.name) THEN "ok" ELSE "refused")
         [] c.kind = "login" ->
              /\ Login(c.name, c.password)
              /\ IF LoginOk(c.name, c.password)
                 THEN Answer(c, [c EXCEPT !.reply = "ok", !.session = TokenOf(c.name)])
                 ELSE Reply(c, "refused")
         [] OTHER ->
              IF ~Authorized(c.token)
              THEN Reply(c, "unauthorized") /\ UNCHANGED accountVars
              ELSE IF c.kind = "trade"
              THEN \/ ExecuteTrade(c.token, c.press) /\ Reply(c, "ok")
                   \/ Reply(c, "refused") /\ UNCHANGED accountVars
              ELSE /\ Answer(c, [c EXCEPT !.reply = "ok",
                                        !.trades = HoldingsOf(c.token.user)])
                   /\ UNCHANGED accountVars
    /\ UNCHANGED <<panelVars, session, tradeVars, holdings, bounds>>

\* Answers to the forms.  The register form logs in, unless it has been left.
DeliverForm(c) ==
    /\ c.kind \in {"register", "login"}
    /\ CASE c.reply = "ok" /\ c.kind = "login" ->
              /\ OpenSession(c.session, c.password)
              /\ EnterPages(c.session, c)
         [] c.reply = "ok" /\ c.kind = "register" ->
              /\ \/ calls' = (calls \ {c}) \cup
                               {[c EXCEPT !.kind = "login", !.reply = "none"]}
                 \/ calls' = calls \ {c}
              /\ UNCHANGED <<panelVars, session, holdings>>
         [] OTHER ->
              calls' = calls \ {c} /\ UNCHANGED <<panelVars, session, holdings>>
    /\ UNCHANGED <<accountVars, tradeVars, bounds>>

\* Cancelled, a fetch is not heard any more; its 401 still is.
Drop(c) == [c EXCEPT !.kind = "dropped"]

\* Mutant of Refetched: a fetch under way is joined, whatever it is about.
Joined(left) ==
    IF holdings.fetching THEN left ELSE left \cup {HoldingsCall(token)}

\* A fetch under way is cancelled and started anew.
Refetched(left) ==
    {IF d.kind = "holdings" THEN Drop(d) ELSE d : d \in left}
        \cup {HoldingsCall(token)}

\* invalidateQueries.  What is not shown is only marked; a first fetch under way
\* is joined.
Invalidate(left) ==
    IF mounted /\ (Loaded \/ ~holdings.fetching)
    THEN /\ holdings' = [holdings EXCEPT !.fetching = TRUE, !.stale = TRUE]
         /\ calls' = Refetched(left)
    ELSE /\ holdings' = [holdings EXCEPT !.stale = TRUE]
         /\ calls' = left

\* The panel that waits for the trade, if it is still there, is cleared.
ClearPanel(c) ==
    IF pending = c.press
    THEN /\ pending' = 0 /\ order' = NoOrder /\ quote' = NoQuote /\ debounce' = FALSE
         /\ asked' = Cancelled(asked)
         /\ UNCHANGED mounted
    ELSE UNCHANGED <<panelVars, pending>>

\* onSuccess of the mutation runs whatever has become of the panel or the session.
DeliverTrade(c) ==
    /\ c.kind = "trade" /\ c.reply = "ok"
    /\ user' = c.token.user
    /\ strayed' = (c.token.user # token.user)
    /\ ClearPanel(c)
    /\ Invalidate(calls \ {c})
    /\ confirmed' = IF mounted /\ Loaded
                    THEN confirmed \cup {[user |-> c.token.user, press |-> c.press]}
                    ELSE confirmed
    /\ UNCHANGED <<accountVars, token, typed, presses, bounds>>

Released(c) == IF pending = c.press THEN 0 ELSE pending

DeliverRefusal(c) ==
    /\ c.kind = "trade" /\ c.reply = "refused"
    /\ pending' = Released(c)
    /\ calls' = calls \ {c}
    /\ UNCHANGED <<panelVars, accountVars, session, presses, confirmed, holdings, bounds>>

DeliverHoldings(c) ==
    /\ c.kind \in {"holdings", "dropped"} /\ c.reply = "ok"
    /\ holdings' = IF c.kind = "holdings"
                   THEN [of |-> c.token, trades |-> c.trades,
                         fetching |-> FALSE, stale |-> FALSE]
                   ELSE holdings
    /\ calls' = calls \ {c}
    /\ UNCHANGED <<panelVars, accountVars, session, tradeVars, bounds>>

\* handleUnauthorized: any 401 ends the session there is.
DeliverUnauthorized(c) ==
    /\ c.reply = "unauthorized"
    /\ Logout(asked)
    /\ holdings' = [holdings EXCEPT !.fetching = @ /\ c.kind # "holdings"]
    /\ calls' = calls \ {c}
    /\ UNCHANGED <<accountVars, presses, confirmed, bounds>>

Deliver(c) ==
    /\ c \in calls /\ c.reply # "none"
    /\ \/ DeliverForm(c)
       \/ DeliverTrade(c)
       \/ DeliverRefusal(c)
       \/ DeliverHoldings(c)
       \/ DeliverUnauthorized(c)

\* A call is lost on its way there, or its answer on the way back.  Queries are
\* asked again, in the session there is by then; nothing else is.
Lose(c) ==
    /\ c \in calls /\ c.kind \notin {"dropped"} /\ Disturbed
    /\ calls' = (calls \ {c}) \cup
          (IF c.kind = "holdings" THEN {HoldingsCall(token)} ELSE {})
    /\ pending' = IF c.kind = "trade" THEN Released(c) ELSE pending
    /\ UNCHANGED <<panelVars, accountVars, session, presses, confirmed, holdings>>

\* Holdings shown go stale after a while; the window gets the focus back.
Focus ==
    /\ mounted /\ Loaded /\ ~holdings.fetching /\ Disturbed
    /\ holdings' = [holdings EXCEPT !.fetching = TRUE]
    /\ calls' = calls \cup {HoldingsCall(token)}
    /\ UNCHANGED <<panelVars, accountVars, session, tradeVars>>

-----------------------------------------------------------------------------
\* Somebody signs up from elsewhere.
OthersRegister(c) ==
    /\ forms < load.forms /\ forms' = forms + 1
    /\ Register(c.name, c.password)
    /\ UNCHANGED <<panelVars, session, calls, tradeVars, holdings, load, disturbances>>

TokenExpires ==
    /\ \E t \in valid : Expire(t)
    /\ Disturbed
    /\ UNCHANGED <<panelVars, session, calls, tradeVars, holdings>>

Next ==
    \/ Reopen
    \/ PressLogout
    \/ \E c \in load.credentials : SendForm("register", c) \/ SendForm("login", c)
    \/ \E c \in load.credentials : OthersRegister(c)
    \/ \E o \in Orders \cup {NoOrder} : Type(o)
    \/ Wait
    \/ \E a \in asked : AnswerQuote(a)
    \/ Submit
    \/ \E c \in calls : Serve(c) \/ Deliver(c) \/ Lose(c)
    \/ Focus
    \/ TokenExpires

Spec == BrowserInit /\ [][Next]_browserVars

\* Timers fire, and a quote asked for is answered or fails.
Fairness ==
    /\ WF_browserVars(Debounced(token) /\ UNCHANGED
          <<accountVars, session, calls, tradeVars, holdings, bounds>>)
    /\ \A n \in Ids :
          WF_browserVars(\E a \in asked : a.id = n /\ AnswerQuote(a))

FairSpec == Spec /\ Fairness

-----------------------------------------------------------------------------
(* Correctness, besides QuoteIsOfInputs and InputsAreQuoted.               *)

\* Once a browser that showed its user's holdings has had a trade confirmed, the
\* holdings it shows contain that trade, or are being fetched: an answer from
\* before the trade never comes to stay, whoever logs in and out meanwhile.
HoldingsCoverTrades ==
    Loaded /\ ~holdings.fetching /\ holdings.of.user = token.user =>
        {t \in confirmed : t.user = token.user} \subseteq holdings.trades

\* A session is its user's, who typed the password of the account to open it: no
\* sign-up from elsewhere, late answer or logout leaves another's.  Excepted is a
\* user shown for a trade answered to a later session.
SessionIsOwners ==
    ~strayed =>
        IF token = NoToken
        THEN user = "nobody"
        ELSE user = token.user /\ typed # NoPassword /\ accounts[token.user] = typed
=============================================================================
