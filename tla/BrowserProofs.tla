--------------------------- MODULE BrowserProofs ---------------------------
(***************************************************************************)
(* Proofs about a browser on the API, for every set of accounts and every  *)
(* order of answers: whose session it has, what its holdings contain, and  *)
(* which order the quote it shows is of.                                   *)
(***************************************************************************)
EXTENDS Browser, FiniteSetTheorems, TLAPS

-----------------------------------------------------------------------------
(* Types.                                                                  *)

Tokens      == [user : Names, serial : Nat]
SomeTokens  == Tokens \cup {NoToken}
SomeOrders  == Orders \cup {NoOrder}
TradesMade  == [user : Names, press : Nat]
PasswordsOf == Passwords \cup {NoPassword}

Quotes == [order : SomeOrders, loading : BOOLEAN, failed : BOOLEAN, seconds : Int]

\* A request for a quote, whatever its id.
Asked(a) ==
    a \in [id : {a.id}, order : SomeOrders, token : SomeTokens, cancelled : BOOLEAN]

Kinds   == {"none", "holdings", "dropped", "trade", "register", "login"}
Replies == {"none", "ok", "refused", "unauthorized"}

CallsMade ==
    [kind : Kinds, token : SomeTokens, name : Names \cup {"nobody"},
     password : Passwords \cup {"none"}, press : Nat, reply : Replies,
     trades : SUBSET TradesMade, session : SomeTokens]

PanelTypeOK ==
    /\ mounted \in BOOLEAN
    /\ order \in SomeOrders
    /\ quote \in Quotes
    /\ debounce \in BOOLEAN
    /\ \A a \in asked : Asked(a)

AccountsTypeOK ==
    /\ issued \in Nat
    /\ valid \subseteq Tokens
    /\ executed \subseteq TradesMade

BrowserTypeOK ==
    /\ token \in SomeTokens
    /\ strayed \in BOOLEAN
    /\ pending \in Nat /\ presses \in Nat
    /\ holdings \in [of : SomeTokens, trades : SUBSET TradesMade,
                     fetching : BOOLEAN, stale : BOOLEAN]
    /\ load \in Loads /\ forms \in Nat /\ disturbances \in Nat

TypeOK == PanelTypeOK /\ AccountsTypeOK /\ BrowserTypeOK

-----------------------------------------------------------------------------
(* The invariants.                                                         *)

\* The answers that still count are to the inputs there are.
PanelInv ==
    /\ \A a \in asked : ~a.cancelled => a.order = order
    /\ QuoteIsOfInputs

\* Nobody loses an account, or its password, once there is one.
AccountsInv ==
    \A n \in DOMAIN SeededAccounts :
        n \in DOMAIN accounts /\ accounts[n] = SeededAccounts[n]

\* The password opens the account that the token is of.
Opens(password, t) ==
    /\ password # NoPassword
    /\ t.user \in DOMAIN accounts /\ accounts[t.user] = password

SessionInv ==
    /\ mounted <=> token # NoToken
    /\ ~strayed => user = token.user
    /\ token # NoToken => Opens(typed, token)

\* What trades hold of the trades confirmed to a user.
Covers(trades, u) == {t \in confirmed : t.user = u} \subseteq trades

\* Holdings that are not marked stale are complete, and what is shown stale is
\* being fetched.
HoldingsInv ==
    /\ confirmed \subseteq executed
    /\ Loaded /\ ~holdings.stale => Covers(holdings.trades, holdings.of.user)
    /\ mounted /\ Loaded /\ holdings.stale => holdings.fetching

IsForm(c) == c.kind \in {"register", "login"}

\* A form is filled in; a login answered opens its account, a trade answered has
\* been executed, and a fetch answered that will be heard is complete.
Sound(c) ==
    /\ c \in CallsMade
    /\ IsForm(c) => c.name \in Names /\ c.password \in Passwords
    /\ c.kind = "login" /\ c.reply = "ok" =>
          c.session # NoToken /\ Opens(c.password, c.session)
    /\ c.kind = "trade" /\ c.reply = "ok" =>
          [user |-> c.token.user, press |-> c.press] \in executed
    /\ c.kind = "holdings" /\ c.reply = "ok" => Covers(c.trades, c.token.user)

CallsInv == \A c \in calls : Sound(c)

IInv == TypeOK /\ PanelInv /\ AccountsInv /\ SessionInv /\ HoldingsInv /\ CallsInv

-----------------------------------------------------------------------------
(* Calls.                                                                  *)

\* The ways a call is changed.
FilledIn(c, form, name, password, press) ==
    [c EXCEPT !.kind = form, !.name = name, !.password = password, !.press = press]
Replied(c, reply)  == [c EXCEPT !.reply = reply]
LoggedIn(c, t)     == [c EXCEPT !.reply = "ok", !.session = t]
Fetched(c, trades) == [c EXCEPT !.reply = "ok", !.trades = trades]
LoginAfter(c)      == [c EXCEPT !.kind = "login", !.reply = "none"]

\* The calls a browser sends nobody has answered yet.
LEMMA NewCalls ==
    /\ Call \in CallsMade /\ Call.reply = "none"
    /\ \A t \in SomeTokens :
          /\ HoldingsCall(t) \in CallsMade /\ HoldingsCall(t).kind = "holdings"
          /\ HoldingsCall(t).reply = "none"
          /\ \A p \in Nat :
                /\ TradeCall(t, p) \in CallsMade /\ TradeCall(t, p).kind = "trade"
                /\ TradeCall(t, p).reply = "none"
  BY DEF Call, CallsMade, Kinds, Replies, SomeTokens, HoldingsCall, TradeCall

\* A form is a call with its name and password.
LEMMA FilledInCalls ==
    ASSUME NEW c \in CallsMade, NEW form \in {"register", "login"}, NEW name \in Names,
           NEW password \in Passwords, NEW press \in Nat
    PROVE  /\ FilledIn(c, form, name, password, press) \in CallsMade
           /\ FilledIn(c, form, name, password, press).kind = form
           /\ FilledIn(c, form, name, password, press).reply = c.reply
           /\ FilledIn(c, form, name, password, press).name = name
           /\ FilledIn(c, form, name, password, press).password = password
  BY DEF CallsMade, Kinds, FilledIn

\* An answer leaves what was sent as it is.
LEMMA RepliedCalls ==
    ASSUME NEW c \in CallsMade, NEW r \in Replies
    PROVE  /\ Replied(c, r) \in CallsMade
           /\ Replied(c, r).reply = r /\ Replied(c, r).kind = c.kind
           /\ Replied(c, r).token = c.token /\ Replied(c, r).press = c.press
           /\ Replied(c, r).name = c.name /\ Replied(c, r).password = c.password
  BY DEF CallsMade, Replied

\* The answer of a login that succeeds carries a session.
LEMMA LoggedInCalls ==
    ASSUME NEW c \in CallsMade, NEW t \in SomeTokens
    PROVE  /\ LoggedIn(c, t) \in CallsMade
           /\ LoggedIn(c, t).kind = c.kind /\ LoggedIn(c, t).session = t
           /\ LoggedIn(c, t).name = c.name /\ LoggedIn(c, t).password = c.password
  BY DEF CallsMade, Replies, LoggedIn

\* The answer of a fetch carries trades.
LEMMA FetchedCalls ==
    ASSUME NEW c \in CallsMade, NEW trades \in SUBSET TradesMade
    PROVE  /\ Fetched(c, trades) \in CallsMade
           /\ Fetched(c, trades).kind = c.kind /\ Fetched(c, trades).token = c.token
           /\ Fetched(c, trades).trades = trades
  BY DEF CallsMade, Replies, Fetched

\* The login after a registration has its name and password.
LEMMA LoginsAfter ==
    ASSUME NEW c \in CallsMade
    PROVE  /\ LoginAfter(c) \in CallsMade
           /\ LoginAfter(c).kind = "login" /\ LoginAfter(c).reply = "none"
           /\ LoginAfter(c).name = c.name /\ LoginAfter(c).password = c.password
  BY DEF CallsMade, Replies, Kinds, LoginAfter

\* A dropped call is a call.
LEMMA DroppedCalls ==
    ASSUME NEW c \in CallsMade
    PROVE  Drop(c) \in CallsMade /\ Drop(c).kind = "dropped"
  BY DEF CallsMade, Kinds, Drop

-----------------------------------------------------------------------------
(* The panel.                                                              *)

\* A cancelled request keeps what it asked.
LEMMA CancelledAsked ==
    ASSUME NEW requests, \A a \in requests : Asked(a)
    PROVE  \A a \in Cancelled(requests) : Asked(a) /\ a.cancelled
  BY DEF Cancelled, Asked

\* The press that is answered clears the panel.
PanelCleared ==
    /\ order' = NoOrder /\ quote' = NoQuote /\ debounce' = FALSE
    /\ asked' = Cancelled(asked)
    /\ UNCHANGED mounted

\* What a step of a browser does to the panel.
PanelStep ==
    \/ UNCHANGED panelVars
    \/ \E shown \in BOOLEAN, requests \in SUBSET asked : ShowPanel(shown, requests)
    \/ \E o \in SomeOrders : SetOrder(o)
    \/ Debounced(token) \/ Second(token)
    \/ \E a \in asked : Quoted(a) \/ QuoteFails(a)
    \/ PanelCleared

\* The panel's steps keep its types.
LEMMA PanelStepTypes ==
    ASSUME TypeOK, PanelStep
    PROVE  PanelTypeOK'
  <1> USE DEF TypeOK, PanelTypeOK, SomeOrders
  <1>1. NoQuote \in Quotes /\ AfterFailure \in Quotes
    <2>1. NoQuote \in Quotes
      BY DEF NoQuote, Quotes
    <2>2. [NoQuote EXCEPT !.failed = TRUE] \in Quotes
      BY <2>1 DEF Quotes
    <2>3. QED
      BY <2>1, <2>2 DEF AfterFailure
  <1>2. CASE UNCHANGED panelVars
    BY <1>2 DEF panelVars
  <1>3. ASSUME NEW shown \in BOOLEAN, NEW requests \in SUBSET asked,
               ShowPanel(shown, requests)
        PROVE  PanelTypeOK'
    BY <1>1, <1>3, CancelledAsked DEF ShowPanel
  <1>4. ASSUME NEW o \in SomeOrders, SetOrder(o)
        PROVE  PanelTypeOK'
    BY <1>1, <1>4, CancelledAsked DEF SetOrder
  <1>5. CASE Debounced(token) \/ Second(token)
    <2>1. ASSUME Ask(token), order' = order
          PROVE  quote' \in Quotes /\ \A a \in asked' : Asked(a)
      <3>1. quote' \in Quotes
        BY <2>1 DEF Ask, Quotes
      <3>2. \A i : Asked([id |-> i, order |-> order, token |-> token, cancelled |-> FALSE])
        BY DEF Asked, BrowserTypeOK
      <3>3. QED
        BY <2>1, <3>1, <3>2 DEF Ask, Outdated
    <2>2. CASE Debounced(token)
      BY <2>1, <2>2 DEF Debounced
    <2>3. CASE Second(token) /\ Ask(token)
      BY <2>1, <2>3 DEF Second
    <2>4. CASE Second(token) /\ ~Ask(token)
      BY <2>4 DEF Second, Quotes
    <2>5. QED
      BY <1>5, <2>2, <2>3, <2>4
  <1>6. ASSUME NEW a \in asked, Quoted(a) \/ QuoteFails(a)
        PROVE  PanelTypeOK'
    <2>1. QuoteTTL \in Int
      BY OrderPanelAssumption
    <2>2. [order |-> a.order, loading |-> FALSE, failed |-> FALSE, seconds |-> QuoteTTL]
             \in Quotes
      BY <2>1 DEF Quotes, Asked
    <2>3. QED
      BY <1>1, <1>6, <2>2 DEF Quoted, QuoteFails
  <1>7. CASE PanelCleared
    BY <1>1, <1>7, CancelledAsked DEF PanelCleared
  <1>8. QED
    BY <1>2, <1>3, <1>4, <1>5, <1>6, <1>7 DEF PanelStep

\* An answer counts only as long as the inputs are those it was asked for.
LEMMA PanelStepInv ==
    ASSUME TypeOK, PanelInv, PanelStep
    PROVE  PanelInv'
  <1> USE DEF TypeOK, PanelTypeOK, PanelInv, QuoteIsOfInputs
  <1>1. NoQuote.order = NoOrder /\ AfterFailure.order = NoOrder
    BY DEF NoQuote, AfterFailure
  <1>2. CASE UNCHANGED panelVars
    BY <1>2 DEF panelVars
  <1>3. ASSUME NEW shown \in BOOLEAN, NEW requests \in SUBSET asked,
               ShowPanel(shown, requests)
        PROVE  PanelInv'
    BY <1>1, <1>3, CancelledAsked DEF ShowPanel
  <1>4. ASSUME NEW o \in SomeOrders, SetOrder(o)
        PROVE  PanelInv'
    BY <1>1, <1>4, CancelledAsked DEF SetOrder
  <1>5. CASE Debounced(token) \/ Second(token)
    <2>1. ASSUME Ask(token), order' = order
          PROVE  quote'.loading /\ \A a \in asked' : ~a.cancelled => a.order = order
      BY <2>1 DEF Ask, Quotes, Outdated, Asked
    <2>2. CASE Debounced(token)
      BY <2>1, <2>2 DEF Debounced
    <2>3. CASE Second(token) /\ Ask(token)
      BY <2>1, <2>3 DEF Second
    <2>4. CASE Second(token) /\ ~Ask(token)
      BY <2>4 DEF Second, Quotes
    <2>5. QED
      BY <1>5, <2>2, <2>3, <2>4
  <1>6. ASSUME NEW a \in asked, Quoted(a) \/ QuoteFails(a)
        PROVE  PanelInv'
    BY <1>1, <1>6 DEF Quoted, QuoteFails, Quotes, Asked, Counts
  <1>7. CASE PanelCleared
    BY <1>1, <1>7, CancelledAsked DEF PanelCleared
  <1>8. QED
    BY <1>2, <1>3, <1>4, <1>5, <1>6, <1>7 DEF PanelStep

-----------------------------------------------------------------------------
(* The accounts.                                                           *)

\* What a step of a browser, or one elsewhere, does to the accounts.
AccountStep ==
    \/ UNCHANGED accountVars
    \/ \E name \in Names, password \in Passwords :
          Register(name, password) \/ Login(name, password)
    \/ \E t \in valid : Expire(t)
    \/ \E t \in valid, press \in Nat : ExecuteTrade(t, press)

\* Accounts keep their passwords, and trades are not undone.
AccountsGrow ==
    /\ \A n \in DOMAIN accounts : n \in DOMAIN accounts' /\ accounts'[n] = accounts[n]
    /\ executed \subseteq executed'

\* The server's steps keep its accounts: no password changes, and no trade that was
\* executed is lost.
LEMMA AccountStepInv ==
    ASSUME TypeOK, AccountsInv, AccountStep
    PROVE  AccountsTypeOK' /\ AccountsInv' /\ AccountsGrow
  <1> USE DEF TypeOK, AccountsTypeOK
  <1>1. AccountsGrow => AccountsInv'
    BY DEF AccountsInv, AccountsGrow
  <1>2. CASE UNCHANGED accountVars
    BY <1>1, <1>2 DEF accountVars, AccountsGrow
  <1>3. ASSUME NEW name \in Names, NEW password \in Passwords, Register(name, password)
        PROVE  AccountsTypeOK' /\ AccountsGrow
    BY <1>3 DEF Register, NameFree, AccountsGrow
  <1>4. ASSUME NEW name \in Names, NEW password \in Passwords, Login(name, password)
        PROVE  AccountsTypeOK' /\ AccountsGrow
    BY <1>4 DEF Login, TokenOf, Tokens, AccountsGrow
  <1>5. ASSUME NEW t \in valid, Expire(t)
        PROVE  AccountsTypeOK' /\ AccountsGrow
    BY <1>5 DEF Expire, AccountsGrow
  <1>6. ASSUME NEW t \in valid, NEW press \in Nat, ExecuteTrade(t, press)
        PROVE  AccountsTypeOK' /\ AccountsGrow
    BY <1>6 DEF ExecuteTrade, Tokens, TradesMade, AccountsGrow
  <1>7. QED
    BY <1>1, <1>2, <1>3, <1>4, <1>5, <1>6 DEF AccountStep

\* What is sound stays so, until another trade is confirmed.
LEMMA SoundStays ==
    ASSUME AccountsGrow, confirmed' = confirmed, NEW c, Sound(c)
    PROVE  Sound(c)'
  BY DEF Sound, AccountsGrow, Opens, Covers

\* A call without an answer says nothing yet.
LEMMA UnansweredIsSound ==
    ASSUME NEW c \in CallsMade, c.reply = "none",
           IsForm(c) => c.name \in Names /\ c.password \in Passwords
    PROVE  Sound(c)'
  BY DEF Sound, IsForm

\* Nobody listens to a dropped call.
LEMMA DroppedIsSound ==
    ASSUME NEW c \in CallsMade, c.kind = "dropped"
    PROVE  Sound(c)'
  BY DEF Sound, IsForm

-----------------------------------------------------------------------------
(* The actions.                                                            *)

HoldingsTyped ==
    holdings \in [of : SomeTokens, trades : SUBSET TradesMade,
                  fetching : BOOLEAN, stale : BOOLEAN]

\* What is to be shown of an action.
Kept ==
    /\ PanelStep /\ AccountStep
    /\ BrowserTypeOK' /\ SessionInv' /\ HoldingsInv' /\ CallsInv'

\* What each step is shown to keep is the invariant.
LEMMA KeptIsEnough ==
    ASSUME IInv, Kept
    PROVE  IInv'
  BY PanelStepTypes, PanelStepInv, AccountStepInv DEF Kept, IInv, TypeOK

\* No token is the absence of one.
LEMMA TokensAreNotNoToken == NoToken \notin Tokens
  BY BrowserAssumption DEF NoToken, Tokens

\* The holdings and the calls, after the pages have come up.
LEMMA PagesKeep ==
    ASSUME IInv, NEW t \in Tokens, NEW c, EnterPages(t, c), token' = t,
           UNCHANGED <<accountVars, confirmed>>
    PROVE  PanelStep /\ mounted' /\ HoldingsTyped' /\ HoldingsInv' /\ CallsInv'
  <1> USE DEF IInv, TypeOK, BrowserTypeOK
  <1>1. AccountsGrow
    BY DEF AccountsGrow, accountVars
  <1>2. HoldingsCall(t) \in CallsMade /\ Sound(HoldingsCall(t))'
    BY NewCalls, UnansweredIsSound DEF SomeTokens, IsForm
  <1>3. CASE token # NoToken
    <2>1. UNCHANGED <<panelVars, holdings>> /\ calls' = calls \ {c}
      BY <1>3 DEF EnterPages
    <2>2. mounted' /\ PanelStep
      BY <1>3, <2>1 DEF SessionInv, panelVars, PanelStep, PanelTypeOK
    <2>3. HoldingsTyped' /\ HoldingsInv'
      BY <2>1 DEF HoldingsTyped, HoldingsInv, Covers, Loaded, accountVars, panelVars
    <2>4. CallsInv'
      BY <1>1, <2>1, SoundStays DEF CallsInv
    <2>5. QED
      BY <2>2, <2>3, <2>4
  <1>4. CASE token = NoToken
    <2>1. ShowPanel(TRUE, asked)
      BY <1>4 DEF EnterPages
    <2>2. mounted' /\ PanelStep
      BY <2>1 DEF ShowPanel, PanelStep
    <2>3. /\ calls' \subseteq calls \cup {HoldingsCall(t)}
          /\ HoldingsTyped'
          /\ holdings'.of = holdings.of /\ holdings'.trades = holdings.trades
          /\ holdings'.stale = holdings.stale
          /\ \/ holdings'.fetching
             \/ holdings.of # NoToken /\ ~holdings.stale
      BY <1>4 DEF EnterPages, HoldingsTyped, Loaded
    <2>4. HoldingsInv'
      BY <2>3 DEF HoldingsInv, Covers, Loaded, accountVars
    <2>5. CallsInv'
      BY <1>1, <1>2, <2>3, SoundStays DEF CallsInv
    <2>6. QED
      BY <2>2, <2>3, <2>4, <2>5
  <1>5. QED
    BY <1>3, <1>4

\* An action that leaves calls, session and holdings alone, but for the panel or the
\* accounts.
LEMMA RestStays ==
    ASSUME IInv, AccountsGrow, mounted' = mounted,
           UNCHANGED <<session, confirmed, holdings>>
    PROVE  SessionInv' /\ HoldingsInv'
  BY DEF IInv, AccountsGrow, session, SessionInv, HoldingsInv, Opens, Covers, Loaded

\* The page is opened again with the token it stored.
LEMMA ReopenKeeps ==
    ASSUME IInv, Reopen
    PROVE  Kept
  <1> DEFINE t == FirstSession
  <1> USE DEF IInv, TypeOK
  <1>1. t \in Tokens /\ t.user \in DOMAIN SeededAccounts
    BY BrowserAssumption, AccountsAssumption DEF Tokens
  <1>2. Opens(accounts[t.user], t)
    BY <1>1, BrowserAssumption DEF AccountsInv, Opens
  <1>3. PanelStep /\ mounted' /\ HoldingsTyped' /\ HoldingsInv' /\ CallsInv'
    BY <1>1, PagesKeep DEF Reopen, OpenSession, tradeVars
  <1>4. SessionInv'
    BY <1>1, <1>2, <1>3, TokensAreNotNoToken
       DEF Reopen, OpenSession, SessionInv, Opens, accountVars
  <1>5. BrowserTypeOK'
    BY <1>1, <1>3
       DEF Reopen, OpenSession, BrowserTypeOK, HoldingsTyped, SomeTokens, tradeVars, bounds
  <1>6. QED
    BY <1>3, <1>4, <1>5 DEF Kept, AccountStep, Reopen

\* A logout, whatever became of the calls.
LEMMA LogoutKeeps ==
    ASSUME IInv, NEW requests \in SUBSET asked, Logout(requests)
    PROVE  PanelStep /\ SessionInv' /\ ~mounted' /\ token' \in SomeTokens
           /\ strayed' \in BOOLEAN /\ pending' \in Nat
  BY DEF Logout, PanelStep, ShowPanel, SessionInv, SomeTokens, NoToken

\* Log out: the pages are gone, and the session with them.
LEMMA PressLogoutKeeps ==
    ASSUME IInv, PressLogout
    PROVE  Kept
  <1> USE DEF IInv, TypeOK
  <1>1. PanelStep /\ SessionInv' /\ ~mounted' /\ token' \in SomeTokens
        /\ strayed' \in BOOLEAN /\ pending' \in Nat
    BY LogoutKeeps DEF PressLogout
  <1>2. AccountsGrow
    BY DEF PressLogout, AccountsGrow, accountVars
  <1>3. HoldingsInv'
    BY <1>1 DEF PressLogout, HoldingsInv, Covers, Loaded, accountVars
  <1>4. CallsInv'
    BY <1>2, SoundStays DEF PressLogout, CallsInv
  <1>5. BrowserTypeOK'
    BY <1>1 DEF PressLogout, BrowserTypeOK, bounds
  <1>6. QED
    BY <1>1, <1>3, <1>4, <1>5 DEF Kept, AccountStep, PressLogout

\* A form is sent; the session is only opened by its answer.
LEMMA SendFormKeeps ==
    ASSUME IInv, NEW form \in {"register", "login"}, NEW c \in load.credentials,
           SendForm(form, c)
    PROVE  Kept
  <1> USE DEF IInv, TypeOK, BrowserTypeOK
  <1>1. c.name \in Names /\ c.password \in Passwords
    BY BrowserAssumption
  <1>2. FormCall(form, c) = FilledIn(Call, form, c.name, c.password, forms + 1)
    BY Zenon DEF FormCall, FilledIn
  <1>3. ASSUME NEW d, d = FormCall(form, c)
        PROVE  Sound(d)'
    <2>1. /\ d \in CallsMade /\ d.reply = "none"
          /\ d.name \in Names /\ d.password \in Passwords
      BY <1>1, <1>2, <1>3, NewCalls, FilledInCalls
    <2>2. QED
      BY <2>1, UnansweredIsSound
  <1>4. AccountsGrow /\ UNCHANGED <<panelVars, session, holdings>> /\ confirmed' = confirmed
    BY DEF SendForm, AccountsGrow, accountVars, tradeVars
  <1>5. CallsInv'
    <2>1. calls' = calls \cup {FormCall(form, c)}
      BY DEF SendForm
    <2>2. QED
      BY <1>3, <1>4, <2>1, SoundStays DEF CallsInv
  <1>6. SessionInv' /\ HoldingsInv'
    BY <1>4, RestStays DEF panelVars
  <1>7. BrowserTypeOK'
    BY <1>4 DEF SendForm, session, tradeVars
  <1>8. QED
    BY <1>4, <1>5, <1>6, <1>7 DEF Kept, AccountStep, PanelStep, SendForm

\* Somebody else takes a name.
LEMMA OthersRegisterKeeps ==
    ASSUME IInv, NEW c \in load.credentials, OthersRegister(c)
    PROVE  Kept
  <1> USE DEF IInv, TypeOK, BrowserTypeOK
  <1>1. c.name \in Names /\ c.password \in Passwords
    BY BrowserAssumption
  <1>2. AccountStep
    BY <1>1 DEF OthersRegister, AccountStep
  <1>3. AccountsGrow
    BY <1>2, AccountStepInv
  <1>4. UNCHANGED <<panelVars, session, holdings, calls, confirmed>>
    BY DEF OthersRegister, tradeVars
  <1>5. CallsInv'
    BY <1>3, <1>4, SoundStays DEF CallsInv
  <1>6. SessionInv' /\ HoldingsInv'
    BY <1>3, <1>4, RestStays DEF panelVars
  <1>7. BrowserTypeOK'
    BY DEF OthersRegister, session, tradeVars
  <1>8. QED
    BY <1>2, <1>4, <1>5, <1>6, <1>7 DEF Kept, PanelStep

\* The steps of the panel alone.
LEMMA PanelAloneKeeps ==
    ASSUME IInv, PanelStep, mounted' = mounted,
           UNCHANGED <<accountVars, session, calls, tradeVars, holdings, bounds>>
    PROVE  Kept
  <1> USE DEF IInv, TypeOK
  <1>1. AccountsGrow /\ confirmed' = confirmed
    BY DEF AccountsGrow, accountVars, tradeVars
  <1>2. CallsInv'
    BY <1>1, SoundStays DEF CallsInv
  <1>3. SessionInv' /\ HoldingsInv'
    BY <1>1, RestStays
  <1>4. BrowserTypeOK'
    BY DEF BrowserTypeOK, session, tradeVars, bounds
  <1>5. QED
    BY <1>2, <1>3, <1>4 DEF Kept, AccountStep

\* An order is typed.
LEMMA TypeKeeps ==
    ASSUME IInv, NEW o \in SomeOrders, Type(o)
    PROVE  Kept
  <1>1. SetOrder(o)
    BY DEF Type
  <1>2. PanelStep /\ mounted' = mounted
    BY <1>1 DEF PanelStep, SetOrder
  <1>3. QED
    BY <1>2, PanelAloneKeeps DEF Type

\* A debounce or a second of the countdown ends.
LEMMA WaitKeeps ==
    ASSUME IInv, Wait
    PROVE  Kept
  <1>1. Debounced(token) \/ Second(token)
    BY DEF Wait
  <1>2. PanelStep /\ mounted' = mounted
    BY <1>1 DEF PanelStep, Debounced, Second
  <1>3. QED
    BY <1>2, PanelAloneKeeps DEF Wait

\* A quote arrives, or the refusal of its token, which logs out.
LEMMA AnswerQuoteKeeps ==
    ASSUME IInv, NEW a \in asked, AnswerQuote(a)
    PROVE  Kept
  <1> USE DEF IInv, TypeOK
  <1>1. /\ AccountsGrow
        /\ AccountStep
        /\ confirmed' = confirmed
        /\ UNCHANGED <<calls, holdings>>
    BY DEF AnswerQuote, AccountsGrow, AccountStep, accountVars, tradeVars
  <1>2. CallsInv'
    BY <1>1, SoundStays DEF CallsInv
  <1>3. CASE Authorized(a.token)
    <2>1. Quoted(a) \/ QuoteFails(a)
      BY <1>3 DEF AnswerQuote
    <2>2. PanelStep /\ mounted' = mounted
      BY <2>1 DEF PanelStep, Quoted, QuoteFails
    <2>3. SessionInv' /\ HoldingsInv'
      BY <1>1, <1>3, <2>2, RestStays DEF AnswerQuote
    <2>4. BrowserTypeOK'
      BY <1>3 DEF AnswerQuote, BrowserTypeOK, Disturbed, session, tradeVars, bounds
    <2>5. QED
      BY <1>1, <1>2, <2>2, <2>3, <2>4 DEF Kept
  <1>4. CASE ~Authorized(a.token)
    <2>1. Logout(asked \ {a}) /\ UNCHANGED <<presses, bounds>>
      BY <1>4 DEF AnswerQuote
    <2>2. PanelStep /\ SessionInv' /\ ~mounted' /\ token' \in SomeTokens
          /\ strayed' \in BOOLEAN /\ pending' \in Nat
      BY <2>1, LogoutKeeps
    <2>3. HoldingsInv'
      BY <1>1, <2>2 DEF HoldingsInv, Covers, Loaded, AccountsGrow
    <2>4. BrowserTypeOK'
      BY <1>1, <2>1, <2>2 DEF BrowserTypeOK, bounds
    <2>5. QED
      BY <1>1, <1>2, <2>2, <2>3, <2>4 DEF Kept
  <1>5. QED
    BY <1>3, <1>4

\* An order is submitted with the token of the session.
LEMMA SubmitKeeps ==
    ASSUME IInv, Submit
    PROVE  Kept
  <1> USE DEF IInv, TypeOK, BrowserTypeOK
  <1>1. AccountsGrow /\ UNCHANGED <<panelVars, session, holdings>> /\ confirmed' = confirmed
    BY DEF Submit, AccountsGrow, accountVars
  <1>2. ASSUME NEW d, d = TradeCall(token, presses + 1)
        PROVE  Sound(d)'
    <2>1. d \in CallsMade /\ d.reply = "none" /\ ~IsForm(d)
      BY <1>2, NewCalls DEF IsForm
    <2>2. QED
      BY <2>1, UnansweredIsSound
  <1>3. calls' = calls \cup {TradeCall(token, presses + 1)}
    BY DEF Submit
  <1>4. CallsInv'
    BY <1>1, <1>2, <1>3, SoundStays DEF CallsInv
  <1>5. SessionInv' /\ HoldingsInv'
    BY <1>1, RestStays DEF panelVars
  <1>6. BrowserTypeOK'
    BY DEF Submit, session, bounds
  <1>7. QED
    BY <1>1, <1>4, <1>5, <1>6 DEF Kept, AccountStep, PanelStep, Submit

\* What the server answers to a call: an account step, and a sound answer.
Answered(c) ==
    /\ AccountStep
    /\ \E d : calls' = (calls \ {c}) \cup {d} /\ Sound(d)'

\* The answer of a registration tells only whether it was one.
LEMMA RegisterIsAnswered ==
    ASSUME IInv, NEW c \in calls, Serve(c), c.kind = "register"
    PROVE  Answered(c)
  <1> USE DEF IInv, TypeOK
  <1>1. Sound(c) /\ c \in CallsMade /\ c.name \in Names /\ c.password \in Passwords
    BY DEF CallsInv, Sound, IsForm
  <1>2. PICK r \in {"ok", "refused"} :
            Register(c.name, c.password) /\ calls' = (calls \ {c}) \cup {Replied(c, r)}
    BY DEF Serve, Reply, Answer, Replied
  <1>3. Sound(Replied(c, r))'
    <2>1. /\ Replied(c, r) \in CallsMade /\ Replied(c, r).kind = "register"
          /\ Replied(c, r).name \in Names /\ Replied(c, r).password \in Passwords
      BY <1>1, RepliedCalls DEF Replies
    <2>2. QED
      BY <2>1 DEF Sound
  <1>4. QED
    BY <1>1, <1>2, <1>3 DEF Answered, AccountStep

\* The answer of a login has a token only for the password of the account, and a
\* token of that account.
LEMMA LoginIsAnswered ==
    ASSUME IInv, NEW c \in calls, Serve(c), c.kind = "login"
    PROVE  Answered(c)
  <1> USE DEF IInv, TypeOK
  <1>1. Sound(c) /\ c \in CallsMade /\ c.name \in Names /\ c.password \in Passwords
    BY DEF CallsInv, Sound, IsForm
  <1>2. Login(c.name, c.password)
    BY DEF Serve
  <1>3. CASE LoginOk(c.name, c.password)
    <2>1. calls' = (calls \ {c}) \cup {LoggedIn(c, TokenOf(c.name))}
      BY <1>3 DEF Serve, Answer, LoggedIn
    <2>2. PICK t \in Tokens : t = TokenOf(c.name) /\ t.user = c.name
      <3>1. TokenOf(c.name) \in Tokens /\ TokenOf(c.name).user = c.name
        BY <1>1 DEF Tokens, TokenOf, AccountsTypeOK
      <3>2. QED
        BY <3>1
    <2>3. Opens(c.password, t)'
      BY <1>2, <1>3, <2>2 DEF Login, LoginOk, Opens
    <2>4. /\ LoggedIn(c, t) \in CallsMade /\ LoggedIn(c, t).kind = "login"
          /\ LoggedIn(c, t).name \in Names /\ LoggedIn(c, t).password = c.password
          /\ LoggedIn(c, t).session = t
      BY <1>1, LoggedInCalls DEF SomeTokens
    <2>5. Sound(LoggedIn(c, t))'
      BY <1>1, <2>3, <2>4, TokensAreNotNoToken DEF Sound
    <2>6. QED
      BY <1>1, <1>2, <2>1, <2>2, <2>5 DEF Answered, AccountStep
  <1>4. CASE ~LoginOk(c.name, c.password)
    <2>1. calls' = (calls \ {c}) \cup {Replied(c, "refused")}
      BY <1>4 DEF Serve, Reply, Answer, Replied
    <2>2. /\ Replied(c, "refused") \in CallsMade /\ Replied(c, "refused").kind = "login"
          /\ Replied(c, "refused").reply = "refused"
          /\ Replied(c, "refused").name \in Names
          /\ Replied(c, "refused").password \in Passwords
      BY <1>1, RepliedCalls DEF Replies
    <2>3. Sound(Replied(c, "refused"))'
      BY <2>2 DEF Sound
    <2>4. QED
      BY <1>1, <1>2, <2>1, <2>3 DEF Answered, AccountStep
  <1>5. QED
    BY <1>3, <1>4

\* The calls that need a session.
LEMMA TheOthersAreAnswered ==
    ASSUME IInv, NEW c \in calls, Serve(c), ~IsForm(c)
    PROVE  Answered(c)
  <1> USE DEF IInv, TypeOK
  <1>1. Sound(c) /\ c \in CallsMade /\ c.kind # "register" /\ c.kind # "login"
    BY DEF CallsInv, Sound, IsForm
  <1>2. ASSUME NEW r \in {"refused", "unauthorized"}
        PROVE  Sound(Replied(c, r))'
    <2>1. /\ Replied(c, r) \in CallsMade /\ Replied(c, r).kind = c.kind
          /\ Replied(c, r).reply = r
      BY <1>1, RepliedCalls DEF Replies
    <2>2. QED
      BY <1>1, <2>1 DEF Sound, IsForm
  <1>3. CASE \E r \in {"refused", "unauthorized"} : Reply(c, r) /\ UNCHANGED accountVars
    <2>1. PICK r \in {"refused", "unauthorized"} :
              calls' = (calls \ {c}) \cup {Replied(c, r)} /\ UNCHANGED accountVars
      BY <1>3 DEF Reply, Answer, Replied
    <2>2. QED
      BY <1>2, <2>1 DEF Answered, AccountStep
  <1>4. CASE /\ c.kind = "trade" /\ c.token \in valid
             /\ ExecuteTrade(c.token, c.press) /\ Reply(c, "ok")
    <2>1. calls' = (calls \ {c}) \cup {Replied(c, "ok")}
      BY <1>4 DEF Reply, Answer, Replied
    <2>2. c.press \in Nat
      BY <1>1 DEF CallsMade
    <2>3. AccountStep
      BY <1>4, <2>2 DEF AccountStep
    <2>4. /\ Replied(c, "ok") \in CallsMade /\ Replied(c, "ok").kind = "trade"
          /\ Replied(c, "ok").token = c.token /\ Replied(c, "ok").press = c.press
      BY <1>1, <1>4, RepliedCalls DEF Replies
    <2>5. [user |-> c.token.user, press |-> c.press] \in executed'
      BY <1>4 DEF ExecuteTrade
    <2>6. Sound(Replied(c, "ok"))'
      BY <2>4, <2>5 DEF Sound, IsForm
    <2>7. QED
      BY <2>1, <2>3, <2>6 DEF Answered
  <1>5. CASE /\ c.kind # "trade" /\ c.token \in valid /\ UNCHANGED accountVars
             /\ Answer(c, Fetched(c, HoldingsOf(c.token.user)))
    <2>1. PICK trades \in SUBSET TradesMade : trades = HoldingsOf(c.token.user)
      BY DEF HoldingsOf, AccountsTypeOK
    <2>2. calls' = (calls \ {c}) \cup {Fetched(c, trades)}
      BY <1>5, <2>1 DEF Answer
    <2>3. /\ Fetched(c, trades) \in CallsMade /\ Fetched(c, trades).kind = c.kind
          /\ Fetched(c, trades).token = c.token /\ Fetched(c, trades).trades = trades
      BY <1>1, FetchedCalls
    <2>4. Covers(trades, c.token.user)'
      BY <2>1 DEF Serve, Covers, HoldingsOf, HoldingsInv, tradeVars
    <2>5. Sound(Fetched(c, trades))'
      BY <1>1, <1>5, <2>3, <2>4 DEF Sound, IsForm
    <2>6. QED
      BY <1>5, <2>2, <2>5 DEF Answered, AccountStep
  <1>6. QED
    BY <1>1, <1>3, <1>4, <1>5 DEF Serve, Authorized, Fetched, IsForm

\* The server answers a call.
LEMMA ServeKeeps ==
    ASSUME IInv, NEW c \in calls, Serve(c)
    PROVE  Kept
  <1> USE DEF IInv, TypeOK
  <1>1. Answered(c)
    BY RegisterIsAnswered, LoginIsAnswered, TheOthersAreAnswered DEF IsForm
  <1>2. AccountsGrow
    BY <1>1, AccountStepInv DEF Answered
  <1>3. UNCHANGED <<panelVars, session, holdings, bounds>> /\ UNCHANGED tradeVars
    BY DEF Serve
  <1>4. confirmed' = confirmed
    BY <1>3 DEF tradeVars
  <1>5. CallsInv'
    BY <1>1, <1>2, <1>4, SoundStays DEF Answered, CallsInv
  <1>6. SessionInv' /\ HoldingsInv'
    BY <1>2, <1>3, <1>4, RestStays DEF panelVars
  <1>7. BrowserTypeOK'
    BY <1>3 DEF BrowserTypeOK, session, tradeVars, bounds
  <1>8. QED
    BY <1>1, <1>3, <1>5, <1>6, <1>7 DEF Kept, PanelStep, Answered

\* The answer of a form opens the session it carries.
LEMMA DeliverFormKeeps ==
    ASSUME IInv, NEW c \in calls, c.reply # "none", DeliverForm(c)
    PROVE  Kept
  <1> USE DEF IInv, TypeOK
  <1>1. Sound(c) /\ c \in CallsMade /\ IsForm(c)
    BY DEF CallsInv, Sound, DeliverForm, IsForm
  <1>2. AccountsGrow /\ AccountStep /\ confirmed' = confirmed
        /\ UNCHANGED <<accountVars, tradeVars, bounds>>
    BY DEF DeliverForm, AccountsGrow, AccountStep, accountVars, tradeVars
  <1>3. CASE c.reply = "ok" /\ c.kind = "login"
    <2>1. OpenSession(c.session, c.password) /\ EnterPages(c.session, c)
      BY <1>3 DEF DeliverForm
    <2>2. c.session \in Tokens /\ Opens(c.password, c.session)
      BY <1>1, <1>3 DEF Sound, CallsMade, SomeTokens
    <2>3. PanelStep /\ mounted' /\ HoldingsTyped' /\ HoldingsInv' /\ CallsInv'
      BY <1>2, <2>1, <2>2, PagesKeep DEF OpenSession
    <2>4. SessionInv'
      BY <1>2, <2>1, <2>2, <2>3, TokensAreNotNoToken
         DEF OpenSession, SessionInv, Opens, accountVars
    <2>5. BrowserTypeOK'
      BY <1>2, <2>1, <2>2, <2>3
         DEF OpenSession, BrowserTypeOK, HoldingsTyped, SomeTokens, tradeVars, bounds
    <2>6. QED
      BY <1>2, <2>3, <2>4, <2>5 DEF Kept
  <1>4. CASE ~(c.reply = "ok" /\ c.kind = "login")
    <2>1. UNCHANGED <<panelVars, session, holdings>>
      BY <1>1, <1>4 DEF DeliverForm, IsForm
    <2>2. calls' \subseteq calls \cup {LoginAfter(c)}
      BY <1>1, <1>4 DEF DeliverForm, IsForm, LoginAfter
    <2>3. Sound(LoginAfter(c))'
      BY <1>1, LoginsAfter, UnansweredIsSound DEF Sound
    <2>4. CallsInv'
      BY <1>2, <2>2, <2>3, SoundStays DEF CallsInv
    <2>5. SessionInv' /\ HoldingsInv'
      BY <1>2, <2>1, RestStays DEF panelVars
    <2>6. BrowserTypeOK'
      BY <1>2, <2>1 DEF BrowserTypeOK, session, tradeVars, bounds
    <2>7. QED
      BY <1>2, <2>1, <2>4, <2>5, <2>6 DEF Kept, PanelStep
  <1>5. QED
    BY <1>3, <1>4

\* A trade confirmed makes a fetch of the holdings begin after it: none answered
\* from before will be heard.
LEMMA DeliverTradeKeeps ==
    ASSUME IInv, NEW c \in calls, DeliverTrade(c)
    PROVE  Kept
  <1> DEFINE t == [user |-> c.token.user, press |-> c.press]
             fetch == mounted /\ (Loaded \/ ~holdings.fetching)
  <1> USE DEF IInv, TypeOK, BrowserTypeOK
  <1>1. Sound(c) /\ t \in executed
    BY DEF CallsInv, Sound, DeliverTrade
  <1>2. /\ AccountsGrow
        /\ AccountStep
        /\ UNCHANGED <<accountVars, token, typed, presses, bounds>>
    BY DEF DeliverTrade, AccountsGrow, AccountStep, accountVars
  <1>3. /\ PanelStep /\ mounted' = mounted /\ pending' \in Nat
    BY DEF DeliverTrade, ClearPanel, PanelStep, PanelCleared, panelVars
  <1>4. Invalidate(calls \ {c})
    BY DEF DeliverTrade
  <1>5. /\ holdings'.of = holdings.of /\ holdings'.trades = holdings.trades
        /\ holdings'.stale /\ HoldingsTyped'
        /\ holdings'.fetching = (fetch \/ holdings.fetching)
    BY <1>4 DEF Invalidate, HoldingsTyped
  <1>6. SessionInv'
    BY <1>2, <1>3 DEF SessionInv, DeliverTrade, Opens, accountVars
  <1>7. BrowserTypeOK'
    BY <1>2, <1>3, <1>5 DEF DeliverTrade, HoldingsTyped, bounds
  <1>8. HoldingsInv'
    <2>1. confirmed' \subseteq executed'
      BY <1>1, <1>2 DEF DeliverTrade, HoldingsInv, accountVars
    <2>2. QED
      BY <1>3, <1>5, <2>1 DEF HoldingsInv, Loaded
  <1>9. CallsInv'
    <2>1. CASE fetch
      <3>1. ASSUME NEW d \in calls'
            PROVE  Sound(d)'
        <4>1. CASE d = HoldingsCall(token)
          BY <4>1, NewCalls, UnansweredIsSound DEF IsForm
        <4>2. CASE \E b \in calls : b.kind = "holdings" /\ d = Drop(b)
          BY <4>2, DroppedCalls, DroppedIsSound DEF CallsInv, Sound
        <4>3. CASE d \in calls /\ d.kind # "holdings"
          BY <1>2, <4>3 DEF CallsInv, Sound, Opens, accountVars
        <4>4. QED
          BY <1>4, <2>1, <4>1, <4>2, <4>3 DEF Invalidate, Refetched
      <3>2. QED
        BY <3>1 DEF CallsInv
    <2>2. CASE ~fetch
      <3>1. calls' \subseteq calls
        BY <1>4, <2>2 DEF Invalidate
      <3>2. confirmed' = confirmed
        BY <2>2 DEF DeliverTrade
      <3>3. QED
        BY <1>2, <3>1, <3>2, SoundStays DEF CallsInv
    <2>3. QED
      BY <2>1, <2>2
  <1>10. QED
    BY <1>2, <1>3, <1>6, <1>7, <1>8, <1>9 DEF Kept

\* Steps after which a call, at most, is gone or replaced by one unanswered.
LEMMA CallsStaySound ==
    ASSUME IInv, AccountsGrow, confirmed' = confirmed, NEW d \in CallsMade,
           d.reply = "none", ~IsForm(d), calls' \subseteq calls \cup {d}
    PROVE  CallsInv'
  BY SoundStays, UnansweredIsSound DEF IInv, CallsInv

\* A refused trade changes nothing that is shown.
LEMMA DeliverRefusalKeeps ==
    ASSUME IInv, NEW c \in calls, DeliverRefusal(c)
    PROVE  Kept
  <1> USE DEF IInv, TypeOK, BrowserTypeOK
  <1>1. AccountsGrow /\ UNCHANGED <<panelVars, session, holdings>> /\ confirmed' = confirmed
    BY DEF DeliverRefusal, AccountsGrow, accountVars
  <1>2. CallsInv'
    BY <1>1, SoundStays DEF DeliverRefusal, CallsInv
  <1>3. SessionInv' /\ HoldingsInv'
    BY <1>1, RestStays DEF panelVars
  <1>4. BrowserTypeOK'
    BY DEF DeliverRefusal, Released, session, bounds
  <1>5. QED
    BY <1>1, <1>2, <1>3, <1>4 DEF Kept, AccountStep, PanelStep, DeliverRefusal

\* What a fetch brings that is still heard is complete.
LEMMA DeliverHoldingsKeeps ==
    ASSUME IInv, NEW c \in calls, DeliverHoldings(c)
    PROVE  Kept
  <1> USE DEF IInv, TypeOK, BrowserTypeOK
  <1>1. AccountsGrow /\ UNCHANGED <<panelVars, session>> /\ confirmed' = confirmed
        /\ UNCHANGED <<accountVars, tradeVars, bounds>>
    BY DEF DeliverHoldings, AccountsGrow, accountVars, tradeVars
  <1>2. CallsInv'
    BY <1>1, SoundStays DEF DeliverHoldings, CallsInv
  <1>3. Sound(c) /\ c \in CallsMade
    BY DEF CallsInv, Sound
  <1>4. HoldingsTyped' /\ HoldingsInv'
    <2>1. CASE c.kind = "holdings"
      <3>1. holdings' = [of |-> c.token, trades |-> c.trades,
                         fetching |-> FALSE, stale |-> FALSE]
        BY <2>1 DEF DeliverHoldings
      <3>2. Covers(c.trades, c.token.user) /\ c.token \in SomeTokens
            /\ c.trades \in SUBSET TradesMade
        BY <1>3, <2>1 DEF Sound, CallsMade, DeliverHoldings
      <3>3. QED
        BY <1>1, <3>1, <3>2 DEF HoldingsTyped, HoldingsInv, Loaded, Covers, accountVars
    <2>2. CASE c.kind # "holdings"
      BY <1>1, <2>2 DEF DeliverHoldings, HoldingsTyped, HoldingsInv, Loaded, Covers,
                        accountVars, panelVars
    <2>3. QED
      BY <2>1, <2>2
  <1>5. SessionInv'
    BY <1>1 DEF SessionInv, Opens, session, panelVars, accountVars
  <1>6. BrowserTypeOK'
    BY <1>1, <1>4 DEF HoldingsTyped, session, tradeVars, bounds
  <1>7. QED
    BY <1>1, <1>2, <1>4, <1>5, <1>6 DEF Kept, AccountStep, PanelStep

\* A refused token logs out, whatever call it was for.
LEMMA DeliverUnauthorizedKeeps ==
    ASSUME IInv, NEW c \in calls, DeliverUnauthorized(c)
    PROVE  Kept
  <1> USE DEF IInv, TypeOK, BrowserTypeOK
  <1>1. AccountsGrow /\ confirmed' = confirmed /\ UNCHANGED <<accountVars, presses, bounds>>
    BY DEF DeliverUnauthorized, AccountsGrow, accountVars
  <1>2. PanelStep /\ SessionInv' /\ ~mounted' /\ token' \in SomeTokens
        /\ strayed' \in BOOLEAN /\ pending' \in Nat
    BY LogoutKeeps DEF DeliverUnauthorized
  <1>3. CallsInv'
    BY <1>1, SoundStays DEF DeliverUnauthorized, CallsInv
  <1>4. /\ HoldingsTyped'
        /\ holdings'.of = holdings.of /\ holdings'.trades = holdings.trades
        /\ holdings'.stale = holdings.stale
    BY DEF DeliverUnauthorized, HoldingsTyped
  <1>5. HoldingsInv'
    BY <1>1, <1>2, <1>4 DEF HoldingsInv, Covers, Loaded, accountVars
  <1>6. BrowserTypeOK'
    BY <1>1, <1>2, <1>4 DEF HoldingsTyped, bounds
  <1>7. QED
    BY <1>1, <1>2, <1>3, <1>5, <1>6 DEF Kept, AccountStep

\* An answer is lost.
LEMMA LoseKeeps ==
    ASSUME IInv, NEW c \in calls, Lose(c)
    PROVE  Kept
  <1> USE DEF IInv, TypeOK, BrowserTypeOK
  <1>1. AccountsGrow /\ UNCHANGED <<panelVars, session, holdings>> /\ confirmed' = confirmed
    BY DEF Lose, AccountsGrow, accountVars
  <1>2. calls' \subseteq calls \cup {HoldingsCall(token)}
    BY DEF Lose
  <1>3. CallsInv'
    <2>1. PICK d \in CallsMade :
              d = HoldingsCall(token) /\ d.reply = "none" /\ ~IsForm(d)
      BY NewCalls DEF IsForm
    <2>2. QED
      BY <1>1, <1>2, <2>1, CallsStaySound
  <1>4. SessionInv' /\ HoldingsInv'
    BY <1>1, RestStays DEF panelVars
  <1>5. BrowserTypeOK'
    BY <1>1 DEF Lose, Released, Disturbed, session
  <1>6. QED
    BY <1>1, <1>3, <1>4, <1>5 DEF Kept, AccountStep, PanelStep, Lose

\* The window gets the focus, and asks for the positions again.
LEMMA FocusKeeps ==
    ASSUME IInv, Focus
    PROVE  Kept
  <1> USE DEF IInv, TypeOK, BrowserTypeOK
  <1>1. /\ AccountsGrow
        /\ UNCHANGED <<panelVars, session, tradeVars>>
        /\ confirmed' = confirmed
        /\ UNCHANGED accountVars
    BY DEF Focus, AccountsGrow, accountVars, tradeVars
  <1>2. calls' \subseteq calls \cup {HoldingsCall(token)}
    BY DEF Focus
  <1>3. CallsInv'
    <2>1. PICK d \in CallsMade :
              d = HoldingsCall(token) /\ d.reply = "none" /\ ~IsForm(d)
      BY NewCalls DEF IsForm
    <2>2. QED
      BY <1>1, <1>2, <2>1, CallsStaySound
  <1>4. /\ HoldingsTyped' /\ holdings'.fetching
        /\ holdings'.of = holdings.of /\ holdings'.trades = holdings.trades
        /\ holdings'.stale = holdings.stale
    BY DEF Focus, HoldingsTyped
  <1>5. SessionInv' /\ HoldingsInv'
    BY <1>1, <1>4 DEF SessionInv, HoldingsInv, Covers, Loaded, Opens, session, panelVars,
                      accountVars
  <1>6. BrowserTypeOK'
    BY <1>1, <1>4 DEF Focus, HoldingsTyped, Disturbed, session, tradeVars
  <1>7. QED
    BY <1>1, <1>3, <1>5, <1>6 DEF Kept, AccountStep, PanelStep

\* A token expires.
LEMMA TokenExpiresKeeps ==
    ASSUME IInv, TokenExpires
    PROVE  Kept
  <1> USE DEF IInv, TypeOK, BrowserTypeOK
  <1>1. AccountStep
    BY DEF TokenExpires, AccountStep
  <1>2. AccountsGrow
    BY <1>1, AccountStepInv
  <1>3. /\ UNCHANGED <<panelVars, session, calls, tradeVars, holdings>>
        /\ confirmed' = confirmed
    BY DEF TokenExpires, tradeVars
  <1>4. CallsInv'
    BY <1>2, <1>3, SoundStays DEF CallsInv
  <1>5. SessionInv' /\ HoldingsInv'
    BY <1>2, <1>3, RestStays DEF panelVars
  <1>6. BrowserTypeOK'
    BY <1>3 DEF TokenExpires, Disturbed, session, tradeVars
  <1>7. QED
    BY <1>1, <1>3, <1>4, <1>5, <1>6 DEF Kept, PanelStep

-----------------------------------------------------------------------------
(* The theorems.                                                           *)

\* The invariant holds initially.
LEMMA InitIInv == BrowserInit => IInv
  <1> SUFFICES ASSUME BrowserInit
               PROVE  IInv
    OBVIOUS
  <1> USE DEF BrowserInit
  <1>1. FirstSession \in Tokens
    BY BrowserAssumption, AccountsAssumption DEF Tokens
  <1>2. NoQuote \in Quotes /\ NoQuote.order = NoOrder
    BY DEF NoQuote, Quotes, SomeOrders
  <1>3. PanelTypeOK /\ PanelInv /\ ~mounted
    BY <1>2 DEF PanelInit, PanelTypeOK, PanelInv, QuoteIsOfInputs, SomeOrders
  <1>4. AccountsTypeOK /\ AccountsInv
    <2>1. issued \in Nat
      BY FS_EmptySet, FS_Singleton DEF AccountsInit
    <2>2. QED
      BY <1>1, <2>1 DEF AccountsInit, AccountsTypeOK, AccountsInv
  <1>5. HoldingsTyped /\ ~Loaded
    BY DEF HoldingsTyped, NotLoaded, Loaded, SomeTokens
  <1>6. BrowserTypeOK
    BY <1>5 DEF BrowserTypeOK, HoldingsTyped, SomeTokens
  <1>7. SessionInv
    BY <1>3 DEF SessionInv, NoToken
  <1>8. HoldingsInv /\ CallsInv
    BY <1>5 DEF HoldingsInv, CallsInv
  <1>9. QED
    BY <1>3, <1>4, <1>6, <1>7, <1>8 DEF IInv, TypeOK

\* Every step keeps it.
LEMMA NextKeepsIInv == IInv /\ [Next]_browserVars => IInv'
  <1> SUFFICES ASSUME IInv, [Next]_browserVars
               PROVE  IInv'
    OBVIOUS
  <1>1. CASE Next
    <2>1. Reopen => Kept
      BY ReopenKeeps
    <2>2. PressLogout => Kept
      BY PressLogoutKeeps
    <2>3. (\E c \in load.credentials :
              SendForm("register", c) \/ SendForm("login", c)) => Kept
      BY SendFormKeeps
    <2>4. (\E c \in load.credentials : OthersRegister(c)) => Kept
      BY OthersRegisterKeeps
    <2>5. (\E o \in Orders \cup {NoOrder} : Type(o)) => Kept
      BY TypeKeeps DEF SomeOrders
    <2>6. Wait => Kept
      BY WaitKeeps
    <2>7. (\E a \in asked : AnswerQuote(a)) => Kept
      BY AnswerQuoteKeeps
    <2>8. Submit => Kept
      BY SubmitKeeps
    <2>9. (\E c \in calls : Serve(c)) => Kept
      BY ServeKeeps
    <2>10. (\E c \in calls : Deliver(c)) => Kept
      BY DeliverFormKeeps, DeliverTradeKeeps, DeliverRefusalKeeps, DeliverHoldingsKeeps,
         DeliverUnauthorizedKeeps DEF Deliver
    <2>11. (\E c \in calls : Lose(c)) => Kept
      BY LoseKeeps
    <2>12. Focus => Kept
      BY FocusKeeps
    <2>13. TokenExpires => Kept
      BY TokenExpiresKeeps
    <2>14. Kept
      BY <1>1, <2>1, <2>2, <2>3, <2>4, <2>5, <2>6, <2>7, <2>8, <2>9, <2>10, <2>11,
         <2>12, <2>13 DEF Next
    <2>15. QED
      BY <2>14, KeptIsEnough
  <1>2. CASE UNCHANGED browserVars
    <2>1. UNCHANGED <<panelVars, accountVars, session, calls, tradeVars, holdings, bounds>>
      BY <1>2 DEF browserVars
    <2>2. PanelStep /\ mounted' = mounted
      BY <2>1 DEF PanelStep, panelVars
    <2>3. QED
      BY <2>1, <2>2, PanelAloneKeeps, KeptIsEnough
  <1>3. QED
    BY <1>1, <1>2

\* The inductive invariant.
LEMMA BrowserTypeAndInv == Spec => []IInv
  <1>1. BrowserInit => IInv
    BY InitIInv
  <1>2. IInv /\ [Next]_browserVars => IInv'
    BY NextKeepsIInv
  <1>3. QED
    BY <1>1, <1>2, PTL DEF Spec

\* With nothing typed since, the quote shown is that of the inputs, whatever
\* answers were under way: those that do not count are cancelled.
THEOREM QuotesAreOfInputs == Spec => []QuoteIsOfInputs
  <1>1. IInv => QuoteIsOfInputs
    BY DEF IInv, PanelInv
  <1>2. QED
    BY <1>1, BrowserTypeAndInv, PTL

\* A session is its user's, whatever is answered late or registered elsewhere.
THEOREM SessionsAreTheirOwners == Spec => []SessionIsOwners
  <1>1. IInv => SessionIsOwners
    BY DEF IInv, SessionInv, SessionIsOwners, Opens, NoToken
  <1>2. QED
    BY <1>1, BrowserTypeAndInv, PTL

\* The holdings shown contain every trade confirmed while they were shown, or are
\* being fetched: of a user who is logged in they are not stale, and nobody is
\* shown those of nobody.
THEOREM HoldingsAreCurrent == Spec => []HoldingsCoverTrades
  <1>1. IInv => HoldingsCoverTrades
    <2> SUFFICES ASSUME IInv, Loaded, ~holdings.fetching, holdings.of.user = token.user
                 PROVE  Covers(holdings.trades, token.user)
      BY DEF HoldingsCoverTrades, Covers
    <2>1. holdings.of \in Tokens
      BY DEF IInv, TypeOK, BrowserTypeOK, Loaded, SomeTokens
    <2>2. token # NoToken
      BY <2>1, BrowserAssumption DEF Tokens
    <2>3. QED
      BY <2>2 DEF IInv, SessionInv, HoldingsInv
  <1>2. QED
    BY <1>1, BrowserTypeAndInv, PTL
=============================================================================
