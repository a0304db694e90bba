------------------------------ MODULE Accounts ------------------------------
(***************************************************************************)
(* What the API knows of its users (backend/internal/auth and the handlers *)
(* and middleware of backend/internal/api): who has registered with which  *)
(* password, which tokens it has issued, and the trades made under them.   *)
(* Each action is what one request does before it is answered; the ledger  *)
(* behind a trade is module LedgerTx.                                      *)
(***************************************************************************)
EXTENDS Integers, FiniteSets

CONSTANTS Names, Passwords,
          NoPassword,      \* the hash of a seeded account
          SeededAccounts   \* accounts nobody registered: bots and named users

ASSUME AccountsAssumption ==
    /\ NoPassword \notin Passwords
    /\ DOMAIN SeededAccounts \subseteq Names
    /\ \A n \in DOMAIN SeededAccounts :
          SeededAccounts[n] \in Passwords \cup {NoPassword}

VARIABLES
    accounts,   \* accounts[name]: its password
    issued,     \* how many tokens have been issued
    valid,      \* the tokens that have not expired: [user, serial]
    executed    \* the trades: [user, press]

accountVars == <<accounts, issued, valid, executed>>

AccountsInit(tokens) ==
    /\ accounts = SeededAccounts
    /\ issued = Cardinality(tokens)
    /\ valid = tokens
    /\ executed = {}

\* Mutant of NameFree: the insert replaces a row of the same name.
NameReplaced(name) == TRUE

\* The unique index on usernames decides between registrations.
NameFree(name) == name \notin DOMAIN accounts

\* Service.Register, one INSERT: the answer is "ok", or that the name is taken.
Register(name, password) ==
    /\ accounts' = IF NameFree(name)
                   THEN [n \in DOMAIN accounts \cup {name} |->
                            IF n = name THEN password ELSE accounts[n]]
                   ELSE accounts
    /\ UNCHANGED <<issued, valid, executed>>

\* Service.Login lets nobody in whose account has no password.
LoginOk(name, password) ==
    /\ name \in DOMAIN accounts
    /\ accounts[name] # NoPassword /\ accounts[name] = password

TokenOf(name) == [user |-> name, serial |-> issued + 1]

\* After the daily reward (module Ledger) a token is issued.
Login(name, password) ==
    /\ IF LoginOk(name, password)
       THEN issued' = issued + 1 /\ valid' = valid \cup {TokenOf(name)}
       ELSE UNCHANGED <<issued, valid>>
    /\ UNCHANGED <<accounts, executed>>

Expire(token) ==
    /\ token \in valid
    /\ valid' = valid \ {token}
    /\ UNCHANGED <<accounts, issued, executed>>

\* RequireAuth.
Authorized(token) == token \in valid

\* POST /api/trades/execute with a key of its own, if the ledger goes along.
ExecuteTrade(token, press) ==
    /\ executed' = executed \cup {[user |-> token.user, press |-> press]}
    /\ UNCHANGED <<accounts, issued, valid>>

\* GET /api/users/me/holdings, known by the trades that made them.
HoldingsOf(user) == {t \in executed : t.user = user}
=============================================================================
