------------------------------- MODULE Feeds -------------------------------
(***************************************************************************)
(* What the browsers show of the news and of the leaderboard.  Both reach  *)
(* a browser in two ways: over REST, through a query cache that fetches    *)
(* again now and then, and pushed by the hub, into that same cache.  A     *)
(* fetch is asked, answered and finished in three steps, and pushes fall   *)
(* between them.  The leaderboard is also copied into a store of its own.  *)
(*                                                                         *)
(* On the server, the news job inserts a row and then publishes it, and    *)
(* the leaderboard job computes a board, caches it in Redis and then       *)
(* publishes it, each one after the other.                                 *)
(***************************************************************************)
EXTENDS Hub

CONSTANTS News, Leaderboard,   \* the two topics with a feed
          Players,             \* the people ranked
          NewsLimits           \* the page sizes asked for

ASSUME FeedsAssumption ==
    /\ {News, Leaderboard} \subseteq Topics /\ News # Leaderboard
    /\ IsFiniteSet(Players) /\ NewsLimits \subseteq Nat \ {0}

VARIABLES
    rows,       \* the news_events rows, by created_at
    cached,     \* the board in Redis
    boardOf,    \* boardOf[p]: what a leaderboard_update carries
    query,      \* query[t][b]: an entry of the query cache
    board       \* board[b]: the leaderboard page and its store

feedVars == <<rows, cached, boardOf, query, board>>
allVars  == <<hubVars, feedVars>>

Feeds == {News, Leaderboard}

\* A board: who is ranked where.  edition stands for the net worths on it: they
\* differ from refresh to refresh, though the ranks may be the same.
NoBoard == [edition |-> 0, ranking |-> <<>>]

\* The people in an order of their net worth.
Rankings == {r \in [1..Cardinality(Players) -> Players] : IsInjective(r)}

\* The data of a query that has none.
Blank(t) == IF t = News THEN <<>> ELSE NoBoard

\* flight: "none", "asked" or "answered".
Unloaded(t) == [loaded |-> FALSE, data |-> Blank(t), flight |-> "none", answer |-> Blank(t)]

\* effect: a render is due, whose effect calls setEntries.
NoEntries == [open |-> FALSE, effect |-> FALSE, entries |-> NoBoard]

FeedInit ==
    /\ HubInit
    /\ rows = <<>>
    /\ cached = NoBoard
    /\ boardOf = [p \in Publications |-> NoBoard]
    /\ query = [t \in Feeds |-> [b \in Browsers |-> Unloaded(t)]]
    /\ board = [b \in Browsers |-> NoEntries]

-----------------------------------------------------------------------------
(* The jobs.                                                               *)

\* The job that publishes to a topic has got through with what came before.
JobIsFree(p) == \A n \in 1..(p[2] - 1) : pub[<<p[1], n>>] \in {"done", "lost"}

\* A trade, which anyone may make: a publication without a job.
TradeHappens(p) ==
    /\ TopicOf(p) \notin Feeds
    /\ Happens(p)
    /\ UNCHANGED feedVars

\* generateOnce.
GenerateNews(p) ==
    /\ TopicOf(p) = News /\ JobIsFree(p)
    /\ Happens(p)
    /\ rows' = Append(rows, p)
    /\ UNCHANGED <<cached, boardOf, query, board>>

\* refreshOnce, of which a failed one changes and publishes nothing.
RefreshOnce(p) ==
    /\ TopicOf(p) = Leaderboard /\ JobIsFree(p)
    /\ Happens(p)
    /\ \E r \in Rankings : cached' = [edition |-> p[2], ranking |-> r]
    /\ boardOf' = [boardOf EXCEPT ![p] = cached']
    /\ UNCHANGED <<rows, query, board>>

-----------------------------------------------------------------------------
(* The store of the leaderboard.                                           *)

\* setEntries, of the store st.  The arrows it works out are left out.
SetEntries(st, bd) == [st EXCEPT !.entries = bd]

\* The page renders again when the query has other data; equal data is kept
\* (structural sharing).
Rerender(st, q, data) ==
    [st EXCEPT !.effect = @ \/ (st.open /\ ~(q.loaded /\ q.data = data))]

-----------------------------------------------------------------------------
(* onmessage.                                                              *)

\* setQueryData, which leaves a fetch that is under way alone.
SetData(q, data) == [q EXCEPT !.loaded = TRUE, !.data = data]

\* Mutant of MergeNews: what a fetch has brought already is added again.
MergeTwice(q, item) == IF q.loaded THEN SetData(q, <<item>> \o q.data) ELSE q

MergeNews(q, item) ==
    IF q.loaded /\ item \notin ToSet(q.data)
    THEN SetData(q, <<item>> \o q.data) ELSE q

ReceiveNews(b, p) ==
    /\ query' = [query EXCEPT ![News][b] = MergeNews(@, p)]
    /\ UNCHANGED board

ReceiveBoard(b, p) ==
    /\ board' = [board EXCEPT ![b] =
          Rerender(SetEntries(@, boardOf[p]), query[Leaderboard][b], boardOf[p])]
    /\ query' = [query EXCEPT ![Leaderboard][b] = SetData(@, boardOf[p])]

\* The three handlers; that of the prices is not looked into.
OnMessage(s) ==
    /\ Deliver(s)
    /\ LET p == conn[ConnOf(s)].frame[1]
       IN  \/ TopicOf(s) = News /\ ReceiveNews(s[2], p)
           \/ TopicOf(s) = Leaderboard /\ ReceiveBoard(s[2], p)
           \/ TopicOf(s) \notin Feeds /\ UNCHANGED <<query, board>>
    /\ UNCHANGED <<rows, cached, boardOf>>

-----------------------------------------------------------------------------
(* The query cache.                                                        *)

\* useLeaderboard is mounted; data that is there makes its effect run.
OpenPage(b) ==
    /\ ~board[b].open
    /\ board' = [board EXCEPT ![b].open = TRUE, ![b].effect = query[Leaderboard][b].loaded]
    /\ UNCHANGED <<hubVars, rows, cached, boardOf, query>>

\* A fetch under way goes on.
ClosePage(b) ==
    /\ board[b].open
    /\ board' = [board EXCEPT ![b].open = FALSE, ![b].effect = FALSE]
    /\ UNCHANGED <<hubVars, rows, cached, boardOf, query>>

\* Mutant of MayFetch: no refetchInterval.
FetchOnce(t, b) ==
    /\ query[t][b].flight = "none"
    /\ t = Leaderboard => board[b].open /\ ~query[t][b].loaded

\* A mount, a focus or the refetchInterval asks, unless a fetch is under way.  The
\* panel of the news may be on the page at any time.
MayFetch(t, b) ==
    query[t][b].flight = "none" /\ (t = Leaderboard => board[b].open)

Ask(t, b) ==
    /\ <<t, b>> \in hubLoad.sockets /\ MayFetch(t, b)
    /\ query' = [query EXCEPT ![t][b].flight = "asked"]
    /\ UNCHANGED <<hubVars, rows, cached, boardOf, board>>

\* ListNewsEvents: the latest rows first.
LatestNews(limit) ==
    Reverse(SubSeq(rows, IF Len(rows) > limit THEN Len(rows) - limit + 1 ELSE 1, Len(rows)))

\* The handlers ListNews and Leaderboard.
Answer(t, b) ==
    /\ query[t][b].flight = "asked"
    /\ \E a \in IF t = News THEN {LatestNews(n) : n \in NewsLimits} ELSE {cached} :
          query' = [query EXCEPT ![t][b].flight = "answered", ![t][b].answer = a]
    /\ UNCHANGED <<hubVars, rows, cached, boardOf, board>>

\* The answer replaces the data, whatever was pushed in the meantime.
Finish(t, b) ==
    /\ query[t][b].flight = "answered"
    /\ query' = [query EXCEPT ![t][b] =
          [SetData(@, query[t][b].answer) EXCEPT !.flight = "none", !.answer = Blank(t)]]
    /\ board' = IF t = Leaderboard
                THEN [board EXCEPT ![b] = Rerender(@, query[t][b], query[t][b].answer)]
                ELSE board
    /\ UNCHANGED <<hubVars, rows, cached, boardOf>>

\* No answer, after two retries: the data stays.
FetchFails(t, b) ==
    /\ query[t][b].flight # "none"
    /\ query' = [query EXCEPT ![t][b].flight = "none", ![t][b].answer = Blank(t)]
    /\ UNCHANGED <<hubVars, rows, cached, boardOf, board>>

\* The effect of useLeaderboard.
RunEffect(b) ==
    /\ board[b].effect
    /\ board' = [board EXCEPT ![b] =
          [SetEntries(@, query[Leaderboard][b].data) EXCEPT !.effect = FALSE]]
    /\ UNCHANGED <<hubVars, rows, cached, boardOf, query>>

Showing(b) == <<Leaderboard, b>> \in hubLoad.sockets

FeedNext ==
    \/ \E p \in Publications : TradeHappens(p) \/ GenerateNews(p) \/ RefreshOnce(p)
    \/ \E s \in Sockets : OnMessage(s)
    \/ \E b \in Browsers : \/ Showing(b) /\ (OpenPage(b) \/ ClosePage(b))
                           \/ RunEffect(b)
                           \/ \E t \in Feeds : \/ Ask(t, b) \/ Answer(t, b)
                                               \/ Finish(t, b) \/ FetchFails(t, b)
    \/ HubStep /\ UNCHANGED feedVars

FeedSpec == FeedInit /\ [][FeedNext]_allVars

-----------------------------------------------------------------------------
(* Fairness.                                                               *)

\* A write ends: it reaches the browser, or fails within writeTimeout.
WriteEnds(s, n) ==
    \/ sock[s].conn = n /\ OnMessage(s)
    \/ WriteFails(<<s, n>>) /\ UNCHANGED feedVars

\* Goroutines run on; one that waits to write to the hub's map is let in, for it
\* keeps new readers out (sync.RWMutex).  Which of several goes first is left open.
FairHub ==
    /\ WF_allVars((\E p \in Publications : Publish(p)) /\ UNCHANGED feedVars)
    /\ WF_allVars((\E k \in Conns : Handler(k)) /\ UNCHANGED feedVars)
    /\ SF_allVars((\E k \in Conns : Subscribe(k) \/ Unsubscribe(k)) /\ UNCHANGED feedVars)
    /\ WF_allVars(\E s \in Sockets, n \in 1..MaxConns : WriteEnds(s, n))

\* The interval of an open page keeps asking, and not every fetch fails.
FairFetches ==
    /\ WF_allVars(\E b \in Browsers : Ask(Leaderboard, b))
    /\ SF_allVars(\E b \in Browsers : Answer(Leaderboard, b))
    /\ SF_allVars(\E b \in Browsers : Finish(Leaderboard, b))
    /\ WF_allVars(\E b \in Browsers : RunEffect(b))

FairFeedSpec == FeedSpec /\ FairHub /\ FairFetches

-----------------------------------------------------------------------------
(* Correctness.                                                            *)

\* The news a browser shows are newest first, and none is there twice, although
\* a row that a fetch brought is pushed as well, and the frames of older rows may
\* still be on their way (as long as fewer are than a page is long).
NewsNewestFirst ==
    \A b \in Browsers :
        LET shown == query[News][b].data
        IN  \A i, j \in DOMAIN shown : i < j => shown[i][2] > shown[j][2]

\* A page that stays open comes to show the board that the last refresh left,
\* table and store alike: what the socket missed, or brought late, the next fetch
\* puts right (refetchInterval).
LeaderboardCatchesUp ==
    \A b \in Browsers :
        <>[](Showing(b) /\ board[b].open) =>
            <>[](query[Leaderboard][b].data = cached /\ board[b].entries = cached)
=============================================================================
