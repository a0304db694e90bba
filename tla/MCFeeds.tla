------------------------------ MODULE MCFeeds ------------------------------
(***************************************************************************)
(* Instances of the hub and its feeds for TLC.                             *)
(***************************************************************************)
EXTENDS Feeds

CONSTANTS Prices, left, right

Only(t, n) == [u \in Topics |-> IF u = t THEN n ELSE 0]

\* Two browsers watch the prices; the connection of one breaks, and the server
\* restarts; one reads the news; one has the leaderboard.
Loads == { [sockets |-> {<<Prices, left>>, <<Prices, right>>}, pubs |-> Only(Prices, 2),
            conns |-> 1, breaks |-> 0, restarts |-> 0],
           [sockets |-> {<<Prices, left>>}, pubs |-> Only(Prices, 3),
            conns |-> 2, breaks |-> 0, restarts |-> 0],
           [sockets |-> {<<Prices, left>>}, pubs |-> Only(Prices, 2),
            conns |-> 2, breaks |-> 1, restarts |-> 1],
           [sockets |-> {<<News, left>>}, pubs |-> Only(News, 2),
            conns |-> 2, breaks |-> 0, restarts |-> 0],
           [sockets |-> {<<Leaderboard, left>>}, pubs |-> Only(Leaderboard, 2),
            conns |-> 1, breaks |-> 0, restarts |-> 0] }
=============================================================================
