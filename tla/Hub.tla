-------------------------------- MODULE Hub --------------------------------
(***************************************************************************)
(* The push layer: the hub of backend/internal/ws, which fans publications *)
(* out to the connections subscribed to a topic, and the reconnecting      *)
(* socket of the frontend (ws/WebSocketProvider.tsx).                      *)
(*                                                                         *)
(* Publish runs in the goroutine of whoever publishes: it holds the hub's  *)
(* mutex for reading while it visits the subscribers one by one, so        *)
(* several publications may be under way, and connections join and leave   *)
(* only between them.  Each connection has a bounded queue and a goroutine *)
(* that writes frames from it; a network that breaks is seen by the two    *)
(* ends at different times, so a browser may be back before the server has *)
(* noticed that it was gone.                                               *)
(***************************************************************************)
EXTENDS Integers, SequencesExt

CONSTANTS Topics, Browsers,
          SendBuffer           \* frames a connection may queue

\* Inputs and bounds of a model.
CONSTANTS HubLoads,            \* [sockets: those that are used,
                               \*  pubs: how often each topic is published to,
                               \*  conns: connections a socket may use up,
                               \*  breaks: connections that may break,
                               \*  restarts: of the server]
          MaxPublications,     \* publications of a topic
          MaxConns             \* of a socket

ASSUME HubAssumption ==
    /\ SendBuffer \in Nat \ {0} /\ MaxConns \in Nat \ {0}
    /\ MaxPublications \in Nat
    /\ HubLoads \subseteq [sockets : SUBSET (Topics \X Browsers),
                           pubs : [Topics -> 0..MaxPublications],
                           conns : 1..MaxConns, breaks : Nat, restarts : Nat]

Sockets      == Topics \X Browsers
Publications == Topics \X (1..MaxPublications)
Conns        == Sockets \X (1..MaxConns)

\* Of a socket or a publication; of a connection.
TopicOf(x) == x[1]
TopicOfConn(k) == TopicOf(k[1])

VARIABLES
    pub,        \* pub[p]: how far a publication has come
    todo,       \* todo[p]: the subscribers Publish has yet to visit
    topics,     \* topics[t]: the subscribers
    conn,       \* conn[k]: the server's side of a connection
    sock,       \* sock[s]: the browser's side
    hubLoad     \* who takes part; the breaks and restarts still to come

hubVars == <<pub, todo, topics, conn, sock, hubLoad>>

-----------------------------------------------------------------------------
\* got, sent and dropped are auxiliary: the frames the browser received, and
\* the publications Publish tried to enqueue and those it found no room for.
\* since holds the publications that began while the connection was served.
\* They are forgotten when it ends.
NoConn == [state |-> "unused", up |-> TRUE, queue |-> <<>>, frame |-> <<>>,
           got |-> <<>>, sent |-> <<>>, dropped |-> {}, since |-> {}]

Gone == [NoConn EXCEPT !.state = "gone", !.up = FALSE]

Closed == [mounted |-> FALSE, status |-> "disconnected", conn |-> 0]

HubInit ==
    /\ hubLoad \in HubLoads
    /\ pub = [p \in Publications |-> "none"]
    /\ todo = [p \in Publications |-> {}]
    /\ topics = [t \in Topics |-> {}]
    /\ conn = [k \in Conns |-> NoConn]
    /\ sock = [s \in Sockets |->
                 IF s \in hubLoad.sockets
                 THEN [Closed EXCEPT !.mounted = TRUE, !.status = "connecting"]
                 ELSE Closed]

ConnOf(s) == <<s, sock[s].conn>>
HasConn(s) == sock[s].conn # 0

\* The read lock of h.mu is free.
NobodySends == \A p \in Publications : pub[p] # "sending"

Served(k) == conn[k].state \in {"serving", "writing"}

-----------------------------------------------------------------------------
(* Publish.                                                                *)

\* Something to tell the browsers has happened.  The publications of a topic are
\* numbered as they happen.
Happens(p) ==
    /\ p[2] <= hubLoad.pubs[TopicOf(p)] /\ pub[p] = "none"
    /\ \A n \in 1..(p[2] - 1) : pub[<<p[1], n>>] # "none"
    /\ pub' = [pub EXCEPT ![p] = "due"]
    /\ UNCHANGED <<todo, topics, conn, sock, hubLoad>>

BeginPublish(p) ==
    /\ pub[p] = "due"
    /\ pub' = [pub EXCEPT ![p] = "sending"]
    /\ todo' = [todo EXCEPT ![p] = topics[TopicOf(p)]]
    /\ conn' = [k \in Conns |->
                  IF Served(k) /\ TopicOfConn(k) = TopicOf(p)
                  THEN [conn[k] EXCEPT !.since = @ \cup {p}] ELSE conn[k]]
    /\ UNCHANGED <<topics, sock, hubLoad>>

\* Mutant of MaySend: waits for room.
MaySendWhenRoom(k) == Len(conn[k].queue) < SendBuffer

\* A send never waits: a full buffer drops the frame.
MaySend(k) == TRUE

SendTo(p, k) ==
    /\ pub[p] = "sending" /\ k \in todo[p] /\ MaySend(k)
    /\ todo' = [todo EXCEPT ![p] = @ \ {k}]
    /\ LET c    == conn[k]
           room == Len(c.queue) < SendBuffer
       IN  conn' = [conn EXCEPT ![k] = [c EXCEPT
              !.queue   = IF room THEN Append(@, p) ELSE @,
              !.sent    = IF Served(k) THEN Append(@, p) ELSE @,
              !.dropped = IF Served(k) /\ ~room THEN @ \cup {p} ELSE @]]
    /\ UNCHANGED <<pub, topics, sock, hubLoad>>

EndPublish(p) ==
    /\ pub[p] = "sending" /\ todo[p] = {}
    /\ pub' = [pub EXCEPT ![p] = "done"]
    /\ UNCHANGED <<todo, topics, conn, sock, hubLoad>>

Publish(p) == BeginPublish(p) \/ (\E k \in Conns : SendTo(p, k)) \/ EndPublish(p)

-----------------------------------------------------------------------------
(* ServeWS, the goroutine of a connection.                                 *)

\* Mutant of Joined: a new map each time.
JoinedAlone(subs, k) == {k}

Joined(subs, k) == subs \cup {k}

\* Mutant of Left: the connection stays in the map.
NobodyLeft(subs, k) == subs

Left(subs, k) == subs \ {k}

\* add, which waits for the publications under way.
Subscribe(k) ==
    /\ conn[k].state = "accepted" /\ NobodySends
    /\ topics' = [topics EXCEPT ![TopicOfConn(k)] = Joined(@, k)]
    /\ conn' = [conn EXCEPT ![k].state = "serving"]
    /\ UNCHANGED <<pub, todo, sock, hubLoad>>

TakeFrame(k) ==
    /\ conn[k].state = "serving" /\ conn[k].queue # <<>>
    /\ conn' = [conn EXCEPT ![k].state = "writing",
                            ![k].frame = <<Head(conn[k].queue)>>,
                            ![k].queue = Tail(@)]
    /\ UNCHANGED <<pub, todo, topics, sock, hubLoad>>

\* The frame reaches the browser, whose onmessage runs.
Deliver(s) ==
    /\ HasConn(s) /\ sock[s].status = "live"
    /\ conn[ConnOf(s)].state = "writing" /\ conn[ConnOf(s)].up
    /\ conn' = [conn EXCEPT ![ConnOf(s)].state = "serving",
                            ![ConnOf(s)].frame = <<>>,
                            ![ConnOf(s)].got = @ \o conn[ConnOf(s)].frame]
    /\ UNCHANGED <<pub, todo, topics, sock, hubLoad>>

\* The goroutine leaves its loop; what is in the queue stays there.
Ended(c) == [NoConn EXCEPT !.state = "ended", !.up = FALSE, !.queue = c.queue]

\* A write fails, on a broken connection or after writeTimeout: CloseNow.  What the
\* network holds of a connection counts as still being written.
WriteFails(k) ==
    /\ conn[k].state = "writing"
    /\ conn' = [conn EXCEPT ![k] = Ended(@)]
    /\ UNCHANGED <<pub, todo, topics, sock, hubLoad>>

\* CloseRead cancels the context.
SeeBreak(k) ==
    /\ conn[k].state = "serving" /\ ~conn[k].up
    /\ conn' = [conn EXCEPT ![k] = Ended(@)]
    /\ UNCHANGED <<pub, todo, topics, sock, hubLoad>>

\* remove, which waits for the publications under way.
Unsubscribe(k) ==
    /\ conn[k].state = "ended" /\ NobodySends
    /\ topics' = [topics EXCEPT ![TopicOfConn(k)] = Left(@, k)]
    /\ conn' = [conn EXCEPT ![k] = Gone]
    /\ UNCHANGED <<pub, todo, sock, hubLoad>>

\* What the goroutine does by itself.
Handler(k) == Subscribe(k) \/ TakeFrame(k) \/ SeeBreak(k) \/ Unsubscribe(k)

-----------------------------------------------------------------------------
(* useManagedSocket, one for each topic a browser shows.  The length of    *)
(* the backoff is left out: a wait may take any time.                      *)

\* The upgrade reaches the server (Accept), or does not.
Dial(s) ==
    /\ sock[s].mounted /\ sock[s].status = "connecting" /\ ~HasConn(s)
    /\ \E n \in 1..hubLoad.conns :
          /\ conn[<<s, n>>].state = "unused"
          /\ \A m \in 1..(n - 1) : conn[<<s, m>>].state # "unused"
          /\ conn' = [conn EXCEPT ![<<s, n>>].state = "accepted"]
          /\ sock' = [sock EXCEPT ![s].conn = n]
    /\ UNCHANGED <<pub, todo, topics, hubLoad>>

DialFails(s) ==
    /\ sock[s].mounted /\ sock[s].status = "connecting" /\ ~HasConn(s)
    /\ sock' = [sock EXCEPT ![s].status = "disconnected"]
    /\ UNCHANGED <<pub, todo, topics, conn, hubLoad>>

\* onopen.
Open(s) ==
    /\ HasConn(s) /\ sock[s].status = "connecting" /\ conn[ConnOf(s)].up
    /\ sock' = [sock EXCEPT ![s].status = "live"]
    /\ UNCHANGED <<pub, todo, topics, conn, hubLoad>>

\* onclose: scheduleReconnect.
SeeClose(s) ==
    /\ HasConn(s) /\ ~conn[ConnOf(s)].up
    /\ sock' = [sock EXCEPT ![s].status = "disconnected", ![s].conn = 0]
    /\ UNCHANGED <<pub, todo, topics, conn, hubLoad>>

\* The backoff is over: connect.
Reconnect(s) ==
    /\ sock[s].mounted /\ sock[s].status = "disconnected"
    /\ sock' = [sock EXCEPT ![s].status = "connecting"]
    /\ UNCHANGED <<pub, todo, topics, conn, hubLoad>>

\* The effect's cleanup: no reconnection, and the socket is closed.
Unmount(s) ==
    /\ sock[s].mounted
    /\ sock' = [sock EXCEPT ![s] = Closed]
    /\ conn' = IF HasConn(s) THEN [conn EXCEPT ![ConnOf(s)].up = FALSE] ELSE conn
    /\ UNCHANGED <<pub, todo, topics, hubLoad>>

SocketStep(s) == Dial(s) \/ DialFails(s) \/ Open(s) \/ SeeClose(s) \/ Reconnect(s)

\* The network gives way.
Break(k) ==
    /\ hubLoad.breaks > 0 /\ conn[k].state \in {"accepted", "serving", "writing"}
    /\ conn[k].up
    /\ conn' = [conn EXCEPT ![k].up = FALSE]
    /\ hubLoad' = [hubLoad EXCEPT !.breaks = @ - 1]
    /\ UNCHANGED <<pub, todo, topics, sock>>

\* The process ends, and with it every connection and publication; it starts
\* again with an empty hub.
Restart ==
    /\ hubLoad.restarts > 0
    /\ hubLoad' = [hubLoad EXCEPT !.restarts = @ - 1]
    /\ pub' = [p \in Publications |->
                 IF pub[p] \in {"due", "sending"} THEN "lost" ELSE pub[p]]
    /\ todo' = [p \in Publications |-> {}]
    /\ topics' = [t \in Topics |-> {}]
    /\ conn' = [k \in Conns |->
                  IF conn[k].state = "unused" THEN conn[k]
                  ELSE Gone]
    /\ UNCHANGED sock

\* Everything but Happens and Deliver, which the feeds have a part in.
HubStep ==
    \/ \E p \in Publications : Publish(p)
    \/ \E k \in Conns : Handler(k) \/ WriteFails(k) \/ Break(k)
    \/ \E s \in Sockets : SocketStep(s) \/ Unmount(s)
    \/ Restart

-----------------------------------------------------------------------------
(* Correctness.                                                            *)

\* What has been taken from a connection's queue, and what is still in it.
Flow(c) == c.got \o c.frame \o c.queue

\* While a connection is served it is subscribed, whoever else joins or leaves
\* its topic; every publication that began in the meantime is sent to it, none
\* twice, and arrives in the order of the sends unless its buffer was full.
EveryFrameAccounted ==
    \A k \in Conns : Served(k) =>
        LET c == conn[k]
        IN  /\ k \in topics[TopicOfConn(k)]
            /\ IsInjective(c.sent)
            /\ c.since \ ToSet(c.sent) = {p \in Publications : k \in todo[p]}
            /\ ToSet(Flow(c)) = ToSet(c.sent) \ c.dropped
            /\ \A i, j \in DOMAIN Flow(c), m, n \in DOMAIN c.sent :
                  Flow(c)[i] = c.sent[m] /\ Flow(c)[j] = c.sent[n] => (i < j <=> m < n)

\* Whatever the connections do, every publication gets through: trades, and the
\* jobs that publish, never wait for a browser (Publish never blocks).  There are
\* finitely many.
PublishersAreNotStalled ==
    <>[](\A p \in Publications : pub[p] \notin {"due", "sending"})

\* Connections that broke, or whose page is gone, do not stay in the hub.  There
\* are finitely many.
DeadConnectionsLeave ==
    <>[](\A k \in Conns : ~conn[k].up => k \notin topics[TopicOfConn(k)])
=============================================================================
