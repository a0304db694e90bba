---------------------------- MODULE FeedsProofs ----------------------------
(***************************************************************************)
(* Proofs about the hub and the news, for any number of topics, browsers,  *)
(* connections and publications: which frames a connection gets, and in    *)
(* which order a browser shows the news.                                   *)
(***************************************************************************)
EXTENDS Feeds, TLAPS

-----------------------------------------------------------------------------
(* The hub.                                                                *)

PubStates  == {"none", "due", "sending", "done", "lost"}
ConnStates == {"unused", "accepted", "serving", "writing", "ended", "gone"}
SockStates == {"connecting", "live", "disconnected"}

ConnRecs ==
    [state : ConnStates, up : BOOLEAN, queue : Seq(Publications), frame : Seq(Publications),
     got : Seq(Publications), sent : Seq(Publications),
     dropped : SUBSET Publications, since : SUBSET Publications]

SockRecs == [mounted : BOOLEAN, status : SockStates, conn : 0..MaxConns]

HubTypeOK ==
    /\ pub \in [Publications -> PubStates]
    /\ todo \in [Publications -> SUBSET Conns]
    /\ topics \in [Topics -> SUBSET Conns]
    /\ conn \in [Conns -> ConnRecs]
    /\ sock \in [Sockets -> SockRecs]
    /\ hubLoad.conns \in 1..MaxConns

\* A connection that has not been served yet, as far as the hub knows.
Fresh(c) ==
    /\ c.queue = <<>> /\ c.frame = <<>> /\ c.got = <<>> /\ c.sent = <<>>
    /\ c.dropped = {} /\ c.since = {}

\* Publish visits subscribers only, and these stay until it is through.
PublishInv ==
    /\ \A p \in Publications :
          /\ pub[p] # "sending" => todo[p] = {}
          /\ todo[p] \subseteq topics[TopicOf(p)]
    /\ \A t \in Topics : \A k \in topics[t] :
          TopicOfConn(k) = t /\ conn[k].state \in {"serving", "writing", "ended"}

\* What is known of a connection besides EveryFrameAccounted.
ConnInv ==
    \A k \in Conns :
        /\ conn[k].state \in {"unused", "accepted"} => Fresh(conn[k])
        /\ conn[k].state = "serving" => conn[k].frame = <<>>
        /\ conn[k].state = "writing" => Len(conn[k].frame) = 1
        /\ Served(k) => /\ ToSet(conn[k].sent) \subseteq conn[k].since
                        /\ conn[k].dropped \subseteq ToSet(conn[k].sent)
        /\ \A p \in conn[k].since :
              TopicOf(p) = TopicOfConn(k) /\ pub[p] \notin {"none", "due"}

\* What was sent, and what of it has come or is to come.
InOrder(c) ==
    /\ IsInjective(c.sent)
    /\ ToSet(Flow(c)) = ToSet(c.sent) \ c.dropped
    /\ \A i, j \in DOMAIN Flow(c), m, n \in DOMAIN c.sent :
          Flow(c)[i] = c.sent[m] /\ Flow(c)[j] = c.sent[n] => (i < j <=> m < n)

Accounted(k) ==
    Served(k) =>
        /\ k \in topics[TopicOfConn(k)]
        /\ InOrder(conn[k])
        /\ conn[k].since \ ToSet(conn[k].sent) = {p \in Publications : k \in todo[p]}

AccountedInv == \A k \in Conns : Accounted(k)

HubInv == HubTypeOK /\ PublishInv /\ ConnInv /\ AccountedInv

-----------------------------------------------------------------------------
(* The news.                                                               *)

NewsRow(n) == <<News, n>>

\* The frames a connection has yet to bring; those under way to a browser that
\* its news can still get.
Load(k) ==
    IF Served(k) THEN ToSet(conn[k].frame) \cup ToSet(conn[k].queue) ELSE {}

UnderWay(b) == IF HasConn(<<News, b>>) THEN Load(ConnOf(<<News, b>>)) ELSE {}

\* While a frame is under way, fewer news come than a page has.
PagesCoverFrames ==
    \A b \in Browsers, limit \in NewsLimits :
        \A p \in UnderWay(b) : p[2] > Len(rows) - limit

\* The rows are numbered; but for the last, their publications are over.
RowsInv ==
    /\ rows \in Seq(Publications)
    /\ \A n \in DOMAIN rows : rows[n] = NewsRow(n)
    /\ \A n \in 1..MaxPublications :
          /\ pub[NewsRow(n)] # "none" <=> n <= Len(rows)
          /\ n < Len(rows) => pub[NewsRow(n)] \in {"done", "lost"}

Descending(news) == \A i, j \in DOMAIN news : i < j => news[i][2] > news[j][2]

\* p is of the news, or of later ones.
NotOlder(p, news) == p \in ToSet(news) \/ \A i \in DOMAIN news : p[2] > news[i][2]

\* News that a browser shows, or is to show.
GoodNews(b, news) ==
    /\ news \in Seq(ToSet(rows))
    /\ Descending(news)
    /\ \A p \in UnderWay(b) : NotOlder(p, news)

\* Frames come in the order of their rows.
Sorted(c) ==
    /\ \A i, j \in DOMAIN c.queue : i < j => c.queue[i][2] < c.queue[j][2]
    /\ \A p \in ToSet(c.frame), q \in ToSet(c.queue) : p[2] < q[2]

QueueOf(k) == Served(k) /\ TopicOfConn(k) = News => Sorted(conn[k])

QueueInv == \A k \in Conns : QueueOf(k)

NewsQueries ==
    [loaded : BOOLEAN, data : Seq(Publications),
     flight : {"none", "asked", "answered"}, answer : Seq(Publications)]

NewsInv ==
    /\ query = [t \in Feeds |-> query[t]]
    /\ query[News] \in [Browsers -> NewsQueries]
    /\ \A b \in Browsers :
          GoodNews(b, query[News][b].data) /\ GoodNews(b, query[News][b].answer)

FeedInv == HubInv /\ RowsInv /\ QueueInv /\ NewsInv

-----------------------------------------------------------------------------
(* Sequences.                                                              *)

\* What a sequence has, it has somewhere.
LEMMA InSet ==
    ASSUME NEW s
    PROVE  /\ \A i \in DOMAIN s : s[i] \in ToSet(s)
           /\ \A x \in ToSet(s) : \E i \in DOMAIN s : x = s[i]
  BY DEF ToSet

\* Appending adds one element.
LEMMA AppendSet ==
    ASSUME NEW S, NEW s \in Seq(S), NEW p \in S
    PROVE  ToSet(Append(s, p)) = ToSet(s) \cup {p}
  <1>1. /\ DOMAIN Append(s, p) = DOMAIN s \cup {Len(s) + 1}
        /\ \A i \in DOMAIN s : Append(s, p)[i] = s[i]
        /\ Append(s, p)[Len(s) + 1] = p
    OBVIOUS
  <1>2. QED
    BY <1>1 DEF ToSet

\* Two sequences have together what each of them has.
LEMMA ConcatSet ==
    ASSUME NEW S, NEW s \in Seq(S), NEW t \in Seq(S)
    PROVE  s \o t \in Seq(S) /\ ToSet(s \o t) = ToSet(s) \cup ToSet(t)
  <1>1. /\ s \o t \in Seq(S)
        /\ DOMAIN s = 1..Len(s) /\ DOMAIN t = 1..Len(t)
        /\ DOMAIN (s \o t) = 1..(Len(s) + Len(t))
        /\ \A i \in 1..Len(s) : (s \o t)[i] = s[i]
        /\ \A i \in 1..Len(t) : (s \o t)[Len(s) + i] = t[i]
    OBVIOUS
  <1>2. ToSet(s) \cup ToSet(t) \subseteq ToSet(s \o t)
    <2>1. \A i \in 1..Len(s) : i \in DOMAIN (s \o t)
      BY <1>1
    <2>2. \A i \in 1..Len(t) : Len(s) + i \in DOMAIN (s \o t)
      BY <1>1
    <2>3. ASSUME NEW i \in 1..Len(s)
          PROVE  s[i] \in ToSet(s \o t)
      BY <1>1, <2>1 DEF ToSet
    <2>4. ASSUME NEW i \in 1..Len(t)
          PROVE  t[i] \in ToSet(s \o t)
      BY <1>1, <2>2 DEF ToSet
    <2>5. QED
      BY <1>1, <2>3, <2>4, InSet
  <1>3. ASSUME NEW i \in DOMAIN (s \o t)
        PROVE  (s \o t)[i] \in ToSet(s) \cup ToSet(t)
    <2>1. CASE i \in 1..Len(s)
      BY <1>1, <2>1 DEF ToSet
    <2>2. CASE i - Len(s) \in 1..Len(t)
      BY <1>1, <2>2 DEF ToSet
    <2>3. QED
      BY <1>1, <2>1, <2>2
  <1>4. QED
    BY <1>1, <1>2, <1>3 DEF ToSet

\* A sequence is its first element and the rest.
LEMMA HeadAndTail ==
    ASSUME NEW S, NEW s \in Seq(S), s # <<>>
    PROVE  /\ Head(s) \in S /\ Tail(s) \in Seq(S) /\ <<Head(s)>> \in Seq(S)
           /\ ToSet(s) = {Head(s)} \cup ToSet(Tail(s))
           /\ \A i \in DOMAIN Tail(s) : i + 1 \in DOMAIN s /\ Tail(s)[i] = s[i + 1]
  <1>1. /\ Head(s) \in S /\ Tail(s) \in Seq(S) /\ <<Head(s)>> \in Seq(S)
        /\ s = <<Head(s)>> \o Tail(s)
    OBVIOUS
  <1>2. ToSet(<<Head(s)>>) = {Head(s)}
    BY DEF ToSet
  <1>3. ToSet(s) = {Head(s)} \cup ToSet(Tail(s))
    <2>1. ToSet(<<Head(s)>> \o Tail(s)) = ToSet(<<Head(s)>>) \cup ToSet(Tail(s))
      BY <1>1, ConcatSet
    <2>2. QED
      BY <1>1, <1>2, <2>1
  <1>4. \A i \in DOMAIN Tail(s) : i + 1 \in DOMAIN s /\ Tail(s)[i] = s[i + 1]
    OBVIOUS
  <1>5. QED
    BY <1>1, <1>3, <1>4

-----------------------------------------------------------------------------
(* Connections.                                                            *)

\* The ways a connection is changed.
Filled(c, queue, sent, dropped) ==
    [c EXCEPT !.queue = queue, !.sent = sent, !.dropped = dropped]
SentTo(c, p)      == Filled(c, Append(c.queue, p), Append(c.sent, p), c.dropped)
DroppedFor(c, p)  == Filled(c, c.queue, Append(c.sent, p), c.dropped \cup {p})
LeftWith(c, p)    == Filled(c, Append(c.queue, p), c.sent, c.dropped)
Begun(c, p)       == [c EXCEPT !.since = @ \cup {p}]
InState(c, state) == [c EXCEPT !.state = state]
Taken(c)          == [c EXCEPT !.state = "writing", !.frame = <<Head(c.queue)>>,
                               !.queue = Tail(@)]
Delivered(c)      == [c EXCEPT !.state = "serving", !.frame = <<>>, !.got = @ \o c.frame]
Broken(c)         == [c EXCEPT !.up = FALSE]

SameButState(c, d) ==
    /\ d.queue = c.queue /\ d.frame = c.frame /\ d.got = c.got /\ d.sent = c.sent
    /\ d.dropped = c.dropped /\ d.since = c.since

\* The fields of a connection with another queue.
LEMMA FilledConn ==
    ASSUME NEW c \in ConnRecs, NEW queue \in Seq(Publications),
           NEW sent \in Seq(Publications), NEW dropped \in SUBSET Publications
    PROVE  LET d == Filled(c, queue, sent, dropped)
           IN  /\ d \in ConnRecs /\ d.state = c.state
               /\ d.frame = c.frame /\ d.got = c.got /\ d.since = c.since
               /\ d.queue = queue /\ d.sent = sent /\ d.dropped = dropped
  BY DEF Filled, ConnRecs

\* A frame that fits is in the queue and counts as sent.
LEMMA SentToConn ==
    ASSUME NEW c \in ConnRecs, NEW p \in Publications
    PROVE  LET d == SentTo(c, p)
           IN  /\ d \in ConnRecs /\ d.state = c.state
               /\ d.frame = c.frame /\ d.got = c.got /\ d.since = c.since
               /\ d.queue = Append(c.queue, p) /\ d.sent = Append(c.sent, p)
               /\ d.dropped = c.dropped
  <1> DEFINE queue   == Append(c.queue, p)
             sent    == Append(c.sent, p)
             dropped == c.dropped
  <1>1. /\ queue \in Seq(Publications) /\ sent \in Seq(Publications)
        /\ dropped \in SUBSET Publications
    BY DEF ConnRecs
  <1>2. SentTo(c, p) = Filled(c, queue, sent, dropped)
    BY DEF SentTo
  <1> HIDE DEF queue, sent, dropped
  <1>3. LET d == SentTo(c, p)
        IN  /\ d \in ConnRecs /\ d.state = c.state
            /\ d.frame = c.frame /\ d.got = c.got /\ d.since = c.since
            /\ d.queue = queue /\ d.sent = sent /\ d.dropped = dropped
    BY <1>1, <1>2, FilledConn
  <1>4. QED
    BY <1>3 DEF queue, sent, dropped

\* A frame that does not fit counts as sent and as dropped.
LEMMA DroppedForConn ==
    ASSUME NEW c \in ConnRecs, NEW p \in Publications
    PROVE  LET d == DroppedFor(c, p)
           IN  /\ d \in ConnRecs /\ d.state = c.state
               /\ d.frame = c.frame /\ d.got = c.got /\ d.since = c.since
               /\ d.queue = c.queue /\ d.sent = Append(c.sent, p)
               /\ d.dropped = c.dropped \cup {p}
  <1> DEFINE queue   == c.queue
             sent    == Append(c.sent, p)
             dropped == c.dropped \cup {p}
  <1>1. /\ queue \in Seq(Publications) /\ sent \in Seq(Publications)
        /\ dropped \in SUBSET Publications
    BY DEF ConnRecs
  <1>2. DroppedFor(c, p) = Filled(c, queue, sent, dropped)
    BY DEF DroppedFor
  <1> HIDE DEF queue, sent, dropped
  <1>3. LET d == DroppedFor(c, p)
        IN  /\ d \in ConnRecs /\ d.state = c.state
            /\ d.frame = c.frame /\ d.got = c.got /\ d.since = c.since
            /\ d.queue = queue /\ d.sent = sent /\ d.dropped = dropped
    BY <1>1, <1>2, FilledConn
  <1>4. QED
    BY <1>3 DEF queue, sent, dropped

\* A frame put in the queue of a connection no longer served counts as nothing.
LEMMA LeftWithConn ==
    ASSUME NEW c \in ConnRecs, NEW p \in Publications
    PROVE  LET d == LeftWith(c, p)
           IN  /\ d \in ConnRecs /\ d.state = c.state
               /\ d.frame = c.frame /\ d.got = c.got /\ d.since = c.since
               /\ d.queue = Append(c.queue, p) /\ d.sent = c.sent
               /\ d.dropped = c.dropped
  <1> DEFINE queue   == Append(c.queue, p)
             sent    == c.sent
             dropped == c.dropped
  <1>1. /\ queue \in Seq(Publications) /\ sent \in Seq(Publications)
        /\ dropped \in SUBSET Publications
    BY DEF ConnRecs
  <1>2. LeftWith(c, p) = Filled(c, queue, sent, dropped)
    BY DEF LeftWith
  <1> HIDE DEF queue, sent, dropped
  <1>3. LET d == LeftWith(c, p)
        IN  /\ d \in ConnRecs /\ d.state = c.state
            /\ d.frame = c.frame /\ d.got = c.got /\ d.since = c.since
            /\ d.queue = queue /\ d.sent = sent /\ d.dropped = dropped
    BY <1>1, <1>2, FilledConn
  <1>4. QED
    BY <1>3 DEF queue, sent, dropped

\* A publication that begins is one of those since the subscription.
LEMMA BegunConn ==
    ASSUME NEW c \in ConnRecs, NEW p \in Publications
    PROVE  LET d == Begun(c, p)
           IN  /\ d \in ConnRecs /\ d.state = c.state
               /\ d.queue = c.queue /\ d.frame = c.frame /\ d.got = c.got
               /\ d.sent = c.sent /\ d.dropped = c.dropped
               /\ d.since = c.since \cup {p}
  BY DEF Begun, ConnRecs

\* A connection in another state has everything else.
LEMMA InStateConn ==
    ASSUME NEW c \in ConnRecs, NEW state \in ConnStates
    PROVE  LET d == InState(c, state)
           IN  d \in ConnRecs /\ d.state = state /\ SameButState(c, d)
  BY DEF InState, ConnRecs, SameButState

\* A connection that breaks has its frames for as long as nobody notices.
LEMMA BrokenConn ==
    ASSUME NEW c \in ConnRecs
    PROVE  LET d == Broken(c)
           IN  d \in ConnRecs /\ d.state = c.state /\ SameButState(c, d)
  BY DEF Broken, ConnRecs, SameButState

\* The first frame of the queue is being written.
LEMMA TakenConn ==
    ASSUME NEW c \in ConnRecs, c.queue # <<>>
    PROVE  LET d == Taken(c)
           IN  /\ d \in ConnRecs /\ d.state = "writing"
               /\ d.frame = <<Head(c.queue)>> /\ d.queue = Tail(c.queue)
               /\ d.got = c.got /\ d.sent = c.sent /\ d.dropped = c.dropped
               /\ d.since = c.since
  <1>1. <<Head(c.queue)>> \in Seq(Publications) /\ Tail(c.queue) \in Seq(Publications)
    BY HeadAndTail DEF ConnRecs
  <1>2. QED
    BY <1>1 DEF Taken, ConnRecs, ConnStates

\* The frame that was being written has arrived.
LEMMA DeliveredConn ==
    ASSUME NEW c \in ConnRecs
    PROVE  LET d == Delivered(c)
           IN  /\ d \in ConnRecs /\ d.state = "serving"
               /\ d.frame = <<>> /\ d.queue = c.queue
               /\ d.got = c.got \o c.frame /\ d.sent = c.sent /\ d.dropped = c.dropped
               /\ d.since = c.since
  <1>1. c.got \o c.frame \in Seq(Publications)
    BY ConcatSet DEF ConnRecs
  <1>2. PICK got \in Seq(Publications) : got = c.got \o c.frame
    BY <1>1
  <1>3. Delivered(c) = [c EXCEPT !.state = "serving", !.frame = <<>>, !.got = got]
    BY <1>2, Zenon DEF Delivered
  <1>4. LET d == [c EXCEPT !.state = "serving", !.frame = <<>>, !.got = got]
        IN  /\ d \in ConnRecs /\ d.state = "serving"
            /\ d.frame = <<>> /\ d.queue = c.queue
            /\ d.got = got /\ d.sent = c.sent /\ d.dropped = c.dropped
            /\ d.since = c.since
    <2>1. <<>> \in Seq(Publications) /\ "serving" \in ConnStates
      BY DEF ConnStates
    <2>2. QED
      BY <2>1 DEF ConnRecs
  <1>5. QED
    BY <1>2, <1>3, <1>4

\* A connection not yet opened, and one that is forgotten, have nothing.
LEMMA NewConns ==
    /\ NoConn \in ConnRecs /\ NoConn.state = "unused" /\ Fresh(NoConn)
    /\ Gone \in ConnRecs /\ Gone.state = "gone" /\ Gone.since = {}
  <1>1. NoConn \in ConnRecs /\ NoConn.state = "unused" /\ Fresh(NoConn)
    BY DEF NoConn, ConnRecs, ConnStates, Fresh
  <1>2. QED
    BY <1>1 DEF Gone, ConnRecs, ConnStates, Fresh

\* A connection that ended has no publication to account for.
LEMMA EndedConn ==
    ASSUME NEW c \in ConnRecs
    PROVE  Ended(c) \in ConnRecs /\ Ended(c).state = "ended" /\ Ended(c).since = {}
  BY NewConns DEF Ended, ConnRecs, ConnStates, Fresh

\* What came before a connection is served, and what may go.
LEMMA FreshInOrder ==
    ASSUME NEW c, Fresh(c)
    PROVE  InOrder(c) /\ c.since \ ToSet(c.sent) = {}
  <1>1. Flow(c) = <<>>
    BY DEF Flow, Fresh
  <1>2. ToSet(<<>>) = {}
    BY DEF ToSet
  <1>3. QED
    BY <1>1, <1>2 DEF InOrder, Fresh, IsInjective

\* The order is about the flow, what was sent and what was dropped.
LEMMA SameInOrder ==
    ASSUME NEW c, NEW d, Flow(d) = Flow(c), d.sent = c.sent, d.dropped = c.dropped
    PROVE  InOrder(d) <=> InOrder(c)
  BY DEF InOrder

\* A frame that had not been sent is, and comes last or is dropped.
LEMMA AppendOnce ==
    ASSUME NEW S, NEW s \in Seq(S), NEW p \in S, IsInjective(s), p \notin ToSet(s)
    PROVE  /\ IsInjective(Append(s, p))
           /\ ToSet(Append(s, p)) = ToSet(s) \cup {p}
           /\ DOMAIN Append(s, p) = DOMAIN s \cup {Len(s) + 1}
           /\ \A m \in DOMAIN s :
                 Append(s, p)[m] = s[m] /\ m < Len(s) + 1 /\ s[m] # p
           /\ Append(s, p)[Len(s) + 1] = p
  <1>1. ToSet(Append(s, p)) = ToSet(s) \cup {p}
    BY AppendSet
  <1>2. /\ DOMAIN Append(s, p) = DOMAIN s \cup {Len(s) + 1}
        /\ \A m \in DOMAIN s : Append(s, p)[m] = s[m] /\ m < Len(s) + 1
        /\ Append(s, p)[Len(s) + 1] = p
    OBVIOUS
  <1>3. \A m \in DOMAIN s : s[m] # p
    BY InSet
  <1>4. IsInjective(Append(s, p))
    BY <1>2, <1>3 DEF IsInjective
  <1>5. QED
    BY <1>1, <1>2, <1>3, <1>4

\* What a connection has got, is writing and has queued are sequences.
LEMMA FlowsAreSeqs ==
    ASSUME NEW c \in ConnRecs
    PROVE  /\ Flow(c) \in Seq(Publications)
           /\ c.sent \in Seq(Publications) /\ c.queue \in Seq(Publications)
           /\ c.got \in Seq(Publications) /\ c.frame \in Seq(Publications)
           /\ ToSet(Flow(c)) = ToSet(c.got) \cup ToSet(c.frame) \cup ToSet(c.queue)
  <1>1. /\ c.sent \in Seq(Publications) /\ c.queue \in Seq(Publications)
        /\ c.got \in Seq(Publications) /\ c.frame \in Seq(Publications)
    BY DEF ConnRecs
  <1>2. /\ c.got \o c.frame \in Seq(Publications)
        /\ ToSet(c.got \o c.frame) = ToSet(c.got) \cup ToSet(c.frame)
    BY <1>1, ConcatSet
  <1>3. PICK s \in Seq(Publications) : s = c.got \o c.frame
    BY <1>2
  <1>4. /\ s \o c.queue \in Seq(Publications)
        /\ ToSet(s \o c.queue) = ToSet(s) \cup ToSet(c.queue)
    BY <1>1, ConcatSet
  <1>5. QED
    BY <1>1, <1>2, <1>3, <1>4 DEF Flow

\* A frame put at the end of the queue keeps the order of sending.
LEMMA SentInOrder ==
    ASSUME NEW c \in ConnRecs, NEW p \in Publications,
           InOrder(c), p \notin ToSet(c.sent), c.dropped \subseteq ToSet(c.sent)
    PROVE  InOrder(SentTo(c, p))
  <1>1. PICK d : d = SentTo(c, p)
    OBVIOUS
  <1>2. PICK f \in Seq(Publications) : f = Flow(c)
    BY FlowsAreSeqs
  <1>3. /\ d.frame = c.frame /\ d.got = c.got /\ d.queue = Append(c.queue, p)
        /\ d.sent = Append(c.sent, p) /\ d.dropped = c.dropped
    BY <1>1, SentToConn
  <1>4. Flow(d) = Append(f, p)
    <2>1. Flow(d) = (c.got \o c.frame) \o Append(c.queue, p)
      BY <1>3 DEF Flow
    <2>2. (c.got \o c.frame) \o Append(c.queue, p)
              = Append((c.got \o c.frame) \o c.queue, p)
      <3>1. PICK s \in Seq(Publications), t \in Seq(Publications), u \in Seq(Publications) :
                s = c.got /\ t = c.frame /\ u = c.queue
        BY FlowsAreSeqs
      <3>2. (s \o t) \o Append(u, p) = Append((s \o t) \o u, p)
        OBVIOUS
      <3>3. QED
        BY <3>1, <3>2, Zenon
    <2>3. QED
      BY <1>2, <2>1, <2>2 DEF Flow
  <1>5. /\ IsInjective(c.sent) /\ ToSet(f) = ToSet(c.sent) \ c.dropped
        /\ \A i, j \in DOMAIN f, m, n \in DOMAIN c.sent :
              f[i] = c.sent[m] /\ f[j] = c.sent[n] => (i < j <=> m < n)
    BY <1>2 DEF InOrder
  <1>6. /\ IsInjective(d.sent)
        /\ ToSet(d.sent) = ToSet(c.sent) \cup {p}
        /\ DOMAIN d.sent = DOMAIN c.sent \cup {Len(c.sent) + 1}
        /\ \A m \in DOMAIN c.sent :
              d.sent[m] = c.sent[m] /\ m < Len(c.sent) + 1 /\ c.sent[m] # p
        /\ d.sent[Len(c.sent) + 1] = p
    <2>1. PICK s \in Seq(Publications) : s = c.sent
      BY FlowsAreSeqs
    <2>2. IsInjective(s) /\ p \notin ToSet(s) /\ d.sent = Append(s, p)
      BY <1>3, <1>5, <2>1
    <2>3. QED
      BY <2>1, <2>2, AppendOnce
  <1>7. \A i \in DOMAIN f : f[i] # p
    BY <1>5, InSet
  <1>8. /\ ToSet(Flow(d)) = ToSet(f) \cup {p}
        /\ DOMAIN Flow(d) = DOMAIN f \cup {Len(f) + 1}
        /\ \A i \in DOMAIN f : Flow(d)[i] = f[i] /\ i < Len(f) + 1
        /\ Flow(d)[Len(f) + 1] = p
    BY <1>4, AppendSet
  <1>9. ASSUME NEW i \in DOMAIN Flow(d), NEW j \in DOMAIN Flow(d),
               NEW m \in DOMAIN d.sent, NEW n \in DOMAIN d.sent,
               Flow(d)[i] = d.sent[m], Flow(d)[j] = d.sent[n]
        PROVE  i < j <=> m < n
    <2>1. i = Len(f) + 1 <=> m = Len(c.sent) + 1
      BY <1>6, <1>7, <1>8, <1>9
    <2>2. j = Len(f) + 1 <=> n = Len(c.sent) + 1
      BY <1>6, <1>7, <1>8, <1>9
    <2>3. CASE i \in DOMAIN f /\ j \in DOMAIN f
      BY <1>5, <1>6, <1>7, <1>8, <1>9, <2>3
    <2>4. CASE i = Len(f) + 1 \/ j = Len(f) + 1
      <3>1. \A x \in DOMAIN f : x \in Nat /\ x < Len(f) + 1
        BY <1>2
      <3>2. \A x \in DOMAIN c.sent : x \in Nat /\ x < Len(c.sent) + 1
        BY FlowsAreSeqs
      <3>3. Len(f) \in Nat /\ Len(c.sent) \in Nat
        BY FlowsAreSeqs
      <3>4. QED
        BY <1>6, <1>8, <2>1, <2>2, <2>4, <3>1, <3>2, <3>3
    <2>5. QED
      BY <1>8, <2>3, <2>4
  <1>10. ToSet(Flow(d)) = ToSet(d.sent) \ d.dropped
    BY <1>3, <1>5, <1>6, <1>8
  <1>11. QED
    BY <1>1, <1>6, <1>9, <1>10 DEF InOrder

\* A dropped frame leaves the flow as it is.
LEMMA DroppedInOrder ==
    ASSUME NEW c \in ConnRecs, NEW p \in Publications,
           InOrder(c), p \notin ToSet(c.sent)
    PROVE  InOrder(DroppedFor(c, p))
  <1>1. PICK d : d = DroppedFor(c, p)
    OBVIOUS
  <1>2. PICK f \in Seq(Publications) : f = Flow(c)
    BY FlowsAreSeqs
  <1>3. /\ d.frame = c.frame /\ d.got = c.got /\ d.queue = c.queue
        /\ d.sent = Append(c.sent, p) /\ d.dropped = c.dropped \cup {p}
    BY <1>1, DroppedForConn
  <1>4. Flow(d) = f
    BY <1>2, <1>3 DEF Flow
  <1>5. /\ IsInjective(c.sent) /\ ToSet(f) = ToSet(c.sent) \ c.dropped
        /\ \A i, j \in DOMAIN f, m, n \in DOMAIN c.sent :
              f[i] = c.sent[m] /\ f[j] = c.sent[n] => (i < j <=> m < n)
    BY <1>2 DEF InOrder
  <1>6. /\ IsInjective(d.sent)
        /\ ToSet(d.sent) = ToSet(c.sent) \cup {p}
        /\ DOMAIN d.sent = DOMAIN c.sent \cup {Len(c.sent) + 1}
        /\ \A m \in DOMAIN c.sent : d.sent[m] = c.sent[m] /\ c.sent[m] # p
        /\ d.sent[Len(c.sent) + 1] = p
    <2>1. PICK s \in Seq(Publications) : s = c.sent
      BY FlowsAreSeqs
    <2>2. IsInjective(s) /\ p \notin ToSet(s) /\ d.sent = Append(s, p)
      BY <1>3, <1>5, <2>1
    <2>3. QED
      BY <2>1, <2>2, AppendOnce
  <1>7. \A i \in DOMAIN f : f[i] # p
    BY <1>5, InSet
  <1>8. ASSUME NEW i \in DOMAIN f, NEW j \in DOMAIN f,
               NEW m \in DOMAIN d.sent, NEW n \in DOMAIN d.sent,
               f[i] = d.sent[m], f[j] = d.sent[n]
        PROVE  i < j <=> m < n
    BY <1>5, <1>6, <1>7, <1>8
  <1>9. ToSet(f) = ToSet(d.sent) \ d.dropped
    BY <1>3, <1>5, <1>6
  <1>10. QED
    BY <1>1, <1>4, <1>6, <1>8, <1>9 DEF InOrder

\* Taking a frame from the queue leaves the flow as it is.
LEMMA FlowTaken ==
    ASSUME NEW S, NEW s \in Seq(S), NEW u \in Seq(S), u # <<>>
    PROVE  (s \o <<>>) \o u = (s \o <<Head(u)>>) \o Tail(u)
  OBVIOUS

\* A frame is taken from the queue, and delivered.
LEMMA TakenInOrder ==
    ASSUME NEW c \in ConnRecs, InOrder(c), c.queue # <<>>, c.frame = <<>>
    PROVE  InOrder(Taken(c))
  <1>1. PICK s \in Seq(Publications), u \in Seq(Publications) : s = c.got /\ u = c.queue
    BY FlowsAreSeqs
  <1>2. u # <<>>
    BY <1>1
  <1>7. (s \o <<>>) \o u = (s \o <<Head(u)>>) \o Tail(u)
    BY <1>2, FlowTaken
  <1>3. PICK d : d = Taken(c)
    OBVIOUS
  <1>4. /\ d.got = s /\ d.frame = <<Head(u)>> /\ d.queue = Tail(u)
        /\ d.sent = c.sent /\ d.dropped = c.dropped
    BY <1>1, <1>3, TakenConn
  <1>5. Flow(d) = (s \o <<Head(u)>>) \o Tail(u) /\ Flow(c) = (s \o <<>>) \o u
    BY <1>1, <1>4, Zenon DEF Flow
  <1>6. QED
    BY <1>7, <1>3, <1>4, <1>5, SameInOrder

\* So does its arrival.
LEMMA DeliveredInOrder ==
    ASSUME NEW c \in ConnRecs, InOrder(c)
    PROVE  InOrder(Delivered(c))
  <1>1. PICK s \in Seq(Publications), t \in Seq(Publications), u \in Seq(Publications) :
            s = c.got /\ t = c.frame /\ u = c.queue
    BY FlowsAreSeqs
  <1>2. ((s \o t) \o <<>>) \o u = (s \o t) \o u
    OBVIOUS
  <1>3. PICK d : d = Delivered(c)
    OBVIOUS
  <1>4. /\ d.got = s \o t /\ d.frame = <<>> /\ d.queue = u
        /\ d.sent = c.sent /\ d.dropped = c.dropped
    BY <1>1, <1>3, DeliveredConn
  <1>5. Flow(d) = ((s \o t) \o <<>>) \o u /\ Flow(c) = (s \o t) \o u
    BY <1>1, <1>4, Zenon DEF Flow
  <1>6. QED
    BY <1>2, <1>3, <1>4, <1>5, SameInOrder

\* The types of the topics, browsers and numbers in the keys.
LEMMA TypesOfParts ==
    /\ \A k \in Conns : TopicOfConn(k) \in Topics /\ k[1] \in Sockets
    /\ \A p \in Publications : TopicOf(p) \in Topics /\ p[2] \in 1..MaxPublications
    /\ \A s \in Sockets : TopicOf(s) \in Topics /\ s[2] \in Browsers
    /\ \A s \in Sockets, n \in 1..MaxConns :
          <<s, n>> \in Conns /\ TopicOfConn(<<s, n>>) = TopicOf(s)
  BY DEF Conns, Sockets, Publications, TopicOf, TopicOfConn

\* The connection of a socket is one of its topic.
LEMMA ConnOfType ==
    ASSUME HubTypeOK, NEW s \in Sockets, HasConn(s)
    PROVE  ConnOf(s) \in Conns /\ TopicOfConn(ConnOf(s)) = TopicOf(s)
  <1>1. sock[s].conn \in 1..MaxConns
    BY DEF HubTypeOK, SockRecs, HasConn
  <1>2. QED
    BY <1>1, TypesOfParts DEF ConnOf

-----------------------------------------------------------------------------
(* The steps of the hub.                                                   *)

\* A connection that a step leaves alone stays accounted for.
LEMMA ConnStays ==
    ASSUME NEW k \in Conns, conn'[k] = conn[k], Accounted(k),
           k \in topics[TopicOfConn(k)] => k \in topics'[TopicOfConn(k)],
           \A p \in Publications : k \in todo'[p] <=> k \in todo[p]
    PROVE  Accounted(k)'
  BY DEF Accounted, Served

\* A step of one connection k, which leaves the rest of the hub alone.
LEMMA OneConnKeeps ==
    ASSUME HubInv, NEW k \in Conns, NEW d \in ConnRecs,
           conn' = [conn EXCEPT ![k] = d], UNCHANGED <<pub, todo, topics>>,
           sock' \in [Sockets -> SockRecs], hubLoad'.conns \in 1..MaxConns,
           k \in topics[TopicOfConn(k)] => d.state \in {"serving", "writing", "ended"},
           d.state \in {"unused", "accepted"} => Fresh(d),
           d.state = "serving" => d.frame = <<>>,
           d.state = "writing" => Len(d.frame) = 1,
           d.since \subseteq conn[k].since,
           d.state \in {"serving", "writing"} =>
              /\ Served(k) /\ InOrder(d)
              /\ d.sent = conn[k].sent /\ d.since = conn[k].since
              /\ d.dropped = conn[k].dropped
    PROVE  HubInv'
  <1> USE DEF HubInv
  <1>1. /\ conn'[k] = d
        /\ \A l \in Conns : l # k => conn'[l] = conn[l]
    BY DEF HubTypeOK
  <1>2. HubTypeOK'
    BY DEF HubTypeOK
  <1>3. PublishInv'
    <2>1. ASSUME NEW t \in Topics, NEW l \in topics[t]
          PROVE  TopicOfConn(l) = t /\ conn'[l].state \in {"serving", "writing", "ended"}
      BY <1>1 DEF PublishInv, HubTypeOK
    <2>2. QED
      BY <2>1 DEF PublishInv
  <1>4. ConnInv'
    <2>1. ASSUME NEW l \in Conns, l # k
          PROVE  /\ conn'[l].state \in {"unused", "accepted"} => Fresh(conn'[l])
                 /\ conn'[l].state = "serving" => conn'[l].frame = <<>>
                 /\ conn'[l].state = "writing" => Len(conn'[l].frame) = 1
                 /\ Served(l)' => /\ ToSet(conn'[l].sent) \subseteq conn'[l].since
                                  /\ conn'[l].dropped \subseteq ToSet(conn'[l].sent)
                 /\ \A p \in conn'[l].since :
                       TopicOf(p) = TopicOfConn(l) /\ pub'[p] \notin {"none", "due"}
      BY <1>1, <2>1 DEF ConnInv, Served
    <2>2. /\ conn'[k].state \in {"unused", "accepted"} => Fresh(conn'[k])
          /\ conn'[k].state = "serving" => conn'[k].frame = <<>>
          /\ conn'[k].state = "writing" => Len(conn'[k].frame) = 1
          /\ Served(k)' => /\ ToSet(conn'[k].sent) \subseteq conn'[k].since
                           /\ conn'[k].dropped \subseteq ToSet(conn'[k].sent)
          /\ \A p \in conn'[k].since :
                TopicOf(p) = TopicOfConn(k) /\ pub'[p] \notin {"none", "due"}
      BY <1>1 DEF ConnInv, Served
    <2>3. QED
      BY <2>1, <2>2 DEF ConnInv
  <1>5. AccountedInv'
    <2>1. ASSUME NEW l \in Conns, l # k
          PROVE  Accounted(l)'
      BY <1>1, <2>1, ConnStays DEF AccountedInv
    <2>2. Accounted(k)'
      BY <1>1 DEF AccountedInv, Accounted, Served
    <2>3. QED
      BY <2>1, <2>2 DEF AccountedInv
  <1>6. QED
    BY <1>2, <1>3, <1>4, <1>5

\* A step that the hub does not see.
LEMMA SockKeeps ==
    ASSUME HubInv, UNCHANGED <<pub, todo, topics, conn>>,
           sock' \in [Sockets -> SockRecs], hubLoad'.conns \in 1..MaxConns
    PROVE  HubInv'
  BY DEF HubInv, HubTypeOK, PublishInv, ConnInv, AccountedInv, Accounted, Served

\* Something to publish happens.
LEMMA HappensKeeps ==
    ASSUME HubInv, NEW p \in Publications, Happens(p)
    PROVE  HubInv'
  <1> USE DEF HubInv
  <1>1. /\ pub[p] = "none" /\ pub' = [pub EXCEPT ![p] = "due"]
        /\ UNCHANGED <<todo, topics, conn, sock, hubLoad>>
    BY DEF Happens
  <1>2. \A k \in Conns : p \notin conn[k].since
    BY <1>1 DEF ConnInv
  <1>3. HubTypeOK'
    BY <1>1 DEF HubTypeOK, PubStates
  <1>4. PublishInv'
    BY <1>1 DEF PublishInv, HubTypeOK
  <1>5. ConnInv'
    BY <1>1, <1>2 DEF ConnInv, HubTypeOK, Served
  <1>6. AccountedInv'
    BY <1>1, ConnStays DEF AccountedInv
  <1>7. QED
    BY <1>3, <1>4, <1>5, <1>6

\* A publication takes the subscribers of its moment.
LEMMA BeginPublishKeeps ==
    ASSUME HubInv, NEW p \in Publications, BeginPublish(p)
    PROVE  HubInv'
  <1> USE DEF HubInv
  <1> DEFINE Hears(k) == Served(k) /\ TopicOfConn(k) = TopicOf(p)
  <1>1. /\ pub[p] = "due" /\ pub' = [pub EXCEPT ![p] = "sending"]
        /\ todo' = [todo EXCEPT ![p] = topics[TopicOf(p)]]
        /\ UNCHANGED <<topics, sock, hubLoad>>
    BY DEF BeginPublish
  <1>2. conn' = [k \in Conns |-> IF Hears(k) THEN Begun(conn[k], p) ELSE conn[k]]
    BY Zenon DEF BeginPublish, Begun
  <1>3. /\ \A k \in Conns : ~Hears(k) => conn'[k] = conn[k]
        /\ \A k \in Conns : Hears(k) =>
              /\ conn'[k] = Begun(conn[k], p)
              /\ conn'[k] \in ConnRecs /\ conn'[k].state = conn[k].state
              /\ conn'[k].queue = conn[k].queue /\ conn'[k].frame = conn[k].frame
              /\ conn'[k].got = conn[k].got /\ conn'[k].sent = conn[k].sent
              /\ conn'[k].dropped = conn[k].dropped
              /\ conn'[k].since = conn[k].since \cup {p}
    <2>1. \A k \in Conns : conn[k] \in ConnRecs
      BY DEF HubTypeOK
    <2> HIDE DEF Hears
    <2>2. QED
      BY <1>2, <2>1, BegunConn
  <1>4. /\ todo[p] = {} /\ \A q \in Publications : q # p => todo'[q] = todo[q]
        /\ todo'[p] = topics[TopicOf(p)]
        /\ pub'[p] = "sending" /\ \A q \in Publications : q # p => pub'[q] = pub[q]
    BY <1>1 DEF HubTypeOK, PublishInv
  <1>5. HubTypeOK'
    <2>1. conn' \in [Conns -> ConnRecs]
      BY <1>2, <1>3 DEF HubTypeOK
    <2>2. QED
      BY <1>1, <2>1, TypesOfParts DEF HubTypeOK, PubStates
  <1>6. \A k \in Conns : conn'[k].state = conn[k].state
    BY <1>3
  <1>7. PublishInv'
    BY <1>1, <1>4, <1>6, TypesOfParts DEF PublishInv, HubTypeOK
  <1>8. ConnInv'
    <2>1. ASSUME NEW k \in Conns
          PROVE  /\ conn'[k].state \in {"unused", "accepted"} => Fresh(conn'[k])
                 /\ conn'[k].state = "serving" => conn'[k].frame = <<>>
                 /\ conn'[k].state = "writing" => Len(conn'[k].frame) = 1
                 /\ Served(k)' => /\ ToSet(conn'[k].sent) \subseteq conn'[k].since
                                  /\ conn'[k].dropped \subseteq ToSet(conn'[k].sent)
                 /\ \A q \in conn'[k].since :
                       TopicOf(q) = TopicOfConn(k) /\ pub'[q] \notin {"none", "due"}
      <3>1. \A q \in conn[k].since :
               /\ q \in Publications
               /\ TopicOf(q) = TopicOfConn(k) /\ pub'[q] \notin {"none", "due"}
        BY <1>4 DEF ConnInv, HubTypeOK, ConnRecs
      <3>2. CASE Hears(k)
        BY <1>3, <1>4, <3>1, <3>2 DEF ConnInv, Served
      <3>3. CASE ~Hears(k)
        BY <1>3, <3>1, <3>3 DEF ConnInv, Served
      <3>4. QED
        BY <3>2, <3>3
    <2>2. QED
      BY <2>1 DEF ConnInv
  <1>9. AccountedInv'
    <2>1. ASSUME NEW k \in Conns, Hears(k)
          PROVE  Accounted(k)'
      <3>1. /\ k \in topics[TopicOfConn(k)] /\ InOrder(conn[k])
            /\ conn[k].since \ ToSet(conn[k].sent) = {q \in Publications : k \in todo[q]}
        BY <2>1 DEF AccountedInv, Accounted
      <3>2. p \notin ToSet(conn[k].sent)
        BY <1>1, <2>1 DEF ConnInv
      <3>3. InOrder(conn'[k])
        <4>1. Flow(conn'[k]) = Flow(conn[k])
          BY <1>3, <2>1 DEF Flow
        <4>2. QED
          BY <1>3, <2>1, <3>1, <4>1, SameInOrder
      <3>4. conn'[k].since \ ToSet(conn'[k].sent)
                = (conn[k].since \ ToSet(conn[k].sent)) \cup {p}
        BY <1>3, <2>1, <3>2
      <3>5. {q \in Publications : k \in todo'[q]}
                = {q \in Publications : k \in todo[q]} \cup {p}
        BY <1>4, <2>1, <3>1
      <3>6. QED
        BY <1>1, <3>1, <3>3, <3>4, <3>5 DEF Accounted
    <2>2. ASSUME NEW k \in Conns, ~Hears(k)
          PROVE  Accounted(k)'
      <3>1. CASE Served(k)
        <4>1. k \notin topics[TopicOf(p)]
          BY <2>2, <3>1, TypesOfParts DEF PublishInv
        <4>2. QED
          BY <1>1, <1>3, <1>4, <2>2, <4>1, ConnStays DEF AccountedInv
      <3>2. CASE ~Served(k)
        BY <1>3, <2>2, <3>2 DEF Accounted, Served
      <3>3. QED
        BY <3>1, <3>2
    <2>3. QED
      BY <2>1, <2>2 DEF AccountedInv
  <1>10. QED
    BY <1>5, <1>7, <1>8, <1>9

\* It ends when it has gone through them.
LEMMA EndPublishKeeps ==
    ASSUME HubInv, NEW p \in Publications, EndPublish(p)
    PROVE  HubInv'
  <1> USE DEF HubInv
  <1>1. /\ todo[p] = {} /\ pub' = [pub EXCEPT ![p] = "done"]
        /\ UNCHANGED <<todo, topics, conn, sock, hubLoad>>
    BY DEF EndPublish
  <1>2. HubTypeOK'
    BY <1>1 DEF HubTypeOK, PubStates
  <1>3. PublishInv'
    BY <1>1 DEF PublishInv, HubTypeOK
  <1>4. ConnInv'
    BY <1>1 DEF ConnInv, HubTypeOK, Served, ConnRecs
  <1>5. AccountedInv'
    BY <1>1, ConnStays DEF AccountedInv
  <1>6. QED
    BY <1>2, <1>3, <1>4, <1>5

\* What a send does to a connection.
LEMMA SendToConnIs ==
    ASSUME NEW p \in Publications, NEW k \in Conns, SendTo(p, k), conn[k] \in ConnRecs
    PROVE  \E d \in ConnRecs :
              /\ conn' = [conn EXCEPT ![k] = d]
              /\ d.state = conn[k].state /\ d.frame = conn[k].frame
              /\ d.since = conn[k].since
              /\ Served(k) => d = SentTo(conn[k], p) \/ d = DroppedFor(conn[k], p)
  <1> DEFINE c       == conn[k]
             room    == Len(c.queue) < SendBuffer
             queue   == IF room THEN Append(c.queue, p) ELSE c.queue
             sent    == IF Served(k) THEN Append(c.sent, p) ELSE c.sent
             dropped == IF Served(k) /\ ~room THEN c.dropped \cup {p} ELSE c.dropped
  <1>0. conn' = [conn EXCEPT ![k] = Filled(c, queue, sent, dropped)]
    BY Zenon DEF SendTo, Filled
  <1>1. CASE Served(k) /\ room
    <2>1. queue = Append(c.queue, p) /\ sent = Append(c.sent, p) /\ dropped = c.dropped
      BY <1>1, Zenon
    <2> HIDE DEF queue, sent, dropped
    <2>2. conn' = [conn EXCEPT ![k] = SentTo(c, p)]
      BY <1>0, <2>1, Zenon DEF SentTo
    <2>3. QED
      BY <2>2, SentToConn
  <1>2. CASE Served(k) /\ ~room
    <2>1. queue = c.queue /\ sent = Append(c.sent, p) /\ dropped = c.dropped \cup {p}
      BY <1>2, Zenon
    <2> HIDE DEF queue, sent, dropped
    <2>2. conn' = [conn EXCEPT ![k] = DroppedFor(c, p)]
      BY <1>0, <2>1, Zenon DEF DroppedFor
    <2>3. QED
      BY <2>2, DroppedForConn
  <1>3. CASE ~Served(k) /\ room
    <2>1. queue = Append(c.queue, p) /\ sent = c.sent /\ dropped = c.dropped
      BY <1>3, Zenon
    <2> HIDE DEF queue, sent, dropped
    <2>2. conn' = [conn EXCEPT ![k] = LeftWith(c, p)]
      BY <1>0, <2>1, Zenon DEF LeftWith
    <2>3. QED
      BY <1>3, <2>2, LeftWithConn
  <1>4. CASE ~Served(k) /\ ~room
    <2>1. queue = c.queue /\ sent = c.sent /\ dropped = c.dropped
      BY <1>4, Zenon
    <2> HIDE DEF queue, sent, dropped
    <2>2. /\ c.queue \in Seq(Publications) /\ c.sent \in Seq(Publications)
          /\ c.dropped \in SUBSET Publications
      BY DEF ConnRecs
    <2>3. PICK d \in ConnRecs : d = Filled(c, queue, sent, dropped)
      BY <2>1, <2>2, FilledConn
    <2>4. d.state = c.state /\ d.frame = c.frame /\ d.since = c.since
      BY <2>1, <2>2, <2>3, FilledConn
    <2>5. QED
      BY <1>0, <1>4, <2>3, <2>4
  <1>5. QED
    BY <1>1, <1>2, <1>3, <1>4

\* It offers its frame to one of them: in its queue, dropped, or left with a
\* connection that is no longer served.
LEMMA SendToKeeps ==
    ASSUME HubInv, NEW p \in Publications, NEW k \in Conns, SendTo(p, k)
    PROVE  HubInv'
  <1> USE DEF HubInv
  <1> DEFINE c == conn[k]
  <1>1. /\ pub[p] = "sending" /\ k \in todo[p]
        /\ todo' = [todo EXCEPT ![p] = @ \ {k}]
        /\ UNCHANGED <<pub, topics, sock, hubLoad>>
    BY DEF SendTo
  <1>2. /\ c \in ConnRecs /\ k \in topics[TopicOf(p)] /\ TopicOfConn(k) = TopicOf(p)
        /\ c.state \in {"serving", "writing", "ended"}
    BY <1>1, TypesOfParts DEF HubTypeOK, PublishInv
  <1>3. PICK d \in ConnRecs :
            /\ conn' = [conn EXCEPT ![k] = d]
            /\ d.state = c.state /\ d.frame = c.frame /\ d.since = c.since
            /\ Served(k) => d = SentTo(c, p) \/ d = DroppedFor(c, p)
    BY <1>2, SendToConnIs
  <1>4. /\ conn'[k] = d
        /\ \A l \in Conns : l # k => conn'[l] = conn[l]
    BY <1>3 DEF HubTypeOK
  <1>5. \A q \in Publications :
           /\ todo'[q] \subseteq todo[q]
           /\ \A l \in Conns : l # k => (l \in todo'[q] <=> l \in todo[q])
           /\ k \in todo'[q] <=> k \in todo[q] /\ q # p
    BY <1>1 DEF HubTypeOK
  <1>6. HubTypeOK'
    BY <1>1, <1>3 DEF HubTypeOK
  <1>7. PublishInv'
    <2>1. \A l \in Conns : conn'[l].state = conn[l].state
      BY <1>3, <1>4
    <2>2. \A t \in Topics : topics[t] \subseteq Conns
      BY DEF HubTypeOK
    <2>3. QED
      BY <1>1, <1>5, <2>1, <2>2, TypesOfParts DEF PublishInv
  <1>8. Served(k) =>
            /\ IsInjective(c.sent) /\ p \notin ToSet(c.sent) /\ p \in c.since
            /\ c.since \ ToSet(c.sent) = {q \in Publications : k \in todo[q]}
            /\ InOrder(c) /\ c.dropped \subseteq ToSet(c.sent)
            /\ ToSet(c.sent) \subseteq c.since
    BY <1>1 DEF AccountedInv, Accounted, InOrder, ConnInv
  <1>9. Served(k) =>
            /\ InOrder(d) /\ ToSet(d.sent) = ToSet(c.sent) \cup {p}
            /\ d.dropped \subseteq ToSet(d.sent)
    <2>1. PICK q \in Seq(Publications) : q = c.sent
      BY <1>2 DEF ConnRecs
    <2>2. ToSet(Append(q, p)) = ToSet(q) \cup {p}
      BY AppendSet
    <2>3. ASSUME Served(k), d = SentTo(c, p)
          PROVE  /\ InOrder(d) /\ ToSet(d.sent) = ToSet(c.sent) \cup {p}
                 /\ d.dropped \subseteq ToSet(d.sent)
      <3>1. d.sent = Append(q, p) /\ d.dropped = c.dropped
        BY <1>2, <2>1, <2>3, SentToConn
      <3>2. InOrder(d)
        BY <1>2, <1>8, <2>3, SentInOrder
      <3>3. QED
        BY <1>8, <2>1, <2>2, <2>3, <3>1, <3>2
    <2>4. ASSUME Served(k), d = DroppedFor(c, p)
          PROVE  /\ InOrder(d) /\ ToSet(d.sent) = ToSet(c.sent) \cup {p}
                 /\ d.dropped \subseteq ToSet(d.sent)
      <3>1. d.sent = Append(q, p) /\ d.dropped = c.dropped \cup {p}
        BY <1>2, <2>1, <2>4, DroppedForConn
      <3>2. InOrder(d)
        BY <1>2, <1>8, <2>4, DroppedInOrder
      <3>3. QED
        BY <1>8, <2>1, <2>2, <2>4, <3>1, <3>2
    <2>5. QED
      BY <1>3, <2>3, <2>4
  <1>10. ConnInv'
    <2>1. ASSUME NEW l \in Conns
          PROVE  /\ conn'[l].state \in {"unused", "accepted"} => Fresh(conn'[l])
                 /\ conn'[l].state = "serving" => conn'[l].frame = <<>>
                 /\ conn'[l].state = "writing" => Len(conn'[l].frame) = 1
                 /\ Served(l)' => /\ ToSet(conn'[l].sent) \subseteq conn'[l].since
                                  /\ conn'[l].dropped \subseteq ToSet(conn'[l].sent)
                 /\ \A q \in conn'[l].since :
                       TopicOf(q) = TopicOfConn(l) /\ pub'[q] \notin {"none", "due"}
      <3>1. CASE l = k
        BY <1>1, <1>2, <1>3, <1>4, <1>8, <1>9, <3>1 DEF ConnInv, Served
      <3>2. CASE l # k
        BY <1>1, <1>4, <3>2 DEF ConnInv, Served
      <3>3. QED
        BY <3>1, <3>2
    <2>2. QED
      BY <2>1 DEF ConnInv
  <1>11. AccountedInv'
    <2>1. ASSUME NEW l \in Conns, l # k
          PROVE  Accounted(l)'
      BY <1>1, <1>4, <1>5, <2>1, ConnStays DEF AccountedInv
    <2>2. Accounted(k)'
      <3>1. Served(k)' => Served(k)
        BY <1>3, <1>4 DEF Served
      <3>2. ASSUME Served(k)
            PROVE  d.since \ ToSet(d.sent) = {q \in Publications : k \in todo'[q]}
        <4>1. d.since \ ToSet(d.sent) = (c.since \ ToSet(c.sent)) \ {p}
          BY <1>3, <1>9, <3>2
        <4>2. {q \in Publications : k \in todo'[q]}
                  = {q \in Publications : k \in todo[q]} \ {p}
          BY <1>5
        <4>3. QED
          BY <1>8, <3>2, <4>1, <4>2
      <3>3. QED
        BY <1>1, <1>2, <1>4, <1>9, <3>1, <3>2 DEF Accounted
    <2>3. QED
      BY <2>1, <2>2 DEF AccountedInv
  <1>12. QED
    BY <1>6, <1>7, <1>10, <1>11

\* The hub's lock keeps the two ends of a connection apart from a Publish.
LEMMA NobodyIsVisited ==
    ASSUME HubInv, NobodySends
    PROVE  \A p \in Publications : todo[p] = {}
  BY DEF HubInv, PublishInv, NobodySends

\* A connection joins its topic.
LEMMA SubscribeKeeps ==
    ASSUME HubInv, NEW k \in Conns, Subscribe(k)
    PROVE  HubInv'
  <1> USE DEF HubInv
  <1> DEFINE t == TopicOfConn(k)
  <1>1. /\ conn[k].state = "accepted" /\ topics' = [topics EXCEPT ![t] = @ \cup {k}]
        /\ UNCHANGED <<pub, todo, sock, hubLoad>>
    BY DEF Subscribe, Joined
  <1>2. PICK d \in ConnRecs : /\ conn' = [conn EXCEPT ![k] = d]
                              /\ d.state = "serving" /\ SameButState(conn[k], d)
    <2>1. conn[k] \in ConnRecs /\ "serving" \in ConnStates
      BY DEF HubTypeOK, ConnStates
    <2>2. conn' = [conn EXCEPT ![k] = InState(conn[k], "serving")]
      BY Zenon DEF Subscribe, InState
    <2>3. QED
      BY <2>1, <2>2, InStateConn
  <1>3. /\ conn'[k] = d
        /\ \A l \in Conns : l # k => conn'[l] = conn[l]
    BY <1>2 DEF HubTypeOK
  <1>4. /\ t \in Topics /\ topics'[t] = topics[t] \cup {k}
        /\ \A u \in Topics : u # t => topics'[u] = topics[u]
        /\ \A u \in Topics : topics[u] \subseteq Conns /\ topics[u] \subseteq topics'[u]
    BY <1>1, TypesOfParts DEF HubTypeOK
  <1>5. Fresh(d) /\ d.since = {}
    BY <1>1, <1>2 DEF ConnInv, SameButState, Fresh
  <1>6. HubTypeOK'
    BY <1>1, <1>2, <1>4 DEF HubTypeOK
  <1>7. PublishInv'
    <2>1. ASSUME NEW u \in Topics, NEW l \in topics'[u]
          PROVE  TopicOfConn(l) = u /\ conn'[l].state \in {"serving", "writing", "ended"}
      BY <1>2, <1>3, <1>4, <2>1 DEF PublishInv
    <2>2. \A p \in Publications : todo[p] = {}
      BY NobodyIsVisited DEF Subscribe
    <2>3. QED
      BY <1>1, <2>1, <2>2 DEF PublishInv
  <1>8. ConnInv'
    <2>1. ASSUME NEW l \in Conns
          PROVE  /\ conn'[l].state \in {"unused", "accepted"} => Fresh(conn'[l])
                 /\ conn'[l].state = "serving" => conn'[l].frame = <<>>
                 /\ conn'[l].state = "writing" => Len(conn'[l].frame) = 1
                 /\ Served(l)' => /\ ToSet(conn'[l].sent) \subseteq conn'[l].since
                                  /\ conn'[l].dropped \subseteq ToSet(conn'[l].sent)
                 /\ \A p \in conn'[l].since :
                       TopicOf(p) = TopicOfConn(l) /\ pub'[p] \notin {"none", "due"}
      <3>1. CASE l = k
        BY <1>2, <1>3, <1>5, <3>1 DEF Served, Fresh, ToSet
      <3>2. CASE l # k
        BY <1>1, <1>3, <3>2 DEF ConnInv, Served
      <3>3. QED
        BY <3>1, <3>2
    <2>2. QED
      BY <2>1 DEF ConnInv
  <1>9. AccountedInv'
    <2>1. ASSUME NEW l \in Conns, l # k
          PROVE  Accounted(l)'
      BY <1>1, <1>3, <1>4, <2>1, TypesOfParts, ConnStays DEF AccountedInv
    <2>2. Accounted(k)'
      <3>1. {p \in Publications : k \in todo[p]} = {}
        BY NobodyIsVisited DEF Subscribe
      <3>2. QED
        BY <1>1, <1>3, <1>4, <1>5, <3>1, FreshInOrder DEF Accounted
    <2>3. QED
      BY <2>1, <2>2 DEF AccountedInv
  <1>10. QED
    BY <1>6, <1>7, <1>8, <1>9

\* It leaves the topic, and is no longer served.
LEMMA UnsubscribeKeeps ==
    ASSUME HubInv, NEW k \in Conns, Unsubscribe(k)
    PROVE  HubInv'
  <1> USE DEF HubInv
  <1> DEFINE t == TopicOfConn(k)
  <1>1. /\ topics' = [topics EXCEPT ![t] = @ \ {k}]
        /\ conn' = [conn EXCEPT ![k] = Gone]
        /\ UNCHANGED <<pub, todo, sock, hubLoad>>
    BY DEF Unsubscribe, Left
  <1>2. /\ conn'[k] = Gone
        /\ \A l \in Conns : l # k => conn'[l] = conn[l]
    BY <1>1 DEF HubTypeOK
  <1>3. /\ t \in Topics /\ topics'[t] = topics[t] \ {k}
        /\ \A u \in Topics : u # t => topics'[u] = topics[u]
        /\ \A u \in Topics : topics[u] \subseteq Conns
    BY <1>1, TypesOfParts DEF HubTypeOK
  <1>4. HubTypeOK'
    BY <1>1, <1>3, NewConns DEF HubTypeOK
  <1>5. PublishInv'
    <2>1. ASSUME NEW u \in Topics, NEW l \in topics'[u]
          PROVE  TopicOfConn(l) = u /\ conn'[l].state \in {"serving", "writing", "ended"}
      <3>1. l \in topics[u] /\ l # k
        BY <1>3 DEF PublishInv
      <3>2. QED
        BY <1>2, <1>3, <3>1 DEF PublishInv
    <2>2. \A p \in Publications : todo[p] = {}
      BY NobodyIsVisited DEF Unsubscribe
    <2>3. QED
      BY <1>1, <2>1, <2>2 DEF PublishInv
  <1>6. ConnInv'
    <2>1. ASSUME NEW l \in Conns
          PROVE  /\ conn'[l].state \in {"unused", "accepted"} => Fresh(conn'[l])
                 /\ conn'[l].state = "serving" => conn'[l].frame = <<>>
                 /\ conn'[l].state = "writing" => Len(conn'[l].frame) = 1
                 /\ Served(l)' => /\ ToSet(conn'[l].sent) \subseteq conn'[l].since
                                  /\ conn'[l].dropped \subseteq ToSet(conn'[l].sent)
                 /\ \A p \in conn'[l].since :
                       TopicOf(p) = TopicOfConn(l) /\ pub'[p] \notin {"none", "due"}
      <3>1. CASE l = k
        BY <1>2, <3>1, NewConns DEF Served
      <3>2. CASE l # k
        BY <1>1, <1>2, <3>2 DEF ConnInv, Served
      <3>3. QED
        BY <3>1, <3>2
    <2>2. QED
      BY <2>1 DEF ConnInv
  <1>7. AccountedInv'
    <2>1. ASSUME NEW l \in Conns, l # k
          PROVE  Accounted(l)'
      <3>1. l \in topics[TopicOfConn(l)] => l \in topics'[TopicOfConn(l)]
        BY <1>3, <2>1, TypesOfParts
      <3>2. QED
        BY <1>1, <1>2, <2>1, <3>1, ConnStays DEF AccountedInv
    <2>2. Accounted(k)'
      BY <1>2, NewConns DEF Accounted, Served
    <2>3. QED
      BY <2>1, <2>2 DEF AccountedInv
  <1>8. QED
    BY <1>4, <1>5, <1>6, <1>7

\* Its handler takes a frame.
LEMMA TakeFrameKeeps ==
    ASSUME HubInv, NEW k \in Conns, TakeFrame(k)
    PROVE  HubInv'
  <1> USE DEF HubInv
  <1>1. /\ conn[k].state = "serving" /\ conn[k].queue # <<>>
        /\ UNCHANGED <<pub, todo, topics, sock, hubLoad>>
    BY DEF TakeFrame
  <1>2. conn[k] \in ConnRecs /\ conn[k].frame = <<>> /\ InOrder(conn[k]) /\ Served(k)
    BY <1>1 DEF HubTypeOK, ConnInv, AccountedInv, Accounted, Served
  <1>3. conn' = [conn EXCEPT ![k] = Taken(conn[k])]
    BY Zenon DEF TakeFrame, Taken
  <1>4. PICK d : d = Taken(conn[k])
    OBVIOUS
  <1>5. /\ d \in ConnRecs /\ d.state = "writing"
        /\ d.frame = <<Head(conn[k].queue)>>
        /\ d.sent = conn[k].sent /\ d.dropped = conn[k].dropped
        /\ d.since = conn[k].since
    BY <1>1, <1>2, <1>4, TakenConn
  <1>6. InOrder(d)
    BY <1>1, <1>2, <1>4, TakenInOrder
  <1>7. Len(d.frame) = 1
    BY <1>5
  <1>8. sock' \in [Sockets -> SockRecs] /\ hubLoad'.conns \in 1..MaxConns
    BY <1>1 DEF HubTypeOK
  <1>9. QED
    BY <1>1, <1>2, <1>3, <1>4, <1>5, <1>6, <1>7, <1>8, OneConnKeeps

\* The browser gets it.
LEMMA DeliverKeeps ==
    ASSUME HubInv, NEW s \in Sockets, Deliver(s)
    PROVE  HubInv'
  <1> USE DEF HubInv
  <1> DEFINE k == ConnOf(s)
  <1>1. k \in Conns
    BY ConnOfType DEF Deliver
  <1>2. /\ conn[k].state = "writing" /\ UNCHANGED <<pub, todo, topics, sock, hubLoad>>
        /\ conn' = [conn EXCEPT ![k] = Delivered(conn[k])]
    BY Zenon DEF Deliver, Delivered
  <1> HIDE DEF k
  <1>3. conn[k] \in ConnRecs /\ InOrder(conn[k]) /\ Served(k)
    BY <1>1, <1>2 DEF HubTypeOK, AccountedInv, Accounted, Served
  <1>4. PICK d : d = Delivered(conn[k])
    OBVIOUS
  <1>5. /\ d \in ConnRecs /\ d.state = "serving" /\ d.frame = <<>>
        /\ d.sent = conn[k].sent /\ d.dropped = conn[k].dropped
        /\ d.since = conn[k].since
    BY <1>3, <1>4, DeliveredConn
  <1>6. InOrder(d)
    BY <1>3, <1>4, DeliveredInOrder
  <1>7. sock' \in [Sockets -> SockRecs] /\ hubLoad'.conns \in 1..MaxConns
    BY <1>2 DEF HubTypeOK
  <1>8. QED
    BY <1>1, <1>2, <1>3, <1>4, <1>5, <1>6, <1>7, OneConnKeeps

\* The goroutine of a connection leaves its loop.
LEMMA EndKeeps ==
    ASSUME HubInv, NEW k \in Conns, Served(k), conn' = [conn EXCEPT ![k] = Ended(@)],
           UNCHANGED <<pub, todo, topics, sock, hubLoad>>
    PROVE  HubInv'
  <1> USE DEF HubInv
  <1>1. conn[k] \in ConnRecs
    BY DEF HubTypeOK
  <1>2. PICK d : d = Ended(conn[k])
    OBVIOUS
  <1>3. d \in ConnRecs /\ d.state = "ended" /\ d.since = {}
    BY <1>1, <1>2, EndedConn
  <1>4. sock' \in [Sockets -> SockRecs] /\ hubLoad'.conns \in 1..MaxConns
    BY DEF HubTypeOK
  <1>5. QED
    BY <1>2, <1>3, <1>4, OneConnKeeps

\* The network gives way, or the browser closes its socket.
LEMMA BreakKeeps ==
    ASSUME HubInv, NEW k \in Conns, conn' = [conn EXCEPT ![k] = Broken(@)],
           UNCHANGED <<pub, todo, topics>>,
           sock' \in [Sockets -> SockRecs], hubLoad'.conns \in 1..MaxConns
    PROVE  HubInv'
  <1> USE DEF HubInv
  <1>1. conn[k] \in ConnRecs
    BY DEF HubTypeOK
  <1>2. PICK d : d = Broken(conn[k])
    OBVIOUS
  <1>3. d \in ConnRecs /\ d.state = conn[k].state /\ SameButState(conn[k], d)
    BY <1>1, <1>2, BrokenConn
  <1>4. k \in topics[TopicOfConn(k)] => d.state \in {"serving", "writing", "ended"}
    BY <1>3, TypesOfParts DEF PublishInv
  <1>5. /\ d.state \in {"unused", "accepted"} => Fresh(d)
        /\ d.state = "serving" => d.frame = <<>>
        /\ d.state = "writing" => Len(d.frame) = 1
    BY <1>3 DEF ConnInv, SameButState, Fresh
  <1>6. Served(k) => InOrder(d)
    <2>1. Flow(d) = Flow(conn[k])
      BY <1>3 DEF Flow, SameButState
    <2>2. QED
      BY <1>3, <2>1, SameInOrder DEF SameButState, AccountedInv, Accounted
  <1>7. QED
    BY <1>2, <1>3, <1>4, <1>5, <1>6, OneConnKeeps DEF SameButState, Served

\* The steps of a handler, and of the network under it.
LEMMA HandlerKeeps ==
    ASSUME HubInv, NEW k \in Conns, Handler(k) \/ WriteFails(k) \/ Break(k)
    PROVE  HubInv'
  <1>1. CASE SeeBreak(k) \/ WriteFails(k)
    BY <1>1, EndKeeps DEF SeeBreak, WriteFails, Served
  <1>2. CASE Break(k)
    <2>1. /\ conn' = [conn EXCEPT ![k] = Broken(@)]
          /\ UNCHANGED <<pub, todo, topics, sock>>
          /\ hubLoad' = [hubLoad EXCEPT !.breaks = @ - 1]
      BY <1>2, Zenon DEF Break, Broken
    <2>2. hubLoad'.conns \in 1..MaxConns /\ sock' \in [Sockets -> SockRecs]
      BY <2>1 DEF HubInv, HubTypeOK
    <2>3. QED
      BY <2>1, <2>2, BreakKeeps
  <1>3. QED
    BY <1>1, <1>2, SubscribeKeeps, TakeFrameKeeps, UnsubscribeKeeps DEF Handler

\* A browser opens a new connection.
LEMMA DialKeeps ==
    ASSUME HubInv, NEW s \in Sockets, Dial(s)
    PROVE  HubInv'
  <1> USE DEF HubInv
  <1>1. PICK n \in 1..hubLoad.conns :
            /\ conn[<<s, n>>].state = "unused"
            /\ conn' = [conn EXCEPT ![<<s, n>>].state = "accepted"]
            /\ sock' = [sock EXCEPT ![s].conn = n]
    BY DEF Dial
  <1>2. n \in 1..MaxConns /\ sock' \in [Sockets -> SockRecs]
    <2>1. n \in 1..MaxConns /\ n \in 0..MaxConns
      BY <1>1, HubAssumption DEF HubTypeOK
    <2>2. \A r \in SockRecs : [r EXCEPT !.conn = n] \in SockRecs
      BY <2>1 DEF SockRecs
    <2>3. sock' = [sock EXCEPT ![s] = [@ EXCEPT !.conn = n]]
      BY <1>1, Zenon
    <2>4. QED
      BY <2>1, <2>2, <2>3 DEF HubTypeOK
  <1>3. PICK k \in Conns : k = <<s, n>>
    BY <1>2, TypesOfParts
  <1>4. conn' = [conn EXCEPT ![k] = InState(conn[k], "accepted")]
    BY <1>1, <1>3, Zenon DEF InState
  <1>5. conn[k] \in ConnRecs /\ "accepted" \in ConnStates /\ Fresh(conn[k])
    BY <1>1, <1>3 DEF HubTypeOK, ConnStates, ConnInv
  <1>6. PICK d : d = InState(conn[k], "accepted")
    OBVIOUS
  <1>7. d \in ConnRecs /\ d.state = "accepted" /\ SameButState(conn[k], d)
    BY <1>5, <1>6, InStateConn
  <1>8. Fresh(d) /\ d.since = conn[k].since
    BY <1>5, <1>7 DEF Fresh, SameButState
  <1>9. k \notin topics[TopicOfConn(k)]
    BY <1>1, <1>3, TypesOfParts DEF PublishInv
  <1>10. UNCHANGED <<pub, todo, topics, hubLoad>> /\ hubLoad'.conns \in 1..MaxConns
    BY DEF Dial, HubTypeOK
  <1>11. QED
    BY <1>2, <1>4, <1>6, <1>7, <1>8, <1>9, <1>10, OneConnKeeps

\* A closed socket is a socket.
LEMMA ClosedSock == Closed \in SockRecs
  BY HubAssumption DEF Closed, SockRecs, SockStates

\* The steps of a browser's socket.
LEMMA SocketKeeps ==
    ASSUME HubInv, NEW s \in Sockets, SocketStep(s) \/ Unmount(s)
    PROVE  HubInv'
  <1>1. CASE DialFails(s) \/ Open(s) \/ SeeClose(s) \/ Reconnect(s)
    <2>1. UNCHANGED <<pub, todo, topics, conn, hubLoad>>
      BY <1>1 DEF DialFails, Open, SeeClose, Reconnect
    <2>2. sock' \in [Sockets -> SockRecs]
      BY <1>1
         DEF DialFails, Open, SeeClose, Reconnect, HubInv, HubTypeOK, SockRecs, SockStates
    <2>3. QED
      BY <2>1, <2>2, SockKeeps DEF HubInv, HubTypeOK
  <1>2. CASE Unmount(s)
    <2>1. UNCHANGED <<pub, todo, topics, hubLoad>> /\ hubLoad'.conns \in 1..MaxConns
      BY <1>2 DEF Unmount, HubInv, HubTypeOK
    <2>2. sock' \in [Sockets -> SockRecs]
      BY <1>2, ClosedSock DEF Unmount, HubInv, HubTypeOK
    <2>3. CASE HasConn(s)
      <3>1. conn' = [conn EXCEPT ![ConnOf(s)] = Broken(@)]
        BY <1>2, <2>3, Zenon DEF Unmount, Broken
      <3>2. ConnOf(s) \in Conns
        BY <2>3, ConnOfType DEF HubInv
      <3>3. QED
        BY <2>1, <2>2, <3>1, <3>2, BreakKeeps
    <2>4. CASE ~HasConn(s)
      BY <1>2, <2>1, <2>2, <2>4, SockKeeps DEF Unmount
    <2>5. QED
      BY <2>3, <2>4
  <1>3. QED
    BY <1>1, <1>2, DialKeeps DEF SocketStep

\* The server restarts: no connection survives.
LEMMA RestartKeeps ==
    ASSUME HubInv, Restart
    PROVE  HubInv'
  <1> USE DEF HubInv
  <1>1. /\ pub' = [p \in Publications |->
                     IF pub[p] \in {"due", "sending"} THEN "lost" ELSE pub[p]]
        /\ todo' = [p \in Publications |-> {}]
        /\ topics' = [t \in Topics |-> {}]
        /\ hubLoad'.conns = hubLoad.conns /\ UNCHANGED sock
    BY DEF Restart
  <1>2. conn' = [k \in Conns |-> IF conn[k].state = "unused" THEN conn[k] ELSE Gone]
    BY DEF Restart
  <1>3. \A k \in Conns :
           /\ conn'[k] \in ConnRecs /\ ~Served(k)'
           /\ conn'[k].state \in {"unused", "gone"} /\ conn'[k].since = {}
           /\ conn'[k].state = "unused" => Fresh(conn'[k])
    BY <1>2, NewConns DEF Served, ConnInv, HubTypeOK, Fresh
  <1>4. HubTypeOK'
    BY <1>1, <1>2, <1>3 DEF HubTypeOK, PubStates
  <1>5. PublishInv'
    BY <1>1, TypesOfParts DEF PublishInv
  <1>6. ConnInv'
    BY <1>3 DEF ConnInv, Served
  <1>7. AccountedInv'
    BY <1>3 DEF AccountedInv, Accounted
  <1>8. QED
    BY <1>4, <1>5, <1>6, <1>7

\* The invariant holds initially.
LEMMA HubBegins ==
    ASSUME HubInit
    PROVE  HubInv
  <1>1. \A k \in Conns : conn[k] = NoConn
    BY DEF HubInit
  <1>2. HubTypeOK
    <2>1. hubLoad.conns \in 1..MaxConns
      BY HubAssumption DEF HubInit
    <2>2. sock \in [Sockets -> SockRecs]
      <3>1. [Closed EXCEPT !.mounted = TRUE, !.status = "connecting"] \in SockRecs
        BY ClosedSock DEF SockRecs, SockStates
      <3>2. QED
        BY <3>1, ClosedSock, Zenon DEF HubInit
    <2>3. QED
      BY <2>1, <2>2, NewConns, TypesOfParts DEF HubInit, HubTypeOK, PubStates
  <1>3. PublishInv
    BY TypesOfParts DEF HubInit, PublishInv
  <1>4. ConnInv
    BY <1>1, NewConns DEF ConnInv, Served, Fresh
  <1>5. AccountedInv
    BY <1>1, NewConns DEF AccountedInv, Accounted, Served
  <1>6. QED
    BY <1>2, <1>3, <1>4, <1>5 DEF HubInv

\* Every step of the hub keeps it.
LEMMA HubStepKeeps ==
    ASSUME HubInv, HubStep
    PROVE  HubInv'
  <1>1. ASSUME NEW p \in Publications, Publish(p)
        PROVE  HubInv'
    BY <1>1, BeginPublishKeeps, SendToKeeps, EndPublishKeeps DEF Publish
  <1>2. QED
    BY <1>1, HandlerKeeps, SocketKeeps, RestartKeeps DEF HubStep

\* What the feeds add to the steps of the hub, it does not see.
LEMMA FeedNextKeepsHub ==
    ASSUME HubInv, [FeedNext]_allVars
    PROVE  HubInv'
  <1>1. ASSUME UNCHANGED hubVars
        PROVE  HubInv'
    <2>1. sock' \in [Sockets -> SockRecs] /\ hubLoad'.conns \in 1..MaxConns
      BY <1>1 DEF hubVars, HubInv, HubTypeOK
    <2>2. QED
      BY <1>1, <2>1, SockKeeps DEF hubVars
  <1>2. ASSUME NEW p \in Publications,
               TradeHappens(p) \/ GenerateNews(p) \/ RefreshOnce(p)
        PROVE  HubInv'
    BY <1>2, HappensKeeps DEF TradeHappens, GenerateNews, RefreshOnce
  <1>3. ASSUME NEW s \in Sockets, OnMessage(s)
        PROVE  HubInv'
    BY <1>3, DeliverKeeps DEF OnMessage
  <1>4. ASSUME NEW b \in Browsers, OpenPage(b) \/ ClosePage(b) \/ RunEffect(b)
        PROVE  HubInv'
    BY <1>1, <1>4 DEF OpenPage, ClosePage, RunEffect
  <1>5. ASSUME NEW b \in Browsers, NEW t \in Feeds,
               Ask(t, b) \/ Answer(t, b) \/ Finish(t, b) \/ FetchFails(t, b)
        PROVE  HubInv'
    BY <1>1, <1>5 DEF Ask, Answer, Finish, FetchFails
  <1>6. CASE UNCHANGED allVars
    BY <1>1, <1>6 DEF allVars
  <1>7. QED
    BY <1>2, <1>3, <1>4, <1>5, <1>6, HubStepKeeps DEF FeedNext

\* The feeds only add to the hub's steps.
LEMMA FeedHub == FeedSpec => []HubInv
  <1>1. FeedInit => HubInv
    BY HubBegins DEF FeedInit
  <1>2. HubInv /\ [FeedNext]_allVars => HubInv'
    BY FeedNextKeepsHub
  <1>3. QED
    BY <1>1, <1>2, PTL DEF FeedSpec

\* However publications, connections and breaks interleave, and for any size of
\* the buffer: a connection that is served is subscribed to its topic, everything
\* published while it is served is sent to it, once, and what its browser gets
\* is what was sent, in that order, but for what a full buffer dropped (Publish,
\* add, remove and ServeWS).
THEOREM FramesAreAccounted == FeedSpec => []EveryFrameAccounted
  <1>1. HubInv => EveryFrameAccounted
    BY DEF HubInv, AccountedInv, Accounted, InOrder, EveryFrameAccounted
  <1>2. QED
    BY <1>1, FeedHub, PTL

-----------------------------------------------------------------------------
(* The rows of the news and their publications.                            *)

\* A news item is known by its number.
LEMMA NewsRows ==
    /\ \A n \in 1..MaxPublications :
          NewsRow(n) \in Publications /\ TopicOf(NewsRow(n)) = News /\ NewsRow(n)[2] = n
    /\ \A p \in Publications :
          TopicOf(p) = News => p[2] \in 1..MaxPublications /\ p = NewsRow(p[2])
  BY FeedsAssumption DEF NewsRow, Publications, TopicOf

\* What has been published, or is about to be, has a row; what is on its way
\* from the job is the last of them.
LEMMA RowsOfNews ==
    ASSUME RowsInv, HubTypeOK
    PROVE  /\ Len(rows) \in 0..MaxPublications /\ DOMAIN rows = 1..Len(rows)
           /\ \A n \in 1..Len(rows) : rows[n] = NewsRow(n) /\ n \in 1..MaxPublications
           /\ ToSet(rows) = {NewsRow(n) : n \in 1..Len(rows)}
           /\ \A p \in Publications :
                 /\ TopicOf(p) = News /\ pub[p] # "none" =>
                       p \in ToSet(rows) /\ p[2] \in 1..Len(rows) /\ rows[p[2]] = p
                 /\ TopicOf(p) = News /\ pub[p] \in {"due", "sending"} => p[2] = Len(rows)
  <1>1. Len(rows) \in Nat /\ DOMAIN rows = 1..Len(rows) /\ rows \in Seq(Publications)
    BY DEF RowsInv
  <1>2. \A n \in 1..Len(rows) : rows[n] = NewsRow(n) /\ rows[n] \in Publications
    BY <1>1 DEF RowsInv
  <1>3. \A n \in 1..Len(rows) : n \in 1..MaxPublications
    BY <1>2 DEF NewsRow, Publications
  <1>4. Len(rows) \in 0..MaxPublications
    <2>1. CASE Len(rows) = 0
      BY <2>1, HubAssumption
    <2>2. CASE Len(rows) # 0
      BY <1>1, <1>3, <2>2, HubAssumption
    <2>3. QED
      BY <2>1, <2>2
  <1>5. ToSet(rows) = {NewsRow(n) : n \in 1..Len(rows)}
    BY <1>1, <1>2 DEF ToSet
  <1>6. ASSUME NEW p \in Publications, TopicOf(p) = News, pub[p] # "none"
        PROVE  p \in ToSet(rows) /\ p[2] \in 1..Len(rows) /\ rows[p[2]] = p
    <2>1. PICK n \in 1..MaxPublications : p = NewsRow(n) /\ n = p[2]
      BY <1>6, NewsRows
    <2>2. n \in 1..Len(rows)
      BY <1>1, <1>6, <2>1 DEF RowsInv
    <2>3. QED
      BY <1>2, <1>5, <2>1, <2>2
  <1>7. ASSUME NEW p \in Publications, TopicOf(p) = News, pub[p] \in {"due", "sending"}
        PROVE  p[2] = Len(rows)
    <2>1. PICK n \in 1..MaxPublications : p = NewsRow(n) /\ n = p[2]
      BY <1>7, NewsRows
    <2>2. n <= Len(rows) /\ ~(n < Len(rows))
      BY <1>7, <2>1 DEF RowsInv
    <2>3. QED
      BY <1>1, <2>1, <2>2
  <1>8. QED
    BY <1>1, <1>2, <1>3, <1>4, <1>5, <1>6, <1>7

\* A step under which no news item happens and none is begun anew keeps the rows.
LEMMA PubKeepsRows ==
    ASSUME RowsInv, UNCHANGED rows,
           \A p \in Publications :
              TopicOf(p) = News =>
                 /\ pub'[p] = "none" <=> pub[p] = "none"
                 /\ pub[p] \in {"done", "lost"} => pub'[p] \in {"done", "lost"}
    PROVE  RowsInv'
  BY NewsRows DEF RowsInv, NewsRow

\* The rows are the news items in the order of their numbers, and at most the last
\* is being published.
LEMMA RowsAreKept ==
    ASSUME HubInv, RowsInv, [FeedNext]_allVars
    PROVE  RowsInv'
  <1> USE DEF HubInv
  <1>1. ASSUME UNCHANGED <<pub, rows>>
        PROVE  RowsInv'
    BY <1>1, PubKeepsRows
  <1>2. ASSUME NEW p \in Publications, TopicOf(p) # News, Happens(p), UNCHANGED rows
        PROVE  RowsInv'
    <2>1. \A q \in Publications : q # p => pub'[q] = pub[q]
      BY <1>2 DEF Happens, HubTypeOK
    <2>2. QED
      BY <1>2, <2>1, PubKeepsRows
  <1>3. ASSUME NEW p \in Publications, GenerateNews(p)
        PROVE  RowsInv'
    <2>1. /\ TopicOf(p) = News /\ pub[p] = "none" /\ pub' = [pub EXCEPT ![p] = "due"]
          /\ \A n \in 1..(p[2] - 1) : pub[<<p[1], n>>] # "none"
          /\ JobIsFree(p) /\ rows' = Append(rows, p)
      BY <1>3 DEF GenerateNews, Happens
    <2>2. /\ p[2] \in 1..MaxPublications /\ p = NewsRow(p[2]) /\ p[1] = News
          /\ Len(rows) \in 0..MaxPublications
      BY <2>1, NewsRows, RowsOfNews DEF TopicOf
    <2>3. p[2] = Len(rows) + 1
      <3>1. ~(p[2] <= Len(rows))
        BY <2>1, <2>2 DEF RowsInv
      <3>2. ~(p[2] > Len(rows) + 1)
        <4>1. SUFFICES ASSUME p[2] > Len(rows) + 1
                       PROVE  FALSE
          OBVIOUS
        <4>2. PICK n : n = Len(rows) + 1
          OBVIOUS
        <4>5. n \in 1..MaxPublications /\ n \in 1..(p[2] - 1)
          BY <2>2, <4>1, <4>2, HubAssumption
        <4>3. pub[NewsRow(n)] # "none"
          BY <2>1, <2>2, <4>5 DEF NewsRow
        <4>4. QED
          BY <2>2, <4>2, <4>3, <4>5 DEF RowsInv
      <3>3. QED
        BY <2>2, <3>1, <3>2
    <2>4. /\ pub'[p] = "due"
          /\ \A q \in Publications : q # p => pub'[q] = pub[q]
      BY <2>1 DEF HubTypeOK
    <2>5. /\ rows' \in Seq(Publications) /\ Len(rows') = Len(rows) + 1
          /\ DOMAIN rows' = DOMAIN rows \cup {Len(rows) + 1}
          /\ \A n \in DOMAIN rows : rows'[n] = rows[n]
          /\ rows'[Len(rows) + 1] = p
      BY <2>1 DEF RowsInv
    <2>6. \A n \in DOMAIN rows' : rows'[n] = NewsRow(n)
      BY <2>2, <2>3, <2>5 DEF RowsInv
    <2>7. ASSUME NEW n \in 1..MaxPublications
          PROVE  /\ pub'[NewsRow(n)] # "none" <=> n <= Len(rows')
                 /\ n < Len(rows') => pub'[NewsRow(n)] \in {"done", "lost"}
      <3>1. CASE n = p[2]
        BY <2>2, <2>3, <2>4, <2>5, <3>1
      <3>2. CASE n # p[2]
        <4>1. NewsRow(n) # p /\ NewsRow(n) \in Publications
          BY <2>2, <3>2, NewsRows
        <4>2. pub'[NewsRow(n)] = pub[NewsRow(n)]
          BY <2>4, <4>1
        <4>3. n <= Len(rows') <=> n <= Len(rows)
          BY <2>2, <2>3, <2>5, <3>2
        <4>4. n < Len(rows') => n \in 1..(p[2] - 1)
          BY <2>2, <2>3, <2>5
        <4>5. n \in 1..(p[2] - 1) => pub[NewsRow(n)] \in {"done", "lost"}
          BY <2>1, <2>2 DEF JobIsFree, NewsRow
        <4>6. QED
          BY <4>2, <4>3, <4>4, <4>5 DEF RowsInv
      <3>3. QED
        BY <3>1, <3>2
    <2>8. QED
      BY <2>5, <2>6, <2>7 DEF RowsInv
  <1>4. ASSUME NEW p \in Publications, Publish(p), UNCHANGED rows
        PROVE  RowsInv'
    <2>1. CASE \E k \in Conns : SendTo(p, k)
      BY <1>1, <1>4, <2>1 DEF SendTo
    <2>2. CASE BeginPublish(p) \/ EndPublish(p)
      <3>1. /\ pub[p] \in {"due", "sending"} /\ pub'[p] \in {"sending", "done"}
            /\ \A q \in Publications : q # p => pub'[q] = pub[q]
        BY <2>2 DEF BeginPublish, EndPublish, HubTypeOK
      <3>2. QED
        BY <1>4, <3>1, PubKeepsRows
    <2>3. QED
      BY <1>4, <2>1, <2>2 DEF Publish
  <1>5. CASE Restart /\ UNCHANGED rows
    <2>1. \A p \in Publications :
             pub'[p] = IF pub[p] \in {"due", "sending"} THEN "lost" ELSE pub[p]
      BY <1>5 DEF Restart
    <2>2. QED
      BY <1>5, <2>1, PubKeepsRows
  <1>6. ASSUME NEW k \in Conns, Handler(k) \/ WriteFails(k) \/ Break(k)
        PROVE  UNCHANGED pub
    BY <1>6 DEF Handler, Subscribe, TakeFrame, SeeBreak, Unsubscribe, WriteFails, Break
  <1>7. ASSUME NEW s \in Sockets, SocketStep(s) \/ Unmount(s)
        PROVE  UNCHANGED pub
    BY <1>7 DEF SocketStep, Dial, DialFails, Open, SeeClose, Reconnect, Unmount
  <1>8. CASE HubStep /\ UNCHANGED feedVars
    BY <1>1, <1>4, <1>5, <1>6, <1>7, <1>8 DEF HubStep, feedVars
  <1>9. ASSUME NEW s \in Sockets, OnMessage(s)
        PROVE  UNCHANGED <<pub, rows>>
    BY <1>9 DEF OnMessage, Deliver
  <1>10. ASSUME NEW b \in Browsers, OpenPage(b) \/ ClosePage(b) \/ RunEffect(b)
         PROVE  UNCHANGED <<pub, rows>>
    BY <1>10 DEF OpenPage, ClosePage, RunEffect, hubVars
  <1>11. ASSUME NEW b \in Browsers, NEW t \in Feeds,
                Ask(t, b) \/ Answer(t, b) \/ Finish(t, b) \/ FetchFails(t, b)
         PROVE  UNCHANGED <<pub, rows>>
    BY <1>11 DEF Ask, Answer, Finish, FetchFails, hubVars
  <1>12. ASSUME NEW p \in Publications, TradeHappens(p) \/ RefreshOnce(p)
         PROVE  RowsInv'
    <2>1. TopicOf(p) # News /\ Happens(p) /\ UNCHANGED rows
      BY <1>12, FeedsAssumption DEF TradeHappens, RefreshOnce, Feeds, feedVars
    <2>2. QED
      BY <1>2, <2>1
  <1>13. CASE UNCHANGED allVars
    BY <1>1, <1>13 DEF allVars, hubVars, feedVars
  <1>14. QED
    BY <1>1, <1>3, <1>8, <1>9, <1>10, <1>11, <1>12, <1>13 DEF FeedNext

-----------------------------------------------------------------------------
(* The frames of the news on their way.                                    *)

\* A later item at the end of the queue keeps it sorted.
LEMMA SentSorted ==
    ASSUME NEW c \in ConnRecs, NEW p \in Publications, Sorted(c),
           \A q \in ToSet(c.frame) \cup ToSet(c.queue) : q[2] < p[2]
    PROVE  Sorted(SentTo(c, p))
  <1>1. PICK d : d = SentTo(c, p)
    OBVIOUS
  <1>2. PICK u \in Seq(Publications) : u = c.queue
    BY FlowsAreSeqs
  <1>3. d.frame = c.frame /\ d.queue = Append(u, p)
    BY <1>1, <1>2, SentToConn
  <1>4. /\ DOMAIN Append(u, p) = DOMAIN u \cup {Len(u) + 1}
        /\ \A i \in DOMAIN u : Append(u, p)[i] = u[i] /\ i < Len(u) + 1
        /\ Append(u, p)[Len(u) + 1] = p
    OBVIOUS
  <1>5. ToSet(Append(u, p)) = ToSet(u) \cup {p}
    BY AppendSet
  <1>6. \A i \in DOMAIN u : u[i][2] < p[2]
    BY <1>2, InSet
  <1>7. ASSUME NEW i \in DOMAIN d.queue, NEW j \in DOMAIN d.queue, i < j
        PROVE  d.queue[i][2] < d.queue[j][2]
    <2>1. i \in DOMAIN u
      BY <1>3, <1>4, <1>7
    <2>2. CASE j \in DOMAIN u
      BY <1>2, <1>3, <1>4, <1>7, <2>1, <2>2 DEF Sorted
    <2>3. CASE j = Len(u) + 1
      BY <1>3, <1>4, <1>6, <2>1, <2>3
    <2>4. QED
      BY <1>3, <1>4, <2>2, <2>3
  <1>8. QED
    BY <1>1, <1>2, <1>3, <1>5, <1>7 DEF Sorted

\* So does taking the first.
LEMMA TakenSorted ==
    ASSUME NEW c \in ConnRecs, c.queue # <<>>, Sorted(c)
    PROVE  /\ Sorted(Taken(c))
           /\ ToSet(Taken(c).frame) \cup ToSet(Taken(c).queue) = ToSet(c.queue)
  <1>1. PICK d : d = Taken(c)
    OBVIOUS
  <1>2. PICK u \in Seq(Publications) : u = c.queue
    BY FlowsAreSeqs
  <1>3. u # <<>>
    BY <1>2
  <1>4. d.frame = <<Head(u)>> /\ d.queue = Tail(u)
    BY <1>1, <1>2, TakenConn
  <1>5. /\ ToSet(u) = {Head(u)} \cup ToSet(Tail(u))
        /\ \A i \in DOMAIN Tail(u) : i + 1 \in DOMAIN u /\ Tail(u)[i] = u[i + 1]
    BY <1>3, HeadAndTail
  <1>6. ToSet(<<Head(u)>>) = {Head(u)}
    BY DEF ToSet
  <1>7. /\ Head(u) = u[1] /\ 1 \in DOMAIN u
        /\ \A i \in DOMAIN Tail(u) : i \in Nat /\ 1 < i + 1
    BY <1>3
  <1>8. ASSUME NEW q \in ToSet(Tail(u))
        PROVE  Head(u)[2] < q[2]
    <2>1. PICK i \in DOMAIN Tail(u) : q = Tail(u)[i]
      BY InSet
    <2>2. q = u[i + 1] /\ i + 1 \in DOMAIN u /\ 1 < i + 1
      BY <1>5, <1>7, <2>1
    <2>3. QED
      BY <1>2, <1>7, <2>2 DEF Sorted
  <1>9. ASSUME NEW i \in DOMAIN Tail(u), NEW j \in DOMAIN Tail(u), i < j
        PROVE  Tail(u)[i][2] < Tail(u)[j][2]
    <2>1. /\ Tail(u)[i] = u[i + 1] /\ i + 1 \in DOMAIN u
          /\ Tail(u)[j] = u[j + 1] /\ j + 1 \in DOMAIN u
          /\ i \in Nat /\ j \in Nat
      BY <1>5, <1>7
    <2>2. i + 1 < j + 1
      BY <1>9, <2>1
    <2>3. QED
      BY <1>2, <2>1, <2>2 DEF Sorted
  <1>10. QED
    BY <1>1, <1>2, <1>4, <1>5, <1>6, <1>8, <1>9 DEF Sorted

\* So does its arrival.
LEMMA DeliveredSorted ==
    ASSUME NEW c \in ConnRecs, Sorted(c)
    PROVE  Sorted(Delivered(c)) /\ ToSet(Delivered(c).frame) = {}
  <1>1. Delivered(c).frame = <<>> /\ Delivered(c).queue = c.queue
    BY DeliveredConn
  <1>2. ToSet(<<>>) = {}
    BY DEF ToSet
  <1>3. QED
    BY <1>1, <1>2 DEF Sorted

\* What a step does with the frames of a connection: only a publication that is
\* under way adds one, and they stay in order.
OfNews(p) == TopicOf(p) = News /\ pub[p] = "sending"

Orderly(k) ==
    QueueOf(k)' /\ (TopicOfConn(k) = News =>
                      Load(k)' \subseteq Load(k) \cup {p \in Publications : OfNews(p)})

\* A connection whose frames stay as they are stays orderly.
LEMMA StaysOrderly ==
    ASSUME QueueInv, NEW k \in Conns, Served(k)' => Served(k),
           conn'[k].queue = conn[k].queue, conn'[k].frame = conn[k].frame
    PROVE  Orderly(k)
  BY DEF Orderly, QueueInv, QueueOf, Load, Sorted

\* A connection that is not served has no frames to order.
LEMMA UnservedOrderly ==
    ASSUME NEW k \in Conns, ~Served(k)'
    PROVE  Orderly(k)
  BY DEF Orderly, QueueOf, Load

\* A step of one connection.
LEMMA OneOrderly ==
    ASSUME HubInv, QueueInv, NEW k \in Conns, NEW d, conn' = [conn EXCEPT ![k] = d],
           Orderly(k)
    PROVE  \A l \in Conns : Orderly(l)
  <1>1. \A l \in Conns : l # k => conn'[l] = conn[l]
    BY DEF HubInv, HubTypeOK
  <1>2. \A l \in Conns : l # k => Orderly(l)
    BY <1>1, StaysOrderly DEF Served
  <1>3. QED
    BY <1>2

\* The frame that is offered is later than those before it: they were published by
\* earlier rows.
LEMMA SendToOrderly ==
    ASSUME HubInv, RowsInv, QueueInv, NEW p \in Publications, NEW k \in Conns, SendTo(p, k)
    PROVE  \A l \in Conns : Orderly(l)
  <1> USE DEF HubInv
  <1> DEFINE c == conn[k]
  <1>1. pub[p] = "sending" /\ k \in todo[p]
    BY DEF SendTo
  <1>2. c \in ConnRecs /\ TopicOfConn(k) = TopicOf(p)
    BY <1>1, TypesOfParts DEF HubTypeOK, PublishInv
  <1>3. PICK d \in ConnRecs :
            /\ conn' = [conn EXCEPT ![k] = d]
            /\ d.state = c.state
            /\ Served(k) => \/ d = SentTo(c, p)
                            \/ d.queue = c.queue /\ d.frame = c.frame
    BY <1>2, SendToConnIs, DroppedForConn
  <1>4. conn'[k] = d /\ (Served(k)' <=> Served(k))
    BY <1>3 DEF HubTypeOK, Served
  <1>5. ASSUME Served(k), TopicOf(p) = News, NEW q \in ToSet(c.frame) \cup ToSet(c.queue)
        PROVE  q[2] < p[2]
    <2>1. /\ ToSet(Flow(c)) \subseteq ToSet(c.sent) /\ ToSet(c.sent) \subseteq c.since
          /\ p \notin ToSet(c.sent)
      BY <1>1, <1>5 DEF AccountedInv, Accounted, InOrder, ConnInv
    <2>2. q \in c.since /\ q # p /\ q \in Publications
      BY <1>2, <1>5, <2>1, FlowsAreSeqs DEF ConnRecs
    <2>3. TopicOf(q) = News /\ pub[q] # "none"
      BY <1>2, <1>5, <2>2 DEF ConnInv
    <2>4. /\ q[2] \in 1..Len(rows) /\ q = NewsRow(q[2])
          /\ p[2] = Len(rows) /\ p = NewsRow(p[2]) /\ Len(rows) \in Nat
      BY <1>1, <1>5, <2>2, <2>3, RowsOfNews, NewsRows
    <2>5. q[2] # p[2]
      BY <2>2, <2>4
    <2>6. QED
      BY <2>4, <2>5
  <1>6. Orderly(k)
    <2>1. CASE ~Served(k)
      BY <1>4, <2>1, UnservedOrderly
    <2>2. CASE Served(k) /\ d.queue = c.queue /\ d.frame = c.frame
      BY <1>4, <2>2, StaysOrderly
    <2>3. CASE Served(k) /\ d = SentTo(c, p)
      <3>1. TopicOf(p) = News => Sorted(d)
        <4>1. SUFFICES ASSUME TopicOf(p) = News
                       PROVE  Sorted(d)
          OBVIOUS
        <4>2. Sorted(c)
          BY <1>2, <2>3, <4>1 DEF QueueInv, QueueOf
        <4>3. \A q \in ToSet(c.frame) \cup ToSet(c.queue) : q[2] < p[2]
          BY <1>5, <2>3, <4>1
        <4> HIDE DEF c
        <4>4. QED
          BY <1>2, <2>3, <4>2, <4>3, SentSorted
      <3>2. ToSet(d.frame) \cup ToSet(d.queue) = ToSet(c.frame) \cup ToSet(c.queue) \cup {p}
        <4>1. PICK u \in Seq(Publications) : u = c.queue
          BY <1>2, FlowsAreSeqs
        <4>2. d.frame = c.frame /\ d.queue = Append(u, p)
          BY <1>2, <2>3, <4>1, SentToConn
        <4>3. QED
          BY <4>1, <4>2, AppendSet
      <3>3. TopicOf(p) = News => OfNews(p)
        BY <1>1 DEF OfNews
      <3>4. QED
        BY <1>2, <1>4, <2>3, <3>1, <3>2, <3>3 DEF Orderly, QueueOf, Load
    <2>4. QED
      BY <1>3, <2>1, <2>2, <2>3
  <1>7. QED
    BY <1>3, <1>6, OneOrderly

\* Breaking changes no frame.
LEMMA BreakOrderly ==
    ASSUME HubInv, QueueInv, NEW k \in Conns, conn' = [conn EXCEPT ![k] = Broken(@)]
    PROVE  \A l \in Conns : Orderly(l)
  <1>1. PICK d : d = Broken(conn[k])
    OBVIOUS
  <1>2. conn[k] \in ConnRecs /\ conn'[k] = d
    BY <1>1 DEF HubInv, HubTypeOK
  <1>3. d.state = conn[k].state /\ SameButState(conn[k], d)
    BY <1>1, <1>2, BrokenConn
  <1>4. Orderly(k)
    BY <1>2, <1>3, StaysOrderly DEF SameButState, Served
  <1>5. QED
    BY <1>1, <1>4, OneOrderly

\* The handler takes the frames in their order.
LEMMA HandlerOrderly ==
    ASSUME HubInv, QueueInv, NEW k \in Conns, Handler(k) \/ WriteFails(k) \/ Break(k)
    PROVE  \A l \in Conns : Orderly(l)
  <1> USE DEF HubInv
  <1> DEFINE c == conn[k]
  <1>1. c \in ConnRecs
    BY DEF HubTypeOK
  <1>2. CASE Subscribe(k)
    <2>1. PICK d : d = InState(c, "serving")
      OBVIOUS
    <2>2. conn' = [conn EXCEPT ![k] = d]
      BY <1>2, <2>1, Zenon DEF Subscribe, InState
    <2>3. d.queue = <<>> /\ d.frame = <<>>
      <3>1. "serving" \in ConnStates /\ Fresh(c)
        BY <1>2 DEF ConnStates, Subscribe, ConnInv
      <3>2. QED
        BY <1>1, <2>1, <3>1, InStateConn DEF SameButState, Fresh
    <2>4. conn'[k] = d
      BY <2>2 DEF HubTypeOK
    <2>5. Sorted(conn'[k]) /\ ToSet(conn'[k].frame) \cup ToSet(conn'[k].queue) = {}
      BY <2>3, <2>4 DEF Sorted, ToSet
    <2>6. Orderly(k)
      BY <2>5 DEF Orderly, QueueOf, Load
    <2>7. QED
      BY <2>2, <2>6, OneOrderly
  <1>3. CASE TakeFrame(k)
    <2>1. PICK d : d = Taken(c)
      OBVIOUS
    <2>2. conn' = [conn EXCEPT ![k] = d]
      BY <1>3, <2>1, Zenon DEF TakeFrame, Taken
    <2>3. c.queue # <<>> /\ c.frame = <<>> /\ Served(k)
      BY <1>3 DEF TakeFrame, ConnInv, Served
    <2>4. conn'[k] = d
      BY <2>2 DEF HubTypeOK
    <2>5. Sorted(c) => Sorted(d)
      BY <1>1, <2>1, <2>3, TakenSorted
    <2>6. ToSet(d.frame) \cup ToSet(d.queue) \subseteq ToSet(c.frame) \cup ToSet(c.queue)
      <3>1. CASE Sorted(c)
        BY <1>1, <2>1, <2>3, <3>1, TakenSorted
      <3>2. PICK u \in Seq(Publications) : u = c.queue
        BY <1>1, FlowsAreSeqs
      <3>3. d.frame = <<Head(u)>> /\ d.queue = Tail(u) /\ u # <<>>
        BY <1>1, <2>1, <2>3, <3>2, TakenConn
      <3>4. ToSet(<<Head(u)>>) = {Head(u)}
        BY DEF ToSet
      <3>5. QED
        BY <3>2, <3>3, <3>4, HeadAndTail
    <2>7. Orderly(k)
      BY <2>3, <2>4, <2>5, <2>6 DEF Orderly, QueueInv, QueueOf, Load
    <2>8. QED
      BY <2>2, <2>7, OneOrderly
  <1>4. CASE SeeBreak(k) \/ WriteFails(k)
    <2>1. conn' = [conn EXCEPT ![k] = Ended(c)]
      BY <1>4 DEF SeeBreak, WriteFails
    <2>2. ~Served(k)'
      BY <1>1, <2>1, EndedConn DEF Served, HubTypeOK
    <2>3. QED
      BY <2>1, <2>2, UnservedOrderly, OneOrderly
  <1>5. CASE Unsubscribe(k)
    <2>1. conn' = [conn EXCEPT ![k] = Gone]
      BY <1>5 DEF Unsubscribe
    <2>2. ~Served(k)'
      BY <2>1, NewConns DEF Served, HubTypeOK
    <2>3. QED
      BY <2>1, <2>2, UnservedOrderly, OneOrderly
  <1>6. CASE Break(k)
    <2>1. conn' = [conn EXCEPT ![k] = Broken(c)]
      BY <1>6, Zenon DEF Break, Broken
    <2>2. QED
      BY <2>1, BreakOrderly
  <1>7. QED
    BY <1>2, <1>3, <1>4, <1>5, <1>6 DEF Handler

\* A frame that arrives is no longer under way.
LEMMA DeliverOrderly ==
    ASSUME HubInv, QueueInv, NEW s \in Sockets, Deliver(s)
    PROVE  /\ \A l \in Conns : Orderly(l)
           /\ Load(ConnOf(s))' = ToSet(conn[ConnOf(s)].queue)
  <1> USE DEF HubInv
  <1>1. PICK k \in Conns : k = ConnOf(s)
    BY ConnOfType DEF Deliver
  <1>2. PICK d : d = Delivered(conn[k])
    OBVIOUS
  <1>3. conn' = [conn EXCEPT ![k] = d] /\ conn[k].state = "writing"
    BY <1>1, <1>2, Zenon DEF Deliver, Delivered
  <1>4. conn[k] \in ConnRecs /\ conn'[k] = d /\ Served(k)
    BY <1>3 DEF HubTypeOK, Served
  <1>5. d.queue = conn[k].queue /\ ToSet(d.frame) = {} /\ d.state = "serving"
        /\ (Sorted(conn[k]) => Sorted(d))
    <2>1. ToSet(<<>>) = {}
      BY DEF ToSet
    <2>2. d.queue = conn[k].queue /\ d.frame = <<>> /\ d.state = "serving"
      BY <1>2, <1>4, DeliveredConn
    <2>3. Sorted(conn[k]) => Sorted(d)
      BY <1>2, <1>4, DeliveredSorted
    <2>4. QED
      BY <2>1, <2>2, <2>3
  <1>6. Load(k)' = ToSet(conn[k].queue)
    BY <1>4, <1>5 DEF Load, Served
  <1>7. Orderly(k)
    BY <1>4, <1>5, <1>6 DEF Orderly, QueueInv, QueueOf, Load
  <1>8. sock' = sock
    BY DEF Deliver
  <1>9. QED
    BY <1>1, <1>3, <1>6, <1>7, <1>8, OneOrderly DEF ConnOf

\* What the browser's side of a connection does.
LEMMA SocketOrderly ==
    ASSUME HubInv, QueueInv, NEW s \in Sockets, SocketStep(s) \/ Unmount(s)
    PROVE  \A l \in Conns : Orderly(l)
  <1> USE DEF HubInv
  <1>1. CASE UNCHANGED conn
    BY <1>1, StaysOrderly DEF Served
  <1>2. CASE Dial(s)
    <2>1. PICK n \in 1..hubLoad.conns : conn' = [conn EXCEPT ![<<s, n>>].state = "accepted"]
      BY <1>2 DEF Dial
    <2>2. PICK k \in Conns : k = <<s, n>>
      <3>1. n \in 1..MaxConns
        BY <2>1, HubAssumption DEF HubTypeOK
      <3>2. QED
        BY <3>1, TypesOfParts
    <2>3. conn' = [conn EXCEPT ![k] = InState(conn[k], "accepted")]
      BY <2>1, <2>2, Zenon DEF InState
    <2>4. conn[k] \in ConnRecs /\ "accepted" \in ConnStates
      BY DEF HubTypeOK, ConnStates
    <2>5. ~Served(k)'
      BY <2>3, <2>4, InStateConn DEF Served, HubTypeOK
    <2>6. QED
      BY <2>3, <2>5, UnservedOrderly, OneOrderly
  <1>3. CASE Unmount(s) /\ HasConn(s)
    <2>1. conn' = [conn EXCEPT ![ConnOf(s)] = Broken(@)]
      BY <1>3, Zenon DEF Unmount, Broken
    <2>2. ConnOf(s) \in Conns
      BY <1>3, ConnOfType
    <2>3. QED
      BY <2>1, <2>2, BreakOrderly
  <1>4. QED
    BY <1>1, <1>2, <1>3
    DEF SocketStep, DialFails, Open, SeeClose, Reconnect, Unmount

\* Every step of the hub keeps the queues in order.
LEMMA HubStepOrderly ==
    ASSUME HubInv, RowsInv, QueueInv, HubStep
    PROVE  \A l \in Conns : Orderly(l)
  <1> USE DEF HubInv
  <1>1. ASSUME NEW p \in Publications, BeginPublish(p)
        PROVE  \A l \in Conns : Orderly(l)
    <2>1. ASSUME NEW k \in Conns
          PROVE  /\ conn'[k].state = conn[k].state
                 /\ conn'[k].queue = conn[k].queue /\ conn'[k].frame = conn[k].frame
      <3>1. conn[k] \in ConnRecs
        BY DEF HubTypeOK
      <3>2. conn'[k] = Begun(conn[k], p) \/ conn'[k] = conn[k]
        BY <1>1, Zenon DEF BeginPublish, Begun
      <3>3. QED
        BY <3>1, <3>2, BegunConn
    <2>2. QED
      BY <2>1, StaysOrderly DEF Served
  <1>2. ASSUME NEW p \in Publications, EndPublish(p)
        PROVE  \A l \in Conns : Orderly(l)
    BY <1>2, StaysOrderly DEF EndPublish, Served
  <1>3. CASE Restart
    <2>1. \A k \in Conns : ~Served(k)'
      BY <1>3, NewConns DEF Restart, Served
    <2>2. QED
      BY <2>1, UnservedOrderly
  <1>4. ASSUME NEW p \in Publications, Publish(p)
        PROVE  \A l \in Conns : Orderly(l)
    BY <1>1, <1>2, <1>4, SendToOrderly DEF Publish
  <1>5. QED
    BY <1>3, <1>4, HandlerOrderly, SocketOrderly DEF HubStep

\* So the frames stay in order, and a browser gets but those that were under way
\* or are published now.
LEMMA QueuesAreKept ==
    ASSUME HubInv, RowsInv, QueueInv, [FeedNext]_allVars
    PROVE  /\ QueueInv'
           /\ \A b \in Browsers :
                 UnderWay(b)' \subseteq UnderWay(b) \cup {p \in Publications : OfNews(p)}
  <1> USE DEF HubInv
  <1>1. ASSUME \A k \in Conns : Orderly(k)
        PROVE  QueueInv'
    BY <1>1 DEF QueueInv, Orderly
  <1>2. ASSUME NEW b \in Browsers, \A k \in Conns : Orderly(k),
               \/ sock'[<<News, b>>].conn \in {0, sock[<<News, b>>].conn}
               \/ Load(ConnOf(<<News, b>>))' = {}
        PROVE  UnderWay(b)' \subseteq UnderWay(b) \cup {p \in Publications : OfNews(p)}
    <2> DEFINE s == <<News, b>>
    <2>1. s \in Sockets /\ TopicOf(s) = News
      BY FeedsAssumption DEF Sockets, TopicOf
    <2>2. CASE HasConn(s)' /\ sock'[s].conn = sock[s].conn
      <3>1. HasConn(s) /\ ConnOf(s)' = ConnOf(s)
        BY <2>2 DEF HasConn, ConnOf
      <3>2. PICK k \in Conns : k = ConnOf(s) /\ k = ConnOf(s)' /\ TopicOfConn(k) = News
        BY <2>1, <3>1, ConnOfType
      <3>3. UnderWay(b) = Load(k)
        BY <3>1, <3>2 DEF UnderWay
      <3>4. UnderWay(b)' = Load(k)'
        BY <2>2, <3>2 DEF UnderWay, Load, Served
      <3>5. QED
        BY <1>2, <3>2, <3>3, <3>4 DEF Orderly
    <2>3. CASE ~HasConn(s)' \/ Load(ConnOf(s))' = {}
      BY <2>3 DEF UnderWay
    <2>4. QED
      BY <1>2, <2>2, <2>3 DEF HasConn
  <1>3. CASE /\ \A k \in Conns : Orderly(k)
             /\ \A b \in Browsers :
                   \/ sock'[<<News, b>>].conn \in {0, sock[<<News, b>>].conn}
                   \/ Load(ConnOf(<<News, b>>))' = {}
    BY <1>1, <1>2, <1>3
  <1>4. ASSUME UNCHANGED <<conn, sock>>
        PROVE  /\ \A k \in Conns : Orderly(k)
               /\ \A b \in Browsers : sock'[<<News, b>>].conn = sock[<<News, b>>].conn
    BY <1>4, StaysOrderly DEF Served
  <1>5. ASSUME NEW s \in Sockets, OnMessage(s)
        PROVE  /\ \A k \in Conns : Orderly(k)
               /\ \A b \in Browsers : sock'[<<News, b>>].conn = sock[<<News, b>>].conn
    <2>1. Deliver(s)
      BY <1>5 DEF OnMessage
    <2>2. sock' = sock
      BY <2>1 DEF Deliver
    <2>3. QED
      BY <2>1, <2>2, DeliverOrderly
  <1>6. ASSUME NEW p \in Publications, TradeHappens(p) \/ GenerateNews(p) \/ RefreshOnce(p)
        PROVE  UNCHANGED <<conn, sock>>
    BY <1>6 DEF TradeHappens, GenerateNews, RefreshOnce, Happens
  <1>7. ASSUME NEW b \in Browsers, OpenPage(b) \/ ClosePage(b) \/ RunEffect(b)
        PROVE  UNCHANGED <<conn, sock>>
    BY <1>7 DEF OpenPage, ClosePage, RunEffect, hubVars
  <1>8. ASSUME NEW b \in Browsers, NEW t \in Feeds,
               Ask(t, b) \/ Answer(t, b) \/ Finish(t, b) \/ FetchFails(t, b)
        PROVE  UNCHANGED <<conn, sock>>
    BY <1>8 DEF Ask, Answer, Finish, FetchFails, hubVars
  <1>9. CASE HubStep
    <2>1. \A k \in Conns : Orderly(k)
      BY <1>9, HubStepOrderly
    <2>2. ASSUME NEW b \in Browsers
          PROVE  \/ sock'[<<News, b>>].conn \in {0, sock[<<News, b>>].conn}
                 \/ Load(ConnOf(<<News, b>>))' = {}
      <3> DEFINE r == <<News, b>>
      <3>1. r \in Sockets
        BY FeedsAssumption DEF Sockets
      <3>2. ASSUME UNCHANGED sock
            PROVE  sock'[r].conn = sock[r].conn
        BY <3>2
      <3>3. ASSUME NEW s \in Sockets,
                   DialFails(s) \/ Open(s) \/ SeeClose(s) \/ Reconnect(s) \/ Unmount(s)
            PROVE  sock'[r].conn \in {0, sock[r].conn}
        BY <3>1, <3>3
        DEF DialFails, Open, SeeClose, Reconnect, Unmount, HubTypeOK, SockRecs, Closed
      <3>4. ASSUME NEW s \in Sockets, Dial(s)
            PROVE  sock'[r].conn = sock[r].conn \/ Load(ConnOf(r))' = {}
        <4>1. PICK n \in 1..hubLoad.conns :
                  /\ conn' = [conn EXCEPT ![<<s, n>>].state = "accepted"]
                  /\ sock' = [sock EXCEPT ![s].conn = n]
          BY <3>4 DEF Dial
        <4>2. CASE s # r
          BY <3>1, <4>1, <4>2 DEF HubTypeOK
        <4>3. CASE s = r
          <5>1. PICK k \in Conns : k = <<s, n>>
            <6>1. n \in 1..MaxConns
              BY <4>1, HubAssumption DEF HubTypeOK
            <6>2. QED
              BY <6>1, TypesOfParts
          <5>2. sock'[s].conn = n
            BY <4>1 DEF HubTypeOK, SockRecs
          <5>3. ConnOf(r)' = k
            BY <4>3, <5>1, <5>2 DEF ConnOf
          <5>4. conn' = [conn EXCEPT ![k] = InState(conn[k], "accepted")]
            BY <4>1, <5>1, Zenon DEF InState
          <5>5. conn[k] \in ConnRecs /\ "accepted" \in ConnStates
            BY DEF HubTypeOK, ConnStates
          <5>6. conn'[k].state = "accepted"
            BY <5>4, <5>5, InStateConn DEF HubTypeOK
          <5>7. Load(k)' = {}
            BY <5>6 DEF Load, Served
          <5>8. QED
            BY <5>3, <5>7 DEF Load, Served
        <4>4. QED
          BY <4>2, <4>3
      <3>5. ASSUME NEW p \in Publications, Publish(p)
            PROVE  UNCHANGED sock
        BY <3>5 DEF Publish, BeginPublish, SendTo, EndPublish
      <3>6. ASSUME NEW k \in Conns, Handler(k) \/ WriteFails(k) \/ Break(k)
            PROVE  UNCHANGED sock
        BY <3>6 DEF Handler, Subscribe, TakeFrame, SeeBreak, Unsubscribe, WriteFails, Break
      <3>7. CASE Restart
        BY <3>2, <3>7 DEF Restart
      <3>8. QED
        BY <1>9, <3>2, <3>3, <3>4, <3>5, <3>6, <3>7 DEF HubStep, SocketStep
    <2>3. QED
      BY <1>3, <2>1, <2>2
  <1>10. CASE UNCHANGED allVars
    BY <1>3, <1>4, <1>10 DEF allVars, hubVars
  <1>11. QED
    BY <1>3, <1>4, <1>5, <1>6, <1>7, <1>8, <1>9, <1>10 DEF FeedNext

-----------------------------------------------------------------------------
(* What a browser shows of the news.                                       *)

\* No row is ever removed.
LEMMA RowsOnlyGrow ==
    ASSUME RowsInv, [FeedNext]_allVars
    PROVE  ToSet(rows) \subseteq ToSet(rows')
  <1>1. ASSUME NEW p \in Publications, GenerateNews(p)
        PROVE  ToSet(rows) \subseteq ToSet(rows')
    <2>1. rows' = Append(rows, p) /\ rows \in Seq(Publications)
      BY <1>1 DEF GenerateNews, RowsInv
    <2>2. QED
      BY <2>1, AppendSet
  <1>2. CASE UNCHANGED rows
    BY <1>2
  <1>3. ASSUME NEW p \in Publications, TradeHappens(p) \/ RefreshOnce(p)
        PROVE  UNCHANGED rows
    BY <1>3 DEF TradeHappens, RefreshOnce, feedVars
  <1>4. ASSUME NEW s \in Sockets, OnMessage(s)
        PROVE  UNCHANGED rows
    BY <1>4 DEF OnMessage
  <1>5. ASSUME NEW b \in Browsers, OpenPage(b) \/ ClosePage(b) \/ RunEffect(b)
        PROVE  UNCHANGED rows
    BY <1>5 DEF OpenPage, ClosePage, RunEffect
  <1>6. ASSUME NEW b \in Browsers, NEW t \in Feeds,
               Ask(t, b) \/ Answer(t, b) \/ Finish(t, b) \/ FetchFails(t, b)
        PROVE  UNCHANGED rows
    BY <1>6 DEF Ask, Answer, Finish, FetchFails
  <1>7. QED
    BY <1>1, <1>2, <1>3, <1>4, <1>5, <1>6 DEF FeedNext, allVars, feedVars

\* The frames under way are of rows that are there.
LEMMA UnderWayHasRow ==
    ASSUME HubInv, RowsInv, NEW b \in Browsers, NEW p \in UnderWay(b)
    PROVE  p \in ToSet(rows) /\ p[2] \in 1..Len(rows) /\ rows[p[2]] = p
  <1> USE DEF HubInv
  <1> DEFINE s == <<News, b>>
  <1>1. s \in Sockets /\ TopicOf(s) = News
    BY FeedsAssumption DEF Sockets, TopicOf
  <1>2. HasConn(s) /\ Served(ConnOf(s)) /\ p \in Load(ConnOf(s))
    BY DEF UnderWay, Load
  <1>3. PICK k \in Conns : k = ConnOf(s) /\ TopicOfConn(k) = News
    BY <1>1, <1>2, ConnOfType
  <1>4. conn[k] \in ConnRecs
    BY DEF HubTypeOK
  <1>5. p \in ToSet(Flow(conn[k]))
    BY <1>2, <1>3, <1>4, FlowsAreSeqs DEF Load
  <1>6. p \in conn[k].since /\ p \in Publications
    <2>1. InOrder(conn[k]) /\ ToSet(conn[k].sent) \subseteq conn[k].since
      BY <1>2, <1>3 DEF AccountedInv, Accounted, ConnInv
    <2>2. conn[k].since \subseteq Publications
      BY <1>4 DEF ConnRecs
    <2>3. QED
      BY <1>5, <2>1, <2>2 DEF InOrder
  <1>7. TopicOf(p) = News /\ pub[p] # "none"
    BY <1>3, <1>6 DEF ConnInv
  <1>8. QED
    BY <1>6, <1>7, RowsOfNews

\* A list that is newest first, and older than what is under way, stays so until it
\* changes: what is published after it is later than all of it.
LEMMA GoodNewsStays ==
    ASSUME HubInv, RowsInv, QueueInv, [FeedNext]_allVars, NEW b \in Browsers, NEW news,
           GoodNews(b, news)
    PROVE  GoodNews(b, news)'
  <1>1. ToSet(rows) \subseteq ToSet(rows')
    BY RowsOnlyGrow
  <1>2. news \in Seq(ToSet(rows'))
    BY <1>1 DEF GoodNews
  <1>3. ASSUME NEW p \in UnderWay(b)'
        PROVE  NotOlder(p, news)
    <2>1. CASE p \in UnderWay(b)
      BY <2>1 DEF GoodNews
    <2>2. CASE p \in Publications /\ OfNews(p)
      <3>1. TopicOf(p) = News /\ pub[p] = "sending"
        BY <2>2 DEF OfNews
      <3>2. p[2] = Len(rows) /\ rows[p[2]] = p /\ Len(rows) \in Nat
        BY <2>2, <3>1, RowsOfNews DEF HubInv
      <3>3. SUFFICES ASSUME p \notin ToSet(news), NEW i \in DOMAIN news
                     PROVE  p[2] > news[i][2]
        BY DEF NotOlder
      <3>4. news[i] \in ToSet(rows) /\ news[i] # p
        BY <3>3, InSet DEF GoodNews
      <3>5. PICK n \in 1..Len(rows) : news[i] = NewsRow(n) /\ rows[n] = NewsRow(n)
        BY <3>4, RowsOfNews DEF HubInv
      <3>6. n # Len(rows)
        BY <3>2, <3>4, <3>5
      <3>7. news[i][2] = n
        BY <3>5 DEF NewsRow
      <3>8. QED
        BY <3>2, <3>6, <3>7
    <2>3. QED
      BY <2>1, <2>2, QueuesAreKept
  <1>4. QED
    BY <1>2, <1>3 DEF GoodNews

\* A page of the latest rows is in order, and no frame it lacks is of an older row.
LEMMA LatestIsGood ==
    ASSUME HubInv, RowsInv, PagesCoverFrames, NEW b \in Browsers, NEW limit \in NewsLimits
    PROVE  LatestNews(limit) \in Seq(Publications) /\ GoodNews(b, LatestNews(limit))
  <1> DEFINE first == IF Len(rows) > limit THEN Len(rows) - limit + 1 ELSE 1
             size  == Len(rows) - first + 1
             latest == SubSeq(rows, first, Len(rows))
             page  == LatestNews(limit)
  <1>1. /\ limit \in Nat /\ Len(rows) \in Nat /\ rows \in Seq(Publications)
        /\ first \in Nat /\ first >= 1 /\ first <= Len(rows) + 1 /\ size \in Nat
    BY FeedsAssumption DEF RowsInv
  <1>2. /\ latest \in Seq(Publications) /\ Len(latest) = size
        /\ \A i \in 1..size : latest[i] = rows[first + i - 1]
    <2> HIDE DEF first
    <2>1. QED
      BY <1>1
  <1>3. /\ page = [i \in 1..size |-> latest[size - i + 1]]
    BY <1>2 DEF LatestNews, Reverse
  <1>4. ASSUME NEW i \in 1..size
        PROVE  page[i] = NewsRow(Len(rows) - i + 1) /\ page[i] \in ToSet(rows)
    <2>0. first \in Nat /\ first >= 1 /\ Len(rows) \in Nat /\ size = Len(rows) - first + 1
      BY <1>1
    <2> HIDE DEF first, size
    <2>1. size - i + 1 \in 1..size
      BY <1>1
    <2>2. /\ first + (size - i + 1) - 1 = Len(rows) - i + 1
          /\ Len(rows) - i + 1 \in 1..Len(rows)
      BY <1>1, <2>0
    <2>3. page[i] = rows[Len(rows) - i + 1]
      <3> HIDE DEF latest, size, first
      <3>1. page[i] = latest[size - i + 1]
        BY <1>3
      <3>2. latest[size - i + 1] = rows[first + (size - i + 1) - 1]
        BY <1>2, <2>1
      <3>3. QED
        BY <2>2, <3>1, <3>2
    <2>4. QED
      BY <2>2, <2>3, RowsOfNews DEF HubInv
  <1>5. /\ page \in Seq(ToSet(rows))
        /\ DOMAIN page = 1..size
        /\ ToSet(rows) \subseteq Publications
    <2>1. page \in [1..size -> ToSet(rows)] /\ DOMAIN page = 1..size
      <3> HIDE DEF latest, size, first
      <3>1. QED
        BY <1>3, <1>4
    <2>2. ToSet(rows) \subseteq Publications
      BY <1>1 DEF ToSet
    <2>3. PICK S : S = ToSet(rows)
      OBVIOUS
    <2>4. page \in Seq(S) /\ (S \subseteq Publications => page \in Seq(Publications))
      <3> HIDE DEF size, page
      <3>1. size \in Nat /\ page \in [1..size -> S]
        BY <1>1, <2>1, <2>3
      <3>2. QED
        BY <3>1
    <2>5. QED
      BY <2>1, <2>2, <2>3, <2>4
  <1>6. Descending(page)
    <2>1. SUFFICES ASSUME NEW i \in 1..size, NEW j \in 1..size, i < j
                   PROVE  page[i][2] > page[j][2]
      BY <1>5 DEF Descending
    <2>2. page[i][2] = Len(rows) - i + 1 /\ page[j][2] = Len(rows) - j + 1
      BY <1>4 DEF NewsRow
    <2>3. QED
      BY <1>1, <2>1, <2>2
  <1>7. ASSUME NEW p \in UnderWay(b)
        PROVE  NotOlder(p, page)
    <2>1. p[2] \in 1..Len(rows) /\ rows[p[2]] = p /\ p[2] > Len(rows) - limit
      BY UnderWayHasRow DEF PagesCoverFrames
    <2>2. PICK i : i = Len(rows) - p[2] + 1
      OBVIOUS
    <2>3. i \in 1..size /\ Len(rows) - i + 1 = p[2]
      <3>1. PICK n : n = p[2]
        OBVIOUS
      <3>2. n \in 1..Len(rows) /\ n > Len(rows) - limit /\ i = Len(rows) - n + 1
        BY <2>1, <2>2, <3>1
      <3>3. size = Len(rows) \/ size = limit
        BY <1>1
      <3>4. size \in Nat /\ Len(rows) \in Nat /\ limit \in Nat
        BY <1>1
      <3> HIDE DEF size, first
      <3>5. i \in 1..size /\ Len(rows) - i + 1 = n
        BY <3>2, <3>3, <3>4
      <3>6. QED
        BY <3>1, <3>5
    <2>4. page[i] = p
      BY <1>4, <2>1, <2>3, RowsOfNews DEF HubInv
    <2>5. QED
      BY <1>5, <2>3, <2>4 DEF NotOlder, ToSet
  <1>8. QED
    BY <1>5, <1>6, <1>7 DEF GoodNews

\* An empty list is newest first.
LEMMA NoNewsIsGood ==
    ASSUME NEW b \in Browsers
    PROVE  GoodNews(b, <<>>)
  BY DEF GoodNews, Descending, NotOlder

\* A frame in front of the news that lack it.
LEMMA MergedIsGood ==
    ASSUME HubInv, RowsInv, UNCHANGED rows, NEW b \in Browsers, NEW news, GoodNews(b, news),
           NEW p \in UnderWay(b), p \notin ToSet(news),
           UnderWay(b)' \subseteq UnderWay(b), \A q \in UnderWay(b)' : p[2] < q[2]
    PROVE  GoodNews(b, <<p>> \o news)'
  <1>1. p \in ToSet(rows) /\ p[2] \in Nat
    BY UnderWayHasRow
  <1>2. /\ news \in Seq(ToSet(rows))
        /\ Descending(news)
        /\ \A i \in DOMAIN news : p[2] > news[i][2]
    BY DEF GoodNews, NotOlder
  <1>3. PICK more : more = <<p>> \o news
    OBVIOUS
  <1>4. /\ more \in Seq(ToSet(rows)) /\ DOMAIN more = 1..(Len(news) + 1)
        /\ more[1] = p /\ DOMAIN news = 1..Len(news) /\ Len(news) \in Nat
        /\ \A i \in 1..Len(news) : more[i + 1] = news[i]
    BY <1>1, <1>2, <1>3
  <1>5. Descending(more)
    <2>1. SUFFICES ASSUME NEW i \in DOMAIN more, NEW j \in DOMAIN more, i < j
                   PROVE  more[i][2] > more[j][2]
      BY DEF Descending
    <2>2. PICK n \in 1..Len(news) : j = n + 1 /\ more[j] = news[n]
      <3>1. j - 1 \in 1..Len(news) /\ j = (j - 1) + 1
        BY <1>4, <2>1
      <3>2. QED
        BY <1>4, <3>1
    <2>3. CASE i = 1
      BY <1>2, <1>4, <2>2, <2>3
    <2>4. CASE i # 1
      <3>1. i - 1 \in 1..Len(news) /\ i = (i - 1) + 1 /\ i - 1 < n
        BY <1>4, <2>1, <2>2, <2>4
      <3>2. more[i] = news[i - 1]
        BY <1>4, <3>1
      <3>3. QED
        BY <1>2, <1>4, <2>2, <3>1, <3>2 DEF Descending
    <2>5. QED
      BY <2>3, <2>4
  <1>6. ASSUME NEW q \in UnderWay(b)'
        PROVE  NotOlder(q, more)
    <2>1. q[2] > p[2] /\ q[2] \in Nat /\ NotOlder(q, news)
      BY UnderWayHasRow DEF GoodNews
    <2>2. CASE q \in ToSet(news)
      <3>1. PICK i \in 1..Len(news) : q = news[i]
        BY <1>4, <2>2, InSet
      <3>2. i + 1 \in DOMAIN more /\ more[i + 1] = q
        BY <1>4, <3>1
      <3>3. QED
        BY <3>2, InSet DEF NotOlder
    <2>3. CASE \A i \in DOMAIN news : q[2] > news[i][2]
      <3>1. ASSUME NEW i \in DOMAIN more
            PROVE  q[2] > more[i][2]
        <4>1. CASE i = 1
          BY <1>4, <2>1, <4>1
        <4>2. CASE i # 1
          <5>1. i - 1 \in 1..Len(news) /\ i = (i - 1) + 1
            BY <1>4, <4>2
          <5>2. more[i] = news[i - 1]
            BY <1>4, <5>1
          <5>3. QED
            BY <1>4, <2>3, <5>1, <5>2
        <4>3. QED
          BY <4>1, <4>2
      <3>2. QED
        BY <3>1 DEF NotOlder
    <2>4. QED
      BY <2>1, <2>2, <2>3 DEF NotOlder
  <1>7. GoodNews(b, more)'
    BY <1>4, <1>5, <1>6 DEF GoodNews
  <1>8. QED
    BY <1>3, <1>7

\* A step that leaves the cache of the news alone.
LEMMA NewsStays ==
    ASSUME FeedInv, [FeedNext]_allVars, query'[News] = query[News],
           query' = [t \in Feeds |-> query'[t]]
    PROVE  NewsInv'
  <1>1. ASSUME NEW b \in Browsers
        PROVE  /\ GoodNews(b, query[News][b].data)'
               /\ GoodNews(b, query[News][b].answer)'
    <2>1. PICK q : q = query[News][b] /\ q = query'[News][b]
      OBVIOUS
    <2>2. GoodNews(b, q.data) /\ GoodNews(b, q.answer)
      BY <2>1 DEF FeedInv, NewsInv
    <2>3. GoodNews(b, q.data)' /\ GoodNews(b, q.answer)'
      BY <2>2, GoodNewsStays DEF FeedInv
    <2>4. QED
      BY <2>1, <2>3 DEF GoodNews
  <1>2. QED
    BY <1>1 DEF FeedInv, NewsInv, GoodNews

\* A step that changes it for one browser.
LEMMA OneQueryKeeps ==
    ASSUME FeedInv, [FeedNext]_allVars, NEW b \in Browsers, NEW r \in NewsQueries,
           query' = [query EXCEPT ![News][b] = r],
           GoodNews(b, r.data)', GoodNews(b, r.answer)'
    PROVE  NewsInv'
  <1>1. /\ query = [t \in Feeds |-> query[t]]
        /\ query[News] \in [Browsers -> NewsQueries]
    BY DEF FeedInv, NewsInv
  <1>2. /\ query' = [t \in Feeds |-> query'[t]]
        /\ query'[News] = [query[News] EXCEPT ![b] = r]
    BY <1>1 DEF Feeds
  <1>3. ASSUME NEW a \in Browsers
        PROVE  GoodNews(a, query[News][a].data)' /\ GoodNews(a, query[News][a].answer)'
    <2>1. CASE a = b
      BY <1>1, <1>2, <2>1 DEF GoodNews
    <2>2. CASE a # b
      <3>1. PICK q : q = query[News][a] /\ q = query'[News][a]
        BY <1>1, <1>2, <2>2
      <3>2. GoodNews(a, q.data) /\ GoodNews(a, q.answer)
        BY <3>1 DEF FeedInv, NewsInv
      <3>3. GoodNews(a, q.data)' /\ GoodNews(a, q.answer)'
        BY <3>2, GoodNewsStays DEF FeedInv
      <3>4. QED
        BY <3>1, <3>3 DEF GoodNews
    <2>3. QED
      BY <2>1, <2>2
  <1>4. QED
    BY <1>1, <1>2, <1>3 DEF NewsInv, GoodNews

\* A fetch is asked, answered, finished or lost.
LEMMA FetchKeepsNews ==
    ASSUME FeedInv, PagesCoverFrames, FeedNext, NEW b \in Browsers, NEW t \in Feeds,
           Ask(t, b) \/ Answer(t, b) \/ Finish(t, b) \/ FetchFails(t, b)
    PROVE  NewsInv'
  <1>1. CASE t # News
    <2>1. query = [u \in Feeds |-> query[u]]
      BY DEF FeedInv, NewsInv
    <2>2. PICK r : query' = [query EXCEPT ![t][b] = r]
      <3>1. CASE Ask(t, b)
        <4>1. query' = [query EXCEPT ![t][b] = [@ EXCEPT !.flight = "asked"]]
          BY <3>1, Zenon DEF Ask
        <4>2. QED
          BY <4>1
      <3>2. CASE Answer(t, b)
        <4>1. PICK a : query' = [query EXCEPT
                                   ![t][b].flight = "answered", ![t][b].answer = a]
          BY <3>2, Zenon DEF Answer
        <4>2. query' = [query EXCEPT
                          ![t][b] = [@ EXCEPT !.flight = "answered", !.answer = a]]
          BY <4>1, Zenon
        <4>3. QED
          BY <4>2
      <3>3. CASE Finish(t, b)
        BY <3>3, Zenon DEF Finish
      <3>4. CASE FetchFails(t, b)
        <4>1. query' = [query EXCEPT
                          ![t][b] = [@ EXCEPT !.flight = "none", !.answer = Blank(t)]]
          BY <3>4, Zenon DEF FetchFails
        <4>2. QED
          BY <4>1
      <3>5. QED
        BY <3>1, <3>2, <3>3, <3>4
    <2>3. query'[News] = query[News] /\ query' = [u \in Feeds |-> query'[u]]
      BY <1>1, <2>1, <2>2 DEF Feeds
    <2>4. QED
      BY <2>3, NewsStays
  <1>2. CASE t = News
    <2> DEFINE q == query[News][b]
    <2>1. /\ q \in NewsQueries /\ GoodNews(b, q.data) /\ GoodNews(b, q.answer)
          /\ GoodNews(b, <<>>)
          /\ q.data \in Seq(Publications) /\ q.answer \in Seq(Publications)
      BY NoNewsIsGood DEF FeedInv, NewsInv, NewsQueries
    <2>2. Blank(t) = <<>> /\ <<>> \in Seq(Publications)
      BY <1>2 DEF Blank
    <2>3. PICK r \in NewsQueries :
              /\ query' = [query EXCEPT ![News][b] = r]
              /\ GoodNews(b, r.data) /\ GoodNews(b, r.answer)
      <3>1. CASE Ask(t, b)
        <4>1. query' = [query EXCEPT ![News][b] = [q EXCEPT !.flight = "asked"]]
          BY <1>2, <3>1, Zenon DEF Ask
        <4>2. PICK r : r = [q EXCEPT !.flight = "asked"]
          OBVIOUS
        <4>3. r \in NewsQueries /\ r.data = q.data /\ r.answer = q.answer
          BY <2>1, <4>2 DEF NewsQueries
        <4>4. QED
          BY <2>1, <4>1, <4>2, <4>3
      <3>2. CASE Answer(t, b)
        <4>1. PICK limit \in NewsLimits :
                  query' = [query EXCEPT ![News][b].flight = "answered",
                                         ![News][b].answer = LatestNews(limit)]
          <5>1. PICK a \in {LatestNews(n) : n \in NewsLimits} :
                    query' = [query EXCEPT ![News][b].flight = "answered",
                                           ![News][b].answer = a]
            BY <1>2, <3>2, Zenon DEF Answer
          <5>2. PICK limit \in NewsLimits : a = LatestNews(limit)
            OBVIOUS
          <5>3. QED
            BY <5>1, <5>2, Zenon
        <4>2. PICK a \in Seq(Publications) : a = LatestNews(limit) /\ GoodNews(b, a)
          BY LatestIsGood DEF FeedInv
        <4>3. query' = [query EXCEPT
                          ![News][b] = [q EXCEPT !.flight = "answered", !.answer = a]]
          BY <4>1, <4>2, Zenon
        <4>4. PICK r : r = [q EXCEPT !.flight = "answered", !.answer = a]
          OBVIOUS
        <4>5. r \in NewsQueries /\ r.data = q.data /\ r.answer = a
          BY <2>1, <4>4 DEF NewsQueries
        <4>6. QED
          BY <2>1, <4>2, <4>3, <4>4, <4>5
      <3>3. CASE Finish(t, b)
        <4>1. query' = [query EXCEPT
                          ![News][b] = [SetData(q, q.answer) EXCEPT
                                          !.flight = "none", !.answer = <<>>]]
          BY <1>2, <2>2, <3>3, Zenon DEF Finish
        <4>2. PICK r : r = [SetData(q, q.answer) EXCEPT !.flight = "none", !.answer = <<>>]
          OBVIOUS
        <4>3. r \in NewsQueries /\ r.data = q.answer /\ r.answer = <<>>
          BY <2>1, <2>2, <4>2 DEF NewsQueries, SetData
        <4>4. QED
          BY <2>1, <4>1, <4>2, <4>3
      <3>4. CASE FetchFails(t, b)
        <4>1. query' = [query EXCEPT
                          ![News][b] = [q EXCEPT !.flight = "none", !.answer = <<>>]]
          BY <1>2, <2>2, <3>4, Zenon DEF FetchFails
        <4>2. PICK r : r = [q EXCEPT !.flight = "none", !.answer = <<>>]
          OBVIOUS
        <4>3. r \in NewsQueries /\ r.data = q.data /\ r.answer = <<>>
          BY <2>1, <2>2, <4>2 DEF NewsQueries
        <4>4. QED
          BY <2>1, <4>1, <4>2, <4>3
      <3>5. QED
        BY <3>1, <3>2, <3>3, <3>4
    <2>4. GoodNews(b, r.data)' /\ GoodNews(b, r.answer)'
      BY <2>3, GoodNewsStays DEF FeedInv
    <2>5. QED
      BY <2>3, <2>4, OneQueryKeeps
  <1>3. QED
    BY <1>1, <1>2

\* A frame arrives.
LEMMA MessageKeepsNews ==
    ASSUME FeedInv, FeedNext, NEW s \in Sockets, OnMessage(s)
    PROVE  NewsInv'
  <1> USE DEF FeedInv
  <1>1. /\ query = [t \in Feeds |-> query[t]]
        /\ query[News] \in [Browsers -> NewsQueries]
    BY DEF NewsInv
  <1> DEFINE p == conn[ConnOf(s)].frame[1]
             b == s[2]
             q == query[News][b]
  <1>2. Deliver(s) /\ UNCHANGED rows /\ b \in Browsers /\ HasConn(s)
    BY TypesOfParts DEF OnMessage, Deliver
  <1>3. CASE TopicOf(s) # News
    <2>1. News # Leaderboard /\ {News, Leaderboard} = Feeds
      BY FeedsAssumption DEF Feeds
    <2>2. query'[News] = query[News] /\ query' = [t \in Feeds |-> query'[t]]
      BY <1>1, <1>3, <2>1 DEF OnMessage, ReceiveBoard
    <2>3. QED
      BY <2>2, NewsStays
  <1>4. CASE TopicOf(s) = News
    <2>1. query' = [query EXCEPT ![News][b] = MergeNews(q, p)]
      BY <1>4, FeedsAssumption DEF OnMessage, ReceiveNews, Feeds
    <2>2. PICK k \in Conns : k = ConnOf(s) /\ TopicOfConn(k) = News
      BY <1>2, <1>4, ConnOfType DEF HubInv
    <2>3. s = <<News, b>>
      BY <1>4 DEF Sockets, TopicOf
    <2>4. conn[k] \in ConnRecs /\ Served(k) /\ Len(conn[k].frame) = 1
      BY <1>2, <2>2 DEF HubInv, HubTypeOK, Deliver, Served, ConnInv
    <2>5. p \in ToSet(conn[k].frame) /\ p \in Publications
      <3>1. PICK f \in Seq(Publications) : f = conn[k].frame
        BY <2>4, FlowsAreSeqs
      <3>2. 1 \in DOMAIN f
        BY <2>4, <3>1
      <3>3. QED
        BY <2>2, <3>1, <3>2, InSet
    <2>6. UnderWay(b) = ToSet(conn[k].frame) \cup ToSet(conn[k].queue)
      BY <1>2, <2>2, <2>3, <2>4 DEF UnderWay, Load
    <2>7. UnderWay(b)' = ToSet(conn[k].queue)
      <3>1. Load(ConnOf(s))' = ToSet(conn[k].queue)
        BY <1>2, <2>2, DeliverOrderly
      <3>2. sock' = sock
        BY <1>2 DEF Deliver
      <3>3. QED
        BY <1>2, <2>3, <3>1, <3>2 DEF UnderWay, HasConn
    <2>8. \A x \in ToSet(conn[k].queue) : p[2] < x[2]
      BY <2>2, <2>4, <2>5 DEF QueueInv, QueueOf, Sorted
    <2>9. /\ q \in NewsQueries /\ GoodNews(b, q.data) /\ GoodNews(b, q.answer)
      BY <1>2 DEF NewsInv
    <2> HIDE DEF p, b, q
    <2>10. PICK r \in NewsQueries :
              /\ r = MergeNews(q, p)
              /\ GoodNews(b, r.data)' /\ r.answer = q.answer
      <3>1. CASE q.loaded /\ p \notin ToSet(q.data)
        <4>1. PICK news \in Seq(Publications) : news = q.data
          BY <2>9 DEF NewsQueries
        <4>2. PICK x : x = p
          OBVIOUS
        <4>3. PICK more \in Seq(Publications) : more = <<x>> \o news
          <5>1. x \in Publications
            BY <2>5, <4>2
          <5>2. <<x>> \o news \in Seq(Publications)
            BY <5>1
          <5>3. QED
            BY <5>2
        <4>8. GoodNews(b, more)'
          <5>1. x \in UnderWay(b) /\ x \notin ToSet(news) /\ GoodNews(b, news)
            BY <2>5, <2>6, <2>9, <3>1, <4>1, <4>2
          <5>2. /\ UnderWay(b)' \subseteq UnderWay(b)
                /\ \A y \in UnderWay(b)' : x[2] < y[2]
            BY <2>6, <2>7, <2>8, <4>2
          <5>3. GoodNews(b, <<x>> \o news)'
            BY <1>2, <5>1, <5>2, MergedIsGood
          <5>4. QED
            BY <4>3, <5>3
        <4>4. MergeNews(q, p) = [q EXCEPT !.loaded = TRUE, !.data = more]
          BY <3>1, <4>1, <4>2, <4>3, Zenon DEF MergeNews, SetData
        <4>5. PICK r : r = [q EXCEPT !.loaded = TRUE, !.data = more]
          OBVIOUS
        <4>6. r \in NewsQueries /\ r.data = more /\ r.answer = q.answer
          BY <2>9, <4>5 DEF NewsQueries
        <4>7. QED
          BY <4>3, <4>4, <4>5, <4>6, <4>8
      <3>2. CASE ~(q.loaded /\ p \notin ToSet(q.data))
        <4>1. MergeNews(q, p) = q
          BY <3>2 DEF MergeNews
        <4>2. PICK r : r = q
          OBVIOUS
        <4>3. GoodNews(b, r.data)'
          BY <1>2, <2>9, <4>2, GoodNewsStays
        <4>4. QED
          BY <2>9, <4>1, <4>2, <4>3
      <3>3. QED
        BY <3>1, <3>2
    <2>11. GoodNews(b, r.answer)'
      <3>1. GoodNews(b, r.answer)
        BY <2>9, <2>10
      <3>2. QED
        BY <1>2, <3>1, GoodNewsStays
    <2>12. QED
      BY <1>2, <2>1, <2>10, <2>11, OneQueryKeeps
  <1>5. QED
    BY <1>3, <1>4

\* Every step keeps the lists newest first.
LEMMA FeedNextKeepsNews ==
    ASSUME FeedInv, PagesCoverFrames, [FeedNext]_allVars
    PROVE  NewsInv'
  <1>1. ASSUME UNCHANGED query
        PROVE  NewsInv'
    BY <1>1, NewsStays DEF FeedInv, NewsInv
  <1>2. ASSUME NEW p \in Publications, TradeHappens(p) \/ GenerateNews(p) \/ RefreshOnce(p)
        PROVE  UNCHANGED query
    BY <1>2 DEF TradeHappens, GenerateNews, RefreshOnce, feedVars
  <1>3. ASSUME NEW b \in Browsers, OpenPage(b) \/ ClosePage(b) \/ RunEffect(b)
        PROVE  UNCHANGED query
    BY <1>3 DEF OpenPage, ClosePage, RunEffect
  <1>4. CASE UNCHANGED allVars
    BY <1>1, <1>4 DEF allVars, feedVars
  <1>5. CASE FeedNext
    BY <1>1, <1>2, <1>3, <1>5, MessageKeepsNews, FetchKeepsNews DEF FeedNext, feedVars
  <1>6. QED
    BY <1>4, <1>5

\* The invariant holds initially.
LEMMA FeedBegins ==
    ASSUME FeedInit
    PROVE  FeedInv
  <1>1. HubInv
    BY HubBegins DEF FeedInit
  <1>2. RowsInv
    BY NewsRows DEF FeedInit, HubInit, RowsInv
  <1>3. QueueInv
    BY NewConns DEF FeedInit, HubInit, QueueInv, QueueOf, Served
  <1>4. NewsInv
    <2>1. /\ query = [t \in Feeds |-> query[t]]
          /\ query[News] = [b \in Browsers |-> Unloaded(News)]
      BY DEF FeedInit, Feeds
    <2>2. /\ Unloaded(News) \in NewsQueries
          /\ Unloaded(News).data = <<>> /\ Unloaded(News).answer = <<>>
      BY DEF Unloaded, Blank, NewsQueries
    <2>3. QED
      BY <2>1, <2>2, NoNewsIsGood DEF NewsInv
  <1>5. QED
    BY <1>1, <1>2, <1>3, <1>4 DEF FeedInv

\* As long as no frame is under way of a row that the pages fetched have lost, the
\* news a browser shows stay newest first and without duplicates, however fetches,
\* pushes, breaks and restarts interleave (setQueryData, ListNews).
THEOREM NewsStayInOrder == FeedSpec /\ []PagesCoverFrames => []NewsNewestFirst
  <1>1. FeedInit => FeedInv
    BY FeedBegins
  <1>2. FeedInv /\ PagesCoverFrames /\ [FeedNext]_allVars => FeedInv'
    BY FeedNextKeepsHub, RowsAreKept, QueuesAreKept, FeedNextKeepsNews DEF FeedInv
  <1>3. FeedInv => NewsNewestFirst
    BY DEF FeedInv, NewsInv, GoodNews, Descending, NewsNewestFirst
  <1>4. QED
    BY <1>1, <1>2, <1>3, PTL DEF FeedSpec

\* That is so when the pages are longer than the news there are.
LEMMA LongPagesCover ==
    ASSUME HubInv, RowsInv, \A limit \in NewsLimits : limit >= MaxPublications
    PROVE  PagesCoverFrames
  <1>1. ASSUME NEW b \in Browsers, NEW limit \in NewsLimits, NEW p \in UnderWay(b)
        PROVE  p[2] > Len(rows) - limit
    <2>1. p[2] \in 1..Len(rows) /\ Len(rows) \in 0..MaxPublications
      BY UnderWayHasRow, RowsOfNews DEF HubInv
    <2>2. limit \in Nat /\ limit >= MaxPublications /\ MaxPublications \in Nat
      BY FeedsAssumption, HubAssumption
    <2>3. PICK n \in 1..Len(rows) : n = p[2]
      BY <2>1
    <2>4. n > Len(rows) - limit
      BY <2>1, <2>2
    <2>5. QED
      BY <2>3, <2>4
  <1>2. QED
    BY <1>1 DEF PagesCoverFrames

\* So the news stay in order when the pages asked for are that long.
COROLLARY NewsStayInOrderOnLongPages ==
    ASSUME \A limit \in NewsLimits : limit >= MaxPublications
    PROVE  FeedSpec => []NewsNewestFirst
  <1>1. FeedInit => FeedInv
    BY FeedBegins
  <1>2. FeedInv /\ [FeedNext]_allVars => FeedInv'
    <2>1. FeedInv => PagesCoverFrames
      BY LongPagesCover DEF FeedInv
    <2>2. QED
      BY <2>1, FeedNextKeepsHub, RowsAreKept, QueuesAreKept, FeedNextKeepsNews DEF FeedInv
  <1>3. FeedInv => NewsNewestFirst
    BY DEF FeedInv, NewsInv, GoodNews, Descending, NewsNewestFirst
  <1>4. QED
    BY <1>1, <1>2, <1>3, PTL DEF FeedSpec
=============================================================================
