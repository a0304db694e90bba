------------------------------- MODULE Server -------------------------------
(***************************************************************************)
(* The life of the server's processes (backend/cmd/server/main.go): a      *)
(* process migrates the schema, starts its bots and loops, listens, serves *)
(* trades from a pool of connections, and on a signal drains its requests  *)
(* for a while, closes the pool and exits.  During a deploy two processes  *)
(* do so at once, on one database.                                         *)
(*                                                                         *)
(* What a trade does to the ledger's rows is left to module LedgerTx, what *)
(* its quest hook does to module Quests; here a request is known by the    *)
(* connection it holds and by how far it has come.                         *)
(***************************************************************************)
EXTENDS Integers, Sequences, FiniteSets

CONSTANTS Instances,      \* processes of the server
          Knows,          \* Knows[i]: the migrations embedded in i's binary
          OldVersion,     \* the schema's version to begin with
          Bots, Loops,    \* background jobs: the bots, and the tickers' loops
          Requests,       \* POST /api/trades/execute
          MaxConns,       \* connections of a pool
          Loads,          \* what a behaviour is about: instances, jobs, requests
          MaxStarts,      \* how often a process is started
          MaxFailures     \* statements, listeners and processes that may fail

Jobs   == Bots \cup Loops
Nobody == "nobody"

ASSUME ServerAssumption ==
    /\ Nobody \notin Instances
    /\ Knows \in [Instances -> Nat] /\ OldVersion \in Nat
    /\ Bots \cap Loops = {}
    /\ MaxConns \in Nat \ {0} /\ MaxStarts \in Nat /\ MaxFailures \in Nat
    /\ Loads \subseteq SUBSET (Instances \cup Jobs \cup Requests)

VARIABLES
    version, dirty,   \* the row of schema_migrations
    migrator,         \* the instance that has the advisory lock
    applied,          \* the migrations the schema has been through (auxiliary)
    phase,            \* phase[i]: where main() of instance i is
    signalled,        \* signalled[i]: its context is done
    listener,         \* listener[i]
    job,              \* job[i][j]: the goroutine of job j
    stage,            \* stage[r]: the step request r takes next
    at,               \* at[r]: the instance that serves it
    overdue,          \* requests that were active when the grace ran out
    denied,           \* requests that asked a closed pool for a connection (auxiliary)
    load,             \* what this behaviour is about
    starts, failures  \* counted for the bounds

schema == <<version, dirty, migrator, applied>>
calls  == <<stage, at, overdue, denied>>
vars   == <<schema, phase, signalled, listener, job, calls, load, starts, failures>>

Migrating == {"version", "mark", "body", "clean"}
Alive     == {"lock", "wire", "up", "draining", "closing"} \cup Migrating
Active    == {"reading", "asking", "trade", "traded", "hook", "answering"}

NoJobs == [j \in Jobs |-> "none"]

Init ==
    /\ version = OldVersion /\ dirty = FALSE /\ migrator = Nobody
    /\ applied = [v \in 1..OldVersion |-> v]
    /\ phase = [i \in Instances |-> "off"]
    /\ signalled = [i \in Instances |-> FALSE]
    /\ listener = [i \in Instances |-> "none"]
    /\ job = [i \in Instances |-> NoJobs]
    /\ stage = [r \in Requests |-> "new"]
    /\ at = [r \in Requests |-> Nobody]
    /\ overdue = {} /\ denied = {}
    /\ load \in Loads
    /\ starts = [i \in Instances |-> 0]
    /\ failures = 0

MayFail == failures < MaxFailures /\ failures' = failures + 1

Goto(i, p) == phase' = [phase EXCEPT ![i] = p]

\* What becomes of a process that ends, and of the requests it was serving.
End(i, p, fate) ==
    /\ Goto(i, p)
    /\ signalled' = [signalled EXCEPT ![i] = FALSE]
    /\ listener' = [listener EXCEPT ![i] = "none"]
    /\ job' = [job EXCEPT ![i] = NoJobs]
    /\ stage' = [r \in Requests |->
                    IF at[r] = i /\ stage[r] \in Active THEN fate ELSE stage[r]]
    /\ UNCHANGED <<at, overdue, denied>>

\* log.Fatalf, or a kill: no deferred call runs.  The database ends the session,
\* and with it the open transactions and the advisory lock.
Die(i) ==
    /\ End(i, "failed", "lost")
    /\ migrator' = IF migrator = i THEN Nobody ELSE migrator

-----------------------------------------------------------------------------
(* main(), up to the migrations.                                           *)

Start(i) ==
    /\ i \in load
    /\ phase[i] \in {"off", "failed"}
    /\ starts[i] < MaxStarts
    /\ starts' = [starts EXCEPT ![i] = @ + 1]
    /\ Goto(i, "lock")
    /\ UNCHANGED <<schema, signalled, listener, job, calls, load, failures>>

\* SIGINT or SIGTERM.
Signal(i) ==
    /\ phase[i] \in Alive /\ ~signalled[i]
    /\ signalled' = [signalled EXCEPT ![i] = TRUE]
    /\ UNCHANGED <<schema, phase, listener, job, calls, load, starts, failures>>

\* The advisory lock of the migrations is waited for, and given up on after a
\* while.
TakeLock(i) ==
    /\ phase[i] = "lock"
    /\ \/ /\ migrator = Nobody
          /\ migrator' = i
          /\ Goto(i, "version")
          /\ UNCHANGED <<signalled, listener, job, calls>>
       \/ /\ migrator # Nobody
          /\ Die(i)
    /\ UNCHANGED <<version, dirty, applied, load, starts, failures>>

\* A version the binary has no migration for is refused, as is a dirty one.
MayMigrate(i) == ~dirty /\ version <= Knows[i]

\* Mutant of AfterRefusal: the error is logged, and the server goes on.
GoOnUnmigrated(i) ==
    /\ Goto(i, "wire")
    /\ migrator' = Nobody
    /\ UNCHANGED <<signalled, listener, job, calls>>

\* "failed to apply migrations".
AfterRefusal(i) == Die(i)

ReadVersion(i) ==
    /\ phase[i] = "version"
    /\ IF ~MayMigrate(i) THEN AfterRefusal(i)
       ELSE /\ IF version = Knows[i]
               THEN Goto(i, "wire") /\ migrator' = Nobody
               ELSE Goto(i, "mark") /\ UNCHANGED migrator
            /\ UNCHANGED <<signalled, listener, job, calls>>
    /\ UNCHANGED <<version, dirty, applied, load, starts, failures>>

\* One migration: its version is written down as dirty, its file is run, all of
\* it or nothing, and the version is clean.
Mark(i) ==
    /\ phase[i] = "mark"
    /\ version' = version + 1 /\ dirty' = TRUE
    /\ Goto(i, "body")
    /\ UNCHANGED <<migrator, applied, signalled, listener, job, calls, load, starts, failures>>

RunBody(i) ==
    /\ phase[i] = "body"
    /\ \/ /\ applied' = Append(applied, version)
          /\ Goto(i, "clean")
          /\ UNCHANGED <<migrator, signalled, listener, job, calls, failures>>
       \/ /\ MayFail
          /\ AfterRefusal(i)
          /\ UNCHANGED applied
    /\ UNCHANGED <<version, dirty, load, starts>>

Clean(i) ==
    /\ phase[i] = "clean"
    /\ dirty' = FALSE
    /\ IF version = Knows[i]
       THEN Goto(i, "wire") /\ migrator' = Nobody
       ELSE Goto(i, "mark") /\ UNCHANGED migrator
    /\ UNCHANGED <<version, applied, signalled, listener, job, calls, load, starts, failures>>

-----------------------------------------------------------------------------
(* main(), from the pool to the listener.                                  *)

\* bots.Run looks every bot's user up, and leaves out for good whom it does not
\* find, be it that the context is done by then.
BotsFound(i) ==
    IF signalled[i] THEN {{}} ELSE {Bots} \cup {Bots \ {b} : b \in Bots}

\* A bot waits before its first tick; a loop begins with one.
StartJobs(i) ==
    /\ phase[i] = "wire"
    /\ \E found \in BotsFound(i) :
          /\ job' = [job EXCEPT ![i] = [j \in Jobs |->
                        IF j \notin load THEN "none"
                        ELSE IF j \in Loops THEN "asking"
                        ELSE IF j \in found THEN "waiting" ELSE "none"]]
          /\ IF found = Bots \/ signalled[i] THEN UNCHANGED failures ELSE MayFail
    /\ listener' = [listener EXCEPT ![i] = "starting"]
    /\ Goto(i, "up")
    /\ UNCHANGED <<schema, signalled, calls, load, starts>>

\* ListenAndServe, in a goroutine of its own: after a Shutdown it returns at once;
\* if it fails, so does the process, with its jobs at work.
Listen(i) ==
    /\ listener[i] = "starting"
    /\ \/ /\ listener' = [listener EXCEPT ![i] =
                             IF phase[i] = "up" THEN "open" ELSE "closed"]
          /\ UNCHANGED <<migrator, phase, signalled, job, calls, failures>>
       \/ /\ phase[i] = "up"
          /\ MayFail
          /\ Die(i)
    /\ UNCHANGED <<version, dirty, applied, load, starts>>

-----------------------------------------------------------------------------
(* main(), after the signal.                                               *)

ActiveAt(i) == {r \in Requests : at[r] = i /\ stage[r] \in Active}

\* srv.Shutdown closes the listener and waits for the requests.
Shutdown(i) ==
    /\ phase[i] = "up" /\ signalled[i]
    /\ listener' = [listener EXCEPT ![i] = IF @ = "open" THEN "closed" ELSE @]
    /\ Goto(i, "draining")
    /\ UNCHANGED <<schema, signalled, job, calls, load, starts, failures>>

\* Mutant of Drained: nobody waits for the requests.
NotDrained(i) == TRUE

Drained(i) == ActiveAt(i) = {}

\* Mutant of GraceMayEnd: Shutdown with a context that has no deadline.
NoGrace(i) == FALSE

\* The grace of ten seconds may run out with requests still active.
GraceMayEnd(i) == ActiveAt(i) # {}

LeaveShutdown(i) ==
    /\ phase[i] = "draining"
    /\ \/ Drained(i) /\ UNCHANGED overdue
       \/ GraceMayEnd(i) /\ overdue' = overdue \cup ActiveAt(i)
    /\ Goto(i, "closing")
    /\ UNCHANGED <<schema, signalled, listener, job, stage, at, denied, load,
                   starts, failures>>

\* Mutant of HoldsConn: the trade's connection is kept until the hook is through.
KeepsConn(r) == stage[r] \in {"trade", "traded", "hook"}

\* A request holds a connection while a transaction of its is open, and never
\* waits for a second one meanwhile.
HoldsConn(r) == stage[r] \in {"trade", "hook"}

InUse(i) ==
    Cardinality({r \in Requests : at[r] = i /\ HoldsConn(r)})
        + Cardinality({j \in Jobs : job[i][j] = "working"})

\* The deferred pool.Close waits for the connections, and main returns.
Exit(i) ==
    /\ phase[i] = "closing"
    /\ InUse(i) = 0
    /\ End(i, "exited", "cut")
    /\ UNCHANGED <<schema, load, starts, failures>>

Crash(i) ==
    /\ phase[i] \in Alive
    /\ MayFail
    /\ Die(i)
    /\ UNCHANGED <<version, dirty, applied, load, starts>>

-----------------------------------------------------------------------------
(* Requests to trade.                                                      *)

MoveRequest(r, s) ==
    /\ stage' = [stage EXCEPT ![r] = s]
    /\ UNCHANGED <<schema, phase, signalled, listener, job, overdue, load, starts, failures>>

PoolOpen(i) == phase[i] # "closing"

\* A pool's connections are handed out in the order they were asked for.
ConnFree(i) == PoolOpen(i) /\ InUse(i) < MaxConns

Accept(r, i) ==
    /\ r \in load
    /\ stage[r] = "new" /\ listener[i] = "open"
    /\ at' = [at EXCEPT ![r] = i]
    /\ MoveRequest(r, "reading")
    /\ UNCHANGED denied

\* The body comes when the client sends it: the server sets no timeout.  One that
\* breaks off, or is no trade, is answered at once.
ReadBody(r) ==
    /\ stage[r] = "reading"
    /\ \/ MoveRequest(r, "asking")
       \/ MoveRequest(r, "answering")
    /\ UNCHANGED <<at, denied>>

GetConn(r) ==
    /\ stage[r] \in {"asking", "traded"}
    /\ ConnFree(at[r])
    /\ MoveRequest(r, IF stage[r] = "asking" THEN "trade" ELSE "hook")
    /\ UNCHANGED <<at, denied>>

\* Its client has gone, and the context with it, or the database cannot be
\* reached: the trade fails, or the hook does, which is only logged.
GiveUp(r) ==
    /\ stage[r] \in {"asking", "traded"}
    /\ MoveRequest(r, "answering")
    /\ UNCHANGED <<at, denied>>

\* The pool is closed: the same.
PoolIsClosed(r) ==
    /\ stage[r] \in {"asking", "traded"}
    /\ ~PoolOpen(at[r])
    /\ denied' = denied \cup {r}
    /\ MoveRequest(r, "answering")
    /\ UNCHANGED at

\* Committed, and its hook is next; or rejected, failed, or committed without the
\* server hearing of it, and there is no hook.
EndTrade(r) ==
    /\ stage[r] = "trade"
    /\ \/ MoveRequest(r, "traded")
       \/ MoveRequest(r, "answering")
    /\ UNCHANGED <<at, denied>>

\* Committed, or failed and logged: the trade is answered with success either way.
EndHook(r) ==
    /\ stage[r] = "hook"
    /\ MoveRequest(r, "answering")
    /\ UNCHANGED <<at, denied>>

Answer(r) ==
    /\ stage[r] = "answering"
    /\ MoveRequest(r, "answered")
    /\ UNCHANGED <<at, denied>>

-----------------------------------------------------------------------------
(* Background jobs.                                                        *)

MoveJob(i, j, s) ==
    /\ job' = [job EXCEPT ![i][j] = s]
    /\ UNCHANGED <<schema, phase, signalled, listener, calls, load, starts>>

\* The ticker fires, even when the context is done as well.
JobTick(i, j) ==
    /\ job[i][j] = "waiting"
    /\ MoveJob(i, j, "asking")
    /\ UNCHANGED failures

JobConn(i, j) ==
    /\ job[i][j] = "asking"
    /\ ConnFree(i) /\ ~signalled[i]
    /\ MoveJob(i, j, "working")
    /\ UNCHANGED failures

\* The tick is over, be it that its context was cancelled or the pool closed.
JobDone(i, j) ==
    /\ \/ job[i][j] = "working"
       \/ job[i][j] = "asking" /\ (signalled[i] \/ ~PoolOpen(i))
    /\ MoveJob(i, j, "waiting")
    /\ UNCHANGED failures

\* Mutant of AfterPanic: the panic is recovered from around the loop.
LoopEnds == "stopped"

\* Every tick recovers from its own panics; its connection is given back.
AfterPanic == "waiting"

JobPanic(i, j) ==
    /\ job[i][j] \in {"asking", "working"}
    /\ MayFail
    /\ MoveJob(i, j, AfterPanic)

JobStop(i, j) ==
    /\ job[i][j] = "waiting" /\ signalled[i]
    /\ MoveJob(i, j, "stopped")
    /\ UNCHANGED failures

-----------------------------------------------------------------------------
Boot(i)    == TakeLock(i) \/ ReadVersion(i) \/ Mark(i) \/ RunBody(i) \/ Clean(i) \/ StartJobs(i)
StopStep(i) == Shutdown(i) \/ LeaveShutdown(i) \/ Exit(i)

RequestStep(r) == PoolIsClosed(r) \/ EndTrade(r) \/ EndHook(r) \/ Answer(r)

JobStep(i, j) == JobTick(i, j) \/ JobDone(i, j)

Next ==
    \/ \E i \in Instances :
          \/ Start(i) \/ Signal(i) \/ Boot(i) \/ Listen(i) \/ StopStep(i) \/ Crash(i)
          \/ \E j \in Jobs : JobStep(i, j) \/ JobConn(i, j) \/ JobPanic(i, j) \/ JobStop(i, j)
          \/ \E r \in Requests : Accept(r, i)
    \/ \E r \in Requests : ReadBody(r) \/ GetConn(r) \/ GiveUp(r) \/ RequestStep(r)

Spec == Init /\ [][Next]_vars

\* Goroutines run on; a free connection goes to who has waited longest.  Nothing
\* makes a process start, a signal come, or a client send its body or go away.
FairSpec ==
    /\ Spec
    /\ \A i \in Instances :
          /\ WF_vars(Boot(i)) /\ WF_vars(Listen(i)) /\ WF_vars(StopStep(i))
          /\ \A j \in Jobs : WF_vars(JobStep(i, j)) /\ SF_vars(JobConn(i, j))
    /\ \A r \in Requests : WF_vars(RequestStep(r)) /\ SF_vars(GetConn(r))

-----------------------------------------------------------------------------
(* Correctness.                                                            *)

Types ==
    /\ version \in Nat /\ applied \in Seq(Nat)
    /\ migrator \in Instances \cup {Nobody}
    /\ phase \in [Instances -> Alive \cup {"off", "exited", "failed"}]
    /\ listener \in [Instances -> {"none", "starting", "open", "closed"}]
    /\ job \in [Instances -> [Jobs -> {"none", "waiting", "asking", "working", "stopped"}]]
    /\ stage \in [Requests -> Active \cup {"new", "answered", "cut", "lost"}]
    /\ at \in [Requests -> Instances \cup {Nobody}]
    /\ overdue \subseteq Requests /\ denied \subseteq Requests

TypeOK == Types /\ dirty \in BOOLEAN /\ signalled \in [Instances -> BOOLEAN]

\* Whoever serves requests or works in the background does so on a schema that
\* has been through all the migrations of its binary, each one once and in order,
\* whoever else migrates, fails or crashes meanwhile (migrate.Up, "before the
\* server accepts any request").
ServesMigratedSchema ==
    \A i \in Instances :
        listener[i] = "open" \/ (\E j \in Jobs : job[i][j] = "working") =>
            /\ Knows[i] <= Len(applied)
            /\ \A v \in DOMAIN applied : applied[v] = v

\* The end of a process costs a request nothing unless the grace ran out on it
\* (srv.Shutdown before the deferred pool.Close): it is not cut off, and the pool
\* is not closed before its trade or its hook has asked for a connection.  What
\* fails for other reasons is left out: the hook may, and the trade stays uncounted.
GraceIsEnough ==
    \A r \in Requests \ overdue : stage[r] # "cut" /\ r \notin denied

\* A process that gets a signal ends, whatever its clients, its jobs and the
\* other process do.
SignalledEnds == \A i \in Instances : signalled[i] ~> ~signalled[i]

\* A request that wants a connection is through in the end: no request waits for
\* a connection while it keeps one from others, however small the pool is.
RequestsGetThrough ==
    \A r \in Requests : stage[r] = "asking" ~> stage[r] \in {"answered", "cut", "lost"}

\* The jobs that were started go on ticking, panic or not, until their process is
\* told to stop (safety.Recover).
JobsOutlivePanics ==
    \A i \in Instances : \A j \in Jobs :
        []<>(phase[i] # "up" \/ signalled[i] \/ job[i][j] \in {"none", "working"})
=============================================================================
