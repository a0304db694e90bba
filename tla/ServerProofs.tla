---------------------------- MODULE ServerProofs ----------------------------
(***************************************************************************)
(* Proofs about module Server: however many instances, migrations, jobs,   *)
(* requests, starts and failures there are, nobody serves on a schema its  *)
(* binary does not expect, and a stop costs only requests that the grace   *)
(* ran out on.                                                             *)
(***************************************************************************)
EXTENDS Server, TLAPS

-----------------------------------------------------------------------------
(* The inductive invariant.                                                *)

\* The phases in which an instance has its jobs and its listener.
Serving == {"up", "draining", "closing"}

\* The instance that migrates is the one with the lock, and what has been applied
\* is the version, short of the migration it is about to run; a mark left behind
\* by a crash stays, and lets nobody migrate.
SchemaInv ==
    /\ \A i \in Instances : phase[i] \in Migrating => migrator = i
    /\ \A v \in DOMAIN applied : applied[v] = v
    /\ ~dirty => Len(applied) = version
    /\ \A i \in Instances :
          /\ phase[i] = "mark" => ~dirty
          /\ phase[i] = "body" => dirty /\ version = Len(applied) + 1
          /\ phase[i] = "clean" => Len(applied) = version

\* Whoever is past the migrations has all of them.
KnownInv ==
    \A i \in Instances :
        phase[i] \in Serving \cup {"wire"} => Knows[i] <= Len(applied)

\* Jobs, listeners and requests are those of an instance that serves; only one
\* that has not been told to stop accepts.
WorkInv ==
    /\ \A i \in Instances :
          /\ listener[i] # "none" => phase[i] \in Serving
          /\ listener[i] = "open" => phase[i] = "up"
          /\ \A j \in Jobs : job[i][j] # "none" => phase[i] \in Serving
    /\ \A r \in Requests :
          stage[r] \in Active => at[r] \in Instances /\ phase[at[r]] \in Serving

\* While a request whose grace has not run out is active, the pool of its instance
\* is open: so nobody denies it a connection, and it outlives the process's end.
RequestInv ==
    \A r \in Requests \ overdue :
        /\ stage[r] # "cut"
        /\ stage[r] \in Active => phase[at[r]] # "closing"
        /\ r \notin denied

Inv == Types /\ SchemaInv /\ KnownInv /\ WorkInv /\ RequestInv

-----------------------------------------------------------------------------
(* What a process that dies leaves behind.                                 *)

\* The types hold after a process died.
LEMMA DieTypes ==
    ASSUME Types, NEW i \in Instances, Die(i), UNCHANGED <<version, applied>>
    PROVE  Types'
BY DEF Types, Alive, Migrating, Die, End, NoJobs, Goto

\* The lock is given back, and the schema stays as it was left, marked or not.
LEMMA DieSchema ==
    ASSUME Types, SchemaInv, NEW i \in Instances, Die(i),
           UNCHANGED <<version, dirty, applied>>
    PROVE  SchemaInv'
BY DEF Types, SchemaInv, Migrating, Die, End, NoJobs, Goto

\* The others have the migrations they had.
LEMMA DieKnown ==
    ASSUME Types, KnownInv, NEW i \in Instances, Die(i), UNCHANGED applied
    PROVE  KnownInv'
BY DEF Types, KnownInv, Serving, Die, End, NoJobs, Goto

\* Its jobs, its listener and its requests are gone with it.
LEMMA DieWork ==
    ASSUME Types, WorkInv, NEW i \in Instances, Die(i)
    PROVE  WorkInv'
BY DEF Types, WorkInv, Active, Serving, Die, End, NoJobs, Goto

\* Its requests are lost, and not cut off.
LEMMA DieRequest ==
    ASSUME Types, WorkInv, RequestInv, NEW i \in Instances, Die(i)
    PROVE  RequestInv'
BY DEF Types, WorkInv, RequestInv, Active, Serving, Die, End, NoJobs, Goto

\* Who moves on without its jobs and requests has none of them, or serves before
\* and after.
LEMMA MoveWork ==
    ASSUME Types, WorkInv, NEW i \in Instances, NEW p, Goto(i, p),
           phase[i] \in Serving => p \in Serving,
           \A k \in Instances :
              /\ listener'[k] # "none" => listener[k] # "none"
              /\ listener'[k] = "open" => listener[k] = "open"
              /\ listener'[k] = "open" => k # i \/ p = "up" \/ phase[i] \notin Serving,
           UNCHANGED <<job, stage, at>>
    PROVE  WorkInv'
BY DEF Types, WorkInv, Serving, Goto

-----------------------------------------------------------------------------
(* Every step keeps the invariant.                                         *)

\* Every step keeps the types.
LEMMA TypeStep ==
    ASSUME Types, [Next]_vars
    PROVE  Types'
<1>1. ASSUME NEW i \in Instances, Start(i) PROVE Types'
    BY <1>1 DEF Types, Alive, Migrating, schema, calls, Active, Start, Goto
<1>2. ASSUME NEW i \in Instances, Signal(i) PROVE Types'
    BY <1>2 DEF Types, Alive, Migrating, schema, calls, Active, Signal
<1>3. ASSUME NEW i \in Instances, TakeLock(i) PROVE Types'
    <2>1. CASE Die(i)
        BY <1>3, <2>1, DieTypes DEF TakeLock, Goto
    <2>2. CASE ~Die(i)
        BY <1>3, <2>2 DEF Types, Alive, Migrating, schema, calls, Active,
           TakeLock, Goto
    <2>. QED
        BY <2>1, <2>2
<1>4. ASSUME NEW i \in Instances, ReadVersion(i) PROVE Types'
    <2>1. CASE Die(i)
        BY <1>4, <2>1, DieTypes DEF ReadVersion, Goto, AfterRefusal
    <2>2. CASE ~Die(i)
        BY <1>4, <2>2 DEF Types, Alive, Migrating, schema, calls, Active,
           ReadVersion, Goto, AfterRefusal
    <2>. QED
        BY <2>1, <2>2
<1>5. ASSUME NEW i \in Instances, Mark(i) PROVE Types'
    BY <1>5 DEF Types, Alive, Migrating, schema, calls, Active, Mark, Goto
<1>6. ASSUME NEW i \in Instances, RunBody(i) PROVE Types'
    <2>1. CASE applied' = Append(applied, version) /\ Goto(i, "clean")
              /\ UNCHANGED <<migrator, signalled, listener, job, calls>>
        BY <1>6, <2>1 DEF RunBody, Types, Alive, Migrating, calls, Goto
    <2>2. CASE Die(i) /\ UNCHANGED applied
        BY <1>6, <2>2, DieTypes DEF RunBody
    <2>. QED
        BY <1>6, <2>1, <2>2 DEF RunBody, AfterRefusal
<1>7. ASSUME NEW i \in Instances, Clean(i) PROVE Types'
    BY <1>7 DEF Types, Alive, Migrating, schema, calls, Active, Clean, Goto
<1>8. ASSUME NEW i \in Instances, StartJobs(i) PROVE Types'
    BY <1>8 DEF Types, Alive, Migrating, schema, calls, Active, StartJobs, Goto
<1>9. ASSUME NEW i \in Instances, Listen(i) PROVE Types'
    <2>1. CASE Die(i)
        BY <1>9, <2>1, DieTypes DEF Listen
    <2>2. CASE ~Die(i)
        BY <1>9, <2>2 DEF Types, Alive, Migrating, schema, calls, Active, Listen
    <2>. QED
        BY <2>1, <2>2
<1>10. ASSUME NEW i \in Instances, Shutdown(i) PROVE Types'
    BY <1>10 DEF Types, Alive, Migrating, schema, calls, Active, Shutdown, Goto
<1>11. ASSUME NEW i \in Instances, LeaveShutdown(i) PROVE Types'
    BY <1>11 DEF Types, Alive, Migrating, schema, calls, Active,
       LeaveShutdown, Goto, Drained, GraceMayEnd, ActiveAt
<1>12. ASSUME NEW i \in Instances, Exit(i) PROVE Types'
    BY <1>12 DEF Types, Alive, Migrating, schema, calls, Active, Exit, End,
       NoJobs, Goto
<1>13. ASSUME NEW i \in Instances, Crash(i) PROVE Types'
    BY <1>13, DieTypes DEF Crash, schema
<1>14. ASSUME NEW i \in Instances, NEW j \in Jobs, JobTick(i, j) PROVE Types'
    BY <1>14 DEF Types, Alive, Migrating, schema, calls, Active, JobTick,
       MoveJob
<1>15. ASSUME NEW i \in Instances, NEW j \in Jobs, JobDone(i, j) PROVE Types'
    BY <1>15 DEF Types, Alive, Migrating, schema, calls, Active, JobDone,
       MoveJob
<1>16. ASSUME NEW i \in Instances, NEW j \in Jobs, JobConn(i, j) PROVE Types'
    BY <1>16 DEF Types, Alive, Migrating, schema, calls, Active, JobConn,
       MoveJob
<1>17. ASSUME NEW i \in Instances, NEW j \in Jobs, JobPanic(i, j) PROVE Types'
    BY <1>17 DEF Types, Alive, Migrating, schema, calls, Active, JobPanic,
       MoveJob, AfterPanic
<1>18. ASSUME NEW i \in Instances, NEW j \in Jobs, JobStop(i, j) PROVE Types'
    BY <1>18 DEF Types, Alive, Migrating, schema, calls, Active, JobStop,
       MoveJob
<1>19. ASSUME NEW i \in Instances, NEW r \in Requests, Accept(r, i) PROVE Types'
    BY <1>19 DEF Types, Alive, Migrating, schema, calls, Active, Accept,
       MoveRequest
<1>20. ASSUME NEW r \in Requests, ReadBody(r) \/ GetConn(r) \/ GiveUp(r) \/ RequestStep(r)
      PROVE Types'
    BY <1>20 DEF Types, Alive, Migrating, schema, calls, Active, RequestStep,
       ReadBody, GetConn, GiveUp, PoolIsClosed, EndTrade,
        EndHook, Answer, MoveRequest
<1>21. CASE UNCHANGED vars
    BY <1>21 DEF Types, Alive, Migrating, schema, calls, Active, vars
<1>. QED
    BY <1>1, <1>2, <1>3, <1>4, <1>5, <1>6, <1>7, <1>8, <1>9, <1>10, <1>11, <1>12, <1>13,
       <1>14, <1>15, <1>16, <1>17, <1>18, <1>19, <1>20, <1>21
    DEF Next, Boot, StopStep, JobStep, RequestStep

\* Every step keeps the schema in order.
LEMMA SchemaStep ==
    ASSUME Types, SchemaInv, [Next]_vars
    PROVE  SchemaInv'
<1>1. ASSUME NEW i \in Instances, Start(i) PROVE SchemaInv'
    BY <1>1 DEF SchemaInv, Types, Migrating, schema, Start, Goto
<1>2. ASSUME NEW i \in Instances, Signal(i) PROVE SchemaInv'
    BY <1>2 DEF SchemaInv, Types, Migrating, schema, Signal
<1>3. ASSUME NEW i \in Instances, TakeLock(i) PROVE SchemaInv'
    <2>1. CASE Die(i)
        BY <1>3, <2>1, DieSchema DEF TakeLock, Goto
    <2>2. CASE ~Die(i)
        BY <1>3, <2>2, ServerAssumption DEF SchemaInv, Types, Migrating, schema, TakeLock,
           Goto
    <2>. QED
        BY <2>1, <2>2
<1>4. ASSUME NEW i \in Instances, ReadVersion(i) PROVE SchemaInv'
    <2>1. CASE Die(i)
        BY <1>4, <2>1, DieSchema DEF ReadVersion, Goto, AfterRefusal, MayMigrate
    <2>2. CASE ~Die(i)
        BY <1>4, <2>2 DEF SchemaInv, Types, Migrating, schema, ReadVersion, Goto,
           AfterRefusal, MayMigrate
    <2>. QED
        BY <2>1, <2>2
<1>5. ASSUME NEW i \in Instances, Mark(i) PROVE SchemaInv'
    BY <1>5 DEF SchemaInv, Types, Migrating, schema, Mark, Goto
<1>6. ASSUME NEW i \in Instances, RunBody(i) PROVE SchemaInv'
    <2>1. CASE applied' = Append(applied, version) /\ Goto(i, "clean")
              /\ UNCHANGED <<migrator, signalled, listener, job, calls>>
        BY <1>6, <2>1 DEF RunBody, Types, SchemaInv, Migrating, Goto
    <2>2. CASE Die(i) /\ UNCHANGED applied
        BY <1>6, <2>2, DieSchema DEF RunBody
    <2>. QED
        BY <1>6, <2>1, <2>2 DEF RunBody, AfterRefusal
<1>7. ASSUME NEW i \in Instances, Clean(i) PROVE SchemaInv'
    BY <1>7 DEF SchemaInv, Types, Migrating, schema, Clean, Goto
<1>8. ASSUME NEW i \in Instances, StartJobs(i) PROVE SchemaInv'
    BY <1>8 DEF SchemaInv, Types, Migrating, schema, StartJobs, Goto
<1>9. ASSUME NEW i \in Instances, Listen(i) PROVE SchemaInv'
    <2>1. CASE Die(i)
        BY <1>9, <2>1, DieSchema DEF Listen
    <2>2. CASE ~Die(i)
        BY <1>9, <2>2 DEF SchemaInv, Types, Migrating, schema, Listen
    <2>. QED
        BY <2>1, <2>2
<1>10. ASSUME NEW i \in Instances, Shutdown(i) PROVE SchemaInv'
    BY <1>10 DEF SchemaInv, Types, Migrating, schema, Shutdown, Goto
<1>11. ASSUME NEW i \in Instances, LeaveShutdown(i) PROVE SchemaInv'
    BY <1>11 DEF SchemaInv, Types, Migrating, schema, LeaveShutdown, Goto, Drained,
       GraceMayEnd, ActiveAt
<1>12. ASSUME NEW i \in Instances, Exit(i) PROVE SchemaInv'
    BY <1>12 DEF SchemaInv, Types, Migrating, schema, Exit, End, NoJobs, Goto
<1>13. ASSUME NEW i \in Instances, Crash(i) PROVE SchemaInv'
    BY <1>13, DieSchema DEF Crash, schema
<1>14. ASSUME NEW i \in Instances, NEW j \in Jobs, JobStep(i, j) \/ JobConn(i, j) \/
   JobPanic(i, j) \/ JobStop(i, j)
      PROVE SchemaInv'
    BY <1>14 DEF SchemaInv, Types, Migrating, schema, JobStep, JobTick, JobDone, JobConn,
       JobPanic, JobStop, MoveJob
<1>15. ASSUME NEW i \in Instances, NEW r \in Requests, Accept(r, i) PROVE SchemaInv'
    BY <1>15 DEF SchemaInv, Types, Migrating, schema, Accept, MoveRequest
<1>16. ASSUME NEW r \in Requests, ReadBody(r) \/ GetConn(r) \/ GiveUp(r) \/ RequestStep(r)
      PROVE SchemaInv'
    BY <1>16 DEF SchemaInv, Types, Migrating, schema, RequestStep, ReadBody,
       GetConn, GiveUp, PoolIsClosed, EndTrade, EndHook, Answer, MoveRequest
<1>17. CASE UNCHANGED vars
    BY <1>17 DEF SchemaInv, Types, Migrating, schema, vars
<1>. QED
    BY <1>1, <1>2, <1>3, <1>4, <1>5, <1>6, <1>7, <1>8, <1>9, <1>10, <1>11, <1>12, <1>13,
       <1>14, <1>15, <1>16, <1>17
    DEF Next, Boot, StopStep, JobStep, RequestStep

\* No step leads past the migrations with one of them missing.
LEMMA KnownStep ==
    ASSUME Types, SchemaInv, KnownInv, [Next]_vars
    PROVE  KnownInv'
<1>1. ASSUME NEW i \in Instances, Start(i) PROVE KnownInv'
    BY <1>1 DEF KnownInv, Types, SchemaInv, Serving, schema, Migrating, Start, Goto
<1>2. ASSUME NEW i \in Instances, Signal(i) PROVE KnownInv'
    BY <1>2 DEF KnownInv, Types, SchemaInv, Serving, schema, Migrating, Signal
<1>3. ASSUME NEW i \in Instances, TakeLock(i) PROVE KnownInv'
    <2>1. CASE Die(i)
        BY <1>3, <2>1, DieKnown DEF TakeLock, Goto
    <2>2. CASE ~Die(i)
        BY <1>3, <2>2 DEF KnownInv, Types, SchemaInv, Serving, schema, Migrating,
           TakeLock, Goto
    <2>. QED
        BY <2>1, <2>2
<1>4. ASSUME NEW i \in Instances, ReadVersion(i) PROVE KnownInv'
    <2>1. CASE Die(i)
        BY <1>4, <2>1, DieKnown DEF ReadVersion, Goto, AfterRefusal, MayMigrate
    <2>2. CASE ~Die(i)
        BY <1>4, <2>2 DEF KnownInv, Types, SchemaInv, Serving, schema, Migrating,
           ReadVersion, Goto, AfterRefusal, MayMigrate
    <2>. QED
        BY <2>1, <2>2
<1>5. ASSUME NEW i \in Instances, Mark(i) PROVE KnownInv'
    BY <1>5 DEF KnownInv, Types, SchemaInv, Serving, schema, Migrating, Mark, Goto
<1>6. ASSUME NEW i \in Instances, RunBody(i) PROVE KnownInv'
    <2>1. CASE applied' = Append(applied, version) /\ Goto(i, "clean")
        <3>1. Len(applied') = Len(applied) + 1 /\ Len(applied) \in Nat
            BY <2>1 DEF Types
        <3>2. \A k \in Instances : Knows[k] \in Nat
            BY ServerAssumption DEF ServerAssumption
        <3>3. \A k \in Instances :
                  phase'[k] \in Serving \cup {"wire"} => phase[k] \in Serving \cup {"wire"}
            BY <2>1 DEF Types, Serving, Goto
        <3>. QED
            BY <3>1, <3>2, <3>3 DEF KnownInv
    <2>2. CASE Die(i) /\ UNCHANGED applied
        BY <1>6, <2>2, DieKnown
    <2>. QED
        BY <1>6, <2>1, <2>2 DEF RunBody, AfterRefusal
<1>7. ASSUME NEW i \in Instances, Clean(i) PROVE KnownInv'
    BY <1>7 DEF KnownInv, Types, SchemaInv, Serving, schema, Migrating, Clean, Goto
<1>8. ASSUME NEW i \in Instances, StartJobs(i) PROVE KnownInv'
    BY <1>8 DEF KnownInv, Types, SchemaInv, Serving, schema, Migrating, StartJobs, Goto
<1>9. ASSUME NEW i \in Instances, Listen(i) PROVE KnownInv'
    <2>1. CASE Die(i)
        BY <1>9, <2>1, DieKnown DEF Listen
    <2>2. CASE ~Die(i)
        BY <1>9, <2>2 DEF KnownInv, Types, SchemaInv, Serving, schema, Migrating, Listen
    <2>. QED
        BY <2>1, <2>2
<1>10. ASSUME NEW i \in Instances, Shutdown(i) PROVE KnownInv'
    BY <1>10 DEF KnownInv, Types, SchemaInv, Serving, schema, Migrating, Shutdown, Goto
<1>11. ASSUME NEW i \in Instances, LeaveShutdown(i) PROVE KnownInv'
    BY <1>11 DEF KnownInv, Types, SchemaInv, Serving, schema, Migrating, LeaveShutdown,
       Goto, Drained, GraceMayEnd, ActiveAt
<1>12. ASSUME NEW i \in Instances, Exit(i) PROVE KnownInv'
    BY <1>12 DEF KnownInv, Types, SchemaInv, Serving, schema, Migrating, Exit, End,
       NoJobs, Goto
<1>13. ASSUME NEW i \in Instances, Crash(i) PROVE KnownInv'
    BY <1>13, DieKnown DEF Crash, schema
<1>14. ASSUME NEW i \in Instances, NEW j \in Jobs, JobStep(i, j) \/ JobConn(i, j) \/
   JobPanic(i, j) \/ JobStop(i, j)
      PROVE KnownInv'
    BY <1>14 DEF KnownInv, Types, SchemaInv, Serving, schema, Migrating, JobStep, JobTick,
       JobDone, JobConn, JobPanic, JobStop, MoveJob
<1>15. ASSUME NEW i \in Instances, NEW r \in Requests, Accept(r, i) PROVE KnownInv'
    BY <1>15 DEF KnownInv, Types, SchemaInv, Serving, schema, Migrating, Accept, MoveRequest
<1>16. ASSUME NEW r \in Requests, ReadBody(r) \/ GetConn(r) \/ GiveUp(r) \/ RequestStep(r)
      PROVE KnownInv'
    BY <1>16 DEF KnownInv, Types, SchemaInv, Serving, schema, Migrating, RequestStep,
       ReadBody, GetConn, GiveUp, PoolIsClosed, EndTrade,
        EndHook, Answer, MoveRequest
<1>17. CASE UNCHANGED vars
    BY <1>17 DEF KnownInv, Types, SchemaInv, Serving, schema, Migrating, vars
<1>. QED
    BY <1>1, <1>2, <1>3, <1>4, <1>5, <1>6, <1>7, <1>8, <1>9, <1>10, <1>11, <1>12, <1>13,
       <1>14, <1>15, <1>16, <1>17
    DEF Next, Boot, StopStep, JobStep, RequestStep

\* Every step leaves work to those who serve.
LEMMA WorkStep ==
    ASSUME Types, WorkInv, [Next]_vars
    PROVE  WorkInv'
<1>1. ASSUME NEW i \in Instances, Start(i) PROVE WorkInv'
    BY <1>1 DEF WorkInv, Types, Serving, calls, Active, Start, Goto
<1>2. ASSUME NEW i \in Instances, Signal(i) PROVE WorkInv'
    BY <1>2 DEF WorkInv, Types, Serving, calls, Active, Signal
<1>3. ASSUME NEW i \in Instances, TakeLock(i) PROVE WorkInv'
    <2>1. CASE Die(i)
        BY <1>3, <2>1, DieWork
    <2>2. CASE Goto(i, "version") /\ UNCHANGED <<listener, job, calls>>
        BY <1>3, <2>2, MoveWork DEF TakeLock, Serving, calls
    <2>. QED
        BY <1>3, <2>1, <2>2 DEF TakeLock
<1>4. ASSUME NEW i \in Instances, ReadVersion(i) PROVE WorkInv'
    <2>1. CASE Die(i)
        BY <1>4, <2>1, DieWork
    <2>2. CASE UNCHANGED <<listener, job, calls>> /\ (Goto(i, "wire") \/ Goto(i, "mark"))
        BY <1>4, <2>2, MoveWork DEF ReadVersion, Serving, calls
    <2>. QED
        BY <1>4, <2>1, <2>2 DEF ReadVersion, AfterRefusal
<1>5. ASSUME NEW i \in Instances, Mark(i) PROVE WorkInv'
    BY <1>5 DEF WorkInv, Types, Serving, calls, Active, Mark, Goto
<1>6. ASSUME NEW i \in Instances, RunBody(i) PROVE WorkInv'
    <2>1. CASE applied' = Append(applied, version) /\ Goto(i, "clean")
              /\ UNCHANGED <<migrator, signalled, listener, job, calls>>
        BY <1>6, <2>1, MoveWork DEF RunBody, Serving, calls
    <2>2. CASE Die(i) /\ UNCHANGED applied
        BY <1>6, <2>2, DieWork DEF RunBody
    <2>. QED
        BY <1>6, <2>1, <2>2 DEF RunBody, AfterRefusal
<1>7. ASSUME NEW i \in Instances, Clean(i) PROVE WorkInv'
    BY <1>7, MoveWork DEF Clean, Serving, calls
<1>8. ASSUME NEW i \in Instances, StartJobs(i) PROVE WorkInv'
    BY <1>8 DEF WorkInv, Types, Serving, calls, Active, StartJobs, Goto
<1>9. ASSUME NEW i \in Instances, Listen(i) PROVE WorkInv'
    <2>1. CASE Die(i)
        BY <1>9, <2>1, DieWork DEF Listen
    <2>2. CASE ~Die(i)
        BY <1>9, <2>2 DEF WorkInv, Types, Serving, calls, Active, Listen
    <2>. QED
        BY <2>1, <2>2
<1>10. ASSUME NEW i \in Instances, Shutdown(i) PROVE WorkInv'
    BY <1>10, MoveWork DEF Shutdown, Types, Serving, calls
<1>11. ASSUME NEW i \in Instances, LeaveShutdown(i) PROVE WorkInv'
    BY <1>11, MoveWork DEF LeaveShutdown, WorkInv, Serving
<1>12. ASSUME NEW i \in Instances, Exit(i) PROVE WorkInv'
    BY <1>12 DEF WorkInv, Types, Serving, calls, Active, Exit, End, NoJobs, Goto
<1>13. ASSUME NEW i \in Instances, Crash(i) PROVE WorkInv'
    BY <1>13, DieWork DEF Crash, schema
<1>14. ASSUME NEW i \in Instances, NEW j \in Jobs, JobTick(i, j) PROVE WorkInv'
    BY <1>14 DEF WorkInv, Types, Serving, calls, Active, JobTick, MoveJob
<1>15. ASSUME NEW i \in Instances, NEW j \in Jobs, JobDone(i, j) PROVE WorkInv'
    BY <1>15 DEF WorkInv, Types, Serving, calls, Active, JobDone, MoveJob
<1>16. ASSUME NEW i \in Instances, NEW j \in Jobs, JobConn(i, j) PROVE WorkInv'
    BY <1>16 DEF WorkInv, Types, Serving, calls, Active, JobConn, MoveJob
<1>17. ASSUME NEW i \in Instances, NEW j \in Jobs, JobPanic(i, j) PROVE WorkInv'
    BY <1>17 DEF WorkInv, Types, Serving, calls, Active, JobPanic, MoveJob, AfterPanic
<1>18. ASSUME NEW i \in Instances, NEW j \in Jobs, JobStop(i, j) PROVE WorkInv'
    BY <1>18 DEF WorkInv, Types, Serving, calls, Active, JobStop, MoveJob
<1>19. ASSUME NEW i \in Instances, NEW r \in Requests, Accept(r, i) PROVE WorkInv'
    BY <1>19 DEF WorkInv, Types, Serving, calls, Active, Accept, MoveRequest
<1>20. ASSUME NEW r \in Requests, ReadBody(r) \/ GetConn(r) \/ GiveUp(r) \/ RequestStep(r)
      PROVE WorkInv'
    BY <1>20 DEF WorkInv, Types, Serving, calls, Active, RequestStep, ReadBody,
       GetConn, GiveUp, PoolIsClosed, EndTrade, EndHook, Answer, MoveRequest
<1>21. CASE UNCHANGED vars
    BY <1>21 DEF WorkInv, Types, Serving, calls, Active, vars
<1>. QED
    BY <1>1, <1>2, <1>3, <1>4, <1>5, <1>6, <1>7, <1>8, <1>9, <1>10, <1>11, <1>12, <1>13,
       <1>14, <1>15, <1>16, <1>17, <1>18, <1>19, <1>20, <1>21
    DEF Next, Boot, StopStep, JobStep, RequestStep

\* Every step keeps what is known of a request.
LEMMA RequestInvStep ==
    ASSUME Types, WorkInv, RequestInv, [Next]_vars
    PROVE  RequestInv'
<1>1. ASSUME NEW i \in Instances, Start(i) PROVE RequestInv'
    BY <1>1 DEF RequestInv, WorkInv, Types, Serving, calls, Active, Start, Goto
<1>2. ASSUME NEW i \in Instances, Signal(i) PROVE RequestInv'
    BY <1>2 DEF RequestInv, WorkInv, Types, Serving, calls, Active, Signal
<1>3. ASSUME NEW i \in Instances, TakeLock(i) PROVE RequestInv'
    <2>1. CASE Die(i)
        BY <1>3, <2>1, DieRequest DEF TakeLock, Goto
    <2>2. CASE ~Die(i)
        BY <1>3, <2>2 DEF RequestInv, WorkInv, Types, Serving, calls, Active, TakeLock, Goto
    <2>. QED
        BY <2>1, <2>2
<1>4. ASSUME NEW i \in Instances, ReadVersion(i) PROVE RequestInv'
    <2>1. CASE Die(i)
        BY <1>4, <2>1, DieRequest DEF ReadVersion, Goto, AfterRefusal
    <2>2. CASE ~Die(i)
        BY <1>4, <2>2 DEF RequestInv, WorkInv, Types, Serving, calls, Active, ReadVersion,
           Goto, AfterRefusal
    <2>. QED
        BY <2>1, <2>2
<1>5. ASSUME NEW i \in Instances, Mark(i) PROVE RequestInv'
    BY <1>5 DEF RequestInv, WorkInv, Types, Serving, calls, Active, Mark, Goto
<1>6. ASSUME NEW i \in Instances, RunBody(i) PROVE RequestInv'
    <2>1. CASE applied' = Append(applied, version) /\ Goto(i, "clean")
              /\ UNCHANGED <<migrator, signalled, listener, job, calls>>
        BY <1>6, <2>1 DEF RunBody, Types, WorkInv, RequestInv, Serving, calls, Active, Goto
    <2>2. CASE Die(i) /\ UNCHANGED applied
        BY <1>6, <2>2, DieRequest DEF RunBody
    <2>. QED
        BY <1>6, <2>1, <2>2 DEF RunBody, AfterRefusal
<1>7. ASSUME NEW i \in Instances, Clean(i) PROVE RequestInv'
    BY <1>7 DEF RequestInv, WorkInv, Types, Serving, calls, Active, Clean, Goto
<1>8. ASSUME NEW i \in Instances, StartJobs(i) PROVE RequestInv'
    BY <1>8 DEF RequestInv, WorkInv, Types, Serving, calls, Active, StartJobs, Goto
<1>9. ASSUME NEW i \in Instances, Listen(i) PROVE RequestInv'
    <2>1. CASE Die(i)
        BY <1>9, <2>1, DieRequest DEF Listen
    <2>2. CASE ~Die(i)
        BY <1>9, <2>2 DEF RequestInv, WorkInv, Types, Serving, calls, Active, Listen
    <2>. QED
        BY <2>1, <2>2
<1>10. ASSUME NEW i \in Instances, Shutdown(i) PROVE RequestInv'
    BY <1>10 DEF RequestInv, WorkInv, Types, Serving, calls, Active, Shutdown, Goto
<1>11. ASSUME NEW i \in Instances, LeaveShutdown(i) PROVE RequestInv'
    BY <1>11 DEF RequestInv, WorkInv, Types, Serving, calls, Active, LeaveShutdown, Goto,
       Drained, GraceMayEnd, ActiveAt
<1>12. ASSUME NEW i \in Instances, Exit(i) PROVE RequestInv'
    BY <1>12 DEF RequestInv, WorkInv, Types, Serving, calls, Active, Exit, End, NoJobs, Goto
<1>13. ASSUME NEW i \in Instances, Crash(i) PROVE RequestInv'
    BY <1>13, DieRequest DEF Crash, schema
<1>14. ASSUME NEW i \in Instances, NEW j \in Jobs, JobStep(i, j) \/ JobConn(i, j) \/
   JobPanic(i, j) \/ JobStop(i, j)
      PROVE RequestInv'
    BY <1>14 DEF RequestInv, WorkInv, Types, Serving, calls, Active, JobStep, JobTick,
       JobDone, JobConn, JobPanic, JobStop, MoveJob
<1>15. ASSUME NEW i \in Instances, NEW r \in Requests, Accept(r, i) PROVE RequestInv'
    BY <1>15 DEF RequestInv, WorkInv, Types, Serving, calls, Active, Accept, MoveRequest
<1>16. ASSUME NEW r \in Requests, ReadBody(r) PROVE RequestInv'
    BY <1>16 DEF RequestInv, WorkInv, Types, Serving, calls, Active, ReadBody, MoveRequest
<1>17. ASSUME NEW r \in Requests, GetConn(r) PROVE RequestInv'
    BY <1>17 DEF RequestInv, WorkInv, Types, Serving, calls, Active, GetConn, MoveRequest,
       PoolOpen, ConnFree
<1>18. ASSUME NEW r \in Requests, GiveUp(r) PROVE RequestInv'
    BY <1>18 DEF RequestInv, WorkInv, Types, Serving, calls, Active, GiveUp, MoveRequest
<1>19. ASSUME NEW r \in Requests, PoolIsClosed(r) PROVE RequestInv'
    BY <1>19 DEF RequestInv, WorkInv, Types, Serving, calls, Active, PoolIsClosed,
       MoveRequest, PoolOpen, ConnFree
<1>20. ASSUME NEW r \in Requests, EndTrade(r) PROVE RequestInv'
    BY <1>20 DEF RequestInv, WorkInv, Types, Serving, calls, Active, EndTrade, MoveRequest
<1>21. ASSUME NEW r \in Requests, EndHook(r) PROVE RequestInv'
    BY <1>21 DEF RequestInv, WorkInv, Types, Serving, calls, Active, EndHook, MoveRequest
<1>22. ASSUME NEW r \in Requests, Answer(r) PROVE RequestInv'
    BY <1>22 DEF RequestInv, WorkInv, Types, Serving, calls, Active, Answer, MoveRequest
<1>23. CASE UNCHANGED vars
    BY <1>23 DEF RequestInv, WorkInv, Types, Serving, calls, Active, vars
<1>. QED
    BY <1>1, <1>2, <1>3, <1>4, <1>5, <1>6, <1>7, <1>8, <1>9, <1>10, <1>11, <1>12, <1>13,
       <1>14, <1>15, <1>16, <1>17, <1>18, <1>19, <1>20, <1>21, <1>22, <1>23
    DEF Next, Boot, StopStep, JobStep, RequestStep

-----------------------------------------------------------------------------
(* The theorems.                                                           *)

\* It holds to begin with.
LEMMA InitInv == Init => Inv
<1>. SUFFICES ASSUME Init PROVE Inv
    OBVIOUS
<1>1. applied \in Seq(Nat) /\ Len(applied) = OldVersion /\ \A v \in DOMAIN applied :
   applied[v] = v
    BY ServerAssumption DEF ServerAssumption, Init
<1>2. Types
    BY <1>1, ServerAssumption DEF ServerAssumption, Init, Types, NoJobs, Active
<1>3. SchemaInv /\ KnownInv
    BY <1>1 DEF Init, SchemaInv, KnownInv, Migrating, Serving
<1>4. WorkInv /\ RequestInv
    BY DEF Init, WorkInv, RequestInv, NoJobs, Active
<1>. QED
    BY <1>2, <1>3, <1>4 DEF Inv

\* Together they are inductive.
LEMMA InvStep == ASSUME Inv, [Next]_vars PROVE Inv'
BY TypeStep, SchemaStep, KnownStep, WorkStep, RequestInvStep DEF Inv

\* What is left of the types: two flags.
Flags == dirty \in BOOLEAN /\ signalled \in [Instances -> BOOLEAN]

\* Every step keeps them.
LEMMA FlagStep == ASSUME Flags, [Next]_vars PROVE Flags'
<1>1. dirty' \in BOOLEAN
    <2>1. ASSUME NEW i \in Instances, Mark(i) \/ Clean(i) PROVE dirty' \in BOOLEAN
        BY <2>1, Zenon DEF Mark, Clean
    <2>2. CASE UNCHANGED dirty
        BY <2>2, Zenon DEF Flags
    <2>3. CASE ~\E i \in Instances : Mark(i) \/ Clean(i)
        <3>1. UNCHANGED dirty
            BY <2>3, ZenonT(60) DEF Next, Start, Signal, Boot, TakeLock, ReadVersion,
               RunBody, StartJobs,
               Listen, StopStep, Shutdown, LeaveShutdown, Exit, Crash, JobStep, JobTick,
                  JobDone,
               JobConn, JobPanic, JobStop, MoveJob, Accept, ReadBody, GetConn, GiveUp,
               RequestStep, PoolIsClosed, EndTrade, EndHook, Answer, MoveRequest, schema, vars
        <3>. QED
            BY <2>2, <3>1
    <2>. QED
        BY <2>1, <2>3, Zenon
<1>2. \/ UNCHANGED signalled
      \/ \E i \in Instances, b \in BOOLEAN : signalled' = [signalled EXCEPT ![i] = b]
    BY ZenonT(60) DEF Flags, Next, Start, Signal, Boot, TakeLock, ReadVersion, Mark,
       RunBody, Clean,
       StartJobs, Listen, StopStep, Shutdown, LeaveShutdown, Exit, Crash, JobStep, JobTick,
       JobDone, JobConn, JobPanic, JobStop, MoveJob, Accept, ReadBody, GetConn, GiveUp,
       RequestStep, PoolIsClosed, EndTrade, EndHook, Answer, MoveRequest, vars, AfterRefusal,
       Die, End
<1>3. signalled' \in [Instances -> BOOLEAN]
    BY <1>2, Zenon DEF Flags
<1>. QED
    BY <1>1, <1>3 DEF Flags

\* And so they hold of every state of the server.
LEMMA Invariance == Spec => []Inv
BY InitInv, InvStep, PTL DEF Spec

\* Types: no sequence of starts, migrations, failures and requests leads to a phase,
\* a stage or a job nothing in main provides for.
THEOREM ServerTypeCorrect == Spec => []TypeOK
<1>1. Init => Flags
    <2>. SUFFICES ASSUME Init PROVE Flags
        OBVIOUS
    <2>1. dirty \in BOOLEAN
        <3>1. dirty = FALSE
            BY DEF Init
        <3>. QED
            BY <3>1, Zenon
    <2>2. signalled \in [Instances -> BOOLEAN]
        BY DEF Init
    <2>. QED
        BY <2>1, <2>2 DEF Flags
<1>2. Types /\ Flags => TypeOK
    BY DEF Flags, TypeOK
<1>. QED
    BY <1>1, <1>2, FlagStep, Invariance, PTL DEF Spec, Inv

\* However many instances migrate, fail and crash at once, nobody serves a request
\* or works in the background on a schema that has not been through all the
\* migrations of its binary, once each and in order (migrate.Up before the
\* listener of main).
THEOREM SchemaServed == Spec => []ServesMigratedSchema
<1>1. Inv => ServesMigratedSchema
    BY DEF Inv, WorkInv, KnownInv, SchemaInv, ServesMigratedSchema, Serving
<1>. QED
    BY <1>1, Invariance, PTL

\* However many requests, connections and jobs there are, and whatever fails: a
\* process that stops regularly cuts off, or denies a connection for its trade or
\* its hook, only a request the grace of srv.Shutdown ran out on.
THEOREM GraceHolds == Spec => []GraceIsEnough
<1>1. Inv => GraceIsEnough
    BY DEF Inv, RequestInv, GraceIsEnough
<1>. QED
    BY <1>1, Invariance, PTL

=============================================================================
