------------------------------ MODULE Process ------------------------------
(***************************************************************************)
(* The life of the service's processes: the composition of app.go run by   *)
(* Kratos, WorkerServer with its lanes and its database monitor, and the   *)
(* readiness that /readyz and the gRPC health service report, while the    *)
(* database comes and goes and the schema is migrated under the running    *)
(* processes.  Start and Stop of the worker server run in goroutines of    *)
(* their own, so every order of their steps is possible.  One tick of the  *)
(* clock is half a second.                                                 *)
(***************************************************************************)
EXTENDS Migration, FiniteSets

CONSTANTS Processes,
          Lanes,        \* per process: the goroutines of its lanes
          Interval,     \* ticks between two probes of the database: 1s
          Fresh,        \* ticks a probe counts: 3s
          ProbeTime,    \* ticks a probe may take: 500ms
          MaxStarts, MaxFaults, MaxOutages     \* bounds

\* Every process has a release, and lanes of its own.
ASSUME ProcessAssumption ==
    /\ Processes \subseteq DOMAIN Release
    /\ \A p, q \in Processes : p # q => Lanes[p] \cap Lanes[q] = {}
    /\ Interval \in Nat /\ Fresh \in Nat /\ ProbeTime \in Nat
    /\ MaxStarts \in Nat /\ MaxFaults \in Nat /\ MaxOutages \in Nat

VARIABLES proc,         \* each process
          lane,         \* each lane: none, idle, step, ended, failed
          up,           \* the database answers
          unfit,        \* ticks since the database was last up with the schema of the process
          starts, faults, outages

processVars == <<proc, lane, unfit, starts, faults, up, outages>>
vars == <<migrationVars, processVars>>

\* app:  down, starting, serving, stopping, closed
\* flag: Readiness.ready;  group: Kratos' context is cancelled
\* start, stop: where the calls of WorkerServer.Start and Stop stand
\* probe: where the monitor stands, ok: what it has seen, age: ticks since
\* databaseChecked, gap: ticks since the probe began
Down == [app |-> "down", flag |-> FALSE, group |-> FALSE,
         started |-> FALSE, stopped |-> FALSE, cancelled |-> FALSE, done |-> FALSE, alive |-> FALSE,
         start |-> "none", stop |-> "none", stopSaw |-> FALSE,
         probe |-> "none", ok |-> FALSE, ready |-> FALSE, age |-> Fresh, gap |-> 0, pool |-> FALSE]

LaneIds == UNION {Lanes[p] : p \in Processes}

Init ==
    /\ MigrationInit
    /\ proc = [p \in Processes |-> Down]
    /\ lane = [l \in LaneIds |-> "none"]
    /\ up = TRUE
    /\ unfit = [p \in Processes |-> Fresh + 2]
    /\ starts = 0 /\ faults = 0 /\ outages = 0

Usable(p) == up /\ Fits(p)

\* What a step does to one process and leaves alone elsewhere.
Set(p, r) == proc' = [proc EXCEPT ![p] = r]
Rest == UNCHANGED <<up, unfit, starts, faults, outages, migrationVars>>

-----------------------------------------------------------------------------
(* Readiness. *)

\* WorkerServer.Ready.
WorkerReady(p) == proc[p].alive /\ proc[p].ready /\ proc[p].age < Fresh

\* Readiness.Ready, which /readyz, the gRPC health service and the gauge read.
Ready(p) == proc[p].flag /\ WorkerReady(p)

-----------------------------------------------------------------------------
(* Building and running the application. *)

\* buildApp: OpenPostgres checks the database once and refuses to start over a
\* schema that is not its own; a failed construction closes the pool.
Build(p) ==
    /\ proc[p].app = "down" /\ starts < MaxStarts
    /\ Usable(p)
    /\ Set(p, [Down EXCEPT !.app = "starting", !.pool = TRUE])
    /\ starts' = starts + 1
    /\ UNCHANGED <<lane, up, unfit, faults, outages, migrationVars>>

\* Kratos has launched the goroutines of all servers (they need not have run)
\* and calls AfterStart.
AfterStart(p) ==
    /\ proc[p].app = "starting"
    /\ Set(p, [proc[p] EXCEPT !.app = "serving", !.flag = TRUE])
    /\ UNCHANGED lane /\ Rest

\* SIGTERM: BeforeStop, then the servers' context is cancelled.
Terminate(p) ==
    /\ proc[p].app = "serving"
    /\ Set(p, [proc[p] EXCEPT !.app = "stopping", !.flag = FALSE, !.group = TRUE])
    /\ UNCHANGED lane /\ Rest

\* Another server of the application ends with an error (a listener that
\* cannot bind): the context is cancelled without BeforeStop.
OtherServerFails(p) ==
    /\ proc[p].app \in {"starting", "serving"} /\ ~proc[p].group
    /\ faults < MaxFaults
    /\ Set(p, [proc[p] EXCEPT !.group = TRUE])
    /\ faults' = faults + 1
    /\ UNCHANGED <<lane, up, unfit, starts, outages, migrationVars>>

RunEnds_AfterStop(p) ==
    /\ proc[p].group /\ proc[p].app \in {"serving", "stopping"}
    /\ proc[p].stop \in {"stopped", "timeout"}
    /\ Set(p, [proc[p] EXCEPT !.app = "closed", !.pool = FALSE])
    /\ UNCHANGED lane /\ Rest

\* Every Start and Stop has returned: Run ends and AfterStop closes the pool.
RunEnds(p) ==
    /\ proc[p].group /\ proc[p].app \in {"serving", "stopping"}
    /\ proc[p].start = "returned" /\ proc[p].stop \in {"stopped", "timeout"}
    /\ Set(p, [proc[p] EXCEPT !.app = "closed", !.pool = FALSE])
    /\ UNCHANGED lane /\ Rest

\* The process is gone, after its run or killed at any point.
Gone(p) ==
    /\ Set(p, Down)
    /\ lane' = [l \in LaneIds |-> IF l \in Lanes[p] THEN "none" ELSE lane[l]]

Exit(p) == proc[p].app = "closed" /\ Gone(p) /\ Rest

Kill(p) ==
    /\ proc[p].app # "down" /\ faults < MaxFaults
    /\ Gone(p)
    /\ faults' = faults + 1
    /\ UNCHANGED <<up, unfit, starts, outages, migrationVars>>

-----------------------------------------------------------------------------
(* WorkerServer.Start. *)

\* Under the mutex: a server that was stopped is not started, and its Start
\* returns an error.
StartBegin(p) ==
    /\ proc[p].app \notin {"down", "closed"} /\ proc[p].start = "none"
    /\ IF proc[p].stopped
         THEN Set(p, [proc[p] EXCEPT !.start = "returned", !.group = TRUE])
         ELSE Set(p, [proc[p] EXCEPT !.started = TRUE, !.start = "monitor"])
    /\ UNCHANGED lane /\ Rest

StartMonitor(p) ==
    /\ proc[p].start = "monitor"
    /\ Set(p, [proc[p] EXCEPT !.start = "lanes", !.probe = "tables", !.ok = TRUE, !.gap = 0])
    /\ UNCHANGED lane /\ Rest

StartLanes(p) ==
    /\ proc[p].start = "lanes"
    /\ Set(p, [proc[p] EXCEPT !.start = "wait", !.alive = TRUE])
    /\ lane' = [l \in LaneIds |-> IF l \in Lanes[p] THEN "idle" ELSE lane[l]]
    /\ Rest

\* Cancelled, or the first lane has returned.
StartCancels(p) ==
    /\ proc[p].start = "wait"
    /\ proc[p].cancelled \/ \E l \in Lanes[p] : lane[l] \in {"ended", "failed"}
    /\ Set(p, [proc[p] EXCEPT !.start = "drain", !.cancelled = TRUE])
    /\ UNCHANGED lane /\ Rest

\* All lanes and the monitor have ended.  The error of a lane is returned,
\* unless the cancellation was noticed first, and ends the whole application.
StartReturns(p) ==
    /\ proc[p].start = "drain"
    /\ \A l \in Lanes[p] : lane[l] \in {"ended", "failed"}
    /\ proc[p].probe = "ended"
    /\ Set(p, [proc[p] EXCEPT !.start = "returned", !.alive = FALSE, !.done = TRUE,
                              !.group = @ \/ \E l \in Lanes[p] : lane[l] = "failed"])
    /\ UNCHANGED lane /\ Rest

Start(p) == StartBegin(p) \/ StartMonitor(p) \/ StartLanes(p) \/ StartCancels(p) \/ StartReturns(p)

-----------------------------------------------------------------------------
(* WorkerServer.runLane. *)

Lane(l, st) == lane' = [lane EXCEPT ![l] = st]

LaneTakesStep(l, p) ==
    /\ l \in Lanes[p] /\ lane[l] = "idle"
    /\ IF proc[p].cancelled THEN Lane(l, "ended") ELSE Lane(l, "step")
    /\ UNCHANGED proc /\ Rest

\* A step returns; the cancellation is looked at before its error.
LaneStepReturns(l, p) ==
    /\ l \in Lanes[p] /\ lane[l] = "step"
    /\ up \/ proc[p].cancelled
    /\ IF proc[p].cancelled THEN Lane(l, "ended") ELSE Lane(l, "idle")
    /\ UNCHANGED proc /\ Rest

\* DEPENDENCY_UNAVAILABLE: the process is not ready until the next probe.
LaneLosesDatabase(l, p) ==
    /\ l \in Lanes[p] /\ lane[l] = "step" /\ ~up /\ ~proc[p].cancelled
    /\ Lane(l, "idle")
    /\ Set(p, [proc[p] EXCEPT !.ready = FALSE])
    /\ Rest

\* Any other error, or a panic, which is recovered into an error.
LaneFails(l, p) ==
    /\ l \in Lanes[p] /\ lane[l] = "step" /\ ~proc[p].cancelled /\ faults < MaxFaults
    /\ Lane(l, "failed")
    /\ faults' = faults + 1
    /\ UNCHANGED <<proc, up, unfit, starts, outages, migrationVars>>

RunLane(l, p) ==
    \/ LaneTakesStep(l, p) \/ LaneStepReturns(l, p) \/ LaneLosesDatabase(l, p) \/ LaneFails(l, p)

-----------------------------------------------------------------------------
(* WorkerServer.monitorDatabase. *)

\* One query of CheckReady.  It fails when the database does not answer within
\* the probe's time or the context is cancelled.
Query(p, at, next, holds) ==
    /\ proc[p].probe = at
    /\ Set(p, [proc[p] EXCEPT !.probe = next, !.ok = @ /\ up /\ holds /\ ~proc[p].cancelled])
    /\ UNCHANGED lane /\ Rest

CheckReady(p) ==
    \/ Query(p, "tables", "checksums", TablesPresent(p))
    \/ Query(p, "checksums", "versions", ChecksumsMatch(p))
    \/ Query(p, "versions", "store", NoMoreVersions(p))

\* databaseReady and databaseChecked are stored one after the other.
MonitorStores(p) ==
    /\ proc[p].probe = "store"
    /\ Set(p, [proc[p] EXCEPT !.probe = "stamp", !.ready = proc[p].ok])
    /\ UNCHANGED lane /\ Rest

MonitorStamps(p) ==
    /\ proc[p].probe = "stamp"
    /\ Set(p, [proc[p] EXCEPT !.probe = "waiting", !.age = 0])
    /\ UNCHANGED lane /\ Rest

MonitorTicks(p) ==
    /\ proc[p].probe = "waiting" /\ proc[p].gap >= Interval
    /\ Set(p, [proc[p] EXCEPT !.probe = "tables", !.ok = TRUE, !.gap = 0])
    /\ UNCHANGED lane /\ Rest

MonitorEnds(p) ==
    /\ proc[p].probe = "waiting" /\ proc[p].cancelled
    /\ Set(p, [proc[p] EXCEPT !.probe = "ended"])
    /\ UNCHANGED lane /\ Rest

Monitor(p) == CheckReady(p) \/ MonitorStores(p) \/ MonitorStamps(p) \/ MonitorTicks(p) \/ MonitorEnds(p)

-----------------------------------------------------------------------------
(* WorkerServer.Stop. *)

StopMarks(p) ==
    /\ proc[p].group /\ proc[p].stop = "none"
    /\ Set(p, [proc[p] EXCEPT !.stopped = TRUE, !.stopSaw = proc[p].started, !.stop = "marked"])
    /\ UNCHANGED lane /\ Rest

\* After the mutex: what was started is cancelled and waited for.
StopCancels(p) ==
    /\ proc[p].stop = "marked"
    /\ Set(p, [proc[p] EXCEPT !.alive = FALSE, !.cancelled = @ \/ proc[p].stopSaw,
                              !.stop = IF proc[p].stopSaw THEN "waiting" ELSE "stopped"])
    /\ UNCHANGED lane /\ Rest

\* The server is done, or the shutdown timeout passes first.
StopReturns(p) ==
    /\ proc[p].stop = "waiting"
    /\ \E result \in {"stopped", "timeout"} :
          /\ result = "stopped" => proc[p].done
          /\ Set(p, [proc[p] EXCEPT !.stop = result])
    /\ UNCHANGED lane /\ Rest

Stop(p) == StopMarks(p) \/ StopCancels(p) \/ StopReturns(p)

-----------------------------------------------------------------------------
(* The database and the clock. *)

\* A change of the database starts the count for the processes it no longer suits.
Recount == unfit' = [p \in Processes |-> IF Usable(p)' THEN 0 ELSE unfit[p]]

DatabaseGoes ==
    /\ up /\ outages < MaxOutages
    /\ up' = FALSE /\ outages' = outages + 1
    /\ UNCHANGED <<migrationVars, proc, lane, unfit, starts, faults>>

DatabaseComesBack ==
    /\ ~up /\ up' = TRUE
    /\ UNCHANGED <<migrationVars, proc, lane, starts, faults, outages>>
    /\ Recount

Migrations ==
    /\ up /\ \E m \in Migrators : Migrate(m)
    /\ UNCHANGED <<proc, lane, up, starts, faults, outages>>
    /\ Recount

Older(n, most) == IF n < most THEN n + 1 ELSE n

\* Half a second passes.  A probe does not outlive its timeout, and its result
\* is stored at once; the ticker, like every other goroutine, may be late.
Tick ==
    /\ \A p \in Processes :
          /\ proc[p].probe \in {"tables", "checksums", "versions"} => proc[p].gap < ProbeTime
          /\ proc[p].probe \notin {"store", "stamp"}
    /\ proc' = [p \in Processes |->
                   IF proc[p].probe = "none" THEN proc[p]
                   ELSE [proc[p] EXCEPT !.age = Older(@, Fresh), !.gap = Older(@, Interval)]]
    /\ unfit' = [p \in Processes |-> IF Usable(p) THEN 0 ELSE Older(unfit[p], Fresh + 2)]
    /\ UNCHANGED <<migrationVars, lane, up, starts, faults, outages>>

Next ==
    \/ \E p \in Processes :
          \/ Build(p) \/ Terminate(p) \/ OtherServerFails(p) \/ Kill(p)
          \/ AfterStart(p) \/ RunEnds(p) \/ Exit(p)
          \/ Start(p) \/ Monitor(p) \/ Stop(p)
          \/ \E l \in LaneIds : RunLane(l, p)
    \/ DatabaseGoes \/ DatabaseComesBack \/ Migrations \/ Tick

Spec == Init /\ [][Next]_vars

-----------------------------------------------------------------------------
(* Properties. *)

\* The parts of the state have their values, and the pool is open exactly while
\* the application runs (OpenPostgres, AfterStop).
TypeOK ==
    /\ \A p \in Processes :
          /\ proc[p].app \in {"down", "starting", "serving", "stopping", "closed"}
          /\ proc[p].pool <=> proc[p].app \in {"starting", "serving", "stopping"}
          /\ proc[p].start \in {"none", "monitor", "lanes", "wait", "drain", "returned"}
          /\ proc[p].stop \in {"none", "marked", "waiting", "stopped", "timeout"}
          /\ proc[p].probe \in {"none", "tables", "checksums", "versions", "store", "stamp", "waiting", "ended"}
          /\ proc[p].age \in 0..Fresh /\ proc[p].gap \in 0..Interval
    /\ lane \in [LaneIds -> {"none", "idle", "step", "ended", "failed"}]
    /\ unfit \in [Processes -> 0..(Fresh + 2)]

Working(l) == lane[l] \in {"idle", "step"}

\* A process reports ready only if the database answered with exactly its
\* schema within the time a probe counts, the probe's own time included, even
\* when a migration commits between the queries of a probe, a lane's report of
\* a lost database races a probe, or the monitor itself is delayed
\* (WorkerServer.Ready, monitorDatabase, CheckReady).
NoStaleServing == \A p \in Processes : Ready(p) => unfit[p] < Fresh + ProbeTime

\* The connection pool is closed only after every lane and the monitor ended,
\* also when the shutdown timeout passed first (Start waits for all of them,
\* and Kratos for Start).
PoolOutlivesWork ==
    \A p \in Processes :
        proc[p].app = "closed" =>
            proc[p].probe \in {"none", "ended"} /\ \A l \in Lanes[p] : ~Working(l)

\* When Stop has returned without an error nothing of the server runs and
\* nothing will: a Start that comes later is refused, one that is under way
\* has been waited for (WorkerServer.Stop, Start).
StopMeansStopped ==
    \A p \in Processes :
        proc[p].stop = "stopped" =>
            /\ ~proc[p].alive /\ proc[p].start \in {"none", "returned"}
            /\ \A l \in Lanes[p] : ~Working(l)

\* The three together.
ProcessSafety == NoStaleServing /\ PoolOutlivesWork /\ StopMeansStopped
=============================================================================
