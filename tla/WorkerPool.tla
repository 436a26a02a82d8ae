----------------------------- MODULE WorkerPool -----------------------------
(***************************************************************************)
(* The asyncio tasks of impostarr's worker pool (src/impostarr/worker.py)  *)
(* and the throttle that gates them (throttle.py): the worker loops with   *)
(* their claim thread, their process task and their heartbeat task, pause  *)
(* and resume (api/routes.py), and the shutdown of the application         *)
(* (main.py).                                                              *)
(*                                                                         *)
(* A step reaches from one await to the next.  The table of jobs is        *)
(* reduced to what the pool sees of it; JobQueue models it in full.        *)
(* Time is an age: stamps holds, for every entry of the limiter's          *)
(* _timestamps, whose claim it was and how many ticks ago, and a tick is   *)
(* finer than the time between two claims of one worker.                   *)
(***************************************************************************)
EXTENDS Naturals, FiniteSets

CONSTANTS
    Workers,      \* the pool_size worker-loop tasks
    NumInstances, \* configured Sonarr instances, in the order of the dict
    Jobs,         \* rows of the jobs table, numbered in the order of created_at
    InstanceOf,   \* the instance each job's file belongs to
    JobsPerHour,  \* throttle.jobs_per_hour; 0 is None, no limit
    Window,       \* TokenBucket.WINDOW_S in ticks
    HoursPerDay,  \* 24
    ActiveStart, ActiveEnd,  \* the two hours of throttle.active_hours
    None

ASSUME WorkersAssumption  == IsFiniteSet(Workers) /\ Workers # {} /\ None \notin Workers
ASSUME InstanceAssumption == /\ NumInstances \in Nat \ {0}
                             /\ InstanceOf \in [Jobs -> 1 .. NumInstances]
ASSUME JobsAssumption     == Jobs \subseteq Nat /\ None \notin Jobs
ASSUME ThrottleAssumption == JobsPerHour \in Nat /\ Window \in Nat \ {0}
ASSUME HoursAssumption    == /\ HoursPerDay \in Nat \ {0}
                             /\ {ActiveStart, ActiveEnd} \subseteq 0 .. HoursPerDay - 1

Instances == 1 .. NumInstances
Ages      == 0 .. Window - 1

VARIABLES
    \* the application
    phase,      \* "up", "stopping" (stop() awaits its gather), "down"
    paused,     \* settings.throttle.paused
    hour,       \* datetime.now(UTC).hour
    stamps,     \* TokenBucket._timestamps
    \* the jobs table, as the pool sees it
    row,        \* "pending", "active" or "settled"
    holder,     \* the worker whose id is in claimed_by
    \* each worker-loop task
    pc,         \* the await it stands at
    cancel,     \* a cancellation has been requested and not yet delivered
    idx,        \* the instance whose turn it is
    tries,      \* turns already taken in this round
    inst,       \* the instance whose deps it uses
    job,        \* the job claimed for it
    ask,        \* the claim dispatched to a thread, and how it ended
    \* the two tasks of _run_job
    proc,       \* process_task
    beat,       \* heartbeat_task
    lease_lost, \* the event between them
    fate,       \* what follows the finally block
    \* history
    recent,     \* the claims of the last hour: worker and age
    late,       \* workers that claimed since the gates closed
    crossed     \* workers whose run met both stop() and a lost lease

app     == <<phase, paused, hour>>
table   == <<row, holder>>
loop    == <<pc, cancel, idx, tries, inst, job>>
run     == <<proc, beat, lease_lost, fate>>
history == <<recent, late, crossed>>
vars    == <<app, stamps, table, loop, ask, run, history>>

Alive(w) == pc[w] # "dead"

TypeOK ==
    /\ phase \in {"up", "stopping", "down"}
    /\ paused \in BOOLEAN
    /\ hour \in 0 .. HoursPerDay - 1
    /\ stamps \in SUBSET (Workers \X Ages)
    /\ row \in [Jobs -> {"pending", "active", "settled"}]
    /\ holder \in [Jobs -> Workers \cup {None}]
    /\ pc \in [Workers -> {"asleep", "claiming", "running", "finishing", "dead"}]
    /\ cancel \in [Workers -> BOOLEAN]
    /\ idx \in [Workers -> Instances]
    /\ tries \in [Workers -> 0 .. NumInstances - 1]
    /\ inst \in [Workers -> Instances \cup {None}]
    /\ job \in [Workers -> Jobs \cup {None}]
    /\ ask \in [Workers -> {"none", "out", "found", "empty"}]
    /\ proc \in [Workers -> {"none", "running", "cancelling", "cancelled", "ended"}]
    /\ beat \in [Workers -> {"none", "asleep", "refused"}]
    /\ lease_lost \in [Workers -> BOOLEAN]
    /\ fate \in [Workers -> {"none", "loop", "die"}]
    /\ recent \in SUBSET (Workers \X Ages)
    /\ late \in SUBSET Workers
    /\ crossed \in SUBSET Workers

Init ==
    /\ phase = "up"
    /\ paused = FALSE
    /\ hour = ActiveStart
    /\ stamps = {}
    /\ row = [j \in Jobs |-> "pending"]
    /\ holder = [j \in Jobs |-> None]
    /\ pc = [w \in Workers |-> "asleep"]
    /\ cancel = [w \in Workers |-> FALSE]
    /\ idx = [w \in Workers |-> 1]
    /\ tries = [w \in Workers |-> 0]
    /\ inst = [w \in Workers |-> None]
    /\ job = [w \in Workers |-> None]
    /\ ask = [w \in Workers |-> "none"]
    /\ proc = [w \in Workers |-> "none"]
    /\ beat = [w \in Workers |-> "none"]
    /\ lease_lost = [w \in Workers |-> FALSE]
    /\ fate = [w \in Workers |-> "none"]
    /\ recent = {}
    /\ late = {}
    /\ crossed = {}

-----------------------------------------------------------------------------
(* The throttle *)

\* Slips
HasCapacityInclusive == JobsPerHour = 0 \/ Cardinality(stamps) <= JobsPerHour
HasCapacityToSpare   == JobsPerHour = 0 \/ Cardinality(stamps) + 1 < JobsPerHour
PruneLate(log)       == {e \in log : e[2] <= Window}

\* throttle.in_active_hours: both hours inclusive, possibly over midnight.
InHours(start, end, now) ==
    IF start <= end THEN start <= now /\ now <= end
                    ELSE now >= start \/ now <= end

GatesOpen == ~paused /\ InHours(ActiveStart, ActiveEnd, hour)

HasCapacity == JobsPerHour = 0 \/ Cardinality(stamps) < JobsPerHour

\* _prune: an entry counts until it is Window ticks old.
Prune(log) == {e \in log : e[2] < Window}

Older(log) == {<<e[1], e[2] + 1>> : e \in log}

Consume(w) == stamps' = stamps \cup {<<w, 0>>}

-----------------------------------------------------------------------------
(* The worker loop *)

Ready(w, p) == pc[w] = p /\ ~cancel[w]

GoTo(w, p) == pc' = [pc EXCEPT ![w] = p]

\* claim_next is dispatched to a thread with the id of this instance's deps.
TakeTurn(w, n) ==
    /\ GoTo(w, "claiming")
    /\ ask' = [ask EXCEPT ![w] = "out"]
    /\ inst' = [inst EXCEPT ![w] = idx[w]]
    /\ idx' = [idx EXCEPT ![w] = (@ % NumInstances) + 1]
    /\ tries' = [tries EXCEPT ![w] = n]
    /\ UNCHANGED <<cancel, job>>

Sleep(w) ==
    /\ GoTo(w, "asleep")
    /\ ask' = [ask EXCEPT ![w] = "none"]
    /\ tries' = [tries EXCEPT ![w] = 0]
    /\ inst' = [inst EXCEPT ![w] = None]
    /\ UNCHANGED <<cancel, idx, job>>

\* The task is over and its locals are gone.
Die(w) ==
    /\ GoTo(w, "dead")
    /\ cancel' = [cancel EXCEPT ![w] = FALSE]
    /\ idx' = [idx EXCEPT ![w] = 1]
    /\ tries' = [tries EXCEPT ![w] = 0]
    /\ inst' = [inst EXCEPT ![w] = None]
    /\ job' = [job EXCEPT ![w] = None]

\* Slip
RoundUngated(w) ==
    /\ <<w, 0>> \notin recent
    /\ IF HasCapacity THEN TakeTurn(w, 0) ELSE Sleep(w)

\* From the top of the loop to its first await.  A worker comes back there
\* later than it claimed.
Round(w) ==
    /\ <<w, 0>> \notin recent
    /\ IF GatesOpen /\ HasCapacity THEN TakeTurn(w, 0) ELSE Sleep(w)

\* POLL_EMPTY_SLEEP_S is over, or the task has just been created.
Wake(w) ==
    /\ Ready(w, "asleep")
    /\ Round(w)
    /\ UNCHANGED <<app, stamps, table, run, history>>

\* jobs.claim_next takes the oldest pending row, of whatever instance.
OldestPending(j) ==
    /\ row[j] = "pending"
    /\ \A k \in Jobs : row[k] = "pending" => j <= k

\* The thread runs to its end even if the task that awaits it is cancelled;
\* then nobody hears of the claim.
Answer(w, a) == ask' = [ask EXCEPT ![w] = IF Alive(w) THEN a ELSE "none"]

ClaimThread(w) ==
    /\ ask[w] = "out"
    /\ \/ \E j \in Jobs :
            /\ OldestPending(j)
            /\ row' = [row EXCEPT ![j] = "active"]
            /\ holder' = [holder EXCEPT ![j] = w]
            /\ job' = [job EXCEPT ![w] = IF Alive(w) THEN j ELSE None]
            /\ Answer(w, "found")
       \/ /\ \A j \in Jobs : row[j] # "pending"
          /\ Answer(w, "empty")
          /\ UNCHANGED <<table, job>>
    /\ UNCHANGED <<app, stamps, pc, cancel, idx, tries, inst, run, history>>

NextTurn(w) ==
    /\ Ready(w, "claiming") /\ ask[w] = "empty"
    /\ IF tries[w] + 1 < NumInstances THEN TakeTurn(w, tries[w] + 1) ELSE Sleep(w)
    /\ UNCHANGED <<app, stamps, table, run, history>>

\* A database error in the thread, a locked database for one; _worker_loop
\* catches nothing around its claim, so the task is over.
ClaimRaises(w) ==
    /\ Ready(w, "claiming") /\ ask[w] = "out"
    /\ Die(w)
    /\ ask' = [ask EXCEPT ![w] = "none"]
    /\ UNCHANGED <<app, stamps, table, run, history>>

StartRun(w) ==
    /\ Ready(w, "claiming") /\ ask[w] = "found"
    /\ Consume(w)
    /\ GoTo(w, "running")
    /\ ask' = [ask EXCEPT ![w] = "none"]
    /\ tries' = [tries EXCEPT ![w] = 0]
    /\ proc' = [proc EXCEPT ![w] = "running"]
    /\ beat' = [beat EXCEPT ![w] = "asleep"]
    /\ lease_lost' = [lease_lost EXCEPT ![w] = FALSE]
    /\ recent' = recent \cup {<<w, 0>>}
    /\ late' = IF GatesOpen THEN late ELSE late \cup {w}
    /\ UNCHANGED <<app, table, cancel, idx, inst, job, fate, crossed>>

-----------------------------------------------------------------------------
(* _run_job: the process task, the heartbeat task, and the await on them *)

HoldsLease(w) == row[job[w]] = "active" /\ holder[job[w]] = w

\* The pipeline releases the job, or ends without (LeaseLost, an exception).
ProcessEnds(w) ==
    /\ proc[w] = "running"
    /\ proc' = [proc EXCEPT ![w] = "ended"]
    /\ \/ /\ HoldsLease(w)
          /\ row' = [row EXCEPT ![job[w]] = "settled"]
          /\ holder' = [holder EXCEPT ![job[w]] = None]
       \/ UNCHANGED table
    /\ UNCHANGED <<app, stamps, loop, ask, beat, lease_lost, fate, history>>

ProcessCancelled(w) ==
    /\ proc[w] = "cancelling"
    /\ proc' = [proc EXCEPT ![w] = "cancelled"]
    /\ UNCHANGED <<app, stamps, table, loop, ask, beat, lease_lost, fate, history>>

\* Task.cancel on process_task: nothing if it has ended already.
Cancelling(w) == IF proc[w] = "running" THEN "cancelling" ELSE proc[w]

\* _do_heartbeat's fenced UPDATE matched nothing.  (One that renews the lease
\* changes nothing the pool sees.)
BeatRefused(w) ==
    /\ beat[w] = "asleep"
    /\ ~HoldsLease(w)
    /\ beat' = [beat EXCEPT ![w] = "refused"]
    /\ UNCHANGED <<app, stamps, table, loop, ask, proc, lease_lost, fate, history>>

\* Any other exception ends the heartbeat unnoticed; the run goes on.
BeatRaises(w) ==
    /\ beat[w] = "asleep"
    /\ beat' = [beat EXCEPT ![w] = "none"]
    /\ UNCHANGED <<app, stamps, table, loop, ask, proc, lease_lost, fate, history>>

\* The heartbeat task resumes with LeaseLost.
LeaseLost(w) ==
    /\ beat[w] = "refused"
    /\ beat' = [beat EXCEPT ![w] = "none"]
    /\ lease_lost' = [lease_lost EXCEPT ![w] = TRUE]
    /\ proc' = [proc EXCEPT ![w] = Cancelling(w)]
    /\ crossed' = IF phase = "stopping" THEN crossed \cup {w} ELSE crossed
    /\ UNCHANGED <<app, stamps, table, loop, ask, fate, recent, late>>

\* The await raises CancelledError if process_task was cancelled, or if this
\* task was while process_task had ended and it had not yet been resumed.
Interrupted(w) == proc[w] = "cancelled" \/ cancel[w]

\* Its tasks and locals are gone; the heartbeat, if still there, is cancelled.
EndRun(w) ==
    /\ inst' = [inst EXCEPT ![w] = None]
    /\ job' = [job EXCEPT ![w] = None]
    /\ proc' = [proc EXCEPT ![w] = "none"]
    /\ beat' = [beat EXCEPT ![w] = "none"]
    /\ lease_lost' = [lease_lost EXCEPT ![w] = FALSE]

\* Slips
AlwaysReRaise(w) == IF Interrupted(w) THEN "die" ELSE "loop"
NeverReRaise(w)  == "loop"

\* except CancelledError: swallowed if the heartbeat has set lease_lost.
AfterRun(w) == IF Interrupted(w) /\ ~lease_lost[w] THEN "die" ELSE "loop"

RunReturns(w) ==
    /\ pc[w] = "running"
    /\ proc[w] \in {"ended", "cancelled"}
    /\ fate' = [fate EXCEPT ![w] = AfterRun(w)]
    /\ EndRun(w)
    /\ GoTo(w, "finishing")
    /\ cancel' = [cancel EXCEPT ![w] = FALSE]
    /\ UNCHANGED <<app, stamps, table, idx, tries, ask, history>>

\* finally: the cancelled heartbeat has been gathered, and the loop goes on.
NextRound(w) ==
    /\ Ready(w, "finishing") /\ fate[w] = "loop"
    /\ Round(w)
    /\ fate' = [fate EXCEPT ![w] = "none"]
    /\ UNCHANGED <<app, stamps, table, proc, beat, lease_lost, history>>

ReRaised(w) ==
    /\ pc[w] = "finishing" /\ fate[w] = "die"
    /\ Die(w)
    /\ fate' = [fate EXCEPT ![w] = "none"]
    /\ UNCHANGED <<app, stamps, table, ask, proc, beat, lease_lost, history>>

-----------------------------------------------------------------------------
(* Shutdown *)

\* cancel() of a task goes through to the task it awaits.
Stop ==
    /\ phase = "up"
    /\ phase' = "stopping"
    /\ proc' = [w \in Workers |-> IF pc[w] = "running" THEN Cancelling(w) ELSE proc[w]]
    /\ cancel' = [w \in Workers |->
                    Alive(w) /\ (pc[w] = "running" => proc[w] \in {"ended", "cancelled"})]
    /\ crossed' = {w \in Workers : pc[w] = "running" /\ lease_lost[w]}
    /\ UNCHANGED <<paused, hour, stamps, table, pc, idx, tries, inst, job, ask,
                   beat, lease_lost, fate, recent, late>>

CancelDelivered(w) ==
    /\ cancel[w] /\ pc[w] \in {"asleep", "claiming", "finishing"}
    /\ Die(w)
    /\ ask' = [ask EXCEPT ![w] = IF @ = "out" THEN "out" ELSE "none"]
    /\ fate' = [fate EXCEPT ![w] = "none"]
    /\ UNCHANGED <<app, stamps, table, proc, beat, lease_lost, history>>

\* gather returns once every task is over; lifespan closes the clients.
Stopped ==
    /\ phase = "stopping"
    /\ \A w \in Workers : ~Alive(w)
    /\ phase' = "down"
    /\ UNCHANGED <<paused, hour, stamps, table, loop, ask, run, history>>

-----------------------------------------------------------------------------
(* What happens around the pool *)

\* Those who were late while the gates were closed may claim when they open.
Reopened == late' = IF GatesOpen' THEN {} ELSE late

Pause ==
    /\ ~paused /\ phase = "up"
    /\ paused' = TRUE
    /\ UNCHANGED <<phase, hour, stamps, table, loop, ask, run, history>>

Resume ==
    /\ paused /\ phase = "up"
    /\ paused' = FALSE
    /\ UNCHANGED <<phase, hour, stamps, table, loop, ask, run, recent, crossed>>
    /\ Reopened

NewHour ==
    /\ hour' = (hour + 1) % HoursPerDay
    /\ UNCHANGED <<phase, paused, stamps, table, loop, ask, run, recent, crossed>>
    /\ Reopened

Tick ==
    /\ stamps' = Prune(Older(stamps))
    /\ recent' = {e \in Older(recent) : e[2] \in Ages}
    /\ UNCHANGED <<app, table, loop, ask, run, late, crossed>>

\* The reaper or an operator's rerun takes the lease; a rerun of a settled job.
Requeued(j) ==
    /\ row[j] # "pending"
    /\ row' = [row EXCEPT ![j] = "pending"]
    /\ holder' = [holder EXCEPT ![j] = None]
    /\ UNCHANGED <<app, stamps, loop, ask, run, history>>

-----------------------------------------------------------------------------
WorkerStep(w) ==
    \/ Wake(w) \/ NextTurn(w) \/ StartRun(w)
    \/ RunReturns(w) \/ NextRound(w) \/ ReRaised(w) \/ CancelDelivered(w)

RunStep(w) == ProcessEnds(w) \/ ProcessCancelled(w)

BeatStep(w) == BeatRefused(w) \/ LeaseLost(w)

Next ==
    \/ \E w \in Workers : \/ WorkerStep(w) \/ RunStep(w) \/ BeatStep(w)
                          \/ ClaimThread(w) \/ ClaimRaises(w) \/ BeatRaises(w)
    \/ \E j \in Jobs : Requeued(j)
    \/ Pause \/ Resume \/ NewHour \/ Tick
    \/ Stop \/ Stopped

Spec == Init /\ [][Next]_vars

(* Fairness: the event loop resumes a task whose await is over, threads     *)
(* end, the pipeline's stages have timeouts, and time passes; of all the    *)
(* tasks of one worker it need not favour any.  Nothing is assumed of       *)
(* operators, the reaper, errors or the wall clock.                         *)
Fairness ==
    /\ \A w \in Workers : WF_vars(\/ WorkerStep(w) \/ RunStep(w)
                                   \/ BeatStep(w) \/ ClaimThread(w))
    /\ WF_vars(Tick) /\ WF_vars(Stopped)

FairSpec == Spec /\ Fairness

-----------------------------------------------------------------------------
(* Properties *)

\* However many workers pass the gate on one free token, the claims of any
\* hour exceed jobs_per_hour by at most one per other worker, since the gate
\* is read before an awaited claim and the token spent after it.
\* (TokenBucket.has_capacity, consume; _worker_loop)
RateBound ==
    JobsPerHour > 0 => Cardinality(recent) <= JobsPerHour + Cardinality(Workers) - 1

\* After a pause, or the end of the active hours, a worker finishes what it
\* had begun and claims at most one job more until the gates open again.
\* (_worker_loop, pause, resume)
OneLateClaim ==
    [][\A w \in late : ~GatesOpen => ~(pc[w] = "claiming" /\ pc'[w] = "running")]_vars

\* A lost lease, an exception of the pipeline or a failed heartbeat costs the
\* pool a job, never a worker: only shutdown or a claim that raises ends a
\* loop.  (_run_job)
OnlyStopEndsLoops ==
    [][\A w \in Workers : Alive(w) /\ pc'[w] = "dead"
                             => phase = "stopping" \/ pc[w] = "claiming"]_vars

\* stop() returns, whatever each worker awaits when it is cancelled, provided
\* none of them is told of a lost lease meanwhile.  (stop, _run_job)
StopEnds == (phase = "stopping") ~> (phase = "down" \/ crossed # {})

\* stop() returns.  The code does not have this: see the README.
StopAlwaysEnds == (phase = "stopping") ~> (phase = "down")

\* While the gates stay open, a worker is left and nobody puts jobs back,
\* the pool works off what is pending: the limiter frees its tokens again and
\* no round of turns passes a job by.  (_worker_loop, TokenBucket)
LeftAlone ==
    /\ <>[](phase = "up" /\ GatesOpen /\ \E w \in Workers : Alive(w))
    /\ <>[][\A j \in Jobs : ~Requeued(j)]_vars

Drains == LeftAlone => <>[](\A j \in Jobs : row[j] # "pending")

\* A job is processed with the settings and the Sonarr of its own instance.
OwnInstance ==
    \A w \in Workers : pc[w] = "running" => inst[w] = InstanceOf[job[w]]
=============================================================================
