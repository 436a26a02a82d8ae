------------------------------ MODULE JobQueue ------------------------------
(***************************************************************************)
(* impostarr's database-backed job queue (src/impostarr/jobs.py), driven   *)
(* by the worker pool (worker.py), the stale-lease reaper (worker.py) and  *)
(* the review endpoints (api/routes.py).                                   *)
(*                                                                         *)
(* Every operation of jobs.py is a read of the row into memory followed by *)
(* one conditional UPDATE; other sessions may commit between the two.  The *)
(* model splits each operation there.  An actor's in-memory copy of the    *)
(* row's status is view[a]; the table itself is status, claimed_by, stale  *)
(* and attempts.                                                           *)
(***************************************************************************)
EXTENDS JobStatus, Naturals

CONSTANTS
    NumJobs,      \* rows the table may hold (bound)
    MaxAttempts,  \* jobs.MAX_ATTEMPTS, 3 in the code
    Workers,      \* worker-loop tasks of the pool
    Requests,     \* concurrent review requests of the API
    IdOf,         \* the worker_id each actor presents to the fence
    NoOwner,      \* claimed_by IS NULL
    NoActor       \* nobody (history variable only)

Actors == Workers \cup Requests

ASSUME NumJobsAssumption     == NumJobs \in Nat
ASSUME MaxAttemptsAssumption == MaxAttempts \in Nat
ASSUME ActorsAssumption      == Workers \cap Requests = {} /\ NoActor \notin Actors
ASSUME OwnerAssumption       == \A a \in Actors : IdOf[a] # NoOwner
\* worker._mint_worker_id: one id per worker-loop task, none of them "api-...".
ASSUME WorkerIdsAssumption   ==
    \A w \in Workers, a \in Actors : IdOf[w] = IdOf[a] => w = a

Jobs  == 1 .. NumJobs
NoJob == 0

VARIABLES
    \* the jobs table
    status,      \* jobs.status, "absent" before the row is inserted
    claimed_by,  \* jobs.claimed_by
    stale,       \* heartbeat_at is older than the lease timeout
    attempts,    \* jobs.attempts
    \* each actor: a worker-loop task or a request handler
    pc,          \* how far it is
    job,         \* the job it works on
    view,        \* job.status in its session's memory
    op,          \* a request's operation
    \* the reaper
    picked,      \* the rows its SELECT returned, not yet written back
    snap,        \* their attempts at that moment
    \* history
    claimant,    \* the actor whose claim put the row in "active"
    claims       \* pool claims since creation or the last requeue

table   == <<status, claimed_by, stale, attempts>>
actors  == <<pc, job, view, op>>
reaper  == <<picked, snap>>
history == <<claimant, claims>>
vars    == <<table, actors, reaper, history>>

NoView  == "none"
NoOp    == "none"
Ops     == {"park", "unpark", "rerun", "verdict", "approve", "replace"}
Verdicts == {"matched", "quarantine", "inconclusive"}

Owners   == {IdOf[a] : a \in Actors} \cup {NoOwner}
PcStates == {"idle", "selected", "read", "claimed", "working"}

TypeOK ==
    /\ status \in [Jobs -> JobStatuses \cup {"absent"}]
    /\ claimed_by \in [Jobs -> Owners]
    /\ stale \in [Jobs -> BOOLEAN]
    /\ attempts \in [Jobs -> 0 .. MaxAttempts + 1]
    /\ pc \in [Actors -> PcStates]
    /\ job \in [Actors -> Jobs \cup {NoJob}]
    /\ view \in [Actors -> JobStatuses \cup {NoView}]
    /\ op \in [Actors -> Ops \cup {NoOp}]
    /\ picked \in SUBSET Jobs
    /\ snap \in [Jobs -> 0 .. MaxAttempts]
    /\ claimant \in [Jobs -> Actors \cup {NoActor}]
    /\ claims \in [Jobs -> Nat]

Init ==
    /\ status = [j \in Jobs |-> "absent"]
    /\ claimed_by = [j \in Jobs |-> NoOwner]
    /\ stale = [j \in Jobs |-> FALSE]
    /\ attempts = [j \in Jobs |-> 0]
    /\ pc = [a \in Actors |-> "idle"]
    /\ job = [a \in Actors |-> NoJob]
    /\ view = [a \in Actors |-> NoView]
    /\ op = [a \in Actors |-> NoOp]
    /\ picked = {}
    /\ snap = [j \in Jobs |-> 0]
    /\ claimant = [j \in Jobs |-> NoActor]
    /\ claims = [j \in Jobs |-> 0]

-----------------------------------------------------------------------------
(* Slips: forms that a plausible bug would give to the operators below.    *)
(* Mutation runs substitute them to show that the properties can fail.     *)

\* The fence without its claimed_by conjunct.
FencedByStatusOnly(a) == status[job[a]] = "active"

\* A release that forgets claimed_by = NULL.
LeaveLeaseKeepingOwner(j, s) ==
    /\ status' = [status EXCEPT ![j] = s]
    /\ stale' = [stale EXCEPT ![j] = FALSE]
    /\ claimant' = [claimant EXCEPT ![j] = NoActor]
    /\ UNCHANGED claimed_by

\* A claim UPDATE without WHERE status = 'pending'.
ClaimUnconditionally(w) == TRUE

\* A reaper that passes over the rows with no attempt left.
StaleJobsWithAttemptsLeft ==
    {j \in Jobs : status[j] = "active" /\ stale[j] /\ attempts[j] < MaxAttempts}

\* Reaping that does not count, or never gives up.
ReapCountForgotten(n) == n
ReapTargetNever(n) == "pending"

\* A review endpoint that trusts the status it read before the await.
FromAnyStatus(r) == JobStatuses

-----------------------------------------------------------------------------
(* Helpers *)

\* The lease fence of heartbeat and release: status='active' AND claimed_by=me.
Fenced(a) ==
    /\ status[job[a]] = "active"
    /\ claimed_by[job[a]] = IdOf[a]

Holding(a) == pc[a] \in {"claimed", "working"}

\* The actor lets go of its job and goes back to waiting.
Done(a) ==
    /\ pc' = [pc EXCEPT ![a] = "idle"]
    /\ job' = [job EXCEPT ![a] = NoJob]
    /\ view' = [view EXCEPT ![a] = NoView]
    /\ op' = [op EXCEPT ![a] = NoOp]

TakeLease(a, j) ==
    /\ status' = [status EXCEPT ![j] = "active"]
    /\ claimed_by' = [claimed_by EXCEPT ![j] = IdOf[a]]
    /\ stale' = [stale EXCEPT ![j] = FALSE]
    /\ claimant' = [claimant EXCEPT ![j] = a]

LeaveLease(j, s) ==
    /\ status' = [status EXCEPT ![j] = s]
    /\ claimed_by' = [claimed_by EXCEPT ![j] = NoOwner]
    /\ stale' = [stale EXCEPT ![j] = FALSE]
    /\ claimant' = [claimant EXCEPT ![j] = NoActor]

\* A plain status write: no lease field is touched.
SetStatus(j, s) ==
    /\ status' = [status EXCEPT ![j] = s]
    /\ UNCHANGED <<claimed_by, stale, claimant>>

-----------------------------------------------------------------------------
(* Creation.  Rows are inserted in id order, which is also created_at order. *)

CreateJob(j) ==
    /\ status[j] = "absent"
    /\ \A k \in Jobs : k < j => status[k] # "absent"
    /\ \E s \in {"pending", "hold"} : status' = [status EXCEPT ![j] = s]
    /\ UNCHANGED <<claimed_by, stale, attempts, actors, reaper, history>>

-----------------------------------------------------------------------------
(* The pool's claim: SELECT the oldest pending row, then a conditional     *)
(* UPDATE that re-checks status='pending'.                                 *)

OldestPending(j) ==
    /\ status[j] = "pending"
    /\ \A k \in Jobs : status[k] = "pending" => j <= k

ClaimSelect(w) ==
    /\ pc[w] = "idle"
    /\ \E j \in Jobs : OldestPending(j) /\ job' = [job EXCEPT ![w] = j]
    /\ pc' = [pc EXCEPT ![w] = "selected"]
    /\ UNCHANGED <<table, view, op, reaper, history>>

StillPending(w) == status[job[w]] = "pending"

ClaimWin(w) ==
    /\ pc[w] = "selected"
    /\ StillPending(w)
    /\ TakeLease(w, job[w])
    /\ claims' = [claims EXCEPT ![job[w]] = @ + 1]
    /\ pc' = [pc EXCEPT ![w] = "claimed"]
    /\ UNCHANGED <<attempts, job, view, op, reaper>>

ClaimLose(w) ==
    /\ pc[w] = "selected"
    /\ ~StillPending(w)
    /\ Done(w)
    /\ UNCHANGED <<table, reaper, history>>

-----------------------------------------------------------------------------
(* Holding a job: process_job / Remediator load the row into their own     *)
(* session, the pool's heartbeat loop renews the lease, release ends it.   *)

LoadJob(a) ==
    /\ pc[a] = "claimed"
    /\ view' = [view EXCEPT ![a] = status[job[a]]]
    /\ pc' = [pc EXCEPT ![a] = "working"]
    /\ UNCHANGED <<table, job, op, reaper, history>>

\* Only the pool heartbeats: the API runs a Remediator with no renewal.
Heartbeat(w) ==
    /\ Holding(w)
    /\ Fenced(w)
    /\ stale' = [stale EXCEPT ![job[w]] = FALSE]
    /\ UNCHANGED <<status, claimed_by, attempts, actors, reaper, history>>

\* LeaseLost in the heartbeat loop cancels the processing task.
HeartbeatLost(w) ==
    /\ Holding(w)
    /\ ~Fenced(w)
    /\ Done(w)
    /\ UNCHANGED <<table, reaper, history>>

\* A pool job ends in any terminal status, an API remediation in two of them.
Outcomes(a) ==
    IF a \in Workers THEN TERMINAL_STATUSES ELSE {"quarantine", "remediated"}

Release(a) ==
    /\ pc[a] = "working"
    /\ \E s \in Outcomes(a) : CanMove(view[a], s) /\ LeaveLease(job[a], s)
    /\ Fenced(a)
    /\ Done(a)
    /\ UNCHANGED <<attempts, reaper, claims>>

\* InvalidTransition from the stale in-memory status, or LeaseLost.
ReleaseLost(a) ==
    /\ pc[a] = "working"
    /\ ~Fenced(a) \/ \A s \in Outcomes(a) : ~CanMove(view[a], s)
    /\ Done(a)
    /\ UNCHANGED <<table, reaper, history>>

\* An exception no handler turns into a release leaves the row active.
Abandon(a) ==
    /\ Holding(a)
    /\ Done(a)
    /\ UNCHANGED <<table, reaper, history>>

-----------------------------------------------------------------------------
(* Time and the reaper.  SELECT active rows with an old heartbeat; then    *)
(* one transaction of UPDATEs by primary key, computed from the rows read. *)

LeaseExpires(j) ==
    /\ status[j] = "active" /\ ~stale[j]
    /\ stale' = [stale EXCEPT ![j] = TRUE]
    /\ UNCHANGED <<status, claimed_by, attempts, actors, reaper, history>>

StaleJobs == {j \in Jobs : status[j] = "active" /\ stale[j]}

ReapSelect ==
    /\ picked = {}
    /\ StaleJobs # {}
    /\ picked' = StaleJobs
    /\ snap' = [j \in Jobs |-> IF j \in StaleJobs THEN attempts[j] ELSE 0]
    /\ UNCHANGED <<table, actors, history>>

\* The attempts value written back, from the one read.
ReapCount(n) == n + 1

ReapTarget(n) == IF n > MaxAttempts THEN "error" ELSE "pending"

ReapWrite ==
    /\ picked # {}
    /\ attempts' = [j \in Jobs |-> IF j \in picked THEN ReapCount(snap[j]) ELSE attempts[j]]
    /\ status' = [j \in Jobs |->
                    IF j \in picked THEN ReapTarget(ReapCount(snap[j])) ELSE status[j]]
    /\ claimed_by' = [j \in Jobs |-> IF j \in picked THEN NoOwner ELSE claimed_by[j]]
    /\ stale' = [j \in Jobs |-> stale[j] /\ j \notin picked]
    /\ claimant' = [j \in Jobs |-> IF j \in picked THEN NoActor ELSE claimant[j]]
    /\ picked' = {}
    /\ snap' = [j \in Jobs |-> 0]
    /\ UNCHANGED <<actors, claims>>

-----------------------------------------------------------------------------
(* Review requests: session.get, the endpoint's and _check_transition's    *)
(* tests on the status read, then one UPDATE fenced on the row's status.   *)

Accepts(o, s) ==
    CASE o = "park"                -> CanMove(s, "hold")
      [] o \in {"unpark", "rerun"} -> CanMove(s, "pending")
      [] o = "approve"             -> s = "quarantine"
      [] o \in {"verdict", "replace"} -> s \in VERDICT_ALLOWED_STATUSES

OpenRequest(r) ==
    /\ pc[r] = "idle"
    /\ \E j \in Jobs, o \in Ops :
          /\ status[j] # "absent"
          /\ Accepts(o, status[j])
          /\ job' = [job EXCEPT ![r] = j]
          /\ op' = [op EXCEPT ![r] = o]
          /\ view' = [view EXCEPT ![r] = status[j]]
    /\ pc' = [pc EXCEPT ![r] = "read"]
    /\ UNCHANGED <<table, reaper, history>>

\* The statuses the UPDATE's WHERE clause accepts.
FromStatuses(r) ==
    CASE op[r] = "park"    -> {"pending"}
      [] op[r] = "unpark"  -> {"hold"}
      [] op[r] = "approve" -> {"quarantine"}
      [] op[r] = "replace" -> VERDICT_ALLOWED_STATUSES
      [] OTHER             -> {view[r]}

Ready(r, o) == pc[r] = "read" /\ op[r] = o /\ status[job[r]] \in FromStatuses(r)

Park(r) ==
    /\ Ready(r, "park")
    /\ SetStatus(job[r], "hold")
    /\ Done(r)
    /\ UNCHANGED <<attempts, reaper, claims>>

Unpark(r) ==
    /\ Ready(r, "unpark")
    /\ SetStatus(job[r], "pending")
    /\ Done(r)
    /\ UNCHANGED <<attempts, reaper, claims>>

Requeue(r) ==
    /\ Ready(r, "rerun")
    /\ LeaveLease(job[r], "pending")
    /\ attempts' = [attempts EXCEPT ![job[r]] = 0]
    /\ claims' = [claims EXCEPT ![job[r]] = 0]
    /\ Done(r)
    /\ UNCHANGED reaper

SetStatusChecked(r) ==
    /\ Ready(r, "verdict")
    /\ \E s \in Verdicts : SetStatus(job[r], s)
    /\ Done(r)
    /\ UNCHANGED <<attempts, reaper, claims>>

ClaimForApi(r) ==
    /\ Ready(r, "approve") \/ Ready(r, "replace")
    /\ TakeLease(r, job[r])
    /\ pc' = [pc EXCEPT ![r] = "claimed"]
    /\ UNCHANGED <<attempts, job, view, op, reaper, claims>>

\* rowcount 0: InvalidTransition, answered 409.
RequestLost(r) ==
    /\ pc[r] = "read"
    /\ status[job[r]] \notin FromStatuses(r)
    /\ Done(r)
    /\ UNCHANGED <<table, reaper, history>>

-----------------------------------------------------------------------------
(* Process death or shutdown: every task, request and the reaper vanish;   *)
(* the table stays.  The pool starts again with the same worker ids.       *)

Crash ==
    /\ pc' = [a \in Actors |-> "idle"]
    /\ job' = [a \in Actors |-> NoJob]
    /\ view' = [a \in Actors |-> NoView]
    /\ op' = [a \in Actors |-> NoOp]
    /\ picked' = {}
    /\ snap' = [j \in Jobs |-> 0]
    /\ UNCHANGED <<table, history>>

-----------------------------------------------------------------------------
WorkerStep(w) ==
    \/ ClaimSelect(w) \/ ClaimWin(w) \/ ClaimLose(w)
    \/ LoadJob(w) \/ Release(w) \/ ReleaseLost(w)

Renewal(w) == Heartbeat(w) \/ HeartbeatLost(w)

RequestStep(r) ==
    \/ Park(r) \/ Unpark(r) \/ Requeue(r) \/ SetStatusChecked(r)
    \/ ClaimForApi(r) \/ RequestLost(r)
    \/ LoadJob(r) \/ Release(r) \/ ReleaseLost(r)

Next ==
    \/ \E j \in Jobs : CreateJob(j) \/ LeaseExpires(j)
    \/ \E w \in Workers : WorkerStep(w) \/ Renewal(w)
    \/ \E r \in Requests : OpenRequest(r) \/ RequestStep(r)
    \/ \E a \in Actors : Abandon(a)
    \/ ReapSelect \/ ReapWrite
    \/ Crash

Spec == Init /\ [][Next]_vars

-----------------------------------------------------------------------------
(* Fairness: the event loop keeps scheduling the worker tasks, the reaper  *)
(* and open requests, and the pipeline's stages return; a lease nobody can *)
(* renew gets old.  Operators, crashes and exceptions are not fair.        *)

Abandoned(j) == \A w \in Workers : ~(Holding(w) /\ job[w] = j /\ Fenced(w))

Fairness ==
    /\ \A w \in Workers : WF_vars(WorkerStep(w)) /\ WF_vars(HeartbeatLost(w))
    /\ \A r \in Requests : WF_vars(RequestStep(r))
    /\ \A j \in Jobs : WF_vars(Abandoned(j) /\ LeaseExpires(j))
    /\ WF_vars(ReapSelect) /\ WF_vars(ReapWrite)

FairSpec == Spec /\ Fairness

-----------------------------------------------------------------------------
(* Properties *)

\* The lease columns say exactly who works: claimed_by is set while and only
\* while the row is active, so no settled, parked or pending job keeps an
\* owner and no active job lacks one the reaper could never time out.
\* (claim_next, release, reap_stale, requeue, claim_for_api)
LeaseShape ==
    \A j \in Jobs : /\ (status[j] = "active") <=> (claimed_by[j] # NoOwner)
                    /\ stale[j] => status[j] = "active"

\* A row that has used up its attempts is in error: nothing but an operator's
\* requeue, which resets the counter, can bring it back.  (reap_stale)
AttemptsCapped ==
    \A j \in Jobs : attempts[j] > MaxAttempts => status[j] = "error"

\* A job that keeps killing its worker is claimed by the pool a bounded
\* number of times before it lands in error, whatever crashes, parks, human
\* verdicts and API claims are mixed in.  (claim_next, reap_stale, requeue)
PoisonBounded == \A j \in Jobs : claims[j] <= MaxAttempts + 1

\* A pool worker passes the lease fence of heartbeat and release only while
\* the claim on the row is its own, never a later claimant's.
PoolFenceSound ==
    \A w \in Workers : Holding(w) /\ Fenced(w) => claimant[job[w]] = w

\* The same for the review endpoints, as jobs.py's header promises of every
\* holder of a lease.
ApiFenceSound ==
    \A r \in Requests : Holding(r) /\ Fenced(r) => claimant[job[r]] = r

\* A claim never lands on a row somebody already has: of two actors that read
\* the same claimable row, one wins.  (claim_next, claim_for_api)
NoSteal ==
    [][\A j \in Jobs : (status[j] = "active" /\ claimant'[j] # NoActor)
                          => claimant'[j] = claimant[j]]_vars

\* Whatever the interleaving, one job's status moves as JobLifecycle says.
Lifecycle == INSTANCE JobLifecycle WITH condemned <- picked
LifecycleSpec == Lifecycle!Spec

\* Once operators and crashes stop interfering, no job stays in the queue or
\* in somebody's hands for ever: it settles, or it is on hold.
Quiet == <>[][~Crash /\ ~\E r \in Requests : OpenRequest(r)]_vars

Unsettled(j) == status[j] \in {"pending", "active"}

JobsSettle == Quiet => \A j \in Jobs : []<>~Unsettled(j)
=============================================================================
