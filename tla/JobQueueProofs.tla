--------------------------- MODULE JobQueueProofs ---------------------------
(***************************************************************************)
(* Proofs about JobQueue for every number of jobs, workers and requests.   *)
(***************************************************************************)
EXTENDS JobQueue, TLAPS

(***************************************************************************)
(* What an actor's registers say: a busy actor has a job, that job's row   *)
(* exists, and an actor that loaded the row works from a status it read    *)
(* there; a request has an operation that status admits.                   *)
(***************************************************************************)
ActorShape ==
    \A a \in Actors :
        /\ pc[a] # "idle" => job[a] \in Jobs
        /\ job[a] \in Jobs => status[job[a]] # "absent"
        /\ pc[a] \in {"read", "working"} => view[a] \in JobStatuses
        /\ pc[a] = "read" => op[a] # NoOp /\ Accepts(op[a], view[a])

Inv1 == TypeOK /\ ActorShape /\ AttemptsCapped

-----------------------------------------------------------------------------
(* Facts about the constants *)

\* 0 is no job, so an actor's job register tells "busy" from "idle".
LEMMA JobsFacts == Jobs \subseteq Nat /\ NoJob \notin Jobs
BY NumJobsAssumption DEF Jobs, NoJob

\* Every actor's worker id, and NULL, is a possible claimed_by.
LEMMA OwnersFacts == (\A a \in Actors : IdOf[a] \in Owners) /\ NoOwner \in Owners
BY DEF Owners

\* Every status the code writes is one of models.JOB_STATUSES, and neither a
\* row that does not exist nor an empty register has one.
LEMMA StatusesTyped ==
    /\ TERMINAL_STATUSES \subseteq JobStatuses
    /\ Verdicts \subseteq JobStatuses
    /\ VERDICT_ALLOWED_STATUSES \subseteq JobStatuses
    /\ {"hold", "pending", "active", "error", "quarantine", "remediated"} \subseteq JobStatuses
    /\ "absent" \notin JobStatuses /\ NoView \notin JobStatuses
    /\ \A a \in Actors : Outcomes(a) \subseteq TERMINAL_STATUSES
    /\ "active" \notin TERMINAL_STATUSES
BY DEF JobStatuses, TERMINAL_STATUSES, Verdicts, VERDICT_ALLOWED_STATUSES, NoView,
       Outcomes

\* No step writes a value outside its column's or register's type; attempts
\* stays in range because a row past the cap is never picked again.
LEMMA TypeStep == Inv1 /\ [Next]_vars => TypeOK'
<1> SUFFICES ASSUME Inv1, [Next]_vars PROVE TypeOK'
  OBVIOUS
<1>a. TypeOK /\ ActorShape /\ AttemptsCapped
  BY DEF Inv1
<1>b. Workers \subseteq Actors /\ Requests \subseteq Actors
  BY DEF Actors
<1> USE <1>a, <1>b, JobsFacts, OwnersFacts, StatusesTyped, MaxAttemptsAssumption
        DEF TypeOK, ActorShape, table, actors, reaper, history
<1>1. ASSUME NEW j \in Jobs, CreateJob(j) PROVE TypeOK'
  BY <1>1 DEF CreateJob
<1>2. ASSUME NEW j \in Jobs, LeaseExpires(j) PROVE TypeOK'
  BY <1>2 DEF LeaseExpires
<1>3. ASSUME NEW w \in Workers, ClaimSelect(w) PROVE TypeOK'
  BY <1>3 DEF ClaimSelect, PcStates
<1>4. ASSUME NEW w \in Workers, ClaimWin(w) PROVE TypeOK'
  <2>1. job[w] \in Jobs /\ w \in Actors
    BY <1>4 DEF ClaimWin
  <2>2. claims' \in [Jobs -> Nat]
    <3>1. claims[job[w]] \in Nat
      BY <2>1, Zenon
    <3>2. claims[job[w]] + 1 \in Nat
      BY <3>1
    <3> QED
      BY <1>4, <2>1, <3>2 DEF ClaimWin
  <2> QED
    BY <1>4, <2>1, <2>2 DEF ClaimWin, TakeLease, PcStates
<1>5. ASSUME NEW w \in Workers, ClaimLose(w) PROVE TypeOK'
  BY <1>5 DEF ClaimLose, Done, PcStates
<1>6. ASSUME NEW a \in Actors, LoadJob(a) PROVE TypeOK'
  BY <1>6 DEF LoadJob, PcStates
<1>7. ASSUME NEW w \in Workers, Renewal(w) PROVE TypeOK'
  <2>1. CASE Heartbeat(w)
    BY <2>1 DEF Heartbeat
  <2>2. CASE HeartbeatLost(w)
    BY <2>2 DEF HeartbeatLost, Done, PcStates
  <2> QED
    BY <1>7, <2>1, <2>2 DEF Renewal
<1>8. ASSUME NEW a \in Actors, Release(a) PROVE TypeOK'
  BY <1>8 DEF Release, LeaveLease, Done, PcStates
<1>9. ASSUME NEW a \in Actors, ReleaseLost(a) PROVE TypeOK'
  BY <1>9 DEF ReleaseLost, Done, PcStates
<1>10. ASSUME NEW a \in Actors, Abandon(a) PROVE TypeOK'
  BY <1>10 DEF Abandon, Done, PcStates
<1>11. ASSUME ReapSelect PROVE TypeOK'
  <2>1. \A j \in StaleJobs : attempts[j] \in 0 .. MaxAttempts
    BY DEF StaleJobs, AttemptsCapped
  <2>2. snap' \in [Jobs -> 0 .. MaxAttempts]
    BY <1>11, <2>1 DEF ReapSelect
  <2> QED
    BY <1>11, <2>2 DEF ReapSelect, StaleJobs
<1>12. ASSUME ReapWrite PROVE TypeOK'
  BY <1>12 DEF ReapWrite, ReapTarget, ReapCount
<1>13. ASSUME NEW r \in Requests, OpenRequest(r) PROVE TypeOK'
  BY <1>13 DEF OpenRequest, PcStates
<1>14. ASSUME NEW r \in Requests, Park(r) PROVE TypeOK'
  BY <1>14 DEF Park, SetStatus, Done, PcStates, Ready
<1>15. ASSUME NEW r \in Requests, Unpark(r) PROVE TypeOK'
  BY <1>15 DEF Unpark, SetStatus, Done, PcStates, Ready
<1>16. ASSUME NEW r \in Requests, Requeue(r) PROVE TypeOK'
  BY <1>16 DEF Requeue, LeaveLease, Done, PcStates, Ready
<1>17. ASSUME NEW r \in Requests, SetStatusChecked(r) PROVE TypeOK'
  BY <1>17 DEF SetStatusChecked, SetStatus, Done, PcStates, Ready
<1>18. ASSUME NEW r \in Requests, ClaimForApi(r) PROVE TypeOK'
  BY <1>18 DEF ClaimForApi, TakeLease, PcStates, Ready
<1>19. ASSUME NEW r \in Requests, RequestLost(r) PROVE TypeOK'
  BY <1>19 DEF RequestLost, Done, PcStates
<1>20. ASSUME Crash PROVE TypeOK'
  BY <1>20 DEF Crash, PcStates
<1>21. ASSUME UNCHANGED vars PROVE TypeOK'
  BY <1>21 DEF vars
<1> QED
  BY <1>1, <1>2, <1>3, <1>4, <1>5, <1>6, <1>7, <1>8, <1>9, <1>10, <1>11,
     <1>12, <1>13, <1>14, <1>15, <1>16, <1>17, <1>18, <1>19, <1>20, <1>21
     DEF Next, WorkerStep, RequestStep, Actors

\* No step leaves an actor busy without a job or working from a status it
\* never read: rows are never deleted, and Done clears every register.
LEMMA ShapeStep == Inv1 /\ [Next]_vars => ActorShape'
<1> SUFFICES ASSUME Inv1, [Next]_vars PROVE ActorShape'
  OBVIOUS
<1>a. TypeOK /\ ActorShape /\ AttemptsCapped
  BY DEF Inv1
<1>b. Workers \subseteq Actors /\ Requests \subseteq Actors
  BY DEF Actors
<1> USE <1>a, <1>b, JobsFacts, StatusesTyped
   DEF TypeOK, ActorShape, table, actors, reaper, history
<1>1. ASSUME NEW j \in Jobs, CreateJob(j) PROVE ActorShape'
  BY <1>1 DEF CreateJob
<1>2. ASSUME NEW j \in Jobs, LeaseExpires(j) PROVE ActorShape'
  BY <1>2 DEF LeaseExpires
<1>3. ASSUME NEW w \in Workers, ClaimSelect(w) PROVE ActorShape'
  BY <1>3 DEF ClaimSelect, OldestPending
<1>4. ASSUME NEW w \in Workers, ClaimWin(w) PROVE ActorShape'
  BY <1>4 DEF ClaimWin, TakeLease
<1>5. ASSUME NEW w \in Workers, ClaimLose(w) PROVE ActorShape'
  BY <1>5 DEF ClaimLose, Done
<1>6. ASSUME NEW a \in Actors, LoadJob(a) PROVE ActorShape'
  BY <1>6 DEF LoadJob
<1>7. ASSUME NEW w \in Workers, Renewal(w) PROVE ActorShape'
  BY <1>7 DEF Renewal, Heartbeat, HeartbeatLost, Done, Holding
<1>8. ASSUME NEW a \in Actors, Release(a) PROVE ActorShape'
  BY <1>8 DEF Release, LeaveLease, Done
<1>9. ASSUME NEW a \in Actors, ReleaseLost(a) PROVE ActorShape'
  BY <1>9 DEF ReleaseLost, Done
<1>10. ASSUME NEW a \in Actors, Abandon(a) PROVE ActorShape'
  BY <1>10 DEF Abandon, Done
<1>11. ASSUME ReapSelect PROVE ActorShape'
  BY <1>11 DEF ReapSelect, StaleJobs
<1>12. ASSUME ReapWrite PROVE ActorShape'
  BY <1>12 DEF ReapWrite, ReapTarget, ReapCount
<1>13. ASSUME NEW r \in Requests, OpenRequest(r) PROVE ActorShape'
  BY <1>13 DEF OpenRequest, Ops, NoOp
<1>14. ASSUME NEW r \in Requests, Park(r) PROVE ActorShape'
  BY <1>14 DEF Park, SetStatus, Done, Ready, FromStatuses
<1>15. ASSUME NEW r \in Requests, Unpark(r) PROVE ActorShape'
  BY <1>15 DEF Unpark, SetStatus, Done, Ready, FromStatuses
<1>16. ASSUME NEW r \in Requests, Requeue(r) PROVE ActorShape'
  BY <1>16 DEF Requeue, LeaveLease, Done, Ready, FromStatuses
<1>17. ASSUME NEW r \in Requests, SetStatusChecked(r) PROVE ActorShape'
  BY <1>17 DEF SetStatusChecked, SetStatus, Done, Ready, FromStatuses
<1>18. ASSUME NEW r \in Requests, ClaimForApi(r) PROVE ActorShape'
  BY <1>18 DEF ClaimForApi, TakeLease, Ready, FromStatuses
<1>19. ASSUME NEW r \in Requests, RequestLost(r) PROVE ActorShape'
  BY <1>19 DEF RequestLost, Done
<1>20. ASSUME Crash PROVE ActorShape'
  BY <1>20 DEF Crash
<1>21. ASSUME UNCHANGED vars PROVE ActorShape'
  BY <1>21 DEF vars
<1> QED
  BY <1>1, <1>2, <1>3, <1>4, <1>5, <1>6, <1>7, <1>8, <1>9, <1>10, <1>11,
     <1>12, <1>13, <1>14, <1>15, <1>16, <1>17, <1>18, <1>19, <1>20, <1>21
     DEF Next, WorkerStep, RequestStep, Actors

\* Only the reaper counts attempts, and it sends a row past the cap to error.
LEMMA CapStep == Inv1 /\ [Next]_vars => AttemptsCapped'
<1> SUFFICES ASSUME Inv1, [Next]_vars PROVE AttemptsCapped'
  OBVIOUS
<1>a. TypeOK /\ ActorShape /\ AttemptsCapped
  BY DEF Inv1
<1>b. Workers \subseteq Actors /\ Requests \subseteq Actors
  BY DEF Actors
<1> USE <1>a, <1>b, JobsFacts, MaxAttemptsAssumption
   DEF TypeOK, ActorShape, AttemptsCapped, table, actors, reaper, history
<1>1. ASSUME NEW j \in Jobs, CreateJob(j) PROVE AttemptsCapped'
  BY <1>1 DEF CreateJob
<1>2. ASSUME NEW j \in Jobs, LeaseExpires(j) PROVE AttemptsCapped'
  BY <1>2 DEF LeaseExpires
<1>3. ASSUME NEW w \in Workers, ClaimSelect(w) PROVE AttemptsCapped'
  BY <1>3 DEF ClaimSelect
<1>4. ASSUME NEW w \in Workers, ClaimWin(w) PROVE AttemptsCapped'
  BY <1>4 DEF ClaimWin, TakeLease, StillPending
<1>5. ASSUME NEW w \in Workers, ClaimLose(w) PROVE AttemptsCapped'
  BY <1>5 DEF ClaimLose, Done
<1>6. ASSUME NEW a \in Actors, LoadJob(a) PROVE AttemptsCapped'
  BY <1>6 DEF LoadJob
<1>7. ASSUME NEW w \in Workers, Renewal(w) PROVE AttemptsCapped'
  BY <1>7 DEF Renewal, Heartbeat, HeartbeatLost, Done, Holding
<1>8. ASSUME NEW a \in Actors, Release(a) PROVE AttemptsCapped'
  BY <1>8 DEF Release, LeaveLease, Done, Fenced
<1>9. ASSUME NEW a \in Actors, ReleaseLost(a) PROVE AttemptsCapped'
  BY <1>9 DEF ReleaseLost, Done
<1>10. ASSUME NEW a \in Actors, Abandon(a) PROVE AttemptsCapped'
  BY <1>10 DEF Abandon, Done
<1>11. ASSUME ReapSelect PROVE AttemptsCapped'
  BY <1>11 DEF ReapSelect, StaleJobs
<1>12. ASSUME ReapWrite PROVE AttemptsCapped'
  BY <1>12 DEF ReapWrite, ReapTarget, ReapCount
<1>13. ASSUME NEW r \in Requests, OpenRequest(r) PROVE AttemptsCapped'
  BY <1>13 DEF OpenRequest, Ops, NoOp
<1>14. ASSUME NEW r \in Requests, Park(r) PROVE AttemptsCapped'
  BY <1>14 DEF Park, SetStatus, Done, Ready, FromStatuses
<1>15. ASSUME NEW r \in Requests, Unpark(r) PROVE AttemptsCapped'
  BY <1>15 DEF Unpark, SetStatus, Done, Ready, FromStatuses
<1>16. ASSUME NEW r \in Requests, Requeue(r) PROVE AttemptsCapped'
  BY <1>16 DEF Requeue, LeaveLease, Done, Ready, FromStatuses
<1>17. ASSUME NEW r \in Requests, SetStatusChecked(r) PROVE AttemptsCapped'
  BY <1>17
     DEF SetStatusChecked, SetStatus, Done, Ready, FromStatuses, Accepts, NoOp,
         VERDICT_ALLOWED_STATUSES
<1>18. ASSUME NEW r \in Requests, ClaimForApi(r) PROVE AttemptsCapped'
  BY <1>18 DEF ClaimForApi, TakeLease, Ready, FromStatuses, VERDICT_ALLOWED_STATUSES
<1>19. ASSUME NEW r \in Requests, RequestLost(r) PROVE AttemptsCapped'
  BY <1>19 DEF RequestLost, Done
<1>20. ASSUME Crash PROVE AttemptsCapped'
  BY <1>20 DEF Crash
<1>21. ASSUME UNCHANGED vars PROVE AttemptsCapped'
  BY <1>21 DEF vars
<1> QED
  BY <1>1, <1>2, <1>3, <1>4, <1>5, <1>6, <1>7, <1>8, <1>9, <1>10, <1>11,
     <1>12, <1>13, <1>14, <1>15, <1>16, <1>17, <1>18, <1>19, <1>20, <1>21
     DEF Next, WorkerStep, RequestStep, Actors

-----------------------------------------------------------------------------
(* Leases *)

\* Claims set claimed_by with the status; releases, reaps and requeues clear
\* both; a fenced status write never starts or ends at active.
LEMMA LeaseStep == Inv1 /\ LeaseShape /\ [Next]_vars => LeaseShape'
<1> SUFFICES ASSUME Inv1, LeaseShape, [Next]_vars PROVE LeaseShape'
  OBVIOUS
<1>a. TypeOK /\ ActorShape /\ AttemptsCapped
  BY DEF Inv1
<1>b. Workers \subseteq Actors /\ Requests \subseteq Actors
  BY DEF Actors
<1> USE <1>a, <1>b, JobsFacts, StatusesTyped, OwnerAssumption
   DEF TypeOK, ActorShape, LeaseShape, table, actors, reaper, history
<1>1. ASSUME NEW j \in Jobs, CreateJob(j) PROVE LeaseShape'
  BY <1>1 DEF CreateJob
<1>2. ASSUME NEW j \in Jobs, LeaseExpires(j) PROVE LeaseShape'
  BY <1>2 DEF LeaseExpires
<1>3. ASSUME NEW w \in Workers, ClaimSelect(w) PROVE LeaseShape'
  BY <1>3 DEF ClaimSelect
<1>4. ASSUME NEW w \in Workers, ClaimWin(w) PROVE LeaseShape'
  BY <1>4 DEF ClaimWin, TakeLease, StillPending
<1>5. ASSUME NEW w \in Workers, ClaimLose(w) PROVE LeaseShape'
  BY <1>5 DEF ClaimLose, Done
<1>6. ASSUME NEW a \in Actors, LoadJob(a) PROVE LeaseShape'
  BY <1>6 DEF LoadJob
<1>7. ASSUME NEW w \in Workers, Renewal(w) PROVE LeaseShape'
  BY <1>7 DEF Renewal, Heartbeat, HeartbeatLost, Done, Holding
<1>8. ASSUME NEW a \in Actors, Release(a) PROVE LeaseShape'
  BY <1>8 DEF Release, LeaveLease, Done, Fenced, Outcomes
<1>9. ASSUME NEW a \in Actors, ReleaseLost(a) PROVE LeaseShape'
  BY <1>9 DEF ReleaseLost, Done
<1>10. ASSUME NEW a \in Actors, Abandon(a) PROVE LeaseShape'
  BY <1>10 DEF Abandon, Done
<1>11. ASSUME ReapSelect PROVE LeaseShape'
  BY <1>11 DEF ReapSelect, StaleJobs
<1>12. ASSUME ReapWrite PROVE LeaseShape'
  BY <1>12 DEF ReapWrite, ReapTarget, ReapCount
<1>13. ASSUME NEW r \in Requests, OpenRequest(r) PROVE LeaseShape'
  BY <1>13 DEF OpenRequest
<1>14. ASSUME NEW r \in Requests, Park(r) PROVE LeaseShape'
  BY <1>14 DEF Park, SetStatus, Done, Ready, FromStatuses
<1>15. ASSUME NEW r \in Requests, Unpark(r) PROVE LeaseShape'
  BY <1>15 DEF Unpark, SetStatus, Done, Ready, FromStatuses
<1>16. ASSUME NEW r \in Requests, Requeue(r) PROVE LeaseShape'
  BY <1>16 DEF Requeue, LeaveLease, Done, Ready, FromStatuses
<1>17. ASSUME NEW r \in Requests, SetStatusChecked(r) PROVE LeaseShape'
  BY <1>17
     DEF SetStatusChecked, SetStatus, Done, Ready, FromStatuses, Accepts,
         Verdicts, NoOp, VERDICT_ALLOWED_STATUSES
<1>18. ASSUME NEW r \in Requests, ClaimForApi(r) PROVE LeaseShape'
  BY <1>18 DEF ClaimForApi, TakeLease, Ready, FromStatuses
<1>19. ASSUME NEW r \in Requests, RequestLost(r) PROVE LeaseShape'
  BY <1>19 DEF RequestLost, Done
<1>20. ASSUME Crash PROVE LeaseShape'
  BY <1>20 DEF Crash
<1>21. ASSUME UNCHANGED vars PROVE LeaseShape'
  BY <1>21 DEF vars
<1> QED
  BY <1>1, <1>2, <1>3, <1>4, <1>5, <1>6, <1>7, <1>8, <1>9, <1>10, <1>11,
     <1>12, <1>13, <1>14, <1>15, <1>16, <1>17, <1>18, <1>19, <1>20, <1>21
     DEF Next, WorkerStep, RequestStep, Actors

\* A worker's fence keeps naming its own claim: whoever takes the row next
\* writes another id, because worker ids are distinct.
LEMMA FenceStep == Inv1 /\ PoolFenceSound /\ [Next]_vars => PoolFenceSound'
<1> SUFFICES ASSUME Inv1, PoolFenceSound, [Next]_vars PROVE PoolFenceSound'
  OBVIOUS
<1>a. TypeOK /\ ActorShape /\ AttemptsCapped
  BY DEF Inv1
<1>b. Workers \subseteq Actors /\ Requests \subseteq Actors
  BY DEF Actors
<1> USE <1>a, <1>b, JobsFacts, OwnerAssumption, WorkerIdsAssumption
   DEF TypeOK, ActorShape, PoolFenceSound, Holding, Fenced, table, actors, reaper,
       history
<1>1. ASSUME NEW j \in Jobs, CreateJob(j) PROVE PoolFenceSound'
  BY <1>1 DEF CreateJob
<1>2. ASSUME NEW j \in Jobs, LeaseExpires(j) PROVE PoolFenceSound'
  BY <1>2 DEF LeaseExpires
<1>3. ASSUME NEW w \in Workers, ClaimSelect(w) PROVE PoolFenceSound'
  BY <1>3 DEF ClaimSelect
<1>4. ASSUME NEW w \in Workers, ClaimWin(w) PROVE PoolFenceSound'
  BY <1>4 DEF ClaimWin, TakeLease, StillPending
<1>5. ASSUME NEW w \in Workers, ClaimLose(w) PROVE PoolFenceSound'
  BY <1>5 DEF ClaimLose, Done
<1>6. ASSUME NEW a \in Actors, LoadJob(a) PROVE PoolFenceSound'
  BY <1>6 DEF LoadJob
<1>7. ASSUME NEW w \in Workers, Renewal(w) PROVE PoolFenceSound'
  BY <1>7 DEF Renewal, Heartbeat, HeartbeatLost, Done, Holding
<1>8. ASSUME NEW a \in Actors, Release(a) PROVE PoolFenceSound'
  BY <1>8 DEF Release, LeaveLease, Done, Fenced
<1>9. ASSUME NEW a \in Actors, ReleaseLost(a) PROVE PoolFenceSound'
  BY <1>9 DEF ReleaseLost, Done
<1>10. ASSUME NEW a \in Actors, Abandon(a) PROVE PoolFenceSound'
  BY <1>10 DEF Abandon, Done
<1>11. ASSUME ReapSelect PROVE PoolFenceSound'
  BY <1>11 DEF ReapSelect, StaleJobs
<1>12. ASSUME ReapWrite PROVE PoolFenceSound'
  BY <1>12 DEF ReapWrite, ReapTarget, ReapCount
<1>13. ASSUME NEW r \in Requests, OpenRequest(r) PROVE PoolFenceSound'
  BY <1>13 DEF OpenRequest
<1>14. ASSUME NEW r \in Requests, Park(r) PROVE PoolFenceSound'
  BY <1>14 DEF Park, SetStatus, Done, Ready, FromStatuses
<1>15. ASSUME NEW r \in Requests, Unpark(r) PROVE PoolFenceSound'
  BY <1>15 DEF Unpark, SetStatus, Done, Ready, FromStatuses
<1>16. ASSUME NEW r \in Requests, Requeue(r) PROVE PoolFenceSound'
  BY <1>16 DEF Requeue, LeaveLease, Done, Ready, FromStatuses
<1>17. ASSUME NEW r \in Requests, SetStatusChecked(r) PROVE PoolFenceSound'
  BY <1>17 DEF SetStatusChecked, SetStatus, Done, Ready, FromStatuses, Verdicts
<1>18. ASSUME NEW r \in Requests, ClaimForApi(r) PROVE PoolFenceSound'
  BY <1>18 DEF ClaimForApi, TakeLease, Ready, FromStatuses
<1>19. ASSUME NEW r \in Requests, RequestLost(r) PROVE PoolFenceSound'
  BY <1>19 DEF RequestLost, Done
<1>20. ASSUME Crash PROVE PoolFenceSound'
  BY <1>20 DEF Crash
<1>21. ASSUME UNCHANGED vars PROVE PoolFenceSound'
  BY <1>21 DEF vars
<1> QED
  BY <1>1, <1>2, <1>3, <1>4, <1>5, <1>6, <1>7, <1>8, <1>9, <1>10, <1>11,
     <1>12, <1>13, <1>14, <1>15, <1>16, <1>17, <1>18, <1>19, <1>20, <1>21
     DEF Next, WorkerStep, RequestStep, Actors

-----------------------------------------------------------------------------
(* Claims *)

(***************************************************************************)
(* Each pool claim is paid for by an attempt, except the latest one of a   *)
(* job that has not come back to the queue since; and the reaper, which    *)
(* writes back attempts it read earlier, never loses a payment.            *)
(***************************************************************************)
Paid(j) ==
    /\ claims[j] <= attempts[j] + 1
    /\ status[j] \in {"absent", "pending", "hold"} \/ attempts[j] > MaxAttempts
          => claims[j] <= attempts[j]

SnapCovers == \A j \in picked : snap[j] >= attempts[j]

ClaimsInv == (\A j \in Jobs : Paid(j)) /\ SnapCovers

\* Each pool claim after the first of a job is paid for by a counted attempt,
\* also while a reaped snapshot waits to be written.
LEMMA ClaimsStep == Inv1 /\ ClaimsInv /\ [Next]_vars => ClaimsInv'
<1> SUFFICES ASSUME Inv1, ClaimsInv, [Next]_vars PROVE ClaimsInv'
  OBVIOUS
<1>a. TypeOK /\ ActorShape /\ AttemptsCapped
  BY DEF Inv1
<1>b. Workers \subseteq Actors /\ Requests \subseteq Actors
  BY DEF Actors
<1> USE <1>a, <1>b, JobsFacts, StatusesTyped, MaxAttemptsAssumption
   DEF TypeOK, ActorShape, ClaimsInv, SnapCovers, Paid, table, actors, reaper,
       history
<1>1. ASSUME NEW j \in Jobs, CreateJob(j) PROVE ClaimsInv'
  BY <1>1 DEF CreateJob
<1>2. ASSUME NEW j \in Jobs, LeaseExpires(j) PROVE ClaimsInv'
  BY <1>2 DEF LeaseExpires
<1>3. ASSUME NEW w \in Workers, ClaimSelect(w) PROVE ClaimsInv'
  BY <1>3 DEF ClaimSelect
<1>4. ASSUME NEW w \in Workers, ClaimWin(w) PROVE ClaimsInv'
  BY <1>4 DEF ClaimWin, TakeLease, StillPending, AttemptsCapped
<1>5. ASSUME NEW w \in Workers, ClaimLose(w) PROVE ClaimsInv'
  BY <1>5 DEF ClaimLose, Done
<1>6. ASSUME NEW a \in Actors, LoadJob(a) PROVE ClaimsInv'
  BY <1>6 DEF LoadJob
<1>7. ASSUME NEW w \in Workers, Renewal(w) PROVE ClaimsInv'
  BY <1>7 DEF Renewal, Heartbeat, HeartbeatLost, Done, Holding
<1>8. ASSUME NEW a \in Actors, Release(a) PROVE ClaimsInv'
  BY <1>8
     DEF Release, LeaveLease, Done, Fenced, Outcomes, TERMINAL_STATUSES,
         AttemptsCapped
<1>9. ASSUME NEW a \in Actors, ReleaseLost(a) PROVE ClaimsInv'
  BY <1>9 DEF ReleaseLost, Done
<1>10. ASSUME NEW a \in Actors, Abandon(a) PROVE ClaimsInv'
  BY <1>10 DEF Abandon, Done
<1>11. ASSUME ReapSelect PROVE ClaimsInv'
  BY <1>11 DEF ReapSelect, StaleJobs
<1>12. ASSUME ReapWrite PROVE ClaimsInv'
  BY <1>12 DEF ReapWrite, ReapTarget, ReapCount
<1>13. ASSUME NEW r \in Requests, OpenRequest(r) PROVE ClaimsInv'
  BY <1>13 DEF OpenRequest
<1>14. ASSUME NEW r \in Requests, Park(r) PROVE ClaimsInv'
  BY <1>14 DEF Park, SetStatus, Done, Ready, FromStatuses
<1>15. ASSUME NEW r \in Requests, Unpark(r) PROVE ClaimsInv'
  BY <1>15 DEF Unpark, SetStatus, Done, Ready, FromStatuses
<1>16. ASSUME NEW r \in Requests, Requeue(r) PROVE ClaimsInv'
  BY <1>16 DEF Requeue, LeaveLease, Done, Ready, FromStatuses
<1>17. ASSUME NEW r \in Requests, SetStatusChecked(r) PROVE ClaimsInv'
  BY <1>17
     DEF SetStatusChecked, SetStatus, Done, Ready, FromStatuses, Accepts,
         Verdicts, NoOp, VERDICT_ALLOWED_STATUSES
<1>18. ASSUME NEW r \in Requests, ClaimForApi(r) PROVE ClaimsInv'
  BY <1>18 DEF ClaimForApi, TakeLease, Ready, FromStatuses
<1>19. ASSUME NEW r \in Requests, RequestLost(r) PROVE ClaimsInv'
  BY <1>19 DEF RequestLost, Done
<1>20. ASSUME Crash PROVE ClaimsInv'
  BY <1>20 DEF Crash
<1>21. ASSUME UNCHANGED vars PROVE ClaimsInv'
  BY <1>21 DEF vars
<1> QED
  BY <1>1, <1>2, <1>3, <1>4, <1>5, <1>6, <1>7, <1>8, <1>9, <1>10, <1>11,
     <1>12, <1>13, <1>14, <1>15, <1>16, <1>17, <1>18, <1>19, <1>20, <1>21
     DEF Next, WorkerStep, RequestStep, Actors

-----------------------------------------------------------------------------
(* The inductive invariant and what follows from it *)

IInv == Inv1 /\ LeaseShape /\ ClaimsInv /\ PoolFenceSound

\* The empty table satisfies the inductive invariant.
LEMMA IInvInit == Init => IInv
<1> SUFFICES ASSUME Init PROVE IInv
  OBVIOUS
<1>1. TypeOK
  BY JobsFacts, OwnersFacts, MaxAttemptsAssumption DEF Init, TypeOK, PcStates
<1>2. ActorShape /\ AttemptsCapped
  BY JobsFacts, MaxAttemptsAssumption DEF Init, ActorShape, AttemptsCapped
<1>3. LeaseShape /\ ClaimsInv
  BY DEF Init, LeaseShape, ClaimsInv, Paid, SnapCovers
<1>4. PoolFenceSound
  BY DEF Init, PoolFenceSound, Holding, Actors
<1> QED
  BY <1>1, <1>2, <1>3, <1>4 DEF IInv, Inv1

\* Every step, and stuttering, preserves the inductive invariant.
LEMMA IInvStep == IInv /\ [Next]_vars => IInv'
BY TypeStep, ShapeStep, CapStep, LeaseStep, ClaimsStep, FenceStep DEF IInv, Inv1

\* The inductive invariant holds in every reachable state.
LEMMA Invariance == Spec => []IInv
BY IInvInit, IInvStep, PTL DEF Spec

\* Every row and register keeps its type.
THEOREM TypeCorrect == Spec => []TypeOK
<1>1. IInv => TypeOK
  BY DEF IInv, Inv1
<1> QED
  BY <1>1, Invariance, PTL

\* claimed_by is set exactly on active rows, whoever claims, releases, reaps,
\* requeues or judges them.
THEOREM LeaseShapeHolds == Spec => []LeaseShape
<1>1. IInv => LeaseShape
  BY DEF IInv
<1> QED
  BY <1>1, Invariance, PTL

\* A row that used up its attempts is in error.
THEOREM AttemptsCappedHolds == Spec => []AttemptsCapped
<1>1. IInv => AttemptsCapped
  BY DEF IInv, Inv1
<1> QED
  BY <1>1, Invariance, PTL

\* Between two requeues the pool claims one job at most MaxAttempts + 1 times:
\* each further claim is paid for by an attempt the reaper counted.
THEOREM PoisonBoundedHolds == Spec => []PoisonBounded
<1>1. IInv => PoisonBounded
  <2> SUFFICES ASSUME IInv, NEW j \in Jobs PROVE claims[j] <= MaxAttempts + 1
    BY DEF PoisonBounded
  <2>1. attempts[j] \in 0 .. MaxAttempts + 1 /\ claims[j] \in Nat
    BY DEF IInv, Inv1, TypeOK
  <2>2. Paid(j)
    BY DEF IInv, ClaimsInv
  <2> QED
    BY <2>1, <2>2, MaxAttemptsAssumption DEF Paid
<1> QED
  BY <1>1, Invariance, PTL

\* With distinct worker ids, a worker that passes the fence still owns the
\* claim: a reaped worker never overwrites its successor.
THEOREM PoolFenceSoundHolds == Spec => []PoolFenceSound
<1>1. IInv => PoolFenceSound
  BY DEF IInv
<1> QED
  BY <1>1, Invariance, PTL

-----------------------------------------------------------------------------
(* No claim takes an active row *)

NoStealAct ==
    \A j \in Jobs : (status[j] = "active" /\ claimant'[j] # NoActor)
                       => claimant'[j] = claimant[j]

\* No step from a state of the invariant changes an active row's claimant to
\* another actor: a pool claim re-checks pending, an API claim its statuses.
LEMMA NoStealStep == IInv /\ [Next]_vars => NoStealAct
<1> SUFFICES ASSUME IInv, [Next]_vars PROVE NoStealAct
  OBVIOUS
<1>a. TypeOK /\ ActorShape
  BY DEF IInv, Inv1
<1>b. Workers \subseteq Actors /\ Requests \subseteq Actors
  BY DEF Actors
<1> USE <1>a, <1>b, JobsFacts
   DEF TypeOK, ActorShape, NoStealAct, table, actors, reaper, history
<1>1. ASSUME NEW j \in Jobs, CreateJob(j) PROVE NoStealAct
  BY <1>1 DEF CreateJob
<1>2. ASSUME NEW j \in Jobs, LeaseExpires(j) PROVE NoStealAct
  BY <1>2 DEF LeaseExpires
<1>3. ASSUME NEW w \in Workers, ClaimSelect(w) PROVE NoStealAct
  BY <1>3 DEF ClaimSelect
<1>4. ASSUME NEW w \in Workers, ClaimWin(w) PROVE NoStealAct
  BY <1>4 DEF ClaimWin, TakeLease, StillPending
<1>5. ASSUME NEW w \in Workers, ClaimLose(w) PROVE NoStealAct
  BY <1>5 DEF ClaimLose, Done
<1>6. ASSUME NEW a \in Actors, LoadJob(a) PROVE NoStealAct
  BY <1>6 DEF LoadJob
<1>7. ASSUME NEW w \in Workers, Renewal(w) PROVE NoStealAct
  BY <1>7 DEF Renewal, Heartbeat, HeartbeatLost, Done, Holding
<1>8. ASSUME NEW a \in Actors, Release(a) PROVE NoStealAct
  BY <1>8 DEF Release, LeaveLease, Done, Fenced
<1>9. ASSUME NEW a \in Actors, ReleaseLost(a) PROVE NoStealAct
  BY <1>9 DEF ReleaseLost, Done
<1>10. ASSUME NEW a \in Actors, Abandon(a) PROVE NoStealAct
  BY <1>10 DEF Abandon, Done
<1>11. ASSUME ReapSelect PROVE NoStealAct
  BY <1>11 DEF ReapSelect, StaleJobs
<1>12. ASSUME ReapWrite PROVE NoStealAct
  BY <1>12 DEF ReapWrite, ReapTarget, ReapCount
<1>13. ASSUME NEW r \in Requests, OpenRequest(r) PROVE NoStealAct
  BY <1>13 DEF OpenRequest
<1>14. ASSUME NEW r \in Requests, Park(r) PROVE NoStealAct
  BY <1>14 DEF Park, SetStatus, Done, Ready, FromStatuses
<1>15. ASSUME NEW r \in Requests, Unpark(r) PROVE NoStealAct
  BY <1>15 DEF Unpark, SetStatus, Done, Ready, FromStatuses
<1>16. ASSUME NEW r \in Requests, Requeue(r) PROVE NoStealAct
  BY <1>16 DEF Requeue, LeaveLease, Done, Ready, FromStatuses
<1>17. ASSUME NEW r \in Requests, SetStatusChecked(r) PROVE NoStealAct
  BY <1>17 DEF SetStatusChecked, SetStatus, Done, Ready, FromStatuses
<1>18. ASSUME NEW r \in Requests, ClaimForApi(r) PROVE NoStealAct
  BY <1>18 DEF ClaimForApi, TakeLease, Ready, FromStatuses, VERDICT_ALLOWED_STATUSES
<1>19. ASSUME NEW r \in Requests, RequestLost(r) PROVE NoStealAct
  BY <1>19 DEF RequestLost, Done
<1>20. ASSUME Crash PROVE NoStealAct
  BY <1>20 DEF Crash
<1>21. ASSUME UNCHANGED vars PROVE NoStealAct
  BY <1>21 DEF vars
<1> QED
  BY <1>1, <1>2, <1>3, <1>4, <1>5, <1>6, <1>7, <1>8, <1>9, <1>10, <1>11,
     <1>12, <1>13, <1>14, <1>15, <1>16, <1>17, <1>18, <1>19, <1>20, <1>21
     DEF Next, WorkerStep, RequestStep, Actors

\* Of two actors that read the same claimable row, at most one claims it.
THEOREM NoStealHolds == Spec => NoSteal
<1>1. IInv /\ [Next]_vars => [NoStealAct]_vars
  BY NoStealStep
<1>2. Spec => [][NoStealAct]_vars
  BY <1>1, Invariance, PTL DEF Spec
<1> QED
  BY <1>2 DEF NoSteal, NoStealAct

-----------------------------------------------------------------------------
(* JobQueue implements JobLifecycle *)

\* A step that writes s to the row of j, as the table allows, is Lifecycle's
\* Move(j).
LEMMA MoveStep ==
    ASSUME TypeOK, NEW j \in Jobs, NEW s, status[j] # "absent",
           s \in VALID_TRANSITIONS[status[j]],
           status' = [status EXCEPT ![j] = s], UNCHANGED picked
    PROVE  Lifecycle!Next
<1>1. Lifecycle!VALID_TRANSITIONS = VALID_TRANSITIONS
  BY DEF VALID_TRANSITIONS, Lifecycle!VALID_TRANSITIONS, JobStatuses,
         Lifecycle!JobStatuses,
         TERMINAL_STATUSES, Lifecycle!TERMINAL_STATUSES,
         VERDICT_ALLOWED_STATUSES, Lifecycle!VERDICT_ALLOWED_STATUSES
<1>2. Lifecycle!Move(j)
  BY <1>1 DEF Lifecycle!Move
<1> QED
  BY <1>2 DEF Lifecycle!Next

\* The rows of VALID_TRANSITIONS, spelled out for the provers.
LEMMA TableFacts ==
    /\ VALID_TRANSITIONS["hold"] = {"pending"}
    /\ VALID_TRANSITIONS["pending"] = {"hold", "active"}
    /\ VALID_TRANSITIONS["active"] = {"pending"} \cup TERMINAL_STATUSES
    /\ \A s \in VERDICT_ALLOWED_STATUSES :
          VALID_TRANSITIONS[s] = {"pending", "active", "matched", "quarantine", "inconclusive"}
BY DEF VALID_TRANSITIONS, JobStatuses, VERDICT_ALLOWED_STATUSES

\* Every step of the queue is a step of JobLifecycle or leaves it unchanged.
LEMMA LifecycleStep == IInv /\ [Next]_vars => [Lifecycle!Next]_(Lifecycle!vars)
<1> SUFFICES ASSUME IInv, [Next]_vars PROVE [Lifecycle!Next]_(Lifecycle!vars)
  OBVIOUS
<1>a. TypeOK /\ ActorShape
  BY DEF IInv, Inv1
<1>b. Workers \subseteq Actors /\ Requests \subseteq Actors
  BY DEF Actors
<1> DEFINE Goal == [Lifecycle!Next]_(Lifecycle!vars)
<1> USE <1>a, <1>b, JobsFacts, StatusesTyped, TableFacts
   DEF TypeOK, ActorShape, table, actors, reaper, history
<1>1. ASSUME NEW j \in Jobs, CreateJob(j) PROVE Goal
  <2>1. Lifecycle!Create(j)
    BY <1>1 DEF CreateJob, Lifecycle!Create
  <2> QED
    BY <2>1 DEF Lifecycle!Next
<1>2. ASSUME NEW j \in Jobs, LeaseExpires(j) PROVE Goal
  BY <1>2 DEF LeaseExpires, Lifecycle!vars
<1>3. ASSUME NEW w \in Workers, ClaimSelect(w) PROVE Goal
  BY <1>3 DEF ClaimSelect, Lifecycle!vars
<1>4. ASSUME NEW w \in Workers, ClaimWin(w) PROVE Goal
  <2>1. PICK s : /\ s \in VALID_TRANSITIONS[status[job[w]]]
                 /\ status' = [status EXCEPT ![job[w]] = s]
    BY <1>4 DEF ClaimWin, TakeLease, StillPending
  <2>2. job[w] \in Jobs /\ status[job[w]] # "absent" /\ UNCHANGED picked
    BY <1>4 DEF ClaimWin, TakeLease, StillPending
  <2> QED
    BY <2>1, <2>2, MoveStep
<1>5. ASSUME NEW w \in Workers, ClaimLose(w) PROVE Goal
  BY <1>5 DEF ClaimLose, Done, Lifecycle!vars
<1>6. ASSUME NEW a \in Actors, LoadJob(a) PROVE Goal
  BY <1>6 DEF LoadJob, Lifecycle!vars
<1>7. ASSUME NEW w \in Workers, Renewal(w) PROVE Goal
  BY <1>7 DEF Renewal, Heartbeat, HeartbeatLost, Done, Holding, Lifecycle!vars
<1>8. ASSUME NEW a \in Actors, Release(a) PROVE Goal
  <2>1. PICK s : /\ s \in VALID_TRANSITIONS[status[job[a]]]
                 /\ status' = [status EXCEPT ![job[a]] = s]
    BY <1>8 DEF Release, LeaveLease, Done, Fenced, Outcomes
  <2>2. job[a] \in Jobs /\ status[job[a]] # "absent" /\ UNCHANGED picked
    BY <1>8 DEF Release, LeaveLease, Done, Fenced, Outcomes
  <2> QED
    BY <2>1, <2>2, MoveStep
<1>9. ASSUME NEW a \in Actors, ReleaseLost(a) PROVE Goal
  BY <1>9 DEF ReleaseLost, Done, Lifecycle!vars
<1>10. ASSUME NEW a \in Actors, Abandon(a) PROVE Goal
  BY <1>10 DEF Abandon, Done, Lifecycle!vars
<1>11. ASSUME ReapSelect PROVE Goal
  <2>1. Lifecycle!Condemn
    BY <1>11 DEF ReapSelect, StaleJobs, Lifecycle!Condemn
  <2> QED
    BY <2>1 DEF Lifecycle!Next
<1>12. ASSUME ReapWrite PROVE Goal
  <2>1. Lifecycle!JobStatuses = JobStatuses
    BY DEF JobStatuses, Lifecycle!JobStatuses
  <2>2. Lifecycle!Overwrite
    BY <1>12, <2>1 DEF ReapWrite, ReapTarget, ReapCount, Lifecycle!Overwrite
  <2> QED
    BY <2>2 DEF Lifecycle!Next
<1>13. ASSUME NEW r \in Requests, OpenRequest(r) PROVE Goal
  BY <1>13 DEF OpenRequest, Lifecycle!vars
<1>14. ASSUME NEW r \in Requests, Park(r) PROVE Goal
  <2>1. PICK s : /\ s \in VALID_TRANSITIONS[status[job[r]]]
                 /\ status' = [status EXCEPT ![job[r]] = s]
    BY <1>14 DEF Park, SetStatus, Done, Ready, FromStatuses, Accepts, NoOp, CanMove
  <2>2. job[r] \in Jobs /\ status[job[r]] # "absent" /\ UNCHANGED picked
    BY <1>14 DEF Park, SetStatus, Done, Ready, FromStatuses, Accepts, NoOp, CanMove
  <2> QED
    BY <2>1, <2>2, MoveStep
<1>15. ASSUME NEW r \in Requests, Unpark(r) PROVE Goal
  <2>1. PICK s : /\ s \in VALID_TRANSITIONS[status[job[r]]]
                 /\ status' = [status EXCEPT ![job[r]] = s]
    BY <1>15
       DEF Unpark, SetStatus, Done, Ready, FromStatuses, Accepts, NoOp, CanMove
  <2>2. job[r] \in Jobs /\ status[job[r]] # "absent" /\ UNCHANGED picked
    BY <1>15
       DEF Unpark, SetStatus, Done, Ready, FromStatuses, Accepts, NoOp, CanMove
  <2> QED
    BY <2>1, <2>2, MoveStep
<1>16. ASSUME NEW r \in Requests, Requeue(r) PROVE Goal
  <2>1. PICK s : /\ s \in VALID_TRANSITIONS[status[job[r]]]
                 /\ status' = [status EXCEPT ![job[r]] = s]
    BY <1>16
       DEF Requeue, LeaveLease, Done, Ready, FromStatuses, Accepts, NoOp, CanMove,
           VALID_TRANSITIONS
  <2>2. job[r] \in Jobs /\ status[job[r]] # "absent" /\ UNCHANGED picked
    BY <1>16
       DEF Requeue, LeaveLease, Done, Ready, FromStatuses, Accepts, NoOp, CanMove,
           VALID_TRANSITIONS
  <2> QED
    BY <2>1, <2>2, MoveStep
<1>17. ASSUME NEW r \in Requests, SetStatusChecked(r) PROVE Goal
  <2>1. PICK s \in Verdicts : SetStatus(job[r], s)
    BY <1>17 DEF SetStatusChecked
  <2>2. job[r] \in Jobs /\ status[job[r]] # "absent" /\ UNCHANGED picked
    BY <1>17 DEF SetStatusChecked, Ready
  <2>3. status[job[r]] \in VERDICT_ALLOWED_STATUSES
    BY <1>17 DEF SetStatusChecked, Ready, FromStatuses, Accepts, NoOp
  <2>4. s \in VALID_TRANSITIONS[status[job[r]]]
    BY <2>3, TableFacts DEF Verdicts
  <2> QED
    BY <2>1, <2>2, <2>4, MoveStep DEF SetStatus
<1>18. ASSUME NEW r \in Requests, ClaimForApi(r) PROVE Goal
  <2>1. PICK s : /\ s \in VALID_TRANSITIONS[status[job[r]]]
                 /\ status' = [status EXCEPT ![job[r]] = s]
    BY <1>18
       DEF ClaimForApi, TakeLease, Ready, FromStatuses, Accepts, NoOp, CanMove,
           VERDICT_ALLOWED_STATUSES
  <2>2. job[r] \in Jobs /\ status[job[r]] # "absent" /\ UNCHANGED picked
    BY <1>18
       DEF ClaimForApi, TakeLease, Ready, FromStatuses, Accepts, NoOp, CanMove,
           VERDICT_ALLOWED_STATUSES
  <2> QED
    BY <2>1, <2>2, MoveStep
<1>19. ASSUME NEW r \in Requests, RequestLost(r) PROVE Goal
  BY <1>19 DEF RequestLost, Done, Lifecycle!vars
<1>20. ASSUME Crash PROVE Goal
  <2>1. Lifecycle!Forget
    BY <1>20 DEF Crash, Lifecycle!Forget
  <2> QED
    BY <2>1 DEF Lifecycle!Next
<1>21. ASSUME UNCHANGED vars PROVE Goal
  BY <1>21 DEF vars, Lifecycle!vars
<1> QED
  BY <1>1, <1>2, <1>3, <1>4, <1>5, <1>6, <1>7, <1>8, <1>9, <1>10, <1>11,
     <1>12, <1>13, <1>14, <1>15, <1>16, <1>17, <1>18, <1>19, <1>20, <1>21
     DEF Next, WorkerStep, RequestStep, Actors

\* The queue implements the lifecycle: whatever the workers, requests, reaper
\* and crashes do, a status moves along VALID_TRANSITIONS, except that a job
\* condemned while it was active may be put back to pending or error.
THEOREM ImplementsLifecycle == Spec => LifecycleSpec
<1>1. Init => Lifecycle!Init
  BY DEF Init, Lifecycle!Init
<1> QED
  BY <1>1, Invariance, LifecycleStep, PTL DEF Spec, LifecycleSpec, Lifecycle!Spec
=============================================================================
