-------------------------- MODULE WorkerPoolProofs --------------------------
(***************************************************************************)
(* The throttle and the worker loops of WorkerPool, proved for any number  *)
(* of workers, instances and jobs, any hourly limit and any hours.         *)
(*                                                                         *)
(* RateBound needs a ledger: it says nothing of the workers that have      *)
(* passed the gate and not yet spent a token.  OneLateClaim and            *)
(* OnlyStopEndsLoops follow from what holds wherever a loop may be.        *)
(***************************************************************************)
EXTENDS WorkerPool, FiniteSetTheorems, TLAPS

\* The actions of a worker, one disjunct each.
Steps(w) ==
    \/ Wake(w) \/ NextTurn(w) \/ StartRun(w)
    \/ RunReturns(w) \/ NextRound(w) \/ ReRaised(w) \/ CancelDelivered(w)
    \/ ProcessEnds(w) \/ ProcessCancelled(w) \/ BeatRefused(w) \/ LeaseLost(w)
    \/ ClaimThread(w) \/ ClaimRaises(w) \/ BeatRaises(w)

LEMMA NextCases ==
    Next => \/ \E w \in Workers : Steps(w)
            \/ \E j \in Jobs : Requeued(j)
            \/ Pause \/ Resume \/ NewHour \/ Tick \/ Stop \/ Stopped
BY DEF Next, Steps, WorkerStep, RunStep, BeatStep

-----------------------------------------------------------------------------
(* Types *)

LEMMA Numbers ==
    /\ NumInstances \in Nat \ {0} /\ Window \in Nat \ {0} /\ JobsPerHour \in Nat
    /\ HoursPerDay \in Nat \ {0} /\ ActiveStart \in 0 .. HoursPerDay - 1
BY InstanceAssumption, ThrottleAssumption, HoursAssumption

LEMMA RoundTyped ==
    ASSUME TypeOK, NEW w \in Workers, Round(w)
    PROVE  /\ pc' \in [Workers -> {"asleep", "claiming", "running", "finishing", "dead"}]
           /\ cancel' \in [Workers -> BOOLEAN]
           /\ idx' \in [Workers -> Instances]
           /\ tries' \in [Workers -> 0 .. NumInstances - 1]
           /\ inst' \in [Workers -> Instances \cup {None}]
           /\ job' \in [Workers -> Jobs \cup {None}]
           /\ ask' \in [Workers -> {"none", "out", "found", "empty"}]
<1>1. CASE TakeTurn(w, 0)
  BY <1>1, Numbers DEF TakeTurn, GoTo, TypeOK, Instances
<1>2. CASE Sleep(w)
  BY <1>2, Numbers DEF Sleep, GoTo, TypeOK
<1> QED
  BY <1>1, <1>2 DEF Round

LEMMA StepsTyped == ASSUME TypeOK, NEW w \in Workers, Steps(w) PROVE TypeOK'
<1>1. CASE Wake(w)
  BY <1>1, RoundTyped DEF Wake, TypeOK, app, table, run, history
<1>2. CASE NextTurn(w)
  <2>1. CASE tries[w] + 1 < NumInstances
    BY <1>2, <2>1, Numbers DEF NextTurn, TakeTurn, GoTo, TypeOK, Instances, app, table, run, history
  <2>2. CASE ~(tries[w] + 1 < NumInstances)
    BY <1>2, <2>2, Numbers DEF NextTurn, Sleep, GoTo, TypeOK, app, table, run, history
  <2> QED
    BY <2>1, <2>2
<1>3. CASE StartRun(w)
  BY <1>3, Numbers DEF StartRun, Consume, GoTo, TypeOK, Ages, app, table
<1>4. CASE RunReturns(w)
  BY <1>4 DEF RunReturns, AfterRun, EndRun, GoTo, TypeOK, app, table, history
<1>5. CASE NextRound(w)
  BY <1>5, RoundTyped DEF NextRound, TypeOK, app, table, history
<1>6. CASE ReRaised(w)
  BY <1>6, Numbers DEF ReRaised, Die, GoTo, TypeOK, Instances, app, table, history
<1>7. CASE CancelDelivered(w)
  BY <1>7, Numbers DEF CancelDelivered, Die, GoTo, TypeOK, Instances, app, table, history
<1>8. CASE ProcessEnds(w)
  BY <1>8 DEF ProcessEnds, TypeOK, app, table, loop, history
<1>9. CASE ProcessCancelled(w)
  BY <1>9 DEF ProcessCancelled, TypeOK, app, table, loop, history
<1>10. CASE BeatRefused(w)
  BY <1>10 DEF BeatRefused, TypeOK, app, table, loop, history
<1>11. CASE LeaseLost(w)
  BY <1>11 DEF LeaseLost, Cancelling, TypeOK, app, table, loop
<1>12. CASE ClaimThread(w)
  BY <1>12 DEF ClaimThread, Answer, TypeOK, app, table, run, history
<1>13. CASE ClaimRaises(w)
  BY <1>13, Numbers DEF ClaimRaises, Die, GoTo, TypeOK, Instances, app, table, run, history
<1>14. CASE BeatRaises(w)
  BY <1>14 DEF BeatRaises, TypeOK, app, table, loop, history
<1> QED
  BY <1>1, <1>2, <1>3, <1>4, <1>5, <1>6, <1>7, <1>8, <1>9, <1>10, <1>11, <1>12, <1>13, <1>14
     DEF Steps

LEMMA InitTyped == Init => TypeOK
<1> SUFFICES ASSUME Init PROVE TypeOK
  OBVIOUS
<1>1. hour \in 0 .. HoursPerDay - 1 /\ 1 \in Instances /\ 0 \in 0 .. NumInstances - 1
  BY Numbers DEF Init, Instances
<1> QED
  BY <1>1 DEF Init, TypeOK

LEMMA NextTyped == TypeOK /\ [Next]_vars => TypeOK'
<1> SUFFICES ASSUME TypeOK, [Next]_vars PROVE TypeOK'
  OBVIOUS
<1>1. CASE \E w \in Workers : Steps(w)
  BY <1>1, StepsTyped
<1>2. CASE \E j \in Jobs : Requeued(j)
  BY <1>2 DEF Requeued, TypeOK, app, loop, run, history
<1>3. CASE Pause
  BY <1>3 DEF Pause, TypeOK, table, loop, run, history
<1>4. CASE Resume
  BY <1>4 DEF Resume, Reopened, TypeOK, table, loop, run
<1>5. CASE NewHour
  BY <1>5, Numbers DEF NewHour, Reopened, TypeOK, table, loop, run
<1>6. CASE Tick
  <2>1. stamps' \in SUBSET (Workers \X Ages) /\ recent' \in SUBSET (Workers \X Ages)
    BY <1>6, Numbers DEF Tick, Prune, Older, TypeOK, Ages
  <2> QED
    BY <1>6, <2>1 DEF Tick, TypeOK, app, table, loop, run
<1>7. CASE Stop
  BY <1>7 DEF Stop, Cancelling, Alive, TypeOK, table
<1>8. CASE Stopped
  BY <1>8 DEF Stopped, TypeOK, table, loop, run, history
<1>9. CASE UNCHANGED vars
  BY <1>9 DEF TypeOK, vars, app, table, loop, run, history
<1> QED
  BY NextCases, <1>1, <1>2, <1>3, <1>4, <1>5, <1>6, <1>7, <1>8, <1>9

\* The tables, the tasks and the limiter keep their types: no turn leaves the
\* range of the instances, no stamp outlives the hour.  (worker.py,
\* throttle.py)
THEOREM TypeCorrect == Spec => []TypeOK
BY InitTyped, NextTyped, PTL DEF Spec

-----------------------------------------------------------------------------
(* The hourly limit: who is past the gate has a token or is about to take  *)
(* one.                                                                    *)

Claiming == {w \in Workers : pc[w] = "claiming"}

Ledger ==
    /\ stamps = recent
    /\ IsFiniteSet(recent)
    /\ JobsPerHour > 0 =>
          Cardinality(recent) + Cardinality(Claiming) <= JobsPerHour + Cardinality(Workers) - 1

LEMMA ClaimingCounted ==
    /\ IsFiniteSet(Claiming) /\ Cardinality(Claiming) \in Nat
    /\ Cardinality(Claiming) <= Cardinality(Workers) /\ Cardinality(Workers) \in Nat
<1>1. IsFiniteSet(Workers) /\ Claiming \in SUBSET Workers
  BY WorkersAssumption DEF Claiming
<1> QED
  BY <1>1, FS_Subset, FS_CardinalityType

\* A step after which no more workers are claiming and no token is spent.
LEMMA NobodyNew ==
    ASSUME Ledger, stamps' = stamps, recent' = recent, Claiming' \subseteq Claiming
    PROVE  Ledger'
<1>1. IsFiniteSet(Claiming) /\ Claiming' \in SUBSET Claiming
  BY ClaimingCounted
<1>2. Cardinality(Claiming') <= Cardinality(Claiming) /\ Cardinality(Claiming') \in Nat
  BY <1>1, FS_Subset, FS_CardinalityType
<1>3. Cardinality(recent) \in Nat
  BY FS_CardinalityType DEF Ledger
<1> QED
  BY <1>2, <1>3, Numbers, ClaimingCounted DEF Ledger

\* Through the gate with a token free: however many claim, the bound holds.
LEMMA RoundKeepsLedger ==
    ASSUME TypeOK, Ledger, NEW w \in Workers, Round(w), stamps' = stamps, recent' = recent
    PROVE  Ledger'
<1>1. CASE HasCapacity /\ TakeTurn(w, 0)
  <2>1. Claiming' \in SUBSET Workers /\ IsFiniteSet(Workers)
    BY WorkersAssumption DEF Claiming
  <2>2. Cardinality(Claiming') <= Cardinality(Workers) /\ Cardinality(Claiming') \in Nat
    BY <2>1, FS_Subset, FS_CardinalityType
  <2>3. JobsPerHour > 0 => Cardinality(recent) <= JobsPerHour - 1
    BY <1>1, Numbers, FS_CardinalityType DEF HasCapacity, Ledger
  <2>4. Cardinality(recent) \in Nat
    BY FS_CardinalityType DEF Ledger
  <2> QED
    BY <2>2, <2>3, <2>4, Numbers, ClaimingCounted DEF Ledger
<1>2. CASE Sleep(w)
  <2>1. Claiming' \subseteq Claiming
    BY <1>2 DEF Sleep, GoTo, TypeOK, Claiming
  <2> QED
    BY <2>1, NobodyNew
<1> QED
  BY <1>1, <1>2 DEF Round

\* The worker that spends its token is no longer claiming.
LEMMA StartKeepsLedger ==
    ASSUME TypeOK, Ledger, NEW w \in Workers, StartRun(w)
    PROVE  Ledger'
<1>1. recent' = recent \cup {<<w, 0>>} /\ stamps' = recent'
  BY DEF StartRun, Consume, Ledger
<1>2. IsFiniteSet(recent') /\ Cardinality(recent') <= Cardinality(recent) + 1
      /\ Cardinality(recent) \in Nat /\ Cardinality(recent') \in Nat
  <2>1. IsFiniteSet(recent) /\ Cardinality(recent) \in Nat
    BY FS_CardinalityType DEF Ledger
  <2>2. /\ IsFiniteSet(recent \cup {<<w, 0>>})
        /\ Cardinality(recent \cup {<<w, 0>>}) =
              IF <<w, 0>> \in recent THEN Cardinality(recent) ELSE Cardinality(recent) + 1
    BY <2>1, FS_AddElement
  <2> QED
    BY <1>1, <2>1, <2>2
<1>3. w \in Claiming /\ Claiming' = Claiming \ {w}
  BY DEF StartRun, Ready, GoTo, TypeOK, Claiming
<1>4. Cardinality(Claiming') = Cardinality(Claiming) - 1
  BY <1>3, ClaimingCounted, FS_RemoveElement
<1> QED
  BY <1>1, <1>2, <1>4, Numbers, ClaimingCounted DEF Ledger

\* Time passes: the older log has no more entries, the pruned one is part of
\* it, and the limiter forgets what an hour no longer holds.
LEMMA TickKeepsLedger == ASSUME TypeOK, Ledger, Tick PROVE Ledger'
<1> DEFINE older == [e \in recent |-> <<e[1], e[2] + 1>>]
<1>1. older \in Surjection(recent, Older(recent))
  BY Zenon DEF Older, Surjection
<1>2. IsFiniteSet(Older(recent)) /\ Cardinality(Older(recent)) <= Cardinality(recent)
  BY <1>1, FS_Surjection DEF Ledger
<1>3. recent' \in SUBSET Older(recent)
  BY DEF Tick
<1>4. IsFiniteSet(recent') /\ Cardinality(recent') <= Cardinality(recent)
      /\ Cardinality(recent) \in Nat /\ Cardinality(recent') \in Nat
  BY <1>2, <1>3, FS_Subset, FS_CardinalityType DEF Ledger
<1>5. stamps' = recent'
  <2>1. \A e \in Older(recent) : e[2] \in Nat
    BY DEF Older, TypeOK, Ages
  <2> QED
    BY <2>1, Numbers DEF Tick, Prune, Ages, Ledger
<1>6. Claiming' = Claiming
  BY DEF Tick, loop, Claiming
<1> QED
  BY <1>4, <1>5, <1>6, Numbers, ClaimingCounted DEF Ledger

LEMMA StepsKeepLedger == ASSUME TypeOK, Ledger, NEW w \in Workers, Steps(w) PROVE Ledger'
<1>1. CASE Wake(w)
  BY <1>1, RoundKeepsLedger DEF Wake, history
<1>2. CASE NextRound(w)
  BY <1>2, RoundKeepsLedger DEF NextRound, history
<1>3. CASE StartRun(w)
  BY <1>3, StartKeepsLedger
<1>4. CASE NextTurn(w)
  <2>1. Claiming' \subseteq Claiming
    BY <1>4 DEF NextTurn, Ready, TakeTurn, Sleep, GoTo, TypeOK, Claiming
  <2> QED
    BY <1>4, <2>1, NobodyNew DEF NextTurn, history
<1>5. CASE RunReturns(w) \/ ReRaised(w) \/ CancelDelivered(w) \/ ClaimRaises(w)
  <2>1. Claiming' \subseteq Claiming
    BY <1>5 DEF RunReturns, ReRaised, CancelDelivered, ClaimRaises, Die, GoTo, TypeOK, Claiming
  <2> QED
    BY <1>5, <2>1, NobodyNew DEF RunReturns, ReRaised, CancelDelivered, ClaimRaises, history
<1>6. CASE ProcessEnds(w) \/ ProcessCancelled(w) \/ BeatRefused(w) \/ LeaseLost(w)
           \/ BeatRaises(w) \/ ClaimThread(w)
  <2>1. pc' = pc /\ stamps' = stamps /\ recent' = recent
    BY <1>6 DEF ProcessEnds, ProcessCancelled, BeatRefused, LeaseLost, BeatRaises, ClaimThread,
                loop, history
  <2> QED
    BY <2>1, NobodyNew DEF Claiming
<1> QED
  BY <1>1, <1>2, <1>3, <1>4, <1>5, <1>6 DEF Steps

LEMMA InitLedger == Init => Ledger
<1> SUFFICES ASSUME Init PROVE Ledger
  OBVIOUS
<1>1. Claiming = {} /\ recent = {} /\ stamps = {}
  BY DEF Init, Claiming
<1> QED
  BY <1>1, FS_EmptySet, Numbers, ClaimingCounted DEF Ledger

LEMMA NextLedger == TypeOK /\ Ledger /\ [Next]_vars => Ledger'
<1> SUFFICES ASSUME TypeOK, Ledger, [Next]_vars PROVE Ledger'
  OBVIOUS
<1>1. CASE \E w \in Workers : Steps(w)
  BY <1>1, StepsKeepLedger
<1>2. CASE Tick
  BY <1>2, TickKeepsLedger
<1>3. CASE (\E j \in Jobs : Requeued(j)) \/ Pause \/ Resume \/ NewHour \/ Stop \/ Stopped
           \/ UNCHANGED vars
  <2>1. pc' = pc /\ stamps' = stamps /\ recent' = recent
    BY <1>3 DEF Requeued, Pause, Resume, NewHour, Stop, Stopped, vars, loop, history
  <2> QED
    BY <2>1, NobodyNew DEF Claiming
<1> QED
  BY NextCases, <1>1, <1>2, <1>3

\* For any number of workers and any hourly limit: what passes the gate on
\* one free token is bounded by the number of workers.  (TokenBucket,
\* _worker_loop)
THEOREM RateBoundHolds == Spec => []RateBound
<1>1. Ledger => RateBound
  <2> SUFFICES ASSUME Ledger, JobsPerHour > 0
               PROVE  Cardinality(recent) <= JobsPerHour + Cardinality(Workers) - 1
    BY DEF RateBound
  <2> QED
    BY ClaimingCounted, FS_CardinalityType, Numbers DEF Ledger
<1> QED
  BY <1>1, InitTyped, NextTyped, InitLedger, NextLedger, PTL DEF Spec

-----------------------------------------------------------------------------
(* Claims after the gates have closed *)

GateLate ==
    /\ GatesOpen => late = {}
    /\ \A w \in late : pc[w] # "claiming"

LEMMA RoundKeepsGateLate ==
    ASSUME TypeOK, GateLate, NEW w \in Workers, Round(w), UNCHANGED <<paused, hour, late>>
    PROVE  GateLate'
<1>1. GatesOpen' <=> GatesOpen
  BY DEF GatesOpen, InHours
<1>2. CASE GatesOpen
  BY <1>1, <1>2 DEF GateLate
<1>3. CASE ~GatesOpen
  BY <1>1, <1>3 DEF Round, Sleep, GoTo, GateLate, TypeOK
<1> QED
  BY <1>2, <1>3

\* A step that neither moves the gates nor sends anybody to claim.
LEMMA NobodyClaims ==
    ASSUME TypeOK, GateLate, UNCHANGED <<paused, hour, late>>, Claiming' \subseteq Claiming
    PROVE  GateLate'
<1>1. GatesOpen' <=> GatesOpen
  BY DEF GatesOpen, InHours
<1> QED
  BY <1>1 DEF GateLate, Claiming, TypeOK

LEMMA StepsKeepGateLate ==
    ASSUME TypeOK, GateLate, NEW w \in Workers, Steps(w) PROVE GateLate'
<1>1. CASE Wake(w)
  BY <1>1, RoundKeepsGateLate DEF Wake, app, history
<1>2. CASE NextRound(w)
  BY <1>2, RoundKeepsGateLate DEF NextRound, app, history
<1>3. CASE StartRun(w)
  <2>1. GatesOpen' <=> GatesOpen
    BY <1>3 DEF StartRun, app, GatesOpen, InHours
  <2>2. late' = IF GatesOpen THEN late ELSE late \cup {w}
    BY <1>3 DEF StartRun
  <2>3. \A v \in late' : pc'[v] # "claiming"
    BY <1>3, <2>2 DEF StartRun, GoTo, GateLate, TypeOK
  <2> QED
    BY <2>1, <2>2, <2>3 DEF GateLate
<1>4. CASE NextTurn(w) \/ RunReturns(w) \/ ReRaised(w) \/ CancelDelivered(w) \/ ClaimRaises(w)
  <2>1. Claiming' \subseteq Claiming
    BY <1>4 DEF NextTurn, Ready, TakeTurn, Sleep, RunReturns, ReRaised, CancelDelivered,
                ClaimRaises, Die, GoTo, TypeOK, Claiming
  <2>2. UNCHANGED <<paused, hour, late>>
    BY <1>4 DEF NextTurn, RunReturns, ReRaised, CancelDelivered, ClaimRaises, app, history
  <2> QED
    BY <2>1, <2>2, NobodyClaims
<1>5. CASE ProcessEnds(w) \/ ProcessCancelled(w) \/ BeatRefused(w) \/ LeaseLost(w)
           \/ BeatRaises(w) \/ ClaimThread(w)
  <2>1. pc' = pc /\ UNCHANGED <<paused, hour, late>>
    BY <1>5 DEF ProcessEnds, ProcessCancelled, BeatRefused, LeaseLost, BeatRaises, ClaimThread,
                loop, app, history
  <2> QED
    BY <2>1, NobodyClaims DEF Claiming
<1> QED
  BY <1>1, <1>2, <1>3, <1>4, <1>5 DEF Steps

LEMMA NextKeepsGateLate == TypeOK /\ GateLate /\ [Next]_vars => GateLate'
<1> SUFFICES ASSUME TypeOK, GateLate, [Next]_vars PROVE GateLate'
  OBVIOUS
<1>1. CASE \E w \in Workers : Steps(w)
  BY <1>1, StepsKeepGateLate
<1>2. CASE (\E j \in Jobs : Requeued(j)) \/ Tick \/ Stop \/ Stopped \/ UNCHANGED vars
  <2>1. pc' = pc /\ UNCHANGED <<paused, hour, late>>
    BY <1>2 DEF Requeued, Tick, Stop, Stopped, vars, loop, app, history
  <2> QED
    BY <2>1, NobodyClaims DEF Claiming
<1>3. CASE Resume \/ NewHour
  BY <1>3 DEF Resume, NewHour, Reopened, GateLate, loop
<1>4. CASE Pause
  <2>1. ~GatesOpen'
    BY <1>4 DEF Pause, GatesOpen
  <2> QED
    BY <1>4, <2>1 DEF Pause, GateLate, loop, history
<1> QED
  BY NextCases, <1>1, <1>2, <1>3, <1>4

\* A worker that claimed after a pause or the end of the active hours claims
\* nothing more until the gates open again.  (_worker_loop, pause, resume)
THEOREM OneLateClaimHolds == Spec => OneLateClaim
<1>1. Init => GateLate
  BY DEF Init, GateLate
<1>2. GateLate /\ [Next]_vars
        => [\A w \in late : ~GatesOpen => ~(pc[w] = "claiming" /\ pc'[w] = "running")]_vars
  BY DEF GateLate
<1> QED
  BY <1>1, <1>2, InitTyped, NextTyped, NextKeepsGateLate, PTL DEF Spec, OneLateClaim

-----------------------------------------------------------------------------
(* What ends a loop *)

\* A request to stop a task is on record: stop() made it, or the heartbeat
\* that set lease_lost did.
Accounted(w) ==
    /\ cancel[w] => phase = "stopping"
    /\ fate[w] = "die" => phase = "stopping"
    /\ proc[w] \in {"cancelling", "cancelled"} => phase = "stopping" \/ lease_lost[w]

\* Outside of a run there is no process task, after the loop no request.
InPlace(w) ==
    /\ pc[w] # "running" => proc[w] = "none"
    /\ fate[w] # "none" => pc[w] = "finishing"
    /\ cancel[w] => pc[w] # "dead"

Causes ==
    /\ \A w \in Workers : Accounted(w) /\ InPlace(w)
    /\ phase = "down" => \A w \in Workers : pc[w] = "dead"

\* A step of one worker, with nothing but its own entries changed.
LEMMA OwnStep ==
    ASSUME Causes, NEW w \in Workers, phase' = phase,
           \A v \in Workers \ {w} :
               /\ pc'[v] = pc[v] /\ cancel'[v] = cancel[v] /\ fate'[v] = fate[v]
               /\ proc'[v] = proc[v] /\ lease_lost'[v] = lease_lost[v],
           Accounted(w)', InPlace(w)',
           pc[w] = "dead" => pc'[w] = "dead"
    PROVE  Causes'
BY DEF Causes, Accounted, InPlace

LEMMA StepsKeepCauses ==
    ASSUME TypeOK, Causes, NEW w \in Workers, Steps(w) PROVE Causes'
<1>1. phase' = phase
  BY DEF Steps, Wake, NextTurn, StartRun, RunReturns, NextRound, ReRaised, CancelDelivered,
         ProcessEnds, ProcessCancelled, BeatRefused, LeaseLost, ClaimThread, ClaimRaises,
         BeatRaises, app
<1>2. Accounted(w) /\ InPlace(w)
  BY DEF Causes
<1>3. CASE Wake(w)
  BY <1>1, <1>2, <1>3, OwnStep
     DEF Wake, Ready, Round, TakeTurn, Sleep, GoTo, run, TypeOK, Accounted, InPlace
<1>4. CASE NextTurn(w)
  BY <1>1, <1>2, <1>4, OwnStep
     DEF NextTurn, Ready, TakeTurn, Sleep, GoTo, run, TypeOK, Accounted, InPlace
<1>5. CASE StartRun(w)
  BY <1>1, <1>2, <1>5, OwnStep DEF StartRun, Ready, GoTo, TypeOK, Accounted, InPlace
<1>6. CASE RunReturns(w)
  <2>1. AfterRun(w) = "die" => phase = "stopping"
    BY <1>2, <1>6 DEF RunReturns, AfterRun, Interrupted, Accounted
  <2>2. /\ pc'[w] = "finishing" /\ cancel'[w] = FALSE /\ proc'[w] = "none"
        /\ fate'[w] = AfterRun(w) /\ pc[w] # "dead"
    BY <1>6 DEF RunReturns, EndRun, GoTo, TypeOK
  <2>3. \A v \in Workers \ {w} :
          /\ pc'[v] = pc[v] /\ cancel'[v] = cancel[v] /\ fate'[v] = fate[v]
          /\ proc'[v] = proc[v] /\ lease_lost'[v] = lease_lost[v]
    BY <1>6 DEF RunReturns, EndRun, GoTo, TypeOK
  <2>4. Accounted(w)' /\ InPlace(w)'
    BY <1>1, <2>1, <2>2 DEF Accounted, InPlace
  <2> QED
    BY <1>1, <2>2, <2>3, <2>4, OwnStep
<1>7. CASE NextRound(w)
  BY <1>1, <1>2, <1>7, OwnStep
     DEF NextRound, Ready, Round, TakeTurn, Sleep, GoTo, TypeOK, Accounted, InPlace
<1>8. CASE ReRaised(w) \/ CancelDelivered(w) \/ ClaimRaises(w)
  BY <1>1, <1>2, <1>8, OwnStep
     DEF ReRaised, CancelDelivered, ClaimRaises, Ready, Die, GoTo, run, TypeOK, Accounted, InPlace
<1>9. CASE ProcessEnds(w) \/ ProcessCancelled(w)
  BY <1>1, <1>2, <1>9, OwnStep DEF ProcessEnds, ProcessCancelled, loop, TypeOK, Accounted, InPlace
<1>10. CASE LeaseLost(w)
  <2>1. /\ lease_lost'[w] = TRUE /\ proc'[w] = Cancelling(w)
        /\ pc' = pc /\ cancel' = cancel /\ fate' = fate
    BY <1>10 DEF LeaseLost, loop, TypeOK
  <2>2. \A v \in Workers \ {w} : proc'[v] = proc[v] /\ lease_lost'[v] = lease_lost[v]
    BY <1>10 DEF LeaseLost, TypeOK
  <2>3. proc[w] = "none" => proc'[w] = "none"
    BY <2>1 DEF Cancelling
  <2>4. Accounted(w)'
    BY <1>1, <1>2, <2>1 DEF Accounted
  <2>5. InPlace(w)'
    BY <1>2, <2>1, <2>3 DEF InPlace
  <2> QED
    BY <1>1, <2>1, <2>2, <2>4, <2>5, OwnStep
<1>11. CASE BeatRefused(w) \/ BeatRaises(w) \/ ClaimThread(w)
  BY <1>1, <1>2, <1>11, OwnStep
     DEF BeatRefused, BeatRaises, ClaimThread, loop, run, TypeOK, Accounted, InPlace
<1> QED
  BY <1>3, <1>4, <1>5, <1>6, <1>7, <1>8, <1>9, <1>10, <1>11 DEF Steps

LEMMA NextKeepsCauses == TypeOK /\ Causes /\ [Next]_vars => Causes'
<1> SUFFICES ASSUME TypeOK, Causes, [Next]_vars PROVE Causes'
  OBVIOUS
<1>1. CASE \E w \in Workers : Steps(w)
  BY <1>1, StepsKeepCauses
<1>2. CASE Stop
  BY <1>2 DEF Stop, Cancelling, Alive, TypeOK, Causes, Accounted, InPlace
<1>3. CASE Stopped
  BY <1>3 DEF Stopped, Alive, loop, run, Causes, Accounted, InPlace
<1>4. CASE (\E j \in Jobs : Requeued(j)) \/ Tick \/ Pause \/ Resume \/ NewHour \/ UNCHANGED vars
  <2>1. UNCHANGED <<phase, pc, cancel, fate, proc, lease_lost>>
    BY <1>4 DEF Requeued, Tick, Pause, Resume, NewHour, vars, loop, app, run, history
  <2> QED
    BY <2>1 DEF Causes, Accounted, InPlace
<1> QED
  BY NextCases, <1>1, <1>2, <1>3, <1>4

\* Neither a lost lease nor a failed run or heartbeat ends the loop of any
\* worker; a claim that raises may, and stop() does.  (_run_job, stop)
THEOREM OnlyStopEndsLoopsHolds == Spec => OnlyStopEndsLoops
<1> DEFINE Step == \A w \in Workers : Alive(w) /\ pc'[w] = "dead"
                                        => phase = "stopping" \/ pc[w] = "claiming"
<1>1. Init => Causes
  BY DEF Init, Causes, Accounted, InPlace
<1>2. TypeOK /\ Causes /\ [Next]_vars => [Step]_vars
  <2> SUFFICES ASSUME TypeOK, Causes, Next,
                      NEW v \in Workers, Alive(v), pc'[v] = "dead", pc[v] # "claiming"
               PROVE  phase = "stopping"
    OBVIOUS
  <2>1. CASE \E w \in Workers : Steps(w)
    <3>1. PICK w \in Workers : Steps(w)
      BY <2>1
    <3>2. CASE ReRaised(w) \/ CancelDelivered(w) \/ ClaimRaises(w)
      BY <3>2 DEF ReRaised, CancelDelivered, ClaimRaises, Ready, Die, GoTo, Alive,
                  TypeOK, Causes, Accounted
    <3>3. CASE Wake(w) \/ NextRound(w) \/ NextTurn(w) \/ StartRun(w) \/ RunReturns(w)
      BY <3>3 DEF Wake, NextRound, NextTurn, StartRun, RunReturns, Round, TakeTurn, Sleep,
                  GoTo, Alive, TypeOK
    <3>4. CASE ProcessEnds(w) \/ ProcessCancelled(w) \/ BeatRefused(w) \/ LeaseLost(w)
               \/ BeatRaises(w) \/ ClaimThread(w)
      BY <3>4 DEF ProcessEnds, ProcessCancelled, BeatRefused, LeaseLost, BeatRaises,
                  ClaimThread, loop, Alive
    <3> QED
      BY <3>1, <3>2, <3>3, <3>4 DEF Steps
  <2>2. CASE ~\E w \in Workers : Steps(w)
    <3>1. pc' = pc
      BY <2>2, NextCases
         DEF Requeued, Tick, Pause, Resume, NewHour, Stop, Stopped, loop
    <3> QED
      BY <3>1 DEF Alive
  <2> QED
    BY <2>1, <2>2
<1> QED
  BY <1>1, <1>2, InitTyped, NextTyped, NextKeepsCauses, PTL DEF Spec, OnlyStopEndsLoops
=============================================================================
