------------------------------ MODULE Pipeline ------------------------------
(***************************************************************************)
(* process_job (src/impostarr/pipeline.py): asset extraction over a cache  *)
(* of rows, identifier plugins under a daily budget, the verdict, and the  *)
(* release.  Every stage looks its rows up, gives way while a subprocess,  *)
(* a model or a plugin works, and then inserts; the same job can be in two *)
(* workers' hands when a lease was reaped or an operator reran it, until   *)
(* the heartbeat of the first one notices.                                 *)
(*                                                                         *)
(* Of the queue only the status and the lease's owner are kept (JobQueue   *)
(* has the rest), of remediation only that it ends in some status.         *)
(***************************************************************************)
EXTENDS Naturals, Sequences, FiniteSets

CONSTANTS
    Jobs, Workers,
    Plugins,        \* the plugins' names in the order they run
    MinEvidence,    \* thresholds.auto_min_evidence
    Budget,         \* daily_budget of each, or NoBudget
    NoBudget,
    Parts,          \* output files of a stage: subtitle streams, frames
    Outages,        \* sets of stages that may fail until one of the set succeeds
    NoJob, NoOwner,
    UsedBefore,     \* executions other jobs may have had today (bound)
    MaxRuns,        \* claims per job (bound)
    MaxDays         \* UTC days (bound)

Extracting == <<"probe", "audio", "subs", "frames">>
Stages     == {Extracting[i] : i \in DOMAIN Extracting}
PluginSet  == {Plugins[i] : i \in DOMAIN Plugins}

ASSUME PartsAssumption  == Parts \in [Stages -> Nat \ {0}] /\ Outages \subseteq SUBSET Stages
ASSUME BudgetAssumption == Budget \in [PluginSet -> Nat \cup {NoBudget}] /\ NoBudget \notin Nat
ASSUME RunsAssumption   == {MaxRuns, MaxDays, UsedBefore} \subseteq Nat
                           /\ \A p \in PluginSet : Budget[p] # NoBudget => UsedBefore <= Budget[p]
ASSUME PluginsAssumption == /\ Plugins \in Seq(PluginSet)
                            /\ \A i, k \in DOMAIN Plugins : Plugins[i] = Plugins[k] => i = k
ASSUME EvidenceAssumption == MinEvidence \in Nat
ASSUME NamesAssumption  == NoJob \notin Jobs /\ NoOwner \notin Workers
ASSUME WorkersAssumption == IsFiniteSet(Workers) /\ Workers # {}

VARIABLES
    \* the jobs table
    status, owner, runs,
    \* the tables the pipeline writes
    assets,      \* assets rows per file, stage and output file
    hash,        \* files with a frame_hashes row
    transcript,  \* files with a transcript row
    results,     \* per job and plugin: the inputs with an "ok" plugin_results row
    today,       \* per plugin: plugin_results rows since UTC midnight
    verdicts,    \* per job: the outcomes its verdict rows record
    corpus,      \* files with a phash corpus entry
    day,
    \* each worker's process_job
    run

queue  == <<status, owner, runs>>
cache  == <<assets, hash, transcript>>
budget == <<today, day>>
tables == <<results, budget, verdicts, corpus>>
vars   == <<queue, cache, tables, run>>

Routed   == {"matched", "quarantine", "inconclusive"}
Outcomes == Routed \cup {"remediate"}
PcStates == {"idle", "context", "lookup", "extract", "store", "transcribe", "plugin",
             "identify", "verdict", "release", "remediate", "corpus"}

\* got: the stages that yielded an asset; ok: the plugins that answered "ok".
Idle == [pc |-> "idle", job |-> NoJob, at |-> 1, part |-> 1, got |-> {}, ok |-> {},
         outcome |-> "none", seen |-> FALSE]

TypeOK ==
    /\ status \in [Jobs -> Routed \cup {"pending", "active", "error", "remediated"}]
    /\ owner \in [Jobs -> Workers \cup {NoOwner}]
    /\ runs \in [Jobs -> 0 .. MaxRuns]
    /\ \A j \in Jobs, s \in Stages : assets[j][s] \in [1 .. Parts[s] -> Nat]
    /\ hash \in SUBSET Jobs /\ transcript \in SUBSET Jobs /\ corpus \in SUBSET Jobs
    /\ results \in [Jobs -> [PluginSet -> SUBSET SUBSET (Stages \cup {"transcript"})]]
    /\ today \in [PluginSet -> Nat] /\ day \in 0 .. MaxDays
    /\ verdicts \in [Jobs -> SUBSET Outcomes]
    /\ run \in [Workers -> [pc : PcStates, job : Jobs \cup {NoJob},
                            at : Nat, part : Nat, got : SUBSET (Stages \cup {"transcript"}),
                            ok : SUBSET PluginSet, outcome : Outcomes \cup {"none"},
                            seen : BOOLEAN]]

Init ==
    /\ status = [j \in Jobs |-> "pending"]
    /\ owner = [j \in Jobs |-> NoOwner]
    /\ runs = [j \in Jobs |-> 0]
    /\ assets = [j \in Jobs |-> [s \in Stages |-> [i \in 1 .. Parts[s] |-> 0]]]
    /\ hash = {} /\ transcript = {} /\ corpus = {}
    /\ results = [j \in Jobs |-> [p \in PluginSet |-> {}]]
    /\ today \in [PluginSet -> 0 .. UsedBefore] /\ day = 0
    /\ verdicts = [j \in Jobs |-> {}]
    /\ run = [w \in Workers |-> Idle]

-----------------------------------------------------------------------------
(* Slips: forms that a plausible bug would give to operators below; see    *)
(* JobQueue.                                                               *)

\* A budget test one too late.
SpentLate(p) == Budget[p] # NoBudget /\ today[p] > Budget[p]

\* A synthesized abstain that passes for an answer.
AbstainCounts(r) == [r EXCEPT !.at = @ + 1, !.ok = @ \cup {Plugins[r.at]}]

\* A verdict added to the session but not committed.
VerdictUncommitted(j, outcome) == verdicts

\* The proposed action's kind in place of the outcome.
RouteActionKind(ok) == {"remap", "replace"}

-----------------------------------------------------------------------------
(* Helpers *)

Move(w, r) == run' = [run EXCEPT ![w] = r]

\* jobs.release: a fenced status change; false when the lease is lost.
Release(w, s) ==
    /\ owner[run[w].job] = w /\ status[run[w].job] = "active"
    /\ status' = [status EXCEPT ![run[w].job] = s]
    /\ owner' = [owner EXCEPT ![run[w].job] = NoOwner]
    /\ UNCHANGED runs

\* release raises LeaseLost and the run ends.
HasLease(w) == owner[run[w].job] = w /\ status[run[w].job] = "active"

End(w, s) ==
    /\ Move(w, Idle)
    /\ IF HasLease(w) THEN Release(w, s) ELSE UNCHANGED queue

\* After extraction stage number r.at.
NextStage(r) ==
    IF r.at < Len(Extracting)
      THEN [r EXCEPT !.pc = "lookup", !.at = @ + 1, !.part = 1]
      ELSE [r EXCEPT !.pc = "transcribe", !.part = 1]

FirstPlugin(r) == [r EXCEPT !.pc = "plugin", !.at = 1]

\* The executions a plugin may still have today are spent.
Spent(p) == Budget[p] # NoBudget /\ today[p] >= Budget[p]

\* On to the next plugin after a synthesized abstain.
Abstain(r) == [r EXCEPT !.at = @ + 1]

\* aggregate and route: without an "ok" nothing but inconclusive, and from
\* too few of them no action without a human.
RouteOutcomes(ok) ==
    IF ok = {} THEN {"inconclusive"}
    ELSE {"matched", "quarantine"}
           \cup (IF Cardinality(ok) >= MinEvidence THEN {"remediate"} ELSE {})

NewVerdictRow(j, outcome) == [verdicts EXCEPT ![j] = @ \cup {outcome}]

-----------------------------------------------------------------------------
(* The queue around the pipeline *)

Claim(w, j) ==
    /\ run[w].pc = "idle" /\ status[j] = "pending" /\ runs[j] < MaxRuns
    /\ status' = [status EXCEPT ![j] = "active"]
    /\ owner' = [owner EXCEPT ![j] = w]
    /\ runs' = [runs EXCEPT ![j] = @ + 1]
    /\ Move(w, [Idle EXCEPT !.pc = "context", !.job = j])
    /\ UNCHANGED <<cache, tables>>

\* The reaper, or an operator's rerun.
Requeue(j) ==
    /\ status[j] # "pending"
    /\ status' = [status EXCEPT ![j] = "pending"]
    /\ owner' = [owner EXCEPT ![j] = NoOwner]
    /\ UNCHANGED <<runs, cache, tables, run>>

\* The heartbeat finds the lease lost and cancels the task where it awaits.
CancelLost(w) ==
    /\ run[w].pc \in {"context", "extract", "transcribe", "identify", "remediate"}
    /\ ~HasLease(w)
    /\ Move(w, Idle)
    /\ UNCHANGED <<queue, cache, tables>>

Crash ==
    /\ run' = [w \in Workers |-> Idle]
    /\ UNCHANGED <<queue, cache, tables>>

NewDay ==
    /\ day < MaxDays
    /\ day' = day + 1
    /\ today' = [p \in PluginSet |-> 0]
    /\ UNCHANGED <<queue, cache, results, verdicts, corpus, run>>

-----------------------------------------------------------------------------
(* process_job *)

\* The series context; no episode of it may match the claim.
Context(w) ==
    /\ run[w].pc = "context"
    /\ \/ Move(w, [run[w] EXCEPT !.pc = "lookup"]) /\ UNCHANGED queue
       \/ End(w, "error")
    /\ UNCHANGED <<cache, tables>>

\* Any exception the body does not handle.
Raises(w) ==
    /\ run[w].pc \notin {"idle", "corpus"}
    /\ End(w, "error")
    /\ UNCHANGED <<cache, tables>>

Stage(w) == Extracting[run[w].at]
Row(w, i) == assets[run[w].job][Stage(w)][i]

\* What a stage looks up: subs and frames know their parts from the probe
\* only, and frames go with their hash row.
Consults(w) ==
    /\ Stage(w) \in {"subs", "frames"} => "probe" \in run[w].got
    /\ Stage(w) = "frames" => run[w].job \in hash

Cached(w) == Consults(w) /\ \A i \in 1 .. Parts[Stage(w)] : Row(w, i) > 0

\* scalar_one_or_none over two rows.
Ambiguous(w) == Consults(w) /\ \E i \in 1 .. Parts[Stage(w)] : Row(w, i) > 1

Got(r, s) == [r EXCEPT !.got = @ \cup {s}, !.seen = FALSE]

Lookup(w) ==
    /\ run[w].pc = "lookup"
    /\ CASE Ambiguous(w) -> End(w, "error")
         [] Cached(w) /\ ~Ambiguous(w) ->
                Move(w, NextStage(Got(run[w], Stage(w)))) /\ UNCHANGED queue
         [] ~Cached(w) /\ ~Ambiguous(w) ->
                Move(w, [run[w] EXCEPT !.pc = "extract", !.seen = run[w].job \in hash])
                /\ UNCHANGED queue
    /\ UNCHANGED <<cache, tables>>

MayFail(r, s) == \E outage \in Outages : s \in outage /\ r.got \cap outage = {}

Extract(w) ==
    /\ run[w].pc = "extract"
    /\ \/ Move(w, [run[w] EXCEPT !.pc = "store"])
       \/ MayFail(run[w], Stage(w)) /\ Move(w, NextStage([run[w] EXCEPT !.seen = FALSE]))
    /\ UNCHANGED <<queue, cache, tables>>

\* One row and one commit per output file, then the hash row if there was
\* none before the extraction.
Store(w) ==
    /\ run[w].pc = "store"
    /\ IF run[w].part <= Parts[Stage(w)]
         THEN /\ assets' = [assets EXCEPT ![run[w].job][Stage(w)][run[w].part] = @ + 1]
              /\ Move(w, [run[w] EXCEPT !.part = @ + 1])
              /\ UNCHANGED hash
         ELSE /\ hash' = IF Stage(w) = "frames" /\ ~run[w].seen
                           THEN hash \cup {run[w].job} ELSE hash
              /\ Move(w, NextStage(Got(run[w], Stage(w))))
              /\ UNCHANGED assets
    /\ UNCHANGED <<queue, transcript, tables>>

AllFailed(w) ==
    /\ run[w].pc = "transcribe" /\ run[w].got = {}
    /\ End(w, "error")
    /\ UNCHANGED <<cache, tables>>

\* Existence-only: any transcript row of the file serves.
Transcribe(w) ==
    /\ run[w].pc = "transcribe" /\ run[w].got # {}
    /\ LET heard == FirstPlugin([run[w] EXCEPT !.got = @ \cup {"transcript"}])
       IN  \/ /\ "audio" \in run[w].got
              /\ transcript' = transcript \cup {run[w].job}
              /\ Move(w, heard)
           \/ /\ "audio" \in run[w].got => run[w].job \notin transcript
              /\ Move(w, FirstPlugin(run[w]))
              /\ UNCHANGED transcript
    /\ UNCHANGED <<queue, assets, hash, tables>>

\* An "ok" row for this very input, a spent budget, or the plugin itself.
Consult(w) ==
    /\ run[w].pc = "plugin" /\ run[w].at <= Len(Plugins)
    /\ LET p == Plugins[run[w].at]
       IN  CASE run[w].got \in results[run[w].job][p] ->
                    Move(w, [run[w] EXCEPT !.at = @ + 1, !.ok = @ \cup {p}])
             [] run[w].got \notin results[run[w].job][p] /\ Spent(p) -> Move(w, Abstain(run[w]))
             [] OTHER -> Move(w, [run[w] EXCEPT !.pc = "identify"])
    /\ UNCHANGED <<queue, cache, tables>>

\* Every execution leaves a row, whatever it answered.
Identify(w) ==
    /\ run[w].pc = "identify"
    /\ LET p == Plugins[run[w].at]
       IN  /\ today' = [today EXCEPT ![p] = @ + 1]
           /\ \/ /\ results' = [results EXCEPT ![run[w].job][p] = @ \cup {run[w].got}]
                 /\ Move(w, [run[w] EXCEPT !.pc = "plugin", !.at = @ + 1, !.ok = @ \cup {p}])
              \/ /\ Move(w, [run[w] EXCEPT !.pc = "plugin", !.at = @ + 1])
                 /\ UNCHANGED results
    /\ UNCHANGED <<queue, cache, verdicts, corpus, day>>

\* The verdict row is committed before the job is released.
Decide(w) ==
    /\ run[w].pc = "plugin" /\ run[w].at > Len(Plugins)
    /\ \E o \in RouteOutcomes(run[w].ok) :
          /\ verdicts' = NewVerdictRow(run[w].job, o)
          /\ Move(w, [run[w] EXCEPT !.outcome = o,
                                    !.pc = IF o = "remediate" THEN "remediate" ELSE "release"])
    /\ UNCHANGED <<queue, cache, results, budget, corpus>>

ReleaseRouted(w) ==
    /\ run[w].pc = "release"
    /\ IF HasLease(w)
         THEN Release(w, run[w].outcome) /\ Move(w, [run[w] EXCEPT !.pc = "corpus"])
         ELSE UNCHANGED queue /\ Move(w, Idle)
    /\ UNCHANGED <<cache, tables>>

Remediate(w) ==
    /\ run[w].pc = "remediate"
    /\ \E s \in {"remediated", "quarantine", "error"} : Release(w, s)
    /\ Move(w, [run[w] EXCEPT !.pc = "corpus"])
    /\ UNCHANGED <<cache, tables>>

\* A remediated job's status is read back; the score decides whether to store.
WriteCorpus(w) ==
    /\ run[w].pc = "corpus"
    /\ \/ /\ "frames" \in run[w].got
          /\ \/ run[w].outcome = "matched"
             \/ run[w].outcome = "remediate" /\ status[run[w].job] = "remediated"
          /\ corpus' = corpus \cup {run[w].job}
       \/ UNCHANGED corpus
    /\ Move(w, Idle)
    /\ UNCHANGED <<queue, cache, results, budget, verdicts>>

-----------------------------------------------------------------------------
Run(w) ==
    \/ Context(w) \/ Lookup(w) \/ Extract(w) \/ Store(w) \/ AllFailed(w)
    \/ Transcribe(w) \/ Consult(w) \/ Identify(w) \/ Decide(w)
    \/ ReleaseRouted(w) \/ Remediate(w) \/ WriteCorpus(w)
    \/ Raises(w) \/ CancelLost(w)

Next ==
    \/ \E w \in Workers, j \in Jobs : Claim(w, j)
    \/ \E w \in Workers : Run(w)
    \/ \E j \in Jobs : Requeue(j)
    \/ NewDay
    \/ Crash

Spec == Init /\ [][Next]_vars

-----------------------------------------------------------------------------
(* Properties *)

\* The daily budget is checked before an awaited call and counted after it,
\* so it can be overrun, across midnight too, but by no more than one
\* execution for each other worker.
BudgetOvershoot ==
    \A p \in PluginSet :
        Budget[p] # NoBudget => today[p] < Budget[p] + Cardinality(Workers)

\* No job is passed, changed or entered in the phash corpus without a stored
\* "ok" answer of some plugin about it, and none is decided to be changed
\* without the answers of auto_min_evidence of them: caches, spent budgets,
\* reruns and lost leases never turn silence into evidence.
\* (_run_plugin_stage, route)
Witnesses(j) == {p \in PluginSet : results[j][p] # {}}
EvidenceBehindStatus ==
    \A j \in Jobs :
        /\ status[j] \in {"matched", "quarantine", "remediated"} \/ j \in corpus =>
             Witnesses(j) # {}
        /\ "remediate" \in verdicts[j] => Cardinality(Witnesses(j)) >= MinEvidence

\* A settled job has the verdict row that explains its status, so a crash
\* between verdict and release never leaves a status without a verdict.
Explains(s) ==
    CASE s \in {"matched", "inconclusive"} -> {s}
      [] s = "remediated"                  -> {"remediate"}
      [] s = "quarantine"                  -> {"quarantine", "remediate"}
VerdictBehindStatus ==
    \A j \in Jobs :
        status[j] \in Routed \cup {"remediated"} => verdicts[j] \cap Explains(status[j]) # {}

\* A stage whose every output file has an assets row is served from the
\* cache: the rows earlier runs left, whole or cut short, never make its
\* lookup fail the job.
CachedLookupSucceeds ==
    \A w \in Workers : run[w].pc = "lookup" /\ Cached(w) => ~Ambiguous(w)
=============================================================================
