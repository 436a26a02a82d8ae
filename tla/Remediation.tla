---------------------------- MODULE Remediation ----------------------------
(***************************************************************************)
(* Remediation (src/impostarr/remediate.py): replace and remap, run by a   *)
(* pool worker right after it judged the job (pipeline.process_job) or by  *)
(* an approve or replace request, against Sonarr, the media and staging    *)
(* directories and the trash.                                              *)
(*                                                                         *)
(* A Sonarr call is two steps, its effect and its answer; a process may    *)
(* die between any two steps.  Of the job row the model keeps the status   *)
(* and the lease fence; JobQueue has the rest.  Leases expire at any time  *)
(* here: a copy on the event loop blocks heartbeats, and the API sends     *)
(* none.                                                                   *)
(***************************************************************************)
EXTENDS Trash, Naturals, Sequences, FiniteSets

CONSTANTS
    Workers, Requests,  \* who runs remediations
    IdOf,               \* the worker_id each presents to the lease fence
    NoOwner,            \* claimed_by IS NULL
    NoJob,              \* no file
    Episodes,           \* episode slots in Sonarr
    Home,               \* the slot each job's file sits in at first
    Target,             \* the slot a remap of the job aims at
    StagedName,         \* the job's staged file name, SxxEyy plus suffix
    Grabbed,            \* the jobs whose file has a history_id
    AutoKinds,          \* what the instance remediates without asking
    MaxVerdicts         \* verdict rows per job (bound)

Runners == Workers \cup Requests

ASSUME RunnersAssumption == Workers \cap Requests = {}
ASSUME IdsAssumption     == \A r \in Runners : IdOf[r] # NoOwner
ASSUME SlotsAssumption   == /\ Home \in [Jobs -> Episodes]
                            /\ Target \in [Jobs -> Episodes]
                            /\ \A j, k \in Jobs : Home[j] = Home[k] => j = k
                            /\ NoJob \notin Jobs
                            /\ Grabbed \subseteq Jobs
ASSUME AutoAssumption    == AutoKinds \subseteq {"replace", "remap"}
ASSUME BoundAssumption   == MaxVerdicts \in Nat

Names == {StagedName[j] : j \in Jobs}

VARIABLES
    \* the jobs and verdicts tables
    status,      \* jobs.status
    claimed_by,  \* jobs.claimed_by
    log,         \* per job and verdict: the remediation_log entries with ok
    proposal,    \* the latest verdict's proposed_action or human_ident
    \* Sonarr and the staging directory
    record,      \* the jobs whose episodeFile record Sonarr still has
    slot,        \* whose file Sonarr has for an episode
    imports,     \* ManualImport commands accepted and not yet executed
    staged,      \* whose file is under a staged name
    \* history
    handed,      \* jobs whose import Sonarr accepted
    reviewed,    \* verdicts a job had when an operator last judged or reran it
    \* the processes
    run,         \* each runner's position in the choreography, and own, its
                 \* session's copy of the log of the verdict it works under
    dry_run, trash_on  \* Settings.dry_run, Settings.trash.enabled

tables  == <<status, claimed_by, log, proposal>>
sonarr  == <<record, slot, imports, staged, handed>>
config  == <<dry_run, trash_on>>
vars    == <<trash_vars, tables, sonarr, reviewed, run, config>>

Kinds    == {"replace", "remap"}
Settled  == {"matched", "inconclusive", "quarantine"}
Statuses == Settled \cup {"pending", "active", "error", "remediated"}

Calls == {"mark_history_failed", "delete_episode_file", "episode_search",
          "episodes", "manual_import_candidates", "execute_manual_import"}
MUTATING_STEPS == {"trash", "hardlink", "manual_import"} \cup (Calls \ {"episodes"})
PcStates == {"idle", "judge", "settle", "start", "record", "done", "approving"}
                \cup Calls \cup MUTATING_STEPS

Entry == [step : MUTATING_STEPS, dry : BOOLEAN]
Idle  == [pc |-> "idle", job |-> NoJob, kind |-> "none", ver |-> 0, reply |-> "none",
          own |-> <<>>]

TypeOK ==
    /\ TrashTypeOK
    /\ status \in [Jobs -> Statuses]
    /\ claimed_by \in [Jobs -> {IdOf[r] : r \in Runners} \cup {NoOwner}]
    /\ log \in [Jobs -> Seq(Seq(Entry))]
    /\ \A j \in Jobs : Len(log[j]) <= MaxVerdicts
    /\ proposal \in [Jobs -> Kinds \cup {"none"}]
    /\ record \in SUBSET Jobs /\ imports \in SUBSET Jobs /\ handed \in SUBSET Jobs
    /\ slot \in [Episodes -> Jobs \cup {NoJob}]
    /\ staged \in [Names -> Jobs \cup {NoJob}]
    /\ run \in [Runners -> [pc : PcStates, job : Jobs \cup {NoJob},
                            kind : Kinds \cup Settled \cup {"none"},
                            ver : 0 .. MaxVerdicts,
                            reply : {"none", "ok", "error"},
                            own : Seq(Entry)]]
    /\ reviewed \in [Jobs -> 0 .. MaxVerdicts]
    /\ dry_run \in BOOLEAN /\ trash_on \in BOOLEAN

Init ==
    /\ TrashInit
    /\ status = [j \in Jobs |-> "pending"]
    /\ claimed_by = [j \in Jobs |-> NoOwner]
    /\ log = [j \in Jobs |-> <<>>]
    /\ proposal = [j \in Jobs |-> "none"]
    /\ record = Jobs /\ imports = {} /\ handed = {}
    /\ slot = [e \in Episodes |-> IF \E j \in Jobs : Home[j] = e
                                   THEN CHOOSE j \in Jobs : Home[j] = e ELSE NoJob]
    /\ staged = [n \in Names |-> NoJob]
    /\ run = [r \in Runners |-> Idle]
    /\ reviewed = [j \in Jobs |-> 0]
    /\ dry_run \in BOOLEAN /\ trash_on \in BOOLEAN

-----------------------------------------------------------------------------
(* Slips: forms that a plausible bug would give to operators below; see    *)
(* JobQueue.                                                               *)

\* replace deletes without the trash copy, or before its row is committed.
AfterWithoutCopy(r, pc) ==
    CASE pc \in {"mark_history_failed", "trash", "hardlink"} -> "delete_episode_file"
      [] pc = "delete_episode_file" -> "episode_search"
      [] OTHER -> "done"
AfterUnrecorded(r, pc) ==
    CASE pc = "mark_history_failed" -> IF trash_on THEN "trash" ELSE "delete_episode_file"
      [] pc = "trash" -> "delete_episode_file"
      [] OTHER -> "done"

\* Staging ignores the dry run.
WithLinkAlways(n, j) == [staged EXCEPT ![n] = j]

\* No interruption guard; a failed call that does not end the sequence.
NeverInterrupted(entries) == FALSE
PressOn(r) ==
    /\ run' = [run EXCEPT ![r].pc = "done", ![r].reply = "none"]
    /\ UNCHANGED <<status, claimed_by>>

-----------------------------------------------------------------------------
(* Helpers *)

Claim(r, j) ==
    /\ status' = [status EXCEPT ![j] = "active"]
    /\ claimed_by' = [claimed_by EXCEPT ![j] = IdOf[r]]

Fenced(r) == LET j == run[r].job
             IN  status[j] = "active" /\ claimed_by[j] = IdOf[r]

\* jobs.release: without the lease it raises LeaseLost and writes nothing.
Release(r, s) ==
    /\ IF Fenced(r)
         THEN /\ status' = [status EXCEPT ![run[r].job] = s]
              /\ claimed_by' = [claimed_by EXCEPT ![run[r].job] = NoOwner]
         ELSE UNCHANGED <<status, claimed_by>>
    /\ run' = [run EXCEPT ![r] = Idle]

Goto(r, pc, own) == run' = [run EXCEPT ![r].pc = pc, ![r].reply = "none", ![r].own = own]

\* The next step after one that succeeded.
After(r, pc) ==
    CASE pc = "mark_history_failed" -> IF trash_on THEN "trash" ELSE "delete_episode_file"
      [] pc = "trash"    -> IF dry_run THEN "delete_episode_file" ELSE "record"
      [] pc = "episodes" -> "hardlink"
      [] pc = "hardlink" -> "delete_episode_file"
      [] pc = "delete_episode_file" ->
            IF run[r].kind = "replace" THEN "episode_search"
            ELSE IF dry_run THEN "manual_import" ELSE "manual_import_candidates"
      [] pc = "manual_import_candidates" -> "execute_manual_import"
      [] OTHER -> "done"

\* _log: the session appends to the list it loaded when it began and commits
\* that list as the whole column, over what another run may have written there
\* since.  An entry that is not ok is not kept here, but its write is.
WriteLog(r, entries) == log' = [log EXCEPT ![run[r].job][run[r].ver] = entries]

LogFailure(r) == WriteLog(r, run[r].own)

\* _log with ok = TRUE, committed before the next step.
LogOk(r, step, pc) ==
    LET entries == Append(run[r].own, [step |-> step, dry |-> dry_run])
    IN  WriteLog(r, entries) /\ Goto(r, pc, entries)

\* _was_interrupted: did this verdict's log see something mutated?
Interrupted(entries) == \E i \in DOMAIN entries : ~entries[i].dry

\* os.link onto an existing path fails, also where it would have to copy.
NameFree(n) == staged[n] = NoJob

\* Sonarr lists the staging directory; the candidate is matched by name.
Listed(n) == staged[n] # NoJob

WithLink(n, j) == IF dry_run THEN staged ELSE [staged EXCEPT ![n] = j]

NewVerdict(j, action) ==
    /\ Len(log[j]) < MaxVerdicts
    /\ log' = [log EXCEPT ![j] = Append(@, <<>>)]
    /\ proposal' = [proposal EXCEPT ![j] = action]

-----------------------------------------------------------------------------
(* A pool worker: claim, judge, and either settle the job or remediate it. *)

PoolClaim(w, j) ==
    /\ run[w].pc = "idle" /\ status[j] = "pending"
    /\ Claim(w, j)
    /\ run' = [run EXCEPT ![w] = [Idle EXCEPT !.pc = "judge", !.job = j]]
    /\ UNCHANGED <<trash_vars, log, proposal, sonarr, config, reviewed>>

\* The verdict row is committed before the job is released or remediated.
Judge(w) ==
    /\ run[w].pc = "judge"
    /\ \E goal \in Settled \cup AutoKinds, action \in Kinds \cup {"none"} :
          /\ action # "none" => goal = "quarantine"
          /\ NewVerdict(run[w].job, action)
          /\ run' = [run EXCEPT ![w].kind = goal,
                                ![w].ver = Len(log[run[w].job]) + 1,
                                ![w].pc = IF goal \in Kinds THEN "start" ELSE "settle"]
    /\ UNCHANGED <<trash_vars, status, claimed_by, sonarr, config, reviewed>>

JudgeFails(w) ==
    /\ run[w].pc = "judge"
    /\ Release(w, "error")
    /\ UNCHANGED <<trash_vars, log, proposal, sonarr, config, reviewed>>

Settle(w) ==
    /\ run[w].pc = "settle"
    /\ Release(w, run[w].kind)
    /\ UNCHANGED <<trash_vars, log, proposal, sonarr, config, reviewed>>

-----------------------------------------------------------------------------
(* Review requests *)

\* approve reads the proposed action, may await Sonarr, then claims.
ApproveRead(r, j) ==
    /\ run[r].pc = "idle" /\ status[j] = "quarantine" /\ proposal[j] # "none"
    /\ run' = [run EXCEPT ![r] = [Idle EXCEPT !.pc = "approving", !.job = j,
                                              !.kind = proposal[j]]]
    /\ UNCHANGED <<trash_vars, tables, sonarr, config, reviewed>>

ApproveClaim(r) ==
    /\ run[r].pc = "approving"
    /\ LET j == run[r].job IN
       IF status[j] = "quarantine"
         THEN /\ Claim(r, j)
              /\ run' = [run EXCEPT ![r].pc = "start", ![r].ver = Len(log[j])]
         ELSE run' = [run EXCEPT ![r] = Idle] /\ UNCHANGED <<status, claimed_by>>
    /\ UNCHANGED <<trash_vars, log, proposal, sonarr, config, reviewed>>

TrashAndRegrab(r, j) ==
    /\ run[r].pc = "idle" /\ status[j] \in {"quarantine", "inconclusive"}
    /\ Claim(r, j)
    /\ run' = [run EXCEPT ![r] = [Idle EXCEPT !.pc = "start", !.job = j,
                                              !.kind = "replace", !.ver = Len(log[j])]]
    /\ UNCHANGED <<trash_vars, log, proposal, sonarr, config, reviewed>>

Reject(j) ==
    /\ status[j] = "quarantine" /\ proposal[j] # "none"
    /\ proposal' = [proposal EXCEPT ![j] = "none"]
    /\ UNCHANGED <<trash_vars, status, claimed_by, log, sonarr, run, config, reviewed>>

\* post_verdict commits the status first and the verdict row after it: a death
\* in between leaves no row.
HumanVerdict(j) ==
    /\ status[j] \in {"quarantine", "inconclusive"}
    /\ \E s \in Settled :
          /\ status' = [status EXCEPT ![j] = s]
          /\ \/ NewVerdict(j, IF s = "quarantine" THEN "remap" ELSE "none")
             \/ UNCHANGED <<log, proposal>>
    /\ reviewed' = [reviewed EXCEPT ![j] = Len(log[j])]
    /\ UNCHANGED <<trash_vars, claimed_by, sonarr, run, config>>

Rerun(j) ==
    /\ status[j] \in Settled \cup {"error", "active"}
    /\ status' = [status EXCEPT ![j] = "pending"]
    /\ claimed_by' = [claimed_by EXCEPT ![j] = NoOwner]
    /\ reviewed' = [reviewed EXCEPT ![j] = Len(log[j])]
    /\ UNCHANGED <<trash_vars, log, proposal, sonarr, run, config>>

-----------------------------------------------------------------------------
(* The choreography *)

\* Load the verdict with its log; quarantine if it was interrupted, else begin.
\* From the claim, or the verdict's commit, to here nothing is awaited, so the
\* latest verdict is still the one of that moment.  The entries logged here
\* count for nothing and are written over what was just read.
Start(r) ==
    /\ run[r].pc = "start"
    /\ LET j  == run[r].job
           pc == IF run[r].kind = "remap" THEN "episodes"
                 ELSE IF j \in Grabbed THEN "mark_history_failed"
                 ELSE After(r, "mark_history_failed")
       IN IF Interrupted(log[j][run[r].ver]) THEN Release(r, "quarantine")
          ELSE /\ Goto(r, pc, log[j][run[r].ver])
               /\ UNCHANGED <<status, claimed_by>>
    /\ UNCHANGED <<trash_vars, log, proposal, sonarr, config, reviewed>>

DeleteRecord(j) ==
    /\ record' = record \ {j}
    /\ on_disk' = on_disk \ {j}
    /\ slot' = [e \in Episodes |-> IF slot[e] = j THEN NoJob ELSE slot[e]]
    /\ UNCHANGED <<imports, handed>>

AcceptImport(j) ==
    /\ imports' = imports \cup {j}
    /\ handed' = handed \cup {j}
    /\ UNCHANGED <<record, on_disk, slot>>

Effect(r) ==
    CASE run[r].pc = "delete_episode_file"   -> DeleteRecord(run[r].job)
      [] run[r].pc = "execute_manual_import" -> AcceptImport(run[r].job)
      [] OTHER -> UNCHANGED <<record, on_disk, slot, imports, handed>>

\* Sonarr refuses what does not exist; in a dry run only reads reach it.
CanSucceed(r) ==
    CASE run[r].pc = "delete_episode_file"      -> dry_run \/ run[r].job \in record
      [] run[r].pc = "manual_import_candidates" -> Listed(StagedName[run[r].job])
      [] run[r].pc = "episodes"                 -> slot[Target[run[r].job]] = NoJob
      [] OTHER -> TRUE

\* The request and its effect; an effect may happen and the answer still be an
\* error (a lost response, retried into a 404).
Call(r) ==
    /\ run[r].pc \in Calls /\ run[r].reply = "none"
    /\ \/ /\ CanSucceed(r)
          /\ run' = [run EXCEPT ![r].reply = "ok"]
          /\ IF dry_run THEN UNCHANGED <<record, on_disk, slot, imports, handed>>
                        ELSE Effect(r)
       \/ /\ dry_run => run[r].pc = "episodes"
          /\ run' = [run EXCEPT ![r].reply = "error"]
          /\ \/ UNCHANGED <<record, on_disk, slot, imports, handed>>
             \/ CanSucceed(r) /\ ~dry_run /\ Effect(r)
    /\ UNCHANGED <<trash, rows, marking, disposed, tables, staged, config, reviewed>>

\* What follows an answer that is a SonarrError, no match or an occupied slot.
OnError(r) == Release(r, "quarantine")

Answered(r) ==
    /\ run[r].reply = "ok"
    /\ IF run[r].pc = "episodes"
         THEN Goto(r, After(r, run[r].pc), run[r].own) /\ UNCHANGED log
         ELSE LogOk(r, run[r].pc, After(r, run[r].pc))
    /\ UNCHANGED <<trash_vars, status, claimed_by, proposal, sonarr, config, reviewed>>

\* A remap refused for an occupied slot records itself as the proposal.
Refused(r) ==
    /\ run[r].reply = "error"
    /\ LogFailure(r)
    /\ OnError(r)
    /\ IF run[r].pc = "episodes" /\ run[r].ver = Len(log[run[r].job])
         THEN proposal' \in {proposal, [proposal EXCEPT ![run[r].job] = "remap"]}
         ELSE UNCHANGED proposal
    /\ UNCHANGED <<trash_vars, sonarr, config, reviewed>>

\* TransportError is no SonarrError: the pool's catch-all releases the job to
\* error, an API request leaves it active.
Raised(r) ==
    /\ run[r].reply = "error"
    /\ IF r \in Workers THEN Release(r, "error")
       ELSE run' = [run EXCEPT ![r] = Idle] /\ UNCHANGED <<status, claimed_by>>
    /\ UNCHANGED <<trash_vars, log, proposal, sonarr, config, reviewed>>

\* The trash copy; an existing copy or a missing original quarantines.
CopyToTrash(r) ==
    LET j == run[r].job IN
    /\ run[r].pc = "trash"
    /\ \/ /\ dry_run
          /\ LogOk(r, "trash", After(r, "trash"))
          /\ UNCHANGED <<trash, status, claimed_by>>
       \/ /\ ~dry_run /\ j \in on_disk /\ j \notin trash /\ marking[j] = {}
          /\ trash' = trash \cup {j}
          /\ Goto(r, After(r, "trash"), run[r].own)
          /\ UNCHANGED <<log, status, claimed_by>>
       \/ /\ ~dry_run
          /\ LogFailure(r) /\ Release(r, "quarantine")
          /\ UNCHANGED trash
    /\ UNCHANGED <<on_disk, rows, marking, disposed, proposal, sonarr, config, reviewed>>

\* The TrashItem row and its log entry commit together.
RecordTrash(r) ==
    /\ run[r].pc = "record"
    /\ rows' = [rows EXCEPT ![run[r].job] = "active"]
    /\ LogOk(r, "trash", "delete_episode_file")
    /\ UNCHANGED <<on_disk, trash, marking, disposed, status, claimed_by,
                   proposal, sonarr, config, reviewed>>

HardlinkIntoStaging(r) ==
    LET j == run[r].job
        n == StagedName[j]
    IN
    /\ run[r].pc = "hardlink"
    /\ \/ /\ dry_run \/ (j \in on_disk /\ NameFree(n))
          /\ staged' = WithLink(n, j)
          /\ LogOk(r, "hardlink", After(r, "hardlink"))
          /\ UNCHANGED <<status, claimed_by>>
       \/ /\ ~dry_run
          /\ LogFailure(r) /\ Release(r, "quarantine")
          /\ UNCHANGED staged
    /\ UNCHANGED <<trash_vars, proposal, record, slot, imports, handed, config, reviewed>>

LogDryImport(r) ==
    /\ run[r].pc = "manual_import"
    /\ LogOk(r, "manual_import", "done")
    /\ UNCHANGED <<trash_vars, status, claimed_by, proposal, sonarr, config, reviewed>>

Finish(r) ==
    /\ run[r].pc = "done"
    /\ Release(r, "remediated")
    /\ UNCHANGED <<trash_vars, log, proposal, sonarr, config, reviewed>>

-----------------------------------------------------------------------------
(* Leases, processes, Sonarr *)

Reap(j) ==
    /\ status[j] = "active"
    /\ \E s \in {"pending", "error"} : status' = [status EXCEPT ![j] = s]
    /\ claimed_by' = [claimed_by EXCEPT ![j] = NoOwner]
    /\ UNCHANGED <<trash_vars, log, proposal, sonarr, run, config, reviewed>>

\* The heartbeat loop cancels a worker that lost its lease; no one cancels a
\* request.
CancelWorker(w) ==
    /\ run[w].pc # "idle" /\ ~Fenced(w)
    /\ run' = [run EXCEPT ![w] = Idle]
    /\ UNCHANGED <<trash_vars, tables, sonarr, config, reviewed>>

\* Restart, perhaps with dry_run changed in the configuration file.
Crash ==
    /\ run' = [r \in Runners |-> Idle]
    /\ marking' = [j \in Jobs |-> {}]
    /\ dry_run' \in BOOLEAN
    /\ UNCHANGED <<on_disk, trash, rows, disposed, tables, sonarr, trash_on, reviewed>>

\* Sonarr executes a ManualImport: it moves whatever has the staged name now,
\* or gives up.
ImportRuns(j) ==
    /\ j \in imports /\ Listed(StagedName[j])
    /\ imports' = imports \ {j}
    /\ staged' = [staged EXCEPT ![StagedName[j]] = NoJob]
    /\ slot' = [slot EXCEPT ![Target[j]] = staged[StagedName[j]]]
    /\ UNCHANGED <<trash_vars, tables, record, handed, run, config, reviewed>>

ImportFails(j) ==
    /\ j \in imports
    /\ imports' = imports \ {j}
    /\ UNCHANGED <<trash_vars, tables, record, slot, staged, handed, run, config, reviewed>>

-----------------------------------------------------------------------------
RunnerStep(r) ==
    \/ Start(r) \/ Call(r) \/ Answered(r) \/ Refused(r) \/ Raised(r)
    \/ CopyToTrash(r) \/ RecordTrash(r) \/ HardlinkIntoStaging(r)
    \/ LogDryImport(r) \/ Finish(r)

Next ==
    \/ \E w \in Workers : \/ \E j \in Jobs : PoolClaim(w, j)
                          \/ Judge(w) \/ JudgeFails(w) \/ Settle(w) \/ CancelWorker(w)
    \/ \E r \in Requests : \/ \E j \in Jobs : ApproveRead(r, j) \/ TrashAndRegrab(r, j)
                           \/ ApproveClaim(r)
    \/ \E r \in Runners : RunnerStep(r)
    \/ \E j \in Jobs : \/ Reject(j) \/ HumanVerdict(j) \/ Rerun(j)
                       \/ Reap(j) \/ ImportRuns(j) \/ ImportFails(j)
    \/ TrashNext /\ UNCHANGED <<tables, sonarr, run, config, reviewed>>
    \/ Crash

Spec == Init /\ [][Next]_vars

-----------------------------------------------------------------------------
(* Properties *)

\* With the trash enabled, no interleaving, crash or lost answer loses a media
\* file: until Sonarr accepted its import, or its trash copy was expired or
\* deleted, it is at its original path, in the trash or in staging.
PreservedUntilImported ==
    trash_on => \A j \in Jobs :
        \/ j \in on_disk \cup trash \cup handed \cup disposed
        \/ \E n \in Names : staged[n] = j

\* A trash copy that is the only copy left has a TrashItem row: the operator
\* sees it and the sweeper will end it.  (replace commits the row first)
NoOrphanCopy ==
    \A j \in trash :
        \/ rows[j] # "none"
        \/ j \in on_disk \cup handed
        \/ \E n \in Names : staged[n] = j

\* What Sonarr imports for a job is that job's file, also when another job of
\* the instance has the same staged name.
ImportsOwnFile ==
    [][\A j \in Jobs : ImportRuns(j) => slot'[Target[j]] = j]_vars

\* Under one verdict no step is carried out twice, whatever approvals,
\* refusals, dry runs, reaps and restarts come between, as long as those at
\* work have ids of their own and only one worker judges or nothing is
\* automatic: see the README on one step twice under one verdict.
OncePerVerdict ==
    \A j \in Jobs : \A v \in DOMAIN log[j] :
        LET entries == log[j][v] IN
        \A i, k \in DOMAIN entries :
            (i # k /\ ~entries[i].dry /\ ~entries[k].dry)
                => entries[i].step # entries[k].step

\* "remediated" is no guess: one verdict's log holds the deletion and, after
\* it, the search or the import, all real or all dry.  The conditions are those
\* of OncePerVerdict: two runs under one verdict write over each other's
\* entries.
Complete(entries) ==
    \E i, k \in DOMAIN entries :
        /\ i < k /\ entries[i].dry = entries[k].dry
        /\ entries[i].step = "delete_episode_file"
        /\ entries[k].step \in {"episode_search", "execute_manual_import", "manual_import"}

RemediatedMeansDone ==
    \A j \in Jobs : status[j] = "remediated" =>
        \E v \in DOMAIN log[j] : Complete(log[j][v])

\* A dry run deletes nothing, copies nothing and stages nothing.
DryRunTouchesNothing ==
    [][dry_run => /\ record' = record
                  /\ on_disk \subseteq on_disk'
                  /\ trash' \subseteq trash
                  /\ imports' \subseteq imports
                  /\ \A n \in Names : staged'[n] \in {staged[n], NoJob}]_vars

\* A reaped remediation is not driven again: of the verdicts since an operator
\* last judged or reran the job, one at most touches Sonarr or the files.
SingleExecution ==
    \A j \in Jobs :
        Cardinality({v \in DOMAIN log[j] :
                        v > reviewed[j] /\ Interrupted(log[j][v])}) <= 1
=============================================================================
