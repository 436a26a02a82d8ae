------------------------- MODULE RemediationProofs -------------------------
(***************************************************************************)
(* Remediation, proved for any number of jobs, workers, requests and       *)
(* verdicts and any assignment of slots and staged names.                  *)
(*                                                                         *)
(* First where the files are.  Staging: two files may have the same name   *)
(* there, and Sonarr finds what it imports by that name alone.  Then the   *)
(* copies: in the library, in the trash and in staging, a file has one     *)
(* until Sonarr has it or an operator disposed of it, and a last copy in   *)
(* the trash is listed.                                                    *)
(*                                                                         *)
(* Then the remediation log.  Each session writes it whole from a copy of  *)
(* its own, so what it says rests on there being one run at a time under a *)
(* verdict.  That holds of processes with ids of their own, unless a       *)
(* worker that lost its lease remediates unasked.  Then "remediated" has a *)
(* log that explains it, and no step is carried out twice.                 *)
(***************************************************************************)
EXTENDS Remediation, SequenceTheorems, TLAPS

\* What the functions of the model are defined on, and the fields of a run.
Fields(x) == [pc |-> x.pc, job |-> x.job, kind |-> x.kind, ver |-> x.ver, reply |-> x.reply,
              own |-> x.own]

RunShape == run = [r \in Runners |-> Fields(run[r])]

Shape ==
    /\ RunShape
    /\ staged = [n \in Names |-> staged[n]]
    /\ slot = [e \in Episodes |-> slot[e]]
    /\ proposal \in [Jobs -> Kinds \cup {"none"}]
    /\ imports \subseteq Jobs
    /\ dry_run \in BOOLEAN

ReplaceOnly == {"mark_history_failed", "trash", "record", "episode_search"}
RemapOnly   == {"episodes", "hardlink", "manual_import_candidates",
                "execute_manual_import", "manual_import"}

\* A run is about a job, and where its kind has taken it.
OnItsWay(r) ==
    /\ run[r].pc # "idle" => run[r].job \in Jobs
    /\ run[r].pc \in ReplaceOnly => run[r].kind = "replace"
    /\ run[r].pc \in RemapOnly   => run[r].kind = "remap"
    /\ run[r].pc \in {"start", "approving", "delete_episode_file"} => run[r].kind \in Kinds
    /\ run[r].pc \notin Calls => run[r].reply = "none"

\* Between its link in the staging directory and Sonarr's import command.
Staging(r) ==
    /\ ~dry_run
    /\ run[r].kind = "remap"
    /\ \/ run[r].pc \in {"delete_episode_file", "manual_import_candidates"}
       \/ run[r].pc = "execute_manual_import" /\ run[r].reply = "none"

\* A name in the staging directory has one user: a run on its way to the
\* import command, or a command Sonarr has accepted.
OneUser ==
    /\ \A j \in imports : staged[StagedName[j]] = j
    /\ \A r \in Runners : Staging(r) =>
          /\ staged[StagedName[run[r].job]] = run[r].job
          /\ run[r].job \notin imports
    /\ \A r, s \in Runners : Staging(r) /\ Staging(s) /\ r # s => run[r].job # run[s].job

IInv ==
    /\ Shape
    /\ \A r \in Runners : OnItsWay(r)
    /\ OneUser

-----------------------------------------------------------------------------
LEMMA Ids == Workers \subseteq Runners /\ Requests \subseteq Runners
BY DEF Runners

\* A run's record is replaced by another.
LEMMA Becomes ==
    ASSUME RunShape, NEW r \in Runners, NEW x, x = Fields(x), run' = [run EXCEPT ![r] = x]
    PROVE  RunShape' /\ run'[r] = x /\ \A s \in Runners \ {r} : run'[s] = run[s]
BY DEF RunShape

\* On to a step of the choreography, whatever the copy of the log is then.
Moves(r, pc) == \E own : Goto(r, pc, own)

LEMMA LoggedMoves ==
    ASSUME NEW r \in Runners, NEW step, NEW pc, LogOk(r, step, pc) PROVE Moves(r, pc)
BY DEF LogOk, Moves

(* A record of these fields keeps them under EXCEPT. *)

LEMMA PutPc ==
    ASSUME NEW x, x = Fields(x), NEW y
    PROVE  LET z == [x EXCEPT !.pc = y]
           IN  z = Fields(z) /\ z.pc = y /\ z.job = x.job /\ z.kind = x.kind /\ z.reply = x.reply
<1>1. [x EXCEPT !.pc = y] = Fields([x EXCEPT !.pc = y])
  BY DEF Fields
<1>2. /\ [x EXCEPT !.pc = y].pc = y /\ [x EXCEPT !.pc = y].job = x.job
      /\ [x EXCEPT !.pc = y].kind = x.kind /\ [x EXCEPT !.pc = y].reply = x.reply
  BY DEF Fields
<1> QED
  BY <1>1, <1>2

LEMMA PutJob ==
    ASSUME NEW x, x = Fields(x), NEW y
    PROVE  LET z == [x EXCEPT !.job = y]
           IN  z = Fields(z) /\ z.pc = x.pc /\ z.job = y /\ z.kind = x.kind /\ z.reply = x.reply
<1>1. [x EXCEPT !.job = y] = Fields([x EXCEPT !.job = y])
  BY DEF Fields
<1>2. /\ [x EXCEPT !.job = y].pc = x.pc /\ [x EXCEPT !.job = y].job = y
      /\ [x EXCEPT !.job = y].kind = x.kind /\ [x EXCEPT !.job = y].reply = x.reply
  BY DEF Fields
<1> QED
  BY <1>1, <1>2

LEMMA PutKind ==
    ASSUME NEW x, x = Fields(x), NEW y
    PROVE  LET z == [x EXCEPT !.kind = y]
           IN  z = Fields(z) /\ z.pc = x.pc /\ z.job = x.job /\ z.kind = y /\ z.reply = x.reply
<1>1. [x EXCEPT !.kind = y] = Fields([x EXCEPT !.kind = y])
  BY DEF Fields
<1>2. /\ [x EXCEPT !.kind = y].pc = x.pc /\ [x EXCEPT !.kind = y].job = x.job
      /\ [x EXCEPT !.kind = y].kind = y /\ [x EXCEPT !.kind = y].reply = x.reply
  BY DEF Fields
<1> QED
  BY <1>1, <1>2

LEMMA PutVer ==
    ASSUME NEW x, x = Fields(x), NEW y
    PROVE  LET z == [x EXCEPT !.ver = y]
           IN  z = Fields(z) /\ z.pc = x.pc /\ z.job = x.job /\ z.kind = x.kind /\ z.reply = x.reply
<1>1. [x EXCEPT !.ver = y] = Fields([x EXCEPT !.ver = y])
  BY DEF Fields
<1>2. /\ [x EXCEPT !.ver = y].pc = x.pc /\ [x EXCEPT !.ver = y].job = x.job
      /\ [x EXCEPT !.ver = y].kind = x.kind /\ [x EXCEPT !.ver = y].reply = x.reply
  BY DEF Fields
<1> QED
  BY <1>1, <1>2

LEMMA PutReply ==
    ASSUME NEW x, x = Fields(x), NEW y
    PROVE  LET z == [x EXCEPT !.reply = y]
           IN  z = Fields(z) /\ z.pc = x.pc /\ z.job = x.job /\ z.kind = x.kind /\ z.reply = y
<1>1. [x EXCEPT !.reply = y] = Fields([x EXCEPT !.reply = y])
  BY DEF Fields
<1>2. /\ [x EXCEPT !.reply = y].pc = x.pc /\ [x EXCEPT !.reply = y].job = x.job
      /\ [x EXCEPT !.reply = y].kind = x.kind /\ [x EXCEPT !.reply = y].reply = y
  BY DEF Fields
<1> QED
  BY <1>1, <1>2

LEMMA PutOwn ==
    ASSUME NEW x, x = Fields(x), NEW y
    PROVE  LET z == [x EXCEPT !.own = y]
           IN  z = Fields(z) /\ z.pc = x.pc /\ z.job = x.job /\ z.kind = x.kind /\ z.reply = x.reply
<1>1. [x EXCEPT !.own = y] = Fields([x EXCEPT !.own = y])
  BY DEF Fields
<1>2. /\ [x EXCEPT !.own = y].pc = x.pc /\ [x EXCEPT !.own = y].job = x.job
      /\ [x EXCEPT !.own = y].kind = x.kind /\ [x EXCEPT !.own = y].reply = x.reply
  BY DEF Fields
<1> QED
  BY <1>1, <1>2

LEMMA IdleFields ==
    Idle = Fields(Idle) /\ Idle.pc = "idle" /\ Idle.kind = "none" /\ Idle.reply = "none"
BY DEF Idle, Fields

LEMMA InitIInv == Init => IInv
<1> SUFFICES ASSUME Init PROVE IInv
  OBVIOUS
<1>1. Shape
  BY DEF Init, Shape, RunShape, Fields, Idle
<1>2. \A r \in Runners : run[r].pc = "idle" /\ run[r].kind = "none" /\ run[r].reply = "none"
  BY DEF Init, Idle
<1>3. imports = {}
  BY DEF Init
<1> QED
  BY <1>1, <1>2, <1>3 DEF IInv, OnItsWay, OneUser, Staging, ReplaceOnly, RemapOnly

\* A step of one run that changes nothing in the staging directory and does
\* not bring the run there.
LEMMA Elsewhere ==
    ASSUME IInv, NEW r \in Runners, Shape', OnItsWay(r)',
           \A s \in Runners \ {r} : run'[s] = run[s],
           Staging(r)' => Staging(r) /\ run'[r].job = run[r].job,
           UNCHANGED <<staged, imports, dry_run>>
    PROVE  IInv'
<1>1. \A s \in Runners \ {r} : OnItsWay(s)' /\ (Staging(s)' <=> Staging(s))
  BY DEF IInv, OnItsWay, Staging
<1>2. OneUser'
  BY <1>1 DEF IInv, OneUser
<1> QED
  BY <1>1, <1>2 DEF IInv

LEMMA NobodyMoves ==
    ASSUME IInv, Shape', UNCHANGED <<run, staged, imports, dry_run>> PROVE IInv'
BY DEF IInv, OnItsWay, Staging, OneUser

LEMMA ReleaseKeeps ==
    ASSUME IInv, NEW r \in Runners, NEW st, Release(r, st) \/ run' = [run EXCEPT ![r] = Idle],
           UNCHANGED <<staged, imports, dry_run, slot>>,
           proposal' \in [Jobs -> Kinds \cup {"none"}]
    PROVE  IInv'
<1>1. run' = [run EXCEPT ![r] = Idle]
  BY DEF Release
<1>2. RunShape' /\ run'[r] = Idle /\ \A s \in Runners \ {r} : run'[s] = run[s]
  BY <1>1, IdleFields, Becomes DEF IInv, Shape
<1>5. Shape'
  BY <1>2 DEF IInv, Shape
<1>3. run'[r].pc = "idle" /\ run'[r].kind = "none" /\ run'[r].reply = "none"
  BY <1>2, IdleFields
<1>4. OnItsWay(r)' /\ ~Staging(r)'
  BY <1>3 DEF OnItsWay, Staging, ReplaceOnly, RemapOnly
<1> QED
  BY <1>2, <1>4, <1>5, Elsewhere

\* On to another step of the choreography.
LEMMA MovesFacts ==
    ASSUME IInv, NEW r \in Runners, NEW pc, Moves(r, pc)
    PROVE  /\ RunShape'
           /\ run'[r].pc = pc /\ run'[r].job = run[r].job /\ run'[r].kind = run[r].kind
           /\ run'[r].reply = "none" /\ \A s \in Runners \ {r} : run'[s] = run[s]
<1>0. PICK own : Goto(r, pc, own)
  BY DEF Moves
<1>1. PICK x : x = [run[r] EXCEPT !.pc = pc, !.reply = "none", !.own = own]
  OBVIOUS
<1>2. x = Fields(x) /\ x.pc = pc /\ x.job = run[r].job /\ x.kind = run[r].kind /\ x.reply = "none"
  <2>0. run[r] = Fields(run[r])
    BY DEF IInv, Shape, RunShape, Fields
  <2>1. x = [[[run[r] EXCEPT !.pc = pc] EXCEPT !.reply = "none"] EXCEPT !.own = own]
    BY <1>1
  <2>2. PICK a : a = [run[r] EXCEPT !.pc = pc]
    OBVIOUS
  <2>3. a = Fields(a) /\ a.pc = pc /\ a.job = run[r].job /\ a.kind = run[r].kind
    BY <2>0, <2>2, PutPc
  <2>4. PICK b : b = [a EXCEPT !.reply = "none"]
    OBVIOUS
  <2>5. b = Fields(b) /\ b.pc = pc /\ b.job = run[r].job /\ b.kind = run[r].kind /\ b.reply = "none"
    BY <2>3, <2>4, PutReply
  <2>6. PICK c : c = [b EXCEPT !.own = own]
    OBVIOUS
  <2>7. c = Fields(c) /\ c.pc = pc /\ c.job = run[r].job /\ c.kind = run[r].kind /\ c.reply = "none"
    BY <2>5, <2>6, PutOwn
  <2> QED
    BY <2>1, <2>2, <2>4, <2>6, <2>7
<1>3. RunShape' /\ run'[r] = x /\ \A s \in Runners \ {r} : run'[s] = run[s]
  <2>1. run' = [run EXCEPT ![r] = x]
    BY <1>0, <1>1 DEF Goto, IInv, Shape, RunShape
  <2> QED
    BY <2>1, <1>2, Becomes DEF IInv, Shape
<1> QED
  BY <1>2, <1>3

LEMMA MovesKeep ==
    ASSUME IInv, NEW r \in Runners, NEW pc, Moves(r, pc), run[r].pc # "idle",
           UNCHANGED <<staged, imports, dry_run, slot, proposal>>,
           pc \in ReplaceOnly => run[r].kind = "replace",
           pc \in RemapOnly => run[r].kind = "remap",
           pc \in {"start", "approving", "delete_episode_file"} => run[r].kind \in Kinds,
           pc \in {"delete_episode_file", "manual_import_candidates", "execute_manual_import"}
             => Staging(r) \/ run[r].kind # "remap" \/ dry_run
    PROVE  IInv'
<1>1. /\ run'[r].pc = pc /\ run'[r].job = run[r].job /\ run'[r].kind = run[r].kind
      /\ run'[r].reply = "none" /\ RunShape' /\ \A s \in Runners \ {r} : run'[s] = run[s]
  BY MovesFacts
<1>2. Shape'
  BY <1>1 DEF IInv, Shape
<1>3. OnItsWay(r)' /\ (Staging(r)' => Staging(r))
  BY <1>1 DEF OnItsWay, Staging, IInv
<1> QED
  BY <1>1, <1>2, <1>3, Elsewhere

-----------------------------------------------------------------------------
(* One lemma per group of actions. *)

LEMMA WorkersKeep ==
    ASSUME IInv, NEW w \in Workers,
           \/ \E j \in Jobs : PoolClaim(w, j)
           \/ Judge(w) \/ JudgeFails(w) \/ Settle(w) \/ CancelWorker(w)
    PROVE  IInv'
<1>0. w \in Runners
  BY Ids
<1>1. CASE JudgeFails(w) \/ Settle(w) \/ CancelWorker(w)
  BY <1>0, <1>1, ReleaseKeeps
     DEF JudgeFails, Settle, CancelWorker, sonarr, config, tables, IInv, Shape
<1>2. CASE \E j \in Jobs : PoolClaim(w, j)
  <2>1. PICK j \in Jobs : PoolClaim(w, j)
    BY <1>2
  <2>0. PICK x : x = [Idle EXCEPT !.pc = "judge", !.job = j]
    OBVIOUS
  <2>2. x = Fields(x) /\ x.pc = "judge" /\ x.job = j /\ x.reply = "none"
    <3>1. x = [[Idle EXCEPT !.pc = "judge"] EXCEPT !.job = j]
      BY <2>0
    <3>2. PICK a : a = [Idle EXCEPT !.pc = "judge"]
      OBVIOUS
    <3>3. a = Fields(a) /\ a.pc = "judge" /\ a.job = Idle.job /\ a.kind = Idle.kind /\ a.reply = Idle.reply
      BY <3>2, IdleFields, PutPc
    <3>4. PICK b : b = [a EXCEPT !.job = j]
      OBVIOUS
    <3>5. b = Fields(b) /\ b.pc = "judge" /\ b.job = j /\ b.kind = Idle.kind /\ b.reply = Idle.reply
      BY <3>4, <3>3, PutJob
    <3> QED
      BY <3>1, <3>2, <3>4, <3>5, IdleFields
  <2>3. RunShape' /\ run'[w] = x /\ \A s \in Runners \ {w} : run'[s] = run[s]
    BY <1>0, <2>1, <2>2, <2>0, Becomes DEF PoolClaim, IInv, Shape
  <2>5. Shape'
    BY <2>1, <2>3 DEF PoolClaim, IInv, Shape, sonarr, config
  <2>4. OnItsWay(w)' /\ ~Staging(w)'
    BY <2>2, <2>3 DEF OnItsWay, Staging, ReplaceOnly, RemapOnly
  <2> QED
    BY <1>0, <2>1, <2>3, <2>4, <2>5, Elsewhere DEF PoolClaim, sonarr, config
<1>3. CASE Judge(w)
  <2>1. PICK goal \in Settled \cup AutoKinds, action \in Kinds \cup {"none"} :
          /\ NewVerdict(run[w].job, action)
          /\ run' = [run EXCEPT ![w].kind = goal,
                                ![w].ver = Len(log[run[w].job]) + 1,
                                ![w].pc = IF goal \in Kinds THEN "start" ELSE "settle"]
    BY <1>3 DEF Judge
  <2> DEFINE n == IF goal \in Kinds THEN "start" ELSE "settle"
  <2>0. PICK x : x = [run[w] EXCEPT !.kind = goal, !.ver = Len(log[run[w].job]) + 1, !.pc = n]
    OBVIOUS
  <2>2. x = Fields(x) /\ x.pc = n /\ x.kind = goal /\ x.job = run[w].job /\ x.reply = run[w].reply
    <3>0. run[w] = Fields(run[w])
      BY <1>0 DEF IInv, Shape, RunShape, Fields
    <3>1. x = [[[run[w] EXCEPT !.kind = goal] EXCEPT !.ver = Len(log[run[w].job]) + 1] EXCEPT !.pc = n]
      BY <2>0
    <3>2. PICK a : a = [run[w] EXCEPT !.kind = goal]
      OBVIOUS
    <3>3. a = Fields(a) /\ a.pc = run[w].pc /\ a.job = run[w].job /\ a.kind = goal /\ a.reply = run[w].reply
      BY <3>2, <3>0, PutKind
    <3>4. PICK b : b = [a EXCEPT !.ver = Len(log[run[w].job]) + 1]
      OBVIOUS
    <3>5. b = Fields(b) /\ b.pc = run[w].pc /\ b.job = run[w].job /\ b.kind = goal /\ b.reply = run[w].reply
      BY <3>4, <3>3, PutVer
    <3>6. PICK c : c = [b EXCEPT !.pc = n]
      OBVIOUS
    <3>7. c = Fields(c) /\ c.pc = n /\ c.job = run[w].job /\ c.kind = goal /\ c.reply = run[w].reply
      BY <3>6, <3>5, PutPc
    <3> QED
      BY <3>1, <3>2, <3>4, <3>6, <3>7
  <2>3. RunShape' /\ run'[w] = x /\ \A s \in Runners \ {w} : run'[s] = run[s]
    <3>1. run' = [run EXCEPT ![w] = x]
      BY <1>0, <2>1, <2>0 DEF IInv, Shape, RunShape
    <3> QED
      BY <1>0, <2>2, <3>1, Becomes DEF IInv, Shape
  <2>4. run[w].job \in Jobs /\ proposal' = [proposal EXCEPT ![run[w].job] = action]
    BY <1>0, <1>3, <2>1 DEF Judge, NewVerdict, IInv, OnItsWay
  <2>5. Shape'
    BY <1>3, <2>3, <2>4 DEF Judge, IInv, Shape, sonarr, config
  <2>6. OnItsWay(w)' /\ ~Staging(w)'
    BY <1>0, <1>3, <2>2, <2>3, <2>4 DEF Judge, IInv, OnItsWay, Staging, ReplaceOnly, RemapOnly, Calls
  <2> QED
    BY <1>0, <1>3, <2>3, <2>5, <2>6, Elsewhere DEF Judge, sonarr, config
<1> QED
  BY <1>1, <1>2, <1>3

LEMMA RequestsKeep ==
    ASSUME IInv, NEW r \in Requests,
           (\E j \in Jobs : ApproveRead(r, j) \/ TrashAndRegrab(r, j)) \/ ApproveClaim(r)
    PROVE  IInv'
<1>0. r \in Runners
  BY Ids
<1>1. CASE \E j \in Jobs : ApproveRead(r, j)
  <2>1. PICK j \in Jobs : ApproveRead(r, j)
    BY <1>1
  <2>0. PICK x : x = [Idle EXCEPT !.pc = "approving", !.job = j, !.kind = proposal[j]]
    OBVIOUS
  <2>2. x = Fields(x) /\ x.pc = "approving" /\ x.job = j /\ x.kind = proposal[j] /\ x.reply = "none"
    <3>1. x = [[[Idle EXCEPT !.pc = "approving"] EXCEPT !.job = j] EXCEPT !.kind = proposal[j]]
      BY <2>0
    <3>2. PICK a : a = [Idle EXCEPT !.pc = "approving"]
      OBVIOUS
    <3>3. a = Fields(a) /\ a.pc = "approving" /\ a.job = Idle.job /\ a.kind = Idle.kind /\ a.reply = Idle.reply
      BY <3>2, IdleFields, PutPc
    <3>4. PICK b : b = [a EXCEPT !.job = j]
      OBVIOUS
    <3>5. b = Fields(b) /\ b.pc = "approving" /\ b.job = j /\ b.kind = Idle.kind /\ b.reply = Idle.reply
      BY <3>4, <3>3, PutJob
    <3>6. PICK c : c = [b EXCEPT !.kind = proposal[j]]
      OBVIOUS
    <3>7. c = Fields(c) /\ c.pc = "approving" /\ c.job = j /\ c.kind = proposal[j] /\ c.reply = Idle.reply
      BY <3>6, <3>5, PutKind
    <3> QED
      BY <3>1, <3>2, <3>4, <3>6, <3>7, IdleFields
  <2>3. RunShape' /\ run'[r] = x /\ \A s \in Runners \ {r} : run'[s] = run[s]
    BY <1>0, <2>1, <2>2, <2>0, Becomes DEF ApproveRead, IInv, Shape
  <2>5. proposal[j] \in Kinds
    BY <2>1 DEF ApproveRead, IInv, Shape
  <2>6. Shape'
    BY <2>1, <2>3 DEF ApproveRead, IInv, Shape, tables, sonarr, config
  <2>4. OnItsWay(r)' /\ ~Staging(r)'
    BY <2>2, <2>3, <2>5 DEF OnItsWay, Staging, ReplaceOnly, RemapOnly
  <2> QED
    BY <1>0, <2>1, <2>3, <2>4, <2>6, Elsewhere DEF ApproveRead, tables, sonarr, config
<1>2. CASE \E j \in Jobs : TrashAndRegrab(r, j)
  <2>1. PICK j \in Jobs : TrashAndRegrab(r, j)
    BY <1>2
  <2>0. PICK x : x = [Idle EXCEPT !.pc = "start", !.job = j, !.kind = "replace", !.ver = Len(log[j])]
    OBVIOUS
  <2>2. x = Fields(x) /\ x.pc = "start" /\ x.job = j /\ x.kind = "replace" /\ x.reply = "none"
    <3>1. x = [[[[Idle EXCEPT !.pc = "start"] EXCEPT !.job = j] EXCEPT !.kind = "replace"] EXCEPT !.ver = Len(log[j])]
      BY <2>0
    <3>2. PICK a : a = [Idle EXCEPT !.pc = "start"]
      OBVIOUS
    <3>3. a = Fields(a) /\ a.pc = "start" /\ a.job = Idle.job /\ a.kind = Idle.kind /\ a.reply = Idle.reply
      BY <3>2, IdleFields, PutPc
    <3>4. PICK b : b = [a EXCEPT !.job = j]
      OBVIOUS
    <3>5. b = Fields(b) /\ b.pc = "start" /\ b.job = j /\ b.kind = Idle.kind /\ b.reply = Idle.reply
      BY <3>4, <3>3, PutJob
    <3>6. PICK c : c = [b EXCEPT !.kind = "replace"]
      OBVIOUS
    <3>7. c = Fields(c) /\ c.pc = "start" /\ c.job = j /\ c.kind = "replace" /\ c.reply = Idle.reply
      BY <3>6, <3>5, PutKind
    <3>8. PICK d : d = [c EXCEPT !.ver = Len(log[j])]
      OBVIOUS
    <3>9. d = Fields(d) /\ d.pc = "start" /\ d.job = j /\ d.kind = "replace" /\ d.reply = Idle.reply
      BY <3>8, <3>7, PutVer
    <3> QED
      BY <3>1, <3>2, <3>4, <3>6, <3>8, <3>9, IdleFields
  <2>3. RunShape' /\ run'[r] = x /\ \A s \in Runners \ {r} : run'[s] = run[s]
    BY <1>0, <2>1, <2>2, <2>0, Becomes DEF TrashAndRegrab, IInv, Shape
  <2>5. Shape'
    BY <2>1, <2>3 DEF TrashAndRegrab, IInv, Shape, sonarr, config
  <2>4. OnItsWay(r)' /\ ~Staging(r)'
    BY <2>2, <2>3 DEF OnItsWay, Staging, ReplaceOnly, RemapOnly, Kinds
  <2> QED
    BY <1>0, <2>1, <2>3, <2>4, <2>5, Elsewhere DEF TrashAndRegrab, sonarr, config
<1>3. CASE ApproveClaim(r) /\ status[run[r].job] = "quarantine"
  <2>1. run' = [run EXCEPT ![r].pc = "start", ![r].ver = Len(log[run[r].job])]
    BY <1>3 DEF ApproveClaim
  <2>0. PICK x : x = [run[r] EXCEPT !.pc = "start", !.ver = Len(log[run[r].job])]
    OBVIOUS
  <2>2. x = Fields(x) /\ x.pc = "start" /\ x.job = run[r].job /\ x.kind = run[r].kind /\ x.reply = run[r].reply
    <3>0. run[r] = Fields(run[r])
      BY <1>0 DEF IInv, Shape, RunShape, Fields
    <3>1. x = [[run[r] EXCEPT !.pc = "start"] EXCEPT !.ver = Len(log[run[r].job])]
      BY <2>0
    <3>2. PICK a : a = [run[r] EXCEPT !.pc = "start"]
      OBVIOUS
    <3>3. a = Fields(a) /\ a.pc = "start" /\ a.job = run[r].job /\ a.kind = run[r].kind /\ a.reply = run[r].reply
      BY <3>2, <3>0, PutPc
    <3>4. PICK b : b = [a EXCEPT !.ver = Len(log[run[r].job])]
      OBVIOUS
    <3>5. b = Fields(b) /\ b.pc = "start" /\ b.job = run[r].job /\ b.kind = run[r].kind /\ b.reply = run[r].reply
      <4>1. a = Fields(a)
        BY <3>3, Zenon
      <4>2. b = Fields(b) /\ b.pc = a.pc /\ b.job = a.job /\ b.kind = a.kind /\ b.reply = a.reply
        BY <3>4, <4>1, PutVer
      <4> QED
        BY <3>3, <4>2, Zenon
    <3>6. x = b
      BY <3>1, <3>2, <3>4, Zenon
    <3> QED
      BY <3>5, <3>6, Zenon
  <2>3. RunShape' /\ run'[r] = x /\ \A s \in Runners \ {r} : run'[s] = run[s]
    <3>1. run' = [run EXCEPT ![r] = x]
      BY <1>0, <2>1, <2>0 DEF IInv, Shape, RunShape
    <3> QED
      BY <1>0, <2>2, <3>1, Becomes DEF IInv, Shape
  <2>5. Shape'
    BY <1>3, <2>3 DEF ApproveClaim, IInv, Shape, sonarr, config
  <2>4. OnItsWay(r)' /\ ~Staging(r)'
    BY <1>0, <1>3, <2>2, <2>3 DEF ApproveClaim, IInv, OnItsWay, Staging, ReplaceOnly, RemapOnly, Calls
  <2> QED
    BY <1>0, <1>3, <2>3, <2>4, <2>5, Elsewhere DEF ApproveClaim, sonarr, config
<1>4. CASE ApproveClaim(r) /\ status[run[r].job] # "quarantine"
  BY <1>0, <1>4, ReleaseKeeps DEF ApproveClaim, IInv, Shape, sonarr, config
<1> QED
  BY <1>1, <1>2, <1>3, <1>4

\* Call: the run's reply, and perhaps the import command.
LEMMA CallFacts ==
    ASSUME IInv, NEW r \in Runners, Call(r)
    PROVE  /\ RunShape'
           /\ run'[r].pc = run[r].pc /\ run'[r].job = run[r].job /\ run'[r].kind = run[r].kind
           /\ run'[r].reply \in {"ok", "error"} /\ \A s \in Runners \ {r} : run'[s] = run[s]
<1>1. PICK y \in {"ok", "error"} : run' = [run EXCEPT ![r].reply = y]
  BY DEF Call
<1>2. PICK x : x = [run[r] EXCEPT !.reply = y]
  OBVIOUS
<1>3. run[r] = Fields(run[r])
  BY DEF IInv, Shape, RunShape, Fields
<1>4. x = Fields(x) /\ x.pc = run[r].pc /\ x.job = run[r].job /\ x.kind = run[r].kind /\ x.reply = y
  BY <1>2, <1>3, PutReply
<1>5. run' = [run EXCEPT ![r] = x]
  BY <1>1, <1>2 DEF IInv, Shape, RunShape
<1>6. RunShape' /\ run'[r] = x /\ \A s \in Runners \ {r} : run'[s] = run[s]
  BY <1>4, <1>5, Becomes DEF IInv, Shape
<1> QED
  BY <1>4, <1>6

LEMMA CallKeeps == ASSUME IInv, NEW r \in Runners, Call(r) PROVE IInv'
<1>5. /\ RunShape' /\ run'[r].pc = run[r].pc /\ run'[r].job = run[r].job
      /\ run'[r].kind = run[r].kind /\ run'[r].reply \in {"ok", "error"}
      /\ \A s \in Runners \ {r} : run'[s] = run[s]
  BY CallFacts
<1>6. staged' = staged /\ dry_run' = dry_run /\ proposal' = proposal /\ run[r].reply = "none"
      /\ run[r].pc \in Calls /\ run[r].job \in Jobs
  BY DEF Call, config, tables, Calls, IInv, OnItsWay
<1>7. OnItsWay(r)'
  BY <1>5, <1>6 DEF IInv, OnItsWay
<1>8. slot' = [e \in Episodes |-> slot'[e]]
  BY DEF Call, Effect, DeleteRecord, AcceptImport, IInv, Shape
<1>9. CASE UNCHANGED imports
  <2>1. Shape'
    BY <1>5, <1>6, <1>8, <1>9 DEF IInv, Shape
  <2>2. Staging(r)' => Staging(r) /\ run'[r].job = run[r].job
    BY <1>5, <1>6 DEF Staging
  <2> QED
    BY <1>5, <1>6, <1>7, <1>9, <2>1, <2>2, Elsewhere
<1>10. CASE ~UNCHANGED imports
  <2>1. ~dry_run /\ run[r].pc = "execute_manual_import" /\ imports' = imports \cup {run[r].job}
    BY <1>10 DEF Call, Effect, DeleteRecord, AcceptImport
  <2>2. Staging(r)
    BY <1>6, <2>1 DEF Staging, IInv, OnItsWay, RemapOnly
  <2>3. ~Staging(r)'
    BY <1>5, <2>1 DEF Staging
  <2>4. \A s \in Runners \ {r} : OnItsWay(s)' /\ (Staging(s)' <=> Staging(s))
    BY <1>5, <1>6 DEF IInv, OnItsWay, Staging
  <2>5. Shape'
    BY <1>5, <1>6, <1>8, <2>1 DEF IInv, Shape
  <2>6. OneUser'
    <3>1. \A j \in imports' : staged'[StagedName[j]] = j
      BY <1>6, <2>1, <2>2 DEF IInv, OneUser
    <3>2. \A s \in Runners : Staging(s)' =>
             /\ staged'[StagedName[run'[s].job]] = run'[s].job
             /\ run'[s].job \notin imports'
      BY <1>5, <1>6, <2>1, <2>2, <2>3, <2>4 DEF IInv, OneUser
    <3>3. \A q, s \in Runners : Staging(q)' /\ Staging(s)' /\ q # s => run'[q].job # run'[s].job
      BY <1>5, <2>3, <2>4 DEF IInv, OneUser
    <3> QED
      BY <3>1, <3>2, <3>3 DEF OneUser
  <2> QED
    BY <1>7, <2>4, <2>5, <2>6 DEF IInv
<1> QED
  BY <1>9, <1>10

\* The link takes a name nobody uses.
LEMMA LinkKeeps == ASSUME IInv, NEW r \in Runners, HardlinkIntoStaging(r) PROVE IInv'
<1>1. run[r].job \in Jobs /\ run[r].kind = "remap" /\ run[r].pc = "hardlink"
  BY DEF HardlinkIntoStaging, IInv, OnItsWay, RemapOnly
<1>2. UNCHANGED <<imports, dry_run, slot, proposal>>
  BY DEF HardlinkIntoStaging, config
<1> DEFINE j == run[r].job
           n == StagedName[j]
<1>3. CASE Release(r, "quarantine") /\ staged' = staged
  BY <1>2, <1>3, ReleaseKeeps DEF IInv, Shape
<1>4. CASE staged' = WithLink(n, j) /\ Moves(r, After(r, "hardlink"))
           /\ (dry_run \/ (j \in on_disk /\ NameFree(n)))
  <2>1. Moves(r, "delete_episode_file")
    BY <1>4 DEF After
  <2>2. CASE dry_run
    <3>1. staged' = staged
      BY <1>4, <2>2 DEF WithLink
    <3> QED
      BY <1>1, <1>2, <2>1, <2>2, <3>1, MovesKeep DEF ReplaceOnly, RemapOnly, Kinds
  <2>3. CASE ~dry_run
    <3>1. staged' = [staged EXCEPT ![n] = j] /\ staged[n] = NoJob
      BY <1>4, <2>3 DEF WithLink, NameFree
    <3>2. n \in Names /\ j \in Jobs
      BY <1>1 DEF Names
    <3>3. staged' = [m \in Names |-> staged'[m]] /\ staged'[n] = j
          /\ \A m \in Names \ {n} : staged'[m] = staged[m]
      BY <3>1, <3>2 DEF IInv, Shape
    <3>4. \A k \in imports : k \in Jobs /\ k # NoJob /\ StagedName[k] \in Names /\ StagedName[k] # n
      BY <3>1, SlotsAssumption DEF IInv, Shape, OneUser, Names
    <3>5. \A s \in Runners : Staging(s) =>
             /\ run[s].job \in Jobs /\ StagedName[run[s].job] \in Names
             /\ StagedName[run[s].job] # n
      BY <3>1, SlotsAssumption DEF IInv, OnItsWay, Staging, OneUser, Names
    <3>8. /\ RunShape' /\ run'[r].pc = "delete_episode_file" /\ run'[r].job = j
          /\ run'[r].kind = "remap" /\ run'[r].reply = "none"
          /\ \A s \in Runners \ {r} : run'[s] = run[s]
      BY <1>1, <2>1, MovesFacts
    <3>9. \A s \in Runners \ {r} : OnItsWay(s)' /\ (Staging(s)' <=> Staging(s))
      BY <1>2, <3>8 DEF IInv, OnItsWay, Staging
    <3>10. Shape' /\ OnItsWay(r)'
      BY <1>2, <3>2, <3>3, <3>8 DEF IInv, Shape, OnItsWay, ReplaceOnly, RemapOnly, Kinds
    <3>11. OneUser'
      <4>1. \A k \in imports' : staged'[StagedName[k]] = k
        BY <1>2, <3>3, <3>4 DEF IInv, OneUser
      <4>2. run'[r].job = j /\ j \notin imports'
        BY <1>2, <3>4, <3>8
      <4>3. \A s \in Runners \ {r} : Staging(s)' =>
               /\ run'[s].job # j
               /\ staged'[StagedName[run'[s].job]] = run'[s].job
               /\ run'[s].job \notin imports'
        BY <1>2, <3>3, <3>5, <3>8, <3>9 DEF IInv, OneUser
      <4>4. \A q, s \in Runners \ {r} : Staging(q)' /\ Staging(s)' /\ q # s => run'[q].job # run'[s].job
        BY <3>8, <3>9 DEF IInv, OneUser
      <4> QED
        BY <3>3, <4>1, <4>2, <4>3, <4>4 DEF OneUser
    <3> QED
      BY <3>9, <3>10, <3>11 DEF IInv
  <2> QED
    BY <2>2, <2>3
<1> QED
  BY <1>3, <1>4, LoggedMoves DEF HardlinkIntoStaging

LEMMA RunnerStepKeeps == ASSUME IInv, NEW r \in Runners, RunnerStep(r) PROVE IInv'
<1>1. OnItsWay(r)
  BY DEF IInv
<1>2. CASE Start(r)
  <2>1. UNCHANGED <<staged, imports, dry_run, slot, proposal>>
    BY <1>2 DEF Start, sonarr, config
  <2>2. CASE Release(r, "quarantine")
    BY <2>1, <2>2, ReleaseKeeps DEF IInv, Shape
  <2>3. CASE run[r].kind = "remap" /\ Moves(r, "episodes")
    BY <1>2, <2>1, <2>3, MovesKeep DEF Start, ReplaceOnly, RemapOnly
  <2>4. CASE run[r].kind # "remap"
             /\ (\/ Moves(r, "mark_history_failed") \/ Moves(r, "trash")
                 \/ Moves(r, "delete_episode_file"))
    <3>1. run[r].kind = "replace" /\ run[r].kind \in Kinds
      BY <1>1, <1>2, <2>4 DEF Start, OnItsWay, Kinds
    <3> QED
      BY <1>2, <2>1, <2>4, <3>1, MovesKeep DEF Start, ReplaceOnly, RemapOnly
  <2> QED
    BY <1>2, <2>2, <2>3, <2>4 DEF Start, After, Moves
<1>3. CASE Call(r)
  BY <1>3, CallKeeps
<1>4. CASE Answered(r)
  <2>1. UNCHANGED <<staged, imports, dry_run, slot, proposal>> /\ Moves(r, After(r, run[r].pc))
    BY <1>4, LoggedMoves DEF Answered, sonarr, config, Moves
  <2>2. run[r].pc \in Calls
    BY <1>1, <1>4 DEF Answered, OnItsWay
  <2>3. CASE run[r].pc = "mark_history_failed"
    <3>1. Moves(r, "trash") \/ Moves(r, "delete_episode_file")
      BY <2>1, <2>3 DEF After
    <3> QED
      BY <1>1, <2>1, <2>3, <3>1, MovesKeep DEF OnItsWay, ReplaceOnly, RemapOnly, Kinds
  <2>4. CASE run[r].pc = "episodes"
    <3>1. Moves(r, "hardlink")
      BY <2>1, <2>4 DEF After
    <3> QED
      BY <1>1, <2>1, <2>4, <3>1, MovesKeep DEF OnItsWay, ReplaceOnly, RemapOnly
  <2>5. CASE run[r].pc = "delete_episode_file"
    <3>1. run[r].kind = "replace" \/ run[r].kind = "remap"
      BY <1>1, <2>5 DEF OnItsWay, Kinds
    <3>2. CASE run[r].kind = "replace"
      <4>1. Moves(r, "episode_search")
        BY <2>1, <2>5, <3>2 DEF After
      <4> QED
        BY <2>1, <2>5, <3>2, <4>1, MovesKeep DEF ReplaceOnly, RemapOnly
    <3>3. CASE run[r].kind = "remap" /\ dry_run
      <4>1. Moves(r, "manual_import")
        BY <2>1, <2>5, <3>3 DEF After
      <4> QED
        BY <2>1, <2>5, <3>3, <4>1, MovesKeep DEF ReplaceOnly, RemapOnly
    <3>4. CASE run[r].kind = "remap" /\ ~dry_run
      <4>1. Moves(r, "manual_import_candidates")
        BY <2>1, <2>5, <3>4 DEF After
      <4> QED
        BY <2>1, <2>5, <3>4, <4>1, MovesKeep DEF ReplaceOnly, RemapOnly, Staging
    <3> QED
      BY <3>1, <3>2, <3>3, <3>4
  <2>6. CASE run[r].pc = "manual_import_candidates"
    <3>1. Moves(r, "execute_manual_import")
      BY <2>1, <2>6 DEF After
    <3>2. run[r].kind = "remap"
      BY <1>1, <2>6 DEF OnItsWay, RemapOnly
    <3> QED
      BY <2>1, <2>6, <3>1, <3>2, MovesKeep DEF ReplaceOnly, RemapOnly, Staging
  <2>7. CASE run[r].pc \in {"episode_search", "execute_manual_import"}
    <3>1. Moves(r, "done")
      BY <2>1, <2>7 DEF After
    <3> QED
      BY <2>1, <2>7, <3>1, MovesKeep DEF ReplaceOnly, RemapOnly
  <2> QED
    BY <2>2, <2>3, <2>4, <2>5, <2>6, <2>7 DEF Calls
<1>5. CASE Refused(r)
  <2>1. proposal' \in [Jobs -> Kinds \cup {"none"}]
    BY <1>5 DEF Refused, Kinds, IInv, Shape
  <2> QED
    BY <1>5, <2>1, ReleaseKeeps DEF Refused, OnError, sonarr, config
<1>6. CASE Raised(r) \/ Finish(r)
  BY <1>6, ReleaseKeeps DEF Raised, Finish, sonarr, config, IInv, Shape
<1>7. CASE CopyToTrash(r)
  <2>1. UNCHANGED <<staged, imports, dry_run, slot, proposal>> /\ run[r].kind = "replace"
    BY <1>1, <1>7 DEF CopyToTrash, sonarr, config, OnItsWay, ReplaceOnly
  <2>2. Release(r, "quarantine") \/ Moves(r, "delete_episode_file") \/ Moves(r, "record")
    BY <1>7, LoggedMoves DEF CopyToTrash, After, Moves
  <2>3. run[r].pc # "idle" /\ proposal' \in [Jobs -> Kinds \cup {"none"}]
    BY <1>7, <2>1 DEF CopyToTrash, IInv, Shape
  <2> QED
    BY <2>1, <2>2, <2>3, ReleaseKeeps, MovesKeep DEF ReplaceOnly, RemapOnly, Kinds
<1>8. CASE RecordTrash(r)
  <2>1. UNCHANGED <<staged, imports, dry_run, slot, proposal>> /\ run[r].kind = "replace"
    BY <1>1, <1>8 DEF RecordTrash, sonarr, config, OnItsWay, ReplaceOnly
  <2> QED
    BY <1>8, <2>1, LoggedMoves, MovesKeep DEF RecordTrash, ReplaceOnly, RemapOnly, Kinds
<1>9. CASE HardlinkIntoStaging(r)
  BY <1>9, LinkKeeps
<1>10. CASE LogDryImport(r)
  <2>1. UNCHANGED <<staged, imports, dry_run, slot, proposal>> /\ Moves(r, "done")
    BY <1>10, LoggedMoves DEF LogDryImport, sonarr, config
  <2> QED
    BY <1>10, <2>1, MovesKeep DEF LogDryImport, ReplaceOnly, RemapOnly
<1> QED
  BY <1>2, <1>3, <1>4, <1>5, <1>6, <1>7, <1>8, <1>9, <1>10 DEF RunnerStep

\* Sonarr takes the file away and the name is free again.
LEMMA ImportKeeps ==
    ASSUME IInv, NEW j \in Jobs, ImportRuns(j)
    PROVE  IInv' /\ slot'[Target[j]] = j
<1>1. j \in imports /\ staged[StagedName[j]] = j /\ StagedName[j] \in Names
  BY DEF ImportRuns, IInv, OneUser, Names
<1>2. /\ UNCHANGED <<run, dry_run, proposal>> /\ imports' = imports \ {j}
      /\ staged' = [staged EXCEPT ![StagedName[j]] = NoJob]
      /\ slot' = [slot EXCEPT ![Target[j]] = j]
  BY <1>1 DEF ImportRuns, config, tables
<1>3. Shape' /\ slot'[Target[j]] = j
  BY <1>1, <1>2, SlotsAssumption DEF IInv, Shape, RunShape
<1>4. \A k \in imports' : k \in Jobs /\ StagedName[k] \in Names /\ StagedName[k] # StagedName[j]
  BY <1>1, <1>2 DEF IInv, Shape, OneUser, Names
<1>5. \A r \in Runners : Staging(r) =>
         StagedName[run[r].job] \in Names /\ StagedName[run[r].job] # StagedName[j]
  BY <1>1 DEF IInv, OnItsWay, OneUser, Staging, Names
<1>6. \A m \in Names \ {StagedName[j]} : staged'[m] = staged[m]
  BY <1>2 DEF IInv, Shape
<1>7. \A r \in Runners : OnItsWay(r)' /\ (Staging(r)' <=> Staging(r))
  BY <1>2 DEF IInv, OnItsWay, Staging
<1>8. OneUser'
  BY <1>2, <1>4, <1>5, <1>6, <1>7 DEF IInv, OneUser
<1> QED
  BY <1>3, <1>7, <1>8 DEF IInv

LEMMA CrashKeeps == ASSUME IInv, Crash PROVE IInv'
<1>1. \A r \in Runners : run'[r] = Idle
  BY DEF Crash
<1>2. RunShape'
  BY <1>1, IdleFields DEF Crash, RunShape
<1>3. Shape'
  BY <1>2 DEF Crash, tables, sonarr, IInv, Shape
<1>4. \A r \in Runners : OnItsWay(r)' /\ ~Staging(r)'
  BY <1>1, IdleFields DEF OnItsWay, Staging, ReplaceOnly, RemapOnly
<1> QED
  BY <1>3, <1>4 DEF Crash, sonarr, IInv, OneUser

LEMMA NextKeeps == IInv /\ [Next]_vars => IInv'
<1> SUFFICES ASSUME IInv, [Next]_vars PROVE IInv'
  OBVIOUS
<1>1. CASE \E w \in Workers : \/ \E j \in Jobs : PoolClaim(w, j)
                              \/ Judge(w) \/ JudgeFails(w) \/ Settle(w) \/ CancelWorker(w)
  BY <1>1, WorkersKeep
<1>2. CASE \E r \in Requests : \/ \E j \in Jobs : ApproveRead(r, j) \/ TrashAndRegrab(r, j)
                               \/ ApproveClaim(r)
  BY <1>2, RequestsKeep
<1>3. CASE \E r \in Runners : RunnerStep(r)
  BY <1>3, RunnerStepKeeps
<1>4. CASE \E j \in Jobs : ImportRuns(j)
  BY <1>4, ImportKeeps
<1>5. CASE Crash
  BY <1>5, CrashKeeps
<1>6. CASE \E j \in Jobs : ImportFails(j)
  BY <1>6 DEF ImportFails, tables, config, IInv, Shape, RunShape, OnItsWay, Staging, OneUser
<1>7. CASE (\E j \in Jobs : Reject(j) \/ HumanVerdict(j) \/ Rerun(j) \/ Reap(j))
           \/ (TrashNext /\ UNCHANGED <<tables, sonarr, run, config, reviewed>>)
           \/ UNCHANGED vars
  <2>1. UNCHANGED <<run, staged, imports, dry_run, slot>>
    BY <1>7 DEF Reject, HumanVerdict, Rerun, Reap, vars, sonarr, config
  <2>2. proposal' \in [Jobs -> Kinds \cup {"none"}]
    BY <1>7 DEF Reject, HumanVerdict, NewVerdict, Rerun, Reap, vars, tables, Kinds, IInv, Shape
  <2>3. Shape'
    BY <2>1, <2>2 DEF IInv, Shape, RunShape
  <2> QED
    BY <2>1, <2>3, NobodyMoves
<1> QED
  BY <1>1, <1>2, <1>3, <1>4, <1>5, <1>6, <1>7 DEF Next

\* For any number of files with any staged names: neither a second remap, a
\* lost lease, a late request nor a restart lets Sonarr import another job's
\* file.  (remap, hardlink_into_staging)
THEOREM ImportsOwnFileHolds == Spec => ImportsOwnFile
<1>1. IInv /\ [Next]_vars => [\A j \in Jobs : ImportRuns(j) => slot'[Target[j]] = j]_vars
  BY ImportKeeps
<1> QED
  BY <1>1, InitIInv, NextKeeps, PTL DEF Spec, ImportsOwnFile

-----------------------------------------------------------------------------
(* The files *)

Saved(j) == j \in trash \cup disposed

\* A replacing run that is past the trash copy left one, and past its row, a
\* row; only with the trash enabled is there a copy at all.
InHand(r) ==
    /\ run[r].pc \in {"trash", "record"} => trash_on
    /\ run[r].pc = "record" => Saved(run[r].job)
    /\ run[r].pc = "delete_episode_file" /\ run[r].kind = "replace" /\ ~dry_run /\ trash_on
         => Saved(run[r].job) /\ rows[run[r].job] # "none"

Files ==
    /\ PreservedUntilImported /\ NoOrphanCopy
    /\ rows = [j \in Jobs |-> rows[j]]
    /\ trash \subseteq Jobs /\ (~trash_on => trash = {})
    /\ imports \subseteq handed
    /\ \A r \in Runners : InHand(r)

\* What one run does to the trash leaves the others what they count on.
LEMMA OthersInHand ==
    ASSUME IInv, Files, NEW r \in Runners, \A s \in Runners \ {r} : run'[s] = run[s],
           InHand(r)', UNCHANGED <<dry_run, trash_on>>,
           \A j \in Jobs : (Saved(j) => Saved(j)') /\ (rows[j] # "none" => rows'[j] # "none")
    PROVE  \A s \in Runners : InHand(s)'
<1> SUFFICES ASSUME NEW s \in Runners, s # r PROVE InHand(s)'
  OBVIOUS
<1>1. run'[s] = run[s] /\ InHand(s) /\ (run[s].pc # "idle" => run[s].job \in Jobs)
  BY DEF Files, IInv, OnItsWay
<1>2. PICK j : j = run[s].job
  OBVIOUS
<1>3. run[s].pc # "idle" => (Saved(j) => Saved(j)') /\ (rows[j] # "none" => rows'[j] # "none")
  BY <1>1, <1>2
<1> QED
  BY <1>1, <1>2, <1>3 DEF InHand, Saved

LEMMA NothingTouched ==
    ASSUME IInv, Files, NEW r \in Runners, \A s \in Runners \ {r} : run'[s] = run[s], InHand(r)',
           UNCHANGED <<trash_vars, staged, imports, handed, dry_run, trash_on>>
    PROVE  Files'
<1>1. \A s \in Runners : InHand(s)'
  BY OthersInHand DEF trash_vars, Saved
<1>2. PreservedUntilImported' /\ NoOrphanCopy'
  BY DEF Files, PreservedUntilImported, NoOrphanCopy, trash_vars
<1> QED
  BY <1>1, <1>2 DEF Files, trash_vars

Hot == {"trash", "record", "delete_episode_file"}

LEMMA NotHot ==
    ASSUME NEW r \in Runners, run'[r].pc \notin Hot
    PROVE  InHand(r)'
BY DEF InHand, Hot

LEMMA ReleaseFacts ==
    ASSUME IInv, NEW r \in Runners, NEW st, Release(r, st) \/ run' = [run EXCEPT ![r] = Idle]
    PROVE  run'[r].pc = "idle" /\ \A s \in Runners \ {r} : run'[s] = run[s]
<1>1. run' = [run EXCEPT ![r] = Idle]
  BY DEF Release
<1> QED
  BY <1>1, IdleFields DEF IInv, Shape, RunShape

LEMMA ReleaseSafe ==
    ASSUME IInv, Files, NEW r \in Runners, NEW st,
           Release(r, st) \/ run' = [run EXCEPT ![r] = Idle],
           UNCHANGED <<trash_vars, staged, imports, handed, dry_run, trash_on>>
    PROVE  Files'
<1>1. run'[r].pc = "idle" /\ \A s \in Runners \ {r} : run'[s] = run[s]
  BY ReleaseFacts
<1>2. InHand(r)'
  BY <1>1, NotHot DEF Hot
<1> QED
  BY <1>1, <1>2, NothingTouched

LEMMA MovesSafe ==
    ASSUME IInv, Files, NEW r \in Runners, NEW pc, Moves(r, pc),
           \/ pc \notin Hot
           \/ pc = "trash" /\ trash_on
           \/ pc = "delete_episode_file" /\ (run[r].kind = "remap" \/ dry_run \/ ~trash_on),
           UNCHANGED <<trash_vars, staged, imports, handed, dry_run, trash_on>>
    PROVE  Files'
<1>1. run'[r].pc = pc /\ run'[r].kind = run[r].kind /\ \A s \in Runners \ {r} : run'[s] = run[s]
  BY MovesFacts
<1>2. InHand(r)'
  BY <1>1 DEF InHand, Hot
<1> QED
  BY <1>1, <1>2, NothingTouched

\* The last pc of a record built up field by field.
LEMMA JudgedPc ==
    ASSUME NEW x, x = Fields(x), NEW k, NEW v, NEW p
    PROVE  /\ [x EXCEPT !.kind = k, !.ver = v, !.pc = p].pc = p
           /\ [x EXCEPT !.pc = p, !.ver = v].pc = p
<1>1. PICK a : a = [x EXCEPT !.kind = k]
  OBVIOUS
<1>2. PICK b : b = [a EXCEPT !.ver = v]
  OBVIOUS
<1>3. a = Fields(a)
  BY <1>1, PutKind
<1>4. b = Fields(b)
  BY <1>2, <1>3, PutVer
<1>5. [b EXCEPT !.pc = p].pc = p
  BY <1>4, PutPc
<1>6. PICK c : c = [x EXCEPT !.pc = p]
  OBVIOUS
<1>7. c = Fields(c) /\ c.pc = p
  BY <1>6, PutPc
<1>8. [c EXCEPT !.ver = v].pc = p
  BY <1>7, PutVer
<1> QED
  BY <1>1, <1>2, <1>5, <1>6, <1>8

\* Claims, judgements and approvals.
LEMMA BeginningSafe ==
    ASSUME IInv, Files, NEW r \in Runners,
           \/ \E j \in Jobs : PoolClaim(r, j) \/ ApproveRead(r, j) \/ TrashAndRegrab(r, j)
           \/ Judge(r) \/ ApproveClaim(r)
    PROVE  Files'
<1>0. UNCHANGED <<trash_vars, staged, imports, handed, dry_run, trash_on>>
  BY DEF PoolClaim, ApproveRead, TrashAndRegrab, Judge, ApproveClaim, sonarr, config
<1>1. ASSUME NEW x, run' = [run EXCEPT ![r] = x], x.pc \notin Hot PROVE Files'
  <2>1. run'[r] = x /\ \A s \in Runners \ {r} : run'[s] = run[s]
    BY <1>1 DEF IInv, Shape, RunShape
  <2> QED
    BY <1>0, <1>1, <2>1, NotHot, NothingTouched
<1>2. run[r] = Fields(run[r])
  BY DEF IInv, Shape, RunShape, Fields
<1>3. CASE \E j \in Jobs : PoolClaim(r, j)
  <2>1. PICK j \in Jobs : run' = [run EXCEPT ![r] = [Idle EXCEPT !.pc = "judge", !.job = j]]
    BY <1>3 DEF PoolClaim
  <2>2. [Idle EXCEPT !.pc = "judge", !.job = j].pc = "judge"
    BY DEF Idle
  <2> QED
    BY <1>1, <2>1, <2>2 DEF Hot
<1>4. CASE \E j \in Jobs : ApproveRead(r, j)
  <2>1. PICK j \in Jobs : run' = [run EXCEPT ![r] = [Idle EXCEPT !.pc = "approving", !.job = j,
                                                                !.kind = proposal[j]]]
    BY <1>4 DEF ApproveRead
  <2>2. [Idle EXCEPT !.pc = "approving", !.job = j, !.kind = proposal[j]].pc = "approving"
    BY DEF Idle
  <2> QED
    BY <1>1, <2>1, <2>2 DEF Hot
<1>5. CASE \E j \in Jobs : TrashAndRegrab(r, j)
  <2>1. PICK j \in Jobs : run' = [run EXCEPT ![r] = [Idle EXCEPT !.pc = "start", !.job = j,
                                                  !.kind = "replace", !.ver = Len(log[j])]]
    BY <1>5 DEF TrashAndRegrab
  <2>2. [Idle EXCEPT !.pc = "start", !.job = j, !.kind = "replace", !.ver = Len(log[j])].pc = "start"
    BY DEF Idle
  <2> QED
    BY <1>1, <2>1, <2>2 DEF Hot
<1>6. CASE Judge(r)
  <2>1. PICK goal, action :
           run' = [run EXCEPT ![r].kind = goal, ![r].ver = Len(log[run[r].job]) + 1,
                              ![r].pc = IF goal \in Kinds THEN "start" ELSE "settle"]
    BY <1>6 DEF Judge
  <2>2. PICK n : n = IF goal \in Kinds THEN "start" ELSE "settle"
    OBVIOUS
  <2>3. PICK x : x = [run[r] EXCEPT !.kind = goal, !.ver = Len(log[run[r].job]) + 1, !.pc = n]
    OBVIOUS
  <2>4. run' = [run EXCEPT ![r] = x]
    BY <2>1, <2>2, <2>3 DEF IInv, Shape, RunShape
  <2>5. x.pc = n
    BY <1>2, <2>3, JudgedPc
  <2> QED
    BY <1>1, <2>2, <2>4, <2>5 DEF Hot
<1>7. CASE ApproveClaim(r) /\ status[run[r].job] = "quarantine"
  <2>1. PICK x : x = [run[r] EXCEPT !.pc = "start", !.ver = Len(log[run[r].job])]
    OBVIOUS
  <2>2. run' = [run EXCEPT ![r] = x]
    BY <1>7, <2>1 DEF ApproveClaim, IInv, Shape, RunShape
  <2>3. x.pc = "start"
    BY <1>2, <2>1, JudgedPc
  <2> QED
    BY <1>1, <2>2, <2>3 DEF Hot
<1>8. CASE ApproveClaim(r) /\ status[run[r].job] # "quarantine"
  BY <1>0, <1>8, ReleaseSafe DEF ApproveClaim
<1> QED
  BY <1>3, <1>4, <1>5, <1>6, <1>7, <1>8

\* A Sonarr call: the original goes only when there is another copy.
LEMMA CallSafe == ASSUME IInv, Files, NEW r \in Runners, Call(r) PROVE Files'
<1> DEFINE j == run[r].job
<1>1. /\ run'[r].pc = run[r].pc /\ run'[r].job = j /\ run'[r].kind = run[r].kind
      /\ \A s \in Runners \ {r} : run'[s] = run[s]
  BY CallFacts
<1>2. UNCHANGED <<trash, rows, marking, disposed, staged, dry_run, trash_on>> /\ j \in Jobs
  BY DEF Call, config, IInv, OnItsWay, Calls
<1>3. InHand(r) /\ OnItsWay(r)
  BY DEF Files, IInv
<1>4. \A s \in Runners : InHand(s)'
  <2>1. InHand(r)'
    BY <1>1, <1>2, <1>3 DEF InHand, Saved
  <2> QED
    BY <1>1, <1>2, <2>1, OthersInHand DEF Saved
<1>5. CASE UNCHANGED <<on_disk, handed, imports>>
  BY <1>2, <1>4, <1>5 DEF Files, PreservedUntilImported, NoOrphanCopy
<1>6. CASE run[r].pc = "execute_manual_import" /\ imports' = imports \cup {j}
           /\ handed' = handed \cup {j} /\ UNCHANGED on_disk
  BY <1>2, <1>4, <1>6 DEF Files, PreservedUntilImported, NoOrphanCopy
<1>7. CASE run[r].pc = "delete_episode_file" /\ ~dry_run /\ on_disk' = on_disk \ {j}
           /\ UNCHANGED <<imports, handed>>
  <2>1. CASE run[r].kind = "replace"
    <3>1. trash_on => Saved(j) /\ rows[j] # "none"
      BY <1>3, <1>7, <2>1 DEF InHand
    <3>2. PreservedUntilImported'
      BY <1>2, <1>7, <3>1 DEF Files, PreservedUntilImported, Saved
    <3>3. NoOrphanCopy'
      BY <1>2, <1>7, <3>1 DEF Files, NoOrphanCopy
    <3> QED
      BY <1>2, <1>4, <1>7, <3>2, <3>3 DEF Files
  <2>2. CASE run[r].kind = "remap"
    <3>1. staged[StagedName[j]] = j /\ StagedName[j] \in Names
      BY <1>2, <1>7, <2>2 DEF IInv, OneUser, Staging, Names
    <3>2. PreservedUntilImported'
      BY <1>2, <1>7, <3>1 DEF Files, PreservedUntilImported
    <3>3. NoOrphanCopy'
      BY <1>2, <1>7, <3>1 DEF Files, NoOrphanCopy
    <3> QED
      BY <1>2, <1>4, <1>7, <3>2, <3>3 DEF Files
  <2> QED
    BY <1>3, <1>7, <2>1, <2>2 DEF OnItsWay, Kinds
<1> QED
  BY <1>5, <1>6, <1>7 DEF Call, Effect, DeleteRecord, AcceptImport

LEMMA CopySafe ==
    ASSUME IInv, Files, NEW r \in Runners, CopyToTrash(r) \/ RecordTrash(r) PROVE Files'
<1> DEFINE j == run[r].job
<1>1. /\ j \in Jobs /\ run[r].kind = "replace" /\ InHand(r) /\ trash_on
      /\ UNCHANGED <<on_disk, staged, imports, handed, dry_run, trash_on, disposed>>
  BY DEF CopyToTrash, RecordTrash, sonarr, config, IInv, OnItsWay, ReplaceOnly, Files, InHand
<1>2. CASE UNCHANGED trash_vars /\ (Release(r, "quarantine")
                                    \/ (dry_run /\ Moves(r, "delete_episode_file")))
  BY <1>1, <1>2, ReleaseSafe, MovesSafe DEF Hot
<1>3. CASE j \in on_disk /\ trash' = trash \cup {j} /\ Moves(r, "record") /\ UNCHANGED rows
  <2>1. run'[r].pc = "record" /\ run'[r].job = j /\ \A s \in Runners \ {r} : run'[s] = run[s]
    BY <1>3, MovesFacts
  <2>2. InHand(r)'
    BY <1>1, <1>3, <2>1 DEF InHand, Saved
  <2>3. \A s \in Runners : InHand(s)'
    BY <1>1, <1>3, <2>1, <2>2, OthersInHand DEF Saved
  <2> QED
    BY <1>1, <1>3, <2>3 DEF Files, PreservedUntilImported, NoOrphanCopy
<1>4. CASE RecordTrash(r)
  <2>1. /\ run'[r].pc = "delete_episode_file" /\ run'[r].job = j
        /\ \A s \in Runners \ {r} : run'[s] = run[s]
    BY <1>4, LoggedMoves, MovesFacts DEF RecordTrash
  <2>2. /\ rows' = [k \in Jobs |-> rows'[k]] /\ rows'[j] = "active" /\ UNCHANGED trash
        /\ \A k \in Jobs : rows[k] # "none" => rows'[k] # "none"
    BY <1>1, <1>4 DEF RecordTrash, Files
  <2>3. Saved(j)
    BY <1>1, <1>4 DEF RecordTrash, InHand
  <2>4. InHand(r)'
    BY <1>1, <2>1, <2>2, <2>3 DEF InHand, Saved
  <2>5. \A s \in Runners : InHand(s)'
    BY <1>1, <2>1, <2>2, <2>4, OthersInHand DEF Saved
  <2>6. NoOrphanCopy'
    <3> SUFFICES ASSUME NEW k \in trash'
                 PROVE  \/ rows'[k] # "none" \/ k \in on_disk' \cup handed'
                        \/ \E n \in Names : staged'[n] = k
      BY DEF NoOrphanCopy
    <3>1. \/ rows[k] # "none" \/ k \in on_disk \cup handed \/ \E n \in Names : staged[n] = k
      BY <2>2 DEF Files, NoOrphanCopy
    <3>2. rows[k] # "none" => rows'[k] # "none"
      BY <1>4, <1>1 DEF RecordTrash, Files
    <3> QED
      BY <1>1, <3>1, <3>2
  <2> QED
    BY <1>1, <2>2, <2>5, <2>6 DEF Files, PreservedUntilImported
<1>5. CASE CopyToTrash(r)
  BY <1>2, <1>3, <1>5, LoggedMoves DEF CopyToTrash, After, Moves, trash_vars
<1> QED
  BY <1>4, <1>5

LEMMA LinkSafe == ASSUME IInv, Files, NEW r \in Runners, HardlinkIntoStaging(r) PROVE Files'
<1> DEFINE j == run[r].job
           n == StagedName[j]
<1>1. /\ j \in Jobs /\ run[r].kind = "remap" /\ n \in Names
      /\ UNCHANGED <<imports, handed, dry_run, trash_on>> /\ UNCHANGED trash_vars
  BY DEF HardlinkIntoStaging, config, IInv, OnItsWay, RemapOnly, Names
<1>2. CASE staged' = staged /\ (Release(r, "quarantine") \/ Moves(r, "delete_episode_file"))
  BY <1>1, <1>2, ReleaseSafe, MovesSafe
<1>3. CASE staged' = [staged EXCEPT ![n] = j] /\ staged[n] = NoJob /\ Moves(r, "delete_episode_file")
  <2>1. /\ run'[r].pc = "delete_episode_file" /\ run'[r].kind = "remap"
        /\ \A s \in Runners \ {r} : run'[s] = run[s]
    BY <1>1, <1>3, MovesFacts
  <2>2. \A s \in Runners : InHand(s)'
    BY <1>1, <2>1, OthersInHand DEF InHand, trash_vars, Saved
  <2>3. \A k : k # NoJob /\ (\E m \in Names : staged[m] = k) => \E m \in Names : staged'[m] = k
    BY <1>1, <1>3 DEF IInv, Shape
  <2>4. PreservedUntilImported'
    BY <1>1, <2>3, SlotsAssumption DEF Files, PreservedUntilImported, trash_vars
  <2>5. NoOrphanCopy'
    BY <1>1, <2>3, SlotsAssumption DEF Files, NoOrphanCopy, trash_vars
  <2> QED
    BY <1>1, <2>2, <2>4, <2>5 DEF Files, trash_vars
<1> QED
  BY <1>2, <1>3, LoggedMoves DEF HardlinkIntoStaging, WithLink, NameFree, After

LEMMA RunnerSafe == ASSUME IInv, Files, NEW r \in Runners, RunnerStep(r) PROVE Files'
<1>1. OnItsWay(r) /\ InHand(r)
  BY DEF IInv, Files
<1>2. CASE Start(r)
  <2>1. UNCHANGED <<trash_vars, staged, imports, handed, dry_run, trash_on>>
    BY <1>2 DEF Start, sonarr, config
  <2>2. \/ Release(r, "quarantine")
        \/ Moves(r, "episodes") \/ Moves(r, "mark_history_failed")
        \/ Moves(r, "trash") /\ trash_on
        \/ Moves(r, "delete_episode_file") /\ ~trash_on
    BY <1>2 DEF Start, After, Moves
  <2> QED
    BY <2>1, <2>2, ReleaseSafe, MovesSafe DEF Hot
<1>3. CASE Answered(r)
  <2>1. UNCHANGED <<trash_vars, staged, imports, handed, dry_run, trash_on>>
        /\ Moves(r, After(r, run[r].pc))
    BY <1>3, LoggedMoves DEF Answered, sonarr, config, Moves
  <2>2. run[r].pc \in Calls
    BY <1>1, <1>3 DEF Answered, OnItsWay
  <2>3. \/ After(r, run[r].pc) \notin Hot
        \/ After(r, run[r].pc) = "trash" /\ trash_on
        \/ After(r, run[r].pc) = "delete_episode_file" /\ ~trash_on
    BY <2>2 DEF After, Calls, Hot
  <2> QED
    BY <2>1, <2>3, MovesSafe
<1>4. CASE Refused(r) \/ Raised(r) \/ Finish(r)
  BY <1>4, ReleaseSafe DEF Refused, Raised, Finish, OnError, sonarr, config
<1>5. CASE LogDryImport(r)
  BY <1>5, LoggedMoves, MovesSafe DEF LogDryImport, sonarr, config, Hot
<1> QED
  BY <1>2, <1>3, <1>4, <1>5, CallSafe, CopySafe, LinkSafe DEF RunnerStep

\* The staged file goes to its episode once Sonarr has accepted the import.
LEMMA ImportSafe == ASSUME IInv, Files, NEW j \in Jobs, ImportRuns(j) PROVE Files'
<1>1. staged[StagedName[j]] = j /\ StagedName[j] \in Names /\ j \in handed
  BY DEF ImportRuns, IInv, OneUser, Names, Files
<1>2. /\ UNCHANGED trash_vars /\ UNCHANGED <<run, handed, dry_run, trash_on>>
      /\ imports' = imports \ {j} /\ staged' = [staged EXCEPT ![StagedName[j]] = NoJob]
  BY DEF ImportRuns, config
<1>3. \A k : k # j /\ (\E n \in Names : staged[n] = k) => \E n \in Names : staged'[n] = k
  BY <1>1, <1>2 DEF IInv, Shape
<1>4. PreservedUntilImported' /\ NoOrphanCopy'
  BY <1>1, <1>2, <1>3 DEF Files, PreservedUntilImported, NoOrphanCopy, trash_vars
<1>5. \A r \in Runners : InHand(r)'
  BY <1>2 DEF Files, InHand, trash_vars, Saved
<1> QED
  BY <1>2, <1>4, <1>5 DEF Files, trash_vars

\* The sweeper and the trash endpoints: a copy goes on purpose only.
LEMMA TrashSafe ==
    ASSUME IInv, Files, TrashNext, UNCHANGED <<tables, sonarr, run, config, reviewed>>
    PROVE  Files'
<1>1. PICK j \in Jobs : \/ \E why \in Disposals : Unlink(j, why)
                        \/ Restore(j)
                        \/ \E why \in TRASH_OUTCOMES : Mark(j, why)
  BY DEF TrashNext
<1>2. UNCHANGED <<run, staged, imports, handed, dry_run, trash_on>>
  BY DEF sonarr, config
<1>3. /\ on_disk \subseteq on_disk' /\ trash' \subseteq trash
      /\ \A k \in Jobs : Saved(k) => Saved(k)'
  BY <1>1 DEF Unlink, Restore, Mark, Saved
<1>4. \A k \in Jobs : k \in on_disk \cup trash \cup disposed => k \in on_disk' \cup trash' \cup disposed'
  BY <1>1 DEF Unlink, Restore, Mark
<1>5. rows' = [k \in Jobs |-> rows'[k]] /\ \A k \in Jobs : rows[k] # "none" => rows'[k] # "none"
  BY <1>1 DEF Unlink, Restore, Mark, Files, TRASH_OUTCOMES, Disposals
<1>6. \A r \in Runners : InHand(r)'
  <2> SUFFICES ASSUME NEW r \in Runners PROVE InHand(r)'
    OBVIOUS
  <2>1. InHand(r) /\ (run[r].pc # "idle" => run[r].job \in Jobs)
    BY DEF Files, IInv, OnItsWay
  <2>2. PICK k : k = run[r].job
    OBVIOUS
  <2>3. run[r].pc # "idle" => (Saved(k) => Saved(k)') /\ (rows[k] # "none" => rows'[k] # "none")
    BY <1>3, <1>5, <2>1, <2>2
  <2> QED
    BY <1>2, <2>1, <2>2, <2>3 DEF InHand, Saved
<1>7. PreservedUntilImported'
  BY <1>2, <1>4 DEF Files, PreservedUntilImported
<1>8. NoOrphanCopy'
  BY <1>2, <1>3, <1>5 DEF Files, NoOrphanCopy
<1> QED
  BY <1>2, <1>3, <1>5, <1>6, <1>7, <1>8 DEF Files

LEMMA NextSafe == IInv /\ Files /\ [Next]_vars => Files'
<1> SUFFICES ASSUME IInv, Files, [Next]_vars PROVE Files'
  OBVIOUS
<1>1. CASE \E w \in Workers : \/ \E j \in Jobs : PoolClaim(w, j)
                              \/ Judge(w) \/ JudgeFails(w) \/ Settle(w) \/ CancelWorker(w)
  <2>1. PICK w \in Workers : \/ \E j \in Jobs : PoolClaim(w, j)
                            \/ Judge(w) \/ JudgeFails(w) \/ Settle(w) \/ CancelWorker(w)
    BY <1>1
  <2>2. w \in Runners
    BY Ids
  <2>3. CASE JudgeFails(w) \/ Settle(w) \/ CancelWorker(w)
    BY <2>2, <2>3, ReleaseSafe DEF JudgeFails, Settle, CancelWorker, sonarr, config
  <2> QED
    BY <2>1, <2>2, <2>3, BeginningSafe
<1>2. CASE \E r \in Requests : \/ \E j \in Jobs : ApproveRead(r, j) \/ TrashAndRegrab(r, j)
                               \/ ApproveClaim(r)
  BY <1>2, Ids, BeginningSafe
<1>3. CASE \E r \in Runners : RunnerStep(r)
  BY <1>3, RunnerSafe
<1>4. CASE \E j \in Jobs : ImportRuns(j)
  BY <1>4, ImportSafe
<1>5. CASE Crash
  <2>1. \A r \in Runners : InHand(r)'
    BY <1>5, IdleFields DEF Crash, InHand
  <2> QED
    BY <1>5, <2>1 DEF Crash, sonarr, Files, PreservedUntilImported, NoOrphanCopy
<1>6. CASE TrashNext /\ UNCHANGED <<tables, sonarr, run, config, reviewed>>
  BY <1>6, TrashSafe
<1>7. CASE (\E j \in Jobs : Reject(j) \/ HumanVerdict(j) \/ Rerun(j) \/ Reap(j) \/ ImportFails(j))
           \/ UNCHANGED vars
  <2>1. /\ UNCHANGED <<on_disk, trash, rows, disposed, run, staged, handed, dry_run, trash_on>>
        /\ imports' \subseteq imports
    BY <1>7 DEF Reject, HumanVerdict, Rerun, Reap, ImportFails, vars, sonarr, config, trash_vars
  <2>2. \A r \in Runners : InHand(r)'
    BY <2>1 DEF Files, InHand, Saved
  <2> QED
    BY <2>1, <2>2 DEF Files, PreservedUntilImported, NoOrphanCopy
<1> QED
  BY <1>1, <1>2, <1>3, <1>4, <1>5, <1>6, <1>7 DEF Next

LEMMA InitFiles == Init => Files
BY IdleFields DEF Init, TrashInit, Files, PreservedUntilImported, NoOrphanCopy, InHand

LEMMA SafeForever == Spec => [](IInv /\ Files)
<1>1. IInv /\ Files /\ [Next]_vars => (IInv /\ Files)'
  BY NextKeeps, NextSafe
<1> QED
  BY <1>1, InitIInv, InitFiles, PTL DEF Spec

\* However many files, workers and requests: no lost answer, crash, second
\* run or sweep takes the last copy of a file that Sonarr has not accepted
\* and nobody disposed of.  (replace, remap, trash.py)
THEOREM FilesPreserved == Spec => []PreservedUntilImported
<1>1. IInv /\ Files => PreservedUntilImported
  BY DEF Files
<1> QED
  BY <1>1, SafeForever, PTL

\* A copy in the trash that is the only one left has its TrashItem row.
THEOREM NoOrphanCopies == Spec => []NoOrphanCopy
<1>1. IInv /\ Files => NoOrphanCopy
  BY DEF Files
<1> QED
  BY <1>1, SafeForever, PTL

LEMMA DryStep ==
    ASSUME IInv, Next, dry_run
    PROVE  /\ record' = record /\ on_disk \subseteq on_disk' /\ trash' \subseteq trash
           /\ imports' \subseteq imports /\ \A n \in Names : staged'[n] \in {staged[n], NoJob}
<1>1. CASE \E w \in Workers : \/ \E j \in Jobs : PoolClaim(w, j)
                              \/ Judge(w) \/ JudgeFails(w) \/ Settle(w) \/ CancelWorker(w)
  BY <1>1 DEF PoolClaim, Judge, JudgeFails, Settle, CancelWorker, trash_vars, sonarr
<1>2. CASE \E r \in Requests : \/ \E j \in Jobs : ApproveRead(r, j) \/ TrashAndRegrab(r, j)
                               \/ ApproveClaim(r)
  BY <1>2 DEF ApproveRead, TrashAndRegrab, ApproveClaim, trash_vars, sonarr
<1>3. CASE \E r \in Runners : RunnerStep(r)
  <2>1. PICK r \in Runners : RunnerStep(r)
    BY <1>3
  <2>2. CASE Call(r)
    BY <2>2 DEF Call
  <2>3. CASE CopyToTrash(r) \/ RecordTrash(r)
    BY <2>3 DEF CopyToTrash, RecordTrash, sonarr
  <2>4. CASE HardlinkIntoStaging(r)
    BY <2>4 DEF HardlinkIntoStaging, WithLink, trash_vars
  <2>5. CASE Start(r) \/ Answered(r) \/ Refused(r) \/ Raised(r) \/ LogDryImport(r) \/ Finish(r)
    BY <2>5 DEF Start, Answered, Refused, Raised, LogDryImport, Finish, trash_vars, sonarr
  <2> QED
    BY <2>1, <2>2, <2>3, <2>4, <2>5 DEF RunnerStep
<1>4. CASE \E j \in Jobs : ImportRuns(j) \/ ImportFails(j)
  <2>1. PICK j \in Jobs : ImportRuns(j) \/ ImportFails(j)
    BY <1>4
  <2>2. UNCHANGED <<record, on_disk, trash>> /\ imports' \subseteq imports
    BY <2>1 DEF ImportRuns, ImportFails, trash_vars
  <2>3. \A n \in Names : staged'[n] \in {staged[n], NoJob}
    BY <2>1 DEF ImportRuns, ImportFails, IInv, Shape
  <2> QED
    BY <2>2, <2>3
<1>5. CASE TrashNext /\ UNCHANGED <<tables, sonarr, run, config, reviewed>>
  BY <1>5 DEF TrashNext, Unlink, Restore, Mark, sonarr
<1>6. CASE Crash \/ \E j \in Jobs : Reject(j) \/ HumanVerdict(j) \/ Rerun(j) \/ Reap(j)
  BY <1>6 DEF Crash, Reject, HumanVerdict, Rerun, Reap, trash_vars, sonarr
<1> QED
  BY <1>1, <1>2, <1>3, <1>4, <1>5, <1>6 DEF Next

\* In a dry run no step of any process deletes, copies or stages anything.
THEOREM DryRunHolds == Spec => DryRunTouchesNothing
<1>1. IInv /\ [Next]_vars =>
        [dry_run => /\ record' = record
                    /\ on_disk \subseteq on_disk'
                    /\ trash' \subseteq trash
                    /\ imports' \subseteq imports
                    /\ \A n \in Names : staged'[n] \in {staged[n], NoJob}]_vars
  BY DryStep
<1> QED
  BY <1>1, InitIInv, NextKeeps, PTL DEF Spec, DryRunTouchesNothing

-----------------------------------------------------------------------------
(* The remediation log.  Of the tables only the status, the lease and the  *)
(* log matter here, so the many actions of Remediation are sorted first    *)
(* into the few kinds of steps that differ in what they do to these        *)
(* (NextKinds).                                                            *)

\* A run that is in the choreography: it has a verdict whose log it writes.
Working(r) == run[r].pc \notin {"idle", "judge", "settle", "approving"}

\* ... and has its copy of that log.
Loaded(r) == Working(r) /\ run[r].pc # "start"

OthersStay(r) == \A s \in Runners \ {r} : run'[s] = run[s]

Entries(r) == log[run[r].job][run[r].ver]

AfterDelete == {"episode_search", "manual_import_candidates",
                "execute_manual_import", "manual_import"}

\* The steps a run may yet log.
Ahead(pc) ==
    CASE pc = "mark_history_failed" ->
            {"mark_history_failed", "trash", "delete_episode_file"} \cup AfterDelete
      [] pc \in {"trash", "record"} -> {"trash", "delete_episode_file"} \cup AfterDelete
      [] pc \in {"episodes", "hardlink"} -> {"hardlink", "delete_episode_file"} \cup AfterDelete
      [] pc = "delete_episode_file" -> {"delete_episode_file"} \cup AfterDelete
      [] pc = "manual_import_candidates" -> {"manual_import_candidates", "execute_manual_import"}
      [] pc \in {"episode_search", "execute_manual_import", "manual_import"} -> {pc}
      [] OTHER -> {}

-----------------------------------------------------------------------------
(* The kinds of steps *)

\* A run ends, and its release passes the fence or not.
Leaves(r) ==
    /\ run[r].pc # "idle" /\ run'[r].pc = "idle" /\ OthersStay(r)
    /\ UNCHANGED log \/ (Loaded(r) /\ LogFailure(r))
    /\ UNCHANGED dry_run
    /\ \/ UNCHANGED <<status, claimed_by>>
       \/ /\ Fenced(r)
          /\ \E st \in Statuses \ {"pending", "active"} :
                /\ st \in Settled => Working(r) \/ run[r].pc = "settle"
                /\ st = "remediated" => run[r].pc = "done"
                /\ status' = [status EXCEPT ![run[r].job] = st]
          /\ claimed_by' = [claimed_by EXCEPT ![run[r].job] = NoOwner]

\* An approval reads what it is about.
Opens(r) ==
    /\ run'[r].pc = "approving" /\ OthersStay(r)
    /\ UNCHANGED <<status, claimed_by, log, dry_run>>

\* A worker claims; a request claims the latest verdict's job.
Takes(w, j) ==
    /\ w \in Workers /\ status[j] = "pending" /\ Claim(w, j)
    /\ run'[w].pc = "judge" /\ run'[w].job = j /\ OthersStay(w)
    /\ UNCHANGED <<log, dry_run>>

Seizes(r, j) ==
    /\ status[j] \in {"quarantine", "inconclusive"} /\ Claim(r, j)
    /\ run'[r].pc = "start" /\ run'[r].job = j /\ run'[r].ver = Len(log[j])
    /\ run[r].pc \in {"idle", "approving"} /\ OthersStay(r)
    /\ UNCHANGED <<log, dry_run>>

\* A new verdict, with an empty log.
Grows(j) == log' = [log EXCEPT ![j] = Append(@, <<>>)]

Judges(w) ==
    /\ w \in Workers /\ run[w].pc = "judge"
    /\ run'[w].pc \in {"settle", "start"} /\ run'[w].job = run[w].job
    /\ run'[w].ver = Len(log[run[w].job]) + 1 /\ OthersStay(w)
    /\ run'[w].pc = "start" => AutoKinds # {}
    /\ run'[w].pc = "settle" => run'[w].kind \in Settled
    /\ Grows(run[w].job)
    /\ UNCHANGED <<status, claimed_by, dry_run>>

\* A working run goes on: without an entry, or with one.
Begins(r) ==
    /\ run[r].pc = "start" /\ ~Interrupted(Entries(r))
    /\ run'[r].pc \in {"episodes", "mark_history_failed", "trash", "delete_episode_file"}
    /\ run'[r].own = Entries(r) /\ UNCHANGED log

Advances(r) ==
    /\ \/ run'[r].pc = run[r].pc /\ run[r].pc \in Calls
       \/ run[r].pc = "episodes" /\ run'[r].pc = "hardlink"
       \/ run[r].pc = "trash"    /\ run'[r].pc = "record"
    /\ run'[r].own = run[r].own /\ UNCHANGED log

Does(r, step) ==
    /\ step \in Ahead(run[r].pc)
    /\ run'[r].own = Append(run[r].own, [step |-> step, dry |-> dry_run])
    /\ WriteLog(r, run'[r].own)
    /\ run'[r].pc \notin {"idle", "judge", "settle", "approving", "start"}
    /\ Ahead(run'[r].pc) \subseteq Ahead(run[r].pc) \ {step}
    /\ run'[r].pc \in AfterDelete =>
          step = "delete_episode_file" \/ run[r].pc \in AfterDelete
    /\ run'[r].pc = "done" => /\ run[r].pc \in AfterDelete
                              /\ step \in {"episode_search", "execute_manual_import", "manual_import"}

Goes(r) ==
    /\ Working(r) /\ run'[r].job = run[r].job /\ run'[r].ver = run[r].ver
    /\ run'[r].kind = run[r].kind /\ OthersStay(r)
    /\ Begins(r) \/ Advances(r) \/ \E step \in MUTATING_STEPS : Does(r, step)
    /\ UNCHANGED <<status, claimed_by, dry_run>>

\* The job is put back, or an operator's verdict settles it.
Returns(j) ==
    /\ \E s \in {"pending", "error"} : status' = [status EXCEPT ![j] = s]
    /\ claimed_by' = [claimed_by EXCEPT ![j] = NoOwner]
    /\ UNCHANGED <<log, run, dry_run>>

Overrules(j) ==
    /\ status[j] \in {"quarantine", "inconclusive"}
    /\ \E s \in Settled : status' = [status EXCEPT ![j] = s]
    /\ UNCHANGED log \/ Grows(j)
    /\ UNCHANGED <<claimed_by, run, dry_run>>

Restarts ==
    /\ \A r \in Runners : run'[r].pc = "idle"
    /\ dry_run' \in BOOLEAN
    /\ UNCHANGED <<status, claimed_by, log>>

Nothing == UNCHANGED <<status, claimed_by, log, run, dry_run>>

StepKinds ==
    \/ \E r \in Runners : Leaves(r) \/ Opens(r) \/ Judges(r) \/ Goes(r)
    \/ \E r \in Runners, j \in Jobs : Takes(r, j) \/ Seizes(r, j)
    \/ \E j \in Jobs : Returns(j) \/ Overrules(j)
    \/ Restarts \/ Nothing

\* What a run that settles its job settles it to.
Sentences == \A r \in Runners : run[r].pc = "settle" => run[r].kind \in Settled

-----------------------------------------------------------------------------
(* Every step is of one of these kinds. *)

(* What an assignment to some fields of a run leaves of it. *)

LEMMA GotoGoes ==
    ASSUME IInv, NEW r \in Runners, NEW pc, NEW own, Goto(r, pc, own)
    PROVE  /\ run'[r].pc = pc /\ run'[r].job = run[r].job /\ run'[r].ver = run[r].ver
           /\ run'[r].kind = run[r].kind /\ run'[r].own = own /\ OthersStay(r)
<1>1. PICK x : x = [run[r] EXCEPT !.pc = pc, !.reply = "none", !.own = own]
  OBVIOUS
<1>2. run'[r] = x
  BY <1>1 DEF Goto, IInv, Shape, RunShape
<1>3. x.pc = pc /\ x.job = run[r].job /\ x.ver = run[r].ver /\ x.kind = run[r].kind /\ x.own = own
  BY <1>1 DEF IInv, Shape, RunShape, Fields
<1>4. OthersStay(r)
  BY DEF Goto, IInv, Shape, RunShape, OthersStay
<1> QED
  BY <1>2, <1>3, <1>4

LEMMA ReplyOnly ==
    ASSUME RunShape, NEW r \in Runners, NEW y, run' = [run EXCEPT ![r].reply = y]
    PROVE  /\ run'[r].pc = run[r].pc /\ run'[r].job = run[r].job
           /\ run'[r].ver = run[r].ver /\ run'[r].kind = run[r].kind
           /\ run'[r].own = run[r].own /\ OthersStay(r)
BY DEF RunShape, Fields, OthersStay

LEMMA PcAndVer ==
    ASSUME RunShape, NEW r \in Runners, NEW p, NEW v,
           run' = [run EXCEPT ![r].pc = p, ![r].ver = v]
    PROVE  run'[r].pc = p /\ run'[r].job = run[r].job /\ run'[r].ver = v /\ OthersStay(r)
<1>1. run'[r].pc = p /\ run'[r].job = run[r].job /\ run'[r].ver = v
  <2>1. PICK x : x = [run[r] EXCEPT !.pc = p, !.ver = v]
    OBVIOUS
  <2>2. run'[r] = x
    BY <2>1 DEF RunShape
  <2>3. x.pc = p /\ x.job = run[r].job /\ x.ver = v
    BY <2>1 DEF RunShape, Fields
  <2> QED
    BY <2>2, <2>3
<1>2. OthersStay(r)
  BY DEF RunShape, OthersStay
<1> QED
  BY <1>1, <1>2

LEMMA Sentenced ==
    ASSUME RunShape, NEW r \in Runners, NEW p, NEW v, NEW k,
           run' = [run EXCEPT ![r].kind = k, ![r].ver = v, ![r].pc = p]
    PROVE  /\ run'[r].pc = p /\ run'[r].job = run[r].job /\ run'[r].ver = v
           /\ run'[r].kind = k /\ OthersStay(r)
BY DEF RunShape, Fields, OthersStay

\* A run's record is replaced, or started from the empty one.
LEMMA Replaced ==
    ASSUME RunShape, NEW r \in Runners, NEW x, run' = [run EXCEPT ![r] = x]
    PROVE  run'[r] = x /\ OthersStay(r)
BY DEF RunShape, OthersStay

LEMMA ReleaseLeaves ==
    ASSUME IInv, NEW r \in Runners, run[r].pc # "idle", UNCHANGED dry_run,
           UNCHANGED log \/ (Loaded(r) /\ LogFailure(r)),
           \/ \E st \in Statuses \ {"pending", "active"} :
                 /\ Release(r, st)
                 /\ st \in Settled => Working(r) \/ run[r].pc = "settle"
                 /\ st = "remediated" => run[r].pc = "done"
           \/ run' = [run EXCEPT ![r] = Idle] /\ UNCHANGED <<status, claimed_by>>
    PROVE  Leaves(r)
<1>1. run' = [run EXCEPT ![r] = Idle]
  BY DEF Release
<1>2. run'[r].pc = "idle" /\ OthersStay(r)
  BY <1>1, Replaced, IdleFields DEF IInv, Shape
<1> QED
  BY <1>2 DEF Leaves, Release

LEMMA WorkersKind ==
    ASSUME IInv, Sentences, NEW w \in Workers,
           \/ \E j \in Jobs : PoolClaim(w, j)
           \/ Judge(w) \/ JudgeFails(w) \/ Settle(w) \/ CancelWorker(w)
    PROVE  Leaves(w) \/ Judges(w) \/ \E j \in Jobs : Takes(w, j)
<1>0. w \in Runners
  BY Ids
<1>1. CASE \E j \in Jobs : PoolClaim(w, j)
  <2>1. PICK j \in Jobs : PoolClaim(w, j)
    BY <1>1
  <2>2. PICK x : x = [Idle EXCEPT !.pc = "judge", !.job = j]
    OBVIOUS
  <2>3. x.pc = "judge" /\ x.job = j
    BY <2>2 DEF Idle
  <2>4. run'[w] = x /\ OthersStay(w)
    BY <1>0, <2>1, <2>2, Replaced DEF PoolClaim, IInv, Shape
  <2> QED
    BY <2>1, <2>3, <2>4 DEF PoolClaim, Takes, config
<1>2. CASE Judge(w)
  <2>1. PICK goal \in Settled \cup AutoKinds, action \in Kinds \cup {"none"} :
           /\ NewVerdict(run[w].job, action)
           /\ run' = [run EXCEPT ![w].kind = goal, ![w].ver = Len(log[run[w].job]) + 1,
                                 ![w].pc = IF goal \in Kinds THEN "start" ELSE "settle"]
    BY <1>2 DEF Judge
  <2>2. PICK n : n = IF goal \in Kinds THEN "start" ELSE "settle"
    OBVIOUS
  <2>3. /\ run'[w].pc = n /\ run'[w].job = run[w].job /\ run'[w].kind = goal
        /\ run'[w].ver = Len(log[run[w].job]) + 1 /\ OthersStay(w)
    <3>1. PICK v : v = Len(log[run[w].job]) + 1
      OBVIOUS
    <3>2. run' = [run EXCEPT ![w].kind = goal, ![w].ver = v, ![w].pc = n]
      BY <2>1, <2>2, <3>1
    <3> QED
      <4>1. RunShape
        BY DEF IInv, Shape
      <4>2. /\ run'[w].pc = n /\ run'[w].job = run[w].job /\ run'[w].ver = v
            /\ run'[w].kind = goal /\ OthersStay(w)
        BY <1>0, <3>2, <4>1, Sentenced
      <4> QED
        BY <3>1, <4>2
  <2>4. goal \in Kinds => AutoKinds # {}
    BY DEF Settled, Kinds
  <2>5. goal \notin Kinds => goal \in Settled
    BY AutoAssumption DEF Kinds
  <2> QED
    BY <1>2, <2>1, <2>2, <2>3, <2>4, <2>5 DEF Judge, Judges, NewVerdict, Grows, config
<1>3. CASE JudgeFails(w)
  BY <1>0, <1>3, ReleaseLeaves DEF JudgeFails, config, Statuses, Settled
<1>4. CASE Settle(w)
  <2>1. run[w].kind \in Settled
    BY <1>0, <1>4 DEF Settle, Sentences
  <2>2. run[w].kind \in Statuses \ {"pending", "active"} /\ run[w].kind # "remediated"
    BY <2>1 DEF Settled, Statuses
  <2> QED
    BY <1>0, <1>4, <2>1, <2>2, ReleaseLeaves DEF Settle, config
<1>5. CASE CancelWorker(w)
  BY <1>0, <1>5, ReleaseLeaves DEF CancelWorker, config, tables
<1> QED
  BY <1>1, <1>2, <1>3, <1>4, <1>5

LEMMA RequestsKind ==
    ASSUME IInv, NEW r \in Requests,
           (\E j \in Jobs : ApproveRead(r, j) \/ TrashAndRegrab(r, j)) \/ ApproveClaim(r)
    PROVE  Leaves(r) \/ Opens(r) \/ \E j \in Jobs : Seizes(r, j)
<1>0. r \in Runners
  BY Ids
<1>1. CASE \E j \in Jobs : ApproveRead(r, j)
  <2>1. PICK j \in Jobs : ApproveRead(r, j)
    BY <1>1
  <2>2. PICK x : x = [Idle EXCEPT !.pc = "approving", !.job = j, !.kind = proposal[j]]
    OBVIOUS
  <2>3. x.pc = "approving"
    BY <2>2 DEF Idle
  <2>4. run'[r] = x /\ OthersStay(r)
    BY <1>0, <2>1, <2>2, Replaced DEF ApproveRead, IInv, Shape
  <2> QED
    BY <2>1, <2>3, <2>4 DEF ApproveRead, Opens, tables, config
<1>2. CASE \E j \in Jobs : TrashAndRegrab(r, j)
  <2>1. PICK j \in Jobs : TrashAndRegrab(r, j)
    BY <1>2
  <2>2. PICK x : x = [Idle EXCEPT !.pc = "start", !.job = j, !.kind = "replace", !.ver = Len(log[j])]
    OBVIOUS
  <2>3. x.pc = "start" /\ x.job = j /\ x.ver = Len(log[j])
    BY <2>2 DEF Idle
  <2>4. run'[r] = x /\ OthersStay(r)
    BY <1>0, <2>1, <2>2, Replaced DEF TrashAndRegrab, IInv, Shape
  <2> QED
    BY <2>1, <2>3, <2>4 DEF TrashAndRegrab, Seizes, config
<1>3. CASE ApproveClaim(r) /\ status[run[r].job] = "quarantine"
  <2>1. /\ run'[r].pc = "start" /\ run'[r].job = run[r].job
        /\ run'[r].ver = Len(log[run[r].job]) /\ OthersStay(r)
    <3>1. PICK v : v = Len(log[run[r].job])
      OBVIOUS
    <3>2. run' = [run EXCEPT ![r].pc = "start", ![r].ver = v]
      BY <1>3, <3>1 DEF ApproveClaim
    <3> QED
      BY <1>0, <3>1, <3>2, PcAndVer DEF IInv, Shape
  <2>2. run[r].job \in Jobs
    BY <1>0, <1>3 DEF ApproveClaim, IInv, OnItsWay
  <2> QED
    BY <1>3, <2>1, <2>2 DEF ApproveClaim, Seizes, config
<1>4. CASE ApproveClaim(r) /\ status[run[r].job] # "quarantine"
  BY <1>0, <1>4, ReleaseLeaves DEF ApproveClaim, config
<1> QED
  BY <1>1, <1>2, <1>3, <1>4

\* What is ahead gets less with every entry.
LEMMA AheadOf ==
    /\ Ahead("mark_history_failed") =
          {"mark_history_failed", "trash", "delete_episode_file"} \cup AfterDelete
    /\ Ahead("trash") = {"trash", "delete_episode_file"} \cup AfterDelete
    /\ Ahead("record") = {"trash", "delete_episode_file"} \cup AfterDelete
    /\ Ahead("episodes") = {"hardlink", "delete_episode_file"} \cup AfterDelete
    /\ Ahead("hardlink") = {"hardlink", "delete_episode_file"} \cup AfterDelete
    /\ Ahead("delete_episode_file") = {"delete_episode_file"} \cup AfterDelete
    /\ Ahead("manual_import_candidates") = {"manual_import_candidates", "execute_manual_import"}
    /\ Ahead("episode_search") = {"episode_search"}
    /\ Ahead("execute_manual_import") = {"execute_manual_import"}
    /\ Ahead("manual_import") = {"manual_import"}
    /\ Ahead("done") = {}
BY DEF Ahead

\* A step that was done: its entry, and where it leads.
LEMMA LoggedDoes ==
    ASSUME IInv, NEW r \in Runners, NEW pc, NEW step, LogOk(r, step, pc),
           step \in Ahead(run[r].pc) \cap MUTATING_STEPS, Working(r),
           pc \notin {"idle", "judge", "settle", "approving", "start"},
           Ahead(pc) \subseteq Ahead(run[r].pc) \ {step},
           pc \in AfterDelete => step = "delete_episode_file" \/ run[r].pc \in AfterDelete,
           pc = "done" => /\ run[r].pc \in AfterDelete
                          /\ step \in {"episode_search", "execute_manual_import", "manual_import"},
           UNCHANGED <<status, claimed_by, dry_run>>
    PROVE  Goes(r)
<1>0. PICK entries : /\ entries = Append(run[r].own, [step |-> step, dry |-> dry_run])
                     /\ WriteLog(r, entries) /\ Goto(r, pc, entries)
  BY DEF LogOk
<1>1. /\ run'[r].pc = pc /\ run'[r].job = run[r].job /\ run'[r].ver = run[r].ver
      /\ run'[r].kind = run[r].kind /\ OthersStay(r)
      /\ run'[r].own = Append(run[r].own, [step |-> step, dry |-> dry_run])
      /\ WriteLog(r, run'[r].own)
  BY <1>0, GotoGoes
<1>2. Does(r, step)
  BY <1>1 DEF Does
<1> QED
  BY <1>1, <1>2 DEF Goes

LEMMA RunnerKind == ASSUME IInv, NEW r \in Runners, RunnerStep(r) PROVE Leaves(r) \/ Goes(r)
<1>0. OnItsWay(r)
  BY DEF IInv
<1>1. CASE Start(r)
  <2>1. CASE Interrupted(Entries(r))
    <3>1. Release(r, "quarantine") /\ run[r].pc = "start" /\ UNCHANGED <<log, dry_run>>
      BY <1>1, <2>1 DEF Start, Entries, config
    <3> QED
      BY <3>1, ReleaseLeaves DEF Statuses, Settled, Working
  <2>2. CASE ~Interrupted(Entries(r))
    <3>1. PICK pc \in {"episodes", "mark_history_failed", "trash", "delete_episode_file"} :
             Goto(r, pc, Entries(r))
      BY <1>1, <2>2 DEF Start, Entries, After
    <3>2. run[r].pc = "start" /\ UNCHANGED <<log, status, claimed_by, dry_run>>
      BY <1>1, <2>2 DEF Start, Entries, config
    <3> QED
      BY <2>2, <3>1, <3>2, GotoGoes DEF Goes, Begins, Working
  <2> QED
    BY <2>1, <2>2
<1>2. CASE Call(r)
  <2>1. PICK y : run' = [run EXCEPT ![r].reply = y]
    BY <1>2 DEF Call
  <2>2. /\ run'[r].pc = run[r].pc /\ run'[r].job = run[r].job
        /\ run'[r].ver = run[r].ver /\ run'[r].kind = run[r].kind
        /\ run'[r].own = run[r].own /\ OthersStay(r)
    BY <2>1, ReplyOnly DEF IInv, Shape
  <2>3. run[r].pc \in Calls /\ UNCHANGED <<log, status, claimed_by, dry_run>>
    BY <1>2 DEF Call, tables, config
  <2> QED
    BY <2>2, <2>3 DEF Goes, Advances, Working, Calls
<1>3. CASE Answered(r)
  <2>1. run[r].pc \in Calls /\ UNCHANGED <<status, claimed_by, dry_run>>
    BY <1>0, <1>3 DEF Answered, OnItsWay, config
  <2>2. CASE run[r].pc = "episodes"
    <3>1. Goto(r, "hardlink", run[r].own) /\ UNCHANGED log
      BY <1>3, <2>2 DEF Answered, After
    <3> QED
      BY <2>1, <2>2, <3>1, GotoGoes DEF Goes, Advances, Working
  <2>3. CASE run[r].pc # "episodes"
    <3>1. /\ LogOk(r, run[r].pc, After(r, run[r].pc))
          /\ run[r].pc \in MUTATING_STEPS /\ Working(r)
      BY <1>3, <2>1, <2>3 DEF Answered, MUTATING_STEPS, Working, Calls
    <3>2. CASE run[r].pc = "mark_history_failed"
      <4>1. PICK pc \in {"trash", "delete_episode_file"} : LogOk(r, run[r].pc, pc)
        BY <3>1, <3>2 DEF After
      <4> QED
        BY <2>1, <3>1, <3>2, <4>1, AheadOf, LoggedDoes DEF AfterDelete, Calls, MUTATING_STEPS
    <3>3. CASE run[r].pc = "delete_episode_file"
      <4>1. PICK pc \in {"episode_search", "manual_import", "manual_import_candidates"} : LogOk(r, run[r].pc, pc)
        BY <3>1, <3>3 DEF After
      <4> QED
        BY <2>1, <3>1, <3>3, <4>1, AheadOf, LoggedDoes DEF AfterDelete, Calls, MUTATING_STEPS
    <3>4. CASE run[r].pc = "manual_import_candidates"
      <4>1. LogOk(r, run[r].pc, "execute_manual_import")
        BY <3>1, <3>4 DEF After
      <4> QED
        BY <2>1, <3>1, <3>4, <4>1, AheadOf, LoggedDoes DEF AfterDelete, Calls, MUTATING_STEPS
    <3>5. CASE run[r].pc \in {"episode_search", "execute_manual_import"}
      <4>1. LogOk(r, run[r].pc, "done")
        BY <3>1, <3>5 DEF After
      <4> QED
        BY <2>1, <3>1, <3>5, <4>1, AheadOf, LoggedDoes DEF AfterDelete, Calls, MUTATING_STEPS
    <3> QED
      BY <2>1, <2>3, <3>2, <3>3, <3>4, <3>5 DEF Calls
  <2> QED
    BY <2>2, <2>3
<1>4. CASE Refused(r) \/ Raised(r)
  <2>1. run[r].pc \in Calls /\ UNCHANGED dry_run /\ (UNCHANGED log \/ LogFailure(r))
    BY <1>0, <1>4 DEF Refused, Raised, OnItsWay, config
  <2>2. \/ Release(r, "quarantine") \/ Release(r, "error")
        \/ run' = [run EXCEPT ![r] = Idle] /\ UNCHANGED <<status, claimed_by>>
    BY <1>4 DEF Refused, Raised, OnError
  <2> QED
    BY <2>1, <2>2, ReleaseLeaves DEF Statuses, Settled, Working, Loaded, Calls
<1>5. CASE CopyToTrash(r)
  <2>1. run[r].pc = "trash" /\ Working(r) /\ UNCHANGED dry_run
    BY <1>5 DEF CopyToTrash, config, Working
  <2>2. CASE LogOk(r, "trash", "delete_episode_file") /\ UNCHANGED <<status, claimed_by>>
    BY <2>1, <2>2, AheadOf, LoggedDoes DEF AfterDelete, Calls, MUTATING_STEPS
  <2>3. CASE Goto(r, "record", run[r].own) /\ UNCHANGED <<log, status, claimed_by>>
    BY <2>1, <2>3, GotoGoes DEF Goes, Advances
  <2>4. CASE Release(r, "quarantine") /\ LogFailure(r)
    BY <2>1, <2>4, ReleaseLeaves DEF Statuses, Settled, Loaded
  <2> QED
    BY <1>5, <2>2, <2>3, <2>4 DEF CopyToTrash, After
<1>6. CASE RecordTrash(r)
  <2>1. /\ run[r].pc = "record" /\ UNCHANGED <<status, claimed_by, dry_run>>
        /\ LogOk(r, "trash", "delete_episode_file")
    BY <1>6 DEF RecordTrash, config
  <2> QED
    BY <2>1, AheadOf, LoggedDoes DEF Working, AfterDelete, MUTATING_STEPS
<1>7. CASE HardlinkIntoStaging(r)
  <2>1. run[r].pc = "hardlink" /\ Working(r) /\ UNCHANGED dry_run
    BY <1>7 DEF HardlinkIntoStaging, config, Working
  <2>2. CASE LogOk(r, "hardlink", "delete_episode_file") /\ UNCHANGED <<status, claimed_by>>
    BY <2>1, <2>2, AheadOf, LoggedDoes DEF AfterDelete, Calls, MUTATING_STEPS
  <2>3. CASE Release(r, "quarantine") /\ LogFailure(r)
    BY <2>1, <2>3, ReleaseLeaves DEF Statuses, Settled, Loaded
  <2> QED
    BY <1>7, <2>2, <2>3 DEF HardlinkIntoStaging, After
<1>8. CASE LogDryImport(r)
  <2>1. /\ run[r].pc = "manual_import" /\ UNCHANGED <<status, claimed_by, dry_run>>
        /\ LogOk(r, "manual_import", "done")
    BY <1>8 DEF LogDryImport, config
  <2> QED
    BY <2>1, AheadOf, LoggedDoes DEF Working, AfterDelete, MUTATING_STEPS
<1>9. CASE Finish(r)
  BY <1>9, ReleaseLeaves DEF Finish, config, Statuses, Settled
<1> QED
  BY <1>1, <1>2, <1>3, <1>4, <1>5, <1>6, <1>7, <1>8, <1>9 DEF RunnerStep

LEMMA NextKinds == ASSUME IInv, Sentences, [Next]_vars PROVE StepKinds
<1>1. CASE \E w \in Workers : \/ \E j \in Jobs : PoolClaim(w, j)
                              \/ Judge(w) \/ JudgeFails(w) \/ Settle(w) \/ CancelWorker(w)
  BY <1>1, WorkersKind, Ids DEF StepKinds
<1>2. CASE \E r \in Requests : \/ \E j \in Jobs : ApproveRead(r, j) \/ TrashAndRegrab(r, j)
                               \/ ApproveClaim(r)
  BY <1>2, RequestsKind, Ids DEF StepKinds
<1>3. CASE \E r \in Runners : RunnerStep(r)
  BY <1>3, RunnerKind DEF StepKinds
<1>4. CASE \E j \in Jobs : HumanVerdict(j)
  BY <1>4 DEF StepKinds, HumanVerdict, Overrules, NewVerdict, Grows, config
<1>5. CASE \E j \in Jobs : Rerun(j) \/ Reap(j)
  BY <1>5 DEF StepKinds, Rerun, Reap, Returns, config
<1>6. CASE \E j \in Jobs : Reject(j) \/ ImportRuns(j) \/ ImportFails(j)
  BY <1>6 DEF StepKinds, Nothing, Reject, ImportRuns, ImportFails, tables, config
<1>7. CASE TrashNext /\ UNCHANGED <<tables, sonarr, run, config, reviewed>>
  BY <1>7 DEF StepKinds, Nothing, tables, config
<1>8. CASE Crash
  BY <1>8, IdleFields DEF StepKinds, Restarts, Crash, tables
<1>9. CASE UNCHANGED vars
  BY <1>9 DEF StepKinds, Nothing, vars, tables, config
<1> QED
  BY <1>1, <1>2, <1>3, <1>4, <1>5, <1>6, <1>7, <1>8, <1>9 DEF Next

-----------------------------------------------------------------------------
(* What a step does to the logs *)

LogTyped == log \in [Jobs -> Seq(Seq(Entry))]

\* No verdict goes.
LogsGrow == \A j \in Jobs : Len(log[j]) <= Len(log'[j])

LEMMA GrowsFacts ==
    ASSUME LogTyped, NEW j \in Jobs, Grows(j)
    PROVE  /\ LogTyped' /\ LogsGrow
           /\ Len(log'[j]) = Len(log[j]) + 1 /\ log'[j][Len(log[j]) + 1] = <<>>
           /\ \A k \in Jobs : \A v \in DOMAIN log[k] : log'[k][v] = log[k][v]
           /\ \A k \in Jobs \ {j} : log'[k] = log[k]
<1>1. PICK s : s = log[j]
  OBVIOUS
<1>2. s \in Seq(Seq(Entry)) /\ <<>> \in Seq(Entry)
  BY <1>1 DEF LogTyped
<1>3. PICK t : t = Append(s, <<>>)
  OBVIOUS
<1>4. /\ t \in Seq(Seq(Entry)) /\ Len(t) = Len(s) + 1 /\ t[Len(s) + 1] = <<>>
      /\ \A v \in DOMAIN s : v \in DOMAIN t /\ t[v] = s[v]
  BY <1>2, <1>3
<1>5. log' = [log EXCEPT ![j] = t]
  BY <1>1, <1>3 DEF Grows
<1>6. LogTyped' /\ log'[j] = t /\ \A k \in Jobs \ {j} : log'[k] = log[k]
  BY <1>4, <1>5 DEF LogTyped
<1>7. \A k \in Jobs : \A v \in DOMAIN log[k] : log'[k][v] = log[k][v]
  BY <1>1, <1>4, <1>6
<1>8. \A k \in Jobs : Len(log[k]) <= Len(log'[k])
  <2>1. \A k \in Jobs : Len(log[k]) \in Nat
    BY DEF LogTyped
  <2> QED
    BY <1>1, <1>4, <1>6, <2>1
<1>9. LogsGrow
  BY <1>8 DEF LogsGrow
<1> QED
  BY <1>1, <1>4, <1>6, <1>7, <1>9

LEMMA WriteFacts ==
    ASSUME LogTyped, NEW r \in Runners, run[r].job \in Jobs,
           run[r].ver \in DOMAIN log[run[r].job], NEW entries \in Seq(Entry), WriteLog(r, entries)
    PROVE  /\ LogTyped' /\ LogsGrow
           /\ log'[run[r].job][run[r].ver] = entries
           /\ \A k \in Jobs : DOMAIN log'[k] = DOMAIN log[k]
           /\ \A k \in Jobs : \A v \in DOMAIN log[k] :
                 k # run[r].job \/ v # run[r].ver => log'[k][v] = log[k][v]
<1>1. PICK j \in Jobs : j = run[r].job
  OBVIOUS
<1>2. PICK v \in DOMAIN log[j] : v = run[r].ver
  BY <1>1
<1>4. PICK s : s = log[j]
  OBVIOUS
<1>5. s \in Seq(Seq(Entry)) /\ v \in DOMAIN s
  BY <1>2, <1>4 DEF LogTyped
<1>8. PICK t : t = [s EXCEPT ![v] = entries]
  OBVIOUS
<1>9. t \in Seq(Seq(Entry)) /\ Len(t) = Len(s) /\ DOMAIN t = DOMAIN s
  <2>1. t \in Seq(Seq(Entry)) /\ Len(t) = Len(s)
    BY <1>5, <1>8, ExceptSeq
  <2> QED
    BY <1>8, <2>1
<1>10. t[v] = entries /\ \A u \in DOMAIN s : u # v => t[u] = s[u]
  BY <1>5, <1>8
<1>11. log' = [log EXCEPT ![j] = t]
  BY <1>1, <1>2, <1>4, <1>8 DEF WriteLog, LogTyped
<1>12. LogTyped' /\ log'[j] = t /\ \A k \in Jobs \ {j} : log'[k] = log[k]
  BY <1>9, <1>11 DEF LogTyped
<1>13. \A k \in Jobs : Len(log'[k]) = Len(log[k]) /\ DOMAIN log'[k] = DOMAIN log[k]
  BY <1>4, <1>9, <1>12
<1>14. \A k \in Jobs : \A u \in DOMAIN log[k] : k # j \/ u # v => log'[k][u] = log[k][u]
  BY <1>4, <1>10, <1>12
<1>15. log'[j][v] = entries
  BY <1>10, <1>12
<1>16. LogsGrow
  <2>1. \A k \in Jobs : Len(log[k]) \in Nat
    BY DEF LogTyped
  <2> QED
    BY <1>13, <2>1 DEF LogsGrow
<1> QED
  BY <1>1, <1>2, <1>12, <1>13, <1>14, <1>15, <1>16

LEMMA LogStays == ASSUME LogTyped, UNCHANGED log PROVE LogTyped' /\ LogsGrow
<1>1. \A k \in Jobs : Len(log[k]) \in Nat
  BY DEF LogTyped
<1> QED
  BY <1>1 DEF LogTyped, LogsGrow

-----------------------------------------------------------------------------
(* What a run has logged, by its own copy. *)

\* A run past the deletion has logged it, in its mode; one at the end, all.
Told(r) ==
    /\ Loaded(r) => run[r].own \in Seq(Entry)
    /\ run[r].pc \in AfterDelete =>
          \E i \in DOMAIN run[r].own : /\ run[r].own[i].step = "delete_episode_file"
                                       /\ run[r].own[i].dry = dry_run
    /\ run[r].pc = "done" => Complete(run[r].own)

InLog(r) == Working(r) \/ run[r].pc = "settle" => run[r].ver \in DOMAIN log[run[r].job]

Reported ==
    /\ LogTyped /\ Sentences
    /\ status = [j \in Jobs |-> status[j]]
    /\ \A j \in Jobs : status[j] \in Settled => Len(log[j]) > 0
    /\ \A r \in Runners : InLog(r) /\ Told(r)

LEMMA InitReported == Init => Reported
<1> SUFFICES ASSUME Init PROVE Reported
  OBVIOUS
<1>1. \A r \in Runners : run[r].pc = "idle"
  BY IdleFields DEF Init
<1>2. LogTyped /\ status = [j \in Jobs |-> status[j]] /\ \A j \in Jobs : status[j] = "pending"
  BY DEF Init, LogTyped
<1> QED
  BY <1>1, <1>2 DEF Reported, Sentences, Settled, InLog, Working, Loaded, Told, AfterDelete

LEMMA JobOf == ASSUME IInv, NEW r \in Runners, run[r].pc # "idle" PROVE run[r].job \in Jobs
BY DEF IInv, OnItsWay

\* An entry is appended to the run's copy, which is written over the column.
LEMMA DoesFacts ==
    ASSUME IInv, Reported, NEW r \in Runners, Working(r), NEW step \in MUTATING_STEPS, Does(r, step)
    PROVE  /\ Loaded(r) /\ WriteLog(r, run'[r].own)
           /\ run[r].own \in Seq(Entry) /\ run'[r].own \in Seq(Entry)
           /\ run'[r].own = Append(run[r].own, [step |-> step, dry |-> dry_run])
<1>1. Loaded(r)
  <2>1. Ahead("start") = {}
    BY DEF Ahead
  <2> QED
    BY <2>1 DEF Does, Loaded
<1>2. run[r].own \in Seq(Entry) /\ dry_run \in BOOLEAN
  BY <1>1 DEF Reported, Told, IInv, Shape
<1>3. PICK e \in Entry : e = [step |-> step, dry |-> dry_run]
  BY <1>2 DEF Entry
<1>4. run'[r].own = Append(run[r].own, e)
  BY <1>3 DEF Does
<1>5. Append(run[r].own, e) \in Seq(Entry)
  BY <1>2
<1> QED
  BY <1>1, <1>2, <1>3, <1>4, <1>5 DEF Does

LEMMA LogsStep == ASSUME IInv, Reported, StepKinds PROVE LogTyped' /\ LogsGrow
<1>1. CASE UNCHANGED log
  BY <1>1, LogStays DEF Reported
<1>2. CASE \E j \in Jobs : Grows(j)
  BY <1>2, GrowsFacts DEF Reported
<1>3. ASSUME NEW r \in Runners, Judges(r) PROVE LogTyped' /\ LogsGrow
  <2>1. run[r].job \in Jobs
    BY <1>3, JobOf DEF Judges
  <2> QED
    BY <1>2, <1>3, <2>1 DEF Judges
<1>4. ASSUME NEW r \in Runners, Loaded(r), NEW entries \in Seq(Entry), WriteLog(r, entries)
      PROVE  LogTyped' /\ LogsGrow
  <2>1. run[r].job \in Jobs /\ run[r].ver \in DOMAIN log[run[r].job] /\ LogTyped
    BY <1>4, JobOf DEF Loaded, Working, Reported, InLog
  <2> QED
    BY <1>4, <2>1, WriteFacts
<1>5. ASSUME NEW r \in Runners, Leaves(r) PROVE LogTyped' /\ LogsGrow
  <2>1. CASE UNCHANGED log
    BY <1>1, <2>1
  <2>2. CASE Loaded(r) /\ LogFailure(r)
    <3>1. PICK entries \in Seq(Entry) : entries = run[r].own
      BY <2>2 DEF Reported, Told
    <3>2. WriteLog(r, entries)
      BY <2>2, <3>1 DEF LogFailure
    <3> QED
      BY <1>4, <2>2, <3>2
  <2> QED
    BY <1>5, <2>1, <2>2 DEF Leaves
<1>6. ASSUME NEW r \in Runners, Goes(r) PROVE LogTyped' /\ LogsGrow
  <2>1. CASE UNCHANGED log
    BY <1>1, <2>1
  <2>2. ASSUME NEW step \in MUTATING_STEPS, Does(r, step) PROVE LogTyped' /\ LogsGrow
    <3>1. Loaded(r) /\ run'[r].own \in Seq(Entry) /\ WriteLog(r, run'[r].own)
      BY <1>6, <2>2, DoesFacts DEF Goes
    <3>2. PICK entries \in Seq(Entry) : entries = run'[r].own
      BY <3>1
    <3>3. WriteLog(r, entries)
      BY <3>1, <3>2
    <3> QED
      BY <1>4, <3>1, <3>3
  <2> QED
    BY <1>6, <2>1, <2>2 DEF Goes, Begins, Advances
<1> QED
  BY <1>1, <1>2, <1>3, <1>5, <1>6 DEF StepKinds, Opens, Takes, Seizes, Returns, Overrules, Restarts, Nothing

\* What a run is owed stays true while others write.
LEMMA ToldStays ==
    ASSUME IInv, Reported, LogTyped', LogsGrow, NEW r \in Runners, run'[r] = run[r], dry_run' = dry_run
    PROVE  InLog(r)' /\ Told(r)'
<1>1. Told(r)'
  BY DEF Reported, Told, Loaded, Working
<1>2. InLog(r)'
  <2> SUFFICES ASSUME Working(r) \/ run[r].pc = "settle" PROVE run[r].ver \in DOMAIN log'[run[r].job]
    BY DEF InLog, Working
  <2>1. PICK j \in Jobs : j = run[r].job
    BY JobOf DEF Working
  <2>2. run[r].ver \in DOMAIN log[j]
    BY <2>1 DEF Reported, InLog
  <2>3. /\ log[j] \in Seq(Seq(Entry)) /\ log'[j] \in Seq(Seq(Entry))
        /\ Len(log[j]) <= Len(log'[j])
    BY DEF Reported, LogTyped, LogsGrow
  <2>4. run[r].ver \in DOMAIN log'[j]
    BY <2>2, <2>3
  <2> QED
    BY <2>1, <2>4
<1> QED
  BY <1>1, <1>2

LEMMA GoesTold ==
    ASSUME IInv, Reported, LogTyped', LogsGrow, NEW r \in Runners, Goes(r)
    PROVE  InLog(r)' /\ Told(r)'
<1>1. PICK j \in Jobs : j = run[r].job
  BY JobOf DEF Goes, Working
<1>2. PICK v \in DOMAIN log[j] : v = run[r].ver
  BY <1>1 DEF Goes, Reported, InLog
<1>3. run'[r].job = j /\ run'[r].ver = v /\ UNCHANGED dry_run
  BY <1>1, <1>2 DEF Goes
<1>4. Told(r) /\ dry_run \in BOOLEAN /\ log[j] \in Seq(Seq(Entry))
  BY DEF Reported, LogTyped, IInv, Shape
<1>5. InLog(r)'
  <2>1. log'[j] \in Seq(Seq(Entry)) /\ Len(log[j]) <= Len(log'[j])
    BY DEF LogTyped, LogsGrow
  <2>2. v \in DOMAIN log'[j]
    BY <1>4, <2>1
  <2> QED
    BY <1>3, <2>2 DEF InLog
<1>6. CASE Begins(r)
  <2>1. run'[r].own = log[j][v] /\ run'[r].own \in Seq(Entry)
    BY <1>1, <1>2, <1>4, <1>6 DEF Begins, Entries
  <2>2. run'[r].pc \notin AfterDelete \cup {"done"}
    BY <1>6 DEF Begins, AfterDelete
  <2> QED
    BY <1>5, <2>1, <2>2 DEF Told
<1>7. CASE Advances(r)
  <2>1. run'[r].own = run[r].own /\ (run'[r].pc = run[r].pc \/ run'[r].pc \in {"hardlink", "record"})
    BY <1>7 DEF Advances
  <2>2. run'[r].pc \in AfterDelete \cup {"done"} => run'[r].pc = run[r].pc
    BY <2>1 DEF AfterDelete
  <2>3. Loaded(r)
    BY <1>7 DEF Advances, Loaded, Working, Calls
  <2> QED
    BY <1>3, <1>4, <1>5, <2>1, <2>2, <2>3 DEF Told
<1>8. ASSUME NEW step \in MUTATING_STEPS, Does(r, step) PROVE Told(r)'
  <2>0. Loaded(r)
    BY <1>8, DoesFacts DEF Goes
  <2>1. PICK s \in Seq(Entry) : s = run[r].own
    BY <1>4, <2>0 DEF Told
  <2>2. PICK e \in Entry : e = [step |-> step, dry |-> dry_run]
    BY <1>4 DEF Entry
  <2>3. PICK t : t = Append(s, e)
    OBVIOUS
  <2>4. run'[r].own = t /\ t \in Seq(Entry)
    BY <1>8, <2>1, <2>2, <2>3 DEF Does
  <2>5. /\ Len(s) + 1 \in DOMAIN t /\ t[Len(s) + 1] = e
        /\ \A i \in DOMAIN s : i \in DOMAIN t /\ t[i] = s[i] /\ i < Len(s) + 1
    BY <2>3
  <2>6. e.step = step /\ e.dry = dry_run
    BY <2>2
  <2>7. run[r].pc \in AfterDelete =>
           \E i \in DOMAIN s : s[i].step = "delete_episode_file" /\ s[i].dry = dry_run
    BY <1>4, <2>1 DEF Told
  <2>8. run'[r].pc \in AfterDelete =>
           \E i \in DOMAIN t : t[i].step = "delete_episode_file" /\ t[i].dry = dry_run
    BY <1>8, <2>5, <2>6, <2>7 DEF Does
  <2>9. run'[r].pc = "done" => Complete(t)
    <3> SUFFICES ASSUME run'[r].pc = "done" PROVE Complete(t)
      OBVIOUS
    <3>1. /\ run[r].pc \in AfterDelete
          /\ step \in {"episode_search", "execute_manual_import", "manual_import"}
      BY <1>8 DEF Does
    <3>2. PICK i \in DOMAIN s : s[i].step = "delete_episode_file" /\ s[i].dry = dry_run
      BY <2>7, <3>1
    <3>3. PICK k \in DOMAIN t : k = Len(s) + 1
      BY <2>5
    <3>4. i \in DOMAIN t /\ i < k /\ t[i].dry = t[k].dry
      BY <2>5, <2>6, <3>2, <3>3
    <3>5. t[i].step = "delete_episode_file" /\ t[k].step = step
      BY <2>5, <2>6, <3>2, <3>3
    <3> QED
      BY <3>1, <3>4, <3>5 DEF Complete
  <2> QED
    BY <1>3, <2>4, <2>8, <2>9 DEF Told
<1> QED
  BY <1>5, <1>6, <1>7, <1>8 DEF Goes

\* What settles a job has a verdict.
LEMMA StatusStep ==
    ASSUME IInv, Reported, StepKinds, LogTyped', LogsGrow
    PROVE  /\ status' = [j \in Jobs |-> status'[j]]
           /\ \A j \in Jobs : status'[j] \in Settled => Len(log'[j]) > 0
<1>0. /\ \A j \in Jobs : Len(log[j]) \in Nat /\ Len(log'[j]) \in Nat /\ Len(log[j]) <= Len(log'[j])
      /\ status = [j \in Jobs |-> status[j]]
      /\ \A j \in Jobs : status[j] \in Settled => Len(log[j]) > 0
  BY DEF LogTyped, LogsGrow, Reported
<1>1. ASSUME NEW j \in Jobs, NEW s, status' = [status EXCEPT ![j] = s],
             s \in Settled => Len(log'[j]) > 0
      PROVE  /\ status' = [k \in Jobs |-> status'[k]]
             /\ \A k \in Jobs : status'[k] \in Settled => Len(log'[k]) > 0
  <2>1. status'[j] = s /\ \A k \in Jobs \ {j} : status'[k] = status[k]
    BY <1>0, <1>1
  <2>2. ASSUME NEW k \in Jobs, status'[k] \in Settled PROVE Len(log'[k]) > 0
    <3>1. CASE k = j
      BY <1>1, <2>1, <2>2, <3>1
    <3>2. CASE k # j
      BY <1>0, <2>1, <2>2, <3>2
    <3> QED
      BY <3>1, <3>2
  <2> QED
    BY <1>0, <1>1, <2>2
<1>2. CASE UNCHANGED status
  BY <1>0, <1>2
<1>3. ASSUME NEW r \in Runners, Leaves(r), ~UNCHANGED status
      PROVE  /\ status' = [k \in Jobs |-> status'[k]]
             /\ \A k \in Jobs : status'[k] \in Settled => Len(log'[k]) > 0
  <2>1. PICK j \in Jobs : j = run[r].job
    BY <1>3, JobOf DEF Leaves
  <2>2. PICK st : /\ st \in Settled => Working(r) \/ run[r].pc = "settle"
                  /\ status' = [status EXCEPT ![j] = st]
    BY <1>3, <2>1 DEF Leaves
  <2>3. st \in Settled => Len(log'[j]) > 0
    <3> SUFFICES ASSUME st \in Settled PROVE Len(log'[j]) > 0
      OBVIOUS
    <3>1. run[r].ver \in DOMAIN log[j] /\ log[j] \in Seq(Seq(Entry))
      BY <2>1, <2>2 DEF InLog, Reported, LogTyped
    <3>2. Len(log[j]) > 0
      BY <3>1
    <3> QED
      BY <1>0, <3>2
  <2> QED
    BY <1>1, <2>2, <2>3
<1>4. ASSUME NEW r \in Runners, NEW j \in Jobs, Takes(r, j) \/ Seizes(r, j)
      PROVE  /\ status' = [k \in Jobs |-> status'[k]]
             /\ \A k \in Jobs : status'[k] \in Settled => Len(log'[k]) > 0
  <2>1. status' = [status EXCEPT ![j] = "active"]
    BY <1>4 DEF Takes, Seizes, Claim
  <2> QED
    BY <1>1, <2>1 DEF Settled
<1>5. ASSUME NEW j \in Jobs, Returns(j)
      PROVE  /\ status' = [k \in Jobs |-> status'[k]]
             /\ \A k \in Jobs : status'[k] \in Settled => Len(log'[k]) > 0
  <2>1. PICK s \in {"pending", "error"} : status' = [status EXCEPT ![j] = s]
    BY <1>5 DEF Returns
  <2> QED
    BY <1>1, <2>1 DEF Settled
<1>6. ASSUME NEW j \in Jobs, Overrules(j)
      PROVE  /\ status' = [k \in Jobs |-> status'[k]]
             /\ \A k \in Jobs : status'[k] \in Settled => Len(log'[k]) > 0
  <2>1. PICK s \in Settled : status' = [status EXCEPT ![j] = s]
    BY <1>6 DEF Overrules
  <2>2. Len(log'[j]) > 0
    BY <1>0, <1>6 DEF Overrules, Settled
  <2> QED
    BY <1>1, <2>1, <2>2
<1> QED
  BY <1>2, <1>3, <1>4, <1>5, <1>6
     DEF StepKinds, Opens, Judges, Goes, Restarts, Nothing

\* What a run has to show after its own step, and after another's.
LEMMA RunsStep ==
    ASSUME IInv, Reported, StepKinds, LogTyped', LogsGrow, NEW s \in Runners
    PROVE  InLog(s)' /\ Told(s)' /\ (run'[s].pc = "settle" => run'[s].kind \in Settled)
<1>0. run[s].pc = "settle" => run[s].kind \in Settled
  BY DEF Reported, Sentences
<1>1. CASE run'[s] = run[s] /\ dry_run' = dry_run
  BY <1>0, <1>1, ToldStays
<1>2. CASE run'[s].pc \in {"idle", "approving", "judge"}
  BY <1>2 DEF InLog, Told, Working, Loaded, AfterDelete
<1>3. CASE Judges(s)
  <2>1. PICK j \in Jobs : j = run[s].job
    BY <1>3, JobOf DEF Judges
  <2>2. Len(log'[j]) = Len(log[j]) + 1 /\ Len(log[j]) \in Nat /\ log'[j] \in Seq(Seq(Entry))
    BY <1>3, <2>1, GrowsFacts DEF Judges, Reported, LogTyped
  <2>3. run'[s].ver \in DOMAIN log'[j] /\ run'[s].job = j
    BY <1>3, <2>1, <2>2 DEF Judges
  <2>4. run'[s].pc \notin AfterDelete \cup {"done"}
    BY <1>3 DEF Judges, AfterDelete
  <2> QED
    BY <1>3, <2>3, <2>4 DEF InLog, Told, Loaded, Working, Judges
<1>4. ASSUME NEW j \in Jobs, Seizes(s, j)
      PROVE  InLog(s)' /\ Told(s)' /\ run'[s].pc # "settle"
  <2>1. log'[j] = log[j] /\ log[j] \in Seq(Seq(Entry)) /\ Len(log[j]) > 0
    BY <1>4 DEF Seizes, Reported, LogTyped, Settled
  <2>2. Len(log[j]) \in DOMAIN log[j]
    BY <2>1
  <2>3. run'[s].pc \notin AfterDelete \cup {"done", "settle"}
    BY <1>4 DEF Seizes, AfterDelete
  <2> QED
    BY <1>4, <2>1, <2>2, <2>3 DEF InLog, Told, Loaded, Seizes
<1>5. CASE Goes(s)
  <2>1. run'[s].pc # "settle"
    BY <1>5 DEF Goes, Begins, Advances, Does, Calls
  <2> QED
    BY <1>5, <2>1, GoesTold
<1>6. CASE \E r \in Runners \ {s} : Leaves(r) \/ Opens(r) \/ Judges(r) \/ Goes(r)
                                  \/ \E j \in Jobs : Takes(r, j) \/ Seizes(r, j)
  BY <1>1, <1>6 DEF Leaves, Opens, Judges, Goes, Takes, Seizes, OthersStay
<1>7. CASE Restarts
  BY <1>2, <1>7 DEF Restarts
<1>8. CASE (\E j \in Jobs : Returns(j) \/ Overrules(j)) \/ Nothing
  BY <1>1, <1>8 DEF Returns, Overrules, Nothing
<1>9. CASE Leaves(s) \/ Opens(s) \/ \E j \in Jobs : Takes(s, j)
  BY <1>2, <1>9 DEF Leaves, Opens, Takes
<1> QED
  BY <1>3, <1>4, <1>5, <1>6, <1>7, <1>8, <1>9 DEF StepKinds

LEMMA ReportedStep == ASSUME IInv, Reported, [Next]_vars PROVE Reported'
<1>1. StepKinds
  BY NextKinds DEF Reported
<1>2. LogTyped' /\ LogsGrow
  BY <1>1, LogsStep
<1>3. /\ status' = [j \in Jobs |-> status'[j]]
      /\ \A j \in Jobs : status'[j] \in Settled => Len(log'[j]) > 0
  BY <1>1, <1>2, StatusStep
<1>4. \A r \in Runners : InLog(r)' /\ Told(r)' /\ (run'[r].pc = "settle" => run'[r].kind \in Settled)
  BY <1>1, <1>2, RunsStep
<1> QED
  BY <1>2, <1>3, <1>4 DEF Reported, Sentences

LEMMA ReportedForever == Spec => [](IInv /\ Reported)
<1>1. IInv /\ Reported /\ [Next]_vars => (IInv /\ Reported)'
  BY NextKeeps, ReportedStep
<1> QED
  BY <1>1, InitIInv, InitReported, PTL DEF Spec

-----------------------------------------------------------------------------
(* One run at a time under a verdict. *)

OwnIds == \A r, s \in Runners : IdOf[r] = IdOf[s] => r = s

\* Only an approval starts a remediation, or one worker judges all jobs.  With
\* more, one that lost its lease may commit a verdict after another's has
\* settled the job, and remediate by it while an operator does the same.
OneJudge == AutoKinds = {} \/ \A w, x \in Workers : w = x

Settling(r)  == Working(r) \/ run[r].pc = "settle"
Overtaken(r) == run[r].ver < Len(log[run[r].job])

\* A run about a job that somebody may claim, or that somebody else is about to
\* settle, has an older verdict than theirs.
Behind(r)     == Working(r) /\ status[run[r].job] \in Settled => Overtaken(r)
Cleared(r, s) == Working(s) /\ run[r].job = run[s].job /\ Fenced(r) /\ Settling(r)
                      => Overtaken(s)
Separate(r, s) == Working(r) /\ Working(s) /\ run[r].job = run[s].job
                      => run[r].ver # run[s].ver

\* Nobody settles a job while it is being judged, if that may remediate it.
Attended(r) ==
    run[r].pc = "judge" =>
        /\ r \in Workers
        /\ AutoKinds # {} => Fenced(r) \/ status[run[r].job] \in {"pending", "error"}

Sole ==
    /\ claimed_by = [j \in Jobs |-> claimed_by[j]]
    /\ \A r \in Runners : Behind(r) /\ Attended(r)
    /\ \A r, s \in Runners : r # s => Cleared(r, s) /\ Separate(r, s)

LEMMA InitSole == Init => Sole
<1> SUFFICES ASSUME Init PROVE Sole
  OBVIOUS
<1>1. \A r \in Runners : run[r].pc = "idle"
  BY IdleFields DEF Init
<1> QED
  BY <1>1 DEF Init, Sole, Behind, Attended, Cleared, Separate, Working

\* The fence is one run's, as ids are.
LEMMA OneFenced ==
    ASSUME OwnIds, NEW r \in Runners, NEW s \in Runners, Fenced(r), Fenced(s),
           run[r].job = run[s].job
    PROVE  r = s
BY DEF OwnIds, Fenced

\* A run that stays where it is keeps what holds of it, on a job that does.
LEMMA Unmoved ==
    ASSUME IInv, Reported, Sole, LogTyped', LogsGrow, NEW p \in Runners, run'[p] = run[p]
    PROVE  /\ (Working(p)' <=> Working(p)) /\ (Settling(p)' <=> Settling(p))
           /\ Working(p) /\ Overtaken(p) => Overtaken(p)'
           /\ LET j == run[p].job IN
              status'[j] = status[j] /\ claimed_by'[j] = claimed_by[j] =>
                 Behind(p)' /\ Attended(p)' /\ (Fenced(p)' <=> Fenced(p))
<1>1. (Working(p)' <=> Working(p)) /\ (Settling(p)' <=> Settling(p))
  BY DEF Working, Settling
<1>2. ASSUME Working(p), Overtaken(p) PROVE Overtaken(p)'
  <2>1. PICK j \in Jobs : j = run[p].job
    BY <1>2, JobOf DEF Working
  <2>2. PICK v \in DOMAIN log[j] : v = run[p].ver
    BY <1>2, <2>1 DEF Reported, InLog
  <2>3. v \in Nat /\ Len(log[j]) \in Nat /\ Len(log'[j]) \in Nat /\ Len(log[j]) <= Len(log'[j])
    BY DEF Reported, LogTyped, LogsGrow
  <2> QED
    BY <1>2, <2>1, <2>2, <2>3 DEF Overtaken
<1>3. ASSUME status'[run[p].job] = status[run[p].job], claimed_by'[run[p].job] = claimed_by[run[p].job]
      PROVE  Behind(p)' /\ Attended(p)' /\ (Fenced(p)' <=> Fenced(p))
  <2>1. Behind(p) /\ Attended(p)
    BY DEF Sole
  <2>2. Fenced(p)' <=> Fenced(p)
    BY <1>3 DEF Fenced
  <2>3. Behind(p)'
    BY <1>1, <1>2, <1>3, <2>1 DEF Behind
  <2>4. Attended(p)'
    BY <1>3, <2>1, <2>2 DEF Attended
  <2> QED
    BY <2>2, <2>3, <2>4
<1> QED
  BY <1>1, <1>2, <1>3

LEMMA PairUnmoved ==
    ASSUME IInv, Reported, Sole, LogTyped', LogsGrow, NEW p \in Runners, NEW s \in Runners, p # s,
           run'[p] = run[p], run'[s] = run[s]
    PROVE  /\ Separate(p, s)'
           /\ (Settling(p) /\ Fenced(p)' => Fenced(p)) => Cleared(p, s)'
<1>1. Cleared(p, s) /\ Separate(p, s)
  BY DEF Sole
<1>2. /\ (Working(p)' <=> Working(p)) /\ (Settling(p)' <=> Settling(p))
      /\ (Working(s)' <=> Working(s)) /\ (Working(s) /\ Overtaken(s) => Overtaken(s)')
  BY Unmoved
<1>3. Separate(p, s)'
  BY <1>1, <1>2 DEF Separate
<1>4. (Settling(p) /\ Fenced(p)' => Fenced(p)) => Cleared(p, s)'
  BY <1>1, <1>2 DEF Cleared
<1> QED
  BY <1>3, <1>4

\* What is left to show after a step of one run: it, and the pairs it is in.
LEMMA SoleAfter ==
    ASSUME IInv, Reported, Sole, LogTyped', LogsGrow, NEW r \in Runners, OthersStay(r),
           claimed_by' = [k \in Jobs |-> claimed_by'[k]],
           Behind(r)', Attended(r)',
           \A s \in Runners \ {r} : /\ Behind(s)' /\ Attended(s)'
                                    /\ Cleared(r, s)' /\ Cleared(s, r)' /\ Separate(r, s)',
           \A p, s \in Runners \ {r} : p # s => Cleared(p, s)'
    PROVE  Sole'
<1>1. ASSUME NEW p \in Runners, NEW s \in Runners, p # s PROVE Cleared(p, s)' /\ Separate(p, s)'
  <2>1. CASE p = r \/ s = r
    BY <1>1, <2>1 DEF Separate
  <2>2. CASE p # r /\ s # r
    BY <1>1, <2>2, PairUnmoved DEF OthersStay
  <2> QED
    BY <2>1, <2>2
<1> QED
  BY <1>1 DEF Sole

LEMMA LeavesSole ==
    ASSUME OwnIds, IInv, Reported, Sole, LogTyped', LogsGrow, NEW r \in Runners, Leaves(r)
    PROVE  Sole'
<1>0. PICK j \in Jobs : j = run[r].job
  BY JobOf DEF Leaves
<1>1. claimed_by = [k \in Jobs |-> claimed_by[k]] /\ status = [k \in Jobs |-> status[k]]
  BY DEF Sole, Reported
<1>2. ~Working(r)' /\ ~Settling(r)' /\ run'[r].pc # "judge"
  BY DEF Leaves, Working, Settling
<1>3. Behind(r)' /\ Attended(r)' /\ \A s \in Runners : Cleared(r, s)' /\ Cleared(s, r)' /\ Separate(r, s)'
  BY <1>2 DEF Behind, Attended, Cleared, Separate
<1>4. CASE UNCHANGED <<status, claimed_by>>
  <2>1. \A s \in Runners \ {r} : Behind(s)' /\ Attended(s)' /\ (Settling(s) /\ Fenced(s)' => Fenced(s))
    BY <1>4, Unmoved DEF Leaves, OthersStay
  <2>2. \A p, s \in Runners \ {r} : p # s => Cleared(p, s)'
    BY <2>1, PairUnmoved DEF Leaves, OthersStay
  <2> QED
    BY <1>1, <1>3, <1>4, <2>1, <2>2, SoleAfter DEF Leaves
<1>5. CASE ~UNCHANGED <<status, claimed_by>>
  <2>1. PICK st : /\ Fenced(r) /\ st # "active" /\ (st \in Settled => Settling(r))
                  /\ status' = [status EXCEPT ![j] = st]
                  /\ claimed_by' = [claimed_by EXCEPT ![j] = NoOwner]
    BY <1>0, <1>5 DEF Leaves, Settling
  <2>2. /\ status'[j] = st /\ status[j] = "active"
        /\ claimed_by' = [k \in Jobs |-> claimed_by'[k]]
        /\ \A k \in Jobs \ {j} : status'[k] = status[k] /\ claimed_by'[k] = claimed_by[k]
    BY <1>0, <1>1, <2>1 DEF Fenced
  <2>3. ASSUME NEW s \in Runners \ {r} PROVE Behind(s)' /\ Attended(s)' /\ (Settling(s) /\ Fenced(s)' => Fenced(s))
    <3>0. run'[s] = run[s]
      BY DEF Leaves, OthersStay
    <3>1. CASE run[s].pc = "idle"
      BY <3>0, <3>1 DEF Behind, Attended, Working, Settling
    <3>2. CASE run[s].job \in Jobs \ {j}
      BY <2>2, <3>0, <3>2, Unmoved
    <3>3. CASE run[s].job = j
      <4>1. ~Fenced(s)'
        BY <2>1, <2>2, <3>0, <3>3 DEF Fenced
      <4>2. Behind(s)'
        <5> SUFFICES ASSUME Working(s)', st \in Settled PROVE Overtaken(s)'
          BY <2>2, <3>0, <3>3 DEF Behind
        <5>1. Working(s) /\ Cleared(r, s)
          BY <3>0, Unmoved DEF Sole
        <5>2. Overtaken(s)
          BY <1>0, <2>1, <3>3, <5>1 DEF Cleared
        <5> QED
          BY <3>0, <5>1, <5>2, Unmoved
      <4>3. Attended(s)'
        <5> SUFFICES ASSUME run[s].pc = "judge" PROVE s \in Workers /\ AutoKinds = {}
          BY <3>0 DEF Attended
        <5>1. s \in Workers /\ (AutoKinds # {} => Fenced(s) \/ status[j] \in {"pending", "error"})
          BY <3>3 DEF Sole, Attended
        <5>2. ~Fenced(s)
          BY <1>0, <2>1, <3>3, OneFenced
        <5> QED
          BY <2>2, <5>1, <5>2
      <4> QED
        BY <4>1, <4>2, <4>3
    <3> QED
      BY <3>1, <3>2, <3>3, JobOf
  <2>4. \A p, s \in Runners \ {r} : p # s => Cleared(p, s)'
    BY <2>3, PairUnmoved DEF Leaves, OthersStay
  <2> QED
    BY <1>3, <2>2, <2>3, <2>4, SoleAfter DEF Leaves
<1> QED
  BY <1>4, <1>5

LEMMA OpensSole ==
    ASSUME IInv, Reported, Sole, LogTyped', LogsGrow, NEW r \in Runners, Opens(r)
    PROVE  Sole'
<1>1. ~Working(r)' /\ ~Settling(r)' /\ run'[r].pc # "judge"
  BY DEF Opens, Working, Settling
<1>2. Behind(r)' /\ Attended(r)' /\ \A s \in Runners : Cleared(r, s)' /\ Cleared(s, r)' /\ Separate(r, s)'
  BY <1>1 DEF Behind, Attended, Cleared, Separate
<1>3. \A s \in Runners \ {r} : Behind(s)' /\ Attended(s)' /\ (Fenced(s)' => Fenced(s))
  BY Unmoved DEF Opens, OthersStay
<1>4. \A p, s \in Runners \ {r} : p # s => Cleared(p, s)'
  BY <1>3, PairUnmoved DEF Opens, OthersStay
<1>5. claimed_by' = [k \in Jobs |-> claimed_by'[k]]
  BY DEF Opens, Sole
<1> QED
  BY <1>2, <1>3, <1>4, <1>5, SoleAfter DEF Opens

\* A new verdict is newer than all that anyone is at work on.
LEMMA JudgesSole ==
    ASSUME OwnIds, IInv, Reported, Sole, LogTyped', LogsGrow, NEW w \in Runners, Judges(w)
    PROVE  Sole'
<1>0. PICK j \in Jobs : j = run[w].job
  BY JobOf DEF Judges
<1>1. /\ run'[w].job = j /\ run'[w].ver = Len(log[j]) + 1 /\ UNCHANGED <<status, claimed_by>>
      /\ run'[w].pc # "judge" /\ (Working(w)' => AutoKinds # {})
      /\ Len(log'[j]) = Len(log[j]) + 1 /\ Len(log[j]) \in Nat
  <2>1. LogTyped /\ log[j] \in Seq(Seq(Entry)) /\ Grows(j)
    BY <1>0 DEF Reported, LogTyped, Judges
  <2>2. Len(log'[j]) = Len(log[j]) + 1 /\ Len(log[j]) \in Nat
    BY <2>1, GrowsFacts
  <2> QED
    BY <1>0, <2>2 DEF Judges, Working
<1>2. ASSUME NEW s \in Runners \ {w}, Working(s), run[s].job = j
      PROVE  run[s].ver \in Nat /\ run[s].ver <= Len(log[j])
  <2>1. run[s].ver \in DOMAIN log[j] /\ log[j] \in Seq(Seq(Entry))
    BY <1>2 DEF Reported, InLog, LogTyped
  <2> QED
    BY <2>1
<1>3. ASSUME NEW s \in Runners \ {w}
      PROVE  /\ run'[s] = run[s] /\ (Working(s)' <=> Working(s)) /\ (Fenced(s)' <=> Fenced(s))
             /\ Behind(s)' /\ Attended(s)'
  BY <1>1, Unmoved DEF Judges, OthersStay
<1>4. AutoKinds # {} => Fenced(w) \/ status[j] \in {"pending", "error"}
  BY <1>0 DEF Sole, Attended, Judges
<1>5. Behind(w)'
  BY <1>1, <1>4 DEF Behind, Fenced, Settled, Judges
<1>6. Attended(w)'
  BY <1>1 DEF Attended
<1>7. ASSUME NEW s \in Runners \ {w} PROVE Cleared(w, s)'
  <2> SUFFICES ASSUME Working(s)', run'[s].job = j PROVE Overtaken(s)'
    BY <1>1 DEF Cleared
  <2>1. run[s].ver \in Nat /\ run[s].ver <= Len(log[j]) /\ run'[s] = run[s]
    BY <1>2, <1>3
  <2> QED
    BY <1>1, <2>1 DEF Overtaken
<1>8. ASSUME NEW s \in Runners \ {w} PROVE Cleared(s, w)'
  <2> SUFFICES ASSUME Working(w)', run[s].job = j, Fenced(s) PROVE FALSE
    BY <1>1, <1>3 DEF Cleared
  <2>1. Fenced(w) \/ status[j] \in {"pending", "error"}
    BY <1>1, <1>4
  <2>2. ~Fenced(w)
    BY <1>0, OneFenced
  <2> QED
    BY <2>1, <2>2 DEF Fenced
<1>9. ASSUME NEW s \in Runners \ {w} PROVE Separate(w, s)'
  <2> SUFFICES ASSUME Working(s)', run'[s].job = j PROVE run'[w].ver # run'[s].ver
    BY <1>1 DEF Separate
  <2>1. run[s].ver \in Nat /\ run[s].ver <= Len(log[j]) /\ run'[s] = run[s]
    BY <1>2, <1>3
  <2> QED
    BY <1>1, <2>1
<1>10. \A p, s \in Runners \ {w} : p # s => Cleared(p, s)'
  BY <1>3, PairUnmoved
<1>11. claimed_by' = [k \in Jobs |-> claimed_by'[k]]
  BY <1>1 DEF Sole
<1> QED
  BY <1>3, <1>5, <1>6, <1>7, <1>8, <1>9, <1>10, <1>11, SoleAfter DEF Judges

\* A run that goes on stays under its verdict.
LEMMA GoesSole ==
    ASSUME IInv, Reported, Sole, LogTyped', LogsGrow, NEW r \in Runners, Goes(r)
    PROVE  Sole'
<1>0. PICK j \in Jobs : j = run[r].job
  BY JobOf DEF Goes, Working
<1>1. /\ run'[r].job = j /\ run'[r].ver = run[r].ver /\ UNCHANGED <<status, claimed_by>>
      /\ Working(r) /\ run'[r].pc # "judge" /\ OthersStay(r) /\ (Fenced(r)' <=> Fenced(r))
  BY <1>0 DEF Goes, Begins, Advances, Does, Calls, Fenced
<1>2. Overtaken(r) => Overtaken(r)'
  <2>1. PICK v \in DOMAIN log[j] : v = run[r].ver
    BY <1>0, <1>1 DEF Reported, InLog
  <2>2. v \in Nat /\ Len(log[j]) \in Nat /\ Len(log'[j]) \in Nat /\ Len(log[j]) <= Len(log'[j])
    BY DEF Reported, LogTyped, LogsGrow
  <2> QED
    BY <1>0, <1>1, <2>1, <2>2 DEF Overtaken
<1>3. ASSUME NEW s \in Runners \ {r}
      PROVE  /\ run'[s] = run[s] /\ (Working(s)' <=> Working(s)) /\ (Fenced(s)' <=> Fenced(s))
             /\ (Settling(s)' <=> Settling(s)) /\ (Working(s) /\ Overtaken(s) => Overtaken(s)')
             /\ Behind(s)' /\ Attended(s)'
  BY <1>1, Unmoved DEF OthersStay
<1>4. Behind(r)' /\ Attended(r)'
  BY <1>0, <1>1, <1>2 DEF Sole, Behind, Attended
<1>5. ASSUME NEW s \in Runners \ {r} PROVE Cleared(r, s)' /\ Cleared(s, r)' /\ Separate(r, s)'
  <2>1. Cleared(r, s) /\ Cleared(s, r) /\ Separate(r, s)
    BY DEF Sole
  <2>2. Settling(r)
    BY <1>1 DEF Settling
  <2>3. Cleared(r, s)'
    BY <1>0, <1>1, <1>3, <2>1, <2>2 DEF Cleared
  <2>4. Cleared(s, r)'
    BY <1>0, <1>1, <1>2, <1>3, <2>1 DEF Cleared
  <2>5. Separate(r, s)'
    BY <1>0, <1>1, <1>3, <2>1 DEF Separate
  <2> QED
    BY <2>3, <2>4, <2>5
<1>6. \A p, s \in Runners \ {r} : p # s => Cleared(p, s)'
  BY <1>3, PairUnmoved
<1>7. claimed_by' = [k \in Jobs |-> claimed_by'[k]]
  BY <1>1 DEF Sole
<1> QED
  BY <1>1, <1>3, <1>4, <1>5, <1>6, <1>7, SoleAfter

\* A claim: it has the lease to itself, and the others are behind.
LEMMA ClaimsSole ==
    ASSUME OwnIds, OneJudge, IInv, Reported, Sole, LogTyped', LogsGrow,
           NEW r \in Runners, NEW j \in Jobs, Takes(r, j) \/ Seizes(r, j)
    PROVE  Sole'
<1>1. claimed_by = [k \in Jobs |-> claimed_by[k]] /\ status = [k \in Jobs |-> status[k]]
  BY DEF Sole, Reported
<1>2. /\ status'[j] = "active" /\ claimed_by'[j] = IdOf[r]
      /\ claimed_by' = [k \in Jobs |-> claimed_by'[k]]
      /\ \A k \in Jobs \ {j} : status'[k] = status[k] /\ claimed_by'[k] = claimed_by[k]
  BY <1>1 DEF Takes, Seizes, Claim
<1>3. run'[r].job = j /\ OthersStay(r) /\ Fenced(r)'
  BY <1>2 DEF Takes, Seizes, Fenced
<1>4. ASSUME NEW s \in Runners \ {r}, run[s].job = j PROVE ~Fenced(s)'
  <2>1. IdOf[s] # IdOf[r] /\ run'[s] = run[s]
    BY <1>3 DEF OwnIds, OthersStay
  <2> QED
    BY <1>2, <1>4, <2>1 DEF Fenced
<1>5. ASSUME NEW s \in Runners \ {r}
      PROVE  /\ run'[s] = run[s] /\ (Working(s)' <=> Working(s)) /\ (Settling(s)' <=> Settling(s))
             /\ (Working(s) /\ Overtaken(s) => Overtaken(s)')
             /\ Behind(s)' /\ Attended(s)' /\ (Settling(s) /\ Fenced(s)' => Fenced(s))
  <2>0. /\ run'[s] = run[s] /\ (Working(s)' <=> Working(s)) /\ (Settling(s)' <=> Settling(s))
        /\ (Working(s) /\ Overtaken(s) => Overtaken(s)')
    BY <1>3, Unmoved DEF OthersStay
  <2>1. CASE run[s].pc = "idle"
    BY <2>0, <2>1 DEF Behind, Attended, Working, Settling
  <2>2. CASE run[s].job \in Jobs \ {j}
    BY <1>2, <2>0, <2>2, Unmoved
  <2>3. CASE run[s].job = j
    <3>1. Behind(s)'
      BY <1>2, <2>0, <2>3 DEF Behind, Settled
    <3>2. Attended(s)'
      <4> SUFFICES ASSUME run[s].pc = "judge" PROVE s \in Workers /\ AutoKinds = {}
        BY <2>0 DEF Attended
      <4>1. s \in Workers /\ (AutoKinds # {} => Fenced(s) \/ status[j] \in {"pending", "error"})
        BY <2>3 DEF Sole, Attended
      <4>2. CASE Takes(r, j)
        BY <4>1, <4>2 DEF Takes, OneJudge
      <4>3. CASE Seizes(r, j)
        BY <2>3, <4>1, <4>3 DEF Seizes, Fenced
      <4> QED
        BY <4>1, <4>2, <4>3
    <3> QED
      BY <1>4, <2>0, <2>3, <3>1, <3>2
  <2> QED
    BY <2>1, <2>2, <2>3, JobOf
<1>6. Behind(r)' /\ Attended(r)'
  BY <1>2, <1>3 DEF Takes, Seizes, Behind, Attended, Settled
<1>7. ASSUME NEW s \in Runners \ {r} PROVE Cleared(s, r)'
  BY <1>3, <1>4, <1>5 DEF Cleared
<1>8. ASSUME NEW s \in Runners \ {r} PROVE Cleared(r, s)' /\ Separate(r, s)'
  <2>1. CASE Takes(r, j)
    BY <2>1 DEF Takes, Cleared, Separate, Settling, Working
  <2>2. CASE Seizes(r, j)
    <3>1. run'[r].ver = Len(log[j]) /\ status[j] \in Settled
      BY <2>2 DEF Seizes, Settled
    <3>2. Working(s) /\ run[s].job = j => Overtaken(s) /\ run[s].ver < Len(log[j])
      BY <3>1 DEF Sole, Behind, Overtaken
    <3>3. Cleared(r, s)'
      BY <1>3, <1>5, <3>2 DEF Cleared
    <3>4. Working(s) /\ run[s].job = j => run[s].ver # Len(log[j])
      <4> SUFFICES ASSUME Working(s), run[s].job = j PROVE run[s].ver # Len(log[j])
        OBVIOUS
      <4>1. run[s].ver \in DOMAIN log[j] /\ log[j] \in Seq(Seq(Entry))
        BY DEF Reported, InLog, LogTyped
      <4> QED
        BY <3>2, <4>1
    <3>5. Separate(r, s)'
      BY <1>3, <1>5, <3>1, <3>4 DEF Separate
    <3> QED
      BY <3>3, <3>5
  <2> QED
    BY <2>1, <2>2
<1>9. \A p, s \in Runners \ {r} : p # s => Cleared(p, s)'
  BY <1>5, PairUnmoved
<1> QED
  BY <1>2, <1>3, <1>5, <1>6, <1>7, <1>8, <1>9, SoleAfter

\* The reaper, a rerun or an operator's verdict: the lease is nobody's.
LEMMA TableSole ==
    ASSUME IInv, Reported, Sole, LogTyped', LogsGrow, NEW j \in Jobs, Returns(j) \/ Overrules(j)
    PROVE  Sole'
<1>1. claimed_by = [k \in Jobs |-> claimed_by[k]] /\ status = [k \in Jobs |-> status[k]]
  BY DEF Sole, Reported
<1>2. /\ UNCHANGED run /\ claimed_by' = [k \in Jobs |-> claimed_by'[k]]
      /\ status'[j] # "active"
      /\ \/ status'[j] \in {"pending", "error"}
         \/ status[j] \in {"quarantine", "inconclusive"} /\ claimed_by'[j] = claimed_by[j]
      /\ \A k \in Jobs \ {j} : status'[k] = status[k] /\ claimed_by'[k] = claimed_by[k]
  BY <1>1 DEF Returns, Overrules, Settled
<1>3. ASSUME NEW s \in Runners
      PROVE  Behind(s)' /\ Attended(s)' /\ (Settling(s) /\ Fenced(s)' => Fenced(s))
  <2>0. /\ run'[s] = run[s] /\ (Working(s)' <=> Working(s)) /\ (Settling(s)' <=> Settling(s))
        /\ (Working(s) /\ Overtaken(s) => Overtaken(s)')
    BY <1>2, Unmoved
  <2>1. CASE run[s].pc = "idle"
    BY <2>0, <2>1 DEF Behind, Attended, Working, Settling
  <2>2. CASE run[s].job \in Jobs \ {j}
    BY <1>2, <2>0, <2>2, Unmoved
  <2>3. CASE run[s].job = j
    <3>1. ~Fenced(s)'
      BY <1>2, <2>0, <2>3 DEF Fenced
    <3>2. Behind(s) /\ Attended(s)
      BY DEF Sole
    <3>3. Behind(s)'
      BY <1>2, <2>0, <2>3, <3>2 DEF Behind, Settled
    <3>4. Attended(s)'
      BY <1>2, <2>0, <2>3, <3>2 DEF Attended, Fenced
    <3> QED
      BY <3>1, <3>3, <3>4
  <2> QED
    BY <2>1, <2>2, <2>3, JobOf
<1>4. \A p, s \in Runners : p # s => Cleared(p, s)' /\ Separate(p, s)'
  BY <1>2, <1>3, PairUnmoved
<1> QED
  BY <1>2, <1>3, <1>4 DEF Sole

LEMMA SoleStep ==
    ASSUME OwnIds, OneJudge, IInv, Reported, Sole, StepKinds, LogTyped', LogsGrow PROVE Sole'
<1>1. CASE Restarts
  <2>1. \A r \in Runners : run'[r].pc = "idle"
    BY <1>1 DEF Restarts
  <2>2. claimed_by' = [k \in Jobs |-> claimed_by'[k]]
    BY <1>1 DEF Restarts, Sole
  <2> QED
    BY <2>1, <2>2 DEF Sole, Behind, Attended, Cleared, Separate, Working
<1>2. CASE Nothing
  BY <1>2 DEF Nothing, Sole, Behind, Attended, Cleared, Separate, Working, Settling, Overtaken, Fenced
<1> QED
  BY <1>1, <1>2, LeavesSole, OpensSole, JudgesSole, GoesSole, ClaimsSole, TableSole DEF StepKinds

-----------------------------------------------------------------------------
(* A verdict's log is the copy of the one run at work under it, and        *)
(* "remediated" has a log that explains it.                                *)

Mirrored == \A r \in Runners : Loaded(r) => Entries(r) = run[r].own

\* Nothing that is in a log goes.
LogsKept ==
    \A j \in Jobs : \A v \in DOMAIN log[j] :
        /\ v \in DOMAIN log'[j]
        /\ \A i \in DOMAIN log[j][v] :
              i \in DOMAIN log'[j][v] /\ log'[j][v][i] = log[j][v][i]

\* A failed step writes the column back as it is.
LEMMA LeavesLog ==
    ASSUME IInv, Reported, Mirrored, NEW r \in Runners, Leaves(r) PROVE UNCHANGED log
<1> SUFFICES ASSUME Loaded(r), LogFailure(r) PROVE UNCHANGED log
  BY DEF Leaves
<1>1. PICK j \in Jobs : j = run[r].job
  BY JobOf DEF Loaded, Working
<1>2. PICK v \in DOMAIN log[j] : v = run[r].ver
  BY <1>1 DEF Reported, InLog, Loaded
<1>3. PICK s \in Seq(Seq(Entry)) : s = log[j]
  BY DEF Reported, LogTyped
<1>4. run[r].own = s[v]
  BY <1>1, <1>2, <1>3 DEF Mirrored, Entries
<1>5. PICK t : t = [s EXCEPT ![v] = s[v]]
  OBVIOUS
<1>6. t = s
  <2>1. s = [i \in DOMAIN s |-> s[i]]
    OBVIOUS
  <2>2. t = [i \in DOMAIN s |-> IF i = v THEN s[v] ELSE s[i]]
    BY <1>5
  <2> QED
    BY <2>1, <2>2
<1>7. log' = [log EXCEPT ![j] = t]
  <2>1. log' = [log EXCEPT ![j] = [log[j] EXCEPT ![v] = run[r].own]]
    BY <1>1, <1>2 DEF LogFailure, WriteLog, Reported, LogTyped
  <2> QED
    BY <1>3, <1>4, <1>5, <2>1
<1>8. log = [k \in Jobs |-> log[k]]
  BY DEF Reported, LogTyped
<1> QED
  BY <1>3, <1>6, <1>7, <1>8

\* An entry goes to the log of one verdict, and to the copy of its one run.
LEMMA DoesLog ==
    ASSUME IInv, Reported, Mirrored, NEW r \in Runners, Working(r),
           NEW step \in MUTATING_STEPS, Does(r, step)
    PROVE  /\ log'[run[r].job][run[r].ver] = run'[r].own
           /\ Entries(r) \in Seq(Entry)
           /\ run'[r].own = Append(Entries(r), [step |-> step, dry |-> dry_run])
           /\ \A k \in Jobs : DOMAIN log'[k] = DOMAIN log[k]
           /\ \A k \in Jobs : \A u \in DOMAIN log[k] :
                 k # run[r].job \/ u # run[r].ver => log'[k][u] = log[k][u]
<1>1. /\ Loaded(r) /\ WriteLog(r, run'[r].own)
      /\ run[r].own \in Seq(Entry) /\ run'[r].own \in Seq(Entry)
      /\ run'[r].own = Append(run[r].own, [step |-> step, dry |-> dry_run])
  BY DoesFacts
<1>2. run[r].job \in Jobs /\ run[r].ver \in DOMAIN log[run[r].job] /\ LogTyped
  BY JobOf DEF Working, Reported, InLog
<1>3. PICK t \in Seq(Entry) : t = run'[r].own
  BY <1>1
<1>4. /\ log'[run[r].job][run[r].ver] = t
      /\ \A k \in Jobs : DOMAIN log'[k] = DOMAIN log[k]
      /\ \A k \in Jobs : \A u \in DOMAIN log[k] :
            k # run[r].job \/ u # run[r].ver => log'[k][u] = log[k][u]
  BY <1>1, <1>2, <1>3, WriteFacts
<1>5. Entries(r) = run[r].own
  BY <1>1 DEF Mirrored
<1> QED
  BY <1>1, <1>3, <1>4, <1>5

LEMMA KeptStep == ASSUME IInv, Reported, Mirrored, StepKinds PROVE LogsKept
<1>1. CASE UNCHANGED log
  BY <1>1 DEF LogsKept
<1>2. ASSUME NEW j \in Jobs, Grows(j) PROVE LogsKept
  <2>1. /\ Len(log'[j]) = Len(log[j]) + 1 /\ LogTyped /\ LogTyped'
        /\ \A k \in Jobs : \A v \in DOMAIN log[k] : log'[k][v] = log[k][v]
        /\ \A k \in Jobs \ {j} : log'[k] = log[k]
    BY <1>2, GrowsFacts DEF Reported
  <2>2. \A v \in DOMAIN log[j] : v \in DOMAIN log'[j]
    <3>1. log[j] \in Seq(Seq(Entry)) /\ log'[j] \in Seq(Seq(Entry))
      BY <2>1 DEF LogTyped
    <3> QED
      BY <2>1, <3>1
  <2> QED
    BY <2>1, <2>2 DEF LogsKept
<1>3. ASSUME NEW r \in Runners, Judges(r) PROVE LogsKept
  <2>1. run[r].job \in Jobs
    BY <1>3, JobOf DEF Judges
  <2> QED
    BY <1>2, <1>3, <2>1 DEF Judges
<1>4. ASSUME NEW r \in Runners, Leaves(r) PROVE LogsKept
  BY <1>1, <1>4, LeavesLog
<1>5. ASSUME NEW r \in Runners, Goes(r) PROVE LogsKept
  <2>1. CASE UNCHANGED log
    BY <1>1, <2>1
  <2>2. ASSUME NEW step \in MUTATING_STEPS, Does(r, step) PROVE LogsKept
    <3>1. PICK s \in Seq(Entry) : s = Entries(r)
      BY <1>5, <2>2, DoesLog DEF Goes
    <3>2. PICK e : e = [step |-> step, dry |-> dry_run]
      OBVIOUS
    <3>3. PICK t : t = Append(s, e)
      OBVIOUS
    <3>4. \A i \in DOMAIN s : i \in DOMAIN t /\ t[i] = s[i]
      BY <3>1, <3>3
    <3>5. /\ log'[run[r].job][run[r].ver] = t
          /\ \A k \in Jobs : DOMAIN log'[k] = DOMAIN log[k]
          /\ \A k \in Jobs : \A u \in DOMAIN log[k] :
                k # run[r].job \/ u # run[r].ver => log'[k][u] = log[k][u]
      BY <1>5, <2>2, <3>1, <3>2, <3>3, DoesLog DEF Goes
    <3>6. ASSUME NEW k \in Jobs, NEW u \in DOMAIN log[k]
          PROVE  \A i \in DOMAIN log[k][u] : i \in DOMAIN log'[k][u] /\ log'[k][u][i] = log[k][u][i]
      <4>1. CASE k = run[r].job /\ u = run[r].ver
        BY <3>1, <3>4, <3>5, <4>1 DEF Entries
      <4>2. CASE k # run[r].job \/ u # run[r].ver
        BY <3>5, <4>2
      <4> QED
        BY <4>1, <4>2
    <3> QED
      BY <3>5, <3>6 DEF LogsKept
  <2> QED
    BY <1>5, <2>1, <2>2 DEF Goes, Begins, Advances
<1> QED
  BY <1>1, <1>2, <1>3, <1>4, <1>5
     DEF StepKinds, Opens, Takes, Seizes, Returns, Overrules, Restarts, Nothing

\* Nobody else writes where a run writes: the two would be under one verdict.
LEMMA MirrorStep == ASSUME IInv, Reported, Sole, Mirrored, StepKinds PROVE Mirrored'
<1>1. ASSUME NEW s \in Runners, run'[s] = run[s],
             Loaded(s) => log'[run[s].job][run[s].ver] = log[run[s].job][run[s].ver]
      PROVE  Loaded(s)' => Entries(s)' = run'[s].own
  BY <1>1 DEF Mirrored, Loaded, Working, Entries
<1>2. ASSUME \A j \in Jobs : \A v \in DOMAIN log[j] : log'[j][v] = log[j][v],
             \A s \in Runners : run'[s] = run[s] \/ ~Loaded(s)'
      PROVE  Mirrored'
  <2>1. ASSUME NEW s \in Runners, Loaded(s)
        PROVE  log'[run[s].job][run[s].ver] = log[run[s].job][run[s].ver]
    <3>1. run[s].job \in Jobs /\ run[s].ver \in DOMAIN log[run[s].job]
      BY <2>1, JobOf DEF Loaded, Working, Reported, InLog
    <3> QED
      BY <1>2, <3>1
  <2> QED
    BY <1>1, <1>2, <2>1 DEF Mirrored
<1>3. ASSUME NEW j \in Jobs, Grows(j) PROVE \A k \in Jobs : \A v \in DOMAIN log[k] : log'[k][v] = log[k][v]
  BY <1>3, GrowsFacts DEF Reported
<1>4. ASSUME NEW r \in Runners, Leaves(r) PROVE Mirrored'
  <2>1. UNCHANGED log
    BY <1>4, LeavesLog
  <2> QED
    BY <1>2, <1>4, <2>1 DEF Leaves, OthersStay, Loaded, Working
<1>5. ASSUME NEW r \in Runners, Judges(r) PROVE Mirrored'
  <2>1. \A k \in Jobs : \A v \in DOMAIN log[k] : log'[k][v] = log[k][v]
    BY <1>3, <1>5, JobOf DEF Judges
  <2> QED
    BY <1>2, <1>5, <2>1 DEF Judges, OthersStay, Loaded, Working
<1>6. ASSUME NEW r \in Runners, Goes(r) PROVE Mirrored'
  <2>0. OthersStay(r) /\ run'[r].job = run[r].job /\ run'[r].ver = run[r].ver /\ Working(r)
    BY <1>6 DEF Goes
  <2>1. CASE Begins(r) \/ Advances(r)
    <3>1. UNCHANGED log /\ Entries(r)' = Entries(r)
      BY <2>0, <2>1 DEF Begins, Advances, Entries
    <3>2. run'[r].own = Entries(r)
      BY <2>1, AheadOf DEF Begins, Advances, Mirrored, Loaded, Working, Calls
    <3>3. \A s \in Runners \ {r} : Loaded(s)' => Entries(s)' = run'[s].own
      BY <1>1, <2>0, <3>1 DEF OthersStay
    <3> QED
      BY <3>1, <3>2, <3>3 DEF Mirrored
  <2>2. ASSUME NEW step \in MUTATING_STEPS, Does(r, step) PROVE Mirrored'
    <3>1. /\ log'[run[r].job][run[r].ver] = run'[r].own
          /\ \A k \in Jobs : \A u \in DOMAIN log[k] :
                k # run[r].job \/ u # run[r].ver => log'[k][u] = log[k][u]
      BY <2>0, <2>2, DoesLog
    <3>2. Entries(r)' = run'[r].own
      BY <2>0, <3>1 DEF Entries
    <3>3. ASSUME NEW s \in Runners \ {r} PROVE Loaded(s)' => Entries(s)' = run'[s].own
      <4>1. ASSUME Loaded(s) PROVE log'[run[s].job][run[s].ver] = log[run[s].job][run[s].ver]
        <5>1. run[s].job \in Jobs /\ run[s].ver \in DOMAIN log[run[s].job] /\ Working(s)
          BY <4>1, JobOf DEF Loaded, Working, Reported, InLog
        <5>2. run[s].job # run[r].job \/ run[s].ver # run[r].ver
          BY <2>0, <5>1 DEF Sole, Separate
        <5> QED
          BY <3>1, <5>1, <5>2
      <4> QED
        BY <1>1, <2>0, <4>1 DEF OthersStay
    <3> QED
      BY <3>2, <3>3 DEF Mirrored
  <2> QED
    BY <1>6, <2>1, <2>2 DEF Goes
<1>7. ASSUME NEW r \in Runners, Opens(r) \/ \E j \in Jobs : Takes(r, j) \/ Seizes(r, j) PROVE Mirrored'
  BY <1>2, <1>7 DEF Opens, Takes, Seizes, OthersStay, Loaded, Working
<1>8. ASSUME NEW j \in Jobs, Returns(j) \/ Overrules(j) PROVE Mirrored'
  <2>1. UNCHANGED run /\ (UNCHANGED log \/ Grows(j))
    BY <1>8 DEF Returns, Overrules
  <2> QED
    BY <1>2, <1>3, <2>1
<1>9. CASE Restarts \/ Nothing
  BY <1>2, <1>9 DEF Restarts, Nothing, Loaded, Working
<1> QED
  BY <1>4, <1>5, <1>6, <1>7, <1>8, <1>9 DEF StepKinds

\* A job's status becomes "remediated" by a run at its end.
LEMMA DoneStep ==
    ASSUME IInv, Reported, Mirrored, RemediatedMeansDone, StepKinds PROVE RemediatedMeansDone'
<1>1. ASSUME NEW j \in Jobs, NEW v \in DOMAIN log[j], Complete(log[j][v])
      PROVE  \E u \in DOMAIN log'[j] : Complete(log'[j][u])
  BY <1>1, KeptStep DEF LogsKept, Complete
<1>2. ASSUME \A j \in Jobs : status'[j] = "remediated" =>
                status[j] = "remediated" \/ \E v \in DOMAIN log[j] : Complete(log[j][v])
      PROVE  RemediatedMeansDone'
  BY <1>1, <1>2 DEF RemediatedMeansDone
<1>3. ASSUME NEW r \in Runners, Leaves(r) PROVE RemediatedMeansDone'
  <2>1. CASE UNCHANGED status
    BY <1>2, <2>1
  <2>2. CASE ~UNCHANGED status
    <3>1. PICK j \in Jobs : j = run[r].job
      BY <1>3, JobOf DEF Leaves
    <3>2. PICK st : /\ st = "remediated" => run[r].pc = "done"
                    /\ status' = [status EXCEPT ![j] = st]
      BY <1>3, <2>2, <3>1 DEF Leaves
    <3>3. status'[j] = st /\ \A k \in Jobs \ {j} : status'[k] = status[k]
      BY <3>2 DEF Reported
    <3>4. run[r].pc = "done" => \E v \in DOMAIN log[j] : Complete(log[j][v])
      <4> SUFFICES ASSUME run[r].pc = "done" PROVE \E v \in DOMAIN log[j] : Complete(log[j][v])
        OBVIOUS
      <4>1. Loaded(r) /\ Complete(run[r].own) /\ run[r].ver \in DOMAIN log[j]
        BY <3>1 DEF Loaded, Working, Reported, Told, InLog
      <4>2. log[j][run[r].ver] = run[r].own
        BY <3>1, <4>1 DEF Mirrored, Entries
      <4> QED
        BY <4>1, <4>2
    <3> QED
      BY <1>2, <3>2, <3>3, <3>4
  <2> QED
    BY <2>1, <2>2
<1>4. ASSUME NEW r \in Runners, NEW j \in Jobs, Takes(r, j) \/ Seizes(r, j) PROVE RemediatedMeansDone'
  <2>1. status' = [status EXCEPT ![j] = "active"]
    BY <1>4 DEF Takes, Seizes, Claim
  <2> QED
    BY <1>2, <2>1 DEF Reported
<1>5. ASSUME NEW j \in Jobs, Returns(j) \/ Overrules(j) PROVE RemediatedMeansDone'
  <2>1. PICK s \in {"pending", "error"} \cup Settled : status' = [status EXCEPT ![j] = s]
    BY <1>5 DEF Returns, Overrules
  <2>2. s # "remediated"
    BY DEF Settled
  <2> QED
    BY <1>2, <2>1, <2>2 DEF Reported
<1> QED
  BY <1>2, <1>3, <1>4, <1>5 DEF StepKinds, Opens, Judges, Goes, Restarts, Nothing

Alone == Sole /\ Mirrored /\ RemediatedMeansDone

LEMMA InitAlone == Init => Alone
<1> SUFFICES ASSUME Init PROVE Alone
  OBVIOUS
<1>1. \A r \in Runners : run[r].pc = "idle"
  BY IdleFields DEF Init
<1>2. Mirrored
  BY <1>1 DEF Mirrored, Loaded, Working
<1>3. RemediatedMeansDone
  BY DEF Init, RemediatedMeansDone
<1> QED
  BY <1>2, <1>3, InitSole DEF Alone

LEMMA NextAlone ==
    ASSUME OwnIds, OneJudge, IInv, Reported, Alone, [Next]_vars PROVE Alone'
<1>1. StepKinds /\ Sole /\ Mirrored /\ RemediatedMeansDone
  BY NextKinds DEF Reported, Alone
<1>2. LogTyped' /\ LogsGrow
  BY <1>1, LogsStep
<1>3. Sole'
  BY <1>1, <1>2, SoleStep
<1>4. Mirrored' /\ RemediatedMeansDone'
  BY <1>1, MirrorStep, DoneStep
<1> QED
  BY <1>3, <1>4 DEF Alone

\* A job is "remediated" only if one of its verdicts logged the deletion and,
\* after it, the search or the import, all real or all dry: whatever lost
\* leases, stale runs, changes of the mode and restarts come between.  Each
\* session writes the whole log from a copy of its own, so this needs that no
\* two are under one verdict, and with it the two conditions: otherwise what
\* one has logged the other may write over.  (replace, remap, _log_step)
THEOREM RemediatedMeansDoneHolds == OwnIds /\ OneJudge => (Spec => []RemediatedMeansDone)
<1> SUFFICES ASSUME OwnIds, OneJudge PROVE Spec => []RemediatedMeansDone
  OBVIOUS
<1>1. IInv /\ Reported /\ Alone /\ [Next]_vars => Alone'
  BY NextAlone
<1>2. Alone => RemediatedMeansDone
  BY DEF Alone
<1> QED
  BY <1>1, <1>2, InitAlone, ReportedForever, PTL DEF Spec

-----------------------------------------------------------------------------
(* No step twice. *)

Unrepeated(entries) ==
    \A i, k \in DOMAIN entries :
        (i # k /\ ~entries[i].dry /\ ~entries[k].dry) => entries[i].step # entries[k].step

\* What a run has before it, nobody has carried out under its verdict.
Undone(r) ==
    Working(r) /\ run[r].pc # "start" =>
        \A i \in DOMAIN Entries(r) :
            ~Entries(r)[i].dry => Entries(r)[i].step \notin Ahead(run[r].pc)

Once == OncePerVerdict /\ \A r \in Runners : Undone(r)

LEMMA InitOnce == Init => Once
<1> SUFFICES ASSUME Init PROVE Once
  OBVIOUS
<1>1. \A r \in Runners : run[r].pc = "idle"
  BY IdleFields DEF Init
<1>2. OncePerVerdict
  BY DEF Init, OncePerVerdict
<1> QED
  BY <1>1, <1>2 DEF Once, Undone, Working

\* A verdict's log is as it was for a run that stays where it is.
LEMMA UndoneStays ==
    ASSUME IInv, Reported, Once, NEW s \in Runners, run'[s] = run[s],
           Working(s) => log'[run[s].job][run[s].ver] = log[run[s].job][run[s].ver]
    PROVE  Undone(s)'
BY DEF Once, Undone, Working, Entries

LEMMA GrowsOnce ==
    ASSUME IInv, Reported, Once, NEW j \in Jobs, Grows(j)
    PROVE  /\ OncePerVerdict'
           /\ \A s \in Runners : run'[s] = run[s] => Undone(s)'
<1>1. /\ Len(log'[j]) = Len(log[j]) + 1 /\ log'[j][Len(log[j]) + 1] = <<>>
      /\ \A k \in Jobs : \A v \in DOMAIN log[k] : log'[k][v] = log[k][v]
      /\ \A k \in Jobs \ {j} : log'[k] = log[k]
      /\ log[j] \in Seq(Seq(Entry)) /\ log'[j] \in Seq(Seq(Entry))
  BY GrowsFacts DEF Reported, LogTyped
<1>2. ASSUME NEW k \in Jobs, NEW v \in DOMAIN log'[k] PROVE Unrepeated(log'[k][v])
  <2>1. CASE v \in DOMAIN log[k]
    BY <1>1, <2>1 DEF Once, OncePerVerdict, Unrepeated
  <2>2. CASE v \notin DOMAIN log[k]
    <3>1. k = j /\ v = Len(log[j]) + 1
      BY <1>1, <1>2, <2>2
    <3> QED
      BY <1>1, <3>1 DEF Unrepeated
  <2> QED
    BY <2>1, <2>2
<1>3. ASSUME NEW s \in Runners, run'[s] = run[s] PROVE Undone(s)'
  <2>1. Working(s) => log'[run[s].job][run[s].ver] = log[run[s].job][run[s].ver]
    BY <1>1, JobOf DEF Reported, InLog, Working
  <2> QED
    BY <1>3, <2>1, UndoneStays
<1> QED
  BY <1>2, <1>3 DEF OncePerVerdict, Unrepeated

LEMMA DoesOnce ==
    ASSUME IInv, Reported, Sole, Mirrored, Once, NEW r \in Runners, Goes(r),
           NEW step \in MUTATING_STEPS, Does(r, step)
    PROVE  Once'
<1>1. PICK j \in Jobs : j = run[r].job
  BY JobOf DEF Goes, Working
<1>2. PICK v \in DOMAIN log[j] : v = run[r].ver
  BY <1>1 DEF Goes, Reported, InLog
<1>3. PICK s \in Seq(Entry) : s = log[j][v]
  BY DEF Reported, LogTyped
<1>4. PICK e : e = [step |-> step, dry |-> dry_run]
  OBVIOUS
<1>5. e.step = step /\ e \in Entry
  BY <1>4 DEF Entry, IInv, Shape
<1>6. PICK t : t = Append(s, e)
  OBVIOUS
<1>7. /\ log'[j][v] = t
      /\ \A k \in Jobs : DOMAIN log'[k] = DOMAIN log[k]
      /\ \A k \in Jobs : \A u \in DOMAIN log[k] : k # j \/ u # v => log'[k][u] = log[k][u]
  <2>1. log[j][v] = Entries(r)
    BY <1>1, <1>2 DEF Entries
  <2> QED
    BY <1>1, <1>2, <1>3, <1>4, <1>6, <2>1, DoesLog DEF Goes
<1>8. /\ DOMAIN t = DOMAIN s \cup {Len(s) + 1} /\ t[Len(s) + 1] = e
      /\ Len(s) + 1 \notin DOMAIN s /\ \A i \in DOMAIN s : t[i] = s[i]
  BY <1>3, <1>5, <1>6
<1>9. step \in Ahead(run[r].pc) /\ run[r].pc # "start"
  <2>1. Ahead("start") = {}
    BY DEF Ahead
  <2> QED
    BY <2>1 DEF Does
<1>10. \A i \in DOMAIN s : ~s[i].dry => s[i].step \notin Ahead(run[r].pc)
  BY <1>1, <1>2, <1>3, <1>9 DEF Once, Undone, Goes, Entries
<1>11. Unrepeated(t)
  <2>1. Unrepeated(s)
    BY <1>3 DEF Once, OncePerVerdict, Unrepeated
  <2>2. \A i \in DOMAIN s : ~s[i].dry => s[i].step # e.step
    BY <1>5, <1>9, <1>10
  <2> QED
    BY <1>8, <2>1, <2>2 DEF Unrepeated
<1>12. OncePerVerdict'
  <2>1. ASSUME NEW k \in Jobs, NEW u \in DOMAIN log'[k] PROVE Unrepeated(log'[k][u])
    <3>1. CASE k = j /\ u = v
      BY <1>7, <1>11, <3>1
    <3>2. CASE k # j \/ u # v
      <4>1. u \in DOMAIN log[k] /\ log'[k][u] = log[k][u]
        BY <1>7, <2>1, <3>2
      <4> QED
        BY <4>1 DEF Once, OncePerVerdict, Unrepeated
    <3> QED
      BY <3>1, <3>2
  <2> QED
    BY <2>1 DEF OncePerVerdict, Unrepeated
<1>13. Undone(r)'
  <2>1. /\ run'[r].job = j /\ run'[r].ver = v
        /\ Ahead(run'[r].pc) \subseteq Ahead(run[r].pc) \ {step}
    BY <1>1, <1>2 DEF Goes, Does
  <2>2. \A i \in DOMAIN t : ~t[i].dry => t[i].step \notin Ahead(run'[r].pc)
    BY <1>5, <1>8, <1>10, <2>1
  <2> QED
    BY <1>7, <2>1, <2>2 DEF Undone, Entries
<1>14. ASSUME NEW p \in Runners \ {r} PROVE Undone(p)'
  <2>1. run'[p] = run[p]
    BY DEF Goes, OthersStay
  <2>2. Working(p) => run[p].job \in Jobs /\ run[p].ver \in DOMAIN log[run[p].job]
    BY JobOf DEF Reported, InLog, Working
  <2>3. Working(p) => run[p].job # j \/ run[p].ver # v
    BY <1>1, <1>2 DEF Sole, Separate, Goes
  <2>4. Working(p) => log'[run[p].job][run[p].ver] = log[run[p].job][run[p].ver]
    BY <1>7, <2>2, <2>3
  <2> QED
    BY <2>1, <2>4, UndoneStays
<1> QED
  BY <1>12, <1>13, <1>14 DEF Once

\* A run that starts, or goes on without an entry.
LEMMA GoesOnce ==
    ASSUME IInv, Reported, Once, NEW r \in Runners, Goes(r), Begins(r) \/ Advances(r)
    PROVE  Undone(r)'
<1>1. run'[r].job = run[r].job /\ run'[r].ver = run[r].ver /\ UNCHANGED log
  BY DEF Goes, Begins, Advances
<1>2. Entries(r)' = Entries(r)
  BY <1>1 DEF Entries
<1>3. CASE Begins(r)
  BY <1>2, <1>3 DEF Begins, Interrupted, Undone
<1>4. CASE Advances(r)
  <2>1. Ahead(run'[r].pc) = Ahead(run[r].pc) /\ run[r].pc # "start"
    BY <1>4, AheadOf DEF Advances, Calls
  <2> QED
    BY <1>2, <2>1 DEF Once, Undone, Goes
<1> QED
  BY <1>3, <1>4

LEMMA OnceStep == ASSUME IInv, Reported, Sole, Mirrored, Once, StepKinds PROVE Once'
<1>1. CASE UNCHANGED log /\ \A s \in Runners : run'[s] = run[s] \/ Undone(s)'
  <2>1. OncePerVerdict'
    BY <1>1 DEF Once, OncePerVerdict
  <2> QED
    BY <1>1, <2>1, UndoneStays DEF Once
<1>2. ASSUME NEW r \in Runners, run'[r].pc \in {"idle", "judge", "settle", "approving", "start"}
      PROVE  Undone(r)'
  BY <1>2 DEF Undone, Working
<1>3. ASSUME NEW r \in Runners, Leaves(r) \/ Opens(r) PROVE Once'
  <2>1. UNCHANGED log
    BY <1>3, LeavesLog DEF Opens
  <2> QED
    BY <1>1, <1>2, <1>3, <2>1 DEF Leaves, Opens, OthersStay
<1>4. ASSUME NEW r \in Runners, NEW j \in Jobs, Takes(r, j) \/ Seizes(r, j) PROVE Once'
  BY <1>1, <1>2, <1>4 DEF Takes, Seizes, OthersStay
<1>5. ASSUME NEW r \in Runners, Judges(r) PROVE Once'
  <2>1. PICK j \in Jobs : j = run[r].job
    BY <1>5, JobOf DEF Judges
  <2>2. Undone(r)'
    BY <1>2, <1>5 DEF Judges
  <2>3. OncePerVerdict' /\ \A s \in Runners : run'[s] = run[s] => Undone(s)'
    BY <1>5, <2>1, GrowsOnce DEF Judges
  <2> QED
    BY <1>5, <2>2, <2>3 DEF Judges, OthersStay, Once
<1>6. ASSUME NEW r \in Runners, Goes(r) PROVE Once'
  <2>1. CASE Begins(r) \/ Advances(r)
    <3>1. UNCHANGED log /\ Undone(r)'
      BY <1>6, <2>1, GoesOnce DEF Begins, Advances
    <3> QED
      BY <1>1, <1>6, <3>1 DEF Goes, OthersStay
  <2>2. CASE \E step \in MUTATING_STEPS : Does(r, step)
    BY <1>6, <2>2, DoesOnce
  <2> QED
    BY <1>6, <2>1, <2>2 DEF Goes
<1>7. ASSUME NEW j \in Jobs, Returns(j) \/ Overrules(j) PROVE Once'
  <2>1. UNCHANGED run /\ (UNCHANGED log \/ Grows(j))
    BY <1>7 DEF Returns, Overrules
  <2> QED
    BY <1>1, <2>1, GrowsOnce DEF Once
<1>8. CASE Restarts \/ Nothing
  BY <1>1, <1>2, <1>8 DEF Restarts, Nothing
<1> QED
  BY <1>3, <1>4, <1>5, <1>6, <1>7, <1>8 DEF StepKinds

LEMMA NextOnce == ASSUME IInv, Reported, Alone, Once, [Next]_vars PROVE Once'
<1>1. StepKinds
  BY NextKinds DEF Reported
<1> QED
  BY <1>1, OnceStep DEF Alone

\* However many approvals, refusals, dry runs, reaps and restarts come between:
\* what was carried out under a verdict is not carried out under it again.
\* The two conditions cannot be left out: two requests of one identity pass
\* each other's fence, and of two workers one may remediate by a verdict it
\* was late with.  (_was_interrupted, release; process_job)
THEOREM OncePerVerdictHolds == OwnIds /\ OneJudge => (Spec => []OncePerVerdict)
<1> SUFFICES ASSUME OwnIds, OneJudge PROVE Spec => []OncePerVerdict
  OBVIOUS
<1>1. Init => Alone /\ Once
  BY InitAlone, InitOnce
<1>2. IInv /\ Reported /\ Alone /\ Once /\ [Next]_vars => (Alone /\ Once)'
  BY NextAlone, NextOnce
<1>3. Alone /\ Once => OncePerVerdict
  BY DEF Once
<1> QED
  BY <1>1, <1>2, <1>3, ReportedForever, PTL DEF Spec
=============================================================================
