--------------------------- MODULE PipelineProofs ---------------------------
(***************************************************************************)
(* process_job, proved for any number of files, workers, plugins, parts    *)
(* and runs: what the tables hold, how far a daily budget is overrun, what *)
(* stands behind the status of a job, and that the outcomes a run decides  *)
(* on are the ones scoring gives (the definitions are MCPipeline's).       *)
(***************************************************************************)
EXTENDS MCPipeline, ScoringProofs

LEMMA StageNames ==
    /\ Stages = {"probe", "audio", "subs", "frames"}
    /\ Len(Extracting) = 4
    /\ \A i \in 1 .. 4 : Extracting[i] \in Stages
<1>1. DOMAIN Extracting = 1 .. 4
  BY DEF Extracting
<1>2. /\ Extracting[1] = "probe" /\ Extracting[2] = "audio"
      /\ Extracting[3] = "subs" /\ Extracting[4] = "frames"
  BY DEF Extracting
<1>3. \A i \in 1 .. 4 : i = 1 \/ i = 2 \/ i = 3 \/ i = 4
  OBVIOUS
<1>4. Len(Extracting) = 4
  BY DEF Extracting
<1> QED
  BY <1>1, <1>2, <1>3, <1>4 DEF Stages

LEMMA PluginsFinite == IsFiniteSet(PluginSet)
<1>1. PluginSet = {Plugins[i] : i \in 1 .. Len(Plugins)} /\ IsFiniteSet(1 .. Len(Plugins))
  BY PluginsAssumption, FS_Interval DEF PluginSet
<1> QED
  BY <1>1, ImageFinite

LEMMA PluginNames ==
    /\ Len(Plugins) \in Nat
    /\ \A i \in Nat \ {0} : i <= Len(Plugins) => Plugins[i] \in PluginSet
BY PluginsAssumption

-----------------------------------------------------------------------------
(* Types *)

Inputs     == SUBSET (Stages \cup {"transcript"})
RunRecords == [pc : PcStates, job : Jobs \cup {NoJob}, at : Nat, part : Nat, got : Inputs,
               ok : SUBSET PluginSet, outcome : Outcomes \cup {"none"}, seen : BOOLEAN]

\* Wherever a run is, what it indexes is there.
InBounds(r) ==
    /\ r.at > 0 /\ r.part > 0
    /\ r.pc # "idle" => r.job \in Jobs
    /\ r.pc \in {"context", "lookup", "extract", "store"} => r.at <= 4
    /\ r.pc = "identify" => r.at <= Len(Plugins)
    /\ r.pc \in {"release", "remediate", "corpus"} => r.outcome \in Outcomes
    /\ r.pc = "release" => r.outcome \in Routed

Queue ==
    /\ status \in [Jobs -> Routed \cup {"pending", "active", "error", "remediated"}]
    /\ owner \in [Jobs -> Workers \cup {NoOwner}]
    /\ runs \in [Jobs -> 0 .. MaxRuns]

Cache ==
    /\ assets \in [Jobs -> [Stages -> UNION {[1 .. Parts[s] -> Nat] : s \in Stages}]]
    /\ \A j \in Jobs, s \in Stages : assets[j][s] \in [1 .. Parts[s] -> Nat]
    /\ hash \in SUBSET Jobs /\ transcript \in SUBSET Jobs

Tables ==
    /\ corpus \in SUBSET Jobs
    /\ results \in [Jobs -> [PluginSet -> SUBSET Inputs]]
    /\ today \in [PluginSet -> Nat] /\ day \in 0 .. MaxDays
    /\ verdicts \in [Jobs -> SUBSET Outcomes]

Runs ==
    /\ run \in [Workers -> RunRecords]
    /\ \A w \in Workers : InBounds(run[w])

Typed == Queue /\ Cache /\ Tables /\ Runs

\* What a step of worker w may make of its record.
LEMMA MoveTyped ==
    ASSUME Runs, NEW w \in Workers, NEW r \in RunRecords, InBounds(r), Move(w, r)
    PROVE  Runs'
BY DEF Runs, Move, InBounds

LEMMA IdleTyped == Idle \in RunRecords /\ InBounds(Idle)
BY DEF Idle, RunRecords, InBounds, PcStates, Inputs

LEMMA NextStageTyped ==
    ASSUME NEW r \in RunRecords, r.job \in Jobs, r.at \in 1 .. 4, r.part > 0
    PROVE  NextStage(r) \in RunRecords /\ InBounds(NextStage(r))
<1>1. CASE r.at < 4
  <2>1. NextStage(r) = [r EXCEPT !.pc = "lookup", !.at = r.at + 1, !.part = 1]
    BY <1>1, StageNames DEF NextStage
  <2>2. NextStage(r) \in RunRecords
    <3>1. "lookup" \in PcStates /\ r.at + 1 \in Nat /\ 1 \in Nat
      BY DEF PcStates
    <3> QED
      BY <2>1, <3>1, Zenon DEF RunRecords
  <2>3. /\ NextStage(r).pc = "lookup" /\ NextStage(r).at = r.at + 1
        /\ NextStage(r).part = 1 /\ NextStage(r).job = r.job
    BY <2>1 DEF RunRecords
  <2> QED
    BY <1>1, <2>2, <2>3 DEF InBounds
<1>2. CASE r.at = 4
  <2>1. NextStage(r) = [r EXCEPT !.pc = "transcribe", !.part = 1]
    BY <1>2, StageNames DEF NextStage
  <2>2. NextStage(r) \in RunRecords
    <3>1. "transcribe" \in PcStates /\ 1 \in Nat
      BY DEF PcStates
    <3> QED
      BY <2>1, <3>1, Zenon DEF RunRecords
  <2>3. /\ NextStage(r).pc = "transcribe" /\ NextStage(r).at = r.at
        /\ NextStage(r).part = 1 /\ NextStage(r).job = r.job
    BY <2>1 DEF RunRecords
  <2> QED
    BY <1>2, <2>2, <2>3 DEF InBounds
<1> QED
  BY <1>1, <1>2

LEMMA GotTyped ==
    ASSUME NEW r \in RunRecords, NEW s \in Stages
    PROVE  /\ Got(r, s) \in RunRecords
           /\ Got(r, s).job = r.job /\ Got(r, s).at = r.at /\ Got(r, s).part = r.part
<1>1. r.got \cup {s} \in Inputs
  BY DEF RunRecords, Inputs
<1> QED
  BY <1>1 DEF Got, RunRecords

LEMMA ReleaseTyped ==
    ASSUME Queue, NEW w \in Workers, NEW s \in Routed \cup {"error", "remediated"}, Release(w, s)
    PROVE  Queue'
BY DEF Queue, Release

LEMMA EndTyped ==
    ASSUME Queue, Runs, NEW w \in Workers, End(w, "error")
    PROVE  Queue' /\ Runs'
<1>1. Runs'
  BY IdleTyped, MoveTyped DEF End
<1>2. Queue'
  BY ReleaseTyped DEF End, Queue, queue
<1> QED
  BY <1>1, <1>2

LEMMA Unchanged ==
    /\ Queue /\ UNCHANGED queue => Queue'
    /\ Cache /\ UNCHANGED cache => Cache'
    /\ Tables /\ UNCHANGED tables => Tables'
<1>1. Queue /\ UNCHANGED queue => Queue'
  BY DEF Queue, queue
<1>2. Cache /\ UNCHANGED cache => Cache'
  BY DEF Cache, cache
<1>3. Tables /\ UNCHANGED tables => Tables'
  BY DEF Tables, tables, budget
<1> QED
  BY <1>1, <1>2, <1>3

LEMMA InitTyped == Init => Typed
<1> SUFFICES ASSUME Init PROVE Typed
  OBVIOUS
<1>1. Queue /\ Tables
  BY RunsAssumption DEF Init, Queue, Tables, Inputs
<1>2. Runs
  BY IdleTyped DEF Init, Runs
<1>3. Cache
  <2>1. \A s \in Stages : [i \in 1 .. Parts[s] |-> 0] \in [1 .. Parts[s] -> Nat]
    OBVIOUS
  <2> QED
    BY <2>1 DEF Init, Cache
<1> QED
  BY <1>1, <1>2, <1>3 DEF Typed

\* A run that is busy, and what it may index.
LEMMA Busy ==
    ASSUME Runs, NEW w \in Workers
    PROVE  run[w] \in RunRecords /\ InBounds(run[w])
BY DEF Runs

LEMMA ContextTyped == ASSUME Typed, NEW w \in Workers, Context(w) PROVE Typed'
<1>1. CASE Move(w, [run[w] EXCEPT !.pc = "lookup"]) /\ UNCHANGED queue
  <2>1. [run[w] EXCEPT !.pc = "lookup"] \in RunRecords /\ InBounds([run[w] EXCEPT !.pc = "lookup"])
    BY Busy DEF Typed, Context, RunRecords, InBounds, PcStates
  <2> QED
    BY <1>1, <2>1, MoveTyped, Unchanged DEF Typed, Context
<1>2. CASE End(w, "error")
  BY <1>2, EndTyped, Unchanged DEF Typed, Context
<1> QED
  BY <1>1, <1>2 DEF Context

LEMMA RaisesTyped ==
    ASSUME Typed, NEW w \in Workers, Raises(w) \/ AllFailed(w) \/ CancelLost(w)
    PROVE  Typed'
<1>1. CASE Raises(w) \/ AllFailed(w)
  BY <1>1, EndTyped, Unchanged DEF Typed, Raises, AllFailed
<1>2. CASE CancelLost(w)
  BY <1>2, IdleTyped, MoveTyped, Unchanged DEF Typed, CancelLost
<1> QED
  BY <1>1, <1>2

LEMMA LookupTyped == ASSUME Typed, NEW w \in Workers, Lookup(w) PROVE Typed'
<1>1. /\ run[w] \in RunRecords /\ run[w].job \in Jobs /\ run[w].at \in 1 .. 4
      /\ run[w].part > 0 /\ InBounds(run[w]) /\ Stage(w) \in Stages
  BY Busy, StageNames DEF Typed, Lookup, RunRecords, InBounds, Stage
<1>2. CASE Ambiguous(w)
  BY <1>2, EndTyped, Unchanged DEF Typed, Lookup
<1>3. CASE ~Ambiguous(w) /\ Cached(w)
  <2> DEFINE r == Got(run[w], Stage(w))
  <2>1. r \in RunRecords /\ r.job \in Jobs /\ r.at \in 1 .. 4 /\ r.part > 0
    BY <1>1, GotTyped
  <2>2. NextStage(r) \in RunRecords /\ InBounds(NextStage(r))
    BY <2>1, NextStageTyped
  <2>3. Move(w, NextStage(r)) /\ UNCHANGED queue /\ UNCHANGED <<cache, tables>>
    BY <1>3 DEF Lookup
  <2> HIDE DEF r
  <2> QED
    BY <2>2, <2>3, MoveTyped, Unchanged DEF Typed
<1>4. CASE ~Ambiguous(w) /\ ~Cached(w)
  <2> DEFINE r == [run[w] EXCEPT !.pc = "extract", !.seen = run[w].job \in hash]
  <2>1. r \in RunRecords /\ InBounds(r)
    <3>1. r \in RunRecords
      <4>1. "extract" \in PcStates /\ (run[w].job \in hash) \in BOOLEAN
        BY DEF PcStates
      <4> QED
        BY <1>1, <4>1, Zenon DEF RunRecords
    <3>2. r.pc = "extract" /\ r.at = run[w].at /\ r.part = run[w].part /\ r.job = run[w].job
      BY <1>1 DEF RunRecords
    <3> HIDE DEF r
    <3> QED
      BY <1>1, <3>1, <3>2 DEF InBounds
  <2>2. Move(w, r) /\ UNCHANGED queue /\ UNCHANGED <<cache, tables>>
    BY <1>4 DEF Lookup
  <2> HIDE DEF r
  <2> QED
    BY <2>1, <2>2, MoveTyped, Unchanged DEF Typed
<1> QED
  BY <1>2, <1>3, <1>4

LEMMA ExtractTyped == ASSUME Typed, NEW w \in Workers, Extract(w) PROVE Typed'
<1>1. /\ run[w] \in RunRecords /\ run[w].job \in Jobs /\ run[w].at \in 1 .. 4
      /\ run[w].part > 0 /\ InBounds(run[w])
  BY Busy DEF Typed, Extract, RunRecords, InBounds
<1>2. CASE Move(w, [run[w] EXCEPT !.pc = "store"])
  <2>1. [run[w] EXCEPT !.pc = "store"] \in RunRecords /\ InBounds([run[w] EXCEPT !.pc = "store"])
    BY <1>1 DEF RunRecords, InBounds, PcStates
  <2> QED
    BY <1>2, <2>1, MoveTyped, Unchanged DEF Typed, Extract
<1>3. CASE Move(w, NextStage([run[w] EXCEPT !.seen = FALSE]))
  <2> DEFINE r == [run[w] EXCEPT !.seen = FALSE]
  <2>1. r \in RunRecords /\ r.job \in Jobs /\ r.at \in 1 .. 4 /\ r.part > 0
    BY <1>1 DEF RunRecords
  <2>2. NextStage(r) \in RunRecords /\ InBounds(NextStage(r))
    BY <2>1, NextStageTyped
  <2>3. Move(w, NextStage(r))
    BY <1>3
  <2> HIDE DEF r
  <2> QED
    BY <2>2, <2>3, MoveTyped, Unchanged DEF Typed, Extract
<1> QED
  BY <1>2, <1>3 DEF Extract

LEMMA OneMore ==
    ASSUME NEW S, NEW f \in [S -> Nat], NEW n \in S
    PROVE  [f EXCEPT ![n] = @ + 1] \in [S -> Nat]
OBVIOUS

LEMMA StoreTyped == ASSUME Typed, NEW w \in Workers, Store(w) PROVE Typed'
<1>1. /\ run[w] \in RunRecords /\ run[w].job \in Jobs /\ run[w].at \in 1 .. 4
      /\ run[w].part \in Nat \ {0} /\ InBounds(run[w]) /\ Stage(w) \in Stages
  <2>1. run[w] \in RunRecords /\ InBounds(run[w]) /\ run[w].pc = "store"
    BY Busy DEF Typed, Store
  <2>2. run[w].at \in Nat /\ run[w].part \in Nat
    BY <2>1 DEF RunRecords
  <2>3. /\ run[w].job \in Jobs /\ run[w].at \in 1 .. 4
        /\ run[w].part \in Nat \ {0}
    BY <2>1, <2>2 DEF InBounds
  <2>4. Stage(w) \in Stages
    BY <2>3, StageNames DEF Stage
  <2> QED
    BY <2>1, <2>3, <2>4
<1>2. CASE run[w].part <= Parts[Stage(w)]
  <2> DEFINE r == [run[w] EXCEPT !.part = @ + 1]
             j == run[w].job
             s == Stage(w)
             n == run[w].part
  <2>1. r \in RunRecords /\ InBounds(r)
    BY <1>1 DEF RunRecords, InBounds
  <2>2. /\ assets' = [assets EXCEPT ![j][s][n] = @ + 1]
        /\ Move(w, r) /\ UNCHANGED <<hash, transcript>> /\ UNCHANGED queue /\ UNCHANGED tables
    BY <1>2 DEF Store
  <2>3. j \in Jobs /\ s \in Stages /\ n \in 1 .. Parts[s]
    BY <1>1, <1>2, PartsAssumption
  <2> HIDE DEF r, j, s, n
  <2>4. [assets[j][s] EXCEPT ![n] = @ + 1] \in [1 .. Parts[s] -> Nat]
    <3>1. assets[j][s] \in [1 .. Parts[s] -> Nat]
      BY <2>3 DEF Typed, Cache
    <3> QED
      BY <2>3, <3>1, OneMore
  <2>5. assets' = [assets EXCEPT ![j] = [assets[j] EXCEPT ![s] = [assets[j][s] EXCEPT ![n] = @ + 1]]]
    BY <2>2, <2>3 DEF Typed, Cache
  <2>6. Cache'
    <3>1. \A k \in Jobs, t \in Stages :
             assets'[k][t] = IF k = j /\ t = s THEN [assets[j][s] EXCEPT ![n] = @ + 1]
                                               ELSE assets[k][t]
      BY <2>3, <2>5 DEF Typed, Cache
    <3>0. \A k \in Jobs, t \in Stages : assets[k][t] \in [1 .. Parts[t] -> Nat]
      BY DEF Typed, Cache
    <3>2. ASSUME NEW k \in Jobs, NEW t \in Stages PROVE assets'[k][t] \in [1 .. Parts[t] -> Nat]
      <4>1. CASE k = j /\ t = s
        BY <2>4, <3>1, <4>1
      <4>2. CASE ~ (k = j /\ t = s)
        BY <3>0, <3>1, <4>2, Zenon
      <4> QED
        BY <4>1, <4>2
    <3>3. assets' \in [Jobs -> [Stages -> UNION {[1 .. Parts[t] -> Nat] : t \in Stages}]]
      BY <2>3, <2>4, <2>5 DEF Typed, Cache
    <3> QED
      BY <2>2, <3>2, <3>3 DEF Typed, Cache
  <2> QED
    BY <2>1, <2>2, <2>6, MoveTyped, Unchanged DEF Typed
<1>3. CASE ~(run[w].part <= Parts[Stage(w)])
  <2> DEFINE r == Got(run[w], Stage(w))
  <2>1. r \in RunRecords /\ r.job \in Jobs /\ r.at \in 1 .. 4 /\ r.part > 0
    BY <1>1, GotTyped
  <2>2. NextStage(r) \in RunRecords /\ InBounds(NextStage(r))
    BY <2>1, NextStageTyped
  <2>3. /\ Move(w, NextStage(r)) /\ UNCHANGED <<assets, transcript>>
        /\ UNCHANGED queue /\ UNCHANGED tables
        /\ hash' = hash \/ hash' = hash \cup {run[w].job}
    BY <1>3 DEF Store
  <2> HIDE DEF r
  <2> QED
    BY <1>1, <2>2, <2>3, MoveTyped, Unchanged DEF Typed, Cache
<1> QED
  BY <1>2, <1>3

\* Records a run moves to, field by field.
LEMMA ToPlugin ==
    ASSUME NEW r \in RunRecords, InBounds(r), r.job \in Jobs, NEW a \in Nat \ {0}
    PROVE  /\ [r EXCEPT !.pc = "plugin", !.at = a] \in RunRecords
           /\ InBounds([r EXCEPT !.pc = "plugin", !.at = a])
           /\ [r EXCEPT !.at = a] \in RunRecords
           /\ r.pc = "plugin" => InBounds([r EXCEPT !.at = a])
<1>1. "plugin" \in PcStates
  BY DEF PcStates
<1>2. [r EXCEPT !.pc = "plugin", !.at = a] \in RunRecords
  BY <1>1, Zenon DEF RunRecords
<1>3. [r EXCEPT !.at = a] \in RunRecords
  BY DEF RunRecords
<1>4. PICK x : x = [r EXCEPT !.pc = "plugin", !.at = a]
  OBVIOUS
<1>5. x.pc = "plugin" /\ x.at = a /\ x.part = r.part /\ x.job = r.job
  BY <1>4 DEF RunRecords
<1>6. InBounds(x)
  BY <1>5 DEF InBounds
<1>7. PICK y : y = [r EXCEPT !.at = a]
  OBVIOUS
<1>8. y.pc = r.pc /\ y.at = a /\ y.part = r.part /\ y.job = r.job
  BY <1>7 DEF RunRecords
<1>9. r.pc = "plugin" => InBounds(y)
  BY <1>8 DEF InBounds
<1> QED
  BY <1>2, <1>3, <1>4, <1>6, <1>7, <1>9

LEMMA FirstTyped ==
    ASSUME NEW r \in RunRecords, InBounds(r), r.job \in Jobs
    PROVE  FirstPlugin(r) \in RunRecords /\ InBounds(FirstPlugin(r))
<1>1. 1 \in Nat \ {0}
  OBVIOUS
<1>2. [r EXCEPT !.pc = "plugin", !.at = 1] \in RunRecords
      /\ InBounds([r EXCEPT !.pc = "plugin", !.at = 1])
  BY <1>1, ToPlugin
<1> QED
  BY <1>2 DEF FirstPlugin

LEMMA WithOk ==
    ASSUME NEW r \in RunRecords, InBounds(r), NEW p \in PluginSet
    PROVE  [r EXCEPT !.ok = r.ok \cup {p}] \in RunRecords /\ InBounds([r EXCEPT !.ok = r.ok \cup {p}])
<1>1. r.ok \cup {p} \in SUBSET PluginSet
  BY DEF RunRecords
<1>2. PICK x : x = [r EXCEPT !.ok = r.ok \cup {p}]
  OBVIOUS
<1>3. x.pc = r.pc /\ x.at = r.at /\ x.part = r.part /\ x.job = r.job /\ x.outcome = r.outcome
  BY <1>2 DEF RunRecords
<1>4. x \in RunRecords
  BY <1>1, <1>2 DEF RunRecords
<1> QED
  BY <1>2, <1>3, <1>4 DEF InBounds

LEMMA TranscribeTyped == ASSUME Typed, NEW w \in Workers, Transcribe(w) PROVE Typed'
<1>1. run[w] \in RunRecords /\ InBounds(run[w]) /\ run[w].job \in Jobs
  BY Busy DEF Typed, Transcribe, InBounds
<1>2. CASE transcript' = transcript \cup {run[w].job}
           /\ Move(w, FirstPlugin([run[w] EXCEPT !.got = @ \cup {"transcript"}]))
  <2>1. PICK r : r = [run[w] EXCEPT !.got = @ \cup {"transcript"}]
    OBVIOUS
  <2>2. r \in RunRecords /\ InBounds(r) /\ r.job \in Jobs
    <3>1. run[w].got \cup {"transcript"} \in Inputs
      BY <1>1 DEF RunRecords, Inputs
    <3>2. r \in RunRecords
      BY <1>1, <2>1, <3>1 DEF RunRecords
    <3>3. r.pc = run[w].pc /\ r.at = run[w].at /\ r.part = run[w].part /\ r.job = run[w].job
          /\ r.outcome = run[w].outcome
      BY <1>1, <2>1 DEF RunRecords
    <3> QED
      BY <1>1, <3>2, <3>3 DEF InBounds
  <2>3. FirstPlugin(r) \in RunRecords /\ InBounds(FirstPlugin(r))
    BY <2>2, FirstTyped
  <2>4. Runs'
    BY <1>2, <2>1, <2>3, MoveTyped DEF Typed
  <2>5. Cache'
    BY <1>1, <1>2 DEF Transcribe, Typed, Cache
  <2> QED
    BY <2>4, <2>5, Unchanged DEF Transcribe, Typed
<1>3. CASE Move(w, FirstPlugin(run[w])) /\ UNCHANGED transcript
  <2>1. FirstPlugin(run[w]) \in RunRecords /\ InBounds(FirstPlugin(run[w]))
    BY <1>1, FirstTyped
  <2>2. UNCHANGED cache /\ UNCHANGED queue /\ UNCHANGED tables
    BY <1>3 DEF Transcribe, cache
  <2> QED
    BY <1>3, <2>1, <2>2, MoveTyped, Unchanged DEF Typed
<1> QED
  BY <1>2, <1>3 DEF Transcribe

\* Where a run stands in the list of plugins.
LEMMA AtPlugin ==
    ASSUME Runs, NEW w \in Workers, run[w].pc \in {"plugin", "identify"}, run[w].at <= Len(Plugins)
    PROVE  /\ run[w] \in RunRecords /\ InBounds(run[w]) /\ run[w].job \in Jobs
           /\ run[w].at \in Nat \ {0} /\ run[w].at + 1 \in Nat \ {0}
           /\ Plugins[run[w].at] \in PluginSet
<1>1. run[w] \in RunRecords /\ InBounds(run[w])
  BY Busy
<1>2. run[w].at \in Nat \ {0} /\ run[w].job \in Jobs
  BY <1>1 DEF RunRecords, InBounds
<1>3. Plugins[run[w].at] \in PluginSet
  BY <1>2, PluginNames
<1> QED
  BY <1>1, <1>2, <1>3

\* On to the next plugin, with or without an answer of this one.
LEMMA MovedOn ==
    ASSUME NEW r \in RunRecords, InBounds(r), r.job \in Jobs
    PROVE  LET x == [r EXCEPT !.pc = "plugin", !.at = @ + 1]
           IN  /\ x \in RunRecords /\ InBounds(x) /\ x.pc = "plugin"
               /\ x.job = r.job /\ x.outcome = r.outcome /\ x.ok = r.ok
<1>1. r.at + 1 \in Nat \ {0}
  BY DEF RunRecords
<1>2. PICK z : z = [r EXCEPT !.pc = "plugin", !.at = r.at + 1]
  OBVIOUS
<1>3. z \in RunRecords /\ InBounds(z)
  BY <1>1, <1>2, ToPlugin
<1>4. z.job = r.job /\ z.outcome = r.outcome /\ z.ok = r.ok /\ z.pc = "plugin"
  BY <1>2 DEF RunRecords
<1> QED
  BY <1>2, <1>3, <1>4

LEMMA AnsweredBy ==
    ASSUME NEW r \in RunRecords, InBounds(r), r.job \in Jobs, NEW p \in PluginSet
    PROVE  LET x == [r EXCEPT !.pc = "plugin", !.at = @ + 1, !.ok = @ \cup {p}]
           IN  /\ x \in RunRecords /\ InBounds(x) /\ x.pc = "plugin"
               /\ x.job = r.job /\ x.outcome = r.outcome /\ x.ok = r.ok \cup {p}
<1>1. PICK z : z = [r EXCEPT !.pc = "plugin", !.at = @ + 1]
  OBVIOUS
<1>2. /\ z \in RunRecords /\ InBounds(z) /\ z.pc = "plugin"
      /\ z.job = r.job /\ z.outcome = r.outcome /\ z.ok = r.ok
  BY <1>1, MovedOn
<1>3. PICK x : x = [z EXCEPT !.ok = r.ok \cup {p}]
  OBVIOUS
<1>4. x = [r EXCEPT !.pc = "plugin", !.at = @ + 1, !.ok = @ \cup {p}]
  BY <1>1, <1>3
<1>5. x \in RunRecords /\ InBounds(x)
  BY <1>2, <1>3, WithOk
<1>6. x.job = z.job /\ x.outcome = z.outcome /\ x.ok = r.ok \cup {p} /\ x.pc = z.pc
  BY <1>2, <1>3 DEF RunRecords
<1> QED
  BY <1>2, <1>4, <1>5, <1>6

\* A run that is at a plugin already.
LEMMA StillAtPlugin ==
    ASSUME NEW r \in RunRecords, r.pc = "plugin"
    PROVE  r = [r EXCEPT !.pc = "plugin"]
BY DEF RunRecords

LEMMA ConsultedBy ==
    ASSUME NEW r \in RunRecords, r.pc = "plugin", NEW p \in PluginSet
    PROVE  /\ [r EXCEPT !.at = @ + 1] = [r EXCEPT !.pc = "plugin", !.at = @ + 1]
           /\ [r EXCEPT !.at = @ + 1, !.ok = @ \cup {p}]
                = [r EXCEPT !.pc = "plugin", !.at = @ + 1, !.ok = @ \cup {p}]
<1>1. PICK q : q = [r EXCEPT !.pc = "plugin"]
  OBVIOUS
<1>2. q = r
  BY <1>1, StillAtPlugin
<1>3. [r EXCEPT !.pc = "plugin", !.at = r.at + 1] = [q EXCEPT !.at = r.at + 1]
  BY <1>1
<1>4. [r EXCEPT !.pc = "plugin", !.at = r.at + 1, !.ok = r.ok \cup {p}]
        = [q EXCEPT !.at = r.at + 1, !.ok = r.ok \cup {p}]
  BY <1>1
<1> QED
  BY <1>2, <1>3, <1>4

LEMMA ConsultTyped == ASSUME Typed, NEW w \in Workers, Consult(w) PROVE Typed'
<1> DEFINE p == Plugins[run[w].at]
<1>1. /\ run[w] \in RunRecords /\ InBounds(run[w]) /\ run[w].job \in Jobs
      /\ run[w].at + 1 \in Nat \ {0} /\ p \in PluginSet /\ run[w].pc = "plugin"
  BY AtPlugin DEF Consult, Typed
<1>2. Runs'
  <2>1. CASE Move(w, [run[w] EXCEPT !.at = @ + 1, !.ok = @ \cup {p}])
    <3>1. PICK x : x = [run[w] EXCEPT !.at = @ + 1, !.ok = @ \cup {p}]
      OBVIOUS
    <3>2. x = [run[w] EXCEPT !.pc = "plugin", !.at = @ + 1, !.ok = @ \cup {p}]
      BY <1>1, <3>1, ConsultedBy
    <3>3. x \in RunRecords /\ InBounds(x)
      BY <1>1, <3>2, AnsweredBy
    <3> QED
      BY <2>1, <3>1, <3>3, MoveTyped DEF Typed
  <2>2. CASE Move(w, Abstain(run[w]))
    <3>1. PICK x : x = [run[w] EXCEPT !.at = @ + 1]
      OBVIOUS
    <3>2. x = [run[w] EXCEPT !.pc = "plugin", !.at = @ + 1]
      BY <1>1, <3>1, ConsultedBy
    <3>3. x \in RunRecords /\ InBounds(x)
      BY <1>1, <3>2, MovedOn
    <3> QED
      BY <2>2, <3>1, <3>3, MoveTyped DEF Typed, Abstain
  <2>3. CASE Move(w, [run[w] EXCEPT !.pc = "identify"])
    <3>1. PICK x : x = [run[w] EXCEPT !.pc = "identify"]
      OBVIOUS
    <3>2. x \in RunRecords
      BY <1>1, <3>1 DEF RunRecords, PcStates
    <3>3. x.pc = "identify" /\ x.at = run[w].at /\ x.part = run[w].part /\ x.job = run[w].job
      BY <1>1, <3>1 DEF RunRecords
    <3>4. InBounds(x)
      BY <1>1, <3>3 DEF InBounds, Consult
    <3> QED
      BY <2>3, <3>1, <3>2, <3>4, MoveTyped DEF Typed
  <2> QED
    BY <2>1, <2>2, <2>3 DEF Consult
<1> QED
  BY <1>2, Unchanged DEF Consult, Typed

LEMMA IdentifyTyped == ASSUME Typed, NEW w \in Workers, Identify(w) PROVE Typed'
<1> DEFINE p == Plugins[run[w].at]
<1>1. /\ run[w] \in RunRecords /\ InBounds(run[w]) /\ run[w].job \in Jobs
      /\ run[w].pc = "identify" /\ run[w].at <= Len(Plugins)
  BY Busy DEF Identify, Typed, InBounds, Runs
<1>2. p \in PluginSet
  BY <1>1, AtPlugin DEF Typed
<1>3. Runs'
  <2>1. PICK x : /\ Move(w, x)
                 /\ \/ x = [run[w] EXCEPT !.pc = "plugin", !.at = @ + 1]
                    \/ x = [run[w] EXCEPT !.pc = "plugin", !.at = @ + 1, !.ok = @ \cup {p}]
    BY DEF Identify
  <2>2. x \in RunRecords /\ InBounds(x)
    <3>1. CASE x = [run[w] EXCEPT !.pc = "plugin", !.at = @ + 1]
      BY <1>1, <3>1, MovedOn
    <3>2. CASE x = [run[w] EXCEPT !.pc = "plugin", !.at = @ + 1, !.ok = @ \cup {p}]
      BY <1>1, <1>2, <3>2, AnsweredBy
    <3> QED
      BY <2>1, <3>1, <3>2
  <2> QED
    BY <2>1, <2>2, MoveTyped DEF Typed
<1>4. Tables'
  <2>1. today' \in [PluginSet -> Nat]
    <3>1. today' = [today EXCEPT ![p] = today[p] + 1]
      BY Zenon DEF Identify
    <3>2. today \in [PluginSet -> Nat]
      BY DEF Typed, Tables
    <3> HIDE DEF p
    <3> QED
      BY <1>2, <3>1, <3>2
  <2>2. results' \in [Jobs -> [PluginSet -> SUBSET Inputs]]
    <3>1. CASE results' = [results EXCEPT ![run[w].job][p] = @ \cup {run[w].got}]
      <4>1. run[w].got \in Inputs
        BY <1>1 DEF RunRecords
      <4> QED
        BY <1>1, <1>2, <3>1, <4>1 DEF Typed, Tables
    <3>2. CASE UNCHANGED results
      BY <3>2 DEF Typed, Tables
    <3> QED
      BY <3>1, <3>2 DEF Identify
  <2> QED
    BY <2>1, <2>2 DEF Identify, Typed, Tables
<1> QED
  BY <1>3, <1>4, Unchanged DEF Identify, Typed

LEMMA DecideTyped == ASSUME Typed, NEW w \in Workers, Decide(w) PROVE Typed'
<1>1. run[w] \in RunRecords /\ InBounds(run[w]) /\ run[w].job \in Jobs
  BY Busy DEF Typed, Decide, InBounds
<1>2. PICK o \in RouteOutcomes(run[w].ok) :
          /\ verdicts' = NewVerdictRow(run[w].job, o)
          /\ Move(w, [run[w] EXCEPT !.outcome = o,
                                    !.pc = IF o = "remediate" THEN "remediate" ELSE "release"])
  BY DEF Decide
<1>3. o \in Outcomes
  BY <1>2 DEF RouteOutcomes, Outcomes, Routed
<1>4. PICK c : c = IF o = "remediate" THEN "remediate" ELSE "release"
  OBVIOUS
<1>5. PICK y : y = [run[w] EXCEPT !.outcome = o]
  OBVIOUS
<1>6. PICK x : x = [y EXCEPT !.pc = c]
  OBVIOUS
<1>7. Move(w, x)
  BY <1>2, <1>4, <1>5, <1>6
<1>8. y \in RunRecords /\ y.outcome = o /\ y.at = run[w].at /\ y.part = run[w].part
      /\ y.job = run[w].job
  BY <1>1, <1>3, <1>5 DEF RunRecords
<1>9. x \in RunRecords /\ x.pc = c /\ x.outcome = o /\ x.at = run[w].at
      /\ x.part = run[w].part /\ x.job = run[w].job
  BY <1>4, <1>6, <1>8 DEF RunRecords, PcStates
<1>10. InBounds(x)
  BY <1>1, <1>3, <1>4, <1>9 DEF InBounds, Outcomes
<1>11. Runs'
  BY <1>7, <1>9, <1>10, MoveTyped DEF Typed
<1>12. Tables'
  BY <1>1, <1>2, <1>3 DEF Decide, Typed, Tables, NewVerdictRow, budget
<1> QED
  BY <1>11, <1>12, Unchanged DEF Decide, Typed

\* Into the corpus step, from a release or a remediation.
LEMMA ToCorpus ==
    ASSUME NEW r \in RunRecords, InBounds(r), r.pc \in {"release", "remediate"}
    PROVE  [r EXCEPT !.pc = "corpus"] \in RunRecords /\ InBounds([r EXCEPT !.pc = "corpus"])
<1>1. PICK x : x = [r EXCEPT !.pc = "corpus"]
  OBVIOUS
<1>2. x \in RunRecords
  BY <1>1 DEF RunRecords, PcStates
<1>3. x.pc = "corpus" /\ x.at = r.at /\ x.part = r.part /\ x.job = r.job /\ x.outcome = r.outcome
  BY <1>1 DEF RunRecords
<1> QED
  BY <1>1, <1>2, <1>3 DEF InBounds

LEMMA EndingTyped ==
    ASSUME Typed, NEW w \in Workers, ReleaseRouted(w) \/ Remediate(w) \/ WriteCorpus(w)
    PROVE  Typed'
<1>1. run[w] \in RunRecords /\ InBounds(run[w]) /\ (run[w].pc # "idle" => run[w].job \in Jobs)
  BY Busy DEF Typed, InBounds
<1>2. CASE ReleaseRouted(w)
  <2>1. run[w].outcome \in Routed
    BY <1>1, <1>2 DEF InBounds, ReleaseRouted
  <2>2. Queue'
    BY <1>2, <2>1, ReleaseTyped, Unchanged DEF ReleaseRouted, Typed
  <2>3. Runs'
    BY <1>1, <1>2, ToCorpus, IdleTyped, MoveTyped DEF ReleaseRouted, Typed
  <2> QED
    BY <1>2, <2>2, <2>3, Unchanged DEF ReleaseRouted, Typed
<1>3. CASE Remediate(w)
  <2>2. Queue'
    BY <1>3, ReleaseTyped DEF Remediate, Typed, Routed
  <2>3. Runs'
    BY <1>1, <1>3, ToCorpus, MoveTyped DEF Remediate, Typed
  <2> QED
    BY <1>3, <2>2, <2>3, Unchanged DEF Remediate, Typed
<1>4. CASE WriteCorpus(w)
  <2>1. Runs'
    BY <1>4, IdleTyped, MoveTyped DEF WriteCorpus, Typed
  <2>2. Tables'
    BY <1>1, <1>4 DEF WriteCorpus, Typed, Tables, budget
  <2> QED
    BY <1>4, <2>1, <2>2, Unchanged DEF WriteCorpus, Typed
<1> QED
  BY <1>2, <1>3, <1>4

LEMMA ClaimTyped == ASSUME Typed, NEW w \in Workers, NEW j \in Jobs, Claim(w, j) PROVE Typed'
<1>1. [Idle EXCEPT !.pc = "context", !.job = j] \in RunRecords
      /\ InBounds([Idle EXCEPT !.pc = "context", !.job = j])
  <2>1. PICK y : y = [Idle EXCEPT !.pc = "context"]
    OBVIOUS
  <2>2. y \in RunRecords /\ y.pc = "context" /\ y.at = 1 /\ y.part = 1
    BY <2>1, IdleTyped DEF Idle, RunRecords, PcStates
  <2>3. PICK x : x = [y EXCEPT !.job = j]
    OBVIOUS
  <2>4. x \in RunRecords /\ x.pc = "context" /\ x.at = 1 /\ x.part = 1 /\ x.job = j
    BY <2>2, <2>3 DEF RunRecords
  <2>5. InBounds(x)
    BY <2>4 DEF InBounds
  <2>6. x = [Idle EXCEPT !.pc = "context", !.job = j]
    BY <2>1, <2>3
  <2> QED
    BY <2>4, <2>5, <2>6
<1>2. Queue'
  <2>1. runs[j] + 1 \in 0 .. MaxRuns
    BY RunsAssumption DEF Claim, Typed, Queue
  <2> QED
    BY <2>1 DEF Claim, Typed, Queue
<1> QED
  BY <1>1, <1>2, MoveTyped, Unchanged DEF Claim, Typed

LEMMA AroundTyped ==
    ASSUME Typed, (\E j \in Jobs : Requeue(j)) \/ NewDay \/ Crash
    PROVE  Typed'
<1>1. CASE \E j \in Jobs : Requeue(j)
  <2>1. Queue' /\ UNCHANGED run
    BY <1>1 DEF Requeue, Typed, Queue
  <2> QED
    BY <1>1, <2>1, Unchanged DEF Requeue, Typed, Runs, InBounds
<1>2. CASE NewDay
  <2>1. day + 1 \in 0 .. MaxDays
    BY <1>2, RunsAssumption DEF NewDay, Typed, Tables
  <2>2. Tables' /\ UNCHANGED run
    BY <1>2, <2>1 DEF NewDay, Typed, Tables
  <2> QED
    BY <1>2, <2>2, Unchanged DEF NewDay, Typed, Runs, InBounds
<1>3. CASE Crash
  <2>1. Runs'
    BY <1>3, IdleTyped DEF Crash, Runs, InBounds
  <2> QED
    BY <1>3, <2>1, Unchanged DEF Crash, Typed
<1> QED
  BY <1>1, <1>2, <1>3

LEMMA StepTyped == Typed /\ [Next]_vars => Typed'
<1> SUFFICES ASSUME Typed, [Next]_vars PROVE Typed'
  OBVIOUS
<1>1. CASE UNCHANGED vars
  BY <1>1, Unchanged DEF vars, Typed, Runs, InBounds
<1>2. CASE \E w \in Workers, j \in Jobs : Claim(w, j)
  BY <1>2, ClaimTyped
<1>3. CASE \E w \in Workers : Run(w)
  BY <1>3, ContextTyped, LookupTyped, ExtractTyped, StoreTyped, TranscribeTyped, ConsultTyped,
     IdentifyTyped, DecideTyped, EndingTyped, RaisesTyped DEF Run
<1> QED
  BY <1>1, <1>2, <1>3, AroundTyped DEF Next

\* The tables and the records of process_job keep their types: a status is
\* one the queue knows, a run only ever indexes a stage, a file or a plugin
\* that is there.
THEOREM TypeCorrect == Spec => []TypeOK
<1>1. Typed => TypeOK
  BY DEF Typed, Queue, Cache, Tables, Runs, RunRecords, Inputs, TypeOK
<1> QED
  BY <1>1, InitTyped, StepTyped, PTL DEF Spec

-----------------------------------------------------------------------------
(* What stands behind a status *)

\* Once a run has decided.
Deciding == {"release", "remediate", "corpus"}

\* What a run claims to know of its job is in the tables, and what it decided
\* it could decide on that.
Backed(r) ==
    /\ r.pc = "idle" => r.ok = {}
    /\ r.ok \subseteq Witnesses(r.job)
    /\ r.outcome # "none" => r.pc \in Deciding /\ r.outcome \in RouteOutcomes(r.ok)
    /\ r.pc \in {"release", "remediate"} => r.outcome \in verdicts[r.job]
    /\ r.pc = "remediate" => r.outcome = "remediate"

Behind == EvidenceBehindStatus /\ VerdictBehindStatus /\ \A w \in Workers : Backed(run[w])

\* No answer and no verdict is taken back.
Grows == \A j \in Jobs : Witnesses(j) \subseteq Witnesses(j)' /\ verdicts[j] \subseteq verdicts'[j]

\* A verdict that is new and asks for a remediation has its witnesses.
Enough(j)    == Cardinality(Witnesses(j)) >= MinEvidence
NewIsBacked  == \A j \in Jobs : "remediate" \in verdicts'[j] \ verdicts[j] => Enough(j)'

\* A status that claims nothing.
Plain == {"pending", "active", "error"}

\* A step of a run that learns and decides nothing.
SameKnowledge(r, x) ==
    /\ x.job = r.job /\ x.ok = r.ok /\ x.outcome = r.outcome
    /\ x.pc \notin {"idle", "release", "remediate"}

LEMMA SameGrows == UNCHANGED <<results, verdicts>> => Grows /\ NewIsBacked
BY DEF Grows, NewIsBacked, Witnesses

LEMMA WitnessCount ==
    /\ \A j : IsFiniteSet(Witnesses(j)) /\ Cardinality(Witnesses(j)) \in Nat
    /\ \A j : IsFiniteSet(Witnesses(j)') /\ Cardinality(Witnesses(j)') \in Nat
    /\ \A ok \in SUBSET PluginSet : IsFiniteSet(ok) /\ Cardinality(ok) \in Nat
<1>1. IsFiniteSet(PluginSet)
  BY PluginsFinite
<1>2. \A S \in SUBSET PluginSet : IsFiniteSet(S) /\ Cardinality(S) \in Nat
  BY <1>1, FS_Subset, FS_CardinalityType
<1>3. \A j : Witnesses(j) \in SUBSET PluginSet /\ Witnesses(j)' \in SUBSET PluginSet
  BY DEF Witnesses
<1> QED
  BY <1>2, <1>3

\* A run that may decide on something has heard somebody, and enough of them
\* if it is to be a remediation.
LEMMA OutcomeBacked ==
    ASSUME NEW j, NEW ok \in SUBSET PluginSet, ok \subseteq Witnesses(j),
           NEW o \in RouteOutcomes(ok)
    PROVE  /\ o # "inconclusive" => Witnesses(j) # {}
           /\ o = "remediate" => Enough(j)
<1>1. o = "remediate" => Cardinality(ok) >= MinEvidence
  BY DEF RouteOutcomes
<1>2. Cardinality(ok) <= Cardinality(Witnesses(j))
  BY WitnessCount, FS_Subset
<1> QED
  BY <1>1, <1>2, WitnessCount, EvidenceAssumption DEF RouteOutcomes, Enough

LEMMA IdleBacked == Backed(Idle) /\ Backed(Idle)'
BY DEF Backed, Idle

LEMMA StillBacked ==
    ASSUME Typed, Behind, Grows, NEW w \in Workers, NEW x, Move(w, x), Backed(x)'
    PROVE  \A v \in Workers : Backed(run[v])'
<1> SUFFICES ASSUME NEW v \in Workers PROVE Backed(run[v])'
  OBVIOUS
<1>1. CASE v = w
  BY <1>1 DEF Typed, Runs, Move
<1>2. CASE v # w
  <2>1. run'[v] = run[v]
    BY <1>2 DEF Typed, Runs, Move
  <2>2. Backed(run[v]) /\ InBounds(run[v])
    BY DEF Behind, Typed, Runs
  <2>3. run[v].pc # "idle" => run[v].job \in Jobs
    BY <2>2 DEF InBounds
  <2>4. run[v].pc = "idle" => Backed(run[v])'
    BY <2>1, <2>2 DEF Backed, Deciding
  <2>5. run[v].pc # "idle" => Backed(run[v])'
    <3> SUFFICES ASSUME run[v].pc # "idle" PROVE Backed(run[v])'
      OBVIOUS
    <3>1. PICK j \in Jobs : j = run[v].job /\ j = run'[v].job
      BY <2>1, <2>3
    <3>2. Witnesses(j) \subseteq Witnesses(j)' /\ verdicts[j] \subseteq verdicts'[j]
      BY DEF Grows
    <3>3. Witnesses(run[v].job) = Witnesses(j) /\ Witnesses(run[v].job)' = Witnesses(j)'
      BY <3>1 DEF Witnesses
    <3> QED
      BY <2>1, <2>2, <3>1, <3>2, <3>3 DEF Backed
  <2> QED
    BY <2>4, <2>5
<1> QED
  BY <1>1, <1>2

LEMMA StillBehind ==
    ASSUME Typed, Behind, Grows, NewIsBacked, \A w \in Workers : Backed(run[w])',
           \A j \in Jobs : status'[j] = status[j] \/ status'[j] \in Plain,
           corpus' = corpus
    PROVE  Behind'
<1>1. EvidenceBehindStatus'
  <2> SUFFICES ASSUME NEW j \in Jobs
               PROVE  /\ status'[j] \in {"matched", "quarantine", "remediated"} \/ j \in corpus' =>
                            Witnesses(j)' # {}
                      /\ "remediate" \in verdicts'[j] => Enough(j)'
    BY DEF EvidenceBehindStatus, Enough
  <2>1. Witnesses(j) \subseteq Witnesses(j)'
    BY DEF Grows
  <2>2. Cardinality(Witnesses(j)) <= Cardinality(Witnesses(j)')
    BY <2>1, WitnessCount, FS_Subset
  <2>3. "remediate" \in verdicts[j] => Enough(j)'
    BY <2>2, WitnessCount, EvidenceAssumption DEF Behind, EvidenceBehindStatus, Enough
  <2>4. status'[j] \in {"matched", "quarantine", "remediated"} \/ j \in corpus' => Witnesses(j) # {}
    BY DEF Behind, EvidenceBehindStatus, Plain
  <2> QED
    BY <2>1, <2>3, <2>4 DEF NewIsBacked
<1>2. VerdictBehindStatus'
  <2> SUFFICES ASSUME NEW j \in Jobs, status'[j] \in Routed \cup {"remediated"}
               PROVE  verdicts'[j] \cap Explains(status'[j]) # {}
    BY DEF VerdictBehindStatus, Explains
  <2>1. status'[j] = status[j]
    BY DEF Plain, Routed
  <2>2. verdicts[j] \cap Explains(status[j]) # {} /\ verdicts[j] \subseteq verdicts'[j]
    BY <2>1 DEF Behind, VerdictBehindStatus, Grows
  <2> QED
    BY <2>1, <2>2
<1> QED
  BY <1>1, <1>2 DEF Behind

LEMMA QuietStep ==
    ASSUME Typed, Behind, NEW w \in Workers, NEW x, Move(w, x),
           x = Idle \/ (run[w].pc \notin Deciding \cup {"idle"} /\ SameKnowledge(run[w], x)),
           UNCHANGED <<results, verdicts, corpus>>,
           \A j \in Jobs : status'[j] = status[j] \/ status'[j] \in Plain
    PROVE  Behind'
<1>1. Backed(x)'
  <2>1. CASE x = Idle
    BY <2>1, IdleBacked
  <2>2. CASE run[w].pc \notin Deciding /\ SameKnowledge(run[w], x)
    <3>1. Backed(run[w])
      BY DEF Behind
    <3>2. x.outcome = "none"
      BY <2>2, <3>1 DEF SameKnowledge, Backed
    <3>3. Witnesses(x.job)' = Witnesses(run[w].job)
      BY <2>2 DEF SameKnowledge, Witnesses
    <3> QED
      BY <2>2, <3>1, <3>2, <3>3 DEF SameKnowledge, Backed
  <2> QED
    BY <2>1, <2>2
<1> QED
  BY <1>1, SameGrows, StillBacked, StillBehind

LEMMA ErrorIsPlain ==
    ASSUME Typed, NEW w \in Workers, End(w, "error") \/ UNCHANGED queue
    PROVE  \A j \in Jobs : status'[j] = status[j] \/ status'[j] \in Plain
BY DEF End, Release, Plain, queue, Typed, Queue

LEMMA FailedBehind ==
    ASSUME Typed, Behind, NEW w \in Workers, End(w, "error"), UNCHANGED <<cache, tables>>
    PROVE  Behind'
<1>1. Move(w, Idle) /\ UNCHANGED <<results, verdicts, corpus>>
  BY DEF End, tables
<1> QED
  BY <1>1, ErrorIsPlain, QuietStep

LEMMA NextStageSame ==
    ASSUME NEW r \in RunRecords
    PROVE  SameKnowledge(r, NextStage(r))
<1>1. PICK a : a = [r EXCEPT !.pc = "lookup"]
  OBVIOUS
<1>2. PICK b : b = [a EXCEPT !.at = r.at + 1]
  OBVIOUS
<1>3. PICK c : c = [b EXCEPT !.part = 1]
  OBVIOUS
<1>4. a \in RunRecords /\ SameKnowledge(r, a)
  BY <1>1 DEF RunRecords, PcStates, SameKnowledge
<1>5. b \in RunRecords /\ SameKnowledge(r, b)
  BY <1>2, <1>4 DEF RunRecords, SameKnowledge
<1>6. SameKnowledge(r, c)
  BY <1>3, <1>5 DEF RunRecords, SameKnowledge
<1>7. c = [r EXCEPT !.pc = "lookup", !.at = @ + 1, !.part = 1]
  BY <1>1, <1>2, <1>3
<1>8. PICK d : d = [r EXCEPT !.pc = "transcribe"]
  OBVIOUS
<1>9. PICK e : e = [d EXCEPT !.part = 1]
  OBVIOUS
<1>10. d \in RunRecords /\ SameKnowledge(r, d)
  BY <1>8 DEF RunRecords, PcStates, SameKnowledge
<1>11. SameKnowledge(r, e)
  BY <1>9, <1>10 DEF RunRecords, SameKnowledge
<1>12. e = [r EXCEPT !.pc = "transcribe", !.part = 1]
  BY <1>8, <1>9
<1> QED
  BY <1>6, <1>7, <1>11, <1>12 DEF NextStage

\* Also when the record was just marked with an asset or rid of its note.
LEMMA AfterStageSame ==
    ASSUME NEW r \in RunRecords, NEW s \in Stages
    PROVE  /\ SameKnowledge(r, NextStage(Got(r, s)))
           /\ SameKnowledge(r, NextStage([r EXCEPT !.seen = FALSE]))
<1>1. PICK a : a = Got(r, s)
  OBVIOUS
<1>2. PICK b : b = [r EXCEPT !.got = r.got \cup {s}]
  OBVIOUS
<1>3. a = [b EXCEPT !.seen = FALSE]
  BY <1>1, <1>2 DEF Got
<1>4. b.job = r.job /\ b.ok = r.ok /\ b.outcome = r.outcome
  BY <1>2 DEF RunRecords
<1>5. a \in RunRecords
  BY <1>1, GotTyped
<1>6. b \in RunRecords
  <2>1. r.got \cup {s} \in Inputs
    BY DEF RunRecords, Inputs
  <2> QED
    BY <1>2, <2>1 DEF RunRecords
<1>7. a.job = r.job /\ a.ok = r.ok /\ a.outcome = r.outcome
  BY <1>3, <1>4, <1>6 DEF RunRecords
<1>8. SameKnowledge(r, NextStage(a))
  BY <1>5, <1>7, NextStageSame DEF SameKnowledge
<1>9. PICK c : c = [r EXCEPT !.seen = FALSE]
  OBVIOUS
<1>10. c \in RunRecords /\ c.job = r.job /\ c.ok = r.ok /\ c.outcome = r.outcome
  BY <1>9 DEF RunRecords
<1>11. SameKnowledge(r, NextStage(c))
  BY <1>10, NextStageSame DEF SameKnowledge
<1> QED
  BY <1>1, <1>8, <1>9, <1>11

LEMMA ExtractionBehind ==
    ASSUME Typed, Behind, NEW w \in Workers,
           Context(w) \/ Lookup(w) \/ Extract(w) \/ Store(w)
    PROVE  Behind'
<1>1. run[w] \in RunRecords /\ InBounds(run[w]) /\ run[w].pc \notin Deciding \cup {"idle"}
      /\ UNCHANGED <<results, verdicts, corpus>>
  BY Busy DEF Typed, Context, Lookup, Extract, Store, tables, Deciding
<1>2. run[w].pc \in {"lookup", "extract", "store"} => Stage(w) \in Stages
  BY <1>1, StageNames DEF InBounds, RunRecords, Stage
<1>3. CASE End(w, "error") /\ UNCHANGED <<cache, tables>>
  BY <1>3, FailedBehind
<1>4. CASE UNCHANGED queue /\ \E x : Move(w, x) /\ SameKnowledge(run[w], x)
  BY <1>1, <1>4, ErrorIsPlain, QuietStep
<1>5. CASE Context(w)
  <2>1. SameKnowledge(run[w], [run[w] EXCEPT !.pc = "lookup"])
    BY <1>1 DEF RunRecords, SameKnowledge
  <2> QED
    BY <1>3, <1>4, <1>5, <2>1 DEF Context
<1>6. CASE Lookup(w)
  <2>1. SameKnowledge(run[w], NextStage(Got(run[w], Stage(w))))
    BY <1>1, <1>2, <1>6, AfterStageSame DEF Lookup
  <2>2. SameKnowledge(run[w], [run[w] EXCEPT !.pc = "extract", !.seen = run[w].job \in hash])
    <3>1. PICK a : a = [run[w] EXCEPT !.pc = "extract"]
      OBVIOUS
    <3>2. a \in RunRecords /\ SameKnowledge(run[w], a)
      BY <1>1, <3>1 DEF RunRecords, PcStates, SameKnowledge
    <3>3. PICK b : b = [a EXCEPT !.seen = run[w].job \in hash]
      OBVIOUS
    <3>4. SameKnowledge(run[w], b)
      BY <3>2, <3>3 DEF RunRecords, SameKnowledge
    <3> QED
      BY <3>1, <3>3, <3>4
  <2>3. \/ End(w, "error")
        \/ Move(w, NextStage(Got(run[w], Stage(w)))) /\ UNCHANGED queue
        \/ Move(w, [run[w] EXCEPT !.pc = "extract", !.seen = run[w].job \in hash])
           /\ UNCHANGED queue
    BY <1>6 DEF Lookup
  <2> QED
    BY <1>3, <1>4, <1>6, <2>1, <2>2, <2>3 DEF Lookup
<1>7. CASE Extract(w)
  <2>1. SameKnowledge(run[w], NextStage([run[w] EXCEPT !.seen = FALSE]))
    BY <1>1, <1>2, <1>7, AfterStageSame DEF Extract
  <2>2. SameKnowledge(run[w], [run[w] EXCEPT !.pc = "store"])
    BY <1>1 DEF RunRecords, SameKnowledge
  <2> QED
    BY <1>4, <1>7, <2>1, <2>2 DEF Extract
<1>8. CASE Store(w)
  <2>1. SameKnowledge(run[w], NextStage(Got(run[w], Stage(w))))
    BY <1>1, <1>2, <1>8, AfterStageSame DEF Store
  <2>2. SameKnowledge(run[w], [run[w] EXCEPT !.part = @ + 1])
    BY <1>1, <1>8 DEF RunRecords, SameKnowledge, Store
  <2>3. UNCHANGED queue
    BY <1>8 DEF Store
  <2>4. \/ Move(w, NextStage(Got(run[w], Stage(w))))
        \/ Move(w, [run[w] EXCEPT !.part = @ + 1])
    BY <1>8 DEF Store
  <2> QED
    BY <1>4, <2>1, <2>2, <2>3, <2>4
<1> QED
  BY <1>5, <1>6, <1>7, <1>8

LEMMA TranscribeBehind == ASSUME Typed, Behind, NEW w \in Workers, Transcribe(w) PROVE Behind'
<1>1. run[w] \in RunRecords /\ InBounds(run[w]) /\ run[w].job \in Jobs
      /\ run[w].pc \notin Deciding \cup {"idle"}
      /\ UNCHANGED <<results, verdicts, corpus>> /\ UNCHANGED queue
  BY Busy DEF Typed, Transcribe, tables, InBounds, Deciding
<1>2. \A r \in RunRecords : SameKnowledge(r, FirstPlugin(r))
  <2> SUFFICES ASSUME NEW r \in RunRecords PROVE SameKnowledge(r, FirstPlugin(r))
    OBVIOUS
  <2>1. PICK a : a = [r EXCEPT !.pc = "plugin"]
    OBVIOUS
  <2>2. a \in RunRecords /\ SameKnowledge(r, a)
    BY <2>1 DEF RunRecords, PcStates, SameKnowledge
  <2>3. PICK b : b = [a EXCEPT !.at = 1]
    OBVIOUS
  <2>4. SameKnowledge(r, b)
    BY <2>2, <2>3 DEF RunRecords, SameKnowledge
  <2> QED
    BY <2>1, <2>3, <2>4 DEF FirstPlugin
<1>3. PICK h : h = [run[w] EXCEPT !.got = @ \cup {"transcript"}]
  OBVIOUS
<1>4. h \in RunRecords /\ h.job = run[w].job /\ h.ok = run[w].ok /\ h.outcome = run[w].outcome
  <2>1. run[w].got \cup {"transcript"} \in Inputs
    BY <1>1 DEF RunRecords, Inputs
  <2> QED
    BY <1>1, <1>3, <2>1 DEF RunRecords
<1>5. SameKnowledge(run[w], FirstPlugin(h)) /\ SameKnowledge(run[w], FirstPlugin(run[w]))
  BY <1>1, <1>2, <1>4 DEF SameKnowledge
<1>6. Move(w, FirstPlugin(h)) \/ Move(w, FirstPlugin(run[w]))
  BY <1>3 DEF Transcribe
<1> QED
  BY <1>1, <1>5, <1>6, ErrorIsPlain, QuietStep

LEMMA ConsultBehind == ASSUME Typed, Behind, NEW w \in Workers, Consult(w) PROVE Behind'
<1> DEFINE p == Plugins[run[w].at]
<1>1. /\ run[w] \in RunRecords /\ InBounds(run[w]) /\ run[w].job \in Jobs /\ p \in PluginSet
      /\ run[w].pc = "plugin" /\ run[w].pc \notin Deciding \cup {"idle"} /\ Backed(run[w])
      /\ UNCHANGED <<results, verdicts, corpus>> /\ UNCHANGED queue
  BY AtPlugin DEF Consult, Typed, tables, Deciding, Behind
<1>2. CASE run[w].got \in results[run[w].job][p]
           /\ Move(w, [run[w] EXCEPT !.at = @ + 1, !.ok = @ \cup {p}])
  <2>1. PICK x : x = [run[w] EXCEPT !.at = @ + 1, !.ok = @ \cup {p}]
    OBVIOUS
  <2>2. x = [run[w] EXCEPT !.pc = "plugin", !.at = @ + 1, !.ok = @ \cup {p}]
    BY <1>1, <2>1, ConsultedBy
  <2>3. /\ x.pc = "plugin" /\ x.job = run[w].job /\ x.outcome = run[w].outcome
        /\ x.ok = run[w].ok \cup {p}
    BY <1>1, <2>2, AnsweredBy
  <2>4. p \in Witnesses(run[w].job)
    BY <1>1, <1>2 DEF Witnesses
  <2>5. Backed(x)'
    <3>1. Witnesses(x.job)' = Witnesses(run[w].job)
      BY <1>1, <2>3 DEF Witnesses
    <3>2. x.ok \subseteq Witnesses(x.job)' /\ x.outcome = "none"
      BY <1>1, <2>3, <2>4, <3>1 DEF Backed
    <3> QED
      BY <2>3, <3>2 DEF Backed
  <2>6. Move(w, x)
    BY <1>2, <2>1
  <2> QED
    BY <1>1, <2>5, <2>6, SameGrows, ErrorIsPlain, StillBacked, StillBehind
<1>3. CASE Move(w, Abstain(run[w]))
  <2>1. PICK x : x = [run[w] EXCEPT !.at = @ + 1]
    OBVIOUS
  <2>2. x = [run[w] EXCEPT !.pc = "plugin", !.at = @ + 1]
    BY <1>1, <2>1, ConsultedBy
  <2>3. SameKnowledge(run[w], x)
    BY <1>1, <2>2, MovedOn DEF SameKnowledge
  <2> QED
    BY <1>1, <1>3, <2>1, <2>3, ErrorIsPlain, QuietStep DEF Abstain
<1>4. CASE Move(w, [run[w] EXCEPT !.pc = "identify"])
  <2>1. SameKnowledge(run[w], [run[w] EXCEPT !.pc = "identify"])
    BY <1>1 DEF RunRecords, SameKnowledge
  <2> QED
    BY <1>1, <1>4, <2>1, ErrorIsPlain, QuietStep
<1> QED
  BY <1>2, <1>3, <1>4 DEF Consult

LEMMA IdentifyBehind == ASSUME Typed, Behind, NEW w \in Workers, Identify(w) PROVE Behind'
<1> DEFINE p == Plugins[run[w].at]
<1>1. /\ run[w] \in RunRecords /\ InBounds(run[w]) /\ run[w].job \in Jobs
      /\ run[w].pc = "identify" /\ run[w].at <= Len(Plugins)
      /\ run[w].pc \notin Deciding \cup {"idle"} /\ Backed(run[w])
      /\ UNCHANGED <<verdicts, corpus>> /\ UNCHANGED queue
  BY Busy DEF Identify, Typed, InBounds, Runs, Deciding, Behind
<1>2. p \in PluginSet
  BY <1>1, AtPlugin DEF Typed
<1>3. CASE /\ results' = [results EXCEPT ![run[w].job][p] = @ \cup {run[w].got}]
           /\ Move(w, [run[w] EXCEPT !.pc = "plugin", !.at = @ + 1, !.ok = @ \cup {p}])
  <2>1. PICK x : x = [run[w] EXCEPT !.pc = "plugin", !.at = @ + 1, !.ok = @ \cup {p}]
    OBVIOUS
  <2>2. /\ x.pc = "plugin" /\ x.job = run[w].job /\ x.outcome = run[w].outcome
        /\ x.ok = run[w].ok \cup {p}
    BY <1>1, <1>2, <2>1, AnsweredBy
  <2>3. \A j \in Jobs, q \in PluginSet : results[j][q] \subseteq results'[j][q]
    BY <1>1, <1>2, <1>3 DEF Typed, Tables
  <2>4. Grows /\ NewIsBacked
    <3>1. \A j \in Jobs : Witnesses(j) \subseteq Witnesses(j)'
      BY <2>3 DEF Witnesses
    <3> QED
      BY <1>1, <3>1 DEF Grows, NewIsBacked
  <2>5. run[w].got \in results'[run[w].job][p]
    BY <1>1, <1>2, <1>3 DEF Typed, Tables
  <2>6. p \in Witnesses(x.job)' /\ run[w].ok \subseteq Witnesses(x.job)'
    <3>1. p \in Witnesses(x.job)'
      BY <1>2, <2>2, <2>5 DEF Witnesses
    <3>2. PICK j \in Jobs : j = run[w].job /\ j = x.job
      BY <1>1, <2>2
    <3>3. run[w].ok \subseteq Witnesses(j) /\ Witnesses(j) \subseteq Witnesses(j)'
      BY <1>1, <2>4, <3>2 DEF Backed, Grows
    <3>4. Witnesses(j)' = Witnesses(x.job)'
      BY <3>2 DEF Witnesses
    <3> QED
      BY <3>1, <3>3, <3>4
  <2>7. Backed(x)'
    <3>1. x.outcome = "none"
      BY <1>1, <2>2 DEF Backed
    <3> QED
      BY <2>2, <2>6, <3>1 DEF Backed
  <2>8. Move(w, x)
    BY <1>3, <2>1
  <2> QED
    BY <1>1, <2>4, <2>7, <2>8, ErrorIsPlain, StillBacked, StillBehind
<1>4. CASE Move(w, [run[w] EXCEPT !.pc = "plugin", !.at = @ + 1]) /\ UNCHANGED results
  <2>1. SameKnowledge(run[w], [run[w] EXCEPT !.pc = "plugin", !.at = @ + 1])
    BY <1>1, MovedOn DEF SameKnowledge
  <2> QED
    BY <1>1, <1>4, <2>1, ErrorIsPlain, QuietStep
<1> QED
  BY <1>3, <1>4 DEF Identify

LEMMA DecideBehind == ASSUME Typed, Behind, NEW w \in Workers, Decide(w) PROVE Behind'
<1>1. /\ run[w] \in RunRecords /\ InBounds(run[w]) /\ run[w].job \in Jobs /\ Backed(run[w])
      /\ UNCHANGED <<results, corpus>> /\ UNCHANGED queue
  BY Busy DEF Typed, Decide, InBounds, Behind
<1>2. PICK o \in RouteOutcomes(run[w].ok) :
          /\ verdicts' = NewVerdictRow(run[w].job, o)
          /\ Move(w, [run[w] EXCEPT !.outcome = o,
                                    !.pc = IF o = "remediate" THEN "remediate" ELSE "release"])
  BY DEF Decide
<1>3. PICK c : c = IF o = "remediate" THEN "remediate" ELSE "release"
  OBVIOUS
<1>4. PICK y : y = [run[w] EXCEPT !.outcome = o]
  OBVIOUS
<1>5. PICK x : x = [y EXCEPT !.pc = c]
  OBVIOUS
<1>6. Move(w, x)
  BY <1>2, <1>3, <1>4, <1>5
<1>7. x.pc = c /\ x.outcome = o /\ x.job = run[w].job /\ x.ok = run[w].ok
  <2>1. o \in Outcomes
    BY <1>2 DEF RouteOutcomes, Outcomes, Routed
  <2>2. y \in RunRecords /\ y.outcome = o /\ y.job = run[w].job /\ y.ok = run[w].ok
    BY <1>1, <1>4, <2>1 DEF RunRecords
  <2> QED
    BY <1>5, <2>2 DEF RunRecords
<1>8. Grows /\ o \in verdicts'[run[w].job]
  <2>1. \A j \in Jobs : Witnesses(j) \subseteq Witnesses(j)'
    BY <1>1 DEF Witnesses
  <2> QED
    BY <1>1, <1>2, <2>1 DEF Grows, NewVerdictRow, Typed, Tables
<1>9. PICK j \in Jobs : j = run[w].job
  BY <1>1
<1>10. x.ok \subseteq Witnesses(x.job)' /\ run[w].ok \subseteq Witnesses(j)
  BY <1>1, <1>7, <1>9 DEF Backed, Witnesses
<1>11. Backed(x)'
  <2>1. c \in Deciding /\ c # "idle" /\ (c = "remediate" => o = "remediate")
    BY <1>3 DEF Deciding
  <2> QED
    BY <1>2, <1>7, <1>8, <1>10, <2>1 DEF Backed
<1>12. NewIsBacked
  <2>1. run[w].ok \in SUBSET PluginSet
    BY <1>1 DEF RunRecords
  <2>2. o = "remediate" => Enough(j)
    BY <1>2, <1>10, <2>1, OutcomeBacked
  <2>3. Enough(j)' <=> Enough(j)
    BY <1>1 DEF Enough, Witnesses
  <2>4. \A k \in Jobs : verdicts'[k] = IF k = j THEN verdicts[k] \cup {o} ELSE verdicts[k]
    BY <1>2, <1>9 DEF NewVerdictRow, Typed, Tables
  <2> QED
    BY <2>2, <2>3, <2>4 DEF NewIsBacked
<1> QED
  BY <1>1, <1>6, <1>8, <1>11, <1>12, ErrorIsPlain, StillBacked, StillBehind

\* A step that gives a job the status its run has evidence and a verdict for.
LEMMA SettledBehind ==
    ASSUME Typed, Behind, NEW w \in Workers, NEW s, NEW x, Move(w, x), Backed(x)',
           Release(w, s), UNCHANGED <<results, verdicts, corpus>>, run[w].job \in Jobs,
           s \in {"matched", "quarantine", "remediated"} => Witnesses(run[w].job) # {},
           s \in Routed \cup {"remediated"} => verdicts[run[w].job] \cap Explains(s) # {}
    PROVE  Behind'
<1>1. \A v \in Workers : Backed(run[v])'
  BY SameGrows, StillBacked
<1>2. \A j \in Jobs : status'[j] = IF j = run[w].job THEN s ELSE status[j]
  BY DEF Release, Typed, Queue
<1>3. EvidenceBehindStatus'
  <2>1. \A j \in Jobs : Witnesses(j)' = Witnesses(j)
    BY DEF Witnesses
  <2> QED
    BY <1>2, <2>1 DEF EvidenceBehindStatus, Behind
<1>4. VerdictBehindStatus'
  <2> SUFFICES ASSUME NEW j \in Jobs, status'[j] \in Routed \cup {"remediated"}
               PROVE  verdicts'[j] \cap Explains(status'[j]) # {}
    BY DEF VerdictBehindStatus, Explains
  <2> QED
    BY <1>2 DEF Behind, VerdictBehindStatus
<1> QED
  BY <1>1, <1>3, <1>4 DEF Behind

LEMMA EndingBehind ==
    ASSUME Typed, Behind, NEW w \in Workers, ReleaseRouted(w) \/ Remediate(w)
    PROVE  Behind'
<1>1. /\ run[w] \in RunRecords /\ InBounds(run[w]) /\ run[w].job \in Jobs /\ Backed(run[w])
      /\ run[w].pc \in {"release", "remediate"} /\ UNCHANGED <<results, verdicts, corpus>>
  BY Busy DEF Typed, ReleaseRouted, Remediate, InBounds, Behind, tables
<1>0. PICK x : x = [run[w] EXCEPT !.pc = "corpus"]
  OBVIOUS
<1>2. Backed(x)'
  <2>1. x.pc = "corpus" /\ x.job = run[w].job /\ x.ok = run[w].ok /\ x.outcome = run[w].outcome
    BY <1>0, <1>1 DEF RunRecords
  <2>2. Witnesses(x.job)' = Witnesses(run[w].job)
    BY <1>1, <2>1 DEF Witnesses
  <2> QED
    BY <1>1, <2>1, <2>2 DEF Backed, Deciding
<1>6. /\ run[w].outcome \in {"matched", "quarantine", "remediate"} => Witnesses(run[w].job) # {}
      /\ run[w].outcome \in Outcomes
  <2>1. run[w].outcome \in RouteOutcomes(run[w].ok) /\ run[w].ok \in SUBSET PluginSet
    BY <1>1 DEF Backed, InBounds, RunRecords, Outcomes, Routed
  <2> QED
    BY <1>1, <2>1, OutcomeBacked DEF Backed, InBounds
<1>3. CASE ReleaseRouted(w) /\ HasLease(w)
  <2>1. run[w].outcome \in Routed
    BY <1>1, <1>3 DEF InBounds, ReleaseRouted
  <2>2. run[w].outcome \in {"matched", "quarantine"} => Witnesses(run[w].job) # {}
    BY <1>6
  <2>3. verdicts[run[w].job] \cap Explains(run[w].outcome) # {}
    BY <1>1, <2>1 DEF Backed, Explains, Routed
  <2>4. run[w].outcome # "remediated"
    BY <2>1 DEF Routed
  <2>5. Release(w, run[w].outcome) /\ Move(w, x)
    BY <1>0, <1>3 DEF ReleaseRouted
  <2> QED
    BY <1>1, <1>2, <2>2, <2>3, <2>4, <2>5, SettledBehind
<1>4. CASE ReleaseRouted(w) /\ ~HasLease(w)
  <2>1. Move(w, Idle) /\ UNCHANGED queue
    BY <1>4 DEF ReleaseRouted
  <2> QED
    BY <1>1, <2>1, ErrorIsPlain, QuietStep
<1>5. CASE Remediate(w)
  <2>1. PICK s \in {"remediated", "quarantine", "error"} : Release(w, s)
    BY <1>5 DEF Remediate
  <2>2. run[w].outcome = "remediate" /\ "remediate" \in verdicts[run[w].job]
    BY <1>1, <1>5 DEF Backed, Remediate
  <2>3. Witnesses(run[w].job) # {}
    BY <1>6, <2>2
  <2>4. s \in Routed \cup {"remediated"} => verdicts[run[w].job] \cap Explains(s) # {}
    BY <2>1, <2>2 DEF Explains, Routed
  <2>5. Move(w, x)
    BY <1>0, <1>5 DEF Remediate
  <2> QED
    BY <1>1, <1>2, <2>1, <2>3, <2>4, <2>5, SettledBehind
<1> QED
  BY <1>3, <1>4, <1>5

LEMMA CorpusBehind == ASSUME Typed, Behind, NEW w \in Workers, WriteCorpus(w) PROVE Behind'
<1>1. /\ run[w] \in RunRecords /\ InBounds(run[w]) /\ run[w].job \in Jobs /\ Backed(run[w])
      /\ UNCHANGED <<results, verdicts, status>> /\ Move(w, Idle)
  BY Busy DEF Typed, WriteCorpus, InBounds, Behind, queue
<1>2. \A v \in Workers : Backed(run[v])'
  BY <1>1, SameGrows, IdleBacked, StillBacked
<1>3. \/ UNCHANGED corpus
      \/ corpus' = corpus \cup {run[w].job} /\ Witnesses(run[w].job) # {}
  <2>1. run[w].outcome \in {"matched", "remediate"} => Witnesses(run[w].job) # {}
    <3>1. run[w].outcome # "none" => run[w].outcome \in RouteOutcomes(run[w].ok)
      BY <1>1 DEF Backed
    <3>2. run[w].ok \in SUBSET PluginSet /\ run[w].ok \subseteq Witnesses(run[w].job)
      BY <1>1 DEF RunRecords, Backed
    <3> QED
      BY <3>1, <3>2, OutcomeBacked
  <2> QED
    BY <2>1 DEF WriteCorpus
<1>4. EvidenceBehindStatus'
  <2>1. \A j \in Jobs : Witnesses(j)' = Witnesses(j)
    BY <1>1 DEF Witnesses
  <2> QED
    BY <1>1, <1>3, <2>1 DEF EvidenceBehindStatus, Behind
<1>5. VerdictBehindStatus'
  BY <1>1 DEF VerdictBehindStatus, Behind
<1> QED
  BY <1>2, <1>4, <1>5 DEF Behind

LEMMA AroundBehind ==
    ASSUME Typed, Behind,
           \/ \E w \in Workers, j \in Jobs : Claim(w, j)
           \/ \E w \in Workers : AllFailed(w) \/ Raises(w) \/ CancelLost(w)
           \/ \E j \in Jobs : Requeue(j)
           \/ NewDay \/ Crash
    PROVE  Behind'
<1>1. ASSUME NEW w \in Workers, NEW j \in Jobs, Claim(w, j) PROVE Behind'
  <2>1. PICK x : x = [Idle EXCEPT !.pc = "context", !.job = j]
    OBVIOUS
  <2>2. x.pc = "context" /\ x.ok = {} /\ x.outcome = "none"
    BY <2>1 DEF Idle
  <2>3. Backed(x)'
    BY <2>2 DEF Backed
  <2>4. \A k \in Jobs : status'[k] = status[k] \/ status'[k] \in Plain
    BY <1>1 DEF Claim, Typed, Queue, Plain
  <2>5. UNCHANGED <<results, verdicts, corpus>> /\ Move(w, x)
    BY <1>1, <2>1 DEF Claim, tables
  <2> QED
    BY <2>3, <2>4, <2>5, SameGrows, StillBacked, StillBehind
<1>2. ASSUME NEW w \in Workers, AllFailed(w) \/ Raises(w) PROVE Behind'
  BY <1>2, FailedBehind DEF AllFailed, Raises
<1>3. ASSUME NEW w \in Workers, CancelLost(w) PROVE Behind'
  BY <1>3, ErrorIsPlain, QuietStep DEF CancelLost, tables
<1>4. ASSUME NEW j \in Jobs, Requeue(j) PROVE Behind'
  <2>1. \A k \in Jobs : status'[k] = status[k] \/ status'[k] \in Plain
    BY <1>4 DEF Requeue, Typed, Queue, Plain
  <2>2. UNCHANGED <<results, verdicts, corpus, run>>
    BY <1>4 DEF Requeue, tables
  <2>3. \A w \in Workers : Backed(run[w])'
    BY <2>2 DEF Behind, Backed, Witnesses
  <2> QED
    BY <2>1, <2>2, <2>3, SameGrows, StillBehind
<1>5. CASE NewDay
  <2>1. UNCHANGED <<results, verdicts, corpus, run>> /\ UNCHANGED status
    BY <1>5 DEF NewDay, queue
  <2>2. \A w \in Workers : Backed(run[w])'
    BY <2>1 DEF Behind, Backed, Witnesses
  <2> QED
    BY <2>1, <2>2, SameGrows, StillBehind
<1>6. CASE Crash
  <2>1. UNCHANGED <<results, verdicts, corpus, status>> /\ run' = [w \in Workers |-> Idle]
    BY <1>6 DEF Crash, queue, tables
  <2>2. \A w \in Workers : Backed(run[w])'
    BY <2>1, IdleBacked
  <2> QED
    BY <2>1, <2>2, SameGrows, StillBehind
<1> QED
  BY <1>1, <1>2, <1>3, <1>4, <1>5, <1>6

LEMMA StepBehind == Typed /\ Behind /\ [Next]_vars => Behind'
<1> SUFFICES ASSUME Typed, Behind, [Next]_vars PROVE Behind'
  OBVIOUS
<1>1. CASE UNCHANGED vars
  <2>1. UNCHANGED <<results, verdicts, corpus, run, status>>
    BY <1>1 DEF vars, queue, tables
  <2>2. \A w \in Workers : Backed(run[w])'
    BY <2>1 DEF Behind, Backed, Witnesses
  <2> QED
    BY <2>1, <2>2, SameGrows, StillBehind
<1>2. CASE Next
  BY <1>2, ExtractionBehind, TranscribeBehind, ConsultBehind, IdentifyBehind, DecideBehind,
     EndingBehind, CorpusBehind, AroundBehind DEF Next, Run
<1> QED
  BY <1>1, <1>2

LEMMA InitBehind == Init => Behind
<1> SUFFICES ASSUME Init PROVE Behind
  OBVIOUS
<1>1. \A w \in Workers : Backed(run[w])
  BY IdleBacked DEF Init
<1>2. \A j \in Jobs : status[j] = "pending" /\ verdicts[j] = {} /\ corpus = {}
  BY DEF Init
<1> QED
  BY <1>1, <1>2 DEF Behind, EvidenceBehindStatus, VerdictBehindStatus, Routed

\* However caches, budgets, reaped leases, reruns and crashes interleave, a
\* job is settled or entered in the corpus only on a stored answer about it.
THEOREM EvidenceHolds == Spec => []EvidenceBehindStatus
<1>1. Behind => EvidenceBehindStatus
  BY DEF Behind
<1> QED
  BY <1>1, InitTyped, StepTyped, InitBehind, StepBehind, PTL DEF Spec

\* Whatever worker settled it, a settled job has the verdict row that explains
\* its status.
THEOREM VerdictHolds == Spec => []VerdictBehindStatus
<1>1. Behind => VerdictBehindStatus
  BY DEF Behind
<1> QED
  BY <1>1, InitTyped, StepTyped, InitBehind, StepBehind, PTL DEF Spec

-----------------------------------------------------------------------------
(* The daily budget *)

\* The executions of p begun and not yet counted.
Begun(p) == {w \in Workers : run[w].pc = "identify" /\ Plugins[run[w].at] = p}

\* What is counted and what is begun, together.
Ledger(p) ==
    Budget[p] # NoBudget =>
        /\ Budget[p] = 0 => today[p] = 0 /\ Begun(p) = {}
        /\ Budget[p] > 0 => today[p] + Cardinality(Begun(p)) < Budget[p] + Cardinality(Workers)

WithinBudget == \A p \in PluginSet : Ledger(p)

LEMMA WorkersCount == Cardinality(Workers) \in Nat /\ Cardinality(Workers) > 0
<1>1. Cardinality(Workers) \in Nat /\ (Cardinality(Workers) = 0 <=> Workers = {})
  BY WorkersAssumption, FS_CardinalityType, FS_EmptySet
<1> QED
  BY <1>1, WorkersAssumption

LEMMA BegunCount ==
    ASSUME NEW S \in SUBSET Workers, NEW T \in SUBSET S
    PROVE  /\ IsFiniteSet(S) /\ Cardinality(S) \in Nat /\ Cardinality(T) \in Nat
           /\ Cardinality(T) <= Cardinality(S) /\ Cardinality(S) <= Cardinality(Workers)
<1>1. IsFiniteSet(S) /\ Cardinality(S) <= Cardinality(Workers)
  BY WorkersAssumption, FS_Subset
<1>2. Cardinality(T) <= Cardinality(S) /\ IsFiniteSet(T)
  BY <1>1, FS_Subset
<1> QED
  BY <1>1, <1>2, FS_CardinalityType

\* A step that begins no execution, and counts none.
LEMMA NothingBegun ==
    ASSUME Typed, WithinBudget, \A p \in PluginSet : Begun(p)' \subseteq Begun(p),
           today' = today \/ today' = [p \in PluginSet |-> 0]
    PROVE  WithinBudget'
<1> SUFFICES ASSUME NEW p \in PluginSet PROVE Ledger(p)'
  BY DEF WithinBudget
<1>1. today[p] \in Nat /\ today'[p] \in Nat /\ today'[p] <= today[p]
  BY DEF Typed, Tables
<1>2. Begun(p) \in SUBSET Workers /\ Begun(p)' \in SUBSET Begun(p)
  BY DEF Begun
<1>3. /\ Cardinality(Begun(p)) \in Nat /\ Cardinality(Begun(p)') \in Nat
      /\ Cardinality(Begun(p)') <= Cardinality(Begun(p))
  BY <1>2, BegunCount
<1>4. Budget[p] # NoBudget => Budget[p] \in Nat
  BY BudgetAssumption
<1>5. Ledger(p)
  BY DEF WithinBudget
<1>6. Budget[p] # NoBudget => (Budget[p] = 0 => today'[p] = 0 /\ Begun(p)' = {})
  BY <1>1, <1>2, <1>5 DEF Ledger
<1>7. Budget[p] # NoBudget =>
         (Budget[p] > 0 => today'[p] + Cardinality(Begun(p)') < Budget[p] + Cardinality(Workers))
  BY <1>1, <1>3, <1>4, <1>5, WorkersCount DEF Ledger
<1> QED
  BY <1>6, <1>7 DEF Ledger

LEMMA NotBegun ==
    ASSUME Typed, NEW w \in Workers, NEW x, Move(w, x), x.pc # "identify", NEW p \in PluginSet
    PROVE  Begun(p)' \subseteq Begun(p)
<1>1. run'[w] = x /\ \A v \in Workers \ {w} : run'[v] = run[v]
  BY DEF Typed, Runs, Move
<1>2. ASSUME NEW v \in Workers, run'[v].pc = "identify" PROVE run'[v] = run[v]
  BY <1>1, <1>2
<1> QED
  BY <1>2 DEF Begun

LEMMA StagesBeginNothing ==
    ASSUME NEW r \in RunRecords
    PROVE  NextStage(r).pc # "identify" /\ FirstPlugin(r).pc # "identify" /\ Idle.pc # "identify"
<1>1. PICK a : a = [r EXCEPT !.pc = "lookup"]
  OBVIOUS
<1>2. PICK b : b = [a EXCEPT !.at = r.at + 1]
  OBVIOUS
<1>3. PICK c : c = [b EXCEPT !.part = 1]
  OBVIOUS
<1>4. a \in RunRecords /\ a.pc = "lookup"
  BY <1>1 DEF RunRecords, PcStates
<1>5. b \in RunRecords /\ b.pc = "lookup"
  BY <1>2, <1>4 DEF RunRecords
<1>6. c.pc = "lookup"
  BY <1>3, <1>5 DEF RunRecords
<1>7. c = [r EXCEPT !.pc = "lookup", !.at = @ + 1, !.part = 1]
  BY <1>1, <1>2, <1>3
<1>8. PICK d : d = [r EXCEPT !.pc = "transcribe"]
  OBVIOUS
<1>9. d \in RunRecords /\ d.pc = "transcribe"
  BY <1>8 DEF RunRecords, PcStates
<1>10. PICK e : e = [d EXCEPT !.part = 1]
  OBVIOUS
<1>11. e.pc = "transcribe" /\ e = [r EXCEPT !.pc = "transcribe", !.part = 1]
  BY <1>8, <1>9, <1>10 DEF RunRecords
<1>12. PICK f : f = [r EXCEPT !.pc = "plugin"]
  OBVIOUS
<1>13. f \in RunRecords /\ f.pc = "plugin"
  BY <1>12 DEF RunRecords, PcStates
<1>14. PICK g : g = [f EXCEPT !.at = 1]
  OBVIOUS
<1>15. g.pc = "plugin" /\ g = [r EXCEPT !.pc = "plugin", !.at = 1]
  BY <1>12, <1>13, <1>14 DEF RunRecords
<1> QED
  BY <1>6, <1>7, <1>11, <1>15 DEF NextStage, FirstPlugin, Idle

\* The other steps of a run.
LEMMA OthersBeginNothing ==
    ASSUME Typed, NEW w \in Workers, Run(w), ~Consult(w), ~Identify(w)
    PROVE  today' = today /\ \E x : Move(w, x) /\ x.pc # "identify"
<1>1. run[w] \in RunRecords /\ InBounds(run[w])
  BY Busy DEF Typed
<1>2. CASE Context(w) \/ Raises(w) \/ AllFailed(w) \/ CancelLost(w)
  BY <1>1, <1>2, StagesBeginNothing
     DEF Context, Raises, AllFailed, CancelLost, End, tables, budget, RunRecords
<1>3. CASE Lookup(w) \/ Extract(w) \/ Store(w)
  <2>1. Stage(w) \in Stages
    <3>1. run[w].pc \in {"lookup", "extract", "store"}
      BY <1>3 DEF Lookup, Extract, Store
    <3> QED
      BY <1>1, <3>1, StageNames DEF InBounds, RunRecords, Stage
  <2>2. Got(run[w], Stage(w)) \in RunRecords /\ [run[w] EXCEPT !.seen = FALSE] \in RunRecords
    BY <1>1, <2>1, GotTyped DEF RunRecords
  <2>3. NextStage(Got(run[w], Stage(w))).pc # "identify"
        /\ NextStage([run[w] EXCEPT !.seen = FALSE]).pc # "identify" /\ Idle.pc # "identify"
    BY <2>2, StagesBeginNothing
  <2>4. [run[w] EXCEPT !.pc = "extract", !.seen = run[w].job \in hash].pc # "identify"
    <3>1. PICK a : a = [run[w] EXCEPT !.pc = "extract"]
      OBVIOUS
    <3>2. a \in RunRecords /\ a.pc = "extract"
      BY <1>1, <3>1 DEF RunRecords, PcStates
    <3>3. PICK b : b = [a EXCEPT !.seen = run[w].job \in hash]
      OBVIOUS
    <3>4. b.pc = "extract"
      BY <3>2, <3>3 DEF RunRecords
    <3> QED
      BY <3>1, <3>3, <3>4
  <2>5. [run[w] EXCEPT !.pc = "store"].pc # "identify"
    BY <1>1 DEF RunRecords
  <2>6. run[w].pc = "store" => [run[w] EXCEPT !.part = @ + 1].pc # "identify"
    BY <1>1 DEF RunRecords
  <2>7. today' = today
    BY <1>3 DEF Lookup, Extract, Store, tables, budget
  <2>8. \/ Move(w, Idle)
        \/ Move(w, NextStage(Got(run[w], Stage(w))))
        \/ Move(w, [run[w] EXCEPT !.pc = "extract", !.seen = run[w].job \in hash])
        \/ Move(w, [run[w] EXCEPT !.pc = "store"])
        \/ Move(w, NextStage([run[w] EXCEPT !.seen = FALSE]))
        \/ run[w].pc = "store" /\ Move(w, [run[w] EXCEPT !.part = @ + 1])
    BY <1>3 DEF Lookup, Extract, Store, End
  <2> QED
    BY <2>3, <2>4, <2>5, <2>6, <2>7, <2>8
<1>4. CASE Transcribe(w)
  <2>1. [run[w] EXCEPT !.got = @ \cup {"transcript"}] \in RunRecords
    <3>1. run[w].got \cup {"transcript"} \in Inputs
      BY <1>1 DEF RunRecords, Inputs
    <3> QED
      BY <1>1, <3>1 DEF RunRecords
  <2> QED
    BY <1>1, <1>4, <2>1, StagesBeginNothing DEF Transcribe, tables, budget
<1>5. CASE Decide(w)
  <2>1. PICK o : Move(w, [run[w] EXCEPT !.outcome = o,
                                       !.pc = IF o = "remediate" THEN "remediate" ELSE "release"])
                 /\ o \in RouteOutcomes(run[w].ok)
    BY <1>5 DEF Decide
  <2>2. PICK c : c = IF o = "remediate" THEN "remediate" ELSE "release"
    OBVIOUS
  <2>3. PICK y : y = [run[w] EXCEPT !.outcome = o]
    OBVIOUS
  <2>4. PICK x : x = [y EXCEPT !.pc = c]
    OBVIOUS
  <2>5. y \in RunRecords
    BY <1>1, <2>1, <2>3 DEF RunRecords, RouteOutcomes, Outcomes, Routed
  <2>6. x.pc = c
    BY <2>4, <2>5 DEF RunRecords
  <2>7. Move(w, x)
    BY <2>1, <2>2, <2>3, <2>4
  <2> QED
    BY <1>5, <2>2, <2>6, <2>7 DEF Decide, budget
<1>6. CASE ReleaseRouted(w) \/ Remediate(w) \/ WriteCorpus(w)
  <2>1. [run[w] EXCEPT !.pc = "corpus"].pc # "identify"
    BY <1>1 DEF RunRecords
  <2> QED
    BY <1>1, <1>6, <2>1, StagesBeginNothing DEF ReleaseRouted, Remediate, WriteCorpus, tables, budget
<1> QED
  BY <1>2, <1>3, <1>4, <1>5, <1>6 DEF Run

LEMMA ConsultBudget ==
    ASSUME Typed, WithinBudget, NEW w \in Workers, Consult(w)
    PROVE  WithinBudget'
<1> DEFINE q == Plugins[run[w].at]
<1>1. /\ run[w] \in RunRecords /\ InBounds(run[w]) /\ run[w].job \in Jobs
      /\ q \in PluginSet /\ run[w].pc = "plugin" /\ today' = today
  BY AtPlugin DEF Consult, Typed, tables, budget
<1>2. CASE \E x : Move(w, x) /\ x.pc # "identify"
  BY <1>1, <1>2, NotBegun, NothingBegun
<1>3. CASE Move(w, [run[w] EXCEPT !.at = @ + 1, !.ok = @ \cup {q}])
  <2>1. PICK x : x = [run[w] EXCEPT !.at = @ + 1, !.ok = @ \cup {q}]
    OBVIOUS
  <2>2. x = [run[w] EXCEPT !.pc = "plugin", !.at = @ + 1, !.ok = @ \cup {q}]
    BY <1>1, <2>1, ConsultedBy
  <2>3. x.pc = "plugin"
    BY <1>1, <2>2, AnsweredBy
  <2> QED
    BY <1>2, <1>3, <2>1, <2>3
<1>4. CASE Move(w, Abstain(run[w]))
  <2>1. Abstain(run[w]).pc = "plugin"
    BY <1>1 DEF Abstain, RunRecords
  <2> QED
    BY <1>2, <1>4, <2>1
<1>5. CASE ~Spent(q) /\ Move(w, [run[w] EXCEPT !.pc = "identify"])
  <2> SUFFICES ASSUME NEW p \in PluginSet PROVE Ledger(p)'
    BY DEF WithinBudget
  <2>1. PICK x : x = [run[w] EXCEPT !.pc = "identify"]
    OBVIOUS
  <2>2. x.pc = "identify" /\ x.at = run[w].at
    BY <1>1, <2>1 DEF RunRecords
  <2>3. run'[w] = x /\ \A v \in Workers \ {w} : run'[v] = run[v]
    BY <1>5, <2>1 DEF Typed, Runs, Move
  <2>4. Ledger(p) /\ (Budget[p] # NoBudget => Budget[p] \in Nat) /\ today[p] \in Nat
    BY BudgetAssumption DEF WithinBudget, Typed, Tables
  <2>5. CASE p = q
    <3>1. Budget[p] # NoBudget => today[p] < Budget[p]
      BY <1>5, <2>4, <2>5 DEF Spent
    <3>2. Begun(p)' \in SUBSET Workers
      BY DEF Begun
    <3>3. Cardinality(Begun(p)') \in Nat /\ Cardinality(Begun(p)') <= Cardinality(Workers)
      BY <3>2, BegunCount
    <3>4. Budget[p] # NoBudget =>
            Budget[p] > 0 /\ today[p] + Cardinality(Begun(p)') < Budget[p] + Cardinality(Workers)
      BY <2>4, <3>1, <3>3, WorkersCount
    <3> QED
      BY <1>1, <2>4, <3>4 DEF Ledger
  <2>6. CASE p # q
    <3>1. Begun(p)' = Begun(p)
      BY <1>1, <2>2, <2>3, <2>6 DEF Begun
    <3> QED
      BY <1>1, <2>4, <3>1 DEF Ledger
  <2> QED
    BY <2>5, <2>6
<1> QED
  BY <1>3, <1>4, <1>5 DEF Consult

LEMMA IdentifyBudget ==
    ASSUME Typed, WithinBudget, NEW w \in Workers, Identify(w)
    PROVE  WithinBudget'
<1> DEFINE q == Plugins[run[w].at]
<1>1. /\ run[w] \in RunRecords /\ InBounds(run[w]) /\ run[w].job \in Jobs
      /\ run[w].pc = "identify" /\ run[w].at <= Len(Plugins)
  BY Busy DEF Identify, Typed, InBounds, Runs
<1>2. q \in PluginSet
  BY <1>1, AtPlugin DEF Typed
<1>3. PICK x : /\ Move(w, x)
               /\ \/ x = [run[w] EXCEPT !.pc = "plugin", !.at = @ + 1]
                  \/ x = [run[w] EXCEPT !.pc = "plugin", !.at = @ + 1, !.ok = @ \cup {q}]
  BY DEF Identify
<1>4. x.pc = "plugin"
  <2>1. CASE x = [run[w] EXCEPT !.pc = "plugin", !.at = @ + 1]
    BY <1>1, <2>1, MovedOn
  <2>2. CASE x = [run[w] EXCEPT !.pc = "plugin", !.at = @ + 1, !.ok = @ \cup {q}]
    BY <1>1, <1>2, <2>2, AnsweredBy
  <2> QED
    BY <1>3, <2>1, <2>2
<1>5. run'[w] = x /\ \A v \in Workers \ {w} : run'[v] = run[v]
  BY <1>3 DEF Typed, Runs, Move
<1> SUFFICES ASSUME NEW p \in PluginSet PROVE Ledger(p)'
  BY DEF WithinBudget
<1>6. /\ Ledger(p) /\ (Budget[p] # NoBudget => Budget[p] \in Nat) /\ today[p] \in Nat
      /\ today'[p] = IF p = q THEN today[p] + 1 ELSE today[p]
  BY <1>2, BudgetAssumption DEF WithinBudget, Typed, Tables, Identify
<1>7. CASE p = q
  <2>1. w \in Begun(p) /\ Begun(p)' = Begun(p) \ {w}
    BY <1>1, <1>4, <1>5, <1>7 DEF Begun
  <2>2. IsFiniteSet(Begun(p)) /\ Cardinality(Begun(p)) \in Nat
    BY BegunCount DEF Begun
  <2>3. Cardinality(Begun(p)') = Cardinality(Begun(p)) - 1
    BY <2>1, <2>2, FS_RemoveElement
  <2>4. Budget[p] # NoBudget => Budget[p] > 0
    BY <1>6, <2>1 DEF Ledger
  <2>5. Budget[p] # NoBudget =>
          today'[p] + Cardinality(Begun(p)') < Budget[p] + Cardinality(Workers)
    BY <1>6, <1>7, <2>2, <2>3, <2>4, WorkersCount DEF Ledger
  <2> QED
    BY <2>4, <2>5 DEF Ledger
<1>8. CASE p # q
  <2>1. Begun(p)' = Begun(p)
    BY <1>4, <1>5, <1>8, <1>1 DEF Begun
  <2> QED
    BY <1>6, <1>8, <2>1 DEF Ledger
<1> QED
  BY <1>7, <1>8

LEMMA StepBudget == Typed /\ WithinBudget /\ [Next]_vars => WithinBudget'
<1> SUFFICES ASSUME Typed, WithinBudget, [Next]_vars PROVE WithinBudget'
  OBVIOUS
<1>1. CASE UNCHANGED vars
  BY <1>1, NothingBegun DEF vars, tables, budget, Begun
<1>2. CASE \E w \in Workers, j \in Jobs : Claim(w, j)
  <2>1. PICK w \in Workers, j \in Jobs : Claim(w, j)
    BY <1>2
  <2>2. PICK x : x = [Idle EXCEPT !.pc = "context", !.job = j]
    OBVIOUS
  <2>3. x.pc = "context"
    BY <2>2 DEF Idle
  <2>4. Move(w, x) /\ today' = today
    BY <2>1, <2>2 DEF Claim, tables, budget
  <2> QED
    BY <2>3, <2>4, NotBegun, NothingBegun
<1>3. CASE \E w \in Workers : Run(w)
  <2>1. PICK w \in Workers : Run(w)
    BY <1>3
  <2>2. CASE ~Consult(w) /\ ~Identify(w)
    BY <2>1, <2>2, OthersBeginNothing, NotBegun, NothingBegun
  <2> QED
    BY <2>2, ConsultBudget, IdentifyBudget
<1>4. CASE (\E j \in Jobs : Requeue(j)) \/ NewDay
  BY <1>4, NothingBegun DEF Requeue, NewDay, tables, budget, Begun
<1>5. CASE Crash
  <2>1. \A p \in PluginSet : Begun(p)' = {}
    BY <1>5 DEF Crash, Begun, Idle
  <2> QED
    BY <1>5, <2>1, NothingBegun DEF Crash, tables, budget
<1> QED
  BY <1>1, <1>2, <1>3, <1>4, <1>5 DEF Next

LEMMA InitBudget == Init => WithinBudget
<1> SUFFICES ASSUME Init, NEW p \in PluginSet PROVE Ledger(p)
  BY DEF WithinBudget
<1>1. Begun(p) = {} /\ today[p] \in 0 .. UsedBefore
  BY DEF Init, Begun, Idle
<1>2. Cardinality(Begun(p)) = 0
  BY <1>1, FS_EmptySet
<1>3. Budget[p] # NoBudget => Budget[p] \in Nat /\ UsedBefore \in Nat /\ UsedBefore <= Budget[p]
  BY BudgetAssumption, RunsAssumption
<1> QED
  BY <1>1, <1>2, <1>3, WorkersCount DEF Ledger

\* However many workers, and across midnight, a day's executions of a plugin
\* pass its budget by no more than one for each other worker.
THEOREM BudgetHolds == Spec => []BudgetOvershoot
<1>1. Typed /\ WithinBudget => BudgetOvershoot
  <2> SUFFICES ASSUME Typed, WithinBudget, NEW p \in PluginSet, Budget[p] # NoBudget
               PROVE  today[p] < Budget[p] + Cardinality(Workers)
    BY DEF BudgetOvershoot
  <2>1. Ledger(p) /\ Budget[p] \in Nat /\ today[p] \in Nat
    BY BudgetAssumption DEF WithinBudget, Typed, Tables
  <2>2. Cardinality(Begun(p)) \in Nat
    BY BegunCount DEF Begun
  <2> QED
    BY <2>1, <2>2, WorkersCount DEF Ledger
<1> QED
  BY <1>1, InitTyped, StepTyped, InitBudget, StepBudget, PTL DEF Spec

-----------------------------------------------------------------------------
(* Where the outcomes come from *)

\* Every outcome that a panel with these answers can have is allowed, ...
LEMMA NothingElse ==
    ASSUME NEW ok \in SUBSET PluginSet, NEW a \in Panels(ok)
    PROVE  Decisions(a) \subseteq RouteOutcomes(ok)
<1>1. /\ a \in [PluginSet -> Answers] /\ DOMAIN a = PluginSet /\ \A p \in PluginSet : a[p] \in Answers
      /\ \A p \in PluginSet : a[p].status = "ok" <=> p \in ok
  BY DEF Panels
<1>2. Panel(a)
  <2>1. \A p \in PluginSet : a[p].weight \in Nat /\ \A c \in a[p].candidates : c.confidence \in Grid
    BY <1>1, AnswerIs
  <2> QED
    BY <1>1, <2>1, PluginsFinite DEF Panel
<1>3. Applicable(a) = ok
  BY <1>1 DEF Applicable
<1>4. PICK t : t = [DefaultThresholds EXCEPT !.auto_min_evidence = MinEvidence]
  OBVIOUS
<1>5. t.auto_min_evidence = MinEvidence
  BY <1>4 DEF DefaultThresholds
<1>6. ASSUME NEW f \in Flags
      PROVE  Route(Aggregate(a, Claimed, DefaultScoring), t, f, DefaultScoring).outcome
               \in RouteOutcomes(ok)
  <2>1. PICK o : o = Route(Aggregate(a, Claimed, DefaultScoring), t, f, DefaultScoring).outcome
    OBVIOUS
  <2>2. /\ ok = {} => o = "inconclusive"
        /\ ok # {} => o \in {"matched", "quarantine", "remediate"}
        /\ o = "remediate" => Cardinality(ok) >= MinEvidence
    BY <1>2, <1>3, <1>5, <2>1, RoutedIs
  <2> QED
    BY <2>1, <2>2 DEF RouteOutcomes
<1> QED
  BY <1>4, <1>6 DEF Decisions

\* ... and every outcome that is allowed, some panel has.
LEMMA NothingLeftOut ==
    ASSUME NEW ok \in SUBSET PluginSet, NEW o \in RouteOutcomes(ok)
    PROVE  \E a \in Panels(ok) : o \in Decisions(a)
<1> DEFINE Given(yes, ask) == [auto_remap |-> yes, auto_replace |-> yes, approval_required |-> ask]
<1>1. PICK t : t = [DefaultThresholds EXCEPT !.auto_min_evidence = MinEvidence]
  OBVIOUS
<1>2. t.auto_min_evidence = MinEvidence /\ t.quarantine = 80 /\ t.auto = 40
  BY <1>1 DEF DefaultThresholds
<1> DEFINE Said(a, f) == Route(Aggregate(a, Claimed, DefaultScoring), t, f, DefaultScoring).outcome
<1>3. \A a : \A f \in Flags : Said(a, f) \in Decisions(a)
  BY <1>1 DEF Decisions
<1>4. /\ Given(TRUE, FALSE) \in Flags /\ Given(FALSE, TRUE) \in Flags
      /\ Given(TRUE, FALSE).auto_remap /\ Given(TRUE, FALSE).auto_replace
      /\ ~Given(TRUE, FALSE).approval_required /\ Given(FALSE, TRUE).approval_required
  BY DEF Flags
<1> DEFINE sure == Alike(PluginSet, ok, 98)
           mute == Alike(PluginSet, ok, Silent)
<1>5. /\ sure \in Panels(ok) /\ mute \in Panels(ok) /\ Panel(mute) /\ Applicable(mute) = ok
  <2>1. 98 \in Reports /\ Silent \in Reports
    BY DEF Reports, Levels
  <2>2. sure \in [PluginSet -> Answers]
    BY <2>1, PluginsFinite, AlikeIs
  <2>3. mute \in [PluginSet -> Answers]
    BY <2>1, PluginsFinite, AlikeIs
  <2>4. Applicable(sure) = ok
    BY <2>1, PluginsFinite, AlikeIs
  <2>5. Panel(mute) /\ Applicable(mute) = ok
    BY <2>1, PluginsFinite, AlikeIs
  <2> HIDE DEF sure, mute
  <2> QED
    BY <2>2, <2>3, <2>4, <2>5 DEF Panels, Applicable
<1>6. CASE ok = {}
  <2>1. Said(mute, Given(TRUE, FALSE)) = "inconclusive"
    BY <1>5, <1>6, RoutedIs
  <2>2. o = "inconclusive"
    BY <1>6 DEF RouteOutcomes
  <2> HIDE DEF Said, Given, mute
  <2> QED
    BY <1>3, <1>4, <1>5, <2>1, <2>2
<1>7. CASE ok # {}
  <2>1. Said(sure, Given(TRUE, FALSE)) = "matched"
    BY <1>2, <1>7, PluginsFinite, SureMatches
  <2>2. ASSUME NEW f
        PROVE  Said(mute, f) =
                 IF /\ Cardinality(ok) >= MinEvidence
                    /\ Allowed(Proposal(Aggregate(mute, Claimed, DefaultScoring), t, DefaultScoring), f)
                    /\ ~f.approval_required
                   THEN "remediate" ELSE "quarantine"
    BY <1>2, <1>7, PluginsFinite, MuteActs, Zenon
  <2>3. Said(mute, Given(FALSE, TRUE)) = "quarantine"
    BY <1>4, <2>2
  <2>4. Cardinality(ok) >= MinEvidence => Said(mute, Given(TRUE, FALSE)) = "remediate"
    BY <1>4, <2>2 DEF Allowed
  <2>5. \/ o = "matched" \/ o = "quarantine"
        \/ o = "remediate" /\ Cardinality(ok) >= MinEvidence
    BY <1>7 DEF RouteOutcomes
  <2> HIDE DEF Said, Given, mute, sure
  <2> QED
    BY <1>3, <1>4, <1>5, <2>1, <2>3, <2>4, <2>5
<1> QED
  BY <1>6, <1>7

\* For any plugins and any auto_min_evidence: what a run may decide on once
\* its plugins have been asked, and what it does decide on, is what aggregate
\* and route make of some answers of those that answered: every outcome of
\* theirs, and no other.  (process_job, aggregate, route)
THEOREM RoutesHolds == Spec => []RoutesAsScored
<1>1. ASSUME NEW ok \in SUBSET PluginSet
      PROVE  [ok |-> ok, outcomes |-> RouteOutcomes(ok)] \in Scored
  <2>1. UNION {Decisions(a) : a \in Panels(ok)} = RouteOutcomes(ok)
    BY NothingElse, NothingLeftOut
  <2> QED
    BY <2>1 DEF Scored
<1>2. Typed /\ Behind => RoutesAsScored
  <2> SUFFICES ASSUME Typed, Behind, NEW w \in Workers
               PROVE  \E s \in Scored :
                         /\ s.ok = run[w].ok
                         /\ run[w].pc = "plugin" => s.outcomes = RouteOutcomes(run[w].ok)
                         /\ run[w].outcome # "none" => run[w].outcome \in s.outcomes
    BY DEF RoutesAsScored
  <2>1. run[w].ok \in SUBSET PluginSet /\ Backed(run[w])
    BY DEF Typed, Runs, RunRecords, Behind
  <2>2. run[w].outcome # "none" => run[w].outcome \in RouteOutcomes(run[w].ok)
    BY <2>1 DEF Backed
  <2>3. PICK s \in Scored : s.ok = run[w].ok /\ s.outcomes = RouteOutcomes(run[w].ok)
    BY <1>1, <2>1
  <2> QED
    BY <2>2, <2>3
<1> QED
  BY <1>2, InitTyped, StepTyped, InitBehind, StepBehind, PTL DEF Spec
=============================================================================
