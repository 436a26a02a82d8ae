--------------------------- MODULE JudgementProofs ---------------------------
(***************************************************************************)
(* What Judgement's properties say of small inputs, proved of all: any     *)
(* series, any number of providers; for scores see ScoringProofs.  Each    *)
(* general theorem is followed by the property it implies, as Spec => []P: *)
(* the calls keep no state, so that Init => P is the whole of it.          *)
(***************************************************************************)
EXTENDS Judgement, ScoringProofs

-----------------------------------------------------------------------------
(* Scores, in the form the run checks them *)

\* RaisingHelps in the form the run checks it, for three plugins of which one
\* has any weight.  (_reject_outliers, _fuse, aggregate)
THEOREM RaiseHelpsHolds == Spec => []RaiseHelps
<1>1. ASSUME Init PROVE RaiseHelps
  <2> SUFFICES ASSUME call.of = "raise", NEW c \in Grid, NEW d \in Grid, c < d, Side(c) = Side(d)
               PROVE  LET three(x) == <<Ok(call.weight, Vote(Claimed, x)), Ok(1, Vote(Claimed, call.second)),
                                        Ok(1, Vote(Claimed, call.third))>>
                          score(x) == Aggregate(three(x), Claimed, call.cfg).s_claimed
                      IN  ~Higher(score(c), score(d))
    BY DEF RaiseHelps
  <2>1. call \in [of : {"raise"}, cfg : Scorings, weight : 0 .. 2, second : Reports, third : Reports]
    BY <1>1 DEF Init
  <2>2. /\ call.weight \in Nat /\ call.cfg \in Scorings
        /\ call.second \in Grid \cup {Silent} /\ call.third \in Grid \cup {Silent}
    BY <2>1 DEF Reports, Levels, Grid
  <2> DEFINE three(x) == <<Ok(call.weight, Vote(Claimed, x)), Ok(1, Vote(Claimed, call.second)),
                           Ok(1, Vote(Claimed, call.third))>>
  <2>3. Claimed # Unnormalizable
    BY DEF Claimed, InSeries, Unnormalizable
  <2>4. ASSUME NEW x \in Grid
        PROVE  Panel(three(x)) /\ Applicable(three(x)) = {1, 2, 3}
    <3>1. DOMAIN three(x) = {1, 2, 3} /\ IsFiniteSet({1, 2, 3})
      BY ThreeIs
    <3>2. \A p \in {1, 2, 3} : three(x)[p].status = "ok"
      BY DEF Ok
    <3>3. three(x)[1].weight \in Nat /\ three(x)[2].weight \in Nat /\ three(x)[3].weight \in Nat
      BY <2>2 DEF Ok
    <3>4. /\ \A v \in three(x)[1].candidates : v.confidence \in Grid
          /\ \A v \in three(x)[2].candidates : v.confidence \in Grid
          /\ \A v \in three(x)[3].candidates : v.confidence \in Grid
      BY <2>2, <2>3, OneVote DEF Ok
    <3> HIDE DEF three
    <3> QED
      BY <3>1, <3>2, <3>3, <3>4 DEF Panel, Applicable
  <2>5. /\ Says(three(c)[1], Claimed)[Claimed] = c
        /\ Says(three(d)[1], Claimed)[Claimed] = d
        /\ three(c)[2] = three(d)[2] /\ three(c)[3] = three(d)[3]
        /\ three(c)[1].weight = three(d)[1].weight
    <3>1. c # Silent /\ d # Silent
      BY DEF Grid, Silent
    <3> QED
      BY <2>3, <3>1, OneVote DEF Ok
  <2>6. SameSide(call.cfg, c, d)
    <3>1. call.cfg.outlier_high = 80 /\ call.cfg.outlier_low = 20
      BY <2>2 DEF Scorings
    <3> QED
      BY <3>1 DEF SameSide, Side, Grid
  <2> HIDE DEF three
  <2>7. \A p \in {2, 3} : Says(three(c)[p], Claimed)[Claimed] \in Grid
    <3>1. ASSUME NEW p \in {2, 3} PROVE \A v \in three(c)[p].candidates : v.confidence \in Grid
      BY <2>4 DEF Panel, Applicable
    <3> QED
      BY <3>1, SaysIs
  <2>8. \A p \in Applicable(three(c)) :
          LET x == Says(three(c)[p], Claimed)[Claimed]
              y == Says(three(d)[p], Claimed)[Claimed]
          IN  three(c)[p].weight = three(d)[p].weight /\ x =< y /\ SameSide(call.cfg, x, y)
    BY <2>4, <2>5, <2>6, <2>7 DEF SameSide, Grid
  <2>9. ~Higher(Aggregate(three(c), Claimed, call.cfg).s_claimed,
                Aggregate(three(d), Claimed, call.cfg).s_claimed)
    BY <2>4, <2>8, RaisingHelps
  <2> QED
    BY <2>9 DEF three
<1>2. RaiseHelps /\ [Next]_call => RaiseHelps'
  BY DEF RaiseHelps, Next
<1> QED
  BY <1>1, <1>2, PTL DEF Spec

\* With the default settings one dissenter among three plugins of equal weight
\* never causes an action; and if its report is not in the middle, the file is
\* matched.  (_reject_outliers, _fuse, route)
THEOREM LoneDissenterLosesHolds == Spec => []LoneDissenterLoses
<1>1. ASSUME Init PROVE LoneDissenterLoses
  <2> SUFFICES ASSUME call.of = "dissent" PROVE LoneDissenterLoses
    BY DEF LoneDissenterLoses
  <2> DEFINE three == <<Ok(1, Vote(Claimed, call.high1)), Ok(1, Vote(Claimed, call.high2)),
                        Ok(1, Vote(Claimed, call.third) \cup Vote(Other, call.other))>>
             sheet == Aggregate(three, Claimed, DefaultScoring)
             judged == Judge(three, Claimed, call.flags, DefaultScoring)
             reports == ClaimedReports(three, Claimed)
             pool == ClaimedPool(three, Claimed, DefaultScoring)
             third == IF call.third = Silent THEN 0 ELSE call.third
  <2>1. /\ call.high1 \in {80, 98, 100} /\ call.high2 \in {80, 98, 100}
        /\ call.third \in Grid \cup {Silent} /\ call.other \in Grid \cup {Silent}
    <3>1. call \in [of : {"dissent"}, high1 : {80, 98, 100}, high2 : {80, 98, 100},
                    third : Grid \cup {Silent}, other : Reports, flags : Flags]
      BY <1>1 DEF Init
    <3> QED
      BY <3>1 DEF Reports, Levels, Grid
  <2>2. third \in Grid
    BY <2>1 DEF Grid
  <2>3. /\ \A v \in three[1].candidates : v.confidence \in Grid
        /\ \A v \in three[2].candidates : v.confidence \in Grid
        /\ Says(three[1], Claimed)[Claimed] = call.high1
        /\ Says(three[2], Claimed)[Claimed] = call.high2
    <3>1. /\ call.high1 \in Grid /\ call.high1 # Silent
          /\ call.high2 \in Grid /\ call.high2 # Silent
      BY <2>1 DEF Grid, Silent
    <3>2. Claimed # Unnormalizable
      BY DEF Claimed, InSeries, Unnormalizable
    <3>3. /\ three[1] = Ok(1, Vote(Claimed, call.high1))
          /\ three[2] = Ok(1, Vote(Claimed, call.high2))
      OBVIOUS
    <3>4. \A cs : Ok(1, cs).candidates = cs
      BY DEF Ok
    <3> HIDE DEF three
    <3> QED
      BY <3>1, <3>2, <3>3, <3>4, OneVote
  <2>4. /\ \A v \in three[3].candidates : v.confidence \in Grid
        /\ Says(three[3], Claimed)[Claimed] = third
    <3>1. three[3].candidates = Vote(Claimed, call.third) \cup Vote(Other, call.other)
      BY DEF Ok
    <3> HIDE DEF three
    <3> QED
      BY <2>1, <3>1, VotesHeard
  <2>5. \A p \in {1, 2, 3} : three[p].status = "ok" /\ three[p].weight = 1
    BY DEF Ok
  <2>6. DOMAIN three = {1, 2, 3} /\ IsFiniteSet({1, 2, 3})
    BY ThreeIs
  <2> HIDE DEF three, third
  <2>7. Panel(three) /\ Applicable(three) = {1, 2, 3}
    BY <2>3, <2>4, <2>5, <2>6 DEF Panel, Applicable
  <2>8. /\ DOMAIN reports = {1, 2, 3} /\ reports[1] = call.high1
        /\ reports[2] = call.high2 /\ reports[3] = third
    BY <2>3, <2>4, <2>7 DEF ClaimedReports
  <2>9. sheet.applicable_count # 0 /\ sheet.s_claimed = Fuse(reports, pool, Weights(three), DefaultScoring)
    BY <2>7, CountIs, ClaimedScore
  <2>10. ASSUME AtLeast(sheet.s_claimed, 80, DefaultScoring)
         PROVE  judged.action = Nothing /\ judged.outcome = "matched"
    BY <2>9, <2>10, RouteClaim DEF Judge, DefaultThresholds
  <2>11. Reporting(pool, Weights(three), reports) /\ pool \subseteq {1, 2, 3}
    BY <2>7, ReportsTyped
  <2>12. \A p \in {1, 2, 3} : Weights(three)[p] = 1
    BY <2>5, <2>7 DEF Weights
  <2> DEFINE high == {p \in DOMAIN reports : reports[p] >= 80}
  <2> HIDE DEF reports, sheet, judged
  <2>13. pool = IF Cardinality(high) >= 2 /\ \A p \in DOMAIN reports \ high : reports[p] =< 20
                THEN high ELSE DOMAIN reports
    BY DEF ClaimedPool, reports, RejectOutliers, DefaultScoring
  <2>14. 1 \in high /\ 2 \in high /\ Cardinality(high) >= 2
    <3>1. 1 \in high /\ 2 \in high
      BY <2>1, <2>8
    <3>2. IsFiniteSet(high)
      BY <2>6, <2>8, FS_Subset
    <3>3. Cardinality({1, 2}) = 2 /\ IsFiniteSet({1, 2})
      BY PairIs
    <3> QED
      BY <3>1, <3>2, <3>3, FS_Subset
  <2>15. CASE third >= 80 \/ third =< 20
    <3>1. \A p \in pool : reports[p] >= 80
      BY <2>1, <2>2, <2>8, <2>13, <2>14, <2>15 DEF Grid
    <3>2. 1 \in pool
      BY <2>8, <2>13, <2>14
    <3>3. Total(Weights(three), pool) # 0
      BY <2>11, <2>12, <3>2, SomeWeight
    <3>4. 80 \in Grid
      BY DEF Grid
    <3> HIDE DEF pool
    <3>5. AtLeast(sheet.s_claimed, 80, DefaultScoring)
      BY <2>9, <2>11, <3>1, <3>3, <3>4, FuseAtLeast
    <3> QED
      BY <2>10, <3>5 DEF judged, LoneDissenterLoses, three
  <2>16. CASE ~(third >= 80 \/ third =< 20)
    <3>1. pool = {1, 2, 3}
      BY <2>2, <2>8, <2>13, <2>16 DEF Grid
    <3> DEFINE level(p) == Scale(DefaultScoring, reports[p])
    <3>2. sheet.s_claimed = [sum |-> level(1) + level(2) + level(3), weight |-> 3]
      BY <2>5, <2>7, <2>9, <3>1, ThreePlugins DEF reports
    <3>3. level(1) \in Int /\ level(1) >= 2000 /\ level(2) \in Int /\ level(2) >= 2000
      <4>1. call.high1 \in Grid /\ call.high1 >= 80 /\ call.high2 \in Grid /\ call.high2 >= 80
        BY <2>1 DEF Grid
      <4> QED
        BY <2>8, <4>1, LevelBounds, ScaleIs DEF DefaultScoring
    <3>4. level(3) \in Int /\ level(3) >= -1222
      <4>1. third > 20
        BY <2>2, <2>16 DEF Grid
      <4> QED
        BY <2>2, <2>8, <4>1, LevelBounds, ScaleIs DEF DefaultScoring
    <3>5. Scale(DefaultScoring, 40) = -585
      <4>1. 40 \in Grid /\ LogLevel[40] = -585
        BY DEF Grid, LogLevel
      <4> QED
        BY <4>1, ScaleIs DEF DefaultScoring
    <3>6. AtLeast(sheet.s_claimed, 40, DefaultScoring)
      <4> HIDE DEF level
      <4> QED
        BY <3>2, <3>3, <3>4, <3>5 DEF AtLeast
    <3>7. judged.action = Nothing
      BY <2>9, <3>6, RouteClaim DEF Judge, DefaultThresholds, judged, sheet
    <3>8. Side(call.third) = "between"
      BY <2>1, <2>16 DEF Side, third, Grid, Silent
    <3> QED
      BY <3>7, <3>8 DEF judged, LoneDissenterLoses, three
  <2> QED
    BY <2>15, <2>16
<1>2. LoneDissenterLoses /\ [Next]_call => LoneDissenterLoses'
  BY DEF LoneDissenterLoses, Next
<1> QED
  BY <1>1, <1>2, PTL DEF Spec

\* RemapIsBacked in the form the run checks it, for two plugins.  (route)
THEOREM AutoRemapBackedHolds == Spec => []AutoRemapBacked
<1>1. Init => AutoRemapBacked
  <2> SUFFICES ASSUME call.of = "pair", NEW cfg \in Scorings, NEW flags \in Flags,
                      NEW answers \in Answers \X Answers,
                      call.cfg = cfg, call.flags = flags, call.answers = answers
               PROVE  AutoRemapBacked
    BY Zenon DEF Init, AutoRemapBacked
  <2> DEFINE judged == Judge(answers, Claimed, flags, cfg)
  <2> SUFFICES ASSUME judged.outcome = "remediate", judged.action.verb = "remap"
               PROVE  /\ \A a \in {answers[1], answers[2]} : a.status = "ok"
                      /\ InSeries(judged.action.target) # Claimed
                      /\ \E a \in {answers[1], answers[2]} :
                            Says(a, Claimed)[Claimed] < DefaultThresholds.auto
                      /\ \E c \in UNION {a.candidates : a \in {answers[1], answers[2]}} :
                            /\ c.key = InSeries(judged.action.target)
                            /\ c.confidence >= DefaultThresholds.alt
                      /\ flags.auto_remap /\ ~flags.approval_required
    BY DEF AutoRemapBacked
  <2>1. /\ DOMAIN answers = {1, 2} /\ IsFiniteSet({1, 2}) /\ Cardinality({1, 2}) = 2
        /\ answers[1] \in Answers /\ answers[2] \in Answers
    <3>1. IsFiniteSet({1, 2}) /\ Cardinality({1, 2}) = 2
      BY PairIs
    <3>2. DOMAIN answers = 1 .. 2 /\ 1 .. 2 = {1, 2}
      OBVIOUS
    <3> QED
      BY <3>1, <3>2
  <2>2. \A p \in {1, 2} :
          /\ answers[p].weight = 1 /\ IsFiniteSet(answers[p].candidates)
          /\ \A c \in answers[p].candidates : c.confidence \in Grid /\ c.key \in {Claimed, Other}
    BY <2>1, AnswerIs
  <2>3. Panel(answers)
    BY <2>1, <2>2 DEF Panel
  <2>4. \A k \in {Claimed, Other} : k.kind = "in_series" /\ InSeries(k.ids) = k
    BY DEF Claimed, Other, InSeries
  <2>5. Keyed(answers)
    BY <2>1, <2>2, <2>4 DEF Keyed, Kinds
  <2>6. cfg.outlier_min_agreeing \in Nat \ {0}
    BY DEF Scorings
  <2> DEFINE alt == Aggregate(answers, Claimed, cfg).alt_key
  <2>7. /\ Cardinality(Applicable(answers)) >= DefaultThresholds.auto_min_evidence
        /\ \E p \in Applicable(answers) :
              \/ Says(answers[p], Claimed)[Claimed] < DefaultThresholds.auto
              \/ answers[p].weight = 0
        /\ alt # Claimed
        /\ judged.action = Remap(alt.ids)
        /\ \E p \in Applicable(answers) : \E c \in answers[p].candidates :
              c.key = alt /\ c.confidence >= DefaultThresholds.alt
        /\ flags.auto_remap /\ ~flags.approval_required
    BY <2>3, <2>5, <2>6, RemapIsBacked
  <2>8. Applicable(answers) \subseteq {1, 2}
    BY <2>1 DEF Applicable
  <2>9. \A p \in {1, 2} : answers[p].status = "ok"
    <3>1. Cardinality(Applicable(answers)) >= 2
      BY <2>7 DEF DefaultThresholds
    <3>2. Applicable(answers) = {1, 2}
      BY <2>1, <2>8, <3>1, FS_Subset, FS_CardinalityType
    <3> QED
      BY <3>2 DEF Applicable
  <2> HIDE DEF judged, alt
  <2>10. PICK p \in Applicable(answers) : \E c \in answers[p].candidates :
            c.key = alt /\ c.confidence >= DefaultThresholds.alt
    BY <2>7
  <2>11. InSeries(judged.action.target) = alt
    <3>1. alt \in {Claimed, Other}
      BY <2>2, <2>8, <2>10
    <3>2. judged.action.target = alt.ids
      BY <2>7 DEF Remap
    <3> QED
      BY <2>4, <3>1, <3>2
  <2> QED
    BY <2>2, <2>7, <2>8, <2>9, <2>10, <2>11
<1>2. AutoRemapBacked /\ [Next]_call => AutoRemapBacked'
  BY DEF AutoRemapBacked, Next
<1> QED
  BY <1>1, <1>2, PTL DEF Spec

-----------------------------------------------------------------------------
(* The model's providers *)

\* The replies of a provider that is heard to be down: a refusal, a lost
\* connection or two 5xx in a row, and before it nothing usable or final.
HeardDown(s) ==
    LET used == CallProvider(s).used
    IN  /\ \A i \in 1 .. used : s[i] \notin {"good", "other"}
        /\ \/ s[used] \in {"refused", "lost"}
           \/ used > 1 /\ s[used] = "5xx" /\ s[used - 1] = "5xx"

LEMMA PostedIs ==
    ASSUME NEW s \in [1 .. 4 -> Replies], NEW at \in {1, 2, 3}
    PROVE  /\ Posted(s, at).used \in {at, at + 1} /\ Posted(s, at).reply = s[Posted(s, at).used]
           /\ Posted(s, at).used = at => s[at] # "5xx"
           /\ Posted(s, at).used = at + 1 => s[at] = "5xx"
BY DEF Posted

LEMMA ProviderIs ==
    ASSUME NEW s \in [1 .. 4 -> Replies]
    PROVE  /\ CallProvider(s).used \in 1 .. 4
           /\ CallProvider(s).result \in {"data", "down", "content_error"}
           /\ CallProvider(s).result = "down" => HeardDown(s)
<1> DEFINE first == Posted(s, 1)
           second == Posted(s, first.used + 1)
           last == IF first.reply = "unusable" THEN second ELSE first
           used == CallProvider(s).used
           result == CallProvider(s).result
<1>1. /\ used = last.used
      /\ result = CASE last.reply = "good"       -> "data"
                    [] last.reply \in DownReplies -> "down"
                    [] OTHER                      -> "content_error"
  BY DEF CallProvider
<1>2. /\ result \in {"data", "down", "content_error"}
      /\ result = "down" => last.reply \in {"refused", "lost", "5xx"}
  <2> HIDE DEF last, result
  <2> QED
    BY <1>1 DEF DownReplies
<1>3. /\ first.used \in {1, 2} /\ first.reply = s[first.used]
      /\ first.used = 1 => s[1] # "5xx"
      /\ first.used = 2 => s[1] = "5xx"
  BY PostedIs
<1>4. /\ second.used \in {first.used + 1, first.used + 2} /\ second.reply = s[second.used]
      /\ second.used = first.used + 1 => s[first.used + 1] # "5xx"
      /\ second.used = first.used + 2 => s[first.used + 1] = "5xx"
  <2> HIDE DEF first
  <2>1. first.used + 1 \in {1, 2, 3} /\ (first.used + 1) + 1 = first.used + 2
    BY <1>3
  <2> QED
    BY <2>1, PostedIs
<1> HIDE DEF first, second, used, result
<1>5. CASE first.reply = "unusable"
  <2>1. used = second.used /\ used \in 1 .. 4 /\ s[used] = last.reply
    BY <1>1, <1>3, <1>4, <1>5
  <2>2. \A i \in 1 .. used : s[i] \in {"5xx", "unusable", s[used]}
    <3>1. first.used = 1 \/ first.used = 2
      BY <1>3
    <3>2. used = first.used + 1 \/ used = first.used + 2
      BY <1>4, <2>1
    <3>3. SUFFICES ASSUME NEW i \in 1 .. used PROVE s[i] \in {"5xx", "unusable", s[used]}
      OBVIOUS
    <3>4. i \in {1, 2, 3, 4} /\ i =< used
      BY <2>1
    <3>5. i < first.used \/ i = first.used \/ i = first.used + 1 \/ i = used
      BY <3>1, <3>2, <3>4
    <3>6. i < first.used => i = 1 /\ first.used = 2
      BY <3>1, <3>4
    <3>7. i = first.used + 1 => s[i] = "5xx" \/ i = used
      BY <1>4, <2>1, <3>2
    <3> QED
      BY <1>3, <1>5, <3>5, <3>6, <3>7
  <2>3. result = "down" => /\ \A i \in 1 .. used : s[i] \notin {"good", "other"}
                           /\ \/ s[used] \in {"refused", "lost"}
                              \/ used > 1 /\ s[used] = "5xx" /\ s[used - 1] = "5xx"
    BY <1>2, <1>3, <1>4, <2>1, <2>2, SMTT(60)
  <2> QED
    BY <1>2, <2>1, <2>3 DEF HeardDown, used, result
<1>6. CASE first.reply # "unusable"
  <2>1. used = first.used /\ used \in 1 .. 4 /\ s[used] = last.reply
    BY <1>1, <1>3, <1>6
  <2>2. \A i \in 1 .. used : s[i] \in {"5xx", s[used]}
    <3>1. used = 1 \/ used = 2
      BY <1>3, <2>1
    <3>2. \A i \in 1 .. used : i = used \/ (i = 1 /\ used = 2)
      BY <3>1
    <3> QED
      BY <1>3, <2>1, <3>2
  <2>3. result = "down" => /\ \A i \in 1 .. used : s[i] \notin {"good", "other"}
                           /\ \/ s[used] \in {"refused", "lost"}
                              \/ used > 1 /\ s[used] = "5xx" /\ s[used - 1] = "5xx"
    BY <1>2, <1>3, <2>1, <2>2
  <2> QED
    BY <1>2, <2>1, <2>3 DEF HeardDown, used, result
<1> QED
  BY <1>5, <1>6

\* Whatever the number of providers: the one whose reply is used is the first
\* that was not heard to be down, and none is asked more than four times.
\* (chat_json, _call_provider, _post_with_5xx_retry)
THEOREM AskedInOrder ==
    ASSUME NEW N \in Nat, NEW providers \in [1 .. N -> [1 .. 4 -> Replies]]
    PROVE  LET chat == ChatJson(providers)
           IN  /\ \A q \in 1 .. N : CallProvider(providers[q]).used =< 4
               /\ \A q \in 1 .. N : q < chat.by \/ chat.by = 0 => HeardDown(providers[q])
               /\ chat.by \in 0 .. N
               /\ chat.by # 0 => chat.result \in {"data", "content_error"}
               /\ chat.by = 0 => chat.result = "unavailable"
<1> DEFINE up == {p \in DOMAIN providers : CallProvider(providers[p]).result # "down"}
           chat == ChatJson(providers)
<1>1. chat = IF up = {} THEN [result |-> "unavailable", by |-> 0]
             ELSE [result |-> CallProvider(providers[Min(up)]).result, by |-> Min(up)]
  BY DEF ChatJson
<1>2. \A q \in 1 .. N : /\ CallProvider(providers[q]).used \in 1 .. 4
                        /\ CallProvider(providers[q]).result \in {"data", "down", "content_error"}
                        /\ q \notin up => HeardDown(providers[q])
  BY ProviderIs
<1>3. up \in SUBSET Nat /\ up \subseteq 1 .. N
  OBVIOUS
<1> HIDE DEF chat
<1> DEFINE Told ==
             /\ \A q \in 1 .. N : q < chat.by \/ chat.by = 0 => HeardDown(providers[q])
             /\ chat.by \in 0 .. N
             /\ chat.by # 0 => chat.result \in {"data", "content_error"}
             /\ chat.by = 0 => chat.result = "unavailable"
<1>4. ASSUME up = {} PROVE Told
  <2>1. chat.by = 0 /\ chat.result = "unavailable"
    BY <1>1, <1>4
  <2>2. 0 \in 0 .. N
    OBVIOUS
  <2> HIDE DEF up
  <2> QED
    BY <1>2, <1>4, <2>1, <2>2
<1>5. ASSUME up # {} PROVE Told
  <2>1. PICK m \in up : m = Min(up) /\ \A q \in up : m =< q
    BY <1>3, <1>5, MinIs
  <2>2. chat.by = m /\ chat.result = CallProvider(providers[m]).result
    <3> HIDE DEF up
    <3> QED
      BY <1>1, <1>5, <2>1
  <2>3. CallProvider(providers[m]).result \in {"data", "content_error"}
    BY <1>2, <2>1
  <2>4. m \in 1 .. N
    BY <1>3, <2>1
  <2> HIDE DEF up
  <2>5. \A q \in 1 .. N : q < m => q \notin up
    BY <2>1, <2>4
  <2>6. m \in 0 .. N /\ m # 0
    BY <2>4
  <2> QED
    BY <1>2, <2>2, <2>3, <2>5, <2>6
<1>6. Told
  BY <1>4, <1>5
<1>7. \A q \in 1 .. N : CallProvider(providers[q]).used =< 4
  BY <1>2
<1> QED
  BY <1>6, <1>7 DEF chat

\* AskedInOrder in the form the run checks it, for two providers.  (chat_json)
THEOREM PassedOverForCauseHolds == Spec => []PassedOverForCause
<1>1. Init => PassedOverForCause
  <2> SUFFICES ASSUME call.of = "chat", NEW s \in [1 .. 4 -> Replies], NEW next \in Replies,
                      call.replies = s, call.next = next
               PROVE  PassedOverForCause
    BY Zenon DEF Init, PassedOverForCause
  <2> DEFINE two == <<s, [i \in 1 .. 4 |-> next]>>
  <2>1. two \in [1 .. 2 -> [1 .. 4 -> Replies]] /\ two[1] = s
    OBVIOUS
  <2> HIDE DEF two
  <2>2. /\ CallProvider(two[1]).used =< 4 /\ ChatJson(two).by \in 0 .. 2
        /\ 1 < ChatJson(two).by \/ ChatJson(two).by = 0 => HeardDown(two[1])
    <3>1. 2 \in Nat /\ 1 \in 1 .. 2
      OBVIOUS
    <3> QED
      BY <2>1, <3>1, AskedInOrder
  <2>3. CallProvider(s).used =< 4 /\ (ChatJson(two).by # 1 => HeardDown(s))
    BY <2>1, <2>2
  <2> QED
    BY <2>3 DEF PassedOverForCause, HeardDown, two
<1>2. PassedOverForCause /\ [Next]_call => PassedOverForCause'
  BY DEF PassedOverForCause, Next
<1> QED
  BY <1>1, <1>2, PTL DEF Spec

-----------------------------------------------------------------------------
(* Episode numbers and ids *)

\* A series as Sonarr lists it: each episode once, by a season and a number
\* that no other episode has.
Listed(series) ==
    /\ DOMAIN series \in SUBSET Nat
    /\ \A i \in DOMAIN series : series[i].id # NoId /\ series[i].number \in Nat
    /\ \A i, j \in DOMAIN series : series[i].id = series[j].id => i = j

\* The episodes of a file, by their ids: some of one season.
FileOf(ids, series) ==
    /\ ids # {} /\ IsFiniteSet(ids) /\ ids \subseteq {series[i].id : i \in DOMAIN series}
    /\ OneSeason(ids, series)

Matched(ids, series) == {i \in DOMAIN series : series[i].id \in ids}

LEMMA FirstIs ==
    ASSUME NEW series, DOMAIN series \in SUBSET Nat, NEW hits \in SUBSET DOMAIN series
    PROVE  IF hits = {} THEN First(series, hits) = NoId
                        ELSE \E i \in hits : First(series, hits) = series[i].id
<1>1. CASE hits = {}
  BY <1>1 DEF First
<1>2. CASE hits # {}
  <2>1. Min(hits) \in hits
    BY <1>2, MinIs
  <2>2. First(series, hits) = series[Min(hits)].id
    BY <1>2 DEF First
  <2> QED
    BY <1>2, <2>1, <2>2
<1> QED
  BY <1>1, <1>2

\* What a number resolves to: nothing, or an episode that has it.
LEMMA MatchIs ==
    ASSUME NEW series, DOMAIN series \in SUBSET Nat, NEW numbering \in {"tvdb", "tmdb", "absolute"},
           NEW season, NEW n
    PROVE  LET id == Match(series, numbering, season, n)
               hits == IF numbering = "absolute" THEN Absolute(series, n) ELSE Numbered(series, season, n)
           IN  IF hits = {} THEN id = NoId ELSE \E i \in hits : id = series[i].id
<1> DEFINE hits == IF numbering = "absolute" THEN Absolute(series, n) ELSE Numbered(series, season, n)
<1>1. hits \in SUBSET DOMAIN series
  BY DEF Absolute, Numbered
<1>2. Match(series, numbering, season, n) = First(series, hits)
  BY DEF Match
<1> HIDE DEF hits
<1>3. IF hits = {} THEN First(series, hits) = NoId
                   ELSE \E i \in hits : First(series, hits) = series[i].id
  BY <1>1, FirstIs
<1> QED
  BY <1>2, <1>3 DEF hits

LEMMA PlainMatch ==
    ASSUME NEW series, Listed(series), Distinct(series), NEW i \in DOMAIN series
    PROVE  Match(series, "tvdb", series[i].season, series[i].number) = series[i].id
<1> DEFINE hits == Numbered(series, series[i].season, series[i].number)
<1>1. hits = {i}
  BY DEF Numbered, Distinct
<1>2. IF hits = {} THEN Match(series, "tvdb", series[i].season, series[i].number) = NoId
      ELSE \E j \in hits : Match(series, "tvdb", series[i].season, series[i].number) = series[j].id
  BY MatchIs DEF Listed
<1> QED
  BY <1>1, <1>2

LEMMA NormalizeIs ==
    ASSUME NEW season, NEW episodes, NEW numbering, NEW series
    PROVE  LET ident == Ident(season, episodes)
               ids == {Match(series, numbering, season, n) : n \in Named(ident)}
           IN  NormalizeIdent(ident, numbering, series) =
                 IF NoId \notin ids THEN InSeries(ids) ELSE Unnormalizable
<1> DEFINE ident == Ident(season, episodes)
           ids == {Match(series, numbering, season, n) : n \in Named(ident)}
           found == {Match(series, numbering, ident.season, ident.episodes[i]) : i \in DOMAIN ident.episodes}
<1>1. ident.series = "claimed" /\ ident.season = season /\ ident # NoIdent
  BY DEF Ident, NoIdent
<1> HIDE DEF ident
<1>2. found = ids
  BY <1>1 DEF Named
<1>3. NormalizeIdent(ident, numbering, series) =
        CASE ident = NoIdent           -> Junk
          [] ident.series = "other"    -> CrossSeries({1})
          [] ident.series = "claimed" /\ Resolved(found)  -> InSeries(found)
          [] ident.series = "claimed" /\ ~Resolved(found) -> Unnormalizable
  BY DEF NormalizeIdent
<1> HIDE DEF found, ids
<1>4. NormalizeIdent(ident, numbering, series) =
        IF NoId \notin ids THEN InSeries(ids) ELSE Unnormalizable
  BY <1>1, <1>2, <1>3 DEF Resolved
<1> QED
  BY <1>4 DEF ident, ids

LEMMA AscendingIs ==
    ASSUME NEW S \in SUBSET Nat, IsFiniteSet(S)
    PROVE  LET q == Ascending(S)
           IN  /\ q \in [1 .. Cardinality(S) -> S]
               /\ {q[i] : i \in DOMAIN q} = S
<1> DEFINE Up(q, s) == \A i, j \in 1 .. Cardinality(s) : i < j => q[i] < q[j]
           Good == {s \in SUBSET S : \E q \in [1 .. Cardinality(s) -> s] : Up(q, s)}
<1>1. ASSUME NEW s \in SUBSET S, \A x \in s : s \ {x} \in Good PROVE s \in Good
  <2>0. IsFiniteSet(s) /\ Cardinality(s) \in Nat /\ s \in SUBSET Int
    <3>1. IsFiniteSet(s)
      BY FS_Subset
    <3>2. Cardinality(s) \in Nat
      BY <3>1, FS_CardinalityType
    <3> QED
      BY <3>1, <3>2
  <2> SUFFICES \E q \in [1 .. Cardinality(s) -> s] : Up(q, s)
    OBVIOUS
  <2>1. CASE s = {}
    <3>1. 1 .. Cardinality(s) = {}
      BY <2>1, FS_EmptySet
    <3>2. [x \in {} |-> x] \in [1 .. Cardinality(s) -> s]
      BY <3>1
    <3> QED
      BY <3>1, <3>2
  <2>2. CASE s # {}
    <3> DEFINE m == Max(s)
               t == s \ {m}
               n == Cardinality(t)
    <3>1. m \in s /\ \A y \in s : m >= y
      BY <2>0, <2>2, MaxIs
    <3>2. n \in Nat /\ Cardinality(s) = n + 1
      <4>1. IsFiniteSet(t) /\ Cardinality(t) = Cardinality(s) - 1
        <5> HIDE DEF m
        <5> QED
          BY <2>0, <3>1, FS_RemoveElement
      <4>2. Cardinality(t) \in Nat
        BY <4>1, FS_CardinalityType
      <4> HIDE DEF t
      <4> QED
        BY <2>0, <4>1, <4>2
    <3>3. PICK q \in [1 .. n -> t] : Up(q, t)
      BY <1>1, <3>1
    <3> DEFINE r == [i \in 1 .. (n + 1) |-> IF i =< n THEN q[i] ELSE m]
    <3> HIDE DEF n, m
    <3>4. \A i \in 1 .. (n + 1) : (i \in 1 .. n /\ i =< n) \/ (i = n + 1 /\ ~(i =< n))
      BY <3>2
    <3>5. \A i \in 1 .. n : q[i] \in s /\ q[i] < m
      <4> SUFFICES ASSUME NEW i \in 1 .. n PROVE q[i] \in s /\ q[i] < m
        OBVIOUS
      <4>1. q[i] \in s /\ q[i] # m
        BY <3>3
      <4>2. q[i] \in Int /\ m \in Int
        BY <2>0, <3>1, <4>1
      <4> QED
        BY <3>1, <4>1, <4>2
    <3>6. r \in [1 .. (n + 1) -> s]
      BY <3>1, <3>4, <3>5
    <3>7. ASSUME NEW i \in 1 .. (n + 1), NEW j \in 1 .. (n + 1), i < j PROVE r[i] < r[j]
      <4>1. i \in 1 .. n /\ i =< n
        BY <3>2, <3>7
      <4>2. CASE j \in 1 .. n
        <5>1. q[i] < q[j]
          BY <3>3, <3>7, <4>1, <4>2 DEF n
        <5> QED
          BY <3>4, <3>7, <4>1, <4>2, <5>1
      <4>3. CASE j \notin 1 .. n
        BY <3>4, <3>5, <3>7, <4>1, <4>3
      <4> QED
        BY <4>2, <4>3
    <3> QED
      BY <3>2, <3>6, <3>7
  <2> QED
    BY <2>1, <2>2
<1>2. Good \in SUBSET SUBSET S
  OBVIOUS
<1> HIDE DEF Good
<1>3. Good = SUBSET S
  BY <1>1, <1>2, SetInduction
<1> DEFINE a == Ascending(S)
<1>4. \E q \in [1 .. Cardinality(S) -> S] : Up(q, S)
  BY <1>3 DEF Good
<1>5. a \in [1 .. Cardinality(S) -> S] /\ Up(a, S)
  BY <1>4 DEF Ascending
<1> HIDE DEF a
<1>6. Cardinality(S) \in Nat
  BY FS_CardinalityType
<1>7. a \in Injection(1 .. Cardinality(S), S)
  <2> SUFFICES ASSUME NEW i \in 1 .. Cardinality(S), NEW j \in 1 .. Cardinality(S), a[i] = a[j]
               PROVE  i = j
    BY <1>5 DEF Injection, IsInjective
  <2>1. a[i] \in Nat /\ a[j] \in Nat
    BY <1>5
  <2> QED
    BY <1>5, <1>6, <2>1
<1>8. IsFiniteSet(1 .. Cardinality(S)) /\ Cardinality(1 .. Cardinality(S)) = Cardinality(S)
  BY <1>6, FS_Interval
<1>9. a \in Surjection(1 .. Cardinality(S), S)
  BY <1>7, <1>8, FS_Injection
<1> QED
  BY <1>5, <1>9 DEF Surjection, a

LEMMA ClaimedIdentIs ==
    ASSUME NEW series, Listed(series), NEW ids, FileOf(ids, series)
    PROVE  LET claimed == ClaimedIdent(ids, series)
               matched == Matched(ids, series)
           IN  /\ claimed = Ident(claimed.season, claimed.episodes)
               /\ Named(claimed) = {series[i].number : i \in matched}
               /\ matched # {} /\ \A i \in matched : series[i].season = claimed.season
               /\ {series[i].id : i \in matched} = ids
<1> DEFINE matched == Matched(ids, series)
           claimed == ClaimedIdent(ids, series)
           numbers == {series[i].number : i \in matched}
           season == series[Min(matched)].season
<1>1. matched \in SUBSET Nat /\ matched # {} /\ {series[i].id : i \in matched} = ids
  BY DEF Matched, Listed, FileOf
<1>2. IsFiniteSet(matched)
  <2> DEFINE f == [i \in matched |-> series[i].id]
  <2>1. f \in [matched -> ids]
    BY <1>1
  <2>2. f \in Injection(matched, ids)
    BY <2>1 DEF Injection, IsInjective, Matched, Listed
  <2> QED
    BY <2>2, FS_Injection DEF FileOf
<1>3. IsFiniteSet(numbers) /\ numbers \in SUBSET Nat
  <2> DEFINE g == [i \in matched |-> series[i].number]
  <2>1. IsFiniteSet({g[i] : i \in matched})
    <3> HIDE DEF matched, g
    <3> QED
      BY <1>2, ImageFinite
  <2>2. {g[i] : i \in matched} = numbers
    OBVIOUS
  <2>3. numbers \in SUBSET Nat
    BY DEF Matched, Listed
  <2> QED
    BY <2>1, <2>2, <2>3
<1>4. claimed = Ident(season, Ascending(numbers))
  BY DEF ClaimedIdent, SeasonAndNumbers, Matched
<1> HIDE DEF claimed, season, numbers
<1>5. claimed.season = season /\ claimed.episodes = Ascending(numbers)
  BY <1>4 DEF Ident
<1>6. Named(claimed) = numbers
  BY <1>3, <1>5, AscendingIs DEF Named
<1>7. \A i \in matched : series[i].season = season
  <2>1. Min(matched) \in matched
    BY <1>1, MinIs
  <2> QED
    BY <2>1 DEF season, Matched, FileOf, OneSeason
<1> QED
  BY <1>1, <1>4, <1>5, <1>6, <1>7 DEF claimed, numbers

\* For every series and file, of any number of episodes in any order: the
\* numbers the plugins are told resolve to the file's very episodes.
\* (_build_claimed_ident, normalize)
THEOREM RoundTrip ==
    ASSUME NEW series, Listed(series), Distinct(series), NEW ids, FileOf(ids, series)
    PROVE  NormalizeIdent(ClaimedIdent(ids, series), "tvdb", series) = InSeries(ids)
<1> DEFINE claimed == ClaimedIdent(ids, series)
           matched == Matched(ids, series)
           found == {Match(series, "tvdb", claimed.season, n) : n \in Named(claimed)}
<1>1. /\ claimed = Ident(claimed.season, claimed.episodes)
      /\ Named(claimed) = {series[i].number : i \in matched}
      /\ \A i \in matched : series[i].season = claimed.season
      /\ {series[i].id : i \in matched} = ids
  BY ClaimedIdentIs
<1> HIDE DEF claimed
<1>2. NormalizeIdent(claimed, "tvdb", series) =
        IF NoId \notin found THEN InSeries(found) ELSE Unnormalizable
  BY <1>1, NormalizeIs
<1>3. \A i \in matched : Match(series, "tvdb", claimed.season, series[i].number) = series[i].id
  BY <1>1, PlainMatch DEF Matched
<1>4. found = ids
  BY <1>1, <1>3
<1>5. NoId \notin ids
  BY <1>1 DEF Listed, Matched
<1> QED
  BY <1>2, <1>4, <1>5 DEF claimed

LEMMA Series3Is ==
    ASSUME NEW series \in Series3
    PROVE  /\ DOMAIN series = {1, 2, 3} /\ Listed(series)
           /\ {series[i].id : i \in DOMAIN series} = {1, 2, 3}
           /\ \A i \in DOMAIN series : series[i].scene_absolute = Missing
<1>1. PICK s \in [1 .. 3 -> 1 .. 2], n \in [1 .. 3 -> 1 .. 3], c \in [1 .. 3 -> {Missing, 1, 2}] :
         series = <<Episode(3, s[1], n[1], c[1]), Episode(1, s[2], n[2], c[2]), Episode(2, s[3], n[3], c[3])>>
  BY SMT DEF Series3
<1>2. \A i, season, number, scene :
         LET e == Episode(i, season, number, scene)
         IN  e.id = i /\ e.number = number /\ e.scene_absolute = Missing
  BY DEF Episode
<1>3. DOMAIN series = 1 .. 3 /\ 1 .. 3 = {1, 2, 3}
  BY <1>1
<1>4. /\ series[1] = Episode(3, s[1], n[1], c[1])
      /\ series[2] = Episode(1, s[2], n[2], c[2])
      /\ series[3] = Episode(2, s[3], n[3], c[3])
  BY <1>1
<1>5. n[1] \in Nat /\ n[2] \in Nat /\ n[3] \in Nat
  OBVIOUS
<1>6. /\ series[1].id = 3 /\ series[2].id = 1 /\ series[3].id = 2
      /\ \A i \in {1, 2, 3} : series[i].number \in Nat /\ series[i].scene_absolute = Missing
  BY <1>2, <1>4, <1>5
<1>7. \A i, j \in {1, 2, 3} : series[i].id = series[j].id => i = j
  BY <1>6
<1>8. \A i \in {1, 2, 3} : series[i].id \in {1, 2, 3} /\ series[i].id # NoId
  BY <1>6 DEF NoId
<1>9. {series[i].id : i \in {1, 2, 3}} = {1, 2, 3}
  BY <1>6, <1>8
<1>10. {1, 2, 3} \in SUBSET Nat
  OBVIOUS
<1> QED
  BY <1>3, <1>6, <1>7, <1>8, <1>9, <1>10 DEF Listed

\* RoundTrip in the form the run checks it.  (_build_claimed_ident, normalize)
THEOREM ClaimedRoundTripHolds == Spec => []ClaimedRoundTrip
<1>1. Init => ClaimedRoundTrip
  <2> SUFFICES ASSUME call.of = "claim", NEW file \in SeriesAndIds, call.file = file
               PROVE  ClaimedRoundTrip
    BY Zenon DEF Init, ClaimedRoundTrip
  <2>1. /\ file[1] \in Series3 /\ Distinct(file[1]) /\ OneSeason(file[2], file[1])
        /\ file[2] \in SUBSET {1, 2, 3} /\ file[2] # {}
    BY DEF SeriesAndIds
  <2>2. IsFiniteSet({1, 2, 3})
    BY ThreeIs
  <2>3. IsFiniteSet(file[2])
    BY <2>1, <2>2, FS_Subset
  <2>4. Listed(file[1]) /\ {file[1][i].id : i \in DOMAIN file[1]} = {1, 2, 3}
    BY <2>1, Series3Is
  <2>5. FileOf(file[2], file[1])
    BY <2>1, <2>3, <2>4 DEF FileOf
  <2> QED
    BY <2>1, <2>4, <2>5, RoundTrip DEF ClaimedRoundTrip
<1>2. ClaimedRoundTrip /\ [Next]_call => ClaimedRoundTrip'
  BY DEF ClaimedRoundTrip, Next
<1> QED
  BY <1>1, <1>2, PTL DEF Spec

\* For every series: a candidate that is of use has an id for each of the
\* numbers it names, in every numbering but the scene's.  (normalize)
THEOREM WholeOrNothing ==
    ASSUME NEW series, Listed(series), NEW numbering \in {"tvdb", "tmdb", "absolute"},
           NEW season, NEW episodes, IsFiniteSet(Named(Ident(season, episodes))),
           NormalizeIdent(Ident(season, episodes), numbering, series) # Unnormalizable
    PROVE  LET ident == Ident(season, episodes)
               key   == NormalizeIdent(ident, numbering, series)
           IN  /\ key.kind = "in_series" /\ key.ids \subseteq {series[i].id : i \in DOMAIN series}
               /\ Cardinality(key.ids) = Cardinality(Named(ident))
<1> DEFINE ident == Ident(season, episodes)
           named == Named(ident)
           id(n) == Match(series, numbering, season, n)
           ids == {id(n) : n \in named}
           f == [n \in named |-> id(n)]
<1>1. NoId \notin ids /\ NormalizeIdent(ident, numbering, series) = InSeries(ids)
  <2> HIDE DEF ident
  <2> QED
    BY NormalizeIs DEF ident
<1>2. \A n \in named : \E i \in DOMAIN series :
          /\ id(n) = series[i].id
          /\ numbering = "absolute" => series[i].absolute = n
          /\ numbering # "absolute" => series[i].number = n
  <2> SUFFICES ASSUME NEW n \in named
               PROVE  \E i \in DOMAIN series :
                          /\ id(n) = series[i].id
                          /\ numbering = "absolute" => series[i].absolute = n
                          /\ numbering # "absolute" => series[i].number = n
    OBVIOUS
  <2> DEFINE hits == IF numbering = "absolute" THEN Absolute(series, n) ELSE Numbered(series, season, n)
  <2>1. id(n) # NoId
    BY <1>1
  <2>2. IF hits = {} THEN id(n) = NoId ELSE \E i \in hits : id(n) = series[i].id
    BY MatchIs DEF Listed
  <2>3. PICK i \in hits : id(n) = series[i].id
    BY <2>1, <2>2
  <2> QED
    BY <2>3 DEF Absolute, Numbered
<1> HIDE DEF id, named
<1>3. \A m, n \in named : id(m) = id(n) => m = n
  BY <1>2 DEF Listed
<1>4. f \in Injection(named, ids) /\ f \in Surjection(named, ids)
  <2>1. f \in [named -> ids] /\ \A n \in named : f[n] = id(n)
    OBVIOUS
  <2>2. IsInjective(f)
    BY <1>3, <2>1 DEF IsInjective
  <2>3. \A x \in ids : \E n \in named : f[n] = x
    BY <2>1
  <2> QED
    BY <2>1, <2>2, <2>3 DEF Injection, Surjection
<1>5. Cardinality(ids) = Cardinality(named)
  <2>1. IsFiniteSet(named)
    BY DEF named
  <2> HIDE DEF f, ids
  <2> QED
    BY <1>4, <2>1, FS_Surjection
<1>6. ids \subseteq {series[i].id : i \in DOMAIN series}
  BY <1>2
<1> HIDE DEF ids
<1> QED
  BY <1>1, <1>5, <1>6 DEF InSeries, named

LEMMA SceneIsPlain ==
    ASSUME NEW series, NEW season, NEW n \in Nat,
           \A i \in DOMAIN series : series[i].scene_number = Missing /\ series[i].scene_absolute = Missing
    PROVE  Match(series, "scene", season, n) = Match(series, "tvdb", season, n)
<1>1. SceneNumbered(series, season, n) = {} /\ SceneAbsolute(series, n) = {}
  BY DEF SceneNumbered, SceneAbsolute, Missing
<1>2. SceneHits(series, season, n) = Numbered(series, season, n)
  BY <1>1 DEF SceneHits
<1> QED
  BY <1>2 DEF Match

\* WholeOrNothing in the form the run checks it; and without scene numbers a
\* scene candidate is a plain one.  (normalize, _match_scene)
THEOREM NeverPartialHolds == Spec => []NeverPartial
<1>1. Init => NeverPartial
  <2> SUFFICES ASSUME call.of = "candidate", NEW series \in Series3, NEW season \in 1 .. 2,
                      NEW episodes \in (1 .. 4) \X (1 .. 4),
                      call.series = series, call.season = season, call.episodes = episodes
               PROVE  NeverPartial
    BY Zenon DEF Init, NeverPartial
  <2> DEFINE ident == Ident(season, episodes)
             Key(numbering) == NormalizeIdent(ident, numbering, series)
  <2>1. Listed(series) /\ \A i \in DOMAIN series : series[i].scene_absolute = Missing
    BY Series3Is
  <2>2. /\ Named(ident) = {episodes[1], episodes[2]}
        /\ episodes[1] \in Nat /\ episodes[2] \in Nat
    <3>1. ident.episodes = episodes /\ DOMAIN episodes = {1, 2}
      BY DEF Ident
    <3> QED
      BY <3>1 DEF Named
  <2>3. IsFiniteSet(Named(ident))
    <3>1. IsFiniteSet({episodes[1], episodes[2]})
      BY TwoElements, Zenon
    <3> QED
      BY <2>2, <3>1
  <2>4. ASSUME NEW numbering \in Numberings \ {"scene"}, Key(numbering) # Unnormalizable
        PROVE  Cardinality(Key(numbering).ids \ {NoId}) = Cardinality({episodes[1], episodes[2]})
    <3>1. numbering \in {"tvdb", "tmdb", "absolute"}
      BY DEF Numberings
    <3>2. /\ Key(numbering).ids \subseteq {series[i].id : i \in DOMAIN series}
          /\ Cardinality(Key(numbering).ids) = Cardinality(Named(ident))
      BY <2>1, <2>3, <2>4, <3>1, WholeOrNothing
    <3> HIDE DEF Key
    <3>3. Key(numbering).ids \ {NoId} = Key(numbering).ids
      BY <2>1, <3>2 DEF Listed
    <3> QED
      BY <2>2, <3>2, <3>3
  <2>5. ASSUME \A i \in DOMAIN series : series[i].scene_number = Missing
        PROVE  Key("scene") = Key("tvdb")
    <3>1. \A n \in Named(ident) : Match(series, "scene", season, n) = Match(series, "tvdb", season, n)
      BY <2>1, <2>2, <2>5, SceneIsPlain
    <3> DEFINE ids(numbering) == {Match(series, numbering, season, n) : n \in Named(ident)}
    <3>2. \A numbering \in {"scene", "tvdb"} :
             Key(numbering) = IF NoId \notin ids(numbering) THEN InSeries(ids(numbering)) ELSE Unnormalizable
      BY NormalizeIs
    <3>3. ids("scene") = ids("tvdb")
      BY <3>1
    <3> HIDE DEF Key, ids
    <3> QED
      BY <3>2, <3>3
  <2> HIDE DEF ident
  <2> QED
    BY <2>4, <2>5 DEF NeverPartial, ident
<1>2. NeverPartial /\ [Next]_call => NeverPartial'
  BY DEF NeverPartial, Next
<1> QED
  BY <1>1, <1>2, PTL DEF Spec

-----------------------------------------------------------------------------
(* What a plugin's answer says of the claim *)

\* If a plugin names the key with one confidence only, that is its report.
LEMMA OneConfidence ==
    ASSUME NEW answer, \A c \in answer.candidates : c.confidence \in Grid,
           NEW key, key # Unnormalizable, NEW confidence \in Grid,
           \E c \in answer.candidates : c.key = key,
           \A c \in answer.candidates : c.key = key => c.confidence = confidence
    PROVE  Says(answer, key)[key] = confidence
<1> DEFINE said == Says(answer, key)[key]
<1>1. /\ said \in Grid
      /\ said # 0 => \E c \in answer.candidates : c.key = key /\ c.confidence = said
      /\ \A c \in answer.candidates : c.key = key => c.confidence =< said
  BY SaysIs
<1> HIDE DEF said
<1>2. confidence =< said
  BY <1>1
<1>3. CASE said = 0
  BY <1>2, <1>3 DEF said, Grid
<1>4. CASE said # 0
  BY <1>1, <1>4 DEF said
<1> QED
  BY <1>3, <1>4

LEMMA CandidatesIs ==
    ASSUME NEW answer, NEW weight, NEW series
    PROVE  LET heard == Normalized(answer, weight, series)
           IN  /\ heard.status = answer.status /\ heard.weight = weight
               /\ heard.candidates =
                    {[key |-> NormalizeIdent(g.ident, "tvdb", series), confidence |-> g.confidence] :
                        g \in answer.candidates}
BY DEF Normalized

\* The same numbers in another order, or repeated, resolve to the same key;
\* others do not.
LEMMA NamesTheClaim ==
    ASSUME NEW series, Listed(series), Distinct(series), NEW ids, FileOf(ids, series),
           NEW season, NEW episodes, Named(Ident(season, episodes)) # {}
    PROVE  IsClaimed(Ident(season, episodes), ClaimedIdent(ids, series)) <=>
             NormalizeIdent(Ident(season, episodes), "tvdb", series) = InSeries(ids)
<1> DEFINE ident == Ident(season, episodes)
           named == Named(ident)
           claimed == ClaimedIdent(ids, series)
           matched == Matched(ids, series)
           found == {Match(series, "tvdb", season, n) : n \in named}
<1>1. /\ claimed = Ident(claimed.season, claimed.episodes)
      /\ Named(claimed) = {series[i].number : i \in matched}
      /\ matched # {} /\ \A i \in matched : series[i].season = claimed.season
      /\ {series[i].id : i \in matched} = ids
  BY ClaimedIdentIs
<1>2. ident.season = season
  BY DEF Ident
<1>3. NormalizeIdent(ident, "tvdb", series) =
        IF NoId \notin found THEN InSeries(found) ELSE Unnormalizable
  BY NormalizeIs
<1>4. \A S : InSeries(S).ids = S /\ InSeries(S) # Unnormalizable
  BY DEF InSeries, Unnormalizable
<1>5. ASSUME IsClaimed(ident, claimed)
      PROVE  NormalizeIdent(ident, "tvdb", series) = InSeries(ids)
  <2>1. season = claimed.season /\ named = Named(claimed)
    BY <1>2, <1>5 DEF IsClaimed
  <2> HIDE DEF claimed, named
  <2>2. found = {Match(series, "tvdb", claimed.season, n) : n \in Named(claimed)}
    BY <2>1
  <2>3. NormalizeIdent(claimed, "tvdb", series) =
          IF NoId \notin found THEN InSeries(found) ELSE Unnormalizable
    BY <1>1, <2>2, NormalizeIs
  <2>4. NormalizeIdent(claimed, "tvdb", series) = InSeries(ids)
    BY RoundTrip DEF claimed
  <2> QED
    BY <1>3, <2>3, <2>4
<1> HIDE DEF ident, claimed, named
<1>6. ASSUME NormalizeIdent(ident, "tvdb", series) = InSeries(ids)
      PROVE  IsClaimed(ident, claimed)
  <2>1. NoId \notin found /\ found = ids
    <3> HIDE DEF found
    <3> QED
      BY <1>3, <1>4, <1>6
  <2>2. ASSUME NEW n \in named
        PROVE  \E i \in matched : /\ series[i].id = Match(series, "tvdb", season, n)
                                  /\ series[i].season = season /\ series[i].number = n
    <3>1. Match(series, "tvdb", season, n) # NoId /\ Match(series, "tvdb", season, n) \in ids
      BY <2>1
    <3>2. IF Numbered(series, season, n) = {} THEN Match(series, "tvdb", season, n) = NoId
          ELSE \E i \in Numbered(series, season, n) : Match(series, "tvdb", season, n) = series[i].id
      BY MatchIs DEF Listed
    <3>3. PICK i \in Numbered(series, season, n) : Match(series, "tvdb", season, n) = series[i].id
      BY <3>1, <3>2
    <3> QED
      BY <3>1, <3>3 DEF Numbered, Matched
  <2>3. season = claimed.season
    <3>1. PICK n \in named : TRUE
      BY DEF named, ident
    <3> QED
      BY <1>1, <2>2, <3>1
  <2>4. named \subseteq Named(claimed)
    BY <1>1, <2>2
  <2>5. Named(claimed) \subseteq named
    <3> SUFFICES ASSUME NEW i \in matched PROVE series[i].number \in named
      BY <1>1
    <3>1. series[i].id \in found
      BY <1>1, <2>1
    <3>2. PICK n \in named : series[i].id = Match(series, "tvdb", season, n)
      BY <3>1
    <3>3. PICK j \in matched : series[j].id = series[i].id /\ series[j].number = n
      BY <2>2, <3>2
    <3> QED
      BY <3>2, <3>3 DEF Listed, Matched
  <2> QED
    BY <1>2, <2>3, <2>4, <2>5 DEF IsClaimed, named
<1> QED
  BY <1>5, <1>6 DEF ident, claimed

\* For every series, file and answer: a model has one vote on the claim, its
\* confidence if what it names is the claim, and what is left of it otherwise.
\* (build_episode_candidates, normalize, aggregate)
THEOREM OneVoteOnTheClaim ==
    ASSUME NEW series, Listed(series), Distinct(series), NEW ids, FileOf(ids, series),
           NEW season, NEW n \in Nat \ {0}, NEW episodes \in [1 .. n -> Nat],
           NEW confidence \in Grid, NEW weight
    PROVE  LET ident  == Ident(season, episodes)
               key    == InSeries(ids)
               answer == Answer(ClaimedIdent(ids, series), "data", ident, confidence)
               heard  == Normalized(answer, weight, series)
           IN  Says(heard, key)[key] =
                 IF NormalizeIdent(ident, "tvdb", series) = key THEN confidence ELSE 100 - confidence
<1> DEFINE ident == Ident(season, episodes)
           claimed == ClaimedIdent(ids, series)
           key == InSeries(ids)
           Key(x) == NormalizeIdent(x, "tvdb", series)
           answer == Answer(claimed, "data", ident, confidence)
           heard == Normalized(answer, weight, series)
<1>1. ident.episodes = episodes /\ ident.episodes # <<>> /\ Named(ident) # {}
  <2>1. 1 \in DOMAIN episodes /\ 1 \notin DOMAIN <<>>
    OBVIOUS
  <2>2. ident.episodes = episodes
    BY DEF Ident
  <2>3. episodes[1] \in Named(ident)
    BY <2>1, <2>2 DEF Named
  <2> QED
    BY <2>1, <2>2, <2>3
<1>2. IsClaimed(ident, claimed) <=> Key(ident) = key
  BY <1>1, NamesTheClaim
<1>3. Key(claimed) = key
  BY RoundTrip
<1>4. key # Unnormalizable
  BY DEF InSeries, Unnormalizable
<1>5. 100 - confidence \in Grid
  BY DEF Grid
<1> HIDE DEF ident, claimed, key
<1>6. answer.candidates = {Guess(ident, confidence)} \cup
                             IF IsClaimed(ident, claimed) THEN {} ELSE {Guess(claimed, 100 - confidence)}
  BY <1>1 DEF Answer, Finds, EpisodeCandidates
<1>7. \A x, c : Guess(x, c).ident = x /\ Guess(x, c).confidence = c
  BY DEF Guess
<1>8. heard.candidates = {[key |-> Key(g.ident), confidence |-> g.confidence] : g \in answer.candidates}
  BY CandidatesIs
<1> HIDE DEF answer, heard, Key
<1>9. CASE IsClaimed(ident, claimed)
  <2>1. heard.candidates = {[key |-> Key(ident), confidence |-> confidence]}
    BY <1>6, <1>7, <1>8, <1>9
  <2>2. /\ \A c \in heard.candidates : c.confidence \in Grid /\ c.confidence = confidence
        /\ \E c \in heard.candidates : c.key = key
    BY <1>2, <1>9, <2>1
  <2>3. Says(heard, key)[key] = confidence
    BY <1>4, <2>2, OneConfidence
  <2> QED
    BY <1>2, <1>9, <2>3 DEF key, ident, claimed, answer, heard, Key
<1>10. CASE ~IsClaimed(ident, claimed)
  <2>1. heard.candidates = {[key |-> Key(ident), confidence |-> confidence],
                            [key |-> Key(claimed), confidence |-> 100 - confidence]}
    BY <1>6, <1>7, <1>8, <1>10
  <2>2. /\ \A c \in heard.candidates : c.confidence \in Grid
        /\ \E c \in heard.candidates : c.key = key
        /\ \A c \in heard.candidates : c.key = key => c.confidence = 100 - confidence
    BY <1>2, <1>3, <1>5, <1>10, <2>1
  <2>3. Says(heard, key)[key] = 100 - confidence
    BY <1>4, <1>5, <2>2, OneConfidence
  <2> QED
    BY <1>2, <1>10, <2>3 DEF key, ident, claimed, answer, heard, Key
<1> QED
  BY <1>9, <1>10

LEMMA Season4Is ==
    /\ DOMAIN Season4 = {1, 2, 3, 4, 5} /\ Listed(Season4) /\ Distinct(Season4)
    /\ {Season4[i].id : i \in DOMAIN Season4} = {1, 2, 3, 4, 5}
    /\ \A i \in {1, 2, 3, 4} : Season4[i].season = 1 /\ Season4[i].number = Season4[i].id
    /\ Season4[1].id = 4 /\ Season4[2].id = 1 /\ Season4[3].id = 3 /\ Season4[4].id = 2
    /\ Season4[5].id = 5 /\ Season4[5].season = 2 /\ Season4[5].number = 1
<1>1. \A i, season, number, scene :
         LET e == Episode(i, season, number, scene)
         IN  e.id = i /\ e.number = number /\ e.season = season
  BY DEF Episode
<1>2. DOMAIN Season4 = 1 .. 5 /\ 1 .. 5 = {1, 2, 3, 4, 5}
  BY DEF Season4
<1>3. /\ Season4[1] = Episode(4, 1, 4, Missing) /\ Season4[2] = Episode(1, 1, 1, Missing)
      /\ Season4[3] = Episode(3, 1, 3, Missing) /\ Season4[4] = Episode(2, 1, 2, Missing)
      /\ Season4[5] = Episode(5, 2, 1, Missing)
  BY DEF Season4
<1>4. /\ \A i \in {1, 2, 3, 4} : Season4[i].season = 1 /\ Season4[i].number = Season4[i].id
      /\ Season4[1].id = 4 /\ Season4[2].id = 1 /\ Season4[3].id = 3 /\ Season4[4].id = 2
      /\ Season4[5].id = 5 /\ Season4[5].season = 2 /\ Season4[5].number = 1
  BY <1>1, <1>3
<1>5. \A i, j \in {1, 2, 3, 4, 5} : Season4[i].id = Season4[j].id => i = j
  BY <1>4
<1>6. \A i \in {1, 2, 3, 4, 5} : /\ Season4[i].id # NoId /\ Season4[i].number \in Nat
                                 /\ Season4[i].id \in {1, 2, 3, 4, 5}
  BY <1>4 DEF NoId
<1>7. {Season4[i].id : i \in {1, 2, 3, 4, 5}} = {1, 2, 3, 4, 5}
  BY <1>4, <1>6
<1>8. Distinct(Season4)
  BY <1>2, <1>4, <1>5 DEF Distinct
<1>9. {1, 2, 3, 4, 5} \in SUBSET Nat
  OBVIOUS
<1> QED
  BY <1>2, <1>4, <1>5, <1>6, <1>7, <1>8, <1>9 DEF Listed

LEMMA Season4Files ==
    ASSUME NEW ids \in SUBSET {1, 2, 3, 4}, ids # {}
    PROVE  FileOf(ids, Season4)
<1>1. IsFiniteSet({1, 2, 3, 4}) /\ IsFiniteSet(ids)
  <2>1. {1, 2, 3, 4} \in SUBSET Nat /\ \A n \in {1, 2, 3, 4} : n =< 4
    OBVIOUS
  <2>2. IsFiniteSet({1, 2, 3, 4})
    BY <2>1, FS_BoundedSetOfNaturals
  <2> QED
    BY <2>2, FS_Subset
<1>2. \A i \in DOMAIN Season4 : Season4[i].id \in ids => Season4[i].season = 1
  BY Season4Is
<1> QED
  BY <1>1, <1>2, Season4Is DEF FileOf, OneSeason

\* OneVoteOnTheClaim in the form the run checks it.  (build_episode_candidates)
THEOREM AnswerDecidesClaimHolds == Spec => []AnswerDecidesClaim
<1>1. ASSUME Init, call.of = "model" PROVE AnswerDecidesClaim
  <2> DEFINE ids == call.ids
             season == call.season
             episodes == call.episodes
             confidence == call.confidence
  <2>0. /\ ids \in {{1}, {3}, {1, 2}, {2, 3}}
        /\ episodes \in Named3 /\ confidence \in {0, 30, 50, 98}
    <3>1. call \in [of : {"model"}, ids : {{1}, {3}, {1, 2}, {2, 3}}, season : 1 .. 2,
                    episodes : Named3, confidence : {0, 30, 50, 98}]
      BY <1>1 DEF Init
    <3> QED
      BY <3>1
  <2> HIDE DEF ids, season, episodes, confidence
  <2>1. PICK n \in 1 .. 3 : episodes \in [1 .. n -> 1 .. 5]
    BY <2>0 DEF Named3
  <2>2. n \in Nat \ {0} /\ episodes \in [1 .. n -> Nat]
    BY <2>1
  <2>3. confidence \in Grid
    BY <2>0 DEF Grid
  <2>4. FileOf(ids, Season4) /\ Listed(Season4) /\ Distinct(Season4)
    BY <2>0, Season4Is, Season4Files
  <2> QED
    BY <2>2, <2>3, <2>4, OneVoteOnTheClaim
       DEF AnswerDecidesClaim, ids, season, episodes, confidence
<1>2. Init => AnswerDecidesClaim
  BY <1>1 DEF AnswerDecidesClaim
<1>3. AnswerDecidesClaim /\ [Next]_call => AnswerDecidesClaim'
  BY DEF AnswerDecidesClaim, Next
<1> QED
  BY <1>2, <1>3, PTL DEF Spec

-----------------------------------------------------------------------------
(* The comparison with reference subtitles *)

LEMMA OneEpisode ==
    ASSUME NEW series, Listed(series), NEW k \in DOMAIN series
    PROVE  LET claimed == ClaimedIdent({series[k].id}, series)
           IN  /\ FileOf({series[k].id}, series)
               /\ Named(claimed) = {series[k].number} /\ claimed.season = series[k].season
<1> DEFINE ids == {series[k].id}
           claimed == ClaimedIdent(ids, series)
<1>1. Matched(ids, series) = {k}
  BY DEF Matched, Listed
<1>2. FileOf(ids, series)
  BY <1>1, FS_Singleton DEF FileOf, OneSeason, Matched
<1>3. /\ Named(claimed) = {series[i].number : i \in Matched(ids, series)}
      /\ \A i \in Matched(ids, series) : series[i].season = claimed.season
  BY <1>2, ClaimedIdentIs
<1> HIDE DEF claimed
<1>4. Named(claimed) = {series[k].number} /\ claimed.season = series[k].season
  BY <1>1, <1>3
<1> QED
  BY <1>2, <1>4 DEF claimed

\* However small the window, a file's own episode is in it.
LEMMA ClaimedInWindow ==
    ASSUME NEW series, Listed(series), Distinct(series), NEW k \in DOMAIN series
    PROVE  k \in Window(ClaimedIdent({series[k].id}, series), series)
<1> DEFINE claimed == ClaimedIdent({series[k].id}, series)
           season == {i \in DOMAIN series : series[i].season = claimed.season}
           away(i) == Away(series[i].number, claimed)
           before(i) == {j \in season : away(j) < away(i) \/ (away(j) = away(i) /\ j < i)}
<1>1. Named(claimed) = {series[k].number} /\ claimed.season = series[k].season
  BY OneEpisode
<1> HIDE DEF claimed
<1>2. k \in season
  BY <1>1
<1>3. \A i \in DOMAIN series : away(i) = IF series[i].number >= series[k].number
                                          THEN series[i].number - series[k].number
                                          ELSE series[k].number - series[i].number
  <2> SUFFICES ASSUME NEW i \in DOMAIN series
               PROVE  away(i) = IF series[i].number >= series[k].number
                                  THEN series[i].number - series[k].number
                                  ELSE series[k].number - series[i].number
    OBVIOUS
  <2> DEFINE d == IF series[i].number >= series[k].number
                    THEN series[i].number - series[k].number
                    ELSE series[k].number - series[i].number
  <2>1. {IF series[i].number >= m THEN series[i].number - m ELSE m - series[i].number : m \in Named(claimed)}
          = {d}
    BY <1>1
  <2>2. series[i].number \in Nat /\ series[k].number \in Nat
    BY DEF Listed
  <2>3. d \in Nat
    BY <2>2
  <2> HIDE DEF d
  <2>4. Min({d}) = d
    BY <2>3, MinIs
  <2> QED
    BY <2>1, <2>4 DEF Away, d
<1>4. \A i \in DOMAIN series : series[i].number \in Nat
  BY DEF Listed
<1> HIDE DEF away
<1>5. away(k) = 0 /\ \A i \in season : away(i) >= 0 /\ (away(i) = 0 => i = k)
  <2>1. away(k) = 0
    BY <1>3, <1>4
  <2>2. ASSUME NEW i \in season PROVE away(i) >= 0 /\ (away(i) = 0 => i = k)
    <3>1. away(i) >= 0 /\ (away(i) = 0 => series[i].number = series[k].number)
      BY <1>3, <1>4
    <3>2. series[i].number = series[k].number => i = k
      BY <1>1 DEF Distinct
    <3> QED
      BY <3>1, <3>2
  <2> QED
    BY <2>1, <2>2
<1>6. \A i \in season : away(i) \in Int /\ i \in Nat
  BY <1>3, <1>4 DEF Listed
<1>7. before(k) = {}
  <2> SUFFICES ASSUME NEW j \in season, away(j) < away(k) \/ (away(j) = away(k) /\ j < k)
               PROVE  FALSE
    OBVIOUS
  <2> QED
    BY <1>2, <1>5, <1>6
<1>8. Cardinality(before(k)) < MaxCandidates
  <2>1. Cardinality(before(k)) = 0
    BY <1>7, FS_EmptySet
  <2> QED
    BY <2>1, CandidatesAssumption
<1>9. Window(claimed, series) = {i \in season : Cardinality(before(i)) < MaxCandidates}
  BY DEF Window, away
<1> HIDE DEF before, season
<1> QED
  BY <1>2, <1>8, <1>9 DEF claimed

ComparedWith(claimed, series, refs) == {i \in Window(claimed, series) : series[i].number \in refs}

Comparison(claimed, series, lines, ratio, i) ==
    Guess(Ident(claimed.season, <<series[i].number>>),
          Discounted(ratio[series[i].number], lines[series[i].number], 10))

LEMMA WhisperIs ==
    ASSUME NEW claimed, NEW series, NEW heard \in {"nothing", "too_little", "enough"},
           NEW refs, NEW lines, NEW ratio, NEW answer,
           answer = WhisperSubs(claimed, series, heard, refs, lines, ratio)
    PROVE  LET compared == ComparedWith(claimed, series, refs)
           IN  /\ answer.status = "ok" <=> heard = "enough" /\ Covered(claimed, compared, series)
               /\ answer.status = "ok" =>
                    /\ \A i \in compared : Comparison(claimed, series, lines, ratio, i) \in answer.candidates
                    /\ \A g \in answer.candidates :
                          \E i \in compared : g = Comparison(claimed, series, lines, ratio, i)
<1> DEFINE compared == ComparedWith(claimed, series, refs)
           found == {Comparison(claimed, series, lines, ratio, i) : i \in compared}
           covered == Covered(claimed, compared, series)
<1>1. answer = CASE heard \in {"nothing", "too_little"} -> Abstains
                 [] heard = "unreadable_reference"      -> Fails
                 [] heard = "enough" /\ covered         -> Finds(found)
                 [] heard = "enough" /\ ~covered        -> Abstains
  BY DEF WhisperSubs, ComparedWith, Comparison
<1> HIDE DEF found, covered
<1>2. CASE heard = "enough" /\ covered
  <2>1. answer = Finds(found)
    BY <1>1, <1>2
  <2>2. answer.status = "ok" /\ answer.candidates = found
    BY <2>1 DEF Finds
  <2> QED
    BY <1>2, <2>2 DEF found, covered
<1>3. CASE ~(heard = "enough" /\ covered)
  <2>1. answer = Abstains
    BY <1>1, <1>3
  <2>2. answer.status = "abstain"
    BY <2>1 DEF Abstains
  <2> QED
    BY <1>3, <2>2 DEF found, covered
<1> QED
  BY <1>2, <1>3

\* The ids of a file that claims the k-th episode alone.
IdsOf(series, k) == {series[k].id}

\* For every series, episode and set of references, and any size of the
\* window: with enough heard, whisper-subs answers exactly if there is a
\* reference for the claimed episode, and what it says of the claim is the
\* measure of that comparison.  ("Evidence integrity"; identify, normalize)
THEOREM WhisperMeasures ==
    ASSUME NEW series, Listed(series), Distinct(series), NEW k \in DOMAIN series,
           NEW refs, NEW lines, NEW ratio, NEW weight, NEW answer, NEW heard,
           answer = WhisperSubs(ClaimedIdent(IdsOf(series, k), series), series, "enough",
                                refs, lines, ratio),
           heard = Normalized(answer, weight, series)
    PROVE  LET n   == series[k].number
               key == InSeries(IdsOf(series, k))
           IN  /\ answer.status = "ok" <=> n \in refs
               /\ answer.status = "ok" =>
                    /\ \E c \in heard.candidates : c.key = key
                    /\ \A c \in heard.candidates : c.key = key =>
                          c.confidence = Discounted(ratio[n], lines[n], 10)
<1> DEFINE n == series[k].number
           key == InSeries(IdsOf(series, k))
           claimed == ClaimedIdent(IdsOf(series, k), series)
           compared == ComparedWith(claimed, series, refs)
           guess(i) == Comparison(claimed, series, lines, ratio, i)
<1>1. Named(claimed) = {n} /\ claimed.season = series[k].season
  BY OneEpisode DEF IdsOf
<1>2. k \in Window(claimed, series)
  BY ClaimedInWindow DEF IdsOf
<1>3. \A i \in Window(claimed, series) : i \in DOMAIN series /\ series[i].season = claimed.season
  BY DEF Window
<1> HIDE DEF claimed
<1>4. \A i \in Window(claimed, series) : series[i].number = n => i = k
  BY <1>1, <1>3 DEF Distinct
<1>5. Covered(claimed, compared, series) <=> n \in refs
  BY <1>1, <1>2, <1>4 DEF Covered, ComparedWith
<1>6. /\ answer.status = "ok" <=> Covered(claimed, compared, series)
      /\ answer.status = "ok" => /\ \A i \in compared : guess(i) \in answer.candidates
                                 /\ \A g \in answer.candidates : \E i \in compared : g = guess(i)
  <2>1. "enough" \in {"nothing", "too_little", "enough"}
    OBVIOUS
  <2>2. answer = WhisperSubs(claimed, series, "enough", refs, lines, ratio)
    BY DEF claimed, IdsOf
  <2> HIDE DEF n, key
  <2>3. answer.status = "ok" <=> Covered(claimed, compared, series)
    BY <2>1, <2>2, WhisperIs
  <2>4. answer.status = "ok" => \A i \in compared : guess(i) \in answer.candidates
    BY <2>1, <2>2, WhisperIs
  <2>5. answer.status = "ok" => \A g \in answer.candidates : \E i \in compared : g = guess(i)
    BY <2>1, <2>2, WhisperIs
  <2> QED
    BY <2>3, <2>4, <2>5
<1>7. ASSUME NEW i \in compared
      PROVE  NormalizeIdent(guess(i).ident, "tvdb", series) = InSeries({series[i].id})
  <2> DEFINE ident == Ident(claimed.season, <<series[i].number>>)
             found == {Match(series, "tvdb", claimed.season, m) : m \in Named(ident)}
  <2>1. Named(ident) = {series[i].number}
    BY DEF Named, Ident
  <2>2. Match(series, "tvdb", claimed.season, series[i].number) = series[i].id
    BY <1>3, PlainMatch DEF ComparedWith
  <2>3. found = {series[i].id} /\ NoId \notin found
    BY <1>3, <2>1, <2>2 DEF Listed, ComparedWith
  <2>4. NormalizeIdent(ident, "tvdb", series) =
          IF NoId \notin found THEN InSeries(found) ELSE Unnormalizable
    BY NormalizeIs
  <2>5. guess(i).ident = ident
    BY DEF Comparison, Guess
  <2> HIDE DEF ident, found
  <2> QED
    BY <2>3, <2>4, <2>5
<1>8. \A i \in compared : guess(i).confidence = Discounted(ratio[series[i].number], lines[series[i].number], 10)
  BY DEF Comparison, Guess
<1>9. heard.candidates = {[key |-> NormalizeIdent(g.ident, "tvdb", series), confidence |-> g.confidence] :
                            g \in answer.candidates}
  BY DEF Normalized
<1> HIDE DEF guess
<1>10. answer.status = "ok" <=> n \in refs
  BY <1>5, <1>6
<1>11. ASSUME answer.status = "ok"
       PROVE  /\ \E c \in heard.candidates : c.key = key
              /\ \A c \in heard.candidates : c.key = key =>
                    c.confidence = Discounted(ratio[n], lines[n], 10)
  <2>1. /\ \A i \in compared : guess(i) \in answer.candidates
        /\ \A g \in answer.candidates : \E i \in compared : g = guess(i)
        /\ n \in refs
    BY <1>5, <1>6, <1>11
  <2> DEFINE said(i) == [key |-> InSeries({series[i].id}), confidence |-> guess(i).confidence]
  <2>2. /\ \A i \in compared : said(i) \in heard.candidates
        /\ \A c \in heard.candidates : \E i \in compared : c = said(i)
    BY <1>7, <1>9, <2>1
  <2>3. k \in compared
    BY <1>2, <2>1 DEF ComparedWith
  <2>4. \A i \in compared : InSeries({series[i].id}) = key => i = k
    <3>1. \A S : InSeries(S).ids = S
      BY DEF InSeries
    <3>2. \A i \in compared : InSeries({series[i].id}) = key => series[i].id = series[k].id
      BY <3>1 DEF IdsOf
    <3> QED
      BY <1>3, <3>2 DEF Listed, ComparedWith
  <2> HIDE DEF compared
  <2>5. \E c \in heard.candidates : c.key = key
    <3>1. said(k) \in heard.candidates
      BY <2>2, <2>3
    <3> QED
      BY <3>1 DEF IdsOf
  <2>6. ASSUME NEW c \in heard.candidates, c.key = key
        PROVE  c.confidence = Discounted(ratio[n], lines[n], 10)
    <3>1. PICK i \in compared : c = said(i)
      BY <2>2, <2>6
    <3>2. i = k
      BY <2>4, <2>6, <3>1
    <3> QED
      BY <1>8, <3>1, <3>2
  <2> QED
    BY <2>5, <2>6
<1> QED
  BY <1>10, <1>11

LEMMA InSeason4 ==
    ASSUME NEW n \in 1 .. 4
    PROVE  \E k \in DOMAIN Season4 : Season4[k].number = n /\ Season4[k].id = n
<1>1. n = 1 \/ n = 2 \/ n = 3 \/ n = 4
  OBVIOUS
<1> QED
  BY <1>1, Season4Is

\* WhisperMeasures in the form the run checks it: with as many lines as
\* min_compared the measure is the ratio.  (identify, aggregate)
THEOREM ClaimedMeasuredHolds == Spec => []ClaimedMeasured
<1>1. Init => ClaimedMeasured
  <2> SUFFICES ASSUME call.of = "whisper", NEW n \in 1 .. 4, NEW refs \in SUBSET (1 .. 4),
                      call.episode = n, call.refs = refs
               PROVE  ClaimedMeasured
    BY Zenon DEF Init, ClaimedMeasured
  <2> DEFINE key == InSeries({n})
             answer == WhisperSubs(ClaimedIdent({n}, Season4), Season4, "enough", refs, Enough, Ratio)
             heard == Normalized(answer, 1, Season4)
  <2>1. PICK k \in DOMAIN Season4 : Season4[k].number = n /\ Season4[k].id = n
    BY InSeason4
  <2>2. Listed(Season4) /\ Distinct(Season4)
    BY Season4Is
  <2>3. /\ answer.status = "ok" <=> n \in refs
        /\ answer.status = "ok" =>
             /\ \E c \in heard.candidates : c.key = key
             /\ \A c \in heard.candidates : c.key = key => c.confidence = Discounted(Ratio[n], Enough[n], 10)
    <3>0. IdsOf(Season4, k) = {n}
      BY <2>1 DEF IdsOf
    <3>1. /\ answer = WhisperSubs(ClaimedIdent(IdsOf(Season4, k), Season4), Season4, "enough",
                                  refs, Enough, Ratio)
          /\ heard = Normalized(answer, 1, Season4)
      BY <3>0
    <3> HIDE DEF answer, heard
    <3>2. LET m  == Season4[k].number
              km == InSeries(IdsOf(Season4, k))
          IN  /\ answer.status = "ok" <=> m \in refs
              /\ answer.status = "ok" =>
                   /\ \E c \in heard.candidates : c.key = km
                   /\ \A c \in heard.candidates : c.key = km =>
                         c.confidence = Discounted(Ratio[m], Enough[m], 10)
      BY <2>2, <3>1, WhisperMeasures
    <3> QED
      BY <2>1, <3>0, <3>2
  <2>4. \A m \in 1 .. 4 : Discounted(Ratio[m], Enough[m], 10) = Ratio[m] /\ Ratio[m] \in Grid
    <3> SUFFICES ASSUME NEW m \in 1 .. 4
                 PROVE  Discounted(Ratio[m], Enough[m], 10) = Ratio[m] /\ Ratio[m] \in Grid
      OBVIOUS
    <3>1. Enough[m] = 10 /\ Ratio[m] = 20 * m /\ m \in {1, 2, 3, 4}
      BY DEF Enough, Ratio
    <3>2. Min({10, 10}) = 10
      BY MinIs, {10, 10} \in SUBSET Nat
    <3>3. Ratio[m] \in Grid
      BY <3>1 DEF Grid
    <3>4. (Ratio[m] * 10) \div 10 = Ratio[m]
      BY <3>1
    <3> QED
      BY <3>1, <3>2, <3>3, <3>4 DEF Discounted
  <2>5. ASSUME answer.status = "ok", NEW c \in heard.candidates
        PROVE  c.confidence \in Grid
    <3> DEFINE claimed == ClaimedIdent({n}, Season4)
               compared == ComparedWith(claimed, Season4, refs)
               guess(i) == Comparison(claimed, Season4, Enough, Ratio, i)
    <3>1. \A g \in answer.candidates : \E i \in compared : g = guess(i)
      <4>1. "enough" \in {"nothing", "too_little", "enough"}
        OBVIOUS
      <4>2. answer = WhisperSubs(claimed, Season4, "enough", refs, Enough, Ratio)
        OBVIOUS
      <4> HIDE DEF answer, claimed
      <4> QED
        BY <2>5, <4>1, <4>2, WhisperIs
    <3>2. heard.candidates = {[key |-> NormalizeIdent(g.ident, "tvdb", Season4), confidence |-> g.confidence] :
                                g \in answer.candidates}
      BY DEF Normalized
    <3>3. \A i \in compared : Season4[i].number \in 1 .. 4
      BY DEF ComparedWith
    <3>4. \A i \in compared : guess(i).confidence =
             Discounted(Ratio[Season4[i].number], Enough[Season4[i].number], 10)
      BY DEF Comparison, Guess
    <3> HIDE DEF answer, heard, guess, compared
    <3>5. PICK i \in compared : c.confidence = guess(i).confidence
      BY <2>5, <3>1, <3>2
    <3> QED
      BY <2>4, <3>3, <3>4, <3>5
  <2>6. key # Unnormalizable
    BY DEF InSeries, Unnormalizable
  <2> HIDE DEF answer, heard, key
  <2>7. answer.status = "ok" => Says(heard, key)[key] = Ratio[n]
    BY <2>3, <2>4, <2>5, <2>6, OneConfidence
  <2> QED
    BY <2>3, <2>7 DEF ClaimedMeasured, answer, heard, key
<1>2. ClaimedMeasured /\ [Next]_call => ClaimedMeasured'
  BY DEF ClaimedMeasured, Next
<1> QED
  BY <1>1, <1>2, PTL DEF Spec

-----------------------------------------------------------------------------
(* No evidence *)

LEMMA NobodyAnswered ==
    ASSUME NEW outcomes, \A p \in DOMAIN outcomes : outcomes[p].status # "ok",
           NEW claimed, NEW flags, NEW cfg
    PROVE  Judge(outcomes, claimed, flags, cfg) = [outcome |-> "inconclusive", action |-> Nothing]
<1>1. Applicable(outcomes) = {}
  BY DEF Applicable
<1>2. Aggregate(outcomes, claimed, cfg).applicable_count = 0
  BY <1>1, FS_EmptySet DEF Aggregate
<1> QED
  BY <1>2 DEF Judge, Route

LEMMA WhisperSilent ==
    ASSUME NEW claimed, NEW series, NEW heard \in {"nothing", "too_little", "enough"},
           NEW refs, \A n \in refs : n \notin Named(claimed), NEW lines, NEW ratio
    PROVE  WhisperSubs(claimed, series, heard, refs, lines, ratio).status # "ok"
<1> DEFINE answer == WhisperSubs(claimed, series, heard, refs, lines, ratio)
           compared == ComparedWith(claimed, series, refs)
<1>1. ~Covered(claimed, compared, series)
  BY DEF Covered, ComparedWith
<1> HIDE DEF compared, answer
<1>2. answer.status = "ok" <=> heard = "enough" /\ Covered(claimed, compared, series)
  BY WhisperIs DEF compared, answer
<1> QED
  BY <1>1, <1>2 DEF answer

LEMMA ModelsSilent ==
    ASSUME NEW claimed, NEW subs, NEW heard, NEW model, NEW chat, chat # "data",
           NEW ident, NEW confidence
    PROVE  /\ SubsLlm(claimed, subs, model, chat, ident, confidence).status # "ok"
           /\ TranscriptLlm(claimed, heard, model, chat, ident, confidence).status # "ok"
<1>1. Answer(claimed, chat, ident, confidence).status # "ok"
  BY DEF Answer, Fails
<1> QED
  BY <1>1 DEF SubsLlm, TranscriptLlm, Abstains

\* Whatever the series, the file, the weights and the settings: if there is no
\* reference for any of the claimed episodes and no model gives a usable reply,
\* the file is inconclusive and nothing is proposed.  (identify, aggregate, route)
THEOREM NoEvidence ==
    ASSUME NEW claimed, NEW series, NEW heard \in {"nothing", "too_little", "enough"},
           NEW refs, \A n \in refs : n \notin Named(claimed), NEW lines, NEW ratio,
           NEW subs, NEW model, NEW chat, chat # "data", NEW ident, NEW confidence,
           NEW whisper, whisper = WhisperSubs(claimed, series, heard, refs, lines, ratio),
           NEW by_subs, by_subs = SubsLlm(claimed, subs, model, chat, ident, confidence),
           NEW by_talk, by_talk = TranscriptLlm(claimed, heard, model, chat, ident, confidence),
           NEW outcomes, NEW key, NEW flags, NEW cfg,
           \A p \in DOMAIN outcomes :
              outcomes[p].status \in {whisper.status, by_subs.status, by_talk.status}
    PROVE  Judge(outcomes, key, flags, cfg) = [outcome |-> "inconclusive", action |-> Nothing]
<1>1. whisper.status # "ok"
  BY WhisperSilent
<1>2. by_subs.status # "ok" /\ by_talk.status # "ok"
  BY ModelsSilent
<1>3. \A p \in DOMAIN outcomes : outcomes[p].status # "ok"
  BY <1>1, <1>2
<1> QED
  BY <1>3, NobodyAnswered

\* NoEvidence in the form the run checks it.  (identify, aggregate, route)
THEOREM NoEvidenceNoActionHolds == Spec => []NoEvidenceNoAction
<1>1. Init => NoEvidenceNoAction
  <2> SUFFICES ASSUME call.of = "silence", NEW n \in 1 .. 4, NEW refs \in SUBSET (1 .. 4),
                      NEW flags \in Flags, NEW heard \in {"nothing", "too_little", "enough"},
                      NEW subs, NEW chat \in {"unavailable", "content_error"}, NEW model,
                      call.episode = n, call.refs = refs, call.flags = flags, call.heard = heard,
                      call.subs = subs, call.chat = chat, call.model = model
               PROVE  NoEvidenceNoAction
    BY Zenon DEF Init, NoEvidenceNoAction
  <2> DEFINE claimed == ClaimedIdent({n}, Season4)
             others == refs \ {n}
             whisper == WhisperSubs(claimed, Season4, heard, others, Enough, Ratio)
             by_subs == SubsLlm(claimed, subs, model, chat, claimed, 98)
             by_talk == TranscriptLlm(claimed, heard, model, chat, claimed, 98)
             answers == <<whisper, by_subs, by_talk>>
             outcomes == [p \in 1 .. 3 |-> Normalized(answers[p], 1, Season4)]
             key == InSeries({n})
  <2>1. Named(claimed) = {n}
    <3>1. PICK k \in DOMAIN Season4 : Season4[k].number = n /\ Season4[k].id = n
      BY InSeason4
    <3>2. Listed(Season4)
      BY Season4Is
    <3>3. Named(ClaimedIdent({Season4[k].id}, Season4)) = {Season4[k].number}
      BY <3>2, OneEpisode
    <3> QED
      BY <3>1, <3>3
  <2>2. \A m \in others : m \notin Named(claimed)
    BY <2>1
  <2> HIDE DEF claimed, others, key
  <2>3. \A a : Normalized(a, 1, Season4).status = a.status
    BY DEF Normalized
  <2>4. \A p \in DOMAIN outcomes :
           outcomes[p].status \in {whisper.status, by_subs.status, by_talk.status}
    <3> HIDE DEF whisper, by_subs, by_talk
    <3>1. answers[1] = whisper /\ answers[2] = by_subs /\ answers[3] = by_talk
      OBVIOUS
    <3>2. \A p \in 1 .. 3 : p = 1 \/ p = 2 \/ p = 3
      OBVIOUS
    <3>3. \A p \in 1 .. 3 : outcomes[p].status = answers[p].status
      BY <2>3
    <3> HIDE DEF answers
    <3> QED
      BY <3>1, <3>2, <3>3
  <2>5. whisper.status # "ok"
    BY <2>2, WhisperSilent
  <2>6. by_subs.status # "ok" /\ by_talk.status # "ok"
    BY ModelsSilent, chat # "data"
  <2> HIDE DEF outcomes, whisper, by_subs, by_talk
  <2>7. \A p \in DOMAIN outcomes : outcomes[p].status # "ok"
    BY <2>4, <2>5, <2>6
  <2>8. Judge(outcomes, key, flags, DefaultScoring) = [outcome |-> "inconclusive", action |-> Nothing]
    BY <2>7, NobodyAnswered
  <2>9. Judge(outcomes, key, flags, DefaultScoring).outcome = "inconclusive"
    BY <2>8
  <2> QED
    BY <2>9 DEF NoEvidenceNoAction, outcomes, whisper, by_subs, by_talk, claimed, others, key
<1>2. NoEvidenceNoAction /\ [Next]_call => NoEvidenceNoAction'
  BY DEF NoEvidenceNoAction, Next
<1> QED
  BY <1>1, <1>2, PTL DEF Spec
=============================================================================
