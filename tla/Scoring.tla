------------------------------ MODULE Scoring ------------------------------
(***************************************************************************)
(* scoring.py: aggregate, from the plugins' normalized candidates to the   *)
(* scores of the claimed episodes and of the best alternate, and route,    *)
(* from the scores to an outcome.  Pure functions, checked over all small  *)
(* sets of plugin answers.                                                 *)
(*                                                                         *)
(* A confidence is a percentage.  A score is a weighted mean, kept as a    *)
(* sum and a weight: of percentages for linear fusion, of log-odds for     *)
(* log-odds fusion, which is compared with the log-odds of a threshold     *)
(* where the code compares the probabilities.                              *)
(***************************************************************************)
EXTENDS Integers, FiniteSets, FiniteSetsExt

(* A candidate key: episodes of the claimed series by their ids, another   *)
(* series by its ids, or junk.                                             *)
InSeries(ids)    == [kind |-> "in_series", ids |-> ids]
CrossSeries(ids) == [kind |-> "cross_series", ids |-> ids]
Junk             == [kind |-> "junk", ids |-> {}]
Unnormalizable   == [kind |-> "unnormalizable", ids |-> {}]
NoKey            == [kind |-> "none", ids |-> {}]

(* Settings *)
DefaultThresholds ==
    [quarantine |-> 80, auto |-> 40, alt |-> 80, alt_margin |-> 20, auto_min_evidence |-> 2]

DefaultScoring ==
    [fusion |-> "logodds", outlier_rejection |-> TRUE,
     outlier_high |-> 80, outlier_low |-> 20, outlier_min_agreeing |-> 2]

Scorings == [fusion : {"linear", "logodds"}, outlier_rejection : BOOLEAN,
             outlier_high : {80}, outlier_low : {20}, outlier_min_agreeing : {2}]

(* The log-odds of a percentage in thousandths of a bit, on a grid. *)
Eps  == 2
Grid == {0, 2, 20, 30, 40, 50, 60, 70, 80, 98, 100}

Clamp(c) == Max({Eps, Min({c, 100 - Eps})})

LogOdds(c) ==
    CASE c = 98 -> 5615 [] c = 80 -> 2000 [] c = 70 -> 1222 [] c = 60 -> 585
      [] c = 50 -> 0 [] c = 40 -> -585 [] c = 30 -> -1222 [] c = 20 -> -2000
      [] c = 2 -> -5615

-----------------------------------------------------------------------------
(* Slips *)

ScaleInverted(cfg, c) == IF cfg.fusion = "linear" THEN c ELSE LogOdds(100 - Clamp(c))

RejectNothing(reports, cfg) == DOMAIN reports

ApplicableWithErrors(outcomes) == {p \in DOMAIN outcomes : outcomes[p].status # "abstain"}

-----------------------------------------------------------------------------
(* aggregate *)

\* An outcome of the plugin stage: status, weight and a set of candidates,
\* each a normalized key and a confidence.
Applicable(outcomes) == {p \in DOMAIN outcomes : outcomes[p].status = "ok"}

\* What one plugin reports per key: the highest of its candidates that
\* normalize to it, and 0 on the claimed key if none of them does.
Says(answer, claimed) ==
    LET usable == {c \in answer.candidates : c.key # Unnormalizable}
    IN  [k \in {c.key : c \in usable} \cup {claimed} |->
            Max({0} \cup {c.confidence : c \in {d \in usable : d.key = k}})]

ReportsOn(k, says) == [p \in {q \in DOMAIN says : k \in DOMAIN says[q]} |-> says[p][k]]

\* The plugins whose report on a key counts.
RejectOutliers(reports, cfg) ==
    LET high == {p \in DOMAIN reports : reports[p] >= cfg.outlier_high}
        low  == DOMAIN reports \ high
        rejected == /\ cfg.outlier_rejection
                    /\ Cardinality(high) >= cfg.outlier_min_agreeing
                    /\ \A p \in low : reports[p] <= cfg.outlier_low
    IN  IF rejected THEN high ELSE DOMAIN reports

Scale(cfg, c) == IF cfg.fusion = "linear" THEN c ELSE LogOdds(Clamp(c))

\* 0.0 without any weight; with log-odds that is below every clamped report.
Nought(cfg) == [sum |-> IF cfg.fusion = "linear" THEN 0 ELSE -10000, weight |-> 1]

Fuse(reports, pool, weight, cfg) ==
    LET total  == SumFunctionOnSet(weight, pool)
        scaled == [p \in pool |-> weight[p] * Scale(cfg, reports[p])]
    IN  IF total = 0 THEN Nought(cfg)
        ELSE [sum |-> SumFunctionOnSet(scaled, pool), weight |-> total]

Score(k, says, weight, cfg) ==
    LET reports == ReportsOn(k, says)
    IN  Fuse(reports, RejectOutliers(reports, cfg), weight, cfg)

\* A slip: the sum is not divided by the weight.
AtLeastInTotal(s, c, cfg) == s.sum >= Scale(cfg, c)

Higher(s, t)       == s.sum * t.weight > t.sum * s.weight
AtLeast(s, c, cfg) == s.sum >= Scale(cfg, c) * s.weight

Alternates(says, claimed) == (UNION {DOMAIN says[p] : p \in DOMAIN says}) \ {claimed}

\* Ties go to the first key in the order of its text: "cross", "in_series",
\* "junk".  (Between two of one kind the text decides; here, any fixed one.)
TieRank(k) == CASE k.kind = "cross_series" -> 1 [] k.kind = "in_series" -> 2 [] k.kind = "junk" -> 3

BestKey(keys, score) ==
    LET best == {k \in keys : \A l \in keys : ~Higher(score[l], score[k])}
    IN  CHOOSE k \in best : \A l \in best : TieRank(k) <= TieRank(l)

Aggregate(outcomes, claimed, cfg) ==
    LET plugins == Applicable(outcomes)
        weight  == [p \in plugins |-> outcomes[p].weight]
        says    == [p \in plugins |-> Says(outcomes[p], claimed)]
        alts    == Alternates(says, claimed)
        score   == [k \in alts \cup {claimed} |-> Score(k, says, weight, cfg)]
        alt     == IF alts = {} THEN NoKey ELSE BestKey(alts, score)
    IN  [applicable_count |-> Cardinality(plugins),
         s_claimed |-> IF plugins = {} THEN Nought(cfg) ELSE score[claimed],
         alt_key   |-> alt,
         s_alt     |-> IF alt = NoKey THEN Nought(cfg) ELSE score[alt]]

-----------------------------------------------------------------------------
(* route *)

Nothing       == [verb |-> "none", target |-> {}]
Remap(ids)    == [verb |-> "remap", target |-> ids]
Replace       == [verb |-> "replace", target |-> {}]

\* s_alt - s_claimed >= alt_margin, on the way to remediation, where s_alt is
\* at least alt and s_claimed below auto: with log-odds the difference of the
\* probabilities is taken to be enough, as alt - auto >= alt_margin makes it.
FarEnough(sheet, t, cfg) ==
    \/ cfg.fusion = "logodds"
    \/ sheet.s_alt.sum * sheet.s_claimed.weight - sheet.s_claimed.sum * sheet.s_alt.weight
         >= t.alt_margin * sheet.s_alt.weight * sheet.s_claimed.weight

Credible(sheet, t, cfg) ==
    /\ sheet.alt_key # NoKey
    /\ AtLeast(sheet.s_alt, t.alt, cfg)
    /\ FarEnough(sheet, t, cfg)

Proposal(sheet, t, cfg) ==
    IF Credible(sheet, t, cfg) /\ sheet.alt_key.kind = "in_series"
      THEN Remap(sheet.alt_key.ids) ELSE Replace

Allowed(action, flags) == IF action.verb = "remap" THEN flags.auto_remap ELSE flags.auto_replace

Automatic(sheet, t, action, flags) ==
    /\ sheet.applicable_count >= t.auto_min_evidence
    /\ Allowed(action, flags)
    /\ ~flags.approval_required

Route(sheet, t, flags, cfg) ==
    IF sheet.applicable_count = 0 THEN [outcome |-> "inconclusive", action |-> Nothing]
    ELSE IF AtLeast(sheet.s_claimed, t.quarantine, cfg)
      THEN [outcome |-> "matched", action |-> Nothing]
    ELSE IF AtLeast(sheet.s_claimed, t.auto, cfg)
      THEN [outcome |-> "quarantine", action |-> Nothing]
    ELSE LET action == Proposal(sheet, t, cfg)
         IN  [outcome |-> IF Automatic(sheet, t, action, flags) THEN "remediate" ELSE "quarantine",
              action  |-> action]

Flags == [auto_remap : BOOLEAN, auto_replace : BOOLEAN, approval_required : BOOLEAN]

Judge(outcomes, claimed, flags, cfg) ==
    Route(Aggregate(outcomes, claimed, cfg), DefaultThresholds, flags, cfg)
-----------------------------------------------------------------------------
(* What plugins may report on the claimed episode and on another one.      *)

Silent  == -1
Levels  == {0, 20, 50, 80, 98}
Reports == Levels \cup {Silent}

Claimed == InSeries({1})
Other   == InSeries({2})

Vote(k, c)  == IF c = Silent THEN {} ELSE {[key |-> k, confidence |-> c]}
Ok(w, cs)   == [status |-> "ok", weight |-> w, candidates |-> cs]
NoAnswer(s) == [status |-> s, weight |-> 1, candidates |-> {}]

Answers == {NoAnswer(s) : s \in {"abstain", "error"}}
             \cup {Ok(1, Vote(Claimed, c) \cup Vote(Other, o)) : c, o \in Reports}
=============================================================================
