----------------------------- MODULE Judgement -----------------------------
(***************************************************************************)
(* The functions that make a judgement out of what the plugins were given: *)
(* Identifiers, Normalize and Scoring, from a model's reply or a           *)
(* comparison with subtitles to the outcome of the job.                    *)
(*                                                                         *)
(* They keep no state.  A behaviour here is one call of them, with inputs  *)
(* from small sets; a property says of what a call is about.               *)
(***************************************************************************)
EXTENDS Identifiers

VARIABLE call   \* the function that is called, and what with

SeriesAndIds ==
    {file \in {s \in Series3 : Distinct(s)} \X ((SUBSET {1, 2, 3}) \ {{}}) :
        OneSeason(file[2], file[1])}

Named3 == UNION {[1 .. k -> 1 .. 5] : k \in 1 .. 3}

Init ==
    \/ call \in [of : {"dissent"}, high1 : {80, 98, 100}, high2 : {80, 98, 100},
                 third : Grid \cup {Silent}, other : Reports, flags : Flags]
    \/ call \in [of : {"raise"}, cfg : Scorings, weight : 0 .. 2, second : Reports, third : Reports]
    \/ call \in [of : {"pair"}, cfg : Scorings, answers : Answers \X Answers, flags : Flags]
    \/ call \in [of : {"claim"}, file : SeriesAndIds]
    \/ call \in [of : {"candidate"}, series : {s \in Series3 : Distinct(s)},
                 season : 1 .. 2, episodes : (1 .. 4) \X (1 .. 4)]
    \/ call \in [of : {"whisper"}, episode : 1 .. 4, refs : SUBSET (1 .. 4)]
    \/ call \in [of : {"model"}, ids : {{1}, {3}, {1, 2}, {2, 3}}, season : 1 .. 2,
                 episodes : Named3, confidence : {0, 30, 50, 98}]
    \/ call \in [of : {"chat"}, replies : [1 .. 4 -> Replies], next : Replies]
    \/ call \in [of : {"silence"}, episode : 1 .. 4, refs : SUBSET (1 .. 4), flags : Flags,
                 heard : {"nothing", "too_little", "enough"}, subs : {"none", "images", "text"},
                 chat : {"unavailable", "content_error"}, model : BOOLEAN]

Next == UNCHANGED call

Spec == Init /\ [][Next]_call

-----------------------------------------------------------------------------
(* Properties *)

\* One plugin cannot turn a file two others recognise into an impostor: with
\* the default settings no action is even proposed, and if it is alone with
\* a very low report, or agrees, the file is matched.
\* (_reject_outliers, _fuse; the rationale in ScoringConfig)
Side(c) == IF c >= 80 THEN "high" ELSE IF c <= 20 THEN "low" ELSE "between"

LoneDissenterLoses ==
    call.of = "dissent" =>
        LET judged == Judge(<<Ok(1, Vote(Claimed, call.high1)), Ok(1, Vote(Claimed, call.high2)),
                              Ok(1, Vote(Claimed, call.third) \cup Vote(Other, call.other))>>,
                            Claimed, call.flags, DefaultScoring)
        IN  /\ judged.action = Nothing
            /\ Side(call.third) # "between" => judged.outcome = "matched"

\* More confidence in the claimed episode never lowers its score, whatever
\* the weights, fusion and the other reports, as long as the report stays on
\* its side of the two outlier bounds.  (Across them it may: a report of 20
\* can be excluded where one of 30 counts.)  (aggregate)
RaiseHelps ==
    call.of = "raise" =>
        LET score == [c \in Grid |->
                        Aggregate(<<Ok(call.weight, Vote(Claimed, c)), Ok(1, Vote(Claimed, call.second)),
                                    Ok(1, Vote(Claimed, call.third))>>, Claimed, call.cfg).s_claimed]
        IN  \A c, d \in Grid : c < d /\ Side(c) = Side(d) => ~Higher(score[c], score[d])

\* An automatic remap rests on evidence: two plugins answered, one of them
\* doubts the claimed episode, one puts the target, another episode, at the
\* threshold for alternates or above; and no approval was asked for.
\* (aggregate, route)
AutoRemapBacked ==
    call.of = "pair" =>
        LET judged == Judge(call.answers, Claimed, call.flags, call.cfg)
            target == InSeries(judged.action.target)
            both   == {call.answers[1], call.answers[2]}
        IN  judged.outcome = "remediate" /\ judged.action.verb = "remap" =>
              /\ \A a \in both : a.status = "ok"
              /\ target # Claimed
              /\ \E a \in both : Says(a, Claimed)[Claimed] < DefaultThresholds.auto
              /\ \E c \in UNION {a.candidates : a \in both} :
                    c.key = target /\ c.confidence >= DefaultThresholds.alt
              /\ call.flags.auto_remap /\ ~call.flags.approval_required

\* A plugin that answers with the very episodes it was told the file claims
\* is heard as a vote for them: the way to numbers and back to ids loses
\* nothing, for files of one season and whatever order Sonarr lists the
\* episodes in.  (_build_claimed_ident, normalize)
ClaimedRoundTrip ==
    call.of = "claim" =>
        LET series == call.file[1]
            ids    == call.file[2]
        IN  NormalizeIdent(ClaimedIdent(ids, series), "tvdb", series) = InSeries(ids)

\* A candidate never stands for part of what it names: it is an in-series key
\* with an id for each of its numbers, or of no use, in every numbering but
\* the scene's; and without scene numbers the scene's is TVDB's.
\* (normalize, _match_scene)
NeverPartial ==
    call.of = "candidate" =>
        LET Key(numbering) == NormalizeIdent(Ident(call.season, call.episodes), numbering, call.series)
        IN  /\ \A numbering \in Numberings \ {"scene"} :
                  Key(numbering) # Unnormalizable =>
                      Cardinality(Key(numbering).ids \ {NoId})
                        = Cardinality({call.episodes[1], call.episodes[2]})
            /\ (\A i \in DOMAIN call.series : call.series[i].scene_number = Missing) =>
                  Key("scene") = Key("tvdb")

\* The score whisper-subs gives a file of one episode is always a measured
\* one: it answers exactly when the claimed episode could be compared, and
\* what aggregate takes for its vote is that comparison, never the 0 of a
\* plugin that kept silent.  ("Evidence integrity"; identify, normalize,
\* aggregate)
ClaimedMeasured ==
    call.of = "whisper" =>
        LET n      == call.episode
            key    == InSeries({n})
            answer == WhisperSubs(ClaimedIdent({n}, Season4), Season4, "enough", call.refs, Enough, Ratio)
            heard  == Normalized(answer, 1, Season4)
        IN  /\ (answer.status = "ok") <=> (n \in call.refs)
            /\ answer.status = "ok" => /\ \E c \in heard.candidates : c.key = key
                                      /\ Says(heard, key)[key] = Ratio[n]

\* A model has one vote on the claim: its confidence if it names the claimed
\* episodes, in whatever order and however often, and what is left of it
\* otherwise.  (build_episode_candidates, normalize, aggregate)
AnswerDecidesClaim ==
    call.of = "model" =>
        LET ident == Ident(call.season, call.episodes)
            key   == InSeries(call.ids)
            heard == Normalized(Answer(ClaimedIdent(call.ids, Season4), "data", ident, call.confidence),
                                1, Season4)
        IN  Says(heard, key)[key] =
              IF NormalizeIdent(ident, "tvdb", Season4) = key THEN call.confidence
                                                              ELSE 100 - call.confidence

\* The next provider is asked only if the one before was heard to be down: a
\* refusal, a lost connection or two 5xx in a row, and nothing better before
\* but content that did not parse; none is asked more than four times.
\* (chat_json, _call_provider, _post_with_5xx_retry)
PassedOverForCause ==
    call.of = "chat" =>
        LET s    == call.replies
            used == CallProvider(s).used
        IN  /\ used <= 4
            /\ ChatJson(<<s, [i \in 1 .. 4 |-> call.next]>>).by # 1 =>
                  /\ \A i \in 1 .. used : s[i] \notin {"good", "other"}
                  /\ \/ s[used] \in {"refused", "lost"}
                     \/ used > 1 /\ s[used] = "5xx" /\ s[used - 1] = "5xx"

\* Missing evidence is not negative evidence: with no reference for the claimed
\* episode and no usable reply of a model the file is inconclusive, whatever
\* else was compared or extracted and whatever the settings.
\* (identify, aggregate, route)
NoEvidenceNoAction ==
    call.of = "silence" =>
        LET n       == call.episode
            claimed == ClaimedIdent({n}, Season4)
            answers == <<WhisperSubs(claimed, Season4, call.heard, call.refs \ {n}, Enough, Ratio),
                         SubsLlm(claimed, call.subs, call.model, call.chat, claimed, 98),
                         TranscriptLlm(claimed, call.heard, call.model, call.chat, claimed, 98)>>
        IN  Judge([p \in 1 .. 3 |-> Normalized(answers[p], 1, Season4)],
                  InSeries({n}), call.flags, DefaultScoring).outcome = "inconclusive"
=============================================================================
