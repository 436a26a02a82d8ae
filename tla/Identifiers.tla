---------------------------- MODULE Identifiers ----------------------------
(***************************************************************************)
(* The bundled identifier plugins, as functions from what they are given   *)
(* to what they answer: whisper-subs, which compares the transcript with   *)
(* reference subtitles; subs-llm and transcript-llm, which ask a language  *)
(* model; and the client they ask it with (llm.py), which tries providers  *)
(* in order.  Their answers go through Normalize to Scoring.               *)
(*                                                                         *)
(* Texts are abstracted: a comparison is a ratio, a model's reply a season *)
(* and episodes with a confidence.                                         *)
(***************************************************************************)
EXTENDS Normalize

CONSTANT MaxCandidates   \* _MAX_CANDIDATES: episodes whisper-subs compares

ASSUME CandidatesAssumption == MaxCandidates \in Nat \ {0}

Abstains       == [status |-> "abstain", candidates |-> {}]
Fails          == [status |-> "error", candidates |-> {}]
Finds(answers) == [status |-> "ok", candidates |-> answers]

Guess(ident, confidence) == [ident |-> ident, confidence |-> confidence]

Named(ident) == {ident.episodes[i] : i \in DOMAIN ident.episodes}

-----------------------------------------------------------------------------
(* Slips *)

FirstEpisodes(claimed, series) ==
    {i \in DOMAIN series : series[i].season = claimed.season /\ i <= MaxCandidates}

CoveredByAny(claimed, compared, series) == compared # {}

SameList(ident, claimed) == ident.season = claimed.season /\ ident.episodes = claimed.episodes

DownOnAnyFailure == {"refused", "lost", "5xx", "other"}

-----------------------------------------------------------------------------
(* whisper-subs *)

Away(n, claimed) == Min({IF n >= m THEN n - m ELSE m - n : m \in Named(claimed)})

\* The episodes of the season nearest to the claimed ones; a stable sort.
Window(claimed, series) ==
    LET season == {i \in DOMAIN series : series[i].season = claimed.season}
        away(i) == Away(series[i].number, claimed)
        before(i) == {j \in season : away(j) < away(i) \/ (away(j) = away(i) /\ j < i)}
    IN  {i \in season : Cardinality(before(i)) < MaxCandidates}

\* A comparison with fewer lines than min_compared counts less.
Discounted(ratio, compared, min_compared) ==
    (ratio * Min({compared, min_compared})) \div min_compared

\* claimed_covered: one of the claimed episodes was compared.
Covered(claimed, compared, series) ==
    \E i \in compared : series[i].number \in Named(claimed)

\* refs: the episodes a reference subtitle can be had for; lines: of each, the
\* lines compared; ratio: the share that matches.
WhisperSubs(claimed, series, heard, refs, lines, ratio) ==
    LET compared == {i \in Window(claimed, series) : series[i].number \in refs}
        found == {Guess(Ident(claimed.season, <<series[i].number>>),
                        Discounted(ratio[series[i].number], lines[series[i].number], 10)) :
                     i \in compared}
    IN  CASE heard \in {"nothing", "too_little"}     -> Abstains
          [] heard = "unreadable_reference"          -> Fails
          [] heard = "enough" /\ Covered(claimed, compared, series)  -> Finds(found)
          [] heard = "enough" /\ ~Covered(claimed, compared, series) -> Abstains

-----------------------------------------------------------------------------
(* The model's client *)

\* Replies to a POST: usable JSON, unusable content, a status of 500 or more,
\* a refusal (401, 402, 403, 429 or a body that says insufficient_quota), a
\* lost connection, and any other status or a malformed envelope.
Replies == {"good", "unusable", "5xx", "refused", "lost", "other"}

DownReplies == {"refused", "lost", "5xx"}

\* _post_with_5xx_retry from the at-th reply of a provider on: the reply that
\* counts, and how many have been used up.  5xx now means twice.
Posted(replies, at) ==
    IF replies[at] = "5xx" THEN [reply |-> replies[at + 1], used |-> at + 1]
                           ELSE [reply |-> replies[at], used |-> at]

\* _call_provider: unusable content is sent back with a reminder, once.
CallProvider(replies) ==
    LET first  == Posted(replies, 1)
        second == Posted(replies, first.used + 1)
        last   == IF first.reply = "unusable" THEN second ELSE first
    IN  [result |-> CASE last.reply = "good"       -> "data"
                      [] last.reply \in DownReplies -> "down"
                      [] OTHER                      -> "content_error",
         used |-> last.used]

\* chat_json: the first provider that is not down decides.
ChatJson(providers) ==
    LET up == {p \in DOMAIN providers : CallProvider(providers[p]).result # "down"}
    IN  IF up = {} THEN [result |-> "unavailable", by |-> 0]
        ELSE [result |-> CallProvider(providers[Min(up)]).result, by |-> Min(up)]

-----------------------------------------------------------------------------
(* subs-llm and transcript-llm.  Their prompts are data. *)

\* build_episode_candidates takes lists for equal that have the same members.
IsClaimed(ident, claimed) == ident.season = claimed.season /\ Named(ident) = Named(claimed)

\* The claimed episodes, if the model named others, get what it left over.
EpisodeCandidates(ident, confidence, claimed) ==
    {Guess(ident, confidence)} \cup
        IF IsClaimed(ident, claimed) THEN {} ELSE {Guess(claimed, 100 - confidence)}

\* An answer without episodes is no CandidateIdent: the plugin fails.
Answer(claimed, chat, ident, confidence) ==
    IF chat = "data" /\ ident.episodes # <<>>
      THEN Finds(EpisodeCandidates(ident, confidence, claimed)) ELSE Fails

\* subs: the file's embedded subtitles; model: whether one is configured.
SubsLlm(claimed, subs, model, chat, ident, confidence) ==
    IF subs = "text" /\ model THEN Answer(claimed, chat, ident, confidence) ELSE Abstains

TranscriptLlm(claimed, heard, model, chat, ident, confidence) ==
    IF heard = "enough" /\ model THEN Answer(claimed, chat, ident, confidence) ELSE Abstains

-----------------------------------------------------------------------------
(* What the pipeline hands to aggregate. *)

Normalized(answer, weight, series) ==
    [status |-> answer.status, weight |-> weight,
     candidates |-> {[key |-> NormalizeIdent(g.ident, "tvdb", series), confidence |-> g.confidence] :
                        g \in answer.candidates}]
-----------------------------------------------------------------------------
(* A season of four episodes, more than the window holds, in another order *)
(* than their numbers', and one episode of the next.                       *)

Season4 == <<Episode(4, 1, 4, Missing), Episode(1, 1, 1, Missing), Episode(3, 1, 3, Missing),
             Episode(2, 1, 2, Missing), Episode(5, 2, 1, Missing)>>

Enough == [n \in 1 .. 4 |-> 10]
Ratio  == [n \in 1 .. 4 |-> 20 * n]
=============================================================================
