----------------------------- MODULE Normalize -----------------------------
(***************************************************************************)
(* From episode numbers to Sonarr's episode ids and back: normalize.py     *)
(* maps a plugin's candidate to a candidate key, _build_claimed_ident      *)
(* (pipeline.py) tells the plugins by its numbers which episodes a file    *)
(* claims to hold.  Scoring compares the two by ids.                       *)
(*                                                                         *)
(* A series is Sonarr's list of episodes, a sequence of records; Missing   *)
(* stands for a number Sonarr does not give.                               *)
(***************************************************************************)
EXTENDS Sequences, Scoring

Missing == -1
NoId    == 0

Numberings == {"tvdb", "tmdb", "absolute", "scene"}

(* An identification: the claimed series or another one, a season and a    *)
(* list of episode numbers.  NoIdent is None: not an episode at all.       *)
Ident(season, episodes) == [series |-> "claimed", season |-> season, episodes |-> episodes]
NoIdent == [series |-> "none", season |-> 0, episodes |-> <<>>]

-----------------------------------------------------------------------------
(* Slips *)

ResolvedAnyhow(ids) == TRUE

AbsoluteNumbers(ids, series) ==
    LET matched == {i \in DOMAIN series : series[i].id \in ids}
    IN  [season |-> series[Min(matched)].season, episodes |-> {series[i].absolute : i \in matched}]

-----------------------------------------------------------------------------
(* normalize *)

\* The id of the first episode at one of the given positions.
First(series, hits) == IF hits = {} THEN NoId ELSE series[Min(hits)].id

Numbered(series, season, n) ==
    {i \in DOMAIN series : series[i].season = season /\ series[i].number = n}

SceneNumbered(series, season, n) ==
    {i \in DOMAIN series : series[i].scene_season = season /\ series[i].scene_number = n}

SceneAbsolute(series, n) == {i \in DOMAIN series : series[i].scene_absolute = n}

Absolute(series, n) == {i \in DOMAIN series : series[i].absolute = n}

\* Scene numbers: by the scene's pair, else its absolute number, else plainly.
SceneHits(series, season, n) ==
    LET pair     == SceneNumbered(series, season, n)
        absolute == SceneAbsolute(series, n)
    IN  IF pair # {} THEN pair
        ELSE IF absolute # {} THEN absolute ELSE Numbered(series, season, n)

Match(series, numbering, season, n) ==
    First(series, CASE numbering \in {"tvdb", "tmdb"} -> Numbered(series, season, n)
                    [] numbering = "absolute"         -> Absolute(series, n)
                    [] numbering = "scene"            -> SceneHits(series, season, n))

\* Every number must resolve, or the whole candidate is of no use.
Resolved(ids) == NoId \notin ids

NormalizeIdent(ident, numbering, series) ==
    LET ids == {Match(series, numbering, ident.season, ident.episodes[i]) : i \in DOMAIN ident.episodes}
    IN  CASE ident = NoIdent           -> Junk
          [] ident.series = "other"    -> CrossSeries({1})
          [] ident.series = "claimed" /\ Resolved(ids)  -> InSeries(ids)
          [] ident.series = "claimed" /\ ~Resolved(ids) -> Unnormalizable

-----------------------------------------------------------------------------
(* The claimed episodes *)

\* _season_and_numbers: the season is that of the first match.
SeasonAndNumbers(ids, series) ==
    LET matched == {i \in DOMAIN series : series[i].id \in ids}
    IN  [season |-> series[Min(matched)].season, episodes |-> {series[i].number : i \in matched}]

Ascending(S) == CHOOSE q \in [1 .. Cardinality(S) -> S] :
                    \A i, j \in 1 .. Cardinality(S) : i < j => q[i] < q[j]

ClaimedIdent(ids, series) ==
    LET found == SeasonAndNumbers(ids, series)
    IN  Ident(found.season, Ascending(found.episodes))

-----------------------------------------------------------------------------
(* Series of three episodes in two seasons.                                *)

Episode(i, season, n, scene) ==
    [id |-> i, season |-> season, number |-> n, absolute |-> i,
     scene_season |-> IF scene = Missing THEN Missing ELSE season,
     scene_number |-> scene, scene_absolute |-> Missing]

Series3 ==
    {<<Episode(3, s[1], n[1], c[1]), Episode(1, s[2], n[2], c[2]), Episode(2, s[3], n[3], c[3])>> :
        s \in [1 .. 3 -> 1 .. 2], n \in [1 .. 3 -> 1 .. 3], c \in [1 .. 3 -> {Missing, 1, 2}]}

\* No two episodes have the same season and number.
Distinct(series) ==
    \A i, j \in DOMAIN series : i # j =>
        \/ series[i].season # series[j].season
        \/ series[i].number # series[j].number

OneSeason(ids, series) ==
    \A i, j \in {k \in DOMAIN series : series[k].id \in ids} : series[i].season = series[j].season
=============================================================================
