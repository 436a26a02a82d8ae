------------------------------ MODULE RefSubs ------------------------------
(***************************************************************************)
(* RefSubService (src/impostarr/refsubs.py): concurrent get() calls fetch  *)
(* reference subtitles from OpenSubtitles under a daily quota kept in a    *)
(* file, one login shared by all, and a lock that lets one request out at  *)
(* a time.                                                                 *)
(*                                                                         *)
(* All callers run on one event loop: what lies between two awaits is one  *)
(* step.  The quota lock is only held between awaits and needs no state.   *)
(* The manual directory and a missing tvdb id answer without touching any  *)
(* state and are left out.                                                 *)
(***************************************************************************)
EXTENDS Naturals, SequencesExt

CONSTANTS
    Callers,      \* concurrent get() calls
    Episodes,
    Languages,    \* languages tried per call, in order, as 1 .. Languages
    Strategies,   \* search queries tried per language (imdb, tvdb, title)
    Quota,        \* daily_quota
    NoEpisode,
    MaxTroubles   \* lost answers, dropped tokens, midnights, writes cut short (bound)

ASSUME CountsAssumption ==
    /\ {Languages, Strategies} \subseteq Nat \ {0}
    /\ {Quota, MaxTroubles} \subseteq Nat
ASSUME NamesAssumption == NoEpisode \notin Episodes /\ IsFiniteSet(Callers)

VARIABLES
    count,     \* quota.json's count for the current day
    cache,     \* the subtitles on disk, <<episode, language>>
    token,     \* the JWT held: "none", "good", or "bad" once dropped
    door,      \* who holds _login_lock, and who waits for it
    line,      \* who holds _pacing_lock, its request in flight, and who waits
    get,       \* each caller's get()
    \* OpenSubtitles, and history
    debited,   \* downloads it has counted today
    strays,    \* downloads today that the count need not cover (see Stray)
    logins,    \* logins since the process started or the token was dropped
    torn,      \* writes of today's quota.json that were cut short
    lost,      \* answers lost after the download was debited
    expired,   \* times OpenSubtitles has dropped the token
    day        \* UTC midnights

quota == <<count, cache>>
locks == <<door, line>>
world == <<debited, strays, torn, lost, expired, day>>
vars  == <<quota, token, locks, get, world, logins>>

Idle == [pc |-> "idle", ep |-> NoEpisode, lang |-> 1, query |-> 1, op |-> "search",
         call |-> "op", attempt |-> 0, tries |-> 0, sent |-> "good"]

Gets == [pc : {"idle", "door", "line", "backoff", "save"},
         ep : Episodes \cup {NoEpisode}, lang : 1 .. Languages,
         query : 1 .. Strategies, op : {"search", "download"},
         call : {"login", "relogin", "op", "again"},
         attempt : {0, 1}, tries : {0, 1}, sent : {"good", "bad"}]

TypeOK ==
    /\ count \in 0 .. Quota
    /\ cache \in SUBSET (Episodes \X (1 .. Languages))
    /\ token \in {"none", "good", "bad"}
    /\ door \in Seq(Callers) /\ line \in Seq(Callers)
    /\ get \in [Callers -> Gets]
    /\ {debited, strays, logins} \subseteq Nat
    /\ {torn, lost, expired, day} \subseteq 0 .. MaxTroubles

Init ==
    /\ count = 0 /\ cache = {} /\ token = "none"
    /\ door = <<>> /\ line = <<>>
    /\ get = [c \in Callers |-> Idle]
    /\ debited = 0 /\ strays = 0 /\ torn = 0 /\ logins = 0
    /\ lost = 0 /\ expired = 0 /\ day = 0

-----------------------------------------------------------------------------
(* Slips: forms that a plausible bug would give to operators below; see    *)
(* JobQueue.                                                               *)

\* Success and failure alike give the reservation back.
SettledAlways(paid) == FALSE

\* No second look at the token behind the lock.
LoginAnyway(c) == TRUE

\* The lock is left only by those who got a token.
StayBehind(c) == door

-----------------------------------------------------------------------------
(* Helpers *)

Troubles == lost + expired + torn + day

\* Does a caller hold a reservation it may still give back?
Reserved(c) == get[c].pc \notin {"idle", "save"}

UnderQuota(n) == n < Quota

\* A reservation stands once /download has succeeded.
Settled(paid) == paid

GiveBack(n, paid) == IF Settled(paid) \/ n = 0 THEN n ELSE n - 1

\* asyncio.Lock: the first of those who wait has it, and any may give up.  A
\* caller stands in a queue once.
AtHead(q, c) == q # <<>> /\ Head(q) = c

Without(q, c) ==
    IF \E i \in DOMAIN q : q[i] = c THEN RemoveAt(q, CHOOSE i \in DOMAIN q : q[i] = c) ELSE q

LeaveDoor(c) == Without(door, c)

\* An authenticated request begins: straight to the line with the token held
\* now, or to the login door.  d and l are the locks as the step leaves them.
Authed(c, r, tok, d, l) ==
    IF tok # "none"
      THEN /\ get' = [get EXCEPT ![c] = [r EXCEPT !.pc = "line", !.call = "op", !.sent = tok]]
           /\ line' = Append(l, c) /\ door' = d
      ELSE /\ get' = [get EXCEPT ![c] = [r EXCEPT !.pc = "door"]]
           /\ door' = Append(d, c) /\ line' = l

\* Does the fetch of language k write its reservation?
Reserves(e, k, n) == k <= Languages /\ <<e, k>> \notin cache /\ UnderQuota(n)

\* The loop of get() from language k on, with n units used: a cached file or
\* nothing more to try ends it, a reservation starts a fetch.
TryLanguage(c, e, k, n, d, l) ==
    IF Reserves(e, k, n)
      THEN /\ count' = n + 1
           /\ Authed(c, [Idle EXCEPT !.ep = e, !.lang = k], token, d, l)
      ELSE /\ get' = [get EXCEPT ![c] = Idle]
           /\ count' = n /\ door' = d /\ line' = l

\* The authenticated request came to nothing: the next search strategy, or
\* the end of this language's fetch.
NoResult(c, d, l) ==
    LET r == get[c]
    IN  IF r.op = "search" /\ r.query < Strategies
          THEN /\ Authed(c, [r EXCEPT !.query = @ + 1, !.attempt = 0], token, d, l)
               /\ UNCHANGED count
          ELSE TryLanguage(c, r.ep, r.lang + 1, GiveBack(count, FALSE), d, l)

-----------------------------------------------------------------------------
(* get() *)

Get(c) ==
    /\ get[c].pc = "idle"
    /\ \E e \in Episodes : TryLanguage(c, e, 1, count, door, line)
    /\ UNCHANGED <<cache, token, world, logins>>

\* Past the login lock the token is looked at again.
NeedsLogin(c) == token = "none"

EnterDoor(c) ==
    /\ get[c].pc = "door" /\ AtHead(door, c)
    /\ IF NeedsLogin(c)
         THEN /\ get' = [get EXCEPT ![c].pc = "line", ![c].call = "login", ![c].tries = 0]
              /\ line' = Append(line, c) /\ UNCHANGED door
         ELSE Authed(c, get[c], token, Without(door, c), line)
    /\ UNCHANGED <<quota, token, world, logins>>

InFlight(c, calls) == get[c].pc = "line" /\ get[c].call \in calls /\ AtHead(line, c)

\* A login that succeeds, first or after a 401.
LoggedIn(c) ==
    /\ InFlight(c, {"login", "relogin"})
    /\ token' = "good" /\ logins' = logins + 1
    /\ get' = [get EXCEPT ![c].call = IF @ = "login" THEN "op" ELSE "again",
                          ![c].sent = "good", ![c].tries = 0]
    /\ line' = Append(Tail(line), c) /\ door' = Without(door, c)
    /\ UNCHANGED <<quota, world>>

\* A 429 for the first time: sleep off the line, then once more.
Backoff(c) ==
    /\ get' = [get EXCEPT ![c].pc = "backoff"]
    /\ line' = Tail(line)
    /\ UNCHANGED <<count, door>>

LoginRefused(c) ==
    /\ InFlight(c, {"login", "relogin"})
    /\ \/ get[c].tries = 0 /\ Backoff(c)
       \/ NoResult(c, LeaveDoor(c), Tail(line))
    /\ UNCHANGED <<cache, token, world, logins>>

Resume(c) ==
    /\ get[c].pc = "backoff"
    /\ get' = IF get[c].call \in {"login", "relogin"}
                THEN [get EXCEPT ![c].pc = "line", ![c].tries = 1]
                ELSE [get EXCEPT ![c].pc = "line", ![c].attempt = 1, ![c].call = "op",
                                 ![c].sent = token]
    /\ line' = Append(line, c)
    /\ UNCHANGED <<quota, token, door, world, logins>>

\* 401: log in again, without the door, and repeat the request once.
Unauthorized(c) ==
    /\ InFlight(c, {"op", "again"}) /\ get[c].sent = "bad"
    /\ IF get[c].call = "op"
         THEN /\ get' = [get EXCEPT ![c].call = "relogin", ![c].tries = 0]
              /\ line' = Append(Tail(line), c)
              /\ UNCHANGED <<count, door>>
         ELSE NoResult(c, door, Tail(line))
    /\ UNCHANGED <<cache, token, world, logins>>

\* 429 or a failure.
Refused(c) ==
    /\ InFlight(c, {"op", "again"}) /\ get[c].sent = "good"
    /\ \/ get[c].attempt = 0 /\ Backoff(c)
       \/ NoResult(c, door, Tail(line))
    /\ UNCHANGED <<cache, token, world, logins>>

\* A search that finds nothing is Refused's second case.
Found(c) ==
    /\ InFlight(c, {"op", "again"}) /\ get[c].sent = "good" /\ get[c].op = "search"
    /\ Authed(c, [get[c] EXCEPT !.op = "download", !.attempt = 0], token, door, Tail(line))
    /\ UNCHANGED <<quota, token, world, logins>>

Downloading(c) == InFlight(c, {"op", "again"}) /\ get[c].sent = "good" /\ get[c].op = "download"

Downloaded(c) ==
    /\ Downloading(c)
    /\ debited' = debited + 1
    /\ get' = [get EXCEPT ![c] = [Idle EXCEPT !.pc = "save", !.ep = get[c].ep,
                                               !.lang = get[c].lang]]
    /\ count' = GiveBack(count, TRUE)
    /\ line' = Tail(line)
    /\ UNCHANGED <<cache, token, door, strays, torn, lost, expired, day, logins>>

\* OpenSubtitles counts a download whose answer does not arrive or has no
\* link; the reservation is given back all the same.
Stray ==
    /\ Troubles < MaxTroubles
    /\ lost' = lost + 1 /\ debited' = debited + 1 /\ strays' = strays + 1
    /\ UNCHANGED <<torn, expired, day>>

DownloadLost(c) ==
    /\ Downloading(c)
    /\ Stray
    /\ NoResult(c, door, Tail(line))
    /\ UNCHANGED <<cache, token, logins>>

\* The CDN link, not paced; the file appears under its name in one rename.
Save(c) ==
    /\ get[c].pc = "save"
    /\ \/ /\ cache' = cache \cup {<<get[c].ep, get[c].lang>>}
          /\ get' = [get EXCEPT ![c] = Idle]
          /\ UNCHANGED <<count, locks>>
       \/ /\ TryLanguage(c, get[c].ep, get[c].lang + 1, count, door, line)
          /\ UNCHANGED cache
    /\ UNCHANGED <<token, world, logins>>

\* The plugin is cancelled at an await; `finally` gives the reservation back.
Cancel(c) ==
    /\ get[c].pc # "idle"
    /\ get' = [get EXCEPT ![c] = Idle]
    /\ door' = Without(door, c) /\ line' = Without(line, c)
    /\ count' = GiveBack(count, ~Reserved(c))
    /\ \/ UNCHANGED world
       \/ Downloading(c) /\ Stray
    /\ UNCHANGED <<cache, token, logins>>

-----------------------------------------------------------------------------
(* quota.json is truncated and then written: a write cut short leaves a    *)
(* file without JSON, which _load_quota reads as nothing used.             *)

\* c is about to reserve, or may have to give back.
WritesQuota(c) ==
    \/ Reserved(c)
    \/ get[c].pc = "idle" /\ \E e \in Episodes : Reserves(e, 1, count)
    \/ get[c].pc = "save" /\ Reserves(get[c].ep, get[c].lang + 1, count)

Torn ==
    /\ Troubles < MaxTroubles
    /\ torn' = torn + 1 /\ count' = 0

\* OpenSubtitles may count the download that a caller gave up in flight.
MayDebit(callers) ==
    debited' \in {debited} \cup {debited + 1 : c \in {d \in callers : Downloading(d)}}

\* A full disk: write_text raises, and the exception ends this get().
WriteFails(c) ==
    /\ WritesQuota(c)
    /\ Torn /\ MayDebit({c})
    /\ get' = [get EXCEPT ![c] = Idle]
    /\ door' = Without(door, c) /\ line' = Without(line, c)
    /\ UNCHANGED <<cache, token, logins, strays, lost, expired, day>>

-----------------------------------------------------------------------------
(* Around it *)

\* OpenSubtitles no longer takes the token.
TokenDropped ==
    /\ token = "good" /\ Troubles < MaxTroubles
    /\ token' = "bad" /\ expired' = expired + 1 /\ logins' = 0
    /\ get' = [c \in Callers |-> IF get[c].pc = "line" THEN [get[c] EXCEPT !.sent = "bad"]
                                                      ELSE get[c]]
    /\ UNCHANGED <<quota, locks, debited, strays, torn, lost, day>>

\* quota.json's date is yesterday's: the count starts from zero, here and at
\* OpenSubtitles; the fetches under way were reserved yesterday.
NewDay ==
    /\ Troubles < MaxTroubles
    /\ day' = day + 1 /\ count' = 0 /\ debited' = 0 /\ torn' = 0
    /\ strays' = Cardinality({c \in Callers : Reserved(c)})
    /\ UNCHANGED <<cache, token, locks, get, lost, expired, logins>>

\* The process dies, between two writes of quota.json or in one.
Crash ==
    /\ get' = [c \in Callers |-> Idle]
    /\ door' = <<>> /\ line' = <<>> /\ token' = "none" /\ logins' = 0
    /\ \/ UNCHANGED <<count, torn>>
       \/ (\E c \in Callers : WritesQuota(c)) /\ Torn
    /\ MayDebit(Callers)
    /\ UNCHANGED <<cache, strays, lost, expired, day>>

-----------------------------------------------------------------------------
Answer(c) ==
    \/ LoggedIn(c) \/ LoginRefused(c) \/ Unauthorized(c)
    \/ Refused(c) \/ Found(c) \/ Downloaded(c) \/ DownloadLost(c)

Next ==
    \/ \E c \in Callers : \/ Get(c) \/ EnterDoor(c) \/ Answer(c)
                          \/ Resume(c) \/ Save(c) \/ Cancel(c) \/ WriteFails(c)
    \/ TokenDropped \/ NewDay \/ Crash

Spec == Init /\ [][Next]_vars

\* The event loop runs every ready task and every HTTP request ends, if only
\* in its timeout; asyncio's locks are first come, first served.
Fairness ==
    \A c \in Callers : WF_vars(EnterDoor(c) \/ Answer(c) \/ Resume(c) \/ Save(c))

FairSpec == Spec /\ Fairness

-----------------------------------------------------------------------------
(* Properties *)

\* The quota holds up to what the service cannot know: downloads of a day
\* exceed daily_quota by no more than the answers lost that day, the fetches
\* that midnight caught under way, and one daily_quota for every write of
\* quota.json that was cut short.  Retries, logins, cancellations, concurrent
\* reservations and crashes outside a write add nothing.
QuotaBound == debited <= Quota + strays + Quota * torn

\* Callers that arrive without a token share one login.
SingleFlight == expired = 0 => logins <= 1

\* Every get() returns: the login door and the line never wait for each
\* other, and every retry is bounded, however often the token is dropped.
GetReturns == \A c \in Callers : get[c].pc # "idle" ~> get[c].pc = "idle"
=============================================================================
