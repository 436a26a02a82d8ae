----------------------------- MODULE Discovery -----------------------------
(***************************************************************************)
(* Discovery for one Sonarr instance (src/impostarr/discovery.py): the     *)
(* poll of the import history and the backfill of the library, each one    *)
(* transaction that stays open while Sonarr is asked, on the event loop    *)
(* that also runs the pipeline's own database writes.                      *)
(*                                                                         *)
(* A coroutine gives way only where it awaits Sonarr, so a step reaches    *)
(* from one await to the next.  SQLite has one writer: the first INSERT of *)
(* a transaction takes the write lock and its commit gives it back, and a  *)
(* write on the event loop that finds it taken blocks the whole loop until *)
(* the busy timeout.                                                       *)
(***************************************************************************)
EXTENDS Naturals, Sequences, FiniteSets

CONSTANTS
    Files,         \* episode file ids
    SeriesOf,      \* the series of each file
    Series,        \* Sonarr's series ids
    Library,       \* the files Sonarr has before impostarr is installed
    Uncapturable,  \* files unmapped, outside watch_dirs, missing or unreadable
    Backfills,     \* concurrent backfill requests
    BatchSizes,    \* the batch_size they ask for; below 0 acts as 0
    MaxRecords     \* history records (bound)

NoSeries == 0
NoFile   == 0
None     == "none"
Poll     == "poll"
Pipeline == "pipeline"   \* any other coroutine that writes
Thread   == "thread"     \* a to_thread writer: claim, heartbeat, reaper

ASSUME FilesAssumption  == Files \subseteq Nat \ {NoFile} /\ Series \subseteq Nat \ {NoSeries}
ASSUME SeriesAssumption == SeriesOf \in [Files -> Series] /\ IsFiniteSet(Files \cup Series)
ASSUME SubsetAssumption == Library \subseteq Files /\ Uncapturable \subseteq Files
ASSUME BatchAssumption  == BatchSizes \subseteq Nat /\ MaxRecords \in Nat
ASSUME TasksAssumption  == Backfills \cap {None, Poll, Pipeline, Thread} = {}

Coroutines == Backfills \cup {Poll, Pipeline}

VARIABLES
    \* Sonarr
    library,     \* the episode files that exist
    history,     \* the import records: record i is about file history[i]
    \* the database
    rows,        \* rows of the files table, each with its job, per file
    watermark,   \* instances.history_watermark
    cursor,      \* instances.backfill_cursor, <<series, file>>, or NoCursor
    lock,        \* who holds SQLite's write lock
    \* the event loop
    blocked,     \* the coroutine whose write waits for the lock, and the loop with it
    poll,        \* the poll under way
    walk,        \* the backfill steps under way
    \* history
    excused,     \* files passed over for a reason the code states
    waived       \* files an operator's series_id jumped over

sonarr == <<library, history>>
db     == <<rows, watermark, cursor, lock>>
notes  == <<excused, waived>>
vars   == <<sonarr, db, blocked, poll, walk, notes>>

NoCursor == <<NoSeries, NoFile>>
IdlePoll == [pc |-> "idle", todo |-> <<>>, last |-> 0, staged |-> {}, passed |-> {}, known |-> {}]
IdleWalk == [pc |-> "idle", left |-> 0, from |-> NoCursor, at |-> NoSeries,
             cur |-> NoCursor, staged |-> {}, passed |-> {}, jumped |-> {}]

TypeOK ==
    /\ library \in SUBSET Files
    /\ history \in Seq(Files \cup {NoFile}) /\ Len(history) <= MaxRecords
    /\ rows \in [Files -> Nat]
    /\ watermark \in 0 .. Len(history)
    /\ cursor \in Series \X Files \cup {NoCursor}
    /\ lock \in (Coroutines \ {Pipeline}) \cup {Thread, None}
    /\ blocked \in Coroutines \cup {None}
    /\ poll \in [pc : {"idle", "asking", "fetching", "resolving"},
                 todo : Seq(1 .. MaxRecords), last : 0 .. MaxRecords,
                 staged : SUBSET Files, passed : SUBSET Files, known : SUBSET Series]
    /\ walk \in [Backfills ->
                    [pc : {"idle", "listing", "walking"}, left : Nat,
                     from : (Series \X (Files \cup {NoFile})) \cup {NoCursor},
                     at : Series \cup {NoSeries}, cur : Series \X Files \cup {NoCursor},
                     staged : SUBSET Files, passed : SUBSET Files,
                     jumped : SUBSET Files]]
    /\ excused \in SUBSET Files /\ waived \in SUBSET Files

Init ==
    /\ library = Library
    /\ history = <<>>
    /\ rows = [f \in Files |-> 0]
    /\ watermark = 0 /\ cursor = NoCursor
    /\ lock = None /\ blocked = None
    /\ poll = IdlePoll
    /\ walk = [b \in Backfills |-> IdleWalk]
    /\ excused = {} /\ waived = {}

-----------------------------------------------------------------------------
(* Slips: forms that a plausible bug would give to operators below; see    *)
(* JobQueue.                                                               *)

\* No unique constraint on (instance, episode file).
AlwaysUnique(f) == TRUE

\* A walk in Sonarr's order instead of id order, or one that takes a capped
\* series for finished.
LastOnes(S, n) == {f \in S : Cardinality({g \in S : g >= f}) <= n}
CapIsTheEnd(all, taken) == TRUE

-----------------------------------------------------------------------------
(* Helpers *)

Smallest(S) == CHOOSE x \in S : \A y \in S : x <= y
Largest(S)  == CHOOSE x \in S : \A y \in S : x >= y

\* The n smallest elements: `sorted`, then the batch cap.
FirstOnes(S, n) == {f \in S : Cardinality({g \in S : g <= f}) <= n}

\* history_since: the records above the watermark, by id.
IdsSince(w) == [k \in 1 .. Len(history) - w |-> w + k]

\* The watermark a batch leads to: its last record, skipped or not.
LastId(todo) == todo[Len(todo)]

MayWrite(t) == lock \in {None, t}

\* The loop stops in t's write until the lock is free or the wait times out.
Block(t) ==
    /\ blocked' = t
    /\ UNCHANGED <<sonarr, db, poll, walk, notes>>

\* uq_files_instance_episode_file
Unique(f) == rows[f] = 0

\* _file_exists, as a session sees it: committed rows and its own.
Exists(f, staged) == rows[f] > 0 \/ f \in staged

FreeLock(t) == lock' = IF lock = t THEN None ELSE lock

CommitRows(t, staged, passed) ==
    /\ rows' = [f \in Files |-> IF f \in staged THEN rows[f] + 1 ELSE rows[f]]
    /\ excused' = excused \cup passed
    /\ FreeLock(t)

-----------------------------------------------------------------------------
(* Sonarr *)

\* One import: a record per episode, all with the file's id.
Import(f) ==
    /\ f \notin Library /\ \A i \in DOMAIN history : history[i] # f
    /\ \E n \in 1 .. 2 :
          /\ Len(history) + n <= MaxRecords
          /\ history' = history \o [i \in 1 .. n |-> f]
    /\ library' = library \cup {f}
    /\ UNCHANGED <<db, blocked, poll, walk, notes>>

RecordWithoutFile ==
    /\ Len(history) < MaxRecords
    /\ history' = Append(history, NoFile)
    /\ UNCHANGED <<library, db, blocked, poll, walk, notes>>

Delete(f) ==
    /\ f \in library
    /\ library' = library \ {f}
    /\ UNCHANGED <<history, db, blocked, poll, walk, notes>>

-----------------------------------------------------------------------------
(* poll_once *)

PollStart ==
    /\ blocked = None /\ poll.pc = "idle"
    /\ poll' = [IdlePoll EXCEPT !.pc = "asking"]
    /\ UNCHANGED <<sonarr, db, blocked, walk, notes>>

PollRaises ==
    /\ poll' = IdlePoll
    /\ FreeLock(Poll)
    /\ UNCHANGED <<sonarr, rows, watermark, cursor, walk, notes>>

\* On to the next record that needs Sonarr, or to the commit of the batch.
PollOn(p) ==
    LET needed == {i \in DOMAIN p.todo :
                      /\ history[p.todo[i]] # NoFile
                      /\ ~Exists(history[p.todo[i]], p.staged)}
    IN
    IF needed # {}
      THEN /\ poll' = [p EXCEPT !.pc = "fetching",
                                !.todo = SubSeq(@, Smallest(needed), Len(@))]
           /\ lock' = IF p.staged # {} THEN Poll ELSE lock
           /\ UNCHANGED <<sonarr, rows, watermark, cursor, blocked, walk, notes>>
      ELSE IF MayWrite(Poll)
      THEN /\ CommitRows(Poll, p.staged, p.passed)
           /\ watermark' = p.last
           /\ poll' = IdlePoll
           /\ UNCHANGED <<sonarr, cursor, blocked, walk, waived>>
      ELSE Block(Poll)

PollHistory ==
    /\ blocked = None /\ poll.pc = "asking"
    /\ LET ids == IdsSince(watermark)
       IN  PollOn([poll EXCEPT !.todo = ids,
                               !.last = IF ids = <<>> THEN watermark ELSE LastId(ids)])

PollSkip(passed) ==
    PollOn([poll EXCEPT !.todo = Tail(@), !.passed = @ \cup passed])

PollInsert(f, known) ==
    IF ~MayWrite(Poll) THEN Block(Poll)
    ELSE IF ~Unique(f) THEN PollRaises /\ UNCHANGED blocked
    ELSE PollOn([poll EXCEPT !.todo = Tail(@), !.staged = @ \cup {f}, !.known = known])

\* The answer of episode_file, the capture's own tests, and, when the series'
\* episodes are cached, the INSERT.
PollFile(f) ==
    /\ blocked = None /\ poll.pc = "fetching" /\ f = history[Head(poll.todo)]
    /\ IF f \notin library             THEN PollSkip({f})
       ELSE IF Exists(f, poll.staged)   THEN PollSkip({})
       ELSE IF f \in Uncapturable       THEN PollSkip({f})
       ELSE IF SeriesOf[f] \in poll.known THEN PollInsert(f, poll.known)
       ELSE /\ poll' = [poll EXCEPT !.pc = "resolving"]
            /\ UNCHANGED <<sonarr, db, blocked, walk, notes>>

PollEpisodes(f) ==
    /\ blocked = None /\ poll.pc = "resolving" /\ f = history[Head(poll.todo)]
    /\ PollInsert(f, poll.known \cup {SeriesOf[f]})

\* A slip: any Sonarr error taken for a 404.
PollSwallows == blocked = None /\ poll.pc = "fetching" /\ PollSkip({})

\* A Sonarr call other than a 404 raises: the batch rolls back.
PollFails ==
    /\ blocked = None /\ poll.pc # "idle"
    /\ PollRaises
    /\ UNCHANGED blocked

-----------------------------------------------------------------------------
(* backfill_step *)

BackfillStart(b, n, from) ==
    /\ blocked = None /\ walk[b].pc = "idle"
    /\ walk' = [walk EXCEPT ![b] =
                  [IdleWalk EXCEPT !.pc = "listing", !.left = n, !.from = from,
                      !.jumped = IF n > 0 /\ from[1] # NoSeries /\ from[2] = NoFile
                                   THEN {f \in Files : SeriesOf[f] < from[1]} ELSE {}]]
    /\ UNCHANGED <<sonarr, db, blocked, poll, notes>>

\* Resume at the cursor, reset it, or go to a series.
BackfillRequest(b) ==
    \E n \in BatchSizes, from \in {cursor, NoCursor} \cup (Series \X {NoFile}) :
        BackfillStart(b, n, from)

SeriesFrom(s) == {t \in Series : t >= s}

BackfillCommit(b, w, at) ==
    /\ CommitRows(b, w.staged, w.passed)
    /\ cursor' = IF at = {} THEN NoCursor ELSE w.cur
    /\ waived' = waived \cup w.jumped
    /\ walk' = [walk EXCEPT ![b] = IdleWalk]
    /\ UNCHANGED <<sonarr, watermark, blocked, poll>>

BackfillSuspend(b, w) ==
    /\ walk' = [walk EXCEPT ![b] = w]
    /\ lock' = IF w.staged # {} THEN b ELSE lock
    /\ UNCHANGED <<sonarr, rows, watermark, cursor, blocked, poll, notes>>

\* The answer of all_series.  A request for no files ends here, with a cursor
\* of its own that is null.
BackfillListed(b) ==
    /\ blocked = None /\ walk[b].pc = "listing"
    /\ LET w  == walk[b]
           at == SeriesFrom(w.from[1])
       IN  IF at # {} /\ w.left > 0
             THEN BackfillSuspend(b, [w EXCEPT !.pc = "walking", !.at = Smallest(at)])
           ELSE IF MayWrite(b) THEN BackfillCommit(b, w, at)
           ELSE Block(b)

Exhausted(all, taken) == taken = all

\* The answers for one series: its files are captured in id order up to the
\* cap without giving way, then the walk goes on, or ends and commits.
BackfillSeries(b) ==
    /\ blocked = None /\ walk[b].pc = "walking"
    /\ LET w     == walk[b]
           all   == {f \in library : SeriesOf[f] = w.at /\ (w.at = w.from[1] => f > w.from[2])}
           taken == FirstOnes(all, w.left)
           fresh == {f \in taken : ~Exists(f, w.staged)}
           at    == IF Exhausted(all, taken) THEN SeriesFrom(w.at + 1) ELSE SeriesFrom(w.at)
           next  == [w EXCEPT !.left = @ - Cardinality(taken),
                              !.staged = @ \cup (fresh \ Uncapturable),
                              !.passed = @ \cup (fresh \cap Uncapturable),
                              !.cur = IF taken = {} THEN @ ELSE <<w.at, Largest(taken)>>,
                              !.at = IF at = {} THEN NoSeries ELSE Smallest(at)]
           over  == next.left = 0 \/ at = {} \/ ~Exhausted(all, taken)
       IN  IF ~MayWrite(b) /\ (over \/ fresh \ Uncapturable # {}) THEN Block(b)
           ELSE IF over THEN BackfillCommit(b, next, at)
           ELSE BackfillSuspend(b, next)

BackfillFails(b) ==
    /\ blocked = None /\ walk[b].pc # "idle"
    /\ walk' = [walk EXCEPT ![b] = IdleWalk]
    /\ FreeLock(b)
    /\ UNCHANGED <<sonarr, rows, watermark, cursor, blocked, poll, notes>>

-----------------------------------------------------------------------------
(* The other writers, and the wait for the lock *)

ThreadWrites  == lock = None /\ lock' = Thread
                 /\ UNCHANGED <<sonarr, rows, watermark, cursor, blocked, poll, walk, notes>>
ThreadCommits == lock = Thread /\ lock' = None
                 /\ UNCHANGED <<sonarr, rows, watermark, cursor, blocked, poll, walk, notes>>

\* A pipeline stage stores a row on the event loop; with the lock free that
\* is over at once.
PipelineWrites == blocked = None /\ ~MayWrite(Pipeline) /\ Block(Pipeline)

WriteProceeds ==
    /\ blocked # None /\ lock = None
    /\ blocked' = None
    /\ lock' = IF blocked = Pipeline THEN None ELSE blocked
    /\ UNCHANGED <<sonarr, rows, watermark, cursor, poll, walk, notes>>

\* "database is locked": the waiting transaction rolls back.
BusyTimeout ==
    /\ blocked # None /\ lock \in Coroutines
    /\ blocked' = None
    /\ \/ blocked = Poll /\ PollRaises
       \/ blocked = Pipeline /\ UNCHANGED <<sonarr, db, poll, walk, notes>>
       \/ /\ blocked \in Backfills
          /\ walk' = [walk EXCEPT ![blocked] = IdleWalk]
          /\ UNCHANGED <<sonarr, db, poll, notes>>

Crash ==
    /\ poll' = IdlePoll
    /\ walk' = [b \in Backfills |-> IdleWalk]
    /\ lock' = None /\ blocked' = None
    /\ UNCHANGED <<sonarr, rows, watermark, cursor, notes>>

-----------------------------------------------------------------------------
Next ==
    \/ \E f \in Files : Import(f) \/ Delete(f) \/ PollFile(f) \/ PollEpisodes(f)
    \/ RecordWithoutFile
    \/ PollStart \/ PollHistory \/ PollFails
    \/ \E b \in Backfills : \/ BackfillRequest(b) \/ BackfillListed(b)
                            \/ BackfillSeries(b) \/ BackfillFails(b)
    \/ ThreadWrites \/ ThreadCommits \/ PipelineWrites
    \/ WriteProceeds \/ BusyTimeout
    \/ Crash

Spec == Init /\ [][Next]_vars

-----------------------------------------------------------------------------
(* Properties *)

Settled(f) == rows[f] > 0 \/ f \in excused

\* The watermark passes no import by: every record at or below it has no file,
\* or its file has a row, or was passed over for a reason the code states;
\* rollbacks, crashes and racing backfills included.
NothingPassedBy ==
    \A i \in 1 .. watermark : history[i] # NoFile => Settled(history[i])

\* An episode file never gets two rows, and so no two jobs.
OneRowPerFile == \A f \in Files : rows[f] <= 1

\* The cursor is honest: whatever was in the library before it has been
\* looked at, or an operator's series_id jumped over it.
Before(f, c) == SeriesOf[f] < c[1] \/ (SeriesOf[f] = c[1] /\ f <= c[2])
CursorHonest ==
    \A f \in Library \cap library : Before(f, cursor) => Settled(f) \/ f \in waived

\* A request with a batch_size of 0, which the API accepts, ends.
NothingAsked(b) ==
    walk[b].pc = "listing" /\ walk[b].left = 0 /\ walk'[b].pc = "idle"

\* The cursor returns to null only when the whole library has been seen, or
\* when a request asked for no files: that one erases the cursor unseen.
BackfillComplete ==
    [][cursor # NoCursor /\ cursor' = NoCursor =>
         \/ \A f \in Library \cap library : (Settled(f) \/ f \in waived)'
         \/ \E b \in Backfills : NothingAsked(b)]_vars

\* The event loop never waits for itself: a write that blocks it waits for a
\* thread, not for a coroutine that needs the loop to go on.
LoopNeverWaitsForItself == blocked # None => lock \notin Coroutines
=============================================================================
