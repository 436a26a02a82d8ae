--------------------------- MODULE DiscoveryProofs ---------------------------
(***************************************************************************)
(* That discovery passes nothing by, proved for any files and series, any  *)
(* library, any number of concurrent backfill requests with any batch      *)
(* sizes, 0 among them, and any number of history records.                 *)
(*                                                                         *)
(* A transaction that has inserted something holds the write lock, so      *)
(* nobody else inserts what it is about to commit.  What a transaction has *)
(* gone past is stored, or about to be stored or excused when it commits:  *)
(* a poll keeps the records it still has to look at, a walk has seen all   *)
(* that lies before its place.                                             *)
(***************************************************************************)
EXTENDS Discovery, FiniteSetTheorems, SequenceTheorems, WellFoundedInduction, TLAPS

PollFields(p) == [pc |-> p.pc, todo |-> p.todo, last |-> p.last,
                  staged |-> p.staged, passed |-> p.passed, known |-> p.known]
WalkFields(w) == [pc |-> w.pc, left |-> w.left, from |-> w.from, at |-> w.at,
                  cur |-> w.cur, staged |-> w.staged, passed |-> w.passed,
                  jumped |-> w.jumped]

Shape ==
    /\ library \subseteq Files
    /\ history \in Seq(Files \cup {NoFile})
    /\ rows \in [Files -> Nat]
    /\ watermark \in 0 .. Len(history)
    /\ cursor \in Nat \X Nat
    /\ poll = PollFields(poll)
    /\ walk = [b \in Backfills |-> WalkFields(walk[b])]

\* What a transaction has inserted is not yet in the table, and the lock is its.
Locked ==
    /\ OneRowPerFile
    /\ poll.staged # {} => lock = Poll
    /\ \A b \in Backfills : walk[b].staged # {} => lock = b
    /\ \A f \in Files : f \in poll.staged => rows[f] = 0
    /\ \A b \in Backfills, f \in Files : f \in walk[b].staged => rows[f] = 0

\* The records up to the last of the batch are dealt with, or still to do.
Dealt(p, i) ==
    \/ history[i] = NoFile
    \/ Settled(history[i])
    \/ history[i] \in p.staged \cup p.passed

BatchCovered(p) ==
    /\ p.todo \in Seq(DOMAIN history)
    /\ p.last \in 0 .. Len(history)
    /\ \A i \in 1 .. p.last : Dealt(p, i) \/ \E k \in DOMAIN p.todo : p.todo[k] = i

PollCovers ==
    /\ NothingPassedBy
    /\ poll.pc \in {"idle", "asking"} => poll.staged = {} /\ poll.passed = {}
    /\ poll.pc \in {"fetching", "resolving"} => BatchCovered(poll) /\ poll.todo # <<>>
    /\ poll.pc \in {"idle", "asking", "fetching", "resolving"}

\* What a walk has seen of the library.
SeenBy(w, f) ==
    \/ Settled(f)
    \/ f \in waived \cup w.jumped \cup w.staged \cup w.passed

CoversTo(w, c) == \A f \in Library \cap library : Before(f, c) => SeenBy(w, f)

CoversBelow(w, s) == \A f \in Library \cap library : SeriesOf[f] < s => SeenBy(w, f)

Listing(w) ==
    /\ w.left \in Nat
    /\ w.from \in Nat \X Nat /\ (w.left # 0 => CoversTo(w, w.from))
    /\ w.cur \in Nat \X Nat /\ CoversTo(w, w.cur)

Walking(w) == Listing(w) /\ w.left # 0 /\ w.at \in Series /\ CoversBelow(w, w.at)

WalkCovers ==
    /\ CursorHonest
    /\ \A b \in Backfills :
          /\ walk[b].pc \in {"idle", "listing", "walking"}
          /\ walk[b].pc # "idle" => Listing(walk[b])
          /\ walk[b].pc = "walking" => Walking(walk[b])
          /\ walk[b].pc # "walking" => walk[b].staged = {} /\ walk[b].passed = {}

IInv == Shape /\ Locked /\ PollCovers /\ WalkCovers

-----------------------------------------------------------------------------
(* Least and greatest elements *)

\* A non-empty set of numbers has a least element.
LEMMA LeastOne ==
  ASSUME NEW S \in SUBSET Nat, S # {}
  PROVE  Smallest(S) \in S /\ \A y \in S : Smallest(S) <= y
<1>1. PICK x \in S : \A y \in S : ~ (<<y, x>> \in OpToRel(<, Nat))
  BY NatLessThanWellFounded, WFMin
<1>2. \A y \in S : x <= y
  <2>1. SUFFICES ASSUME NEW y \in S, ~ (x <= y) PROVE FALSE
    OBVIOUS
  <2>2. y < x /\ y \in Nat /\ x \in Nat
    BY <2>1
  <2>3. <<y, x>> \in OpToRel(<, Nat)
    BY <2>2 DEF OpToRel
  <2> QED BY <1>1, <2>3
<1> QED BY <1>2 DEF Smallest

TopOf(g, k) == \E m \in 1 .. k : \A i \in 1 .. k : g[i] <= g[m]

\* Any finite list of numbers has a largest.
LEMMA ListsHaveTops ==
  ASSUME NEW n \in Nat \ {0}, NEW g, \A i \in 1 .. n : g[i] \in Nat
  PROVE  TopOf(g, n)
<1> DEFINE Bad == {k \in 1 .. n : ~ TopOf(g, k)}
<1> SUFFICES ASSUME n \in Bad PROVE FALSE
  OBVIOUS
<1>1. Bad \in SUBSET Nat /\ Bad # {}
  OBVIOUS
<1>2. PICK k \in Bad : \A j \in Bad : k <= j
  <2> HIDE DEF Bad
  <2>1. Smallest(Bad) \in Bad /\ \A y \in Bad : Smallest(Bad) <= y
    BY <1>1, LeastOne
  <2> QED BY <2>1
<1>3. k \in 1 .. n /\ ~ TopOf(g, k)
  OBVIOUS
<1>4. k # 1
  <2>1. TopOf(g, 1)
    <3>1. \A i \in 1 .. 1 : i = 1
      OBVIOUS
    <3>2. 1 \in 1 .. 1 /\ g[1] <= g[1]
      BY <1>3
    <3> QED BY <3>1, <3>2 DEF TopOf
  <2> QED BY <1>3, <2>1
<1>5. k - 1 \in 1 .. n /\ ~ (k <= k - 1)
  BY <1>3, <1>4
<1>6. TopOf(g, k - 1)
  BY <1>2, <1>5
<1>7. PICK m \in 1 .. (k - 1) : \A i \in 1 .. (k - 1) : g[i] <= g[m]
  BY <1>6 DEF TopOf
<1>8. \A i \in 1 .. k : g[i] \in Nat /\ (i = k \/ i \in 1 .. (k - 1))
  BY <1>3
<1>9. k \in 1 .. k /\ m \in 1 .. k
  BY <1>3, <1>7
<1>10. CASE g[k] <= g[m]
  <2>1. \A i \in 1 .. k : g[i] <= g[m]
    BY <1>7, <1>8, <1>10
  <2> QED BY <1>3, <1>9, <2>1 DEF TopOf
<1>11. CASE ~ (g[k] <= g[m])
  <2>1. \A i \in 1 .. k : g[i] <= g[k]
    BY <1>7, <1>8, <1>9, <1>11
  <2> QED BY <1>3, <1>9, <2>1 DEF TopOf
<1> QED BY <1>10, <1>11

\* A finite non-empty set of numbers has a greatest element.
LEMMA GreatestOne ==
  ASSUME NEW S \in SUBSET Nat, IsFiniteSet(S), S # {}
  PROVE  Largest(S) \in S /\ \A y \in S : Largest(S) >= y
<1>1. Cardinality(S) \in Nat /\ ExistsBijection(1 .. Cardinality(S), S)
  BY FS_CardinalityType
<1>2. PICK n \in Nat : ExistsBijection(1 .. n, S)
  BY <1>1
<1>3. PICK g \in Bijection(1 .. n, S) : TRUE
  BY <1>2 DEF ExistsBijection
<1>4. g \in [1 .. n -> S] /\ \A x \in S : \E i \in 1 .. n : g[i] = x
  BY <1>3 DEF Bijection, Surjection, Injection
<1>5. n # 0
  <2>1. PICK x \in S : TRUE
    OBVIOUS
  <2> QED BY <1>4, <2>1
<1>6. \A i \in 1 .. n : g[i] \in Nat
  BY <1>4
<1>7. PICK m \in 1 .. n : \A i \in 1 .. n : g[i] <= g[m]
  BY <1>5, <1>6, ListsHaveTops DEF TopOf
<1>8. g[m] \in S /\ \A y \in S : g[m] >= y
  BY <1>4, <1>6, <1>7
<1> QED BY <1>8 DEF Largest

\* The first n of a finite set of numbers: no more than n, some if there are
\* any, and with each all that are smaller.
LEMMA FirstOnesAre ==
  ASSUME NEW S \in SUBSET Nat, IsFiniteSet(S), NEW n \in Nat \ {0}
  PROVE  /\ FirstOnes(S, n) \subseteq S
         /\ Cardinality(FirstOnes(S, n)) \in 0 .. n
         /\ S # {} => FirstOnes(S, n) # {}
         /\ \A x \in FirstOnes(S, n), y \in S : y <= x => y \in FirstOnes(S, n)
<1> DEFINE F == FirstOnes(S, n)
           UpTo(x) == {y \in S : y <= x}
<1>1. F = {x \in S : Cardinality(UpTo(x)) <= n}
  BY DEF FirstOnes
<1>2. \A x \in S : IsFiniteSet(UpTo(x)) /\ Cardinality(UpTo(x)) \in Nat
  BY FS_Subset, FS_CardinalityType
<1>3. \A x \in F, y \in S : y <= x => y \in F
  <2>1. SUFFICES ASSUME NEW x \in F, NEW y \in S, y <= x PROVE y \in F
    OBVIOUS
  <2>2. x \in S /\ Cardinality(UpTo(x)) <= n
    BY <1>1
  <2>3. UpTo(y) \in SUBSET UpTo(x)
    <3>1. \A z \in S : z <= y => z <= x
      BY <2>1, <2>2
    <3> QED BY <3>1
  <2>4. Cardinality(UpTo(y)) <= Cardinality(UpTo(x))
    BY <1>2, <2>2, <2>3, FS_Subset
  <2>5. Cardinality(UpTo(y)) <= n
    BY <1>2, <2>2, <2>4
  <2> QED BY <1>1, <2>5
<1>4. F \in SUBSET S /\ IsFiniteSet(F)
  BY <1>1, FS_Subset
<1>5. Cardinality(F) \in 0 .. n
  <2>1. CASE F = {}
    BY <2>1, FS_EmptySet
  <2>2. CASE F # {}
    <3>1. Largest(F) \in F /\ \A y \in F : Largest(F) >= y
      BY <1>4, <2>2, GreatestOne
    <3>2. F \in SUBSET UpTo(Largest(F))
      BY <1>4, <3>1
    <3>3. Cardinality(F) <= Cardinality(UpTo(Largest(F)))
      BY <1>2, <1>4, <3>1, <3>2, FS_Subset
    <3>4. Cardinality(F) \in Nat
      BY <1>4, FS_CardinalityType
    <3>5. Cardinality(UpTo(Largest(F))) <= n
      BY <1>1, <3>1
    <3>6. Cardinality(UpTo(Largest(F))) \in Nat
      BY <1>2, <1>4, <3>1
    <3> HIDE DEF F, UpTo
    <3> QED BY <3>3, <3>4, <3>5, <3>6
  <2> QED BY <2>1, <2>2
<1>6. S # {} => F # {}
  <2>1. SUFFICES ASSUME S # {} PROVE Smallest(S) \in F
    OBVIOUS
  <2>2. Smallest(S) \in S /\ \A y \in S : Smallest(S) <= y
    BY <2>1, LeastOne
  <2>3. UpTo(Smallest(S)) = {Smallest(S)}
    <3>1. \A x, y \in Nat : x <= y /\ y <= x <=> y = x
      OBVIOUS
    <3>2. \A y \in S : y <= Smallest(S) <=> y = Smallest(S)
      BY <2>2, <3>1
    <3> QED BY <2>2, <3>2
  <2>4. Cardinality(UpTo(Smallest(S))) = 1
    BY <2>3, FS_Singleton
  <2> QED BY <1>1, <2>2, <2>4
<1> QED BY <1>3, <1>4, <1>5, <1>6

-----------------------------------------------------------------------------
(* What a step leaves alone *)

LEMMA Apart ==
  /\ Poll \notin Backfills /\ None \notin Backfills /\ Thread \notin Backfills
  /\ Poll # None /\ Poll # Thread /\ None # Thread
BY TasksAssumption DEF Poll, None, Thread, Pipeline

LEMMA Numbers ==
  /\ Files \subseteq Nat /\ Series \subseteq Nat /\ NoFile \notin Files
  /\ NoFile = 0 /\ NoSeries = 0 /\ NoCursor = <<0, 0>>
  /\ \A s \in Series : s # 0
  /\ \A f \in Files : SeriesOf[f] \in Series
  /\ Library \subseteq Files
BY FilesAssumption, SeriesAssumption, SubsetAssumption DEF NoFile, NoSeries, NoCursor

\* Nothing lies before the null cursor.
LEMMA NothingBefore == \A f \in Files : ~ Before(f, NoCursor)
<1> SUFFICES ASSUME NEW f \in Files PROVE ~ Before(f, NoCursor)
  OBVIOUS
<1>1. SeriesOf[f] \in Nat /\ SeriesOf[f] # 0
  BY Numbers
<1>2. NoCursor[1] = 0
  BY Numbers
<1> QED BY <1>1, <1>2 DEF Before

\* A step that takes no row or excuse back and starts no new poll or batch
\* leaves the poll with what it has dealt with.
LEMMA PollGoesOn ==
  ASSUME IInv, poll' = poll, watermark' = watermark,
         Len(history') >= Len(history), history' \in Seq(Files \cup {NoFile}),
         \A i \in 1 .. Len(history) : history'[i] = history[i],
         \A f \in Files : Settled(f) => Settled(f)'
  PROVE  PollCovers'
<1>0. history \in Seq(Files \cup {NoFile}) /\ watermark \in 0 .. Len(history)
  BY DEF IInv, Shape
<1>1. \A i \in 1 .. Len(history) : history[i] \in Files \cup {NoFile}
  BY <1>0
<1>2. NothingPassedBy'
  <2>1. SUFFICES ASSUME NEW i \in 1 .. watermark, history'[i] # NoFile PROVE Settled(history[i])'
    BY DEF NothingPassedBy
  <2>2. i \in 1 .. Len(history) /\ history'[i] = history[i]
    BY <1>0
  <2>3. Settled(history[i])
    BY <2>1, <2>2 DEF IInv, PollCovers, NothingPassedBy
  <2> QED BY <1>1, <2>1, <2>2, <2>3 DEF Settled
<1>3. ASSUME BatchCovered(poll) PROVE BatchCovered(poll)'
  <2>1. /\ poll.todo \in Seq(DOMAIN history) /\ poll.last \in 0 .. Len(history)
        /\ \A i \in 1 .. poll.last : Dealt(poll, i) \/ \E k \in DOMAIN poll.todo : poll.todo[k] = i
    BY <1>3 DEF BatchCovered
  <2>2. DOMAIN history = 1 .. Len(history) /\ DOMAIN history' = 1 .. Len(history')
    BY <1>0
  <2>3. poll.todo \in Seq(DOMAIN history')
    <3>1. Len(history) \in Nat /\ Len(history') \in Nat
      BY <1>0
    <3>2. DOMAIN history \subseteq DOMAIN history'
      BY <2>2, <3>1
    <3> QED BY <2>1, <3>2
  <2>4. poll.last \in 0 .. Len(history')
    BY <1>0, <2>1
  <2>5. ASSUME NEW i \in 1 .. poll.last, Dealt(poll, i) PROVE Dealt(poll, i)'
    <3>1. i \in 1 .. Len(history) /\ history'[i] = history[i]
      BY <1>0, <2>1
    <3>2. CASE history[i] = NoFile
      BY <3>1, <3>2 DEF Dealt
    <3>3. CASE history[i] # NoFile /\ Settled(history[i])
      BY <1>1, <3>1, <3>3 DEF Dealt, Settled
    <3>4. CASE history[i] \in poll.staged \cup poll.passed
      BY <3>1, <3>4 DEF Dealt
    <3> QED BY <2>5, <3>2, <3>3, <3>4 DEF Dealt
  <2> QED BY <2>1, <2>3, <2>4, <2>5 DEF BatchCovered
<1> QED BY <1>2, <1>3 DEF IInv, PollCovers

\* The same for what the walks have seen: the library may lose files, and gain
\* none that were there from the start.
LEMMA WalksGoOn ==
  ASSUME IInv, cursor' = cursor, walk' = walk,
         Library \cap library' \subseteq library, waived \subseteq waived',
         \A f \in Files : Settled(f) => Settled(f)'
  PROVE  WalkCovers'
<1>1. \A f \in Library \cap library' : f \in Files /\ f \in Library \cap library
  BY Numbers
<1>2. CursorHonest'
  BY <1>1 DEF IInv, WalkCovers, CursorHonest, Before
<1>3. ASSUME NEW b \in Backfills, NEW f \in Library \cap library', SeenBy(walk[b], f)
      PROVE  SeenBy(walk[b], f)'
  BY <1>1, <1>3 DEF SeenBy
<1>4. ASSUME NEW b \in Backfills, Listing(walk[b]) PROVE Listing(walk[b])'
  BY <1>1, <1>3, <1>4 DEF Listing, CoversTo, Before
<1>5. ASSUME NEW b \in Backfills, Walking(walk[b]) PROVE Walking(walk[b])'
  BY <1>1, <1>3, <1>4, <1>5 DEF Walking, CoversBelow
<1> QED BY <1>2, <1>4, <1>5 DEF IInv, WalkCovers

\* A step that writes nothing and starts nothing.
LEMMA NothingWritten ==
  ASSUME IInv, UNCHANGED <<rows, watermark, cursor, poll, walk, notes>>, Locked',
         library' \subseteq Files, Library \cap library' \subseteq library,
         history' \in Seq(Files \cup {NoFile}), Len(history') >= Len(history),
         \A i \in 1 .. Len(history) : history'[i] = history[i]
  PROVE  IInv'
<1>1. \A f \in Files : Settled(f) => Settled(f)'
  BY DEF Settled, notes
<1>2. PollCovers'
  BY <1>1, PollGoesOn
<1>3. WalkCovers'
  BY <1>1, WalksGoOn DEF notes
<1>4. Shape'
  BY DEF IInv, Shape
<1> QED BY <1>2, <1>3, <1>4 DEF IInv

\* Nobody else has inserted anything while a transaction may write.
LEMMA OnlyWriter ==
  ASSUME Locked
  PROVE  /\ MayWrite(Poll) => \A b \in Backfills : walk[b].staged = {}
         /\ \A b \in Backfills : MayWrite(b) =>
               /\ poll.staged = {}
               /\ \A c \in Backfills : c # b => walk[c].staged = {}
         /\ lock = None => poll.staged = {} /\ \A b \in Backfills : walk[b].staged = {}
BY Apart DEF Locked, MayWrite

-----------------------------------------------------------------------------
LEMMA InitHolds == Init => IInv
<1> SUFFICES ASSUME Init PROVE IInv
  OBVIOUS
<1>1. Shape
  BY Numbers DEF Init, Shape, IdlePoll, IdleWalk, PollFields, WalkFields
<1>2. Locked
  BY DEF Init, Locked, OneRowPerFile, IdlePoll, IdleWalk
<1>3. PollCovers
  BY DEF Init, PollCovers, NothingPassedBy, IdlePoll
<1>4. WalkCovers
  <2>1. CursorHonest
    BY NothingBefore, Numbers DEF Init, CursorHonest
  <2> QED BY <2>1 DEF Init, WalkCovers, IdleWalk
<1> QED BY <1>1, <1>2, <1>3, <1>4 DEF IInv

-----------------------------------------------------------------------------
(* The poll *)

\* An exception: the batch is rolled back and the lock given back.
LEMMA PollRaisesKeeps ==
  ASSUME IInv, PollRaises
  PROVE  IInv'
<1> USE DEF PollRaises
<1>1. \A f \in Files : Settled(f) => Settled(f)'
  BY DEF Settled, notes
<1>2. Shape'
  BY DEF IInv, Shape, sonarr, IdlePoll, PollFields
<1>3. Locked'
  BY Apart DEF IInv, Locked, OneRowPerFile, FreeLock, IdlePoll
<1>4. PollCovers'
  BY DEF IInv, PollCovers, NothingPassedBy, Settled, IdlePoll, sonarr, notes
<1>5. WalkCovers'
  BY <1>1, WalksGoOn DEF sonarr, notes
<1> QED BY <1>2, <1>3, <1>4, <1>5 DEF IInv

\* A poll that goes on to the next record that needs Sonarr, or commits.
LEMMA PollOnKeeps ==
  ASSUME IInv, NEW p, p = PollFields(p), BatchCovered(p),
         p.staged # {} => MayWrite(Poll),
         \A f \in Files : f \in p.staged => rows[f] = 0,
         PollOn(p)
  PROVE  IInv'
<1> DEFINE needed == {i \in DOMAIN p.todo : /\ history[p.todo[i]] # NoFile
                                            /\ ~Exists(history[p.todo[i]], p.staged)}
<1>0. /\ p.todo \in Seq(DOMAIN history) /\ p.last \in 0 .. Len(history)
      /\ \A i \in 1 .. p.last : Dealt(p, i) \/ \E k \in DOMAIN p.todo : p.todo[k] = i
  BY DEF BatchCovered
<1>1. history \in Seq(Files \cup {NoFile}) /\ rows \in [Files -> Nat] /\ DOMAIN history = 1 .. Len(history)
  BY DEF IInv, Shape
<1>2. \A k \in DOMAIN p.todo : p.todo[k] \in DOMAIN history /\ history[p.todo[k]] \in Files \cup {NoFile}
  BY <1>0, <1>1
<1>3. \A k \in DOMAIN p.todo : k \in needed \/ Dealt(p, p.todo[k])
  BY <1>2 DEF Exists, Dealt, Settled
<1> DEFINE Suspends ==
              /\ poll' = [p EXCEPT !.pc = "fetching",
                                   !.todo = SubSeq(@, Smallest(needed), Len(@))]
              /\ lock' = IF p.staged # {} THEN Poll ELSE lock
              /\ UNCHANGED <<sonarr, rows, watermark, cursor, blocked, walk, notes>>
           Commits ==
              /\ CommitRows(Poll, p.staged, p.passed)
              /\ watermark' = p.last
              /\ poll' = IdlePoll
              /\ UNCHANGED <<sonarr, cursor, blocked, walk, waived>>
<1>4. \/ needed # {} /\ Suspends
      \/ needed = {} /\ MayWrite(Poll) /\ Commits
      \/ Block(Poll)
  BY DEF PollOn
<1>5. CASE needed # {} /\ Suspends
  <2> DEFINE m == Smallest(needed)
  <2>1. m \in DOMAIN p.todo /\ \A k \in DOMAIN p.todo : k \in needed => m <= k
    <3>1. needed \in SUBSET Nat
      BY <1>0
    <3>2. m \in needed /\ \A k \in needed : m <= k
      <4> HIDE DEF needed
      <4> QED BY <1>5, <3>1, LeastOne
    <3> QED BY <3>2
  <2> HIDE DEF m, needed
  <2>2. poll' = [p EXCEPT !.pc = "fetching", !.todo = SubSeq(p.todo, m, Len(p.todo))]
    BY <1>5 DEF m, PollFields
  <2>3. /\ poll'.pc = "fetching" /\ poll'.todo = SubSeq(p.todo, m, Len(p.todo))
        /\ poll'.last = p.last /\ poll'.staged = p.staged /\ poll'.passed = p.passed
        /\ poll' = PollFields(poll')
    BY <2>2 DEF PollFields
  <2>4. m \in 1 .. Len(p.todo) /\ Len(p.todo) \in Nat /\ DOMAIN p.todo = 1 .. Len(p.todo)
    BY <1>0, <2>1
  <2>5. /\ poll'.todo \in Seq(DOMAIN history) /\ poll'.todo # <<>>
        /\ DOMAIN poll'.todo = 1 .. (Len(p.todo) - m + 1)
        /\ \A k \in 1 .. (Len(p.todo) - m + 1) : poll'.todo[k] = p.todo[m + k - 1]
    <3>1. Len(p.todo) - m + 1 \in Nat \ {0}
      BY <2>4
    <3>2. \A i \in m .. Len(p.todo) : p.todo[i] \in DOMAIN history
      BY <1>2, <2>4
    <3>3. /\ poll'.todo \in Seq(DOMAIN history)
          /\ Len(poll'.todo) = Len(p.todo) - m + 1
          /\ \A k \in 1 .. (Len(p.todo) - m + 1) : poll'.todo[k] = p.todo[m + k - 1]
      BY <2>3, <2>4, <3>2, SubSeqProperties, SMTT(60)
    <3>4. poll'.todo # <<>> /\ DOMAIN poll'.todo = 1 .. Len(poll'.todo)
      BY <3>1, <3>3
    <3> QED BY <3>3, <3>4
  <2>6. Shape'
    BY <1>5, <2>3 DEF IInv, Shape, sonarr, PollFields, WalkFields
  <2>7. Locked'
    <3>1. p.staged # {} => \A b \in Backfills : walk[b].staged = {}
      BY OnlyWriter DEF IInv
    <3> QED BY <1>5, <2>3, <3>1 DEF IInv, Locked, OneRowPerFile
  <2>8. \A f : Settled(f) => Settled(f)'
    BY <1>5 DEF Settled, notes
  <2>9. BatchCovered(poll)'
    <3>1. ASSUME NEW i \in 1 .. p.last
          PROVE  Dealt(poll, i)' \/ \E k \in DOMAIN poll'.todo : poll'.todo[k] = i
      <4>1. CASE Dealt(p, i)
        BY <1>5, <2>3, <4>1 DEF Dealt, Settled, sonarr, notes
      <4>2. ASSUME NEW k \in DOMAIN p.todo, p.todo[k] = i, ~ Dealt(p, i)
            PROVE  \E j \in DOMAIN poll'.todo : poll'.todo[j] = i
        <5>1. m <= k
          BY <1>3, <2>1, <4>2
        <5>2. k - m + 1 \in 1 .. (Len(p.todo) - m + 1) /\ m + (k - m + 1) - 1 = k
          BY <2>4, <5>1
        <5> QED BY <2>5, <4>2, <5>2
      <4> QED BY <1>0, <4>1, <4>2
    <3>2. history' = history
      BY <1>5 DEF sonarr
    <3> QED BY <1>0, <2>3, <2>5, <3>1, <3>2 DEF BatchCovered
  <2>10. PollCovers'
    BY <1>5, <2>3, <2>5, <2>9 DEF IInv, PollCovers, NothingPassedBy, Settled, sonarr, notes
  <2>11. WalkCovers'
    BY <1>5, <2>8, WalksGoOn DEF sonarr, notes
  <2> QED BY <2>6, <2>7, <2>10, <2>11 DEF IInv
<1>6. CASE needed = {} /\ MayWrite(Poll) /\ Commits
  <2> USE DEF CommitRows
  <2>1. \A f \in Files : /\ rows'[f] = IF f \in p.staged THEN rows[f] + 1 ELSE rows[f]
                         /\ rows[f] \in Nat
    BY <1>1, <1>6
  <2>2. \A f \in Files : /\ Settled(f) => Settled(f)'
                         /\ f \in p.staged \cup p.passed => Settled(f)'
    BY <1>6, <2>1 DEF Settled
  <2>3. \A b \in Backfills : walk[b].staged = {}
    BY <1>6, OnlyWriter DEF IInv
  <2>4. Shape'
    <3>1. rows' \in [Files -> Nat]
      BY <1>1, <1>6
    <3>2. watermark' \in 0 .. Len(history')
      BY <1>0, <1>6 DEF sonarr
    <3>3. poll' = PollFields(poll')
      BY <1>6 DEF IdlePoll, PollFields
    <3> QED BY <1>6, <3>1, <3>2, <3>3 DEF IInv, Shape, sonarr
  <2>5. Locked'
    <3>1. OneRowPerFile'
      BY <2>1 DEF IInv, Locked, OneRowPerFile
    <3>2. poll'.staged = {} /\ \A b \in Backfills : walk'[b].staged = {}
      BY <1>6, <2>3 DEF IdlePoll
    <3> QED BY <3>1, <3>2 DEF Locked
  <2>6. PollCovers'
    <3>1. ASSUME NEW i \in 1 .. p.last, history[i] # NoFile PROVE Settled(history[i])'
      <4>1. Dealt(p, i)
        BY <1>0, <1>3, <1>6
      <4>2. history[i] \in Files
        BY <1>0, <1>1, <3>1
      <4>3. history' = history
        BY <1>6 DEF sonarr
      <4>4. Settled(history[i]) \/ history[i] \in p.staged \cup p.passed
        BY <3>1, <4>1 DEF Dealt
      <4> QED BY <2>2, <4>2, <4>3, <4>4 DEF Settled
    <3>2. NothingPassedBy'
      BY <1>6, <3>1 DEF NothingPassedBy, sonarr
    <3> QED BY <1>6, <3>2 DEF PollCovers, IdlePoll
  <2>7. WalkCovers'
    BY <1>6, <2>2, WalksGoOn DEF sonarr
  <2> QED BY <2>4, <2>5, <2>6, <2>7 DEF IInv
<1>7. CASE Block(Poll)
  <2>1. Locked'
    BY <1>7 DEF Block, IInv, Locked, OneRowPerFile, db
  <2> QED BY <1>7, <2>1, NothingWritten DEF Block, IInv, Shape, sonarr, db
<1> QED BY <1>4, <1>5, <1>6, <1>7

\* The answer about the next record: with its file excused, stored or already
\* known, the rest of the batch is what is left to do.
LEMMA RecordDealtWith ==
  ASSUME IInv, BatchCovered(poll), poll.todo # <<>>, NEW p, p = PollFields(p),
         p.todo = Tail(poll.todo), p.last = poll.last,
         poll.staged \subseteq p.staged, poll.passed \subseteq p.passed,
         Dealt(p, Head(poll.todo))
  PROVE  BatchCovered(p)
<1>1. poll.todo \in Seq(DOMAIN history)
  BY DEF BatchCovered
<1>2. /\ Tail(poll.todo) \in Seq(DOMAIN history)
      /\ Len(Tail(poll.todo)) = Len(poll.todo) - 1
      /\ \A k \in 1 .. Len(Tail(poll.todo)) : Tail(poll.todo)[k] = poll.todo[k + 1]
  BY <1>1, HeadTailProperties
<1>3. Head(poll.todo) = poll.todo[1] /\ Len(poll.todo) \in Nat
  BY <1>1
<1>4. ASSUME NEW i \in 1 .. p.last
      PROVE  Dealt(p, i) \/ \E k \in DOMAIN p.todo : p.todo[k] = i
  <2>1. Dealt(poll, i) \/ \E k \in DOMAIN poll.todo : poll.todo[k] = i
    BY DEF BatchCovered
  <2>2. CASE Dealt(poll, i)
    BY <2>2 DEF Dealt
  <2>3. ASSUME NEW k \in DOMAIN poll.todo, poll.todo[k] = i, k # 1
        PROVE  \E j \in DOMAIN p.todo : p.todo[j] = i
    <3>1. k - 1 \in 1 .. Len(Tail(poll.todo)) /\ (k - 1) + 1 = k
      BY <1>1, <1>2, <1>3, <2>3
    <3>2. DOMAIN p.todo = 1 .. Len(Tail(poll.todo))
      BY <1>2
    <3> QED BY <1>2, <2>3, <3>1, <3>2
  <2> QED BY <1>3, <2>1, <2>2, <2>3
<1> QED BY <1>2, <1>4 DEF BatchCovered

LEMMA PollSkipKeeps ==
  ASSUME IInv, poll.pc \in {"fetching", "resolving"}, NEW passed, PollSkip(passed),
         \/ Exists(history[Head(poll.todo)], poll.staged)
         \/ history[Head(poll.todo)] \in passed,
         history[Head(poll.todo)] \in Files
  PROVE  IInv'
<1>1. PICK p : p = [poll EXCEPT !.todo = Tail(@), !.passed = @ \cup passed]
  OBVIOUS
<1>2. /\ p = PollFields(p) /\ p.todo = Tail(poll.todo) /\ p.last = poll.last
      /\ p.staged = poll.staged /\ p.passed = poll.passed \cup passed
  BY <1>1 DEF IInv, Shape, PollFields
<1>3. PollOn(p)
  BY <1>1 DEF PollSkip
<1>4. Dealt(p, Head(poll.todo))
  BY <1>2 DEF Dealt, Exists, Settled
<1>5. BatchCovered(p)
  BY <1>2, <1>4, RecordDealtWith DEF IInv, PollCovers
<1>6. p.staged # {} => MayWrite(Poll)
  BY <1>2 DEF IInv, Locked, MayWrite
<1>7. \A f \in Files : f \in p.staged => rows[f] = 0
  BY <1>2 DEF IInv, Locked
<1> QED BY <1>2, <1>3, <1>5, <1>6, <1>7, PollOnKeeps

LEMMA BlockKeeps ==
  ASSUME IInv, NEW t, Block(t)
  PROVE  IInv'
<1>1. Locked'
  BY DEF Block, IInv, Locked, OneRowPerFile, db
<1> QED BY <1>1, NothingWritten DEF Block, IInv, Shape, sonarr, db

LEMMA PollInsertKeeps ==
  ASSUME IInv, poll.pc \in {"fetching", "resolving"}, NEW f \in Files, NEW known,
         f = history[Head(poll.todo)], PollInsert(f, known)
  PROVE  IInv'
<1>1. CASE ~ MayWrite(Poll)
  BY <1>1, BlockKeeps DEF PollInsert
<1>2. CASE MayWrite(Poll) /\ ~ Unique(f)
  BY <1>2, PollRaisesKeeps DEF PollInsert
<1>3. CASE MayWrite(Poll) /\ Unique(f)
  <2>1. PICK p : p = [poll EXCEPT !.todo = Tail(@), !.staged = @ \cup {f}, !.known = known]
    OBVIOUS
  <2>2. /\ p = PollFields(p) /\ p.todo = Tail(poll.todo) /\ p.last = poll.last
        /\ p.staged = poll.staged \cup {f} /\ p.passed = poll.passed
    BY <2>1 DEF IInv, Shape, PollFields
  <2>3. PollOn(p)
    BY <1>3, <2>1 DEF PollInsert
  <2>4. BatchCovered(p)
    BY <2>2, RecordDealtWith DEF IInv, PollCovers, Dealt
  <2>5. \A g \in Files : g \in p.staged => rows[g] = 0
    BY <1>3, <2>2 DEF IInv, Locked, Unique
  <2> QED BY <1>3, <2>2, <2>3, <2>4, <2>5, PollOnKeeps
<1> QED BY <1>1, <1>2, <1>3

LEMMA PollFileKeeps ==
  ASSUME IInv, NEW f \in Files, PollFile(f)
  PROVE  IInv'
<1>0. poll.pc = "fetching" /\ f = history[Head(poll.todo)]
  BY DEF PollFile
<1>1. CASE PollSkip({f})
  BY <1>0, <1>1, PollSkipKeeps
<1>2. CASE Exists(f, poll.staged) /\ PollSkip({})
  BY <1>0, <1>2, PollSkipKeeps
<1>3. CASE PollInsert(f, poll.known)
  BY <1>0, <1>3, PollInsertKeeps
<1>4. CASE poll' = [poll EXCEPT !.pc = "resolving"] /\ UNCHANGED <<sonarr, db, blocked, walk, notes>>
  <2>1. /\ poll' = PollFields(poll') /\ poll'.pc = "resolving" /\ poll'.todo = poll.todo
        /\ poll'.last = poll.last /\ poll'.staged = poll.staged /\ poll'.passed = poll.passed
    BY <1>4 DEF IInv, Shape, PollFields
  <2>2. Shape'
    BY <1>4, <2>1 DEF IInv, Shape, sonarr, db
  <2>3. Locked'
    BY <1>4, <2>1 DEF IInv, Locked, OneRowPerFile, db
  <2>4. BatchCovered(poll) /\ poll.todo # <<>>
    BY <1>0 DEF IInv, PollCovers
  <2>5. BatchCovered(poll)'
    BY <1>4, <2>1, <2>4 DEF BatchCovered, Dealt, Settled, sonarr, db, notes
  <2>6. PollCovers'
    BY <1>4, <2>1, <2>4, <2>5 DEF IInv, PollCovers, NothingPassedBy, Settled, sonarr, db, notes
  <2>7. WalkCovers'
    BY <1>4, WalksGoOn DEF sonarr, db, notes, Settled
  <2> QED BY <2>2, <2>3, <2>6, <2>7 DEF IInv
<1> QED BY <1>1, <1>2, <1>3, <1>4 DEF PollFile

LEMMA PollEpisodesKeeps ==
  ASSUME IInv, NEW f \in Files, PollEpisodes(f)
  PROVE  IInv'
BY PollInsertKeeps DEF PollEpisodes

\* A poll asks for what lies above the watermark.
LEMMA PollStartKeeps ==
  ASSUME IInv, PollStart
  PROVE  IInv'
<1> USE DEF PollStart
<1>1. /\ poll' = PollFields(poll') /\ poll'.pc = "asking"
      /\ poll'.staged = {} /\ poll'.passed = {}
  BY DEF IdlePoll, PollFields
<1>2. Shape'
  BY <1>1 DEF IInv, Shape, sonarr, db
<1>3. Locked'
  BY <1>1 DEF IInv, Locked, OneRowPerFile, db
<1>4. PollCovers'
  BY <1>1 DEF IInv, PollCovers, NothingPassedBy, Settled, sonarr, db, notes
<1>5. WalkCovers'
  BY WalksGoOn DEF sonarr, db, notes, Settled
<1> QED BY <1>2, <1>3, <1>4, <1>5 DEF IInv

LEMMA PollHistoryKeeps ==
  ASSUME IInv, PollHistory
  PROVE  IInv'
<1>1. PICK ids : ids = IdsSince(watermark)
  OBVIOUS
<1>2. PICK p : p = [poll EXCEPT !.todo = ids,
                                !.last = IF ids = <<>> THEN watermark ELSE LastId(ids)]
  OBVIOUS
<1>3. PollOn(p) /\ poll.pc = "asking"
  BY <1>1, <1>2 DEF PollHistory
<1>4. /\ p = PollFields(p) /\ p.todo = ids /\ p.staged = {} /\ p.passed = {}
      /\ p.last = IF ids = <<>> THEN watermark ELSE LastId(ids)
  BY <1>2, <1>3 DEF IInv, Shape, PollFields, PollCovers
<1>5. Len(history) \in Nat /\ watermark \in 0 .. Len(history) /\ DOMAIN history = 1 .. Len(history)
  BY DEF IInv, Shape
<1> DEFINE n == Len(history) - watermark
<1>6. n \in Nat /\ ids = [k \in 1 .. n |-> watermark + k]
  BY <1>1, <1>5 DEF IdsSince
<1>7. \A k \in 1 .. n : watermark + k \in DOMAIN history
  BY <1>5
<1>8. ids \in Seq(DOMAIN history) /\ Len(ids) = n /\ DOMAIN ids = 1 .. n
  BY <1>6, <1>7
<1>9. p.last = Len(history)
  <2>1. CASE n = 0
    <3>1. ids = <<>>
      BY <1>8, <2>1
    <3>2. p.last = watermark
      BY <1>4, <3>1
    <3>3. \A x, y \in Nat : y - x = 0 => x = y
      OBVIOUS
    <3>4. watermark \in Nat
      BY <1>5
    <3>5. Len(history) - watermark = 0
      BY <2>1
    <3> QED BY <1>5, <3>2, <3>3, <3>4, <3>5
  <2>2. CASE n # 0
    <3>1. ids # <<>> /\ ids[n] = watermark + n
      BY <1>6, <1>8, <2>2
    <3> QED BY <1>4, <1>5, <1>8, <3>1 DEF LastId
  <2> QED BY <2>1, <2>2
<1>10. ASSUME NEW i \in 1 .. p.last
       PROVE  Dealt(p, i) \/ \E k \in DOMAIN p.todo : p.todo[k] = i
  <2>1. CASE i \in 1 .. watermark
    BY <2>1 DEF IInv, PollCovers, NothingPassedBy, Dealt
  <2>2. CASE i \notin 1 .. watermark
    <3>1. i - watermark \in 1 .. n /\ watermark + (i - watermark) = i
      BY <1>5, <1>9, <2>2
    <3> QED BY <1>4, <1>6, <1>8, <3>1
  <2> QED BY <2>1, <2>2
<1>11. BatchCovered(p)
  BY <1>4, <1>5, <1>8, <1>9, <1>10 DEF BatchCovered
<1> QED BY <1>3, <1>4, <1>11, PollOnKeeps

-----------------------------------------------------------------------------
(* The walks *)

\* One walk moves, the others stay.
LEMMA OneWalk ==
  ASSUME Shape, NEW b \in Backfills, NEW w, w = WalkFields(w), walk' = [walk EXCEPT ![b] = w]
  PROVE  /\ walk' = [c \in Backfills |-> WalkFields(walk'[c])]
         /\ walk'[b] = w
         /\ \A c \in Backfills : c # b => walk'[c] = walk[c]
BY DEF Shape, WalkFields

\* What the other walks have seen stays seen.
LEMMA OthersGoOn ==
  ASSUME IInv, NEW b \in Backfills, NEW w, walk'[b] = w,
         \A c \in Backfills : c # b => walk'[c] = walk[c],
         library' = library, waived \subseteq waived',
         \A f \in Files : Settled(f) => Settled(f)'
  PROVE  \A c \in Backfills : c # b =>
            /\ walk'[c].pc \in {"idle", "listing", "walking"}
            /\ walk'[c].pc # "idle" => Listing(walk[c])'
            /\ walk'[c].pc = "walking" => Walking(walk[c])'
            /\ walk'[c].pc # "walking" => walk'[c].staged = {} /\ walk'[c].passed = {}
<1> SUFFICES ASSUME NEW c \in Backfills, c # b
             PROVE  /\ walk'[c].pc \in {"idle", "listing", "walking"}
                    /\ walk'[c].pc # "idle" => Listing(walk[c])'
                    /\ walk'[c].pc = "walking" => Walking(walk[c])'
                    /\ walk'[c].pc # "walking" => walk'[c].staged = {} /\ walk'[c].passed = {}
  OBVIOUS
<1>1. walk'[c] = walk[c]
  OBVIOUS
<1>2. ASSUME NEW f \in Library \cap library, SeenBy(walk[c], f) PROVE SeenBy(walk[c], f)'
  BY <1>1, <1>2, Numbers DEF SeenBy
<1>3. Listing(walk[c]) => Listing(walk[c])'
  BY <1>1, <1>2 DEF Listing, CoversTo, Before
<1>4. Walking(walk[c]) => Walking(walk[c])'
  BY <1>1, <1>2, <1>3 DEF Walking, CoversBelow
<1> QED BY <1>1, <1>3, <1>4 DEF IInv, WalkCovers

LEMMA BackfillStartKeeps ==
  ASSUME IInv, NEW b \in Backfills, BackfillRequest(b)
  PROVE  IInv'
<1>1. PICK n \in BatchSizes, from \in {cursor, NoCursor} \cup (Series \X {NoFile}) :
              BackfillStart(b, n, from)
  BY DEF BackfillRequest
<1> USE DEF BackfillStart
<1>2. PICK w : w = [IdleWalk EXCEPT !.pc = "listing", !.left = n, !.from = from,
                      !.jumped = IF n > 0 /\ from[1] # NoSeries /\ from[2] = NoFile
                                   THEN {f \in Files : SeriesOf[f] < from[1]} ELSE {}]
  OBVIOUS
<1>3. /\ w = WalkFields(w) /\ w.pc = "listing" /\ w.left = n /\ w.from = from
      /\ w.cur = NoCursor /\ w.staged = {} /\ w.passed = {}
      /\ w.jumped = IF n > 0 /\ from[1] # NoSeries /\ from[2] = NoFile
                      THEN {f \in Files : SeriesOf[f] < from[1]} ELSE {}
  BY <1>2 DEF IdleWalk, WalkFields
<1>4. walk' = [walk EXCEPT ![b] = w]
  BY <1>1, <1>2
<1>5. /\ walk' = [c \in Backfills |-> WalkFields(walk'[c])]
      /\ walk'[b] = w
      /\ \A c \in Backfills : c # b => walk'[c] = walk[c]
  BY <1>3, <1>4, OneWalk DEF IInv
<1>6. Shape'
  BY <1>1, <1>5 DEF IInv, Shape, sonarr, db
<1>7. Locked'
  BY <1>1, <1>3, <1>5 DEF IInv, Locked, OneRowPerFile, db
<1>8. \A f : Settled(f) => Settled(f)'
  BY <1>1 DEF Settled, db, notes
<1>9. PollCovers'
  BY <1>1, <1>8, PollGoesOn DEF sonarr, db, IInv, Shape
<1>10. Listing(walk[b])'
  <2>1. n \in Nat
    BY BatchAssumption
  <2>2. from \in Nat \X Nat /\ NoCursor \in Nat \X Nat
    <3>1. NoCursor \in Nat \X Nat /\ cursor \in Nat \X Nat
      BY Numbers DEF IInv, Shape
    <3>2. NoFile \in Nat /\ Series \subseteq Nat
      BY Numbers
    <3> QED BY <3>1, <3>2
  <2>3. ASSUME n # 0, NEW f \in Library \cap library, Before(f, from)
        PROVE  SeenBy(walk[b], f)'
    <3>1. f \in Files /\ SeriesOf[f] \in Nat
      BY Numbers
    <3>2. CASE from = cursor
      <4>1. Settled(f) \/ f \in waived
        BY <2>3, <3>2 DEF IInv, WalkCovers, CursorHonest
      <4> QED BY <1>1, <1>8, <4>1 DEF SeenBy, notes
    <3>3. CASE from = NoCursor
      BY <2>3, <3>1, <3>3, NothingBefore
    <3>4. CASE from \in Series \X {NoFile}
      <4>1. from[1] \in Series /\ from[2] = NoFile /\ from[1] # NoSeries
        BY <3>4, Numbers
      <4>2. f # 0 /\ f \in Nat
        BY <3>1, Numbers
      <4>3. SeriesOf[f] < from[1]
        BY <2>3, <4>1, <4>2, Numbers DEF Before
      <4> QED BY <1>3, <1>5, <2>1, <2>3, <3>1, <4>1, <4>3 DEF SeenBy
    <3> QED BY <3>2, <3>3, <3>4
  <2>4. n # 0 => CoversTo(walk[b], from)'
    BY <1>1, <1>5, <2>3 DEF CoversTo, Before, sonarr
  <2>5. CoversTo(walk[b], NoCursor)'
    BY <1>1, NothingBefore, Numbers DEF CoversTo, Before, sonarr
  <2> QED BY <1>3, <1>5, <2>1, <2>2, <2>4, <2>5 DEF Listing
<1>11. WalkCovers'
  <2>1. CursorHonest'
    BY <1>1, <1>8 DEF IInv, WalkCovers, CursorHonest, Before, sonarr, db, notes
  <2>2. \A c \in Backfills : c # b =>
            /\ walk'[c].pc \in {"idle", "listing", "walking"}
            /\ walk'[c].pc # "idle" => Listing(walk[c])'
            /\ walk'[c].pc = "walking" => Walking(walk[c])'
            /\ walk'[c].pc # "walking" => walk'[c].staged = {} /\ walk'[c].passed = {}
    BY <1>1, <1>5, <1>8, OthersGoOn DEF sonarr, notes
  <2> QED BY <1>3, <1>5, <1>10, <2>1, <2>2 DEF WalkCovers
<1> QED BY <1>6, <1>7, <1>9, <1>11 DEF IInv

\* A walk that goes on to its next series.
LEMMA BackfillSuspendKeeps ==
  ASSUME IInv, NEW b \in Backfills, NEW w, w = WalkFields(w), w.pc = "walking", Walking(w),
         w.staged # {} => MayWrite(b),
         \A f \in Files : f \in w.staged => rows[f] = 0,
         BackfillSuspend(b, w)
  PROVE  IInv'
<1> USE DEF BackfillSuspend
<1>1. /\ walk' = [c \in Backfills |-> WalkFields(walk'[c])]
      /\ walk'[b] = w
      /\ \A c \in Backfills : c # b => walk'[c] = walk[c]
  BY OneWalk DEF IInv
<1>2. Shape'
  BY <1>1 DEF IInv, Shape, sonarr
<1>3. w.staged # {} => poll.staged = {} /\ \A c \in Backfills : c # b => walk[c].staged = {}
  BY OnlyWriter DEF IInv
<1>4. Locked'
  BY <1>1, <1>3 DEF IInv, Locked, OneRowPerFile
<1>5. \A f : Settled(f) => Settled(f)'
  BY DEF Settled, notes
<1>6. PollCovers'
  BY <1>5, PollGoesOn DEF sonarr, IInv, Shape
<1>7. Walking(walk[b])'
  BY <1>1 DEF Walking, Listing, CoversTo, CoversBelow, SeenBy, Before, Settled, sonarr, notes
<1>8. WalkCovers'
  <2>1. CursorHonest'
    BY <1>5 DEF IInv, WalkCovers, CursorHonest, Before, sonarr, notes
  <2>2. \A c \in Backfills : c # b =>
            /\ walk'[c].pc \in {"idle", "listing", "walking"}
            /\ walk'[c].pc # "idle" => Listing(walk[c])'
            /\ walk'[c].pc = "walking" => Walking(walk[c])'
            /\ walk'[c].pc # "walking" => walk'[c].staged = {} /\ walk'[c].passed = {}
    BY <1>1, <1>5, OthersGoOn DEF sonarr, notes
  <2>3. walk'[b].pc = "walking" /\ Listing(walk[b])'
    BY <1>1, <1>7 DEF Walking
  <2> QED BY <1>7, <2>1, <2>2, <2>3 DEF WalkCovers
<1> QED BY <1>2, <1>4, <1>6, <1>8 DEF IInv

\* What a commit settles: all that its walk has seen.
LEMMA CommitSettles ==
  ASSUME Shape, NEW b, NEW w, NEW at, BackfillCommit(b, w, at)
  PROVE  /\ \A f \in Files : Settled(f) => Settled(f)'
         /\ \A f \in Files : SeenBy(w, f) => Settled(f)' \/ f \in waived'
<1>1. \A f \in Files : /\ rows'[f] = IF f \in w.staged THEN rows[f] + 1 ELSE rows[f]
                       /\ rows[f] \in Nat
  BY DEF BackfillCommit, CommitRows, Shape
<1>2. \A f \in Files : /\ Settled(f) => Settled(f)'
                       /\ f \in w.staged \cup w.passed => Settled(f)'
  BY <1>1 DEF BackfillCommit, CommitRows, Settled
<1>3. waived' = waived \cup w.jumped
  BY DEF BackfillCommit
<1> QED BY <1>2, <1>3 DEF SeenBy

LEMMA BackfillCommitKeeps ==
  ASSUME IInv, NEW b \in Backfills, NEW w, NEW at, MayWrite(b),
         w.cur \in Nat \X Nat, CoversTo(w, w.cur),
         \A f \in Files : f \in w.staged => rows[f] = 0,
         BackfillCommit(b, w, at)
  PROVE  IInv'
<1> USE DEF BackfillCommit, CommitRows
<1>1. /\ \A f \in Files : Settled(f) => Settled(f)'
      /\ \A f \in Files : SeenBy(w, f) => Settled(f)' \/ f \in waived'
  BY CommitSettles DEF IInv
<1>2. \A f \in Files : /\ rows'[f] = IF f \in w.staged THEN rows[f] + 1 ELSE rows[f]
                       /\ rows[f] \in Nat
  BY DEF IInv, Shape
<1>3. IdleWalk = WalkFields(IdleWalk) /\ IdleWalk.pc = "idle"
      /\ IdleWalk.staged = {} /\ IdleWalk.passed = {}
  BY DEF IdleWalk, WalkFields
<1>4. /\ walk' = [c \in Backfills |-> WalkFields(walk'[c])]
      /\ walk'[b] = IdleWalk
      /\ \A c \in Backfills : c # b => walk'[c] = walk[c]
  BY <1>3, OneWalk DEF IInv
<1>5. Shape'
  <2>1. rows' \in [Files -> Nat]
    BY <1>2
  <2>2. cursor' \in Nat \X Nat
    BY Numbers
  <2> QED BY <1>4, <2>1, <2>2 DEF IInv, Shape, sonarr
<1>6. poll.staged = {} /\ \A c \in Backfills : c # b => walk[c].staged = {}
  BY OnlyWriter DEF IInv
<1>7. Locked'
  <2>1. OneRowPerFile'
    BY <1>2 DEF IInv, Locked, OneRowPerFile
  <2>2. poll'.staged = {} /\ \A c \in Backfills : walk'[c].staged = {}
    BY <1>3, <1>4, <1>6
  <2> QED BY <2>1, <2>2 DEF Locked
<1>8. PollCovers'
  BY <1>1, PollGoesOn DEF sonarr, IInv, Shape
<1>9. CursorHonest'
  <2>1. ASSUME NEW f \in Library \cap library, Before(f, cursor') PROVE Settled(f)' \/ f \in waived'
    <3>1. f \in Files
      BY Numbers
    <3>2. cursor' # NoCursor
      BY <2>1, <3>1, NothingBefore
    <3>3. SeenBy(w, f)
      BY <2>1, <3>2 DEF CoversTo
    <3> QED BY <1>1, <3>1, <3>3
  <2> QED BY <2>1 DEF CursorHonest, Before, sonarr
<1>10. WalkCovers'
  <2>1. \A c \in Backfills : c # b =>
            /\ walk'[c].pc \in {"idle", "listing", "walking"}
            /\ walk'[c].pc # "idle" => Listing(walk[c])'
            /\ walk'[c].pc = "walking" => Walking(walk[c])'
            /\ walk'[c].pc # "walking" => walk'[c].staged = {} /\ walk'[c].passed = {}
    BY <1>1, <1>4, OthersGoOn DEF sonarr
  <2> QED BY <1>3, <1>4, <1>9, <2>1 DEF WalkCovers
<1> QED BY <1>5, <1>7, <1>8, <1>10 DEF IInv

LEMMA BackfillListedKeeps ==
  ASSUME IInv, NEW b \in Backfills, BackfillListed(b)
  PROVE  IInv'
<1>1. PICK w : w = walk[b]
  OBVIOUS
<1>2. PICK at : at = SeriesFrom(w.from[1])
  OBVIOUS
<1>3. /\ w.pc = "listing" /\ w = WalkFields(w) /\ Listing(w) /\ w.staged = {} /\ w.passed = {}
  BY <1>1 DEF BackfillListed, IInv, Shape, WalkFields, WalkCovers
<1>4. \/ at # {} /\ w.left # 0 /\ BackfillSuspend(b, [w EXCEPT !.pc = "walking", !.at = Smallest(at)])
      \/ MayWrite(b) /\ BackfillCommit(b, w, at)
      \/ Block(b)
  BY <1>1, <1>2 DEF BackfillListed
<1>5. CASE at # {} /\ w.left # 0 /\ BackfillSuspend(b, [w EXCEPT !.pc = "walking", !.at = Smallest(at)])
  <2>1. PICK v : v = [w EXCEPT !.pc = "walking", !.at = Smallest(at)]
    OBVIOUS
  <2>2. /\ v = WalkFields(v) /\ v.pc = "walking" /\ v.at = Smallest(at) /\ v.left = w.left
        /\ v.from = w.from /\ v.cur = w.cur /\ v.staged = {} /\ v.passed = {} /\ v.jumped = w.jumped
    BY <1>3, <2>1 DEF WalkFields
  <2>3. Smallest(at) \in at /\ \A y \in at : Smallest(at) <= y
    <3>1. at \in SUBSET Nat
      BY <1>2, Numbers DEF SeriesFrom
    <3> QED BY <1>5, <3>1, LeastOne
  <2>4. ASSUME NEW f \in Library \cap library, SeriesOf[f] < v.at PROVE SeenBy(w, f)
    <3>1. f \in Files /\ SeriesOf[f] \in Series /\ SeriesOf[f] \in Nat /\ w.from[1] \in Nat
          /\ v.at \in Nat
      BY <1>2, <1>3, <2>2, <2>3, Numbers DEF Listing, SeriesFrom
    <3>2. SeriesOf[f] \notin at
      BY <2>2, <2>3, <2>4, <3>1
    <3>3. SeriesOf[f] < w.from[1]
      BY <1>2, <3>1, <3>2 DEF SeriesFrom
    <3> QED BY <1>3, <1>5, <3>3 DEF Listing, CoversTo, Before
  <2>5. \A f : SeenBy(w, f) => SeenBy(v, f)
    BY <1>3, <2>2 DEF SeenBy
  <2>6. v.at \in Series
    BY <1>2, <2>2, <2>3 DEF SeriesFrom
  <2>7. Walking(v)
    BY <1>3, <1>5, <2>2, <2>4, <2>5, <2>6 DEF Walking, Listing, CoversTo, CoversBelow
  <2> QED BY <1>5, <2>1, <2>2, <2>7, BackfillSuspendKeeps
<1>6. CASE MayWrite(b) /\ BackfillCommit(b, w, at)
  BY <1>3, <1>6, BackfillCommitKeeps DEF Listing
<1>7. CASE Block(b)
  BY <1>7, BlockKeeps
<1> QED BY <1>4, <1>5, <1>6, <1>7

\* The parts of BackfillSeries by name.
All(w)   == {f \in library : SeriesOf[f] = w.at /\ (w.at = w.from[1] => f > w.from[2])}
Taken(w) == FirstOnes(All(w), w.left)
Fresh(w) == {f \in Taken(w) : ~Exists(f, w.staged)}
Ahead(w) == IF Exhausted(All(w), Taken(w)) THEN SeriesFrom(w.at + 1) ELSE SeriesFrom(w.at)
Moved(w) == [w EXCEPT !.left = @ - Cardinality(Taken(w)),
                      !.staged = @ \cup (Fresh(w) \ Uncapturable),
                      !.passed = @ \cup (Fresh(w) \cap Uncapturable),
                      !.cur = IF Taken(w) = {} THEN @ ELSE <<w.at, Largest(Taken(w))>>,
                      !.at = IF Ahead(w) = {} THEN NoSeries ELSE Smallest(Ahead(w))]
Over(w)  == Moved(w).left = 0 \/ Ahead(w) = {} \/ ~Exhausted(All(w), Taken(w))

LEMMA SeriesByName ==
  ASSUME NEW b \in Backfills, BackfillSeries(b)
  PROVE  /\ walk[b].pc = "walking"
         /\ \/ Block(b)
            \/ MayWrite(b) /\ Over(walk[b]) /\ BackfillCommit(b, Moved(walk[b]), Ahead(walk[b]))
            \/ /\ ~ Over(walk[b]) /\ BackfillSuspend(b, Moved(walk[b]))
               /\ MayWrite(b) \/ Fresh(walk[b]) \ Uncapturable = {}
BY DEF BackfillSeries, All, Taken, Fresh, Ahead, Moved, Over

\* A walk that takes files from a series has then seen all up to its new place.
LEMMA MovedSees ==
  ASSUME IInv, NEW w, w = WalkFields(w), w.pc = "walking", Walking(w)
  PROVE  /\ Moved(w) = WalkFields(Moved(w)) /\ Moved(w).pc = "walking"
         /\ Moved(w).cur \in Nat \X Nat /\ CoversTo(Moved(w), Moved(w).cur)
         /\ ~ Over(w) => Walking(Moved(w))
         /\ Over(w) /\ Moved(w).cur = NoCursor => Ahead(w) = {}
         /\ Ahead(w) = {} => \A f \in Library \cap library : SeenBy(Moved(w), f)
<1>1. PICK v : v = Moved(w)
  OBVIOUS
<1>2. /\ v = WalkFields(v) /\ v.pc = "walking" /\ v.from = w.from /\ v.jumped = w.jumped
      /\ v.left = w.left - Cardinality(Taken(w))
      /\ v.staged = w.staged \cup (Fresh(w) \ Uncapturable)
      /\ v.passed = w.passed \cup (Fresh(w) \cap Uncapturable)
      /\ v.cur = IF Taken(w) = {} THEN w.cur ELSE <<w.at, Largest(Taken(w))>>
      /\ v.at = IF Ahead(w) = {} THEN NoSeries ELSE Smallest(Ahead(w))
  BY <1>1 DEF Moved, WalkFields
<1>3. /\ w.left \in Nat \ {0} /\ w.from \in Nat \X Nat /\ CoversTo(w, w.from)
      /\ w.cur \in Nat \X Nat /\ CoversTo(w, w.cur) /\ w.at \in Series /\ CoversBelow(w, w.at)
  BY DEF Walking, Listing
<1>4. All(w) \in SUBSET Nat /\ IsFiniteSet(All(w)) /\ All(w) \in SUBSET Files
  <2>1. All(w) \in SUBSET (Files \cup Series) /\ All(w) \in SUBSET Files
    BY DEF IInv, Shape, All
  <2>2. IsFiniteSet(All(w))
    BY <2>1, SeriesAssumption, FS_Subset
  <2> QED BY <2>1, <2>2, Numbers
<1>5. /\ Taken(w) \subseteq All(w)
      /\ Cardinality(Taken(w)) \in 0 .. w.left
      /\ All(w) # {} => Taken(w) # {}
      /\ \A x \in Taken(w), y \in All(w) : y <= x => y \in Taken(w)
  BY <1>3, <1>4, FirstOnesAre DEF Taken
<1>6. \A f \in Taken(w) : SeenBy(v, f)
  BY <1>2 DEF Fresh, Exists, SeenBy, Settled
<1>7. \A f : SeenBy(w, f) => SeenBy(v, f)
  BY <1>2 DEF SeenBy
<1>8. \A f \in Library \cap library :
          /\ f \in Nat /\ SeriesOf[f] \in Series /\ SeriesOf[f] \in Nat
          /\ SeriesOf[f] = w.at => f \in All(w) \/ SeenBy(w, f)
          /\ SeriesOf[f] < w.at => SeenBy(w, f)
  <2>1. SUFFICES ASSUME NEW f \in Library \cap library
                 PROVE  /\ f \in Nat /\ SeriesOf[f] \in Series /\ SeriesOf[f] \in Nat
                        /\ SeriesOf[f] = w.at => f \in All(w) \/ SeenBy(w, f)
                        /\ SeriesOf[f] < w.at => SeenBy(w, f)
    OBVIOUS
  <2>2. f \in Nat /\ SeriesOf[f] \in Series /\ SeriesOf[f] \in Nat
    BY Numbers
  <2>3. SeriesOf[f] < w.at => SeenBy(w, f)
    BY <1>3 DEF CoversBelow
  <2>4. ASSUME SeriesOf[f] = w.at, f \notin All(w) PROVE SeenBy(w, f)
    <3>1. w.at = w.from[1] /\ ~ (f > w.from[2])
      BY <2>4 DEF All
    <3>2. w.from[2] \in Nat
      BY <1>3
    <3>3. Before(f, w.from)
      BY <2>2, <2>4, <3>1, <3>2 DEF Before
    <3> QED BY <1>3, <3>3 DEF CoversTo
  <2> QED BY <2>2, <2>3, <2>4
<1>9. v.cur \in Nat \X Nat /\ CoversTo(v, v.cur)
  <2>1. CASE Taken(w) = {}
    BY <1>2, <1>3, <1>7, <2>1 DEF CoversTo
  <2>2. CASE Taken(w) # {}
    <3>1. Taken(w) \in SUBSET Nat /\ IsFiniteSet(Taken(w))
      BY <1>4, <1>5, FS_Subset
    <3>2. Largest(Taken(w)) \in Taken(w)
      BY <2>2, <3>1, GreatestOne
    <3>3. v.cur = <<w.at, Largest(Taken(w))>> /\ w.at \in Nat
      BY <1>2, <1>3, <2>2, Numbers
    <3>4. ASSUME NEW f \in Library \cap library, Before(f, v.cur) PROVE SeenBy(v, f)
      <4>1. SeriesOf[f] < w.at \/ (SeriesOf[f] = w.at /\ f <= Largest(Taken(w)))
        BY <3>3, <3>4 DEF Before
      <4>2. f \in All(w) /\ f <= Largest(Taken(w)) => f \in Taken(w)
        BY <1>5, <3>2
      <4> QED BY <1>6, <1>7, <1>8, <4>1, <4>2
    <3>5. Largest(Taken(w)) \in Nat
      BY <3>1, <3>2
    <3> QED BY <3>3, <3>4, <3>5 DEF CoversTo
  <2> QED BY <2>1, <2>2
<1>10. w.at \in SeriesFrom(w.at)
  <2>1. w.at \in Series /\ w.at \in Nat
    BY <1>3, Numbers
  <2>2. w.at >= w.at
    BY <2>1
  <2> QED BY <2>1, <2>2 DEF SeriesFrom
<1>11. ASSUME Exhausted(All(w), Taken(w)), NEW f \in Library \cap library, ~ SeenBy(v, f)
       PROVE  SeriesOf[f] \in SeriesFrom(w.at + 1)
  <2>1. ~ (SeriesOf[f] < w.at) /\ SeriesOf[f] # w.at
    BY <1>6, <1>7, <1>8, <1>11 DEF Exhausted
  <2>2. SeriesOf[f] \in Series /\ SeriesOf[f] \in Nat /\ w.at \in Nat
    BY <1>3, <1>8, Numbers
  <2>3. SeriesOf[f] >= w.at + 1
    BY <2>1, <2>2
  <2> QED BY <2>2, <2>3 DEF SeriesFrom
<1>12. Ahead(w) = {} => \A f \in Library \cap library : SeenBy(v, f)
  BY <1>10, <1>11 DEF Ahead
<1>13. ASSUME Over(w), Ahead(w) # {} PROVE v.cur # NoCursor
  <2>1. Taken(w) # {}
    <3>1. SUFFICES ASSUME Taken(w) = {} PROVE FALSE
      OBVIOUS
    <3>2. All(w) = {} /\ Exhausted(All(w), Taken(w))
      BY <1>5, <3>1 DEF Exhausted
    <3>3. v.left = w.left
      <4>1. Cardinality(Taken(w)) = 0
        BY <3>1, FS_EmptySet
      <4> QED BY <1>2, <1>3, <4>1
    <3> QED BY <1>1, <1>3, <1>13, <3>2, <3>3 DEF Over
  <2>2. v.cur = <<w.at, Largest(Taken(w))>> /\ w.at # 0
    BY <1>2, <1>3, <2>1, Numbers
  <2>3. v.cur[1] = w.at
    BY <2>2
  <2> QED BY <2>2, <2>3, Numbers
<1>14. ASSUME ~ Over(w) PROVE Walking(v)
  <2>1. v.left # 0 /\ Ahead(w) # {} /\ Exhausted(All(w), Taken(w))
    BY <1>1, <1>14 DEF Over
  <2>2. v.left \in Nat \ {0}
    BY <1>2, <1>3, <1>5, <2>1
  <2>3. Ahead(w) = SeriesFrom(w.at + 1)
    BY <2>1 DEF Ahead
  <2>4. Ahead(w) \in SUBSET Series /\ Ahead(w) \in SUBSET Nat
    BY <2>3, Numbers DEF SeriesFrom
  <2>5. v.at \in Ahead(w) /\ \A y \in Ahead(w) : v.at <= y
    BY <1>2, <2>1, <2>4, LeastOne
  <2>6. ASSUME NEW f \in Library \cap library, SeriesOf[f] < v.at PROVE SeenBy(v, f)
    <3>1. SUFFICES ASSUME ~ SeenBy(v, f) PROVE FALSE
      OBVIOUS
    <3>2. SeriesOf[f] \in Ahead(w)
      BY <1>11, <2>1, <2>3, <3>1
    <3>3. v.at <= SeriesOf[f] /\ v.at \in Nat /\ SeriesOf[f] \in Nat
      BY <2>4, <2>5, <3>2
    <3> QED BY <2>6, <3>3
  <2>7. CoversTo(v, v.from)
    BY <1>2, <1>3, <1>7 DEF CoversTo
  <2> QED BY <1>2, <1>3, <1>9, <2>2, <2>4, <2>5, <2>6, <2>7 DEF Walking, Listing, CoversBelow
<1> QED BY <1>1, <1>2, <1>9, <1>12, <1>13, <1>14

LEMMA MovedStages ==
  ASSUME IInv, NEW b \in Backfills, walk[b].pc = "walking"
  PROVE  /\ \A f \in Files : f \in Moved(walk[b]).staged => rows[f] = 0
         /\ Moved(walk[b]).staged # {} => MayWrite(b) \/ Fresh(walk[b]) \ Uncapturable # {}
<1>1. PICK w : w = walk[b]
  OBVIOUS
<1>2. Moved(w).staged = w.staged \cup (Fresh(w) \ Uncapturable)
  BY <1>1 DEF IInv, Shape, WalkFields, Moved
<1>3. \A f \in Files : f \in Fresh(w) => rows[f] = 0
  BY DEF Fresh, Exists, IInv, Shape
<1>4. \A f \in Files : f \in w.staged => rows[f] = 0
  BY <1>1 DEF IInv, Locked
<1>5. w.staged # {} => MayWrite(b)
  BY <1>1 DEF IInv, Locked, MayWrite
<1> QED BY <1>1, <1>2, <1>3, <1>4, <1>5

LEMMA BackfillSeriesKeeps ==
  ASSUME IInv, NEW b \in Backfills, BackfillSeries(b)
  PROVE  IInv'
<1>1. walk[b].pc = "walking" /\ walk[b] = WalkFields(walk[b]) /\ Walking(walk[b])
  BY SeriesByName DEF IInv, Shape, WalkFields, WalkCovers
<1>2. PICK w : w = walk[b]
  OBVIOUS
<1>3. PICK v : v = Moved(w)
  OBVIOUS
<1>4. /\ v = WalkFields(v) /\ v.pc = "walking" /\ v.cur \in Nat \X Nat /\ CoversTo(v, v.cur)
      /\ ~ Over(w) => Walking(v)
  BY <1>1, <1>2, <1>3, MovedSees
<1>5. /\ \A f \in Files : f \in v.staged => rows[f] = 0
      /\ v.staged # {} => MayWrite(b) \/ Fresh(w) \ Uncapturable # {}
  BY <1>1, <1>2, <1>3, MovedStages
<1>6. CASE Block(b)
  BY <1>6, BlockKeeps
<1>7. ASSUME NEW at, MayWrite(b), BackfillCommit(b, v, at) PROVE IInv'
  BY <1>4, <1>5, <1>7, BackfillCommitKeeps
<1>8. CASE /\ ~ Over(w) /\ BackfillSuspend(b, v)
           /\ MayWrite(b) \/ Fresh(w) \ Uncapturable = {}
  BY <1>4, <1>5, <1>8, BackfillSuspendKeeps
<1> QED BY <1>2, <1>3, <1>6, <1>7, <1>8, SeriesByName

LEMMA BackfillFailsKeeps ==
  ASSUME IInv, NEW b \in Backfills, walk' = [walk EXCEPT ![b] = IdleWalk],
         FreeLock(b) \/ lock' = lock,
         UNCHANGED <<sonarr, rows, watermark, cursor, poll, notes>>
  PROVE  IInv'
<1>1. /\ walk' = [c \in Backfills |-> WalkFields(walk'[c])]
      /\ walk'[b] = IdleWalk
      /\ \A c \in Backfills : c # b => walk'[c] = walk[c]
      /\ IdleWalk.pc = "idle" /\ IdleWalk.staged = {} /\ IdleWalk.passed = {}
  BY OneWalk DEF IInv, IdleWalk, WalkFields
<1>2. Shape'
  BY <1>1 DEF IInv, Shape, sonarr
<1>3. Locked'
  BY <1>1, Apart DEF IInv, Locked, OneRowPerFile, FreeLock
<1>4. \A f : Settled(f) => Settled(f)'
  BY DEF Settled, notes
<1>5. PollCovers'
  BY <1>4, PollGoesOn DEF sonarr, IInv, Shape
<1>6. CursorHonest'
  BY <1>4 DEF IInv, WalkCovers, CursorHonest, Before, sonarr, notes
<1>7. \A c \in Backfills : c # b =>
          /\ walk'[c].pc \in {"idle", "listing", "walking"}
          /\ walk'[c].pc # "idle" => Listing(walk[c])'
          /\ walk'[c].pc = "walking" => Walking(walk[c])'
          /\ walk'[c].pc # "walking" => walk'[c].staged = {} /\ walk'[c].passed = {}
  BY <1>1, <1>4, OthersGoOn DEF sonarr, notes
<1> QED BY <1>1, <1>2, <1>3, <1>5, <1>6, <1>7 DEF IInv, WalkCovers

-----------------------------------------------------------------------------
(* Sonarr, the other writers, and the wait for the lock *)

LEMMA SonarrKeeps ==
  ASSUME IInv, NEW f \in Files, Import(f) \/ Delete(f)
  PROVE  IInv'
<1>1. Locked'
  BY DEF Import, Delete, IInv, Locked, OneRowPerFile, db
<1>2. CASE Import(f)
  <2>1. PICK n \in 1 .. 2 : history' = history \o [i \in 1 .. n |-> f]
    BY <1>2 DEF Import
  <2>2. history \in Seq(Files \cup {NoFile}) /\ [i \in 1 .. n |-> f] \in Seq(Files \cup {NoFile})
        /\ Len([i \in 1 .. n |-> f]) = n
    BY DEF IInv, Shape
  <2>3. /\ history' \in Seq(Files \cup {NoFile}) /\ Len(history') = Len(history) + n
        /\ \A i \in 1 .. Len(history) : history'[i] = history[i]
    BY <2>1, <2>2, ConcatProperties
  <2>4. library' \subseteq Files /\ Library \cap library' \subseteq library
    BY <1>2 DEF Import, IInv, Shape
  <2>5. Len(history') >= Len(history)
    BY <2>2, <2>3
  <2> QED BY <1>1, <1>2, <2>3, <2>4, <2>5, NothingWritten DEF Import, db, notes
<1>3. CASE Delete(f)
  BY <1>1, <1>3, NothingWritten DEF Delete, db, notes, IInv, Shape
<1> QED BY <1>2, <1>3

LEMMA RecordWithoutFileKeeps ==
  ASSUME IInv, RecordWithoutFile
  PROVE  IInv'
<1>1. Locked'
  BY DEF RecordWithoutFile, IInv, Locked, OneRowPerFile, db
<1>2. history \in Seq(Files \cup {NoFile}) /\ library \subseteq Files
  BY DEF IInv, Shape
<1>3. /\ history' \in Seq(Files \cup {NoFile}) /\ Len(history') >= Len(history)
      /\ \A i \in 1 .. Len(history) : history'[i] = history[i]
  BY <1>2, AppendProperties DEF RecordWithoutFile
<1> QED BY <1>1, <1>2, <1>3, NothingWritten DEF RecordWithoutFile, db, notes

LEMMA OthersKeep ==
  ASSUME IInv, ThreadWrites \/ ThreadCommits \/ WriteProceeds
  PROVE  IInv'
<1>1. Locked'
  <2>1. CASE lock = None
    BY <2>1, OnlyWriter DEF ThreadWrites, ThreadCommits, WriteProceeds, IInv, Locked, OneRowPerFile
  <2>2. CASE lock = Thread
    BY <2>2, Apart DEF ThreadWrites, ThreadCommits, WriteProceeds, IInv, Locked, OneRowPerFile
  <2> QED BY <2>1, <2>2 DEF ThreadWrites, ThreadCommits, WriteProceeds
<1> QED BY <1>1, NothingWritten DEF ThreadWrites, ThreadCommits, WriteProceeds, sonarr, IInv, Shape

LEMMA BusyTimeoutKeeps ==
  ASSUME IInv, BusyTimeout
  PROVE  IInv'
<1>1. CASE blocked = Poll /\ PollRaises
  BY <1>1, PollRaisesKeeps
<1>2. CASE UNCHANGED <<sonarr, db, poll, walk, notes>>
  <2>1. Locked'
    BY <1>2 DEF IInv, Locked, OneRowPerFile, db
  <2> QED BY <1>2, <2>1, NothingWritten DEF IInv, Shape, sonarr, db
<1>3. CASE /\ blocked \in Backfills /\ walk' = [walk EXCEPT ![blocked] = IdleWalk]
           /\ UNCHANGED <<sonarr, db, poll, notes>>
  BY <1>3, BackfillFailsKeeps DEF db
<1> QED BY <1>1, <1>2, <1>3 DEF BusyTimeout

LEMMA CrashKeeps ==
  ASSUME IInv, Crash
  PROVE  IInv'
<1> USE DEF Crash
<1>1. \A f : Settled(f) => Settled(f)'
  BY DEF Settled, notes
<1>2. /\ IdlePoll = PollFields(IdlePoll) /\ IdleWalk = WalkFields(IdleWalk)
      /\ IdlePoll.pc = "idle" /\ IdlePoll.staged = {} /\ IdlePoll.passed = {}
      /\ IdleWalk.pc = "idle" /\ IdleWalk.staged = {} /\ IdleWalk.passed = {}
  BY DEF IdlePoll, IdleWalk, PollFields, WalkFields
<1>3. Shape'
  BY <1>2 DEF IInv, Shape, sonarr
<1>4. Locked'
  BY <1>2 DEF IInv, Locked, OneRowPerFile
<1>5. PollCovers'
  BY <1>2 DEF IInv, PollCovers, NothingPassedBy, Settled, sonarr, notes
<1>6. CursorHonest'
  BY <1>1 DEF IInv, WalkCovers, CursorHonest, Before, sonarr, notes
<1>7. WalkCovers'
  BY <1>2, <1>6 DEF WalkCovers
<1> QED BY <1>3, <1>4, <1>5, <1>7 DEF IInv

LEMMA Stutters ==
  ASSUME IInv, UNCHANGED vars
  PROVE  IInv'
<1>1. Locked'
  BY DEF IInv, Locked, OneRowPerFile, vars, db
<1> QED BY <1>1, NothingWritten DEF IInv, Shape, vars, sonarr, db

LEMMA StepKeeps == IInv /\ [Next]_vars => IInv'
<1> SUFFICES ASSUME IInv, [Next]_vars PROVE IInv'
  OBVIOUS
<1>1. ASSUME NEW f \in Files, Import(f) \/ Delete(f) \/ PollFile(f) \/ PollEpisodes(f) PROVE IInv'
  BY <1>1, SonarrKeeps, PollFileKeeps, PollEpisodesKeeps
<1>2. CASE RecordWithoutFile
  BY <1>2, RecordWithoutFileKeeps
<1>3. CASE PollStart \/ PollHistory \/ PollFails
  BY <1>3, PollStartKeeps, PollHistoryKeeps, PollRaisesKeeps DEF PollFails
<1>4. ASSUME NEW b \in Backfills,
             BackfillRequest(b) \/ BackfillListed(b) \/ BackfillSeries(b) \/ BackfillFails(b)
      PROVE  IInv'
  <2>1. CASE BackfillFails(b)
    BY <2>1, BackfillFailsKeeps DEF BackfillFails
  <2> QED BY <1>4, <2>1, BackfillStartKeeps, BackfillListedKeeps, BackfillSeriesKeeps
<1>5. CASE ThreadWrites \/ ThreadCommits \/ WriteProceeds
  BY <1>5, OthersKeep
<1>6. CASE PipelineWrites
  BY <1>6, BlockKeeps DEF PipelineWrites
<1>7. CASE BusyTimeout
  BY <1>7, BusyTimeoutKeeps
<1>8. CASE Crash
  BY <1>8, CrashKeeps
<1>9. CASE UNCHANGED vars
  BY <1>9, Stutters
<1> QED BY <1>1, <1>2, <1>3, <1>4, <1>5, <1>6, <1>7, <1>8, <1>9 DEF Next

LEMMA Invariance == Spec => []IInv
BY InitHolds, StepKeeps, PTL DEF Spec

\* Only a walk's commit moves the cursor, and only one with nothing ahead of
\* it, or one that was asked for nothing, sets it back.
LEMMA ResetMeansDone ==
  ASSUME IInv, NEW b \in Backfills, NEW w, NEW at, BackfillCommit(b, w, at),
         \A f \in Library \cap library : SeenBy(w, f)
  PROVE  \A f \in Library \cap library : (Settled(f) \/ f \in waived)'
BY CommitSettles, Numbers DEF IInv

LEMMA CursorMoves ==
  ASSUME IInv, Next, cursor' # cursor
  PROVE  \E b \in Backfills : BackfillListed(b) \/ BackfillSeries(b)
<1>1. ASSUME NEW t, Block(t) PROVE FALSE
  BY <1>1 DEF Block, db
<1>2. ASSUME PollRaises PROVE FALSE
  BY <1>2 DEF PollRaises
<1>3. ASSUME NEW p, PollOn(p) PROVE FALSE
  BY <1>1, <1>3 DEF PollOn
<1>4. ASSUME NEW f \in Files, Import(f) \/ Delete(f) \/ PollFile(f) \/ PollEpisodes(f) PROVE FALSE
  BY <1>1, <1>2, <1>3, <1>4 DEF Import, Delete, PollFile, PollEpisodes, PollSkip, PollInsert, db
<1>5. CASE PollStart \/ PollHistory \/ PollFails
  BY <1>2, <1>3, <1>5 DEF PollStart, PollHistory, PollFails, db
<1>6. CASE \E b \in Backfills : BackfillRequest(b) \/ BackfillFails(b)
  BY <1>6 DEF BackfillRequest, BackfillStart, BackfillFails, db
<1>7. CASE RecordWithoutFile \/ ThreadWrites \/ ThreadCommits \/ PipelineWrites \/ WriteProceeds
           \/ BusyTimeout \/ Crash
  BY <1>1, <1>2, <1>7 DEF RecordWithoutFile, ThreadWrites, ThreadCommits, PipelineWrites,
     WriteProceeds, BusyTimeout, Crash, db
<1> QED BY <1>4, <1>5, <1>6, <1>7 DEF Next

LEMMA ResetStep ==
  IInv /\ [Next]_vars =>
    (cursor # NoCursor /\ cursor' = NoCursor =>
       \/ \A f \in Library \cap library : (Settled(f) \/ f \in waived)'
       \/ \E b \in Backfills : NothingAsked(b))
<1> SUFFICES ASSUME IInv, [Next]_vars, cursor # NoCursor, cursor' = NoCursor,
                    ~ \E b \in Backfills : NothingAsked(b)
             PROVE  \A f \in Library \cap library : (Settled(f) \/ f \in waived)'
  OBVIOUS
<1>1. Next
  BY DEF vars, db
<1>2. PICK b \in Backfills : BackfillListed(b) \/ BackfillSeries(b)
  BY <1>1, CursorMoves
<1>3. PICK w : w = walk[b]
  OBVIOUS
<1>4. CASE BackfillListed(b)
  <2>1. w.pc = "listing" /\ Listing(w)
    BY <1>3, <1>4 DEF BackfillListed, IInv, WalkCovers
  <2>2. PICK at : at = SeriesFrom(w.from[1])
    OBVIOUS
  <2>3. (at = {} \/ ~ w.left > 0) /\ BackfillCommit(b, w, at)
    BY <1>3, <1>4, <2>2 DEF BackfillListed, BackfillSuspend, Block, db
  <2>4. walk'[b].pc = "idle"
    BY <2>3 DEF BackfillCommit, IInv, Shape, IdleWalk
  <2>5. at = {} /\ w.left # 0
    BY <1>3, <2>1, <2>3, <2>4 DEF NothingAsked, Listing
  <2>6. ASSUME NEW f \in Library \cap library PROVE SeenBy(w, f)
    <3>1. SeriesOf[f] \in Series /\ SeriesOf[f] \in Nat /\ w.from[1] \in Nat
      BY <2>1, Numbers DEF Listing
    <3>2. SeriesOf[f] < w.from[1]
      BY <2>2, <2>5, <3>1 DEF SeriesFrom
    <3> QED BY <2>1, <2>5, <3>2 DEF Listing, CoversTo, Before
  <2> QED BY <2>3, <2>6, ResetMeansDone
<1>5. CASE BackfillSeries(b)
  <2>1. w.pc = "walking" /\ w = WalkFields(w) /\ Walking(w)
    BY <1>3, <1>5, SeriesByName DEF IInv, Shape, WalkFields, WalkCovers
  <2>2. Over(w) /\ BackfillCommit(b, Moved(w), Ahead(w))
    BY <1>3, <1>5, SeriesByName DEF BackfillSuspend, Block, db
  <2>3. Ahead(w) = {}
    <3>1. SUFFICES ASSUME Ahead(w) # {} PROVE FALSE
      OBVIOUS
    <3>2. Moved(w).cur = NoCursor
      BY <2>2, <3>1 DEF BackfillCommit
    <3> QED BY <2>1, <2>2, <3>1, <3>2, MovedSees
  <2>4. \A f \in Library \cap library : SeenBy(Moved(w), f)
    BY <2>1, <2>3, MovedSees
  <2>5. PICK v : v = Moved(w)
    OBVIOUS
  <2> QED BY <2>2, <2>4, <2>5, ResetMeansDone
<1> QED BY <1>2, <1>4, <1>5

-----------------------------------------------------------------------------
(* The theorems *)

\* Whatever rollbacks, crashes and racing backfills come between, every record
\* at or below the watermark has no file, or its file a row or an excuse.
THEOREM NothingPassedByHolds == Spec => []NothingPassedBy
<1>1. IInv => NothingPassedBy
  BY DEF IInv, PollCovers
<1> QED BY <1>1, Invariance, PTL

\* However many backfills race the poll, no episode file gets two rows.
THEOREM OneRowPerFileHolds == Spec => []OneRowPerFile
<1>1. IInv => OneRowPerFile
  BY DEF IInv, Locked
<1> QED BY <1>1, Invariance, PTL

\* However many walks race, whichever commits last, all that was in the library
\* before the saved cursor has been looked at or jumped over on purpose.
THEOREM CursorHonestHolds == Spec => []CursorHonest
<1>1. IInv => CursorHonest
  BY DEF IInv, WalkCovers
<1> QED BY <1>1, Invariance, PTL

\* The cursor goes back to null only when the whole library has been seen, or
\* at the end of a request that asked for no files.
THEOREM BackfillCompleteHolds == Spec => BackfillComplete
<1>1. IInv /\ [Next]_vars =>
        [cursor # NoCursor /\ cursor' = NoCursor =>
           \/ \A f \in Library \cap library : (Settled(f) \/ f \in waived)'
           \/ \E b \in Backfills : NothingAsked(b)]_vars
  BY ResetStep
<1> QED BY <1>1, Invariance, PTL DEF Spec, BackfillComplete
=============================================================================
