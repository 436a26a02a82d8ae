---------------------------- MODULE RefSubsProofs ----------------------------
(***************************************************************************)
(* The download quota and the shared login of RefSubs, proved for any      *)
(* number of callers, languages and strategies and any daily_quota.        *)
(*                                                                         *)
(* For the quota the argument is a ledger: what OpenSubtitles has debited  *)
(* today and what callers still hold reserved is covered by the count in   *)
(* quota.json, but for the day's strays and for what a write cut short has *)
(* erased: at most one daily_quota each time.  QuotaBound alone is not     *)
(* inductive: it does not say that a download about to be debited has been *)
(* counted.  For the login it is about who stands at the login door.       *)
(***************************************************************************)
EXTENDS RefSubs, FiniteSetTheorems, SequenceTheorems, TLAPS

Reserving == {c \in Callers : Reserved(c)}

\* A record as far as the ledger needs it: Gets, but for which token was sent.
Records == [pc : {"idle", "door", "line", "backoff", "save"},
            ep : Episodes \cup {NoEpisode}, lang : 1 .. Languages,
            query : 1 .. Strategies, op : {"search", "download"},
            call : {"login", "relogin", "op", "again"},
            attempt : {0, 1}, tries : {0, 1}, sent : {"none", "good", "bad"}]

\* The types the ledger needs; the queues of the two locks are not among them.
LedgerTypes ==
    /\ count \in 0 .. Quota
    /\ token \in {"none", "good", "bad"}
    /\ get \in [Callers -> Records]
    /\ debited \in Nat /\ strays \in Nat /\ torn \in Nat

\* What the writes cut short may have erased today.
Erased == Quota * torn

Covered == debited + Cardinality(Reserving) <= count + strays + Erased

Ledger == LedgerTypes /\ Covered

\* A caller's share of the reservations, before and after a step.
Held(c) == IF Reserved(c) THEN 1 ELSE 0

-----------------------------------------------------------------------------
(* Reservations and their number *)

\* The arithmetic below is over natural numbers.
LEMMA Numbers == Quota \in Nat /\ Languages \in Nat \ {0} /\ Strategies \in Nat \ {0}
BY CountsAssumption

LEMMA CountNumber == Ledger => count \in Nat /\ count <= Quota
BY Numbers DEF Ledger, LedgerTypes

LEMMA HeldNumber == ASSUME NEW c PROVE Held(c) \in {0, 1} /\ Held(c)' \in {0, 1}
BY DEF Held

\* There are finitely many callers, so the reservations can be counted.
LEMMA ReservingFinite == IsFiniteSet(Reserving) /\ Cardinality(Reserving) \in Nat
<1>1. IsFiniteSet(Callers) /\ Reserving \in SUBSET Callers
  BY NamesAssumption DEF Reserving
<1> QED
  BY <1>1, FS_Subset, FS_CardinalityType

\* A step of one caller changes the number of reservations by its own share.
LEMMA OneCaller ==
    ASSUME NEW c \in Callers,
           \A d \in Callers \ {c} : Reserved(d)' <=> Reserved(d)
    PROVE  Cardinality(Reserving)' = Cardinality(Reserving) - Held(c) + Held(c)'
<1>1. CASE Reserved(c)'
  <2>1. Reserving' = Reserving \cup {c}
    BY <1>1 DEF Reserving
  <2>2. Cardinality(Reserving \cup {c}) =
            IF c \in Reserving THEN Cardinality(Reserving) ELSE Cardinality(Reserving) + 1
    BY ReservingFinite, FS_AddElement
  <2>3. Held(c)' = 1 /\ Held(c) = IF c \in Reserving THEN 1 ELSE 0
    BY <1>1 DEF Held, Reserving
  <2> QED
    BY <2>1, <2>2, <2>3, ReservingFinite
<1>2. CASE ~Reserved(c)'
  <2>1. Reserving' = Reserving \ {c}
    BY <1>2 DEF Reserving
  <2>2. Cardinality(Reserving \ {c}) =
            IF c \in Reserving THEN Cardinality(Reserving) - 1 ELSE Cardinality(Reserving)
    BY ReservingFinite, FS_RemoveElement
  <2>3. Held(c)' = 0 /\ Held(c) = IF c \in Reserving THEN 1 ELSE 0
    BY <1>2 DEF Held, Reserving
  <2> QED
    BY <2>1, <2>2, <2>3, ReservingFinite
<1> QED
  BY <1>1, <1>2

LEMMA ErasedNumber ==
    ASSUME torn \in Nat
    PROVE  /\ Erased \in Nat
           /\ torn' = torn => Erased' = Erased
           /\ torn' = torn + 1 => Erased' = Erased + Quota
           /\ torn' = 0 => Erased' = 0
BY Numbers DEF Erased

\* A caller's step writes its own record.
Writes(c) == \E r \in Records : get' = [get EXCEPT ![c] = r]

\* What a caller may do to the ledger: it writes its own record only, and
\* what it debits or takes from the count is matched by the reservation it
\* gives up or by strays.
Pays(c) ==
    /\ Writes(c)
    /\ count' \in 0 .. Quota
    /\ token' \in {"none", "good", "bad"}
    /\ debited' \in Nat /\ strays' \in Nat
    /\ debited' + Held(c)' + count + strays <= debited + Held(c) + count' + strays'

\* A step that pays keeps the ledger.
LEMMA PaysKeepsLedger ==
    ASSUME Ledger, NEW c \in Callers, Pays(c), torn' = torn
    PROVE  Ledger'
<1>1. PICK r \in Records : get' = [get EXCEPT ![c] = r]
  BY DEF Pays, Writes
<1>2. get' \in [Callers -> Records] /\ \A d \in Callers \ {c} : get'[d] = get[d]
  BY <1>1 DEF Ledger, LedgerTypes
<1>3. \A d \in Callers \ {c} : Reserved(d)' <=> Reserved(d)
  BY <1>2 DEF Reserved
<1>4. Cardinality(Reserving)' = Cardinality(Reserving) - Held(c) + Held(c)'
  BY <1>3, OneCaller
<1>5. Held(c) \in Nat /\ Held(c)' \in Nat
  BY DEF Held
<1>6. LedgerTypes'
  BY <1>2 DEF Pays, Ledger, LedgerTypes
<1>7. Quota \in Nat
  BY CountsAssumption
<1>8. Erased \in Nat /\ Erased' = Erased
  BY ErasedNumber DEF Ledger, LedgerTypes
<1>9. Covered'
  BY <1>4, <1>5, <1>7, <1>8, ReservingFinite DEF Pays, Covered, Ledger, LedgerTypes
<1> QED
  BY <1>6, <1>9 DEF Ledger

-----------------------------------------------------------------------------
(* The steps of a caller *)

LEMMA IdleTyped == Idle \in Records
BY Numbers DEF Idle, Records

\* An authenticated request begins with a reservation in hand.
LEMMA AuthedReserves ==
    ASSUME Ledger, NEW c \in Callers, NEW r \in Records, NEW d, NEW l,
           NEW tok \in {"none", "good", "bad"}, Authed(c, r, tok, d, l)
    PROVE  Writes(c) /\ Held(c)' = 1
<1>1. CASE tok # "none"
  <2> DEFINE x == [r EXCEPT !.pc = "line", !.call = "op", !.sent = tok]
  <2>1. get' = [get EXCEPT ![c] = x]
    BY <1>1 DEF Authed
  <2>2. x \in Records /\ x.pc = "line"
    BY <1>1 DEF Records
  <2>3. get'[c] = x
    BY <2>1 DEF Ledger, LedgerTypes
  <2> QED
    BY <2>1, <2>2, <2>3 DEF Held, Reserved, Writes
<1>2. CASE tok = "none"
  <2> DEFINE x == [r EXCEPT !.pc = "door"]
  <2>1. get' = [get EXCEPT ![c] = x]
    BY <1>2 DEF Authed
  <2>2. x \in Records /\ x.pc = "door"
    BY DEF Records
  <2>3. get'[c] = x
    BY <2>1 DEF Ledger, LedgerTypes
  <2> QED
    BY <2>1, <2>2, <2>3 DEF Held, Reserved, Writes
<1> QED
  BY <1>1, <1>2

\* The loop over the languages counts every fetch it starts.
LEMMA LanguageCounted ==
    ASSUME Ledger, NEW c \in Callers, NEW e \in Episodes \cup {NoEpisode}, NEW k \in Nat \ {0},
           NEW n \in 0 .. Quota, NEW d, NEW l, TryLanguage(c, e, k, n, d, l)
    PROVE  /\ Writes(c)
           /\ count' = n + Held(c)' /\ count' \in 0 .. Quota
<1> DEFINE over == ~Reserves(e, k, n)
<1>1. CASE over
  <2>1. get' = [get EXCEPT ![c] = Idle] /\ count' = n
    BY <1>1 DEF TryLanguage
  <2>2. get'[c].pc = "idle"
    BY <2>1 DEF Ledger, LedgerTypes, Idle
  <2>3. Held(c)' = 0
    BY <2>2 DEF Held, Reserved
  <2>4. n + 0 = n
    OBVIOUS
  <2> QED
    BY <2>1, <2>3, <2>4, IdleTyped DEF Writes
<1>2. CASE ~over
  <2> DEFINE r == [Idle EXCEPT !.ep = e, !.lang = k]
  <2>1. count' = n + 1 /\ Authed(c, r, token, d, l)
    BY <1>2 DEF TryLanguage
  <2>2. k \in 1 .. Languages
    BY <1>2, Numbers DEF Reserves
  <2>3. r \in Records
    BY <2>2, IdleTyped DEF Records
  <2>4. Writes(c) /\ Held(c)' = 1
    BY <2>1, <2>3, AuthedReserves DEF Ledger, LedgerTypes
  <2>5. n + 1 \in 0 .. Quota
    BY <1>2, Numbers DEF Reserves, UnderQuota
  <2> QED
    BY <2>1, <2>4, <2>5
<1> QED
  BY <1>1, <1>2

\* Giving back takes at most the one unit the reservation put there.
LEMMA GiveBackBounds ==
    ASSUME NEW n \in 0 .. Quota, NEW paid \in BOOLEAN
    PROVE  /\ GiveBack(n, paid) \in 0 .. Quota
           /\ paid => GiveBack(n, paid) = n
           /\ n <= GiveBack(n, paid) + 1
BY Numbers DEF GiveBack, Settled

\* A fetch that comes to nothing: the next query keeps the reservation, the
\* next language is counted anew.
LEMMA NoResultPays ==
    ASSUME Ledger, NEW c \in Callers, Reserved(c), NEW d, NEW l, NoResult(c, d, l)
    PROVE  /\ Writes(c)
           /\ count' \in 0 .. Quota
           /\ Held(c)' + count <= 1 + count'
<1>1. get[c] \in Records
  BY DEF Ledger, LedgerTypes
<1>2. CASE get[c].op = "search" /\ get[c].query < Strategies
  <2> DEFINE r == [get[c] EXCEPT !.query = @ + 1, !.attempt = 0]
  <2>1. Authed(c, r, token, d, l) /\ count' = count
    BY <1>2 DEF NoResult
  <2>2. get[c].query + 1 \in 1 .. Strategies
    BY <1>1, <1>2, Numbers DEF Records
  <2>3. r \in Records
    BY <1>1, <2>2 DEF Records
  <2>4. Writes(c) /\ Held(c)' = 1
    BY <2>1, <2>3, AuthedReserves DEF Ledger, LedgerTypes
  <2> QED
    BY <2>1, <2>4 DEF Ledger, LedgerTypes
<1>3. CASE ~(get[c].op = "search" /\ get[c].query < Strategies)
  <2> DEFINE n == GiveBack(count, FALSE)
  <2>1. TryLanguage(c, get[c].ep, get[c].lang + 1, n, d, l)
    BY <1>3 DEF NoResult
  <2>2. get[c].ep \in Episodes \cup {NoEpisode} /\ get[c].lang + 1 \in Nat \ {0}
    BY <1>1, Numbers DEF Records
  <2>3. n \in 0 .. Quota /\ count <= n + 1
    BY GiveBackBounds DEF Ledger, LedgerTypes
  <2>4. /\ Writes(c)
        /\ count' = n + Held(c)' /\ count' \in 0 .. Quota
    BY <2>1, <2>2, <2>3, LanguageCounted
  <2>5. count \in Nat
    BY Numbers DEF Ledger, LedgerTypes
  <2> HIDE DEF n
  <2>6. Held(c)' + count <= 1 + count'
    BY <2>3, <2>4, <2>5, Numbers, HeldNumber
  <2> QED
    BY <2>4, <2>6
<1> QED
  BY <1>2, <1>3

\* Writing one's own record without giving the reservation up.
LEMMA KeepsReservation ==
    ASSUME Ledger, NEW c \in Callers, Reserved(c), NEW x \in Records, x.pc \notin {"idle", "save"},
           get' = [get EXCEPT ![c] = x],
           UNCHANGED <<count, debited, strays>>, token' \in {"none", "good", "bad"}
    PROVE  Pays(c)
<1>1. get'[c] = x
  BY DEF Ledger, LedgerTypes
<1>2. Held(c) = 1 /\ Held(c)' = 1
  BY <1>1 DEF Held, Reserved
<1>3. Writes(c)
  BY DEF Writes
<1> QED
  BY <1>2, <1>3, Numbers DEF Pays, Ledger, LedgerTypes

\* A fetch that comes to nothing while nothing was debited, or one stray.
LEMMA NothingLost ==
    ASSUME Ledger, NEW c \in Callers, Reserved(c), NEW d, NEW l, NoResult(c, d, l),
           token' = token,
           \/ UNCHANGED <<debited, strays>>
           \/ debited' = debited + 1 /\ strays' = strays + 1
    PROVE  Pays(c)
<1>1. /\ Writes(c)
      /\ count' \in 0 .. Quota
      /\ Held(c)' + count <= 1 + count'
  BY NoResultPays
<1>2. Held(c) = 1 /\ Held(c)' \in Nat
  BY DEF Held
<1>3. Quota \in Nat
  BY CountsAssumption
<1> QED
  BY <1>1, <1>2, <1>3 DEF Pays, Ledger, LedgerTypes

\* The first 429 keeps the reservation through the sleep.
LEMMA BackoffKeeps ==
    ASSUME Ledger, NEW c \in Callers, get[c].pc = "line", Backoff(c),
           token' = token, UNCHANGED <<debited, strays>>
    PROVE  Pays(c)
<1> DEFINE x == [get[c] EXCEPT !.pc = "backoff"]
<1>1. get[c] \in Records /\ Reserved(c)
  BY DEF Ledger, LedgerTypes, Reserved
<1>2. x \in Records /\ x.pc = "backoff"
  BY <1>1 DEF Records
<1>3. get' = [get EXCEPT ![c] = x] /\ count' = count
  BY DEF Backoff
<1> QED
  BY <1>1, <1>2, <1>3, KeepsReservation DEF Ledger, LedgerTypes

-----------------------------------------------------------------------------
(* One lemma per action that is more than a case of the above *)

\* get() starts without a reservation.
LEMMA GetPays == ASSUME Ledger, NEW c \in Callers, Get(c) PROVE Pays(c)
<1>1. PICK e \in Episodes : TryLanguage(c, e, 1, count, door, line)
  BY DEF Get
<1>2. /\ Writes(c)
      /\ count' = count + Held(c)' /\ count' \in 0 .. Quota
  BY <1>1, LanguageCounted DEF Ledger, LedgerTypes
<1>3. Held(c) = 0 /\ Held(c)' \in Nat
  BY DEF Get, Held, Reserved
<1>4. UNCHANGED <<token, debited, strays>>
  BY DEF Get, world
<1> QED
  BY <1>2, <1>3, <1>4, Numbers DEF Pays, Ledger, LedgerTypes

\* The login door: in to log in, or through with the token another brought.
LEMMA EnterDoorPays == ASSUME Ledger, NEW c \in Callers, EnterDoor(c) PROVE Pays(c)
<1>1. get[c] \in Records /\ Reserved(c) /\ Held(c) = 1
  BY DEF EnterDoor, Ledger, LedgerTypes, Reserved, Held
<1>2. UNCHANGED <<token, count, debited, strays>>
  BY DEF EnterDoor, world, quota
<1>3. CASE NeedsLogin(c)
  <2> DEFINE x == [get[c] EXCEPT !.pc = "line", !.call = "login", !.tries = 0]
  <2>1. x \in Records /\ x.pc = "line"
    BY <1>1 DEF Records
  <2>2. get' = [get EXCEPT ![c] = x]
    BY <1>3 DEF EnterDoor, Ledger, LedgerTypes
  <2> QED
    BY <1>1, <1>2, <2>1, <2>2, KeepsReservation DEF Ledger, LedgerTypes
<1>4. CASE ~NeedsLogin(c)
  <2>1. Authed(c, get[c], token, Without(door, c), line)
    BY <1>4 DEF EnterDoor
  <2>2. Writes(c) /\ Held(c)' = 1
    BY <1>1, <2>1, AuthedReserves DEF Ledger, LedgerTypes
  <2> QED
    BY <1>1, <1>2, <2>2, Numbers DEF Pays, Ledger, LedgerTypes
<1> QED
  BY <1>3, <1>4

\* A login, first or repeated, costs no quota.
LEMMA LoggedInPays == ASSUME Ledger, NEW c \in Callers, LoggedIn(c) PROVE Pays(c)
<1> DEFINE x == [get[c] EXCEPT !.call = IF @ = "login" THEN "op" ELSE "again",
                               !.sent = "good", !.tries = 0]
<1>1. get[c] \in Records /\ get[c].pc = "line" /\ Reserved(c)
  BY DEF LoggedIn, InFlight, Ledger, LedgerTypes, Reserved
<1>2. x \in Records /\ x.pc = "line"
  BY <1>1 DEF Records
<1>3. get' = [get EXCEPT ![c] = x]
  BY DEF LoggedIn, Ledger, LedgerTypes
<1>4. token' = "good" /\ UNCHANGED <<count, debited, strays>>
  BY DEF LoggedIn, quota, world
<1> QED
  BY <1>1, <1>2, <1>3, <1>4, KeepsReservation

\* After the sleep the same fetch goes on.
LEMMA ResumePays == ASSUME Ledger, NEW c \in Callers, Resume(c) PROVE Pays(c)
<1>1. get[c] \in Records /\ Reserved(c)
  BY DEF Resume, Ledger, LedgerTypes, Reserved
<1>2. UNCHANGED <<token, count, debited, strays>>
  BY DEF Resume, quota, world
<1>3. CASE get[c].call \in {"login", "relogin"}
  <2> DEFINE x == [get[c] EXCEPT !.pc = "line", !.tries = 1]
  <2>1. x \in Records /\ x.pc = "line"
    BY <1>1 DEF Records
  <2>2. get' = [get EXCEPT ![c] = x]
    BY <1>3 DEF Resume, Ledger, LedgerTypes
  <2> QED
    BY <1>1, <1>2, <2>1, <2>2, KeepsReservation DEF Ledger, LedgerTypes
<1>4. CASE get[c].call \notin {"login", "relogin"}
  <2> DEFINE x == [get[c] EXCEPT !.pc = "line", !.attempt = 1, !.call = "op",
                                 !.sent = token]
  <2>1. x \in Records /\ x.pc = "line"
    BY <1>1 DEF Records, Ledger, LedgerTypes
  <2>2. get' = [get EXCEPT ![c] = x]
    BY <1>4 DEF Resume, Ledger, LedgerTypes
  <2> QED
    BY <1>1, <1>2, <2>1, <2>2, KeepsReservation DEF Ledger, LedgerTypes
<1> QED
  BY <1>3, <1>4

\* A search that finds something goes on to the download under one reservation.
LEMMA FoundPays == ASSUME Ledger, NEW c \in Callers, Found(c) PROVE Pays(c)
<1> DEFINE r == [get[c] EXCEPT !.op = "download", !.attempt = 0]
<1>1. get[c] \in Records /\ Reserved(c) /\ Held(c) = 1
  BY DEF Found, InFlight, Ledger, LedgerTypes, Reserved, Held
<1>2. r \in Records
  BY <1>1 DEF Records
<1>3. Authed(c, r, token, door, Tail(line))
  BY DEF Found
<1>4. Writes(c) /\ Held(c)' = 1
  BY <1>2, <1>3, AuthedReserves DEF Ledger, LedgerTypes
<1>5. UNCHANGED <<token, count, debited, strays>>
  BY DEF Found, quota, world
<1> QED
  BY <1>1, <1>4, <1>5, Numbers DEF Pays, Ledger, LedgerTypes

\* The one place where a download is debited and counted: the reservation
\* becomes the count's for good.
LEMMA DownloadedPays == ASSUME Ledger, NEW c \in Callers, Downloaded(c) PROVE Pays(c)
<1> DEFINE x == [Idle EXCEPT !.pc = "save", !.ep = get[c].ep, !.lang = get[c].lang]
<1>1. get[c] \in Records /\ Held(c) = 1
  BY DEF Downloaded, Downloading, InFlight, Ledger, LedgerTypes, Reserved, Held
<1>2. x \in Records /\ x.pc = "save"
  BY <1>1, IdleTyped DEF Records
<1>3. get' = [get EXCEPT ![c] = x]
  BY DEF Downloaded, Ledger, LedgerTypes
<1>4. get'[c] = x
  BY <1>3 DEF Ledger, LedgerTypes
<1>5. Held(c)' = 0
  BY <1>2, <1>4 DEF Held, Reserved
<1>6. Writes(c)
  BY <1>2, <1>3 DEF Writes
<1>7. count' = count /\ debited' = debited + 1 /\ UNCHANGED <<token, strays>>
  BY GiveBackBounds DEF Downloaded, Ledger, LedgerTypes
<1> QED
  BY <1>1, <1>5, <1>6, <1>7, Numbers DEF Pays, Ledger, LedgerTypes

\* After the download nothing is reserved; a failed save turns to the next
\* language, which is counted anew.
LEMMA SavePays == ASSUME Ledger, NEW c \in Callers, Save(c) PROVE Pays(c)
<1>1. get[c] \in Records /\ Held(c) = 0
  BY DEF Save, Ledger, LedgerTypes, Held, Reserved
<1>2. UNCHANGED <<token, debited, strays>>
  BY DEF Save, world
<1>3. CASE get' = [get EXCEPT ![c] = Idle] /\ UNCHANGED <<count, locks>>
  <2>1. get'[c].pc = "idle"
    BY <1>3 DEF Ledger, LedgerTypes, Idle
  <2>2. Held(c)' = 0
    BY <2>1 DEF Held, Reserved
  <2>3. Writes(c)
    BY <1>3, IdleTyped DEF Writes
  <2> QED
    BY <1>1, <1>2, <1>3, <2>2, <2>3, Numbers DEF Pays, Ledger, LedgerTypes
<1>4. CASE TryLanguage(c, get[c].ep, get[c].lang + 1, count, door, line)
  <2>1. get[c].ep \in Episodes \cup {NoEpisode} /\ get[c].lang + 1 \in Nat \ {0}
    BY <1>1, Numbers DEF Records
  <2>2. Writes(c) /\ count' = count + Held(c)' /\ count' \in 0 .. Quota
    BY <1>4, <2>1, LanguageCounted DEF Ledger, LedgerTypes
  <2> QED
    BY <1>1, <1>2, <2>2, Numbers, HeldNumber DEF Pays, Ledger, LedgerTypes
<1> QED
  BY <1>3, <1>4 DEF Save

\* Cancellation gives back what is still reserved and nothing else, also when
\* it strikes a download that OpenSubtitles goes on to debit.
LEMMA CancelPays == ASSUME Ledger, NEW c \in Callers, Cancel(c) PROVE Pays(c)
<1>1. get'[c].pc = "idle" /\ get' = [get EXCEPT ![c] = Idle]
  BY DEF Cancel, Ledger, LedgerTypes, Idle
<1>2. Held(c)' = 0
  BY <1>1 DEF Held, Reserved
<1>3. Writes(c)
  BY <1>1, IdleTyped DEF Writes
<1>4. count' = GiveBack(count, ~Reserved(c)) /\ token' = token
  BY DEF Cancel
<1>5. count' \in 0 .. Quota /\ (~Reserved(c) => count' = count) /\ count <= count' + 1
  <2>1. (~Reserved(c)) \in BOOLEAN
    BY DEF Reserved
  <2> QED
    BY <1>4, <2>1, GiveBackBounds DEF Ledger, LedgerTypes
<1>6. \/ UNCHANGED <<debited, strays>>
      \/ debited' = debited + 1 /\ strays' = strays + 1
  BY DEF Cancel, Stray, world
<1>7. Held(c) = IF Reserved(c) THEN 1 ELSE 0
  BY DEF Held
<1> QED
  BY <1>2, <1>3, <1>4, <1>5, <1>6, <1>7, Numbers DEF Pays, Ledger, LedgerTypes

\* Every answer on the line, whatever it is.
LEMMA AnswerPays == ASSUME Ledger, NEW c \in Callers, Answer(c) PROVE Pays(c)
<1>1. get[c].pc = "line" /\ Reserved(c)
  BY DEF Answer, LoggedIn, LoginRefused, Unauthorized, Refused, Found, Downloaded,
         DownloadLost, Downloading, InFlight, Reserved
<1>2. CASE LoggedIn(c)
  BY <1>2, LoggedInPays
<1>3. CASE LoginRefused(c)
  BY <1>1, <1>3, BackoffKeeps, NothingLost DEF LoginRefused, world
<1>4. CASE Unauthorized(c)
  <2>1. UNCHANGED <<token, debited, strays>>
    BY <1>4 DEF Unauthorized, world
  <2>2. CASE get[c].call = "op"
    <3> DEFINE x == [get[c] EXCEPT !.call = "relogin", !.tries = 0]
    <3>0. get[c] \in Records
      BY DEF Ledger, LedgerTypes
    <3>1. x \in Records /\ x.pc = "line"
      BY <1>1, <3>0 DEF Records
    <3>2. get' = [get EXCEPT ![c] = x] /\ count' = count
      BY <1>4, <2>2 DEF Unauthorized, Ledger, LedgerTypes
    <3> QED
      BY <1>1, <2>1, <3>1, <3>2, KeepsReservation DEF Ledger, LedgerTypes
  <2>3. CASE get[c].call # "op"
    BY <1>1, <1>4, <2>1, <2>3, NothingLost DEF Unauthorized
  <2> QED
    BY <2>2, <2>3
<1>5. CASE Refused(c)
  BY <1>1, <1>5, BackoffKeeps, NothingLost DEF Refused, world
<1>6. CASE Found(c)
  BY <1>6, FoundPays
<1>7. CASE Downloaded(c)
  BY <1>7, DownloadedPays
<1>8. CASE DownloadLost(c)
  BY <1>1, <1>8, NothingLost DEF DownloadLost, Stray
<1> QED
  BY <1>2, <1>3, <1>4, <1>5, <1>6, <1>7, <1>8 DEF Answer

\* A write of quota.json that fails, whatever the caller was about: the count
\* starts from zero and the reservation is gone, so that the download it may
\* have stood for is among what was erased.
LEMMA WriteFailsKeepsLedger ==
    ASSUME Ledger, NEW c \in Callers, WriteFails(c)
    PROVE  Ledger'
<1>1. get' = [get EXCEPT ![c] = Idle] /\ get' \in [Callers -> Records]
  BY IdleTyped DEF WriteFails, Ledger, LedgerTypes
<1>2. Held(c)' = 0 /\ \A d \in Callers \ {c} : Reserved(d)' <=> Reserved(d)
  BY <1>1 DEF Held, Reserved, Idle, Ledger, LedgerTypes
<1>3. Cardinality(Reserving)' = Cardinality(Reserving) - Held(c) + Held(c)'
  BY <1>2, OneCaller
<1>4. debited' \in Nat /\ debited' <= debited + Held(c)
  BY DEF WriteFails, MayDebit, Downloading, InFlight, Held, Reserved, Ledger, LedgerTypes
<1>5. torn' = torn + 1 /\ count' = 0 /\ UNCHANGED <<token, strays>>
  BY DEF WriteFails, Torn
<1>6. Erased \in Nat /\ Erased' = Erased + Quota
  BY <1>5, ErasedNumber DEF Ledger, LedgerTypes
<1>7. LedgerTypes'
  BY <1>1, <1>4, <1>5, Numbers DEF Ledger, LedgerTypes
<1>8. Covered'
  BY <1>2, <1>3, <1>4, <1>5, <1>6, ReservingFinite, HeldNumber, Numbers
     DEF Ledger, LedgerTypes, Covered
<1> QED
  BY <1>7, <1>8 DEF Ledger

-----------------------------------------------------------------------------
(* The invariant *)

LEMMA LedgerInit == Init => Ledger
<1> SUFFICES ASSUME Init PROVE Ledger
  OBVIOUS
<1>1. get = [c \in Callers |-> Idle] /\ \A c \in Callers : get[c].pc = "idle"
  BY DEF Init, Idle
<1>2. Reserving = {}
  BY <1>1 DEF Reserving, Reserved
<1>3. Cardinality(Reserving) = 0
  BY <1>2, FS_EmptySet
<1>4. LedgerTypes
  BY <1>1, IdleTyped, Numbers DEF Init, LedgerTypes
<1>5. Erased = 0
  BY Numbers DEF Init, Erased
<1> QED
  BY <1>3, <1>4, <1>5 DEF Init, Ledger, Covered

\* The download that a crash cuts off was reserved.
LEMMA CutOffCovered ==
    ASSUME debited \in Nat, MayDebit(Callers)
    PROVE  debited' \in Nat /\ debited' <= debited + Cardinality(Reserving)
<1>1. CASE debited' = debited
  BY <1>1, ReservingFinite
<1>2. CASE debited' # debited
  <2>1. PICK c \in Callers : Downloading(c) /\ debited' = debited + 1
    BY <1>2 DEF MayDebit
  <2>2. c \in Reserving
    BY <2>1 DEF Downloading, InFlight, Reserving, Reserved
  <2>3. Cardinality(Reserving) # 0
    BY <2>2, ReservingFinite, FS_EmptySet
  <2> QED
    BY <2>1, <2>3, ReservingFinite
<1> QED
  BY <1>1, <1>2

\* Midnight, a dropped token and a crash touch every caller at once.
LEMMA WorldKeepsLedger ==
    ASSUME Ledger, TokenDropped \/ NewDay \/ Crash
    PROVE  Ledger'
<1>0. torn \in Nat /\ Erased \in Nat
  BY ErasedNumber DEF Ledger, LedgerTypes
<1>1. CASE TokenDropped
  <2>1. \A c \in Callers : get'[c] \in {get[c], [get[c] EXCEPT !.sent = "bad"]}
    BY <1>1 DEF TokenDropped
  <2>2. \A c \in Callers : get'[c] \in Records /\ get'[c].pc = get[c].pc
    <3> SUFFICES ASSUME NEW c \in Callers
                 PROVE  get'[c] \in Records /\ get'[c].pc = get[c].pc
      OBVIOUS
    <3>1. get[c] \in Records
      BY DEF Ledger, LedgerTypes
    <3>2. [get[c] EXCEPT !.sent = "bad"] \in Records
      BY <3>1 DEF Records
    <3>3. [get[c] EXCEPT !.sent = "bad"].pc = get[c].pc
      BY <3>1 DEF Records
    <3> QED
      BY <2>1, <3>1, <3>2, <3>3
  <2>3. Reserving' = Reserving
    BY <2>2 DEF Reserving, Reserved
  <2>4. get' \in [Callers -> Records]
    BY <1>1, <2>1, <2>2 DEF TokenDropped
  <2>5. Erased' = Erased
    BY <1>0, <1>1, ErasedNumber DEF TokenDropped
  <2> QED
    BY <1>1, <2>3, <2>4, <2>5 DEF TokenDropped, Ledger, LedgerTypes, Covered, quota
<1>2. CASE NewDay
  <2>1. Reserving' = Reserving /\ get' = get /\ token' = token
    BY <1>2 DEF NewDay, Reserving, Reserved
  <2>2. strays' = Cardinality(Reserving) /\ count' = 0 /\ debited' = 0 /\ torn' = 0
    BY <1>2 DEF NewDay, Reserving
  <2>3. Erased' = 0
    BY <1>0, <2>2, ErasedNumber
  <2> QED
    BY <2>1, <2>2, <2>3, ReservingFinite, Numbers DEF Ledger, LedgerTypes, Covered
<1>3. CASE Crash
  <2>1. get' = [c \in Callers |-> Idle] /\ \A c \in Callers : get'[c].pc = "idle"
    BY <1>3 DEF Crash, Idle
  <2>2. Reserving' = {}
    BY <2>1 DEF Reserving, Reserved
  <2>3. Cardinality(Reserving)' = 0
    BY <2>2, FS_EmptySet
  <2>4. token' = "none" /\ strays' = strays
    BY <1>3 DEF Crash
  <2>5. debited' \in Nat /\ debited' <= debited + Cardinality(Reserving)
    BY <1>3, CutOffCovered DEF Crash, Ledger, LedgerTypes
  <2>6. debited' <= count + strays + Erased
    BY <1>0, <2>5, CountNumber, ReservingFinite DEF Ledger, LedgerTypes, Covered
  <2>7. Covered' <=> debited' <= count' + strays' + Erased'
    BY <2>3, <2>5 DEF Covered
  <2>8. CASE UNCHANGED <<count, torn>>
    <3>1. Erased' = Erased
      BY <1>0, <2>8, ErasedNumber
    <3>2. LedgerTypes'
      BY <2>1, <2>4, <2>5, <2>8, IdleTyped DEF Ledger, LedgerTypes
    <3>3. Covered'
      BY <2>4, <2>8, <2>6, <2>7, <3>1
    <3> QED
      BY <3>2, <3>3 DEF Ledger
  <2>9. CASE Torn
    <3>1. torn' = torn + 1 /\ count' = 0
      BY <2>9 DEF Torn
    <3>2. Erased' = Erased + Quota
      BY <1>0, <3>1, ErasedNumber
    <3>3. LedgerTypes'
      BY <1>0, <2>1, <2>4, <2>5, <3>1, IdleTyped, Numbers DEF Ledger, LedgerTypes
    <3>4. Covered'
      BY <1>0, <2>4, <2>5, <2>6, <2>7, <3>1, <3>2, CountNumber, Numbers
         DEF Ledger, LedgerTypes
    <3> QED
      BY <3>3, <3>4 DEF Ledger
  <2> QED
    BY <1>3, <2>8, <2>9 DEF Crash
<1> QED
  BY <1>1, <1>2, <1>3

\* Only a write that fails, midnight and a crash change torn.
LEMMA Untorn ==
    ASSUME NEW c \in Callers,
           \/ Get(c) \/ EnterDoor(c) \/ Answer(c) \/ Resume(c) \/ Save(c) \/ Cancel(c)
    PROVE  torn' = torn
BY DEF Get, EnterDoor, Answer, Resume, Save, Cancel, LoggedIn, LoginRefused, Unauthorized,
       Refused, Found, Downloaded, DownloadLost, Stray, world

LEMMA LedgerStep == Ledger /\ [Next]_vars => Ledger'
<1> SUFFICES ASSUME Ledger, [Next]_vars PROVE Ledger'
  OBVIOUS
<1>1. ASSUME NEW c \in Callers,
             \/ Get(c) \/ EnterDoor(c) \/ Answer(c) \/ Resume(c) \/ Save(c) \/ Cancel(c)
      PROVE  Ledger'
  BY <1>1, Untorn, PaysKeepsLedger, GetPays, EnterDoorPays, AnswerPays, ResumePays,
     SavePays, CancelPays
<1>2. ASSUME NEW c \in Callers, WriteFails(c) PROVE Ledger'
  BY <1>2, WriteFailsKeepsLedger
<1>3. CASE TokenDropped \/ NewDay \/ Crash
  BY <1>3, WorldKeepsLedger
<1>4. CASE UNCHANGED vars
  BY <1>4 DEF vars, quota, world, Ledger, LedgerTypes, Covered, Reserving, Reserved, Erased
<1> QED
  BY <1>1, <1>3, <1>4, <1>2 DEF Next

LEMMA LedgerBounds == Ledger => QuotaBound
<1> SUFFICES ASSUME Ledger PROVE QuotaBound
  OBVIOUS
<1>1. Erased \in Nat
  BY ErasedNumber DEF Ledger, LedgerTypes
<1>2. debited <= Quota + strays + Erased
  BY <1>1, ReservingFinite, Numbers DEF Ledger, LedgerTypes, Covered
<1> QED
  BY <1>2 DEF QuotaBound, Erased

\* Downloads of a day exceed daily_quota by no more than the day's lost
\* answers, the fetches midnight caught under way, and one daily_quota for
\* every write of quota.json that a crash or a full disk cut short, for any
\* number of concurrent get() calls, retries, logins, cancellations and
\* crashes.
THEOREM QuotaBoundHolds == Spec => []QuotaBound
BY LedgerInit, LedgerStep, LedgerBounds, PTL DEF Spec

-----------------------------------------------------------------------------
(* The login they share.  Whoever logs in for the first time stands at the *)
(* head of the login door until the token is there; the others wait behind *)
(* and look at the token once more.                                        *)

LoggingIn(c) == get[c].pc \in {"line", "backoff"} /\ get[c].call = "login"

Untroubled ==
    /\ token # "bad"
    /\ logins <= (IF token = "none" THEN 0 ELSE 1)
    /\ \A c \in Callers : /\ get[c].sent # "bad" /\ get[c].call # "relogin"
                          /\ LoggingIn(c) => token = "none" /\ AtHead(door, c)

OneLogin ==
    /\ get \in [Callers -> Records] /\ token \in {"none", "good", "bad"}
    /\ door \in Seq(Callers)
    /\ logins \in Nat /\ expired \in Nat
    /\ expired = 0 => Untroubled

LEMMA OneLoginSuffices == OneLogin => SingleFlight
BY DEF OneLogin, Untroubled, SingleFlight

LEMMA InitOneLogin == Init => OneLogin
<1> SUFFICES ASSUME Init PROVE OneLogin
  OBVIOUS
<1>1. \A c \in Callers : get[c] = Idle
  BY DEF Init
<1>2. get \in [Callers -> Records]
  BY IdleTyped DEF Init
<1> QED
  BY <1>1, <1>2 DEF Init, OneLogin, Untroubled, LoggingIn, Idle

\* Who leaves the queue leaves the others in their order.
LEMMA WithoutKeepsHead ==
    ASSUME NEW q \in Seq(Callers), NEW c
    PROVE  /\ Without(q, c) \in Seq(Callers)
           /\ \A d \in Callers \ {c} : AtHead(q, d) => AtHead(Without(q, c), d)
<1>1. CASE \E i \in DOMAIN q : q[i] = c
  <2>1. PICK k \in DOMAIN q : q[k] = c /\ k = CHOOSE i \in DOMAIN q : q[i] = c
    BY <1>1
  <2>2. Without(q, c) = SubSeq(q, 1, k - 1) \o SubSeq(q, k + 1, Len(q))
    BY <1>1, <2>1 DEF Without, RemoveAt
  <2>3. k \in 1 .. Len(q) /\ Len(q) \in Nat
    BY <2>1
  <2> DEFINE a == SubSeq(q, 1, k - 1)
             b == SubSeq(q, k + 1, Len(q))
  <2>4. a \in Seq(Callers) /\ b \in Seq(Callers)
    BY <2>3, SubSeqProperties
  <2>5. Without(q, c) \in Seq(Callers)
    BY <2>2, <2>4, ConcatProperties
  <2>6. ASSUME NEW d \in Callers \ {c}, AtHead(q, d)
        PROVE  AtHead(Without(q, c), d)
    <3>1. k # 1 /\ q[1] = d
      BY <2>1, <2>6 DEF AtHead
    <3>2. Len(a) = k - 1 /\ a[1] = q[1]
      BY <2>3, <3>1, SubSeqProperties
    <3>3. (a \o b)[1] = d /\ Len(a \o b) > 0
      BY <2>3, <2>4, <3>1, <3>2, ConcatProperties, SMTT(60)
    <3>4. (a \o b) # <<>> /\ Head(a \o b) = d
      BY <2>4, <3>3, ConcatProperties
    <3> QED
      BY <2>2, <3>4 DEF AtHead
  <2> QED
    BY <2>5, <2>6
<1>2. CASE ~\E i \in DOMAIN q : q[i] = c
  BY <1>2 DEF Without
<1> QED
  BY <1>1, <1>2

\* What a caller's step does to the door, as the others see it.
Queued(c) ==
    /\ door' \in Seq(Callers)
    /\ \A d \in Callers \ {c} : AtHead(door, d) => AtHead(door', d)

LEMMA AppendKeepsHead ==
    ASSUME NEW q \in Seq(Callers), NEW c \in Callers
    PROVE  /\ Append(q, c) \in Seq(Callers)
           /\ \A d \in Callers \ {c} : AtHead(q, d) => AtHead(Append(q, c), d)
BY AppendProperties DEF AtHead

LEMMA QueueMoves ==
    ASSUME OneLogin, NEW c \in Callers,
           \/ door' \in {door, Without(door, c)}
           \/ door' \in {Append(door, c), Append(Without(door, c), c)}
    PROVE  Queued(c)
<1>1. door \in Seq(Callers) /\ Without(door, c) \in Seq(Callers)
  BY WithoutKeepsHead DEF OneLogin
<1>2. \A d \in Callers \ {c} : AtHead(door, d) => AtHead(Without(door, c), d)
  BY <1>1, WithoutKeepsHead
<1>3. CASE door' \in {door, Without(door, c)}
  BY <1>1, <1>2, <1>3 DEF Queued
<1>4. CASE door' = Append(door, c)
  BY <1>1, <1>4, AppendKeepsHead DEF Queued
<1>5. CASE door' = Append(Without(door, c), c)
  BY <1>1, <1>2, <1>5, AppendKeepsHead DEF Queued
<1> QED
  BY <1>3, <1>4, <1>5

\* A record that may follow a caller's.
Harmless(c, x) ==
    expired = 0 =>
        /\ x.sent # "bad" /\ x.call # "relogin"
        /\ x.pc \in {"line", "backoff"} /\ x.call = "login" =>
              /\ token = "none" /\ AtHead(door, c)
              /\ door' = door

LEMMA OwnStep ==
    ASSUME OneLogin, NEW c \in Callers, NEW x \in Records, get' = [get EXCEPT ![c] = x],
           UNCHANGED <<token, logins, expired>>, Queued(c), Harmless(c, x)
    PROVE  OneLogin'
<1>1. /\ get' \in [Callers -> Records] /\ get'[c] = x
      /\ \A d \in Callers \ {c} : get'[d] = get[d]
  BY DEF OneLogin
<1>2. ASSUME expired = 0 PROVE Untroubled'
  <2>1. Untroubled
    BY <1>2 DEF OneLogin
  <2>2. ASSUME NEW d \in Callers
        PROVE  /\ get'[d].sent # "bad" /\ get'[d].call # "relogin"
               /\ LoggingIn(d)' => token' = "none" /\ AtHead(door, d)'
    <3>1. CASE d = c
      BY <1>1, <1>2, <3>1 DEF Harmless, LoggingIn, AtHead
    <3>2. CASE d # c
      BY <1>1, <2>1, <3>2 DEF Untroubled, LoggingIn, Queued, AtHead
    <3> QED
      BY <3>1, <3>2
  <2> QED
    BY <2>1, <2>2 DEF Untroubled
<1> QED
  BY <1>1, <1>2 DEF OneLogin, Queued

LEMMA AuthedJoins ==
    ASSUME OneLogin, NEW c \in Callers, NEW r \in Records,
           expired = 0 => r.sent # "bad" /\ r.call # "relogin",
           NEW d \in {door, Without(door, c)}, NEW l, Authed(c, r, token, d, l),
           UNCHANGED <<token, logins, expired>>
    PROVE  OneLogin'
<1>1. CASE token # "none"
  <2> DEFINE x == [r EXCEPT !.pc = "line", !.call = "op", !.sent = token]
  <2>1. get' = [get EXCEPT ![c] = x] /\ door' = d
    BY <1>1 DEF Authed
  <2>2. x \in Records /\ x.call = "op" /\ x.sent = token
    BY DEF Records, OneLogin
  <2>3. Harmless(c, x)
    BY <2>2 DEF Harmless, OneLogin, Untroubled
  <2> QED
    BY <2>1, <2>2, <2>3, OwnStep, QueueMoves
<1>2. CASE token = "none"
  <2> DEFINE x == [r EXCEPT !.pc = "door"]
  <2>1. get' = [get EXCEPT ![c] = x] /\ door' = Append(d, c)
    BY <1>2 DEF Authed
  <2>2. x \in Records /\ x.pc = "door" /\ x.call = r.call /\ x.sent = r.sent
    BY DEF Records
  <2>3. Harmless(c, x)
    BY <2>2 DEF Harmless
  <2> QED
    BY <2>1, <2>2, <2>3, OwnStep, QueueMoves
<1> QED
  BY <1>1, <1>2

LEMMA IdleJoins ==
    ASSUME OneLogin, NEW c \in Callers, get' = [get EXCEPT ![c] = Idle],
           door' \in {door, Without(door, c)}, UNCHANGED <<token, logins, expired>>
    PROVE  OneLogin'
<1>1. Harmless(c, Idle)
  BY DEF Harmless, Idle
<1> QED
  BY <1>1, IdleTyped, OwnStep, QueueMoves

LEMMA LanguageJoins ==
    ASSUME OneLogin, NEW c \in Callers, NEW e \in Episodes \cup {NoEpisode}, NEW k \in Nat \ {0},
           NEW n, NEW d \in {door, Without(door, c)}, NEW l, TryLanguage(c, e, k, n, d, l),
           UNCHANGED <<token, logins, expired>>
    PROVE  OneLogin'
<1> DEFINE over == ~Reserves(e, k, n)
<1>1. CASE over
  BY <1>1, IdleJoins DEF TryLanguage
<1>2. CASE ~over
  <2> DEFINE r == [Idle EXCEPT !.ep = e, !.lang = k]
  <2>1. Authed(c, r, token, d, l)
    BY <1>2 DEF TryLanguage
  <2>2. k \in 1 .. Languages
    BY <1>2, Numbers DEF Reserves
  <2>3. r \in Records
    BY <2>2, IdleTyped DEF Records
  <2>4. r.sent = "good" /\ r.call = "op"
    BY DEF Idle
  <2> QED
    BY <2>1, <2>3, <2>4, AuthedJoins
<1> QED
  BY <1>1, <1>2

LEMMA NoResultJoins ==
    ASSUME OneLogin, NEW c \in Callers, NEW d \in {door, Without(door, c)}, NEW l,
           NoResult(c, d, l), UNCHANGED <<token, logins, expired>>
    PROVE  OneLogin'
<1>1. get[c] \in Records
  BY DEF OneLogin
<1>2. CASE get[c].op = "search" /\ get[c].query < Strategies
  <2> DEFINE r == [get[c] EXCEPT !.query = @ + 1, !.attempt = 0]
  <2>1. Authed(c, r, token, d, l)
    BY <1>2 DEF NoResult
  <2>2. get[c].query + 1 \in 1 .. Strategies
    BY <1>1, <1>2, Numbers DEF Records
  <2>3. r \in Records /\ r.sent = get[c].sent /\ r.call = get[c].call
    BY <1>1, <2>2 DEF Records
  <2>4. expired = 0 => get[c].sent # "bad" /\ get[c].call # "relogin"
    BY DEF OneLogin, Untroubled
  <2> QED
    BY <2>1, <2>3, <2>4, AuthedJoins
<1>3. CASE ~(get[c].op = "search" /\ get[c].query < Strategies)
  <2>1. TryLanguage(c, get[c].ep, get[c].lang + 1, GiveBack(count, FALSE), d, l)
    BY <1>3 DEF NoResult
  <2>2. get[c].ep \in Episodes \cup {NoEpisode} /\ get[c].lang + 1 \in Nat \ {0}
    BY <1>1, Numbers DEF Records
  <2> QED
    BY <2>1, <2>2, LanguageJoins
<1> QED
  BY <1>2, <1>3

\* A caller that waits for its answer, or sleeps, keeps its record but for
\* these fields and its place at the door.
LEMMA StaysPut ==
    ASSUME OneLogin, NEW c \in Callers, NEW x \in Records, get' = [get EXCEPT ![c] = x],
           get[c].pc \in {"line", "backoff"}, x.call = get[c].call, x.sent = get[c].sent,
           UNCHANGED <<door, token, logins, expired>>
    PROVE  OneLogin'
<1>1. Harmless(c, x)
  BY DEF Harmless, OneLogin, Untroubled, LoggingIn
<1> QED
  BY <1>1, OwnStep, QueueMoves

LEMMA BackoffJoins ==
    ASSUME OneLogin, NEW c \in Callers, get[c].pc = "line", Backoff(c),
           UNCHANGED <<token, logins, expired>>
    PROVE  OneLogin'
<1> DEFINE x == [get[c] EXCEPT !.pc = "backoff"]
<1>1. get[c] \in Records /\ door' = door
  BY DEF OneLogin, Backoff
<1>2. x \in Records /\ x.call = get[c].call /\ x.sent = get[c].sent
  BY <1>1 DEF Records
<1>3. get' = [get EXCEPT ![c] = x]
  BY DEF Backoff
<1> QED
  BY <1>1, <1>2, <1>3, StaysPut

\* The one who stands at the head of the door goes in; whoever logs in was
\* there, so nobody else does.
LEMMA EnterDoorJoins == ASSUME OneLogin, NEW c \in Callers, EnterDoor(c) PROVE OneLogin'
<1>1. get[c] \in Records /\ AtHead(door, c)
  BY DEF EnterDoor, OneLogin
<1>2. UNCHANGED <<token, logins, expired>>
  BY DEF EnterDoor, world
<1>3. expired = 0 => get[c].sent # "bad" /\ get[c].call # "relogin"
  BY DEF OneLogin, Untroubled
<1>4. CASE NeedsLogin(c)
  <2> DEFINE x == [get[c] EXCEPT !.pc = "line", !.call = "login", !.tries = 0]
  <2>1. x \in Records /\ x.call = "login" /\ x.sent = get[c].sent
    BY <1>1 DEF Records
  <2>2. get' = [get EXCEPT ![c] = x] /\ door' = door
    BY <1>4 DEF EnterDoor, OneLogin
  <2>3. Harmless(c, x)
    BY <1>1, <1>3, <1>4, <2>1, <2>2 DEF Harmless, NeedsLogin
  <2> QED
    BY <1>2, <2>1, <2>2, <2>3, OwnStep, QueueMoves
<1>5. CASE ~NeedsLogin(c)
  BY <1>1, <1>2, <1>3, <1>5, AuthedJoins DEF EnterDoor
<1> QED
  BY <1>4, <1>5

LEMMA LoggedInJoins == ASSUME OneLogin, NEW c \in Callers, LoggedIn(c) PROVE OneLogin'
<1> DEFINE x == [get[c] EXCEPT !.call = IF @ = "login" THEN "op" ELSE "again",
                               !.sent = "good", !.tries = 0]
<1>1. get[c] \in Records /\ get[c].pc = "line" /\ get[c].call \in {"login", "relogin"}
  BY DEF LoggedIn, InFlight, OneLogin
<1>2. x \in Records /\ x.call \in {"op", "again"} /\ x.sent = "good"
  BY <1>1 DEF Records
<1>3. /\ get' \in [Callers -> Records] /\ get'[c] = x
      /\ \A d \in Callers \ {c} : get'[d] = get[d]
  BY <1>2 DEF LoggedIn, OneLogin
<1>4. token' = "good" /\ logins' = logins + 1 /\ expired' = expired
  BY DEF LoggedIn, world
<1>5. door' \in Seq(Callers)
  BY QueueMoves DEF LoggedIn, Queued
<1>6. ASSUME expired = 0 PROVE Untroubled'
  <2>1. Untroubled /\ LoggingIn(c)
    BY <1>1, <1>6 DEF OneLogin, Untroubled, LoggingIn
  <2>2. logins' <= 1
    BY <1>4, <2>1 DEF Untroubled, OneLogin
  <2>3. ASSUME NEW d \in Callers
        PROVE  get'[d].sent # "bad" /\ get'[d].call # "relogin" /\ ~LoggingIn(d)'
    <3>1. CASE d = c
      BY <1>2, <1>3, <3>1 DEF LoggingIn
    <3>2. CASE d # c
      BY <1>3, <2>1, <3>2 DEF Untroubled, LoggingIn, AtHead
    <3> QED
      BY <3>1, <3>2
  <2> QED
    BY <1>4, <2>2, <2>3 DEF Untroubled
<1> QED
  BY <1>3, <1>4, <1>5, <1>6 DEF OneLogin

LEMMA ResumeJoins == ASSUME OneLogin, NEW c \in Callers, Resume(c) PROVE OneLogin'
<1>1. get[c] \in Records /\ get[c].pc = "backoff"
  BY DEF Resume, OneLogin
<1>2. UNCHANGED <<door, token, logins, expired>>
  BY DEF Resume, world
<1>3. CASE get[c].call \in {"login", "relogin"}
  <2> DEFINE x == [get[c] EXCEPT !.pc = "line", !.tries = 1]
  <2>1. x \in Records /\ x.call = get[c].call /\ x.sent = get[c].sent
    BY <1>1 DEF Records
  <2>2. get' = [get EXCEPT ![c] = x]
    BY <1>3 DEF Resume, OneLogin
  <2> QED
    BY <1>1, <1>2, <2>1, <2>2, StaysPut
<1>4. CASE get[c].call \notin {"login", "relogin"}
  <2> DEFINE x == [get[c] EXCEPT !.pc = "line", !.attempt = 1, !.call = "op", !.sent = token]
  <2>1. x \in Records /\ x.call = "op" /\ x.sent = token
    BY <1>1 DEF Records, OneLogin
  <2>2. get' = [get EXCEPT ![c] = x]
    BY <1>4 DEF Resume, OneLogin
  <2>3. Harmless(c, x)
    BY <2>1 DEF Harmless, OneLogin, Untroubled
  <2> QED
    BY <1>2, <2>1, <2>2, <2>3, OwnStep, QueueMoves
<1> QED
  BY <1>3, <1>4

LEMMA FoundJoins == ASSUME OneLogin, NEW c \in Callers, Found(c) PROVE OneLogin'
<1> DEFINE r == [get[c] EXCEPT !.op = "download", !.attempt = 0]
<1>1. get[c] \in Records
  BY DEF OneLogin
<1>2. r \in Records /\ r.sent = get[c].sent /\ r.call = get[c].call
  BY <1>1 DEF Records
<1>3. expired = 0 => get[c].sent # "bad" /\ get[c].call # "relogin"
  BY DEF OneLogin, Untroubled
<1>4. Authed(c, r, token, door, Tail(line)) /\ UNCHANGED <<token, logins, expired>>
  BY DEF Found, world
<1> QED
  BY <1>2, <1>3, <1>4, AuthedJoins

LEMMA DownloadedJoins == ASSUME OneLogin, NEW c \in Callers, Downloaded(c) PROVE OneLogin'
<1> DEFINE x == [Idle EXCEPT !.pc = "save", !.ep = get[c].ep, !.lang = get[c].lang]
<1>1. get[c] \in Records
  BY DEF OneLogin
<1>2. x \in Records /\ x.call = "op" /\ x.sent = "good"
  BY <1>1, IdleTyped DEF Records, Idle
<1>3. get' = [get EXCEPT ![c] = x] /\ UNCHANGED <<door, token, logins, expired>>
  BY DEF Downloaded, OneLogin
<1>4. Harmless(c, x)
  BY <1>2 DEF Harmless
<1> QED
  BY <1>2, <1>3, <1>4, OwnStep, QueueMoves

\* 401 does not happen to a token OpenSubtitles has not dropped.
LEMMA UnauthorizedJoins == ASSUME OneLogin, NEW c \in Callers, Unauthorized(c) PROVE OneLogin'
<1>1. get[c] \in Records /\ get[c].sent = "bad" /\ UNCHANGED <<token, logins, expired>>
  BY DEF OneLogin, Unauthorized, world
<1>2. CASE get[c].call = "op"
  <2> DEFINE x == [get[c] EXCEPT !.call = "relogin", !.tries = 0]
  <2>1. x \in Records
    BY <1>1 DEF Records
  <2>2. get' = [get EXCEPT ![c] = x] /\ door' = door
    BY <1>2 DEF Unauthorized, OneLogin
  <2>3. Harmless(c, x)
    BY <1>1 DEF Harmless, OneLogin, Untroubled
  <2> QED
    BY <1>1, <2>1, <2>2, <2>3, OwnStep, QueueMoves
<1>3. CASE get[c].call # "op"
  BY <1>1, <1>3, NoResultJoins DEF Unauthorized
<1> QED
  BY <1>2, <1>3

LEMMA AnswerJoins == ASSUME OneLogin, NEW c \in Callers, Answer(c) PROVE OneLogin'
<1>1. CASE LoggedIn(c)
  BY <1>1, LoggedInJoins
<1>2. CASE LoginRefused(c)
  <2>1. get[c].pc = "line" /\ UNCHANGED <<token, logins, expired>>
    BY <1>2 DEF LoginRefused, InFlight, world
  <2> QED
    BY <1>2, <2>1, BackoffJoins, NoResultJoins DEF LoginRefused, LeaveDoor
<1>3. CASE Unauthorized(c)
  BY <1>3, UnauthorizedJoins
<1>4. CASE Refused(c)
  <2>1. get[c].pc = "line" /\ UNCHANGED <<token, logins, expired>>
    BY <1>4 DEF Refused, InFlight, world
  <2> QED
    BY <1>4, <2>1, BackoffJoins, NoResultJoins DEF Refused
<1>5. CASE Found(c)
  BY <1>5, FoundJoins
<1>6. CASE Downloaded(c)
  BY <1>6, DownloadedJoins
<1>7. CASE DownloadLost(c)
  BY <1>7, NoResultJoins DEF DownloadLost, Stray
<1> QED
  BY <1>1, <1>2, <1>3, <1>4, <1>5, <1>6, <1>7 DEF Answer

LEMMA CallerJoins ==
    ASSUME OneLogin, NEW c \in Callers,
           \/ Get(c) \/ EnterDoor(c) \/ Resume(c) \/ Save(c) \/ Cancel(c) \/ WriteFails(c)
    PROVE  OneLogin'
<1>1. get[c] \in Records
  BY DEF OneLogin
<1>2. CASE Get(c)
  <2>1. PICK e \in Episodes : TryLanguage(c, e, 1, count, door, line)
    BY <1>2 DEF Get
  <2> QED
    BY <1>2, <2>1, LanguageJoins DEF Get, world
<1>3. CASE EnterDoor(c)
  BY <1>3, EnterDoorJoins
<1>4. CASE Resume(c)
  BY <1>4, ResumeJoins
<1>5. CASE Save(c)
  <2>1. UNCHANGED <<token, logins, expired>>
    BY <1>5 DEF Save, world
  <2>2. CASE get' = [get EXCEPT ![c] = Idle] /\ UNCHANGED locks
    BY <2>1, <2>2, IdleJoins DEF locks
  <2>3. CASE TryLanguage(c, get[c].ep, get[c].lang + 1, count, door, line)
    <3>1. get[c].ep \in Episodes \cup {NoEpisode} /\ get[c].lang + 1 \in Nat \ {0}
      BY <1>1, Numbers DEF Records
    <3> QED
      BY <2>1, <2>3, <3>1, LanguageJoins
  <2> QED
    BY <1>5, <2>2, <2>3 DEF Save
<1>6. CASE Cancel(c)
  BY <1>6, IdleJoins DEF Cancel, Stray, world
<1>7. CASE WriteFails(c)
  BY <1>7, IdleJoins DEF WriteFails
<1> QED
  BY <1>2, <1>3, <1>4, <1>5, <1>6, <1>7

LEMMA OneLoginStep == OneLogin /\ [Next]_vars => OneLogin'
<1> SUFFICES ASSUME OneLogin, [Next]_vars PROVE OneLogin'
  OBVIOUS
<1>1. ASSUME NEW c \in Callers,
             \/ Get(c) \/ EnterDoor(c) \/ Answer(c) \/ Resume(c) \/ Save(c)
             \/ Cancel(c) \/ WriteFails(c)
      PROVE  OneLogin'
  BY <1>1, CallerJoins, AnswerJoins
<1>2. CASE TokenDropped
  <2>1. get' \in [Callers -> Records]
    <3>1. ASSUME NEW c \in Callers PROVE [get[c] EXCEPT !.sent = "bad"] \in Records
      <4>1. get[c] \in Records
        BY DEF OneLogin
      <4> QED
        BY <4>1 DEF Records
    <3> QED
      BY <1>2, <3>1 DEF TokenDropped, OneLogin
  <2> QED
    BY <1>2, <2>1 DEF TokenDropped, OneLogin, locks
<1>3. CASE NewDay
  BY <1>3 DEF NewDay, OneLogin, Untroubled, LoggingIn, AtHead, locks
<1>4. CASE Crash
  <2>1. get' \in [Callers -> Records] /\ \A c \in Callers : get'[c] = Idle
    BY <1>4, IdleTyped DEF Crash
  <2> QED
    BY <1>4, <2>1 DEF Crash, OneLogin, Untroubled, LoggingIn, Idle, world
<1>5. CASE UNCHANGED vars
  BY <1>5 DEF vars, locks, world, OneLogin, Untroubled, LoggingIn, AtHead
<1> QED
  BY <1>1, <1>2, <1>3, <1>4, <1>5 DEF Next

\* However many callers arrive without a token, one of them logs in and the
\* others use its token, through rate limits, failed logins, cancellations
\* and crashes, as long as OpenSubtitles drops no token.
THEOREM SingleFlightHolds == Spec => []SingleFlight
BY InitOneLogin, OneLoginStep, OneLoginSuffices, PTL DEF Spec
=============================================================================
