-------------------------- MODULE MarketDataProofs --------------------------
(***************************************************************************)
(* Theorems of module MarketData, for any page size, any windows, clocks,  *)
(* gaps, failures and crashes.                                             *)
(***************************************************************************)
EXTENDS MarketData, FiniteSetTheorems, WellFoundedInduction, TLAPS

\* What is in hand had closed by the local clock when the fetch began; from
\* validation on it is a series without a gap, and the temporary file holds it
\* before it is moved.
SeriesInv ==
    /\ reference <= closed + Lead
    /\ collected \subseteq 1..reference /\ series \subseteq 1..reference
    /\ pc \in {"open", "write", "rename", "decide"} => Valid(series)
    /\ pc = "rename" => tmp = series

Inv == TypeOK /\ SeriesInv /\ CacheIsWhole

-----------------------------------------------------------------------------
(***************************************************************************)
(* Pages                                                                   *)
(***************************************************************************)

\* The greatest member of a set of numbers that ends somewhere is one of them.
LEMMA MaxIsMember ==
    ASSUME NEW n \in Nat, NEW S \in SUBSET (1..n), S # {}
    PROVE  Max(S) \in S /\ \A b \in S : Max(S) >= b
<1> DEFINE Below == {ss \in Nat \X Nat : ss[1] < ss[2]}
           T == {n - b : b \in S}
<1>1. IsWellFoundedOn(Below, Nat)
  BY NatLessThanWellFounded DEF OpToRel
<1>2. \A b \in S : b \in Nat /\ b <= n
  OBVIOUS
<1>3. T \subseteq Nat
  BY <1>2
<1>4. T # {}
  OBVIOUS
<1>5. PICK t \in T : \A u \in T : ~(<<u, t>> \in Below)
  <2> HIDE DEF Below, T
  <2> QED
    BY <1>1, <1>3, <1>4, WFMin
<1>6. ASSUME NEW u \in T PROVE t <= u
  <2>1. u \in Nat /\ t \in Nat
    BY <1>3
  <2>2. <<u, t>> \notin Below
    BY <1>5
  <2>3. ~(u < t)
    <3> SUFFICES ASSUME u < t PROVE <<u, t>> \in Below
      BY <2>2
    <3> HIDE DEF T
    <3> QED
      BY <2>1
  <2> HIDE DEF T, Below
  <2> QED
    BY <2>1, <2>3
<1>7. PICK m \in S : t = n - m
  OBVIOUS
<1>8. ASSUME NEW b \in S PROVE m >= b
  <2>1. n - b \in T
    OBVIOUS
  <2>2. n - m <= n - b
    BY <1>6, <1>7, <2>1
  <2>3. m \in Nat /\ b \in Nat
    BY <1>2
  <2> HIDE DEF T, Below
  <2> QED
    BY <2>2, <2>3
<1> QED
  BY <1>7, <1>8 DEF Max

LEMMA RowsArePublished ==
    ASSUME TypeOK
    PROVE  Rows \subseteq Published /\ Published \subseteq 1..closed + 1 /\ closed + 1 \in Nat
BY MarketAssumption DEF Rows, NewestOf, OldestOf, Published, TypeOK

LEMMA KeptHadClosed ==
    ASSUME TypeOK
    PROVE  Kept \subseteq 1..reference /\ Kept \subseteq Bars
<1> SUFFICES ASSUME NEW b \in Kept PROVE b \in 1..reference /\ b \in Bars
  OBVIOUS
<1>1. b \in 1..closed + 1 /\ b <= reference
  BY RowsArePublished DEF Kept
<1> QED
  BY <1>1, MarketAssumption DEF TypeOK, Bars

LEMMA NextCursorIsBar ==
    ASSUME TypeOK, ~LastPage
    PROVE  NextCursor \in Nat
<1>1. Rows # {} /\ Rows \subseteq 1..closed + 1 /\ closed + 1 \in Nat
  BY RowsArePublished DEF LastPage
<1>2. Max(Rows) \in Rows
  BY <1>1, MaxIsMember
<1>3. 1..closed + 1 \subseteq Nat
  BY <1>1
<1>4. Max(Rows) \in Nat
  BY <1>1, <1>2, <1>3, Zenon
<1> QED
  BY <1>4 DEF NextCursor

\* The first bars of what was collected are some of it.
LEMMA OldestAreMembers == \A S, k : OldestOf(S, k) \subseteq S
BY DEF OldestOf

-----------------------------------------------------------------------------
(***************************************************************************)
(* The invariant                                                           *)
(***************************************************************************)

LEMMA InitInv == Init => Inv
<1> SUFFICES ASSUME Init PROVE Inv
  OBVIOUS
<1>1. TypeOK
  BY MarketAssumption DEF Init, TypeOK, Unbounded, NoVerdict
<1>2. SeriesInv
  BY MarketAssumption DEF Init, SeriesInv
<1>3. CacheIsWhole
  BY DEF Init, CacheIsWhole
<1> QED
  BY <1>1, <1>2, <1>3 DEF Inv

LEMMA BarClosesInv ==
    ASSUME Inv, BarCloses
    PROVE  Inv'
<1> USE DEF BarCloses, fetching, files, bounds
<1>1. closed \in Nat /\ closed' = closed + 1 /\ closed' \in 0..LastBar /\ reference \in Nat /\ LastBar \in Nat /\ Lead \in Nat
  BY MarketAssumption DEF Inv, TypeOK
<1>2. TypeOK'
  BY <1>1 DEF Inv, TypeOK, Bars
<1>3. SeriesInv'
  BY <1>1 DEF Inv, SeriesInv, Valid, Contiguous
<1>4. CacheIsWhole'
  BY DEF Inv, CacheIsWhole, Contiguous
<1> QED
  BY <1>2, <1>3, <1>4 DEF Inv

LEMMA StartFetchInv ==
    ASSUME Inv, StartFetch
    PROVE  Inv'
<1> USE DEF StartFetch, exchange, files, bounds
<1>1. reference' \in 0..LastBar + Lead /\ reference' <= closed + Lead
  BY MarketAssumption DEF Inv, TypeOK, ClosedByClock
<1>2. window' \in Windows /\ cursor' \in Nat \cup {None}
  BY MarketAssumption
<1>3. TypeOK'
  <2>1. 0 \in 0..Retries - 1
    BY MarketAssumption
  <2> QED
    BY <1>1, <1>2, <2>1 DEF Inv, TypeOK, Bars
<1>4. SeriesInv' /\ CacheIsWhole'
  BY <1>1 DEF Inv, SeriesInv, CacheIsWhole
<1> QED
  BY <1>3, <1>4 DEF Inv

LEMMA GetPageInv ==
    ASSUME Inv, GetPage
    PROVE  Inv'
<1> USE DEF GetPage, exchange, files, bounds
<1>1. collected' \subseteq 1..reference /\ collected' \subseteq Bars
  BY KeptHadClosed DEF Inv, SeriesInv, TypeOK
<1>2. cursor' \in Nat \cup {None} /\ pc' \in {"page", "cut"}
  BY NextCursorIsBar DEF Inv, TypeOK
<1>3. TypeOK'
  <2>1. 0 \in 0..Retries - 1
    BY MarketAssumption
  <2> QED
    BY <1>1, <1>2, <2>1 DEF Inv, TypeOK, Bars
<1>4. SeriesInv' /\ CacheIsWhole'
  BY <1>1, <1>2 DEF Inv, SeriesInv, CacheIsWhole
<1> QED
  BY <1>3, <1>4 DEF Inv

LEMMA PageLostInv ==
    ASSUME Inv, PageFails \/ PageRefused
    PROVE  Inv'
<1> USE DEF PageFails, PageRefused, exchange, files
<1>1. tries' \in 0..Retries - 1 /\ pc' \in {"page", "idle"}
  BY MarketAssumption DEF Inv, TypeOK, AttemptsLeft
<1>2. failures' \in 0..MaxFailures
  BY MarketAssumption DEF Inv, TypeOK
<1>3. TypeOK'
  BY <1>1, <1>2 DEF Inv, TypeOK, Bars
<1>4. SeriesInv' /\ CacheIsWhole'
  BY <1>1 DEF Inv, SeriesInv, CacheIsWhole
<1> QED
  BY <1>3, <1>4 DEF Inv

LEMMA CutSeriesInv ==
    ASSUME Inv, CutSeries
    PROVE  Inv'
<1> USE DEF CutSeries, exchange, fetching, files, bounds
<1>1. series' \subseteq 1..reference /\ series' \subseteq Bars
  BY OldestAreMembers DEF Inv, SeriesInv, TypeOK
<1>2. TypeOK'
  BY <1>1 DEF Inv, TypeOK, Bars
<1>3. SeriesInv' /\ CacheIsWhole'
  BY <1>1 DEF Inv, SeriesInv, CacheIsWhole
<1> QED
  BY <1>2, <1>3 DEF Inv

LEMMA ValidateInv ==
    ASSUME Inv, Validate
    PROVE  Inv'
<1> USE DEF Validate, exchange, fetching, files, bounds
<1>1. TypeOK'
  BY DEF Inv, TypeOK, Bars
<1>2. SeriesInv' /\ CacheIsWhole'
  BY DEF Inv, SeriesInv, CacheIsWhole, Valid, Contiguous
<1> QED
  BY <1>1, <1>2 DEF Inv

LEMMA WriteInv ==
    ASSUME Inv, OpenTmp \/ WriteTmp
    PROVE  Inv'
<1> USE DEF OpenTmp, WriteTmp, exchange, fetching, bounds
<1>1. TypeOK'
  BY DEF Inv, TypeOK, Bars
<1>2. SeriesInv' /\ CacheIsWhole'
  BY DEF Inv, SeriesInv, CacheIsWhole, Valid, Contiguous
<1> QED
  BY <1>1, <1>2 DEF Inv

\* What is moved is the validated series.
LEMMA ReplaceFileInv ==
    ASSUME Inv, ReplaceFile
    PROVE  Inv'
<1> USE DEF ReplaceFile, exchange, fetching, bounds
<1>1. file' = series /\ Valid(series) /\ series \subseteq Bars
  BY DEF Inv, SeriesInv, TypeOK
<1>2. TypeOK'
  BY <1>1 DEF Inv, TypeOK, Bars
<1>3. SeriesInv'
  BY <1>1 DEF Inv, SeriesInv, Valid, Contiguous
<1>4. CacheIsWhole'
  <2>1. series # Half
    BY <1>1, MarketAssumption DEF Bars
  <2> QED
    BY <1>1, <2>1 DEF CacheIsWhole, Valid, Contiguous
<1> QED
  BY <1>2, <1>3, <1>4 DEF Inv

LEMMA DecideInv ==
    ASSUME Inv, Decide
    PROVE  Inv'
<1> USE DEF Decide, exchange, fetching, files, bounds
<1>1. Max(series) \in Bars
  <2>1. series # {} /\ series \subseteq 1..reference /\ reference \in Nat
    BY MarketAssumption DEF Inv, SeriesInv, Valid, TypeOK
  <2>2. Max(series) \in series
    BY <2>1, MaxIsMember
  <2> QED
    BY <2>1, <2>2 DEF Inv, TypeOK
<1>2. verdict' \in [bar : Bars \cup {None}, seen : (0..LastBar + Lead) \cup {None}, stale : BOOLEAN]
  BY <1>1 DEF Inv, TypeOK
<1>3. TypeOK'
  BY <1>2 DEF Inv, TypeOK, Bars
<1>4. SeriesInv' /\ CacheIsWhole'
  BY DEF Inv, SeriesInv, CacheIsWhole
<1> QED
  BY <1>3, <1>4 DEF Inv

LEMMA CrashInv ==
    ASSUME Inv, Crash
    PROVE  Inv'
<1> USE DEF Crash, exchange, files
<1>1. 0 \in 0..Retries - 1 /\ crashes' \in 0..MaxCrashes
  BY MarketAssumption DEF Inv, TypeOK
<1>2. TypeOK'
  BY <1>1 DEF Inv, TypeOK, Bars
<1>3. SeriesInv' /\ CacheIsWhole'
  BY DEF Inv, SeriesInv, CacheIsWhole
<1> QED
  BY <1>2, <1>3 DEF Inv

LEMMA StepInv ==
    ASSUME Inv, [Next]_vars
    PROVE  Inv'
<1>1. CASE UNCHANGED vars
  <2>1. TypeOK' /\ SeriesInv' /\ CacheIsWhole'
    BY <1>1 DEF vars, exchange, fetching, files, bounds, Inv, TypeOK, SeriesInv, CacheIsWhole,
                Valid, Contiguous, Bars
  <2> QED
    BY <2>1 DEF Inv
<1> QED
  BY <1>1, BarClosesInv, StartFetchInv, GetPageInv, PageLostInv, CutSeriesInv, ValidateInv,
     WriteInv, ReplaceFileInv, DecideInv, CrashInv
     DEF Next, Caller, Fetch, Store

LEMMA InvAlways == Spec => []Inv
BY InitInv, StepInv, PTL DEF Spec

-----------------------------------------------------------------------------

\* Every reachable state is well typed, whatever is fetched, fails or dies; in
\* particular a request is never tried more often than Retries.
THEOREM MarketTypeCorrect == Spec => []TypeOK
BY InvAlways, PTL DEF Inv

\* The cache never holds half a file or a series with a gap, wherever the
\* process dies, whatever the pages were and however far the clock is off.
THEOREM CacheIsWholeAlways == Spec => []CacheIsWhole
BY InvAlways, PTL DEF Inv

\* What is moved over the cache had closed when its fetch began.
LEMMA CacheStep ==
    ASSUME Lead = 0, Inv, CacheHasClosed, [Next]_vars
    PROVE  CacheHasClosed'
<1>1. closed \in Nat /\ reference \in Nat /\ reference <= closed /\ series \subseteq 1..reference
  BY MarketAssumption DEF Inv, TypeOK, SeriesInv
<1>2. closed' = closed \/ closed' = closed + 1
  BY DEF Next, BarCloses, Caller, Fetch, Store, StartFetch, GetPage, PageFails, PageRefused, CutSeries,
         Validate, OpenTmp, WriteTmp, ReplaceFile, Decide, Crash, vars, exchange
<1>3. file' = file \/ file' = series
  <2>1. ReplaceFile => file' = series
    BY DEF ReplaceFile, Inv, SeriesInv
  <2> QED
    BY <2>1 DEF Next, BarCloses, Caller, Fetch, Store, StartFetch, GetPage, PageFails, PageRefused,
           CutSeries, Validate, OpenTmp, WriteTmp, Decide, Crash, vars, files
<1>4. 1..closed \subseteq 1..closed' /\ 1..reference \subseteq 1..closed'
  BY <1>1, <1>2
<1> QED
  BY <1>1, <1>3, <1>4 DEF CacheHasClosed

\* As long as the local clock is never ahead of the exchange's, no bar is
\* stored before it has closed either. preflight only warns of a clock that is
\* ahead; with one, a fetch just before a bar ends keeps and stores it.
THEOREM CacheIsSoundAlways ==
    ASSUME Lead = 0
    PROVE  Spec => []CacheIsSound
<1>1. Init => CacheHasClosed
  BY DEF Init, CacheHasClosed
<1>2. Inv /\ CacheHasClosed /\ [Next]_vars => CacheHasClosed'
  BY CacheStep
<1>3. Inv /\ CacheHasClosed => CacheIsSound
  BY DEF Inv, CacheIsSound
<1> QED
  BY <1>1, <1>2, <1>3, InvAlways, PTL DEF Spec

-----------------------------------------------------------------------------
(***************************************************************************)
(* Staleness: with pages no longer than the series that is wanted, the     *)
(* newest closed bar survives the cut.                                     *)
(***************************************************************************)

\* S holds every closed bar that is newer than its oldest.
UpToDate(S) ==
    \A b \in Published : b <= reference /\ (\E c \in S : c < b) => b \in S

\* Without a window, the first page brings all that is kept.
FreshInv ==
    /\ pc = "page" /\ window = Unbounded /\ cursor = None => collected = {}
    /\ pc = "page" /\ window = Unbounded /\ cursor # None =>
          \A b \in Published : b <= reference => b < cursor
    /\ pc \in {"page", "cut"} /\ window = Unbounded =>
          UpToDate(collected) /\ Cardinality(collected) <= Limit
    /\ pc \in {"check", "open", "write", "rename", "decide"} => UpToDate(series)
    /\ verdict.stale => verdict.seen \in Nat /\ verdict.seen <= closed + 1

LEMMA SomeBars ==
    ASSUME NEW n \in Nat, NEW S \in SUBSET (1..n)
    PROVE  IsFiniteSet(S) /\ \A b \in S : b \in Nat /\ b >= 1 /\ b <= n
<1>1. IsFiniteSet(1..n)
  <2>1. 1 \in Int /\ n \in Int
    OBVIOUS
  <2> QED
    BY <2>1, FS_Interval
<1>2. IsFiniteSet(S)
  BY <1>1, FS_Subset
<1> QED
  BY <1>2

LEMMA MinIsMember ==
    ASSUME NEW n \in Nat, NEW S \in SUBSET (1..n), S # {}
    PROVE  \E m \in S : \A b \in S : m <= b
<1> DEFINE T == {(n + 1) - b : b \in S}
<1>1. T \subseteq 1..n /\ T # {}
  <2>1. ASSUME NEW b \in S PROVE (n + 1) - b \in 1..n
    BY SomeBars
  <2>2. T \subseteq 1..n
    BY <2>1
  <2>3. T # {}
    OBVIOUS
  <2> QED
    BY <2>2, <2>3
<1>2. Max(T) \in T /\ \A t \in T : Max(T) >= t
  BY <1>1, MaxIsMember
<1>3. PICK m \in S : Max(T) = (n + 1) - m
  BY <1>2
<1>4. ASSUME NEW b \in S PROVE m <= b
  <2>1. (n + 1) - b \in T
    OBVIOUS
  <2>2. (n + 1) - m >= (n + 1) - b
    BY <1>2, <1>3, <2>1
  <2> QED
    BY <2>2
<1> QED
  BY <1>4

\* The newest k of some bars are at most k.
LEMMA NewestAreFew ==
    ASSUME NEW n \in Nat, NEW S \in SUBSET (1..n), NEW k \in Nat
    PROVE  IsFiniteSet(NewestOf(S, k)) /\ Cardinality(NewestOf(S, k)) <= k
<1> DEFINE T == NewestOf(S, k)
<1>1. T \subseteq S /\ T \subseteq 1..n
  BY DEF NewestOf
<1>2. IsFiniteSet(S)
  BY SomeBars
<1>3. IsFiniteSet(T)
  BY <1>1, <1>2, FS_Subset
<1>4. CASE T = {}
  BY <1>3, <1>4, FS_EmptySet
<1>5. CASE T # {}
  <2>1. PICK m \in T : \A b \in T : m <= b
    BY <1>1, <1>5, MinIsMember
  <2> DEFINE U == {c \in S : c > m}
  <2>2. Cardinality(U) < k
    BY <2>1 DEF NewestOf
  <2>3. IsFiniteSet(U) /\ Cardinality(U) \in Nat
    BY <1>2, FS_Subset, FS_CardinalityType
  <2>4. T \subseteq U \cup {m}
    BY <1>1, <2>1
  <2>5. IsFiniteSet(U \cup {m}) /\ Cardinality(U \cup {m}) <= Cardinality(U) + 1
    <3> HIDE DEF U
    <3>1. /\ IsFiniteSet(U \cup {m})
          /\ Cardinality(U \cup {m}) = IF m \in U THEN Cardinality(U) ELSE Cardinality(U) + 1
      BY <2>3, FS_AddElement
    <3> QED
      BY <2>3, <3>1
  <2>6. Cardinality(T) <= Cardinality(U \cup {m})
    BY <2>4, <2>5, FS_Subset
  <2>7. Cardinality(T) \in Nat /\ Cardinality(U \cup {m}) \in Nat
    BY <1>3, <2>5, FS_CardinalityType
  <2> HIDE DEF T, U
  <2>8. Cardinality(T) <= k
    BY <2>2, <2>3, <2>5, <2>6, <2>7
  <2> QED
    BY <1>3, <2>8 DEF T
<1> QED
  BY <1>4, <1>5

\* Any bar above one of the newest is one of them.
LEMMA NewestAreUpward ==
    ASSUME NEW n \in Nat, NEW S \in SUBSET (1..n), NEW k \in Nat,
           NEW c \in NewestOf(S, k), NEW b \in S, c < b
    PROVE  b \in NewestOf(S, k)
<1> DEFINE A == {d \in S : d > c}
           B == {d \in S : d > b}
<1>1. IsFiniteSet(A) /\ B \subseteq A
  <2>1. IsFiniteSet(A)
    BY SomeBars, FS_Subset
  <2>2. c \in Nat /\ b \in Nat
    BY SomeBars DEF NewestOf
  <2>3. ASSUME NEW d \in S, d > b PROVE d > c
    BY <2>2, <2>3, SomeBars
  <2> QED
    BY <2>1, <2>3
<1>2. Cardinality(B) <= Cardinality(A) /\ Cardinality(A) \in Nat /\ Cardinality(B) \in Nat
  BY <1>1, FS_Subset, FS_CardinalityType
<1>3. Cardinality(A) < k
  BY DEF NewestOf
<1> HIDE DEF A, B
<1>4. Cardinality(B) < k
  BY <1>2, <1>3
<1> QED
  BY <1>4 DEF NewestOf, B

\* The newest of all is among them.
LEMMA NewestHasGreatest ==
    ASSUME NEW n \in Nat, NEW S \in SUBSET (1..n), NEW k \in Nat \ {0}, S # {}
    PROVE  Max(S) \in NewestOf(S, k)
<1>1. Max(S) \in S /\ \A b \in S : Max(S) >= b
  BY MaxIsMember
<1>2. {d \in S : d > Max(S)} = {}
  <2>1. Max(S) \in Nat
    BY <1>1, SomeBars
  <2>2. ASSUME NEW d \in S PROVE ~(d > Max(S))
    <3>1. d \in Nat /\ Max(S) >= d
      BY <1>1, SomeBars
    <3> QED
      BY <2>1, <3>1
  <2> QED
    BY <2>2
<1>3. Cardinality({d \in S : d > Max(S)}) = 0
  BY <1>2, FS_EmptySet
<1> QED
  BY <1>1, <1>3 DEF NewestOf

\* A cut to no fewer bars than there are cuts nothing.
LEMMA NothingCut ==
    ASSUME NEW n \in Nat, NEW S \in SUBSET (1..n), NEW k \in Nat, Cardinality(S) <= k
    PROVE  OldestOf(S, k) = S
<1> SUFFICES ASSUME NEW b \in S PROVE Cardinality({c \in S : c < b}) < k
  BY DEF OldestOf
<1> DEFINE A == {c \in S : c < b}
<1>1. IsFiniteSet(S) /\ A \subseteq S /\ A # S
  <2>1. b \in Nat /\ ~(b < b)
    BY SomeBars
  <2>2. b \notin A
    BY <2>1
  <2> QED
    BY <2>2, SomeBars
<1>2. IsFiniteSet(A) /\ Cardinality(A) <= Cardinality(S) /\ Cardinality(A) # Cardinality(S)
  BY <1>1, FS_Subset
<1>3. Cardinality(A) \in Nat /\ Cardinality(S) \in Nat
  BY <1>1, <1>2, FS_CardinalityType
<1> HIDE DEF A
<1>4. Cardinality(A) < k
  BY <1>2, <1>3
<1> QED
  BY <1>4 DEF A

LEMMA PublishedBars ==
    ASSUME TypeOK
    PROVE  closed + 1 \in Nat /\ Published \in SUBSET (1..closed + 1)
           /\ closed \in Nat /\ reference \in Nat /\ Limit \in Nat \ {0}
BY RowsArePublished, MarketAssumption DEF TypeOK

\* A clock that is ahead by a bar at most has seen no bar end that has not begun.
LEMMA ClockIsNear ==
    ASSUME Lead <= 1, Inv
    PROVE  closed \in Nat /\ reference \in Nat /\ reference <= closed + 1
BY PublishedBars, MarketAssumption DEF Inv, SeriesInv

\* A fetch that is not on its way has nothing to keep.
LEMMA IdleFresh ==
    ASSUME FreshInv, pc' = "idle", UNCHANGED verdict, UNCHANGED closed
    PROVE  FreshInv'
BY DEF FreshInv

\* What has been published since is newer than anything that is kept.
LEMMA BarClosesFresh ==
    ASSUME Lead <= 1, Inv, FreshInv, BarCloses
    PROVE  FreshInv'
<1> USE DEF BarCloses, fetching, files, bounds
<1>1. closed \in Nat /\ reference \in Nat /\ reference <= closed + 1
  BY ClockIsNear
<1>2. ASSUME NEW b \in Published', b <= reference PROVE b \in Published
  BY <1>1, <1>2 DEF Published
<1>3. UpToDate(collected) => UpToDate(collected)'
  BY <1>2 DEF UpToDate
<1>4. UpToDate(series) => UpToDate(series)'
  BY <1>2 DEF UpToDate
<1>5. verdict.stale => verdict.seen \in Nat /\ verdict.seen <= closed' + 1
  BY <1>1 DEF FreshInv
<1> QED
  BY <1>2, <1>3, <1>4, <1>5 DEF FreshInv

LEMMA StartFetchFresh ==
    ASSUME Inv, FreshInv, StartFetch
    PROVE  FreshInv'
<1> USE DEF StartFetch
<1>1. collected' = {} /\ pc' = "page" /\ closed' = closed /\ verdict' = verdict
  BY DEF exchange
<1>2. window' = Unbounded => cursor' = None
  BY DEF Unbounded
<1>3. Cardinality(collected') <= Limit
  BY <1>1, FS_EmptySet, MarketAssumption
<1>4. UpToDate(collected)'
  BY <1>1 DEF UpToDate
<1> QED
  BY <1>1, <1>2, <1>3, <1>4 DEF FreshInv

\* The first page holds the newest bars there are.
LEMMA FirstPage ==
    ASSUME Inv, FreshInv, GetPage, window = Unbounded, cursor = None
    PROVE  /\ UpToDate(collected') /\ Cardinality(collected') <= Limit
           /\ ~LastPage => \A b \in Published : b < NextCursor
<1>1. closed + 1 \in Nat /\ Published \in SUBSET (1..closed + 1) /\ Limit \in Nat \ {0}
      /\ reference \in Nat
  BY PublishedBars DEF Inv
<1>2. Rows = NewestOf(Published, Limit) /\ collected = {} /\ window.end = None
  BY DEF Rows, FreshInv, GetPage, Unbounded
<1>3. collected' = {b \in Rows : b <= reference}
  BY <1>2 DEF GetPage, Kept
<1>4. IsFiniteSet(Rows) /\ Cardinality(Rows) <= Limit
  BY <1>1, <1>2, NewestAreFew
<1>5. Cardinality(collected') <= Limit
  <2>1. IsFiniteSet(collected') /\ Cardinality(collected') <= Cardinality(Rows)
    BY <1>3, <1>4, FS_Subset
  <2>2. Cardinality(collected') \in Nat /\ Cardinality(Rows) \in Nat
    BY <1>4, <2>1, FS_CardinalityType
  <2> QED
    BY <1>1, <1>4, <2>1, <2>2
<1>6. UpToDate(collected')
  <2> SUFFICES ASSUME NEW b \in Published, b <= reference, NEW c \in collected', c < b
               PROVE  b \in collected'
    BY DEF UpToDate
  <2>1. b \in Rows
    BY <1>1, <1>2, <1>3, NewestAreUpward
  <2> QED
    BY <1>3, <2>1
<1>7. ASSUME ~LastPage, NEW b \in Published PROVE b < NextCursor
  <2>1. Max(Published) \in Rows /\ \A x \in Published : Max(Published) >= x
    BY <1>1, <1>2, NewestHasGreatest, MaxIsMember
  <2>2. Rows \in SUBSET (1..closed + 1) /\ Rows # {}
    BY <1>1, <1>2, <2>1 DEF NewestOf
  <2>3. Max(Rows) \in Rows /\ \A x \in Rows : Max(Rows) >= x
    BY <1>1, <2>2, MaxIsMember
  <2>4. Max(Rows) >= Max(Published) /\ Max(Published) >= b
    BY <2>1, <2>3
  <2>5. Max(Rows) \in Nat /\ Max(Published) \in Nat /\ b \in Nat
    BY <1>1, <2>1, <2>2, <2>3, SomeBars
  <2> QED
    BY <2>4, <2>5 DEF NextCursor
<1> QED
  BY <1>5, <1>6, <1>7

\* A later page brings nothing that is kept.
LEMMA LaterPage ==
    ASSUME Inv, FreshInv, GetPage, window = Unbounded, cursor # None
    PROVE  /\ collected' = collected
           /\ ~LastPage => \A b \in Published : b <= reference => b < NextCursor
<1>1. closed + 1 \in Nat /\ Published \in SUBSET (1..closed + 1) /\ reference \in Nat /\ cursor \in Nat
  BY PublishedBars DEF Inv, TypeOK
<1>2. \A b \in Published : b <= reference => b < cursor
  BY DEF FreshInv, GetPage
<1>3. Rows \subseteq Published /\ \A b \in Rows : b >= cursor
  BY DEF Rows, OldestOf
<1>4. \A b \in Published : b \in Nat
  BY <1>1, SomeBars
<1>5. Kept = {}
  <2> SUFFICES ASSUME NEW b \in Rows, b <= reference PROVE FALSE
    BY DEF Kept
  <2>1. b < cursor /\ b >= cursor /\ b \in Nat
    BY <1>2, <1>3, <1>4
  <2> QED
    BY <1>1, <2>1
<1>6. ASSUME ~LastPage, NEW b \in Published, b <= reference PROVE b < NextCursor
  <2>1. Rows \in SUBSET (1..closed + 1) /\ Rows # {}
    BY <1>1, <1>3, <1>6 DEF LastPage
  <2>2. Max(Rows) \in Rows
    BY <1>1, <2>1, MaxIsMember
  <2>3. Max(Rows) \in Nat /\ Max(Rows) >= cursor /\ b \in Nat /\ b < cursor
    BY <1>2, <1>3, <1>4, <1>6, <2>2
  <2> QED
    BY <1>1, <2>3 DEF NextCursor
<1> QED
  BY <1>5, <1>6 DEF GetPage

LEMMA GetPageFresh ==
    ASSUME Inv, FreshInv, GetPage
    PROVE  FreshInv'
<1>1. /\ pc = "page" /\ pc' \in {"page", "cut"} /\ UNCHANGED <<window, reference, verdict, closed, absent>>
      /\ LastPage => pc' = "cut"
      /\ ~LastPage => cursor' = NextCursor
  BY DEF GetPage, exchange
<1>2. Published' = Published
  BY <1>1 DEF Published
<1>3. CASE window # Unbounded
  BY <1>1, <1>3 DEF FreshInv
<1>4. CASE window = Unbounded
  <2>1. UpToDate(collected') /\ Cardinality(collected') <= Limit
    BY <1>1, <1>4, FirstPage, LaterPage DEF FreshInv
  <2>2. UpToDate(collected)'
    BY <1>1, <1>2, <2>1 DEF UpToDate
  <2>3. ~LastPage => \A b \in Published : b <= reference => b < NextCursor
    BY <1>4, FirstPage, LaterPage
  <2>4. ~LastPage => NextCursor # None
    BY NextCursorIsBar, MarketAssumption DEF Inv
  <2> QED
    BY <1>1, <1>2, <1>4, <2>1, <2>2, <2>3, <2>4 DEF FreshInv
<1> QED
  BY <1>3, <1>4

LEMMA CutSeriesFresh ==
    ASSUME Inv, FreshInv, CutSeries, Limit <= MaxBars
    PROVE  FreshInv'
<1>1. UNCHANGED <<verdict, closed, reference, Published>>
  BY DEF CutSeries, exchange, fetching, Published
<1>2. CASE window # Unbounded
  BY <1>1, <1>2, IdleFresh DEF CutSeries
<1>3. CASE window = Unbounded
  <2>1. pc = "cut" /\ pc' = "check" /\ series' = OldestOf(collected, MaxBars)
    BY <1>3 DEF CutSeries
  <2>2. UpToDate(collected) /\ Cardinality(collected) <= Limit
    BY <1>3, <2>1 DEF FreshInv
  <2>3. collected \in SUBSET (1..reference) /\ reference \in Nat
    BY PublishedBars DEF Inv, SeriesInv
  <2>4. Cardinality(collected) <= MaxBars
    <3>1. Cardinality(collected) \in Nat
      BY <2>3, SomeBars, FS_CardinalityType
    <3> QED
      BY <2>2, <3>1, MarketAssumption
  <2>5. series' = collected
    BY <2>1, <2>3, <2>4, NothingCut, MarketAssumption
  <2>6. UpToDate(series)'
    BY <1>1, <2>2, <2>5 DEF UpToDate
  <2> QED
    BY <1>1, <2>1, <2>6 DEF FreshInv
<1> QED
  BY <1>2, <1>3

LEMMA StoreFresh ==
    ASSUME Inv, FreshInv, Validate \/ OpenTmp \/ WriteTmp \/ ReplaceFile
    PROVE  FreshInv'
<1>1. UNCHANGED <<series, verdict, closed, absent, reference>>
  BY DEF Validate, OpenTmp, WriteTmp, ReplaceFile, exchange, fetching
<1>2. pc \in {"check", "open", "write", "rename"} /\ pc' \in {"idle", "open", "write", "rename", "decide"}
  BY DEF Validate, OpenTmp, WriteTmp, ReplaceFile
<1>3. UpToDate(series)'
  BY <1>1, <1>2 DEF UpToDate, FreshInv, Published
<1> QED
  BY <1>1, <1>2, <1>3 DEF FreshInv

\* The bar whose age is taken is the newest that had closed.
LEMMA DecideFresh ==
    ASSUME Lead <= 1, Inv, FreshInv, Decide
    PROVE  FreshInv' /\ StaleMeansOld'
<1>1. UNCHANGED <<closed, absent, reference>> /\ pc' = "idle"
      /\ verdict'.bar = Max(series) /\ verdict'.seen = reference
  BY DEF Decide, exchange, fetching
<1>2. closed \in Nat /\ reference \in Nat /\ reference <= closed + 1 /\ series # {} /\ series \in SUBSET (1..reference)
  BY ClockIsNear DEF Inv, SeriesInv, Decide, Valid
<1>3. FreshInv'
  BY <1>1, <1>2 DEF FreshInv
<1>4. Max(series) \in series /\ UpToDate(series)
  BY <1>2, MaxIsMember DEF FreshInv, Decide
<1>5. ASSUME NEW b \in Published', b > Max(series) PROVE b > reference
  <2>1. b \in Published /\ b \in Nat /\ Max(series) \in Nat
    <3>1. b \in Published
      BY <1>1 DEF Published
    <3>2. Max(series) \in Nat
      BY <1>2, <1>4, SomeBars
    <3> QED
      BY <3>1, <3>2, PublishedBars, SomeBars DEF Inv
  <2>2. b \notin series
    <3>1. \A c \in series : Max(series) >= c
      BY <1>2, MaxIsMember
    <3> QED
      BY <1>5, <2>1, <3>1
  <2>3. Max(series) < b
    BY <1>5, <2>1
  <2>4. ~(b <= reference)
    BY <1>4, <2>1, <2>2, <2>3 DEF UpToDate
  <2> QED
    BY <1>2, <2>1, <2>4
<1>6. StaleMeansOld'
  BY <1>1, <1>5 DEF StaleMeansOld
<1> QED
  BY <1>3, <1>6

LEMMA FreshStep ==
    ASSUME Limit <= MaxBars, Lead <= 1, Inv, FreshInv, StaleMeansOld, [Next]_vars
    PROVE  FreshInv' /\ StaleMeansOld'
<1>1. CASE BarCloses
  <2>1. closed \in Nat /\ closed' = closed + 1 /\ verdict' = verdict /\ absent' = absent
    BY <1>1, PublishedBars DEF BarCloses, Inv
  <2>2. ASSUME verdict.stale, NEW b \in Published', b > verdict.bar PROVE b > verdict.seen
    <3>1. CASE b \in Published
      BY <2>2, <3>1 DEF StaleMeansOld
    <3>2. CASE b \notin Published
      <4>1. b = closed + 2
        BY <2>1, <3>2 DEF Published
      <4> QED
        BY <2>1, <2>2, <4>1 DEF FreshInv
    <3> QED
      BY <3>1, <3>2
  <2>3. StaleMeansOld'
    BY <2>1, <2>2 DEF StaleMeansOld
  <2> QED
    BY <1>1, <2>3, BarClosesFresh
<1>2. CASE Decide
  BY <1>2, DecideFresh
<1>3. CASE ~BarCloses /\ ~Decide
  <2>1. UNCHANGED <<closed, absent, verdict>>
    BY <1>3 DEF Next, Caller, Fetch, Store, StartFetch, GetPage, PageFails, PageRefused, CutSeries,
                Validate, OpenTmp, WriteTmp, ReplaceFile, Crash, vars, exchange
  <2>2. StaleMeansOld'
    BY <2>1 DEF StaleMeansOld, Published
  <2>3. FreshInv'
    <3>1. CASE StartFetch
      BY <3>1, StartFetchFresh
    <3>2. CASE GetPage
      BY <3>2, GetPageFresh
    <3>3. CASE PageFails \/ PageRefused
      <4>1. UNCHANGED <<window, reference, cursor, collected, series>> /\ pc = "page" /\ pc' \in {"page", "idle"}
        BY <3>3 DEF PageFails, PageRefused
      <4> QED
        BY <2>1, <4>1 DEF FreshInv, UpToDate, Published
    <3>4. CASE CutSeries
      BY <3>4, CutSeriesFresh
    <3>5. CASE Validate \/ OpenTmp \/ WriteTmp \/ ReplaceFile
      BY <3>5, StoreFresh
    <3>6. CASE Crash
      BY <2>1, <3>6, IdleFresh DEF Crash
    <3>7. CASE UNCHANGED vars
      BY <3>7 DEF vars, exchange, fetching, FreshInv, UpToDate, Published
    <3> QED
      BY <1>3, <3>1, <3>2, <3>3, <3>4, <3>5, <3>6, <3>7 DEF Next, Caller, Fetch, Store
  <2> QED
    BY <2>2, <2>3
<1> QED
  BY <1>1, <1>2, <1>3

LEMMA InitFresh == Init => FreshInv /\ StaleMeansOld
BY DEF Init, FreshInv, StaleMeansOld, NoVerdict

\* Entries are halted for old data only if the exchange had nothing newer, for
\* any page size and any series at least as long as a page, with a clock that is
\* ahead by a bar at most.
THEOREM StaleMeansOldAlways ==
    ASSUME Limit <= MaxBars, Lead <= 1
    PROVE  Spec => []StaleMeansOld
BY InvAlways, InitFresh, FreshStep, PTL DEF Spec
-----------------------------------------------------------------------------
(***************************************************************************)
(* Paging from a start: between two pages, what is in hand is the part of  *)
(* the window below the cursor.                                            *)
(***************************************************************************)

\* Any bar below one of the oldest is one of them.
LEMMA OldestAreDownward ==
    ASSUME NEW n \in Nat, NEW S \in SUBSET (1..n), NEW k \in Nat,
           NEW c \in OldestOf(S, k), NEW b \in S, b < c
    PROVE  b \in OldestOf(S, k)
<1> DEFINE A == {d \in S : d < c}
           B == {d \in S : d < b}
<1>1. IsFiniteSet(A) /\ B \subseteq A
  <2>1. IsFiniteSet(A)
    BY SomeBars, FS_Subset
  <2>2. c \in Nat /\ b \in Nat
    BY SomeBars DEF OldestOf
  <2>3. ASSUME NEW d \in S, d < b PROVE d < c
    BY <2>2, <2>3, SomeBars
  <2> QED
    BY <2>1, <2>3
<1>2. Cardinality(B) <= Cardinality(A) /\ Cardinality(A) \in Nat /\ Cardinality(B) \in Nat
  BY <1>1, FS_Subset, FS_CardinalityType
<1>3. Cardinality(A) < k
  BY DEF OldestOf
<1> HIDE DEF A, B
<1>4. Cardinality(B) < k
  BY <1>2, <1>3
<1> QED
  BY <1>4 DEF OldestOf, B

\* Fewer of the oldest than were asked for are all there is.
LEMMA FewAreAll ==
    ASSUME NEW n \in Nat, NEW S \in SUBSET (1..n), NEW k \in Nat, Cardinality(OldestOf(S, k)) < k
    PROVE  OldestOf(S, k) = S
<1> DEFINE T == OldestOf(S, k)
           Rest == S \ T
<1>1. T \subseteq S /\ IsFiniteSet(S) /\ Rest \in SUBSET (1..n)
  BY SomeBars DEF OldestOf
<1>2. IsFiniteSet(T) /\ Cardinality(T) \in Nat
  BY <1>1, FS_Subset, FS_CardinalityType
<1> SUFFICES ASSUME Rest # {} PROVE FALSE
  BY <1>1
<1>3. PICK b \in Rest : \A c \in Rest : b <= c
  <2> HIDE DEF Rest
  <2> QED
    BY <1>1, MinIsMember
<1> DEFINE A == {c \in S : c < b}
<1>4. A \subseteq T
  <2> SUFFICES ASSUME NEW c \in S, c < b PROVE c \in T
    OBVIOUS
  <2>1. c \in Nat /\ b \in Nat
    BY <1>1, SomeBars
  <2>2. ~(b <= c)
    BY <2>1
  <2> QED
    BY <1>3, <2>2
<1>5. Cardinality(A) <= Cardinality(T) /\ Cardinality(A) \in Nat
  BY <1>2, <1>4, FS_Subset, FS_CardinalityType
<1>6. ~(Cardinality(A) < k)
  BY <1>3 DEF OldestOf
<1>7. Cardinality(T) < k
  OBVIOUS
<1> HIDE DEF A, T
<1> QED
  BY <1>2, <1>5, <1>6, <1>7

\* A lower part of a set that is all of it, or long enough, has the same oldest bars.
LEMMA LowerPartSuffices ==
    ASSUME NEW n \in Nat, NEW S \in SUBSET (1..n), NEW C \in SUBSET S, NEW k \in Nat,
           \A c \in C : \A b \in S : b < c => b \in C,
           C = S \/ Cardinality(C) >= k
    PROVE  OldestOf(C, k) = OldestOf(S, k)
<1>1. \A b \in C : {c \in C : c < b} = {c \in S : c < b}
  OBVIOUS
<1>2. \A b \in C : b \in OldestOf(C, k) <=> b \in OldestOf(S, k)
  BY <1>1 DEF OldestOf
<1>3. ASSUME NEW b \in S, b \notin C, Cardinality(C) >= k PROVE b \notin OldestOf(S, k)
  <2> DEFINE A == {c \in S : c < b}
  <2>1. C \subseteq A
    <3> SUFFICES ASSUME NEW c \in C PROVE c < b
      OBVIOUS
    <3>1. c \in Nat /\ b \in Nat /\ c # b /\ ~(b < c)
      BY <1>3, SomeBars
    <3> QED
      BY <3>1
  <2>2. IsFiniteSet(A)
    BY SomeBars, FS_Subset
  <2>3. Cardinality(C) <= Cardinality(A) /\ Cardinality(A) \in Nat /\ Cardinality(C) \in Nat
    BY <2>1, <2>2, FS_Subset, FS_CardinalityType
  <2> HIDE DEF A
  <2>4. ~(Cardinality(A) < k)
    BY <1>3, <2>3
  <2> QED
    BY <2>4 DEF OldestOf, A
<1> QED
  BY <1>2, <1>3 DEF OldestOf

PagingInv ==
    pc \in {"page", "cut"} /\ window.start # None =>
        /\ cursor # None /\ window.start <= cursor /\ collected \subseteq InWindow
        /\ pc = "page" => /\ \A b \in collected : b < cursor
                          /\ \A b \in InWindow : b < cursor => b \in collected
        /\ pc = "cut" => OldestOf(collected, MaxBars) = OldestOf(InWindow, MaxBars)

\* The bars of the window are fixed when the fetch begins.
LEMMA WindowIsFixed ==
    ASSUME Lead <= 1, Inv, window.start # None, UNCHANGED <<window, reference, absent>>,
           closed' = closed \/ closed' = closed + 1
    PROVE  InWindow' = InWindow
<1>1. closed \in Nat /\ reference \in Nat /\ reference <= closed + 1
  BY ClockIsNear
<1>2. ASSUME NEW b, b <= reference PROVE b \in 1..closed' + 1 <=> b \in 1..closed + 1
  <2>1. ASSUME b \in Int PROVE b \in 1..closed' + 1 <=> b \in 1..closed + 1
    BY <1>1, <1>2, <2>1
  <2> QED
    BY <1>1, <2>1
<1> QED
  BY <1>2 DEF InWindow, Published

\* What a page from a cursor brings, and what it leaves above.
LEMMA PageFromCursor ==
    ASSUME Inv, PagingInv, pc = "page", window.start # None
    PROVE  /\ Rows \in SUBSET (1..closed + 1) /\ \A b \in Rows : b >= cursor
           /\ collected \cup Kept \subseteq InWindow
           /\ ~LastPage => \A b \in InWindow : b < NextCursor => b \in collected \cup Kept
           /\ ~LastPage => \A b \in collected \cup Kept : b < NextCursor
           /\ LastPage => collected \cup Kept = InWindow
<1> DEFINE Ahead == {b \in Published : b >= cursor}
<1>1. closed + 1 \in Nat /\ Published \in SUBSET (1..closed + 1) /\ Limit \in Nat \ {0}
      /\ reference \in Nat /\ Ahead \in SUBSET (1..closed + 1)
  BY PublishedBars DEF Inv
<1>2. cursor \in Nat /\ window.start \in Nat /\ window.start <= cursor
      /\ (window.end = None \/ window.end \in Nat)
  BY MarketAssumption DEF PagingInv, Inv, TypeOK, Unbounded
<1>3. Rows = OldestOf(Ahead, Limit)
  BY <1>2, MarketAssumption DEF Rows
<1>4. Rows \subseteq Ahead /\ \A b \in Published : b \in Nat
  BY <1>1, <1>3, SomeBars DEF OldestOf
<1>5. InWindow \subseteq Published /\ collected \subseteq InWindow
      /\ \A b \in InWindow : b < cursor => b \in collected
  BY DEF InWindow, PagingInv
<1>6. Kept \subseteq InWindow
  <2> SUFFICES ASSUME NEW b \in Kept PROVE b >= window.start
    BY <1>4 DEF Kept, InWindow
  <2>1. b \in Nat /\ b >= cursor
    BY <1>4 DEF Kept
  <2> QED
    BY <1>2, <2>1
\* A bar of the window that is on the page is in hand.
<1>7. ASSUME NEW b \in InWindow, b \in Rows PROVE b \in collected \cup Kept
  BY <1>7 DEF InWindow, Kept
<1>8. ASSUME NEW b \in InWindow PROVE b \in collected \/ b \in Ahead
  <2>1. b \in Nat /\ b \in Published
    BY <1>4, <1>5
  <2>2. b < cursor \/ b >= cursor
    BY <1>2, <2>1
  <2> QED
    BY <1>5, <2>1, <2>2
<1> HIDE DEF Ahead
<1>9. ASSUME ~LastPage
      PROVE  /\ \A b \in InWindow : b < NextCursor => b \in collected \cup Kept
             /\ \A b \in collected \cup Kept : b < NextCursor
  <2>1. Rows # {} /\ Rows \in SUBSET (1..closed + 1)
    BY <1>1, <1>4, <1>9 DEF LastPage
  <2>2. Max(Rows) \in Rows /\ \A b \in Rows : Max(Rows) >= b
    BY <1>1, <2>1, MaxIsMember
  <2>3. Max(Rows) \in Nat /\ Max(Rows) >= cursor
    BY <1>4, <2>2 DEF Ahead
  <2>4. ASSUME NEW b \in InWindow, b < NextCursor PROVE b \in collected \cup Kept
    <3>1. b \in Nat /\ b <= Max(Rows)
      BY <1>4, <1>5, <2>3, <2>4 DEF NextCursor
    <3>2. CASE b \in Ahead
      <4>1. b = Max(Rows) \/ b < Max(Rows)
        BY <2>3, <3>1
      <4>2. b \in Rows
        BY <1>1, <1>3, <2>2, <3>2, <4>1, OldestAreDownward
      <4> QED
        BY <1>7, <4>2
    <3> QED
      BY <1>8, <3>2
  <2>5. ASSUME NEW b \in collected \cup Kept PROVE b < NextCursor
    <3>1. b \in Nat
      BY <1>4, <1>5, <1>6
    <3>2. b < cursor \/ b <= Max(Rows)
      BY <2>2, <2>3, <3>1 DEF PagingInv, Kept
    <3> QED
      BY <1>2, <2>3, <3>1, <3>2 DEF NextCursor
  <2> QED
    BY <2>4, <2>5
<1>10. ASSUME LastPage PROVE collected \cup Kept = InWindow
  <2> SUFFICES ASSUME NEW b \in InWindow, b \in Ahead PROVE b \in collected \cup Kept
    BY <1>5, <1>6, <1>8
  <2>1. CASE Cardinality(Rows) < Limit
    <3>1. Rows = Ahead
      BY <1>1, <1>3, <2>1, FewAreAll
    <3> QED
      BY <1>7, <3>1
  <2>2. CASE Rows = {}
    <3>1. Cardinality(Rows) = 0
      BY <2>2, FS_EmptySet
    <3>2. Cardinality(Rows) < Limit
      BY <1>1, <3>1
    <3> QED
      BY <2>1, <3>2
  <2>3. CASE Rows # {} /\ Kept = {} /\ Max(Rows) <= cursor
    <3>1. Rows \in SUBSET (1..closed + 1)
      BY <1>1, <1>4
    <3>2. Max(Rows) \in Rows /\ \A c \in Rows : Max(Rows) >= c
      BY <1>1, <2>3, <3>1, MaxIsMember
    <3>3. cursor \in Rows
      <4>1. Max(Rows) \in Nat /\ Max(Rows) >= cursor
        BY <1>4, <3>2 DEF Ahead
      <4> QED
        BY <1>2, <2>3, <3>2, <4>1
    <3>4. cursor \notin collected
      BY <1>2 DEF PagingInv
    <3>5. cursor > reference \/ (window.end # None /\ cursor > window.end)
      BY <1>1, <1>2, <2>3, <3>3, <3>4 DEF Kept
    <3>6. b \in Nat /\ b >= cursor /\ b <= reference /\ (window.end = None \/ b <= window.end)
      BY <1>4, <1>5 DEF Ahead, InWindow
    <3> QED
      BY <1>1, <1>2, <3>5, <3>6
  <2> QED
    BY <1>10, <2>1, <2>2, <2>3 DEF LastPage
<1> QED
  BY <1>1, <1>4, <1>6, <1>5, <1>9, <1>10 DEF Ahead

LEMMA GetPagePaging ==
    ASSUME Inv, PagingInv, GetPage
    PROVE  PagingInv'
<1> SUFFICES ASSUME window.start # None PROVE PagingInv'
  BY DEF GetPage, PagingInv
<1>1. /\ pc = "page" /\ collected' = collected \cup Kept /\ UNCHANGED <<window, reference, closed, absent>>
      /\ LastPage => pc' = "cut" /\ cursor' = cursor
      /\ ~LastPage => /\ cursor' = NextCursor
                      /\ pc' = IF Cardinality(collected') < MaxBars THEN "page" ELSE "cut"
  BY DEF GetPage, exchange
<1>2. InWindow' = InWindow
  BY <1>1 DEF InWindow, Published
<1>3. closed + 1 \in Nat /\ InWindow \in SUBSET (1..closed + 1) /\ MaxBars \in Nat
  BY PublishedBars, MarketAssumption DEF Inv, InWindow
<1>4. collected' \subseteq InWindow /\ (LastPage => collected' = InWindow)
  BY <1>1, PageFromCursor
<1>5. cursor \in Nat /\ window.start \in Nat /\ window.start <= cursor
  BY <1>1, MarketAssumption DEF PagingInv, Inv, TypeOK, Unbounded
<1>6. CASE LastPage
  BY <1>1, <1>2, <1>4, <1>5, <1>6, MarketAssumption DEF PagingInv
<1>7. CASE ~LastPage
  <2>1. /\ \A b \in InWindow : b < NextCursor => b \in collected'
        /\ \A b \in collected' : b < NextCursor
    BY <1>1, <1>7, PageFromCursor
  <2>2. NextCursor \in Nat /\ NextCursor > cursor
    <3>1. Rows # {} /\ Rows \in SUBSET (1..closed + 1) /\ \A b \in Rows : b >= cursor
      BY <1>1, <1>7, PageFromCursor DEF LastPage
    <3>2. Max(Rows) \in Rows
      BY <1>3, <3>1, MaxIsMember
    <3>3. Max(Rows) \in Nat /\ Max(Rows) >= cursor
      BY <1>3, <3>1, <3>2, SomeBars
    <3> QED
      BY <1>5, <3>3 DEF NextCursor
  <2>3. cursor' \in Nat /\ cursor' # None /\ window'.start <= cursor'
    BY <1>1, <1>5, <1>7, <2>2, MarketAssumption
  <2>4. pc' = "cut" => OldestOf(collected', MaxBars) = OldestOf(InWindow, MaxBars)
    <3> SUFFICES ASSUME pc' = "cut" PROVE OldestOf(collected', MaxBars) = OldestOf(InWindow, MaxBars)
      OBVIOUS
    <3>1. Cardinality(collected') >= MaxBars
      <4>1. ~(Cardinality(collected') < MaxBars)
        BY <1>1, <1>7
      <4>2. collected' \in SUBSET (1..closed + 1)
        BY <1>3, <1>4
      <4>3. Cardinality(collected') \in Nat
        BY <1>3, <4>2, SomeBars, FS_CardinalityType
      <4> QED
        BY <1>3, <4>1, <4>3
    <3>2. \A c \in collected' : \A b \in InWindow : b < c => b \in collected'
      <4> SUFFICES ASSUME NEW c \in collected', NEW b \in InWindow, b < c PROVE b < NextCursor
        BY <2>1
      <4>1. c \in Nat /\ b \in Nat /\ c < NextCursor
        BY <1>3, <1>4, <2>1, SomeBars
      <4> QED
        BY <2>2, <4>1
    <3> QED
      BY <1>3, <1>4, <3>1, <3>2, LowerPartSuffices
  <2> QED
    BY <1>1, <1>2, <1>4, <1>7, <2>1, <2>3, <2>4 DEF PagingInv
<1> QED
  BY <1>6, <1>7

LEMMA PagingStep ==
    ASSUME Lead <= 1, Inv, PagingInv, [Next]_vars
    PROVE  PagingInv'
<1>1. CASE StartFetch
  <2>1. /\ pc' = "page" /\ collected' = {} /\ cursor' = window'.start /\ window' \in Windows
    BY <1>1 DEF StartFetch
  <2>2. ASSUME window'.start # None PROVE window'.start \in Nat
    BY <2>1, <2>2, MarketAssumption
  <2>3. \A b \in InWindow' : b >= window'.start
    BY DEF InWindow
  <2>4. ASSUME window'.start # None, NEW b \in InWindow' PROVE ~(b < cursor')
    <3>1. b \in Int
      BY DEF InWindow, Published
    <3> QED
      BY <2>1, <2>2, <2>3, <2>4, <3>1
  <2> QED
    BY <2>1, <2>2, <2>4 DEF PagingInv
<1>2. CASE GetPage
  BY <1>2, GetPagePaging
<1>3. CASE pc' \notin {"page", "cut"}
  BY <1>3 DEF PagingInv
<1>4. CASE /\ UNCHANGED <<window, reference, cursor, collected, absent, pc>>
           /\ closed' = closed \/ closed' = closed + 1
  <2>1. window.start # None => InWindow' = InWindow
    BY <1>4, WindowIsFixed
  <2> QED
    BY <1>4, <2>1 DEF PagingInv
<1> QED
  BY <1>1, <1>2, <1>3, <1>4 DEF Next, Caller, Fetch, Store, BarCloses, PageFails, PageRefused, CutSeries,
     Validate, OpenTmp, WriteTmp, ReplaceFile, Decide, Crash, vars, exchange, fetching

\* Whatever the pages were, how often they were retried and what closed between
\* them, paging from a start loses no bar of the window: for any page size, any
\* number of bars that is wanted, any windows and any gaps of the exchange, with
\* a clock that is ahead by a bar at most.
THEOREM PagingLosesNothingAlways ==
    ASSUME Lead <= 1
    PROVE  Spec => []PagingLosesNothing
<1>1. Init => PagingInv
  BY DEF Init, PagingInv
<1>2. Inv /\ PagingInv /\ [Next]_vars => PagingInv'
  BY PagingStep
<1>3. PagingInv => PagingLosesNothing
  BY DEF PagingInv, PagingLosesNothing
<1> QED
  BY <1>1, <1>2, <1>3, InvAlways, PTL DEF Spec
=============================================================================
