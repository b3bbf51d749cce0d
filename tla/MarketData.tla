----------------------------- MODULE MarketData -----------------------------
(***************************************************************************)
(* Candles of one symbol: the exchange publishes them, the client pages    *)
(* through them, the runtime validates and stores the series and hands it  *)
(* to the tick, which halts entries when the series is too old.            *)
(*                                                                         *)
(* A bar is its number: bar b covers the b-th interval, and bar closed + 1 *)
(* is forming. A series is in time order and without duplicates, so it is  *)
(* the set of its bars.                                                    *)
(*                                                                         *)
(* pc: idle -> page* -> cut (-> check -> open -> write -> rename ->        *)
(* decide) -> idle. Between two values lies one request, one file          *)
(* operation, or a computation nothing can interrupt but a crash.          *)
(***************************************************************************)
EXTENDS Naturals, FiniteSets, FiniteSetsExt

CONSTANTS
    Limit,       \* MAX_LIMIT, the rows of a full page
    MaxBars,     \* max_bars: how many bars the caller wants
    Retries,     \* attempts of one request
    Tolerance,   \* tolerance_multiple of the staleness check
    Windows,     \* the windows asked for: records of start and end, or None
    Lag,         \* by how many bars the local clock may be behind the exchange's
    Lead,        \* by how many it may be ahead: preflight only warns of either
    LastBar,     \* bound: the last bar that closes
    MaxFailures, \* bound: failing attempts
    MaxCrashes,  \* bound: deaths of the process
    None,        \* no bound, no cursor, no file
    Half         \* a temporary file that is not written to its end

ASSUME MarketAssumption ==
    /\ Limit \in Nat \ {0} /\ MaxBars \in Nat \ {0} /\ Retries \in Nat \ {0}
    /\ Tolerance \in Nat /\ LastBar \in Nat /\ MaxFailures \in Nat /\ MaxCrashes \in Nat
    /\ Lag \in Nat /\ Lead \in Nat
    /\ None \notin Nat /\ None # Half
    /\ \A S \in SUBSET (1..LastBar + 1) : S # None /\ S # Half
    /\ Windows \subseteq [start : Nat \cup {None}, end : Nat \cup {None}]

VARIABLES
    closed,     \* how many bars have closed
    absent,     \* the bars the exchange will never publish
    pc,         \* the next step of the caller
    window,     \* start and end of the fetch
    reference,  \* the last bar that had closed by the local clock when the fetch began
    cursor,     \* cursor_ms: the bar the next page starts from
    collected,  \* collected, and seen
    tries,      \* failed attempts of this request
    series,     \* the series in hand
    tmp,        \* the temporary file of the cache
    file,       \* the cache
    verdict,    \* what the last staleness check said of which bar, and the
                \* reference of its fetch
    failures,   \* bound: failing attempts so far
    crashes     \* bound: deaths so far

exchange == <<closed, absent>>
fetching == <<window, reference, cursor, collected, tries>>
files == <<tmp, file>>
bounds == <<failures, crashes>>
vars == <<exchange, pc, fetching, series, files, verdict, bounds>>

Unbounded == [start |-> None, end |-> None]
NoVerdict == [bar |-> None, seen |-> None, stale |-> FALSE]

-----------------------------------------------------------------------------
(***************************************************************************)
(* The exchange: not code of the repository.                               *)
(***************************************************************************)

\* What a query can return: the published bars, and the forming one.
Published == (1..closed + 1) \ absent

NewestOf(S, k) == {b \in S : Cardinality({c \in S : c > b}) < k}
OldestOf(S, k) == {b \in S : Cardinality({c \in S : c < b}) < k}

\* One page: the newest bars without a start, else the first from the start on.
Rows == IF cursor = None THEN NewestOf(Published, Limit)
        ELSE OldestOf({b \in Published : b >= cursor}, Limit)

BarCloses ==
    /\ closed < LastBar
    /\ closed' = closed + 1
    /\ UNCHANGED <<absent, pc, fetching, series, files, verdict, bounds>>

-----------------------------------------------------------------------------
(***************************************************************************)
(* BinanceKlineClient.fetch                                                *)
(***************************************************************************)

\* The last bar that has closed by the local clock, as that may be off.
ClosedByClock == {n \in 0..closed + Lead : closed <= n + Lag}

\* utcnow() is read once.
StartFetch ==
    /\ pc = "idle"
    /\ \E w \in Windows : window' = w /\ cursor' = w.start
    /\ reference' \in ClosedByClock
    /\ collected' = {} /\ tries' = 0 /\ series' = {}
    /\ pc' = "page"
    /\ UNCHANGED <<exchange, files, verdict, bounds>>

\* Mutant: the last row is kept although it is forming.
Kept_Forming ==
    {b \in Rows \ collected : window.end = None \/ b <= window.end}

\* Mutant: the bar that has just closed is taken for the forming one.
Kept_NotNewest ==
    {b \in Rows \ collected : b < reference /\ (window.end = None \/ b <= window.end)}

\* The rows of this page that are kept: not seen, in the window, closed.
Kept == {b \in Rows \ collected :
            /\ window.end = None \/ b <= window.end
            /\ b <= reference}

\* The three ways the loop ends on what a page brought.
LastPage ==
    \/ Rows = {}
    \/ Kept = {} /\ cursor # None /\ Max(Rows) <= cursor
    \/ Cardinality(Rows) < Limit

\* Mutant: every page asks for the same rows.
NextCursor_Same == cursor

\* Mutant: the interval after that one.
NextCursor_Skip == Max(Rows) + 2

\* The interval after the last row.
NextCursor == Max(Rows) + 1

\* A page is answered; the while condition is evaluated with the next one.
GetPage ==
    /\ pc = "page"
    /\ tries' = 0
    /\ collected' = collected \cup Kept
    /\ IF LastPage
       THEN pc' = "cut" /\ UNCHANGED cursor
       ELSE /\ cursor' = NextCursor
            /\ pc' = IF Cardinality(collected \cup Kept) < MaxBars THEN "page" ELSE "cut"
    /\ UNCHANGED <<exchange, window, reference, series, files, verdict, bounds>>

\* Mutant: the last attempt is followed by another.
AttemptsLeft_OneMore == tries < Retries

AttemptsLeft == tries + 1 < Retries

\* A transient failure: get_json tries again while attempts are left.
PageFails ==
    /\ pc = "page"
    /\ failures < MaxFailures
    /\ failures' = failures + 1
    /\ \/ AttemptsLeft /\ tries' = tries + 1 /\ UNCHANGED pc
       \/ ~AttemptsLeft /\ tries' = 0 /\ pc' = "idle"
    /\ UNCHANGED <<exchange, window, reference, cursor, collected, series, files, verdict, crashes>>

\* A terminal status or an answer that is no list: MarketDataError at once.
PageRefused ==
    /\ pc = "page"
    /\ failures < MaxFailures
    /\ failures' = failures + 1
    /\ pc' = "idle" /\ tries' = 0
    /\ UNCHANGED <<exchange, window, reference, cursor, collected, series, files, verdict, crashes>>

\* collected[:max_bars] of the sorted bars. The runtime goes on with what it
\* fetched; a caller that asked for a window is any other importer of the client.
CutSeries ==
    /\ pc = "cut"
    /\ series' = OldestOf(collected, MaxBars)
    /\ pc' = IF window = Unbounded THEN "check" ELSE "idle"
    /\ UNCHANGED <<exchange, fetching, files, verdict, bounds>>

-----------------------------------------------------------------------------
(***************************************************************************)
(* AtlasService.fetch_market_data: validate, store, hand over              *)
(***************************************************************************)

\* validate_series: not empty, and every bar followed by the next one.
Contiguous(S) == \A b \in S : b = Max(S) \/ b + 1 \in S

Valid(S) == S # {} /\ Contiguous(S)

Validate ==
    /\ pc = "check"
    /\ pc' = IF Valid(series) THEN "open" ELSE "idle"
    /\ UNCHANGED <<exchange, fetching, series, files, verdict, bounds>>

\* KlineStore.save: the temporary file is opened, written, and moved.
OpenTmp ==
    /\ pc = "open"
    /\ tmp' = Half
    /\ pc' = "write"
    /\ UNCHANGED <<exchange, fetching, series, file, verdict, bounds>>

WriteTmp ==
    /\ pc = "write"
    /\ tmp' = series
    /\ pc' = "rename"
    /\ UNCHANGED <<exchange, fetching, series, file, verdict, bounds>>

ReplaceFile ==
    /\ pc = "rename"
    /\ file' = tmp /\ tmp' = None
    /\ pc' = "decide"
    /\ UNCHANGED <<exchange, fetching, series, verdict, bounds>>

-----------------------------------------------------------------------------
(***************************************************************************)
(* check_staleness, and the tick's use of it                               *)
(***************************************************************************)

\* The age of a bar in intervals is closed - b, the part of the current
\* interval that has gone by, which may be none, and what the clock is off.
MayBeStale(b) == closed + Lead >= b + Tolerance
MayBeFresh(b) == closed <= b + Tolerance + Lag

Decide ==
    /\ pc = "decide"
    /\ \E stale \in BOOLEAN :
          /\ IF stale THEN MayBeStale(Max(series)) ELSE MayBeFresh(Max(series))
          /\ verdict' = [bar |-> Max(series), seen |-> reference, stale |-> stale]
    /\ pc' = "idle"
    /\ UNCHANGED <<exchange, fetching, series, files, bounds>>

\* The process dies: what it held in memory is gone, the files stay.
Crash ==
    /\ pc # "idle"
    /\ crashes < MaxCrashes
    /\ crashes' = crashes + 1
    /\ pc' = "idle" /\ tries' = 0 /\ collected' = {} /\ series' = {} /\ cursor' = None
    /\ UNCHANGED <<exchange, window, reference, files, verdict, failures>>

-----------------------------------------------------------------------------
Init ==
    /\ closed \in 0..LastBar
    /\ absent \in SUBSET (1..LastBar)
    /\ pc = "idle"
    /\ window = Unbounded /\ reference = 0 /\ cursor = None /\ collected = {} /\ tries = 0
    /\ series = {} /\ tmp = None /\ file = None /\ verdict = NoVerdict
    /\ failures = 0 /\ crashes = 0

Fetch == StartFetch \/ GetPage \/ PageFails \/ PageRefused \/ CutSeries
Store == OpenTmp \/ WriteTmp \/ ReplaceFile
Caller == Fetch \/ Validate \/ Store \/ Decide

Next == BarCloses \/ Caller \/ Crash

Spec == Init /\ [][Next]_vars

\* The tick comes again; a bar need not close.
FairSpec == Spec /\ WF_vars(Caller)

-----------------------------------------------------------------------------
(***************************************************************************)
(* Properties                                                              *)
(***************************************************************************)

Bars == 1..LastBar + 1

\* Every variable has its type; a request is tried at most Retries times.
TypeOK ==
    /\ closed \in 0..LastBar /\ absent \subseteq 1..LastBar
    /\ pc \in {"idle", "page", "cut", "check", "open", "write", "rename", "decide"}
    /\ window \in Windows \cup {Unbounded}
    /\ reference \in 0..LastBar + Lead /\ cursor \in Nat \cup {None}
    /\ collected \subseteq Bars /\ tries \in 0..Retries - 1
    /\ series \subseteq Bars
    /\ tmp \in {None, Half} \cup SUBSET Bars /\ file \in {None, Half} \cup SUBSET Bars
    /\ verdict \in [bar : Bars \cup {None}, seen : (0..LastBar + Lead) \cup {None}, stale : BOOLEAN]
    /\ failures \in 0..MaxFailures /\ crashes \in 0..MaxCrashes

\* What a caller that names a start is promised: the first MaxBars closed bars of its window.
InWindow ==
    {b \in Published : /\ b >= window.start /\ b <= reference
                       /\ window.end = None \/ b <= window.end}

\* Whatever the pages were, how often they were retried and what closed in
\* between, paging from a start leaves out no bar of the window (fetch).
PagingLosesNothing ==
    pc = "cut" /\ window.start # None =>
        OldestOf(collected, MaxBars) = OldestOf(InWindow, MaxBars)

\* At every moment, whatever crashed, the cache is absent or a whole series
\* without a gap (KlineStore.save after require_valid_series).
CacheIsWhole == file # None => file # Half /\ file # {} /\ Contiguous(file)

\* No bar is stored before it has closed (DATA-02).
CacheHasClosed == file \notin {None, Half} => file \subseteq 1..closed

\* Both. The second half needs a local clock that is never ahead of the
\* exchange's: with Lead > 0 the fetch keeps the forming bar.
CacheIsSound == CacheIsWhole /\ CacheHasClosed

\* Entries are halted for old data only if the exchange had published no newer
\* closed bar when the fetch began (check_staleness, DATA-05).
StaleMeansOld ==
    verdict.stale => \A b \in Published : b > verdict.bar => b > verdict.seen

\* A fetch ends, with a series or an error.
FetchEnds == pc = "page" ~> pc # "page"
=============================================================================
