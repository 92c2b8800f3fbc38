----------------------------- MODULE PaperReplay -----------------------------
(***************************************************************************)
(* The paper session with its source of bars: AdvanceKLines asks a         *)
(* MarketData (session.go) for k-lines and advances them one by one.  The  *)
(* source is the fixtures of replay mode (replay.go) or, in paper mode,    *)
(* HTX itself (client.go), whose newest bar is still forming.  Both come   *)
(* in HTX's order, newest first, and are sorted by ParseKLines.            *)
(*                                                                         *)
(* A bar of every interval lasts one tick of the session's clock, bar k    *)
(* from tick k to tick k + 1, and HTX's clock is the session's.  Nothing   *)
(* else happens while a batch is being advanced: the session is confined   *)
(* to one goroutine and the batch is a snapshot.                           *)
(***************************************************************************)
EXTENDS PaperLifecycle

CONSTANTS
  Sources,  \* subset of {"replay", "paper"}
  Ranges,   \* the low and high a bar can start with
  Queries   \* the callers' options: [from, to, limit], 0 when absent

\* What a bar's range can grow into.
Grown == {[low |-> a.low, high |-> b.high] : a \in Ranges, b \in Ranges}

ASSUME SourceAssumption ==
  /\ MaxTime > 0
  /\ Sources \subseteq {"replay", "paper"}
  /\ Ranges \subseteq [low: Nat, high: Nat]
  /\ Queries \subseteq [from: Nat, to: Nat, limit: Nat]
  /\ \A s \in Symbols, i \in Intervals, k \in 1..MaxTime, r \in Grown :
       [symbol |-> s, interval |-> i, end |-> k, low |-> r.low, high |-> r.high] \in Bars

VARIABLES
  source,  \* the session's MarketData
  market,  \* [Symbols -> the range of each bar the source has, oldest first]
  batch    \* the call in progress: bars to advance, and those that were fresh

replayVars == <<vars, source, market, batch>>
NoBatch == [rest |-> {}, fresh |-> {}]

-----------------------------------------------------------------------------
(* The sources                                                             *)

\* Every bar a source has is given out as closed.
KLine(s, i, k) ==
  [symbol |-> s, interval |-> i, end |-> k, low |-> market[s][k].low, high |-> market[s][k].high]

InWindow(bar, options) ==
  /\ options.from > 0 => bar.end >= options.from
  /\ options.to > 0 => bar.end <= options.to

Older(bars, bar) == {other \in bars : other.end < bar.end}
Newer(bars, bar) == {other \in bars : other.end > bar.end}

\* Over the limit, fixtures give the oldest bars and HTX the newest.
QueryKLines(s, i, options) ==
  LET bars == {bar \in {KLine(s, i, k) : k \in DOMAIN market[s]} : InWindow(bar, options)}
      ahead(bar) == IF source = "replay" THEN Older(bars, bar) ELSE Newer(bars, bar)
  IN {bar \in bars : options.limit > 0 => Cardinality(ahead(bar)) < options.limit}

\* Mutant: the answer is advanced in the order HTX gives it.
NewestFirst(bars, bar) == bar \in bars /\ Newer(bars, bar) = {}

\* ParseKLines (and AddKLines) sort by start time.
OldestFirst(bars, bar) == bar \in bars /\ Older(bars, bar) = {}

Widened(a, b) ==
  [low |-> IF b.low < a.low THEN b.low ELSE a.low,
   high |-> IF b.high > a.high THEN b.high ELSE a.high]

-----------------------------------------------------------------------------
(* The session                                                             *)

BetweenCalls == batch = NoBatch

\* A source that fails or has no such bars leaves everything as it was.
AdvanceKLines(s, i, options) ==
  LET bars == QueryKLines(s, i, options)
  IN /\ BetweenCalls
     /\ call = Idle
     /\ bars # {}
     /\ batch' = [rest |-> bars, fresh |-> {bar \in bars : nextKLineCursor(bar)}]
     /\ UNCHANGED <<vars, source, market>>

StartBar(bar) ==
  /\ OldestFirst(batch.rest, bar)
  /\ AdvanceKLine(bar)
  /\ UNCHANGED <<source, market, batch>>

Without(bar) ==
  IF batch.rest = {bar} THEN NoBatch ELSE [batch EXCEPT !.rest = @ \ {bar}]

SkipBar(bar) ==
  /\ call = Idle
  /\ OldestFirst(batch.rest, bar)
  /\ ~nextKLineCursor(bar)
  /\ batch' = Without(bar)
  /\ UNCHANGED <<vars, source, market>>

FinishBar ==
  /\ markKLineProcessed
  /\ batch' = Without(call.bar)
  /\ UNCHANGED <<source, market>>

\* A fill error ends the call; the bars already advanced stay advanced.
FailBatch ==
  /\ \E id \in OrderIds : AbandonBar(id)
  /\ batch' = NoBatch
  /\ UNCHANGED <<source, market>>

CancelBatch ==
  /\ call = Idle
  /\ batch.rest # {}
  /\ batch' = NoBatch
  /\ UNCHANGED <<vars, source, market>>

-----------------------------------------------------------------------------
(* The rest                                                                *)

\* Time passes; HTX starts a bar, fixtures already have it.
NextTick ==
  /\ BetweenCalls
  /\ Tick
  /\ \/ /\ source = "replay"
        /\ UNCHANGED market
     \/ /\ source = "paper"
        /\ \E start \in [Symbols -> Ranges] :
             market' = [s \in Symbols |-> Append(market[s], start[s])]
  /\ UNCHANGED <<source, batch>>

Moved(s, r) == [market[s] EXCEPT ![now] = Widened(@, r)]

\* The price moves while the newest bar forms (external).
PriceMoves(s) ==
  /\ BetweenCalls
  /\ source = "paper"
  /\ \E r \in Ranges : market' = [market EXCEPT ![s] = Moved(s, r)]
  /\ UNCHANGED <<vars, source, batch>>

PlaceOrCancel ==
  /\ BetweenCalls
  /\ \/ \E order \in Orders : SubmitOrder(order)
     \/ \E id \in OrderIds : CancelOrder(id)
  /\ UNCHANGED <<source, market, batch>>

VisitOrder ==
  /\ \E id \in OrderIds : SkipOrder(id) \/ fillOrder(id)
  /\ UNCHANGED <<source, market, batch>>

ReplayInit ==
  /\ Init
  /\ source \in Sources
  /\ market \in [Symbols -> [1..(IF source = "replay" THEN MaxTime ELSE 1) -> Ranges]]
  /\ batch = NoBatch

ReplayNext ==
  \/ \E s \in Symbols, i \in Intervals, options \in Queries : AdvanceKLines(s, i, options)
  \/ \E bar \in batch.rest : StartBar(bar) \/ SkipBar(bar)
  \/ VisitOrder \/ FinishBar \/ FailBatch \/ CancelBatch
  \/ PlaceOrCancel \/ NextTick
  \/ \E s \in Symbols : PriceMoves(s)

ReplaySpec == ReplayInit /\ [][ReplayNext]_replayVars

-----------------------------------------------------------------------------
(* Properties                                                              *)

\* What a call without an error was given, it has advanced: no order that one
\* of the bars crosses is left working, unless the bar had been advanced
\* before the call.  HTX answers newest first, and a cursor that has moved
\* past a bar never comes back to it (AdvanceKLines, ParseKLines, nextKLineCursor).
AdvancedBarsLeaveNoCrossingOrder ==
  [][/\ FinishBar \/ \E bar \in batch.rest : SkipBar(bar)
     /\ batch' = NoBatch
     => \A bar \in batch.fresh : \A id \in WorkingOn(bar.symbol)' :
          ~FillableBy(orders'[id], bar)]_replayVars

\* Orders fill on bars that have closed: "full fills on crossed closed klines"
\* (docs/okr33-kr4-htx-paper-slice.md).  In paper mode the forming bar is given
\* out as closed (KLineEntry.KLine) and nextKLineCursor lets it pass; when it
\* has closed with a wider range, the cursor is already past it.
FillsOnClosedBarsOnly ==
  [][\A id \in OrderIds : trades'[id] # trades[id] => call.bar.end < now]_replayVars
=============================================================================
