------------------------- MODULE DecisionLoopProofs -------------------------
(***************************************************************************)
(* Proofs about the decision cycle, for any number of sessions, chats,     *)
(* answers, retries and events.  The types come first; what the loop has   *)
(* told the agent rests on where an event can be on its way through the    *)
(* callbacks, and on every sender numbering its events upwards.            *)
(***************************************************************************)
EXTENDS DecisionLoop, FoldTheorems

-----------------------------------------------------------------------------
(* Types                                                                   *)

Fields == {"pc", "session", "retry", "answer", "todo", "done", "buf", "cycle"}

\* k is a control state process p may be in while the window is w.
GoodControl(p, k, w) ==
  /\ DOMAIN k = Fields
  /\ k.pc \in AgentPcs \cup (IF p = Loop THEN LoopPcs ELSE {"idle"})
  /\ k.session \in IF p = Loop THEN Sessions ELSE {ChatSession[p]}
  /\ k.retry \in 0..MaxRetryTime
  /\ k.answer \in Answers \cup {NoAnswer}
  /\ k.todo \in Seq(Command) /\ k.done \in SUBSET Nat
  /\ k.buf \in Seq(Events)
  /\ k.cycle \in 0..w

Order == [type: {"open_limit", "open_market", "close"}, by: Procs, cycle: Nat]

ControlsOK ==
  /\ window \in 0..MaxKlines
  /\ DOMAIN proc = Procs
  /\ \A p \in Procs : GoodControl(p, proc[p], window)

ChannelOK ==
  /\ sends \in [Senders -> Seq(Events)]
  /\ event \in Events
  /\ heard \subseteq Events
  /\ round \in Nat
  /\ outside \in [closes: Nat, news: Nat, chats: Nat]

InboxOK ==
  /\ msgs \in [AllSessions -> Seq(Events)]
  /\ klineSet \in [AllSessions -> BOOLEAN]
  /\ posMsg \in [AllSessions -> 0..window]
  /\ shown \in [AllSessions -> SUBSET Events]

StoreOK == pending \in Seq(Command) /\ scheduled \in Nat

MarketOK ==
  /\ orders \subseteq Order
  /\ failed \subseteq 1..window
  /\ position \in {"flat", "open"}

StateOK == ControlsOK /\ ChannelOK /\ InboxOK /\ StoreOK /\ MarketOK

LEMMA StateOKIsTypeOK == StateOK => TypeOK
BY DEF StateOK, ControlsOK, ChannelOK, InboxOK, StoreOK, MarketOK, TypeOK, GoodControl

\* What the names of the processes and the types of the events are.
LEMMA Names ==
  /\ Loop \in Procs /\ Loop \in Senders /\ Procs \subseteq Senders
  /\ \A c \in Chats : c # Loop /\ c \in Procs
  /\ {"kline", "closed", "closeCycle", "news"} \subseteq Senders
  /\ {"kline", "closed", "closeCycle", "news"} \cap Procs = {}
BY LoopAssumption DEF Loop, Procs, Senders

LEMMA SessionNumbers ==
  /\ 1 \in Sessions /\ Sessions \subseteq Nat /\ Sessions \subseteq AllSessions
  /\ AllSessions \subseteq Nat
  /\ \A c \in Chats : ChatSession[c] \in AllSessions
BY LoopAssumption DEF Sessions, AllSessions

LEMMA GoodSession ==
  ASSUME NEW p \in Procs, NEW k, NEW w, GoodControl(p, k, w)
  PROVE  k.session \in AllSessions
BY SessionNumbers DEF GoodControl, Procs

LEMMA EventTyped ==
  ASSUME NEW t \in EventTypes, NEW g \in Senders \cup {"none", "agent"}, NEW n \in Nat
  PROVE  Event(t, g, n) \in Events
BY DEF Event, Events

LEMMA KnownTypes ==
  /\ {"kline_changed", "indicator_changed", "position_closed", "news_changed",
      "position_changed", "update_finish", "none", "reminder"} \subseteq EventTypes
BY DEF EventTypes, NewsTypes

LEMMA CycleTyped ==
  ASSUME NEW g \in Senders, NEW n \in Nat
  PROVE  /\ CycleEvents(g, n) \in Seq(Events)
         /\ Len(CycleEvents(g, n)) = 4
         /\ CycleEvents(g, n)[1] = Event("kline_changed", g, n)
         /\ CycleEvents(g, n)[2] = Event("indicator_changed", g, n)
         /\ CycleEvents(g, n)[3] = Event("position_changed", g, n)
         /\ CycleEvents(g, n)[4] = Event("update_finish", g, n)
<1> DEFINE a == Event("kline_changed", g, n)
           b == Event("indicator_changed", g, n)
           c == Event("position_changed", g, n)
           d == Event("update_finish", g, n)
<1>1. a \in Events /\ b \in Events /\ c \in Events /\ d \in Events
  BY KnownTypes, EventTyped
<1>2. CycleEvents(g, n) = <<a, b, c, d>>
  BY DEF CycleEvents
<1> HIDE DEF a, b, c, d
<1>3. /\ <<a, b, c, d>> \in Seq(Events) /\ Len(<<a, b, c, d>>) = 4
      /\ <<a, b, c, d>>[1] = a /\ <<a, b, c, d>>[2] = b
      /\ <<a, b, c, d>>[3] = c /\ <<a, b, c, d>>[4] = d
  BY <1>1
<1>4. QED
  BY <1>2, <1>3 DEF a, b, c, d

LEMMA IdleGood ==
  ASSUME NEW p \in Procs, NEW w \in Nat PROVE GoodControl(p, Idle(p), w)
<1>1. ChatSession \in [Chats -> Nat \ {0}] /\ MaxRetryTime \in Nat
  BY LoopAssumption
<1>2. <<>> \in Seq(Command) /\ <<>> \in Seq(Events)
  OBVIOUS
<1>3. QED
  BY <1>1, <1>2, SessionNumbers
     DEF GoodControl, Fields, Idle, AgentPcs, LoopPcs, Procs, Loop

\* A control state changed in its counter, its step or its answer.
LEMMA GoodStep ==
  ASSUME NEW p \in Procs, NEW w \in Nat, NEW k, GoodControl(p, k, w),
         NEW pc \in AgentPcs \cup (IF p = Loop THEN LoopPcs ELSE {"idle"})
  PROVE  /\ GoodControl(p, [k EXCEPT !.pc = pc], w)
         /\ \A r \in 0..MaxRetryTime : GoodControl(p, [k EXCEPT !.pc = pc, !.retry = r], w)
         /\ \A a \in Answers : GoodControl(p, [k EXCEPT !.pc = pc, !.answer = a], w)
         /\ \A a \in Answers, b \in Seq(Events) :
              GoodControl(p, [k EXCEPT !.pc = pc, !.answer = a, !.buf = b], w)
         /\ \A b \in Seq(Events) : GoodControl(p, [k EXCEPT !.pc = pc, !.buf = b], w)
         /\ \A t \in Seq(Command) : GoodControl(p, [k EXCEPT !.pc = pc, !.todo = t], w)
         /\ \A t \in Seq(Command), d \in SUBSET Nat :
              GoodControl(p, [k EXCEPT !.todo = t, !.done = d], w)
BY DEF GoodControl, Fields

LEMMA NextSessionGood ==
  ASSUME ControlsOK PROVE GoodControl(Loop, NextSession, window)
<1>1. /\ GoodControl(Loop, proc[Loop], window) /\ window \in Nat
  BY Names, LoopAssumption DEF ControlsOK
<1>2. GoodControl(Loop, Idle(Loop), window)
  BY <1>1, Names, IdleGood
<1>3. CASE Session(Loop) < NumSessions
  <2>1. Session(Loop) + 1 \in Sessions /\ Session(Loop) + 1 \in Nat
    <3>1. proc[Loop].session \in Sessions
      BY <1>1 DEF GoodControl
    <3>2. NumSessions \in Nat
      BY LoopAssumption
    <3>3. QED
      BY <1>3, <3>1, <3>2 DEF Session, Sessions
  <2>2. FirstStep(event) \in LoopPcs
    BY DEF FirstStep, LoopPcs
  <2>3. window \in 0..window
    BY <1>1
  <2> DEFINE s == Session(Loop) + 1
             pc == FirstStep(event)
  <2>4. NextSession = [Idle(Loop) EXCEPT !.pc = pc, !.session = s, !.cycle = window]
    BY <1>3 DEF NextSession
  <2> HIDE DEF s, pc
  <2>5. QED
    <3>1. s \in Sessions /\ pc \in LoopPcs
      BY <2>1, <2>2 DEF s, pc
    <3>2. QED
      <4> DEFINE k == [Idle(Loop) EXCEPT !.pc = pc, !.session = s, !.cycle = window]
      <4>1. DOMAIN Idle(Loop) = Fields
        BY <1>2 DEF GoodControl
      <4>2. /\ DOMAIN k = Fields /\ k.pc = pc /\ k.session = s /\ k.cycle = window
            /\ k.retry = Idle(Loop).retry /\ k.answer = Idle(Loop).answer /\ k.todo = Idle(Loop).todo
            /\ k.done = Idle(Loop).done /\ k.buf = Idle(Loop).buf
        BY <4>1 DEF Fields
      <4> HIDE DEF k
      <4>3. GoodControl(Loop, k, window)
        BY <1>2, <2>3, <3>1, <4>2 DEF GoodControl
      <4>4. QED
        BY <2>4, <4>3 DEF k
<1>4. CASE ~(Session(Loop) < NumSessions)
  BY <1>2, <1>4 DEF NextSession
<1>5. QED
  BY <1>3, <1>4

LEMMA AfterActionGood ==
  ASSUME ControlsOK, NEW p \in Procs PROVE GoodControl(p, AfterAction(p), window)
<1>1. GoodControl(p, proc[p], window) /\ window \in Nat
  BY LoopAssumption DEF ControlsOK
<1>2. GoodControl(p, Idle(p), window)
  BY <1>1, IdleGood
<1>3. p = Loop => GoodControl(p, [proc[p] EXCEPT !.pc = "finish"], window)
  <2>1. p = Loop => "finish" \in AgentPcs \cup (IF p = Loop THEN LoopPcs ELSE {"idle"})
    BY DEF LoopPcs
  <2>2. QED
    BY <1>1, <2>1, GoodStep
<1>4. QED
  BY <1>2, <1>3 DEF AfterAction

LEMMA RetryGood ==
  ASSUME ControlsOK, NEW p \in Procs PROVE GoodControl(p, Retry(p), window)
<1>1. GoodControl(p, proc[p], window) /\ window \in Nat
  BY LoopAssumption DEF ControlsOK
<1>2. CASE proc[p].retry > 0
  <2>1. proc[p].retry - 1 \in 0..MaxRetryTime /\ "generate" \in AgentPcs
    BY <1>1, <1>2, LoopAssumption, SMTT(30) DEF GoodControl, AgentPcs
  <2>2. GoodControl(p, [proc[p] EXCEPT !.pc = "generate", !.retry = proc[p].retry - 1], window)
    <3>1. "generate" \in AgentPcs \cup (IF p = Loop THEN LoopPcs ELSE {"idle"})
      BY <2>1
    <3>2. QED
      BY <1>1, <2>1, <3>1, GoodStep
  <2>3. QED
    BY <1>2, <2>2 DEF Retry
<1>3. CASE ~(proc[p].retry > 0)
  BY <1>3, AfterActionGood DEF Retry
<1>4. QED
  BY <1>2, <1>3

\* One process moves to a good control state, while the window may grow.
LEMMA OneMoves ==
  ASSUME ControlsOK, NEW p \in Procs, NEW k, window' \in 0..MaxKlines, window <= window',
         GoodControl(p, k, window'), proc' = [proc EXCEPT ![p] = k]
  PROVE  ControlsOK'
<1>1. window \in Nat /\ window' \in Nat /\ MaxKlines \in Nat
  BY LoopAssumption DEF ControlsOK
<1>2. ASSUME NEW q \in Procs PROVE GoodControl(q, proc'[q], window')
  <2>1. CASE q = p
    BY <2>1 DEF ControlsOK
  <2>2. CASE q # p
    <3>1. proc'[q] = proc[q] /\ GoodControl(q, proc[q], window)
      BY <2>2 DEF ControlsOK
    <3>2. QED
      BY <1>1, <3>1 DEF GoodControl
  <2>3. QED
    BY <2>1, <2>2
<1>3. DOMAIN proc' = Procs
  BY DEF ControlsOK
<1>4. QED
  BY <1>2, <1>3 DEF ControlsOK

LEMMA NoneMoves ==
  ASSUME ControlsOK, UNCHANGED proc, window' \in 0..MaxKlines, window <= window'
  PROVE  ControlsOK'
<1>1. window \in Nat /\ window' \in Nat
  BY LoopAssumption DEF ControlsOK
<1>2. ASSUME NEW q \in Procs PROVE GoodControl(q, proc'[q], window')
  <2>1. proc'[q] = proc[q] /\ GoodControl(q, proc[q], window)
    BY DEF ControlsOK
  <2>2. QED
    BY <1>1, <2>1 DEF GoodControl
<1>3. QED
  BY <1>2 DEF ControlsOK

LEMMA StartsTyped == Init => StateOK
<1> SUFFICES ASSUME Init PROVE StateOK
  OBVIOUS
<1>1. ControlsOK
  <2>1. window = 0 /\ 0 \in Nat /\ 0 \in 0..MaxKlines
    BY LoopAssumption DEF Init
  <2>2. DOMAIN proc = Procs /\ \A p \in Procs : proc[p] = Idle(p)
    BY DEF Init
  <2>3. QED
    BY <2>1, <2>2, IdleGood DEF ControlsOK
<1>2. ChannelOK
  <2>1. NoEvent \in Events
    BY KnownTypes, EventTyped DEF NoEvent
  <2>2. QED
    BY <2>1 DEF Init, ChannelOK
<1>3. InboxOK
  BY DEF Init, InboxOK
<1>4. StoreOK /\ MarketOK
  BY DEF Init, StoreOK, MarketOK
<1>5. QED
  BY <1>1, <1>2, <1>3, <1>4 DEF StateOK

\* The window never shrinks, so that what was in order stays in order.
LEMMA InboxStays ==
  ASSUME InboxOK, window \in Nat, window' \in Nat, window <= window', UNCHANGED <<inbox, shown>>
  PROVE  InboxOK'
<1>1. \A s \in AllSessions : posMsg[s] \in 0..window'
  BY DEF InboxOK
<1>2. QED
  BY <1>1 DEF InboxOK, inbox

LEMMA WindowTyped == ASSUME StateOK PROVE window \in Nat /\ window \in 0..MaxKlines /\ window <= window
BY LoopAssumption DEF StateOK, ControlsOK

LEMMA KLineTyped == ASSUME StateOK, KLineClosed PROVE StateOK'
<1>1. window \in Nat /\ window' = window + 1 /\ window' \in Nat /\ window' \in 0..MaxKlines
  BY WindowTyped, LoopAssumption DEF KLineClosed
<1>2. ControlsOK'
  BY <1>1, NoneMoves DEF StateOK, KLineClosed
<1>3. ChannelOK'
  <2>1. sends["kline"] \o CycleEvents("kline", window') \in Seq(Events)
    BY <1>1, CycleTyped, Names DEF StateOK, ChannelOK
  <2>2. QED
    BY <2>1 DEF StateOK, ChannelOK, KLineClosed
<1>4. InboxOK'
  BY <1>1, InboxStays DEF StateOK, KLineClosed
<1>5. StoreOK'
  BY DEF StateOK, StoreOK, KLineClosed, store
<1>6. MarketOK'
  <2>1. orders' \subseteq orders /\ failed' \subseteq failed \cup {window'} /\ position' = position
    BY DEF KLineClosed, Cleaned
  <2>2. failed' \subseteq 1..window'
    BY <1>1, <2>1 DEF StateOK, MarketOK
  <2>3. QED
    BY <2>1, <2>2 DEF StateOK, MarketOK
<1>7. QED
  BY <1>2, <1>3, <1>4, <1>5, <1>6 DEF StateOK

LEMMA OpensTyped == ASSUME StateOK, NEW o \in orders, PositionOpens(o) PROVE StateOK'
<1>1. ControlsOK' /\ InboxOK'
  BY WindowTyped, NoneMoves, InboxStays DEF StateOK, PositionOpens
<1>2. ChannelOK' /\ StoreOK' /\ MarketOK'
  BY DEF StateOK, PositionOpens, ChannelOK, StoreOK, MarketOK, store
<1>3. QED
  BY <1>1, <1>2 DEF StateOK

LEMMA ClosesTyped == ASSUME StateOK, PositionCloses PROVE StateOK'
<1>1. ControlsOK' /\ InboxOK'
  BY WindowTyped, NoneMoves, InboxStays DEF StateOK, PositionCloses
<1>2. outside' \in [closes: Nat, news: Nat, chats: Nat]
  BY DEF StateOK, ChannelOK, PositionCloses
<1>3. ChannelOK'
  <2> DEFINE a == <<Event("position_closed", "closed", outside'.closes)>>
             b == IF HandlePositionClose THEN CycleEvents("closeCycle", outside'.closes) ELSE <<>>
  <2>1. a \in Seq(Events)
    <3>1. Event("position_closed", "closed", outside'.closes) \in Events
      BY <1>2, KnownTypes, Names, EventTyped
    <3>2. QED
      BY <3>1
  <2>2. b \in Seq(Events)
    BY <1>2, CycleTyped, Names
  <2>3. sends' = [sends EXCEPT !["closed"] = a, !["closeCycle"] = b]
    BY DEF PositionCloses
  <2> HIDE DEF a, b
  <2>4. sends' \in [Senders -> Seq(Events)]
    BY <2>1, <2>2, <2>3 DEF StateOK, ChannelOK
  <2>5. QED
    BY <1>2, <2>4 DEF StateOK, ChannelOK, PositionCloses
<1>4. StoreOK' /\ MarketOK'
  BY DEF StateOK, PositionCloses, StoreOK, MarketOK, store
<1>5. QED
  BY <1>1, <1>3, <1>4 DEF StateOK

LEMMA NewsTyped == ASSUME StateOK, NewsArrives PROVE StateOK'
<1>1. ControlsOK' /\ InboxOK'
  BY WindowTyped, NoneMoves, InboxStays DEF StateOK, NewsArrives
<1>2. outside' \in [closes: Nat, news: Nat, chats: Nat]
  BY DEF StateOK, ChannelOK, NewsArrives
<1>3. ChannelOK'
  <2> DEFINE a == <<Event("news_changed", "news", outside'.news)>>
  <2>1. a \in Seq(Events)
    <3>1. Event("news_changed", "news", outside'.news) \in Events
      BY <1>2, KnownTypes, Names, EventTyped
    <3>2. QED
      BY <3>1
  <2>2. sends' = [sends EXCEPT !["news"] = a]
    BY DEF NewsArrives
  <2> HIDE DEF a
  <2>3. QED
    BY <1>2, <2>1, <2>2 DEF StateOK, ChannelOK, NewsArrives
<1>4. StoreOK' /\ MarketOK'
  BY DEF StateOK, NewsArrives, StoreOK, MarketOK, store, market
<1>5. QED
  BY <1>1, <1>3, <1>4 DEF StateOK

LEMMA ChatTyped == ASSUME StateOK, NEW c \in Chats, ChatMessage(c) PROVE StateOK'
<1>1. ControlsOK'
  <2> DEFINE k == [Idle(c) EXCEPT !.pc = "generate", !.retry = MaxRetryTime, !.cycle = window]
  <2>1. GoodControl(c, Idle(c), window) /\ c \in Procs
    BY Names, WindowTyped, IdleGood
  <2>2. MaxRetryTime \in 0..MaxRetryTime /\ window \in 0..window /\ "generate" \in AgentPcs
    BY WindowTyped, LoopAssumption DEF AgentPcs
  <2>3. GoodControl(c, k, window)
    BY <2>1, <2>2 DEF GoodControl, Fields
  <2>4. proc' = [proc EXCEPT ![c] = k] /\ window' = window
    BY DEF ChatMessage
  <2> HIDE DEF k
  <2>5. QED
    BY <2>1, <2>3, <2>4, WindowTyped, OneMoves DEF StateOK
<1>2. InboxOK'
  BY WindowTyped, InboxStays DEF StateOK, ChatMessage
<1>3. ChannelOK' /\ StoreOK' /\ MarketOK'
  <2>1. ChannelOK'
    <3>1. outside' = [outside EXCEPT !.chats = @ + 1] /\ UNCHANGED <<sends, event, heard, round>>
      BY DEF ChatMessage
    <3>2. outside \in [closes: Nat, news: Nat, chats: Nat]
      BY DEF StateOK, ChannelOK
    <3>3. outside' \in [closes: Nat, news: Nat, chats: Nat]
      BY <3>1, <3>2
    <3>4. QED
      BY <3>1, <3>3 DEF StateOK, ChannelOK
  <2>2. StoreOK'
    BY DEF StateOK, ChatMessage, StoreOK, store
  <2>3. MarketOK'
    BY DEF StateOK, ChatMessage, MarketOK, market
  <2>4. QED
    BY <2>1, <2>2, <2>3
<1>4. QED
  BY <1>1, <1>2, <1>3 DEF StateOK

\* The event taken from a sender.
LEMMA HeadTyped ==
  ASSUME StateOK, NEW g \in Senders, sends[g] # <<>>
  PROVE  /\ Head(sends[g]) \in Events
         /\ Tail(sends[g]) \in Seq(Events)
         /\ Head(sends[g]) \in ToSet(sends[g])
<1>1. sends[g] \in Seq(Events)
  BY DEF StateOK, ChannelOK
<1>2. Len(sends[g]) \in Nat /\ DOMAIN sends[g] = 1..Len(sends[g]) /\ Len(sends[g]) # 0
  BY <1>1, LenProperties, EmptySeq
<1>3. 1 \in DOMAIN sends[g] /\ Head(sends[g]) = sends[g][1]
  BY <1>1, <1>2
<1>4. QED
  BY <1>1, <1>3, HeadTailProperties DEF ToSet

LEMMA ReceiveTyped == ASSUME StateOK, NEW g \in Senders, Receive(g) PROVE StateOK'
<1> DEFINE e == Head(sends[g])
<1>1. e \in Events /\ Tail(sends[g]) \in Seq(Events)
  BY HeadTyped DEF Receive
<1>2. ControlsOK'
  <2> DEFINE k == [Idle(Loop) EXCEPT !.pc = FirstStep(e), !.session = 1, !.cycle = window]
  <2>1. GoodControl(Loop, Idle(Loop), window)
    BY Names, WindowTyped, IdleGood
  <2>2. window \in 0..window /\ FirstStep(e) \in LoopPcs /\ 1 \in Sessions
    BY WindowTyped, SessionNumbers DEF LoopPcs, FirstStep
  <2>3. GoodControl(Loop, k, window)
    <3> DEFINE pc == FirstStep(e)
    <3> HIDE DEF pc
    <3>1. GoodControl(Loop, [Idle(Loop) EXCEPT !.pc = pc, !.session = 1, !.cycle = window], window)
      BY <2>1, <2>2 DEF GoodControl, Fields, pc
    <3>2. QED
      BY <3>1 DEF pc
  <2>4. window' = window /\ (proc' = [proc EXCEPT ![Loop] = k] \/ proc' = proc)
    BY DEF Receive
  <2> HIDE DEF k
  <2>5. QED
    BY <2>3, <2>4, WindowTyped, Names, OneMoves, NoneMoves DEF StateOK
<1>3. InboxOK'
  BY WindowTyped, InboxStays DEF StateOK, Receive
<1>4. ChannelOK'
  <2>1. sends' \in [Senders -> Seq(Events)]
    BY <1>1 DEF StateOK, ChannelOK, Receive
  <2>2. event' \in Events /\ heard' \subseteq Events /\ round' \in Nat /\ outside' = outside
    <3>1. (event' = e \/ event' = event) /\ heard' \subseteq heard \cup {e}
          /\ (round' = round \/ round' = round + 1) /\ outside' = outside
      BY DEF Receive
    <3> HIDE DEF e
    <3>2. QED
      BY <1>1, <3>1 DEF StateOK, ChannelOK
  <2>3. QED
    BY <2>1, <2>2 DEF StateOK, ChannelOK
<1>5. StoreOK' /\ MarketOK'
  BY DEF StateOK, Receive, StoreOK, MarketOK, store, market
<1>6. QED
  BY <1>2, <1>3, <1>4, <1>5 DEF StateOK

LEMMA LoopTyped == ASSUME StateOK
  PROVE  /\ GoodControl(Loop, proc[Loop], window) /\ Session(Loop) \in AllSessions
         /\ Session(Loop) \in Sessions /\ msgs[Session(Loop)] \in Seq(Events)
<1>1. GoodControl(Loop, proc[Loop], window)
  BY Names DEF StateOK, ControlsOK
<1>2. Session(Loop) \in Sessions
  BY <1>1 DEF GoodControl, Session
<1>3. QED
  BY <1>1, <1>2, SessionNumbers DEF StateOK, InboxOK

\* A step of the loop that leaves the channel, the store and the market alone.
LEMMA LoopMoveTyped ==
  ASSUME StateOK, NEW k, GoodControl(Loop, k, window), proc' = [proc EXCEPT ![Loop] = k],
         UNCHANGED <<window, sends, event, round, outside, heard>>
  PROVE  ControlsOK' /\ ChannelOK'
<1>1. ControlsOK'
  BY Names, WindowTyped, OneMoves DEF StateOK
<1>2. ChannelOK'
  BY DEF StateOK, ChannelOK
<1>3. QED
  BY <1>1, <1>2

LEMMA PositionTyped == ASSUME StateOK, HandlePositionChanged PROVE StateOK'
<1>1. ControlsOK' /\ ChannelOK'
  BY NextSessionGood, LoopMoveTyped DEF StateOK, HandlePositionChanged
<1>2. InboxOK'
  <2>1. window \in 0..window /\ window' = window
    BY WindowTyped DEF HandlePositionChanged
  <2>2. posMsg' \in [AllSessions -> 0..window]
    BY <2>1 DEF StateOK, InboxOK, HandlePositionChanged
  <2>3. QED
    BY <2>1, <2>2 DEF StateOK, InboxOK, HandlePositionChanged
<1>3. StoreOK' /\ MarketOK'
  BY DEF StateOK, HandlePositionChanged, StoreOK, MarketOK, store, market
<1>4. QED
  BY <1>1, <1>2, <1>3 DEF StateOK

LEMMA HandleTyped == ASSUME StateOK, HandleNews PROVE StateOK'
<1>1. ControlsOK' /\ ChannelOK'
  <2> DEFINE k == [proc[Loop] EXCEPT !.pc = "stash", !.buf = msgs[Session(Loop)]]
  <2>1. GoodControl(Loop, k, window)
    <3>1. "stash" \in LoopPcs
      BY DEF LoopPcs
    <3>2. QED
      BY <3>1, LoopTyped, WindowTyped, Names, GoodStep
  <2>2. proc' = [proc EXCEPT ![Loop] = k]
    BY DEF StateOK, ControlsOK, HandleNews
  <2> HIDE DEF k
  <2>3. QED
    BY <2>1, <2>2, LoopMoveTyped DEF HandleNews
<1>2. InboxOK' /\ StoreOK' /\ MarketOK'
  BY DEF StateOK, InboxOK, HandleNews, StoreOK, MarketOK, store, market
<1>3. QED
  BY <1>1, <1>2 DEF StateOK

LEMMA StashTyped == ASSUME StateOK, stashMsg PROVE StateOK'
<1>1. ControlsOK' /\ ChannelOK'
  BY NextSessionGood, LoopMoveTyped DEF StateOK, stashMsg
<1>2. InboxOK'
  <2>1. proc[Loop].buf \in Seq(Events) /\ event \in Events
    BY LoopTyped DEF GoodControl, StateOK, ChannelOK
  <2> DEFINE b == Append(proc[Loop].buf, event)
  <2>2. b \in Seq(Events)
    BY <2>1
  <2>3. msgs' = [msgs EXCEPT ![Session(Loop)] = b]
    BY DEF stashMsg
  <2> HIDE DEF b
  <2>4. QED
    BY <2>2, <2>3 DEF StateOK, InboxOK, stashMsg
<1>3. StoreOK' /\ MarketOK'
  BY DEF StateOK, stashMsg, StoreOK, MarketOK, store, market
<1>4. QED
  BY <1>1, <1>2, <1>3 DEF StateOK

LEMMA LoadTyped == ASSUME StateOK, LoadCommands PROVE StateOK'
<1>1. ControlsOK' /\ ChannelOK'
  <2> DEFINE pc == IF pending = <<>> THEN "prompt" ELSE "commands"
             k == [proc[Loop] EXCEPT !.pc = pc, !.todo = pending]
  <2>1. GoodControl(Loop, k, window)
    <3>1. pc \in LoopPcs /\ pending \in Seq(Command)
      BY DEF LoopPcs, StateOK, StoreOK
    <3> HIDE DEF pc
    <3>2. QED
      BY <3>1, LoopTyped, WindowTyped, Names, GoodStep
  <2>2. proc' = [proc EXCEPT ![Loop] = k]
    BY DEF StateOK, ControlsOK, LoadCommands
  <2> HIDE DEF k
  <2>3. QED
    BY <2>1, <2>2, LoopMoveTyped DEF LoadCommands
<1>2. InboxOK' /\ StoreOK' /\ MarketOK'
  BY DEF StateOK, InboxOK, LoadCommands, StoreOK, MarketOK, store, market, inbox
<1>3. QED
  BY <1>1, <1>2 DEF StateOK

LEMMA SaveTyped == ASSUME StateOK, SaveStatuses PROVE StateOK'
<1>1. ControlsOK' /\ ChannelOK'
  <2> DEFINE k == [proc[Loop] EXCEPT !.pc = "prompt"]
  <2>1. GoodControl(Loop, k, window)
    <3>1. "prompt" \in LoopPcs
      BY DEF LoopPcs
    <3>2. QED
      BY <3>1, LoopTyped, WindowTyped, Names, GoodStep
  <2>2. proc' = [proc EXCEPT ![Loop] = k]
    BY DEF StateOK, ControlsOK, SaveStatuses, Goto
  <2> HIDE DEF k
  <2>3. QED
    BY <2>1, <2>2, LoopMoveTyped DEF SaveStatuses
<1>2. StoreOK'
  <2> DEFINE w == {c \in ToSet(pending) : c.id \notin proc[Loop].done}
  <2>1. pending \in Seq(Command)
    BY DEF StateOK, StoreOK
  <2>2. pending' = Keep(pending, w) \/ pending' = pending
    BY DEF SaveStatuses
  <2> HIDE DEF w
  <2>3. QED
    BY <2>1, <2>2, KeepKeeps DEF StateOK, StoreOK, SaveStatuses
<1>3. InboxOK' /\ MarketOK'
  BY DEF StateOK, InboxOK, SaveStatuses, MarketOK, market, inbox
<1>4. QED
  BY <1>1, <1>2, <1>3 DEF StateOK

LEMMA NothingTyped == ASSUME StateOK, NothingToDecide PROVE StateOK'
<1>1. ControlsOK' /\ ChannelOK'
  <2> DEFINE k == [proc[Loop] EXCEPT !.pc = "finish"]
  <2>1. GoodControl(Loop, k, window)
    <3>1. "finish" \in LoopPcs
      BY DEF LoopPcs
    <3>2. QED
      BY <3>1, LoopTyped, WindowTyped, Names, GoodStep
  <2>2. proc' = [proc EXCEPT ![Loop] = k]
    BY DEF StateOK, ControlsOK, NothingToDecide, Goto
  <2> HIDE DEF k
  <2>3. QED
    BY <2>1, <2>2, LoopMoveTyped DEF NothingToDecide
<1>2. InboxOK' /\ StoreOK' /\ MarketOK'
  BY DEF StateOK, InboxOK, NothingToDecide, StoreOK, MarketOK, store, market, inbox
<1>3. QED
  BY <1>1, <1>2 DEF StateOK

LEMMA RenderTyped == ASSUME StateOK, RenderFails PROVE StateOK'
<1>1. ControlsOK' /\ ChannelOK'
  BY NextSessionGood, LoopMoveTyped DEF StateOK, RenderFails
<1>2. InboxOK' /\ StoreOK' /\ MarketOK'
  BY DEF StateOK, InboxOK, RenderFails, StoreOK, MarketOK, store, market, inbox
<1>3. QED
  BY <1>1, <1>2 DEF StateOK

LEMMA StartTyped == ASSUME StateOK, StartDecision PROVE StateOK'
<1>1. ControlsOK' /\ ChannelOK'
  <2> DEFINE k == [proc[Loop] EXCEPT !.pc = "generate", !.retry = MaxRetryTime]
  <2>1. GoodControl(Loop, k, window)
    <3>1. "generate" \in AgentPcs /\ MaxRetryTime \in 0..MaxRetryTime
      BY LoopAssumption DEF AgentPcs
    <3>2. QED
      BY <3>1, LoopTyped, WindowTyped, Names, GoodStep
  <2>2. proc' = [proc EXCEPT ![Loop] = k]
    BY DEF StateOK, ControlsOK, StartDecision
  <2> HIDE DEF k
  <2>3. QED
    BY <2>1, <2>2, LoopMoveTyped DEF StartDecision
<1>2. InboxOK'
  <2>1. ToSet(msgs[Session(Loop)]) \subseteq Events
    BY LoopTyped, ElementOfSeq DEF ToSet
  <2>2. shown' \in [AllSessions -> SUBSET Events]
    BY <2>1 DEF StateOK, InboxOK, StartDecision
  <2>3. QED
    BY <2>2 DEF StateOK, InboxOK, StartDecision, inbox
<1>3. StoreOK' /\ MarketOK'
  BY DEF StateOK, InboxOK, StartDecision, StoreOK, MarketOK, store, market
<1>4. QED
  BY <1>1, <1>2, <1>3 DEF StateOK

LEMMA FinishTyped == ASSUME StateOK, FinishDecision PROVE StateOK'
<1>1. ControlsOK' /\ ChannelOK'
  BY NextSessionGood, LoopMoveTyped DEF StateOK, FinishDecision
<1>2. InboxOK'
  <2>1. <<>> \in Seq(Events)
    OBVIOUS
  <2>2. QED
    BY <2>1 DEF StateOK, InboxOK, FinishDecision
<1>3. StoreOK' /\ MarketOK'
  BY DEF StateOK, FinishDecision, StoreOK, MarketOK, store, market
<1>4. QED
  BY <1>1, <1>2, <1>3 DEF StateOK

\* What a command may submit.
LEMMA OrdersTyped ==
  ASSUME StateOK, NEW p \in Procs, NEW name
  PROVE  /\ name \in Trades => \A new \in Submitted(p, name) : new \subseteq Order
         /\ \A new \in SubmittedOnError(p, name) : new \subseteq Order
<1>1. \A t \in {"open_limit", "open_market", "close"} : NewOrder(p, t) \in Order
  <2>1. proc[p].cycle \in Nat
    <3>1. GoodControl(p, proc[p], window) /\ window \in Nat
      BY WindowTyped DEF StateOK, ControlsOK
    <3>2. QED
      BY <3>1 DEF GoodControl
  <2>2. QED
    BY <2>1 DEF NewOrder, Order
<1>2. ASSUME name \in Trades, NEW new \in Submitted(p, name) PROVE new \subseteq Order
  <2>1. name \in {"open_limit", "open_market", "close_position", "no_action"}
    BY <1>2 DEF Trades
  <2>2. name \notin {"no_action", "close_position"} => NewOrder(p, name) \in Order
    BY <1>1, <2>1
  <2>3. NewOrder(p, "close") \in Order
    BY <1>1
  <2>4. CASE name = "no_action"
    BY <1>2, <2>4 DEF Submitted
  <2>5. CASE name = "close_position"
    BY <1>2, <2>3, <2>5 DEF Submitted
  <2>6. CASE name \notin {"no_action", "close_position"}
    <3>1. new \in {{NewOrder(p, name)}, {NewOrder(p, "close"), NewOrder(p, name)}}
      BY <1>2, <2>6 DEF Submitted
    <3>2. QED
      BY <2>2, <2>3, <2>6, <3>1
  <2>7. QED
    BY <2>4, <2>5, <2>6
<1>3. ASSUME NEW new \in SubmittedOnError(p, name) PROVE new \subseteq Order
  <2>1. new \in {{}, {NewOrder(p, "close")}}
    BY <1>3 DEF SubmittedOnError
  <2>2. QED
    BY <1>1, <2>1
<1>4. QED
  BY <1>2, <1>3

LEMMA CommandTyped ==
  ASSUME StateOK, NEW p \in Procs, NEW name, NEW next, GoodControl(p, next, window),
         CommandSucceeds(p, name, next) \/ CommandFails(p, name, next) \/ CommandEmits(p, name, next),
         UNCHANGED <<window, event, inbox, store, round, outside, heard, shown>>
  PROVE  StateOK'
<1>1. ControlsOK'
  <2> DEFINE k == [next EXCEPT !.pc = "emit"]
  <2>1. GoodControl(p, k, window)
    <3>1. "emit" \in AgentPcs
      BY DEF AgentPcs
    <3>2. QED
      BY <3>1, WindowTyped, GoodStep
  <2>2. proc' = [proc EXCEPT ![p] = next] \/ proc' = [proc EXCEPT ![p] = k]
    BY DEF CommandSucceeds, CommandFails, CommandEmits
  <2> HIDE DEF k
  <2>3. QED
    BY <2>1, <2>2, WindowTyped, OneMoves DEF StateOK
<1>2. ChannelOK'
  <2> DEFINE a == <<Event("indicator_changed", p, outside.chats)>>
  <2>1. a \in Seq(Events)
    <3>1. outside.chats \in Nat /\ p \in Senders
      BY Names DEF StateOK, ChannelOK
    <3>2. Event("indicator_changed", p, outside.chats) \in Events
      BY <3>1, KnownTypes, EventTyped
    <3>3. QED
      BY <3>2
  <2>2. sends' = sends \/ sends' = [sends EXCEPT ![p] = a]
    BY DEF CommandSucceeds, CommandFails, CommandEmits
  <2> HIDE DEF a
  <2>3. QED
    BY <2>1, <2>2 DEF StateOK, ChannelOK
<1>3. MarketOK'
  <2>1. failed' = failed /\ position' = position
    BY DEF CommandSucceeds, CommandFails, CommandEmits, market
  <2>2. orders' \subseteq Order
    <3>1. orders \subseteq Order
      BY DEF StateOK, MarketOK
    <3>2. CASE CommandSucceeds(p, name, next)
      BY <3>1, <3>2, OrdersTyped DEF CommandSucceeds
    <3>3. CASE CommandFails(p, name, next)
      BY <3>1, <3>3, OrdersTyped DEF CommandFails
    <3>4. CASE CommandEmits(p, name, next)
      BY <3>1, <3>4 DEF CommandEmits, market
    <3>5. QED
      BY <3>2, <3>3, <3>4
  <2>3. QED
    BY <2>1, <2>2 DEF StateOK, MarketOK
<1>4. InboxOK' /\ StoreOK'
  BY DEF StateOK, InboxOK, StoreOK, store, inbox
<1>5. QED
  BY <1>1, <1>2, <1>3, <1>4 DEF StateOK

\* The command at the head of those the loop has still to run.
LEMMA CommandDue ==
  ASSUME StateOK, proc[Loop].todo # <<>>
  PROVE  /\ Head(proc[Loop].todo) \in Command /\ Head(proc[Loop].todo) \in ToSet(proc[Loop].todo)
         /\ Tail(proc[Loop].todo) \in Seq(Command)
         /\ ToSet(Tail(proc[Loop].todo)) \subseteq ToSet(proc[Loop].todo)
<1> DEFINE t == proc[Loop].todo
<1>1. t \in Seq(Command)
  BY LoopTyped DEF GoodControl
<1> HIDE DEF t
<1>2. t # <<>>
  BY DEF t
<1>3. Len(t) \in Nat /\ DOMAIN t = 1..Len(t) /\ Len(t) # 0
  BY <1>1, <1>2, LenProperties, EmptySeq
<1>4. 1 \in DOMAIN t /\ Head(t) = t[1]
  BY <1>1, <1>3
<1>5. /\ Tail(t) \in Seq(Command) /\ Len(Tail(t)) = Len(t) - 1
      /\ \A i \in 1..Len(Tail(t)) : Tail(t)[i] = t[i + 1]
  BY <1>1, <1>2, HeadTailProperties
<1>6. DOMAIN Tail(t) = 1..Len(Tail(t))
  BY <1>5, LenProperties
<1>7. \A i \in 1..Len(Tail(t)) : i + 1 \in DOMAIN t
  BY <1>3, <1>5
<1>8. Head(t) \in Command
  BY <1>1, <1>4, ElementOfSeq, <1>3
<1>9. QED
  BY <1>4, <1>5, <1>6, <1>7, <1>8 DEF ToSet, t

LEMMA ExecuteTyped == ASSUME StateOK, ExecuteCommand PROVE StateOK'
<1> DEFINE cmd == Head(proc[Loop].todo)
           todo == Tail(proc[Loop].todo)
           done == proc[Loop].done \cup {cmd.id}
           next == [proc[Loop] EXCEPT !.todo = todo, !.done = done]
<1>1. cmd \in Command /\ todo \in Seq(Command)
  BY CommandDue DEF ExecuteCommand
<1>2. done \in SUBSET Nat
  BY <1>1, LoopTyped DEF GoodControl, Command
<1>3. GoodControl(Loop, next, window)
  <2>1. GoodControl(Loop, proc[Loop], window) /\ "commands" \in LoopPcs
    BY LoopTyped DEF LoopPcs
  <2> HIDE DEF todo, done
  <2>2. QED
    BY <1>1, <1>2, <2>1, WindowTyped, Names, GoodStep
<1>4. \/ CommandSucceeds(Loop, cmd.name, next)
      \/ CommandFails(Loop, cmd.name, next)
      \/ CommandEmits(Loop, cmd.name, next)
  BY DEF ExecuteCommand
<1>5. UNCHANGED <<window, event, inbox, store, round, outside, heard, shown>>
  BY DEF ExecuteCommand
<1> DEFINE name == cmd.name
<1> HIDE DEF next, name
<1>6. \/ CommandSucceeds(Loop, name, next)
      \/ CommandFails(Loop, name, next)
      \/ CommandEmits(Loop, name, next)
  BY <1>4 DEF name
<1>7. QED
  BY <1>3, <1>5, <1>6, Names, CommandTyped

\* A step of an agent that leaves the channel and the market alone.
LEMMA AgentMoveTyped ==
  ASSUME StateOK, NEW p \in Procs, NEW k, GoodControl(p, k, window),
         proc' = [proc EXCEPT ![p] = k],
         UNCHANGED <<window, sends, event, round, market, outside, heard>>
  PROVE  ControlsOK' /\ ChannelOK' /\ MarketOK'
<1>1. ControlsOK'
  BY WindowTyped, OneMoves DEF StateOK
<1>2. ChannelOK' /\ MarketOK'
  BY DEF StateOK, ChannelOK, MarketOK, market
<1>3. QED
  BY <1>1, <1>2

LEMMA ProcTyped == ASSUME StateOK, NEW p \in Procs
  PROVE  /\ GoodControl(p, proc[p], window) /\ Session(p) \in AllSessions
         /\ msgs[Session(p)] \in Seq(Events)
<1>1. GoodControl(p, proc[p], window)
  BY DEF StateOK, ControlsOK
<1>2. Session(p) \in AllSessions
  BY <1>1, GoodSession DEF Session
<1>3. QED
  BY <1>1, <1>2 DEF StateOK, InboxOK

LEMMA GenerateFailsTyped == ASSUME StateOK, NEW p \in Procs, GenerateFails(p) PROVE StateOK'
<1>1. GoodControl(p, AfterAction(p), window)
  BY AfterActionGood DEF StateOK
<1> DEFINE next == AfterAction(p)
<1>2. CASE CommandSucceeds(p, "close_position", next)
  <2>1. UNCHANGED <<window, event, inbox, store, round, outside, heard, shown>>
    BY DEF GenerateFails
  <2> HIDE DEF next
  <2>2. QED
    BY <1>1, <1>2, <2>1, CommandTyped DEF next
<1>3. CASE ~CommandSucceeds(p, "close_position", next)
  <2>1. /\ proc' = [proc EXCEPT ![p] = next]
        /\ UNCHANGED <<window, sends, event, round, market, outside, heard>>
        /\ UNCHANGED <<inbox, store, shown>>
    BY <1>3 DEF GenerateFails
  <2> HIDE DEF next
  <2>2. ControlsOK' /\ ChannelOK' /\ MarketOK'
    BY <1>1, <2>1, AgentMoveTyped DEF next
  <2>3. InboxOK' /\ StoreOK'
    BY <2>1 DEF GenerateFails, StateOK, InboxOK, StoreOK, inbox, store
  <2>4. QED
    BY <2>2, <2>3 DEF StateOK
<1>4. QED
  BY <1>2, <1>3

LEMMA GarbageTyped == ASSUME StateOK, NEW p \in Procs, GenerateGarbage(p) PROVE StateOK'
<1>1. GoodControl(p, Retry(p), window)
  BY RetryGood DEF StateOK
<1>2. ControlsOK' /\ ChannelOK' /\ MarketOK'
  BY <1>1, AgentMoveTyped DEF GenerateGarbage
<1>3. InboxOK' /\ StoreOK'
  BY DEF GenerateGarbage, StateOK, InboxOK, StoreOK, inbox, store
<1>4. QED
  BY <1>2, <1>3 DEF StateOK

LEMMA GenerateTyped == ASSUME StateOK, NEW p \in Procs, Generate(p) PROVE StateOK'
<1>1. PICK a \in Answers :
        proc' = [proc EXCEPT ![p] =
          IF MemoryEnabled /\ a.truncated
          THEN [proc[p] EXCEPT !.pc = "remind", !.answer = a, !.buf = msgs[Session(p)]]
          ELSE [proc[p] EXCEPT !.pc = "schedule", !.answer = a]]
  BY DEF Generate, StateOK, ControlsOK
<1> DEFINE b == msgs[Session(p)]
           k == [proc[p] EXCEPT !.pc = "remind", !.answer = a, !.buf = b]
           j == [proc[p] EXCEPT !.pc = "schedule", !.answer = a]
<1>2. GoodControl(p, k, window) /\ GoodControl(p, j, window)
  <2>1. b \in Seq(Events) /\ "remind" \in AgentPcs /\ "schedule" \in AgentPcs
    BY ProcTyped DEF AgentPcs
  <2> HIDE DEF b
  <2>2. QED
    BY <2>1, ProcTyped, WindowTyped, GoodStep
<1>3. proc' = [proc EXCEPT ![p] = k] \/ proc' = [proc EXCEPT ![p] = j]
  BY <1>1
<1>4. UNCHANGED <<window, sends, event, round, market, outside, heard>>
  BY DEF Generate
<1> HIDE DEF k, j
<1>5. ControlsOK' /\ ChannelOK' /\ MarketOK'
  BY <1>2, <1>3, <1>4, AgentMoveTyped
<1>6. InboxOK' /\ StoreOK'
  BY DEF Generate, StateOK, InboxOK, StoreOK, inbox, store
<1>7. QED
  BY <1>5, <1>6 DEF StateOK

LEMMA RemindTyped == ASSUME StateOK, NEW p \in Procs, StashReminder(p) PROVE StateOK'
<1> DEFINE k == [proc[p] EXCEPT !.pc = "schedule"]
           b == Append(proc[p].buf, Reminder)
<1>1. GoodControl(p, k, window)
  <2>1. "schedule" \in AgentPcs
    BY DEF AgentPcs
  <2>2. QED
    BY <2>1, ProcTyped, WindowTyped, GoodStep
<1>2. /\ proc' = [proc EXCEPT ![p] = k]
      /\ UNCHANGED <<window, sends, event, round, market, outside, heard>>
  BY DEF StashReminder, Goto, StateOK, ControlsOK
<1>3. b \in Seq(Events)
  <2>1. proc[p].buf \in Seq(Events) /\ Reminder \in Events
    BY ProcTyped, KnownTypes, EventTyped DEF GoodControl, Reminder
  <2>2. QED
    BY <2>1
<1>4. msgs' = [msgs EXCEPT ![Session(p)] = b]
  BY DEF StashReminder
<1> HIDE DEF k, b
<1>5. ControlsOK' /\ ChannelOK' /\ MarketOK'
  BY <1>1, <1>2, AgentMoveTyped
<1>6. InboxOK' /\ StoreOK'
  BY <1>3, <1>4 DEF StashReminder, StateOK, InboxOK, StoreOK, store
<1>7. QED
  BY <1>5, <1>6 DEF StateOK

\* The names processNextCommands saves, and the commands it makes of them.
NamesSaved(p) ==
  Keep(SubSeq(proc[p].answer.next, 1,
              IF Len(proc[p].answer.next) < MaxCommandsPerCycle
              THEN Len(proc[p].answer.next) ELSE MaxCommandsPerCycle), Supported)

Scheduled(p, names) ==
  [i \in 1..Len(names) |-> [id |-> scheduled + i, name |-> names[i], by |-> p, round |-> round]]

LEMMA NamesTyped == ASSUME StateOK, NEW p \in Procs PROVE NamesSaved(p) \in Seq(Supported)
<1> DEFINE answered == proc[p].answer.next
           limit == IF Len(answered) < MaxCommandsPerCycle THEN Len(answered) ELSE MaxCommandsPerCycle
           firsts == SubSeq(answered, 1, limit)
<1>1. answered \in Seq(STRING)
  <2>1. proc[p].answer \in Answers \cup {NoAnswer}
    BY ProcTyped DEF GoodControl
  <2>2. <<>> \in Seq(STRING)
    OBVIOUS
  <2>3. \A a \in Answers : a.next \in Seq(STRING)
    BY LoopAssumption
  <2>4. NoAnswer.next = <<>>
    BY DEF NoAnswer
  <2>5. QED
    BY <2>1, <2>2, <2>3, <2>4
<1> HIDE DEF answered
<1>2. Len(answered) \in Nat /\ limit \in 0..Len(answered)
  BY <1>1, LenProperties, LoopAssumption
<1> HIDE DEF limit
<1>3. firsts \in Seq(STRING)
  <2>1. DOMAIN answered = 1..Len(answered) /\ \A i \in 1..Len(answered) : answered[i] \in STRING
    BY <1>1, LenProperties, ElementOfSeq
  <2>2. \A i \in 1..limit : i \in 1..Len(answered)
    BY <1>2
  <2>3. limit \in Nat
    BY <1>2
  <2>4. firsts = [i \in 1..limit |-> answered[i]]
    BY <1>1, <1>2, SubSeqProperties, <2>2, <2>3
  <2>5. QED
    BY <2>1, <2>2, <2>3, <2>4
<1> HIDE DEF firsts
<1> DEFINE kept == Keep(firsts, Supported)
<1>4. kept \in Seq(STRING) /\ ToSet(kept) = ToSet(firsts) \cap Supported
  BY <1>3, KeepKeeps
<1>5. NamesSaved(p) = kept
  BY DEF NamesSaved, firsts, limit, answered
<1> HIDE DEF kept
<1>6. kept \in Seq(Supported)
  <2>1. Len(kept) \in Nat /\ kept = [i \in 1..Len(kept) |-> kept[i]] /\ DOMAIN kept = 1..Len(kept)
    BY <1>4, LenProperties
  <2>2. \A i \in 1..Len(kept) : kept[i] \in Supported
    BY <1>4, <2>1 DEF ToSet
  <2>3. kept \in [1..Len(kept) -> Supported]
    BY <2>1, <2>2
  <2>4. QED
    BY <2>1, <2>3
<1>7. QED
  BY <1>5, <1>6

LEMMA ScheduledTyped ==
  ASSUME StateOK, NEW p \in Procs, NEW names \in Seq(Supported)
  PROVE  Scheduled(p, names) \in Seq(Command) /\ Len(Scheduled(p, names)) = Len(names)
<1>1. Len(names) \in Nat /\ \A i \in 1..Len(names) : names[i] \in Supported
  BY LenProperties, ElementOfSeq
<1>2. scheduled \in Nat /\ round \in Nat
  BY DEF StateOK, StoreOK, ChannelOK
<1>3. ASSUME NEW i \in 1..Len(names)
      PROVE  [id |-> scheduled + i, name |-> names[i], by |-> p, round |-> round] \in Command
  <2>1. scheduled + i \in Nat
    BY <1>1, <1>2
  <2>2. QED
    BY <1>1, <1>2, <2>1 DEF Command
<1>4. Scheduled(p, names) \in [1..Len(names) -> Command]
  BY <1>3 DEF Scheduled
<1>5. QED
  BY <1>1, <1>4

\* Either nothing is saved, or the commands are put behind the pending ones.
LEMMA WhatIsScheduled ==
  ASSUME NEW p \in Procs, processNextCommands(p)
  PROVE  \/ UNCHANGED store
         \/ /\ pending' = pending \o Scheduled(p, NamesSaved(p))
            /\ scheduled' = scheduled + Len(Scheduled(p, NamesSaved(p)))
BY DEF processNextCommands, Scheduled, NamesSaved

LEMMA ScheduleTyped == ASSUME StateOK, NEW p \in Procs, processNextCommands(p) PROVE StateOK'
<1> DEFINE k == [proc[p] EXCEPT !.pc = "act"]
<1>1. GoodControl(p, k, window)
  <2>1. "act" \in AgentPcs
    BY DEF AgentPcs
  <2>2. QED
    BY <2>1, ProcTyped, WindowTyped, GoodStep
<1>2. /\ proc' = [proc EXCEPT ![p] = k]
      /\ UNCHANGED <<window, sends, event, round, market, outside, heard>>
  BY DEF processNextCommands, Goto, StateOK, ControlsOK
<1> HIDE DEF k
<1>3. ControlsOK' /\ ChannelOK' /\ MarketOK'
  BY <1>1, <1>2, AgentMoveTyped
<1>4. StoreOK'
  <2> DEFINE new == Scheduled(p, NamesSaved(p))
  <2>1. new \in Seq(Command) /\ Len(new) \in Nat
    BY NamesTyped, ScheduledTyped, LenProperties
  <2>2. \/ pending' = pending /\ scheduled' = scheduled
        \/ pending' = pending \o new /\ scheduled' = scheduled + Len(new)
    BY WhatIsScheduled DEF store
  <2> HIDE DEF new
  <2>3. pending \in Seq(Command) /\ scheduled \in Nat
    BY DEF StateOK, StoreOK
  <2>4. pending \o new \in Seq(Command) /\ scheduled + Len(new) \in Nat
    BY <2>1, <2>3
  <2>5. QED
    BY <2>2, <2>3, <2>4 DEF StoreOK
<1>5. InboxOK'
  BY DEF processNextCommands, StateOK, InboxOK, inbox
<1>6. QED
  BY <1>3, <1>4, <1>5 DEF StateOK

LEMMA ActTyped == ASSUME StateOK, NEW p \in Procs, Act(p) PROVE StateOK'
<1> DEFINE name == proc[p].answer.action
           after == AfterAction(p)
           again == Retry(p)
           here == proc[p]
<1>1. GoodControl(p, after, window) /\ GoodControl(p, again, window) /\ GoodControl(p, here, window)
  BY AfterActionGood, RetryGood, ProcTyped DEF StateOK
<1>2. \/ proc' = [proc EXCEPT ![p] = after] /\ UNCHANGED <<sends, market>>
      \/ CommandSucceeds(p, name, after)
      \/ CommandFails(p, name, again)
      \/ CommandEmits(p, name, here)
  BY DEF Act
<1>3. UNCHANGED <<window, event, inbox, store, round, outside, heard, shown>>
  BY DEF Act
<1> HIDE DEF name, after, again, here
<1>4. CASE proc' = [proc EXCEPT ![p] = after] /\ UNCHANGED <<sends, market>>
  <2>1. ControlsOK' /\ ChannelOK' /\ MarketOK'
    BY <1>1, <1>3, <1>4, AgentMoveTyped
  <2>2. InboxOK' /\ StoreOK'
    BY <1>3 DEF StateOK, InboxOK, StoreOK, inbox, store
  <2>3. QED
    BY <2>1, <2>2 DEF StateOK
<1>5. CASE CommandSucceeds(p, name, after)
  BY <1>1, <1>3, <1>5, CommandTyped
<1>6. CASE CommandFails(p, name, again)
  BY <1>1, <1>3, <1>6, CommandTyped
<1>7. CASE CommandEmits(p, name, here)
  BY <1>1, <1>3, <1>7, CommandTyped
<1>8. QED
  BY <1>2, <1>4, <1>5, <1>6, <1>7

LEMMA EmitReturnsTyped == ASSUME StateOK, NEW p \in Procs, EmitReturns(p) PROVE StateOK'
<1>1. GoodControl(p, AfterAction(p), window)
  BY AfterActionGood DEF StateOK
<1>2. ControlsOK' /\ ChannelOK' /\ MarketOK'
  BY <1>1, AgentMoveTyped DEF EmitReturns
<1>3. InboxOK' /\ StoreOK'
  BY DEF EmitReturns, StateOK, InboxOK, StoreOK, inbox, store
<1>4. QED
  BY <1>2, <1>3 DEF StateOK

\* Every step keeps the types.
LEMMA StepTyped == ASSUME StateOK, [Next]_vars PROVE StateOK'
<1>1. CASE UNCHANGED vars
  <2>1. UNCHANGED proc /\ UNCHANGED window /\ UNCHANGED <<inbox, shown>>
    BY <1>1 DEF vars
  <2>2. ControlsOK' /\ InboxOK'
    BY <2>1, WindowTyped, NoneMoves, InboxStays DEF StateOK
  <2>3. ChannelOK' /\ StoreOK' /\ MarketOK'
    BY <1>1 DEF StateOK, ChannelOK, StoreOK, MarketOK, vars, store, market
  <2>4. QED
    BY <2>2, <2>3 DEF StateOK
<1>2. CASE Outside
  BY <1>2, KLineTyped, OpensTyped, ClosesTyped, NewsTyped, ChatTyped DEF Outside
<1>3. CASE \E g \in Senders : Receive(g)
  BY <1>3, ReceiveTyped
<1>4. CASE LoopStep
  BY <1>4, PositionTyped, HandleTyped, StashTyped, LoadTyped, ExecuteTyped, SaveTyped,
     NothingTyped, RenderTyped, StartTyped, FinishTyped DEF LoopStep
<1>5. CASE \E p \in Procs : AgentStep(p)
  BY <1>5, GenerateFailsTyped, GarbageTyped, GenerateTyped, RemindTyped, ScheduleTyped,
     ActTyped, EmitReturnsTyped DEF AgentStep
<1>6. QED
  BY <1>1, <1>2, <1>3, <1>4, <1>5 DEF Next

\* The type invariant holds in every state (DecisionLoop's TypeOK).
THEOREM LoopTypes == Spec => []TypeOK
<1>1. Init => StateOK
  BY StartsTyped
<1>2. StateOK /\ [Next]_vars => StateOK'
  BY StepTyped
<1>3. StateOK => TypeOK
  BY StateOKIsTypeOK
<1>4. QED
  BY <1>1, <1>2, <1>3, PTL DEF Spec

-----------------------------------------------------------------------------
(* Limit orders                                                            *)

\* While it dispatches an event, the loop is at most one k-line behind the
\* window: the callback of that k-line waits for the loop.
Behind(k, w, waiting) ==
  k.pc # "receive" => k.cycle = w \/ (k.cycle = w - 1 /\ waiting # <<>>)

LoopKeepsUp == Behind(proc[Loop], window, sends["kline"])

OrdersInv == LoopKeepsUp /\ LimitOrdersAtMostOneCycleOld

\* The loop goes on with the k-line it has, or takes up the newest.
LEMMA GoesOn ==
  ASSUME StateOK, LoopKeepsUp, NEW k,
         (k.cycle = proc[Loop].cycle /\ proc[Loop].pc # "receive") \/ k.pc = "receive" \/ k.cycle = window
  PROVE  Behind(k, window, sends["kline"])
BY DEF LoopKeepsUp, Behind

LEMMA HowLoopGoesOn ==
  ASSUME StateOK
  PROVE  /\ NextSession.pc = "receive" \/ NextSession.cycle = window
         /\ AfterAction(Loop).cycle = proc[Loop].cycle
         /\ Retry(Loop).cycle = proc[Loop].cycle
<1>1. DOMAIN proc[Loop] = Fields
  BY LoopTyped DEF GoodControl
<1>2. NextSession.pc = "receive" \/ NextSession.cycle = window
  BY DEF NextSession, Idle
<1>3. AfterAction(Loop).cycle = proc[Loop].cycle
  BY <1>1 DEF AfterAction, Fields
<1>4. Retry(Loop).cycle = proc[Loop].cycle
  BY <1>1, <1>3 DEF Retry, Fields
<1>5. QED
  BY <1>2, <1>3, <1>4

\* Fewer orders, or more of other processes, change nothing.
LEMMA OrdersStay ==
  ASSUME StateOK, LimitOrdersAtMostOneCycleOld, UNCHANGED <<window, failed>>,
         \A o \in orders' \ orders : o.by = Loop => o.cycle + 1 >= window /\ o.cycle \in Nat
  PROVE  LimitOrdersAtMostOneCycleOld'
<1> SUFFICES ASSUME NEW o \in orders', IsLimit(o), o.by = Loop
             PROVE  (o.cycle + 2)..window \subseteq failed
  BY DEF LimitOrdersAtMostOneCycleOld, IsLimit
<1>1. CASE o \in orders
  BY <1>1 DEF LimitOrdersAtMostOneCycleOld
<1>2. CASE o \notin orders
  <2>1. o.cycle + 1 >= window /\ o.cycle \in Nat /\ window \in Nat
    BY <1>2, WindowTyped
  <2>2. (o.cycle + 2)..window = {}
    BY <2>1
  <2>3. QED
    BY <2>2
<1>3. QED
  BY <1>1, <1>2

\* Steps that submit nothing.
LEMMA NoOrders ==
  ASSUME StateOK, OrdersInv, UNCHANGED <<window, market>>, sends'["kline"] = sends["kline"],
         Behind(proc'[Loop], window, sends["kline"])
  PROVE  OrdersInv'
<1>1. LimitOrdersAtMostOneCycleOld'
  BY OrdersStay DEF OrdersInv, market
<1>2. LoopKeepsUp'
  BY DEF LoopKeepsUp
<1>3. QED
  BY <1>1, <1>2 DEF OrdersInv

LEMMA KLineOrders == ASSUME StateOK, OrdersInv, KLineClosed PROVE OrdersInv'
<1>1. window \in Nat /\ window' = window + 1 /\ proc' = proc
  BY WindowTyped DEF KLineClosed
<1>2. LoopKeepsUp'
  <2>1. sends["kline"] = <<>>
    BY DEF KLineClosed, Returned
  <2>2. proc[Loop].pc # "receive" => proc[Loop].cycle = window
    BY <2>1 DEF OrdersInv, LoopKeepsUp, Behind
  <2>3. sends'["kline"] # <<>>
    <3> DEFINE new == CycleEvents("kline", window')
    <3>1. new \in Seq(Events) /\ Len(new) = 4
      BY <1>1, Names, CycleTyped
    <3>2. sends'["kline"] = <<>> \o new
      BY <2>1, Names DEF KLineClosed, StateOK, ChannelOK
    <3> HIDE DEF new
    <3>3. <<>> \o new = new
      BY <3>1
    <3>4. new # <<>>
      BY <3>1
    <3>5. QED
      BY <3>2, <3>3, <3>4
  <2>4. QED
    BY <1>1, <2>2, <2>3 DEF LoopKeepsUp, Behind
<1>3. LimitOrdersAtMostOneCycleOld'
  <2> SUFFICES ASSUME NEW o \in orders', IsLimit(o), o.by = Loop
               PROVE  (o.cycle + 2)..window' \subseteq failed'
    BY DEF LimitOrdersAtMostOneCycleOld, IsLimit
  <2>1. orders' = orders /\ failed' = failed \cup {window'}
    BY DEF KLineClosed, Cleaned
  <2>2. (o.cycle + 2)..window \subseteq failed
    BY <2>1 DEF OrdersInv, LimitOrdersAtMostOneCycleOld
  <2>3. o.cycle \in Nat
    BY <2>1 DEF StateOK, MarketOK, Order
  <2>4. \A i \in (o.cycle + 2)..window' : i \in (o.cycle + 2)..window \/ i = window'
    BY <1>1, <2>3
  <2>5. QED
    BY <2>1, <2>2, <2>4
<1>4. QED
  BY <1>2, <1>3 DEF OrdersInv

\* A command the loop gives is about the newest k-line or the one before.
LEMMA CommandOrders ==
  ASSUME StateOK, OrdersInv, NEW p \in Procs, NEW name, NEW next,
         At(Loop, "receive") => p # Loop, DOMAIN next = Fields,
         p = Loop => next.cycle = proc[Loop].cycle,
         CommandSucceeds(p, name, next) \/ CommandFails(p, name, next) \/ CommandEmits(p, name, next),
         UNCHANGED window
  PROVE  OrdersInv'
<1>1. LoopKeepsUp'
  <2> DEFINE k == [next EXCEPT !.pc = "emit"]
  <2>1. proc' = [proc EXCEPT ![p] = next] \/ proc' = [proc EXCEPT ![p] = k]
    BY DEF CommandSucceeds, CommandFails, CommandEmits
  <2>2. k.cycle = next.cycle
    BY DEF Fields
  <2> HIDE DEF k
  <2>3. sends'["kline"] = sends["kline"]
    BY Names DEF CommandSucceeds, CommandFails, CommandEmits, StateOK, ChannelOK
  <2>4. CASE p = Loop
    <3>1. proc'[Loop].cycle = proc[Loop].cycle /\ proc[Loop].pc # "receive"
      BY <2>1, <2>2, <2>4, Names DEF StateOK, ControlsOK, At
    <3>2. QED
      BY <2>3, <3>1 DEF OrdersInv, LoopKeepsUp, Behind
  <2>5. CASE p # Loop
    <3>1. proc'[Loop] = proc[Loop]
      BY <2>1, <2>5, Names DEF StateOK, ControlsOK
    <3>2. QED
      BY <2>3, <3>1 DEF OrdersInv, LoopKeepsUp, Behind
  <2>6. QED
    BY <2>4, <2>5
<1>2. \A o \in orders' \ orders : o.by = Loop => o.cycle + 1 >= window /\ o.cycle \in Nat
  <2> SUFFICES ASSUME NEW o \in orders' \ orders, o.by = Loop
               PROVE  o.cycle + 1 >= window /\ o.cycle \in Nat
    OBVIOUS
  <2>1. o \in {NewOrder(p, name), NewOrder(p, "close")}
    <3>1. CASE CommandSucceeds(p, name, next)
      <4>1. PICK new \in Submitted(p, name) : orders' = orders \cup new
        BY <3>1 DEF CommandSucceeds
      <4>2. new \subseteq {NewOrder(p, name), NewOrder(p, "close")}
        <5>1. CASE name = "no_action"
          BY <4>1, <5>1 DEF Submitted
        <5>2. CASE name = "close_position"
          BY <4>1, <5>2 DEF Submitted
        <5>3. CASE name \notin {"no_action", "close_position"}
          BY <4>1, <5>3 DEF Submitted
        <5>4. QED
          BY <5>1, <5>2, <5>3
      <4>3. QED
        BY <4>1, <4>2
    <3>2. CASE CommandFails(p, name, next)
      BY <3>2 DEF CommandFails, SubmittedOnError
    <3>3. CASE CommandEmits(p, name, next)
      BY <3>3 DEF CommandEmits, market
    <3>4. QED
      BY <3>1, <3>2, <3>3
  <2>2. o.by = p /\ o.cycle = proc[p].cycle
    BY <2>1 DEF NewOrder
  <2>3. proc[Loop].pc # "receive" /\ p = Loop
    BY <2>2 DEF At
  <2>4. proc[Loop].cycle = window \/ proc[Loop].cycle = window - 1
    BY <2>3 DEF OrdersInv, LoopKeepsUp, Behind
  <2>5. window \in Nat /\ proc[Loop].cycle \in 0..window
    BY LoopTyped, WindowTyped DEF GoodControl
  <2>6. QED
    BY <2>2, <2>3, <2>4, <2>5
<1>3. failed' = failed
  BY DEF CommandSucceeds, CommandFails, CommandEmits, market
<1>4. LimitOrdersAtMostOneCycleOld'
  BY <1>2, <1>3, OrdersStay DEF OrdersInv
<1>5. QED
  BY <1>1, <1>4 DEF OrdersInv

LEMMA OutsideOrders == ASSUME StateOK, OrdersInv, Outside PROVE OrdersInv'
<1>1. CASE KLineClosed
  BY <1>1, KLineOrders
<1>2. ASSUME NEW o \in orders, PositionOpens(o) PROVE OrdersInv'
  <2>1. orders' \subseteq orders /\ UNCHANGED <<window, failed, sends, proc>>
    BY <1>2 DEF PositionOpens
  <2>2. LimitOrdersAtMostOneCycleOld'
    BY <2>1, OrdersStay DEF OrdersInv
  <2>3. QED
    BY <2>1, <2>2 DEF OrdersInv, LoopKeepsUp, Behind
<1>3. CASE PositionCloses
  <2>1. orders' \subseteq orders /\ UNCHANGED <<window, failed, proc>>
    BY <1>3 DEF PositionCloses
  <2>2. sends'["kline"] = sends["kline"]
    BY <1>3, Names DEF PositionCloses, StateOK, ChannelOK
  <2>3. LimitOrdersAtMostOneCycleOld'
    BY <2>1, OrdersStay DEF OrdersInv
  <2>4. QED
    BY <2>1, <2>2, <2>3 DEF OrdersInv, LoopKeepsUp, Behind
<1>4. CASE NewsArrives
  <2>1. UNCHANGED <<window, market, proc>>
    BY <1>4 DEF NewsArrives
  <2>2. sends'["kline"] = sends["kline"]
    BY <1>4, Names DEF NewsArrives, StateOK, ChannelOK
  <2>3. Behind(proc'[Loop], window, sends["kline"])
    BY <2>1 DEF OrdersInv, LoopKeepsUp
  <2>4. QED
    BY <2>1, <2>2, <2>3, NoOrders
<1>5. ASSUME NEW c \in Chats, ChatMessage(c) PROVE OrdersInv'
  <2>1. UNCHANGED <<window, market, sends>>
    BY <1>5 DEF ChatMessage
  <2>2. proc'[Loop] = proc[Loop]
    BY <1>5, Names DEF ChatMessage, StateOK, ControlsOK
  <2>3. Behind(proc'[Loop], window, sends["kline"])
    BY <2>2 DEF OrdersInv, LoopKeepsUp
  <2>4. QED
    BY <2>1, <2>3, NoOrders
<1>6. QED
  BY <1>1, <1>2, <1>3, <1>4, <1>5 DEF Outside

LEMMA ReceiveOrders == ASSUME StateOK, OrdersInv, NEW g \in Senders, Receive(g) PROVE OrdersInv'
<1>1. UNCHANGED <<window, market>> /\ proc[Loop].pc = "receive"
  BY DEF Receive, At
<1>2. proc'[Loop].pc = "receive" \/ proc'[Loop].cycle = window
  BY <1>1, Names DEF Receive, StateOK, ControlsOK, Idle
<1>3. LimitOrdersAtMostOneCycleOld'
  BY <1>1, OrdersStay DEF OrdersInv, market
<1>4. LoopKeepsUp'
  BY <1>1, <1>2 DEF LoopKeepsUp, Behind
<1>5. QED
  BY <1>3, <1>4 DEF OrdersInv

LEMMA LoopOrders == ASSUME StateOK, OrdersInv, LoopStep PROVE OrdersInv'
<1>1. CASE HandlePositionChanged \/ stashMsg \/ RenderFails \/ FinishDecision
  <2>1. UNCHANGED <<window, market, sends>> /\ proc'[Loop] = NextSession
    BY <1>1, Names DEF HandlePositionChanged, stashMsg, RenderFails, FinishDecision,
                      StateOK, ControlsOK
  <2>2. Behind(proc'[Loop], window, sends["kline"])
    BY <2>1, HowLoopGoesOn, GoesOn DEF OrdersInv
  <2>3. QED
    BY <2>1, <2>2, NoOrders
<1>2. CASE HandleNews \/ LoadCommands \/ SaveStatuses \/ NothingToDecide \/ StartDecision
  <2>1. UNCHANGED <<window, market, sends>>
    BY <1>2 DEF HandleNews, LoadCommands, SaveStatuses, NothingToDecide, StartDecision
  <2>2. proc[Loop].pc # "receive"
    BY <1>2 DEF HandleNews, LoadCommands, SaveStatuses, NothingToDecide, StartDecision, At
  <2>3. DOMAIN proc = Procs /\ DOMAIN proc[Loop] = Fields
    BY LoopTyped DEF StateOK, ControlsOK, GoodControl
  <2>4. proc'[Loop].cycle = proc[Loop].cycle
    BY <1>2, <2>3, Names
       DEF HandleNews, LoadCommands, SaveStatuses, NothingToDecide, StartDecision, Goto, Fields
  <2>5. Behind(proc'[Loop], window, sends["kline"])
    BY <2>2, <2>4, GoesOn DEF OrdersInv
  <2>6. QED
    BY <2>1, <2>5, NoOrders
<1>3. CASE ExecuteCommand
  <2> DEFINE cmd == Head(proc[Loop].todo)
             next == [proc[Loop] EXCEPT !.todo = Tail(proc[Loop].todo), !.done = proc[Loop].done \cup {cmd.id}]
             name == cmd.name
  <2>1. DOMAIN next = Fields /\ next.cycle = proc[Loop].cycle
    BY LoopTyped DEF GoodControl, Fields
  <2>2. \/ CommandSucceeds(Loop, name, next)
        \/ CommandFails(Loop, name, next)
        \/ CommandEmits(Loop, name, next)
    BY <1>3 DEF ExecuteCommand
  <2>3. ~At(Loop, "receive") /\ UNCHANGED window
    BY <1>3 DEF ExecuteCommand, At
  <2> HIDE DEF next, name
  <2>4. QED
    BY <2>1, <2>2, <2>3, Names, CommandOrders
<1>4. QED
  BY <1>1, <1>2, <1>3 DEF LoopStep

\* An agent's steps between the model's answer and the action.
LEMMA AgentMoves ==
  ASSUME StateOK, NEW p \in Procs, Generate(p) \/ StashReminder(p) \/ processNextCommands(p)
  PROVE  /\ UNCHANGED <<sends, market>>
         /\ \E k : /\ proc' = [proc EXCEPT ![p] = k]
                   /\ k.cycle = proc[p].cycle /\ k.session = proc[p].session
                   /\ k.todo = proc[p].todo /\ k.done = proc[p].done
                   /\ k.pc \in {"remind", "schedule", "act"}
<1>0. DOMAIN proc = Procs /\ DOMAIN proc[p] = Fields
  BY ProcTyped DEF StateOK, ControlsOK, GoodControl
<1> DEFINE Moves(k) == /\ proc' = [proc EXCEPT ![p] = k]
                      /\ k.cycle = proc[p].cycle /\ k.session = proc[p].session
                      /\ k.todo = proc[p].todo /\ k.done = proc[p].done
                      /\ k.pc \in {"remind", "schedule", "act"}
<1>1. CASE Generate(p)
  <2>1. PICK a \in Answers :
          proc' = [proc EXCEPT ![p] =
            IF MemoryEnabled /\ a.truncated
            THEN [proc[p] EXCEPT !.pc = "remind", !.answer = a, !.buf = msgs[Session(p)]]
            ELSE [proc[p] EXCEPT !.pc = "schedule", !.answer = a]]
    BY <1>0, <1>1 DEF Generate
  <2> DEFINE b == [proc[p] EXCEPT !.pc = "remind", !.answer = a, !.buf = msgs[Session(p)]]
             c == [proc[p] EXCEPT !.pc = "schedule", !.answer = a]
  <2>2. /\ b.cycle = proc[p].cycle /\ b.session = proc[p].session /\ b.pc = "remind"
        /\ b.todo = proc[p].todo /\ b.done = proc[p].done
    BY <1>0 DEF Fields
  <2>3. /\ c.cycle = proc[p].cycle /\ c.session = proc[p].session /\ c.pc = "schedule"
        /\ c.todo = proc[p].todo /\ c.done = proc[p].done
    BY <1>0 DEF Fields
  <2>4. proc' = [proc EXCEPT ![p] = b] \/ proc' = [proc EXCEPT ![p] = c]
    BY <2>1
  <2> HIDE DEF b, c
  <2>5. Moves(b) \/ Moves(c)
    BY <2>2, <2>3, <2>4
  <2>6. UNCHANGED <<sends, market>>
    BY <1>1 DEF Generate
  <2>7. QED
    BY <2>5, <2>6
<1>2. CASE StashReminder(p)
  <2> DEFINE b == [proc[p] EXCEPT !.pc = "schedule"]
  <2>1. proc' = [proc EXCEPT ![p] = b] /\ UNCHANGED <<sends, market>>
    BY <1>0, <1>2 DEF StashReminder, Goto
  <2>2. /\ b.cycle = proc[p].cycle /\ b.session = proc[p].session /\ b.pc = "schedule"
        /\ b.todo = proc[p].todo /\ b.done = proc[p].done
    BY <1>0 DEF Fields
  <2> HIDE DEF b
  <2>3. Moves(b)
    BY <2>1, <2>2
  <2>4. QED
    BY <2>1, <2>3
<1>3. CASE processNextCommands(p)
  <2> DEFINE b == [proc[p] EXCEPT !.pc = "act"]
  <2>1. proc' = [proc EXCEPT ![p] = b] /\ UNCHANGED <<sends, market>>
    BY <1>0, <1>3 DEF processNextCommands, Goto
  <2>2. /\ b.cycle = proc[p].cycle /\ b.session = proc[p].session /\ b.pc = "act"
        /\ b.todo = proc[p].todo /\ b.done = proc[p].done
    BY <1>0 DEF Fields
  <2> HIDE DEF b
  <2>3. Moves(b)
    BY <2>1, <2>2
  <2>4. QED
    BY <2>1, <2>3
<1>4. QED
  BY <1>1, <1>2, <1>3

LEMMA AgentOrders == ASSUME StateOK, OrdersInv, NEW p \in Procs, AgentStep(p) PROVE OrdersInv'
<1>0. /\ DOMAIN proc = Procs /\ DOMAIN proc[p] = Fields
      /\ GoodControl(p, AfterAction(p), window) /\ GoodControl(p, Retry(p), window)
  BY ProcTyped, AfterActionGood, RetryGood DEF StateOK, ControlsOK, GoodControl
<1>1. UNCHANGED window /\ proc[p].pc # "receive"
  BY DEF AgentStep, GenerateFails, GenerateGarbage, Generate, StashReminder,
         processNextCommands, Act, EmitReturns, At
<1>2. /\ DOMAIN AfterAction(p) = Fields /\ DOMAIN Retry(p) = Fields
      /\ p = Loop => AfterAction(p).cycle = proc[Loop].cycle /\ Retry(p).cycle = proc[Loop].cycle
  BY <1>0, HowLoopGoesOn DEF GoodControl
<1>3. ASSUME UNCHANGED <<sends, market>>, NEW k, proc' = [proc EXCEPT ![p] = k],
             p = Loop => k.cycle = proc[Loop].cycle
      PROVE  OrdersInv'
  <2>1. proc'[Loop] = IF p = Loop THEN k ELSE proc[Loop]
    BY <1>0, <1>3, Names
  <2>2. Behind(proc'[Loop], window, sends["kline"])
    BY <1>1, <1>3, <2>1, GoesOn DEF OrdersInv, LoopKeepsUp
  <2>3. QED
    BY <1>1, <1>3, <2>2, NoOrders
<1>4. CASE GenerateFails(p)
  <2> DEFINE after == AfterAction(p)
  <2>1. \/ CommandSucceeds(p, "close_position", after)
        \/ proc' = [proc EXCEPT ![p] = after] /\ UNCHANGED <<sends, market>>
    BY <1>4 DEF GenerateFails
  <2> HIDE DEF after
  <2>2. DOMAIN after = Fields /\ (p = Loop => after.cycle = proc[Loop].cycle)
    BY <1>2 DEF after
  <2>3. CASE CommandSucceeds(p, "close_position", after)
    BY <1>1, <2>2, <2>3, CommandOrders DEF At
  <2>4. QED
    BY <1>3, <2>1, <2>2, <2>3
<1>5. CASE GenerateGarbage(p)
  BY <1>2, <1>3, <1>5 DEF GenerateGarbage
<1>6. CASE Generate(p) \/ StashReminder(p) \/ processNextCommands(p)
  <2>1. PICK k : proc' = [proc EXCEPT ![p] = k] /\ k.cycle = proc[p].cycle
    BY <1>6, AgentMoves
  <2>2. UNCHANGED <<sends, market>>
    BY <1>6, AgentMoves
  <2>3. QED
    BY <1>3, <2>1, <2>2
<1>7. CASE Act(p)
  <2> DEFINE name == proc[p].answer.action
             after == AfterAction(p)
             again == Retry(p)
             here == proc[p]
  <2>1. \/ proc' = [proc EXCEPT ![p] = after] /\ UNCHANGED <<sends, market>>
        \/ CommandSucceeds(p, name, after)
        \/ CommandFails(p, name, again)
        \/ CommandEmits(p, name, here)
    BY <1>7 DEF Act
  <2>2. /\ DOMAIN after = Fields /\ DOMAIN again = Fields /\ DOMAIN here = Fields
        /\ p = Loop => after.cycle = proc[Loop].cycle /\ again.cycle = proc[Loop].cycle
                       /\ here.cycle = proc[Loop].cycle
    BY <1>0, <1>2
  <2>3. At(Loop, "receive") => p # Loop
    BY <1>1 DEF At
  <2> HIDE DEF name, after, again, here
  <2>4. CASE CommandSucceeds(p, name, after)
    BY <1>1, <2>2, <2>3, <2>4, CommandOrders
  <2>5. CASE CommandFails(p, name, again)
    BY <1>1, <2>2, <2>3, <2>5, CommandOrders
  <2>6. CASE CommandEmits(p, name, here)
    BY <1>1, <2>2, <2>3, <2>6, CommandOrders
  <2>7. CASE proc' = [proc EXCEPT ![p] = after] /\ UNCHANGED <<sends, market>>
    BY <1>3, <2>2, <2>7
  <2>8. QED
    BY <2>1, <2>4, <2>5, <2>6, <2>7
<1>8. CASE EmitReturns(p)
  BY <1>2, <1>3, <1>8 DEF EmitReturns
<1>9. QED
  BY <1>4, <1>5, <1>6, <1>7, <1>8 DEF AgentStep

LEMMA StepOrders == ASSUME StateOK, OrdersInv, [Next]_vars PROVE OrdersInv'
<1>1. CASE UNCHANGED vars
  <2>1. Behind(proc'[Loop], window, sends["kline"])
    BY <1>1 DEF vars, OrdersInv, LoopKeepsUp
  <2>2. QED
    BY <1>1, <2>1, NoOrders DEF vars
<1>2. CASE \E g \in Senders : Receive(g)
  BY <1>2, ReceiveOrders
<1>3. CASE \E p \in Procs : AgentStep(p)
  BY <1>3, AgentOrders
<1>4. QED
  BY <1>1, <1>2, <1>3, OutsideOrders, LoopOrders DEF Next

\* A limit order a decision left is at most one update old, unless the
\* exchange refused every cleanup since (cleanupLimitOrders in the k-line
\* callback), whatever chats and other senders do in between.
THEOREM LimitOrdersYoung == Spec => []LimitOrdersAtMostOneCycleOld
<1>1. Init => StateOK /\ OrdersInv
  <2>1. Init => OrdersInv
    BY Names DEF Init, OrdersInv, LoopKeepsUp, Behind, Idle, LimitOrdersAtMostOneCycleOld
  <2>2. QED
    BY <2>1, StartsTyped
<1>2. StateOK /\ OrdersInv /\ [Next]_vars => StateOK' /\ OrdersInv'
  BY StepTyped, StepOrders
<1>3. OrdersInv => LimitOrdersAtMostOneCycleOld
  BY DEF OrdersInv
<1>4. QED
  BY <1>1, <1>2, <1>3, PTL DEF Spec

-----------------------------------------------------------------------------
(* What the agent is told: one session, whose messages are m and whose      *)
(* prompts had the messages in seen, while the loop is in control state k,  *)
(* dispatches e and has heard the news in h.                                *)

DecidingAt(k, s) ==
  /\ k.session = s
  /\ \/ k.pc \in (AgentPcs \ {"emit"}) \cup {"finish"}
     \/ k.pc = "emit" /\ k.answer # NoAnswer

UndeliveredAt(k, e, s) == IF k.pc \in {"handle", "stash"} /\ k.session <= s THEN {e} ELSE {}
UnseenAt(k, m, s) == IF DecidingAt(k, s) THEN {} ELSE ToSet(m)

\* No message is there twice, but for the reminder.
NoRepeats(m) == \A i, j \in DOMAIN m : m[i] = m[j] => i = j \/ m[i] = Reminder

Told(k, e, h, m, seen, s) ==
  /\ h \ UndeliveredAt(k, e, s) \subseteq UnseenAt(k, m, s) \cup seen
  /\ UnseenAt(k, m, s) \cap seen = {}
  /\ NoRepeats(m)
  /\ seen \subseteq h
  /\ ToSet(m) \subseteq h \cup {Reminder}
  /\ Reminder \in ToSet(m) => DecidingAt(k, s)
  /\ UndeliveredAt(k, e, s) \cap (ToSet(m) \cup seen) = {}

\* The loop moves without the session noticing.
LEMMA ToldSame ==
  ASSUME NEW k, NEW j, NEW e, NEW d, NEW h, NEW m, NEW seen, NEW s, Told(k, e, h, m, seen, s),
         DecidingAt(j, s) <=> DecidingAt(k, s), UndeliveredAt(j, d, s) = UndeliveredAt(k, e, s)
  PROVE  Told(j, d, h, m, seen, s)
BY DEF Told, UnseenAt

\* News is heard and is on its way.
LEMMA ToldHeard ==
  ASSUME NEW k, NEW j, NEW e, NEW d, NEW h, NEW m, NEW seen, NEW s, Told(k, e, h, m, seen, s),
         ~DecidingAt(k, s), ~DecidingAt(j, s), UndeliveredAt(k, e, s) = {},
         d \notin h, d # Reminder, UndeliveredAt(j, d, s) = {d}
  PROVE  Told(j, d, h \cup {d}, m, seen, s)
BY DEF Told, UnseenAt

\* An event that is no news is on its way, or has arrived.
LEMMA ToldOther ==
  ASSUME NEW k, NEW j, NEW e, NEW d, NEW h, NEW m, NEW seen, NEW s, Told(k, e, h, m, seen, s),
         ~DecidingAt(k, s), ~DecidingAt(j, s),
         UndeliveredAt(k, e, s) \cap h = {}, UndeliveredAt(j, d, s) \cap h = {},
         Reminder \notin UndeliveredAt(j, d, s)
  PROVE  Told(j, d, h, m, seen, s)
BY DEF Told, UnseenAt

\* The news on its way is put behind the messages.
LEMMA ToldStashed ==
  ASSUME NEW k, NEW j, NEW e \in Events, NEW h, NEW m \in Seq(Events), NEW seen, NEW s,
         Told(k, e, h, m, seen, s), ~DecidingAt(k, s), ~DecidingAt(j, s),
         UndeliveredAt(k, e, s) = {e}, UndeliveredAt(j, e, s) = {}, e \in h, e # Reminder
  PROVE  Told(j, e, h, Append(m, e), seen, s)
<1>1. ToSet(Append(m, e)) = ToSet(m) \cup {e}
  BY AppendedRange
<1>2. e \notin ToSet(m) /\ e \notin seen
  BY DEF Told
<1>3. NoRepeats(Append(m, e))
  <2>1. NoRepeats(m)
    BY DEF Told
  <2>2. /\ Len(m) \in Nat /\ DOMAIN m = 1..Len(m)
        /\ DOMAIN Append(m, e) = 1..(Len(m) + 1)
        /\ \A i \in 1..Len(m) : Append(m, e)[i] = m[i]
        /\ Append(m, e)[Len(m) + 1] = e
    BY LenProperties, AppendProperties
  <2>3. \A i \in 1..Len(m) : m[i] # e
    BY <1>2, <2>2 DEF ToSet
  <2>4. 1..(Len(m) + 1) = (1..Len(m)) \cup {Len(m) + 1}
    BY <2>2
  <2>5. QED
    BY <2>1, <2>2, <2>3, <2>4 DEF NoRepeats
<1>4. QED
  BY <1>1, <1>2, <1>3 DEF Told, UnseenAt

\* While the session decides, a reminder may be put behind its messages.
LEMMA ToldReminded ==
  ASSUME NEW k, NEW j, NEW e, NEW h, NEW m \in Seq(Events), NEW seen, NEW s,
         Told(k, e, h, m, seen, s), DecidingAt(k, s), DecidingAt(j, s),
         UndeliveredAt(k, e, s) = {}, UndeliveredAt(j, e, s) = {}, Reminder \in Events
  PROVE  Told(j, e, h, Append(m, Reminder), seen, s)
<1>1. ToSet(Append(m, Reminder)) = ToSet(m) \cup {Reminder}
  BY AppendedRange
<1>2. NoRepeats(Append(m, Reminder))
  <2>1. NoRepeats(m)
    BY DEF Told
  <2>2. /\ Len(m) \in Nat /\ DOMAIN m = 1..Len(m)
        /\ DOMAIN Append(m, Reminder) = 1..(Len(m) + 1)
        /\ \A i \in 1..Len(m) : Append(m, Reminder)[i] = m[i]
        /\ Append(m, Reminder)[Len(m) + 1] = Reminder
    BY LenProperties, AppendProperties
  <2>3. 1..(Len(m) + 1) = (1..Len(m)) \cup {Len(m) + 1}
    BY <2>2
  <2>4. QED
    BY <2>1, <2>2, <2>3 DEF NoRepeats
<1>3. QED
  BY <1>1, <1>2 DEF Told, UnseenAt

\* The agent is prompted with the messages.
LEMMA ToldPrompted ==
  ASSUME NEW k, NEW j, NEW e, NEW h, NEW m, NEW seen, NEW s, Told(k, e, h, m, seen, s),
         ~DecidingAt(k, s), DecidingAt(j, s),
         UndeliveredAt(k, e, s) = {}, UndeliveredAt(j, e, s) = {}
  PROVE  Told(j, e, h, m, seen \cup ToSet(m), s)
BY DEF Told, UnseenAt

\* There is nothing to prompt it with.
LEMMA ToldNothing ==
  ASSUME NEW k, NEW j, NEW e, NEW h, NEW seen, NEW s, Told(k, e, h, <<>>, seen, s),
         ~DecidingAt(k, s), DecidingAt(j, s),
         UndeliveredAt(k, e, s) = {}, UndeliveredAt(j, e, s) = {}
  PROVE  Told(j, e, h, <<>>, seen, s)
<1>1. ToSet(<<>>) = {}
  BY DEF ToSet
<1>2. QED
  BY <1>1 DEF Told, UnseenAt

\* The messages are dropped when the decision ends.
LEMMA ToldDropped ==
  ASSUME NEW k, NEW j, NEW e, NEW h, NEW m, NEW seen, NEW s, Told(k, e, h, m, seen, s),
         DecidingAt(k, s), ~DecidingAt(j, s),
         UndeliveredAt(k, e, s) = {}, UndeliveredAt(j, e, s) = {}
  PROVE  Told(j, e, h, <<>>, seen, s)
<1>1. ToSet(<<>>) = {} /\ NoRepeats(<<>>)
  BY DEF ToSet, NoRepeats
<1>2. QED
  BY <1>1 DEF Told, UnseenAt

-----------------------------------------------------------------------------
(* Every sender numbers its events upwards                                 *)

\* The number of the newest event sender g has begun to send.  A chat that is
\* being answered has not sent the event it may send.
Count(g) ==
  IF g = "kline" THEN window
  ELSE IF g \in {"closed", "closeCycle"} THEN outside.closes
  ELSE IF g = "news" THEN outside.news
  ELSE IF g \in Chats /\ proc[g].pc \notin {"idle", "emit"} THEN outside.chats - 1
  ELSE outside.chats

Injective(q) == \A i, j \in DOMAIN q : q[i] = q[j] => i = j

SentTypes == NewsTypes \cup {"position_changed", "update_finish"}

\* Sender g may be blocked on q, when it has begun to send event n and the
\* events in h were heard.
Sending(g, q, n, h) ==
  /\ Injective(q)
  /\ \A e \in ToSet(q) : e.from = g /\ e \notin h /\ e.type \in SentTypes /\ e.cycle <= n

SendersNumber ==
  /\ \A g \in Senders : Sending(g, sends[g], Count(g), heard)
  /\ \A e \in heard : e.from \in Senders \ {Loop} /\ e.type \in NewsTypes /\ e.cycle <= Count(e.from)
  /\ sends[Loop] # <<>> <=> At(Loop, "emit")

CountsGrow == \A g \in Senders : Count(g) <= Count(g)'

LEMMA CountTyped == ASSUME StateOK PROVE \A g : Count(g) \in Int
BY WindowTyped DEF Count, StateOK, ChannelOK

\* Nothing is received; what is begun to be sent is new.
LEMMA SendersGoOn ==
  ASSUME StateOK, StateOK', SendersNumber, UNCHANGED heard, CountsGrow,
         \A g \in Senders : sends'[g] = sends[g] \/ Sending(g, sends'[g], Count(g)', heard),
         sends'[Loop] # <<>> <=> At(Loop, "emit")'
  PROVE  SendersNumber'
<1>1. \A g : Count(g) \in Int /\ Count(g)' \in Int
  <2>1. /\ window' \in Nat /\ outside'.closes \in Nat /\ outside'.news \in Nat
        /\ outside'.chats \in Nat
    BY LoopAssumption DEF StateOK, ControlsOK, ChannelOK
  <2>2. \A g : Count(g)' \in Int
    BY <2>1 DEF Count
  <2>3. QED
    BY <2>2, CountTyped
<1>2. ASSUME NEW g \in Senders PROVE Sending(g, sends'[g], Count(g)', heard)
  <2>1. CASE sends'[g] = sends[g]
    <3>1. Sending(g, sends[g], Count(g), heard) /\ Count(g) <= Count(g)'
      BY DEF SendersNumber, CountsGrow
    <3>2. \A e \in ToSet(sends[g]) : e.cycle \in Int
      <4>1. sends[g] \in Seq(Events)
        BY DEF StateOK, ChannelOK
      <4>2. ToSet(sends[g]) \subseteq Events
        BY <4>1, LenProperties, ElementOfSeq DEF ToSet
      <4>3. QED
        BY <4>2 DEF Events
    <3>3. QED
      BY <1>1, <2>1, <3>1, <3>2 DEF Sending
  <2>2. QED
    BY <2>1
<1>3. \A e \in heard : e.cycle <= Count(e.from)'
  <2> SUFFICES ASSUME NEW e \in heard PROVE e.cycle <= Count(e.from)'
    OBVIOUS
  <2>1. e.from \in Senders /\ e.cycle <= Count(e.from)
    BY DEF SendersNumber
  <2>2. Count(e.from) <= Count(e.from)'
    BY <2>1 DEF CountsGrow
  <2>3. e.cycle \in Int
    BY DEF StateOK, ChannelOK, Events
  <2>4. QED
    BY <1>1, <2>1, <2>2, <2>3
<1>4. QED
  BY <1>2, <1>3 DEF SendersNumber

\* The loop receives from g.
LEMMA SendersReceived ==
  ASSUME StateOK, SendersNumber, NEW g \in Senders, Receive(g)
  PROVE  SendersNumber' /\ g # Loop
<1> DEFINE e == Head(sends[g])
           rest == Tail(sends[g])
<1>1. At(Loop, "receive") /\ sends[g] # <<>> /\ sends[g] \in Seq(Events)
  BY DEF Receive, StateOK, ChannelOK
<1>2. g # Loop
  BY <1>1 DEF SendersNumber, At
<1>3. /\ Len(sends[g]) \in Nat /\ DOMAIN sends[g] = 1..Len(sends[g]) /\ Len(sends[g]) # 0
      /\ e = sends[g][1] /\ rest \in Seq(Events) /\ Len(rest) = Len(sends[g]) - 1
      /\ \A i \in 1..Len(rest) : rest[i] = sends[g][i + 1]
      /\ DOMAIN rest = 1..Len(rest)
  BY <1>1, LenProperties, EmptySeq, HeadTailProperties
<1>4. Injective(rest) /\ e \notin ToSet(rest) /\ ToSet(rest) \subseteq ToSet(sends[g])
      /\ e \in ToSet(sends[g])
  <2>1. \A i \in 1..Len(rest) : i + 1 \in 1..Len(sends[g]) /\ i + 1 # 1
    BY <1>3
  <2>2. 1 \in 1..Len(sends[g])
    BY <1>3
  <2>3. Injective(sends[g])
    BY DEF SendersNumber, Sending
  <2> DEFINE q == sends[g]
  <2>4. /\ \A i \in 1..Len(rest) : i \in Int /\ i + 1 \in DOMAIN q /\ i + 1 # 1 /\ rest[i] = q[i + 1]
        /\ DOMAIN rest = 1..Len(rest) /\ 1 \in DOMAIN q /\ e = q[1] /\ Injective(q)
    BY <1>3, <2>1, <2>2, <2>3
  <2> HIDE DEF e, rest, q
  <2>5. Injective(rest)
    BY <2>4 DEF Injective
  <2>6. e \notin ToSet(rest) /\ ToSet(rest) \subseteq ToSet(q) /\ e \in ToSet(q)
    BY <2>4 DEF Injective, ToSet
  <2>7. QED
    BY <2>5, <2>6 DEF q
<1>5. e.from = g /\ e \notin heard /\ e.type \in SentTypes /\ e.cycle <= Count(g)
  BY <1>4 DEF SendersNumber, Sending
<1>6. sends' = [sends EXCEPT ![g] = rest] /\ heard' \subseteq heard \cup {e}
      /\ \A d \in heard' \ heard : d.type \in NewsTypes
  BY DEF Receive
<1>7. \A q \in Senders : Count(q)' = Count(q)
  <2>1. /\ window' = window /\ outside' = outside
        /\ \A c \in Chats : proc'[c] = proc[c]
    BY Names DEF Receive, StateOK, ControlsOK
  <2>2. QED
    BY <2>1 DEF Count
<1>8. sends'[Loop] = sends[Loop] /\ ~At(Loop, "emit") /\ ~At(Loop, "emit")'
  <2>1. proc'[Loop].pc \in {"receive", "handle", "load", "prompt"}
    <3> DEFINE pc == FirstStep(e)
               k == [Idle(Loop) EXCEPT !.pc = pc, !.session = 1, !.cycle = window]
    <3>1. pc \in {"handle", "load", "prompt"} /\ k.pc = pc
      BY DEF FirstStep, Idle
    <3>2. proc' = [proc EXCEPT ![Loop] = k] \/ proc' = proc
      BY DEF Receive
    <3> HIDE DEF k, pc
    <3>3. QED
      BY <1>1, <3>1, <3>2, Names DEF StateOK, ControlsOK, At
  <2>2. QED
    BY <1>1, <1>2, <1>6, <2>1, Names DEF At, StateOK, ChannelOK
<1> HIDE DEF e, rest
<1>9. ASSUME NEW q \in Senders PROVE Sending(q, sends'[q], Count(q)', heard')
  <2>1. Sending(q, sends[q], Count(q), heard)
    BY DEF SendersNumber
  <2>2. CASE q = g
    <3>1. sends'[q] = rest
      BY <1>6, <2>2 DEF StateOK, ChannelOK
    <3>2. QED
      BY <1>4, <1>6, <1>7, <2>1, <2>2, <3>1 DEF Sending
  <2>3. CASE q # g
    <3>1. sends'[q] = sends[q]
      BY <1>6, <2>3 DEF StateOK, ChannelOK
    <3>2. QED
      BY <1>5, <1>6, <1>7, <2>1, <2>3, <3>1 DEF Sending
  <2>4. QED
    BY <2>2, <2>3
<1>10. ASSUME NEW d \in heard'
       PROVE  d.from \in Senders \ {Loop} /\ d.type \in NewsTypes /\ d.cycle <= Count(d.from)'
  <2>1. CASE d \in heard
    BY <1>7, <2>1 DEF SendersNumber
  <2>2. CASE d \notin heard
    BY <1>2, <1>5, <1>6, <1>7, <2>2
  <2>3. QED
    BY <2>1, <2>2
<1>11. QED
  BY <1>2, <1>8, <1>9, <1>10 DEF SendersNumber

LEMMA SendingNone == ASSUME NEW g, NEW n, NEW h PROVE Sending(g, <<>>, n, h)
BY DEF Sending, Injective, ToSet

LEMMA SendingOne ==
  ASSUME NEW g \in Senders, NEW n \in Nat, NEW t \in SentTypes, NEW h,
         \A e \in h : e.from = g => e.cycle \in Int /\ e.cycle < n
  PROVE  Sending(g, <<Event(t, g, n)>>, n, h)
<1> DEFINE e == Event(t, g, n)
<1>1. e.from = g /\ e.type = t /\ e.cycle = n
  BY DEF Event
<1>2. e \notin h
  BY <1>1
<1> HIDE DEF e
<1>3. Injective(<<e>>) /\ ToSet(<<e>>) = {e}
  BY DEF Injective, ToSet
<1>4. QED
  BY <1>1, <1>2, <1>3 DEF Sending, e

LEMMA SendingCycle ==
  ASSUME NEW g \in Senders, NEW n \in Nat, NEW h,
         \A e \in h : e.from = g => e.cycle \in Int /\ e.cycle < n
  PROVE  Sending(g, CycleEvents(g, n), n, h)
<1> DEFINE a == Event("kline_changed", g, n)
           b == Event("indicator_changed", g, n)
           c == Event("position_changed", g, n)
           d == Event("update_finish", g, n)
           q == CycleEvents(g, n)
<1>1. /\ a.from = g /\ a.cycle = n /\ a.type = "kline_changed"
      /\ b.from = g /\ b.cycle = n /\ b.type = "indicator_changed"
      /\ c.from = g /\ c.cycle = n /\ c.type = "position_changed"
      /\ d.from = g /\ d.cycle = n /\ d.type = "update_finish"
  BY DEF Event
<1>2. q \in Seq(Events) /\ Len(q) = 4 /\ q[1] = a /\ q[2] = b /\ q[3] = c /\ q[4] = d
  BY CycleTyped
<1>3. DOMAIN q = {1, 2, 3, 4}
  BY <1>2, LenProperties
<1> HIDE DEF a, b, c, d, q
<1>4. Injective(q)
  BY <1>1, <1>2, <1>3 DEF Injective
<1>5. ToSet(q) = {a, b, c, d}
  BY <1>2, <1>3 DEF ToSet
<1>6. a \notin h /\ b \notin h /\ c \notin h /\ d \notin h
  BY <1>1
<1>7. {"kline_changed", "indicator_changed", "position_changed", "update_finish"} \subseteq SentTypes
  BY DEF SentTypes, NewsTypes
<1>8. QED
  BY <1>1, <1>4, <1>5, <1>6, <1>7 DEF Sending, q

\* What was heard from a sender is older than what it begins to send now.
LEMMA HeardIsOlder ==
  ASSUME StateOK, SendersNumber, NEW g \in Senders, NEW n \in Nat, Count(g) < n
  PROVE  \A e \in heard : e.from = g => e.cycle \in Int /\ e.cycle < n
<1> SUFFICES ASSUME NEW e \in heard, e.from = g PROVE e.cycle \in Int /\ e.cycle < n
  OBVIOUS
<1>1. e.cycle <= Count(g) /\ Count(g) \in Int
  BY CountTyped DEF SendersNumber
<1>2. e.cycle \in Int
  BY DEF StateOK, ChannelOK, Events
<1>3. QED
  BY <1>1, <1>2

LEMMA CountNames ==
  /\ Count("kline") = window /\ Count("closed") = outside.closes
  /\ Count("closeCycle") = outside.closes /\ Count("news") = outside.news
  /\ \A c \in Chats : Count(c) = IF proc[c].pc \notin {"idle", "emit"}
                                 THEN outside.chats - 1 ELSE outside.chats
  /\ Count(Loop) = outside.chats
BY LoopAssumption DEF Count, Loop

LEMMA SenderNames == Senders = {"kline", "closed", "closeCycle", "news", Loop} \cup Chats
BY DEF Senders, Procs

\* A process moves and neither starts nor stops sending.
LEMMA QuietMove ==
  ASSUME StateOK, StateOK', SendersNumber, NEW p \in Procs, NEW k,
         proc' = [proc EXCEPT ![p] = k], UNCHANGED <<window, sends, outside, heard>>,
         p = Loop => k.pc # "emit" /\ proc[Loop].pc # "emit",
         p # Loop /\ proc[p].pc \in {"idle", "emit"} => k.pc \in {"idle", "emit"}
  PROVE  SendersNumber'
<1>1. \A q \in Procs : proc'[q] = IF q = p THEN k ELSE proc[q]
  BY DEF StateOK, ControlsOK
<1>2. outside.chats \in Int /\ window \in Int /\ outside.closes \in Int /\ outside.news \in Int
  BY WindowTyped DEF StateOK, ChannelOK
<1>3. CountsGrow
  <2> SUFFICES ASSUME NEW g \in Senders PROVE Count(g) <= Count(g)'
    BY DEF CountsGrow
  <2>1. CASE g \in Chats
    <3>1. g \in Procs /\ g # Loop /\ proc'[g] = IF g = p THEN k ELSE proc[g]
      BY <1>1, <2>1, Names
    <3>2. proc[g].pc \in {"idle", "emit"} => proc'[g].pc \in {"idle", "emit"}
      BY <3>1
    <3>3. Count(g)' = IF proc'[g].pc \notin {"idle", "emit"} THEN outside.chats - 1 ELSE outside.chats
      BY <2>1, LoopAssumption DEF Count
    <3>4. QED
      BY <1>2, <2>1, <3>2, <3>3, CountNames
  <2>2. CASE g \notin Chats
    <3>1. Count(g)' = Count(g) /\ Count(g) \in Int
      BY <1>2, <2>2 DEF Count
    <3>2. QED
      BY <3>1
  <2>3. QED
    BY <2>1, <2>2
<1>4. sends'[Loop] # <<>> <=> At(Loop, "emit")'
  BY <1>1, Names DEF SendersNumber, At
<1>5. QED
  BY <1>3, <1>4, SendersGoOn

\* No process moves.
LEMMA NoMove ==
  ASSUME StateOK, StateOK', SendersNumber, UNCHANGED <<window, sends, outside, heard, proc>>
  PROVE  SendersNumber'
<1>1. \A g \in Senders : Count(g)' = Count(g)
  BY DEF Count
<1>2. CountsGrow
  BY <1>1, CountTyped DEF CountsGrow
<1>3. QED
  BY <1>2, SendersGoOn DEF SendersNumber, At

LEMMA KLineSends ==
  ASSUME StateOK, StateOK', SendersNumber, KLineClosed PROVE SendersNumber'
<1>1. /\ window' = window + 1 /\ window \in Nat /\ window' \in Nat
      /\ sends["kline"] = <<>> /\ UNCHANGED <<outside, proc, heard>>
  BY WindowTyped DEF KLineClosed, Returned
<1>2. sends' = [sends EXCEPT !["kline"] = CycleEvents("kline", window')]
  <2> DEFINE q == CycleEvents("kline", window')
  <2>1. q \in Seq(Events)
    BY <1>1, CycleTyped, Names
  <2>2. sends' = [sends EXCEPT !["kline"] = <<>> \o q]
    BY <1>1 DEF KLineClosed
  <2> HIDE DEF q
  <2>3. <<>> \o q = q
    BY <2>1
  <2>4. QED
    BY <2>2, <2>3 DEF q
<1>3. Sending("kline", CycleEvents("kline", window'), window', heard)
  BY <1>1, Names, CountNames, HeardIsOlder, SendingCycle
<1>4. \A g \in Senders : Count(g)' = IF g = "kline" THEN window' ELSE Count(g)
  BY <1>1 DEF Count
<1>5. CountsGrow
  <2>1. Count("kline") <= window'
    BY <1>1, CountNames
  <2>2. QED
    BY <1>4, <2>1, CountTyped DEF CountsGrow
<1>6. ASSUME NEW g \in Senders
      PROVE  sends'[g] = sends[g] \/ Sending(g, sends'[g], Count(g)', heard)
  BY <1>2, <1>3, <1>4 DEF StateOK, ChannelOK
<1>7. sends'[Loop] # <<>> <=> At(Loop, "emit")'
  BY <1>1, <1>2, Names DEF SendersNumber, At, StateOK, ChannelOK
<1>8. QED
  BY <1>1, <1>5, <1>6, <1>7, SendersGoOn

LEMMA CloseSends ==
  ASSUME StateOK, StateOK', SendersNumber, PositionCloses PROVE SendersNumber'
<1> DEFINE n == outside'.closes
           a == <<Event("position_closed", "closed", n)>>
           b == IF HandlePositionClose THEN CycleEvents("closeCycle", n) ELSE <<>>
<1>1. /\ n = outside.closes + 1 /\ outside.closes \in Nat /\ n \in Nat
      /\ outside'.news = outside.news /\ outside'.chats = outside.chats
      /\ UNCHANGED <<window, proc, heard>>
      /\ sends' = [sends EXCEPT !["closed"] = a, !["closeCycle"] = b]
  BY DEF PositionCloses, StateOK, ChannelOK
<1> HIDE DEF n
<1>2. Sending("closed", a, n, heard)
  <2>1. "position_closed" \in SentTypes /\ "closed" \in Senders
    BY Names DEF SentTypes, NewsTypes
  <2>2. \A e \in heard : e.from = "closed" => e.cycle \in Int /\ e.cycle < n
    BY <1>1, <2>1, CountNames, HeardIsOlder
  <2>3. QED
    BY <1>1, <2>1, <2>2, SendingOne
<1>3. Sending("closeCycle", b, n, heard)
  BY <1>1, Names, CountNames, HeardIsOlder, SendingCycle, SendingNone
<1>4. \A g \in Senders : Count(g)' = IF g \in {"closed", "closeCycle"} THEN n ELSE Count(g)
  BY <1>1 DEF Count, n
<1> HIDE DEF a, b
<1>5. CountsGrow
  <2>1. Count("closed") <= n /\ Count("closeCycle") <= n
    BY <1>1, CountNames
  <2>2. QED
    BY <1>4, <2>1, CountTyped DEF CountsGrow
<1>6. ASSUME NEW g \in Senders
      PROVE  sends'[g] = sends[g] \/ Sending(g, sends'[g], Count(g)', heard)
  BY <1>1, <1>2, <1>3, <1>4 DEF StateOK, ChannelOK
<1>7. sends'[Loop] # <<>> <=> At(Loop, "emit")'
  BY <1>1, Names DEF SendersNumber, At, StateOK, ChannelOK
<1>8. QED
  BY <1>1, <1>5, <1>6, <1>7, SendersGoOn

LEMMA NewsSends ==
  ASSUME StateOK, StateOK', SendersNumber, NewsArrives PROVE SendersNumber'
<1> DEFINE n == outside'.news
           a == <<Event("news_changed", "news", n)>>
<1>1. /\ n = outside.news + 1 /\ outside.news \in Nat /\ n \in Nat
      /\ outside'.closes = outside.closes /\ outside'.chats = outside.chats
      /\ UNCHANGED <<window, proc, heard>>
      /\ sends' = [sends EXCEPT !["news"] = a]
  BY DEF NewsArrives, StateOK, ChannelOK
<1> HIDE DEF n
<1>2. Sending("news", a, n, heard)
  <2>1. "news_changed" \in SentTypes /\ "news" \in Senders
    BY Names DEF SentTypes, NewsTypes
  <2>2. \A e \in heard : e.from = "news" => e.cycle \in Int /\ e.cycle < n
    BY <1>1, <2>1, CountNames, HeardIsOlder
  <2>3. QED
    BY <1>1, <2>1, <2>2, SendingOne
<1>3. \A g \in Senders : Count(g)' = IF g = "news" THEN n ELSE Count(g)
  BY <1>1 DEF Count, n
<1> HIDE DEF a
<1>4. CountsGrow
  <2>1. Count("news") <= n
    BY <1>1, CountNames
  <2>2. QED
    BY <1>3, <2>1, CountTyped DEF CountsGrow
<1>5. ASSUME NEW g \in Senders
      PROVE  sends'[g] = sends[g] \/ Sending(g, sends'[g], Count(g)', heard)
  BY <1>1, <1>2, <1>3 DEF StateOK, ChannelOK
<1>6. sends'[Loop] # <<>> <=> At(Loop, "emit")'
  BY <1>1, Names DEF SendersNumber, At, StateOK, ChannelOK
<1>7. QED
  BY <1>1, <1>4, <1>5, <1>6, SendersGoOn

LEMMA ChatSends ==
  ASSUME StateOK, StateOK', SendersNumber, NEW c \in Chats, ChatMessage(c) PROVE SendersNumber'
<1>1. /\ outside'.chats = outside.chats + 1 /\ outside.chats \in Nat
      /\ outside'.closes = outside.closes /\ outside'.news = outside.news
      /\ UNCHANGED <<window, sends, heard>>
      /\ \A q \in Procs : q # c => proc'[q] = proc[q]
      /\ proc[c].pc = "idle" /\ proc'[c].pc = "generate"
  BY Names DEF ChatMessage, StateOK, ControlsOK, ChannelOK, Idle, At
<1>2. CountsGrow
  <2> SUFFICES ASSUME NEW g \in Senders PROVE Count(g) <= Count(g)'
    BY DEF CountsGrow
  <2>1. CASE g = c
    <3>1. Count(g) = outside.chats
      BY <1>1, <2>1, CountNames
    <3>2. Count(g)' = outside'.chats - 1
      BY <1>1, <2>1, LoopAssumption DEF Count
    <3>3. QED
      BY <1>1, <3>1, <3>2
  <2>2. CASE g # c /\ g \in Chats
    <3>1. Count(g)' = IF proc[g].pc \notin {"idle", "emit"} THEN outside'.chats - 1 ELSE outside'.chats
      BY <1>1, <2>2, Names, LoopAssumption DEF Count
    <3>2. QED
      BY <1>1, <2>2, <3>1, CountNames
  <2>3. CASE g \notin Chats
    <3>1. Count(g)' = Count(g) \/ Count(g)' = Count(g) + 1
      BY <1>1, <2>3 DEF Count
    <3>2. QED
      BY <3>1, CountTyped
  <2>4. QED
    BY <2>1, <2>2, <2>3
<1>3. sends'[Loop] # <<>> <=> At(Loop, "emit")'
  BY <1>1, Names DEF SendersNumber, At
<1>4. QED
  BY <1>1, <1>2, <1>3, SendersGoOn

LEMMA EmitSends ==
  ASSUME StateOK, StateOK', SendersNumber, NEW p \in Procs, NEW name, NEW next,
         CommandEmits(p, name, next), DOMAIN next = Fields,
         UNCHANGED <<window, outside, heard>>, proc[p].pc \notin {"idle", "emit"}
  PROVE  SendersNumber'
<1> DEFINE n == outside.chats
           a == <<Event("indicator_changed", p, n)>>
           k == [next EXCEPT !.pc = "emit"]
<1>1. /\ sends' = [sends EXCEPT ![p] = a] /\ proc' = [proc EXCEPT ![p] = k] /\ k.pc = "emit"
      /\ p \in Senders /\ n \in Nat
  BY Names DEF CommandEmits, StateOK, ChannelOK, Fields
<1>2. \A q \in Procs : proc'[q] = IF q = p THEN k ELSE proc[q]
  BY <1>1 DEF StateOK, ControlsOK
<1> HIDE DEF k, n
<1>3. Sending(p, a, n, heard)
  <2>1. \A e \in heard : e.from = p => e.cycle \in Int /\ e.cycle < n
    <3>1. CASE p = Loop
      BY <3>1 DEF SendersNumber
    <3>2. CASE p # Loop
      <4>1. p \in Chats
        BY <3>2 DEF Procs
      <4>2. Count(p) < n
        BY <1>1, <4>1, CountNames DEF n
      <4>3. QED
        BY <1>1, <4>2, HeardIsOlder
    <3>3. QED
      BY <3>1, <3>2
  <2>2. "indicator_changed" \in SentTypes
    BY DEF SentTypes, NewsTypes
  <2>3. QED
    BY <1>1, <2>1, <2>2, SendingOne
<1>4. Count(p)' = n
  <2>1. CASE p = Loop
    BY <2>1, LoopAssumption DEF Count, Loop, n
  <2>2. CASE p # Loop
    <3>1. p \in Chats
      BY <2>2 DEF Procs
    <3>2. proc'[p].pc = "emit"
      BY <1>1, <1>2
    <3>3. QED
      BY <3>1, <3>2, LoopAssumption DEF Count, n
  <2>3. QED
    BY <2>1, <2>2
<1>5. CountsGrow
  <2> SUFFICES ASSUME NEW g \in Senders PROVE Count(g) <= Count(g)'
    BY DEF CountsGrow
  <2>1. CASE g = p
    <3>1. Count(p) <= n
      <4>1. CASE p = Loop
        BY <1>1, <4>1, CountNames DEF n
      <4>2. CASE p # Loop
        <5>1. p \in Chats
          BY <4>2 DEF Procs
        <5>2. QED
          BY <1>1, <5>1, CountNames DEF n
      <4>3. QED
        BY <4>1, <4>2
    <3>2. QED
      BY <1>4, <2>1, <3>1
  <2>2. CASE g # p
    <3>1. Count(g)' = Count(g)
      BY <1>2, <2>2, Names DEF Count
    <3>2. QED
      BY <3>1, CountTyped
  <2>3. QED
    BY <2>1, <2>2
<1>6. ASSUME NEW g \in Senders
      PROVE  sends'[g] = sends[g] \/ Sending(g, sends'[g], Count(g)', heard)
  <2>1. CASE g = p
    BY <1>1, <1>3, <1>4, <2>1 DEF StateOK, ChannelOK
  <2>2. CASE g # p
    BY <1>1, <2>2 DEF StateOK, ChannelOK
  <2>3. QED
    BY <2>1, <2>2
<1>7. sends'[Loop] # <<>> <=> At(Loop, "emit")'
  <2>1. CASE p = Loop
    <3>1. sends'[Loop] = a /\ a # <<>>
      BY <1>1, <2>1 DEF StateOK, ChannelOK
    <3>2. QED
      BY <1>1, <1>2, <2>1, <3>1 DEF At
  <2>2. CASE p # Loop
    BY <1>1, <1>2, <2>2, Names DEF SendersNumber, At, StateOK, ChannelOK
  <2>3. QED
    BY <2>1, <2>2
<1>8. QED
  BY <1>5, <1>6, <1>7, SendersGoOn

-----------------------------------------------------------------------------
(* What the agent is told, step by step                                    *)

\* Where the loop is says what it dispatches and what it has read.
DispatchOK ==
  /\ At(Loop, "handle") => event.type \in NewsTypes \cup {"position_changed"}
  /\ At(Loop, "stash") => event.type \in NewsTypes /\ proc[Loop].buf = msgs[Session(Loop)]
  /\ At(Loop, "remind") => proc[Loop].buf = msgs[Session(Loop)]
  /\ proc[Loop].pc \notin {"receive", "handle", "stash"} => event.type = "update_finish"
  /\ proc[Loop].pc \in LoopPcs \ {"finish"} => proc[Loop].answer = NoAnswer
  /\ proc[Loop].pc \in {"handle", "stash"} /\ event.type \in NewsTypes => event \in heard

TellsOK == \A s \in Sessions : Told(proc[Loop], event, heard, msgs[s], shown[s], s)

\* Chats stash reminders in no admin session's messages.
NoSharedStash == MemoryEnabled => \A c \in Chats : ChatSession[c] \notin Sessions
RemindersOK == \A c \in Chats : At(c, "remind") => MemoryEnabled

NewsInv == SendersNumber /\ DispatchOK /\ TellsOK /\ RemindersOK

LEMMA NewsInvTells == NewsInv => EachNewsToldOnce
<1> SUFFICES ASSUME NewsInv, NEW s \in Sessions
             PROVE  /\ heard \ Undelivered(s) \subseteq Unseen(s) \cup shown[s]
                    /\ Unseen(s) \cap shown[s] = {}
                    /\ \A i, j \in DOMAIN msgs[s] :
                         msgs[s][i] = msgs[s][j] => i = j \/ msgs[s][i] = Reminder
  BY DEF EachNewsToldOnce
<1>1. Told(proc[Loop], event, heard, msgs[s], shown[s], s)
  BY DEF NewsInv, TellsOK
<1>2. Undelivered(s) = UndeliveredAt(proc[Loop], event, s)
  BY DEF Undelivered, UndeliveredAt, Session
<1>3. Unseen(s) = UnseenAt(proc[Loop], msgs[s], s)
  BY DEF Unseen, UnseenAt, Deciding, DecidingAt, Session, At
<1>4. QED
  BY <1>1, <1>2, <1>3 DEF Told, NoRepeats

\* The sessions notice nothing.
LEMMA TellsSame ==
  ASSUME DispatchOK, TellsOK, proc'[Loop] = proc[Loop], UNCHANGED <<event, heard, shown>>,
         \A s \in Sessions : msgs'[s] = msgs[s], StateOK
  PROVE  DispatchOK' /\ TellsOK'
<1>1. Session(Loop) \in Sessions
  BY LoopTyped
<1>2. TellsOK'
  BY DEF TellsOK
<1>3. DispatchOK'
  BY <1>1 DEF DispatchOK, At, Session
<1>4. QED
  BY <1>2, <1>3

LEMMA PcNames ==
  /\ \A k, s : k.pc \in LoopPcs \ {"finish"} => ~DecidingAt(k, s)
  /\ \A k, s : k.pc \in (AgentPcs \ {"emit"}) \cup {"finish"} =>
       (DecidingAt(k, s) <=> k.session = s)
  /\ \A k, e, s : k.pc \notin {"handle", "stash"} => UndeliveredAt(k, e, s) = {}
  /\ {"receive", "handle", "stash", "load", "commands", "prompt"} \subseteq LoopPcs \ {"finish"}
  /\ {"generate", "remind", "schedule", "act", "finish"} \subseteq (AgentPcs \ {"emit"}) \cup {"finish"}
  /\ ~({"handle", "stash"} \cap ((AgentPcs \ {"emit"}) \cup {"finish"}) # {})
BY DEF LoopPcs, AgentPcs, DecidingAt, UndeliveredAt

\* Where the loop is after one session's callback.
LEMMA NextSessionIs ==
  ASSUME StateOK
  PROVE  /\ DOMAIN NextSession = Fields /\ NextSession.answer = NoAnswer
         /\ NextSession.pc \in LoopPcs \ {"finish"} /\ NextSession.pc # "stash"
         /\ NextSession.pc = "handle" => event.type # "update_finish"
         /\ NextSession.pc \notin {"receive", "handle"} => event.type = "update_finish"
         /\ event.type # "update_finish" => \A s \in Sessions :
              UndeliveredAt(NextSession, event, s) = IF Session(Loop) < s THEN {event} ELSE {}
<1>1. NumSessions \in Nat /\ Session(Loop) \in 1..NumSessions
  BY LoopTyped, LoopAssumption DEF Sessions
<1> DEFINE pc == FirstStep(event)
           s1 == Session(Loop) + 1
           k == [Idle(Loop) EXCEPT !.pc = pc, !.session = s1, !.cycle = window]
<1>2. /\ pc \in {"handle", "load", "prompt"}
      /\ pc = "handle" <=> event.type # "update_finish"
  BY DEF FirstStep
<1>3. /\ DOMAIN k = Fields /\ k.answer = NoAnswer /\ k.pc = pc /\ k.session = s1
      /\ DOMAIN Idle(Loop) = Fields /\ Idle(Loop).answer = NoAnswer /\ Idle(Loop).pc = "receive"
  BY DEF Idle, Fields
<1>4. NextSession = IF Session(Loop) < NumSessions THEN k ELSE Idle(Loop)
  BY DEF NextSession
<1> HIDE DEF k, pc
<1>5. CASE Session(Loop) < NumSessions
  <2>1. NextSession = k
    BY <1>4, <1>5
  <2>2. \A s \in Sessions : s1 <= s <=> Session(Loop) < s
    BY <1>1 DEF Sessions
  <2>3. QED
    BY <1>2, <1>3, <2>1, <2>2 DEF UndeliveredAt, LoopPcs
<1>6. CASE ~(Session(Loop) < NumSessions)
  <2>1. NextSession = Idle(Loop)
    BY <1>4, <1>6
  <2>2. \A s \in Sessions : ~(Session(Loop) < s)
    BY <1>1, <1>6 DEF Sessions
  <2>3. QED
    BY <1>3, <2>1, <2>2 DEF UndeliveredAt, LoopPcs
<1>7. QED
  BY <1>5, <1>6

LEMMA ReminderIsNoNews == Reminder.type = "reminder" /\ Reminder.type \notin SentTypes
BY DEF Reminder, Event, SentTypes, NewsTypes

\* The loop moves and does not send; chats stay where they are.
LEMMA LoopQuiet ==
  ASSUME StateOK, StateOK', NewsInv, NEW k, proc' = [proc EXCEPT ![Loop] = k],
         UNCHANGED <<window, sends, outside, heard>>, k.pc # "emit", proc[Loop].pc # "emit"
  PROVE  SendersNumber' /\ RemindersOK'
<1>1. SendersNumber'
  BY Names, QuietMove DEF NewsInv
<1>2. \A c \in Chats : proc'[c] = proc[c]
  BY Names DEF StateOK, ControlsOK
<1>3. QED
  BY <1>1, <1>2 DEF NewsInv, RemindersOK, At

LEMMA ReceiveTells ==
  ASSUME StateOK, StateOK', NewsInv, NEW g \in Senders, Receive(g) PROVE NewsInv'
<1> DEFINE e == Head(sends[g])
           k == [Idle(Loop) EXCEPT !.pc = FirstStep(e), !.session = 1, !.cycle = window]
<1>1. SendersNumber'
  BY SendersReceived DEF NewsInv
<1>2. RemindersOK'
  <2>1. \A c \in Chats : proc'[c] = proc[c]
    BY Names DEF Receive, StateOK, ControlsOK
  <2>2. QED
    BY <2>1 DEF NewsInv, RemindersOK, At
<1>3. CASE e.type \notin includeEvents
  <2>1. UNCHANGED <<event, heard, proc, shown, msgs>>
    BY <1>3 DEF Receive, inbox
  <2>2. QED
    BY <1>1, <1>2, <2>1, TellsSame DEF NewsInv
<1>4. CASE e.type \in includeEvents
  <2>1. /\ At(Loop, "receive") /\ sends[g] # <<>>
        /\ event' = e /\ proc' = [proc EXCEPT ![Loop] = k]
        /\ heard' = IF e.type \in NewsTypes THEN heard \cup {e} ELSE heard
        /\ UNCHANGED <<msgs, shown>>
    BY <1>4 DEF Receive, inbox
  <2>2. e \in ToSet(sends[g]) /\ e \notin heard /\ e.type \in SentTypes
    BY <2>1, HeadTyped DEF NewsInv, SendersNumber, Sending
  <2>3. /\ k.pc = FirstStep(e) /\ k.session = 1 /\ k.answer = NoAnswer
    BY DEF Idle
  <2>4. /\ FirstStep(e) = "handle" <=> e.type # "update_finish"
        /\ FirstStep(e) \in {"handle", "load", "prompt"}
    BY DEF FirstStep
  <2>5. proc'[Loop] = k
    BY <2>1, Names DEF StateOK, ControlsOK
  <2> HIDE DEF e, k
  <2>6. DispatchOK'
    BY <2>1, <2>2, <2>3, <2>4, <2>5, PcNames DEF DispatchOK, At, SentTypes
  <2>7. TellsOK'
    <3> SUFFICES ASSUME NEW s \in Sessions
                 PROVE  Told(k, e, heard', msgs[s], shown[s], s)
      BY <2>1, <2>5 DEF TellsOK
    <3>1. /\ ~DecidingAt(proc[Loop], s) /\ ~DecidingAt(k, s)
          /\ UndeliveredAt(proc[Loop], event, s) = {}
      BY <2>1, <2>3, <2>4, PcNames DEF At
    <3>2. Told(proc[Loop], event, heard, msgs[s], shown[s], s)
      BY DEF NewsInv, TellsOK
    <3>3. e # Reminder
      BY <2>2, ReminderIsNoNews
    <3>4. 1 <= s
      BY DEF Sessions
    <3>5. CASE e.type \in NewsTypes
      <4>1. k.pc = "handle"
        BY <2>3, <2>4, <3>5 DEF NewsTypes
      <4>2. UndeliveredAt(k, e, s) = {e}
        BY <2>3, <3>4, <4>1 DEF UndeliveredAt
      <4>3. heard' = heard \cup {e}
        BY <2>1, <3>5
      <4>4. QED
        BY <2>2, <3>1, <3>2, <3>3, <4>2, <4>3, ToldHeard
    <3>6. CASE e.type \notin NewsTypes
      <4>1. heard' = heard
        BY <2>1, <3>6
      <4>2. UndeliveredAt(k, e, s) \subseteq {e}
        BY DEF UndeliveredAt
      <4>3. UndeliveredAt(k, e, s) \cap heard = {} /\ Reminder \notin UndeliveredAt(k, e, s)
        BY <2>2, <3>3, <4>2
      <4>4. QED
        BY <3>1, <3>2, <4>1, <4>3, ToldOther
    <3>7. QED
      BY <3>5, <3>6
  <2>8. QED
    BY <1>1, <1>2, <2>6, <2>7 DEF NewsInv
<1>5. QED
  BY <1>3, <1>4

LEMMA PositionTells ==
  ASSUME StateOK, StateOK', NewsInv, HandlePositionChanged PROVE NewsInv'
<1> DEFINE k == NextSession
<1>1. /\ proc' = [proc EXCEPT ![Loop] = k] /\ proc'[Loop] = k
      /\ At(Loop, "handle") /\ event.type = "position_changed"
      /\ UNCHANGED <<window, sends, event, outside, heard, msgs, shown>>
  BY Names DEF HandlePositionChanged, StateOK, ControlsOK
<1>2. /\ k.answer = NoAnswer /\ k.pc \in LoopPcs \ {"finish"} /\ k.pc # "stash"
      /\ k.pc \in {"receive", "handle"}
      /\ \A s \in Sessions : UndeliveredAt(k, event, s) = IF Session(Loop) < s THEN {event} ELSE {}
  BY <1>1, NextSessionIs
<1> HIDE DEF k
<1>3. SendersNumber' /\ RemindersOK'
  BY <1>1, <1>2, LoopQuiet DEF At
<1>4. DispatchOK'
  BY <1>1, <1>2 DEF DispatchOK, At, NewsTypes
<1>5. TellsOK'
  <2> SUFFICES ASSUME NEW s \in Sessions PROVE Told(k, event, heard, msgs[s], shown[s], s)
    BY <1>1 DEF TellsOK
  <2>1. Told(proc[Loop], event, heard, msgs[s], shown[s], s)
    BY DEF NewsInv, TellsOK
  <2>2. ~DecidingAt(proc[Loop], s) /\ ~DecidingAt(k, s)
    BY <1>1, <1>2, PcNames DEF At
  <2>3. event \notin heard /\ event # Reminder
    BY <1>1, ReminderIsNoNews DEF NewsInv, SendersNumber, NewsTypes, SentTypes
  <2>4. UndeliveredAt(proc[Loop], event, s) \subseteq {event} /\ UndeliveredAt(k, event, s) \subseteq {event}
    BY DEF UndeliveredAt
  <2>5. QED
    BY <2>1, <2>2, <2>3, <2>4, ToldOther
<1>6. QED
  BY <1>3, <1>4, <1>5 DEF NewsInv

LEMMA HandleTells ==
  ASSUME StateOK, StateOK', NewsInv, HandleNews PROVE NewsInv'
<1> DEFINE k == [proc[Loop] EXCEPT !.pc = "stash", !.buf = msgs[Session(Loop)]]
<1>0. DOMAIN proc[Loop] = Fields /\ DOMAIN proc = Procs
  BY LoopTyped DEF GoodControl, StateOK, ControlsOK
<1>1. /\ proc' = [proc EXCEPT ![Loop] = k] /\ proc'[Loop] = k
      /\ At(Loop, "handle") /\ event.type # "position_changed"
      /\ UNCHANGED <<window, sends, event, outside, heard, msgs, shown>>
  BY <1>0, Names DEF HandleNews
<1>2. /\ k.pc = "stash" /\ k.buf = msgs[Session(Loop)] /\ k.session = Session(Loop)
      /\ k.answer = proc[Loop].answer
  BY <1>0 DEF Fields, Session
<1> HIDE DEF k
<1>3. SendersNumber' /\ RemindersOK'
  BY <1>1, <1>2, LoopQuiet DEF At
<1>4. event.type \in NewsTypes /\ event \in heard /\ proc[Loop].answer = NoAnswer
  BY <1>1, PcNames DEF NewsInv, DispatchOK, At
<1>5. DispatchOK'
  BY <1>1, <1>2, <1>4 DEF DispatchOK, At, Session
<1>6. TellsOK'
  <2> SUFFICES ASSUME NEW s \in Sessions PROVE Told(k, event, heard, msgs[s], shown[s], s)
    BY <1>1 DEF TellsOK
  <2>1. Told(proc[Loop], event, heard, msgs[s], shown[s], s)
    BY DEF NewsInv, TellsOK
  <2>2. ~DecidingAt(proc[Loop], s) /\ ~DecidingAt(k, s)
    BY <1>1, <1>2, PcNames DEF At
  <2>3. UndeliveredAt(k, event, s) = UndeliveredAt(proc[Loop], event, s)
    BY <1>1, <1>2 DEF UndeliveredAt, At, Session
  <2>4. QED
    BY <2>1, <2>2, <2>3, ToldSame
<1>7. QED
  BY <1>3, <1>5, <1>6 DEF NewsInv

LEMMA StashTells ==
  ASSUME StateOK, StateOK', NewsInv, stashMsg PROVE NewsInv'
<1> DEFINE k == NextSession
           here == Session(Loop)
<1>1. /\ proc' = [proc EXCEPT ![Loop] = k] /\ proc'[Loop] = k
      /\ At(Loop, "stash")
      /\ msgs' = [msgs EXCEPT ![here] = Append(proc[Loop].buf, event)]
      /\ UNCHANGED <<window, sends, event, outside, heard, shown>>
  BY Names DEF stashMsg, StateOK, ControlsOK
<1>2. event.type \in NewsTypes /\ event \in heard /\ proc[Loop].buf = msgs[here]
  BY <1>1 DEF NewsInv, DispatchOK, At
<1>3. /\ k.answer = NoAnswer /\ k.pc \in LoopPcs \ {"finish"} /\ k.pc # "stash"
      /\ k.pc \in {"receive", "handle"}
      /\ \A s \in Sessions : UndeliveredAt(k, event, s) = IF here < s THEN {event} ELSE {}
  BY <1>2, NextSessionIs DEF NewsTypes
<1>4. here \in Sessions /\ here \in AllSessions /\ DOMAIN msgs = AllSessions
  BY LoopTyped DEF StateOK, InboxOK
<1>5. /\ UndeliveredAt(proc[Loop], event, here) = {event}
      /\ \A s \in Sessions : here <= s => UndeliveredAt(proc[Loop], event, s) = {event}
      /\ \A s \in Sessions : ~(here <= s) => UndeliveredAt(proc[Loop], event, s) = {}
  <2>1. here \in Nat /\ proc[Loop].session = here /\ proc[Loop].pc \in {"handle", "stash"}
    BY <1>1, <1>4, SessionNumbers DEF At, Session
  <2>2. here <= here
    BY <2>1
  <2> HIDE DEF here
  <2>3. QED
    BY <2>1, <2>2 DEF UndeliveredAt
<1> HIDE DEF k, here
<1>6. SendersNumber' /\ RemindersOK'
  BY <1>1, <1>3, LoopQuiet DEF At
<1>7. DispatchOK'
  BY <1>1, <1>2, <1>3 DEF DispatchOK, At, NewsTypes
<1>8. TellsOK'
  <2> SUFFICES ASSUME NEW s \in Sessions PROVE Told(k, event, heard, msgs'[s], shown[s], s)
    BY <1>1 DEF TellsOK
  <2>1. Told(proc[Loop], event, heard, msgs[s], shown[s], s)
    BY DEF NewsInv, TellsOK
  <2>2. ~DecidingAt(proc[Loop], s) /\ ~DecidingAt(k, s)
    BY <1>1, <1>3, PcNames DEF At
  <2>3. CASE s = here
    <3>1. msgs'[s] = Append(msgs[s], event) /\ msgs[s] \in Seq(Events) /\ event \in Events
      BY <1>1, <1>2, <1>4, <2>3 DEF StateOK, InboxOK, ChannelOK
    <3>2. UndeliveredAt(k, event, s) = {}
      BY <1>3, <1>4, <2>3, SessionNumbers
    <3>3. event # Reminder
      BY <1>2, ReminderIsNoNews DEF SentTypes
    <3>4. QED
      BY <1>2, <1>5, <2>1, <2>2, <2>3, <3>1, <3>2, <3>3, ToldStashed
  <2>4. CASE s # here
    <3>1. msgs'[s] = msgs[s]
      BY <1>1, <1>4, <2>4, SessionNumbers
    <3>2. UndeliveredAt(k, event, s) = UndeliveredAt(proc[Loop], event, s)
      <4>1. here \in Nat /\ s \in Nat
        BY <1>4, SessionNumbers
      <4>2. here < s <=> here <= s
        BY <2>4, <4>1
      <4>3. QED
        BY <1>3, <1>5, <4>2
    <3>3. QED
      BY <2>1, <2>2, <3>1, <3>2, ToldSame
  <2>5. QED
    BY <2>3, <2>4
<1>9. QED
  BY <1>6, <1>7, <1>8 DEF NewsInv

\* The loop moves on while no session has been prompted for this update.
LEMMA CollectingMove ==
  ASSUME StateOK, StateOK', NewsInv, NEW k, proc' = [proc EXCEPT ![Loop] = k],
         UNCHANGED <<event, heard, shown, msgs>>, SendersNumber', RemindersOK',
         proc[Loop].pc \in {"load", "commands", "prompt"},
         k.pc \in {"receive", "load", "commands", "prompt", "emit"}, k.answer = NoAnswer
  PROVE  NewsInv'
<1>1. proc'[Loop] = k
  BY Names DEF StateOK, ControlsOK
<1>2. event.type = "update_finish"
  BY DEF NewsInv, DispatchOK
<1>3. DispatchOK'
  BY <1>1, <1>2 DEF DispatchOK, At
<1>4. TellsOK'
  <2> SUFFICES ASSUME NEW s \in Sessions PROVE Told(k, event, heard, msgs[s], shown[s], s)
    BY <1>1 DEF TellsOK
  <2>1. Told(proc[Loop], event, heard, msgs[s], shown[s], s)
    BY DEF NewsInv, TellsOK
  <2>2. ~DecidingAt(proc[Loop], s) /\ ~DecidingAt(k, s)
    BY DEF DecidingAt, AgentPcs
  <2>3. UndeliveredAt(proc[Loop], event, s) = {} /\ UndeliveredAt(k, event, s) = {}
    BY DEF UndeliveredAt
  <2>4. QED
    BY <2>1, <2>2, <2>3, ToldSame
<1>5. QED
  BY <1>3, <1>4 DEF NewsInv

LEMMA LoadTells == ASSUME StateOK, StateOK', NewsInv, LoadCommands PROVE NewsInv'
<1> DEFINE pc == IF pending = <<>> THEN "prompt" ELSE "commands"
           k == [proc[Loop] EXCEPT !.pc = pc, !.todo = pending]
<1>0. DOMAIN proc[Loop] = Fields /\ DOMAIN proc = Procs
  BY LoopTyped DEF GoodControl, StateOK, ControlsOK
<1>1. /\ proc' = [proc EXCEPT ![Loop] = k] /\ proc[Loop].pc = "load"
      /\ UNCHANGED <<window, sends, event, outside, heard, msgs, shown>>
  BY <1>0, Names DEF LoadCommands, At, inbox
<1>2. k.pc \in {"prompt", "commands"} /\ k.answer = proc[Loop].answer
  BY <1>0 DEF Fields
<1>3. proc[Loop].answer = NoAnswer
  BY <1>1, PcNames DEF NewsInv, DispatchOK
<1> HIDE DEF k
<1>4. SendersNumber' /\ RemindersOK'
  BY <1>1, <1>2, LoopQuiet
<1>5. QED
  BY <1>1, <1>2, <1>3, <1>4, CollectingMove

LEMMA SaveTells == ASSUME StateOK, StateOK', NewsInv, SaveStatuses PROVE NewsInv'
<1> DEFINE k == [proc[Loop] EXCEPT !.pc = "prompt"]
<1>0. DOMAIN proc[Loop] = Fields /\ DOMAIN proc = Procs
  BY LoopTyped DEF GoodControl, StateOK, ControlsOK
<1>1. /\ proc' = [proc EXCEPT ![Loop] = k] /\ proc[Loop].pc = "commands"
      /\ UNCHANGED <<window, sends, event, outside, heard, msgs, shown>>
  BY <1>0, Names DEF SaveStatuses, Goto, At, inbox
<1>2. k.pc = "prompt" /\ k.answer = proc[Loop].answer
  BY <1>0 DEF Fields
<1>3. proc[Loop].answer = NoAnswer
  BY <1>1, PcNames DEF NewsInv, DispatchOK
<1> HIDE DEF k
<1>4. SendersNumber' /\ RemindersOK'
  BY <1>1, <1>2, LoopQuiet
<1>5. QED
  BY <1>1, <1>2, <1>3, <1>4, CollectingMove

LEMMA RenderTells == ASSUME StateOK, StateOK', NewsInv, RenderFails PROVE NewsInv'
<1> DEFINE k == NextSession
<1>1. /\ proc' = [proc EXCEPT ![Loop] = k] /\ proc[Loop].pc = "prompt"
      /\ UNCHANGED <<window, sends, event, outside, heard, msgs, shown>>
  BY DEF RenderFails, At, inbox
<1>2. event.type = "update_finish"
  BY <1>1 DEF NewsInv, DispatchOK
<1>3. k.pc \in {"receive", "load", "prompt"} /\ k.answer = NoAnswer
  BY <1>2 DEF NextSession, FirstStep, Idle
<1> HIDE DEF k
<1>4. SendersNumber' /\ RemindersOK'
  BY <1>1, <1>3, LoopQuiet
<1>5. QED
  BY <1>1, <1>3, <1>4, CollectingMove

\* A chat's or the loop's trading command that has returned.
LEMMA CommandReturned ==
  ASSUME StateOK, StateOK', NewsInv, NEW p \in Procs, NEW name, NEW k,
         CommandSucceeds(p, name, k) \/ CommandFails(p, name, k),
         UNCHANGED <<window, outside, heard>>,
         p = Loop => k.pc # "emit" /\ proc[Loop].pc # "emit",
         proc[p].pc \notin {"idle", "emit"}, k.pc # "remind"
  PROVE  /\ SendersNumber' /\ RemindersOK'
         /\ proc' = [proc EXCEPT ![p] = k]
<1>1. proc' = [proc EXCEPT ![p] = k] /\ UNCHANGED sends
  BY DEF CommandSucceeds, CommandFails
<1>2. SendersNumber'
  BY <1>1, QuietMove DEF NewsInv
<1>3. RemindersOK'
  <2>1. \A c \in Chats : proc'[c] = proc[c] \/ proc'[c] = k
    BY <1>1, Names DEF StateOK, ControlsOK
  <2>2. QED
    BY <2>1 DEF NewsInv, RemindersOK, At
<1>4. QED
  BY <1>1, <1>2, <1>3

\* A command whose result waits to be received.
LEMMA CommandSends ==
  ASSUME StateOK, StateOK', NewsInv, NEW p \in Procs, NEW name, NEW next,
         CommandEmits(p, name, next), DOMAIN next = Fields,
         UNCHANGED <<window, outside, heard>>, proc[p].pc \notin {"idle", "emit"}
  PROVE  /\ SendersNumber' /\ RemindersOK'
         /\ proc' = [proc EXCEPT ![p] = [next EXCEPT !.pc = "emit"]]
         /\ [next EXCEPT !.pc = "emit"].pc = "emit"
         /\ [next EXCEPT !.pc = "emit"].answer = next.answer
         /\ [next EXCEPT !.pc = "emit"].session = next.session
<1> DEFINE k == [next EXCEPT !.pc = "emit"]
<1>1. proc' = [proc EXCEPT ![p] = k]
  BY DEF CommandEmits
<1>2. k.pc = "emit" /\ k.answer = next.answer /\ k.session = next.session
  BY DEF Fields
<1>3. SendersNumber'
  BY EmitSends DEF NewsInv
<1> HIDE DEF k
<1>4. RemindersOK'
  <2>1. \A c \in Chats : proc'[c] = proc[c] \/ proc'[c] = k
    BY <1>1, Names DEF StateOK, ControlsOK
  <2>2. QED
    BY <1>2, <2>1 DEF NewsInv, RemindersOK, At
<1>5. QED
  BY <1>1, <1>2, <1>3, <1>4 DEF k

LEMMA ExecuteTells == ASSUME StateOK, StateOK', NewsInv, ExecuteCommand PROVE NewsInv'
<1> DEFINE cmd == Head(proc[Loop].todo)
           next == [proc[Loop] EXCEPT !.todo = Tail(proc[Loop].todo), !.done = proc[Loop].done \cup {cmd.id}]
           name == cmd.name
<1>0. DOMAIN proc[Loop] = Fields
  BY LoopTyped DEF GoodControl
<1>1. DOMAIN next = Fields /\ next.pc = proc[Loop].pc /\ next.answer = proc[Loop].answer
  BY <1>0 DEF Fields
<1>2. \/ CommandSucceeds(Loop, name, next)
      \/ CommandFails(Loop, name, next)
      \/ CommandEmits(Loop, name, next)
  BY DEF ExecuteCommand
<1>3. proc[Loop].pc = "commands" /\ UNCHANGED <<window, event, outside, heard, shown, msgs>>
  BY DEF ExecuteCommand, At, inbox
<1>4. proc[Loop].answer = NoAnswer
  BY <1>3, PcNames DEF NewsInv, DispatchOK
<1> HIDE DEF next, name
<1>5. CASE CommandEmits(Loop, name, next)
  <2> DEFINE k == [next EXCEPT !.pc = "emit"]
  <2>1. /\ SendersNumber' /\ RemindersOK' /\ proc' = [proc EXCEPT ![Loop] = k]
        /\ k.pc = "emit" /\ k.answer = next.answer
    BY <1>1, <1>3, <1>5, Names, CommandSends
  <2> HIDE DEF k
  <2>2. QED
    BY <1>1, <1>3, <1>4, <2>1, CollectingMove
<1>6. CASE CommandSucceeds(Loop, name, next) \/ CommandFails(Loop, name, next)
  <2>1. SendersNumber' /\ RemindersOK' /\ proc' = [proc EXCEPT ![Loop] = next]
    BY <1>1, <1>3, <1>6, Names, CommandReturned
  <2>2. QED
    BY <1>1, <1>3, <1>4, <2>1, CollectingMove
<1>7. QED
  BY <1>2, <1>5, <1>6

\* A session's messages change while the others' stay as they are.
LEMMA SessionsTold ==
  ASSUME StateOK, NEW k, proc'[Loop] = k, UNCHANGED <<event, heard>>, NewsInv,
         \A s \in Sessions : UndeliveredAt(k, event, s) = {} /\ UndeliveredAt(proc[Loop], event, s) = {},
         \A s \in Sessions : s # Session(Loop) =>
           /\ msgs'[s] = msgs[s] /\ shown'[s] = shown[s]
           /\ ~DecidingAt(k, s),
         Told(k, event, heard, msgs'[Session(Loop)], shown'[Session(Loop)], Session(Loop))
  PROVE  TellsOK'
<1> SUFFICES ASSUME NEW s \in Sessions PROVE Told(k, event, heard, msgs'[s], shown'[s], s)
  BY DEF TellsOK
<1>1. CASE s = Session(Loop)
  BY <1>1
<1>2. CASE s # Session(Loop)
  <2>1. ~DecidingAt(proc[Loop], s)
    BY <1>2 DEF DecidingAt, Session
  <2>2. Told(proc[Loop], event, heard, msgs[s], shown[s], s)
    BY DEF NewsInv, TellsOK
  <2>3. QED
    BY <1>2, <2>1, <2>2, ToldSame
<1>3. QED
  BY <1>1, <1>2

LEMMA NothingTells == ASSUME StateOK, StateOK', NewsInv, NothingToDecide PROVE NewsInv'
<1> DEFINE k == [proc[Loop] EXCEPT !.pc = "finish"]
           here == Session(Loop)
<1>0. DOMAIN proc[Loop] = Fields /\ DOMAIN proc = Procs
  BY LoopTyped DEF GoodControl, StateOK, ControlsOK
<1>1. /\ proc' = [proc EXCEPT ![Loop] = k] /\ proc'[Loop] = k
      /\ proc[Loop].pc = "prompt" /\ msgs[here] = <<>> /\ here \in Sessions
      /\ UNCHANGED <<window, sends, event, outside, heard, msgs, shown>>
  BY <1>0, Names, LoopTyped DEF NothingToDecide, Goto, At, inbox
<1>2. k.pc = "finish" /\ k.session = here
  BY <1>0 DEF Fields, Session
<1> HIDE DEF k, here
<1>3. SendersNumber' /\ RemindersOK'
  BY <1>1, <1>2, LoopQuiet
<1>4. DispatchOK'
  BY <1>1, <1>2 DEF NewsInv, DispatchOK, At
<1>5. \A s \in Sessions : UndeliveredAt(k, event, s) = {} /\ UndeliveredAt(proc[Loop], event, s) = {}
  BY <1>1, <1>2 DEF UndeliveredAt
<1>6. Told(k, event, heard, msgs[here], shown[here], here)
  <2>1. Told(proc[Loop], event, heard, msgs[here], shown[here], here)
    BY <1>1 DEF NewsInv, TellsOK
  <2>2. ~DecidingAt(proc[Loop], here) /\ DecidingAt(k, here)
    BY <1>1, <1>2 DEF DecidingAt, AgentPcs
  <2>3. QED
    BY <1>1, <1>5, <2>1, <2>2, ToldNothing
<1>7. \A s \in Sessions : s # here => ~DecidingAt(k, s)
  BY <1>2 DEF DecidingAt
<1>8. TellsOK'
  BY <1>1, <1>5, <1>6, <1>7, SessionsTold DEF here
<1>9. QED
  BY <1>3, <1>4, <1>8 DEF NewsInv

LEMMA StartTells == ASSUME StateOK, StateOK', NewsInv, StartDecision PROVE NewsInv'
<1> DEFINE k == [proc[Loop] EXCEPT !.pc = "generate", !.retry = MaxRetryTime]
           here == Session(Loop)
<1>0. DOMAIN proc[Loop] = Fields /\ DOMAIN proc = Procs
  BY LoopTyped DEF GoodControl, StateOK, ControlsOK
<1>1. /\ proc' = [proc EXCEPT ![Loop] = k] /\ proc'[Loop] = k
      /\ proc[Loop].pc = "prompt" /\ here \in Sessions /\ here \in AllSessions
      /\ shown' = [shown EXCEPT ![here] = shown[here] \cup ToSet(msgs[here])]
      /\ UNCHANGED <<window, sends, event, outside, heard, msgs>>
  BY <1>0, Names, LoopTyped DEF StartDecision, Goto, At, inbox
<1>2. k.pc = "generate" /\ k.session = here
  BY <1>0 DEF Fields, Session
<1> HIDE DEF k, here
<1>3. SendersNumber' /\ RemindersOK'
  BY <1>1, <1>2, LoopQuiet
<1>4. DispatchOK'
  BY <1>1, <1>2 DEF NewsInv, DispatchOK, At, LoopPcs
<1>5. \A s \in Sessions : UndeliveredAt(k, event, s) = {} /\ UndeliveredAt(proc[Loop], event, s) = {}
  BY <1>1, <1>2 DEF UndeliveredAt
<1>a. /\ shown'[here] = shown[here] \cup ToSet(msgs[here])
      /\ \A s \in Sessions : s # here => shown'[s] = shown[s]
  BY <1>1, SessionNumbers DEF StateOK, InboxOK
<1>6. Told(k, event, heard, msgs[here], shown'[here], here)
  <2>1. Told(proc[Loop], event, heard, msgs[here], shown[here], here)
    BY <1>1 DEF NewsInv, TellsOK
  <2>2. ~DecidingAt(proc[Loop], here) /\ DecidingAt(k, here)
    BY <1>1, <1>2 DEF DecidingAt, AgentPcs
  <2>3. Told(k, event, heard, msgs[here], shown[here] \cup ToSet(msgs[here]), here)
    BY <1>1, <1>5, <2>1, <2>2, ToldPrompted
  <2>4. QED
    BY <1>a, <2>3
<1>7. \A s \in Sessions : s # here => ~DecidingAt(k, s)
  BY <1>2 DEF DecidingAt
<1>8. TellsOK'
  BY <1>1, <1>a, <1>5, <1>6, <1>7, SessionsTold DEF here
<1>9. QED
  BY <1>3, <1>4, <1>8 DEF NewsInv

LEMMA FinishTells == ASSUME StateOK, StateOK', NewsInv, FinishDecision PROVE NewsInv'
<1> DEFINE k == NextSession
           here == Session(Loop)
<1>1. /\ proc' = [proc EXCEPT ![Loop] = k] /\ proc'[Loop] = k
      /\ proc[Loop].pc = "finish" /\ here \in Sessions /\ here \in AllSessions
      /\ msgs' = [msgs EXCEPT ![here] = <<>>]
      /\ UNCHANGED <<window, sends, event, outside, heard, shown>>
  BY Names, LoopTyped DEF FinishDecision, At, StateOK, ControlsOK
<1>2. event.type = "update_finish"
  BY <1>1 DEF NewsInv, DispatchOK
<1>3. k.pc \in {"receive", "load", "prompt"} /\ k.answer = NoAnswer
  BY <1>2 DEF NextSession, FirstStep, Idle
<1>4. proc[Loop].session = here
  BY DEF Session
<1> HIDE DEF k, here
<1>5. SendersNumber' /\ RemindersOK'
  BY <1>1, <1>3, LoopQuiet
<1>6. DispatchOK'
  BY <1>1, <1>2, <1>3 DEF NewsInv, DispatchOK, At
<1>7. \A s \in Sessions : UndeliveredAt(k, event, s) = {} /\ UndeliveredAt(proc[Loop], event, s) = {}
  BY <1>1, <1>3 DEF UndeliveredAt
<1>8. msgs'[here] = <<>> /\ \A s \in Sessions : s # here => msgs'[s] = msgs[s]
  BY <1>1, SessionNumbers DEF StateOK, InboxOK
<1>9. Told(k, event, heard, <<>>, shown[here], here)
  <2>1. Told(proc[Loop], event, heard, msgs[here], shown[here], here)
    BY <1>1 DEF NewsInv, TellsOK
  <2>2. DecidingAt(proc[Loop], here) /\ ~DecidingAt(k, here)
    BY <1>1, <1>3, <1>4 DEF DecidingAt, AgentPcs
  <2>3. QED
    BY <1>1, <1>7, <2>1, <2>2, ToldDropped
<1>10. \A s \in Sessions : ~DecidingAt(k, s)
  BY <1>3 DEF DecidingAt, AgentPcs
<1>11. TellsOK'
  BY <1>1, <1>7, <1>8, <1>9, <1>10, SessionsTold DEF here
<1>12. QED
  BY <1>5, <1>6, <1>11 DEF NewsInv

LEMMA LoopTells == ASSUME StateOK, StateOK', NewsInv, LoopStep PROVE NewsInv'
BY PositionTells, HandleTells, StashTells, LoadTells, ExecuteTells, SaveTells, NothingTells,
   RenderTells, StartTells, FinishTells DEF LoopStep

\* The agent's steps on the loop, up to the end of the decision.
LEMMA DecidingMove ==
  ASSUME StateOK, StateOK', NewsInv, NEW k, proc' = [proc EXCEPT ![Loop] = k],
         UNCHANGED <<event, heard, shown, msgs>>, SendersNumber', RemindersOK',
         proc[Loop].pc \in {"generate", "remind", "schedule", "act"},
         k.pc \in {"generate", "remind", "schedule", "act", "finish", "emit"},
         k.pc = "emit" => k.answer # NoAnswer, k.session = Session(Loop),
         k.pc = "remind" => k.buf = msgs[Session(Loop)]
  PROVE  NewsInv'
<1>1. proc'[Loop] = k
  BY Names DEF StateOK, ControlsOK
<1>2. event.type = "update_finish"
  BY DEF NewsInv, DispatchOK
<1>3. DispatchOK'
  BY <1>1, <1>2 DEF DispatchOK, At, Session, LoopPcs
<1>4. TellsOK'
  <2> SUFFICES ASSUME NEW s \in Sessions PROVE Told(k, event, heard, msgs[s], shown[s], s)
    BY <1>1 DEF TellsOK
  <2>1. Told(proc[Loop], event, heard, msgs[s], shown[s], s)
    BY DEF NewsInv, TellsOK
  <2>2. DecidingAt(proc[Loop], s) <=> DecidingAt(k, s)
    BY DEF DecidingAt, AgentPcs, Session
  <2>3. UndeliveredAt(proc[Loop], event, s) = {} /\ UndeliveredAt(k, event, s) = {}
    BY DEF UndeliveredAt
  <2>4. QED
    BY <2>1, <2>2, <2>3, ToldSame
<1>5. QED
  BY <1>3, <1>4 DEF NewsInv

LEMMA HowTheActionEnds ==
  ASSUME StateOK, NEW p \in Procs
  PROVE  /\ DOMAIN AfterAction(p) = Fields /\ DOMAIN Retry(p) = Fields
         /\ p = Loop => /\ AfterAction(p).pc = "finish" /\ AfterAction(p).session = Session(p)
                        /\ Retry(p).pc \in {"generate", "finish"} /\ Retry(p).session = Session(p)
         /\ p # Loop => AfterAction(p).pc = "idle" /\ Retry(p).pc \in {"generate", "idle"}
<1>1. /\ DOMAIN proc[p] = Fields
      /\ GoodControl(p, AfterAction(p), window) /\ GoodControl(p, Retry(p), window)
  BY ProcTyped, AfterActionGood, RetryGood DEF StateOK, GoodControl
<1>2. DOMAIN AfterAction(p) = Fields /\ DOMAIN Retry(p) = Fields
  BY <1>1 DEF GoodControl
<1>3. CASE p = Loop
  <2>1. AfterAction(p).pc = "finish" /\ AfterAction(p).session = Session(p)
    BY <1>1, <1>3 DEF AfterAction, Fields, Session
  <2>2. Retry(p).pc \in {"generate", "finish"} /\ Retry(p).session = Session(p)
    BY <1>1, <2>1 DEF Retry, Fields, Session
  <2>3. QED
    BY <1>2, <1>3, <2>1, <2>2
<1>4. CASE p # Loop
  <2>1. AfterAction(p).pc = "idle"
    BY <1>4 DEF AfterAction, Idle
  <2>2. Retry(p).pc \in {"generate", "idle"}
    BY <1>1, <2>1 DEF Retry, Fields
  <2>3. QED
    BY <1>2, <1>4, <2>1, <2>2
<1>5. QED
  BY <1>3, <1>4

\* A process moves on and nobody starts or stops sending.
LEMMA AgentQuiet ==
  ASSUME StateOK, StateOK', NewsInv, NEW p \in Procs, NEW k, proc' = [proc EXCEPT ![p] = k],
         UNCHANGED <<window, sends, outside, heard>>,
         p = Loop => k.pc # "emit" /\ proc[Loop].pc # "emit",
         p # Loop /\ proc[p].pc \in {"idle", "emit"} => k.pc \in {"idle", "emit"},
         k.pc = "remind" => MemoryEnabled
  PROVE  SendersNumber' /\ RemindersOK'
<1>1. SendersNumber'
  BY QuietMove DEF NewsInv
<1>2. \A c \in Chats : proc'[c] = proc[c] \/ proc'[c] = k
  BY Names DEF StateOK, ControlsOK
<1>3. RemindersOK'
  BY <1>2 DEF NewsInv, RemindersOK, At
<1>4. QED
  BY <1>1, <1>3

\* Where an answer takes the process.
LEMMA HowGenerateGoesOn ==
  ASSUME StateOK, NEW p \in Procs, Generate(p)
  PROVE  /\ UNCHANGED <<window, sends, event, outside, heard, msgs, shown>>
         /\ proc[p].pc = "generate"
         /\ \E k : /\ proc' = [proc EXCEPT ![p] = k] /\ k.session = proc[p].session
                   /\ k.pc \in {"remind", "schedule"}
                   /\ k.pc = "remind" => MemoryEnabled /\ k.buf = msgs[Session(p)]
<1>0. DOMAIN proc = Procs /\ DOMAIN proc[p] = Fields
  BY ProcTyped DEF StateOK, ControlsOK, GoodControl
<1>1. PICK a \in Answers :
        proc' = [proc EXCEPT ![p] =
          IF MemoryEnabled /\ a.truncated
          THEN [proc[p] EXCEPT !.pc = "remind", !.answer = a, !.buf = msgs[Session(p)]]
          ELSE [proc[p] EXCEPT !.pc = "schedule", !.answer = a]]
  BY <1>0 DEF Generate
<1> DEFINE b == [proc[p] EXCEPT !.pc = "remind", !.answer = a, !.buf = msgs[Session(p)]]
           c == [proc[p] EXCEPT !.pc = "schedule", !.answer = a]
<1>2. /\ b.session = proc[p].session /\ b.pc = "remind" /\ b.buf = msgs[Session(p)]
      /\ c.session = proc[p].session /\ c.pc = "schedule"
  BY <1>0 DEF Fields
<1>3. (proc' = [proc EXCEPT ![p] = b] /\ MemoryEnabled) \/ proc' = [proc EXCEPT ![p] = c]
  BY <1>1
<1> HIDE DEF b, c
<1>4. \E k : /\ proc' = [proc EXCEPT ![p] = k] /\ k.session = proc[p].session
             /\ k.pc \in {"remind", "schedule"}
             /\ k.pc = "remind" => MemoryEnabled /\ k.buf = msgs[Session(p)]
  BY <1>2, <1>3
<1>5. QED
  BY <1>4 DEF Generate, At, inbox

\* A process that goes to step pc without anything else of it changing.
LEMMA HowItGoesOn ==
  ASSUME StateOK, NEW p \in Procs, NEW pc, Goto(p, pc)
  PROVE  \E k : /\ proc' = [proc EXCEPT ![p] = k] /\ k.pc = pc
                /\ k.session = proc[p].session /\ k.answer = proc[p].answer
<1>0. DOMAIN proc = Procs /\ DOMAIN proc[p] = Fields
  BY ProcTyped DEF StateOK, ControlsOK, GoodControl
<1> DEFINE b == [proc[p] EXCEPT !.pc = pc]
<1>1. proc' = [proc EXCEPT ![p] = b]
  BY <1>0 DEF Goto
<1>2. b.session = proc[p].session /\ b.pc = pc /\ b.answer = proc[p].answer
  BY <1>0 DEF Fields
<1> HIDE DEF b
<1>3. QED
  BY <1>1, <1>2

LEMMA LoopRemindTells == ASSUME StateOK, StateOK', NewsInv, StashReminder(Loop) PROVE NewsInv'
<1> DEFINE here == Session(Loop)
<1>1. /\ proc[Loop].pc = "remind" /\ here \in Sessions /\ here \in AllSessions
      /\ msgs' = [msgs EXCEPT ![here] = Append(proc[Loop].buf, Reminder)]
      /\ UNCHANGED <<window, sends, event, outside, heard, shown>>
  BY LoopTyped DEF StashReminder, At
<1>2. proc[Loop].buf = msgs[here] /\ event.type = "update_finish"
  BY <1>1 DEF NewsInv, DispatchOK, At
<1>3. PICK k : proc' = [proc EXCEPT ![Loop] = k] /\ k.pc = "schedule" /\ k.session = proc[Loop].session
  BY Names, HowItGoesOn DEF StashReminder
<1>4. proc'[Loop] = k /\ k.session = here /\ proc[Loop].session = here
  BY <1>3, Names DEF StateOK, ControlsOK, Session
<1> HIDE DEF here
<1>5. SendersNumber' /\ RemindersOK'
  BY <1>1, <1>3, LoopQuiet
<1>6. DispatchOK'
  BY <1>1, <1>2, <1>3, <1>4 DEF DispatchOK, At, LoopPcs
<1>7. \A s \in Sessions : UndeliveredAt(k, event, s) = {} /\ UndeliveredAt(proc[Loop], event, s) = {}
  BY <1>1, <1>3 DEF UndeliveredAt
<1>8. /\ msgs'[here] = Append(msgs[here], Reminder) /\ msgs[here] \in Seq(Events)
      /\ \A s \in Sessions : s # here => msgs'[s] = msgs[s]
  BY <1>1, <1>2, SessionNumbers DEF StateOK, InboxOK
<1>9. Told(k, event, heard, Append(msgs[here], Reminder), shown[here], here)
  <2>1. Told(proc[Loop], event, heard, msgs[here], shown[here], here)
    BY <1>1 DEF NewsInv, TellsOK
  <2>2. DecidingAt(proc[Loop], here) /\ DecidingAt(k, here)
    BY <1>1, <1>3, <1>4 DEF DecidingAt, AgentPcs
  <2>3. Reminder \in Events
    BY KnownTypes, EventTyped DEF Reminder
  <2>4. QED
    BY <1>1, <1>7, <1>8, <2>1, <2>2, <2>3, ToldReminded
<1>10. \A s \in Sessions : s # here => ~DecidingAt(k, s)
  BY <1>4 DEF DecidingAt
<1>11. TellsOK'
  BY <1>1, <1>4, <1>7, <1>8, <1>9, <1>10, SessionsTold DEF here
<1>12. QED
  BY <1>5, <1>6, <1>11 DEF NewsInv

LEMMA LoopAgentTells == ASSUME StateOK, StateOK', NewsInv, AgentStep(Loop) PROVE NewsInv'
<1> DEFINE after == AfterAction(Loop)
           again == Retry(Loop)
           here == proc[Loop]
           name == proc[Loop].answer.action
<1>0. Loop \in Procs
  BY Names
<1>1. /\ DOMAIN after = Fields /\ DOMAIN again = Fields /\ DOMAIN here = Fields
      /\ after.pc = "finish" /\ again.pc \in {"generate", "finish"}
      /\ after.session = Session(Loop) /\ again.session = Session(Loop) /\ here.session = Session(Loop)
  BY <1>0, HowTheActionEnds, ProcTyped DEF GoodControl, Session
<1> HIDE DEF after, again, here, name
<1>2. ASSUME NEW k, proc' = [proc EXCEPT ![Loop] = k], UNCHANGED sends,
             UNCHANGED <<window, event, outside, heard, msgs, shown>>,
             proc[Loop].pc \in {"generate", "remind", "schedule", "act"},
             k.pc \in {"generate", "remind", "schedule", "act", "finish"}, k.session = Session(Loop),
             k.pc = "remind" => k.buf = msgs[Session(Loop)]
      PROVE  NewsInv'
  <2>1. SendersNumber' /\ RemindersOK'
    BY <1>2, LoopQuiet
  <2>2. QED
    BY <1>2, <2>1, DecidingMove
<1>3. CASE GenerateFails(Loop)
  <2>1. \/ CommandSucceeds(Loop, "close_position", after)
        \/ proc' = [proc EXCEPT ![Loop] = after] /\ UNCHANGED sends
    BY <1>3 DEF GenerateFails, after
  <2>2. proc' = [proc EXCEPT ![Loop] = after] /\ UNCHANGED sends
    BY <2>1 DEF CommandSucceeds
  <2>3. /\ UNCHANGED <<window, event, outside, heard, msgs, shown>>
        /\ proc[Loop].pc = "generate"
    BY <1>3 DEF GenerateFails, inbox, At
  <2>4. QED
    BY <1>1, <1>2, <2>2, <2>3
<1>4. CASE GenerateGarbage(Loop)
  <2>1. /\ UNCHANGED <<window, sends, event, outside, heard, msgs, shown>>
        /\ proc[Loop].pc = "generate" /\ proc' = [proc EXCEPT ![Loop] = again]
    BY <1>4 DEF GenerateGarbage, inbox, At, again
  <2>2. QED
    BY <1>1, <1>2, <2>1
<1>5. CASE Generate(Loop)
  <2>1. PICK k : /\ proc' = [proc EXCEPT ![Loop] = k] /\ k.session = proc[Loop].session
                 /\ k.pc \in {"remind", "schedule"}
                 /\ k.pc = "remind" => MemoryEnabled /\ k.buf = msgs[Session(Loop)]
    BY <1>0, <1>5, HowGenerateGoesOn
  <2>2. /\ UNCHANGED <<window, sends, event, outside, heard, msgs, shown>>
        /\ proc[Loop].pc = "generate"
    BY <1>0, <1>5, HowGenerateGoesOn
  <2>3. QED
    BY <1>2, <2>1, <2>2 DEF Session
<1>6. CASE StashReminder(Loop)
  BY <1>6, LoopRemindTells
<1>7. CASE processNextCommands(Loop)
  <2>1. PICK k : proc' = [proc EXCEPT ![Loop] = k] /\ k.pc = "act" /\ k.session = proc[Loop].session
    <3>1. Goto(Loop, "act")
      BY <1>7 DEF processNextCommands
    <3>2. QED
      BY <1>0, <3>1, HowItGoesOn
  <2>2. /\ UNCHANGED <<window, sends, event, outside, heard, msgs, shown>>
        /\ proc[Loop].pc = "schedule"
    BY <1>7 DEF processNextCommands, inbox, At
  <2>3. QED
    BY <1>2, <2>1, <2>2 DEF Session
<1>8. CASE Act(Loop)
  <2>1. \/ proc' = [proc EXCEPT ![Loop] = after] /\ UNCHANGED sends
        \/ CommandSucceeds(Loop, name, after)
        \/ CommandFails(Loop, name, again)
        \/ name # "" /\ CommandEmits(Loop, name, here)
    BY <1>8 DEF Act, after, again, here, name
  <2>2. /\ UNCHANGED <<window, event, outside, heard, msgs, shown>>
        /\ proc[Loop].pc = "act"
    BY <1>8 DEF Act, inbox, At
  <2>3. CASE name # "" /\ CommandEmits(Loop, name, here)
    <3> DEFINE k == [here EXCEPT !.pc = "emit"]
    <3>1. /\ SendersNumber' /\ RemindersOK' /\ proc' = [proc EXCEPT ![Loop] = k]
          /\ k.pc = "emit" /\ k.answer = here.answer /\ k.session = here.session
      <4>1. CommandEmits(Loop, name, here) /\ DOMAIN here = Fields
        BY <1>1, <2>3
      <4>2. proc[Loop].pc \notin {"idle", "emit"} /\ UNCHANGED <<window, outside, heard>>
        BY <2>2
      <4>3. QED
        BY <1>0, <4>1, <4>2, CommandSends
    <3>2. here.answer # NoAnswer
      <4>1. NoAnswer.action = ""
        BY DEF NoAnswer
      <4>2. here.answer.action # ""
        BY <2>3 DEF name, here
      <4>3. QED
        BY <4>1, <4>2
    <3> HIDE DEF k
    <3>3. QED
      BY <1>1, <2>2, <3>1, <3>2, DecidingMove
  <2>4. CASE CommandSucceeds(Loop, name, after)
    BY <1>1, <1>2, <2>2, <2>4 DEF CommandSucceeds
  <2>5. CASE CommandFails(Loop, name, again)
    BY <1>1, <1>2, <2>2, <2>5 DEF CommandFails
  <2>6. CASE proc' = [proc EXCEPT ![Loop] = after] /\ UNCHANGED sends
    BY <1>1, <1>2, <2>2, <2>6
  <2>7. QED
    BY <2>1, <2>3, <2>4, <2>5, <2>6
<1>9. CASE EmitReturns(Loop)
  BY <1>9 DEF EmitReturns, Returned, NewsInv, SendersNumber
<1>10. QED
  BY <1>3, <1>4, <1>5, <1>6, <1>7, <1>8, <1>9 DEF AgentStep

\* A chat's step that leaves the admin sessions' messages alone.
LEMMA ChatMove ==
  ASSUME StateOK, NewsInv, NEW c \in Chats, NEW k, proc' = [proc EXCEPT ![c] = k],
         UNCHANGED <<event, heard, shown>>, \A s \in Sessions : msgs'[s] = msgs[s],
         SendersNumber', RemindersOK'
  PROVE  NewsInv'
<1>1. proc'[Loop] = proc[Loop]
  BY Names DEF StateOK, ControlsOK
<1>2. QED
  BY <1>1, TellsSame DEF NewsInv

LEMMA ChatRemindTells ==
  ASSUME StateOK, StateOK', NewsInv, NoSharedStash, NEW c \in Chats, StashReminder(c) PROVE NewsInv'
<1>1. MemoryEnabled
  BY DEF StashReminder, NewsInv, RemindersOK
<1>2. Session(c) \notin Sessions
  <2>1. c \in Procs /\ c # Loop
    BY Names
  <2>2. proc[c].session = ChatSession[c]
    BY <2>1, ProcTyped DEF GoodControl
  <2>3. QED
    BY <1>1, <2>2 DEF NoSharedStash, Session
<1>3. \A s \in Sessions : msgs'[s] = msgs[s]
  BY <1>2, SessionNumbers DEF StashReminder, StateOK, InboxOK
<1>4. PICK k : proc' = [proc EXCEPT ![c] = k] /\ k.pc = "schedule"
  BY Names, HowItGoesOn DEF StashReminder
<1>5. UNCHANGED <<window, sends, event, outside, heard, shown>> /\ proc[c].pc = "remind"
  BY DEF StashReminder, At
<1>6. SendersNumber' /\ RemindersOK'
  BY <1>4, <1>5, Names, AgentQuiet
<1>7. QED
  BY <1>3, <1>4, <1>5, <1>6, ChatMove

LEMMA ChatAgentTells ==
  ASSUME StateOK, StateOK', NewsInv, NoSharedStash, NEW c \in Chats, AgentStep(c) PROVE NewsInv'
<1> DEFINE after == AfterAction(c)
           again == Retry(c)
           here == proc[c]
           name == proc[c].answer.action
<1>0. c \in Procs /\ c # Loop
  BY Names
<1>1. /\ DOMAIN here = Fields
      /\ after.pc = "idle" /\ again.pc \in {"generate", "idle"}
  BY <1>0, HowTheActionEnds, ProcTyped DEF GoodControl
<1> HIDE DEF after, again, here, name
<1>2. ASSUME NEW k, proc' = [proc EXCEPT ![c] = k], UNCHANGED sends,
             UNCHANGED <<window, event, outside, heard, msgs, shown>>,
             proc[c].pc \in {"idle", "emit"} => k.pc \in {"idle", "emit"},
             k.pc = "remind" => MemoryEnabled
      PROVE  NewsInv'
  <2>1. SendersNumber' /\ RemindersOK'
    BY <1>0, <1>2, AgentQuiet
  <2>2. QED
    BY <1>2, <2>1, ChatMove
<1>3. CASE GenerateFails(c)
  <2>1. \/ CommandSucceeds(c, "close_position", after)
        \/ proc' = [proc EXCEPT ![c] = after] /\ UNCHANGED sends
    BY <1>3 DEF GenerateFails, after
  <2>2. proc' = [proc EXCEPT ![c] = after] /\ UNCHANGED sends
    BY <2>1 DEF CommandSucceeds
  <2>3. UNCHANGED <<window, event, outside, heard, msgs, shown>>
    BY <1>3 DEF GenerateFails, inbox
  <2>4. QED
    BY <1>1, <1>2, <2>2, <2>3
<1>4. CASE GenerateGarbage(c)
  <2>1. /\ UNCHANGED <<window, sends, event, outside, heard, msgs, shown>>
        /\ proc[c].pc = "generate" /\ proc' = [proc EXCEPT ![c] = again]
    BY <1>4 DEF GenerateGarbage, inbox, At, again
  <2>2. QED
    BY <1>1, <1>2, <2>1
<1>5. CASE Generate(c)
  <2>1. PICK k : /\ proc' = [proc EXCEPT ![c] = k] /\ k.session = proc[c].session
                 /\ k.pc \in {"remind", "schedule"}
                 /\ k.pc = "remind" => MemoryEnabled /\ k.buf = msgs[Session(c)]
    BY <1>0, <1>5, HowGenerateGoesOn
  <2>2. /\ UNCHANGED <<window, sends, event, outside, heard, msgs, shown>>
        /\ proc[c].pc = "generate"
    BY <1>0, <1>5, HowGenerateGoesOn
  <2>3. QED
    BY <1>2, <2>1, <2>2
<1>6. CASE StashReminder(c)
  BY <1>6, ChatRemindTells
<1>7. CASE processNextCommands(c)
  <2>1. PICK k : proc' = [proc EXCEPT ![c] = k] /\ k.pc = "act" /\ k.session = proc[c].session
    <3>1. Goto(c, "act")
      BY <1>7 DEF processNextCommands
    <3>2. QED
      BY <1>0, <3>1, HowItGoesOn
  <2>2. /\ UNCHANGED <<window, sends, event, outside, heard, msgs, shown>>
        /\ proc[c].pc = "schedule"
    BY <1>7 DEF processNextCommands, inbox, At
  <2>3. QED
    BY <1>2, <2>1, <2>2
<1>8. CASE Act(c)
  <2>1. \/ proc' = [proc EXCEPT ![c] = after] /\ UNCHANGED sends
        \/ CommandSucceeds(c, name, after)
        \/ CommandFails(c, name, again)
        \/ CommandEmits(c, name, here)
    BY <1>8 DEF Act, after, again, here, name
  <2>2. /\ UNCHANGED <<window, event, outside, heard, msgs, shown>>
        /\ proc[c].pc = "act"
    BY <1>8 DEF Act, inbox, At
  <2>3. CASE CommandEmits(c, name, here)
    <3> DEFINE k == [here EXCEPT !.pc = "emit"]
    <3>1. SendersNumber' /\ RemindersOK' /\ proc' = [proc EXCEPT ![c] = k]
      <4>1. proc[c].pc \notin {"idle", "emit"} /\ UNCHANGED <<window, outside, heard>>
        BY <2>2
      <4>2. QED
        BY <1>0, <1>1, <2>3, <4>1, CommandSends
    <3> HIDE DEF k
    <3>2. QED
      BY <2>2, <3>1, ChatMove
  <2>4. CASE CommandSucceeds(c, name, after)
    BY <1>1, <1>2, <2>2, <2>4 DEF CommandSucceeds
  <2>5. CASE CommandFails(c, name, again)
    BY <1>1, <1>2, <2>2, <2>5 DEF CommandFails
  <2>6. CASE proc' = [proc EXCEPT ![c] = after] /\ UNCHANGED sends
    BY <1>1, <1>2, <2>2, <2>6
  <2>7. QED
    BY <2>1, <2>3, <2>4, <2>5, <2>6
<1>9. CASE EmitReturns(c)
  <2>1. /\ UNCHANGED <<window, sends, event, outside, heard, msgs, shown>>
        /\ proc' = [proc EXCEPT ![c] = after]
    BY <1>9 DEF EmitReturns, inbox, after
  <2>2. QED
    BY <1>1, <1>2, <2>1
<1>10. QED
  BY <1>3, <1>4, <1>5, <1>6, <1>7, <1>8, <1>9 DEF AgentStep

LEMMA OutsideTells == ASSUME StateOK, StateOK', NewsInv, Outside PROVE NewsInv'
<1>1. ASSUME UNCHANGED <<proc, event, heard, shown, msgs>>, SendersNumber' PROVE NewsInv'
  <2>1. RemindersOK'
    BY <1>1 DEF NewsInv, RemindersOK, At
  <2>2. DispatchOK' /\ TellsOK'
    BY <1>1, TellsSame DEF NewsInv
  <2>3. QED
    BY <1>1, <2>1, <2>2 DEF NewsInv
<1>2. CASE KLineClosed
  <2>1. SendersNumber'
    BY <1>2, KLineSends DEF NewsInv
  <2>2. QED
    BY <1>1, <1>2, <2>1 DEF KLineClosed, inbox
<1>3. CASE \E o \in orders : PositionOpens(o)
  <2>1. UNCHANGED <<window, sends, outside, proc, event, heard, shown, msgs>>
    BY <1>3 DEF PositionOpens, inbox
  <2>2. SendersNumber'
    BY <2>1, NoMove DEF NewsInv
  <2>3. QED
    BY <1>1, <2>1, <2>2
<1>4. CASE PositionCloses
  <2>1. SendersNumber'
    BY <1>4, CloseSends DEF NewsInv
  <2>2. QED
    BY <1>1, <1>4, <2>1 DEF PositionCloses, inbox
<1>5. CASE NewsArrives
  <2>1. SendersNumber'
    BY <1>5, NewsSends DEF NewsInv
  <2>2. QED
    BY <1>1, <1>5, <2>1 DEF NewsArrives, inbox
<1>6. CASE \E c \in Chats : ChatMessage(c)
  <2>1. PICK c \in Chats : ChatMessage(c)
    BY <1>6
  <2> DEFINE k == [Idle(c) EXCEPT !.pc = "generate", !.retry = MaxRetryTime, !.cycle = window]
  <2>2. proc' = [proc EXCEPT ![c] = k] /\ UNCHANGED <<event, heard, shown, msgs>>
    BY <2>1 DEF ChatMessage, inbox
  <2>3. SendersNumber'
    BY <2>1, ChatSends DEF NewsInv
  <2>4. k.pc = "generate"
    BY DEF Idle
  <2> HIDE DEF k
  <2>5. RemindersOK'
    <3>1. \A d \in Chats : proc'[d] = proc[d] \/ proc'[d] = k
      BY <2>2, Names DEF StateOK, ControlsOK
    <3>2. QED
      BY <2>4, <3>1 DEF NewsInv, RemindersOK, At
  <2>6. QED
    BY <2>2, <2>3, <2>5, ChatMove
<1>7. QED
  BY <1>2, <1>3, <1>4, <1>5, <1>6 DEF Outside

LEMMA StepTells ==
  ASSUME StateOK, StateOK', NewsInv, NoSharedStash, [Next]_vars PROVE NewsInv'
<1>1. CASE UNCHANGED vars
  <2>1. SendersNumber'
    BY <1>1, NoMove DEF vars, NewsInv
  <2>2. RemindersOK'
    BY <1>1 DEF vars, NewsInv, RemindersOK, At
  <2>3. DispatchOK' /\ TellsOK'
    BY <1>1, TellsSame DEF vars, inbox, NewsInv
  <2>4. QED
    BY <2>1, <2>2, <2>3 DEF NewsInv
<1>2. CASE \E p \in Procs : AgentStep(p)
  <2>1. PICK p \in Procs : AgentStep(p)
    BY <1>2
  <2>2. p = Loop \/ p \in Chats
    BY DEF Procs
  <2>3. QED
    BY <2>1, <2>2, LoopAgentTells, ChatAgentTells
<1>3. QED
  BY <1>1, <1>2, OutsideTells, ReceiveTells, LoopTells DEF Next

LEMMA StartsTelling == Init => NewsInv
<1> SUFFICES ASSUME Init PROVE NewsInv
  OBVIOUS
<1>0. StateOK
  BY StartsTyped
<1>1. proc[Loop] = Idle(Loop) /\ proc[Loop].pc = "receive" /\ proc[Loop].answer = NoAnswer
  BY Names DEF Init, Idle
<1>2. SendersNumber
  <2>1. \A g \in Senders : Sending(g, sends[g], Count(g), heard)
    <3> SUFFICES ASSUME NEW g \in Senders PROVE Sending(g, sends[g], Count(g), heard)
      OBVIOUS
    <3>1. sends[g] = <<>>
      BY DEF Init
    <3>2. QED
      BY <3>1, SendingNone
  <2>2. heard = {} /\ sends[Loop] = <<>> /\ ~At(Loop, "emit")
    BY <1>1, Names DEF Init, At
  <2>3. QED
    BY <2>1, <2>2 DEF SendersNumber
<1>3. DispatchOK
  BY <1>1 DEF DispatchOK, At
<1>4. TellsOK
  <2> SUFFICES ASSUME NEW s \in Sessions
               PROVE  Told(proc[Loop], event, heard, msgs[s], shown[s], s)
    BY DEF TellsOK
  <2>1. msgs[s] = <<>> /\ shown[s] = {} /\ heard = {}
    BY SessionNumbers DEF Init
  <2>2. ToSet(<<>>) = {} /\ NoRepeats(<<>>)
    BY DEF ToSet, NoRepeats
  <2>3. QED
    BY <2>1, <2>2 DEF Told, UnseenAt
<1>5. RemindersOK
  <2>1. \A c \in Chats : proc[c].pc = "idle"
    BY Names DEF Init, Idle
  <2>2. QED
    BY <2>1 DEF RemindersOK, At
<1>6. QED
  BY <1>2, <1>3, <1>4, <1>5 DEF NewsInv

\* Every piece of news the environment let through is told to each admin
\* session's agent in exactly one prompt (stashMsg, popMsgs, RemoveAttribute),
\* as long as no chat that keeps a memory shares an admin session: its
\* reminder's read and write of the messages would race the loop's.
THEOREM NewsToldOnce == NoSharedStash => (Spec => []EachNewsToldOnce)
<1> SUFFICES ASSUME NoSharedStash PROVE Spec => []EachNewsToldOnce
  OBVIOUS
<1>1. Init => StateOK /\ NewsInv
  BY StartsTyped, StartsTelling
<1>2. StateOK /\ NewsInv /\ [Next]_vars => StateOK' /\ NewsInv'
  BY StepTyped, StepTells
<1>3. NewsInv => EachNewsToldOnce
  BY NewsInvTells
<1>4. QED
  BY <1>1, <1>2, <1>3, PTL DEF Spec

-----------------------------------------------------------------------------
(* When scheduled commands run                                             *)

\* With one admin session, the loop's commands the callback is about to run
\* were all scheduled before the update_finish it dispatches.
RoundsInv ==
  /\ \A c \in ToSet(pending) : c.by = Loop => c.round <= round
  /\ At(Loop, "load") => \A c \in ToSet(pending) : c.by = Loop => c.round < round
  /\ \A c \in ToSet(proc[Loop].todo) : c.by = Loop => c.round < round

\* The loop does not turn to pending commands, and gets none to run.
DueStays ==
  /\ At(Loop, "load")' => At(Loop, "load")
  /\ ToSet(proc'[Loop].todo) \subseteq ToSet(proc[Loop].todo)

LEMMA RoundsStay ==
  ASSUME StateOK, RoundsInv, DueStays, UNCHANGED round, ToSet(pending') \subseteq ToSet(pending)
  PROVE  RoundsInv'
BY DEF RoundsInv, DueStays, At

LEMMA EmptyTodo == ToSet(<<>>) = {}
BY DEF ToSet

LEMMA ReceiveRounds ==
  ASSUME StateOK, RoundsInv, NEW g \in Senders, Receive(g) PROVE RoundsInv'
<1> DEFINE e == Head(sends[g])
           k == [Idle(Loop) EXCEPT !.pc = FirstStep(e), !.session = 1, !.cycle = window]
<1>1. round \in Nat /\ \A c \in ToSet(pending) : c.round \in Nat
  <2>1. pending \in Seq(Command)
    BY DEF StateOK, StoreOK
  <2>2. \A c \in ToSet(pending) : c \in Command
    BY <2>1, LenProperties, ElementOfSeq DEF ToSet
  <2>3. QED
    BY <2>2 DEF StateOK, ChannelOK, Command
<1>2. UNCHANGED pending /\ At(Loop, "receive")
  BY DEF Receive, store
<1>3. CASE e.type \notin includeEvents
  <2>1. UNCHANGED <<round, proc, pending>>
    BY <1>2, <1>3 DEF Receive
  <2>2. QED
    BY <2>1 DEF RoundsInv, At
<1>4. CASE e.type \in includeEvents
  <2>1. /\ proc' = [proc EXCEPT ![Loop] = k]
        /\ round' = IF e.type = "update_finish" THEN round + 1 ELSE round
    BY <1>4 DEF Receive
  <2>2. proc'[Loop] = k /\ k.pc = FirstStep(e) /\ k.todo = <<>>
    BY <2>1, Names DEF StateOK, ControlsOK, Idle
  <2>3. FirstStep(e) = "load" => e.type = "update_finish"
    BY DEF FirstStep
  <2> HIDE DEF e, k
  <2>4. ToSet(proc'[Loop].todo) = {}
    BY <2>2, EmptyTodo
  <2>5. \A c \in ToSet(pending) : c.by = Loop => c.round <= round
    BY DEF RoundsInv
  <2>6. CASE e.type = "update_finish"
    <3>1. \A c \in ToSet(pending) : c.by = Loop => c.round < round' /\ c.round <= round'
      BY <1>1, <2>1, <2>5, <2>6
    <3>2. QED
      BY <1>2, <2>4, <3>1 DEF RoundsInv
  <2>7. CASE e.type # "update_finish"
    <3>1. round' = round /\ ~At(Loop, "load")'
      BY <2>1, <2>2, <2>3, <2>7 DEF At
    <3>2. QED
      BY <1>2, <2>4, <2>5, <3>1 DEF RoundsInv
  <2>8. QED
    BY <2>6, <2>7
<1>5. QED
  BY <1>3, <1>4

LEMMA LoadRounds == ASSUME StateOK, RoundsInv, LoadCommands PROVE RoundsInv'
<1> DEFINE pc == IF pending = <<>> THEN "prompt" ELSE "commands"
           k == [proc[Loop] EXCEPT !.pc = pc, !.todo = pending]
<1>0. DOMAIN proc[Loop] = Fields /\ DOMAIN proc = Procs
  BY LoopTyped DEF GoodControl, StateOK, ControlsOK
<1>1. /\ proc'[Loop] = k /\ At(Loop, "load") /\ UNCHANGED <<pending, round>>
  BY <1>0, Names DEF LoadCommands, store
<1>2. k.pc # "load" /\ k.todo = pending
  BY <1>0 DEF Fields
<1> HIDE DEF k
<1>3. QED
  BY <1>1, <1>2 DEF RoundsInv, At

\* Where the loop goes when an update or an action ends.
LEMMA TodoGoesOn ==
  ASSUME StateOK
  PROVE  /\ AfterAction(Loop).todo = proc[Loop].todo /\ Retry(Loop).todo = proc[Loop].todo
         /\ NextSession.todo = <<>>
         /\ NumSessions = 1 => NextSession.pc = "receive"
<1>1. DOMAIN proc[Loop] = Fields /\ Session(Loop) \in Sessions
  BY LoopTyped DEF GoodControl
<1>2. AfterAction(Loop).todo = proc[Loop].todo
  BY <1>1 DEF AfterAction, Fields
<1>3. Retry(Loop).todo = proc[Loop].todo
  BY <1>1, <1>2 DEF Retry, Fields
<1>4. NextSession.todo = <<>>
  BY DEF NextSession, Idle
<1>5. NumSessions = 1 => NextSession.pc = "receive"
  BY <1>1 DEF NextSession, Idle, Sessions
<1>6. QED
  BY <1>2, <1>3, <1>4, <1>5

LEMMA LoopDue ==
  ASSUME StateOK, NumSessions = 1, LoopStep, ~LoadCommands
  PROVE  /\ DueStays /\ UNCHANGED round
         /\ ToSet(pending') \subseteq ToSet(pending)
<1>0. DOMAIN proc[Loop] = Fields /\ DOMAIN proc = Procs /\ Loop \in Procs
  BY LoopTyped, Names DEF GoodControl, StateOK, ControlsOK
<1>1. CASE HandlePositionChanged \/ stashMsg \/ RenderFails \/ FinishDecision
  <2>1. proc'[Loop] = NextSession /\ UNCHANGED <<pending, round>>
    BY <1>0, <1>1 DEF HandlePositionChanged, stashMsg, RenderFails, FinishDecision, store
  <2>2. QED
    BY <2>1, TodoGoesOn, EmptyTodo DEF DueStays, At
<1>2. CASE HandleNews \/ NothingToDecide \/ StartDecision
  <2>1. proc'[Loop].pc # "load" /\ proc'[Loop].todo = proc[Loop].todo
    BY <1>0, <1>2 DEF HandleNews, NothingToDecide, StartDecision, Goto, Fields
  <2>2. UNCHANGED <<pending, round>>
    BY <1>2 DEF HandleNews, NothingToDecide, StartDecision, store
  <2>3. QED
    BY <2>1, <2>2 DEF DueStays, At
<1>3. CASE SaveStatuses
  <2>1. proc'[Loop].pc # "load" /\ proc'[Loop].todo = proc[Loop].todo
    BY <1>0, <1>3 DEF SaveStatuses, Goto, Fields
  <2> DEFINE w == {c \in ToSet(pending) : c.id \notin proc[Loop].done}
  <2>2. pending' = Keep(pending, w) \/ pending' = pending
    BY <1>3 DEF SaveStatuses
  <2>3. UNCHANGED round
    BY <1>3 DEF SaveStatuses
  <2>4. pending \in Seq(Command)
    BY DEF StateOK, StoreOK
  <2> HIDE DEF w
  <2>5. ToSet(pending') \subseteq ToSet(pending)
    <3>1. ToSet(Keep(pending, w)) = ToSet(pending) \cap w
      BY <2>4, KeepKeeps
    <3>2. QED
      BY <2>2, <3>1
  <2>6. QED
    BY <2>1, <2>3, <2>5 DEF DueStays, At
<1>4. CASE ExecuteCommand
  <2> DEFINE cmd == Head(proc[Loop].todo)
             rest == Tail(proc[Loop].todo)
             done == proc[Loop].done \cup {cmd.id}
             next == [proc[Loop] EXCEPT !.todo = rest, !.done = done]
             name == cmd.name
  <2>1. next.pc = proc[Loop].pc /\ next.todo = rest /\ DOMAIN next = Fields
    BY <1>0 DEF Fields
  <2>2. \/ CommandSucceeds(Loop, name, next)
        \/ CommandFails(Loop, name, next)
        \/ CommandEmits(Loop, name, next)
    BY <1>4 DEF ExecuteCommand
  <2>3. ToSet(rest) \subseteq ToSet(proc[Loop].todo)
    BY <1>4, CommandDue DEF ExecuteCommand
  <2> HIDE DEF next, name, rest
  <2>4. proc'[Loop] = next \/ proc'[Loop] = [next EXCEPT !.pc = "emit"]
    BY <1>0, <2>2 DEF CommandSucceeds, CommandFails, CommandEmits
  <2>5. proc'[Loop].todo = rest /\ (proc'[Loop].pc = "load" => proc[Loop].pc = "load")
    BY <2>1, <2>4 DEF Fields
  <2>6. UNCHANGED <<pending, round>>
    BY <1>4 DEF ExecuteCommand, store
  <2>7. QED
    BY <2>3, <2>5, <2>6 DEF DueStays, At
<1>5. QED
  BY <1>1, <1>2, <1>3, <1>4 DEF LoopStep

\* An agent's step moves its process alone and gives it no command to run.
LEMMA AgentMovesOne ==
  ASSUME StateOK, NEW p \in Procs, AgentStep(p)
  PROVE  \E k : /\ proc' = [proc EXCEPT ![p] = k]
                /\ p = Loop => k.pc # "load" /\ k.todo = proc[Loop].todo
<1> DEFINE after == AfterAction(p)
           again == Retry(p)
           here == proc[p]
           name == proc[p].answer.action
           Moves(k) == /\ proc' = [proc EXCEPT ![p] = k]
                       /\ p = Loop => k.pc # "load" /\ k.todo = proc[Loop].todo
<1>0. /\ DOMAIN proc = Procs /\ DOMAIN here = Fields
      /\ p = Loop => after.pc # "load" /\ again.pc # "load"
      /\ p = Loop => after.todo = proc[Loop].todo /\ again.todo = proc[Loop].todo
  BY ProcTyped, HowTheActionEnds, TodoGoesOn DEF StateOK, ControlsOK, GoodControl
<1>1. CASE GenerateFails(p)
  <2>1. proc' = [proc EXCEPT ![p] = after]
    BY <1>1 DEF GenerateFails, CommandSucceeds
  <2>2. QED
    BY <1>0, <2>1
<1>2. CASE GenerateGarbage(p)
  BY <1>0, <1>2 DEF GenerateGarbage
<1>3. CASE Generate(p) \/ StashReminder(p) \/ processNextCommands(p)
  <2>1. PICK k : /\ proc' = [proc EXCEPT ![p] = k] /\ k.todo = proc[p].todo
                 /\ k.pc \in {"remind", "schedule", "act"}
    BY <1>3, AgentMoves
  <2>2. QED
    BY <2>1
<1>4. CASE Act(p)
  <2> DEFINE emitting == [here EXCEPT !.pc = "emit"]
  <2>1. proc' \in {[proc EXCEPT ![p] = after], [proc EXCEPT ![p] = again], [proc EXCEPT ![p] = emitting]}
    BY <1>4 DEF Act, CommandSucceeds, CommandFails, CommandEmits
  <2>2. emitting.pc = "emit" /\ emitting.todo = here.todo
    BY <1>0 DEF Fields
  <2> HIDE DEF after, again, emitting
  <2>3. Moves(after) \/ Moves(again) \/ Moves(emitting)
    BY <1>0, <2>1, <2>2
  <2>4. QED
    BY <2>3
<1>5. CASE EmitReturns(p)
  BY <1>0, <1>5 DEF EmitReturns
<1>6. QED
  BY <1>1, <1>2, <1>3, <1>4, <1>5 DEF AgentStep

LEMMA JoinedRange ==
  ASSUME NEW S, NEW a \in Seq(S), NEW b \in Seq(S)
  PROVE  ToSet(a \o b) = ToSet(a) \cup ToSet(b)
<1> DEFINE m == Len(a)
           n == Len(b)
           q == a \o b
<1>1. /\ m \in Nat /\ n \in Nat /\ DOMAIN a = 1..m /\ DOMAIN b = 1..n
      /\ q \in Seq(S) /\ Len(q) = m + n /\ DOMAIN q = 1..(m + n)
  BY LenProperties
<1>2. /\ \A i \in 1..m : q[i] = a[i]
      /\ \A i \in 1..n : q[m + i] = b[i]
  OBVIOUS
<1> HIDE DEF m, n, q
<1>3. ToSet(q) \subseteq ToSet(a) \cup ToSet(b)
  <2> SUFFICES ASSUME NEW i \in 1..(m + n) PROVE q[i] \in ToSet(a) \cup ToSet(b)
    BY <1>1 DEF ToSet
  <2>1. CASE i <= m
    <3>1. i \in 1..m
      BY <1>1, <2>1
    <3>2. QED
      BY <1>1, <1>2, <3>1 DEF ToSet
  <2>2. CASE ~(i <= m)
    <3>1. i - m \in 1..n /\ m + (i - m) = i
      BY <1>1, <2>2
    <3>2. QED
      BY <1>1, <1>2, <3>1 DEF ToSet
  <2>3. QED
    BY <2>1, <2>2
<1>4. ToSet(a) \cup ToSet(b) \subseteq ToSet(q)
  <2>1. \A i \in 1..m : i \in DOMAIN q
    BY <1>1
  <2>2. \A i \in 1..n : m + i \in DOMAIN q
    BY <1>1
  <2>3. QED
    BY <1>1, <1>2, <2>1, <2>2 DEF ToSet
<1>5. QED
  BY <1>3, <1>4 DEF q

\* Who scheduled the commands, and when.
LEMMA ScheduledBy ==
  ASSUME StateOK, NEW p \in Procs, processNextCommands(p)
  PROVE  \A c \in ToSet(pending') : c \in ToSet(pending) \/ (c.by = p /\ c.round = round)
<1> DEFINE new == Scheduled(p, NamesSaved(p))
           n == Len(NamesSaved(p))
<1>1. /\ pending \in Seq(Command) /\ NamesSaved(p) \in Seq(Supported)
      /\ new \in Seq(Command) /\ Len(new) = n /\ n \in Nat
  BY NamesTyped, ScheduledTyped, LenProperties DEF StateOK, StoreOK
<1>2. \A i \in 1..n : new[i].by = p /\ new[i].round = round
  BY DEF Scheduled
<1>3. pending' = pending \/ pending' = pending \o new
  BY WhatIsScheduled DEF store
<1> HIDE DEF new, n
<1>4. ToSet(pending \o new) = ToSet(pending) \cup ToSet(new)
  BY <1>1, JoinedRange
<1>5. \A c \in ToSet(new) : c.by = p /\ c.round = round
  <2>1. DOMAIN new = 1..n
    BY <1>1, LenProperties
  <2>2. QED
    BY <1>2, <2>1 DEF ToSet
<1>6. QED
  BY <1>3, <1>4, <1>5

LEMMA AgentRounds ==
  ASSUME StateOK, RoundsInv, NEW p \in Procs, AgentStep(p) PROVE RoundsInv'
<1>1. PICK k : /\ proc' = [proc EXCEPT ![p] = k]
               /\ p = Loop => k.pc # "load" /\ k.todo = proc[Loop].todo
  BY AgentMovesOne
<1>2. proc'[Loop] = IF p = Loop THEN k ELSE proc[Loop]
  BY <1>1, Names DEF StateOK, ControlsOK
<1>3. DueStays
  BY <1>1, <1>2 DEF DueStays, At
<1>4. UNCHANGED round
  BY DEF AgentStep, GenerateFails, GenerateGarbage, Generate, StashReminder,
         processNextCommands, Act, EmitReturns
<1>5. CASE processNextCommands(p)
  <2>1. \A c \in ToSet(pending') : c \in ToSet(pending) \/ (c.by = p /\ c.round = round)
    BY <1>5, ScheduledBy
  <2>2. p = Loop => ~At(Loop, "load")'
    BY <1>1, <1>2 DEF At
  <2>3. round <= round
    BY DEF StateOK, ChannelOK
  <2>4. QED
    BY <1>3, <1>4, <2>1, <2>2, <2>3 DEF RoundsInv, DueStays
<1>6. CASE ~processNextCommands(p)
  <2>1. UNCHANGED pending
    BY <1>6 DEF AgentStep, GenerateFails, GenerateGarbage, Generate, StashReminder,
                Act, EmitReturns, store
  <2>2. QED
    BY <1>3, <1>4, <2>1, RoundsStay
<1>7. QED
  BY <1>5, <1>6

LEMMA OutsideRounds == ASSUME StateOK, RoundsInv, Outside PROVE RoundsInv'
<1>1. UNCHANGED <<pending, round>>
  BY DEF Outside, KLineClosed, PositionOpens, PositionCloses, NewsArrives, ChatMessage, store
<1>2. proc'[Loop] = proc[Loop]
  BY Names DEF Outside, KLineClosed, PositionOpens, PositionCloses, NewsArrives, ChatMessage,
               StateOK, ControlsOK
<1>3. QED
  BY <1>1, <1>2, RoundsStay DEF DueStays, At

LEMMA StepRounds ==
  ASSUME StateOK, RoundsInv, NumSessions = 1, [Next]_vars PROVE RoundsInv'
<1>1. CASE UNCHANGED vars
  BY <1>1 DEF vars, store, RoundsInv, At
<1>2. CASE LoopStep
  BY <1>2, LoadRounds, LoopDue, RoundsStay
<1>3. CASE \E g \in Senders : Receive(g)
  BY <1>3, ReceiveRounds
<1>4. CASE \E p \in Procs : AgentStep(p)
  BY <1>4, AgentRounds
<1>5. QED
  BY <1>1, <1>2, <1>3, <1>4, OutsideRounds DEF Next

\* With one admin session, a command a decision schedules (processNextCommands)
\* runs at a later update_finish than the one that made the decision.  With
\* two, the second session's callback runs what the first has just scheduled.
THEOREM CommandsWait == NumSessions = 1 => (Spec => CommandsWaitForNextCycle)
<1> SUFFICES ASSUME NumSessions = 1 PROVE Spec => CommandsWaitForNextCycle
  OBVIOUS
<1>1. Init => StateOK /\ RoundsInv
  <2>1. Init => RoundsInv
    BY Names, EmptyTodo DEF Init, RoundsInv, Idle, At
  <2>2. QED
    BY <2>1, StartsTyped
<1>2. StateOK /\ RoundsInv /\ [Next]_vars => StateOK' /\ RoundsInv'
  BY StepTyped, StepRounds
<1>3. RoundsInv =>
        [\A c \in ToSet(proc[Loop].todo) :
           c.by = Loop /\ c.id \in proc'[Loop].done \ proc[Loop].done => c.round < round]_vars
  BY DEF RoundsInv
<1>4. QED
  BY <1>1, <1>2, <1>3, PTL DEF Spec, CommandsWaitForNextCycle

-----------------------------------------------------------------------------
(* What the k-line callback's update_finish finds                          *)

\* The k-line callback's event of type t for update n was heard, if included.
HeardOf(t, n) == t \in includeEvents => Event(t, "kline", n) \in heard

\* The position of session s is being refreshed, or its k-line is being set.
PositionComes(s) == At(Loop, "handle") /\ event.type = "position_changed" /\ Session(Loop) <= s
KlineComes(s) ==
  /\ event.type = "kline_changed"
  /\ (At(Loop, "handle") /\ Session(Loop) <= s) \/ (At(Loop, "stash") /\ Session(Loop) < s)

PositionsAt(n) ==
  {"kline_changed", "position_changed"} \subseteq includeEvents =>
    \A s \in Sessions : posMsg[s] >= n \/ PositionComes(s)

\* The callback has handed over j of the four events of the newest update.
HandedOver(j) ==
  /\ Len(sends["kline"]) = 4 - j
  /\ \A i \in 1..(4 - j) : sends["kline"][i] = CycleEvents("kline", window)[i + j]
  /\ j >= 1 => HeardOf("kline_changed", window)
  /\ j >= 2 => HeardOf("indicator_changed", window)
  /\ j >= 3 => PositionsAt(window)

CallbackOK == (window = 0 /\ sends["kline"] = <<>>) \/ \E j \in 0..4 : HandedOver(j)

\* Every session knows a k-line once one was heard and went round.
KlineKnown ==
  (\E e \in heard : e.type = "kline_changed") =>
    \A s \in Sessions : klineSet[s] \/ KlineComes(s)

\* An update_finish of the callback comes after what the update is about.
FinishInformed ==
  event.type = "update_finish" /\ event.from = "kline" =>
    /\ HeardOf("kline_changed", event.cycle) /\ HeardOf("indicator_changed", event.cycle)
    /\ {"kline_changed", "position_changed"} \subseteq includeEvents =>
         \A s \in Sessions : posMsg[s] >= event.cycle

KlineInv == CallbackOK /\ KlineKnown /\ FinishInformed

LEMMA PositionsTyped ==
  ASSUME StateOK
  PROVE  /\ \A s \in Sessions : posMsg[s] \in 0..window /\ posMsg[s] \in Nat /\ klineSet[s] \in BOOLEAN
         /\ window \in Nat /\ event.cycle \in Nat /\ event \in Events
<1>1. window \in Nat
  BY WindowTyped
<1>2. \A s \in Sessions : posMsg[s] \in 0..window /\ klineSet[s] \in BOOLEAN
  BY SessionNumbers DEF StateOK, InboxOK
<1>3. event \in Events
  BY DEF StateOK, ChannelOK
<1>4. event.cycle \in Nat
  BY <1>3 DEF Events
<1>5. QED
  BY <1>1, <1>2, <1>3, <1>4

\* A step that is none of the callback's and leaves the dispatched event alone.
LEMMA KlineFrame ==
  ASSUME StateOK, StateOK', KlineInv, UNCHANGED <<window, event, heard>>,
         sends'["kline"] = sends["kline"],
         \A s \in Sessions : (klineSet[s] => klineSet'[s]) /\ posMsg'[s] >= posMsg[s],
         proc'[Loop] = proc[Loop] \/ proc[Loop].pc \notin {"handle", "stash"}
  PROVE  KlineInv'
<1>1. ASSUME NEW s \in Sessions
      PROVE  (PositionComes(s) => PositionComes(s)') /\ (KlineComes(s) => KlineComes(s)')
  BY DEF PositionComes, KlineComes, At, Session
<1>2. \A t, n : HeardOf(t, n)' <=> HeardOf(t, n)
  BY DEF HeardOf
<1>3. \A s \in Sessions, n \in Nat : posMsg[s] >= n => posMsg'[s] >= n
  <2>1. \A s \in Sessions : posMsg'[s] \in 0..window
    BY SessionNumbers DEF StateOK, InboxOK
  <2>2. \A s \in Sessions : posMsg'[s] \in Nat
    BY <2>1, PositionsTyped
  <2>3. QED
    BY <2>2, PositionsTyped
<1>4. CallbackOK'
  <2>1. PositionsAt(window) => PositionsAt(window)'
    BY <1>1, <1>3, PositionsTyped DEF PositionsAt
  <2>2. \A j \in 0..4 : HandedOver(j) => HandedOver(j)'
    BY <2>1 DEF HandedOver, HeardOf
  <2>3. QED
    BY <2>2 DEF CallbackOK, KlineInv
<1>5. KlineKnown'
  BY <1>1 DEF KlineKnown, KlineInv
<1>6. FinishInformed'
  BY <1>3, PositionsTyped DEF FinishInformed, KlineInv, HeardOf
<1>7. QED
  BY <1>4, <1>5, <1>6 DEF KlineInv

LEMMA KLineKlines == ASSUME StateOK, StateOK', KlineInv, KLineClosed PROVE KlineInv'
<1> DEFINE n == window + 1
           q == CycleEvents("kline", n)
<1>1. /\ sends["kline"] = <<>> /\ window' = n /\ n \in Nat
      /\ UNCHANGED <<event, heard, proc, klineSet, posMsg>>
  BY WindowTyped DEF KLineClosed, Returned, inbox
<1>2. q \in Seq(Events) /\ Len(q) = 4
  BY <1>1, Names, CycleTyped
<1> HIDE DEF q
<1>3. sends'["kline"] = q
  <2>1. sends'["kline"] = <<>> \o q
    BY <1>1, Names DEF KLineClosed, StateOK, ChannelOK, q
  <2>2. QED
    BY <1>2, <2>1
<1>4. HandedOver(0)'
  <2>1. \A i \in 1..(4 - 0) : q[i] = q[i + 0]
    OBVIOUS
  <2>2. Len(sends'["kline"]) = 4 - 0
    BY <1>2, <1>3
  <2>3. QED
    BY <1>1, <1>3, <2>1, <2>2 DEF HandedOver, q
<1>5. KlineKnown'
  BY <1>1 DEF KlineInv, KlineKnown, KlineComes, At, Session
<1>6. FinishInformed'
  BY <1>1 DEF KlineInv, FinishInformed, HeardOf
<1>7. QED
  BY <1>4, <1>5, <1>6 DEF KlineInv, CallbackOK

LEMMA PositionKlines ==
  ASSUME StateOK, StateOK', KlineInv, HandlePositionChanged PROVE KlineInv'
<1> DEFINE here == Session(Loop)
<1>1. /\ At(Loop, "handle") /\ event.type = "position_changed" /\ here \in Sessions
      /\ posMsg' = IF klineSet[here] THEN [posMsg EXCEPT ![here] = window] ELSE posMsg
      /\ proc'[Loop] = NextSession
      /\ UNCHANGED <<window, sends, event, heard, klineSet>>
  BY Names, LoopTyped DEF HandlePositionChanged, StateOK, ControlsOK
<1>2. NumSessions \in Nat /\ here \in 1..NumSessions
  BY <1>1, LoopAssumption DEF Sessions
<1> HIDE DEF here
<1>3. \A s \in Sessions : s # here => posMsg'[s] = posMsg[s]
  BY <1>1, SessionNumbers DEF StateOK, InboxOK
<1>4. klineSet[here] => posMsg'[here] = window
  BY <1>1, SessionNumbers DEF StateOK, InboxOK
<1>5. ~klineSet[here] => posMsg'[here] = posMsg[here]
  BY <1>1
<1>6. \A s \in Sessions : ~KlineComes(s)
  BY <1>1 DEF KlineComes
<1>7. \A s \in Sessions : PositionComes(s) /\ s # here => PositionComes(s)'
  <2> SUFFICES ASSUME NEW s \in Sessions, PositionComes(s), s # here PROVE PositionComes(s)'
    OBVIOUS
  <2>1. here < s /\ here < NumSessions /\ here + 1 <= s
    <3>1. here <= s /\ s \in 1..NumSessions
      BY DEF PositionComes, Sessions, here
    <3>2. QED
      BY <1>2, <3>1
  <2>2. NextSession = [Idle(Loop) EXCEPT !.pc = FirstStep(event), !.session = here + 1, !.cycle = window]
    BY <2>1 DEF NextSession, here
  <2>3. NextSession.pc = "handle" /\ NextSession.session = here + 1
    BY <1>1, <2>2 DEF Idle, FirstStep
  <2>4. QED
    BY <1>1, <2>1, <2>3 DEF PositionComes, At, Session
<1>8. CallbackOK'
  <2>1. ASSUME HeardOf("kline_changed", window), PositionsAt(window) PROVE PositionsAt(window)'
    <3> SUFFICES ASSUME {"kline_changed", "position_changed"} \subseteq includeEvents, NEW s \in Sessions
                 PROVE  posMsg'[s] >= window \/ PositionComes(s)'
      BY <1>1 DEF PositionsAt
    <3>1. posMsg[s] >= window \/ PositionComes(s)
      BY <2>1 DEF PositionsAt
    <3>2. CASE s = here
      <4>1. Event("kline_changed", "kline", window) \in heard
        BY <2>1 DEF HeardOf
      <4>2. Event("kline_changed", "kline", window).type = "kline_changed"
        BY DEF Event
      <4>3. klineSet[s]
        BY <1>6, <4>1, <4>2 DEF KlineInv, KlineKnown
      <4>4. QED
        BY <1>4, <3>2, <4>3, PositionsTyped
    <3>3. CASE s # here
      BY <1>3, <1>7, <3>1, <3>3
    <3>4. QED
      BY <3>2, <3>3
  <2>2. \A j \in 0..4 : HandedOver(j) => HandedOver(j)'
    BY <1>1, <2>1 DEF HandedOver, HeardOf
  <2>3. QED
    BY <1>1, <2>2 DEF CallbackOK, KlineInv
<1>9. KlineKnown'
  BY <1>1, <1>6 DEF KlineKnown, KlineInv
<1>10. FinishInformed'
  BY <1>1 DEF FinishInformed
<1>11. QED
  BY <1>8, <1>9, <1>10 DEF KlineInv

LEMMA HandleKlines == ASSUME StateOK, StateOK', NewsInv, KlineInv, HandleNews PROVE KlineInv'
<1> DEFINE here == Session(Loop)
<1>0. DOMAIN proc[Loop] = Fields /\ DOMAIN proc = Procs
  BY LoopTyped DEF GoodControl, StateOK, ControlsOK
<1>1. /\ At(Loop, "handle") /\ here \in Sessions /\ here \in Nat
      /\ klineSet' = IF event.type = "kline_changed" THEN [klineSet EXCEPT ![here] = TRUE] ELSE klineSet
      /\ UNCHANGED <<window, sends, event, heard, posMsg>>
      /\ event.type # "position_changed"
  BY LoopTyped, SessionNumbers DEF HandleNews
<1>2. proc'[Loop].pc = "stash" /\ proc'[Loop].session = here
  BY <1>0, Names DEF HandleNews, Fields, Session
<1> HIDE DEF here
<1>3. \A s \in Sessions : klineSet[s] => klineSet'[s]
  BY <1>1, SessionNumbers DEF StateOK, InboxOK
<1>4. \A s \in Sessions : KlineComes(s) => klineSet'[s] \/ KlineComes(s)'
  <2> SUFFICES ASSUME NEW s \in Sessions, KlineComes(s), s # here PROVE KlineComes(s)'
    <3>1. event.type = "kline_changed" => klineSet'[here]
      BY <1>1, SessionNumbers DEF StateOK, InboxOK
    <3>2. QED
      BY <3>1 DEF KlineComes
  <2>1. here <= s /\ s \in Nat
    BY <1>1, SessionNumbers DEF KlineComes, At, here
  <2>2. here < s
    BY <1>1, <2>1
  <2>3. QED
    BY <1>1, <1>2, <2>2 DEF KlineComes, At, Session
<1>5. KlineKnown'
  BY <1>1, <1>3, <1>4 DEF KlineKnown, KlineInv
<1>6. CallbackOK'
  <2>1. PositionsAt(window) => PositionsAt(window)'
    BY <1>1 DEF PositionsAt, PositionComes
  <2>2. \A j \in 0..4 : HandedOver(j) => HandedOver(j)'
    BY <1>1, <2>1 DEF HandedOver, HeardOf
  <2>3. QED
    BY <1>1, <2>2 DEF CallbackOK, KlineInv
<1>7. FinishInformed'
  BY <1>1 DEF FinishInformed, KlineInv, HeardOf
<1>8. QED
  BY <1>5, <1>6, <1>7 DEF KlineInv

LEMMA StashKlines == ASSUME StateOK, StateOK', NewsInv, KlineInv, stashMsg PROVE KlineInv'
<1> DEFINE here == Session(Loop)
<1>1. /\ At(Loop, "stash") /\ here \in Sessions
      /\ proc'[Loop] = NextSession
      /\ UNCHANGED <<window, sends, event, heard, klineSet, posMsg>>
  BY Names, LoopTyped DEF stashMsg, StateOK, ControlsOK
<1>2. NumSessions \in Nat /\ here \in 1..NumSessions
  BY <1>1, LoopAssumption DEF Sessions
<1> HIDE DEF here
<1>3. \A s \in Sessions : KlineComes(s) => KlineComes(s)'
  <2> SUFFICES ASSUME NEW s \in Sessions, KlineComes(s) PROVE KlineComes(s)'
    OBVIOUS
  <2>1. here < s /\ event.type = "kline_changed" /\ s \in 1..NumSessions
    BY <1>1 DEF KlineComes, At, here, Sessions
  <2>2. here < NumSessions /\ here + 1 <= s
    BY <1>2, <2>1
  <2>3. NextSession = [Idle(Loop) EXCEPT !.pc = FirstStep(event), !.session = here + 1, !.cycle = window]
    BY <2>2 DEF NextSession, here
  <2>4. NextSession.pc = "handle" /\ NextSession.session = here + 1
    BY <2>1, <2>3 DEF Idle, FirstStep
  <2>5. QED
    BY <1>1, <2>1, <2>2, <2>4 DEF KlineComes, At, Session
<1>4. KlineKnown'
  BY <1>1, <1>3 DEF KlineKnown, KlineInv
<1>5. CallbackOK'
  <2>1. PositionsAt(window) => PositionsAt(window)'
    BY <1>1 DEF PositionsAt, PositionComes, At
  <2>2. \A j \in 0..4 : HandedOver(j) => HandedOver(j)'
    BY <1>1, <2>1 DEF HandedOver, HeardOf
  <2>3. QED
    BY <1>1, <2>2 DEF CallbackOK, KlineInv
<1>6. FinishInformed'
  BY <1>1 DEF FinishInformed, KlineInv, HeardOf
<1>7. QED
  BY <1>4, <1>5, <1>6 DEF KlineInv

\* What taking the callback's next event leaves of them.
LEMMA HandOver ==
  ASSUME StateOK, NEW j \in 0..4, HandedOver(j), sends["kline"] # <<>>
  PROVE  /\ j \in 0..3
         /\ Head(sends["kline"]) = CycleEvents("kline", window)[j + 1]
         /\ Len(Tail(sends["kline"])) = 4 - (j + 1)
         /\ \A i \in 1..(4 - (j + 1)) :
              Tail(sends["kline"])[i] = CycleEvents("kline", window)[i + (j + 1)]
<1> DEFINE q == sends["kline"]
           full == CycleEvents("kline", window)
           rest == Tail(q)
<1>1. q \in Seq(Events) /\ q # <<>>
  BY Names DEF StateOK, ChannelOK
<1>2. Len(q) = 4 - j /\ \A i \in 1..(4 - j) : q[i] = full[i + j]
  BY DEF HandedOver
<1> HIDE DEF q, full
<1>3. Len(q) # 0 /\ Len(rest) = Len(q) - 1 /\ \A i \in 1..Len(rest) : rest[i] = q[i + 1]
      /\ Head(q) = q[1]
  BY <1>1, EmptySeq, HeadTailProperties
<1> HIDE DEF rest
<1>4. j \in 0..3
  BY <1>2, <1>3
<1>5. Head(q) = full[j + 1]
  <2>1. 1 \in 1..(4 - j) /\ 1 + j = j + 1
    BY <1>4
  <2>2. QED
    BY <1>2, <1>3, <2>1
<1>6. Len(rest) = 4 - (j + 1)
  BY <1>2, <1>3, <1>4
<1>7. \A i \in 1..(4 - (j + 1)) : rest[i] = full[i + (j + 1)]
  <2> SUFFICES ASSUME NEW i \in 1..(4 - (j + 1)) PROVE rest[i] = full[i + (j + 1)]
    OBVIOUS
  <2>1. i \in 1..Len(rest) /\ i + 1 \in 1..(4 - j) /\ (i + 1) + j = i + (j + 1)
    BY <1>4, <1>6
  <2>2. QED
    BY <1>2, <1>3, <2>1
<1>8. QED
  BY <1>4, <1>5, <1>6, <1>7 DEF q, full, rest

LEMMA ReceiveKlines ==
  ASSUME StateOK, StateOK', NewsInv, KlineInv, NEW g \in Senders, Receive(g) PROVE KlineInv'
<1> DEFINE e == Head(sends[g])
           full == CycleEvents("kline", window)
           included == e.type \in includeEvents
<1>1. /\ At(Loop, "receive") /\ sends[g] # <<>>
      /\ sends' = [sends EXCEPT ![g] = Tail(sends[g])]
      /\ UNCHANGED <<window, klineSet, posMsg>>
      /\ included => event' = e
      /\ ~included => UNCHANGED <<event, heard, proc>>
      /\ heard' = IF included /\ e.type \in NewsTypes THEN heard \cup {e} ELSE heard
  BY DEF Receive, inbox
<1>2. e.from = g /\ e \in ToSet(sends[g])
  BY <1>1, HeadTyped DEF NewsInv, SendersNumber, Sending
<1>3. included => proc'[Loop].pc = FirstStep(e) /\ proc'[Loop].session = 1
  <2> DEFINE k == [Idle(Loop) EXCEPT !.pc = FirstStep(e), !.session = 1, !.cycle = window]
  <2>1. included => proc'[Loop] = k
    BY Names DEF Receive, StateOK, ControlsOK
  <2>2. k.pc = FirstStep(e) /\ k.session = 1
    BY DEF Idle
  <2>3. QED
    BY <2>1, <2>2
<1>4. /\ FirstStep(e) = "handle" <=> e.type # "update_finish"
      /\ FirstStep(e) # "stash"
  BY DEF FirstStep
<1> HIDE DEF e, full, included
<1>5. \A s \in Sessions : ~KlineComes(s) /\ ~PositionComes(s) /\ 1 <= s
  BY <1>1 DEF KlineComes, PositionComes, At, Sessions
<1>6. KlineKnown'
  <2> SUFFICES ASSUME NEW d \in heard', d.type = "kline_changed", NEW s \in Sessions
               PROVE  klineSet[s] \/ KlineComes(s)'
    BY <1>1 DEF KlineKnown
  <2>1. CASE d \in heard
    BY <1>5, <2>1 DEF KlineInv, KlineKnown
  <2>2. CASE d \notin heard
    <3>1. d = e /\ included
      BY <1>1, <2>2
    <3>2. event' = e /\ proc'[Loop].pc = "handle" /\ proc'[Loop].session = 1
      BY <1>1, <1>3, <1>4, <3>1
    <3>3. QED
      BY <1>5, <3>1, <3>2 DEF KlineComes, At, Session
  <2>3. QED
    BY <2>1, <2>2
<1>7. \A t, n : HeardOf(t, n) => HeardOf(t, n)'
  BY <1>1 DEF HeardOf
<1>8. PositionsAt(window) => PositionsAt(window)'
  BY <1>1, <1>5 DEF PositionsAt
<1>9. CASE g # "kline"
  <2>1. sends'["kline"] = sends["kline"]
    BY <1>1, <1>9, Names DEF StateOK, ChannelOK
  <2>2. \A j \in 0..4 : HandedOver(j) => HandedOver(j)'
    BY <1>1, <1>7, <1>8, <2>1 DEF HandedOver
  <2>3. CallbackOK'
    BY <1>1, <2>1, <2>2 DEF KlineInv, CallbackOK
  <2>4. FinishInformed'
    <3>1. CASE included
      BY <1>1, <1>2, <1>9, <3>1 DEF FinishInformed
    <3>2. CASE ~included
      BY <1>1, <1>7, <3>2 DEF FinishInformed, KlineInv
    <3>3. QED
      BY <3>1, <3>2
  <2>5. QED
    BY <1>6, <2>3, <2>4 DEF KlineInv
<1>10. CASE g = "kline"
  <2>1. PICK j \in 0..4 : HandedOver(j)
    BY <1>1, <1>10 DEF KlineInv, CallbackOK
  <2>2. j \in 0..3 /\ e = full[j + 1] /\ Len(Tail(sends["kline"])) = 4 - (j + 1)
        /\ \A i \in 1..(4 - (j + 1)) : Tail(sends["kline"])[i] = full[i + (j + 1)]
    BY <1>1, <1>10, <2>1, HandOver DEF e, full
  <2>3. sends'["kline"] = Tail(sends["kline"])
    BY <1>1, <1>10, Names DEF StateOK, ChannelOK
  <2>4. /\ full[1] = Event("kline_changed", "kline", window)
        /\ full[2] = Event("indicator_changed", "kline", window)
        /\ full[3] = Event("position_changed", "kline", window)
        /\ full[4] = Event("update_finish", "kline", window)
    BY Names, WindowTyped, CycleTyped DEF full
  <2>5. \A t : Event(t, "kline", window).type = t /\ Event(t, "kline", window).cycle = window
    BY DEF Event
  <2>6. {"kline_changed", "indicator_changed"} \subseteq NewsTypes
    BY DEF NewsTypes
  <2>7. j + 1 >= 1 => HeardOf("kline_changed", window)'
    <3>1. CASE j = 0
      BY <1>1, <2>2, <2>4, <2>5, <2>6, <3>1 DEF HeardOf, included
    <3>2. CASE j # 0
      <4>1. j >= 1
        BY <2>2, <3>2
      <4>2. QED
        BY <1>1, <1>7, <2>1, <4>1 DEF HandedOver, HeardOf
    <3>3. QED
      BY <3>1, <3>2
  <2>8. j + 1 >= 2 => HeardOf("indicator_changed", window)'
    <3>1. CASE j = 1
      BY <1>1, <2>2, <2>4, <2>5, <2>6, <3>1 DEF HeardOf, included
    <3>2. CASE j # 1
      <4>1. j + 1 >= 2 => j >= 2
        BY <2>2, <3>2
      <4>2. QED
        BY <1>1, <1>7, <2>1, <4>1 DEF HandedOver, HeardOf
    <3>3. QED
      BY <3>1, <3>2
  <2>9. j + 1 >= 3 => PositionsAt(window)'
    <3>1. CASE j = 2
      <4>1. e.type = "position_changed"
        BY <2>2, <2>4, <2>5, <3>1
      <4>2. included => event' = e /\ proc'[Loop].pc = "handle" /\ proc'[Loop].session = 1
        BY <1>1, <1>3, <1>4, <4>1
      <4>3. included => \A s \in Sessions : PositionComes(s)'
        BY <1>5, <4>1, <4>2 DEF PositionComes, At, Session
      <4>4. QED
        BY <4>1, <4>3 DEF PositionsAt, included
    <3>2. CASE j # 2
      <4>1. j + 1 >= 3 => j >= 3
        BY <2>2, <3>2
      <4>2. QED
        BY <1>8, <2>1, <4>1 DEF HandedOver
    <3>3. QED
      BY <3>1, <3>2
  <2>10. CallbackOK'
    <3>1. j + 1 \in 0..4
      BY <2>2
    <3>2. HandedOver(j + 1)'
      <4>1. Len(sends'["kline"]) = 4 - (j + 1)
        BY <2>2, <2>3
      <4>2. \A i \in 1..(4 - (j + 1)) : sends'["kline"][i] = CycleEvents("kline", window')[i + (j + 1)]
        BY <1>1, <2>2, <2>3 DEF full
      <4>3. UNCHANGED window
        BY <1>1
      <4>4. QED
        BY <2>7, <2>8, <2>9, <4>1, <4>2, <4>3 DEF HandedOver
    <3>3. QED
      BY <3>1, <3>2 DEF CallbackOK
  <2>11. FinishInformed'
    <3>1. CASE ~included
      BY <1>1, <1>7, <3>1 DEF FinishInformed, KlineInv
    <3>2. CASE included
      <4>1. event' = e
        BY <1>1, <3>2
      <4>2. CASE j = 3
        <5>1. event'.cycle = window
          BY <2>2, <2>4, <2>5, <4>1, <4>2
        <5>2. HeardOf("kline_changed", window)' /\ HeardOf("indicator_changed", window)'
          BY <2>7, <2>8, <4>2
        <5>3. PositionsAt(window)
          BY <2>1, <4>2 DEF HandedOver
        <5>4. {"kline_changed", "position_changed"} \subseteq includeEvents =>
                \A s \in Sessions : posMsg'[s] >= window
          BY <1>1, <1>5, <5>3 DEF PositionsAt
        <5>5. UNCHANGED window
          BY <1>1
        <5>6. QED
          BY <5>1, <5>2, <5>4, <5>5 DEF FinishInformed, HeardOf
      <4>3. CASE j # 3
        <5>1. j \in {0, 1, 2}
          BY <2>2, <4>3
        <5>2. e.type \in {"kline_changed", "indicator_changed", "position_changed"}
          BY <2>2, <2>4, <2>5, <5>1
        <5>3. QED
          BY <4>1, <5>2 DEF FinishInformed
      <4>4. QED
        BY <4>2, <4>3
    <3>3. QED
      BY <3>1, <3>2
  <2>12. QED
    BY <1>6, <2>10, <2>11 DEF KlineInv
<1>11. QED
  BY <1>9, <1>10

LEMMA OutsideKlines == ASSUME StateOK, StateOK', KlineInv, Outside PROVE KlineInv'
<1>1. CASE KLineClosed
  BY <1>1, KLineKlines
<1>2. CASE ~KLineClosed
  <2>1. UNCHANGED <<window, event, heard, klineSet, posMsg>>
    BY <1>2 DEF Outside, PositionOpens, PositionCloses, NewsArrives, ChatMessage, inbox
  <2>2. proc'[Loop] = proc[Loop]
    BY <1>2, Names DEF Outside, PositionOpens, PositionCloses, NewsArrives, ChatMessage,
                       StateOK, ControlsOK
  <2>3. sends'["kline"] = sends["kline"]
    <3>1. CASE \E o \in orders : PositionOpens(o)
      BY <3>1 DEF PositionOpens
    <3>2. CASE PositionCloses
      <4> DEFINE a == <<Event("position_closed", "closed", outside'.closes)>>
                 b == IF HandlePositionClose THEN CycleEvents("closeCycle", outside'.closes) ELSE <<>>
      <4>1. sends' = [sends EXCEPT !["closed"] = a, !["closeCycle"] = b]
        BY <3>2 DEF PositionCloses
      <4> HIDE DEF a, b
      <4>2. QED
        BY <4>1, Names DEF StateOK, ChannelOK
    <3>3. CASE NewsArrives
      BY <3>3 DEF NewsArrives, StateOK, ChannelOK
    <3>4. CASE \E c \in Chats : ChatMessage(c)
      BY <3>4 DEF ChatMessage
    <3>5. QED
      BY <1>2, <3>1, <3>2, <3>3, <3>4 DEF Outside
  <2>4. \A s \in Sessions : posMsg[s] >= posMsg[s]
    BY PositionsTyped
  <2>5. QED
    BY <2>1, <2>2, <2>3, <2>4, KlineFrame
<1>3. QED
  BY <1>1, <1>2

LEMMA LoopKlines == ASSUME StateOK, StateOK', NewsInv, KlineInv, LoopStep PROVE KlineInv'
<1>1. CASE HandlePositionChanged \/ HandleNews \/ stashMsg
  BY <1>1, PositionKlines, HandleKlines, StashKlines
<1>2. CASE \/ LoadCommands \/ ExecuteCommand \/ SaveStatuses
           \/ NothingToDecide \/ RenderFails \/ StartDecision \/ FinishDecision
  <2>1. UNCHANGED <<window, event, heard, klineSet, posMsg>>
    BY <1>2 DEF LoadCommands, ExecuteCommand, SaveStatuses, NothingToDecide, RenderFails,
                StartDecision, FinishDecision, inbox
  <2>2. proc[Loop].pc \notin {"handle", "stash"}
    BY <1>2 DEF LoadCommands, ExecuteCommand, SaveStatuses, NothingToDecide, RenderFails,
                StartDecision, FinishDecision, At
  <2>3. sends'["kline"] = sends["kline"]
    BY <1>2, Names
       DEF LoadCommands, ExecuteCommand, SaveStatuses, NothingToDecide, RenderFails, StartDecision,
           FinishDecision, CommandSucceeds, CommandFails, CommandEmits, StateOK, ChannelOK
  <2>4. \A s \in Sessions : posMsg[s] >= posMsg[s]
    BY PositionsTyped
  <2>5. QED
    BY <2>1, <2>2, <2>3, <2>4, KlineFrame
<1>3. QED
  BY <1>1, <1>2 DEF LoopStep

LEMMA AgentKlines ==
  ASSUME StateOK, StateOK', KlineInv, NEW p \in Procs, AgentStep(p) PROVE KlineInv'
<1>1. UNCHANGED <<window, event, heard, klineSet, posMsg>>
  BY DEF AgentStep, GenerateFails, GenerateGarbage, Generate, StashReminder,
         processNextCommands, Act, EmitReturns, inbox
<1>2. sends'["kline"] = sends["kline"]
  BY Names DEF AgentStep, GenerateFails, GenerateGarbage, Generate, StashReminder,
         processNextCommands, Act, EmitReturns, CommandSucceeds, CommandFails, CommandEmits,
         StateOK, ChannelOK
<1>3. proc'[Loop] = proc[Loop] \/ proc[Loop].pc \notin {"handle", "stash"}
  <2>1. CASE p = Loop
    BY <2>1 DEF AgentStep, GenerateFails, GenerateGarbage, Generate, StashReminder,
         processNextCommands, Act, EmitReturns, At
  <2>2. CASE p # Loop
    <3>1. PICK k : proc' = [proc EXCEPT ![p] = k]
      BY AgentMovesOne
    <3>2. QED
      BY <2>2, <3>1, Names DEF StateOK, ControlsOK
  <2>3. QED
    BY <2>1, <2>2
<1>4. \A s \in Sessions : posMsg[s] >= posMsg[s]
  BY PositionsTyped
<1>5. QED
  BY <1>1, <1>2, <1>3, <1>4, KlineFrame

LEMMA StepKlines ==
  ASSUME StateOK, StateOK', NewsInv, KlineInv, [Next]_vars PROVE KlineInv'
<1>1. CASE UNCHANGED vars
  <2>1. \A s \in Sessions : posMsg[s] >= posMsg[s]
    BY PositionsTyped
  <2>2. QED
    BY <1>1, <2>1, KlineFrame DEF vars, inbox
<1>2. QED
  BY <1>1, OutsideKlines, ReceiveKlines, LoopKlines, AgentKlines DEF Next

\* A session is prompted only by StartDecision, and then with all it was told.
LEMMA DecisionInformed ==
  ASSUME StateOK, NewsInv, KlineInv, [Next]_vars, NEW s \in Sessions,
         shown'[s] # shown[s], event.from = "kline"
  PROVE  /\ \A e \in ToSet(CycleEvents("kline", event.cycle)) :
              e.type \in NewsTypes \cap includeEvents => e \in shown'[s]
         /\ {"kline_changed", "position_changed"} \subseteq includeEvents =>
              posMsg[s] >= event.cycle
<1>1. StartDecision
  BY DEF Next, vars, Outside, KLineClosed, PositionOpens, PositionCloses, NewsArrives, ChatMessage,
         Receive, LoopStep, HandlePositionChanged, HandleNews, stashMsg, LoadCommands, ExecuteCommand,
         SaveStatuses, NothingToDecide, RenderFails, FinishDecision, AgentStep, GenerateFails,
         GenerateGarbage, Generate, StashReminder, processNextCommands, Act, EmitReturns
<1>2. At(Loop, "prompt") /\ s = Session(Loop) /\ shown'[s] = shown[s] \cup ToSet(msgs[s])
  BY <1>1, SessionNumbers DEF StartDecision, StateOK, InboxOK
<1>3. event.type = "update_finish"
  BY <1>2 DEF NewsInv, DispatchOK, At
<1>4. heard \subseteq shown'[s]
  <2>1. Told(proc[Loop], event, heard, msgs[s], shown[s], s)
    BY DEF NewsInv, TellsOK
  <2>2. UndeliveredAt(proc[Loop], event, s) = {} /\ ~DecidingAt(proc[Loop], s)
    BY <1>2 DEF UndeliveredAt, DecidingAt, At, AgentPcs
  <2>3. QED
    BY <1>2, <2>1, <2>2 DEF Told, UnseenAt
<1>5. /\ HeardOf("kline_changed", event.cycle) /\ HeardOf("indicator_changed", event.cycle)
      /\ {"kline_changed", "position_changed"} \subseteq includeEvents => posMsg[s] >= event.cycle
  BY <1>3 DEF KlineInv, FinishInformed
<1> DEFINE n == event.cycle
           full == CycleEvents("kline", n)
<1>6. ASSUME NEW e \in ToSet(full), e.type \in NewsTypes \cap includeEvents PROVE e \in shown'[s]
  <2>1. /\ Len(full) = 4 /\ full \in Seq(Events)
        /\ full[1] = Event("kline_changed", "kline", n)
        /\ full[2] = Event("indicator_changed", "kline", n)
        /\ full[3] = Event("position_changed", "kline", n)
        /\ full[4] = Event("update_finish", "kline", n)
    BY Names, PositionsTyped, CycleTyped
  <2> HIDE DEF full
  <2>2. DOMAIN full = {1, 2, 3, 4}
    BY <2>1, LenProperties
  <2>3. \A t : Event(t, "kline", n).type = t
    BY DEF Event
  <2>4. e \in {full[1], full[2], full[3], full[4]}
    BY <1>6, <2>2 DEF ToSet
  <2>5. e = full[1] \/ e = full[2]
    BY <1>6, <2>1, <2>3, <2>4 DEF NewsTypes
  <2>6. e \in heard
    BY <1>5, <1>6, <2>1, <2>3, <2>5 DEF HeardOf
  <2>7. QED
    BY <1>4, <2>6
<1>7. QED
  BY <1>5, <1>6

\* A decision that the k-line callback's update_finish starts was told that
\* k-line and its indicators, and works with a position message of that update
\* or a later one, under the same condition on chats as NewsToldOnce.
THEOREM DecisionsInformed == NoSharedStash => (Spec => KlineDecisionsAreInformed)
<1> SUFFICES ASSUME NoSharedStash PROVE Spec => KlineDecisionsAreInformed
  OBVIOUS
<1> DEFINE Inv == StateOK /\ NewsInv /\ KlineInv
           Informed == \A s \in Sessions :
             shown'[s] # shown[s] /\ event.from = "kline" =>
               /\ \A e \in ToSet(CycleEvents("kline", event.cycle)) :
                    e.type \in NewsTypes \cap includeEvents => e \in shown'[s]
               /\ {"kline_changed", "position_changed"} \subseteq includeEvents =>
                    posMsg[s] >= event.cycle
<1>1. Init => Inv
  <2>1. Init => KlineInv
    BY Names DEF Init, KlineInv, CallbackOK, KlineKnown, FinishInformed, NoEvent, Event
  <2>2. QED
    BY <2>1, StartsTyped, StartsTelling
<1>2. Inv /\ [Next]_vars => Inv'
  BY StepTyped, StepTells, StepKlines
<1>3. Inv /\ [Next]_vars => [Informed]_vars
  BY DecisionInformed
<1>4. QED
  BY <1>1, <1>2, <1>3, PTL DEF Spec, KlineDecisionsAreInformed
=============================================================================
