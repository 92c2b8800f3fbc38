---------------------------- MODULE DecisionLoop ----------------------------
(***************************************************************************)
(* The decision cycle: entities send events into one unbuffered channel    *)
(* (pkg/env/environment.go), its single receiver calls every admin         *)
(* session's callback in turn, and a session collects messages until       *)
(* update_finish makes it run pending commands and ask the agent           *)
(* (pkg/jarvis.go).  The k-line callback, the position-closed goroutines   *)
(* and the entities' commands (pkg/env/exchange/exchange_entity.go) are    *)
(* the senders; chat messages run the same agent code on goroutines of     *)
(* their own.                                                              *)
(*                                                                         *)
(* A blocked sender is a non-empty sends[g]: the events goroutine g still  *)
(* has to hand over, in order.  The model starts when Strategy.Run has     *)
(* returned: every admin session is registered and the k-line window is    *)
(* set.  The language model and the exchange are external: they answer or  *)
(* fail, in any way.                                                       *)
(***************************************************************************)
EXTENDS Integers, Sequences, SequencesExt, Selection

CONSTANTS
  NumSessions,          \* admin sessions, in registration order
  Chats,                \* chat channels, by name
  ChatSession,          \* [Chats -> session], an admin session or another one
  includeEvents,        \* event types the environment lets through
  HandlePositionClose, MemoryEnabled, CommandsEnabled,   \* configuration
  MaxRetryTime, MaxCommandsPerCycle,
  Answers,              \* what the agent may answer: [truncated, next, action]
  MaxKlines, MaxCloses, MaxNews, MaxChats   \* bounds on what the outside does

Loop == "loop"
Sessions == 1..NumSessions
AllSessions == Sessions \cup {ChatSession[c] : c \in Chats}
Procs == {Loop} \cup Chats
Senders == {"kline", "closed", "closeCycle", "news"} \cup Procs

Trades == {"open_limit", "open_market", "close_position", "no_action"}
Emitting == {"get_indicator"}     \* commands that send their result to the channel
Supported == Trades \cup Emitting

ASSUME LoopAssumption ==
  /\ NumSessions \in Nat \ {0}
  /\ ChatSession \in [Chats -> Nat \ {0}]
  /\ {HandlePositionClose, MemoryEnabled, CommandsEnabled} \subseteq BOOLEAN
  /\ {MaxRetryTime, MaxCommandsPerCycle, MaxKlines, MaxCloses, MaxNews, MaxChats} \subseteq Nat
  /\ Chats \cap {"loop", "kline", "closed", "closeCycle", "news"} = {}
  /\ Answers \subseteq [truncated: BOOLEAN, next: Seq(STRING), action: STRING]

VARIABLES
  window,    \* number of the newest k-line in the shared KLineWindow
  sends,     \* [Senders -> Seq(event)], what each goroutine is blocked on
  event,     \* the event the loop is dispatching
  proc,      \* [Procs -> control state of the loop and of each chat goroutine]
  msgs,      \* [session -> its "tempMsgs" attribute, <<>> when removed]
  klineSet,  \* [session -> whether the "kline" attribute is set]
  posMsg,    \* [session -> window "position_msg" was written at, 0 if absent]
  pending,   \* commands saved for the next cycle
  scheduled, \* how many commands were ever saved
  round,     \* how many update_finish events were dispatched
  orders,    \* open orders of the strategy
  failed,    \* k-lines whose limit-order cleanup failed
  position,  \* "flat" or "open"
  outside,   \* [closes, news, chats], how often the outside acted
  heard,     \* news the loop received
  shown      \* [session -> messages its agent was prompted with]

inbox == <<msgs, klineSet, posMsg>>
market == <<orders, failed, position>>
store == <<pending, scheduled>>
vars == <<window, sends, event, proc, inbox, store, round, market, outside, heard, shown>>

Event(type, from, cycle) == [type |-> type, from |-> from, cycle |-> cycle]
NoEvent == Event("none", "none", 0)
Reminder == Event("reminder", "agent", 0)

\* The event types a session turns into prompt messages.
NewsTypes == {"kline_changed", "indicator_changed", "position_closed", "news_changed"}

IsAdmin(s) == s \in Sessions
Session(p) == proc[p].session

NoAnswer == [truncated |-> FALSE, next |-> <<>>, action |-> ""]
Idle(p) == [pc |-> IF p = Loop THEN "receive" ELSE "idle",
            session |-> IF p = Loop THEN 1 ELSE ChatSession[p], retry |-> 0,
            answer |-> NoAnswer, todo |-> <<>>, done |-> {}, buf |-> <<>>, cycle |-> 0]

\* Process p goes to pc.
Goto(p, pc) == proc' = [proc EXCEPT ![p].pc = pc]
At(p, pc) == proc[p].pc = pc

-----------------------------------------------------------------------------
(* The senders                                                             *)

\* Mutant: the callback announces the end of the update before the data.
CycleEventsFinishFirst(g, cycle) ==
  <<Event("kline_changed", g, cycle), Event("update_finish", g, cycle),
    Event("indicator_changed", g, cycle), Event("position_changed", g, cycle)>>

\* The events of one update, in the order the callbacks emit them.
CycleEvents(g, cycle) ==
  <<Event("kline_changed", g, cycle), Event("indicator_changed", g, cycle),
    Event("position_changed", g, cycle), Event("update_finish", g, cycle)>>

\* Goroutine g is not waiting for the loop to take an event.
Returned(g) == sends[g] = <<>>

IsLimit(o) == o.type = "open_limit"

\* Mutant: an open position protects its limit orders from the cleanup.
CleanedWhenFlat == IF position = "open" THEN orders ELSE {o \in orders : ~IsLimit(o)}

\* What cleanupLimitOrders leaves of the orders.
Cleaned == {o \in orders : ~IsLimit(o)}

\* A k-line closes: the window grows, unfilled limit orders are cancelled
\* (or the exchange refuses, which is only logged), and the update is sent.
KLineClosed ==
  /\ Returned("kline")
  /\ window < MaxKlines
  /\ window' = window + 1
  /\ \/ /\ orders' = Cleaned
        /\ UNCHANGED failed
     \/ /\ \E o \in orders : IsLimit(o)
        /\ failed' = failed \cup {window'}
        /\ UNCHANGED orders
  /\ sends' = [sends EXCEPT !["kline"] = @ \o CycleEvents("kline", window')]
  /\ UNCHANGED <<event, proc, inbox, store, round, position, outside, heard, shown>>

\* The exchange fills an order, or a stop closes the position.  A closed
\* position is announced by one goroutine and, if configured, followed five
\* seconds later by a full update from another.
PositionOpens(o) ==
  /\ o \in orders
  /\ o.type # "close"
  /\ orders' = orders \ {o}
  /\ position' = "open"
  /\ UNCHANGED <<window, sends, event, proc, inbox, store, round, failed, outside, heard, shown>>

PositionCloses ==
  /\ position = "open"
  /\ outside.closes < MaxCloses
  /\ Returned("closed") /\ Returned("closeCycle")
  /\ position' = "flat"
  /\ orders' = {o \in orders : o.type # "close"}
  /\ outside' = [outside EXCEPT !.closes = @ + 1]
  /\ sends' = [sends EXCEPT
       !["closed"] = <<Event("position_closed", "closed", outside'.closes)>>,
       !["closeCycle"] = IF HandlePositionClose
                         THEN CycleEvents("closeCycle", outside'.closes) ELSE <<>>]
  /\ UNCHANGED <<window, event, proc, inbox, store, round, failed, heard, shown>>

\* A feed entity (Twitter, Coze) emits what it fetched.
NewsArrives ==
  /\ Returned("news")
  /\ outside.news < MaxNews
  /\ outside' = [outside EXCEPT !.news = @ + 1]
  /\ sends' = [sends EXCEPT !["news"] = <<Event("news_changed", "news", outside'.news)>>]
  /\ UNCHANGED <<window, event, proc, inbox, store, round, market, heard, shown>>

-----------------------------------------------------------------------------
(* The receiver                                                            *)

\* Where a session's handling of an event starts.
FirstStep(e) ==
  IF e.type # "update_finish" THEN "handle"
  ELSE IF CommandsEnabled THEN "load" ELSE "prompt"

\* The loop takes an event and dispatches it to the first session, unless
\* its type is not included.
Receive(g) ==
  LET e == Head(sends[g])
      finish == e.type = "update_finish"
  IN
  /\ At(Loop, "receive")
  /\ sends[g] # <<>>
  /\ sends' = [sends EXCEPT ![g] = Tail(@)]
  /\ IF e.type \in includeEvents
     THEN /\ event' = e
          /\ round' = IF finish THEN round + 1 ELSE round
          /\ heard' = IF e.type \in NewsTypes THEN heard \cup {e} ELSE heard
          /\ proc' = [proc EXCEPT ![Loop] =
               [Idle(Loop) EXCEPT !.pc = FirstStep(e), !.session = 1, !.cycle = window]]
     ELSE UNCHANGED <<event, round, heard, proc>>
  /\ UNCHANGED <<window, inbox, store, market, outside, shown>>

\* Mutant: the callbacks are counted from zero.
NextSessionOffByOne ==
  IF Session(Loop) <= NumSessions
  THEN [Idle(Loop) EXCEPT !.pc = FirstStep(event), !.session = Session(Loop) + 1, !.cycle = window]
  ELSE Idle(Loop)

\* The next callback gets the event, or the loop is ready to receive again.
NextSession ==
  IF Session(Loop) < NumSessions
  THEN [Idle(Loop) EXCEPT !.pc = FirstStep(event), !.session = Session(Loop) + 1, !.cycle = window]
  ELSE Idle(Loop)

\* Events other than update_finish.  Stashing a message reads the attribute
\* and then writes it back; a position is only formatted once a k-line is
\* known and replaces the message before.
HandlePositionChanged ==
  /\ At(Loop, "handle")
  /\ event.type = "position_changed"
  /\ posMsg' = IF klineSet[Session(Loop)]
               THEN [posMsg EXCEPT ![Session(Loop)] = window] ELSE posMsg
  /\ proc' = [proc EXCEPT ![Loop] = NextSession]
  /\ UNCHANGED <<window, sends, event, msgs, klineSet, store, round, market, outside, heard, shown>>

HandleNews ==
  /\ At(Loop, "handle")
  /\ event.type # "position_changed"
  /\ klineSet' = IF event.type = "kline_changed"
                 THEN [klineSet EXCEPT ![Session(Loop)] = TRUE] ELSE klineSet
  /\ proc' = [proc EXCEPT ![Loop].pc = "stash", ![Loop].buf = msgs[Session(Loop)]]
  /\ UNCHANGED <<window, sends, event, msgs, posMsg, store, round, market, outside, heard, shown>>

stashMsg ==
  /\ At(Loop, "stash")
  /\ msgs' = [msgs EXCEPT ![Session(Loop)] = Append(proc[Loop].buf, event)]
  /\ proc' = [proc EXCEPT ![Loop] = NextSession]
  /\ UNCHANGED <<window, sends, event, klineSet, posMsg, store, round, market, outside, heard, shown>>

-----------------------------------------------------------------------------
(* Commands of the exchange entity                                         *)

NewOrder(p, type) == [type |-> type, by |-> p, cycle |-> proc[p].cycle]

\* The sets of orders a trading command may have submitted when it returns
\* without an error.  Opening against an open position of the other side
\* closes it first and does not wait for the fill.
Submitted(p, name) ==
  CASE name = "no_action" -> {{}}
    [] name = "close_position" ->
         IF position = "open" THEN {{NewOrder(p, "close")}} ELSE {{}}
    [] OTHER ->
         {{NewOrder(p, name)}} \cup
         (IF position = "open" THEN {{NewOrder(p, "close"), NewOrder(p, name)}} ELSE {})

\* What may have been submitted when it returns an error.
SubmittedOnError(p, name) ==
  IF name \in {"open_limit", "open_market"} /\ position = "open"
  THEN {{}, {NewOrder(p, "close")}} ELSE {{}}

\* SendCommand(name) by process p succeeds: the process continues as next.
CommandSucceeds(p, name, next) ==
  /\ name \in Trades
  /\ \E new \in Submitted(p, name) : orders' = orders \cup new
  /\ proc' = [proc EXCEPT ![p] = next]
  /\ UNCHANGED <<sends, failed, position>>

\* ... or fails: refused by the entity or by the exchange.
CommandFails(p, name, next) ==
  /\ \E new \in SubmittedOnError(p, name) : orders' = orders \cup new
  /\ proc' = [proc EXCEPT ![p] = next]
  /\ UNCHANGED <<sends, failed, position>>

\* ... or sends its result: it stays in the channel send until the loop
\* receives, whatever its context's deadline.
CommandEmits(p, name, next) ==
  /\ name \in Emitting
  /\ sends' = [sends EXCEPT ![p] = <<Event("indicator_changed", p, outside.chats)>>]
  /\ proc' = [proc EXCEPT ![p] = [next EXCEPT !.pc = "emit"]]
  /\ UNCHANGED market

-----------------------------------------------------------------------------
(* update_finish, first half: commands scheduled by an earlier cycle       *)

LoadCommands ==
  /\ At(Loop, "load")
  /\ proc' = [proc EXCEPT ![Loop].pc = IF pending = <<>> THEN "prompt" ELSE "commands",
                          ![Loop].todo = pending]
  /\ UNCHANGED <<window, sends, event, inbox, store, round, market, outside, heard, shown>>

ExecuteCommand ==
  LET me == proc[Loop]
      cmd == Head(me.todo)
      next == [me EXCEPT !.todo = Tail(@), !.done = @ \cup {cmd.id}]
  IN
  /\ At(Loop, "commands")
  /\ me.todo # <<>>
  /\ \/ CommandSucceeds(Loop, cmd.name, next)
     \/ CommandFails(Loop, cmd.name, next)
     \/ CommandEmits(Loop, cmd.name, next)
  /\ UNCHANGED <<window, event, inbox, store, round, outside, heard, shown>>

\* Commands that ran leave the pending list, unless the save fails.
SaveStatuses ==
  /\ At(Loop, "commands")
  /\ proc[Loop].todo = <<>>
  /\ \/ pending' = Keep(pending, {c \in ToSet(pending) : c.id \notin proc[Loop].done})
     \/ UNCHANGED pending
  /\ Goto(Loop, "prompt")
  /\ UNCHANGED <<window, sends, event, inbox, scheduled, round, market, outside, heard, shown>>

-----------------------------------------------------------------------------
(* update_finish, second half: the decision                                *)

\* Nothing stashed: no decision.
NothingToDecide ==
  /\ At(Loop, "prompt")
  /\ msgs[Session(Loop)] = <<>>
  /\ Goto(Loop, "finish")
  /\ UNCHANGED <<window, sends, event, inbox, store, round, market, outside, heard, shown>>

\* A prompt that cannot be rendered leaves the messages for the next update.
RenderFails ==
  /\ At(Loop, "prompt")
  /\ msgs[Session(Loop)] # <<>>
  /\ proc' = [proc EXCEPT ![Loop] = NextSession]
  /\ UNCHANGED <<window, sends, event, inbox, store, round, market, outside, heard, shown>>

StartDecision ==
  LET s == Session(Loop)
  IN
  /\ At(Loop, "prompt")
  /\ msgs[s] # <<>>
  /\ shown' = [shown EXCEPT ![s] = @ \cup ToSet(msgs[s])]
  /\ proc' = [proc EXCEPT ![Loop].pc = "generate", ![Loop].retry = MaxRetryTime]
  /\ UNCHANGED <<window, sends, event, inbox, store, round, market, outside, heard>>

\* Mutant: the messages stay for the next prompt.
FinishKeepsMessages ==
  /\ At(Loop, "finish")
  /\ proc' = [proc EXCEPT ![Loop] = NextSession]
  /\ UNCHANGED <<window, sends, event, inbox, store, round, market, outside, heard, shown>>

FinishDecision ==
  /\ At(Loop, "finish")
  /\ msgs' = [msgs EXCEPT ![Session(Loop)] = <<>>]
  /\ proc' = [proc EXCEPT ![Loop] = NextSession]
  /\ UNCHANGED <<window, sends, event, klineSet, posMsg, store, round, market, outside, heard, shown>>

-----------------------------------------------------------------------------
(* agentAction, on the loop or on a chat goroutine                         *)

ChatMessage(c) ==
  /\ At(c, "idle")
  /\ outside.chats < MaxChats
  /\ outside' = [outside EXCEPT !.chats = @ + 1]
  /\ proc' = [proc EXCEPT ![c] = [Idle(c) EXCEPT !.pc = "generate", !.retry = MaxRetryTime,
                                                 !.cycle = window]]
  /\ UNCHANGED <<window, sends, event, inbox, store, round, market, heard, shown>>

AfterAction(p) == IF p = Loop THEN [proc[p] EXCEPT !.pc = "finish"] ELSE Idle(p)

\* Mutant: a retry runs the whole cycle again.
RetryWholeCycle(p) ==
  IF proc[p].retry > 0
  THEN [proc[p] EXCEPT !.pc = IF p = Loop THEN "load" ELSE "generate", !.retry = @ - 1]
  ELSE AfterAction(p)

\* Mutant: the retries start over when they are used up.
RetryForever(p) ==
  [proc[p] EXCEPT !.pc = "generate", !.retry = IF @ > 0 THEN @ - 1 ELSE MaxRetryTime]

\* Asked again, with the error appended to the prompt, while retries are left.
Retry(p) ==
  IF proc[p].retry > 0
  THEN [proc[p] EXCEPT !.pc = "generate", !.retry = @ - 1]
  ELSE AfterAction(p)

\* The model fails: an admin session closes the position at once.
GenerateFails(p) ==
  /\ At(p, "generate")
  /\ \/ /\ IsAdmin(Session(p))
        /\ CommandSucceeds(p, "close_position", AfterAction(p))
     \/ /\ proc' = [proc EXCEPT ![p] = AfterAction(p)]
        /\ UNCHANGED <<sends, market>>
  /\ UNCHANGED <<window, event, inbox, store, round, outside, heard, shown>>

\* An answer that does not parse.
GenerateGarbage(p) ==
  /\ At(p, "generate")
  /\ proc' = [proc EXCEPT ![p] = Retry(p)]
  /\ UNCHANGED <<window, sends, event, inbox, store, round, market, outside, heard, shown>>

\* An answer: a truncated memory makes the agent stash a reminder.
Generate(p) ==
  /\ At(p, "generate")
  /\ \E a \in Answers :
       proc' = [proc EXCEPT ![p] =
         IF MemoryEnabled /\ a.truncated
         THEN [@ EXCEPT !.pc = "remind", !.answer = a, !.buf = msgs[Session(p)]]
         ELSE [@ EXCEPT !.pc = "schedule", !.answer = a]]
  /\ UNCHANGED <<window, sends, event, inbox, store, round, market, outside, heard, shown>>

StashReminder(p) ==
  /\ At(p, "remind")
  /\ msgs' = [msgs EXCEPT ![Session(p)] = Append(proc[p].buf, Reminder)]
  /\ Goto(p, "schedule")
  /\ UNCHANGED <<window, sends, event, klineSet, posMsg, store, round, market, outside, heard, shown>>

\* The supported commands among the first MaxCommandsPerCycle are saved.
processNextCommands(p) ==
  LET limit == IF Len(proc[p].answer.next) < MaxCommandsPerCycle
               THEN Len(proc[p].answer.next) ELSE MaxCommandsPerCycle
      names == Keep(SubSeq(proc[p].answer.next, 1, limit), Supported)
      new == [i \in 1..Len(names) |->
                [id |-> scheduled + i, name |-> names[i], by |-> p, round |-> round]]
  IN
  /\ At(p, "schedule")
  /\ \/ /\ CommandsEnabled
        /\ pending' = pending \o new
        /\ scheduled' = scheduled + Len(new)
     \/ UNCHANGED store                   \* disabled, or the save fails
  /\ Goto(p, "act")
  /\ UNCHANGED <<window, sends, event, inbox, round, market, outside, heard, shown>>

\* Only an admin session's action is carried out; a failing one is retried.
Act(p) ==
  LET name == proc[p].answer.action
  IN
  /\ At(p, "act")
  /\ \/ /\ name = "" \/ ~IsAdmin(Session(p))
        /\ proc' = [proc EXCEPT ![p] = AfterAction(p)]
        /\ UNCHANGED <<sends, market>>
     \/ /\ name # "" /\ IsAdmin(Session(p))
        /\ \/ CommandSucceeds(p, name, AfterAction(p))
           \/ CommandFails(p, name, Retry(p))
           \/ CommandEmits(p, name, proc[p])
  /\ UNCHANGED <<window, event, inbox, store, round, outside, heard, shown>>

\* The loop has taken the event a chat's command sent.
EmitReturns(p) ==
  /\ At(p, "emit")
  /\ Returned(p)
  /\ proc' = [proc EXCEPT ![p] = AfterAction(p)]
  /\ UNCHANGED <<window, sends, event, inbox, store, round, market, outside, heard, shown>>

-----------------------------------------------------------------------------
Init ==
  /\ window = 0
  /\ sends = [g \in Senders |-> <<>>]
  /\ event = NoEvent
  /\ proc = [p \in Procs |-> Idle(p)]
  /\ msgs = [s \in AllSessions |-> <<>>]
  /\ klineSet = [s \in AllSessions |-> FALSE]
  /\ posMsg = [s \in AllSessions |-> 0]
  /\ pending = <<>>
  /\ scheduled = 0
  /\ round = 0
  /\ orders = {}
  /\ failed = {}
  /\ position = "flat"
  /\ outside = [closes |-> 0, news |-> 0, chats |-> 0]
  /\ heard = {}
  /\ shown = [s \in AllSessions |-> {}]

Outside ==
  \/ KLineClosed
  \/ \E o \in orders : PositionOpens(o)
  \/ PositionCloses
  \/ NewsArrives
  \/ \E c \in Chats : ChatMessage(c)

LoopStep ==
  \/ HandlePositionChanged \/ HandleNews \/ stashMsg
  \/ LoadCommands \/ ExecuteCommand \/ SaveStatuses
  \/ NothingToDecide \/ RenderFails \/ StartDecision \/ FinishDecision

AgentStep(p) ==
  \/ GenerateFails(p) \/ GenerateGarbage(p) \/ Generate(p)
  \/ StashReminder(p) \/ processNextCommands(p) \/ Act(p) \/ EmitReturns(p)

Next ==
  \/ Outside
  \/ \E g \in Senders : Receive(g)
  \/ LoopStep
  \/ \E p \in Procs : AgentStep(p)

Spec == Init /\ [][Next]_vars

\* The loop's goroutine runs, the model and the exchange answer it or fail in
\* the end, and a channel serves its blocked senders in the order they came.
\* Nothing is assumed of the other senders or of the chats.
Fairness ==
  /\ WF_vars(LoopStep)
  /\ WF_vars(AgentStep(Loop))
  /\ SF_vars(Receive("kline"))

FairSpec == Spec /\ Fairness

-----------------------------------------------------------------------------
(* Properties                                                              *)

EventTypes == NewsTypes \cup {"position_changed", "update_finish", "none", "reminder"}
Events == [type: EventTypes, from: Senders \cup {"none", "agent"}, cycle: Nat]
LoopPcs == {"receive", "handle", "stash", "load", "commands", "prompt", "finish"}
AgentPcs == {"generate", "remind", "schedule", "act", "emit"}
Command == [id: Nat, name: Supported, by: Procs, round: Nat]

\* Type invariant.
TypeOK ==
  /\ window \in 0..MaxKlines
  /\ sends \in [Senders -> Seq(Events)]
  /\ event \in Events
  /\ \A p \in Procs :
       /\ proc[p].pc \in AgentPcs \cup (IF p = Loop THEN LoopPcs ELSE {"idle"})
       /\ proc[p].session \in IF p = Loop THEN Sessions ELSE {ChatSession[p]}
       /\ proc[p].retry \in 0..MaxRetryTime
       /\ proc[p].answer \in Answers \cup {NoAnswer}
       /\ proc[p].buf \in Seq(Events) /\ proc[p].todo \in Seq(Command)
       /\ proc[p].cycle \in 0..window
  /\ msgs \in [AllSessions -> Seq(Events)]
  /\ posMsg \in [AllSessions -> 0..window]
  /\ pending \in Seq(Command)
  /\ position \in {"flat", "open"}
  /\ failed \subseteq 1..window

\* The loop is between an agent's prompt for session s and the end of that
\* decision, where the session's messages are dropped.
Deciding(s) ==
  /\ Session(Loop) = s
  /\ \/ proc[Loop].pc \in (AgentPcs \ {"emit"}) \cup {"finish"}
     \/ At(Loop, "emit") /\ proc[Loop].answer # NoAnswer

\* The event is still on its way through the callbacks to session s.
Undelivered(s) ==
  IF proc[Loop].pc \in {"handle", "stash"} /\ Session(Loop) <= s THEN {event} ELSE {}

\* What session s still has to tell its agent.
Unseen(s) == IF Deciding(s) THEN {} ELSE ToSet(msgs[s])

\* Every piece of news the environment let through is told to each admin
\* session's agent in exactly one prompt: nothing is lost between stashMsg,
\* popMsgs and RemoveAttribute, and nothing is told twice, however the
\* senders' events interleave and however a decision ends.  (The reminder is no
\* news: an answer that is asked for again may stash it again.)
EachNewsToldOnce ==
  \A s \in Sessions :
    /\ heard \ Undelivered(s) \subseteq Unseen(s) \cup shown[s]
    /\ Unseen(s) \cap shown[s] = {}
    /\ \A i, j \in DOMAIN msgs[s] :
         msgs[s][i] = msgs[s][j] => i = j \/ msgs[s][i] = Reminder

\* A decision that the k-line callback's update_finish starts has been told
\* that k-line and its indicators, now or in an earlier prompt, and works
\* with a position message of that update or a later one.
KlineDecisionsAreInformed ==
  [][\A s \in Sessions :
       shown'[s] # shown[s] /\ event.from = "kline" =>
         /\ \A e \in ToSet(CycleEvents("kline", event.cycle)) :
              e.type \in NewsTypes \cap includeEvents => e \in shown'[s]
         /\ {"kline_changed", "position_changed"} \subseteq includeEvents =>
              posMsg[s] >= event.cycle]_vars

\* A command scheduled by a decision is carried out by a later update_finish
\* than the one that made the decision.
CommandsWaitForNextCycle ==
  [][\A c \in ToSet(proc[Loop].todo) :
       c.by = Loop /\ c.id \in proc'[Loop].done \ proc[Loop].done => c.round < round]_vars

\* A limit order left over from a decision is at most one update old: it
\* survives a second k-line only if the exchange refused every cleanup since.
\* It may survive one, because the cleanup runs in the k-line callback while
\* the decision before is still being made.
LimitOrdersAtMostOneCycleOld ==
  \A o \in orders :
    IsLimit(o) /\ o.by = Loop => (o.cycle + 2)..window \subseteq failed

\* The k-line callback, once blocked in the channel, gets all its events
\* through, whatever the other senders do and however often the agent is asked
\* again: only a command that sends its result from inside the loop, to the
\* loop, can block it for ever.
KlineNeverStarves ==
  ~Returned("kline") ~> (Returned("kline") \/ At(Loop, "emit"))

\* Documented (docs/features/next_commands_feature.md:249): a command has a
\* 30-second timeout, so that the loop always comes back from one.
CommandsReturn == At(Loop, "emit") ~> ~At(Loop, "emit")

\* Documented (pkg/env/exchange/exchange_entity.go:1227): a decision starts
\* without limit orders of earlier decisions, unless a cleanup failed.
DecisionsStartClean ==
  [][shown' # shown /\ failed = {} => ~\E o \in orders : IsLimit(o)]_vars
=============================================================================
