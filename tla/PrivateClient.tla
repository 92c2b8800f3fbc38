---------------------------- MODULE PrivateClient ----------------------------
(***************************************************************************)
(* Signed requests to HTX: PrivateClient (private_client.go) behind        *)
(* PrivateSession (private_session.go), over PrivateHTTPTransport          *)
(* (private_http_transport.go), with the parsers of order.go.  Several     *)
(* goroutines call the client, which keeps no state of its own; what is    *)
(* hard is the exchange at the other end.  A request may be lost, may be   *)
(* served after its caller gave up, and its answer may be lost.            *)
(*                                                                         *)
(* The exchange, its wire and the callers' contexts are external.  All     *)
(* orders buy one instrument at price 1, so an amount is also its price.   *)
(* Signing, routes, headers and the redaction of keys are left out.        *)
(***************************************************************************)
EXTENDS Integers, Sequences, FiniteSets, SequencesExt

CONSTANTS
  Callers,      \* goroutines that use the client
  Orders,       \* the order inputs of the callers: [type, price, quantity]
  MaxAttempts,  \* the retry policy
  MaxOrders,    \* bounds the orders the exchange accepts
  MaxCalls,     \* bounds the calls
  MaxFaults,    \* bounds the lost, late, refused and failing requests
  Funds         \* what the account holds at the start

ASSUME ClientAssumption ==
  /\ Orders \subseteq [type: STRING, price: Int, quantity: Int]
  /\ {MaxOrders, MaxCalls, MaxFaults, Funds} \subseteq Nat
  /\ MaxAttempts \in Int

VARIABLES
  orders,  \* the exchange's orders, by id: [by, amount, filled, state]
  wire,    \* requests not yet served
  call,    \* [Callers -> the call in progress, or the last one]
  calls,   \* calls made so far
  faults   \* faults so far

vars == <<orders, wire, call, calls, faults>>

NoAnswer == [http |-> "none", status |-> "none", data |-> <<>>]
NoResult == [ok |-> FALSE, data |-> <<>>]

NoCall == [pc |-> "done", n |-> 0, action |-> "none", arg |-> 0, attempt |-> 0,
           canceled |-> FALSE, answer |-> NoAnswer, result |-> NoResult,
           seen |-> {}, passing |-> 0, refused |-> FALSE]

-----------------------------------------------------------------------------
(* The exchange (external)                                                 *)

Working(state) == state \in {"submitted", "partial-filled", "canceling"}

Detail(order) == [state |-> order.state, filled |-> order.filled]

\* What an order still holds back.
Held(order) == IF Working(order.state) THEN order.amount - order.filled ELSE 0

Frozen(book) == SumFunctionOnSet([i \in DOMAIN book |-> Held(book[i])], DOMAIN book)
Bought(book) == SumFunctionOnSet([i \in DOMAIN book |-> book[i].filled], DOMAIN book)
Available(book) == Funds - Frozen(book) - Bought(book)

\* What the exchange, having these orders, answers a query with.
View(book, action, arg) ==
  CASE action = "query-order" -> IF arg \in DOMAIN book THEN <<Detail(book[arg])>> ELSE <<>>
    [] action = "query-order-trades" ->
         IF arg \in DOMAIN book THEN [k \in 1..book[arg].filled |-> 1] ELSE <<>>
    [] action = "query-account-balance" ->
         <<[currency |-> "USDT", type |-> "trade", balance |-> Available(book)],
           [currency |-> "USDT", type |-> "frozen", balance |-> Frozen(book)],
           [currency |-> "BTC", type |-> "trade", balance |-> Bought(book)]>>
    [] OTHER -> <<>>

-----------------------------------------------------------------------------
(* What the client makes of an answer                                      *)

\* Mutant: every action is repeated.
EveryAction(action) == TRUE

readOnlyPrivateAction(action) ==
  action \in {"query-account-balance", "query-order", "query-order-trades"}

attempts(action) ==
  IF ~readOnlyPrivateAction(action) \/ MaxAttempts <= 0 THEN 1
  ELSE IF MaxAttempts > 3 THEN 3 ELSE MaxAttempts

\* Mutant: only what fails on the wire is repeated.
RetryTransportErrors(answer) == answer.http = "failed"

\* A failed transport, 429, 5xx, and an error body that speaks of rates or of
\* a passing condition, whatever its HTTP status.
ClassifyPrivateRetry(answer) ==
  \/ answer.http \in {"failed", "429", "5xx"}
  \/ answer.status \in {"rate-limited", "transient"}

\* Mutant: of a cancellation only the HTTP status is looked at.
AnyCancel(action, answer) ==
  answer.http = "2xx" /\ (answer.status = "ok" \/ action = "cancel-order")

\* do's and checkOrderResponseStatus's conditions for an answer to be one.
Success(action, answer) == answer.http = "2xx" /\ answer.status = "ok"

\* Mutant: an order being cancelled is reported as done.
CancelingIsDone(state) ==
  CASE state = "submitted" -> [status |-> "NEW", working |-> TRUE]
    [] state = "partial-filled" -> [status |-> "PARTIALLY_FILLED", working |-> TRUE]
    [] state = "partial-canceled" -> [status |-> "PARTIALLY_FILLED", working |-> FALSE]
    [] state = "filled" -> [status |-> "FILLED", working |-> FALSE]
    [] OTHER -> [status |-> "CANCELED", working |-> FALSE]

MapOrderState(state) ==
  CASE state \in {"submitted", "canceling"} -> [status |-> "NEW", working |-> TRUE]
    [] state = "partial-filled" -> [status |-> "PARTIALLY_FILLED", working |-> TRUE]
    [] state = "partial-canceled" -> [status |-> "PARTIALLY_FILLED", working |-> FALSE]
    [] state = "filled" -> [status |-> "FILLED", working |-> FALSE]
    [] state = "canceled" -> [status |-> "CANCELED", working |-> FALSE]

Order(detail) ==
  LET mapped == MapOrderState(detail.state)
  IN <<[status |-> mapped.status, working |-> mapped.working, executed |-> detail.filled]>>

Amount(list, currency, type) ==
  SumFunctionOnSet([i \in DOMAIN list |->
                      IF list[i].currency = currency /\ list[i].type = type
                      THEN list[i].balance ELSE 0], DOMAIN list)

\* Mutant: the frozen amount replaces the balance instead of completing it.
LastTypeWins(list) ==
  [currency \in {list[i].currency : i \in DOMAIN list} |->
     LET last == CHOOSE i \in DOMAIN list :
           /\ list[i].currency = currency
           /\ \A j \in DOMAIN list : list[j].currency = currency => j <= i
     IN [Available |-> IF list[last].type = "trade" THEN list[last].balance ELSE 0,
         Locked |-> IF list[last].type = "frozen" THEN list[last].balance ELSE 0]]

ParseAccountBalanceResponse(list) ==
  [currency \in {list[i].currency : i \in DOMAIN list} |->
     [Available |-> Amount(list, currency, "trade"),
      Locked |-> Amount(list, currency, "frozen")]]

\* What a call returns when its last answer is a success.
Parsed(action, data) ==
  CASE action = "query-order" -> Order(data[1])
    [] action = "query-account-balance" -> ParseAccountBalanceResponse(data)
    [] OTHER -> data

\* Mutant: the quantity is not checked.
AnyQuantity(o) ==
  /\ o.type \in {"LIMIT", "LIMIT_MAKER", "MARKET"}
  /\ o.type # "MARKET" => o.price > 0

\* marshalSubmitOrderBody: a quantity, a known type, and a price unless the
\* order is a market order.
marshalSubmitOrderBody(o) ==
  /\ o.quantity > 0
  /\ o.type \in {"LIMIT", "LIMIT_MAKER", "MARKET"}
  /\ o.type # "MARKET" => o.price > 0

-----------------------------------------------------------------------------
(* The client                                                              *)

Inputs(action) ==
  CASE action = "submit-order" -> {o.quantity : o \in {o \in Orders : marshalSubmitOrderBody(o)}}
    [] action = "query-account-balance" -> {0}
    [] OTHER -> 1..MaxOrders

Actions == {"submit-order", "cancel-order", "query-order", "query-order-trades",
            "query-account-balance"}

\* PrivateSession's method, the client's, and do up to its loop.  An input the
\* client refuses returns before anything is sent.
Begin(c, action) ==
  /\ call[c].pc = "done"
  /\ calls < MaxCalls
  /\ calls' = calls + 1
  /\ \E arg \in Inputs(action) :
       call' = [call EXCEPT ![c] =
         [NoCall EXCEPT !.pc = "ready", !.n = calls + 1, !.action = action, !.arg = arg,
                        !.attempt = 1, !.seen = {View(orders, action, arg)}]]
  /\ UNCHANGED <<orders, wire, faults>>

Request(c) ==
  [by |-> c, n |-> call[c].n, attempt |-> call[c].attempt, action |-> call[c].action,
   arg |-> call[c].arg]

\* An abandoned query is forgotten; an abandoned order is not: it may arrive.
Abandoned(c) == IF readOnlyPrivateAction(call[c].action) THEN wire \ {Request(c)} ELSE wire

Return(c, result) ==
  call' = [call EXCEPT ![c].pc = "done", ![c].result = result, ![c].answer = NoAnswer]

\* One round of the loop until the request has left.
RoundTrip(c) ==
  /\ call[c].pc = "ready"
  /\ ~call[c].canceled
  /\ wire' = wire \cup {Request(c)}
  /\ call' = [call EXCEPT ![c].pc = "waiting"]
  /\ UNCHANGED <<orders, calls, faults>>

\* The context is done: before a request, or when RoundTrip returns, even with
\* an answer.
Canceled(c) ==
  /\ call[c].pc \in {"ready", "waiting"}
  /\ call[c].canceled
  /\ Return(c, NoResult)
  /\ wire' = IF call[c].pc = "waiting" THEN Abandoned(c) ELSE wire
  /\ UNCHANGED <<orders, calls, faults>>

\* The rest of the round: repeat, or return the error or the parsed body.
Answered(c) ==
  LET answer == call[c].answer
      again == ClassifyPrivateRetry(answer) /\ call[c].attempt < attempts(call[c].action)
  IN /\ call[c].pc = "waiting"
     /\ answer # NoAnswer
     /\ ~call[c].canceled
     /\ IF again
        THEN call' = [call EXCEPT ![c].pc = "ready", ![c].answer = NoAnswer,
                                  ![c].attempt = @ + 1]
        ELSE Return(c, IF Success(call[c].action, answer)
                       THEN [ok |-> TRUE, data |-> Parsed(call[c].action, answer.data)]
                       ELSE NoResult)
     /\ wire' = Abandoned(c)
     /\ UNCHANGED <<orders, calls, faults>>

-----------------------------------------------------------------------------
(* The other end (external)                                                *)

Failed == [http |-> "failed", status |-> "none", data |-> <<>>]
\* Passing answers, and those that will not pass: a redirect,
\* an error body, a body over the bound.
Passing == {[http |-> "429", status |-> "none", data |-> <<>>],
            [http |-> "5xx", status |-> "none", data |-> <<>>],
            [http |-> "2xx", status |-> "transient", data |-> <<>>]}
Refusals == {[http |-> "3xx", status |-> "none", data |-> <<>>],
             [http |-> "2xx", status |-> "error", data |-> <<>>]}

Fault == faults < MaxFaults /\ faults' = faults + 1

\* The exchange's state as the callers in a query may see it from now on.
Noted(calling) ==
  [c \in Callers |->
     IF calling[c].pc = "done" THEN calling[c]
     ELSE [calling[c] EXCEPT !.seen = @ \cup {View(orders', calling[c].action, calling[c].arg)}]]

\* The caller's answer, with the history of what its call met.
Met(c, answer) ==
  [call EXCEPT ![c].answer = answer,
               ![c].passing = IF answer \in Passing \cup {Failed} THEN @ + 1 ELSE @,
               ![c].refused = @ \/ answer \in Refusals]

\* The answer reaches the caller if it still waits for it.
Deliver(req, answer) ==
  LET c == req.by
  IN IF call[c].pc = "waiting" /\ call[c].answer = NoAnswer /\ Request(c) = req
     THEN Met(c, answer) ELSE call

Ok(data) == [http |-> "2xx", status |-> "ok", data |-> data]

Place(req) ==
  /\ req.action = "submit-order"
  /\ Len(orders) < MaxOrders
  /\ req.arg <= Available(orders)
  /\ orders' = Append(orders, [by |-> req.n, amount |-> req.arg, filled |-> 0,
                               state |-> "submitted"])

CancelRequested(req) ==
  /\ req.action = "cancel-order"
  /\ req.arg \in DOMAIN orders
  /\ Working(orders[req.arg].state)
  /\ orders' = [orders EXCEPT ![req.arg].state = "canceling"]

\* The request is done; its answer, a failure of the server's front, or nothing.
Serve(req) ==
  /\ \/ Place(req)
     \/ CancelRequested(req)
     \/ /\ readOnlyPrivateAction(req.action)
        /\ req.action # "query-account-balance" => req.arg \in DOMAIN orders
        /\ UNCHANGED orders
  /\ wire' = wire \ {req}
  /\ LET data == CASE req.action = "submit-order" -> <<Len(orders) + 1>>
                   [] req.action = "cancel-order" -> <<req.arg>>
                   [] OTHER -> View(orders, req.action, req.arg)
     IN \/ /\ call' = Noted(Deliver(req, Ok(data)))
           /\ UNCHANGED faults
        \/ \E answer \in Passing \cup {Failed} :
             /\ Fault
             /\ call' = Noted(Deliver(req, answer))
  /\ UNCHANGED calls

\* The request has no effect.
Refuse(req) ==
  /\ Fault
  /\ wire' = wire \ {req}
  /\ \E answer \in Passing \cup Refusals \cup {Failed} : call' = Deliver(req, answer)
  /\ UNCHANGED <<orders, calls>>

\* The HTTP client's timeout, or a broken connection.
Timeout(c) ==
  /\ call[c].pc = "waiting"
  /\ call[c].answer = NoAnswer
  /\ Fault
  /\ call' = Met(c, Failed)
  /\ UNCHANGED <<orders, wire, calls>>

CancelContext(c) ==
  /\ call[c].pc # "done"
  /\ ~call[c].canceled
  /\ Fault
  /\ call' = [call EXCEPT ![c].canceled = TRUE]
  /\ UNCHANGED <<orders, wire, calls>>

\* The market fills one unit of an order, or a cancellation is carried out.
Match(i) ==
  /\ Working(orders[i].state)
  /\ \/ orders' = [orders EXCEPT
          ![i].filled = @ + 1,
          ![i].state = IF orders[i].filled + 1 = orders[i].amount THEN "filled"
                       ELSE IF @ = "canceling" THEN @ ELSE "partial-filled"]
     \/ /\ orders[i].state = "canceling"
        /\ orders' = [orders EXCEPT
             ![i].state = IF orders[i].filled = 0 THEN "canceled" ELSE "partial-canceled"]
  /\ call' = Noted(call)
  /\ UNCHANGED <<wire, calls, faults>>

-----------------------------------------------------------------------------

Init ==
  /\ orders = <<>>
  /\ wire = {}
  /\ call = [c \in Callers |-> NoCall]
  /\ calls = 0
  /\ faults = 0

Next ==
  \/ \E c \in Callers :
       \/ \E action \in Actions : Begin(c, action)
       \/ RoundTrip(c) \/ Canceled(c) \/ Answered(c) \/ Timeout(c) \/ CancelContext(c)
  \/ \E req \in wire : Serve(req) \/ Refuse(req)
  \/ \E i \in DOMAIN orders : Match(i)

Spec == Init /\ [][Next]_vars

-----------------------------------------------------------------------------
(* Properties                                                              *)

\* Type invariant.
TypeOK ==
  /\ \A i \in DOMAIN orders :
       /\ orders[i].amount \in 1..Funds
       /\ orders[i].filled \in 0..orders[i].amount
       /\ orders[i].state \in {"submitted", "partial-filled", "canceling", "filled",
                               "canceled", "partial-canceled"}
  /\ \A req \in wire : req.by \in Callers /\ req.action \in Actions /\ req.n \in 1..calls
  /\ \A c \in Callers :
       /\ call[c].pc \in {"ready", "waiting", "done"}
       /\ call[c].attempt \in 0..attempts(call[c].action)
  /\ calls \in 0..MaxCalls /\ faults \in 0..MaxFaults
  /\ Available(orders) >= 0

\* One SubmitOrder makes at most one order, whatever is lost, late or refused:
\* do repeats queries only (readOnlyPrivateAction).
OneOrderPerSubmit ==
  \A i, j \in DOMAIN orders : orders[i].by = orders[j].by => i = j

\* An acknowledged order exists and is that call's; an acknowledged cancel has
\* reached the order (do, parseOrderIDResponse).
AcksAreTrue ==
  \A c \in Callers :
    call[c].pc = "done" /\ call[c].result.ok =>
      /\ call[c].action = "submit-order" =>
           /\ call[c].result.data[1] \in DOMAIN orders
           /\ orders[call[c].result.data[1]].by = call[c].n
      /\ call[c].action = "cancel-order" =>
           /\ call[c].arg \in DOMAIN orders
           /\ orders[call[c].arg].state \notin {"submitted", "partial-filled"}

\* What a query reports was so at some moment of the call: no report survives
\* from an earlier attempt's time or mixes two moments (do, ParseAccountBalanceResponse).
\* The account's total is what it holds in the order and out of it.
ReportsAreCurrent ==
  \A c \in Callers :
    call[c].pc = "done" /\ call[c].result.ok =>
      /\ call[c].action = "query-order" =>
           \E view \in call[c].seen \ {<<>>} : call[c].result.data = Order(view[1])
      /\ call[c].action = "query-order-trades" => call[c].result.data \in call[c].seen
      /\ call[c].action = "query-account-balance" =>
           LET usdt == call[c].result.data["USDT"]
               btc == call[c].result.data["BTC"]
           IN usdt.Available + usdt.Locked + btc.Available = Funds

\* An order reported as no longer working never changes again, so its executed
\* quantity is final (MapOrderState, OrderDetail.Order).
NotWorkingIsFinal ==
  \A c \in Callers :
    /\ call[c].pc = "done" /\ call[c].result.ok /\ call[c].action = "query-order"
    /\ ~call[c].result.data[1].working
    =>  /\ ~Working(orders[call[c].arg].state)
        /\ orders[call[c].arg].filled = call[c].result.data[1].executed

\* A query that met fewer passing faults than it has attempts, no refusal and
\* no end of its context has answered (do, ClassifyPrivateRetry).
PassingFaultsAreRiddenOut ==
  \A c \in Callers :
    /\ call[c].n > 0 /\ call[c].pc = "done" /\ readOnlyPrivateAction(call[c].action)
    /\ ~call[c].canceled /\ ~call[c].refused
    /\ call[c].passing < attempts(call[c].action)
    => call[c].result.ok
=============================================================================
