------------------------- MODULE PrivateClientProofs -------------------------
(***************************************************************************)
(* Proofs about PrivateClient, for any callers, orders, retry policy and   *)
(* number of calls and faults.  What the theorems say of orders and        *)
(* results follows from where a submission can be: not sent, on the wire   *)
(* once, or placed once, never in two of these places.                     *)
(***************************************************************************)
EXTENDS PrivateClient, FoldTheorems, TLAPS

States == {"submitted", "partial-filled", "canceling", "filled", "canceled", "partial-canceled"}
BookOrder == [by: Nat, amount: Int, filled: Int, state: States]
Requests == [by: Callers, n: Nat, attempt: Nat, action: Actions, arg: Int]
Fields == {"pc", "n", "action", "arg", "attempt", "canceled", "answer", "result", "seen",
           "passing", "refused"}

\* The fields of a call that decide what it sends.
CallTypeOK(k) ==
  /\ DOMAIN k = Fields
  /\ k.pc \in {"ready", "waiting", "done"}
  /\ k.n \in Nat /\ k.arg \in Int /\ k.attempt \in Nat
  /\ k.pc # "done" => k.action \in Actions

ClientTypeOK ==
  /\ calls \in Nat
  /\ orders \in Seq(BookOrder)
  /\ wire \subseteq Requests
  /\ DOMAIN call = Callers
  /\ \A c \in Callers : CallTypeOK(call[c])

\* Calls in progress have numbers of their own.
CallsNumbered ==
  \A c \in Callers :
    call[c].pc # "done" =>
      /\ call[c].n \in 1..calls
      /\ \A d \in Callers : d # c /\ call[d].pc # "done" => call[d].n # call[c].n

Submissions == {req \in wire : req.action = "submit-order"}
Placed(n) == \E i \in DOMAIN orders : orders[i].by = n
Submitting(c) == call[c].pc # "done" /\ call[c].action = "submit-order"

\* A submission is made in one attempt, is on the wire at most once and not
\* there any more once it is placed.
SubmitsOnce ==
  /\ \A c \in Callers : Submitting(c) => call[c].attempt = 1
  /\ \A c \in Callers :
       Submitting(c) /\ call[c].pc = "ready" =>
         ~Placed(call[c].n) /\ \A req \in Submissions : req.n # call[c].n
  /\ \A req \in Submissions :
       /\ req.n \in 1..calls /\ ~Placed(req.n)
       /\ \A other \in Submissions : other.n = req.n => other = req
  /\ \A i \in DOMAIN orders : orders[i].by \in 1..calls
  /\ OneOrderPerSubmit

\* What an acknowledgement with this data says of the exchange.
Acknowledged(k, data) ==
  /\ k.action = "submit-order" =>
       data[1] \in DOMAIN orders /\ orders[data[1]].by = k.n
  /\ k.action = "cancel-order" =>
       k.arg \in DOMAIN orders /\ orders[k.arg].state \notin {"submitted", "partial-filled"}

\* True of the answer a call has received, then of its result.
AnswersTrue ==
  \A c \in Callers :
    /\ call[c].pc # "done" /\ Success(call[c].action, call[c].answer) =>
         Acknowledged(call[c], call[c].answer.data)
    /\ call[c].pc = "done" /\ call[c].result.ok => Acknowledged(call[c], call[c].result.data)

ClientInv == ClientTypeOK /\ CallsNumbered /\ SubmitsOnce /\ AnswersTrue

-----------------------------------------------------------------------------
(* Steps of the other end leave the calls where they are                   *)

\* The call k is the call j but for its answer and its history.
SameCall(k, j) ==
  /\ DOMAIN k = Fields
  /\ k.pc = j.pc /\ k.n = j.n /\ k.action = j.action /\ k.arg = j.arg
  /\ k.attempt = j.attempt /\ k.result = j.result

SameCalls(f) == DOMAIN f = Callers /\ \A d \in Callers : SameCall(f[d], call[d])

LEMMA MetKeepsCalls ==
  ASSUME ClientTypeOK, NEW c, NEW answer
  PROVE  /\ SameCalls(Met(c, answer))
         /\ \A d \in Callers :
              Met(c, answer)[d].answer = IF d = c THEN answer ELSE call[d].answer
BY SMTT(30) DEF ClientTypeOK, CallTypeOK, SameCalls, SameCall, Met, Fields

LEMMA DeliverKeepsCalls ==
  ASSUME ClientTypeOK, NEW req \in Requests, NEW answer
  PROVE  /\ SameCalls(Deliver(req, answer))
         /\ \A d \in Callers :
              \/ Deliver(req, answer)[d].answer = call[d].answer
              \/ /\ d = req.by /\ Request(d) = req /\ call[d].pc = "waiting"
                 /\ Deliver(req, answer)[d].answer = answer
<1>1. CASE /\ call[req.by].pc = "waiting" /\ call[req.by].answer = NoAnswer
           /\ Request(req.by) = req
  <2>1. Deliver(req, answer) = Met(req.by, answer)
    BY <1>1 DEF Deliver
  <2>2. QED
    BY <1>1, <2>1, MetKeepsCalls
<1>2. CASE ~(/\ call[req.by].pc = "waiting" /\ call[req.by].answer = NoAnswer
             /\ Request(req.by) = req)
  <2>1. Deliver(req, answer) = call
    BY <1>2 DEF Deliver
  <2>2. QED
    BY <2>1 DEF ClientTypeOK, CallTypeOK, SameCalls, SameCall
<1>3. QED
  BY <1>1, <1>2

LEMMA NotedKeepsCalls ==
  ASSUME ClientTypeOK, NEW f, SameCalls(f)
  PROVE  /\ SameCalls(Noted(f))
         /\ \A d \in Callers : Noted(f)[d].answer = f[d].answer
BY SMTT(30) DEF ClientTypeOK, CallTypeOK, SameCalls, SameCall, Noted, Fields

\* What the wire, the book and the calls keep when the exchange or the network
\* moves: calls stay where they are, requests only leave, orders keep their
\* submission and stay closed to it.
OtherEnd ==
  /\ SameCalls(call') /\ calls' = calls
  /\ wire' \subseteq wire
  /\ orders' \in Seq(BookOrder)

OrdersKept ==
  \A i \in DOMAIN orders :
    /\ i \in DOMAIN orders'
    /\ orders'[i].by = orders[i].by
    /\ orders[i].state \notin {"submitted", "partial-filled"} =>
         orders'[i].state \notin {"submitted", "partial-filled"}

LEMMA OtherEndTypes ==
  ASSUME ClientTypeOK, OtherEnd
  PROVE  ClientTypeOK'
<1> SUFFICES ASSUME NEW c \in Callers PROVE CallTypeOK(call[c])'
  BY DEF ClientTypeOK, OtherEnd, SameCalls
<1>1. CallTypeOK(call[c]) /\ SameCall(call'[c], call[c])
  BY DEF ClientTypeOK, OtherEnd, SameCalls
<1>2. QED
  BY <1>1 DEF CallTypeOK, SameCall

LEMMA OtherEndNumbers ==
  ASSUME CallsNumbered, OtherEnd
  PROVE  CallsNumbered'
<1>1. \A c \in Callers : call'[c].pc = call[c].pc /\ call'[c].n = call[c].n
  BY DEF OtherEnd, SameCalls, SameCall
<1>2. QED
  BY <1>1 DEF CallsNumbered, OtherEnd

\* With no new order in the book, submissions stay where they are or get lost.
LEMMA OtherEndSubmits ==
  ASSUME SubmitsOnce, OtherEnd, OrdersKept, DOMAIN orders' = DOMAIN orders
  PROVE  SubmitsOnce'
<1>1. \A c \in Callers : /\ call'[c].pc = call[c].pc /\ call'[c].n = call[c].n
                         /\ call'[c].action = call[c].action
                         /\ call'[c].attempt = call[c].attempt
  BY DEF OtherEnd, SameCalls, SameCall
<1>2. Submissions' \subseteq Submissions
  BY DEF Submissions, OtherEnd
<1>3. \A n : Placed(n)' => Placed(n)
  BY DEF Placed, OrdersKept
<1>4. calls' = calls
  BY DEF OtherEnd
<1>5. OneOrderPerSubmit' /\ \A i \in DOMAIN orders' : orders'[i].by \in 1..calls'
  BY <1>4 DEF SubmitsOnce, OneOrderPerSubmit, OrdersKept
<1>6. \A c \in Callers : Submitting(c)' => Submitting(c)
  BY <1>1 DEF Submitting
<1>7. \A c \in Callers : Submitting(c)' => call'[c].attempt = 1
  BY <1>1, <1>6 DEF SubmitsOnce
<1>8. \A c \in Callers :
        Submitting(c)' /\ call'[c].pc = "ready" =>
          ~Placed(call[c].n)' /\ \A req \in Submissions' : req.n # call'[c].n
  BY <1>1, <1>2, <1>3, <1>6 DEF SubmitsOnce
<1>9. \A req \in Submissions' :
        /\ req.n \in 1..calls' /\ ~Placed(req.n)'
        /\ \A other \in Submissions' : other.n = req.n => other = req
  BY <1>2, <1>3, <1>4 DEF SubmitsOnce
<1>10. \A c \in Callers : Placed(call[c].n)' <=> \E i \in DOMAIN orders' : orders'[i].by = call'[c].n
  BY <1>1 DEF Placed
<1>11. QED
  BY <1>1, <1>5, <1>7, <1>8, <1>9, <1>10 DEF SubmitsOnce, Placed

\* An acknowledgement stays true.
LEMMA AcknowledgedStays ==
  ASSUME OrdersKept, NEW k, NEW j, SameCall(j, k), NEW data, Acknowledged(k, data)
  PROVE  /\ j.action = "submit-order" =>
              data[1] \in DOMAIN orders' /\ orders'[data[1]].by = j.n
         /\ j.action = "cancel-order" =>
              j.arg \in DOMAIN orders' /\ orders'[j.arg].state \notin {"submitted", "partial-filled"}
BY DEF OrdersKept, Acknowledged, SameCall

\* Answers and results stay true if each new answer is.
LEMMA OtherEndAnswers ==
  ASSUME AnswersTrue, OtherEnd, OrdersKept,
         \A d \in Callers :
           \/ call'[d].answer = call[d].answer
           \/ ~Success(call'[d].action, call'[d].answer)
           \/ Acknowledged(call[d], call[d].answer.data)'
  PROVE  AnswersTrue'
<1> SUFFICES ASSUME NEW d \in Callers
             PROVE  /\ call'[d].pc # "done" /\ Success(call'[d].action, call'[d].answer) =>
                         Acknowledged(call[d], call[d].answer.data)'
                    /\ call'[d].pc = "done" /\ call'[d].result.ok =>
                         Acknowledged(call[d], call[d].result.data)'
  BY DEF AnswersTrue, Success
<1>1. SameCall(call'[d], call[d])
  BY DEF OtherEnd, SameCalls
<1>2. ASSUME call'[d].pc # "done", Success(call'[d].action, call'[d].answer),
             call'[d].answer = call[d].answer
      PROVE  Acknowledged(call[d], call[d].answer.data)'
  <2>1. Acknowledged(call[d], call[d].answer.data)
    BY <1>1, <1>2 DEF AnswersTrue, SameCall, Success
  <2>2. QED
    BY <1>1, <1>2, <2>1, AcknowledgedStays DEF Acknowledged
<1>3. ASSUME call'[d].pc = "done", call'[d].result.ok
      PROVE  Acknowledged(call[d], call[d].result.data)'
  <2>1. Acknowledged(call[d], call[d].result.data) /\ call'[d].result = call[d].result
    BY <1>1, <1>3 DEF AnswersTrue, SameCall
  <2>2. QED
    BY <1>1, <2>1, AcknowledgedStays DEF Acknowledged
<1>4. QED
  BY <1>2, <1>3

\* A failed, refused or passing answer is no success.
LEMMA NotSuccesses ==
  ASSUME NEW answer \in Passing \cup Refusals \cup {Failed, NoAnswer}, NEW action
  PROVE  ~Success(action, answer)
BY DEF Passing, Refusals, Failed, NoAnswer, Success

-----------------------------------------------------------------------------
(* The steps of the other end                                              *)

LEMMA StutterStep == ClientInv /\ UNCHANGED vars => ClientInv'
BY DEF ClientInv, vars, ClientTypeOK, CallTypeOK, CallsNumbered, SubmitsOnce, Submitting,
       Submissions, Placed, OneOrderPerSubmit, AnswersTrue, Acknowledged, Success

\* A step of the network: the book stays, calls get at most a useless answer.
LEMMA NetworkStep ==
  ASSUME ClientInv, OtherEnd, orders' = orders,
         \A d \in Callers : \/ call'[d].answer = call[d].answer
                            \/ ~Success(call'[d].action, call'[d].answer)
  PROVE  ClientInv'
<1>1. OrdersKept
  BY DEF OrdersKept
<1>2. QED
  BY <1>1, OtherEndTypes, OtherEndNumbers, OtherEndSubmits, OtherEndAnswers DEF ClientInv

LEMMA TimeoutStep == ASSUME ClientInv, NEW c \in Callers, Timeout(c) PROVE ClientInv'
<1>1. /\ SameCalls(call')
      /\ \A d \in Callers : call'[d].answer \in {call[d].answer, Failed}
  BY MetKeepsCalls DEF ClientInv, Timeout
<1>2. OtherEnd /\ orders' = orders
  BY <1>1 DEF OtherEnd, Timeout, ClientInv, ClientTypeOK
<1>3. QED
  BY <1>1, <1>2, NotSuccesses, NetworkStep

LEMMA CancelContextStep == ASSUME ClientInv, NEW c \in Callers, CancelContext(c) PROVE ClientInv'
<1>1. /\ SameCalls(call')
      /\ \A d \in Callers : call'[d].answer = call[d].answer
  BY SMTT(30) DEF ClientInv, ClientTypeOK, CallTypeOK, SameCalls, SameCall, CancelContext, Fields
<1>2. OtherEnd /\ orders' = orders
  BY <1>1 DEF OtherEnd, CancelContext, ClientInv, ClientTypeOK
<1>3. QED
  BY <1>1, <1>2, NetworkStep

LEMMA RefuseStep == ASSUME ClientInv, NEW req \in wire, Refuse(req) PROVE ClientInv'
<1>1. PICK answer \in Passing \cup Refusals \cup {Failed} : call' = Deliver(req, answer)
  BY DEF Refuse
<1>2. /\ SameCalls(call')
      /\ \A d \in Callers : call'[d].answer \in {call[d].answer, answer}
  BY <1>1, DeliverKeepsCalls DEF ClientInv, ClientTypeOK
<1>3. OtherEnd /\ orders' = orders
  BY <1>2 DEF OtherEnd, Refuse, ClientInv, ClientTypeOK
<1>4. QED
  BY <1>2, <1>3, NotSuccesses, NetworkStep

LEMMA MatchStep == ASSUME ClientInv, NEW i \in DOMAIN orders, Match(i) PROVE ClientInv'
<1>1. /\ SameCalls(call')
      /\ \A d \in Callers : call'[d].answer = call[d].answer
  <2>1. SameCalls(call)
    BY DEF ClientInv, ClientTypeOK, CallTypeOK, SameCalls, SameCall
  <2>2. QED
    BY <2>1, NotedKeepsCalls DEF Match, ClientInv
<1>2. orders[i] \in BookOrder /\ orders \in Seq(BookOrder)
  BY DEF ClientInv, ClientTypeOK
<1>3. PICK o \in BookOrder :
        /\ orders' = [orders EXCEPT ![i] = o]
        /\ o.by = orders[i].by
        /\ orders[i].state \notin {"submitted", "partial-filled"} =>
             o.state \notin {"submitted", "partial-filled"}
  <2>1. CASE orders' = [orders EXCEPT
          ![i].filled = @ + 1,
          ![i].state = IF orders[i].filled + 1 = orders[i].amount THEN "filled"
                       ELSE IF @ = "canceling" THEN @ ELSE "partial-filled"]
    <3> DEFINE filled == orders[i].filled + 1
               state == IF filled = orders[i].amount THEN "filled"
                        ELSE IF orders[i].state = "canceling" THEN orders[i].state
                        ELSE "partial-filled"
               o == [orders[i] EXCEPT !.filled = filled, !.state = state]
    <3>1. filled \in Int /\ state \in States
      BY <1>2 DEF BookOrder, States
    <3>2. orders[i].state \notin {"submitted", "partial-filled"} =>
            state \notin {"submitted", "partial-filled"}
      BY DEF Match, Working
    <3>3. orders' = [orders EXCEPT ![i] = o]
      BY <1>2, <2>1
    <3> HIDE DEF filled, state
    <3>4. o \in BookOrder /\ o.by = orders[i].by /\ o.state = state
      BY <1>2, <3>1 DEF BookOrder
    <3>5. QED
      BY <3>2, <3>3, <3>4
  <2>2. CASE /\ orders[i].state = "canceling"
             /\ orders' = [orders EXCEPT
                  ![i].state = IF orders[i].filled = 0 THEN "canceled" ELSE "partial-canceled"]
    <3> DEFINE o == [orders[i] EXCEPT
          !.state = IF orders[i].filled = 0 THEN "canceled" ELSE "partial-canceled"]
    <3>1. /\ o \in BookOrder /\ o.by = orders[i].by
          /\ o.state \notin {"submitted", "partial-filled"}
      BY <1>2 DEF BookOrder, States
    <3>2. orders' = [orders EXCEPT ![i] = o]
      BY <1>2, <2>2
    <3>3. QED
      BY <3>1, <3>2
  <2>3. QED
    BY <2>1, <2>2 DEF Match
<1>4. OrdersKept /\ DOMAIN orders' = DOMAIN orders /\ orders' \in Seq(BookOrder)
  BY <1>2, <1>3 DEF OrdersKept
<1>5. OtherEnd
  BY <1>1, <1>4 DEF OtherEnd, Match
<1>6. QED
  BY <1>1, <1>4, <1>5, OtherEndTypes, OtherEndNumbers, OtherEndSubmits, OtherEndAnswers
     DEF ClientInv

\* What Serve does to the book.
LEMMA ServeBook ==
  ASSUME ClientInv, NEW req \in wire, Serve(req)
  PROVE  /\ orders' \in Seq(BookOrder)
         /\ OrdersKept
         /\ \/ /\ Place(req)
               /\ DOMAIN orders' = DOMAIN orders \cup {Len(orders) + 1}
               /\ orders'[Len(orders) + 1].by = req.n
            \/ /\ req.action # "submit-order"
               /\ DOMAIN orders' = DOMAIN orders
               /\ req.action = "cancel-order" =>
                    req.arg \in DOMAIN orders /\ orders'[req.arg].state = "canceling"
<1>1. req \in Requests /\ orders \in Seq(BookOrder)
  BY DEF ClientInv, ClientTypeOK
<1>2. CASE Place(req)
  <2> DEFINE o == [by |-> req.n, amount |-> req.arg, filled |-> 0, state |-> "submitted"]
  <2>1. o \in BookOrder /\ orders' = Append(orders, o)
    BY <1>1, <1>2 DEF Place, BookOrder, Requests, States
  <2> HIDE DEF o
  <2>2. /\ orders' \in Seq(BookOrder) /\ DOMAIN orders' = DOMAIN orders \cup {Len(orders) + 1}
        /\ orders'[Len(orders) + 1] = o
        /\ \A i \in DOMAIN orders : orders'[i] = orders[i]
    BY <1>1, <2>1
  <2>3. o.by = req.n
    BY DEF o
  <2>4. QED
    BY <1>2, <2>2, <2>3 DEF OrdersKept
<1>3. CASE CancelRequested(req)
  <2> DEFINE o == [orders[req.arg] EXCEPT !.state = "canceling"]
  <2>1. orders[req.arg] \in BookOrder /\ req.arg \in DOMAIN orders
    BY <1>1, <1>3 DEF CancelRequested
  <2>2. /\ o \in BookOrder /\ o.by = orders[req.arg].by /\ o.state = "canceling"
        /\ orders' = [orders EXCEPT ![req.arg] = o]
    BY <1>1, <1>3, <2>1 DEF CancelRequested, BookOrder, States
  <2> HIDE DEF o
  <2>3. /\ orders' \in Seq(BookOrder) /\ DOMAIN orders' = DOMAIN orders
        /\ \A i \in DOMAIN orders : orders'[i] = IF i = req.arg THEN o ELSE orders[i]
    BY <1>1, <2>1, <2>2
  <2>4. OrdersKept
    BY <2>2, <2>3 DEF OrdersKept
  <2>5. QED
    BY <1>3, <2>1, <2>2, <2>3, <2>4 DEF CancelRequested
<1>4. CASE readOnlyPrivateAction(req.action) /\ UNCHANGED orders
  BY <1>1, <1>4 DEF OrdersKept, readOnlyPrivateAction
<1>5. QED
  BY <1>2, <1>3, <1>4 DEF Serve

\* What Serve does to the calls: an answer of success is delivered to the call
\* that made the request, with the id of its order.
LEMMA ServeCalls ==
  ASSUME ClientInv, NEW req \in wire, Serve(req)
  PROVE  /\ SameCalls(call')
         /\ \A d \in Callers :
              \/ call'[d].answer = call[d].answer
              \/ ~Success(call'[d].action, call'[d].answer)
              \/ /\ Request(d) = req
                 /\ req.action = "submit-order" => call'[d].answer.data = <<Len(orders) + 1>>
<1>1. PICK answer :
        /\ call' = Noted(Deliver(req, answer))
        /\ \/ answer \in Passing \cup {Failed}
           \/ req.action = "submit-order" => answer.data = <<Len(orders) + 1>>
  BY DEF Serve, Ok
<1>2. req \in Requests
  BY DEF ClientInv, ClientTypeOK
<1>3. QED
  BY <1>1, <1>2, DeliverKeepsCalls, NotedKeepsCalls, NotSuccesses DEF ClientInv

\* A submission that is placed leaves the wire for good.
LEMMA PlaceSubmits ==
  ASSUME ClientInv, NEW req \in wire, Serve(req), Place(req), OtherEnd, OrdersKept,
         DOMAIN orders' = DOMAIN orders \cup {Len(orders) + 1},
         orders'[Len(orders) + 1].by = req.n
  PROVE  SubmitsOnce'
<1>1. \A c \in Callers : /\ call'[c].pc = call[c].pc /\ call'[c].n = call[c].n
                         /\ call'[c].action = call[c].action
                         /\ call'[c].attempt = call[c].attempt
  BY DEF OtherEnd, SameCalls, SameCall
<1>2. req \in Submissions /\ Submissions' = Submissions \ {req} /\ calls' = calls
  BY DEF Submissions, Serve, Place
<1>3. \A n : Placed(n)' => Placed(n) \/ n = req.n
  BY DEF Placed, OrdersKept
<1>4. \A i \in DOMAIN orders' : orders'[i].by \in 1..calls'
  BY <1>2 DEF OrdersKept, ClientInv, SubmitsOnce
<1>5. OneOrderPerSubmit'
  <2>1. ~Placed(req.n) /\ OneOrderPerSubmit
    BY <1>2 DEF ClientInv, SubmitsOnce
  <2>2. QED
    BY <2>1 DEF OneOrderPerSubmit, Placed, OrdersKept
<1>6. \A c \in Callers : Submitting(c)' <=> Submitting(c)
  BY <1>1 DEF Submitting
<1>7. \A c \in Callers : Submitting(c)' => call'[c].attempt = 1
  BY <1>1, <1>6 DEF ClientInv, SubmitsOnce
<1>8. \A c \in Callers :
        Submitting(c)' /\ call'[c].pc = "ready" =>
          ~Placed(call[c].n)' /\ \A other \in Submissions' : other.n # call'[c].n
  <2> SUFFICES ASSUME NEW c \in Callers, Submitting(c), call[c].pc = "ready"
               PROVE  ~Placed(call[c].n)' /\ \A other \in Submissions' : other.n # call'[c].n
    BY <1>1, <1>6
  <2>1. ~Placed(call[c].n) /\ \A other \in Submissions : other.n # call[c].n
    BY DEF ClientInv, SubmitsOnce
  <2>2. \A i \in DOMAIN orders' : orders'[i].by # call'[c].n
    BY <1>1, <1>2, <2>1 DEF Placed, OrdersKept
  <2>3. QED
    BY <1>1, <1>2, <2>1, <2>2 DEF Placed
<1>9. \A r \in Submissions' :
        /\ r.n \in 1..calls' /\ ~Placed(r.n)'
        /\ \A other \in Submissions' : other.n = r.n => other = r
  BY <1>2, <1>3 DEF ClientInv, SubmitsOnce
<1>10. QED
  BY <1>4, <1>5, <1>7, <1>8, <1>9 DEF SubmitsOnce

LEMMA ServeStep == ASSUME ClientInv, NEW req \in wire, Serve(req) PROVE ClientInv'
<1>1. OtherEnd
  BY ServeBook, ServeCalls DEF OtherEnd, Serve
<1>2. SubmitsOnce'
  BY <1>1, ServeBook, PlaceSubmits, OtherEndSubmits DEF ClientInv
<1>3. \A d \in Callers :
        \/ call'[d].answer = call[d].answer
        \/ ~Success(call'[d].action, call'[d].answer)
        \/ Acknowledged(call[d], call[d].answer.data)'
  <2> SUFFICES ASSUME NEW d \in Callers, Request(d) = req,
                      req.action = "submit-order" => call'[d].answer.data = <<Len(orders) + 1>>
               PROVE  Acknowledged(call[d], call[d].answer.data)'
    BY ServeCalls
  <2>1. /\ call'[d].action = req.action /\ call'[d].n = req.n /\ call'[d].arg = req.arg
    BY <1>1 DEF Request, OtherEnd, SameCalls, SameCall
  <2>2. CASE req.action = "submit-order"
    <3>1. /\ Len(orders) + 1 \in DOMAIN orders' /\ orders'[Len(orders) + 1].by = req.n
          /\ call'[d].answer.data[1] = Len(orders) + 1
      BY <2>2, ServeBook
    <3>2. QED
      BY <2>1, <2>2, <3>1 DEF Acknowledged
  <2>3. CASE req.action # "submit-order"
    <3>1. req.action = "cancel-order" =>
            req.arg \in DOMAIN orders' /\ orders'[req.arg].state = "canceling"
      BY <2>3, ServeBook DEF Place
    <3>2. QED
      BY <2>1, <2>3, <3>1 DEF Acknowledged
  <2>4. QED
    BY <2>2, <2>3
<1>4. QED
  BY <1>1, <1>2, <1>3, ServeBook, OtherEndTypes, OtherEndNumbers, OtherEndAnswers DEF ClientInv

-----------------------------------------------------------------------------
(* The steps of the client                                                 *)

\* The calls of the others, and what their requests and orders are, stay.
OthersKept(c) ==
  /\ DOMAIN call' = Callers
  /\ \A d \in Callers \ {c} : call'[d] = call[d]
  /\ orders' = orders

LEMMA OtherAnswers ==
  ASSUME AnswersTrue, NEW c, OthersKept(c), NEW d \in Callers \ {c}
  PROVE  /\ call'[d].pc # "done" /\ Success(call'[d].action, call'[d].answer) =>
              Acknowledged(call[d], call[d].answer.data)'
         /\ call'[d].pc = "done" /\ call'[d].result.ok => Acknowledged(call[d], call[d].result.data)'
BY DEF AnswersTrue, OthersKept, Acknowledged, Success

LEMMA BeginStep ==
  ASSUME ClientInv, NEW c \in Callers, NEW action \in Actions, Begin(c, action)
  PROVE  ClientInv'
<1>1. PICK arg \in Inputs(action) :
        call' = [call EXCEPT ![c] =
          [NoCall EXCEPT !.pc = "ready", !.n = calls + 1, !.action = action, !.arg = arg,
                         !.attempt = 1, !.seen = {View(orders, action, arg)}]]
  BY DEF Begin
<1>2. arg \in Int
  BY ClientAssumption DEF Inputs, Actions
<1>3. /\ OthersKept(c)
      /\ DOMAIN call'[c] = Fields /\ call'[c].pc = "ready" /\ call'[c].n = calls + 1
      /\ call'[c].action = action /\ call'[c].arg = arg /\ call'[c].attempt = 1
      /\ call'[c].answer = NoAnswer
  BY <1>1 DEF OthersKept, Begin, ClientInv, ClientTypeOK, NoCall, Fields
<1>4. calls \in Nat /\ calls' = calls + 1 /\ wire' = wire /\ orders' = orders
  BY DEF Begin, ClientInv, ClientTypeOK
<1>5. ClientTypeOK'
  BY <1>2, <1>3, <1>4, SMTT(30) DEF ClientInv, ClientTypeOK, CallTypeOK, OthersKept
<1>6. CallsNumbered'
  <2>1. \A d \in Callers \ {c} : call'[d].pc # "done" => call'[d].n \in 1..calls
    BY <1>3 DEF OthersKept, ClientInv, CallsNumbered
  <2>2. QED
    BY <1>3, <1>4, <2>1 DEF OthersKept, ClientInv, CallsNumbered
<1>7. SubmitsOnce'
  <2>1. Submissions' = Submissions /\ \A n : Placed(n)' <=> Placed(n)
    BY <1>4 DEF Submissions, Placed
  <2>2. ~Placed(calls + 1) /\ \A req \in Submissions : req.n # calls + 1
    BY <1>4 DEF ClientInv, SubmitsOnce, Placed
  <2>3. \A d \in Callers \ {c} : Submitting(d)' <=> Submitting(d)
    BY <1>3 DEF Submitting, OthersKept
  <2>4. \A d \in Callers : Submitting(d)' => call'[d].attempt = 1
    BY <1>3, <2>3 DEF OthersKept, ClientInv, SubmitsOnce
  <2>5. \A d \in Callers :
          Submitting(d)' /\ call'[d].pc = "ready" =>
            Placed(call[d].n)' = FALSE /\ \A req \in Submissions' : req.n # call'[d].n
    BY <1>3, <1>4, <2>1, <2>2, <2>3 DEF OthersKept, ClientInv, SubmitsOnce, Placed
  <2>6. QED
    BY <1>4, <2>1, <2>4, <2>5 DEF ClientInv, SubmitsOnce, OneOrderPerSubmit
<1>8. AnswersTrue'
  BY <1>3, OtherAnswers, NotSuccesses DEF AnswersTrue, ClientInv
<1>9. QED
  BY <1>5, <1>6, <1>7, <1>8 DEF ClientInv

LEMMA RoundTripStep == ASSUME ClientInv, NEW c \in Callers, RoundTrip(c) PROVE ClientInv'
<1>1. /\ OthersKept(c)
      /\ call'[c].pc = "waiting"
      /\ DOMAIN call'[c] = Fields /\ call'[c].n = call[c].n /\ call'[c].action = call[c].action
      /\ call'[c].arg = call[c].arg /\ call'[c].attempt = call[c].attempt
      /\ call'[c].answer = call[c].answer
  BY SMTT(30) DEF OthersKept, RoundTrip, ClientInv, ClientTypeOK, CallTypeOK, SameCall, Fields
<1>2. call[c].pc = "ready" /\ orders' = orders /\ calls' = calls
      /\ wire' = wire \cup {Request(c)}
  BY DEF RoundTrip
<1>3. Request(c) \in Requests /\ Request(c).n = call[c].n
      /\ Request(c).action = call[c].action
  BY <1>2 DEF Request, Requests, ClientInv, ClientTypeOK, CallTypeOK
<1>4. ClientTypeOK'
  BY <1>1, <1>2, <1>3 DEF ClientInv, ClientTypeOK, CallTypeOK, OthersKept
<1>5. CallsNumbered'
  BY <1>1, <1>2 DEF ClientInv, CallsNumbered, OthersKept
<1>6. SubmitsOnce'
  <2>1. \A n : Placed(n)' <=> Placed(n)
    BY <1>2 DEF Placed
  <2>2. \A d \in Callers : /\ Submitting(d)' <=> Submitting(d)
                           /\ Submitting(d)' => call'[d].attempt = 1
    BY <1>1, <1>2 DEF Submitting, OthersKept, ClientInv, SubmitsOnce
  <2>3. \A req \in Submissions' : req \in Submissions \/ (req = Request(c) /\ Submitting(c))
    BY <1>2, <1>3 DEF Submissions, Submitting
  <2>4. Submitting(c) => /\ call[c].n \in 1..calls /\ ~Placed(call[c].n)
                         /\ \A req \in Submissions : req.n # call[c].n
    BY <1>2 DEF Submitting, ClientInv, CallsNumbered, SubmitsOnce
  <2>5. \A d \in Callers :
          Submitting(d)' /\ call'[d].pc = "ready" =>
            Placed(call[d].n)' = FALSE /\ \A req \in Submissions' : req.n # call'[d].n
    <3> SUFFICES ASSUME NEW d \in Callers, Submitting(d), d # c, call[d].pc = "ready",
                        call'[d] = call[d]
                 PROVE  Placed(call[d].n)' = FALSE /\ \A req \in Submissions' : req.n # call'[d].n
      BY <1>1, <2>2 DEF OthersKept
    <3>1. ~Placed(call[d].n) /\ \A req \in Submissions : req.n # call[d].n
      BY DEF ClientInv, SubmitsOnce
    <3>2. call[d].n # call[c].n
      BY <1>2 DEF ClientInv, CallsNumbered
    <3>3. QED
      BY <1>2, <1>3, <2>3, <3>1, <3>2 DEF Placed
  <2>6. \A req \in Submissions' :
          /\ req.n \in 1..calls' /\ ~Placed(req.n)'
          /\ \A other \in Submissions' : other.n = req.n => other = req
    BY <1>2, <1>3, <2>1, <2>3, <2>4 DEF ClientInv, SubmitsOnce
  <2>7. QED
    BY <1>2, <2>2, <2>5, <2>6 DEF ClientInv, SubmitsOnce, OneOrderPerSubmit
<1>7. AnswersTrue'
  <2>1. call'[c].pc # "done" /\ Success(call'[c].action, call'[c].answer) =>
          Acknowledged(call[c], call[c].answer.data)'
    BY <1>1, <1>2 DEF ClientInv, AnswersTrue, Acknowledged, Success
  <2>2. QED
    BY <1>1, <2>1, OtherAnswers DEF ClientInv, AnswersTrue
<1>8. QED
  BY <1>4, <1>5, <1>6, <1>7 DEF ClientInv

\* The end of a round takes at most requests from the wire and leaves the call
\* done, or ready for another attempt if it is a query.
LEMMA RoundEnds ==
  ASSUME ClientInv, NEW c \in Callers, OthersKept(c), calls' = calls, wire' \subseteq wire,
         CallTypeOK(call[c])', call'[c].n = call[c].n, call'[c].action = call[c].action,
         call[c].pc # "done",
         call'[c].pc = "done" \/ (call'[c].pc = "ready" /\ call[c].action # "submit-order"),
         call'[c].pc # "done" => ~Success(call'[c].action, call'[c].answer),
         call'[c].pc = "done" /\ call'[c].result.ok => Acknowledged(call[c], call[c].result.data)'
  PROVE  ClientInv'
<1>1. ClientTypeOK'
  BY DEF ClientInv, ClientTypeOK, OthersKept, CallTypeOK
<1>2. CallsNumbered'
  BY DEF ClientInv, CallsNumbered, OthersKept
<1>3. SubmitsOnce'
  <2>1. orders' = orders /\ \A d \in Callers : Submitting(d)' => d # c /\ Submitting(d)
    BY DEF OthersKept, Submitting
  <2>2. Submissions' \subseteq Submissions /\ \A n : Placed(n)' <=> Placed(n)
    BY <2>1 DEF Submissions, Placed
  <2>3. \A d \in Callers : Submitting(d)' => call'[d] = call[d] /\ call'[d].attempt = 1
    BY <2>1 DEF OthersKept, ClientInv, SubmitsOnce
  <2>4. \A d \in Callers :
          Submitting(d)' /\ call'[d].pc = "ready" =>
            Placed(call[d].n)' = FALSE /\ \A req \in Submissions' : req.n # call'[d].n
    BY <2>1, <2>2, <2>3 DEF ClientInv, SubmitsOnce, Placed
  <2>5. QED
    BY <2>1, <2>2, <2>3, <2>4 DEF ClientInv, SubmitsOnce, OneOrderPerSubmit
<1>4. AnswersTrue'
  BY OtherAnswers DEF ClientInv, AnswersTrue
<1>5. QED
  BY <1>1, <1>2, <1>3, <1>4 DEF ClientInv

LEMMA AbandonedRequests == ASSUME NEW c \in Callers PROVE Abandoned(c) \subseteq wire
BY DEF Abandoned

LEMMA ReturnKeeps ==
  ASSUME ClientInv, NEW c \in Callers, NEW result, Return(c, result), orders' = orders
  PROVE  /\ OthersKept(c) /\ CallTypeOK(call[c])'
         /\ call'[c].n = call[c].n /\ call'[c].action = call[c].action
         /\ call'[c].arg = call[c].arg
         /\ call'[c].pc = "done" /\ call'[c].result = result
<1>1. DOMAIN call = Callers /\ CallTypeOK(call[c])
  BY DEF ClientInv, ClientTypeOK
<1>2. QED
  BY <1>1 DEF Return, OthersKept, CallTypeOK, Fields

LEMMA CanceledStep == ASSUME ClientInv, NEW c \in Callers, Canceled(c) PROVE ClientInv'
<1>1. call[c].pc # "done" /\ orders' = orders /\ calls' = calls /\ wire' \subseteq wire
      /\ Return(c, NoResult)
  BY AbandonedRequests DEF Canceled
<1>2. NoResult.ok = FALSE
  BY DEF NoResult
<1>3. QED
  BY <1>1, <1>2, ReturnKeeps, RoundEnds

LEMMA AnsweredStep == ASSUME ClientInv, NEW c \in Callers, Answered(c) PROVE ClientInv'
<1>1. /\ call[c].pc = "waiting" /\ orders' = orders /\ calls' = calls /\ wire' \subseteq wire
      /\ call[c].action \in Actions /\ DOMAIN call = Callers /\ CallTypeOK(call[c])
  BY AbandonedRequests DEF Answered, ClientInv, ClientTypeOK, CallTypeOK
<1>2. CASE /\ call[c].attempt < attempts(call[c].action)
           /\ call' = [call EXCEPT ![c].pc = "ready", ![c].answer = NoAnswer,
                                   ![c].attempt = @ + 1]
  <2>1. call[c].action # "submit-order"
    BY <1>1, <1>2 DEF attempts, readOnlyPrivateAction, ClientInv, SubmitsOnce, Submitting
  <2>2. /\ OthersKept(c) /\ DOMAIN call'[c] = Fields
        /\ call'[c].pc = "ready" /\ call'[c].answer = NoAnswer
        /\ call'[c].attempt = call[c].attempt + 1
        /\ call'[c].n = call[c].n /\ call'[c].action = call[c].action
        /\ call'[c].arg = call[c].arg /\ call'[c].result = call[c].result
    BY <1>1, <1>2 DEF OthersKept, CallTypeOK, Fields
  <2>3. CallTypeOK(call[c])'
    BY <1>1, <2>2 DEF CallTypeOK
  <2>4. QED
    BY <1>1, <2>1, <2>2, <2>3, NotSuccesses, RoundEnds
<1>3. CASE Return(c, IF Success(call[c].action, call[c].answer)
                     THEN [ok |-> TRUE, data |-> Parsed(call[c].action, call[c].answer.data)]
                     ELSE NoResult)
  <2>1. CASE Success(call[c].action, call[c].answer)
    <3> DEFINE result == [ok |-> TRUE, data |-> Parsed(call[c].action, call[c].answer.data)]
    <3>1. Acknowledged(call[c], call[c].answer.data)
      BY <1>1, <2>1 DEF ClientInv, AnswersTrue
    <3>2. call[c].action \in {"submit-order", "cancel-order"} =>
            result.data = call[c].answer.data
      BY DEF Parsed
    <3>3. Acknowledged(call[c], result.data)
      BY <3>1, <3>2 DEF Acknowledged
    <3>4. Return(c, result)
      BY <1>3, <2>1
    <3> HIDE DEF result
    <3>5. Acknowledged(call[c], call[c].result.data)'
      BY <1>1, <3>3, <3>4, ReturnKeeps DEF Acknowledged
    <3>6. QED
      BY <1>1, <3>4, <3>5, ReturnKeeps, RoundEnds
  <2>2. CASE ~Success(call[c].action, call[c].answer)
    <3>1. Return(c, NoResult) /\ NoResult.ok = FALSE
      BY <1>3, <2>2 DEF NoResult
    <3>2. QED
      BY <1>1, <3>1, ReturnKeeps, RoundEnds
  <2>3. QED
    BY <2>1, <2>2
<1>4. QED
  BY <1>2, <1>3 DEF Answered

-----------------------------------------------------------------------------
(* The invariant and what follows                                          *)

LEMMA InitInv == Init => ClientInv
<1> SUFFICES ASSUME Init PROVE ClientInv
  OBVIOUS
<1>1. /\ orders = <<>> /\ wire = {} /\ calls = 0 /\ DOMAIN call = Callers
      /\ \A c \in Callers : call[c] = NoCall
  BY DEF Init
<1>2. /\ CallTypeOK(NoCall) /\ NoCall.pc = "done" /\ NoCall.result.ok = FALSE
  BY DEF CallTypeOK, NoCall, NoResult, Fields
<1>3. ClientTypeOK
  BY <1>1, <1>2 DEF ClientTypeOK
<1>4. CallsNumbered /\ SubmitsOnce /\ AnswersTrue
  BY <1>1, <1>2 DEF CallsNumbered, SubmitsOnce, Submitting, Submissions, Placed,
                    OneOrderPerSubmit, AnswersTrue
<1>5. QED
  BY <1>3, <1>4 DEF ClientInv

LEMMA NextInv == ClientInv /\ [Next]_vars => ClientInv'
<1> SUFFICES ASSUME ClientInv, Next PROVE ClientInv'
  BY StutterStep
<1>1. ASSUME NEW c \in Callers, NEW action \in Actions, Begin(c, action) PROVE ClientInv'
  BY <1>1, BeginStep
<1>2. ASSUME NEW c \in Callers, RoundTrip(c) PROVE ClientInv'
  BY <1>2, RoundTripStep
<1>3. ASSUME NEW c \in Callers, Canceled(c) PROVE ClientInv'
  BY <1>3, CanceledStep
<1>4. ASSUME NEW c \in Callers, Answered(c) PROVE ClientInv'
  BY <1>4, AnsweredStep
<1>5. ASSUME NEW c \in Callers, Timeout(c) PROVE ClientInv'
  BY <1>5, TimeoutStep
<1>6. ASSUME NEW c \in Callers, CancelContext(c) PROVE ClientInv'
  BY <1>6, CancelContextStep
<1>7. ASSUME NEW req \in wire, Serve(req) PROVE ClientInv'
  BY <1>7, ServeStep
<1>8. ASSUME NEW req \in wire, Refuse(req) PROVE ClientInv'
  BY <1>8, RefuseStep
<1>9. ASSUME NEW i \in DOMAIN orders, Match(i) PROVE ClientInv'
  BY <1>9, MatchStep
<1>10. QED
  BY <1>1, <1>2, <1>3, <1>4, <1>5, <1>6, <1>7, <1>8, <1>9 DEF Next

\* ClientInv always holds: submissions, orders and answers account for each other.
THEOREM ClientCorrect == Spec => []ClientInv
BY InitInv, NextInv, PTL DEF Spec

\* One SubmitOrder makes at most one order, for any number of callers, calls and
\* lost, late or refused requests (PrivateClient.do).
THEOREM SubmittedOnce == Spec => []OneOrderPerSubmit
<1>1. ClientInv => OneOrderPerSubmit
  BY DEF ClientInv, SubmitsOnce
<1>2. QED
  BY <1>1, ClientCorrect, PTL

\* What a caller has been acknowledged is so at the exchange: the order exists
\* and is that call's, the cancellation has reached its order.
THEOREM AcknowledgedTruly == Spec => []AcksAreTrue
<1>1. ClientInv => AcksAreTrue
  BY DEF ClientInv, AnswersTrue, Acknowledged, AcksAreTrue
<1>2. QED
  BY <1>1, ClientCorrect, PTL

-----------------------------------------------------------------------------
(* Orders reported as no longer working                                    *)

\* A detail of order k says of it what stays true.
FinalDetail(k, detail) ==
  /\ k \in DOMAIN orders
  /\ detail.state \in States
  /\ ~Working(detail.state) =>
       ~Working(orders[k].state) /\ orders[k].filled = detail.filled

FinalReport(k, report) ==
  /\ k \in DOMAIN orders
  /\ ~report.working => ~Working(orders[k].state) /\ orders[k].filled = report.executed

\* True of the answer to a QueryOrder, then of its result.
ReportFinal(d) ==
  call[d].action = "query-order" =>
    /\ call[d].pc # "done" /\ Success(call[d].action, call[d].answer) =>
         FinalDetail(call[d].arg, call[d].answer.data[1])
    /\ call[d].pc = "done" /\ call[d].result.ok =>
         FinalReport(call[d].arg, call[d].result.data[1])

ReportsFinal == \A d \in Callers : ReportFinal(d)

\* MapOrderState calls an order working as long as the exchange does.
LEMMA OrderOfDetail ==
  ASSUME NEW k, NEW detail, FinalDetail(k, detail)
  PROVE  FinalReport(k, Order(detail)[1])
<1>1. ~MapOrderState(detail.state).working => ~Working(detail.state)
  BY DEF FinalDetail, States, MapOrderState, Working
<1>2. /\ Order(detail)[1].working = MapOrderState(detail.state).working
      /\ Order(detail)[1].executed = detail.filled
  BY DEF Order
<1>3. QED
  BY <1>1, <1>2 DEF FinalDetail, FinalReport

\* An order that is no longer working does not change.
OrdersFinal ==
  \A i \in DOMAIN orders :
    i \in DOMAIN orders' /\ (~Working(orders[i].state) => orders'[i] = orders[i])

LEMMA FinalStep ==
  ASSUME ClientInv, [Next]_vars
  PROVE  OrdersFinal
<1>1. orders \in Seq(BookOrder)
  BY DEF ClientInv, ClientTypeOK
<1>2. CASE orders' = orders
  BY <1>2 DEF OrdersFinal
<1>3. ASSUME NEW i \in DOMAIN orders, Match(i) PROVE OrdersFinal
  <2>1. Working(orders[i].state) /\ DOMAIN orders' = DOMAIN orders
        /\ \A j \in DOMAIN orders \ {i} : orders'[j] = orders[j]
    BY <1>1, <1>3 DEF Match
  <2>2. QED
    BY <2>1 DEF OrdersFinal
<1>4. ASSUME NEW req \in wire, Place(req) PROVE OrdersFinal
  BY <1>1, <1>4 DEF Place, OrdersFinal
<1>5. ASSUME NEW req \in wire, CancelRequested(req) PROVE OrdersFinal
  <2>1. Working(orders[req.arg].state) /\ DOMAIN orders' = DOMAIN orders
        /\ \A j \in DOMAIN orders \ {req.arg} : orders'[j] = orders[j]
    BY <1>1, <1>5 DEF CancelRequested
  <2>2. QED
    BY <2>1 DEF OrdersFinal
<1>6. QED
  BY <1>2, <1>3, <1>4, <1>5 DEF Next, vars, Begin, RoundTrip, Canceled, Answered, Timeout,
     CancelContext, Serve, Refuse

\* What was finally so stays so.
LEMMA FinalStays ==
  ASSUME OrdersFinal, NEW k
  PROVE  /\ \A detail : FinalDetail(k, detail) =>
              /\ k \in DOMAIN orders' /\ detail.state \in States
              /\ ~Working(detail.state) =>
                   ~Working(orders'[k].state) /\ orders'[k].filled = detail.filled
         /\ \A report : FinalReport(k, report) =>
              /\ k \in DOMAIN orders'
              /\ ~report.working =>
                   ~Working(orders'[k].state) /\ orders'[k].filled = report.executed
BY DEF OrdersFinal, FinalDetail, FinalReport

\* A call that keeps its answer and its result, or meets a useless answer.
CallKept(d) ==
  /\ call'[d].action = call[d].action /\ call'[d].arg = call[d].arg
  /\ call'[d].result = call[d].result
  /\ call'[d].pc = "done" <=> call[d].pc = "done"
  /\ \/ call'[d].answer = call[d].answer
     \/ ~Success(call'[d].action, call'[d].answer)

LEMMA KeptReport ==
  ASSUME OrdersFinal, NEW d, ReportFinal(d), CallKept(d)
  PROVE  ReportFinal(d)'
<1>1. ASSUME call[d].action = "query-order", call[d].pc # "done",
             Success(call[d].action, call[d].answer), call'[d].answer = call[d].answer
      PROVE  FinalDetail(call[d].arg, call[d].answer.data[1])'
  <2>1. FinalDetail(call[d].arg, call[d].answer.data[1])
    BY <1>1 DEF ReportFinal
  <2>2. QED
    BY <1>1, <2>1, FinalStays DEF CallKept, FinalDetail
<1>2. ASSUME call[d].action = "query-order", call[d].pc = "done", call[d].result.ok
      PROVE  FinalReport(call[d].arg, call[d].result.data[1])'
  <2>1. FinalReport(call[d].arg, call[d].result.data[1])
    BY <1>2 DEF ReportFinal
  <2>2. QED
    BY <2>1, FinalStays DEF CallKept, FinalReport
<1>3. QED
  BY <1>1, <1>2 DEF ReportFinal, CallKept, Success

LEMMA OtherEndReports ==
  ASSUME ReportsFinal, OrdersFinal, SameCalls(call'), NEW d \in Callers,
         \/ call'[d].answer = call[d].answer
         \/ ~Success(call'[d].action, call'[d].answer)
  PROVE  ReportFinal(d)'
BY KeptReport DEF ReportsFinal, SameCalls, SameCall, CallKept

LEMMA NetworkReports ==
  ASSUME ClientInv, ReportsFinal, OrdersFinal,
         \/ \E c \in Callers : Timeout(c) \/ CancelContext(c)
         \/ \E req \in wire : Refuse(req)
         \/ \E i \in DOMAIN orders : Match(i)
  PROVE  ReportsFinal'
<1>1. ASSUME NEW c \in Callers, Timeout(c) PROVE ReportsFinal'
  <2>1. /\ SameCalls(call')
        /\ \A d \in Callers : call'[d].answer \in {call[d].answer, Failed}
    BY <1>1, MetKeepsCalls DEF ClientInv, Timeout
  <2>2. QED
    BY <2>1, NotSuccesses, OtherEndReports DEF ReportsFinal
<1>2. ASSUME NEW c \in Callers, CancelContext(c) PROVE ReportsFinal'
  <2>1. /\ SameCalls(call')
        /\ \A d \in Callers : call'[d].answer = call[d].answer
    BY <1>2, SMTT(30) DEF ClientInv, ClientTypeOK, CallTypeOK, SameCalls, SameCall,
       CancelContext, Fields
  <2>2. QED
    BY <2>1, OtherEndReports DEF ReportsFinal
<1>3. ASSUME NEW req \in wire, Refuse(req) PROVE ReportsFinal'
  <2>1. PICK answer \in Passing \cup Refusals \cup {Failed} : call' = Deliver(req, answer)
    BY <1>3 DEF Refuse
  <2>2. /\ SameCalls(call')
        /\ \A d \in Callers : call'[d].answer \in {call[d].answer, answer}
    BY <2>1, DeliverKeepsCalls DEF ClientInv, ClientTypeOK
  <2>3. QED
    BY <2>2, NotSuccesses, OtherEndReports DEF ReportsFinal
<1>4. ASSUME NEW i \in DOMAIN orders, Match(i) PROVE ReportsFinal'
  <2>1. SameCalls(call)
    BY DEF ClientInv, ClientTypeOK, CallTypeOK, SameCalls, SameCall
  <2>2. SameCalls(call') /\ \A d \in Callers : call'[d].answer = call[d].answer
    BY <1>4, <2>1, NotedKeepsCalls DEF Match, ClientInv
  <2>3. QED
    BY <2>2, OtherEndReports DEF ReportsFinal
<1>5. QED
  BY <1>1, <1>2, <1>3, <1>4

LEMMA ServeReports ==
  ASSUME ClientInv, ReportsFinal, OrdersFinal, NEW req \in wire, Serve(req)
  PROVE  ReportsFinal'
<1>1. PICK answer :
        /\ call' = Noted(Deliver(req, answer))
        /\ \/ answer \in Passing \cup {Failed}
           \/ req.action = "query-order" =>
                answer.data = View(orders, req.action, req.arg)
  BY DEF Serve, Ok
<1>2. req \in Requests
  BY DEF ClientInv, ClientTypeOK
<1>3. /\ SameCalls(call')
      /\ \A d \in Callers :
           \/ call'[d].answer = call[d].answer
           \/ ~Success(call'[d].action, call'[d].answer)
           \/ /\ Request(d) = req
              /\ req.action = "query-order" =>
                   call'[d].answer.data = View(orders, req.action, req.arg)
  BY <1>1, <1>2, DeliverKeepsCalls, NotedKeepsCalls, NotSuccesses DEF ClientInv
<1>4. ASSUME NEW d \in Callers, Request(d) = req, call'[d].pc # "done",
             req.action = "query-order",
             call'[d].answer.data = View(orders, req.action, req.arg)
      PROVE  FinalDetail(call[d].arg, call[d].answer.data[1])'
  <2>1. req.arg \in DOMAIN orders /\ orders' = orders /\ call'[d].arg = req.arg
    BY <1>3, <1>4 DEF Serve, Place, CancelRequested, SameCalls, SameCall, Request
  <2>2. call'[d].answer.data[1] = Detail(orders[req.arg])
    BY <1>4, <2>1 DEF View
  <2>3. orders[req.arg].state \in States
    <3>1. orders[req.arg] \in BookOrder
      BY <2>1 DEF ClientInv, ClientTypeOK
    <3>2. QED
      BY <3>1 DEF BookOrder
  <2>4. QED
    BY <2>1, <2>2, <2>3 DEF FinalDetail, Detail
<1>5. ASSUME NEW d \in Callers, Request(d) = req,
             req.action = "query-order" =>
               call'[d].answer.data = View(orders, req.action, req.arg)
      PROVE  ReportFinal(d)'
  <2>1. /\ call'[d].action = req.action /\ call'[d].arg = call[d].arg
        /\ call'[d].result = call[d].result /\ call'[d].pc = call[d].pc
    BY <1>3, <1>5 DEF Request, SameCalls, SameCall
  <2>2. ASSUME call'[d].action = "query-order", call'[d].pc = "done", call'[d].result.ok
        PROVE  FinalReport(call[d].arg, call[d].result.data[1])'
    <3>1. FinalReport(call[d].arg, call[d].result.data[1])
      BY <1>5, <2>1, <2>2 DEF ReportsFinal, ReportFinal, Request
    <3>2. QED
      BY <2>1, <3>1, FinalStays DEF FinalReport
  <2>3. QED
    BY <1>4, <1>5, <2>1, <2>2 DEF ReportFinal
<1>6. QED
  BY <1>3, <1>5, OtherEndReports DEF ReportsFinal

\* The steps of the client: only the call of c moves.
LEMMA OthersReports ==
  ASSUME ReportsFinal, NEW c \in Callers, OthersKept(c), ReportFinal(c)'
  PROVE  ReportsFinal'
<1> SUFFICES ASSUME NEW d \in Callers \ {c} PROVE ReportFinal(d)'
  BY DEF ReportsFinal
<1>1. call'[d] = call[d] /\ orders' = orders /\ ReportFinal(d)
  BY DEF OthersKept, ReportsFinal
<1>2. QED
  BY <1>1 DEF ReportFinal, FinalDetail, FinalReport, Success

LEMMA ClientReports ==
  ASSUME ClientInv, ReportsFinal, NEW c \in Callers,
         \/ \E action \in Actions : Begin(c, action)
         \/ RoundTrip(c) \/ Canceled(c) \/ Answered(c)
  PROVE  ReportsFinal'
<1>1. DOMAIN call = Callers /\ CallTypeOK(call[c]) /\ ReportFinal(c)
  BY DEF ClientInv, ClientTypeOK, ReportsFinal
<1>2. ASSUME NEW action \in Actions, Begin(c, action) PROVE ReportsFinal'
  <2>1. OthersKept(c) /\ call'[c].pc = "ready" /\ call'[c].answer = NoAnswer
    BY <1>1, <1>2 DEF OthersKept, Begin, NoCall
  <2>2. QED
    BY <2>1, NotSuccesses, OthersReports DEF ReportFinal
<1>3. CASE RoundTrip(c)
  <2>1. /\ OthersKept(c) /\ call[c].pc = "ready" /\ call'[c].pc = "waiting"
        /\ call'[c].action = call[c].action /\ call'[c].arg = call[c].arg
        /\ call'[c].answer = call[c].answer
    BY <1>1, <1>3 DEF OthersKept, RoundTrip, CallTypeOK, Fields
  <2>2. ReportFinal(c)'
    BY <1>1, <2>1 DEF ReportFinal, FinalDetail, OthersKept, Success
  <2>3. QED
    BY <2>1, <2>2, OthersReports
<1>4. ASSUME Return(c, NoResult), orders' = orders PROVE ReportsFinal'
  <2>1. OthersKept(c) /\ call'[c].pc = "done" /\ call'[c].result.ok = FALSE
    BY <1>4, ReturnKeeps DEF NoResult
  <2>2. QED
    BY <2>1, OthersReports DEF ReportFinal
<1>5. CASE Answered(c)
  <2>1. CASE call' = [call EXCEPT ![c].pc = "ready", ![c].answer = NoAnswer,
                                  ![c].attempt = @ + 1]
    <3>1. OthersKept(c) /\ call'[c].pc = "ready" /\ call'[c].answer = NoAnswer
      BY <1>1, <1>5, <2>1 DEF Answered, OthersKept, CallTypeOK, Fields
    <3>2. QED
      BY <3>1, NotSuccesses, OthersReports DEF ReportFinal
  <2>2. ASSUME Success(call[c].action, call[c].answer),
               Return(c, [ok |-> TRUE, data |-> Parsed(call[c].action, call[c].answer.data)])
        PROVE  ReportsFinal'
    <3> DEFINE result == [ok |-> TRUE, data |-> Parsed(call[c].action, call[c].answer.data)]
    <3>1. call[c].action = "query-order" => result.data = Order(call[c].answer.data[1])
      BY DEF Parsed
    <3>2. call[c].action = "query-order" => FinalReport(call[c].arg, result.data[1])
      BY <1>1, <1>5, <2>2, <3>1, OrderOfDetail DEF ReportFinal, Answered
    <3> HIDE DEF result
    <3>3. Return(c, result) /\ orders' = orders
      BY <1>5, <2>2 DEF result, Answered
    <3>4. OthersKept(c) /\ ReportFinal(c)'
      BY <3>2, <3>3, ReturnKeeps DEF ReportFinal, FinalReport
    <3>5. QED
      BY <3>4, OthersReports
  <2>3. QED
    BY <1>4, <1>5, <2>1, <2>2 DEF Answered
<1>6. QED
  BY <1>2, <1>3, <1>4, <1>5 DEF Canceled

LEMMA NextReports == ClientInv /\ ReportsFinal /\ [Next]_vars => ReportsFinal'
<1> SUFFICES ASSUME ClientInv, ReportsFinal, [Next]_vars PROVE ReportsFinal'
  OBVIOUS
<1>1. OrdersFinal
  BY FinalStep
<1>2. CASE UNCHANGED vars
  BY <1>2 DEF vars, ReportsFinal, ReportFinal, FinalDetail, FinalReport, Success
<1>3. CASE Next
  BY <1>1, <1>3, ClientReports, NetworkReports, ServeReports DEF Next
<1>4. QED
  BY <1>2, <1>3

\* An order that QueryOrder reports as no longer working has its final executed
\* quantity, however its cancellation and its fills race (MapOrderState).
THEOREM ReportedFinally == Spec => []NotWorkingIsFinal
<1>1. Init => ReportsFinal
  BY DEF Init, ReportsFinal, ReportFinal, NoCall
<1>2. ReportsFinal => NotWorkingIsFinal
  BY DEF ReportsFinal, ReportFinal, FinalReport, NotWorkingIsFinal
<1>3. QED
  BY <1>1, <1>2, NextReports, ClientCorrect, PTL DEF Spec

-----------------------------------------------------------------------------
(* What a call has met                                                     *)

Faults == Passing \cup {Failed}
Useless == Faults \cup Refusals

\* What the exchange answers a balance query with.
Balances(available, frozen, bought) ==
  <<[currency |-> "USDT", type |-> "trade", balance |-> available],
    [currency |-> "USDT", type |-> "frozen", balance |-> frozen],
    [currency |-> "BTC", type |-> "trade", balance |-> bought]>>

\* What an answer to a query says was so at some moment of the call.
Current(k, data) ==
  /\ k.action = "query-order" => data \in k.seen \ {<<>>}
  /\ k.action = "query-order-trades" => data \in k.seen
  /\ k.action = "query-account-balance" =>
       \E a, f, b \in Int : a + f + b = Funds /\ data = Balances(a, f, b)

\* The report a finished query made of it.
Reported(k) ==
  /\ k.action = "query-order" =>
       \E view \in k.seen \ {<<>>} : k.result.data = Order(view[1])
  /\ k.action = "query-order-trades" => k.result.data \in k.seen
  /\ k.action = "query-account-balance" =>
       LET usdt == k.result.data["USDT"]
           btc == k.result.data["BTC"]
       IN usdt.Available + usdt.Locked + btc.Available = Funds

\* A call in progress knows the faults it met by its attempts: one for each
\* attempt before this one.  It is on its last attempt when they are as many as
\* its attempts, and a success it has received is of its own time.
Underway(k) ==
  /\ k.attempt \in 1..attempts(k.action)
  /\ k.pc = "ready" => k.answer = NoAnswer
  /\ k.answer \in Refusals => k.refused
  /\ ~k.refused => k.passing = IF k.answer \in Faults THEN k.attempt ELSE k.attempt - 1
  /\ k.answer \in Useless \cup {NoAnswer} \/ \E data : k.answer = Ok(data) /\ Current(k, data)
  /\ k.action = "submit-order" => k.arg > 0

\* A finished one has answered unless its faults account for its attempts.
Over(k) ==
  /\ k.attempt \in 0..attempts(k.action)
  /\ k.result.ok => Reported(k)
  /\ /\ k.n > 0 /\ readOnlyPrivateAction(k.action) /\ ~k.canceled /\ ~k.refused
     /\ k.passing < attempts(k.action)
     => k.result.ok

CallOK(k) == IF k.pc = "done" THEN Over(k) ELSE Underway(k)

CallsOK == \A c \in Callers : CallOK(call[c])

LEMMA AttemptsBound == \A action : attempts(action) \in 1..3
BY ClientAssumption DEF attempts

\* The kinds of answers are apart.
LEMMA AnswersApart ==
  /\ NoAnswer \notin Useless
  /\ \A answer \in Refusals : answer \notin Faults
  /\ \A data : Ok(data) \notin Useless /\ Ok(data) # NoAnswer
  /\ \A answer \in Faults : ClassifyPrivateRetry(answer)
  /\ \A answer \in Refusals : ~ClassifyPrivateRetry(answer)
  /\ \A data : /\ ~ClassifyPrivateRetry(Ok(data)) /\ Ok(data).data = data
               /\ \A action : Success(action, Ok(data))
BY DEF Useless, Faults, Passing, Failed, Refusals, NoAnswer, Ok, ClassifyPrivateRetry, Success

\* What a step of the other end may do to a call: note a state of the exchange,
\* end its context, or give it an answer it is waiting for.
Meets(k, j) ==
  /\ SameCall(k, j)
  /\ j.seen \subseteq k.seen
  /\ j.canceled => k.canceled
  /\ \/ k.answer = j.answer /\ k.passing = j.passing /\ k.refused = j.refused
     \/ /\ j.pc = "waiting" /\ j.answer = NoAnswer
        /\ k.passing = IF k.answer \in Faults THEN j.passing + 1 ELSE j.passing
        /\ k.refused = (j.refused \/ k.answer \in Refusals)
        /\ k.answer \in Useless \/ \E data : k.answer = Ok(data) /\ Current(k, data)

\* A finished call meets nothing any more.
Spared(k, j) == j.pc = "done" => k = j

LEMMA MeetingKeeps ==
  ASSUME NEW j, NEW k, CallTypeOK(j), CallOK(j), Meets(k, j), Spared(k, j)
  PROVE  CallOK(k)
<1>1. k.pc = j.pc /\ k.action = j.action /\ k.attempt = j.attempt /\ k.arg = j.arg
  BY DEF Meets, SameCall
<1>2. CASE j.pc = "done"
  BY <1>2 DEF Spared
<1>3. CASE j.pc # "done"
  <2>1. Underway(j) /\ j.attempt \in Nat
    BY <1>3 DEF CallOK, CallTypeOK
  <2>2. k.attempt \in 1..attempts(k.action) /\ (k.action = "submit-order" => k.arg > 0)
    BY <1>1, <2>1 DEF Underway
  <2>3. CASE k.answer = j.answer /\ k.passing = j.passing /\ k.refused = j.refused
    <3>1. ASSUME NEW data, Current(j, data) PROVE Current(k, data)
      BY <1>1, <3>1 DEF Meets, Current
    <3>2. /\ k.pc = "ready" => k.answer = NoAnswer
          /\ k.answer \in Refusals => k.refused
          /\ ~k.refused => k.passing = IF k.answer \in Faults THEN k.attempt ELSE k.attempt - 1
      BY <1>1, <2>1, <2>3 DEF Underway
    <3>3. k.answer \in Useless \cup {NoAnswer} \/ \E data : k.answer = Ok(data) /\ Current(k, data)
      BY <2>1, <2>3, <3>1 DEF Underway
    <3>4. Underway(k)
      BY <2>2, <3>2, <3>3 DEF Underway
    <3>5. QED
      BY <1>1, <1>3, <3>4 DEF CallOK
  <2>4. CASE /\ j.pc = "waiting" /\ j.answer = NoAnswer
             /\ k.passing = IF k.answer \in Faults THEN j.passing + 1 ELSE j.passing
             /\ k.refused = (j.refused \/ k.answer \in Refusals)
             /\ k.answer \in Useless \/ \E data : k.answer = Ok(data) /\ Current(k, data)
    <3>1. k.refused <=> j.refused \/ k.answer \in Refusals
      BY <2>4, Zenon
    <3>2. ~j.refused => j.passing = j.attempt - 1
      BY <2>1, <2>4, AnswersApart DEF Underway, Useless
    <3>3. ~k.refused => k.passing = IF k.answer \in Faults THEN k.attempt ELSE k.attempt - 1
      BY <1>1, <2>1, <2>4, <3>1, <3>2
    <3>4. Underway(k)
      BY <1>1, <2>2, <2>4, <3>1, <3>3 DEF Underway
    <3>5. QED
      BY <1>1, <1>3, <3>4 DEF CallOK
  <2>5. QED
    BY <2>3, <2>4 DEF Meets
<1>4. QED
  BY <1>2, <1>3

\* Calls that stay as they are meet nothing.
LEMMA MeetsNothing ==
  ASSUME NEW j, CallTypeOK(j)
  PROVE  Meets(j, j) /\ Spared(j, j)
BY DEF CallTypeOK, Meets, SameCall, Spared

LEMMA MetTells ==
  ASSUME ClientTypeOK, NEW c, NEW answer, NEW d \in Callers
  PROVE  IF d # c THEN Met(c, answer)[d] = call[d]
         ELSE LET k == Met(c, answer)[d]
              IN /\ SameCall(k, call[d])
                 /\ k.seen = call[d].seen /\ k.canceled = call[d].canceled
                 /\ k.answer = answer
                 /\ k.passing = IF answer \in Faults THEN call[d].passing + 1 ELSE call[d].passing
                 /\ k.refused = (call[d].refused \/ answer \in Refusals)
<1>1. DOMAIN call = Callers /\ DOMAIN call[d] = Fields
  BY DEF ClientTypeOK, CallTypeOK
<1> DEFINE passing == IF answer \in Faults THEN call[c].passing + 1 ELSE call[c].passing
           refused == call[c].refused \/ answer \in Refusals
<1>2. Met(c, answer) = [call EXCEPT ![c].answer = answer, ![c].passing = passing,
                                    ![c].refused = refused]
  BY <1>1 DEF Met, Faults
<1> HIDE DEF passing, refused
<1>3. CASE d # c
  BY <1>1, <1>2, <1>3
<1>4. CASE d = c
  <2> DEFINE k == Met(c, answer)[d]
  <2>1. k = [call[d] EXCEPT !.answer = answer, !.passing = passing, !.refused = refused]
    BY <1>1, <1>2, <1>4
  <2> HIDE DEF k
  <2>2. /\ SameCall(k, call[d])
        /\ k.seen = call[d].seen /\ k.canceled = call[d].canceled
        /\ k.answer = answer /\ k.passing = passing /\ k.refused = refused
    BY <1>1, <2>1 DEF SameCall, Fields
  <2>3. QED
    BY <1>4, <2>2 DEF k, passing, refused
<1>5. QED
  BY <1>3, <1>4

\* A call gets an answer only if it waits for one.
LEMMA DeliverTells ==
  ASSUME ClientTypeOK, NEW req \in Requests, NEW answer, NEW d \in Callers
  PROVE  LET k == Deliver(req, answer)[d]
         IN \/ k = call[d]
            \/ /\ Request(d) = req /\ call[d].pc = "waiting" /\ call[d].answer = NoAnswer
               /\ SameCall(k, call[d])
               /\ k.seen = call[d].seen /\ k.canceled = call[d].canceled
               /\ k.answer = answer
               /\ k.passing = IF answer \in Faults THEN call[d].passing + 1 ELSE call[d].passing
               /\ k.refused = (call[d].refused \/ answer \in Refusals)
<1>1. CASE /\ call[req.by].pc = "waiting" /\ call[req.by].answer = NoAnswer
           /\ Request(req.by) = req
  <2>1. Deliver(req, answer) = Met(req.by, answer)
    BY <1>1 DEF Deliver
  <2>2. QED
    BY <1>1, <2>1, MetTells
<1>2. CASE ~(/\ call[req.by].pc = "waiting" /\ call[req.by].answer = NoAnswer
             /\ Request(req.by) = req)
  BY <1>2 DEF Deliver
<1>3. QED
  BY <1>1, <1>2

\* Notes add what the exchange shows now to what a call in progress has seen.
LEMMA NotedTells ==
  ASSUME NEW f, NEW d \in Callers, DOMAIN f[d] = Fields
  PROVE  /\ f[d].pc = "done" => Noted(f)[d] = f[d]
         /\ f[d].pc # "done" =>
              LET k == Noted(f)[d]
              IN /\ SameCall(k, f[d]) /\ k.canceled = f[d].canceled
                 /\ k.answer = f[d].answer /\ k.passing = f[d].passing
                 /\ k.refused = f[d].refused
                 /\ k.seen = f[d].seen \cup {View(orders', f[d].action, f[d].arg)}
<1>1. CASE f[d].pc = "done"
  BY <1>1 DEF Noted
<1>2. CASE f[d].pc # "done"
  <2> DEFINE k == Noted(f)[d]
             view == View(orders', f[d].action, f[d].arg)
  <2>1. k = [f[d] EXCEPT !.seen = @ \cup {view}]
    BY <1>2 DEF Noted
  <2> HIDE DEF k, view
  <2>2. /\ SameCall(k, f[d]) /\ k.canceled = f[d].canceled
        /\ k.answer = f[d].answer /\ k.passing = f[d].passing
        /\ k.refused = f[d].refused /\ k.seen = f[d].seen \cup {view}
    BY <2>1 DEF SameCall, Fields
  <2>3. QED
    BY <1>2, <2>2 DEF k, view
<1>3. QED
  BY <1>1, <1>2

-----------------------------------------------------------------------------
(* What the account can still buy                                          *)

\* An order holds back what it may still buy.
Booked(order) ==
  /\ order.amount \in 1..Funds
  /\ order.filled \in 0..order.amount
  /\ Working(order.state) => order.filled < order.amount

BookOK ==
  /\ \A i \in DOMAIN orders : Booked(orders[i])
  /\ Available(orders) >= 0

HeldOf(book) == [i \in DOMAIN book |-> Held(book[i])]
FilledOf(book) == [i \in DOMAIN book |-> book[i].filled]

LEMMA AvailableIs ==
  \A book : Available(book) =
    Funds - SumFunctionOnSet(HeldOf(book), DOMAIN book)
          - SumFunctionOnSet(FilledOf(book), DOMAIN book)
BY DEF Available, Frozen, Bought, HeldOf, FilledOf

LEMMA BookedCosts ==
  ASSUME NEW order, order \in BookOrder
  PROVE  /\ Held(order) \in Int /\ order.filled \in Int
         /\ Booked(order) => Held(order) \in Nat /\ order.filled \in Nat
                             /\ Held(order) + order.filled <= order.amount
                             /\ (Working(order.state) => Held(order) = order.amount - order.filled)
BY DEF BookOrder, Held, Booked

LEMMA BookCosts ==
  ASSUME NEW book \in Seq(BookOrder)
  PROVE  /\ IsFiniteSet(DOMAIN book)
         /\ \A i \in DOMAIN book :
              /\ book[i] \in BookOrder
              /\ HeldOf(book)[i] = Held(book[i]) /\ Held(book[i]) \in Int
              /\ FilledOf(book)[i] = book[i].filled /\ book[i].filled \in Int
         /\ SumFunctionOnSet(HeldOf(book), DOMAIN book) \in Int
         /\ SumFunctionOnSet(FilledOf(book), DOMAIN book) \in Int
<1>1. Len(book) \in Nat /\ DOMAIN book = 1..Len(book)
  BY LenProperties
<1>2. IsFiniteSet(DOMAIN book)
  BY <1>1, FS_Interval
<1>3. \A i \in DOMAIN book : book[i] \in BookOrder
  OBVIOUS
<1>4. \A i \in DOMAIN book :
        /\ HeldOf(book)[i] = Held(book[i]) /\ Held(book[i]) \in Int
        /\ FilledOf(book)[i] = book[i].filled /\ book[i].filled \in Int
  BY <1>3, BookedCosts DEF HeldOf, FilledOf
<1>5. SumFunctionOnSet(HeldOf(book), DOMAIN book) \in Int
  <2>1. \A i \in DOMAIN book : HeldOf(book)[i] \in Int
    BY <1>4
  <2>2. QED
    BY <1>2, <2>1, SumIsInteger
<1>6. SumFunctionOnSet(FilledOf(book), DOMAIN book) \in Int
  <2>1. \A i \in DOMAIN book : FilledOf(book)[i] \in Int
    BY <1>4
  <2>2. QED
    BY <1>2, <2>1, SumIsInteger
<1>7. QED
  BY <1>2, <1>3, <1>4, <1>5, <1>6

\* What is available, what is frozen and what was bought make up the account.
LEMMA AccountAddsUp ==
  ASSUME NEW book \in Seq(BookOrder)
  PROVE  /\ Available(book) \in Int /\ Frozen(book) \in Int /\ Bought(book) \in Int
         /\ Available(book) + Frozen(book) + Bought(book) = Funds
<1>1. Frozen(book) \in Int /\ Bought(book) \in Int
  BY BookCosts DEF Frozen, Bought, HeldOf, FilledOf
<1>2. Funds \in Nat
  BY ClientAssumption
<1>3. QED
  BY <1>1, <1>2 DEF Available

LEMMA AvailableAtMost ==
  ASSUME NEW book \in Seq(BookOrder), \A i \in DOMAIN book : Booked(book[i])
  PROVE  Available(book) <= Funds
<1>1. /\ IsFiniteSet(DOMAIN book)
      /\ \A i \in DOMAIN book : HeldOf(book)[i] \in Nat /\ FilledOf(book)[i] \in Nat
  BY BookCosts, BookedCosts
<1>2. SumFunctionOnSet(HeldOf(book), DOMAIN book) \in Nat
  BY <1>1, SumIsNatural
<1>3. SumFunctionOnSet(FilledOf(book), DOMAIN book) \in Nat
  BY <1>1, SumIsNatural
<1>4. QED
  BY <1>2, <1>3, AvailableIs, ClientAssumption

LEMMA BookGrows ==
  ASSUME NEW book \in Seq(BookOrder), NEW order \in BookOrder
  PROVE  Available(Append(book, order)) = Available(book) - Held(order) - order.filled
<1> DEFINE more == Append(book, order)
           y == Len(book) + 1
           S == DOMAIN book
           R == DOMAIN more
<1>1. /\ Len(book) \in Nat /\ S = 1..Len(book) /\ y \notin S
      /\ more \in Seq(BookOrder) /\ R = S \cup {y}
      /\ more[y] = order /\ \A i \in S : more[i] = book[i]
  BY AppendProperties, LenProperties
<1>2. IsFiniteSet(S)
  BY BookCosts
<1>3. \A i \in S : /\ HeldOf(book)[i] \in Int /\ HeldOf(more)[i] = HeldOf(book)[i]
                   /\ FilledOf(book)[i] \in Int /\ FilledOf(more)[i] = FilledOf(book)[i]
  BY <1>1, BookCosts DEF HeldOf, FilledOf
<1>4. /\ HeldOf(more)[y] = Held(order) /\ FilledOf(more)[y] = order.filled
      /\ Held(order) \in Int /\ order.filled \in Int
  BY <1>1, BookedCosts DEF HeldOf, FilledOf
<1> HIDE DEF more, y, S, R
<1>5. /\ SumFunctionOnSet(HeldOf(book), S) \in Int
      /\ SumFunctionOnSet(HeldOf(more), R) = SumFunctionOnSet(HeldOf(book), S) + Held(order)
  <2> DEFINE f == HeldOf(book)
             g == HeldOf(more)
  <2>1. (\A i \in S : f[i] \in Int /\ g[i] = f[i]) /\ g[y] \in Int
    BY <1>3, <1>4
  <2>2. g[y] = Held(order)
    BY <1>4
  <2>3. R = S \cup {y}
    BY <1>1
  <2>4. y \notin S
    BY <1>1
  <2> HIDE DEF f, g
  <2>5. SumFunctionOnSet(f, S) \in Int
    BY <1>2, <2>1, SumIsInteger
  <2>6. SumFunctionOnSet(g, S \cup {y}) = SumFunctionOnSet(f, S) + g[y]
    BY <1>2, <2>1, <2>4, SumGrows
  <2>7. QED
    BY <2>2, <2>3, <2>5, <2>6 DEF f, g
<1>6. /\ SumFunctionOnSet(FilledOf(book), S) \in Int
      /\ SumFunctionOnSet(FilledOf(more), R) = SumFunctionOnSet(FilledOf(book), S) + order.filled
  <2> DEFINE f == FilledOf(book)
             g == FilledOf(more)
  <2>1. (\A i \in S : f[i] \in Int /\ g[i] = f[i]) /\ g[y] \in Int
    BY <1>3, <1>4
  <2>2. g[y] = order.filled
    BY <1>4
  <2>3. R = S \cup {y}
    BY <1>1
  <2>4. y \notin S
    BY <1>1
  <2> HIDE DEF f, g
  <2>5. SumFunctionOnSet(f, S) \in Int
    BY <1>2, <2>1, SumIsInteger
  <2>6. SumFunctionOnSet(g, S \cup {y}) = SumFunctionOnSet(f, S) + g[y]
    BY <1>2, <2>1, <2>4, SumGrows
  <2>7. QED
    BY <2>2, <2>3, <2>5, <2>6 DEF f, g
<1>7. Available(more) = Available(book) - Held(order) - order.filled
  <2>1. Available(more) = Funds - SumFunctionOnSet(HeldOf(more), R) - SumFunctionOnSet(FilledOf(more), R)
    BY AvailableIs DEF R
  <2>2. Available(book) = Funds - SumFunctionOnSet(HeldOf(book), S) - SumFunctionOnSet(FilledOf(book), S)
    BY AvailableIs DEF S
  <2>3. Funds \in Nat
    BY ClientAssumption
  <2>4. QED
    BY <1>4, <1>5, <1>6, <2>1, <2>2, <2>3
<1>8. QED
  BY <1>7 DEF more

LEMMA BookChanges ==
  ASSUME NEW book \in Seq(BookOrder), NEW y \in DOMAIN book, NEW order \in BookOrder
  PROVE  Available([book EXCEPT ![y] = order]) =
           Available(book) + Held(book[y]) + book[y].filled - Held(order) - order.filled
<1> DEFINE other == [book EXCEPT ![y] = order]
           S == DOMAIN book
<1>1. /\ DOMAIN other = S /\ other[y] = order
      /\ \A i \in S \ {y} : other[i] = book[i]
  OBVIOUS
<1>2. IsFiniteSet(S)
  BY BookCosts
<1>3. /\ \A i \in S : HeldOf(book)[i] \in Int /\ FilledOf(book)[i] \in Int
      /\ \A i \in S \ {y} : /\ HeldOf(other)[i] = HeldOf(book)[i]
                            /\ FilledOf(other)[i] = FilledOf(book)[i]
  BY <1>1, BookCosts DEF HeldOf, FilledOf
<1>4. /\ HeldOf(other)[y] = Held(order) /\ FilledOf(other)[y] = order.filled
      /\ Held(order) \in Int /\ order.filled \in Int
      /\ HeldOf(book)[y] = Held(book[y]) /\ FilledOf(book)[y] = book[y].filled
      /\ Held(book[y]) \in Int /\ book[y].filled \in Int
  BY <1>1, BookedCosts, BookCosts DEF HeldOf, FilledOf
<1>5. y \in S
  OBVIOUS
<1> HIDE DEF other, S
<1>6. SumFunctionOnSet(HeldOf(other), S) =
        SumFunctionOnSet(HeldOf(book), S) - Held(book[y]) + Held(order)
  <2> DEFINE f == HeldOf(book)
             g == HeldOf(other)
  <2>1. \A i \in S : f[i] \in Int
    BY <1>3
  <2>2. g[y] \in Int
    BY <1>4
  <2>3. \A i \in S \ {y} : g[i] = f[i]
    BY <1>3
  <2>4. g[y] = Held(order) /\ f[y] = Held(book[y])
    BY <1>4
  <2> HIDE DEF f, g
  <2>5. SumFunctionOnSet(g, S) = SumFunctionOnSet(f, S) - f[y] + g[y]
    <3>1. \A i \in S : g[i] \in Int
      BY <2>3, <2>1, <2>2
    <3>2. /\ SumFunctionOnSet(g, S) = g[y] + SumFunctionOnSet(g, S \ {y})
          /\ SumFunctionOnSet(f, S) = f[y] + SumFunctionOnSet(f, S \ {y})
      BY <1>2, <1>5, <2>1, <3>1, SumTakesOut
    <3>3. IsFiniteSet(S \ {y})
      BY <1>2, FS_RemoveElement
    <3>4. SumFunctionOnSet(g, S \ {y}) = SumFunctionOnSet(f, S \ {y})
      BY <2>3, <3>3, SumAgrees
    <3>5. SumFunctionOnSet(f, S \ {y}) \in Int /\ f[y] \in Int
      BY <1>5, <2>1, <3>3, SumIsInteger
    <3>6. QED
      BY <2>2, <3>2, <3>4, <3>5
  <2>6. QED
    BY <2>4, <2>5 DEF f, g
<1>7. SumFunctionOnSet(FilledOf(other), S) =
        SumFunctionOnSet(FilledOf(book), S) - book[y].filled + order.filled
  <2> DEFINE f == FilledOf(book)
             g == FilledOf(other)
  <2>1. \A i \in S : f[i] \in Int
    BY <1>3
  <2>2. g[y] \in Int
    BY <1>4
  <2>3. \A i \in S \ {y} : g[i] = f[i]
    BY <1>3
  <2>4. g[y] = order.filled /\ f[y] = book[y].filled
    BY <1>4
  <2> HIDE DEF f, g
  <2>5. SumFunctionOnSet(g, S) = SumFunctionOnSet(f, S) - f[y] + g[y]
    <3>1. \A i \in S : g[i] \in Int
      BY <2>3, <2>1, <2>2
    <3>2. /\ SumFunctionOnSet(g, S) = g[y] + SumFunctionOnSet(g, S \ {y})
          /\ SumFunctionOnSet(f, S) = f[y] + SumFunctionOnSet(f, S \ {y})
      BY <1>2, <1>5, <2>1, <3>1, SumTakesOut
    <3>3. IsFiniteSet(S \ {y})
      BY <1>2, FS_RemoveElement
    <3>4. SumFunctionOnSet(g, S \ {y}) = SumFunctionOnSet(f, S \ {y})
      BY <2>3, <3>3, SumAgrees
    <3>5. SumFunctionOnSet(f, S \ {y}) \in Int /\ f[y] \in Int
      BY <1>5, <2>1, <3>3, SumIsInteger
    <3>6. QED
      BY <2>2, <3>2, <3>4, <3>5
  <2>6. QED
    BY <2>4, <2>5 DEF f, g
<1>8. /\ SumFunctionOnSet(HeldOf(book), S) \in Int
      /\ SumFunctionOnSet(FilledOf(book), S) \in Int
  BY BookCosts DEF S
<1>9. Available(other) =
        Available(book) + Held(book[y]) + book[y].filled - Held(order) - order.filled
  <2>1. Available(other) = Funds - SumFunctionOnSet(HeldOf(other), S) - SumFunctionOnSet(FilledOf(other), S)
    BY <1>1, AvailableIs
  <2>2. Available(book) = Funds - SumFunctionOnSet(HeldOf(book), S) - SumFunctionOnSet(FilledOf(book), S)
    BY AvailableIs DEF S
  <2>3. Funds \in Nat
    BY ClientAssumption
  <2>4. QED
    BY <1>4, <1>6, <1>7, <1>8, <2>1, <2>2, <2>3, SMTT(30)
<1>10. QED
  BY <1>9 DEF other

\* Requests are of calls that were made, and what is submitted is more than nothing.
WireOK == \A req \in wire : req.n \in 1..calls /\ (req.action = "submit-order" => req.arg > 0)

\* The order a working one becomes, when it is filled or its cancellation is
\* carried out or asked for, costs no more.
LEMMA ReplacedOrder ==
  ASSUME ClientInv, BookOK, NEW i \in DOMAIN orders, NEW o \in BookOrder,
         orders' = [orders EXCEPT ![i] = o], Booked(o),
         Held(o) + o.filled <= Held(orders[i]) + orders[i].filled
  PROVE  BookOK'
<1>1. orders \in Seq(BookOrder) /\ Available(orders) \in Int
  BY AccountAddsUp DEF ClientInv, ClientTypeOK
<1>2. /\ Held(o) \in Int /\ o.filled \in Int
      /\ Held(orders[i]) \in Int /\ orders[i].filled \in Int
  BY <1>1, BookedCosts, BookCosts
<1>3. Available(orders') =
        Available(orders) + Held(orders[i]) + orders[i].filled - Held(o) - o.filled
  BY <1>1, BookChanges
<1>4. Available(orders)' = Available(orders')
  BY DEF Available, Frozen, Bought
<1>5. Available(orders') >= 0
  BY <1>1, <1>2, <1>3, SMTT(30) DEF BookOK
<1>6. \A j \in DOMAIN orders' : Booked(orders'[j])
  BY DEF BookOK
<1>7. QED
  BY <1>4, <1>5, <1>6 DEF BookOK, Booked

LEMMA MatchBooks ==
  ASSUME ClientInv, BookOK, NEW i \in DOMAIN orders, Match(i)
  PROVE  BookOK'
<1>1. /\ orders \in Seq(BookOrder) /\ orders[i] \in BookOrder /\ Booked(orders[i])
      /\ Working(orders[i].state)
  BY DEF ClientInv, ClientTypeOK, BookOK, Match
<1>2. /\ orders[i].amount \in 1..Funds /\ orders[i].filled \in 0..orders[i].amount
      /\ orders[i].filled < orders[i].amount /\ Funds \in Nat
      /\ Held(orders[i]) = orders[i].amount - orders[i].filled
  BY <1>1, ClientAssumption, BookedCosts DEF Booked
<1>3. CASE orders' = [orders EXCEPT
        ![i].filled = @ + 1,
        ![i].state = IF orders[i].filled + 1 = orders[i].amount THEN "filled"
                     ELSE IF @ = "canceling" THEN @ ELSE "partial-filled"]
  <2> DEFINE filled == orders[i].filled + 1
             state == IF filled = orders[i].amount THEN "filled"
                      ELSE IF orders[i].state = "canceling" THEN orders[i].state
                      ELSE "partial-filled"
             o == [orders[i] EXCEPT !.filled = filled, !.state = state]
  <2>1. filled \in 0..orders[i].amount /\ filled \in Int /\ state \in States
    BY <1>1, <1>2 DEF BookOrder, States
  <2>2. Working(state) => filled < orders[i].amount
    BY <1>2 DEF Working
  <2>3. orders' = [orders EXCEPT ![i] = o]
    BY <1>1, <1>3
  <2>4. filled = orders[i].filled + 1 /\ (filled # orders[i].amount => Working(state))
    BY <1>1 DEF Working
  <2> HIDE DEF filled, state
  <2>5. /\ o \in BookOrder /\ o.filled = filled /\ o.state = state
        /\ o.amount = orders[i].amount
    BY <1>1, <2>1 DEF BookOrder
  <2> HIDE DEF o
  <2>6. Booked(o)
    BY <1>2, <2>1, <2>2, <2>5 DEF Booked
  <2>7. Held(o) + o.filled <= orders[i].amount
    BY <1>2, <2>5, <2>6, BookedCosts
  <2>8. Held(o) + o.filled <= Held(orders[i]) + orders[i].filled
    BY <1>2, <2>7
  <2>9. QED
    BY <2>3, <2>5, <2>6, <2>8, ReplacedOrder
<1>4. CASE orders' = [orders EXCEPT
        ![i].state = IF orders[i].filled = 0 THEN "canceled" ELSE "partial-canceled"]
  <2> DEFINE o == [orders[i] EXCEPT
        !.state = IF orders[i].filled = 0 THEN "canceled" ELSE "partial-canceled"]
  <2>1. /\ o \in BookOrder /\ o.amount = orders[i].amount /\ o.filled = orders[i].filled
        /\ o.state \in {"canceled", "partial-canceled"}
    BY <1>1 DEF BookOrder, States
  <2>2. orders' = [orders EXCEPT ![i] = o]
    BY <1>1, <1>4
  <2> HIDE DEF o
  <2>3. Booked(o)
    BY <1>2, <2>1 DEF Booked, Working
  <2>4. Held(o) + o.filled <= orders[i].amount
    BY <1>2, <2>1, <2>3, BookedCosts
  <2>5. Held(o) + o.filled <= Held(orders[i]) + orders[i].filled
    BY <1>2, <2>4
  <2>6. QED
    BY <2>1, <2>2, <2>3, <2>5, ReplacedOrder
<1>5. QED
  BY <1>3, <1>4 DEF Match

LEMMA CancelBooks ==
  ASSUME ClientInv, BookOK, NEW req \in wire, CancelRequested(req)
  PROVE  BookOK'
<1> DEFINE i == req.arg
           o == [orders[i] EXCEPT !.state = "canceling"]
<1>1. /\ i \in DOMAIN orders /\ orders \in Seq(BookOrder) /\ orders[i] \in BookOrder
      /\ Booked(orders[i]) /\ Working(orders[i].state)
      /\ orders' = [orders EXCEPT ![i].state = "canceling"]
  BY DEF ClientInv, ClientTypeOK, BookOK, CancelRequested
<1>2. /\ o \in BookOrder /\ o.amount = orders[i].amount /\ o.filled = orders[i].filled
      /\ o.state = "canceling" /\ orders' = [orders EXCEPT ![i] = o]
  BY <1>1 DEF BookOrder, States
<1> HIDE DEF o, i
<1>3. Booked(o) /\ Held(o) = Held(orders[i])
  BY <1>1, <1>2 DEF Booked, Working, Held
<1>4. Held(o) + o.filled <= Held(orders[i]) + orders[i].filled
  BY <1>1, <1>2, <1>3, BookedCosts
<1>5. QED
  BY <1>1, <1>2, <1>3, <1>4, ReplacedOrder

LEMMA PlaceBooks ==
  ASSUME ClientInv, BookOK, WireOK, NEW req \in wire, Place(req)
  PROVE  BookOK'
<1> DEFINE o == [by |-> req.n, amount |-> req.arg, filled |-> 0, state |-> "submitted"]
<1>1. /\ orders \in Seq(BookOrder) /\ req.arg \in Int /\ req.arg > 0 /\ req.n \in Nat
      /\ req.arg <= Available(orders) /\ orders' = Append(orders, o)
  BY DEF ClientInv, ClientTypeOK, WireOK, Place, Requests
<1>2. Available(orders) <= Funds /\ Available(orders) \in Int /\ Funds \in Nat
  BY <1>1, AvailableAtMost, AccountAddsUp, ClientAssumption DEF BookOK
<1>3. /\ o \in BookOrder /\ o.amount = req.arg /\ o.filled = 0 /\ o.state = "submitted"
  BY <1>1 DEF BookOrder, States
<1> HIDE DEF o
<1>4. Booked(o) /\ Held(o) = req.arg
  BY <1>1, <1>2, <1>3 DEF Booked, Held, Working
<1>5. Available(orders') = Available(orders) - req.arg - 0
  BY <1>1, <1>3, <1>4, BookGrows
<1>6. Available(orders)' = Available(orders')
  BY DEF Available, Frozen, Bought
<1>7. Available(orders') >= 0
  BY <1>1, <1>2, <1>5
<1>8. \A j \in DOMAIN orders' : Booked(orders'[j])
  <2>1. \A j \in DOMAIN orders' :
          orders'[j] = o \/ (j \in DOMAIN orders /\ orders'[j] = orders[j])
    BY <1>1, <1>3
  <2>2. QED
    BY <1>4, <2>1 DEF BookOK
<1>9. QED
  BY <1>6, <1>7, <1>8 DEF BookOK, Booked

-----------------------------------------------------------------------------
(* The book and the wire at each step                                      *)

LEMMA NextBooks == ClientInv /\ BookOK /\ WireOK /\ [Next]_vars => BookOK'
<1> SUFFICES ASSUME ClientInv, BookOK, WireOK, [Next]_vars PROVE BookOK'
  OBVIOUS
<1>1. CASE orders' = orders
  <2>1. Available(orders)' = Available(orders)
    BY <1>1 DEF Available, Frozen, Bought
  <2>2. QED
    BY <1>1, <2>1 DEF BookOK, Booked
<1>2. ASSUME NEW req \in wire, Serve(req) PROVE BookOK'
  BY <1>1, <1>2, PlaceBooks, CancelBooks DEF Serve
<1>3. ASSUME NEW i \in DOMAIN orders, Match(i) PROVE BookOK'
  BY <1>3, MatchBooks
<1>4. QED
  BY <1>1, <1>2, <1>3 DEF Next, vars, Begin, RoundTrip, Canceled, Answered, Timeout,
     CancelContext, Refuse

CountsOK == calls \in 0..MaxCalls /\ faults \in 0..MaxFaults

LEMMA NextCounts == CountsOK /\ [Next]_vars => CountsOK'
<1> SUFFICES ASSUME CountsOK, [Next]_vars PROVE CountsOK'
  OBVIOUS
<1>1. /\ calls' = calls \/ (calls < MaxCalls /\ calls' = calls + 1)
      /\ faults' = faults \/ Fault
  BY DEF Next, vars, Begin, RoundTrip, Canceled, Answered, Timeout, CancelContext, Serve,
     Refuse, Match
<1>2. QED
  BY <1>1, ClientAssumption DEF CountsOK, Fault

\* A request that leaves is of a call in progress.
LEMMA NextWire == ClientInv /\ CallsOK /\ WireOK /\ [Next]_vars => WireOK'
<1> SUFFICES ASSUME ClientInv, CallsOK, WireOK, [Next]_vars PROVE WireOK'
  OBVIOUS
<1>1. calls \in Nat /\ (calls' = calls \/ calls' = calls + 1)
  BY DEF ClientInv, ClientTypeOK, Next, vars, Begin, RoundTrip, Canceled, Answered, Timeout,
     CancelContext, Serve, Refuse, Match
<1>2. CASE wire' \subseteq wire
  BY <1>1, <1>2 DEF WireOK
<1>3. ASSUME NEW c \in Callers, RoundTrip(c) PROVE WireOK'
  <2>1. wire' = wire \cup {Request(c)} /\ call[c].pc = "ready"
    BY <1>3 DEF RoundTrip
  <2>2. call[c].n \in 1..calls /\ (call[c].action = "submit-order" => call[c].arg > 0)
    BY <2>1 DEF ClientInv, CallsNumbered, CallsOK, CallOK, Underway
  <2>3. /\ Request(c).n = call[c].n /\ Request(c).action = call[c].action
        /\ Request(c).arg = call[c].arg
    BY DEF Request
  <2>4. QED
    BY <1>1, <2>1, <2>2, <2>3 DEF WireOK
<1>4. ASSUME NEW c \in Callers, Canceled(c) \/ Answered(c) PROVE wire' \subseteq wire
  BY <1>4, AbandonedRequests DEF Canceled, Answered
<1>5. QED
  BY <1>2, <1>3, <1>4 DEF Next, vars, Begin, Timeout, CancelContext, Serve, Refuse, Match

-----------------------------------------------------------------------------
(* The calls at each step                                                  *)

\* A step of the other end.
LEMMA MeetingStep ==
  ASSUME ClientInv, CallsOK,
         \A d \in Callers : Meets(call'[d], call[d]) /\ Spared(call'[d], call[d])
  PROVE  CallsOK'
<1> SUFFICES ASSUME NEW d \in Callers PROVE CallOK(call'[d])
  BY DEF CallsOK, CallOK, Over, Underway, Reported, Current
<1>1. CallTypeOK(call[d]) /\ CallOK(call[d])
  BY DEF ClientInv, ClientTypeOK, CallsOK
<1>2. QED
  BY <1>1, MeetingKeeps

LEMMA TimeoutCalls == ASSUME ClientInv, CallsOK, NEW c \in Callers, Timeout(c) PROVE CallsOK'
<1> SUFFICES ASSUME NEW d \in Callers
             PROVE  Meets(call'[d], call[d]) /\ Spared(call'[d], call[d])
  BY MeetingStep
<1>1. CallTypeOK(call[d]) /\ ClientTypeOK
  BY DEF ClientInv, ClientTypeOK
<1>2. call' = Met(c, Failed) /\ call[c].pc = "waiting" /\ call[c].answer = NoAnswer
  BY DEF Timeout
<1>3. CASE d # c
  BY <1>1, <1>2, <1>3, MetTells, MeetsNothing
<1>4. CASE d = c
  <2>1. Failed \in Faults /\ Failed \in Useless
    BY DEF Faults, Useless
  <2>2. QED
    BY <1>1, <1>2, <1>4, <2>1, MetTells DEF Meets, Spared
<1>5. QED
  BY <1>3, <1>4

LEMMA CancelContextCalls ==
  ASSUME ClientInv, CallsOK, NEW c \in Callers, CancelContext(c)
  PROVE  CallsOK'
<1> SUFFICES ASSUME NEW d \in Callers
             PROVE  Meets(call'[d], call[d]) /\ Spared(call'[d], call[d])
  BY MeetingStep
<1>1. CallTypeOK(call[d]) /\ DOMAIN call = Callers /\ DOMAIN call[d] = Fields
  BY DEF ClientInv, ClientTypeOK, CallTypeOK
<1>2. call' = [call EXCEPT ![c].canceled = TRUE] /\ call[c].pc # "done"
  BY DEF CancelContext
<1>3. CASE d # c
  BY <1>1, <1>2, <1>3, MeetsNothing
<1>4. CASE d = c
  <2>1. call'[d] = [call[d] EXCEPT !.canceled = TRUE]
    BY <1>1, <1>2, <1>4
  <2>2. /\ SameCall(call'[d], call[d]) /\ call'[d].canceled = TRUE
        /\ call'[d].seen = call[d].seen /\ call'[d].answer = call[d].answer
        /\ call'[d].passing = call[d].passing /\ call'[d].refused = call[d].refused
    BY <1>1, <2>1 DEF SameCall, Fields
  <2>3. QED
    BY <1>2, <1>4, <2>2 DEF Meets, Spared
<1>5. QED
  BY <1>3, <1>4

LEMMA RefuseCalls == ASSUME ClientInv, CallsOK, NEW req \in wire, Refuse(req) PROVE CallsOK'
<1> SUFFICES ASSUME NEW d \in Callers
             PROVE  Meets(call'[d], call[d]) /\ Spared(call'[d], call[d])
  BY MeetingStep
<1>1. CallTypeOK(call[d]) /\ ClientTypeOK /\ req \in Requests
  BY DEF ClientInv, ClientTypeOK
<1>2. PICK answer \in Passing \cup Refusals \cup {Failed} : call' = Deliver(req, answer)
  BY DEF Refuse
<1>3. answer \in Useless
  BY DEF Useless, Faults
<1>4. CASE call'[d] = call[d]
  BY <1>1, <1>4, MeetsNothing
<1>5. CASE call'[d] # call[d]
  <2>1. /\ call[d].pc = "waiting" /\ call[d].answer = NoAnswer
        /\ SameCall(call'[d], call[d])
        /\ call'[d].seen = call[d].seen /\ call'[d].canceled = call[d].canceled
        /\ call'[d].answer = answer
        /\ call'[d].passing = IF answer \in Faults THEN call[d].passing + 1 ELSE call[d].passing
        /\ call'[d].refused = (call[d].refused \/ answer \in Refusals)
    BY <1>1, <1>2, <1>5, DeliverTells
  <2>2. QED
    BY <1>3, <2>1 DEF Meets, Spared
<1>6. QED
  BY <1>4, <1>5

LEMMA MatchCalls ==
  ASSUME ClientInv, CallsOK, NEW i \in DOMAIN orders, Match(i)
  PROVE  CallsOK'
<1> SUFFICES ASSUME NEW d \in Callers
             PROVE  Meets(call'[d], call[d]) /\ Spared(call'[d], call[d])
  BY MeetingStep
<1>1. CallTypeOK(call[d]) /\ DOMAIN call[d] = Fields
  BY DEF ClientInv, ClientTypeOK, CallTypeOK
<1>2. call' = Noted(call)
  BY DEF Match
<1>3. QED
  BY <1>1, <1>2, NotedTells, MeetsNothing DEF Meets, Spared

\* Data that is true of the exchange now, for whoever has seen it as it is now.
Shown(req, data) ==
  \A k : k.action = req.action /\ View(orders', req.action, req.arg) \in k.seen =>
            Current(k, data)

\* The answer of a served query shows the exchange as it is at that moment.
LEMMA ServedData ==
  ASSUME ClientInv, NEW req \in wire, Serve(req)
  PROVE  \E answer :
           /\ call' = Noted(Deliver(req, answer))
           /\ \/ answer \in Faults
              \/ \E data : answer = Ok(data) /\ Shown(req, data)
<1> DEFINE data == CASE req.action = "submit-order" -> <<Len(orders) + 1>>
                     [] req.action = "cancel-order" -> <<req.arg>>
                     [] OTHER -> View(orders, req.action, req.arg)
<1>1. \/ \E answer \in Faults : call' = Noted(Deliver(req, answer))
      \/ call' = Noted(Deliver(req, Ok(data)))
  BY DEF Serve, Faults
<1>2. orders \in Seq(BookOrder)
  BY DEF ClientInv, ClientTypeOK
<1>3. readOnlyPrivateAction(req.action) => data = View(orders', req.action, req.arg)
  BY DEF Serve, Place, CancelRequested, readOnlyPrivateAction
<1>4. req.action = "query-order" => data # <<>>
  <2>1. req.action = "query-order" => req.arg \in DOMAIN orders
    BY DEF Serve, Place, CancelRequested
  <2>2. req.action = "query-order" => data = <<Detail(orders[req.arg])>>
    BY <2>1 DEF View
  <2>3. <<Detail(orders[req.arg])>> # <<>>
    OBVIOUS
  <2> HIDE DEF data
  <2>4. QED
    BY <2>2, <2>3, Zenon
<1>5. req.action = "query-account-balance" =>
        data = Balances(Available(orders), Frozen(orders), Bought(orders))
  BY DEF View, Balances
<1> HIDE DEF data
<1>6. Shown(req, data)
  <2> SUFFICES ASSUME NEW k, k.action = req.action,
                      View(orders', req.action, req.arg) \in k.seen
               PROVE  Current(k, data)
    BY DEF Shown
  <2>1. /\ k.action = "query-order" => data \in k.seen \ {<<>>}
        /\ k.action = "query-order-trades" => data \in k.seen
    BY <1>3, <1>4 DEF readOnlyPrivateAction
  <2>2. k.action = "query-account-balance" =>
          \E a, f, b \in Int : a + f + b = Funds /\ data = Balances(a, f, b)
    BY <1>2, <1>5, AccountAddsUp
  <2>3. QED
    BY <2>1, <2>2 DEF Current
<1>7. QED
  BY <1>1, <1>6

LEMMA ServeCallsOK == ASSUME ClientInv, CallsOK, NEW req \in wire, Serve(req) PROVE CallsOK'
<1> SUFFICES ASSUME NEW d \in Callers
             PROVE  Meets(call'[d], call[d]) /\ Spared(call'[d], call[d])
  BY MeetingStep
<1>1. CallTypeOK(call[d]) /\ ClientTypeOK /\ req \in Requests /\ DOMAIN call[d] = Fields
  BY DEF ClientInv, ClientTypeOK, CallTypeOK
<1>2. PICK answer :
        /\ call' = Noted(Deliver(req, answer))
        /\ \/ answer \in Faults
           \/ \E data : answer = Ok(data) /\ Shown(req, data)
  BY ServedData
<1> DEFINE f == Deliver(req, answer)
           j == f[d]
           k == call'[d]
<1>3. CASE j = call[d]
  <2>1. DOMAIN f[d] = Fields
    BY <1>1, <1>3
  <2>2. QED
    BY <1>1, <1>2, <1>3, <2>1, NotedTells, MeetsNothing DEF Meets, Spared
<1>4. CASE j # call[d]
  <2>1. /\ Request(d) = req /\ call[d].pc = "waiting" /\ call[d].answer = NoAnswer
        /\ SameCall(j, call[d])
        /\ j.seen = call[d].seen /\ j.canceled = call[d].canceled
        /\ j.answer = answer
        /\ j.passing = IF answer \in Faults THEN call[d].passing + 1 ELSE call[d].passing
        /\ j.refused = (call[d].refused \/ answer \in Refusals)
    BY <1>1, <1>4, DeliverTells
  <2>2. DOMAIN j = Fields /\ j.pc # "done" /\ j.action = req.action /\ j.arg = req.arg
    BY <2>1 DEF SameCall, Request
  <2>3. /\ SameCall(k, j) /\ k.canceled = j.canceled
        /\ k.answer = j.answer /\ k.passing = j.passing /\ k.refused = j.refused
        /\ k.seen = j.seen \cup {View(orders', j.action, j.arg)}
    BY <1>2, <2>2, NotedTells
  <2> HIDE DEF f, j, k
  <2>4. SameCall(k, call[d]) /\ call[d].seen \subseteq k.seen
        /\ (call[d].canceled => k.canceled)
    BY <2>1, <2>3 DEF SameCall
  <2>5. k.answer = answer
        /\ k.passing = (IF k.answer \in Faults THEN call[d].passing + 1 ELSE call[d].passing)
        /\ k.refused = (call[d].refused \/ k.answer \in Refusals)
    BY <2>1, <2>3
  <2>6. k.action = req.action /\ View(orders', req.action, req.arg) \in k.seen
    BY <2>2, <2>3 DEF SameCall
  <2>7. k.answer \in Useless \/ \E data : k.answer = Ok(data) /\ Current(k, data)
    BY <1>2, <2>5, <2>6 DEF Shown, Useless
  <2>8. Meets(k, call[d])
    BY <2>1, <2>4, <2>5, <2>7 DEF Meets
  <2>9. QED
    BY <2>1, <2>8 DEF Spared, k
<1>5. QED
  BY <1>3, <1>4

-----------------------------------------------------------------------------
(* What a query reports                                                    *)

LEMMA SumOfThree ==
  ASSUME NEW f, \A i \in 1..3 : f[i] \in Int
  PROVE  SumFunctionOnSet(f, 1..3) = f[1] + f[2] + f[3]
<1> DEFINE Sum(T) == SumFunctionOnSet(f, T)
<1>1. IsFiniteSet({}) /\ IsFiniteSet({1}) /\ IsFiniteSet({1, 2})
  BY FS_EmptySet, FS_AddElement
<1>2. {1} = {} \cup {1} /\ {1, 2} = {1} \cup {2} /\ 1..3 = {1, 2} \cup {3}
  OBVIOUS
<1>3. Sum({}) = 0
  BY SumEmpty
<1>4. Sum({} \cup {1}) = f[1] + Sum({})
  <2>1. \A x \in {} \cup {1} : f[x] \in Int
    OBVIOUS
  <2>2. QED
    BY <1>1, <2>1, SumAdds
<1>5. Sum({1} \cup {2}) = f[2] + Sum({1})
  <2>1. \A x \in {1} \cup {2} : f[x] \in Int
    OBVIOUS
  <2>2. QED
    BY <1>1, <2>1, SumAdds
<1>6. Sum({1, 2} \cup {3}) = f[3] + Sum({1, 2})
  <2>1. \A x \in {1, 2} \cup {3} : f[x] \in Int
    OBVIOUS
  <2>2. QED
    <3>1. 3 \notin {1, 2} /\ IsFiniteSet({1, 2})
      BY <1>1
    <3> DEFINE S == {1, 2}
    <3>2. 3 \notin S /\ IsFiniteSet(S) /\ \A x \in S \cup {3} : f[x] \in Int
      BY <2>1, <3>1
    <3> HIDE DEF S
    <3>3. Sum(S \cup {3}) = f[3] + Sum(S)
      BY <3>2, SumAdds
    <3>4. QED
      BY <3>3 DEF S
<1> HIDE DEF Sum
<1>7. Sum(1..3) = f[1] + f[2] + f[3]
  <2>1. Sum(1..3) = Sum({1, 2} \cup {3}) /\ Sum({1, 2}) = Sum({1} \cup {2})
        /\ Sum({1}) = Sum({} \cup {1})
    BY <1>2
  <2>2. Sum({1}) = f[1]
    BY <1>3, <1>4, <2>1
  <2>3. Sum({1, 2}) = f[2] + f[1]
    BY <1>5, <2>1, <2>2
  <2>4. f[1] \in Int /\ f[2] \in Int /\ f[3] \in Int
    OBVIOUS
  <2> DEFINE two == Sum({1, 2})
             three == Sum(1..3)
  <2>5. two = f[2] + f[1] /\ three = f[3] + two
    BY <1>6, <2>1, <2>3, Zenon
  <2> HIDE DEF two, three
  <2>6. three = f[1] + f[2] + f[3]
    BY <2>4, <2>5
  <2>7. QED
    BY <2>6 DEF three
<1>8. QED
  BY <1>7 DEF Sum

\* The amount of a currency and type is that of the one line that has them.
LEMMA AmountOfBalances ==
  ASSUME NEW a \in Int, NEW f \in Int, NEW b \in Int
  PROVE  LET list == Balances(a, f, b)
         IN /\ Amount(list, "USDT", "trade") = a
            /\ Amount(list, "USDT", "frozen") = f
            /\ Amount(list, "BTC", "trade") = b
<1> DEFINE list == Balances(a, f, b)
           line(currency, type) ==
             [i \in DOMAIN list |->
                IF list[i].currency = currency /\ list[i].type = type
                THEN list[i].balance ELSE 0]
<1>1. /\ DOMAIN list = 1..3
      /\ list[1] = [currency |-> "USDT", type |-> "trade", balance |-> a]
      /\ list[2] = [currency |-> "USDT", type |-> "frozen", balance |-> f]
      /\ list[3] = [currency |-> "BTC", type |-> "trade", balance |-> b]
  BY DEF Balances
<1>2. \A currency, type : Amount(list, currency, type) = SumFunctionOnSet(line(currency, type), 1..3)
  BY <1>1 DEF Amount
<1> HIDE DEF list
<1>3. /\ line("USDT", "trade")[1] = a /\ line("USDT", "trade")[2] = 0
      /\ line("USDT", "trade")[3] = 0
      /\ line("USDT", "frozen")[1] = 0 /\ line("USDT", "frozen")[2] = f
      /\ line("USDT", "frozen")[3] = 0
      /\ line("BTC", "trade")[1] = 0 /\ line("BTC", "trade")[2] = 0
      /\ line("BTC", "trade")[3] = b
  BY <1>1
<1> HIDE DEF line
<1>4. /\ \A i \in 1..3 : line("USDT", "trade")[i] \in Int
      /\ \A i \in 1..3 : line("USDT", "frozen")[i] \in Int
      /\ \A i \in 1..3 : line("BTC", "trade")[i] \in Int
  BY <1>3
<1>5. /\ SumFunctionOnSet(line("USDT", "trade"), 1..3) = a
      /\ SumFunctionOnSet(line("USDT", "frozen"), 1..3) = f
      /\ SumFunctionOnSet(line("BTC", "trade"), 1..3) = b
  BY <1>3, <1>4, SumOfThree
<1>6. QED
  BY <1>2, <1>5 DEF list

\* An answer of the call's own time makes a report of the call's own time.
LEMMA CurrentReports ==
  ASSUME NEW k, NEW data, Current(k, data), k.result.data = Parsed(k.action, data)
  PROVE  Reported(k)
<1>1. k.action = "query-order" => \E view \in k.seen \ {<<>>} : k.result.data = Order(view[1])
  BY DEF Current, Parsed
<1>2. k.action = "query-order-trades" => k.result.data \in k.seen
  BY DEF Current, Parsed
<1>3. ASSUME k.action = "query-account-balance"
      PROVE  LET usdt == k.result.data["USDT"]
                 btc == k.result.data["BTC"]
             IN usdt.Available + usdt.Locked + btc.Available = Funds
  <2>1. PICK a, f, b \in Int : a + f + b = Funds /\ data = Balances(a, f, b)
    BY <1>3 DEF Current
  <2> DEFINE parsed == ParseAccountBalanceResponse(data)
  <2>2. k.result.data = parsed
    BY <1>3 DEF Parsed
  <2>3. "USDT" \in {data[i].currency : i \in DOMAIN data}
    BY <2>1 DEF Balances
  <2>4. "BTC" \in {data[i].currency : i \in DOMAIN data}
    BY <2>1 DEF Balances
  <2>5. /\ parsed["USDT"].Available = Amount(data, "USDT", "trade")
        /\ parsed["USDT"].Locked = Amount(data, "USDT", "frozen")
    BY <2>3 DEF ParseAccountBalanceResponse
  <2>6. parsed["BTC"].Available = Amount(data, "BTC", "trade")
    BY <2>4 DEF ParseAccountBalanceResponse
  <2> HIDE DEF parsed
  <2>7. /\ parsed["USDT"].Available = a /\ parsed["USDT"].Locked = f
        /\ parsed["BTC"].Available = b
    BY <2>1, <2>5, <2>6, AmountOfBalances
  <2>8. QED
    BY <2>1, <2>2, <2>7
<1>4. QED
  BY <1>1, <1>2, <1>3 DEF Reported

-----------------------------------------------------------------------------
(* The client's own steps                                                  *)

\* Only the call of c moves.
LEMMA OneCallMoves ==
  ASSUME CallsOK, NEW c \in Callers, \A d \in Callers \ {c} : call'[d] = call[d],
         CallOK(call'[c])
  PROVE  CallsOK'
<1> SUFFICES ASSUME NEW d \in Callers PROVE CallOK(call'[d])
  BY DEF CallsOK, CallOK, Over, Underway, Reported, Current
<1>1. QED
  BY DEF CallsOK

\* A submission passed marshalSubmitOrderBody.
LEMMA BeginCalls ==
  ASSUME ClientInv, CallsOK, NEW c \in Callers, NEW action \in Actions, Begin(c, action)
  PROVE  CallsOK'
<1>1. DOMAIN call = Callers
  BY DEF ClientInv, ClientTypeOK
<1>2. PICK arg \in Inputs(action) :
        call' = [call EXCEPT ![c] =
          [NoCall EXCEPT !.pc = "ready", !.n = calls + 1, !.action = action, !.arg = arg,
                         !.attempt = 1, !.seen = {View(orders, action, arg)}]]
  BY DEF Begin
<1>3. /\ call'[c].pc = "ready" /\ call'[c].action = action /\ call'[c].arg = arg
      /\ call'[c].attempt = 1 /\ call'[c].answer = NoAnswer /\ call'[c].passing = 0
      /\ call'[c].refused = FALSE
  BY <1>1, <1>2 DEF NoCall
<1>4. action = "submit-order" => arg > 0
  <2>1. action = "submit-order" =>
          \E o \in Orders : arg = o.quantity /\ o.quantity > 0
    BY DEF Inputs, marshalSubmitOrderBody
  <2>2. QED
    BY <2>1
<1>5. 1 \in 1..attempts(action)
  BY AttemptsBound
<1>6. Underway(call'[c])
  BY <1>3, <1>4, <1>5, AnswersApart DEF Underway, Useless
<1>7. CallOK(call'[c])
  BY <1>3, <1>6 DEF CallOK
<1>8. QED
  BY <1>1, <1>2, <1>7, OneCallMoves

LEMMA RoundTripCalls ==
  ASSUME ClientInv, CallsOK, NEW c \in Callers, RoundTrip(c)
  PROVE  CallsOK'
<1>1. DOMAIN call = Callers /\ DOMAIN call[c] = Fields /\ CallOK(call[c])
  BY DEF ClientInv, ClientTypeOK, CallTypeOK, CallsOK
<1>2. call[c].pc = "ready" /\ call' = [call EXCEPT ![c].pc = "waiting"]
  BY DEF RoundTrip
<1> DEFINE k == call'[c]
<1>3. k = [call[c] EXCEPT !.pc = "waiting"]
  BY <1>1, <1>2
<1>4. \A d \in Callers \ {c} : call'[d] = call[d]
  BY <1>1, <1>2
<1> HIDE DEF k
<1>5. /\ k.pc = "waiting" /\ k.action = call[c].action /\ k.arg = call[c].arg
      /\ k.attempt = call[c].attempt /\ k.answer = call[c].answer
      /\ k.passing = call[c].passing /\ k.refused = call[c].refused /\ k.seen = call[c].seen
  BY <1>1, <1>3 DEF Fields
<1>6. Underway(call[c])
  BY <1>1, <1>2 DEF CallOK
<1>7. ASSUME NEW data, Current(call[c], data) PROVE Current(k, data)
  BY <1>5, <1>7 DEF Current
<1>8. CallOK(k)
  BY <1>5, <1>6, <1>7 DEF CallOK, Underway
<1>9. QED
  BY <1>4, <1>8, OneCallMoves DEF k

\* A call that returns is over, if its result and its end account for it.
LEMMA ReturnCalls ==
  ASSUME ClientInv, CallsOK, NEW c \in Callers, NEW result, Return(c, result),
         Underway(call[c]),
         ASSUME NEW k, k.action = call[c].action, k.seen = call[c].seen, k.result = result,
                result.ok
         PROVE  Reported(k),
         /\ readOnlyPrivateAction(call[c].action) /\ ~call[c].canceled /\ ~call[c].refused
         /\ call[c].passing < attempts(call[c].action)
         => result.ok
  PROVE  CallsOK'
<1>1. DOMAIN call = Callers /\ DOMAIN call[c] = Fields
  BY DEF ClientInv, ClientTypeOK, CallTypeOK
<1>2. call' = [call EXCEPT ![c].pc = "done", ![c].result = result, ![c].answer = NoAnswer]
  BY DEF Return
<1> DEFINE k == call'[c]
<1>3. k = [call[c] EXCEPT !.pc = "done", !.result = result, !.answer = NoAnswer]
  BY <1>1, <1>2
<1>4. \A d \in Callers \ {c} : call'[d] = call[d]
  BY <1>1, <1>2
<1> HIDE DEF k
<1>5. /\ k.pc = "done" /\ k.action = call[c].action /\ k.attempt = call[c].attempt
      /\ k.seen = call[c].seen /\ k.canceled = call[c].canceled
      /\ k.passing = call[c].passing /\ k.refused = call[c].refused
      /\ k.result = result
  BY <1>1, <1>3 DEF Fields
<1>6. k.attempt \in 0..attempts(k.action)
  BY <1>5, AttemptsBound DEF Underway
<1>7. k.result.ok => Reported(k)
  BY <1>5
<1>8. Over(k)
  BY <1>5, <1>6, <1>7 DEF Over
<1>9. CallOK(k)
  BY <1>5, <1>8 DEF CallOK
<1>10. QED
  BY <1>4, <1>9, OneCallMoves DEF k

LEMMA CanceledCalls ==
  ASSUME ClientInv, CallsOK, NEW c \in Callers, Canceled(c)
  PROVE  CallsOK'
<1>1. /\ call[c].pc # "done" /\ call[c].canceled /\ Return(c, NoResult)
      /\ NoResult.ok = FALSE
  BY DEF Canceled, NoResult
<1>2. Underway(call[c])
  BY <1>1 DEF CallsOK, CallOK
<1>3. QED
  BY <1>1, <1>2, ReturnCalls

\* An answer that is not repeated is a success, a refusal or the last fault.
LEMMA AnsweredCalls ==
  ASSUME ClientInv, CallsOK, NEW c \in Callers, Answered(c)
  PROVE  CallsOK'
<1> DEFINE answer == call[c].answer
           action == call[c].action
           n == attempts(action)
<1>1. /\ call[c].pc = "waiting" /\ answer # NoAnswer
      /\ DOMAIN call = Callers /\ DOMAIN call[c] = Fields /\ call[c].attempt \in Nat
  BY DEF Answered, ClientInv, ClientTypeOK, CallTypeOK
<1>2. Underway(call[c])
  BY <1>1 DEF CallsOK, CallOK
<1>3. n \in 1..3
  BY AttemptsBound
<1>4. answer \in Useless \/ \E data : answer = Ok(data) /\ Current(call[c], data)
  BY <1>1, <1>2 DEF Underway
<1>5. CASE ClassifyPrivateRetry(answer) /\ call[c].attempt < n
  <2>1. call' = [call EXCEPT ![c].pc = "ready", ![c].answer = NoAnswer, ![c].attempt = @ + 1]
    BY <1>5 DEF Answered
  <2>2. answer \in Faults
    BY <1>4, <1>5, AnswersApart DEF Useless
  <2>3. \A d \in Callers \ {c} : call'[d] = call[d]
    BY <1>1, <2>1
  <2> DEFINE k == call'[c]
  <2>4. k = [call[c] EXCEPT !.pc = "ready", !.answer = NoAnswer, !.attempt = @ + 1]
    BY <1>1, <2>1
  <2> HIDE DEF k
  <2>5. /\ k.pc = "ready" /\ k.action = action /\ k.arg = call[c].arg
        /\ k.attempt = call[c].attempt + 1 /\ k.answer = NoAnswer
        /\ k.passing = call[c].passing /\ k.refused = call[c].refused
    BY <1>1, <2>4 DEF Fields
  <2>6. k.attempt \in 1..attempts(k.action)
    BY <1>1, <1>3, <1>5, <2>5
  <2>7. ~k.refused => k.passing = k.attempt - 1
    BY <1>1, <1>2, <2>2, <2>5 DEF Underway
  <2>8. k.answer \notin Refusals /\ k.answer \notin Faults
    BY <2>5, AnswersApart DEF Useless
  <2>9. k.action = "submit-order" => k.arg > 0
    BY <1>2, <2>5 DEF Underway
  <2>10. Underway(k)
    BY <2>5, <2>6, <2>7, <2>8, <2>9 DEF Underway
  <2>11. CallOK(k)
    BY <2>5, <2>10 DEF CallOK
  <2>12. QED
    BY <2>3, <2>11, OneCallMoves DEF k
<1>6. CASE ~(ClassifyPrivateRetry(answer) /\ call[c].attempt < n)
  <2> DEFINE result == IF Success(action, answer)
                       THEN [ok |-> TRUE, data |-> Parsed(action, answer.data)]
                       ELSE NoResult
  <2>1. Return(c, result)
    BY <1>6 DEF Answered
  <2>2. result.ok <=> Success(action, answer)
    BY DEF NoResult
  <2>3. result.ok => result.data = Parsed(action, answer.data)
    BY DEF NoResult
  <2> HIDE DEF result
  <2>4. ASSUME NEW k, k.action = action, k.seen = call[c].seen, k.result = result, result.ok
        PROVE  Reported(k)
    <3>1. answer \notin Useless
      BY <2>2, <2>4, NotSuccesses DEF Useless, Faults
    <3>2. PICK data : answer = Ok(data) /\ Current(call[c], data)
      BY <1>4, <3>1
    <3>3. answer.data = data
      BY <3>2 DEF Ok
    <3>4. Current(k, data)
      BY <2>4, <3>2 DEF Current
    <3>5. k.result.data = Parsed(k.action, data)
      BY <2>3, <2>4, <3>3
    <3>6. QED
      BY <3>4, <3>5, CurrentReports
  <2>5. ASSUME readOnlyPrivateAction(action), ~call[c].canceled, ~call[c].refused,
               call[c].passing < n
        PROVE  result.ok
    <3>1. answer \notin Refusals
      BY <1>2, <2>5 DEF Underway
    <3>2. answer \notin Faults
      <4>1. SUFFICES ASSUME answer \in Faults PROVE FALSE
        OBVIOUS
      <4>2. ~(call[c].attempt < n)
        BY <1>6, <4>1, AnswersApart
      <4>3. call[c].passing = call[c].attempt
        BY <1>2, <2>5, <4>1 DEF Underway
      <4>4. QED
        BY <1>1, <1>3, <2>5, <4>2, <4>3
    <3>3. QED
      BY <1>4, <2>2, <3>1, <3>2, AnswersApart DEF Useless
  <2>6. QED
    BY <1>2, <2>1, <2>4, <2>5, ReturnCalls
<1>7. QED
  BY <1>5, <1>6

LEMMA NextCalls == ClientInv /\ CallsOK /\ [Next]_vars => CallsOK'
<1> SUFFICES ASSUME ClientInv, CallsOK, [Next]_vars PROVE CallsOK'
  OBVIOUS
<1>1. CASE UNCHANGED vars
  BY <1>1 DEF vars, CallsOK, CallOK, Over, Underway, Reported, Current
<1>2. CASE Next
  BY <1>2, BeginCalls, RoundTripCalls, CanceledCalls, AnsweredCalls, TimeoutCalls,
     CancelContextCalls, ServeCallsOK, RefuseCalls, MatchCalls DEF Next
<1>3. QED
  BY <1>1, <1>2

-----------------------------------------------------------------------------
(* The theorems about calls, book and counts                               *)

Sound == CallsOK /\ BookOK /\ WireOK /\ CountsOK

LEMMA InitSound == Init => Sound
<1> SUFFICES ASSUME Init PROVE Sound
  OBVIOUS
<1>1. ASSUME NEW c \in Callers PROVE CallOK(call[c])
  <2>1. call[c] = NoCall
    BY DEF Init
  <2>2. 0 \in 0..attempts(NoCall.action)
    BY AttemptsBound
  <2>3. QED
    BY <2>1, <2>2 DEF CallOK, Over, NoCall, NoResult
<1>2. BookOK
  <2>1. DOMAIN orders = {}
    BY DEF Init
  <2>2. Available(orders) = Funds
    BY <2>1, AvailableIs, SumEmpty, ClientAssumption
  <2>3. QED
    BY <2>1, <2>2, ClientAssumption DEF BookOK
<1>3. WireOK /\ CountsOK
  BY ClientAssumption DEF Init, WireOK, CountsOK
<1>4. QED
  BY <1>1, <1>2, <1>3 DEF Sound, CallsOK

LEMMA ClientSound == Spec => [](ClientInv /\ Sound)
<1>1. ClientInv /\ Sound /\ [Next]_vars => Sound'
  BY NextCalls, NextBooks, NextWire, NextCounts DEF Sound
<1>2. QED
  BY <1>1, InitSound, ClientCorrect, PTL DEF Spec

\* What the client and the exchange keep has its type: no call attempts more
\* often than its action may be, no order is filled beyond its amount and the
\* account never spends what it does not have.
THEOREM ClientTypes == Spec => []TypeOK
<1>1. ClientInv /\ Sound => TypeOK
  <2> SUFFICES ASSUME ClientInv, Sound PROVE TypeOK
    OBVIOUS
  <2>1. \A i \in DOMAIN orders : orders[i] \in BookOrder
    BY DEF ClientInv, ClientTypeOK
  <2>2. ASSUME NEW i \in DOMAIN orders
        PROVE  /\ orders[i].amount \in 1..Funds
               /\ orders[i].filled \in 0..orders[i].amount
               /\ orders[i].state \in States
    BY <2>1 DEF Sound, BookOK, Booked, BookOrder
  <2>3. ASSUME NEW req \in wire
        PROVE  req.by \in Callers /\ req.action \in Actions /\ req.n \in 1..calls
    <3>1. req \in Requests
      BY DEF ClientInv, ClientTypeOK
    <3>2. QED
      BY <3>1 DEF Sound, WireOK, Requests
  <2>4. ASSUME NEW c \in Callers
        PROVE  /\ call[c].pc \in {"ready", "waiting", "done"}
               /\ call[c].attempt \in 0..attempts(call[c].action)
    BY AttemptsBound DEF ClientInv, ClientTypeOK, CallTypeOK, Sound, CallsOK, CallOK, Over,
       Underway
  <2>5. calls \in 0..MaxCalls /\ faults \in 0..MaxFaults /\ Available(orders) >= 0
    BY DEF Sound, CountsOK, BookOK
  <2>6. QED
    BY <2>2, <2>3, <2>4, <2>5 DEF TypeOK, States
<1>2. QED
  BY <1>1, ClientSound, PTL

\* What a query reports was so at some moment of the call, and an account's
\* report adds up, whatever was lost, late or repeated (do,
\* ParseAccountBalanceResponse).
THEOREM ReportsCurrent == Spec => []ReportsAreCurrent
<1>1. Sound => ReportsAreCurrent
  BY DEF Sound, CallsOK, CallOK, Over, Reported, ReportsAreCurrent
<1>2. QED
  BY <1>1, ClientSound, PTL

\* A query answers if it meets fewer passing faults than it has attempts, no
\* refusal and no end of its context (do, ClassifyPrivateRetry).
THEOREM FaultsRiddenOut == Spec => []PassingFaultsAreRiddenOut
<1>1. Sound => PassingFaultsAreRiddenOut
  BY DEF Sound, CallsOK, CallOK, Over, PassingFaultsAreRiddenOut
<1>2. QED
  BY <1>1, ClientSound, PTL
=============================================================================
