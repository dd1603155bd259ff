---------------------------- MODULE HttpServiceProofs ----------------------------
(***************************************************************************)
(* Proofs about HttpService, for any connections, requests, outcomes and   *)
(* limits.  SessionInv relates, for each connection, the request that was  *)
(* read last, the requests that were dealt with, the answer that is being  *)
(* written, and the answers the client has got.                            *)
(***************************************************************************)
EXTENDS HttpService, TLAPS

(* One request is read, dealt with and answered after the other.           *)
InStep(c) ==
    /\ next[c] = Len(handled[c]) + (IF phase[c] = "handling" THEN 1 ELSE 0)
    /\ next[c] <= Len(requests[c])
    /\ \A i \in 1..Len(handled[c]) : handled[c][i].nr = i

(* A success is the last answer, and no read follows it.                   *)
Closing == {"write", "shutdown", "ended"}
SuccessIsLast(c) ==
    \A i \in 1..Len(handled[c]) : handled[c][i].status = 200 =>
        i = Len(handled[c]) /\ phase[c] \in Closing

(* The answer to the last request is what is being written.                *)
WritesLast(c) ==
    phase[c] = "write" =>
        /\ handled[c] # <<>>
        /\ handled[c][Len(handled[c])] =
              [nr |-> response[c].nr, status |-> response[c].status]
        /\ response[c].keepAlive => response[c].status # 200

(* The client has got what was written, unless it has gone away.           *)
Delivered(c) ==
    client[c] # "reset" =>
        /\ Len(received[c]) <= Len(handled[c])
        /\ Len(handled[c]) <= Len(received[c]) + 1
        /\ \A i \in 1..Len(received[c]) : received[c][i] = handled[c][i]
        /\ phase[c] = "write" => Len(handled[c]) = Len(received[c]) + 1
        /\ phase[c] \notin Closing => Len(handled[c]) = Len(received[c])

SessionInv(c) == InStep(c) /\ SuccessIsLast(c) /\ WritesLast(c) /\ Delivered(c)
HttpInv == HttpTypeOK /\ \A c \in Connections : SessionInv(c)

-----------------------------------------------------------------------------
(* What the type invariant says of one connection.                         *)
LEMMA Types ==
    ASSUME HttpTypeOK, NEW c \in Connections
    PROVE  /\ phase \in [Connections -> Phases]
           /\ timer \in [Connections -> {"never", "armed", "expired"}]
           /\ next \in [Connections -> Nat] /\ next[c] \in Nat
           /\ requests[c] \in Seq(Requests) /\ Len(requests[c]) \in Nat
           /\ handled[c] \in Seq(Answer) /\ Len(handled[c]) \in Nat
           /\ received[c] \in Seq(Answer) /\ Len(received[c]) \in Nat
BY DEF HttpTypeOK

LEMMA InitHttp == HttpInit => HttpInv
<1> SUFFICES ASSUME HttpInit PROVE HttpInv
  OBVIOUS
<1>1. HttpTypeOK
  <2>1. NoResponse \in [nr : Nat, status : Statuses, keepAlive : BOOLEAN]
    BY DEF NoResponse, Statuses
  <2>2. phase \in [Connections -> Phases]
    BY DEF HttpInit, Phases, Waiting
  <2>3. /\ requests \in [Connections -> Seq(Requests)]
        /\ handled \in [Connections -> Seq(Answer)]
        /\ received \in [Connections -> Seq(Answer)]
    BY DEF HttpInit
  <2>4. response \in [Connections ->
            [nr : Nat, status : Statuses, keepAlive : BOOLEAN]]
    BY <2>1 DEF HttpInit
  <2> QED
    BY <2>2, <2>3, <2>4 DEF HttpInit, HttpTypeOK
<1>2. ASSUME NEW c \in Connections PROVE SessionInv(c)
  <2>1. /\ phase[c] = "none" /\ next[c] = 0
        /\ handled[c] = <<>> /\ received[c] = <<>> /\ requests[c] = <<>>
    BY DEF HttpInit
  <2>2. Len(<<>>) = 0
    OBVIOUS
  <2> QED
    BY <2>1, <2>2 DEF SessionInv, InStep, SuccessIsLast, WritesLast, Delivered,
                      Closing
<1> QED
  BY <1>1, <1>2 DEF HttpInv

-----------------------------------------------------------------------------
(***************************************************************************)
(* Types.                                                                  *)
(***************************************************************************)
LEMMA MovesType ==
    ASSUME HttpTypeOK, NEW c \in Connections, NEW p \in Phases, To(c, p)
    PROVE  phase' \in [Connections -> Phases]
BY DEF HttpTypeOK, To

LEMMA ReadType ==
    ASSUME HttpTypeOK, NEW c \in Connections, DoRead(c)
    PROVE  /\ phase' \in [Connections -> Phases]
           /\ timer' \in [Connections -> {"never", "armed", "expired"}]
BY MovesType DEF HttpTypeOK, DoRead, ExpiresAfter, Phases, Waiting

LEMMA CloseType ==
    ASSUME HttpTypeOK, NEW c \in Connections, CloseConnection(c)
    PROVE  /\ phase' \in [Connections -> Phases]
           /\ timer' \in [Connections -> {"never", "armed", "expired"}]
BY MovesType DEF HttpTypeOK, CloseConnection, ClosePlain, CloseTLS,
                 ExpiresAfter, Phases, Waiting

(* The request that is dealt with, its answer and the response.            *)
LEMMA AnswerType ==
    ASSUME HttpInv, NEW c \in Connections, phase[c] = "handling",
           NEW status \in StatusesFor(requests[c][next[c]])
    PROVE  /\ [nr |-> next[c], status |-> status] \in Answer
           /\ [nr |-> next[c], status |-> status,
               keepAlive |-> KeepAlive(status, requests[c][next[c]])]
                \in [nr : Nat, status : Statuses, keepAlive : BOOLEAN]
<1>1. /\ next[c] \in Nat /\ requests[c] \in Seq(Requests)
      /\ Len(handled[c]) \in Nat
  BY Types DEF HttpInv
<1>2. next[c] \in 1..Len(requests[c])
  <2>1. next[c] = Len(handled[c]) + 1 /\ next[c] <= Len(requests[c])
    BY DEF HttpInv, SessionInv, InStep
  <2>2. Len(requests[c]) \in Nat
    BY Types DEF HttpInv
  <2> QED
    BY <1>1, <2>1, <2>2
<1>3. requests[c][next[c]] \in Request
  BY <1>1, <1>2, RequestsAssumption
<1>4. status \in Statuses
  <2>1. \A o \in Outcomes : StatusOf[o] \in Statuses
    BY OutcomesAssumption DEF StatusOf, Statuses, Exceptions
  <2> QED
    BY <2>1 DEF StatusesFor, Statuses
<1>5. KeepAlive(status, requests[c][next[c]]) \in BOOLEAN
  BY <1>3 DEF KeepAlive, Request
<1> QED
  BY <1>1, <1>4, <1>5 DEF Answer

LEMMA StepType ==
    ASSUME HttpInv, [HttpNext]_vars
    PROVE  HttpTypeOK'
<1> USE DEF clientVars
<1>0. HttpTypeOK
  BY DEF HttpInv
<1>1. ASSUME NEW c \in Connections, Connect(c) PROVE HttpTypeOK'
  <2>1. phase' \in [Connections -> Phases]
    BY <1>0, <1>1, MovesType DEF Connect, Phases
  <2>2. tls' \in [Connections -> BOOLEAN]
    BY <1>0, <1>1 DEF Connect, HttpTypeOK
  <2> QED
    BY <1>0, <1>1, <2>1, <2>2 DEF Connect, HttpTypeOK
<1>2. ASSUME NEW c \in Connections, NEW r \in Requests, Send(c, r)
      PROVE  HttpTypeOK'
  <2>1. requests' \in [Connections -> Seq(Requests)]
    BY <1>0, <1>2 DEF Send, HttpTypeOK
  <2> QED
    BY <1>0, <1>2, <2>1 DEF Send, HttpTypeOK
<1>3. ASSUME NEW c \in Connections, Leave(c) PROVE HttpTypeOK'
  BY <1>0, <1>3 DEF Leave, HttpTypeOK
<1>4. ASSUME NEW c \in Connections, Expire(c) PROVE HttpTypeOK'
  BY <1>0, <1>4 DEF Expire, HttpTypeOK
<1>5. ASSUME NEW c \in Connections, Accept(c) PROVE HttpTypeOK'
  <2>1. phase' \in [Connections -> Phases]
    BY <1>0, <1>5, MovesType DEF Accept, Phases, Waiting
  <2> QED
    BY <1>0, <1>5, <2>1 DEF Accept, ExpiresAfter, HttpTypeOK
<1>6. ASSUME NEW c \in Connections, AcceptError(c) PROVE HttpTypeOK'
  <2>1. phase' \in [Connections -> Phases]
    <3>1. CASE To(c, "ended")
      BY <1>0, <3>1, MovesType DEF Phases
    <3>2. CASE UNCHANGED phase
      BY <1>0, <3>2, Types, <1>6 DEF HttpTypeOK
    <3> QED
      BY <1>6, <3>1, <3>2 DEF AcceptError
  <2> QED
    BY <1>0, <1>6, <2>1 DEF AcceptError, HttpTypeOK
<1>7. ASSUME NEW c \in Connections, OnDetect(c) PROVE HttpTypeOK'
  <2>1. /\ phase' \in [Connections -> Phases]
        /\ timer' \in [Connections -> {"never", "armed", "expired"}]
    <3>1. CASE RunTLS(c)
      BY <1>0, <3>1, MovesType
         DEF RunTLS, ExpiresAfter, HttpTypeOK, Phases, Waiting
    <3>2. CASE RunPlain(c)
      BY <1>0, <3>2, ReadType DEF RunPlain
    <3> QED
      BY <1>7, <3>1, <3>2 DEF OnDetect
  <2> QED
    BY <1>0, <1>7, <2>1 DEF OnDetect, HttpTypeOK
<1>8. ASSUME NEW c \in Connections, OnHandshake(c) PROVE HttpTypeOK'
  <2>1. /\ phase' \in [Connections -> Phases]
        /\ timer' \in [Connections -> {"never", "armed", "expired"}]
    <3>1. CASE DoRead(c)
      BY <1>0, <3>1, ReadType
    <3>2. CASE To(c, "ended") /\ UNCHANGED timer
      BY <1>0, <3>2, MovesType DEF HttpTypeOK, Phases
    <3> QED
      BY <1>8, <3>1, <3>2 DEF OnHandshake
  <2> QED
    BY <1>0, <1>8, <2>1 DEF OnHandshake, HttpTypeOK
<1>9. ASSUME NEW c \in Connections, OnRead(c) PROVE HttpTypeOK'
  <2>1. phase' \in [Connections -> Phases] /\ next' \in [Connections -> Nat]
    <3>1. CASE To(c, "ended") /\ UNCHANGED next
      BY <1>0, <3>1, MovesType DEF HttpTypeOK, Phases
    <3>2. CASE To(c, "handling") /\ next' = [next EXCEPT ![c] = @ + 1]
      BY <1>0, <3>2, MovesType DEF HttpTypeOK, Phases
    <3> QED
      BY <1>9, <3>1, <3>2 DEF OnRead
  <2> QED
    BY <1>0, <1>9, <2>1 DEF OnRead, HttpTypeOK
<1>10. ASSUME NEW c \in Connections, OnEndOfStream(c) PROVE HttpTypeOK'
  <2>1. /\ phase' \in [Connections -> Phases]
        /\ timer' \in [Connections -> {"never", "armed", "expired"}]
    BY <1>0, <1>10, CloseType DEF OnEndOfStream
  <2> QED
    BY <1>0, <1>10, <2>1 DEF OnEndOfStream, HttpTypeOK
<1>11. ASSUME NEW c \in Connections, HandleRequest(c) PROVE HttpTypeOK'
  <2>1. PICK status \in StatusesFor(requests[c][next[c]]) :
            /\ handled' = [handled EXCEPT
                  ![c] = Append(@, [nr |-> next[c], status |-> status])]
            /\ response' = [response EXCEPT
                  ![c] = [nr |-> next[c], status |-> status,
                          keepAlive |-> KeepAlive(status, requests[c][next[c]])]]
    BY <1>11 DEF HandleRequest
  <2>2. /\ [nr |-> next[c], status |-> status] \in Answer
        /\ [nr |-> next[c], status |-> status,
            keepAlive |-> KeepAlive(status, requests[c][next[c]])]
              \in [nr : Nat, status : Statuses, keepAlive : BOOLEAN]
    BY <1>11, AnswerType DEF HandleRequest
  <2>3. handled' \in [Connections -> Seq(Answer)]
    BY <1>0, <2>1, <2>2 DEF HttpTypeOK
  <2>4. response' \in [Connections ->
            [nr : Nat, status : Statuses, keepAlive : BOOLEAN]]
    BY <1>0, <2>1, <2>2 DEF HttpTypeOK
  <2>5. phase' \in [Connections -> Phases]
    BY <1>0, <1>11, MovesType DEF HandleRequest, Phases, Waiting
  <2> QED
    BY <1>0, <1>11, <2>3, <2>4, <2>5 DEF HandleRequest, HttpTypeOK
<1>12. ASSUME NEW c \in Connections, OnWrite(c) PROVE HttpTypeOK'
  <2>1. /\ phase' \in [Connections -> Phases]
        /\ timer' \in [Connections -> {"never", "armed", "expired"}]
    BY <1>0, <1>12, ReadType, CloseType DEF OnWrite
  <2>2. NoResponse \in [nr : Nat, status : Statuses, keepAlive : BOOLEAN]
    BY DEF NoResponse, Statuses
  <2>3. response' \in [Connections ->
            [nr : Nat, status : Statuses, keepAlive : BOOLEAN]]
    BY <1>0, <1>12, <2>2 DEF OnWrite, HttpTypeOK
  <2>4. [nr |-> response[c].nr, status |-> response[c].status] \in Answer
    BY <1>0 DEF HttpTypeOK, Answer
  <2>5. received' \in [Connections -> Seq(Answer)]
    BY <1>0, <1>12, <2>4 DEF OnWrite, HttpTypeOK
  <2> QED
    BY <1>0, <1>12, <2>1, <2>3, <2>5 DEF OnWrite, HttpTypeOK
<1>13. ASSUME NEW c \in Connections, OnShutdown(c) PROVE HttpTypeOK'
  <2>1. phase' \in [Connections -> Phases]
    BY <1>0, <1>13, MovesType DEF OnShutdown, Phases
  <2> QED
    BY <1>0, <1>13, <2>1 DEF OnShutdown, HttpTypeOK
<1>14. ASSUME NEW c \in Connections, OperationFails(c) PROVE HttpTypeOK'
  <2>1. phase' \in [Connections -> Phases]
    BY <1>0, <1>14, MovesType DEF OperationFails, Phases
  <2>2. NoResponse \in [nr : Nat, status : Statuses, keepAlive : BOOLEAN]
    BY DEF NoResponse, Statuses
  <2>3. response' \in [Connections ->
            [nr : Nat, status : Statuses, keepAlive : BOOLEAN]]
    BY <1>0, <1>14, <2>2 DEF OperationFails, HttpTypeOK
  <2> QED
    BY <1>0, <1>14, <2>1, <2>3 DEF OperationFails, HttpTypeOK
<1>15. CASE UNCHANGED vars
  BY <1>0, <1>15 DEF vars, HttpTypeOK
<1> QED
  BY <1>1, <1>2, <1>3, <1>4, <1>5, <1>6, <1>7, <1>8, <1>9, <1>10, <1>11, <1>12,
     <1>13, <1>14, <1>15 DEF HttpNext, ClientStep, OnAccept, Session, Ready

-----------------------------------------------------------------------------
(***************************************************************************)
(* Every step keeps SessionInv.  A step is one of one connection.          *)
(***************************************************************************)
Same(c) ==
    /\ phase'[c] = phase[c] /\ client'[c] = client[c]
    /\ requests'[c] = requests[c] /\ next'[c] = next[c]
    /\ response'[c] = response[c] /\ handled'[c] = handled[c]
    /\ received'[c] = received[c]

LEMMA SameKeeps ==
    ASSUME NEW c \in Connections, SessionInv(c), Same(c)
    PROVE  SessionInv(c)'
<1>1. InStep(c)'
  BY DEF SessionInv, InStep, Same
<1>2. SuccessIsLast(c)'
  BY DEF SessionInv, SuccessIsLast, Same
<1>3. WritesLast(c)'
  BY DEF SessionInv, WritesLast, Same
<1>4. Delivered(c)'
  BY DEF SessionInv, Delivered, Same
<1> QED
  BY <1>1, <1>2, <1>3, <1>4 DEF SessionInv

(* The session goes on without reading, dealing with or writing anything.  *)
LEMMA QuietKeeps ==
    ASSUME HttpTypeOK, NEW c \in Connections, SessionInv(c),
           UNCHANGED <<client, requests, next, handled, received>>,
           phase[c] # "handling", phase'[c] \notin {"handling", "write"},
           phase[c] \in Closing => phase'[c] \in Closing,
           phase'[c] \in Closing \/ phase[c] \notin Closing
    PROVE  SessionInv(c)'
<1>1. Len(handled[c]) \in Nat /\ Len(received[c]) \in Nat
  BY Types
<1>2. InStep(c)'
  BY DEF SessionInv, InStep
<1>3. SuccessIsLast(c)'
  BY DEF SessionInv, SuccessIsLast
<1>4. WritesLast(c)'
  BY DEF WritesLast
<1>5. Delivered(c)'
  BY <1>1 DEF SessionInv, Delivered, Closing
<1> QED
  BY <1>2, <1>3, <1>4, <1>5 DEF SessionInv

(* A step of a connection that is not this one.                            *)
LEMMA OthersSame ==
    ASSUME HttpTypeOK, NEW c \in Connections, NEW d \in Connections, d # c,
           ClientStep(c) \/ OnAccept(c) \/ Session(c) \/ Expire(c)
    PROVE  Same(d)
<1> USE DEF clientVars
<1>0. \A p : To(c, p) => phase'[d] = phase[d]
  BY DEF To, HttpTypeOK
<1>1. CASE Connect(c) \/ Leave(c) \/ (\E r \in Requests : Send(c, r)) \/ Expire(c)
  BY <1>0, <1>1 DEF Connect, Leave, Send, Expire, Same, HttpTypeOK
<1>2. CASE OnAccept(c)
  BY <1>0, <1>2 DEF OnAccept, Accept, AcceptError, Same, HttpTypeOK
<1>3. CASE OnDetect(c) \/ OnHandshake(c)
  BY <1>0, <1>3 DEF OnDetect, OnHandshake, RunTLS, RunPlain, DoRead, Same,
                    HttpTypeOK
<1>4. CASE OnRead(c)
  BY <1>0, <1>4 DEF OnRead, Same, HttpTypeOK
<1>5. CASE OnEndOfStream(c)
  BY <1>0, <1>5 DEF OnEndOfStream, CloseConnection, ClosePlain, CloseTLS, Same,
                    HttpTypeOK
<1>6. CASE HandleRequest(c)
  <2>1. phase'[d] = phase[d]
    BY <1>0, <1>6 DEF HandleRequest
  <2>2. handled'[d] = handled[d] /\ response'[d] = response[d]
    BY <1>6 DEF HandleRequest, HttpTypeOK
  <2> QED
    BY <1>6, <2>1, <2>2 DEF HandleRequest, Same
<1>7. CASE OnWrite(c)
  <2>1. phase'[d] = phase[d]
    BY <1>0, <1>7 DEF OnWrite, DoRead, CloseConnection, ClosePlain, CloseTLS
  <2>2. received'[d] = received[d] /\ response'[d] = response[d]
    BY <1>7 DEF OnWrite, HttpTypeOK
  <2> QED
    BY <1>7, <2>1, <2>2 DEF OnWrite, Same
<1>8. CASE OnShutdown(c) \/ OperationFails(c)
  BY <1>0, <1>8 DEF OnShutdown, OperationFails, Same, HttpTypeOK
<1> QED
  BY <1>1, <1>2, <1>3, <1>4, <1>5, <1>6, <1>7, <1>8
     DEF ClientStep, Session, Ready

(* A request was read.                                                     *)
LEMMA ReadKeeps ==
    ASSUME HttpTypeOK, NEW c \in Connections, SessionInv(c), OnRead(c)
    PROVE  SessionInv(c)'
<1> USE DEF clientVars
<1>0. /\ phase \in [Connections -> Phases] /\ phase[c] = "read"
      /\ UNCHANGED <<client, requests, handled, received, response>>
      /\ Len(handled[c]) \in Nat /\ Len(requests[c]) \in Nat
      /\ next[c] \in Nat
  BY Types DEF OnRead
<1>1. CASE To(c, "ended") /\ UNCHANGED next
  <2>1. phase'[c] = "ended"
    BY <1>0, <1>1 DEF To
  <2> QED
    BY <1>0, <1>1, <2>1, QuietKeeps DEF Closing
<1>2. CASE To(c, "handling") /\ next' = [next EXCEPT ![c] = @ + 1]
  <2>1. phase'[c] = "handling"
    BY <1>0, <1>2 DEF To
  <2>2. next'[c] = next[c] + 1
    BY <1>2, Types
  <2>3. next[c] < Len(requests[c])
    BY DEF OnRead, Unread
  <2>4. next[c] = Len(handled[c])
    BY <1>0 DEF SessionInv, InStep
  <2>5. InStep(c)'
    <3>1. \A i \in 1..Len(handled[c]) : handled[c][i].nr = i
      BY DEF SessionInv, InStep
    <3> QED
      BY <1>0, <2>1, <2>2, <2>3, <2>4, <3>1 DEF InStep
  <2>6. SuccessIsLast(c)'
    BY <1>0, <2>1 DEF SessionInv, SuccessIsLast, Closing
  <2>7. WritesLast(c)'
    BY <2>1 DEF WritesLast
  <2>8. Delivered(c)'
    BY <1>0, <2>1 DEF SessionInv, Delivered, Closing
  <2> QED
    BY <2>5, <2>6, <2>7, <2>8 DEF SessionInv
<1> QED
  BY <1>1, <1>2 DEF OnRead

(* handleRequest returns: the next answer.                                 *)
LEMMA HandleKeeps ==
    ASSUME HttpInv, NEW c \in Connections, HandleRequest(c)
    PROVE  SessionInv(c)'
<1> USE DEF clientVars
<1>0. /\ HttpTypeOK /\ SessionInv(c) /\ phase[c] = "handling"
      /\ UNCHANGED <<client, requests, next, received>>
  BY DEF HttpInv, HandleRequest
<1>1. PICK status \in StatusesFor(requests[c][next[c]]) :
        /\ handled' = [handled EXCEPT
              ![c] = Append(@, [nr |-> next[c], status |-> status])]
        /\ response' = [response EXCEPT
              ![c] = [nr |-> next[c], status |-> status,
                      keepAlive |-> KeepAlive(status, requests[c][next[c]])]]
  BY DEF HandleRequest
<1> DEFINE a == [nr |-> next[c], status |-> status]
<1>2. a \in Answer
  BY <1>0, <1>1, AnswerType
<1>3. /\ handled'[c] = Append(handled[c], a)
      /\ response'[c].nr = a.nr /\ response'[c].status = a.status
      /\ response'[c].keepAlive => a.status # 200
  <2>1. handled'[c] = Append(handled[c], a)
    BY <1>0, <1>1 DEF HttpTypeOK
  <2>2. response'[c] =
            [nr |-> next[c], status |-> status,
             keepAlive |-> KeepAlive(status, requests[c][next[c]])]
    BY <1>0, <1>1 DEF HttpTypeOK
  <2>3. KeepAlive(status, requests[c][next[c]]) => status # 200
    BY DEF KeepAlive
  <2> QED
    BY <2>1, <2>2, <2>3
<1>4. phase'[c] = "write"
  BY <1>0 DEF HandleRequest, To, HttpTypeOK
<1>5. /\ handled[c] \in Seq(Answer) /\ Len(handled[c]) \in Nat
      /\ Len(received[c]) \in Nat /\ next[c] \in Nat
  BY <1>0, Types
<1>6. a.nr = next[c]
  OBVIOUS
<1> HIDE DEF a
<1>7. /\ Len(handled'[c]) = Len(handled[c]) + 1
      /\ \A i \in 1..Len(handled[c]) : handled'[c][i] = handled[c][i]
      /\ handled'[c][Len(handled[c]) + 1] = a
  BY <1>2, <1>3, <1>5
<1>8. next[c] = Len(handled[c]) + 1
  BY <1>0 DEF SessionInv, InStep
<1>9. InStep(c)'
  <2>1. \A i \in 1..Len(handled[c]) : handled[c][i].nr = i
    BY <1>0 DEF SessionInv, InStep
  <2>2. next[c] <= Len(requests[c])
    BY <1>0 DEF SessionInv, InStep
  <2>3. \A i \in 1..Len(handled'[c]) : handled'[c][i].nr = i
    BY <1>5, <1>6, <1>7, <1>8, <2>1
  <2> QED
    BY <1>0, <1>4, <1>5, <1>7, <1>8, <2>2, <2>3 DEF InStep
<1>10. SuccessIsLast(c)'
  <2>1. \A i \in 1..Len(handled[c]) : handled[c][i].status # 200
    BY <1>0 DEF SessionInv, SuccessIsLast, Closing
  <2>2. \A i \in 1..Len(handled'[c]) : handled'[c][i].status = 200 =>
            i = Len(handled'[c])
    BY <1>5, <1>7, <2>1
  <2> QED
    BY <1>4, <2>2 DEF SuccessIsLast, Closing
<1>11. WritesLast(c)'
  <2>1. a = [nr |-> a.nr, status |-> a.status]
    BY <1>2 DEF Answer
  <2>2. handled'[c] # <<>>
    BY <1>2, <1>3, <1>5
  <2>3. handled'[c][Len(handled'[c])] =
            [nr |-> response'[c].nr, status |-> response'[c].status]
    BY <1>3, <1>7, <2>1
  <2> QED
    BY <1>3, <2>2, <2>3 DEF WritesLast
<1>12. Delivered(c)'
  <2>1. SUFFICES ASSUME client[c] # "reset"
                 PROVE  /\ Len(received[c]) <= Len(handled'[c])
                        /\ Len(handled'[c]) = Len(received[c]) + 1
                        /\ \A i \in 1..Len(received[c]) :
                                received[c][i] = handled'[c][i]
    BY <1>0, <1>4, <1>5 DEF Delivered, Closing
  <2>2. /\ Len(handled[c]) = Len(received[c])
        /\ \A i \in 1..Len(received[c]) : received[c][i] = handled[c][i]
    BY <1>0, <2>1 DEF SessionInv, Delivered, Closing
  <2> QED
    BY <1>5, <1>7, <2>2
<1> QED
  BY <1>9, <1>10, <1>11, <1>12 DEF SessionInv

(* A response was written: the client has got it, if it is still there.    *)
LEMMA WriteKeeps ==
    ASSUME HttpTypeOK, NEW c \in Connections, SessionInv(c), OnWrite(c)
    PROVE  SessionInv(c)'
<1> USE DEF clientVars
<1>0. /\ phase \in [Connections -> Phases] /\ phase[c] = "write"
      /\ UNCHANGED <<client, requests, next, handled>>
  BY Types DEF OnWrite
<1> DEFINE a == [nr |-> response[c].nr, status |-> response[c].status]
<1>1. /\ handled[c] # <<>> /\ handled[c][Len(handled[c])] = a
      /\ response[c].keepAlive => response[c].status # 200
  BY <1>0 DEF SessionInv, WritesLast
<1>2. /\ handled[c] \in Seq(Answer) /\ Len(handled[c]) \in Nat
      /\ received[c] \in Seq(Answer) /\ Len(received[c]) \in Nat
  BY Types
<1>3. Len(handled[c]) \in 1..Len(handled[c]) /\ a \in Answer
  BY <1>1, <1>2
<1> HIDE DEF a
<1>4. phase'[c] \notin {"write", "handling"} /\ SuccessIsLast(c)'
  <2>1. CASE response[c].keepAlive
    <3>1. phase'[c] = "read"
      BY <1>0, <2>1 DEF OnWrite, DoRead, To
    <3>2. a.status # 200
      BY <1>1, <2>1 DEF a
    <3>3. \A i \in 1..Len(handled[c]) : handled[c][i].status # 200
      BY <1>1, <3>2 DEF SessionInv, SuccessIsLast
    <3> QED
      BY <1>0, <3>1, <3>3 DEF SuccessIsLast
  <2>2. CASE ~response[c].keepAlive
    <3>1. phase'[c] \in {"shutdown", "ended"}
      BY <1>0, <2>2 DEF OnWrite, CloseConnection, ClosePlain, CloseTLS, To
    <3> QED
      BY <1>0, <3>1 DEF SessionInv, SuccessIsLast, Closing
  <2> QED
    BY <2>1, <2>2
<1>5. InStep(c)'
  BY <1>0, <1>4 DEF SessionInv, InStep
<1>6. WritesLast(c)'
  BY <1>4 DEF WritesLast
<1>7. Delivered(c)'
  <2>1. SUFFICES ASSUME client[c] # "reset"
                 PROVE  /\ Len(received'[c]) = Len(handled[c])
                        /\ \A i \in 1..Len(received'[c]) :
                                received'[c][i] = handled[c][i]
    BY <1>0, <1>2, <1>4 DEF Delivered
  <2>2. /\ Len(handled[c]) = Len(received[c]) + 1
        /\ \A i \in 1..Len(received[c]) : received[c][i] = handled[c][i]
    BY <1>0, <2>1 DEF SessionInv, Delivered
  <2>3. received'[c] = Append(received[c], a)
    BY <2>1 DEF OnWrite, HttpTypeOK, a
  <2>4. /\ Len(received'[c]) = Len(received[c]) + 1
        /\ \A i \in 1..Len(received[c]) : received'[c][i] = received[c][i]
        /\ received'[c][Len(received[c]) + 1] = a
    BY <1>2, <1>3, <2>3
  <2> QED
    BY <1>1, <1>2, <2>2, <2>4
<1> QED
  BY <1>4, <1>5, <1>6, <1>7 DEF SessionInv

LEMMA StepSession ==
    ASSUME HttpInv, [HttpNext]_vars, NEW d \in Connections
    PROVE  SessionInv(d)'
<1> USE DEF clientVars
<1>0. /\ HttpTypeOK /\ SessionInv(d) /\ phase \in [Connections -> Phases]
      /\ Len(handled[d]) \in Nat /\ Len(received[d]) \in Nat
      /\ Len(requests[d]) \in Nat /\ next[d] \in Nat
  BY Types DEF HttpInv
<1>1. ASSUME Connect(d) \/ OnAccept(d) PROVE SessionInv(d)'
  <2>1. /\ UNCHANGED <<client, requests, next, handled, received>>
        /\ phase[d] \in {"none", "connecting"}
    BY <1>1 DEF Connect, OnAccept, Accept, AcceptError
  <2>2. phase'[d] \in {"connecting", "detect", "ended"}
    BY <1>0, <1>1 DEF Connect, OnAccept, Accept, AcceptError, To
  <2> QED
    BY <1>0, <2>1, <2>2, QuietKeeps DEF Closing
<1>2. ASSUME NEW r \in Requests, Send(d, r) PROVE SessionInv(d)'
  <2>1. /\ UNCHANGED <<phase, client, next, response, handled, received>>
        /\ requests'[d] = Append(requests[d], r)
    BY <1>0, <1>2 DEF Send, HttpTypeOK
  <2>2. Len(requests'[d]) = Len(requests[d]) + 1
    BY <1>0, <2>1, Types
  <2>3. InStep(d)'
    <3>1. InStep(d)
      BY <1>0 DEF SessionInv
    <3>2. next[d] <= Len(requests[d]) /\ next'[d] = next[d]
      BY <2>1, <3>1 DEF InStep
    <3>3. next'[d] <= Len(requests'[d])
      BY <1>0, <2>2, <3>2
    <3> QED
      BY <2>1, <3>1, <3>3 DEF InStep
  <2>4. SuccessIsLast(d)'
    BY <1>0, <2>1 DEF SessionInv, SuccessIsLast
  <2>5. WritesLast(d)'
    BY <1>0, <2>1 DEF SessionInv, WritesLast
  <2>6. Delivered(d)'
    BY <1>0, <2>1 DEF SessionInv, Delivered
  <2> QED
    BY <2>3, <2>4, <2>5, <2>6 DEF SessionInv
<1>3. ASSUME Leave(d) \/ Expire(d) PROVE SessionInv(d)'
  <2>1. /\ UNCHANGED <<phase, requests, next, response, handled, received>>
        /\ client'[d] # "reset" => client[d] # "reset"
    BY <1>3 DEF Leave, Expire
  <2>2. InStep(d)'
    BY <1>0, <2>1 DEF SessionInv, InStep
  <2>3. SuccessIsLast(d)'
    BY <1>0, <2>1 DEF SessionInv, SuccessIsLast
  <2>4. WritesLast(d)'
    BY <1>0, <2>1 DEF SessionInv, WritesLast
  <2>5. Delivered(d)'
    BY <1>0, <2>1 DEF SessionInv, Delivered
  <2> QED
    BY <2>2, <2>3, <2>4, <2>5 DEF SessionInv
<1>4. ASSUME OnDetect(d) \/ OnHandshake(d) \/ OnEndOfStream(d) \/ OnShutdown(d)
      PROVE  SessionInv(d)'
  <2>1. /\ UNCHANGED <<client, requests, next, handled, received>>
        /\ phase[d] \in {"detect", "handshake", "read", "shutdown"}
    BY <1>4 DEF OnDetect, OnHandshake, OnEndOfStream, OnShutdown
  <2>2. CASE phase[d] # "shutdown"
    <3>1. phase'[d] \in {"handshake", "read", "shutdown", "ended"}
      BY <1>0, <1>4, <2>2
         DEF OnDetect, OnHandshake, OnEndOfStream, OnShutdown, RunPlain, RunTLS,
             DoRead, CloseConnection, ClosePlain, CloseTLS, To
    <3> QED
      BY <1>0, <2>1, <2>2, <3>1, QuietKeeps DEF Closing
  <2>3. CASE phase[d] = "shutdown"
    <3>1. phase'[d] = "ended"
      BY <1>0, <1>4, <2>3 DEF OnDetect, OnHandshake, OnEndOfStream, OnShutdown, To
    <3> QED
      BY <1>0, <2>1, <2>3, <3>1, QuietKeeps DEF Closing
  <2> QED
    BY <2>2, <2>3
<1>5. ASSUME OnRead(d) PROVE SessionInv(d)'
  BY <1>0, <1>5, ReadKeeps
<1>6. ASSUME HandleRequest(d) PROVE SessionInv(d)'
  BY <1>6, HandleKeeps
<1>7. ASSUME OnWrite(d) PROVE SessionInv(d)'
  BY <1>0, <1>7, WriteKeeps
<1>8. ASSUME OperationFails(d) PROVE SessionInv(d)'
  <2>1. /\ UNCHANGED <<client, requests, next, handled, received>>
        /\ phase[d] # "handling" /\ phase'[d] = "ended"
    BY <1>0, <1>8 DEF OperationFails, To, Waiting
  <2> QED
    BY <1>0, <2>1, QuietKeeps DEF Closing
<1>9. CASE UNCHANGED vars
  BY <1>0, <1>9, SameKeeps DEF vars, Same
<1>10. ASSUME NEW c \in Connections, c # d,
              ClientStep(c) \/ OnAccept(c) \/ Session(c) \/ Expire(c)
       PROVE  SessionInv(d)'
  BY <1>0, <1>10, OthersSame, SameKeeps
<1>11. ASSUME ClientStep(d) \/ OnAccept(d) \/ Session(d) \/ Expire(d)
       PROVE  SessionInv(d)'
  BY <1>1, <1>2, <1>3, <1>4, <1>5, <1>6, <1>7, <1>8, <1>11
     DEF ClientStep, Session, Ready
<1> QED
  BY <1>9, <1>10, <1>11 DEF HttpNext

(* Every state of every behaviour satisfies HttpInv, with or without the   *)
(* fairness.                                                               *)
LEMMA HttpInvariance == HttpInit /\ [][HttpNext]_vars => []HttpInv
<1>1. HttpInv /\ [HttpNext]_vars => HttpInv'
  BY StepType, StepSession DEF HttpInv
<1> QED
  BY InitHttp, <1>1, PTL

-----------------------------------------------------------------------------
(***************************************************************************)
(* What follows from HttpInv.                                              *)
(***************************************************************************)
(* Every variable has values of its kind (HttpTypeOK).                     *)
THEOREM HttpTypeCorrect == HttpSpec => []HttpTypeOK
BY HttpInvariance, PTL DEF HttpSpec, HttpInv

(* What the invariant says of what clients observe.                        *)
LEMMA Observed == HttpInv => RequestsInOrder /\ NothingAfterSuccess /\ OnlyLastInDoubt
BY DEF HttpInv, SessionInv, InStep, SuccessIsLast, Delivered, RequestsInOrder,
       NothingAfterSuccess, OnlyLastInDoubt

(* On a connection the requests are dealt with in the order in which they  *)
(* were sent, none twice and none left out (RequestsInOrder).              *)
THEOREM RequestsInOrderHolds == HttpSpec => []RequestsInOrder
BY HttpInvariance, Observed, PTL DEF HttpSpec

(* Nothing that a client sent behind a request that succeeded has an       *)
(* effect (NothingAfterSuccess).                                           *)
THEOREM NothingAfterSuccessHolds == HttpSpec => []NothingAfterSuccess
BY HttpInvariance, Observed, PTL DEF HttpSpec

(* A client that has not gone away has all answers, in order, but for the  *)
(* last (OnlyLastInDoubt).                                                 *)
THEOREM OnlyLastInDoubtHolds == HttpSpec => []OnlyLastInDoubt
BY HttpInvariance, Observed, PTL DEF HttpSpec
==================================================================================
