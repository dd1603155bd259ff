------------------------------ MODULE HttpService ------------------------------
(***************************************************************************)
(* The listener (src/listener.cpp) and the HTTP sessions (src/server.hpp). *)
(*                                                                         *)
(* A session is a chain of asynchronous operations on one connection:      *)
(* detect TLS, shake hands, read, write, shut down.  Each operation holds  *)
(* the only reference to its session, so a handler that starts no further  *)
(* operation ends the session and closes the socket.  The request handler  *)
(* is called synchronously and occupies a thread of the I/O context; every *)
(* other handler is one step of a free thread.  A stream has one deadline, *)
(* set by expires_after and in force until it is set again.                *)
(***************************************************************************)
EXTENDS Naturals, Sequences, FiniteSets

CONSTANTS
    Connections,    \* connections that clients make, each once
    Requests,       \* requests a client may send
    Outcomes,       \* how the callback may end
    NumThreads,     \* Beast.numberOfThreads
    MaxSessions,    \* descriptors the process has for connections
    MaxRequests     \* bound: requests on each connection

Request == [verb : {"options", "unknown", "call", "malformed"}, keep : BOOLEAN]

Exceptions == {"InvalidPermissionException", "UnimplementedException",
               "BadRequestException", "invalid_argument", "exception"}
Statuses == {200, 204, 400, 403, 500, 501}

ASSUME RequestsAssumption == Requests \subseteq Request
ASSUME OutcomesAssumption == Outcomes \subseteq Exceptions \union {"payload"}
ASSUME LimitsAssumption ==
    /\ NumThreads \in Nat \ {0} /\ MaxSessions \in Nat \ {0}
    /\ MaxRequests \in [Connections -> Nat]

Waiting == {"detect", "handshake", "read", "write", "shutdown"}
Phases == Waiting \union {"none", "connecting", "handling", "ended"}
Answer == [nr : Nat, status : Statuses]

VARIABLES
    accepting,      \* an accept operation is pending
    phase,          \* operation each connection's session has pending
    tls,            \* the client began with a TLS hello
    timer,          \* deadline of the session's stream
    client,         \* what the client's end of the connection is
    requests,       \* all requests the client has sent
    next,           \* number of the request last read
    response,       \* the response being written
    handled,        \* history: requests the server has dealt with
    received        \* history: answers the client has got

clientVars == <<tls, client, requests>>
vars == <<accepting, phase, tls, timer, client, requests, next, response,
          handled, received>>

NoResponse == [nr |-> 0, status |-> 500, keepAlive |-> FALSE]
Handling == {c \in Connections : phase[c] = "handling"}
FreeThread == Cardinality(Handling) < NumThreads
Open == {c \in Connections : phase[c] \in Waiting \union {"handling"}}
Unread(c) == next[c] < Len(requests[c])

To(c, p) == phase' = [phase EXCEPT ![c] = p]
ExpiresAfter(c) == timer' = [timer EXCEPT ![c] = "armed"]

-----------------------------------------------------------------------------
(***************************************************************************)
(* Clients.                                                                *)
(***************************************************************************)
Connect(c) ==
    /\ phase[c] = "none"
    /\ To(c, "connecting")
    /\ \E hello \in BOOLEAN : tls' = [tls EXCEPT ![c] = hello]
    /\ UNCHANGED <<accepting, timer, client, requests, next, response, handled,
                   received>>

Send(c, r) ==
    /\ phase[c] \notin {"none", "ended"} /\ client[c] = "open"
    /\ Len(requests[c]) < MaxRequests[c]
    /\ requests' = [requests EXCEPT ![c] = Append(@, r)]
    /\ UNCHANGED <<accepting, phase, tls, timer, client, next, response, handled,
                   received>>

(* The client has no more to send, or is gone altogether.                  *)
Leave(c) ==
    /\ phase[c] \notin {"none", "ended"} /\ client[c] # "reset"
    /\ \E e \in {"eof", "reset"} \ {client[c]} :
        client' = [client EXCEPT ![c] = e]
    /\ UNCHANGED <<accepting, phase, tls, timer, requests, next, response,
                   handled, received>>

(* Time passes: the deadline of a stream is reached.                       *)
Expire(c) ==
    /\ timer[c] = "armed" /\ c \in Open
    /\ timer' = [timer EXCEPT ![c] = "expired"]
    /\ UNCHANGED <<accepting, phase, clientVars, next, response, handled,
                   received>>

-----------------------------------------------------------------------------
(***************************************************************************)
(* The listener.                                                           *)
(***************************************************************************)
(* A DetectSession is made and run.  The mutant sets no deadline.          *)
AcceptNoDeadline(c) ==
    /\ accepting /\ FreeThread
    /\ phase[c] = "connecting" /\ Cardinality(Open) < MaxSessions
    /\ To(c, "detect")
    /\ accepting' = TRUE
    /\ UNCHANGED <<timer, clientVars, next, response, handled, received>>
Accept(c) ==
    /\ accepting /\ FreeThread
    /\ phase[c] = "connecting" /\ Cardinality(Open) < MaxSessions
    /\ To(c, "detect") /\ ExpiresAfter(c)
    /\ accepting' = TRUE
    /\ UNCHANGED <<clientVars, next, response, handled, received>>

(* The connection was reset before it was accepted, or there are no more   *)
(* descriptors: the error is logged.  The mutant's listener gives up.      *)
AcceptErrorGivesUp(c) ==
    /\ accepting /\ FreeThread /\ phase[c] = "connecting"
    /\ \/ client[c] = "reset" /\ To(c, "ended")
       \/ Cardinality(Open) = MaxSessions /\ UNCHANGED phase
    /\ accepting' = FALSE
    /\ UNCHANGED <<timer, clientVars, next, response, handled, received>>
AcceptError(c) ==
    /\ accepting /\ FreeThread /\ phase[c] = "connecting"
    /\ \/ client[c] = "reset" /\ To(c, "ended")
       \/ Cardinality(Open) = MaxSessions /\ UNCHANGED phase
    /\ accepting' = TRUE
    /\ UNCHANGED <<timer, clientVars, next, response, handled, received>>

-----------------------------------------------------------------------------
(***************************************************************************)
(* The sessions.                                                           *)
(***************************************************************************)
DoRead(c) == To(c, "read") /\ ExpiresAfter(c)

(* The first bytes are there.  A new stream takes over the socket, and     *)
(* both kinds of session set its deadline when they run.                   *)
RunPlain(c) == DoRead(c)
RunTLS(c) == To(c, "handshake") /\ ExpiresAfter(c)

OnDetect(c) ==
    /\ FreeThread /\ phase[c] = "detect"
    /\ tls[c] \/ Unread(c)
    /\ IF tls[c] THEN RunTLS(c) ELSE RunPlain(c)
    /\ UNCHANGED <<accepting, clientVars, next, response, handled, received>>

OnHandshake(c) ==
    /\ FreeThread /\ phase[c] = "handshake"
    /\ \/ DoRead(c)
       \/ To(c, "ended") /\ UNCHANGED timer
    /\ UNCHANGED <<accepting, clientVars, next, response, handled, received>>

(* A whole request was read, or one the parser refuses.  The mutant's      *)
(* parser is not made anew and presents the same request again.            *)
OnReadAgain(c) ==
    /\ FreeThread /\ phase[c] = "read" /\ Unread(c)
    /\ IF requests[c][next[c] + 1].verb = "malformed"
       THEN To(c, "ended") /\ UNCHANGED next
       ELSE /\ To(c, "handling")
            /\ next' = [next EXCEPT ![c] = IF next[c] = 0 THEN 1 ELSE next[c]]
    /\ UNCHANGED <<accepting, timer, clientVars, response, handled, received>>
OnRead(c) ==
    /\ FreeThread /\ phase[c] = "read" /\ Unread(c)
    /\ IF requests[c][next[c] + 1].verb = "malformed"
       THEN To(c, "ended") /\ UNCHANGED next
       ELSE /\ To(c, "handling")
            /\ next' = [next EXCEPT ![c] = @ + 1]
    /\ UNCHANGED <<accepting, timer, clientVars, response, handled, received>>

(* A plain session shuts the socket down and ends; a TLS session says      *)
(* goodbye first, with a deadline of its own.                              *)
ClosePlain(c) == To(c, "ended") /\ UNCHANGED timer
CloseTLS(c) == To(c, "shutdown") /\ ExpiresAfter(c)
CloseConnection(c) == IF tls[c] THEN CloseTLS(c) ELSE ClosePlain(c)

OnEndOfStream(c) ==
    /\ FreeThread /\ phase[c] = "read"
    /\ client[c] = "eof" /\ ~Unread(c)
    /\ CloseConnection(c)
    /\ UNCHANGED <<accepting, clientVars, next, response, handled, received>>

(* What an exception is answered with.  BadRequestException is caught as   *)
(* the std::exception it derives from.  The mutant uses the handler for    *)
(* unauthorized requests, which is there and not called.                   *)
StatusOfUnauthorized ==
    [payload |-> 200, InvalidPermissionException |-> 401,
     UnimplementedException |-> 501, BadRequestException |-> 500,
     invalid_argument |-> 400, exception |-> 500]
StatusOf == [payload |-> 200, InvalidPermissionException |-> 403,
             UnimplementedException |-> 501, BadRequestException |-> 500,
             invalid_argument |-> 400, exception |-> 500]

StatusesFor(r) ==
    CASE r.verb = "options" -> {204}
      [] r.verb = "call" -> {StatusOf[o] : o \in Outcomes}
      [] OTHER -> {400}

KeepAliveAsAsked(status, r) == r.keep
KeepAlive(status, r) == status # 200 /\ r.keep

(* handleRequest returns, and its response is written.                     *)
HandleRequest(c) ==
    /\ phase[c] = "handling"
    /\ \E status \in StatusesFor(requests[c][next[c]]) :
        /\ handled' = [handled EXCEPT
                         ![c] = Append(@, [nr |-> next[c], status |-> status])]
        /\ response' = [response EXCEPT
                ![c] = [nr |-> next[c], status |-> status,
                        keepAlive |-> KeepAlive(status, requests[c][next[c]])]]
    /\ To(c, "write")
    /\ UNCHANGED <<accepting, timer, clientVars, next, received>>

OnWrite(c) ==
    /\ FreeThread /\ phase[c] = "write"
    /\ received' = IF client[c] = "reset" THEN received
                   ELSE [received EXCEPT
                           ![c] = Append(@, [nr |-> response[c].nr,
                                             status |-> response[c].status])]
    /\ response' = [response EXCEPT ![c] = NoResponse]
    /\ IF response[c].keepAlive THEN DoRead(c)
       ELSE CloseConnection(c)
    /\ UNCHANGED <<accepting, clientVars, next, handled>>

OnShutdown(c) ==
    /\ FreeThread /\ phase[c] = "shutdown"
    /\ To(c, "ended")
    /\ UNCHANGED <<accepting, timer, clientVars, next, response, handled,
                   received>>

(* The pending operation fails: its handler starts no other, and the       *)
(* session ends.  The mutant reads on after a write that failed.           *)
Broken(c) ==
    \/ timer[c] = "expired" \/ client[c] = "reset"
    \/ phase[c] \in {"detect", "handshake"} /\ client[c] = "eof" /\ ~Unread(c)

ReadsOn(c) ==
    /\ FreeThread /\ phase[c] \in Waiting /\ Broken(c)
    /\ To(c, IF phase[c] = "write" THEN "read" ELSE "ended")
    /\ response' = [response EXCEPT ![c] = NoResponse]
    /\ UNCHANGED <<accepting, timer, clientVars, next, handled, received>>
OperationFails(c) ==
    /\ FreeThread /\ phase[c] \in Waiting /\ Broken(c)
    /\ To(c, "ended")
    /\ response' = [response EXCEPT ![c] = NoResponse]
    /\ UNCHANGED <<accepting, timer, clientVars, next, handled, received>>

-----------------------------------------------------------------------------
HttpInit ==
    /\ accepting = TRUE
    /\ phase = [c \in Connections |-> "none"]
    /\ tls = [c \in Connections |-> FALSE]
    /\ timer = [c \in Connections |-> "never"]
    /\ client = [c \in Connections |-> "open"]
    /\ requests = [c \in Connections |-> <<>>]
    /\ next = [c \in Connections |-> 0]
    /\ response = [c \in Connections |-> NoResponse]
    /\ handled = [c \in Connections |-> <<>>]
    /\ received = [c \in Connections |-> <<>>]

ClientStep(c) == Connect(c) \/ Leave(c) \/ \E r \in Requests : Send(c, r)
OnAccept(c) == Accept(c) \/ AcceptError(c)

(* Steps that need nothing of the client, and those that may wait for it.  *)
Ready(c) ==
    \/ OnDetect(c) \/ OnRead(c) \/ OnEndOfStream(c) \/ HandleRequest(c)
    \/ OperationFails(c)
Session(c) == Ready(c) \/ OnHandshake(c) \/ OnWrite(c) \/ OnShutdown(c)

HttpNext ==
    \E c \in Connections :
        ClientStep(c) \/ OnAccept(c) \/ Session(c) \/ Expire(c)

(* Deadlines are reached and the callback returns.  Handlers that are      *)
(* ready queue for the threads of the I/O context and are run in turn, as  *)
(* are accepts, so that nobody is passed over for ever where others keep   *)
(* the threads busy.  No step of a client is fair.                         *)
HttpFairness ==
    /\ \A c \in Connections : SF_vars(Ready(c)) /\ WF_vars(Expire(c))
    /\ SF_vars(\E c \in Connections : Accept(c))

HttpSpec == HttpInit /\ [][HttpNext]_vars /\ HttpFairness

-----------------------------------------------------------------------------
(***************************************************************************)
(* Properties.                                                             *)
(***************************************************************************)
(* Every variable has values of its kind.                                  *)
HttpTypeOK ==
    /\ accepting \in BOOLEAN
    /\ phase \in [Connections -> Phases]
    /\ tls \in [Connections -> BOOLEAN]
    /\ timer \in [Connections -> {"never", "armed", "expired"}]
    /\ client \in [Connections -> {"open", "eof", "reset"}]
    /\ requests \in [Connections -> Seq(Requests)]
    /\ next \in [Connections -> Nat]
    /\ response \in [Connections ->
            [nr : Nat, status : Statuses, keepAlive : BOOLEAN]]
    /\ handled \in [Connections -> Seq(Answer)]
    /\ received \in [Connections -> Seq(Answer)]

(* On a connection the requests are dealt with in the order in which they  *)
(* were sent, none twice and none left out (sendResponse and onWrite start *)
(* the next read only when the answer is written), pipelined or not.       *)
RequestsInOrder ==
    \A c \in Connections : \A i \in 1..Len(handled[c]) : handled[c][i].nr = i

(* A client that has not gone away has the answers to all its requests     *)
(* that were dealt with, in their order, save perhaps to the last: if its  *)
(* connection ends without an answer, one review at most is in doubt.      *)
OnlyLastInDoubt ==
    \A c \in Connections : client[c] # "reset" =>
        /\ Len(handled[c]) <= Len(received[c]) + 1
        /\ \A i \in 1..Len(received[c]) : received[c][i] = handled[c][i]

(* After an answer with status 200 the connection is closed: requests      *)
(* that the client has sent behind it have no effect and may be repeated.  *)
NothingAfterSuccess ==
    \A c \in Connections : \A i \in 1..Len(handled[c]) :
        handled[c][i].status = 200 => i = Len(handled[c])

(* Each wait of a session is under a deadline, which is set again for the  *)
(* next request: a client can hold its connection for ever, but only by    *)
(* sending one request after the other.  If it sends no more, stalls in    *)
(* the middle or goes away, the session ends and its descriptor is free.   *)
(* (MaxRequests leaves out the clients who send for ever, as do these two  *)
(* properties.)                                                            *)
SendsForEver(c) == []<><<next'[c] > next[c]>>_vars

EverySessionEnds ==
    \A c \in Connections : []<>(c \notin Open) \/ SendsForEver(c)

(* A client that has connected is accepted, although accepts fail while    *)
(* the descriptors are used up or another client has gone, unless those    *)
(* who hold the descriptors send requests for ever.                        *)
EveryClientIsAccepted ==
    \A c \in Connections :
        \/ []<>(phase[c] # "connecting")
        \/ \E d \in Connections \ {c} : SendsForEver(d)
=============================================================================
