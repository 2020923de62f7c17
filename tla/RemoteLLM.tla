------------------------------ MODULE RemoteLLM ------------------------------
(***************************************************************************)
(* llm_remote/src/RemoteLLM.cpp and examples/llm_nodes/llm_server.cpp: a   *)
(* generate makes a connection for its one request; a server process       *)
(* listens, accepts one connection, answers it and exits.  Connections are *)
(* channels of messages, which TcpConnection shows of TcpByteTransport.    *)
(***************************************************************************)
EXTENDS Naturals, Sequences

CONSTANTS
    Client,     \* RemoteLLM objects, each used by one thread
    Server,     \* server processes on the port, run again and again
    Foreign,    \* clients and servers that are other programs
    Strange,    \* what those may also send, and no program of the repository takes
    Results,    \* the statuses MockLLM returns: Ok, or InvalidPrompt for an empty prompt
    Backlog,    \* connections a listening socket holds for accept
    MaxCalls,   \* bound on the requests of each client
    None

Request == UNION {{c} \X (1 .. MaxCalls[c]) : c \in Client}    \* each client's n-th

RequestMessage(r) == [name |-> "LLM_REQUEST", decodes |-> TRUE, of |-> r]

(* worked: whether a server of the repository generated it *)
ResponseMessage(r, status, worked) ==
    [name |-> "LLM_RESPONSE", decodes |-> TRUE, of |-> r, status |-> status, worked |-> worked]

NoFrame == [name |-> "", decodes |-> FALSE]    \* bytes in which Frame.cpp finds no frame

Genuine(r) == {ResponseMessage(r, status, TRUE) : status \in Results}

(* Answers that other programs make up, to any request. *)
Forged == {ResponseMessage(r, status, FALSE) : r \in Request, status \in Results}

Message == {RequestMessage(r) : r \in Request} \cup Strange \cup Forged
               \cup UNION {Genuine(r) : r \in Request}

ASSUME RemoteAssumption ==
    /\ Backlog \in Nat /\ MaxCalls \in [Client -> Nat]
    /\ Results \subseteq {"Ok", "InvalidPrompt"}
    /\ None \notin Request /\ None \notin Message
    /\ \A m \in Strange : m.name # "LLM_REQUEST" \/ ~m.decodes
    /\ \A m \in Strange : m.name # "LLM_RESPONSE" \/ ~m.decodes

VARIABLES
    call,       \* where a client is in generate
    counter,    \* request_counter_
    result,     \* what generate last returned, and to which request
    server,     \* where a process is in main
    queue,      \* connections waiting for accept at the process that listens
    accepted,   \* the connection each process accepted
    open,       \* the connections whose server side is open and not reset
    inbox,      \* the message to the server on each connection
    outbox,     \* the message to the client on each connection
    done,       \* history: the requests MockLLM generated for
    outcome     \* history: how each request ended

vars == <<call, counter, result, server, queue, accepted, open, inbox, outbox, done, outcome>>

Status == {"Ok", "Timeout", "Cancelled", "InvalidPrompt", "BackendError", "throws"}

TypeOK ==
    /\ call \in [Client -> {"idle", "connected", "waiting"}]
    /\ counter \in [Client -> Nat]
    /\ result \in [Client -> [status : Status, of : Request \cup {None}]]
    /\ server \in [Server -> {"down", "listening", "receiving", "working", "answering"}]
    /\ queue \in Seq(Request)
    /\ accepted \in [Server -> Request \cup {None}]
    /\ \A s \in Server : accepted[s] = None <=> server[s] \in {"down", "listening"}
    /\ open \in SUBSET Request
    /\ inbox \in [Request -> Message \cup {None}]
    /\ outbox \in [Request -> Message \cup {None}]
    /\ done \in SUBSET Request
    /\ outcome \in [Request -> {"unmade", "made", "answered", "misled", "refused", "failed"}]

Init ==
    /\ call = [c \in Client |-> "idle"]
    /\ counter = [c \in Client |-> 0]
    /\ result = [c \in Client |-> [status |-> "Ok", of |-> None]]
    /\ server = [s \in Server |-> "down"]
    /\ queue = <<>>
    /\ accepted = [s \in Server |-> None]
    /\ open = {}
    /\ inbox = [r \in Request |-> None]
    /\ outbox = [r \in Request |-> None]
    /\ done = {}
    /\ outcome = [r \in Request |-> "unmade"]

-----------------------------------------------------------------------------
(* RemoteLLM::generate *)

Current(c) == <<c, counter[c]>>

Listening == {s \in Server : server[s] = "listening"}

Queued == {queue[i] : i \in DOMAIN queue}

(* generate returns, or throws, and the connection is closed. *)
Return(c, status, of, how) ==
    /\ call' = [call EXCEPT ![c] = "idle"]
    /\ result' = [result EXCEPT ![c] = [status |-> status, of |-> of]]
    /\ outcome' = [outcome EXCEPT ![Current(c)] = how]
    /\ UNCHANGED <<counter, server, queue, accepted, open, done>>

(* connect succeeds as soon as the socket listens; then the request is made. *)
Connect(c) ==
    /\ call[c] = "idle" /\ counter[c] < MaxCalls[c]
    /\ Listening # {} /\ Len(queue) < Backlog
    /\ LET r == <<c, counter[c] + 1>>
       IN  /\ queue' = Append(queue, r)
           /\ open' = open \cup {r}
           /\ outcome' = [outcome EXCEPT ![r] = "made"]
    /\ counter' = [counter EXCEPT ![c] = @ + 1]
    /\ call' = [call EXCEPT ![c] = "connected"]
    /\ UNCHANGED <<result, server, accepted, inbox, outbox, done>>

(* Nobody listens, the queue is full, or the network fails. *)
ConnectFails(c) ==
    /\ call[c] = "idle"
    /\ result' = [result EXCEPT ![c] = [status |-> "BackendError", of |-> None]]
    /\ UNCHANGED <<call, counter, server, queue, accepted, open, inbox, outbox, done, outcome>>

(* The socket takes the request; after a reset that says nothing. *)
Send(c) ==
    /\ call[c] = "connected"
    /\ call' = [call EXCEPT ![c] = "waiting"]
    /\ \E m \in {RequestMessage(Current(c))} \cup (IF c \in Foreign THEN Strange ELSE {}) :
           inbox' = IF Current(c) \in open THEN [inbox EXCEPT ![Current(c)] = m] ELSE inbox
    /\ UNCHANGED <<counter, result, server, queue, accepted, open, outbox, done, outcome>>

(* Mutant of SendFails: false is returned although the whole frame was taken. *)
SendFailsLate(c) ==
    /\ call[c] = "connected"
    /\ inbox' = IF Current(c) \in open /\ c \notin Foreign
                THEN [inbox EXCEPT ![Current(c)] = RequestMessage(Current(c))] ELSE inbox
    /\ Return(c, "BackendError", None, "refused")
    /\ UNCHANGED outbox

SendFails(c) ==
    /\ call[c] = "connected" /\ Current(c) \notin open
    /\ Return(c, "BackendError", None, "refused")
    /\ UNCHANGED <<inbox, outbox>>

(* Mutant of Source: the connection is kept from call to call. *)
SourceKept(c) ==
    LET earlier == {n \in 1 .. counter[c] : outbox[<<c, n>>] # None}
    IN  IF earlier = {} THEN Current(c)
        ELSE <<c, CHOOSE n \in earlier : \A k \in earlier : n <= k>>

(* The connection whose messages a client receives: that of this call. *)
Source(c) == Current(c)

Receive(c) ==
    /\ call[c] = "waiting" /\ outbox[Source(c)] \notin {None, NoFrame}
    /\ LET m == outbox[Source(c)]
       IN  CASE m.name # "LLM_RESPONSE" -> Return(c, "BackendError", None, "failed")
             [] m.name = "LLM_RESPONSE" /\ ~m.decodes -> Return(c, "throws", None, "failed")
             [] OTHER -> Return(c, m.status, m.of, IF m.worked THEN "answered" ELSE "misled")
    /\ outbox' = [outbox EXCEPT ![Source(c)] = None]
    /\ UNCHANGED inbox

ReceiveFails(c) ==
    /\ call[c] = "waiting"
    /\ outbox[Source(c)] = NoFrame \/ (outbox[Source(c)] = None /\ Current(c) \notin open)
    /\ outbox' = [outbox EXCEPT ![Source(c)] = None]
    /\ Return(c, "Timeout", None, "failed")
    /\ UNCHANGED inbox

-----------------------------------------------------------------------------
(* llm_server *)

ClientGone(r) == call[r[1]] = "idle" \/ counter[r[1]] # r[2]

(* Mutant of Exit: the socket stays open. *)
ExitOpen(s) ==
    /\ server' = [server EXCEPT ![s] = "down"]
    /\ queue' = IF server[s] = "listening" THEN <<>> ELSE queue
    /\ UNCHANGED <<accepted, open, inbox, call, counter, result, outcome>>

(* The process ends, and the system closes its sockets. *)
Exit(s) ==
    LET held == IF server[s] = "listening" THEN Queued ELSE {accepted[s]}
    IN  /\ server' = [server EXCEPT ![s] = "down"]
        /\ accepted' = [accepted EXCEPT ![s] = None]
        /\ open' = open \ held
        /\ inbox' = [r \in Request |-> IF r \in held THEN None ELSE inbox[r]]
        /\ queue' = IF server[s] = "listening" THEN <<>> ELSE queue
        /\ UNCHANGED <<call, counter, result, outcome>>

(* Only one socket can be bound to the port; a second process exits. *)
Listen(s) ==
    /\ server[s] = "down" /\ Listening = {}
    /\ server' = [server EXCEPT ![s] = "listening"]
    /\ UNCHANGED <<call, counter, result, queue, accepted, open, inbox, outbox, done, outcome>>

(* Mutant of Accept: the socket is left to those who are waiting. *)
AcceptOnly(s) ==
    /\ server[s] = "listening" /\ queue # <<>>
    /\ server' = [server EXCEPT ![s] = "receiving"]
    /\ accepted' = [accepted EXCEPT ![s] = Head(queue)]
    /\ queue' = <<>>
    /\ UNCHANGED <<open, call, counter, result, inbox, outbox, done, outcome>>

(* listen_once closes the socket it listened on: the others are reset. *)
Accept(s) ==
    /\ server[s] = "listening" /\ queue # <<>>
    /\ server' = [server EXCEPT ![s] = "receiving"]
    /\ accepted' = [accepted EXCEPT ![s] = Head(queue)]
    /\ LET others == Queued \ {Head(queue)}
       IN  /\ open' = open \ others
           /\ inbox' = [r \in Request |-> IF r \in others THEN None ELSE inbox[r]]
    /\ queue' = <<>>
    /\ UNCHANGED <<call, counter, result, outbox, done, outcome>>

(* Another event ends main with 1, an undecodable request with an exception. *)
ReceiveRequest(s) ==
    /\ server[s] = "receiving" /\ inbox[accepted[s]] # None
    /\ LET m == inbox[accepted[s]]
       IN  IF m.name = "LLM_REQUEST" /\ m.decodes
           THEN /\ server' = [server EXCEPT ![s] = "working"]
                /\ inbox' = [inbox EXCEPT ![accepted[s]] = None]
                /\ UNCHANGED <<accepted, open, call, counter, result, queue, outcome>>
           ELSE Exit(s)
    /\ UNCHANGED <<outbox, done>>

ReceiveRequestFails(s) ==
    /\ server[s] = "receiving" /\ inbox[accepted[s]] = None
    /\ accepted[s] \notin open \/ ClientGone(accepted[s])
    /\ Exit(s)
    /\ UNCHANGED <<outbox, done>>

Generate(s) ==
    /\ server[s] = "working"
    /\ server' = [server EXCEPT ![s] = "answering"]
    /\ done' = done \cup {accepted[s]}
    /\ UNCHANGED <<call, counter, result, queue, accepted, open, inbox, outbox, outcome>>

(* After a reset the answer is lost.  Of what a connection brings, a client *)
(* takes only the first message.                                           *)
Answer(s) ==
    /\ server[s] = "answering"
    /\ LET r == accepted[s]
       IN  \E m \in Genuine(r) :
               outbox' = IF r \in open /\ outbox[r] = None
                         THEN [outbox EXCEPT ![r] = m] ELSE outbox
    /\ Exit(s)
    /\ UNCHANGED done

-----------------------------------------------------------------------------
(* A server of another program may send anything, also the answer to a     *)
(* request that is not the one it accepted: nobody compares request_id.    *)
(* What other programs answer each other is left out.                      *)
(* A process may be killed, a connection reset, with what was on its way.  *)

ForeignAnswer(s) ==
    /\ s \in Foreign /\ server[s] \in {"receiving", "working"} /\ accepted[s] \in open
    /\ accepted[s][1] \notin Foreign /\ ~ClientGone(accepted[s]) /\ outbox[accepted[s]] = None
    /\ \E m \in Strange \cup Forged : outbox' = [outbox EXCEPT ![accepted[s]] = m]
    /\ UNCHANGED <<call, counter, result, server, queue, accepted, open, inbox, done, outcome>>

Crash(s) == server[s] # "down" /\ Exit(s) /\ UNCHANGED <<outbox, done>>

Reset(r) ==
    /\ r \in open \/ outbox[r] # None
    /\ open' = open \ {r}
    /\ \/ UNCHANGED <<inbox, outbox>>
       \/ /\ inbox' = [inbox EXCEPT ![r] = None]
          /\ outbox' = [outbox EXCEPT ![r] = None]
    /\ UNCHANGED <<call, counter, result, server, queue, accepted, done, outcome>>

Next ==
    \/ \E c \in Client : \/ Connect(c) \/ ConnectFails(c) \/ Send(c) \/ SendFails(c)
                         \/ Receive(c) \/ ReceiveFails(c)
    \/ \E s \in Server : \/ Listen(s) \/ Accept(s) \/ ReceiveRequest(s) \/ ReceiveRequestFails(s)
                         \/ Generate(s) \/ Answer(s) \/ ForeignAnswer(s) \/ Crash(s)
    \/ \E r \in Request : Reset(r)

Spec == Init /\ [][Next]_vars

(* The programs of the repository go on when they can.  Nobody has to call *)
(* generate or to start a server, and other programs may hang.             *)
Fairness ==
    /\ \A c \in Client \ Foreign :
           WF_vars(Send(c) \/ SendFails(c)) /\ WF_vars(Receive(c) \/ ReceiveFails(c))
    /\ \A s \in Server \ Foreign :
           /\ WF_vars(Accept(s))
           /\ WF_vars(ReceiveRequest(s) \/ ReceiveRequestFails(s))
           /\ WF_vars(Generate(s)) /\ WF_vars(Answer(s))

FairSpec == Spec /\ Fairness

-----------------------------------------------------------------------------
Misled == {r \in Request : outcome[r] = "misled"}

(* What a server of the repository generated is returned to its own        *)
(* request only, though nobody compares request_id and clients number      *)
(* their requests alike: the connection of its own that each call has must *)
(* be enough, also when the answer comes after a call gave up.  The result *)
(* is the answer to another request only when the program accepting this   *)
(* call made it up (RemoteLLM.cpp:47-114).                                 *)
OwnAnswer == \A c \in Client : call[c] = "idle" =>
                 result[c].of \in {None, Current(c)} \/ Current(c) \in Misled

(* A request is worked on at most once, an answer follows its work, and    *)
(* one refused is never worked on, whoever crashed (RemoteLLM.cpp:74-114,  *)
(* llm_server.cpp:15-86).                                                  *)
Calls == INSTANCE RemoteCalls
AtMostOnce == Calls!Spec

(* generate returns, with an answer or without, whatever crashes: there is *)
(* no timeout, so it can wait for ever for a server that hangs, and for    *)
(* nothing else (RemoteLLM.cpp:81-88).                                     *)
GenerateEnds ==
    \A c \in Client \ Foreign :
        call[c] # "idle" ~> \/ call[c] = "idle"
                            \/ \E s \in Server \cap Foreign :
                                   \/ accepted[s] = Current(c)
                                   \/ server[s] = "listening" /\ Current(c) \in Queued
=============================================================================
