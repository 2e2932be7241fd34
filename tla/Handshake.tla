------------------------------ MODULE Handshake ------------------------------
(***************************************************************************)
(* The lifecycle of a ClientSession and a ServerSession that talk to each  *)
(* other (src/core/session.cpp): initialize() with its timeout and         *)
(* retries, the server's gate for incoming requests, the tracking of       *)
(* cancelled requests with the protected initialize id, and the close of   *)
(* the connection at any moment.                                           *)
(*                                                                         *)
(* Messages of the client are in flight until the server handles them: in  *)
(* order over a line transport (fifo), in any order over HTTP, where every *)
(* message is a POST of its own, send() returns only when its POST is      *)
(* over, and a POST may fail or be given up after the transport's 30       *)
(* seconds while the server still handles it.                              *)
(***************************************************************************)
EXTENDS Naturals, Sequences, SequencesExt, FiniteSets

CONSTANTS
    MaxAttempts,      \* bound on the calls of initialize()
    MaxRequests,      \* bound on the other requests of the client
    MaxLost,          \* bound on POSTs that fail or are given up
    MaxCancellations  \* kMaxTrackedCancellations

Attempts == 1..MaxAttempts

ASSUME HandshakeAssumption ==
    /\ MaxAttempts \in Nat /\ MaxRequests \in Nat /\ MaxLost \in Nat
    /\ MaxCancellations \in Nat \ {0}

SessionStates == {"Uninitialized", "Initializing", "Operating", "Shutdown"}

\* An initialize request has the number of the attempt as its id; awaited
\* says that send() waits for the end of the message's POST.
Messages ==
    [type : {"initialize", "cancelled"}, id : Attempts, awaited : BOOLEAN]
        \cup [type : {"initialized", "request"}, id : {0}, awaited : BOOLEAN]

Outcomes == {"ok", "unsupported", "error"}

VARIABLES
    fifo,          \* line transport (TRUE) or HTTP (FALSE)
    allowReinitialize,  \* ServerOptions::allow_reinitialize
    connected,     \* the transport is up
    toServer,      \* the client's messages in flight
    toClient,      \* the server's answers to initialize in flight
    lost,          \* POSTs that failed or were given up so far
    clientState,   \* state_ of the ClientSession
    initPc,        \* where initialize() is
    attempt,       \* calls of initialize() so far, the id of the last one
    pendingId,     \* the initialize request in pending_, 0 if none
    deadline,      \* its entry in deadlines_, 0 if none
    outcome,       \* the OneShot slot initialize() waits on
    timerPc,       \* the client's timer thread
    timerId,       \* the request it has expired
    closePc,       \* the client's handle_close
    requests,      \* requests the client sent after initialize()
    serverState,   \* state_ of the ServerSession
    protectedId,   \* protected_request_id_, 0 if not set
    cancelledIn,   \* cancelled_incoming_
    accepted,      \* attempts whose answer the client accepted
    rejected       \* a request was refused: "session is not initialized"

vars == <<connected, toServer, toClient, lost, clientState, initPc, attempt,
          pendingId, deadline, outcome, timerPc, timerId, closePc, requests, serverState,
          protectedId, cancelledIn, accepted, rejected>>
options == <<fifo, allowReinitialize>>

pendingVars == <<pendingId, deadline, outcome>>
clientVars == <<clientState, initPc, attempt, pendingVars, accepted>>
timerVars == <<timerPc, timerId>>
serverVars == <<serverState, protectedId, cancelledIn, rejected>>

Init ==
    /\ fifo \in BOOLEAN
    /\ allowReinitialize \in {FALSE, ~fifo}    \* meant for HTTP without sessions
    /\ connected = TRUE
    /\ toServer = <<>>
    /\ toClient = <<>>
    /\ lost = 0
    /\ clientState = "Uninitialized"
    /\ initPc = "idle"
    /\ attempt = 0
    /\ pendingId = 0
    /\ deadline = 0
    /\ outcome = "none"
    /\ timerPc = "idle"
    /\ timerId = 0
    /\ closePc = "idle"
    /\ requests = 0
    /\ serverState = "Uninitialized"
    /\ protectedId = 0
    /\ cancelledIn = {}
    /\ accepted = {}
    /\ rejected = FALSE

-----------------------------------------------------------------------------
(* The transport                                                           *)

\* A message sent over a closed transport is only reported as an error.
Send(type, id) ==
    toServer' = IF connected
                THEN Append(toServer, [type |-> type, id |-> id, awaited |-> ~fifo])
                ELSE toServer

InFlight(type) == \E i \in DOMAIN toServer : toServer[i].type = type

\* send() has returned: at once over a line, after the POST over HTTP.
Returned(type) ==
    \A i \in DOMAIN toServer : toServer[i].type = type => ~toServer[i].awaited

\* The server takes the i-th message in flight.
Receive(i, type) ==
    /\ fifo => i = 1
    /\ toServer[i].type = type
    /\ toServer' = RemoveAt(toServer, i)

\* A POST fails, or is given up and still handled; the client's transport
\* reports an error at most.
LosePost(i) ==
    /\ ~fifo
    /\ lost < MaxLost
    /\ toServer[i].awaited
    /\ lost' = lost + 1
    /\ \/ toServer' = RemoveAt(toServer, i)
       \/ toServer' = [toServer EXCEPT ![i].awaited = FALSE]
    /\ UNCHANGED <<connected, toClient, clientVars, timerVars, closePc,
                   requests, serverVars>>

-----------------------------------------------------------------------------
(* ClientSession::initialize                                               *)

\* The state is read here and written in the next step.
InitializeCheck ==
    /\ initPc = "idle"
    /\ attempt < MaxAttempts
    /\ clientState = "Uninitialized"
    /\ initPc' = "set"
    /\ UNCHANGED <<connected, toServer, toClient, lost, clientState, attempt,
                   pendingVars, accepted, timerVars, closePc, requests,
                   serverVars>>

InitializeSet ==
    /\ initPc = "set"
    /\ clientState' = "Initializing"
    /\ initPc' = "register"
    /\ UNCHANGED <<connected, toServer, toClient, lost, attempt, pendingVars,
                   accepted, timerVars, closePc, requests, serverVars>>

\* send_request_sync: the request is registered and its deadline set ...
InitializeRegister ==
    /\ initPc = "register"
    /\ attempt' = attempt + 1
    /\ pendingId' = attempt + 1
    /\ deadline' = attempt + 1
    /\ outcome' = "none"
    /\ initPc' = "send"
    /\ UNCHANGED <<connected, toServer, toClient, lost, clientState, accepted,
                   timerVars, closePc, requests, serverVars>>

\* ... then it is sent, and the slot waited for.
InitializeSend ==
    /\ initPc = "send"
    /\ Send("initialize", attempt)
    /\ initPc' = "wait"
    /\ UNCHANGED <<connected, toClient, lost, clientState, attempt,
                   pendingVars, accepted, timerVars, closePc, requests,
                   serverVars>>

\* An error, a timeout or a close: the session is set back.
InitializeFailed ==
    /\ initPc = "wait"
    /\ outcome = "error"
    /\ Returned("initialize")
    /\ clientState' = "Uninitialized"
    /\ initPc' = "idle"
    /\ UNCHANGED <<connected, toServer, toClient, lost, attempt, pendingVars,
                   accepted, timerVars, closePc, requests, serverVars>>

\* Mutant: the client goes on with a version it does not support.
InitializeUnsupportedGoesOn ==
    /\ initPc = "wait"
    /\ outcome = "unsupported"
    /\ Returned("initialize")
    /\ Send("initialized", 0)
    /\ initPc' = "operate"
    /\ UNCHANGED <<connected, toClient, lost, clientState, attempt,
                   pendingVars, accepted, timerVars, closePc, requests,
                   serverVars>>

\* The client disconnects on an unsupported version.
InitializeUnsupported ==
    /\ initPc = "wait"
    /\ outcome = "unsupported"
    /\ Returned("initialize")
    /\ clientState' = "Shutdown"
    /\ connected' = FALSE
    /\ initPc' = "idle"
    /\ UNCHANGED <<toServer, toClient, lost, attempt, pendingVars, accepted,
                   timerVars, closePc, requests, serverVars>>

\* Mutant: the session is Operating and initialized is never sent.
InitializeAnnounceForgotten ==
    /\ initPc = "wait"
    /\ outcome = "ok"
    /\ Returned("initialize")
    /\ accepted' = accepted \cup {attempt}
    /\ initPc' = "operate"
    /\ UNCHANGED <<connected, toServer, toClient, lost, clientState, attempt,
                   pendingVars, timerVars, closePc, requests, serverVars>>

\* The server's info and capabilities are stored, initialized is sent.
InitializeAnnounce ==
    /\ initPc = "wait"
    /\ outcome = "ok"
    /\ Returned("initialize")
    /\ accepted' = accepted \cup {attempt}
    /\ Send("initialized", 0)
    /\ initPc' = "operate"
    /\ UNCHANGED <<connected, toClient, lost, clientState, attempt,
                   pendingVars, timerVars, closePc, requests, serverVars>>

\* Mutant: the session is Operating before the POST of initialized is over.
InitializeOperateEarly ==
    /\ initPc = "operate"
    /\ clientState' = "Operating"
    /\ initPc' = "idle"
    /\ UNCHANGED <<connected, toServer, toClient, lost, attempt, pendingVars,
                   accepted, timerVars, closePc, requests, serverVars>>

InitializeOperate ==
    /\ initPc = "operate"
    /\ Returned("initialized")
    /\ clientState' = "Operating"
    /\ initPc' = "idle"
    /\ UNCHANGED <<connected, toServer, toClient, lost, attempt, pendingVars,
                   accepted, timerVars, closePc, requests, serverVars>>

\* Another thread of the client uses the session as soon as it is Operating.
UserRequest ==
    /\ clientState = "Operating"
    /\ requests < MaxRequests
    /\ requests' = requests + 1
    /\ Send("request", 0)
    /\ UNCHANGED <<connected, toClient, lost, clientVars, timerVars, closePc,
                   serverVars>>

\* The answer to initialize stops the clock and completes the request, if it
\* still is pending.
ClientResponse ==
    /\ toClient # <<>>
    /\ toClient' = Tail(toClient)
    /\ deadline' = IF Head(toClient).id = deadline THEN 0 ELSE deadline
    /\ IF Head(toClient).id = pendingId
       THEN pendingId' = 0 /\ outcome' = Head(toClient).outcome
       ELSE UNCHANGED <<pendingId, outcome>>
    /\ UNCHANGED <<connected, toServer, lost, clientState, initPc, attempt,
                   accepted, timerVars, closePc, requests, serverVars>>

-----------------------------------------------------------------------------
(* The client's timer thread and handle_close                              *)

\* The deadline of initialize has passed.
TimerExpire ==
    /\ timerPc = "idle"
    /\ deadline # 0
    /\ timerId' = deadline
    /\ deadline' = 0
    /\ timerPc' = "cancel"
    /\ UNCHANGED <<connected, toServer, toClient, lost, clientState, initPc,
                   attempt, pendingId, outcome, accepted, closePc, requests,
                   serverVars>>

\* The peer is told first.
TimerCancel ==
    /\ timerPc = "cancel"
    /\ Send("cancelled", timerId)
    /\ timerPc' = "fail"
    /\ UNCHANGED <<connected, toClient, lost, clientVars, timerId, closePc,
                   requests, serverVars>>

\* The pending request is completed with an error if its id is in S.
FailPending(S) ==
    /\ pendingId' = IF pendingId \in S THEN 0 ELSE pendingId
    /\ outcome' = IF pendingId \in S \ {0} THEN "error" ELSE outcome

\* Mutant: the timed-out request is forgotten, its slot never filled.
TimerFailForgets ==
    /\ timerPc = "fail"
    /\ Returned("cancelled")
    /\ timerPc' = "idle"
    /\ timerId' = 0
    /\ pendingId' = IF pendingId = timerId THEN 0 ELSE pendingId
    /\ UNCHANGED <<connected, toServer, toClient, lost, clientState, initPc,
                   attempt, deadline, outcome, accepted, closePc, requests,
                   serverVars>>

\* Then the request fails, unless it was completed meanwhile.
TimerFail ==
    /\ timerPc = "fail"
    /\ Returned("cancelled")
    /\ timerPc' = "idle"
    /\ timerId' = 0
    /\ FailPending({timerId})
    /\ UNCHANGED <<connected, toServer, toClient, lost, clientState, initPc,
                   attempt, deadline, accepted, closePc, requests, serverVars>>

\* handle_close of the client.  A line ends when its other end is gone and
\* everything it wrote was read; the HTTP client reports a close when its
\* event stream gives up, and can still post.
PeerClose ==
    /\ connected
    /\ closePc = "idle"
    /\ fifo => toClient = <<>>
    /\ connected' = ~fifo
    /\ toServer' = IF fifo THEN <<>> ELSE toServer
    /\ clientState' = "Shutdown"
    /\ deadline' = 0
    /\ closePc' = "fail"
    /\ UNCHANGED <<toClient, lost, initPc, attempt, pendingId, outcome,
                   accepted, timerVars, requests, serverVars>>

\* fail_all_pending
CloseFail ==
    /\ closePc = "fail"
    /\ closePc' = "done"
    /\ FailPending(Attempts)
    /\ UNCHANGED <<connected, toServer, toClient, lost, clientState, initPc,
                   attempt, deadline, accepted, timerVars, requests, serverVars>>

-----------------------------------------------------------------------------
(* The server                                                              *)

\* handle_message protects the id; the handler answers with a version the
\* client supports or not, or refuses a second initialize.
HandleInitialize(i) ==
    /\ Receive(i, "initialize")
    /\ protectedId' = toServer[i].id
    /\ LET refused == serverState # "Uninitialized" /\ ~allowReinitialize
       IN  /\ \E answer \in IF refused THEN {"error"} ELSE {"ok", "unsupported"} :
                 toClient' = Append(toClient, [id |-> toServer[i].id, outcome |-> answer])
           /\ serverState' = IF refused THEN serverState ELSE "Initializing"
    /\ UNCHANGED <<connected, lost, clientVars, timerVars, closePc, requests,
                   cancelledIn, rejected>>

HandleInitialized(i) ==
    /\ Receive(i, "initialized")
    /\ serverState' = IF serverState = "Initializing" THEN "Operating"
                                                      ELSE serverState
    /\ UNCHANGED <<connected, toClient, lost, clientVars, timerVars, closePc,
                   requests, protectedId, cancelledIn, rejected>>

\* check_incoming_request
HandleRequest(i) ==
    /\ Receive(i, "request")
    /\ rejected' = (rejected \/ serverState # "Operating")
    /\ UNCHANGED <<connected, toClient, lost, clientVars, timerVars, closePc,
                   requests, serverState, protectedId, cancelledIn>>

\* Mutant: the set of cancelled requests grows without a bound.
HandleCancelledUnbounded(i) ==
    /\ Receive(i, "cancelled")
    /\ cancelledIn' = IF toServer[i].id = protectedId THEN cancelledIn
                      ELSE cancelledIn \cup {toServer[i].id}
    /\ UNCHANGED <<connected, toClient, lost, clientVars, timerVars, closePc,
                   requests, serverState, protectedId, rejected>>

\* handle_cancelled
HandleCancelled(i) ==
    /\ Receive(i, "cancelled")
    /\ cancelledIn' =
          IF toServer[i].id = protectedId THEN cancelledIn
          ELSE (IF Cardinality(cancelledIn) >= MaxCancellations THEN {}
                ELSE cancelledIn) \cup {toServer[i].id}
    /\ UNCHANGED <<connected, toClient, lost, clientVars, timerVars, closePc,
                   requests, serverState, protectedId, rejected>>

\* handle_close of the server: the line ended and everything was read.  An
\* HTTP server does not notice that its client is gone.
ServerClose ==
    /\ fifo
    /\ ~connected
    /\ toServer = <<>>
    /\ serverState # "Shutdown"
    /\ serverState' = "Shutdown"
    /\ UNCHANGED <<connected, toServer, toClient, lost, clientVars, timerVars,
                   closePc, requests, protectedId, cancelledIn, rejected>>

-----------------------------------------------------------------------------

InitializeStep ==
    \/ InitializeSet \/ InitializeRegister \/ InitializeSend \/ InitializeFailed
    \/ InitializeUnsupported \/ InitializeAnnounce \/ InitializeOperate

TimerStep == TimerExpire \/ TimerCancel \/ TimerFail

ServerStep ==
    \/ ServerClose
    \/ \E i \in 1..Len(toServer) :
        \/ HandleInitialize(i) \/ HandleInitialized(i)
        \/ HandleRequest(i) \/ HandleCancelled(i)

Next ==
    \/ InitializeCheck \/ InitializeStep \/ UserRequest \/ ClientResponse
    \/ TimerStep \/ PeerClose \/ CloseFail \/ ServerStep
    \/ \E i \in 1..Len(toServer) : LosePost(i)

Spec == Init /\ [][Next /\ UNCHANGED options]_<<vars, options>>

\* Threads are scheduled, deadlines pass, and the server handles what reaches
\* it; the peer's answers may all come too late.
FairSpec ==
    /\ Spec
    /\ WF_vars(InitializeStep) /\ WF_vars(TimerStep) /\ WF_vars(CloseFail)
    /\ WF_vars(ServerStep)

-----------------------------------------------------------------------------
(* Properties                                                              *)

\* Every variable holds a value the two sessions can give it.
TypeOK ==
    /\ connected \in BOOLEAN
    /\ toServer \in Seq(Messages)
    /\ toClient \in Seq([id : Attempts, outcome : Outcomes])
    /\ lost \in 0..MaxLost
    /\ clientState \in SessionStates
    /\ initPc \in {"idle", "set", "register", "send", "wait", "operate"}
    /\ attempt \in 0..MaxAttempts
    /\ pendingId \in 0..MaxAttempts
    /\ deadline \in 0..MaxAttempts
    /\ outcome \in Outcomes \cup {"none"}
    /\ timerPc \in {"idle", "cancel", "fail"}
    /\ timerId \in 0..MaxAttempts
    /\ closePc \in {"idle", "fail", "done"}
    /\ requests \in 0..MaxRequests
    /\ serverState \in SessionStates
    /\ protectedId \in 0..MaxAttempts
    /\ cancelledIn \subseteq Attempts /\ Cardinality(cancelledIn) <= MaxCancellations
    /\ accepted \subseteq Attempts
    /\ rejected \in BOOLEAN

\* A request sent once the client is Operating is never refused because the
\* server is not, unless a POST was lost: initialized is sent, and over HTTP
\* handled, before the state changes.
NoPrematureRequest == lost = 0 => ~rejected

\* The two sessions agree.  The server is Operating only after the client
\* accepted its answer, so never with a version the client does not support
\* (FR-CORE-006, FR-CORE-010); and when initialize() has brought the client to
\* Operating over a connection that is up and lost nothing, the server is
\* Operating or will be with the next message it reads.
OperatingTogether ==
    /\ serverState = "Operating" => accepted # {}
    /\ clientState = "Operating" /\ connected /\ lost = 0 =>
          serverState = "Operating" \/ InFlight("initialized")

\* initialize() returns: answered, refused, timed out or closed.
InitializeReturns == (initPc = "set") ~> (initPc = "idle")

\* Once the connection is closed and everyone has noticed, the client session
\* is in Shutdown.
ClosedMeansShutdown ==
    closePc = "done" /\ initPc = "idle" => clientState = "Shutdown"
=============================================================================
