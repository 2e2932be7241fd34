----------------------------- MODULE HttpServer -----------------------------
(***************************************************************************)
(* The server side of the HTTP transports: HttpEndpoint (listener, one     *)
(* thread per connection, stop), PostCapture (the answers to a POST are    *)
(* collected by the thread that dispatches it), and the two request        *)
(* handlers on top, HttpSessionServer (a table of sessions by              *)
(* Mcp-Session-Id, idle sweep, DELETE) and HttpServerTransport (one        *)
(* session).  Init chooses which of the two is built (multi).              *)
(*                                                                         *)
(* A connection carries one request.  A session is the number of its id;   *)
(* the single session of HttpServerTransport is number 1.  What an event   *)
(* stream sends is the subject of SseChannel; here it is a thread that     *)
(* stays inside attach_stream until something ends it.                     *)
(***************************************************************************)
EXTENDS Integers, Sequences, FiniteSets

CONSTANTS
    MaxConns,     \* bound on the connections clients make
    MaxSessions,  \* bound on the sessions opened
    MaxFds,       \* descriptors the process can have open
    Frames,       \* POST bodies as parse_frame reads them
    Terminable    \* allow_client_termination

Conns == 1..MaxConns
Sessions == 1..MaxSessions
None == 0

ASSUME HttpServerAssumption ==
    /\ MaxConns \in Nat /\ MaxSessions \in Nat \ {0} /\ MaxFds \in Nat
    /\ Frames \subseteq [errors : Nat, messages : Seq({"init", "req", "note"})]
    /\ Terminable \in BOOLEAN

VARIABLES
    multi,     \* HttpSessionServer, else HttpServerTransport
    running,   \* HttpEndpoint::running_
    acceptor,  \* the accept thread
    stopper,   \* the thread that calls start, then stop or disconnect
    at,        \* where each connection is
    fd,        \* its descriptor
    open,      \* the connection behind each open descriptor
    connFds,   \* conn_fds_
    shut,      \* connections whose socket was shut down (by either side)
    request,   \* the request a connection carries
    entry,     \* the session its thread holds a pointer to
    doomed,    \* sessions its idle sweep took out and has not disconnected
    next,      \* the message of the frame its thread delivers next
    captured,  \* PostCapture: the answers collected by its thread
    status,    \* the status line it wrote
    created,   \* sessions created so far
    known,     \* ids that were sent to a client
    registry,  \* SessionRegistry::entries_
    stale,     \* sessions whose last_activity is beyond the idle timeout
    closed,    \* sessions whose transport is closed_ and channel shut down
    reported,  \* how often on_session_closed (the close handler) ran
    removed    \* stop's local vector of sessions

connVars == <<request, entry, doomed, next, captured, status>>
fdVars == <<fd, open, connFds, shut>>
sessionVars == <<created, known, registry, stale, closed, reported>>
serverVars == <<multi, running, acceptor, stopper, removed>>
vars == <<multi, running, acceptor, stopper, at, fd, open, connFds, shut, request, entry,
          doomed, next, captured, status, created, known, registry, stale, closed,
          reported, removed>>

\* ParsedFrame: how many items are in item_errors, and messages.
NoFrame == [errors |-> 0, messages |-> <<>>]

NoRequest == [method |-> "none", sid |-> None, ok |-> FALSE, frame |-> NoFrame]

\* The messages that have to be answered.
Asking(frame) == {i \in DOMAIN frame.messages : frame.messages[i] \in {"req", "init"}}

\* frame_contains_initialize
ContainsInitialize(frame) == \E i \in DOMAIN frame.messages : frame.messages[i] = "init"

Init ==
    /\ multi \in BOOLEAN
    /\ running = FALSE
    /\ acceptor = "none"
    /\ stopper = "idle"
    /\ at = [c \in Conns |-> "none"]
    /\ fd = [c \in Conns |-> None]
    /\ open = [d \in 1..MaxFds |-> None]
    /\ connFds = {}
    /\ shut = {}
    /\ request = [c \in Conns |-> NoRequest]
    /\ entry = [c \in Conns |-> None]
    /\ doomed = [c \in Conns |-> {}]
    /\ next = [c \in Conns |-> 1]
    /\ captured = [c \in Conns |-> <<>>]
    /\ status = [c \in Conns |-> None]
    /\ created = 0
    /\ known = {}
    /\ registry = {}
    /\ stale = {}
    /\ closed = {}
    /\ reported = [s \in Sessions |-> 0]
    /\ removed = {}

-----------------------------------------------------------------------------
(* Sessions                                                                *)

\* SessionTransport::disconnect (closed_.exchange, then the channel wakes its
\* streams) and, for those of S that were removed from the table, the callback.
Terminate(S) ==
    /\ closed' = closed \cup S
    /\ reported' = [s \in Sessions |-> reported[s] + IF s \in S THEN 1 ELSE 0]

\* Mutant: the sessions stay in the table.
RemoveAllEntriesCopies == removed' = registry /\ UNCHANGED registry

\* SessionRegistry: find touches the entry it returns, create adds one,
\* remove and remove_all take out what they return.
FindEntry(s) == s \in registry /\ stale' = stale \ {s}

CreateEntry(s) == registry' = registry \cup {s}

RemoveEntry(s) == s \in registry /\ registry' = registry \ {s}

RemoveAllEntries == removed' = registry /\ registry' = {}

\* Time passes: nothing was asked of the session for the idle timeout.
Age(s) ==
    /\ multi /\ s \in registry
    /\ stale' = stale \cup {s}
    /\ UNCHANGED <<serverVars, at, fdVars, connVars, created, known, registry, closed, reported>>

-----------------------------------------------------------------------------
(* start and stop                                                          *)

\* HttpEndpoint::start: the accept thread runs, or the address cannot be bound.
Listen ==
    \/ running' = TRUE /\ acceptor' = "poll" /\ stopper' = "serving"
    \/ stopper' = "done" /\ UNCHANGED <<running, acceptor>>

\* HttpSessionServer::start
Start ==
    /\ stopper = "idle" /\ multi
    /\ Listen
    /\ UNCHANGED <<multi, removed, at, fdVars, connVars, sessionVars>>

\* HttpServerTransport::connect: the channel of the one session is created, and
\* given up if the listener does not start.
Connect ==
    /\ stopper = "idle" /\ ~multi
    /\ Listen
    /\ created' = IF running' THEN 1 ELSE 0
    /\ UNCHANGED <<multi, removed, at, fdVars, connVars, known, registry, stale, closed, reported>>

\* HttpSessionServer::stop: take every session out of the table.
StopRemoveAll ==
    /\ stopper = "serving" /\ multi
    /\ stopper' = "wake"
    /\ RemoveAllEntries
    /\ UNCHANGED <<multi, running, acceptor, at, fdVars, connVars, created, known, stale, closed, reported>>

\* HttpServerTransport::disconnect: there is only the one channel.
Disconnect ==
    /\ stopper = "serving" /\ ~multi
    /\ stopper' = "wake"
    /\ removed' = {1}
    /\ UNCHANGED <<multi, running, acceptor, at, fdVars, connVars, sessionVars>>

\* Mutant: the listener is stopped without waking the event streams.
StopWithoutWaking ==
    /\ stopper = "wake"
    /\ stopper' = "signal"
    /\ UNCHANGED <<multi, running, acceptor, removed, at, fdVars, connVars, sessionVars>>

\* "Wake session streams first": every session taken is disconnected.
StopDisconnect ==
    /\ stopper = "wake"
    /\ stopper' = "signal"
    /\ closed' = closed \cup removed
    /\ UNCHANGED <<multi, running, acceptor, removed, at, fdVars, connVars, created, known, registry, stale, reported>>

\* HttpEndpoint::stop: running_.exchange(false) and wake_.signal.
StopSignal ==
    /\ stopper = "signal"
    /\ stopper' = "shutdown"
    /\ running' = FALSE
    /\ UNCHANGED <<multi, acceptor, removed, at, fdVars, connVars, sessionVars>>

\* Mutant: the descriptors are closed while their threads still use them.
StopClosesEarly ==
    /\ stopper = "shutdown"
    /\ stopper' = "join"
    /\ open' = [d \in DOMAIN open |-> IF d \in connFds THEN None ELSE open[d]]
    /\ connFds' = {}
    /\ shut' = shut \cup {open[d] : d \in connFds}
    /\ UNCHANGED <<multi, running, acceptor, removed, at, fd, connVars, sessionVars>>

\* Under conn_mutex_: every connection of the list is shut down, which ends
\* its reads and writes but not a wait on a condition variable.
StopShutdownFds ==
    /\ stopper = "shutdown"
    /\ stopper' = "join"
    /\ shut' = shut \cup {open[d] : d \in connFds}
    /\ UNCHANGED <<multi, running, acceptor, removed, at, fd, open, connFds, connVars, sessionVars>>

Spawned == {c \in Conns : at[c] \notin {"none", "held", "closed"}}

\* Mutant: connection threads are left behind.
StopJoinsAcceptor ==
    /\ stopper = "join"
    /\ acceptor = "done"
    /\ stopper' = "notify"
    /\ UNCHANGED <<multi, running, acceptor, removed, at, fdVars, connVars, sessionVars>>

\* The accept thread, then every connection thread is joined; then what is
\* left in the list, and the listener, is closed.
StopJoin ==
    /\ stopper = "join"
    /\ acceptor = "done"
    /\ Spawned = {}
    /\ stopper' = "notify"
    /\ open' = [d \in DOMAIN open |-> IF d \in connFds THEN None ELSE open[d]]
    /\ connFds' = {}
    /\ UNCHANGED <<multi, running, acceptor, removed, at, fd, shut, connVars, sessionVars>>

\* "then notify about destroyed sessions"
StopNotify ==
    /\ stopper = "notify" /\ multi
    /\ stopper' = "done"
    /\ Terminate(removed)
    /\ removed' = {}
    /\ UNCHANGED <<multi, running, acceptor, at, fdVars, connVars, created, known, registry, stale>>

\* The single transport calls its close handler, once (close_emitted_).
EmitClose ==
    /\ stopper = "notify" /\ ~multi
    /\ stopper' = "done"
    /\ Terminate(removed)
    /\ removed' = {}
    /\ UNCHANGED <<multi, running, acceptor, at, fdVars, connVars, created, known, registry, stale>>

-----------------------------------------------------------------------------
(* Clients and the accept loop                                             *)

\* A client goes away; earlier than here it makes no difference.
HangUp(c) ==
    /\ at[c] \in {"stream", "deliver"}
    /\ c \notin shut
    /\ shut' = shut \cup {c}
    /\ UNCHANGED <<serverVars, at, fd, open, connFds, connVars, sessionVars>>

\* A client connects, poll_readable reports the listener, and tcp_accept gives
\* the lowest descriptor.  Without one it fails and the loop polls again.
Accept(c) ==
    /\ acceptor = "poll" /\ running
    /\ at[c] = "none" /\ \A b \in 1..(c - 1) : at[b] # "none"
    /\ \E d \in DOMAIN open :
        /\ open[d] = None /\ \A e \in 1..(d - 1) : open[e] # None
        /\ open' = [open EXCEPT ![d] = c]
        /\ fd' = [fd EXCEPT ![c] = d]
    /\ at' = [at EXCEPT ![c] = "held"]
    /\ acceptor' = "register"
    /\ UNCHANGED <<multi, running, stopper, removed, connFds, shut, connVars, sessionVars>>

\* Under conn_mutex_: a thread for the connection, unless stop has begun.
Register(c) ==
    /\ acceptor = "register" /\ at[c] = "held"
    /\ \/ /\ running
          /\ connFds' = connFds \cup {fd[c]}
          /\ at' = [at EXCEPT ![c] = "read"]
          /\ acceptor' = "poll"
          /\ UNCHANGED open
       \/ /\ ~running
          /\ open' = [open EXCEPT ![fd[c]] = None]
          /\ at' = [at EXCEPT ![c] = "closed"]
          /\ acceptor' = "done"
          /\ UNCHANGED connFds
    /\ UNCHANGED <<multi, running, stopper, removed, fd, shut, connVars, sessionVars>>

\* The loop ends when it is woken.
AcceptExit ==
    /\ acceptor = "poll" /\ ~running
    /\ acceptor' = "done"
    /\ UNCHANGED <<multi, running, stopper, removed, at, fdVars, connVars, sessionVars>>

-----------------------------------------------------------------------------
(* Connection threads                                                      *)

\* What a request may look like when it reaches the handler: ok is the Accept
\* header of a GET, or whether the body of a POST parses.
Requests ==
    [method : {"DELETE", "PUT"}, sid : known \cup {None}, ok : {TRUE}, frame : {NoFrame}]
    \cup [method : {"GET"}, sid : known \cup {None}, ok : BOOLEAN, frame : {NoFrame}]
    \cup [method : {"POST"}, sid : known \cup {None}, ok : {TRUE}, frame : Frames]
    \cup [method : {"POST"}, sid : {None}, ok : {FALSE}, frame : {NoFrame}]

\* write_simple.  Of an error only the class of its code is kept.
Reply(c, code) ==
    /\ status' = [status EXCEPT ![c] = IF code < 400 THEN code ELSE code \div 100]
    /\ at' = [at EXCEPT ![c] = "finish"]
    /\ request' = [request EXCEPT ![c] = IF code < 400 THEN @ ELSE NoRequest]

\* Nothing (more) comes: time-out, end of stream, or woken by stop.
ReadGivesUp(c) ==
    /\ at[c] = "read"
    /\ at' = [at EXCEPT ![c] = "finish"]
    /\ UNCHANGED <<serverVars, fdVars, connVars, sessionVars>>

\* The head does not parse, or path, origin or authorize refuse it.
ReadRefused(c) ==
    /\ at[c] = "read" /\ running /\ c \notin shut
    /\ \E code \in {400, 404, 403, 401} : Reply(c, code)
    /\ UNCHANGED <<serverVars, fdVars, entry, doomed, next, captured, sessionVars>>

\* Lazy idle sweep: remove_idle, under the registry's lock.
Sweep(c) ==
    /\ doomed' = [doomed EXCEPT ![c] = registry \cap stale]
    /\ at' = [at EXCEPT ![c] = IF registry \cap stale = {} THEN "route" ELSE "evict"]
    /\ registry' = registry \ stale

\* Head and body are complete; the session server's handler begins with a sweep.
ReadRequest(c) ==
    /\ at[c] = "read" /\ running /\ c \notin shut
    /\ request' \in {[request EXCEPT ![c] = r] : r \in Requests}
    /\ Sweep(c)
    /\ UNCHANGED <<serverVars, fdVars, entry, next, captured, status, created, known, stale, closed, reported>>

\* Each of them is disconnected and reported; then the request is looked at.
Evict(c) ==
    /\ at[c] = "evict"
    /\ Terminate(doomed[c])
    /\ doomed' = [doomed EXCEPT ![c] = {}]
    /\ at' = [at EXCEPT ![c] = "route"]
    /\ UNCHANGED <<serverVars, fdVars, request, entry, next, captured, status, created, known, registry, stale>>

\* HttpSessionServer::handle_request: what is answered at once.
DeleteRefused(c) ==
    LET r == request[c] IN
    /\ at[c] = "route" /\ multi /\ r.method = "DELETE"
    /\ \/ r.sid = None /\ Reply(c, 400)
       \/ r.sid # None /\ ~Terminable /\ Reply(c, 405)
    /\ UNCHANGED <<serverVars, fdVars, entry, doomed, next, captured, sessionVars>>

GetRefused(c) ==
    LET r == request[c] IN
    /\ at[c] = "route" /\ multi /\ r.method = "GET"
    /\ \/ ~r.ok /\ Reply(c, 406)
       \/ r.ok /\ r.sid = None /\ Reply(c, 400)
    /\ UNCHANGED <<serverVars, fdVars, entry, doomed, next, captured, sessionVars>>

PostRefused(c) ==
    LET r == request[c] IN
    /\ at[c] = "route" /\ multi /\ r.method \notin {"DELETE", "GET"}
    /\ \/ r.method # "POST" /\ Reply(c, 405)
       \/ r.method = "POST" /\ ~r.ok /\ Reply(c, 400)
       \/ r.method = "POST" /\ r.ok /\ r.sid = None /\ ~ContainsInitialize(r.frame)
          /\ Reply(c, 400)
    /\ UNCHANGED <<serverVars, fdVars, entry, doomed, next, captured, sessionVars>>

\* HttpServerTransport::handle_request ignores the session id.
TransportRefused(c) ==
    LET r == request[c] IN
    /\ at[c] = "route" /\ ~multi
    /\ \/ r.method = "GET" /\ ~r.ok /\ Reply(c, 406)
       \/ r.method \notin {"GET", "POST"} /\ Reply(c, 405)
       \/ r.method = "POST" /\ ~r.ok /\ Reply(c, 400)
    /\ UNCHANGED <<serverVars, fdVars, entry, doomed, next, captured, sessionVars>>

\* The id is unknown, expired or terminated: 404, the client re-initializes.
Unknown(c) ==
    LET r == request[c] IN
    /\ at[c] = "route" /\ multi
    /\ r.ok /\ r.sid # None /\ r.sid \notin registry
    /\ r.method \in {"GET", "POST"} \cup (IF Terminable THEN {"DELETE"} ELSE {})
    /\ Reply(c, 404)
    /\ UNCHANGED <<serverVars, fdVars, entry, doomed, next, captured, sessionVars>>

\* Mutant: the entry is looked up and stays in the table.
DeleteFinds(c) ==
    LET r == request[c] IN
    /\ at[c] = "route" /\ multi /\ Terminable
    /\ r.method = "DELETE" /\ r.sid \in registry
    /\ entry' = [entry EXCEPT ![c] = r.sid]
    /\ at' = [at EXCEPT ![c] = "terminate"]
    /\ UNCHANGED <<serverVars, fdVars, request, doomed, next, captured, status, sessionVars>>

\* DELETE: whoever removes the entry terminates the session.
Delete(c) ==
    LET r == request[c] IN
    /\ at[c] = "route" /\ multi /\ Terminable
    /\ r.method = "DELETE"
    /\ RemoveEntry(r.sid)
    /\ entry' = [entry EXCEPT ![c] = r.sid]
    /\ at' = [at EXCEPT ![c] = "terminate"]
    /\ UNCHANGED <<serverVars, fdVars, request, doomed, next, captured, status, created, known, stale, closed, reported>>

DeleteDone(c) ==
    /\ at[c] = "terminate"
    /\ Terminate({entry[c]})
    /\ Reply(c, 200)
    /\ UNCHANGED <<serverVars, fdVars, entry, doomed, next, captured, created, known, registry, stale>>

\* GET: the thread goes into attach_stream of the session it found.
Get(c) ==
    LET s == request[c].sid IN
    /\ at[c] = "route" /\ multi
    /\ request[c].method = "GET" /\ request[c].ok
    /\ FindEntry(s)
    /\ entry' = [entry EXCEPT ![c] = s]
    /\ at' = [at EXCEPT ![c] = "attach"]
    /\ UNCHANGED <<serverVars, fdVars, request, doomed, next, captured, status, created, known, registry, closed, reported>>

TransportGet(c) ==
    /\ at[c] = "route" /\ ~multi
    /\ request[c].method = "GET" /\ request[c].ok
    /\ entry' = [entry EXCEPT ![c] = 1]
    /\ at' = [at EXCEPT ![c] = "attach"]
    /\ UNCHANGED <<serverVars, fdVars, request, doomed, next, captured, status, sessionVars>>

Streaming(s) == {c \in Conns : at[c] = "stream" /\ entry[c] = s}

\* The newest stream of a session displaces the older one, which wakes and
\* ends; on a channel that is shut down attach_stream returns at once.
AttachStream(c) ==
    /\ at[c] = "attach"
    /\ IF entry[c] \in closed
       THEN at' = [at EXCEPT ![c] = "finish"] /\ UNCHANGED status
       ELSE /\ at' = [b \in Conns |-> CASE b = c -> "stream"
                                        [] b \in Streaming(entry[c]) -> "finish"
                                        [] OTHER -> at[b]]
            /\ status' = [status EXCEPT ![c] = 200]
    /\ UNCHANGED <<serverVars, fdVars, request, entry, doomed, next, captured, sessionVars>>

\* Mutant: only the end of the server wakes a stream.
StreamEndsAtStop(c) ==
    /\ at[c] = "stream" /\ entry[c] \in closed /\ ~running
    /\ at' = [at EXCEPT ![c] = "finish"]
    /\ UNCHANGED <<serverVars, fdVars, connVars, sessionVars>>

\* The channel is shut down and the stream's wait returns.
StreamEnds(c) ==
    /\ at[c] = "stream" /\ entry[c] \in closed
    /\ at' = [at EXCEPT ![c] = "finish"]
    /\ UNCHANGED <<serverVars, fdVars, connVars, sessionVars>>

\* An event is written and the client is gone.
StreamWriteFails(c) ==
    /\ at[c] = "stream" /\ c \in shut
    /\ at' = [at EXCEPT ![c] = "finish"]
    /\ UNCHANGED <<serverVars, fdVars, connVars, sessionVars>>

\* add_error_response for every item error, before anything is delivered.
\* An answer is its POST and the message it is for, which its id names; that
\* of an unreadable item has no id.
ErrorAnswers(c) == [i \in 1..request[c].frame.errors |-> <<c, None>>]

\* initialize without an id: the factory builds a session, or fails.
Initialize(c) ==
    LET r == request[c] IN
    /\ at[c] = "route" /\ multi
    /\ r.method = "POST" /\ r.ok /\ r.sid = None /\ ContainsInitialize(r.frame)
    /\ \/ /\ created < MaxSessions
          /\ created' = created + 1
          /\ CreateEntry(created + 1)
          /\ entry' = [entry EXCEPT ![c] = created + 1]
          /\ captured' = [captured EXCEPT ![c] = ErrorAnswers(c)]
          /\ at' = [at EXCEPT ![c] = "deliver"]
          /\ UNCHANGED <<request, status>>
       \/ /\ Reply(c, 500)
          /\ UNCHANGED <<created, registry, entry, next, captured>>
    /\ UNCHANGED <<serverVars, fdVars, doomed, next, known, stale, closed, reported>>

\* A POST with an id finds its session.  Items of the frame that do not parse
\* are answered first.
Post(c) ==
    LET r == request[c] IN
    /\ at[c] = "route" /\ multi /\ r.method = "POST" /\ r.ok
    /\ FindEntry(r.sid)
    /\ entry' = [entry EXCEPT ![c] = r.sid]
    /\ captured' = [captured EXCEPT ![c] = ErrorAnswers(c)]
    /\ at' = [at EXCEPT ![c] = "deliver"]
    /\ UNCHANGED <<serverVars, fdVars, request, doomed, next, status, created, known, registry, closed, reported>>

TransportPost(c) ==
    /\ at[c] = "route" /\ ~multi /\ request[c].method = "POST" /\ request[c].ok
    /\ entry' = [entry EXCEPT ![c] = 1]
    /\ captured' = [captured EXCEPT ![c] = ErrorAnswers(c)]
    /\ at' = [at EXCEPT ![c] = "deliver"]
    /\ UNCHANGED <<serverVars, fdVars, request, doomed, next, status, sessionVars>>

\* Mutant: the answer goes to any thread that dispatches for the session.
CaptureBySession(c, m) ==
    LET b == CHOOSE b \in Conns : at[b] = "deliver" /\ entry[b] = entry[c]
    IN  captured' = [captured EXCEPT ![b] = Append(@, <<c, m>>)]

\* try_capture: the answer to a request is sent on the thread that dispatches
\* it and lands in that thread's entry of the table.  Anything else goes to
\* the event stream (SseChannel).
Capture(c, m) == captured' = [captured EXCEPT ![c] = Append(@, <<c, m>>)]

\* The session answers requests and nothing else; send passes the answer on.
Answer(c, m) == IF m \in Asking(request[c].frame) THEN Capture(c, m) ELSE UNCHANGED captured

\* SessionTransport::deliver of the next message.
Deliver(c) ==
    /\ at[c] = "deliver" /\ next[c] <= Len(request[c].frame.messages)
    /\ Answer(c, next[c])
    /\ next' = [next EXCEPT ![c] = @ + 1]
    /\ UNCHANGED <<serverVars, at, fdVars, request, entry, doomed, status, sessionVars>>

\* PostCapture::empty decides between 202 and 200 with the answers as body.
AnswerCode(c) == IF captured[c] = <<>> THEN 202 ELSE 200

\* The id of a new session is in the header.
PostReply(c) ==
    /\ at[c] = "deliver" /\ multi /\ next[c] > Len(request[c].frame.messages)
    /\ Reply(c, AnswerCode(c))
    /\ known' = IF c \in shut THEN known ELSE known \cup {entry[c]}
    /\ UNCHANGED <<serverVars, fdVars, entry, doomed, next, captured, created, registry, stale, closed, reported>>

TransportReply(c) ==
    /\ at[c] = "deliver" /\ ~multi /\ next[c] > Len(request[c].frame.messages)
    /\ Reply(c, AnswerCode(c))
    /\ UNCHANGED <<serverVars, fdVars, entry, doomed, next, captured, sessionVars>>

\* ~PostCapture: the thread's entry of the table is erased.
Release(c) == captured' = [captured EXCEPT ![c] = <<>>]

\* The handler has returned, its locals are gone.  The socket is shut down
\* without the lock ...
Finish(c) ==
    /\ at[c] = "finish"
    /\ shut' = shut \cup {open[fd[c]]}
    /\ at' = [at EXCEPT ![c] = "erase"]
    /\ request' = [request EXCEPT ![c] = NoRequest]
    /\ entry' = [entry EXCEPT ![c] = None]
    /\ next' = [next EXCEPT ![c] = 1]
    /\ Release(c)
    /\ status' = [status EXCEPT ![c] = None]
    /\ UNCHANGED <<serverVars, fd, open, connFds, doomed, sessionVars>>

\* Mutant: the closed descriptor stays in the list.
EraseForgets(c) ==
    /\ at[c] = "erase"
    /\ open' = IF fd[c] \in connFds THEN [open EXCEPT ![fd[c]] = None] ELSE open
    /\ at' = [at EXCEPT ![c] = "closed"]
    /\ fd' = [fd EXCEPT ![c] = None]
    /\ shut' = shut \ {c}
    /\ UNCHANGED <<serverVars, connFds, connVars, sessionVars>>

\* ... and closed under conn_mutex_, if stop has not closed it.
Erase(c) ==
    /\ at[c] = "erase"
    /\ open' = IF fd[c] \in connFds THEN [open EXCEPT ![fd[c]] = None] ELSE open
    /\ connFds' = connFds \ {fd[c]}
    /\ at' = [at EXCEPT ![c] = "closed"]
    /\ fd' = [fd EXCEPT ![c] = None]
    /\ shut' = shut \ {c}
    /\ UNCHANGED <<serverVars, connVars, sessionVars>>

-----------------------------------------------------------------------------

StopStep ==
    \/ StopDisconnect \/ StopSignal \/ StopShutdownFds \/ StopJoin \/ StopNotify \/ EmitClose

AcceptStep == AcceptExit \/ \E c \in Conns : Register(c)

ConnStep(c) ==
    \/ ReadGivesUp(c) \/ Evict(c)
    \/ DeleteRefused(c) \/ GetRefused(c) \/ PostRefused(c) \/ TransportRefused(c)
    \/ Unknown(c) \/ Delete(c) \/ DeleteDone(c)
    \/ Get(c) \/ TransportGet(c) \/ AttachStream(c) \/ StreamEnds(c)
    \/ Initialize(c) \/ Post(c) \/ TransportPost(c)
    \/ Deliver(c) \/ PostReply(c) \/ TransportReply(c)
    \/ Finish(c) \/ Erase(c)

ServerStep == StopStep \/ AcceptStep \/ \E c \in Conns : ConnStep(c)

Next ==
    \/ Start \/ Connect \/ StopRemoveAll \/ Disconnect \/ ServerStep
    \/ \E s \in Sessions : Age(s)
    \/ \E c \in Conns : \/ Accept(c) \/ HangUp(c) \/ ReadRefused(c) \/ ReadRequest(c)
                        \/ StreamWriteFails(c)

Spec == Init /\ [][Next]_vars

\* As long as some thread of the server can run, one does; a read ends at the
\* latest after its time-out, and a write ends: a client that stops reading and
\* stays connected is left out.  Clients, clocks and failing writes may do
\* nothing.  A thread has finitely many steps, so none starves.
Fairness == WF_vars(ServerStep)

FairSpec == Spec /\ Fairness

-----------------------------------------------------------------------------
(* Properties                                                              *)

\* The threads that remove a session (idle sweeps, DELETEs, stop) agree on
\* which of them terminates it.  An id names one session for ever: opened by
\* one initialize, in the table until one of them takes it out, then closed and
\* reported to on_session_closed once, and never found again.  The one session
\* of HttpServerTransport lives from connect to disconnect.
Live == IF multi THEN registry ELSE {s \in 1..created : stopper = "serving"}
Contract == INSTANCE SessionContract
    WITH opened <- 1..created, live <- Live, reports <- reported
ImplementsContract == Contract!Spec

\* A connection thread works on its own socket: nobody closes the descriptor
\* while the thread lives, so the number cannot be given to a new connection.
\* conn_fds_ is the list of the sockets of living threads: stop shuts down
\* these and no descriptor that was closed or recycled.
OwnDescriptor ==
    /\ \A c \in Spawned : open[fd[c]] = c
    /\ connFds = {fd[c] : c \in Spawned}

\* The answer to a POST holds an answer for each of its malformed items, then
\* exactly one for each of its requests, in the order of the requests,
\* whatever other POSTs of the same session are dispatched meanwhile; without
\* any the status is 202.
PostAnswersItsOwn ==
    \A c \in Conns : at[c] = "finish" /\ request[c].method = "POST" /\ status[c] \in {200, 202} =>
        LET frame == request[c].frame
            answers == captured[c]
        IN  /\ frame.errors <= Len(answers)
            /\ \A i \in 1..frame.errors : answers[i] = <<c, None>>
            /\ \A i \in frame.errors + 1..Len(answers) : \E m \in Asking(frame) : answers[i] = <<c, m>>
            /\ \A i, j \in frame.errors + 1..Len(answers) : i < j => answers[i][2] < answers[j][2]
            /\ \A m \in Asking(frame) : \E i \in frame.errors + 1..Len(answers) : answers[i] = <<c, m>>
            /\ status[c] = 202 <=> frame.errors = 0 /\ Asking(frame) = {}

\* When stop has returned no connection thread runs, every descriptor is
\* closed and the accept thread is gone.
StoppedIsQuiet ==
    stopper = "done" => Spawned = {} /\ acceptor \in {"none", "done"}
                        /\ \A d \in DOMAIN open : open[d] = None

\* A stream whose session was expired, terminated or stopped ends, although
\* the thread that sleeps in attach_stream does not see its socket shut down.
ClosedStreamEnds ==
    []<>(\A c \in Conns : at[c] = "stream" => entry[c] \notin closed)

\* stop and disconnect return, unless a session was created after stop emptied
\* the table: its stream is not woken and the join may wait for it.
StopReturns == (stopper = "wake") ~> (stopper = "done" \/ registry # {})

\* HttpSessionServer::stop "Terminates all sessions and stops the listener".
StopTerminatesAll ==
    stopper = "done" => \A s \in 1..created : s \in closed /\ reported[s] = 1
=============================================================================
