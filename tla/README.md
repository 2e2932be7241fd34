# A TLA+ verification of mcp.cpp

mcp.cpp is a C++ SDK for the Model Context Protocol: JSON-RPC sessions between
a client and a server, over stdio lines or streamable HTTP, with server and
client facades on top. This directory models it in TLA+, model-checks the models
with TLC and proves the central safety properties with TLAPS. Paths below are
relative to the repository root.

## 1. Inventory

| Component | Files | State it keeps | Operations | Talks to |
|---|---|---|---|---|
| Request engine (`Session`) | `src/core/session.cpp` | `next_request_id_`, `deadlines_`, `progress_callbacks_`, `stop_timer_`, `state_` | `send_request`, `cancel_request`, `handle_message`, `handle_progress`, `handle_close`, `timer_loop`, destructor | router (calls), transport (calls and callbacks), user callbacks |
| Message router | `src/core/router.cpp` | `pending_`, handler tables | `register_pending`, `take_pending`, `fail_pending`, `fail_all_pending`, `dispatch` | called by the session on every thread |
| Lifecycle | `src/core/session.cpp` (`ClientSession`, `ServerSession`) | `state_` on both sides, `protected_request_id_`, `cancelled_incoming_` | `initialize`, the `initialize`/`initialized` handlers, `check_incoming_request`, `handle_cancelled` | the peer, through messages |
| SSE channel | `src/transport/http/sse_channel.cpp` | `ring_`, `next_event_id_`, `next_undelivered_`, `stream_generation_`, `running_` | `enqueue`, `attach_stream`, `shutdown`, `PostCapture` | one thread per GET, senders on any thread |
| HTTP session server | `src/transport/http_session_server.cpp` | table of sessions with their idle times | `handle_request`, idle sweep, DELETE, `start`, `stop` | endpoint threads, one `ServerSession` per id |
| HTTP endpoint | `src/transport/http/http_endpoint.cpp` | listener, `conn_threads_`, `conn_fds_`, `running_` | `start`, `accept_loop`, `handle_connection`, `stop` | a request handler, one of the next two |
| HTTP server transport | `src/transport/http_server_transport.cpp` | one session id, one channel | POST, GET, DELETE, `disconnect` | endpoint, one `ServerSession` |
| HTTP client transport | `src/transport/http_client_transport.cpp` | `session_id_`, `last_event_id_`, `running_`, `wake_`, SSE thread | `send` (a POST), `run_sse_once`, `sse_loop`, `disconnect` | server over TCP, session through callbacks |
| Line transports | `src/transport/stdio*_transport.cpp`, `line_*` | read threads, child process, wake event | `connect`, read loops, `send`, `disconnect` | session through callbacks, the child |
| HTTP codec | `src/transport/http/http_codec.cpp` | parser buffers | `SseParser`, `ChunkedDecoder`, `parse_head` | HTTP transports |
| Server facade and registries | `src/server/*.cpp` | tools, resources, templates, prompts, completions, subscriptions, log level, attached sessions | list (in pages), call, read, subscribe, changes, broadcasts | sessions, user handlers |
| Client facade | `src/client/*.cpp` | roots, handlers, session | requests, roots, sampling, elicitation, sampling loop | session, user handlers |
| JSON-RPC messages, URI templates | `src/jsonrpc/message.cpp`, `src/server/uri_template.cpp` | none | `parse_frame`, `parse_message`, `match_uri_template` | everything that reads |
| Platform layer | `src/platform/**` | `waiters_` and a semaphore on VxWorks | threads, pipes, processes, sockets, wake events | everything above |

What is hard here: four kinds of threads race for one response callback; several
`notify_all` calls come after the unlock; `initialize()` reads the state, blocks
and writes it back; HTTP messages overtake each other and a POST may be given up
while the server still works on it; an event stream breaks between the
bookkeeping and the write; sweeps, DELETEs and `stop()` all want to terminate the
same session; descriptors are recycled while `stop()` shuts them down;
`disconnect` may run on the very thread it has to join; a child process may
ignore its end of input and its signals; a list is fetched page by page while it
changes; bytes arrive cut anywhere; a hand-made condition variable. What makes
each component correct:

- *request engine*: a callback runs exactly once; clocks and progress callbacks
  belong to pending requests; the destructor returns;
- *lifecycle*: the two sides agree on the state; `initialize()` returns; a closed
  session stays closed;
- *SSE channel*: each message reaches the client once and in order; no stream
  sleeps through work; streams end;
- *HTTP server*: a session is terminated and reported once; a thread uses only
  its own descriptor; a POST carries its own answers; streams of ended sessions
  end; `stop()` returns and leaves nothing running;
- *client transports*: `disconnect` returns and, on another thread, leaves the
  thread it joins finished; a loss that can be seen is reported; an old session
  id does not come back; only the own child is signalled; no line is lost at end
  of file;
- *registries*: a peer that lists again when told so ends up with the current
  list; a broadcast touches only living sessions; every request is answered;
- *codec*: what is decoded does not depend on where the input was cut;
- *condition variable*: a notified waiter wakes; no count is lost or invented.

## 2. Modules

| Module | Models | Remarks |
|---|---|---|
| `RequestContract` | what `send_request` promises | abstract specification |
| `Session` | request engine and pending table | implements `RequestContract` |
| `MCSession` | instances of `Session` for TLC | option sets |
| `SessionProofs` | theorems about `Session` | TLAPS |
| `Handshake` | client and server lifecycle | line and HTTP transports |
| `HandshakeProofs` | theorems about `Handshake` | TLAPS |
| `TransportContract` | what the receiving end of a transport promises | abstract specification |
| `SseChannel` | server channel and resuming client | implements `TransportContract`, lossy |
| `SseChannelProofs` | theorems about `SseChannel` | TLAPS |
| `SessionContract` | what a server promises of its sessions | abstract specification |
| `HttpServer` | endpoint, session server, server transport, `PostCapture` | implements `SessionContract` |
| `MCHttpServer` | POST bodies for TLC | |
| `HttpServerProofs` | theorems about `HttpServer` | TLAPS |
| `HttpClient` | HTTP client transport | |
| `Stdio` | stdio client transport, its child, the child's transport | implements `TransportContract`, lossless |
| `MCTransports` | `HttpClient` or `Stdio` | composition for TLC |
| `TransportsProofs` | theorems about `HttpClient`, `Stdio` and `MCTransports` | TLAPS |
| `Registry` | registries, pages, broadcasts, subscriptions, handlers, both facades | |
| `RegistryProofs` | theorems about `Registry` | TLAPS |
| `LineReader` | `LineReader::next` | |
| `JsonRpc` | `parse_frame`, `parse_message`, serialization | |
| `UriTemplate` | `match_uri_template` | |
| `ChunkedDecoder` | `ChunkedDecoder::feed` and the loop that reads a body | |
| `ReadersProofs` | theorems about the four above | TLAPS |
| `Codec` | HTTP heads and event streams | |
| `VxCondVar` | VxWorks condition variable | |
| `VxCondVarProofs` | theorems about `VxCondVar` | TLAPS |
| `MCParts` | `VxCondVar`, `Registry`, one of the four readers, or `Codec` | composition for TLC |

`MCTransports` and `MCParts` put modules that share nothing side by side. Their
initial state chooses one (`transport`, `part`); a behaviour is one of that
module and the variables of the others keep their initial values, so a run
checks each part with its own instance, and never a product of them. They extend
these modules (`MCParts` instantiates `Codec`), so the runs check the very
definitions the theorems are about, and TLC evaluates the assumptions of the
proofs; names that would clash carry their module's name (`HttpTypeOK`,
`StdioInit`, `CondVarNext`).

Definitions whose comment begins with "Mutant" are mutated forms that show that
a property depends on the code: exchanging one for the definition it belongs to
makes TLC report a violation of the property named in `PROJECT.json`.

### Session

One action is one critical section (`timer_mutex_` or the router's mutex), one
call of the transport, or one callback run outside the locks. `send_request` is
`SendRequest` (id drawn, callback registered), `TrackRequest` (deadline and
progress callback), `NotifyTimer`, `TransmitRequest`; the other threads can run
between any two. A callback taken out of `pending_` is a local of the thread
that took it, `held[t]`, until `RunCallback`. `handle_close` is `CloseClear`,
`CloseSwap`, callbacks, `CloseDone`; `timer_loop` is `TimerTop`, `TimerExpire`,
then per expired id `TimerCancel` and `TimerFail`; the destructor is `Destroy`,
`StopTimer`, `NotifyStop`, `JoinTimer`. Time is abstracted to the set `due` of
deadlines that have passed, so every relation between clock, network and
scheduler is explored. The peer answers any request it was sent, also twice.
`localClose`, chosen in Init, distinguishes transports whose `disconnect` calls
the close handler from those whose does not. `userCancels` and `timerCancels`
count the cancellations the peer is told of by `cancel_request` and by the
timer: each tells it at most once (`CancelledOnceByEach`), but both may, as the
timer works through its list of expired ids after it has unlocked. Payloads,
error texts and parsing are left out: nothing in the control depends on them.

### Handshake

`initialize()` reads the state (`InitializeCheck`), writes it
(`InitializeSet`), registers, sends, waits, and ends in one of three ways. The
server's handlers are one action each, since its state is only written by the
thread that handles the message. Init chooses the transport (`fifo`) and whether
the server lets a client initialize again. Messages of the client are a sequence
handled from the front on a line and in any order over HTTP. Over HTTP `send()`
returns when the POST is over (`awaited`); `LosePost` lets a POST fail or be
given up while it is still handled later. `PeerClose` is the moment the
client's transport reports the close: on a line everything is gone, over HTTP
the event stream has given up and posts still work. `initialize_timeout` is
taken to be positive, as it is by default. The gates per capability of
`check_incoming_request` are in `Registry`.

### SseChannel

A message is its event id. `stream[s]` is the program counter of the thread that
serves GET number `s`, `pipe[s]` what it has written and the client has not
read; a write blocks while `PipeSize` events are in it. `notify_all` comes after
the unlock in `enqueue`, `attach_stream` and `shutdown` and is a step of its own
(`notifies`, `AttachNotify`). `Drop` breaks a connection: what is in the pipe is
lost, and the server's thread learns it only when a write fails, so an old
thread can still be in its loop when the client's next GET takes over. The
client stores the id of every event it parses, with or without data, as
`run_sse_once` does.

### HttpServer

Init chooses `HttpSessionServer` or `HttpServerTransport` (`multi`); both run on
the same endpoint. `at[c]` is where the thread of connection `c` is, from the
accept to the moment its descriptor is closed; `fd`, `open` and `connFds` are
the thread's descriptor, the process's table of open descriptors, from which
`accept` takes a free number, and the endpoint's list. A session is taken out of
the table by whoever finds it there first: an idle sweep (`Sweep`, then `Evict`
for each session it took, outside the lock), a `Delete` or `stop`; `doomed`,
`entry` and `removed` say who holds it. A POST is `Initialize`, or `Post`,
`Deliver` for each message and `PostReply`, with `captured` the thread's
`PostCapture`; a body is what `parse_frame` makes of it, a number of items it
could not read and a sequence of messages, and an answer is the POST and the
message it belongs to, which its id names. An event stream is a thread that
stays inside `attach_stream` until its channel is shut down or a write fails.
`stop` is `StopRemoveAll`, `StopDisconnect`, `StopSignal`, `StopShutdownFds`,
`StopJoin`, `StopNotify`; connection threads run between any two of them.

### HttpClient

Each sender's POST goes through sent, head, capture of the session id, and body
or error; the id it sent may be an old one when the answer comes. The event
stream's thread is `sse_loop`: a GET, the stream, deliveries, failures, the wait
between attempts, the close report. `HttpDisconnect` stops, sends the DELETE,
signals the wake event and joins, or does not join when it is called on the
event stream's own thread (`self`); the thread object is then still joinable
and `Destroy` terminates the program. The server is reduced to what a client
can see of it: which sessions it knows, how many it has opened, and whether it
is up, down (connections are refused or break) or silent (connections stay and
nothing comes back, `net`). Under a silent server the connection of an open
stream may be lost without a sign (`SseLost`), which the poll without a time-out
never notices, and `send_session_delete` may block in its read (`awaitDelete`,
`DeleteAnswered`).

### Stdio

`disconnect` of the client closes the child's stdin, waits, sends SIGTERM,
waits, sends SIGKILL, waits and joins; a wait may give up or find the child
dead. The child obeys the end of its input ("polite": it runs `StdioTransport`),
dies only of SIGTERM ("slow") or only of SIGKILL ("stubborn"). `exited_` is
never reset, as in the code, so a second child is not waited for.
`SiblingInherits` lets another child of the client hold the write end of the
pipe, `GrandchildStays` lets a process of the child hold its stdout. The
child's read loop is poll, read, then the lines one at a time, so that end of
file, the wake event and `disconnect` interleave with them. A read takes some
lines and possibly a part of the next (`half`), which is no line yet.

### Registry

The registries have locks of their own and never refer to each other, so a
behaviour exercises one, chosen in Init (`kind`). The exception is
`ResourceProvider`: resources and templates share its lock and `subscriptions_`,
so with either kind the other list is there too (`others`), and `subscribe`
accepts a URI that is registered or matches a template (`uri_known_locked`). The
owner changes it and broadcasts, or sends to one session, under
`session_mutex_`; sessions are opened, attached, become operating, close and are
destroyed meanwhile. A peer either lists the registry page by page, starting
again when `list_changed` arrives, and subscribes, or uses its entries. The read
thread of a session serves one request at a time: gate, lookup, handler,
response; a handler may throw, and its exception becomes an error response if it
is a `std::exception`; any other terminates the program. A failed
`Client::connect` resets the session (`ConnectFails`). The client's registries
(roots, sampling with its loop of at most `MaxTurns` turns) are kinds of the
same module, with the directions exchanged.

### LineReader, JsonRpc, UriTemplate, ChunkedDecoder, Codec

These have no concurrency; what is hard is that they are loops whose result has
to be right for the whole input. One step is one iteration of the loop, and the
property compares what has been produced with a definition that looks at the
whole input and nothing of the loop: the lines between line feeds, the messages
a batch was written from, the ways of cutting a URI up as its template says, the
data a chunked body was put together from. `LineReader`, `ChunkedDecoder` and
`Codec` get their input in pieces of any length, so every cut is explored, also
the one between carriage return and line feed; reads may fail.

- `LineReader`: `NextLine` and `FinalLine` return a line, `NoMoreLines` the end of
  file; `ReadPiece`, `ReadEof` and `ReadError` are the outcomes of `read_some`.
- `JsonRpc`: a JSON object is the presence and the type of the members that
  `parse_message` looks at; `ParseItem` is one turn of the loop over a batch, and
  `ParseThrows` the exception of `Error::from_json` when the code or the message
  of an error has the wrong type, which nothing catches.
- `UriTemplate`: a template is the list of segments that `tokenize` makes of it,
  in which no text is empty; `MatchLiteral` and `MatchVariable` are one turn each.
- `ChunkedDecoder`: `DecodeSize`, `DecodeData`, `DecodeCrlf` and `DecodeTrailer` are
  the cases of the `switch`; `ReadBody` and `LoseBody` are what `post_payload` does
  when more is needed. A body comes with its layout (where each chunk begins,
  where its data are), and with how it ends: well-formed, with a line that is no
  size, or without the line break after a chunk. Sizes are computed modulo the
  range of `std::size_t`, as the code does.
- `Codec`: `parse_head` and `SseParser`, on what `serialize_*` and
  `format_sse_event` wrote. Symbols stand for whole tokens where no decoder looks
  inside one before it has the line.

### VxCondVar

`wait_for_ms` is `Register`, `TakeOrPend`, `Timeout`, `Reconcile`; `notify_all`
is `NotifyBegin`, `NotifyGive` for each turn of its loop, `NotifyEnd`. The
semaphores are external: a count given while tasks are pended goes to one of
them. Any wait may be a timed one. `owed` is a history variable, the waiters a
`notify_all` found registered.

## 3. Runs

| Run | Bounds | Properties |
|---|---|---|
| `session` | 2 requests, 1 token, 4 option records, 1 reader, 1 canceller, 1 progress | `OneOwner`, `DeadlineIsPending`, `CancelledOnceByEach`, `ProgressCallbackIsPending`, `ImplementsContract` |
| `session_live` | 2 requests, 2 option records, 1 reader, no canceller, both values of `localClose`, fair | `TimedRequestCompletes`, `CloseCompletesPending`, `DestructorReturns` |
| `handshake` | 3 attempts, 2 requests, 1 lost POST, 1 tracked cancellation, both transports, fair | `TypeOK`, `NoPrematureRequest`, `OperatingTogether`, `InitializeReturns` |
| `sse` | 3 messages, ring of 2, 3 GETs, 2 events in a connection, 1 break, fair | `NobodySleepsThroughWork`, `ImplementsTransport`, `EventuallyDelivered`, `StreamsEnd` |
| `http_server` | 3 connections, 1 session, 2 descriptors, 3 POST bodies, both servers, fair | `OwnDescriptor`, `PostAnswersItsOwn`, `StoppedIsQuiet`, `ImplementsContract`, `ClosedStreamEnds`, `StopReturns` |
| `transports` | HTTP: 2 senders, 3 POSTs, 2 sessions, 1 outage, 2 attempts; stdio: 2 lines, 2 calls of `connect`, every temper; fair | `QuietAfterDisconnect`, `SignalsOwnChild`, `NoLineLostAtEof`, `ImplementsTransport`, `NewestSessionWins`, `DisconnectReturns`, `LossIsReported`, `EofEndsServer` |
| `parts` | 3 waiters, 2 notifiers; 2 names, 2 sessions, 1 lister, 1 owner thread, pages of 1, 2 turns, 2 changes; texts of 4 symbols (lines: 5), 2 items, chunks, headers or events, 6 templates, sizes below 256 | `CountsMatchWaiters`, `ViewsConverge`, `NoDanglingSession`, `SubscriptionsAreKnown`, `NoRequestIsForgotten`, `LinesAreWhole`, `ItemsAreIndependent`, `MatchIsExact`, `BodyIsWhole`, `DecodesWhatWasSent` |
| `session_orphan`, `sse_gap`, `handshake_closed`, `condvar_stolen`, `http_stop` | as the passing runs, or smaller | findings 1 to 5 |

What the less obvious ones show:

- `OneOwner`: of the reader, the canceller, the timer and the close, at most one
  has the callback of a request, wherever each of them was interrupted.
- `OperatingTogether`: the server is Operating only after the client accepted its
  answer; a client that is Operating over an unbroken connection has a server
  that is, or will be with the next message it reads.
- `NobodySleepsThroughWork`: a stream thread that sleeps although it has something
  to do has a `notify_all` still to come.
- `ImplementsTransport`: what the message handler sees of an event stream, or of
  a pipe, is what `TransportContract` allows: every message at most once, in the
  order of `send`, none after the close; over a pipe none is left out.
- `ImplementsContract` of `HttpServer`: sweeps, DELETEs and `stop` agree on who
  ends a session; an id is given out once, a session is closed and reported only
  after nobody can find it any more, and reported once.
- `OwnDescriptor`: `stop` never shuts down a recycled descriptor, and no thread
  works on one that was closed under it.
- `PostAnswersItsOwn`: POSTs dispatched at the same time in the same session do
  not collect each other's answers.
- `CancelledOnceByEach`: once `cancel_request` or the timer has begun to tell the
  peer that a request is cancelled, its clock never runs again, so neither tells
  it twice.
- `QuietAfterDisconnect`: a `disconnect` on another thread leaves the thread it
  joins (`sse_loop`, the stdout thread, the read thread of the child) where it
  polls no destroyed wake event, and its object not joinable; only after a
  `disconnect` on that thread does the destructor terminate the program.
- `DisconnectReturns`, `LossIsReported`: with the exceptions listed below.
- `CountsMatchWaiters`: no count is lost or invented in total; which waiter gets
  it is another matter (finding 4).
- `SubscriptionsAreKnown`: what a peer is subscribed to is registered or matches
  a template, whatever was removed meanwhile.
- `NewestSessionWins`: an answer that was under way when the session changed
  does not bring an old session id back.
- `EofEndsServer`: closing stdin ends a server that uses this library. The
  fairness of the client (`PatientStep`) lets the first grace period last as
  long as it takes, so that the signal cannot be what makes the property true.
- `ViewsConverge`: a peer that lists again on `list_changed` ends up with the
  registry as it is, although every page is of another snapshot.
- `LinesAreWhole`: the n-th line `LineReader::next` returns is the n-th line of
  the text, however the reads cut it, and none is missing at end of file.
- `ItemsAreIndependent`: an item of a batch that is no message costs none of the
  others, unless it makes `Error::from_json` throw; each message comes back as the
  one it was written from, in order.
- `MatchIsExact`: `match_uri_template` finds a match exactly when the URI can be
  cut up so that each value ends at the first occurrence of the literal behind
  it. The reference takes this rule over from the code: it says nothing of the
  URIs that only a later occurrence would match.
- `BodyIsWhole`: a chunked body comes back byte by byte; it is ended only when it
  is well-formed and whole, refused only when it is malformed, and the decoder
  never asks for more than was sent, which would wait until the time-out. A size
  is what the decoder's own arithmetic makes of its digits (`SizeOf`), so that
  sizes beyond the range of `std::size_t` are not judged.
- `DecodesWhatWasSent`: heads and events come back as they were written, wherever
  they were cut, and a malformed head is refused, up to the three losses of the
  framing that `HeadLengths` and `Surviving` spell out.

**Bounds.** Two requests suffice for the session because a request interacts
with another one only through a shared token, the timer's list and the close;
the proofs remove the bound for the safety properties, here and in every other
module but `Codec`. Three GETs with a break let a displaced thread, a dying one
and the current one coexist; three messages overflow a ring of two.
`MaxCancellations` is 1 instead of 1024, so that the limit is reached. Three
connections allow two POSTs and a stream, or a stream, a DELETE and a sweep, at
the same time as `stop`; with two descriptors the third connection has to take a
recycled number; the bodies are an initialize, a notification, and a batch with
an unreadable item, two requests and a notification between them. Two sessions
and three POSTs let an answer of the first session arrive in the second; the one
outage may be an end, a silence, or a silence that becomes an end.
`session_live` leaves out cancellers, with one of which it takes too long; the
safety run `session` has one. Two names and pages of one make a list of two
pages that changes between them. Texts of four symbols have every cut that
matters: inside a line break, before and after it, in the middle of data. The
chunks have data that look like a line break or end like one, sizes with a
leading zero and with an extension.

**Deadlock.** Checking is off where the system legitimately stops (everything
closed or destroyed, or a bound used up). `VxCondVar` never stops and is checked;
`AtRest` lets the other parts of `MCParts` rest.

**Fairness.** All of it is weak fairness: each of these threads stays runnable
until it takes its step.

- `Session`: every call that has begun goes on, every thread of the library is
  scheduled and time passes; neither the peer nor users nor spurious wakeups are
  assumed to do anything.
- `SseChannel`: server threads, pending `notify_all` calls and the client's
  reconnect loop are scheduled; connections need not break and nobody has to
  send. The client reads on, that is, its message handlers return: a write to a
  client that stops reading without closing blocks as long as it does.
- `Handshake`: the caller of `initialize()`, the timer, the closing thread and
  the server are scheduled; an answer may always come too late.
- `HttpServer`: some thread of the server runs whenever one can (`ServerStep`);
  each takes finitely many steps, so none is left behind. Clients, clocks and
  failing writes need do nothing. A write to an event stream is assumed to end:
  sockets have no send time-out, and a client that stops reading and stays
  connected could hold a stream thread, and `stop`, until its connection ends.
- `MCTransports`: the event stream's thread, the thread that disconnects, the
  threads of the stdio client and of the child are scheduled, and a process that
  has to exit exits. Senders and the server need do nothing.

**Exceptions the properties state.** They are what the code does, and a reader
should know them:

- `TimedRequestCompletes` holds because progress is bounded: every progress
  notification restarts the clock.
- `DisconnectReturns` for HTTP: a server that takes the connection of the DELETE
  and then stays silent keeps `disconnect` in a read without a time-out: the
  result of the 500 ms poll before it is not used (http_client_transport.cpp:84).
- `QuietAfterDisconnect`: a `disconnect` on the thread it would have to join leaves
  the thread object joinable, and destroying it (for stdio also the next
  `connect`) terminates the program. It is not about senders: a POST may be about
  to poll `wake_` (:197, :264, :305) while `disconnect` resets it (:118).
- `DisconnectReturns` for stdio: `disconnect` joins the stdout thread, which waits
  for ever while a grandchild holds the child's stdout; and `exited_` is not reset
  by `connect`, so a second child is neither waited for nor signalled.
- `EofEndsServer`: another child that inherited the write end keeps the pipe open.
- `LossIsReported` for HTTP: failed GETs are not counted while the session id is
  empty, so a client without a session retries for ever (the comment at
  http_client_transport.hpp:34-36 knows only the number of failures); and an open
  stream is polled without a time-out, so a server that falls silent, or is cut
  off without a reset, is never missed.
- `CancelledOnceByEach`: `cancel_request` and the timer may both tell the peer of
  one request, when it had expired before it was cancelled.
- `ProgressCallbackIsPending` says that no callback of a timed request stays
  behind. A shared token lets one request erase the callback of another, and the
  callback of a request without a timeout stays until the close.
- `NoRequestIsForgotten`: a handler that throws what is no `std::exception`
  terminates the program.
- `ItemsAreIndependent`: an error object whose code or message has the wrong type
  makes `parse_frame` throw; the frame is lost and nothing catches the exception.
  message.hpp:60-61 says that it fails only on invalid JSON or an empty batch; a
  single item that is no message is a further case, and this one another.
- `CountsMatchWaiters` is about the total. threading.cpp:101-103 says that a count
  taken after a time-out does not leak to the next waiter; this holds only when
  nobody else is registered: a waiter that timed out and finds another one
  registered takes itself off and leaves the count to it.
- `StopReturns`: a session created after `stop` emptied the table keeps its
  stream, and `stop` may wait for it (finding 5).
- `NewestSessionWins` allows a late 404 to clear the id of a newer session.
- `DecodesWhatWasSent`: a head with bare line feeds takes a part of its body with
  it if CR LF CR LF has arrived there, since that is looked for first
  (http_codec.cpp:45), so the result depends on the cut; event data lose a
  carriage return at the end of a line (:271) and line breaks at their beginning
  (:302), although the comment at :250 says that embedded newlines survive. The
  JSON this library sends contains neither raw.
- `ViewsConverge` is about sessions that declared the capability when they were
  attached; the others refuse to list.

## 4. Findings

1. *A request can be orphaned by a close* (`session_orphan`). `send_request`
   does not look at the state; a request without a timeout registered after
   `fail_all_pending` is never completed.
2. *A queued message can be lost* (`sse_gap`). The watermark moves before the
   event is written, and the client takes the id of the initial event, the
   newest one assigned, as its resume point; a break in between loses the
   message although it is in the ring.
3. *A closed session does not stay in Shutdown* (`handshake_closed`):
   `initialize()` overwrites the state after its wait.
4. *A wakeup can be stolen on VxWorks* (`condvar_stolen`): a task that waits
   later takes the count given for a registered task that has not pended yet.
5. *`stop()` can leave a session behind* (`http_stop`): an initialize that is being
   handled when `stop()` empties the table adds its session afterwards, and nobody
   terminates or reports it.

The code and documents at the lines quoted in `PROJECT.json` disagree in these
five places. Hazards met while reading that no property covers:

- `src/core/session.cpp:104`: a cancellation may overtake its request.
- `src/core/session.cpp:330`: the timer cancels an initialize that timed out,
  although FR-CORE-015 forbids cancelling it.
- `src/core/session.cpp:466`: after a 404 the client's session cannot initialize
  again without being closed.
- `src/core/session.cpp:116`: `send_request_sync` inside a handler waits for the
  thread it runs on; the README forbids it to users.
- `src/transport/http/sse_channel.cpp:45`: `Last-Event-ID` is not validated.
- `src/transport/http/http_endpoint.cpp:105`: `conn_threads_` grows until `stop`.
- `src/transport/http_client_transport.cpp:384`: `last_event_id_` survives a change
  of session; `:118`: `wake_` is reset while a POST may still use it; `:239`: a late
  404 clears the id of a newer session.
- `src/client/client.cpp:107`: a failed `connect` resets a session that the roots
  callback (:123) reads without a lock.
- `src/transport/stdio_client_transport.cpp:126`: `exited_` is not reset, so that
  a second child is not waited for.
- `src/transport/stdio_client_transport.cpp:70`: `send` tests `stdin_fd_` and writes
  to it while `disconnect` closes it (the model's `SendTest` and `SendWrite` have
  the gap; a recycled descriptor is not followed).
- `src/server/resource_provider.cpp:254`: subscriptions and the log level are
  shared by all sessions of a server.
- `src/transport/http/http_codec.cpp:187`: the chunk size is accumulated without a
  check for overflow.

## 5. Proofs

`SessionProofs` proves for every value of the constants (any number of
requests, tokens, readers and cancellers, under `ConstantAssumption`, which
only says that the threads are different ones) that `Session` is type correct,
that `OneOwner`, `DeadlineIsPending`, `CancelledOnceByEach` and
`ProgressCallbackIsPending` are invariants, and that `Session` implements
`RequestContract`. None of these is inductive alone. `Inv` adds

- `FreshIds`: an id not yet handed out is known nowhere, so registering it
  cannot create a second owner;
- `HeldBriefly`: a thread holds callbacks only when it is about to run them,
  so taking another does not overwrite one;
- `StoppedBeforeTaken`: whoever completes a request or tells the peer about it
  has stopped its clock before, and no clock is started after that;
- `ToldOnce`: who has told the peer of a request, or is about to, will not come
  to it again, since it was taken off the clock and, by `cancel_request`, out of
  the table before;
- `PendingWhileTracked`: until the close a request is pending from its
  registration until its clock is set and while the clock runs;
- `CallbackTracked`: a progress callback is filed under its request's token,
  and for a timed request goes with the deadline.

There is one lemma per action (`InitInv`, ..., `NextInv`); the theorems follow
from `Inv` by temporal reasoning. The refinement shows that `SendRequest` is
`Issue`, `RunCallback` is `Complete`, and every other step a stutter.

`SseChannelProofs` proves, for any number of messages, GETs and breaks and any
size of the ring (`SseAssumption`), that `SseChannel` is type correct, that no
`notify_all` is missed, and that channel and client together implement
`TransportContract` (`ChannelIsTransport`): `Enqueue` is `Offer`, the client's
`Receive` of a message is `Deliver` or, for an initial event, a stutter, and so is
every other step. That a delivery is a legal one needs `DeliveredInOrder` and
what is still in the pipes: `Inv` adds that the ring holds the newest events
(`RingIsRecent`), that watermark and cursors never pass the newest id
(`Progress`, `BaselineAssigned`), that a resuming client asks for what follows its
last event (`ResumesAfterDelivered`, `RequestIsCurrent`), that a thread's cursor
is beyond everything its client received (`CursorBeyondDelivered`), and that
what a pipe holds continues what was delivered (`StreamInOrder`). That the ring
never outgrows its size is part of the type invariant.

`HttpServerProofs` proves three invariants and the refinement of
`SessionContract` for any number of connections, sessions and descriptors and
any POST bodies (`HttpServerAssumption`), along three arguments. `DescriptorInv`
ties thread, descriptor table and `connFds` together: a number is open for one
connection, a thread that has a descriptor is the one behind it (`OneHeld`), and
the phase of `stop` bounds what the threads can still do (`InPhase`);
`OwnDescriptor` and `StoppedIsQuiet` follow. `TableInv` says that a session is
in one place: in the table, taken by one thread, or removed (`OneHolder`,
`SweepHeld`), that numbers above the newest session are unused (`FreshNumbers`),
and that the single-session server uses number 1 only (`SingleSession`). From it
follows `SessionsEndOnce`: a step that opens a session is `Open`, one that takes
sessions out of the table `Retire`, one that closes or reports them `Close` or
`Report`, and the rest are stutters, with one lemma per action (`StepRefines`
puts them together). `CaptureInv` follows a POST through its thread: the answers
collected are those to the unreadable items and to the requests among the
messages delivered so far, in order (`Collected`), a thread begins to deliver at
the first message, and one that streams or terminates has no POST;
`PostAnswersItsOwn` follows. Actions that leave one of the first two alone are
covered by a frame lemma each (`ThreadMoves`, `TableRests`), the others have a
lemma of their own.

`VxCondVarProofs` proves for any finite set of waiters that `waiters_` and the
semaphore's count stay natural numbers and together equal the number of waiters
without a count (`CountsMatchWaiters`, inductive with `CondVarTypeOK`). The step
worth reading is `ReconcileInv`: a waiter that timed out finds its registration
or a count to consume, because it is itself one of the counted waiters.

`HandshakeProofs` proves type correctness, `NoPrematureRequest` and
`OperatingTogether` for any number of attempts, requests and lost POSTs
(`HandshakeAssumption`: the bounds are natural numbers, and at least one
cancellation can be tracked). `OperatingTogether` speaks of the states of the two
sides only; what makes it true is in the messages between them. `Inv` adds

- `Calls`, `Numbered`, `AnswersNumbered`: every call of `initialize()` has its own
  number, and no message carries a later one, so a late answer cannot be taken
  for an answer to the present call;
- `Accepting`, `SentAfter`: nobody operates, and nothing but initialize and its
  cancellation is sent, before an answer was accepted, and afterwards
  `initialize()` does not run again;
- `Agreed`, which holds as long as no POST was lost: an initialize in flight over
  HTTP is the one being waited for (`OwnPosts`); once the call under way has its
  positive answer the server is Initializing and no initialize is in flight that
  could set it back (`Answered`); from the acceptance on it is Operating or has
  `initialized` before it (`Paired`); and requests come behind that (`InTurn`).

`RegistryProofs` proves type correctness, `ViewsConverge`,
`NoRequestIsForgotten`, `NoDanglingSession` and `SubscriptionsAreKnown` for any
finite set of names, any sessions, peers and owner threads, and any page size
(`RegistryAssumption`: the page size is positive, as `set_page_size` ensures).
`OneAnswer` says that a request is being served or has its one answer on the way.
`ThreadsBroadcast` and `SessionsInOrder` say that a broadcast works through
attached sessions and that a session is attached, connected, closed and detached
in this order. `Knows` is the heart: a peer of an operating session that declared
the capability is either going to list again (`Outdated`: it knows so,
`list_changed` is in its inbox, or a thread is still to send it), or has seen
exactly the first entries of the registry up to its cursor, and the page on its
way continues them (`Known`, `Fits`). Three lemmas carry it: a page continues what
precedes its cursor (`Page`), serving a list keeps the invariant (`ListedInv`), and
a change outdates every peer that it concerns before it is visible (`ChangedInv`).

`TransportsProofs` has three sections.

*HTTP client.* Type correctness, `HttpQuiet` and, as an action property,
`NewestSessionWins`, for any number of senders, POSTs, sessions and outages
(`HttpClientAssumption`). `OneInitialize` (the caller's discipline, which the
model's `Post` takes from `ClientSession::initialize`) and `NewIsNewest` say that
an id that was received and not captured yet is the newest; `NoneFromTheFuture`
orders the ids of session, stream and last event; `WakeWhileConnected` ties the
wake event to the phase of `disconnect`. `HttpQuiet` is about `sse_loop` and its
thread object only.

*Stdio.* Type correctness, `SignalsOwnChild`, `NoLineLostAtEof`, `StdioQuiet` and
the refinement of `TransportContract` without loss (`StdioIsTransport`), for any
number of lines and connections (`StdioAssumption`). `ChildIsOurs` keeps the
child uncollected for as long as `disconnect` may signal it; `LinesInOrder` says
that the lines processed, buffered and in the pipe are together the lines sent;
`EofIsFinal` that a pipe found empty stays empty and the loop is left with
nothing unread unless `disconnect` ends it; `JoinedOrSelf` and `WakeExists` tie
threads and wake event to the phase of `disconnect`; `ClosedOnce` bounds the close
reports.

*The composition.* A step of `MCTransports` is a step of one transport and none
of the other (`OneOfThemSteps`), so both inductive invariants hold of it
(`TransportsInv`), and with them its `TypeOK`, `QuietAfterDisconnect` and
`ImplementsTransport` (`ChosenTransportDelivers`).

`ReadersProofs` proves what four loops compute, for inputs of any length. The
induction is over the steps of the loop: the invariant says what holds between
two iterations, and the property follows from it when the loop has ended. It
speaks about the whole input, so each invariant says how much of the input has
been used up and that buffer and unread rest are exactly what follows (`Remains`;
`ReadOn` and `TakeOff` preserve it).

- `LinesArriveWhole`: what was returned ends with a line (`UpToLine`), as many
  lines as there are line feeds before that place (`NumberCounts`), each the line
  of that number (`Returned`); or it was everything (`RestReturned`).
- `FrameItemsIndependent`: messages and errors so far are those of the items so
  far (`Delivered`), because `parse_message` gives back every message that
  `message_to_json` wrote (`RoundTrip`), refuses junk (`JunkRefused`) and throws on
  the mistyped errors (`MistypedThrows`).
- `TemplateMatchExact`: the part that is matched is cut up as the template says
  (`CutSoFar`, `ValuesSoFar`), and every way to cut the whole URI up passes
  through the same place (`OnlyCut`): the value of a variable ends where the
  literal after it occurs first (`OneValueEnd`), which is part of what a cut is.
- `BodyArrivesWhole`: `Place` says, for each state of the decoder, at which place
  of which chunk it is, how much of the data that makes, and in particular that
  after a line break follows a size line, and that the last two line breaks of a
  well-formed body are never both skipped as trailers (`DecodeTrailerInv`). The
  first line break in the buffer is then the one that ends the line that was
  sent (`BufferedLine`), wherever the reads cut it. `BodyAssumption` says what a
  body is; the size of a size line stays uninterpreted.

Every invariant, action property and refinement of the passing runs is proved
for all values of the constants, except `DecodesWhatWasSent`. What `parts` checks
of the other modules is proved of these modules' own specifications, whose
behaviours are those of the composition.

Only model-checked:

- `DecodesWhatWasSent`: what `format_sse_event` writes is defined by folds and
  flattening over the events, and what these compute for every input needs
  induction over it; the property also asks with `ENABLED` whether the decoder has
  come to rest. Both are out of the prover's reach;
- what `SizeOf` computes from the digits of a size, for the same reason: TLC
  evaluates it in `BodyAssumption` for the bodies of the run;
- all liveness (`TimedRequestCompletes`, `CloseCompletesPending`,
  `DestructorReturns`, `InitializeReturns`, `EventuallyDelivered`, `StreamsEnd`,
  `ClosedStreamEnds`, `StopReturns`, `DisconnectReturns`, `LossIsReported`,
  `EofEndsServer`): fairness and `ENABLED` are out of its reach too;
- the counterexamples of the runs that expect a violation.

## 6. Not modelled

- Schema validation and the conversion of content and results: recursion over
  JSON documents without state. `Registry` lets validation accept or refuse.
- The diagnostic log: output only.
- The Win32 and VxWorks versions of I/O, sockets and processes: the same
  interface over other system calls. The models are of the POSIX behaviour; the
  VxWorks mutex and thread are thin wrappers.
- Handler tables and wildcard methods of the router, which are written at
  start-up; `set_*_handler` after `connect`, which is unsynchronised and which the
  header leaves to the user; checks of names and URIs (only valid ones are used).
- The examples, which use the library and read kernel statistics.

## 7. What is next

1. *Readability of the two largest proofs*: `RegistryProofs` has one lemma per
   action and kind of state; facts about inboxes that several of them derive can
   become lemmas of their own.
2. *Compositions*: `HttpClient` against `HttpServer` instead of its reduced
   server, with `NewestSessionWins` and `SessionContract` carried over.
3. *An abstract registry* that a peer's view of `Registry` implements.
