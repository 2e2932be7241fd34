----------------------------- MODULE SseChannel -----------------------------
(***************************************************************************)
(* The resumable event stream of the HTTP transports: the server's         *)
(* SseChannel (src/transport/http/sse_channel.cpp), one thread per GET     *)
(* inside attach_stream, and the client's run_sse_once                     *)
(* (src/transport/http_client_transport.cpp), which remembers the last     *)
(* event id and sends it with the next GET.                                *)
(*                                                                         *)
(* A message is identified with the event id enqueue gives it.  A stream   *)
(* is one GET: stream[s] is the attach_stream thread, pipe[s] what it      *)
(* wrote and the client has not read.  A connection may break at any time; *)
(* what is in its pipe is then lost and later writes fail or vanish.       *)
(***************************************************************************)
EXTENDS Integers, Sequences, SequencesExt, FiniteSets

CONSTANTS
    MaxEvents,         \* bound on the messages the server sends
    MaxStreams,        \* bound on the GETs of the client
    MaxDrops,          \* bound on broken connections
    PipeSize,          \* events a connection holds before a write blocks
    ReplayBufferSize,  \* replay_buffer_size_
    NoId               \* no Last-Event-ID

Streams == 1..MaxStreams

\* An event is a message, or the one without data that begins a stream.
Event == {e \in [id : 0..MaxEvents, data : BOOLEAN] : e.data => e.id > 0}

ASSUME SseAssumption ==
    /\ MaxEvents \in Nat /\ MaxStreams \in Nat /\ MaxDrops \in Nat
    /\ {PipeSize, ReplayBufferSize} \subseteq Nat \ {0}
    /\ NoId \notin Nat

VARIABLES
    running,          \* running_
    ring,             \* ring_: the ids of the events kept for replay
    nextEventId,      \* next_event_id_
    nextUndelivered,  \* next_undelivered_
    generation,       \* stream_generation_
    waiting,          \* streams asleep in cv_.wait
    notifies,         \* calls of cv_.notify_all still to be made
    stream,           \* where the thread of each GET is
    myGeneration,     \* its my_generation
    cursor,           \* its cursor
    lastAssigned,     \* its last_assigned
    batch,            \* its local vector of pending events
    pipe,             \* events written and not yet read
    broken,           \* streams whose connection is gone
    requested,        \* the Last-Event-ID of each GET that is not attached yet
    current,          \* the stream the client reads, 0 if none
    lastEventId,      \* the client's last_event_id_
    delivered,        \* messages the client handed to its session
    drops             \* broken connections so far

channelVars == <<running, ring, nextEventId, nextUndelivered, generation,
                 notifies>>
localVars == <<myGeneration, cursor, lastAssigned, batch>>
clientVars == <<requested, current, lastEventId, delivered, drops>>
vars == <<running, ring, nextEventId, nextUndelivered, generation, waiting,
          notifies, stream, myGeneration, cursor, lastAssigned, batch, pipe, broken,
          requested, current, lastEventId, delivered, drops>>

Init ==
    /\ running = TRUE
    /\ ring = <<>>
    /\ nextEventId = 1
    /\ nextUndelivered = 1
    /\ generation = 0
    /\ waiting = {}
    /\ notifies = 0
    /\ stream = [s \in Streams |-> "new"]
    /\ myGeneration = [s \in Streams |-> 0]
    /\ cursor = [s \in Streams |-> 0]
    /\ lastAssigned = [s \in Streams |-> 0]
    /\ batch = [s \in Streams |-> <<>>]
    /\ pipe = [s \in Streams |-> <<>>]
    /\ broken = {}
    /\ requested = [s \in Streams |-> NoId]
    /\ current = 0
    /\ lastEventId = NoId
    /\ delivered = <<>>
    /\ drops = 0

-----------------------------------------------------------------------------
(* The channel                                                             *)

\* The newest ReplayBufferSize elements.
Trim(q) == SubSeq(q, Len(q) - ReplayBufferSize + 1, Len(q))

\* Mutant: nobody is notified.
EnqueueSilently ==
    /\ running
    /\ nextEventId <= MaxEvents
    /\ LET longer == Append(ring, nextEventId)
       IN  ring' = IF Len(longer) > ReplayBufferSize THEN Trim(longer) ELSE longer
    /\ nextEventId' = nextEventId + 1
    /\ UNCHANGED <<running, nextUndelivered, generation, waiting, notifies,
                   stream, localVars, pipe, broken, clientVars>>

\* enqueue, with the lock held.  Once the channel is shut down it does nothing.
Enqueue ==
    /\ running
    /\ nextEventId <= MaxEvents
    /\ LET longer == Append(ring, nextEventId)
       IN  ring' = IF Len(longer) > ReplayBufferSize THEN Trim(longer) ELSE longer
    /\ nextEventId' = nextEventId + 1
    /\ notifies' = notifies + 1
    /\ UNCHANGED <<running, nextUndelivered, generation, waiting, stream,
                   localVars, pipe, broken, clientVars>>

\* cv_.notify_all, after the lock was released: every sleeper wakes.
NotifyAll ==
    /\ notifies > 0
    /\ notifies' = notifies - 1
    /\ waiting' = {}
    /\ UNCHANGED <<running, ring, nextEventId, nextUndelivered, generation,
                   stream, localVars, pipe, broken, clientVars>>

\* Mutant: the stream resumes at the given id instead of after it.
StartCursorAtId(s) == IF requested[s] # NoId THEN requested[s] ELSE nextUndelivered

\* Resume after the given id, or start at the first never-delivered event.
StartCursor(s) == IF requested[s] # NoId THEN requested[s] + 1 ELSE nextUndelivered

\* Mutant: taking over wakes nobody.
AttachSilently(s) ==
    /\ stream[s] = "requested"
    /\ running
    /\ generation' = generation + 1
    /\ myGeneration' = [myGeneration EXCEPT ![s] = generation + 1]
    /\ lastAssigned' = [lastAssigned EXCEPT ![s] = nextEventId - 1]
    /\ cursor' = [cursor EXCEPT ![s] = StartCursor(s)]
    /\ stream' = [stream EXCEPT ![s] = "initial"]
    /\ UNCHANGED <<running, ring, nextEventId, nextUndelivered, waiting,
                   notifies, batch, pipe, broken, clientVars>>

\* The first section of attach_stream: the newest stream takes over.
Attach(s) ==
    /\ stream[s] = "requested"
    /\ IF running
       THEN /\ generation' = generation + 1
            /\ myGeneration' = [myGeneration EXCEPT ![s] = generation + 1]
            /\ lastAssigned' = [lastAssigned EXCEPT ![s] = nextEventId - 1]
            /\ cursor' = [cursor EXCEPT ![s] = StartCursor(s)]
            /\ stream' = [stream EXCEPT ![s] = "notify"]
       ELSE /\ stream' = [stream EXCEPT ![s] = "closed"]
            /\ UNCHANGED <<generation, myGeneration, lastAssigned, cursor>>
    /\ requested' = [requested EXCEPT ![s] = NoId]
    /\ UNCHANGED <<running, ring, nextEventId, nextUndelivered, waiting,
                   notifies, batch, pipe, broken, current, lastEventId,
                   delivered, drops>>

\* Then it wakes the stream it displaced.
AttachNotify(s) ==
    /\ stream[s] = "notify"
    /\ waiting' = {}
    /\ stream' = [stream EXCEPT ![s] = "initial"]
    /\ UNCHANGED <<channelVars, localVars, pipe, broken, clientVars>>

\* pal::write_all: into the pipe, blocking while that is full; on a broken
\* connection it fails or vanishes.
Written(s, event, next) ==
    \/ /\ s \notin broken /\ Len(pipe[s]) < PipeSize
       /\ pipe' = [pipe EXCEPT ![s] = Append(@, event)]
       /\ stream' = [stream EXCEPT ![s] = next]
    \/ /\ s \in broken
       /\ stream' \in {[stream EXCEPT ![s] = next], [stream EXCEPT ![s] = "closed"]}
       /\ UNCHANGED pipe

\* Head and initial event: the id baseline, without data.  last_assigned is
\* not used again.
WriteInitial(s) ==
    /\ stream[s] = "initial"
    /\ Written(s, [id |-> lastAssigned[s], data |-> FALSE], "loop")
    /\ lastAssigned' = [lastAssigned EXCEPT ![s] = 0]
    /\ UNCHANGED <<channelVars, waiting, myGeneration, cursor, batch, broken,
                   clientVars>>

\* What the condition variable waits for.
WakePredicate(s) ==
    \/ ~running
    \/ generation # myGeneration[s]
    \/ ring # <<>> /\ Last(ring) >= cursor[s]

\* The predicate is false and the thread goes to sleep, atomically.
Wait(s) ==
    /\ stream[s] = "loop"
    /\ s \notin waiting
    /\ ~WakePredicate(s)
    /\ waiting' = waiting \cup {s}
    /\ UNCHANGED <<channelVars, stream, localVars, pipe, broken, clientVars>>

\* Shutdown or a newer stream took over.
LeaveLoop(s) ==
    /\ stream[s] = "loop"
    /\ s \notin waiting
    /\ ~running \/ generation # myGeneration[s]
    /\ stream' = [stream EXCEPT ![s] = "closed"]
    /\ UNCHANGED <<channelVars, waiting, localVars, pipe, broken, clientVars>>

\* The items of the ring whose id is not below the cursor; the ids ascend.
Pending(s) ==
    LET first == CHOOSE i \in DOMAIN ring :
                    ring[i] >= cursor[s] /\ \A j \in 1..(i - 1) : ring[j] < cursor[s]
    IN  SubSeq(ring, first, Len(ring))

\* The events to send are copied, and cursor and watermark advanced, before
\* anything is written.
Collect(s) ==
    /\ stream[s] = "loop"
    /\ s \notin waiting
    /\ running
    /\ generation = myGeneration[s]
    /\ ring # <<>> /\ Last(ring) >= cursor[s]
    /\ batch' = [batch EXCEPT ![s] = Pending(s)]
    /\ cursor' = [cursor EXCEPT ![s] = Last(ring) + 1]
    /\ nextUndelivered' = IF Last(ring) + 1 > nextUndelivered
                          THEN Last(ring) + 1 ELSE nextUndelivered
    /\ stream' = [stream EXCEPT ![s] = "write"]
    /\ UNCHANGED <<running, ring, nextEventId, generation, waiting, notifies,
                   myGeneration, lastAssigned, pipe, broken, clientVars>>

WriteEvent(s) ==
    /\ stream[s] = "write"
    /\ Written(s, [id |-> Head(batch[s]), data |-> TRUE],
               IF Len(batch[s]) = 1 THEN "loop" ELSE "write")
    /\ batch' = [batch EXCEPT ![s] = Tail(@)]
    /\ UNCHANGED <<channelVars, waiting, myGeneration, cursor, lastAssigned,
                   broken, clientVars>>

\* Mutant: running_ is cleared and no stream is woken.
ShutdownSilently ==
    /\ running
    /\ running' = FALSE
    /\ UNCHANGED <<ring, nextEventId, nextUndelivered, generation, waiting,
                   notifies, stream, localVars, pipe, broken, clientVars>>

Shutdown ==
    /\ running
    /\ running' = FALSE
    /\ notifies' = notifies + 1
    /\ UNCHANGED <<ring, nextEventId, nextUndelivered, generation, waiting,
                   stream, localVars, pipe, broken, clientVars>>

-----------------------------------------------------------------------------
(* The client: run_sse_once, again and again                               *)

\* A GET with the last event id seen so far.
Open(s) ==
    /\ current = 0
    /\ stream[s] = "new"
    /\ \A q \in 1..(s - 1) : stream[q] # "new"
    /\ current' = s
    /\ requested' = [requested EXCEPT ![s] = lastEventId]
    /\ stream' = [stream EXCEPT ![s] = "requested"]
    /\ UNCHANGED <<channelVars, waiting, localVars, pipe, broken, lastEventId,
                   delivered, drops>>

\* One event: the id is remembered, then the data, if any, is delivered.
Receive ==
    /\ current # 0
    /\ pipe[current] # <<>>
    /\ LET event == Head(pipe[current])
       IN  /\ lastEventId' = event.id
           /\ delivered' = IF event.data THEN Append(delivered, event.id)
                                         ELSE delivered
    /\ pipe' = [pipe EXCEPT ![current] = Tail(@)]
    /\ UNCHANGED <<channelVars, waiting, stream, localVars, broken, requested,
                   current, drops>>

\* The server closed the stream and everything it wrote was read.
EndOfStream ==
    /\ current # 0
    /\ stream[current] = "closed"
    /\ pipe[current] = <<>>
    /\ current' = 0
    /\ UNCHANGED <<channelVars, waiting, stream, localVars, pipe, broken,
                   requested, lastEventId, delivered, drops>>

\* The connection breaks: unread events are lost, and the server's thread
\* notices only when a write fails.
Drop ==
    /\ current # 0
    /\ drops < MaxDrops
    /\ drops' = drops + 1
    /\ broken' = broken \cup {current}
    /\ pipe' = [pipe EXCEPT ![current] = <<>>]
    /\ current' = 0
    /\ UNCHANGED <<channelVars, waiting, stream, localVars, requested,
                   lastEventId, delivered>>

-----------------------------------------------------------------------------

StreamStep(s) ==
    \/ Attach(s) \/ AttachNotify(s) \/ WriteInitial(s)
    \/ Wait(s) \/ LeaveLoop(s) \/ Collect(s) \/ WriteEvent(s)

ClientStep == Receive \/ EndOfStream \/ \E s \in Streams : Open(s)

Next ==
    \/ Enqueue \/ Shutdown \/ NotifyAll \/ Drop
    \/ ClientStep
    \/ \E s \in Streams : StreamStep(s)

Spec == Init /\ [][Next]_vars

\* The threads of the server and the client's reconnect loop are scheduled, and
\* the client reads on: its message handlers return.
Fairness ==
    /\ \A s \in Streams : WF_vars(StreamStep(s))
    /\ WF_vars(NotifyAll) /\ WF_vars(ClientStep)

FairSpec == Spec /\ Fairness

-----------------------------------------------------------------------------
(* Properties                                                              *)

ChannelTypeOK ==
    /\ running \in BOOLEAN
    /\ ring \in Seq(1..MaxEvents) /\ Len(ring) <= ReplayBufferSize
    /\ nextEventId \in 1..(MaxEvents + 1)
    /\ nextUndelivered \in 1..(MaxEvents + 1)
    /\ generation \in Nat
    /\ notifies \in Nat

StreamTypeOK ==
    /\ waiting \subseteq Streams
    /\ stream \in [Streams -> {"new", "requested", "notify", "initial", "loop",
                               "write", "closed"}]
    /\ myGeneration \in [Streams -> Nat]
    /\ cursor \in [Streams -> 0..(MaxEvents + 1)]
    /\ lastAssigned \in [Streams -> 0..MaxEvents]
    /\ batch \in [Streams -> Seq(1..MaxEvents)]
    /\ pipe \in [Streams -> Seq(Event)]
    /\ broken \subseteq Streams

ClientTypeOK ==
    /\ requested \in [Streams -> 0..MaxEvents \cup {NoId}]
    /\ current \in 0..MaxStreams
    /\ lastEventId \in 0..MaxEvents \cup {NoId}
    /\ delivered \in Seq(1..MaxEvents)
    /\ drops \in 0..MaxDrops

\* Every variable holds a value the two programs can give it, and the ring
\* never holds more than replay_buffer_size_ events.
TypeOK == ChannelTypeOK /\ StreamTypeOK /\ ClientTypeOK

\* Whatever breaks, replays and takeovers happen, the client hands the messages
\* of a channel to its session as a Transport should: each at most once, in the
\* order of enqueue, and never takes one back (resume after Last-Event-ID,
\* FR-TRAN-009).  Connections that break belong to the same channel.
Transport == INSTANCE TransportContract
    WITH Lossless <- FALSE, connection <- 0, offered <- nextEventId - 1, closes <- 0
ImplementsTransport == Transport!Spec

\* No wakeup is missed although notify_all comes after the unlock: a stream
\* sleeps while it has something to send, has been displaced or should end
\* only as long as somebody is about to call notify_all.
NobodySleepsThroughWork ==
    \A s \in waiting :
        WakePredicate(s) => \/ notifies > 0
                            \/ \E q \in Streams : stream[q] = "notify"

\* A message the server queued reaches the client, with or without a stream
\* attached when it was queued, unless a connection breaks, the message falls
\* out of the ring or the channel is shut down.
EventuallyDelivered ==
    \A id \in 1..MaxEvents :
        id \in ToSet(ring) ~> \/ id \in ToSet(delivered) \/ drops > 0
                              \/ id \notin ToSet(ring) \/ ~running

\* After shutdown, or when a newer stream has displaced it, a stream thread
\* leaves attach_stream, so that the endpoint can join its connection threads.
StreamsEnd ==
    \A s \in Streams :
        /\ stream[s] \in {"notify", "initial", "loop", "write"}
        /\ ~running \/ generation # myGeneration[s]
        ~> stream[s] = "closed"

\* The client delivers the messages without a gap, as long as the ring still
\* holds everything that was sent.
DeliveredWithoutGaps == \A i \in DOMAIN delivered : delivered[i] = i
=============================================================================
