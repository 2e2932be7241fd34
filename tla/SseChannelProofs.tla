-------------------------- MODULE SseChannelProofs --------------------------
(***************************************************************************)
(* The event stream, for any number of messages, GETs and broken           *)
(* connections and any size of the ring: nobody sleeps through work, and   *)
(* the client delivers messages once and in order.                         *)
(***************************************************************************)
EXTENDS SseChannel, SequenceTheorems, TLAPS

-----------------------------------------------------------------------------
(* The inductive invariant                                                 *)

\* The ring holds the newest events: consecutive ids that end before the next
\* one to be assigned.
RingIsRecent ==
    /\ Len(ring) < nextEventId
    /\ \A i \in 1..Len(ring) : ring[i] = nextEventId - 1 - Len(ring) + i

\* A stream that writes has something to write, one that has not started has
\* neither written nor collected anything.
Progress ==
    \A s \in Streams :
        /\ stream[s] = "write" => batch[s] # <<>>
        /\ stream[s] \in {"new", "requested", "notify", "initial"} =>
              batch[s] = <<>> /\ pipe[s] = <<>>

\* The client has not delivered a message twice or out of order.
DeliveredInOrder ==
    \A i, j \in DOMAIN delivered : i < j => delivered[i] < delivered[j]

\* What the client has delivered was assigned, and is not beyond the id that it
\* sends with its next GET.
ResumesAfterDelivered ==
    \A k \in 1..Len(delivered) :
        delivered[k] < nextEventId /\ lastEventId # NoId /\ delivered[k] <= lastEventId

\* The stream the client reads was opened with that id.
RequestIsCurrent ==
    /\ current # 0 => stream[current] # "new"
    /\ current # 0 /\ stream[current] = "requested" => requested[current] = lastEventId

\* Once attached, that stream has its cursor beyond all that was delivered, ...
CursorBeyondDelivered ==
    current # 0 /\ stream[current] \in {"notify", "initial", "loop", "write"} =>
        \A k \in 1..Len(delivered) :
            /\ delivered[k] < cursor[current]
            /\ stream[current] \in {"notify", "initial"} => delivered[k] <= lastAssigned[current]

\* ... and what it has written (p) and collected (b) will be delivered after
\* what was delivered (d): the initial event at most comes first, then messages
\* in order, below the cursor c and the next id n.
PipeInOrder(d, p, c, n) ==
    \A j \in 1..Len(p) :
        /\ p[j].id < n
        /\ p[j].data => p[j].id < c
        /\ \A i \in 1..(j - 1) : p[j].data /\ (p[i].data => p[i].id < p[j].id)
        /\ \A k \in 1..Len(d) : d[k] <= p[j].id /\ (p[j].data => d[k] # p[j].id)

BatchInOrder(d, p, b, c, n) ==
    \A j \in 1..Len(b) :
        /\ b[j] < c /\ b[j] < n
        /\ \A i \in 1..(j - 1) : b[i] < b[j]
        /\ \A i \in 1..Len(p) : p[i].data => p[i].id < b[j]
        /\ \A k \in 1..Len(d) : d[k] < b[j]

StreamInOrder ==
    current # 0 =>
        /\ PipeInOrder(delivered, pipe[current], cursor[current], nextEventId)
        /\ BatchInOrder(delivered, pipe[current], batch[current], cursor[current], nextEventId)

\* The initial event's id has been assigned.
BaselineAssigned == \A s \in Streams : lastAssigned[s] < nextEventId

Inv ==
    /\ TypeOK /\ NobodySleepsThroughWork /\ DeliveredInOrder
    /\ RingIsRecent /\ Progress /\ BaselineAssigned
    /\ ResumesAfterDelivered /\ RequestIsCurrent /\ CursorBeyondDelivered
    /\ StreamInOrder
-----------------------------------------------------------------------------
(* Types                                                                   *)

\* What the end of a sequence holds.
LEMMA Suffix ==
    ASSUME NEW S, NEW q \in Seq(S), NEW m \in 1..Len(q)
    PROVE  LET r == SubSeq(q, m, Len(q)) IN
           /\ r \in Seq(S) /\ Len(r) = Len(q) - m + 1
           /\ \A i \in 1..Len(r) : m + i - 1 \in 1..Len(q) /\ r[i] = q[m + i - 1]
<1>1. Len(q) \in Nat /\ \A i \in m..Len(q) : q[i] \in S
  OBVIOUS
<1>2. /\ SubSeq(q, m, Len(q)) \in Seq(S)
      /\ Len(SubSeq(q, m, Len(q))) = IF m <= Len(q) THEN Len(q) - m + 1 ELSE 0
      /\ \A i \in 1 .. Len(q) - m + 1 : SubSeq(q, m, Len(q))[i] = q[m + i - 1]
  BY <1>1, SubSeqProperties
<1> QED
  BY <1>1, <1>2

\* The stream that run_sse_once reads is one of its GETs.
LEMMA CurrentStream ==
    ASSUME TypeOK, current # 0 PROVE current \in Streams
  BY SseAssumption DEF TypeOK, ClientTypeOK, Streams

\* enqueue keeps the newest events, in a row.
LEMMA EnqueueRing ==
    ASSUME ChannelTypeOK, RingIsRecent, Enqueue
    PROVE  /\ ring' \in Seq(1..MaxEvents) /\ Len(ring') <= ReplayBufferSize
           /\ RingIsRecent'
<1> DEFINE longer == Append(ring, nextEventId)
<1> DEFINE from == Len(longer) - ReplayBufferSize + 1
<1>1. nextEventId \in 1..MaxEvents /\ nextEventId' = nextEventId + 1 /\ MaxEvents \in Nat
  BY SseAssumption DEF ChannelTypeOK, Enqueue
<1>2. /\ longer \in Seq(1..MaxEvents) /\ Len(longer) = Len(ring) + 1 /\ Len(ring) \in Nat
      /\ \A i \in 1..Len(longer) : longer[i] = IF i = Len(ring) + 1 THEN nextEventId ELSE ring[i]
  BY <1>1 DEF ChannelTypeOK
<1>3. \A i \in 1..Len(longer) : longer[i] = nextEventId - Len(longer) + i
  <2> SUFFICES ASSUME NEW i \in 1..Len(longer)
               PROVE  longer[i] = nextEventId - Len(longer) + i
    OBVIOUS
  <2>1. CASE i = Len(ring) + 1
    BY <1>1, <1>2, <2>1
  <2>2. CASE i # Len(ring) + 1
    <3>1. i \in 1..Len(ring) /\ longer[i] = ring[i]
      BY <1>2, <2>2
    <3>2. ring[i] = nextEventId - 1 - Len(ring) + i
      BY <3>1 DEF RingIsRecent
    <3> QED
      BY <1>1, <1>2, <3>1, <3>2
  <2> QED
    BY <2>1, <2>2
<1>4. CASE Len(longer) > ReplayBufferSize
  <2>1. ring' = SubSeq(longer, from, Len(longer))
    BY <1>4 DEF Enqueue, Trim
  <2>2. Len(longer) \in Nat /\ ReplayBufferSize \in Nat /\ ReplayBufferSize > 0 /\ from \in 1..Len(longer)
    BY <1>2, <1>4, SseAssumption
  <2> HIDE DEF longer
  <2>3. /\ ring' \in Seq(1..MaxEvents) /\ Len(ring') = Len(longer) - from + 1
        /\ \A i \in 1..Len(ring') :
              from + i - 1 \in 1..Len(longer) /\ ring'[i] = longer[from + i - 1]
    BY <1>2, <2>1, <2>2, Suffix
  <2>4. Len(ring') = ReplayBufferSize
    BY <2>2, <2>3
  <2>5. \A i \in 1..Len(ring') : ring'[i] = nextEventId' - 1 - Len(ring') + i
    <3> SUFFICES ASSUME NEW i \in 1..Len(ring')
                 PROVE  ring'[i] = nextEventId' - 1 - Len(ring') + i
      OBVIOUS
    <3>1. ring'[i] = nextEventId - Len(longer) + (from + i - 1)
      BY <1>3, <2>3
    <3> QED
      BY <1>1, <2>2, <2>4, <3>1
  <2>6. Len(ring') < nextEventId'
    BY <1>1, <1>2, <1>4, <2>2, <2>4 DEF RingIsRecent
  <2> QED
    BY <2>2, <2>3, <2>4, <2>5, <2>6 DEF RingIsRecent
<1>5. CASE ~(Len(longer) > ReplayBufferSize)
  <2>1. ring' = longer
    BY <1>5 DEF Enqueue
  <2> QED
    BY <1>1, <1>2, <1>3, <1>5, <2>1, SseAssumption DEF RingIsRecent
<1> QED
  BY <1>4, <1>5

-----------------------------------------------------------------------------
(* What happens to the order of the sequences                              *)

\* Another event is queued.
LEMMA OrderEnqueue ==
    ASSUME NEW d \in Seq(Nat), NEW p \in Seq(Event), NEW b \in Seq(Nat), NEW c \in Nat, NEW n \in Nat,
           PipeInOrder(d, p, c, n), BatchInOrder(d, p, b, c, n)
    PROVE  PipeInOrder(d, p, c, n + 1) /\ BatchInOrder(d, p, b, c, n + 1)
<1>1. \A j \in 1..Len(p) : p[j].id \in Nat
  <2>1. \A e \in Event : e.id \in Nat
    BY SseAssumption DEF Event
  <2>2. \A j \in 1..Len(p) : p[j] \in Event
    OBVIOUS
  <2> QED
    BY <2>1, <2>2
<1>2. \A j \in 1..Len(b) : b[j] \in Nat
  OBVIOUS
<1>3. PipeInOrder(d, p, c, n + 1)
  BY <1>1 DEF PipeInOrder
<1>4. BatchInOrder(d, p, b, c, n + 1)
  BY <1>2 DEF BatchInOrder
<1> QED
  BY <1>3, <1>4

\* The stream has written nothing but the initial event.
LEMMA OrderInitial ==
    ASSUME NEW d \in Seq(Nat), NEW e \in Event, ~e.data, NEW c \in Nat, NEW n \in Nat,
           e.id < n, \A k \in 1..Len(d) : d[k] <= e.id
    PROVE  PipeInOrder(d, Append(<<>>, e), c, n)
<1>1. Len(Append(<<>>, e)) = 1 /\ Append(<<>>, e)[1] = e
  OBVIOUS
<1> HIDE DEF Event
<1> QED
  BY <1>1 DEF PipeInOrder

\* The first event of the batch is written.
LEMMA OrderWrite ==
    ASSUME NEW d \in Seq(Nat), NEW p \in Seq(Event), NEW b \in Seq(Nat), NEW c \in Nat, NEW n \in Nat,
           PipeInOrder(d, p, c, n), BatchInOrder(d, p, b, c, n), b # <<>>,
           NEW e \in Event, e.id = Head(b), e.data
    PROVE  /\ PipeInOrder(d, Append(p, e), c, n)
           /\ BatchInOrder(d, Append(p, e), Tail(b), c, n)
           /\ BatchInOrder(d, p, Tail(b), c, n)
<1> DEFINE q == Append(p, e)
<1> DEFINE t == Tail(b)
<1>1. /\ Len(q) = Len(p) + 1 /\ Len(p) \in Nat
      /\ \A i \in 1..Len(p) : q[i] = p[i]
      /\ q[Len(p) + 1] = e
  OBVIOUS
<1>2. /\ Len(b) \in Nat /\ Len(b) > 0 /\ Len(t) = Len(b) - 1 /\ Head(b) = b[1]
      /\ \A i \in 1..Len(t) : t[i] = b[i + 1]
  BY HeadTailProperties
<1>3. /\ b[1] < c /\ b[1] < n
      /\ \A i \in 1..Len(p) : p[i].data => p[i].id < b[1]
      /\ \A k \in 1..Len(d) : d[k] < b[1]
  BY <1>2 DEF BatchInOrder
<1>4. \A k \in 1..Len(d) : d[k] <= b[1] /\ d[k] # b[1]
  <2> SUFFICES ASSUME NEW k \in 1..Len(d) PROVE d[k] <= b[1] /\ d[k] # b[1]
    OBVIOUS
  <2>1. d[k] \in Nat /\ b[1] \in Nat /\ d[k] < b[1]
    BY <1>2, <1>3
  <2> QED
    BY <2>1
<1>5. PipeInOrder(d, q, c, n)
  <2> SUFFICES ASSUME NEW j \in 1..Len(q)
               PROVE  /\ q[j].id < n
                      /\ q[j].data => q[j].id < c
                      /\ \A i \in 1..(j - 1) : q[j].data /\ (q[i].data => q[i].id < q[j].id)
                      /\ \A k \in 1..Len(d) : d[k] <= q[j].id /\ (q[j].data => d[k] # q[j].id)
    BY DEF PipeInOrder
  <2> HIDE DEF q, t
  <2>1. CASE j = Len(p) + 1
    <3>1. \A i \in 1..(j - 1) : q[i] = p[i] /\ i \in 1..Len(p)
      BY <1>1, <2>1
    <3> QED
      BY <1>1, <1>2, <1>3, <1>4, <2>1, <3>1
  <2>2. CASE j # Len(p) + 1
    <3>1. j \in 1..Len(p) /\ q[j] = p[j] /\ \A i \in 1..(j - 1) : q[i] = p[i]
      BY <1>1, <2>2
    <3> QED
      BY <3>1 DEF PipeInOrder
  <2> QED
    BY <2>1, <2>2
<1>6. ASSUME NEW j \in 1..Len(t)
      PROVE  /\ j + 1 \in 1..Len(b) /\ t[j] = b[j + 1] /\ t[j] < c /\ t[j] < n
             /\ \A i \in 1..(j - 1) : t[i] < t[j]
             /\ \A i \in 1..Len(p) : p[i].data => p[i].id < t[j]
             /\ \A k \in 1..Len(d) : d[k] < t[j]
             /\ b[1] < t[j]
  <2> HIDE DEF q, t
  <2>1. j + 1 \in 1..Len(b) /\ t[j] = b[j + 1]
    BY <1>2
  <2>2. \A i \in 1..(j - 1) : t[i] = b[i + 1] /\ i + 1 \in 1..((j + 1) - 1)
    <3> SUFFICES ASSUME NEW i \in 1..(j - 1)
                 PROVE  t[i] = b[i + 1] /\ i + 1 \in 1..((j + 1) - 1)
      OBVIOUS
    <3>1. i \in 1..Len(t) /\ i + 1 \in 1..((j + 1) - 1)
      BY <1>2, <2>1
    <3> QED
      BY <1>2, <3>1
  <2>3. /\ b[j + 1] < c /\ b[j + 1] < n
        /\ \A i \in 1..((j + 1) - 1) : b[i] < b[j + 1]
        /\ \A i \in 1..Len(p) : p[i].data => p[i].id < b[j + 1]
        /\ \A k \in 1..Len(d) : d[k] < b[j + 1]
    BY <2>1 DEF BatchInOrder
  <2>4. 1 \in 1..((j + 1) - 1)
    BY <2>1
  <2> QED
    BY <2>1, <2>2, <2>3, <2>4
<1>7. BatchInOrder(d, p, t, c, n)
  BY <1>6 DEF BatchInOrder
<1>8. BatchInOrder(d, q, t, c, n)
  <2>1. ASSUME NEW j \in 1..Len(t), NEW i \in 1..Len(q), q[i].data PROVE q[i].id < t[j]
    <3> HIDE DEF q, t
    <3>1. CASE i = Len(p) + 1
      BY <1>1, <1>2, <1>6, <3>1
    <3>2. CASE i # Len(p) + 1
      <4>0. i \in 1..Len(p)
        BY <1>1, <3>2
      <4>1. i \in 1..Len(p) /\ q[i] = p[i]
        BY <1>1, <4>0
      <4> QED
        BY <4>1, <1>6, <2>1
    <3> QED
      BY <3>1, <3>2
  <2> HIDE DEF q, t
  <2> QED
    BY <1>6, <2>1 DEF BatchInOrder
<1> QED
  BY <1>5, <1>7, <1>8

\* The client reads the next event.
LEMMA OrderReceive ==
    ASSUME NEW d \in Seq(Nat), NEW p \in Seq(Event), NEW b \in Seq(Nat), NEW c \in Nat, NEW n \in Nat,
           PipeInOrder(d, p, c, n), BatchInOrder(d, p, b, c, n), p # <<>>,
           \A i, j \in 1..Len(d) : i < j => d[i] < d[j],
           \A k \in 1..Len(d) : d[k] < n,
           NEW r \in Seq(Nat), r = IF Head(p).data THEN Append(d, Head(p).id) ELSE d
    PROVE  /\ PipeInOrder(r, Tail(p), c, n) /\ BatchInOrder(r, Tail(p), b, c, n)
           /\ \A i, j \in 1..Len(r) : i < j => r[i] < r[j]
           /\ \A k \in 1..Len(r) : r[k] < n /\ r[k] <= Head(p).id
           /\ (\A k \in 1..Len(d) : d[k] < c) => \A k \in 1..Len(r) : r[k] < c
<1> DEFINE h == Head(p)
<1> DEFINE t == Tail(p)
<1>1. /\ Len(p) \in Nat /\ Len(p) > 0 /\ h = p[1] /\ h \in Event
      /\ t \in Seq(Event) /\ Len(t) = Len(p) - 1 /\ \A i \in 1..Len(t) : t[i] = p[i + 1]
  BY HeadTailProperties
<1>2. h.id \in Nat /\ \A e \in Event : e.id \in Nat /\ e.data \in BOOLEAN
  BY <1>1, SseAssumption DEF Event
<1>3. /\ h.id < n /\ (h.data => h.id < c)
      /\ \A k \in 1..Len(d) : d[k] <= h.id /\ (h.data => d[k] # h.id)
  BY <1>1 DEF PipeInOrder
<1>4. \A k \in 1..Len(d) : d[k] \in Nat
  OBVIOUS
<1> HIDE DEF h, t
\* What becomes of an element of d, and where one of r comes from.
<1>5. /\ Len(d) \in Nat
      /\ h.data => Len(r) = Len(d) + 1 /\ r[Len(d) + 1] = h.id
      /\ ~h.data => Len(r) = Len(d)
      /\ \A k \in 1..Len(d) : r[k] = d[k]
  BY <1>2 DEF h
<1>6. \A k \in 1..Len(r) : k \in 1..Len(d) \/ (h.data /\ k = Len(d) + 1)
  BY <1>5
<1>7. \A k \in 1..Len(r) : r[k] < n /\ r[k] <= h.id
  BY <1>2, <1>3, <1>4, <1>5, <1>6
<1>8. \A i, j \in 1..Len(r) : i < j => r[i] < r[j]
  <2> SUFFICES ASSUME NEW i \in 1..Len(r), NEW j \in 1..Len(r), i < j PROVE r[i] < r[j]
    OBVIOUS
  <2>1. i \in 1..Len(d)
    BY <1>5, <1>6
  <2>2. CASE j \in 1..Len(d)
    BY <1>5, <2>1, <2>2
  <2>3. CASE h.data /\ j = Len(d) + 1
    <3>1. d[i] <= h.id /\ d[i] # h.id
      BY <1>3, <2>1, <2>3
    <3> QED
      BY <1>2, <1>4, <1>5, <2>1, <2>3, <3>1
  <2> QED
    BY <1>6, <2>2, <2>3
<1>9. ASSUME NEW j \in 1..Len(t)
      PROVE  /\ t[j].data /\ t[j].id < n /\ t[j].id < c
             /\ \A i \in 1..(j - 1) : t[i].data => t[i].id < t[j].id
             /\ \A k \in 1..Len(r) : r[k] <= t[j].id /\ r[k] # t[j].id
  <2>1. j + 1 \in 1..Len(p) /\ t[j] = p[j + 1] /\ 1 \in 1..((j + 1) - 1)
    BY <1>1
  <2>2. /\ p[j + 1].id < n /\ (p[j + 1].data => p[j + 1].id < c)
        /\ \A i \in 1..((j + 1) - 1) : p[j + 1].data /\ (p[i].data => p[i].id < p[j + 1].id)
        /\ \A k \in 1..Len(d) : d[k] <= p[j + 1].id /\ (p[j + 1].data => d[k] # p[j + 1].id)
    BY <2>1 DEF PipeInOrder
  <2>3. t[j].data /\ (h.data => h.id < t[j].id) /\ t[j].id \in Nat
    BY <1>1, <1>2, <2>1, <2>2
  <2>4. \A i \in 1..(j - 1) : t[i].data => t[i].id < t[j].id
    <3> SUFFICES ASSUME NEW i \in 1..(j - 1), t[i].data PROVE t[i].id < t[j].id
      OBVIOUS
    <3>1. i \in 1..Len(t) /\ i + 1 \in 1..((j + 1) - 1)
      BY <1>1
    <3>2. t[i] = p[i + 1]
      BY <1>1, <3>1
    <3> QED
      BY <2>1, <2>2, <3>1, <3>2
  <2>5. ASSUME NEW k \in 1..Len(r) PROVE r[k] <= t[j].id /\ r[k] # t[j].id
    <3>1. CASE k \in 1..Len(d)
      BY <1>5, <2>1, <2>2, <2>3, <3>1
    <3>2. CASE h.data /\ k = Len(d) + 1
      BY <1>2, <1>5, <2>3, <3>2
    <3> QED
      BY <1>6, <3>1, <3>2
  <2> QED
    BY <2>1, <2>2, <2>3, <2>4, <2>5
<1>10. PipeInOrder(r, t, c, n)
  BY <1>9 DEF PipeInOrder
<1>11. BatchInOrder(r, t, b, c, n)
  <2> SUFFICES ASSUME NEW j \in 1..Len(b)
               PROVE  /\ b[j] < c /\ b[j] < n
                      /\ \A i \in 1..(j - 1) : b[i] < b[j]
                      /\ \A i \in 1..Len(t) : t[i].data => t[i].id < b[j]
                      /\ \A k \in 1..Len(r) : r[k] < b[j]
    BY DEF BatchInOrder
  <2>1. /\ b[j] < c /\ b[j] < n
        /\ \A i \in 1..(j - 1) : b[i] < b[j]
        /\ \A i \in 1..Len(p) : p[i].data => p[i].id < b[j]
        /\ \A k \in 1..Len(d) : d[k] < b[j]
    BY DEF BatchInOrder
  <2>2. ASSUME NEW i \in 1..Len(t), t[i].data PROVE t[i].id < b[j]
    <3>1. i + 1 \in 1..Len(p) /\ t[i] = p[i + 1]
      BY <1>1
    <3> QED
      BY <2>1, <2>2, <3>1
  <2>3. ASSUME NEW k \in 1..Len(r) PROVE r[k] < b[j]
    <3>1. CASE k \in 1..Len(d)
      BY <1>5, <2>1, <3>1
    <3>2. CASE h.data /\ k = Len(d) + 1
      BY <1>1, <1>5, <2>1, <3>2
    <3> QED
      BY <1>6, <3>1, <3>2
  <2> QED
    BY <2>1, <2>2, <2>3
<1>12. (\A k \in 1..Len(d) : d[k] < c) => \A k \in 1..Len(r) : r[k] < c
  BY <1>3, <1>5, <1>6
<1> QED
  BY <1>7, <1>8, <1>10, <1>11, <1>12 DEF h, t

\* The stream collects the events q from its cursor on.
LEMMA OrderCollect ==
    ASSUME NEW d \in Seq(Nat), NEW p \in Seq(Event), NEW q \in Seq(Nat), NEW c \in Nat, NEW n \in Nat,
           c <= n, PipeInOrder(d, p, c, n), \A k \in 1..Len(d) : d[k] < c,
           \A j \in 1..Len(q) : c <= q[j] /\ q[j] < n,
           \A j \in 1..Len(q) : \A i \in 1..(j - 1) : q[i] < q[j]
    PROVE  PipeInOrder(d, p, n, n) /\ BatchInOrder(d, p, q, n, n)
<1>1. \A j \in 1..Len(p) : p[j].id \in Nat
  <2>1. \A e \in Event : e.id \in Nat
    BY SseAssumption DEF Event
  <2>2. \A j \in 1..Len(p) : p[j] \in Event
    OBVIOUS
  <2> QED
    BY <2>1, <2>2
<1>2. PipeInOrder(d, p, n, n)
  BY <1>1 DEF PipeInOrder
<1>3. ASSUME NEW j \in 1..Len(q), NEW i \in 1..Len(p), p[i].data PROVE p[i].id < q[j]
  <2>1. p[i].id < c /\ p[i].id \in Nat /\ q[j] \in Nat /\ c <= q[j]
    BY <1>1, <1>3 DEF PipeInOrder
  <2> QED
    BY <2>1
<1>4. ASSUME NEW j \in 1..Len(q), NEW k \in 1..Len(d) PROVE d[k] < q[j]
  <2>1. d[k] < c /\ d[k] \in Nat /\ q[j] \in Nat /\ c <= q[j]
    OBVIOUS
  <2> QED
    BY <2>1
<1> QED
  BY <1>2, <1>3, <1>4 DEF BatchInOrder

-----------------------------------------------------------------------------
(* Every step preserves the invariant                                      *)

\* The constructors of SseChannel and of the transport establish the invariant.
LEMMA InitInv == Init => Inv
  BY SseAssumption DEF Init, Inv, TypeOK, ChannelTypeOK, StreamTypeOK, ClientTypeOK, Streams,
    NobodySleepsThroughWork, DeliveredInOrder, RingIsRecent, Progress, BaselineAssigned,
    ResumesAfterDelivered, RequestIsCurrent, CursorBeyondDelivered, StreamInOrder

\* The types of the sequences the order is about.
LEMMA OrderTypes ==
    ASSUME TypeOK, NEW s \in Streams
    PROVE  /\ delivered \in Seq(Nat) /\ pipe[s] \in Seq(Event) /\ batch[s] \in Seq(Nat)
           /\ cursor[s] \in Nat /\ nextEventId \in Nat
<1>1. /\ delivered \in Seq(1..MaxEvents) /\ pipe[s] \in Seq(Event) /\ batch[s] \in Seq(1..MaxEvents)
      /\ cursor[s] \in Nat /\ nextEventId \in Nat
  BY SseAssumption DEF TypeOK, ChannelTypeOK, StreamTypeOK, ClientTypeOK
<1>2. \A q : q \in Seq(0..MaxEvents) \/ q \in Seq(1..MaxEvents) => q \in Seq(Nat)
  BY SseAssumption
<1> QED
  BY <1>1, <1>2

\* enqueue numbers the event after all others and owes a notify_all.
LEMMA EnqueueInv ==
    ASSUME Inv, Enqueue PROVE Inv'
<1> USE DEF Enqueue, channelVars, localVars, clientVars
<1>1. TypeOK'
  <2>1. ChannelTypeOK'
    BY EnqueueRing, SseAssumption DEF Inv, TypeOK, ChannelTypeOK
  <2>2. StreamTypeOK' /\ ClientTypeOK'
    BY DEF Inv, TypeOK, StreamTypeOK, ClientTypeOK
  <2> QED
    BY <2>1, <2>2 DEF TypeOK
<1>2. nextEventId \in Nat /\ nextEventId' = nextEventId + 1
  BY SseAssumption DEF Inv, TypeOK, ChannelTypeOK
<1>3. NobodySleepsThroughWork'
  BY DEF Inv, TypeOK, ChannelTypeOK, NobodySleepsThroughWork
<1>4. RingIsRecent'
  BY EnqueueRing DEF Inv, TypeOK
<1>5. DeliveredInOrder' /\ Progress' /\ RequestIsCurrent' /\ CursorBeyondDelivered'
  BY DEF Inv, DeliveredInOrder, Progress, RequestIsCurrent, CursorBeyondDelivered
<1>6. BaselineAssigned'
  BY <1>2, SseAssumption DEF Inv, TypeOK, StreamTypeOK, BaselineAssigned
<1>7. ResumesAfterDelivered'
  <2>1. \A k \in 1..Len(delivered) : delivered[k] \in Nat
    BY SseAssumption DEF Inv, TypeOK, ClientTypeOK
  <2> QED
    BY <1>2, <2>1 DEF Inv, ResumesAfterDelivered
<1>8. StreamInOrder'
  <2> SUFFICES ASSUME current # 0
               PROVE  /\ PipeInOrder(delivered, pipe[current], cursor[current], nextEventId + 1)
                      /\ BatchInOrder(delivered, pipe[current], batch[current], cursor[current],
                                      nextEventId + 1)
    BY <1>2 DEF StreamInOrder
  <2>1. current \in Streams
    BY CurrentStream DEF Inv
  <2> QED
    BY <2>1, OrderTypes, OrderEnqueue DEF Inv, StreamInOrder
<1> QED
  BY <1>1, <1>3, <1>4, <1>5, <1>6, <1>7, <1>8 DEF Inv

\* cv_.notify_all wakes every sleeper.
LEMMA NotifyAllInv ==
    ASSUME Inv, NotifyAll PROVE Inv'
<1> USE DEF NotifyAll, channelVars, localVars, clientVars
<1>1. TypeOK'
  BY DEF Inv, TypeOK, ChannelTypeOK, StreamTypeOK, ClientTypeOK
<1>2. NobodySleepsThroughWork'
  BY DEF NobodySleepsThroughWork
<1> QED
  BY <1>1, <1>2 DEF Inv, DeliveredInOrder, RingIsRecent, Progress, BaselineAssigned,
    ResumesAfterDelivered, RequestIsCurrent, CursorBeyondDelivered, StreamInOrder

\* shutdown owes a notify_all as well.
LEMMA ShutdownInv ==
    ASSUME Inv, Shutdown PROVE Inv'
<1> USE DEF Shutdown, channelVars, localVars, clientVars
<1>1. TypeOK'
  <2>1. notifies' \in Nat
    BY DEF Inv, TypeOK, ChannelTypeOK
  <2>2. StreamTypeOK' /\ ClientTypeOK'
    BY DEF Inv, TypeOK, StreamTypeOK, ClientTypeOK
  <2>3. running' \in BOOLEAN
    OBVIOUS
  <2>4. ChannelTypeOK'
    BY <2>1, <2>3, Zenon DEF Inv, TypeOK, ChannelTypeOK
  <2> QED
    BY <2>2, <2>4 DEF TypeOK
<1>2. NobodySleepsThroughWork'
  BY DEF Inv, TypeOK, ChannelTypeOK, NobodySleepsThroughWork
<1> QED
  BY <1>1, <1>2 DEF Inv, DeliveredInOrder, RingIsRecent, Progress, BaselineAssigned,
    ResumesAfterDelivered, RequestIsCurrent, CursorBeyondDelivered, StreamInOrder

\* cv_.wait sleeps only while its predicate is false.
LEMMA WaitInv ==
    ASSUME Inv, NEW s \in Streams, Wait(s) PROVE Inv'
<1> USE DEF Wait, channelVars, localVars, clientVars
<1>1. TypeOK'
  BY DEF Inv, TypeOK, ChannelTypeOK, StreamTypeOK, ClientTypeOK
<1>2. NobodySleepsThroughWork'
  BY DEF Inv, NobodySleepsThroughWork, WakePredicate
<1> QED
  BY <1>1, <1>2 DEF Inv, DeliveredInOrder, RingIsRecent, Progress, BaselineAssigned,
    ResumesAfterDelivered, RequestIsCurrent, CursorBeyondDelivered, StreamInOrder

\* attach_stream wakes the stream it displaced.
LEMMA AttachNotifyInv ==
    ASSUME Inv, NEW s \in Streams, AttachNotify(s) PROVE Inv'
<1> USE DEF AttachNotify, channelVars, localVars, clientVars
<1>1. TypeOK'
  BY DEF Inv, TypeOK, ChannelTypeOK, StreamTypeOK, ClientTypeOK
<1>2. NobodySleepsThroughWork'
  BY DEF NobodySleepsThroughWork
<1>3. \A q \in Streams : q # s => stream'[q] = stream[q]
  BY DEF Inv, TypeOK, StreamTypeOK
<1>4. stream[s] = "notify" /\ stream'[s] = "initial"
  BY DEF Inv, TypeOK, StreamTypeOK
<1>5. current # 0 => current \in Streams
  BY CurrentStream DEF Inv
<1>6. Progress' /\ RequestIsCurrent' /\ CursorBeyondDelivered'
  BY <1>3, <1>4, <1>5 DEF Inv, Progress, RequestIsCurrent, CursorBeyondDelivered
<1> QED
  BY <1>1, <1>2, <1>6 DEF Inv, DeliveredInOrder, RingIsRecent, BaselineAssigned,
    ResumesAfterDelivered, StreamInOrder

\* A stream that was displaced or shut down leaves its loop.
LEMMA LeaveLoopInv ==
    ASSUME Inv, NEW s \in Streams, LeaveLoop(s) PROVE Inv'
<1> USE DEF LeaveLoop, channelVars, localVars, clientVars
<1>1. TypeOK'
  BY DEF Inv, TypeOK, ChannelTypeOK, StreamTypeOK, ClientTypeOK
<1>2. \A q \in Streams : q # s => stream'[q] = stream[q]
  BY DEF Inv, TypeOK, StreamTypeOK
<1>3. stream[s] = "loop" /\ stream'[s] = "closed"
  BY DEF Inv, TypeOK, StreamTypeOK
<1>4. NobodySleepsThroughWork'
  BY <1>2, <1>3 DEF Inv, NobodySleepsThroughWork, WakePredicate
<1>5. current # 0 => current \in Streams
  BY CurrentStream DEF Inv
<1>6. Progress' /\ RequestIsCurrent' /\ CursorBeyondDelivered'
  BY <1>2, <1>3, <1>5 DEF Inv, Progress, RequestIsCurrent, CursorBeyondDelivered
<1> QED
  BY <1>1, <1>4, <1>6 DEF Inv, DeliveredInOrder, RingIsRecent, BaselineAssigned,
    ResumesAfterDelivered, StreamInOrder

\* run_sse_once returns when the stream has ended.
LEMMA EndOfStreamInv ==
    ASSUME Inv, EndOfStream PROVE Inv'
<1> USE DEF EndOfStream, channelVars, localVars, clientVars
<1>1. TypeOK'
  BY SseAssumption DEF Inv, TypeOK, ChannelTypeOK, StreamTypeOK, ClientTypeOK
<1>2. NobodySleepsThroughWork'
  BY DEF Inv, NobodySleepsThroughWork, WakePredicate
<1> QED
  BY <1>1, <1>2 DEF Inv, DeliveredInOrder, RingIsRecent, Progress, BaselineAssigned,
    ResumesAfterDelivered, RequestIsCurrent, CursorBeyondDelivered, StreamInOrder

\* A connection breaks: what it carried is lost, nothing is reordered.
LEMMA DropInv ==
    ASSUME Inv, Drop PROVE Inv'
<1> USE DEF Drop, channelVars, localVars, clientVars
<1>1. current \in Streams
  BY CurrentStream DEF Inv
<1>2. TypeOK'
  <2>1. broken' \subseteq Streams
    BY <1>1 DEF Inv, TypeOK, StreamTypeOK
  <2>2. pipe' \in [Streams -> Seq(Event)]
    BY EmptySeq DEF Inv, TypeOK, StreamTypeOK
  <2>3. StreamTypeOK'
    BY <2>1, <2>2 DEF Inv, TypeOK, StreamTypeOK
  <2>4. ClientTypeOK'
    BY SseAssumption DEF Inv, TypeOK, ClientTypeOK
  <2>5. ChannelTypeOK'
    BY DEF Inv, TypeOK, ChannelTypeOK
  <2> QED
    BY <2>3, <2>4, <2>5 DEF TypeOK
<1>3. NobodySleepsThroughWork'
  BY DEF Inv, NobodySleepsThroughWork, WakePredicate
<1>4. \A q \in Streams : pipe'[q] = IF q = current THEN <<>> ELSE pipe[q]
  BY DEF Inv, TypeOK, StreamTypeOK
<1>5. Progress'
  BY <1>4 DEF Inv, Progress
<1> QED
  BY <1>2, <1>3, <1>5 DEF Inv, DeliveredInOrder, RingIsRecent, BaselineAssigned,
    ResumesAfterDelivered, RequestIsCurrent, CursorBeyondDelivered, StreamInOrder

\* run_sse_once sends a GET with last_event_id_.
LEMMA OpenInv ==
    ASSUME Inv, NEW s \in Streams, Open(s) PROVE Inv'
<1> USE DEF Open, channelVars, localVars
<1>1. TypeOK'
  <2>1. current' \in 0..MaxStreams
    BY SseAssumption DEF Streams
  <2>2. ClientTypeOK'
    BY <2>1 DEF Inv, TypeOK, ClientTypeOK
  <2>3. ChannelTypeOK' /\ StreamTypeOK'
    BY DEF Inv, TypeOK, ChannelTypeOK, StreamTypeOK
  <2> QED
    BY <2>2, <2>3 DEF TypeOK
<1>2. \A q \in Streams : q # s => stream'[q] = stream[q]
  BY DEF Inv, TypeOK, StreamTypeOK
<1>3. stream[s] = "new" /\ stream'[s] = "requested" /\ requested'[s] = lastEventId
  BY DEF Inv, TypeOK, StreamTypeOK, ClientTypeOK
<1>4. NobodySleepsThroughWork'
  BY <1>2, <1>3 DEF Inv, NobodySleepsThroughWork, WakePredicate
<1>5. Progress' /\ RequestIsCurrent' /\ CursorBeyondDelivered'
  BY <1>2, <1>3 DEF Inv, Progress, RequestIsCurrent, CursorBeyondDelivered
<1>6. StreamInOrder'
  <2>1. pipe[s] = <<>> /\ batch[s] = <<>>
    BY <1>3 DEF Inv, Progress
  <2>2. \A d, c, n : PipeInOrder(d, <<>>, c, n) /\ BatchInOrder(d, <<>>, <<>>, c, n)
    BY DEF PipeInOrder, BatchInOrder
  <2> QED
    BY <2>1, <2>2 DEF StreamInOrder
<1> QED
  BY <1>1, <1>4, <1>5, <1>6 DEF Inv, DeliveredInOrder, RingIsRecent, BaselineAssigned,
    ResumesAfterDelivered

\* attach_stream takes over and sets its cursor after Last-Event-ID.
LEMMA AttachInv ==
    ASSUME Inv, NEW s \in Streams, Attach(s) PROVE Inv'
<1> USE DEF Attach
<1>1. /\ stream[s] = "requested" /\ \A q \in Streams : q # s => stream'[q] = stream[q]
      /\ stream'[s] = IF running THEN "notify" ELSE "closed"
  BY DEF Inv, TypeOK, StreamTypeOK
<1>2. current # 0 => current \in Streams
  BY CurrentStream DEF Inv
<1>3. pipe[s] = <<>> /\ batch[s] = <<>>
  BY <1>1 DEF Inv, Progress
<1>4. \A d, c, n : PipeInOrder(d, <<>>, c, n) /\ BatchInOrder(d, <<>>, <<>>, c, n)
  BY DEF PipeInOrder, BatchInOrder
<1>5. requested' \in [Streams -> 0..MaxEvents \cup {NoId}]
  BY DEF Inv, TypeOK, ClientTypeOK
<1>6. ClientTypeOK'
  BY <1>5 DEF Inv, TypeOK, ClientTypeOK
<1>7. RequestIsCurrent'
  <2>1. \A q \in Streams : q # s => requested'[q] = requested[q]
    BY DEF Inv, TypeOK, ClientTypeOK
  <2> QED
    BY <1>1, <1>2, <2>1 DEF Inv, RequestIsCurrent
<1>8. Progress'
  BY <1>1, <1>3 DEF Inv, Progress
<1>9. CASE ~running
  <2>1. UNCHANGED <<generation, myGeneration, lastAssigned, cursor>>
    BY <1>9
  <2>2. ChannelTypeOK' /\ StreamTypeOK'
    BY <1>9, <2>1 DEF Inv, TypeOK, ChannelTypeOK, StreamTypeOK
  <2>3. NobodySleepsThroughWork'
    BY <1>1, <2>1 DEF Inv, NobodySleepsThroughWork, WakePredicate
  <2>4. CursorBeyondDelivered'
    BY <1>1, <1>2, <1>9, <2>1 DEF Inv, CursorBeyondDelivered
  <2> QED
    BY <1>6, <1>7, <1>8, <2>1, <2>2, <2>3, <2>4 DEF Inv, TypeOK, DeliveredInOrder, RingIsRecent,
      BaselineAssigned, ResumesAfterDelivered, StreamInOrder
<1>10. CASE running
  <2>1. /\ generation' = generation + 1
        /\ myGeneration' = [myGeneration EXCEPT ![s] = generation + 1]
        /\ lastAssigned' = [lastAssigned EXCEPT ![s] = nextEventId - 1]
        /\ cursor' = [cursor EXCEPT ![s] = StartCursor(s)]
        /\ stream' = [stream EXCEPT ![s] = "notify"]
    BY <1>10
  <2>2. /\ nextEventId \in 1..(MaxEvents + 1) /\ nextEventId - 1 \in 0..MaxEvents
        /\ StartCursor(s) \in 0..(MaxEvents + 1)
        /\ generation + 1 \in Nat
    BY SseAssumption DEF Inv, TypeOK, ChannelTypeOK, ClientTypeOK, StartCursor
  <2>3. ChannelTypeOK'
    BY <2>1, <2>2 DEF Inv, TypeOK, ChannelTypeOK
  <2>4. StreamTypeOK'
    BY <2>1, <2>2 DEF Inv, TypeOK, StreamTypeOK
  <2>5. NobodySleepsThroughWork'
    BY <1>1, <1>10 DEF NobodySleepsThroughWork
  <2>6. /\ lastAssigned'[s] = nextEventId - 1 /\ cursor'[s] = StartCursor(s)
        /\ \A q \in Streams : q # s => lastAssigned'[q] = lastAssigned[q] /\ cursor'[q] = cursor[q]
    BY <2>1 DEF Inv, TypeOK, StreamTypeOK
  <2>7. BaselineAssigned'
    BY <2>2, <2>6 DEF Inv, BaselineAssigned
  <2>8. CursorBeyondDelivered'
    <3>1. CASE current = s
      <4> SUFFICES ASSUME NEW k \in 1..Len(delivered)
                   PROVE  delivered[k] < StartCursor(s) /\ delivered[k] <= nextEventId - 1
        BY <2>6, <3>1 DEF CursorBeyondDelivered
      <4>1. delivered[k] < nextEventId /\ lastEventId # NoId /\ delivered[k] <= lastEventId
        BY DEF Inv, ResumesAfterDelivered
      <4>2. delivered[k] \in Nat /\ lastEventId \in Nat
        BY <4>1, SseAssumption DEF Inv, TypeOK, ClientTypeOK
      <4>3. requested[s] = lastEventId
        BY <1>1, <3>1 DEF Inv, RequestIsCurrent, Streams
      <4> QED
        BY <2>2, <4>1, <4>2, <4>3 DEF StartCursor
    <3>2. CASE current # s
      BY <1>1, <1>2, <2>6, <3>2 DEF Inv, CursorBeyondDelivered
    <3> QED
      BY <3>1, <3>2
  <2>9. StreamInOrder'
    BY <1>2, <1>3, <1>4, <2>6 DEF Inv, StreamInOrder
  <2> QED
    BY <1>6, <1>7, <1>8, <2>3, <2>4, <2>5, <2>7, <2>8, <2>9 DEF Inv, TypeOK, DeliveredInOrder,
      RingIsRecent, ResumesAfterDelivered
<1> QED
  BY <1>9, <1>10 DEF Inv, TypeOK, ChannelTypeOK

\* What a write of one event, or its failure, does to pipe and stream.
LEMMA WrittenTypes ==
    ASSUME TypeOK, NEW s \in Streams, NEW e \in Event, NEW next \in {"loop", "write"}, Written(s, e, next)
    PROVE  /\ pipe' \in [Streams -> Seq(Event)]
           /\ stream' \in [Streams -> {"new", "requested", "notify", "initial", "loop", "write", "closed"}]
           /\ stream'[s] \in {next, "closed"}
           /\ \A q \in Streams : q # s => stream'[q] = stream[q] /\ pipe'[q] = pipe[q]
           /\ pipe'[s] = pipe[s] \/ pipe'[s] = Append(pipe[s], e)
<1> USE DEF TypeOK, StreamTypeOK, Written
<1>1. Append(pipe[s], e) \in Seq(Event)
  OBVIOUS
<1>2. CASE pipe' = [pipe EXCEPT ![s] = Append(@, e)] /\ stream' = [stream EXCEPT ![s] = next]
  BY <1>1, <1>2
<1>3. CASE UNCHANGED pipe /\ stream' \in {[stream EXCEPT ![s] = next], [stream EXCEPT ![s] = "closed"]}
  BY <1>3
<1> QED
  BY <1>2, <1>3

\* attach_stream writes the initial event, which carries no message.
LEMMA WriteInitialInv ==
    ASSUME Inv, NEW s \in Streams, WriteInitial(s) PROVE Inv'
<1> USE DEF WriteInitial, channelVars, clientVars
<1> DEFINE e == [id |-> lastAssigned[s], data |-> FALSE]
<1>1. e \in Event /\ e.id = lastAssigned[s] /\ ~e.data
  BY DEF Inv, TypeOK, StreamTypeOK, Event
<1>2. /\ pipe' \in [Streams -> Seq(Event)]
      /\ stream' \in [Streams -> {"new", "requested", "notify", "initial", "loop", "write", "closed"}]
      /\ stream'[s] \in {"loop", "closed"}
      /\ \A q \in Streams : q # s => stream'[q] = stream[q] /\ pipe'[q] = pipe[q]
      /\ pipe'[s] = pipe[s] \/ pipe'[s] = Append(pipe[s], e)
  BY <1>1, WrittenTypes DEF Inv
<1> HIDE DEF e
<1>3. /\ stream[s] = "initial" /\ pipe[s] = <<>> /\ batch[s] = <<>>
      /\ lastAssigned'[s] = 0 /\ \A q \in Streams : q # s => lastAssigned'[q] = lastAssigned[q]
  BY DEF Inv, Progress, TypeOK, StreamTypeOK
<1>4. TypeOK'
  <2>1. lastAssigned' \in [Streams -> 0..MaxEvents]
    BY SseAssumption DEF Inv, TypeOK, StreamTypeOK
  <2>2. StreamTypeOK'
    BY <1>2, <2>1 DEF Inv, TypeOK, StreamTypeOK
  <2> QED
    BY <2>2 DEF Inv, TypeOK, ChannelTypeOK, ClientTypeOK
<1>5. NobodySleepsThroughWork'
  BY <1>2, <1>3 DEF Inv, NobodySleepsThroughWork, WakePredicate
<1>6. current # 0 => current \in Streams
  BY CurrentStream DEF Inv
<1>7. Progress' /\ RequestIsCurrent' /\ CursorBeyondDelivered'
  BY <1>2, <1>3, <1>6 DEF Inv, Progress, RequestIsCurrent, CursorBeyondDelivered
<1>8. BaselineAssigned'
  BY <1>3, SseAssumption DEF Inv, TypeOK, ChannelTypeOK, BaselineAssigned
<1>9. StreamInOrder'
  <2>1. CASE current = s
    <3>1. \A k \in 1..Len(delivered) : delivered[k] <= e.id
      BY <1>1, <1>3, <1>6, <2>1 DEF Inv, CursorBeyondDelivered, Streams
    <3>2. e.id < nextEventId
      BY <1>1 DEF Inv, BaselineAssigned
    <3>3. \A d, p, c, n : PipeInOrder(d, <<>>, c, n) /\ BatchInOrder(d, p, <<>>, c, n)
      BY DEF PipeInOrder, BatchInOrder
    <3>4. PipeInOrder(delivered, pipe'[s], cursor[s], nextEventId)
      <4>1. CASE pipe'[s] = <<>>
        BY <3>3, <4>1
      <4>2. CASE pipe'[s] = Append(<<>>, e)
        BY <1>1, <3>1, <3>2, <4>2, OrderTypes, OrderInitial DEF Inv
      <4> QED
        BY <1>2, <1>3, <4>1, <4>2
    <3> QED
      BY <1>3, <2>1, <3>3, <3>4 DEF StreamInOrder
  <2>2. CASE current # s
    BY <1>2, <1>6, <2>2 DEF Inv, StreamInOrder
  <2> QED
    BY <2>1, <2>2
<1> QED
  BY <1>4, <1>5, <1>7, <1>8, <1>9 DEF Inv, DeliveredInOrder, RingIsRecent, ResumesAfterDelivered

\* An ascending ring from the cursor on.
LEMMA PendingEvents ==
    ASSUME ChannelTypeOK, RingIsRecent, NEW s \in Streams, cursor[s] \in Nat,
           ring # <<>>, Last(ring) >= cursor[s]
    PROVE  /\ Pending(s) \in Seq(1..MaxEvents) /\ Pending(s) # <<>>
           /\ \A j \in 1..Len(Pending(s)) :
                 /\ cursor[s] <= Pending(s)[j] /\ Pending(s)[j] < nextEventId
                 /\ \A i \in 1..(j - 1) : Pending(s)[i] < Pending(s)[j]
           /\ Last(ring) = nextEventId - 1
<1> DEFINE First(i) == ring[i] >= cursor[s] /\ \A j \in 1..(i - 1) : ring[j] < cursor[s]
<1> DEFINE first == CHOOSE i \in DOMAIN ring : First(i)
<1> DEFINE low == nextEventId - 1 - Len(ring)
<1>1. /\ Len(ring) \in Nat /\ Len(ring) > 0 /\ DOMAIN ring = 1..Len(ring)
      /\ nextEventId \in Nat /\ low \in Nat
  BY SseAssumption DEF ChannelTypeOK, RingIsRecent
<1>2. \A i \in 1..Len(ring) : ring[i] = low + i
  BY DEF RingIsRecent
<1>3. Last(ring) = nextEventId - 1
  BY <1>1, <1>2 DEF Last
<1> HIDE DEF low
<1>4. \E i \in DOMAIN ring : First(i)
  <2>1. CASE cursor[s] <= low + 1
    <3>1. First(1) /\ 1 \in DOMAIN ring
      BY <1>1, <1>2, <2>1
    <3> QED
      BY <3>1
  <2>2. CASE ~(cursor[s] <= low + 1)
    <3> DEFINE i == cursor[s] - low
    <3>1. i \in 1..Len(ring)
      BY <1>1, <1>3, <2>2 DEF low
    <3>2. ring[i] = cursor[s]
      BY <1>1, <1>2, <3>1
    <3>3. \A j \in 1..(i - 1) : ring[j] < cursor[s]
      <4> SUFFICES ASSUME NEW j \in 1..(i - 1) PROVE ring[j] < cursor[s]
        OBVIOUS
      <4>1. j \in 1..Len(ring)
        BY <1>1, <3>1
      <4> QED
        BY <1>1, <1>2, <4>1
    <3> QED
      BY <1>1, <3>1, <3>2, <3>3
  <2> QED
    BY <2>1, <2>2
<1>5. first \in 1..Len(ring) /\ First(first)
  BY <1>1, <1>4
<1>6. Pending(s) = SubSeq(ring, first, Len(ring))
  BY DEF Pending
<1> DEFINE q == SubSeq(ring, first, Len(ring))
<1> HIDE DEF first
<1>7. /\ q \in Seq(1..MaxEvents) /\ Len(q) = Len(ring) - first + 1
      /\ \A i \in 1..Len(q) : first + i - 1 \in 1..Len(ring) /\ q[i] = ring[first + i - 1]
  BY <1>5, Suffix DEF ChannelTypeOK
<1> HIDE DEF q
<1>8. \A i \in 1..Len(q) : q[i] = low + (first + i - 1)
  BY <1>2, <1>7
<1>9. Len(q) \in Nat /\ Len(q) > 0 /\ first \in Nat /\ ring[first] = low + first
  BY <1>1, <1>2, <1>5, <1>7
<1>10. ASSUME NEW j \in 1..Len(q)
       PROVE  /\ cursor[s] <= q[j] /\ q[j] < nextEventId
              /\ \A i \in 1..(j - 1) : q[i] < q[j]
  <2>1. cursor[s] <= q[j]
    BY <1>1, <1>5, <1>8, <1>9
  <2>2. q[j] < nextEventId
    BY <1>1, <1>7, <1>8, <1>9 DEF low
  <2>3. \A i \in 1..(j - 1) : q[i] < q[j]
    <3> SUFFICES ASSUME NEW i \in 1..(j - 1) PROVE q[i] < q[j]
      OBVIOUS
    <3>1. i \in 1..Len(q)
      BY <1>9
    <3> QED
      BY <1>1, <1>8, <1>9, <3>1
  <2> QED
    BY <2>1, <2>2, <2>3
<1>11. q # <<>>
  BY <1>9
<1> QED
  BY <1>3, <1>6, <1>7, <1>10, <1>11 DEF q

\* attach_stream copies the pending events and advances its cursor.
LEMMA CollectInv ==
    ASSUME Inv, NEW s \in Streams, Collect(s) PROVE Inv'
<1> USE DEF Collect, clientVars
<1>1. /\ Pending(s) \in Seq(1..MaxEvents) /\ Pending(s) # <<>>
      /\ \A j \in 1..Len(Pending(s)) :
            /\ cursor[s] <= Pending(s)[j] /\ Pending(s)[j] < nextEventId
            /\ \A i \in 1..(j - 1) : Pending(s)[i] < Pending(s)[j]
      /\ Last(ring) = nextEventId - 1
  BY PendingEvents, OrderTypes DEF Inv, TypeOK
<1>2. /\ nextEventId \in 1..(MaxEvents + 1) /\ Last(ring) + 1 = nextEventId
      /\ cursor[s] \in Nat /\ cursor[s] <= nextEventId /\ MaxEvents \in Nat
  BY <1>1, SseAssumption, OrderTypes DEF Inv, TypeOK, ChannelTypeOK
<1>3. /\ stream[s] = "loop" /\ stream'[s] = "write"
      /\ batch'[s] = Pending(s) /\ cursor'[s] = nextEventId
      /\ \A q \in Streams : q # s =>
            stream'[q] = stream[q] /\ batch'[q] = batch[q] /\ cursor'[q] = cursor[q]
  BY <1>2 DEF Inv, TypeOK, StreamTypeOK
<1>4. TypeOK'
  <2>1. batch' \in [Streams -> Seq(1..MaxEvents)]
    BY <1>1 DEF Inv, TypeOK, StreamTypeOK
  <2>2. cursor' \in [Streams -> 0..(MaxEvents + 1)]
    BY <1>2 DEF Inv, TypeOK, StreamTypeOK
  <2>3. stream' \in [Streams -> {"new", "requested", "notify", "initial", "loop", "write", "closed"}]
    BY DEF Inv, TypeOK, StreamTypeOK
  <2>4. StreamTypeOK'
    BY <2>1, <2>2, <2>3 DEF Inv, TypeOK, StreamTypeOK
  <2>5. nextUndelivered' \in 1..(MaxEvents + 1)
    BY <1>2 DEF Inv, TypeOK, ChannelTypeOK
  <2>6. ChannelTypeOK' /\ ClientTypeOK'
    BY <2>5 DEF Inv, TypeOK, ChannelTypeOK, ClientTypeOK
  <2> QED
    BY <2>4, <2>6 DEF TypeOK
<1>5. NobodySleepsThroughWork'
  <2>1. \A q \in Streams : q # s => WakePredicate(q)' = WakePredicate(q)
    BY <1>3 DEF WakePredicate
  <2>2. s \notin waiting /\ waiting' = waiting /\ waiting \subseteq Streams
    BY DEF Inv, TypeOK, StreamTypeOK
  <2> QED
    BY <1>3, <2>1, <2>2 DEF Inv, NobodySleepsThroughWork
<1>6. current # 0 => current \in Streams
  BY CurrentStream DEF Inv
<1>7. Progress' /\ RequestIsCurrent'
  BY <1>1, <1>3, <1>6 DEF Inv, Progress, RequestIsCurrent
<1>8. CASE current = s
  <2>1. current # 0 /\ stream[current] \in {"notify", "initial", "loop", "write"}
    BY <1>3, <1>8 DEF Streams
  <2>2. \A k \in 1..Len(delivered) : delivered[k] < cursor[s] /\ delivered[k] < nextEventId
    BY <1>8, <2>1 DEF Inv, CursorBeyondDelivered, ResumesAfterDelivered
  <2>3. Pending(s) \in Seq(Nat)
    BY <1>1, <1>2
  <2>4. /\ PipeInOrder(delivered, pipe[s], nextEventId, nextEventId)
        /\ BatchInOrder(delivered, pipe[s], Pending(s), nextEventId, nextEventId)
    BY <1>1, <1>2, <1>8, <2>1, <2>2, <2>3, OrderTypes, OrderCollect DEF Inv, StreamInOrder
  <2>5. CursorBeyondDelivered' /\ StreamInOrder'
    BY <1>3, <1>8, <2>2, <2>4 DEF CursorBeyondDelivered, StreamInOrder
  <2> QED
    BY <1>4, <1>5, <1>7, <2>5 DEF Inv, DeliveredInOrder, RingIsRecent, BaselineAssigned,
      ResumesAfterDelivered
<1>9. CASE current # s
  <2>1. CursorBeyondDelivered' /\ StreamInOrder'
    BY <1>3, <1>6, <1>9 DEF Inv, CursorBeyondDelivered, StreamInOrder
  <2> QED
    BY <1>4, <1>5, <1>7, <2>1 DEF Inv, DeliveredInOrder, RingIsRecent, BaselineAssigned,
      ResumesAfterDelivered
<1> QED
  BY <1>8, <1>9

\* attach_stream writes one of the events it copied.
LEMMA WriteEventInv ==
    ASSUME Inv, NEW s \in Streams, WriteEvent(s) PROVE Inv'
<1> USE DEF WriteEvent, channelVars, clientVars
<1> DEFINE e == [id |-> Head(batch[s]), data |-> TRUE]
<1> DEFINE next == IF Len(batch[s]) = 1 THEN "loop" ELSE "write"
<1>1. /\ stream[s] = "write" /\ batch[s] \in Seq(1..MaxEvents) /\ batch[s] # <<>>
  BY DEF Inv, Progress, TypeOK, StreamTypeOK
<1>2. /\ Head(batch[s]) \in 1..MaxEvents /\ Tail(batch[s]) \in Seq(1..MaxEvents)
      /\ Len(batch[s]) \in Nat /\ Len(batch[s]) # 0 /\ Len(Tail(batch[s])) = Len(batch[s]) - 1
  <2> DEFINE b == batch[s]
  <2>1. b \in Seq(1..MaxEvents) /\ b # <<>>
    BY <1>1
  <2> HIDE DEF b
  <2>2. Head(b) \in 1..MaxEvents /\ Tail(b) \in Seq(1..MaxEvents) /\ Len(Tail(b)) = Len(b) - 1
    BY <2>1, HeadTailProperties
  <2>3. Len(b) \in Nat /\ Len(b) # 0
    BY <2>1, EmptySeq, LenProperties
  <2> QED
    BY <2>2, <2>3 DEF b
<1>3. e \in Event /\ e.id = Head(batch[s]) /\ e.data
  BY <1>2, SseAssumption DEF Event
<1>4. next \in {"loop", "write"} /\ (next = "write" => Tail(batch[s]) # <<>>)
  <2>1. Len(batch[s]) # 1 => Tail(batch[s]) # <<>>
    <3> DEFINE t == Tail(batch[s])
    <3>1. t \in Seq(1..MaxEvents) /\ (Len(batch[s]) # 1 => Len(t) # 0)
      BY <1>2
    <3> HIDE DEF t
    <3>2. Len(t) # 0 => t # <<>>
      BY <3>1
    <3> QED
      BY <3>1, <3>2 DEF t
  <2> QED
    BY <2>1
<1>5. /\ pipe' \in [Streams -> Seq(Event)]
      /\ stream' \in [Streams -> {"new", "requested", "notify", "initial", "loop", "write", "closed"}]
      /\ stream'[s] \in {next, "closed"}
      /\ \A q \in Streams : q # s => stream'[q] = stream[q] /\ pipe'[q] = pipe[q]
      /\ pipe'[s] = pipe[s] \/ pipe'[s] = Append(pipe[s], e)
  BY <1>3, <1>4, WrittenTypes DEF Inv
<1> HIDE DEF e, next
<1>6. /\ batch' \in [Streams -> Seq(1..MaxEvents)] /\ batch'[s] = Tail(batch[s])
      /\ \A q \in Streams : q # s => batch'[q] = batch[q]
  BY <1>2 DEF Inv, TypeOK, StreamTypeOK
<1>7. TypeOK'
  <2>1. StreamTypeOK'
    BY <1>5, <1>6 DEF Inv, TypeOK, StreamTypeOK
  <2> QED
    BY <2>1 DEF Inv, TypeOK, ChannelTypeOK, ClientTypeOK
<1>8. NobodySleepsThroughWork'
  BY <1>1, <1>4, <1>5 DEF Inv, NobodySleepsThroughWork, WakePredicate
<1>9. current # 0 => current \in Streams
  BY CurrentStream DEF Inv
<1>10. Progress' /\ RequestIsCurrent' /\ CursorBeyondDelivered'
  BY <1>1, <1>4, <1>5, <1>6, <1>9 DEF Inv, Progress, RequestIsCurrent, CursorBeyondDelivered
<1>11. StreamInOrder'
  <2>1. CASE current = s
    <3>1. /\ PipeInOrder(delivered, pipe[s], cursor[s], nextEventId)
          /\ BatchInOrder(delivered, pipe[s], batch[s], cursor[s], nextEventId)
      BY <2>1 DEF Inv, StreamInOrder, Streams
    <3>2. /\ PipeInOrder(delivered, Append(pipe[s], e), cursor[s], nextEventId)
          /\ BatchInOrder(delivered, Append(pipe[s], e), Tail(batch[s]), cursor[s], nextEventId)
          /\ BatchInOrder(delivered, pipe[s], Tail(batch[s]), cursor[s], nextEventId)
      BY <1>1, <1>3, <3>1, OrderTypes, OrderWrite DEF Inv
    <3> QED
      BY <1>5, <1>6, <2>1, <3>1, <3>2 DEF StreamInOrder
  <2>2. CASE current # s
    BY <1>5, <1>6, <1>9, <2>2 DEF Inv, StreamInOrder
  <2> QED
    BY <2>1, <2>2
<1> QED
  BY <1>7, <1>8, <1>10, <1>11 DEF Inv, DeliveredInOrder, RingIsRecent, BaselineAssigned,
    ResumesAfterDelivered

\* run_sse_once takes the id of an event over and delivers its message.
LEMMA ReceiveInv ==
    ASSUME Inv, Receive PROVE Inv'
<1> USE DEF Receive, channelVars, localVars
<1> DEFINE e == Head(pipe[current])
<1>1. current \in Streams
  BY CurrentStream DEF Inv
<1>2. /\ delivered \in Seq(Nat) /\ pipe[current] \in Seq(Event) /\ batch[current] \in Seq(Nat)
      /\ cursor[current] \in Nat /\ nextEventId \in Nat /\ pipe[current] # <<>>
  BY <1>1, OrderTypes DEF Inv
<1>3. e \in Event /\ Tail(pipe[current]) \in Seq(Event)
  BY <1>2, HeadTailProperties
<1>4. e.id \in 0..MaxEvents /\ (e.data => e.id \in 1..MaxEvents)
  BY <1>3, SseAssumption DEF Event
<1>5. /\ pipe'[current] = Tail(pipe[current]) /\ pipe' \in [Streams -> Seq(Event)]
      /\ \A q \in Streams : q # current => pipe'[q] = pipe[q]
  BY <1>1, <1>3 DEF Inv, TypeOK, StreamTypeOK
<1>6. /\ lastEventId' = e.id
      /\ delivered' = IF e.data THEN Append(delivered, e.id) ELSE delivered
  OBVIOUS
<1>7. delivered' \in Seq(1..MaxEvents) /\ delivered' \in Seq(Nat)
  <2>1. delivered \in Seq(1..MaxEvents) /\ e.id \in Nat
    BY <1>4, SseAssumption DEF Inv, TypeOK, ClientTypeOK
  <2>2. e.data => Append(delivered, e.id) \in Seq(1..MaxEvents)
    BY <1>4, <2>1, AppendProperties
  <2>3. Append(delivered, e.id) \in Seq(Nat)
    BY <1>2, <2>1, AppendProperties
  <2> HIDE DEF e
  <2>4. (e.data /\ delivered' = Append(delivered, e.id)) \/ delivered' = delivered
    BY <1>6
  <2> QED
    BY <1>2, <2>1, <2>2, <2>3, <2>4
<1>8. TypeOK'
  <2>1. ClientTypeOK'
    BY <1>4, <1>6, <1>7 DEF Inv, TypeOK, ClientTypeOK
  <2>2. ChannelTypeOK' /\ StreamTypeOK'
    BY <1>5 DEF Inv, TypeOK, ChannelTypeOK, StreamTypeOK
  <2> QED
    BY <2>1, <2>2 DEF TypeOK
<1>9. NobodySleepsThroughWork'
  BY DEF Inv, NobodySleepsThroughWork, WakePredicate
<1>10. /\ PipeInOrder(delivered', Tail(pipe[current]), cursor[current], nextEventId)
       /\ BatchInOrder(delivered', Tail(pipe[current]), batch[current], cursor[current], nextEventId)
       /\ \A i, j \in 1..Len(delivered') : i < j => delivered'[i] < delivered'[j]
       /\ \A k \in 1..Len(delivered') : delivered'[k] < nextEventId /\ delivered'[k] <= e.id
       /\ (\A k \in 1..Len(delivered) : delivered[k] < cursor[current])
             => \A k \in 1..Len(delivered') : delivered'[k] < cursor[current]
  <2>1. /\ PipeInOrder(delivered, pipe[current], cursor[current], nextEventId)
        /\ BatchInOrder(delivered, pipe[current], batch[current], cursor[current], nextEventId)
    BY DEF Inv, StreamInOrder
  <2>2. \A i, j \in 1..Len(delivered) : i < j => delivered[i] < delivered[j]
    BY <1>2 DEF Inv, DeliveredInOrder
  <2>3. \A k \in 1..Len(delivered) : delivered[k] < nextEventId
    BY DEF Inv, ResumesAfterDelivered
  <2> QED
    BY <1>2, <1>6, <1>7, <2>1, <2>2, <2>3, OrderReceive
<1> HIDE DEF e
<1>11. DeliveredInOrder'
  BY <1>7, <1>10 DEF DeliveredInOrder
<1>12. ResumesAfterDelivered'
  BY <1>4, <1>6, <1>10, SseAssumption DEF ResumesAfterDelivered
<1>13. stream[current] \notin {"new", "requested", "notify", "initial"}
  BY <1>1, <1>2 DEF Inv, Progress
<1>14. Progress' /\ RequestIsCurrent' /\ CursorBeyondDelivered'
  BY <1>1, <1>5, <1>10, <1>13 DEF Inv, Progress, RequestIsCurrent, CursorBeyondDelivered
<1>15. StreamInOrder'
  BY <1>5, <1>10 DEF StreamInOrder
<1> QED
  BY <1>8, <1>9, <1>11, <1>12, <1>14, <1>15 DEF Inv, RingIsRecent, BaselineAssigned

\* Every step of server, network and client preserves the invariant.
LEMMA NextInv ==
    ASSUME Inv, [Next]_vars PROVE Inv'
<1>1. CASE UNCHANGED vars
  BY <1>1 DEF vars, Inv, TypeOK, ChannelTypeOK, StreamTypeOK, ClientTypeOK,
    NobodySleepsThroughWork, WakePredicate, DeliveredInOrder, RingIsRecent, Progress,
    BaselineAssigned, ResumesAfterDelivered, RequestIsCurrent, CursorBeyondDelivered, StreamInOrder
<1>2. ASSUME NEW s \in Streams, StreamStep(s) PROVE Inv'
  BY <1>2, AttachInv, AttachNotifyInv, WriteInitialInv, WaitInv, LeaveLoopInv, CollectInv,
    WriteEventInv DEF StreamStep
<1> QED
  BY <1>1, <1>2, EnqueueInv, ShutdownInv, NotifyAllInv, DropInv, ReceiveInv, EndOfStreamInv,
    OpenInv DEF Next, ClientStep

-----------------------------------------------------------------------------

\* The inductive invariant holds in every state of channel and client.
THEOREM InvHolds == Spec => []Inv
  BY InitInv, NextInv, PTL DEF Spec

\* Type correctness of SseChannel and of the client's run_sse_once; the ring
\* never holds more than replay_buffer_size_ events.
THEOREM ChannelTypeCorrect == Spec => []TypeOK
<1>1. Inv => TypeOK
  BY DEF Inv
<1> QED
  BY <1>1, InvHolds, PTL

\* Although enqueue, attach_stream and shutdown call notify_all after they have
\* unlocked, no stream sleeps through what it waits for.
THEOREM NoMissedWakeup == Spec => []NobodySleepsThroughWork
<1>1. Inv => NobodySleepsThroughWork
  BY DEF Inv
<1> QED
  BY <1>1, InvHolds, PTL

-----------------------------------------------------------------------------
(* The channel and its client are a Transport                              *)

\* enqueue offers a message.
LEMMA EnqueueRefines ==
    ASSUME Inv, Enqueue PROVE Transport!Next
<1>1. nextEventId \in Int /\ nextEventId' = nextEventId + 1 /\ UNCHANGED delivered
  BY DEF Inv, TypeOK, ChannelTypeOK, Enqueue, clientVars
<1>2. Transport!Offer
  BY <1>1 DEF Transport!Offer
<1> QED
  BY <1>2 DEF Transport!Next

\* What run_sse_once reads is an event without data, or a message that was
\* offered and is newer than all that the session has received.
LEMMA ReceiveRefines ==
    ASSUME Inv, Receive PROVE Transport!Next \/ UNCHANGED Transport!transportVars
<1> DEFINE e == Head(pipe[current])
<1>1. current \in Streams /\ pipe[current] \in Seq(Event) /\ pipe[current] # <<>>
  BY CurrentStream DEF Inv, TypeOK, StreamTypeOK, Receive
<1>2. e = pipe[current][1] /\ 1 \in 1..Len(pipe[current]) /\ e \in Event
  BY <1>1
<1>3. /\ nextEventId \in Int /\ delivered \in Seq(1..MaxEvents) /\ UNCHANGED nextEventId
      /\ e.id \in Int /\ e.id >= 0
  BY <1>2, SseAssumption DEF Inv, TypeOK, ChannelTypeOK, ClientTypeOK, Receive, channelVars, Event
<1>4. CASE ~e.data
  BY <1>3, <1>4 DEF Receive, Transport!transportVars
<1>5. CASE e.data
  <2>1. PipeInOrder(delivered, pipe[current], cursor[current], nextEventId)
    BY DEF Inv, StreamInOrder, Receive
  <2>2. e.id < nextEventId /\ \A k \in 1..Len(delivered) : delivered[k] <= e.id /\ delivered[k] # e.id
    BY <1>2, <1>5, <2>1 DEF PipeInOrder
  <2>3. e.id > 0
    BY <1>2, <1>5 DEF Event
  <2> DEFINE newest == IF delivered = <<>> THEN 0 ELSE delivered[Len(delivered)]
  <2>4. newest \in Int /\ newest < e.id /\ newest >= 0
    <3>1. CASE delivered = <<>>
      BY <1>3, <2>3, <3>1
    <3>2. CASE delivered # <<>>
      <4>1. Len(delivered) \in 1..Len(delivered) /\ delivered[Len(delivered)] \in 1..MaxEvents
        <5>1. delivered \in Seq(1..MaxEvents)
          BY <1>3
        <5>2. Len(delivered) \in Nat /\ Len(delivered) # 0
          BY <3>2, <5>1
        <5>3. Len(delivered) \in 1..Len(delivered)
          BY <5>2
        <5> QED
          BY <5>1, <5>3, ElementOfSeq
      <4>2. delivered[Len(delivered)] <= e.id /\ delivered[Len(delivered)] # e.id
        <5> HIDE DEF newest, e
        <5> QED
          BY <2>2, <4>1
      <4>3. newest = delivered[Len(delivered)] /\ newest \in Int /\ newest >= 1
        BY <3>2, <4>1, SseAssumption
      <4> HIDE DEF newest, e
      <4> QED
        BY <1>3, <4>2, <4>3
    <3> QED
      BY <3>1, <3>2
  <2>5. Transport!Newest = newest
    BY DEF Transport!Newest
  <2>6. delivered' = Append(delivered, e.id)
    BY <1>5 DEF Receive
  <2> HIDE DEF newest, e
  <2>7. e.id \in newest + 1..nextEventId - 1 /\ e.id \in 1..nextEventId - 1
    BY <1>3, <2>2, <2>3, <2>4
  <2>8. Transport!Deliver(e.id)
    BY <1>3, <2>5, <2>6, <2>7 DEF Transport!Deliver
  <2> QED
    BY <2>7, <2>8 DEF Transport!Next
<1> QED
  BY <1>4, <1>5

\* No other step concerns a message that was offered or delivered.
LEMMA OthersStutter ==
    ASSUME [Next]_vars, ~Enqueue, ~Receive PROVE UNCHANGED Transport!transportVars
<1>1. nextEventId' = nextEventId /\ delivered' = delivered
  <2>1. ASSUME NEW s \in Streams, StreamStep(s) PROVE nextEventId' = nextEventId /\ delivered' = delivered
    BY <2>1 DEF StreamStep, Attach, AttachNotify, WriteInitial, Wait, LeaveLoop, Collect, WriteEvent,
      channelVars, clientVars
  <2>2. ASSUME NEW s \in Streams, Open(s) PROVE nextEventId' = nextEventId /\ delivered' = delivered
    BY <2>2 DEF Open, channelVars
  <2>3. ASSUME Shutdown \/ NotifyAll \/ Drop \/ EndOfStream
        PROVE  nextEventId' = nextEventId /\ delivered' = delivered
    BY <2>3 DEF Shutdown, NotifyAll, Drop, EndOfStream, channelVars, clientVars
  <2> QED
    BY <2>1, <2>2, <2>3 DEF Next, ClientStep, vars
<1> QED
  BY <1>1 DEF Transport!transportVars

\* SseChannel and run_sse_once together are a Transport: whatever connections
\* break, however attach_stream takes over and whatever has fallen out of the
\* ring, every message reaches the session at most once, after it was queued and
\* in the order of enqueue.
THEOREM ChannelIsTransport == Spec => ImplementsTransport
<1>1. Init => Transport!Init
  BY DEF Init, Transport!Init
<1>2. Inv /\ [Next]_vars => [Transport!Next]_(Transport!transportVars)
  BY EnqueueRefines, ReceiveRefines, OthersStutter
<1> QED
  BY <1>1, <1>2, InvHolds, PTL DEF Spec, ImplementsTransport, Transport!Spec
=============================================================================
