--------------------------- MODULE HandshakeProofs ---------------------------
(***************************************************************************)
(* The handshake of a ClientSession and a ServerSession, for any number of *)
(* attempts, requests and lost POSTs, over a line and over HTTP.           *)
(***************************************************************************)
EXTENDS Handshake, SequenceTheorems, FiniteSetTheorems, TLAPS

-----------------------------------------------------------------------------
(* The inductive invariant                                                 *)

Answers == [id : Attempts, outcome : Outcomes]

\* A call of initialize() draws a number and waits for the request with it.
Calls ==
    /\ initPc \in {"set", "register"} => attempt < MaxAttempts
    /\ initPc \in {"send", "wait", "operate"} => attempt # 0
    /\ initPc \in {"send", "wait"} => pendingId \in {0, attempt}
    /\ initPc = "send" => outcome \in {"none", "error"}
    /\ timerPc # "idle" => timerId # 0

\* The requests in flight have growing numbers, and up to the number of the
\* last call.
Numbered ==
    /\ \A i \in DOMAIN toServer : toServer[i].type = "initialize" =>
          toServer[i].id <= attempt /\ (initPc = "send" => toServer[i].id # attempt)
    /\ \A i, j \in DOMAIN toServer :
          i < j /\ toServer[i].type = "initialize" /\ toServer[j].type = "initialize" =>
             toServer[i].id < toServer[j].id

\* So have the answers.
AnswersNumbered ==
    \A i \in DOMAIN toClient :
        toClient[i].id <= attempt /\ (initPc = "send" => toClient[i].id # attempt)

\* Nobody operates before an answer was accepted, and after that initialize()
\* is not called again.
Accepting ==
    /\ accepted # {} => \/ initPc = "operate"
                        \/ initPc = "idle" /\ clientState \in {"Operating", "Shutdown"}
    /\ initPc = "operate" \/ clientState = "Operating" \/ serverState = "Operating" => accepted # {}

\* Nor is anything but initialize and its cancellation sent before.
SentAfter ==
    \A i \in DOMAIN toServer : toServer[i].type \in {"initialized", "request"} =>
        connected /\ accepted # {}

\* As long as no POST is lost, send() of HTTP waits for every message: the only
\* initialize in flight is the one that is waited for.
OwnPosts ==
    \A i \in DOMAIN toServer :
        /\ toServer[i].awaited <=> ~fifo
        /\ ~fifo /\ toServer[i].type = "initialize" => initPc = "wait" /\ toServer[i].id = attempt

\* The call under way has a positive answer, or will have.
Granted ==
    \/ outcome = "ok"
    \/ \E i \in DOMAIN toClient : toClient[i].id = attempt /\ toClient[i].outcome = "ok"

\* Then the server waits for initialized, and no other initialize can disturb
\* it.
Answered ==
    initPc = "wait" /\ connected /\ Granted => serverState = "Initializing" /\ ~InFlight("initialize")

\* Once the answer is accepted the server operates or is about to.
Paired ==
    accepted # {} /\ connected =>
        /\ ~InFlight("initialize")
        /\ serverState = "Operating" \/ (serverState = "Initializing" /\ InFlight("initialized"))

\* Requests come after initialized: over a line behind it, over HTTP when it has
\* been handled.
InTurn ==
    /\ ~fifo /\ connected /\ clientState = "Operating" => serverState = "Operating"
    /\ \A j \in DOMAIN toServer : toServer[j].type = "request" =>
          \/ serverState = "Operating"
          \/ fifo /\ \E i \in DOMAIN toServer : i < j /\ toServer[i].type = "initialized"

Agreed == lost = 0 => ~rejected /\ OwnPosts /\ Answered /\ Paired /\ InTurn

Inv ==
    /\ TypeOK /\ Calls /\ Numbered /\ AnswersNumbered /\ Accepting /\ SentAfter
    /\ Agreed

-----------------------------------------------------------------------------
(* The queues                                                              *)

\* TypeOK, as the queues, the flags and the rest.
Queues == toServer \in Seq(Messages) /\ toClient \in Seq(Answers)
Flags == connected \in BOOLEAN /\ rejected \in BOOLEAN
Ranges ==
    /\ lost \in 0..MaxLost
    /\ clientState \in SessionStates
    /\ initPc \in {"idle", "set", "register", "send", "wait", "operate"}
    /\ attempt \in 0..MaxAttempts
    /\ pendingId \in 0..MaxAttempts
    /\ deadline \in 0..MaxAttempts
    /\ outcome \in Outcomes \cup {"none"}
    /\ timerPc \in {"idle", "cancel", "fail"}
    /\ timerId \in 0..MaxAttempts
    /\ closePc \in {"idle", "fail", "done"}
    /\ requests \in 0..MaxRequests
    /\ serverState \in SessionStates
    /\ protectedId \in 0..MaxAttempts
    /\ accepted \subseteq Attempts
Cancelled == cancelledIn \subseteq Attempts /\ Cardinality(cancelledIn) <= MaxCancellations

LEMMA Typed == TypeOK <=> Queues /\ Flags /\ Ranges /\ Cancelled
  BY Zenon DEF TypeOK, Queues, Flags, Ranges, Cancelled, Answers

\* What is in the queues.
LEMMA Queued ==
  ASSUME Queues
  PROVE  /\ Len(toServer) \in Nat /\ DOMAIN toServer = 1..Len(toServer)
         /\ \A i \in DOMAIN toServer : toServer[i] \in Messages
         /\ Len(toClient) \in Nat /\ DOMAIN toClient = 1..Len(toClient)
         /\ \A i \in DOMAIN toClient : toClient[i] \in Answers
  <1>1. toServer \in Seq(Messages) /\ toClient \in Seq(Answers)
    BY DEF Queues
  <1> QED
    BY <1>1, LenProperties, ElementOfSeq

\* A message is put at the end, unless the transport is down.
LEMMA Sent ==
  ASSUME Queues, NEW type, NEW id, [type |-> type, id |-> id, awaited |-> ~fifo] \in Messages,
         Send(type, id)
  PROVE  /\ toServer' \in Seq(Messages)
         /\ ~connected => toServer' = toServer
         /\ connected =>
              \E k \in Nat :
                 /\ k \in DOMAIN toServer' /\ k \notin DOMAIN toServer
                 /\ toServer'[k] = [type |-> type, id |-> id, awaited |-> ~fifo]
                 /\ \A i \in DOMAIN toServer :
                       i \in Nat /\ i < k /\ i \in DOMAIN toServer' /\ toServer'[i] = toServer[i]
                 /\ \A i \in DOMAIN toServer' : i \in DOMAIN toServer \/ i = k
  <1> DEFINE m == [type |-> type, id |-> id, awaited |-> ~fifo]
             n == Len(toServer)
  <1>1. toServer \in Seq(Messages) /\ m \in Messages
        /\ toServer' = IF connected THEN Append(toServer, m) ELSE toServer
    BY DEF Queues, Send
  <1> HIDE DEF m
  <1>2. CASE ~connected
    BY <1>1, <1>2
  <1>3. CASE connected
    <2>1. /\ toServer' \in Seq(Messages) /\ Len(toServer') = n + 1
          /\ \A i \in 1..n : toServer'[i] = toServer[i]
          /\ toServer'[n + 1] = m
      BY <1>1, <1>3, AppendProperties
    <2>2. n \in Nat /\ DOMAIN toServer = 1..n /\ DOMAIN toServer' = 1..(n + 1)
      BY <1>1, <2>1, LenProperties
    <2> HIDE DEF n
    <2>3. /\ n + 1 \in Nat /\ n + 1 \in 1..(n + 1) /\ n + 1 \notin 1..n
          /\ \A i \in 1..n : i \in Nat /\ i < n + 1 /\ i \in 1..(n + 1)
          /\ \A i \in 1..(n + 1) : i \in 1..n \/ i = n + 1
      BY <2>2
    <2>4. /\ n + 1 \in DOMAIN toServer' /\ n + 1 \notin DOMAIN toServer /\ toServer'[n + 1] = m
          /\ \A i \in DOMAIN toServer :
                i \in Nat /\ i < n + 1 /\ i \in DOMAIN toServer' /\ toServer'[i] = toServer[i]
          /\ \A i \in DOMAIN toServer' : i \in DOMAIN toServer \/ i = n + 1
      BY <2>1, <2>2, <2>3
    <2> QED
      BY <1>3, <2>1, <2>3, <2>4 DEF m
  <1> QED
    BY <1>2, <1>3

\* A message is taken; at[j] is where the j-th of the others was.
LEMMA TakenAt ==
  ASSUME Queues, NEW i \in 1..Len(toServer), toServer' = RemoveAt(toServer, i)
  PROVE  /\ toServer' \in Seq(Messages)
         /\ \E at \in [DOMAIN toServer' -> DOMAIN toServer \ {i}] :
               /\ \A j \in DOMAIN toServer' : toServer'[j] = toServer[at[j]]
               /\ \A j, k \in DOMAIN toServer' : j < k <=> at[j] < at[k]
               /\ \A k \in DOMAIN toServer \ {i} : \E j \in DOMAIN toServer' : at[j] = k
  <1> DEFINE q == toServer
             n == Len(toServer)
             a == SubSeq(q, 1, i - 1)
             b == SubSeq(q, i + 1, n)
  <1>1. /\ q \in Seq(Messages) /\ n \in Nat /\ DOMAIN q = 1..n
        /\ \A j \in 1..n : q[j] \in Messages
    BY Queued DEF Queues
  <1>2. i \in Int /\ 1 <= i /\ i <= n
    BY <1>1
  <1>3. /\ \A j \in 1..(i - 1) : q[j] \in Messages
        /\ \A j \in (i + 1)..n : q[j] \in Messages
    BY <1>1, <1>2
  <1>4. a \in Seq(Messages) /\ Len(a) = i - 1 /\ \A j \in 1..(i - 1) : a[j] = q[j]
    <2>1. /\ a \in Seq(Messages)
          /\ Len(a) = IF 1 <= i - 1 THEN (i - 1) - 1 + 1 ELSE 0
          /\ \A j \in 1..((i - 1) - 1 + 1) : a[j] = q[1 + j - 1]
      BY <1>1, <1>2, <1>3, SubSeqProperties
    <2> HIDE DEF a, q, n
    <2> QED
      BY <1>1, <1>2, <2>1
  <1>5. b \in Seq(Messages) /\ Len(b) = n - i /\ \A j \in 1..(n - i) : b[j] = q[i + j]
    <2>1. /\ b \in Seq(Messages)
          /\ Len(b) = IF i + 1 <= n THEN n - (i + 1) + 1 ELSE 0
          /\ \A j \in 1..(n - (i + 1) + 1) : b[j] = q[i + 1 + j - 1]
      BY <1>1, <1>2, <1>3, SubSeqProperties
    <2> HIDE DEF b, q, n
    <2> QED
      BY <1>1, <1>2, <2>1
  <1>6. toServer' = a \o b
    BY DEF RemoveAt
  <1> HIDE DEF a, b, q, n
  <1>7. /\ toServer' \in Seq(Messages) /\ Len(toServer') = Len(a) + Len(b)
        /\ \A j \in 1..(Len(a) + Len(b)) :
              toServer'[j] = IF j <= Len(a) THEN a[j] ELSE b[j - Len(a)]
    <2>1. /\ a \o b \in Seq(Messages) /\ Len(a \o b) = Len(a) + Len(b)
          /\ \A j \in 1..(Len(a) + Len(b)) :
                (a \o b)[j] = IF j <= Len(a) THEN a[j] ELSE b[j - Len(a)]
      BY <1>4, <1>5, ConcatProperties
    <2> QED
      BY <1>6, <2>1, Zenon
  <1>8. DOMAIN toServer' = 1..(n - 1)
    <2>1. DOMAIN toServer' = 1..Len(toServer')
      BY <1>7, LenProperties
    <2>2. Len(toServer') = n - 1
      BY <1>1, <1>2, <1>4, <1>5, <1>7
    <2> QED
      BY <2>1, <2>2
  <1> DEFINE f(j) == IF j < i THEN j ELSE j + 1
             at == [j \in 1..(n - 1) |-> f(j)]
  <1>9. ASSUME NEW j \in 1..(n - 1)
        PROVE  f(j) \in 1..n /\ f(j) # i /\ toServer'[j] = q[f(j)]
    <2>1. toServer'[j] = IF j <= i - 1 THEN a[j] ELSE b[j - (i - 1)]
      BY <1>1, <1>2, <1>4, <1>5, <1>7
    <2>2. CASE j < i
      <3>1. j \in 1..(i - 1) /\ j <= i - 1 /\ f(j) = j /\ j \in 1..n
        BY <1>1, <1>2, <2>2
      <3> QED
        BY <1>4, <2>1, <2>2, <3>1
    <2>3. CASE ~(j < i)
      <3>1. /\ j - (i - 1) \in 1..(n - i) /\ i + (j - (i - 1)) = j + 1 /\ ~(j <= i - 1)
            /\ f(j) = j + 1 /\ j + 1 \in 1..n /\ j + 1 # i
        BY <1>1, <1>2, <2>3
      <3> QED
        BY <1>5, <2>1, <2>3, <3>1
    <2> QED
      BY <2>2, <2>3
  <1>10. \A j, k \in 1..(n - 1) : j < k <=> f(j) < f(k)
    BY <1>1, <1>2
  <1>11. ASSUME NEW k \in 1..n, k # i PROVE \E j \in 1..(n - 1) : f(j) = k
    <2>1. CASE k < i
      <3>1. k \in 1..(n - 1) /\ f(k) = k
        BY <1>1, <1>2, <2>1
      <3> QED
        BY <3>1
    <2>2. CASE ~(k < i)
      <3>1. k - 1 \in 1..(n - 1) /\ f(k - 1) = k
        BY <1>1, <1>2, <1>11, <2>2
      <3> QED
        BY <3>1
    <2> QED
      BY <2>1, <2>2
  <1> HIDE DEF f
  <1>12. /\ at \in [1..(n - 1) -> 1..n \ {i}]
         /\ \A j \in 1..(n - 1) : toServer'[j] = q[at[j]]
         /\ \A j, k \in 1..(n - 1) : j < k <=> at[j] < at[k]
         /\ \A k \in 1..n \ {i} : \E j \in 1..(n - 1) : at[j] = k
    BY <1>9, <1>10, <1>11
  <1> HIDE DEF at
  <1>13. DOMAIN toServer = 1..n
    BY <1>1 DEF q
  <1>14. \E x \in [DOMAIN toServer' -> DOMAIN toServer \ {i}] :
            /\ \A j \in DOMAIN toServer' : toServer'[j] = toServer[x[j]]
            /\ \A j, k \in DOMAIN toServer' : j < k <=> x[j] < x[k]
            /\ \A k \in DOMAIN toServer \ {i} : \E j \in DOMAIN toServer' : x[j] = k
    <2>1. at \in [DOMAIN toServer' -> DOMAIN toServer \ {i}]
      BY <1>8, <1>12, <1>13, Zenon
    <2>2. \A j \in DOMAIN toServer' : toServer'[j] = toServer[at[j]]
      BY <1>8, <1>12, Zenon DEF q
    <2>3. \A j, k \in DOMAIN toServer' : j < k <=> at[j] < at[k]
      BY <1>8, <1>12, Zenon
    <2>4. \A k \in DOMAIN toServer \ {i} : \E j \in DOMAIN toServer' : at[j] = k
      BY <1>8, <1>12, <1>13, Zenon
    <2> QED
      BY <2>1, <2>2, <2>3, <2>4, Zenon
  <1> QED
    BY <1>7, <1>14

-----------------------------------------------------------------------------
(* What a step leaves alone                                                *)

LEMMA NumberedRest ==
  ASSUME Numbered, toServer' = toServer, attempt' = attempt, initPc' = "send" => initPc = "send"
  PROVE  Numbered'
  BY DEF Numbered

LEMMA AnswersRest ==
  ASSUME AnswersNumbered, toClient' = toClient, attempt' = attempt,
         initPc' = "send" => initPc = "send"
  PROVE  AnswersNumbered'
  BY DEF AnswersNumbered

LEMMA SentRest ==
  ASSUME SentAfter, UNCHANGED <<toServer, connected, accepted>>
  PROVE  SentAfter'
  BY DEF SentAfter

\* What the two sides agree on is still true when neither of them, nor what is
\* between them, changes.
LEMMA AgreedRest ==
  ASSUME Agreed, UNCHANGED <<fifo, toServer, connected, serverState, rejected, lost, accepted>>,
         lost = 0 => Answered',
         lost = 0 /\ ~fifo => (initPc' = initPc /\ attempt' = attempt) \/ ~InFlight("initialize"),
         lost = 0 /\ ~fifo /\ connected /\ clientState' = "Operating" => serverState = "Operating"
  PROVE  Agreed'
  <1> SUFFICES ASSUME lost = 0 PROVE Agreed'
    BY DEF Agreed
  <1>1. ~rejected /\ OwnPosts /\ Paired /\ InTurn
    BY DEF Agreed
  <1>2. OwnPosts'
    <2>1. CASE initPc' = initPc /\ attempt' = attempt
      BY <1>1, <2>1 DEF OwnPosts
    <2>2. CASE fifo \/ ~InFlight("initialize")
      BY <1>1, <2>2 DEF OwnPosts, InFlight
    <2> QED
      BY <2>1, <2>2
  <1>3. Paired'
    BY <1>1 DEF Paired, InFlight
  <1>4. InTurn'
    BY <1>1 DEF InTurn
  <1> QED
    BY <1>1, <1>2, <1>3, <1>4 DEF Agreed

\* Whether the call under way is answered.
LEMMA AnsweredRest ==
  ASSUME Answered, UNCHANGED <<toServer, connected, serverState>>,
         initPc' = "wait" => initPc = "wait" /\ (Granted' => Granted)
  PROVE  Answered'
  BY DEF Answered, InFlight

LEMMA GrantedRest ==
  ASSUME UNCHANGED <<toClient, attempt>>, outcome' = "ok" => outcome = "ok", Granted'
  PROVE  Granted
  BY DEF Granted

\* Over HTTP nothing is in flight that nobody waits for, as long as nothing was
\* lost.
LEMMA NothingInFlight ==
  ASSUME Agreed, lost = 0, ~fifo
  PROVE  /\ initPc # "wait" => ~InFlight("initialize")
         /\ \A type : Returned(type) => ~InFlight(type)
  BY DEF Agreed, OwnPosts, InFlight, Returned

\* The parts make the whole.
LEMMA Together ==
  ASSUME Queues', Flags', Ranges', Cancelled', Calls', Numbered', AnswersNumbered', Accepting',
         SentAfter', Agreed'
  PROVE  Inv'
  <1>1. TypeOK'
    BY Zenon DEF TypeOK, Queues, Flags, Ranges, Cancelled, Answers
  <1> QED
    BY <1>1 DEF Inv

\* Numbers are numbers.
LEMMA Numbers ==
  ASSUME Inv
  PROVE  /\ attempt \in Nat /\ MaxAttempts \in Nat
         /\ \A i \in DOMAIN toServer : toServer[i].id \in Nat
         /\ \A i \in DOMAIN toClient : toClient[i].id \in Nat /\ toClient[i].id # 0
  <1>1. Queues /\ Ranges
    BY Typed DEF Inv
  <1>2. MaxAttempts \in Nat
    BY HandshakeAssumption
  <1>3. attempt \in Nat
    BY <1>1, <1>2 DEF Ranges
  <1>4. \A m \in Messages : m.id \in Nat
    BY <1>2 DEF Messages, Attempts
  <1>5. \A m \in Answers : m.id \in Nat /\ m.id # 0
    BY <1>2 DEF Answers, Attempts
  <1> QED
    BY <1>1, <1>2, <1>3, <1>4, <1>5, Queued

\* Before an answer is accepted only initialize and cancellations are sent.
LEMMA NotYet ==
  ASSUME Inv, initPc \notin {"operate", "idle"} \/ accepted = {}
  PROVE  /\ accepted = {} /\ clientState # "Operating" /\ serverState # "Operating"
         /\ initPc # "operate"
         /\ \A i \in DOMAIN toServer : toServer[i].type \notin {"initialized", "request"}
  <1>1. accepted = {}
    BY DEF Inv, Accepting
  <1> QED
    BY <1>1 DEF Inv, Accepting, SentAfter

\* A message that is not initialize is sent.
LEMMA SendRest ==
  ASSUME Inv, NEW type, NEW id, [type |-> type, id |-> id, awaited |-> ~fifo] \in Messages,
         Send(type, id), type # "initialize", attempt' = attempt, fifo' = fifo,
         initPc' = "send" => initPc = "send"
  PROVE  /\ toServer' \in Seq(Messages) /\ Numbered'
         /\ InFlight("initialize")' <=> InFlight("initialize")
         /\ InFlight("initialized") => InFlight("initialized")'
         /\ type = "initialized" /\ connected => InFlight("initialized")'
         /\ OwnPosts /\ (initPc' = initPc \/ fifo \/ ~InFlight("initialize")) => OwnPosts'
  <1> DEFINE m == [type |-> type, id |-> id, awaited |-> ~fifo]
  <1>1. Queues
    BY Typed DEF Inv
  <1>2. /\ toServer' \in Seq(Messages)
        /\ ~connected => toServer' = toServer
    BY <1>1, Sent
  <1>3. CASE ~connected
    <2>1. toServer' = toServer
      BY <1>2, <1>3
    <2>2. Numbered'
      BY <2>1, NumberedRest DEF Inv
    <2> QED
      BY <1>2, <1>3, <2>1, <2>2 DEF InFlight, OwnPosts
  <1>4. CASE connected
    <2>1. PICK k \in Nat :
             /\ k \in DOMAIN toServer' /\ k \notin DOMAIN toServer /\ toServer'[k] = m
             /\ \A i \in DOMAIN toServer :
                   i \in Nat /\ i < k /\ i \in DOMAIN toServer' /\ toServer'[i] = toServer[i]
             /\ \A i \in DOMAIN toServer' : i \in DOMAIN toServer \/ i = k
      BY <1>1, <1>4, Sent
    <2>2. m.type = type /\ m.awaited = ~fifo
      OBVIOUS
    <2> HIDE DEF m
    <2>3. ASSUME NEW i \in DOMAIN toServer', toServer'[i].type = "initialize"
          PROVE  i \in DOMAIN toServer /\ toServer'[i] = toServer[i]
      BY <2>1, <2>2, <2>3
    <2>4. Numbered'
      BY <2>3 DEF Inv, Numbered
    <2>5. InFlight("initialize")' <=> InFlight("initialize")
      BY <2>1, <2>3 DEF InFlight
    <2>6. InFlight("initialized") => InFlight("initialized")'
      BY <2>1 DEF InFlight
    <2>7. type = "initialized" => InFlight("initialized")'
      BY <2>1, <2>2 DEF InFlight
    <2>8. ASSUME OwnPosts, initPc' = initPc \/ fifo \/ ~InFlight("initialize") PROVE OwnPosts'
      <3>1. ASSUME NEW i \in DOMAIN toServer' PROVE toServer'[i].awaited <=> ~fifo
        BY <2>1, <2>2, <2>8 DEF OwnPosts
      <3>2. ASSUME NEW i \in DOMAIN toServer', ~fifo, toServer'[i].type = "initialize"
            PROVE  initPc' = "wait" /\ toServer'[i].id = attempt
        BY <2>3, <2>8, <3>2 DEF OwnPosts, InFlight
      <3> QED
        BY <3>1, <3>2 DEF OwnPosts
    <2> QED
      BY <1>2, <1>4, <2>4, <2>5, <2>6, <2>7, <2>8
  <1> QED
    BY <1>3, <1>4

-----------------------------------------------------------------------------
(* initialize()                                                            *)

\* The call begins in a session that is not initialized.
LEMMA CheckInv == ASSUME Inv, InitializeCheck, UNCHANGED options PROVE Inv'
  <1> USE DEF InitializeCheck, pendingVars, timerVars, serverVars, clientVars, options
  <1>1. Queues /\ Flags /\ Ranges /\ Cancelled
    BY Typed DEF Inv
  <1>2. Queues'
    BY <1>1 DEF Queues
  <1>3. Flags'
    BY <1>1, Zenon DEF Flags
  <1>4. Ranges'
    BY <1>1 DEF Ranges
  <1>5. Cancelled'
    BY <1>1 DEF Cancelled
  <1>6. Calls'
    BY DEF Inv, Calls
  <1>7. Numbered' /\ AnswersNumbered'
    BY NumberedRest, AnswersRest DEF Inv
  <1>8. Accepting'
    BY DEF Inv, Accepting
  <1>9. SentAfter'
    BY SentRest DEF Inv
  <1>10. Agreed'
    <2>1. Answered'
      BY DEF Answered
    <2>2. lost = 0 /\ ~fifo => ~InFlight("initialize")
      BY NothingInFlight DEF Inv
    <2>3. Agreed /\ UNCHANGED <<fifo, toServer, connected, serverState, rejected, lost, accepted>>
      BY DEF Inv
    <2> QED
      BY <2>1, <2>2, <2>3, AgreedRest
  <1> QED
    BY <1>2, <1>3, <1>4, <1>5, <1>6, <1>7, <1>8, <1>9, <1>10, Together

\* The state is written, whatever it is by now.
LEMMA SetInv == ASSUME Inv, InitializeSet, UNCHANGED options PROVE Inv'
  <1> USE DEF InitializeSet, pendingVars, timerVars, serverVars, clientVars, options
  <1>1. Queues /\ Flags /\ Ranges /\ Cancelled
    BY Typed DEF Inv
  <1>2. Queues'
    BY <1>1 DEF Queues
  <1>3. Flags'
    BY <1>1, Zenon DEF Flags
  <1>4. Ranges'
    BY <1>1 DEF Ranges, SessionStates
  <1>5. Cancelled'
    BY <1>1 DEF Cancelled
  <1>6. Calls'
    BY DEF Inv, Calls
  <1>7. Numbered' /\ AnswersNumbered'
    BY NumberedRest, AnswersRest DEF Inv
  <1>8. Accepting'
    BY DEF Inv, Accepting
  <1>9. SentAfter'
    BY SentRest DEF Inv
  <1>10. Agreed'
    <2>1. Answered'
      BY DEF Answered
    <2>2. lost = 0 /\ ~fifo => ~InFlight("initialize")
      BY NothingInFlight DEF Inv
    <2>3. Agreed /\ UNCHANGED <<fifo, toServer, connected, serverState, rejected, lost, accepted>>
      BY DEF Inv
    <2> QED
      BY <2>1, <2>2, <2>3, AgreedRest
  <1> QED
    BY <1>2, <1>3, <1>4, <1>5, <1>6, <1>7, <1>8, <1>9, <1>10, Together

\* The next number is not in flight yet.
LEMMA RegisterInv == ASSUME Inv, InitializeRegister, UNCHANGED options PROVE Inv'
  <1> USE DEF InitializeRegister, pendingVars, timerVars, serverVars, clientVars, options
  <1>1. Queues /\ Flags /\ Ranges /\ Cancelled
    BY Typed DEF Inv
  <1>2. Queues'
    BY <1>1 DEF Queues
  <1>3. Flags'
    BY <1>1, Zenon DEF Flags
  <1>4. Ranges'
    <2>1. attempt + 1 \in 0..MaxAttempts
      <3>1. attempt < MaxAttempts
        BY DEF Inv, Calls
      <3> QED
        BY <3>1, Numbers
    <2> QED
      BY <1>1, <2>1 DEF Ranges, Outcomes
  <1>5. Cancelled'
    BY <1>1 DEF Cancelled
  <1>6. Calls'
    BY Numbers DEF Inv, Calls
  <1>7. Numbered' /\ AnswersNumbered'
    <2>1. Numbered'
      BY Numbers DEF Inv, Numbered
    <2>2. AnswersNumbered'
      BY Numbers DEF Inv, AnswersNumbered
    <2> QED
      BY <2>1, <2>2
  <1>8. Accepting'
    BY DEF Inv, Accepting
  <1>9. SentAfter'
    BY SentRest DEF Inv
  <1>10. Agreed'
    <2>1. Answered'
      BY DEF Answered
    <2>2. lost = 0 /\ ~fifo => ~InFlight("initialize")
      BY NothingInFlight DEF Inv
    <2>3. Agreed /\ UNCHANGED <<fifo, toServer, connected, serverState, rejected, lost, accepted>>
      BY DEF Inv
    <2>4. clientState # "Operating"
      BY NotYet
    <2> QED
      BY <2>1, <2>2, <2>3, <2>4, AgreedRest
  <1> QED
    BY <1>2, <1>3, <1>4, <1>5, <1>6, <1>7, <1>8, <1>9, <1>10, Together

\* Over HTTP the call ends when its POST has, so that nothing of it is left.
LEMMA FailedInv == ASSUME Inv, InitializeFailed, UNCHANGED options PROVE Inv'
  <1> USE DEF InitializeFailed, pendingVars, timerVars, serverVars, clientVars, options
  <1>1. Queues /\ Flags /\ Ranges /\ Cancelled
    BY Typed DEF Inv
  <1>2. Queues'
    BY <1>1 DEF Queues
  <1>3. Flags'
    BY <1>1, Zenon DEF Flags
  <1>4. Ranges'
    BY <1>1 DEF Ranges, SessionStates
  <1>5. Cancelled'
    BY <1>1 DEF Cancelled
  <1>6. Calls'
    BY DEF Inv, Calls
  <1>7. Numbered' /\ AnswersNumbered'
    BY NumberedRest, AnswersRest DEF Inv
  <1>8. Accepting'
    BY DEF Inv, Accepting
  <1>9. SentAfter'
    BY SentRest DEF Inv
  <1>10. Agreed'
    <2>1. Answered'
      BY DEF Answered
    <2>2. lost = 0 /\ ~fifo => ~InFlight("initialize")
      BY NothingInFlight DEF Inv
    <2>3. Agreed /\ UNCHANGED <<fifo, toServer, connected, serverState, rejected, lost, accepted>>
      BY DEF Inv
    <2> QED
      BY <2>1, <2>2, <2>3, AgreedRest
  <1> QED
    BY <1>2, <1>3, <1>4, <1>5, <1>6, <1>7, <1>8, <1>9, <1>10, Together

\* Over HTTP the server has handled initialized by then.
LEMMA OperateInv == ASSUME Inv, InitializeOperate, UNCHANGED options PROVE Inv'
  <1> USE DEF InitializeOperate, pendingVars, timerVars, serverVars, clientVars, options
  <1>1. Queues /\ Flags /\ Ranges /\ Cancelled
    BY Typed DEF Inv
  <1>2. Queues'
    BY <1>1 DEF Queues
  <1>3. Flags'
    BY <1>1, Zenon DEF Flags
  <1>4. Ranges'
    BY <1>1 DEF Ranges, SessionStates
  <1>5. Cancelled'
    BY <1>1 DEF Cancelled
  <1>6. Calls'
    BY DEF Inv, Calls
  <1>7. Numbered' /\ AnswersNumbered'
    BY NumberedRest, AnswersRest DEF Inv
  <1>8. Accepting'
    BY DEF Inv, Accepting
  <1>9. SentAfter'
    BY SentRest DEF Inv
  <1>10. Agreed'
    <2>1. Answered'
      BY DEF Answered
    <2>2. lost = 0 /\ ~fifo => ~InFlight("initialize") /\ ~InFlight("initialized")
      BY NothingInFlight DEF Inv
    <2>3. Agreed /\ UNCHANGED <<fifo, toServer, connected, serverState, rejected, lost, accepted>>
      BY DEF Inv
    <2>4. accepted # {}
      BY DEF Inv, Accepting
    <2>5. lost = 0 /\ ~fifo /\ connected => serverState = "Operating"
      BY <2>2, <2>3, <2>4 DEF Agreed, Paired
    <2> QED
      BY <2>1, <2>2, <2>3, <2>5, AgreedRest
  <1> QED
    BY <1>2, <1>3, <1>4, <1>5, <1>6, <1>7, <1>8, <1>9, <1>10, Together

\* The number in flight is the one of this call, which nobody has answered.
LEMMA SendInv == ASSUME Inv, InitializeSend, UNCHANGED options PROVE Inv'
  <1> USE DEF InitializeSend, pendingVars, timerVars, serverVars, clientVars, options
  <1>1. Queues /\ Flags /\ Ranges /\ Cancelled
    BY Typed DEF Inv
  <1>0. attempt \in Attempts
    BY Numbers DEF Inv, Calls, TypeOK, Attempts
  <1>a. [type |-> "initialize", id |-> attempt, awaited |-> ~fifo] \in Messages
    BY <1>0 DEF Messages
  <1>b. /\ toServer' \in Seq(Messages)
        /\ ~connected => toServer' = toServer
    BY <1>1, <1>a, Sent
  <1>c. /\ accepted = {} /\ clientState # "Operating" /\ serverState # "Operating"
        /\ \A i \in DOMAIN toServer : toServer[i].type \notin {"initialized", "request"}
    BY NotYet
  <1> DEFINE m == [type |-> "initialize", id |-> attempt, awaited |-> ~fifo]
  <1>d. m.type = "initialize" /\ m.id = attempt /\ m.awaited = ~fifo
    OBVIOUS
  <1> HIDE DEF m
  <1>e. connected => \E k \in Nat :
           /\ k \in DOMAIN toServer' /\ k \notin DOMAIN toServer /\ toServer'[k] = m
           /\ \A i \in DOMAIN toServer :
                 i \in Nat /\ i < k /\ i \in DOMAIN toServer' /\ toServer'[i] = toServer[i]
           /\ \A i \in DOMAIN toServer' : i \in DOMAIN toServer \/ i = k
    BY <1>1, <1>a, Sent DEF m
  <1>f. \A i \in DOMAIN toServer' :
           (i \in DOMAIN toServer /\ toServer'[i] = toServer[i]) \/ toServer'[i] = m
    BY <1>b, <1>e
  <1>2. Queues'
    BY <1>1, <1>b DEF Queues
  <1>3. Flags'
    BY <1>1, Zenon DEF Flags
  <1>4. Ranges'
    BY <1>1 DEF Ranges
  <1>5. Cancelled'
    BY <1>1 DEF Cancelled
  <1>6. Calls'
    BY DEF Inv, Calls
  <1>7. Numbered' /\ AnswersNumbered'
    <2>1. AnswersNumbered'
      BY AnswersRest DEF Inv
    <2>2. CASE ~connected
      BY <1>b, <2>1, <2>2, NumberedRest DEF Inv
    <2>3. CASE connected
      <3>1. PICK k \in Nat :
              /\ k \in DOMAIN toServer' /\ k \notin DOMAIN toServer /\ toServer'[k] = m
              /\ \A i \in DOMAIN toServer :
                    i \in Nat /\ i < k /\ i \in DOMAIN toServer' /\ toServer'[i] = toServer[i]
              /\ \A i \in DOMAIN toServer' : i \in DOMAIN toServer \/ i = k
        BY <1>e, <2>3
      <3>2. ASSUME NEW i \in DOMAIN toServer, toServer[i].type = "initialize"
            PROVE  toServer[i].id < attempt
        BY <3>2, Numbers DEF Inv, Numbered
      <3>3. ASSUME NEW i \in DOMAIN toServer', toServer'[i].type = "initialize"
            PROVE  toServer'[i].id <= attempt
        BY <1>d, <3>1, <3>2, <3>3, Numbers
      <3>4. ASSUME NEW i \in DOMAIN toServer', NEW j \in DOMAIN toServer', i < j,
                   toServer'[i].type = "initialize", toServer'[j].type = "initialize"
            PROVE  toServer'[i].id < toServer'[j].id
        <4>1. CASE i \in DOMAIN toServer /\ j \in DOMAIN toServer
          BY <3>1, <3>4, <4>1 DEF Inv, Numbered
        <4>2. CASE i \in DOMAIN toServer /\ j = k
          BY <1>d, <3>1, <3>2, <3>4, <4>2
        <4>3. CASE i = k
          <5>1. j # k /\ j \in DOMAIN toServer
            BY <3>1, <3>4, <4>3
          <5> QED
            BY <3>1, <3>4, <4>3, <5>1
        <4> QED
          BY <3>1, <4>1, <4>2, <4>3
      <3> QED
        BY <2>1, <3>3, <3>4 DEF Numbered
    <2> QED
      BY <2>2, <2>3
  <1>8. Accepting'
    BY DEF Inv, Accepting
  <1>9. SentAfter'
    BY <1>c, <1>d, <1>f DEF SentAfter
  <1>10. Agreed'
    <2> SUFFICES ASSUME lost = 0 PROVE Agreed'
      BY DEF Agreed
    <2>1. ~rejected /\ OwnPosts
      BY DEF Inv, Agreed
    <2>2. OwnPosts'
      <3>1. ~fifo => ~InFlight("initialize")
        BY NothingInFlight DEF Inv
      <3> QED
        BY <1>d, <1>f, <2>1, <3>1 DEF OwnPosts, InFlight
    <2>3. ~Granted'
      BY DEF Inv, Calls, AnswersNumbered, Granted
    <2>4. Answered' /\ Paired' /\ InTurn'
      BY <1>c, <1>d, <1>f, <2>3 DEF Answered, Paired, InTurn
    <2> QED
      BY <2>1, <2>2, <2>4 DEF Agreed
  <1> QED
    BY <1>2, <1>3, <1>4, <1>5, <1>6, <1>7, <1>8, <1>9, <1>10, Together

\* The client leaves: nothing but initialize was ever sent.
LEMMA UnsupportedInv == ASSUME Inv, InitializeUnsupported, UNCHANGED options PROVE Inv'
  <1> USE DEF InitializeUnsupported, pendingVars, timerVars, serverVars, clientVars, options
  <1>1. Queues /\ Flags /\ Ranges /\ Cancelled
    BY Typed DEF Inv
  <1>0. /\ accepted = {} /\ clientState # "Operating" /\ serverState # "Operating"
        /\ \A i \in DOMAIN toServer : toServer[i].type \notin {"initialized", "request"}
    BY NotYet
  <1>2. Queues'
    BY <1>1 DEF Queues
  <1>3. Flags'
    BY <1>1, Zenon DEF Flags
  <1>4. Ranges'
    BY <1>1 DEF Ranges, SessionStates
  <1>5. Cancelled'
    BY <1>1 DEF Cancelled
  <1>6. Calls'
    BY DEF Inv, Calls
  <1>7. Numbered' /\ AnswersNumbered'
    BY NumberedRest, AnswersRest DEF Inv
  <1>8. Accepting'
    BY <1>0 DEF Accepting
  <1>9. SentAfter'
    BY <1>0 DEF SentAfter
  <1>10. Agreed'
    <2> SUFFICES ASSUME lost = 0 PROVE Agreed'
      BY DEF Agreed
    <2>1. ~rejected /\ OwnPosts
      BY DEF Inv, Agreed
    <2>2. OwnPosts'
      <3>1. ~fifo => ~InFlight("initialize")
        BY NothingInFlight DEF Inv
      <3> QED
        BY <2>1, <3>1 DEF OwnPosts, InFlight
    <2>3. Answered' /\ Paired' /\ InTurn'
      BY <1>0 DEF Answered, Paired, InTurn
    <2> QED
      BY <2>1, <2>2, <2>3 DEF Agreed
  <1> QED
    BY <1>2, <1>3, <1>4, <1>5, <1>6, <1>7, <1>8, <1>9, <1>10, Together

\* The answer is accepted: the server waits for what is sent now.
LEMMA AnnounceInv == ASSUME Inv, InitializeAnnounce, UNCHANGED options PROVE Inv'
  <1> USE DEF InitializeAnnounce, pendingVars, timerVars, serverVars, clientVars, options
  <1>1. Queues /\ Flags /\ Ranges /\ Cancelled
    BY Typed DEF Inv
  <1>0. attempt \in Attempts
    BY Numbers DEF Inv, Calls, TypeOK, Attempts
  <1>a. [type |-> "initialized", id |-> 0, awaited |-> ~fifo] \in Messages
    BY <1>0 DEF Messages
  <1>b. /\ toServer' \in Seq(Messages) /\ Numbered'
        /\ InFlight("initialize")' <=> InFlight("initialize")
        /\ connected => InFlight("initialized")'
        /\ OwnPosts /\ (fifo \/ ~InFlight("initialize")) => OwnPosts'
    BY <1>a, SendRest
  <1>c. /\ accepted = {} /\ clientState # "Operating" /\ serverState # "Operating"
        /\ \A i \in DOMAIN toServer : toServer[i].type \notin {"initialized", "request"}
    BY NotYet
  <1>d. accepted' # {}
    OBVIOUS
  <1> DEFINE m == [type |-> "initialized", id |-> 0, awaited |-> ~fifo]
  <1>e. m.type = "initialized"
    OBVIOUS
  <1>f. ASSUME NEW i \in DOMAIN toServer'
        PROVE  (i \in DOMAIN toServer /\ toServer'[i] = toServer[i]) \/ (connected /\ toServer'[i] = m)
    BY <1>1, <1>a, Sent
  <1> HIDE DEF m
  <1>2. Queues'
    BY <1>1, <1>b DEF Queues
  <1>3. Flags'
    BY <1>1, Zenon DEF Flags
  <1>4. Ranges'
    BY <1>0, <1>1 DEF Ranges
  <1>5. Cancelled'
    BY <1>1 DEF Cancelled
  <1>6. Calls'
    BY DEF Inv, Calls
  <1>7. Numbered' /\ AnswersNumbered'
    BY <1>b, AnswersRest DEF Inv
  <1>8. Accepting'
    BY <1>d DEF Accepting
  <1>9. SentAfter'
    BY <1>c, <1>d, <1>f DEF SentAfter
  <1>10. Agreed'
    <2> SUFFICES ASSUME lost = 0 PROVE Agreed'
      BY DEF Agreed
    <2>1. ~rejected /\ OwnPosts /\ Answered
      BY DEF Inv, Agreed
    <2>2. ~fifo => ~InFlight("initialize")
      BY NothingInFlight DEF Inv
    <2>3. OwnPosts'
      BY <1>b, <2>1, <2>2
    <2>4. connected => serverState = "Initializing" /\ ~InFlight("initialize")
      BY <2>1 DEF Answered, Granted
    <2>5. Answered' /\ Paired' /\ InTurn'
      <3>1. Answered'
        BY DEF Answered
      <3>2. Paired'
        BY <1>b, <2>4 DEF Paired
      <3>3. InTurn'
        BY <1>c, <1>e, <1>f DEF InTurn
      <3> QED
        BY <3>1, <3>2, <3>3
    <2> QED
      BY <2>1, <2>3, <2>5 DEF Agreed
  <1> QED
    BY <1>2, <1>3, <1>4, <1>5, <1>6, <1>7, <1>8, <1>9, <1>10, Together

\* A request is sent behind initialized, or when it has been handled.
LEMMA UserRequestInv == ASSUME Inv, UserRequest, UNCHANGED options PROVE Inv'
  <1> USE DEF UserRequest, pendingVars, timerVars, serverVars, clientVars, options
  <1>1. Queues /\ Flags /\ Ranges /\ Cancelled
    BY Typed DEF Inv
  <1>a. [type |-> "request", id |-> 0, awaited |-> ~fifo] \in Messages
    BY <1>1 DEF Messages
  <1>b. /\ toServer' \in Seq(Messages) /\ Numbered'
        /\ InFlight("initialize")' <=> InFlight("initialize")
        /\ InFlight("initialized") => InFlight("initialized")'
        /\ OwnPosts => OwnPosts'
    BY <1>a, SendRest
  <1>c. accepted # {}
    BY DEF Inv, Accepting
  <1> DEFINE m == [type |-> "request", id |-> 0, awaited |-> ~fifo]
  <1>d. ~connected => toServer' = toServer
    BY <1>1, <1>a, Sent
  <1>e. connected => \E k \in Nat :
           /\ k \in DOMAIN toServer' /\ k \notin DOMAIN toServer /\ toServer'[k] = m
           /\ \A i \in DOMAIN toServer :
                 i \in Nat /\ i < k /\ i \in DOMAIN toServer' /\ toServer'[i] = toServer[i]
           /\ \A i \in DOMAIN toServer' : i \in DOMAIN toServer \/ i = k
    BY <1>1, <1>a, Sent
  <1> HIDE DEF m
  <1>2. Queues'
    BY <1>1, <1>b DEF Queues
  <1>3. Flags'
    BY <1>1, Zenon DEF Flags
  <1>4. Ranges'
    <2>1. requests + 1 \in 0..MaxRequests
      BY <1>1, HandshakeAssumption DEF Ranges
    <2> QED
      BY <1>1, <2>1 DEF Ranges
  <1>5. Cancelled'
    BY <1>1 DEF Cancelled
  <1>6. Calls'
    BY DEF Inv, Calls
  <1>7. Numbered' /\ AnswersNumbered'
    BY <1>b, AnswersRest DEF Inv
  <1>8. Accepting'
    BY DEF Inv, Accepting
  <1>9. SentAfter'
    <2>1. CASE connected
      BY <1>c, <2>1 DEF SentAfter
    <2>2. CASE ~connected
      BY <1>d, <2>2 DEF Inv, SentAfter
    <2> QED
      BY <2>1, <2>2
  <1>10. Agreed'
    <2> SUFFICES ASSUME lost = 0 PROVE Agreed'
      BY DEF Agreed
    <2>1. ~rejected /\ OwnPosts /\ Answered /\ Paired /\ InTurn
      BY DEF Inv, Agreed
    <2>2. OwnPosts'
      BY <1>b, <2>1
    <2>3. Answered'
      <3>1. initPc # "wait"
        BY <1>c DEF Inv, Accepting
      <3> QED
        BY <3>1 DEF Answered
    <2>4. Paired'
      BY <1>b, <2>1 DEF Paired
    <2>5. InTurn'
      <3>1. CASE ~connected
        BY <1>d, <2>1, <3>1 DEF InTurn
      <3>2. CASE connected
        <4>1. PICK k \in Nat :
                /\ k \in DOMAIN toServer' /\ k \notin DOMAIN toServer /\ toServer'[k] = m
                /\ \A i \in DOMAIN toServer :
                      i \in Nat /\ i < k /\ i \in DOMAIN toServer' /\ toServer'[i] = toServer[i]
                /\ \A i \in DOMAIN toServer' : i \in DOMAIN toServer \/ i = k
          BY <1>e, <3>2
        <4>2. serverState = "Operating" \/ (fifo /\ InFlight("initialized"))
          BY <1>c, <2>1, <3>2 DEF Paired, InTurn
        <4>3. serverState = "Operating" \/
                 (fifo /\ \E i \in DOMAIN toServer' : i < k /\ toServer'[i].type = "initialized")
          BY <4>1, <4>2 DEF InFlight
        <4>4. ASSUME NEW j \in DOMAIN toServer', toServer'[j].type = "request"
              PROVE  \/ serverState = "Operating"
                     \/ fifo /\ \E i \in DOMAIN toServer' : i < j /\ toServer'[i].type = "initialized"
          <5>1. CASE j = k
            BY <4>3, <5>1
          <5>2. CASE j \in DOMAIN toServer
            BY <2>1, <4>1, <4>4, <5>2 DEF InTurn
          <5> QED
            BY <4>1, <5>1, <5>2
        <4> QED
          BY <2>1, <4>4 DEF InTurn
      <3> QED
        BY <3>1, <3>2
    <2> QED
      BY <2>1, <2>2, <2>3, <2>4, <2>5 DEF Agreed
  <1> QED
    BY <1>2, <1>3, <1>4, <1>5, <1>6, <1>7, <1>8, <1>9, <1>10, Together

-----------------------------------------------------------------------------
(* Answers, the timer and the close                                        *)

\* The answer to the call under way is the one that was on its way.
LEMMA ResponseInv == ASSUME Inv, ClientResponse, UNCHANGED options PROVE Inv'
  <1> USE DEF ClientResponse, pendingVars, timerVars, serverVars, clientVars, options
  <1>1. Queues /\ Flags /\ Ranges /\ Cancelled
    BY Typed DEF Inv
  <1> DEFINE h == Head(toClient)
  <1>a. toClient \in Seq(Answers) /\ toClient # <<>>
    BY <1>1 DEF Queues
  <1>b. /\ h \in Answers /\ Tail(toClient) \in Seq(Answers) /\ h = toClient[1]
        /\ Len(Tail(toClient)) = Len(toClient) - 1
        /\ \A i \in 1..Len(Tail(toClient)) : Tail(toClient)[i] = toClient[i + 1]
    BY <1>a, HeadTailProperties
  <1>c. /\ Len(toClient) \in Nat /\ Len(toClient) # 0 /\ DOMAIN toClient = 1..Len(toClient)
        /\ DOMAIN Tail(toClient) = 1..(Len(toClient) - 1)
    BY <1>a, <1>b, LenProperties, EmptySeq
  <1>d. /\ 1 \in DOMAIN toClient /\ h = toClient[1]
        /\ \A i \in DOMAIN toClient' : i + 1 \in DOMAIN toClient /\ toClient'[i] = toClient[i + 1]
    BY <1>b, <1>c
  <1>e. h.id \in Attempts /\ h.outcome \in Outcomes /\ h.id # 0
    BY <1>b, HandshakeAssumption DEF Answers, Attempts
  <1>f. /\ deadline' = IF h.id = deadline THEN 0 ELSE deadline
        /\ h.id = pendingId => pendingId' = 0 /\ outcome' = h.outcome
        /\ h.id # pendingId => pendingId' = pendingId /\ outcome' = outcome
    OBVIOUS
  <1> HIDE DEF h
  <1>2. Queues'
    BY <1>1, <1>b DEF Queues
  <1>3. Flags'
    BY <1>1, Zenon DEF Flags
  <1>4. Ranges'
    <2>1. 0 \in 0..MaxAttempts
      BY HandshakeAssumption
    <2> QED
      BY <1>1, <1>e, <1>f, <2>1 DEF Ranges
  <1>5. Cancelled'
    BY <1>1 DEF Cancelled
  <1>6. Calls'
    BY <1>d, <1>e, <1>f DEF Inv, Calls, AnswersNumbered
  <1>7. Numbered' /\ AnswersNumbered'
    <2>1. AnswersNumbered'
      BY <1>d DEF Inv, AnswersNumbered
    <2> QED
      BY <2>1, NumberedRest DEF Inv
  <1>8. Accepting'
    BY DEF Inv, Accepting
  <1>9. SentAfter'
    BY SentRest DEF Inv
  <1>10. Agreed'
    <2>1. lost = 0 => Answered'
      <3>1. initPc = "wait" /\ Granted' => Granted
        <4>1. outcome' = "ok" /\ outcome # "ok" => h.id = pendingId /\ h.outcome = "ok"
          BY <1>f
        <4>2. initPc = "wait" /\ h.id = pendingId => h.id = attempt
          BY <1>e DEF Inv, Calls
        <4> QED
          BY <1>d, <4>1, <4>2 DEF Granted
      <3> QED
        BY <3>1, AnsweredRest DEF Inv, Agreed
    <2>2. Agreed /\ UNCHANGED <<fifo, toServer, connected, serverState, rejected, lost, accepted>>
      BY DEF Inv
    <2>3. lost = 0 => InTurn
      BY DEF Inv, Agreed
    <2> QED
      BY <2>1, <2>2, <2>3, AgreedRest DEF InTurn
  <1> QED
    BY <1>2, <1>3, <1>4, <1>5, <1>6, <1>7, <1>8, <1>9, <1>10, Together

\* The timer takes a deadline.
LEMMA ExpireInv == ASSUME Inv, TimerExpire, UNCHANGED options PROVE Inv'
  <1> USE DEF TimerExpire, pendingVars, timerVars, serverVars, clientVars, options
  <1>1. Queues /\ Flags /\ Ranges /\ Cancelled
    BY Typed DEF Inv
  <1>2. Queues'
    BY <1>1 DEF Queues
  <1>3. Flags'
    BY <1>1, Zenon DEF Flags
  <1>4. Ranges'
    <2>1. 0 \in 0..MaxAttempts
      BY HandshakeAssumption
    <2> QED
      BY <1>1, <2>1 DEF Ranges
  <1>5. Cancelled'
    BY <1>1 DEF Cancelled
  <1>6. Calls'
    BY DEF Inv, Calls
  <1>7. Numbered' /\ AnswersNumbered'
    BY NumberedRest, AnswersRest DEF Inv
  <1>8. Accepting'
    BY DEF Inv, Accepting
  <1>9. SentAfter'
    BY SentRest DEF Inv
  <1>10. Agreed'
    <2>1. lost = 0 => Answered'
      <3>1. Granted' => Granted
        BY GrantedRest
      <3> QED
        BY <3>1, AnsweredRest DEF Inv, Agreed
    <2>2. Agreed /\ UNCHANGED <<fifo, toServer, connected, serverState, rejected, lost, accepted>>
      BY DEF Inv
    <2>3. lost = 0 => InTurn
      BY DEF Inv, Agreed
    <2> QED
      BY <2>1, <2>2, <2>3, AgreedRest DEF InTurn
  <1> QED
    BY <1>2, <1>3, <1>4, <1>5, <1>6, <1>7, <1>8, <1>9, <1>10, Together

\* A cancellation changes nothing of what the two sides agree on.
LEMMA CancelInv == ASSUME Inv, TimerCancel, UNCHANGED options PROVE Inv'
  <1> USE DEF TimerCancel, pendingVars, timerVars, serverVars, clientVars, options
  <1>1. Queues /\ Flags /\ Ranges /\ Cancelled
    BY Typed DEF Inv
  <1>0. timerId \in Attempts
    <2>1. timerId # 0 /\ timerId \in 0..MaxAttempts
      BY <1>1 DEF Inv, Calls, Ranges
    <2> QED
      BY <2>1, HandshakeAssumption DEF Attempts
  <1>a. [type |-> "cancelled", id |-> timerId, awaited |-> ~fifo] \in Messages
    BY <1>0 DEF Messages
  <1>b. /\ toServer' \in Seq(Messages) /\ Numbered'
        /\ InFlight("initialize")' <=> InFlight("initialize")
        /\ InFlight("initialized") => InFlight("initialized")'
        /\ OwnPosts => OwnPosts'
    BY <1>a, SendRest
  <1> DEFINE m == [type |-> "cancelled", id |-> timerId, awaited |-> ~fifo]
  <1>c. m.type = "cancelled"
    OBVIOUS
  <1>d. /\ \A i \in DOMAIN toServer' :
              (i \in DOMAIN toServer /\ toServer'[i] = toServer[i]) \/ toServer'[i] = m
        /\ \A i \in DOMAIN toServer : i \in DOMAIN toServer' /\ toServer'[i] = toServer[i]
    BY <1>1, <1>a, Sent
  <1> HIDE DEF m
  <1>2. Queues'
    BY <1>1, <1>b DEF Queues
  <1>3. Flags'
    BY <1>1, Zenon DEF Flags
  <1>4. Ranges'
    BY <1>1 DEF Ranges
  <1>5. Cancelled'
    BY <1>1 DEF Cancelled
  <1>6. Calls'
    BY DEF Inv, Calls
  <1>7. Numbered' /\ AnswersNumbered'
    BY <1>b, AnswersRest DEF Inv
  <1>8. Accepting'
    BY DEF Inv, Accepting
  <1>9. SentAfter'
    BY <1>c, <1>d DEF Inv, SentAfter
  <1>10. Agreed'
    <2> SUFFICES ASSUME lost = 0 PROVE Agreed'
      BY DEF Agreed
    <2>1. ~rejected /\ OwnPosts /\ Answered /\ Paired /\ InTurn
      BY DEF Inv, Agreed
    <2>2. OwnPosts'
      BY <1>b, <2>1
    <2>3. Answered'
      <3>1. Granted' => Granted
        BY GrantedRest
      <3> QED
        BY <1>b, <2>1, <3>1 DEF Answered
    <2>4. Paired'
      BY <1>b, <2>1 DEF Paired
    <2>5. InTurn'
      BY <1>c, <1>d, <2>1 DEF InTurn
    <2> QED
      BY <2>1, <2>2, <2>3, <2>4, <2>5 DEF Agreed
  <1> QED
    BY <1>2, <1>3, <1>4, <1>5, <1>6, <1>7, <1>8, <1>9, <1>10, Together

\* A request that failed has no positive answer.
LEMMA TimerFailInv == ASSUME Inv, TimerFail, UNCHANGED options PROVE Inv'
  <1> USE DEF TimerFail, pendingVars, timerVars, serverVars, clientVars, options
  <1>1. Queues /\ Flags /\ Ranges /\ Cancelled
    BY Typed DEF Inv
  <1>a. (pendingId' = 0 \/ pendingId' = pendingId) /\ (outcome' = "error" \/ outcome' = outcome)
    BY DEF FailPending
  <1>2. Queues'
    BY <1>1 DEF Queues
  <1>3. Flags'
    BY <1>1, Zenon DEF Flags
  <1>4. Ranges'
    <2>1. 0 \in 0..MaxAttempts
      BY HandshakeAssumption
    <2> QED
      BY <1>1, <1>a, <2>1 DEF Ranges, Outcomes
  <1>5. Cancelled'
    BY <1>1 DEF Cancelled
  <1>6. Calls'
    BY <1>a DEF Inv, Calls
  <1>7. Numbered' /\ AnswersNumbered'
    BY NumberedRest, AnswersRest DEF Inv
  <1>8. Accepting'
    BY DEF Inv, Accepting
  <1>9. SentAfter'
    BY SentRest DEF Inv
  <1>10. Agreed'
    <2>1. lost = 0 => Answered'
      <3>1. Granted' => Granted
        BY <1>a, GrantedRest
      <3> QED
        BY <3>1, AnsweredRest DEF Inv, Agreed
    <2>2. Agreed /\ UNCHANGED <<fifo, toServer, connected, serverState, rejected, lost, accepted>>
      BY DEF Inv
    <2>3. lost = 0 => InTurn
      BY DEF Inv, Agreed
    <2> QED
      BY <2>1, <2>2, <2>3, AgreedRest DEF InTurn
  <1> QED
    BY <1>2, <1>3, <1>4, <1>5, <1>6, <1>7, <1>8, <1>9, <1>10, Together

LEMMA CloseFailInv == ASSUME Inv, CloseFail, UNCHANGED options PROVE Inv'
  <1> USE DEF CloseFail, pendingVars, timerVars, serverVars, clientVars, options
  <1>1. Queues /\ Flags /\ Ranges /\ Cancelled
    BY Typed DEF Inv
  <1>a. (pendingId' = 0 \/ pendingId' = pendingId) /\ (outcome' = "error" \/ outcome' = outcome)
    BY DEF FailPending
  <1>2. Queues'
    BY <1>1 DEF Queues
  <1>3. Flags'
    BY <1>1, Zenon DEF Flags
  <1>4. Ranges'
    <2>1. 0 \in 0..MaxAttempts
      BY HandshakeAssumption
    <2> QED
      BY <1>1, <1>a, <2>1 DEF Ranges, Outcomes
  <1>5. Cancelled'
    BY <1>1 DEF Cancelled
  <1>6. Calls'
    BY <1>a DEF Inv, Calls
  <1>7. Numbered' /\ AnswersNumbered'
    BY NumberedRest, AnswersRest DEF Inv
  <1>8. Accepting'
    BY DEF Inv, Accepting
  <1>9. SentAfter'
    BY SentRest DEF Inv
  <1>10. Agreed'
    <2>1. lost = 0 => Answered'
      <3>1. Granted' => Granted
        BY <1>a, GrantedRest
      <3> QED
        BY <3>1, AnsweredRest DEF Inv, Agreed
    <2>2. Agreed /\ UNCHANGED <<fifo, toServer, connected, serverState, rejected, lost, accepted>>
      BY DEF Inv
    <2>3. lost = 0 => InTurn
      BY DEF Inv, Agreed
    <2> QED
      BY <2>1, <2>2, <2>3, AgreedRest DEF InTurn
  <1> QED
    BY <1>2, <1>3, <1>4, <1>5, <1>6, <1>7, <1>8, <1>9, <1>10, Together

\* A line takes what is in flight with it; HTTP leaves it.
LEMMA PeerCloseInv == ASSUME Inv, PeerClose, UNCHANGED options PROVE Inv'
  <1> USE DEF PeerClose, pendingVars, timerVars, serverVars, clientVars, options
  <1>1. Queues /\ Flags /\ Ranges /\ Cancelled
    BY Typed DEF Inv
  <1>2. Queues'
    BY <1>1 DEF Queues
  <1>3. Flags'
    BY <1>1, Zenon DEF Flags
  <1>4. Ranges'
    <2>1. 0 \in 0..MaxAttempts
      BY HandshakeAssumption
    <2> QED
      BY <1>1, <2>1 DEF Ranges, SessionStates
  <1>5. Cancelled'
    BY <1>1 DEF Cancelled
  <1>6. Calls'
    BY DEF Inv, Calls
  <1>7. Numbered' /\ AnswersNumbered'
    <2>1. AnswersNumbered'
      BY AnswersRest DEF Inv
    <2>2. CASE fifo
      BY <2>1, <2>2 DEF Numbered
    <2>3. CASE ~fifo
      BY <2>1, <2>3, NumberedRest DEF Inv
    <2> QED
      BY <2>2, <2>3
  <1>8. Accepting'
    BY DEF Inv, Accepting
  <1>9. SentAfter'
    <2>1. CASE fifo
      BY <2>1 DEF SentAfter
    <2>2. CASE ~fifo
      BY <2>2 DEF Inv, SentAfter
    <2> QED
      BY <2>1, <2>2
  <1>10. Agreed'
    <2> SUFFICES ASSUME lost = 0 PROVE Agreed'
      BY DEF Agreed
    <2>1. ~rejected /\ OwnPosts /\ Answered /\ Paired /\ InTurn
      BY DEF Inv, Agreed
    <2>2. CASE fifo
      <3>1. OwnPosts' /\ InTurn'
        BY <2>2 DEF OwnPosts, InTurn
      <3>2. Answered' /\ Paired'
        BY <2>2 DEF Answered, Paired
      <3> QED
        BY <2>1, <3>1, <3>2 DEF Agreed
    <2>3. CASE ~fifo
      <3>1. connected' /\ toServer' = toServer
        BY <2>3
      <3>2. OwnPosts' /\ Paired' /\ InTurn'
        BY <2>1, <2>3, <3>1 DEF OwnPosts, Paired, InTurn, InFlight
      <3>3. Answered'
        <4>1. Granted' => Granted
          BY GrantedRest
        <4> QED
          BY <2>1, <3>1, <4>1 DEF Answered, InFlight
      <3> QED
        BY <2>1, <3>2, <3>3 DEF Agreed
    <2> QED
      BY <2>2, <2>3
  <1> QED
    BY <1>2, <1>3, <1>4, <1>5, <1>6, <1>7, <1>8, <1>9, <1>10, Together

-----------------------------------------------------------------------------
(* The server                                                              *)

\* What is in flight when a message has been taken was before, in the same
\* order.
LEMMA TakenRest ==
  ASSUME Inv, NEW i \in 1..Len(toServer), toServer' = RemoveAt(toServer, i),
         UNCHANGED <<fifo, attempt, initPc, connected, accepted>>
  PROVE  /\ toServer' \in Seq(Messages) /\ Numbered' /\ SentAfter' /\ (OwnPosts => OwnPosts')
         /\ \A j \in DOMAIN toServer' : \E k \in DOMAIN toServer :
               /\ k # i /\ toServer'[j] = toServer[k]
               /\ \A h \in DOMAIN toServer :
                     h < k /\ toServer[h].type = "initialized" /\ toServer[i].type # "initialized" =>
                        \E g \in DOMAIN toServer' : g < j /\ toServer'[g].type = "initialized"
         /\ \A k \in DOMAIN toServer : k # i => \E j \in DOMAIN toServer' : toServer'[j] = toServer[k]
  <1>1. Queues
    BY Typed DEF Inv
  <1>2. toServer' \in Seq(Messages)
    BY <1>1, TakenAt
  <1>3. PICK at \in [DOMAIN toServer' -> DOMAIN toServer \ {i}] :
           /\ \A j \in DOMAIN toServer' : toServer'[j] = toServer[at[j]]
           /\ \A j, k \in DOMAIN toServer' : j < k <=> at[j] < at[k]
           /\ \A k \in DOMAIN toServer \ {i} : \E j \in DOMAIN toServer' : at[j] = k
    BY <1>1, TakenAt
  <1>4. \A j \in DOMAIN toServer' : at[j] \in DOMAIN toServer /\ at[j] # i
    BY <1>3
  <1>5. Numbered'
    BY <1>3, <1>4 DEF Inv, Numbered
  <1>6. SentAfter'
    BY <1>3, <1>4 DEF Inv, SentAfter
  <1>7. OwnPosts => OwnPosts'
    BY <1>3, <1>4 DEF OwnPosts
  <1>8. ASSUME NEW j \in DOMAIN toServer', NEW h \in DOMAIN toServer, h < at[j],
               toServer[h].type = "initialized", toServer[i].type # "initialized"
        PROVE  \E g \in DOMAIN toServer' : g < j /\ toServer'[g].type = "initialized"
    <2>1. h # i
      BY <1>8
    <2>2. PICK g \in DOMAIN toServer' : at[g] = h
      BY <1>3, <2>1
    <2>3. g < j /\ toServer'[g] = toServer[h]
      BY <1>3, <1>8, <2>2
    <2> QED
      BY <1>8, <2>3
  <1>9. ASSUME NEW j \in DOMAIN toServer'
        PROVE  \E k \in DOMAIN toServer :
                  /\ k # i /\ toServer'[j] = toServer[k]
                  /\ \A h \in DOMAIN toServer :
                        h < k /\ toServer[h].type = "initialized" /\ toServer[i].type # "initialized" =>
                           \E g \in DOMAIN toServer' : g < j /\ toServer'[g].type = "initialized"
    <2>1. at[j] \in DOMAIN toServer /\ at[j] # i /\ toServer'[j] = toServer[at[j]]
      BY <1>3, <1>4
    <2> QED
      BY <1>8, <2>1
  <1>10. ASSUME NEW k \in DOMAIN toServer, k # i
         PROVE  \E j \in DOMAIN toServer' : toServer'[j] = toServer[k]
    BY <1>3, <1>10
  <1> QED
    BY <1>2, <1>5, <1>6, <1>7, <1>9, <1>10

\* An answer is sent.
LEMMA Replied ==
  ASSUME Queues, NEW a \in Answers, toClient' = Append(toClient, a)
  PROVE  /\ toClient' \in Seq(Answers)
         /\ \A i \in DOMAIN toClient' :
               (i \in DOMAIN toClient /\ toClient'[i] = toClient[i]) \/ toClient'[i] = a
  <1>1. toClient \in Seq(Answers)
    BY DEF Queues
  <1>2. /\ toClient' \in Seq(Answers) /\ Len(toClient') = Len(toClient) + 1
        /\ \A i \in 1..Len(toClient) : toClient'[i] = toClient[i]
        /\ toClient'[Len(toClient) + 1] = a
    BY <1>1, AppendProperties
  <1>3. /\ Len(toClient) \in Nat /\ DOMAIN toClient = 1..Len(toClient)
        /\ DOMAIN toClient' = 1..Len(toClient')
    BY <1>1, <1>2, LenProperties
  <1>4. ASSUME NEW i \in 1..(Len(toClient) + 1) PROVE i \in 1..Len(toClient) \/ i = Len(toClient) + 1
    BY <1>3
  <1> QED
    BY <1>2, <1>3, <1>4

\* The last initialize there is brings the server to Initializing, or is refused.
LEMMA HandleInitializeInv ==
  ASSUME Inv, NEW i \in 1..Len(toServer), HandleInitialize(i), UNCHANGED options PROVE Inv'
  <1> USE DEF HandleInitialize, pendingVars, timerVars, serverVars, clientVars, options
  <1>1. Queues /\ Flags /\ Ranges /\ Cancelled
    BY Typed DEF Inv
  <1>a. /\ i \in DOMAIN toServer /\ toServer[i] \in Messages /\ toServer[i].type = "initialize"
        /\ toServer' = RemoveAt(toServer, i) /\ (fifo => i = 1)
    BY <1>1, Queued DEF Receive
  <1>b. /\ toServer' \in Seq(Messages) /\ Numbered' /\ SentAfter' /\ (OwnPosts => OwnPosts')
        /\ \A j \in DOMAIN toServer' : \E k \in DOMAIN toServer :
              /\ k # i /\ toServer'[j] = toServer[k]
              /\ \A h \in DOMAIN toServer :
                    h < k /\ toServer[h].type = "initialized" /\ toServer[i].type # "initialized" =>
                       \E g \in DOMAIN toServer' : g < j /\ toServer'[g].type = "initialized"
        /\ \A k \in DOMAIN toServer : k # i => \E j \in DOMAIN toServer' : toServer'[j] = toServer[k]
    BY <1>a, TakenRest
  <1>c. \A type : InFlight(type)' => InFlight(type)
    BY <1>b DEF InFlight
  <1> DEFINE d == toServer[i].id
             refused == serverState # "Uninitialized" /\ ~allowReinitialize
  <1>d. d \in Attempts
    BY <1>a DEF Messages
  <1>e. /\ protectedId' = d
        /\ serverState' = IF refused THEN serverState ELSE "Initializing"
    OBVIOUS
  <1>f. PICK answer \in Outcomes :
           /\ toClient' = Append(toClient, [id |-> d, outcome |-> answer])
           /\ answer = "ok" => ~refused
    BY DEF Outcomes
  <1> DEFINE r == [id |-> d, outcome |-> answer]
  <1>g. r \in Answers /\ r.id = d /\ r.outcome = answer
    BY <1>d DEF Answers
  <1> HIDE DEF r, d, refused
  <1>h. /\ toClient' \in Seq(Answers)
        /\ \A j \in DOMAIN toClient' :
              (j \in DOMAIN toClient /\ toClient'[j] = toClient[j]) \/ toClient'[j] = r
    BY <1>1, <1>f, <1>g, Replied DEF r
  <1>i. InFlight("initialize")
    BY <1>a DEF InFlight
  <1>2. Queues'
    BY <1>b, <1>h DEF Queues
  <1>3. Flags'
    BY <1>1, Zenon DEF Flags
  <1>4. Ranges'
    <2>1. d \in 0..MaxAttempts
      BY <1>d, HandshakeAssumption DEF Attempts
    <2> QED
      BY <1>1, <1>e, <2>1 DEF Ranges, SessionStates
  <1>5. Cancelled'
    BY <1>1 DEF Cancelled
  <1>6. Calls'
    BY DEF Inv, Calls
  <1>7. Numbered' /\ AnswersNumbered'
    <2>1. d <= attempt /\ (initPc = "send" => d # attempt)
      BY <1>a DEF Inv, Numbered, d
    <2>2. AnswersNumbered'
      BY <1>g, <1>h, <2>1 DEF Inv, AnswersNumbered
    <2> QED
      BY <1>b, <2>2
  <1>8. Accepting'
    BY <1>e DEF Inv, Accepting
  <1>9. SentAfter'
    BY <1>b
  <1>10. Agreed'
    <2> SUFFICES ASSUME lost = 0 PROVE Agreed'
      BY DEF Agreed
    <2>1. ~rejected /\ OwnPosts /\ Answered /\ Paired /\ InTurn
      BY DEF Inv, Agreed
    <2>2. ~(accepted # {} /\ connected)
      BY <1>i, <2>1 DEF Paired
    <2>3. OwnPosts' /\ Paired'
      BY <1>b, <2>1, <2>2 DEF Paired
    <2>4. InTurn'
      <3>1. clientState = "Operating" => accepted # {}
        BY DEF Inv, Accepting
      <3>2. \A j \in DOMAIN toServer' : toServer'[j].type # "request"
        BY <1>b, <2>2 DEF SentAfter
      <3> QED
        BY <2>2, <3>1, <3>2 DEF InTurn
    <2>5. Answered'
      <3> SUFFICES ASSUME initPc = "wait", connected, Granted'
                   PROVE  serverState' = "Initializing" /\ ~InFlight("initialize")'
        BY DEF Answered
      <3>1. ~Granted
        BY <1>i, <2>1 DEF Answered
      <3>2. d = attempt /\ answer = "ok"
        BY <1>g, <1>h, <3>1 DEF Granted
      <3>3. serverState' = "Initializing"
        BY <1>e, <1>f, <3>2
      <3>4. ASSUME NEW j \in DOMAIN toServer', toServer'[j].type = "initialize" PROVE FALSE
        <4>1. PICK k \in DOMAIN toServer : k # i /\ toServer'[j] = toServer[k]
          BY <1>b
        <4>2. toServer[k].type = "initialize" /\ toServer[k].id <= d
          BY <3>2, <3>4, <4>1 DEF Inv, Numbered
        <4>3. k \in Nat /\ i \in Nat /\ 1 <= k /\ toServer[k].id \in Nat /\ d \in Nat
          BY <1>1, <1>a, Queued, Numbers DEF d
        <4>4. CASE fifo
          <5>1. i < k
            BY <1>a, <4>1, <4>3, <4>4
          <5>2. d < toServer[k].id
            BY <1>a, <4>2, <5>1 DEF Inv, Numbered, d
          <5> QED
            BY <4>2, <4>3, <5>2
        <4>5. CASE ~fifo
          <5>1. toServer[k].id = d
            BY <2>1, <3>2, <4>2, <4>5 DEF OwnPosts
          <5>2. i < k \/ k < i
            BY <4>1, <4>3
          <5>3. d < toServer[k].id \/ toServer[k].id < d
            BY <1>a, <4>2, <5>2 DEF Inv, Numbered, d
          <5> QED
            BY <4>3, <5>1, <5>3
        <4> QED
          BY <4>4, <4>5
      <3> QED
        BY <3>3, <3>4 DEF InFlight
    <2> QED
      BY <2>1, <2>3, <2>4, <2>5 DEF Agreed
  <1> QED
    BY <1>2, <1>3, <1>4, <1>5, <1>6, <1>7, <1>8, <1>9, <1>10, Together

\* initialized is only sent when the answer was accepted.
LEMMA HandleInitializedInv ==
  ASSUME Inv, NEW i \in 1..Len(toServer), HandleInitialized(i), UNCHANGED options PROVE Inv'
  <1> USE DEF HandleInitialized, pendingVars, timerVars, serverVars, clientVars, options
  <1>1. Queues /\ Flags /\ Ranges /\ Cancelled
    BY Typed DEF Inv
  <1>a. /\ i \in DOMAIN toServer /\ toServer[i] \in Messages /\ toServer[i].type = "initialized"
        /\ toServer' = RemoveAt(toServer, i) /\ (fifo => i = 1)
    BY <1>1, Queued DEF Receive
  <1>b. /\ toServer' \in Seq(Messages) /\ Numbered' /\ SentAfter' /\ (OwnPosts => OwnPosts')
        /\ \A j \in DOMAIN toServer' : \E k \in DOMAIN toServer :
              /\ k # i /\ toServer'[j] = toServer[k]
              /\ \A h \in DOMAIN toServer :
                    h < k /\ toServer[h].type = "initialized" /\ toServer[i].type # "initialized" =>
                       \E g \in DOMAIN toServer' : g < j /\ toServer'[g].type = "initialized"
        /\ \A k \in DOMAIN toServer : k # i => \E j \in DOMAIN toServer' : toServer'[j] = toServer[k]
    BY <1>a, TakenRest
  <1>c. \A type : InFlight(type)' => InFlight(type)
    BY <1>b DEF InFlight
  <1>d. connected /\ accepted # {} /\ initPc # "wait"
    BY <1>a DEF Inv, SentAfter, Accepting
  <1>2. Queues'
    BY <1>1, <1>b DEF Queues
  <1>3. Flags'
    BY <1>1, Zenon DEF Flags
  <1>4. Ranges'
    BY <1>1 DEF Ranges, SessionStates
  <1>5. Cancelled'
    BY <1>1 DEF Cancelled
  <1>6. Calls'
    BY DEF Inv, Calls
  <1>7. Numbered' /\ AnswersNumbered'
    BY <1>b, AnswersRest DEF Inv
  <1>8. Accepting'
    BY <1>d DEF Inv, Accepting
  <1>9. SentAfter'
    BY <1>b
  <1>10. Agreed'
    <2> SUFFICES ASSUME lost = 0 PROVE Agreed'
      BY DEF Agreed
    <2>1. ~rejected /\ OwnPosts /\ Answered /\ Paired /\ InTurn
      BY DEF Inv, Agreed
    <2>2. serverState' = "Operating" /\ ~InFlight("initialize")
      BY <1>d, <2>1 DEF Paired
    <2>3. Answered' /\ Paired' /\ InTurn'
      BY <1>c, <1>d, <2>2 DEF Answered, Paired, InTurn
    <2> QED
      BY <1>b, <2>1, <2>3 DEF Agreed
  <1> QED
    BY <1>2, <1>3, <1>4, <1>5, <1>6, <1>7, <1>8, <1>9, <1>10, Together

\* A request that is first on a line has nothing before it, and initialized has been
\* handled.
LEMMA HandleRequestInv ==
  ASSUME Inv, NEW i \in 1..Len(toServer), HandleRequest(i), UNCHANGED options PROVE Inv'
  <1> USE DEF HandleRequest, pendingVars, timerVars, serverVars, clientVars, options
  <1>1. Queues /\ Flags /\ Ranges /\ Cancelled
    BY Typed DEF Inv
  <1>a. /\ i \in DOMAIN toServer /\ toServer[i] \in Messages /\ toServer[i].type = "request"
        /\ toServer' = RemoveAt(toServer, i) /\ (fifo => i = 1)
    BY <1>1, Queued DEF Receive
  <1>b. /\ toServer' \in Seq(Messages) /\ Numbered' /\ SentAfter' /\ (OwnPosts => OwnPosts')
        /\ \A j \in DOMAIN toServer' : \E k \in DOMAIN toServer :
              /\ k # i /\ toServer'[j] = toServer[k]
              /\ \A h \in DOMAIN toServer :
                    h < k /\ toServer[h].type = "initialized" /\ toServer[i].type # "initialized" =>
                       \E g \in DOMAIN toServer' : g < j /\ toServer'[g].type = "initialized"
        /\ \A k \in DOMAIN toServer : k # i => \E j \in DOMAIN toServer' : toServer'[j] = toServer[k]
    BY <1>a, TakenRest
  <1>c. \A type : InFlight(type)' => InFlight(type)
    BY <1>b DEF InFlight
  <1>2. Queues'
    BY <1>1, <1>b DEF Queues
  <1>3. Flags'
    BY <1>1, Zenon DEF Flags
  <1>4. Ranges'
    BY <1>1 DEF Ranges
  <1>5. Cancelled'
    BY <1>1 DEF Cancelled
  <1>6. Calls'
    BY DEF Inv, Calls
  <1>7. Numbered' /\ AnswersNumbered'
    BY <1>b, AnswersRest DEF Inv
  <1>8. Accepting'
    BY DEF Inv, Accepting
  <1>9. SentAfter'
    BY <1>b
  <1>10. Agreed'
    <2> SUFFICES ASSUME lost = 0 PROVE Agreed'
      BY DEF Agreed
    <2>1. ~rejected /\ OwnPosts /\ Answered /\ Paired /\ InTurn
      BY DEF Inv, Agreed
    <2>2. serverState = "Operating"
      <3>1. serverState = "Operating" \/ (fifo /\ \E h \in DOMAIN toServer : h < i)
        BY <1>a, <2>1 DEF InTurn
      <3>2. \A h \in DOMAIN toServer : h \in Nat /\ 1 <= h
        BY <1>1, Queued
      <3> QED
        BY <1>a, <3>1, <3>2
    <2>3. ~rejected'
      BY <2>1, <2>2
    <2>4. InFlight("initialized") => InFlight("initialized")'
      BY <1>a, <1>b DEF InFlight
    <2>5. Answered'
      <3>1. Granted' => Granted
        BY GrantedRest
      <3> QED
        BY <1>c, <2>1, <3>1 DEF Answered
    <2>6. Paired'
      BY <1>c, <2>1, <2>4 DEF Paired
    <2>7. InTurn'
      <3>1. ASSUME NEW j \in DOMAIN toServer', toServer'[j].type = "request"
            PROVE  \/ serverState = "Operating"
                   \/ fifo /\ \E g \in DOMAIN toServer' : g < j /\ toServer'[g].type = "initialized"
        <4>1. PICK k \in DOMAIN toServer :
                 /\ toServer'[j] = toServer[k]
                 /\ \A h \in DOMAIN toServer :
                       h < k /\ toServer[h].type = "initialized" /\ toServer[i].type # "initialized" =>
                          \E g \in DOMAIN toServer' : g < j /\ toServer'[g].type = "initialized"
          BY <1>b
        <4>2. \/ serverState = "Operating"
              \/ fifo /\ \E h \in DOMAIN toServer : h < k /\ toServer[h].type = "initialized"
          BY <2>1, <3>1, <4>1 DEF InTurn
        <4> QED
          BY <1>a, <4>1, <4>2
      <3> QED
        BY <2>1, <3>1 DEF InTurn
    <2> QED
      BY <1>b, <2>1, <2>3, <2>5, <2>6, <2>7 DEF Agreed
  <1> QED
    BY <1>2, <1>3, <1>4, <1>5, <1>6, <1>7, <1>8, <1>9, <1>10, Together

\* The set of cancelled requests is emptied when it is full.
LEMMA HandleCancelledInv ==
  ASSUME Inv, NEW i \in 1..Len(toServer), HandleCancelled(i), UNCHANGED options PROVE Inv'
  <1> USE DEF HandleCancelled, pendingVars, timerVars, serverVars, clientVars, options
  <1>1. Queues /\ Flags /\ Ranges /\ Cancelled
    BY Typed DEF Inv
  <1>a. /\ i \in DOMAIN toServer /\ toServer[i] \in Messages /\ toServer[i].type = "cancelled"
        /\ toServer' = RemoveAt(toServer, i) /\ (fifo => i = 1)
    BY <1>1, Queued DEF Receive
  <1>b. /\ toServer' \in Seq(Messages) /\ Numbered' /\ SentAfter' /\ (OwnPosts => OwnPosts')
        /\ \A j \in DOMAIN toServer' : \E k \in DOMAIN toServer :
              /\ k # i /\ toServer'[j] = toServer[k]
              /\ \A h \in DOMAIN toServer :
                    h < k /\ toServer[h].type = "initialized" /\ toServer[i].type # "initialized" =>
                       \E g \in DOMAIN toServer' : g < j /\ toServer'[g].type = "initialized"
        /\ \A k \in DOMAIN toServer : k # i => \E j \in DOMAIN toServer' : toServer'[j] = toServer[k]
    BY <1>a, TakenRest
  <1>c. \A type : InFlight(type)' => InFlight(type)
    BY <1>b DEF InFlight
  <1>2. Queues'
    BY <1>1, <1>b DEF Queues
  <1>3. Flags'
    BY <1>1, Zenon DEF Flags
  <1>4. Ranges'
    BY <1>1 DEF Ranges
  <1>5. Cancelled'
    <2> DEFINE d == toServer[i].id
    <2>1. d \in Attempts
      BY <1>a DEF Messages
    <2>2. cancelledIn \subseteq Attempts /\ Cardinality(cancelledIn) <= MaxCancellations
      BY <1>1 DEF Cancelled
    <2>3. IsFiniteSet(cancelledIn) /\ Cardinality(cancelledIn) \in Nat
      <3>1. IsFiniteSet(Attempts)
        BY HandshakeAssumption, FS_Interval DEF Attempts
      <3> QED
        BY <2>2, <3>1, FS_Subset, FS_CardinalityType
    <2>4. Cardinality({d}) = 1 /\ MaxCancellations \in Nat /\ MaxCancellations # 0
      BY FS_Singleton, HandshakeAssumption
    <2>5. cancelledIn' = IF d = protectedId THEN cancelledIn
                         ELSE (IF Cardinality(cancelledIn) >= MaxCancellations THEN {}
                               ELSE cancelledIn) \cup {d}
      OBVIOUS
    <2> HIDE DEF d, HandleCancelled
    <2>6. CASE d = protectedId
      BY <2>2, <2>5, <2>6 DEF Cancelled
    <2>7. CASE d # protectedId /\ Cardinality(cancelledIn) >= MaxCancellations
      <3>1. cancelledIn' = {d}
        BY <2>5, <2>7
      <3>2. Cardinality(cancelledIn') = 1 /\ 1 <= MaxCancellations
        BY <2>4, <3>1
      <3> QED
        BY <2>1, <3>1, <3>2 DEF Cancelled
    <2>8. CASE d # protectedId /\ ~(Cardinality(cancelledIn) >= MaxCancellations)
      <3>1. cancelledIn' = cancelledIn \cup {d}
        BY <2>5, <2>8
      <3>2. Cardinality(cancelledIn \cup {d}) <= Cardinality(cancelledIn) + 1
        <4>1. Cardinality(cancelledIn \cup {d}) =
                 IF d \in cancelledIn THEN Cardinality(cancelledIn) ELSE Cardinality(cancelledIn) + 1
          BY <2>3, FS_AddElement
        <4> QED
          BY <2>3, <4>1
      <3>3. Cardinality(cancelledIn \cup {d}) \in Nat
        BY <2>3, FS_AddElement, FS_CardinalityType
      <3>4. Cardinality(cancelledIn \cup {d}) <= MaxCancellations
        BY <2>3, <2>4, <2>8, <3>2, <3>3
      <3> QED
        BY <2>1, <2>2, <3>1, <3>4 DEF Cancelled
    <2> QED
      BY <2>6, <2>7, <2>8
  <1>6. Calls'
    BY DEF Inv, Calls
  <1>7. Numbered' /\ AnswersNumbered'
    BY <1>b, AnswersRest DEF Inv
  <1>8. Accepting'
    BY DEF Inv, Accepting
  <1>9. SentAfter'
    BY <1>b
  <1>10. Agreed'
    <2> SUFFICES ASSUME lost = 0 PROVE Agreed'
      BY DEF Agreed
    <2>1. ~rejected /\ OwnPosts /\ Answered /\ Paired /\ InTurn
      BY DEF Inv, Agreed
    <2>2. InFlight("initialized") => InFlight("initialized")'
      BY <1>a, <1>b DEF InFlight
    <2>3. Answered'
      <3>1. Granted' => Granted
        BY GrantedRest
      <3> QED
        BY <1>c, <2>1, <3>1 DEF Answered
    <2>4. Paired'
      BY <1>c, <2>1, <2>2 DEF Paired
    <2>5. InTurn'
      <3>1. ASSUME NEW j \in DOMAIN toServer', toServer'[j].type = "request"
            PROVE  \/ serverState = "Operating"
                   \/ fifo /\ \E g \in DOMAIN toServer' : g < j /\ toServer'[g].type = "initialized"
        <4>1. PICK k \in DOMAIN toServer :
                 /\ toServer'[j] = toServer[k]
                 /\ \A h \in DOMAIN toServer :
                       h < k /\ toServer[h].type = "initialized" /\ toServer[i].type # "initialized" =>
                          \E g \in DOMAIN toServer' : g < j /\ toServer'[g].type = "initialized"
          BY <1>b
        <4>2. \/ serverState = "Operating"
              \/ fifo /\ \E h \in DOMAIN toServer : h < k /\ toServer[h].type = "initialized"
          BY <2>1, <3>1, <4>1 DEF InTurn
        <4> QED
          BY <1>a, <4>1, <4>2
      <3> QED
        BY <2>1, <3>1 DEF InTurn
    <2> QED
      BY <1>b, <2>1, <2>3, <2>4, <2>5 DEF Agreed
  <1> QED
    BY <1>2, <1>3, <1>4, <1>5, <1>6, <1>7, <1>8, <1>9, <1>10, Together

\* A server that notices the end of the line has read everything.
LEMMA ServerCloseInv == ASSUME Inv, ServerClose, UNCHANGED options PROVE Inv'
  <1> USE DEF ServerClose, pendingVars, timerVars, serverVars, clientVars, options
  <1>1. Queues /\ Flags /\ Ranges /\ Cancelled
    BY Typed DEF Inv
  <1>2. Queues'
    BY <1>1 DEF Queues
  <1>3. Flags'
    BY <1>1, Zenon DEF Flags
  <1>4. Ranges'
    BY <1>1 DEF Ranges, SessionStates
  <1>5. Cancelled'
    BY <1>1 DEF Cancelled
  <1>6. Calls'
    BY DEF Inv, Calls
  <1>7. Numbered' /\ AnswersNumbered'
    BY NumberedRest, AnswersRest DEF Inv
  <1>8. Accepting'
    BY DEF Inv, Accepting
  <1>9. SentAfter'
    BY SentRest DEF Inv
  <1>10. Agreed'
    <2> SUFFICES ASSUME lost = 0 PROVE Agreed'
      BY DEF Agreed
    <2>1. ~rejected /\ OwnPosts /\ Answered /\ Paired /\ InTurn
      BY DEF Inv, Agreed
    <2>2. OwnPosts' /\ Answered' /\ Paired' /\ InTurn'
      BY DEF OwnPosts, Answered, Paired, InTurn
    <2> QED
      BY <2>1, <2>2 DEF Agreed
  <1> QED
    BY <1>2, <1>3, <1>4, <1>5, <1>6, <1>7, <1>8, <1>9, <1>10, Together

\* After a loss nothing is claimed, but numbers stay in order.
LEMMA LosePostInv ==
  ASSUME Inv, NEW i \in 1..Len(toServer), LosePost(i), UNCHANGED options PROVE Inv'
  <1> USE DEF LosePost, pendingVars, timerVars, serverVars, clientVars, options
  <1>1. Queues /\ Flags /\ Ranges /\ Cancelled
    BY Typed DEF Inv
  <1>a. i \in DOMAIN toServer /\ toServer[i] \in Messages
    BY <1>1, Queued
  <1> DEFINE m == [toServer[i] EXCEPT !.awaited = FALSE]
  <1>b. m \in Messages /\ m.type = toServer[i].type /\ m.id = toServer[i].id
    BY <1>a DEF Messages
  <1>c. toServer' = RemoveAt(toServer, i) \/ toServer' = [toServer EXCEPT ![i] = m]
    OBVIOUS
  <1> HIDE DEF m
  <1>d. toServer' \in Seq(Messages) /\ Numbered' /\ SentAfter'
    <2>1. CASE toServer' = RemoveAt(toServer, i)
      BY <2>1, TakenRest
    <2>2. CASE toServer' = [toServer EXCEPT ![i] = m]
      <3>1. toServer \in [1..Len(toServer) -> Messages] /\ Len(toServer) \in Nat
        BY <1>1, LenProperties DEF Queues
      <3>2. /\ toServer' \in [1..Len(toServer) -> Messages] /\ DOMAIN toServer' = DOMAIN toServer
            /\ \A j \in DOMAIN toServer :
                  toServer'[j].type = toServer[j].type /\ toServer'[j].id = toServer[j].id
        BY <1>a, <1>b, <2>2, <3>1
      <3>3. toServer' \in Seq(Messages)
        BY <3>1, <3>2, SeqDef
      <3>4. Numbered' /\ SentAfter'
        BY <3>2 DEF Inv, Numbered, SentAfter
      <3> QED
        BY <3>3, <3>4
    <2> QED
      BY <1>c, <2>1, <2>2
  <1>2. Queues'
    BY <1>1, <1>d DEF Queues
  <1>3. Flags'
    BY <1>1, Zenon DEF Flags
  <1>4. Ranges'
    <2>1. lost + 1 \in 0..MaxLost
      BY <1>1, HandshakeAssumption DEF Ranges
    <2> QED
      BY <1>1, <2>1 DEF Ranges
  <1>5. Cancelled'
    BY <1>1 DEF Cancelled
  <1>6. Calls'
    BY DEF Inv, Calls
  <1>7. Numbered' /\ AnswersNumbered'
    BY <1>d, AnswersRest DEF Inv
  <1>8. Accepting'
    BY DEF Inv, Accepting
  <1>9. SentAfter'
    BY <1>d
  <1>10. Agreed'
    <2>1. lost' # 0
      BY <1>1, HandshakeAssumption DEF Ranges
    <2> QED
      BY <2>1 DEF Agreed
  <1> QED
    BY <1>2, <1>3, <1>4, <1>5, <1>6, <1>7, <1>8, <1>9, <1>10, Together

-----------------------------------------------------------------------------
(* The theorems                                                            *)

LEMMA InitInv == Init => Inv
  <1> SUFFICES ASSUME Init PROVE Inv
    OBVIOUS
  <1>1. Flags
    BY Zenon DEF Init, Flags
  <1>2. Queues
    BY DEF Init, Queues
  <1>3. Ranges
    <2>1. 0 \in 0..MaxAttempts /\ 0 \in 0..MaxLost /\ 0 \in 0..MaxRequests
      BY HandshakeAssumption
    <2> QED
      BY <2>1 DEF Init, Ranges, SessionStates, Outcomes
  <1>4. Cancelled
    BY FS_EmptySet, HandshakeAssumption DEF Init, Cancelled
  <1>5. Calls /\ Numbered /\ AnswersNumbered
    BY DEF Init, Calls, Numbered, AnswersNumbered
  <1>6. Accepting /\ SentAfter
    BY DEF Init, Accepting, SentAfter
  <1>7. ~rejected /\ OwnPosts /\ InTurn
    BY DEF Init, OwnPosts, InTurn
  <1>8. Answered /\ Paired
    BY DEF Init, Answered, Paired
  <1> QED
    BY <1>1, <1>2, <1>3, <1>4, <1>5, <1>6, <1>7, <1>8, Typed DEF Inv, Agreed

LEMMA StutterInv == ASSUME Inv, UNCHANGED <<vars, options>> PROVE Inv'
  <1>1. UNCHANGED <<toServer, toClient, connected, lost, clientState, initPc, attempt, pendingId,
                    deadline, outcome, timerPc, timerId, closePc, requests, serverState,
                    protectedId, cancelledIn, accepted, rejected, fifo>>
    BY DEF vars, options
  <1>2. TypeOK'
    BY <1>1, Zenon DEF Inv, TypeOK
  <1>3. Calls' /\ Accepting'
    BY <1>1 DEF Inv, Calls, Accepting
  <1>4. Numbered' /\ AnswersNumbered' /\ SentAfter'
    BY <1>1, NumberedRest, AnswersRest, SentRest DEF Inv
  <1>5. Agreed'
    BY <1>1 DEF Inv, Agreed, OwnPosts, Answered, Granted, Paired, InTurn, InFlight
  <1> QED
    BY <1>2, <1>3, <1>4, <1>5 DEF Inv

\* The invariant holds in every state.
THEOREM InvHolds == Spec => []Inv
  <1>1. ASSUME Inv, Next, UNCHANGED options PROVE Inv'
    BY <1>1, CheckInv, SetInv, RegisterInv, SendInv, FailedInv, UnsupportedInv, AnnounceInv, OperateInv,
       UserRequestInv, ResponseInv, ExpireInv, CancelInv, TimerFailInv, PeerCloseInv, CloseFailInv,
       HandleInitializeInv, HandleInitializedInv, HandleRequestInv, HandleCancelledInv,
       ServerCloseInv, LosePostInv
       DEF Next, InitializeStep, TimerStep, ServerStep
  <1>2. Inv /\ [Next /\ UNCHANGED options]_<<vars, options>> => Inv'
    BY <1>1, StutterInv
  <1> QED
    BY <1>2, InitInv, PTL DEF Spec

\* Type correctness, with any number of attempts, losses and requests; in
\* particular the set of cancelled requests never outgrows its limit.
THEOREM HandshakeTypeCorrect == Spec => []TypeOK
  <1>1. Inv => TypeOK
    BY DEF Inv
  <1> QED
    BY <1>1, InvHolds, PTL

\* As long as no POST is lost, no request of a client that is Operating is
\* refused because the server is not, over a line and over HTTP.
THEOREM NoRequestTooEarly == Spec => []NoPrematureRequest
  <1>1. Inv => NoPrematureRequest
    BY DEF Inv, Agreed, NoPrematureRequest
  <1> QED
    BY <1>1, InvHolds, PTL

\* The server operates only after the client accepted its answer; and over an
\* unbroken connection a client that operates has a server that does or is
\* about to, however often initialize() timed out and was called again.
THEOREM SidesAgree == Spec => []OperatingTogether
  <1>1. Inv => OperatingTogether
    <2> SUFFICES ASSUME Inv PROVE OperatingTogether
      OBVIOUS
    <2>1. serverState = "Operating" \/ clientState = "Operating" => accepted # {}
      BY DEF Inv, Accepting
    <2>2. lost = 0 => Paired
      BY DEF Inv, Agreed
    <2> QED
      BY <2>1, <2>2 DEF OperatingTogether, Paired
  <1> QED
    BY <1>1, InvHolds, PTL
=============================================================================
