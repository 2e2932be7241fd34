-------------------------- MODULE TransportsProofs --------------------------
(***************************************************************************)
(* The two transports of a client.  HttpClient, for any number of senders, *)
(* sessions, POSTs and outages: it never falls back to an older session,   *)
(* and a disconnect on another thread leaves sse_loop finished and joined. *)
(* Stdio, for any number of lines and connections: only the own child is   *)
(* signalled, no line is lost at end of file, and a thread is left         *)
(* joinable only by a disconnect on that thread.  The last section         *)
(* combines them for the transports of MCTransports.                       *)
(***************************************************************************)
EXTENDS MCTransports, SequenceTheorems, TLAPS

-----------------------------------------------------------------------------
(* HttpClient: the inductive invariant                                     *)

\* One initialize is under way at a time.
OneInitialize == \A p, q \in Initializing : p = q

\* A session id in an answer that is not captured yet is the newest one: the
\* next is opened by an initialize, and this one is not over.
NewIsNewest ==
    \A p \in Posters : post[p].new # None =>
        /\ post[p].at \in {"head", "capture"} /\ post[p].status = 200
        /\ post[p].kind = "init" /\ post[p].new = opened

\* The client knows no session that was not opened, and neither the stream nor
\* the last event is of a session newer than the one in use.
NoneFromTheFuture ==
    /\ sessionId <= opened /\ lastFrom <= opened /\ sse.sid <= opened
    /\ sessionId # None => lastFrom <= sessionId /\ sse.sid <= sessionId

\* The wake event exists from connect until disconnect has joined; until then
\* a thread that is not joinable was never started.
WakeWhileConnected ==
    /\ app = "new" => wake = "none" /\ sse.at = "none" /\ ~httpJoinable
    /\ app \in {"connected", "delete", "awaitDelete", "signal"} => wake = "quiet"
    /\ app = "join" => wake = "signalled"
    /\ app \in {"disconnected", "destroyed", "terminated"} => wake = "gone"
    /\ wake # "gone" /\ ~httpJoinable => sse.at = "none"

HttpInv ==
    /\ HttpTypeOK /\ OneInitialize /\ NewIsNewest /\ NoneFromTheFuture
    /\ WakeWhileConnected /\ HttpQuiet

-----------------------------------------------------------------------------
(* HttpClient: what steps leave alone                                      *)

PostRecords == [at : {"idle", "sent", "head", "capture", "body", "error"}, kind : {"init", "req"},
                sid : Sessions \cup {None}, status : {None, 200, 400, 404},
                new : Sessions \cup {None}]

ThreadRecords ==
    [at : {"none", "loop", "get", "stream", "lost", "deliver", "failed", "wait", "closing", "done"},
     sid : Sessions \cup {None}]

\* The ids are numbers.
LEMMA Ids ==
  ASSUME HttpTypeOK
  PROVE  /\ sessionId \in Nat /\ lastFrom \in Nat /\ sse.sid \in Nat /\ opened \in Nat
         /\ opened <= MaxSessions /\ MaxSessions \in Nat /\ MaxAttempts \in Nat
         /\ sse \in ThreadRecords /\ post \in [Posters -> PostRecords]
  BY HttpClientAssumption DEF HttpTypeOK, Sessions, None, ThreadRecords, PostRecords

\* No POST moves and no session is opened.
LEMMA PostsRest ==
  ASSUME HttpInv, UNCHANGED <<post, opened>>
  PROVE  OneInitialize' /\ NewIsNewest'
  BY DEF HttpInv, OneInitialize, NewIsNewest, Initializing

\* The stream's thread drops its session id or keeps it, and no other id moves.
LEMMA SessionsRest ==
  ASSUME HttpInv, UNCHANGED <<sessionId, lastFrom, opened>>, sse'.sid \in {sse.sid, None}
  PROVE  NoneFromTheFuture'
  BY Ids DEF HttpInv, NoneFromTheFuture, None

\* A thread that runs moves, or none does, and disconnect does not.
LEMMA WakeRest ==
  ASSUME HttpInv, UNCHANGED <<app, wake, httpJoinable, self>>,
         sse.at \notin {"none", "done"} \/ sse'.at = sse.at
  PROVE  WakeWhileConnected' /\ HttpQuiet'
  BY DEF HttpInv, HttpTypeOK, WakeWhileConnected, HttpQuiet

\* One POST moves on, and carries no session id that it did not carry before.
LEMMA PostMoves ==
  ASSUME HttpInv, NEW p \in Posters, opened' = opened,
         \A q \in Posters \ {p} : post'[q] = post[q],
         post'[p].new # None =>
             /\ post'[p].new = post[p].new /\ post'[p].status = post[p].status
             /\ post'[p].kind = post[p].kind /\ post'[p].at \in {"head", "capture"},
         post'[p].at # "idle" /\ post'[p].kind = "init" =>
             post[p].at # "idle" /\ post[p].kind = "init"
  PROVE  OneInitialize' /\ NewIsNewest'
  <1>1. OneInitialize'
    BY DEF HttpInv, OneInitialize, Initializing
  <1>2. NewIsNewest'
    <2> SUFFICES ASSUME NEW q \in Posters, post'[q].new # None
                 PROVE  /\ post'[q].at \in {"head", "capture"} /\ post'[q].status = 200
                        /\ post'[q].kind = "init" /\ post'[q].new = opened
      BY DEF NewIsNewest
    <2>1. CASE q = p
      BY <2>1 DEF HttpInv, NewIsNewest
    <2>2. CASE q # p
      BY <2>2 DEF HttpInv, NewIsNewest
    <2> QED
      BY <2>1, <2>2
  <1> QED
    BY <1>1, <1>2

\* An assignment to one sender's POST.
LEMMA PostAssigned ==
  ASSUME HttpInv, NEW p \in Posters, NEW r \in PostRecords, post' = [post EXCEPT ![p] = r]
  PROVE  /\ post' \in [Posters -> PostRecords] /\ post'[p] = r
         /\ \A q \in Posters \ {p} : post'[q] = post[q]
  BY Ids DEF HttpInv

\* No POST is a record of its kind.
LEMMA IdleIsRecord ==
  Idle \in PostRecords /\ Idle.at = "idle" /\ Idle.new = None /\ Idle.kind = "req"
  BY DEF Idle, PostRecords, None

\* Neither does an answer change that.
LEMMA AnsweredIsRecord ==
  ASSUME NEW r \in PostRecords, NEW st \in {200, 400, 404}, NEW m \in Sessions \cup {None}
  PROVE  /\ Answered(r, st, m) \in PostRecords
         /\ Answered(r, st, m).at = "head" /\ Answered(r, st, m).kind = r.kind
         /\ Answered(r, st, m).status = st /\ Answered(r, st, m).new = m
  BY DEF PostRecords, Answered

\* The places of the stream's thread.
LEMMA ThreadIsRecord ==
  ASSUME NEW a \in {"none", "loop", "get", "stream", "lost", "deliver", "failed", "wait", "closing", "done"},
         NEW n \in Sessions \cup {None}
  PROVE  Thread(a, n) \in ThreadRecords /\ Thread(a, n).at = a /\ Thread(a, n).sid = n
  BY DEF Thread, ThreadRecords

-----------------------------------------------------------------------------
(* HttpClient: the actions                                                 *)

\* Before connect nothing is under way.
LEMMA HttpInitInv == HttpInit => HttpInv
  <1> SUFFICES ASSUME HttpInit PROVE HttpInv
    OBVIOUS
  <1>1. httpRunning \in BOOLEAN /\ httpJoinable \in BOOLEAN /\ self \in BOOLEAN
    BY Zenon DEF HttpInit
  <1>2. sse \in ThreadRecords /\ sse.at = "none" /\ sse.sid = None
    BY ThreadIsRecord DEF HttpInit
  <1>3. post \in [Posters -> PostRecords] /\ \A q \in Posters : post[q] = Idle
    BY IdleIsRecord DEF HttpInit
  <1>4. /\ opened \in 0..MaxSessions /\ failures \in 0..MaxAttempts /\ httpCloses \in 0..1
        /\ live \subseteq Sessions /\ {sessionId, lastFrom} \subseteq Sessions \cup {None}
    BY HttpClientAssumption DEF HttpInit
  <1>5. HttpTypeOK
    BY <1>1, <1>2, <1>3, <1>4 DEF HttpInit, HttpTypeOK, ThreadRecords, PostRecords
  <1>6. OneInitialize /\ NewIsNewest
    BY <1>3, IdleIsRecord DEF OneInitialize, NewIsNewest, Initializing
  <1>7. NoneFromTheFuture
    BY <1>2 DEF HttpInit, NoneFromTheFuture, None
  <1>8. WakeWhileConnected /\ HttpQuiet
    BY <1>2 DEF HttpInit, WakeWhileConnected, HttpQuiet
  <1> QED
    BY <1>5, <1>6, <1>7, <1>8 DEF HttpInv

\* The server forgets a session.
LEMMA ExpireInv == ASSUME NEW s \in Sessions, HttpInv, Expire(s) PROVE HttpInv'
  <1>1. HttpTypeOK'
    BY DEF HttpInv, Expire, HttpTypeOK
  <1>2. OneInitialize' /\ NewIsNewest'
    BY PostsRest DEF Expire
  <1>3. NoneFromTheFuture'
    BY SessionsRest DEF Expire
  <1>4. WakeWhileConnected' /\ HttpQuiet'
    BY WakeRest DEF Expire
  <1> QED
    BY <1>1, <1>2, <1>3, <1>4 DEF HttpInv

\* The server goes away, or comes back.
LEMMA OutageInv == HttpInv /\ Outage => HttpInv'
  <1> SUFFICES ASSUME HttpInv, Outage PROVE HttpInv'
    OBVIOUS
  <1>0. net' \in {"up", "down", "silent"}
    BY Zenon DEF Outage
  <1>1. HttpTypeOK'
    BY <1>0 DEF HttpInv, Outage, HttpTypeOK
  <1>2. OneInitialize' /\ NewIsNewest'
    BY PostsRest DEF Outage
  <1>3. NoneFromTheFuture'
    BY SessionsRest DEF Outage
  <1>4. WakeWhileConnected' /\ HttpQuiet'
    BY WakeRest DEF Outage
  <1> QED
    BY <1>1, <1>2, <1>3, <1>4 DEF HttpInv

\* The server answers a POST; only the initialize that is under way opens a session.
LEMMA AnswerInv == ASSUME NEW p \in Posters, HttpInv, Answer(p) PROVE HttpInv'
  <1> DEFINE r == post[p]
  <1>0. /\ r \in PostRecords /\ r.at = "sent" /\ r.new = None
        /\ UNCHANGED <<sessionId, lastFrom, sse, failures, httpCloses>>
    BY Ids DEF HttpInv, NewIsNewest, Answer
  <1>1. CASE /\ r.sid = None /\ r.kind = "init" /\ opened < MaxSessions
             /\ opened' = opened + 1
             /\ live' = live \cup {opened + 1}
             /\ post' = [post EXCEPT ![p] = Answered(r, 200, opened + 1)]
    <2> DEFINE n == Answered(r, 200, opened + 1)
    <2>1. opened + 1 \in Sessions /\ opened + 1 \in 0..MaxSessions
      BY <1>1, Ids DEF HttpInv, Sessions
    <2>2. n \in PostRecords
      BY <1>0, <2>1, AnsweredIsRecord
    <2>3. /\ n.at = "head" /\ n.status = 200 /\ n.new = opened + 1 /\ n.kind = "init"
      BY <1>0, <1>1, <2>1, AnsweredIsRecord
    <2>4. post' = [post EXCEPT ![p] = n]
      BY <1>1
    <2> HIDE DEF n, r
    <2>5. /\ post' \in [Posters -> PostRecords] /\ post'[p] = n
          /\ \A q \in Posters \ {p} : post'[q] = post[q]
      BY <2>2, <2>4, PostAssigned
    <2>6. live' \subseteq Sessions
      BY <1>1, <2>1 DEF HttpInv, HttpTypeOK
    <2>7. HttpTypeOK'
      BY <1>1, <2>1, <2>5, <2>6 DEF HttpInv, Answer, HttpTypeOK, PostRecords
    <2>8. OneInitialize'
      BY <1>0, <1>1, <2>5 DEF HttpInv, OneInitialize, Initializing, r
    <2>9. NewIsNewest'
      <3> SUFFICES ASSUME NEW q \in Posters, post'[q].new # None
                   PROVE  /\ post'[q].at \in {"head", "capture"} /\ post'[q].status = 200
                          /\ post'[q].kind = "init" /\ post'[q].new = opened + 1
        BY <1>1 DEF NewIsNewest
      <3>1. CASE q = p
        BY <2>3, <2>5, <3>1
      <3>2. CASE q # p
        <4>1. post[q].new # None
          BY <2>5, <3>2
        <4>2. q \in Initializing
          BY <4>1 DEF HttpInv, NewIsNewest, Initializing
        <4>3. p \in Initializing
          BY <1>0, <1>1 DEF Initializing, r
        <4> QED
          BY <3>2, <4>2, <4>3 DEF HttpInv, OneInitialize
      <3> QED
        BY <3>1, <3>2
    <2>10. NoneFromTheFuture'
      BY <1>0, <1>1, Ids DEF HttpInv, NoneFromTheFuture, None
    <2>11. WakeWhileConnected' /\ HttpQuiet'
      BY WakeRest DEF Answer
    <2> QED
      BY <2>7, <2>8, <2>9, <2>10, <2>11 DEF HttpInv
  <1>2. ASSUME NEW st \in {200, 400, 404}, opened' = opened, live' = live,
               post' = [post EXCEPT ![p] = Answered(r, st, None)]
        PROVE  HttpInv'
    <2> DEFINE n == Answered(r, st, None)
    <2>1. n \in PostRecords
      BY <1>0, AnsweredIsRecord
    <2>2. n.new = None /\ n.kind = r.kind /\ n.at # "idle"
      BY <1>0, AnsweredIsRecord
    <2>3. post' = [post EXCEPT ![p] = n]
      BY <1>2
    <2> HIDE DEF n
    <2>4. /\ post' \in [Posters -> PostRecords] /\ post'[p] = n
          /\ \A q \in Posters \ {p} : post'[q] = post[q]
      BY <2>1, <2>3, PostAssigned
    <2>5. HttpTypeOK'
      BY <1>2, <2>4 DEF HttpInv, Answer, HttpTypeOK, PostRecords
    <2>6. OneInitialize' /\ NewIsNewest'
      BY <1>0, <1>2, <2>2, <2>4, PostMoves
    <2>7. NoneFromTheFuture'
      BY <1>0, <1>2, SessionsRest
    <2>8. WakeWhileConnected' /\ HttpQuiet'
      BY WakeRest DEF Answer
    <2> QED
      BY <2>5, <2>6, <2>7, <2>8 DEF HttpInv
  <1>3. CASE /\ post' = [post EXCEPT ![p] = Answered(r, 400, None)]
             /\ UNCHANGED <<live, opened>>
    BY <1>2, <1>3
  <1>4. CASE /\ post' = [post EXCEPT ![p] = Answered(r, IF r.sid \in live THEN 200 ELSE 404, None)]
             /\ UNCHANGED <<live, opened>>
    <2>1. CASE r.sid \in live
      BY <1>2, <1>4, <2>1
    <2>2. CASE r.sid \notin live
      BY <1>2, <1>4, <2>2
    <2> QED
      BY <2>1, <2>2
  <1> QED
    BY <1>1, <1>3, <1>4 DEF Answer

\* A sender starts a POST, an initialize only if none is under way.
LEMMA PostInv == ASSUME NEW p \in Posters, HttpInv, Post(p) PROVE HttpInv'
  <1>0. /\ post[p].at = "idle" /\ opened' = opened
        /\ UNCHANGED <<sessionId, lastFrom, sse, httpRunning, wake, failures, httpCloses, httpJoinable, app, self,
                       net, live>>
    BY DEF Post, httpServerVars
  <1>1. NoneFromTheFuture'
    BY <1>0, SessionsRest
  <1>2. WakeWhileConnected' /\ HttpQuiet'
    BY WakeRest DEF Post
  <1>3. CASE UNCHANGED post
    <2>1. HttpTypeOK'
      BY <1>0, <1>3 DEF HttpInv, HttpTypeOK
    <2> QED
      BY <1>0, <1>1, <1>2, <1>3, <2>1, PostsRest DEF HttpInv
  <1>4. ASSUME NEW kind \in {"init", "req"}, kind = "init" => Initializing = {},
               post' = [post EXCEPT ![p] = [Idle EXCEPT !.at = "sent", !.kind = kind, !.sid = sessionId]]
        PROVE  HttpInv'
    <2> DEFINE n == [Idle EXCEPT !.at = "sent", !.kind = kind, !.sid = sessionId]
    <2>0. sessionId \in Sessions \cup {None}
      BY DEF HttpInv, HttpTypeOK
    <2>1. n \in PostRecords /\ n.new = None /\ n.kind = kind
      BY <2>0 DEF Idle, PostRecords
    <2> HIDE DEF n
    <2>2. /\ post' \in [Posters -> PostRecords] /\ post'[p] = n
          /\ \A q \in Posters \ {p} : post'[q] = post[q]
      BY <1>4, <2>1, PostAssigned DEF n
    <2>3. HttpTypeOK'
      BY <1>0, <2>2 DEF HttpInv, HttpTypeOK, PostRecords
    <2>4. OneInitialize'
      <3>1. CASE kind = "init"
        <4>1. \A q \in Posters \ {p} : q \notin Initializing'
          BY <1>4, <2>2, <3>1 DEF Initializing
        <4> QED
          BY <4>1 DEF OneInitialize, Initializing
      <3>2. CASE kind = "req"
        BY <2>1, <2>2, <3>2 DEF HttpInv, OneInitialize, Initializing
      <3> QED
        BY <3>1, <3>2
    <2>5. NewIsNewest'
      BY <1>0, <2>1, <2>2 DEF HttpInv, NewIsNewest
    <2> QED
      BY <1>1, <1>2, <2>3, <2>4, <2>5 DEF HttpInv
  <1> QED
    BY <1>3, <1>4 DEF Post

\* A POST is given up.
LEMMA PostGivesUpInv == ASSUME NEW p \in Posters, HttpInv, PostGivesUp(p) PROVE HttpInv'
  <1> DEFINE n == Idle
  <1>1. n \in PostRecords
    BY IdleIsRecord
  <1>2. /\ n.new # None => /\ n.new = post[p].new /\ n.status = post[p].status
                           /\ n.kind = post[p].kind /\ n.at \in {"head", "capture"}
        /\ n.at # "idle" /\ n.kind = "init" => post[p].at # "idle" /\ post[p].kind = "init"
    BY IdleIsRecord
  <1>3. post' = [post EXCEPT ![p] = n]
    BY DEF PostGivesUp
  <1> HIDE DEF n
  <1>4. /\ post' \in [Posters -> PostRecords] /\ post'[p] = n
        /\ \A q \in Posters \ {p} : post'[q] = post[q]
    BY <1>1, <1>3, PostAssigned
  <1>5. HttpTypeOK'
    BY <1>4 DEF HttpInv, PostGivesUp, httpServerVars, HttpTypeOK, PostRecords
  <1>6. OneInitialize' /\ NewIsNewest'
    <2>1. opened' = opened
      BY DEF PostGivesUp, httpServerVars
    <2> QED
      BY <1>2, <1>4, <2>1, PostMoves
  <1>7. NoneFromTheFuture'
    BY SessionsRest DEF PostGivesUp, httpServerVars
  <1>8. WakeWhileConnected' /\ HttpQuiet'
    BY WakeRest DEF PostGivesUp
  <1> QED
    BY <1>5, <1>6, <1>7, <1>8 DEF HttpInv

\* The head was read, or is dropped.
LEMMA PostReadInv == ASSUME NEW p \in Posters, HttpInv, PostRead(p) PROVE HttpInv'
  <1>0. post[p] \in PostRecords /\ post[p].at = "head"
    BY Ids DEF HttpInv, PostRead
  <1> DEFINE n == IF httpRunning THEN [post[p] EXCEPT !.at = "capture"] ELSE Idle
  <1>1. n \in PostRecords
    BY <1>0, IdleIsRecord DEF PostRecords
  <1>2. /\ n.new # None => /\ n.new = post[p].new /\ n.status = post[p].status
                           /\ n.kind = post[p].kind /\ n.at \in {"head", "capture"}
        /\ n.at # "idle" /\ n.kind = "init" => post[p].at # "idle" /\ post[p].kind = "init"
    <2>1. CASE httpRunning
      <3>1. n = [post[p] EXCEPT !.at = "capture"]
        BY <2>1
      <3> QED
        BY <1>0, <3>1 DEF PostRecords
    <2>2. CASE ~httpRunning
      BY <2>2, IdleIsRecord
    <2> QED
      BY <2>1, <2>2
  <1>3. post' = [post EXCEPT ![p] = n]
    BY DEF PostRead
  <1> HIDE DEF n
  <1>4. /\ post' \in [Posters -> PostRecords] /\ post'[p] = n
        /\ \A q \in Posters \ {p} : post'[q] = post[q]
    BY <1>1, <1>3, PostAssigned
  <1>5. HttpTypeOK'
    BY <1>4 DEF HttpInv, PostRead, httpServerVars, HttpTypeOK, PostRecords
  <1>6. OneInitialize' /\ NewIsNewest'
    <2>1. opened' = opened
      BY DEF PostRead, httpServerVars
    <2> QED
      BY <1>2, <1>4, <2>1, PostMoves
  <1>7. NoneFromTheFuture'
    BY SessionsRest DEF PostRead, httpServerVars
  <1>8. WakeWhileConnected' /\ HttpQuiet'
    BY WakeRest DEF PostRead
  <1> QED
    BY <1>5, <1>6, <1>7, <1>8 DEF HttpInv

\* A session id in the head is the newest one, and is captured.
LEMMA PostCaptureInv == ASSUME NEW p \in Posters, HttpInv, PostCapture(p) PROVE HttpInv'
  <1>0. post[p] \in PostRecords /\ post[p].at = "capture"
    BY Ids DEF HttpInv, PostCapture
  <1>a. /\ UNCHANGED <<lastFrom, sse, opened>>
        /\ sessionId' = sessionId \/ (sessionId' = opened /\ opened \in Sessions)
    BY <1>0 DEF HttpInv, NewIsNewest, PostCapture, httpServerVars, PostRecords, None, Sessions
  <1> DEFINE n == AfterHead(post[p])
  <1>1. n \in PostRecords
    <2>1. CASE post[p].status = 200
      <3>1. n = [at |-> "body", kind |-> post[p].kind, sid |-> None, status |-> None, new |-> None]
        BY <2>1 DEF AfterHead, Idle
      <3>2. post[p].kind \in {"init", "req"}
        BY <1>0 DEF PostRecords
      <3> QED
        BY <3>1, <3>2 DEF PostRecords
    <2>2. CASE post[p].status # 200
      <3>1. n = [post[p] EXCEPT !.at = "error"]
        BY <2>2 DEF AfterHead
      <3> QED
        BY <1>0, <3>1 DEF PostRecords
    <2> QED
      BY <2>1, <2>2
  <1>2. /\ n.new # None => /\ n.new = post[p].new /\ n.status = post[p].status
                           /\ n.kind = post[p].kind /\ n.at \in {"head", "capture"}
        /\ n.at # "idle" /\ n.kind = "init" => post[p].at # "idle" /\ post[p].kind = "init"
    <2>1. CASE post[p].status = 200
      BY <1>0, <2>1 DEF AfterHead, Idle, PostRecords
    <2>2. CASE post[p].status # 200
      <3>1. n = [post[p] EXCEPT !.at = "error"] /\ post[p].new = None
        BY <2>2 DEF HttpInv, NewIsNewest, AfterHead
      <3> QED
        BY <1>0, <3>1 DEF PostRecords
    <2> QED
      BY <2>1, <2>2
  <1>3. post' = [post EXCEPT ![p] = n]
    BY DEF PostCapture
  <1> HIDE DEF n
  <1>4. /\ post' \in [Posters -> PostRecords] /\ post'[p] = n
        /\ \A q \in Posters \ {p} : post'[q] = post[q]
    BY <1>1, <1>3, PostAssigned
  <1>5. HttpTypeOK'
    BY <1>4, <1>a DEF HttpInv, PostCapture, httpServerVars, HttpTypeOK, PostRecords
  <1>6. OneInitialize' /\ NewIsNewest'
    <2>1. opened' = opened
      BY DEF PostCapture, httpServerVars
    <2> QED
      BY <1>2, <1>4, <2>1, PostMoves
  <1>7. NoneFromTheFuture'
    BY <1>a, Ids DEF HttpInv, NoneFromTheFuture, None
  <1>8. WakeWhileConnected' /\ HttpQuiet'
    BY WakeRest DEF PostCapture
  <1> QED
    BY <1>5, <1>6, <1>7, <1>8 DEF HttpInv

\* The body is read.
LEMMA PostBodyInv == ASSUME NEW p \in Posters, HttpInv, PostBody(p) PROVE HttpInv'
  <1> DEFINE n == Idle
  <1>1. n \in PostRecords
    BY IdleIsRecord
  <1>2. /\ n.new # None => /\ n.new = post[p].new /\ n.status = post[p].status
                           /\ n.kind = post[p].kind /\ n.at \in {"head", "capture"}
        /\ n.at # "idle" /\ n.kind = "init" => post[p].at # "idle" /\ post[p].kind = "init"
    BY IdleIsRecord
  <1>3. post' = [post EXCEPT ![p] = n]
    BY DEF PostBody
  <1> HIDE DEF n
  <1>4. /\ post' \in [Posters -> PostRecords] /\ post'[p] = n
        /\ \A q \in Posters \ {p} : post'[q] = post[q]
    BY <1>1, <1>3, PostAssigned
  <1>5. HttpTypeOK'
    BY <1>4 DEF HttpInv, PostBody, httpServerVars, HttpTypeOK, PostRecords
  <1>6. OneInitialize' /\ NewIsNewest'
    <2>1. opened' = opened
      BY DEF PostBody, httpServerVars
    <2> QED
      BY <1>2, <1>4, <2>1, PostMoves
  <1>7. NoneFromTheFuture'
    BY SessionsRest DEF PostBody, httpServerVars
  <1>8. WakeWhileConnected' /\ HttpQuiet'
    BY WakeRest DEF PostBody
  <1> QED
    BY <1>5, <1>6, <1>7, <1>8 DEF HttpInv

\* 404 forgets the session id.
LEMMA PostErrorInv == ASSUME NEW p \in Posters, HttpInv, PostError(p) PROVE HttpInv'
  <1>a. UNCHANGED <<lastFrom, sse, opened>> /\ sessionId' \in {sessionId, None}
    BY DEF PostError, httpServerVars
  <1> DEFINE n == Idle
  <1>1. n \in PostRecords
    BY IdleIsRecord
  <1>2. /\ n.new # None => /\ n.new = post[p].new /\ n.status = post[p].status
                           /\ n.kind = post[p].kind /\ n.at \in {"head", "capture"}
        /\ n.at # "idle" /\ n.kind = "init" => post[p].at # "idle" /\ post[p].kind = "init"
    BY IdleIsRecord
  <1>3. post' = [post EXCEPT ![p] = n]
    BY DEF PostError
  <1> HIDE DEF n
  <1>4. /\ post' \in [Posters -> PostRecords] /\ post'[p] = n
        /\ \A q \in Posters \ {p} : post'[q] = post[q]
    BY <1>1, <1>3, PostAssigned
  <1>5. HttpTypeOK'
    BY <1>4, <1>a DEF HttpInv, PostError, httpServerVars, HttpTypeOK, PostRecords
  <1>6. OneInitialize' /\ NewIsNewest'
    <2>1. opened' = opened
      BY DEF PostError, httpServerVars
    <2> QED
      BY <1>2, <1>4, <2>1, PostMoves
  <1>7. NoneFromTheFuture'
    BY <1>a, Ids DEF HttpInv, NoneFromTheFuture, None
  <1>8. WakeWhileConnected' /\ HttpQuiet'
    BY WakeRest DEF PostError
  <1> QED
    BY <1>5, <1>6, <1>7, <1>8 DEF HttpInv

\* The GET takes the session id of this moment.
LEMMA SseGetInv == HttpInv /\ SseGet => HttpInv'
  <1> SUFFICES ASSUME HttpInv, SseGet PROVE HttpInv'
    OBVIOUS
  <1>1. sse' \in ThreadRecords /\ sse'.sid \in {sessionId, None} /\ sse.at = "loop"
    BY ThreadIsRecord DEF SseGet, HttpInv, HttpTypeOK
  <1>2. HttpTypeOK'
    BY <1>1 DEF HttpInv, SseGet, httpServerVars, HttpTypeOK, ThreadRecords
  <1>3. OneInitialize' /\ NewIsNewest'
    BY PostsRest DEF SseGet, httpServerVars
  <1>4. NoneFromTheFuture'
    BY <1>1, Ids DEF HttpInv, NoneFromTheFuture, None, SseGet, httpServerVars
  <1>5. WakeWhileConnected' /\ HttpQuiet'
    BY <1>1, WakeRest DEF SseGet
  <1> QED
    BY <1>2, <1>3, <1>4, <1>5 DEF HttpInv

\* The stream is of the session that the GET named.
LEMMA SseAttachedInv == HttpInv /\ SseAttached => HttpInv'
  <1> SUFFICES ASSUME HttpInv, SseAttached PROVE HttpInv'
    OBVIOUS
  <1>1. /\ sse' \in ThreadRecords /\ sse'.sid = sse.sid /\ sse.at = "get"
        /\ lastFrom' = sse.sid /\ sse.sid \in Sessions \cup {None}
    BY ThreadIsRecord, Ids DEF SseAttached, HttpInv, ThreadRecords
  <1>2. HttpTypeOK'
    BY <1>1 DEF HttpInv, SseAttached, httpServerVars, HttpTypeOK, ThreadRecords
  <1>3. OneInitialize' /\ NewIsNewest'
    BY PostsRest DEF SseAttached, httpServerVars
  <1>4. NoneFromTheFuture'
    BY <1>1, Ids DEF HttpInv, NoneFromTheFuture, None, SseAttached, httpServerVars
  <1>5. WakeWhileConnected' /\ HttpQuiet'
    BY <1>1, WakeRest DEF SseAttached
  <1> QED
    BY <1>2, <1>3, <1>4, <1>5 DEF HttpInv

\* The GET fails.
LEMMA SseRefusedInv == HttpInv /\ SseRefused => HttpInv'
  <1> SUFFICES ASSUME HttpInv, SseRefused PROVE HttpInv'
    OBVIOUS
  <1>1. sse' \in ThreadRecords /\ sse'.sid = None /\ sse.at = "get"
    BY ThreadIsRecord DEF SseRefused
  <1>2. HttpTypeOK'
    BY <1>1 DEF HttpInv, SseRefused, httpServerVars, HttpTypeOK, ThreadRecords
  <1>3. OneInitialize' /\ NewIsNewest'
    BY PostsRest DEF SseRefused, httpServerVars
  <1>4. NoneFromTheFuture'
    BY <1>1, SessionsRest DEF SseRefused, httpServerVars
  <1>5. WakeWhileConnected' /\ HttpQuiet'
    BY <1>1, WakeRest DEF SseRefused
  <1> QED
    BY <1>2, <1>3, <1>4, <1>5 DEF HttpInv

\* So is the event, which ends the stream of a client that has disconnected.
LEMMA SseEventInv == HttpInv /\ SseEvent => HttpInv'
  <1> SUFFICES ASSUME HttpInv, SseEvent PROVE HttpInv'
    OBVIOUS
  <1>0. OneInitialize' /\ NewIsNewest'
    BY PostsRest DEF SseEvent, httpServerVars
  <1>1. CASE httpRunning
    <2>1. /\ sse' \in ThreadRecords /\ sse'.sid = sse.sid /\ sse.at = "stream"
          /\ lastFrom' = sse.sid /\ sse.sid \in Sessions \cup {None} /\ failures' = failures
      BY <1>1, Ids DEF SseEvent, HttpInv, ThreadRecords
    <2>2. HttpTypeOK'
      BY <2>1 DEF HttpInv, SseEvent, httpServerVars, HttpTypeOK, ThreadRecords
    <2>3. NoneFromTheFuture'
      BY <2>1, Ids DEF HttpInv, NoneFromTheFuture, None, SseEvent, httpServerVars
    <2>4. WakeWhileConnected' /\ HttpQuiet'
      BY <2>1, WakeRest DEF SseEvent
    <2> QED
      BY <1>0, <2>2, <2>3, <2>4 DEF HttpInv
  <1>2. CASE ~httpRunning
    <2>1. /\ sse' \in ThreadRecords /\ sse'.sid = None /\ sse.at = "stream" /\ failures' \in 0..MaxAttempts
          /\ UNCHANGED <<sessionId, lastFrom>>
      BY <1>2, ThreadIsRecord, HttpClientAssumption DEF SseEvent
    <2>2. HttpTypeOK'
      BY <2>1 DEF HttpInv, SseEvent, httpServerVars, HttpTypeOK, ThreadRecords
    <2>3. NoneFromTheFuture'
      BY <2>1, SessionsRest DEF SseEvent, httpServerVars
    <2>4. WakeWhileConnected' /\ HttpQuiet'
      BY <2>1, WakeRest DEF SseEvent
    <2> QED
      BY <1>0, <2>2, <2>3, <2>4 DEF HttpInv
  <1> QED
    BY <1>1, <1>2

\* The connection of the stream is lost without a sign.
LEMMA SseLostInv == HttpInv /\ SseLost => HttpInv'
  <1> SUFFICES ASSUME HttpInv, SseLost PROVE HttpInv'
    OBVIOUS
  <1>1. sse' \in ThreadRecords /\ sse'.sid = sse.sid /\ sse.at = "stream"
    BY Ids DEF SseLost, HttpInv, ThreadRecords
  <1>2. HttpTypeOK'
    BY <1>1 DEF HttpInv, SseLost, httpServerVars, HttpTypeOK, ThreadRecords
  <1>3. OneInitialize' /\ NewIsNewest'
    BY PostsRest DEF SseLost, httpServerVars
  <1>4. NoneFromTheFuture'
    BY <1>1, SessionsRest DEF SseLost, httpServerVars
  <1>5. WakeWhileConnected' /\ HttpQuiet'
    BY <1>1, WakeRest DEF SseLost
  <1> QED
    BY <1>2, <1>3, <1>4, <1>5 DEF HttpInv

\* Its handlers return.
LEMMA SseDeliveredInv == HttpInv /\ SseDelivered => HttpInv'
  <1> SUFFICES ASSUME HttpInv, SseDelivered PROVE HttpInv'
    OBVIOUS
  <1>1. sse' \in ThreadRecords /\ sse'.sid = sse.sid /\ sse.at = "deliver"
    BY Ids DEF SseDelivered, HttpInv, ThreadRecords
  <1>2. HttpTypeOK'
    BY <1>1 DEF HttpInv, SseDelivered, httpServerVars, HttpTypeOK, ThreadRecords
  <1>3. OneInitialize' /\ NewIsNewest'
    BY PostsRest DEF SseDelivered, httpServerVars
  <1>4. NoneFromTheFuture'
    BY <1>1, SessionsRest DEF SseDelivered, httpServerVars
  <1>5. WakeWhileConnected' /\ HttpQuiet'
    BY <1>1, WakeRest DEF SseDelivered
  <1> QED
    BY <1>2, <1>3, <1>4, <1>5 DEF HttpInv

\* The stream ends.
LEMMA SseEndedInv == HttpInv /\ SseEnded => HttpInv'
  <1> SUFFICES ASSUME HttpInv, SseEnded PROVE HttpInv'
    OBVIOUS
  <1>1. sse' \in ThreadRecords /\ sse'.sid = None /\ sse.at \in {"stream", "lost"} /\ failures' \in 0..MaxAttempts
    BY ThreadIsRecord, HttpClientAssumption DEF SseEnded
  <1>2. HttpTypeOK'
    BY <1>1 DEF HttpInv, SseEnded, httpServerVars, HttpTypeOK, ThreadRecords
  <1>3. OneInitialize' /\ NewIsNewest'
    BY PostsRest DEF SseEnded, httpServerVars
  <1>4. NoneFromTheFuture'
    BY <1>1, SessionsRest DEF SseEnded, httpServerVars
  <1>5. WakeWhileConnected' /\ HttpQuiet'
    BY <1>1, WakeRest DEF SseEnded
  <1> QED
    BY <1>2, <1>3, <1>4, <1>5 DEF HttpInv

\* A failed attempt is counted, and may be the last one.
LEMMA SseFailedInv == HttpInv /\ SseFailed => HttpInv'
  <1> SUFFICES ASSUME HttpInv, SseFailed PROVE HttpInv'
    OBVIOUS
  <1>1. /\ sse' \in ThreadRecords /\ sse'.sid = None /\ sse.at = "failed"
        /\ failures' \in 0..MaxAttempts /\ httpCloses' \in 0..1
    <2>1. sse' \in {Thread("wait", None), Thread("closing", None)} /\ sse.at = "failed"
      BY DEF SseFailed
    <2>2. failures' \in 0..MaxAttempts
      BY Ids DEF HttpInv, HttpTypeOK, SseFailed
    <2>3. httpCloses' \in 0..1
      BY DEF HttpInv, HttpTypeOK, SseFailed, EmitClose
    <2> QED
      BY <2>1, <2>2, <2>3, ThreadIsRecord
  <1>2. HttpTypeOK'
    BY <1>1 DEF HttpInv, SseFailed, httpServerVars, HttpTypeOK, ThreadRecords
  <1>3. OneInitialize' /\ NewIsNewest'
    BY PostsRest DEF SseFailed, httpServerVars
  <1>4. NoneFromTheFuture'
    BY <1>1, SessionsRest DEF SseFailed, httpServerVars
  <1>5. WakeWhileConnected' /\ HttpQuiet'
    BY <1>1, WakeRest DEF SseFailed
  <1> QED
    BY <1>2, <1>3, <1>4, <1>5 DEF HttpInv

\* The retry delay is over.
LEMMA SseWaitedInv == HttpInv /\ SseWaited => HttpInv'
  <1> SUFFICES ASSUME HttpInv, SseWaited PROVE HttpInv'
    OBVIOUS
  <1>1. sse' \in ThreadRecords /\ sse'.sid = None /\ sse.at \in {"wait", "closing"}
    <2>1. sse' \in {Thread("loop", None), Thread("done", None)} /\ sse.at \in {"wait", "closing"}
      BY DEF SseWaited
    <2> QED
      BY <2>1, ThreadIsRecord
  <1>2. HttpTypeOK'
    BY <1>1 DEF HttpInv, SseWaited, httpServerVars, HttpTypeOK, ThreadRecords
  <1>3. OneInitialize' /\ NewIsNewest'
    BY PostsRest DEF SseWaited, httpServerVars
  <1>4. NoneFromTheFuture'
    BY <1>1, SessionsRest DEF SseWaited, httpServerVars
  <1>5. WakeWhileConnected' /\ HttpQuiet'
    BY <1>1, WakeRest DEF SseWaited
  <1> QED
    BY <1>2, <1>3, <1>4, <1>5 DEF HttpInv

\* The loop is left.
LEMMA SseStoppedInv == HttpInv /\ SseStopped => HttpInv'
  <1> SUFFICES ASSUME HttpInv, SseStopped PROVE HttpInv'
    OBVIOUS
  <1>1. sse' \in ThreadRecords /\ sse'.sid = None /\ sse.at = "loop"
    BY ThreadIsRecord DEF SseStopped
  <1>2. HttpTypeOK'
    BY <1>1 DEF HttpInv, SseStopped, httpServerVars, HttpTypeOK, ThreadRecords
  <1>3. OneInitialize' /\ NewIsNewest'
    BY PostsRest DEF SseStopped, httpServerVars
  <1>4. NoneFromTheFuture'
    BY <1>1, SessionsRest DEF SseStopped, httpServerVars
  <1>5. WakeWhileConnected' /\ HttpQuiet'
    BY <1>1, WakeRest DEF SseStopped
  <1> QED
    BY <1>2, <1>3, <1>4, <1>5 DEF HttpInv

\* connect creates the wake event, and the thread if it is asked to.
LEMMA HttpConnectInv == HttpInv /\ HttpConnect => HttpInv'
  <1> SUFFICES ASSUME HttpInv, HttpConnect PROVE HttpInv'
    OBVIOUS
  <1>0. httpJoinable' \in BOOLEAN /\ httpRunning' \in BOOLEAN
    BY Zenon DEF HttpConnect
  <1>1. /\ sse' \in ThreadRecords /\ sse'.sid \in {None, sse.sid}
        /\ ~httpJoinable' => sse'.at = "none"
    <2>1. CASE httpJoinable'
      BY <2>1, ThreadIsRecord DEF HttpConnect
    <2>2. CASE ~httpJoinable'
      BY <2>2, Ids DEF HttpInv, WakeWhileConnected, HttpConnect
    <2> QED
      BY <2>1, <2>2
  <1>2. HttpTypeOK'
    BY <1>0, <1>1 DEF HttpInv, HttpConnect, httpServerVars, HttpTypeOK, ThreadRecords
  <1>3. OneInitialize' /\ NewIsNewest'
    BY PostsRest DEF HttpConnect, httpServerVars
  <1>4. NoneFromTheFuture'
    BY <1>1, SessionsRest DEF HttpConnect, httpServerVars
  <1>5. WakeWhileConnected' /\ HttpQuiet'
    BY <1>1 DEF HttpConnect, WakeWhileConnected, HttpQuiet
  <1> QED
    BY <1>2, <1>3, <1>4, <1>5 DEF HttpInv

\* disconnect begins, on some thread.
LEMMA HttpDisconnectInv == HttpInv /\ HttpDisconnect => HttpInv'
  <1> SUFFICES ASSUME HttpInv, HttpDisconnect PROVE HttpInv'
    OBVIOUS
  <1>0. httpRunning' \in BOOLEAN /\ self' \in BOOLEAN
    <2>1. self' = TRUE \/ self' = FALSE
      <3>1. self' = FALSE \/ self' = (sse.at \in {"deliver", "closing"})
        BY DEF HttpDisconnect
      <3>2. CASE sse.at \in {"deliver", "closing"}
        BY <3>1, <3>2
      <3>3. CASE sse.at \notin {"deliver", "closing"}
        BY <3>1, <3>3
      <3> QED
        BY <3>2, <3>3
    <2> QED
      BY <2>1, Zenon DEF HttpDisconnect
  <1>2. HttpTypeOK'
    BY <1>0 DEF HttpInv, HttpDisconnect, httpServerVars, HttpTypeOK
  <1>3. OneInitialize' /\ NewIsNewest'
    BY PostsRest DEF HttpDisconnect, httpServerVars
  <1>4. NoneFromTheFuture'
    BY SessionsRest DEF HttpDisconnect, httpServerVars
  <1>5. WakeWhileConnected' /\ HttpQuiet'
    BY DEF HttpInv, HttpDisconnect, WakeWhileConnected, HttpQuiet
  <1> QED
    BY <1>2, <1>3, <1>4, <1>5 DEF HttpInv

\* The session is ended, best effort.
LEMMA SendDeleteInv == HttpInv /\ SendDelete => HttpInv'
  <1> SUFFICES ASSUME HttpInv, SendDelete PROVE HttpInv'
    OBVIOUS
  <1>1. app = "delete" /\ app' \in {"signal", "awaitDelete"} /\ live' \subseteq live
    BY Zenon DEF SendDelete
  <1>2. HttpTypeOK'
    BY <1>1 DEF HttpInv, SendDelete, httpServerVars, HttpTypeOK
  <1>3. OneInitialize' /\ NewIsNewest'
    BY PostsRest DEF SendDelete, httpServerVars
  <1>4. NoneFromTheFuture'
    BY SessionsRest DEF SendDelete, httpServerVars
  <1>5. WakeWhileConnected' /\ HttpQuiet'
    BY <1>1 DEF HttpInv, SendDelete, WakeWhileConnected, HttpQuiet
  <1> QED
    BY <1>2, <1>3, <1>4, <1>5 DEF HttpInv

\* Its answer, or the end of the connection, was read.
LEMMA DeleteAnsweredInv == HttpInv /\ DeleteAnswered => HttpInv'
  <1> SUFFICES ASSUME HttpInv, DeleteAnswered PROVE HttpInv'
    OBVIOUS
  <1>2. HttpTypeOK'
    BY DEF HttpInv, DeleteAnswered, httpServerVars, HttpTypeOK
  <1>3. OneInitialize' /\ NewIsNewest'
    BY PostsRest DEF DeleteAnswered, httpServerVars
  <1>4. NoneFromTheFuture'
    BY SessionsRest DEF DeleteAnswered, httpServerVars
  <1>5. WakeWhileConnected' /\ HttpQuiet'
    BY DEF HttpInv, DeleteAnswered, WakeWhileConnected, HttpQuiet
  <1> QED
    BY <1>2, <1>3, <1>4, <1>5 DEF HttpInv

\* The wake event is signalled.
LEMMA SignalInv == HttpInv /\ Signal => HttpInv'
  <1> SUFFICES ASSUME HttpInv, Signal PROVE HttpInv'
    OBVIOUS
  <1>2. HttpTypeOK'
    BY DEF HttpInv, Signal, httpServerVars, HttpTypeOK
  <1>3. OneInitialize' /\ NewIsNewest'
    BY PostsRest DEF Signal, httpServerVars
  <1>4. NoneFromTheFuture'
    BY SessionsRest DEF Signal, httpServerVars
  <1>5. WakeWhileConnected' /\ HttpQuiet'
    BY DEF HttpInv, Signal, WakeWhileConnected, HttpQuiet
  <1> QED
    BY <1>2, <1>3, <1>4, <1>5 DEF HttpInv

\* The transport is destroyed; its thread object is joinable only if the thread
\* itself ran disconnect.
LEMMA DestroyInv == HttpInv /\ Destroy => HttpInv'
  <1> SUFFICES ASSUME HttpInv, Destroy PROVE HttpInv'
    OBVIOUS
  <1>1. /\ app = "disconnected" /\ app' \in {"destroyed", "terminated"}
        /\ app' = "terminated" => httpJoinable
        /\ UNCHANGED <<wake, sse, httpJoinable, self>>
    BY Zenon DEF Destroy
  <1>2. HttpTypeOK'
    BY <1>1 DEF HttpInv, Destroy, httpServerVars, HttpTypeOK
  <1>3. OneInitialize' /\ NewIsNewest'
    BY PostsRest DEF Destroy, httpServerVars
  <1>4. NoneFromTheFuture'
    BY SessionsRest DEF Destroy, httpServerVars
  <1>5. WakeWhileConnected' /\ HttpQuiet'
    BY <1>1 DEF HttpInv, WakeWhileConnected, HttpQuiet
  <1> QED
    BY <1>2, <1>3, <1>4, <1>5 DEF HttpInv

\* The thread is joined, unless disconnect runs on it, and the wake event is destroyed.
LEMMA JoinInv == HttpInv /\ Join => HttpInv'
  <1> SUFFICES ASSUME HttpInv, Join PROVE HttpInv'
    OBVIOUS
  <1>0. httpJoinable' \in BOOLEAN /\ (~self => ~httpJoinable')
    BY Zenon DEF HttpInv, HttpTypeOK, Join
  <1>1. ~self => sse.at \in {"none", "done"}
    BY DEF HttpInv, Join, WakeWhileConnected
  <1>2. HttpTypeOK'
    BY <1>0 DEF HttpInv, Join, httpServerVars, HttpTypeOK
  <1>3. OneInitialize' /\ NewIsNewest'
    BY PostsRest DEF Join, httpServerVars
  <1>4. NoneFromTheFuture'
    BY SessionsRest DEF Join, httpServerVars
  <1>5. WakeWhileConnected' /\ HttpQuiet'
    BY <1>0, <1>1 DEF Join, WakeWhileConnected, HttpQuiet
  <1> QED
    BY <1>2, <1>3, <1>4, <1>5 DEF HttpInv

\* Every step does.
LEMMA HttpNextInv == HttpInv /\ [HttpNext]_httpVars => HttpInv'
  <1> SUFFICES ASSUME HttpInv, [HttpNext]_httpVars PROVE HttpInv'
    OBVIOUS
  <1>1. CASE UNCHANGED httpVars
    <2>1. HttpTypeOK'
      BY <1>1 DEF HttpInv, HttpTypeOK, httpVars
    <2>2. OneInitialize' /\ NewIsNewest' /\ NoneFromTheFuture'
      BY <1>1, PostsRest, SessionsRest DEF httpVars
    <2>3. WakeWhileConnected' /\ HttpQuiet'
      BY <1>1, WakeRest DEF httpVars
    <2> QED
      BY <2>1, <2>2, <2>3 DEF HttpInv
  <1>2. CASE SseStep
    BY <1>2, SseGetInv, SseAttachedInv, SseRefusedInv, SseEndedInv, SseDeliveredInv, SseFailedInv,
       SseWaitedInv, SseStoppedInv
    DEF SseStep
  <1>3. ASSUME NEW p \in Posters, PostStep(p) PROVE HttpInv'
    BY <1>3, AnswerInv, PostGivesUpInv, PostReadInv, PostCaptureInv, PostBodyInv, PostErrorInv
    DEF PostStep
  <1> QED
    BY <1>1, <1>2, <1>3, HttpConnectInv, HttpDisconnectInv, SendDeleteInv, DeleteAnsweredInv, SignalInv, JoinInv,
       DestroyInv, OutageInv, SseEventInv, SseLostInv, ExpireInv, PostInv
    DEF HttpNext, DisconnectStep

-----------------------------------------------------------------------------
(* HttpClient: the theorems                                                *)

\* The invariant holds in every behaviour of the transport.
THEOREM HttpInvHolds == HttpSpec => []HttpInv
  BY HttpInitInv, HttpNextInv, PTL DEF HttpSpec

\* Every variable of HttpClientTransport keeps its type: the failure counter
\* stays within max_reconnect_attempts and close is called at most once.
THEOREM HttpClientTypeCorrect == HttpSpec => []HttpTypeOK
  <1>1. HttpInv => HttpTypeOK
    BY DEF HttpInv
  <1> QED
    BY <1>1, HttpInvHolds, PTL

\* HttpClientTransport::disconnect on a thread other than sse_loop's leaves
\* sse_loop finished and joined: it polls no destroyed wake event, and the
\* destructor terminates nothing.  Where disconnect runs on sse_loop's thread,
\* the destructor does terminate the program, and only there.  (Threads in
\* send_message are outside: their poll may meet the reset of wake_.)
THEOREM NothingLeftRunning == HttpSpec => []HttpQuiet
  <1>1. HttpInv => HttpQuiet
    BY DEF HttpInv
  <1> QED
    BY <1>1, HttpInvHolds, PTL

\* Every step of the transport leaves it with a session that is not older than
\* the one it had and not older than the one of the last event.
LEMMA StepAdvances == HttpInv /\ [HttpNext]_httpVars => [SessionAdvances]_httpVars
  <1> SUFFICES ASSUME HttpInv, [HttpNext]_httpVars PROVE sessionId' # None => sessionId' >= sessionId /\ sessionId' >= lastFrom
    BY DEF SessionAdvances
  <1>1. CASE sessionId' = sessionId
    BY <1>1, Ids DEF HttpInv, NoneFromTheFuture
  <1>2. CASE sessionId' = None
    BY <1>2
  <1>3. ASSUME NEW p \in Posters, PostCapture(p)
        PROVE  sessionId' = sessionId \/ sessionId' = opened
    BY <1>3 DEF HttpInv, NewIsNewest, PostCapture
  <1>4. CASE sessionId' = opened
    BY <1>4, Ids DEF HttpInv, NoneFromTheFuture
  <1>5. sessionId' = sessionId \/ sessionId' = None \/ \E p \in Posters : PostCapture(p)
    BY DEF httpVars, HttpNext, HttpConnect, HttpDisconnect, DisconnectStep, SendDelete, DeleteAnswered, Signal, Join,
           Destroy, SseStep,
           SseGet, SseAttached, SseRefused, SseEnded, SseDelivered, SseFailed, SseWaited, SseStopped,
           Outage, SseEvent, SseLost, Expire, Post, PostStep, Answer, PostGivesUp, PostRead, PostBody, PostError
  <1> QED
    BY <1>1, <1>2, <1>3, <1>4, <1>5

\* A POST that was under way when the session changed, or a 404 to an older
\* one, never brings an old session id back (capture_session_id and the 404
\* branch of the POST run on different threads).
THEOREM OldSessionNeverReturns == HttpSpec => NewestSessionWins
  BY HttpInvHolds, StepAdvances, PTL DEF HttpSpec, NewestSessionWins

-----------------------------------------------------------------------------
(* Stdio: the inductive invariant                                          *)

\* The client has one life after the other: while it is connected disconnect
\* has not begun, and until disconnect has seen the child end it is its own.
ChildIsOurs ==
    /\ running => disc = "idle"
    /\ running \/ disc \in {"close", "wait1", "term", "wait2", "kill", "wait3"} =>
          child \in {"running", "exited"}

\* A thread object that is joinable after disconnect is the one disconnect ran
\* on.
JoinedOrSelf == (joinable /\ ~running /\ disc = "idle") \/ aborted => onReader

\* A close is reported when the loop is left, and only then.
ClosedOnce ==
    /\ reader \in {"reading", "closing"} => closes = 0
    /\ srv # "done" => srvCloses = 0
    /\ writer = "tested" => sent < MaxLines

\* The read thread polls a wake event that exists, and returns to the poll only
\* while it does.
WakeExists ==
    /\ srv \in {"poll", "read"} => srvWake # "gone"
    /\ srv = "lines" /\ srvWake = "gone" => ~srvRunning

\* What was processed, what is in the buffer and what is in the pipe are
\* together the lines sent, in order.
LinesInOrder ==
    /\ Len(got) + Len(buffer) + Len(pipe) = sent
    /\ \A i \in 1..Len(got) : got[i] = i
    /\ \A i \in 1..Len(buffer) : buffer[i] = Len(got) + i
    /\ \A i \in 1..Len(pipe) : pipe[i] = Len(got) + Len(buffer) + i

\* The thread reads with an empty buffer; a pipe found empty stays so, because
\* nobody can write to it any more; and the loop is left with nothing unread,
\* unless disconnect ends it.
EofIsFinal ==
    /\ srv \in {"poll", "read"} => buffer = <<>>
    /\ srv = "read" /\ pipe = <<>> => stdin = "closed" /\ ~stdinHeld
    /\ srv = "closing" /\ srvRunning => pipe = <<>> /\ buffer = <<>> /\ stdin = "closed"

StdioInv ==
    /\ StdioTypeOK /\ ChildIsOurs /\ JoinedOrSelf /\ ClosedOnce /\ WakeExists
    /\ LinesInOrder /\ EofIsFinal

-----------------------------------------------------------------------------
(* Stdio: sequences of lines                                               *)

\* What follows the first n elements of a sequence, and these.
LEMMA Cut ==
  ASSUME NEW s \in Seq(1..MaxLines), NEW n \in 0..Len(s)
  PROVE  /\ SubSeq(s, 1, n) \in Seq(1..MaxLines) /\ Len(SubSeq(s, 1, n)) = n
         /\ \A i \in 1..n : SubSeq(s, 1, n)[i] = s[i]
         /\ SubSeq(s, n + 1, Len(s)) \in Seq(1..MaxLines)
         /\ Len(SubSeq(s, n + 1, Len(s))) = Len(s) - n
         /\ \A i \in 1..(Len(s) - n) : SubSeq(s, n + 1, Len(s))[i] = s[n + i]
  <1>1. /\ n \in Int /\ Len(s) \in Nat /\ n >= 0 /\ n <= Len(s)
        /\ \A i \in 1..n : s[i] \in 1..MaxLines
        /\ \A i \in (n + 1)..Len(s) : s[i] \in 1..MaxLines
    <2>1. Len(s) \in Nat /\ \A i \in 1..Len(s) : s[i] \in 1..MaxLines
      BY ElementOfSeq, LenProperties
    <2>2. n \in Int /\ n >= 0 /\ n <= Len(s)
      BY <2>1
    <2>3. 1..n \subseteq 1..Len(s) /\ (n + 1)..Len(s) \subseteq 1..Len(s)
      BY <2>1, <2>2
    <2> QED
      BY <2>1, <2>2, <2>3
  <1>2. /\ SubSeq(s, 1, n) \in Seq(1..MaxLines) /\ Len(SubSeq(s, 1, n)) = n
        /\ \A i \in 1..n : SubSeq(s, 1, n)[i] = s[i]
    BY <1>1, SubSeqProperties
  <1>3. /\ SubSeq(s, n + 1, Len(s)) \in Seq(1..MaxLines)
        /\ Len(SubSeq(s, n + 1, Len(s))) = IF n + 1 <= Len(s) THEN Len(s) - (n + 1) + 1 ELSE 0
        /\ \A i \in 1..(Len(s) - (n + 1) + 1) : SubSeq(s, n + 1, Len(s))[i] = s[n + 1 + i - 1]
    <2>1. n + 1 \in Int /\ Len(s) \in Int
      BY <1>1
    <2> QED
      BY <1>1, <2>1, SubSeqProperties
  <1>4. Len(SubSeq(s, n + 1, Len(s))) = Len(s) - n
    BY <1>1, <1>3
  <1>5. \A i \in 1..(Len(s) - n) : SubSeq(s, n + 1, Len(s))[i] = s[n + i]
    BY <1>1, <1>3
  <1> QED
    BY <1>2, <1>3, <1>4, <1>5

\* The lines and their number have their types.
LEMMA LineTypes ==
  ASSUME StdioTypeOK
  PROVE  /\ sent \in Nat /\ sent <= MaxLines
         /\ {pipe, buffer, got} \subseteq Seq(1..MaxLines)
         /\ Len(pipe) \in Nat /\ Len(buffer) \in Nat /\ Len(got) \in Nat
  <1>1. {pipe, buffer, got} \subseteq Seq(1..MaxLines) /\ sent \in 0..MaxLines
    BY DEF StdioTypeOK
  <1> QED
    BY <1>1, StdioAssumption, LenProperties

-----------------------------------------------------------------------------
(* Stdio: the actions                                                      *)

\* Before the first connect nothing exists.
LEMMA StdioInitInv == StdioInit => StdioInv
  <1> SUFFICES ASSUME StdioInit PROVE StdioInv
    OBVIOUS
  <1>1. <<>> \in Seq(1..MaxLines) /\ Len(<<>>) = 0
    OBVIOUS
  <1>2. /\ running \in BOOLEAN /\ exited \in BOOLEAN /\ onReader \in BOOLEAN /\ joinable \in BOOLEAN
        /\ aborted \in BOOLEAN /\ stdinHeld \in BOOLEAN /\ stdoutHeld \in BOOLEAN
        /\ srvRunning \in BOOLEAN
    BY Zenon DEF StdioInit
  <1>3. /\ connects \in 0..MaxConnects /\ sent \in 0..MaxLines /\ closes \in 0..1
        /\ srvCloses \in 0..1
        /\ pipe \in Seq(1..MaxLines) /\ buffer \in Seq(1..MaxLines) /\ got \in Seq(1..MaxLines)
    BY <1>1, StdioAssumption DEF StdioInit
  <1>4. StdioTypeOK
    BY <1>2, <1>3 DEF StdioInit, StdioTypeOK, Tempers
  <1>5. LinesInOrder /\ EofIsFinal
    BY <1>1 DEF StdioInit, LinesInOrder, EofIsFinal
  <1> QED
    BY <1>4, <1>5 DEF StdioInit, StdioInv, ChildIsOurs, JoinedOrSelf, ClosedOnce, WakeExists

\* connect starts from an idle transport and an empty pipe.
LEMMA ConnectInv == StdioInv /\ Connect => StdioInv'
  <1> SUFFICES ASSUME StdioInv, Connect PROVE StdioInv'
    OBVIOUS
  <1>1. <<>> \in Seq(1..MaxLines) /\ Len(<<>>) = 0
    OBVIOUS
  <1>2. PICK t \in Tempers : Spawn(t)
    BY DEF Connect
  <1>3. /\ running' \in BOOLEAN /\ exited' \in BOOLEAN /\ onReader' \in BOOLEAN
        /\ joinable' \in BOOLEAN /\ aborted' \in BOOLEAN
        /\ stdinHeld' \in BOOLEAN /\ stdoutHeld' \in BOOLEAN
    BY <1>2, Zenon DEF StdioInv, StdioTypeOK, Connect, Spawn
  <1>4. srvRunning' \in BOOLEAN /\ half' \in BOOLEAN
    BY <1>2, Zenon DEF Spawn, ServerStarts
  <1>5. /\ connects' \in 0..MaxConnects /\ sent' \in 0..MaxLines /\ closes' \in 0..1
        /\ srvCloses' \in 0..1
        /\ pipe' \in Seq(1..MaxLines) /\ buffer' \in Seq(1..MaxLines) /\ got' \in Seq(1..MaxLines)
    BY <1>1, <1>2, StdioAssumption DEF StdioInv, StdioTypeOK, Connect, Spawn, ServerStarts
  <1>6. /\ srv' \in {"poll", "none"} /\ srvWake' \in {"quiet", "gone"} /\ srvMain' \in {"run", "none"}
        /\ srv' = "poll" => srvWake' = "quiet"
    BY <1>2 DEF Spawn, ServerStarts
  <1>7. StdioTypeOK'
    BY <1>2, <1>3, <1>4, <1>5, <1>6 DEF StdioInv, StdioTypeOK, Connect, Spawn
  <1>8. LinesInOrder' /\ EofIsFinal'
    BY <1>1, <1>2, <1>6 DEF Connect, Spawn, ServerStarts, LinesInOrder, EofIsFinal
  <1>9. ChildIsOurs' /\ JoinedOrSelf' /\ WakeExists'
    BY <1>2, <1>6 DEF StdioInv, Connect, Spawn, ChildIsOurs, JoinedOrSelf, WakeExists
  <1>10. ClosedOnce'
    <2>1. writer = "tested" => 0 < MaxLines
      BY LineTypes, StdioAssumption DEF StdioInv, ClosedOnce
    <2> QED
      BY <1>2, <2>1 DEF Connect, Spawn, ServerStarts, ClosedOnce
  <1> QED
    BY <1>7, <1>8, <1>9, <1>10 DEF StdioInv

\* A line is appended to the pipe of a child that lives, while stdin is open.
LEMMA SendWriteInv == StdioInv /\ SendWrite => StdioInv'
  <1> SUFFICES ASSUME StdioInv, SendWrite PROVE StdioInv'
    OBVIOUS
  <1>0. writer' = "idle" /\ UNCHANGED <<child, stdin, stdinHeld, buffer, got, srv, srvRunning>>
    BY DEF SendWrite, serverVars
  <1>1. CASE UNCHANGED <<pipe, sent>>
    BY <1>1 DEF StdioInv, SendWrite, serverVars, StdioTypeOK, ChildIsOurs, JoinedOrSelf, ClosedOnce,
                WakeExists, LinesInOrder, EofIsFinal
  <1>2. CASE stdin = "open" /\ pipe' = Append(pipe, sent + 1) /\ sent' = sent + 1
    <2>0. sent < MaxLines
      BY DEF StdioInv, SendWrite, ClosedOnce
    <2>1. sent + 1 \in 1..MaxLines
      BY <2>0, LineTypes, StdioAssumption DEF StdioInv
    <2>2. /\ pipe' \in Seq(1..MaxLines) /\ Len(pipe') = Len(pipe) + 1 /\ pipe' # <<>>
          /\ \A i \in 1..Len(pipe) : pipe'[i] = pipe[i]
          /\ pipe'[Len(pipe) + 1] = sent + 1
      BY <1>2, <2>1, LineTypes, AppendProperties DEF StdioInv
    <2>3. sent' \in 0..MaxLines
      BY <1>2, <2>1, StdioAssumption
    <2>4. StdioTypeOK'
      BY <2>2, <2>3 DEF StdioInv, SendWrite, serverVars, StdioTypeOK
    <2>5. LinesInOrder'
      <3>1. Len(pipe) \in Nat /\ Len(buffer) \in Nat /\ Len(got) \in Nat /\ sent \in Nat
        BY LineTypes DEF StdioInv
      <3>2. /\ Len(got) + Len(buffer) + Len(pipe) = sent
            /\ \A i \in 1..Len(pipe) : pipe[i] = Len(got) + Len(buffer) + i
        BY DEF StdioInv, LinesInOrder
      <3>3. got' = got /\ buffer' = buffer /\ Len(got') = Len(got) /\ Len(buffer') = Len(buffer)
        BY <1>0
      <3>4. Len(got') + Len(buffer') + Len(pipe') = sent'
        <4>1. Len(pipe') = Len(pipe) + 1 /\ sent' = sent + 1
          BY <1>2, <2>2
        <4>2. \A a, b, c, d \in Nat : a + b + c = d => a + b + (c + 1) = d + 1
          OBVIOUS
        <4>3. Len(got) + Len(buffer) + (Len(pipe) + 1) = sent + 1
          <5>1. Len(got) + Len(buffer) + Len(pipe) = sent
            BY <3>2
          <5> QED
            BY <3>1, <4>2, <5>1
        <4> QED
          BY <3>3, <4>1, <4>3, Zenon
      <3>5. ASSUME NEW i \in 1..Len(pipe') PROVE pipe'[i] = Len(got') + Len(buffer') + i
        <4>1. CASE i \in 1..Len(pipe)
          BY <2>2, <3>2, <3>3, <4>1
        <4>2. CASE i = Len(pipe) + 1
          BY <2>2, <3>1, <3>2, <3>3, <4>2
        <4> QED
          BY <2>2, <3>1, <4>1, <4>2
      <3>6. /\ \A i \in 1..Len(got') : got'[i] = i
            /\ \A i \in 1..Len(buffer') : buffer'[i] = Len(got') + i
        BY <3>3 DEF StdioInv, LinesInOrder
      <3> QED
        BY <3>4, <3>5, <3>6 DEF LinesInOrder
    <2>6. EofIsFinal'
      BY <1>0, <1>2, <2>2 DEF StdioInv, EofIsFinal
    <2> QED
      BY <2>4, <2>5, <2>6
      DEF StdioInv, SendWrite, serverVars, ChildIsOurs, JoinedOrSelf, ClosedOnce, WakeExists
  <1> QED
    BY <1>1, <1>2 DEF SendWrite, WriteAll

\* Some lines move from the pipe into the buffer, which was empty.
LEMMA ReadInv == StdioInv /\ Read => StdioInv'
  <1> SUFFICES ASSUME StdioInv, Read PROVE StdioInv'
    OBVIOUS
  <1>0. half' \in BOOLEAN
    BY Zenon DEF Read, ReadSome
  <1>1. PICK n \in 0..Len(pipe) :
            buffer' = buffer \o SubSeq(pipe, 1, n) /\ pipe' = SubSeq(pipe, n + 1, Len(pipe))
    BY DEF Read, ReadSome
  <1>2. pipe \in Seq(1..MaxLines) /\ buffer = <<>> /\ Len(buffer) = 0
    BY DEF StdioInv, Read, Server, StdioTypeOK, EofIsFinal
  <1>3. srv' = "lines" /\ sent' = sent /\ got' = got
    BY DEF Read, Server, clientVars
  <1>4. /\ SubSeq(pipe, 1, n) \in Seq(1..MaxLines) /\ Len(SubSeq(pipe, 1, n)) = n
        /\ \A i \in 1..n : SubSeq(pipe, 1, n)[i] = pipe[i]
        /\ SubSeq(pipe, n + 1, Len(pipe)) \in Seq(1..MaxLines)
        /\ Len(SubSeq(pipe, n + 1, Len(pipe))) = Len(pipe) - n
        /\ \A i \in 1..(Len(pipe) - n) : SubSeq(pipe, n + 1, Len(pipe))[i] = pipe[n + i]
    BY <1>2, Cut
  <1>5. buffer' = SubSeq(pipe, 1, n)
    BY <1>1, <1>2, <1>4, ConcatEmptySeq
  <1>6. /\ buffer' \in Seq(1..MaxLines) /\ Len(buffer') = n
        /\ \A i \in 1..n : buffer'[i] = pipe[i]
    BY <1>4, <1>5, Zenon
  <1>7. /\ pipe' \in Seq(1..MaxLines) /\ Len(pipe') = Len(pipe) - n
        /\ \A i \in 1..(Len(pipe) - n) : pipe'[i] = pipe[n + i]
    BY <1>1, <1>4, Zenon
  <1>8. StdioTypeOK'
    BY <1>0, <1>6, <1>7 DEF StdioInv, Read, Server, clientVars, StdioTypeOK
  <1>9. LinesInOrder'
    <2>1. Len(pipe) \in Nat /\ Len(got) \in Nat /\ sent \in Nat /\ n \in Nat
      BY LineTypes DEF StdioInv
    <2>2. /\ Len(got) + Len(pipe) = sent
          /\ \A i \in 1..Len(pipe) : pipe[i] = Len(got) + i
      <3>1. /\ Len(got) + Len(buffer) + Len(pipe) = sent
            /\ \A i \in 1..Len(pipe) : pipe[i] = Len(got) + Len(buffer) + i
        BY DEF StdioInv, LinesInOrder
      <3> QED
        BY <1>2, <2>1, <3>1
    <2>3. Len(got') = Len(got)
      BY <1>3
    <2>4. Len(got') + Len(buffer') + Len(pipe') = sent'
      <3>1. Len(buffer') = n /\ Len(pipe') = Len(pipe) - n /\ sent' = sent
        BY <1>3, <1>6, <1>7
      <3>2. Len(got) + Len(pipe) = sent
        BY <2>2
      <3>3. Len(got) + n + (Len(pipe) - n) = sent
        BY <2>1, <3>2
      <3> QED
        BY <2>3, <3>1, <3>3, Zenon
    <2>5. ASSUME NEW i \in 1..Len(buffer') PROVE buffer'[i] = Len(got') + i
      <3>1. i \in 1..n /\ i \in 1..Len(pipe)
        BY <1>6, <2>1
      <3> QED
        BY <1>6, <2>2, <2>3, <3>1
    <2>6. ASSUME NEW i \in 1..Len(pipe') PROVE pipe'[i] = Len(got') + Len(buffer') + i
      <3>1. n + i \in 1..Len(pipe) /\ i \in 1..(Len(pipe) - n)
        BY <1>7, <2>1
      <3> QED
        BY <1>6, <1>7, <2>1, <2>2, <2>3, <3>1
    <2>7. \A i \in 1..Len(got') : got'[i] = i
      BY <1>3, <2>3 DEF StdioInv, LinesInOrder
    <2> QED
      BY <2>4, <2>5, <2>6, <2>7 DEF LinesInOrder
  <1>10. EofIsFinal'
    BY <1>3 DEF EofIsFinal
  <1> QED
    BY <1>8, <1>9, <1>10
    DEF StdioInv, Read, Server, clientVars, ChildIsOurs, JoinedOrSelf, ClosedOnce, WakeExists

\* The first line of the buffer is processed, and its handler may disconnect.
LEMMA LineInv == StdioInv /\ Line => StdioInv'
  <1> SUFFICES ASSUME StdioInv, Line PROVE StdioInv'
    OBVIOUS
  <1>1. /\ srv' = "lines" /\ srv = "lines" /\ UNCHANGED <<sent, pipe, stdin, stdinHeld>>
        /\ buffer # <<>> /\ got' = Append(got, Head(buffer)) /\ buffer' = Tail(buffer)
    BY DEF Line, Server, ProcessLine, clientVars
  <1>2. /\ buffer' \in Seq(1..MaxLines) /\ Len(buffer') = Len(buffer) - 1
        /\ \A i \in 1..Len(buffer') : buffer'[i] = buffer[i + 1]
        /\ Head(buffer) \in 1..MaxLines
    BY <1>1, LineTypes, HeadTailProperties DEF StdioInv
  <1>3. Head(buffer) = buffer[1] /\ Len(buffer) >= 1
    BY <1>1, LineTypes, EmptySeq DEF StdioInv
  <1>4. /\ got' \in Seq(1..MaxLines) /\ Len(got') = Len(got) + 1
        /\ \A i \in 1..Len(got) : got'[i] = got[i]
        /\ got'[Len(got) + 1] = Head(buffer)
    BY <1>1, <1>2, LineTypes, AppendProperties DEF StdioInv
  <1>5. srvRunning' \in BOOLEAN
    BY Zenon DEF StdioInv, Line, ProcessLine, StdioTypeOK
  <1>6. srvWake' \in {"quiet", "signalled", "gone"}
    BY DEF StdioInv, Line, ProcessLine, StdioTypeOK
  <1>7. StdioTypeOK'
    BY <1>1, <1>2, <1>4, <1>5, <1>6 DEF StdioInv, Line, Server, clientVars, StdioTypeOK
  <1>8. LinesInOrder'
    BY <1>1, <1>2, <1>3, <1>4, LineTypes DEF StdioInv, LinesInOrder
  <1>9. EofIsFinal'
    BY <1>1 DEF EofIsFinal
  <1>10. WakeExists'
    BY <1>1 DEF StdioInv, Line, ProcessLine, WakeExists
  <1> QED
    BY <1>7, <1>8, <1>9, <1>10
    DEF StdioInv, Line, Server, clientVars, ChildIsOurs, JoinedOrSelf, ClosedOnce

\* disconnect begins: the flags change, nothing else does.
LEMMA DisconnectInv == StdioInv /\ Disconnect => StdioInv'
  <1> SUFFICES ASSUME StdioInv, Disconnect PROVE StdioInv'
    OBVIOUS
  <1>1. onReader' \in BOOLEAN /\ running' \in BOOLEAN
    <2>1. onReader' = FALSE \/ onReader' = (reader \in {"reading", "closing"})
      BY DEF Disconnect
    <2>2. onReader' = TRUE \/ onReader' = FALSE
      <3>1. CASE reader \in {"reading", "closing"}
        BY <2>1, <3>1
      <3>2. CASE reader \notin {"reading", "closing"}
        BY <2>1, <3>2
      <3> QED
        BY <3>1, <3>2
    <2> QED
      BY <2>2, Zenon DEF Disconnect
  <1>2. StdioTypeOK'
    BY <1>1 DEF StdioInv, Disconnect, processVars, serverVars, StdioTypeOK
  <1> QED
    BY <1>2 DEF StdioInv, Disconnect, processVars, serverVars, ChildIsOurs, JoinedOrSelf, ClosedOnce,
                WakeExists, LinesInOrder, EofIsFinal

\* A wait that finds the child gone collects it and goes to the join.
LEMMA WaitExitInv == ASSUME NEW w \in {"wait1", "wait2", "wait3"}, StdioInv, WaitExit(w) PROVE StdioInv'
  <1>1. exited' \in BOOLEAN
    BY Zenon DEF WaitExit
  <1>2. StdioTypeOK'
    BY <1>1 DEF StdioInv, WaitExit, At, serverVars, StdioTypeOK
  <1> QED
    BY <1>2 DEF StdioInv, WaitExit, At, serverVars, ChildIsOurs, JoinedOrSelf, ClosedOnce,
                WakeExists, LinesInOrder, EofIsFinal

\* A wait that times out leaves a child that lives.
LEMMA WaitTimesOutInv ==
  ASSUME NEW w \in {"wait1", "wait2", "wait3"}, StdioInv, WaitTimesOut(w) PROVE StdioInv'
  <1>1. After(w) \in {"term", "kill", "join"}
    BY DEF After
  <1>2. StdioTypeOK'
    BY <1>1 DEF StdioInv, WaitTimesOut, At, processVars, serverVars, StdioTypeOK
  <1> QED
    BY <1>1, <1>2 DEF StdioInv, WaitTimesOut, At, Alive, processVars, serverVars, ChildIsOurs,
                      JoinedOrSelf, ClosedOnce, WakeExists, LinesInOrder, EofIsFinal

\* The loop has been left: running_ is cleared and the close reported.
LEMMA ServerClosesInv == StdioInv /\ ServerCloses => StdioInv'
  <1> SUFFICES ASSUME StdioInv, ServerCloses PROVE StdioInv'
    OBVIOUS
  <1>1. srvRunning' \in BOOLEAN
    BY Zenon DEF ServerCloses
  <1>2. srvCloses' = 1
    BY DEF StdioInv, ServerCloses, Server, ClosedOnce
  <1>3. StdioTypeOK'
    BY <1>1, <1>2 DEF StdioInv, ServerCloses, Server, clientVars, StdioTypeOK
  <1> QED
    BY <1>3 DEF StdioInv, ServerCloses, Server, clientVars, ChildIsOurs, JoinedOrSelf, ClosedOnce,
                WakeExists, LinesInOrder, EofIsFinal

\* The child's main thread disconnects: it signals the wake event if there is one.
LEMMA MainDisconnectsInv == StdioInv /\ MainDisconnects => StdioInv'
  <1> SUFFICES ASSUME StdioInv, MainDisconnects PROVE StdioInv'
    OBVIOUS
  <1>1. srvRunning' \in BOOLEAN
    BY Zenon DEF MainDisconnects
  <1>2. /\ srvWake' \in {"quiet", "signalled", "gone"}
        /\ srvWake' = "gone" => srvWake = "gone"
    BY DEF StdioInv, MainDisconnects, StdioTypeOK
  <1>3. StdioTypeOK'
    BY <1>1, <1>2 DEF StdioInv, MainDisconnects, clientVars, processVars, StdioTypeOK
  <1> QED
    BY <1>2, <1>3 DEF StdioInv, MainDisconnects, clientVars, processVars, ChildIsOurs, JoinedOrSelf,
                      ClosedOnce, WakeExists, LinesInOrder, EofIsFinal

\* Another holder of the pipe goes away.
LEMMA SiblingExitsInv == StdioInv /\ SiblingExits => StdioInv'
  <1> SUFFICES ASSUME StdioInv, SiblingExits PROVE StdioInv'
    OBVIOUS
  <1>1. stdinHeld' \in BOOLEAN
    BY Zenon DEF SiblingExits
  <1>2. StdioTypeOK'
    BY <1>1 DEF StdioInv, SiblingExits, clientVars, serverVars, StdioTypeOK
  <1> QED
    BY <1>2 DEF StdioInv, SiblingExits, clientVars, serverVars, ChildIsOurs, JoinedOrSelf, ClosedOnce,
                WakeExists, LinesInOrder, EofIsFinal

\* The remaining steps change the place of one thread, or of the child.
LEMMA StdioNextInv == StdioInv /\ [StdioNext]_stdioVars => StdioInv'
  <1> SUFFICES ASSUME StdioInv, [StdioNext]_stdioVars PROVE StdioInv'
    OBVIOUS
  <1> USE DEF clientVars, processVars, serverVars
  <1>1. CASE UNCHANGED stdioVars
    BY <1>1 DEF stdioVars, StdioInv, StdioTypeOK, ChildIsOurs, JoinedOrSelf, ClosedOnce, WakeExists,
                LinesInOrder, EofIsFinal
  <1>2. CASE Abort
    BY <1>2 DEF Abort, StdioInv, StdioTypeOK, ChildIsOurs, JoinedOrSelf, ClosedOnce,
                WakeExists, LinesInOrder, EofIsFinal
  <1>3. CASE SendTest
    BY <1>3 DEF SendTest, StdioInv, StdioTypeOK, ChildIsOurs, JoinedOrSelf, ClosedOnce,
                WakeExists, LinesInOrder, EofIsFinal
  <1>4. CASE ReadEnds
    BY <1>4 DEF ReadEnds, StdioInv, StdioTypeOK, ChildIsOurs, JoinedOrSelf, ClosedOnce,
                WakeExists, LinesInOrder, EofIsFinal
  <1>5. CASE ReportClose
    BY <1>5 DEF ReportClose, StdioInv, StdioTypeOK, ChildIsOurs, JoinedOrSelf, ClosedOnce,
                WakeExists, LinesInOrder, EofIsFinal
  <1>6. CASE CloseStdin
    BY <1>6 DEF CloseStdin, At, StdioInv, StdioTypeOK, ChildIsOurs, JoinedOrSelf, ClosedOnce,
                WakeExists, LinesInOrder, EofIsFinal
  <1>7. CASE Terminate
    BY <1>7 DEF Terminate, At, StdioInv, StdioTypeOK, ChildIsOurs, JoinedOrSelf, ClosedOnce,
                WakeExists, LinesInOrder, EofIsFinal
  <1>8. CASE Kill
    BY <1>8 DEF Kill, At, StdioInv, StdioTypeOK, ChildIsOurs, JoinedOrSelf, ClosedOnce,
                WakeExists, LinesInOrder, EofIsFinal
  <1>9. CASE PollWoken
    BY <1>9 DEF PollWoken, Server, StdioInv, StdioTypeOK, ChildIsOurs, JoinedOrSelf, ClosedOnce,
                WakeExists, LinesInOrder, EofIsFinal
  <1>10. CASE PollReadable
    BY <1>10 DEF PollReadable, Server, StdinEof, StdioInv, StdioTypeOK, ChildIsOurs, JoinedOrSelf, ClosedOnce,
                WakeExists, LinesInOrder, EofIsFinal
  <1>11. CASE ReadStops
    BY <1>11 DEF ReadStops, Server, StdioInv, StdioTypeOK, ChildIsOurs, JoinedOrSelf, ClosedOnce,
                WakeExists, LinesInOrder, EofIsFinal
  <1>12. CASE ReadFails
    BY <1>12 DEF ReadFails, Server, StdioInv, StdioTypeOK, ChildIsOurs, JoinedOrSelf, ClosedOnce,
                WakeExists, LinesInOrder, EofIsFinal
  <1>13. CASE LinesDone
    BY <1>13 DEF LinesDone, Server, LoopTop, StdioInv, StdioTypeOK, ChildIsOurs, JoinedOrSelf, ClosedOnce,
                WakeExists, LinesInOrder, EofIsFinal
  <1>14. CASE Exit
    BY <1>14 DEF Exit, Alive, StdioInv, StdioTypeOK, ChildIsOurs, JoinedOrSelf, ClosedOnce,
                WakeExists, LinesInOrder, EofIsFinal
  <1>15. CASE SiblingInherits
    BY <1>15 DEF SiblingInherits, StdioInv, StdioTypeOK, ChildIsOurs, JoinedOrSelf, ClosedOnce,
                WakeExists, LinesInOrder, EofIsFinal
  <1>16. CASE GrandchildStays
    BY <1>16 DEF GrandchildStays, StdioInv, StdioTypeOK, ChildIsOurs, JoinedOrSelf, ClosedOnce,
                WakeExists, LinesInOrder, EofIsFinal
  <1>17. CASE MainJoins
    BY <1>17 DEF MainJoins, StdioInv, StdioTypeOK, ChildIsOurs, JoinedOrSelf, ClosedOnce,
                WakeExists, LinesInOrder, EofIsFinal
  <1>18. CASE JoinReader
    BY <1>18 DEF JoinReader, At, StdioInv, StdioTypeOK, ChildIsOurs, JoinedOrSelf, ClosedOnce,
                WakeExists, LinesInOrder, EofIsFinal
  <1> QED
    BY <1>1, <1>2, <1>3, <1>4, <1>5, <1>6, <1>7, <1>8, <1>9,
       <1>10, <1>11, <1>12, <1>13, <1>14, <1>15, <1>16, <1>17, <1>18,
       ConnectInv, SendWriteInv, ReadInv, LineInv, DisconnectInv, WaitExitInv, WaitTimesOutInv,
       ServerClosesInv, MainDisconnectsInv, SiblingExitsInv
    DEF StdioNext, ClientStep, ServerStep

-----------------------------------------------------------------------------
(* Stdio: the theorems                                                     *)

\* The inductive invariant holds of every reachable state.
THEOREM StdioInvHolds == StdioSpec => []StdioInv
  BY StdioInitInv, StdioNextInv, PTL DEF StdioSpec

\* Every variable of the client, the child and the child's transport has a value
\* the code can give it; a close is reported at most once per connection.
THEOREM StdioTypeCorrect == StdioSpec => []StdioTypeOK
  BY StdioInvHolds, PTL DEF StdioInv

\* StdioClientTransport::disconnect sends SIGTERM and SIGKILL only to a child it
\* has not collected.
THEOREM SignalsReachOwnChild == StdioSpec => []SignalsOwnChild
  <1>1. StdioInv => SignalsOwnChild
    BY DEF StdioInv, ChildIsOurs, SignalsOwnChild
  <1> QED
    BY <1>1, StdioInvHolds, PTL

\* StdioTransport::read_loop processes the lines in order, and all of them before
\* it reports end of file.
THEOREM NoLineIsLost == StdioSpec => []NoLineLostAtEof
  <1>1. StdioInv => NoLineLostAtEof
    <2> SUFFICES ASSUME StdioInv PROVE NoLineLostAtEof
      OBVIOUS
    <2> DEFINE all == [i \in 1..sent |-> i]
    <2>1. sent \in Nat /\ got \in Seq(1..MaxLines) /\ Len(got) \in Nat /\ Len(got) <= sent
      BY DEF StdioInv, StdioTypeOK, LinesInOrder
    <2>2. all \in Seq(Nat) /\ Len(all) = sent
      BY <2>1, IsASeq
    <2>3. \A i \in 1..Len(got) : got[i] = all[i]
      BY <2>1 DEF StdioInv, LinesInOrder
    <2>4. SubSeq(got, 1, Len(got)) = SubSeq(all, 1, Len(got))
      <3>1. /\ SubSeq(got, 1, Len(got)) = [i \in 1..Len(got) |-> got[i]]
            /\ SubSeq(all, 1, Len(got)) = [i \in 1..Len(got) |-> all[i]]
        BY <2>1, <2>2
      <3> HIDE DEF all
      <3> QED
        BY <2>3, <3>1
    <2>5. srv = "closing" /\ srvRunning => Len(got) = sent
      BY <2>1 DEF StdioInv, StdioTypeOK, LinesInOrder, EofIsFinal
    <2> QED
      BY <2>1, <2>2, <2>4, <2>5 DEF NoLineLostAtEof, IsPrefix
  <1> QED
    BY <1>1, StdioInvHolds, PTL

\* The read thread of StdioTransport never polls the wake event its disconnect
\* destroys; and if StdioClientTransport's destructor or its connect terminates
\* the program over a joinable thread object, the last disconnect ran on the
\* stdout thread.  (A disconnect there does leave the object joinable.)
THEOREM NothingLeftBehind == StdioSpec => []StdioQuiet
  <1>1. StdioInv => StdioQuiet
    BY DEF StdioInv, WakeExists, JoinedOrSelf, StdioQuiet
  <1> QED
    BY <1>1, StdioInvHolds, PTL

-----------------------------------------------------------------------------
(* The child's end of the pipe is a Transport                              *)

\* connect starts another connection.
LEMMA ConnectRefines == Connect => Transport!Next
  <1> SUFFICES ASSUME Connect PROVE Transport!Reconnect
    BY DEF Transport!Next
  <1> QED
    BY DEF Connect, Spawn, ServerStarts, Transport!Reconnect

\* A write that succeeds offers a line; one that fails offers none.
LEMMA SendWriteRefines ==
    ASSUME SendWrite PROVE Transport!Next \/ UNCHANGED Transport!transportVars
<1>1. UNCHANGED <<connects, got, srvCloses>> /\ (sent' = sent + 1 \/ sent' = sent)
  BY DEF SendWrite, WriteAll, serverVars
<1> QED
  BY <1>1 DEF Transport!Next, Transport!Offer, Transport!transportVars

\* process_line is given the line after the last one, which was sent.
LEMMA LineRefines ==
    ASSUME StdioInv, Line PROVE Transport!Next
<1>1. /\ sent \in Nat /\ srvCloses = 0 /\ UNCHANGED <<connects, sent, srvCloses>>
      /\ buffer \in Seq(1..MaxLines) /\ got \in Seq(1..MaxLines) /\ pipe \in Seq(1..MaxLines)
  BY DEF StdioInv, StdioTypeOK, ClosedOnce, Line, Server, clientVars
<1>2. Len(buffer) \in Nat /\ Len(buffer) # 0 /\ Head(buffer) = buffer[1]
  BY <1>1 DEF Line
<1>3. Len(got) \in Nat /\ Len(pipe) \in Nat /\ Len(got) + Len(buffer) + Len(pipe) = sent
  BY <1>1 DEF StdioInv, LinesInOrder
<1>4. Head(buffer) = Len(got) + 1
  BY <1>2 DEF StdioInv, LinesInOrder
<1>5. Transport!Newest = Len(got)
  <2>1. CASE got = <<>>
    BY <2>1 DEF Transport!Newest
  <2>2. CASE got # <<>>
    <3>1. Len(got) \in 1..Len(got)
      BY <1>1, <1>3, <2>2
    <3>2. got[Len(got)] = Len(got)
      BY <3>1 DEF StdioInv, LinesInOrder
    <3> QED
      BY <2>2, <3>2 DEF Transport!Newest
  <2> QED
    BY <2>1, <2>2
<1>6. got' = Append(got, Len(got) + 1)
  BY <1>4 DEF Line, ProcessLine
<1>7. Len(got) + 1 \in 1..sent /\ Len(got) + 1 \in Len(got) + 1..sent
  BY <1>1, <1>2, <1>3
<1>8. Transport!Deliver(Len(got) + 1)
  BY <1>1, <1>5, <1>6, <1>7 DEF Transport!Deliver
<1> QED
  BY <1>7, <1>8 DEF Transport!Next

\* The loop is left once, so that the close is reported once.
LEMMA ServerClosesRefines ==
    ASSUME StdioInv, ServerCloses PROVE Transport!Next
<1>1. srvCloses = 0 /\ UNCHANGED <<connects, sent, got>> /\ srvCloses' = srvCloses + 1
  BY DEF StdioInv, ClosedOnce, ServerCloses, Server, clientVars
<1>2. Transport!Close
  BY <1>1 DEF Transport!Close
<1> QED
  BY <1>2 DEF Transport!Next

\* No other step concerns a line that was sent or processed, or the close.
LEMMA OtherStdioStepsStutter ==
    ASSUME [StdioNext]_stdioVars, ~Connect, ~SendWrite, ~Line, ~ServerCloses
    PROVE  UNCHANGED Transport!transportVars
<1> USE DEF clientVars, processVars, serverVars
<1>1. CASE ClientStep
  <2>1. ASSUME NEW w \in {"wait1", "wait2", "wait3"}, WaitExit(w) \/ WaitTimesOut(w)
        PROVE  UNCHANGED <<connects, sent, got, srvCloses>>
    BY <2>1 DEF WaitExit, WaitTimesOut, At
  <2>2. ASSUME CloseStdin \/ Terminate \/ Kill \/ JoinReader
        PROVE  UNCHANGED <<connects, sent, got, srvCloses>>
    BY <2>2 DEF CloseStdin, Terminate, Kill, JoinReader, At
  <2>3. ASSUME ReadEnds \/ ReportClose
        PROVE  UNCHANGED <<connects, sent, got, srvCloses>>
    BY <2>3 DEF ReadEnds, ReportClose
  <2> QED
    BY <1>1, <2>1, <2>2, <2>3 DEF ClientStep, Transport!transportVars
<1>2. CASE PollWoken \/ PollReadable \/ Read \/ ReadStops \/ LinesDone \/ ReadFails
  BY <1>2 DEF PollWoken, PollReadable, Read, ReadStops, LinesDone, ReadFails, Server,
    Transport!transportVars
<1>3. CASE MainJoins \/ MainDisconnects \/ Exit \/ SiblingInherits \/ SiblingExits \/ GrandchildStays
  BY <1>3 DEF MainJoins, MainDisconnects, Exit, SiblingInherits, SiblingExits, GrandchildStays,
    Transport!transportVars
<1>4. CASE Abort \/ SendTest \/ Disconnect
  BY <1>4 DEF Abort, SendTest, Disconnect, Transport!transportVars
<1>5. CASE UNCHANGED stdioVars
  BY <1>5 DEF stdioVars, Transport!transportVars
<1> QED
  BY <1>1, <1>2, <1>3, <1>4, <1>5 DEF StdioNext, ServerStep

\* Every step of client and child is a step of the contract or none of its
\* business.
LEMMA StdioStepRefines ==
    StdioInv /\ [StdioNext]_stdioVars => [Transport!Next]_(Transport!transportVars)
  BY ConnectRefines, SendWriteRefines, LineRefines, ServerClosesRefines, OtherStdioStepsStutter

\* StdioTransport is a Transport: over each connection the lines of the client
\* reach process_line once, in order and none left out, and the close is
\* reported at most once and after them.
THEOREM StdioIsTransport == StdioSpec => ImplementsTransport
<1>1. StdioInit => Transport!Init
  BY DEF StdioInit, Transport!Init
<1> QED
  BY <1>1, StdioStepRefines, StdioInvHolds, PTL DEF StdioSpec, ImplementsTransport, Transport!Spec

-----------------------------------------------------------------------------
(* The transports a client chooses from (MCTransports)                     *)

\* What both transports keep, whichever of them is in use.
TransportsInv == HttpInv /\ StdioInv

\* A step of the client's transport is one of HttpClient that leaves Stdio as it
\* is, or the other way round.
LEMMA OneOfThemSteps == [Next]_transportsVars => [HttpNext]_httpVars /\ [StdioNext]_stdioVars
  BY DEF Next, transportsVars

\* So each keeps its own invariant.
LEMMA TransportsInvHolds == Spec => []TransportsInv
  <1>1. Init => TransportsInv
    BY HttpInitInv, StdioInitInv DEF Init, TransportsInv
  <1>2. TransportsInv /\ [Next]_transportsVars => TransportsInv'
    BY OneOfThemSteps, HttpNextInv, StdioNextInv DEF TransportsInv
  <1> QED
    BY <1>1, <1>2, PTL DEF Spec

\* Every variable of HttpClientTransport, of StdioClientTransport and of the
\* child's StdioTransport has a value the code can give it.
THEOREM TransportsTypeCorrect == Spec => []TypeOK
  <1>1. TransportsInv => TypeOK
    BY DEF TransportsInv, HttpInv, StdioInv, TypeOK
  <1> QED
    BY <1>1, TransportsInvHolds, PTL

\* Whichever transport is in use, a disconnect on another thread leaves the
\* thread it joins (sse_loop, the stdout thread, the server's read thread)
\* neither polling a destroyed wake event nor joinable, and a std::terminate by
\* a joinable thread object comes only after a disconnect on that thread.
\* Senders that poll the wake event of HttpClientTransport are not covered.
THEOREM DisconnectLeavesNothing == Spec => []QuietAfterDisconnect
  <1>1. HttpInv => HttpQuiet
    BY DEF HttpInv
  <1>2. StdioInv => StdioQuiet
    BY DEF StdioInv, WakeExists, JoinedOrSelf, StdioQuiet
  <1>3. TransportsInv => QuietAfterDisconnect
    BY <1>1, <1>2 DEF TransportsInv, QuietAfterDisconnect
  <1> QED
    BY <1>3, TransportsInvHolds, PTL

\* So it is when the client may choose between the transports.
THEOREM ChosenTransportDelivers == Spec => ImplementsTransport
<1>1. Init => Transport!Init
  BY DEF Init, StdioInit, Transport!Init
<1>2. TransportsInv /\ [Next]_transportsVars => [Transport!Next]_(Transport!transportVars)
  BY OneOfThemSteps, StdioStepRefines DEF TransportsInv
<1> QED
  BY <1>1, <1>2, TransportsInvHolds, PTL DEF Spec, ImplementsTransport, Transport!Spec
=============================================================================
