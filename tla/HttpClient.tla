----------------------------- MODULE HttpClient -----------------------------
(***************************************************************************)
(* HttpClientTransport: POSTs made by the threads that send, the thread    *)
(* that keeps the event stream open (sse_loop), and disconnect, which the  *)
(* application may call on a thread of its own or inside a callback on the *)
(* event stream's thread.  The server is what HttpServer shows to a        *)
(* client: it opens a session for an initialize without an id, answers 404 *)
(* to an id it has expired, and ends the streams of that session.  It can  *)
(* be unreachable, so that connections are refused and open ones break, or *)
(* fall silent: connections stay open and nothing comes back.              *)
(*                                                                         *)
(* Event ids are reduced to the session that assigned them; their order    *)
(* is the subject of SseChannel.                                           *)
(***************************************************************************)
EXTENDS Integers, FiniteSets

CONSTANTS
    Posters,      \* threads that send
    MaxPosts,     \* bound on their POSTs
    MaxSessions,  \* bound on the sessions the server opens
    MaxOutages,   \* bound on how often the server goes away
    MaxAttempts   \* max_reconnect_attempts, 0: retry forever

ASSUME HttpClientAssumption ==
    {MaxPosts, MaxSessions, MaxOutages, MaxAttempts} \subseteq Nat

Sessions == 1..MaxSessions
None == 0

VARIABLES
    httpRunning,  \* running_
    wake,         \* wake_: "none", "quiet", "signalled" or "gone"
    sessionId,    \* session_id_
    lastFrom,     \* the session that assigned last_event_id_
    failures,     \* sse_loop's local
    httpCloses,   \* calls of the close handler (close_emitted_)
    sse,          \* the event stream's thread: at, and the GET's headers
    httpJoinable, \* sse_thread_.joinable()
    post,         \* each sender's POST: at, kind, session id sent, answer
    posts,        \* POSTs so far
    app,          \* the application's disconnect and destructor
    self,         \* disconnect was called on the event stream's thread
    net,          \* the server is "up", "down" or "silent"
    live,         \* sessions the server knows
    opened,       \* sessions it has opened so far
    outages

httpServerVars == <<net, live, opened, outages>>
httpVars == <<httpRunning, wake, sessionId, lastFrom, failures, httpCloses, sse, httpJoinable, post, posts, app,
          self, net, live, opened, outages>>

Idle == [at |-> "idle", kind |-> "req", sid |-> None, status |-> None, new |-> None]
Thread(at, sid) == [at |-> at, sid |-> sid]

HttpInit ==
    /\ httpRunning = FALSE
    /\ wake = "none"
    /\ sessionId = None
    /\ lastFrom = None
    /\ failures = 0
    /\ httpCloses = 0
    /\ sse = Thread("none", None)
    /\ httpJoinable = FALSE
    /\ post = [p \in Posters |-> Idle]
    /\ posts = 0
    /\ app = "new"
    /\ self = FALSE
    /\ net = "up"
    /\ live = {}
    /\ opened = 0
    /\ outages = 0

-----------------------------------------------------------------------------
(* The server                                                              *)

\* The idle sweep, or a restart, forgets a session; its stream ends.
Expire(s) ==
    /\ s \in live
    /\ live' = live \ {s}
    /\ UNCHANGED <<httpRunning, wake, sessionId, lastFrom, failures, httpCloses, sse, httpJoinable, post, posts,
                   app, self, net, opened, outages>>

\* The server goes away or falls silent, a silent one is gone for good or comes
\* back, and one that was away comes back.
Outage ==
    /\ net' \in {"up", "down", "silent"} \ {net}
    /\ net = "down" => net' = "up"
    /\ IF net = "up" THEN outages < MaxOutages /\ outages' = outages + 1 ELSE UNCHANGED outages
    /\ UNCHANGED <<httpRunning, wake, sessionId, lastFrom, failures, httpCloses, sse, httpJoinable, post, posts,
                   app, self, live, opened>>

\* The POST once its answer is there: a status, and the id of a new session.
Answered(r, status, new) ==
    [at |-> "head", kind |-> r.kind, sid |-> r.sid, status |-> status, new |-> new]

\* HttpSessionServer::handle_request for a POST; 200 stands for 202 too.
Answer(p) ==
    LET r == post[p] IN
    /\ r.at = "sent" /\ net = "up"
    /\ \/ /\ r.sid = None /\ r.kind = "init" /\ opened < MaxSessions
          /\ opened' = opened + 1
          /\ live' = live \cup {opened + 1}
          /\ post' = [post EXCEPT ![p] = Answered(r, 200, opened + 1)]
       \/ /\ r.sid = None /\ r.kind = "req"
          /\ post' = [post EXCEPT ![p] = Answered(r, 400, None)]
          /\ UNCHANGED <<live, opened>>
       \/ /\ r.sid # None
          /\ post' = [post EXCEPT ![p] = Answered(r, IF r.sid \in live THEN 200 ELSE 404, None)]
          /\ UNCHANGED <<live, opened>>
    /\ UNCHANGED <<httpRunning, wake, sessionId, lastFrom, failures, httpCloses, sse, httpJoinable, posts, app,
                   self, net, outages>>

-----------------------------------------------------------------------------
(* POSTs                                                                   *)

\* The transport has not been destroyed.
Usable == app \notin {"destroyed", "terminated"}

Initializing == {p \in Posters : post[p].at # "idle" /\ post[p].kind = "init"}

\* Mutant: two sessions initialize over the transport at the same time.
PostOverlapping(p) ==
    /\ post[p].at = "idle" /\ posts < MaxPosts /\ Usable /\ wake # "none" /\ net # "down"
    /\ posts' = posts + 1
    /\ \E kind \in {"init", "req"} :
          post' = [post EXCEPT ![p] = [Idle EXCEPT !.at = "sent", !.kind = kind, !.sid = sessionId]]
    /\ UNCHANGED <<httpRunning, wake, sessionId, lastFrom, failures, httpCloses, sse, httpJoinable, app, self,
                   httpServerVars>>

\* Connect, read the session id for the header under the lock, and write.  A
\* POST that cannot connect or write is reported as an error.  A session makes
\* one initialize at a time and waits for it.
Post(p) ==
    /\ post[p].at = "idle" /\ posts < MaxPosts /\ Usable /\ wake # "none"
    /\ posts' = posts + 1
    /\ \/ /\ net # "down"
          /\ \E kind \in IF Initializing = {} THEN {"init", "req"} ELSE {"req"} :
               post' = [post EXCEPT ![p] = [Idle EXCEPT !.at = "sent", !.kind = kind, !.sid = sessionId]]
       \/ /\ net # "up"
          /\ UNCHANGED post
    /\ UNCHANGED <<httpRunning, wake, sessionId, lastFrom, failures, httpCloses, sse, httpJoinable, app, self,
                   httpServerVars>>

\* The answer does not come: 30 s, a broken connection, or the wake event.
PostGivesUp(p) ==
    /\ post[p].at = "sent"
    /\ post' = [post EXCEPT ![p] = Idle]
    /\ UNCHANGED <<httpRunning, wake, sessionId, lastFrom, failures, httpCloses, sse, httpJoinable, posts, app,
                   self, httpServerVars>>

\* The head was read while running_ was set; otherwise the answer is dropped.
PostRead(p) ==
    /\ post[p].at = "head"
    /\ post' = [post EXCEPT ![p] = IF httpRunning THEN [@ EXCEPT !.at = "capture"] ELSE Idle]
    /\ UNCHANGED <<httpRunning, wake, sessionId, lastFrom, failures, httpCloses, sse, httpJoinable, posts, app,
                   self, httpServerVars>>

\* The body of a 200 is read next (a 202 is one without a body), anything else
\* is an error.
AfterHead(r) == IF r.status = 200 THEN [Idle EXCEPT !.at = "body", !.kind = r.kind]
                ELSE [r EXCEPT !.at = "error"]

\* A session id in the answer's head is captured.
PostCapture(p) ==
    /\ post[p].at = "capture"
    /\ sessionId' = IF post[p].new # None THEN post[p].new ELSE sessionId
    /\ post' = [post EXCEPT ![p] = AfterHead(@)]
    /\ UNCHANGED <<httpRunning, wake, lastFrom, failures, httpCloses, sse, httpJoinable, posts, app, self,
                   httpServerVars>>

\* The body is read to its end, by length, chunks, events or until the
\* connection closes, and its frames are delivered; or the connection breaks or
\* is given up.  Either way the POST is over.
PostBody(p) ==
    /\ post[p].at = "body"
    /\ post' = [post EXCEPT ![p] = Idle]
    /\ UNCHANGED <<httpRunning, wake, sessionId, lastFrom, failures, httpCloses, sse, httpJoinable, posts, app,
                   self, httpServerVars>>

\* 404 forgets the session id in force now, whichever was sent.
PostError(p) ==
    /\ post[p].at = "error"
    /\ sessionId' = IF post[p].status = 404 THEN None ELSE sessionId
    /\ post' = [post EXCEPT ![p] = Idle]
    /\ UNCHANGED <<httpRunning, wake, lastFrom, failures, httpCloses, sse, httpJoinable, posts, app, self,
                   httpServerVars>>

-----------------------------------------------------------------------------
(* The event stream: sse_loop and run_sse_once                             *)

\* connect: the wake event, and the thread if open_sse_stream asks for one.
HttpConnect ==
    /\ app = "new"
    /\ app' = "connected"
    /\ httpRunning' = TRUE
    /\ wake' = "quiet"
    /\ httpJoinable' \in BOOLEAN
    /\ sse' = IF httpJoinable' THEN Thread("loop", None) ELSE sse
    /\ UNCHANGED <<sessionId, lastFrom, failures, httpCloses, post, posts, self, httpServerVars>>

\* The GET, with the session id and the last event id of this moment.
SseGet ==
    /\ sse.at = "loop" /\ httpRunning
    /\ \/ net # "down" /\ sse' = Thread("get", sessionId)
       \/ net # "up" /\ sse' = Thread("failed", None)
    /\ UNCHANGED <<httpRunning, wake, sessionId, lastFrom, failures, httpCloses, httpJoinable, post, posts, app,
                   self, httpServerVars>>

\* The server answers: a stream for a session it knows, else 400 or 404.  The
\* initial event gives an id of this session, so the attempt has delivered.
SseAttached ==
    /\ sse.at = "get" /\ net = "up" /\ sse.sid \in live /\ httpRunning
    /\ lastFrom' = sse.sid
    /\ sse' = Thread("stream", sse.sid)
    /\ UNCHANGED <<httpRunning, wake, sessionId, failures, httpCloses, httpJoinable, post, posts, app, self,
                   httpServerVars>>

\* Refused, no answer within 30 s, or running_ is cleared: by the answer or the
\* wake event.
SseRefused ==
    /\ sse.at = "get"
    /\ sse.sid \notin live \/ net # "up" \/ ~httpRunning
    /\ sse' = Thread("failed", None)
    /\ UNCHANGED <<httpRunning, wake, sessionId, lastFrom, failures, httpCloses, httpJoinable, post, posts, app,
                   self, httpServerVars>>

\* An event comes; its id is of this session.  Once running_ is cleared it ends
\* the stream instead.
SseEvent ==
    /\ sse.at = "stream" /\ net = "up" /\ sse.sid \in live
    /\ IF httpRunning
       THEN /\ lastFrom' = sse.sid
            /\ sse' = [sse EXCEPT !.at = "deliver"]
            /\ UNCHANGED failures
       ELSE /\ failures' = 0
            /\ sse' = Thread("wait", None)
            /\ UNCHANGED lastFrom
    /\ UNCHANGED <<httpRunning, wake, sessionId, httpCloses, httpJoinable, post, posts, app, self,
                   httpServerVars>>

\* deliver_frame: the message handlers run on this thread.
SseDelivered ==
    /\ sse.at = "deliver"
    /\ sse' = [sse EXCEPT !.at = "stream"]
    /\ UNCHANGED <<httpRunning, wake, sessionId, lastFrom, failures, httpCloses, httpJoinable, post, posts, app,
                   self, httpServerVars>>

\* A silent server loses the connection: neither an end nor a reset will come.
SseLost ==
    /\ sse.at = "stream" /\ net = "silent"
    /\ sse' = [sse EXCEPT !.at = "lost"]
    /\ UNCHANGED <<httpRunning, wake, sessionId, lastFrom, failures, httpCloses, httpJoinable, post, posts, app,
                   self, httpServerVars>>

\* The server closes the stream, or its connection breaks.
ServerEnds == (sse.sid \notin live /\ net = "up") \/ net = "down"

\* Mutant: nothing ends the read of an open stream but the server.
SseEndedByServer ==
    /\ sse.at = "stream" /\ ServerEnds
    /\ failures' = 0
    /\ sse' = Thread("wait", None)
    /\ UNCHANGED <<httpRunning, wake, sessionId, lastFrom, httpCloses, httpJoinable, post, posts, app, self,
                   httpServerVars>>

\* The stream ends, or disconnect wakes the poll, which has no time-out: nothing
\* else ends one that is lost.
SseEnded ==
    /\ \/ sse.at = "stream" /\ ServerEnds
       \/ sse.at \in {"stream", "lost"} /\ wake = "signalled"
    /\ failures' = 0
    /\ sse' = Thread("wait", None)
    /\ UNCHANGED <<httpRunning, wake, sessionId, lastFrom, httpCloses, httpJoinable, post, posts, app, self,
                   httpServerVars>>

\* emit_close: close_emitted_.exchange(true)
EmitClose == httpCloses' = IF httpCloses = 0 THEN 1 ELSE httpCloses

\* Mutant: the failure counter never reaches its limit.
SseFailedUncounted ==
    /\ sse.at = "failed"
    /\ sse' = Thread("wait", None)
    /\ UNCHANGED <<httpRunning, wake, sessionId, lastFrom, failures, httpCloses, httpJoinable, post, posts, app,
                   self, httpServerVars>>

\* Without a session id a failure is not counted; otherwise the client gives
\* up after MaxAttempts failures and calls the close handler, once.
SseFailed ==
    /\ sse.at = "failed"
    /\ IF sessionId = None
       THEN sse' = Thread("wait", None) /\ UNCHANGED <<failures, httpCloses>>
       ELSE LET giveUp == MaxAttempts > 0 /\ failures + 1 >= MaxAttempts IN
            /\ failures' = IF failures < MaxAttempts THEN failures + 1 ELSE failures
            /\ sse' = Thread(IF giveUp THEN "closing" ELSE "wait", None)
            /\ IF giveUp THEN EmitClose ELSE UNCHANGED httpCloses
    /\ UNCHANGED <<httpRunning, wake, sessionId, lastFrom, httpJoinable, post, posts, app, self, httpServerVars>>

\* The retry delay, cut short by the wake event; or running_ is cleared.
SseWaited ==
    /\ sse.at \in {"wait", "closing"}
    /\ sse' = Thread(IF httpRunning /\ sse.at = "wait" THEN "loop" ELSE "done", None)
    /\ UNCHANGED <<httpRunning, wake, sessionId, lastFrom, failures, httpCloses, httpJoinable, post, posts, app,
                   self, httpServerVars>>

\* while (running_.load())
SseStopped ==
    /\ sse.at = "loop" /\ ~httpRunning
    /\ sse' = Thread("done", None)
    /\ UNCHANGED <<httpRunning, wake, sessionId, lastFrom, failures, httpCloses, httpJoinable, post, posts, app,
                   self, httpServerVars>>

-----------------------------------------------------------------------------
(* disconnect                                                              *)

\* running_.exchange(false), by the application, or inside a callback (the
\* message handler of a stream's event, or the close handler).
HttpDisconnect ==
    /\ app = "connected" /\ httpRunning
    /\ httpRunning' = FALSE
    /\ app' = "delete"
    /\ self' \in {FALSE} \cup {sse.at \in {"deliver", "closing"}}
    /\ UNCHANGED <<wake, sessionId, lastFrom, failures, httpCloses, sse, httpJoinable, post, posts, httpServerVars>>

\* send_session_delete: best effort, for the id of this moment.  A silent server
\* lets the connect time out, or takes the connection: the poll's 500 ms pass,
\* its result is not looked at, and the read blocks.
SendDelete ==
    /\ app = "delete"
    /\ app' \in IF sessionId # None /\ net = "silent" THEN {"signal", "awaitDelete"} ELSE {"signal"}
    /\ live' = IF net = "up" THEN live \ {sessionId} ELSE live
    /\ UNCHANGED <<httpRunning, wake, sessionId, lastFrom, failures, httpCloses, sse, httpJoinable, post, posts,
                   self, net, opened, outages>>

\* The read returns: an answer, the end or a reset.  (A session the DELETE ends
\* after all is one that expires.)
DeleteAnswered ==
    /\ app = "awaitDelete" /\ net # "silent"
    /\ app' = "signal"
    /\ UNCHANGED <<httpRunning, wake, sessionId, lastFrom, failures, httpCloses, sse, httpJoinable, post, posts,
                   self, httpServerVars>>

\* wake_->signal.
Signal ==
    /\ app = "signal"
    /\ app' = "join"
    /\ wake' = "signalled"
    /\ UNCHANGED <<httpRunning, sessionId, lastFrom, failures, httpCloses, sse, httpJoinable, post, posts, self,
                   httpServerVars>>

\* Mutant: the wake event is destroyed while the thread still polls it.
ResetWithoutJoin ==
    /\ app = "join"
    /\ app' = "disconnected"
    /\ wake' = "gone"
    /\ UNCHANGED <<httpRunning, sessionId, lastFrom, failures, httpCloses, sse, httpJoinable, post, posts, self,
                   httpServerVars>>

\* The thread is joined unless disconnect runs on it; wake_.reset.
Join ==
    /\ app = "join"
    /\ httpJoinable /\ ~self => sse.at = "done"
    /\ app' = "disconnected"
    /\ httpJoinable' = IF self THEN httpJoinable ELSE FALSE
    /\ wake' = "gone"
    /\ UNCHANGED <<httpRunning, sessionId, lastFrom, failures, httpCloses, sse, post, posts, self, httpServerVars>>

\* The destructor calls disconnect, which finds running_ cleared.  A thread
\* object that was not joined is destroyed joinable: std::terminate.
Destroy ==
    /\ app = "disconnected" /\ sse.at \in {"none", "done"}
    /\ \A p \in Posters : post[p].at = "idle"
    /\ app' = IF httpJoinable THEN "terminated" ELSE "destroyed"
    /\ UNCHANGED <<httpRunning, wake, sessionId, lastFrom, failures, httpCloses, sse, httpJoinable, post, posts,
                   self, httpServerVars>>

-----------------------------------------------------------------------------

\* On the event stream's thread disconnect runs to its end first.
SseStep ==
    /\ self => app = "disconnected"
    /\ \/ SseGet \/ SseAttached \/ SseRefused \/ SseEnded
       \/ SseDelivered \/ SseFailed \/ SseWaited \/ SseStopped

DisconnectStep == SendDelete \/ DeleteAnswered \/ Signal \/ Join

PostStep(p) == Answer(p) \/ PostGivesUp(p) \/ PostRead(p) \/ PostCapture(p)
               \/ PostBody(p) \/ PostError(p)

HttpNext ==
    \/ HttpConnect \/ HttpDisconnect \/ DisconnectStep \/ Destroy \/ SseStep
    \/ Outage \/ SseEvent \/ SseLost \/ \E s \in Sessions : Expire(s)
    \/ \E p \in Posters : Post(p) \/ PostStep(p)

HttpSpec == HttpInit /\ [][HttpNext]_httpVars

-----------------------------------------------------------------------------
(* Properties                                                              *)

\* Every variable holds a value the transport can give it.
HttpTypeOK ==
    /\ httpRunning \in BOOLEAN /\ httpJoinable \in BOOLEAN /\ self \in BOOLEAN
    /\ net \in {"up", "down", "silent"}
    /\ wake \in {"none", "quiet", "signalled", "gone"}
    /\ {sessionId, lastFrom} \subseteq Sessions \cup {None}
    /\ failures \in 0..MaxAttempts
    /\ httpCloses \in 0..1
    /\ sse \in [at : {"none", "loop", "get", "stream", "lost", "deliver", "failed", "wait", "closing", "done"},
                sid : Sessions \cup {None}]
    /\ post \in [Posters -> [at : {"idle", "sent", "head", "capture", "body", "error"}, kind : {"init", "req"},
                             sid : Sessions \cup {None}, status : {None, 200, 400, 404},
                             new : Sessions \cup {None}]]
    /\ app \in {"new", "connected", "delete", "awaitDelete", "signal", "join", "disconnected", "destroyed",
               "terminated"}
    /\ live \subseteq Sessions /\ opened \in 0..MaxSessions

\* When disconnect has returned on another thread, the stream's thread is gone
\* and joined and will not use the wake event, which no longer exists; and the
\* program is terminated by a thread object that was destroyed joinable only
\* where disconnect ran on that thread.  This is about the stream's thread: a
\* POST under way may still look at the wake event as disconnect resets it.
HttpQuiet ==
    /\ wake = "gone" /\ ~self => sse.at \in {"none", "done"} /\ ~httpJoinable
    /\ app = "terminated" => self

\* A step leaves the client with a session that is not older than the one it
\* had, or than the one of the last event, or with none.
SessionAdvances == sessionId' # None => sessionId' >= sessionId /\ sessionId' >= lastFrom

\* The session in use is the newest one the client was given: a POST or a 404
\* that was under way when the session changed does not bring an old one back.
NewestSessionWins == [][SessionAdvances]_httpVars

\* disconnect has begun; and it has returned, or waits in a read that has no
\* time-out for the answer of a server that is silent.
HttpDisconnecting == app \in {"delete", "awaitDelete", "signal", "join"}
HttpDisconnected == app = "disconnected" \/ (app = "awaitDelete" /\ net = "silent")

\* The server cannot be reached while the client has a session and a stream
\* that is not lost already; and the client has given up and reported the
\* close, or need not any more.  (Without a session id it tries forever.)
HttpPeerLost == net = "down" /\ sse.at \in {"stream", "deliver", "get"} /\ sessionId # None
HttpLossReported == net # "down" \/ httpCloses > 0 \/ ~httpRunning \/ sessionId = None
=============================================================================
