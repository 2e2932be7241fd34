------------------------------ MODULE Session ------------------------------
(***************************************************************************)
(* The request engine of src/core/session.cpp with the pending table of    *)
(* src/core/router.cpp: user threads that send and cancel requests, the    *)
(* transport threads that deliver responses and progress, the timer        *)
(* thread, the thread that reports the connection closed, and the          *)
(* destructor.                                                             *)
(*                                                                         *)
(* One action is one critical section (timer_mutex_ or the router's        *)
(* mutex_), one call of the transport, or one callback run outside all     *)
(* locks.  A callback taken from pending_ is a local of the thread that    *)
(* took it: held[t].  Time is abstracted to which deadlines have passed.   *)
(***************************************************************************)
EXTENDS Naturals, FiniteSets

CONSTANTS
    MaxRequests,  \* bound on the number of send_request calls
    Tokens,       \* progress tokens
    NoToken,      \* options.progress_token is not set
    NoRequest,    \* no progress callback is registered
    Options,      \* the RequestOptions callers use
    Readers,      \* transport threads that deliver messages
    Cancellers,   \* user threads that call cancel_request
    Timer,        \* timer_thread_
    Closer,       \* the thread on which the transport calls handle_close
    MaxProgress   \* bound on the progress notifications of the peer

Ids == 1..MaxRequests

Threads == Readers \cup Cancellers \cup {Timer, Closer}

ASSUME ConstantAssumption ==
    /\ MaxRequests \in Nat
    /\ MaxProgress \in Nat
    /\ NoToken \notin Tokens
    /\ NoRequest \notin Ids
    /\ Options \subseteq [timed : BOOLEAN, token : Tokens \cup {NoToken},
                          onProgress : BOOLEAN]
    /\ Timer # Closer
    /\ Readers \cap Cancellers = {}
    /\ {Timer, Closer} \cap (Readers \cup Cancellers) = {}

VARIABLES
    nextId,       \* next_request_id_
    opts,         \* the options each request was sent with
    sender,       \* where send_request is for each id
    pending,      \* keys of MessageRouter::pending_
    held,         \* callbacks a thread took out of pending_ and has not run
    calls,        \* how often the callback of an id has run
    deadlines,    \* keys of deadlines_
    due,          \* the deadlines whose time has come
    progressCb,   \* progress_callbacks_: token -> the request that set it
    pc,           \* where each thread is
    arg,          \* the request a reader or canceller works on
    expired,      \* the timer thread's local vector of expired ids
    stopTimer,    \* stop_timer_
    connected,    \* the transport accepts messages for the peer
    localClose,   \* the transport calls the close handler from its disconnect
    sent,         \* requests handed to the connected transport
    userCancels,  \* per id, notifications/cancelled sent by cancel_request
    timerCancels, \* per id, notifications/cancelled sent by the timer thread
    owner,        \* life of the Session object
    progressLeft  \* progress notifications the peer may still send

sendVars == <<nextId, opts, sender>>
routerVars == <<pending, held, calls>>
timerVars == <<deadlines, due, progressCb>>
cancelVars == <<userCancels, timerCancels>>
envVars == <<connected, localClose, sent, owner, progressLeft, stopTimer>>

vars == <<nextId, opts, sender, pending, held, calls, deadlines, due,
          progressCb, pc, arg, expired, stopTimer, connected, sent,
          userCancels, timerCancels, owner, progressLeft, localClose>>

NoOptions == [timed |-> FALSE, token |-> NoToken, onProgress |-> FALSE]

Init ==
    /\ nextId = 1
    /\ opts = [r \in Ids |-> NoOptions]
    /\ sender = [r \in Ids |-> "idle"]
    /\ pending = {}
    /\ held = [t \in Threads |-> {}]
    /\ calls = [r \in Ids |-> 0]
    /\ deadlines = {}
    /\ due = {}
    /\ progressCb = [k \in Tokens |-> NoRequest]
    /\ pc = [t \in Threads |-> IF t = Timer THEN "top" ELSE "idle"]
    /\ arg = [t \in Threads |-> NoRequest]
    /\ expired = {}
    /\ stopTimer = FALSE
    /\ connected = TRUE
    /\ sent = {}
    /\ userCancels = [r \in Ids |-> 0]
    /\ timerCancels = [r \in Ids |-> 0]
    /\ localClose \in BOOLEAN
    /\ owner = "alive"
    /\ progressLeft = MaxProgress

-----------------------------------------------------------------------------
(* Helpers: the router's pending table and the timer's tables.             *)

\* timer_cv_.notify_all: only the untimed wait needs it to return.
TimerNotified(threadPc) ==
    IF threadPc[Timer] = "wait" THEN [threadPc EXCEPT ![Timer] = "top"]
                                ELSE threadPc

\* Mutant: the callback is copied, not moved, out of pending_.
TakePendingCopies(t, r) ==
    /\ held' = [held EXCEPT ![t] = @ \cup ({r} \cap pending)]
    /\ UNCHANGED <<pending, calls>>

\* MessageRouter::take_pending: the callback moves to a local of thread t.
TakePending(t, r) ==
    /\ pending' = pending \ {r}
    /\ held' = [held EXCEPT ![t] = @ \cup ({r} \cap pending)]
    /\ UNCHANGED calls

\* The progress tokens of the tracked requests in S.
TokensOf(S) == {opts[r].token : r \in S} \ {NoToken}

\* Mutant: the progress callbacks stay registered.
EraseCallbacksForgotten(S) == S \subseteq Ids /\ UNCHANGED progressCb

\* The progress callbacks of the tracked requests in S are erased.
EraseCallbacks(S) ==
    progressCb' = [k \in Tokens |->
                     IF k \in TokensOf(S) THEN NoRequest ELSE progressCb[k]]

\* Session::clear_tracking
ClearTracking(r) ==
    /\ EraseCallbacks(deadlines \cap {r})
    /\ deadlines' = deadlines \ {r}
    /\ due' = due \ {r}

-----------------------------------------------------------------------------
(* send_request                                                            *)

\* The id is drawn and the callback registered.
SendRequest(r, o) ==
    /\ owner = "alive"
    /\ r = nextId
    /\ nextId' = nextId + 1
    /\ opts' = [opts EXCEPT ![r] = o]
    /\ pending' = pending \cup {r}
    /\ sender' = [sender EXCEPT ![r] = "track"]
    /\ UNCHANGED <<held, calls, timerVars, pc, arg, expired, cancelVars,
                   envVars>>

\* The deadline and the progress callback are stored under timer_mutex_.
TrackRequest(r) ==
    /\ sender[r] = "track"
    /\ sender' = [sender EXCEPT ![r] = "notify"]
    /\ deadlines' = IF opts[r].timed THEN deadlines \cup {r} ELSE deadlines
    /\ progressCb' = IF opts[r].token # NoToken /\ opts[r].onProgress
                     THEN [progressCb EXCEPT ![opts[r].token] = r]
                     ELSE progressCb
    /\ UNCHANGED <<nextId, opts, routerVars, due, pc, arg, expired,
                   cancelVars, envVars>>

NotifyTimer(r) ==
    /\ sender[r] = "notify"
    /\ sender' = [sender EXCEPT ![r] = "send"]
    /\ pc' = TimerNotified(pc)
    /\ UNCHANGED <<nextId, opts, routerVars, timerVars, arg, expired,
                   cancelVars, envVars>>

\* The transport's send; a send that fails is only reported as an error.
TransmitRequest(r) ==
    /\ sender[r] = "send"
    /\ sender' = [sender EXCEPT ![r] = "returned"]
    /\ sent' = IF connected THEN sent \cup {r} ELSE sent
    /\ UNCHANGED <<nextId, opts, routerVars, timerVars, pc, arg, expired,
                   cancelVars, connected, localClose, owner, progressLeft,
                   stopTimer>>

-----------------------------------------------------------------------------
(* cancel_request                                                          *)

CancelRequest(c, r) ==
    /\ owner = "alive"
    /\ pc[c] = "idle"
    /\ sender[r] = "returned"
    /\ arg' = [arg EXCEPT ![c] = r]
    /\ ClearTracking(r)
    /\ pc' = TimerNotified([pc EXCEPT ![c] = "take"])
    /\ UNCHANGED <<sendVars, routerVars, expired, cancelVars, envVars>>

CancelTake(c) ==
    /\ pc[c] = "take"
    /\ TakePending(c, arg[c])
    /\ pc' = [pc EXCEPT ![c] = IF arg[c] \in pending THEN "send" ELSE "idle"]
    /\ arg' = [arg EXCEPT ![c] = NoRequest]
    /\ UNCHANGED <<sendVars, timerVars, expired, cancelVars, envVars>>

CancelSend(c) ==
    /\ pc[c] = "send"
    /\ userCancels' = [r \in Ids |-> IF r \in held[c] THEN userCancels[r] + 1
                                                      ELSE userCancels[r]]
    /\ pc' = [pc EXCEPT ![c] = "callback"]
    /\ UNCHANGED <<sendVars, routerVars, timerVars, arg, expired,
                   timerCancels, envVars>>

-----------------------------------------------------------------------------
(* handle_message: responses and progress                                  *)

\* Mutant: the response is dispatched without clear_tracking.
HandleResponseUncleared(d, r) ==
    /\ owner = "alive"
    /\ pc[d] = "idle"
    /\ r \in sent
    /\ arg' = [arg EXCEPT ![d] = r]
    /\ pc' = [pc EXCEPT ![d] = "take"]
    /\ UNCHANGED <<sendVars, routerVars, timerVars, expired, cancelVars, envVars>>

\* The peer answered a request it was sent, perhaps not for the first time,
\* and the reader enters handle_message, which clears the tracking first.  A
\* message read before a disconnect may still be delivered after it.
HandleResponse(d, r) ==
    /\ owner = "alive"
    /\ pc[d] = "idle"
    /\ r \in sent
    /\ arg' = [arg EXCEPT ![d] = r]
    /\ ClearTracking(r)
    /\ pc' = TimerNotified([pc EXCEPT ![d] = "take"])
    /\ UNCHANGED <<sendVars, routerVars, expired, cancelVars, envVars>>

\* MessageRouter::dispatch of the response.
DispatchResponse(d) ==
    /\ pc[d] = "take"
    /\ TakePending(d, arg[d])
    /\ pc' = [pc EXCEPT ![d] = IF arg[d] \in pending THEN "callback" ELSE "idle"]
    /\ arg' = [arg EXCEPT ![d] = NoRequest]
    /\ UNCHANGED <<sendVars, timerVars, expired, cancelVars, envVars>>

\* handle_progress: every deadline that carries the token starts over.  The
\* progress callback is user code run outside the lock.
HandleProgress(d, k) ==
    /\ owner = "alive"
    /\ pc[d] = "idle"
    /\ progressLeft > 0
    /\ \E r \in sent : opts[r].token = k
    /\ progressLeft' = progressLeft - 1
    /\ due' = {r \in due : opts[r].token # k}
    /\ pc' = TimerNotified([pc EXCEPT ![d] = "idle"])
    /\ UNCHANGED <<sendVars, routerVars, deadlines, progressCb, arg, expired,
                   cancelVars, connected, localClose, sent, owner, stopTimer>>

\* The callback runs on the thread that took it, outside every lock.
RunCallback(t, r) ==
    /\ pc[t] = "callback"
    /\ r \in held[t]
    /\ held' = [held EXCEPT ![t] = @ \ {r}]
    /\ calls' = [calls EXCEPT ![r] = @ + 1]
    /\ pc' = [pc EXCEPT ![t] = CASE t = Closer -> "callback"
                                 [] t = Timer  -> "expired"
                                 [] OTHER      -> "idle"]
    /\ UNCHANGED <<sendVars, pending, timerVars, arg, expired, cancelVars,
                   envVars>>

-----------------------------------------------------------------------------
(* timer_loop                                                              *)

\* Time reaches the deadline of r.
ClockReaches(r) ==
    /\ r \in deadlines \ due
    /\ due' = due \cup {r}
    /\ UNCHANGED <<sendVars, routerVars, deadlines, progressCb, pc, arg,
                   expired, cancelVars, envVars>>

\* The head of the loop, with the lock held until the wait.
TimerTop ==
    /\ pc[Timer] = "top"
    /\ pc' = [pc EXCEPT ![Timer] = CASE stopTimer      -> "done"
                                     [] ~stopTimer /\ deadlines = {} -> "wait"
                                     [] OTHER          -> "waitUntil"]
    /\ UNCHANGED <<sendVars, routerVars, timerVars, arg, expired,
                   cancelVars, envVars>>

\* The untimed wait may also return spuriously.
TimerSpuriousWake ==
    /\ pc[Timer] = "wait"
    /\ pc' = [pc EXCEPT ![Timer] = "top"]
    /\ UNCHANGED <<sendVars, routerVars, timerVars, arg, expired,
                   cancelVars, envVars>>

\* Mutant: expired entries are collected but not erased from deadlines_.
TimerExpireKeepsEntry ==
    /\ pc[Timer] = "waitUntil"
    /\ expired' = due
    /\ due' = {}
    /\ EraseCallbacks(due)
    /\ pc' = [pc EXCEPT ![Timer] = IF stopTimer THEN "done" ELSE "expired"]
    /\ UNCHANGED <<deadlines, sendVars, routerVars, arg, cancelVars, envVars>>

\* wait_until returned (time, notification or spuriously) with the lock.
TimerExpire ==
    /\ pc[Timer] = "waitUntil"
    /\ IF stopTimer
       THEN /\ pc' = [pc EXCEPT ![Timer] = "done"]
            /\ UNCHANGED <<timerVars, expired>>
       ELSE /\ expired' = due
            /\ deadlines' = deadlines \ due
            /\ due' = {}
            /\ EraseCallbacks(due)
            /\ pc' = [pc EXCEPT ![Timer] = "expired"]
    /\ UNCHANGED <<sendVars, routerVars, arg, cancelVars, envVars>>

\* The next expired request: the peer is told first.
TimerCancel(r) ==
    /\ pc[Timer] = "expired"
    /\ r \in expired
    /\ expired' = expired \ {r}
    /\ timerCancels' = [timerCancels EXCEPT ![r] = @ + 1]
    /\ arg' = [arg EXCEPT ![Timer] = r]
    /\ pc' = [pc EXCEPT ![Timer] = "fail"]
    /\ UNCHANGED <<sendVars, routerVars, timerVars, userCancels, envVars>>

\* MessageRouter::fail_pending
TimerFail ==
    /\ pc[Timer] = "fail"
    /\ TakePending(Timer, arg[Timer])
    /\ pc' = [pc EXCEPT ![Timer] = IF arg[Timer] \in pending
                                   THEN "callback" ELSE "expired"]
    /\ arg' = [arg EXCEPT ![Timer] = NoRequest]
    /\ UNCHANGED <<sendVars, timerVars, expired, cancelVars, envVars>>

TimerNextRound ==
    /\ pc[Timer] = "expired"
    /\ expired = {}
    /\ pc' = [pc EXCEPT ![Timer] = "top"]
    /\ UNCHANGED <<sendVars, routerVars, timerVars, arg, expired,
                   cancelVars, envVars>>

-----------------------------------------------------------------------------
(* handle_close and disconnect                                             *)

\* The transport reports that the peer is gone.  A line transport is dead
\* from then on; the HTTP client can still post after its stream gave up.  The
\* HTTP server transports report only their own disconnect.
PeerClose ==
    /\ connected /\ ~localClose
    /\ pc[Closer] = "idle"
    /\ pc' = [pc EXCEPT ![Closer] = "clear"]
    /\ connected' \in BOOLEAN
    /\ UNCHANGED <<sendVars, routerVars, timerVars, arg, expired,
                   cancelVars, localClose, sent, owner, progressLeft, stopTimer>>

CloseClear ==
    /\ pc[Closer] = "clear"
    /\ deadlines' = {}
    /\ due' = {}
    /\ progressCb' = [k \in Tokens |-> NoRequest]
    /\ pc' = [pc EXCEPT ![Closer] = "swap"]
    /\ UNCHANGED <<sendVars, routerVars, arg, expired, cancelVars, envVars>>

\* Mutant: the table is copied instead of swapped out.
CloseSwapCopies ==
    /\ pc[Closer] = "swap"
    /\ held' = [held EXCEPT ![Closer] = pending]
    /\ pc' = [pc EXCEPT ![Closer] = "callback"]
    /\ UNCHANGED <<sendVars, pending, calls, timerVars, arg, expired,
                   cancelVars, envVars>>

\* Mutant: the table is cleared and the callbacks are forgotten.
CloseSwapDrops ==
    /\ pc[Closer] = "swap"
    /\ pending' = {}
    /\ pc' = [pc EXCEPT ![Closer] = "callback"]
    /\ UNCHANGED <<sendVars, held, calls, timerVars, arg, expired,
                   cancelVars, envVars>>

\* MessageRouter::fail_all_pending: the table is swapped out under the lock,
\* the callbacks run after it.
CloseSwap ==
    /\ pc[Closer] = "swap"
    /\ held' = [held EXCEPT ![Closer] = pending]
    /\ pending' = {}
    /\ pc' = [pc EXCEPT ![Closer] = "callback"]
    /\ UNCHANGED <<sendVars, calls, timerVars, arg, expired, cancelVars, envVars>>

\* Mutant: the deadlines are cleared after the pending requests were failed.
CloseDoneClearsDeadlines ==
    /\ pc[Closer] = "callback"
    /\ held[Closer] = {}
    /\ deadlines' = {}
    /\ due' = {}
    /\ pc' = [pc EXCEPT ![Closer] = "done"]
    /\ UNCHANGED <<sendVars, routerVars, progressCb, arg, expired,
                   cancelVars, envVars>>

\* All callbacks ran; the user's close callback is the last thing.
CloseDone ==
    /\ pc[Closer] = "callback"
    /\ held[Closer] = {}
    /\ pc' = [pc EXCEPT ![Closer] = "done"]
    /\ UNCHANGED <<sendVars, routerVars, timerVars, arg, expired,
                   cancelVars, envVars>>

\* Transport::disconnect, from Session::disconnect or the destructor.
DisconnectTransport ==
    /\ connected' = FALSE
    /\ pc' = IF localClose /\ pc[Closer] = "idle"
             THEN [pc EXCEPT ![Closer] = "clear"] ELSE pc

Disconnect ==
    /\ owner = "alive"
    /\ connected
    /\ DisconnectTransport
    /\ UNCHANGED <<sendVars, routerVars, timerVars, arg, expired,
                   cancelVars, localClose, sent, owner, progressLeft, stopTimer>>

-----------------------------------------------------------------------------
(* The destructor; no user thread is inside the session any more.          *)

Destroy ==
    /\ owner = "alive"
    /\ \A r \in Ids : sender[r] \in {"idle", "returned"}
    /\ \A c \in Cancellers : pc[c] = "idle"
    /\ owner' = "disconnecting"
    /\ DisconnectTransport
    /\ UNCHANGED <<sendVars, routerVars, timerVars, arg, expired,
                   cancelVars, localClose, sent, progressLeft, stopTimer>>

\* disconnect returned: the transport's threads are joined.
StopTimer ==
    /\ owner = "disconnecting"
    /\ \A d \in Readers : pc[d] = "idle"
    /\ pc[Closer] \in {"idle", "done"}
    /\ owner' = "joining"
    /\ stopTimer' = TRUE
    /\ UNCHANGED <<sendVars, routerVars, timerVars, pc, arg, expired,
                   cancelVars, connected, localClose, sent, progressLeft>>

\* Mutant: stop_timer_ is set and nobody is woken.
NotifyStopSilent ==
    /\ owner = "joining"
    /\ owner' = "notified"
    /\ UNCHANGED <<sendVars, routerVars, timerVars, pc, arg, expired,
                   cancelVars, connected, localClose, sent, progressLeft,
                   stopTimer>>

NotifyStop ==
    /\ owner = "joining"
    /\ owner' = "notified"
    /\ pc' = TimerNotified(pc)
    /\ UNCHANGED <<sendVars, routerVars, timerVars, arg, expired,
                   cancelVars, connected, localClose, sent, progressLeft,
                   stopTimer>>

JoinTimer ==
    /\ owner = "notified"
    /\ pc[Timer] = "done"
    /\ owner' = "destroyed"
    /\ UNCHANGED <<sendVars, routerVars, timerVars, pc, arg, expired,
                   cancelVars, connected, localClose, sent, progressLeft,
                   stopTimer>>

-----------------------------------------------------------------------------

SenderStep(r) == TrackRequest(r) \/ NotifyTimer(r) \/ TransmitRequest(r)

ReaderStep(d) == DispatchResponse(d) \/ \E r \in Ids : RunCallback(d, r)

CancellerStep(c) ==
    CancelTake(c) \/ CancelSend(c) \/ \E r \in Ids : RunCallback(c, r)

TimerStep ==
    \/ TimerTop \/ TimerExpire \/ TimerFail \/ TimerNextRound
    \/ \E r \in Ids : TimerCancel(r) \/ RunCallback(Timer, r)

CloserStep ==
    \/ CloseClear \/ CloseSwap \/ CloseDone
    \/ \E r \in Ids : RunCallback(Closer, r)

OwnerStep == StopTimer \/ NotifyStop \/ JoinTimer

Environment ==
    \/ \E r \in Ids, o \in Options : SendRequest(r, o)
    \/ \E c \in Cancellers, r \in Ids : CancelRequest(c, r)
    \/ \E d \in Readers, r \in Ids : HandleResponse(d, r)
    \/ \E d \in Readers, k \in Tokens : HandleProgress(d, k)
    \/ PeerClose \/ Disconnect \/ Destroy \/ TimerSpuriousWake

Next ==
    \/ Environment
    \/ \E r \in Ids : SenderStep(r) \/ ClockReaches(r)
    \/ \E d \in Readers : ReaderStep(d)
    \/ \E c \in Cancellers : CancellerStep(c)
    \/ TimerStep \/ CloserStep \/ OwnerStep

Spec == Init /\ [][Next]_vars

\* Every started call goes on, every thread is scheduled, time passes.  The
\* peer, the users and spurious wakeups owe nothing.
Fairness ==
    /\ \A r \in Ids : WF_vars(SenderStep(r)) /\ WF_vars(ClockReaches(r))
    /\ \A d \in Readers : WF_vars(ReaderStep(d))
    /\ \A c \in Cancellers : WF_vars(CancellerStep(c))
    /\ WF_vars(TimerStep) /\ WF_vars(CloserStep) /\ WF_vars(OwnerStep)

FairSpec == Spec /\ Fairness

-----------------------------------------------------------------------------
(* Properties                                                              *)

\* Every variable of the session holds a value the code can give it.
TypeOK ==
    /\ nextId \in 1..(MaxRequests + 1)
    /\ opts \in [Ids -> Options \cup {NoOptions}]
    /\ sender \in [Ids -> {"idle", "track", "notify", "send", "returned"}]
    /\ pending \subseteq Ids
    /\ held \in [Threads -> SUBSET Ids]
    /\ calls \in [Ids -> Nat]
    /\ deadlines \subseteq Ids
    /\ due \subseteq deadlines
    /\ progressCb \in [Tokens -> Ids \cup {NoRequest}]
    /\ pc \in [Threads -> {"idle", "top", "wait", "waitUntil", "expired",
                           "fail", "clear", "swap", "take", "send",
                           "callback", "done"}]
    /\ arg \in [Threads -> Ids \cup {NoRequest}]
    /\ expired \subseteq Ids
    /\ stopTimer \in BOOLEAN
    /\ connected \in BOOLEAN
    /\ sent \subseteq Ids
    /\ userCancels \in [Ids -> Nat] /\ timerCancels \in [Ids -> Nat]
    /\ localClose \in BOOLEAN
    /\ owner \in {"alive", "disconnecting", "joining", "notified", "destroyed"}
    /\ progressLeft \in 0..MaxProgress

\* The ids send_request has handed out.
Issued == 1..(nextId - 1)

\* The callback of an issued request is in exactly one place: in pending_, in
\* the hands of exactly one thread, or run exactly once.  Response, timeout,
\* cancellation and close race for it, and none of them loses it or runs it
\* a second time (send_request: "exactly once").
OneOwner ==
    \A r \in Issued :
        /\ calls[r] \in {0, 1}
        /\ r \in pending => /\ calls[r] = 0
                            /\ \A t \in Threads : r \notin held[t]
        /\ \A t \in Threads : r \in held[t] =>
               /\ calls[r] = 0
               /\ \A u \in Threads : r \in held[u] => t = u
        /\ calls[r] = 0 => r \in pending \/ \E t \in Threads : r \in held[t]

\* handle_close has not yet cleared the timer's tables.
NotClosed == pc[Closer] \in {"idle", "clear"}

\* Until the connection closes, a deadline is only kept for a request that is
\* still pending: response, cancellation and expiry all drop the deadline
\* before they take the callback, and send_request stores it before the
\* request can be answered.
DeadlineIsPending == NotClosed => deadlines \subseteq pending

\* The request r is in the hands of a cancel_request call.
Cancelling(r) ==
    \E c \in Cancellers : \/ pc[c] = "take" /\ arg[c] = r
                          \/ r \in held[c]

\* The peer is told at most once by cancel_request and at most once by the
\* timer thread that a request is cancelled.  It may be told by both, as the
\* timer keeps its list of expired ids after the unlock, but only of a request
\* that had expired before cancel_request began: from then on its clock is
\* stopped for good, and a request without a timeout is never expired.
CancelledOnceByEach ==
    \A r \in Ids :
        /\ userCancels[r] \in {0, 1} /\ timerCancels[r] \in {0, 1}
        /\ timerCancels[r] # 0 => opts[r].timed
        /\ userCancels[r] # 0 \/ timerCancels[r] # 0 \/ Cancelling(r)
               => r \notin deadlines

\* Until the connection closes, the progress callback of a request with a
\* timeout is only kept while that request is pending, also when requests
\* share a token.
ProgressCallbackIsPending ==
    NotClosed => \A k \in Tokens :
        progressCb[k] # NoRequest /\ opts[progressCb[k]].timed
            => progressCb[k] \in pending

\* The session implements the contract of send_request.
Contract == INSTANCE RequestContract WITH issued <- Issued, delivered <- calls
ImplementsContract == Contract!Spec

\* A request with a timeout is completed, whatever response, close, cancel
\* and expiry do to its deadline, unless the session is being destroyed.
TimedRequestCompletes ==
    \A r \in Ids : (r \in pending /\ opts[r].timed)
                      ~> (calls[r] > 0 \/ owner # "alive")

\* A request that is pending when the connection closes is completed.
CloseCompletesPending ==
    \A r \in Ids : (pc[Closer] = "clear" /\ r \in pending) ~> calls[r] > 0

\* The destructor returns: the timer thread it joins always ends.
DestructorReturns == (owner = "disconnecting") ~> (owner = "destroyed")

\* Once the connection is closed and handle_close is done, no request that
\* send_request accepted is left waiting for an answer, a timeout or a close
\* that cannot come any more (send_request: "the result or error exactly once
\* (response, timeout, cancellation, or connection close)").
NoOrphanAfterClose ==
    pc[Closer] = "done" /\ ~connected =>
        \A r \in pending : sender[r] = "returned" => opts[r].timed

-----------------------------------------------------------------------------
(* The strengthening that makes the safety properties inductive.           *)

\* An id that was not handed out is known nowhere.
FreshIds ==
    \A r \in Ids \ Issued :
        /\ r \notin pending
        /\ calls[r] = 0
        /\ \A t \in Threads : r \notin held[t]
        /\ sender[r] = "idle"

\* A thread holds callbacks only while it is about to run them, and only the
\* closing thread holds more than one.
HeldBriefly ==
    \A t \in Threads :
        /\ held[t] # {} => pc[t] \in {"send", "callback"}
        /\ t # Closer => \A r, q \in held[t] : r = q

\* The clock of r was set, if it ever will be, and is stopped for good.
Untracked(r) ==
    r \notin deadlines /\ sender[r] \in {"notify", "send", "returned"}

\* Whoever completes a request does so after its clock has stopped.
StoppedBeforeTaken ==
    /\ \A r \in sent : sender[r] = "returned"
    /\ \A r \in deadlines : sender[r] \in {"notify", "send", "returned"}
    /\ \A r \in expired : Untracked(r)
    /\ \A t \in Threads \ {Closer} : \A r \in held[t] : Untracked(r)
    /\ \A t \in Threads : pc[t] \in {"take", "fail"} =>
                             arg[t] \in Ids /\ Untracked(arg[t])

\* The timer tells the peer about a request that had a clock, once, after it
\* expired; cancel_request does so once, after it took the callback.  Both do
\* it after the clock has stopped.
ToldOnce ==
    /\ \A r \in Ids : userCancels[r] \in {0, 1} /\ timerCancels[r] \in {0, 1}
    /\ \A r \in Ids : userCancels[r] # 0 \/ timerCancels[r] # 0
                         => Untracked(r)
    /\ \A r \in deadlines \cup expired : opts[r].timed
    /\ \A r \in Ids : timerCancels[r] # 0 => opts[r].timed /\ r \notin expired
    /\ \A r \in Ids : userCancels[r] # 0 => r \notin pending
    /\ \A c \in Cancellers : pc[c] = "send" =>
           \A r \in held[c] : userCancels[r] = 0

\* Until the close, a request is pending from the moment it is registered at
\* least until its clock is set, and for as long as the clock runs.
PendingWhileTracked ==
    NotClosed => /\ deadlines \subseteq pending
                 /\ \A r \in Ids : sender[r] = "track" => r \in pending

\* The progress callback of a request is filed under its token and, for a
\* request with a timeout, goes when its deadline goes.
CallbackTracked ==
    \A k \in Tokens : progressCb[k] # NoRequest =>
        /\ progressCb[k] \in Issued
        /\ opts[progressCb[k]].token = k
        /\ opts[progressCb[k]].timed => progressCb[k] \in deadlines

Inv ==
    /\ TypeOK
    /\ FreshIds
    /\ OneOwner
    /\ HeldBriefly
    /\ StoppedBeforeTaken
    /\ ToldOnce
    /\ PendingWhileTracked
    /\ CallbackTracked
=============================================================================
