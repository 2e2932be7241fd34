--------------------------- MODULE SessionProofs ---------------------------
(***************************************************************************)
(* Proofs about Session for any number of requests, tokens, readers and    *)
(* cancelling threads.  The invariant Inv of Session is inductive: there   *)
(* is one lemma per action, with one step per conjunct of Inv.  The        *)
(* theorems at the end read the properties off Inv.                        *)
(***************************************************************************)
EXTENDS Session, TLAPS

USE ConstantAssumption DEF Ids, Threads

\* The initial state, before any thread has moved, satisfies the invariant.
LEMMA InitInv == Init => Inv
<1> SUFFICES ASSUME Init PROVE Inv OBVIOUS
<1>1. TypeOK
  <2>1. opts \in [Ids -> Options \cup {NoOptions}]
    BY DEF Init
  <2>2. pc \in [Threads -> {"idle", "top", "wait", "waitUntil", "expired",
                           "fail", "clear", "swap", "take", "send",
                           "callback", "done"}]
    BY DEF Init
  <2>3. /\ sender \in [Ids -> {"idle", "track", "notify", "send", "returned"}]
        /\ held \in [Threads -> SUBSET Ids]
        /\ calls \in [Ids -> Nat]
        /\ progressCb \in [Tokens -> Ids \cup {NoRequest}]
        /\ arg \in [Threads -> Ids \cup {NoRequest}]
        /\ userCancels \in [Ids -> Nat] /\ timerCancels \in [Ids -> Nat]
    BY DEF Init
  <2>4. nextId \in 1..(MaxRequests + 1) /\ progressLeft \in 0..MaxProgress
    BY DEF Init
  <2>5. /\ pending \subseteq Ids /\ deadlines \subseteq Ids
        /\ due \subseteq deadlines /\ expired \subseteq Ids
        /\ sent \subseteq Ids
    BY DEF Init
  <2>6. /\ stopTimer \in BOOLEAN /\ connected \in BOOLEAN
        /\ localClose \in BOOLEAN
        /\ owner \in {"alive", "disconnecting", "joining", "notified",
                      "destroyed"}
    BY DEF Init
  <2>7. QED BY <2>1, <2>2, <2>3, <2>4, <2>5, <2>6 DEF TypeOK
<1>2. FreshIds /\ OneOwner /\ CallbackTracked
  BY DEF Init, FreshIds, OneOwner, CallbackTracked, Issued
<1>3. HeldBriefly /\ PendingWhileTracked
  BY DEF Init, HeldBriefly, PendingWhileTracked, NotClosed
<1>4. StoppedBeforeTaken
  BY DEF Init, StoppedBeforeTaken, Untracked
<1>5. ToldOnce
  BY DEF Init, ToldOnce
<1>6. QED BY <1>1, <1>2, <1>3, <1>4, <1>5 DEF Inv

\* A step that leaves the tables, the callbacks and the calls alone, moves only
\* threads that hold no callback, and does not reopen a closed connection,
\* keeps the invariant.
LEMMA ControlStep ==
    ASSUME Inv, TypeOK',
           UNCHANGED <<sendVars, routerVars, deadlines, progressCb, arg,
                       expired, cancelVars, sent>>,
           \A t \in Threads : \/ pc'[t] = pc[t]
                              \/ held[t] = {} /\ pc'[t] \notin {"take", "fail"},
           NotClosed' => NotClosed
    PROVE  Inv'
<1> USE DEF Inv, sendVars, routerVars, cancelVars
<1>1. FreshIds' BY DEF FreshIds, Issued
<1>2. OneOwner' BY DEF OneOwner, Issued
<1>3. HeldBriefly' BY DEF HeldBriefly
<1>4. StoppedBeforeTaken' BY DEF StoppedBeforeTaken, Untracked
<1>5. PendingWhileTracked' BY DEF PendingWhileTracked
<1>6. CallbackTracked' BY DEF CallbackTracked, Issued
<1>7. ToldOnce' BY DEF ToldOnce, Untracked, cancelVars
<1>8. QED BY <1>1, <1>2, <1>3, <1>4, <1>5, <1>6, <1>7

-----------------------------------------------------------------------------
(* send_request                                                            *)

\* Registering the callback under a fresh id keeps the invariant.
LEMMA SendRequestInv ==
    ASSUME Inv, NEW r \in Ids, NEW o \in Options, SendRequest(r, o)
    PROVE  Inv'
<1> USE DEF Inv, sendVars, routerVars, timerVars, cancelVars, envVars
<1>1. r \in Ids \ Issued /\ sender[r] = "idle"
  BY DEF SendRequest, FreshIds, TypeOK, Issued
<1>2. /\ r \notin sent \cup deadlines \cup expired
      /\ userCancels[r] = 0 /\ timerCancels[r] = 0
  BY <1>1 DEF StoppedBeforeTaken, ToldOnce, Untracked, TypeOK
<1>3. \A t \in Threads : r \notin held[t]
  BY <1>1 DEF FreshIds
<1>4. \A t \in Threads : pc[t] \in {"take", "fail"} => arg[t] # r
  BY <1>1 DEF StoppedBeforeTaken, Untracked
<1>5. TypeOK'
  <2>1. nextId' \in 1..(MaxRequests + 1)
    BY DEF TypeOK, SendRequest
  <2>2. /\ opts' \in [Ids -> Options \cup {NoOptions}]
        /\ sender' \in [Ids -> {"idle", "track", "notify", "send", "returned"}]
        /\ pending' \subseteq Ids
    BY DEF TypeOK, SendRequest
  <2>3. QED BY <2>1, <2>2 DEF TypeOK, SendRequest
<1>6. FreshIds'
  BY DEF TypeOK, FreshIds, Issued, SendRequest
<1>7. OneOwner'
  BY DEF TypeOK, FreshIds, OneOwner, HeldBriefly, Issued, SendRequest
<1>8. HeldBriefly'
  BY DEF TypeOK, HeldBriefly, SendRequest
<1>9. StoppedBeforeTaken'
  BY <1>2, <1>3, <1>4 DEF TypeOK, HeldBriefly, StoppedBeforeTaken, Untracked,
         SendRequest
<1>10. PendingWhileTracked'
  BY DEF TypeOK, StoppedBeforeTaken, PendingWhileTracked, NotClosed,
         Untracked, SendRequest
<1>11. CallbackTracked'
  BY DEF TypeOK, FreshIds, CallbackTracked, Issued, SendRequest
<1>12. ToldOnce'
  BY <1>2, <1>3 DEF TypeOK, HeldBriefly, ToldOnce, StoppedBeforeTaken,
         Untracked, SendRequest
<1>13. QED BY <1>5, <1>6, <1>7, <1>8, <1>9, <1>10, <1>11, <1>12

\* Storing the deadline and the progress callback keeps the invariant: the
\* request cannot have been answered or cancelled yet.
LEMMA TrackRequestInv ==
    ASSUME Inv, NEW r \in Ids, TrackRequest(r)
    PROVE  Inv'
<1> USE DEF Inv, sendVars, routerVars, timerVars, cancelVars, envVars
<1>1. TypeOK'
  BY DEF TypeOK, TrackRequest
<1>2. FreshIds'
  BY DEF TypeOK, FreshIds, Issued, TrackRequest
<1>3. OneOwner'
  BY DEF TypeOK, FreshIds, OneOwner, HeldBriefly, Issued, TrackRequest
<1>4. HeldBriefly'
  BY DEF TypeOK, HeldBriefly, TrackRequest
<1>5. StoppedBeforeTaken'
  BY SMTT(30) DEF TypeOK, HeldBriefly, StoppedBeforeTaken, Untracked, TrackRequest
<1>6. PendingWhileTracked'
  BY DEF TypeOK, StoppedBeforeTaken, PendingWhileTracked, NotClosed,
         Untracked, TrackRequest
<1>7. CallbackTracked'
  BY DEF TypeOK, FreshIds, CallbackTracked, Issued, TrackRequest
<1>8. ToldOnce'
  BY SMTT(30) DEF TypeOK, HeldBriefly, ToldOnce, StoppedBeforeTaken, Untracked,
         TrackRequest
<1>9. QED BY <1>1, <1>2, <1>3, <1>4, <1>5, <1>6, <1>7, <1>8

\* Waking the timer thread from send_request keeps the invariant.
LEMMA NotifyTimerInv ==
    ASSUME Inv, NEW r \in Ids, NotifyTimer(r)
    PROVE  Inv'
<1> USE DEF Inv, sendVars, routerVars, timerVars, cancelVars, envVars
<1>1. TypeOK'
  BY DEF TypeOK, NotifyTimer, TimerNotified
<1>2. FreshIds'
  BY DEF TypeOK, FreshIds, Issued, NotifyTimer, TimerNotified
<1>3. OneOwner'
  BY DEF TypeOK, FreshIds, OneOwner, HeldBriefly, Issued, NotifyTimer,
         TimerNotified
<1>4. HeldBriefly'
  BY DEF TypeOK, HeldBriefly, NotifyTimer, TimerNotified
<1>5. StoppedBeforeTaken'
  BY SMTT(30) DEF TypeOK, HeldBriefly, StoppedBeforeTaken, Untracked, NotifyTimer,
         TimerNotified
<1>6. PendingWhileTracked'
  BY DEF TypeOK, StoppedBeforeTaken, PendingWhileTracked, NotClosed,
         Untracked, NotifyTimer, TimerNotified
<1>7. CallbackTracked'
  BY DEF TypeOK, FreshIds, CallbackTracked, Issued, NotifyTimer,
         TimerNotified
<1>8. ToldOnce'
  BY SMTT(30) DEF TypeOK, HeldBriefly, ToldOnce, StoppedBeforeTaken, Untracked,
         NotifyTimer, TimerNotified
<1>9. QED BY <1>1, <1>2, <1>3, <1>4, <1>5, <1>6, <1>7, <1>8

\* Handing the request to the transport keeps the invariant.
LEMMA TransmitRequestInv ==
    ASSUME Inv, NEW r \in Ids, TransmitRequest(r)
    PROVE  Inv'
<1> USE DEF Inv, sendVars, routerVars, timerVars, cancelVars, envVars
<1>1. TypeOK'
  BY DEF TypeOK, TransmitRequest
<1>2. FreshIds'
  BY DEF TypeOK, FreshIds, Issued, TransmitRequest
<1>3. OneOwner'
  BY DEF TypeOK, FreshIds, OneOwner, HeldBriefly, Issued, TransmitRequest
<1>4. HeldBriefly'
  BY DEF TypeOK, HeldBriefly, TransmitRequest
<1>5. StoppedBeforeTaken'
  BY SMTT(30) DEF TypeOK, HeldBriefly, StoppedBeforeTaken, Untracked, TransmitRequest
<1>6. PendingWhileTracked'
  BY DEF TypeOK, StoppedBeforeTaken, PendingWhileTracked, NotClosed,
         Untracked, TransmitRequest
<1>7. CallbackTracked'
  BY DEF TypeOK, FreshIds, CallbackTracked, Issued, TransmitRequest
<1>8. ToldOnce'
  BY DEF TypeOK, HeldBriefly, ToldOnce, StoppedBeforeTaken, Untracked,
         TransmitRequest
<1>9. QED BY <1>1, <1>2, <1>3, <1>4, <1>5, <1>6, <1>7, <1>8

-----------------------------------------------------------------------------
(* cancel_request, handle_message and the callbacks                        *)

\* clear_tracking on behalf of cancel_request keeps the invariant.
LEMMA CancelRequestInv ==
    ASSUME Inv, NEW c \in Cancellers, NEW r \in Ids, CancelRequest(c, r)
    PROVE  Inv'
<1> USE DEF Inv, sendVars, routerVars, timerVars, cancelVars, envVars
<1>1. TypeOK'
  BY DEF TypeOK, CancelRequest, TimerNotified, ClearTracking, EraseCallbacks,
         TokensOf
<1>2. FreshIds'
  BY DEF TypeOK, FreshIds, Issued, CancelRequest, TimerNotified,
         ClearTracking, EraseCallbacks, TokensOf
<1>3. OneOwner'
  BY DEF TypeOK, FreshIds, OneOwner, HeldBriefly, Issued, CancelRequest,
         TimerNotified, ClearTracking, EraseCallbacks, TokensOf
<1>4. HeldBriefly'
  BY DEF TypeOK, HeldBriefly, CancelRequest, TimerNotified, ClearTracking,
         EraseCallbacks, TokensOf
<1>5. StoppedBeforeTaken'
  BY DEF TypeOK, HeldBriefly, StoppedBeforeTaken, Untracked, CancelRequest,
         TimerNotified, ClearTracking, EraseCallbacks, TokensOf
<1>6. PendingWhileTracked'
  BY DEF TypeOK, StoppedBeforeTaken, PendingWhileTracked, NotClosed,
         Untracked, CancelRequest, TimerNotified, ClearTracking,
         EraseCallbacks, TokensOf
<1>7. CallbackTracked'
  BY DEF TypeOK, FreshIds, CallbackTracked, Issued, CancelRequest,
         TimerNotified, ClearTracking, EraseCallbacks, TokensOf
<1>8. ToldOnce'
  BY DEF TypeOK, HeldBriefly, ToldOnce, StoppedBeforeTaken, Untracked,
         CancelRequest, TimerNotified, ClearTracking, EraseCallbacks, TokensOf
<1>9. QED BY <1>1, <1>2, <1>3, <1>4, <1>5, <1>6, <1>7, <1>8

\* cancel_request taking the callback out of pending_ keeps the invariant.
LEMMA CancelTakeInv ==
    ASSUME Inv, NEW c \in Cancellers, CancelTake(c)
    PROVE  Inv'
<1> USE DEF Inv, sendVars, routerVars, timerVars, cancelVars, envVars
<1>1. arg[c] \notin deadlines /\ sender[arg[c]] # "track" /\ held[c] = {}
  BY DEF CancelTake, TypeOK, HeldBriefly, StoppedBeforeTaken, Untracked
<1>2. TypeOK'
  BY DEF TypeOK, CancelTake, TakePending
<1>3. FreshIds'
  BY DEF TypeOK, FreshIds, Issued, CancelTake, TakePending
<1>4. OneOwner'
  BY DEF TypeOK, FreshIds, OneOwner, HeldBriefly, Issued, CancelTake,
         TakePending
<1>5. HeldBriefly'
  BY <1>1 DEF TypeOK, HeldBriefly, CancelTake, TakePending
<1>6. StoppedBeforeTaken'
  BY DEF TypeOK, HeldBriefly, StoppedBeforeTaken, Untracked, CancelTake,
         TakePending
<1>7. PendingWhileTracked'
  BY <1>1 DEF TypeOK, PendingWhileTracked, NotClosed, CancelTake, TakePending
<1>8. CallbackTracked'
  BY DEF TypeOK, FreshIds, CallbackTracked, Issued, CancelTake, TakePending
<1>9. ToldOnce'
  BY SMTT(30) DEF TypeOK, HeldBriefly, ToldOnce, StoppedBeforeTaken, Untracked,
         CancelTake, TakePending
<1>10. QED BY <1>2, <1>3, <1>4, <1>5, <1>6, <1>7, <1>8, <1>9

\* Sending notifications/cancelled from cancel_request keeps the invariant.
LEMMA CancelSendInv ==
    ASSUME Inv, NEW c \in Cancellers, CancelSend(c)
    PROVE  Inv'
<1> USE DEF Inv, sendVars, routerVars, timerVars, cancelVars, envVars
<1>1. TypeOK'
  <2>1. userCancels' \in [Ids -> Nat]
    BY DEF TypeOK, CancelSend
  <2>2. pc' \in [Threads -> {"idle", "top", "wait", "waitUntil", "expired",
                           "fail", "clear", "swap", "take", "send",
                           "callback", "done"}]
    BY DEF TypeOK, CancelSend
  <2>3. QED BY <2>1, <2>2 DEF TypeOK, CancelSend
<1>2. FreshIds'
  BY DEF TypeOK, FreshIds, Issued, CancelSend
<1>3. OneOwner'
  BY DEF TypeOK, FreshIds, OneOwner, HeldBriefly, Issued, CancelSend
<1>4. HeldBriefly'
  BY DEF TypeOK, HeldBriefly, CancelSend
<1>5. StoppedBeforeTaken'
  BY DEF TypeOK, HeldBriefly, StoppedBeforeTaken, Untracked, CancelSend
<1>6. PendingWhileTracked'
  BY DEF TypeOK, StoppedBeforeTaken, PendingWhileTracked, NotClosed,
         Untracked, CancelSend
<1>7. CallbackTracked'
  BY DEF TypeOK, FreshIds, CallbackTracked, Issued, CancelSend
<1>8. ToldOnce'
  <2>1. ASSUME NEW r \in held[c]
        PROVE  /\ r \in Ids /\ r \notin pending /\ Untracked(r)
               /\ userCancels[r] = 0
               /\ \A t \in Threads : r \in held[t] => t = c
    <3>1. c \in Threads /\ c # Closer OBVIOUS
    <3>2. r \in Ids /\ Untracked(r) /\ userCancels[r] = 0
      BY <3>1 DEF TypeOK, ToldOnce, StoppedBeforeTaken, CancelSend
    <3>3. r \in Issued
      BY <3>1, <3>2 DEF FreshIds
    <3>4. QED BY <3>1, <3>2, <3>3 DEF OneOwner
  <2>2. \A r \in Ids : userCancels'[r] = IF r \in held[c] THEN 1
                                                        ELSE userCancels[r]
    BY <2>1 DEF CancelSend
  <2>3. \A d \in Cancellers : pc'[d] = "send" => pc[d] = "send" /\ d # c
    BY DEF TypeOK, CancelSend
  <2>4. /\ \A r \in Ids : userCancels'[r] \in {0, 1}
        /\ \A r \in Ids : userCancels'[r] # 0 => Untracked(r) /\ r \notin pending
    BY <2>1, <2>2 DEF ToldOnce
  <2>5. \A d \in Cancellers : pc'[d] = "send" =>
            \A r \in held[d] : userCancels'[r] = 0
    BY <2>1, <2>2, <2>3 DEF ToldOnce, TypeOK
  <2>6. QED BY <2>4, <2>5 DEF ToldOnce, Untracked, CancelSend
<1>9. QED BY <1>1, <1>2, <1>3, <1>4, <1>5, <1>6, <1>7, <1>8

\* clear_tracking on behalf of a response keeps the invariant.
LEMMA HandleResponseInv ==
    ASSUME Inv, NEW d \in Readers, NEW r \in Ids, HandleResponse(d, r)
    PROVE  Inv'
<1> USE DEF Inv, sendVars, routerVars, timerVars, cancelVars, envVars
<1>1. TypeOK'
  BY DEF TypeOK, HandleResponse, TimerNotified, ClearTracking,
         EraseCallbacks, TokensOf
<1>2. FreshIds'
  BY DEF TypeOK, FreshIds, Issued, HandleResponse, TimerNotified,
         ClearTracking, EraseCallbacks, TokensOf
<1>3. OneOwner'
  BY DEF TypeOK, FreshIds, OneOwner, HeldBriefly, Issued, HandleResponse,
         TimerNotified, ClearTracking, EraseCallbacks, TokensOf
<1>4. HeldBriefly'
  BY DEF TypeOK, HeldBriefly, HandleResponse, TimerNotified, ClearTracking,
         EraseCallbacks, TokensOf
<1>5. StoppedBeforeTaken'
  BY DEF TypeOK, HeldBriefly, StoppedBeforeTaken, Untracked, HandleResponse,
         TimerNotified, ClearTracking, EraseCallbacks, TokensOf
<1>6. PendingWhileTracked'
  BY DEF TypeOK, StoppedBeforeTaken, PendingWhileTracked, NotClosed,
         Untracked, HandleResponse, TimerNotified, ClearTracking,
         EraseCallbacks, TokensOf
<1>7. CallbackTracked'
  BY DEF TypeOK, FreshIds, CallbackTracked, Issued, HandleResponse,
         TimerNotified, ClearTracking, EraseCallbacks, TokensOf
<1>8. ToldOnce'
  BY DEF TypeOK, HeldBriefly, ToldOnce, StoppedBeforeTaken, Untracked,
         HandleResponse, TimerNotified, ClearTracking, EraseCallbacks,
         TokensOf
<1>9. QED BY <1>1, <1>2, <1>3, <1>4, <1>5, <1>6, <1>7, <1>8

\* Dispatching a response, first or late, keeps the invariant.
LEMMA DispatchResponseInv ==
    ASSUME Inv, NEW d \in Readers, DispatchResponse(d)
    PROVE  Inv'
<1> USE DEF Inv, sendVars, routerVars, timerVars, cancelVars, envVars
<1>1. arg[d] \notin deadlines /\ sender[arg[d]] # "track" /\ held[d] = {}
  BY DEF DispatchResponse, TypeOK, HeldBriefly, StoppedBeforeTaken, Untracked
<1>2. TypeOK'
  BY DEF TypeOK, DispatchResponse, TakePending
<1>3. FreshIds'
  BY DEF TypeOK, FreshIds, Issued, DispatchResponse, TakePending
<1>4. OneOwner'
  BY DEF TypeOK, FreshIds, OneOwner, HeldBriefly, Issued, DispatchResponse,
         TakePending
<1>5. HeldBriefly'
  BY <1>1 DEF TypeOK, HeldBriefly, DispatchResponse, TakePending
<1>6. StoppedBeforeTaken'
  BY DEF TypeOK, HeldBriefly, StoppedBeforeTaken, Untracked,
         DispatchResponse, TakePending
<1>7. PendingWhileTracked'
  BY <1>1 DEF TypeOK, PendingWhileTracked, NotClosed, DispatchResponse, TakePending
<1>8. CallbackTracked'
  BY DEF TypeOK, FreshIds, CallbackTracked, Issued, DispatchResponse,
         TakePending
<1>9. ToldOnce'
  BY DEF TypeOK, HeldBriefly, ToldOnce, StoppedBeforeTaken, Untracked,
         DispatchResponse, TakePending
<1>10. QED BY <1>2, <1>3, <1>4, <1>5, <1>6, <1>7, <1>8, <1>9

\* Progress, which restarts clocks, keeps the invariant.
LEMMA HandleProgressInv ==
    ASSUME Inv, NEW d \in Readers, NEW k \in Tokens, HandleProgress(d, k)
    PROVE  Inv'
<1> USE DEF Inv, sendVars, routerVars, timerVars, cancelVars, envVars
<1>1. TypeOK'
  <2>1. progressLeft' \in 0..MaxProgress
    BY DEF TypeOK, HandleProgress
  <2>2. due' \subseteq deadlines'
    BY DEF TypeOK, HandleProgress
  <2>3. pc' \in [Threads -> {"idle", "top", "wait", "waitUntil", "expired",
                           "fail", "clear", "swap", "take", "send",
                           "callback", "done"}]
    BY DEF TypeOK, HandleProgress, TimerNotified
  <2>4. QED BY <2>1, <2>2, <2>3 DEF TypeOK, HandleProgress
<1>2. \A t \in Threads : \/ pc'[t] = pc[t]
                         \/ pc[t] = "wait" /\ pc'[t] = "top"
  BY DEF TypeOK, HandleProgress, TimerNotified
<1>3. QED
  BY <1>1, <1>2, ControlStep DEF HandleProgress, HeldBriefly, NotClosed

\* Running a held callback keeps the invariant: no other thread holds it and it
\* has not run before.
LEMMA RunCallbackInv ==
    ASSUME Inv, NEW t \in Threads, NEW r \in Ids, RunCallback(t, r)
    PROVE  Inv'
<1> USE DEF Inv, sendVars, routerVars, timerVars, cancelVars, envVars
<1>1. TypeOK'
  <2>1. calls' \in [Ids -> Nat]
    BY DEF TypeOK, RunCallback
  <2>2. held' \in [Threads -> SUBSET Ids]
    BY DEF TypeOK, RunCallback
  <2>3. pc' \in [Threads -> {"idle", "top", "wait", "waitUntil", "expired",
                           "fail", "clear", "swap", "take", "send",
                           "callback", "done"}]
    BY DEF TypeOK, RunCallback
  <2>4. QED BY <2>1, <2>2, <2>3 DEF TypeOK, RunCallback
<1>2. FreshIds'
  BY DEF TypeOK, FreshIds, Issued, RunCallback
<1>3. OneOwner'
  BY DEF TypeOK, FreshIds, OneOwner, HeldBriefly, Issued, RunCallback
<1>4. HeldBriefly'
  BY DEF TypeOK, HeldBriefly, RunCallback
<1>5. StoppedBeforeTaken'
  BY DEF TypeOK, HeldBriefly, StoppedBeforeTaken, Untracked, RunCallback
<1>6. PendingWhileTracked'
  BY DEF TypeOK, StoppedBeforeTaken, PendingWhileTracked, NotClosed,
         Untracked, RunCallback
<1>7. CallbackTracked'
  BY DEF TypeOK, FreshIds, CallbackTracked, Issued, RunCallback
<1>8. ToldOnce'
  BY DEF TypeOK, HeldBriefly, ToldOnce, StoppedBeforeTaken, Untracked,
         RunCallback
<1>9. QED BY <1>1, <1>2, <1>3, <1>4, <1>5, <1>6, <1>7, <1>8

-----------------------------------------------------------------------------
(* timer_loop                                                              *)

\* Collecting the expired requests keeps the invariant.
LEMMA TimerExpireInv ==
    ASSUME Inv, TimerExpire
    PROVE  Inv'
<1> USE DEF Inv, sendVars, routerVars, timerVars, cancelVars, envVars
<1>1. TypeOK'
  <2>1. CASE stopTimer
    BY <2>1 DEF TypeOK, TimerExpire
  <2>2. CASE ~stopTimer
    <3>1. progressCb' \in [Tokens -> Ids \cup {NoRequest}]
      BY <2>2 DEF TypeOK, TimerExpire, EraseCallbacks
    <3>2. QED BY <2>2, <3>1 DEF TypeOK, TimerExpire
  <2>3. QED BY <2>1, <2>2 DEF TypeOK
<1>2. FreshIds'
  BY DEF TypeOK, FreshIds, Issued, TimerExpire, EraseCallbacks, TokensOf
<1>3. OneOwner'
  BY DEF TypeOK, FreshIds, OneOwner, HeldBriefly, Issued, TimerExpire,
         EraseCallbacks, TokensOf
<1>4. HeldBriefly'
  <2>1. held[Timer] = {}
    BY DEF TypeOK, HeldBriefly, TimerExpire
  <2>2. held' = held /\ \A t \in Threads \ {Timer} : pc'[t] = pc[t]
    BY DEF TypeOK, TimerExpire
  <2>3. QED BY <2>1, <2>2 DEF HeldBriefly
<1>5. StoppedBeforeTaken'
  BY DEF TypeOK, HeldBriefly, StoppedBeforeTaken, Untracked, TimerExpire,
         EraseCallbacks, TokensOf
<1>6. PendingWhileTracked'
  BY DEF TypeOK, StoppedBeforeTaken, PendingWhileTracked, NotClosed,
         Untracked, TimerExpire, EraseCallbacks, TokensOf
<1>7. CallbackTracked'
  BY SMTT(30) DEF TypeOK, FreshIds, CallbackTracked, Issued, TimerExpire,
         EraseCallbacks, TokensOf
<1>8. ToldOnce'
  BY DEF TypeOK, HeldBriefly, ToldOnce, StoppedBeforeTaken, Untracked,
         TimerExpire, EraseCallbacks, TokensOf
<1>9. QED BY <1>1, <1>2, <1>3, <1>4, <1>5, <1>6, <1>7, <1>8

\* Telling the peer about an expired request keeps the invariant.
LEMMA TimerCancelInv ==
    ASSUME Inv, NEW r \in Ids, TimerCancel(r)
    PROVE  Inv'
<1> USE DEF Inv, sendVars, routerVars, timerVars, cancelVars, envVars
<1>1. TypeOK'
  <2>1. timerCancels' \in [Ids -> Nat]
    BY DEF TypeOK, TimerCancel
  <2>2. pc' \in [Threads -> {"idle", "top", "wait", "waitUntil", "expired",
                           "fail", "clear", "swap", "take", "send",
                           "callback", "done"}]
    BY DEF TypeOK, TimerCancel
  <2>3. arg' \in [Threads -> Ids \cup {NoRequest}] /\ expired' \subseteq Ids
    BY DEF TypeOK, TimerCancel
  <2>4. QED BY <2>1, <2>2, <2>3 DEF TypeOK, TimerCancel
<1>2. FreshIds'
  BY DEF TypeOK, FreshIds, Issued, TimerCancel
<1>3. OneOwner'
  BY DEF TypeOK, FreshIds, OneOwner, HeldBriefly, Issued, TimerCancel
<1>4. HeldBriefly'
  BY DEF TypeOK, HeldBriefly, TimerCancel
<1>5. StoppedBeforeTaken'
  BY DEF TypeOK, HeldBriefly, StoppedBeforeTaken, Untracked, TimerCancel
<1>6. PendingWhileTracked'
  BY DEF TypeOK, StoppedBeforeTaken, PendingWhileTracked, NotClosed,
         Untracked, TimerCancel
<1>7. CallbackTracked'
  BY DEF TypeOK, FreshIds, CallbackTracked, Issued, TimerCancel
<1>8. ToldOnce'
  BY DEF TypeOK, HeldBriefly, ToldOnce, StoppedBeforeTaken, Untracked,
         TimerCancel
<1>9. QED BY <1>1, <1>2, <1>3, <1>4, <1>5, <1>6, <1>7, <1>8

\* fail_pending of an expired request keeps the invariant.
LEMMA TimerFailInv ==
    ASSUME Inv, TimerFail
    PROVE  Inv'
<1> USE DEF Inv, sendVars, routerVars, timerVars, cancelVars, envVars
<1>1. arg[Timer] \notin deadlines /\ sender[arg[Timer]] # "track" /\ held[Timer] = {}
  BY DEF TimerFail, TypeOK, HeldBriefly, StoppedBeforeTaken, Untracked
<1>2. TypeOK'
  BY DEF TypeOK, TimerFail, TakePending
<1>3. FreshIds'
  BY DEF TypeOK, FreshIds, Issued, TimerFail, TakePending
<1>4. OneOwner'
  BY DEF TypeOK, FreshIds, OneOwner, HeldBriefly, Issued, TimerFail,
         TakePending
<1>5. HeldBriefly'
  BY <1>1 DEF TypeOK, HeldBriefly, TimerFail, TakePending
<1>6. StoppedBeforeTaken'
  BY DEF TypeOK, HeldBriefly, StoppedBeforeTaken, Untracked, TimerFail,
         TakePending
<1>7. PendingWhileTracked'
  BY <1>1 DEF TypeOK, PendingWhileTracked, NotClosed, TimerFail, TakePending
<1>8. CallbackTracked'
  BY DEF TypeOK, FreshIds, CallbackTracked, Issued, TimerFail, TakePending
<1>9. ToldOnce'
  BY DEF TypeOK, HeldBriefly, ToldOnce, StoppedBeforeTaken, Untracked,
         TimerFail, TakePending
<1>10. QED BY <1>2, <1>3, <1>4, <1>5, <1>6, <1>7, <1>8, <1>9

\* Passing time and the control steps of the timer thread keep the invariant.
LEMMA TimerControlInv ==
    ASSUME Inv,
           \/ TimerTop \/ TimerSpuriousWake \/ TimerNextRound
           \/ \E r \in Ids : ClockReaches(r)
    PROVE  Inv'
<1> USE DEF Inv, sendVars, routerVars, timerVars, cancelVars, envVars
<1>1. CASE TimerTop
  <2>1. TypeOK' BY <1>1 DEF TypeOK, TimerTop
  <2>2. QED BY <1>1, <2>1, ControlStep DEF TypeOK, TimerTop, HeldBriefly, NotClosed
<1>2. CASE TimerSpuriousWake
  <2>1. TypeOK' BY <1>2 DEF TypeOK, TimerSpuriousWake
  <2>2. QED
    BY <1>2, <2>1, ControlStep DEF TypeOK, TimerSpuriousWake, HeldBriefly, NotClosed
<1>3. CASE TimerNextRound
  <2>1. TypeOK' BY <1>3 DEF TypeOK, TimerNextRound
  <2>2. QED
    BY <1>3, <2>1, ControlStep DEF TypeOK, TimerNextRound, HeldBriefly, NotClosed
<1>4. ASSUME NEW r \in Ids, ClockReaches(r) PROVE Inv'
  <2>1. TypeOK' BY <1>4 DEF TypeOK, ClockReaches
  <2>2. QED BY <1>4, <2>1, ControlStep DEF ClockReaches, NotClosed
<1>5. QED BY <1>1, <1>2, <1>3, <1>4

-----------------------------------------------------------------------------
(* handle_close, disconnect and the destructor                             *)

\* handle_close clearing the timer's tables keeps the invariant.
LEMMA CloseClearInv ==
    ASSUME Inv, CloseClear
    PROVE  Inv'
<1> USE DEF Inv, sendVars, routerVars, timerVars, cancelVars, envVars
<1>1. TypeOK'
  BY DEF TypeOK, CloseClear
<1>2. FreshIds'
  BY DEF TypeOK, FreshIds, Issued, CloseClear
<1>3. OneOwner'
  BY DEF TypeOK, FreshIds, OneOwner, HeldBriefly, Issued, CloseClear
<1>4. HeldBriefly'
  BY DEF TypeOK, HeldBriefly, CloseClear
<1>5. StoppedBeforeTaken'
  BY DEF TypeOK, HeldBriefly, StoppedBeforeTaken, Untracked, CloseClear
<1>6. PendingWhileTracked'
  BY DEF TypeOK, StoppedBeforeTaken, PendingWhileTracked, NotClosed,
         Untracked, CloseClear
<1>7. CallbackTracked'
  BY DEF TypeOK, FreshIds, CallbackTracked, Issued, CloseClear
<1>8. ToldOnce'
  BY DEF TypeOK, HeldBriefly, ToldOnce, StoppedBeforeTaken, Untracked,
         CloseClear
<1>9. QED BY <1>1, <1>2, <1>3, <1>4, <1>5, <1>6, <1>7, <1>8

\* fail_all_pending swapping out the table keeps the invariant.
LEMMA CloseSwapInv ==
    ASSUME Inv, CloseSwap
    PROVE  Inv'
<1> USE DEF Inv, sendVars, routerVars, timerVars, cancelVars, envVars
<1>1. TypeOK'
  BY DEF TypeOK, CloseSwap
<1>2. FreshIds'
  BY DEF TypeOK, FreshIds, Issued, CloseSwap
<1>3. OneOwner'
  <2>1. held[Closer] = {}
    BY DEF TypeOK, HeldBriefly, CloseSwap
  <2>2. /\ held'[Closer] = pending /\ pending' = {} /\ calls' = calls
        /\ \A t \in Threads \ {Closer} : held'[t] = held[t]
        /\ Issued' = Issued
    BY DEF TypeOK, CloseSwap, Issued
  <2>3. QED BY <2>1, <2>2 DEF OneOwner
<1>4. HeldBriefly'
  BY DEF TypeOK, HeldBriefly, CloseSwap
<1>5. StoppedBeforeTaken'
  BY DEF TypeOK, HeldBriefly, StoppedBeforeTaken, Untracked, CloseSwap
<1>6. PendingWhileTracked'
  BY DEF TypeOK, StoppedBeforeTaken, PendingWhileTracked, NotClosed,
         Untracked, CloseSwap
<1>7. CallbackTracked'
  BY DEF TypeOK, FreshIds, CallbackTracked, Issued, CloseSwap
<1>8. ToldOnce'
  BY DEF TypeOK, HeldBriefly, ToldOnce, StoppedBeforeTaken, Untracked,
         CloseSwap
<1>9. QED BY <1>1, <1>2, <1>3, <1>4, <1>5, <1>6, <1>7, <1>8

\* The start and the end of the close and the steps of the destructor keep the
\* invariant.
LEMMA LifecycleInv ==
    ASSUME Inv, PeerClose \/ CloseDone \/ Disconnect \/ Destroy \/ OwnerStep
    PROVE  Inv'
<1> USE DEF Inv, sendVars, routerVars, timerVars, cancelVars, envVars
<1>1. CASE PeerClose
  <2>1. TypeOK' BY <1>1 DEF TypeOK, PeerClose
  <2>2. QED BY <1>1, <2>1, ControlStep DEF TypeOK, PeerClose, HeldBriefly, NotClosed
<1>2. CASE CloseDone
  <2>1. TypeOK' BY <1>2 DEF TypeOK, CloseDone
  <2>2. QED BY <1>2, <2>1, ControlStep DEF TypeOK, CloseDone, HeldBriefly, NotClosed
<1>3. CASE Disconnect \/ Destroy
  <2> USE <1>3 DEF Disconnect, Destroy, DisconnectTransport
  <2>1. TypeOK' BY DEF TypeOK
  <2>2. \A t \in Threads : \/ pc'[t] = pc[t]
                           \/ pc[t] = "idle" /\ pc'[t] = "clear"
    BY DEF TypeOK
  <2>3. QED BY <2>1, <2>2, ControlStep DEF HeldBriefly, NotClosed
<1>4. CASE StopTimer \/ JoinTimer
  <2>1. TypeOK' BY <1>4 DEF TypeOK, StopTimer, JoinTimer
  <2>2. QED BY <1>4, <2>1, ControlStep DEF StopTimer, JoinTimer, NotClosed
<1>5. CASE NotifyStop
  <2>1. TypeOK' BY <1>5 DEF TypeOK, NotifyStop, TimerNotified
  <2>2. \A t \in Threads : \/ pc'[t] = pc[t]
                           \/ pc[t] = "wait" /\ pc'[t] = "top"
    BY <1>5 DEF TypeOK, NotifyStop, TimerNotified
  <2>3. QED BY <1>5, <2>1, <2>2, ControlStep DEF NotifyStop, HeldBriefly, NotClosed
<1>6. QED BY <1>1, <1>2, <1>3, <1>4, <1>5 DEF OwnerStep

-----------------------------------------------------------------------------
(* The theorems                                                            *)

\* Every step of the session keeps the invariant.
LEMMA NextInv == Inv /\ [Next]_vars => Inv'
<1> SUFFICES ASSUME Inv, [Next]_vars PROVE Inv' OBVIOUS
<1>1. CASE Environment
  BY <1>1, SendRequestInv, CancelRequestInv, HandleResponseInv,
     HandleProgressInv, LifecycleInv, TimerControlInv DEF Environment
<1>2. ASSUME NEW r \in Ids, SenderStep(r) \/ ClockReaches(r) PROVE Inv'
  BY <1>2, TrackRequestInv, NotifyTimerInv, TransmitRequestInv,
     TimerControlInv DEF SenderStep
<1>3. ASSUME NEW d \in Readers, ReaderStep(d) PROVE Inv'
  BY <1>3, DispatchResponseInv, RunCallbackInv DEF ReaderStep
<1>4. ASSUME NEW c \in Cancellers, CancellerStep(c) PROVE Inv'
  BY <1>4, CancelTakeInv, CancelSendInv, RunCallbackInv DEF CancellerStep
<1>5. CASE TimerStep
  BY <1>5, TimerControlInv, TimerExpireInv, TimerFailInv, TimerCancelInv,
     RunCallbackInv DEF TimerStep
<1>6. CASE CloserStep
  BY <1>6, CloseClearInv, CloseSwapInv, LifecycleInv, RunCallbackInv
     DEF CloserStep
<1>7. CASE OwnerStep
  BY <1>7, LifecycleInv
<1>8. CASE UNCHANGED vars
  <2>1. TypeOK' BY <1>8 DEF vars, Inv, TypeOK
  <2>2. QED
    BY <1>8, <2>1, ControlStep
       DEF vars, sendVars, routerVars, cancelVars, NotClosed
<1>9. QED
  BY <1>1, <1>2, <1>3, <1>4, <1>5, <1>6, <1>7, <1>8 DEF Next

\* The invariant holds in every reachable state.
THEOREM InvHolds == Spec => []Inv
  BY InitInv, NextInv, PTL DEF Spec

\* Every variable of the session always has its type.
THEOREM TypeCorrect == Spec => []TypeOK
<1>1. Inv => TypeOK BY DEF Inv
<1>2. QED BY <1>1, InvHolds, PTL

\* Response, timeout, cancellation and close never lose the callback of a
\* request and never run it twice, for any number of requests and threads.
THEOREM CallbackHasOneOwner == Spec => []OneOwner
<1>1. Inv => OneOwner BY DEF Inv
<1>2. QED BY <1>1, InvHolds, PTL

\* Until the connection closes, deadlines_ only holds pending requests.
THEOREM DeadlinesArePending == Spec => []DeadlineIsPending
<1>1. Inv => DeadlineIsPending
  BY DEF Inv, PendingWhileTracked, DeadlineIsPending
<1>2. QED BY <1>1, InvHolds, PTL

\* The peer is told at most once by cancel_request and at most once by the
\* timer that a request is cancelled, and no request expires after
\* cancel_request has begun with it.
THEOREM CancelledOnce == Spec => []CancelledOnceByEach
<1>1. ASSUME Inv, NEW r \in Ids, Cancelling(r) PROVE r \notin deadlines
  <2>1. \A c \in Cancellers : c \in Threads /\ c # Closer OBVIOUS
  <2>2. QED
    BY <1>1, <2>1 DEF Inv, StoppedBeforeTaken, Untracked, Cancelling
<1>2. Inv => CancelledOnceByEach
  BY <1>1 DEF Inv, StoppedBeforeTaken, ToldOnce, Untracked,
              CancelledOnceByEach
<1>3. QED BY <1>2, InvHolds, PTL

\* Until the connection closes, a timed request's progress callback is only
\* registered while the request is pending.
THEOREM ProgressCallbacksArePending == Spec => []ProgressCallbackIsPending
<1>1. Inv => ProgressCallbackIsPending
  BY DEF Inv, TypeOK, PendingWhileTracked, CallbackTracked,
         ProgressCallbackIsPending
<1>2. QED BY <1>1, InvHolds, PTL

\* A step that hands out an id issues a request of the contract.
LEMMA SendRefines ==
    ASSUME Inv, NEW r \in Ids, NEW o \in Options, SendRequest(r, o)
    PROVE  Contract!Next
<1>1. r \notin Issued /\ Issued' = Issued \cup {r}
  BY DEF Inv, TypeOK, SendRequest, Issued
<1>2. UNCHANGED calls
  BY DEF SendRequest
<1>3. QED BY <1>1, <1>2 DEF Contract!Next, Contract!Issue

\* A callback that runs completes a request of the contract.
LEMMA CallbackRefines ==
    ASSUME Inv, NEW t \in Threads, NEW r \in Ids, RunCallback(t, r)
    PROVE  Contract!Next
<1>1. r \in Issued /\ calls[r] = 0
  BY DEF Inv, TypeOK, RunCallback, FreshIds, OneOwner
<1>2. calls' = [calls EXCEPT ![r] = 1] /\ UNCHANGED Issued
  BY <1>1 DEF Inv, TypeOK, RunCallback, sendVars, Issued
<1>3. QED BY <1>1, <1>2 DEF Contract!Next, Contract!Complete

\* Every other step leaves the contract's variables alone.
LEMMA OthersStutter ==
    ASSUME [Next]_vars,
           ~ \E r \in Ids, o \in Options : SendRequest(r, o),
           ~ \E t \in Threads, r \in Ids : RunCallback(t, r)
    PROVE  UNCHANGED <<Issued, calls>>
  BY DEF Next, Environment, SenderStep, ReaderStep, CancellerStep, TimerStep,
         CloserStep, OwnerStep, TrackRequest, NotifyTimer, TransmitRequest,
         CancelRequest, CancelTake, CancelSend, HandleResponse,
         DispatchResponse, HandleProgress, ClockReaches, TimerTop,
         TimerSpuriousWake, TimerExpire, TimerCancel, TimerFail,
         TimerNextRound, PeerClose, CloseClear, CloseSwap, CloseDone,
         Disconnect, Destroy, StopTimer, NotifyStop, JoinTimer, TakePending,
         sendVars, routerVars, Issued, vars

\* The session implements the contract of send_request: a callback runs at most
\* once, and only for a request that was issued.
THEOREM SessionImplementsContract == Spec => ImplementsContract
<1>1. Init => Contract!Init
  BY DEF Init, Contract!Init, Issued
<1>2. Inv /\ [Next]_vars => [Contract!Next]_(Contract!contractVars)
  BY SendRefines, CallbackRefines, OthersStutter DEF Contract!contractVars
<1>3. QED
  BY <1>1, <1>2, InvHolds, PTL DEF Spec, ImplementsContract, Contract!Spec
=============================================================================
