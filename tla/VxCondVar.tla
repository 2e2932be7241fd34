----------------------------- MODULE VxCondVar -----------------------------
(***************************************************************************)
(* The condition variable of the VxWorks port                              *)
(* (src/platform/vxworks/threading.cpp): a counting semaphore sema_ and a  *)
(* waiter count guarded by the binary semaphore internal_.                 *)
(*                                                                         *)
(* A waiter is a task inside wait_for_ms.  The caller's mutex is released  *)
(* between the registration and semTake(sema), so it orders none of the    *)
(* steps below.  semGive hands the count to a pended task, if there is     *)
(* one; which one is left open.                                            *)
(***************************************************************************)
EXTENDS Naturals, FiniteSets

CONSTANTS
    Waiters,    \* tasks that call wait_for_ms, again and again
    Notifiers,  \* tasks that call notify_all, again and again
    Free        \* nobody holds internal_

ASSUME CondVarAssumption ==
    /\ IsFiniteSet(Waiters)
    /\ Free \notin Notifiers

VARIABLES
    waiters,   \* waiters_
    sema,      \* the count of sema_
    internal,  \* the notifier that holds internal_ in its loop
    pc,        \* where each waiter is
    owed       \* waiters a notify_all found registered and that sleep or
               \* may still go to sleep

condVars == <<waiters, sema, internal, pc, owed>>

CondVarInit ==
    /\ waiters = 0
    /\ sema = 0
    /\ internal = Free
    /\ pc = [w \in Waiters |-> "outside"]
    /\ owed = {}

-----------------------------------------------------------------------------
(* wait_for_ms                                                             *)

\* ++waiters_ under internal_; the caller's mutex is released after it.
Register(w) ==
    /\ pc[w] = "outside"
    /\ internal = Free
    /\ waiters' = waiters + 1
    /\ pc' = [pc EXCEPT ![w] = "registered"]
    /\ UNCHANGED <<sema, internal, owed>>

\* semTake(sema, ticks): a count is there, or the task pends.
TakeOrPend(w) ==
    /\ pc[w] = "registered"
    /\ IF sema > 0
       THEN /\ sema' = sema - 1
            /\ pc' = [pc EXCEPT ![w] = "ok"]
       ELSE /\ pc' = [pc EXCEPT ![w] = "pended"]
            /\ UNCHANGED sema
    /\ UNCHANGED <<waiters, internal, owed>>

\* The ticks of a timed wait are over.
Timeout(w) ==
    /\ pc[w] = "pended"
    /\ pc' = [pc EXCEPT ![w] = "timedOut"]
    /\ UNCHANGED <<waiters, sema, internal, owed>>

\* Mutant: a task that timed out always takes itself off the count.
ReconcileUnchecked(w) ==
    /\ pc[w] \in {"ok", "timedOut"}
    /\ internal = Free
    /\ waiters' = IF pc[w] = "timedOut" THEN waiters - 1 ELSE waiters
    /\ pc' = [pc EXCEPT ![w] = "outside"]
    /\ owed' = owed \ {w}
    /\ UNCHANGED <<sema, internal>>

\* Mutant: the count that a late notify_all gave is not consumed.
ReconcileLeaks(w) ==
    /\ pc[w] \in {"ok", "timedOut"}
    /\ internal = Free
    /\ waiters' = IF pc[w] = "timedOut" /\ waiters > 0 THEN waiters - 1 ELSE waiters
    /\ pc' = [pc EXCEPT ![w] = "outside"]
    /\ owed' = owed \ {w}
    /\ UNCHANGED <<sema, internal>>

\* A task that timed out is still counted, or has been given a count since:
\* semTake(sema, NO_WAIT) consumes it if it is there.
Reconcile(w) ==
    /\ internal = Free
    /\ \/ /\ pc[w] = "ok"
          /\ UNCHANGED <<waiters, sema>>
       \/ /\ pc[w] = "timedOut" /\ waiters > 0
          /\ waiters' = waiters - 1
          /\ UNCHANGED sema
       \/ /\ pc[w] = "timedOut" /\ waiters = 0
          /\ sema' = IF sema > 0 THEN sema - 1 ELSE sema
          /\ UNCHANGED waiters
    /\ pc' = [pc EXCEPT ![w] = "outside"]
    /\ owed' = owed \ {w}
    /\ UNCHANGED internal

-----------------------------------------------------------------------------
(* notify_all                                                              *)

NotifyBegin(n) ==
    /\ internal = Free
    /\ internal' = n
    /\ owed' = owed \cup {w \in Waiters : pc[w] \in {"registered", "pended"}}
    /\ UNCHANGED <<waiters, sema, pc>>

\* --waiters_ and semGive(sema)
NotifyGive(n) ==
    /\ internal = n
    /\ waiters > 0
    /\ waiters' = waiters - 1
    /\ \/ \E w \in Waiters :
             /\ pc[w] = "pended"
             /\ pc' = [pc EXCEPT ![w] = "ok"]
             /\ UNCHANGED sema
       \/ /\ \A w \in Waiters : pc[w] # "pended"
          /\ sema' = sema + 1
          /\ UNCHANGED pc
    /\ UNCHANGED <<internal, owed>>

NotifyEnd(n) ==
    /\ internal = n
    /\ waiters = 0
    /\ internal' = Free
    /\ UNCHANGED <<waiters, sema, pc, owed>>

-----------------------------------------------------------------------------

WaiterStep(w) == Register(w) \/ TakeOrPend(w) \/ Timeout(w) \/ Reconcile(w)

NotifierStep(n) == NotifyBegin(n) \/ NotifyGive(n) \/ NotifyEnd(n)

CondVarNext ==
    \/ \E w \in Waiters : WaiterStep(w)
    \/ \E n \in Notifiers : NotifierStep(n)

CondVarSpec == CondVarInit /\ [][CondVarNext]_condVars

-----------------------------------------------------------------------------
(* Properties                                                              *)

\* Every variable holds a value the code can give it.
CondVarTypeOK ==
    /\ waiters \in Nat
    /\ sema \in Nat
    /\ internal \in Notifiers \cup {Free}
    /\ pc \in [Waiters -> {"outside", "registered", "pended", "ok", "timedOut"}]
    /\ owed \subseteq Waiters

\* The waiters that have been registered and have not received a count.
Uncounted == {w \in Waiters : pc[w] \in {"registered", "pended", "timedOut"}}

\* Counts are conserved in total: whatever order timeouts and notify_all come
\* in, the registrations and the counts given out together are exactly the
\* waiters that have not received theirs, so neither becomes negative and,
\* when nobody waits, none is left for a later wait.  It is not a promise per
\* waiter: while others are registered, the count of a waiter that timed out
\* goes to one of them, also to one that came after the notify_all, which then
\* returns early ("consume it so it does not leak to the next waiter" holds
\* only when no other waiter is registered).
CountsMatchWaiters ==
    /\ waiters >= 0 /\ sema >= 0
    /\ waiters + sema = Cardinality(Uncounted)

\* When notify_all is over, no task that was waiting when it began is asleep
\* ("each waiter consumes exactly one").
NotifiedIsAwake == internal = Free => \A w \in owed : pc[w] # "pended"
=============================================================================
