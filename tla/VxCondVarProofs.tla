-------------------------- MODULE VxCondVarProofs --------------------------
(***************************************************************************)
(* The accounting of the VxWorks condition variable, for any finite set of *)
(* waiters and any set of notifiers.                                       *)
(***************************************************************************)
EXTENDS VxCondVar, FiniteSetTheorems, TLAPS

Inv == CondVarTypeOK /\ CountsMatchWaiters

\* The waiters without a count are finitely many, so counting them is sound.
LEMMA UncountedFinite ==
    /\ IsFiniteSet(Uncounted)
    /\ IsFiniteSet(Uncounted')
    /\ Cardinality(Uncounted) \in Nat
    /\ Cardinality(Uncounted') \in Nat
<1>1. Uncounted \subseteq Waiters /\ Uncounted' \subseteq Waiters
  BY DEF Uncounted
<1>2. IsFiniteSet(Uncounted) /\ IsFiniteSet(Uncounted')
  BY <1>1, CondVarAssumption, FS_Subset
<1> QED
  BY <1>2, FS_CardinalityType

\* A waiter that joins the uncounted ones adds one to their number.
LEMMA Joins ==
    ASSUME NEW w \in Waiters, w \notin Uncounted, Uncounted' = Uncounted \cup {w}
    PROVE  Cardinality(Uncounted') = Cardinality(Uncounted) + 1
  BY UncountedFinite, FS_AddElement

\* A waiter that leaves them takes one off.
LEMMA Leaves ==
    ASSUME NEW w \in Waiters, w \in Uncounted, Uncounted' = Uncounted \ {w}
    PROVE  Cardinality(Uncounted') = Cardinality(Uncounted) - 1
  BY UncountedFinite, FS_RemoveElement

\* While a waiter is without a count, the registrations and counts are not
\* all used up: the one a timed-out waiter consumes is really there.
LEMMA SomethingToConsume ==
    ASSUME Inv, NEW w \in Waiters, w \in Uncounted
    PROVE  waiters + sema > 0
<1>1. Cardinality(Uncounted) # 0
  BY UncountedFinite, FS_EmptySet
<1> QED
  BY <1>1, UncountedFinite DEF Inv, CondVarTypeOK, CountsMatchWaiters

LEMMA InitInv == CondVarInit => Inv
<1> SUFFICES ASSUME CondVarInit PROVE Inv
  OBVIOUS
<1>1. CondVarTypeOK
  BY DEF CondVarInit, CondVarTypeOK
<1>2. Uncounted = {}
  BY DEF CondVarInit, Uncounted
<1>3. Cardinality(Uncounted) = 0
  BY <1>2, FS_EmptySet
<1> QED
  BY <1>1, <1>3 DEF CondVarInit, Inv, CountsMatchWaiters

LEMMA RegisterInv ==
    ASSUME Inv, NEW w \in Waiters, Register(w) PROVE Inv'
<1>1. CondVarTypeOK'
  BY DEF Inv, CondVarTypeOK, Register
<1>2. w \notin Uncounted /\ Uncounted' = Uncounted \cup {w}
  BY DEF Inv, CondVarTypeOK, Register, Uncounted
<1>3. Cardinality(Uncounted') = Cardinality(Uncounted) + 1
  BY <1>2, Joins
<1> QED
  BY <1>1, <1>3, UncountedFinite DEF Inv, CondVarTypeOK, CountsMatchWaiters, Register

LEMMA TakeOrPendInv ==
    ASSUME Inv, NEW w \in Waiters, TakeOrPend(w) PROVE Inv'
<1>1. CondVarTypeOK'
  BY DEF Inv, CondVarTypeOK, TakeOrPend
<1>2. CASE sema > 0
  <2>1. w \in Uncounted /\ Uncounted' = Uncounted \ {w}
    BY <1>2 DEF Inv, CondVarTypeOK, TakeOrPend, Uncounted
  <2>2. Cardinality(Uncounted') = Cardinality(Uncounted) - 1
    BY <2>1, Leaves
  <2> QED
    BY <1>1, <1>2, <2>2, UncountedFinite
    DEF Inv, CondVarTypeOK, CountsMatchWaiters, TakeOrPend
<1>3. CASE ~(sema > 0)
  <2>1. Uncounted' = Uncounted
    BY <1>3 DEF Inv, CondVarTypeOK, TakeOrPend, Uncounted
  <2> QED
    BY <1>1, <1>3, <2>1 DEF Inv, CountsMatchWaiters, TakeOrPend
<1> QED
  BY <1>2, <1>3

LEMMA TimeoutInv ==
    ASSUME Inv, NEW w \in Waiters, Timeout(w) PROVE Inv'
<1>1. CondVarTypeOK'
  BY DEF Inv, CondVarTypeOK, Timeout
<1>2. Uncounted' = Uncounted
  BY DEF Inv, CondVarTypeOK, Timeout, Uncounted
<1> QED
  BY <1>1, <1>2 DEF Inv, CountsMatchWaiters, Timeout

LEMMA ReconcileInv ==
    ASSUME Inv, NEW w \in Waiters, Reconcile(w) PROVE Inv'
<1>1. CondVarTypeOK'
  BY DEF Inv, CondVarTypeOK, Reconcile
<1>2. CASE pc[w] = "ok"
  <2>1. Uncounted' = Uncounted
    BY <1>2 DEF Inv, CondVarTypeOK, Reconcile, Uncounted
  <2> QED
    BY <1>1, <1>2, <2>1 DEF Inv, CountsMatchWaiters, Reconcile
<1>3. CASE pc[w] = "timedOut"
  <2>1. w \in Uncounted /\ Uncounted' = Uncounted \ {w}
    BY <1>3 DEF Inv, CondVarTypeOK, Reconcile, Uncounted
  <2>2. Cardinality(Uncounted') = Cardinality(Uncounted) - 1
    BY <2>1, Leaves
  <2>3. waiters + sema > 0
    BY <2>1, SomethingToConsume
  <2>4. waiters' + sema' = (waiters + sema) - 1
    BY <1>3, <2>3 DEF Inv, CondVarTypeOK, Reconcile
  <2>5. waiters' + sema' = Cardinality(Uncounted')
    BY <2>2, <2>4 DEF Inv, CountsMatchWaiters
  <2>6. waiters' >= 0 /\ sema' >= 0
    BY <1>1 DEF CondVarTypeOK
  <2> QED
    BY <1>1, <2>5, <2>6 DEF Inv, CountsMatchWaiters
<1> QED
  BY <1>2, <1>3 DEF Reconcile

LEMMA NotifyGiveInv ==
    ASSUME Inv, NEW n \in Notifiers, NotifyGive(n) PROVE Inv'
<1>1. CondVarTypeOK'
  BY DEF Inv, CondVarTypeOK, NotifyGive
<1>2. ASSUME NEW w \in Waiters, pc[w] = "pended",
             pc' = [pc EXCEPT ![w] = "ok"], UNCHANGED sema
      PROVE  Inv'
  <2>1. w \in Uncounted /\ Uncounted' = Uncounted \ {w}
    BY <1>2 DEF Inv, CondVarTypeOK, Uncounted
  <2>2. Cardinality(Uncounted') = Cardinality(Uncounted) - 1
    BY <2>1, Leaves
  <2> QED
    BY <1>1, <1>2, <2>2, UncountedFinite
    DEF Inv, CondVarTypeOK, CountsMatchWaiters, NotifyGive
<1>3. ASSUME sema' = sema + 1, UNCHANGED pc
      PROVE  Inv'
  <2>1. Uncounted' = Uncounted
    BY <1>3 DEF Uncounted
  <2> QED
    BY <1>1, <1>3, <2>1 DEF Inv, CondVarTypeOK, CountsMatchWaiters, NotifyGive
<1> QED
  BY <1>2, <1>3 DEF NotifyGive

\* The rest of notify_all changes neither the counts nor a waiter.
LEMMA NotifyRestInv ==
    ASSUME Inv, NEW n \in Notifiers, NotifyBegin(n) \/ NotifyEnd(n) PROVE Inv'
<1>1. CondVarTypeOK'
  BY DEF Inv, CondVarTypeOK, NotifyBegin, NotifyEnd
<1>2. Uncounted' = Uncounted
  BY DEF Uncounted, NotifyBegin, NotifyEnd
<1> QED
  BY <1>1, <1>2 DEF Inv, CountsMatchWaiters, NotifyBegin, NotifyEnd

LEMMA NextInv == Inv /\ [CondVarNext]_condVars => Inv'
<1> SUFFICES ASSUME Inv, [CondVarNext]_condVars PROVE Inv'
  OBVIOUS
<1>1. ASSUME NEW w \in Waiters, WaiterStep(w) PROVE Inv'
  BY <1>1, RegisterInv, TakeOrPendInv, TimeoutInv, ReconcileInv DEF WaiterStep
<1>2. ASSUME NEW n \in Notifiers, NotifierStep(n) PROVE Inv'
  BY <1>2, NotifyGiveInv, NotifyRestInv DEF NotifierStep
<1>3. CASE UNCHANGED condVars
  <2>1. Uncounted' = Uncounted
    BY <1>3 DEF condVars, Uncounted
  <2> QED
    BY <1>3, <2>1 DEF condVars, Inv, CondVarTypeOK, CountsMatchWaiters
<1> QED
  BY <1>1, <1>2, <1>3 DEF CondVarNext

\* wait_for_ms and notify_all keep waiters_ and sema_ well typed: the
\* decrement of a waiter that timed out never makes waiters_ negative.
THEOREM CondVarTypeCorrect == CondVarSpec => []CondVarTypeOK
<1>1. Inv => CondVarTypeOK
  BY DEF Inv
<1> QED
  BY InitInv, NextInv, <1>1, PTL DEF CondVarSpec

\* The counts that notify_all gives and the registrations of wait_for_ms
\* always add up to the waiters without a count, so none leaks or is lost.
THEOREM CountsAlwaysMatch == CondVarSpec => []CountsMatchWaiters
<1>1. Inv => CountsMatchWaiters
  BY DEF Inv
<1> QED
  BY InitInv, NextInv, <1>1, PTL DEF CondVarSpec
=============================================================================
