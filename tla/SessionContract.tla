-------------------------- MODULE SessionContract --------------------------
(***************************************************************************)
(* What an HTTP server promises of its sessions, with none of the threads  *)
(* that open, look up, expire, delete and stop them: a session is opened   *)
(* once, under a name that was never used; it is live until someone ends   *)
(* it, and never again afterwards; its channel is closed and its end       *)
(* reported only then, and the end is reported once.                       *)
(***************************************************************************)
EXTENDS Naturals

CONSTANT Sessions

VARIABLES
    opened,  \* sessions that were ever opened
    live,    \* sessions that nobody has begun to end
    closed,  \* sessions whose channel is closed
    reports  \* how often the end of a session was reported

contractVars == <<opened, live, closed, reports>>

Init ==
    /\ opened = {} /\ live = {} /\ closed = {}
    /\ reports = [s \in Sessions |-> 0]

Open(s) ==
    /\ s \notin opened
    /\ opened' = opened \cup {s} /\ live' = live \cup {s}
    /\ UNCHANGED <<closed, reports>>

\* Someone begins to end these sessions, and nobody else will.
Retire(S) ==
    /\ S \subseteq live
    /\ live' = live \ S
    /\ UNCHANGED <<opened, closed, reports>>

Ended == opened \ live

Close(S) ==
    /\ S \subseteq Ended
    /\ closed' = closed \cup S
    /\ UNCHANGED <<opened, live, reports>>

Report(S) ==
    /\ S \subseteq Ended
    /\ \A s \in S : reports[s] = 0
    /\ closed' = closed \cup S
    /\ reports' = [s \in Sessions |-> IF s \in S THEN 1 ELSE reports[s]]
    /\ UNCHANGED <<opened, live>>

Next ==
    \/ \E s \in Sessions : Open(s)
    \/ \E S \in SUBSET Sessions : Retire(S) \/ Close(S) \/ Report(S)

Spec == Init /\ [][Next]_contractVars
=============================================================================
