-------------------------- MODULE RequestContract --------------------------
(***************************************************************************)
(* What Session::send_request promises of one callback, with none of the   *)
(* threads and tables that keep the promise: a request that was issued is  *)
(* completed at most once, is never completed before it was issued, and a  *)
(* completion is never taken back.  Session implements this contract.      *)
(***************************************************************************)
EXTENDS Naturals

CONSTANT Ids        \* the request ids

VARIABLES issued,   \* ids whose callback was handed to the session
          delivered \* number of times the callback of an id has run

contractVars == <<issued, delivered>>

Init ==
    /\ issued = {}
    /\ delivered = [r \in Ids |-> 0]

Issue(r) ==
    /\ r \notin issued
    /\ issued' = issued \cup {r}
    /\ UNCHANGED delivered

Complete(r) ==
    /\ r \in issued
    /\ delivered[r] = 0
    /\ delivered' = [delivered EXCEPT ![r] = 1]
    /\ UNCHANGED issued

Next == \E r \in Ids : Issue(r) \/ Complete(r)

Spec == Init /\ [][Next]_contractVars
=============================================================================
