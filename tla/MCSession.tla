----------------------------- MODULE MCSession -----------------------------
(* Instances of Session for TLC.                                           *)
EXTENDS Session

CONSTANTS k1

Plain    == [timed |-> FALSE, token |-> NoToken, onProgress |-> FALSE]
Timed    == [timed |-> TRUE, token |-> NoToken, onProgress |-> FALSE]
Reported == [timed |-> TRUE, token |-> k1, onProgress |-> TRUE]
Untimed  == [timed |-> FALSE, token |-> k1, onProgress |-> TRUE]

MCTokens == {k1}
AllOptions == {Plain, Timed, Reported, Untimed}
FewOptions == {Plain, Reported}
=============================================================================
