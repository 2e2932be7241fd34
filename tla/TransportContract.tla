------------------------- MODULE TransportContract -------------------------
(***************************************************************************)
(* What the receiving end of a Transport promises, with none of the        *)
(* pipes, buffers, rings and threads that keep the promise: the messages   *)
(* of a connection, numbered as they were handed to send, reach the        *)
(* message handler at most once and in this order, none before it was      *)
(* sent, and the close handler is called at most once, after the last of   *)
(* them.  A transport over one byte stream leaves none out; the resumable  *)
(* event stream may lose some when a connection breaks.                    *)
(***************************************************************************)
EXTENDS Naturals, Sequences

CONSTANT Lossless  \* no message is left out

VARIABLES
    connection,  \* how often the transport was connected
    offered,     \* messages sent over this connection
    delivered,   \* messages the handler has received, in this order
    closes       \* calls of the close handler for this connection

transportVars == <<connection, offered, delivered, closes>>

Init ==
    /\ connection = 0 /\ offered = 0
    /\ delivered = <<>> /\ closes = 0

\* connect: everything begins again.
Reconnect ==
    /\ connection' = connection + 1
    /\ offered' = 0 /\ delivered' = <<>> /\ closes' = 0

Offer ==
    /\ offered' = offered + 1
    /\ UNCHANGED <<connection, delivered, closes>>

Newest == IF delivered = <<>> THEN 0 ELSE delivered[Len(delivered)]

\* The handler receives a message newer than all before.
Deliver(n) ==
    /\ closes = 0
    /\ n \in Newest + 1..offered
    /\ Lossless => n = Newest + 1
    /\ delivered' = Append(delivered, n)
    /\ UNCHANGED <<connection, offered, closes>>

Close ==
    /\ closes = 0
    /\ closes' = 1
    /\ UNCHANGED <<connection, offered, delivered>>

Next == Reconnect \/ Offer \/ Close \/ \E n \in 1..offered : Deliver(n)

Spec == Init /\ [][Next]_transportVars
=============================================================================
