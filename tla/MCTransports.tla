---------------------------- MODULE MCTransports ----------------------------
(***************************************************************************)
(* The two transports a client chooses from: HttpClient, or Stdio with the *)
(* server process at its other end.  A behaviour is one of either; what    *)
(* the other one declares stays as it was.                                 *)
(***************************************************************************)
EXTENDS HttpClient, Stdio

VARIABLE transport  \* "http" or "stdio"

HttpRuns == transport = "http"
StdioRuns == transport = "stdio"
Either(h, s) == (HttpRuns /\ h) \/ (StdioRuns /\ s)

transportsVars == <<transport, httpVars, stdioVars>>

Init == transport \in {"http", "stdio"} /\ HttpInit /\ StdioInit

Next ==
    \/ HttpRuns /\ HttpNext /\ UNCHANGED <<transport, stdioVars>>
    \/ StdioRuns /\ StdioNext /\ UNCHANGED <<transport, httpVars>>

Spec == Init /\ [][Next]_transportsVars

\* The threads of the transport that is in use are scheduled: the event stream's
\* and the one that disconnects, the client's and the child's, and a process
\* that has to exit does.  The grace period of disconnect may be as long as a
\* child that reads the end of its input takes to leave (PatientStep).
FairSpec ==
    /\ Spec
    /\ WF_httpVars(HttpRuns /\ SseStep) /\ WF_httpVars(HttpRuns /\ DisconnectStep)
    /\ WF_stdioVars(StdioRuns /\ PatientStep) /\ WF_stdioVars(StdioRuns /\ ServerStep)
    /\ WF_stdioVars(StdioRuns /\ MustExit /\ Exit)

-----------------------------------------------------------------------------
(* Properties; those of one transport are in its module.                   *)

\* Every variable of HttpClientTransport and StdioClientTransport, and of the
\* StdioTransport of the child, holds a value the code can give it.
TypeOK == HttpTypeOK /\ StdioTypeOK

\* disconnect leaves none of its own threads to a wake event it has destroyed
\* or to a thread object it leaves joinable, unless it runs on that thread:
\* sse_loop of HttpClientTransport, the stdout thread of StdioClientTransport,
\* the read thread of StdioTransport.  Only a disconnect on the transport's own
\* thread is followed by a std::terminate.  (Senders are not covered.)
QuietAfterDisconnect == HttpQuiet /\ StdioQuiet

\* disconnect returns: that of HttpClientTransport although sse_loop may sleep
\* in a poll that has no time-out, unless the server takes the DELETE and then
\* stays silent; that of StdioClientTransport however its first child takes the
\* end of its input and the signals, unless another process keeps its stdout.
DisconnectReturns ==
    Either(HttpDisconnecting, StdioDisconnecting) ~> Either(HttpDisconnected, StdioDisconnected)

\* A loss of the peer that can be seen is reported as a close: sse_loop gives
\* up on a server that breaks or refuses its connections while there is a
\* session id, and the stdout thread sees the death of the child.  A server
\* that falls silent under an open stream is not noticed.
LossIsReported ==
    Either(HttpPeerLost, StdioPeerLost) ~> Either(HttpLossReported, StdioLossReported)

\* Closing its stdin ends a child that uses StdioTransport, without a signal.
EofEndsServer == (StdioRuns /\ InputClosed) ~> Ended
=============================================================================
