------------------------------- MODULE Stdio -------------------------------
(***************************************************************************)
(* The two ends of a stdio connection: StdioClientTransport, which spawns  *)
(* the server as a child process, reads its stdout on a thread and takes   *)
(* it down in disconnect, and StdioTransport inside that child, whose read *)
(* thread polls stdin and a wake event while the main thread waits in      *)
(* Server::run for the close.                                              *)
(*                                                                         *)
(* A line is its number.  The child's temper says what makes it exit:      *)
(* "polite" serves with this library and leaves run at end of file, "slow" *)
(* only dies from SIGTERM (or TerminateProcess), "stubborn" only from      *)
(* SIGKILL.  The stderr thread reads like the stdout thread, without a     *)
(* close to report, and joins the same way: it is not modelled separately. *)
(***************************************************************************)
EXTENDS Integers, Sequences, SequencesExt

CONSTANTS
    MaxLines,     \* bound on the lines the client sends to one child
    MaxConnects   \* bound on calls of connect

ASSUME StdioAssumption == MaxLines \in Nat /\ MaxConnects \in Nat

Tempers == {"polite", "slow", "stubborn"}

VARIABLES
    running,      \* StdioClientTransport::running_
    exited,       \* exited_: never reset, not even by connect
    connects,     \* calls of connect that spawned a child
    disc,         \* where disconnect is
    onReader,     \* disconnect was called on the stdout thread
    reader,       \* the stdout thread
    joinable,     \* stdout_thread_.joinable()
    closes,       \* close events of this connection
    aborted,      \* a joinable thread object was assigned to or destroyed
    writer,       \* a sender between its test of stdin_fd_ and its write
    sent,         \* lines written to the current child
    child,        \* "none", "running", "exited" (a zombie) or "reaped"
    temper,
    signal,       \* the strongest signal sent to the current child
    stdin,        \* "open" or "closed": the client's end of the child's stdin
    stdinHeld,    \* another child of the client inherited that end
    stdoutHeld,   \* another process keeps the child's stdout open
    pipe,         \* lines in the child's stdin
    half,         \* the first part of the pipe's first line is read already
    buffer,       \* lines read but not yet processed by the child
    got,          \* lines the child has processed
    srv,          \* the child's read thread
    srvRunning,   \* StdioTransport::running_
    srvWake,      \* StdioTransport::wake_: "quiet", "signalled" or "gone"
    srvMain,      \* the child's main thread
    srvCloses     \* close events of the child's transport

clientVars == <<running, exited, connects, disc, onReader, reader, joinable, closes, aborted,
                writer, sent>>
processVars == <<child, temper, signal, stdin, stdinHeld, stdoutHeld, pipe>>
serverVars == <<half, buffer, got, srv, srvRunning, srvWake, srvMain, srvCloses>>
stdioVars == <<clientVars, processVars, serverVars>>

StdioInit ==
    /\ running = FALSE /\ exited = FALSE /\ connects = 0 /\ disc = "idle" /\ onReader = FALSE
    /\ reader = "none" /\ joinable = FALSE /\ closes = 0 /\ aborted = FALSE
    /\ writer = "idle" /\ sent = 0
    /\ child = "none" /\ temper = "polite" /\ signal = "none"
    /\ stdin = "closed" /\ stdinHeld = FALSE /\ stdoutHeld = FALSE /\ pipe = <<>>
    /\ half = FALSE /\ buffer = <<>> /\ got = <<>> /\ srv = "none" /\ srvRunning = FALSE /\ srvWake = "gone"
    /\ srvMain = "none" /\ srvCloses = 0

Alive == child = "running"

\* What a read of the child's stdin or of its stdout finds.
StdinEof == stdin = "closed" /\ ~stdinHeld /\ pipe = <<>>
StdoutEof == ~Alive /\ ~stdoutHeld

-----------------------------------------------------------------------------
(* The client: connect and send                                            *)

\* StdioTransport::connect in a child that serves with this library.
ServerStarts(t) ==
    /\ half' = FALSE /\ buffer' = <<>> /\ got' = <<>> /\ srvCloses' = 0
    /\ IF t = "polite"
       THEN srv' = "poll" /\ srvRunning' = TRUE /\ srvWake' = "quiet" /\ srvMain' = "run"
       ELSE srv' = "none" /\ srvRunning' = FALSE /\ srvWake' = "gone" /\ srvMain' = "none"

\* spawn: three pipes and a child that holds the far ends.
Spawn(t) ==
    /\ child' = "running" /\ temper' = t /\ signal' = "none"
    /\ stdin' = "open" /\ stdinHeld' = FALSE /\ stdoutHeld' = FALSE /\ pipe' = <<>>
    /\ ServerStarts(t)

\* connect on an idle transport.  (A spawn that fails sets running_ back:
\* nothing changes.)
Connect ==
    /\ ~aborted /\ ~running /\ disc = "idle" /\ ~joinable
    /\ connects < MaxConnects
    /\ connects' = connects + 1
    /\ running' = TRUE
    /\ reader' = "reading" /\ joinable' = TRUE
    /\ closes' = 0 /\ sent' = 0 /\ onReader' = FALSE
    /\ \E t \in Tempers : Spawn(t)
    /\ UNCHANGED <<exited, disc, aborted, writer>>

\* A thread that disconnect did not join is still in the thread object when
\* connect assigns to it, or when the destructor, whose disconnect returns at
\* once, destroys it: the program is terminated, and its descriptors close.
Abort ==
    /\ ~aborted /\ ~running /\ disc = "idle" /\ joinable
    /\ aborted' = TRUE
    /\ stdin' = "closed"
    /\ UNCHANGED <<running, exited, connects, disc, onReader, reader, joinable, closes, writer, sent,
                   child, temper, signal, stdinHeld, stdoutHeld, pipe, serverVars>>

\* send: write_line tests stdin_fd_ ...
SendTest ==
    /\ ~aborted /\ writer = "idle" /\ stdin = "open" /\ sent < MaxLines
    /\ writer' = "tested"
    /\ UNCHANGED <<running, exited, connects, disc, onReader, reader, joinable, closes, aborted, sent,
                   processVars, serverVars>>

\* write_all delivers the line to a child that lives.
WriteAll ==
    IF stdin = "open" /\ Alive
    THEN pipe' = Append(pipe, sent + 1) /\ sent' = sent + 1
    ELSE UNCHANGED <<pipe, sent>>

\* ... and writes.  disconnect closes the descriptor without the write lock,
\* so that it may be gone by now; that and a dead child are write errors.
SendWrite ==
    /\ ~aborted /\ writer = "tested"
    /\ writer' = "idle"
    /\ WriteAll
    /\ UNCHANGED <<running, exited, connects, disc, onReader, reader, joinable, closes, aborted,
                   child, temper, signal, stdin, stdinHeld, stdoutHeld, serverVars>>

-----------------------------------------------------------------------------
(* The client: the stdout thread                                           *)

\* Mutant: end of file is not reported.
ReadEndsQuietly ==
    /\ ~aborted /\ reader = "reading" /\ ~(disc # "idle" /\ onReader)
    /\ StdoutEof \/ (onReader /\ disc = "idle" /\ ~running)
    /\ reader' = "done"
    /\ UNCHANGED <<running, exited, connects, disc, onReader, joinable, closes, aborted, writer, sent,
                   processVars, serverVars>>

\* stdout_loop: end of file, or an error once disconnect closed the
\* descriptor, ends the loop; a disconnect under way is not a close.
ReadEnds ==
    /\ ~aborted /\ reader = "reading" /\ ~(disc # "idle" /\ onReader)
    /\ StdoutEof \/ (onReader /\ disc = "idle" /\ ~running)
    /\ reader' = IF running THEN "closing" ELSE "done"
    /\ UNCHANGED <<running, exited, connects, disc, onReader, joinable, closes, aborted, writer, sent,
                   processVars, serverVars>>

\* emit_close; the handler returns.
ReportClose ==
    /\ ~aborted /\ reader = "closing" /\ ~(disc # "idle" /\ onReader)
    /\ closes' = closes + 1
    /\ reader' = "done"
    /\ UNCHANGED <<running, exited, connects, disc, onReader, joinable, aborted, writer, sent,
                   processVars, serverVars>>

-----------------------------------------------------------------------------
(* The client: disconnect                                                  *)

At(step, next) ==
    /\ ~aborted /\ disc = step
    /\ disc' = next
    /\ UNCHANGED <<running, connects, onReader, reader, closes, aborted, writer, sent, serverVars>>

\* disconnect by the application, or by a handler on the stdout thread.
Disconnect ==
    /\ ~aborted /\ running /\ disc = "idle"
    /\ running' = FALSE
    /\ disc' = "close"
    /\ onReader' \in {FALSE, (reader \in {"reading", "closing"})}
    /\ UNCHANGED <<exited, connects, reader, joinable, closes, aborted, writer, sent, processVars,
                   serverVars>>

\* close_fd(stdin_fd_); a child known to have exited is not waited for.
CloseStdin ==
    /\ At("close", IF exited THEN "join" ELSE "wait1")
    /\ stdin' = "closed"
    /\ UNCHANGED <<exited, joinable, child, temper, signal, stdinHeld, stdoutHeld, pipe>>

After(wait) == CASE wait = "wait1" -> "term" [] wait = "wait2" -> "kill" [] wait = "wait3" -> "join"

\* Mutant: the result of wait_exit is not looked at.
WaitExitIgnored(wait) ==
    /\ At(wait, After(wait))
    /\ child \in {"exited", "reaped"}
    /\ child' = "reaped"
    /\ exited' = TRUE
    /\ UNCHANGED <<joinable, temper, signal, stdin, stdinHeld, stdoutHeld, pipe>>

\* wait_exit finds the child gone and collects it.
WaitExit(wait) ==
    /\ At(wait, "join")
    /\ child \in {"exited", "reaped"}
    /\ child' = "reaped"
    /\ exited' = TRUE
    /\ UNCHANGED <<joinable, temper, signal, stdin, stdinHeld, stdoutHeld, pipe>>

\* wait_exit runs into the grace period.
WaitTimesOut(wait) ==
    /\ At(wait, After(wait))
    /\ Alive
    /\ UNCHANGED <<exited, joinable, processVars>>

\* terminate(force = false): SIGTERM, or TerminateProcess on Windows.
Terminate ==
    /\ At("term", "wait2")
    /\ signal' = "term"
    /\ UNCHANGED <<exited, joinable, child, temper, stdin, stdinHeld, stdoutHeld, pipe>>

\* Mutant: the last step sends SIGTERM again.
KillAgainPolitely ==
    /\ At("kill", "wait3")
    /\ signal' = "term"
    /\ UNCHANGED <<exited, joinable, child, temper, stdin, stdinHeld, stdoutHeld, pipe>>

\* terminate(force = true).
Kill ==
    /\ At("kill", "wait3")
    /\ signal' = "kill"
    /\ UNCHANGED <<exited, joinable, child, temper, stdin, stdinHeld, stdoutHeld, pipe>>

\* Mutant: the reading threads are not joined.
ClosesWithoutJoin ==
    /\ At("join", "idle")
    /\ joinable' = joinable
    /\ UNCHANGED <<exited, processVars>>

\* Join the reading threads, unless this is one of them, and close their
\* descriptors.
JoinReader ==
    /\ onReader \/ reader = "done"
    /\ At("join", "idle")
    /\ joinable' = (joinable /\ onReader)
    /\ UNCHANGED <<exited, processVars>>

-----------------------------------------------------------------------------
(* The child's transport                                                   *)

Server(at, next) ==
    /\ Alive /\ srv = at
    /\ srv' = next
    /\ UNCHANGED <<clientVars, child, temper, signal, stdin, stdinHeld, stdoutHeld>>

LoopTop == IF srvRunning THEN "poll" ELSE "closing"

\* poll_readable returns for the wake event first ...
PollWoken ==
    /\ srvWake = "signalled"
    /\ Server("poll", IF srvRunning THEN "poll" ELSE "done")
    /\ UNCHANGED <<pipe, half, buffer, got, srvRunning, srvWake, srvMain, srvCloses>>

\* ... and otherwise for input, or the end of it, which is then read.
PollReadable ==
    /\ srvWake # "signalled"
    /\ pipe # <<>> \/ StdinEof
    /\ Server("poll", "read")
    /\ UNCHANGED <<pipe, half, buffer, got, srvRunning, srvWake, srvMain, srvCloses>>

\* read_some takes a part of what is there: n whole lines, and with h a part of
\* the next one, which then has no line break yet.
ReadSome ==
    \E n \in 0..Len(pipe), h \in BOOLEAN :
        /\ n > 0 \/ (h /\ ~half)
        /\ h => n < Len(pipe)
        /\ half' = h
        /\ buffer' = buffer \o SubSeq(pipe, 1, n)
        /\ pipe' = SubSeq(pipe, n + 1, Len(pipe))

Read ==
    /\ Server("read", "lines")
    /\ pipe # <<>>
    /\ ReadSome
    /\ UNCHANGED <<got, srvRunning, srvWake, srvMain, srvCloses>>

\* Mutant: end of file is taken for nothing to read.
ReadStopsRetried ==
    /\ pipe = <<>> /\ Server("read", "poll")
    /\ UNCHANGED <<pipe, half, buffer, got, srvRunning, srvWake, srvMain, srvCloses>>

\* End of file leaves the loop.
ReadStops ==
    /\ pipe = <<>> /\ Server("read", "closing")
    /\ UNCHANGED <<pipe, half, buffer, got, srvRunning, srvWake, srvMain, srvCloses>>

\* So does a failed poll or read, after reporting an error.
ReadFails ==
    /\ Server("read", "failed")
    /\ UNCHANGED <<pipe, half, buffer, got, srvRunning, srvWake, srvMain, srvCloses>>

\* The handler of a line may close the transport: disconnect on the read
\* thread does not join it, and the wake event it destroys is not polled
\* again.
ProcessLine ==
    /\ got' = Append(got, Head(buffer))
    /\ buffer' = Tail(buffer)
    /\ \/ UNCHANGED <<srvRunning, srvWake>>
       \/ srvRunning' = FALSE /\ srvWake' = "gone"

\* Mutant: one line is processed for each read.
LineOncePerRead ==
    /\ buffer # <<>>
    /\ Server("lines", LoopTop)
    /\ ProcessLine
    /\ UNCHANGED <<pipe, half, srvMain, srvCloses>>

\* Mutant: the line is not erased from the buffer.
LineNotErased ==
    /\ buffer # <<>>
    /\ Server("lines", "lines")
    /\ got' = Append(got, Head(buffer))
    /\ UNCHANGED <<pipe, half, buffer, srvRunning, srvWake, srvMain, srvCloses>>

\* process_line for every complete line of the buffer.
Line ==
    /\ buffer # <<>>
    /\ Server("lines", "lines")
    /\ ProcessLine
    /\ UNCHANGED <<pipe, half, srvMain, srvCloses>>

\* The buffer holds no complete line any more.
LinesDone ==
    /\ buffer = <<>>
    /\ Server("lines", LoopTop)
    /\ UNCHANGED <<pipe, half, buffer, got, srvRunning, srvWake, srvMain, srvCloses>>

\* After the loop: running_ = false and emit_close.
ServerCloses ==
    /\ Server("closing", "done") \/ Server("failed", "done")
    /\ srvRunning' = FALSE
    /\ srvCloses' = srvCloses + 1
    /\ UNCHANGED <<pipe, half, buffer, got, srvWake, srvMain>>

\* Server::run returns when the close was reported; an application may also
\* call disconnect itself.
MainDisconnects ==
    /\ Alive /\ srvMain = "run"
    /\ srvMain' = "join"
    /\ srvWake' = IF srvRunning /\ srvWake # "gone" THEN "signalled" ELSE srvWake
    /\ srvRunning' = FALSE
    /\ UNCHANGED <<clientVars, processVars, half, buffer, got, srv, srvCloses>>

\* Mutant: the wake event is destroyed before the thread is joined.
ResetBeforeJoin ==
    /\ Alive /\ srvMain = "join"
    /\ srvMain' = "returned"
    /\ srvWake' = "gone"
    /\ UNCHANGED <<clientVars, processVars, half, buffer, got, srv, srvRunning, srvCloses>>

\* read_thread_.join, wake_.reset, and the end of main.
MainJoins ==
    /\ Alive /\ srvMain = "join" /\ srv = "done"
    /\ srvMain' = "returned"
    /\ srvWake' = "gone"
    /\ UNCHANGED <<clientVars, processVars, half, buffer, got, srv, srvRunning, srvCloses>>

-----------------------------------------------------------------------------
(* Processes                                                               *)

\* The child ends: main returned, a signal took it down, or (any child) it
\* crashed.
Exit ==
    /\ Alive
    /\ child' = "exited"
    /\ UNCHANGED <<clientVars, temper, signal, stdin, stdinHeld, stdoutHeld, pipe, serverVars>>

MustExit ==
    \/ srvMain = "returned"
    \/ signal = "term" /\ temper # "stubborn"
    \/ signal = "kill"

\* A child that the client spawns later inherits the write end of this
\* child's stdin: spawn sets no close-on-exec (POSIX only).
SiblingInherits ==
    /\ Alive /\ stdin = "open" /\ ~stdinHeld
    /\ stdinHeld' = TRUE
    /\ UNCHANGED <<clientVars, child, temper, signal, stdin, stdoutHeld, pipe, serverVars>>

SiblingExits ==
    /\ stdinHeld
    /\ stdinHeld' = FALSE
    /\ UNCHANGED <<clientVars, child, temper, signal, stdin, stdoutHeld, pipe, serverVars>>

\* A process the child starts keeps its stdout and outlives it.
GrandchildStays ==
    /\ Alive /\ ~stdoutHeld /\ temper = "slow"
    /\ stdoutHeld' = TRUE
    /\ UNCHANGED <<clientVars, child, temper, signal, stdin, stdinHeld, pipe, serverVars>>

-----------------------------------------------------------------------------
ClientStep ==
    \/ ReadEnds \/ ReportClose
    \/ CloseStdin \/ Terminate \/ Kill \/ JoinReader
    \/ \E w \in {"wait1", "wait2", "wait3"} : WaitExit(w) \/ WaitTimesOut(w)

\* The same without the first grace period running out on a child that only
\* has to read the end of its input: nothing may depend on the signal it
\* would then be sent.
PatientStep ==
    ClientStep /\ ~(disc = "wait1" /\ disc' = "term" /\ temper = "polite" /\ ~stdinHeld)

ServerStep ==
    \/ PollWoken \/ PollReadable \/ Read \/ ReadStops \/ Line \/ LinesDone \/ ServerCloses
    \/ MainJoins \/ (srvCloses > 0 /\ MainDisconnects)

StdioNext ==
    \/ Connect \/ Abort \/ SendTest \/ SendWrite \/ Disconnect
    \/ ClientStep \/ ServerStep \/ ReadFails \/ MainDisconnects
    \/ Exit \/ SiblingInherits \/ SiblingExits \/ GrandchildStays

StdioSpec == StdioInit /\ [][StdioNext]_stdioVars

-----------------------------------------------------------------------------
(* Properties                                                              *)

\* Every variable holds a value the two transports can give it.
StdioTypeOK ==
    /\ running \in BOOLEAN /\ exited \in BOOLEAN /\ onReader \in BOOLEAN /\ joinable \in BOOLEAN
    /\ connects \in 0..MaxConnects /\ aborted \in BOOLEAN /\ writer \in {"idle", "tested"}
    /\ disc \in {"idle", "close", "wait1", "term", "wait2", "kill", "wait3", "join"}
    /\ reader \in {"none", "reading", "closing", "done"}
    /\ closes \in 0..1 /\ srvCloses \in 0..1
    /\ child \in {"none", "running", "exited", "reaped"} /\ temper \in Tempers
    /\ signal \in {"none", "term", "kill"} /\ stdin \in {"open", "closed"}
    /\ stdinHeld \in BOOLEAN /\ stdoutHeld \in BOOLEAN /\ half \in BOOLEAN /\ sent \in 0..MaxLines
    /\ pipe \in Seq(1..MaxLines) /\ buffer \in Seq(1..MaxLines) /\ got \in Seq(1..MaxLines)
    /\ srv \in {"none", "poll", "read", "lines", "closing", "failed", "done"}
    /\ srvRunning \in BOOLEAN /\ srvWake \in {"quiet", "signalled", "gone"}
    /\ srvMain \in {"none", "run", "join", "returned"}

\* disconnect signals only a process it has not collected: after wait_exit has
\* reaped the child, its pid may belong to another process.
SignalsOwnChild == disc \in {"term", "kill"} => child \in {"running", "exited"}

\* Once the read thread leaves its loop for end of file, every line the client
\* wrote has been processed, in the order it was written.
NoLineLostAtEof ==
    /\ IsPrefix(got, [i \in 1..sent |-> i])
    /\ srv = "closing" /\ srvRunning => Len(got) = sent

\* StdioTransport is a Transport that loses nothing: over each connection the
\* lines of the client reach process_line once and in order, however the reads
\* cut them, and the close is reported once and after them.
Transport == INSTANCE TransportContract
    WITH Lossless <- TRUE, connection <- connects, offered <- sent, delivered <- got,
         closes <- srvCloses
ImplementsTransport == Transport!Spec

\* The child's read thread never polls a wake event that disconnect has
\* destroyed.  The client's thread objects are destroyed, or assigned to, while
\* joinable, which terminates the program, only after a disconnect on the
\* stdout thread: there the code does leave one behind.
StdioQuiet ==
    /\ srv \in {"poll", "read"} => srvWake # "gone"
    /\ aborted => onReader

\* disconnect has begun, and has returned: it does so however the child
\* behaves, unless another process keeps its stdout open, or exited_ is left
\* from an earlier child.
StdioDisconnecting == disc # "idle" /\ connects = 1
StdioDisconnected == disc = "idle" \/ stdoutHeld

\* The child of a connected client dies, and this is reported as a close.
StdioPeerLost == running /\ child = "exited"
StdioLossReported == closes > 0 \/ ~running \/ stdoutHeld

\* A child that serves with this library has lost its stdin, and has ended,
\* also when no signal is sent, unless another process still holds that pipe.
InputClosed == stdin = "closed" /\ temper = "polite" /\ Alive
Ended == ~Alive \/ stdinHeld
=============================================================================
