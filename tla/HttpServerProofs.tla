-------------------------- MODULE HttpServerProofs --------------------------
(***************************************************************************)
(* The HTTP server, for any number of connections, sessions, descriptors   *)
(* and any set of request bodies: a thread works on its own socket until   *)
(* it closes it, stop leaves nothing behind, of all the threads that       *)
(* remove a session exactly one reports it, and a POST is answered with    *)
(* the answers to its own messages.                                        *)
(***************************************************************************)
EXTENDS HttpServer, TLAPS

-----------------------------------------------------------------------------
(* Descriptors                                                             *)

Places == {"none", "held", "read", "evict", "route", "terminate", "attach", "stream",
           "deliver", "finish", "erase", "closed"}

Phases == {"idle", "serving", "wake", "signal", "shutdown", "join", "notify", "done"}

DescriptorTypes ==
    /\ running \in BOOLEAN
    /\ acceptor \in {"none", "poll", "register", "done"}
    /\ stopper \in Phases
    /\ at \in [Conns -> Places]
    /\ fd \in [Conns -> 0..MaxFds]
    /\ open \in [1..MaxFds -> 0..MaxConns]
    /\ connFds \subseteq 1..MaxFds

\* A connection that was accepted and is not closed has a descriptor, which is
\* open for this connection; every other descriptor is closed.
Descriptors ==
    /\ \A c \in Conns : at[c] \notin {"none", "closed"} =>
          fd[c] \in 1..MaxFds /\ open[fd[c]] = c
    /\ \A d \in 1..MaxFds : open[d] # None =>
          open[d] \in Conns /\ at[open[d]] \notin {"none", "closed"} /\ fd[open[d]] = d

\* The accept loop has at most one connection that is not in the list yet.
OneHeld ==
    /\ \A c \in Conns : at[c] = "held" => acceptor = "register"
    /\ \A b, c \in Conns : at[b] = "held" /\ at[c] = "held" => b = c

\* How far start, the accept loop and stop can be apart.
InPhase ==
    /\ running => stopper \in {"serving", "wake", "signal"}
    /\ stopper = "idle" => acceptor = "none"
    /\ acceptor = "none" => \A c \in Conns : at[c] = "none"
    /\ stopper \in {"notify", "done"} => acceptor \in {"none", "done"} /\ Spawned = {}

DescriptorInv == DescriptorTypes /\ Descriptors /\ OneHeld /\ InPhase /\ OwnDescriptor

\* A thread moves from one of its places to another.
ThreadMoves ==
    /\ at' \in [Conns -> Places]
    /\ \A c \in Conns : {at[c], at'[c]} \cap {"none", "held", "closed"} # {} => at'[c] = at[c]
    /\ UNCHANGED <<running, acceptor, stopper, fd, open, connFds>>

\* Connection threads that neither begin nor end leave the descriptors alone.
LEMMA ThreadMovesInv ==
    ASSUME DescriptorInv, ThreadMoves PROVE DescriptorInv'
<1> USE DEF ThreadMoves
<1>1. \A c \in Conns : \A p \in {"none", "held", "closed"} : at'[c] = p <=> at[c] = p
  BY DEF DescriptorInv, DescriptorTypes
<1>2. Spawned' = Spawned
  BY <1>1 DEF Spawned
<1>3. DescriptorTypes'
  BY DEF DescriptorInv, DescriptorTypes
<1>4. Descriptors'
  BY <1>1 DEF DescriptorInv, Descriptors
<1>5. OneHeld' /\ InPhase'
  BY <1>1, <1>2 DEF DescriptorInv, OneHeld, InPhase
<1>6. OwnDescriptor'
  BY <1>2 DEF DescriptorInv, OwnDescriptor
<1> QED
  BY <1>3, <1>4, <1>5, <1>6 DEF DescriptorInv

\* What Reply does to the thread's place.
LEMMA ReplyMoves ==
    ASSUME DescriptorTypes, NEW c \in Conns, NEW code, Reply(c, code),
           at[c] \notin {"none", "held", "closed"},
           UNCHANGED <<running, acceptor, stopper, fd, open, connFds>>
    PROVE  ThreadMoves
  BY DEF DescriptorTypes, Reply, ThreadMoves, Places

\* Every step of a connection thread but the last is such a move.
LEMMA ConnMoves ==
    ASSUME DescriptorInv, NEW c \in Conns,
           ConnStep(c) \/ ReadRefused(c) \/ ReadRequest(c) \/ StreamWriteFails(c), ~Erase(c)
    PROVE  ThreadMoves
<1> USE DEF serverVars, fdVars, sessionVars, connVars
<1>0. DescriptorTypes
  BY DEF DescriptorInv
<1>1. CASE ReadGivesUp(c) \/ StreamEnds(c) \/ StreamWriteFails(c)
  BY <1>0, <1>1 DEF ReadGivesUp, StreamEnds, StreamWriteFails, ThreadMoves, DescriptorTypes, Places
<1>2. CASE ReadRefused(c)
  BY <1>0, <1>2, ReplyMoves DEF ReadRefused
<1>3. CASE ReadRequest(c)
  BY <1>0, <1>3 DEF ReadRequest, Sweep, ThreadMoves, DescriptorTypes, Places
<1>4. CASE Evict(c) \/ Delete(c) \/ Get(c) \/ TransportGet(c) \/ Post(c) \/ TransportPost(c)
  BY <1>0, <1>4 DEF Evict, Delete, Get, TransportGet, Post, TransportPost, ThreadMoves,
    DescriptorTypes, Places
<1>5. CASE DeleteRefused(c) \/ GetRefused(c)
  BY <1>0, <1>5, ReplyMoves DEF DeleteRefused, GetRefused
<1>6. CASE PostRefused(c) \/ TransportRefused(c) \/ Unknown(c)
  BY <1>0, <1>6, ReplyMoves DEF PostRefused, TransportRefused, Unknown
<1>7. CASE DeleteDone(c) \/ PostReply(c) \/ TransportReply(c)
  BY <1>0, <1>7, ReplyMoves DEF DeleteDone, PostReply, TransportReply
<1>8. CASE AttachStream(c)
  BY <1>0, <1>8 DEF AttachStream, Streaming, ThreadMoves, DescriptorTypes, Places
<1>9. CASE Initialize(c)
  <2>1. CASE at' = [at EXCEPT ![c] = "deliver"]
    BY <1>0, <1>9, <2>1 DEF Initialize, ThreadMoves, DescriptorTypes, Places
  <2>2. CASE Reply(c, 500)
    BY <1>0, <1>9, <2>2, ReplyMoves DEF Initialize
  <2> QED
    BY <1>9, <2>1, <2>2 DEF Initialize
<1>10. CASE Deliver(c) \/ Finish(c)
  BY <1>0, <1>10 DEF Deliver, Finish, ThreadMoves, DescriptorTypes, Places
<1> QED
  BY <1>1, <1>2, <1>3, <1>4, <1>5, <1>6, <1>7, <1>8, <1>9, <1>10 DEF ConnStep

\* tcp_close by the thread that ends.
LEMMA EraseInv ==
    ASSUME DescriptorInv, NEW c \in Conns, Erase(c) PROVE DescriptorInv'
<1> USE DEF Erase, serverVars, connVars, sessionVars
<1>1. c \in Spawned /\ fd[c] \in 1..MaxFds /\ open[fd[c]] = c /\ fd[c] \in connFds
  BY DEF DescriptorInv, Descriptors, OwnDescriptor, Spawned
<1>2. \A b \in Conns : at[b] \notin {"none", "closed"} /\ b # c => fd[b] # fd[c]
  BY <1>1 DEF DescriptorInv, Descriptors
<1>3. /\ open' = [open EXCEPT ![fd[c]] = None]
      /\ at'[c] = "closed" /\ \A b \in Conns \ {c} : at'[b] = at[b]
      /\ \A b \in Conns \ {c} : fd'[b] = fd[b]
  BY <1>1 DEF DescriptorInv, DescriptorTypes
<1>4. DescriptorTypes'
  <2>1. at' \in [Conns -> Places] /\ fd' \in [Conns -> 0..MaxFds]
    BY HttpServerAssumption DEF DescriptorInv, DescriptorTypes, Places, None
  <2>2. open' \in [1..MaxFds -> 0..MaxConns]
    <3>1. None \in 0..MaxConns
      BY HttpServerAssumption DEF None
    <3> QED
      BY <1>3, <3>1 DEF DescriptorInv, DescriptorTypes
  <2>3. connFds' \subseteq 1..MaxFds
    BY DEF DescriptorInv, DescriptorTypes
  <2> QED
    BY <2>1, <2>2, <2>3 DEF DescriptorInv, DescriptorTypes
<1>5. Descriptors'
  BY <1>1, <1>2, <1>3 DEF DescriptorInv, DescriptorTypes, Descriptors, None
<1>6. Spawned' = Spawned \ {c}
  BY <1>3 DEF Spawned
<1>7. OneHeld' /\ InPhase'
  BY <1>1, <1>3, <1>6 DEF DescriptorInv, OneHeld, InPhase, Spawned
<1>8. \A b \in Spawned' : open'[fd'[b]] = b
  BY <1>3, <1>5 DEF Descriptors, Spawned
<1>9. connFds' = {fd'[b] : b \in Spawned'}
  <2>1. \A b \in Spawned' : fd'[b] = fd[b] /\ fd[b] # fd[c]
    BY <1>2, <1>3, <1>6 DEF Spawned
  <2>2. connFds' = {fd[b] : b \in Spawned} \ {fd[c]}
    BY DEF DescriptorInv, OwnDescriptor
  <2> QED
    BY <1>6, <2>1, <2>2
<1> QED
  BY <1>4, <1>5, <1>7, <1>8, <1>9 DEF DescriptorInv, OwnDescriptor

\* accept_loop takes a descriptor that nobody has.
LEMMA AcceptInv ==
    ASSUME DescriptorInv, NEW c \in Conns, Accept(c) PROVE DescriptorInv'
<1> USE DEF Accept, connVars, sessionVars
<1>1. PICK d \in 1..MaxFds : open[d] = None /\ open' = [open EXCEPT ![d] = c]
                              /\ fd' = [fd EXCEPT ![c] = d]
  BY DEF DescriptorInv, DescriptorTypes
<1>2. /\ at'[c] = "held" /\ fd'[c] = d /\ open'[d] = c /\ at[c] = "none"
      /\ \A b \in Conns \ {c} : at'[b] = at[b] /\ fd'[b] = fd[b]
      /\ \A e \in (1..MaxFds) \ {d} : open'[e] = open[e]
  BY <1>1 DEF DescriptorInv, DescriptorTypes
<1>3. \A b \in Conns : at[b] \notin {"none", "closed"} => fd[b] # d
  BY <1>1 DEF DescriptorInv, Descriptors, None, Conns
<1>4. DescriptorTypes'
  BY <1>1, HttpServerAssumption DEF DescriptorInv, DescriptorTypes, Places, Conns
<1>5. Descriptors'
  <2>1. \A b \in Conns : at'[b] \notin {"none", "closed"} =>
            fd'[b] \in 1..MaxFds /\ open'[fd'[b]] = b
    BY <1>2, <1>3 DEF DescriptorInv, Descriptors
  <2>2. \A e \in 1..MaxFds : open'[e] # None =>
            open'[e] \in Conns /\ at'[open'[e]] \notin {"none", "closed"} /\ fd'[open'[e]] = e
    BY <1>2 DEF DescriptorInv, Descriptors
  <2> QED
    BY <2>1, <2>2 DEF Descriptors
<1>6. Spawned' = Spawned /\ c \notin Spawned
  BY <1>2 DEF Spawned
<1>7. OneHeld' /\ InPhase'
  BY <1>2, <1>6 DEF DescriptorInv, OneHeld, InPhase
<1>8. OwnDescriptor'
  <2>1. \A b \in Spawned : fd'[b] = fd[b] /\ open'[fd'[b]] = b
    BY <1>2, <1>5, <1>6 DEF Spawned, Descriptors
  <2> QED
    BY <1>6, <2>1 DEF DescriptorInv, OwnDescriptor
<1> QED
  BY <1>4, <1>5, <1>7, <1>8 DEF DescriptorInv

\* accept_loop lists the connection and starts its thread, or closes it
\* because stop has begun.
LEMMA RegisterInv ==
    ASSUME DescriptorInv, NEW c \in Conns, Register(c) PROVE DescriptorInv'
<1> USE DEF Register, connVars, sessionVars
<1>1. /\ fd[c] \in 1..MaxFds /\ open[fd[c]] = c /\ at[c] = "held" /\ c \notin Spawned
      /\ \A b \in Conns \ {c} : at[b] # "held" /\ at'[b] = at[b]
  BY DEF DescriptorInv, DescriptorTypes, Descriptors, OneHeld, Spawned
<1>2. \A b \in Conns \ {c} : at[b] \notin {"none", "closed"} => fd[b] # fd[c]
  BY <1>1 DEF DescriptorInv, Descriptors
<1>3. CASE running
  <2>1. at'[c] = "read" /\ connFds' = connFds \cup {fd[c]} /\ UNCHANGED <<open, fd>>
    BY <1>3 DEF DescriptorInv, DescriptorTypes
  <2>2. DescriptorTypes'
    BY <1>1, <1>3, <2>1 DEF DescriptorInv, DescriptorTypes, Places
  <2>3. Descriptors'
    BY <1>1, <2>1 DEF DescriptorInv, DescriptorTypes, Descriptors
  <2>4. Spawned' = Spawned \cup {c}
    BY <1>1, <2>1 DEF Spawned
  <2>5. OneHeld' /\ InPhase'
    BY <1>1, <1>3, <2>1 DEF DescriptorInv, OneHeld, InPhase
  <2>6. OwnDescriptor'
    BY <1>1, <2>1, <2>4 DEF DescriptorInv, OwnDescriptor
  <2> QED
    BY <2>2, <2>3, <2>5, <2>6 DEF DescriptorInv
<1>4. CASE ~running
  <2>1. /\ at'[c] = "closed" /\ open' = [open EXCEPT ![fd[c]] = None]
        /\ acceptor' = "done" /\ UNCHANGED <<connFds, fd>>
    BY <1>4 DEF DescriptorInv, DescriptorTypes
  <2>2. DescriptorTypes'
    BY <1>1, <1>4, <2>1, HttpServerAssumption DEF DescriptorInv, DescriptorTypes, Places, None
  <2>3. Descriptors'
    BY <1>1, <1>2, <2>1 DEF DescriptorInv, DescriptorTypes, Descriptors, None
  <2>4. Spawned' = Spawned
    BY <1>1, <2>1 DEF Spawned
  <2>5. OneHeld' /\ InPhase'
    BY <1>1, <1>4, <2>1, <2>4 DEF DescriptorInv, OneHeld, InPhase
  <2>6. \A b \in Spawned : open'[fd[b]] = b
    BY <2>1, <2>3, <2>4 DEF Spawned, Descriptors
  <2>7. OwnDescriptor'
    BY <2>1, <2>4, <2>6 DEF DescriptorInv, OwnDescriptor
  <2> QED
    BY <2>2, <2>3, <2>5, <2>7 DEF DescriptorInv
<1> QED
  BY <1>3, <1>4 DEF DescriptorInv, DescriptorTypes

\* start, and stop up to the joins, change neither connections nor descriptors.
LEMMA StopperInv ==
    ASSUME DescriptorInv,
           \/ Start \/ Connect \/ StopRemoveAll \/ Disconnect \/ StopDisconnect \/ StopSignal
           \/ StopShutdownFds \/ StopNotify \/ EmitClose \/ AcceptExit
    PROVE  DescriptorInv'
<1> USE DEF serverVars, fdVars, sessionVars, connVars
<1>1. UNCHANGED <<at, fd, open, connFds>>
  BY DEF Start, Connect, StopRemoveAll, Disconnect, StopDisconnect, StopSignal, StopShutdownFds,
    StopNotify, EmitClose, AcceptExit
<1>2. Spawned' = Spawned
  BY <1>1 DEF Spawned
<1>3. Descriptors' /\ OwnDescriptor'
  BY <1>1, <1>2 DEF DescriptorInv, Descriptors, OwnDescriptor
<1>4. CASE Start \/ Connect
  <2>1. /\ stopper = "idle" /\ acceptor = "none"
        /\ \/ running' = TRUE /\ acceptor' = "poll" /\ stopper' = "serving"
           \/ stopper' = "done" /\ UNCHANGED <<running, acceptor>>
    BY <1>4 DEF Start, Connect, Listen, DescriptorInv, InPhase
  <2>2. Spawned = {} /\ \A c \in Conns : at[c] = "none"
    BY <2>1 DEF DescriptorInv, InPhase, Spawned
  <2>3. DescriptorTypes'
    <3>1. running' \in BOOLEAN
      BY <2>1 DEF DescriptorInv, DescriptorTypes
    <3> QED
      BY <1>1, <2>1, <3>1 DEF DescriptorInv, DescriptorTypes, Phases
  <2>4. ~running
    BY <2>1 DEF DescriptorInv, InPhase
  <2>5. OneHeld' /\ InPhase'
    BY <1>1, <1>2, <2>1, <2>2, <2>4 DEF OneHeld, InPhase
  <2> QED
    BY <1>3, <2>3, <2>5 DEF DescriptorInv
<1>5. CASE StopRemoveAll \/ Disconnect \/ StopDisconnect
  <2>1. /\ UNCHANGED <<running, acceptor>> /\ stopper \in {"serving", "wake"}
        /\ stopper' \in {"wake", "signal"}
    BY <1>5 DEF StopRemoveAll, Disconnect, StopDisconnect
  <2> QED
    BY <1>1, <1>2, <1>3, <2>1 DEF DescriptorInv, DescriptorTypes, Phases, OneHeld, InPhase
<1>6. CASE StopSignal \/ StopShutdownFds
  <2>1. /\ acceptor' = acceptor /\ stopper \in {"signal", "shutdown"}
        /\ stopper' \in {"shutdown", "join"} /\ ~running'
    BY <1>6 DEF StopSignal, StopShutdownFds, DescriptorInv, InPhase
  <2>2. running' \in BOOLEAN
    BY <1>6 DEF StopSignal, StopShutdownFds, DescriptorInv, DescriptorTypes
  <2> QED
    BY <1>1, <1>2, <1>3, <2>1, <2>2 DEF DescriptorInv, DescriptorTypes, Phases, OneHeld, InPhase
<1>7. CASE StopNotify \/ EmitClose
  <2>1. UNCHANGED <<running, acceptor>> /\ stopper = "notify" /\ stopper' = "done"
    BY <1>7 DEF StopNotify, EmitClose
  <2> QED
    BY <1>1, <1>2, <1>3, <2>1 DEF DescriptorInv, DescriptorTypes, Phases, OneHeld, InPhase
<1>8. CASE AcceptExit
  BY <1>1, <1>2, <1>3, <1>8 DEF AcceptExit, DescriptorInv, DescriptorTypes, OneHeld, InPhase
<1> QED
  BY <1>4, <1>5, <1>6, <1>7, <1>8

\* stop joins the threads and closes what is left.
LEMMA StopJoinInv ==
    ASSUME DescriptorInv, StopJoin PROVE DescriptorInv'
<1> USE DEF StopJoin, connVars, sessionVars
<1>1. connFds = {} /\ open' = open /\ connFds' = {} /\ UNCHANGED <<at, fd>>
  BY DEF DescriptorInv, DescriptorTypes, OwnDescriptor
<1>2. Spawned' = {} /\ Spawned = {}
  BY <1>1 DEF Spawned
<1>3. ~running
  BY DEF DescriptorInv, InPhase
<1> QED
  BY <1>1, <1>2, <1>3 DEF DescriptorInv, DescriptorTypes, Phases, Descriptors, OneHeld, InPhase,
    OwnDescriptor

\* Every step of server, clients and clock preserves the invariant.
LEMMA DescriptorNext ==
    ASSUME DescriptorInv, [Next]_vars PROVE DescriptorInv'
<1>1. CASE UNCHANGED vars
  BY <1>1 DEF vars, DescriptorInv, DescriptorTypes, Descriptors, OneHeld, InPhase, OwnDescriptor,
    Spawned
<1>2. ASSUME NEW c \in Conns,
             ConnStep(c) \/ ReadRefused(c) \/ ReadRequest(c) \/ StreamWriteFails(c)
      PROVE  DescriptorInv'
  BY <1>2, ConnMoves, ThreadMovesInv, EraseInv
<1>3. ASSUME (\E c \in Conns : HangUp(c)) \/ (\E s \in Sessions : Age(s)) PROVE DescriptorInv'
  <2>1. UNCHANGED <<running, acceptor, stopper, at, fd, open, connFds>>
    BY <1>3 DEF HangUp, Age, serverVars, fdVars
  <2> QED
    BY <2>1 DEF DescriptorInv, DescriptorTypes, Descriptors, OneHeld, InPhase, OwnDescriptor, Spawned
<1> QED
  BY <1>1, <1>2, <1>3, AcceptInv, RegisterInv, StopperInv, StopJoinInv
    DEF Next, ServerStep, StopStep, AcceptStep

-----------------------------------------------------------------------------
(* Sessions                                                                *)

\* Connection thread c has taken session s out of the table, by its sweep or by
\* a DELETE, and has not terminated it yet.
Takes(c, s) == s \in doomed[c] \/ (at[c] = "terminate" /\ entry[c] = s)

TableTypes ==
    /\ multi \in BOOLEAN
    /\ created \in 0..MaxSessions
    /\ registry \subseteq Sessions
    /\ removed \subseteq Sessions /\ closed \subseteq Sessions
    /\ doomed \in [Conns -> SUBSET Sessions]
    /\ entry \in [Conns -> 0..MaxSessions]
    /\ reported \in [Sessions -> Nat]

\* A session is in the table, or in the hands of one thread, or reported.
OneHolder ==
    \A s \in Sessions :
        /\ s \in registry => s \notin closed
        /\ s \in registry \cup removed => reported[s] = 0 /\ \A c \in Conns : ~Takes(c, s)
        /\ s \notin registry \cap removed
        /\ \A c \in Conns : Takes(c, s) =>
              reported[s] = 0 /\ \A b \in Conns : Takes(b, s) => b = c
        /\ reported[s] <= 1

\* A number that has not been given out is known nowhere.
FreshNumbers ==
    \A s \in Sessions : s > created =>
        /\ s \notin registry \cup removed \cup closed
        /\ reported[s] = 0
        /\ \A c \in Conns : ~Takes(c, s)

\* Only a thread that is about to evict has sessions to evict, and one that is
\* about to terminate a session has a pointer to it.
SweepHeld ==
    /\ \A c \in Conns : doomed[c] # {} => at[c] = "evict"
    /\ \A c \in Conns : at[c] = "terminate" => entry[c] \in Sessions

\* HttpServerTransport has no table; its one session is closed at the end.
SingleSession ==
    ~multi =>
        /\ registry = {}
        /\ \A c \in Conns : doomed[c] = {} /\ at[c] # "terminate"
        /\ stopper # "done" => \A s \in Sessions : reported[s] = 0
        /\ stopper = "idle" => created = 0
        /\ stopper \notin {"idle", "done"} => created = 1

TableInv == TableTypes /\ OneHolder /\ FreshNumbers /\ SweepHeld /\ SingleSession

\* Nobody takes, removes or reports a session.
TableRests ==
    /\ UNCHANGED <<multi, created, registry, removed, closed, reported, doomed>>
    /\ entry' \in [Conns -> 0..MaxSessions]
    /\ \A c \in Conns : at'[c] = "terminate" => at[c] = "terminate" /\ entry'[c] = entry[c]
    /\ \A c \in Conns : at[c] = "evict" => at'[c] = "evict"
    /\ stopper' = stopper \/ {stopper, stopper'} \cap {"idle", "serving", "done"} = {}

\* A step that does not concern the table preserves what is said of it.
LEMMA TableRestsInv ==
    ASSUME TableInv, TableRests PROVE TableInv'
<1> USE DEF TableRests
<1>1. \A c \in Conns, s \in Sessions : Takes(c, s)' => Takes(c, s)
  BY DEF Takes
<1>2. TableTypes'
  BY DEF TableInv, TableTypes
<1>3. OneHolder'
  BY <1>1 DEF TableInv, OneHolder
<1>4. FreshNumbers'
  BY <1>1 DEF TableInv, FreshNumbers
<1>5. SweepHeld' /\ SingleSession'
  BY DEF TableInv, SweepHeld, SingleSession
<1> QED
  BY <1>2, <1>3, <1>4, <1>5 DEF TableInv

\* A reply concerns the table only when it ends a DELETE.
LEMMA ReplyRests ==
    ASSUME DescriptorInv, TableInv, NEW c \in Conns, NEW code, Reply(c, code), at[c] # "evict",
           UNCHANGED <<multi, created, registry, removed, closed, reported, doomed, entry, stopper>>
    PROVE  TableRests
<1>1. at' = [at EXCEPT ![c] = "finish"] /\ at \in [Conns -> Places]
  BY DEF Reply, DescriptorInv, DescriptorTypes
<1> QED
  BY <1>1 DEF TableRests, TableInv, TableTypes

\* The steps that leave the table alone.
LEMMA ConnRests ==
    ASSUME DescriptorInv, TableInv, NEW c \in Conns,
           \/ ConnStep(c) \/ ReadRefused(c) \/ StreamWriteFails(c)
           \/ HangUp(c) \/ Accept(c) \/ Register(c),
           ~Evict(c), ~Delete(c), ~DeleteDone(c), ~Initialize(c)
    PROVE  TableRests
<1> USE DEF serverVars, fdVars, sessionVars, connVars
<1>0. /\ at \in [Conns -> Places] /\ entry \in [Conns -> 0..MaxSessions]
      /\ registry \subseteq 0..MaxSessions /\ 0 \in 0..MaxSessions /\ 1 \in 0..MaxSessions
  BY HttpServerAssumption DEF DescriptorInv, DescriptorTypes, TableInv, TableTypes, Sessions
<1>1. CASE ReadGivesUp(c) \/ StreamEnds(c) \/ StreamWriteFails(c) \/ Deliver(c) \/ HangUp(c)
  BY <1>0, <1>1 DEF ReadGivesUp, StreamEnds, StreamWriteFails, Deliver, HangUp, TableRests
<1>2. CASE ReadRefused(c)
  BY <1>2, ReplyRests DEF ReadRefused
<1>3. CASE DeleteRefused(c) \/ GetRefused(c)
  BY <1>3, ReplyRests DEF DeleteRefused, GetRefused
<1>4. CASE PostRefused(c) \/ TransportRefused(c) \/ Unknown(c)
  BY <1>4, ReplyRests DEF PostRefused, TransportRefused, Unknown
<1>5. CASE PostReply(c) \/ TransportReply(c)
  BY <1>5, ReplyRests DEF PostReply, TransportReply
<1>6. CASE Get(c) \/ Post(c)
  <2>1. \E s \in registry : entry' = [entry EXCEPT ![c] = s]
    BY <1>6 DEF Get, Post, FindEntry
  <2>2. at[c] = "route" /\ \E p \in {"attach", "deliver"} : at' = [at EXCEPT ![c] = p]
    BY <1>6 DEF Get, Post
  <2>3. UNCHANGED <<multi, created, registry, removed, closed, reported, doomed, stopper>>
    BY <1>6 DEF Get, Post
  <2> QED
    BY <1>0, <2>1, <2>2, <2>3 DEF TableRests
<1>7. CASE TransportGet(c) \/ TransportPost(c) \/ Finish(c) \/ Erase(c)
  BY <1>0, <1>7 DEF TransportGet, TransportPost, Finish, Erase, TableRests, None
<1>8. CASE AttachStream(c)
  BY <1>0, <1>8 DEF AttachStream, Streaming, TableRests
<1>9. CASE Accept(c) \/ Register(c)
  BY <1>0, <1>9 DEF Accept, Register, TableRests
<1> QED
  BY <1>1, <1>2, <1>3, <1>4, <1>5, <1>6, <1>7, <1>8, <1>9 DEF ConnStep

\* So do the accept loop, the passing of time and most of stop.
LEMMA StopRests ==
    ASSUME TableInv,
           \/ StopSignal \/ StopShutdownFds \/ StopJoin \/ AcceptExit
           \/ \E s \in Sessions : Age(s)
    PROVE  TableRests
  BY DEF StopSignal, StopShutdownFds, StopJoin, AcceptExit, Age, TableInv, TableTypes, TableRests,
    serverVars, fdVars, connVars, sessionVars

\* Nothing is in the hands of a connection thread after a step of another kind.
LEMMA TakesSame ==
    ASSUME UNCHANGED <<at, doomed, entry>>
    PROVE  \A c \in Conns, s \in Sessions : Takes(c, s)' <=> Takes(c, s)
  BY DEF Takes

\* start and connect open the first session of HttpServerTransport, at most.
LEMMA StartTable ==
    ASSUME TableInv, Start \/ Connect PROVE TableInv'
<1> USE DEF connVars, sessionVars
<1>1. UNCHANGED <<multi, at, doomed, entry, registry, removed, closed, reported>>
  BY DEF Start, Connect
<1>2. \A c \in Conns, s \in Sessions : Takes(c, s)' <=> Takes(c, s)
  BY <1>1, TakesSame
<1>3. OneHolder' /\ SweepHeld'
  BY <1>1, <1>2 DEF TableInv, OneHolder, SweepHeld
<1>4. CASE Start
  BY <1>1, <1>2, <1>3, <1>4 DEF Start, TableInv, TableTypes, FreshNumbers, SingleSession
<1>5. CASE Connect
  <2>1. /\ ~multi /\ created = 0 /\ created' \in {0, 1} /\ stopper = "idle"
        /\ stopper' = "serving" => created' = 1
        /\ stopper' \in {"serving", "done"}
    BY <1>5 DEF Connect, Listen, TableInv, SingleSession
  <2>2. TableTypes'
    BY <1>1, <2>1, HttpServerAssumption DEF TableInv, TableTypes
  <2>3. FreshNumbers'
    <3>1. \A s \in Sessions : s > created' => s > created
      BY <2>1 DEF Sessions
    <3> QED
      BY <1>1, <1>2, <3>1 DEF TableInv, FreshNumbers
  <2>4. SingleSession'
    BY <1>1, <2>1 DEF TableInv, SingleSession
  <2> QED
    BY <1>3, <2>2, <2>3, <2>4 DEF TableInv
<1> QED
  BY <1>4, <1>5

\* remove_idle: what leaves the table is in the hands of the thread that sweeps.
LEMMA ReadRequestTable ==
    ASSUME DescriptorInv, TableInv, NEW c \in Conns, ReadRequest(c) PROVE TableInv'
<1> USE DEF ReadRequest, Sweep, serverVars, fdVars
<1> DEFINE D == registry \cap stale
<1>1. /\ at[c] = "read" /\ at'[c] = (IF D = {} THEN "route" ELSE "evict")
      /\ \A b \in Conns \ {c} : at'[b] = at[b]
      /\ doomed'[c] = D /\ \A b \in Conns \ {c} : doomed'[b] = doomed[b]
      /\ registry' = registry \ D
      /\ UNCHANGED <<multi, stopper, removed, entry, created, closed, reported>>
  BY DEF DescriptorInv, DescriptorTypes, TableInv, TableTypes
<1>2. \A s \in Sessions : Takes(c, s)' <=> s \in D
  BY <1>1 DEF Takes
<1>3. \A b \in Conns \ {c}, s \in Sessions : Takes(b, s)' <=> Takes(b, s)
  BY <1>1 DEF Takes
<1>4. TableTypes'
  BY <1>1 DEF TableInv, TableTypes
<1>5. SweepHeld' /\ SingleSession'
  BY <1>1 DEF TableInv, SweepHeld, SingleSession
<1> HIDE DEF ReadRequest, Sweep
<1>6. OneHolder'
  BY <1>1, <1>2, <1>3 DEF TableInv, OneHolder
<1>7. FreshNumbers'
  BY <1>1, <1>2, <1>3 DEF TableInv, FreshNumbers
<1> QED
  BY <1>4, <1>5, <1>6, <1>7 DEF TableInv

\* Whoever holds the sessions S terminates and reports them.
LEMMA TerminateReports ==
    ASSUME TableTypes, NEW S \in SUBSET Sessions, Terminate(S)
    PROVE  /\ closed' = closed \cup S /\ closed' \subseteq Sessions
           /\ reported' \in [Sessions -> Nat]
           /\ \A s \in S : reported'[s] = reported[s] + 1
           /\ \A s \in Sessions \ S : reported'[s] = reported[s]
  BY DEF TableTypes, Terminate

\* The sweep disconnects and reports what it took.
LEMMA EvictTable ==
    ASSUME DescriptorInv, TableInv, NEW c \in Conns, Evict(c) PROVE TableInv'
<1> USE DEF Evict, serverVars, fdVars
<1> DEFINE D == doomed[c]
<1>1. /\ at[c] = "evict" /\ at'[c] = "route" /\ \A b \in Conns \ {c} : at'[b] = at[b]
      /\ doomed'[c] = {} /\ \A b \in Conns \ {c} : doomed'[b] = doomed[b]
      /\ UNCHANGED <<multi, stopper, removed, entry, created, registry>>
  BY DEF DescriptorInv, DescriptorTypes, TableInv, TableTypes
<1>2. /\ closed' = closed \cup D /\ closed' \subseteq Sessions /\ D \subseteq Sessions
      /\ reported' \in [Sessions -> Nat]
      /\ \A s \in D : reported'[s] = reported[s] + 1
      /\ \A s \in Sessions \ D : reported'[s] = reported[s]
  BY TerminateReports DEF TableInv, TableTypes
<1>3. doomed' \in [Conns -> SUBSET Sessions]
  BY DEF TableInv, TableTypes
<1>4. TableTypes'
  BY <1>1, <1>2, <1>3 DEF TableInv, TableTypes
<1> HIDE DEF Evict
<1>5. \A s \in Sessions : Takes(c, s) <=> s \in D
  BY <1>1 DEF Takes
<1>6. \A s \in Sessions : ~Takes(c, s)'
  BY <1>1 DEF Takes
<1>7. \A b \in Conns \ {c}, s \in Sessions : Takes(b, s)' <=> Takes(b, s)
  BY <1>1 DEF Takes
<1>8. SweepHeld' /\ SingleSession'
  BY <1>1, <1>2 DEF TableInv, SweepHeld, SingleSession
<1> HIDE DEF D
<1>9. OneHolder'
  BY <1>1, <1>2, <1>5, <1>6, <1>7 DEF TableInv, OneHolder
<1>10. FreshNumbers'
  BY <1>1, <1>2, <1>5, <1>6, <1>7 DEF TableInv, FreshNumbers
<1> QED
  BY <1>4, <1>8, <1>9, <1>10 DEF TableInv

\* remove: a DELETE that finds the session takes it out.
LEMMA DeleteTable ==
    ASSUME DescriptorInv, TableInv, NEW c \in Conns, Delete(c) PROVE TableInv'
<1> USE DEF Delete, RemoveEntry, serverVars, fdVars
<1> DEFINE r == request[c].sid
<1>1. /\ multi /\ at[c] = "route" /\ at'[c] = "terminate" /\ \A b \in Conns \ {c} : at'[b] = at[b]
      /\ r \in registry /\ registry' = registry \ {r} /\ r \in Sessions
      /\ entry'[c] = r /\ \A b \in Conns \ {c} : entry'[b] = entry[b]
      /\ UNCHANGED <<multi, stopper, removed, doomed, created, closed, reported>>
  BY DEF DescriptorInv, DescriptorTypes, TableInv, TableTypes
<1>2. TableTypes'
  <2>1. r \in 0..MaxSessions
    BY <1>1 DEF Sessions
  <2>2. entry' \in [Conns -> 0..MaxSessions]
    BY <2>1 DEF TableInv, TableTypes
  <2> QED
    BY <1>1, <2>2 DEF TableInv, TableTypes
<1> HIDE DEF Delete, RemoveEntry, r
<1>3. doomed[c] = {}
  <2>1. doomed[c] # {} => at[c] = "evict"
    BY DEF TableInv, SweepHeld
  <2> QED
    BY <1>1, <2>1
<1>4. \A s \in Sessions : Takes(c, s)' <=> s = r
  BY <1>1, <1>3 DEF Takes
<1>5. \A b \in Conns \ {c}, s \in Sessions : Takes(b, s)' <=> Takes(b, s)
  BY <1>1 DEF Takes
<1>6. SweepHeld' /\ SingleSession'
  BY <1>1 DEF TableInv, SweepHeld, SingleSession
<1>7. OneHolder'
  BY <1>1, <1>4, <1>5 DEF TableInv, OneHolder
<1>8. FreshNumbers'
  BY <1>1, <1>4, <1>5 DEF TableInv, FreshNumbers
<1> QED
  BY <1>2, <1>6, <1>7, <1>8 DEF TableInv

\* Then it terminates and reports the session.
LEMMA DeleteDoneTable ==
    ASSUME DescriptorInv, TableInv, NEW c \in Conns, DeleteDone(c) PROVE TableInv'
<1> USE DEF DeleteDone, Reply, serverVars, fdVars
<1> DEFINE r == entry[c]
<1>1. /\ at[c] = "terminate" /\ at'[c] = "finish" /\ \A b \in Conns \ {c} : at'[b] = at[b]
      /\ UNCHANGED <<multi, stopper, removed, doomed, entry, created, registry>>
  BY DEF DescriptorInv, DescriptorTypes
<1>2. multi /\ {r} \in SUBSET Sessions
  <2>1. multi
    BY <1>1 DEF TableInv, SingleSession
  <2>2. at[c] = "terminate" => entry[c] \in Sessions
    BY DEF TableInv, SweepHeld
  <2> QED
    BY <1>1, <2>1, <2>2
<1>3. /\ closed' = closed \cup {r} /\ closed' \subseteq Sessions
      /\ reported' \in [Sessions -> Nat]
      /\ \A s \in {r} : reported'[s] = reported[s] + 1
      /\ \A s \in Sessions \ {r} : reported'[s] = reported[s]
  BY <1>2, TerminateReports DEF TableInv
<1> HIDE DEF DeleteDone, Reply, r
<1>4. TableTypes'
  BY <1>1, <1>3 DEF TableInv, TableTypes
<1>5. doomed[c] = {}
  <2>1. doomed[c] # {} => at[c] = "evict"
    BY DEF TableInv, SweepHeld
  <2> QED
    BY <1>1, <2>1
<1>6. \A s \in Sessions : Takes(c, s) <=> s = r
  BY <1>1, <1>5 DEF Takes, r
<1>7. \A s \in Sessions : ~Takes(c, s)'
  BY <1>1, <1>5 DEF Takes
<1>8. \A b \in Conns \ {c}, s \in Sessions : Takes(b, s)' <=> Takes(b, s)
  BY <1>1 DEF Takes
<1>9. SweepHeld' /\ SingleSession'
  BY <1>1, <1>2 DEF TableInv, SweepHeld, SingleSession
<1>10. OneHolder'
  BY <1>1, <1>2, <1>3, <1>6, <1>7, <1>8 DEF TableInv, OneHolder
<1>11. FreshNumbers'
  BY <1>1, <1>2, <1>3, <1>6, <1>7, <1>8 DEF TableInv, FreshNumbers
<1> QED
  BY <1>4, <1>9, <1>10, <1>11 DEF TableInv

\* create: the new session has a number that nobody knows.
LEMMA InitializeTable ==
    ASSUME DescriptorInv, TableInv, NEW c \in Conns, Initialize(c) PROVE TableInv'
<1> USE DEF Initialize, serverVars, fdVars
<1>1. CASE Reply(c, 500) /\ UNCHANGED <<created, registry, entry, next, captured>>
  BY <1>1, ReplyRests, TableRestsInv
<1>2. CASE /\ created < MaxSessions /\ created' = created + 1 /\ CreateEntry(created + 1)
           /\ entry' = [entry EXCEPT ![c] = created + 1]
           /\ at' = [at EXCEPT ![c] = "deliver"]
  <2> DEFINE n == created + 1
  <2>1. /\ n \in Sessions /\ n \in 0..MaxSessions /\ n > created /\ created \in Nat
        /\ MaxSessions \in Nat
    BY <1>2, HttpServerAssumption DEF TableInv, TableTypes, Sessions
  <2>2. /\ multi /\ at[c] = "route" /\ at'[c] = "deliver" /\ \A b \in Conns \ {c} : at'[b] = at[b]
        /\ registry' = registry \cup {n} /\ created' = n
        /\ \A b \in Conns \ {c} : entry'[b] = entry[b]
        /\ UNCHANGED <<multi, stopper, removed, doomed, closed, reported>>
    BY <1>2 DEF CreateEntry, DescriptorInv, DescriptorTypes, TableInv, TableTypes
  <2>3. entry' \in [Conns -> 0..MaxSessions]
    BY <1>2, <2>1 DEF TableInv, TableTypes
  <2>4. TableTypes'
    BY <2>1, <2>2, <2>3 DEF TableInv, TableTypes
  <2> HIDE DEF Initialize, n
  <2>5. \A b \in Conns, s \in Sessions : Takes(b, s)' <=> Takes(b, s)
    BY <2>2 DEF Takes
  <2>6. SweepHeld' /\ SingleSession'
    BY <2>2 DEF TableInv, SweepHeld, SingleSession
  <2>7. OneHolder'
    BY <2>1, <2>2, <2>5 DEF TableInv, OneHolder, FreshNumbers
  <2>8. FreshNumbers'
    <3>1. \A s \in Sessions : s > created' => s > created /\ s # n
      BY <2>1, <2>2 DEF Sessions
    <3> QED
      BY <2>2, <2>5, <3>1 DEF TableInv, FreshNumbers
  <2> QED
    BY <2>4, <2>6, <2>7, <2>8 DEF TableInv
<1> QED
  BY <1>1, <1>2

\* remove_all: stop takes what is in the table.
LEMMA StopRemoveAllTable ==
    ASSUME TableInv, StopRemoveAll PROVE TableInv'
<1>1. /\ removed' = registry /\ registry' = {} /\ multi
      /\ UNCHANGED <<multi, at, doomed, entry, created, closed, reported>>
  BY DEF StopRemoveAll, RemoveAllEntries, connVars
<1>2. \A c \in Conns, s \in Sessions : Takes(c, s)' <=> Takes(c, s)
  BY <1>1, TakesSame
<1>3. OneHolder'
  BY <1>1, <1>2 DEF TableInv, OneHolder
<1> QED
  BY <1>1, <1>2, <1>3 DEF TableInv, TableTypes, FreshNumbers, SweepHeld, SingleSession

\* HttpServerTransport has its one session to take.
LEMMA DisconnectTable ==
    ASSUME TableInv, Disconnect PROVE TableInv'
<1>1. /\ removed' = {1} /\ ~multi /\ stopper = "serving" /\ stopper' = "wake"
      /\ UNCHANGED <<multi, at, doomed, entry, created, registry, closed, reported>>
  BY DEF Disconnect, connVars, sessionVars
<1>2. /\ registry = {} /\ created = 1 /\ \A s \in Sessions : reported[s] = 0
      /\ \A c \in Conns, s \in Sessions : ~Takes(c, s)
  BY <1>1 DEF TableInv, SingleSession, Takes
<1>3. \A c \in Conns, s \in Sessions : Takes(c, s)' <=> Takes(c, s)
  BY <1>1, TakesSame
<1>4. TableTypes'
  BY <1>1, HttpServerAssumption DEF TableInv, TableTypes, Sessions
<1>5. OneHolder'
  BY <1>1, <1>2, <1>3 DEF TableInv, OneHolder
<1>6. FreshNumbers'
  BY <1>1, <1>2, <1>3 DEF TableInv, FreshNumbers
<1>7. SweepHeld' /\ SingleSession'
  BY <1>1, <1>2 DEF TableInv, SweepHeld, SingleSession
<1> QED
  BY <1>4, <1>5, <1>6, <1>7 DEF TableInv

\* "Wake session streams first"
LEMMA StopDisconnectTable ==
    ASSUME TableInv, StopDisconnect PROVE TableInv'
<1>1. /\ closed' = closed \cup removed /\ stopper = "wake" /\ stopper' = "signal"
      /\ UNCHANGED <<multi, removed, at, doomed, entry, created, registry, reported>>
  BY DEF StopDisconnect, connVars
<1>2. \A c \in Conns, s \in Sessions : Takes(c, s)' <=> Takes(c, s)
  BY <1>1, TakesSame
<1>3. OneHolder'
  BY <1>1, <1>2 DEF TableInv, OneHolder
<1>4. FreshNumbers'
  BY <1>1, <1>2 DEF TableInv, FreshNumbers
<1> QED
  BY <1>1, <1>3, <1>4 DEF TableInv, TableTypes, SweepHeld, SingleSession

\* stop and disconnect report what they took.
LEMMA StopNotifyTable ==
    ASSUME TableInv, StopNotify \/ EmitClose PROVE TableInv'
<1>1. /\ removed' = {} /\ stopper = "notify" /\ stopper' = "done"
      /\ UNCHANGED <<multi, at, doomed, entry, created, registry>>
  BY DEF StopNotify, EmitClose, connVars
<1>2. removed \in SUBSET Sessions
  BY DEF TableInv, TableTypes
<1>3. /\ closed' = closed \cup removed /\ closed' \subseteq Sessions
      /\ reported' \in [Sessions -> Nat]
      /\ \A s \in removed : reported'[s] = reported[s] + 1
      /\ \A s \in Sessions \ removed : reported'[s] = reported[s]
  BY <1>2, TerminateReports DEF StopNotify, EmitClose, TableInv
<1>4. \A c \in Conns, s \in Sessions : Takes(c, s)' <=> Takes(c, s)
  BY <1>1, TakesSame
<1>5. TableTypes'
  BY <1>1, <1>3 DEF TableInv, TableTypes
<1>6. OneHolder'
  BY <1>1, <1>2, <1>3, <1>4 DEF TableInv, OneHolder
<1>7. FreshNumbers'
  BY <1>1, <1>2, <1>3, <1>4 DEF TableInv, FreshNumbers
<1>8. SweepHeld' /\ SingleSession'
  BY <1>1 DEF TableInv, SweepHeld, SingleSession
<1> QED
  BY <1>5, <1>6, <1>7, <1>8 DEF TableInv

\* Every step preserves what is said of the table.
LEMMA TableNext ==
    ASSUME DescriptorInv, TableInv, [Next]_vars PROVE TableInv'
<1>1. CASE UNCHANGED vars
  <2>1. TableRests
    BY <1>1 DEF vars, TableRests, TableInv, TableTypes
  <2> QED
    BY <2>1, TableRestsInv
<1>2. ASSUME NEW c \in Conns,
             \/ ConnStep(c) \/ ReadRefused(c) \/ StreamWriteFails(c)
             \/ HangUp(c) \/ Accept(c) \/ Register(c)
      PROVE  TableInv'
  BY <1>2, ConnRests, TableRestsInv, EvictTable, DeleteTable, DeleteDoneTable, InitializeTable
<1>3. ASSUME \/ StopSignal \/ StopShutdownFds \/ StopJoin \/ AcceptExit
             \/ \E s \in Sessions : Age(s)
      PROVE  TableInv'
  BY <1>3, StopRests, TableRestsInv
<1> QED
  BY <1>1, <1>2, <1>3, ReadRequestTable, StartTable, StopRemoveAllTable, DisconnectTable,
    StopDisconnectTable, StopNotifyTable DEF Next, ServerStep, StopStep, AcceptStep

-----------------------------------------------------------------------------
(* Answers to a POST                                                       *)

Bodies == [errors : Nat, messages : Seq({"init", "req", "note"})]

CaptureTypes ==
    /\ known \subseteq 0..MaxSessions
    /\ request \in [Conns -> [method : {"none", "GET", "POST", "DELETE", "PUT"},
                              sid : 0..MaxSessions, ok : BOOLEAN, frame : Bodies]]
    /\ next \in [Conns -> Nat \ {0}]
    /\ captured \in [Conns -> Seq(Conns \X Nat)]
    /\ status \in [Conns -> Int]

\* The answers of c's frame are one for every item that could not be read and,
\* in order, one for every request among the first n - 1 messages.
Collected(c, frame, answers, n) ==
    /\ frame.errors <= Len(answers)
    /\ \A i \in 1..frame.errors : answers[i] = <<c, None>>
    /\ \A i \in frame.errors + 1..Len(answers) :
          \E m \in Asking(frame) : m < n /\ answers[i] = <<c, m>>
    /\ \A i, j \in frame.errors + 1..Len(answers) : i < j => answers[i][2] < answers[j][2]
    /\ \A m \in Asking(frame) : m < n =>
          \E i \in frame.errors + 1..Len(answers) : answers[i] = <<c, m>>

\* How far the request of c has come, by the place of its thread.
Collecting(c) ==
    /\ at[c] \in {"none", "held", "read", "evict", "route"} => next[c] = 1
    /\ at[c] \in {"none", "held", "read", "terminate", "attach", "stream"} =>
          request[c].method # "POST"
    /\ at[c] = "deliver" =>
          /\ next[c] <= Len(request[c].frame.messages) + 1
          /\ Collected(c, request[c].frame, captured[c], next[c])
    /\ at[c] = "finish" /\ request[c].method = "POST" /\ status[c] \in {200, 202} =>
          /\ Collected(c, request[c].frame, captured[c], Len(request[c].frame.messages) + 1)
          /\ status[c] = 202 <=> captured[c] = <<>>

CaptureInv == CaptureTypes /\ \A c \in Conns : Collecting(c)

\* A step of thread c leaves the others' answers alone.
LEMMA OthersCollect ==
    ASSUME CaptureInv, CaptureTypes', NEW c \in Conns, Collecting(c)',
           \A b \in Conns \ {c} :
              /\ at'[b] = at[b] /\ request'[b] = request[b] /\ next'[b] = next[b]
              /\ captured'[b] = captured[b] /\ status'[b] = status[b]
    PROVE  CaptureInv'
<1>1. ASSUME NEW b \in Conns \ {c} PROVE Collecting(b)'
  <2>1. Collecting(b)
    BY DEF CaptureInv
  <2> QED
    BY <1>1, <2>1 DEF Collecting
<1> QED
  BY <1>1 DEF CaptureInv

\* A request is refused: no answers are written.
LEMMA RefusalCaptures ==
    ASSUME DescriptorInv, CaptureInv, NEW c \in Conns, NEW code \in {400, 401, 403, 404, 405, 406, 500},
           Reply(c, code), UNCHANGED <<next, captured, known>>
    PROVE  CaptureInv'
<1>1. /\ at' = [at EXCEPT ![c] = "finish"]
      /\ request' = [request EXCEPT ![c] = NoRequest]
      /\ status' = [status EXCEPT ![c] = code \div 100]
  <2>1. ~(code < 400)
    OBVIOUS
  <2> QED
    BY <2>1 DEF Reply
<1>2. at \in [Conns -> Places] /\ CaptureTypes /\ code \div 100 \in Int
  BY DEF DescriptorInv, DescriptorTypes, CaptureInv
<1>3. NoRequest \in [method : {"none", "GET", "POST", "DELETE", "PUT"},
                     sid : 0..MaxSessions, ok : BOOLEAN, frame : Bodies]
  BY HttpServerAssumption DEF NoRequest, NoFrame, Bodies, None
<1>4. CaptureTypes'
  BY <1>1, <1>2, <1>3 DEF CaptureTypes
<1>5. Collecting(c)'
  BY <1>1, <1>2 DEF CaptureTypes, Collecting, NoRequest
<1> QED
  BY <1>1, <1>2, <1>4, <1>5, OthersCollect DEF CaptureTypes

\* A thread goes on with the same request and what it has collected.
LEMMA MoveCaptures ==
    ASSUME DescriptorInv, CaptureInv, NEW c \in Conns, NEW p \in Places,
           at' = [at EXCEPT ![c] = p], UNCHANGED <<request, next, captured, status, known>>,
           \/ at[c] = "none" /\ p = "held"
           \/ at[c] = "held" /\ p = "read"
           \/ at[c] = "evict" /\ p = "route"
           \/ request[c].method # "POST" /\ p \in {"terminate", "attach", "stream", "finish"}
           \/ p \in {"erase", "closed"}
    PROVE  CaptureInv'
<1>1. at \in [Conns -> Places] /\ CaptureTypes /\ Collecting(c)
  BY DEF DescriptorInv, DescriptorTypes, CaptureInv
<1>2. CaptureTypes'
  BY <1>1 DEF CaptureTypes
<1>3. Collecting(c)'
  BY <1>1 DEF Collecting
<1> QED
  BY <1>1, <1>2, <1>3, OthersCollect

\* Head and body are read: the request arrives.
LEMMA ReadRequestCaptures ==
    ASSUME DescriptorInv, CaptureInv, NEW c \in Conns, ReadRequest(c) PROVE CaptureInv'
<1>1. at \in [Conns -> Places] /\ CaptureTypes /\ Collecting(c) /\ at[c] = "read"
  BY DEF DescriptorInv, DescriptorTypes, CaptureInv, ReadRequest
<1>2. PICK r \in Requests : request' = [request EXCEPT ![c] = r]
  BY DEF ReadRequest
<1>3. r \in [method : {"none", "GET", "POST", "DELETE", "PUT"},
             sid : 0..MaxSessions, ok : BOOLEAN, frame : Bodies]
  <2>1. NoFrame \in Bodies /\ Frames \subseteq Bodies /\ known \cup {None} \subseteq 0..MaxSessions
    BY <1>1, HttpServerAssumption DEF NoFrame, Bodies, None, CaptureTypes
  <2> QED
    BY <1>2, <2>1 DEF Requests
<1>4. PICK p \in {"route", "evict"} : at' = [at EXCEPT ![c] = p]
  BY DEF ReadRequest, Sweep
<1>5. UNCHANGED <<next, captured, status, known>>
  BY DEF ReadRequest
<1>6. CaptureTypes'
  BY <1>1, <1>2, <1>3, <1>5 DEF CaptureTypes
<1>7. Collecting(c)'
  BY <1>1, <1>4, <1>5 DEF Collecting
<1> QED
  BY <1>1, <1>2, <1>4, <1>5, <1>6, <1>7, OthersCollect DEF CaptureTypes

\* PostCapture is constructed and the errors of the frame are answered.
LEMMA BeginCaptures ==
    ASSUME DescriptorInv, CaptureInv, NEW c \in Conns, at[c] = "route",
           at' = [at EXCEPT ![c] = "deliver"],
           captured' = [captured EXCEPT ![c] = ErrorAnswers(c)],
           UNCHANGED <<request, next, status, known>>
    PROVE  CaptureInv'
<1>1. at \in [Conns -> Places] /\ CaptureTypes /\ Collecting(c)
  BY DEF DescriptorInv, DescriptorTypes, CaptureInv
<1> DEFINE e == request[c].frame.errors
<1>2. e \in Nat /\ request[c].frame.messages \in Seq({"init", "req", "note"})
  BY <1>1 DEF CaptureTypes, Bodies
<1>3. ErrorAnswers(c) = [i \in 1..e |-> <<c, None>>]
  BY DEF ErrorAnswers
<1> HIDE DEF e
<1>4. ErrorAnswers(c) \in Seq(Conns \X Nat) /\ Len(ErrorAnswers(c)) = e
  BY <1>2, <1>3 DEF None
<1>5. CaptureTypes'
  BY <1>1, <1>4 DEF CaptureTypes
<1>6. at'[c] = "deliver" /\ next'[c] = 1 /\ captured'[c] = ErrorAnswers(c) /\ request'[c] = request[c]
  BY <1>1 DEF CaptureTypes, Collecting
<1>7. \A m \in Asking(request[c].frame) : ~(m < 1)
  BY <1>2 DEF Asking
<1>8. Collected(c, request[c].frame, ErrorAnswers(c), 1)
  BY <1>2, <1>3, <1>4, <1>7 DEF Collected, e
<1>9. 1 <= Len(request[c].frame.messages) + 1
  BY <1>2
<1>10. Collecting(c)'
  BY <1>6, <1>8, <1>9 DEF Collecting
<1> QED
  BY <1>1, <1>5, <1>10, OthersCollect DEF CaptureTypes

\* A message is delivered; if it is a request its answer is added.
LEMMA DeliverCaptures ==
    ASSUME DescriptorInv, CaptureInv, NEW c \in Conns, Deliver(c) PROVE CaptureInv'
<1>1. at \in [Conns -> Places] /\ CaptureTypes /\ Collecting(c) /\ at[c] = "deliver"
  BY DEF DescriptorInv, DescriptorTypes, CaptureInv, Deliver
<1> DEFINE frame == request[c].frame
           n == next[c]
           old == captured[c]
           new == captured'[c]
<1>2. /\ frame.errors \in Nat /\ frame.messages \in Seq({"init", "req", "note"})
      /\ n \in Nat \ {0} /\ old \in Seq(Conns \X Nat)
      /\ n <= Len(frame.messages) /\ Collected(c, frame, old, n)
  BY <1>1 DEF CaptureTypes, Bodies, Collecting, Deliver
<1>3. /\ UNCHANGED <<at, request, status, known>> /\ next' = [next EXCEPT ![c] = n + 1]
      /\ captured' = IF n \in Asking(frame) THEN [captured EXCEPT ![c] = Append(old, <<c, n>>)]
                     ELSE captured
  BY DEF Deliver, Answer, Capture, sessionVars
<1>4. new = IF n \in Asking(frame) THEN Append(old, <<c, n>>) ELSE old
  BY <1>1, <1>3 DEF CaptureTypes
<1>5. CaptureTypes'
  <2>1. <<c, n>> \in Conns \X Nat
    BY <1>2
  <2>2. captured' \in [Conns -> Seq(Conns \X Nat)]
    BY <1>1, <1>2, <1>3, <2>1 DEF CaptureTypes
  <2>3. next' \in [Conns -> Nat \ {0}]
    BY <1>1, <1>2, <1>3 DEF CaptureTypes
  <2> QED
    BY <1>1, <1>3, <2>2, <2>3 DEF CaptureTypes
<1>6. Asking(frame) \subseteq Nat
  BY <1>2 DEF Asking
<1>7. Collected(c, frame, new, n + 1)
  <2> DEFINE e == frame.errors
  <2>1. /\ e <= Len(old)
        /\ \A i \in 1..e : old[i] = <<c, None>>
        /\ \A i \in e + 1..Len(old) : \E m \in Asking(frame) : m < n /\ old[i] = <<c, m>>
        /\ \A i, j \in e + 1..Len(old) : i < j => old[i][2] < old[j][2]
        /\ \A m \in Asking(frame) : m < n => \E i \in e + 1..Len(old) : old[i] = <<c, m>>
    BY <1>2 DEF Collected
  <2> SUFFICES
        /\ e <= Len(new)
        /\ \A i \in 1..e : new[i] = <<c, None>>
        /\ \A i \in e + 1..Len(new) : \E m \in Asking(frame) : m < n + 1 /\ new[i] = <<c, m>>
        /\ \A i, j \in e + 1..Len(new) : i < j => new[i][2] < new[j][2]
        /\ \A m \in Asking(frame) : m < n + 1 => \E i \in e + 1..Len(new) : new[i] = <<c, m>>
    BY DEF Collected
  <2>2. e \in Nat
    BY <1>2
  <2> HIDE DEF e, frame, n, old, new
  <2>3. CASE n \notin Asking(frame)
    <3>1. new = old
      BY <1>4, <2>3
    <3>2. \A m \in Asking(frame) : m < n + 1 <=> m < n
      BY <1>2, <1>6, <2>3
    <3> QED
      BY <2>1, <3>1, <3>2
  <2>4. CASE n \in Asking(frame)
    <3>1. /\ Len(new) = Len(old) + 1 /\ new[Len(new)] = <<c, n>>
          /\ \A i \in 1..Len(old) : new[i] = old[i]
      BY <1>2, <1>4, <2>4
    <3>2. Len(old) \in Nat
      BY <1>2
    <3>3. \A i \in e + 1..Len(new) : i \in e + 1..Len(old) \/ i = Len(new)
      BY <2>2, <3>1, <3>2
    <3>4. \A i \in e + 1..Len(old) : new[i] = old[i] /\ new[i][2] < n
      BY <1>6, <2>1, <2>2, <3>1, <3>2
    <3>5. \A i \in e + 1..Len(new) : \E m \in Asking(frame) : m < n + 1 /\ new[i] = <<c, m>>
      <4>1. ASSUME NEW i \in e + 1..Len(old)
            PROVE  \E m \in Asking(frame) : m < n + 1 /\ new[i] = <<c, m>>
        <5>1. PICK m \in Asking(frame) : m < n /\ old[i] = <<c, m>>
          BY <2>1, <4>1
        <5>2. m < n + 1
          BY <1>2, <1>6, <5>1
        <5> QED
          BY <3>4, <4>1, <5>1, <5>2
      <4>2. n < n + 1
        BY <1>2
      <4> QED
        BY <2>4, <3>1, <3>3, <4>1, <4>2
    <3>6. \A i, j \in e + 1..Len(new) : i < j => new[i][2] < new[j][2]
      <4>1. \A i, j \in e + 1..Len(new) : i < j => i \in e + 1..Len(old)
        BY <2>2, <3>1, <3>2
      <4>2. \A i \in e + 1..Len(old) : new[i][2] < new[Len(new)][2]
        BY <3>1, <3>4
      <4> QED
        BY <2>1, <3>3, <3>4, <4>1, <4>2
    <3>7. \A m \in Asking(frame) : m < n + 1 => \E i \in e + 1..Len(new) : new[i] = <<c, m>>
      <4>1. ASSUME NEW m \in Asking(frame), m < n
            PROVE  \E i \in e + 1..Len(new) : new[i] = <<c, m>>
        <5>1. PICK i \in e + 1..Len(old) : old[i] = <<c, m>>
          BY <2>1, <4>1
        <5>2. i \in e + 1..Len(new) /\ new[i] = old[i]
          BY <2>2, <3>1, <3>2, <3>4, <5>1
        <5> QED
          BY <5>1, <5>2
      <4>2. Len(new) \in e + 1..Len(new)
        BY <2>1, <2>2, <3>1, <3>2
      <4>3. \A m \in Asking(frame) : m < n + 1 => m < n \/ m = n
        BY <1>2, <1>6
      <4> QED
        BY <3>1, <4>1, <4>2, <4>3
    <3>8. e <= Len(new) /\ \A i \in 1..e : new[i] = <<c, None>>
      BY <2>1, <2>2, <3>1, <3>2
    <3> QED
      BY <3>5, <3>6, <3>7, <3>8
  <2> QED
    BY <2>3, <2>4
<1>8. next'[c] = n + 1 /\ n + 1 <= Len(frame.messages) + 1
  BY <1>1, <1>2, <1>3 DEF CaptureTypes
<1>9. Collecting(c)'
  BY <1>1, <1>3, <1>7, <1>8 DEF Collecting
<1> QED
  BY <1>1, <1>3, <1>5, <1>9, OthersCollect DEF CaptureTypes

\* The frame is delivered and the thread answers.
LEMMA ReplyCaptures ==
    ASSUME DescriptorInv, TableInv, CaptureInv, NEW c \in Conns, PostReply(c) \/ TransportReply(c)
    PROVE  CaptureInv'
<1>1. /\ at \in [Conns -> Places] /\ CaptureTypes /\ Collecting(c) /\ at[c] = "deliver"
      /\ entry[c] \in 0..MaxSessions
  BY DEF DescriptorInv, DescriptorTypes, CaptureInv, TableInv, TableTypes, PostReply, TransportReply
<1> DEFINE frame == request[c].frame
<1>2. /\ frame.messages \in Seq({"init", "req", "note"}) /\ next[c] \in Nat
      /\ next[c] = Len(frame.messages) + 1 /\ Collected(c, frame, captured[c], Len(frame.messages) + 1)
  <2>1. frame.messages \in Seq({"init", "req", "note"}) /\ next[c] \in Nat
    BY <1>1 DEF CaptureTypes, Bodies
  <2>2. next[c] > Len(frame.messages)
    BY DEF PostReply, TransportReply
  <2>3. next[c] <= Len(frame.messages) + 1 /\ Collected(c, frame, captured[c], next[c])
    BY <1>1 DEF Collecting
  <2>4. next[c] = Len(frame.messages) + 1
    BY <2>1, <2>2, <2>3
  <2> QED
    BY <2>1, <2>3, <2>4
<1>3. /\ at' = [at EXCEPT ![c] = "finish"] /\ UNCHANGED <<request, next, captured>>
      /\ status' = [status EXCEPT ![c] = AnswerCode(c)]
  <2>1. AnswerCode(c) \in {200, 202}
    BY DEF AnswerCode
  <2>2. request' = [request EXCEPT ![c] = request[c]] /\ UNCHANGED <<next, captured>>
    BY <2>1 DEF PostReply, TransportReply, Reply
  <2> QED
    BY <1>1, <2>1, <2>2 DEF PostReply, TransportReply, Reply, CaptureTypes
<1>4. known' \subseteq 0..MaxSessions
  BY <1>1 DEF PostReply, TransportReply, sessionVars, CaptureTypes
<1>5. CaptureTypes'
  BY <1>1, <1>3, <1>4 DEF CaptureTypes, AnswerCode
<1>6. status'[c] = 202 <=> captured'[c] = <<>>
  BY <1>1, <1>3 DEF CaptureTypes, AnswerCode
<1>7. Collecting(c)'
  BY <1>1, <1>2, <1>3, <1>6 DEF Collecting
<1> QED
  BY <1>1, <1>3, <1>5, <1>7, OthersCollect DEF CaptureTypes

\* The locals of the handler are gone.
LEMMA FinishCaptures ==
    ASSUME DescriptorInv, CaptureInv, NEW c \in Conns, Finish(c) PROVE CaptureInv'
<1>1. at \in [Conns -> Places] /\ CaptureTypes
  BY DEF DescriptorInv, DescriptorTypes, CaptureInv
<1>2. NoRequest \in [method : {"none", "GET", "POST", "DELETE", "PUT"},
                     sid : 0..MaxSessions, ok : BOOLEAN, frame : Bodies]
  BY HttpServerAssumption DEF NoRequest, NoFrame, Bodies, None
<1>3. CaptureTypes'
  BY <1>1, <1>2 DEF Finish, Release, CaptureTypes, sessionVars, None
<1>4. Collecting(c)'
  BY <1>1 DEF Finish, Collecting
<1> QED
  BY <1>1, <1>3, <1>4, OthersCollect DEF Finish, Release, CaptureTypes

\* A stream displaces another one; neither has a POST.
LEMMA AttachCaptures ==
    ASSUME DescriptorInv, CaptureInv, NEW c \in Conns, AttachStream(c) PROVE CaptureInv'
<1>1. at \in [Conns -> Places] /\ CaptureTypes /\ at[c] = "attach"
  BY DEF DescriptorInv, DescriptorTypes, CaptureInv, AttachStream
<1>2. UNCHANGED <<request, next, captured, known>>
  BY DEF AttachStream, sessionVars
<1>3. CaptureTypes'
  BY <1>1, <1>2 DEF AttachStream, CaptureTypes
<1>4. ASSUME NEW b \in Conns PROVE Collecting(b)'
  <2>1. Collecting(b)
    BY DEF CaptureInv
  <2>2. \/ at'[b] = at[b] /\ status'[b] = status[b]
        \/ at[b] \in {"attach", "stream"} /\ at'[b] \in {"stream", "finish"}
    BY <1>1 DEF AttachStream, Streaming, CaptureTypes
  <2>3. CASE at'[b] = at[b] /\ status'[b] = status[b]
    BY <1>2, <2>1, <2>3 DEF Collecting
  <2>4. CASE at[b] \in {"attach", "stream"} /\ at'[b] \in {"stream", "finish"}
    BY <1>2, <2>1, <2>4 DEF Collecting
  <2> QED
    BY <2>2, <2>3, <2>4
<1> QED
  BY <1>3, <1>4 DEF CaptureInv

\* DELETE is answered.
LEMMA DeleteDoneCaptures ==
    ASSUME DescriptorInv, CaptureInv, NEW c \in Conns, DeleteDone(c) PROVE CaptureInv'
<1>1. at \in [Conns -> Places] /\ CaptureTypes /\ Collecting(c) /\ at[c] = "terminate"
  BY DEF DescriptorInv, DescriptorTypes, CaptureInv, DeleteDone
<1>2. /\ at' = [at EXCEPT ![c] = "finish"] /\ UNCHANGED <<request, next, captured, known>>
      /\ status' = [status EXCEPT ![c] = 200]
  <2>1. request' = [request EXCEPT ![c] = request[c]]
    BY DEF DeleteDone, Reply
  <2> QED
    BY <1>1, <2>1 DEF DeleteDone, Reply, CaptureTypes
<1>3. CaptureTypes'
  BY <1>1, <1>2 DEF CaptureTypes
<1>4. Collecting(c)'
  BY <1>1, <1>2 DEF Collecting
<1> QED
  BY <1>1, <1>2, <1>3, <1>4, OthersCollect DEF CaptureTypes

\* Every step of a connection thread, and of the loop that accepts it.
LEMMA ConnCaptures ==
    ASSUME DescriptorInv, TableInv, CaptureInv, NEW c \in Conns,
           \/ ConnStep(c) \/ ReadRefused(c) \/ ReadRequest(c) \/ StreamWriteFails(c)
           \/ Accept(c) \/ Register(c)
    PROVE  CaptureInv'
<1> USE DEF sessionVars, connVars
<1>0. Collecting(c)
  BY DEF CaptureInv
<1>1. CASE ReadRefused(c)
  BY <1>1, RefusalCaptures DEF ReadRefused
<1>2. CASE DeleteRefused(c) \/ GetRefused(c)
  BY <1>2, RefusalCaptures DEF DeleteRefused, GetRefused
<1>3. CASE PostRefused(c) \/ TransportRefused(c) \/ Unknown(c)
  BY <1>3, RefusalCaptures DEF PostRefused, TransportRefused, Unknown
<1>4. CASE ReadGivesUp(c) \/ StreamEnds(c) \/ StreamWriteFails(c)
  <2>1. request[c].method # "POST"
    BY <1>0, <1>4 DEF Collecting, ReadGivesUp, StreamEnds, StreamWriteFails
  <2> QED
    BY <1>4, <2>1, MoveCaptures DEF ReadGivesUp, StreamEnds, StreamWriteFails, Places
<1>5. CASE Evict(c) \/ Erase(c) \/ Accept(c)
  BY <1>5, MoveCaptures DEF Evict, Erase, Accept, Places
<1>6. CASE Register(c)
  <2>1. \E p \in {"read", "closed"} : at' = [at EXCEPT ![c] = p]
    BY <1>6 DEF Register
  <2> QED
    BY <1>6, <2>1, MoveCaptures DEF Register, Places
<1>7. CASE Delete(c) \/ Get(c) \/ TransportGet(c)
  BY <1>7, MoveCaptures DEF Delete, Get, TransportGet, Places
<1>8. CASE Post(c) \/ TransportPost(c)
  BY <1>8, BeginCaptures DEF Post, TransportPost
<1>9. CASE Initialize(c)
  BY <1>9, BeginCaptures, RefusalCaptures DEF Initialize
<1> QED
  BY <1>1, <1>2, <1>3, <1>4, <1>5, <1>6, <1>7, <1>8, <1>9, ReadRequestCaptures, DeliverCaptures,
    ReplyCaptures, FinishCaptures, AttachCaptures, DeleteDoneCaptures DEF ConnStep

\* Nobody but a connection thread touches its answers.
LEMMA CaptureNext ==
    ASSUME DescriptorInv, TableInv, CaptureInv, [Next]_vars PROVE CaptureInv'
<1>1. ASSUME UNCHANGED <<at, request, next, captured, status, known>> PROVE CaptureInv'
  BY <1>1 DEF CaptureInv, CaptureTypes, Collecting
<1>2. CASE UNCHANGED vars
  BY <1>1, <1>2 DEF vars
<1>3. ASSUME Start \/ Connect \/ StopRemoveAll \/ Disconnect PROVE CaptureInv'
  BY <1>1, <1>3 DEF Start, Connect, StopRemoveAll, Disconnect, connVars, sessionVars
<1>4. ASSUME StopStep \/ AcceptExit PROVE CaptureInv'
  BY <1>1, <1>4 DEF StopStep, StopDisconnect, StopSignal, StopShutdownFds, StopJoin, StopNotify,
    EmitClose, AcceptExit, connVars, sessionVars
<1>5. ASSUME (\E c \in Conns : HangUp(c)) \/ (\E s \in Sessions : Age(s)) PROVE CaptureInv'
  BY <1>1, <1>5 DEF HangUp, Age, connVars, sessionVars
<1> QED
  BY <1>2, <1>3, <1>4, <1>5, ConnCaptures DEF Next, ServerStep, AcceptStep

-----------------------------------------------------------------------------

\* Nothing runs and no session exists before start.
LEMMA InitInv == Init => DescriptorInv /\ TableInv /\ CaptureInv
<1> SUFFICES ASSUME Init PROVE DescriptorInv /\ TableInv /\ CaptureInv
  OBVIOUS
<1> USE HttpServerAssumption DEF Init
<1>1. DescriptorTypes
  <2>1. at \in [Conns -> Places] /\ fd \in [Conns -> 0..MaxFds]
    BY DEF Places, None
  <2>2. open \in [1..MaxFds -> 0..MaxConns] /\ connFds \subseteq 1..MaxFds
    BY DEF None
  <2>3. running \in BOOLEAN /\ acceptor \in {"none", "poll", "register", "done"} /\ stopper \in Phases
    BY DEF Phases
  <2> QED
    BY <2>1, <2>2, <2>3 DEF DescriptorTypes
<1>2. Spawned = {}
  BY DEF Spawned
<1>3. Descriptors /\ OneHeld /\ InPhase /\ OwnDescriptor
  BY <1>2 DEF Descriptors, OneHeld, InPhase, OwnDescriptor, None
<1>4. TableTypes
  BY DEF TableTypes, None
<1>5. \A c \in Conns, s \in Sessions : ~Takes(c, s)
  BY DEF Takes
<1>6. OneHolder /\ FreshNumbers /\ SweepHeld /\ SingleSession
  BY <1>5 DEF OneHolder, FreshNumbers, SweepHeld, SingleSession
<1>7. CaptureTypes
  <2>1. NoRequest \in [method : {"none", "GET", "POST", "DELETE", "PUT"},
                       sid : 0..MaxSessions, ok : BOOLEAN, frame : Bodies]
    BY DEF NoRequest, NoFrame, Bodies, None
  <2> QED
    BY <2>1 DEF CaptureTypes, None
<1>8. \A c \in Conns : Collecting(c)
  BY DEF Collecting, NoRequest
<1> QED
  BY <1>1, <1>3, <1>4, <1>6, <1>7, <1>8 DEF DescriptorInv, TableInv, CaptureInv

\* The inductive invariant holds in every state of the server.
THEOREM InvHolds == Spec => [](DescriptorInv /\ TableInv /\ CaptureInv)
<1>1. Init => DescriptorInv /\ TableInv /\ CaptureInv
  BY InitInv
<1>2. (DescriptorInv /\ TableInv /\ CaptureInv) /\ [Next]_vars =>
      (DescriptorInv /\ TableInv /\ CaptureInv)'
  BY DescriptorNext, TableNext, CaptureNext
<1> QED
  BY <1>1, <1>2, PTL DEF Spec

\* handle_connection works on its own socket until it closes it itself: no
\* descriptor it uses is closed, or recycled for another connection, by stop or
\* by any other thread, and conn_fds_ lists exactly the sockets in use.
THEOREM DescriptorsAreOwned == Spec => []OwnDescriptor
<1>1. DescriptorInv => OwnDescriptor
  BY DEF DescriptorInv
<1> QED
  BY <1>1, InvHolds, PTL

\* When HttpEndpoint::stop has returned the accept thread and all connection
\* threads are gone, and no descriptor is left open.
THEOREM StopLeavesNothing == Spec => []StoppedIsQuiet
<1>1. DescriptorInv => StoppedIsQuiet
  <2> SUFFICES ASSUME DescriptorInv, stopper = "done"
               PROVE  /\ Spawned = {} /\ acceptor \in {"none", "done"}
                      /\ \A d \in DOMAIN open : open[d] = None
    BY DEF StoppedIsQuiet
  <2>1. Spawned = {} /\ acceptor \in {"none", "done"}
    BY DEF DescriptorInv, InPhase
  <2>2. \A c \in Conns : at[c] \in {"none", "closed"}
    BY <2>1 DEF Spawned, DescriptorInv, OneHeld
  <2>3. \A d \in DOMAIN open : open[d] = None
    BY <2>2 DEF DescriptorInv, DescriptorTypes, Descriptors
  <2> QED
    BY <2>1, <2>3
<1> QED
  BY <1>1, InvHolds, PTL

-----------------------------------------------------------------------------
(* The server keeps the contract of its sessions                           *)

\* Nothing that the contract mentions changes in most steps.
LEMMA RestsStutter ==
    ASSUME TableRests PROVE UNCHANGED Contract!contractVars
<1>1. UNCHANGED <<multi, created, registry, closed, reported>> /\ (stopper' = "serving" <=> stopper = "serving")
  BY DEF TableRests
<1>2. Live' = Live
  BY <1>1 DEF Live
<1> QED
  BY <1>1, <1>2 DEF Contract!contractVars

\* connect of HttpServerTransport opens its session; start opens none.
LEMMA StartRefines ==
    ASSUME DescriptorInv, TableInv, Start \/ Connect
    PROVE  Contract!Next \/ UNCHANGED Contract!contractVars
<1> USE DEF connVars, sessionVars
<1>1. UNCHANGED <<multi, registry, closed, reported>>
  BY DEF Start, Connect
<1>2. CASE Start
  <2>1. multi /\ created' = created
    BY <1>2 DEF Start
  <2>2. Live' = Live
    BY <1>1, <2>1 DEF Live
  <2> QED
    BY <1>1, <2>1, <2>2 DEF Contract!contractVars
<1>3. CASE Connect
  <2>1. ~multi /\ stopper = "idle" /\ created = 0
    BY <1>3 DEF Connect, TableInv, SingleSession
  <2>2. Live = {} /\ 1..created = {}
    BY <2>1 DEF Live
  <2>3. CASE created' = 1 /\ stopper' = "serving"
    <3>1. 1..created' = {1} /\ 1 \in Sessions
      BY <2>3, HttpServerAssumption DEF Sessions
    <3>2. Live' = {1}
      BY <1>1, <2>1, <2>3, <3>1 DEF Live
    <3>3. Contract!Open(1)
      BY <1>1, <2>2, <3>1, <3>2 DEF Contract!Open
    <3> QED
      BY <3>1, <3>3 DEF Contract!Next
  <2>4. CASE created' = 0
    <3>1. 1..created' = {}
      BY <2>4
    <3>2. Live' = {}
      BY <1>1, <2>1, <3>1 DEF Live
    <3> QED
      BY <1>1, <2>2, <3>1, <3>2 DEF Contract!contractVars
  <2>5. (created' = 1 /\ stopper' = "serving") \/ created' = 0
    <3>1. CASE running' = TRUE /\ stopper' = "serving"
      BY <1>3, <3>1 DEF Connect
    <3>2. CASE UNCHANGED running
      <4>1. running = FALSE
        BY <2>1 DEF DescriptorInv, DescriptorTypes, InPhase
      <4> QED
        BY <1>3, <3>2, <4>1 DEF Connect
    <3> QED
      BY <1>3, <3>1, <3>2 DEF Connect, Listen
  <2> QED
    BY <2>3, <2>4, <2>5
<1> QED
  BY <1>2, <1>3

\* initialize opens a session under a number that was never used.
LEMMA InitializeRefines ==
    ASSUME DescriptorInv, TableInv, NEW c \in Conns, Initialize(c)
    PROVE  Contract!Next \/ UNCHANGED Contract!contractVars
<1>1. multi /\ UNCHANGED <<multi, closed, reported>>
  BY DEF Initialize, serverVars
<1>2. CASE UNCHANGED <<created, registry>>
  <2>1. Live' = Live
    BY <1>1, <1>2 DEF Live
  <2> QED
    BY <1>1, <1>2, <2>1 DEF Contract!contractVars
<1>3. CASE created < MaxSessions /\ created' = created + 1 /\ registry' = registry \cup {created + 1}
  <2>1. created \in Nat /\ MaxSessions \in Nat
    BY HttpServerAssumption DEF TableInv, TableTypes
  <2>2. created + 1 \in Sessions /\ created + 1 \notin 1..created /\ 1..created' = 1..created \cup {created + 1}
    BY <1>3, <2>1 DEF Sessions
  <2>3. Live' = Live \cup {created + 1}
    BY <1>1, <1>3 DEF Live
  <2>4. Contract!Open(created + 1)
    BY <1>1, <2>2, <2>3 DEF Contract!Open
  <2> QED
    BY <2>2, <2>4 DEF Contract!Next
<1> QED
  BY <1>2, <1>3 DEF Initialize, CreateEntry

\* A sweep, a DELETE and stop take sessions out of the table; disconnect takes
\* the one that has no table.
LEMMA TakingRefines ==
    ASSUME TableInv,
           \/ \E c \in Conns : ReadRequest(c) \/ Delete(c)
           \/ StopRemoveAll \/ Disconnect
    PROVE  Contract!Next
<1>0. registry \subseteq Sessions /\ UNCHANGED <<multi, created, closed, reported>>
  BY DEF TableInv, TableTypes, ReadRequest, Delete, StopRemoveAll, Disconnect, serverVars, sessionVars
<1>1. SUFFICES \E S \in SUBSET Sessions : S \subseteq Live /\ Live' = Live \ S
  BY <1>0 DEF Contract!Next, Contract!Retire
<1>2. ASSUME multi, NEW S, S \subseteq registry, registry' = registry \ S
      PROVE  \E T \in SUBSET Sessions : T \subseteq Live /\ Live' = Live \ T
  <2>1. Live = registry /\ Live' = registry \ S /\ S \in SUBSET Sessions
    BY <1>0, <1>2 DEF Live
  <2> QED
    BY <1>2, <2>1
<1>3. ASSUME NEW c \in Conns, ReadRequest(c)
      PROVE  \E S \in SUBSET Sessions : S \subseteq Live /\ Live' = Live \ S
  <2>1. registry' = registry \ (registry \cap stale) /\ UNCHANGED stopper
    BY <1>3 DEF ReadRequest, Sweep, serverVars
  <2>2. CASE multi
    BY <1>2, <2>1, <2>2
  <2>3. CASE ~multi
    <3>1. Live' = Live
      BY <1>0, <2>1, <2>3 DEF Live
    <3> QED
      BY <3>1
  <2> QED
    BY <2>2, <2>3
<1>4. ASSUME NEW c \in Conns, Delete(c)
      PROVE  \E S \in SUBSET Sessions : S \subseteq Live /\ Live' = Live \ S
  <2>1. multi /\ \E s \in registry : registry' = registry \ {s}
    BY <1>4 DEF Delete, RemoveEntry
  <2> QED
    BY <1>2, <2>1
<1>5. CASE StopRemoveAll
  <2>1. multi /\ registry' = registry \ registry
    BY <1>5 DEF StopRemoveAll, RemoveAllEntries
  <2> QED
    BY <1>2, <2>1
<1>6. CASE Disconnect
  <2>1. ~multi /\ stopper = "serving" /\ stopper' = "wake" /\ created = 1
    BY <1>6 DEF Disconnect, TableInv, SingleSession
  <2>2. Live = 1..created /\ Live' = {}
    BY <1>0, <2>1 DEF Live
  <2>3. 1..created \in SUBSET Sessions
    BY <2>1, HttpServerAssumption DEF Sessions
  <2> QED
    BY <2>2, <2>3
<1> QED
  BY <1>3, <1>4, <1>5, <1>6

\* Sessions that left the table are terminated and reported.
LEMMA TerminateRefines ==
    ASSUME TableInv, NEW S \in SUBSET Sessions, Terminate(S),
           \A s \in S : s <= created /\ s \notin Live /\ reported[s] = 0,
           UNCHANGED created, Live' = Live
    PROVE  Contract!Next
<1>1. S \subseteq 1..created \ Live
  BY DEF TableInv, TableTypes, Sessions
<1>2. \A s \in Sessions : reported[s] + (IF s \in S THEN 1 ELSE 0) = IF s \in S THEN 1 ELSE reported[s]
  BY DEF TableInv, TableTypes
<1>3. reported' = [s \in Sessions |-> IF s \in S THEN 1 ELSE reported[s]]
  BY <1>2, Zenon DEF Terminate
<1>4. Contract!Report(S)
  BY <1>1, <1>3 DEF Contract!Report, Contract!Ended, Terminate
<1> QED
  BY <1>4 DEF Contract!Next

\* What a connection thread has taken was opened, cannot be found any more and
\* was not reported.
LEMMA TakenIsEnded ==
    ASSUME TableInv, NEW c \in Conns, NEW s \in Sessions, Takes(c, s)
    PROVE  s <= created /\ s \notin Live /\ reported[s] = 0
<1>1. s \in Nat /\ created \in Nat
  BY DEF TableInv, TableTypes, Sessions
<1>2. s <= created
  BY <1>1 DEF TableInv, FreshNumbers
<1>3. multi
  BY DEF TableInv, SingleSession, Takes
<1>4. s \notin registry /\ reported[s] = 0
  BY DEF TableInv, OneHolder
<1> QED
  BY <1>2, <1>3, <1>4 DEF Live

\* The same of what stop or disconnect has taken.
LEMMA RemovedIsEnded ==
    ASSUME TableInv, stopper # "serving", NEW s \in removed
    PROVE  s \in Sessions /\ s <= created /\ s \notin Live /\ reported[s] = 0
<1>1. s \in Sessions /\ s \in Nat /\ created \in Nat
  BY DEF TableInv, TableTypes, Sessions
<1>2. s <= created
  BY <1>1 DEF TableInv, FreshNumbers
<1>3. s \notin registry /\ reported[s] = 0
  BY <1>1 DEF TableInv, OneHolder
<1> QED
  BY <1>1, <1>2, <1>3 DEF Live

\* Sweep and DELETE terminate what they have taken.
LEMMA ThreadTerminates ==
    ASSUME TableInv, NEW c \in Conns, Evict(c) \/ DeleteDone(c) PROVE Contract!Next
<1>1. UNCHANGED <<multi, created, registry, stopper>>
  BY DEF Evict, DeleteDone, serverVars
<1>2. Live' = Live
  BY <1>1 DEF Live
<1>3. CASE Evict(c)
  <2>1. doomed[c] \in SUBSET Sessions /\ Terminate(doomed[c])
    BY <1>3 DEF Evict, TableInv, TableTypes
  <2>2. \A s \in doomed[c] : s <= created /\ s \notin Live /\ reported[s] = 0
    BY <2>1, TakenIsEnded DEF Takes
  <2> QED
    BY <1>1, <1>2, <2>1, <2>2, TerminateRefines
<1>4. CASE DeleteDone(c)
  <2>1. entry[c] \in Sessions /\ Terminate({entry[c]})
    BY <1>4 DEF DeleteDone, TableInv, SweepHeld
  <2>2. entry[c] <= created /\ entry[c] \notin Live /\ reported[entry[c]] = 0
    BY <1>4, <2>1, TakenIsEnded DEF Takes, DeleteDone
  <2>3. {entry[c]} \in SUBSET Sessions /\ \A s \in {entry[c]} : s <= created /\ s \notin Live /\ reported[s] = 0
    BY <2>1, <2>2
  <2> QED
    BY <1>1, <1>2, <2>1, <2>3, TerminateRefines
<1> QED
  BY <1>3, <1>4

\* stop wakes the streams of what it has taken, and reports it when it has
\* joined the threads.
LEMMA StopTerminates ==
    ASSUME TableInv, StopDisconnect \/ StopNotify \/ EmitClose PROVE Contract!Next
<1>1. /\ UNCHANGED <<multi, created, registry>>
      /\ stopper \in {"wake", "notify"} /\ stopper' \in {"signal", "done"}
  BY DEF StopDisconnect, StopNotify, EmitClose
<1>2. Live' = Live
  BY <1>1 DEF Live
<1>3. removed \in SUBSET Sessions /\ \A s \in removed : s <= created /\ s \notin Live /\ reported[s] = 0
  BY <1>1, RemovedIsEnded DEF TableInv, TableTypes
<1>4. CASE StopDisconnect
  <2>1. removed \subseteq 1..created \ Live
    BY <1>3 DEF TableInv, TableTypes, Sessions
  <2>2. Contract!Close(removed)
    BY <1>1, <1>2, <1>4, <2>1 DEF StopDisconnect, Contract!Close, Contract!Ended
  <2> QED
    BY <1>3, <2>2 DEF Contract!Next
<1>5. CASE StopNotify \/ EmitClose
  BY <1>1, <1>2, <1>3, <1>5, TerminateRefines DEF StopNotify, EmitClose
<1> QED
  BY <1>4, <1>5

\* Every step of the server is a step of the contract or none of its business.
LEMMA StepRefines ==
    ASSUME DescriptorInv, TableInv, [Next]_vars
    PROVE  [Contract!Next]_(Contract!contractVars)
<1>1. CASE UNCHANGED vars
  <2>1. TableRests
    BY <1>1 DEF vars, TableRests, TableInv, TableTypes
  <2> QED
    BY <2>1, RestsStutter
<1>2. ASSUME NEW c \in Conns,
             \/ ConnStep(c) \/ ReadRefused(c) \/ StreamWriteFails(c)
             \/ HangUp(c) \/ Accept(c) \/ Register(c)
      PROVE  [Contract!Next]_(Contract!contractVars)
  BY <1>2, ConnRests, RestsStutter, ThreadTerminates, TakingRefines, InitializeRefines
<1>3. ASSUME \/ StopSignal \/ StopShutdownFds \/ StopJoin \/ AcceptExit
             \/ \E s \in Sessions : Age(s)
      PROVE  [Contract!Next]_(Contract!contractVars)
  BY <1>3, StopRests, RestsStutter
<1> QED
  BY <1>1, <1>2, <1>3, TakingRefines, StartRefines, StopTerminates
    DEF Next, ServerStep, StopStep, AcceptStep

\* Both HTTP servers keep the contract of their sessions, whatever idle sweeps,
\* DELETEs, initializes and stop do at the same time: an id is given out once,
\* leaves the table once and never returns, and the session is closed and
\* reported to on_session_closed only after that, and reported once.
THEOREM SessionsEndOnce == Spec => ImplementsContract
<1>1. Init => Contract!Init
  <2> SUFFICES ASSUME Init PROVE Contract!Init
    OBVIOUS
  <2>1. 1..created = {} /\ Live = {}
    BY DEF Init, Live
  <2> QED
    BY <2>1 DEF Init, Contract!Init
<1>2. DescriptorInv /\ TableInv /\ CaptureInv /\ [Next]_vars => [Contract!Next]_(Contract!contractVars)
  BY StepRefines
<1> QED
  BY <1>1, <1>2, InvHolds, PTL DEF Spec, ImplementsContract, Contract!Spec

-----------------------------------------------------------------------------
(* Answers                                                                 *)

\* The answer to a POST is the answers to its own items and requests, in order,
\* whatever else is dispatched in the same session, for any bodies.
THEOREM PostsAnswerTheirOwn == Spec => []PostAnswersItsOwn
<1>1. CaptureInv => PostAnswersItsOwn
  <2> SUFFICES ASSUME CaptureInv, NEW c \in Conns,
                      at[c] = "finish", request[c].method = "POST", status[c] \in {200, 202}
               PROVE  LET frame == request[c].frame
                          answers == captured[c]
                      IN  /\ frame.errors <= Len(answers)
                          /\ \A i \in 1..frame.errors : answers[i] = <<c, None>>
                          /\ \A i \in frame.errors + 1..Len(answers) :
                                \E m \in Asking(frame) : answers[i] = <<c, m>>
                          /\ \A i, j \in frame.errors + 1..Len(answers) :
                                i < j => answers[i][2] < answers[j][2]
                          /\ \A m \in Asking(frame) :
                                \E i \in frame.errors + 1..Len(answers) : answers[i] = <<c, m>>
                          /\ status[c] = 202 <=> frame.errors = 0 /\ Asking(frame) = {}
    BY DEF PostAnswersItsOwn
  <2> DEFINE frame == request[c].frame
             answers == captured[c]
  <2>1. /\ Collected(c, frame, answers, Len(frame.messages) + 1) /\ (status[c] = 202 <=> answers = <<>>)
        /\ frame.errors \in Nat /\ frame.messages \in Seq({"init", "req", "note"})
        /\ answers \in Seq(Conns \X Nat)
    BY DEF CaptureInv, Collecting, CaptureTypes, Bodies
  <2>2. \A m \in Asking(frame) : m < Len(frame.messages) + 1
    BY <2>1 DEF Asking
  <2>3. /\ frame.errors <= Len(answers)
        /\ \A i \in 1..frame.errors : answers[i] = <<c, None>>
        /\ \A i \in frame.errors + 1..Len(answers) : \E m \in Asking(frame) : answers[i] = <<c, m>>
        /\ \A i, j \in frame.errors + 1..Len(answers) : i < j => answers[i][2] < answers[j][2]
        /\ \A m \in Asking(frame) :
              \E i \in frame.errors + 1..Len(answers) : answers[i] = <<c, m>>
    <3> HIDE DEF frame, answers
    <3>1. Collected(c, frame, answers, Len(frame.messages) + 1)
      BY <2>1
    <3>2. /\ frame.errors <= Len(answers)
          /\ \A i \in 1..frame.errors : answers[i] = <<c, None>>
          /\ \A i, j \in frame.errors + 1..Len(answers) : i < j => answers[i][2] < answers[j][2]
      BY <3>1, Zenon DEF Collected
    <3>3. \A i \in frame.errors + 1..Len(answers) : \E m \in Asking(frame) : answers[i] = <<c, m>>
      <4> SUFFICES ASSUME NEW i \in frame.errors + 1..Len(answers)
                   PROVE  \E m \in Asking(frame) : answers[i] = <<c, m>>
        OBVIOUS
      <4>1. PICK m \in Asking(frame) : m < Len(frame.messages) + 1 /\ answers[i] = <<c, m>>
        BY <3>1 DEF Collected
      <4> QED
        BY <4>1
    <3>4. \A m \in Asking(frame) :
             \E i \in frame.errors + 1..Len(answers) : answers[i] = <<c, m>>
      BY <3>1, <2>2, Zenon DEF Collected
    <3> QED
      BY <3>2, <3>3, <3>4, Zenon
  <2>4. answers = <<>> <=> frame.errors = 0 /\ Asking(frame) = {}
    <3> HIDE DEF frame, answers
    <3>1. answers = <<>> <=> Len(answers) = 0
      BY <2>1
    <3>2. ASSUME Len(answers) = 0 PROVE frame.errors = 0 /\ Asking(frame) = {}
      BY <2>1, <2>3, <3>2
    <3>3. ASSUME frame.errors = 0, Asking(frame) = {} PROVE Len(answers) = 0
      <4>1. Len(answers) \in Nat
        BY <2>1
      <4>2. ~(1 <= Len(answers))
        <5>1. \A i \in frame.errors + 1..Len(answers) : FALSE
          BY <2>3, <3>3
        <5>2. 1 <= Len(answers) => 1 \in frame.errors + 1..Len(answers)
          BY <3>3, <4>1
        <5> QED
          BY <5>1, <5>2
      <4> QED
        BY <4>1, <4>2
    <3> QED
      BY <3>1, <3>2, <3>3
  <2> QED
    BY <2>1, <2>3, <2>4
<1> QED
  BY <1>1, InvHolds, PTL
=============================================================================
