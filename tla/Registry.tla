------------------------------ MODULE Registry ------------------------------
(***************************************************************************)
(* What a Server offers (tools, resources, resource templates, prompts,    *)
(* completions, logging) and what a Client offers (roots, sampling and     *)
(* elicitation): the registries, the pages they are listed in, the         *)
(* requests that use them, the notifications broadcast to the sessions,    *)
(* and resource subscriptions.                                             *)
(*                                                                         *)
(* The registries have locks of their own and do not refer to each other,  *)
(* so a behaviour exercises one of them, the variable kind; the others are *)
(* empty.  The owner changes it on Threads of its own, while the read      *)
(* thread of each session answers its peer.  The peer is a program that    *)
(* lists the registry, or uses it, through Client; it lists once and again *)
(* whenever list_changed arrives.  A template is named by the URI that it  *)
(* matches, a completion by what it completes.                             *)
(*                                                                         *)
(* A ResourceProvider has two lists under one lock, with one set of        *)
(* subscriptions: the peers list its resources or its templates, by kind;  *)
(* others are the URIs that the other list has.                            *)
(***************************************************************************)
EXTENDS Integers, Sequences, SequencesExt, FiniteSets, Functions

CONSTANTS
    Names,        \* tool names, URIs, prompt names
    Sessions,     \* the sessions that are opened
    Listers,      \* those whose peers list the registry and subscribe; the
                  \* others use its entries
    Watched,      \* the URIs that they subscribe to
    Threads,      \* threads of the owner
    PageSize,     \* page_size_
    MaxTurns,     \* max_turns of run_sampling_tool_loop
    MaxCalls      \* bound on the owner's changes and updates

\* set_page_size takes 0 for 1.
ASSUME RegistryAssumption ==
    /\ IsFiniteSet(Names)
    /\ PageSize \in Nat \ {0} /\ MaxTurns \in Int

ServerKinds == {"tools", "resources", "templates", "prompts", "completions", "logging"}
ClientKinds == {"roots", "sampling"}
Levels == 0..1                          \* LoggingLevel, ordered

NoBody == [what |-> "none"]
Response(what) == [what |-> what]

VARIABLES
    kind,         \* the registry of this behaviour
    list,         \* tools_, resources_, templates_, prompts_, completions_ or
                  \* roots_; the requests a client has handlers for
    others,       \* templates_ if list is resources_, resources_ if it is templates_
    subs,         \* subscriptions_
    level,        \* Logger::level_
    callback,     \* changed_callback_ and emitter_ are set
    attached,     \* Server::sessions_
    declared,     \* each session's options_.capabilities
    thread,       \* each owner thread: at, its notification, sessions to go
    state,        \* each session: its state and its place in attach and detach
    serve,        \* each session's read thread: the request or its response
    inbox,        \* notifications and responses on their way to the peer
    peer,         \* each peer: at, next cursor, items seen of this listing,
                  \* view, stale, turn of its sampling loop
    calls         \* the owner's changes and updates so far

ownerVars == <<list, others, subs, level, thread, calls>>
sessionVars == <<attached, declared, callback, state>>
peerVars == <<serve, peer>>
registryVars == <<kind, list, others, subs, level, callback, attached, declared, thread, state,
                  serve, inbox, peer, calls>>

\* session_mutex_ is held by a thread that broadcasts, and by nobody else for
\* more than a step.
session_mutex_free == \A t \in Threads : thread[t].at # "send"

IdleThread == [at |-> "idle", note |-> NoBody, todo |-> {}]
NewPeer == [at |-> "idle", cursor |-> 0, seen |-> {}, view |-> {}, stale |-> TRUE, turn |-> 0]

Init ==
    /\ kind \in ServerKinds \cup ClientKinds
    /\ list \in {<<>>, SetToSeq(Names)} /\ others = {} /\ subs = {} /\ level = 0
    /\ callback = FALSE /\ attached = {}
    /\ declared = [s \in Sessions |-> FALSE]
    /\ thread = [t \in Threads |-> IdleThread]
    /\ state = [s \in Sessions |-> "none"]
    /\ serve = [s \in Sessions |-> NoBody]
    /\ inbox = [s \in Sessions |-> <<>>]
    /\ peer = [s \in Sessions |-> NewPeer]
    /\ calls = 0

-----------------------------------------------------------------------------
(* Changing the registry                                                   *)

\* A call of the owner, and the notification it goes on to broadcast.
OwnerCall(t, note) ==
    /\ thread[t].at = "idle" /\ calls < MaxCalls
    /\ calls' = calls + 1
    /\ thread' = IF note = NoBody THEN thread
                 ELSE [thread EXCEPT ![t] = [at |-> "call", note |-> note, todo |-> {}]]
    /\ UNCHANGED <<kind, sessionVars, peerVars, inbox>>

\* The callback or the emitter is called if it has been set.
IfSet(note) == IF callback THEN note ELSE NoBody

\* Under the registry's lock the list changes and the callback is copied; it
\* is called after the lock is released.
Changed(t, newList, newOthers, newSubs) ==
    /\ OwnerCall(t, IfSet([what |-> "changed"]))
    /\ list' = newList /\ others' = newOthers
    /\ subs' = newSubs
    /\ UNCHANGED level

Add(t, n) == n \notin Range(list) /\ Changed(t, Append(list, n), others, subs)

\* find_if and erase.
Without(n) == RemoveAt(list, CHOOSE i \in DOMAIN list : list[i] = n)

\* Mutant: a removal is not announced.
WithdrawSilently(t, n) ==
    /\ n \in Range(list) /\ OwnerCall(t, NoBody)
    /\ list' = Without(n)
    /\ UNCHANGED <<others, subs, level>>

Withdraw(t, n) == n \in Range(list) /\ Changed(t, Without(n), others, subs)

register_tool(t, n) == kind = "tools" /\ Add(t, n)
remove_tool(t, n) == kind = "tools" /\ Withdraw(t, n)
add_prompt(t, n) == kind = "prompts" /\ Add(t, n)
remove_prompt(t, n) == kind = "prompts" /\ Withdraw(t, n)
add_root(t, n) == kind = "roots" /\ Add(t, n)
remove_root(t, n) == kind = "roots" /\ Withdraw(t, n)

\* The same of a list that the peers do not look at; list_changed is sent all
\* the same.
AddOther(t, n) == n \notin others /\ Changed(t, list, others \cup {n}, subs)

add_resource(t, n) ==
    (kind = "resources" /\ Add(t, n)) \/ (kind = "templates" /\ AddOther(t, n))
add_resource_template(t, n) ==
    (kind = "templates" /\ Add(t, n)) \/ (kind = "resources" /\ AddOther(t, n))

\* Mutant: the subscription outlives the resource.
RemoveKeepsSubscription(t, n) == kind = "resources" /\ Withdraw(t, n)

\* The subscription to a resource is dropped with it, although a template may
\* match its URI.  Templates are never removed.
remove_resource(t, n) ==
    \/ /\ kind = "resources" /\ n \in Range(list)
       /\ Changed(t, Without(n), others, subs \ {n})
    \/ /\ kind = "templates" /\ n \in others
       /\ Changed(t, list, others \ {n}, subs \ {n})

\* A completion is set or replaced, and nobody is told.
set_completion(t, n) ==
    /\ kind = "completions" /\ OwnerCall(t, NoBody)
    /\ list' = IF n \in Range(list) THEN list ELSE Append(list, n)
    /\ UNCHANGED <<others, subs, level>>

-----------------------------------------------------------------------------
(* Notifications                                                           *)

\* notify_resource_updated: is_subscribed, and then the broadcast.
notify_resource_updated(t, n) ==
    /\ kind \in {"resources", "templates"}
    /\ n \in subs
    /\ OwnerCall(t, [what |-> "updated", uri |-> n])
    /\ UNCHANGED <<list, others, subs, level>>

\* Logger::log of a message that is not below the threshold.
log(t, l) ==
    /\ kind = "logging" /\ l >= level
    /\ OwnerCall(t, IfSet([what |-> "message"]))
    /\ UNCHANGED <<list, others, subs, level>>

\* send_notification_if_operating takes session_mutex_ for the whole loop.
Broadcast(t) ==
    /\ kind \in ServerKinds /\ thread[t].at = "call" /\ session_mutex_free
    /\ thread' = [thread EXCEPT ![t].at = "send", ![t].todo = attached]
    /\ UNCHANGED <<kind, list, others, subs, level, calls, sessionVars, peerVars, inbox>>

\* Every session that is Operating is sent the notification.
Notified(s, note) ==
    IF state[s] = "operating" THEN [inbox EXCEPT ![s] = Append(@, note)] ELSE inbox

SendTo(t, s) ==
    /\ thread[t].at = "send" /\ s \in thread[t].todo
    /\ thread' = [thread EXCEPT ![t].todo = @ \ {s}]
    /\ inbox' = Notified(s, thread[t].note)
    /\ UNCHANGED <<kind, list, others, subs, level, calls, sessionVars, peerVars>>

BroadcastDone(t) ==
    /\ thread[t].at = "send" /\ thread[t].todo = {}
    /\ thread' = [thread EXCEPT ![t] = IdleThread]
    /\ UNCHANGED <<kind, list, others, subs, level, calls, sessionVars, peerVars, inbox>>

\* The session of a Client is s, if it has one.
NoOtherSession(s) == \A r \in Sessions \ {s} : state[r] \in {"none", "destroyed"}

\* A client that has a session tells it, and takes no lock.
RootsChanged(t, s) ==
    /\ kind = "roots" /\ thread[t].at = "call" /\ NoOtherSession(s)
    /\ thread' = [thread EXCEPT ![t] = IdleThread]
    /\ inbox' = Notified(s, thread[t].note)
    /\ UNCHANGED <<kind, list, others, subs, level, calls, sessionVars, peerVars>>

-----------------------------------------------------------------------------
(* Sessions                                                                *)

Becomes(s, old, new) == state[s] = old /\ state' = [state EXCEPT ![s] = new]

\* Server::capabilities and Client::capabilities; enabled is roots_enabled_.
capabilities(enabled) ==
    \/ kind = "logging"
    \/ kind = "roots" /\ enabled
    \/ list # <<>> \/ others # {}

\* A session is constructed with the capabilities of this moment; they are
\* not looked at again.  A Client that has a session opens no other.
Construct(s) ==
    /\ Becomes(s, "none", "constructed")
    /\ kind \in ClientKinds => NoOtherSession(s)
    /\ \E enabled \in BOOLEAN :
          declared' = [declared EXCEPT ![s] = capabilities(enabled)]
    /\ UNCHANGED <<kind, callback, attached, ownerVars, peerVars, inbox>>

\* attach lists the session.
Attach(s) ==
    /\ kind \in ServerKinds /\ session_mutex_free
    /\ Becomes(s, "constructed", "attached")
    /\ attached' = attached \cup {s}
    /\ UNCHANGED <<kind, callback, declared, ownerVars, peerVars, inbox>>

\* The rest of attach sets the handlers and the callbacks; then the session
\* connects.
Wire(s) ==
    /\ Becomes(s, "attached", "initializing")
    /\ callback' = TRUE
    /\ UNCHANGED <<kind, attached, declared, ownerVars, peerVars, inbox>>

\* The same of a Client.
wire_session(s) ==
    /\ kind \in ClientKinds
    /\ Becomes(s, "constructed", "initializing")
    /\ callback' = TRUE
    /\ UNCHANGED <<kind, attached, declared, ownerVars, peerVars, inbox>>

\* initialize fails: Client::connect disconnects and resets session_, and may
\* be called again.  A session that has operated is kept for good.
ConnectFails(s) ==
    /\ kind \in ClientKinds
    /\ Becomes(s, "initializing", "destroyed")
    /\ UNCHANGED <<kind, callback, attached, declared, ownerVars, peerVars, inbox>>

\* The handshake, which Handshake describes, is completed.
Operate(s) ==
    /\ Becomes(s, "initializing", "operating")
    /\ UNCHANGED <<kind, callback, attached, declared, ownerVars, peerVars, inbox>>

\* The connection closes; what was on its way is lost.  (A Client that is in
\* connect notices by ConnectFails.)
Close(s) ==
    /\ state[s] \in {"initializing", "operating"}
    /\ kind \in ClientKinds => state[s] = "operating"
    /\ state' = [state EXCEPT ![s] = "closed"]
    /\ serve' = [serve EXCEPT ![s] = NoBody]
    /\ inbox' = [inbox EXCEPT ![s] = <<>>]
    /\ peer' = [peer EXCEPT ![s] = NewPeer]
    /\ UNCHANGED <<kind, callback, attached, declared, ownerVars>>

\* Mutant: detach does not take the lock.
DetachUnlocked(s) ==
    /\ kind \in ServerKinds
    /\ Becomes(s, "closed", "detached")
    /\ attached' = attached \ {s}
    /\ UNCHANGED <<kind, callback, declared, ownerVars, peerVars, inbox>>

\* run, or the close handler of an HTTP session, detaches the session ...
Detach(s) ==
    /\ kind \in ServerKinds /\ session_mutex_free
    /\ Becomes(s, "closed", "detached")
    /\ attached' = attached \ {s}
    /\ UNCHANGED <<kind, callback, declared, ownerVars, peerVars, inbox>>

\* ... and then destroys it.
Destroy(s) ==
    /\ Becomes(s, "detached", "destroyed")
    /\ UNCHANGED <<kind, callback, attached, declared, ownerVars, peerVars, inbox>>

-----------------------------------------------------------------------------
(* The requests of a peer                                                  *)

\* Client::request: the peer sends a request and waits for its response.
Ask(s, request) ==
    /\ state[s] = "operating" /\ peer[s].at = "idle"
    /\ serve' = [serve EXCEPT ![s] = request]
    /\ UNCHANGED <<kind, sessionVars, ownerVars, inbox>>

\* A page of the listing, from the start when the peer's view is stale.
AskPage(s) ==
    LET cursor == peer[s].cursor IN
    /\ s \in Listers /\ (cursor # 0 \/ peer[s].stale)
    /\ Ask(s, [what |-> "list", cursor |-> cursor])
    /\ peer' = [peer EXCEPT ![s] = IF cursor = 0
                                   THEN [@ EXCEPT !.at = "wait", !.seen = {}, !.stale = FALSE]
                                   ELSE [@ EXCEPT !.at = "wait"]]

ListTools(s) == kind = "tools" /\ AskPage(s)
ListResources(s) == kind = "resources" /\ AskPage(s)
ListResourceTemplates(s) == kind = "templates" /\ AskPage(s)
ListPrompts(s) == kind = "prompts" /\ AskPage(s)
ListRoots(s) == kind = "roots" /\ AskPage(s)

\* Any other request of a peer.
AskFor(s, what, n) ==
    /\ Ask(s, [what |-> what, name |-> n])
    /\ peer' = [peer EXCEPT ![s].at = "wait"]

Use(s, k, n) == kind = k /\ s \notin Listers /\ AskFor(s, "call", n)

CallTool(s, n) == Use(s, "tools", n)
ReadResource(s, n) == Use(s, "resources", n) \/ Use(s, "templates", n)
GetPrompt(s, n) == Use(s, "prompts", n)
Complete(s, n) == Use(s, "completions", n)

\* A turn of run_sampling_tool_loop, or an elicitation.
CreateMessage(s, n) == peer[s].turn < MaxTurns /\ Use(s, "sampling", n)

SetLoggingLevel(s, l) == kind = "logging" /\ AskFor(s, "setLevel", l)

SubscribeResource(s, n) ==
    kind \in {"resources", "templates"} /\ s \in Listers /\ n \in Watched /\ AskFor(s, "subscribe", n)

UnsubscribeResource(s, n) ==
    kind \in {"resources", "templates"} /\ s \in Listers /\ n \in Watched /\ AskFor(s, "unsubscribe", n)

-----------------------------------------------------------------------------
(* Serving them                                                            *)

\* check_incoming_request: a method of a capability that the session has not
\* declared is refused, whatever the registry holds by now.
Refuse(s) ==
    /\ serve[s].what \in {"list", "call", "subscribe", "unsubscribe"} /\ ~declared[s]
    /\ serve' = [serve EXCEPT ![s] = Response("unsupported")]
    /\ UNCHANGED <<kind, sessionVars, ownerVars, peer, inbox>>

\* The handler of a method takes the request a step further.
Handle(s, k, what, next) ==
    /\ kind = k /\ serve[s].what = what /\ declared[s]
    /\ \E n \in next : serve' = [serve EXCEPT ![s] = n]
    /\ UNCHANGED <<kind, list, others, thread, calls, sessionVars, peer, inbox>>

Serve(s, k, what, next) == Handle(s, k, what, next) /\ UNCHANGED <<subs, level>>

\* paginate; a cursor is the number it spells.  next = 0: no next_cursor.
Paginate(items, start, size) ==
    LET end == IF start + size < Len(items) THEN start + size ELSE Len(items) IN
    IF start > Len(items) THEN [what |-> "error"]
    ELSE [what |-> "page", items |-> Range(SubSeq(items, start + 1, end)),
          next |-> IF end < Len(items) THEN end ELSE 0]

\* The list is copied under the lock, and a page of the copy is the answer.
list_tools(cursor) == Paginate(list, cursor, PageSize)
list_resources(cursor) == Paginate(list, cursor, PageSize)
list_resource_templates(cursor) == Paginate(list, cursor, PageSize)
list_prompts(cursor) == Paginate(list, cursor, PageSize)
list_roots == Paginate(list, 0, Len(list))      \* all on one page

tools_list(s) == Serve(s, "tools", "list", {list_tools(serve[s].cursor)})
resources_list(s) == Serve(s, "resources", "list", {list_resources(serve[s].cursor)})
templates_list(s) == Serve(s, "templates", "list", {list_resource_templates(serve[s].cursor)})
prompts_list(s) == Serve(s, "prompts", "list", {list_prompts(serve[s].cursor)})
roots_list(s) == Serve(s, "roots", "list", {list_roots})

\* An entry's handler is copied under the lock, or there is none; what runs
\* later is the copy, whatever has become of the entry.  The arguments are
\* checked first.
Lookup(n, entries) ==
    {Response("answer")} \cup (IF n \in entries THEN {Response("run")} ELSE {})

\* A resource has the URI, or a template matches it.
uri_known_locked(n) == n \in Range(list) \cup others

call_tool(n) == Lookup(n, Range(list))
read_resource(n) == Lookup(n, Range(list) \cup others)
get_prompt(n) == Lookup(n, Range(list))
complete(n) == Lookup(n, Range(list))

tools_call(s) == Serve(s, "tools", "call", call_tool(serve[s].name))
resources_read(s, k) == Serve(s, k, "call", read_resource(serve[s].name))
prompts_get(s) == Serve(s, "prompts", "call", get_prompt(serve[s].name))
completion_complete(s) == Serve(s, "completions", "call", complete(serve[s].name))

\* A client's handlers are there or not; a request may be malformed.
create_message(s) == Serve(s, "sampling", "call", {Response("run"), Response("answer")})

\* The handler runs.  What a tool, a resource or a prompt throws is an answer;
\* what a completion or a client's handler throws, Dispatch catches.  All of
\* them catch McpError and std::exception only: nobody catches anything else,
\* and the program is terminated.
run_tool(s) == Serve(s, "tools", "run", {Response("answer"), Response("terminated")})
run_read(s, k) == Serve(s, k, "run", {Response("answer"), Response("terminated")})
run_prompt(s) == Serve(s, "prompts", "run", {Response("answer"), Response("terminated")})
run_completion(s) ==
    Serve(s, "completions", "run", {Response("answer"), Response("thrown"), Response("terminated")})
run_sampling(s) ==
    Serve(s, "sampling", "run", {Response("answer"), Response("thrown"), Response("terminated")})

\* Mutant: an exception of a handler leaves the request without an answer.
DispatchForgets(s, k) == Serve(s, k, "thrown", {NoBody})

\* MessageRouter::dispatch answers a std::exception with an error.
Dispatch(s, k) == Serve(s, k, "thrown", {Response("answer")})

\* Under the lock: a URI that is known is subscribed to.
subscribe(n) == IF uri_known_locked(n) THEN subs \cup {n} ELSE subs

\* One set holds the subscriptions of all sessions.
unsubscribe(n) == subs \ {n}

resources_subscribe(s, k) ==
    /\ Handle(s, k, "subscribe", {Response("answer")})
    /\ subs' = subscribe(serve[s].name) /\ UNCHANGED level

resources_unsubscribe(s, k) ==
    /\ Handle(s, k, "unsubscribe", {Response("answer")})
    /\ subs' = unsubscribe(serve[s].name) /\ UNCHANGED level

\* logging/setLevel; the level is one for all sessions.
logging_setLevel(s) ==
    /\ Handle(s, "logging", "setLevel", {Response("answer")})
    /\ level' = serve[s].name /\ UNCHANGED subs

\* The response is sent after the locks are released.
Respond(s) ==
    /\ serve[s].what \in {"page", "error", "answer", "unsupported"}
    /\ inbox' = [inbox EXCEPT ![s] = Append(@, serve[s])]
    /\ serve' = [serve EXCEPT ![s] = NoBody]
    /\ UNCHANGED <<kind, sessionVars, ownerVars, peer>>

\* run_sampling_tool_loop goes on while the answers use tools, for at most
\* max_turns; then it is over and may be started again.
NextTurn(p) == {0} \cup (IF kind = "sampling" /\ p.turn + 1 < MaxTurns THEN {p.turn + 1} ELSE {})

\* What the peer's read thread makes of a message: the callback of a
\* notification, or the response it waits for.
Received(p, m) ==
    CASE m.what = "changed" -> {[p EXCEPT !.stale = TRUE]}
      [] m.what \in {"updated", "message"} -> {p}
      [] m.what = "page" /\ m.next # 0 ->
            {[p EXCEPT !.at = "idle", !.cursor = m.next, !.seen = @ \cup m.items]}
      [] m.what = "page" /\ m.next = 0 ->
            {[p EXCEPT !.at = "idle", !.cursor = 0, !.seen = {}, !.view = p.seen \cup m.items]}
      [] m.what = "error" -> {[p EXCEPT !.at = "idle", !.cursor = 0, !.stale = TRUE]}
      [] m.what = "unsupported" -> {[p EXCEPT !.at = "idle"]}
      [] m.what = "answer" -> {[p EXCEPT !.at = "idle", !.turn = u] : u \in NextTurn(p)}

Receive(s) ==
    /\ inbox[s] # <<>>
    /\ inbox' = [inbox EXCEPT ![s] = Tail(@)]
    /\ \E p \in Received(peer[s], Head(inbox[s])) : peer' = [peer EXCEPT ![s] = p]
    /\ UNCHANGED <<kind, serve, sessionVars, ownerVars>>

-----------------------------------------------------------------------------
OwnerStep(t) ==
    \/ \E n \in Names :
          \/ register_tool(t, n) \/ remove_tool(t, n) \/ add_prompt(t, n) \/ remove_prompt(t, n)
          \/ add_resource(t, n) \/ remove_resource(t, n) \/ add_resource_template(t, n)
          \/ add_root(t, n) \/ remove_root(t, n) \/ set_completion(t, n)
          \/ notify_resource_updated(t, n)
    \/ \E l \in Levels : log(t, l)
    \/ Broadcast(t) \/ BroadcastDone(t)
    \/ \E s \in Sessions : SendTo(t, s) \/ RootsChanged(t, s)

SessionStep(s) ==
    \/ Construct(s) \/ Attach(s) \/ Wire(s) \/ wire_session(s) \/ ConnectFails(s)
    \/ Operate(s) \/ Close(s) \/ Detach(s) \/ Destroy(s)

PeerStep(s) ==
    \/ ListTools(s) \/ ListResources(s) \/ ListResourceTemplates(s) \/ ListPrompts(s)
    \/ ListRoots(s) \/ Receive(s)
    \/ \E n \in Names :
          \/ CallTool(s, n) \/ ReadResource(s, n) \/ GetPrompt(s, n) \/ Complete(s, n)
          \/ CreateMessage(s, n) \/ SubscribeResource(s, n) \/ UnsubscribeResource(s, n)
    \/ \E l \in Levels : SetLoggingLevel(s, l)

ServeStep(s) ==
    \/ Refuse(s) \/ Respond(s)
    \/ tools_list(s) \/ resources_list(s) \/ templates_list(s) \/ prompts_list(s) \/ roots_list(s)
    \/ tools_call(s) \/ prompts_get(s) \/ completion_complete(s) \/ create_message(s)
    \/ run_tool(s) \/ run_prompt(s) \/ run_completion(s) \/ run_sampling(s)
    \/ \E k \in {"resources", "templates"} :
          \/ resources_read(s, k) \/ run_read(s, k)
          \/ resources_subscribe(s, k) \/ resources_unsubscribe(s, k)
    \/ \E k \in {"completions", "sampling"} : Dispatch(s, k)
    \/ logging_setLevel(s)

\* No exception has terminated the program.
Running == \A s \in Sessions : serve[s].what # "terminated"

Next ==
    \/ \E t \in Threads : Running /\ OwnerStep(t)
    \/ \E s \in Sessions : Running /\ (SessionStep(s) \/ PeerStep(s) \/ ServeStep(s))

Spec == Init /\ [][Next]_registryVars

-----------------------------------------------------------------------------
(* Properties                                                              *)

\* Every variable holds a value the registry and its sessions can give it,
\* and no name is registered twice.
TypeOK ==
    /\ list \in Seq(Names) /\ IsInjective(list) /\ others \cup subs \subseteq Names
    /\ callback \in BOOLEAN /\ attached \subseteq Sessions /\ level \in Levels
    /\ \A t \in Threads : thread[t].at \in {"idle", "call", "send"} /\ thread[t].todo \subseteq Sessions
    /\ \A s \in Sessions :
          /\ state[s] \in {"none", "constructed", "attached", "initializing", "operating", "closed",
                           "detached", "destroyed"}
          /\ declared[s] \in BOOLEAN
          /\ serve[s].what \in {"none", "list", "call", "subscribe", "unsubscribe", "setLevel", "run",
                                "thrown", "terminated", "page", "error", "answer", "unsupported"}
          /\ peer[s].at \in {"idle", "wait"} /\ peer[s].stale \in BOOLEAN
          /\ peer[s].cursor \in 0..Cardinality(Names) /\ peer[s].turn \in {0} \cup 0..MaxTurns - 1
          /\ peer[s].seen \cup peer[s].view \subseteq Names

\* A peer that lists again on list_changed knows the registry once nothing is
\* on its way: changes during its listing, between two of its pages or before
\* it was operating are not missed, although every page is taken from another
\* snapshot.  (A session that has not declared the capability refuses to list.)
ViewsConverge ==
    \A s \in Sessions :
        /\ state[s] = "operating" /\ declared[s] /\ inbox[s] = <<>>
        /\ peer[s].at = "idle" /\ peer[s].cursor = 0 /\ ~peer[s].stale
        /\ \A t \in Threads : thread[t].at = "idle"
        => peer[s].view = Range(list)

\* A peer that waits is served or has its response on the way, whatever the
\* registry, the handler and the broadcasts do meanwhile, unless a handler has
\* thrown what is no std::exception and terminated the program.
NoRequestIsForgotten ==
    Running => \A s \in Sessions : peer[s].at = "wait" =>
        \/ serve[s] # NoBody
        \/ \E i \in DOMAIN inbox[s] :
              inbox[s][i].what \in {"page", "error", "answer", "unsupported"}

\* A broadcast only uses sessions that exist: sessions_ holds bare pointers.
NoDanglingSession ==
    \A s \in Sessions : state[s] = "destroyed" =>
        s \notin attached /\ \A t \in Threads : s \notin thread[t].todo

\* A subscription is to a URI that the provider still knows, as a resource or
\* by a template that matches it: subscriptions, removals and templates in any
\* order, of all sessions.
SubscriptionsAreKnown ==
    kind \in {"resources", "templates"} => \A n \in subs : uri_known_locked(n)
=============================================================================
