------------------------------ MODULE JsonRpc ------------------------------
(***************************************************************************)
(* JSON-RPC messages: how message_to_json writes them and how parse_frame, *)
(* an item of a batch per step, reads them again.                          *)
(*                                                                         *)
(* Of a JSON object only the type of each field counts: "absent", "null",  *)
(* "int", "string", "object", "array".  An error object has an integer     *)
(* code and a string as message ("object"), lacks one of them              *)
(* ("incomplete") or has them with another type ("mistyped").  What is no  *)
(* object is like one that has no fields.                                  *)
(***************************************************************************)
EXTENDS Integers, Sequences, FiniteSets

Object(v, m, i, p, r, e) == [jsonrpc |-> v, method |-> m, id |-> i, params |-> p, result |-> r, error |-> e]

Messages ==
    {[type |-> "request", id |-> i, params |-> p] : i \in {"int", "string"}, p \in {"absent", "object", "array"}}
    \cup {[type |-> "notification", params |-> p] : p \in {"absent", "object", "array"}}
    \cup {[type |-> "response", id |-> i, error |-> e] : i \in {"null", "int", "string"}, e \in BOOLEAN}

message_to_json(m) ==
    CASE m.type = "request" -> Object("2.0", "string", m.id, m.params, "absent", "absent")
      [] m.type = "notification" -> Object("2.0", "string", "absent", m.params, "absent", "absent")
      [] m.type = "response" -> Object("2.0", "absent", m.id, "absent",
                                       IF m.error THEN "absent" ELSE "any", IF m.error THEN "object" ELSE "absent")

\* Values that are refused: each breaks one rule of JSON-RPC.
Junk == {Object("absent", "absent", "absent", "absent", "absent", "absent"),
         Object("1.0", "string", "int", "absent", "absent", "absent"),
         Object("2.0", "int", "int", "absent", "absent", "absent"),
         Object("2.0", "string", "null", "absent", "absent", "absent"),
         Object("2.0", "string", "int", "string", "absent", "absent"),
         Object("2.0", "absent", "int", "absent", "any", "object"),
         Object("2.0", "absent", "int", "absent", "absent", "absent"),
         Object("2.0", "absent", "absent", "absent", "any", "absent"),
         Object("2.0", "absent", "object", "absent", "any", "absent"),
         Object("2.0", "absent", "int", "absent", "absent", "string"),
         Object("2.0", "absent", "int", "absent", "absent", "incomplete"),
         Object("2.0", "absent", "absent", "absent", "absent", "mistyped")}

\* Values that pass the checks and that Error::from_json cannot convert.
Mistyped == {Object("2.0", "absent", i, "absent", "absent", "mistyped") : i \in {"null", "int", "string"}}

Items == {message_to_json(m) : m \in Messages} \cup Junk \cup Mistyped

\* A frame is an array, another JSON value, or no JSON at all ("discarded").
CONSTANT Frames

ASSUME FrameAssumption ==
    \A f \in Frames :
        /\ f \in [form : {"discarded", "single", "batch"}, items : Seq(Items)]
        /\ f.form = "single" => Len(f.items) = 1

VARIABLES
    frame,        \* the frame that parse_frame is given
    item,         \* the next item of a batch
    messages,     \* ParsedFrame::messages
    item_errors,  \* how many errors are in ParsedFrame::item_errors
    parsed        \* "running", what is returned ("frame" or "error") or "exception"

frameVars == <<frame, item, messages, item_errors, parsed>>

FrameStart(f) ==
    /\ frame = f
    /\ item = 1 /\ messages = <<>> /\ item_errors = 0 /\ parsed = "running"

FrameInit == \E f \in Frames : FrameStart(f)

-----------------------------------------------------------------------------
(* parse_message                                                           *)

Refused == [type |-> "refused"]
Thrown == [type |-> "thrown"]

\* An object with a method: a notification or, if it has an id, a request.
parse_call(j) ==
    LET params == IF j.params = "null" THEN "absent" ELSE j.params IN
    IF j.method # "string" \/ params \notin {"absent", "object", "array"} THEN Refused
    ELSE IF j.id = "absent" THEN [type |-> "notification", params |-> params]
    ELSE IF j.id \in {"int", "string"} THEN [type |-> "request", id |-> j.id, params |-> params]
    ELSE Refused

\* Mutant: an object with both a result and an error passes for a response.
parse_response_lenient(j) ==
    IF (j.result = "absent" /\ j.error = "absent") \/ j.id \notin {"null", "int", "string"}
       \/ j.error \notin {"absent", "object", "mistyped"}
    THEN Refused
    ELSE IF j.error = "mistyped" THEN Thrown
    ELSE [type |-> "response", id |-> j.id, error |-> j.error # "absent"]

\* An object without: exactly one of result and error, an id, and in an error a
\* code and a message, which from_json then converts or throws.
parse_response(j) ==
    IF (j.result = "absent") = (j.error = "absent") \/ j.id \notin {"null", "int", "string"}
       \/ j.error \notin {"absent", "object", "mistyped"}
    THEN Refused
    ELSE IF j.error = "mistyped" THEN Thrown
    ELSE [type |-> "response", id |-> j.id, error |-> j.error # "absent"]

parse_message(j) ==
    IF j.jsonrpc # "2.0" THEN Refused
    ELSE IF j.method # "absent" THEN parse_call(j) ELSE parse_response(j)

-----------------------------------------------------------------------------
(* parse_frame                                                             *)

\* Text that is not JSON, and an empty batch, are refused as a whole.
RefuseFrame ==
    /\ parsed = "running"
    /\ frame.form = "discarded" \/ (frame.form = "batch" /\ frame.items = <<>>)
    /\ parsed' = "error"
    /\ UNCHANGED <<frame, item, messages, item_errors>>

\* An item of a batch: one that is refused does not affect the others.
ParseItem ==
    /\ parsed = "running" /\ frame.form = "batch" /\ item <= Len(frame.items)
    /\ LET m == parse_message(frame.items[item]) IN
       /\ m # Thrown
       /\ IF m # Refused THEN messages' = Append(messages, m) /\ UNCHANGED item_errors
                         ELSE item_errors' = item_errors + 1 /\ UNCHANGED messages
    /\ item' = item + 1
    /\ UNCHANGED <<frame, parsed>>

BatchParsed ==
    /\ parsed = "running" /\ frame.form = "batch" /\ frame.items # <<>> /\ item > Len(frame.items)
    /\ parsed' = "frame"
    /\ UNCHANGED <<frame, item, messages, item_errors>>

\* A single message: the frame is refused with it.
ParseSingle ==
    /\ parsed = "running" /\ frame.form = "single"
    /\ LET m == parse_message(frame.items[1]) IN
       /\ m # Thrown
       /\ IF m # Refused THEN messages' = <<m>> /\ parsed' = "frame" ELSE parsed' = "error" /\ UNCHANGED messages
    /\ UNCHANGED <<frame, item, item_errors>>

\* from_json throws: the exception leaves parse_frame with what was parsed so
\* far, and no transport catches it.
ParseThrows ==
    /\ parsed = "running" /\ frame.form # "discarded" /\ item <= Len(frame.items)
    /\ parse_message(frame.items[item]) = Thrown
    /\ parsed' = "exception" /\ messages' = <<>> /\ item_errors' = 0
    /\ UNCHANGED <<frame, item>>

FrameNext == RefuseFrame \/ ParseItem \/ BatchParsed \/ ParseSingle \/ ParseThrows

FrameSpec == FrameInit /\ [][FrameNext]_frameVars

-----------------------------------------------------------------------------
(* Properties                                                              *)

\* How many of the first n items are messages.
Sound(items, n) == Cardinality({i \in 1..n : items[i] \notin Junk})

\* A frame is refused only when it is no JSON, an empty batch or a single value
\* that is no message.  Every other is taken apart completely: each item is
\* delivered as the message it was written from, in the order of the batch, or
\* counted as an error when it is none, whatever its neighbours are, with one
\* exception: an error whose code or message has the wrong type makes from_json
\* throw, and everything in the frame is lost.
ItemsAreIndependent ==
    LET items == frame.items
        n == Len(items)
    IN /\ parsed = "error" => \/ frame.form = "discarded"
                              \/ frame.form = "batch" /\ n = 0
                              \/ frame.form = "single" /\ items[1] \in Junk
       /\ parsed = "exception" => messages = <<>> /\ \E i \in 1..n : items[i] \in Mistyped
       /\ parsed = "frame" => /\ \A i \in 1..n : items[i] \notin Mistyped
                              /\ Len(messages) = Sound(items, n)
                              /\ item_errors = n - Sound(items, n)
                              /\ \A i \in 1..n : items[i] \notin Junk =>
                                    message_to_json(messages[Sound(items, i)]) = items[i]
=============================================================================
