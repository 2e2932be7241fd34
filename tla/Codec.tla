------------------------------- MODULE Codec -------------------------------
(***************************************************************************)
(* What is read from a socket arrives in pieces that have nothing to do    *)
(* with messages.  parse_head and SseParser put heads and events together  *)
(* again.  A behaviour takes one wire text, lets it arrive in arbitrary    *)
(* pieces, and runs the loop of one of the two decoders, a loop iteration  *)
(* per step, between and after the pieces.                                 *)
(*                                                                         *)
(* The texts are sequences of symbols.  "CR" and "LF" can be separated by  *)
(* the end of a piece; a field name with its colon, a start line or a      *)
(* header is one symbol, because no decoder looks inside it before it has  *)
(* the whole line.                                                         *)
(***************************************************************************)
EXTENDS Integers, Sequences, SequencesExt, FiniteSets, FiniteSetsExt

CONSTANTS
    MaxText,      \* length of the data of an event that comes alone
    MaxParts      \* headers of a head, events of a stream

VARIABLES
    decoder,      \* which of them, and the text it has to make sense of
    feed,         \* symbols that have not arrived
    buf,          \* buffer_
    mode,         \* how the decoder has ended
    current,      \* current_ and any_field_
    out           \* what it has delivered

codecVars == <<decoder, feed, buf, mode, current, out>>

CRLF == <<"CR", "LF">>
Blank == [id |-> <<>>, data |-> <<>>, any |-> FALSE]

\* The first place of t in s at or after from, or 0.
Find(t, s, from) ==
    LET I == {i \in from..(Len(s) - Len(t) + 1) : SubSeq(s, i, i + Len(t) - 1) = t}
    IN IF I = {} THEN 0 ELSE Min(I)

From(s, i) == SubSeq(s, i, Len(s))

\* A line without its line feed loses one carriage return at its end.
Trim(line) == IF line # <<>> /\ Last(line) = "CR" THEN Front(line) ELSE line

-----------------------------------------------------------------------------
(* The texts                                                               *)

\* format_sse_event: a data field for every line of the data.
format_sse_event(e) ==
    (IF e.id # <<>> THEN <<"id: ">> \o e.id \o <<"LF">> ELSE <<>>)
    \o <<"data: ">>
    \o FlattenSeq([i \in 1..Len(e.data) |->
                      IF e.data[i] = "LF" THEN <<"LF", "data: ">> ELSE <<e.data[i]>>])
    \o <<"LF", "LF">>

\* Events with up to n symbols of data, line breaks of both kinds among them.
Events(n) == [id : {<<>>, <<"1">>}, data : BoundedSeq({"x", "CR", "LF"}, n), any : {TRUE}]

\* A task: a text, what was put into it, and whether it is malformed.
Task(k, text, wanted, bad) == [kind |-> k, text |-> text, wanted |-> wanted, bad |-> bad]

\* Of a head, wanted holds the lengths parse_head may find: that of the head and,
\* if the head has bare line feeds and the body an empty line that ends with CR
\* LF, the length up to there, for CRLF CRLF is looked for first.
HeadLengths(nl, n, body) ==
    LET length == Len(nl) * (n + 2) + n + 1
        blank == Find(CRLF \o CRLF, body, 1)
    IN {length} \cup IF nl = <<"LF">> /\ blank # 0 THEN {length + blank + 3} ELSE {}

HeadTasks ==
    {Task("head", <<"start">> \o nl \o FlattenSeq([i \in 1..n |-> <<"header">> \o nl]) \o nl \o b,
          HeadLengths(nl, n, b), FALSE) :
        nl \in {CRLF, <<"LF">>}, n \in 0..MaxParts,
        b \in {<<>>, <<"x", "x">>, <<"x">> \o CRLF \o CRLF \o <<"x">>, CRLF \o CRLF, <<"LF", "LF">>}}
    \cup {Task("head", t, {}, TRUE) :
            t \in {CRLF \o CRLF, <<"start">> \o CRLF \o <<"x">> \o CRLF \o CRLF}}

\* A comment may precede the events; two events have shorter data.
SseTasks ==
    {Task("sse", p \o FlattenSeq([i \in 1..Len(e) |-> format_sse_event(e[i])]), e, FALSE) :
        e \in BoundedSeq(Events(1), MaxParts) \cup {<<v>> : v \in Events(MaxText)},
        p \in {<<>>, <<":", "x", "LF", "LF">>}}

Start(d) ==
    /\ decoder = d
    /\ feed = d.text
    /\ buf = <<>>
    /\ mode = "run" /\ out = <<>> /\ current = Blank

Init ==
    \/ \E d \in HeadTasks : Start(d)
    \/ \E d \in SseTasks : Start(d)

\* A read returns the next symbols.
Arrive(n) ==
    /\ n \in 1..Len(feed)
    /\ buf' = buf \o SubSeq(feed, 1, n)
    /\ feed' = From(feed, n + 1)
    /\ UNCHANGED <<decoder, mode, current, out>>

Runs(k, m) == decoder.kind = k /\ mode = m /\ UNCHANGED decoder

-----------------------------------------------------------------------------
(* parse_head                                                              *)

HeadEnd == IF Find(CRLF \o CRLF, buf, 1) # 0 THEN Find(CRLF \o CRLF, buf, 1) + 3
           ELSE IF Find(<<"LF", "LF">>, buf, 1) # 0 THEN Find(<<"LF", "LF">>, buf, 1) + 1 ELSE 0

\* A head that is complete: its lines are checked up to the first that is empty,
\* its length is consumed.
ParseHead ==
    /\ Runs("head", "run") /\ HeadEnd # 0
    /\ LET head == SubSeq(buf, 1, HeadEnd)
           lines == {i \in 2..HeadEnd : head[i - 1] = "LF"}
           empty == Min({i \in lines : head[i] = "LF" \/ SubSeq(head, i, i + 1) = CRLF})
       IN IF head[1] # "start" \/ \E i \in lines : i < empty /\ head[i] # "header"
          THEN mode' = "error" /\ UNCHANGED <<buf, out>>
          ELSE mode' = "done" /\ out' = <<HeadEnd>> /\ buf' = From(buf, HeadEnd + 1)
    /\ UNCHANGED <<feed, current>>

-----------------------------------------------------------------------------
(* SseParser::feed                                                         *)

\* take_line: an empty line ends an event, a comment is skipped, a field is
\* added to the event.  (event and retry are fields like id.)
take_line(line) ==
    IF line = <<>> THEN /\ out' = IF current.any THEN Append(out, current) ELSE out
                        /\ current' = Blank
    ELSE /\ UNCHANGED out
         /\ current' =
              CASE line[1] = "data: " ->
                     [current EXCEPT !.any = TRUE,
                        !.data = @ \o (IF @ # <<>> THEN <<"LF">> ELSE <<>>) \o Tail(line)]
                [] line[1] = "id: " -> [current EXCEPT !.any = TRUE, !.id = Tail(line)]
                [] OTHER -> current

\* Mutant: the lines of the data are joined without a line break.
SseLineJoined ==
    /\ Runs("sse", "run")
    /\ LET nl == Find(<<"LF">>, buf, 1)
           line == SubSeq(buf, 1, nl - 1) IN
       /\ nl # 0
       /\ buf' = From(buf, nl + 1)
       /\ IF line # <<>> /\ line[1] = "data: "
          THEN current' = [current EXCEPT !.any = TRUE, !.data = @ \o Tail(line)] /\ UNCHANGED out
          ELSE take_line(line)
    /\ UNCHANGED <<feed, mode>>

SseLine ==
    /\ Runs("sse", "run")
    /\ LET nl == Find(<<"LF">>, buf, 1) IN
       /\ nl # 0
       /\ buf' = From(buf, nl + 1)
       /\ take_line(Trim(SubSeq(buf, 1, nl - 1)))
    /\ UNCHANGED <<feed, mode>>

-----------------------------------------------------------------------------
Decode == ParseHead \/ SseLine

Next == Decode \/ \E n \in 1..Len(feed) : Arrive(n)
Spec == Init /\ [][Next]_codecVars

-----------------------------------------------------------------------------
(* Properties                                                              *)

Finished(k) == decoder.kind = k /\ feed = <<>> /\ ~ENABLED Decode

\* parse_head finds the end of the head that was put on the wire, wherever it
\* was cut, and refuses a malformed one; only a head with bare line feeds may
\* take a part of its body with it, as HeadLengths says.
DecodesWhatWasSent ==
    Finished("head") =>
        IF decoder.bad THEN mode = "error" ELSE mode = "done" /\ out[1] \in decoder.wanted

\* What is left of data d that went over the wire: a carriage return at the end
\* of a line is taken for a part of the line break, and line breaks at the
\* beginning are lost, as SseParser joins lines only once there is data.
Surviving(d) ==
    LET kept == SelectSeq([i \in 1..Len(d) |-> <<d[i], i < Len(d) => d[i + 1] = "LF">>],
                          LAMBDA p : p # <<"CR", TRUE>>)
        n == Cardinality({i \in 1..Len(kept) : \A k \in 1..i : kept[k][1] = "LF"})
    IN [i \in 1..Len(kept) - n |-> kept[n + i][1]]

\* SseParser gives back the events that format_sse_event wrote, in order, with
\* their ids and with their data, the line breaks inside included, as far as it
\* survives the framing: all of it, if it has no raw line breaks, as JSON has
\* none.
EventsSurvive ==
    Finished("sse") =>
        /\ out = [i \in 1..Len(decoder.wanted) |-> [decoder.wanted[i] EXCEPT !.data = Surviving(@)]]
        /\ ~current.any
=============================================================================
