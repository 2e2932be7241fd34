------------------------------ MODULE MCParts ------------------------------
(***************************************************************************)
(* Parts that share nothing, each with its own instance: the condition     *)
(* variable of VxCondVar, the Registry with its sessions, LineReader,      *)
(* JsonRpc, UriTemplate, ChunkedDecoder and the decoders of Codec.  A      *)
(* behaviour is one of one of them; what the others declare stays as it    *)
(* was.                                                                    *)
(***************************************************************************)
EXTENDS VxCondVar, Registry, LineReader, JsonRpc, UriTemplate, ChunkedDecoder

CONSTANTS MaxText, MaxParts  \* Codec, and the length of texts and batches

VARIABLES
    part,                                            \* the part of this behaviour
    decoder, feed, buf, mode, current, out           \* Codec

Dec == INSTANCE Codec

decVars == <<decoder, feed, buf, mode, current, out>>
partsVars == <<part, condVars, registryVars, lineVars, frameVars, templateVars, chunkVars, decVars>>

-----------------------------------------------------------------------------
(* The texts, frames and templates that are tried                          *)

MCSymbols == {"x", "CR", "LF"}
MCLineTexts == BoundedSeq(MCSymbols, MaxText + 1)

Frame(form, items) == [form |-> form, items |-> items]
NotJson == Frame("discarded", <<>>)
MCFrames == {Frame("batch", i) : i \in BoundedSeq(Items, MaxParts)}
            \cup {Frame("single", <<j>>) : j \in Items} \cup {NotJson}

MCCharacters == {"x", "/", "v", "w"}
MCUris == BoundedSeq({"x", "/"}, MaxText)
Lit(t) == [is_variable |-> FALSE, text |-> t]
Var(v) == [is_variable |-> TRUE, text |-> <<v>>]
MCTemplates == {<<Lit(<<"x">>), Var("v")>>, <<Lit(<<"/">>), Var("v"), Lit(<<"/">>), Var("w")>>,
                <<Var("v"), Lit(<<"/">>), Var("v")>>, <<Var("v"), Lit(<<"/", "/">>)>>,
                <<Var("v"), Var("w")>>, <<Lit(<<"x">>)>>}

\* A chunk has data and a size line: a zero may precede the size, an extension
\* follow it.  Trailers, or something malformed, may follow the last chunk.
CRLF == <<"CR", "LF">>
MCBytes == {"x", "0", "1", "2", ";", "CR", "LF"}
MCChunks == {[data |-> d, long |-> l] : d \in {<<"x">>, CRLF, <<"LF", "x">>}, l \in BOOLEAN}
SizeText(c) == LET size == <<Hex[Len(c.data) + 1]>> IN IF c.long THEN <<"0">> \o size \o <<";", "x">> ELSE size
ChunkText(c) == SizeText(c) \o CRLF \o c.data \o CRLF

\* The body of the chunks c with what follows them; last is the length of the
\* last size line.
Body(c, tail, last, ends) ==
    LET n == Len(c)
        Texts(k) == FlattenSeq([i \in 1..k |-> ChunkText(c[i])])
        Data(k) == FlattenSeq([i \in 1..k |-> c[i].data])
        start == [i \in 1..n + 1 |-> Len(Texts(i - 1))]
    IN [text |-> IF ends = "noBreak" THEN SubSeq(Texts(n), 1, Len(Texts(n)) - 2) \o tail ELSE Texts(n) \o tail,
        data |-> Data(n), count |-> n, start |-> start, ends |-> ends,
        first |-> [i \in 1..n + 1 |-> start[i] + 2 + IF i <= n THEN Len(SizeText(c[i])) ELSE last],
        sent |-> [i \in 1..n + 1 |-> Len(Data(i - 1))]]

MCBodies ==
    {Body(c, <<"0">> \o CRLF \o t \o CRLF, 1, "good") :
        c \in BoundedSeq(MCChunks, MaxParts), t \in {<<>>, <<"x">> \o CRLF}}
    \cup {Body(c, l \o CRLF, Len(l), "badSize") : c \in BoundedSeq(MCChunks, 1), l \in {<<>>, <<"x">>, <<";">>}}
    \cup {Body(<<c>>, t, 0, "noBreak") : c \in MCChunks, t \in {<<"x", "LF">>, <<"CR", "x">>}}
NoChunks == Body(<<>>, <<"0">> \o CRLF \o CRLF, 1, "good")

-----------------------------------------------------------------------------
PartsInit ==
    /\ part \in {"condvar", "registry", "lines", "frames", "templates", "chunks", "codec"}
    /\ CondVarInit
    /\ Init /\ (part # "registry" => kind = "tools" /\ list = <<>>)
    /\ IF part = "lines" THEN LineInit ELSE LineStart(<<>>)
    /\ IF part = "frames" THEN FrameInit ELSE FrameStart(NotJson)
    /\ IF part = "templates" THEN TemplateInit ELSE TemplateStart(<<>>, <<>>)
    /\ IF part = "chunks" THEN ChunkInit ELSE ChunkStart(NoChunks)
    /\ IF part = "codec" THEN Dec!Init ELSE Dec!Start(Dec!Task("head", <<>>, {}, FALSE))

\* A registry and a decoder may come to rest; the tasks of VxCondVar never do.
AtRest == part # "condvar" /\ UNCHANGED partsVars

PartsNext ==
    \/ part = "condvar" /\ CondVarNext
       /\ UNCHANGED <<part, registryVars, lineVars, frameVars, templateVars, chunkVars, decVars>>
    \/ part = "registry" /\ Next
       /\ UNCHANGED <<part, condVars, lineVars, frameVars, templateVars, chunkVars, decVars>>
    \/ part = "lines" /\ LineNext
       /\ UNCHANGED <<part, condVars, registryVars, frameVars, templateVars, chunkVars, decVars>>
    \/ part = "frames" /\ FrameNext
       /\ UNCHANGED <<part, condVars, registryVars, lineVars, templateVars, chunkVars, decVars>>
    \/ part = "templates" /\ TemplateNext
       /\ UNCHANGED <<part, condVars, registryVars, lineVars, frameVars, chunkVars, decVars>>
    \/ part = "chunks" /\ ChunkNext
       /\ UNCHANGED <<part, condVars, registryVars, lineVars, frameVars, templateVars, decVars>>
    \/ part = "codec" /\ Dec!Next
       /\ UNCHANGED <<part, condVars, registryVars, lineVars, frameVars, templateVars, chunkVars>>
    \/ AtRest

PartsSpec == PartsInit /\ [][PartsNext]_partsVars

-----------------------------------------------------------------------------
(* Properties of Codec; the others are in their modules.                   *)

\* Wherever the reads cut them, parse_head finds the end of a head, but for one
\* with bare line feeds whose body has an empty line, and refuses a malformed
\* one; SseParser::feed gives back the events that were sent, but for carriage
\* returns at the end of a line and line breaks at the beginning.
DecodesWhatWasSent == part = "codec" => Dec!DecodesWhatWasSent /\ Dec!EventsSurvive
=============================================================================
