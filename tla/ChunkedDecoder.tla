--------------------------- MODULE ChunkedDecoder ---------------------------
(***************************************************************************)
(* The loop in which post_payload receives a chunked body: whenever        *)
(* ChunkedDecoder::feed, an iteration of its loop per step, needs more,    *)
(* another piece of the body is read.  The pieces have nothing to do with  *)
(* the chunks, and the connection may be lost before the body ends.        *)
(*                                                                         *)
(* A body is a sequence of bytes; "CR" and "LF" are what they say.         *)
(***************************************************************************)
EXTENDS Integers, Sequences

CONSTANTS
    Bytes,
    Bodies,       \* the bodies that are sent, with what they are made of
    SizeRange     \* the range of std::size_t

VARIABLES
    body,         \* the body that is sent
    unread,       \* what of it has not been read
    input,        \* buffer
    chunkState,   \* state_, or how feed or the loop around it has ended
    remaining,    \* remaining_
    decoded       \* out

chunkVars == <<body, unread, input, chunkState, remaining, decoded>>

-----------------------------------------------------------------------------
(* Size lines                                                              *)

\* A digit stands for its upper case form too.
Hex == <<"0", "1", "2", "3", "4", "5", "6", "7", "8", "9", "a", "b", "c", "d", "e", "f">>
HexDigits == {Hex[d] : d \in 1..16}
digit(c) == CHOOSE d \in 0..15 : Hex[d + 1] = c

\* The number ends with the line or before an extension.
NumberEnd(line) ==
    CHOOSE n \in 0..Len(line) : (\A i \in 1..n : line[i] # ";") /\ (n < Len(line) => line[n + 1] = ";")

IsSize(line) == NumberEnd(line) > 0 /\ \A i \in 1..NumberEnd(line) : line[i] \in HexDigits

\* size = size * 16 + digit, for each of them.
SizeOf(line) ==
    LET size[n \in 0..NumberEnd(line)] == IF n = 0 THEN 0 ELSE (size[n - 1] * 16 + digit(line[n])) % SizeRange
    IN size[NumberEnd(line)]

-----------------------------------------------------------------------------
(* What is sent                                                            *)

\* A line break at i; a line from s + 1 on whose line break is the one before
\* and at f.
BreakAt(t, i) == t[i] = "CR" /\ t[i + 1] = "LF"
EndsLine(t, s, f) == s + 2 <= f /\ f <= Len(t) /\ BreakAt(t, f - 1) /\ \A i \in s + 1..f - 2 : ~BreakAt(t, i)

\* Chunk i of a body begins with a size line after start[i]; its data are what
\* follows first[i], and in the whole of the data what follows sent[i].
SizeLine(b, i) == SubSeq(b.text, b.start[i] + 1, b.first[i] - 2)
Size(b, i) == b.sent[i + 1] - b.sent[i]
After(b, i) == b.first[i] + Size(b, i)

IsChunk(b, i) ==
    /\ EndsLine(b.text, b.start[i], b.first[i])
    /\ IsSize(SizeLine(b, i)) /\ SizeOf(SizeLine(b, i)) = Size(b, i) /\ Size(b, i) > 0
    /\ b.sent[i + 1] <= Len(b.data) /\ \A k \in 1..Size(b, i) : b.data[b.sent[i] + k] = b.text[b.first[i] + k]
    /\ b.start[i + 1] = After(b, i) + 2 /\ After(b, i) + 2 <= Len(b.text)

\* After the chunks comes the last size line, which is 0 and followed by trailers
\* and an empty line ("good") or is no size; or the line break after the last
\* chunk is missing.
IsBody(b) ==
    LET n == b.count
        t == b.text
    IN /\ t \in Seq(Bytes) /\ b.data \in Seq(Bytes) /\ n \in Nat
       /\ b.start \in [1..n + 1 -> Nat] /\ b.first \in [1..n + 1 -> Nat] /\ b.sent \in [1..n + 1 -> Nat]
       /\ b.start[1] = 0 /\ b.sent[1] = 0 /\ b.sent[n + 1] = Len(b.data)
       /\ b.ends \in {"good", "badSize", "noBreak"} /\ (n = 0 => b.ends # "noBreak")
       /\ \A i \in 1..n : IsChunk(b, i) /\ (BreakAt(t, After(b, i) + 1) <=> i < n \/ b.ends # "noBreak")
       /\ b.ends # "noBreak" => EndsLine(t, b.start[n + 1], b.first[n + 1])
       /\ b.ends = "badSize" => ~IsSize(SizeLine(b, n + 1))
       /\ b.ends = "good" => /\ IsSize(SizeLine(b, n + 1)) /\ SizeOf(SizeLine(b, n + 1)) = 0
                             /\ b.first[n + 1] + 2 <= Len(t)
                             /\ BreakAt(t, Len(t) - 3) /\ BreakAt(t, Len(t) - 1)

ASSUME BodyAssumption == SizeRange \in Nat \ {0} /\ \A b \in Bodies : IsBody(b)

ChunkStart(b) ==
    /\ body = b /\ unread = b.text
    /\ input = <<>> /\ chunkState = "Size" /\ remaining = 0 /\ decoded = <<>>

ChunkInit == \E b \in Bodies : ChunkStart(b)

-----------------------------------------------------------------------------
(* ChunkedDecoder::feed                                                    *)

\* buffer.find("\r\n"), counted from 1.
FirstBreak(nl) == BreakAt(input, nl) /\ \A i \in 1..nl - 1 : ~BreakAt(input, i)
NoBreak == \A i \in 1..Len(input) - 1 : ~BreakAt(input, i)

DecodeSize ==
    /\ chunkState = "Size"
    /\ \E nl \in 1..Len(input) - 1 :
          /\ FirstBreak(nl)
          /\ input' = SubSeq(input, nl + 2, Len(input))
          /\ LET line == SubSeq(input, 1, nl - 1) IN
             \/ ~IsSize(line) /\ chunkState' = "Error" /\ UNCHANGED remaining
             \/ IsSize(line) /\ SizeOf(line) = 0 /\ chunkState' = "Trailers" /\ UNCHANGED remaining
             \/ IsSize(line) /\ SizeOf(line) # 0 /\ chunkState' = "Data" /\ remaining' = SizeOf(line)
    /\ UNCHANGED <<body, unread, decoded>>

\* As much data as there is.
DecodeData ==
    /\ chunkState = "Data" /\ input # <<>>
    /\ LET take == IF remaining < Len(input) THEN remaining ELSE Len(input) IN
       /\ decoded' = decoded \o SubSeq(input, 1, take)
       /\ input' = SubSeq(input, take + 1, Len(input))
       /\ remaining' = remaining - take
       /\ chunkState' = IF remaining > take THEN "Data" ELSE "DataCrlf"
    /\ UNCHANGED <<body, unread>>

\* Mutant: the line break after the data is looked for as soon as one of its two
\* characters is there.
DecodeCrlfEager ==
    /\ chunkState = "DataCrlf" /\ Len(input) >= 1
    /\ \/ Len(input) >= 2 /\ BreakAt(input, 1) /\ chunkState' = "Size" /\ input' = SubSeq(input, 3, Len(input))
       \/ ~(Len(input) >= 2 /\ BreakAt(input, 1)) /\ chunkState' = "Error" /\ UNCHANGED input
    /\ UNCHANGED <<body, unread, remaining, decoded>>

DecodeCrlf ==
    /\ chunkState = "DataCrlf" /\ Len(input) >= 2
    /\ \/ BreakAt(input, 1) /\ chunkState' = "Size" /\ input' = SubSeq(input, 3, Len(input))
       \/ ~BreakAt(input, 1) /\ chunkState' = "Error" /\ UNCHANGED input
    /\ UNCHANGED <<body, unread, remaining, decoded>>

\* Trailers up to an empty line.
DecodeTrailer ==
    /\ chunkState = "Trailers"
    /\ \E nl \in 1..Len(input) - 1 :
          /\ FirstBreak(nl)
          /\ input' = SubSeq(input, nl + 2, Len(input))
          /\ chunkState' = IF nl = 1 THEN "Done" ELSE "Trailers"
    /\ UNCHANGED <<body, unread, remaining, decoded>>

\* Status::NeedMore
NeedMore ==
    \/ chunkState \in {"Size", "Trailers"} /\ NoBreak
    \/ chunkState = "Data" /\ input = <<>>
    \/ chunkState = "DataCrlf" /\ Len(input) < 2

-----------------------------------------------------------------------------
(* The loop around it                                                      *)

ReadBody(n) ==
    /\ NeedMore
    /\ input' = input \o SubSeq(unread, 1, n)
    /\ unread' = SubSeq(unread, n + 1, Len(unread))
    /\ UNCHANGED <<body, chunkState, remaining, decoded>>

\* The connection ends, is silent for too long, or disconnect is called.
LoseBody ==
    /\ NeedMore
    /\ chunkState' = "Lost"
    /\ UNCHANGED <<body, unread, input, remaining, decoded>>

ChunkNext ==
    \/ DecodeSize \/ DecodeData \/ DecodeCrlf \/ DecodeTrailer
    \/ LoseBody \/ \E n \in 1..Len(unread) : ReadBody(n)

ChunkSpec == ChunkInit /\ [][ChunkNext]_chunkVars

-----------------------------------------------------------------------------
(* Properties                                                              *)

\* However the reads cut a body, ChunkedDecoder::feed gives back its data, byte
\* by byte; it ends only a body that is well-formed and whole, refuses only one
\* that is malformed, and never asks for more than was sent.
BodyIsWhole ==
    /\ Len(decoded) <= Len(body.data) /\ \A k \in 1..Len(decoded) : decoded[k] = body.data[k]
    /\ chunkState = "Done" => body.ends = "good" /\ decoded = body.data
    /\ chunkState = "Error" => body.ends # "good"
    /\ unread = <<>> => ~NeedMore
=============================================================================
