----------------------------- MODULE LineReader -----------------------------
(***************************************************************************)
(* LineReader::next, called until it returns something else than a line,   *)
(* as the stdout and stderr threads of StdioClientTransport do.  What      *)
(* read_some returns has nothing to do with lines: a text arrives in       *)
(* arbitrary pieces, and a read may fail.                                  *)
(*                                                                         *)
(* A text is a sequence of symbols; "CR" and "LF" are what they say.       *)
(***************************************************************************)
EXTENDS Integers, Sequences, FiniteSets

CONSTANTS
    Symbols,
    LineTexts     \* the texts that are sent

ASSUME LineAssumption == LineTexts \subseteq Seq(Symbols)

VARIABLES
    lineText,     \* the text that is sent
    wire,         \* what of it has not been read
    buffer,       \* buffer_
    eof,          \* eof_
    lines,        \* the lines that were returned
    lineStatus    \* the Status that next returned last

lineVars == <<lineText, wire, buffer, eof, lines, lineStatus>>

LineStart(t) ==
    /\ lineText = t /\ wire = t
    /\ buffer = <<>> /\ eof = FALSE /\ lines = <<>> /\ lineStatus = "Line"

LineInit == \E t \in LineTexts : LineStart(t)

\* A line without its line feed loses one carriage return at its end.
Trim(line) ==
    IF line # <<>> /\ line[Len(line)] = "CR" THEN SubSeq(line, 1, Len(line) - 1) ELSE line

\* buffer_.find('\n'), counted from 1.
FirstLF(nl) == buffer[nl] = "LF" /\ \A i \in 1..nl - 1 : buffer[i] # "LF"
NoLF == \A i \in 1..Len(buffer) : buffer[i] # "LF"

NextLine ==
    /\ lineStatus = "Line"
    /\ \E nl \in 1..Len(buffer) :
          /\ FirstLF(nl)
          /\ lines' = Append(lines, Trim(SubSeq(buffer, 1, nl - 1)))
          /\ buffer' = SubSeq(buffer, nl + 1, Len(buffer))
    /\ UNCHANGED <<lineText, wire, eof, lineStatus>>

\* Mutant: what is left at the end of file is dropped.
FinalLineDropped ==
    /\ lineStatus = "Line" /\ NoLF /\ eof /\ buffer # <<>>
    /\ buffer' = <<>>
    /\ UNCHANGED <<lineText, wire, eof, lines, lineStatus>>

\* At end of file what is left is a line too.
FinalLine ==
    /\ lineStatus = "Line" /\ NoLF /\ eof /\ buffer # <<>>
    /\ lines' = Append(lines, buffer)
    /\ buffer' = <<>>
    /\ UNCHANGED <<lineText, wire, eof, lineStatus>>

NoMoreLines ==
    /\ lineStatus = "Line" /\ NoLF /\ eof /\ buffer = <<>>
    /\ lineStatus' = "Eof"
    /\ UNCHANGED <<lineText, wire, buffer, eof, lines>>

\* Without a line in the buffer read_some is called: it returns the next n
\* symbols, ...
ReadPiece(n) ==
    /\ lineStatus = "Line" /\ NoLF /\ ~eof
    /\ buffer' = buffer \o SubSeq(wire, 1, n)
    /\ wire' = SubSeq(wire, n + 1, Len(wire))
    /\ UNCHANGED <<lineText, eof, lines, lineStatus>>

\* ... or none at the end of the file, ...
ReadEof ==
    /\ lineStatus = "Line" /\ NoLF /\ ~eof /\ wire = <<>>
    /\ eof' = TRUE
    /\ UNCHANGED <<lineText, wire, buffer, lines, lineStatus>>

\* ... or fails.
ReadError ==
    /\ lineStatus = "Line" /\ NoLF /\ ~eof
    /\ lineStatus' = "IoError"
    /\ UNCHANGED <<lineText, wire, buffer, eof, lines>>

LineNext ==
    \/ NextLine \/ FinalLine \/ NoMoreLines
    \/ ReadEof \/ ReadError \/ \E n \in 1..Len(wire) : ReadPiece(n)

LineSpec == LineInit /\ [][LineNext]_lineVars

-----------------------------------------------------------------------------
(* Properties                                                              *)

\* The lines of a text: from b to the line feed at e, and the rest, from b,
\* that no line feed ends.  The line that ends at e is one of as many.
LineFeeds(t, n) == {i \in 1..n : t[i] = "LF"}
BeginsLine(t, b) == b = 1 \/ t[b - 1] = "LF"
IsLine(t, b, e) == b <= e /\ BeginsLine(t, b) /\ t[e] = "LF" /\ \A i \in b..e - 1 : t[i] # "LF"
IsRest(t, b) == BeginsLine(t, b) /\ \A i \in b..Len(t) : t[i] # "LF"
Number(t, n) == Cardinality(LineFeeds(t, n))

\* However the reads cut the text, the n-th line that LineReader::next returns
\* is the n-th line of the text; and when it returns Eof every line was
\* returned, also the last one if no line feed ends it.
LinesAreWhole ==
    /\ \A b, e \in 1..Len(lineText) :
          IsLine(lineText, b, e) /\ Number(lineText, e) <= Len(lines) =>
              lines[Number(lineText, e)] = Trim(SubSeq(lineText, b, e - 1))
    /\ lineStatus = "Eof" =>
          LET n == Number(lineText, Len(lineText)) IN
          /\ Len(lines) = IF \E b \in 1..Len(lineText) : IsRest(lineText, b) THEN n + 1 ELSE n
          /\ \A b \in 1..Len(lineText) :
                IsRest(lineText, b) => lines[n + 1] = SubSeq(lineText, b, Len(lineText))
=============================================================================
