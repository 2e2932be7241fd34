--------------------------- MODULE ReadersProofs ---------------------------
(***************************************************************************)
(* LineReader::next, parse_frame, match_uri_template and                   *)
(* ChunkedDecoder::feed, for texts, frames, templates and bodies of any    *)
(* length.  Each is a loop; what its result has to do with its whole input *)
(* follows from what holds between two iterations.                         *)
(***************************************************************************)
EXTENDS LineReader, JsonRpc, UriTemplate, ChunkedDecoder, SequenceTheorems, FiniteSetTheorems, TLAPS

-----------------------------------------------------------------------------
(* Counting and cutting                                                    *)

\* How many elements of a set there are up to a number.
UpTo(S, n) == S \cap 1..n

\* The count rises by one at an element of the set, and only there.
LEMMA CountRises ==
    ASSUME NEW S, NEW m \in Nat, NEW n \in Nat, m <= n
    PROVE  /\ IsFiniteSet(UpTo(S, n)) /\ Cardinality(UpTo(S, n)) \in Nat
           /\ Cardinality(UpTo(S, m)) <= Cardinality(UpTo(S, n))
           /\ n > m /\ n \in S => Cardinality(UpTo(S, m)) < Cardinality(UpTo(S, n))
           /\ (\A i \in m + 1..n : i \notin S) => Cardinality(UpTo(S, n)) = Cardinality(UpTo(S, m))
           /\ n > m /\ n \in S /\ (\A i \in m + 1..n - 1 : i \notin S)
                 => Cardinality(UpTo(S, n)) = Cardinality(UpTo(S, m)) + 1
<1>1. IsFiniteSet(1..n) /\ UpTo(S, n) \in SUBSET (1..n)
  BY FS_Interval DEF UpTo
<1>2. IsFiniteSet(UpTo(S, n)) /\ Cardinality(UpTo(S, n)) \in Nat
  BY <1>1, FS_Subset, FS_CardinalityType
<1>3. UpTo(S, m) \in SUBSET UpTo(S, n)
  BY DEF UpTo
<1>4. /\ IsFiniteSet(UpTo(S, m)) /\ Cardinality(UpTo(S, m)) \in Nat
      /\ Cardinality(UpTo(S, m)) <= Cardinality(UpTo(S, n))
  BY <1>2, <1>3, FS_Subset, FS_CardinalityType
<1>5. ASSUME n > m, n \in S PROVE Cardinality(UpTo(S, m)) < Cardinality(UpTo(S, n))
  <2>1. n \in UpTo(S, n) /\ n \notin UpTo(S, m)
    BY <1>5 DEF UpTo
  <2>2. Cardinality(UpTo(S, m)) # Cardinality(UpTo(S, n))
    BY <1>2, <1>3, <2>1, FS_Subset
  <2> QED
    BY <1>2, <1>4, <2>2
<1>6. ASSUME \A i \in m + 1..n : i \notin S PROVE Cardinality(UpTo(S, n)) = Cardinality(UpTo(S, m))
  <2>1. UpTo(S, n) = UpTo(S, m)
    BY <1>6 DEF UpTo
  <2> QED
    BY <2>1
<1>7. ASSUME n > m, n \in S, \A i \in m + 1..n - 1 : i \notin S
      PROVE  Cardinality(UpTo(S, n)) = Cardinality(UpTo(S, m)) + 1
  <2>1. UpTo(S, n) = UpTo(S, m) \cup {n} /\ n \notin UpTo(S, m)
    BY <1>7 DEF UpTo
  <2> QED
    BY <1>4, <2>1, FS_AddElement
<1> QED
  BY <1>2, <1>4, <1>5, <1>6, <1>7

\* The first n elements of a sequence, and what follows them.
LEMMA Cutting ==
    ASSUME NEW T, NEW s \in Seq(T), NEW n \in Nat, n <= Len(s)
    PROVE  /\ Len(s) \in Nat
           /\ SubSeq(s, 1, n) \in Seq(T) /\ Len(SubSeq(s, 1, n)) = n
           /\ \A i \in 1..n : SubSeq(s, 1, n)[i] = s[i]
           /\ SubSeq(s, n + 1, Len(s)) \in Seq(T)
           /\ Len(SubSeq(s, n + 1, Len(s))) = Len(s) - n
           /\ \A i \in 1..Len(s) - n : SubSeq(s, n + 1, Len(s))[i] = s[n + i]
<1>1. Len(s) \in Nat /\ \A i \in 1..Len(s) : s[i] \in T
  BY ElementOfSeq, LenProperties
<1>2. 1..n \subseteq 1..Len(s) /\ n + 1..Len(s) \subseteq 1..Len(s)
  BY <1>1
<1>3. /\ SubSeq(s, 1, n) \in Seq(T) /\ Len(SubSeq(s, 1, n)) = n
      /\ \A i \in 1..n : SubSeq(s, 1, n)[i] = s[i]
  BY <1>1, <1>2, SubSeqProperties
<1>4. /\ SubSeq(s, n + 1, Len(s)) \in Seq(T)
      /\ Len(SubSeq(s, n + 1, Len(s))) = IF n + 1 <= Len(s) THEN Len(s) - (n + 1) + 1 ELSE 0
      /\ \A i \in 1..Len(s) - (n + 1) + 1 : SubSeq(s, n + 1, Len(s))[i] = s[n + 1 + i - 1]
  BY <1>1, <1>2, SubSeqProperties
<1>5. /\ Len(SubSeq(s, n + 1, Len(s))) = Len(s) - n
      /\ \A i \in 1..Len(s) - n : SubSeq(s, n + 1, Len(s))[i] = s[n + i]
  BY <1>1, <1>4
<1> QED
  BY <1>1, <1>3, <1>4, <1>5

\* A beginning and a piece of the same length with the same elements are equal.
LEMMA SamePiece ==
    ASSUME NEW T, NEW s \in Seq(T), NEW t \in Seq(T), NEW b \in Nat, NEW n \in Nat,
           n <= Len(s), b + n <= Len(t), \A i \in 1..n : s[i] = t[b + i]
    PROVE  SubSeq(s, 1, n) = SubSeq(t, b + 1, b + n)
<1>1. Len(s) \in Nat /\ Len(t) \in Nat
  OBVIOUS
<1>2. SubSeq(s, 1, n) = [i \in 1..n |-> s[i]]
  <2>1. SubSeq(s, 1, n) = [i \in 1..(1 + n - 1) |-> s[i + 1 - 1]]
    BY <1>1
  <2>2. 1 + n - 1 = n /\ \A i \in 1..n : i + 1 - 1 = i
    BY <1>1
  <2> QED
    BY <2>1, <2>2
<1>3. SubSeq(t, b + 1, b + n) = [i \in 1..n |-> t[b + i]]
  <2>1. SubSeq(t, b + 1, b + n) = [i \in 1..(1 + (b + n) - (b + 1)) |-> t[i + (b + 1) - 1]]
    BY <1>1
  <2>2. 1 + (b + n) - (b + 1) = n /\ \A i \in 1..n : i + (b + 1) - 1 = b + i
    BY <1>1
  <2> QED
    BY <2>1, <2>2
<1> QED
  BY <1>2, <1>3

\* A buffer b and the rest w of a text t are what follows its first g elements.
Remains(t, w, b, g) ==
    /\ g + Len(b) + Len(w) = Len(t)
    /\ \A i \in 1..Len(w) : w[i] = t[Len(t) - Len(w) + i]
    /\ \A i \in 1..Len(b) : b[i] = t[g + i]

\* The lengths add up.
LEMMA Lengths ==
    ASSUME NEW g \in Nat, NEW b \in Nat, NEW w \in Nat, NEW n \in Nat
    PROVE  g + n + (b - n) + w = g + b + w /\ g + (b + n) + (w - n) = g + b + w
  OBVIOUS

\* What precedes is what neither the buffer nor the rest holds.
LEMMA WhatPrecedes ==
    ASSUME NEW t \in Nat, NEW g \in Nat, NEW b \in Nat, NEW w \in Nat, g + b + w = t
    PROVE  t - w - b = g /\ w + b <= t
  OBVIOUS

\* They still are when a piece of the rest moves to the end of the buffer.
LEMMA ReadOn ==
    ASSUME NEW T, NEW t \in Seq(T), NEW w \in Seq(T), NEW b \in Seq(T), NEW g \in Nat,
           NEW n \in Nat, n <= Len(w), Remains(t, w, b, g)
    PROVE  /\ SubSeq(w, n + 1, Len(w)) \in Seq(T) /\ b \o SubSeq(w, 1, n) \in Seq(T)
           /\ Remains(t, SubSeq(w, n + 1, Len(w)), b \o SubSeq(w, 1, n), g)
<1> DEFINE w2 == SubSeq(w, n + 1, Len(w))
           b2 == b \o SubSeq(w, 1, n)
           piece == SubSeq(w, 1, n)
<1>1. /\ Len(t) \in Nat /\ Len(w) \in Nat /\ Len(b) \in Nat /\ Len(t) - Len(w) = g + Len(b)
      /\ g + Len(b) + Len(w) = Len(t)
  <2>1. Len(t) \in Nat /\ Len(w) \in Nat /\ Len(b) \in Nat
    OBVIOUS
  <2>2. g + Len(b) + Len(w) = Len(t)
    BY DEF Remains
  <2> QED
    BY <2>1, <2>2
<1>2. /\ piece \in Seq(T) /\ Len(piece) = n /\ \A i \in 1..n : piece[i] = w[i]
      /\ w2 \in Seq(T) /\ Len(w2) = Len(w) - n /\ \A i \in 1..Len(w) - n : w2[i] = w[n + i]
  BY Cutting, SMTT(30)
<1>3. b2 = b \o piece
  OBVIOUS
<1> HIDE DEF piece, w2, b2
<1>4. /\ b2 \in Seq(T) /\ Len(b2) = Len(b) + n
      /\ \A i \in 1..Len(b) + n : b2[i] = IF i <= Len(b) THEN b[i] ELSE piece[i - Len(b)]
  <2>1. piece \in Seq(T)
    BY <1>2
  <2>2. /\ b2 \in Seq(T) /\ Len(b2) = Len(b) + Len(piece)
        /\ \A i \in 1..Len(b) + Len(piece) : b2[i] = IF i <= Len(b) THEN b[i] ELSE piece[i - Len(b)]
    BY <1>3, <2>1, ConcatProperties
  <2>3. Len(piece) = n
    BY <1>2
  <2> QED
    BY <2>2, <2>3
<1>5. ASSUME NEW i \in 1..Len(w2) PROVE w2[i] = t[Len(t) - Len(w2) + i]
  <2>1. /\ i \in 1..Len(w) - n /\ n + i \in 1..Len(w)
        /\ Len(t) - Len(w) + (n + i) = Len(t) - Len(w2) + i
    BY <1>1, <1>2
  <2>2. w2[i] = w[n + i] /\ w[n + i] = t[Len(t) - Len(w) + (n + i)]
    BY <1>2, <2>1 DEF Remains
  <2> QED
    BY <2>1, <2>2
<1>6. ASSUME NEW i \in 1..Len(b2) PROVE b2[i] = t[g + i]
  <2> DEFINE j == i - Len(b)
  <2>1. i \in Nat /\ i >= 1 /\ i <= Len(b) + n
    <3>1. Len(b2) = Len(b) + n
      BY <1>4
    <3> QED
      BY <1>1, <3>1
  <2>2. CASE i <= Len(b)
    <3>1. i \in 1..Len(b) /\ i \in 1..Len(b) + n
      BY <1>1, <2>1, <2>2
    <3>2. b2[i] = b[i]
      BY <1>4, <2>2, <3>1
    <3> QED
      BY <3>1, <3>2 DEF Remains
  <2>3. CASE i > Len(b)
    <3>1. i \in 1..Len(b) + n /\ ~(i <= Len(b)) /\ j \in 1..n /\ j \in 1..Len(w)
      BY <1>1, <2>1, <2>3
    <3>2. Len(t) - Len(w) + j = g + i
      <4>1. g + Len(b) + j = g + i
        BY <1>1, <2>1
      <4> QED
        BY <1>1, <4>1
    <3>3. b2[i] = piece[j]
      BY <1>4, <3>1
    <3> HIDE DEF j
    <3>4. piece[j] = w[j] /\ w[j] = t[Len(t) - Len(w) + j]
      BY <1>2, <3>1 DEF Remains
    <3> QED
      BY <3>2, <3>3, <3>4
  <2> QED
    BY <1>1, <2>1, <2>2, <2>3
<1>7. g + Len(b2) + Len(w2) = Len(t)
  <2>1. Len(b2) = Len(b) + n /\ Len(w2) = Len(w) - n
    BY <1>2, <1>4
  <2>2. g + (Len(b) + n) + (Len(w) - n) = g + Len(b) + Len(w)
    BY <1>1, Lengths
  <2> QED
    BY <1>1, <2>1, <2>2
<1>8. Remains(t, w2, b2, g)
  BY <1>5, <1>6, <1>7 DEF Remains
<1> QED
  BY <1>2, <1>4, <1>8 DEF w2, b2

\* They still are when n elements leave the buffer.
LEMMA TakeOff ==
    ASSUME NEW T, NEW t \in Seq(T), NEW w \in Seq(T), NEW b \in Seq(T), NEW g \in Nat,
           NEW n \in Nat, n <= Len(b), Remains(t, w, b, g)
    PROVE  /\ SubSeq(b, n + 1, Len(b)) \in Seq(T)
           /\ Remains(t, w, SubSeq(b, n + 1, Len(b)), g + n)
<1> DEFINE b2 == SubSeq(b, n + 1, Len(b))
<1>1. b2 \in Seq(T) /\ Len(b2) = Len(b) - n /\ \A i \in 1..Len(b) - n : b2[i] = b[n + i]
  BY Cutting
<1> HIDE DEF b2
<1>2. Len(t) \in Nat /\ Len(w) \in Nat /\ Len(b) \in Nat /\ g + Len(b) + Len(w) = Len(t)
  BY DEF Remains
<1>3. g + n + Len(b2) + Len(w) = Len(t)
  <2>1. Len(b2) = Len(b) - n
    BY <1>1
  <2>2. g + n + (Len(b) - n) + Len(w) = g + Len(b) + Len(w)
    BY <1>2, Lengths
  <2> QED
    BY <1>2, <2>1, <2>2
<1>4. ASSUME NEW i \in 1..Len(b2) PROVE b2[i] = t[g + n + i]
  <2>1. i \in 1..Len(b) - n /\ n + i \in 1..Len(b) /\ g + (n + i) = g + n + i
    BY <1>1, <1>2, SMTT(30)
  <2>2. b2[i] = b[n + i] /\ b[n + i] = t[g + (n + i)]
    BY <1>1, <2>1 DEF Remains
  <2> QED
    BY <2>1, <2>2
<1>5. Remains(t, w, b2, g + n)
  BY <1>3, <1>4 DEF Remains
<1> QED
  BY <1>1, <1>5 DEF b2

-----------------------------------------------------------------------------
(* LineReader::next                                                        *)

LineTypes ==
    /\ lineText \in Seq(Symbols) /\ wire \in Seq(Symbols) /\ buffer \in Seq(Symbols)
    /\ lines \in Seq(Seq(Symbols)) /\ eof \in BOOLEAN

\* How much of the text was returned.
Taken == Len(lineText) - Len(wire) - Len(buffer)

\* The buffer and what was not read are what follows, in order.
Pieces ==
    /\ Len(wire) + Len(buffer) <= Len(lineText)
    /\ \A i \in 1..Len(wire) : wire[i] = lineText[Len(lineText) - Len(wire) + i]
    /\ \A i \in 1..Len(buffer) : buffer[i] = lineText[Taken + i]
    /\ eof => wire = <<>>
    /\ lineStatus = "Eof" => eof /\ buffer = <<>>

\* Every line that was returned is the line of the text with its number.
Returned(t, ls) ==
    \A b, e \in 1..Len(t) :
        IsLine(t, b, e) /\ Number(t, e) <= Len(ls) => ls[Number(t, e)] = Trim(SubSeq(t, b, e - 1))

\* The rest of a text that no line feed ends was returned.
RestReturned ==
    /\ Taken = Len(lineText) /\ eof
    /\ Len(lines) = Number(lineText, Taken) + 1
    /\ \E b \in 1..Len(lineText) : IsRest(lineText, b)
    /\ \A b \in 1..Len(lineText) :
          IsRest(lineText, b) => lines[Len(lines)] = SubSeq(lineText, b, Len(lineText))

\* What was returned ends with a line, or is everything.
UpToLine ==
    IF BeginsLine(lineText, Taken + 1) THEN Len(lines) = Number(lineText, Taken) ELSE RestReturned

LineInv == LineTypes /\ Pieces /\ Returned(lineText, lines) /\ UpToLine

\* The number of line feeds up to a place, as a count of a set.
LEMMA NumberCounts ==
    ASSUME NEW t \in Seq(Symbols), NEW m \in 0..Len(t), NEW n \in 0..Len(t), m <= n
    PROVE  /\ Number(t, m) \in Nat /\ Number(t, n) \in Nat /\ Number(t, m) <= Number(t, n)
           /\ n > m /\ t[n] = "LF" => Number(t, m) < Number(t, n)
           /\ (\A i \in m + 1..n : t[i] # "LF") => Number(t, n) = Number(t, m)
           /\ n > m /\ t[n] = "LF" /\ (\A i \in m + 1..n - 1 : t[i] # "LF")
                 => Number(t, n) = Number(t, m) + 1
<1> DEFINE S == LineFeeds(t, Len(t))
<1>1. Len(t) \in Nat /\ m \in Nat /\ n \in Nat
  OBVIOUS
<1>2. LineFeeds(t, m) = UpTo(S, m) /\ LineFeeds(t, n) = UpTo(S, n)
  BY <1>1 DEF LineFeeds, UpTo
<1>3. \A i \in 1..Len(t) : i \in S <=> t[i] = "LF"
  BY DEF LineFeeds
<1> HIDE DEF S
<1>4. /\ Cardinality(UpTo(S, n)) \in Nat
      /\ Cardinality(UpTo(S, m)) <= Cardinality(UpTo(S, n))
      /\ n > m /\ n \in S => Cardinality(UpTo(S, m)) < Cardinality(UpTo(S, n))
      /\ (\A i \in m + 1..n : i \notin S) => Cardinality(UpTo(S, n)) = Cardinality(UpTo(S, m))
      /\ n > m /\ n \in S /\ (\A i \in m + 1..n - 1 : i \notin S)
            => Cardinality(UpTo(S, n)) = Cardinality(UpTo(S, m)) + 1
  BY <1>1, CountRises
<1>5. Cardinality(UpTo(S, m)) \in Nat
  BY <1>1, CountRises
<1>6. Number(t, m) = Cardinality(UpTo(S, m)) /\ Number(t, n) = Cardinality(UpTo(S, n))
  BY <1>2 DEF Number
<1>7. n > m => (n \in S <=> t[n] = "LF")
  BY <1>1, <1>3
<1>8. (\A i \in m + 1..n : t[i] # "LF") => \A i \in m + 1..n : i \notin S
  BY <1>1, <1>3
<1>9. n > m => ((\A i \in m + 1..n - 1 : t[i] # "LF") => \A i \in m + 1..n - 1 : i \notin S)
  BY <1>1, <1>3
<1> QED
  BY <1>4, <1>5, <1>6, <1>7, <1>8, <1>9

\* At the beginning everything is to be read.
LEMMA LineInitInv == ASSUME LineInit PROVE LineInv
<1>1. PICK t \in LineTexts : LineStart(t)
  BY DEF LineInit
<1>2. t \in Seq(Symbols) /\ Len(t) \in Nat
  BY LineAssumption
<1>3. LineTypes /\ lineText = t /\ wire = t /\ Len(buffer) = 0 /\ Len(lines) = 0
  <2>1. /\ lineText = t /\ wire = t /\ buffer = <<>> /\ lines = <<>> /\ eof = FALSE
    BY <1>1 DEF LineStart
  <2>2. <<>> \in Seq(Symbols) /\ Len(<<>>) = 0
    OBVIOUS
  <2>3. <<>> \in Seq(Seq(Symbols))
    BY EmptySeq
  <2> QED
    BY <1>2, <2>1, <2>2, <2>3 DEF LineTypes
<1>4. Taken = 0
  BY <1>2, <1>3 DEF Taken
<1>5. Pieces
  BY <1>1, <1>2, <1>3, <1>4 DEF Pieces, LineStart
<1>6. Number(t, 0) = 0
  <2>1. LineFeeds(t, 0) = {}
    BY DEF LineFeeds
  <2> QED
    BY <2>1, FS_EmptySet DEF Number
<1>7. Returned(t, lines)
  <2> SUFFICES ASSUME NEW b \in 1..Len(t), NEW e \in 1..Len(t), IsLine(t, b, e), Number(t, e) <= Len(lines)
               PROVE  FALSE
    BY DEF Returned
  <2>1. Number(t, 0) < Number(t, e) /\ Number(t, e) \in Nat
    BY <1>2, NumberCounts DEF IsLine
  <2> QED
    BY <1>3, <1>6, <2>1
<1>8. UpToLine
  BY <1>3, <1>4, <1>6 DEF UpToLine, BeginsLine
<1> QED
  BY <1>3, <1>5, <1>7, <1>8 DEF LineInv

\* The lengths are what they seem.
LEMMA LineLengths ==
    ASSUME LineInv
    PROVE  /\ Len(lineText) \in Nat /\ Len(wire) \in Nat /\ Len(buffer) \in Nat /\ Len(lines) \in Nat
           /\ Taken \in 0..Len(lineText) /\ Taken + Len(buffer) = Len(lineText) - Len(wire)
           /\ Taken + Len(buffer) <= Len(lineText)
  BY DEF LineInv, LineTypes, Pieces, Taken

\* A line or a rest that begins where the returned part ends begins there.
LEMMA OneBeginning ==
    ASSUME LineInv, BeginsLine(lineText, Taken + 1),
           NEW n \in Nat, Taken + n <= Len(lineText), \A i \in 1..n : lineText[Taken + i] # "LF",
           NEW b \in 1..Len(lineText), BeginsLine(lineText, b), b <= Taken + n + 1,
           \A i \in b..Taken + n : lineText[i] # "LF"
    PROVE  b = Taken + 1
<1>1. Taken \in Nat /\ Len(lineText) \in Nat /\ b \in Nat
  BY LineLengths
<1>2. ~(b > Taken + 1)
  <2> SUFFICES ASSUME b > Taken + 1 PROVE FALSE
    OBVIOUS
  <2>1. lineText[b - 1] = "LF" /\ b - 1 - Taken \in 1..n /\ b - 1 = Taken + (b - 1 - Taken)
    BY <1>1 DEF BeginsLine
  <2> QED
    BY <2>1
<1>3. ~(b < Taken + 1)
  <2> SUFFICES ASSUME b < Taken + 1 PROVE FALSE
    OBVIOUS
  <2>1. lineText[Taken] = "LF" /\ Taken \in b..Taken + n
    BY <1>1 DEF BeginsLine
  <2> QED
    BY <2>1
<1> QED
  BY <1>1, <1>2, <1>3

\* What is trimmed stays a line.
LEMMA TrimType == ASSUME NEW s \in Seq(Symbols) PROVE Trim(s) \in Seq(Symbols)
<1>1. CASE s # <<>> /\ s[Len(s)] = "CR"
  <2>1. Len(s) \in Nat /\ Len(s) - 1 \in Nat /\ Len(s) - 1 <= Len(s)
    BY <1>1, EmptySeq
  <2>2. SubSeq(s, 1, Len(s) - 1) \in Seq(Symbols)
    BY <2>1, Cutting
  <2> QED
    BY <1>1, <2>2 DEF Trim
<1> QED
  BY <1>1 DEF Trim

\* While something is in the buffer, what was returned ends with a line.
LEMMA BufferBegins ==
    ASSUME LineInv, buffer # <<>> \/ ~eof
    PROVE  BeginsLine(lineText, Taken + 1) /\ Len(lines) = Number(lineText, Taken)
<1>1. buffer # <<>> => Len(buffer) > 0
  BY EmptySeq DEF LineInv, LineTypes
<1>2. ~RestReturned
  BY <1>1, LineLengths DEF RestReturned
<1> QED
  BY <1>2 DEF LineInv, UpToLine

\* A line that ends where the first line feed of the buffer is.
LEMMA BufferLine ==
    ASSUME LineInv, NEW nl \in 1..Len(buffer), FirstLF(nl)
    PROVE  /\ Taken + nl \in 1..Len(lineText) /\ lineText[Taken + nl] = "LF"
           /\ \A i \in 1..nl - 1 : lineText[Taken + i] # "LF"
           /\ Number(lineText, Taken + nl) = Len(lines) + 1
           /\ \A b, e \in 1..Len(lineText) :
                 IsLine(lineText, b, e) /\ Number(lineText, e) = Len(lines) + 1 =>
                     SubSeq(lineText, b, e - 1) = SubSeq(buffer, 1, nl - 1)
<1> DEFINE t == lineText
           f == Taken + nl
<1>1. /\ Len(t) \in Nat /\ Len(buffer) \in Nat /\ Len(lines) \in Nat
      /\ Taken \in Nat /\ Taken + Len(buffer) <= Len(t)
      /\ t \in Seq(Symbols) /\ buffer \in Seq(Symbols)
  BY LineLengths DEF LineInv, LineTypes
<1>2. nl \in Nat /\ nl >= 1 /\ f \in 1..Len(t) /\ Taken \in 0..Len(t) /\ f \in 0..Len(t) /\ f > Taken
  BY <1>1
<1>3. \A i \in 1..Len(buffer) : buffer[i] = t[Taken + i]
  BY DEF LineInv, Pieces
<1>4. t[f] = "LF" /\ \A i \in 1..nl - 1 : t[Taken + i] # "LF"
  <2>1. 1..nl - 1 \subseteq 1..Len(buffer)
    BY <1>1, <1>2
  <2> QED
    BY <1>3, <2>1 DEF FirstLF
<1>5. BeginsLine(t, Taken + 1) /\ Len(lines) = Number(t, Taken)
  <2>1. buffer # <<>>
    BY <1>1, EmptySeq
  <2> QED
    BY <2>1, BufferBegins
<1>6. \A i \in Taken + 1..f - 1 : t[i] # "LF"
  <2> TAKE i \in Taken + 1..f - 1
  <2>1. i - Taken \in 1..nl - 1 /\ Taken + (i - Taken) = i
    BY <1>1, <1>2
  <2> QED
    BY <1>4, <2>1
<1> HIDE DEF f
<1>7. Number(t, f) = Len(lines) + 1
  BY <1>1, <1>2, <1>4, <1>5, <1>6, NumberCounts, SMTT(30)
<1>8. ASSUME NEW b \in 1..Len(t), NEW e \in 1..Len(t), IsLine(t, b, e), Number(t, e) = Len(lines) + 1
      PROVE  SubSeq(t, b, e - 1) = SubSeq(buffer, 1, nl - 1)
  <2>1. t[e] = "LF" /\ e \in 0..Len(t)
    BY <1>8 DEF IsLine
  <2>2. ~(e < f)
    <3> SUFFICES ASSUME e < f PROVE FALSE
      OBVIOUS
    <3>1. e <= f /\ f > e
      BY <1>1, <1>2
    <3>2. Number(t, e) < Number(t, f)
      BY <1>1, <1>2, <1>4, <2>1, <3>1, NumberCounts
    <3> QED
      BY <1>1, <1>7, <1>8, <3>2
  <2>3. ~(f < e)
    <3> SUFFICES ASSUME f < e PROVE FALSE
      OBVIOUS
    <3>1. f <= e /\ e > f
      BY <1>1, <1>2
    <3>2. Number(t, f) < Number(t, e)
      BY <1>1, <1>2, <2>1, <3>1, NumberCounts
    <3> QED
      BY <1>1, <1>7, <1>8, <3>2
  <2>4. e = f
    BY <1>1, <1>2, <2>2, <2>3
  <2>5. b = Taken + 1
    <3>1. nl - 1 \in Nat /\ Taken + (nl - 1) <= Len(t) /\ e = Taken + (nl - 1) + 1
      BY <1>1, <1>2, <2>4 DEF f
    <3>2. BeginsLine(t, b) /\ b <= Taken + (nl - 1) + 1
      BY <1>8, <3>1 DEF IsLine
    <3>3. \A i \in b..Taken + (nl - 1) : t[i] # "LF"
      BY <1>1, <1>8, <3>1 DEF IsLine
    <3> QED
      BY <1>4, <1>5, <3>1, <3>2, <3>3, OneBeginning
  <2>6. SubSeq(buffer, 1, nl - 1) = SubSeq(t, Taken + 1, Taken + (nl - 1))
    <3> DEFINE k == nl - 1
    <3>1. k \in Nat /\ k <= Len(buffer) /\ Taken + k <= Len(t)
      BY <1>1, <1>2 DEF f
    <3>2. \A i \in 1..k : buffer[i] = t[Taken + i]
      <4>1. 1..k \subseteq 1..Len(buffer)
        BY <1>1, <1>2
      <4> QED
        BY <1>3, <4>1
    <3> HIDE DEF k
    <3>3. SubSeq(buffer, 1, k) = SubSeq(t, Taken + 1, Taken + k)
      BY <1>1, <3>1, <3>2, SamePiece
    <3> QED
      BY <3>3 DEF k
  <2>7. Taken + (nl - 1) = e - 1
    BY <1>1, <1>2, <2>4 DEF f
  <2> QED
    BY <2>5, <2>6, <2>7
<1> QED
  BY <1>2, <1>4, <1>7, <1>8 DEF f

\* A line is returned.
LEMMA NextLineInv == ASSUME LineInv, NextLine PROVE LineInv'
<1>1. PICK nl \in 1..Len(buffer) :
          /\ FirstLF(nl)
          /\ lines' = Append(lines, Trim(SubSeq(buffer, 1, nl - 1)))
          /\ buffer' = SubSeq(buffer, nl + 1, Len(buffer))
  BY DEF NextLine
<1>2. lineText' = lineText /\ wire' = wire /\ eof' = eof /\ lineStatus' = "Line"
  BY DEF NextLine
<1> DEFINE t == lineText
           line == Trim(SubSeq(buffer, 1, nl - 1))
<1>3. /\ Len(t) \in Nat /\ Len(wire) \in Nat /\ Len(buffer) \in Nat /\ Len(lines) \in Nat
      /\ Taken \in Nat /\ Taken + Len(buffer) = Len(t) - Len(wire)
  BY LineLengths
<1>4. LineTypes
  BY DEF LineInv
<1>5. nl \in Nat /\ nl - 1 \in Nat /\ nl <= Len(buffer) /\ nl - 1 <= Len(buffer)
  BY <1>3
<1>6. /\ buffer' \in Seq(Symbols) /\ Len(buffer') = Len(buffer) - nl
      /\ \A i \in 1..Len(buffer) - nl : buffer'[i] = buffer[nl + i]
  BY <1>1, <1>4, <1>5, Cutting DEF LineTypes
<1>7. line \in Seq(Symbols)
  BY <1>4, <1>5, Cutting, TrimType DEF LineTypes
<1>8. /\ lines' \in Seq(Seq(Symbols)) /\ Len(lines') = Len(lines) + 1
      /\ lines'[Len(lines) + 1] = line
      /\ \A i \in 1..Len(lines) : lines'[i] = lines[i]
  <2> HIDE DEF line
  <2> QED
    BY <1>1, <1>4, <1>7, AppendProperties DEF LineTypes, line
<1>9. LineTypes'
  BY <1>2, <1>4, <1>6, <1>8 DEF LineTypes
<1>10. Taken' = Taken + nl
  BY <1>2, <1>3, <1>5, <1>6 DEF Taken
<1>11. Pieces'
  <2>1. \A i \in 1..Len(buffer') : buffer'[i] = t[Taken + nl + i]
    <3> TAKE i \in 1..Len(buffer')
    <3>1. i \in 1..Len(buffer) - nl /\ nl + i \in 1..Len(buffer) /\ Taken + (nl + i) = Taken + nl + i
      BY <1>3, <1>5, <1>6, SMTT(30)
    <3>2. buffer'[i] = buffer[nl + i] /\ buffer[nl + i] = t[Taken + (nl + i)]
      BY <1>6, <3>1 DEF LineInv, Pieces
    <3> QED
      BY <3>1, <3>2
  <2>2. Len(wire') + Len(buffer') <= Len(t)
    BY <1>2, <1>3, <1>5, <1>6
  <2> QED
    BY <1>2, <1>10, <2>1, <2>2 DEF LineInv, Pieces
<1>12. /\ Taken + nl \in 1..Len(t) /\ t[Taken + nl] = "LF"
       /\ Number(t, Taken + nl) = Len(lines) + 1
       /\ \A b, e \in 1..Len(t) :
             IsLine(t, b, e) /\ Number(t, e) = Len(lines) + 1 =>
                 SubSeq(t, b, e - 1) = SubSeq(buffer, 1, nl - 1)
  BY <1>1, BufferLine
<1>13. UpToLine'
  <2>1. BeginsLine(t, Taken + nl + 1)
    <3>1. Taken + nl + 1 - 1 = Taken + nl
      BY <1>3, <1>5
    <3> QED
      BY <1>12, <3>1 DEF BeginsLine
  <2> QED
    BY <1>2, <1>8, <1>10, <1>12, <2>1 DEF UpToLine
<1>14. Returned(t, lines')
  <2> SUFFICES ASSUME NEW b \in 1..Len(t), NEW e \in 1..Len(t), IsLine(t, b, e), Number(t, e) <= Len(lines')
               PROVE  lines'[Number(t, e)] = Trim(SubSeq(t, b, e - 1))
    BY DEF Returned
  <2>1. Number(t, e) \in Nat /\ Number(t, e) >= 1
    <3>1. Number(t, 0) \in Nat /\ Number(t, e) \in Nat /\ Number(t, 0) < Number(t, e)
      <4>1. t \in Seq(Symbols) /\ 0 \in 0..Len(t) /\ e \in 0..Len(t) /\ 0 <= e /\ e > 0 /\ t[e] = "LF"
        BY <1>3, <1>4 DEF LineTypes, IsLine
      <4> QED
        BY <4>1, NumberCounts
    <3> QED
      BY <3>1
  <2>2. CASE Number(t, e) <= Len(lines)
    <3>1. lines[Number(t, e)] = Trim(SubSeq(t, b, e - 1))
      BY <2>2 DEF LineInv, Returned
    <3>2. Number(t, e) \in 1..Len(lines)
      BY <1>3, <2>1, <2>2
    <3> QED
      BY <1>8, <3>1, <3>2
  <2>3. CASE Number(t, e) = Len(lines) + 1
    <3>1. SubSeq(t, b, e - 1) = SubSeq(buffer, 1, nl - 1)
      BY <1>12, <2>3
    <3> QED
      BY <1>8, <2>3, <3>1
  <2> QED
    BY <1>3, <1>8, <2>1, <2>2, <2>3, SMTT(30)
<1> QED
  BY <1>2, <1>9, <1>11, <1>13, <1>14 DEF LineInv

\* What is left at the end of the file is returned.
LEMMA FinalLineInv == ASSUME LineInv, FinalLine PROVE LineInv'
<1>1. /\ lines' = Append(lines, buffer) /\ buffer' = <<>> /\ NoLF /\ eof /\ buffer # <<>>
      /\ lineText' = lineText /\ wire' = wire /\ eof' = eof /\ lineStatus' = "Line"
  BY DEF FinalLine
<1> DEFINE t == lineText
<1>2. LineTypes
  BY DEF LineInv
<1>3. /\ Len(t) \in Nat /\ Len(lines) \in Nat /\ Len(buffer) \in Nat /\ Len(wire) \in Nat
      /\ Taken \in Nat /\ Taken + Len(buffer) = Len(t) - Len(wire)
  BY LineLengths
<1>4. wire = <<>> /\ Len(wire) = 0 /\ Len(buffer') = 0 /\ Len(buffer) > 0
  <2>1. wire = <<>>
    BY <1>1 DEF LineInv, Pieces
  <2> QED
    BY <1>1, <1>2, <2>1, EmptySeq DEF LineTypes
<1>5. /\ lines' \in Seq(Seq(Symbols)) /\ Len(lines') = Len(lines) + 1
      /\ lines'[Len(lines) + 1] = buffer
      /\ \A i \in 1..Len(lines) : lines'[i] = lines[i]
  BY <1>1, <1>2, AppendProperties DEF LineTypes
<1>6. LineTypes'
  <2>1. buffer' \in Seq(Symbols)
    BY <1>1, EmptySeq
  <2> QED
    BY <1>1, <1>2, <1>5, <2>1 DEF LineTypes
<1>7. Taken' = Len(t)
  BY <1>1, <1>3, <1>4 DEF Taken
<1>8. Pieces'
  <2>1. Len(wire') + Len(buffer') <= Len(t) /\ 1..Len(wire') = {} /\ 1..Len(buffer') = {}
    BY <1>1, <1>3, <1>4
  <2> QED
    BY <1>1, <1>4, <2>1 DEF Pieces
<1>9. /\ BeginsLine(t, Taken + 1) /\ Len(lines) = Number(t, Taken)
  BY <1>1, BufferBegins
<1>10. \A i \in 1..Len(buffer) : t[Taken + i] # "LF" /\ buffer[i] = t[Taken + i]
  BY <1>1 DEF NoLF, LineInv, Pieces
<1>11. \A i \in Taken + 1..Len(t) : t[i] # "LF"
  <2> TAKE i \in Taken + 1..Len(t)
  <2>1. i - Taken \in 1..Len(buffer) /\ Taken + (i - Taken) = i
    BY <1>3, <1>4
  <2> QED
    BY <1>10, <2>1
<1>12. Number(t, Len(t)) = Len(lines)
  <2>1. t \in Seq(Symbols) /\ Taken \in 0..Len(t) /\ Len(t) \in 0..Len(t) /\ Taken <= Len(t)
    BY <1>2, <1>3, <1>4 DEF LineTypes
  <2> QED
    BY <1>9, <1>11, <2>1, NumberCounts
<1>13. IsRest(t, Taken + 1) /\ Taken + 1 \in 1..Len(t)
  BY <1>3, <1>4, <1>9, <1>11 DEF IsRest
<1>14. ASSUME NEW b \in 1..Len(t), IsRest(t, b) PROVE buffer = SubSeq(t, b, Len(t))
  <2>1. b = Taken + 1
    <3>1. Len(buffer) \in Nat /\ Taken + Len(buffer) <= Len(t) /\ b <= Taken + Len(buffer) + 1
      BY <1>3, <1>4
    <3>2. BeginsLine(t, b) /\ \A i \in b..Taken + Len(buffer) : t[i] # "LF"
      BY <1>3, <1>4, <1>14 DEF IsRest
    <3> QED
      BY <1>9, <1>10, <3>1, <3>2, OneBeginning
  <2>2. SubSeq(buffer, 1, Len(buffer)) = SubSeq(t, Taken + 1, Taken + Len(buffer))
    <3> DEFINE k == Len(buffer)
    <3>1. k \in Nat /\ k <= Len(buffer) /\ Taken + k <= Len(t)
      BY <1>3, <1>4
    <3>2. \A i \in 1..k : buffer[i] = t[Taken + i]
      BY <1>10
    <3>3. buffer \in Seq(Symbols) /\ t \in Seq(Symbols) /\ Taken \in Nat
      BY <1>2, <1>3 DEF LineTypes
    <3> HIDE DEF k
    <3>4. SubSeq(buffer, 1, k) = SubSeq(t, Taken + 1, Taken + k)
      BY <3>1, <3>2, <3>3, SamePiece
    <3> QED
      BY <3>4 DEF k
  <2>3. SubSeq(buffer, 1, Len(buffer)) = buffer
    BY <1>2, SubSeqFull DEF LineTypes
  <2>4. Taken + Len(buffer) = Len(t)
    BY <1>3, <1>4
  <2> QED
    BY <2>1, <2>2, <2>3, <2>4
<1>15. RestReturned'
  <2>1. Len(lines') = Number(t, Len(t)) + 1
    BY <1>5, <1>12
  <2>2. \A b \in 1..Len(t) : IsRest(t, b) => lines'[Len(lines')] = SubSeq(t, b, Len(t))
    BY <1>5, <1>14
  <2> QED
    BY <1>1, <1>7, <1>13, <2>1, <2>2 DEF RestReturned
<1>16. UpToLine'
  <2>1. ~BeginsLine(t, Len(t) + 1)
    <3>1. Len(t) + 1 # 1 /\ Len(t) + 1 - 1 = Len(t) /\ Len(t) \in Taken + 1..Len(t)
      BY <1>3, <1>4
    <3> QED
      BY <1>11, <3>1 DEF BeginsLine
  <2> QED
    BY <1>1, <1>7, <1>15, <2>1 DEF UpToLine
<1>17. Returned(t, lines')
  <2> SUFFICES ASSUME NEW b \in 1..Len(t), NEW e \in 1..Len(t), IsLine(t, b, e)
               PROVE  lines'[Number(t, e)] = Trim(SubSeq(t, b, e - 1))
    BY DEF Returned
  <2>1. t \in Seq(Symbols) /\ 0 \in 0..Len(t) /\ e \in 0..Len(t) /\ Len(t) \in 0..Len(t)
        /\ 0 <= e /\ e <= Len(t) /\ e > 0 /\ t[e] = "LF"
    BY <1>2, <1>3 DEF LineTypes, IsLine
  <2>2. Number(t, 0) \in Nat /\ Number(t, e) \in Nat /\ Number(t, 0) < Number(t, e)
    BY <2>1, NumberCounts
  <2>3. Number(t, e) <= Number(t, Len(t))
    BY <2>1, NumberCounts
  <2>4. Number(t, e) \in 1..Len(lines)
    BY <1>3, <1>12, <2>2, <2>3
  <2>5. lines[Number(t, e)] = Trim(SubSeq(t, b, e - 1))
    BY <2>4 DEF LineInv, Returned
  <2> QED
    BY <1>5, <2>4, <2>5
<1> QED
  BY <1>1, <1>6, <1>8, <1>16, <1>17 DEF LineInv

\* A read moves a piece of any length from the wire into the buffer.
LEMMA ReadPieceInv == ASSUME LineInv, NEW n \in 1..Len(wire), ReadPiece(n) PROVE LineInv'
<1>1. /\ buffer' = buffer \o SubSeq(wire, 1, n) /\ wire' = SubSeq(wire, n + 1, Len(wire)) /\ ~eof
      /\ lineText' = lineText /\ eof' = eof /\ lines' = lines /\ lineStatus' = "Line"
  BY DEF ReadPiece
<1> DEFINE t == lineText
<1>2. t \in Seq(Symbols) /\ wire \in Seq(Symbols) /\ buffer \in Seq(Symbols) /\ n \in Nat /\ n <= Len(wire)
  BY DEF LineInv, LineTypes
<1>3. /\ Len(t) \in Nat /\ Len(buffer) \in Nat /\ Len(wire) \in Nat
      /\ Taken \in Nat /\ Taken + Len(buffer) + Len(wire) = Len(t)
  BY LineLengths
<1>4. Remains(t, wire, buffer, Taken)
  BY <1>3 DEF LineInv, Pieces, Remains
<1>5. wire' \in Seq(Symbols) /\ buffer' \in Seq(Symbols) /\ Remains(t, wire', buffer', Taken)
  BY <1>1, <1>2, <1>3, <1>4, ReadOn
<1>6. LineTypes'
  BY <1>1, <1>5 DEF LineInv, LineTypes
<1>7. Taken' = Taken /\ Len(wire') + Len(buffer') <= Len(t)
  <2>1. Taken' = Len(t) - Len(wire') - Len(buffer')
    BY <1>1 DEF Taken
  <2>2. Taken + Len(buffer') + Len(wire') = Len(t) /\ Len(buffer') \in Nat /\ Len(wire') \in Nat
    BY <1>5 DEF Remains
  <2>3. Len(t) - Len(wire') - Len(buffer') = Taken /\ Len(wire') + Len(buffer') <= Len(t)
    BY <1>3, <2>2, WhatPrecedes
  <2> QED
    BY <2>1, <2>3
<1>8. Pieces'
  BY <1>1, <1>5, <1>7 DEF Pieces, Remains
<1>9. Returned(t, lines')
  BY <1>1 DEF LineInv
<1>10. UpToLine'
  <2>1. BeginsLine(t, Taken + 1) /\ Len(lines) = Number(t, Taken)
    BY <1>1, BufferBegins
  <2> QED
    BY <1>1, <1>7, <2>1 DEF UpToLine
<1> QED
  BY <1>1, <1>6, <1>8, <1>9, <1>10 DEF LineInv

\* LineInv is an inductive invariant of LineReader::next.
LEMMA LineInvHolds == LineSpec => []LineInv
<1>1. LineInit => LineInv
  BY LineInitInv
<1>2. LineInv /\ [LineNext]_lineVars => LineInv'
  <2> SUFFICES ASSUME LineInv, [LineNext]_lineVars PROVE LineInv'
    OBVIOUS
  <2>1. CASE NextLine
    BY <2>1, NextLineInv
  <2>2. CASE FinalLine
    BY <2>2, FinalLineInv
  <2>3. CASE \E n \in 1..Len(wire) : ReadPiece(n)
    BY <2>3, ReadPieceInv
  <2> DEFINE Same == lineText' = lineText /\ wire' = wire /\ buffer' = buffer /\ lines' = lines
  <2>4. ASSUME Same, eof' \in BOOLEAN, eof \/ eof' => wire = <<>>, eof => eof',
               lineStatus' = "Eof" => eof' /\ buffer = <<>>
        PROVE  LineInv'
    <3>1. Taken' = Taken
      BY <2>4 DEF Taken
    <3>2. LineTypes' /\ Pieces'
      BY <2>4, <3>1 DEF LineInv, LineTypes, Pieces
    <3>3. RestReturned => RestReturned'
      BY <2>4, <3>1 DEF RestReturned
    <3>4. UpToLine'
      BY <2>4, <3>1, <3>3 DEF LineInv, UpToLine
    <3>5. Returned(lineText', lines')
      BY <2>4 DEF LineInv
    <3> QED
      BY <3>2, <3>4, <3>5 DEF LineInv
  <2>5. CASE NoMoreLines
    BY <2>4, <2>5 DEF NoMoreLines, LineInv, LineTypes, Pieces
  <2>6. CASE ReadEof
    BY <2>4, <2>6 DEF ReadEof, LineInv, LineTypes, Pieces
  <2>7. CASE ReadError
    BY <2>4, <2>7 DEF ReadError, LineInv, LineTypes, Pieces
  <2>8. CASE UNCHANGED lineVars
    BY <2>4, <2>8 DEF lineVars, LineInv, LineTypes, Pieces
  <2> QED
    BY <2>1, <2>2, <2>3, <2>5, <2>6, <2>7, <2>8 DEF LineNext
<1> QED
  BY <1>1, <1>2, PTL DEF LineSpec

\* What was returned is what LinesAreWhole says.
LEMMA LineInvIsEnough == ASSUME LineInv PROVE LinesAreWhole
<1> DEFINE t == lineText
           n == Number(t, Len(t))
<1>1. \A b, e \in 1..Len(t) :
          IsLine(t, b, e) /\ Number(t, e) <= Len(lines) => lines[Number(t, e)] = Trim(SubSeq(t, b, e - 1))
  BY DEF LineInv, Returned
<1>2. ASSUME lineStatus = "Eof"
      PROVE  /\ Len(lines) = IF \E b \in 1..Len(t) : IsRest(t, b) THEN n + 1 ELSE n
             /\ \A b \in 1..Len(t) : IsRest(t, b) => lines[n + 1] = SubSeq(t, b, Len(t))
  <2>1. Len(t) \in Nat /\ Taken = Len(t)
    <3>1. wire = <<>> /\ buffer = <<>>
      BY <1>2 DEF LineInv, Pieces
    <3>2. Len(wire) = 0 /\ Len(buffer) = 0
      BY <3>1, EmptySeq
    <3> QED
      BY <3>2, LineLengths DEF Taken
  <2>2. CASE BeginsLine(t, Len(t) + 1)
    <3>1. Len(lines) = n
      BY <2>1, <2>2 DEF LineInv, UpToLine
    <3>2. ASSUME NEW b \in 1..Len(t), IsRest(t, b) PROVE FALSE
      <4>1. Len(t) + 1 # 1 /\ Len(t) + 1 - 1 = Len(t) /\ Len(t) \in b..Len(t)
        BY <2>1
      <4> QED
        BY <2>2, <3>2, <4>1 DEF IsRest, BeginsLine
    <3> QED
      BY <3>1, <3>2
  <2>3. CASE ~BeginsLine(t, Len(t) + 1)
    <3>1. RestReturned
      BY <2>1, <2>3 DEF LineInv, UpToLine
    <3> QED
      BY <2>1, <3>1 DEF RestReturned
  <2> QED
    BY <2>2, <2>3
<1> QED
  BY <1>1, <1>2 DEF LinesAreWhole

\* For texts of any length, cut into pieces of any length, LineReader::next
\* returns the lines of the text: the n-th is the n-th, one carriage return less,
\* and the last is returned although no line feed ends it.
THEOREM LinesArriveWhole == LineSpec => []LinesAreWhole
  BY LineInvHolds, LineInvIsEnough, PTL

-----------------------------------------------------------------------------
(* parse_frame                                                             *)

\* parse_message reads what message_to_json wrote.
LEMMA RoundTrip ==
    ASSUME NEW m \in Messages
    PROVE  parse_message(message_to_json(m)) = m /\ m \notin {Refused, Thrown}
<1>1. CASE m \in {[type |-> "request", id |-> i, params |-> p] : i \in {"int", "string"}, p \in {"absent", "object", "array"}}
  <2>1. PICK i \in {"int", "string"}, p \in {"absent", "object", "array"} : m = [type |-> "request", id |-> i, params |-> p]
    BY <1>1
  <2>2. message_to_json(m) = Object("2.0", "string", i, p, "absent", "absent")
    BY <2>1 DEF message_to_json
  <2>3. parse_message(Object("2.0", "string", i, p, "absent", "absent")) = [type |-> "request", id |-> i, params |-> p]
    BY DEF parse_message, parse_call, Object
  <2> QED
    BY <2>1, <2>2, <2>3 DEF Refused, Thrown
<1>2. CASE m \in {[type |-> "notification", params |-> p] : p \in {"absent", "object", "array"}}
  <2>1. PICK p \in {"absent", "object", "array"} : m = [type |-> "notification", params |-> p]
    BY <1>2
  <2>2. message_to_json(m) = Object("2.0", "string", "absent", p, "absent", "absent")
    BY <2>1 DEF message_to_json
  <2>3. parse_message(Object("2.0", "string", "absent", p, "absent", "absent")) = [type |-> "notification", params |-> p]
    BY DEF parse_message, parse_call, Object
  <2> QED
    BY <2>1, <2>2, <2>3 DEF Refused, Thrown
<1>3. CASE m \in {[type |-> "response", id |-> i, error |-> e] : i \in {"null", "int", "string"}, e \in BOOLEAN}
  <2>1. PICK i \in {"null", "int", "string"}, e \in BOOLEAN : m = [type |-> "response", id |-> i, error |-> e]
    BY <1>3
  <2> DEFINE j == Object("2.0", "absent", i, "absent", IF e THEN "absent" ELSE "any", IF e THEN "object" ELSE "absent")
  <2>2. message_to_json(m) = j
    BY <2>1 DEF message_to_json
  <2>3. parse_message(j) = [type |-> "response", id |-> i, error |-> e]
    <3>1. CASE e = TRUE
      BY <3>1 DEF parse_message, parse_response, Object
    <3>2. CASE e = FALSE
      BY <3>2 DEF parse_message, parse_response, Object
    <3> QED
      BY <3>1, <3>2
  <2> QED
    BY <2>1, <2>2, <2>3 DEF Refused, Thrown
<1> QED
  BY <1>1, <1>2, <1>3 DEF Messages

\* What breaks a rule of JSON-RPC is refused.
LEMMA JunkRefused == ASSUME NEW j \in Junk PROVE parse_message(j) = Refused
  BY DEF Junk, Object, parse_message, parse_call, parse_response

\* What from_json cannot convert makes it throw.
LEMMA MistypedThrows == ASSUME NEW j \in Mistyped PROVE parse_message(j) = Thrown
<1>1. PICK i \in {"null", "int", "string"} : j = Object("2.0", "absent", i, "absent", "absent", "mistyped")
  BY DEF Mistyped
<1> QED
  BY <1>1 DEF Object, parse_message, parse_response

\* An item is refused, makes from_json throw, or is read as the message it was
\* written from.
LEMMA ItemParsed ==
    ASSUME NEW j \in Items
    PROVE  /\ parse_message(j) = Thrown <=> j \in Mistyped
           /\ j \in Junk => parse_message(j) = Refused
           /\ j \notin Junk /\ j \notin Mistyped =>
                 /\ parse_message(j) # Refused /\ parse_message(j) \in Messages
                 /\ message_to_json(parse_message(j)) = j
<1>1. j \in {message_to_json(m) : m \in Messages} \/ j \in Junk \/ j \in Mistyped
  BY DEF Items
<1>2. CASE j \in {message_to_json(m) : m \in Messages}
  <2>1. PICK m \in Messages : j = message_to_json(m)
    BY <1>2
  <2>2. parse_message(j) = m /\ m \notin {Refused, Thrown}
    BY <2>1, RoundTrip
  <2> QED
    BY <2>1, <2>2, JunkRefused, MistypedThrows
<1>3. Refused # Thrown
  BY DEF Refused, Thrown
<1> QED
  BY <1>1, <1>2, <1>3, JunkRefused, MistypedThrows

\* How the number of messages among the first items rises.
LEMMA SoundCounts ==
    ASSUME NEW s \in Seq(Items), NEW k \in 0..Len(s), NEW n \in 0..Len(s), k <= n
    PROVE  /\ Sound(s, 0) = 0 /\ Sound(s, k) \in Nat /\ Sound(s, n) \in Nat /\ Sound(s, k) <= Sound(s, n)
           /\ n > k /\ s[n] \notin Junk => Sound(s, k) < Sound(s, n)
           /\ n = k + 1 => Sound(s, n) = IF s[n] \in Junk THEN Sound(s, k) ELSE Sound(s, k) + 1
<1> DEFINE S == {i \in 1..Len(s) : s[i] \notin Junk}
<1>1. Len(s) \in Nat /\ k \in Nat /\ n \in Nat
  OBVIOUS
<1>2. {i \in 1..k : s[i] \notin Junk} = UpTo(S, k) /\ {i \in 1..n : s[i] \notin Junk} = UpTo(S, n)
  BY <1>1 DEF UpTo
<1>3. \A i \in 1..Len(s) : i \in S <=> s[i] \notin Junk
  OBVIOUS
<1>4. Sound(s, 0) = 0
  <2>1. {i \in 1..0 : s[i] \notin Junk} = {}
    OBVIOUS
  <2> QED
    BY <2>1, FS_EmptySet DEF Sound
<1> HIDE DEF S
<1>5. Sound(s, k) = Cardinality(UpTo(S, k)) /\ Sound(s, n) = Cardinality(UpTo(S, n))
  BY <1>2 DEF Sound
<1>6. /\ Cardinality(UpTo(S, n)) \in Nat /\ Cardinality(UpTo(S, k)) <= Cardinality(UpTo(S, n))
      /\ n > k /\ n \in S => Cardinality(UpTo(S, k)) < Cardinality(UpTo(S, n))
      /\ (\A i \in k + 1..n : i \notin S) => Cardinality(UpTo(S, n)) = Cardinality(UpTo(S, k))
      /\ n > k /\ n \in S /\ (\A i \in k + 1..n - 1 : i \notin S)
            => Cardinality(UpTo(S, n)) = Cardinality(UpTo(S, k)) + 1
  BY <1>1, CountRises
<1>7. Cardinality(UpTo(S, k)) \in Nat
  BY <1>1, CountRises
<1>8. n > k => (n \in S <=> s[n] \notin Junk)
  BY <1>1, <1>3
<1>9. n = k + 1 => k + 1..n = {n} /\ k + 1..n - 1 = {} /\ n > k
  BY <1>1
<1> QED
  BY <1>4, <1>5, <1>6, <1>7, <1>8, <1>9

FrameTypes ==
    /\ frame.form \in {"discarded", "single", "batch"} /\ frame.items \in Seq(Items)
    /\ frame.form = "single" => Len(frame.items) = 1
    /\ item \in 1..Len(frame.items) + 1 /\ item_errors \in Nat /\ messages \in Seq(Messages)

\* The first n items s were delivered as ms, or counted as errors.
Delivered(s, n, ms, errors) ==
    /\ Len(ms) = Sound(s, n) /\ errors = n - Sound(s, n)
    /\ \A i \in 1..n : s[i] \notin Mistyped
    /\ \A i \in 1..n : s[i] \notin Junk => message_to_json(ms[Sound(s, i)]) = s[i]

\* Between two items the ones before are dealt with; a single message is one item.
FrameInv ==
    /\ FrameTypes
    /\ parsed = "running" => Delivered(frame.items, item - 1, messages, item_errors) /\ (frame.form # "batch" => item = 1)
    /\ parsed = "error" => \/ frame.form = "discarded"
                           \/ frame.form = "batch" /\ Len(frame.items) = 0
                           \/ frame.form = "single" /\ frame.items[1] \in Junk
    /\ parsed = "exception" => messages = <<>> /\ \E i \in 1..Len(frame.items) : frame.items[i] \in Mistyped
    /\ parsed = "frame" => Delivered(frame.items, Len(frame.items), messages, item_errors)

\* One more item is dealt with: it is delivered as the message it was written
\* from or, being none, counted.
LEMMA OneMoreItem ==
    ASSUME NEW s \in Seq(Items), NEW k \in 0..Len(s), k < Len(s),
           NEW ms \in Seq(Messages), NEW errors \in Nat, Delivered(s, k, ms, errors), NEW newMs, NEW newErrors,
           parse_message(s[k + 1]) # Thrown,
           IF parse_message(s[k + 1]) # Refused
           THEN newMs = Append(ms, parse_message(s[k + 1])) /\ newErrors = errors
           ELSE newErrors = errors + 1 /\ newMs = ms
    PROVE  Delivered(s, k + 1, newMs, newErrors) /\ newMs \in Seq(Messages) /\ newErrors \in Nat
<1> DEFINE n == k + 1
           m == parse_message(s[n])
<1>1. Len(s) \in Nat /\ k \in Nat /\ n \in 0..Len(s) /\ n \in 1..Len(s) /\ k <= n /\ n > k
  OBVIOUS
<1>2. s[n] \in Items
  BY <1>1, ElementOfSeq
<1>3. /\ s[n] \in Junk => m = Refused
      /\ s[n] \notin Junk => m # Refused /\ m \in Messages /\ message_to_json(m) = s[n]
      /\ s[n] \notin Mistyped
  BY <1>2, ItemParsed
<1>4. /\ Sound(s, k) \in Nat
      /\ Sound(s, n) = IF s[n] \in Junk THEN Sound(s, k) ELSE Sound(s, k) + 1
  BY <1>1, SoundCounts
<1>5. \A i \in 1..k : s[i] \notin Junk => Sound(s, i) \in 1..Sound(s, k)
  <2> SUFFICES ASSUME NEW i \in 1..k, s[i] \notin Junk PROVE Sound(s, i) \in 1..Sound(s, k)
    OBVIOUS
  <2>1. i \in 0..Len(s) /\ 0 \in 0..Len(s) /\ 0 <= i /\ i > 0 /\ i <= k
    BY <1>1
  <2>2. Sound(s, 0) = 0 /\ Sound(s, i) \in Nat /\ Sound(s, 0) < Sound(s, i)
    BY <2>1, SoundCounts
  <2>3. Sound(s, i) <= Sound(s, k)
    BY <2>1, SoundCounts
  <2> QED
    BY <1>4, <2>2, <2>3
<1>6. /\ Len(ms) = Sound(s, k) /\ errors = k - Sound(s, k)
      /\ \A i \in 1..k : s[i] \notin Mistyped
      /\ \A i \in 1..k : s[i] \notin Junk => message_to_json(ms[Sound(s, i)]) = s[i]
  BY DEF Delivered
<1>7. \A i \in 1..n : i \in 1..k \/ i = n
  BY <1>1
<1>10. \A i \in 1..n : s[i] \notin Mistyped
  BY <1>3, <1>6, <1>7
<1>8. CASE s[n] \in Junk
  <2>1. newMs = ms /\ newErrors = errors + 1
    BY <1>3, <1>8
  <2>2. Len(newMs) = Sound(s, n) /\ newErrors = n - Sound(s, n)
    BY <1>1, <1>4, <1>6, <1>8, <2>1
  <2>3. \A i \in 1..n : s[i] \notin Junk => message_to_json(newMs[Sound(s, i)]) = s[i]
    BY <1>6, <1>7, <1>8, <2>1
  <2> QED
    BY <1>10, <2>1, <2>2, <2>3 DEF Delivered
<1>9. CASE s[n] \notin Junk
  <2>1. newMs = Append(ms, m) /\ newErrors = errors /\ m \in Messages
    BY <1>3, <1>9
  <2> HIDE DEF m
  <2>2. /\ newMs \in Seq(Messages) /\ Len(newMs) = Len(ms) + 1
        /\ newMs[Len(ms) + 1] = m
        /\ \A i \in 1..Len(ms) : newMs[i] = ms[i]
    BY <2>1, AppendProperties
  <2>3. Len(newMs) = Sound(s, n) /\ newErrors = n - Sound(s, n)
    BY <1>1, <1>4, <1>6, <1>9, <2>1, <2>2
  <2>4. ASSUME NEW i \in 1..n, s[i] \notin Junk PROVE message_to_json(newMs[Sound(s, i)]) = s[i]
    <3>1. CASE i \in 1..k
      <4>1. Sound(s, i) \in 1..Len(ms)
        BY <1>5, <1>6, <2>4, <3>1
      <4>2. newMs[Sound(s, i)] = ms[Sound(s, i)]
        BY <2>2, <4>1
      <4> QED
        BY <1>6, <2>4, <3>1, <4>2
    <3>2. CASE i = n
      <4>1. newMs[Sound(s, i)] = m
        BY <1>4, <1>6, <1>9, <2>2, <3>2
      <4> QED
        BY <1>3, <1>9, <3>2, <4>1
    <3> QED
      BY <1>7, <3>1, <3>2
  <2> QED
    BY <1>10, <2>1, <2>2, <2>3, <2>4 DEF Delivered
<1> QED
  BY <1>8, <1>9

\* FrameInv is an inductive invariant of parse_frame.
LEMMA FrameInvHolds == FrameSpec => []FrameInv
<1>1. FrameInit => FrameInv
  <2> SUFFICES ASSUME NEW f \in Frames, FrameStart(f) PROVE FrameInv
    BY DEF FrameInit
  <2>1. /\ f \in [form : {"discarded", "single", "batch"}, items : Seq(Items)]
        /\ f.form = "single" => Len(f.items) = 1
    BY FrameAssumption
  <2>2. frame = f /\ item = 1 /\ messages = <<>> /\ item_errors = 0 /\ parsed = "running"
    BY DEF FrameStart
  <2>3. <<>> \in Seq(Messages) /\ Len(<<>>) = 0
    BY EmptySeq
  <2>4. f.items \in Seq(Items) /\ Len(f.items) \in Nat
    BY <2>1
  <2>5. FrameTypes
    BY <2>1, <2>2, <2>3, <2>4 DEF FrameTypes
  <2>6. Sound(f.items, 0) = 0
    <3>1. 0 \in 0..Len(f.items)
      BY <2>4
    <3> QED
      BY <2>4, <3>1, SoundCounts
  <2>7. Delivered(f.items, 0, messages, item_errors)
    BY <2>2, <2>3, <2>6 DEF Delivered
  <2> QED
    BY <2>2, <2>5, <2>7 DEF FrameInv
<1>2. FrameInv /\ [FrameNext]_frameVars => FrameInv'
  <2> SUFFICES ASSUME FrameInv, [FrameNext]_frameVars PROVE FrameInv'
    OBVIOUS
  <2> DEFINE s == frame.items
  <2>1. FrameTypes /\ s \in Seq(Items) /\ Len(s) \in Nat /\ item \in Nat
    BY DEF FrameInv, FrameTypes
  <2>2. CASE RefuseFrame
    <3>1. /\ frame' = frame /\ item' = item /\ messages' = messages /\ item_errors' = item_errors
          /\ parsed' = "error" /\ (frame.form = "discarded" \/ (frame.form = "batch" /\ s = <<>>))
      BY <2>2 DEF RefuseFrame
    <3>2. FrameTypes'
      BY <2>1, <3>1 DEF FrameTypes
    <3>3. s = <<>> => Len(s) = 0
      BY EmptySeq
    <3> QED
      BY <3>1, <3>2, <3>3 DEF FrameInv
  <2>3. CASE ParseItem
    <3>1. /\ frame' = frame /\ item' = item + 1 /\ parsed = "running" /\ parsed' = "running"
          /\ frame.form = "batch" /\ item <= Len(s)
      BY <2>3 DEF ParseItem
    <3> DEFINE k == item - 1
    <3>2. k \in 0..Len(s) /\ k < Len(s) /\ k + 1 = item /\ item' - 1 = item /\ item + 1 \in 1..Len(s) + 1
      BY <2>1, <3>1 DEF FrameTypes
    <3>3. Delivered(s, k, messages, item_errors) /\ messages \in Seq(Messages) /\ item_errors \in Nat
      BY <3>1 DEF FrameInv, FrameTypes
    <3>4. /\ IF parse_message(s[k + 1]) # Refused
             THEN messages' = Append(messages, parse_message(s[k + 1])) /\ item_errors' = item_errors
             ELSE item_errors' = item_errors + 1 /\ messages' = messages
          /\ parse_message(s[k + 1]) # Thrown
      BY <2>3, <3>2 DEF ParseItem
    <3> HIDE DEF k
    <3>5. Delivered(s, k + 1, messages', item_errors') /\ messages' \in Seq(Messages) /\ item_errors' \in Nat
      BY <2>1, <3>2, <3>3, <3>4, OneMoreItem
    <3>6. FrameTypes'
      BY <2>1, <3>1, <3>2, <3>5 DEF FrameTypes
    <3>7. Delivered(s, item' - 1, messages', item_errors')
      BY <3>2, <3>5
    <3> QED
      BY <3>1, <3>6, <3>7 DEF FrameInv
  <2>4. CASE BatchParsed
    <3>1. /\ frame' = frame /\ item' = item /\ messages' = messages /\ item_errors' = item_errors
          /\ parsed = "running" /\ parsed' = "frame" /\ item > Len(s)
      BY <2>4 DEF BatchParsed
    <3>2. item - 1 = Len(s)
      BY <2>1, <3>1 DEF FrameTypes
    <3>3. FrameTypes'
      BY <2>1, <3>1 DEF FrameTypes
    <3>4. Delivered(s, Len(s), messages, item_errors)
      BY <3>1, <3>2 DEF FrameInv
    <3> QED
      BY <3>1, <3>3, <3>4 DEF FrameInv
  <2>5. CASE ParseSingle
    <3>1. /\ frame' = frame /\ item' = item /\ item_errors' = item_errors
          /\ parsed = "running" /\ frame.form = "single" /\ Len(s) = 1
      BY <2>1, <2>5 DEF ParseSingle, FrameTypes
    <3>2. item = 1 /\ 1 - 1 = 0 /\ Delivered(s, item - 1, messages, item_errors)
      BY <3>1 DEF FrameInv
    <3>3. Delivered(s, 0, messages, item_errors) /\ messages \in Seq(Messages) /\ item_errors \in Nat
      BY <2>1, <3>2 DEF FrameTypes
    <3>4. s[1] \in Items
      BY <2>1, <3>1, ElementOfSeq
    <3>5. CASE s[1] \in Junk
      <4>1. messages' = messages /\ parsed' = "error"
        BY <2>5, <3>4, <3>5, ItemParsed DEF ParseSingle
      <4>2. FrameTypes'
        BY <2>1, <3>1, <4>1 DEF FrameTypes
      <4> QED
        BY <3>1, <3>5, <4>1, <4>2 DEF FrameInv
    <3>7. parse_message(s[1]) # Thrown /\ s[1] \notin Mistyped
      BY <2>5, <3>4, ItemParsed DEF ParseSingle
    <3>6. CASE s[1] \notin Junk
      <4> DEFINE m == parse_message(s[1])
      <4>1. messages' = <<m>> /\ parsed' = "frame" /\ m # Refused /\ m \in Messages
        BY <2>5, <3>4, <3>6, <3>7, ItemParsed DEF ParseSingle
      <4>2. Append(messages, m) = <<m>>
        <5>1. messages = <<>>
          <6>1. Sound(s, 0) = 0
            <7>1. 0 \in 0..Len(s)
              BY <2>1
            <7> QED
              BY <2>1, <7>1, SoundCounts
          <6>2. Len(messages) = 0
            BY <3>3, <6>1 DEF Delivered
          <6> QED
            BY <3>3, <6>2, EmptySeq
        <5> HIDE DEF m
        <5> QED
          BY <4>1, <5>1
      <4>3. 0 \in 0..Len(s) /\ 0 < Len(s) /\ 0 + 1 = 1
        BY <3>1
      <4>4. Delivered(s, 1, messages', item_errors') /\ messages' \in Seq(Messages) /\ item_errors' \in Nat
        <5> DEFINE k == 0
        <5>1. k \in 0..Len(s) /\ k < Len(s) /\ k + 1 = 1
          BY <4>3
        <5>2. Delivered(s, k, messages, item_errors)
          BY <3>3
        <5> HIDE DEF k
        <5>3. /\ IF parse_message(s[k + 1]) # Refused
                 THEN messages' = Append(messages, parse_message(s[k + 1])) /\ item_errors' = item_errors
                 ELSE item_errors' = item_errors + 1 /\ messages' = messages
              /\ parse_message(s[k + 1]) # Thrown
          BY <3>1, <3>7, <4>1, <4>2, <5>1
        <5>4. Delivered(s, k + 1, messages', item_errors') /\ messages' \in Seq(Messages) /\ item_errors' \in Nat
          BY <2>1, <3>3, <5>1, <5>2, <5>3, OneMoreItem
        <5> QED
          BY <5>1, <5>4
      <4>5. FrameTypes'
        BY <2>1, <3>1, <4>4 DEF FrameTypes
      <4> QED
        BY <3>1, <4>1, <4>4, <4>5 DEF FrameInv
    <3> QED
      BY <3>5, <3>6
  <2>7. CASE ParseThrows
    <3>1. /\ frame' = frame /\ item' = item /\ messages' = <<>> /\ item_errors' = 0
          /\ parsed' = "exception" /\ item <= Len(s) /\ parse_message(s[item]) = Thrown
      BY <2>7 DEF ParseThrows
    <3>2. item \in 1..Len(s)
      BY <2>1, <3>1 DEF FrameTypes
    <3>3. s[item] \in Mistyped
      BY <2>1, <3>1, <3>2, ElementOfSeq, ItemParsed
    <3>4. FrameTypes'
      BY <2>1, <3>1, EmptySeq DEF FrameTypes
    <3> QED
      BY <3>1, <3>2, <3>3, <3>4 DEF FrameInv
  <2>6. CASE UNCHANGED frameVars
    <3>1. /\ frame' = frame /\ item' = item /\ messages' = messages /\ item_errors' = item_errors
          /\ parsed' = parsed
      BY <2>6 DEF frameVars
    <3> QED
      BY <3>1 DEF FrameInv, FrameTypes
  <2> QED
    BY <2>2, <2>3, <2>4, <2>5, <2>6, <2>7 DEF FrameNext
<1> QED
  BY <1>1, <1>2, PTL DEF FrameSpec

\* For batches of any length and mixture, parse_frame delivers every item that
\* is a message as the one it was written from, in order, and counts the others,
\* unless an error of the wrong type makes it throw and lose them all.
THEOREM FrameItemsIndependent == FrameSpec => []ItemsAreIndependent
<1>1. FrameInv => ItemsAreIndependent
  BY DEF FrameInv, ItemsAreIndependent, Delivered
<1> QED
  BY <1>1, FrameInvHolds, PTL

-----------------------------------------------------------------------------
(* match_uri_template                                                      *)

TemplateTypes ==
    /\ template \in Seq(Segments) /\ uri \in Seq(Characters)
    /\ segment \in 1..Len(template) + 1 /\ pos \in 0..Len(uri)

FitsAt(t, u, c, i) == IF t[i].is_variable THEN VariableFits(t, u, c, i) ELSE LiteralFits(t, u, c, i)

\* The first k segments stand for what is before p, cut at c.
CutSoFar(t, u, c, k, p) ==
    /\ c \in [0..Len(t) -> 0..Len(u)] /\ c[0] = 0 /\ c[k] = p
    /\ \A i \in 1..k : FitsAt(t, u, c, i)

\* The values are those of the first k segments.
ValuesSoFar(t, u, c, k, values) ==
    /\ DOMAIN values = VariableNames(t, k)
    /\ \A i \in 1..k : IsLast(t, i, k) => values[t[i].text] = SubSeq(u, c[i - 1] + 1, c[i])

\* Every cut that fits at all is at p after k segments: nothing was given away.
OnlyCut(t, u, k, p) == \A c \in Cuts(t, u) : Fits(t, u, c) => c[k] = p

TemplateInv ==
    /\ TemplateTypes
    /\ matched = "running" =>
          /\ OnlyCut(template, uri, segment - 1, pos)
          /\ \E c : /\ CutSoFar(template, uri, c, segment - 1, pos)
                    /\ ValuesSoFar(template, uri, c, segment - 1, variables)
    /\ MatchIsExact

\* A cut is extended by one segment.
LEMMA CutExtends ==
    ASSUME NEW t \in Seq(Segments), NEW u \in Seq(Characters), NEW k \in 0..Len(t), k < Len(t),
           NEW p, NEW e \in 0..Len(u), NEW c, CutSoFar(t, u, c, k, p),
           NEW d \in [0..Len(t) -> 0..Len(u)], d[k + 1] = e, \A i \in 0..k : d[i] = c[i],
           FitsAt(t, u, d, k + 1)
    PROVE  CutSoFar(t, u, d, k + 1, e)
<1>1. Len(t) \in Nat /\ Len(u) \in Nat /\ k \in Nat /\ k + 1 \in 0..Len(t) /\ k \in 0..Len(t)
  OBVIOUS
<1>2. d[0] = 0
  BY <1>1 DEF CutSoFar
<1>3. \A i \in 1..k + 1 : FitsAt(t, u, d, i)
  <2> TAKE i \in 1..k + 1
  <2>1. CASE i = k + 1
    BY <2>1
  <2>2. CASE i \in 1..k
    <3>1. i \in 0..k /\ i - 1 \in 0..k
      BY <1>1, <2>2
    <3>2. d[i] = c[i] /\ d[i - 1] = c[i - 1] /\ FitsAt(t, u, c, i)
      BY <2>2, <3>1 DEF CutSoFar
    <3> QED
      BY <3>2 DEF FitsAt, VariableFits, LiteralFits
  <2> QED
    BY <1>1, <2>1, <2>2
<1> QED
  BY <1>2, <1>3 DEF CutSoFar

\* What a cut that fits at all says of the next segment.
LEMMA NextFits ==
    ASSUME NEW t \in Seq(Segments), NEW u \in Seq(Characters), NEW k \in 0..Len(t), k < Len(t), NEW p \in 0..Len(u),
           OnlyCut(t, u, k, p), NEW c \in Cuts(t, u), Fits(t, u, c)
    PROVE  c[k + 1] \in 0..Len(u) /\ c[k] = p /\ FitsAt(t, u, c, k + 1)
<1>1. Len(t) \in Nat /\ k + 1 \in 0..Len(t) /\ k + 1 \in 1..Len(t)
  OBVIOUS
<1>2. c \in [0..Len(t) -> 0..Len(u)]
  BY DEF Cuts
<1> QED
  BY <1>1, <1>2 DEF OnlyCut, Fits, FitsAt

\* At the beginning the empty cut is the only one.
LEMMA TemplateInitInv == ASSUME TemplateInit PROVE TemplateInv
<1>1. PICK t \in Templates, u \in Uris : TemplateStart(t, u)
  BY DEF TemplateInit
<1>2. t \in Seq(Segments) /\ u \in Seq(Characters) /\ Len(t) \in Nat /\ Len(u) \in Nat
  BY TemplateAssumption
<1>3. template = t /\ uri = u /\ segment = 1 /\ pos = 0 /\ variables = <<>> /\ matched = "running"
  BY <1>1 DEF TemplateStart
<1>4. TemplateTypes
  BY <1>2, <1>3 DEF TemplateTypes
<1>5. OnlyCut(t, u, 0, 0)
  BY DEF OnlyCut, Cuts
<1> DEFINE c == [i \in 0..Len(t) |-> 0]
<1>6. CutSoFar(t, u, c, 0, 0)
  BY <1>2 DEF CutSoFar
<1>7. ValuesSoFar(t, u, c, 0, <<>>)
  <2>1. DOMAIN <<>> = {}
    OBVIOUS
  <2>2. VariableNames(t, 0) = {}
    BY DEF VariableNames
  <2> QED
    BY <2>1, <2>2 DEF ValuesSoFar
<1> HIDE DEF c
<1>8. 1 - 1 = 0
  OBVIOUS
<1>9. MatchIsExact
  BY <1>3 DEF MatchIsExact
<1> QED
  BY <1>3, <1>4, <1>5, <1>6, <1>7, <1>8, <1>9 DEF TemplateInv

\* The names of the first segments when there is one more.
LEMMA OneMoreName ==
    ASSUME NEW t, NEW k \in Nat
    PROVE  VariableNames(t, k + 1) =
               IF t[k + 1].is_variable THEN VariableNames(t, k) \cup {t[k + 1].text} ELSE VariableNames(t, k)
<1>1. 1..k + 1 = 1..k \cup {k + 1}
  OBVIOUS
<1> QED
  BY <1>1 DEF VariableNames

\* A segment that is last of its name among more is so among fewer.
LEMMA LastAmongFewer ==
    ASSUME NEW t, NEW k \in Nat, NEW i \in 1..k, IsLast(t, i, k + 1)
    PROVE  /\ IsLast(t, i, k) /\ t[i].text \in VariableNames(t, k)
           /\ t[k + 1].is_variable => t[k + 1].text # t[i].text
<1>1. i + 1..k \subseteq i + 1..k + 1 /\ k + 1 \in i + 1..k + 1
  OBVIOUS
<1> QED
  BY <1>1 DEF IsLast, VariableNames

\* A step that refuses is right to when no cut fits.
LEMMA RefusedInv ==
    ASSUME TemplateInv, NoMatch, UNCHANGED <<template, uri>>,
           \A c \in Cuts(template, uri) : ~Fits(template, uri, c)
    PROVE  TemplateInv'
<1>1. /\ template' = template /\ uri' = uri /\ segment' = segment /\ pos' = pos
      /\ variables' = variables /\ matched' = "no"
  BY DEF NoMatch
<1>2. TemplateTypes'
  BY <1>1 DEF TemplateInv, TemplateTypes
<1>3. MatchIsExact'
  BY <1>1 DEF MatchIsExact
<1> QED
  BY <1>1, <1>2, <1>3 DEF TemplateInv

\* A step that goes on to e is right to when the segment fits and when every cut
\* that fits goes on to e.
LEMMA AdvancedInv ==
    ASSUME TemplateInv, matched = "running", segment <= Len(template), UNCHANGED <<template, uri, matched>>,
           NEW e \in 0..Len(uri), segment' = segment + 1, pos' = e,
           NEW c, CutSoFar(template, uri, c, segment - 1, pos),
           NEW d \in [0..Len(template) -> 0..Len(uri)], d[segment] = e, \A i \in 0..segment - 1 : d[i] = c[i],
           FitsAt(template, uri, d, segment),
           ValuesSoFar(template, uri, d, segment, variables'),
           OnlyCut(template, uri, segment, e)
    PROVE  TemplateInv'
<1> DEFINE k == segment - 1
<1>1. /\ template \in Seq(Segments) /\ uri \in Seq(Characters) /\ Len(template) \in Nat /\ segment \in Nat
      /\ k \in 0..Len(template) /\ k < Len(template) /\ k + 1 = segment
      /\ segment' \in 1..Len(template) + 1 /\ segment' - 1 = segment
  BY DEF TemplateInv, TemplateTypes
<1>2. template' = template /\ uri' = uri /\ matched' = "running"
  OBVIOUS
<1>3. CutSoFar(template, uri, d, segment, e)
  <2>1. /\ CutSoFar(template, uri, c, k, pos) /\ d[k + 1] = e /\ \A i \in 0..k : d[i] = c[i]
        /\ FitsAt(template, uri, d, k + 1)
    BY <1>1
  <2> HIDE DEF k
  <2>2. CutSoFar(template, uri, d, k + 1, e)
    BY <1>1, <2>1, CutExtends
  <2> QED
    BY <1>1, <2>2
<1>4. TemplateTypes'
  BY <1>1, <1>2 DEF TemplateTypes
<1>5. MatchIsExact'
  BY <1>2 DEF MatchIsExact
<1>6. OnlyCut(template', uri', segment' - 1, pos')
  BY <1>1, <1>2
<1>7. /\ CutSoFar(template', uri', d, segment' - 1, pos')
      /\ ValuesSoFar(template', uri', d, segment' - 1, variables')
  BY <1>1, <1>2, <1>3
<1> QED
  BY <1>2, <1>4, <1>5, <1>6, <1>7 DEF TemplateInv

\* A literal.
LEMMA MatchLiteralInv == ASSUME TemplateInv, MatchLiteral PROVE TemplateInv'
<1> DEFINE t == template
           u == uri
           k == segment - 1
           text == t[segment].text
           e == pos + Len(text)
<1>1. /\ matched = "running" /\ segment <= Len(t) /\ ~t[segment].is_variable
      /\ template' = template /\ uri' = uri
  BY DEF MatchLiteral
<1>2. /\ t \in Seq(Segments) /\ u \in Seq(Characters) /\ Len(t) \in Nat /\ Len(u) \in Nat /\ segment \in 1..Len(t)
      /\ k \in 0..Len(t) /\ k \in Nat /\ k < Len(t) /\ k + 1 = segment /\ pos \in 0..Len(u)
  BY <1>1 DEF TemplateInv, TemplateTypes
<1>3. text \in Seq(Characters) /\ Len(text) \in Nat
  <2>1. t[segment] \in Segments
    BY <1>2, ElementOfSeq
  <2> QED
    BY <2>1 DEF Segments
<1>4. OnlyCut(t, u, k, pos)
  BY <1>1 DEF TemplateInv
<1>5. ASSUME NEW c \in Cuts(t, u), Fits(t, u, c) PROVE c[segment] = e /\ OccursAt(text, u, pos)
  <2> HIDE DEF k
  <2>1. c[k] = pos /\ FitsAt(t, u, c, k + 1)
    BY <1>2, <1>4, <1>5, NextFits
  <2>2. LiteralFits(t, u, c, segment) /\ segment - 1 = k
    BY <1>1, <1>2, <2>1 DEF FitsAt
  <2> QED
    BY <2>1, <2>2 DEF LiteralFits
<1>6. CASE ~OccursAt(text, u, pos)
  <2>1. NoMatch
    BY <1>6 DEF MatchLiteral
  <2> QED
    BY <1>1, <1>5, <1>6, <2>1, RefusedInv
<1>7. CASE OccursAt(text, u, pos)
  <2>1. pos' = e /\ segment' = segment + 1 /\ variables' = variables /\ matched' = matched
    BY <1>7 DEF MatchLiteral
  <2>2. e \in 0..Len(u)
    BY <1>2, <1>3, <1>7 DEF OccursAt
  <2>3. PICK c : CutSoFar(t, u, c, k, pos) /\ ValuesSoFar(t, u, c, k, variables)
    BY <1>1 DEF TemplateInv
  <2> DEFINE d == [c EXCEPT ![segment] = e]
  <2>4. c \in [0..Len(t) -> 0..Len(u)] /\ c[k] = pos
    BY <2>3 DEF CutSoFar
  <2> HIDE DEF e, text
  <2>5. d \in [0..Len(t) -> 0..Len(u)] /\ d[segment] = e /\ \A i \in 0..k : d[i] = c[i]
    BY <1>2, <2>2, <2>4
  <2> HIDE DEF d
  <2>6. FitsAt(t, u, d, segment)
    <3>1. segment - 1 \in 0..k /\ segment - 1 = k
      BY <1>2
    <3>2. d[segment - 1] = pos
      BY <2>4, <2>5, <3>1
    <3> QED
      BY <1>1, <1>7, <2>5, <3>2 DEF FitsAt, LiteralFits, e, text
  <2>7. ValuesSoFar(t, u, d, segment, variables')
    <3>1. VariableNames(t, segment) = VariableNames(t, k)
      BY <1>1, <1>2, OneMoreName
    <3>2. ASSUME NEW i \in 1..segment, IsLast(t, i, segment)
          PROVE  variables'[t[i].text] = SubSeq(u, d[i - 1] + 1, d[i])
      <4>1. i # segment
        BY <1>1, <3>2 DEF IsLast
      <4>2. i \in 1..k /\ i \in 0..k /\ i - 1 \in 0..k
        BY <1>2, <4>1
      <4>3. IsLast(t, i, k + 1)
        BY <1>2, <3>2
      <4> HIDE DEF k
      <4>4. IsLast(t, i, k)
        BY <1>2, <4>2, <4>3, LastAmongFewer
      <4>5. variables[t[i].text] = SubSeq(u, c[i - 1] + 1, c[i])
        BY <2>3, <4>2, <4>4 DEF ValuesSoFar
      <4> QED
        BY <2>1, <2>5, <4>2, <4>5
    <3> QED
      BY <2>1, <2>3, <3>1, <3>2 DEF ValuesSoFar
  <2>8. OnlyCut(t, u, segment, e)
    BY <1>5 DEF OnlyCut
  <2> QED
    BY <1>1, <1>2, <2>1, <2>2, <2>3, <2>5, <2>6, <2>7, <2>8, AdvancedInv
<1> QED
  BY <1>6, <1>7

\* Where a variable ends, in a cut that fits at all, is where ValueEnds says; and
\* that is one place.
LEMMA OneValueEnd ==
    ASSUME TemplateInv, matched = "running", segment <= Len(template), template[segment].is_variable,
           NEW c \in Cuts(template, uri), Fits(template, uri, c)
    PROVE  /\ c[segment] \in pos + 1..Len(uri) /\ ValueEnds(c[segment])
           /\ \A e \in pos + 1..Len(uri) : ValueEnds(e) => e = c[segment]
<1> DEFINE t == template
           u == uri
           k == segment - 1
           n == c[segment]
<1>1. /\ t \in Seq(Segments) /\ u \in Seq(Characters) /\ Len(t) \in Nat /\ Len(u) \in Nat /\ segment \in 1..Len(t)
      /\ k \in 0..Len(t) /\ k < Len(t) /\ k + 1 = segment /\ pos \in 0..Len(u)
  BY DEF TemplateInv, TemplateTypes
<1>2. OnlyCut(t, u, k, pos)
  BY DEF TemplateInv
<1>3. n \in 0..Len(u) /\ c[segment - 1] = pos /\ VariableFits(t, u, c, segment)
  <2> HIDE DEF k
  <2>1. c[k + 1] \in 0..Len(u) /\ c[k] = pos /\ FitsAt(t, u, c, k + 1)
    BY <1>1, <1>2, NextFits
  <2> QED
    BY <1>1, <2>1 DEF FitsAt, k
<1>4. n \in pos + 1..Len(u)
  BY <1>1, <1>3 DEF VariableFits
<1>5. CASE segment = Len(t)
  <2>1. n = Len(u)
    BY <1>5 DEF Cuts
  <2> QED
    BY <1>4, <1>5, <2>1 DEF ValueEnds
<1>6. CASE segment < Len(t)
  <2> DEFINE next == t[segment + 1].text
  <2>1. /\ ~t[segment + 1].is_variable
        /\ \A q \in pos..n - 1 : ~OccursAt(next, u, q)
    BY <1>3, <1>6 DEF VariableFits
  <2>2. OccursAt(next, u, n)
    <3>1. segment + 1 \in 1..Len(t) /\ (segment + 1) - 1 = segment
      BY <1>1, <1>6
    <3>2. LiteralFits(t, u, c, segment + 1)
      BY <2>1, <3>1 DEF Fits
    <3>3. OccursAt(next, u, c[(segment + 1) - 1])
      BY <3>2 DEF LiteralFits
    <3> HIDE DEF next
    <3> QED
      BY <3>1, <3>3
  <2> HIDE DEF next, n
  <2>3. segment # Len(t)
    BY <1>1, <1>6
  <2>4. ValueEnds(n)
    BY <2>1, <2>2, <2>3 DEF ValueEnds, next
  <2>5. ASSUME NEW e \in pos + 1..Len(u), ValueEnds(e) PROVE e = n
    <3>1. OccursAt(next, u, e) /\ \A q \in pos..e - 1 : ~OccursAt(next, u, q)
      BY <2>3, <2>5 DEF ValueEnds, next
    <3>2. e \notin pos..n - 1 /\ n \notin pos..e - 1
      BY <2>1, <2>2, <3>1
    <3>3. n \in Nat /\ n >= pos + 1
      BY <1>1, <1>4 DEF n
    <3>4. e \in Nat /\ e >= pos + 1 /\ pos \in Nat
      BY <1>1
    <3> HIDE DEF n
    <3> QED
      BY <3>2, <3>3, <3>4
  <2> QED
    BY <1>4, <2>4, <2>5 DEF n
<1> QED
  BY <1>1, <1>5, <1>6

\* A variable.
LEMMA MatchVariableInv == ASSUME TemplateInv, MatchVariable PROVE TemplateInv'
<1> DEFINE t == template
           u == uri
           k == segment - 1
           name == t[segment].text
<1>1. /\ matched = "running" /\ segment <= Len(t) /\ t[segment].is_variable
      /\ template' = template /\ uri' = uri
  BY DEF MatchVariable
<1>2. /\ t \in Seq(Segments) /\ u \in Seq(Characters) /\ Len(t) \in Nat /\ Len(u) \in Nat /\ segment \in 1..Len(t)
      /\ k \in 0..Len(t) /\ k \in Nat /\ k < Len(t) /\ k + 1 = segment /\ pos \in 0..Len(u)
  BY <1>1 DEF TemplateInv, TemplateTypes
<1>3. CASE (\A e \in pos + 1..Len(uri) : ~ValueEnds(e)) /\ NoMatch
  <2>1. \A c \in Cuts(t, u) : ~Fits(t, u, c)
    BY <1>1, <1>3, OneValueEnd
  <2> QED
    BY <1>1, <1>3, <2>1, RefusedInv
<1>4. ASSUME NEW e \in pos + 1..Len(uri), ValueEnds(e), Assign(name, SubSeq(uri, pos + 1, e)),
             pos' = e, segment' = segment + 1, matched' = matched
      PROVE  TemplateInv'
  <2>1. e \in 0..Len(u) /\ pos < e
    BY <1>2
  <2>2. OnlyCut(t, u, segment, e)
    BY <1>1, <1>4, OneValueEnd DEF OnlyCut
  <2>3. PICK c : CutSoFar(t, u, c, k, pos) /\ ValuesSoFar(t, u, c, k, variables)
    BY <1>1 DEF TemplateInv
  <2> DEFINE d == [c EXCEPT ![segment] = e]
  <2>4. c \in [0..Len(t) -> 0..Len(u)] /\ c[k] = pos
    BY <2>3 DEF CutSoFar
  <2>5. d \in [0..Len(t) -> 0..Len(u)] /\ d[segment] = e /\ \A i \in 0..k : d[i] = c[i]
    BY <1>2, <2>1, <2>4
  <2> HIDE DEF d
  <2>6. d[segment - 1] = pos
    <3>1. segment - 1 \in 0..k /\ segment - 1 = k
      BY <1>2
    <3> QED
      BY <2>4, <2>5, <3>1
  <2>7. FitsAt(t, u, d, segment)
    <3>1. segment < Len(t) => segment # Len(t)
      BY <1>2
    <3>2. segment < Len(t) => /\ ~t[segment + 1].is_variable
                              /\ \A q \in pos..e - 1 : ~OccursAt(t[segment + 1].text, u, q)
      BY <1>4, <3>1 DEF ValueEnds
    <3> QED
      BY <1>1, <2>1, <2>5, <2>6, <3>2 DEF FitsAt, VariableFits
  <2>8. ValuesSoFar(t, u, d, segment, variables')
    <3> DEFINE value == SubSeq(uri, pos + 1, e)
    <3>1. variables' = [v \in DOMAIN variables \cup {name} |-> IF v = name THEN value ELSE variables[v]]
      BY <1>4 DEF Assign
    <3> HIDE DEF value, name
    <3>2. DOMAIN variables' = DOMAIN variables \cup {name}
      BY <3>1
    <3>3. variables'[name] = value
      BY <3>1
    <3>4. \A v \in DOMAIN variables : v # name => variables'[v] = variables[v]
      BY <3>1
    <3>5. VariableNames(t, segment) = VariableNames(t, k) \cup {name}
      BY <1>1, <1>2, OneMoreName DEF name
    <3>6. ASSUME NEW i \in 1..segment, IsLast(t, i, segment)
          PROVE  variables'[t[i].text] = SubSeq(u, d[i - 1] + 1, d[i])
      <4>1. CASE i = segment
        BY <2>5, <2>6, <3>3, <4>1 DEF name, value
      <4>2. CASE i # segment
        <5>1. i \in 1..k /\ i \in 0..k /\ i - 1 \in 0..k
          BY <1>2, <4>2
        <5>2. IsLast(t, i, k + 1)
          BY <1>2, <3>6
        <5> HIDE DEF k
        <5>3. IsLast(t, i, k) /\ t[i].text \in VariableNames(t, k) /\ t[i].text # name
          BY <1>1, <1>2, <5>1, <5>2, LastAmongFewer DEF name
        <5>4. t[i].text \in DOMAIN variables /\ variables[t[i].text] = SubSeq(u, c[i - 1] + 1, c[i])
          BY <2>3, <5>1, <5>3 DEF ValuesSoFar
        <5> QED
          BY <2>5, <3>4, <5>1, <5>3, <5>4
      <4> QED
        BY <4>1, <4>2
    <3> QED
      BY <2>3, <3>2, <3>5, <3>6 DEF ValuesSoFar
  <2> QED
    BY <1>1, <1>2, <1>4, <2>1, <2>2, <2>3, <2>5, <2>7, <2>8, AdvancedInv
<1> QED
  BY <1>1, <1>3, <1>4 DEF MatchVariable

\* The end of the template.
LEMMA MatchEndsInv == ASSUME TemplateInv, MatchEnds PROVE TemplateInv'
<1> DEFINE t == template
           u == uri
<1>1. /\ template' = template /\ uri' = uri /\ segment' = segment /\ pos' = pos /\ variables' = variables
      /\ matched = "running" /\ segment > Len(t) /\ matched' = IF pos = Len(u) THEN "yes" ELSE "no"
  BY DEF MatchEnds
<1>2. TemplateTypes /\ segment - 1 = Len(t)
  BY <1>1 DEF TemplateInv, TemplateTypes
<1>3. TemplateTypes'
  BY <1>1, <1>2 DEF TemplateTypes
<1>4. CASE pos = Len(u)
  <2>1. PICK c : CutSoFar(t, u, c, Len(t), pos) /\ ValuesSoFar(t, u, c, Len(t), variables)
    BY <1>1, <1>2 DEF TemplateInv
  <2>2. c \in Cuts(t, u) /\ Fits(t, u, c)
    BY <1>4, <2>1 DEF CutSoFar, Cuts, Fits, FitsAt
  <2>3. /\ DOMAIN variables = VariableNames(t, Len(t))
        /\ \A i \in 1..Len(t) : IsLast(t, i, Len(t)) => variables[t[i].text] = SubSeq(u, c[i - 1] + 1, c[i])
    BY <2>1 DEF ValuesSoFar
  <2>4. MatchIsExact'
    BY <1>1, <1>4, <2>2, <2>3 DEF MatchIsExact
  <2> QED
    BY <1>1, <1>3, <1>4, <2>4 DEF TemplateInv
<1>5. CASE pos # Len(u)
  <2>1. \A c \in Cuts(t, u) : ~Fits(t, u, c)
    BY <1>1, <1>2, <1>5 DEF TemplateInv, OnlyCut, Cuts
  <2>2. MatchIsExact'
    BY <1>1, <1>5, <2>1 DEF MatchIsExact
  <2> QED
    BY <1>1, <1>3, <1>5, <2>2 DEF TemplateInv
<1> QED
  BY <1>4, <1>5

\* For templates and URIs of any length match_uri_template, which never goes
\* back, succeeds exactly if the URI can be cut up as the template says, and then
\* the variables are the parts.
THEOREM TemplateMatchExact == TemplateSpec => []MatchIsExact
<1>1. TemplateInit => TemplateInv
  BY TemplateInitInv
<1>2. TemplateInv /\ [TemplateNext]_templateVars => TemplateInv'
  <2> SUFFICES ASSUME TemplateInv, [TemplateNext]_templateVars PROVE TemplateInv'
    OBVIOUS
  <2>1. CASE UNCHANGED templateVars
    <3>1. /\ template' = template /\ uri' = uri /\ segment' = segment /\ pos' = pos
          /\ variables' = variables /\ matched' = matched
      BY <2>1 DEF templateVars
    <3> QED
      BY <3>1 DEF TemplateInv, TemplateTypes, MatchIsExact
  <2> QED
    BY <2>1, MatchLiteralInv, MatchVariableInv, MatchEndsInv DEF TemplateNext
<1>3. TemplateInv => MatchIsExact
  BY DEF TemplateInv
<1> QED
  BY <1>1, <1>2, <1>3, PTL DEF TemplateSpec

-----------------------------------------------------------------------------
(* ChunkedDecoder::feed                                                    *)

ChunkTypes ==
    /\ body \in Bodies /\ remaining \in Nat
    /\ unread \in Seq(Bytes) /\ input \in Seq(Bytes) /\ decoded \in Seq(Bytes)

\* How much of the body has left the buffer.
Gone == Len(body.text) - Len(unread) - Len(input)

\* The buffer and what was not read are what follows, in order.
Follows ==
    /\ Len(unread) + Len(input) <= Len(body.text)
    /\ \A i \in 1..Len(unread) : unread[i] = body.text[Len(body.text) - Len(unread) + i]
    /\ \A i \in 1..Len(input) : input[i] = body.text[Gone + i]

\* What was decoded is the beginning of the data.
Begins(s, d) == Len(s) <= Len(d) /\ \A k \in 1..Len(s) : s[k] = d[k]

\* Where the decoder is in a body b, in state c with r bytes of a chunk to come,
\* when g bytes have left the buffer and d were decoded.
Place(b, c, r, g, d) ==
    /\ c = "Size" => \E i \in 1..b.count + 1 : /\ g = b.start[i] /\ d = b.sent[i]
                                               /\ i = b.count + 1 => b.ends # "noBreak"
    /\ c = "Data" => \E i \in 1..b.count : /\ r \in 1..Size(b, i)
                                           /\ g = After(b, i) - r /\ d = b.sent[i + 1] - r
    /\ c = "DataCrlf" => \E i \in 1..b.count : g = After(b, i) /\ d = b.sent[i + 1]
    /\ c = "Trailers" => /\ b.ends = "good" /\ d = Len(b.data)
                         /\ g \in 1..Len(b.text) - 2 /\ b.text[g] = "LF"
    /\ c = "Done" => b.ends = "good" /\ d = Len(b.data)
    /\ c = "Error" => b.ends # "good"

ChunkInv ==
    /\ ChunkTypes /\ Follows /\ Begins(decoded, body.data)
    /\ Place(body, chunkState, remaining, Gone, Len(decoded))

\* What is assumed of a body, in parts.
LEMMA BodyFacts ==
    ASSUME NEW b \in Bodies
    PROVE  /\ b.text \in Seq(Bytes) /\ b.data \in Seq(Bytes) /\ Len(b.text) \in Nat /\ Len(b.data) \in Nat
           /\ b.count \in Nat
           /\ \A i \in 1..b.count + 1 : b.start[i] \in Nat /\ b.first[i] \in Nat /\ b.sent[i] \in Nat
           /\ b.start[1] = 0 /\ b.sent[1] = 0 /\ b.sent[b.count + 1] = Len(b.data)
           /\ b.count = 0 => b.ends # "noBreak"
<1>1. IsBody(b)
  BY BodyAssumption
<1>2. /\ b.text \in Seq(Bytes) /\ b.data \in Seq(Bytes) /\ b.count \in Nat
      /\ b.start[1] = 0 /\ b.sent[1] = 0 /\ b.sent[b.count + 1] = Len(b.data)
      /\ b.count = 0 => b.ends # "noBreak"
  BY <1>1 DEF IsBody
<1>3. /\ b.start \in [1..b.count + 1 -> Nat] /\ b.first \in [1..b.count + 1 -> Nat]
      /\ b.sent \in [1..b.count + 1 -> Nat]
  BY <1>1 DEF IsBody
<1>4. Len(b.text) \in Nat /\ Len(b.data) \in Nat
  BY <1>2
<1>5. \A i \in 1..b.count + 1 : b.start[i] \in Nat /\ b.first[i] \in Nat /\ b.sent[i] \in Nat
  BY <1>3
<1> QED
  BY <1>2, <1>4, <1>5

\* What is assumed of a chunk of it.
LEMMA ChunkFacts ==
    ASSUME NEW b \in Bodies, NEW i \in 1..b.count
    PROVE  /\ i \in 1..b.count + 1 /\ i + 1 \in 1..b.count + 1
           /\ IsSize(SizeLine(b, i)) /\ SizeOf(SizeLine(b, i)) = Size(b, i)
           /\ Size(b, i) \in Nat /\ Size(b, i) > 0 /\ b.sent[i + 1] = b.sent[i] + Size(b, i)
           /\ b.sent[i + 1] <= Len(b.data)
           /\ \A k \in 1..Size(b, i) : b.data[b.sent[i] + k] = b.text[b.first[i] + k]
           /\ After(b, i) \in Nat /\ After(b, i) = b.first[i] + Size(b, i)
           /\ b.start[i + 1] = After(b, i) + 2 /\ After(b, i) + 2 <= Len(b.text)
           /\ BreakAt(b.text, After(b, i) + 1) <=> i < b.count \/ b.ends # "noBreak"
<1>1. IsBody(b)
  BY BodyAssumption
<1>2. IsChunk(b, i) /\ (BreakAt(b.text, After(b, i) + 1) <=> i < b.count \/ b.ends # "noBreak")
  BY <1>1 DEF IsBody
<1>3. i \in 1..b.count + 1 /\ i + 1 \in 1..b.count + 1
  BY BodyFacts
<1>4. b.sent[i] \in Nat /\ b.sent[i + 1] \in Nat /\ b.first[i] \in Nat
  BY <1>3, BodyFacts
<1>5. /\ IsSize(SizeLine(b, i)) /\ SizeOf(SizeLine(b, i)) = Size(b, i) /\ Size(b, i) > 0
      /\ b.sent[i + 1] <= Len(b.data)
      /\ \A k \in 1..Size(b, i) : b.data[b.sent[i] + k] = b.text[b.first[i] + k]
      /\ b.start[i + 1] = After(b, i) + 2 /\ After(b, i) + 2 <= Len(b.text)
  BY <1>2 DEF IsChunk
<1>6. Size(b, i) \in Nat /\ b.sent[i + 1] = b.sent[i] + Size(b, i)
  <2>1. Size(b, i) = b.sent[i + 1] - b.sent[i]
    BY DEF Size
  <2> QED
    BY <1>4, <1>5, <2>1, SMTT(30)
<1>7. After(b, i) \in Nat /\ After(b, i) = b.first[i] + Size(b, i)
  BY <1>4, <1>6 DEF After
<1> QED
  BY <1>2, <1>3, <1>5, <1>6, <1>7

\* Where a size is expected a line follows.
LEMMA SizeLineFollows ==
    ASSUME NEW b \in Bodies, NEW i \in 1..b.count + 1, i = b.count + 1 => b.ends # "noBreak"
    PROVE  EndsLine(b.text, b.start[i], b.first[i])
<1>1. IsBody(b)
  BY BodyAssumption
<1>2. CASE i \in 1..b.count
  <2>1. IsChunk(b, i)
    BY <1>1, <1>2 DEF IsBody
  <2> QED
    BY <2>1 DEF IsChunk
<1>3. CASE i = b.count + 1
  BY <1>1, <1>3 DEF IsBody
<1> QED
  BY <1>2, <1>3, BodyFacts

\* The lengths are what they seem.
LEMMA ChunkLengths ==
    ASSUME ChunkInv
    PROVE  /\ body \in Bodies /\ body.text \in Seq(Bytes) /\ Len(body.text) \in Nat
           /\ Len(unread) \in Nat /\ Len(input) \in Nat /\ Len(decoded) \in Nat
           /\ Gone \in Nat /\ Gone + Len(input) = Len(body.text) - Len(unread)
           /\ Gone + Len(input) <= Len(body.text)
           /\ unread = <<>> => Len(unread) = 0
<1>1. body \in Bodies /\ unread \in Seq(Bytes) /\ input \in Seq(Bytes) /\ decoded \in Seq(Bytes)
  BY DEF ChunkInv, ChunkTypes
<1>2. body.text \in Seq(Bytes) /\ Len(body.text) \in Nat
  BY <1>1, BodyFacts
<1>3. Len(unread) \in Nat /\ Len(input) \in Nat /\ Len(decoded) \in Nat
  BY <1>1
<1>4. Len(unread) + Len(input) <= Len(body.text)
  BY DEF ChunkInv, Follows
<1>5. unread = <<>> => Len(unread) = 0
  BY EmptySeq
<1> QED
  BY <1>1, <1>2, <1>3, <1>4, <1>5 DEF Gone

\* A line break of the buffer is one of the body.
LEMMA SameBreaks ==
    ASSUME ChunkInv, NEW i \in 1..Len(input) - 1
    PROVE  BreakAt(input, i) <=> BreakAt(body.text, Gone + i)
<1>1. i \in 1..Len(input) /\ i + 1 \in 1..Len(input) /\ Gone + (i + 1) = Gone + i + 1
  BY ChunkLengths, SMTT(30)
<1>2. \A k \in 1..Len(input) : input[k] = body.text[Gone + k]
  BY DEF ChunkInv, Follows
<1>3. input[i] = body.text[Gone + i] /\ input[i + 1] = body.text[Gone + i + 1]
  BY <1>1, <1>2
<1> QED
  BY <1>3 DEF BreakAt

\* The first line break of the buffer ends the line that follows.
LEMMA BufferedLine ==
    ASSUME ChunkInv, NEW f \in Nat, EndsLine(body.text, Gone, f),
           NEW nl \in 1..Len(input) - 1, FirstBreak(nl)
    PROVE  /\ Gone + (nl + 1) = f
           /\ SubSeq(input, 1, nl - 1) = SubSeq(body.text, Gone + 1, f - 2)
<1> DEFINE p == f - 1 - Gone
<1>1. /\ Gone \in Nat /\ Len(input) \in Nat /\ Len(body.text) \in Nat
      /\ Gone + Len(input) <= Len(body.text) /\ nl \in Nat /\ nl >= 1 /\ nl <= Len(input) - 1
  BY ChunkLengths
<1>2. /\ Gone + 2 <= f /\ f <= Len(body.text) /\ BreakAt(body.text, f - 1)
      /\ \A i \in Gone + 1..f - 2 : ~BreakAt(body.text, i)
  BY DEF EndsLine
<1>3. p \in Nat /\ p >= 1 /\ Gone + p = f - 1
  BY <1>1, <1>2
<1> HIDE DEF p
<1>4. BreakAt(input, nl) /\ \A i \in 1..nl - 1 : ~BreakAt(input, i)
  BY DEF FirstBreak
<1>5. ~(nl < p)
  <2> SUFFICES ASSUME nl < p PROVE FALSE
    OBVIOUS
  <2>1. Gone + nl \in Gone + 1..f - 2
    BY <1>1, <1>2, <1>3
  <2>2. BreakAt(body.text, Gone + nl)
    BY <1>4, SameBreaks
  <2> QED
    BY <1>2, <2>1, <2>2
<1>6. ~(p < nl)
  <2> SUFFICES ASSUME p < nl PROVE FALSE
    OBVIOUS
  <2>1. p \in 1..nl - 1 /\ p \in 1..Len(input) - 1
    BY <1>1, <1>3
  <2>2. BreakAt(body.text, Gone + p)
    BY <1>2, <1>3
  <2>3. BreakAt(input, p)
    BY <2>1, <2>2, SameBreaks
  <2> QED
    BY <1>4, <2>1, <2>3
<1>7. Gone + (nl + 1) = f /\ Gone + (nl - 1) = f - 2
  BY <1>1, <1>3, <1>5, <1>6
<1>8. SubSeq(input, 1, nl - 1) = SubSeq(body.text, Gone + 1, Gone + (nl - 1))
  <2>1. nl - 1 \in Nat /\ nl - 1 <= Len(input) /\ Gone + (nl - 1) <= Len(body.text)
    BY <1>1
  <2>2. \A i \in 1..nl - 1 : input[i] = body.text[Gone + i]
    <3>1. 1..nl - 1 \subseteq 1..Len(input)
      BY <1>1
    <3> QED
      BY <3>1 DEF ChunkInv, Follows
  <2>3. input \in Seq(Bytes) /\ body.text \in Seq(Bytes)
    BY ChunkLengths DEF ChunkInv, ChunkTypes
  <2> QED
    BY <1>1, <2>1, <2>2, <2>3, SamePiece
<1> QED
  BY <1>7, <1>8

\* n bytes leave the buffer.
LEMMA Consumed ==
    ASSUME ChunkInv, NEW n \in Nat, n <= Len(input),
           input' = SubSeq(input, n + 1, Len(input)), body' = body, unread' = unread
    PROVE  input' \in Seq(Bytes) /\ Follows' /\ Gone' = Gone + n
<1>1. /\ Gone \in Nat /\ Len(input) \in Nat /\ Len(body.text) \in Nat /\ Len(unread) \in Nat
      /\ Gone + Len(input) + Len(unread) = Len(body.text) /\ body.text \in Seq(Bytes)
  BY ChunkLengths
<1>2. input \in Seq(Bytes) /\ unread \in Seq(Bytes)
  BY DEF ChunkInv, ChunkTypes
<1>3. Remains(body.text, unread, input, Gone)
  BY <1>1 DEF ChunkInv, Follows, Remains
<1>4. input' \in Seq(Bytes) /\ Remains(body.text, unread, input', Gone + n)
  BY <1>1, <1>2, <1>3, TakeOff
<1>5. Gone' = Gone + n /\ Len(unread) + Len(input') <= Len(body.text)
  <2>1. Gone' = Len(body.text) - Len(unread) - Len(input')
    BY DEF Gone
  <2>2. Gone + n + Len(input') + Len(unread) = Len(body.text) /\ Len(input') \in Nat
    BY <1>4 DEF Remains
  <2>3. Gone + n \in Nat
    BY <1>1
  <2>4. /\ Len(body.text) - Len(unread) - Len(input') = Gone + n
        /\ Len(unread) + Len(input') <= Len(body.text)
    BY <1>1, <2>2, <2>3, WhatPrecedes, ZenonT(30)
  <2> QED
    BY <2>1, <2>4
<1>6. Follows'
  BY <1>4, <1>5 DEF Follows, Remains
<1> QED
  BY <1>4, <1>5, <1>6

\* At the beginning nothing has been read.
LEMMA ChunkInitInv == ASSUME ChunkInit PROVE ChunkInv
<1>1. PICK b \in Bodies : ChunkStart(b)
  BY DEF ChunkInit
<1>2. /\ b.text \in Seq(Bytes) /\ Len(b.text) \in Nat /\ Len(b.data) \in Nat /\ b.count \in Nat
      /\ b.start[1] = 0 /\ b.sent[1] = 0 /\ (b.count = 0 => b.ends # "noBreak")
  BY BodyFacts
<1>3. /\ body = b /\ unread = b.text /\ input = <<>> /\ decoded = <<>> /\ remaining = 0
      /\ chunkState = "Size" /\ Len(input) = 0 /\ Len(decoded) = 0
  BY <1>1 DEF ChunkStart
<1>4. <<>> \in Seq(Bytes)
  OBVIOUS
<1>5. ChunkTypes
  BY <1>2, <1>3, <1>4 DEF ChunkTypes
<1>6. Gone = 0
  <2>1. Gone = Len(b.text) - Len(b.text) - 0
    BY <1>3 DEF Gone
  <2> QED
    BY <1>2, <2>1
<1>7. Follows /\ Begins(decoded, body.data)
  BY <1>2, <1>3, <1>6 DEF Follows, Begins
<1>8. Place(body, chunkState, remaining, 0, 0)
  <2>1. 1 \in 1..b.count + 1 /\ (1 = b.count + 1 => b.ends # "noBreak")
    BY <1>2
  <2> QED
    BY <1>2, <1>3, <2>1 DEF Place
<1> QED
  BY <1>3, <1>5, <1>6, <1>7, <1>8 DEF ChunkInv

\* A size line is read whole.
LEMMA DecodeSizeInv == ASSUME ChunkInv, DecodeSize PROVE ChunkInv'
<1>1. chunkState = "Size" /\ UNCHANGED <<body, unread, decoded>>
  BY DEF DecodeSize
<1>2. PICK nl \in 1..Len(input) - 1 :
         /\ FirstBreak(nl) /\ input' = SubSeq(input, nl + 2, Len(input))
         /\ \/ ~IsSize(SubSeq(input, 1, nl - 1)) /\ chunkState' = "Error" /\ UNCHANGED remaining
            \/ /\ IsSize(SubSeq(input, 1, nl - 1)) /\ SizeOf(SubSeq(input, 1, nl - 1)) = 0
               /\ chunkState' = "Trailers" /\ UNCHANGED remaining
            \/ /\ IsSize(SubSeq(input, 1, nl - 1)) /\ SizeOf(SubSeq(input, 1, nl - 1)) # 0
               /\ chunkState' = "Data" /\ remaining' = SizeOf(SubSeq(input, 1, nl - 1))
  BY DEF DecodeSize
<1>3. /\ body \in Bodies /\ Gone \in Nat /\ Len(input) \in Nat /\ Len(body.text) \in Nat
      /\ nl \in Nat /\ nl + 1 \in Nat /\ nl + 1 <= Len(input) /\ nl + 1 + 1 = nl + 2
  BY ChunkLengths
<1>4. PICK i \in 1..body.count + 1 : /\ Gone = body.start[i] /\ Len(decoded) = body.sent[i]
                                     /\ i = body.count + 1 => body.ends # "noBreak"
  BY <1>1 DEF ChunkInv, Place
<1>5. body.first[i] \in Nat /\ EndsLine(body.text, Gone, body.first[i])
  BY <1>3, <1>4, BodyFacts, SizeLineFollows
<1>6. /\ Gone + (nl + 1) = body.first[i]
      /\ SubSeq(input, 1, nl - 1) = SubSeq(body.text, Gone + 1, body.first[i] - 2)
  BY <1>2, <1>5, BufferedLine
<1>7. SubSeq(input, 1, nl - 1) = SizeLine(body, i)
  BY <1>4, <1>6 DEF SizeLine
<1>8. input' \in Seq(Bytes) /\ Follows' /\ Gone' = body.first[i]
  <2>1. input' = SubSeq(input, nl + 1 + 1, Len(input))
    BY <1>2, <1>3
  <2> QED
    BY <1>1, <1>3, <1>6, <2>1, Consumed
<1>9. remaining' \in Nat /\ Place(body, chunkState', remaining', body.first[i], Len(decoded))
  <2>1. CASE i \in 1..body.count
    <3>1. /\ IsSize(SizeLine(body, i)) /\ SizeOf(SizeLine(body, i)) = Size(body, i)
          /\ Size(body, i) \in Nat /\ Size(body, i) > 0
      BY <1>3, <2>1, ChunkFacts
    <3>2. chunkState' = "Data" /\ remaining' = Size(body, i)
      <4>1. IsSize(SubSeq(input, 1, nl - 1)) /\ SizeOf(SubSeq(input, 1, nl - 1)) = Size(body, i)
        BY <1>7, <3>1
      <4>2. SizeOf(SubSeq(input, 1, nl - 1)) # 0
        BY <3>1, <4>1
      <4> QED
        BY <1>2, <4>1, <4>2
    <3>3. /\ remaining' \in 1..Size(body, i)
          /\ body.first[i] = After(body, i) - remaining' /\ Len(decoded) = body.sent[i + 1] - remaining'
      <4>1. /\ After(body, i) = body.first[i] + Size(body, i)
            /\ body.sent[i + 1] = body.sent[i] + Size(body, i) /\ body.sent[i] \in Nat
        BY <1>3, <2>1, ChunkFacts, BodyFacts
      <4> QED
        BY <1>4, <1>5, <3>1, <3>2, <4>1
    <3> QED
      BY <2>1, <3>1, <3>2, <3>3 DEF Place
  <2>2. CASE i = body.count + 1
    <3>1. IsBody(body)
      BY <1>3, BodyAssumption
    <3>2. Len(decoded) = Len(body.data)
      BY <1>3, <1>4, <2>2, BodyFacts
    <3>3. CASE body.ends = "badSize"
      <4>1. ~IsSize(SizeLine(body, i))
        BY <2>2, <3>1, <3>3 DEF IsBody
      <4>2. chunkState' = "Error" /\ remaining' = remaining
        BY <1>2, <1>7, <4>1
      <4> QED
        BY <3>3, <4>2 DEF Place, ChunkInv, ChunkTypes
    <3>4. CASE body.ends = "good"
      <4>1. /\ IsSize(SizeLine(body, i)) /\ SizeOf(SizeLine(body, i)) = 0
            /\ body.first[i] + 2 <= Len(body.text)
        BY <2>2, <3>1, <3>4 DEF IsBody
      <4>2. chunkState' = "Trailers" /\ remaining' = remaining
        BY <1>2, <1>7, <4>1
      <4>3. body.first[i] \in 1..Len(body.text) - 2
        BY <1>3, <1>5, <4>1, SMTT(30) DEF EndsLine
      <4>4. body.text[body.first[i]] = "LF"
        <5>1. BreakAt(body.text, body.first[i] - 1) /\ body.first[i] - 1 + 1 = body.first[i]
          BY <1>5 DEF EndsLine
        <5> QED
          BY <5>1 DEF BreakAt
      <4> QED
        BY <3>2, <3>4, <4>2, <4>3, <4>4 DEF Place, ChunkInv, ChunkTypes
    <3>5. body.ends \in {"good", "badSize", "noBreak"} /\ body.ends # "noBreak"
      BY <1>4, <2>2, <3>1 DEF IsBody
    <3> QED
      BY <3>3, <3>4, <3>5
  <2> QED
    BY <1>3, <2>1, <2>2, BodyFacts
<1>10. ChunkTypes'
  BY <1>1, <1>8, <1>9 DEF ChunkInv, ChunkTypes
<1>11. Begins(decoded', body'.data)
  BY <1>1 DEF ChunkInv
<1>12. Place(body', chunkState', remaining', Gone', Len(decoded'))
  BY <1>1, <1>8, <1>9
<1> QED
  BY <1>8, <1>10, <1>11, <1>12 DEF ChunkInv

\* What is taken of the buffer are the next data of the chunk.
LEMMA DecodeDataInv == ASSUME ChunkInv, DecodeData PROVE ChunkInv'
<1> DEFINE take == IF remaining < Len(input) THEN remaining ELSE Len(input)
           piece == SubSeq(input, 1, take)
<1>1. /\ chunkState = "Data" /\ remaining' = remaining - take
      /\ chunkState' = (IF remaining > take THEN "Data" ELSE "DataCrlf")
      /\ body' = body /\ unread' = unread
  BY DEF DecodeData
<1>2. decoded' = decoded \o piece /\ input' = SubSeq(input, take + 1, Len(input))
  BY DEF DecodeData
<1>3. /\ body \in Bodies /\ Gone \in Nat /\ Len(input) \in Nat /\ Len(decoded) \in Nat
      /\ input \in Seq(Bytes) /\ decoded \in Seq(Bytes) /\ remaining \in Nat
  BY ChunkLengths DEF ChunkInv, ChunkTypes
<1>4. take \in Nat /\ take <= Len(input) /\ take <= remaining
  BY <1>3
<1> HIDE DEF take
<1>5. PICK i \in 1..body.count : /\ remaining \in 1..Size(body, i)
                                 /\ Gone = After(body, i) - remaining
                                 /\ Len(decoded) = body.sent[i + 1] - remaining
  BY <1>1 DEF ChunkInv, Place
<1> DEFINE z == Size(body, i)
           s == body.sent[i]
           f == body.first[i]
<1>6. z \in Nat /\ s \in Nat /\ f \in Nat /\ Len(body.data) \in Nat
  BY <1>3, ChunkFacts, BodyFacts
<1>7. s + z <= Len(body.data) /\ body.sent[i + 1] = s + z /\ After(body, i) = f + z
  BY <1>3, ChunkFacts
<1>8. \A k \in 1..z : body.data[s + k] = body.text[f + k]
  BY <1>3, ChunkFacts
<1> HIDE DEF z, s, f
<1>9. remaining \in 1..z /\ Gone = f + z - remaining /\ Len(decoded) = s + z - remaining
  BY <1>5, <1>6, <1>7, SMTT(30) DEF z
<1>10. input' \in Seq(Bytes) /\ Follows' /\ Gone' = Gone + take
  BY <1>1, <1>2, <1>4, Consumed
<1>11. piece \in Seq(Bytes) /\ Len(piece) = take /\ \A k \in 1..take : piece[k] = input[k]
  BY <1>3, <1>4, Cutting
<1> HIDE DEF piece
<1>12. /\ decoded' \in Seq(Bytes) /\ Len(decoded') = Len(decoded) + take
       /\ \A k \in 1..Len(decoded) + take :
             decoded'[k] = IF k <= Len(decoded) THEN decoded[k] ELSE piece[k - Len(decoded)]
  <2>1. /\ decoded' \in Seq(Bytes) /\ Len(decoded') = Len(decoded) + Len(piece)
        /\ \A k \in 1..Len(decoded) + Len(piece) :
              decoded'[k] = IF k <= Len(decoded) THEN decoded[k] ELSE piece[k - Len(decoded)]
    BY <1>2, <1>3, <1>11, ConcatProperties
  <2> QED
    BY <1>11, <2>1
<1>13. ASSUME NEW k \in 1..Len(decoded') PROVE decoded'[k] = body.data[k]
  <2>1. k \in Nat /\ k >= 1 /\ k <= Len(decoded) + take /\ k \in 1..Len(decoded) + take
    BY <1>3, <1>4, <1>12
  <2>2. CASE k <= Len(decoded)
    <3>1. k \in 1..Len(decoded) /\ decoded'[k] = decoded[k]
      BY <1>3, <1>12, <2>1, <2>2
    <3> QED
      BY <3>1 DEF ChunkInv, Begins
  <2>3. CASE ~(k <= Len(decoded))
    <3> DEFINE j == k - Len(decoded)
               m == z - remaining + j
    <3>1. decoded'[k] = piece[j]
      BY <1>12, <2>1, <2>3
    <3>2. j \in 1..take /\ j \in 1..Len(input)
      BY <1>3, <1>4, <2>1, <2>3
    <3>3. m \in 1..z /\ s + m = k /\ f + m = Gone + j
      BY <1>3, <1>4, <1>6, <1>9, <2>1, <2>3
    <3> HIDE DEF j, m
    <3>4. piece[j] = input[j] /\ input[j] = body.text[Gone + j]
      BY <1>11, <3>2 DEF ChunkInv, Follows
    <3>5. body.data[k] = body.text[Gone + j]
      BY <1>8, <3>3
    <3> QED
      BY <3>1, <3>4, <3>5
  <2> QED
    BY <2>2, <2>3
<1>14. Begins(decoded', body'.data)
  <2>1. Len(decoded') <= Len(body.data)
    <3>1. Len(decoded') = Len(decoded) + take
      BY <1>12
    <3> QED
      BY <1>3, <1>4, <1>6, <1>7, <1>9, <3>1, SMTT(30)
  <2> QED
    BY <1>1, <1>13, <2>1 DEF Begins
<1>15. Place(body, chunkState', remaining', Gone + take, Len(decoded) + take)
  <2>1. CASE remaining > take
    <3>1. remaining' \in 1..z /\ Gone + take = f + z - remaining' /\ Len(decoded) + take = s + z - remaining'
      BY <1>1, <1>3, <1>4, <1>6, <1>9, <2>1
    <3>2. chunkState' = "Data"
      BY <1>1, <2>1
    <3>3. Gone + take = After(body, i) - remaining' /\ Len(decoded) + take = body.sent[i + 1] - remaining'
      <4>1. remaining' \in Int
        BY <1>6, <3>1
      <4> QED
        BY <1>6, <1>7, <3>1, <4>1, SMTT(30)
    <3>4. remaining' \in 1..Size(body, i)
      BY <3>1 DEF z
    <3> QED
      BY <3>2, <3>3, <3>4 DEF Place
  <2>2. CASE ~(remaining > take)
    <3>1. Gone + take = f + z /\ Len(decoded) + take = s + z
      BY <1>3, <1>4, <1>6, <1>9, <2>2
    <3>2. chunkState' = "DataCrlf"
      BY <1>1, <2>2
    <3>3. Gone + take = After(body, i) /\ Len(decoded) + take = body.sent[i + 1]
      BY <1>7, <3>1
    <3> QED
      BY <3>2, <3>3 DEF Place
  <2> QED
    BY <2>1, <2>2
<1>16. ChunkTypes'
  <2>1. remaining' \in Nat
    BY <1>1, <1>3, <1>4
  <2>2. unread \in Seq(Bytes)
    BY DEF ChunkInv, ChunkTypes
  <2> QED
    BY <1>1, <1>3, <1>10, <1>12, <2>1, <2>2 DEF ChunkTypes
<1>17. Place(body', chunkState', remaining', Gone', Len(decoded'))
  BY <1>1, <1>10, <1>12, <1>15
<1> QED
  BY <1>10, <1>14, <1>16, <1>17 DEF ChunkInv

\* A chunk ends with a line break unless the body is malformed.
LEMMA DecodeCrlfInv == ASSUME ChunkInv, DecodeCrlf PROVE ChunkInv'
<1>1. /\ chunkState = "DataCrlf" /\ Len(input) >= 2
      /\ \/ BreakAt(input, 1) /\ chunkState' = "Size" /\ input' = SubSeq(input, 3, Len(input))
         \/ ~BreakAt(input, 1) /\ chunkState' = "Error" /\ input' = input
      /\ body' = body /\ unread' = unread /\ remaining' = remaining /\ decoded' = decoded
  BY DEF DecodeCrlf
<1>2. body \in Bodies /\ body.count \in Nat /\ Gone \in Nat /\ Len(input) \in Nat /\ 1 \in 1..Len(input) - 1
  BY <1>1, ChunkLengths, BodyFacts
<1>3. PICK i \in 1..body.count : Gone = After(body, i) /\ Len(decoded) = body.sent[i + 1]
  BY <1>1 DEF ChunkInv, Place
<1>4. BreakAt(input, 1) <=> i < body.count \/ body.ends # "noBreak"
  <2>1. BreakAt(input, 1) <=> BreakAt(body.text, After(body, i) + 1)
    BY <1>2, <1>3, SameBreaks
  <2> QED
    BY <1>2, <2>1, ChunkFacts
<1>5. CASE BreakAt(input, 1)
  <2>1. chunkState' = "Size" /\ input' = SubSeq(input, 2 + 1, Len(input))
    BY <1>1, <1>5
  <2>2. input' \in Seq(Bytes) /\ Follows' /\ Gone' = Gone + 2
    BY <1>1, <1>2, <2>1, Consumed
  <2>3. /\ i + 1 \in 1..body.count + 1 /\ Gone' = body.start[i + 1]
        /\ i + 1 = body.count + 1 => body.ends # "noBreak"
    BY <1>2, <1>3, <1>4, <1>5, <2>2, ChunkFacts, SMTT(30)
  <2>4. Place(body', chunkState', remaining', Gone', Len(decoded'))
    BY <1>1, <1>3, <2>1, <2>3 DEF Place
  <2> QED
    BY <1>1, <2>2, <2>4 DEF ChunkInv, ChunkTypes
<1>6. CASE ~BreakAt(input, 1)
  <2>1. chunkState' = "Error" /\ input' = input /\ body.ends # "good"
    BY <1>1, <1>4, <1>6
  <2>2. Follows' /\ Gone' = Gone
    BY <1>1, <2>1 DEF ChunkInv, Follows, Gone
  <2>3. Place(body', chunkState', remaining', Gone', Len(decoded'))
    BY <1>1, <2>1 DEF Place
  <2> QED
    BY <1>1, <2>1, <2>2, <2>3 DEF ChunkInv, ChunkTypes
<1> QED
  BY <1>5, <1>6

\* The trailers of a well-formed body end with two line breaks.
LEMMA GoodEnd ==
    ASSUME NEW b \in Bodies, b.ends = "good"
    PROVE  BreakAt(b.text, Len(b.text) - 3) /\ BreakAt(b.text, Len(b.text) - 1)
  BY BodyAssumption DEF IsBody

\* Trailers are skipped, and the last line break is left to the empty line.
LEMMA DecodeTrailerInv == ASSUME ChunkInv, DecodeTrailer PROVE ChunkInv'
<1>1. chunkState = "Trailers" /\ body' = body /\ unread' = unread /\ remaining' = remaining /\ decoded' = decoded
  BY DEF DecodeTrailer
<1>2. PICK nl \in 1..Len(input) - 1 :
         /\ FirstBreak(nl) /\ input' = SubSeq(input, nl + 2, Len(input))
         /\ chunkState' = IF nl = 1 THEN "Done" ELSE "Trailers"
  BY DEF DecodeTrailer
<1> DEFINE t == body.text
           e == Gone + (nl + 1)
<1>3. /\ body \in Bodies /\ Gone \in Nat /\ Len(input) \in Nat /\ Len(t) \in Nat
      /\ nl \in Nat /\ nl >= 1 /\ nl + 1 <= Len(input) /\ nl + 1 \in Nat /\ nl + 1 + 1 = nl + 2
      /\ Gone + Len(input) <= Len(t)
  BY ChunkLengths
<1>4. /\ body.ends = "good" /\ Len(decoded) = Len(body.data)
      /\ Gone \in 1..Len(t) - 2 /\ t[Gone] = "LF"
  BY <1>1 DEF ChunkInv, Place
<1>5. input' \in Seq(Bytes) /\ Follows' /\ Gone' = e
  <2>1. input' = SubSeq(input, nl + 1 + 1, Len(input))
    BY <1>2, <1>3
  <2> QED
    BY <1>1, <1>3, <2>1, Consumed
<1>6. Place(body, chunkState', remaining, e, Len(decoded))
  <2>1. CASE nl = 1
    BY <1>2, <1>4, <2>1 DEF Place
  <2>2. CASE nl # 1
    <3>1. t[e] = "LF" /\ BreakAt(t, Gone + nl)
      <4>1. BreakAt(t, Gone + nl)
        BY <1>2, SameBreaks DEF FirstBreak
      <4>2. Gone + nl + 1 = e
        BY <1>3
      <4> QED
        BY <4>1, <4>2 DEF BreakAt
    <3>2. BreakAt(t, Len(t) - 3) /\ BreakAt(t, Len(t) - 1)
      BY <1>3, <1>4, GoodEnd
    <3>3. \A k \in Nat : Gone < k /\ k < Gone + nl => ~BreakAt(t, k)
      <4> SUFFICES ASSUME NEW k \in Nat, Gone < k, k < Gone + nl PROVE ~BreakAt(t, k)
        OBVIOUS
      <4>1. k - Gone \in 1..nl - 1 /\ k - Gone \in 1..Len(input) - 1 /\ Gone + (k - Gone) = k
        BY <1>3
      <4>2. ~BreakAt(input, k - Gone)
        BY <1>2, <4>1 DEF FirstBreak
      <4> QED
        BY <4>1, <4>2, SameBreaks
    <3>4. Gone # Len(t) - 3
      BY <1>4, <3>2 DEF BreakAt
    <3>5. Gone # Len(t) - 2
      <4> SUFFICES ASSUME Gone = Len(t) - 2 PROVE FALSE
        OBVIOUS
      <4>1. Len(t) - 1 \in Nat /\ Gone < Len(t) - 1 /\ Len(t) - 1 < Gone + nl
        BY <1>3, <2>2
      <4> QED
        BY <3>2, <3>3, <4>1
    <3>6. Gone < Len(t) - 3 /\ Len(t) - 3 \in Nat
      BY <1>3, <1>4, <3>4, <3>5
    <3>7. ~(Len(t) - 3 < Gone + nl)
      BY <3>2, <3>3, <3>6
    <3>8. e \in 1..Len(t) - 2
      BY <1>3, <3>6, <3>7
    <3>9. chunkState' = "Trailers"
      BY <1>2, <2>2
    <3> QED
      BY <1>4, <3>1, <3>8, <3>9 DEF Place
  <2> QED
    BY <2>1, <2>2
<1>7. Place(body', chunkState', remaining', Gone', Len(decoded'))
  BY <1>1, <1>5, <1>6
<1> QED
  BY <1>1, <1>5, <1>7 DEF ChunkInv, ChunkTypes

\* What is read is appended to the buffer.
LEMMA ReadBodyInv == ASSUME ChunkInv, NEW n \in 1..Len(unread), ReadBody(n) PROVE ChunkInv'
<1>1. /\ input' = input \o SubSeq(unread, 1, n) /\ unread' = SubSeq(unread, n + 1, Len(unread))
      /\ body' = body /\ chunkState' = chunkState /\ remaining' = remaining /\ decoded' = decoded
  BY DEF ReadBody
<1>2. /\ Gone \in Nat /\ Len(input) \in Nat /\ Len(unread) \in Nat /\ Len(body.text) \in Nat
      /\ Gone + Len(input) + Len(unread) = Len(body.text) /\ body.text \in Seq(Bytes)
  BY ChunkLengths
<1>3. input \in Seq(Bytes) /\ unread \in Seq(Bytes) /\ n \in Nat /\ n <= Len(unread)
  BY <1>2 DEF ChunkInv, ChunkTypes
<1>4. Remains(body.text, unread, input, Gone)
  BY <1>2 DEF ChunkInv, Follows, Remains
<1>5. unread' \in Seq(Bytes) /\ input' \in Seq(Bytes) /\ Remains(body.text, unread', input', Gone)
  BY <1>1, <1>2, <1>3, <1>4, ReadOn
<1>6. Gone' = Gone /\ Len(unread') + Len(input') <= Len(body.text)
  <2>1. Gone' = Len(body.text) - Len(unread') - Len(input')
    BY <1>1 DEF Gone
  <2>2. Gone + Len(input') + Len(unread') = Len(body.text) /\ Len(input') \in Nat /\ Len(unread') \in Nat
    BY <1>5 DEF Remains
  <2>3. Len(body.text) - Len(unread') - Len(input') = Gone /\ Len(unread') + Len(input') <= Len(body.text)
    BY <1>2, <2>2, WhatPrecedes
  <2> QED
    BY <2>1, <2>3
<1>7. Follows'
  BY <1>1, <1>5, <1>6 DEF Follows, Remains
<1>8. Place(body', chunkState', remaining', Gone', Len(decoded')) /\ Begins(decoded', body'.data)
  BY <1>1, <1>6 DEF ChunkInv
<1>9. ChunkTypes'
  <2>1. body \in Bodies /\ remaining \in Nat /\ decoded \in Seq(Bytes)
    BY DEF ChunkInv, ChunkTypes
  <2> QED
    BY <1>1, <1>5, <2>1 DEF ChunkTypes
<1> QED
  BY <1>7, <1>8, <1>9 DEF ChunkInv

\* A body is lost without a change of what was decoded.
LEMMA ChunkInvHolds == ChunkSpec => []ChunkInv
<1>1. ChunkInit => ChunkInv
  BY ChunkInitInv
<1>2. ASSUME ChunkInv, [ChunkNext]_chunkVars PROVE ChunkInv'
  <2>1. CASE DecodeSize
    BY <1>2, <2>1, DecodeSizeInv
  <2>2. CASE DecodeData
    BY <1>2, <2>2, DecodeDataInv
  <2>3. CASE DecodeCrlf
    BY <1>2, <2>3, DecodeCrlfInv
  <2>4. CASE DecodeTrailer
    BY <1>2, <2>4, DecodeTrailerInv
  <2>5. CASE \E n \in 1..Len(unread) : ReadBody(n)
    BY <1>2, <2>5, ReadBodyInv
  <2>6. CASE LoseBody
    <3>1. /\ chunkState' = "Lost" /\ UNCHANGED <<body, unread, input, remaining, decoded>>
      BY <2>6 DEF LoseBody
    <3>2. Follows' /\ Gone' = Gone
      BY <1>2, <3>1 DEF ChunkInv, Follows, Gone
    <3>3. Place(body', chunkState', remaining', Gone', Len(decoded'))
      BY <3>1 DEF Place
    <3> QED
      BY <1>2, <3>1, <3>2, <3>3 DEF ChunkInv, ChunkTypes
  <2>7. CASE UNCHANGED chunkVars
    <3>1. UNCHANGED <<body, unread, input, chunkState, remaining, decoded>>
      BY <2>7 DEF chunkVars
    <3>2. Follows' /\ Gone' = Gone
      BY <1>2, <3>1 DEF ChunkInv, Follows, Gone
    <3> QED
      BY <1>2, <3>1, <3>2 DEF ChunkInv, ChunkTypes
  <2> QED
    BY <1>2, <2>1, <2>2, <2>3, <2>4, <2>5, <2>6, <2>7 DEF ChunkNext
<1> QED
  BY <1>1, <1>2, PTL DEF ChunkSpec

\* When everything was read, a line break of the body is in the buffer.
LEMMA BreakIsThere ==
    ASSUME ChunkInv, unread = <<>>, NEW k \in Nat, Gone < k, k < Len(body.text), BreakAt(body.text, k)
    PROVE  ~NoBreak
<1>1. k - Gone \in 1..Len(input) - 1 /\ Gone + (k - Gone) = k
  BY ChunkLengths
<1>2. BreakAt(input, k - Gone)
  BY <1>1, SameBreaks
<1> QED
  BY <1>1, <1>2 DEF NoBreak

\* The decoder does not ask for more when everything was read.
LEMMA NothingMissing == ASSUME ChunkInv, unread = <<>> PROVE ~NeedMore
<1>1. /\ body \in Bodies /\ Gone \in Nat /\ Len(input) \in Nat /\ Len(body.text) \in Nat
      /\ Gone + Len(input) = Len(body.text) /\ (input = <<>> => Len(input) = 0)
  BY ChunkLengths
<1>2. ASSUME chunkState = "Size" PROVE ~NoBreak
  <2>1. PICK i \in 1..body.count + 1 : /\ Gone = body.start[i]
                                       /\ i = body.count + 1 => body.ends # "noBreak"
    BY <1>2 DEF ChunkInv, Place
  <2>2. body.first[i] \in Nat /\ EndsLine(body.text, Gone, body.first[i])
    BY <1>1, <2>1, BodyFacts, SizeLineFollows
  <2>3. /\ body.first[i] - 1 \in Nat /\ Gone < body.first[i] - 1 /\ body.first[i] - 1 < Len(body.text)
        /\ BreakAt(body.text, body.first[i] - 1)
    BY <1>1, <2>2 DEF EndsLine
  <2> QED
    BY <2>3, BreakIsThere
<1>3. ASSUME chunkState = "Trailers" PROVE ~NoBreak
  <2>1. body.ends = "good" /\ Gone \in 1..Len(body.text) - 2
    BY <1>3 DEF ChunkInv, Place
  <2>2. BreakAt(body.text, Len(body.text) - 1)
    BY <1>1, <2>1, GoodEnd
  <2>3. Len(body.text) - 1 \in Nat /\ Gone < Len(body.text) - 1 /\ Len(body.text) - 1 < Len(body.text)
    BY <1>1, <2>1
  <2> QED
    BY <2>2, <2>3, BreakIsThere
<1>4. ASSUME chunkState = "Data" PROVE input # <<>>
  <2>1. PICK i \in 1..body.count : remaining \in 1..Size(body, i) /\ Gone = After(body, i) - remaining
    BY <1>4 DEF ChunkInv, Place
  <2>2. After(body, i) \in Nat /\ After(body, i) + 2 <= Len(body.text) /\ Size(body, i) \in Nat
    BY <1>1, ChunkFacts
  <2> QED
    BY <1>1, <2>1, <2>2
<1>5. ASSUME chunkState = "DataCrlf" PROVE ~(Len(input) < 2)
  <2>1. PICK i \in 1..body.count : Gone = After(body, i)
    BY <1>5 DEF ChunkInv, Place
  <2>2. After(body, i) + 2 <= Len(body.text)
    BY <1>1, ChunkFacts
  <2> QED
    BY <1>1, <2>1, <2>2
<1> QED
  BY <1>2, <1>3, <1>4, <1>5 DEF NeedMore

\* However post_payload's reads cut a chunked body, for bodies and chunks of any
\* length ChunkedDecoder::feed gives back the data that were sent, ends only a
\* body that is well-formed and whole, refuses only one that is malformed, and
\* never waits for more than was sent.
THEOREM BodyArrivesWhole == ChunkSpec => []BodyIsWhole
<1>1. ASSUME ChunkInv PROVE BodyIsWhole
  <2>1. Len(decoded) <= Len(body.data) /\ \A k \in 1..Len(decoded) : decoded[k] = body.data[k]
    BY <1>1 DEF ChunkInv, Begins
  <2>2. ASSUME chunkState = "Done" PROVE body.ends = "good" /\ decoded = body.data
    <3>1. body.ends = "good" /\ Len(decoded) = Len(body.data)
      BY <1>1, <2>2 DEF ChunkInv, Place
    <3>2. decoded \in Seq(Bytes) /\ body.data \in Seq(Bytes)
      BY <1>1, BodyFacts DEF ChunkInv, ChunkTypes
    <3>3. \A k \in 1..Len(decoded) : decoded[k] = body.data[k]
      BY <2>1
    <3>4. decoded = body.data
      BY <3>1, <3>2, <3>3, SeqEqual
    <3> QED
      BY <3>1, <3>4
  <2>3. chunkState = "Error" => body.ends # "good"
    BY <1>1 DEF ChunkInv, Place
  <2>4. unread = <<>> => ~NeedMore
    BY <1>1, NothingMissing
  <2> QED
    BY <2>1, <2>2, <2>3, <2>4 DEF BodyIsWhole
<1> QED
  BY <1>1, ChunkInvHolds, PTL
=============================================================================
