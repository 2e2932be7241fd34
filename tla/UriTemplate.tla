---------------------------- MODULE UriTemplate ----------------------------
(***************************************************************************)
(* match_uri_template, an iteration of its loop per step: a URI is matched *)
(* against the segments that tokenize made of a template, from left to     *)
(* right and without going back.                                           *)
(***************************************************************************)
EXTENDS Integers, Sequences

CONSTANTS
    Characters,
    Templates,    \* templates as tokenize leaves them: literals and variables
    Uris

Segments == [is_variable : BOOLEAN, text : Seq(Characters)]

\* tokenize makes no empty segment.
ASSUME TemplateAssumption ==
    /\ Uris \subseteq Seq(Characters)
    /\ Templates \subseteq Seq(Segments)
    /\ \A t \in Templates : \A i \in 1..Len(t) : t[i].text # <<>>

VARIABLES
    template,     \* segments
    uri,
    segment,      \* s, counted from 1
    pos,          \* how much of the URI is used up
    variables,    \* the values so far, by name
    matched       \* "running", or the result: "yes" or "no"

templateVars == <<template, uri, segment, pos, variables, matched>>

TemplateStart(t, u) ==
    /\ template = t /\ uri = u
    /\ segment = 1 /\ pos = 0 /\ variables = <<>> /\ matched = "running"

TemplateInit == \E t \in Templates, u \in Uris : TemplateStart(t, u)

\* u.compare(p, text.size(), text) == 0
OccursAt(text, u, p) == p + Len(text) <= Len(u) /\ \A i \in 1..Len(text) : u[p + i] = text[i]

NoMatch == matched' = "no" /\ UNCHANGED <<segment, pos, variables>>

MatchLiteral ==
    /\ matched = "running" /\ segment <= Len(template) /\ ~template[segment].is_variable
    /\ LET text == template[segment].text IN
       IF OccursAt(text, uri, pos)
       THEN pos' = pos + Len(text) /\ segment' = segment + 1 /\ UNCHANGED <<variables, matched>>
       ELSE NoMatch
    /\ UNCHANGED <<template, uri>>

\* value_end: the end of the URI for the last segment, and otherwise where the
\* next literal occurs first; after a variable there must be a literal.
ValueEnds(e) ==
    IF segment = Len(template) THEN e = Len(uri)
    ELSE LET literal == template[segment + 1] IN
         /\ ~literal.is_variable
         /\ OccursAt(literal.text, uri, e)
         /\ \A q \in pos..e - 1 : ~OccursAt(literal.text, uri, q)

\* variables[name] = value
Assign(name, value) ==
    variables' = [v \in DOMAIN variables \cup {name} |-> IF v = name THEN value ELSE variables[v]]

\* Mutant: a variable may be empty.
MatchVariableEmpty ==
    /\ matched = "running" /\ segment <= Len(template) /\ template[segment].is_variable
    /\ \/ \E e \in pos..Len(uri) :
             /\ ValueEnds(e)
             /\ Assign(template[segment].text, SubSeq(uri, pos + 1, e))
             /\ pos' = e /\ segment' = segment + 1 /\ UNCHANGED matched
       \/ (\A e \in pos..Len(uri) : ~ValueEnds(e)) /\ NoMatch
    /\ UNCHANGED <<template, uri>>

\* A variable takes at least one character.
MatchVariable ==
    /\ matched = "running" /\ segment <= Len(template) /\ template[segment].is_variable
    /\ \/ \E e \in pos + 1..Len(uri) :
             /\ ValueEnds(e)
             /\ Assign(template[segment].text, SubSeq(uri, pos + 1, e))
             /\ pos' = e /\ segment' = segment + 1 /\ UNCHANGED matched
       \/ (\A e \in pos + 1..Len(uri) : ~ValueEnds(e)) /\ NoMatch
    /\ UNCHANGED <<template, uri>>

\* The template is used up; so must the URI be.
MatchEnds ==
    /\ matched = "running" /\ segment > Len(template)
    /\ matched' = IF pos = Len(uri) THEN "yes" ELSE "no"
    /\ UNCHANGED <<template, uri, segment, pos, variables>>

TemplateNext == MatchLiteral \/ MatchVariable \/ MatchEnds

TemplateSpec == TemplateInit /\ [][TemplateNext]_templateVars

-----------------------------------------------------------------------------
(* Properties                                                              *)

\* A way to cut a URI into one part per segment; part i ends at cut[i].
Cuts(t, u) == {cut \in [0..Len(t) -> 0..Len(u)] : cut[0] = 0 /\ cut[Len(t)] = Len(u)}

\* A literal is the part that stands for it.
LiteralFits(t, u, cut, i) ==
    cut[i] = cut[i - 1] + Len(t[i].text) /\ OccursAt(t[i].text, u, cut[i - 1])

\* A variable stands for a part that is not empty and reaches to the next place
\* where the literal after it occurs; two variables in a row stand for nothing.
VariableFits(t, u, cut, i) ==
    /\ cut[i - 1] < cut[i]
    /\ i < Len(t) => /\ ~t[i + 1].is_variable
                     /\ \A q \in cut[i - 1]..cut[i] - 1 : ~OccursAt(t[i + 1].text, u, q)

Fits(t, u, cut) ==
    \A i \in 1..Len(t) : IF t[i].is_variable THEN VariableFits(t, u, cut, i) ELSE LiteralFits(t, u, cut, i)

\* The variables of a template with their values; the last one of a name counts.
IsLast(t, i, n) == t[i].is_variable /\ \A j \in i + 1..n : t[j].is_variable => t[j].text # t[i].text
VariableNames(t, n) == {t[i].text : i \in {j \in 1..n : t[j].is_variable}}

\* match_uri_template succeeds for exactly the URIs that can be cut up in this
\* way, although it never goes back, and then the variables are the parts.
MatchIsExact ==
    /\ matched = "yes" => \E cut \in Cuts(template, uri) :
          /\ Fits(template, uri, cut)
          /\ DOMAIN variables = VariableNames(template, Len(template))
          /\ \A i \in 1..Len(template) : IsLast(template, i, Len(template)) =>
                variables[template[i].text] = SubSeq(uri, cut[i - 1] + 1, cut[i])
    /\ matched = "no" => \A cut \in Cuts(template, uri) : ~Fits(template, uri, cut)
=============================================================================
