----------------------------- MODULE NameFilter -----------------------------
(* The name filters of list_objects (src/tools.rs): how a filter argument   *)
(* becomes a LIKE pattern, the pattern an E'' literal, and what PostgreSQL  *)
(* makes of both. A name is a sequence of characters; besides letters there *)
(* are the two wildcards, the backslash and the quote.                      *)
EXTENDS Naturals, Sequences, SequencesExt

CONSTANT Fold    \* the lower-case form of each character that has another one
\* The characters that LIKE or a literal reads otherwise are in no case; nor is a lower-case form.
ASSUME FoldAssumption ==
    \A ch \in DOMAIN Fold : {ch, Fold[ch]} \cap {"\\", "%", "_", "'"} = {} /\ Fold[ch] \notin DOMAIN Fold

\* A list of characters, or of anything.
IsList(s) == s \in Seq(Range(s))
FoldChar(ch) == IF ch \in DOMAIN Fold THEN Fold[ch] ELSE ch
Folded(name) == [i \in DOMAIN name |-> FoldChar(name[i])]

Wildcards == {"%", "_"}
Quoted(value, special) ==
    FlattenSeq([i \in DOMAIN value |->
                    IF value[i] \in special THEN <<"\\", value[i]>> ELSE <<value[i]>>])

\* Mutant: the underscore is not escaped.
EscapeAnyOnly(term) == Quoted(term, {"\\", "%"})
EscapeLikePattern(term) == Quoted(term, {"\\"} \cup Wildcards)
SqlQuoteELiteral(value) == Quoted(value, {"\\", "'"})

\* PostgreSQL reads an E'' literal: a backslash makes the next character plain, a bare quote ends it.
ReadELiteral(text) ==
    LET read[i \in 1..Len(text) + 2] ==
            IF i > Len(text) \/ text[i] = "'" THEN <<>>
            ELSE IF text[i] = "\\" /\ i < Len(text) THEN <<text[i + 1]>> \o read[i + 2]
            ELSE <<text[i]>> \o read[i + 1]
    IN  read[1]

\* PostgreSQL: name ILIKE pattern ESCAPE '\'. For each place of the pattern, the places of the
\* name from where on they match.
ILike(name, pattern) ==
    LET n == Folded(name)
        p == Folded(pattern)
        match[i \in 1..Len(p) + 2] ==
            LET after == IF i > Len(p) THEN {} ELSE match[i + 1]
                escaped == IF i < Len(p) THEN match[i + 2] ELSE {}
            IN  IF i > Len(p) THEN {Len(n) + 1}
                ELSE IF p[i] = "%" THEN {j \in 1..Len(n) + 1 : \E k \in after : j <= k}
                ELSE IF p[i] = "\\" THEN {j \in 1..Len(n) : j + 1 \in escaped /\ p[i + 1] = n[j]}
                ELSE {j \in 1..Len(n) : j + 1 \in after /\ p[i] \in {"_", n[j]}}
    IN  1 \in match[1]
ILikeLiteral(name, pattern) == ILike(name, ReadELiteral(SqlQuoteELiteral(pattern)))

\* contains_unescaped_wildcard and ensure_no_dangling_like_escape read a value alike.
LikeScan(value) ==
    FoldLeft(LAMBDA s, ch : IF s.escaped THEN [s EXCEPT !.escaped = FALSE]
                            ELSE [escaped |-> ch = "\\", wild |-> s.wild \/ ch \in Wildcards],
             [escaped |-> FALSE, wild |-> FALSE], value)

ContainsPattern(value) == <<"%">> \o EscapeLikePattern(value) \o <<"%">>
PrefixPattern(value) == EscapeLikePattern(value) \o <<"%">>

\* compile_discovery_name_filter: "filters" has the arguments that are not blank.
FilterRefused(filters) ==
    \/ \E a, b \in DOMAIN filters : a # b
    \/ \E a \in DOMAIN filters \cap {"name_pattern", "name_like"} : LikeScan(filters[a]).escaped
Mode(arg, value) ==
    CASE arg = "name_exact" -> "exact" [] arg = "name_prefix" -> "prefix"
      [] arg = "name_contains" -> "contains" [] arg = "name_pattern" -> "pattern"
      [] arg = "name_like" -> IF LikeScan(value).wild THEN "pattern" ELSE "contains"
PatternOf(mode, value) ==
    CASE mode = "exact" -> EscapeLikePattern(value) [] mode = "prefix" -> PrefixPattern(value)
      [] mode = "contains" -> ContainsPattern(value) [] mode = "pattern" -> value
Compiled(filters) ==
    IF DOMAIN filters = {} THEN [mode |-> "none", pattern |-> <<>>]
    ELSE LET arg == CHOOSE a \in DOMAIN filters : TRUE
             mode == Mode(arg, filters[arg])
         IN  [mode |-> mode, pattern |-> PatternOf(mode, filters[arg])]
Passes(name, filter) == filter.mode = "none" \/ ILikeLiteral(name, filter.pattern)

\* What a filter is for, said without LIKE: letters match in either case.
Includes(name, value) ==
    \E i \in 0..Len(name) : IsPrefix(Folded(value), SubSeq(Folded(name), i + 1, Len(name)))
Means(mode, value, name) ==
    CASE mode = "exact" -> Folded(name) = Folded(value)
      [] mode = "prefix" -> IsPrefix(Folded(value), Folded(name))
      [] mode = "contains" -> Includes(name, value)
=============================================================================
