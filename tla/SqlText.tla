------------------------------ MODULE SqlText ------------------------------
(* The scanners of SQL text in src/tools/query.rs, src/tools.rs and        *)
(* src/db.rs: which part of a text is code, where a statement ends, what   *)
(* its leading keyword is, how a SELECT is wrapped for one page, and how   *)
(* latest_snapshot(...) is expanded.                                       *)
(*                                                                         *)
(* A text is a sequence of symbols. A word that a scanner treats as a      *)
(* whole ("from", "select") is one symbol, any other letter is "x"; a      *)
(* whole argument of the helper ("source => t") is one symbol too. Blanks  *)
(* and some marks go by names: sp, nl, cr, dq, semi and comma.             *)
EXTENDS Integers, Sequences, FiniteSets, SequencesExt

CONSTANTS
    Pieces,     \* what a text is put together from, a set of sequences of symbols
    Arguments,  \* ... and what may be put inside a call of the helper
    MaxPieces,  \* the longest text
    Tables      \* the tables the helper is tried on, sets of rows [part, ts, tie, json]

Null == -1

ASSUME PiecesAssumption == Pieces \cup Arguments \subseteq Seq(STRING)

\* What is put into a text besides them; a fact of TLA+ that no prover here knows.
ASSUME SymbolsAssumption == {"select", "from", "(", ")", "x", "sp"} \subseteq STRING

\* A time is a number, or Null; to_jsonb(row) tells any two rows apart.
ASSUME TablesAssumption ==
    \A rows \in Tables :
        /\ IsFiniteSet(rows)
        /\ \A r \in rows : r.ts \in Nat \cup {Null} /\ r.tie \in Int /\ r.json \in Int
        /\ \A r, q \in rows : r.json = q.json => r = q

VARIABLES
    text,   \* the SQL text of a request
    pieces  \* how many pieces it was put together from

textVars == <<text, pieces>>

\* A text, symbol by symbol.
Texts == Seq(STRING)

Newlines == {"nl", "cr"}
Blanks == {"sp"} \cup Newlines

\* The verbs a statement that begins WITH may turn out to be.
ReadVerbs == {"select", "values", "table"}
WriteVerbs == {"delete"}

\* is_identifier_token_byte: the symbols that words are made of.
Letters == {"x", "e", "from", "with", "latest_snapshot"} \cup ReadVerbs \cup WriteVerbs
Digits == {"1"}
Words == Letters \cup Digits

-----------------------------------------------------------------------------
(* Lexical state                                                           *)

\* What a scanner knows: whether its block comments nest, whether it knows dollar quotes
\* and whether a backslash escapes in an E'' string. All know '', "" and --.
Lexers == [nested : BOOLEAN, dollar : BOOLEAN, escape : BOOLEAN]
HelperLexer == [nested |-> FALSE, dollar |-> TRUE, escape |-> FALSE]
ArgumentLexer == [nested |-> FALSE, dollar |-> FALSE, escape |-> FALSE]
KeywordLexer == [nested |-> FALSE, dollar |-> FALSE, escape |-> FALSE]
StripLexer == [nested |-> TRUE, dollar |-> TRUE, escape |-> FALSE]
\* Mutant: dollar quotes are read as code.
NoDollarLexer == [nested |-> TRUE, dollar |-> FALSE, escape |-> TRUE]

DelimiterLexer == [nested |-> TRUE, dollar |-> TRUE, escape |-> TRUE]
SplitLexer == [nested |-> FALSE, dollar |-> TRUE, escape |-> FALSE]

\* The state of a scan after a symbol: what that symbol is, where the next one is, and how many
\* of the next ones are already taken.
InCode == [is |-> "code", mode |-> "code", skip |-> 0, depth |-> 0, tag |-> <<>>, escapes |-> FALSE]

Pair(t, i, a, b) == i < Len(t) /\ t[i] = a /\ t[i + 1] = b

\* parse_dollar_quote_open: the delimiter that opens at i, <<>> if none does.
DollarTag(t, i) ==
    LET ends == {j \in (i + 1)..Len(t) : t[j] = "$" /\ \A k \in (i + 1)..(j - 1) : t[k] \in Words}
    IN  IF t[i] = "$" /\ ends # {} THEN SubSeq(t, i, CHOOSE j \in ends : TRUE) ELSE <<>>

\* is_dollar_quote_end.
DollarEnds(t, i, tag) == i + Len(tag) - 1 <= Len(t) /\ SubSeq(t, i, i + Len(tag) - 1) = tag

\* single_quote_uses_backslash_escape: an E before the quote that ends no longer word.
BackslashEscapes(t, i) == i > 1 /\ t[i - 1] = "e" /\ (i > 2 => t[i - 2] \notin Words \cup {"$"})

StepInCode(lexer, t, i) ==
    CASE t[i] = "'" -> [InCode EXCEPT !.is = "quote", !.mode = "single",
                                      !.escapes = lexer.escape /\ BackslashEscapes(t, i)]
      [] t[i] = "dq" -> [InCode EXCEPT !.is = "quote", !.mode = "double"]
      [] Pair(t, i, "-", "-") -> [InCode EXCEPT !.is = "comment", !.mode = "line", !.skip = 1]
      [] Pair(t, i, "/", "*") ->
            [InCode EXCEPT !.is = "comment", !.mode = "block", !.depth = 1, !.skip = 1]
      [] lexer.dollar /\ DollarTag(t, i) # <<>> ->
            [InCode EXCEPT !.is = "quote", !.mode = "dollar", !.tag = DollarTag(t, i),
                           !.skip = Len(DollarTag(t, i)) - 1]
      [] OTHER -> InCode

StepInQuote(t, i, s, quote) ==
    CASE s.escapes /\ t[i] = "\\" /\ i < Len(t) -> [s EXCEPT !.skip = 1]
      [] Pair(t, i, quote, quote) -> [s EXCEPT !.skip = 1]
      [] t[i] = quote /\ ~Pair(t, i, quote, quote) -> [InCode EXCEPT !.is = "quote"]
      [] OTHER -> s

StepInBlock(lexer, t, i, s) ==
    LET inner == lexer.nested /\ s.depth > 1
    IN  CASE lexer.nested /\ Pair(t, i, "/", "*") -> [s EXCEPT !.depth = @ + 1, !.skip = 1]
          [] Pair(t, i, "*", "/") /\ inner -> [s EXCEPT !.depth = @ - 1, !.skip = 1]
          [] Pair(t, i, "*", "/") /\ ~inner -> [InCode EXCEPT !.is = "comment", !.skip = 1]
          [] OTHER -> s

\* The state after symbol i.
LexStep(lexer, t, i, s) ==
    CASE s.skip > 0 -> [s EXCEPT !.skip = @ - 1]
      [] s.skip = 0 /\ s.mode = "code" -> StepInCode(lexer, t, i)
      [] s.skip = 0 /\ s.mode = "single" -> StepInQuote(t, i, s, "'")
      [] s.skip = 0 /\ s.mode = "double" -> StepInQuote(t, i, s, "dq")
      [] s.skip = 0 /\ s.mode = "line" -> IF t[i] = "nl" THEN InCode ELSE s
      [] s.skip = 0 /\ s.mode = "block" -> StepInBlock(lexer, t, i, s)
      [] s.skip = 0 /\ s.mode = "dollar" ->
            IF DollarEnds(t, i, s.tag)
            THEN [InCode EXCEPT !.is = "quote", !.skip = Len(s.tag) - 1]
            ELSE s

\* The state at the end of a scan.
EndState(states) == IF states = <<>> THEN InCode ELSE Last(states)

\* The scan of a text: for each symbol the state after it.
Scan(lexer, t) ==
    LET scanned[n \in 0..Len(t)] ==    \* the scan of the first n symbols
            IF n = 0 THEN <<>>
            ELSE LET states == scanned[n - 1]
                 IN  Append(states, LexStep(lexer, t, n, EndState(states)))
    IN  scanned[Len(t)]

CodeIn(t, s) == {i \in 1..Len(t) : s[i].is = "code"}
CodeOf(lexer, t) == LET s == Scan(lexer, t) IN CodeIn(t, s)

\* A scan that ends in a quote or in a block comment.
Unterminated(lexer, t) == EndState(Scan(lexer, t)).mode \notin {"code", "line"}

Count(s, t, code, i) == Cardinality({j \in code : j < i /\ t[j] = s})
Balanced(t, code, i) == Count("(", t, code, i) = Count(")", t, code, i)

-----------------------------------------------------------------------------
(* Statements                                                              *)

Trim(t) ==
    LET ink == {i \in 1..Len(t) : t[i] \notin Blanks}
    IN  IF ink = {} THEN <<>> ELSE SubSeq(t, Min(ink), Max(ink))

\* canonicalize_sql: without blanks around and semicolons at the end.
Canonical(t) ==
    LET u == Trim(t)
        kept == {i \in 1..Len(u) : u[i] # "semi"}
    IN  IF kept = {} THEN <<>> ELSE Trim(SubSeq(u, 1, Max(kept)))

\* paren_depth, which saturates at 0: how many parentheses are open before i.
SaturatingDepth(t, code, i) ==
    LET depth[n \in 0..Len(t)] ==  \* after the first n symbols
            IF n = 0 THEN 0
            ELSE LET before == depth[n - 1]
                 IN  CASE n \in code /\ t[n] = "(" -> before + 1
                       [] n \in code /\ t[n] = ")" /\ before > 0 -> before - 1
                       [] OTHER -> before
    IN  depth[i - 1]

\* has_top_level_sql_after_delimiter: something other than blanks, semicolons and comments
\* follows. A quote that opens counts, so every symbol outside of comments does.
SqlFollows(t, i) ==
    LET rest == SubSeq(t, i + 1, Len(t))
        s == Scan(DelimiterLexer, rest)
    IN  \E j \in 1..Len(rest) : s[j].is # "comment" /\ rest[j] \notin Blanks \cup {"semi"}

\* contains_top_level_statement_delimiter: only the first delimiter is looked at.
ContainsDelimiter(sql) ==
    LET t == Canonical(sql)
        code == CodeOf(DelimiterLexer, t)
        ends == {i \in code : t[i] = "semi" /\ SaturatingDepth(t, code, i) = 0}
    IN  ends # {} /\ SqlFollows(t, Min(ends))

\* split_sql_statements: signed depth, flat comments, statements without blanks around.
SplitStatements(t) ==
    LET code == CodeOf(SplitLexer, t)
        ends == {i \in code : t[i] = "semi" /\ Balanced(t, code, i)}
        starts == {0} \cup ends
        end(a) == Min({i \in ends : i > a} \cup {Len(t) + 1})
    IN  {u \in {[at |-> a, sql |-> Trim(SubSeq(t, a + 1, end(a) - 1))] : a \in starts} : u.sql # <<>>}

\* extract_last_statement, whose columns type the result.
LastStatement(t) ==
    LET all == SplitStatements(t)
    IN  IF all = {} THEN <<>> ELSE (CHOOSE u \in all : \A v \in all : v.at <= u.at).sql

-----------------------------------------------------------------------------
(* Keywords                                                                *)

\* top_level_keyword_tokens: the words outside of quotes, comments and parentheses.
\* A word begins with a letter and goes on with letters and digits.
KeywordTokens(sql) ==
    LET t == Canonical(sql)
        code == CodeOf(KeywordLexer, t)
        starts == {i \in code : t[i] \in Letters /\ SaturatingDepth(t, code, i) = 0}
        heads == {i \in starts : ~\E j \in starts : j < i /\ \A k \in j..(i - 1) : t[k] \in Words}
        word(i) == IF i < Len(t) /\ t[i + 1] \in Words THEN "x" ELSE t[i]
    IN  [k \in 1..Cardinality(heads) |->
            word(CHOOSE i \in heads : Cardinality({j \in heads : j <= i}) = k)]

\* leading_statement_keyword; "none" if there is no word.
LeadingKeyword(sql) ==
    LET lead == FoldLeft(LAMBDA word, w : CASE word = "none" -> w
                                            [] word = "with" /\ w \in ReadVerbs \cup WriteVerbs -> w
                                            [] OTHER -> word,
                         "none", KeywordTokens(sql))
    IN  IF lead = "with" THEN "none" ELSE lead

IsSelectLike(sql) == LeadingKeyword(sql) \in ReadVerbs

\* db.rs has a scanner of its own, symbol for symbol the same.
BoundKeyword(sql) == LeadingKeyword(sql)

\* bound_query_row_fetch_strategy.
RowFetch(sql) ==
    CASE BoundKeyword(sql) \in ReadVerbs -> "derived table"
      [] BoundKeyword(sql) \in WriteVerbs -> "common table expression"
      [] OTHER -> "direct"

\* Mutant: the text as it was sent.
WrapAsSent(sql) == <<"select", "from", "(">> \o sql \o <<")", "x">>

\* wrap_for_page, wrap_for_row_count and its estimate: the text between parentheses.
WrapForPage(sql) == <<"select", "from", "(">> \o Canonical(sql) \o <<")", "x">>

-----------------------------------------------------------------------------
(* latest_snapshot(...) in a FROM clause                                   *)

\* strip_sql_comments: a block comment between two words leaves a blank.
Stripped(t) ==
    LET s == Scan(StripLexer, t)
        ends(i) == s[i].is = "comment" /\ s[i].mode = "code" /\ s[i].skip = 0
        glues(out, i) == /\ ends(i) /\ out # <<>> /\ Last(out) \in Words
                         /\ i < Len(t) /\ t[i + 1] \in Words
        kept[n \in 0..Len(t)] ==   \* of the first n symbols
            IF n = 0 THEN <<>>
            ELSE LET out == kept[n - 1]
                 IN  CASE s[n].is # "comment" -> Append(out, t[n])
                       [] glues(out, n) -> Append(out, "sp")
                       [] OTHER -> out
    IN  kept[Len(t)]

\* A text whose last symbol, blanks aside, is a comma or the word FROM.
EndsInFrom(t) ==
    \E n \in 1..Len(t) :
        /\ \A j \in (n + 1)..Len(t) : t[j] \in Blanks
        /\ t[n] = "comma" \/ (t[n] = "from" /\ (n > 1 => t[n - 1] \notin Words))

\* is_relation_helper_position: the call follows a comma, FROM, JOIN or LATERAL.
RelationPosition(t, i) ==
    LET prefix == SubSeq(t, 1, i - 1)
    IN  ~Unterminated(StripLexer, prefix) /\ EndsInFrom(Stripped(prefix))

\* is_name_match: the name, and no part of a longer one.
IsNameMatch(t, i) ==
    /\ t[i] = "latest_snapshot"
    /\ i > 1 => t[i - 1] \notin Words
    /\ i < Len(t) => t[i + 1] \notin Words

\* The parenthesis that opens its arguments, 0 if it has none.
OpenParen(t, i) ==
    LET after == {j \in (i + 1)..Len(t) : t[j] \notin Blanks}
    IN  IF after # {} /\ t[Min(after)] = "(" THEN Min(after) ELSE 0

\* Mutant: the next closing parenthesis, wherever it is.
NextParen(t, code, open) ==
    LET closes == {j \in 1..Len(t) : j > open /\ t[j] = ")"}
    IN  IF closes = {} THEN 0 ELSE Min(closes)

\* find_matching_paren; 0 if the call is not closed, which is an error.
MatchingParen(t, code, open) ==
    LET closes == {j \in code : j > open /\ Balanced(t, {i \in code : i >= open}, j + 1)}
    IN  IF closes = {} THEN 0 ELSE Min(closes)

\* rewrite_latest_snapshot_helpers and expand_latest_snapshot_invocation: the calls it
\* replaces, from the name to the parenthesis that closes them. A call inside of the
\* arguments of another is not looked at.
Expansions(t) ==
    LET code == CodeOf(HelperLexer, t)
        names == {i \in code : IsNameMatch(t, i) /\ RelationPosition(t, i) /\ OpenParen(t, i) # 0}
        end(i) == MatchingParen(t, code, OpenParen(t, i))
    IN  {[from |-> i, open |-> OpenParen(t, i), to |-> end(i)] :
            i \in {k \in names : \A j \in names : j < k => end(j) < k}}

ArgumentNames == {"source", "ts_column", "partition_by", "tie_breakers",
                  "include_null_timestamps", "nulls_first"}

\* split_top_level_csv, then strip_sql_comments and parse_named_argument on each part: what
\* each part names, <<>> for a part that is blank or a comment.
ArgumentParts(t, c) ==
    LET u == SubSeq(t, c.open + 1, c.to - 1)
        commas == {i \in CodeOf(ArgumentLexer, u) : u[i] = "comma"}
        end(a) == Min({i \in commas : i > a} \cup {Len(u) + 1})
    IN  {Trim(Stripped(SubSeq(u, a + 1, end(a) - 1))) : a \in {0} \cup commas}

\* parse_latest_snapshot_arguments: the arguments given; an error if a part is none, or if
\* source or ts_column is missing.
Given(t, c) == {Head(p) : p \in ArgumentParts(t, c) \ {<<>>}}
ArgumentsOk(t, c) ==
    /\ c.to # 0
    /\ \A p \in ArgumentParts(t, c) \ {<<>>} : Len(p) = 1 /\ Head(p) \in ArgumentNames
    /\ {"source", "ts_column"} \subseteq Given(t, c)

-----------------------------------------------------------------------------
(* The query a call expands to                                             *)

\* ORDER BY ... DESC: the later of two times, a null where the query puts it.
Later(v, w, nullsFirst) ==
    \/ Null \notin {v, w} /\ v > w
    \/ v # w /\ Null \in {v, w} /\ (v = Null <=> nullsFirst)

\* Mutant: DESC puts nulls first, as PostgreSQL does when no position is written.
BeforeAsDefault(given, r, q) ==
    Later(r.ts, q.ts, TRUE) \/ (r.ts = q.ts /\ r.json < q.json)

\* The nulls_position and the rest of order_exprs, for one partition: r comes before q.
Before(given, r, q) ==
    LET nullsFirst == {"include_null_timestamps", "nulls_first"} \subseteq given
        tie(v) == IF "tie_breakers" \in given THEN v ELSE 0
    IN  \/ Later(r.ts, q.ts, nullsFirst)
        \/ r.ts = q.ts /\ tie(r.tie) < tie(q.tie)
        \/ r.ts = q.ts /\ tie(r.tie) = tie(q.tie) /\ r.json < q.json

\* latest_snapshot_rewrite_sql: DISTINCT ON the partition, or LIMIT 1 without one.
LatestSnapshot(given, rows) ==
    LET eligible == {r \in rows : "include_null_timestamps" \in given \/ r.ts # Null}
        together(r, q) == "partition_by" \in given => r.part = q.part
    IN  {r \in eligible : \A q \in eligible \ {r} : together(r, q) => Before(given, r, q)}

-----------------------------------------------------------------------------
TextInit == text = <<>> /\ pieces = 0

Type(piece) == text' = text \o piece /\ pieces' = pieces + 1

\* Where the last call of the helper begins, if it is still open.
OpenCalls == {i \in 1..Len(text) : /\ text[i] = "latest_snapshot"
                                   /\ ")" \notin {text[j] : j \in i..Len(text)}}

WriteOutside == OpenCalls = {} /\ \E piece \in Pieces : Type(piece)

\* Inside of a call no argument is written twice.
WriteInside ==
    \E i \in OpenCalls, piece \in Arguments :
        /\ Last(piece) \notin {text[j] : j \in i..Len(text)}
        /\ Type(piece)

TextNext == pieces < MaxPieces /\ (WriteOutside \/ WriteInside)

TextSpec == TextInit /\ [][TextNext]_textVars

-----------------------------------------------------------------------------
(* What PostgreSQL makes of a text                                         *)

\* PostgreSQL's lexer nests block comments and knows dollar quotes and E'' strings. Unlike the
\* scanners it reads names as wholes and continues a string after a line break, so it also knows
\* what the code before a symbol ends in: "e" is a name of that letter alone, "escaped" an E''
\* string, "continued" one with a line break after it.
PostgresLexer == [nested |-> TRUE, dollar |-> TRUE, escape |-> TRUE]
Untouched == [lex |-> InCode, last |-> "none"]

Ready(s) == s.mode = "code" /\ s.skip = 0

\* A name begins with a letter and goes on with letters, digits and dollar signs.
InName(last) == last \in {"e", "name"}
Continues(last) == last \in {"escaped", "continued"}
LastOf(t, i, last) ==
    CASE InName(last) /\ t[i] \in Words \cup {"$"} -> "name"
      [] ~InName(last) /\ t[i] \in Letters -> IF t[i] = "e" THEN "e" ELSE "name"
      [] Continues(last) /\ t[i] \in Newlines -> "continued"
      [] Continues(last) /\ t[i] = "sp" -> last
      [] OTHER -> "none"

\* In a name there opens no dollar quote, and none has a tag that begins with a digit: that is a
\* parameter.
NoTag(t, i, s) == InName(s.last) \/ (i < Len(t) /\ t[i + 1] \in Digits)

\* An E right before the quote escapes if it is a name of its own.
Escapes(s) == s.last \in {"e", "continued"}

PostgresStep(t, i, s) ==
    LET step == LexStep(PostgresLexer, t, i, s.lex)
        carried == IF Continues(s.last) THEN s.last ELSE "none"
    IN  CASE Ready(s.lex) /\ t[i] = "'" -> [lex |-> [step EXCEPT !.escapes = Escapes(s)], last |-> "none"]
          [] Ready(s.lex) /\ t[i] = "$" /\ NoTag(t, i, s) -> [lex |-> InCode, last |-> LastOf(t, i, s.last)]
          [] s.lex.mode = "line" /\ s.lex.skip = 0 /\ t[i] \in Newlines ->
                [lex |-> InCode, last |-> LastOf(t, i, carried)]
          [] OTHER -> [lex |-> step,
                       last |-> CASE Ready(s.lex) /\ step = InCode -> LastOf(t, i, s.last)
                                  [] s.lex.escapes /\ Ready(step) -> "escaped"
                                  [] step.mode = "line" -> carried
                                  [] OTHER -> "none"]

\* Its reading of a text: for each symbol the state after it.
PostgresLast(states) == IF states = <<>> THEN Untouched ELSE Last(states)
PostgresReading(t) ==
    LET read[n \in 0..Len(t)] ==
            IF n = 0 THEN <<>>
            ELSE LET states == read[n - 1]
                 IN  Append(states, PostgresStep(t, n, PostgresLast(states)))
    IN  read[Len(t)]
PostgresScan(t) == LET states == PostgresReading(t) IN [i \in 1..Len(t) |-> states[i].lex]

\* A text that a scan s reads to its end, with parentheses that pair up.
ReadsWell(t, s) ==
    LET code == CodeIn(t, s)
    IN  /\ EndState(s).mode \in {"code", "line"}
        /\ \A i \in 1..(Len(t) + 1) : Count(")", t, code, i) <= Count("(", t, code, i)
        /\ Balanced(t, code, Len(t) + 1)
        /\ \A i \in code : t[i] = "semi" => Balanced(t, code, i)
WellFormed(t) == ReadsWell(t, PostgresScan(t))

\* The statements it runs, each by the positions of its code and its quotes.
StatementsIn(t, s) ==
    LET ends == {i \in CodeIn(t, s) : t[i] = "semi"}
        ink == {i \in 1..Len(t) : /\ s[i].is # "comment"
                                  /\ s[i].is = "code" => t[i] \notin Blanks \cup {"semi"}}
        of(a) == {i \in ink : a < i /\ \A e \in ends : e > a => i < e}
    IN  {of(a) : a \in {0} \cup ends} \ {{}}
PostgresStatements(t) == StatementsIn(t, PostgresScan(t))

\* Where the scanner of delimiters reads a text otherwise than PostgreSQL does: a dollar quote in a
\* name or a parameter; a string that escapes for one of them only (an E right after a dollar quote,
\* a string continued on the next line); a carriage return at the end of a line comment.
Misread(t) ==
    LET states == PostgresReading(t)
    IN  \E i \in 1..Len(t) :
            LET s == IF i = 1 THEN Untouched ELSE states[i - 1]
            IN  \/ Ready(s.lex) /\ DollarTag(t, i) # <<>> /\ NoTag(t, i, s)
                \/ Ready(s.lex) /\ t[i] = "'" /\ Escapes(s) # BackslashEscapes(t, i)
                \/ s.lex.mode = "line" /\ s.lex.skip = 0 /\ t[i] = "cr"

\* A text without a backslash, and one with a block comment in another.
NoEscapes(t) == \A i \in 1..Len(t) : t[i] # "\\"
NestsIn(t, s) == \E i \in 1..Len(t) : s[i].depth > 1
NestsComments(t) == LET s == PostgresScan(t) IN NestsIn(t, s)

\* execute_sql's preflight, query_sql, bound parameters and admin_sql let a text pass that
\* contains_top_level_statement_delimiter finds no delimiter in: whatever its quotes and
\* comments hide, PostgreSQL reads at most one statement in it, unless it is one that the
\* scanner misreads.
OneStatementOnly ==
    ~Misread(text) /\ Cardinality(PostgresStatements(text)) > 1 /\ WellFormed(text)
        => ContainsDelimiter(text)

\* docs/payload-v2-contract.md:361: "Preflight accepts only single-statement SQL; when top-level
\* delimiters indicate multiple statements, the server returns
\* code=SQL_PREFLIGHT_MULTI_STATEMENT": for every text (execute_sql_preflight).
PreflightIsSingleStatement ==
    Cardinality(PostgresStatements(text)) > 1 /\ WellFormed(text) => ContainsDelimiter(text)

\* What rewrite_latest_snapshot_helpers replaces, in a text whose strings have no backslash and
\* that the scanners do not misread, is never in a block comment, a string or a dollar quote; and where no block comment nests, since
\* its scan takes them for flat, it is code and a whole call for PostgreSQL too: no call inside
\* of a line comment is expanded, and no expansion ends inside of a comment or a quote.
ExpansionIsCode ==
    NoEscapes(text) /\ ~Misread(text) =>
        LET s == PostgresScan(text)
            code == CodeIn(text, s)
        IN  \A c \in Expansions(text) :
                /\ s[c.from].is = "code" \/ s[c.from].mode = "line"
                /\ WellFormed(text) /\ ~NestsComments(text) =>
                    /\ {c.from, c.open, c.to} \subseteq code
                    /\ MatchingParen(text, code, c.open) = c.to

\* docs/latest-snapshot-helper-design.md: an expansion yields one row for each partition that
\* has a row to choose from, and that row is the newest; a row without a timestamp is chosen
\* only if the call includes them, and before a dated one only if it asks for nulls first.
SnapshotPerPartition ==
    \A c \in Expansions(text) : ArgumentsOk(text, c) =>
        LET given == Given(text, c)
            together(r, q) == "partition_by" \in given => r.part = q.part
            nullsAllowed == "include_null_timestamps" \in given
            nullsWin == nullsAllowed /\ "nulls_first" \in given
        IN  \A rows \in Tables :
                LET result == LatestSnapshot(given, rows)
                IN  /\ \A r, q \in result : together(r, q) => r = q
                    /\ \A q \in rows : q.ts # Null \/ nullsAllowed =>
                        \E r \in result :
                            /\ together(r, q)
                            /\ IF nullsWin THEN r.ts = Null \/ (q.ts # Null /\ r.ts >= q.ts)
                                           ELSE r.ts >= q.ts

\* A text that ends in a comment, or in semicolons that canonicalize_sql leaves: with blanks or
\* a comment between them.
EndsLoosely(t) ==
    LET c == Canonical(t)
        s == PostgresScan(c)
    IN  \/ EndState(s).is = "comment"
        \/ \E i \in CodeIn(c, s) : c[i] = "semi"

\* What wrap_for_page and wrap_for_row_count make of a SELECT that is one statement is one
\* statement again, unless the text ends loosely: then a comment may swallow the parenthesis
\* that closes the derived table, or a delimiter end up inside it.
WrapKeepsOneQuery ==
    /\ IsSelectLike(text) /\ WellFormed(text) /\ ~EndsLoosely(text)
    => LET wrapped == WrapForPage(text)
       IN  WellFormed(wrapped) /\ Cardinality(PostgresStatements(wrapped)) = 1
=============================================================================
