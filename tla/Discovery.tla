------------------------------ MODULE Discovery ------------------------------
(* What the server tells of the database's schemas: list_schemas,           *)
(* list_objects and get_object_details (src/tools/schema.rs), the hints and *)
(* schema_hints of a failed statement (src/tools/query.rs), and the         *)
(* metadata policy they all are under (src/server.rs, src/config.rs).       *)
EXTENDS NameFilter, Integers, FiniteSets

CONSTANTS
    Catalog,          \* the objects, a sequence in order of schema and name
    Lower,            \* the lower-case form of each schema name
    System,           \* pg_catalog and information_schema
    Policies,         \* metadata policies as configured: [mode, allow, deny]
    Listings,         \* arguments of list_objects but limit and cursor
    Limits,           \* its limits, <<>> when not given
    Details,          \* arguments of get_object_details
    Failures,         \* failed statements: the relations they name and the error
    DefaultPageSize, MaxPageSize,   \* DISCOVERY_DEFAULT_PAGE_SIZE, DISCOVERY_MAX_PAGE_SIZE
    HintRows, HintResults           \* METADATA_HINT_QUERY_LIMIT, METADATA_HINT_RESULT_LIMIT

ASSUME CatalogAssumption ==
    /\ IsList(Catalog)
    /\ \A o \in DOMAIN Catalog :
          /\ IsList(Catalog[o].name) /\ IsList(Catalog[o].columns)
          /\ \A k \in DOMAIN Catalog[o].columns : IsList(Catalog[o].columns[k])
\* MetadataPolicyMode has these values; an argument is a string, and a limit a u64.
ASSUME PoliciesAssumption == \A p \in Policies : p.mode \in {"denied", "full", "limited"}
ASSUME ArgumentsAssumption ==
    /\ \A args \in Listings :
          /\ DOMAIN args.filters \subseteq {"name_exact", "name_prefix", "name_contains", "name_like", "name_pattern"}
          /\ \A a \in DOMAIN args.filters : IsList(args.filters[a])
    /\ \A n \in Limits : n = <<>> \/ n[1] \in Nat
    /\ \A f \in Failures : IsList(f.name) /\ IsList(f.refs) /\ f.kind \in {"relation", "column", "alias", "timeout"}
ASSUME LimitsAssumption == {DefaultPageSize, MaxPageSize, HintRows, HintResults} \subseteq Nat \ {0}

VARIABLES
    policy,    \* the normalised metadata policy
    answer,    \* the latest answer
    cursor,    \* the latest cursor handed out, or one of execute_sql
    listing    \* the listing under way: its arguments and the objects listed so far
vars == <<policy, answer, cursor, listing>>

Objects == DOMAIN Catalog
Relations == {o \in Objects : Catalog[o].type \in {"table", "view"}}

\* A set in an order, which is given as the pairs of an earlier and a later element.
Sorted(set, before) ==
    [i \in 1..Cardinality(set) |-> CHOOSE x \in set : Cardinality({y \in set : <<y, x>> \in before}) = i - 1]
Ascending(set) == Sorted(set, {p \in set \X set : p[1] < p[2]})
\* What a sequence has at some of its places.
At(seq, places) == LET kept == Ascending(places) IN [i \in DOMAIN kept |-> seq[kept[i]]]
Least(a, b) == IF a < b THEN a ELSE b
Most(a, b) == IF a > b THEN a ELSE b
Prefix(seq, n) == SubSeq(seq, 1, Least(n, Len(seq)))

-----------------------------------------------------------------------------
(* The policy. *)

\* Settings::from_cli: the lists are normalised, the mode is not.
Normalized(p) == [mode |-> p.mode, allow |-> {Lower[s] : s \in p.allow},
                  deny |-> {Lower[s] : s \in p.deny}]

\* Mutant: an allowed schema is shown whatever the deny list says.
AllowedIsVisible(schema) ==
    CASE policy.mode = "denied" -> FALSE
      [] policy.mode = "full" -> Lower[schema] \notin policy.deny
      [] policy.mode = "limited" -> Lower[schema] \in policy.allow

\* metadata_access_denied, metadata_schema_visible
Denied == policy.mode = "denied"
Visible(schema) ==
    /\ ~Denied /\ Lower[schema] \notin policy.deny
    /\ policy.mode = "limited" => Lower[schema] \in policy.allow

\* Mutant: the query of the hints leaves the policy to the filter on its rows.
AnySchema(schema) == ~Denied

\* metadata_schema_visibility_sql_predicate, which the database evaluates before LIMIT.
VisibleInSql(schema) ==
    CASE policy.mode = "denied" -> FALSE
      [] policy.mode = "full" -> Lower[schema] \notin policy.deny
      [] policy.mode = "limited" -> Lower[schema] \in policy.allow \ policy.deny

-----------------------------------------------------------------------------
(* The schema tools. *)

NoListing == <<>>

Answer(kind) == [kind |-> kind, code |-> "", rows |-> <<>>, next |-> <<>>,
                 similar |-> <<>>, previews |-> <<>>, columns |-> <<>>, guide |-> <<>>,
                 failure |-> <<>>]
Refused(code) == [Answer("refused") EXCEPT !.code = code]

\* list_schemas: schemas is one object of each schema.
ListSchemas ==
    /\ answer' = IF Denied THEN Refused("METADATA_ACCESS_DENIED")
                 ELSE [Answer("schemas") EXCEPT !.rows =
                          Ascending({o \in Objects : /\ \A p \in 1..o - 1 : Catalog[p].schema # Catalog[o].schema
                                                     /\ Visible(Catalog[o].schema)})]
    /\ UNCHANGED <<policy, cursor, listing>>

\* list_objects_sql: without LIMIT and OFFSET.
InListing(o, args) ==
    /\ Catalog[o].type = args.type
    /\ args.type # "extension" => Catalog[o].schema = args.schema
    /\ Passes(Catalog[o].name, Compiled(args.filters))

\* The hash covers the arguments but the limit, in lower case, and the filter as compiled.
ListingHash(args) ==
    LET filter == Compiled(args.filters)
    IN  <<Lower[args.schema], args.type, filter.mode, Folded(filter.pattern), args.columns>>

\* decode_pagination_cursor, for a cursor that the server signed; late says that it expired.
CursorCode(c, args, late) ==
    IF c.scope # "list_objects" THEN "INVALID_CURSOR"
    ELSE IF c.hash # ListingHash(args) THEN "CURSOR_QUERY_MISMATCH"
    ELSE IF late THEN "CURSOR_EXPIRED" ELSE ""

ListingRefused(args, c, late) ==
    IF ~Visible(args.schema) THEN "METADATA_ACCESS_DENIED"
    ELSE IF FilterRefused(args.filters) THEN "INVALID_ARGUMENT"
    ELSE IF c # <<>> /\ CursorCode(c[1], args, late) # "" THEN CursorCode(c[1], args, late)
    ELSE IF \/ args.type \notin {"table", "view", "sequence", "extension"}
            \/ args.columns /\ args.type \notin {"table", "view"} THEN "INVALID_ARGUMENT"
    ELSE ""

NextListed(offset, limit) == offset + limit

\* list_objects.
ListObjects(args, asked, c, late) ==
    LET code == ListingRefused(args, c, late)
        limit == IF asked = <<>> THEN DefaultPageSize ELSE Least(Most(asked[1], 1), MaxPageSize)
        offset == IF c = <<>> THEN 0 ELSE c[1].offset
        all == Ascending({o \in Objects : InListing(o, args)})
        fetched == SubSeq(all, offset + 1, Least(offset + limit + 1, Len(all)))
        more == Len(fetched) > limit
        next == [scope |-> "list_objects", hash |-> ListingHash(args), offset |-> NextListed(offset, limit)]
        rows == Prefix(fetched, limit)
    IN  /\ UNCHANGED policy
        /\ IF code # ""
           THEN answer' = Refused(code) /\ UNCHANGED <<cursor, listing>>
           ELSE /\ answer' = [Answer("objects") EXCEPT !.rows = rows,
                                                       !.next = IF more THEN <<next>> ELSE <<>>]
                /\ cursor' = IF more THEN <<next>> ELSE <<>>
                /\ listing' = IF c = <<>> THEN <<[args |-> args, rows |-> rows, more |-> more]>>
                              ELSE IF listing # NoListing /\ listing[1].args = args /\ listing[1].more
                              THEN <<[args |-> args, rows |-> listing[1].rows \o rows, more |-> more]>>
                              ELSE NoListing

\* get_object_details: what is not there has no columns; an extension belongs to no schema.
GetDetails(args) ==
    /\ answer' =
         IF ~Visible(args.schema) THEN Refused("METADATA_ACCESS_DENIED")
         ELSE IF args.type \notin {"table", "view", "sequence", "extension"} THEN Refused("INVALID_ARGUMENT")
         ELSE [Answer("details") EXCEPT !.rows = Ascending(
                  {o \in Objects : /\ Catalog[o].name = args.name
                                   /\ IF args.type \in {"table", "view"} THEN o \in Relations
                                      ELSE Catalog[o].type = args.type
                                   /\ args.type # "extension" => Catalog[o].schema = args.schema})]
    /\ UNCHANGED <<policy, cursor, listing>>

-----------------------------------------------------------------------------
(* The hints of a failed statement. *)

\* ORDER BY of the similarity queries: prefixes, then the closest length, then schema and name.
Closest(names, base) ==
    LET near == {i \in DOMAIN names : ILikeLiteral(names[i], ContainsPattern(base))}
        far(i) == LET d == Len(names[i]) - Len(base) IN IF d < 0 THEN -d ELSE d
        late(i) == IF ILikeLiteral(names[i], PrefixPattern(base)) THEN 0 ELSE 1
        before(a, b) == \/ late(a) < late(b)
                        \/ late(a) = late(b) /\ far(a) < far(b)
                        \/ late(a) = late(b) /\ far(a) = far(b) /\ (a[1] < b[1] \/ (a[1] = b[1] /\ a[2] < b[2]))
    IN  Prefix(Sorted(near, {p \in near \X near : before(p[1], p[2])}), HintRows)

SeenOf(rows) == Prefix(At(rows, {i \in DOMAIN rows : Visible(Catalog[rows[i][1]].schema)}), HintResults)

\* relation_name_suggestions.
SimilarRelations(name) ==
    IF Denied THEN <<>>
    ELSE LET near == {o \in Relations : Catalog[o].schema \notin System /\ VisibleInSql(Catalog[o].schema)}
         IN  SeenOf(Closest([i \in near \X {0} |-> Catalog[i[1]].name], Folded(name)))

\* resolve_relation_ref: an unqualified name is the first visible of its namesakes, public before others.
Resolve(ref) ==
    IF ref.schema # <<>>
    THEN IF Visible(ref.schema[1]) THEN {<<ref.schema[1], ref.name>>} ELSE {}
    ELSE LET rank(o) == IF Catalog[o].schema = "public" THEN 0 ELSE 1
             same == {o \in Relations : Catalog[o].name = ref.name}
             before(a, b) == rank(a) < rank(b) \/ (rank(a) = rank(b) /\ a < b)
             found == Prefix(Sorted(same, {p \in same \X same : before(p[1], p[2])}), HintRows)
             seen == At(found, {i \in DOMAIN found : Visible(Catalog[found[i]].schema)})
         IN  IF Denied \/ seen = <<>> THEN {} ELSE {<<Catalog[seen[1]].schema, ref.name>>}

\* relation_column_preview: what is not there, or has no columns, has no preview.
Previewed(ref) ==
    {o \in Relations : /\ <<Catalog[o].schema, Catalog[o].name>> \in Resolve(ref)
                       /\ Catalog[o].columns # <<>>}

Columns(relations) == UNION {{<<o, k>> : k \in DOMAIN Catalog[o].columns} : o \in relations}
SimilarColumns(name, relations) ==
    SeenOf(Closest([i \in Columns(relations) |-> Catalog[i[1]].columns[i[2]]], Folded(name)))

\* column_name_suggestions_for_relations: of the statement's relations, which stop at four.
ColumnsOfStatement(f) ==
    IF Denied THEN <<>>
    ELSE SimilarColumns(f.name, {o \in Relations : \E i \in DOMAIN f.refs :
                                     <<Catalog[o].schema, Catalog[o].name>> \in Resolve(f.refs[i])})
\* column_name_suggestions.
ColumnsAnywhere(f) ==
    IF Denied THEN <<>>
    ELSE SimilarColumns(f.name, {o \in Relations : /\ Catalog[o].schema \notin System
                                                   /\ VisibleInSql(Catalog[o].schema)})

\* discovery_schema_for_sql: of the missing name, else of the first qualified relation, else public.
GuideSchema(f) ==
    LET qualified == {i \in DOMAIN f.refs : f.refs[i].schema # <<>>}
    IN  IF f.kind = "relation" /\ f.schema # <<>> THEN f.schema[1]
        ELSE IF qualified = {} THEN "public"
        ELSE f.refs[CHOOSE i \in qualified : \A j \in qualified : i <= j].schema[1]

\* derive_execute_sql_hint and derive_execute_sql_schema_hints. PostgreSQL names a qualified
\* column without quotes, which neither finds. A hint of the database's own stands for the first.
Hints(f) ==
    CASE f.kind = "relation" ->
            [Answer("error") EXCEPT !.failure = <<f>>, !.similar = SimilarRelations(f.name),
                !.guide = IF Visible(GuideSchema(f)) THEN <<GuideSchema(f)>> ELSE <<>>]
      [] f.kind = "alias" ->
            [Answer("error") EXCEPT !.failure = <<f>>,
                !.guide = IF Visible(GuideSchema(f)) /\ ~f.hinted THEN <<GuideSchema(f)>> ELSE <<>>]
      [] f.kind = "column" /\ f.schema = <<>> ->
            [Answer("error") EXCEPT !.failure = <<f>>,
                !.previews = IF Denied THEN <<>>
                             ELSE FlattenSeq([i \in DOMAIN f.refs |-> Ascending(Previewed(f.refs[i]))]),
                !.columns = IF ColumnsOfStatement(f) # <<>> THEN ColumnsOfStatement(f) ELSE ColumnsAnywhere(f)]
      [] f.kind = "timeout" \/ (f.kind = "column" /\ f.schema # <<>>) ->
            [Answer("error") EXCEPT !.failure = <<f>>]

\* execute_sql_db_error_result, execute_sql_preflight_schema_error_result and enriched_db_error.
StatementFails(f) ==
    /\ answer' = Hints(f)
    /\ UNCHANGED <<policy, cursor, listing>>

-----------------------------------------------------------------------------
Init == /\ \E p \in Policies : policy = Normalized(p)
        /\ answer = Answer("none") /\ listing = NoListing
        /\ cursor = <<[scope |-> "execute_sql", hash |-> <<>>, offset |-> 1]>>

\* Bound: a client asks one thing, and then only follows its cursor, if with any arguments.
Ask ==
    /\ answer.kind = "none"
    /\ \/ ListSchemas
       \/ \E args \in Listings, n \in Limits : ListObjects(args, n, <<>>, FALSE)
       \/ \E args \in Details : GetDetails(args)
       \/ \E f \in Failures : StatementFails(f)
Continue ==
    /\ cursor # <<>>
    /\ \E args \in Listings, n \in Limits, late \in BOOLEAN : ListObjects(args, n, cursor, late)
Next == Ask \/ Continue

Spec == Init /\ [][Next]_vars

-----------------------------------------------------------------------------
\* Whatever is asked, and however a statement fails, an answer tells of no schema that the
\* policy hides: not its name, not its objects, not its columns (metadata_schema_visible).
Told == {Catalog[o].schema : o \in {p \in Range(answer.rows) : Catalog[p].type # "extension"}}
        \cup {Catalog[i[1]].schema : i \in Range(answer.similar) \cup Range(answer.columns)}
        \cup {Catalog[o].schema : o \in Range(answer.previews)} \cup Range(answer.guide)
DiscoveryStaysVisible ==
    \A s \in Told : /\ policy.mode # "denied"
                    /\ Lower[s] \notin policy.deny
                    /\ policy.mode = "limited" => Lower[s] \in policy.allow

\* A hint is not lost to what is hidden: while a visible relation, or column, has a name that
\* contains the missing one, some such name is suggested, however many hidden ones are closer
\* (the LIMITs of relation_name_suggestions and column_name_suggestions).
HintsFindWhatIsVisible ==
    answer.kind = "error" =>
        LET f == answer.failure[1]
            visible == {o \in Relations : Catalog[o].schema \notin System /\ Visible(Catalog[o].schema)}
        IN  /\ f.kind = "relation" /\ (\E o \in visible : Includes(Catalog[o].name, f.name))
                => answer.similar # <<>>
            /\ f.kind = "column" /\ f.schema = <<>>
               /\ (\E o \in visible : \E c \in Range(Catalog[o].columns) : Includes(c, f.name))
                => answer.columns # <<>>

\* A client that follows the cursors of a listing to its end, with limits as it likes, has been
\* given every object of the listing, once, in order (limit + 1, OFFSET and next_cursor in
\* list_objects).
ListingComplete ==
    listing # NoListing =>
        LET l == listing[1]
            all == Ascending({o \in Objects : InListing(o, l.args)})
        IN  IsPrefix(l.rows, all) /\ (~l.more => l.rows = all)

\* A listing by name_exact, name_prefix or name_contains, or by a name_like without wildcards,
\* has the names that are equal, begin with or contain the value, whatever characters it is made
\* of: escaped for LIKE, escaped again for the literal (escape_like_pattern, sql_quote_e_literal).
FilterMeansWhatItSays ==
    listing # NoListing /\ ~listing[1].more =>
        LET args == listing[1].args
        IN  \A a \in DOMAIN args.filters :
                LET mode == Mode(a, args.filters[a])
                IN  mode # "pattern" =>
                        \A o \in Objects :
                            (o \in Range(listing[1].rows)) <=>
                                /\ Catalog[o].type = args.type
                                /\ args.type = "extension" \/ Catalog[o].schema = args.schema
                                /\ Means(mode, args.filters[a], Catalog[o].name)

\* Both: a client that follows a listing gets just what it asked for.
ListingIsWhatWasAsked == ListingComplete /\ FilterMeansWhatItSays
=============================================================================
