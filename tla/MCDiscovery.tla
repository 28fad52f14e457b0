---------------------------- MODULE MCDiscovery ----------------------------
(* A database whose hidden schemas have the closer names, under each kind of *)
(* metadata policy. Names are short; a and A differ in case.                *)
EXTENDS Discovery

MCFold == [ch \in {"A"} |-> "a"]
Schemas == {"app", "App", "public", "pg_catalog"}
MCLower == [s \in Schemas |-> IF s = "App" THEN "app" ELSE s]

a == <<"a">>
Object(schema, name, type, columns) ==
    [schema |-> schema, name |-> name, type |-> type, columns |-> columns]
MCCatalog ==
    <<Object("App", a, "table", <<a>>),
      Object("App", <<"a", "'">>, "table", <<<<"a", "b">>>>),
      Object("app", a, "table", <<<<"b">>, <<"a", "_">>>>),
      Object("app", <<"a", "c">>, "sequence", <<>>),
      Object("pg_catalog", a, "view", <<a>>),
      Object("public", <<"a", "\\">>, "table", <<>>),
      Object("public", <<"a", "_", "b">>, "table", <<<<"b", "a">>, <<"c", "a", "b">>>>),
      Object("public", <<"b">>, "view", <<<<"b">>>>),
      Object("public", <<"b", "_">>, "table", <<a>>),
      Object("public", <<"b", "c", "A">>, "table", <<>>),
      Object("public", <<"x">>, "extension", <<>>)>>

Policy(mode, allow, deny) == [mode |-> mode, allow |-> allow, deny |-> deny]
MCPolicies == {Policy("denied", {"app"}, {}), Policy("full", {}, {}), Policy("full", {}, {"App"}),
               Policy("limited", {}, {}), Policy("limited", {"public", "App"}, {"app"}),
               Policy("limited", {"App"}, {"public"})}

NoFilter == [f \in {} |-> <<>>]
By(arg, value) == [f \in {arg} |-> value]
Filters ==
    {NoFilter, [f \in {"name_like", "name_exact"} |-> a], By("name_exact", <<"A", "_", "b">>),
     By("name_exact", <<"a", "\\">>), By("name_exact", <<"a", "'">>), By("name_prefix", <<"b", "_">>),
     By("name_contains", a), By("name_contains", <<"_">>), By("name_like", <<"a", "\\">>),
     By("name_like", <<"a", "_">>), By("name_like", <<"A">>), By("name_pattern", <<"%", "\\", "_", "_">>),
     By("name_pattern", <<"_", "\\">>)}
Args(schema, type, filters, columns) ==
    [schema |-> schema, type |-> type, filters |-> filters, columns |-> columns]
MCListings == {Args(s, "table", f, FALSE) : s \in Schemas, f \in Filters}
              \cup {Args("app", t, NoFilter, c) : t \in {"sequence", "extension", "index", "view"}, c \in BOOLEAN}
MCLimits == {<<>>, <<0>>, <<9>>}
MCDetails == [schema : Schemas, name : {a, <<"x">>}, type : {"table", "extension", "index"}]

Ref(schema, name) == [schema |-> schema, name |-> name]
MCFailures ==
    [kind : {"relation", "column", "alias", "timeout"}, schema : {<<>>, <<"App">>}, name : {a, <<"b">>},
     refs : {<<>>, <<Ref(<<>>, a)>>, <<Ref(<<>>, <<"b">>), Ref(<<"App">>, a)>>, <<Ref(<<"app">>, a)>>},
     hinted : BOOLEAN]
=============================================================================
