---------------------------- MODULE MCSqlText ----------------------------
(* Instances of SqlText for TLC.                                           *)
EXTENDS SqlText

\* Quotes of every kind, comments, parentheses and the words that matter.
MCPieces == {<<"select">>, <<"'">>, <<"nl">>, <<"semi">>, <<")">>, <<"-", "-">>,
             <<"/", "*">>, <<"*", "/">>, <<"$", "$">>, <<"$", "1", "$">>, <<"e", "'">>, <<"\\">>, <<"(">>, <<"cr">>,
             <<"from", "sp", "latest_snapshot", "(">>}

MCArguments == {<<"source", "comma", "ts_column">>, <<"comma", "partition_by">>, <<"comma", "tie_breakers">>,
                <<"comma", "include_null_timestamps">>, <<"comma", "nulls_first">>, <<"-", "-">>,
                <<"/", "*">>, <<"*", "/">>, <<"nl">>, <<")">>}

\* Up to three rows in two partitions, one of them null, with and without a timestamp.
MCRows == {[part |-> p, ts |-> t, tie |-> i, json |-> 100 * p + 10 * t + i] : p \in {Null, 1}, t \in {Null, 1, 2}, i \in 1..2}
MCTables == UNION {kSubset(k, MCRows) : k \in 0..3}

\* Names with dollar signs in them.
MCNames == {<<"select", "sp", "x", "$", "$">>, <<"semi">>}
==========================================================================
