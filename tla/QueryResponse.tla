---------------------------- MODULE QueryResponse ----------------------------
(* The metadata that the SQL tools answer with (src/tools.rs,              *)
(* src/tools/query.rs, src/tools/query_surface.rs): the names of the       *)
(* fields that say something, after every step that adds or drops some.    *)
(*                                                                         *)
(* "has" is the set of conditional fields with something to say:           *)
(* next_cursor, row_count_job_id, export, capabilities of a server that is *)
(* not healthy, clipped cells, aliased columns. "mode" is row_count_mode.  *)
EXTENDS QueryArguments

\* ExecuteSqlResolvedCountMode::row_count_mode.
ModeOf(count) == [none |-> "page_window", exact |-> "count_exact",
                  estimated |-> "count_estimated", async |-> "count_async"][count]

\* response_meta_for_rows and canonical_response_meta: every field is there, some are null.
RowsMeta == {"output_mode", "row_count_mode", "row_count_total", "row_count_returned",
             "returned_rows", "has_more", "truncated", "cursor_offset", "query_hash", "columns",
             "query_hints", "elapsed_ms"}

\* What follows response_meta_for_rows: apply_execute_sql_metadata_verbosity, ..count_metadata,
\* ..query_telemetry, ..execution_metadata, ..export_metadata, ..effective_metadata.
Verbose(verbosity) ==
    (CASE verbosity = "full" -> {}
       [] verbosity = "standard" -> {"columns"}
       [] verbosity = "compact" -> {"columns", "query_hints"})
Added == {"metadata_verbosity", "query_telemetry", "execution", "effective_profile",
          "effective_count_mode", "effective_metadata_verbosity", "requested_output_mode",
          "effective_output_mode"}

\* Mutant: a field that came later is not copied.
DataOnlyForgetsJob(mode) ==
    {"output_mode", "query_hash", "elapsed_ms", "truncated", "returned_rows", "has_more",
     "next_cursor", "capabilities", "row_count_mode", "export"}
    \cup (IF mode = "page_window" THEN {} ELSE {"row_count_total"})

\* apply_execute_sql_data_only_compaction: what it copies. A total is copied unless the page
\* was all that was counted.
DataOnlyKeeps(mode) ==
    {"output_mode", "query_hash", "elapsed_ms", "truncated", "returned_rows", "has_more",
     "next_cursor", "capabilities", "row_count_mode", "row_count_job_id", "export"}
    \cup (IF mode = "page_window" THEN {} ELSE {"row_count_total"})

\* apply_execute_sql_compact_meta_cleanup: that, and what was clipped or renamed.
CompactKeeps(mode) ==
    DataOnlyKeeps(mode) \cup {"metadata_verbosity", "cell_clipping", "column_name_safety"}

\* execute_sql's answer: with full or standard metadata only data_only drops fields.
ExecuteMeta(s, mode, has) ==
    LET all == (RowsMeta \ Verbose(s.verbosity)) \cup Added \cup has
        cleaned == IF s.verbosity = "compact" THEN all \cap CompactKeeps(mode) ELSE all
    IN  IF s.output = "data_only" THEN cleaned \cap DataOnlyKeeps(mode) ELSE cleaned

\* sparse_success_meta, for the read tools and admin_sql; render_sql writes it into its text.
SparseMeta(has) == {"elapsed_ms", "returned_rows"} \cup (has \cap {"next_cursor"})

Meta(s, mode, has) ==
    IF s.output = "sparse" THEN SparseMeta(has) ELSE ExecuteMeta(s, mode, has)
=============================================================================
