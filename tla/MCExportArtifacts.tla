-------------------------- MODULE MCExportArtifacts --------------------------
(* An instance of ExportArtifacts for TLC.                                 *)
EXTENDS ExportArtifacts, TLC

Export == [tool |-> "export_sql", statement |-> "select", timeout |-> <<>>, preflight |-> <<>>,
           format |-> "tsv", task |-> FALSE]

\* Two formats, so that two exports may share a handle; a refused one, a task, one without a
\* preflight, and execute_sql.
MCRequests ==
    {Export,
     [Export EXCEPT !.format = "csv", !.preflight = <<FALSE>>, !.task = TRUE],
     [Export EXCEPT !.timeout = <<0>>],
     [Export EXCEPT !.tool = "execute_sql", !.statement = "insert"]}

MCSymmetry == Permutations(Exports) \cup Permutations(Reads) \cup Permutations(Handles)
=============================================================================
