--------------------------- MODULE ExportArtifacts ---------------------------
(***************************************************************************)
(* Exports to files: export_sql and export_job_start, run_export_query and *)
(* write_export_artifact (src/tools/query_surface.rs), the registry of     *)
(* artifacts and the resources made of it (src/server.rs), and the files   *)
(* that execute_sql writes for export_to_file (src/tools/query.rs), which  *)
(* are not registered.                                                     *)
(*                                                                         *)
(* A path has the tool's prefix, the handle drawn (time and 48 random      *)
(* bits) and the format's suffix. What is in a file is known by the export *)
(* that writes it. Nothing else removes files, and a path that was removed *)
(* is not drawn again: a handle leaves the registry after 128 others, not  *)
(* in the millisecond it was drawn in.                                     *)
(***************************************************************************)
EXTENDS QueryArguments, SequencesExt

CONSTANTS
    Exports,      \* calls that export
    Requests,     \* [tool, statement, timeout, preflight, format, task]: what they may ask for
    Reads,        \* calls that read a resource
    Handles,      \* what may be drawn
    MaxEntries,   \* the registry's limit
    MaxAttempts   \* draws that may find their path taken

ASSUME LimitKnown == MaxEntries \in Nat \ {0}

VARIABLES
    artifacts,    \* the records by their handles: [path, by]
    order,        \* their handles, the oldest first
    files,        \* the files by their paths: the export that writes each
    whole,        \* exports that wrote all of their file
    export,       \* the calls that export
    read,         \* the calls that read
    gone,         \* paths of files that were removed
    later         \* how many artifacts were registered after an export's own

vars == <<artifacts, order, files, whole, export, read, gone, later>>

Idle == [at |-> "idle"]
Path(tool, handle, format) == [tool |-> tool, handle |-> handle, format |-> format]

Init ==
    /\ artifacts = <<>> /\ order = <<>> /\ files = <<>> /\ whole = {} /\ gone = {}
    /\ export = [e \in Exports |-> Idle] /\ read = [r \in Reads |-> Idle]
    /\ later = [e \in Exports |-> 0]

-----------------------------------------------------------------------------
(* The registry.                                                           *)

\* What of a queue is in a set, in its order.
Retained(queue, set) ==
    LET upTo[n \in 0..Len(queue)] ==
            IF n = 0 THEN <<>>
            ELSE IF queue[n] \in set THEN Append(upTo[n - 1], queue[n]) ELSE upTo[n - 1]
    IN  upTo[Len(queue)]

\* list: the newest first.
Listed == Retained(Reverse(order), DOMAIN artifacts)

\* An artifact under a handle that is there already replaces it.
Queue(handle) ==
    IF handle \in DOMAIN artifacts THEN Append(Retained(order, ToSet(order) \ {handle}), handle)
    ELSE Append(order, handle)

\* Mutant: the registry makes room for one more than came.
TooManyAtLimit(handles) == Cardinality(handles) >= MaxEntries

TooMany(handles) == Cardinality(handles) > MaxEntries

\* How many handles are popped until the records fit.
Pops(queue, handles) ==
    LET left(n) == handles \ ToSet(SubSeq(queue, 1, n))
    IN  CHOOSE n \in 0..Len(queue) :
            /\ ~TooMany(left(n)) \/ n = Len(queue)
            /\ \A m \in 0..n - 1 : TooMany(left(m))

\* Mutant: what is evicted leaves its file behind.
FilesKept(records, evicted) == {}

FilesOf(records, evicted) == {records[h].path : h \in evicted}

RemoveFiles(paths) ==
    /\ files' = [p \in DOMAIN files \ paths |-> files[p]]
    /\ gone' = gone \cup paths

\* Under the registry's lock, the files included.
Register(handle, record) ==
    LET queue == Queue(handle)
        records == [h \in DOMAIN artifacts \cup {handle} |-> IF h = handle THEN record ELSE artifacts[h]]
        n == Pops(queue, DOMAIN records)
        evicted == DOMAIN records \cap ToSet(SubSeq(queue, 1, n))
        replaced == IF handle \in DOMAIN artifacts THEN {artifacts[handle].path} ELSE {}
    IN  /\ artifacts' = [h \in DOMAIN records \ evicted |-> records[h]]
        /\ order' = SubSeq(queue, n + 1, Len(queue))
        /\ RemoveFiles(replaced \cup FilesOf(records, evicted))

-----------------------------------------------------------------------------
(* An export.                                                              *)

At(e, place) == export[e].at = place
Goes(e, place) == export' = [export EXCEPT ![e].at = place]
registryVars == <<artifacts, order, gone, later>>
fileVars == <<files, whole>>

\* run_export_query refuses what is not read-safe and timeouts out of bounds, export_job_start
\* the former; what execute_sql refuses is QueryFlow's.
ExportRefused(r) == r.tool # "execute_sql" /\ (~ReadSafe(r.statement) \/ TimeoutRefused(r.timeout))

Ask(e) ==
    /\ At(e, "idle")
    /\ \E r \in Requests :
         export' = [export EXCEPT ![e] =
            [request |-> r, attempts |-> 0,
             at |-> IF ExportRefused(r) THEN "failed"
                    ELSE IF r.tool # "execute_sql" /\ Or(r.preflight, TRUE) THEN "describe" ELSE "query"]]
    /\ UNCHANGED <<registryVars, fileVars, read>>

Describe(e) ==
    /\ At(e, "describe") /\ (Goes(e, "query") \/ Goes(e, "failed"))
    /\ UNCHANGED <<registryVars, fileVars, read>>

Query(e) ==
    /\ At(e, "query") /\ (Goes(e, "create") \/ Goes(e, "failed"))
    /\ UNCHANGED <<registryVars, fileVars, read>>

\* A job or task is stopped where it awaits: afterwards it ends as if nobody had asked.
Cancel(e) ==
    /\ At(e, "describe") \/ At(e, "query")
    /\ export[e].request.task /\ Goes(e, "canceled")
    /\ UNCHANGED <<registryVars, fileVars, read>>

\* Mutant: a file that is there is written over.
CreateAnyway(e) ==
    /\ At(e, "create")
    /\ \E h \in Handles :
         LET path == Path(export[e].request.tool, h, export[e].request.format)
         IN  /\ path \notin gone
             /\ files' = [p \in DOMAIN files \cup {path} |-> IF p = path THEN e ELSE files[p]]
             /\ export' = [export EXCEPT ![e] = [at |-> "write", request |-> @.request, attempts |-> @.attempts, handle |-> h]]
    /\ UNCHANGED <<registryVars, whole, read>>

\* create_new: a path that is taken is not opened, and another is drawn.
Create(e) ==
    /\ At(e, "create")
    /\ \E h \in Handles :
         LET path == Path(export[e].request.tool, h, export[e].request.format)
         IN  /\ path \notin gone
             /\ \/ /\ path \in DOMAIN files
                   /\ export' = [export EXCEPT ![e] = IF @.attempts < MaxAttempts
                                                      THEN [@ EXCEPT !.attempts = @ + 1]
                                                      ELSE [@ EXCEPT !.at = "failed"]]
                   /\ files' = files
                \/ /\ path \notin DOMAIN files
                   /\ files' = [p \in DOMAIN files \cup {path} |-> IF p = path THEN e ELSE files[p]]
                   /\ export' = [export EXCEPT ![e] = [at |-> "write", request |-> @.request,
                                                       attempts |-> @.attempts, handle |-> h]]
    /\ UNCHANGED <<registryVars, whole, read>>

\* No entropy, or no file can be made.
CreateFails(e) ==
    /\ At(e, "create") /\ Goes(e, "failed")
    /\ UNCHANGED <<registryVars, fileVars, read>>

Write(e) ==
    /\ At(e, "write") /\ whole' = whole \cup {e} /\ Goes(e, "register")
    /\ UNCHANGED <<registryVars, files, read>>

\* A write, the flush or stat fails: the file stays where it is, whole or not.
WriteFails(e) ==
    /\ At(e, "write") /\ Goes(e, "failed")
    /\ whole' \in {whole, whole \cup {e}}
    /\ UNCHANGED <<registryVars, files, read>>

\* execute_sql tells the path instead.
Finish(e) ==
    /\ At(e, "register") /\ Goes(e, "done")
    /\ LET r == export[e].request
           h == export[e].handle
       IN  IF r.tool = "execute_sql"
           THEN UNCHANGED <<registryVars, files>>
           ELSE /\ Register(h, [path |-> Path(r.tool, h, r.format), by |-> e])
                /\ later' = [d \in Exports |-> IF At(d, "done") THEN later[d] + 1 ELSE later[d]]
    /\ UNCHANGED <<whole, read>>

-----------------------------------------------------------------------------
(* Reading a resource: read_export_resource_uri.                           *)

\* get_by_uri copies the record.
LookUp(r) ==
    /\ read[r] = Idle
    /\ \E h \in Handles :
         read' = [read EXCEPT ![r] = IF h \in DOMAIN artifacts THEN [at |-> "open", record |-> artifacts[h]]
                                     ELSE [at |-> "unknown"]]
    /\ UNCHANGED <<registryVars, fileVars, export>>

\* The file may have been removed since. One that is open can be read to its end.
Open(r) ==
    /\ read[r].at = "open"
    /\ LET path == read[r].record.path
       IN  read' = [read EXCEPT ![r] = IF path \in DOMAIN files
                                       THEN [at |-> "read", record |-> @.record, file |-> files[path]]
                                       ELSE [at |-> "unavailable"]]
    /\ UNCHANGED <<registryVars, fileVars, export>>

Read(r) ==
    /\ read[r].at = "read"
    /\ read' = [read EXCEPT ![r] = [at |-> "answered", record |-> @.record,
                                    text |-> [of |-> @.file, whole |-> @.file \in whole]]]
    /\ UNCHANGED <<registryVars, fileVars, export>>

Next ==
    \/ \E e \in Exports :
         \/ Ask(e) \/ Describe(e) \/ Query(e) \/ Cancel(e) \/ Create(e) \/ CreateFails(e)
         \/ Write(e) \/ WriteFails(e) \/ Finish(e)
    \/ \E r \in Reads : LookUp(r) \/ Open(r) \/ Read(r)

Spec == Init /\ [][Next]_vars

-----------------------------------------------------------------------------
(* Properties.                                                             *)

\* The map and the queue agree, whatever exports replaced each other: every artifact is
\* listed once, and there are not more than the limit.
ListedOnce ==
    /\ ToSet(order) = DOMAIN artifacts /\ IsInjective(order)
    /\ Len(Listed) = Cardinality(DOMAIN artifacts) /\ Len(Listed) <= MaxEntries

\* What is listed can be read: its file is there, whole, and its own.
ListedIsReadable ==
    \A h \in DOMAIN artifacts :
        LET record == artifacts[h]
        IN  record.path \in DOMAIN files /\ files[record.path] = record.by /\ record.by \in whole

\* A read that answers gives the whole of the artifact it looked up, whatever is evicted,
\* replaced and written meanwhile; otherwise it fails.
ReadsAreWhole ==
    \A r \in Reads : read[r].at = "answered" => read[r].text = [of |-> read[r].record.by, whole |-> TRUE]

\* A file is listed, being written, the caller's own, or left by an export that failed: the
\* registry leaves none behind.
FilesAreAccounted ==
    \A p \in DOMAIN files :
        \/ p.handle \in DOMAIN artifacts /\ artifacts[p.handle].path = p
        \/ export[files[p]].at \in {"write", "register", "failed"}
        \/ p.tool = "execute_sql"

\* An artifact that was answered stays until as many others as the limit came after it, or
\* one under its own handle.
NewestStay ==
    \A e \in Exports :
        At(e, "done") /\ export[e].request.tool # "execute_sql" /\ later[e] < MaxEntries =>
            LET h == export[e].handle
            IN  h \in DOMAIN artifacts /\ (artifacts[h].by # e =>
                    \E d \in Exports \ {e} : At(d, "done") /\ export[d].handle = h /\ later[d] < later[e])

\* The registry holds the newest exports and no others: the limit, the queue and what was
\* answered agree.
NewestAreListed == ListedOnce /\ NewestStay
=============================================================================
