------------------------ MODULE ExportArtifacts_proofs ------------------------
(* Theorems of ExportArtifacts, for any exports, handles and limit.        *)
EXTENDS ExportArtifacts, FiniteSetTheorems, WellFoundedInduction, TLAPS

PathOf(e) == Path(export[e].request.tool, export[e].handle, export[e].request.format)

\* The record of an export that has a path.
HasPath(e) == {"at", "request", "handle"} \subseteq DOMAIN export[e]

\* An export that has its file open is the one that writes it.
ExportInv ==
    /\ DOMAIN export = Exports
    /\ \A e \in Exports :
         /\ "at" \in DOMAIN export[e]
         /\ export[e].at # "idle" => "request" \in DOMAIN export[e]
         /\ export[e].at \in {"write", "register"} =>
                HasPath(e) /\ PathOf(e) \in DOMAIN files /\ files[PathOf(e)] = e
         /\ export[e].at = "register" => e \in whole

\* Every file is where its export put it, and was not removed before.
FileInv ==
    \A p \in DOMAIN files :
        /\ files[p] \in Exports /\ p \notin gone
        /\ HasPath(files[p]) /\ p = PathOf(files[p])
        /\ export[files[p]].at \in {"write", "register", "done", "failed"}

\* Every artifact is of an export that is done.
ArtifactInv ==
    \A h \in DOMAIN artifacts :
        LET record == artifacts[h]
        IN  /\ record.by \in Exports /\ export[record.by].at = "done"
            /\ record.path.handle = h /\ record.path \in DOMAIN files
            /\ files[record.path] = record.by /\ record.by \in whole

\* A record that was looked up stays true of its file until that is removed, and then nobody
\* writes another in its place.
ReadInv ==
    /\ DOMAIN read = Reads
    /\ \A r \in Reads :
         /\ read[r].at \in {"open", "read", "answered"} => read[r].record.by \in whole
         /\ read[r].at = "open" =>
                \/ read[r].record.path \in gone
                \/ read[r].record.path \in DOMAIN files /\ files[read[r].record.path] = read[r].record.by
         /\ read[r].at = "read" => read[r].file = read[r].record.by
         /\ read[r].at = "answered" => read[r].text = [of |-> read[r].record.by, whole |-> TRUE]

ExportsInv == ExportInv /\ FileInv /\ ArtifactInv /\ ReadInv /\ FilesAreAccounted

\* An artifact, once it was answered.
Registered(e) == At(e, "done") /\ export[e].request.tool # "execute_sql"

\* The queue has the handles of the artifacts, each once.
OrderInv ==
    /\ \A e \in Exports : export[e].at \in {"write", "register", "done"} => HasPath(e) /\ export[e].handle \in Handles
    /\ \A e \in Exports : later[e] \in Nat /\ (~At(e, "done") => later[e] = 0)
    /\ order \in Seq(Handles) /\ IsInjective(order) /\ ToSet(order) = DOMAIN artifacts
    /\ Len(order) <= MaxEntries

\* An artifact is the newest of its handle, and has no more after it in the queue than came
\* after it; one that is not listed has had its time.
PlaceInv ==
    /\ \A i \in DOMAIN order :
         LET by == artifacts[order[i]].by
         IN  /\ by \in Exports /\ Registered(by) /\ export[by].handle = order[i]
             /\ Len(order) - i <= later[by]
             /\ \A e \in Exports \ {by} : Registered(e) /\ export[e].handle = order[i] => later[by] < later[e]
    /\ \A e \in Exports : Registered(e) /\ later[e] < MaxEntries => export[e].handle \in DOMAIN artifacts

QueueInv == OrderInv /\ PlaceInv

-----------------------------------------------------------------------------
\* Going to another place changes nothing else of an export.
LEMMA GoesKeeps ==
    ASSUME ExportInv, NEW e \in Exports, NEW place, Goes(e, place)
    PROVE  /\ DOMAIN export' = Exports
           /\ \A d \in Exports :
                /\ DOMAIN export'[d] = DOMAIN export[d]
                /\ export'[d].at = IF d = e THEN place ELSE export[d].at
                /\ "request" \in DOMAIN export[d] => export'[d].request = export[d].request
                /\ "handle" \in DOMAIN export[d] => export'[d].handle = export[d].handle
    BY DEF ExportInv, Goes

\* An export that has no file open, before and after, leaves the files as they are.
LEMMA QuietGoes ==
    ASSUME ExportsInv, NEW e \in Exports, NEW place, Goes(e, place),
           export[e].at \in {"describe", "query", "create"},
           place \in {"query", "create", "failed", "canceled"},
           UNCHANGED <<registryVars, fileVars, read>>
    PROVE  ExportsInv'
<1>1. UNCHANGED <<artifacts, gone, files, whole, read>>
    BY DEF registryVars, fileVars
<1>2. /\ DOMAIN export' = Exports
      /\ \A d \in Exports :
           /\ DOMAIN export'[d] = DOMAIN export[d]
           /\ export'[d].at = IF d = e THEN place ELSE export[d].at
           /\ "request" \in DOMAIN export[d] => export'[d].request = export[d].request
           /\ "handle" \in DOMAIN export[d] => export'[d].handle = export[d].handle
    BY GoesKeeps DEF ExportsInv
<1>3. \A d \in Exports : HasPath(d) => HasPath(d)' /\ PathOf(d)' = PathOf(d)
    BY <1>2 DEF HasPath, PathOf
<1>4. ExportInv'
    BY <1>1, <1>2, <1>3 DEF ExportsInv, ExportInv
<1>5. FileInv'
    BY <1>1, <1>2, <1>3 DEF ExportsInv, FileInv
<1>6. ArtifactInv'
    BY <1>1, <1>2 DEF ExportsInv, ArtifactInv
<1>7. ReadInv' /\ FilesAreAccounted'
    BY <1>1, <1>2 DEF ExportsInv, ReadInv, FilesAreAccounted, FileInv
<1> QED BY <1>4, <1>5, <1>6, <1>7 DEF ExportsInv

\* An export that is asked for has no file yet.
LEMMA AskKeeps == ASSUME ExportsInv, NEW e \in Exports, Ask(e) PROVE ExportsInv'
<1>1. UNCHANGED <<artifacts, gone, files, whole, read>> /\ export[e].at = "idle"
    BY DEF Ask, At, registryVars, fileVars
<1>2. PICK r, place : /\ export' = [export EXCEPT ![e] = [request |-> r, attempts |-> 0, at |-> place]]
                      /\ place \in {"failed", "describe", "query"}
    BY DEF Ask
<1>3. /\ DOMAIN export' = Exports
      /\ export'[e] = [request |-> r, attempts |-> 0, at |-> place]
      /\ \A d \in Exports \ {e} : export'[d] = export[d]
    BY <1>2 DEF ExportsInv, ExportInv
<1>4. \A d \in Exports \ {e} : HasPath(d)' = HasPath(d) /\ PathOf(d)' = PathOf(d)
    BY <1>3 DEF HasPath, PathOf
<1>5. ExportInv'
    BY <1>1, <1>2, <1>3, <1>4 DEF ExportsInv, ExportInv
<1>6. \A p \in DOMAIN files : files[p] \in Exports \ {e}
    BY <1>1 DEF ExportsInv, FileInv
<1>7. FileInv'
    BY <1>1, <1>3, <1>4, <1>6 DEF ExportsInv, FileInv
<1>8. ArtifactInv'
    BY <1>1, <1>3 DEF ExportsInv, ArtifactInv
<1>9. ReadInv' /\ FilesAreAccounted'
    BY <1>1, <1>3, <1>6 DEF ExportsInv, ReadInv, FilesAreAccounted
<1> QED BY <1>5, <1>7, <1>8, <1>9 DEF ExportsInv

\* A file that is created is new, and its path was free.
LEMMA CreateKeeps == ASSUME ExportsInv, NEW e \in Exports, Create(e) PROVE ExportsInv'
<1>1. UNCHANGED <<artifacts, gone, whole, read>> /\ export[e].at = "create"
    BY DEF Create, At, registryVars
<1>2. PICK h \in Handles :
        LET path == Path(export[e].request.tool, h, export[e].request.format)
        IN  /\ path \notin gone
            /\ \/ /\ export' = [export EXCEPT ![e] = IF @.attempts < MaxAttempts
                                                     THEN [@ EXCEPT !.attempts = @ + 1]
                                                     ELSE [@ EXCEPT !.at = "failed"]]
                  /\ files' = files
               \/ /\ path \notin DOMAIN files
                  /\ files' = [p \in DOMAIN files \cup {path} |-> IF p = path THEN e ELSE files[p]]
                  /\ export' = [export EXCEPT ![e] = [at |-> "write", request |-> @.request,
                                                      attempts |-> @.attempts, handle |-> h]]
    BY DEF Create
<1> DEFINE path == Path(export[e].request.tool, h, export[e].request.format)
<1>3. \A p \in DOMAIN files : files[p] \in Exports \ {e}
    BY <1>1 DEF ExportsInv, FileInv
<1>4. DOMAIN export' = Exports /\ \A d \in Exports \ {e} : export'[d] = export[d]
    BY <1>2 DEF ExportsInv, ExportInv
<1>5. \A d \in Exports \ {e} : HasPath(d)' = HasPath(d) /\ PathOf(d)' = PathOf(d)
    BY <1>4 DEF HasPath, PathOf
<1>6. ASSUME /\ export' = [export EXCEPT ![e] = IF @.attempts < MaxAttempts
                                                THEN [@ EXCEPT !.attempts = @ + 1]
                                                ELSE [@ EXCEPT !.at = "failed"]]
             /\ files' = files
      PROVE  ExportsInv'
  <2>1. DOMAIN export'[e] = DOMAIN export[e]
      BY <1>6 DEF ExportsInv, ExportInv
  <2>2. export'[e].at \in {"create", "failed"}
      BY <1>1, <1>6 DEF ExportsInv, ExportInv
  <2>3. ExportInv'
      BY <1>1, <1>4, <1>5, <1>6, <2>1, <2>2 DEF ExportsInv, ExportInv
  <2>4. FileInv'
      BY <1>1, <1>3, <1>4, <1>5, <1>6 DEF ExportsInv, FileInv
  <2>5. ArtifactInv'
      BY <1>1, <1>4, <1>6 DEF ExportsInv, ArtifactInv
  <2>6. ReadInv' /\ FilesAreAccounted'
      BY <1>1, <1>3, <1>4, <1>6 DEF ExportsInv, ReadInv, FilesAreAccounted
  <2> QED BY <2>3, <2>4, <2>5, <2>6 DEF ExportsInv
<1>7. ASSUME /\ path \notin DOMAIN files
             /\ files' = [p \in DOMAIN files \cup {path} |-> IF p = path THEN e ELSE files[p]]
             /\ export' = [export EXCEPT ![e] = [at |-> "write", request |-> @.request,
                                                 attempts |-> @.attempts, handle |-> h]]
      PROVE  ExportsInv'
  <2>1. export'[e] = [at |-> "write", request |-> export[e].request, attempts |-> export[e].attempts, handle |-> h]
      BY <1>7 DEF ExportsInv, ExportInv
  <2>2. HasPath(e)' /\ PathOf(e)' = path
      BY <2>1 DEF HasPath, PathOf
  <2>3. /\ DOMAIN files' = DOMAIN files \cup {path} /\ files'[path] = e
        /\ \A p \in DOMAIN files : files'[p] = files[p]
      BY <1>7
  <2>4. ExportInv'
      BY <1>1, <1>4, <1>5, <2>1, <2>2, <2>3 DEF ExportsInv, ExportInv
  <2>5. FileInv'
      BY <1>1, <1>2, <1>3, <1>4, <1>5, <2>1, <2>2, <2>3 DEF ExportsInv, FileInv
  <2>6. ArtifactInv'
      BY <1>1, <1>4, <2>3 DEF ExportsInv, ArtifactInv
  <2>7. ReadInv'
      BY <1>1, <2>3 DEF ExportsInv, ReadInv
  <2>8. FilesAreAccounted'
      BY <1>1, <1>3, <1>4, <2>1, <2>3 DEF ExportsInv, FilesAreAccounted
  <2> QED BY <2>4, <2>5, <2>6, <2>7, <2>8 DEF ExportsInv
<1> QED BY <1>2, <1>6, <1>7

\* Writing to the end, or failing to.
LEMMA WriteKeeps == ASSUME ExportsInv, NEW e \in Exports, Write(e) \/ WriteFails(e) PROVE ExportsInv'
<1>1. UNCHANGED <<artifacts, gone, files, read>> /\ export[e].at = "write"
    BY DEF Write, WriteFails, At, registryVars
<1>2. PICK place \in {"register", "failed"} :
        Goes(e, place) /\ whole \subseteq whole' /\ (place = "register" => e \in whole')
    BY DEF Write, WriteFails
<1>3. /\ DOMAIN export' = Exports
      /\ \A d \in Exports :
           /\ DOMAIN export'[d] = DOMAIN export[d]
           /\ export'[d].at = IF d = e THEN place ELSE export[d].at
           /\ "request" \in DOMAIN export[d] => export'[d].request = export[d].request
           /\ "handle" \in DOMAIN export[d] => export'[d].handle = export[d].handle
    BY <1>2, GoesKeeps DEF ExportsInv
<1>4. \A d \in Exports : HasPath(d) => HasPath(d)' /\ PathOf(d)' = PathOf(d)
    BY <1>3 DEF HasPath, PathOf
<1>5. ExportInv'
    BY <1>1, <1>2, <1>3, <1>4 DEF ExportsInv, ExportInv
<1>6. FileInv'
    BY <1>1, <1>3, <1>4 DEF ExportsInv, FileInv
<1>7. ArtifactInv'
    BY <1>1, <1>2, <1>3 DEF ExportsInv, ArtifactInv
<1>8. ReadInv'
    BY <1>1, <1>2 DEF ExportsInv, ReadInv
<1>9. FilesAreAccounted'
    BY <1>1, <1>3 DEF ExportsInv, FilesAreAccounted, FileInv
<1> QED BY <1>5, <1>6, <1>7, <1>8, <1>9 DEF ExportsInv

\* Registering removes the files of what it evicts or replaces and of nothing else.
LEMMA FinishKeeps == ASSUME ExportsInv, NEW e \in Exports, Finish(e) PROVE ExportsInv'
<1>1. UNCHANGED <<whole, read>> /\ export[e].at = "register" /\ Goes(e, "done")
    BY DEF Finish, At
<1>2. /\ DOMAIN export' = Exports
      /\ \A d \in Exports :
           /\ DOMAIN export'[d] = DOMAIN export[d]
           /\ export'[d].at = IF d = e THEN "done" ELSE export[d].at
           /\ "request" \in DOMAIN export[d] => export'[d].request = export[d].request
           /\ "handle" \in DOMAIN export[d] => export'[d].handle = export[d].handle
    BY <1>1, GoesKeeps DEF ExportsInv
<1>3. \A d \in Exports : HasPath(d) => HasPath(d)' /\ PathOf(d)' = PathOf(d)
    BY <1>2 DEF HasPath, PathOf
<1>4. HasPath(e) /\ PathOf(e) \in DOMAIN files /\ files[PathOf(e)] = e /\ e \in whole
    BY <1>1 DEF ExportsInv, ExportInv
<1>5. CASE export[e].request.tool = "execute_sql"
  <2>1. UNCHANGED <<artifacts, gone, files>>
      BY <1>5 DEF Finish, registryVars
  <2>2. ExportInv' /\ FileInv'
      BY <1>1, <1>2, <1>3, <2>1 DEF ExportsInv, ExportInv, FileInv
  <2>3. ArtifactInv' /\ ReadInv'
      BY <1>1, <1>2, <2>1 DEF ExportsInv, ArtifactInv, ReadInv
  <2>4. \A p \in DOMAIN files : files[p] = e => p.tool = "execute_sql"
      BY <1>5 DEF ExportsInv, FileInv, PathOf, Path
  <2>5. FilesAreAccounted'
      BY <1>2, <2>1, <2>4 DEF ExportsInv, FilesAreAccounted, FileInv
  <2> QED BY <2>2, <2>3, <2>5 DEF ExportsInv
<1>6. CASE export[e].request.tool # "execute_sql"
  <2> DEFINE handle == export[e].handle
             record == [path |-> PathOf(e), by |-> e]
             records == [h \in DOMAIN artifacts \cup {handle} |-> IF h = handle THEN record ELSE artifacts[h]]
             replaced == IF handle \in DOMAIN artifacts THEN {artifacts[handle].path} ELSE {}
  <2>1. PICK evicted \in SUBSET DOMAIN records :
          /\ artifacts' = [h \in DOMAIN records \ evicted |-> records[h]]
          /\ RemoveFiles(replaced \cup {records[h].path : h \in evicted})
    <3>1. Register(handle, record)
        BY <1>6 DEF Finish, PathOf
    <3> QED BY <3>1 DEF Register, FilesOf
  <2> DEFINE removed == replaced \cup {records[h].path : h \in evicted}
  <2>2. /\ DOMAIN files' = DOMAIN files \ removed
        /\ \A p \in DOMAIN files' : files'[p] = files[p]
        /\ gone' = gone \cup removed
      BY <2>1 DEF RemoveFiles
  <2>3. PathOf(e).handle = handle
      BY DEF PathOf, Path
  <2>4. \A h \in DOMAIN records : records[h].path.handle = h
      BY <2>3 DEF ExportsInv, ArtifactInv
  \* Files that are removed are of exports that are done, this one's included.
  <2>5. \A p \in removed : p \in DOMAIN files =>
            files[p] = e \/ export[files[p]].at = "done"
    <3>1. \A h \in DOMAIN artifacts : export[files[artifacts[h].path]].at = "done"
        BY DEF ExportsInv, ArtifactInv
    <3>2. \A h \in DOMAIN records : files[records[h].path] = e \/ export[files[records[h].path]].at = "done"
        BY <1>4, <3>1
    <3>3. \A p \in replaced : export[files[p]].at = "done"
        BY <3>1
    <3>4. \A p \in removed : p \in replaced \/ \E h \in DOMAIN records : p = records[h].path
        OBVIOUS
    <3> HIDE DEF removed, replaced, records
    <3> QED BY <3>2, <3>3, <3>4
  <2>6. \A h \in DOMAIN artifacts' : records[h].path \notin removed
    <3> SUFFICES ASSUME NEW h \in DOMAIN records \ evicted PROVE records[h].path \notin removed
        BY <2>1
    <3>1. \A g \in evicted : records[g].path # records[h].path
        BY <2>4
    <3>2. records[h].path \notin replaced
      <4>1. CASE h = handle
          BY <1>1, <1>4, <4>1 DEF ExportsInv, ArtifactInv
      <4>2. CASE h # handle
          BY <4>2, <2>4 DEF ExportsInv, ArtifactInv
      <4> QED BY <4>1, <4>2
    <3> QED BY <3>1, <3>2
  <2>7. ArtifactInv'
    <3> SUFFICES ASSUME NEW h \in DOMAIN artifacts'
                 PROVE  LET r == artifacts'[h]
                        IN  /\ r.by \in Exports /\ export'[r.by].at = "done"
                            /\ r.path.handle = h /\ r.path \in DOMAIN files'
                            /\ files'[r.path] = r.by /\ r.by \in whole'
        BY DEF ArtifactInv
    <3>1. artifacts'[h] = records[h] /\ h \in DOMAIN records
        BY <2>1
    <3>2. /\ records[h].by \in Exports /\ records[h].path \in DOMAIN files
          /\ files[records[h].path] = records[h].by /\ records[h].by \in whole
          /\ records[h].by = e \/ export[records[h].by].at = "done"
        BY <1>4, <3>1 DEF ExportsInv, ArtifactInv
    <3>3. records[h].path \in DOMAIN files' /\ files'[records[h].path] = records[h].by
        BY <2>2, <2>6, <3>2
    <3>4. export'[records[h].by].at = "done"
        BY <1>2, <3>2
    <3>5. records[h].path.handle = h /\ records[h].by \in whole'
        BY <1>1, <2>4, <3>1, <3>2
    <3> HIDE DEF records
    <3> QED BY <3>1, <3>2, <3>3, <3>4, <3>5
  <2>8. ExportInv'
    <3> SUFFICES ASSUME NEW d \in Exports, export'[d].at \in {"write", "register"}
                 PROVE  HasPath(d)' /\ PathOf(d)' \in DOMAIN files' /\ files'[PathOf(d)'] = d
        BY <1>1, <1>2 DEF ExportsInv, ExportInv
    <3>1. d # e /\ export[d].at \in {"write", "register"}
        BY <1>2
    <3>2. HasPath(d) /\ PathOf(d) \in DOMAIN files /\ files[PathOf(d)] = d
        BY <3>1 DEF ExportsInv, ExportInv
    <3>3. PathOf(d) \notin removed
        BY <2>5, <3>1, <3>2
    <3> QED BY <1>3, <2>2, <3>2, <3>3
  <2>9. FileInv'
    <3>1. ASSUME NEW p \in DOMAIN files', NEW d, d = files[p]
          PROVE  /\ files'[p] = d /\ d \in Exports /\ p \notin gone'
                 /\ HasPath(d)' /\ p = PathOf(d)'
                 /\ export'[d].at \in {"write", "register", "done", "failed"}
      <4>1. p \in DOMAIN files /\ p \notin removed /\ files'[p] = d
          BY <2>2, <3>1
      <4>2. /\ d \in Exports /\ p \notin gone /\ HasPath(d) /\ p = PathOf(d)
            /\ export[d].at \in {"write", "register", "done", "failed"}
          BY <3>1, <4>1 DEF ExportsInv, FileInv
      <4> QED BY <1>2, <1>3, <2>2, <4>1, <4>2
    <3> QED BY <3>1 DEF FileInv, HasPath, PathOf
  <2>10. ReadInv'
      BY <1>1, <2>2 DEF ExportsInv, ReadInv
  <2>11. FilesAreAccounted'
    <3> SUFFICES ASSUME NEW p \in DOMAIN files'
                 PROVE  \/ p.handle \in DOMAIN artifacts' /\ artifacts'[p.handle].path = p
                        \/ export'[files'[p]].at \in {"write", "register", "failed"}
                        \/ p.tool = "execute_sql"
        BY DEF FilesAreAccounted
    <3>1. p \in DOMAIN files /\ p \notin removed /\ files'[p] = files[p] /\ files[p] \in Exports
        BY <2>2 DEF ExportsInv, FileInv
    <3>2. CASE files[p] = e
      <4>1. p = PathOf(e)
          BY <3>1, <3>2 DEF ExportsInv, FileInv
      <4>2. handle \notin evicted
          BY <3>1, <4>1
      <4> QED BY <2>1, <2>3, <4>1, <4>2
    <3>3. CASE p.handle \in DOMAIN artifacts /\ artifacts[p.handle].path = p
      <4>1. p.handle # handle
          BY <3>1, <3>3
      <4>2. records[p.handle].path = p /\ p.handle \in DOMAIN records
          BY <3>3, <4>1
      <4>3. p.handle \notin evicted
          BY <3>1, <4>2
      <4> QED BY <2>1, <4>2, <4>3
    <3>4. CASE files[p] # e /\ export[files[p]].at \in {"write", "register", "failed"}
        BY <1>2, <3>1, <3>4
    <3> QED BY <3>1, <3>2, <3>3, <3>4 DEF ExportsInv, FilesAreAccounted
  <2> QED BY <2>7, <2>8, <2>9, <2>10, <2>11 DEF ExportsInv
<1> QED BY <1>5, <1>6

\* Reading changes nothing, and a read knows what it reads.
LEMMA ReadingKeeps ==
    ASSUME ExportsInv, NEW r \in Reads, LookUp(r) \/ Open(r) \/ Read(r)
    PROVE  ExportsInv'
<1>1. UNCHANGED <<artifacts, gone, files, whole, export>>
    BY DEF LookUp, Open, Read, registryVars, fileVars
<1>2. ExportInv' /\ FileInv'
    BY <1>1 DEF ExportsInv, ExportInv, FileInv, HasPath, PathOf
<1>3. ArtifactInv' /\ FilesAreAccounted'
    BY <1>1 DEF ExportsInv, ArtifactInv, FilesAreAccounted
<1>4. ASSUME NEW entry, read' = [read EXCEPT ![r] = entry],
             entry.at \in {"open", "read", "answered"} => entry.record.by \in whole,
             entry.at = "open" => entry.record.path \in DOMAIN files /\ files[entry.record.path] = entry.record.by,
             entry.at = "read" => entry.file = entry.record.by,
             entry.at = "answered" => entry.text = [of |-> entry.record.by, whole |-> TRUE]
      PROVE  ReadInv'
  <2>1. DOMAIN read' = Reads /\ read'[r] = entry /\ \A q \in Reads \ {r} : read'[q] = read[q]
      BY <1>4 DEF ExportsInv, ReadInv
  <2> QED BY <1>1, <1>4, <2>1 DEF ExportsInv, ReadInv
<1>5. ASSUME LookUp(r) PROVE ReadInv'
  <2>1. PICK h : read' = [read EXCEPT ![r] = IF h \in DOMAIN artifacts THEN [at |-> "open", record |-> artifacts[h]]
                                             ELSE [at |-> "unknown"]]
      BY <1>5 DEF LookUp
  <2>2. CASE h \in DOMAIN artifacts
    <3> DEFINE entry == [at |-> "open", record |-> artifacts[h]]
    <3>1. read' = [read EXCEPT ![r] = entry]
        BY <2>1, <2>2
    <3>2. /\ entry.record.by \in whole /\ entry.record.path \in DOMAIN files
          /\ files[entry.record.path] = entry.record.by /\ entry.at = "open"
        BY <2>2 DEF ExportsInv, ArtifactInv
    <3> HIDE DEF entry
    <3> QED BY <3>1, <3>2, <1>4
  <2>3. CASE h \notin DOMAIN artifacts
    <3> DEFINE entry == [at |-> "unknown"]
    <3>1. read' = [read EXCEPT ![r] = entry] /\ entry.at = "unknown"
        BY <2>1, <2>3
    <3> HIDE DEF entry
    <3> QED BY <3>1, <1>4
  <2> QED BY <2>2, <2>3
<1>6. ASSUME Open(r) PROVE ReadInv'
  <2> DEFINE path == read[r].record.path
  <2>1. /\ read[r].at = "open"
        /\ read' = [read EXCEPT ![r] = IF path \in DOMAIN files
                                       THEN [at |-> "read", record |-> @.record, file |-> files[path]]
                                       ELSE [at |-> "unavailable"]]
      BY <1>6 DEF Open
  <2>2. CASE path \in DOMAIN files
    <3> DEFINE entry == [at |-> "read", record |-> read[r].record, file |-> files[path]]
    <3>1. read' = [read EXCEPT ![r] = entry]
        BY <2>1, <2>2 DEF ExportsInv, ReadInv
    <3>2. entry.at = "read" /\ entry.record.by \in whole /\ entry.file = entry.record.by
        BY <2>1, <2>2 DEF ExportsInv, ReadInv, FileInv
    <3> HIDE DEF entry
    <3> QED BY <3>1, <3>2, <1>4
  <2>3. CASE path \notin DOMAIN files
    <3> DEFINE entry == [at |-> "unavailable"]
    <3>1. read' = [read EXCEPT ![r] = entry] /\ entry.at = "unavailable"
        BY <2>1, <2>3
    <3> HIDE DEF entry
    <3> QED BY <3>1, <1>4
  <2> QED BY <2>2, <2>3
<1>7. ASSUME Read(r) PROVE ReadInv'
  <2> DEFINE entry == [at |-> "answered", record |-> read[r].record,
                       text |-> [of |-> read[r].file, whole |-> read[r].file \in whole]]
  <2>1. read[r].at = "read" /\ read' = [read EXCEPT ![r] = entry]
      BY <1>7 DEF Read, ExportsInv, ReadInv
  <2>2. read[r].file = read[r].record.by /\ read[r].record.by \in whole
      BY <2>1 DEF ExportsInv, ReadInv
  <2>3. /\ entry.at = "answered" /\ entry.record.by \in whole
        /\ entry.text = [of |-> entry.record.by, whole |-> TRUE]
      BY <2>2
  <2> HIDE DEF entry
  <2> QED BY <2>1, <2>3, <1>4
<1>8. ReadInv'
    BY <1>5, <1>6, <1>7
<1> QED BY <1>2, <1>3, <1>8 DEF ExportsInv

-----------------------------------------------------------------------------
(* The queue.                                                              *)

\* Induction: what holds of 0, and of n when it holds of n - 1, holds up to N. A least number
\* for which it fails would exist, and none does.
LEMMA UpTo ==
    ASSUME NEW N \in Nat, NEW Good, 0 \in Good,
           \A n \in 1..N : n - 1 \in Good => n \in Good
    PROVE  0..N \subseteq Good
<1> DEFINE Failing == (0..N) \ Good
           Below == {p \in Nat \X Nat : p[1] < p[2]}
<1>1. SUFFICES ASSUME Failing # {} PROVE FALSE
  OBVIOUS
<1>2. IsWellFoundedOn(Below, Nat)
  BY NatLessThanWellFounded DEF OpToRel
<1>3. PICK m \in Failing : \A n \in Failing : <<n, m>> \notin Below
  <2>1. Failing \in SUBSET Nat
    OBVIOUS
  <2> HIDE DEF Failing, Below
  <2>2. QED
    BY <1>1, <1>2, <2>1, WFMin
<1>4. m - 1 \in Failing /\ <<m - 1, m>> \in Below
  BY <1>3
<1>5. QED
  BY <1>3, <1>4

\* What Retained gathers of the first n entries.
Gathers(queue, set, n, upTo) ==
    upTo = [m \in 0..n |->
              IF m = 0 THEN <<>>
              ELSE IF queue[m] \in set THEN Append(upTo[m - 1], queue[m]) ELSE upTo[m - 1]]

\* It exists: Retained is the last of it.
LEMMA RetainedGathers ==
    ASSUME NEW queue, Len(queue) \in Nat, NEW set
    PROVE  \E upTo : Gathers(queue, set, Len(queue), upTo) /\ Retained(queue, set) = upTo[Len(queue)]
<1> DEFINE N == Len(queue)
           Good == {n \in 0..N : \E upTo : Gathers(queue, set, n, upTo)}
<1>1. 0 \in Good
  <2>1. Gathers(queue, set, 0, [m \in 0..0 |-> <<>>])
      BY DEF Gathers
  <2> QED BY <2>1
<1>2. ASSUME NEW n \in 1..N, n - 1 \in Good PROVE n \in Good
  <2>1. PICK f : Gathers(queue, set, n - 1, f)
      BY <1>2
  <2> DEFINE next == IF queue[n] \in set THEN Append(f[n - 1], queue[n]) ELSE f[n - 1]
             g == [m \in 0..n |-> IF m = n THEN next ELSE f[m]]
             h == [m \in 0..n |-> IF m = 0 THEN <<>>
                                  ELSE IF queue[m] \in set THEN Append(g[m - 1], queue[m]) ELSE g[m - 1]]
  <2>2. ASSUME NEW m \in 0..n PROVE g[m] = h[m]
    <3> HIDE DEF N
    <3>1. CASE m = n
        BY <3>1
    <3>2. CASE m # n
      <4>1. m \in 0..n - 1 /\ g[m] = f[m] /\ (m # 0 => g[m - 1] = f[m - 1])
          BY <3>2
      <4> QED BY <2>1, <4>1 DEF Gathers
    <3> QED BY <3>1, <3>2
  <2>3. g = h
      BY <2>2
  <2>4. Gathers(queue, set, n, g)
      BY <2>3 DEF Gathers
  <2> QED BY <2>4
<1>3. N \in Good
  <2>1. N \in Nat
      OBVIOUS
  <2> HIDE DEF Good, N
  <2>2. \A n \in 1..N : n - 1 \in Good => n \in Good
      BY <1>2
  <2>3. 0..N \subseteq Good
      BY <1>1, <2>1, <2>2, UpTo
  <2> QED BY <2>1, <2>3
<1> DEFINE last == CHOOSE upTo : Gathers(queue, set, N, upTo)
<1>4. Gathers(queue, set, N, last)
    BY <1>3
<1>5. Retained(queue, set) = last[N]
    BY DEF Retained, Gathers
<1> QED BY <1>4, <1>5

\* Appending, as a function.
LEMMA AppendIs ==
    ASSUME NEW S, NEW s \in Seq(S), NEW x \in S
    PROVE  Append(s, x) = [i \in 1..Len(s) + 1 |-> IF i = Len(s) + 1 THEN x ELSE s[i]]
<1> DEFINE longer == Append(s, x)
<1>1. longer \in Seq(S) /\ Len(longer) = Len(s) + 1
    OBVIOUS
<1>2. \A i \in 1..Len(s) + 1 : longer[i] = IF i = Len(s) + 1 THEN x ELSE s[i]
    OBVIOUS
<1> HIDE DEF longer
<1>3. longer \in [1..Len(s) + 1 -> S]
    BY <1>1
<1>4. longer = [i \in 1..Len(s) + 1 |-> longer[i]]
    BY <1>3
<1> QED BY <1>2, <1>4 DEF longer

\* A queue of which all is retained stays as it is.
LEMMA RetainedAll ==
    ASSUME NEW S, NEW queue \in Seq(S), NEW set, \A i \in DOMAIN queue : queue[i] \in set
    PROVE  Retained(queue, set) = queue
<1> DEFINE N == Len(queue)
<1>1. N \in Nat /\ DOMAIN queue = 1..N /\ \A i \in 1..N : queue[i] \in S
    OBVIOUS
<1>2. PICK upTo : Gathers(queue, set, N, upTo) /\ Retained(queue, set) = upTo[N]
    BY <1>1, RetainedGathers
<1> HIDE DEF N
<1>10. \A n \in 0..N : upTo[n] = IF n = 0 THEN <<>>
                                ELSE IF queue[n] \in set THEN Append(upTo[n - 1], queue[n]) ELSE upTo[n - 1]
    BY <1>2 DEF Gathers
<1> DEFINE Good == {n \in 0..N : upTo[n] = [i \in 1..n |-> queue[i]]}
<1> HIDE DEF N
<1>3. 0 \in Good
    BY <1>1, <1>10
<1>4. ASSUME NEW n \in 1..N, n - 1 \in Good PROVE n \in Good
  <2>0. queue[n] \in set /\ n \in 0..N /\ n # 0
      BY <1>1
  <2>1. upTo[n] = Append(upTo[n - 1], queue[n])
      BY <1>10, <2>0
  <2>2. upTo[n - 1] = [i \in 1..n - 1 |-> queue[i]] /\ upTo[n - 1] \in Seq(S)
    <3>1. n - 1 \in Nat /\ \A i \in 1..n - 1 : i \in 1..N
        BY <1>1
    <3>2. upTo[n - 1] = [i \in 1..n - 1 |-> queue[i]] /\ upTo[n - 1] \in [1..n - 1 -> S]
        BY <1>1, <1>4, <3>1
    <3> QED BY <3>1, <3>2
  <2>3. queue[n] \in S /\ Len(upTo[n - 1]) = n - 1
      BY <1>1, <2>2
  <2>4. Append(upTo[n - 1], queue[n]) = [i \in 1..n |-> IF i = n THEN queue[n] ELSE upTo[n - 1][i]]
      BY <2>2, <2>3, AppendIs
  <2>5. [i \in 1..n |-> IF i = n THEN queue[n] ELSE upTo[n - 1][i]] = [i \in 1..n |-> queue[i]]
      BY <2>2
  <2> QED BY <2>1, <2>4, <2>5
<1>5. N \in Good
  <2> HIDE DEF Good
  <2> QED BY <1>1, <1>3, <1>4, UpTo
<1>6. queue = [i \in 1..N |-> queue[i]]
    BY <1>1
<1> QED BY <1>2, <1>5, <1>6

\* Retaining all but one entry of a queue without repetitions closes the gap.
LEMMA RetainedOthers ==
    ASSUME NEW S, NEW queue \in Seq(S), IsInjective(queue), NEW k \in DOMAIN queue
    PROVE  Retained(queue, ToSet(queue) \ {queue[k]})
              = [i \in 1..Len(queue) - 1 |-> IF i < k THEN queue[i] ELSE queue[i + 1]]
<1> DEFINE N == Len(queue)
           set == ToSet(queue) \ {queue[k]}
           Shifted(n) == [i \in 1..(IF n < k THEN n ELSE n - 1) |-> IF i < k THEN queue[i] ELSE queue[i + 1]]
<1>1. N \in Nat /\ DOMAIN queue = 1..N /\ k \in 1..N /\ \A i \in 1..N : queue[i] \in S
    OBVIOUS
<1>3. \A i \in 1..N : queue[i] \in set <=> i # k
    BY <1>1 DEF ToSet, IsInjective
<1>2. PICK upTo : Gathers(queue, set, N, upTo) /\ Retained(queue, set) = upTo[N]
    BY <1>1, RetainedGathers
<1> HIDE DEF N
<1>10. \A n \in 0..N : upTo[n] = IF n = 0 THEN <<>>
                                ELSE IF queue[n] \in set THEN Append(upTo[n - 1], queue[n]) ELSE upTo[n - 1]
    BY <1>2 DEF Gathers
<1> DEFINE Good == {n \in 0..N : upTo[n] = Shifted(n)}
<1> HIDE DEF N, set
<1>4. 0 \in Good
    BY <1>1, <1>10
<1>5. ASSUME NEW n \in 1..N, n - 1 \in Good PROVE n \in Good
  <2>1. upTo[n - 1] = Shifted(n - 1) /\ upTo[n - 1] \in Seq(S)
    <3> DEFINE l == IF n - 1 < k THEN n - 1 ELSE n - 2
    <3>1. l \in Nat /\ \A i \in 1..l : i \in 1..N /\ (i >= k => i + 1 \in 1..N)
        BY <1>1
    <3>2. upTo[n - 1] = Shifted(n - 1) /\ Shifted(n - 1) \in [1..l -> S]
        BY <1>1, <1>5, <3>1
    <3> HIDE DEF Shifted, l
    <3> QED BY <3>1, <3>2
  <2>2. upTo[n] = IF n # k THEN Append(upTo[n - 1], queue[n]) ELSE upTo[n - 1]
      BY <1>1, <1>3, <1>10
  <2>3. CASE n = k
      BY <2>1, <2>2, <2>3
  <2>4. CASE n # k
    <3> DEFINE l == IF n < k THEN n ELSE n - 1
    <3>1. /\ l \in Nat /\ DOMAIN upTo[n - 1] = 1..l - 1 /\ Len(upTo[n - 1]) = l - 1 /\ queue[n] \in S
          /\ \A i \in 1..l - 1 : upTo[n - 1][i] = IF i < k THEN queue[i] ELSE queue[i + 1]
        BY <1>1, <2>1, <2>4
    <3>2. queue[n] = IF l < k THEN queue[l] ELSE queue[l + 1]
        BY <1>1, <2>4
    <3> HIDE DEF l
    <3>3. upTo[n] = [i \in 1..l |-> IF i = l THEN queue[n] ELSE upTo[n - 1][i]]
        BY <2>1, <2>2, <2>4, <3>1, AppendIs
    <3>4. ASSUME NEW i \in 1..l
          PROVE  (IF i = l THEN queue[n] ELSE upTo[n - 1][i]) = IF i < k THEN queue[i] ELSE queue[i + 1]
      <4>1. CASE i = l
          BY <3>1, <3>2, <4>1
      <4>2. CASE i # l
          BY <3>1, <4>2
      <4> QED BY <4>1, <4>2
    <3>5. upTo[n] = [i \in 1..l |-> IF i < k THEN queue[i] ELSE queue[i + 1]]
        BY <3>3, <3>4
    <3> QED BY <3>5 DEF l
  <2> QED BY <1>1, <2>3, <2>4
<1>6. N \in Good
  <2> HIDE DEF Good
  <2>1. \A n \in 1..N : n - 1 \in Good => n \in Good
      BY <1>5
  <2>2. 0..N \subseteq Good
      BY <1>1, <1>4, <2>1, UpTo
  <2> QED BY <1>1, <2>2
<1> QED BY <1>1, <1>2, <1>6 DEF N, set

\* A queue without repetitions has as many entries as its set.
LEMMA QueueSize ==
    ASSUME NEW S, NEW queue \in Seq(S), IsInjective(queue)
    PROVE  IsFiniteSet(ToSet(queue)) /\ Cardinality(ToSet(queue)) = Len(queue)
<1> DEFINE N == Len(queue)
           T == ToSet(queue)
<1>1. N \in Nat /\ DOMAIN queue = 1..N /\ queue \in [1..N -> T]
    BY DEF ToSet
<1>2. \A i, j \in 1..N : queue[i] = queue[j] => i = j
    BY <1>1 DEF IsInjective
<1>3. \A t \in T : \E i \in 1..N : queue[i] = t
    BY <1>1 DEF ToSet
<1> HIDE DEF N, T
<1>4. queue \in Bijection(1..N, T)
  <2>1. queue \in Injection(1..N, T)
      BY <1>1, <1>2 DEF Injection, IsInjective
  <2>2. queue \in Surjection(1..N, T)
      BY <1>1, <1>3 DEF Surjection
  <2> QED BY <2>1, <2>2 DEF Bijection
<1>5. ExistsBijection(1..N, T)
    BY <1>4 DEF ExistsBijection
<1>6. IsFiniteSet(1..N) /\ Cardinality(1..N) = N
    BY <1>1, FS_Interval
<1>7. IsFiniteSet(T) /\ Cardinality(T) = N
    BY <1>5, <1>6, FS_Bijection
<1> QED BY <1>7 DEF N, T

\* An artifact takes the last place; of the others none is missing, and each comes nearer to its
\* turn by one place at most.
LEMMA Queued ==
    ASSUME OrderInv, NEW handle \in Handles
    PROVE  LET queue == Queue(handle)
           IN  /\ queue \in Seq(Handles) /\ IsInjective(queue)
               /\ ToSet(queue) = DOMAIN artifacts \cup {handle}
               /\ Len(queue) \in 1..MaxEntries + 1 /\ queue[Len(queue)] = handle
               /\ \A j \in 1..Len(queue) - 1 :
                    \E i \in DOMAIN order : order[i] = queue[j] /\ Len(queue) - j <= Len(order) - i + 1
<1> DEFINE N == Len(order)
           queue == Queue(handle)
<1>1. /\ order \in Seq(Handles) /\ IsInjective(order) /\ ToSet(order) = DOMAIN artifacts
      /\ N \in Nat /\ N <= MaxEntries /\ DOMAIN order = 1..N
      /\ \A i \in 1..N : order[i] \in Handles
    BY DEF OrderInv
<1>2. /\ \A i, j \in 1..N : order[i] = order[j] => i = j
      /\ \A h : h \in DOMAIN artifacts <=> \E i \in 1..N : order[i] = h
    BY <1>1 DEF IsInjective, ToSet
<1>3. CASE handle \notin DOMAIN artifacts
  <2>1. queue = [i \in 1..N + 1 |-> IF i = N + 1 THEN handle ELSE order[i]]
      BY <1>1, <1>3, AppendIs DEF Queue
  <2> HIDE DEF queue, N
  <2>2. /\ DOMAIN queue = 1..N + 1 /\ queue[N + 1] = handle
        /\ \A i \in 1..N : queue[i] = order[i]
      BY <1>1, <2>1
  <2>3. queue \in Seq(Handles) /\ Len(queue) = N + 1
    <3>1. queue \in [1..N + 1 -> Handles]
        BY <1>1, <2>1
    <3> QED BY <1>1, <3>1
  <2>4. IsInjective(queue)
      BY <1>1, <1>2, <1>3, <2>2 DEF IsInjective
  <2>5. ToSet(queue) = DOMAIN artifacts \cup {handle}
      BY <1>1, <1>2, <2>2 DEF ToSet
  <2>6. \A j \in 1..Len(queue) - 1 :
           \E i \in DOMAIN order : order[i] = queue[j] /\ Len(queue) - j <= N - i + 1
    <3> SUFFICES ASSUME NEW j \in 1..N PROVE order[j] = queue[j] /\ N + 1 - j <= N - j + 1
        BY <1>1, <2>3
    <3> QED BY <1>1, <2>2
  <2>7. Len(queue) \in 1..MaxEntries + 1 /\ queue[Len(queue)] = handle
      BY <1>1, <2>2, <2>3, LimitKnown
  <2> QED BY <2>3, <2>4, <2>5, <2>6, <2>7 DEF queue, N
<1>4. CASE handle \in DOMAIN artifacts
  <2>1. PICK k \in 1..N : order[k] = handle
      BY <1>2, <1>4
  <2> DEFINE others == [i \in 1..N - 1 |-> IF i < k THEN order[i] ELSE order[i + 1]]
  <2>2. Retained(order, ToSet(order) \ {handle}) = others
      BY <1>1, <2>1, RetainedOthers
  <2>3. others \in Seq(Handles) /\ Len(others) = N - 1
    <3> HIDE DEF N
    <3>1. N - 1 \in Nat /\ others \in [1..N - 1 -> Handles]
        BY <1>1, <2>1
    <3> QED BY <3>1
  <2>4. queue = [i \in 1..N |-> IF i = N THEN handle ELSE others[i]]
    <3>1. queue = Append(others, handle)
        BY <1>4, <2>2 DEF Queue
    <3>2. N - 1 + 1 = N
        BY <1>1
    <3> HIDE DEF others, queue, N
    <3> QED BY <2>3, <3>1, <3>2, AppendIs
  <2> HIDE DEF queue, N
  <2>5. /\ DOMAIN queue = 1..N /\ queue[N] = handle
        /\ \A i \in 1..N - 1 : queue[i] = IF i < k THEN order[i] ELSE order[i + 1]
      BY <1>1, <2>1, <2>4
  <2> HIDE DEF others
  <2>6. queue \in Seq(Handles) /\ Len(queue) = N
    <3>1. queue \in [1..N -> Handles]
        BY <1>1, <2>1, <2>3, <2>4
    <3> QED BY <1>1, <3>1
  <2>7. IsInjective(queue)
    <3>1. ASSUME NEW i \in 1..N, NEW j \in 1..N, queue[i] = queue[j] PROVE i = j
        BY <1>1, <1>2, <2>1, <2>5, <3>1
    <3> QED BY <2>5, <3>1 DEF IsInjective
  <2>8. ToSet(queue) = DOMAIN artifacts \cup {handle}
    <3>1. ASSUME NEW i \in 1..N PROVE \E j \in 1..N : queue[j] = order[i]
      <4>1. CASE i < k
          BY <1>1, <2>1, <2>5, <4>1
      <4>2. CASE i = k
          BY <1>1, <2>1, <2>5, <4>2
      <4>3. CASE i > k
        <5>1. i - 1 \in 1..N - 1 /\ ~(i - 1 < k) /\ i - 1 + 1 = i
            BY <1>1, <2>1, <4>3
        <5>2. queue[i - 1] = order[i]
            BY <2>5, <5>1
        <5> QED BY <1>1, <5>1, <5>2
      <4> QED BY <1>1, <2>1, <4>1, <4>2, <4>3
    <3>2. ASSUME NEW j \in 1..N PROVE \E i \in 1..N : queue[j] = order[i]
        BY <1>1, <2>1, <2>5
    <3>3. \A h : h \in ToSet(queue) <=> \E j \in 1..N : queue[j] = h
        BY <2>5 DEF ToSet
    <3>4. ASSUME NEW h \in ToSet(queue) PROVE h \in DOMAIN artifacts
        BY <1>2, <3>2, <3>3
    <3>5. ASSUME NEW h \in DOMAIN artifacts PROVE h \in ToSet(queue)
      <4>1. PICK i \in 1..N : order[i] = h
          BY <1>2
      <4> QED BY <3>1, <3>3, <4>1
    <3> QED BY <1>4, <3>4, <3>5
  <2>9. ASSUME NEW j \in 1..N - 1
        PROVE  \E i \in 1..N : order[i] = queue[j] /\ N - j <= N - i + 1
    <3>1. CASE j < k
        BY <1>1, <2>1, <2>5, <3>1
    <3>2. CASE ~(j < k)
      <4>1. j + 1 \in 1..N /\ order[j + 1] = queue[j] /\ N - j <= N - (j + 1) + 1
          BY <1>1, <2>1, <2>5, <3>2
      <4> QED BY <4>1
    <3> QED BY <3>1, <3>2
  <2>10. Len(queue) \in 1..MaxEntries + 1 /\ queue[Len(queue)] = handle
      BY <1>1, <2>1, <2>5, <2>6, LimitKnown
  <2>11. \A j \in 1..Len(queue) - 1 :
            \E i \in DOMAIN order : order[i] = queue[j] /\ Len(queue) - j <= N - i + 1
      BY <1>1, <2>6, <2>9
  <2> QED BY <2>6, <2>7, <2>8, <2>10, <2>11 DEF queue, N
<1> QED BY <1>3, <1>4

\* The records that are too many are one at most, and the oldest.
LEMMA Popped ==
    ASSUME NEW queue \in Seq(Handles), IsInjective(queue), Len(queue) \in 1..MaxEntries + 1
    PROVE  Pops(queue, ToSet(queue)) = IF Len(queue) <= MaxEntries THEN 0 ELSE 1
<1> DEFINE left(n) == ToSet(queue) \ ToSet(SubSeq(queue, 1, n))
           Fits(n) == /\ ~(Cardinality(left(n)) > MaxEntries) \/ n = Len(queue)
                      /\ \A m \in 0..n - 1 : Cardinality(left(m)) > MaxEntries
<1>1. Pops(queue, ToSet(queue)) = CHOOSE n \in 0..Len(queue) : Fits(n)
    BY DEF Pops, TooMany
<1>2. left(0) = ToSet(queue)
  <2>1. ToSet(SubSeq(queue, 1, 0)) = {}
      BY DEF ToSet
  <2> QED BY <2>1
<1>3. IsFiniteSet(ToSet(queue)) /\ Cardinality(ToSet(queue)) = Len(queue)
    BY QueueSize
<1>4. MaxEntries \in Nat \ {0} /\ Len(queue) \in Nat /\ Len(queue) <= MaxEntries + 1 /\ Len(queue) >= 1
    BY LimitKnown
<1>5. CASE Len(queue) <= MaxEntries
  <2>1. Cardinality(left(0)) = Len(queue)
      BY <1>2, <1>3
  <2> HIDE DEF left
  <2>2. Fits(0)
      BY <1>4, <1>5, <2>1
  <2>3. \A n \in 0..Len(queue) : Fits(n) => n = 0
      BY <1>4, <1>5, <2>1
  <2> HIDE DEF Fits
  <2> QED BY <1>1, <1>4, <1>5, <2>2, <2>3
<1>6. CASE ~(Len(queue) <= MaxEntries)
  <2>1. left(1) = ToSet(queue) \ {queue[1]} /\ queue[1] \in ToSet(queue)
    <3>1. DOMAIN SubSeq(queue, 1, 1) = {1} /\ SubSeq(queue, 1, 1)[1] = queue[1]
        BY <1>4
    <3>2. ToSet(SubSeq(queue, 1, 1)) = {queue[1]} /\ queue[1] \in ToSet(queue)
        BY <1>4, <3>1 DEF ToSet
    <3> QED BY <3>2
  <2>2. Cardinality(left(1)) = Len(queue) - 1
      BY <1>3, <2>1, FS_RemoveElement
  <2> HIDE DEF left
  <2>3. Cardinality(left(0)) = MaxEntries + 1 /\ Cardinality(left(1)) = MaxEntries
      BY <1>2, <1>3, <1>4, <1>6, <2>2
  <2>4. Fits(1)
      BY <1>4, <2>3
  <2>5. \A n \in 0..Len(queue) : Fits(n) => n = 1
    <3> SUFFICES ASSUME NEW n \in 0..Len(queue), Fits(n), n # 1 PROVE FALSE
        OBVIOUS
    <3>1. CASE n = 0
        BY <1>4, <1>6, <2>3, <3>1
    <3>2. CASE n > 1
        BY <1>4, <2>3, <3>2
    <3> QED BY <3>1, <3>2
  <2> HIDE DEF Fits
  <2> QED BY <1>1, <1>4, <1>6, <2>4, <2>5
<1> QED BY <1>5, <1>6

\* An export that registers nothing leaves the queue as good as it was.
LEMMA QuietQueue ==
    ASSUME OrderInv, PlaceInv, NEW e \in Exports, UNCHANGED registryVars,
           \A d \in Exports \ {e} : export'[d] = export[d],
           ~At(e, "done"), ~Registered(e)',
           export'[e].at \in {"write", "register", "done"} => HasPath(e)' /\ export'[e].handle \in Handles
    PROVE  QueueInv'
<1>1. UNCHANGED <<artifacts, order, later>>
    BY DEF registryVars
<1>2. \A d \in Exports \ {e} : /\ At(d, "done")' = At(d, "done") /\ Registered(d)' = Registered(d)
                               /\ HasPath(d)' = HasPath(d) /\ export'[d].handle = export[d].handle
    BY DEF At, Registered, HasPath
<1>3. OrderInv'
    BY <1>1, <1>2 DEF OrderInv, At
<1>4. ~Registered(e)
    BY DEF Registered
<1>5. PlaceInv'
    BY <1>1, <1>2, <1>4 DEF PlaceInv
<1> QED BY <1>3, <1>5 DEF QueueInv

\* Registering lists the artifact as the newest, and drops none that has not had its time.
LEMMA RegisteringQueue ==
    ASSUME ExportInv, QueueInv, NEW e \in Exports, Finish(e), export[e].request.tool # "execute_sql"
    PROVE  QueueInv'
<1> DEFINE handle == export[e].handle
           queue == Queue(handle)
           record == [path |-> Path(export[e].request.tool, handle, export[e].request.format), by |-> e]
           records == [h \in DOMAIN artifacts \cup {handle} |-> IF h = handle THEN record ELSE artifacts[h]]
           n == Pops(queue, DOMAIN records)
           evicted == DOMAIN records \cap ToSet(SubSeq(queue, 1, n))
<1>1. /\ export[e].at = "register" /\ Goes(e, "done")
      /\ artifacts' = [h \in DOMAIN records \ evicted |-> records[h]]
      /\ order' = SubSeq(queue, n + 1, Len(queue))
      /\ later' = [d \in Exports |-> IF At(d, "done") THEN later[d] + 1 ELSE later[d]]
    BY DEF Finish, Register, At
<1>2. HasPath(e) /\ handle \in Handles /\ ~At(e, "done") /\ later[e] = 0
    BY <1>1 DEF QueueInv, OrderInv, At
<1>3. \A d \in Exports :
         /\ At(d, "done")' <=> At(d, "done") \/ d = e
         /\ Registered(d)' <=> Registered(d) \/ d = e
         /\ "handle" \in DOMAIN export[d] => export'[d].handle = export[d].handle
         /\ HasPath(d) => HasPath(d)'
  <2>1. \A d \in Exports :
           /\ DOMAIN export'[d] = DOMAIN export[d]
           /\ export'[d].at = IF d = e THEN "done" ELSE export[d].at
           /\ "request" \in DOMAIN export[d] => export'[d].request = export[d].request
           /\ "handle" \in DOMAIN export[d] => export'[d].handle = export[d].handle
      BY <1>1, GoesKeeps
  <2>2. \A d \in Exports : export[d].at = "done" \/ d = e => "request" \in DOMAIN export[d]
      BY <1>1 DEF ExportInv
  <2> QED BY <1>1, <2>1, <2>2 DEF HasPath, At, Registered
<1>4. \A d \in Exports : Registered(d) => "handle" \in DOMAIN export[d] /\ d # e
    BY <1>1 DEF QueueInv, OrderInv, Registered, At, HasPath
<1>5. /\ queue \in Seq(Handles) /\ IsInjective(queue) /\ ToSet(queue) = DOMAIN artifacts \cup {handle}
      /\ Len(queue) \in 1..MaxEntries + 1 /\ queue[Len(queue)] = handle
      /\ \A j \in 1..Len(queue) - 1 :
           \E i \in DOMAIN order : order[i] = queue[j] /\ Len(queue) - j <= Len(order) - i + 1
    BY <1>2, Queued DEF QueueInv
<1>6. n = IF Len(queue) <= MaxEntries THEN 0 ELSE 1
    BY <1>5, Popped
<1> DEFINE N == Len(queue)
<1>7. /\ N \in Nat /\ N >= 1 /\ N <= MaxEntries + 1 /\ DOMAIN queue = 1..N
      /\ n \in {0, 1} /\ n < N /\ N - n <= MaxEntries /\ MaxEntries \in Nat \ {0}
      /\ n = 1 => N = MaxEntries + 1
      /\ Len(order) \in Nat /\ DOMAIN order = 1..Len(order)
      /\ \A i, j \in 1..N : queue[i] = queue[j] => i = j
      /\ \A i \in 1..N : queue[i] \in Handles
    BY <1>5, <1>6, LimitKnown DEF QueueInv, OrderInv, IsInjective
<1>8. evicted = IF n = 0 THEN {} ELSE {queue[1]}
  <2>1. ToSet(SubSeq(queue, 1, n)) = {queue[i] : i \in 1..n}
    <3> HIDE DEF queue, n
    <3>1. DOMAIN SubSeq(queue, 1, n) = 1..n /\ \A i \in 1..n : SubSeq(queue, 1, n)[i] = queue[i]
        BY <1>5, <1>7
    <3> QED BY <3>1 DEF ToSet
  <2>2. DOMAIN records = ToSet(queue) /\ queue[1] \in ToSet(queue)
      BY <1>5, <1>7 DEF ToSet
  <2>3. n = 0 => {queue[i] : i \in 1..n} = {}
      BY <1>7
  <2>4. n = 1 => {queue[i] : i \in 1..n} = {queue[1]}
      BY <1>7
  <2> HIDE DEF queue, n, records
  <2> QED BY <1>7, <2>1, <2>2, <2>3, <2>4
<1>9. /\ DOMAIN artifacts' = ToSet(queue) \ evicted
      /\ handle \in DOMAIN artifacts' /\ artifacts'[handle].by = e
      /\ \A h \in DOMAIN artifacts' : h # handle => artifacts'[h] = artifacts[h] /\ h \in DOMAIN artifacts
  <2>1. handle \notin evicted
    <3> HIDE DEF handle, queue, n, evicted
    <3> QED BY <1>5, <1>7, <1>8
  <2>2. DOMAIN records = ToSet(queue)
      BY <1>5
  <2> QED BY <1>1, <2>1, <2>2, <1>5
<1> HIDE DEF handle, queue, record, records, n, evicted, N
<1>10. /\ order' \in Seq(Handles) /\ Len(order') = N - n /\ DOMAIN order' = 1..N - n
       /\ \A i \in 1..N - n : i + n \in 1..N /\ order'[i] = queue[i + n]
  <2>1. N = Len(queue)
      BY DEF N
  <2>2. n + 1 \in 1..N /\ N \in 1..N /\ N - (n + 1) + 1 = N - n /\ n \in Nat
      BY <1>7
  <2>3. order' \in Seq(Handles) /\ Len(order') = N - n
      BY <1>1, <1>5, <2>1, <2>2
  <2>4. ASSUME NEW i \in 1..N - n PROVE i + n \in 1..N /\ order'[i] = queue[i + n]
      BY <1>1, <1>5, <2>1, <2>2
  <2> QED BY <2>3, <2>4
<1>11. \A d \in Exports : later'[d] = IF At(d, "done") THEN later[d] + 1 ELSE later[d]
    BY <1>1
<1>12. OrderInv'
  <2>1. \A d \in Exports : export'[d].at \in {"write", "register", "done"} => HasPath(d)' /\ export'[d].handle \in Handles
    <3> SUFFICES ASSUME NEW d \in Exports, export'[d].at \in {"write", "register", "done"}
                 PROVE  HasPath(d)' /\ export'[d].handle \in Handles
        OBVIOUS
    <3>1. export[d].at \in {"write", "register", "done"}
        BY <1>1, GoesKeeps
    <3>2. HasPath(d) /\ export[d].handle \in Handles
        BY <3>1 DEF QueueInv, OrderInv
    <3> QED BY <1>3, <3>2 DEF HasPath
  <2>2. \A d \in Exports : later'[d] \in Nat /\ (~At(d, "done")' => later'[d] = 0)
      BY <1>3, <1>11 DEF QueueInv, OrderInv
  <2>3. IsInjective(order')
      BY <1>7, <1>10 DEF IsInjective
  <2>4. ToSet(order') = DOMAIN artifacts'
    <3>1. \A h : h \in ToSet(order') <=> \E i \in 1..N - n : queue[i + n] = h
        BY <1>10 DEF ToSet
    <3>2. \A h : h \in ToSet(queue) <=> \E i \in 1..N : queue[i] = h
        BY <1>7 DEF ToSet
    <3>3. ASSUME NEW h, h \in ToSet(order') PROVE h \in DOMAIN artifacts'
      <4>1. PICK i \in 1..N - n : queue[i + n] = h
          BY <3>1, <3>3
      <4>2. i + n \in 1..N /\ (n = 1 => i + n # 1)
          BY <1>7
      <4> QED BY <1>7, <1>8, <1>9, <3>2, <4>1, <4>2
    <3>4. ASSUME NEW h, h \in DOMAIN artifacts' PROVE h \in ToSet(order')
      <4>1. PICK i \in 1..N : queue[i] = h
          BY <1>9, <3>2, <3>4
      <4>2. n = 1 => i # 1
          BY <1>8, <1>9, <3>4, <4>1
      <4>3. i - n \in 1..N - n /\ i - n + n = i
          BY <1>7, <4>2
      <4> QED BY <3>1, <4>1, <4>3
    <3> QED BY <3>3, <3>4
  <2>5. Len(order') <= MaxEntries
      BY <1>7, <1>10
  <2> QED BY <1>10, <2>1, <2>2, <2>3, <2>4, <2>5 DEF OrderInv, At
<1>13. ASSUME NEW i \in DOMAIN order', NEW by, by = artifacts'[order'[i]].by
       PROVE  /\ by \in Exports /\ Registered(by)' /\ export'[by].handle = order'[i]
              /\ Len(order') - i <= later'[by]
              /\ \A d \in Exports \ {by} : Registered(d)' /\ export'[d].handle = order'[i] => later'[by] < later'[d]
  <2>1. i \in 1..N - n /\ i + n \in 1..N /\ order'[i] = queue[i + n] /\ order'[i] \in DOMAIN artifacts'
      BY <1>10, <1>12 DEF OrderInv, ToSet
  <2>2. CASE i + n = N
    <3>1. order'[i] = handle /\ by = e
        BY <1>5, <1>9, <1>13, <2>1, <2>2 DEF N
    <3>2. Registered(e)' /\ export'[e].handle = handle
        BY <1>2, <1>3 DEF HasPath, handle
    <3>3. Len(order') - i = 0 /\ later'[e] = 0
        BY <1>2, <1>7, <1>10, <1>11, <2>1, <2>2
    <3>4. ASSUME NEW d \in Exports \ {e}, Registered(d)' PROVE later'[e] < later'[d]
      <4>1. At(d, "done") /\ later[d] \in Nat
          BY <1>3, <3>4 DEF Registered, QueueInv, OrderInv
      <4> QED BY <1>11, <3>3, <4>1
    <3> QED BY <3>1, <3>2, <3>3, <3>4
  <2>3. CASE i + n # N
    <3>1. i + n \in 1..N - 1 /\ Len(order') - i = N - (i + n)
      <4>1. Len(order') = N - n /\ N \in Nat /\ n \in Nat /\ i \in Nat
          BY <1>7, <1>10, <2>1
      <4>2. i + n \in 1..N - 1
          BY <2>1, <2>3, <4>1
      <4>3. N - n - i = N - (i + n)
          BY <4>1
      <4> QED BY <4>1, <4>2, <4>3
    <3>2. PICK k \in DOMAIN order : order[k] = order'[i] /\ N - (i + n) <= Len(order) - k + 1
        BY <1>5, <2>1, <3>1 DEF N
    <3>3. order'[i] # handle
      <4>1. queue[i + n] # queue[N]
          BY <1>7, <2>1, <2>3
      <4> QED BY <1>5, <2>1, <4>1 DEF N
    <3>4. by = artifacts[order'[i]].by
        BY <1>9, <1>13, <2>1, <3>3
    <3>5. /\ by \in Exports /\ Registered(by) /\ export[by].handle = order'[i]
          /\ Len(order) - k <= later[by]
          /\ \A d \in Exports \ {by} : Registered(d) /\ export[d].handle = order'[i] => later[by] < later[d]
        BY <3>2, <3>4 DEF QueueInv, PlaceInv
    <3>6. Registered(by)' /\ export'[by].handle = order'[i] /\ At(by, "done")
        BY <1>3, <1>4, <3>5 DEF Registered
    <3>7. later[by] \in Nat /\ later'[by] = later[by] + 1
        BY <1>11, <3>5, <3>6 DEF QueueInv, OrderInv
    <3>8. Len(order') - i <= later'[by]
      <4>1. Len(order) - k + 1 \in Int /\ Len(order) - k \in Int /\ N - (i + n) \in Int
          BY <1>7, <2>1, <3>2
      <4>2. Len(order) - k <= later[by] /\ N - (i + n) <= Len(order) - k + 1
          BY <3>2, <3>5
      <4>3. Len(order) - k + 1 <= later[by] + 1
          BY <1>7, <3>7, <4>1, <4>2
      <4> QED BY <3>1, <3>7, <4>1, <4>2, <4>3
    <3>9. ASSUME NEW d \in Exports \ {by}, Registered(d)', export'[d].handle = order'[i]
          PROVE  later'[by] < later'[d]
      <4>1. d # e
          BY <1>2, <1>3, <3>3, <3>9 DEF HasPath, handle
      <4>2. Registered(d) /\ export[d].handle = order'[i] /\ At(d, "done")
          BY <1>3, <1>4, <3>9, <4>1 DEF Registered
      <4>3. later[by] < later[d] /\ later[d] \in Nat /\ later'[d] = later[d] + 1
          BY <1>11, <3>5, <4>2 DEF QueueInv, OrderInv
      <4> QED BY <3>7, <4>3
    <3> QED BY <3>5, <3>6, <3>8, <3>9
  <2> QED BY <2>2, <2>3
<1>14. ASSUME NEW d \in Exports, Registered(d)', later'[d] < MaxEntries
       PROVE  export'[d].handle \in DOMAIN artifacts'
  <2>1. CASE d = e
      BY <1>2, <1>3, <1>9, <2>1 DEF HasPath, handle
  <2>2. CASE d # e
    <3>1. Registered(d) /\ At(d, "done") /\ export'[d].handle = export[d].handle
        BY <1>3, <1>4, <1>14, <2>2 DEF Registered
    <3>2. later[d] \in Nat /\ later'[d] = later[d] + 1
        BY <1>11, <3>1 DEF QueueInv, OrderInv
    <3>3. export[d].handle \in DOMAIN artifacts
        BY <1>7, <1>14, <3>1, <3>2 DEF QueueInv, PlaceInv
    <3>4. ASSUME export[d].handle \in evicted PROVE FALSE
      <4>1. n = 1 /\ N = MaxEntries + 1 /\ export[d].handle = queue[1] /\ 1 \in 1..N - 1
          BY <1>7, <1>8, <3>4
      <4>2. PICK k \in DOMAIN order : order[k] = queue[1] /\ N - 1 <= Len(order) - k + 1
          BY <1>5, <4>1 DEF N
      <4> DEFINE by == artifacts[order[k]].by
      <4>3. /\ by \in Exports /\ Len(order) - k <= later[by]
            /\ \A c \in Exports \ {by} : Registered(c) /\ export[c].handle = order[k] => later[by] < later[c]
          BY <4>2 DEF QueueInv, PlaceInv
      <4> HIDE DEF by
      <4>4. later[by] \in Nat /\ later[by] <= later[d]
          BY <3>1, <3>2, <4>1, <4>2, <4>3 DEF QueueInv, OrderInv
      <4> QED BY <1>7, <1>14, <3>2, <4>1, <4>2, <4>3, <4>4
    <3> QED BY <1>5, <1>9, <3>1, <3>3, <3>4
  <2> QED BY <2>1, <2>2
<1>15. PlaceInv'
    BY <1>13, <1>14 DEF PlaceInv, Registered, At
<1> QED BY <1>12, <1>15 DEF QueueInv

-----------------------------------------------------------------------------
\* At first there are neither exports nor files.
LEMMA ExportsInit == Init => ExportsInv
<1> SUFFICES ASSUME Init PROVE ExportsInv
    OBVIOUS
<1>1. DOMAIN artifacts = {} /\ DOMAIN files = {}
    BY DEF Init
<1> QED BY <1>1 DEF Init, ExportsInv, ExportInv, FileInv, ArtifactInv, ReadInv, FilesAreAccounted, Idle

\* Every step keeps what is known of exports and files.
LEMMA ExportsStep == ExportsInv /\ [Next]_vars => ExportsInv'
<1> SUFFICES ASSUME ExportsInv, [Next]_vars PROVE ExportsInv'
    OBVIOUS
<1>1. ASSUME NEW e \in Exports, Describe(e) \/ Query(e) \/ Cancel(e) \/ CreateFails(e) PROVE ExportsInv'
  <2>1. PICK place \in {"query", "create", "failed", "canceled"} : Goes(e, place)
      BY <1>1 DEF Describe, Query, Cancel, CreateFails
  <2>2. /\ export[e].at \in {"describe", "query", "create"}
        /\ UNCHANGED <<registryVars, fileVars, read>>
      BY <1>1 DEF Describe, Query, Cancel, CreateFails, At
  <2> QED BY <2>1, <2>2, QuietGoes
<1>2. CASE UNCHANGED vars
    BY <1>2 DEF vars, ExportsInv, ExportInv, FileInv, ArtifactInv, ReadInv, FilesAreAccounted, HasPath, PathOf
<1> QED BY <1>1, <1>2, AskKeeps, CreateKeeps, WriteKeeps, FinishKeeps, ReadingKeeps DEF Next

\* Every step keeps what is known of the queue.
LEMMA QueueStep == ExportInv /\ QueueInv /\ [Next]_vars => QueueInv'
<1> SUFFICES ASSUME ExportInv, QueueInv, [Next]_vars PROVE QueueInv'
    OBVIOUS
<1>1. ASSUME NEW e \in Exports, Ask(e) PROVE QueueInv'
  <2>1. PICK r, place : /\ export' = [export EXCEPT ![e] = [request |-> r, attempts |-> 0, at |-> place]]
                        /\ place \in {"failed", "describe", "query"}
      BY <1>1 DEF Ask
  <2>2. export'[e].at = place /\ \A d \in Exports \ {e} : export'[d] = export[d]
      BY <2>1 DEF ExportInv
  <2>3. UNCHANGED registryVars /\ ~At(e, "done") /\ ~Registered(e)'
      BY <1>1, <2>1, <2>2 DEF Ask, At, Registered
  <2>4. ~(export'[e].at \in {"write", "register", "done"})
      BY <2>1, <2>2
  <2> QED BY <2>2, <2>3, <2>4, QuietQueue DEF QueueInv
<1>2. ASSUME NEW e \in Exports, NEW place, Goes(e, place), UNCHANGED registryVars, ~At(e, "done"),
             place = "done" => export[e].at = "register" /\ export[e].request.tool = "execute_sql",
             place = "register" => export[e].at = "write", place # "write"
      PROVE  QueueInv'
  <2>1. /\ \A d \in Exports \ {e} : export'[d] = export[d]
        /\ export'[e].at = place /\ DOMAIN export'[e] = DOMAIN export[e]
        /\ "request" \in DOMAIN export[e] => export'[e].request = export[e].request
        /\ "handle" \in DOMAIN export[e] => export'[e].handle = export[e].handle
      BY <1>2, GoesKeeps DEF ExportInv, Goes
  <2>2. ~Registered(e)'
    <3>1. export[e].at = "register" => "request" \in DOMAIN export[e]
        BY DEF ExportInv
    <3> QED BY <1>2, <2>1, <3>1 DEF Registered, At
  <2>3. place \in {"register", "done"} => HasPath(e) /\ export[e].handle \in Handles
      BY <1>2 DEF QueueInv, OrderInv
  <2>4. export'[e].at \in {"write", "register", "done"} => HasPath(e)' /\ export'[e].handle \in Handles
      BY <1>2, <2>1, <2>3 DEF HasPath
  <2> QED BY <1>2, <2>1, <2>2, <2>4, QuietQueue DEF QueueInv
<1>3. ASSUME NEW e \in Exports, Describe(e) \/ Query(e) \/ Cancel(e) \/ CreateFails(e) \/ Write(e) \/ WriteFails(e)
      PROVE  QueueInv'
  <2>1. PICK place \in {"query", "create", "failed", "canceled", "register"} :
            Goes(e, place) /\ (place = "register" => export[e].at = "write")
      BY <1>3 DEF Describe, Query, Cancel, CreateFails, Write, WriteFails, At
  <2>2. UNCHANGED registryVars /\ ~At(e, "done")
      BY <1>3 DEF Describe, Query, Cancel, CreateFails, Write, WriteFails, At
  <2> QED BY <1>2, <2>1, <2>2
<1>4. ASSUME NEW e \in Exports, Create(e) PROVE QueueInv'
  <2>1. UNCHANGED registryVars /\ export[e].at = "create"
      BY <1>4 DEF Create, At
  <2>2. PICK h \in Handles :
           \/ export' = [export EXCEPT ![e] = IF @.attempts < MaxAttempts
                                              THEN [@ EXCEPT !.attempts = @ + 1]
                                              ELSE [@ EXCEPT !.at = "failed"]]
           \/ export' = [export EXCEPT ![e] = [at |-> "write", request |-> @.request,
                                               attempts |-> @.attempts, handle |-> h]]
      BY <1>4 DEF Create
  <2>3. \A d \in Exports \ {e} : export'[d] = export[d]
      BY <2>2 DEF ExportInv
  <2>4. /\ export'[e].at \in {"create", "failed", "write"}
        /\ export'[e].at = "write" => HasPath(e)' /\ export'[e].handle = h
    <3>1. CASE export' = [export EXCEPT ![e] = [at |-> "write", request |-> @.request,
                                                attempts |-> @.attempts, handle |-> h]]
      <4>1. export'[e] = [at |-> "write", request |-> export[e].request,
                          attempts |-> export[e].attempts, handle |-> h]
          BY <3>1 DEF ExportInv
      <4> QED BY <4>1 DEF HasPath
    <3>2. CASE export' = [export EXCEPT ![e] = IF @.attempts < MaxAttempts
                                               THEN [@ EXCEPT !.attempts = @ + 1]
                                               ELSE [@ EXCEPT !.at = "failed"]]
      <4>1. export'[e].at \in {"create", "failed"}
          BY <2>1, <3>2 DEF ExportInv
      <4> QED BY <4>1
    <3> QED BY <2>2, <3>1, <3>2
  <2> QED BY <2>1, <2>3, <2>4, QuietQueue DEF QueueInv, At, Registered
<1>5. ASSUME NEW e \in Exports, Finish(e) PROVE QueueInv'
  <2>1. CASE export[e].request.tool = "execute_sql"
    <3>1. Goes(e, "done") /\ UNCHANGED registryVars /\ export[e].at = "register"
        BY <1>5, <2>1 DEF Finish, At
    <3> QED BY <1>2, <2>1, <3>1 DEF At
  <2> QED BY <1>5, <2>1, RegisteringQueue
<1>6. CASE UNCHANGED <<artifacts, order, later, export>>
    BY <1>6 DEF QueueInv, OrderInv, PlaceInv, Registered, At, HasPath
<1>7. ASSUME NEW r \in Reads, LookUp(r) \/ Open(r) \/ Read(r) PROVE QueueInv'
    BY <1>6, <1>7 DEF LookUp, Open, Read, registryVars
<1>8. CASE UNCHANGED vars
    BY <1>6, <1>8 DEF vars
<1> QED BY <1>1, <1>3, <1>4, <1>5, <1>7, <1>8 DEF Next

\* At first it is empty.
LEMMA QueueInit == Init => QueueInv
<1> SUFFICES ASSUME Init PROVE QueueInv
    OBVIOUS
<1>1. order = <<>> /\ artifacts = <<>> /\ \A e \in Exports : export[e] = Idle /\ later[e] = 0
    BY DEF Init
<1>2. DOMAIN order = {} /\ Len(order) = 0 /\ order \in Seq(Handles) /\ DOMAIN artifacts = {}
    BY <1>1
<1>3. IsInjective(order) /\ ToSet(order) = DOMAIN artifacts
    BY <1>2 DEF IsInjective, ToSet
<1> QED BY <1>1, <1>2, <1>3, LimitKnown DEF QueueInv, OrderInv, PlaceInv, Registered, At, Idle

\* What QueueInv says of the queue is what a client can count on.
LEMMA QueueShows == QueueInv => NewestAreListed
<1> SUFFICES ASSUME QueueInv PROVE NewestAreListed
    OBVIOUS
<1>1. order \in Seq(Handles) /\ IsInjective(order) /\ ToSet(order) = DOMAIN artifacts /\ Len(order) <= MaxEntries
    BY DEF QueueInv, OrderInv
<1>2. Cardinality(DOMAIN artifacts) = Len(order)
    BY <1>1, QueueSize
<1>3. Reverse(order) \in Seq(Handles) /\ Len(Reverse(order)) = Len(order)
  <2> DEFINE N == Len(order)
  <2>1. N \in Nat /\ \A i \in 1..N : N - i + 1 \in 1..N /\ order[i] \in Handles
      BY <1>1
  <2>2. Reverse(order) = [i \in 1..N |-> order[N - i + 1]]
      BY DEF Reverse
  <2> HIDE DEF N
  <2>3. Reverse(order) \in [1..N -> Handles]
      BY <2>1, <2>2
  <2> QED BY <2>1, <2>3 DEF N
<1>4. \A i \in DOMAIN Reverse(order) : Reverse(order)[i] \in DOMAIN artifacts
    BY <1>1 DEF Reverse, ToSet
<1>5. Listed = Reverse(order)
  <2> DEFINE queue == Reverse(order)
  <2> HIDE DEF queue
  <2>1. queue \in Seq(Handles) /\ \A i \in DOMAIN queue : queue[i] \in DOMAIN artifacts
      BY <1>3, <1>4 DEF queue
  <2> QED BY <2>1, RetainedAll DEF Listed, queue
<1>6. ListedOnce
    BY <1>1, <1>2, <1>3, <1>5 DEF ListedOnce
<1>7. NewestStay
  <2> SUFFICES ASSUME NEW e \in Exports, Registered(e), later[e] < MaxEntries
               PROVE  LET h == export[e].handle
                      IN  h \in DOMAIN artifacts /\ (artifacts[h].by # e =>
                             \E d \in Exports \ {e} : At(d, "done") /\ export[d].handle = h /\ later[d] < later[e])
      BY DEF NewestStay, Registered
  <2> DEFINE h == export[e].handle
             by == artifacts[h].by
  <2>1. h \in DOMAIN artifacts
      BY DEF QueueInv, PlaceInv
  <2>2. PICK i \in DOMAIN order : order[i] = h
      BY <1>1, <2>1 DEF ToSet
  <2>3. /\ by \in Exports /\ Registered(by) /\ export[by].handle = h
        /\ e # by => later[by] < later[e]
      BY <2>2 DEF QueueInv, PlaceInv
  <2> HIDE DEF by
  <2>4. by # e => by \in Exports \ {e} /\ At(by, "done") /\ export[by].handle = h /\ later[by] < later[e]
      BY <2>3 DEF Registered
  <2> QED BY <2>1, <2>4 DEF by
<1> QED BY <1>6, <1>7 DEF NewestAreListed

\* Whatever exports, evictions, replacements and failures come, every artifact in the registry
\* has its own whole file.
THEOREM ListedReadable == Spec => []ListedIsReadable
<1>1. ExportsInv => ListedIsReadable
    BY DEF ExportsInv, ArtifactInv, ListedIsReadable
<1> QED BY ExportsInit, ExportsStep, <1>1, PTL DEF Spec

\* A resource that is answered is the whole of the artifact that was looked up.
THEOREM WholeReads == Spec => []ReadsAreWhole
<1>1. ExportsInv => ReadsAreWhole
    BY DEF ExportsInv, ReadInv, ReadsAreWhole
<1> QED BY ExportsInit, ExportsStep, <1>1, PTL DEF Spec

\* The registry leaves no file behind that it no longer lists.
THEOREM Accounted == Spec => []FilesAreAccounted
<1>1. ExportsInv => FilesAreAccounted
    BY DEF ExportsInv
<1> QED BY ExportsInit, ExportsStep, <1>1, PTL DEF Spec

\* Whatever exports replace and evict each other, the list has the newest artifacts and no
\* others, each once: one that was answered stays until as many others as the limit came after
\* it, or one under its own handle.
THEOREM NewestListed == Spec => []NewestAreListed
<1>1. Init => ExportsInv /\ QueueInv
    BY ExportsInit, QueueInit
<1>2. ExportsInv /\ QueueInv /\ [Next]_vars => (ExportsInv /\ QueueInv)'
    BY ExportsStep, QueueStep DEF ExportsInv
<1> QED BY <1>1, <1>2, QueueShows, PTL DEF Spec
=============================================================================
