------------------------ MODULE RangeStoreBuildProps ------------------------
(***************************************************************************)
(* What RangeStoreBuild promises: the store a manifest publishes, the      *)
(* relation between files, meta.db and build-state.json after any sequence *)
(* of kills and restarts, and what a restart may not do.                   *)
(***************************************************************************)
EXTENDS RangeStoreBuild

TypeOK ==
  /\ source \in Sum
  /\ state \in Optional(BuildState)
  /\ stateTmp \in Optional(BuildState)
  /\ meta \in Optional(MetaDb)
  /\ manifest \in Optional(Manifest) \cup {Torn}
  /\ bin \in [Dim -> Optional(BinFile)]
  /\ idx \in [Dim -> Optional(IdxFile)]
  /\ binTmp \in [Dim -> Optional(BinFile)]
  /\ idxTmp \in [Dim -> Optional(IdxFile)]
  /\ pc \in Steps
  /\ run \in Optional(Command)
  /\ mem \in Optional(BuildState)
  /\ todo \in SUBSET Dim
  /\ txn \in Seq(Schema)
  /\ cache \in [Schema -> Nat]
  /\ outcome \in {"none", "running", "crashed", "refused", "failed", "success"}
  /\ wiping \in BOOLEAN
  /\ crashes \in 0..MaxCrashes

-----------------------------------------------------------------------------
(* The reference a build is compared with                                  *)

Smaller(m, n) == IF m <= n THEN m ELSE n

\* The number of concrete lines of d that a build of s limited to l stores.
\* A limit of 0 stores one line: the limit is tested after a pack is flushed.
LineCount(s, l, d) ==
  LET all == Len(Rows[s][d]) IN
  IF l = NoLimit THEN all ELSE Smaller(all, IF l = 0 THEN 1 ELSE l)

\* The schema ids of an .idx file are rows of action_schemas, each with the
\* actions of the concrete line the record is about.
Resolves(f, d, schemas) ==
  \A i \in DOMAIN f.ids :
    /\ i <= Len(Rows[f.src][d])
    /\ f.ids[i] \in DOMAIN schemas
    /\ schemas[f.ids[i]] = Rows[f.src][d][i]

Linked(f, d, links) == \A i \in DOMAIN f.ids : <<d, f.ids[i]>> \in links

\* The files of dimension d hold every line a build of s limited to l stores.
WholeBin(f, s, l, d) == f = [src |-> s, packs |-> LineCount(s, l, d)]
WholeIdx(f, s, l, d) ==
  /\ f.src = s
  /\ f.header = LineCount(s, l, d)
  /\ Len(f.ids) = LineCount(s, l, d)

Published == manifest \notin {Absent, Torn}

\* The lines a build of s limited to l stores, in the order in which it reads
\* them.
StoredLines(s, l, ds) == UNION {{d} \X (1..LineCount(s, l, d)) : d \in ds}

SchemaOf(s, line) == Rows[s][line[1]][line[2]]

ReadBefore(p, q) == p[1] < q[1] \/ (p[1] = q[1] /\ p[2] < q[2])

\* action_schemas after an uninterrupted build has read these lines: their
\* schemas, each once, in the order of the first line with it.
FreshTable(schemas, s, lines) ==
  /\ {schemas[i] : i \in DOMAIN schemas} = {SchemaOf(s, p) : p \in lines}
  /\ \A i, j \in DOMAIN schemas : i < j =>
       \E p \in lines :
         /\ SchemaOf(s, p) = schemas[i]
         /\ \A q \in lines : SchemaOf(s, q) = schemas[j] => ReadBefore(p, q)

-----------------------------------------------------------------------------
(* Safety                                                                  *)

(***************************************************************************)
(* A complete manifest.json describes a complete store: every dimension it *)
(* lists has its final files with every line of the source the manifest    *)
(* names, meta.db was copied from that same source, and every schema id of *)
(* an .idx file is a committed row with the actions of its line - whatever *)
(* kills, resumes and rebuilds came before.  Only an --overwrite that has  *)
(* begun to delete the directory suspends it.                              *)
(***************************************************************************)
PublishedStoreIntact ==
  Published /\ ~wiping =>
    /\ state # Absent /\ meta # Absent
    /\ state.sum = manifest.sum /\ state.dims = manifest.dims
    /\ meta.lines = manifest.sum /\ meta.stamp = manifest.sum
    /\ \A d \in manifest.dims :
         /\ WholeBin(bin[d], manifest.sum, state.limit, d)
         /\ idx[d] # Absent
         /\ WholeIdx(idx[d], manifest.sum, state.limit, d)
         /\ Resolves(idx[d], d, meta.schemas)
         /\ Linked(idx[d], d, meta.links)

(***************************************************************************)
(* While an --overwrite is cut short the manifest may list files that are  *)
(* gone, but a file that is still there is the one it was written for: a   *)
(* reader of a half-deleted store fails to open a dimension, it never      *)
(* reads another build's data (remove_dir_all, prepare_output_dir).        *)
(***************************************************************************)
SurvivorsArePublished ==
  Published =>
    \A d \in manifest.dims :
      /\ manifest.entries[d] # Absent
      /\ bin[d] \in {Absent, manifest.entries[d].bin}
      /\ idx[d] \in {Absent, manifest.entries[d].idx}

(***************************************************************************)
(* A final .idx file never refers to a schema row that is not committed in *)
(* meta.db: build_dimension_files commits before build_dimension renames.  *)
(***************************************************************************)
IndexedSchemasCommitted ==
  meta # Absent =>
    \A d \in Dim : idx[d] # Absent =>
      /\ Resolves(idx[d], d, meta.schemas)
      /\ Linked(idx[d], d, meta.links)

(***************************************************************************)
(* A store finished over any number of kills and resumes has the schema    *)
(* table an uninterrupted build writes: no duplicate rows, no gaps, the    *)
(* same ids in the same order (get_or_insert_action_schema).               *)
(***************************************************************************)
ResumedStoreIsFresh ==
  Published /\ ~wiping =>
    FreshTable(meta.schemas, manifest.sum,
               StoredLines(manifest.sum, state.limit, manifest.dims))

-----------------------------------------------------------------------------
(* Action property                                                         *)

(***************************************************************************)
(* What build-state.json records as completed is never built again: only   *)
(* --overwrite touches the files of a completed dimension.                 *)
(***************************************************************************)
CompletedIsKept ==
  [][\A d \in Dim :
       state # Absent /\ state.done[d] # Absent /\ pc # "wipe" =>
         bin'[d] = bin[d] /\ idx'[d] = idx[d]]_vars

-----------------------------------------------------------------------------
(* The inductive invariant behind the safety properties                    *)

Saving == {"stateTmp", "stateRemove", "stateRename"}
Building == {"unlink", "create", "pack", "header", "renameBin", "renameIdx",
             "mark"}
Prepared == Saving \cup Building \cup {"dims", "manifestWrite"}

\* What exists at each step of the builder.
Shape ==
  /\ pc # "idle" => run # Absent
  /\ pc \in {"copy", "stamp"} \cup Prepared => meta # Absent
  /\ pc \in Prepared => mem # Absent
  /\ pc \in {"stateRemove", "stateRename"} => stateTmp # Absent
  /\ \A d \in Dim : Current(d) =>
       /\ pc \in {"pack", "header", "renameBin"} => binTmp[d] # Absent
       /\ pc \in {"pack", "header", "renameBin", "renameIdx"} => idxTmp[d] # Absent
       /\ pc \in {"renameIdx", "mark"} => bin[d] # Absent
       /\ pc = "mark" => idx[d] # Absent

\* The entries of a build state are those of completely written files.
WholeEntries(st) ==
  \A d \in Dim : st.done[d] # Absent =>
    /\ d \in st.dims
    /\ WholeBin(st.done[d].bin, st.sum, st.limit, d)
    /\ WholeIdx(st.done[d].idx, st.sum, st.limit, d)

\* A builder past prepare_build_state: its state in memory is the one on disk,
\* or the one it is about to write there, and its files are in place.
InMemory ==
  pc \in Prepared =>
    /\ mem.sum = run.sum /\ mem.limit = run.limit /\ mem.dims = run.dims
    /\ ~wiping
    /\ meta.lines = run.sum /\ meta.stamp = run.sum
    /\ todo \subseteq run.dims
    /\ WholeEntries(mem)
    /\ \A d \in Dim : mem.done[d] # Absent => EntryOnDisk(mem.done[d], d)
    /\ \A d \in run.dims \ todo : mem.done[d] # Absent
    /\ \A d \in Dim : pc \in Building /\ Current(d) => mem.done[d] = Absent
    /\ pc \notin Saving => state = mem
    /\ pc \in Saving /\ state # Absent =>
         /\ state.sum = mem.sum /\ state.limit = mem.limit /\ state.dims = mem.dims
         /\ \A d \in Dim : state.done[d] # Absent => state.done[d] = mem.done[d]
    /\ pc \in {"stateRemove", "stateRename"} => stateTmp = mem
    /\ pc = "stateRename" => state = Absent
    /\ pc \in Building \cup Saving => ~Published
    /\ pc = "manifestWrite" => todo = {}

\* A builder that starts from an empty directory.
FromScratch ==
  pc \in {"meta", "copy", "stamp"} =>
    /\ state = Absent /\ stateTmp = Absent /\ manifest = Absent
    /\ bin = NoFiles /\ idx = NoFiles /\ binTmp = NoFiles /\ idxTmp = NoFiles
    /\ ~wiping
    /\ pc = "meta" => meta = Absent
    /\ pc = "stamp" => meta.lines = run.sum

\* What build-state.json says of the other files.
OnDisk ==
  state # Absent =>
    /\ WholeEntries(state)
    /\ \A d \in Dim : state.done[d] # Absent =>
         /\ bin[d] \in {Absent, state.done[d].bin}
         /\ idx[d] \in {Absent, state.done[d].idx}
         /\ ~wiping => EntryOnDisk(state.done[d], d)
    /\ meta # Absent => meta.lines = state.sum /\ meta.stamp = state.sum

\* What a complete manifest says of the other files.
InManifest ==
  Published =>
    /\ state # Absent =>
         /\ state.sum = manifest.sum /\ state.dims = manifest.dims
         /\ state.done = manifest.entries
    /\ ~wiping => state # Absent /\ meta # Absent

\* The files of the dimension being built.
InProgress ==
  \A d \in Dim : Current(d) =>
    /\ pc = "pack" =>
         /\ binTmp[d].src = run.sum /\ idxTmp[d].src = run.sum
         /\ Len(idxTmp[d].ids) = binTmp[d].packs
         /\ binTmp[d].packs <= LineCount(run.sum, run.limit, d)
    /\ pc \in {"header", "renameBin"} =>
         /\ WholeBin(binTmp[d], run.sum, run.limit, d)
         /\ idxTmp[d].src = run.sum
         /\ Len(idxTmp[d].ids) = LineCount(run.sum, run.limit, d)
    /\ pc \in {"renameBin", "renameIdx"} =>
         WholeIdx(idxTmp[d], run.sum, run.limit, d)
    /\ pc \in {"renameIdx", "mark"} => WholeBin(bin[d], run.sum, run.limit, d)
    /\ pc = "mark" => WholeIdx(idx[d], run.sum, run.limit, d)

\* action_schemas as the builder sees it.
SchemaTable == IF pc = "pack" THEN txn ELSE meta.schemas

\* The schema rows the builder relies on: the table only grows, the cache
\* agrees with it, and the .idx file in progress refers to its rows.
SchemasInProgress ==
  /\ pc \notin Prepared => \A k \in Schema : cache[k] = 0
  /\ pc \in Prepared =>
       \A k \in Schema : cache[k] # 0 =>
         cache[k] \in DOMAIN SchemaTable /\ SchemaTable[cache[k]] = k
  /\ pc = "pack" =>
       \A i \in DOMAIN meta.schemas : i \in DOMAIN txn /\ txn[i] = meta.schemas[i]
  /\ \A d \in Dim : Current(d) =>
       /\ pc \in {"pack", "header", "renameBin", "renameIdx"} =>
            Resolves(idxTmp[d], d, SchemaTable)
       /\ pc \in {"header", "renameBin", "renameIdx"} =>
            Linked(idxTmp[d], d, meta.links)

\* The lines of an initial part of a build with the state st, as far as its
\* completed dimensions at least.
ReadSoFar(st, lines) ==
  LET all == StoredLines(st.sum, st.limit, st.dims) IN
  /\ lines \subseteq all
  /\ \A p \in lines, q \in all : ReadBefore(q, p) => q \in lines
  /\ \A q \in all : st.done[q[1]] # Absent => q \in lines

\* What the builder has flushed of the dimension in progress.
Flushed(lines) ==
  \A d \in Dim : Current(d) =>
    /\ pc = "pack" => {d} \X (1..binTmp[d].packs) \subseteq lines
    /\ pc \in {"header", "renameBin", "renameIdx", "mark"} =>
         {d} \X (1..LineCount(mem.sum, mem.limit, d)) \subseteq lines

\* action_schemas is that of a build which was not interrupted and read some of
\* the lines: those of the completed dimensions, and perhaps those of the next
\* one, which a builder that was killed committed before.
SchemasFollowLines ==
  /\ pc \in {"copy", "stamp"} => meta.schemas = <<>>
  /\ state # Absent /\ meta # Absent =>
       \E lines \in SUBSET StoredLines(state.sum, state.limit, state.dims) :
         ReadSoFar(state, lines) /\ FreshTable(meta.schemas, state.sum, lines)
  /\ pc \in Prepared =>
       \E lines \in SUBSET StoredLines(mem.sum, mem.limit, mem.dims) :
         /\ ReadSoFar(mem, lines) /\ Flushed(lines)
         /\ FreshTable(SchemaTable, mem.sum, lines)

(***************************************************************************)
(* The inductive invariant: at every step of every builder, and after a    *)
(* kill there, memory, build-state.json, the dimension files, meta.db and  *)
(* manifest.json agree as far as the code relies on it.                    *)
(***************************************************************************)
BuildInv ==
  /\ TypeOK /\ Shape
  /\ InMemory /\ FromScratch /\ OnDisk /\ InManifest /\ InProgress
  /\ SurvivorsArePublished
  /\ SchemasInProgress /\ IndexedSchemasCommitted /\ SchemasFollowLines

-----------------------------------------------------------------------------
(* Liveness                                                                *)

(***************************************************************************)
(* With finitely many kills, an operator who keeps restarting the builder  *)
(* and does not avoid --overwrite forever gets a published store, from     *)
(* whatever the kills left in the directory.                               *)
(***************************************************************************)
AlwaysPublishedAgain == []<>(Published /\ ~wiping)

-----------------------------------------------------------------------------
(* What the documentation says of the build, and the code does not do      *)

(***************************************************************************)
(* docs/docker-deployment-guide.md:172: an interrupted build is continued  *)
(* with the same --resume command.                                         *)
(***************************************************************************)
InterruptedBuildContinues ==
  outcome = "crashed" /\ run.mode = "resume" /\ source = run.sum
    => CanResume(run)

(***************************************************************************)
(* docs/release-report-v1.1.0.md:433: the failure of a dimension does not  *)
(* affect the other dimensions.                                            *)
(***************************************************************************)
FailureIsPerDimension ==
  outcome = "failed" =>
    \A d \in run.dims :
      (\A i \in DOMAIN Rows[run.sum][d] : Rows[run.sum][d][i] # Malformed)
        => state # Absent /\ state.done[d] # Absent
=============================================================================
