--------------------------- MODULE RangeStoreBuild ---------------------------
(***************************************************************************)
(* The offline build of a range store (build_store and its helpers in      *)
(* storage-tools/src/range_store_builder.rs): one builder process that may *)
(* be killed between any two writes to the output directory, and the       *)
(* operator that starts it again, with --resume, --overwrite or neither.   *)
(*                                                                         *)
(* The output directory is one variable per kind of file.  A .bin file is  *)
(* abstracted to the source it was encoded from and its number of packs    *)
(* (pack i is the encoding of the i-th concrete line of the dimension), an *)
(* .idx file to the record count of its header and the action schema id of *)
(* each record.  A checksum is the checksummed content.  A concrete line   *)
(* of the source is the action schema its rows encode to, or Malformed     *)
(* when encoding them fails.                                               *)
(***************************************************************************)
EXTENDS Naturals, Sequences

CONSTANTS
  Dim,        \* dimensions, numbered in the order discover_dimensions returns
  Sum,        \* source databases, named by their SHA-256
  Schema,     \* action schema keys
  Malformed,  \* a concrete line whose rows cannot be encoded
  Rows,       \* Rows[s][d]: the concrete lines of dimension d in source s
  Selections, \* the sets of dimensions a command may select
  Limits,     \* the values of --max-concrete-lines, NoLimit when not given
  NoLimit,
  Modes,      \* the modes the operator uses
  MaxCrashes, \* bound on the number of times the builder is killed
  Absent,     \* no such file, no such value
  Torn        \* a file cut short while it was written

ASSUME BuildAssumption ==
  /\ Dim \subseteq Nat
  /\ Malformed \notin Schema
  /\ Rows \in [Sum -> [Dim -> Seq(Schema \cup {Malformed})]]
  /\ Selections \subseteq SUBSET Dim
  /\ NoLimit \notin Nat
  /\ Limits \subseteq Nat \cup {NoLimit}
  /\ Modes \subseteq {"plain", "resume", "overwrite"}
  /\ MaxCrashes \in Nat

VARIABLES
  (* the source database and the output directory *)
  source,     \* the source database at --source-db
  state,      \* build-state.json
  stateTmp,   \* build-state.json.tmp
  meta,       \* meta.db, as committed
  manifest,   \* manifest.json
  bin, idx,   \* the dimension files
  binTmp, idxTmp,
  (* the builder process *)
  pc,         \* the next step of build_store, "idle" when no builder runs
  run,        \* the command line of the current, or else the last, builder
  mem,        \* the BuildState in memory
  todo,       \* the dimensions the loop of build_store has not passed
  txn,        \* action_schemas as the open transaction on meta.db sees it
  cache,      \* schema_ids_by_key, 0 when the key is not in it
  outcome,    \* how the last builder ended
  (* observability *)
  wiping,     \* an --overwrite began to delete the directory and has not
              \* been followed by a complete deletion or an accepted --resume
  crashes

control == <<state, stateTmp, manifest>>
dimFiles == <<bin, idx, binTmp, idxTmp>>
disk == <<source, control, meta, dimFiles>>
memory == <<run, mem, todo, txn, cache, outcome>>
process == <<pc, memory>>
ghost == <<wiping, crashes>>
vars == <<disk, process, ghost>>

-----------------------------------------------------------------------------
(* Contents of files                                                       *)

BinFile == [src : Sum, packs : Nat]
IdxFile == [src : Sum, header : Nat, ids : Seq(Nat)]
Entry == [bin : BinFile, idx : IdxFile]
Optional(S) == S \cup {Absent}

BuildState == [sum : Sum, limit : Limits, dims : Selections,
               done : [Dim -> Optional(Entry)]]
Manifest == [sum : Sum, dims : Selections, entries : [Dim -> Optional(Entry)]]
MetaDb == [lines : Optional(Sum), stamp : Optional(Sum),
           schemas : Seq(Schema), links : SUBSET (Dim \X Nat)]
Command == [mode : Modes, sum : Sum, limit : Limits, dims : Selections]

ASSUME AbsentAssumption ==
  /\ Absent \notin BuildState \cup MetaDb \cup Manifest \cup Command
  /\ Absent \notin BinFile \cup IdxFile \cup Entry \cup Sum
  /\ Torn \notin Manifest \cup {Absent}

Steps == {"idle", "prepare", "wipe", "meta", "copy", "stamp", "stateTmp",
          "stateRemove", "stateRename", "dims", "unlink", "create", "pack",
          "header", "renameBin", "renameIdx", "mark",
          "manifestOpen", "manifestWrite"}

NoFiles == [d \in Dim |-> Absent]

DirEmpty ==
  /\ state = Absent /\ stateTmp = Absent /\ meta = Absent /\ manifest = Absent
  /\ bin = NoFiles /\ idx = NoFiles /\ binTmp = NoFiles /\ idxTmp = NoFiles

\* The first dimension the loop has not passed.
Current(d) == d \in todo /\ \A e \in todo : d <= e

\* Whether build_dimension_files goes on after n packs of dimension d.
MoreLines(r, d, n) ==
  /\ n < Len(Rows[r.sum][d])
  /\ r.limit # NoLimit => n = 0 \/ n < r.limit

-----------------------------------------------------------------------------
Init ==
  /\ source \in Sum
  /\ state = Absent /\ stateTmp = Absent /\ meta = Absent /\ manifest = Absent
  /\ bin = NoFiles /\ idx = NoFiles /\ binTmp = NoFiles /\ idxTmp = NoFiles
  /\ pc = "idle"
  /\ run = Absent /\ mem = Absent /\ todo = {} /\ txn = <<>>
  /\ cache = [k \in Schema |-> 0]
  /\ outcome = "none"
  /\ wiping = FALSE
  /\ crashes = 0

\* The process ends: its memory and its open transaction are gone.
Exit(how) ==
  /\ pc' = "idle" /\ mem' = Absent /\ todo' = {} /\ txn' = <<>>
  /\ cache' = [k \in Schema |-> 0]
  /\ outcome' = how
  /\ UNCHANGED run

-----------------------------------------------------------------------------
(* The operator                                                            *)

\* The source is replaced between builds (never during one: see the README).
ReplaceSource ==
  /\ pc = "idle"
  /\ \E s \in Sum \ {source} : source' = s
  /\ UNCHANGED <<control, meta, dimFiles, process, ghost>>

Launch(mode) ==
  /\ pc = "idle"
  /\ \E l \in Limits, ds \in Selections :
       run' = [mode |-> mode, sum |-> source, limit |-> l, dims |-> ds]
  /\ pc' = "prepare" /\ outcome' = "running"
  /\ UNCHANGED <<disk, mem, todo, txn, cache, ghost>>

\* The builder is killed, or an I/O error outside build_dimension_files ends it.
Crash ==
  /\ pc # "idle" /\ crashes < MaxCrashes
  /\ crashes' = crashes + 1
  /\ Exit("crashed")
  /\ UNCHANGED <<disk, wiping>>

-----------------------------------------------------------------------------
(* prepare_build_state                                                     *)

\* A completed dimension still has the files build-state.json recorded.
EntryOnDisk(e, d) == bin[d] = e.bin /\ idx[d] = e.idx

\* FAULT: the sizes and checksums of completed dimensions are not checked.
StateAcceptedUnchecked(r) ==
  state.sum = r.sum /\ state.limit = r.limit /\ state.dims = r.dims

\* FAULT: a state saved under another --max-concrete-lines is accepted.
StateAcceptedAnyLimit(r) ==
  /\ state.sum = r.sum /\ state.dims = r.dims
  /\ \A d \in state.dims :
       state.done[d] # Absent => EntryOnDisk(state.done[d], d)

StateAccepted(r) ==
  /\ state.sum = r.sum
  /\ state.limit = r.limit
  /\ state.dims = r.dims
  /\ \A d \in state.dims :
       state.done[d] # Absent => EntryOnDisk(state.done[d], d)

CanResume(r) ==
  IF state # Absent THEN StateAccepted(r) /\ meta # Absent ELSE DirEmpty

ResumeFromState ==
  /\ pc = "prepare" /\ run.mode = "resume"
  /\ state # Absent /\ CanResume(run)
  /\ mem' = state /\ todo' = state.dims
  /\ wiping' = FALSE
  /\ pc' = "dims"
  /\ UNCHANGED <<disk, run, txn, cache, outcome, crashes>>

PrepareEmptyDir ==
  /\ pc = "prepare" /\ DirEmpty
  /\ wiping' = FALSE
  /\ pc' = "meta"
  /\ UNCHANGED <<disk, memory, crashes>>

\* FAULT: --overwrite is refused like a plain build.
RefuseOverwrite ==
  /\ pc = "prepare"
  /\ \/ run.mode = "resume" /\ ~CanResume(run)
     \/ run.mode # "resume" /\ ~DirEmpty
  /\ Exit("refused")
  /\ UNCHANGED <<disk, ghost>>

Refuse ==
  /\ pc = "prepare"
  /\ \/ run.mode = "resume" /\ ~CanResume(run)
     \/ run.mode = "plain" /\ ~DirEmpty
  /\ Exit("refused")
  /\ UNCHANGED <<disk, ghost>>

\* FAULT: --overwrite builds over the old files instead of deleting them.
BuildOverOldFiles ==
  /\ pc = "prepare" /\ run.mode = "overwrite" /\ ~DirEmpty
  /\ pc' = "meta"
  /\ UNCHANGED <<disk, memory, ghost>>

BeginWipe ==
  /\ pc = "prepare" /\ run.mode = "overwrite" /\ ~DirEmpty
  /\ pc' = "wipe"
  /\ UNCHANGED <<disk, memory, ghost>>

\* remove_dir_all deletes the entries one by one, in the file system's order.
RemoveFrom(files, d) == files' = [files EXCEPT ![d] = Absent]

RemoveEntry ==
  /\ pc = "wipe" /\ ~DirEmpty
  /\ \/ /\ state # Absent /\ state' = Absent
        /\ UNCHANGED <<stateTmp, meta, manifest, dimFiles>>
     \/ /\ stateTmp # Absent /\ stateTmp' = Absent
        /\ UNCHANGED <<state, meta, manifest, dimFiles>>
     \/ /\ meta # Absent /\ meta' = Absent
        /\ UNCHANGED <<control, dimFiles>>
     \/ /\ manifest # Absent /\ manifest' = Absent
        /\ UNCHANGED <<state, stateTmp, meta, dimFiles>>
     \/ \E d \in Dim :
          \/ /\ bin[d] # Absent /\ RemoveFrom(bin, d)
             /\ UNCHANGED <<control, meta, idx, binTmp, idxTmp>>
          \/ /\ idx[d] # Absent /\ RemoveFrom(idx, d)
             /\ UNCHANGED <<control, meta, bin, binTmp, idxTmp>>
          \/ /\ binTmp[d] # Absent /\ RemoveFrom(binTmp, d)
             /\ UNCHANGED <<control, meta, bin, idx, idxTmp>>
          \/ /\ idxTmp[d] # Absent /\ RemoveFrom(idxTmp, d)
             /\ UNCHANGED <<control, meta, bin, idx, binTmp>>
  /\ wiping' = TRUE
  /\ UNCHANGED <<source, process, crashes>>

EndWipe ==
  /\ pc = "wipe" /\ DirEmpty
  /\ wiping' = FALSE
  /\ pc' = "meta"
  /\ UNCHANGED <<disk, memory, crashes>>

InitMetaDb ==
  /\ pc = "meta"
  /\ meta' = [lines |-> Absent, stamp |-> Absent, schemas |-> <<>>, links |-> {}]
  /\ pc' = "copy"
  /\ UNCHANGED <<source, control, dimFiles, memory, ghost>>

CopyMetadata ==
  /\ pc = "copy"
  /\ meta' = [meta EXCEPT !.lines = run.sum]
  /\ pc' = "stamp"
  /\ UNCHANGED <<source, control, dimFiles, memory, ghost>>

StampBuildInfo ==
  /\ pc = "stamp"
  /\ meta' = [meta EXCEPT !.stamp = run.sum]
  /\ mem' = [sum |-> run.sum, limit |-> run.limit, dims |-> run.dims,
             done |-> [d \in Dim |-> Absent]]
  /\ todo' = run.dims
  /\ pc' = "stateTmp"
  /\ UNCHANGED <<source, control, dimFiles, run, txn, cache, outcome, ghost>>

-----------------------------------------------------------------------------
(* write_build_state: write the .tmp, remove the old file, rename          *)

WriteStateTmp ==
  /\ pc = "stateTmp"
  /\ stateTmp' = mem
  /\ pc' = IF state # Absent THEN "stateRemove" ELSE "stateRename"
  /\ UNCHANGED <<source, state, meta, manifest, dimFiles, memory, ghost>>

RemoveState ==
  /\ pc = "stateRemove"
  /\ state' = Absent
  /\ pc' = "stateRename"
  /\ UNCHANGED <<source, stateTmp, meta, manifest, dimFiles, memory, ghost>>

RenameState ==
  /\ pc = "stateRename"
  /\ state' = stateTmp /\ stateTmp' = Absent
  /\ pc' = "dims"
  /\ UNCHANGED <<source, meta, manifest, dimFiles, memory, ghost>>

-----------------------------------------------------------------------------
(* The loop of build_store and build_dimension                             *)

SkipCompleted(d) ==
  /\ pc = "dims" /\ Current(d)
  /\ mem.done[d] # Absent
  /\ todo' = todo \ {d}
  /\ UNCHANGED <<disk, pc, run, mem, txn, cache, outcome, ghost>>

\* FAULT: the loop does not look at the completed dimensions.
StartAnyDimension(d) ==
  /\ pc = "dims" /\ Current(d)
  /\ pc' = "unlink"
  /\ UNCHANGED <<disk, memory, ghost>>

StartDimension(d) ==
  /\ pc = "dims" /\ Current(d)
  /\ mem.done[d] = Absent
  /\ pc' = "unlink"
  /\ UNCHANGED <<disk, memory, ghost>>

\* remove_if_exists, four times; the order is that of the code.
UnlinkStale(d) ==
  /\ pc = "unlink" /\ Current(d)
  /\ \/ /\ binTmp[d] # Absent
        /\ RemoveFrom(binTmp, d) /\ UNCHANGED <<idxTmp, bin, idx, pc>>
     \/ /\ binTmp[d] = Absent /\ idxTmp[d] # Absent
        /\ RemoveFrom(idxTmp, d) /\ UNCHANGED <<binTmp, bin, idx, pc>>
     \/ /\ binTmp[d] = Absent /\ idxTmp[d] = Absent /\ bin[d] # Absent
        /\ RemoveFrom(bin, d) /\ UNCHANGED <<binTmp, idxTmp, idx, pc>>
     \/ /\ binTmp[d] = Absent /\ idxTmp[d] = Absent /\ bin[d] = Absent
        /\ idx' = [idx EXCEPT ![d] = Absent] /\ pc' = "create"
        /\ UNCHANGED <<binTmp, idxTmp, bin>>
  /\ UNCHANGED <<source, control, meta, memory, ghost>>

\* Both .tmp files with their headers, then BEGIN.
CreateTmpFiles(d) ==
  /\ pc = "create" /\ Current(d)
  /\ binTmp' = [binTmp EXCEPT ![d] = [src |-> run.sum, packs |-> 0]]
  /\ idxTmp' = [idxTmp EXCEPT ![d] = [src |-> run.sum, header |-> 0, ids |-> <<>>]]
  /\ txn' = meta.schemas
  /\ pc' = "pack"
  /\ UNCHANGED <<source, control, meta, bin, idx, run, mem, todo, cache, outcome, ghost>>

\* FAULT: only the cache, which a restart empties, is asked for known schemas.
InsertUncachedSchema(k, id) ==
  \/ /\ cache[k] # 0 /\ id = cache[k]
     /\ UNCHANGED <<txn, cache>>
  \/ /\ cache[k] = 0 /\ id = Len(txn) + 1
     /\ txn' = Append(txn, k)
     /\ cache' = [cache EXCEPT ![k] = id]

\* get_or_insert_action_schema: the cache, then SELECT, then INSERT.
GetOrInsertSchema(k, id) ==
  LET known == {i \in DOMAIN txn : txn[i] = k} IN
  \/ /\ cache[k] # 0 /\ id = cache[k]
     /\ UNCHANGED <<txn, cache>>
  \/ /\ cache[k] = 0 /\ id \in known
     /\ cache' = [cache EXCEPT ![k] = id]
     /\ UNCHANGED txn
  \/ /\ cache[k] = 0 /\ known = {} /\ id = Len(txn) + 1
     /\ txn' = Append(txn, k)
     /\ cache' = [cache EXCEPT ![k] = id]

FlushPack(d) ==
  /\ pc = "pack" /\ Current(d)
  /\ LET n == binTmp[d].packs
         k == Rows[run.sum][d][n + 1]
     IN /\ MoreLines(run, d, n)
        /\ k # Malformed
        /\ \E id \in 1..(Len(txn) + 1) :
             /\ GetOrInsertSchema(k, id)
             /\ idxTmp' = [idxTmp EXCEPT ![d].ids = Append(@, id)]
        /\ binTmp' = [binTmp EXCEPT ![d].packs = n + 1]
  /\ UNCHANGED <<source, control, meta, bin, idx, pc, run, mem, todo, outcome, ghost>>

\* Encoding fails: ROLLBACK, both .tmp files removed, build_store returns Err.
FailPack(d) ==
  /\ pc = "pack" /\ Current(d)
  /\ MoreLines(run, d, binTmp[d].packs)
  /\ Rows[run.sum][d][binTmp[d].packs + 1] = Malformed
  /\ binTmp' = [binTmp EXCEPT ![d] = Absent]
  /\ idxTmp' = [idxTmp EXCEPT ![d] = Absent]
  /\ Exit("failed")
  /\ UNCHANGED <<source, control, meta, bin, idx, ghost>>

\* FAULT: the transaction is closed without COMMIT.
RollBackDimension(d) ==
  /\ pc = "pack" /\ Current(d)
  /\ ~MoreLines(run, d, binTmp[d].packs)
  /\ txn' = <<>>
  /\ pc' = "header"
  /\ UNCHANGED <<disk, run, mem, todo, cache, outcome, ghost>>

\* The rows of dimension_action_schemas, then COMMIT.
CommitDimension(d) ==
  /\ pc = "pack" /\ Current(d)
  /\ ~MoreLines(run, d, binTmp[d].packs)
  /\ meta' = [meta EXCEPT
       !.schemas = txn,
       !.links = @ \cup {<<d, idxTmp[d].ids[i]>> : i \in DOMAIN idxTmp[d].ids}]
  /\ txn' = <<>>
  /\ pc' = "header"
  /\ UNCHANGED <<source, control, dimFiles, run, mem, todo, cache, outcome, ghost>>

WriteIdxHeader(d) ==
  /\ pc = "header" /\ Current(d)
  /\ idxTmp' = [idxTmp EXCEPT ![d].header = binTmp[d].packs]
  /\ pc' = "renameBin"
  /\ UNCHANGED <<source, control, meta, bin, idx, binTmp, memory, ghost>>

\* FAULT: only the .bin file is renamed.
RenameBinOnly(d) ==
  /\ pc = "renameBin" /\ Current(d)
  /\ bin' = [bin EXCEPT ![d] = binTmp[d]]
  /\ RemoveFrom(binTmp, d)
  /\ pc' = "mark"
  /\ UNCHANGED <<source, control, meta, idx, idxTmp, memory, ghost>>

RenameBin(d) ==
  /\ pc = "renameBin" /\ Current(d)
  /\ bin' = [bin EXCEPT ![d] = binTmp[d]]
  /\ RemoveFrom(binTmp, d)
  /\ pc' = "renameIdx"
  /\ UNCHANGED <<source, control, meta, idx, idxTmp, memory, ghost>>

RenameIdx(d) ==
  /\ pc = "renameIdx" /\ Current(d)
  /\ idx' = [idx EXCEPT ![d] = idxTmp[d]]
  /\ RemoveFrom(idxTmp, d)
  /\ pc' = "mark"
  /\ UNCHANGED <<source, control, meta, bin, binTmp, memory, ghost>>

\* Sizes and checksums are read from the renamed files.
MarkCompleted(d) ==
  /\ pc = "mark" /\ Current(d)
  /\ mem' = [mem EXCEPT !.done[d] = [bin |-> bin[d], idx |-> idx[d]]]
  /\ todo' = todo \ {d}
  /\ pc' = "stateTmp"
  /\ UNCHANGED <<disk, run, txn, cache, outcome, ghost>>

-----------------------------------------------------------------------------
(* manifest.json: fs::write truncates, then writes                         *)

OpenManifest ==
  /\ pc = "dims" /\ todo = {}
  /\ manifest' = Torn
  /\ pc' = "manifestWrite"
  /\ UNCHANGED <<source, state, stateTmp, meta, dimFiles, memory, ghost>>

WriteManifest ==
  /\ pc = "manifestWrite"
  /\ manifest' = [sum |-> run.sum, dims |-> run.dims, entries |-> mem.done]
  /\ Exit("success")
  /\ UNCHANGED <<source, state, stateTmp, meta, dimFiles, ghost>>

-----------------------------------------------------------------------------
BuildDimension(d) ==
  \/ SkipCompleted(d) \/ StartDimension(d) \/ UnlinkStale(d)
  \/ CreateTmpFiles(d) \/ FlushPack(d) \/ FailPack(d) \/ CommitDimension(d)
  \/ WriteIdxHeader(d) \/ RenameBin(d) \/ RenameIdx(d) \/ MarkCompleted(d)

Builder ==
  \/ ResumeFromState \/ PrepareEmptyDir \/ Refuse
  \/ BeginWipe \/ RemoveEntry \/ EndWipe
  \/ InitMetaDb \/ CopyMetadata \/ StampBuildInfo
  \/ WriteStateTmp \/ RemoveState \/ RenameState
  \/ \E d \in Dim : BuildDimension(d)
  \/ OpenManifest \/ WriteManifest

Next ==
  \/ ReplaceSource
  \/ \E mode \in Modes : Launch(mode)
  \/ Crash
  \/ Builder

Spec == Init /\ [][Next]_vars

\* Every line that the command r stores can be encoded.
CanSucceed(r) ==
  \A d \in r.dims : \A n \in DOMAIN Rows[r.sum][d] :
    MoreLines(r, d, n - 1) => Rows[r.sum][d][n] # Malformed

\* A running builder takes its next step; an operator who starts builders
\* again and again does not forever avoid --overwrite, nor forever ask for
\* lines that cannot be encoded.
FairSpec ==
  /\ Spec
  /\ WF_vars(Builder)
  /\ SF_vars(Launch("overwrite") /\ CanSucceed(run'))
=============================================================================
