------------------------ MODULE RangeStoreBuildProofs ------------------------
(***************************************************************************)
(* Proofs about RangeStoreBuild for every set of sources, dimensions,      *)
(* commands and number of kills: types, the files, the schema table, and   *)
(* from these, BuildInv, what the properties say.                          *)
(***************************************************************************)
EXTENDS RangeStoreBuildProps, TLAPS

\* The content of a file is not the value of a missing or a torn one.
LEMMA NotAbsent ==
  /\ \A x \in BuildState : x # Absent
  /\ \A x \in MetaDb : x # Absent
  /\ \A x \in Manifest : x # Absent /\ x # Torn
  /\ \A x \in Command : x # Absent
  /\ \A x \in BinFile : x # Absent
  /\ \A x \in IdxFile : x # Absent
  /\ \A x \in Entry : x # Absent
  /\ \A x \in Sum : x # Absent
  BY AbsentAssumption

Typed == TypeOK /\ Shape

\* Every step of the builder and of the operator keeps types and shape.
LEMMA TypedStep ==
  ASSUME Typed, [Next]_vars
  PROVE  Typed'
  <1>1. CASE ReplaceSource
    <2>1. TypeOK'
      BY <1>1 DEF Typed, TypeOK, ReplaceSource, control, dimFiles, process,
         ghost, memory, Optional, Steps
    <2>2. Shape'
      BY <1>1, NotAbsent DEF Typed, TypeOK, Shape, ReplaceSource, control,
         dimFiles, process, ghost, memory, Optional, Current, Prepared,
         Building, Saving
    <2> QED BY <2>1, <2>2 DEF Typed
  <1>2. ASSUME NEW mode \in Modes, Launch(mode) PROVE Typed'
    <2>1. run' \in Command
      BY <1>2, NotAbsent DEF Typed, TypeOK, Shape, Optional, Prepared,
         Building, Saving, Launch, disk, ghost, control, dimFiles, Command
    <2>2. TypeOK'
      BY <1>2, <2>1 DEF Typed, TypeOK, Launch, disk, ghost, control, dimFiles,
         Optional, Steps
    <2>3. Shape'
      BY <1>2, <2>1, NotAbsent DEF Typed, TypeOK, Shape, Launch, disk, ghost,
         control, dimFiles, Optional, Current, Prepared, Building, Saving
    <2> QED BY <2>2, <2>3 DEF Typed
  <1>3. CASE Crash
    <2>1. TypeOK'
      BY <1>3, BuildAssumption DEF Typed, TypeOK, Crash, Exit, disk, control,
         dimFiles, Optional, Steps
    <2>2. Shape'
      BY <1>3, NotAbsent DEF Typed, TypeOK, Shape, Crash, Exit, disk, control,
         dimFiles, Optional, Current, Prepared, Building, Saving
    <2> QED BY <2>1, <2>2 DEF Typed
  <1>4. CASE ResumeFromState
    <2>1. mem' \in BuildState /\ todo' \in SUBSET Dim
      BY <1>4, NotAbsent, BuildAssumption DEF Typed, TypeOK, Shape, Optional,
         Prepared, Building, Saving, ResumeFromState, CanResume, disk,
         control, dimFiles, BuildState
    <2>2. TypeOK'
      BY <1>4, <2>1 DEF Typed, TypeOK, ResumeFromState, CanResume, disk,
         control, dimFiles, Optional, Steps
    <2>3. Shape'
      BY <1>4, <2>1, NotAbsent DEF Typed, TypeOK, Shape, ResumeFromState,
         CanResume, disk, control, dimFiles, Optional, Current, Prepared,
         Building, Saving
    <2> QED BY <2>2, <2>3 DEF Typed
  <1>5. CASE PrepareEmptyDir
    <2>1. TypeOK'
      BY <1>5 DEF Typed, TypeOK, PrepareEmptyDir, disk, memory, control,
         dimFiles, Optional, Steps
    <2>2. Shape'
      BY <1>5, NotAbsent DEF Typed, TypeOK, Shape, PrepareEmptyDir, disk,
         memory, control, dimFiles, Optional, Current, Prepared, Building,
         Saving
    <2> QED BY <2>1, <2>2 DEF Typed
  <1>6. CASE Refuse
    <2>1. TypeOK'
      BY <1>6 DEF Typed, TypeOK, Refuse, Exit, CanResume, disk, ghost,
         control, dimFiles, Optional, Steps
    <2>2. Shape'
      BY <1>6, NotAbsent DEF Typed, TypeOK, Shape, Refuse, Exit, CanResume,
         disk, ghost, control, dimFiles, Optional, Current, Prepared,
         Building, Saving
    <2> QED BY <2>1, <2>2 DEF Typed
  <1>7. CASE BeginWipe
    <2>1. TypeOK'
      BY <1>7 DEF Typed, TypeOK, BeginWipe, disk, memory, ghost, control,
         dimFiles, Optional, Steps
    <2>2. Shape'
      BY <1>7, NotAbsent DEF Typed, TypeOK, Shape, BeginWipe, disk, memory,
         ghost, control, dimFiles, Optional, Current, Prepared, Building,
         Saving
    <2> QED BY <2>1, <2>2 DEF Typed
  <1>8. CASE RemoveEntry
    <2>1. bin' \in [Dim -> Optional(BinFile)] /\ binTmp' \in [Dim -> Optional(BinFile)]
      BY <1>8, NotAbsent DEF Typed, TypeOK, Shape, Optional, Prepared,
         Building, Saving, RemoveEntry, RemoveFrom, control, dimFiles,
         process, memory
    <2>2. idx' \in [Dim -> Optional(IdxFile)] /\ idxTmp' \in [Dim -> Optional(IdxFile)]
      BY <1>8, NotAbsent DEF Typed, TypeOK, Shape, Optional, Prepared,
         Building, Saving, RemoveEntry, RemoveFrom, control, dimFiles,
         process, memory
    <2>3. TypeOK'
      BY <1>8, <2>1, <2>2 DEF Typed, TypeOK, RemoveEntry, RemoveFrom, control,
         dimFiles, process, memory, Optional, Steps
    <2>4. Shape'
      BY <1>8, <2>1, <2>2, NotAbsent DEF Typed, TypeOK, Shape, RemoveEntry,
         RemoveFrom, control, dimFiles, process, memory, Optional, Current,
         Prepared, Building, Saving
    <2> QED BY <2>3, <2>4 DEF Typed
  <1>9. CASE EndWipe
    <2>1. TypeOK'
      BY <1>9 DEF Typed, TypeOK, EndWipe, disk, memory, control, dimFiles,
         Optional, Steps
    <2>2. Shape'
      BY <1>9, NotAbsent DEF Typed, TypeOK, Shape, EndWipe, disk, memory,
         control, dimFiles, Optional, Current, Prepared, Building, Saving
    <2> QED BY <2>1, <2>2 DEF Typed
  <1>10. CASE InitMetaDb
    <2>1. meta' \in MetaDb
      BY <1>10, NotAbsent DEF Typed, TypeOK, Shape, Optional, Prepared,
         Building, Saving, InitMetaDb, control, dimFiles, memory, ghost,
         MetaDb
    <2>2. TypeOK'
      BY <1>10, <2>1 DEF Typed, TypeOK, InitMetaDb, control, dimFiles, memory,
         ghost, Optional, Steps
    <2>3. Shape'
      BY <1>10, <2>1, NotAbsent DEF Typed, TypeOK, Shape, InitMetaDb, control,
         dimFiles, memory, ghost, Optional, Current, Prepared, Building,
         Saving
    <2> QED BY <2>2, <2>3 DEF Typed
  <1>11. CASE CopyMetadata
    <2>1. meta' \in MetaDb
      BY <1>11, NotAbsent DEF Typed, TypeOK, Shape, Optional, Prepared,
         Building, Saving, CopyMetadata, control, dimFiles, memory, ghost,
         MetaDb, Command
    <2>2. TypeOK'
      BY <1>11, <2>1 DEF Typed, TypeOK, CopyMetadata, control, dimFiles,
         memory, ghost, Optional, Steps
    <2>3. Shape'
      BY <1>11, <2>1, NotAbsent DEF Typed, TypeOK, Shape, CopyMetadata,
         control, dimFiles, memory, ghost, Optional, Current, Prepared,
         Building, Saving
    <2> QED BY <2>2, <2>3 DEF Typed
  <1>12. CASE StampBuildInfo
    <2>1. meta' \in MetaDb
      BY <1>12, NotAbsent DEF Typed, TypeOK, Shape, Optional, Prepared,
         Building, Saving, StampBuildInfo, control, dimFiles, ghost, MetaDb,
         Command
    <2>2. mem' \in BuildState
      BY <1>12, NotAbsent DEF Typed, TypeOK, Shape, Optional, Prepared,
         Building, Saving, StampBuildInfo, control, dimFiles, ghost,
         BuildState, Command
    <2>3. todo' \in SUBSET Dim
      BY <1>12, NotAbsent, BuildAssumption DEF Typed, TypeOK, Shape, Optional,
         Prepared, Building, Saving, StampBuildInfo, control, dimFiles, ghost,
         Command
    <2>4. TypeOK'
      BY <1>12, <2>1, <2>2, <2>3 DEF Typed, TypeOK, StampBuildInfo, control,
         dimFiles, ghost, Optional, Steps
    <2>5. Shape'
      BY <1>12, <2>1, <2>2, <2>3, NotAbsent DEF Typed, TypeOK, Shape,
         StampBuildInfo, control, dimFiles, ghost, Optional, Current,
         Prepared, Building, Saving
    <2> QED BY <2>4, <2>5 DEF Typed
  <1>13. CASE WriteStateTmp
    <2>1. stateTmp' \in BuildState
      BY <1>13, NotAbsent DEF Typed, TypeOK, Shape, Optional, Prepared,
         Building, Saving, WriteStateTmp, dimFiles, memory, ghost
    <2>2. TypeOK'
      BY <1>13, <2>1 DEF Typed, TypeOK, WriteStateTmp, dimFiles, memory,
         ghost, Optional, Steps
    <2>3. Shape'
      BY <1>13, <2>1, NotAbsent DEF Typed, TypeOK, Shape, WriteStateTmp,
         dimFiles, memory, ghost, Optional, Current, Prepared, Building,
         Saving
    <2> QED BY <2>2, <2>3 DEF Typed
  <1>14. CASE RemoveState
    <2>1. TypeOK'
      BY <1>14 DEF Typed, TypeOK, RemoveState, dimFiles, memory, ghost,
         Optional, Steps
    <2>2. Shape'
      BY <1>14, NotAbsent DEF Typed, TypeOK, Shape, RemoveState, dimFiles,
         memory, ghost, Optional, Current, Prepared, Building, Saving
    <2> QED BY <2>1, <2>2 DEF Typed
  <1>15. CASE RenameState
    <2>1. TypeOK'
      BY <1>15 DEF Typed, TypeOK, RenameState, dimFiles, memory, ghost,
         Optional, Steps
    <2>2. Shape'
      BY <1>15, NotAbsent DEF Typed, TypeOK, Shape, RenameState, dimFiles,
         memory, ghost, Optional, Current, Prepared, Building, Saving
    <2> QED BY <2>1, <2>2 DEF Typed
  <1>16. CASE OpenManifest
    <2>1. TypeOK'
      BY <1>16 DEF Typed, TypeOK, OpenManifest, dimFiles, memory, ghost,
         Optional, Steps
    <2>2. Shape'
      BY <1>16, NotAbsent DEF Typed, TypeOK, Shape, OpenManifest, dimFiles,
         memory, ghost, Optional, Current, Prepared, Building, Saving
    <2> QED BY <2>1, <2>2 DEF Typed
  <1>17. CASE WriteManifest
    <2>1. manifest' \in Manifest
      BY <1>17, NotAbsent DEF Typed, TypeOK, Shape, Optional, Prepared,
         Building, Saving, WriteManifest, Exit, dimFiles, ghost, Manifest,
         BuildState, Command
    <2>2. TypeOK'
      BY <1>17, <2>1 DEF Typed, TypeOK, WriteManifest, Exit, dimFiles, ghost,
         Optional, Steps
    <2>3. Shape'
      BY <1>17, <2>1, NotAbsent DEF Typed, TypeOK, Shape, WriteManifest, Exit,
         dimFiles, ghost, Optional, Current, Prepared, Building, Saving
    <2> QED BY <2>2, <2>3 DEF Typed
  <1>18. ASSUME NEW d \in Dim, SkipCompleted(d) PROVE Typed'
    <2>1. TypeOK'
      BY <1>18 DEF Typed, TypeOK, SkipCompleted, disk, ghost, control,
         dimFiles, Optional, Steps
    <2>2. Shape'
      BY <1>18, NotAbsent DEF Typed, TypeOK, Shape, SkipCompleted, disk,
         ghost, control, dimFiles, Optional, Current, Prepared, Building,
         Saving
    <2> QED BY <2>1, <2>2 DEF Typed
  <1>19. ASSUME NEW d \in Dim, StartDimension(d) PROVE Typed'
    <2>1. TypeOK'
      BY <1>19 DEF Typed, TypeOK, StartDimension, disk, memory, ghost,
         control, dimFiles, Optional, Steps
    <2>2. Shape'
      BY <1>19, NotAbsent DEF Typed, TypeOK, Shape, StartDimension, disk,
         memory, ghost, control, dimFiles, Optional, Current, Prepared,
         Building, Saving
    <2> QED BY <2>1, <2>2 DEF Typed
  <1>20. ASSUME NEW d \in Dim, UnlinkStale(d) PROVE Typed'
    <2>1. bin' \in [Dim -> Optional(BinFile)] /\ binTmp' \in [Dim -> Optional(BinFile)]
      BY <1>20, NotAbsent DEF Typed, TypeOK, Shape, Optional, Prepared,
         Building, Saving, UnlinkStale, RemoveFrom, control, memory, ghost
    <2>2. idx' \in [Dim -> Optional(IdxFile)] /\ idxTmp' \in [Dim -> Optional(IdxFile)]
      BY <1>20, NotAbsent DEF Typed, TypeOK, Shape, Optional, Prepared,
         Building, Saving, UnlinkStale, RemoveFrom, control, memory, ghost
    <2>3. pc' \in Steps
      BY <1>20, NotAbsent DEF Typed, TypeOK, Shape, Optional, Prepared,
         Building, Saving, UnlinkStale, RemoveFrom, control, memory, ghost,
         Steps
    <2>4. TypeOK'
      BY <1>20, <2>1, <2>2, <2>3 DEF Typed, TypeOK, UnlinkStale, RemoveFrom,
         control, memory, ghost, Optional, Steps
    <2>5. Shape'
      BY <1>20, <2>1, <2>2, <2>3, NotAbsent DEF Typed, TypeOK, Shape,
         UnlinkStale, RemoveFrom, control, memory, ghost, Optional, Current,
         Prepared, Building, Saving
    <2> QED BY <2>4, <2>5 DEF Typed
  <1>21. ASSUME NEW d \in Dim, CreateTmpFiles(d) PROVE Typed'
    <2>1. binTmp' \in [Dim -> Optional(BinFile)] /\ binTmp'[d] \in BinFile
      BY <1>21, NotAbsent DEF Typed, TypeOK, Shape, Optional, Prepared,
         Building, Saving, CreateTmpFiles, control, ghost, BinFile, Command
    <2>2. idxTmp' \in [Dim -> Optional(IdxFile)] /\ idxTmp'[d] \in IdxFile
      BY <1>21, NotAbsent DEF Typed, TypeOK, Shape, Optional, Prepared,
         Building, Saving, CreateTmpFiles, control, ghost, IdxFile, Command
    <2>3. txn' \in Seq(Schema)
      BY <1>21, NotAbsent DEF Typed, TypeOK, Shape, Optional, Prepared,
         Building, Saving, CreateTmpFiles, control, ghost, MetaDb
    <2>4. TypeOK'
      BY <1>21, <2>1, <2>2, <2>3 DEF Typed, TypeOK, CreateTmpFiles, control,
         ghost, Optional, Steps
    <2>5. \A e \in Dim : Current(e)' => e = d
      BY <1>21, BuildAssumption DEF Typed, TypeOK, Current, CreateTmpFiles,
         control, ghost
    <2>6. Shape'
      BY <1>21, <2>1, <2>2, <2>3, <2>5, NotAbsent DEF Typed, TypeOK, Shape,
         CreateTmpFiles, control, ghost, Optional, Current, Prepared,
         Building, Saving
    <2> QED BY <2>4, <2>6 DEF Typed
  <1>22. ASSUME NEW d \in Dim, FlushPack(d) PROVE Typed'
    <2> DEFINE n == binTmp[d].packs
               k == Rows[run.sum][d][n + 1]
    <2>1. run \in Command /\ binTmp[d] \in BinFile /\ idxTmp[d] \in IdxFile
      BY <1>22 DEF Typed, TypeOK, Shape, FlushPack, Optional, Prepared, Building
    <2>2. k \in Schema
      BY <1>22, <2>1, BuildAssumption DEF FlushPack, MoreLines, Command, BinFile
    <2>3. PICK id \in 1..(Len(txn) + 1) :
             /\ GetOrInsertSchema(k, id)
             /\ idxTmp' = [idxTmp EXCEPT ![d].ids = Append(@, id)]
      BY <1>22 DEF FlushPack
    <2> HIDE DEF n, k
    <2>4. txn' \in Seq(Schema) /\ cache' \in [Schema -> Nat] /\ id \in Nat
      <3>1. txn \in Seq(Schema) /\ cache \in [Schema -> Nat] /\ id \in Nat
        BY <2>3 DEF Typed, TypeOK
      <3>2. txn' = txn \/ txn' = Append(txn, k)
        BY <2>3 DEF GetOrInsertSchema
      <3>3. cache' = cache \/ cache' = [cache EXCEPT ![k] = id]
        BY <2>3 DEF GetOrInsertSchema
      <3>4. txn' \in Seq(Schema)
        <4>1. txn \in Seq(Schema) /\ k \in Schema
          BY <2>2, <3>1
        <4>2. Append(txn, k) \in Seq(Schema)
          BY <4>1
        <4> QED BY <4>1, <4>2, <3>2
      <3>5. cache' \in [Schema -> Nat]
        BY <3>1, <3>3
      <3> QED BY <3>1, <3>4, <3>5
    <2>5. binTmp' \in [Dim -> Optional(BinFile)] /\ binTmp'[d] \in BinFile
      BY <1>22, <2>1 DEF n, FlushPack, Typed, TypeOK, BinFile, Optional
    <2>6. idxTmp' \in [Dim -> Optional(IdxFile)] /\ idxTmp'[d] \in IdxFile
      <3>1. Append(idxTmp[d].ids, id) \in Seq(Nat)
        BY <2>1, <2>4 DEF IdxFile
      <3>2. [idxTmp[d] EXCEPT !.ids = Append(@, id)] \in IdxFile
        BY <2>1, <3>1 DEF IdxFile
      <3>3. idxTmp' = [idxTmp EXCEPT ![d] = [idxTmp[d] EXCEPT !.ids = Append(@, id)]]
        BY <2>3
      <3> QED BY <3>2, <3>3 DEF Typed, TypeOK, Optional
    <2>7. TypeOK'
      BY <1>22, <2>4, <2>5, <2>6 DEF Typed, TypeOK, FlushPack,
         GetOrInsertSchema, control, ghost, Optional, Steps
    <2>8. todo' = todo /\ todo \subseteq Dim /\ Current(d)
      BY <1>22 DEF Typed, TypeOK, FlushPack, GetOrInsertSchema, control, ghost
    <2>9. \A e \in Dim : Current(e)' => e = d
      BY <2>8, BuildAssumption DEF Current
    <2>10. Shape'
      BY <1>22, <2>4, <2>5, <2>6, <2>9, NotAbsent DEF Typed, TypeOK, Shape,
         FlushPack, GetOrInsertSchema, control, ghost, Optional, Current,
         Prepared, Building, Saving
    <2> QED BY <2>7, <2>10 DEF Typed
  <1>23. ASSUME NEW d \in Dim, FailPack(d) PROVE Typed'
    <2>1. binTmp' \in [Dim -> Optional(BinFile)]
      BY <1>23, NotAbsent DEF Typed, TypeOK, Shape, Optional, Prepared,
         Building, Saving, FailPack, Exit, control, ghost
    <2>2. idxTmp' \in [Dim -> Optional(IdxFile)]
      BY <1>23, NotAbsent DEF Typed, TypeOK, Shape, Optional, Prepared,
         Building, Saving, FailPack, Exit, control, ghost
    <2>3. TypeOK'
      BY <1>23, <2>1, <2>2 DEF Typed, TypeOK, FailPack, Exit, control, ghost,
         Optional, Steps
    <2>4. Shape'
      BY <1>23, <2>1, <2>2, NotAbsent DEF Typed, TypeOK, Shape, FailPack,
         Exit, control, ghost, Optional, Current, Prepared, Building, Saving
    <2> QED BY <2>3, <2>4 DEF Typed
  <1>24. ASSUME NEW d \in Dim, CommitDimension(d) PROVE Typed'
    <2>1. meta \in MetaDb /\ idxTmp[d] \in IdxFile
      BY <1>24 DEF Typed, TypeOK, Shape, CommitDimension, Optional, Prepared,
                  Building
    <2>2. {<<d, idxTmp[d].ids[i]>> : i \in DOMAIN idxTmp[d].ids} \subseteq Dim \X Nat
      BY <2>1 DEF IdxFile
    <2>3. meta' \in MetaDb
      BY <1>24, <2>1, <2>2 DEF CommitDimension, MetaDb, Typed, TypeOK
    <2>4. TypeOK'
      BY <1>24, <2>3 DEF Typed, TypeOK, CommitDimension, control, dimFiles,
         ghost, Optional, Steps
    <2>5. \A e \in Dim : Current(e)' => e = d
      BY <1>24, BuildAssumption DEF Typed, TypeOK, Current, CommitDimension,
         control, dimFiles, ghost
    <2>6. Shape'
      BY <1>24, <2>3, <2>5, NotAbsent DEF Typed, TypeOK, Shape,
         CommitDimension, control, dimFiles, ghost, Optional, Current,
         Prepared, Building, Saving
    <2> QED BY <2>4, <2>6 DEF Typed
  <1>25. ASSUME NEW d \in Dim, WriteIdxHeader(d) PROVE Typed'
    <2>1. binTmp[d] \in BinFile /\ idxTmp[d] \in IdxFile
      BY <1>25, NotAbsent DEF Typed, TypeOK, Shape, Optional, Prepared,
         Building, Saving, WriteIdxHeader, control, memory, ghost
    <2>2. idxTmp' \in [Dim -> Optional(IdxFile)] /\ idxTmp'[d] \in IdxFile
      BY <1>25, NotAbsent, <2>1 DEF Typed, TypeOK, Shape, Optional, Prepared,
         Building, Saving, WriteIdxHeader, control, memory, ghost, IdxFile,
         BinFile
    <2>3. TypeOK'
      BY <1>25, <2>1, <2>2 DEF Typed, TypeOK, WriteIdxHeader, control, memory,
         ghost, Optional, Steps
    <2>4. \A e \in Dim : Current(e)' => e = d
      BY <1>25, BuildAssumption DEF Typed, TypeOK, Current, WriteIdxHeader,
         control, memory, ghost
    <2>5. Shape'
      BY <1>25, <2>1, <2>2, <2>4, NotAbsent DEF Typed, TypeOK, Shape,
         WriteIdxHeader, control, memory, ghost, Optional, Current, Prepared,
         Building, Saving
    <2> QED BY <2>3, <2>5 DEF Typed
  <1>26. ASSUME NEW d \in Dim, RenameBin(d) PROVE Typed'
    <2>1. binTmp[d] \in BinFile
      BY <1>26, NotAbsent DEF Typed, TypeOK, Shape, Optional, Prepared,
         Building, Saving, RenameBin, RemoveFrom, control, memory, ghost
    <2>2. bin' \in [Dim -> Optional(BinFile)] /\ bin'[d] \in BinFile
      BY <1>26, NotAbsent, <2>1 DEF Typed, TypeOK, Shape, Optional, Prepared,
         Building, Saving, RenameBin, RemoveFrom, control, memory, ghost
    <2>3. binTmp' \in [Dim -> Optional(BinFile)]
      BY <1>26, NotAbsent DEF Typed, TypeOK, Shape, Optional, Prepared,
         Building, Saving, RenameBin, RemoveFrom, control, memory, ghost
    <2>4. TypeOK'
      BY <1>26, <2>1, <2>2, <2>3 DEF Typed, TypeOK, RenameBin, RemoveFrom,
         control, memory, ghost, Optional, Steps
    <2>5. \A e \in Dim : Current(e)' => e = d
      BY <1>26, BuildAssumption DEF Typed, TypeOK, Current, RenameBin,
         RemoveFrom, control, memory, ghost
    <2>6. Shape'
      BY <1>26, <2>1, <2>2, <2>3, <2>5, NotAbsent DEF Typed, TypeOK, Shape,
         RenameBin, RemoveFrom, control, memory, ghost, Optional, Current,
         Prepared, Building, Saving
    <2> QED BY <2>4, <2>6 DEF Typed
  <1>27. ASSUME NEW d \in Dim, RenameIdx(d) PROVE Typed'
    <2>1. idxTmp[d] \in IdxFile
      BY <1>27, NotAbsent DEF Typed, TypeOK, Shape, Optional, Prepared,
         Building, Saving, RenameIdx, RemoveFrom, control, memory, ghost
    <2>2. idx' \in [Dim -> Optional(IdxFile)] /\ idx'[d] \in IdxFile
      BY <1>27, NotAbsent, <2>1 DEF Typed, TypeOK, Shape, Optional, Prepared,
         Building, Saving, RenameIdx, RemoveFrom, control, memory, ghost
    <2>3. idxTmp' \in [Dim -> Optional(IdxFile)]
      BY <1>27, NotAbsent DEF Typed, TypeOK, Shape, Optional, Prepared,
         Building, Saving, RenameIdx, RemoveFrom, control, memory, ghost
    <2>4. TypeOK'
      BY <1>27, <2>1, <2>2, <2>3 DEF Typed, TypeOK, RenameIdx, RemoveFrom,
         control, memory, ghost, Optional, Steps
    <2>5. \A e \in Dim : Current(e)' => e = d
      BY <1>27, BuildAssumption DEF Typed, TypeOK, Current, RenameIdx,
         RemoveFrom, control, memory, ghost
    <2>6. Shape'
      BY <1>27, <2>1, <2>2, <2>3, <2>5, NotAbsent DEF Typed, TypeOK, Shape,
         RenameIdx, RemoveFrom, control, memory, ghost, Optional, Current,
         Prepared, Building, Saving
    <2> QED BY <2>4, <2>6 DEF Typed
  <1>28. ASSUME NEW d \in Dim, MarkCompleted(d) PROVE Typed'
    <2>1. bin[d] \in BinFile /\ idx[d] \in IdxFile
      BY <1>28, NotAbsent DEF Typed, TypeOK, Shape, Optional, Prepared,
         Building, Saving, MarkCompleted, disk, ghost, control, dimFiles
    <2>2. mem' \in BuildState
      BY <1>28, NotAbsent, <2>1 DEF Typed, TypeOK, Shape, Optional, Prepared,
         Building, Saving, MarkCompleted, disk, ghost, control, dimFiles,
         BuildState, Entry
    <2>3. TypeOK'
      BY <1>28, <2>1, <2>2 DEF Typed, TypeOK, MarkCompleted, disk, ghost,
         control, dimFiles, Optional, Steps
    <2>4. Shape'
      BY <1>28, <2>1, <2>2, NotAbsent DEF Typed, TypeOK, Shape, MarkCompleted,
         disk, ghost, control, dimFiles, Optional, Current, Prepared,
         Building, Saving
    <2> QED BY <2>3, <2>4 DEF Typed
  <1>29. CASE UNCHANGED vars
    BY <1>29 DEF Typed, TypeOK, Shape, Current, vars, disk, control, dimFiles,
       process, memory, ghost
  <1> QED BY <1>1, <1>2, <1>3, <1>4, <1>5, <1>6, <1>7, <1>8, <1>9, <1>10,
     <1>11, <1>12, <1>13, <1>14, <1>15, <1>16, <1>17, <1>18, <1>19, <1>20,
     <1>21, <1>22, <1>23, <1>24, <1>25, <1>26, <1>27, <1>28, <1>29 DEF Next,
     Builder, BuildDimension

LEMMA TypedInit == Init => Typed
  <1> SUFFICES ASSUME Init PROVE Typed
    OBVIOUS
  <1>1. TypeOK
    <2>1. /\ state \in Optional(BuildState) /\ stateTmp \in Optional(BuildState)
          /\ meta \in Optional(MetaDb) /\ manifest \in Optional(Manifest) \cup {Torn}
          /\ run \in Optional(Command) /\ mem \in Optional(BuildState)
      BY DEF Init, Optional
    <2>2. /\ bin \in [Dim -> Optional(BinFile)] /\ idx \in [Dim -> Optional(IdxFile)]
          /\ binTmp \in [Dim -> Optional(BinFile)]
          /\ idxTmp \in [Dim -> Optional(IdxFile)]
      BY DEF Init, NoFiles, Optional
    <2>3. txn \in Seq(Schema) /\ cache \in [Schema -> Nat]
      BY DEF Init
    <2>4. crashes \in 0..MaxCrashes
      BY BuildAssumption DEF Init
    <2> QED BY <2>1, <2>2, <2>3, <2>4 DEF Init, TypeOK, Steps
  <1>2. Shape
    BY DEF Init, Shape, Current, Prepared, Building, Saving
  <1> QED BY <1>1, <1>2 DEF Typed

(***************************************************************************)
(* Every value stays in its type, and every file and variable a step of    *)
(* the builder reads is there when it reads it.                            *)
(***************************************************************************)
THEOREM TypeCorrect == Spec => [](TypeOK /\ Shape)
  <1>1. Init => Typed BY TypedInit
  <1>2. Typed /\ [Next]_vars => Typed' BY TypedStep
  <1> QED BY <1>1, <1>2, PTL DEF Spec, Typed

-----------------------------------------------------------------------------
(* Files: the directory agrees with build-state.json, with the manifest and *)
(* with the memory of the builder, whenever it is killed.                   *)

\* The part of BuildInv that is about files and their sizes.
Consistent ==
  /\ InMemory /\ FromScratch /\ OnDisk /\ InManifest /\ InProgress
  /\ SurvivorsArePublished

\* A command stores a number of lines of each dimension.
LEMMA LineCountIsNat ==
  ASSUME NEW r \in Command, NEW d \in Dim
  PROVE  /\ Len(Rows[r.sum][d]) \in Nat
         /\ r.limit \in Nat \cup {NoLimit}
         /\ LineCount(r.sum, r.limit, d) \in Nat
  <1>1. r.sum \in Sum /\ r.limit \in Nat \cup {NoLimit}
    BY BuildAssumption DEF Command
  <1>2. Rows[r.sum][d] \in Seq(Schema \cup {Malformed})
    BY <1>1, BuildAssumption
  <1>3. Len(Rows[r.sum][d]) \in Nat
    BY <1>2
  <1> QED BY <1>1, <1>3 DEF LineCount, Smaller

\* build_dimension_files stops exactly at that number.
LEMMA LinesUpToCount ==
  ASSUME NEW r \in Command, NEW d \in Dim, NEW n \in Nat,
         n <= LineCount(r.sum, r.limit, d)
  PROVE  MoreLines(r, d, n) <=> n < LineCount(r.sum, r.limit, d)
  BY LineCountIsNat, BuildAssumption DEF LineCount, MoreLines, Smaller

\* A step that leaves the loop variable alone keeps the current dimension.
LEMMA CurrentKept ==
  ASSUME todo \subseteq Dim, NEW d \in Dim, Current(d), todo' = todo
  PROVE  \A e \in Dim : Current(e)' => e = d
  BY BuildAssumption DEF Current

LEMMA ConsistentInit == Init => Consistent
  BY NotAbsent DEF Init, Consistent, InMemory, FromScratch, OnDisk, InManifest,
     InProgress, SurvivorsArePublished, Published, Prepared, Building, Saving, Current

LEMMA ConsistentStep ==
  ASSUME Typed, Typed', Consistent, [Next]_vars
  PROVE  Consistent'
  <1> USE DEF Typed, TypeOK, Shape, Consistent, InMemory, FromScratch, OnDisk,
              InManifest, InProgress, SurvivorsArePublished, Published,
              EntryOnDisk, WholeEntries, DirEmpty, NoFiles, Prepared,
              Building, Saving, Current, Optional
  <1>1. CASE ReplaceSource
    BY <1>1 DEF ReplaceSource, control, dimFiles, process, ghost, memory
  <1>2. ASSUME NEW mode \in Modes, Launch(mode) PROVE Consistent'
    BY <1>2 DEF Launch, disk, ghost, control, dimFiles
  <1>3. CASE Crash
    BY <1>3 DEF Crash, Exit, disk, control, dimFiles
  <1>4. CASE ResumeFromState
    BY <1>4 DEF ResumeFromState, CanResume, disk, control, dimFiles,
       StateAccepted
  <1>5. CASE PrepareEmptyDir
    BY <1>5 DEF PrepareEmptyDir, disk, memory, control, dimFiles
  <1>6. CASE Refuse
    BY <1>6 DEF Refuse, Exit, CanResume, disk, ghost, control, dimFiles
  <1>7. CASE BeginWipe
    BY <1>7 DEF BeginWipe, disk, memory, ghost, control, dimFiles
  <1>8. CASE RemoveEntry
    <2>1. (InMemory /\ FromScratch /\ OnDisk /\ InManifest /\ InProgress)'
      BY <1>8 DEF RemoveEntry, RemoveFrom, control, dimFiles, process, memory
    <2>2. /\ manifest' \in {manifest, Absent}
          /\ \A d \in Dim : bin'[d] \in {bin[d], Absent} /\ idx'[d] \in {idx[d], Absent}
      BY <1>8 DEF RemoveEntry, RemoveFrom, control, dimFiles, process, memory
    <2>3. CASE manifest' = Absent
      BY <2>1, <2>3
    <2>4. CASE manifest' = manifest
      <3>1. Published => manifest.dims \subseteq Dim
        BY BuildAssumption DEF Manifest
      <3>2. Published => SurvivorsArePublished'
        BY <2>2, <2>4, <3>1
      <3>3. ~Published => SurvivorsArePublished'
        BY <2>4
      <3> QED BY <2>1, <3>2, <3>3
    <2> QED BY <2>1, <2>2, <2>3, <2>4
  <1>9. CASE EndWipe
    BY <1>9 DEF EndWipe, disk, memory, control, dimFiles
  <1>10. CASE InitMetaDb
    BY <1>10 DEF InitMetaDb, control, dimFiles, memory, ghost
  <1>11. CASE CopyMetadata
    BY <1>11 DEF CopyMetadata, control, dimFiles, memory, ghost
  <1>12. CASE StampBuildInfo
    BY <1>12 DEF StampBuildInfo, control, dimFiles, ghost
  <1>13. CASE WriteStateTmp
    BY <1>13 DEF WriteStateTmp, dimFiles, memory, ghost
  <1>14. CASE RemoveState
    BY <1>14 DEF RemoveState, dimFiles, memory, ghost
  <1>15. CASE RenameState
    BY <1>15 DEF RenameState, dimFiles, memory, ghost
  <1>16. CASE OpenManifest
    BY <1>16 DEF OpenManifest, dimFiles, memory, ghost
  <1>17. CASE WriteManifest
    <2>1. (InMemory /\ FromScratch /\ OnDisk /\ InManifest /\ InProgress)'
      BY <1>17 DEF WriteManifest, Exit, dimFiles, ghost
    <2>2. \A d \in run.dims : d \in Dim /\ mem.done[d] # Absent /\ EntryOnDisk(mem.done[d], d)
      BY <1>17, BuildAssumption DEF WriteManifest, Command
    <2>3. SurvivorsArePublished'
      BY <1>17, <2>2 DEF WriteManifest, Exit, dimFiles, ghost
    <2> QED BY <2>1, <2>3
  <1>18. ASSUME NEW d \in Dim, SkipCompleted(d) PROVE Consistent'
    BY <1>18 DEF SkipCompleted, disk, ghost, control, dimFiles
  <1>19. ASSUME NEW d \in Dim, StartDimension(d) PROVE Consistent'
    <2>1. ~Published
      <3>1. state = mem /\ mem # Absent /\ mem.done[d] = Absent /\ d \in state.dims
        BY <1>19 DEF StartDimension, disk, memory, ghost, control, dimFiles
      <3> QED BY <3>1
    <2>2. /\ UNCHANGED <<disk, memory, ghost>>
          /\ pc = "dims" /\ pc' = "unlink" /\ mem.done[d] = Absent
      BY <1>19 DEF StartDimension
    <2>3. todo' = todo /\ Current(d) /\ todo \subseteq Dim
      BY <1>19 DEF StartDimension, memory
    <2>4. \A e \in Dim : Current(e)' => e = d
      BY <2>3, CurrentKept
    <2>5. InMemory'
      BY <2>1, <2>2, <2>4 DEF disk, memory, ghost, control, dimFiles
    <2>6. (FromScratch /\ OnDisk /\ InManifest /\ SurvivorsArePublished)'
      BY <2>2 DEF disk, memory, ghost, control, dimFiles
    <2>7. InProgress'
      BY <2>2
    <2> QED BY <2>5, <2>6, <2>7
  <1>20. ASSUME NEW d \in Dim, UnlinkStale(d) PROVE Consistent'
    BY <1>20 DEF UnlinkStale, RemoveFrom, control, memory, ghost
  <1>21. ASSUME NEW d \in Dim, CreateTmpFiles(d) PROVE Consistent'
    <2>1. (InMemory /\ FromScratch /\ OnDisk /\ InManifest /\ SurvivorsArePublished)'
      BY <1>21 DEF CreateTmpFiles, control, ghost
    <2>2. todo' = todo /\ Current(d) /\ todo \subseteq Dim
      BY <1>21 DEF CreateTmpFiles, control, ghost
    <2>3. \A e \in Dim : Current(e)' => e = d
      BY <2>2, CurrentKept
    <2>4. run \in Command
      BY <1>21 DEF CreateTmpFiles
    <2>5. 0 <= LineCount(run.sum, run.limit, d)
      BY <2>4, LineCountIsNat
    <2>6. InProgress'
      BY <1>21, <2>3, <2>5 DEF CreateTmpFiles, control, ghost
    <2> QED BY <2>1, <2>6
  <1>22. ASSUME NEW d \in Dim, FlushPack(d) PROVE Consistent'
    <2>1. (InMemory /\ FromScratch /\ OnDisk /\ InManifest /\ SurvivorsArePublished)'
      BY <1>22 DEF FlushPack, GetOrInsertSchema, control, ghost
    <2>2. todo' = todo /\ Current(d) /\ todo \subseteq Dim
      BY <1>22 DEF FlushPack, GetOrInsertSchema, control, ghost
    <2>3. \A e \in Dim : Current(e)' => e = d
      BY <2>2, CurrentKept
    <2>4. run \in Command /\ binTmp[d] \in BinFile /\ idxTmp[d] \in IdxFile
      BY <1>22 DEF FlushPack
    <2>5. binTmp[d].packs < LineCount(run.sum, run.limit, d)
      BY <1>22, <2>4, LinesUpToCount DEF FlushPack, BinFile
    <2>6. binTmp'[d].src = run.sum /\ binTmp'[d].packs = binTmp[d].packs + 1
      <3>1. /\ binTmp' = [binTmp EXCEPT ![d].packs = binTmp[d].packs + 1]
            /\ binTmp[d].src = run.sum
        BY <1>22 DEF FlushPack
      <3> QED BY <3>1, <2>4 DEF BinFile
    <2>7. idxTmp'[d].src = run.sum /\ Len(idxTmp'[d].ids) = Len(idxTmp[d].ids) + 1
      <3>1. PICK id \in 1..(Len(txn) + 1) :
                   idxTmp' = [idxTmp EXCEPT ![d].ids = Append(@, id)]
        BY <1>22 DEF FlushPack
      <3>2. idxTmp[d].ids \in Seq(Nat) /\ idxTmp[d].src = run.sum
        BY <1>22, <2>4 DEF FlushPack, IdxFile
      <3>3. /\ idxTmp'[d].ids = Append(idxTmp[d].ids, id)
            /\ idxTmp'[d].src = idxTmp[d].src
        BY <3>1, <2>4 DEF IdxFile
      <3>4. Len(Append(idxTmp[d].ids, id)) = Len(idxTmp[d].ids) + 1
        <4>1. id \in Nat
          OBVIOUS
        <4> QED BY <3>2, <4>1
      <3> QED BY <3>2, <3>3, <3>4
    <2>8. binTmp'[d].packs <= LineCount(run.sum, run.limit, d)
      BY <2>4, <2>5, <2>6, LineCountIsNat DEF BinFile
    <2>9. Len(idxTmp'[d].ids) = binTmp'[d].packs
      BY <1>22, <2>6, <2>7 DEF FlushPack
    <2>10. InProgress'
      <3>1. pc' = "pack" /\ run' = run
        BY <1>22 DEF FlushPack
      <3> QED BY <3>1, <2>3, <2>6, <2>7, <2>8, <2>9
    <2> QED BY <2>1, <2>10
  <1>23. ASSUME NEW d \in Dim, FailPack(d) PROVE Consistent'
    BY <1>23 DEF FailPack, Exit, control, ghost
  <1>24. ASSUME NEW d \in Dim, CommitDimension(d) PROVE Consistent'
    <2>1. (InMemory /\ FromScratch /\ OnDisk /\ InManifest /\ SurvivorsArePublished)'
      BY <1>24 DEF CommitDimension, control, dimFiles, ghost
    <2>2. todo' = todo /\ Current(d) /\ todo \subseteq Dim
      BY <1>24 DEF CommitDimension, control, dimFiles, ghost
    <2>3. \A e \in Dim : Current(e)' => e = d
      BY <2>2, CurrentKept
    <2>4. run \in Command /\ binTmp[d] \in BinFile
      BY <1>24 DEF CommitDimension
    <2>5. binTmp[d].packs = LineCount(run.sum, run.limit, d)
      <3>1. /\ binTmp[d].packs \in Nat
            /\ binTmp[d].packs <= LineCount(run.sum, run.limit, d)
            /\ ~MoreLines(run, d, binTmp[d].packs)
        BY <1>24, <2>4 DEF CommitDimension, BinFile
      <3> QED BY <2>4, <3>1, LinesUpToCount, LineCountIsNat
    <2>6. WholeBin(binTmp[d], run.sum, run.limit, d)
      BY <1>24, <2>4, <2>5 DEF CommitDimension, WholeBin, BinFile
    <2>7. InProgress'
      BY <1>24, <2>3, <2>5, <2>6 DEF CommitDimension, control, dimFiles, ghost
    <2> QED BY <2>1, <2>7
  <1>25. ASSUME NEW d \in Dim, WriteIdxHeader(d) PROVE Consistent'
    <2>1. (InMemory /\ FromScratch /\ OnDisk /\ InManifest /\ SurvivorsArePublished)'
      BY <1>25 DEF WriteIdxHeader, control, memory, ghost
    <2>2. todo' = todo /\ Current(d) /\ todo \subseteq Dim
      BY <1>25 DEF WriteIdxHeader, control, memory, ghost
    <2>3. \A e \in Dim : Current(e)' => e = d
      BY <2>2, CurrentKept
    <2>4. binTmp[d].packs = LineCount(run.sum, run.limit, d) /\ idxTmp[d] \in IdxFile
      BY <1>25, <2>2 DEF WriteIdxHeader, WholeBin
    <2>5. WholeIdx(idxTmp'[d], run.sum, run.limit, d)
      BY <1>25, <2>2, <2>4 DEF WriteIdxHeader, WholeIdx, IdxFile
    <2>6. InProgress'
      BY <1>25, <2>3, <2>5 DEF WriteIdxHeader, control, memory, ghost,
         WholeIdx
    <2> QED BY <2>1, <2>6
  <1>26. ASSUME NEW d \in Dim, RenameBin(d) PROVE Consistent'
    <2>1. (InMemory /\ FromScratch /\ OnDisk /\ InManifest /\ SurvivorsArePublished)'
      BY <1>26 DEF RenameBin, RemoveFrom, control, memory, ghost
    <2>2. todo' = todo /\ Current(d) /\ todo \subseteq Dim
      BY <1>26 DEF RenameBin, RemoveFrom, control, memory, ghost
    <2>3. \A e \in Dim : Current(e)' => e = d
      BY <2>2, CurrentKept
    <2>4. InProgress'
      BY <1>26, <2>2, <2>3 DEF RenameBin, RemoveFrom, control, memory, ghost
    <2> QED BY <2>1, <2>4
  <1>27. ASSUME NEW d \in Dim, RenameIdx(d) PROVE Consistent'
    <2>1. (InMemory /\ FromScratch /\ OnDisk /\ InManifest /\ SurvivorsArePublished)'
      BY <1>27 DEF RenameIdx, RemoveFrom, control, memory, ghost
    <2>2. todo' = todo /\ Current(d) /\ todo \subseteq Dim
      BY <1>27 DEF RenameIdx, RemoveFrom, control, memory, ghost
    <2>3. \A e \in Dim : Current(e)' => e = d
      BY <2>2, CurrentKept
    <2>4. InProgress'
      BY <1>27, <2>2, <2>3 DEF RenameIdx, RemoveFrom, control, memory, ghost
    <2> QED BY <2>1, <2>4
  <1>28. ASSUME NEW d \in Dim, MarkCompleted(d) PROVE Consistent'
    <2>1. (FromScratch /\ InManifest /\ InProgress /\ SurvivorsArePublished)'
      BY <1>28 DEF MarkCompleted, disk, ghost, control, dimFiles
    <2>2. Current(d) /\ mem.done[d] = Absent /\ d \in run.dims /\ state = mem
      BY <1>28 DEF MarkCompleted, disk, ghost, control, dimFiles
    <2>3. /\ mem'.sum = mem.sum /\ mem'.limit = mem.limit /\ mem'.dims = mem.dims
          /\ mem'.done = [mem.done EXCEPT ![d] = [bin |-> bin[d], idx |-> idx[d]]]
      BY <1>28 DEF MarkCompleted, BuildState
    <2>4. mem.done \in [Dim -> Optional(Entry)]
      BY <1>28 DEF MarkCompleted, BuildState
    <2>5. /\ mem'.done[d] = [bin |-> bin[d], idx |-> idx[d]]
          /\ \A e \in Dim : e # d => mem'.done[e] = mem.done[e]
      BY <2>3, <2>4
    <2>6. WholeBin(bin[d], run.sum, run.limit, d) /\ WholeIdx(idx[d], run.sum, run.limit, d)
      BY <1>28 DEF MarkCompleted
    <2>7. UNCHANGED <<run, state, bin, idx, meta, manifest, wiping>>
      BY <1>28 DEF MarkCompleted, disk, ghost, control, dimFiles
    <2>8. WholeEntries(mem)'
      BY <1>28, <2>2, <2>3, <2>5, <2>6, <2>7 DEF MarkCompleted, WholeBin, WholeIdx
    <2>9. \A e \in Dim : mem'.done[e] # Absent => EntryOnDisk(mem.done[e], e)'
      <3>1. mem # Absent /\ \A e \in Dim : mem.done[e] # Absent => EntryOnDisk(mem.done[e], e)
        BY <1>28 DEF MarkCompleted
      <3>2. ASSUME NEW e \in Dim, mem'.done[e] # Absent PROVE EntryOnDisk(mem.done[e], e)'
        <4>1. CASE e = d
          BY <2>5, <2>7, <4>1
        <4>2. CASE e # d
          BY <2>5, <2>7, <3>1, <3>2, <4>2
        <4> QED BY <4>1, <4>2
      <3> QED BY <3>2
    <2>10. /\ todo' = todo \ {d} /\ pc = "mark" /\ pc' = "stateTmp"
           /\ ~Published
      BY <1>28 DEF MarkCompleted
    <2>11. \A e \in run.dims \ todo' : mem'.done[e] # Absent
      <3>1. /\ run.dims \subseteq Dim
            /\ \A e \in run.dims \ todo : mem.done[e] # Absent
        BY <1>28, BuildAssumption DEF MarkCompleted, Command
      <3>2. bin[d] \in BinFile /\ idx[d] \in IdxFile
        BY <1>28 DEF MarkCompleted
      <3>3. mem'.done[d] # Absent
        BY <2>5, <3>2, NotAbsent DEF Entry
      <3> QED BY <2>5, <2>10, <3>1, <3>3
    <2>12. \A e \in Dim : state.done[e] # Absent => state.done[e] = mem'.done[e]
      BY <2>2, <2>5
    <2>13. InMemory'
      BY <1>28, <2>2, <2>3, <2>7, <2>8, <2>9, <2>10, <2>11, <2>12
    <2>14. OnDisk'
      BY <1>28 DEF MarkCompleted, disk, ghost, control, dimFiles
    <2> QED BY <2>1, <2>13, <2>14
  <1>29. CASE UNCHANGED vars
    BY <1>29 DEF vars, disk, control, dimFiles, process, memory, ghost
  <1> QED BY <1>1, <1>2, <1>3, <1>4, <1>5, <1>6, <1>7, <1>8, <1>9, <1>10,
     <1>11, <1>12, <1>13, <1>14, <1>15, <1>16, <1>17, <1>18, <1>19, <1>20,
     <1>21, <1>22, <1>23, <1>24, <1>25, <1>26, <1>27, <1>28, <1>29 DEF Next,
     Builder, BuildDimension

-----------------------------------------------------------------------------
(* The schema ids of the dimension files are rows of action_schemas.        *)


\* The part of BuildInv that is about action_schemas and its users.
SchemasAgree == SchemasInProgress /\ IndexedSchemasCommitted

\* A schema table that grows keeps the records that resolve in it.
LEMMA ResolvesInLongerTable ==
  ASSUME NEW f, NEW d, NEW short, NEW long, Resolves(f, d, short),
         \A i \in DOMAIN short : i \in DOMAIN long /\ long[i] = short[i]
  PROVE  Resolves(f, d, long)
  BY DEF Resolves

\* Where the elements of a longer sequence of ids are.
LEMMA AppendId ==
  ASSUME NEW ids \in Seq(Nat), NEW id \in Nat
  PROVE  /\ DOMAIN ids = 1..Len(ids) /\ DOMAIN Append(ids, id) = 1..(Len(ids) + 1)
         /\ \A i \in 1..Len(ids) : Append(ids, id)[i] = ids[i]
         /\ Append(ids, id)[Len(ids) + 1] = id
  OBVIOUS

LEMMA SchemasInit == Init => SchemasAgree
  BY NotAbsent DEF Init, SchemasAgree, SchemasInProgress, IndexedSchemasCommitted,
     Prepared, Building, Saving, Current

LEMMA SchemasStep ==
  ASSUME Typed, Typed', Consistent, SchemasAgree, [Next]_vars
  PROVE  SchemasAgree'
  <1> USE DEF SchemasAgree, SchemasInProgress, IndexedSchemasCommitted, SchemaTable,
              Typed, TypeOK, Shape, Prepared, Building, Saving, Current, Optional
  <1>1. CASE ReplaceSource
    BY <1>1 DEF ReplaceSource, control, dimFiles, process, ghost, memory
  <1>2. ASSUME NEW mode \in Modes, Launch(mode) PROVE SchemasAgree'
    BY <1>2 DEF Launch, disk, ghost, control, dimFiles
  <1>3. CASE Crash
    BY <1>3 DEF Crash, Exit, disk, control, dimFiles
  <1>4. CASE ResumeFromState
    BY <1>4 DEF ResumeFromState, disk, control, dimFiles
  <1>5. CASE PrepareEmptyDir
    BY <1>5 DEF PrepareEmptyDir, disk, memory, control, dimFiles
  <1>6. CASE Refuse
    BY <1>6 DEF Refuse, Exit, disk, ghost, control, dimFiles
  <1>7. CASE BeginWipe
    BY <1>7 DEF BeginWipe, disk, memory, ghost, control, dimFiles
  <1>8. CASE RemoveEntry
    BY <1>8 DEF RemoveEntry, RemoveFrom, control, dimFiles, process, memory
  <1>9. CASE EndWipe
    BY <1>9 DEF EndWipe, disk, memory, control, dimFiles
  <1>10. CASE InitMetaDb
    BY <1>10 DEF InitMetaDb, Consistent, FromScratch, NoFiles, control, dimFiles, memory, ghost
  <1>11. CASE CopyMetadata
    BY <1>11 DEF CopyMetadata, MetaDb, control, dimFiles, memory, ghost
  <1>12. CASE StampBuildInfo
    BY <1>12 DEF StampBuildInfo, MetaDb, control, dimFiles, ghost
  <1>13. CASE WriteStateTmp
    BY <1>13 DEF WriteStateTmp, dimFiles, memory, ghost
  <1>14. CASE RemoveState
    BY <1>14 DEF RemoveState, dimFiles, memory, ghost
  <1>15. CASE RenameState
    BY <1>15 DEF RenameState, dimFiles, memory, ghost
  <1>16. CASE OpenManifest
    BY <1>16 DEF OpenManifest, dimFiles, memory, ghost
  <1>17. CASE WriteManifest
    BY <1>17 DEF WriteManifest, Exit, dimFiles, ghost
  <1>18. ASSUME NEW d \in Dim, SkipCompleted(d) PROVE SchemasAgree'
    BY <1>18 DEF SkipCompleted, disk, ghost, control, dimFiles
  <1>19. ASSUME NEW d \in Dim, StartDimension(d) PROVE SchemasAgree'
    BY <1>19 DEF StartDimension, disk, memory, ghost, control, dimFiles
  <1>20. ASSUME NEW d \in Dim, UnlinkStale(d) PROVE SchemasAgree'
    BY <1>20 DEF UnlinkStale, RemoveFrom, control, memory, ghost
  <1>21. ASSUME NEW d \in Dim, CreateTmpFiles(d) PROVE SchemasAgree'
    <2>1. todo' = todo /\ Current(d) /\ todo \subseteq Dim
      BY <1>21 DEF CreateTmpFiles, control, dimFiles, memory, ghost
    <2>2. \A e \in Dim : Current(e)' => e = d
      BY <2>1, CurrentKept
    <2>3. idxTmp'[d].ids = <<>> /\ Resolves(idxTmp'[d], d, txn')
      BY <1>21 DEF CreateTmpFiles, Resolves
    <2>4. /\ pc' = "pack" /\ txn' = meta.schemas
          /\ UNCHANGED <<meta, idx, cache>>
          /\ pc = "create"
      BY <1>21 DEF CreateTmpFiles, control
    <2>5. SchemasInProgress'
      BY <2>2, <2>3, <2>4
    <2>6. IndexedSchemasCommitted'
      BY <2>4
    <2> QED BY <2>5, <2>6
  <1>22. ASSUME NEW d \in Dim, FlushPack(d) PROVE SchemasAgree'
    <2>1. todo' = todo /\ Current(d) /\ todo \subseteq Dim
      BY <1>22 DEF FlushPack, control, dimFiles, memory, ghost
    <2>2. \A e \in Dim : Current(e)' => e = d
      BY <2>1, CurrentKept
    <2>3. /\ pc = "pack" /\ pc' = "pack" /\ UNCHANGED <<meta, idx, run, todo>>
          /\ idxTmp[d] \in IdxFile /\ binTmp[d] \in BinFile
          /\ idxTmp[d].src = run.sum /\ Len(idxTmp[d].ids) = binTmp[d].packs
      BY <1>22 DEF FlushPack, Consistent, InProgress
    <2> DEFINE n == binTmp[d].packs
               k == Rows[run.sum][d][n + 1]
    <2>4. PICK id \in 1..(Len(txn) + 1) :
            /\ GetOrInsertSchema(k, id)
            /\ idxTmp' = [idxTmp EXCEPT ![d].ids = Append(@, id)]
      BY <1>22 DEF FlushPack
    <2>5. n + 1 <= Len(Rows[run.sum][d]) /\ k \in Schema
      <3>1. run \in Command
        BY <2>3
      <3>2. Rows[run.sum][d] \in Seq(Schema \cup {Malformed}) /\ n \in Nat
        BY <2>3, <3>1, BuildAssumption DEF Command, BinFile
      <3>3. n < Len(Rows[run.sum][d]) /\ k # Malformed
        BY <1>22 DEF FlushPack, MoreLines
      <3> HIDE DEF n
      <3> QED BY <3>2, <3>3
    <2>6. /\ \A i \in DOMAIN txn : i \in DOMAIN txn' /\ txn'[i] = txn[i]
          /\ id \in DOMAIN txn' /\ txn'[id] = k
          /\ \A j \in Schema : cache'[j] # 0 =>
               cache'[j] \in DOMAIN txn' /\ txn'[cache'[j]] = j
      <3> HIDE DEF k
      <3>1. /\ \A j \in Schema : cache[j] # 0 => cache[j] \in DOMAIN txn /\ txn[cache[j]] = j
            /\ cache \in [Schema -> Nat] /\ txn \in Seq(Schema)
        BY <2>3
      <3>2. CASE cache[k] # 0 /\ id = cache[k] /\ UNCHANGED <<txn, cache>>
        BY <2>5, <3>1, <3>2
      <3>3. CASE /\ id \in {i \in DOMAIN txn : txn[i] = k}
                 /\ cache' = [cache EXCEPT ![k] = id] /\ UNCHANGED txn
        BY <2>5, <3>1, <3>3
      <3>4. CASE /\ id = Len(txn) + 1 /\ txn' = Append(txn, k)
                 /\ cache' = [cache EXCEPT ![k] = id]
        <4>1. /\ DOMAIN txn' = 1..(Len(txn) + 1) /\ txn'[id] = k
              /\ DOMAIN txn = 1..Len(txn)
              /\ \A i \in DOMAIN txn : txn'[i] = txn[i]
          BY <2>5, <3>1, <3>4
        <4> QED BY <2>5, <3>1, <3>4, <4>1
      <3> QED BY <2>4, <3>2, <3>3, <3>4 DEF GetOrInsertSchema
    <2>7. Resolves(idxTmp'[d], d, txn')
      <3>1. /\ idxTmp'[d].src = run.sum /\ idxTmp[d].ids \in Seq(Nat)
            /\ idxTmp'[d].ids = Append(idxTmp[d].ids, id) /\ n \in Nat
        BY <2>3, <2>4 DEF IdxFile, BinFile
      <3>2. Resolves(idxTmp[d], d, txn')
        <4>1. Resolves(idxTmp[d], d, txn)
          BY <2>1, <2>3
        <4> QED BY <4>1, <2>6, ResolvesInLongerTable
      <3>3. /\ DOMAIN idxTmp'[d].ids = 1..(n + 1) /\ DOMAIN idxTmp[d].ids = 1..n
            /\ \A i \in 1..n : idxTmp'[d].ids[i] = idxTmp[d].ids[i]
            /\ idxTmp'[d].ids[n + 1] = id
        <4>1. id \in Nat
          OBVIOUS
        <4>2. Len(idxTmp[d].ids) = n
          BY <2>3
        <4> HIDE DEF n
        <4> QED BY <3>1, <4>1, <4>2, AppendId
      <3>4. ASSUME NEW i \in 1..n
            PROVE  /\ i <= Len(Rows[run.sum][d]) /\ idxTmp'[d].ids[i] \in DOMAIN txn'
                   /\ txn'[idxTmp'[d].ids[i]] = Rows[run.sum][d][i]
        BY <2>3, <3>2, <3>3 DEF Resolves
      <3>5. /\ n + 1 <= Len(Rows[run.sum][d]) /\ idxTmp'[d].ids[n + 1] \in DOMAIN txn'
            /\ txn'[idxTmp'[d].ids[n + 1]] = Rows[run.sum][d][n + 1]
        BY <2>5, <2>6, <3>3
      <3>6. \A i \in 1..(n + 1) : i \in 1..n \/ i = n + 1
        <4> HIDE DEF n
        <4> QED BY <3>1
      <3> HIDE DEF n
      <3> QED BY <3>1, <3>3, <3>4, <3>5, <3>6 DEF Resolves
    <2>8. SchemasInProgress'
      BY <2>2, <2>3, <2>6, <2>7
    <2>9. IndexedSchemasCommitted'
      BY <2>3
    <2> QED BY <2>8, <2>9
  <1>23. ASSUME NEW d \in Dim, FailPack(d) PROVE SchemasAgree'
    BY <1>23 DEF FailPack, Exit, control, ghost
  <1>24. ASSUME NEW d \in Dim, CommitDimension(d) PROVE SchemasAgree'
    <2>1. todo' = todo /\ Current(d) /\ todo \subseteq Dim
      BY <1>24 DEF CommitDimension, control, dimFiles, memory, ghost
    <2>2. \A e \in Dim : Current(e)' => e = d
      BY <2>1, CurrentKept
    <2>3. /\ pc = "pack" /\ pc' = "header" /\ UNCHANGED <<idx, idxTmp, cache>>
          /\ meta # Absent
      BY <1>24 DEF CommitDimension, dimFiles
    <2>4. /\ meta'.schemas = txn
          /\ meta'.links = meta.links \cup {<<d, idxTmp[d].ids[i]>> : i \in DOMAIN idxTmp[d].ids}
      <3>1. meta \in MetaDb
        BY <2>3
      <3> QED BY <1>24, <3>1 DEF CommitDimension, MetaDb
    <2>5. /\ Resolves(idxTmp'[d], d, meta'.schemas) /\ Linked(idxTmp'[d], d, meta'.links)
      <3>1. Resolves(idxTmp[d], d, txn)
        BY <2>1, <2>3
      <3> QED BY <2>3, <2>4, <3>1 DEF Linked
    <2>6. SchemasInProgress'
      BY <2>2, <2>3, <2>4, <2>5
    <2>7. IndexedSchemasCommitted'
      <3>1. ASSUME NEW e \in Dim, idx[e] # Absent
            PROVE  Resolves(idx[e], e, txn) /\ Linked(idx[e], e, meta'.links)
        <4>1. Resolves(idx[e], e, meta.schemas) /\ Linked(idx[e], e, meta.links)
          BY <2>3, <3>1
        <4>2. \A i \in DOMAIN meta.schemas : i \in DOMAIN txn /\ txn[i] = meta.schemas[i]
          BY <2>3
        <4>3. Resolves(idx[e], e, txn)
          BY <4>1, <4>2, ResolvesInLongerTable
        <4> QED BY <2>4, <4>1, <4>3 DEF Linked
      <3> QED BY <2>3, <2>4, <3>1
    <2> QED BY <2>6, <2>7
  <1>25. ASSUME NEW d \in Dim, WriteIdxHeader(d) PROVE SchemasAgree'
    <2>1. todo' = todo /\ Current(d) /\ todo \subseteq Dim
      BY <1>25 DEF WriteIdxHeader, control, dimFiles, memory, ghost
    <2>2. \A e \in Dim : Current(e)' => e = d
      BY <2>1, CurrentKept
    <2>3. /\ pc = "header" /\ pc' = "renameBin" /\ UNCHANGED <<meta, idx, cache, txn>>
          /\ idxTmp[d] \in IdxFile
      BY <1>25 DEF WriteIdxHeader, memory
    <2>4. idxTmp'[d].ids = idxTmp[d].ids /\ idxTmp'[d].src = idxTmp[d].src
      BY <1>25, <2>3 DEF WriteIdxHeader, IdxFile
    <2>5. Resolves(idxTmp'[d], d, meta.schemas) /\ Linked(idxTmp'[d], d, meta.links)
      <3>1. Resolves(idxTmp[d], d, meta.schemas) /\ Linked(idxTmp[d], d, meta.links)
        BY <2>1, <2>3
      <3> QED BY <2>4, <3>1 DEF Resolves, Linked
    <2>6. SchemasInProgress'
      BY <2>2, <2>3, <2>5
    <2>7. IndexedSchemasCommitted'
      BY <2>3
    <2> QED BY <2>6, <2>7
  <1>26. ASSUME NEW d \in Dim, RenameBin(d) PROVE SchemasAgree'
    BY <1>26 DEF RenameBin, RemoveFrom, control, memory, ghost
  <1>27. ASSUME NEW d \in Dim, RenameIdx(d) PROVE SchemasAgree'
    BY <1>27 DEF RenameIdx, RemoveFrom, control, memory, ghost
  <1>28. ASSUME NEW d \in Dim, MarkCompleted(d) PROVE SchemasAgree'
    BY <1>28 DEF MarkCompleted, disk, ghost, control, dimFiles
  <1>29. CASE UNCHANGED vars
    BY <1>29 DEF vars, disk, control, dimFiles, process, memory, ghost
  <1> QED BY <1>1, <1>2, <1>3, <1>4, <1>5, <1>6, <1>7, <1>8, <1>9, <1>10, <1>11, <1>12, <1>13, <1>14, <1>15, <1>16, <1>17, <1>18, <1>19, <1>20, <1>21, <1>22, <1>23, <1>24, <1>25, <1>26, <1>27, <1>28, <1>29 DEF Next,
     Builder, BuildDimension


-----------------------------------------------------------------------------
(* The rows of action_schemas are in the order in which an uninterrupted    *)
(* build reads the lines.                                                   *)

\* The lines a builder with the state st is to store.
LinesOf(st) == StoredLines(st.sum, st.limit, st.dims)

LEMMA StoredLine ==
  ASSUME NEW r, r \in BuildState \/ r \in Command
  PROVE  /\ \A p \in LinesOf(r) :
              /\ p[1] \in r.dims /\ p[1] \in Dim /\ p[1] \in Nat /\ p = <<p[1], p[2]>>
              /\ p[2] \in Nat /\ p[2] \in 1..LineCount(r.sum, r.limit, p[1])
         /\ \A d \in r.dims : \A i \in 1..LineCount(r.sum, r.limit, d) : <<d, i>> \in LinesOf(r)
<1>1. r.dims \subseteq Dim /\ Dim \subseteq Nat
  BY BuildAssumption DEF BuildState, Command
<1>2. \A p : p \in LinesOf(r) <=>
        \E d \in r.dims : p \in {d} \X (1..LineCount(r.sum, r.limit, d))
  BY DEF LinesOf, StoredLines
<1>3. ASSUME NEW p \in LinesOf(r)
      PROVE  /\ p[1] \in r.dims /\ p[1] \in Dim /\ p[1] \in Nat /\ p = <<p[1], p[2]>>
             /\ p[2] \in Nat /\ p[2] \in 1..LineCount(r.sum, r.limit, p[1])
  <2>1. PICK d \in r.dims : p \in {d} \X (1..LineCount(r.sum, r.limit, d))
    BY <1>2
  <2>2. p[1] = d /\ p = <<p[1], p[2]>> /\ p[2] \in 1..LineCount(r.sum, r.limit, d)
    BY <2>1
  <2> QED
    BY <1>1, <2>2
<1> QED
  BY <1>2, <1>3

\* The next line an uninterrupted build reads adds a row when its schema is new,
\* and none when it is not.
LEMMA NextLine ==
  ASSUME NEW r \in BuildState, NEW lines \in SUBSET LinesOf(r), NEW p \in LinesOf(r),
         \A x \in lines, q \in LinesOf(r) : ReadBefore(q, x) => q \in lines,
         \A q \in LinesOf(r) : ReadBefore(q, p) => q \in lines,
         NEW t \in Seq(Schema), FreshTable(t, r.sum, lines),
         NEW u, SchemaOf(r.sum, p) \in Schema,
         \/ u = t /\ \E i \in DOMAIN t : t[i] = SchemaOf(r.sum, p)
         \/ /\ u = Append(t, SchemaOf(r.sum, p))
            /\ \A i \in DOMAIN t : t[i] # SchemaOf(r.sum, p)
  PROVE  FreshTable(u, r.sum, lines \cup {p})
<1> DEFINE k == SchemaOf(r.sum, p)
<1>1. /\ {t[i] : i \in DOMAIN t} = {SchemaOf(r.sum, q) : q \in lines}
      /\ \A i, j \in DOMAIN t : i < j =>
           \E w \in lines :
             /\ SchemaOf(r.sum, w) = t[i]
             /\ \A q \in lines : SchemaOf(r.sum, q) = t[j] => ReadBefore(w, q)
  BY DEF FreshTable
<1>2. CASE p \in lines
  <2>1. \E i \in DOMAIN t : t[i] = k
    BY <1>1, <1>2
  <2>2. u = t /\ lines \cup {p} = lines
    BY <1>2, <2>1
  <2> QED
    BY <2>2
<1>3. CASE p \notin lines
  <2>1. \A w \in lines : ReadBefore(w, p)
    <3> SUFFICES ASSUME NEW w \in lines PROVE ReadBefore(w, p)
      OBVIOUS
    <3>1. w # p /\ ~ReadBefore(p, w)
      BY <1>3
    <3>2. /\ w = <<w[1], w[2]>> /\ p = <<p[1], p[2]>>
          /\ w[1] \in Nat /\ w[2] \in Nat /\ p[1] \in Nat /\ p[2] \in Nat
      BY StoredLine
    <3> QED
      BY <3>1, <3>2 DEF ReadBefore
  <2>2. CASE u = t /\ \E i \in DOMAIN t : t[i] = k
    <3>1. {t[i] : i \in DOMAIN t} = {SchemaOf(r.sum, q) : q \in lines \cup {p}}
      BY <1>1, <2>2
    <3>2. ASSUME NEW i \in DOMAIN t, NEW j \in DOMAIN t, i < j
          PROVE  \E w \in lines \cup {p} :
                   /\ SchemaOf(r.sum, w) = t[i]
                   /\ \A q \in lines \cup {p} : SchemaOf(r.sum, q) = t[j] => ReadBefore(w, q)
      BY <1>1, <2>1, <3>2
    <3> QED
      BY <2>2, <3>1, <3>2 DEF FreshTable
  <2>3. CASE u = Append(t, k) /\ \A i \in DOMAIN t : t[i] # k
    <3>1. /\ DOMAIN t = 1..Len(t) /\ DOMAIN u = 1..(Len(t) + 1) /\ Len(t) \in Nat
          /\ u[Len(t) + 1] = k /\ \A i \in 1..Len(t) : u[i] = t[i]
      BY <2>3
    <3>2. {u[i] : i \in DOMAIN u} = {t[i] : i \in DOMAIN t} \cup {k}
      BY <3>1
    <3>3. {u[i] : i \in DOMAIN u} = {SchemaOf(r.sum, q) : q \in lines \cup {p}}
      BY <1>1, <3>2
    <3>4. ASSUME NEW i \in DOMAIN u, NEW j \in DOMAIN u, i < j
          PROVE  \E w \in lines \cup {p} :
                   /\ SchemaOf(r.sum, w) = u[i]
                   /\ \A q \in lines \cup {p} : SchemaOf(r.sum, q) = u[j] => ReadBefore(w, q)
      <4>1. i \in DOMAIN t /\ u[i] = t[i]
        BY <3>1, <3>4
      <4>2. CASE j \in DOMAIN t
        <5>1. PICK w \in lines :
                /\ SchemaOf(r.sum, w) = t[i]
                /\ \A q \in lines : SchemaOf(r.sum, q) = t[j] => ReadBefore(w, q)
          BY <1>1, <3>4, <4>1, <4>2
        <5>2. u[j] = t[j]
          BY <3>1, <4>2
        <5> QED
          BY <2>1, <4>1, <5>1, <5>2
      <4>3. CASE j \notin DOMAIN t
        <5>1. u[j] = k
          BY <3>1, <4>3
        <5>2. PICK w \in lines : SchemaOf(r.sum, w) = t[i]
          BY <1>1, <4>1
        <5>3. \A q \in lines : SchemaOf(r.sum, q) # k
          BY <1>1, <2>3
        <5> QED
          BY <2>1, <4>1, <5>1, <5>2, <5>3
      <4> QED
        BY <4>2, <4>3
    <3> QED
      BY <3>3, <3>4 DEF FreshTable
  <2> QED
    BY <2>2, <2>3
<1> QED
  BY <1>2, <1>3

\* The schema of the line that is flushed is in the table before or after.
LEMMA SchemaFound ==
  ASSUME Typed, SchemasAgree, pc = "pack", NEW k \in Schema, NEW id, GetOrInsertSchema(k, id)
  PROVE  \/ txn' = txn /\ \E i \in DOMAIN txn : txn[i] = k
         \/ txn' = Append(txn, k) /\ \A i \in DOMAIN txn : txn[i] # k
BY DEF GetOrInsertSchema, SchemasAgree, SchemasInProgress, SchemaTable, Prepared, Building

\* The table on disk, or in the open transaction, is that of an uninterrupted
\* build with the state st.
FreshSoFar(st, schemas, lines) ==
  lines \in SUBSET LinesOf(st) /\ ReadSoFar(st, lines) /\ FreshTable(schemas, st.sum, lines)

LEMMA FollowDef ==
  SchemasFollowLines <=>
    /\ pc \in {"copy", "stamp"} => meta.schemas = <<>>
    /\ state # Absent /\ meta # Absent => \E lines : FreshSoFar(state, meta.schemas, lines)
    /\ pc \in Prepared => \E lines : FreshSoFar(mem, SchemaTable, lines) /\ Flushed(lines)
BY DEF SchemasFollowLines, FreshSoFar, LinesOf

LEMMA FollowPrime ==
  /\ pc' \in {"copy", "stamp"} => meta'.schemas = <<>>
  /\ state' # Absent /\ meta' # Absent => \E lines : FreshSoFar(state', meta'.schemas, lines)
  /\ pc' \in Prepared => \E lines : FreshSoFar(mem', SchemaTable', lines) /\ Flushed(lines)'
  => SchemasFollowLines'
BY DEF SchemasFollowLines, FreshSoFar, LinesOf

\* A step that writes neither build-state.json nor meta.db, except to delete them.
LEMMA DiskFollows ==
  ASSUME SchemasFollowLines, state' \in {state, Absent}, meta' \in {meta, Absent},
         state' # Absent, meta' # Absent
  PROVE  \E lines : FreshSoFar(state', meta'.schemas, lines)
BY FollowDef

\* A step of the builder that reads no line and finds the same table afterwards.
LEMMA BuilderFollows ==
  ASSUME SchemasFollowLines, pc \in Prepared, mem' = mem, SchemaTable' = SchemaTable,
         \A lines : Flushed(lines) => Flushed(lines)'
  PROVE  \E lines : FreshSoFar(mem', SchemaTable', lines) /\ Flushed(lines)'
BY FollowDef

LEMMA FollowInit == Init => SchemasFollowLines
BY DEF Init, SchemasFollowLines, Prepared, Building, Saving

\* Steps that do not end in the builder's loop.
LEMMA OutsideStep ==
  ASSUME Typed, Consistent, SchemasFollowLines,
         \/ ReplaceSource \/ (\E mode \in Modes : Launch(mode)) \/ Crash
         \/ PrepareEmptyDir \/ Refuse \/ BeginWipe \/ RemoveEntry \/ EndWipe
         \/ InitMetaDb \/ CopyMetadata \/ WriteManifest
         \/ \E d \in Dim : FailPack(d)
  PROVE  SchemasFollowLines'
<1>1. pc' \notin Prepared
  BY DEF ReplaceSource, Launch, Crash, PrepareEmptyDir, Refuse, BeginWipe, RemoveEntry, EndWipe,
     InitMetaDb, CopyMetadata, WriteManifest, FailPack, Exit, process, memory, Prepared, Saving,
     Building
<1>2. CASE InitMetaDb
  <2>1. pc' = "copy" /\ meta'.schemas = <<>> /\ state' = Absent
    BY <1>2 DEF InitMetaDb, Consistent, FromScratch, control
  <2> QED
    BY <1>1, <2>1, FollowPrime
<1>3. CASE CopyMetadata
  <2>1. /\ meta'.schemas = <<>> /\ state' = Absent
    BY <1>3 DEF CopyMetadata, Consistent, FromScratch, control, SchemasFollowLines, Typed, TypeOK,
       Shape, Optional, MetaDb
  <2> QED
    BY <1>1, <2>1, FollowPrime
<1>4. CASE ~InitMetaDb /\ ~CopyMetadata
  <2>1. /\ pc' \notin {"copy", "stamp"} \/ UNCHANGED <<pc, meta>>
        /\ state' \in {state, Absent} /\ meta' \in {meta, Absent}
    BY <1>4 DEF ReplaceSource, Launch, Crash, PrepareEmptyDir, Refuse, BeginWipe, RemoveEntry,
       EndWipe, WriteManifest, FailPack, Exit, process, memory, disk, control, dimFiles
  <2>2. pc' \in {"copy", "stamp"} => meta'.schemas = <<>>
    BY <2>1, FollowDef
  <2> QED
    BY <1>1, <2>1, <2>2, DiskFollows, FollowPrime
<1> QED
  BY <1>2, <1>3, <1>4

\* The builder reads the next line of the dimension in progress.
LEMMA FlushStep ==
  ASSUME Typed, Typed', Consistent, SchemasAgree, SchemasFollowLines, NEW d \in Dim, FlushPack(d)
  PROVE  SchemasFollowLines'
<1>1. /\ pc = "pack" /\ pc' = "pack" /\ Current(d)
      /\ UNCHANGED <<state, meta, run, mem, todo>>
  BY DEF FlushPack, control
<1> DEFINE n == binTmp[d].packs
           p == <<d, n + 1>>
           k == SchemaOf(mem.sum, p)
<1>2. /\ mem \in BuildState /\ run \in Command /\ binTmp[d] \in BinFile /\ n \in Nat
      /\ todo \subseteq Dim /\ todo \subseteq mem.dims /\ txn \in Seq(Schema)
      /\ mem.sum = run.sum /\ mem.limit = run.limit /\ mem.dims = run.dims
      /\ \A e \in mem.dims \ todo : mem.done[e] # Absent
      /\ n <= LineCount(mem.sum, mem.limit, d)
  BY <1>1 DEF Typed, TypeOK, Shape, Consistent, InMemory, InProgress, Prepared, Building, Optional, BinFile
<1>3. MoreLines(run, d, n) /\ k # Malformed
  BY <1>1, <1>2 DEF FlushPack, SchemaOf
<1>4. /\ n + 1 \in 1..LineCount(mem.sum, mem.limit, d)
      /\ k \in Schema
  <2>1. n < LineCount(mem.sum, mem.limit, d) /\ LineCount(mem.sum, mem.limit, d) \in Nat
    BY <1>2, <1>3, LinesUpToCount, LineCountIsNat
  <2>2. Rows[run.sum][d] \in Seq(Schema \cup {Malformed})
    BY <1>2, BuildAssumption DEF Command
  <2>3. n + 1 \in 1..Len(Rows[run.sum][d])
    BY <1>2, <1>3, LineCountIsNat DEF MoreLines
  <2>4. k = Rows[run.sum][d][n + 1]
    BY <1>2 DEF SchemaOf
  <2> HIDE DEF n, k
  <2> QED
    BY <1>2, <1>3, <2>1, <2>2, <2>3, <2>4
<1>5. PICK id : GetOrInsertSchema(k, id)
  BY <1>2 DEF FlushPack, SchemaOf
<1>6. binTmp' = [binTmp EXCEPT ![d].packs = n + 1]
  BY DEF FlushPack
<1>7. PICK lines : FreshSoFar(mem, txn, lines) /\ Flushed(lines)
  BY <1>1, FollowDef DEF SchemaTable, Prepared, Building
<1>8. PICK more : more = lines \cup {p}
  OBVIOUS
<1> HIDE DEF k
<1>9. p \in LinesOf(mem)
  <2>1. d \in mem.dims
    BY <1>1, <1>2 DEF Current
  <2> QED
    BY <1>2, <1>4, <2>1, StoredLine
<1>10. \A q \in LinesOf(mem) : ReadBefore(q, p) => q \in lines
  <2> SUFFICES ASSUME NEW q \in LinesOf(mem), ReadBefore(q, p) PROVE q \in lines
    OBVIOUS
  <2>1. /\ q[1] \in mem.dims /\ q[1] \in Nat /\ q = <<q[1], q[2]>>
        /\ q[2] \in Nat /\ q[2] \in 1..LineCount(mem.sum, mem.limit, q[1])
    BY <1>2, StoredLine
  <2>2. CASE q[1] < d
    <3>1. q[1] \notin todo
      BY <1>1, <1>2, <2>1, <2>2, BuildAssumption DEF Current
    <3> QED
      BY <1>2, <1>7, <2>1, <3>1 DEF FreshSoFar, ReadSoFar, LinesOf
  <2>3. CASE q[1] = d /\ q[2] < n + 1
    <3>1. q[2] \in 1..n
      BY <1>2, <2>1, <2>3
    <3>2. q \in {d} \X (1..n)
      BY <2>1, <2>3, <3>1
    <3> QED
      BY <1>1, <1>7, <3>2 DEF Flushed
  <2> QED
    BY <2>2, <2>3 DEF ReadBefore
<1>11. FreshTable(txn', mem.sum, more)
  <2>1. \/ txn' = txn /\ \E i \in DOMAIN txn : txn[i] = k
        \/ txn' = Append(txn, k) /\ \A i \in DOMAIN txn : txn[i] # k
    BY <1>1, <1>4, <1>5, SchemaFound
  <2>2. /\ lines \in SUBSET LinesOf(mem) /\ FreshTable(txn, mem.sum, lines)
        /\ \A x \in lines, q \in LinesOf(mem) : ReadBefore(q, x) => q \in lines
    BY <1>7 DEF FreshSoFar, ReadSoFar, LinesOf
  <2> HIDE DEF p
  <2> QED
    BY <1>2, <1>4, <1>8, <1>9, <1>10, <2>1, <2>2, NextLine DEF k
<1>12. FreshSoFar(mem, txn', more)
  BY <1>7, <1>8, <1>9, <1>10, <1>11 DEF FreshSoFar, ReadSoFar, LinesOf
<1>13. Flushed(more)'
  <2>1. \A e \in Dim : Current(e)' => e = d
    BY <1>1, <1>2, CurrentKept
  <2>2. binTmp'[d].packs = n + 1
    BY <1>2, <1>6 DEF Typed, TypeOK, BinFile
  <2>3. {d} \X (1..n) \subseteq lines
    BY <1>1, <1>7 DEF Flushed
  <2>4. {d} \X (1..(n + 1)) \subseteq more
    <3>1. \A i \in 1..(n + 1) : i \in 1..n \/ i = n + 1
      BY <1>2
    <3> QED
      BY <1>8, <2>3, <3>1
  <2> QED
    BY <1>1, <2>1, <2>2, <2>4 DEF Flushed
<1>14. mem' = mem /\ SchemaTable' = txn'
  BY <1>1 DEF SchemaTable
<1>15. state' # Absent /\ meta' # Absent => \E l : FreshSoFar(state', meta'.schemas, l)
  BY <1>1, DiskFollows
<1> QED
  BY <1>1, <1>12, <1>13, <1>14, <1>15, FollowPrime

\* COMMIT puts the table of the transaction on disk.
LEMMA CommitStep ==
  ASSUME Typed, Typed', Consistent, Consistent', SchemasFollowLines,
         NEW d \in Dim, CommitDimension(d)
  PROVE  SchemasFollowLines'
<1>1. /\ pc = "pack" /\ pc' = "header" /\ Current(d)
      /\ UNCHANGED <<state, run, mem, todo, binTmp>>
      /\ state = mem
  BY DEF CommitDimension, control, dimFiles, Consistent, InMemory, Prepared, Building, Saving
<1>2. meta' # Absent /\ meta'.schemas = txn
  BY <1>1 DEF CommitDimension, Typed, TypeOK, Shape, Prepared, Building, Optional, MetaDb
<1>3. PICK lines : FreshSoFar(mem, txn, lines) /\ Flushed(lines)
  BY <1>1, FollowDef DEF SchemaTable, Prepared, Building
<1>4. Flushed(lines)'
  <2>1. \A e \in Dim : Current(e)' => e = d
    BY <1>1, CurrentKept DEF Typed, TypeOK
  <2>2. binTmp[d].packs = LineCount(mem.sum, mem.limit, d)
    <3>1. Current(d)'
      BY <1>1 DEF Current
    <3>2. WholeBin(binTmp'[d], run'.sum, run'.limit, d)
      BY <1>1, <3>1 DEF Consistent, InProgress
    <3> QED
      BY <1>1, <3>2 DEF WholeBin, Consistent, InMemory, Prepared, Building
  <2>3. {d} \X (1..LineCount(mem.sum, mem.limit, d)) \subseteq lines
    BY <1>1, <1>3, <2>2 DEF Flushed
  <2> QED
    BY <1>1, <2>1, <2>3 DEF Flushed
<1>5. SchemaTable' = txn /\ mem' = mem
  BY <1>1, <1>2 DEF SchemaTable
<1> QED
  BY <1>1, <1>2, <1>3, <1>4, <1>5, FollowPrime

\* The other steps of the builder's loop.
LEMMA FollowStep ==
  ASSUME Typed, Typed', Consistent, Consistent', SchemasAgree, SchemasFollowLines, [Next]_vars
  PROVE  SchemasFollowLines'
<1>1. CASE ResumeFromState
  <2>1. /\ pc' = "dims" /\ mem' = state /\ UNCHANGED <<state, meta>>
        /\ state # Absent /\ meta # Absent
    BY <1>1 DEF ResumeFromState, CanResume, disk, control
  <2>2. PICK lines : FreshSoFar(state, meta.schemas, lines)
    BY <2>1, FollowDef
  <2>3. Flushed(lines)' /\ SchemaTable' = meta.schemas
    BY <2>1 DEF Flushed, SchemaTable
  <2> QED
    BY <2>1, <2>2, <2>3, FollowPrime
<1>2. CASE StampBuildInfo
  <2>1. /\ pc' = "stateTmp" /\ state' = Absent /\ meta'.schemas = <<>>
        /\ \A d \in Dim : mem'.done[d] = Absent
        /\ mem' \in BuildState
    BY <1>2, NotAbsent DEF StampBuildInfo, control, Consistent, FromScratch, SchemasFollowLines, Typed, TypeOK,
       Shape, Optional, MetaDb, Prepared, Saving
  <2>2. Flushed({})' /\ SchemaTable' = <<>>
    BY <2>1 DEF Flushed, SchemaTable
  <2>3. \A q \in LinesOf(mem') : q[1] \in Dim
    BY <2>1, StoredLine
  <2>4. FreshSoFar(mem', <<>>, {})
    BY <2>1, <2>3 DEF FreshSoFar, ReadSoFar, FreshTable, LinesOf
  <2> QED
    BY <2>1, <2>2, <2>4, FollowPrime
<1>3. CASE RenameState
  <2>1. /\ pc = "stateRename" /\ pc' = "dims" /\ UNCHANGED <<meta, mem>> /\ state' = mem
        /\ SchemaTable' = meta.schemas /\ SchemaTable = meta.schemas
    BY <1>3 DEF RenameState, memory, Consistent, InMemory, Prepared, Saving, SchemaTable
  <2>2. PICK lines : FreshSoFar(mem, meta.schemas, lines)
    BY <2>1, FollowDef DEF Prepared, Saving
  <2>3. Flushed(lines)'
    BY <2>1 DEF Flushed
  <2> QED
    BY <2>1, <2>2, <2>3, FollowPrime
<1>4. CASE WriteStateTmp \/ RemoveState \/ OpenManifest
  <2>1. /\ pc \in Prepared /\ pc' \in Prepared /\ UNCHANGED <<meta, mem>>
        /\ state' \in {state, Absent} /\ SchemaTable' = SchemaTable
        /\ \A lines : Flushed(lines)'
        /\ pc' \notin {"copy", "stamp"}
    BY <1>4 DEF WriteStateTmp, RemoveState, OpenManifest, memory, Prepared, Saving, Building,
       SchemaTable, Flushed
  <2> QED
    BY <2>1, DiskFollows, BuilderFollows, FollowPrime
<1>5. ASSUME NEW d \in Dim, SkipCompleted(d) \/ StartDimension(d) \/ UnlinkStale(d)
      PROVE  SchemasFollowLines'
  <2>1. /\ pc \in Prepared /\ pc' \in Prepared /\ UNCHANGED <<state, meta, mem>>
        /\ SchemaTable' = SchemaTable
        /\ \A lines : Flushed(lines)'
        /\ pc' \notin {"copy", "stamp"}
    BY <1>5 DEF SkipCompleted, StartDimension, UnlinkStale, RemoveFrom, disk, control, memory,
       Prepared, Saving, Building, SchemaTable, Flushed
  <2> QED
    BY <2>1, DiskFollows, BuilderFollows, FollowPrime
<1>6. ASSUME NEW d \in Dim, CreateTmpFiles(d) PROVE SchemasFollowLines'
  <2>1. /\ pc = "create" /\ pc' = "pack" /\ UNCHANGED <<state, meta, mem, todo>>
        /\ Current(d) /\ SchemaTable' = SchemaTable
        /\ binTmp'[d].packs = 0
    BY <1>6 DEF CreateTmpFiles, control, SchemaTable, Typed, TypeOK
  <2>2. \A e \in Dim : Current(e)' => e = d
    BY <2>1, CurrentKept DEF Typed, TypeOK
  <2>3. \A lines : Flushed(lines)'
    <3>1. 1..binTmp'[d].packs = {}
      BY <2>1
    <3> QED
      BY <2>1, <2>2, <3>1 DEF Flushed
  <2> QED
    BY <2>1, <2>3, DiskFollows, BuilderFollows, FollowPrime DEF Prepared, Building
<1>7. ASSUME NEW d \in Dim, WriteIdxHeader(d) \/ RenameBin(d) \/ RenameIdx(d)
      PROVE  SchemasFollowLines'
  <2>1. /\ pc \in {"header", "renameBin", "renameIdx"}
        /\ pc' \in {"renameBin", "renameIdx", "mark"}
        /\ UNCHANGED <<state, meta, mem, todo>> /\ SchemaTable' = SchemaTable
    BY <1>7 DEF WriteIdxHeader, RenameBin, RenameIdx, RemoveFrom, control, memory, SchemaTable
  <2>2. \A e : Current(e)' <=> Current(e)
    BY <2>1 DEF Current
  <2>3. \A lines : Flushed(lines) => Flushed(lines)'
    BY <2>1, <2>2 DEF Flushed
  <2> QED
    BY <2>1, <2>3, DiskFollows, BuilderFollows, FollowPrime DEF Prepared, Building
<1>8. ASSUME NEW d \in Dim, MarkCompleted(d) PROVE SchemasFollowLines'
  <2>1. /\ pc = "mark" /\ pc' = "stateTmp" /\ UNCHANGED <<state, meta>> /\ Current(d)
        /\ mem' = [mem EXCEPT !.done[d] = [bin |-> bin[d], idx |-> idx[d]]]
    BY <1>8 DEF MarkCompleted, disk, control
  <2>2. PICK lines : FreshSoFar(mem, meta.schemas, lines) /\ Flushed(lines)
    BY <2>1, FollowDef DEF SchemaTable, Prepared, Building
  <2>3. mem \in BuildState
    BY <2>1 DEF Typed, TypeOK, Shape, Prepared, Building, Optional
  <2>4. /\ mem'.sum = mem.sum /\ mem'.limit = mem.limit /\ mem'.dims = mem.dims
        /\ \A e \in Dim \ {d} : mem'.done[e] = mem.done[e]
    BY <2>1, <2>3 DEF BuildState
  <2>5. {d} \X (1..LineCount(mem.sum, mem.limit, d)) \subseteq lines
    BY <2>1, <2>2 DEF Flushed
  <2>6. ASSUME NEW q \in LinesOf(mem), mem'.done[q[1]] # Absent PROVE q \in lines
    <3>1. /\ q[1] \in Dim /\ q = <<q[1], q[2]>>
          /\ q[2] \in 1..LineCount(mem.sum, mem.limit, q[1])
      BY <2>3, StoredLine
    <3>2. CASE q[1] = d
      <4>1. q \in {d} \X (1..LineCount(mem.sum, mem.limit, d))
        BY <3>1, <3>2
      <4> QED
        BY <2>5, <4>1
    <3>3. CASE q[1] # d
      BY <2>2, <2>4, <2>6, <3>1, <3>3 DEF FreshSoFar, ReadSoFar, LinesOf
    <3> QED
      BY <3>2, <3>3
  <2>7. FreshSoFar(mem', meta.schemas, lines)
    BY <2>2, <2>4, <2>6 DEF FreshSoFar, ReadSoFar, LinesOf
  <2>8. Flushed(lines)' /\ SchemaTable' = meta.schemas
    BY <2>1 DEF Flushed, SchemaTable
  <2> QED
    BY <2>1, <2>7, <2>8, DiskFollows, FollowPrime
<1>9. CASE UNCHANGED vars
  <2>1. UNCHANGED <<pc, state, meta, mem, txn, todo, binTmp>>
    BY <1>9 DEF vars, disk, control, dimFiles, process, memory
  <2> QED
    BY <2>1 DEF SchemasFollowLines, SchemaTable, Flushed, Current
<1> QED
  BY <1>1, <1>2, <1>3, <1>4, <1>5, <1>6, <1>7, <1>8, <1>9, OutsideStep, FlushStep, CommitStep
     DEF Next, Builder, BuildDimension

-----------------------------------------------------------------------------
(* The inductive invariant and what follows from it.                        *)

LEMMA BuildInvInit == Init => BuildInv
  BY TypedInit, ConsistentInit, SchemasInit, FollowInit DEF BuildInv, Typed, Consistent, SchemasAgree

LEMMA BuildInvStep == BuildInv /\ [Next]_vars => BuildInv'
  BY TypedStep, ConsistentStep, SchemasStep, FollowStep DEF BuildInv, Typed, Consistent, SchemasAgree

(***************************************************************************)
(* For every source, selection and limit, and any number of kills: after   *)
(* every step of the builder its memory, build-state.json, the dimension   *)
(* files, meta.db and manifest.json agree (BuildInv).                      *)
(***************************************************************************)
THEOREM BuildIsConsistent == Spec => []BuildInv
  <1>1. Init => BuildInv
    BY BuildInvInit
  <1>2. BuildInv /\ [Next]_vars => BuildInv'
    BY BuildInvStep
  <1> QED BY <1>1, <1>2, PTL DEF Spec

(***************************************************************************)
(* A reader of a half-deleted store never reads the files of another       *)
(* build than the one its manifest describes.                              *)
(***************************************************************************)
THEOREM SurvivorsSafe == Spec => []SurvivorsArePublished
  <1>1. BuildInv => SurvivorsArePublished
    BY DEF BuildInv
  <1> QED BY <1>1, BuildIsConsistent, PTL

(***************************************************************************)
(* No .idx file of the output directory refers to a schema row that was    *)
(* not committed, whenever the builder is killed.                          *)
(***************************************************************************)
THEOREM IndexedSchemasSafe == Spec => []IndexedSchemasCommitted
  <1>1. BuildInv => IndexedSchemasCommitted
    BY DEF BuildInv
  <1> QED BY <1>1, BuildIsConsistent, PTL

(***************************************************************************)
(* A complete manifest describes a complete store, whatever kills, resumes *)
(* and rebuilds came before it.                                            *)
(***************************************************************************)
THEOREM PublishedStoreSafe == Spec => []PublishedStoreIntact
  <1>1. BuildInv => PublishedStoreIntact
    <2> SUFFICES ASSUME BuildInv, Published, ~wiping
                 PROVE  /\ state # Absent /\ meta # Absent
                        /\ state.sum = manifest.sum /\ state.dims = manifest.dims
                        /\ meta.lines = manifest.sum /\ meta.stamp = manifest.sum
                        /\ \A d \in manifest.dims :
                             /\ WholeBin(bin[d], manifest.sum, state.limit, d)
                             /\ idx[d] # Absent
                             /\ WholeIdx(idx[d], manifest.sum, state.limit, d)
                             /\ Resolves(idx[d], d, meta.schemas)
                             /\ Linked(idx[d], d, meta.links)
      BY DEF PublishedStoreIntact
    <2>1. /\ state # Absent /\ meta # Absent
          /\ state.sum = manifest.sum /\ state.dims = manifest.dims
          /\ state.done = manifest.entries
      BY DEF BuildInv, InManifest
    <2>2. meta.lines = manifest.sum /\ meta.stamp = manifest.sum
      BY <2>1 DEF BuildInv, OnDisk
    <2>3. ASSUME NEW d \in manifest.dims
          PROVE  /\ WholeBin(bin[d], manifest.sum, state.limit, d)
                 /\ idx[d] # Absent
                 /\ WholeIdx(idx[d], manifest.sum, state.limit, d)
                 /\ Resolves(idx[d], d, meta.schemas)
                 /\ Linked(idx[d], d, meta.links)
      <3>1. d \in Dim /\ state.done[d] # Absent
        <4>1. manifest \in Manifest
          BY DEF BuildInv, TypeOK, Published, Optional
        <4> QED BY <2>1, <4>1, BuildAssumption DEF BuildInv, SurvivorsArePublished, Manifest
      <3>2. /\ EntryOnDisk(state.done[d], d)
            /\ WholeBin(state.done[d].bin, manifest.sum, state.limit, d)
            /\ WholeIdx(state.done[d].idx, manifest.sum, state.limit, d)
        BY <2>1, <3>1 DEF BuildInv, OnDisk, WholeEntries
      <3>3. idx[d] = state.done[d].idx /\ bin[d] = state.done[d].bin /\ idx[d] # Absent
        <4>1. state.done[d] \in Entry
          BY <2>1, <3>1 DEF BuildInv, TypeOK, BuildState, Optional
        <4> QED BY <3>2, <4>1, NotAbsent DEF EntryOnDisk, Entry
      <3> QED BY <2>1, <3>1, <3>2, <3>3 DEF BuildInv, IndexedSchemasCommitted
    <2> QED BY <2>1, <2>2, <2>3
  <1> QED BY <1>1, BuildIsConsistent, PTL

(***************************************************************************)
(* A store that was finished over any number of kills and resumes has the  *)
(* schema table of an uninterrupted build: no duplicate rows, no gaps, and *)
(* the same ids.                                                           *)
(***************************************************************************)
THEOREM ResumedStoreSafe == Spec => []ResumedStoreIsFresh
<1>1. BuildInv => ResumedStoreIsFresh
  <2> SUFFICES ASSUME BuildInv, Published, ~wiping
               PROVE  FreshTable(meta.schemas, manifest.sum,
                                 StoredLines(manifest.sum, state.limit, manifest.dims))
    BY DEF ResumedStoreIsFresh
  <2>1. /\ state # Absent /\ meta # Absent /\ state \in BuildState
        /\ state.sum = manifest.sum /\ state.dims = manifest.dims
        /\ state.done = manifest.entries
        /\ \A d \in manifest.dims : manifest.entries[d] # Absent
    BY DEF BuildInv, InManifest, SurvivorsArePublished, TypeOK, Optional
  <2>2. PICK lines : FreshSoFar(state, meta.schemas, lines)
    BY <2>1, FollowDef DEF BuildInv
  <2>3. \A q \in LinesOf(state) : state.done[q[1]] # Absent
    BY <2>1, StoredLine
  <2>4. lines = LinesOf(state)
    BY <2>2, <2>3 DEF FreshSoFar, ReadSoFar, LinesOf
  <2> QED
    BY <2>1, <2>2, <2>4 DEF FreshSoFar, LinesOf
<1> QED
  BY <1>1, BuildIsConsistent, PTL

\* A dimension that build-state.json records as completed.
LEMMA CompletedStep ==
  ASSUME BuildInv, [Next]_vars,
         NEW d \in Dim, state # Absent, state.done[d] # Absent, pc # "wipe"
  PROVE  bin'[d] = bin[d] /\ idx'[d] = idx[d]
  <1>1. ASSUME NEW e \in Dim, pc \in Building, Current(e), mem # Absent
        PROVE  e # d
    BY <1>1 DEF BuildInv, TypeOK, Shape, InMemory, Prepared, Building, Saving
  <1>2. ASSUME NEW e \in Dim, BuildDimension(e)
        PROVE  bin'[d] = bin[d] /\ idx'[d] = idx[d]
    <2>1. CASE UnlinkStale(e) \/ RenameBin(e) \/ RenameIdx(e)
      <3>1. e # d
        BY <1>1, <2>1 DEF UnlinkStale, RenameBin, RenameIdx, Building, BuildInv,
           Shape, Prepared
      <3> QED BY <2>1, <3>1 DEF UnlinkStale, RenameBin, RenameIdx, RemoveFrom,
              BuildInv, TypeOK
    <2>2. CASE ~(UnlinkStale(e) \/ RenameBin(e) \/ RenameIdx(e))
      BY <1>2, <2>2 DEF BuildDimension, SkipCompleted, StartDimension, CreateTmpFiles,
         FlushPack, FailPack, CommitDimension, WriteIdxHeader, MarkCompleted, disk, dimFiles
    <2> QED BY <2>1, <2>2
  <1>3. CASE \E e \in Dim : BuildDimension(e)
    BY <1>2, <1>3
  <1>4. CASE ~\E e \in Dim : BuildDimension(e)
    <2>1. UNCHANGED <<bin, idx>>
      BY <1>4 DEF Next, vars, Builder, ReplaceSource, Launch, Crash, ResumeFromState,
         PrepareEmptyDir, Refuse, BeginWipe, RemoveEntry, EndWipe, InitMetaDb,
         CopyMetadata, StampBuildInfo, WriteStateTmp, RemoveState, RenameState,
         OpenManifest, WriteManifest, disk, dimFiles
    <2> QED BY <2>1
  <1> QED BY <1>3, <1>4

(***************************************************************************)
(* No builder touches the files of a completed dimension, except to delete *)
(* the whole directory for --overwrite.                                    *)
(***************************************************************************)
THEOREM CompletedSafe == Spec => CompletedIsKept
  <1>1. BuildInv /\ [Next]_vars =>
          [\A d \in Dim :
             state # Absent /\ state.done[d] # Absent /\ pc # "wipe" =>
               bin'[d] = bin[d] /\ idx'[d] = idx[d]]_vars
    BY CompletedStep
  <1> QED BY <1>1, BuildIsConsistent, PTL DEF Spec, CompletedIsKept
=============================================================================
