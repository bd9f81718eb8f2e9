------------------------------ MODULE StoreVerify ------------------------------
(***************************************************************************)
(* range-store-tools verify: what the standalone check says of the files   *)
(* of a directory, and what the cross check says of them and of a source   *)
(* database.  The directory is one the builder published; files may have   *)
(* been damaged since, and the source may have been edited.                *)
(*                                                                         *)
(* A check pushes failures on a list.  Here a list is the set of its       *)
(* entries; only where the report keeps the first of them does their order *)
(* count, which is that of the layers.                                     *)
(***************************************************************************)
EXTENDS StoreFiles

CONSTANTS
  Commands,   \* verify commands: [mode, checksums, sample, maxFailures]
  ReportCap,  \* 200, the failures a report holds
  Tolerance   \* ACTION_VALUE_TOLERANCE

ASSUME VerifyAssumption ==
  /\ ReportCap \in Nat \ {0}
  /\ Tolerance \in Nat
  /\ \A c \in Commands : c.maxFailures \in Nat \ {0}   \* parse_verify_args

VARIABLES
  harmed,   \* "" or what has been changed since the build: "files", "source"
  command,  \* the command that was run
  report    \* its report

verifyVars == <<fileVars, harmed, command, report>>

NoCommand == [mode |-> "none", checksums |-> FALSE, sample |-> 0, maxFailures |-> 1]
NoReport == [outcome |-> "none", failures |-> {}]

Global == ""  \* the dimension of a failure that is about none

Failing(layer, dim, place, reason) ==
  [layer |-> layer, dim |-> dim, place |-> place, reason |-> reason]

\* The failure if the condition is met.
When(condition, failing) == IF condition THEN {failing} ELSE {}

-----------------------------------------------------------------------------
\* Dimensions that the manifest does not list as failed.
Successful == {e \in ToSet(disk.entries) : ~e.failed}

HasIdx(e) == e.idxFile /\ disk.idx[e.dim].header # "missing"
HasBin(e) == e.binFile /\ disk.bin[e.dim].header # "missing"

ManifestFailures ==
  CASE disk.manifest = "missing" -> {Failing("file", "manifest.json", 0, "MISSING_FILE")}
    [] disk.manifest = "garbled" -> {Failing("manifest", Global, 0, "INVALID_JSON")}
    [] disk.manifest = "version" -> {Failing("manifest", Global, 0, "UNSUPPORTED_FORMAT")}
    [] OTHER -> {}

MissingFiles ==
  When(disk.catalog = "missing", Failing("file", "meta.db", 0, "MISSING_FILE"))
  \cup {Failing("file", e.dim, 0, "MISSING_IDX") : e \in {e \in Successful : ~HasIdx(e)}}
  \cup {Failing("file", e.dim, 0, "MISSING_BIN") : e \in {e \in Successful : ~HasBin(e)}}

-----------------------------------------------------------------------------
\* check_action_schemas, of one row.
SchemaFailures(s) ==
  When(Len(s.blob) # s.count, Failing("catalog", Global, s.id, "INVALID_FORMAT"))
  \cup When(s.count \notin 1..MaxActions, Failing("catalog", Global, s.id, "INVALID_ARGUMENT"))
  \cup When(s.checksum # s.blob, Failing("catalog", Global, s.id, "CHECKSUM_MISMATCH"))
  \cup When(s.key # s.blob, Failing("catalog", Global, s.id, "SCHEMA_KEY_MISMATCH"))

HasTable(name) == disk.catalog = "ok" /\ name \in disk.tables

\* The rows of action_schemas that the later checks know of.
KnownSchemas == IF HasTable("action_schemas") THEN disk.schemas ELSE {}

\* check_catalog.
CatalogFailures ==
  IF disk.catalog # "ok" THEN {Failing("catalog", Global, 0, "IO_ERROR")}
  ELSE LET Info == {"built_at", "source_checksum"}
       IN When(~HasTable("build_info"), Failing("catalog", Global, 0, "NO_BUILD_INFO"))
          \cup {Failing("catalog", Global, 0, row) :
                  row \in IF HasTable("build_info") THEN Info \ disk.info ELSE {}}
          \cup When(~HasTable("action_schemas"), Failing("catalog", Global, 0, "NO_SCHEMAS"))
          \cup When(HasTable("action_schemas") /\ disk.schemas = {},
                    Failing("catalog", Global, 0, "EMPTY"))
          \cup (UNION {SchemaFailures(s) : s \in KnownSchemas})
          \cup When(Successful # {} /\ ~HasTable("drill"),
                    Failing("catalog", Global, 0, "NO_DRILL_TABLE"))
          \cup {Failing("catalog", Global, 0, "NO_LINES") :
                  e \in {e \in Successful : e.dim \notin disk.lines}}
          \cup {Failing("catalog", Global, 0, "MISSING_INDEX") :
                  e \in {e \in Successful : e.dim \in disk.lines \ disk.indexed}}

-----------------------------------------------------------------------------
\* check_index_headers, of the record at a place of an index.
OrderFailures(f, d, i) ==
  LET id == f.records[i].line
      before == f.records[i - 1].line
  IN IF i = 1 THEN {}
     ELSE When(id <= before, Failing("index", d, i, "OUT_OF_ORDER"))
          \cup When(id > before + 1, Failing("index", d, i, "NON_DENSE_CONCRETE_LINE_ID"))

RecordFailures(f, d, i) ==
  OrderFailures(f, d, i)
  \cup When(f.records[i].hands > HandCount, Failing("index", d, i, "INVALID_HAND_COUNT"))
  \cup When(~\E s \in KnownSchemas : s.id = f.records[i].schema,
            Failing("index", d, i, "DANGLING_FOREIGN_KEY"))

\* The records can be read: neither the header nor one of them is cut off.
Whole(f) == f.header \notin {"missing", "short"} /\ f.count <= Len(f.records)

\* A header that says something wrong does not keep the records from being
\* checked, one that is cut off does.
IndexFailures(d) ==
  LET f == disk.idx[d]
  IN When(f.header # "ok", Failing("index", d, 0, f.header))
     \cup When(f.header \notin {"missing", "short"} /\ ~Whole(f),
               Failing("index", d, 0, "TRUNCATED"))
     \cup UNION {RecordFailures(f, d, i) : i \in IF Whole(f) THEN 1..f.count ELSE {}}

\* check_pack_headers.
PackHeaderFailures(d) == When(disk.bin[d].header # "ok",
                              Failing("pack", d, 0, disk.bin[d].header))

\* validate_pack_hand_ids: the walk ends at the first id that is not above the
\* one before it.
HandFailures(pack, hands, d, i) ==
  LET Falls == {k \in 2..hands : pack[k][1] <= pack[k - 1][1]}
      last == IF Falls = {} THEN hands ELSE Min(Falls)
  IN IF Len(pack) < hands THEN {}
     ELSE When(Falls # {}, Failing("cross", d, i, "HAND_ID_NOT_SORTED"))
          \cup When(\E k \in 1..last : pack[k][1] \notin HandId,
                    Failing("cross", d, i, "INVALID_HAND_ID"))

\* FAULT: the size of a pack is not compared with that its schema gives.
PackFailuresUnsized(d, i, checksums) ==
  LET b == disk.bin[d]
      r == disk.idx[d].records[i]
  IN When(r.offset < PfspHeaderSize, Failing("cross", d, i, "INVALID_OFFSET"))
     \cup IF r.offset + r.length > BinLength(b)
          THEN {Failing("cross", d, i, "OUT_OF_BOUNDS")}
          ELSE When(checksums /\ PackBytes(b, r) # r.checksum,
                    Failing("cross", d, i, "CHECKSUM_MISMATCH"))
               \cup HandFailures(PackBytes(b, r), r.hands, d, i)

\* check_index_pack_cross, of one record.
PackFailures(d, i, checksums) ==
  LET b == disk.bin[d]
      r == disk.idx[d].records[i]
      Expected == {PackByteLength(r.hands, s.count) :
                     s \in {s \in KnownSchemas : s.id = r.schema}}
  IN When(r.offset < PfspHeaderSize, Failing("cross", d, i, "INVALID_OFFSET"))
     \cup IF r.offset + r.length > BinLength(b)
          THEN {Failing("cross", d, i, "OUT_OF_BOUNDS")}
          ELSE When(\E n \in Expected : n # r.length,
                    Failing("cross", d, i, "PACK_SIZE_MISMATCH"))
               \cup When(checksums /\ PackBytes(b, r) # r.checksum,
                         Failing("cross", d, i, "CHECKSUM_MISMATCH"))
               \cup HandFailures(PackBytes(b, r), r.hands, d, i)

PackRecords(e) ==
  IF HasIdx(e) /\ HasBin(e) /\ Whole(disk.idx[e.dim]) THEN 1..disk.idx[e.dim].count ELSE {}

\* run_standalone_verify, before the report.
StandaloneFailures(checksums) ==
  IF ManifestFailures # {} THEN ManifestFailures
  ELSE MissingFiles \cup CatalogFailures
       \cup (UNION {IndexFailures(e.dim) : e \in {e \in Successful : e.idxFile}})
       \cup (UNION {PackHeaderFailures(e.dim) : e \in {e \in Successful : e.binFile}})
       \cup UNION {UNION {PackFailures(e.dim, i, checksums) : i \in PackRecords(e)} :
                     e \in Successful}

-----------------------------------------------------------------------------
Layers == <<"file", "manifest", "catalog", "index", "pack", "cross", "source">>

\* The first failures of a list, no more than cap.
FirstOf(failures, cap) ==
  LET Rank(f) == CHOOSE k \in DOMAIN Layers : Layers[k] = f.layer
      n == Min({Cardinality(failures), cap})
  IN CHOOSE K \in kSubset(n, failures) :
       \A f \in K : \A g \in failures \ K : Rank(f) <= Rank(g)

\* The failures that RangeStrataVerifyReport::new keeps.
Kept(failures) == FirstOf(failures, ReportCap)

\* build_dimension_details: the dimensions that are checked, with the numbers
\* of their failures.
Details(failures) ==
  [d \in {e.dim : e \in Successful} |->
     [header |-> Cardinality({f \in failures : f.dim = d /\ f.layer \in {"file", "index", "pack"}}),
      cross |-> Cardinality({f \in failures : f.dim = d /\ f.layer = "cross"})]]

\* calculate_totals, of all the failures there are.
Totals(details, failures) ==
  [manifestOk |-> ~\E f \in failures : f.layer = "manifest" \/ f.dim = "manifest.json",
   catalogOk |-> ~\E f \in failures : f.layer = "catalog" \/ f.dim = "meta.db",
   indexFailed |-> Cardinality({d \in DOMAIN details : details[d].header + details[d].cross > 0}),
   packFailed |-> Cardinality({d \in DOMAIN details :
                                 \E f \in failures : f.layer = "pack" /\ f.dim = d}),
   crossFailures |-> Cardinality({f \in failures : f.layer = "cross"}),
   checked |-> 0, failed |-> 0, extra |-> 0]

Report(details, failures) ==
  [outcome |-> "report", details |-> details, totals |-> Totals(details, failures),
   failures |-> Kept(failures)]

\* print_verify_summary.
Passes(r) == r.outcome = "report" /\ r.failures = {}

HasFailures(totals) ==
  \/ ~totals.manifestOk \/ ~totals.catalogOk
  \/ totals.indexFailed > 0 \/ totals.packFailed > 0 \/ totals.crossFailures > 0
  \/ totals.failed > 0 \/ totals.extra > 0

StandaloneReport(checksums) ==
  LET failures == StandaloneFailures(checksums)
  IN Report(IF ManifestFailures = {} THEN Details(failures) ELSE <<>>, failures)

-----------------------------------------------------------------------------
\* load_action_schemas decodes every blob or none.
SchemasLoad == HasTable("action_schemas") /\ \A s \in disk.schemas : BlobDecodes(s)

Distance(x, y) == IF x < y THEN y - x ELSE x - y

\* find_matching_action: the number of the first action of the schema, from 0,
\* with the type of the row and its size; -1 if there is none.
MatchingAction(blob, row) ==
  LET Matches == {a \in DOMAIN blob : blob[a][1] = row.action
                                      /\ Distance(blob[a][2], row.size) <= Tolerance}
  IN IF Matches = {} THEN -1 ELSE Min(Matches) - 1

\* check_float32_round_trip: "" if the value is that of the source as float32.
RoundTrip(value, stored) ==
  IF value = Infinite \/ stored = Infinite THEN "INVALID_NUMBER"
  ELSE IF Float32(value) = stored THEN "" ELSE "FLOAT32_MISMATCH"

\* check_nullable_float32_round_trip.
NullableRoundTrip(value, stored) ==
  IF value = NoEv \/ stored = NoEv
  THEN IF value = stored THEN "" ELSE "NULL_MISMATCH"
  ELSE RoundTrip(value, stored)

\* The reasons of a row by those of its numbers.
FrequencyReason == [INVALID_NUMBER |-> "FREQUENCY_INVALID_NUMBER",
                    FLOAT32_MISMATCH |-> "FREQUENCY_FLOAT32_MISMATCH"]
HandEvReason == [INVALID_NUMBER |-> "HAND_EV_INVALID_NUMBER",
                 NULL_MISMATCH |-> "HAND_EV_NULL_MISMATCH",
                 FLOAT32_MISMATCH |-> "HAND_EV_FLOAT32_MISMATCH"]

\* Why no row of a line can be looked at, "" if they can.
GroupFailure(d, line, checksums) ==
  LET b == disk.bin[d]
      r == Found(disk.idx[d], line)
      Schemas == {s \in disk.schemas : s.id = r.schema}
  IN IF ~Finds(disk.idx[d], line) THEN "PACK_NOT_FOUND_IN_IDX"
     ELSE IF Schemas = {} THEN "ACTION_SCHEMA_NOT_FOUND"
     ELSE IF ~PackInBounds(b, r) THEN "PACK_READ_ERROR"
     ELSE IF checksums /\ PackBytes(b, r) # r.checksum THEN "CHECKSUM_MISMATCH"
     ELSE IF \E s \in Schemas : ~PackDecodes(PackBytes(b, r), r.hands, s.count)
          THEN "PACK_DECODE_ERROR"
     ELSE ""

\* The pack of a line that has no such failure, and its actions.
Decoded(d, line) ==
  LET r == Found(disk.idx[d], line)
      schema == CHOOSE s \in disk.schemas : s.id = r.schema
      pack == PackBytes(disk.bin[d], r)
  IN [actions |-> schema.blob, hands |-> [h \in 1..r.hands |-> pack[h][1]],
      cells |-> DecodePack(pack, r.hands, schema.count)]

\* The place of the cell of a row, 0 if its hand or its action is not there.
\* Of several places of a hand the last counts.
CellPlace(decoded, row) ==
  LET Places == {h \in DOMAIN decoded.hands : decoded.hands[h] = row.hand}
      action == MatchingAction(decoded.actions, row)
  IN IF Places = {} \/ action = -1 THEN 0
     ELSE (Max(Places) - 1) * Len(decoded.actions) + action + 1

\* FAULT: a row without a cell is passed over.
RowFailureOfSetCells(decoded, row) ==
  LET place == CellPlace(decoded, row)
      cell == decoded.cells[place].cell
  IN IF place = 0 \/ ~decoded.cells[place].exists THEN ""
     ELSE IF RoundTrip(row.freq, cell.freq) # ""
          THEN FrequencyReason[RoundTrip(row.freq, cell.freq)]
     ELSE IF NullableRoundTrip(row.ev, cell.ev) # ""
          THEN HandEvReason[NullableRoundTrip(row.ev, cell.ev)]
     ELSE ""

\* verify_source_row: why a row fails, "" if it does not.
RowFailure(decoded, row) ==
  LET place == CellPlace(decoded, row)
      cell == decoded.cells[place].cell
  IN IF row.hand \notin HandId THEN "UNKNOWN_HAND"
     ELSE IF \A h \in DOMAIN decoded.hands : decoded.hands[h] # row.hand
          THEN "HAND_NOT_FOUND_IN_PACK"
     ELSE IF place = 0 THEN "ACTION_NOT_FOUND_IN_SCHEMA"
     ELSE IF ~decoded.cells[place].exists THEN "ACTION_CELL_NOT_SET"
     ELSE IF RoundTrip(row.freq, cell.freq) # ""
          THEN FrequencyReason[RoundTrip(row.freq, cell.freq)]
     ELSE IF NullableRoundTrip(row.ev, cell.ev) # ""
          THEN HandEvReason[NullableRoundTrip(row.ev, cell.ev)]
     ELSE ""

\* Cells of the pack of a line that no row of it was matched with.
ExtraCells(decoded, lineRows) ==
  LET Expected == {<<row.hand, MatchingAction(decoded.actions, row)>> :
                     row \in {row \in lineRows : /\ CellPlace(decoded, row) # 0
                                                 /\ decoded.cells[CellPlace(decoded, row)].exists}}
  IN Cardinality({k \in DOMAIN decoded.cells :
                    /\ decoded.cells[k].exists
                    /\ <<decoded.cells[k].hand, decoded.cells[k].cell.action>> \notin Expected})

-----------------------------------------------------------------------------
Opens(d) == IdxOpens(disk.idx[d]) /\ BinOpens(disk.bin[d])

\* verify_dimension_rows, of the rows at some places of the table of a
\* dimension: failures, rows checked and failed, cells nobody expected.
CrossDimension(d, Places, c) ==
  LET T == source[d]
      Lines == {T[i].line : i \in Places}
      At(line) == {i \in Places : T[i].line = line}
      Lost == {line \in Lines : GroupFailure(d, line, c.checksums) # ""}
      Reason(i) == RowFailure(Decoded(d, T[i].line), T[i])
      Bad == {i \in Places : T[i].line \notin Lost /\ Reason(i) # ""}
      Unplaced == {i \in Places : T[i].line \in Lost}
  IN IF ~Opens(d)
     THEN [failures |-> {Failing("source", d, 0, "IO_ERROR")}, checked |-> 0, failed |-> 0, extra |-> 0]
     ELSE [failures |-> {Failing("source", d, i, GroupFailure(d, T[i].line, c.checksums)) :
                           i \in {i \in Unplaced : \/ ~Finds(disk.idx[d], T[i].line)
                                                   \/ i = Max(At(T[i].line))}}
                        \cup {Failing("source", d, i, Reason(i)) : i \in Bad},
           checked |-> Cardinality(Places),
           failed |-> Cardinality(Bad \cup Unplaced),
           extra |-> IF c.sample # 0 THEN 0
                     ELSE MapThenSumSet(LAMBDA line : ExtraCells(Decoded(d, line), {T[i] : i \in At(line)}),
                                  Lines \ Lost)]

\* The number of rows of a dimension that are sampled: its share, at least one.
Quota(d, c) ==
  LET total == MapThenSumSet(LAMBDA e : Len(source[e]), Dim)
      share == (Len(source[d]) * c.sample) \div (IF total = 0 THEN 1 ELSE total)
      quota == IF share < 1 THEN 1 ELSE share
  IN IF c.sample = 0 \/ quota > Len(source[d]) THEN Len(source[d]) ELSE quota

\* Dimensions of the source that the manifest does not list as failed.
CrossDims == Dim \ {e.dim : e \in {e \in ToSet(disk.entries) : e.failed}}

\* The rows that the order of the sampling may bring to the front.
Samples(c) ==
  LET Rows(d) == kSubset(Quota(d, c), DOMAIN source[d])
  IN {f \in [CrossDims -> UNION {Rows(d) : d \in CrossDims}] :
        \A d \in CrossDims : f[d] \in Rows(d)}

\* FAULT: the report has the failures of the cross check only.
CrossReportAlone(c, sample) ==
  LET cross == [d \in CrossDims |-> CrossDimension(d, sample[d], c)]
      Sum(F(_)) == MapThenSumSet(F, CrossDims)
      alone == Report(StandaloneReport(c.checksums).details,
                      FirstOf(UNION {cross[d].failures : d \in CrossDims}, c.maxFailures))
  IN [alone EXCEPT !.totals.checked = Sum(LAMBDA d : cross[d].checked),
                   !.totals.failed = Sum(LAMBDA d : cross[d].failed),
                   !.totals.extra = Sum(LAMBDA d : cross[d].extra)]

\* run_cross_verify with rows of the source: the failures that the standalone
\* report holds and those of the cross check are counted and cut again.
CrossReport(c, sample) ==
  LET standalone == StandaloneReport(c.checksums)
      cross == [d \in CrossDims |-> CrossDimension(d, sample[d], c)]
      Sum(F(_)) == MapThenSumSet(F, CrossDims)
      both == Report(standalone.details,
                     standalone.failures
                     \cup FirstOf(UNION {cross[d].failures : d \in CrossDims}, c.maxFailures))
  IN [both EXCEPT !.totals.checked = Sum(LAMBDA d : cross[d].checked),
                  !.totals.failed = Sum(LAMBDA d : cross[d].failed),
                  !.totals.extra = Sum(LAMBDA d : cross[d].extra)]

-----------------------------------------------------------------------------
\* What bit rot, a broken copy or another program can do to a record of an index.
HarmedRecord(r) ==
  {[r EXCEPT !.line = @ + 1], [r EXCEPT !.line = 0],
   [r EXCEPT !.schema = @ + 1],
   [r EXCEPT !.hands = @ + 1], [r EXCEPT !.hands = 0],
   [r EXCEPT !.offset = 0], [r EXCEPT !.offset = @ + 1],
   [r EXCEPT !.length = @ - 1], [r EXCEPT !.length = @ + 8 * r.hands],
   [r EXCEPT !.hands = 0, !.length = 0, !.checksum = <<>>]}

\* ... to an index.
HarmedIdx(f) ==
  {[f EXCEPT !.header = h] : h \in {"missing", "short", "magic", "version", "size"}}
  \cup {[f EXCEPT !.count = n] : n \in {f.count - 1, f.count + 1} \cap Nat}
  \cup {[f EXCEPT !.records = Front(@)] : k \in {k \in {1} : f.records # <<>>}}
  \cup {[f EXCEPT !.records[1] = [f.records[i] EXCEPT !.line = f.records[1].line]] :
           i \in DOMAIN f.records \ {1}}
  \cup UNION {{[f EXCEPT !.records[i] = r] : r \in HarmedRecord(f.records[i])} :
                i \in DOMAIN f.records}

\* ... to a file of packs: a hand id or a word is another number.
Raised(bytes, Places) ==
  [k \in DOMAIN bytes |->
     IF k \in Places THEN <<bytes[k][1] + 1, bytes[k][2]>> ELSE bytes[k]]

HarmedBin(f) ==
  {[f EXCEPT !.header = h] : h \in {"missing", "short", "bad"}}
  \cup {[f EXCEPT !.bytes = Front(@)] : k \in {k \in {1} : f.bytes # <<>>}}
  \cup {[f EXCEPT !.bytes = Raised(@, {k})] : k \in {k \in DOMAIN f.bytes : f.bytes[k][2] = 0}}
  \cup {[f EXCEPT !.bytes = Raised(@, k..(k + 3))] :
           k \in {k \in DOMAIN f.bytes : f.bytes[k][2] = 1}}

\* ... to meta.db and the manifest.
HarmedCatalog ==
  {[disk EXCEPT !.catalog = h] : h \in {"missing", "bad"}}
  \cup {[disk EXCEPT !.tables = @ \ {t}] : t \in disk.tables}
  \cup {[disk EXCEPT !.info = {}], [disk EXCEPT !.lines = {}], [disk EXCEPT !.indexed = {}],
        [disk EXCEPT !.schemas = {}]}
  \cup (UNION {{[disk EXCEPT !.schemas = (@ \ {s})],
                [disk EXCEPT !.schemas = (@ \ {s}) \cup {[s EXCEPT !.count = @ + 1]}],
                [disk EXCEPT !.schemas = (@ \ {s}) \cup {[s EXCEPT !.blob[1][1] = 5 - @]}],
                [disk EXCEPT !.schemas = (@ \ {s}) \cup {[s EXCEPT !.key = <<>>]}]}
               : s \in disk.schemas})
  \cup {[disk EXCEPT !.manifest = h] : h \in {"missing", "garbled", "version"}}
  \cup UNION {{[disk EXCEPT !.entries[i].failed = TRUE],
               [disk EXCEPT !.entries[i].idxFile = FALSE],
               [disk EXCEPT !.entries[i].binFile = FALSE]} : i \in DOMAIN disk.entries}

InitVerify == Init /\ harmed = "" /\ command = NoCommand /\ report = NoReport

Build == FilesNext /\ UNCHANGED <<harmed, command, report>>

DamageFiles ==
  /\ pc = "published" /\ harmed = "" /\ report = NoReport
  /\ \/ disk' \in HarmedCatalog
     \/ \E d \in Dim : \E f \in HarmedIdx(disk.idx[d]) : disk' = [disk EXCEPT !.idx[d] = f]
     \/ \E d \in Dim : \E f \in HarmedBin(disk.bin[d]) : disk' = [disk EXCEPT !.bin[d] = f]
  /\ harmed' = "files"
  /\ UNCHANGED <<source, limit, building, command, report>>

\* The rows of a table that are not of a line.
RowsWithout(T, line) ==
  LET kept == Ordered({i \in DOMAIN T : T[i].line # line}, LAMBDA x, y : x < y)
  IN [k \in DOMAIN kept |-> T[kept[k]]]

EditSource ==
  /\ pc = "published" /\ harmed = "" /\ report = NoReport
  /\ \E d \in Dim :
       \/ \E i \in DOMAIN source[d] : source' = [source EXCEPT ![d] = RemoveAt(@, i)]
       \/ \E i \in DOMAIN source[d] :
            source' = [source EXCEPT ![d] = RowsWithout(@, source[d][i].line)]
       \/ \E i \in DOMAIN source[d] :
            source' \in {[source EXCEPT ![d][i].freq = @ + 1],
                         [source EXCEPT ![d][i].freq = @ + Step],
                         [source EXCEPT ![d][i].ev = IF @ = NoEv THEN 0 ELSE NoEv],
                         [source EXCEPT ![d][i].action = 5 - @],
                         [source EXCEPT ![d][i].hand = HandCount - 1 - @]}
  /\ harmed' = "source"
  /\ UNCHANGED <<limit, building, disk, command, report>>

VerifyStandalone ==
  /\ pc = "published" /\ report = NoReport
  /\ \E c \in Commands :
       /\ c.mode = "standalone"
       /\ command' = c
       /\ report' = StandaloneReport(c.checksums)
  /\ UNCHANGED <<fileVars, harmed>>

\* Without a manifest the cross check ends with the standalone report, with a
\* schema that cannot be decoded it ends without one.
VerifyCross ==
  /\ pc = "published" /\ report = NoReport
  /\ \E c \in Commands :
       /\ c.mode = "cross"
       /\ command' = c
       /\ \/ ManifestFailures # {} /\ report' = StandaloneReport(c.checksums)
          \/ ManifestFailures = {} /\ ~SchemasLoad /\ report' = [NoReport EXCEPT !.outcome = "error"]
          \/ /\ ManifestFailures = {} /\ SchemasLoad
             /\ \E sample \in Samples(c) : report' = CrossReport(c, sample)
  /\ UNCHANGED <<fileVars, harmed>>

VerifyNext == Build \/ DamageFiles \/ EditSource \/ VerifyStandalone \/ VerifyCross

VerifySpec == InitVerify /\ [][VerifyNext]_verifyVars

-----------------------------------------------------------------------------
\* Lines of a table that the build was asked to store.  A limit of 0 lets one
\* line pass: it is tested after a pack is flushed.
Wanted(d) ==
  LET Lines == {source[d][i].line : i \in DOMAIN source[d]}
      most == IF limit = 0 THEN 1 ELSE limit
  IN IF limit = NoLimit THEN Lines
     ELSE {n \in Lines : Cardinality({m \in Lines : m < n}) < most}

Contiguous(d) ==
  \A m, n \in Wanted(d) : m <= n => m..n \subseteq Wanted(d)

\* The cell that a query for the hand of a row gives for its action: sizes are
\* compared with the tolerance given.
Answers(d, row, tolerance) ==
  LET answer == QueryHand(disk.idx[d], disk.bin[d], row.line, row.hand, FALSE)
  IN /\ answer.outcome = "found"
     /\ \E cell \in answer.cells, s \in disk.schemas :
          /\ s.id = answer.schema
          /\ s.blob[cell.action + 1][1] = row.action
          /\ Distance(s.blob[cell.action + 1][2], row.size) <= tolerance
          /\ cell.freq = Float32(row.freq)
          /\ cell.ev = IF row.ev = NoEv THEN NoEv ELSE Float32(row.ev)

\* A row is the last of its line, hand and action.
Lasts(d, i) ==
  \A j \in DOMAIN source[d] :
    j > i => <<source[d][j].line, source[d][j].hand, source[d][j].action, source[d][j].size>>
             # <<source[d][i].line, source[d][i].hand, source[d][i].action, source[d][i].size>>

\* What was built has the lines it was asked for and no other, and it opens
\* exactly if they have no gap (build_dimension_files, --max-concrete-lines).
BuiltStoreHasLines ==
  (pc = "published" /\ harmed = "") =>
    \A d \in {e.dim : e \in Successful} :
      /\ {disk.idx[d].records[i].line : i \in DOMAIN disk.idx[d].records} = Wanted(d)
      /\ Opens(d) <=> Contiguous(d)

\* What was built answers as the source does: where it opens every row of a line
\* it was asked for is answered with its numbers as float32, the last of several
\* rows winning, and the whole range of a line has no cell that no row gave.
BuiltStoreAnswersSource ==
  (pc = "published" /\ harmed = "" /\ report = NoReport) =>
    \A d \in {e.dim : e \in Successful} :
      Opens(d) =>
        \A i \in {i \in DOMAIN source[d] : source[d][i].line \in Wanted(d)} :
          /\ Lasts(d, i) => Answers(d, source[d][i], Step - 1)
          /\ LET line == source[d][i].line
             IN Cardinality(QueryAll(disk.idx[d], disk.bin[d], line, TRUE).cells)
                = Cardinality({j \in DOMAIN source[d] : source[d][j].line = line /\ Lasts(d, j)})

\* A source that the format keeps: no gap in the ids, one row for a hand and an
\* action, numbers that are finite as float32 (a float64 may be too large for
\* one), sizes that are told apart as float32.
Clean(d) ==
  LET T == source[d]
  IN /\ Contiguous(d)
     /\ \A i \in DOMAIN T :
          /\ Lasts(d, i)
          /\ Float32(T[i].freq) # Infinite /\ Float32(T[i].ev) # Infinite
          /\ Distance(Float32(T[i].size), T[i].size) <= Tolerance
          /\ \A j \in DOMAIN T :
               (T[j].line = T[i].line /\ T[j].action = T[i].action /\ T[j].size # T[i].size)
               => Distance(Float32(T[j].size), T[i].size) > Tolerance

\* A store that nothing has happened to passes every check, with all of such a
\* source or with a sample of it.  Some table has a row: without one there is no
\* action schema, which check_catalog takes for a damage (catalog_checks.rs:268).
BuiltStoreVerifies ==
  (/\ report.outcome = "report" /\ harmed = "" /\ limit = NoLimit
   /\ {e.dim : e \in Successful} = Dim
   /\ \E d \in Dim : source[d] # <<>>
   /\ \A d \in Dim : Clean(d))
  => Passes(report) /\ ~HasFailures(report.totals)

Readable(f, b, i) ==
  LET r == f.records[i]
  IN /\ PackReadable(b, r, TRUE)
     /\ \E s \in disk.schemas : s.id = r.schema /\ s.count = ActionCountFromPack(r.hands, r.length)

\* A directory that passes with its checksums can be served: every dimension of
\* the manifest opens, and the pack of every record that has hands is read
\* without an error and has the number of actions of its schema.
VerifiedStoreIsServable ==
  (Passes(report) /\ command.checksums) =>
    \A e \in Successful :
      /\ e.idxFile /\ e.binFile /\ Opens(e.dim)
      /\ \A i \in 1..disk.idx[e.dim].count :
           disk.idx[e.dim].records[i].hands # 0 => Readable(disk.idx[e.dim], disk.bin[e.dim], i)

\* A directory that passes the check with the whole source answers every row of
\* it, whatever was done to the files or to the source.
VerifiedStoreAnswersSource ==
  (Passes(report) /\ command.mode = "cross" /\ command.sample = 0) =>
    \A d \in CrossDims : \A i \in DOMAIN source[d] : Answers(d, source[d][i], Tolerance)

\* The cross check never says that a directory is sound which the standalone
\* check says is not, though it sees only the failures that report holds.
CrossKeepsVerdict ==
  \A c \in Commands :
    (command = c /\ c.mode = "cross" /\ report.outcome = "report") =>
      LET standalone == StandaloneReport(c.checksums)
      IN /\ standalone.failures # {} => report.failures # {}
         /\ HasFailures(standalone.totals) => HasFailures(report.totals)

\* The index computes the place of a record, and finds by it what a search of
\* all the records would find.
FindIsSearch ==
  \A d \in Dim :
    LET f == disk.idx[d]
        Ids == {f.records[i].line : i \in 1..f.count}
    IN IdxOpens(f) =>
         \A line \in Ids \cup {n + 1 : n \in Ids} \cup {0} :
           Finds(f, line) <=> line \in Ids

\* In a directory without failures the three ways to read a pack agree: by
\* searching for a hand, for several hands, and by reading all of it; and no
\* hand of a pack is outside the table that hands-by-actions indexes with it.
DecodersAgree ==
  Passes(report) =>
    \A e \in Successful :
      LET f == disk.idx[e.dim]
          b == disk.bin[e.dim]
          hands == [k \in 1..HandCount |-> k - 1]
      IN \A i \in {i \in 1..f.count : f.records[i].hands # 0} :
           LET line == f.records[i].line
               all == QueryAll(f, b, line, FALSE)
               many == QueryManyHands(f, b, line, hands, FALSE)
           IN /\ all.outcome = many.outcome
              /\ \A k \in 1..f.records[i].hands :
                   PackBytes(b, f.records[i])[k][1] \in HandId
              /\ all.outcome = "found" => \A h \in HandId :
                   /\ many.hands[h + 1] = QueryHand(f, b, line, h, FALSE).cells
                   /\ many.hands[h + 1] = {c[2] : c \in {c \in all.cells : c[1] = h}}

\* verification_and_benchmark.md: the full check also looks for cells of the
\* files that the source does not have.
FullCrossFindsExtraCells ==
  (command.mode = "cross" /\ command.sample = 0 /\ report.outcome = "report"
   /\ report.failures = {} /\ report.totals.extra = 0) =>
    \A d \in CrossDims : \A i \in 1..disk.idx[d].count :
      LET r == disk.idx[d].records[i]
          all == QueryAll(disk.idx[d], disk.bin[d], r.line, FALSE)
      IN \A c \in all.cells : \E k \in DOMAIN source[d] :
           source[d][k].line = r.line /\ source[d][k].hand = c[1]
=============================================================================
