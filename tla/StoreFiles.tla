------------------------------ MODULE StoreFiles ------------------------------
(***************************************************************************)
(* The files of a store as the builder writes them and as the readers take *)
(* them apart: for every dimension an index (.idx) and a file of packs     *)
(* (.bin), and the action schemas of meta.db.                              *)
(*                                                                         *)
(* The builder walks the rows of a range table in the order of their line, *)
(* gathers those of one line and flushes them as a pack when the line      *)
(* changes (build_dimension_files).  RangeStoreBuild models what survives  *)
(* when the build is killed; this module models what the files say.  The   *)
(* readers (IdxReader, BinReader, DimensionReader) are operators on the    *)
(* files.                                                                  *)
(***************************************************************************)
EXTENDS RangePack

CONSTANTS
  Dims,     \* the dimensions of the source database, by name
  Sources,  \* databases to build from: for every dimension its range table
  Plans,    \* sequences of dimensions that a build is asked for
  Limits,   \* the values of --max-concrete-lines, NoLimit when not given
  NoLimit

Dim == ToSet(Dims)

PfspHeaderSize == 16

\* A row of a range table, ev is NoEv where hand_ev is NULL.
TableRow == [line : Nat, hand : Int, action : Int, size : Int, freq : Int, ev : Int]

\* The rows are read ORDER BY concrete_line_id.
InOrder(T) == \A i, j \in DOMAIN T : i < j => T[i].line <= T[j].line

ASSUME FilesAssumption ==
  /\ Dims \in Seq(Dim)
  /\ PfspHeaderSize < U32
  /\ \A s \in Sources : DOMAIN s = Dim /\ \A d \in Dim : s[d] \in Seq(TableRow) /\ InOrder(s[d])
  /\ \A p \in Plans : p \in Seq(Dim)
  /\ NoLimit \notin Nat
  /\ Limits \subseteq Nat \cup {NoLimit}

VARIABLES
  source,  \* the source database
  limit,   \* --max-concrete-lines
  plan,    \* dimensions that are still to be built
  pc,      \* "next" dimension, "rows" of one, "published", "failed"
  at,      \* rows of the table the builder has stepped over
  rows,    \* current_rows, those of the current line
  bin,     \* bytes of the packs written so far
  idx,     \* records of the index written so far
  offset,  \* bin_offset
  schemas, \* rows of action_schemas
  disk     \* the published files

building == <<plan, pc, at, rows, bin, idx, offset, schemas>>
fileVars == <<source, limit, building, disk>>

\* Headers are known by what the first check of a reader says of them.
NoIdx == [header |-> "missing", count |-> 0, records |-> <<>>]
NoBin == [header |-> "missing", bytes |-> <<>>]

\* The header of a .bin is in front of its packs.
HeaderBytes == [k \in 1..PfspHeaderSize |-> <<IF k = 1 THEN 1 ELSE 0, 0>>]

BinLength(f) ==
  IF f.header \in {"missing", "short"} THEN 0 ELSE PfspHeaderSize + Len(f.bytes)

-----------------------------------------------------------------------------
\* validate_dense_index_layout: each id is the one before it plus one.
Dense(f) == \A i \in 1..f.count : f.records[i].line = f.records[1].line + (i - 1)

\* FAULT: an index with a gap is opened.
OpensAnyOrder(f) == f.header = "ok" /\ f.count <= Len(f.records)

IdxOpens(f) == f.header = "ok" /\ f.count <= Len(f.records) /\ Dense(f)

BinOpens(f) == f.header = "ok"

\* The record that find_by_dense_index computes for a line.
RecordNumber(f, line) == line - f.records[1].line + 1

Finds(f, line) ==
  /\ f.count > 0
  /\ RecordNumber(f, line) \in 1..f.count
  /\ f.records[RecordNumber(f, line)].line = line

Found(f, line) == f.records[RecordNumber(f, line)]

\* BinReader::read_pack.
PackInBounds(f, r) ==
  r.offset >= PfspHeaderSize /\ r.offset + r.length <= BinLength(f)

PackBytes(f, r) ==
  IF r.offset >= PfspHeaderSize
  THEN SubSeq(f.bytes, r.offset - PfspHeaderSize + 1, r.offset - PfspHeaderSize + r.length)
  ELSE SubSeq(HeaderBytes \o f.bytes, r.offset + 1, r.offset + r.length)

\* read_and_validate_pack succeeds.  A CRC32C is as good as the bytes.
PackReadable(f, r, verify) ==
  LET actions == ActionCountFromPack(r.hands, r.length)
  IN /\ r.hands # 0
     /\ PackInBounds(f, r)
     /\ PackByteLength(r.hands, actions) = r.length
     /\ actions <= MaxActions
     /\ verify => PackBytes(f, r) = r.checksum

Failure == [outcome |-> "failure", schema |-> 0, cells |-> {}]
NotFound == [outcome |-> "not found", schema |-> 0, cells |-> {}]

\* DimensionReader::query of a hand of a line.
QueryHand(i, b, line, hand, verify) ==
  IF ~Finds(i, line) THEN NotFound
  ELSE LET r == Found(i, line)
           actions == ActionCountFromPack(r.hands, r.length)
           cells == DecodePackForHand(PackBytes(b, r), r.hands, actions, hand)
       IN IF ~PackReadable(b, r, verify) THEN Failure
          ELSE IF cells = {} THEN NotFound
          ELSE [outcome |-> "found", schema |-> r.schema, cells |-> cells]

\* DimensionReader::query_many_hands: the outcome for the line, and for each
\* hand its cells.
QueryManyHands(i, b, line, hands, verify) ==
  IF ~Finds(i, line) THEN [outcome |-> "not found", schema |-> 0, hands |-> <<>>]
  ELSE LET r == Found(i, line)
           actions == ActionCountFromPack(r.hands, r.length)
           pack == PackBytes(b, r)
       IN IF ~PackReadable(b, r, verify)
          THEN [outcome |-> "failure", schema |-> 0, hands |-> <<>>]
          ELSE [outcome |-> "found", schema |-> r.schema,
                hands |-> [k \in DOMAIN hands |->
                             DecodePackForHand(pack, r.hands, actions, hands[k])]]

\* DimensionReader::query_all of a line: the set cells of each hand.
QueryAll(i, b, line, verify) ==
  IF ~Finds(i, line) THEN NotFound
  ELSE LET r == Found(i, line)
           actions == ActionCountFromPack(r.hands, r.length)
           pack == PackBytes(b, r)
           all == ToSet(DecodePack(pack, r.hands, actions))
       IN IF ~PackReadable(b, r, verify) \/ ~PackDecodes(pack, r.hands, actions) THEN Failure
          ELSE [outcome |-> "found", schema |-> r.schema,
                cells |-> {<<c.hand, c.cell>> : c \in {c \in all : c.exists}}]

-----------------------------------------------------------------------------
Init ==
  /\ source \in Sources
  /\ limit \in Limits
  /\ plan \in Plans
  /\ pc = "next" /\ at = 0
  /\ rows = <<>> /\ bin = <<>> /\ idx = <<>>
  /\ offset = PfspHeaderSize
  /\ schemas = {}
  /\ disk = [manifest |-> "missing", entries |-> <<>>, catalog |-> "missing",
             tables |-> {}, info |-> {}, lines |-> {}, indexed |-> {}, schemas |-> {},
             idx |-> [d \in Dim |-> NoIdx], bin |-> [d \in Dim |-> NoBin]]

Table == source[Head(plan)]

CreateFiles ==
  /\ pc = "next" /\ plan # <<>>
  /\ pc' = "rows" /\ at' = 0
  /\ rows' = <<>> /\ bin' = <<>> /\ idx' = <<>>
  /\ offset' = PfspHeaderSize
  /\ UNCHANGED <<source, limit, plan, schemas, disk>>

SameLine == \A i \in DOMAIN rows : rows[i].line = Table[at + 1].line

\* The rows that are gathered are all of their line.
LineEnds == IF at < Len(Table) THEN ~SameLine ELSE rows # <<>>

\* The next row belongs to the line whose rows are gathered.
GatherRow ==
  /\ pc = "rows" /\ at < Len(Table) /\ SameLine
  /\ rows' = Append(rows, Table[at + 1])
  /\ at' = at + 1
  /\ UNCHANGED <<source, limit, plan, pc, bin, idx, offset, schemas, disk>>

SchemaRow(id, blob) ==
  [id |-> id, count |-> Len(blob), blob |-> blob, checksum |-> blob, key |-> blob]

\* get_or_insert_action_schema: the rows after it and the id.
SchemasWith(blob) ==
  IF \E s \in schemas : s.key = blob THEN schemas
  ELSE schemas \cup {SchemaRow(Cardinality(schemas) + 1, blob)}

SchemaId(blob) == (CHOOSE s \in SchemasWith(blob) : s.key = blob).id

Record(line, schema, hands, start, payload) ==
  [line |-> line, schema |-> schema, hands |-> hands, offset |-> start,
   length |-> Len(payload), checksum |-> payload]

\* flush_pack succeeds: the length and the next offset are u32.
Flushable == Encodable(rows) /\ offset + Len(Payload(rows)) < U32

\* FAULT: the next offset wraps instead of failing.
WrapFlush ==
  LET payload == Payload(rows)
      blob == ActionBlob(rows)
  IN /\ Encodable(rows)
     /\ bin' = bin \o payload
     /\ idx' = Append(idx, Record(rows[1].line, SchemaId(blob), Len(HandsOf(rows)),
                                  offset, payload))
     /\ offset' = (offset + Len(payload)) % U32
     /\ schemas' = SchemasWith(blob)

Flush ==
  LET payload == Payload(rows)
      blob == ActionBlob(rows)
  IN /\ Flushable
     /\ bin' = bin \o payload
     /\ idx' = Append(idx, Record(rows[1].line, SchemaId(blob), Len(HandsOf(rows)),
                                  offset, payload))
     /\ offset' = offset + Len(payload)
     /\ schemas' = SchemasWith(blob)

\* FAULT: the line that is flushed is not counted.
LimitPassed == limit # NoLimit /\ Len(idx) >= limit

LimitReached == limit # NoLimit /\ Len(idx) + 1 >= limit

\* FAULT: the row that shows the line has ended is dropped with the line.
FlushAndDropRow ==
  /\ pc = "rows" /\ at < Len(Table) /\ ~SameLine
  /\ Flush
  /\ rows' = <<>>
  /\ at' = IF LimitReached THEN Len(Table) ELSE at + 1
  /\ UNCHANGED <<source, limit, plan, pc, disk>>

\* The next row is of another line: its pack is flushed, and the loop ends
\* when that was the last line wanted.
FlushLine ==
  /\ pc = "rows" /\ at < Len(Table) /\ ~SameLine
  /\ Flush
  /\ rows' = IF LimitReached THEN <<>> ELSE <<Table[at + 1]>>
  /\ at' = IF LimitReached THEN Len(Table) ELSE at + 1
  /\ UNCHANGED <<source, limit, plan, pc, disk>>

\* The rows left over when the table ends are one more line.
FlushLastLine ==
  /\ pc = "rows" /\ at = Len(Table) /\ rows # <<>>
  /\ Flush
  /\ rows' = <<>>
  /\ UNCHANGED <<source, limit, plan, pc, at, disk>>

\* The error of a pack ends the build; no manifest is written.
FailBuild ==
  /\ pc = "rows" /\ LineEnds
  /\ ~Flushable
  /\ pc' = "failed"
  /\ UNCHANGED <<source, limit, plan, at, rows, bin, idx, offset, schemas, disk>>

\* The index gets its header and both files their names.
FinishDimension ==
  /\ pc = "rows" /\ at = Len(Table) /\ rows = <<>>
  /\ LET d == Head(plan)
     IN disk' = [disk EXCEPT
                   !.idx[d] = [header |-> "ok", count |-> Len(idx), records |-> idx],
                   !.bin[d] = [header |-> "ok", bytes |-> bin],
                   !.entries = Append(@, [dim |-> d, failed |-> FALSE,
                                          idxFile |-> TRUE, binFile |-> TRUE])]
  /\ plan' = Tail(plan)
  /\ pc' = "next"
  /\ UNCHANGED <<source, limit, at, rows, bin, idx, offset, schemas>>

\* meta.db has the metadata of the dimensions of the build, the manifest lists
\* them.
PublishManifest ==
  /\ pc = "next" /\ plan = <<>>
  /\ pc' = "published"
  /\ LET built == {disk.entries[i].dim : i \in DOMAIN disk.entries}
     IN disk' = [disk EXCEPT !.manifest = "ok", !.catalog = "ok",
                             !.tables = {"build_info", "action_schemas", "drill"},
                             !.info = {"built_at", "source_checksum"},
                             !.lines = built, !.indexed = built, !.schemas = schemas]
  /\ UNCHANGED <<source, limit, plan, at, rows, bin, idx, offset, schemas>>

FilesNext ==
  \/ CreateFiles \/ GatherRow \/ FlushLine \/ FlushLastLine \/ FailBuild
  \/ FinishDimension \/ PublishManifest

FilesSpec == Init /\ [][FilesNext]_fileVars

-----------------------------------------------------------------------------
\* The index of a dimension describes the file of packs beside it: the packs
\* follow one another without gap or overlap from the header to the end, none
\* reaches past what a u32 offset can name, and each checksum is that of the
\* bytes its record names (flush_pack, build_dimension_files).
IndexDescribesBin ==
  /\ offset = PfspHeaderSize + Len(bin)
  /\ offset < U32
  /\ \A i \in DOMAIN idx :
       /\ idx[i].offset >= PfspHeaderSize
       /\ idx[i].offset + idx[i].length = IF i < Len(idx) THEN idx[i + 1].offset ELSE offset
       /\ idx[i].checksum = PackBytes([bytes |-> bin], idx[i])
=============================================================================
