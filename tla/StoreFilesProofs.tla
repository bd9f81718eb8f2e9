--------------------------- MODULE StoreFilesProofs ---------------------------
(***************************************************************************)
(* What the files of a store say, for every source and every limit: the    *)
(* index describes the packs, the place of a record is computed as a       *)
(* search would find it, the number of actions of a pack is read from its  *)
(* length, and a store that was built answers as its source does.  And     *)
(* what the report of a check is worth, for any damage the model has: a    *)
(* store that passes is served, its readers agree, and when it passed with *)
(* the whole source every row is answered; a store that nobody changed     *)
(* passes.                                                                 *)
(***************************************************************************)
EXTENDS StoreVerify, SequenceTheorems, FiniteSetTheorems, FunctionTheorems,
        NaturalsInduction, WellFoundedInduction, TLAPS

-----------------------------------------------------------------------------
(* Lengths                                                                 *)

LEMMA FunctionIsSeq ==
  ASSUME NEW n \in Nat, NEW S, NEW f \in [1..n -> S]
  PROVE  f \in Seq(S) /\ Len(f) = n
  BY SeqDef, LenProperties

\* The images of the entries of a sequence are finitely many.
LEMMA FiniteImages ==
  ASSUME NEW S, NEW s \in Seq(S), NEW T, NEW f \in [DOMAIN s -> T],
         T = {f[i] : i \in DOMAIN s}
  PROVE  Cardinality(T) \in Nat
  <1>1. DOMAIN s = 1..Len(s) /\ Len(s) \in Nat
    BY LenProperties
  <1>2. IsFiniteSet(DOMAIN s)
    BY <1>1, FS_Interval
  <1>3. f \in Surjection(DOMAIN s, T)
    BY Fun_IsSurj
  <1> QED BY <1>2, <1>3, FS_Surjection, FS_CardinalityType

LEMMA HandsAndActions ==
  ASSUME NEW rs \in Seq(TableRow)
  PROVE  /\ Len(HandsOf(rs)) \in Nat
         /\ Len(ActionsOf(rs)) \in Nat
  <1> DEFINE H == {rs[i].hand : i \in DOMAIN rs}
             A == {<<rs[i].action, rs[i].size>> : i \in DOMAIN rs}
  <1>1. Cardinality(H) \in Nat
    <2> DEFINE f == [i \in DOMAIN rs |-> rs[i].hand]
    <2>1. f \in [DOMAIN rs -> H] /\ H = {f[i] : i \in DOMAIN rs}
      OBVIOUS
    <2> HIDE DEF f, H
    <2> QED BY <2>1, FiniteImages
  <1>2. Cardinality(A) \in Nat
    <2> DEFINE f == [i \in DOMAIN rs |-> <<rs[i].action, rs[i].size>>]
    <2>1. f \in [DOMAIN rs -> A] /\ A = {f[i] : i \in DOMAIN rs}
      OBVIOUS
    <2> HIDE DEF f, A
    <2> QED BY <2>1, FiniteImages
  <1>3. DOMAIN HandsOf(rs) = 1..Cardinality(H)
    BY DEF HandsOf, Ordered
  <1>4. DOMAIN ActionsOf(rs) = 1..Cardinality(A)
    BY DEF ActionsOf, Ordered
  <1> HIDE DEF H, A
  <1>5. HandsOf(rs) \in [1..Cardinality(H) -> {HandsOf(rs)[k] : k \in 1..Cardinality(H)}]
    BY <1>3 DEF HandsOf, Ordered
  <1>6. ActionsOf(rs) \in [1..Cardinality(A) -> {ActionsOf(rs)[k] : k \in 1..Cardinality(A)}]
    BY <1>4 DEF ActionsOf, Ordered
  <1> QED BY <1>1, <1>2, <1>5, <1>6, FunctionIsSeq

LEMMA JoinedIsSeq ==
  ASSUME NEW s, NEW width \in Nat, Len(s) \in Nat
  PROVE  \E S : Joined(s, width) \in Seq(S) /\ Len(Joined(s, width)) = Len(s) * width
  <1>1. Len(s) * width \in Nat
    BY Z3
  <1> DEFINE f == Joined(s, width)
             n == Len(s) * width
  <1>2. f \in [1..n -> {f[k] : k \in 1..n}]
    BY DEF Joined
  <1> HIDE DEF f, n
  <1>3. f \in Seq({f[k] : k \in 1..n}) /\ Len(f) = n
    BY <1>1, <1>2, FunctionIsSeq DEF n
  <1> QED BY <1>3 DEF f, n

LEMMA ThreeParts ==
  ASSUME NEW R, NEW S, NEW T, NEW r \in Seq(R), NEW s \in Seq(S), NEW t \in Seq(T)
  PROVE  /\ r \o s \o t \in Seq(R \cup S \cup T)
         /\ Len(r \o s \o t) = Len(r) + Len(s) + Len(t)
  <1> DEFINE U == R \cup S \cup T
  <1>1. r \in Seq(U) /\ s \in Seq(U) /\ t \in Seq(U)
    BY SeqMonotonic
  <1>2. r \o s \in Seq(U) /\ Len(r \o s) = Len(r) + Len(s)
    BY <1>1, ConcatProperties
  <1> QED BY <1>1, <1>2, ConcatProperties

\* The length of a pack is that which its numbers of hands and actions give
\* (encode_concrete_line_pack).
LEMMA PayloadLength ==
  ASSUME NEW rs \in Seq(TableRow)
  PROVE  /\ \E S : Payload(rs) \in Seq(S)
         /\ Len(Payload(rs)) = Len(HandsOf(rs)) * (5 + Len(ActionsOf(rs)) * 8)
  <1> DEFINE hands == HandsOf(rs)
             actions == ActionsOf(rs)
             Masks == [h \in 1..Len(hands) |-> Word(MaskOf(rs, hands[h], actions))]
             Cells == [c \in 1..(Len(hands) * Len(actions)) |->
                         CellOf(rs, hands[(c - 1) \div Len(actions) + 1],
                                    actions[((c - 1) % Len(actions)) + 1])]
             Ids == [h \in 1..Len(hands) |-> <<hands[h], 0>>]
  <1>1. Len(hands) \in Nat /\ Len(actions) \in Nat
    BY HandsAndActions
  <1>2. Len(hands) * Len(actions) \in Nat
    BY <1>1, Z3
  <1>3. Payload(rs) = Ids \o Joined(Masks, 4) \o Joined(Cells, 8)
    BY DEF Payload
  <1>4. /\ Ids \in [1..Len(hands) -> {Ids[h] : h \in 1..Len(hands)}]
        /\ Masks \in [1..Len(hands) -> {Masks[h] : h \in 1..Len(hands)}]
        /\ Cells \in [1..(Len(hands) * Len(actions)) ->
                      {Cells[c] : c \in 1..(Len(hands) * Len(actions))}]
    OBVIOUS
  <1> HIDE DEF hands, actions, Masks, Cells, Ids
  <1>5. /\ Ids \in Seq({Ids[h] : h \in 1..Len(hands)}) /\ Len(Ids) = Len(hands)
        /\ Len(Masks) = Len(hands)
        /\ Len(Cells) = Len(hands) * Len(actions)
    <2> DEFINE n == Len(hands)
               m == Len(hands) * Len(actions)
    <2>1. n \in Nat /\ m \in Nat
      BY <1>1, <1>2
    <2>2. /\ Ids \in [1..n -> {Ids[h] : h \in 1..n}]
          /\ Masks \in [1..n -> {Masks[h] : h \in 1..n}]
          /\ Cells \in [1..m -> {Cells[c] : c \in 1..m}]
      BY <1>4
    <2> HIDE DEF n, m
    <2>3. Ids \in Seq({Ids[h] : h \in 1..n}) /\ Len(Ids) = n
      BY <2>1, <2>2, FunctionIsSeq
    <2>4. Len(Masks) = n
      BY <2>1, <2>2, FunctionIsSeq
    <2>5. Len(Cells) = m
      BY <2>1, <2>2, FunctionIsSeq
    <2> QED BY <2>3, <2>4, <2>5 DEF n, m
  <1>6. PICK M : Joined(Masks, 4) \in Seq(M) /\ Len(Joined(Masks, 4)) = Len(hands) * 4
    <2>1. \E S : Joined(Masks, 4) \in Seq(S) /\ Len(Joined(Masks, 4)) = Len(Masks) * 4
      BY <1>1, <1>5, 4 \in Nat, JoinedIsSeq
    <2>2. Len(Masks) * 4 = Len(hands) * 4
      BY <1>5
    <2> QED BY <2>1, <2>2, Zenon
  <1>7. PICK C : Joined(Cells, 8) \in Seq(C)
                 /\ Len(Joined(Cells, 8)) = (Len(hands) * Len(actions)) * 8
    <2>1. \E S : Joined(Cells, 8) \in Seq(S) /\ Len(Joined(Cells, 8)) = Len(Cells) * 8
      BY <1>2, <1>5, 8 \in Nat, JoinedIsSeq
    <2>2. Len(Cells) * 8 = (Len(hands) * Len(actions)) * 8
      BY <1>5
    <2> QED BY <2>1, <2>2, Zenon
  <1>8. /\ \E S : Payload(rs) \in Seq(S)
        /\ Len(Payload(rs)) = Len(hands) + Len(hands) * 4 + (Len(hands) * Len(actions)) * 8
    <2> DEFINE m == Joined(Masks, 4)
               c == Joined(Cells, 8)
               I == {Ids[h] : h \in 1..Len(hands)}
    <2>1. Ids \in Seq(I) /\ m \in Seq(M) /\ c \in Seq(C)
      BY <1>5, <1>6, <1>7
    <2> HIDE DEF m, c, I
    <2>2. Ids \o m \o c \in Seq(I \cup M \cup C)
          /\ Len(Ids \o m \o c) = Len(Ids) + Len(m) + Len(c)
      BY <2>1, ThreeParts
    <2>3. Payload(rs) = Ids \o m \o c
      BY <1>3 DEF m, c
    <2>4. Len(m) = Len(hands) * 4 /\ Len(c) = (Len(hands) * Len(actions)) * 8
      BY <1>6, <1>7 DEF m, c
    <2> QED BY <2>2, <2>3, <2>4, <1>5
  <1>9. Len(hands) + Len(hands) * 4 + (Len(hands) * Len(actions)) * 8
        = Len(hands) * (5 + Len(actions) * 8)
    BY <1>1, Z3
  <1> QED BY <1>8, <1>9 DEF hands, actions

-----------------------------------------------------------------------------
(* The number of actions of a pack                                         *)

LEMMA MulMono ==
  ASSUME NEW a \in Nat, NEW b \in Nat, NEW c \in Nat, NEW d \in Nat, a <= b, c <= d
  PROVE  a * c <= b * d
  <1>1. a * c <= b * c
    BY Z3
  <1>2. b * c <= b * d
    BY Z3
  <1> QED BY <1>1, <1>2, Z3

LEMMA DivExact ==
  ASSUME NEW n \in Nat \ {0}, NEW k \in Nat
  PROVE  (n * k) \div n = k
  <1> DEFINE q == (n * k) \div n
             r == (n * k) % n
  <1>1. n * k \in Nat
    BY Z3
  <1>2. q \in Int /\ r \in 0..(n - 1) /\ n * k = n * q + r
    BY <1>1, Z3
  <1> HIDE DEF q, r
  <1>3. n * (k - q) = r
    BY <1>2, Z3
  <1>4. CASE k - q >= 1
    BY <1>2, <1>3, <1>4, Z3
  <1>5. CASE k - q <= -1
    BY <1>2, <1>3, <1>5, Z3
  <1>6. CASE k = q
    BY <1>6 DEF q
  <1> QED BY <1>2, <1>4, <1>5, <1>6, Z3

\* What pack_byte_length makes of a number of actions, action_count_from_pack
\* takes back, for every pack that the format allows: neither the u32 product
\* nor the cut to u16 loses anything.
THEOREM ActionCountIsKept ==
  ASSUME NEW hands \in 1..HandCount, NEW actions \in 0..MaxActions
  PROVE  /\ PackByteLength(hands, actions) = hands * (5 + actions * 8)
         /\ ActionCountFromPack(hands, PackByteLength(hands, actions)) = actions
  <1> DEFINE k == 5 + actions * 8
             K == 5 + MaxActions * 8
  <1>1. /\ hands \in Nat \ {0} /\ actions \in Nat /\ HandCount \in Nat /\ MaxActions \in Nat
        /\ U32 \in Nat /\ U16 \in Nat /\ MaxActions < U16
        /\ hands <= HandCount /\ actions <= MaxActions /\ HandCount * K < U32
    BY PackAssumption
  <1>2. k \in Nat /\ K \in Nat /\ k <= K /\ k >= 5 /\ (k - 5) \div 8 = actions
    BY <1>1, Z3
  <1>3. PackByteLength(hands, actions) = (hands * k) % U32
    BY DEF PackByteLength
  <1>4. ActionCountFromPack(hands, hands * k) =
          ((IF (hands * k) \div hands < 5 THEN 0 ELSE ((hands * k) \div hands) - 5) \div 8) % U16
    BY <1>1 DEF ActionCountFromPack
  <1> HIDE DEF k, K
  <1>5. hands * k <= HandCount * K /\ hands * k \in Nat
    BY <1>1, <1>2, MulMono, Z3
  <1>6. (hands * k) % U32 = hands * k
    <2> DEFINE p == hands * k
    <2>1. p \in Nat /\ p < U32
      <3>1. HandCount * K \in Nat
        BY <1>1, <1>2, Z3
      <3> HIDE DEF p
      <3> QED BY <3>1, <1>1, <1>5 DEF p
    <2> HIDE DEF p
    <2>2. p % U32 = p
      BY <2>1, <1>1, Z3
    <2> QED BY <2>2 DEF p
  <1>7. (hands * k) \div hands = k
    BY <1>1, <1>2, DivExact
  <1>8. ActionCountFromPack(hands, hands * k) = actions % U16
    BY <1>2, <1>4, <1>7
  <1>9. actions % U16 = actions
    BY <1>1, Z3
  <1> QED BY <1>3, <1>6, <1>8, <1>9 DEF k

-----------------------------------------------------------------------------
(* Finding a line                                                          *)

\* In an index that opens, the place computed for a line holds its record, and
\* a line that is not there is not found (find_by_dense_index after
\* validate_dense_index_layout).
THEOREM DenseFindIsSearch ==
  ASSUME NEW f, f.count \in Nat,
         \A i \in 1..f.count : f.records[i].line \in Nat,
         IdxOpens(f), NEW line \in Nat
  PROVE  /\ Finds(f, line) <=> \E i \in 1..f.count : f.records[i].line = line
         /\ Finds(f, line) => Found(f, line).line = line
  <1>1. CASE f.count = 0
    BY <1>1 DEF Finds
  <1>2. CASE f.count > 0
    <2>1. \A i \in 1..f.count : f.records[i].line = f.records[1].line + (i - 1)
      BY DEF IdxOpens, Dense
    <2>2. f.records[1].line \in Nat
      BY <1>2
    <2>3. ASSUME NEW i \in 1..f.count, f.records[i].line = line
          PROVE  RecordNumber(f, line) = i
      BY <2>1, <2>2, <2>3 DEF RecordNumber
    <2>4. ASSUME NEW i \in 1..f.count, f.records[i].line = line
          PROVE  Finds(f, line)
      BY <1>2, <2>3, <2>4 DEF Finds
    <2> QED BY <2>4 DEF Finds, Found
  <1> QED BY <1>1, <1>2

-----------------------------------------------------------------------------
(* The index and the packs                                                 *)

IsSeq(s) == \E S : s \in Seq(S)

\* A record lies inside the packs written, and its checksum is of its bytes.
Described(r) ==
  /\ r.offset \in Nat /\ r.length \in Nat
  /\ r.offset >= PfspHeaderSize
  /\ r.offset + r.length <= PfspHeaderSize + Len(bin)
  /\ r.checksum = PackBytes([bytes |-> bin], r)

Walk ==
  /\ source \in Sources /\ plan \in Seq(Dim)
  /\ pc = "rows" => plan # <<>>
  /\ at \in Nat /\ rows \in Seq(TableRow)

Packs ==
  /\ IsSeq(bin) /\ IsSeq(idx)
  /\ offset = PfspHeaderSize + Len(bin) /\ offset < U32
  /\ \A i \in DOMAIN idx :
       /\ Described(idx[i])
       /\ idx[i].offset + idx[i].length = IF i < Len(idx) THEN idx[i + 1].offset ELSE offset

FilesInv == Walk /\ Packs

LEMMA SubSeqOfConcat ==
  ASSUME NEW S, NEW s \in Seq(S), NEW t \in Seq(S)
  PROVE  /\ \A m \in Nat \ {0}, n \in 0..Len(s) : SubSeq(s \o t, m, n) = SubSeq(s, m, n)
         /\ SubSeq(s \o t, Len(s) + 1, Len(s) + Len(t)) = t
  <1> DEFINE u == s \o t
  <1>1. /\ u \in Seq(S) /\ Len(u) = Len(s) + Len(t)
        /\ \A i \in 1..Len(s) + Len(t) : u[i] = IF i <= Len(s) THEN s[i] ELSE t[i - Len(s)]
    BY ConcatProperties
  <1>2. Len(s) \in Nat /\ Len(t) \in Nat
    BY LenProperties
  <1>3. /\ \A i \in 1..Len(s) : s[i] \in S
        /\ \A i \in 1..Len(u) : u[i] \in S
        /\ \A i \in 1..Len(t) : t[i] \in S
    BY <1>1, ElementOfSeq
  <1> HIDE DEF u
  <1>4. ASSUME NEW m \in Nat \ {0}, NEW n \in 0..Len(s)
        PROVE  SubSeq(u, m, n) = SubSeq(s, m, n)
    <2>1. /\ SubSeq(u, m, n) \in Seq(S)
          /\ Len(SubSeq(u, m, n)) = IF m <= n THEN n - m + 1 ELSE 0
          /\ \A i \in 1 .. n - m + 1 : SubSeq(u, m, n)[i] = u[m + i - 1]
      <3>1. \A i \in m..n : u[i] \in S
        BY <1>1, <1>2, <1>3
      <3> QED BY <3>1, <1>2, SubSeqProperties
    <2>2. /\ SubSeq(s, m, n) \in Seq(S)
          /\ Len(SubSeq(s, m, n)) = IF m <= n THEN n - m + 1 ELSE 0
          /\ \A i \in 1 .. n - m + 1 : SubSeq(s, m, n)[i] = s[m + i - 1]
      <3>1. \A i \in m..n : s[i] \in S
        BY <1>2, <1>3
      <3> QED BY <3>1, <1>2, SubSeqProperties
    <2>3. \A i \in 1 .. n - m + 1 : u[m + i - 1] = s[m + i - 1]
      BY <1>1, <1>2
    <2>4. \A i \in 1 .. Len(SubSeq(u, m, n)) : SubSeq(u, m, n)[i] = SubSeq(s, m, n)[i]
      BY <2>1, <2>2, <2>3, <1>2
    <2> QED BY <2>1, <2>2, <2>4, SeqEqual
  <1>5. SubSeq(u, Len(s) + 1, Len(s) + Len(t)) = t
    <2> DEFINE m == Len(s) + 1
               n == Len(s) + Len(t)
    <2>1. /\ SubSeq(u, m, n) \in Seq(S)
          /\ Len(SubSeq(u, m, n)) = IF m <= n THEN n - m + 1 ELSE 0
          /\ \A i \in 1 .. n - m + 1 : SubSeq(u, m, n)[i] = u[m + i - 1]
      <3>1. \A i \in m..n : u[i] \in S
        BY <1>1, <1>2, <1>3
      <3> QED BY <3>1, <1>2, SubSeqProperties
    <2>2. Len(SubSeq(u, m, n)) = Len(t) /\ n - m + 1 = Len(t)
      BY <2>1, <1>2
    <2>3. ASSUME NEW i \in 1..Len(t)
          PROVE  u[m + i - 1] = t[i]
      <3>1. m + i - 1 = Len(s) + i /\ Len(s) + i \in 1..Len(s) + Len(t)
        BY <1>2
      <3>2. ~(Len(s) + i <= Len(s)) /\ (Len(s) + i) - Len(s) = i
        BY <1>2
      <3> HIDE DEF m
      <3> QED BY <1>1, <3>1, <3>2
    <2>4. \A i \in 1..Len(SubSeq(u, m, n)) : SubSeq(u, m, n)[i] = t[i]
      BY <2>1, <2>2, <2>3
    <2> QED BY <2>1, <2>2, <2>4, SeqEqual
  <1> QED BY <1>4, <1>5 DEF u

\* A flush appends a pack and the record of it.
LEMMA FlushKeepsPacks ==
  ASSUME FilesInv, Flush
  PROVE  Packs'
  <1> DEFINE P == Payload(rows)
             r == Record(rows[1].line, SchemaId(ActionBlob(rows)), Len(HandsOf(rows)), offset, P)
  <1>1. /\ bin' = bin \o P
        /\ idx' = Append(idx, r)
        /\ offset' = offset + Len(P) /\ offset + Len(P) < U32
    BY DEF Flush, Flushable
  <1>2. IsSeq(P) /\ Len(P) \in Nat
    <2>1. IsSeq(P)
      BY PayloadLength DEF FilesInv, Walk, IsSeq
    <2> HIDE DEF P
    <2> QED BY <2>1, LenProperties DEF IsSeq
  <1>3. r.offset = offset /\ r.length = Len(P) /\ r.checksum = P
    BY DEF Record
  <1>4. PfspHeaderSize \in Nat
    BY DEF PfspHeaderSize
  <1> HIDE DEF P, r
  <1>5. PICK S : bin \in Seq(S) /\ P \in Seq(S)
    <2>1. PICK X : bin \in Seq(X)
      BY DEF FilesInv, Packs, IsSeq
    <2>2. PICK Y : P \in Seq(Y)
      BY <1>2 DEF IsSeq
    <2>3. bin \in Seq(X \cup Y) /\ P \in Seq(X \cup Y)
      BY <2>1, <2>2, SeqMonotonic
    <2> QED BY <2>3
  <1>6. PICK R : idx \in Seq(R) /\ r \in R
    <2>1. PICK X : idx \in Seq(X)
      BY DEF FilesInv, Packs, IsSeq
    <2>2. idx \in Seq(X \cup {r}) /\ r \in X \cup {r}
      BY <2>1, SeqMonotonic
    <2> QED BY <2>2
  <1>7. /\ idx' \in Seq(R) /\ Len(idx') = Len(idx) + 1
        /\ DOMAIN idx' = 1..(Len(idx) + 1) /\ DOMAIN idx = 1..Len(idx) /\ Len(idx) \in Nat
        /\ \A i \in 1..Len(idx) : idx'[i] = idx[i]
        /\ idx'[Len(idx) + 1] = r
    BY <1>1, <1>6, AppendProperties, LenProperties
  <1>8. /\ bin' \in Seq(S) /\ Len(bin') = Len(bin) + Len(P) /\ Len(bin) \in Nat
    BY <1>1, <1>5, ConcatProperties, LenProperties
  <1>9. offset = PfspHeaderSize + Len(bin) /\ offset \in Nat
    BY <1>4, <1>8 DEF FilesInv, Packs
  <1>10. offset' = PfspHeaderSize + Len(bin') /\ offset' < U32
    BY <1>1, <1>2, <1>4, <1>8, <1>9
  <1>11. ASSUME NEW i \in 1..Len(idx)
         PROVE  Described(idx[i])'
    <2> DEFINE q == idx[i]
    <2>1. Described(q) /\ idx'[i] = q
      BY <1>7 DEF FilesInv, Packs
    <2> HIDE DEF q
    <2>2. /\ q.offset \in Nat /\ q.length \in Nat /\ q.offset >= PfspHeaderSize
          /\ q.offset + q.length <= PfspHeaderSize + Len(bin)
      BY <2>1 DEF Described
    <2>3. q.checksum = SubSeq(bin, q.offset - PfspHeaderSize + 1,
                                   q.offset - PfspHeaderSize + q.length)
      BY <2>1, <2>2 DEF Described, PackBytes
    <2>4. /\ q.offset - PfspHeaderSize + 1 \in Nat \ {0}
          /\ q.offset - PfspHeaderSize + q.length \in 0..Len(bin)
      <3> DEFINE o == q.offset
                 l == q.length
                 b == Len(bin)
                 p == PfspHeaderSize
      <3>1. o \in Nat /\ l \in Nat /\ b \in Nat /\ p \in Nat /\ o >= p /\ o + l <= p + b
        BY <2>2, <1>4, <1>8
      <3> HIDE DEF o, l, b, p
      <3>2. o - p + 1 \in Nat \ {0} /\ o - p + l \in 0..b
        BY <3>1, Z3
      <3> QED BY <3>2 DEF o, l, b, p
    <2>5. q.checksum = SubSeq(bin', q.offset - PfspHeaderSize + 1,
                                    q.offset - PfspHeaderSize + q.length)
      <3> DEFINE m == q.offset - PfspHeaderSize + 1
                 n == q.offset - PfspHeaderSize + q.length
      <3>1. m \in Nat \ {0} /\ n \in 0..Len(bin) /\ q.checksum = SubSeq(bin, m, n)
        BY <2>3, <2>4
      <3> HIDE DEF m, n
      <3>2. SubSeq(bin \o P, m, n) = SubSeq(bin, m, n)
        BY <3>1, <1>5, SubSeqOfConcat
      <3>3. q.checksum = SubSeq(bin', m, n)
        BY <3>1, <3>2, <1>1
      <3> QED BY <3>3 DEF m, n
    <2>6. q.offset + q.length <= PfspHeaderSize + Len(bin')
      BY <2>2, <1>2, <1>4, <1>8
    <2> QED BY <2>1, <2>2, <2>5, <2>6 DEF Described, PackBytes
  <1>12. Described(idx[Len(idx)])'
    <2> DEFINE m == r.offset - PfspHeaderSize + 1
               n == r.offset - PfspHeaderSize + r.length
    <2>1. m = Len(bin) + 1 /\ n = Len(bin) + Len(P)
      BY <1>2, <1>3, <1>4, <1>8, <1>9
    <2>2. SubSeq(bin', m, n) = P
      BY <2>1, <1>1, <1>5, SubSeqOfConcat
    <2> HIDE DEF m, n
    <2>3. r.offset >= PfspHeaderSize /\ r.offset + r.length <= PfspHeaderSize + Len(bin')
      BY <1>2, <1>3, <1>4, <1>8, <1>9
    <2>4. r.checksum = PackBytes([bytes |-> bin'], r)
      BY <2>2, <2>3, <1>3 DEF PackBytes, m, n
    <2>5. idx'[Len(idx')] = r
      BY <1>7
    <2>6. /\ r.offset \in Nat /\ r.length \in Nat
      BY <1>2, <1>3, <1>9
    <2> QED BY <2>3, <2>4, <2>5, <2>6, <1>7 DEF Described
  <1>13. ASSUME NEW i \in DOMAIN idx'
         PROVE  idx'[i].offset + idx'[i].length
                  = IF i < Len(idx') THEN idx'[i + 1].offset ELSE offset'
    <2>1. CASE i = Len(idx) + 1
      <3>1. ~(i < Len(idx')) /\ idx'[i] = r
        BY <2>1, <1>7
      <3> QED BY <3>1, <1>1, <1>3
    <2>2. CASE i = Len(idx) /\ i > 0
      <3>1. idx[i].offset + idx[i].length = offset
        BY <2>2, <1>7 DEF FilesInv, Packs
      <3>2. i < Len(idx') /\ idx'[i] = idx[i] /\ idx'[i + 1] = r
        BY <2>2, <1>7
      <3> QED BY <3>1, <3>2, <1>3
    <2>3. CASE i < Len(idx)
      <3>1. /\ i \in 1..Len(idx) /\ i + 1 \in 1..Len(idx) /\ i < Len(idx')
            /\ idx'[i] = idx[i] /\ idx'[i + 1] = idx[i + 1]
        BY <2>3, <1>7
      <3>2. idx[i].offset + idx[i].length = idx[i + 1].offset
        BY <3>1, <2>3, <1>7 DEF FilesInv, Packs
      <3> QED BY <3>1, <3>2
    <2>4. i \in Nat /\ i > 0 /\ i <= Len(idx) + 1
      BY <1>7
    <2> QED BY <2>1, <2>2, <2>3, <2>4, <1>7
  <1>14. ASSUME NEW i \in DOMAIN idx'
         PROVE  Described(idx[i])'
    <2>1. CASE i \in 1..Len(idx)
      BY <2>1, <1>11
    <2>2. CASE i = Len(idx)'
      BY <2>2, <1>12
    <2> QED BY <2>1, <2>2, <1>7
  <1>15. IsSeq(bin)' /\ IsSeq(idx)'
    BY <1>7, <1>8 DEF IsSeq
  <1> QED BY <1>10, <1>13, <1>14, <1>15 DEF Packs

\* The rows of the dimension that is built.
LEMMA TableIsSeq ==
  ASSUME FilesInv, pc = "rows"
  PROVE  Table \in Seq(TableRow)
  <1>1. Head(plan) \in Dim
    BY HeadTailProperties DEF FilesInv, Walk
  <1> QED BY <1>1, FilesAssumption DEF FilesInv, Walk, Table

LEMMA RowOfTable ==
  ASSUME FilesInv, pc = "rows", at < Len(Table)
  PROVE  Table[at + 1] \in TableRow
  <1>1. Table \in Seq(TableRow)
    BY TableIsSeq
  <1>2. at \in Nat
    BY DEF FilesInv, Walk
  <1>3. Len(Table) \in Nat
    BY <1>1, LenProperties
  <1>4. at + 1 \in 1..Len(Table)
    BY <1>2, <1>3
  <1> QED BY <1>1, <1>4, ElementOfSeq

LEMMA FilesStart == Init => FilesInv
  <1> SUFFICES ASSUME Init PROVE FilesInv
    OBVIOUS
  <1>1. Packs
    <2>1. bin \in Seq({}) /\ idx \in Seq({}) /\ Len(bin) = 0 /\ DOMAIN idx = {}
      BY DEF Init
    <2>2. IsSeq(bin) /\ IsSeq(idx)
      BY <2>1 DEF IsSeq
    <2>3. offset = PfspHeaderSize + Len(bin) /\ offset < U32
      BY <2>1, FilesAssumption DEF Init, PfspHeaderSize
    <2> QED BY <2>1, <2>2, <2>3 DEF Packs
  <1>2. Walk
    BY FilesAssumption DEF Init, Walk
  <1> QED BY <1>1, <1>2 DEF FilesInv

LEMMA FilesStep == FilesInv /\ [FilesNext]_fileVars => FilesInv'
  <1> SUFFICES ASSUME FilesInv, [FilesNext]_fileVars
               PROVE  FilesInv'
    OBVIOUS
  <1> USE DEF FilesInv
  <1>1. CASE CreateFiles
    <2>1. bin' \in Seq({}) /\ idx' \in Seq({}) /\ Len(bin') = 0 /\ DOMAIN idx' = {}
      BY <1>1 DEF CreateFiles
    <2>2. IsSeq(bin)' /\ IsSeq(idx)'
      BY <2>1 DEF IsSeq
    <2>3. offset' = PfspHeaderSize + Len(bin') /\ offset' < U32
      BY <1>1, <2>1, FilesAssumption DEF CreateFiles, PfspHeaderSize
    <2>4. Packs'
      BY <2>1, <2>2, <2>3 DEF Packs
    <2>5. Walk'
      BY <1>1 DEF CreateFiles, Walk
    <2> QED BY <2>4, <2>5
  <1>2. CASE GatherRow
    <2>1. Table[at + 1] \in TableRow
      BY <1>2, RowOfTable DEF GatherRow
    <2>2. rows' \in Seq(TableRow)
      BY <1>2, <2>1, AppendProperties DEF GatherRow, Walk
    <2>3. Walk'
      BY <1>2, <2>2 DEF GatherRow, Walk
    <2>4. Packs'
      BY <1>2 DEF GatherRow, Packs, Described
    <2> QED BY <2>3, <2>4
  <1>3. CASE FlushLine
    <2>1. Packs'
      BY <1>3, FlushKeepsPacks DEF FlushLine
    <2>2. Table[at + 1] \in TableRow
      BY <1>3, RowOfTable DEF FlushLine
    <2>3. rows' \in Seq(TableRow)
      BY <1>3, <2>2 DEF FlushLine
    <2>4. Table \in Seq(TableRow)
      BY <1>3, TableIsSeq DEF FlushLine
    <2>5. at' \in Nat
      BY <1>3, <2>4, LenProperties DEF FlushLine, Walk
    <2>6. Walk'
      BY <1>3, <2>3, <2>5 DEF FlushLine, Walk
    <2> QED BY <2>1, <2>6
  <1>4. CASE FlushLastLine
    <2>1. Packs'
      BY <1>4, FlushKeepsPacks DEF FlushLastLine
    <2>2. Walk'
      BY <1>4 DEF FlushLastLine, Walk
    <2> QED BY <2>1, <2>2
  <1>5. CASE FailBuild
    <2>1. Packs'
      BY <1>5 DEF FailBuild, Packs, Described
    <2>2. Walk'
      BY <1>5 DEF FailBuild, Walk
    <2> QED BY <2>1, <2>2
  <1>6. CASE FinishDimension
    <2>1. Packs'
      BY <1>6 DEF FinishDimension, Packs, Described
    <2>2. Walk'
      BY <1>6, HeadTailProperties DEF FinishDimension, Walk
    <2> QED BY <2>1, <2>2
  <1>7. CASE PublishManifest
    <2>1. Packs'
      BY <1>7 DEF PublishManifest, Packs, Described
    <2>2. Walk'
      BY <1>7 DEF PublishManifest, Walk
    <2> QED BY <2>1, <2>2
  <1>8. CASE UNCHANGED fileVars
    <2>1. Packs'
      BY <1>8 DEF fileVars, building, Packs, Described
    <2>2. Walk'
      BY <1>8 DEF fileVars, building, Walk
    <2> QED BY <2>1, <2>2
  <1> QED BY <1>1, <1>2, <1>3, <1>4, <1>5, <1>6, <1>7, <1>8 DEF FilesNext

\* Whatever the rows of a table, the packs of a dimension follow one another
\* from the header on, no offset leaves u32, and each record names the bytes
\* of its pack (flush_pack, build_dimension_files).
THEOREM IndexIsOfBin == FilesSpec => []IndexDescribesBin
  <1>1. FilesInv => IndexDescribesBin
    BY DEF FilesInv, Packs, Described, IndexDescribesBin
  <1> QED BY <1>1, FilesStart, FilesStep, PTL DEF FilesSpec

-----------------------------------------------------------------------------
(* What is built can be read                                               *)

\* The length of a record is that of a pack of the format.
Sized(r) ==
  /\ r.hands \in 1..HandCount
  /\ \E actions \in 0..MaxActions : r.length = r.hands * (5 + actions * 8)

DiskShape ==
  /\ {"idx", "bin"} \subseteq DOMAIN disk
  /\ DOMAIN disk.idx = Dim /\ DOMAIN disk.bin = Dim

\* Every pack of a published file passes the checks of a reader that verifies
\* checksums (read_and_validate_pack).
PublishedPacksReadable ==
  \A d \in Dim : \A i \in 1..disk.idx[d].count :
    PackReadable(disk.bin[d], disk.idx[d].records[i], TRUE)

ReadInv ==
  /\ FilesInv
  /\ \A i \in DOMAIN idx : Sized(idx[i])
  /\ DiskShape
  /\ PublishedPacksReadable

\* A line that the builder can encode has between 1 and 169 hands.
LEMMA EncodableHands ==
  ASSUME NEW rs \in Seq(TableRow), Encodable(rs)
  PROVE  /\ Len(HandsOf(rs)) \in 1..HandCount
         /\ Len(ActionsOf(rs)) \in 0..MaxActions
  <1> DEFINE H == {rs[i].hand : i \in DOMAIN rs}
  <1>1. Len(HandsOf(rs)) \in Nat /\ Len(ActionsOf(rs)) \in Nat
    BY HandsAndActions
  <1>2. Len(ActionsOf(rs)) <= MaxActions /\ MaxActions \in Nat /\ HandCount \in Nat \ {0}
    BY PackAssumption DEF Encodable
  <1>3. H \subseteq 0..(HandCount - 1)
    BY DEF Encodable, HandId
  <1>4. IsFiniteSet(0..(HandCount - 1)) /\ Cardinality(0..(HandCount - 1)) = HandCount
    <2>1. 0 \in Int /\ HandCount - 1 \in Int /\ HandCount - 1 >= 0
      BY <1>2
    <2> QED BY <2>1, <1>2, FS_Interval
  <1>5. H # {}
    <2>1. rs # <<>>
      BY DEF Encodable
    <2>2. 1 \in DOMAIN rs
      BY <2>1, LenProperties, EmptySeq
    <2> QED BY <2>2
  <1> HIDE DEF H
  <1>6. IsFiniteSet(H) /\ Cardinality(H) <= HandCount
    BY <1>3, <1>4, FS_Subset
  <1>7. Cardinality(H) \in Nat /\ Cardinality(H) # 0
    BY <1>5, <1>6, FS_CardinalityType, FS_EmptySet
  <1>8. DOMAIN HandsOf(rs) = 1..Cardinality(H)
    BY DEF HandsOf, Ordered, H
  <1>9. HandsOf(rs) \in [1..Cardinality(H) -> {HandsOf(rs)[k] : k \in 1..Cardinality(H)}]
    BY <1>8 DEF HandsOf, Ordered
  <1>10. Len(HandsOf(rs)) = Cardinality(H)
    BY <1>7, <1>9, FunctionIsSeq
  <1> QED BY <1>1, <1>2, <1>6, <1>7, <1>10

\* A record that describes its bytes and has the length of a pack is readable.
LEMMA DescribedIsReadable ==
  ASSUME FilesInv, NEW r, Described(r), Sized(r)
  PROVE  PackReadable([header |-> "ok", bytes |-> bin], r, TRUE)
  <1> DEFINE f == [header |-> "ok", bytes |-> bin]
  <1>1. PICK actions \in 0..MaxActions : r.length = r.hands * (5 + actions * 8)
    BY DEF Sized
  <1>2. r.hands \in 1..HandCount
    BY DEF Sized
  <1>3. /\ PackByteLength(r.hands, actions) = r.length
        /\ ActionCountFromPack(r.hands, r.length) = actions
    BY <1>1, <1>2, ActionCountIsKept
  <1>4. actions <= MaxActions /\ r.hands # 0
    BY <1>1, <1>2, PackAssumption
  <1>5. PackInBounds(f, r)
    BY DEF PackInBounds, BinLength, Described
  <1>6. PackBytes(f, r) = r.checksum
    BY DEF PackBytes, Described
  <1> QED BY <1>3, <1>4, <1>5, <1>6 DEF PackReadable

LEMMA FlushKeepsSized ==
  ASSUME ReadInv, Flush
  PROVE  \A i \in DOMAIN idx' : Sized(idx'[i])
  <1> DEFINE P == Payload(rows)
             r == Record(rows[1].line, SchemaId(ActionBlob(rows)), Len(HandsOf(rows)), offset, P)
  <1>1. rows \in Seq(TableRow) /\ Encodable(rows) /\ idx' = Append(idx, r)
    BY DEF ReadInv, FilesInv, Walk, Flush, Flushable
  <1>2. r.hands = Len(HandsOf(rows)) /\ r.length = Len(P)
    BY DEF Record
  <1>3. Len(P) = Len(HandsOf(rows)) * (5 + Len(ActionsOf(rows)) * 8)
    BY <1>1, PayloadLength
  <1>4. Len(HandsOf(rows)) \in 1..HandCount /\ Len(ActionsOf(rows)) \in 0..MaxActions
    BY <1>1, EncodableHands
  <1> HIDE DEF P, r
  <1>5. Sized(r)
    BY <1>2, <1>3, <1>4 DEF Sized
  <1>6. PICK R : idx \in Seq(R) /\ r \in R
    <2>1. PICK X : idx \in Seq(X)
      BY DEF ReadInv, FilesInv, Packs, IsSeq
    <2>2. idx \in Seq(X \cup {r}) /\ r \in X \cup {r}
      BY <2>1, SeqMonotonic
    <2> QED BY <2>2
  <1>7. /\ DOMAIN idx' = 1..(Len(idx) + 1) /\ DOMAIN idx = 1..Len(idx) /\ Len(idx) \in Nat
        /\ \A i \in 1..Len(idx) : idx'[i] = idx[i]
        /\ idx'[Len(idx) + 1] = r
    BY <1>1, <1>6, AppendProperties, LenProperties
  <1> QED BY <1>5, <1>7 DEF ReadInv

LEMMA ReadStart == Init => ReadInv
  <1> SUFFICES ASSUME Init PROVE ReadInv
    OBVIOUS
  <1>1. FilesInv
    BY FilesStart
  <1>2. \A i \in DOMAIN idx : Sized(idx[i])
    BY DEF Init
  <1>3. DiskShape
    BY DEF Init, DiskShape
  <1>4. \A d \in Dim : disk.idx[d].count = 0
    BY DEF Init, NoIdx
  <1>5. PublishedPacksReadable
    BY <1>4 DEF PublishedPacksReadable
  <1> QED BY <1>1, <1>2, <1>3, <1>5 DEF ReadInv

LEMMA ReadStep == ReadInv /\ [FilesNext]_fileVars => ReadInv'
  <1> SUFFICES ASSUME ReadInv, [FilesNext]_fileVars
               PROVE  ReadInv'
    OBVIOUS
  <1>1. FilesInv'
    BY FilesStep DEF ReadInv
  <1>2. (\A i \in DOMAIN idx : Sized(idx[i]))'
    <2>1. CASE Flush
      BY <2>1, FlushKeepsSized
    <2>2. CASE UNCHANGED idx
      BY <2>2 DEF ReadInv
    <2>3. CASE CreateFiles
      BY <2>3 DEF CreateFiles
    <2> QED BY <2>1, <2>2, <2>3 DEF FilesNext, GatherRow, FlushLine, FlushLastLine, FailBuild,
            FinishDimension, PublishManifest, fileVars, building
  <1>3. CASE UNCHANGED disk
    <2>1. DiskShape' /\ PublishedPacksReadable'
      BY <1>3 DEF ReadInv, DiskShape, PublishedPacksReadable
    <2> QED BY <1>1, <1>2, <2>1 DEF ReadInv
  <1>4. CASE FinishDimension
    <2> DEFINE d == Head(plan)
               f == [header |-> "ok", count |-> Len(idx), records |-> idx]
               g == [header |-> "ok", bytes |-> bin]
    <2>1. d \in Dim
      BY <1>4, HeadTailProperties DEF FinishDimension, ReadInv, FilesInv, Walk
    <2>2. /\ disk'.idx = [disk.idx EXCEPT ![d] = f]
          /\ disk'.bin = [disk.bin EXCEPT ![d] = g]
          /\ DOMAIN disk' = DOMAIN disk
      BY <1>4 DEF FinishDimension, ReadInv, DiskShape
    <2>3. f.count = Len(idx) /\ f.records = idx
      OBVIOUS
    <2>4. \A i \in 1..Len(idx) : PackReadable(g, idx[i], TRUE)
      <3>1. DOMAIN idx = 1..Len(idx)
        BY LenProperties DEF ReadInv, FilesInv, Packs, IsSeq
      <3> QED BY <3>1, DescribedIsReadable DEF ReadInv, FilesInv, Packs
    <2> HIDE DEF d, f, g
    <2>5. DiskShape'
      BY <2>2 DEF ReadInv, DiskShape
    <2>6. ASSUME NEW e \in Dim, NEW i \in 1..disk'.idx[e].count
          PROVE  PackReadable(disk'.bin[e], disk'.idx[e].records[i], TRUE)
      <3>1. CASE e = d
        <4>1. disk'.idx[e] = f /\ disk'.bin[e] = g
          BY <2>1, <2>2, <3>1 DEF ReadInv, DiskShape
        <4> QED BY <4>1, <2>3, <2>4, <2>6
      <3>2. CASE e # d
        <4>1. disk'.idx[e] = disk.idx[e] /\ disk'.bin[e] = disk.bin[e]
          BY <2>2, <3>2 DEF ReadInv, DiskShape
        <4> QED BY <4>1, <2>6 DEF ReadInv, PublishedPacksReadable
      <3> QED BY <3>1, <3>2
    <2>7. PublishedPacksReadable'
      BY <2>6 DEF PublishedPacksReadable
    <2> QED BY <1>1, <1>2, <2>5, <2>7 DEF ReadInv
  <1>5. CASE PublishManifest
    <2>1. disk'.idx = disk.idx /\ disk'.bin = disk.bin /\ DOMAIN disk' = DOMAIN disk
      BY <1>5 DEF PublishManifest, ReadInv, DiskShape
    <2>2. DiskShape'
      BY <2>1 DEF ReadInv, DiskShape
    <2>3. PublishedPacksReadable'
      BY <2>1 DEF ReadInv, PublishedPacksReadable
    <2> QED BY <1>1, <1>2, <2>2, <2>3 DEF ReadInv
  <1> QED BY <1>3, <1>4, <1>5 DEF FilesNext, CreateFiles, GatherRow, FlushLine, FlushLastLine,
          FailBuild, fileVars

\* Whatever rows the source has, no reader refuses a pack that the builder
\* wrote, not even at the largest number of hands and actions
\* (encode_concrete_line_pack against read_and_validate_pack).
THEOREM BuiltPacksAreReadable == FilesSpec => []PublishedPacksReadable
  <1>1. ReadInv => PublishedPacksReadable
    BY DEF ReadInv
  <1> QED BY <1>1, ReadStart, ReadStep, PTL DEF FilesSpec

-----------------------------------------------------------------------------
(* The least of a set, and the first failures of a list                    *)

LEMMA LeastNumber ==
  ASSUME NEW S \in SUBSET Nat, S # {}
  PROVE  Min(S) \in S /\ \A y \in S : Min(S) <= y
  <1> DEFINE less == OpToRel(<, Nat)
  <1>1. IsWellFoundedOn(less, Nat)
    BY NatLessThanWellFounded
  <1>2. \A x, y \in Nat : x < y => <<x, y>> \in less
    BY DEF OpToRel
  <1> HIDE DEF less
  <1>3. PICK x \in S : \A y \in S : ~(<<y, x>> \in less)
    BY <1>1, WFMin
  <1>4. ASSUME NEW y \in S
        PROVE  x <= y
    <2>1. ~(y < x)
      BY <1>2, <1>3
    <2> QED BY <2>1
  <1> QED BY <1>3, <1>4 DEF Min

LEMMA LesserOfTwo ==
  ASSUME NEW a \in Nat, NEW b \in Nat
  PROVE  /\ Min({a, b}) \in Nat
         /\ Min({a, b}) = IF a <= b THEN a ELSE b
  <1>1. {a, b} \in SUBSET Nat /\ {a, b} # {}
    OBVIOUS
  <1>2. Min({a, b}) \in {a, b} /\ \A y \in {a, b} : Min({a, b}) <= y
    BY <1>1, LeastNumber
  <1> QED BY <1>2

\* A list of failures: there are finitely many, each in one of the layers.
LayerNames == {"file", "manifest", "catalog", "index", "pack", "cross", "source"}
IsFailures(F) == IsFiniteSet(F) /\ \A f \in F : f.layer \in LayerNames

\* Some failures are kept before others by their layer.
RankOf(f) == CHOOSE k \in DOMAIN Layers : Layers[k] = f.layer
Ahead(K, F) == \A f \in K : \A g \in F \ K : RankOf(f) <= RankOf(g)

LEMMA RankIsNat ==
  ASSUME NEW F, IsFailures(F), NEW f \in F
  PROVE  RankOf(f) \in Nat
  <1>1. DOMAIN Layers = 1..7
    BY DEF Layers
  <1>2. /\ Layers[1] = "file" /\ Layers[2] = "manifest" /\ Layers[3] = "catalog"
        /\ Layers[4] = "index" /\ Layers[5] = "pack" /\ Layers[6] = "cross"
        /\ Layers[7] = "source"
    BY DEF Layers
  <1>3. \E k \in DOMAIN Layers : Layers[k] = f.layer
    BY <1>1, <1>2 DEF IsFailures, LayerNames
  <1> QED BY <1>1, <1>3 DEF RankOf

\* A list has a beginning of every length.
LEMMA BeginningExists ==
  ASSUME NEW F, IsFailures(F), NEW n \in 0..Cardinality(F)
  PROVE  \E K \in SUBSET F : Cardinality(K) = n /\ Ahead(K, F)
  <1> DEFINE Has(m) == \E K \in SUBSET F : Cardinality(K) = m /\ Ahead(K, F)
             Bad == {m \in 0..Cardinality(F) : ~Has(m)}
  <1>1. IsFiniteSet(F) /\ Cardinality(F) \in Nat
    BY FS_CardinalityType DEF IsFailures
  <1>2. Bad \in SUBSET Nat
    BY <1>1
  <1>3. SUFFICES ASSUME Bad # {} PROVE FALSE
    BY <1>1
  <1>4. PICK m \in Bad : \A k \in Bad : m <= k
    <2> HIDE DEF Bad
    <2> QED BY <1>2, <1>3, LeastNumber
  <1>5. m \in 0..Cardinality(F) /\ ~Has(m)
    OBVIOUS
  <1>6. CASE m = 0
    <2>1. {} \in SUBSET F /\ Cardinality({}) = 0 /\ Ahead({}, F)
      BY FS_EmptySet DEF Ahead
    <2> QED BY <1>5, <1>6, <2>1
  <1>7. CASE m # 0
    <2>1. m - 1 \in 0..Cardinality(F) /\ m - 1 \in Nat /\ ~(m <= m - 1)
      BY <1>1, <1>5, <1>7
    <2>2. Has(m - 1)
      BY <2>1, <1>4
    <2>3. PICK K \in SUBSET F : Cardinality(K) = m - 1 /\ Ahead(K, F)
      BY <2>2
    <2>4. IsFiniteSet(K)
      BY <1>1, FS_Subset
    <2>5. F \ K # {}
      <3>1. F # K
        BY <2>3, <1>1, <1>5, <2>1
      <3> QED BY <3>1
    <2> DEFINE R == {RankOf(g) : g \in F \ K}
    <2>6. R \in SUBSET Nat /\ R # {}
      BY <2>5, RankIsNat
    <2>7. PICK g \in F \ K : \A h \in F \ K : RankOf(g) <= RankOf(h)
      <3>1. PICK r \in R : \A q \in R : r <= q
        <4> HIDE DEF R
        <4> QED BY <2>6, LeastNumber
      <3>2. PICK g \in F \ K : r = RankOf(g)
        OBVIOUS
      <3> QED BY <3>1, <3>2
    <2>8. Cardinality(K \cup {g}) = m
      <3>1. g \notin K
        BY <2>7
      <3>2. Cardinality(K \cup {g}) = Cardinality(K) + 1
        BY <2>4, <3>1, FS_AddElement, Zenon
      <3> QED BY <2>1, <2>3, <3>2, <1>5
    <2>9. K \cup {g} \in SUBSET F
      BY <2>7
    <2>10. Ahead(K \cup {g}, F)
      BY <2>3, <2>7 DEF Ahead
    <2> QED BY <1>5, <2>8, <2>9, <2>10
  <1> QED BY <1>6, <1>7

\* The failures that are kept are failures of the list, and as many as fit.
LEMMA FirstAreOfList ==
  ASSUME NEW F, IsFailures(F), NEW cap \in Nat \ {0}
  PROVE  /\ FirstOf(F, cap) \subseteq F
         /\ IsFailures(FirstOf(F, cap))
         /\ FirstOf(F, cap) = {} => F = {}
  <1> DEFINE n == Min({Cardinality(F), cap})
             K == FirstOf(F, cap)
  <1>1. IsFiniteSet(F) /\ Cardinality(F) \in Nat
    BY FS_CardinalityType DEF IsFailures
  <1>2. n \in 0..Cardinality(F) /\ n = IF Cardinality(F) <= cap THEN Cardinality(F) ELSE cap
    BY <1>1, LesserOfTwo
  <1> HIDE DEF n
  <1>3. \E k \in kSubset(n, F) : Ahead(k, F)
    BY <1>2, BeginningExists DEF kSubset
  <1>4. K = CHOOSE k \in kSubset(n, F) : Ahead(k, F)
    BY DEF FirstOf, Ahead, RankOf, n
  <1> HIDE DEF K
  <1>5. K \in kSubset(n, F)
    BY <1>3, <1>4
  <1>6. K \subseteq F /\ Cardinality(K) = n
    BY <1>5 DEF kSubset
  <1>7. IsFailures(K)
    BY <1>1, <1>6, FS_Subset DEF IsFailures
  <1>8. K = {} => F = {}
    <2>1. K = {} => n = 0
      BY <1>6, FS_EmptySet
    <2>2. n = 0 => Cardinality(F) = 0
      BY <1>2
    <2> QED BY <2>1, <2>2, <1>1, FS_EmptySet
  <1> QED BY <1>6, <1>7, <1>8 DEF K

-----------------------------------------------------------------------------
(* Types of a directory and of its failures                                *)

IndexRecord(A) ==
  [line : Nat, schema : A, hands : Nat, offset : Nat, length : Int, checksum : A]

IsIdx(f) == \E H, A : f \in [header : H, count : Nat, records : Seq(IndexRecord(A))]
IsBin(f) == \E H, A : f \in [header : H, bytes : Seq(A)]
AreSchemas(S) ==
  /\ IsFiniteSet(S)
  /\ \A s \in S : DOMAIN s = {"id", "count", "blob", "checksum", "key"} /\ IsSeq(s.blob)

Entry == [dim : Dim, failed : BOOLEAN, idxFile : BOOLEAN, binFile : BOOLEAN]

\* The files of a directory, damaged or not.
DiskTypes ==
  /\ DOMAIN disk = {"manifest", "entries", "catalog", "tables", "info", "lines", "indexed",
                    "schemas", "idx", "bin"}
  /\ disk.entries \in Seq(Entry)
  /\ AreSchemas(disk.schemas)
  /\ DOMAIN disk.idx = Dim /\ DOMAIN disk.bin = Dim
  /\ \A d \in Dim : IsIdx(disk.idx[d]) /\ IsBin(disk.bin[d])

LEMMA ImageIsFinite ==
  ASSUME NEW S, IsFiniteSet(S), NEW f, DOMAIN f = S
  PROVE  IsFiniteSet({f[x] : x \in S})
  <1> DEFINE T == {f[x] : x \in S}
             g == [x \in S |-> f[x]]
  <1>1. g \in [S -> T] /\ T = {g[x] : x \in S}
    OBVIOUS
  <1> HIDE DEF T, g
  <1>2. g \in Surjection(S, T)
    BY <1>1, Fun_IsSurj
  <1>3. IsFiniteSet(T)
    BY <1>2, FS_Surjection
  <1> QED BY <1>3 DEF T

LEMMA EntriesAreFinite ==
  ASSUME DiskTypes
  PROVE  IsFiniteSet(Successful) /\ Successful \subseteq Entry
  <1>1. disk.entries \in [1..Len(disk.entries) -> Entry] /\ Len(disk.entries) \in Nat
        /\ DOMAIN disk.entries = 1..Len(disk.entries)
    BY LenProperties, ElementOfSeq DEF DiskTypes
  <1>2. IsFiniteSet(1..Len(disk.entries))
    BY <1>1, FS_Interval
  <1>3. IsFiniteSet({disk.entries[i] : i \in 1..Len(disk.entries)})
    BY <1>1, <1>2, ImageIsFinite
  <1>4. ToSet(disk.entries) = {disk.entries[i] : i \in 1..Len(disk.entries)}
    BY <1>1 DEF ToSet
  <1>5. Successful \in SUBSET ToSet(disk.entries)
    BY DEF Successful
  <1>6. ToSet(disk.entries) \subseteq Entry
    BY <1>1, <1>4
  <1> QED BY <1>3, <1>4, <1>5, <1>6, FS_Subset

LEMMA OneFailure ==
  /\ IsFailures({})
  /\ \A layer \in LayerNames : \A dim, place, reason :
       IsFailures({Failing(layer, dim, place, reason)})
  <1>1. IsFailures({})
    BY FS_EmptySet DEF IsFailures
  <1>2. ASSUME NEW layer \in LayerNames, NEW dim, NEW place, NEW reason
        PROVE  IsFailures({Failing(layer, dim, place, reason)})
    <2> DEFINE f == Failing(layer, dim, place, reason)
    <2>1. f.layer = layer
      BY DEF Failing
    <2> HIDE DEF f
    <2>2. IsFiniteSet({f})
      BY FS_Singleton
    <2>3. IsFailures({f})
      BY <2>1, <2>2 DEF IsFailures
    <2> QED BY <2>3 DEF f
  <1> QED BY <1>1, <1>2

LEMMA SomeFailures ==
  ASSUME NEW F, IsFailures(F), NEW G \in SUBSET F
  PROVE  IsFailures(G)
  BY FS_Subset DEF IsFailures

LEMMA JoinedFailures ==
  ASSUME NEW F, NEW G, IsFailures(F), IsFailures(G)
  PROVE  IsFailures(F \cup G)
  BY FS_Union DEF IsFailures

\* The failures of each of finitely many things.
LEMMA FailuresOfEach ==
  ASSUME NEW S, IsFiniteSet(S), NEW f, DOMAIN f = S, \A x \in S : IsFailures(f[x])
  PROVE  IsFailures(UNION {f[x] : x \in S})
  <1> DEFINE T == {f[x] : x \in S}
  <1>1. IsFiniteSet(T)
    BY ImageIsFinite
  <1>2. \A F \in T : IsFailures(F)
    OBVIOUS
  <1> HIDE DEF T
  <1>3. IsFiniteSet(UNION T)
    BY <1>1, <1>2, FS_UNION DEF IsFailures
  <1>4. IsFailures(UNION T)
    BY <1>2, <1>3 DEF IsFailures
  <1> QED BY <1>4 DEF T

\* One failure of each of finitely many things.
LEMMA FailureOfEach ==
  ASSUME NEW S, IsFiniteSet(S), NEW f, DOMAIN f = S, \A x \in S : f[x].layer \in LayerNames
  PROVE  IsFailures({f[x] : x \in S})
  <1>1. IsFiniteSet({f[x] : x \in S})
    BY ImageIsFinite
  <1> QED BY <1>1 DEF IsFailures

LEMMA ManifestFailuresAre == IsFailures(ManifestFailures)
  BY OneFailure DEF ManifestFailures, LayerNames

LEMMA MissingFilesAre ==
  ASSUME DiskTypes
  PROVE  IsFailures(MissingFiles)
  <1> DEFINE M == When(disk.catalog = "missing", Failing("file", "meta.db", 0, "MISSING_FILE"))
             Is == {e \in Successful : ~HasIdx(e)}
             Bs == {e \in Successful : ~HasBin(e)}
             fi == [e \in Is |-> Failing("file", e.dim, 0, "MISSING_IDX")]
             fb == [e \in Bs |-> Failing("file", e.dim, 0, "MISSING_BIN")]
  <1>1. IsFailures(M)
    BY OneFailure DEF When, LayerNames
  <1>2. IsFiniteSet(Is) /\ IsFiniteSet(Bs)
    BY EntriesAreFinite, FS_Subset
  <1>3. MissingFiles = M \cup {fi[e] : e \in Is} \cup {fb[e] : e \in Bs}
    BY DEF MissingFiles
  <1>4. \A e \in Is : fi[e].layer \in LayerNames
    BY DEF Failing, LayerNames
  <1>5. \A e \in Bs : fb[e].layer \in LayerNames
    BY DEF Failing, LayerNames
  <1>6. DOMAIN fi = Is /\ DOMAIN fb = Bs
    OBVIOUS
  <1> HIDE DEF M, Is, Bs, fi, fb
  <1>7. IsFailures({fi[e] : e \in Is}) /\ IsFailures({fb[e] : e \in Bs})
    BY <1>2, <1>4, <1>5, <1>6, FailureOfEach
  <1> QED BY <1>1, <1>3, <1>7, JoinedFailures

LEMMA SchemaFailuresAre ==
  ASSUME NEW s
  PROVE  IsFailures(SchemaFailures(s))
  <1>1. "catalog" \in LayerNames
    BY DEF LayerNames
  <1>2. /\ IsFailures(When(Len(s.blob) # s.count, Failing("catalog", Global, s.id, "INVALID_FORMAT")))
        /\ IsFailures(When(s.count \notin 1..MaxActions,
                           Failing("catalog", Global, s.id, "INVALID_ARGUMENT")))
        /\ IsFailures(When(s.checksum # s.blob,
                           Failing("catalog", Global, s.id, "CHECKSUM_MISMATCH")))
        /\ IsFailures(When(s.key # s.blob,
                           Failing("catalog", Global, s.id, "SCHEMA_KEY_MISMATCH")))
    BY <1>1, OneFailure DEF When
  <1> QED BY <1>2, JoinedFailures DEF SchemaFailures

LEMMA CatalogFailuresAre ==
  ASSUME DiskTypes
  PROVE  IsFailures(CatalogFailures)
  <1> DEFINE Info == {"built_at", "source_checksum"}
             R == IF HasTable("build_info") THEN Info \ disk.info ELSE {}
             Ls == {e \in Successful : e.dim \notin disk.lines}
             Xs == {e \in Successful : e.dim \in disk.lines \ disk.indexed}
             fr == [row \in R |-> Failing("catalog", Global, 0, row)]
             fs == [s \in KnownSchemas |-> SchemaFailures(s)]
             fl == [e \in Ls |-> Failing("catalog", Global, 0, "NO_LINES")]
             fx == [e \in Xs |-> Failing("catalog", Global, 0, "MISSING_INDEX")]
             A == When(~HasTable("build_info"), Failing("catalog", Global, 0, "NO_BUILD_INFO"))
             B == When(~HasTable("action_schemas"), Failing("catalog", Global, 0, "NO_SCHEMAS"))
             C == When(HasTable("action_schemas") /\ disk.schemas = {},
                       Failing("catalog", Global, 0, "EMPTY"))
             D == When(Successful # {} /\ ~HasTable("drill"),
                       Failing("catalog", Global, 0, "NO_DRILL_TABLE"))
  <1>1. "catalog" \in LayerNames
    BY DEF LayerNames
  <1>2. IsFailures(A) /\ IsFailures(B) /\ IsFailures(C) /\ IsFailures(D)
    BY <1>1, OneFailure DEF When
  <1>3. IsFiniteSet(R) /\ IsFiniteSet(KnownSchemas) /\ IsFiniteSet(Ls) /\ IsFiniteSet(Xs)
    <2>1. IsFiniteSet(Info)
      <3>1. Info = {"built_at"} \cup {"source_checksum"}
        OBVIOUS
      <3>2. IsFiniteSet({"built_at"})
        BY FS_Singleton
      <3> HIDE DEF Info
      <3> QED BY <3>1, <3>2, FS_AddElement
    <2>2. R \in SUBSET Info /\ Ls \in SUBSET Successful /\ Xs \in SUBSET Successful
      OBVIOUS
    <2>3. IsFiniteSet(KnownSchemas)
      BY FS_EmptySet DEF KnownSchemas, DiskTypes, AreSchemas
    <2> HIDE DEF R, Ls, Xs, Info
    <2> QED BY <2>1, <2>2, <2>3, EntriesAreFinite, FS_Subset
  <1>4. DOMAIN fr = R /\ DOMAIN fs = KnownSchemas /\ DOMAIN fl = Ls /\ DOMAIN fx = Xs
    OBVIOUS
  <1>5. /\ \A x \in R : fr[x].layer \in LayerNames
        /\ \A x \in Ls : fl[x].layer \in LayerNames
        /\ \A x \in Xs : fx[x].layer \in LayerNames
    BY <1>1 DEF Failing
  <1>6. \A s \in KnownSchemas : IsFailures(fs[s])
    BY SchemaFailuresAre
  <1>7. CASE disk.catalog # "ok"
    BY <1>1, <1>7, OneFailure DEF CatalogFailures
  <1>8. CASE disk.catalog = "ok"
    <2> DEFINE E == UNION {SchemaFailures(s) : s \in KnownSchemas}
               FR == {Failing("catalog", Global, 0, row) : row \in R}
               FL == {Failing("catalog", Global, 0, "NO_LINES") : e \in Ls}
               FX == {Failing("catalog", Global, 0, "MISSING_INDEX") : e \in Xs}
    <2>0. /\ E = UNION {fs[x] : x \in KnownSchemas}
          /\ FR = {fr[x] : x \in R} /\ FL = {fl[x] : x \in Ls} /\ FX = {fx[x] : x \in Xs}
      OBVIOUS
    <2>1. CatalogFailures = ((A \cup FR) \cup (B \cup C)) \cup ((E \cup D) \cup (FL \cup FX))
      <3>1. CatalogFailures = A \cup FR \cup B \cup C \cup E \cup D \cup FL \cup FX
        BY <1>8 DEF CatalogFailures
      <3> HIDE DEF A, B, C, D, E, FR, FL, FX
      <3> QED BY <3>1
    <2> HIDE DEF E, FR, FL, FX
    <2> HIDE DEF A, B, C, D, R, Ls, Xs, fr, fs, fl, fx
    <2>2. IsFailures({fr[x] : x \in R}) /\ IsFailures({fl[x] : x \in Ls})
          /\ IsFailures({fx[x] : x \in Xs})
      BY <1>3, <1>4, <1>5, FailureOfEach
    <2>3. IsFailures(UNION {fs[x] : x \in KnownSchemas})
      BY <1>3, <1>4, <1>6, FailuresOfEach
    <2>4. /\ IsFailures(A \cup FR) /\ IsFailures(B \cup C)
          /\ IsFailures(E \cup D) /\ IsFailures(FL \cup FX)
      BY <1>2, <2>0, <2>2, <2>3, JoinedFailures
    <2>5. IsFailures((A \cup FR) \cup (B \cup C)) /\ IsFailures((E \cup D) \cup (FL \cup FX))
      BY <2>4, JoinedFailures
    <2> QED BY <2>1, <2>5, JoinedFailures
  <1> QED BY <1>7, <1>8

LEMMA RecordFailuresAre ==
  ASSUME NEW f, NEW d, NEW i
  PROVE  IsFailures(RecordFailures(f, d, i))
  <1>1. "index" \in LayerNames
    BY DEF LayerNames
  <1> DEFINE A == When(f.records[i].line <= f.records[i - 1].line,
                       Failing("index", d, i, "OUT_OF_ORDER"))
             B == When(f.records[i].line > f.records[i - 1].line + 1,
                       Failing("index", d, i, "NON_DENSE_CONCRETE_LINE_ID"))
             C == When(f.records[i].hands > HandCount, Failing("index", d, i, "INVALID_HAND_COUNT"))
             D == When(~\E s \in KnownSchemas : s.id = f.records[i].schema,
                       Failing("index", d, i, "DANGLING_FOREIGN_KEY"))
  <1>2. IsFailures(A) /\ IsFailures(B) /\ IsFailures(C) /\ IsFailures(D)
    BY <1>1, OneFailure DEF When
  <1>3. OrderFailures(f, d, i) = IF i = 1 THEN {} ELSE A \cup B
    BY DEF OrderFailures
  <1>4. RecordFailures(f, d, i) = OrderFailures(f, d, i) \cup C \cup D
    BY DEF RecordFailures
  <1> HIDE DEF A, B, C, D
  <1>5. IsFailures(OrderFailures(f, d, i))
    BY <1>2, <1>3, JoinedFailures, OneFailure
  <1> QED BY <1>2, <1>4, <1>5, JoinedFailures

LEMMA IndexFailuresAre ==
  ASSUME DiskTypes, NEW d \in Dim
  PROVE  IsFailures(IndexFailures(d))
  <1> DEFINE f == disk.idx[d]
             I == IF Whole(f) THEN 1..f.count ELSE {}
             fi == [i \in I |-> RecordFailures(f, d, i)]
             A == When(f.header # "ok", Failing("index", d, 0, f.header))
             B == When(f.header \notin {"missing", "short"} /\ ~Whole(f),
                       Failing("index", d, 0, "TRUNCATED"))
  <1>1. "index" \in LayerNames
    BY DEF LayerNames
  <1>2. IsFailures(A) /\ IsFailures(B)
    BY <1>1, OneFailure DEF When
  <1>3. IsFiniteSet(I)
    <2>1. f.count \in Nat
      BY DEF DiskTypes, IsIdx
    <2> HIDE DEF f
    <2> QED BY <2>1, FS_Interval, FS_EmptySet
  <1>4. \A i \in I : IsFailures(fi[i])
    BY RecordFailuresAre
  <1>5. IndexFailures(d) = A \cup B \cup UNION {fi[i] : i \in I}
    BY DEF IndexFailures
  <1>6. DOMAIN fi = I
    OBVIOUS
  <1> HIDE DEF A, B, I, fi, f
  <1>7. IsFailures(UNION {fi[i] : i \in I})
    BY <1>3, <1>4, <1>6, FailuresOfEach
  <1>8. IsFailures(A \cup B)
    BY <1>2, JoinedFailures
  <1> QED BY <1>5, <1>7, <1>8, JoinedFailures

LEMMA HandFailuresAre ==
  ASSUME NEW pack, NEW hands, NEW d, NEW i
  PROVE  IsFailures(HandFailures(pack, hands, d, i))
  <1>1. "cross" \in LayerNames
    BY DEF LayerNames
  <1> DEFINE Falls == {k \in 2..hands : pack[k][1] <= pack[k - 1][1]}
             last == IF Falls = {} THEN hands ELSE Min(Falls)
             A == When(Falls # {}, Failing("cross", d, i, "HAND_ID_NOT_SORTED"))
             B == When(\E k \in 1..last : pack[k][1] \notin HandId,
                       Failing("cross", d, i, "INVALID_HAND_ID"))
  <1>2. IsFailures(A) /\ IsFailures(B)
    BY <1>1, OneFailure DEF When
  <1>3. HandFailures(pack, hands, d, i) = IF Len(pack) < hands THEN {} ELSE A \cup B
    BY DEF HandFailures
  <1> HIDE DEF A, B
  <1> QED BY <1>2, <1>3, OneFailure, JoinedFailures

LEMMA PackFailuresAre ==
  ASSUME NEW d, NEW i, NEW checksums
  PROVE  IsFailures(PackFailures(d, i, checksums))
  <1>1. "cross" \in LayerNames
    BY DEF LayerNames
  <1> DEFINE b == disk.bin[d]
             r == disk.idx[d].records[i]
             Expected == {PackByteLength(r.hands, s.count) :
                            s \in {s \in KnownSchemas : s.id = r.schema}}
             A == When(r.offset < PfspHeaderSize, Failing("cross", d, i, "INVALID_OFFSET"))
             B == {Failing("cross", d, i, "OUT_OF_BOUNDS")}
             C == When(\E n \in Expected : n # r.length,
                       Failing("cross", d, i, "PACK_SIZE_MISMATCH"))
             D == When(checksums /\ PackBytes(b, r) # r.checksum,
                       Failing("cross", d, i, "CHECKSUM_MISMATCH"))
             H == HandFailures(PackBytes(b, r), r.hands, d, i)
  <1>2. IsFailures(A) /\ IsFailures(B) /\ IsFailures(C) /\ IsFailures(D) /\ IsFailures(H)
    BY <1>1, OneFailure, HandFailuresAre DEF When
  <1>3. PackFailures(d, i, checksums) = A \cup IF r.offset + r.length > BinLength(b) THEN B
                                               ELSE C \cup D \cup H
    BY DEF PackFailures
  <1> HIDE DEF A, B, C, D, H
  <1> QED BY <1>2, <1>3, JoinedFailures

\* What the standalone check finds is a list.
LEMMA StandaloneFailuresAre ==
  ASSUME DiskTypes, NEW checksums
  PROVE  IsFailures(StandaloneFailures(checksums))
  <1> DEFINE I == {e \in Successful : e.idxFile}
             B == {e \in Successful : e.binFile}
             fi == [e \in I |-> IndexFailures(e.dim)]
             fb == [e \in B |-> PackHeaderFailures(e.dim)]
             fp(e) == [i \in PackRecords(e) |-> PackFailures(e.dim, i, checksums)]
             fe == [e \in Successful |-> UNION {fp(e)[i] : i \in PackRecords(e)}]
  <1>1. IsFiniteSet(Successful) /\ Successful \subseteq Entry
    BY EntriesAreFinite
  <1>2. IsFiniteSet(I) /\ IsFiniteSet(B)
    BY <1>1, FS_Subset
  <1>3. \A e \in I : IsFailures(fi[e])
    BY <1>1, IndexFailuresAre DEF Entry
  <1>4. \A e \in B : IsFailures(fb[e])
    BY OneFailure DEF PackHeaderFailures, When, LayerNames
  <1>5. ASSUME NEW e \in Successful
        PROVE  IsFailures(fe[e])
    <2>1. IsFiniteSet(PackRecords(e))
      <3>1. disk.idx[e.dim].count \in Nat
        BY <1>1 DEF DiskTypes, IsIdx, Entry
      <3> QED BY <3>1, FS_Interval, FS_EmptySet DEF PackRecords
    <2> DEFINE g == fp(e)
    <2>2. DOMAIN g = PackRecords(e) /\ \A i \in PackRecords(e) : IsFailures(g[i])
      BY PackFailuresAre
    <2>3. fe[e] = UNION {g[i] : i \in PackRecords(e)}
      OBVIOUS
    <2> HIDE DEF g
    <2>4. IsFailures(UNION {g[i] : i \in PackRecords(e)})
      BY <2>1, <2>2, FailuresOfEach
    <2> QED BY <2>3, <2>4
  <1>6. UNION {UNION {PackFailures(e.dim, i, checksums) : i \in PackRecords(e)} : e \in Successful}
        = UNION {fe[e] : e \in Successful}
    OBVIOUS
  <1>7. StandaloneFailures(checksums) =
          IF ManifestFailures # {} THEN ManifestFailures
          ELSE MissingFiles \cup CatalogFailures \cup (UNION {fi[e] : e \in I})
               \cup (UNION {fb[e] : e \in B}) \cup UNION {fe[e] : e \in Successful}
    BY <1>6 DEF StandaloneFailures
  <1>8. DOMAIN fi = I /\ DOMAIN fb = B /\ DOMAIN fe = Successful
    OBVIOUS
  <1> HIDE DEF I, B, fi, fb, fe
  <1>9. /\ IsFailures(UNION {fi[e] : e \in I})
        /\ IsFailures(UNION {fb[e] : e \in B})
        /\ IsFailures(UNION {fe[e] : e \in Successful})
    BY <1>1, <1>2, <1>3, <1>4, <1>5, <1>8, FailuresOfEach
  <1> DEFINE U == UNION {fi[e] : e \in I}
             V == UNION {fb[e] : e \in B}
             W == UNION {fe[e] : e \in Successful}
  <1>10. StandaloneFailures(checksums) = IF ManifestFailures # {} THEN ManifestFailures
                                         ELSE MissingFiles \cup CatalogFailures \cup U \cup V \cup W
    BY <1>7
  <1>11. IsFailures(U) /\ IsFailures(V) /\ IsFailures(W)
    BY <1>9
  <1> HIDE DEF U, V, W
  <1>12. IsFailures(MissingFiles \cup CatalogFailures)
    BY MissingFilesAre, CatalogFailuresAre, JoinedFailures
  <1>13. IsFailures(MissingFiles \cup CatalogFailures \cup U)
    BY <1>11, <1>12, JoinedFailures
  <1>14. IsFailures(MissingFiles \cup CatalogFailures \cup U \cup V)
    BY <1>11, <1>13, JoinedFailures
  <1>15. IsFailures(MissingFiles \cup CatalogFailures \cup U \cup V \cup W)
    BY <1>11, <1>14, JoinedFailures
  <1> QED BY <1>10, <1>15, ManifestFailuresAre

-----------------------------------------------------------------------------
(* A directory without failures                                            *)

\* The hands of a pack are hands, each above the one before it.
Sorted(pack, hands) ==
  \A k \in 1..hands : pack[k][1] \in HandId /\ (k > 1 => pack[k - 1][1] < pack[k][1])

\* The record of a pack that can be read, by the schema that it names.
SoundRecord(b, r, checksums) ==
  /\ r.hands \in 0..HandCount
  /\ r.length \in Nat
  /\ PackInBounds(b, r)
  /\ \E s \in disk.schemas : s.id = r.schema
  /\ \A s \in disk.schemas :
       s.id = r.schema => /\ s.count \in 1..MaxActions
                          /\ PackByteLength(r.hands, s.count) = r.length
  /\ checksums => PackBytes(b, r) = r.checksum
  /\ Len(PackBytes(b, r)) = r.length
  /\ Sorted(PackBytes(b, r), r.hands)

SoundStore(checksums) ==
  \A e \in Successful :
    /\ e.idxFile /\ e.binFile /\ Opens(e.dim)
    /\ \A i \in 1..disk.idx[e.dim].count :
         SoundRecord(disk.bin[e.dim], disk.idx[e.dim].records[i], checksums)

LEMMA SizeOfPack ==
  ASSUME NEW hands \in 0..HandCount, NEW actions \in 1..MaxActions
  PROVE  /\ PackByteLength(hands, actions) \in Nat
         /\ PackByteLength(hands, actions) = hands * (5 + actions * 8)
         /\ hands <= PackByteLength(hands, actions)
  <1>1. CASE hands = 0
    <2>1. 0 * (5 + actions * 8) = 0 /\ 0 % U32 = 0
      <3>1. U32 \in Nat /\ U32 > 0
        <4>1. HandCount \in Nat \ {0} /\ MaxActions \in Nat \ {0}
          BY PackAssumption
        <4>2. HandCount * (5 + MaxActions * 8) \in Nat
          BY <4>1, Z3
        <4> QED BY <4>2, PackAssumption
      <3> QED BY <3>1, Z3
    <2> QED BY <1>1, <2>1 DEF PackByteLength
  <1>2. CASE hands # 0
    <2>1. HandCount \in Nat /\ MaxActions \in Nat
      BY PackAssumption
    <2>2. hands \in 1..HandCount /\ actions \in 0..MaxActions
      BY <1>2, <2>1
    <2>3. PackByteLength(hands, actions) = hands * (5 + actions * 8)
      BY <2>2, ActionCountIsKept
    <2>4. /\ hands * (5 + actions * 8) \in Nat
          /\ hands <= hands * (5 + actions * 8)
      <3>1. hands \in Nat /\ actions \in Nat /\ 1 \in Nat /\ 5 + actions * 8 \in Nat
            /\ 1 <= 5 + actions * 8
        BY <2>1, <2>2, Z3
      <3>2. hands * 1 <= hands * (5 + actions * 8)
        BY <3>1, MulMono
      <3> QED BY <3>1, <3>2, Z3
    <2> QED BY <2>3, <2>4
  <1> QED BY <1>1, <1>2

LEMMA BytesOfPack ==
  ASSUME NEW b, IsBin(b), b.header = "ok", NEW r, r.offset \in Nat, r.length \in Nat,
         PackInBounds(b, r)
  PROVE  Len(PackBytes(b, r)) = r.length
  <1> DEFINE m == r.offset - PfspHeaderSize + 1
             n == r.offset - PfspHeaderSize + r.length
  <1>1. PICK A : b.bytes \in Seq(A)
    BY DEF IsBin
  <1>2. Len(b.bytes) \in Nat /\ PfspHeaderSize \in Nat
    BY <1>1, LenProperties DEF PfspHeaderSize
  <1>3. r.offset >= PfspHeaderSize /\ r.offset + r.length <= PfspHeaderSize + Len(b.bytes)
    BY DEF PackInBounds, BinLength
  <1>4. m \in 1..Len(b.bytes) + 1 /\ n \in 0..Len(b.bytes) /\ n - m + 1 = r.length
    <2>1. ASSUME NEW first \in Nat, NEW size \in Nat, NEW start \in Nat, NEW end \in Nat,
                 first >= start, first + size <= start + end
          PROVE  LET from == first - start + 1
                     to == first - start + size
                 IN from \in 1..end + 1 /\ to \in 0..end /\ to - from + 1 = size
      BY <2>1
    <2> QED BY <1>2, <1>3, <2>1, Zenon
  <1>5. PackBytes(b, r) = SubSeq(b.bytes, m, n)
    BY <1>3 DEF PackBytes
  <1> HIDE DEF m, n
  <1>6. \A i \in m..n : b.bytes[i] \in A
    BY <1>1, <1>2, <1>4, ElementOfSeq
  <1>7. Len(SubSeq(b.bytes, m, n)) = IF m <= n THEN n - m + 1 ELSE 0
    BY <1>2, <1>4, <1>6, SubSeqProperties
  <1> QED BY <1>2, <1>4, <1>5, <1>7

\* Ids that grow by one are those of a dense index.
LEMMA StepsAreDense ==
  ASSUME NEW f, f.count \in Nat, \A i \in 1..f.count : f.records[i].line \in Nat,
         \A i \in 2..f.count : f.records[i].line = f.records[i - 1].line + 1
  PROVE  Dense(f)
  <1> DEFINE Bad == {i \in 1..f.count : f.records[i].line # f.records[1].line + (i - 1)}
  <1>1. SUFFICES ASSUME Bad # {} PROVE FALSE
    BY DEF Dense
  <1>2. Bad \in SUBSET Nat
    OBVIOUS
  <1>3. PICK i \in Bad : \A j \in Bad : i <= j
    <2> HIDE DEF Bad
    <2> QED BY <1>1, <1>2, LeastNumber
  <1>4. i \in 1..f.count /\ i # 1
    <2>1. f.count > 0 => f.records[1].line = f.records[1].line + (1 - 1)
      OBVIOUS
    <2> QED BY <2>1
  <1>5. i - 1 \in 1..f.count /\ i \in 2..f.count /\ ~(i <= i - 1)
    BY <1>4
  <1>6. f.records[i - 1].line = f.records[1].line + (i - 1 - 1)
    BY <1>3, <1>5
  <1>7. f.records[i].line = f.records[i - 1].line + 1
    BY <1>5
  <1>8. f.records[1].line \in Nat
    BY <1>4
  <1>9. f.records[i].line = f.records[1].line + (i - 1)
    BY <1>4, <1>6, <1>7, <1>8
  <1> QED BY <1>9

\* A pack whose hands give no failure.
LEMMA NoHandFailures ==
  ASSUME NEW pack, NEW hands \in Nat, NEW d, NEW i,
         HandFailures(pack, hands, d, i) = {}, ~(Len(pack) < hands)
  PROVE  Sorted(pack, hands)
  <1> DEFINE Falls == {k \in 2..hands : pack[k][1] <= pack[k - 1][1]}
  <1>1. Falls = {}
    BY DEF HandFailures, When
  <1>2. ~\E k \in 1..hands : pack[k][1] \notin HandId
    BY <1>1 DEF HandFailures, When
  <1>3. \A k \in 1..hands : pack[k][1] \in HandId
    BY <1>2
  <1>4. HandId \subseteq Int
    BY PackAssumption DEF HandId
  <1>5. ASSUME NEW k \in 1..hands, k > 1
        PROVE  pack[k - 1][1] < pack[k][1]
    <2>1. k \in 2..hands /\ k - 1 \in 1..hands
      BY <1>5
    <2>2. ~(pack[k][1] <= pack[k - 1][1])
      BY <1>1, <2>1
    <2>3. pack[k][1] \in Int /\ pack[k - 1][1] \in Int
      BY <1>3, <1>4, <2>1
    <2> QED BY <2>2, <2>3
  <1> QED BY <1>3, <1>5 DEF Sorted

\* A directory without a failure has none in any of its parts.
LEMMA NoFailuresInParts ==
  ASSUME NEW checksums, StandaloneFailures(checksums) = {}
  PROVE  /\ ManifestFailures = {} /\ MissingFiles = {} /\ CatalogFailures = {}
         /\ \A e \in Successful : e.idxFile => IndexFailures(e.dim) = {}
         /\ \A e \in Successful : e.binFile => PackHeaderFailures(e.dim) = {}
         /\ \A e \in Successful : \A i \in PackRecords(e) : PackFailures(e.dim, i, checksums) = {}
  <1> DEFINE U == UNION {IndexFailures(e.dim) : e \in {e \in Successful : e.idxFile}}
             V == UNION {PackHeaderFailures(e.dim) : e \in {e \in Successful : e.binFile}}
             P(e) == UNION {PackFailures(e.dim, i, checksums) : i \in PackRecords(e)}
             W == UNION {P(e) : e \in Successful}
  <1>1. ManifestFailures = {}
    BY DEF StandaloneFailures
  <1>2. MissingFiles \cup CatalogFailures \cup U \cup V \cup W = {}
    BY <1>1 DEF StandaloneFailures
  <1> HIDE DEF U, V, W
  <1>3. MissingFiles = {} /\ CatalogFailures = {} /\ U = {} /\ V = {} /\ W = {}
    BY <1>2
  <1>4. \A e \in Successful : e.idxFile => IndexFailures(e.dim) = {}
    BY <1>3 DEF U
  <1>5. \A e \in Successful : e.binFile => PackHeaderFailures(e.dim) = {}
    BY <1>3 DEF V
  <1>6. ASSUME NEW e \in Successful, NEW i \in PackRecords(e)
        PROVE  PackFailures(e.dim, i, checksums) = {}
    <2> HIDE DEF P
    <2>1. P(e) = {}
      BY <1>3 DEF W
    <2> QED BY <2>1 DEF P
  <1> QED BY <1>1, <1>3, <1>4, <1>5, <1>6

LEMMA NoCatalogFailures ==
  ASSUME CatalogFailures = {}
  PROVE  /\ KnownSchemas = disk.schemas
         /\ \A s \in disk.schemas : s.count \in 1..MaxActions /\ Len(s.blob) = s.count
  <1>1. disk.catalog = "ok"
    BY DEF CatalogFailures
  <1> DEFINE B == When(~HasTable("action_schemas"), Failing("catalog", Global, 0, "NO_SCHEMAS"))
             E == UNION {SchemaFailures(s) : s \in KnownSchemas}
  <1>2. B \subseteq CatalogFailures /\ E \subseteq CatalogFailures
    BY <1>1 DEF CatalogFailures
  <1> HIDE DEF E
  <1>3. HasTable("action_schemas")
    BY <1>2 DEF When
  <1>4. KnownSchemas = disk.schemas
    BY <1>3 DEF KnownSchemas
  <1>5. ASSUME NEW s \in disk.schemas
        PROVE  SchemaFailures(s) = {}
    BY <1>2, <1>4 DEF E
  <1>6. ASSUME NEW s \in disk.schemas
        PROVE  s.count \in 1..MaxActions /\ Len(s.blob) = s.count
    BY <1>5, <1>6 DEF SchemaFailures, When
  <1> QED BY <1>4, <1>6

LEMMA NoRecordFailures ==
  ASSUME NEW f, f.count \in Nat, \A i \in 1..f.count : f.records[i].line \in Nat,
         NEW d, \A i \in 1..f.count : RecordFailures(f, d, i) = {}
  PROVE  /\ Dense(f)
         /\ \A i \in 1..f.count : /\ ~(f.records[i].hands > HandCount)
                                   /\ \E s \in KnownSchemas : s.id = f.records[i].schema
  <1>1. ASSUME NEW i \in 2..f.count
        PROVE  f.records[i].line = f.records[i - 1].line + 1
    <2>1. i \in 1..f.count /\ i - 1 \in 1..f.count /\ i # 1
      OBVIOUS
    <2>2. OrderFailures(f, d, i) = {}
      BY <2>1 DEF RecordFailures
    <2>3. /\ ~(f.records[i].line <= f.records[i - 1].line)
          /\ ~(f.records[i].line > f.records[i - 1].line + 1)
      BY <2>1, <2>2 DEF OrderFailures, When
    <2>4. f.records[i].line \in Nat /\ f.records[i - 1].line \in Nat
      BY <2>1
    <2> QED BY <2>3, <2>4
  <1>2. Dense(f)
    BY <1>1, StepsAreDense
  <1>3. ASSUME NEW i \in 1..f.count
        PROVE  /\ ~(f.records[i].hands > HandCount)
               /\ \E s \in KnownSchemas : s.id = f.records[i].schema
    BY <1>3 DEF RecordFailures, When
  <1> QED BY <1>2, <1>3

LEMMA NoPackFailures ==
  ASSUME NEW d, NEW i, NEW checksums, PackFailures(d, i, checksums) = {},
         IsBin(disk.bin[d]), disk.bin[d].header = "ok",
         KnownSchemas = disk.schemas,
         \A s \in disk.schemas : s.count \in 1..MaxActions,
         \E s \in disk.schemas : s.id = disk.idx[d].records[i].schema,
         disk.idx[d].records[i].hands \in 0..HandCount,
         disk.idx[d].records[i].offset \in Nat
  PROVE  SoundRecord(disk.bin[d], disk.idx[d].records[i], checksums)
  <1> DEFINE b == disk.bin[d]
             r == disk.idx[d].records[i]
             Expected == {PackByteLength(r.hands, s.count) :
                            s \in {s \in KnownSchemas : s.id = r.schema}}
             pack == PackBytes(b, r)
  <1>1. /\ ~(r.offset < PfspHeaderSize)
        /\ ~(r.offset + r.length > BinLength(b))
    BY DEF PackFailures, When
  <1>2. /\ ~\E n \in Expected : n # r.length
        /\ ~(checksums /\ pack # r.checksum)
        /\ HandFailures(pack, r.hands, d, i) = {}
    <2>1. PackFailures(d, i, checksums) =
            When(r.offset < PfspHeaderSize, Failing("cross", d, i, "INVALID_OFFSET"))
            \cup (When(\E n \in Expected : n # r.length,
                      Failing("cross", d, i, "PACK_SIZE_MISMATCH"))
                  \cup When(checksums /\ pack # r.checksum,
                            Failing("cross", d, i, "CHECKSUM_MISMATCH"))
                  \cup HandFailures(pack, r.hands, d, i))
      BY <1>1 DEF PackFailures
    <2> HIDE DEF b, r, pack, Expected
    <2> QED BY <2>1 DEF When
  <1>3. \A s \in disk.schemas : s.id = r.schema => PackByteLength(r.hands, s.count) = r.length
    BY <1>2
  <1>4. PICK s \in disk.schemas : s.id = r.schema
    OBVIOUS
  <1>5. s.count \in 1..MaxActions /\ PackByteLength(r.hands, s.count) = r.length
    BY <1>3, <1>4
  <1>6. r.length \in Nat /\ r.hands <= r.length /\ r.hands \in Nat
    BY <1>5, SizeOfPack, PackAssumption
  <1>7. PackInBounds(b, r)
    <2>1. BinLength(b) \in Nat
      BY LenProperties DEF BinLength, IsBin, PfspHeaderSize
    <2>2. PfspHeaderSize \in Nat
      BY DEF PfspHeaderSize
    <2> QED BY <1>1, <1>6, <2>1, <2>2 DEF PackInBounds
  <1>8. Len(pack) = r.length
    BY <1>6, <1>7, BytesOfPack
  <1>9. ~(Len(pack) < r.hands)
    BY <1>6, <1>8
  <1>10. Sorted(pack, r.hands)
    BY <1>2, <1>6, <1>9, NoHandFailures
  <1> QED BY <1>2, <1>3, <1>4, <1>6, <1>7, <1>8, <1>10 DEF SoundRecord

\* What the standalone check says of a directory in which it finds nothing.
LEMMA NoFailuresIsSound ==
  ASSUME DiskTypes, NEW checksums, StandaloneFailures(checksums) = {}
  PROVE  SoundStore(checksums)
  <1> SUFFICES ASSUME NEW e \in Successful
               PROVE  /\ e.idxFile /\ e.binFile /\ Opens(e.dim)
                      /\ \A i \in 1..disk.idx[e.dim].count :
                           SoundRecord(disk.bin[e.dim], disk.idx[e.dim].records[i], checksums)
    BY DEF SoundStore
  <1> DEFINE d == e.dim
             f == disk.idx[d]
             b == disk.bin[d]
  <1>1. d \in Dim /\ e \in Entry
    BY EntriesAreFinite DEF Entry
  <1>2. HasIdx(e) /\ HasBin(e)
    <2>1. MissingFiles = {}
      BY NoFailuresInParts
    <2> QED BY <2>1 DEF MissingFiles
  <1>3. e.idxFile /\ e.binFile /\ f.header # "missing" /\ b.header # "missing"
    BY <1>2 DEF HasIdx, HasBin
  <1>4. IndexFailures(d) = {} /\ PackHeaderFailures(d) = {}
    BY <1>3, NoFailuresInParts
  <1>5. f.header = "ok" /\ b.header = "ok"
    BY <1>4 DEF IndexFailures, PackHeaderFailures, When
  <1>6. Whole(f)
    <2>1. When(f.header \notin {"missing", "short"} /\ ~Whole(f),
               Failing("index", d, 0, "TRUNCATED")) = {}
      BY <1>4 DEF IndexFailures
    <2> QED BY <1>5, <2>1 DEF When
  <1>7. PICK A : f.count \in Nat /\ f.records \in Seq(IndexRecord(A))
    BY <1>1 DEF DiskTypes, IsIdx
  <1>8. \A i \in 1..f.count : f.records[i] \in IndexRecord(A)
    <2>1. f.count <= Len(f.records)
      BY <1>6 DEF Whole
    <2> QED BY <1>7, <2>1, ElementOfSeq, LenProperties
  <1>9. \A i \in 1..f.count : /\ f.records[i].line \in Nat /\ f.records[i].hands \in Nat
                              /\ f.records[i].offset \in Nat
    BY <1>8 DEF IndexRecord
  <1>10. \A i \in 1..f.count : RecordFailures(f, d, i) = {}
    BY <1>4, <1>6 DEF IndexFailures
  <1>11. KnownSchemas = disk.schemas /\ \A s \in disk.schemas : s.count \in 1..MaxActions
    BY NoFailuresInParts, NoCatalogFailures
  <1>12. IsBin(b)
    BY <1>1 DEF DiskTypes
  <1> HIDE DEF f, b
  <1>13. /\ Dense(f)
         /\ \A i \in 1..f.count : /\ ~(f.records[i].hands > HandCount)
                                   /\ \E s \in KnownSchemas : s.id = f.records[i].schema
    BY <1>7, <1>9, <1>10, NoRecordFailures
  <1>14. Opens(d)
    BY <1>5, <1>6, <1>13 DEF Opens, IdxOpens, BinOpens, Whole, f, b
  <1>15. ASSUME NEW i \in 1..f.count
         PROVE  SoundRecord(b, f.records[i], checksums)
    <2>1. i \in PackRecords(e)
      BY <1>2, <1>6 DEF PackRecords, f
    <2>2. PackFailures(d, i, checksums) = {}
      BY <2>1, NoFailuresInParts
    <2>3. f.records[i].hands \in 0..HandCount
      BY <1>9, <1>13, PackAssumption
    <2> HIDE DEF d
    <2> QED BY <1>5, <1>9, <1>11, <1>12, <1>13, <2>2, <2>3, NoPackFailures DEF f, b
  <1> QED BY <1>3, <1>14, <1>15 DEF f, b

-----------------------------------------------------------------------------
(* Reports                                                                 *)

\* The rows of a source can be counted, edited or not.
SourceTypes == DOMAIN source = Dim /\ \A d \in Dim : IsSeq(source[d])

LEMMA NothingKept ==
  ASSUME NEW F, IsFailures(F)
  PROVE  /\ Kept(F) \subseteq F
         /\ IsFailures(Kept(F))
         /\ Kept(F) = {} => F = {}
  BY FirstAreOfList, VerifyAssumption DEF Kept

LEMMA StandalonePasses ==
  ASSUME DiskTypes, NEW checksums, StandaloneReport(checksums).failures = {}
  PROVE  StandaloneFailures(checksums) = {}
  <1>1. StandaloneReport(checksums).failures = Kept(StandaloneFailures(checksums))
    BY DEF StandaloneReport, Report
  <1> QED BY <1>1, NothingKept, StandaloneFailuresAre

\* The failures of the dimensions of the source.
CrossFailures(c, sample) == UNION {CrossDimension(d, sample[d], c).failures : d \in CrossDims}

\* The parts of the report of the cross check that the verdict depends on.
LEMMA CrossReportParts ==
  ASSUME NEW c, NEW sample
  PROVE  LET both == Report(StandaloneReport(c.checksums).details,
                            StandaloneReport(c.checksums).failures
                            \cup FirstOf(CrossFailures(c, sample), c.maxFailures))
             r == CrossReport(c, sample)
         IN /\ r.outcome = "report"
            /\ r.failures = both.failures
            /\ r.totals.manifestOk = both.totals.manifestOk
            /\ r.totals.catalogOk = both.totals.catalogOk
            /\ r.totals.indexFailed = both.totals.indexFailed
            /\ r.totals.packFailed = both.totals.packFailed
            /\ r.totals.crossFailures = both.totals.crossFailures
  <1> DEFINE cross == [d \in CrossDims |-> CrossDimension(d, sample[d], c)]
             both == Report(StandaloneReport(c.checksums).details,
                            StandaloneReport(c.checksums).failures
                            \cup FirstOf(CrossFailures(c, sample), c.maxFailures))
             x == MapThenSumSet(LAMBDA d : cross[d].checked, CrossDims)
             y == MapThenSumSet(LAMBDA d : cross[d].failed, CrossDims)
             z == MapThenSumSet(LAMBDA d : cross[d].extra, CrossDims)
             r == [both EXCEPT !.totals.checked = x, !.totals.failed = y, !.totals.extra = z]
  <1>1. CrossFailures(c, sample) = UNION {cross[d].failures : d \in CrossDims}
    BY DEF CrossFailures
  <1>2. CrossReport(c, sample) = r
    BY <1>1 DEF CrossReport
  <1>3. /\ DOMAIN both = {"outcome", "details", "totals", "failures"}
        /\ both.outcome = "report"
    BY DEF Report
  <1>4. DOMAIN both.totals = {"manifestOk", "catalogOk", "indexFailed", "packFailed",
                              "crossFailures", "checked", "failed", "extra"}
    BY DEF Report, Totals
  <1> HIDE DEF both, x, y, z
  <1>5. /\ r.outcome = "report" /\ r.failures = both.failures
        /\ r.totals = [both.totals EXCEPT !.checked = x, !.failed = y, !.extra = z]
    BY <1>3
  <1> HIDE DEF r
  <1>6. /\ r.totals.manifestOk = both.totals.manifestOk
        /\ r.totals.catalogOk = both.totals.catalogOk
        /\ r.totals.indexFailed = both.totals.indexFailed
        /\ r.totals.packFailed = both.totals.packFailed
        /\ r.totals.crossFailures = both.totals.crossFailures
    BY <1>4, <1>5
  <1> QED BY <1>2, <1>5, <1>6 DEF both

LEMMA DimsAreFinite ==
  /\ IsFiniteSet(Dim)
  /\ CrossDims \subseteq Dim /\ IsFiniteSet(CrossDims)
  <1>1. DOMAIN Dims = 1..Len(Dims) /\ Len(Dims) \in Nat
    BY FilesAssumption, LenProperties
  <1>2. IsFiniteSet(1..Len(Dims))
    BY <1>1, FS_Interval
  <1>3. IsFiniteSet({Dims[i] : i \in 1..Len(Dims)})
    BY <1>1, <1>2, ImageIsFinite
  <1>4. IsFiniteSet(Dim)
    BY <1>1, <1>3 DEF Dim, ToSet
  <1>5. CrossDims \in SUBSET Dim
    BY DEF CrossDims
  <1> QED BY <1>4, <1>5, FS_Subset

\* The rows that are sampled are rows of the source, all of them if no sample
\* was asked for.
LEMMA SampledRows ==
  ASSUME SourceTypes, NEW c, NEW sample \in Samples(c), NEW d \in CrossDims
  PROVE  /\ sample[d] \subseteq DOMAIN source[d]
         /\ IsFiniteSet(sample[d])
         /\ c.sample = 0 => sample[d] = DOMAIN source[d]
  <1>1. d \in Dim
    BY DimsAreFinite
  <1>2. Len(source[d]) \in Nat /\ DOMAIN source[d] = 1..Len(source[d])
    BY <1>1, LenProperties DEF SourceTypes, IsSeq
  <1>3. IsFiniteSet(DOMAIN source[d]) /\ Cardinality(DOMAIN source[d]) = Len(source[d])
    BY <1>2, FS_Interval
  <1>4. sample[d] \in kSubset(Quota(d, c), DOMAIN source[d])
    BY DEF Samples
  <1>5. sample[d] \subseteq DOMAIN source[d] /\ Cardinality(sample[d]) = Quota(d, c)
    BY <1>4 DEF kSubset
  <1>6. IsFiniteSet(sample[d])
    BY <1>3, <1>5, FS_Subset
  <1>7. ASSUME c.sample = 0
        PROVE  sample[d] = DOMAIN source[d]
    <2>1. Quota(d, c) = Len(source[d])
      BY <1>7 DEF Quota
    <2> QED BY <1>3, <1>5, <2>1, FS_Subset
  <1> QED BY <1>5, <1>6, <1>7

\* What the cross check finds is a list.
LEMMA CrossFailuresAre ==
  ASSUME SourceTypes, NEW c, NEW sample \in Samples(c)
  PROVE  IsFailures(CrossFailures(c, sample))
  <1> DEFINE f == [d \in CrossDims |-> CrossDimension(d, sample[d], c).failures]
  <1>1. ASSUME NEW d \in CrossDims
        PROVE  IsFailures(f[d])
    <2> DEFINE Places == sample[d]
               T == source[d]
               Lines == {T[i].line : i \in Places}
               Lost == {line \in Lines : GroupFailure(d, line, c.checksums) # ""}
               Reason(i) == RowFailure(Decoded(d, T[i].line), T[i])
               Bad == {i \in Places : T[i].line \notin Lost /\ Reason(i) # ""}
               Groups == {i \in {i \in Places : T[i].line \in Lost} :
                            \/ ~Finds(disk.idx[d], T[i].line)
                            \/ i = Max({j \in Places : T[j].line = T[i].line})}
               g == [i \in Groups |-> Failing("source", d, i, GroupFailure(d, T[i].line, c.checksums))]
               b == [i \in Bad |-> Failing("source", d, i, Reason(i))]
    <2>1. CASE ~Opens(d)
      <3>1. f[d] = {Failing("source", d, 0, "IO_ERROR")}
        BY <2>1 DEF CrossDimension
      <3> QED BY <3>1, OneFailure DEF LayerNames
    <2>2. CASE Opens(d)
      <3>1. f[d] = {g[i] : i \in Groups} \cup {b[i] : i \in Bad}
        BY <2>2 DEF CrossDimension
      <3>2. Groups \in SUBSET Places /\ Bad \in SUBSET Places
        OBVIOUS
      <3>3. /\ \A i \in Groups : g[i].layer \in LayerNames
            /\ \A i \in Bad : b[i].layer \in LayerNames
        BY DEF Failing, LayerNames
      <3>4. DOMAIN g = Groups /\ DOMAIN b = Bad
        OBVIOUS
      <3> HIDE DEF Groups, Bad, g, b
      <3>5. IsFiniteSet(Groups) /\ IsFiniteSet(Bad)
        BY <3>2, SampledRows, FS_Subset
      <3>6. IsFailures({g[i] : i \in Groups}) /\ IsFailures({b[i] : i \in Bad})
        BY <3>3, <3>4, <3>5, FailureOfEach
      <3> QED BY <3>1, <3>6, JoinedFailures
    <2> QED BY <2>1, <2>2
  <1>2. CrossFailures(c, sample) = UNION {f[d] : d \in CrossDims} /\ DOMAIN f = CrossDims
    BY DEF CrossFailures
  <1> HIDE DEF f
  <1> QED BY <1>1, <1>2, DimsAreFinite, FailuresOfEach

\* The failures that the report of the cross check is made from.
LEMMA CrossReportFailures ==
  ASSUME DiskTypes, SourceTypes, NEW c \in Commands, NEW sample \in Samples(c)
  PROVE  LET kept == StandaloneReport(c.checksums).failures
             F == kept \cup FirstOf(CrossFailures(c, sample), c.maxFailures)
         IN /\ IsFailures(F)
            /\ kept \subseteq StandaloneFailures(c.checksums)
            /\ CrossReport(c, sample).failures = Kept(F)
            /\ CrossReport(c, sample).failures = {} =>
                 kept = {} /\ CrossFailures(c, sample) = {}
  <1> DEFINE kept == StandaloneReport(c.checksums).failures
             first == FirstOf(CrossFailures(c, sample), c.maxFailures)
             F == kept \cup first
  <1>1. kept = Kept(StandaloneFailures(c.checksums))
    BY DEF StandaloneReport, Report
  <1>2. IsFailures(kept) /\ kept \subseteq StandaloneFailures(c.checksums)
    BY <1>1, StandaloneFailuresAre, NothingKept
  <1>3. IsFailures(first) /\ (first = {} => CrossFailures(c, sample) = {})
    BY CrossFailuresAre, FirstAreOfList, VerifyAssumption
  <1>4. IsFailures(F)
    BY <1>2, <1>3, JoinedFailures
  <1>5. CrossReport(c, sample).failures = Kept(F)
    BY CrossReportParts DEF Report
  <1>6. Kept(F) = {} => F = {}
    BY <1>4, NothingKept
  <1> QED BY <1>2, <1>3, <1>4, <1>5, <1>6

\* Where the failures of the standalone check are, when there is a manifest.
LEMMA FailurePlaces ==
  ASSUME NEW checksums, ManifestFailures = {}, NEW f \in StandaloneFailures(checksums)
  PROVE  \/ f.layer = "catalog" \/ f.dim = "meta.db" \/ f.layer = "cross"
         \/ f.layer \in {"file", "index", "pack"} /\ \E e \in Successful : f.dim = e.dim
  <1> DEFINE U == UNION {IndexFailures(e.dim) : e \in {e \in Successful : e.idxFile}}
             V == UNION {PackHeaderFailures(e.dim) : e \in {e \in Successful : e.binFile}}
             P(e) == UNION {PackFailures(e.dim, i, checksums) : i \in PackRecords(e)}
             W == UNION {P(e) : e \in Successful}
  <1>1. f \in MissingFiles \cup CatalogFailures \cup U \cup V \cup W
    BY DEF StandaloneFailures
  <1> HIDE DEF U, V, W
  <1>2. CASE f \in MissingFiles
    BY <1>2 DEF MissingFiles, When, Failing
  <1>3. CASE f \in CatalogFailures
    <2>1. ASSUME NEW s, f \in SchemaFailures(s)
          PROVE  f.layer = "catalog"
      BY <2>1 DEF SchemaFailures, When, Failing
    <2> DEFINE E == UNION {SchemaFailures(s) : s \in KnownSchemas}
               Info == {"built_at", "source_checksum"}
               R == {Failing("catalog", Global, 0, row) :
                       row \in IF HasTable("build_info") THEN Info \ disk.info ELSE {}}
               L == {Failing("catalog", Global, 0, "NO_LINES") :
                       e \in {e \in Successful : e.dim \notin disk.lines}}
               X == {Failing("catalog", Global, 0, "MISSING_INDEX") :
                       e \in {e \in Successful : e.dim \in disk.lines \ disk.indexed}}
    <2>2. f \in E => \E s : f \in SchemaFailures(s)
      OBVIOUS
    <2>3. f \in R \cup L \cup X => f.layer = "catalog"
      BY DEF Failing
    <2>4. \/ f \in {Failing("catalog", Global, 0, "IO_ERROR")}
          \/ f \in When(~HasTable("build_info"), Failing("catalog", Global, 0, "NO_BUILD_INFO"))
          \/ f \in R
          \/ f \in When(~HasTable("action_schemas"), Failing("catalog", Global, 0, "NO_SCHEMAS"))
          \/ f \in When(HasTable("action_schemas") /\ disk.schemas = {},
                        Failing("catalog", Global, 0, "EMPTY"))
          \/ f \in E
          \/ f \in When(Successful # {} /\ ~HasTable("drill"),
                        Failing("catalog", Global, 0, "NO_DRILL_TABLE"))
          \/ f \in L \/ f \in X
      <3> HIDE DEF E
      <3> QED BY <1>3 DEF CatalogFailures, E
    <2> HIDE DEF E, R, L, X
    <2> QED BY <2>1, <2>2, <2>3, <2>4 DEF When, Failing
  <1>4. CASE f \in U
    <2>1. PICK e \in Successful : f \in IndexFailures(e.dim)
      BY <1>4 DEF U
    <2>2. ASSUME NEW g, NEW i, f \in RecordFailures(g, e.dim, i)
          PROVE  f.layer = "index" /\ f.dim = e.dim
      BY <2>2 DEF RecordFailures, OrderFailures, When, Failing
    <2>3. \/ f \in When(disk.idx[e.dim].header # "ok", Failing("index", e.dim, 0, disk.idx[e.dim].header))
          \/ f \in When(disk.idx[e.dim].header \notin {"missing", "short"} /\ ~Whole(disk.idx[e.dim]),
                        Failing("index", e.dim, 0, "TRUNCATED"))
          \/ \E i : f \in RecordFailures(disk.idx[e.dim], e.dim, i)
      BY <2>1 DEF IndexFailures
    <2>4. f.layer = "index" /\ f.dim = e.dim
      BY <2>2, <2>3 DEF When, Failing
    <2> QED BY <2>4
  <1>5. CASE f \in V
    <2>1. PICK e \in Successful : f \in PackHeaderFailures(e.dim)
      BY <1>5 DEF V
    <2>2. f.layer = "pack" /\ f.dim = e.dim
      BY <2>1 DEF PackHeaderFailures, When, Failing
    <2> QED BY <2>2
  <1>6. CASE f \in W
    <2>1. PICK e \in Successful : f \in P(e)
      BY <1>6 DEF W
    <2>2. PICK i \in PackRecords(e) : f \in PackFailures(e.dim, i, checksums)
      BY <2>1
    <2>3. ASSUME NEW pack, NEW hands, f \in HandFailures(pack, hands, e.dim, i)
          PROVE  f.layer = "cross"
      BY <2>3 DEF HandFailures, When, Failing
    <2>4. f.layer = "cross"
      <3> DEFINE b == disk.bin[e.dim]
                 r == disk.idx[e.dim].records[i]
                 Expected == {PackByteLength(r.hands, s.count) :
                                s \in {s \in KnownSchemas : s.id = r.schema}}
                 A == When(r.offset < PfspHeaderSize, Failing("cross", e.dim, i, "INVALID_OFFSET"))
                 B == {Failing("cross", e.dim, i, "OUT_OF_BOUNDS")}
                 C == When(\E n \in Expected : n # r.length,
                           Failing("cross", e.dim, i, "PACK_SIZE_MISMATCH"))
                 D == When(checksums /\ PackBytes(b, r) # r.checksum,
                           Failing("cross", e.dim, i, "CHECKSUM_MISMATCH"))
                 H == HandFailures(PackBytes(b, r), r.hands, e.dim, i)
      <3>1. PackFailures(e.dim, i, checksums)
              = A \cup IF r.offset + r.length > BinLength(b) THEN B ELSE C \cup D \cup H
        BY Zenon DEF PackFailures
      <3>2. f \in H => f.layer = "cross"
        BY <2>3
      <3>3. f \in A \/ f \in B \/ f \in C \/ f \in D => f.layer = "cross"
        <4> HIDE DEF Expected, r, b
        <4> QED BY DEF When, Failing
      <3> HIDE DEF A, B, C, D, H
      <3> QED BY <2>2, <3>1, <3>2, <3>3
    <2> QED BY <2>4
  <1> QED BY <1>1, <1>2, <1>3, <1>4, <1>5, <1>6

LEMMA NonEmptyCount ==
  ASSUME NEW S, IsFiniteSet(S)
  PROVE  /\ Cardinality(S) \in Nat
         /\ S # {} => Cardinality(S) > 0
         /\ S = {} => Cardinality(S) = 0
  BY FS_CardinalityType, FS_EmptySet

\* A directory without failures has totals without failures.
LEMMA NoFailuresNoTotals ==
  ASSUME NEW details, details = <<>> \/ details = Details({})
  PROVE  ~HasFailures(Totals(details, {}))
  <1> DEFINE t == Totals(details, {})
  <1>1. t.manifestOk /\ t.catalogOk /\ t.failed = 0 /\ t.extra = 0
    BY DEF Totals
  <1>2. \A F : {f \in {} : F} = {}
    OBVIOUS
  <1>3. t.crossFailures = 0
    <2>1. {f \in {} : f.layer = "cross"} = {}
      OBVIOUS
    <2> QED BY <2>1, FS_EmptySet DEF Totals
  <1>4. t.indexFailed = 0
    <2>1. \A d \in DOMAIN details : ~(details[d].header + details[d].cross > 0)
      <3>1. CASE details = <<>>
        BY <3>1
      <3>2. CASE details = Details({})
        <4>1. ASSUME NEW d \in DOMAIN details
              PROVE  details[d].header = 0 /\ details[d].cross = 0
          <5>1. /\ {f \in {} : f.dim = d /\ f.layer \in {"file", "index", "pack"}} = {}
                /\ {f \in {} : f.dim = d /\ f.layer = "cross"} = {}
            OBVIOUS
          <5> QED BY <3>2, <5>1, FS_EmptySet DEF Details
        <4> QED BY <4>1
      <3> QED BY <3>1, <3>2
    <2>2. {d \in DOMAIN details : details[d].header + details[d].cross > 0} = {}
      BY <2>1
    <2> QED BY <2>2, FS_EmptySet DEF Totals
  <1>5. t.packFailed = 0
    <2>1. {d \in DOMAIN details : \E f \in {} : f.layer = "pack" /\ f.dim = d} = {}
      OBVIOUS
    <2> QED BY <2>1, FS_EmptySet DEF Totals
  <1> HIDE DEF t
  <1> QED BY <1>1, <1>3, <1>4, <1>5 DEF HasFailures, t

\* A failure that a report keeps shows in one of its totals, in the details if
\* it is that of a dimension.
LEMMA KeptFailureShows ==
  ASSUME DiskTypes, NEW checksums, ManifestFailures = {},
         NEW F, IsFailures(F), NEW f \in F, f \in StandaloneFailures(checksums)
  PROVE  LET t == Totals(Details(StandaloneFailures(checksums)), F)
         IN ~t.catalogOk \/ t.indexFailed > 0 \/ t.crossFailures > 0
  <1> DEFINE S == StandaloneFailures(checksums)
             details == Details(S)
             t == Totals(details, F)
  <1>1. CASE f.layer = "catalog" \/ f.dim = "meta.db"
    BY <1>1 DEF Totals
  <1>2. CASE f.layer = "cross"
    <2> DEFINE C == {g \in F : g.layer = "cross"}
    <2>1. IsFiniteSet(C) /\ C # {}
      BY <1>2, FS_Subset DEF IsFailures
    <2>2. t.crossFailures = Cardinality(C)
      BY DEF Totals
    <2> HIDE DEF C
    <2> QED BY <2>1, <2>2, NonEmptyCount
  <1>3. CASE f.layer \in {"file", "index", "pack"} /\ \E e \in Successful : f.dim = e.dim
    <2> DEFINE Ds == {e.dim : e \in Successful}
               H == {g \in S : g.dim = f.dim /\ g.layer \in {"file", "index", "pack"}}
               X == {g \in S : g.dim = f.dim /\ g.layer = "cross"}
               I == {d \in DOMAIN details : details[d].header + details[d].cross > 0}
    <2>1. f.dim \in Ds
      BY <1>3
    <2>2. IsFiniteSet(S)
      BY StandaloneFailuresAre DEF IsFailures
    <2>3. IsFiniteSet(H) /\ H # {} /\ IsFiniteSet(X)
      BY <1>3, <2>2, FS_Subset
    <2>4. DOMAIN details = Ds /\ details[f.dim].header = Cardinality(H)
          /\ details[f.dim].cross = Cardinality(X)
      BY <2>1 DEF Details
    <2>5. t.indexFailed = Cardinality(I)
      BY DEF Totals
    <2> HIDE DEF H, X, details, t, S
    <2>6. Cardinality(H) > 0 /\ Cardinality(H) \in Nat /\ Cardinality(X) \in Nat
      BY <2>3, NonEmptyCount
    <2>7. f.dim \in I
      BY <2>1, <2>4, <2>6
    <2>8. IsFiniteSet(Ds)
      <3> DEFINE g == [e \in Successful |-> e.dim]
      <3>1. DOMAIN g = Successful /\ Ds = {g[e] : e \in Successful}
        OBVIOUS
      <3> HIDE DEF g
      <3>2. IsFiniteSet({g[e] : e \in Successful})
        BY <3>1, EntriesAreFinite, ImageIsFinite
      <3> QED BY <3>1, <3>2
    <2>9. IsFiniteSet(I)
      <3>1. I \in SUBSET Ds
        BY <2>4
      <3> HIDE DEF I, Ds
      <3> QED BY <3>1, <2>8, FS_Subset
    <2> HIDE DEF I, Ds
    <2>10. t.indexFailed > 0
      BY <2>5, <2>7, <2>9, NonEmptyCount
    <2> QED BY <2>10 DEF t, details, S
  <1> QED BY <1>1, <1>2, <1>3, FailurePlaces

\* The cross check never says that a directory is sound which the standalone
\* check says is not.
LEMMA CrossIsNoBetter ==
  ASSUME DiskTypes, SourceTypes, NEW c \in Commands, NEW sample \in Samples(c),
         ManifestFailures = {}
  PROVE  LET standalone == StandaloneReport(c.checksums)
             r == CrossReport(c, sample)
         IN /\ standalone.failures # {} => r.failures # {}
            /\ HasFailures(standalone.totals) => HasFailures(r.totals)
  <1> DEFINE standalone == StandaloneReport(c.checksums)
             S == StandaloneFailures(c.checksums)
             kept == standalone.failures
             F == kept \cup FirstOf(CrossFailures(c, sample), c.maxFailures)
             r == CrossReport(c, sample)
  <1>1. /\ IsFailures(F) /\ kept \subseteq S
        /\ r.failures = {} => kept = {} /\ CrossFailures(c, sample) = {}
    BY CrossReportFailures
  <1>2. standalone.failures # {} => r.failures # {}
    BY <1>1
  <1>3. ASSUME HasFailures(standalone.totals)
        PROVE  HasFailures(r.totals)
    <2>1. /\ standalone.details = Details(S) /\ standalone.totals = Totals(Details(S), S)
          /\ kept = Kept(S)
      BY DEF StandaloneReport, Report
    <2>2. S # {}
      BY <1>3, <2>1, NoFailuresNoTotals
    <2>3. kept # {}
      BY <2>1, <2>2, StandaloneFailuresAre, NothingKept
    <2>4. PICK f \in kept : f \in S
      BY <1>1, <2>3
    <2> DEFINE t == Totals(Details(S), F)
    <2>5. ~t.catalogOk \/ t.indexFailed > 0 \/ t.crossFailures > 0
      BY <1>1, <2>4, KeptFailureShows
    <2>6. /\ r.totals.catalogOk = t.catalogOk
          /\ r.totals.indexFailed = t.indexFailed
          /\ r.totals.crossFailures = t.crossFailures
      BY <2>1, CrossReportParts DEF Report
    <2> HIDE DEF t, r
    <2> QED BY <2>5, <2>6 DEF HasFailures
  <1> QED BY <1>2, <1>3

-----------------------------------------------------------------------------
(* Searching for a hand                                                    *)

LEMMA SortedIsOrder ==
  ASSUME NEW pack, NEW hands \in Nat, Sorted(pack, hands),
         NEW k \in 1..hands, NEW n \in 1..hands, k < n
  PROVE  pack[k][1] < pack[n][1]
  <1> DEFINE Bad == {m \in 1..hands : k < m /\ ~(pack[k][1] < pack[m][1])}
  <1>1. SUFFICES ASSUME Bad # {} PROVE FALSE
    OBVIOUS
  <1>2. Bad \in SUBSET Nat
    OBVIOUS
  <1>3. PICK m \in Bad : \A j \in Bad : m <= j
    <2> HIDE DEF Bad
    <2> QED BY <1>1, <1>2, LeastNumber
  <1>4. m - 1 \in 1..hands /\ m - 1 \notin Bad /\ m > 1 /\ m \in 1..hands
    <2>1. m \in 1..hands /\ k < m
      OBVIOUS
    <2>2. m - 1 \in 1..hands /\ m > 1 /\ ~(m <= m - 1)
      BY <2>1
    <2> QED BY <2>1, <2>2, <1>3
  <1>5. pack[m - 1][1] < pack[m][1]
    BY <1>4 DEF Sorted
  <1>6. m - 1 = k \/ pack[k][1] < pack[m - 1][1]
    BY <1>4, <1>3
  <1>7. pack[k][1] \in Int /\ pack[m][1] \in Int /\ pack[m - 1][1] \in Int
    BY <1>4, PackAssumption DEF Sorted, HandId
  <1> QED BY <1>3, <1>5, <1>6, <1>7

\* The steps of a search that gives back what q says of the rest of it.
Probing(pack, hands, target, q) ==
  [range \in (0..hands) \X (0..hands) |->
     LET lo == range[1]
         hi == range[2]
         mid == (lo + hi) \div 2
         value == pack[mid + 1][1]
     IN IF lo >= hi THEN -1
        ELSE IF value < target THEN q[<<mid + 1, hi>>]
        ELSE IF value > target THEN q[<<lo, mid>>]
        ELSE mid]

LEMMA SearchIsProbing ==
  ASSUME NEW pack, NEW hands, NEW target
  PROVE  BinarySearch(pack, hands, target)
           = (CHOOSE q : q = Probing(pack, hands, target, q))[<<0, hands>>]
  BY DEF BinarySearch, Probing

\* The place of a hand among some of a pack, -1 if it is not there.
IsPlace(pack, target, lo, hi, r) ==
  \/ r = -1 /\ \A p \in lo..(hi - 1) : pack[p + 1][1] # target
  \/ r \in lo..(hi - 1) /\ pack[r + 1][1] = target

LEMMA PlaceIsUnique ==
  ASSUME NEW pack, NEW hands \in Nat, Sorted(pack, hands), NEW target,
         NEW lo \in 0..hands, NEW hi \in 0..hands, NEW r, NEW s,
         IsPlace(pack, target, lo, hi, r), IsPlace(pack, target, lo, hi, s)
  PROVE  r = s
  <1>1. CASE r = -1 \/ s = -1
    BY <1>1 DEF IsPlace
  <1>2. CASE r # -1 /\ s # -1
    <2>1. /\ r \in lo..(hi - 1) /\ s \in lo..(hi - 1)
          /\ pack[r + 1][1] = target /\ pack[s + 1][1] = target
      BY <1>2 DEF IsPlace
    <2>2. r + 1 \in 1..hands /\ s + 1 \in 1..hands
      BY <2>1
    <2>3. target \in Int
      BY <2>1, <2>2, PackAssumption DEF Sorted, HandId
    <2>4. ~(r + 1 < s + 1) /\ ~(s + 1 < r + 1)
      BY <2>1, <2>2, <2>3, SortedIsOrder
    <2> QED BY <2>1, <2>2, <2>4
  <1> QED BY <1>1, <1>2

\* A step of the search is right if the rest of it is.
LEMMA ProbeIsPlace ==
  ASSUME NEW pack, NEW hands \in Nat, Sorted(pack, hands), NEW target \in Int, NEW q,
         NEW lo \in 0..hands, NEW hi \in 0..hands,
         \A l \in 0..hands, h \in 0..hands :
           h - l < hi - lo => IsPlace(pack, target, l, h, q[<<l, h>>])
  PROVE  IsPlace(pack, target, lo, hi, Probing(pack, hands, target, q)[<<lo, hi>>])
  <1>1. CASE lo >= hi
    <2>1. Probing(pack, hands, target, q)[<<lo, hi>>] = -1
      BY <1>1 DEF Probing
    <2> QED BY <1>1, <2>1 DEF IsPlace
  <1>2. CASE lo < hi
    <2> DEFINE mid == (lo + hi) \div 2
               value == pack[mid + 1][1]
    <2>1. mid \in lo..(hi - 1)
      BY <1>2
    <2>2. Probing(pack, hands, target, q)[<<lo, hi>>]
            = IF value < target THEN q[<<mid + 1, hi>>]
              ELSE IF value > target THEN q[<<lo, mid>>]
              ELSE mid
      BY <1>2 DEF Probing
    <2> HIDE DEF mid
    <2>3. mid + 1 \in 1..hands /\ mid + 1 \in 0..hands /\ mid \in 0..hands
      BY <2>1
    <2>4. value \in Int
      BY <2>3, PackAssumption DEF Sorted, HandId
    <2>5. hi - (mid + 1) < hi - lo /\ mid - lo < hi - lo
      BY <2>1
    <2>6. IsPlace(pack, target, mid + 1, hi, q[<<mid + 1, hi>>])
      BY <2>3, <2>5
    <2>7. IsPlace(pack, target, lo, mid, q[<<lo, mid>>])
      BY <2>3, <2>5
    <2>8. CASE value < target
      <3>1. ASSUME NEW p \in lo..mid
            PROVE  pack[p + 1][1] # target
        <4>1. p = mid \/ pack[p + 1][1] < value
          <5>1. p + 1 \in 1..hands
            BY <2>1
          <5> HIDE DEF value
          <5>2. p + 1 < mid + 1 => pack[p + 1][1] < value
            BY <5>1, <2>3, SortedIsOrder DEF value
          <5> QED BY <5>2, <2>1
        <4>2. pack[p + 1][1] \in Int
          <5>1. p + 1 \in 1..hands
            BY <2>1
          <5> QED BY <5>1, PackAssumption DEF Sorted, HandId
        <4> QED BY <4>1, <4>2, <2>4, <2>8
      <3> HIDE DEF value
      <3>2. Probing(pack, hands, target, q)[<<lo, hi>>] = q[<<mid + 1, hi>>]
        BY <2>2, <2>8
      <3>3. \A p \in lo..(hi - 1) : p \in lo..mid \/ p \in (mid + 1)..(hi - 1)
        BY <2>1
      <3>4. q[<<mid + 1, hi>>] \in (mid + 1)..(hi - 1) => q[<<mid + 1, hi>>] \in lo..(hi - 1)
        BY <2>1
      <3> QED BY <2>6, <3>1, <3>2, <3>3, <3>4 DEF IsPlace
    <2>9. CASE value > target
      <3>1. ASSUME NEW p \in mid..(hi - 1)
            PROVE  pack[p + 1][1] # target
        <4>1. p + 1 \in 1..hands
          BY <2>1
        <4>2. p = mid \/ value < pack[p + 1][1]
          <5> HIDE DEF value
          <5>2. mid + 1 < p + 1 => value < pack[p + 1][1]
            BY <4>1, <2>3, SortedIsOrder DEF value
          <5> QED BY <5>2, <2>1
        <4>3. pack[p + 1][1] \in Int
          BY <4>1, PackAssumption DEF Sorted, HandId
        <4> QED BY <4>2, <4>3, <2>4, <2>9
      <3> HIDE DEF value
      <3>2. Probing(pack, hands, target, q)[<<lo, hi>>] = q[<<lo, mid>>]
        BY <2>2, <2>9, <2>4
      <3>3. \A p \in lo..(hi - 1) : p \in mid..(hi - 1) \/ p \in lo..(mid - 1)
        BY <2>1
      <3>4. q[<<lo, mid>>] \in lo..(mid - 1) => q[<<lo, mid>>] \in lo..(hi - 1)
        BY <2>1
      <3> QED BY <2>7, <3>1, <3>2, <3>3, <3>4 DEF IsPlace
    <2>10. CASE ~(value < target) /\ ~(value > target)
      <3>1. value = target
        BY <2>4, <2>10
      <3>2. Probing(pack, hands, target, q)[<<lo, hi>>] = mid
        BY <2>2, <2>10
      <3> QED BY <2>1, <3>1, <3>2 DEF IsPlace
    <2> QED BY <2>8, <2>9, <2>10
  <1> QED BY <1>1, <1>2

\* binary_search_u8 finds a hand of a sorted pack, at its place, and no other.
LEMMA SearchFinds ==
  ASSUME NEW pack, NEW hands \in Nat, Sorted(pack, hands), NEW target \in Int
  PROVE  IsPlace(pack, target, 0, hands, BinarySearch(pack, hands, target))
  <1> DEFINE N == 0..hands
             Probed(q) == Probing(pack, hands, target, q)
             G == [z \in N \X N |-> CHOOSE r : IsPlace(pack, target, z[1], z[2], r)]
  <1>1. \A lo \in N, hi \in N : IsPlace(pack, target, lo, hi, G[<<lo, hi>>])
    <2> SUFFICES ASSUME NEW lo \in N, NEW hi \in N
                 PROVE  \E r : IsPlace(pack, target, lo, hi, r)
      OBVIOUS
    <2> QED BY DEF IsPlace
  <1>2. G = Probed(G)
    <2> HIDE DEF G
    <2>1. ASSUME NEW lo \in N, NEW hi \in N
          PROVE  Probed(G)[<<lo, hi>>] = G[<<lo, hi>>]
      <3>1. IsPlace(pack, target, lo, hi, Probed(G)[<<lo, hi>>])
        BY <1>1, ProbeIsPlace
      <3> HIDE DEF Probed
      <3> QED BY <1>1, <3>1, PlaceIsUnique
    <2>2. \A z \in N \X N : Probed(G)[z] = G[z]
      <3> HIDE DEF Probed
      <3> QED BY <2>1
    <2>3. Probed(G) = [z \in N \X N |-> Probed(G)[z]]
      BY DEF Probing
    <2>4. G = [z \in N \X N |-> G[z]]
      BY DEF G
    <2> HIDE DEF Probed
    <2> QED BY <2>2, <2>3, <2>4
  <1> DEFINE q == CHOOSE f : f = Probed(f)
  <1>3. q = Probed(q)
    <2> HIDE DEF G, Probed
    <2> QED BY <1>2
  <1>4. ASSUME NEW lo \in N, NEW hi \in N
        PROVE  IsPlace(pack, target, lo, hi, q[<<lo, hi>>])
    <2> HIDE DEF q
    <2> DEFINE Bad == {n \in Nat : \E l \in N, h \in N :
                         n = h - l + hands /\ ~IsPlace(pack, target, l, h, q[<<l, h>>])}
    <2>1. SUFFICES ASSUME Bad # {} PROVE FALSE
      <3>1. hi - lo + hands \in Nat
        OBVIOUS
      <3> QED BY <3>1
    <2>2. Bad \in SUBSET Nat
      OBVIOUS
    <2>3. PICK n \in Bad : \A m \in Bad : n <= m
      <3> HIDE DEF Bad
      <3> QED BY <2>1, <2>2, LeastNumber
    <2>4. PICK l \in N, h \in N : n = h - l + hands /\ ~IsPlace(pack, target, l, h, q[<<l, h>>])
      OBVIOUS
    <2>5. ASSUME NEW a \in N, NEW b \in N, b - a < h - l
          PROVE  IsPlace(pack, target, a, b, q[<<a, b>>])
      <3>1. b - a + hands \in Nat /\ ~(n <= b - a + hands)
        BY <2>4, <2>5
      <3> QED BY <2>3, <3>1
    <2>6. IsPlace(pack, target, l, h, Probed(q)[<<l, h>>])
      BY <2>5, ProbeIsPlace
    <2> QED BY <1>3, <2>4, <2>6
  <1>5. BinarySearch(pack, hands, target) = q[<<0, hands>>]
    BY SearchIsProbing
  <1>6. 0 \in N /\ hands \in N
    OBVIOUS
  <1> HIDE DEF q
  <1> QED BY <1>4, <1>5, <1>6

-----------------------------------------------------------------------------
(* The cells of a hand                                                     *)

LEMMA CellNumber ==
  ASSUME NEW n \in Nat \ {0}, NEW h \in Nat, NEW a \in 0..(n - 1)
  PROVE  (h * n + a) \div n = h /\ (h * n + a) % n = a
  <1> DEFINE m == h * n + a
             q == m \div n
             r == m % n
  <1>1. m \in Nat
    BY Z3
  <1>2. q \in Int /\ r \in 0..(n - 1) /\ m = n * q + r
    BY <1>1, Z3
  <1> HIDE DEF q, r
  <1>3. n * (h - q) = r - a
    BY <1>2, Z3
  <1>4. CASE h - q >= 1
    BY <1>2, <1>3, <1>4, Z3
  <1>5. CASE h - q <= -1
    BY <1>2, <1>3, <1>5, Z3
  <1>6. CASE h = q
    BY <1>2, <1>6, Z3 DEF q, r
  <1> QED BY <1>2, <1>4, <1>5, <1>6, Z3

LEMMA NumberIsOfCell ==
  ASSUME NEW hands \in Nat, NEW n \in Nat \ {0}, NEW m \in Nat, m < hands * n
  PROVE  m \div n \in 0..(hands - 1) /\ m % n \in 0..(n - 1) /\ m = (m \div n) * n + (m % n)
  <1> DEFINE q == m \div n
             r == m % n
  <1>1. hands * n \in Nat
    BY Z3
  <1>2. q \in Nat /\ r \in 0..(n - 1) /\ m = q * n + r
    BY Z3
  <1> HIDE DEF q, r
  <1>3. q < hands
    <2>1. SUFFICES ASSUME q >= hands PROVE FALSE
      BY <1>2
    <2>2. hands * n <= q * n
      BY <1>2, <2>1, MulMono
    <2>3. q * n \in Nat
      BY <1>2, Z3
    <2> QED BY <1>1, <1>2, <2>2, <2>3
  <1>4. q \in 0..(hands - 1) /\ r \in 0..(n - 1) /\ m = q * n + r
    BY <1>2, <1>3
  <1> QED BY <1>4, Zenon DEF q, r

LEMMA NumberOfCell ==
  ASSUME NEW hands \in Nat, NEW n \in Nat \ {0}, NEW k \in 1..(hands * n)
  PROVE  /\ (k - 1) \div n \in 0..(hands - 1) /\ (k - 1) % n \in 0..(n - 1)
         /\ k - 1 = ((k - 1) \div n) * n + ((k - 1) % n)
  <1>1. hands * n \in Nat
    BY Z3
  <1>2. k - 1 \in Nat /\ k - 1 < hands * n
    BY <1>1
  <1> QED BY <1>2, NumberIsOfCell, Zenon

LEMMA CellIsInside ==
  ASSUME NEW hands \in Nat, NEW n \in Nat \ {0}, NEW h \in 0..(hands - 1), NEW a \in 0..(n - 1)
  PROVE  h * n + a + 1 \in 1..(hands * n)
  <1>1. h + 1 <= hands /\ h \in Nat
    OBVIOUS
  <1>2. (h + 1) * n <= hands * n
    BY <1>1, MulMono
  <1>3. (h + 1) * n = h * n + n /\ h * n \in Nat /\ hands * n \in Nat
    BY <1>1, Z3
  <1> QED BY <1>2, <1>3

\* The cell of an action of the hand at a place.
CellOfPack(pack, hands, actions, h, a) ==
  CellAt(pack, hands + hands * 4 + h * actions * 8 + a * 8, a)
IsSet(pack, hands, h, a) == Bit(ReadWord(pack, hands + h * 4), a)

LEMMA DecodedCell ==
  ASSUME NEW pack, NEW hands \in Nat, NEW actions \in Nat \ {0}, NEW k \in 1..(hands * actions)
  PROVE  LET h == (k - 1) \div actions
             a == (k - 1) % actions
             c == DecodePack(pack, hands, actions)[k]
         IN /\ h \in 0..(hands - 1) /\ a \in 0..(actions - 1)
            /\ c.hand = pack[h + 1][1]
            /\ c.exists <=> IsSet(pack, hands, h, a)
            /\ c.cell = CellOfPack(pack, hands, actions, h, a)
  <1> DEFINE h == (k - 1) \div actions
             a == (k - 1) % actions
             c == DecodePack(pack, hands, actions)[k]
  <1>1. /\ h \in 0..(hands - 1) /\ a \in 0..(actions - 1)
        /\ k - 1 = h * actions + a
    BY NumberOfCell
  <1>2. c = [hand |-> pack[h + 1][1],
             exists |-> Bit(ReadWord(pack, hands + h * 4), a),
             cell |-> CellAt(pack, hands * 5 + (k - 1) * 8, a)]
    BY DEF DecodePack
  <1> HIDE DEF h, a, c
  <1>3. hands * 5 + (k - 1) * 8 = hands + hands * 4 + h * actions * 8 + a * 8
    <2>1. h * actions \in Nat
      BY <1>1, Z3
    <2> QED BY <1>1, <2>1
  <1>4. c.hand = pack[h + 1][1] /\ c.cell = CellOfPack(pack, hands, actions, h, a)
    BY <1>2, <1>3 DEF CellOfPack
  <1>5. c.exists = Bit(ReadWord(pack, hands + h * 4), a)
    BY <1>2
  <1>6. c.exists <=> IsSet(pack, hands, h, a)
    BY <1>5 DEF IsSet, Bit
  <1> QED BY <1>1, <1>4, <1>6 DEF h, a, c

LEMMA CellIsDecoded ==
  ASSUME NEW pack, NEW hands \in Nat, NEW actions \in Nat \ {0},
         NEW h \in 0..(hands - 1), NEW a \in 0..(actions - 1)
  PROVE  LET c == DecodePack(pack, hands, actions)[h * actions + a + 1]
         IN /\ h * actions + a + 1 \in 1..(hands * actions)
            /\ c.hand = pack[h + 1][1]
            /\ c.exists <=> IsSet(pack, hands, h, a)
            /\ c.cell = CellOfPack(pack, hands, actions, h, a)
  <1> DEFINE k == h * actions + a + 1
  <1>1. k \in 1..(hands * actions)
    BY CellIsInside
  <1>2. k - 1 = h * actions + a
    <2>1. h * actions \in Nat
      BY Z3
    <2> QED BY <2>1
  <1>3. (k - 1) \div actions = h /\ (k - 1) % actions = a
    <2>1. h \in Nat
      OBVIOUS
    <2> HIDE DEF k
    <2> QED BY <1>2, <2>1, CellNumber
  <1> HIDE DEF k
  <1>4. LET c == DecodePack(pack, hands, actions)[k]
        IN /\ c.hand = pack[h + 1][1]
           /\ c.exists <=> IsSet(pack, hands, h, a)
           /\ c.cell = CellOfPack(pack, hands, actions, h, a)
    BY <1>1, <1>3, DecodedCell
  <1> QED BY <1>1, <1>4 DEF k

\* decode_pack_for_hand finds the cells of a hand that decode_pack gives for
\* it, in a pack whose hands are in order.
LEMMA HandIsDecoded ==
  ASSUME NEW pack, NEW hands \in Nat, NEW actions \in Nat \ {0}, Sorted(pack, hands),
         Len(pack) = hands * (5 + actions * 8), NEW hand \in Int
  PROVE  DecodePackForHand(pack, hands, actions, hand)
           = {c.cell : c \in {c \in ToSet(DecodePack(pack, hands, actions)) :
                                c.exists /\ c.hand = hand}}
  <1> DEFINE place == BinarySearch(pack, hands, hand)
             all == DecodePack(pack, hands, actions)
             cells == DecodePackForHand(pack, hands, actions, hand)
             found == {c.cell : c \in {c \in ToSet(all) : c.exists /\ c.hand = hand}}
  <1>1. IsPlace(pack, hand, 0, hands, place)
    BY SearchFinds
  <1>2. DOMAIN all = 1..(hands * actions)
    BY DEF DecodePack
  <1>3. cells = IF place = -1 THEN {}
                ELSE {CellOfPack(pack, hands, actions, place, a) :
                        a \in {a \in 0..(actions - 1) : IsSet(pack, hands, place, a)}}
    BY DEF DecodePackForHand, CellOfPack, IsSet
  <1> HIDE DEF place, all, cells
  <1>4. ASSUME NEW x \in cells
        PROVE  x \in found
    <2>1. place # -1
      BY <1>3
    <2>2. PICK a \in 0..(actions - 1) : IsSet(pack, hands, place, a)
                                        /\ x = CellOfPack(pack, hands, actions, place, a)
      BY <1>3, <2>1
    <2>3. place \in 0..(hands - 1) /\ pack[place + 1][1] = hand
      BY <1>1, <2>1 DEF IsPlace
    <2> DEFINE k == place * actions + a + 1
               c == all[k]
    <2>4. /\ k \in 1..(hands * actions)
          /\ c.hand = hand /\ c.exists /\ c.cell = x
      <3> USE <2>3 DEF k
      <3>1. place \in 0..(hands - 1)
        BY <2>3
      <3> HIDE DEF c
      <3>2. /\ k \in 1..(hands * actions)
            /\ c.hand = pack[place + 1][1]
            /\ c.exists <=> IsSet(pack, hands, place, a)
            /\ c.cell = CellOfPack(pack, hands, actions, place, a)
        BY <3>1, CellIsDecoded, Zenon DEF all, c
      <3> HIDE DEF k
      <3> QED BY <2>2, <2>3, <3>2
    <2> HIDE DEF k
    <2>5. c \in ToSet(all)
      BY <1>2, <2>4 DEF ToSet
    <2> QED BY <2>4, <2>5
  <1>5. ASSUME NEW x \in found
        PROVE  x \in cells
    <2>1. PICK c \in ToSet(all) : c.exists /\ c.hand = hand /\ x = c.cell
      OBVIOUS
    <2>2. PICK k \in 1..(hands * actions) : c = all[k]
      BY <1>2, <2>1 DEF ToSet
    <2> DEFINE h == (k - 1) \div actions
               a == (k - 1) % actions
    <2>3. /\ h \in 0..(hands - 1) /\ a \in 0..(actions - 1)
          /\ pack[h + 1][1] = hand /\ IsSet(pack, hands, h, a)
          /\ x = CellOfPack(pack, hands, actions, h, a)
      BY <2>1, <2>2, DecodedCell DEF all
    <2> HIDE DEF h, a
    <2>4. IsPlace(pack, hand, 0, hands, h)
      BY <2>3 DEF IsPlace
    <2>5. 0 \in 0..hands /\ hands \in 0..hands
      OBVIOUS
    <2>6. h = place
      BY <1>1, <2>4, <2>5, PlaceIsUnique
    <2>7. place # -1
      BY <2>3, <2>6
    <2> QED BY <1>3, <2>3, <2>6, <2>7
  <1> QED BY <1>4, <1>5 DEF cells, all

-----------------------------------------------------------------------------
(* What the readers say of a sound store                                   *)

\* A record that no failure is about is read as its schema says.
LEMMA SoundRecordReads ==
  ASSUME NEW b, NEW r, NEW checksums, SoundRecord(b, r, checksums), r.hands # 0,
         NEW s \in disk.schemas, s.id = r.schema
  PROVE  /\ s.count \in 1..MaxActions /\ r.hands \in 1..HandCount
         /\ ActionCountFromPack(r.hands, r.length) = s.count
         /\ PackDecodes(PackBytes(b, r), r.hands, s.count)
         /\ PackReadable(b, r, FALSE)
         /\ checksums => PackReadable(b, r, TRUE)
  <1>1. /\ r.hands \in 1..HandCount /\ s.count \in 1..MaxActions
        /\ PackByteLength(r.hands, s.count) = r.length
        /\ Len(PackBytes(b, r)) = r.length
        /\ PackInBounds(b, r)
        /\ checksums => PackBytes(b, r) = r.checksum
    BY PackAssumption DEF SoundRecord
  <1>2. s.count \in 0..MaxActions /\ s.count <= MaxActions
    BY <1>1, PackAssumption
  <1>3. /\ PackByteLength(r.hands, s.count) = r.hands * (5 + s.count * 8)
        /\ ActionCountFromPack(r.hands, r.length) = s.count
    BY <1>1, <1>2, ActionCountIsKept
  <1>4. PackDecodes(PackBytes(b, r), r.hands, s.count)
    BY <1>1, <1>2, <1>3 DEF PackDecodes
  <1>5. /\ PackReadable(b, r, FALSE)
        /\ checksums => PackReadable(b, r, TRUE)
    BY <1>1, <1>2, <1>3 DEF PackReadable
  <1> QED BY <1>1, <1>3, <1>4, <1>5

\* An index that opens is read by the numbers of its lines.
LEMMA LinesOfIndex ==
  ASSUME NEW f, IsIdx(f), f.count <= Len(f.records)
  PROVE  /\ f.count \in Nat
         /\ \A i \in 1..f.count : f.records[i].line \in Nat
  <1>1. PICK H, A : f \in [header : H, count : Nat, records : Seq(IndexRecord(A))]
    BY DEF IsIdx
  <1>2. f.count \in Nat /\ f.records \in Seq(IndexRecord(A)) /\ Len(f.records) \in Nat
    BY <1>1, LenProperties
  <1>3. ASSUME NEW i \in 1..f.count
        PROVE  f.records[i].line \in Nat
    <2>1. i \in 1..Len(f.records)
      BY <1>2
    <2>2. f.records[i] \in IndexRecord(A)
      BY <1>2, <2>1, ElementOfSeq
    <2> QED BY <2>2 DEF IndexRecord
  <1> QED BY <1>2, <1>3

LEMMA RecordIsFound ==
  ASSUME NEW f, IsIdx(f), IdxOpens(f), NEW i \in 1..f.count
  PROVE  Finds(f, f.records[i].line) /\ Found(f, f.records[i].line) = f.records[i]
  <1>1. f.count \in Nat /\ \A k \in 1..f.count : f.records[k].line \in Nat
    BY LinesOfIndex DEF IdxOpens
  <1>2. f.records[i].line = f.records[1].line + (i - 1)
    BY DEF IdxOpens, Dense
  <1>3. 1 \in 1..f.count /\ f.count > 0
    BY <1>1
  <1>4. RecordNumber(f, f.records[i].line) = i
    BY <1>1, <1>2, <1>3 DEF RecordNumber
  <1> QED BY <1>3, <1>4 DEF Finds, Found

\* The same of a line that is searched for.
LEMMA FindingIsSearching ==
  ASSUME DiskTypes
  PROVE  FindIsSearch
  <1> SUFFICES ASSUME NEW d \in Dim, IdxOpens(disk.idx[d]),
                      NEW line \in {disk.idx[d].records[i].line : i \in 1..disk.idx[d].count}
                           \cup {n + 1 : n \in {disk.idx[d].records[i].line : i \in 1..disk.idx[d].count}}
                           \cup {0}
               PROVE  Finds(disk.idx[d], line)
                      <=> line \in {disk.idx[d].records[i].line : i \in 1..disk.idx[d].count}
    BY DEF FindIsSearch
  <1> DEFINE f == disk.idx[d]
  <1>1. IsIdx(f) /\ IdxOpens(f)
    BY DEF DiskTypes
  <1> HIDE DEF f
  <1>2. f.count \in Nat /\ \A k \in 1..f.count : f.records[k].line \in Nat
    BY <1>1, LinesOfIndex DEF IdxOpens
  <1>3. line \in Nat
    BY <1>2 DEF f
  <1>4. Finds(f, line) <=> \E i \in 1..f.count : f.records[i].line = line
    BY <1>1, <1>2, <1>3, DenseFindIsSearch
  <1> QED BY <1>4 DEF f

-----------------------------------------------------------------------------
(* The three decoders                                                      *)

\* What DecodersAgree says of one record.
DecodersAgreeOn(f, b, i) ==
  LET line == f.records[i].line
      hands == [k \in 1..HandCount |-> k - 1]
      all == QueryAll(f, b, line, FALSE)
      many == QueryManyHands(f, b, line, hands, FALSE)
  IN /\ all.outcome = many.outcome
     /\ \A k \in 1..f.records[i].hands : PackBytes(b, f.records[i])[k][1] \in HandId
     /\ all.outcome = "found" => \A h \in HandId :
          /\ many.hands[h + 1] = QueryHand(f, b, line, h, FALSE).cells
          /\ many.hands[h + 1] = {c[2] : c \in {c \in all.cells : c[1] = h}}

LEMMA SoundRecordAgrees ==
  ASSUME NEW f, NEW b, NEW i \in 1..f.count, NEW checksums,
         IsIdx(f), IdxOpens(f), SoundRecord(b, f.records[i], checksums),
         f.records[i].hands # 0
  PROVE  DecodersAgreeOn(f, b, i)
  <1> DEFINE r == f.records[i]
             line == r.line
             hands == [k \in 1..HandCount |-> k - 1]
             all == QueryAll(f, b, line, FALSE)
             many == QueryManyHands(f, b, line, hands, FALSE)
             pack == PackBytes(b, r)
  <1>1. Finds(f, line) /\ Found(f, line) = r
    BY RecordIsFound
  <1>2. PICK s \in disk.schemas : s.id = r.schema
    BY DEF SoundRecord
  <1> DEFINE n == s.count
  <1>3. /\ n \in 1..MaxActions /\ r.hands \in 1..HandCount
        /\ ActionCountFromPack(r.hands, r.length) = n
        /\ PackDecodes(pack, r.hands, n)
        /\ PackReadable(b, r, FALSE)
    BY <1>2, SoundRecordReads
  <1>4. Sorted(pack, r.hands)
    BY DEF SoundRecord
  <1> DEFINE decoded == ToSet(DecodePack(pack, r.hands, n))
  <1>5. all = [outcome |-> "found", schema |-> r.schema,
               cells |-> {<<c.hand, c.cell>> : c \in {c \in decoded : c.exists}}]
    BY <1>1, <1>3 DEF QueryAll
  <1>6. many = [outcome |-> "found", schema |-> r.schema,
                hands |-> [k \in DOMAIN hands |->
                             DecodePackForHand(pack, r.hands, n, hands[k])]]
    BY <1>1, <1>3 DEF QueryManyHands
  <1>7. ASSUME NEW h \in HandId
        PROVE  /\ many.hands[h + 1] = QueryHand(f, b, line, h, FALSE).cells
               /\ many.hands[h + 1] = {c[2] : c \in {c \in all.cells : c[1] = h}}
    <2> DEFINE cells == DecodePackForHand(pack, r.hands, n, h)
    <2>1. h \in Int /\ h + 1 \in 1..HandCount /\ (h + 1) - 1 = h
      BY PackAssumption DEF HandId
    <2>2. many.hands[h + 1] = cells
      <3>1. hands[h + 1] = h /\ h + 1 \in DOMAIN hands
        BY <2>1
      <3> HIDE DEF hands, many, pack, r, n
      <3> QED BY <1>6, <3>1
    <2>3. QueryHand(f, b, line, h, FALSE).cells = cells
      <3>1. QueryHand(f, b, line, h, FALSE)
              = IF cells = {} THEN NotFound
                ELSE [outcome |-> "found", schema |-> r.schema, cells |-> cells]
        BY <1>1, <1>3 DEF QueryHand
      <3> HIDE DEF cells
      <3>2. CASE cells = {}
        <4>1. QueryHand(f, b, line, h, FALSE) = NotFound
          BY <3>1, <3>2, Zenon
        <4>2. NotFound.cells = {}
          BY DEF NotFound
        <4> QED BY <3>2, <4>1, <4>2, Zenon
      <3>3. CASE cells # {}
        <4> DEFINE answer == [outcome |-> "found", schema |-> r.schema, cells |-> cells]
        <4>1. QueryHand(f, b, line, h, FALSE) = answer
          BY <3>1, <3>3, Zenon
        <4>2. answer.cells = cells
          OBVIOUS
        <4> HIDE DEF answer
        <4> QED BY <4>1, <4>2, Zenon
      <3> QED BY <3>2, <3>3
    <2>4. cells = {c.cell : c \in {c \in decoded : c.exists /\ c.hand = h}}
      <3>1. r.hands \in Nat /\ n \in Nat \ {0} /\ Len(pack) = r.hands * (5 + n * 8)
        BY <1>3, PackAssumption DEF PackDecodes
      <3> DEFINE H == r.hands
      <3>2. H \in Nat /\ Sorted(pack, H) /\ Len(pack) = H * (5 + n * 8)
        BY <1>4, <3>1
      <3> HIDE DEF pack, r, n, H
      <3>3. DecodePackForHand(pack, H, n, h)
              = {c.cell : c \in {c \in ToSet(DecodePack(pack, H, n)) : c.exists /\ c.hand = h}}
        BY <2>1, <3>1, <3>2, HandIsDecoded
      <3> QED BY <3>3, Zenon DEF decoded, H
    <2>5. {c[2] : c \in {c \in all.cells : c[1] = h}}
            = {c.cell : c \in {c \in decoded : c.exists /\ c.hand = h}}
      <3> HIDE DEF all, decoded
      <3>1. all.cells = {<<c.hand, c.cell>> : c \in {c \in decoded : c.exists}}
        BY <1>5
      <3> DEFINE A == {c[2] : c \in {c \in all.cells : c[1] = h}}
                 D == {c.cell : c \in {c \in decoded : c.exists /\ c.hand = h}}
      <3>2. ASSUME NEW x \in A
            PROVE  x \in D
        <4>1. PICK c \in all.cells : c[1] = h /\ x = c[2]
          OBVIOUS
        <4>2. PICK e \in decoded : e.exists /\ c = <<e.hand, e.cell>>
          BY <3>1, <4>1
        <4> QED BY <4>1, <4>2
      <3>3. ASSUME NEW x \in D
            PROVE  x \in A
        <4>1. PICK e \in decoded : e.exists /\ e.hand = h /\ x = e.cell
          OBVIOUS
        <4>2. <<e.hand, e.cell>> \in all.cells
          BY <3>1, <4>1
        <4> QED BY <4>1, <4>2
      <3> QED BY <3>2, <3>3
    <2> HIDE DEF many, cells, all, decoded
    <2> QED BY <2>2, <2>3, <2>4, <2>5
  <1>8. all.outcome = many.outcome
    <2> HIDE DEF all, many
    <2> QED BY <1>5, <1>6
  <1>9. \A k \in 1..r.hands : pack[k][1] \in HandId
    BY <1>4 DEF Sorted
  <1> HIDE DEF all, many, pack, r
  <1> QED BY <1>7, <1>8, <1>9, Zenon DEF DecodersAgreeOn, all, many, pack, r

\* What DecodersAgree says of a directory without failures.
DecodersAgreeInStore ==
  \A e \in Successful : \A i \in 1..disk.idx[e.dim].count :
    disk.idx[e.dim].records[i].hands # 0
      => DecodersAgreeOn(disk.idx[e.dim], disk.bin[e.dim], i)

LEMMA SoundStoreAgrees ==
  ASSUME DiskTypes, NEW checksums, SoundStore(checksums)
  PROVE  DecodersAgreeInStore
  <1> SUFFICES ASSUME NEW e \in Successful, NEW i \in 1..disk.idx[e.dim].count,
                      disk.idx[e.dim].records[i].hands # 0
               PROVE  DecodersAgreeOn(disk.idx[e.dim], disk.bin[e.dim], i)
    BY DEF DecodersAgreeInStore
  <1>1. e.dim \in Dim
    BY EntriesAreFinite DEF Entry
  <1>2. IsIdx(disk.idx[e.dim]) /\ IdxOpens(disk.idx[e.dim])
    BY <1>1 DEF DiskTypes, SoundStore, Opens
  <1>3. SoundRecord(disk.bin[e.dim], disk.idx[e.dim].records[i], checksums)
    BY DEF SoundStore
  <1> QED BY <1>2, <1>3, SoundRecordAgrees

-----------------------------------------------------------------------------
(* A sound store is served                                                 *)

ServableStore ==
  \A e \in Successful :
    /\ e.idxFile /\ e.binFile /\ Opens(e.dim)
    /\ \A i \in 1..disk.idx[e.dim].count :
         disk.idx[e.dim].records[i].hands # 0 => Readable(disk.idx[e.dim], disk.bin[e.dim], i)

LEMMA SoundStoreIsServable ==
  ASSUME NEW checksums, checksums, SoundStore(checksums)
  PROVE  ServableStore
  <1> SUFFICES ASSUME NEW e \in Successful, NEW i \in 1..disk.idx[e.dim].count,
                      disk.idx[e.dim].records[i].hands # 0
               PROVE  Readable(disk.idx[e.dim], disk.bin[e.dim], i)
    BY DEF SoundStore, ServableStore
  <1> DEFINE r == disk.idx[e.dim].records[i]
             b == disk.bin[e.dim]
  <1>1. SoundRecord(b, r, checksums)
    BY DEF SoundStore
  <1>2. PICK s \in disk.schemas : s.id = r.schema
    BY <1>1 DEF SoundRecord
  <1>3. ActionCountFromPack(r.hands, r.length) = s.count /\ PackReadable(b, r, TRUE)
    BY <1>1, <1>2, SoundRecordReads
  <1> QED BY <1>2, <1>3 DEF Readable

-----------------------------------------------------------------------------
(* The rows of the source                                                  *)

LEMMA GreatestNumber ==
  ASSUME NEW n \in Nat, NEW S \in SUBSET 1..n, S # {}
  PROVE  Max(S) \in S /\ \A y \in S : y <= Max(S)
  <1> DEFINE T == {n - x : x \in S}
  <1>1. T \in SUBSET Nat /\ T # {}
    <2>1. ASSUME NEW x \in S PROVE n - x \in Nat
      BY <2>1
    <2> QED BY <2>1
  <1>2. Min(T) \in T /\ \A y \in T : Min(T) <= y
    BY <1>1, LeastNumber
  <1>3. PICK x \in S : Min(T) = n - x
    BY <1>2
  <1>4. \A y \in S : x >= y
    <2>1. TAKE y \in S
    <2>2. n - y \in T
      OBVIOUS
    <2>3. n - x <= n - y
      BY <1>2, <1>3, <2>2
    <2>4. x \in Int /\ y \in Int
      OBVIOUS
    <2> QED BY <2>3, <2>4
  <1>5. Max(S) \in S /\ \A y \in S : Max(S) >= y
    BY <1>4, Zenon DEF Max
  <1>6. \A y, z \in S : y \in Int /\ z \in Int
    OBVIOUS
  <1> QED BY <1>5, <1>6

\* A dimension whose rows all pass has an index, finds every line of them and
\* fails no row (verify_dimension_rows).
LEMMA NoCrossFailures ==
  ASSUME NEW d, NEW c, IsSeq(source[d]),
         CrossDimension(d, DOMAIN source[d], c).failures = {}
  PROVE  /\ Opens(d)
         /\ \A i \in DOMAIN source[d] :
              /\ GroupFailure(d, source[d][i].line, c.checksums) = ""
              /\ RowFailure(Decoded(d, source[d][i].line), source[d][i]) = ""
  <1> DEFINE T == source[d]
             Places == DOMAIN T
             Lines == {T[i].line : i \in Places}
             At(line) == {i \in Places : T[i].line = line}
             Lost == {line \in Lines : GroupFailure(d, line, c.checksums) # ""}
             Reason(i) == RowFailure(Decoded(d, T[i].line), T[i])
             Bad == {i \in Places : T[i].line \notin Lost /\ Reason(i) # ""}
             Unplaced == {i \in Places : T[i].line \in Lost}
             LostOnes == {Failing("source", d, i, GroupFailure(d, T[i].line, c.checksums)) :
                            i \in {i \in Unplaced : \/ ~Finds(disk.idx[d], T[i].line)
                                                    \/ i = Max(At(T[i].line))}}
             BadOnes == {Failing("source", d, i, Reason(i)) : i \in Bad}
             extra == IF c.sample # 0 THEN 0
                      ELSE MapThenSumSet(LAMBDA line : ExtraCells(Decoded(d, line), {T[i] : i \in At(line)}),
                                         Lines \ Lost)
  <1>1. CrossDimension(d, Places, c)
          = IF ~Opens(d)
            THEN [failures |-> {Failing("source", d, 0, "IO_ERROR")},
                  checked |-> 0, failed |-> 0, extra |-> 0]
            ELSE [failures |-> LostOnes \cup BadOnes, checked |-> Cardinality(Places),
                  failed |-> Cardinality(Bad \cup Unplaced), extra |-> extra]
    BY Zenon DEF CrossDimension
  <1> HIDE DEF LostOnes, BadOnes, extra, Bad, Unplaced, Lost, Lines, Places
  <1>2. Opens(d)
    <2>1. SUFFICES ASSUME ~Opens(d) PROVE FALSE
      OBVIOUS
    <2>2. CrossDimension(d, Places, c)
            = [failures |-> {Failing("source", d, 0, "IO_ERROR")},
               checked |-> 0, failed |-> 0, extra |-> 0]
      BY <1>1, <2>1, Zenon
    <2>3. CrossDimension(d, Places, c).failures = {Failing("source", d, 0, "IO_ERROR")}
      BY <2>2
    <2> QED BY <2>3 DEF Places
  <1>3. LostOnes = {} /\ BadOnes = {}
    <2>1. CrossDimension(d, Places, c)
            = [failures |-> LostOnes \cup BadOnes, checked |-> Cardinality(Places),
               failed |-> Cardinality(Bad \cup Unplaced), extra |-> extra]
      BY <1>1, <1>2, Zenon
    <2>2. CrossDimension(d, Places, c).failures = LostOnes \cup BadOnes
      BY <2>1
    <2>3. CrossDimension(d, Places, c).failures = {}
      BY DEF Places
    <2> HIDE DEF T
    <2> QED BY <2>2, <2>3
  <1>4. PICK n \in Nat : Places = 1..n
    BY LenProperties DEF IsSeq, Places
  <1>5. ASSUME NEW i \in Places, GroupFailure(d, T[i].line, c.checksums) # ""
        PROVE  FALSE
    <2> DEFINE line == T[i].line
               m == Max(At(line))
    <2>1. At(line) \in SUBSET 1..n /\ At(line) # {}
      BY <1>4
    <2>2. m \in At(line)
      BY <2>1, GreatestNumber
    <2>3. m \in Places /\ T[m].line = line
      BY <2>2
    <2>4. m \in Unplaced /\ m = Max(At(T[m].line))
      <3>1. line \in Lost
        BY <1>5 DEF Lost, Lines
      <3>2. m = Max(At(T[m].line))
        BY <2>3, Zenon
      <3> HIDE DEF m
      <3> QED BY <2>3, <3>1, <3>2 DEF Unplaced
    <2> HIDE DEF m
    <2>5. Failing("source", d, m, GroupFailure(d, T[m].line, c.checksums)) \in LostOnes
      BY <2>4 DEF LostOnes
    <2> QED BY <1>3, <2>5
  <1>6. ASSUME NEW i \in Places, Reason(i) # ""
        PROVE  FALSE
    <2>1. T[i].line \notin Lost
      BY <1>5 DEF Lost, Lines
    <2>2. i \in Bad
      BY <1>6, <2>1 DEF Bad
    <2>3. Failing("source", d, i, Reason(i)) \in BadOnes
      BY <2>2 DEF BadOnes
    <2> QED BY <1>3, <2>3
  <1> QED BY <1>2, <1>5, <1>6 DEF Places

PlacedCell(decoded, row) == decoded.cells[CellPlace(decoded, row)]

RowPasses(decoded, row) == RowFailure(decoded, row) = ""

\* The row has a cell, and the cell its numbers.
RowIsRight(decoded, row) ==
  LET place == CellPlace(decoded, row)
      c == PlacedCell(decoded, row)
  IN /\ row.hand \in HandId
     /\ \E h \in DOMAIN decoded.hands : decoded.hands[h] = row.hand
     /\ place # 0 /\ c.exists
     /\ c.cell.freq = Float32(row.freq)
     /\ c.cell.ev = IF row.ev = NoEv THEN NoEv ELSE Float32(row.ev)

\* A row that does not fail is right (verify_source_row).
LEMMA NoRowFailure ==
  ASSUME NEW decoded, NEW row, RowPasses(decoded, row)
  PROVE  RowIsRight(decoded, row)
  <1> DEFINE place == CellPlace(decoded, row)
             cell == decoded.cells[place].cell
             freq == RoundTrip(row.freq, cell.freq)
             ev == NullableRoundTrip(row.ev, cell.ev)
  <1>1. freq \in {"", "INVALID_NUMBER", "FLOAT32_MISMATCH"}
    BY DEF RoundTrip
  <1>2. ev \in {"", "INVALID_NUMBER", "FLOAT32_MISMATCH", "NULL_MISMATCH"}
    BY DEF RoundTrip, NullableRoundTrip
  <1>3. RowFailure(decoded, row)
          = IF row.hand \notin HandId THEN "UNKNOWN_HAND"
            ELSE IF \A h \in DOMAIN decoded.hands : decoded.hands[h] # row.hand
                 THEN "HAND_NOT_FOUND_IN_PACK"
            ELSE IF place = 0 THEN "ACTION_NOT_FOUND_IN_SCHEMA"
            ELSE IF ~decoded.cells[place].exists THEN "ACTION_CELL_NOT_SET"
            ELSE IF freq # "" THEN FrequencyReason[freq]
            ELSE IF ev # "" THEN HandEvReason[ev]
            ELSE ""
    BY Zenon DEF RowFailure
  <1> HIDE DEF freq, ev
  <1>4. freq # "" => FrequencyReason[freq] # ""
    <2>1. /\ FrequencyReason["INVALID_NUMBER"] = "FREQUENCY_INVALID_NUMBER"
          /\ FrequencyReason["FLOAT32_MISMATCH"] = "FREQUENCY_FLOAT32_MISMATCH"
      BY DEF FrequencyReason
    <2> QED BY <1>1, <2>1
  <1>5. ev # "" => HandEvReason[ev] # ""
    <2>1. /\ HandEvReason["INVALID_NUMBER"] = "HAND_EV_INVALID_NUMBER"
          /\ HandEvReason["NULL_MISMATCH"] = "HAND_EV_NULL_MISMATCH"
          /\ HandEvReason["FLOAT32_MISMATCH"] = "HAND_EV_FLOAT32_MISMATCH"
      BY DEF HandEvReason
    <2> QED BY <1>2, <2>1
  <1> HIDE DEF place, cell
  <1>6. /\ row.hand \in HandId
        /\ \E h \in DOMAIN decoded.hands : decoded.hands[h] = row.hand
        /\ place # 0 /\ decoded.cells[place].exists
        /\ freq = "" /\ ev = ""
    BY <1>3, <1>4, <1>5 DEF RowPasses
  <1>7. cell.freq = Float32(row.freq)
    BY <1>6 DEF freq, RoundTrip
  <1>8. cell.ev = IF row.ev = NoEv THEN NoEv ELSE Float32(row.ev)
    BY <1>6 DEF ev, NullableRoundTrip, RoundTrip
  <1> QED BY <1>6, <1>7, <1>8, Zenon DEF RowIsRight, place, cell, PlacedCell

-----------------------------------------------------------------------------
(* A row that the cross check passed is answered                           *)

\* The action that a row is matched with.
LEMMA ActionIsMatched ==
  ASSUME NEW blob, NEW n \in Nat, DOMAIN blob = 1..n, NEW row, MatchingAction(blob, row) # -1
  PROVE  LET a == MatchingAction(blob, row)
         IN /\ a \in 0..(n - 1)
            /\ blob[a + 1][1] = row.action
            /\ Distance(blob[a + 1][2], row.size) <= Tolerance
  <1> DEFINE M == {a \in DOMAIN blob : blob[a][1] = row.action
                                       /\ Distance(blob[a][2], row.size) <= Tolerance}
  <1>1. MatchingAction(blob, row) = IF M = {} THEN -1 ELSE Min(M) - 1
    BY Zenon DEF MatchingAction
  <1>2. M \in SUBSET Nat
    OBVIOUS
  <1>3. M # {} => Min(M) \in M
    <2> HIDE DEF M
    <2> QED BY <1>2, LeastNumber
  <1>4. M # {}
    BY <1>1
  <1>5. /\ Min(M) \in 1..n
        /\ blob[Min(M)][1] = row.action
        /\ Distance(blob[Min(M)][2], row.size) <= Tolerance
    BY <1>3, <1>4
  <1> HIDE DEF M
  <1>6. MatchingAction(blob, row) = Min(M) - 1
    BY <1>1, <1>4
  <1>7. MatchingAction(blob, row) + 1 = Min(M)
    BY <1>5, <1>6
  <1>8. MatchingAction(blob, row) \in 0..(n - 1)
    BY <1>5, <1>6
  <1> QED BY <1>5, <1>7, <1>8

\* Products by a name, for the provers: the place of a cell, the size of a pack.
PlaceOf(h, n, a) == h * n + a + 1
SoundPack(pack, hands, n) == Sorted(pack, hands) /\ Len(pack) = hands * (5 + n * 8)
PackCell(pack, hands, n, k) == DecodePack(pack, hands, n)[k]

LEMMA DecodedIsFound ==
  ASSUME NEW pack, NEW hands \in Nat, NEW n \in Nat \ {0}, SoundPack(pack, hands, n),
         NEW hand \in Int, NEW e \in ToSet(DecodePack(pack, hands, n)), e.exists, e.hand = hand
  PROVE  e.cell \in DecodePackForHand(pack, hands, n, hand)
  <1>1. DecodePackForHand(pack, hands, n, hand)
          = {c.cell : c \in {c \in ToSet(DecodePack(pack, hands, n)) : c.exists /\ c.hand = hand}}
    BY HandIsDecoded DEF SoundPack
  <1> QED BY <1>1

IsCellOf(pack, hands, n, h, a, e) ==
  e \in ToSet(DecodePack(pack, hands, n)) /\ e.hand = pack[h + 1][1] /\ e.cell.action = a

LEMMA CellOfPlace ==
  ASSUME NEW pack, NEW hands \in Nat, NEW n \in Nat \ {0},
         NEW h \in 0..(hands - 1), NEW a \in 0..(n - 1)
  PROVE  IsCellOf(pack, hands, n, h, a, PackCell(pack, hands, n, PlaceOf(h, n, a)))
  <1> DEFINE all == DecodePack(pack, hands, n)
             k == h * n + a + 1
             e == all[k]
  <1>1. /\ k \in 1..(hands * n)
        /\ e.hand = pack[h + 1][1]
        /\ e.exists <=> IsSet(pack, hands, h, a)
        /\ e.cell = CellOfPack(pack, hands, n, h, a)
    BY CellIsDecoded, Zenon
  <1>2. e \in ToSet(all)
    <2>1. DOMAIN all = 1..(hands * n)
      BY DEF DecodePack
    <2> HIDE DEF all, k
    <2> QED BY <1>1, <2>1 DEF ToSet
  <1>3. e = PackCell(pack, hands, n, PlaceOf(h, n, a))
    BY Zenon DEF PackCell, PlaceOf
  <1> HIDE DEF all, e
  <1>4. e.cell.action = a
    BY <1>1 DEF CellOfPack, CellAt
  <1> QED BY <1>1, <1>2, <1>3, <1>4, Zenon DEF all, IsCellOf

\* What a row that passed is decoded from.
PassedRow(decoded, row, blob, hands, pack, n) ==
  /\ decoded = [actions |-> blob, hands |-> [h \in 1..hands |-> pack[h][1]],
                cells |-> DecodePack(pack, hands, n)]
  /\ RowPasses(decoded, row)

LEMMA PassedRowHasCell ==
  ASSUME NEW decoded, NEW row, NEW blob, NEW hands \in Nat, NEW pack, NEW n \in Nat \ {0},
         DOMAIN blob = 1..n, Len(blob) = n, SoundPack(pack, hands, n),
         PassedRow(decoded, row, blob, hands, pack, n)
  PROVE  /\ hands # 0
         /\ \E cell \in DecodePackForHand(pack, hands, n, row.hand) :
              /\ blob[cell.action + 1][1] = row.action
              /\ Distance(blob[cell.action + 1][2], row.size) <= Tolerance
              /\ cell.freq = Float32(row.freq)
              /\ cell.ev = IF row.ev = NoEv THEN NoEv ELSE Float32(row.ev)
  <1> DEFINE place == CellPlace(decoded, row)
             c == PlacedCell(decoded, row)
             Places == {h \in DOMAIN decoded.hands : decoded.hands[h] = row.hand}
             a == MatchingAction(blob, row)
             m == Max(Places)
  <1>1. /\ decoded.actions = blob
        /\ decoded.hands = [h \in 1..hands |-> pack[h][1]]
        /\ decoded.cells = DecodePack(pack, hands, n)
    BY DEF PassedRow
  <1>2. /\ row.hand \in HandId
        /\ \E h \in DOMAIN decoded.hands : decoded.hands[h] = row.hand
        /\ place # 0 /\ c.exists
        /\ c.cell.freq = Float32(row.freq)
        /\ c.cell.ev = IF row.ev = NoEv THEN NoEv ELSE Float32(row.ev)
    <2>1. RowPasses(decoded, row)
      BY DEF PassedRow
    <2>2. RowIsRight(decoded, row)
      BY <2>1, NoRowFailure
    <2> QED BY <2>2, Zenon DEF RowIsRight
  <1>3. place = IF Places = {} \/ a = -1 THEN 0 ELSE (m - 1) * n + a + 1
    <2>1. place = IF Places = {} \/ MatchingAction(decoded.actions, row) = -1 THEN 0
                  ELSE (m - 1) * Len(decoded.actions) + MatchingAction(decoded.actions, row) + 1
      BY Zenon DEF CellPlace
    <2> HIDE DEF place, m, Places
    <2> QED BY <1>1, <2>1, Zenon
  <1> HIDE DEF place, c
  <1>4. Places \in SUBSET 1..hands /\ Places # {}
    BY <1>1, <1>2
  <1>5. m \in 1..hands /\ pack[m][1] = row.hand
    <2>1. m \in Places
      <3> HIDE DEF Places
      <3> QED BY <1>4, GreatestNumber
    <2> QED BY <1>1, <2>1
  <1> HIDE DEF a, m, Places
  <1>6. a # -1
    BY <1>2, <1>3
  <1>7. /\ a \in 0..(n - 1)
        /\ blob[a + 1][1] = row.action
        /\ Distance(blob[a + 1][2], row.size) <= Tolerance
    BY <1>6, ActionIsMatched DEF a
  <1> DEFINE h == m - 1
  <1>8. h \in 0..(hands - 1) /\ h + 1 = m
    BY <1>5
  <1>9. place = PlaceOf(h, n, a)
    BY <1>3, <1>4, <1>6 DEF PlaceOf
  <1> HIDE DEF h
  <1>10. c = PackCell(pack, hands, n, place)
    BY <1>1, Zenon DEF c, PlacedCell, place, PackCell
  <1>11. c.cell \in DecodePackForHand(pack, hands, n, row.hand) /\ c.cell.action = a
    <2>1. row.hand \in Int
      BY <1>2, PackAssumption DEF HandId
    <2>2. pack[h + 1][1] = row.hand
      BY <1>5, <1>8
    <2>3. /\ c \in ToSet(DecodePack(pack, hands, n))
          /\ c.hand = row.hand /\ c.cell.action = a
      <3>1. h \in 0..(hands - 1) /\ a \in 0..(n - 1)
        BY <1>7, <1>8
      <3>2. IsCellOf(pack, hands, n, h, a, PackCell(pack, hands, n, PlaceOf(h, n, a)))
        BY <3>1, CellOfPlace
      <3>3. IsCellOf(pack, hands, n, h, a, c)
        BY <1>9, <1>10, <3>2, Zenon
      <3> QED BY <2>2, <3>3 DEF IsCellOf
    <2> QED BY <1>2, <2>1, <2>3, DecodedIsFound
  <1>12. hands # 0
    BY <1>5
  <1> QED
    <2> DEFINE cell == c.cell
    <2>1. /\ cell \in DecodePackForHand(pack, hands, n, row.hand)
          /\ blob[cell.action + 1][1] = row.action
          /\ Distance(blob[cell.action + 1][2], row.size) <= Tolerance
          /\ cell.freq = Float32(row.freq)
          /\ cell.ev = IF row.ev = NoEv THEN NoEv ELSE Float32(row.ev)
      BY <1>2, <1>7, <1>11, Zenon
    <2> HIDE DEF cell
    <2> QED BY <1>12, <2>1

GoodBlobs == \A s \in disk.schemas : s.count \in 1..MaxActions /\ Len(s.blob) = s.count

-----------------------------------------------------------------------------
(* A source that the cross check passed is answered                        *)

\* A query for the hand of a row finds the cell that it passed with.
LEMMA PassedRowIsAnswered ==
  ASSUME NEW d, NEW row, NEW checksums, AreSchemas(disk.schemas), GoodBlobs,
         Finds(disk.idx[d], row.line),
         SoundRecord(disk.bin[d], Found(disk.idx[d], row.line), checksums),
         RowPasses(Decoded(d, row.line), row)
  PROVE  Answers(d, row, Tolerance)
  <1> DEFINE r == Found(disk.idx[d], row.line)
             b == disk.bin[d]
             s == CHOOSE s \in disk.schemas : s.id = r.schema
             pack == PackBytes(b, r)
  <1>1. s \in disk.schemas /\ s.id = r.schema
    <2>1. \E t \in disk.schemas : t.id = r.schema
      BY DEF SoundRecord
    <2> HIDE DEF r
    <2> QED BY <2>1
  <1>2. PassedRow(Decoded(d, row.line), row, s.blob, r.hands, pack, s.count)
    BY Zenon DEF Decoded, PassedRow
  <1>3. SoundRecord(b, r, checksums) /\ Finds(disk.idx[d], row.line)
    OBVIOUS
  <1> HIDE DEF s, r, b, pack
  <1>4. s.count \in 1..MaxActions /\ Len(s.blob) = s.count /\ DOMAIN s.blob = 1..s.count
    BY <1>1, LenProperties DEF GoodBlobs, AreSchemas, IsSeq
  <1>5. r.hands \in 0..HandCount /\ SoundPack(pack, r.hands, s.count)
    <2>1. /\ r.hands \in 0..HandCount
          /\ PackByteLength(r.hands, s.count) = r.length
          /\ Len(pack) = r.length
          /\ Sorted(pack, r.hands)
      BY <1>1, <1>3, Zenon DEF SoundRecord, pack
    <2>2. PackByteLength(r.hands, s.count) = r.hands * (5 + s.count * 8)
      BY <1>4, <2>1, SizeOfPack
    <2> QED BY <2>1, <2>2 DEF SoundPack
  <1>6. r.hands \in Nat /\ s.count \in Nat \ {0}
    BY <1>4, <1>5, PackAssumption
  <1> DEFINE cells == DecodePackForHand(pack, r.hands, s.count, row.hand)
             Right(cell) == /\ s.blob[cell.action + 1][1] = row.action
                            /\ Distance(s.blob[cell.action + 1][2], row.size) <= Tolerance
                            /\ cell.freq = Float32(row.freq)
                            /\ cell.ev = IF row.ev = NoEv THEN NoEv ELSE Float32(row.ev)
  <1>7. r.hands # 0 /\ \E cell \in cells : Right(cell)
    BY <1>2, <1>4, <1>5, <1>6, PassedRowHasCell
  <1>8. PICK cell \in cells : Right(cell)
    BY <1>7
  <1>9. ActionCountFromPack(r.hands, r.length) = s.count /\ PackReadable(b, r, FALSE)
    BY <1>1, <1>3, <1>7, SoundRecordReads
  <1> DEFINE answer == QueryHand(disk.idx[d], disk.bin[d], row.line, row.hand, FALSE)
             full == [outcome |-> "found", schema |-> r.schema, cells |-> cells]
  <1>10. answer = IF cells = {} THEN NotFound ELSE full
    BY <1>3, <1>9, Zenon DEF QueryHand, r, b, pack
  <1>11. full.outcome = "found" /\ full.schema = r.schema /\ full.cells = cells
    OBVIOUS
  <1> HIDE DEF cells, full, answer, Right
  <1>12. answer = full
    BY <1>8, <1>10
  <1>13. /\ answer.outcome = "found"
         /\ cell \in answer.cells /\ s \in disk.schemas /\ s.id = answer.schema /\ Right(cell)
    BY <1>1, <1>8, <1>11, <1>12, Zenon
  <1> QED BY <1>13, Zenon DEF Answers, answer, Right

\* Every dimension whose index has a good header is one of the manifest: the
\* builder gives an index its header and its entry in one step.
Listed ==
  \A d \in Dim : disk.idx[d].header = "ok" => \E e \in ToSet(disk.entries) : e.dim = d

AnswersAll ==
  \A d \in CrossDims : \A i \in DOMAIN source[d] : Answers(d, source[d][i], Tolerance)

LEMMA PassedSourceIsAnswered ==
  ASSUME DiskTypes, SourceTypes, Listed, NEW c \in Commands, c.sample = 0,
         NEW sample \in Samples(c),
         StandaloneFailures(c.checksums) = {}, CrossFailures(c, sample) = {}
  PROVE  AnswersAll
  <1> SUFFICES ASSUME NEW d \in CrossDims, NEW i \in DOMAIN source[d]
               PROVE  Answers(d, source[d][i], Tolerance)
    BY Zenon DEF AnswersAll
  <1> DEFINE row == source[d][i]
             f == disk.idx[d]
  <1>1. d \in Dim /\ IsSeq(source[d]) /\ sample[d] = DOMAIN source[d]
    BY DimsAreFinite, SampledRows DEF SourceTypes
  <1>2. CrossDimension(d, DOMAIN source[d], c).failures = {}
    <2>1. CrossDimension(d, sample[d], c).failures \subseteq CrossFailures(c, sample)
      BY DEF CrossFailures
    <2> QED BY <1>1, <2>1
  <1>3. /\ Opens(d)
        /\ GroupFailure(d, row.line, c.checksums) = ""
        /\ RowPasses(Decoded(d, row.line), row)
    BY <1>1, <1>2, NoCrossFailures, Zenon DEF RowPasses
  <1>4. Finds(f, row.line)
    BY <1>3 DEF GroupFailure
  <1>5. PICK e \in Successful : e.dim = d
    <2>1. disk.idx[d].header = "ok"
      BY <1>3 DEF Opens, IdxOpens
    <2>2. PICK e \in ToSet(disk.entries) : e.dim = d
      BY <1>1, <2>1 DEF Listed
    <2> QED BY <2>2 DEF CrossDims, Successful
  <1>6. SoundStore(c.checksums)
    BY NoFailuresIsSound
  <1>7. SoundRecord(disk.bin[d], Found(f, row.line), c.checksums)
    BY <1>4, <1>5, <1>6 DEF SoundStore, Finds, Found
  <1>8. GoodBlobs
    BY NoFailuresInParts, NoCatalogFailures DEF GoodBlobs
  <1>9. AreSchemas(disk.schemas)
    BY DEF DiskTypes
  <1> QED BY <1>3, <1>4, <1>7, <1>8, <1>9, PassedRowIsAnswered

-----------------------------------------------------------------------------
(* A report is that of the files: it is the same as long as they are       *)

LEMMA SameParts ==
  ASSUME disk' = disk
  PROVE  /\ Successful' = Successful
         /\ ManifestFailures' = ManifestFailures
         /\ KnownSchemas' = KnownSchemas
         /\ \A e : HasIdx(e)' <=> HasIdx(e)
         /\ \A e : HasBin(e)' <=> HasBin(e)
         /\ \A name : HasTable(name)' <=> HasTable(name)
         /\ \A d : PackHeaderFailures(d)' = PackHeaderFailures(d)
         /\ \A d, i, c : PackFailures(d, i, c)' = PackFailures(d, i, c)
  <1>1. Successful' = Successful
    BY DEF Successful
  <1>2. ManifestFailures' = ManifestFailures
    BY DEF ManifestFailures
  <1>3. \A name : HasTable(name)' <=> HasTable(name)
    BY DEF HasTable
  <1>4. KnownSchemas' = KnownSchemas
    BY <1>3 DEF KnownSchemas
  <1>5. \A e : HasIdx(e)' <=> HasIdx(e)
    BY DEF HasIdx
  <1>6. \A e : HasBin(e)' <=> HasBin(e)
    BY DEF HasBin
  <1>7. \A d : PackHeaderFailures(d)' = PackHeaderFailures(d)
    BY DEF PackHeaderFailures
  <1>8. ASSUME NEW d, NEW i, NEW c
        PROVE  PackFailures(d, i, c)' = PackFailures(d, i, c)
    BY <1>4 DEF PackFailures
  <1> QED BY <1>1, <1>2, <1>3, <1>4, <1>5, <1>6, <1>7, <1>8

LEMMA SameMissing ==
  ASSUME disk' = disk
  PROVE  MissingFiles' = MissingFiles
  BY SameParts DEF MissingFiles

LEMMA SameCatalog ==
  ASSUME disk' = disk
  PROVE  CatalogFailures' = CatalogFailures
  BY SameParts DEF CatalogFailures

LEMMA SameIndex ==
  ASSUME disk' = disk
  PROVE  \A d : IndexFailures(d)' = IndexFailures(d)
  <1>1. ASSUME NEW f, NEW d, NEW i
        PROVE  RecordFailures(f, d, i)' = RecordFailures(f, d, i)
    BY SameParts DEF RecordFailures
  <1> QED BY <1>1 DEF IndexFailures

LEMMA SameRecords ==
  ASSUME disk' = disk
  PROVE  \A e : PackRecords(e)' = PackRecords(e)
  BY SameParts DEF PackRecords

LEMMA SameFailures ==
  ASSUME disk' = disk
  PROVE  \A c : StandaloneFailures(c)' = StandaloneFailures(c)
  <1> SUFFICES ASSUME NEW c
               PROVE  StandaloneFailures(c)' = StandaloneFailures(c)
    OBVIOUS
  <1> DEFINE Index(S) == UNION {IndexFailures(e.dim) : e \in {e \in S : e.idxFile}}
             Headers(S) == UNION {PackHeaderFailures(e.dim) : e \in {e \in S : e.binFile}}
             Parts(e) == UNION {PackFailures(e.dim, i, c) : i \in PackRecords(e)}
  <1>1. StandaloneFailures(c)
          = IF ManifestFailures # {} THEN ManifestFailures
            ELSE MissingFiles \cup CatalogFailures \cup Index(Successful)
                 \cup Headers(Successful) \cup UNION {Parts(e) : e \in Successful}
    BY Zenon DEF StandaloneFailures
  <1>2. StandaloneFailures(c)'
          = IF ManifestFailures' # {} THEN ManifestFailures'
            ELSE MissingFiles' \cup CatalogFailures'
                 \cup (UNION {IndexFailures(e.dim)' : e \in {e \in Successful' : e.idxFile}})
                 \cup (UNION {PackHeaderFailures(e.dim)' : e \in {e \in Successful' : e.binFile}})
                 \cup UNION {UNION {PackFailures(e.dim, i, c)' : i \in PackRecords(e)'} :
                               e \in Successful'}
    BY Zenon DEF StandaloneFailures
  <1>3. UNION {IndexFailures(e.dim)' : e \in {e \in Successful' : e.idxFile}}
          = Index(Successful)
    BY SameParts, SameIndex
  <1>4. UNION {PackHeaderFailures(e.dim)' : e \in {e \in Successful' : e.binFile}}
          = Headers(Successful)
    BY SameParts
  <1> DEFINE PartsAfter(e) == UNION {PackFailures(e.dim, i, c)' : i \in PackRecords(e)'}
  <1>5. ASSUME NEW e
        PROVE  PartsAfter(e) = Parts(e)
    BY SameParts, SameRecords
  <1>6. UNION {PartsAfter(e) : e \in Successful'} = UNION {Parts(e) : e \in Successful}
    <2>1. Successful' = Successful
      BY SameParts
    <2> HIDE DEF Parts, PartsAfter
    <2> QED BY <1>5, <2>1
  <1>7. ManifestFailures' = ManifestFailures /\ Successful' = Successful
    BY SameParts
  <1>8. MissingFiles' = MissingFiles /\ CatalogFailures' = CatalogFailures
    BY SameMissing, SameCatalog
  <1> DEFINE Total(M, F, C, I, H, P) == IF M # {} THEN M ELSE F \cup C \cup I \cup H \cup P
             I == UNION {IndexFailures(e.dim)' : e \in {e \in Successful' : e.idxFile}}
             H == UNION {PackHeaderFailures(e.dim)' : e \in {e \in Successful' : e.binFile}}
             P == UNION {Parts(e) : e \in Successful}
             Q == UNION {PartsAfter(e) : e \in Successful'}
  <1>9. StandaloneFailures(c)
          = Total(ManifestFailures, MissingFiles, CatalogFailures, Index(Successful),
                  Headers(Successful), P)
    BY <1>1, Zenon
  <1>10. StandaloneFailures(c)'
           = Total(ManifestFailures', MissingFiles', CatalogFailures', I, H, Q)
    BY <1>2, Zenon
  <1>11. I = Index(Successful) /\ H = Headers(Successful) /\ P = Q
    BY <1>3, <1>4, <1>6, Zenon
  <1> HIDE DEF Total, I, H, P, Q, Index, Headers
  <1> QED BY <1>7, <1>8, <1>9, <1>10, <1>11

LEMMA SameReport ==
  ASSUME disk' = disk
  PROVE  \A c : StandaloneReport(c)' = StandaloneReport(c)
  <1> SUFFICES ASSUME NEW c
               PROVE  StandaloneReport(c)' = StandaloneReport(c)
    OBVIOUS
  <1> DEFINE DetailsOf(S, F) ==
               [d \in {e.dim : e \in S} |->
                  [header |-> Cardinality({f \in F : f.dim = d /\ f.layer \in {"file", "index", "pack"}}),
                   cross |-> Cardinality({f \in F : f.dim = d /\ f.layer = "cross"})]]
  <1>1. StandaloneReport(c)
          = Report(IF ManifestFailures = {} THEN DetailsOf(Successful, StandaloneFailures(c)) ELSE <<>>,
                   StandaloneFailures(c))
    BY Zenon DEF StandaloneReport, Details
  <1>2. StandaloneReport(c)'
          = Report(IF ManifestFailures' = {}
                   THEN DetailsOf(Successful', StandaloneFailures(c)') ELSE <<>>,
                   StandaloneFailures(c)')
    BY Zenon DEF StandaloneReport, Details
  <1> HIDE DEF DetailsOf
  <1>3. StandaloneFailures(c)' = StandaloneFailures(c)
    BY SameFailures
  <1>4. ManifestFailures' = ManifestFailures /\ Successful' = Successful
    BY SameParts
  <1> DEFINE ReportOf(M, S, F) == Report(IF M = {} THEN DetailsOf(S, F) ELSE <<>>, F)
  <1>5. StandaloneReport(c) = ReportOf(ManifestFailures, Successful, StandaloneFailures(c))
    BY <1>1, Zenon
  <1>6. StandaloneReport(c)' = ReportOf(ManifestFailures', Successful', StandaloneFailures(c)')
    BY <1>2, Zenon
  <1> HIDE DEF ReportOf
  <1> QED BY <1>3, <1>4, <1>5, <1>6

-----------------------------------------------------------------------------
(* What is changed keeps its form                                          *)

LEMMA SameDomain ==
  ASSUME NEW s, IsSeq(s), NEW t, DOMAIN t = DOMAIN s, t = [i \in DOMAIN t |-> t[i]]
  PROVE  IsSeq(t)
  <1>1. PICK n \in Nat : DOMAIN s = 1..n
    BY LenProperties DEF IsSeq
  <1> DEFINE S == {t[i] : i \in 1..n}
  <1>2. t \in [1..n -> S]
    BY <1>1
  <1> HIDE DEF S
  <1>3. t \in Seq(S)
    BY <1>2, FunctionIsSeq
  <1> QED BY <1>3 DEF IsSeq

LEMMA ReplacedIsSeq ==
  ASSUME NEW s, IsSeq(s), NEW k, NEW v
  PROVE  IsSeq([s EXCEPT ![k] = v])
  <1> DEFINE t == [s EXCEPT ![k] = v]
  <1>1. s = [i \in DOMAIN s |-> s[i]]
    BY LenProperties DEF IsSeq
  <1>2. DOMAIN t = DOMAIN s /\ t = [i \in DOMAIN t |-> t[i]]
    BY <1>1
  <1> HIDE DEF t
  <1>3. IsSeq(t)
    BY <1>2, SameDomain
  <1> QED BY <1>3 DEF t

LEMMA FrontIsSeq ==
  ASSUME NEW A, NEW s \in Seq(A), s # <<>>
  PROVE  Front(s) \in Seq(A)
  <1>1. Len(s) \in Nat /\ Len(s) # 0
    BY LenProperties, EmptySeq
  <1>2. Front(s) = SubSeq(s, 1, Len(s) - 1)
    BY DEF Front
  <1>3. \A i \in 1..(Len(s) - 1) : s[i] \in A
    BY <1>1, ElementOfSeq
  <1> QED BY <1>1, <1>2, <1>3, SubSeqProperties

\* The bytes of a file of packs, or what its header says, are replaced.
LEMMA ChangedBin ==
  ASSUME NEW f, IsBin(f)
  PROVE  /\ \A h : IsBin([f EXCEPT !.header = h])
         /\ \A t : IsSeq(t) => IsBin([f EXCEPT !.bytes = t])
  <1>1. PICK H, A : f \in [header : H, bytes : Seq(A)]
    BY DEF IsBin
  <1>2. ASSUME NEW h
        PROVE  IsBin([f EXCEPT !.header = h])
    <2>1. [f EXCEPT !.header = h] \in [header : {h}, bytes : Seq(A)]
      BY <1>1
    <2> QED BY <2>1 DEF IsBin
  <1>3. ASSUME NEW t, IsSeq(t)
        PROVE  IsBin([f EXCEPT !.bytes = t])
    <2>1. PICK B : t \in Seq(B)
      BY <1>3 DEF IsSeq
    <2>2. [f EXCEPT !.bytes = t] \in [header : H, bytes : Seq(B)]
      BY <1>1, <2>1
    <2> QED BY <2>2 DEF IsBin
  <1> QED BY <1>2, <1>3

LEMMA HarmedBinIsBin ==
  ASSUME NEW f, IsBin(f), NEW g \in HarmedBin(f)
  PROVE  IsBin(g) /\ (g.header = "ok" => f.header = "ok")
  <1>1. PICK H, A : f \in [header : H, bytes : Seq(A)]
    BY DEF IsBin
  <1>2. IsSeq(f.bytes)
    BY <1>1 DEF IsSeq
  <1>3. \/ \E h \in {"missing", "short", "bad"} : g = [f EXCEPT !.header = h]
        \/ f.bytes # <<>> /\ g = [f EXCEPT !.bytes = Front(@)]
        \/ \E Places : g = [f EXCEPT !.bytes = Raised(@, Places)]
    BY Zenon DEF HarmedBin
  <1>4. CASE \E h \in {"missing", "short", "bad"} : g = [f EXCEPT !.header = h]
    <2>1. PICK h \in {"missing", "short", "bad"} : g = [f EXCEPT !.header = h]
      BY <1>4
    <2>3. IsBin(g)
      BY <2>1, ChangedBin
    <2>4. g.header = h
      BY <1>1, <2>1
    <2> QED BY <2>3, <2>4
  <1>5. CASE f.bytes # <<>> /\ g = [f EXCEPT !.bytes = Front(@)]
    <2>1. IsSeq(Front(f.bytes))
      BY <1>1, <1>5, FrontIsSeq DEF IsSeq
    <2>2. g = [f EXCEPT !.bytes = Front(f.bytes)]
      BY <1>5
    <2>3. IsBin(g)
      BY <2>1, <2>2, ChangedBin
    <2>4. g.header = f.header
      BY <1>1, <2>2
    <2> QED BY <2>3, <2>4
  <1>6. CASE \E Places : g = [f EXCEPT !.bytes = Raised(@, Places)]
    <2>1. PICK Places : g = [f EXCEPT !.bytes = Raised(f.bytes, Places)]
      BY <1>6
    <2> DEFINE t == Raised(f.bytes, Places)
    <2>2. DOMAIN t = DOMAIN f.bytes /\ t = [i \in DOMAIN t |-> t[i]]
      BY DEF Raised
    <2> HIDE DEF t
    <2>3. IsSeq(t)
      BY <1>2, <2>2, SameDomain
    <2>4. g = [f EXCEPT !.bytes = t]
      BY <2>1 DEF t
    <2> QED BY <1>1, <2>3, <2>4, ChangedBin
  <1> QED BY <1>3, <1>4, <1>5, <1>6

LEMMA WiderRecords ==
  ASSUME NEW A, NEW B, A \subseteq B, NEW s \in Seq(IndexRecord(A))
  PROVE  s \in Seq(IndexRecord(B))
  <1>1. \A r \in IndexRecord(A) : r \in IndexRecord(B)
    BY DEF IndexRecord
  <1>2. s \in [1..Len(s) -> IndexRecord(A)] /\ Len(s) \in Nat
    BY LenProperties
  <1>3. s \in [1..Len(s) -> IndexRecord(B)]
    BY <1>1, <1>2
  <1> DEFINE n == Len(s)
             R == IndexRecord(B)
  <1>4. n \in Nat /\ s \in [1..n -> R]
    BY <1>2, <1>3
  <1> HIDE DEF n, R
  <1>5. s \in Seq(R)
    BY <1>4, FunctionIsSeq
  <1> QED BY <1>5 DEF R

LEMMA RecordIsReplaced ==
  ASSUME NEW A, NEW s \in Seq(IndexRecord(A)), NEW B, NEW r \in IndexRecord(B),
         NEW i \in DOMAIN s
  PROVE  [s EXCEPT ![i] = r] \in Seq(IndexRecord(A \cup B))
  <1>1. s \in Seq(IndexRecord(A \cup B))
    BY WiderRecords
  <1>2. r \in IndexRecord(A \cup B)
    BY DEF IndexRecord
  <1>3. s \in [1..Len(s) -> IndexRecord(A \cup B)] /\ Len(s) \in Nat
    BY <1>1, LenProperties
  <1> DEFINE t == [s EXCEPT ![i] = r]
             n == Len(s)
  <1>4. t \in [1..n -> IndexRecord(A \cup B)]
    BY <1>2, <1>3
  <1>5. n \in Nat
    BY <1>3
  <1> HIDE DEF t, n
  <1>6. t \in Seq(IndexRecord(A \cup B))
    BY <1>4, <1>5, FunctionIsSeq
  <1> QED BY <1>6 DEF t

LEMMA HarmedRecordIsRecord ==
  ASSUME NEW A, NEW r \in IndexRecord(A), NEW x \in HarmedRecord(r)
  PROVE  x \in IndexRecord(A \cup {r.schema + 1, <<>>})
  <1>1. /\ r.line + 1 \in Nat /\ r.hands + 1 \in Nat /\ r.offset + 1 \in Nat
        /\ r.length - 1 \in Int /\ r.length + 8 * r.hands \in Int
    BY DEF IndexRecord
  <1> DEFINE R == IndexRecord(A \cup {r.schema + 1, <<>>})
  <1>2. [r EXCEPT !.line = @ + 1] \in R /\ [r EXCEPT !.line = 0] \in R
    BY <1>1 DEF IndexRecord
  <1>3. [r EXCEPT !.schema = @ + 1] \in R
    BY <1>1 DEF IndexRecord
  <1>4. [r EXCEPT !.hands = @ + 1] \in R /\ [r EXCEPT !.hands = 0] \in R
    BY <1>1 DEF IndexRecord
  <1>5. [r EXCEPT !.offset = 0] \in R /\ [r EXCEPT !.offset = @ + 1] \in R
    BY <1>1 DEF IndexRecord
  <1>6. [r EXCEPT !.length = @ - 1] \in R /\ [r EXCEPT !.length = @ + 8 * r.hands] \in R
    <2>1. \A y \in Int : [r EXCEPT !.length = y] \in R
      BY DEF IndexRecord
    <2> HIDE DEF R
    <2> QED BY <1>1, <2>1
  <1>7. [r EXCEPT !.hands = 0, !.length = 0, !.checksum = <<>>] \in R
    <2>1. ASSUME NEW B, NEW q \in IndexRecord(B), NEW y \in B
          PROVE  [q EXCEPT !.hands = 0, !.length = 0, !.checksum = y] \in IndexRecord(B)
      <3>1. \A p \in IndexRecord(B) : [p EXCEPT !.hands = 0] \in IndexRecord(B)
        BY DEF IndexRecord
      <3>2. \A p \in IndexRecord(B) : [p EXCEPT !.length = 0] \in IndexRecord(B)
        BY DEF IndexRecord
      <3>3. \A p \in IndexRecord(B) : [p EXCEPT !.checksum = y] \in IndexRecord(B)
        BY DEF IndexRecord
      <3>4. [[[q EXCEPT !.hands = 0] EXCEPT !.length = 0] EXCEPT !.checksum = y] \in IndexRecord(B)
        BY <3>1, <3>2, <3>3, Zenon
      <3> QED BY <3>4
    <2>2. r \in R
      BY DEF IndexRecord
    <2> DEFINE y == <<>>
               B == A \cup {r.schema + 1, <<>>}
    <2>3. y \in B
      OBVIOUS
    <2> HIDE DEF y, B
    <2>4. [r EXCEPT !.hands = 0, !.length = 0, !.checksum = y] \in IndexRecord(B)
      BY <2>1, <2>2, <2>3 DEF B
    <2> QED BY <2>4 DEF y, B
  <1> HIDE DEF R
  <1>8. x \in R
    BY <1>2, <1>3, <1>4, <1>5, <1>6, <1>7, Zenon DEF HarmedRecord
  <1> QED BY <1>8 DEF R

LEMMA ChangedIdx ==
  ASSUME NEW f, IsIdx(f)
  PROVE  /\ \A h : IsIdx([f EXCEPT !.header = h])
         /\ \A n \in Nat : IsIdx([f EXCEPT !.count = n])
         /\ \A A : \A s \in Seq(IndexRecord(A)) : IsIdx([f EXCEPT !.records = s])
  <1>1. PICK H, A : f \in [header : H, count : Nat, records : Seq(IndexRecord(A))]
    BY DEF IsIdx
  <1>2. ASSUME NEW h
        PROVE  IsIdx([f EXCEPT !.header = h])
    <2>1. [f EXCEPT !.header = h] \in [header : {h}, count : Nat, records : Seq(IndexRecord(A))]
      BY <1>1
    <2> QED BY <2>1 DEF IsIdx
  <1>3. ASSUME NEW n \in Nat
        PROVE  IsIdx([f EXCEPT !.count = n])
    <2>1. [f EXCEPT !.count = n] \in [header : H, count : Nat, records : Seq(IndexRecord(A))]
      BY <1>1
    <2> QED BY <2>1 DEF IsIdx
  <1>4. ASSUME NEW B, NEW s \in Seq(IndexRecord(B))
        PROVE  IsIdx([f EXCEPT !.records = s])
    <2>1. [f EXCEPT !.records = s] \in [header : H, count : Nat, records : Seq(IndexRecord(B))]
      BY <1>1
    <2> QED BY <2>1 DEF IsIdx
  <1> QED BY <1>2, <1>3, <1>4

LEMMA HarmedIdxIsIdx ==
  ASSUME NEW f, IsIdx(f), NEW g \in HarmedIdx(f)
  PROVE  IsIdx(g) /\ (g.header = "ok" => f.header = "ok")
  <1>1. PICK H, A : f \in [header : H, count : Nat, records : Seq(IndexRecord(A))]
    BY DEF IsIdx
  <1>2. \/ \E h \in {"missing", "short", "magic", "version", "size"} : g = [f EXCEPT !.header = h]
        \/ \E n \in Nat : g = [f EXCEPT !.count = n]
        \/ f.records # <<>> /\ g = [f EXCEPT !.records = Front(@)]
        \/ \E i \in DOMAIN f.records :
             /\ 1 \in DOMAIN f.records
             /\ g = [f EXCEPT !.records[1] = [f.records[i] EXCEPT !.line = f.records[1].line]]
        \/ \E i \in DOMAIN f.records : \E r \in HarmedRecord(f.records[i]) :
             g = [f EXCEPT !.records[i] = r]
    <2>1. \A i \in DOMAIN f.records : 1 \in DOMAIN f.records
      BY <1>1, LenProperties
    <2> DEFINE P == {[f EXCEPT !.header = h] : h \in {"missing", "short", "magic", "version", "size"}}
               Q == {[f EXCEPT !.count = n] : n \in {f.count - 1, f.count + 1} \cap Nat}
               R == {[f EXCEPT !.records = Front(@)] : k \in {k \in {1} : f.records # <<>>}}
               S == {[f EXCEPT !.records[1] = [f.records[i] EXCEPT !.line = f.records[1].line]] :
                       i \in DOMAIN f.records \ {1}}
               Of(i) == {[f EXCEPT !.records[i] = r] : r \in HarmedRecord(f.records[i])}
               T == UNION {Of(i) : i \in DOMAIN f.records}
    <2>2. g \in P \/ g \in Q \/ g \in R \/ g \in S \/ g \in T
      BY Zenon DEF HarmedIdx
    <2>3. g \in T => \E i \in DOMAIN f.records : g \in Of(i)
      <3> HIDE DEF Of
      <3> QED BY Zenon
    <2>4. g \in S => \E i \in DOMAIN f.records :
             g = [f EXCEPT !.records[1] = [f.records[i] EXCEPT !.line = f.records[1].line]]
      BY Zenon
    <2>5. g \in P => \E h \in {"missing", "short", "magic", "version", "size"} :
                        g = [f EXCEPT !.header = h]
      BY Zenon
    <2>6. g \in Q => \E n \in Nat : g = [f EXCEPT !.count = n]
      BY Zenon
    <2>7. g \in R => f.records # <<>> /\ g = [f EXCEPT !.records = Front(@)]
      BY Zenon
    <2>8. \A i : g \in Of(i) => \E r \in HarmedRecord(f.records[i]) : g = [f EXCEPT !.records[i] = r]
      BY Zenon
    <2> HIDE DEF P, Q, R, S, T, Of
    <2> QED BY <2>1, <2>2, <2>3, <2>4, <2>5, <2>6, <2>7, <2>8, Zenon
  <1>3. CASE \E h \in {"missing", "short", "magic", "version", "size"} : g = [f EXCEPT !.header = h]
    <2>1. PICK h \in {"missing", "short", "magic", "version", "size"} : g = [f EXCEPT !.header = h]
      BY <1>3
    <2>2. IsIdx(g)
      BY <2>1, ChangedIdx
    <2>3. g.header = h
      BY <1>1, <2>1
    <2> QED BY <2>2, <2>3
  <1>4. CASE \E n \in Nat : g = [f EXCEPT !.count = n]
    <2>1. PICK n \in Nat : g = [f EXCEPT !.count = n]
      BY <1>4
    <2> QED BY <1>1, <2>1, ChangedIdx
  <1>5. ASSUME NEW B, NEW s \in Seq(IndexRecord(B)), g = [f EXCEPT !.records = s]
        PROVE  IsIdx(g) /\ g.header = f.header
    <2>1. IsIdx(g)
      BY <1>5, ChangedIdx
    <2> QED BY <1>1, <1>5, <2>1
  <1>6. CASE f.records # <<>> /\ g = [f EXCEPT !.records = Front(@)]
    <2>1. Front(f.records) \in Seq(IndexRecord(A)) /\ g = [f EXCEPT !.records = Front(f.records)]
      BY <1>1, <1>6, FrontIsSeq
    <2> QED BY <1>5, <2>1
  <1>7. ASSUME NEW i \in DOMAIN f.records, NEW B, NEW r \in IndexRecord(B),
               g = [f EXCEPT !.records[i] = r]
        PROVE  IsIdx(g) /\ g.header = f.header
    <2>1. [f.records EXCEPT ![i] = r] \in Seq(IndexRecord(A \cup B))
      BY <1>1, <1>7, RecordIsReplaced
    <2>2. g = [f EXCEPT !.records = [f.records EXCEPT ![i] = r]]
      BY <1>7
    <2> QED BY <1>5, <2>1, <2>2
  <1>8. \A i \in DOMAIN f.records : f.records[i] \in IndexRecord(A)
    BY <1>1, LenProperties, ElementOfSeq
  <1>9. CASE \E i \in DOMAIN f.records :
               /\ 1 \in DOMAIN f.records
               /\ g = [f EXCEPT !.records[1] = [f.records[i] EXCEPT !.line = f.records[1].line]]
    <2>1. PICK i \in DOMAIN f.records :
               /\ 1 \in DOMAIN f.records
               /\ g = [f EXCEPT !.records[1] = [f.records[i] EXCEPT !.line = f.records[1].line]]
      BY <1>9
    <2>2. [f.records[i] EXCEPT !.line = f.records[1].line] \in IndexRecord(A)
      BY <1>8, <2>1 DEF IndexRecord
    <2> QED BY <1>7, <2>1, <2>2
  <1>10. CASE \E i \in DOMAIN f.records : \E r \in HarmedRecord(f.records[i]) :
                g = [f EXCEPT !.records[i] = r]
    <2> PICK i \in DOMAIN f.records : \E r \in HarmedRecord(f.records[i]) :
                g = [f EXCEPT !.records[i] = r]
      BY <1>10
    <2>1. PICK r \in HarmedRecord(f.records[i]) : g = [f EXCEPT !.records[i] = r]
      OBVIOUS
    <2>2. r \in IndexRecord(A \cup {f.records[i].schema + 1, <<>>})
      BY <1>8, <2>1, HarmedRecordIsRecord
    <2> QED BY <1>7, <2>1, <2>2
  <1> QED BY <1>2, <1>3, <1>4, <1>6, <1>9, <1>10

-----------------------------------------------------------------------------
(* The types of a build                                                    *)

BuildTypes ==
  /\ \E A : idx \in Seq(IndexRecord(A))
  /\ AreSchemas(schemas)

LEMMA BlobIsSeq ==
  ASSUME NEW rs \in Seq(TableRow)
  PROVE  IsSeq(ActionBlob(rs))
  <1>1. Len(ActionsOf(rs)) \in Nat /\ DOMAIN ActionsOf(rs) = 1..Len(ActionsOf(rs))
    <2>1. \E n : DOMAIN ActionsOf(rs) = 1..n
      BY DEF ActionsOf, Ordered
    <2>2. \E n : n \in Nat /\ DOMAIN ActionsOf(rs) = 1..n
      <3> DEFINE A == {<<rs[i].action, rs[i].size>> : i \in DOMAIN rs}
      <3>1. Cardinality(A) \in Nat
        <4> DEFINE f == [i \in DOMAIN rs |-> <<rs[i].action, rs[i].size>>]
        <4>1. f \in [DOMAIN rs -> A] /\ A = {f[i] : i \in DOMAIN rs}
          OBVIOUS
        <4> HIDE DEF f, A
        <4> QED BY <4>1, FiniteImages
      <3>2. DOMAIN ActionsOf(rs) = 1..Cardinality(A)
        BY DEF ActionsOf, Ordered
      <3> HIDE DEF A
      <3> QED BY <3>1, <3>2
    <2>3. PICK n \in Nat : DOMAIN ActionsOf(rs) = 1..n
      BY <2>2
    <2>4. ActionsOf(rs) \in [1..n -> {ActionsOf(rs)[k] : k \in 1..n}]
      BY <2>3 DEF ActionsOf, Ordered
    <2> QED BY <2>3, <2>4, FunctionIsSeq
  <1> DEFINE n == Len(ActionsOf(rs))
             blob == ActionBlob(rs)
  <1>2. DOMAIN blob = 1..n /\ blob = [a \in 1..n |-> blob[a]]
    BY <1>1 DEF ActionBlob
  <1> HIDE DEF n, blob
  <1>3. blob \in [1..n -> {blob[a] : a \in 1..n}]
    BY <1>2
  <1>4. blob \in Seq({blob[a] : a \in 1..n})
    BY <1>1, <1>3, FunctionIsSeq DEF n
  <1> QED BY <1>4 DEF IsSeq, blob

LEMMA FlushKeepsTypes ==
  ASSUME FilesInv, BuildTypes, Flush
  PROVE  BuildTypes'
  <1> DEFINE payload == Payload(rows)
             blob == ActionBlob(rows)
             r == Record(rows[1].line, SchemaId(blob), Len(HandsOf(rows)), offset, payload)
  <1>1. /\ rows \in Seq(TableRow) /\ rows # <<>>
        /\ idx' = Append(idx, r) /\ schemas' = SchemasWith(blob)
    BY DEF FilesInv, Walk, Flush, Flushable, Encodable
  <1>2. rows[1].line \in Nat
    <2>1. 1 \in 1..Len(rows)
      BY <1>1, LenProperties, EmptySeq
    <2>2. rows[1] \in TableRow
      BY <1>1, <2>1, ElementOfSeq
    <2> QED BY <2>2 DEF TableRow
  <1>3. Len(HandsOf(rows)) \in Nat
    BY <1>1, HandsAndActions
  <1>4. Len(payload) \in Nat
    BY <1>1, PayloadLength, LenProperties
  <1>5. offset \in Nat
    BY LenProperties DEF FilesInv, Packs, IsSeq, PfspHeaderSize
  <1>6. PICK A : idx \in Seq(IndexRecord(A))
    BY DEF BuildTypes
  <1> DEFINE B == A \cup {SchemaId(blob), payload}
  <1>7. r \in IndexRecord(B)
    <2> HIDE DEF payload, blob
    <2> QED BY <1>2, <1>3, <1>4, <1>5 DEF Record, IndexRecord
  <1>8. idx \in Seq(IndexRecord(B))
    <2> HIDE DEF payload, blob
    <2> QED BY <1>6, WiderRecords
  <1> HIDE DEF B, r
  <1>9. idx' \in Seq(IndexRecord(B))
    BY <1>1, <1>7, <1>8, AppendProperties
  <1>10. AreSchemas(schemas')
    <2>1. CASE schemas' = schemas
      BY <2>1 DEF BuildTypes
    <2>2. CASE schemas' = schemas \cup {SchemaRow(Cardinality(schemas) + 1, blob)}
      <3>1. IsSeq(blob)
        BY <1>1, BlobIsSeq
      <3>2. IsFiniteSet(schemas')
        BY <2>2, FS_AddElement DEF BuildTypes, AreSchemas
      <3> HIDE DEF blob
      <3>3. \A s \in schemas' : DOMAIN s = {"id", "count", "blob", "checksum", "key"} /\ IsSeq(s.blob)
        BY <2>2, <3>1 DEF BuildTypes, AreSchemas, SchemaRow
      <3> QED BY <3>2, <3>3 DEF AreSchemas
    <2> QED BY <1>1, <2>1, <2>2 DEF SchemasWith
  <1> QED BY <1>9, <1>10 DEF BuildTypes

-----------------------------------------------------------------------------
(* The types of the published files                                        *)

\* A directory of that form, with every good index listed.
IsDisk(D) ==
  /\ DOMAIN D = {"manifest", "entries", "catalog", "tables", "info", "lines", "indexed",
                 "schemas", "idx", "bin"}
  /\ D.entries \in Seq(Entry)
  /\ AreSchemas(D.schemas)
  /\ DOMAIN D.idx = Dim /\ DOMAIN D.bin = Dim
  /\ \A d \in Dim : IsIdx(D.idx[d]) /\ IsBin(D.bin[d])
  /\ \A d \in Dim : D.idx[d].header = "ok" => \E e \in ToSet(D.entries) : e.dim = d

LEMMA DiskIsDisk ==
  /\ IsDisk(disk) <=> DiskTypes /\ Listed
  /\ IsDisk(disk') <=> DiskTypes' /\ Listed'
  BY DEF IsDisk, DiskTypes, Listed

\* A field that the form says nothing about, the schemas, or an index or a file
\* of packs is another.
LEMMA ChangedDisk ==
  ASSUME NEW D, IsDisk(D)
  PROVE  /\ \A v : /\ IsDisk([D EXCEPT !.catalog = v])
                   /\ IsDisk([D EXCEPT !.tables = v])
                   /\ IsDisk([D EXCEPT !.info = v])
                   /\ IsDisk([D EXCEPT !.lines = v])
                   /\ IsDisk([D EXCEPT !.indexed = v])
                   /\ IsDisk([D EXCEPT !.manifest = v])
         /\ \A S : AreSchemas(S) => IsDisk([D EXCEPT !.schemas = S])
         /\ \A d \in Dim : \A f : IsIdx(f) /\ (f.header = "ok" => D.idx[d].header = "ok")
                                    => IsDisk([D EXCEPT !.idx[d] = f])
         /\ \A d \in Dim : \A f : IsBin(f) => IsDisk([D EXCEPT !.bin[d] = f])
  <1>1. ASSUME NEW v
        PROVE  IsDisk([D EXCEPT !.catalog = v])
    BY DEF IsDisk
  <1>2. ASSUME NEW v
        PROVE  IsDisk([D EXCEPT !.tables = v])
    BY DEF IsDisk
  <1>3. ASSUME NEW v
        PROVE  IsDisk([D EXCEPT !.info = v])
    BY DEF IsDisk
  <1>4. ASSUME NEW v
        PROVE  IsDisk([D EXCEPT !.lines = v])
    BY DEF IsDisk
  <1>5. ASSUME NEW v
        PROVE  IsDisk([D EXCEPT !.indexed = v])
    BY DEF IsDisk
  <1>6. ASSUME NEW v
        PROVE  IsDisk([D EXCEPT !.manifest = v])
    BY DEF IsDisk
  <1>7. ASSUME NEW S, AreSchemas(S)
        PROVE  IsDisk([D EXCEPT !.schemas = S])
    BY <1>7 DEF IsDisk
  <1>8. ASSUME NEW d \in Dim, NEW f, IsIdx(f), f.header = "ok" => D.idx[d].header = "ok"
        PROVE  IsDisk([D EXCEPT !.idx[d] = f])
    <2> DEFINE I == [D.idx EXCEPT ![d] = f]
               E == [D EXCEPT !.idx = I]
    <2>1. DOMAIN I = Dim /\ I[d] = f /\ \A e \in Dim : e # d => I[e] = D.idx[e]
      BY DEF IsDisk
    <2>2. E.idx = I /\ DOMAIN E = DOMAIN D /\ E.entries = D.entries
          /\ E.schemas = D.schemas /\ E.bin = D.bin
      <3> HIDE DEF I
      <3> QED BY DEF IsDisk
    <2> HIDE DEF I, E
    <2>3. \A e \in Dim : IsIdx(I[e]) /\ (I[e].header = "ok" => D.idx[e].header = "ok")
      BY <1>8, <2>1 DEF IsDisk
    <2>4. IsDisk(E)
      BY <2>1, <2>2, <2>3 DEF IsDisk
    <2> QED BY <2>4 DEF E, I
  <1>9. ASSUME NEW d \in Dim, NEW f, IsBin(f)
        PROVE  IsDisk([D EXCEPT !.bin[d] = f])
    <2> DEFINE I == [D.bin EXCEPT ![d] = f]
               E == [D EXCEPT !.bin = I]
    <2>1. DOMAIN I = Dim /\ I[d] = f /\ \A e \in Dim : e # d => I[e] = D.bin[e]
      BY DEF IsDisk
    <2>2. E.bin = I /\ DOMAIN E = DOMAIN D /\ E.entries = D.entries
          /\ E.schemas = D.schemas /\ E.idx = D.idx
      <3> HIDE DEF I
      <3> QED BY DEF IsDisk
    <2> HIDE DEF I, E
    <2>3. \A e \in Dim : IsBin(I[e])
      BY <1>9, <2>1 DEF IsDisk
    <2>4. IsDisk(E)
      BY <2>1, <2>2, <2>3 DEF IsDisk
    <2> QED BY <2>4 DEF E, I
  <1> QED BY <1>1, <1>2, <1>3, <1>4, <1>5, <1>6, <1>7, <1>8, <1>9

LEMMA ChangedSchemas ==
  ASSUME NEW S, AreSchemas(S), NEW s \in S
  PROVE  /\ AreSchemas({}) /\ AreSchemas(S \ {s})
         /\ \A t : DOMAIN t = DOMAIN s /\ IsSeq(t.blob) => AreSchemas((S \ {s}) \cup {t})
  <1>1. IsFiniteSet({}) /\ IsFiniteSet(S \ {s})
    BY FS_EmptySet, FS_Subset DEF AreSchemas
  <1>2. ASSUME NEW t, DOMAIN t = DOMAIN s, IsSeq(t.blob)
        PROVE  AreSchemas((S \ {s}) \cup {t})
    <2>1. IsFiniteSet((S \ {s}) \cup {t})
      BY <1>1, FS_AddElement
    <2> QED BY <1>2, <2>1 DEF AreSchemas
  <1> QED BY <1>1, <1>2 DEF AreSchemas

LEMMA ChangedEntries ==
  ASSUME NEW D, IsDisk(D), NEW i \in DOMAIN D.entries, NEW x \in Entry, x.dim = D.entries[i].dim
  PROVE  IsDisk([D EXCEPT !.entries[i] = x])
  <1> DEFINE S == D.entries
             T == [S EXCEPT ![i] = x]
             E == [D EXCEPT !.entries = T]
  <1>1. S \in Seq(Entry) /\ DOMAIN S = 1..Len(S) /\ i \in 1..Len(S)
    BY LenProperties DEF IsDisk
  <1>2. T \in Seq(Entry)
    BY <1>1, ExceptSeq
  <1>3. \A k \in DOMAIN S : k \in DOMAIN T /\ T[k].dim = S[k].dim
    BY <1>1
  <1> HIDE DEF T
  <1>4. E.entries = T /\ DOMAIN E = DOMAIN D /\ E.schemas = D.schemas
        /\ E.idx = D.idx /\ E.bin = D.bin
    BY DEF IsDisk
  <1> HIDE DEF E
  <1>5. ASSUME NEW e \in ToSet(S)
        PROVE  \E y \in ToSet(T) : y.dim = e.dim
    BY <1>3 DEF ToSet
  <1> HIDE DEF S
  <1>6. IsDisk(E)
    BY <1>2, <1>4, <1>5 DEF IsDisk, S
  <1> QED BY <1>6 DEF E, T, S

LEMMA HarmedCatalogIsDisk ==
  ASSUME IsDisk(disk), NEW D \in HarmedCatalog
  PROVE  IsDisk(D)
  <1> DEFINE S == disk.schemas
             Field == {[disk EXCEPT !.catalog = h] : h \in {"missing", "bad"}}
             Tables == {[disk EXCEPT !.tables = @ \ {t}] : t \in disk.tables}
             Rows == {[disk EXCEPT !.info = {}], [disk EXCEPT !.lines = {}],
                      [disk EXCEPT !.indexed = {}], [disk EXCEPT !.schemas = {}]}
             Schema(s) == {[disk EXCEPT !.schemas = (@ \ {s})],
                           [disk EXCEPT !.schemas = (@ \ {s}) \cup {[s EXCEPT !.count = @ + 1]}],
                           [disk EXCEPT !.schemas = (@ \ {s}) \cup {[s EXCEPT !.blob[1][1] = 5 - @]}],
                           [disk EXCEPT !.schemas = (@ \ {s}) \cup {[s EXCEPT !.key = <<>>]}]}
             Manifest == {[disk EXCEPT !.manifest = h] : h \in {"missing", "garbled", "version"}}
             Entries(i) == {[disk EXCEPT !.entries[i].failed = TRUE],
                            [disk EXCEPT !.entries[i].idxFile = FALSE],
                            [disk EXCEPT !.entries[i].binFile = FALSE]}
  <1>1. \/ D \in Field \/ D \in Tables \/ D \in Rows \/ D \in Manifest
        \/ D \in UNION {Schema(s) : s \in S}
        \/ D \in UNION {Entries(i) : i \in DOMAIN disk.entries}
    <2> HIDE DEF Field, Tables, Rows, Schema, Manifest, Entries, S
    <2>1. HarmedCatalog = Field \cup Tables \cup Rows \cup (UNION {Schema(s) : s \in S})
                          \cup Manifest \cup UNION {Entries(i) : i \in DOMAIN disk.entries}
      BY Zenon DEF HarmedCatalog, Field, Tables, Rows, Schema, Manifest, Entries, S
    <2> QED BY <2>1, Zenon
  <1>2. AreSchemas(S)
    BY DEF IsDisk
  <1>9. \A v : /\ IsDisk([disk EXCEPT !.catalog = v]) /\ IsDisk([disk EXCEPT !.tables = v])
               /\ IsDisk([disk EXCEPT !.info = v]) /\ IsDisk([disk EXCEPT !.lines = v])
               /\ IsDisk([disk EXCEPT !.indexed = v]) /\ IsDisk([disk EXCEPT !.manifest = v])
    BY ChangedDisk
  <1>3. CASE D \in Field
    BY <1>3, <1>9, Zenon
  <1>4. CASE D \in Tables
    <2>1. PICK t \in disk.tables : D = [disk EXCEPT !.tables = disk.tables \ {t}]
      BY <1>4
    <2> QED BY <1>9, <2>1, Zenon
  <1>5. CASE D \in Manifest
    BY <1>5, <1>9, Zenon
  <1>6. CASE D \in Rows
    <2>1. AreSchemas({})
      BY FS_EmptySet DEF AreSchemas
    <2>2. IsDisk([disk EXCEPT !.schemas = {}])
      BY <2>1, ChangedDisk
    <2> QED BY <1>6, <1>9, <2>2, Zenon
  <1>7. CASE D \in UNION {Schema(s) : s \in S}
    <2>1. PICK s \in S : D \in Schema(s)
      <3> HIDE DEF Schema, S
      <3> QED BY <1>7, Zenon
    <2>2. IsSeq(s.blob)
      BY <1>2 DEF AreSchemas
    <2>3. PICK Z : D = [disk EXCEPT !.schemas = Z] /\ AreSchemas(Z)
      <3>1. CASE D = [disk EXCEPT !.schemas = (@ \ {s})]
        BY <1>2, <3>1, ChangedSchemas
      <3>2. CASE D = [disk EXCEPT !.schemas = (@ \ {s}) \cup {[s EXCEPT !.count = @ + 1]}]
        <4> DEFINE t == [s EXCEPT !.count = @ + 1]
        <4>1. DOMAIN t = DOMAIN s /\ IsSeq(t.blob)
          BY <2>2
        <4>2. AreSchemas((S \ {s}) \cup {t})
          BY <1>2, <4>1, ChangedSchemas
        <4> QED BY <3>2, <4>2
      <3>3. CASE D = [disk EXCEPT !.schemas = (@ \ {s}) \cup {[s EXCEPT !.blob[1][1] = 5 - @]}]
        <4> DEFINE c == [s.blob EXCEPT ![1] = [s.blob[1] EXCEPT ![1] = 5 - s.blob[1][1]]]
                   t == [s EXCEPT !.blob = c]
        <4>1. IsSeq(c)
          BY <2>2, ReplacedIsSeq
        <4>2. "blob" \in DOMAIN s
          BY <1>2 DEF AreSchemas
        <4>3. DOMAIN t = DOMAIN s /\ t.blob = c
          <5> HIDE DEF c
          <5> QED BY <4>2
        <4> HIDE DEF t
        <4>4. AreSchemas((S \ {s}) \cup {t})
          BY <1>2, <4>1, <4>3, ChangedSchemas
        <4>5. t = [s EXCEPT !.blob[1][1] = 5 - @]
          BY DEF t
        <4> QED BY <3>3, <4>4, <4>5
      <3>4. CASE D = [disk EXCEPT !.schemas = (@ \ {s}) \cup {[s EXCEPT !.key = <<>>]}]
        <4> DEFINE t == [s EXCEPT !.key = <<>>]
        <4>1. DOMAIN t = DOMAIN s /\ IsSeq(t.blob)
          BY <2>2
        <4>2. AreSchemas((S \ {s}) \cup {t})
          BY <1>2, <4>1, ChangedSchemas
        <4> QED BY <3>4, <4>2
      <3> QED BY <2>1, <3>1, <3>2, <3>3, <3>4, Zenon
    <2> QED BY <2>3, ChangedDisk
  <1>8. CASE D \in UNION {Entries(i) : i \in DOMAIN disk.entries}
    <2>1. PICK i \in DOMAIN disk.entries : D \in Entries(i)
      <3> HIDE DEF Entries
      <3> QED BY <1>8, Zenon
    <2> DEFINE e == disk.entries[i]
    <2>2. e \in Entry
      BY LenProperties, ElementOfSeq DEF IsDisk
    <2>3. ASSUME NEW x \in Entry, x.dim = e.dim, D = [disk EXCEPT !.entries[i] = x]
          PROVE  IsDisk(D)
      BY <2>3, ChangedEntries
    <2>4. CASE D = [disk EXCEPT !.entries[i].failed = TRUE]
      <3>1. [e EXCEPT !.failed = TRUE] \in Entry /\ [e EXCEPT !.failed = TRUE].dim = e.dim
        BY <2>2 DEF Entry
      <3> QED BY <2>3, <2>4, <3>1
    <2>5. CASE D = [disk EXCEPT !.entries[i].idxFile = FALSE]
      <3>1. [e EXCEPT !.idxFile = FALSE] \in Entry /\ [e EXCEPT !.idxFile = FALSE].dim = e.dim
        BY <2>2 DEF Entry
      <3> QED BY <2>3, <2>5, <3>1
    <2>6. CASE D = [disk EXCEPT !.entries[i].binFile = FALSE]
      <3>1. [e EXCEPT !.binFile = FALSE] \in Entry /\ [e EXCEPT !.binFile = FALSE].dim = e.dim
        BY <2>2 DEF Entry
      <3> QED BY <2>3, <2>6, <3>1
    <2> QED BY <2>1, <2>4, <2>5, <2>6, Zenon
  <1> QED BY <1>1, <1>3, <1>4, <1>5, <1>6, <1>7, <1>8, Zenon

-----------------------------------------------------------------------------
(* Every step keeps the types                                              *)

\* Until the store is published the builder's invariant holds; afterwards the
\* source may be one that nobody builds from.
VerifyTypes ==
  /\ pc # "published" => FilesInv
  /\ BuildTypes /\ IsDisk(disk) /\ SourceTypes

LEMMA SourcesHaveTypes ==
  ASSUME source \in Sources
  PROVE  SourceTypes
  BY FilesAssumption DEF SourceTypes, IsSeq

LEMMA TypesStart == Init => VerifyTypes
  <1> SUFFICES ASSUME Init PROVE VerifyTypes
    OBVIOUS
  <1>1. FilesInv
    BY FilesStart
  <1>2. SourceTypes
    BY SourcesHaveTypes DEF Init
  <1>3. AreSchemas({})
    BY FS_EmptySet DEF AreSchemas
  <1>4. BuildTypes
    <2>1. idx \in Seq(IndexRecord({}))
      BY DEF Init
    <2> QED BY <1>3, <2>1 DEF BuildTypes, Init
  <1>5. IsIdx(NoIdx) /\ IsBin(NoBin)
    <2>1. NoIdx \in [header : {"missing"}, count : Nat, records : Seq(IndexRecord({}))]
      BY DEF NoIdx
    <2>2. NoBin \in [header : {"missing"}, bytes : Seq({})]
      BY DEF NoBin
    <2> QED BY <2>1, <2>2 DEF IsIdx, IsBin
  <1>6. NoIdx.header # "ok"
    BY DEF NoIdx
  <1>7. /\ DOMAIN disk = {"manifest", "entries", "catalog", "tables", "info", "lines", "indexed",
                          "schemas", "idx", "bin"}
        /\ disk.entries = <<>> /\ disk.schemas = {}
        /\ disk.idx = [d \in Dim |-> NoIdx] /\ disk.bin = [d \in Dim |-> NoBin]
    BY DEF Init
  <1>8. disk.entries \in Seq(Entry)
    BY <1>7
  <1> HIDE DEF Init
  <1>9. IsDisk(disk)
    BY <1>3, <1>5, <1>6, <1>7, <1>8 DEF IsDisk
  <1> QED BY <1>1, <1>2, <1>4, <1>9 DEF VerifyTypes

\* The dimension that is finished is one of those of the source, and it gets its
\* files and its entry.
LEMMA FinishKeepsDisk ==
  ASSUME FilesInv, BuildTypes, IsDisk(disk), FinishDimension
  PROVE  IsDisk(disk')
  <1> DEFINE d == Head(plan)
             f == [header |-> "ok", count |-> Len(idx), records |-> idx]
             b == [header |-> "ok", bytes |-> bin]
             x == [dim |-> d, failed |-> FALSE, idxFile |-> TRUE, binFile |-> TRUE]
             I == [disk.idx EXCEPT ![d] = f]
             B == [disk.bin EXCEPT ![d] = b]
             S == Append(disk.entries, x)
  <1>1. disk' = [disk EXCEPT !.idx = I, !.bin = B, !.entries = S]
    BY DEF FinishDimension
  <1>2. d \in Dim
    BY HeadTailProperties DEF FilesInv, Walk, FinishDimension
  <1>3. IsIdx(f)
    <2>1. PICK A : idx \in Seq(IndexRecord(A))
      BY DEF BuildTypes
    <2>2. Len(idx) \in Nat
      BY <2>1, LenProperties
    <2>3. f \in [header : {"ok"}, count : Nat, records : Seq(IndexRecord(A))]
      BY <2>1, <2>2
    <2> HIDE DEF f
    <2> QED BY <2>3 DEF IsIdx
  <1>4. IsBin(b)
    <2>1. PICK A : bin \in Seq(A)
      BY DEF FilesInv, Packs, IsSeq
    <2>2. b \in [header : {"ok"}, bytes : Seq(A)]
      BY <2>1
    <2> HIDE DEF b
    <2> QED BY <2>2 DEF IsBin
  <1>5. x \in Entry /\ x.dim = d
    BY <1>2 DEF Entry
  <1>6. DOMAIN I = Dim /\ I[d] = f /\ \A e \in Dim : e # d => I[e] = disk.idx[e]
    BY <1>2 DEF IsDisk
  <1>7. DOMAIN B = Dim /\ B[d] = b /\ \A e \in Dim : e # d => B[e] = disk.bin[e]
    BY <1>2 DEF IsDisk
  <1> HIDE DEF d, f, b, x, I, B
  <1>8. /\ S \in Seq(Entry)
        /\ x \in ToSet(S) /\ ToSet(disk.entries) \subseteq ToSet(S)
    <2>1. disk.entries \in Seq(Entry) /\ Len(disk.entries) \in Nat
          /\ DOMAIN disk.entries = 1..Len(disk.entries)
      BY LenProperties DEF IsDisk
    <2>2. /\ S \in Seq(Entry) /\ Len(S) = Len(disk.entries) + 1
          /\ \A i \in 1..Len(disk.entries) : S[i] = disk.entries[i]
          /\ S[Len(disk.entries) + 1] = x
      BY <1>5, <2>1, AppendProperties
    <2>3. DOMAIN S = 1..(Len(disk.entries) + 1)
      BY <2>2, LenProperties
    <2> HIDE DEF S
    <2> QED BY <2>1, <2>2, <2>3 DEF ToSet
  <1> HIDE DEF S
  <1>9. /\ DOMAIN disk' = DOMAIN disk /\ disk'.idx = I /\ disk'.bin = B /\ disk'.entries = S
        /\ disk'.schemas = disk.schemas
    BY <1>1 DEF IsDisk
  <1>10. \A e \in Dim : IsIdx(I[e]) /\ IsBin(B[e])
    BY <1>3, <1>4, <1>6, <1>7 DEF IsDisk
  <1>11. \A e \in Dim : I[e].header = "ok" => \E y \in ToSet(S) : y.dim = e
    BY <1>5, <1>6, <1>8 DEF IsDisk
  <1> QED BY <1>6, <1>7, <1>8, <1>9, <1>10, <1>11 DEF IsDisk

LEMMA PublishKeepsDisk ==
  ASSUME BuildTypes, IsDisk(disk), PublishManifest
  PROVE  IsDisk(disk')
  <1>1. /\ DOMAIN disk' = DOMAIN disk /\ disk'.idx = disk.idx /\ disk'.bin = disk.bin
        /\ disk'.entries = disk.entries /\ disk'.schemas = schemas
    BY DEF PublishManifest, IsDisk
  <1>2. AreSchemas(schemas)
    BY DEF BuildTypes
  <1> HIDE DEF PublishManifest
  <1> QED BY <1>1, <1>2 DEF IsDisk

LEMMA BuildKeepsTypes ==
  ASSUME VerifyTypes, FilesNext
  PROVE  VerifyTypes'
  <1>1. pc # "published"
    BY DEF FilesNext, CreateFiles, GatherRow, FlushLine, FlushLastLine, FailBuild,
           FinishDimension, PublishManifest
  <1>2. FilesInv /\ BuildTypes /\ IsDisk(disk) /\ SourceTypes
    BY <1>1 DEF VerifyTypes
  <1>3. FilesInv'
    BY <1>2, FilesStep
  <1>4. SourceTypes'
    BY <1>2 DEF SourceTypes, FilesNext, CreateFiles, GatherRow, FlushLine, FlushLastLine,
                FailBuild, FinishDimension, PublishManifest
  <1>5. BuildTypes' /\ IsDisk(disk')
    <2>1. CASE CreateFiles
      <3>1. idx' \in Seq(IndexRecord({})) /\ schemas' = schemas
        BY <2>1 DEF CreateFiles
      <3> QED BY <1>2, <2>1, <3>1 DEF BuildTypes, CreateFiles
    <2>2. CASE GatherRow
      BY <1>2, <2>2 DEF GatherRow, BuildTypes
    <2>3. CASE FlushLine
      <3>1. Flush /\ disk' = disk
        BY <2>3 DEF FlushLine
      <3> QED BY <1>2, <3>1, FlushKeepsTypes
    <2>4. CASE FlushLastLine
      <3>1. Flush /\ disk' = disk
        BY <2>4 DEF FlushLastLine
      <3> QED BY <1>2, <3>1, FlushKeepsTypes
    <2>5. CASE FailBuild
      BY <1>2, <2>5 DEF FailBuild, BuildTypes
    <2>6. CASE FinishDimension
      <3>1. BuildTypes'
        BY <1>2, <2>6 DEF FinishDimension, BuildTypes
      <3> QED BY <1>2, <2>6, <3>1, FinishKeepsDisk
    <2>7. CASE PublishManifest
      <3>1. BuildTypes'
        BY <1>2, <2>7 DEF PublishManifest, BuildTypes
      <3> QED BY <1>2, <2>7, <3>1, PublishKeepsDisk
    <2> QED BY <2>1, <2>2, <2>3, <2>4, <2>5, <2>6, <2>7 DEF FilesNext
  <1> QED BY <1>3, <1>4, <1>5 DEF VerifyTypes

-----------------------------------------------------------------------------
(* Damage and edits keep the types                                         *)

LEMMA DamageKeepsTypes ==
  ASSUME VerifyTypes, DamageFiles
  PROVE  VerifyTypes'
  <1>1. IsDisk(disk')
    <2>1. IsDisk(disk)
      BY DEF VerifyTypes
    <2>2. CASE disk' \in HarmedCatalog
      <3>1. \A D \in HarmedCatalog : IsDisk(D)
        BY <2>1, HarmedCatalogIsDisk
      <3> QED BY <2>2, <3>1
    <2>3. CASE \E d \in Dim : \E f \in HarmedIdx(disk.idx[d]) : disk' = [disk EXCEPT !.idx[d] = f]
      <3>1. PICK d \in Dim : \E f \in HarmedIdx(disk.idx[d]) : disk' = [disk EXCEPT !.idx[d] = f]
        BY <2>3
      <3>2. PICK f \in HarmedIdx(disk.idx[d]) : disk' = [disk EXCEPT !.idx[d] = f]
        BY <3>1
      <3>3. IsIdx(disk.idx[d])
        BY <2>1 DEF IsDisk
      <3>4. IsIdx(f) /\ (f.header = "ok" => disk.idx[d].header = "ok")
        BY <3>2, <3>3, HarmedIdxIsIdx
      <3>5. IsDisk([disk EXCEPT !.idx[d] = f])
        BY <2>1, <3>4, ChangedDisk
      <3> QED BY <3>2, <3>5
    <2>4. CASE \E d \in Dim : \E f \in HarmedBin(disk.bin[d]) : disk' = [disk EXCEPT !.bin[d] = f]
      <3>1. PICK d \in Dim : \E f \in HarmedBin(disk.bin[d]) : disk' = [disk EXCEPT !.bin[d] = f]
        BY <2>4
      <3>2. PICK f \in HarmedBin(disk.bin[d]) : disk' = [disk EXCEPT !.bin[d] = f]
        BY <3>1
      <3>3. IsBin(disk.bin[d])
        BY <2>1 DEF IsDisk
      <3>4. IsBin(f)
        BY <3>2, <3>3, HarmedBinIsBin
      <3>5. IsDisk([disk EXCEPT !.bin[d] = f])
        BY <2>1, <3>4, ChangedDisk
      <3> QED BY <3>2, <3>5
    <2> QED BY <2>2, <2>3, <2>4 DEF DamageFiles
  <1>2. pc' = "published" /\ BuildTypes' /\ SourceTypes'
    BY DEF DamageFiles, VerifyTypes, building, BuildTypes, SourceTypes
  <1> QED BY <1>1, <1>2 DEF VerifyTypes

\* A table of the source without some rows is a table.
LEMMA RemovedIsSeq ==
  ASSUME NEW s, IsSeq(s), NEW i \in DOMAIN s
  PROVE  IsSeq(RemoveAt(s, i))
  <1>1. PICK A : s \in Seq(A)
    BY DEF IsSeq
  <1>2. Len(s) \in Nat /\ i \in 1..Len(s)
    BY <1>1, LenProperties
  <1>3. SubSeq(s, 1, i - 1) \in Seq(A)
    BY <1>1, <1>2, SubSeqProperties
  <1>4. SubSeq(s, i + 1, Len(s)) \in Seq(A)
    BY <1>1, <1>2, SubSeqProperties
  <1>5. RemoveAt(s, i) \in Seq(A)
    BY <1>3, <1>4, ConcatProperties DEF RemoveAt
  <1> QED BY <1>5 DEF IsSeq

LEMMA RestIsSeq ==
  ASSUME NEW s, IsSeq(s), NEW line
  PROVE  IsSeq(RowsWithout(s, line))
  <1> DEFINE S == {i \in DOMAIN s : s[i].line # line}
             kept == Ordered(S, LAMBDA x, y : x < y)
             n == Cardinality(S)
             t == RowsWithout(s, line)
  <1>1. n \in Nat
    <2>1. DOMAIN s = 1..Len(s) /\ Len(s) \in Nat
      BY LenProperties DEF IsSeq
    <2>2. IsFiniteSet(DOMAIN s)
      BY <2>1, FS_Interval
    <2>3. IsFiniteSet(S)
      BY <2>2, FS_Subset
    <2> QED BY <2>3, FS_CardinalityType
  <1>2. DOMAIN kept = 1..n
    BY DEF Ordered
  <1>3. t = [k \in DOMAIN kept |-> s[kept[k]]]
    BY Zenon DEF RowsWithout
  <1> HIDE DEF S, kept, n, t
  <1>4. t \in [1..n -> {t[k] : k \in 1..n}]
    BY <1>2, <1>3
  <1>5. t \in Seq({t[k] : k \in 1..n})
    BY <1>1, <1>4, FunctionIsSeq
  <1> QED BY <1>5 DEF IsSeq, t

LEMMA ChangedSource ==
  ASSUME SourceTypes, NEW d \in Dim, NEW t, IsSeq(t), source' = [source EXCEPT ![d] = t]
  PROVE  SourceTypes'
  BY DEF SourceTypes

LEMMA EditKeepsTypes ==
  ASSUME VerifyTypes, EditSource
  PROVE  VerifyTypes'
  <1>1. SourceTypes'
    <2>1. SourceTypes
      BY DEF VerifyTypes
    <2>2. PICK d \in Dim :
            \/ \E i \in DOMAIN source[d] : source' = [source EXCEPT ![d] = RemoveAt(@, i)]
            \/ \E i \in DOMAIN source[d] :
                 source' = [source EXCEPT ![d] = RowsWithout(@, source[d][i].line)]
            \/ \E i \in DOMAIN source[d] :
                 source' \in {[source EXCEPT ![d][i].freq = @ + 1],
                              [source EXCEPT ![d][i].freq = @ + Step],
                              [source EXCEPT ![d][i].ev = IF @ = NoEv THEN 0 ELSE NoEv],
                              [source EXCEPT ![d][i].action = 5 - @],
                              [source EXCEPT ![d][i].hand = HandCount - 1 - @]}
      BY DEF EditSource
    <2>3. IsSeq(source[d])
      BY <2>1 DEF SourceTypes
    <2>4. CASE \E i \in DOMAIN source[d] : source' = [source EXCEPT ![d] = RemoveAt(@, i)]
      <3>1. PICK i \in DOMAIN source[d] : source' = [source EXCEPT ![d] = RemoveAt(source[d], i)]
        BY <2>4
      <3>2. IsSeq(RemoveAt(source[d], i))
        BY <2>3, RemovedIsSeq
      <3> QED BY <2>1, <3>1, <3>2, ChangedSource
    <2>5. CASE \E i \in DOMAIN source[d] :
                 source' = [source EXCEPT ![d] = RowsWithout(@, source[d][i].line)]
      <3>1. PICK i \in DOMAIN source[d] :
              source' = [source EXCEPT ![d] = RowsWithout(source[d], source[d][i].line)]
        BY <2>5
      <3>2. IsSeq(RowsWithout(source[d], source[d][i].line))
        BY <2>3, RestIsSeq
      <3> QED BY <2>1, <3>1, <3>2, ChangedSource
    <2>6. CASE \E i \in DOMAIN source[d] :
                 source' \in {[source EXCEPT ![d][i].freq = @ + 1],
                              [source EXCEPT ![d][i].freq = @ + Step],
                              [source EXCEPT ![d][i].ev = IF @ = NoEv THEN 0 ELSE NoEv],
                              [source EXCEPT ![d][i].action = 5 - @],
                              [source EXCEPT ![d][i].hand = HandCount - 1 - @]}
      <3>1. PICK i \in DOMAIN source[d] :
              \E x : source' = [source EXCEPT ![d] = [source[d] EXCEPT ![i] = x]]
        BY <2>6
      <3>2. PICK x : source' = [source EXCEPT ![d] = [source[d] EXCEPT ![i] = x]]
        BY <3>1
      <3>3. IsSeq([source[d] EXCEPT ![i] = x])
        BY <2>3, ReplacedIsSeq
      <3> QED BY <2>1, <3>2, <3>3, ChangedSource
    <2> QED BY <2>2, <2>4, <2>5, <2>6
  <1>2. pc' = "published" /\ BuildTypes' /\ IsDisk(disk')
    BY DEF EditSource, VerifyTypes, building, BuildTypes
  <1> QED BY <1>1, <1>2 DEF VerifyTypes

-----------------------------------------------------------------------------
(* What a report says of the files and of the source                       *)

\* A report that a command gives keeps its promises.
VerdictHolds(c, r) ==
  /\ Passes(r) => SoundStore(c.checksums)
  /\ (Passes(r) /\ c.mode = "cross" /\ c.sample = 0) => AnswersAll
  /\ (c.mode = "cross" /\ r.outcome = "report") =>
       LET standalone == StandaloneReport(c.checksums)
       IN /\ standalone.failures # {} => r.failures # {}
          /\ HasFailures(standalone.totals) => HasFailures(r.totals)

LEMMA StandaloneVerdict ==
  ASSUME DiskTypes, NEW c,
         c.mode # "cross" \/ ManifestFailures # {}
  PROVE  VerdictHolds(c, StandaloneReport(c.checksums))
  <1> DEFINE r == StandaloneReport(c.checksums)
  <1>1. Passes(r) => StandaloneFailures(c.checksums) = {}
    BY StandalonePasses DEF Passes
  <1>2. Passes(r) => SoundStore(c.checksums)
    BY <1>1, NoFailuresIsSound
  <1>3. Passes(r) => ManifestFailures = {}
    BY <1>1, NoFailuresInParts
  <1> HIDE DEF r
  <1> QED BY <1>2, <1>3 DEF VerdictHolds, r

LEMMA CrossVerdict ==
  ASSUME DiskTypes, SourceTypes, Listed, NEW c \in Commands, NEW sample \in Samples(c),
         ManifestFailures = {}
  PROVE  VerdictHolds(c, CrossReport(c, sample))
  <1> DEFINE r == CrossReport(c, sample)
             kept == StandaloneReport(c.checksums).failures
  <1>1. r.failures = {} => kept = {} /\ CrossFailures(c, sample) = {}
    BY CrossReportFailures
  <1>2. r.failures = {} => StandaloneFailures(c.checksums) = {}
    BY <1>1, StandalonePasses
  <1>3. r.failures = {} => SoundStore(c.checksums)
    BY <1>2, NoFailuresIsSound
  <1>4. r.failures = {} /\ c.sample = 0 => AnswersAll
    BY <1>1, <1>2, PassedSourceIsAnswered
  <1>5. /\ kept # {} => r.failures # {}
        /\ HasFailures(StandaloneReport(c.checksums).totals) => HasFailures(r.totals)
    BY CrossIsNoBetter
  <1> HIDE DEF r
  <1> QED BY <1>3, <1>4, <1>5 DEF VerdictHolds, Passes, r

LEMMA NoVerdict ==
  ASSUME NEW c, NEW r, r.outcome # "report"
  PROVE  VerdictHolds(c, r) /\ VerdictHolds(c, r)'
  BY DEF VerdictHolds, Passes

\* A verdict holds as long as neither the files nor the source change.
LEMMA SameStore ==
  ASSUME disk' = disk
  PROVE  \A checksums : SoundStore(checksums)' <=> SoundStore(checksums)
  <1>1. Successful' = Successful
    BY SameParts
  <1>2. \A b, r, checksums : SoundRecord(b, r, checksums)' <=> SoundRecord(b, r, checksums)
    BY DEF SoundRecord
  <1>3. \A d : Opens(d)' <=> Opens(d)
    BY DEF Opens
  <1> QED BY <1>1, <1>2, <1>3 DEF SoundStore

LEMMA SameAnswers ==
  ASSUME disk' = disk, source' = source
  PROVE  AnswersAll' <=> AnswersAll
  <1>1. \A d, row, tolerance : Answers(d, row, tolerance)' <=> Answers(d, row, tolerance)
    BY DEF Answers
  <1>2. CrossDims' = CrossDims
    BY DEF CrossDims
  <1> QED BY <1>1, <1>2 DEF AnswersAll

LEMMA SameVerdict ==
  ASSUME disk' = disk, source' = source
  PROVE  \A c, r : VerdictHolds(c, r)' <=> VerdictHolds(c, r)
  <1> SUFFICES ASSUME NEW c, NEW r
               PROVE  VerdictHolds(c, r)' <=> VerdictHolds(c, r)
    OBVIOUS
  <1>1. SoundStore(c.checksums)' <=> SoundStore(c.checksums)
    BY SameStore
  <1>2. AnswersAll' <=> AnswersAll
    BY SameAnswers
  <1>3. StandaloneReport(c.checksums)' = StandaloneReport(c.checksums)
    BY SameReport
  <1> QED BY <1>1, <1>2, <1>3 DEF VerdictHolds

-----------------------------------------------------------------------------
(* The invariant                                                           *)

\* What the report says of the command that gave it.
Verdict == \A c, r : command = c /\ report = r => VerdictHolds(c, r)

VerifyInv ==
  /\ VerifyTypes
  /\ report # NoReport => pc = "published"
  /\ Verdict

LEMMA VerifyStart == InitVerify => VerifyInv
  <1> SUFFICES ASSUME InitVerify PROVE VerifyInv
    OBVIOUS
  <1>1. VerifyTypes
    BY TypesStart DEF InitVerify
  <1>2. report = NoReport /\ NoReport.outcome # "report"
    BY DEF InitVerify, NoReport
  <1>3. Verdict
    BY <1>2, NoVerdict DEF Verdict
  <1> QED BY <1>1, <1>2, <1>3 DEF VerifyInv

\* As long as there is no report there is nothing it says.
LEMMA Unreported ==
  ASSUME VerifyTypes', report = NoReport, report' = report
  PROVE  VerifyInv'
  <1>1. report' = NoReport /\ NoReport.outcome # "report"
    BY DEF NoReport
  <1>2. Verdict'
    BY <1>1, NoVerdict DEF Verdict
  <1> QED BY <1>1, <1>2 DEF VerifyInv

LEMMA VerifyStep == VerifyInv /\ [VerifyNext]_verifyVars => VerifyInv'
  <1> SUFFICES ASSUME VerifyInv, [VerifyNext]_verifyVars
               PROVE  VerifyInv'
    OBVIOUS
  <1>1. VerifyTypes /\ DiskTypes /\ Listed /\ SourceTypes
    BY DiskIsDisk DEF VerifyInv, VerifyTypes
  <1>2. CASE Build
    <2>1. FilesNext /\ report' = report
      BY <1>2 DEF Build
    <2>2. pc # "published"
      BY <2>1 DEF FilesNext, CreateFiles, GatherRow, FlushLine, FlushLastLine, FailBuild,
                  FinishDimension, PublishManifest
    <2>3. report = NoReport
      BY <2>2 DEF VerifyInv
    <2> QED BY <1>1, <2>1, <2>3, BuildKeepsTypes, Unreported
  <1>3. CASE DamageFiles
    <2>1. report = NoReport /\ report' = report
      BY <1>3 DEF DamageFiles
    <2> QED BY <1>1, <1>3, <2>1, DamageKeepsTypes, Unreported
  <1>4. CASE EditSource
    <2>1. report = NoReport /\ report' = report
      BY <1>4 DEF EditSource
    <2> QED BY <1>1, <1>4, <2>1, EditKeepsTypes, Unreported
  <1>5. ASSUME UNCHANGED fileVars, pc = "published",
               NEW c, NEW r, command' = c, report' = r, VerdictHolds(c, r)
        PROVE  VerifyInv'
    <2>1. disk' = disk /\ source' = source /\ pc' = "published"
      BY <1>5 DEF fileVars, building
    <2>2. VerifyTypes'
      BY <1>1, <1>5, <2>1 DEF VerifyTypes, fileVars, building, BuildTypes, SourceTypes
    <2>3. VerdictHolds(c, r)'
      BY <1>5, <2>1, SameVerdict
    <2>4. Verdict'
      BY <1>5, <2>3 DEF Verdict
    <2> QED BY <2>1, <2>2, <2>4 DEF VerifyInv
  <1>6. CASE VerifyStandalone
    <2>1. PICK c \in Commands : c.mode = "standalone" /\ command' = c
                                /\ report' = StandaloneReport(c.checksums)
      BY <1>6 DEF VerifyStandalone
    <2>2. VerdictHolds(c, StandaloneReport(c.checksums))
      BY <1>1, <2>1, StandaloneVerdict
    <2>3. UNCHANGED fileVars /\ pc = "published"
      BY <1>6 DEF VerifyStandalone
    <2>4. ASSUME NEW r, r = StandaloneReport(c.checksums)
          PROVE  VerifyInv'
      BY <1>5, <2>1, <2>2, <2>3, <2>4
    <2> QED BY <2>4
  <1>7. CASE VerifyCross
    <2>1. PICK c \in Commands :
            /\ c.mode = "cross" /\ command' = c
            /\ \/ ManifestFailures # {} /\ report' = StandaloneReport(c.checksums)
               \/ ManifestFailures = {} /\ ~SchemasLoad /\ report' = [NoReport EXCEPT !.outcome = "error"]
               \/ /\ ManifestFailures = {} /\ SchemasLoad
                  /\ \E sample \in Samples(c) : report' = CrossReport(c, sample)
      BY <1>7 DEF VerifyCross
    <2>2. UNCHANGED fileVars /\ pc = "published"
      BY <1>7 DEF VerifyCross
    <2>3. \E r : report' = r /\ VerdictHolds(c, r)
      <3>1. CASE ManifestFailures # {} /\ report' = StandaloneReport(c.checksums)
        <4>1. VerdictHolds(c, StandaloneReport(c.checksums))
          BY <1>1, <3>1, StandaloneVerdict
        <4> QED BY <3>1, <4>1
      <3>2. CASE report' = [NoReport EXCEPT !.outcome = "error"]
        <4> DEFINE r == [NoReport EXCEPT !.outcome = "error"]
        <4>1. r.outcome # "report"
          BY DEF NoReport
        <4>2. VerdictHolds(c, r)
          BY <4>1, NoVerdict
        <4> QED BY <3>2, <4>2
      <3>3. CASE ManifestFailures = {} /\ \E sample \in Samples(c) : report' = CrossReport(c, sample)
        <4>1. PICK sample \in Samples(c) : report' = CrossReport(c, sample)
          BY <3>3
        <4>2. VerdictHolds(c, CrossReport(c, sample))
          BY <1>1, <3>3, <4>1, CrossVerdict
        <4> QED BY <4>1, <4>2
      <3> QED BY <2>1, <3>1, <3>2, <3>3
    <2>4. PICK r : report' = r /\ VerdictHolds(c, r)
      BY <2>3
    <2> QED BY <1>5, <2>1, <2>2, <2>4
  <1>8. CASE UNCHANGED verifyVars
    <2>1. UNCHANGED fileVars /\ report' = report /\ command' = command
      BY <1>8 DEF verifyVars
    <2>2. CASE report = NoReport
      <3>1. VerifyTypes'
        <4>1. pc' = pc /\ BuildTypes' /\ disk' = disk /\ SourceTypes'
          BY <1>1, <2>1 DEF VerifyTypes, fileVars, building, BuildTypes, SourceTypes
        <4>2. pc # "published" => FilesInv'
          BY <1>1, <2>1, FilesStep DEF VerifyTypes
        <4> QED BY <1>1, <4>1, <4>2 DEF VerifyTypes
      <3> QED BY <2>1, <2>2, <3>1, Unreported
    <2>3. CASE report # NoReport
      <3>1. pc = "published"
        BY <2>3 DEF VerifyInv
      <3>2. PICK c, r : command = c /\ report = r
        OBVIOUS
      <3>3. VerdictHolds(c, r)
        BY <3>2 DEF VerifyInv, Verdict
      <3> QED BY <1>5, <2>1, <3>1, <3>2, <3>3
    <2> QED BY <2>2, <2>3
  <1> QED BY <1>2, <1>3, <1>4, <1>6, <1>7, <1>8 DEF VerifyNext

LEMMA VerifyAlways == VerifySpec => []VerifyInv
  BY VerifyStart, VerifyStep, PTL DEF VerifySpec

\* Whatever has become of the files, an index that opens gives for each line
\* the record that a search of all of them gives (find_by_dense_index).
THEOREM FindingIsSearch == VerifySpec => []FindIsSearch
  <1>1. VerifyInv => FindIsSearch
    BY FindingIsSearching, DiskIsDisk DEF VerifyInv, VerifyTypes
  <1> QED BY <1>1, VerifyAlways, PTL

\* A directory that passes with its checksums is served without an error,
\* whatever was done to its files (run_standalone_verify, read_and_validate_pack).
THEOREM VerifiedIsServable == VerifySpec => []VerifiedStoreIsServable
  <1>1. ASSUME VerifyInv, Passes(report), command.checksums
        PROVE  ServableStore
    <2>1. PICK c, r : command = c /\ report = r
      OBVIOUS
    <2>2. SoundStore(c.checksums)
      BY <1>1, <2>1 DEF VerifyInv, Verdict, VerdictHolds
    <2> QED BY <1>1, <2>1, <2>2, SoundStoreIsServable
  <1>2. VerifyInv => VerifiedStoreIsServable
    BY <1>1 DEF VerifiedStoreIsServable, ServableStore
  <1> QED BY <1>2, VerifyAlways, PTL

\* A directory that passes with the whole source answers every row of it,
\* whatever was done to the files or the source (run_cross_verify).
THEOREM VerifiedAnswersSource == VerifySpec => []VerifiedStoreAnswersSource
  <1>1. ASSUME VerifyInv, Passes(report), command.mode = "cross", command.sample = 0
        PROVE  AnswersAll
    <2>1. PICK c, r : command = c /\ report = r
      OBVIOUS
    <2> QED BY <1>1, <2>1 DEF VerifyInv, Verdict, VerdictHolds
  <1>2. VerifyInv => VerifiedStoreAnswersSource
    BY <1>1 DEF VerifiedStoreAnswersSource, AnswersAll
  <1> QED BY <1>2, VerifyAlways, PTL

\* The cross check is never content with what the standalone check rejects,
\* though it counts only the failures that report kept (run_cross_verify).
THEOREM CrossIsNoLaxer == VerifySpec => []CrossKeepsVerdict
  <1>1. VerifyInv => CrossKeepsVerdict
    <2> SUFFICES ASSUME VerifyInv, NEW c \in Commands, command = c, c.mode = "cross",
                        report.outcome = "report"
                 PROVE  /\ StandaloneReport(c.checksums).failures # {} => report.failures # {}
                        /\ HasFailures(StandaloneReport(c.checksums).totals)
                             => HasFailures(report.totals)
      BY Zenon DEF CrossKeepsVerdict
    <2>1. PICK r : report = r
      OBVIOUS
    <2> QED BY <2>1 DEF VerifyInv, Verdict, VerdictHolds
  <1> QED BY <1>1, VerifyAlways, PTL

\* In a directory without failures the three ways to read a pack give the same
\* cells, for every pack with hands (query, query_many_hands, query_all).
THEOREM ReadersAgree == VerifySpec => []DecodersAgree
  <1>1. ASSUME VerifyInv, Passes(report)
        PROVE  DecodersAgreeInStore
    <2>1. PICK c, r : command = c /\ report = r
      OBVIOUS
    <2>2. SoundStore(c.checksums)
      BY <1>1, <2>1 DEF VerifyInv, Verdict, VerdictHolds
    <2>3. DiskTypes
      BY <1>1, DiskIsDisk DEF VerifyInv, VerifyTypes
    <2> QED BY <2>2, <2>3, SoundStoreAgrees
  <1>2. VerifyInv => DecodersAgree
    BY <1>1, Zenon DEF DecodersAgree, DecodersAgreeInStore, DecodersAgreeOn
  <1> QED BY <1>2, VerifyAlways, PTL
-----------------------------------------------------------------------------
(* The lines that are built                                                *)

Stored(records) == {records[i].line : i \in DOMAIN records}

Ascending(records) ==
  \A i, j \in DOMAIN records : i < j => records[i].line < records[j].line

\* The first lines of a table, all of them or as many as a limit lets.
Most(l) == IF l = 0 THEN 1 ELSE l

FirstLines(L, l) ==
  IF l = NoLimit THEN L ELSE {x \in L : Cardinality({y \in L : y < x}) < Most(l)}

LEMMA MostIsNumber ==
  ASSUME NEW l \in Limits, l # NoLimit
  PROVE  /\ Most(l) \in Nat \ {0}
         /\ \A k \in Nat : k + 1 >= l <=> k + 1 >= Most(l)
  BY FilesAssumption DEF Most

\* Some lines of a table and with each all that are less.
IsBeginning(D, L) == D \subseteq L /\ \A x \in L, y \in D : x < y => x \in D

LEMMA BeginningIsFirst ==
  ASSUME NEW L \in SUBSET Nat, IsFiniteSet(L), NEW l \in Limits, NEW D, IsBeginning(D, L),
         \/ l # NoLimit /\ Cardinality(D) = Most(l)
         \/ D = L /\ (l # NoLimit => Cardinality(D) <= Most(l))
  PROVE  D = FirstLines(L, l)
  <1>1. CASE l = NoLimit
    BY <1>1 DEF FirstLines
  <1>2. CASE l # NoLimit
    <2> DEFINE n == Most(l)
    <2>0. n \in Nat
      BY <1>2, MostIsNumber
    <2> HIDE DEF n
    <2> DEFINE Less(x) == {y \in L : y < x}
    <2>1. IsFiniteSet(D) /\ Cardinality(D) \in Nat
      BY FS_Subset, FS_CardinalityType DEF IsBeginning
    <2>2. ASSUME NEW x \in L
          PROVE  /\ IsFiniteSet(Less(x)) /\ Cardinality(Less(x)) \in Nat
                 /\ x \in D => Cardinality(Less(x)) < n
                 /\ x \notin D => ~(Cardinality(Less(x)) < n)
      <3>1. IsFiniteSet(Less(x)) /\ Cardinality(Less(x)) \in Nat
        BY FS_Subset, FS_CardinalityType
      <3>2. ASSUME x \in D
            PROVE  Cardinality(Less(x)) < n
        <4>1. Less(x) \subseteq D /\ x \notin Less(x)
          <5>1. \A y \in L : y < x => y \in D
            BY <3>2 DEF IsBeginning
          <5>2. ~(x < x)
            OBVIOUS
          <5> QED BY <5>1, <5>2, Zenon
        <4>2. Cardinality(Less(x)) <= Cardinality(D)
              /\ (Cardinality(D) = Cardinality(Less(x)) => D = Less(x))
          BY <2>1, <4>1, FS_Subset
        <4>3. Cardinality(Less(x)) # Cardinality(D)
          BY <3>2, <4>1, <4>2
        <4> HIDE DEF Less
        <4> QED BY <1>2, <2>0, <2>1, <3>1, <4>2, <4>3 DEF n
      <3>3. ASSUME x \notin D
            PROVE  ~(Cardinality(Less(x)) < n)
        <4>1. Cardinality(D) = n
          BY <1>2, <3>3 DEF n
        <4>2. ASSUME NEW y \in D
              PROVE  y < x
          <5>1. y \in L /\ x # y /\ ~(x < y)
            BY <3>3 DEF IsBeginning
          <5> QED BY <5>1
        <4>3. D \subseteq Less(x)
          BY <4>2 DEF IsBeginning
        <4>4. Cardinality(D) <= Cardinality(Less(x))
          BY <3>1, <4>3, FS_Subset
        <4> HIDE DEF Less
        <4> QED BY <2>0, <3>1, <4>1, <4>4
      <3> QED BY <3>1, <3>2, <3>3
    <2>3. FirstLines(L, l) = {x \in L : Cardinality(Less(x)) < n}
      BY <1>2 DEF FirstLines, n
    <2> HIDE DEF Less
    <2> QED BY <2>2, <2>3 DEF IsBeginning
  <1> QED BY <1>1, <1>2

LEMMA AscendingCount ==
  ASSUME NEW s, IsSeq(s), \A i \in DOMAIN s : s[i].line \in Nat, Ascending(s)
  PROVE  IsFiniteSet(Stored(s)) /\ Cardinality(Stored(s)) = Len(s)
  <1>1. DOMAIN s = 1..Len(s) /\ Len(s) \in Nat
    BY LenProperties DEF IsSeq
  <1> DEFINE f == [i \in 1..Len(s) |-> s[i].line]
  <1>2. f \in [1..Len(s) -> Stored(s)]
    BY <1>1 DEF Stored
  <1>3. ASSUME NEW a \in 1..Len(s), NEW b \in 1..Len(s), f[a] = f[b]
        PROVE  a = b
    <2>1. s[a].line = s[b].line /\ s[a].line \in Nat
      BY <1>1, <1>3
    <2>2. ~(a < b) /\ ~(b < a)
      BY <1>1, <2>1 DEF Ascending
    <2> QED BY <1>1, <2>2
  <1>4. \A t \in Stored(s) : \E a \in 1..Len(s) : f[a] = t
    BY <1>1 DEF Stored
  <1> HIDE DEF f
  <1>5. f \in Bijection(1..Len(s), Stored(s))
    BY <1>2, <1>3, <1>4, Fun_IsBij
  <1>6. ExistsBijection(1..Len(s), Stored(s))
    BY <1>5 DEF ExistsBijection
  <1>7. IsFiniteSet(1..Len(s)) /\ Cardinality(1..Len(s)) = Len(s)
    BY <1>1, FS_Interval
  <1> QED BY <1>6, <1>7, FS_Bijection

\* No line lies between two lines of a set.
NoGap(L) == \A m, n \in L : m <= n => m..n \subseteq L

LEMMA DenseIfNoGap ==
  ASSUME NEW f, IsSeq(f.records), f.count = Len(f.records),
         \A i \in DOMAIN f.records : f.records[i].line \in Nat, Ascending(f.records)
  PROVE  Dense(f) <=> NoGap(Stored(f.records))
  <1> DEFINE s == f.records
             n == Len(s)
  <1>1. DOMAIN s = 1..n /\ n \in Nat
    BY LenProperties DEF IsSeq
  <1>2. \A i \in 1..n : s[i].line \in Nat
    BY <1>1
  <1>3. \A i, j \in 1..n : i < j => s[i].line < s[j].line
    BY <1>1 DEF Ascending
  <1>4. Stored(s) = {s[i].line : i \in 1..n}
    BY <1>1 DEF Stored
  <1>5. ASSUME Dense(f), NEW a \in 1..n, NEW b \in 1..n, NEW x \in (s[a].line)..(s[b].line)
        PROVE  x \in Stored(s)
    <2>1. s[a].line = s[1].line + (a - 1) /\ s[b].line = s[1].line + (b - 1)
      BY <1>5 DEF Dense
    <2>2. 1 \in 1..n /\ s[1].line \in Nat
      BY <1>1, <1>2
    <2> DEFINE k == x - s[1].line + 1
    <2> HIDE DEF s, n
    <2>3. k \in 1..n /\ s[1].line + (k - 1) = x
      BY <1>1, <2>1, <2>2
    <2>4. s[k].line = s[1].line + (k - 1)
      BY <1>5, <2>3 DEF Dense, s, n
    <2> HIDE DEF k
    <2> QED BY <1>4, <2>3, <2>4
  <1>6. ASSUME NoGap(Stored(s)), NEW i \in 2..n
        PROVE  s[i].line = s[i - 1].line + 1
    <2> HIDE DEF s, n
    <2>1. i \in 1..n /\ i - 1 \in 1..n /\ i - 1 < i
      BY <1>1, <1>6
    <2>2. s[i].line \in Nat /\ s[i - 1].line \in Nat /\ s[i - 1].line < s[i].line
      BY <1>2, <1>3, <2>1
    <2>3. s[i - 1].line + 1 \in (s[i - 1].line)..(s[i].line)
      BY <2>2
    <2>4. s[i].line \in Stored(s) /\ s[i - 1].line \in Stored(s)
      BY <1>4, <2>1
    <2>5. s[i - 1].line + 1 \in Stored(s)
      BY <1>6, <2>2, <2>3, <2>4 DEF NoGap
    <2>6. PICK k \in 1..n : s[k].line = s[i - 1].line + 1
      BY <1>4, <2>5
    <2>7. ~(k < i - 1) /\ k # i - 1
      BY <1>3, <2>1, <2>2, <2>6
    <2>8. ~(i < k)
      BY <1>3, <2>1, <2>2, <2>6
    <2>9. k = i
      BY <1>1, <2>1, <2>7, <2>8
    <2> QED BY <2>6, <2>9
  <1>7. NoGap(Stored(s)) => Dense(f)
    <2> SUFFICES ASSUME NoGap(Stored(s))
                 PROVE  Dense(f)
      OBVIOUS
    <2>1. f.count \in Nat /\ \A i \in 1..f.count : f.records[i].line \in Nat
      BY <1>1, <1>2
    <2>2. \A i \in 2..f.count : f.records[i].line = f.records[i - 1].line + 1
      BY <1>6
    <2> QED BY <2>1, <2>2, StepsAreDense
  <1>8. Dense(f) => NoGap(Stored(s))
    <2> HIDE DEF s, n
    <2> QED BY <1>4, <1>5 DEF NoGap
  <1> QED BY <1>7, <1>8
-----------------------------------------------------------------------------
(* The lines that are gathered                                             *)

LinesIn(T) == {T[k].line : k \in DOMAIN T}

\* The index has the lines of the rows stepped over, but for the line whose rows
\* are gathered, unless the limit was reached.
Gathered ==
  /\ at <= Len(Table)
  /\ Ascending(idx) /\ IsBeginning(Stored(idx), LinesIn(Table))
  /\ IF rows = <<>> THEN (at = 0 /\ idx = <<>>) \/ at = Len(Table)
     ELSE /\ at # 0
          /\ \A i \in DOMAIN rows : rows[i].line = Table[at].line
          /\ \A m \in Stored(idx) : m < Table[at].line
          /\ limit # NoLimit => Len(idx) < Most(limit)
  /\ \/ limit # NoLimit /\ Len(idx) = Most(limit) /\ rows = <<>>
     \/ /\ limit # NoLimit => Len(idx) <= Most(limit)
        /\ \A k \in 1..at : \/ Table[k].line \in Stored(idx)
                            \/ rows # <<>> /\ Table[k].line = Table[at].line

\* What the steps need to know of the table that is built.
LEMMA TableInOrder ==
  ASSUME FilesInv, pc = "rows"
  PROVE  /\ Table \in Seq(TableRow) /\ InOrder(Table)
         /\ Len(Table) \in Nat /\ DOMAIN Table = 1..Len(Table)
         /\ \A k \in 1..Len(Table) : Table[k].line \in Nat
         /\ at \in Nat
  <1>1. Table \in Seq(TableRow)
    BY TableIsSeq
  <1>2. InOrder(Table)
    <2>1. Head(plan) \in Dim
      BY HeadTailProperties DEF FilesInv, Walk
    <2> QED BY <2>1, FilesAssumption DEF FilesInv, Walk, Table
  <1>3. Len(Table) \in Nat /\ DOMAIN Table = 1..Len(Table)
    BY <1>1, LenProperties
  <1>4. ASSUME NEW k \in 1..Len(Table)
        PROVE  Table[k].line \in Nat
    <2>1. Table[k] \in TableRow
      BY <1>1, ElementOfSeq
    <2> QED BY <2>1 DEF TableRow
  <1> QED BY <1>1, <1>2, <1>3, <1>4 DEF FilesInv, Walk

\* The record of another line that ends the index.
LEMMA StoredWithNext ==
  ASSUME NEW s, IsSeq(s), NEW r, NEW t, t = Append(s, r)
  PROVE  /\ IsSeq(t) /\ Len(t) = Len(s) + 1
         /\ Stored(t) = Stored(s) \cup {r.line}
         /\ Ascending(s) /\ (\A m \in Stored(s) : m < r.line) => Ascending(t)
  <1>1. PICK A : s \in Seq(A)
    BY DEF IsSeq
  <1> DEFINE B == A \cup {r}
  <1>2. s \in Seq(B) /\ r \in B
    <2>1. Len(s) \in Nat /\ DOMAIN s = 1..Len(s) /\ s \in [1..Len(s) -> A]
      BY <1>1, LenProperties, ElementOfSeq
    <2>2. s \in [1..Len(s) -> B]
      BY <2>1
    <2> QED BY <2>1, <2>2, FunctionIsSeq
  <1> HIDE DEF B
  <1>3. /\ t \in Seq(B) /\ Len(t) = Len(s) + 1 /\ t[Len(s) + 1] = r
        /\ \A i \in 1..Len(s) : t[i] = s[i]
        /\ Len(s) \in Nat /\ DOMAIN s = 1..Len(s) /\ DOMAIN t = 1..Len(t)
    BY <1>2, AppendProperties, LenProperties
  <1>4. Stored(t) = Stored(s) \cup {r.line}
    <2>1. \A i \in 1..Len(s) : i \in DOMAIN t
      BY <1>3
    <2>2. Len(s) + 1 \in DOMAIN t /\ \A i \in DOMAIN t : i \in 1..Len(s) \/ i = Len(s) + 1
      BY <1>3
    <2> QED BY <1>3, <2>1, <2>2 DEF Stored
  <1>5. ASSUME Ascending(s), \A m \in Stored(s) : m < r.line,
               NEW i \in DOMAIN t, NEW j \in DOMAIN t, i < j
        PROVE  t[i].line < t[j].line
    <2>1. i \in 1..Len(s)
      BY <1>3, <1>5
    <2>2. CASE j \in 1..Len(s)
      BY <1>3, <1>5, <2>1, <2>2 DEF Ascending
    <2>3. CASE j = Len(s) + 1
      <3>1. t[i].line = s[i].line /\ s[i].line \in Stored(s) /\ t[j].line = r.line
        BY <1>3, <2>1, <2>3 DEF Stored
      <3> QED BY <1>5, <3>1
    <2> QED BY <1>3, <2>2, <2>3
  <1> QED BY <1>3, <1>4, <1>5 DEF Ascending, IsSeq

\* The line that is flushed is the next of the table.
LEMMA FlushedLineIsNext ==
  ASSUME FilesInv, BuildTypes, pc = "rows", Gathered, Flush
  PROVE  LET line == Table[at].line
         IN /\ rows # <<>> /\ at \in 1..Len(Table)
            /\ Stored(idx') = Stored(idx) \cup {line}
            /\ Len(idx') = Len(idx) + 1 /\ Len(idx) \in Nat
            /\ Ascending(idx') /\ IsBeginning(Stored(idx'), LinesIn(Table))
            /\ \A m \in Stored(idx') : m <= line
            /\ \A k \in 1..at : Table[k].line \in Stored(idx')
  <1> DEFINE line == Table[at].line
             payload == Payload(rows)
             blob == ActionBlob(rows)
             r == Record(rows[1].line, SchemaId(blob), Len(HandsOf(rows)), offset, payload)
  <1>1. rows # <<>> /\ rows \in Seq(TableRow) /\ idx' = Append(idx, r)
    BY DEF FilesInv, Walk, Flush, Flushable, Encodable
  <1>2. at \in 1..Len(Table) /\ at # 0
    BY <1>1, TableInOrder DEF Gathered
  <1>3. r.line = rows[1].line
    BY DEF Record
  <1>4. rows[1].line = line
    <2>1. 1 \in DOMAIN rows
      BY <1>1, LenProperties, EmptySeq
    <2> QED BY <1>1, <2>1 DEF Gathered
  <1> HIDE DEF r
  <1>5. IsSeq(idx) /\ Len(idx) \in Nat
    BY LenProperties DEF FilesInv, Packs, IsSeq
  <1>6. /\ Len(idx') = Len(idx) + 1
        /\ Stored(idx') = Stored(idx) \cup {line}
        /\ Ascending(idx) /\ (\A m \in Stored(idx) : m < line) => Ascending(idx')
    <2>1. PICK t : t = idx'
      OBVIOUS
    <2>2. t = Append(idx, r)
      BY <1>1, <2>1
    <2>3. /\ Len(t) = Len(idx) + 1
          /\ Stored(t) = Stored(idx) \cup {r.line}
          /\ Ascending(idx) /\ (\A m \in Stored(idx) : m < r.line) => Ascending(t)
      BY <1>5, <2>2, StoredWithNext
    <2>4. r.line = line
      BY <1>3, <1>4
    <2> HIDE DEF line
    <2>5. Stored(idx') = Stored(t) /\ (Ascending(idx') <=> Ascending(t))
      BY <2>1 DEF Stored, Ascending
    <2> QED BY <2>1, <2>3, <2>4, <2>5
  <1>7. Ascending(idx) /\ IsBeginning(Stored(idx), LinesIn(Table))
        /\ \A m \in Stored(idx) : m < line
    BY <1>1 DEF Gathered
  <1>8. Stored(idx) \subseteq Nat /\ line \in Nat
    <2>1. LinesIn(Table) \subseteq Nat
      BY TableInOrder DEF LinesIn
    <2> QED BY <1>2, <1>7, <2>1, TableInOrder DEF IsBeginning
  <1>9. ASSUME NEW k \in 1..at
        PROVE  Table[k].line \in Stored(idx')
    BY <1>1, <1>6, <1>9 DEF Gathered
  <1>10. ASSUME NEW x \in LinesIn(Table), x < line
         PROVE  x \in Stored(idx')
    <2>1. PICK k \in 1..Len(Table) : x = Table[k].line
      BY TableInOrder DEF LinesIn
    <2>2. at < k => line <= x
      BY <1>2, <2>1, TableInOrder DEF InOrder
    <2>3. x \in Nat
      BY <2>1, TableInOrder
    <2>4. ~(at < k)
      BY <1>8, <1>10, <2>2, <2>3
    <2>5. k \in 1..at
      BY <1>2, <2>1, <2>4, TableInOrder
    <2> QED BY <1>9, <2>1, <2>5
  <1>11. line \in LinesIn(Table)
    BY <1>2, TableInOrder DEF LinesIn
  <1> HIDE DEF line
  <1>12. IsBeginning(Stored(idx'), LinesIn(Table))
    BY <1>6, <1>7, <1>10, <1>11 DEF IsBeginning
  <1>13. \A m \in Stored(idx') : m <= line
    BY <1>6, <1>7, <1>8
  <1> QED BY <1>1, <1>2, <1>5, <1>6, <1>7, <1>9, <1>12, <1>13 DEF line
-----------------------------------------------------------------------------
LEMMA CreatedGathers ==
  ASSUME FilesInv, limit \in Limits, CreateFiles
  PROVE  Gathered'
  <1>0. limit # NoLimit => Most(limit) \in Nat \ {0} /\ 0 <= Most(limit)
    BY MostIsNumber
  <1>1. Table \in Seq(TableRow)
    <2>1. Head(plan) \in Dim
      BY HeadTailProperties DEF FilesInv, Walk, CreateFiles
    <2> QED BY <2>1, FilesAssumption DEF FilesInv, Walk, Table
  <1>2. Table' = Table /\ Len(Table) \in Nat
    BY <1>1, LenProperties DEF CreateFiles, Table
  <1>3. at' = 0 /\ rows' = <<>> /\ idx' = <<>> /\ Len(<<>>) = 0 /\ DOMAIN <<>> = {} /\ limit' = limit
    BY DEF CreateFiles
  <1>4. Ascending(idx)' /\ Stored(idx)' = {}
    BY <1>3 DEF Ascending, Stored
  <1>5. IsBeginning(Stored(idx), LinesIn(Table))'
    BY <1>4 DEF IsBeginning
  <1>6. \A k \in 1..0 : FALSE
    OBVIOUS
  <1> QED BY <1>0, <1>2, <1>3, <1>4, <1>5, <1>6 DEF Gathered

LEMMA RowGathers ==
  ASSUME FilesInv, limit \in Limits, Gathered, GatherRow
  PROVE  Gathered'
  <1>0. limit # NoLimit => Most(limit) \in Nat \ {0} /\ 0 <= Most(limit)
    BY MostIsNumber
  <1> DEFINE next == Table[at + 1].line
  <1>1. /\ pc = "rows" /\ at < Len(Table) /\ \A i \in DOMAIN rows : rows[i].line = next
        /\ rows' = Append(rows, Table[at + 1]) /\ at' = at + 1
        /\ idx' = idx /\ limit' = limit /\ Table' = Table
    BY DEF GatherRow, SameLine, Table
  <1>2. at \in Nat /\ Len(Table) \in Nat /\ \A k \in 1..Len(Table) : Table[k].line \in Nat
    BY <1>1, TableInOrder
  <1>3. /\ rows' # <<>> /\ Len(rows) \in Nat /\ DOMAIN rows = 1..Len(rows)
        /\ \A i \in DOMAIN rows' : rows'[i].line = next
    <2>1. rows \in Seq(TableRow) /\ Table[at + 1] \in TableRow
      BY <1>1, RowOfTable DEF FilesInv, Walk
    <2>2. Len(rows) \in Nat /\ DOMAIN rows = 1..Len(rows)
      BY <2>1, LenProperties
    <2> DEFINE more == Append(rows, Table[at + 1])
    <2>3. /\ Len(more) = Len(rows) + 1 /\ DOMAIN more = 1..(Len(rows) + 1)
          /\ more[Len(rows) + 1] = Table[at + 1]
          /\ \A i \in 1..Len(rows) : more[i] = rows[i]
      BY <2>1, <2>2, AppendProperties, LenProperties
    <2>4. \A i \in DOMAIN more : i \in 1..Len(rows) \/ i = Len(rows) + 1
      BY <2>2, <2>3
    <2> HIDE DEF more
    <2>5. \A i \in DOMAIN more : more[i].line = next
      BY <1>1, <2>2, <2>3, <2>4
    <2>6. more # <<>>
      BY <2>2, <2>3
    <2> QED BY <1>1, <2>2, <2>5, <2>6 DEF more
  <1>4. rows # <<>> => at # 0 /\ Table[at].line = next
    <2>1. rows # <<>> => 1 \in DOMAIN rows
      BY EmptySeq, LenProperties DEF FilesInv, Walk
    <2> QED BY <1>1, <2>1 DEF Gathered
  <1>5. rows = <<>> => at = 0 /\ idx = <<>> /\ Len(idx) = 0 /\ Stored(idx) = {}
    <2>1. rows = <<>> => at = 0 /\ idx = <<>>
      BY <1>1, <1>2 DEF Gathered
    <2> QED BY <2>1 DEF Stored
  <1>6. \A m \in Stored(idx) : m < next
    BY <1>4, <1>5 DEF Gathered
  <1>7. Len(idx) \in Nat
    BY LenProperties DEF FilesInv, Packs, IsSeq
  <1>8. limit # NoLimit => Len(idx) < Most(limit)
    BY <1>0, <1>5, <1>7 DEF Gathered
  <1>9. ASSUME NEW k \in 1..(at + 1)
        PROVE  Table[k].line \in Stored(idx) \/ Table[k].line = next
    <2>1. CASE k = at + 1
      BY <2>1
    <2>2. CASE k \in 1..at
      <3>1. rows # <<>>
        BY <1>5, <2>2
      <3>2. Table[k].line \in Stored(idx) \/ Table[k].line = Table[at].line
        BY <2>2, <3>1 DEF Gathered
      <3> QED BY <1>4, <3>1, <3>2
    <2> QED BY <1>2, <2>1, <2>2
  <1>10. Ascending(idx) /\ IsBeginning(Stored(idx), LinesIn(Table))
    BY DEF Gathered
  <1>11. Ascending(idx)' /\ Stored(idx)' = Stored(idx) /\ LinesIn(Table)' = LinesIn(Table)
    BY <1>1, <1>10 DEF Ascending, Stored, LinesIn
  <1>12. at + 1 <= Len(Table) /\ at + 1 # 0
    BY <1>1, <1>2
  <1>13. limit # NoLimit => Len(idx) <= Most(limit)
    BY <1>0, <1>7, <1>8
  <1>14. Table[at + 1].line = next
    OBVIOUS
  <1>15. IsBeginning(Stored(idx), LinesIn(Table))'
    BY <1>10, <1>11 DEF IsBeginning
  <1> HIDE DEF next
  <1> QED BY <1>1, <1>3, <1>6, <1>8, <1>9, <1>11, <1>12, <1>13, <1>14, <1>15 DEF Gathered

LEMMA FlushGathers ==
  ASSUME FilesInv, BuildTypes, limit \in Limits, Gathered, FlushLine \/ FlushLastLine
  PROVE  Gathered'
  <1>0. limit # NoLimit => Most(limit) \in Nat \ {0} /\ 0 <= Most(limit)
    BY MostIsNumber
  <1> DEFINE line == Table[at].line
  <1>1. /\ pc = "rows" /\ Flush /\ limit' = limit /\ Table' = Table
    BY DEF FlushLine, FlushLastLine, Table
  <1>2. /\ rows # <<>> /\ at \in 1..Len(Table)
        /\ Len(idx') = Len(idx) + 1 /\ Len(idx) \in Nat
        /\ Ascending(idx') /\ IsBeginning(Stored(idx'), LinesIn(Table))
        /\ \A m \in Stored(idx') : m <= line
        /\ \A k \in 1..at : Table[k].line \in Stored(idx')
    BY <1>1, FlushedLineIsNext
  <1>3. /\ at \in Nat /\ Len(Table) \in Nat /\ InOrder(Table) /\ DOMAIN Table = 1..Len(Table)
        /\ \A k \in 1..Len(Table) : Table[k].line \in Nat
    BY <1>1, TableInOrder
  <1>4. limit # NoLimit => Len(idx) < Most(limit)
    BY <1>2 DEF Gathered
  <1>5. Ascending(idx)' /\ Stored(idx)' = Stored(idx') /\ LinesIn(Table)' = LinesIn(Table)
        /\ IsBeginning(Stored(idx), LinesIn(Table))'
    BY <1>1, <1>2 DEF Ascending, Stored, LinesIn, IsBeginning
  <1>6. CASE FlushLastLine
    <2>1. rows' = <<>> /\ at' = at /\ at = Len(Table)
      BY <1>6 DEF FlushLastLine
    <2>2. limit # NoLimit => Len(idx') <= Most(limit)
      BY <1>0, <1>2, <1>4
    <2>3. at <= Len(Table)
      BY <1>3, <2>1
    <2> QED BY <1>1, <1>2, <1>5, <2>1, <2>2, <2>3 DEF Gathered
  <1>7. CASE FlushLine /\ LimitReached
    <2>1. rows' = <<>> /\ at' = Len(Table)
      BY <1>7 DEF FlushLine
    <2>2. limit # NoLimit /\ Len(idx') = Most(limit)
      <3>1. limit # NoLimit /\ Len(idx) + 1 >= limit
        BY <1>7 DEF LimitReached
      <3>2. Len(idx) + 1 >= Most(limit)
        BY <1>2, <3>1, MostIsNumber
      <3> QED BY <1>0, <1>2, <1>4, <3>1, <3>2
    <2>3. Len(Table) <= Len(Table)
      BY <1>3
    <2> QED BY <1>1, <1>5, <2>1, <2>2, <2>3 DEF Gathered
  <1>8. CASE FlushLine /\ ~LimitReached
    <2> DEFINE next == Table[at + 1].line
    <2>1. rows' = <<Table[at + 1]>> /\ at' = at + 1 /\ at < Len(Table)
      BY <1>8 DEF FlushLine
    <2>2. limit # NoLimit => Len(idx') < Most(limit)
      <3>1. limit # NoLimit => ~(Len(idx) + 1 >= limit)
        BY <1>8 DEF LimitReached
      <3>2. limit # NoLimit => ~(Len(idx) + 1 >= Most(limit))
        BY <1>2, <3>1, MostIsNumber
      <3> QED BY <1>0, <1>2, <3>2
    <2>3. rows' # <<>> /\ \A i \in DOMAIN rows' : rows'[i].line = next
      BY <2>1
    <2>4. line < next
      <3>1. at \in 1..Len(Table) /\ at + 1 \in 1..Len(Table) /\ at < at + 1
        BY <1>2, <1>3, <2>1
      <3>2. line <= next
        BY <1>3, <3>1 DEF InOrder
      <3>3. line # next
        <4>1. PICK i \in DOMAIN rows : rows[i].line # next
          BY <1>8 DEF FlushLine, SameLine
        <4>2. rows[i].line = line
          BY <1>2, <4>1 DEF Gathered
        <4> QED BY <4>1, <4>2
      <3>4. line \in Nat /\ next \in Nat
        BY <1>3, <3>1
      <3> HIDE DEF line, next
      <3> QED BY <3>2, <3>3, <3>4
    <2>5. line \in Nat /\ next \in Nat /\ Stored(idx') \subseteq Nat
      <3>1. LinesIn(Table) \subseteq Nat
        BY <1>3 DEF LinesIn
      <3>2. at + 1 \in 1..Len(Table)
        BY <1>3, <2>1
      <3> QED BY <1>2, <1>3, <3>1, <3>2 DEF IsBeginning
    <2> HIDE DEF line, next
    <2>6. \A m \in Stored(idx') : m < next
      BY <1>2, <2>4, <2>5
    <2>7. \A k \in 1..(at + 1) : Table[k].line \in Stored(idx') \/ Table[k].line = next
      <3>1. \A k \in 1..(at + 1) : k \in 1..at \/ k = at + 1
        BY <1>3
      <3> QED BY <1>2, <3>1 DEF next
    <2>8. at + 1 <= Len(Table) /\ at + 1 # 0
      BY <1>3, <2>1
    <2>9. limit # NoLimit => Len(idx') <= Most(limit)
      BY <1>0, <1>2, <2>2
    <2>10. Table[at + 1].line = next
      BY DEF next
    <2> QED BY <1>1, <1>5, <2>1, <2>2, <2>3, <2>6, <2>7, <2>8, <2>9, <2>10 DEF Gathered
  <1> QED BY <1>6, <1>7, <1>8
-----------------------------------------------------------------------------
\* An index with the first lines of a table.
HasFirstLines(f, T, n) ==
  /\ f.header = "ok" /\ IsSeq(f.records) /\ f.count = Len(f.records)
  /\ \A i \in DOMAIN f.records : f.records[i].line \in Nat
  /\ Ascending(f.records)
  /\ Stored(f.records) = FirstLines(LinesIn(T), n)

\* The dimensions that a directory lists have the lines asked for.
ListsLines(D, tables, n) ==
  \A e \in ToSet(D.entries) :
    HasFirstLines(D.idx[e.dim], tables[e.dim], n) /\ D.bin[e.dim].header = "ok"

LinesInv ==
  /\ limit \in Limits
  /\ pc = "rows" => Gathered
  /\ ListsLines(disk, source, limit)

LEMMA WalkGathersFirstLines ==
  ASSUME FilesInv, BuildTypes, limit \in Limits, pc = "rows", Gathered, at = Len(Table), rows = <<>>
  PROVE  HasFirstLines([header |-> "ok", count |-> Len(idx), records |-> idx], Table, limit)
  <1> DEFINE L == LinesIn(Table)
             D == Stored(idx)
  <1>1. /\ Len(Table) \in Nat /\ DOMAIN Table = 1..Len(Table)
        /\ \A k \in 1..Len(Table) : Table[k].line \in Nat
    BY TableInOrder
  <1>2. L \subseteq Nat
    BY <1>1 DEF LinesIn
  <1>3. IsFiniteSet(L)
    <2> DEFINE f == [k \in DOMAIN Table |-> Table[k].line]
    <2>1. IsFiniteSet(DOMAIN Table)
      BY <1>1, FS_Interval
    <2>2. DOMAIN f = DOMAIN Table
      OBVIOUS
    <2>3. L = {f[k] : k \in DOMAIN Table}
      BY DEF LinesIn
    <2> HIDE DEF f, L
    <2> QED BY <2>1, <2>2, <2>3, ImageIsFinite
  <1>4. IsSeq(idx) /\ Len(idx) \in Nat
    BY LenProperties DEF FilesInv, Packs, IsSeq
  <1>5. Ascending(idx) /\ IsBeginning(D, L)
    BY DEF Gathered
  <1>6. \A i \in DOMAIN idx : idx[i].line \in Nat
    BY <1>2, <1>5 DEF IsBeginning, Stored
  <1>7. Cardinality(D) = Len(idx)
    BY <1>4, <1>5, <1>6, AscendingCount
  <1>8. \/ limit # NoLimit /\ Len(idx) = Most(limit)
        \/ (limit # NoLimit => Len(idx) <= Most(limit)) /\ L \subseteq D
    <2>1. ASSUME \A k \in 1..at : Table[k].line \in D
          PROVE  L \subseteq D
      BY <1>1, <2>1 DEF LinesIn
    <2> QED BY <2>1 DEF Gathered
  <1>9. D \subseteq L
    BY <1>5 DEF IsBeginning
  <1> HIDE DEF L, D
  <1>10. D = FirstLines(L, limit)
    <2>1. \/ limit # NoLimit /\ Cardinality(D) = Most(limit)
          \/ D = L /\ (limit # NoLimit => Cardinality(D) <= Most(limit))
      BY <1>7, <1>8, <1>9
    <2>2. L \in SUBSET Nat /\ IsBeginning(D, L)
      BY <1>2, <1>5
    <2> QED BY <1>3, <2>1, <2>2, BeginningIsFirst
  <1> QED BY <1>4, <1>5, <1>6, <1>10 DEF HasFirstLines, L, D

LEMMA FinishListsLines ==
  ASSUME FilesInv, BuildTypes, IsDisk(disk), LinesInv, FinishDimension
  PROVE  LinesInv'
  <1> DEFINE d == Head(plan)
             f == [header |-> "ok", count |-> Len(idx), records |-> idx]
             b == [header |-> "ok", bytes |-> bin]
             x == [dim |-> d, failed |-> FALSE, idxFile |-> TRUE, binFile |-> TRUE]
             I == [disk.idx EXCEPT ![d] = f]
             B == [disk.bin EXCEPT ![d] = b]
             S == Append(disk.entries, x)
  <1>1. disk' = [disk EXCEPT !.idx = I, !.bin = B, !.entries = S]
    BY DEF FinishDimension
  <1>2. pc' = "next" /\ source' = source /\ limit' = limit
    BY DEF FinishDimension
  <1>3. HasFirstLines(f, source[d], limit)
    BY WalkGathersFirstLines DEF FinishDimension, LinesInv, Table
  <1>4. x.dim = d /\ b.header = "ok"
    OBVIOUS
  <1>5. d \in Dim
    BY HeadTailProperties DEF FilesInv, Walk, FinishDimension
  <1>6. I[d] = f /\ \A e \in Dim : e # d => I[e] = disk.idx[e]
    BY <1>5 DEF IsDisk
  <1>7. B[d] = b /\ \A e \in Dim : e # d => B[e] = disk.bin[e]
    BY <1>5 DEF IsDisk
  <1> HIDE DEF d, f, b, x, I, B
  <1>8. disk.entries \in Seq(Entry) /\ Len(disk.entries) \in Nat
        /\ DOMAIN disk.entries = 1..Len(disk.entries)
    BY LenProperties DEF IsDisk
  <1>9. \A y \in ToSet(S) : y = x \/ y \in ToSet(disk.entries)
    <2> DEFINE R == disk.entries
    <2>1. PICK A : A = Entry \cup {x}
      OBVIOUS
    <2>2. R \in Seq(A) /\ x \in A
      <3>1. R \in [1..Len(R) -> Entry]
        BY <1>8, ElementOfSeq
      <3>2. R \in [1..Len(R) -> A]
        BY <2>1, <3>1
      <3> HIDE DEF R
      <3> QED BY <1>8, <2>1, <3>2, FunctionIsSeq DEF R
    <2>3. /\ S \in Seq(A) /\ Len(S) = Len(R) + 1 /\ S[Len(R) + 1] = x
          /\ \A i \in 1..Len(R) : S[i] = R[i]
      BY <1>8, <2>2, AppendProperties
    <2>4. DOMAIN S = 1..(Len(R) + 1)
      BY <2>3, LenProperties
    <2> HIDE DEF S
    <2> QED BY <1>8, <2>3, <2>4 DEF ToSet
  <1>10. \A y \in ToSet(disk.entries) : y.dim \in Dim
    <2>1. \A i \in 1..Len(disk.entries) : disk.entries[i] \in Entry
      BY <1>8, ElementOfSeq
    <2>2. \A y \in Entry : y.dim \in Dim
      BY DEF Entry
    <2> QED BY <1>8, <2>1, <2>2 DEF ToSet
  <1>11. disk'.idx = I /\ disk'.bin = B /\ disk'.entries = S
    BY <1>1 DEF IsDisk
  <1> HIDE DEF S
  <1>12. ASSUME NEW y \in ToSet(S)
         PROVE  HasFirstLines(I[y.dim], source[y.dim], limit) /\ B[y.dim].header = "ok"
    <2>1. CASE y.dim = d
      BY <1>3, <1>4, <1>6, <1>7, <2>1
    <2>2. CASE y.dim # d
      <3>1. y \in ToSet(disk.entries)
        BY <1>4, <1>9, <2>2
      <3>2. I[y.dim] = disk.idx[y.dim] /\ B[y.dim] = disk.bin[y.dim]
        BY <1>6, <1>7, <1>10, <2>2, <3>1
      <3> QED BY <3>1, <3>2 DEF LinesInv, ListsLines
    <2> QED BY <2>1, <2>2
  <1>13. ListsLines(disk', source, limit)
    BY <1>11, <1>12 DEF ListsLines
  <1> QED BY <1>2, <1>13 DEF LinesInv

LEMMA LinesStart == Init => LinesInv
  <1> SUFFICES ASSUME Init PROVE LinesInv
    OBVIOUS
  <1>1. limit \in Limits
    BY FilesAssumption DEF Init
  <1>2. ToSet(disk.entries) = {}
    <2>1. disk.entries = <<>> /\ DOMAIN <<>> = {}
      BY DEF Init
    <2> QED BY <2>1 DEF ToSet
  <1> QED BY <1>1, <1>2 DEF Init, LinesInv, ListsLines

LEMMA BuildKeepsLines ==
  ASSUME FilesInv, BuildTypes, IsDisk(disk), LinesInv, FilesNext
  PROVE  LinesInv'
  <1>1. CASE CreateFiles
    <2>1. Gathered'
      BY <1>1, CreatedGathers DEF LinesInv
    <2> QED BY <1>1, <2>1 DEF LinesInv, CreateFiles
  <1>2. CASE GatherRow
    <2>1. Gathered'
      BY <1>2, RowGathers DEF LinesInv, GatherRow
    <2> QED BY <1>2, <2>1 DEF LinesInv, GatherRow
  <1>3. CASE FlushLine
    <2>1. Gathered'
      BY <1>3, FlushGathers DEF LinesInv, FlushLine
    <2> QED BY <1>3, <2>1 DEF LinesInv, FlushLine
  <1>4. CASE FlushLastLine
    <2>1. Gathered'
      BY <1>4, FlushGathers DEF LinesInv, FlushLastLine
    <2> QED BY <1>4, <2>1 DEF LinesInv, FlushLastLine
  <1>5. CASE FailBuild
    BY <1>5 DEF LinesInv, FailBuild
  <1>6. CASE FinishDimension
    BY <1>6, FinishListsLines
  <1>7. CASE PublishManifest
    <2>1. disk'.entries = disk.entries /\ disk'.idx = disk.idx /\ disk'.bin = disk.bin
      BY <1>7 DEF PublishManifest, IsDisk
    <2>2. pc' = "published" /\ source' = source /\ limit' = limit
      BY <1>7 DEF PublishManifest
    <2>3. ListsLines(disk', source, limit)
      BY <2>1 DEF LinesInv, ListsLines
    <2> QED BY <2>2, <2>3 DEF LinesInv
  <1> QED BY <1>1, <1>2, <1>3, <1>4, <1>5, <1>6, <1>7 DEF FilesNext

\* The lines of a store that nobody has changed.
KeptLines == harmed = "" => LinesInv

LEMMA LinesStep == VerifyInv /\ KeptLines /\ [VerifyNext]_verifyVars => KeptLines'
  <1> SUFFICES ASSUME VerifyInv, harmed = "" => LinesInv, [VerifyNext]_verifyVars, harmed' = ""
               PROVE  LinesInv'
    BY DEF KeptLines
  <1>1. CASE Build
    <2>1. FilesNext /\ harmed = ""
      BY <1>1 DEF Build
    <2>2. pc # "published"
      BY <2>1 DEF FilesNext, CreateFiles, GatherRow, FlushLine, FlushLastLine, FailBuild,
                  FinishDimension, PublishManifest
    <2>3. FilesInv /\ BuildTypes /\ IsDisk(disk)
      BY <2>2 DEF VerifyInv, VerifyTypes
    <2> QED BY <2>1, <2>3, BuildKeepsLines
  <1>2. CASE DamageFiles \/ EditSource
    BY <1>2 DEF DamageFiles, EditSource
  <1>3. CASE UNCHANGED fileVars /\ harmed' = harmed
    BY <1>3 DEF LinesInv, fileVars, building, Gathered, Table
  <1>4. CASE VerifyStandalone \/ VerifyCross \/ UNCHANGED verifyVars
    BY <1>3, <1>4 DEF VerifyStandalone, VerifyCross, verifyVars
  <1> QED BY <1>1, <1>2, <1>4 DEF VerifyNext

LEMMA LinesAlways == VerifySpec => [](VerifyInv /\ KeptLines)
  <1>1. InitVerify => KeptLines
    BY LinesStart DEF InitVerify, KeptLines
  <1> QED BY <1>1, LinesStep, VerifyStart, VerifyStep, PTL DEF VerifySpec

\* What is published has the lines that were wanted, and opens if they have no gap.
LEMMA LinesAreBuilt ==
  ASSUME LinesInv, pc = "published", NEW d \in {e.dim : e \in Successful}
  PROVE  /\ {disk.idx[d].records[i].line : i \in DOMAIN disk.idx[d].records} = Wanted(d)
         /\ Opens(d) <=> Contiguous(d)
  <1> DEFINE f == disk.idx[d]
  <1>1. HasFirstLines(f, source[d], limit) /\ BinOpens(disk.bin[d])
    BY DEF LinesInv, ListsLines, Successful, BinOpens
  <1>2. Wanted(d) = FirstLines(LinesIn(source[d]), limit)
    BY DEF Wanted, FirstLines, LinesIn, Most
  <1>3. Contiguous(d) <=> NoGap(Wanted(d))
    BY DEF Contiguous, NoGap
  <1> HIDE DEF f
  <1>4. Stored(f.records) = Wanted(d)
    BY <1>1, <1>2 DEF HasFirstLines
  <1>5. Dense(f) <=> NoGap(Stored(f.records))
    BY <1>1, DenseIfNoGap DEF HasFirstLines
  <1>6. f.header = "ok" /\ f.count <= Len(f.records)
    <2>1. Len(f.records) \in Nat
      BY <1>1, LenProperties DEF HasFirstLines, IsSeq
    <2> QED BY <1>1, <2>1 DEF HasFirstLines
  <1>7. IdxOpens(f) <=> Contiguous(d)
    BY <1>3, <1>4, <1>5, <1>6 DEF IdxOpens
  <1> QED BY <1>1, <1>4, <1>7 DEF Opens, Stored, f

\* Whatever the source and the limit, what was built has the lines it was asked
\* for and no other, and it opens exactly if they have no gap
\* (build_dimension_files, --max-concrete-lines, validate_dense_index_layout).
THEOREM BuiltLines == VerifySpec => []BuiltStoreHasLines
  <1>1. KeptLines => BuiltStoreHasLines
    BY LinesAreBuilt DEF KeptLines, BuiltStoreHasLines
  <1> QED BY <1>1, LinesAlways, PTL
-----------------------------------------------------------------------------
(* The bits of a mask                                                      *)

\* The sums that a mask is built of, from the last bit down.
Summing(n, b, f) == [a \in 0..n |-> IF a = n THEN 0 ELSE b[a + 1] + 2 * f[a + 1]]

\* What is left of a mask after so many shifts.
Shifting(mask, n, g) == [k \in 0..n |-> IF k = 0 THEN mask ELSE g[k - 1] \div 2]

LEMMA SumsExist ==
  ASSUME NEW n \in Nat, NEW b \in [1..n -> {0, 1}]
  PROVE  \E f \in [0..n -> Nat] : f = Summing(n, b, f)
  <1> DEFINE Partial(k, f) == \A a \in (n - k)..n :
                                f[a] = IF a = n THEN 0 ELSE b[a + 1] + 2 * f[a + 1]
             Bad == {k \in 0..n : ~\E f \in [0..n -> Nat] : Partial(k, f)}
  <1>1. Bad = {}
    <2> SUFFICES ASSUME Bad # {} PROVE FALSE
      OBVIOUS
    <2>1. Bad \in SUBSET Nat
      OBVIOUS
    <2>2. PICK k \in Bad : \A j \in Bad : k <= j
      <3> HIDE DEF Bad
      <3> QED BY <2>1, LeastNumber
    <2>3. k \in 0..n
      OBVIOUS
    <2>4. CASE k = 0
      <3> DEFINE f == [a \in 0..n |-> 0]
      <3>1. f \in [0..n -> Nat]
        OBVIOUS
      <3>2. Partial(0, f)
        <4>1. \A a \in n..n : a = n /\ a \in 0..n
          OBVIOUS
        <4> QED BY <4>1
      <3> QED BY <2>4, <3>1, <3>2
    <2>5. CASE k # 0
      <3> DEFINE p == k - 1
      <3>0. /\ p \in 0..n /\ ~(k <= p)
            /\ n - k \in 0..n /\ n - k + 1 \in 1..n /\ n - k + 1 = n - p
        BY <2>3, <2>5
      <3>a. p \notin Bad
        <4> HIDE DEF Bad, p
        <4> QED BY <2>2, <3>0
      <3>1. p \in 0..n /\ p \notin Bad /\ n - k \in 0..n /\ n - k + 1 \in 1..n /\ n - k + 1 = n - p
        <4> HIDE DEF Bad, p
        <4> QED BY <3>0, <3>a
      <3>2. PICK f \in [0..n -> Nat] : Partial(p, f)
        BY <3>1
      <3> DEFINE m == n - k
                 g == [a \in 0..n |-> IF a = m THEN b[m + 1] + 2 * f[m + 1] ELSE f[a]]
      <3>3. m \in 0..n /\ m + 1 \in 1..n /\ m + 1 = n - p
        BY <3>1
      <3>4. b[m + 1] \in {0, 1} /\ f[m + 1] \in Nat
        BY <3>3
      <3>5. g \in [0..n -> Nat]
        BY <3>4
      <3> HIDE DEF m, p
      <3>6. ASSUME NEW a \in m..n
            PROVE  g[a] = IF a = n THEN 0 ELSE b[a + 1] + 2 * g[a + 1]
        <4>1. CASE a = m
          <5>1. m # n /\ m \in 0..n /\ m + 1 \in 0..n /\ m + 1 # m
            BY <3>3
          <5>2. g[m] = b[m + 1] + 2 * f[m + 1] /\ g[m + 1] = f[m + 1]
            BY <5>1
          <5> HIDE DEF g
          <5> QED BY <4>1, <5>1, <5>2
        <4>2. CASE a # m
          <5>1. a \in (n - p)..n /\ a \in 0..n /\ (a # n => a + 1 \in 0..n /\ a + 1 # m)
            BY <3>3, <4>2
          <5>2. f[a] = IF a = n THEN 0 ELSE b[a + 1] + 2 * f[a + 1]
            BY <3>2, <5>1
          <5>3. g[a] = f[a] /\ (a # n => g[a + 1] = f[a + 1])
            BY <4>2, <5>1
          <5> HIDE DEF g
          <5> QED BY <5>2, <5>3
        <4> QED BY <4>1, <4>2
      <3>7. Partial(k, g)
        <4> HIDE DEF g
        <4> QED BY <3>6 DEF m
      <3> HIDE DEF g
      <3> QED BY <2>3, <3>5, <3>7
    <2> QED BY <2>4, <2>5
  <1>2. n \in 0..n /\ n - n = 0
    OBVIOUS
  <1>3. PICK f \in [0..n -> Nat] : Partial(n, f)
    <2>1. n \notin Bad
      <3> HIDE DEF Bad
      <3> QED BY <1>1
    <2> HIDE DEF Partial
    <2> QED BY <1>2, <2>1
  <1>4. \A a \in 0..n : f[a] = IF a = n THEN 0 ELSE b[a + 1] + 2 * f[a + 1]
    BY <1>2, <1>3
  <1> QED BY <1>4 DEF Summing

LEMMA SumsAreNumbers ==
  ASSUME NEW n \in Nat, NEW b \in [1..n -> {0, 1}], NEW f, f = Summing(n, b, f)
  PROVE  \A a \in 0..n : f[a] \in Nat
  <1> DEFINE Bad == {k \in 0..n : f[n - k] \notin Nat}
  <1>1. Bad = {}
    <2> SUFFICES ASSUME Bad # {} PROVE FALSE
      OBVIOUS
    <2>1. Bad \in SUBSET Nat
      OBVIOUS
    <2>2. PICK k \in Bad : \A j \in Bad : k <= j
      <3> HIDE DEF Bad
      <3> QED BY <2>1, LeastNumber
    <2>3. k \in 0..n /\ f[n - k] \notin Nat /\ n - k \in 0..n
      OBVIOUS
    <2>4. k # 0 => f[n - (k - 1)] \in Nat
      <3>1. k # 0 => k - 1 \in 0..n /\ ~(k <= k - 1)
        BY <2>3
      <3> QED BY <2>2, <3>1
    <2> DEFINE a == n - k
    <2>5. a \in 0..n /\ (a # n => a + 1 \in 1..n /\ f[a + 1] \in Nat)
      <3>1. a # n => k # 0 /\ n - (k - 1) = a + 1
        BY <2>3
      <3> QED BY <2>3, <2>4, <3>1
    <2>6. f[a] = IF a = n THEN 0 ELSE b[a + 1] + 2 * f[a + 1]
      <3> HIDE DEF a
      <3> QED BY <2>5 DEF Summing
    <2>7. f[a] \in Nat
      <3>1. a # n => b[a + 1] \in {0, 1}
        BY <2>5
      <3> HIDE DEF a
      <3> QED BY <2>5, <2>6, <3>1
    <2> QED BY <2>3, <2>7
  <1> SUFFICES ASSUME NEW a \in 0..n PROVE f[a] \in Nat
    OBVIOUS
  <1>2. n - a \in 0..n /\ n - (n - a) = a
    OBVIOUS
  <1>3. n - a \notin Bad
    BY <1>1
  <1> QED BY <1>2, <1>3

\* A shift takes back a step of the sum.
LEMMA ShiftsAreSums ==
  ASSUME NEW n \in Nat, NEW b \in [1..n -> {0, 1}], NEW f, f = Summing(n, b, f),
         NEW m \in 0..n, NEW g, g = Shifting(f[0], m, g)
  PROVE  \A k \in 0..m : g[k] = f[k]
  <1> DEFINE Bad == {k \in 0..m : g[k] # f[k]}
  <1> SUFFICES ASSUME Bad # {} PROVE FALSE
    OBVIOUS
  <1>1. Bad \in SUBSET Nat
    OBVIOUS
  <1>2. PICK k \in Bad : \A j \in Bad : k <= j
    <2> HIDE DEF Bad
    <2> QED BY <1>1, LeastNumber
  <1>3. k \in 0..m /\ g[k] # f[k] /\ g[k] = IF k = 0 THEN f[0] ELSE g[k - 1] \div 2
    BY DEF Shifting
  <1>4. k # 0 /\ k - 1 \in 0..m /\ g[k - 1] = f[k - 1]
    <2>1. k # 0
      BY <1>3
    <2>2. k - 1 \in 0..m /\ ~(k <= k - 1)
      BY <1>3, <2>1
    <2> QED BY <1>2, <2>1, <2>2
  <1> DEFINE p == k - 1
  <1>5. p \in 0..n /\ p # n /\ p + 1 = k /\ k \in 1..n
    BY <1>3, <1>4
  <1>6. f[p] = b[p + 1] + 2 * f[p + 1]
    <2> HIDE DEF p
    <2> QED BY <1>5 DEF Summing
  <1>7. f[k] \in Nat /\ b[k] \in {0, 1}
    BY <1>5, SumsAreNumbers
  <1>8. f[p] \div 2 = f[k]
    BY <1>5, <1>6, <1>7
  <1> QED BY <1>3, <1>4, <1>8

\* A bit of a mask says what it was set for (encode_concrete_line_pack against
\* decode_pack and decode_pack_for_hand).
MaskBits(rs, hand, actions) ==
  [a \in 1..Len(actions) |-> IF RowsOf(rs, hand, actions[a]) = {} THEN 0 ELSE 1]

LEMMA MaskIsNumber ==
  ASSUME NEW rs, NEW hand, NEW actions, IsSeq(actions)
  PROVE  /\ Len(actions) \in Nat
         /\ MaskBits(rs, hand, actions) \in [1..Len(actions) -> {0, 1}]
         /\ \E f : /\ f = Summing(Len(actions), MaskBits(rs, hand, actions), f)
                  /\ MaskOf(rs, hand, actions) = f[0]
  <1> DEFINE n == Len(actions)
             b == MaskBits(rs, hand, actions)
             Sums(f) == [a \in 0..n |->
                           IF a = n THEN 0
                           ELSE (IF RowsOf(rs, hand, actions[a + 1]) = {} THEN 0 ELSE 1)
                                + 2 * f[a + 1]]
             F == CHOOSE f : f = Sums(f)
  <1>1. n \in Nat
    BY LenProperties DEF IsSeq
  <1>2. b \in [1..n -> {0, 1}]
    BY DEF MaskBits
  <1>3. MaskOf(rs, hand, actions) = F[0]
    BY DEF MaskOf
  <1> HIDE DEF n
  <1>4. ASSUME NEW f
        PROVE  Sums(f) = Summing(n, b, f)
    <2>1. ASSUME NEW a \in 0..n, a # n
          PROVE  b[a + 1] = IF RowsOf(rs, hand, actions[a + 1]) = {} THEN 0 ELSE 1
      <3>1. a + 1 \in 1..n
        BY <1>1, <2>1
      <3> QED BY <3>1 DEF MaskBits, n
    <2> HIDE DEF b
    <2> QED BY <2>1 DEF Summing
  <1> HIDE DEF b, Sums
  <1>5. \E f : f = Sums(f)
    BY <1>1, <1>2, <1>4, SumsExist
  <1>6. F = Sums(F)
    BY <1>5
  <1>7. F = Summing(n, b, F)
    BY <1>4, <1>6
  <1> QED BY <1>1, <1>2, <1>3, <1>7 DEF n, b

\* The mask of a hand has the bit of an action exactly if a row of the line is of
\* that hand and that action (action_mask in encode_concrete_line_pack, and the
\* test of a bit when a pack is decoded).
THEOREM BitOfMask ==
  ASSUME NEW rs, NEW hand, NEW actions, IsSeq(actions), NEW a \in 0..(Len(actions) - 1)
  PROVE  Bit(MaskOf(rs, hand, actions), a) <=> RowsOf(rs, hand, actions[a + 1]) # {}
  <1> DEFINE n == Len(actions)
             b == MaskBits(rs, hand, actions)
             mask == MaskOf(rs, hand, actions)
             Shifted(g) == [k \in 0..a |-> IF k = 0 THEN mask ELSE g[k - 1] \div 2]
             G == CHOOSE g : g = Shifted(g)
  <1>1. /\ n \in Nat /\ b \in [1..n -> {0, 1}]
        /\ \E f : f = Summing(n, b, f) /\ mask = f[0]
    BY MaskIsNumber, Zenon
  <1>2. Bit(mask, a) <=> G[a] % 2 = 1
    BY DEF Bit
  <1>3. b[a + 1] = IF RowsOf(rs, hand, actions[a + 1]) = {} THEN 0 ELSE 1
    <2>1. a + 1 \in 1..n
      BY <1>1
    <2> QED BY <2>1 DEF MaskBits
  <1>3a. a \in 0..n /\ a # n /\ a + 1 \in 1..n
    BY <1>1
  <1>4. PICK f : f = Summing(n, b, f) /\ mask = f[0]
    BY <1>1
  <1> HIDE DEF b, mask, n
  <1>5. \A g : Shifted(g) = Shifting(f[0], a, g)
    BY <1>4 DEF Shifting
  <1>6. \A k \in 0..n : f[k] \in Nat
    BY <1>1, <1>4, SumsAreNumbers
  <1>7. \A k \in 0..n : f[k] = IF k = n THEN 0 ELSE b[k + 1] + 2 * f[k + 1]
    BY <1>4 DEF Summing
  <1>8. \E g : g = Shifted(g)
    <2> DEFINE g == [k \in 0..a |-> f[k]]
    <2>1. ASSUME NEW k \in 0..a
          PROVE  g[k] = IF k = 0 THEN mask ELSE g[k - 1] \div 2
      <3>1. CASE k = 0
        BY <1>4, <3>1
      <3>2. CASE k # 0
        <4> DEFINE p == k - 1
        <4>1. p \in 0..a /\ p \in 0..n /\ p # n /\ p + 1 = k /\ k \in 0..n /\ k \in 1..n
          BY <1>1, <1>3a, <3>2
        <4>2. f[p] = b[k] + 2 * f[k] /\ f[k] \in Nat /\ b[k] \in {0, 1}
          BY <1>1, <1>6, <1>7, <4>1
        <4>3. f[p] \div 2 = f[k]
          BY <4>2
        <4>4. g[k] = f[k] /\ g[p] = f[p]
          BY <4>1
        <4> QED BY <3>2, <4>3, <4>4
      <3> QED BY <3>1, <3>2
    <2>2. g = Shifted(g)
      BY <2>1
    <2> QED BY <2>2
  <1>9. G = Shifted(G)
    <2> HIDE DEF Shifted
    <2> QED BY <1>8
  <1> HIDE DEF G, Shifted
  <1>10. G[a] = f[a]
    <2>1. G = Shifting(f[0], a, G)
      BY <1>5, <1>9
    <2>2. \A k \in 0..a : G[k] = f[k]
      BY <1>1, <1>3a, <1>4, <2>1, ShiftsAreSums
    <2> QED BY <2>2, <1>3a, <1>1
  <1>11. f[a] = b[a + 1] + 2 * f[a + 1] /\ f[a + 1] \in Nat /\ b[a + 1] \in {0, 1}
    BY <1>1, <1>3a, <1>6, <1>7
  <1>12. f[a] % 2 = b[a + 1]
    BY <1>11
  <1> QED BY <1>2, <1>3, <1>10, <1>12 DEF n, mask
-----------------------------------------------------------------------------
(* The hands and the actions of a line, in their order                     *)

\* R is a strict order of S in which any two are ordered.
IsOrder(R, S) ==
  /\ \A x \in S : <<x, x>> \notin R
  /\ \A x, y, z \in S : <<x, y>> \in R /\ <<y, z>> \in R => <<x, z>> \in R
  /\ \A x, y \in S : x # y => <<x, y>> \in R \/ <<y, x>> \in R

\* The sequence f has the elements of S, each once, in the order R.
Enumerates(f, S, R) ==
  /\ IsFiniteSet(S) /\ f \in Seq(S) /\ Len(f) = Cardinality(S)
  /\ \A x \in S : \E k \in 1..Len(f) : f[k] = x
  /\ \A k, n \in 1..Len(f) : k < n => <<f[k], f[n]>> \in R

\* Images that are all different are as many.
LEMMA ImageIsAsLarge ==
  ASSUME NEW S, IsFiniteSet(S), NEW f, DOMAIN f = S,
         \A x, y \in S : f[x] = f[y] => x = y
  PROVE  Cardinality({f[x] : x \in S}) = Cardinality(S)
  <1> DEFINE T == {f[x] : x \in S}
             g == [x \in S |-> f[x]]
  <1>1. g \in [S -> T] /\ (\A x, y \in S : g[x] = g[y] => x = y) /\ \A t \in T : \E x \in S : g[x] = t
    OBVIOUS
  <1> HIDE DEF T, g
  <1>2. g \in Bijection(S, T)
    BY <1>1, Fun_IsBij
  <1>3. Cardinality(T) = Cardinality(S)
    BY <1>2, FS_Bijection, Fun_ExistsBij
  <1> QED BY <1>3 DEF T

LEMMA RanksAreOrder ==
  ASSUME NEW S, IsFiniteSet(S), NEW R, IsOrder(R, S),
         NEW f, f = [k \in 1..Cardinality(S) |->
                       CHOOSE x \in S : Cardinality({y \in S : <<y, x>> \in R}) = k - 1]
  PROVE  Enumerates(f, S, R)
  <1> DEFINE n == Cardinality(S)
             Below(x) == {y \in S : <<y, x>> \in R}
             rank == [x \in S |-> Cardinality(Below(x))]
             Ranks == {rank[x] : x \in S}
  <1>1. n \in Nat
    BY FS_CardinalityType
  <1>2. ASSUME NEW x \in S
        PROVE  /\ IsFiniteSet(Below(x)) /\ rank[x] \in Nat /\ rank[x] < n
    <2>1. Below(x) \in SUBSET S /\ Below(x) # S
      BY DEF IsOrder
    <2> HIDE DEF Below
    <2> QED BY <2>1, <1>1, FS_Subset, FS_CardinalityType
  <1>3. ASSUME NEW x \in S, NEW y \in S, <<x, y>> \in R
        PROVE  rank[x] < rank[y]
    <2>1. Below(x) \subseteq Below(y) /\ x \in Below(y) /\ x \notin Below(x)
      BY <1>3 DEF IsOrder
    <2>2. IsFiniteSet(Below(y)) /\ rank[x] \in Nat /\ rank[y] \in Nat
      BY <1>2
    <2>3. rank[x] = Cardinality(Below(x)) /\ rank[y] = Cardinality(Below(y))
      OBVIOUS
    <2> HIDE DEF Below, rank
    <2>4. Cardinality(Below(x)) <= Cardinality(Below(y)) /\ Cardinality(Below(x)) # Cardinality(Below(y))
      BY <2>1, <2>2, FS_Subset
    <2> QED BY <2>2, <2>3, <2>4
  <1> HIDE DEF Below
  <1>4. DOMAIN rank = S /\ \A x, y \in S : rank[x] = rank[y] => x = y
    <2>1. DOMAIN rank = S
      OBVIOUS
    <2> HIDE DEF rank
    <2>2. ASSUME NEW x \in S, NEW y \in S, x # y
          PROVE  rank[x] # rank[y]
      <3>1. rank[x] \in Nat /\ rank[y] \in Nat
        BY <1>2
      <3>2. <<x, y>> \in R \/ <<y, x>> \in R
        BY <2>2 DEF IsOrder
      <3>3. rank[x] < rank[y] \/ rank[y] < rank[x]
        BY <1>3, <3>2
      <3> QED BY <3>1, <3>3
    <2> QED BY <2>1, <2>2
  <1>5. Ranks = 0..(n - 1)
    <2>1. Ranks \subseteq 0..(n - 1)
      BY <1>1, <1>2
    <2>3. Cardinality(Ranks) = n
      <3> HIDE DEF rank
      <3> QED BY <1>4, ImageIsAsLarge
    <2>4. IsFiniteSet(0..(n - 1)) /\ Cardinality(0..(n - 1)) = n
      <3>1. 0 \in Int /\ n - 1 \in Int /\ (0 > n - 1 <=> n = 0) /\ n - 1 - 0 + 1 = n
        BY <1>1
      <3> HIDE DEF n
      <3> QED BY <1>1, <3>1, FS_Interval
    <2> HIDE DEF Ranks, n
    <2> QED BY <2>1, <2>3, <2>4, FS_Subset
  <1>6. \A x \in S : rank[x] = Cardinality({y \in S : <<y, x>> \in R})
    BY DEF Below
  <1> HIDE DEF rank
  <1>7. ASSUME NEW k \in 1..n
        PROVE  f[k] \in S /\ rank[f[k]] = k - 1
    <2>1. k - 1 \in Ranks
      <3>1. k - 1 \in 0..(n - 1)
        BY <1>1
      <3> HIDE DEF Ranks
      <3> QED BY <1>5, <3>1
    <2>2. \E x \in S : rank[x] = k - 1
      BY <2>1
    <2>3. f[k] = CHOOSE x \in S : Cardinality({y \in S : <<y, x>> \in R}) = k - 1
      OBVIOUS
    <2> QED BY <1>6, <2>2, <2>3
  <1>8. f \in Seq(S) /\ Len(f) = n
    <2>1. f \in [1..n -> S]
      BY <1>7
    <2> HIDE DEF n
    <2> QED BY <1>1, <2>1, FunctionIsSeq
  <1> HIDE DEF n, Ranks
  <1>9. ASSUME NEW x \in S
        PROVE  \E k \in 1..n : f[k] = x
    <2>1. rank[x] + 1 \in 1..n
      BY <1>1, <1>2
    <2>2. f[rank[x] + 1] \in S /\ rank[f[rank[x] + 1]] = rank[x]
      <3> DEFINE k == rank[x] + 1
      <3>1. f[k] \in S /\ rank[f[k]] = k - 1
        <4> HIDE DEF k
        <4> QED BY <1>7, <2>1 DEF k
      <3>2. k - 1 = rank[x]
        BY <1>2
      <3> HIDE DEF k
      <3>3. f[k] \in S /\ rank[f[k]] = rank[x]
        BY <3>1, <3>2
      <3> QED BY <3>3 DEF k
    <2>3. f[rank[x] + 1] = x
      BY <1>4, <2>2
    <2> QED BY <2>1, <2>3
  <1>10. ASSUME NEW k \in 1..n, NEW m \in 1..n, k < m
         PROVE  <<f[k], f[m]>> \in R
    <2>1. f[k] \in S /\ f[m] \in S /\ rank[f[k]] = k - 1 /\ rank[f[m]] = m - 1
      BY <1>7
    <2>2. f[k] # f[m] /\ ~(rank[f[m]] < rank[f[k]])
      BY <1>1, <1>10, <2>1
    <2> QED BY <1>3, <2>1, <2>2 DEF IsOrder
  <1> QED BY <1>8, <1>9, <1>10 DEF Enumerates, n

HandsIn(rs) == {rs[i].hand : i \in DOMAIN rs}
ActionsIn(rs) == {<<rs[i].action, rs[i].size>> : i \in DOMAIN rs}

LessPairs(S) == {z \in S \X S : z[1] < z[2]}
LessActions(S) == {z \in S \X S : z[1][1] < z[2][1] \/ (z[1][1] = z[2][1] /\ z[1][2] < z[2][2])}

LEMMA RowsHaveTypes ==
  ASSUME NEW rs \in Seq(TableRow)
  PROVE  /\ Len(rs) \in Nat /\ DOMAIN rs = 1..Len(rs)
         /\ \A i \in DOMAIN rs : /\ rs[i].hand \in Int /\ rs[i].action \in Int /\ rs[i].size \in Int
                                 /\ rs[i].freq \in Int /\ rs[i].ev \in Int /\ rs[i].line \in Nat
  <1>1. Len(rs) \in Nat /\ DOMAIN rs = 1..Len(rs)
    BY LenProperties
  <1>2. \A i \in 1..Len(rs) : rs[i] \in TableRow
    BY ElementOfSeq
  <1> QED BY <1>1, <1>2 DEF TableRow

LEMMA HandsAreOrdered ==
  ASSUME NEW rs \in Seq(TableRow)
  PROVE  Enumerates(HandsOf(rs), HandsIn(rs), LessPairs(HandsIn(rs)))
  <1> DEFINE S == HandsIn(rs)
             R == LessPairs(S)
  <1>1. IsFiniteSet(S) /\ S \subseteq Int
    <2>1. IsFiniteSet(DOMAIN rs)
      BY RowsHaveTypes, FS_Interval
    <2> DEFINE f == [i \in DOMAIN rs |-> rs[i].hand]
    <2>2. DOMAIN f = DOMAIN rs /\ S = {f[i] : i \in DOMAIN rs}
      BY DEF HandsIn
    <2>3. S \subseteq Int
      BY RowsHaveTypes DEF HandsIn
    <2> HIDE DEF f, S
    <2> QED BY <2>1, <2>2, <2>3, ImageIsFinite
  <1>2. HandsOf(rs) = [k \in 1..Cardinality(S) |->
                         CHOOSE x \in S : Cardinality({y \in S : y < x}) = k - 1]
    BY DEF HandsOf, Ordered, HandsIn
  <1> HIDE DEF S
  <1>3. \A x \in S : {y \in S : y < x} = {y \in S : <<y, x>> \in R}
    BY DEF LessPairs
  <1>4. HandsOf(rs) = [k \in 1..Cardinality(S) |->
                         CHOOSE x \in S : Cardinality({y \in S : <<y, x>> \in R}) = k - 1]
    BY <1>2, <1>3
  <1>5. IsOrder(R, S)
    BY <1>1 DEF IsOrder, LessPairs
  <1> QED BY <1>1, <1>4, <1>5, RanksAreOrder DEF S

LEMMA ActionsAreOrdered ==
  ASSUME NEW rs \in Seq(TableRow)
  PROVE  Enumerates(ActionsOf(rs), ActionsIn(rs), LessActions(ActionsIn(rs)))
  <1> DEFINE S == ActionsIn(rs)
             R == LessActions(S)
  <1>1. IsFiniteSet(S) /\ S \subseteq Int \X Int
    <2>1. IsFiniteSet(DOMAIN rs)
      BY RowsHaveTypes, FS_Interval
    <2> DEFINE f == [i \in DOMAIN rs |-> <<rs[i].action, rs[i].size>>]
    <2>2. DOMAIN f = DOMAIN rs /\ S = {f[i] : i \in DOMAIN rs}
      BY DEF ActionsIn
    <2>3. S \subseteq Int \X Int
      BY RowsHaveTypes DEF ActionsIn
    <2> HIDE DEF f, S
    <2> QED BY <2>1, <2>2, <2>3, ImageIsFinite
  <1>2. ActionsOf(rs) = [k \in 1..Cardinality(S) |->
                         CHOOSE x \in S : Cardinality({y \in S : y[1] < x[1] \/ (y[1] = x[1] /\ y[2] < x[2])}) = k - 1]
    BY DEF ActionsOf, Ordered, ActionsIn
  <1> HIDE DEF S
  <1>3. \A x \in S : {y \in S : y[1] < x[1] \/ (y[1] = x[1] /\ y[2] < x[2])} = {y \in S : <<y, x>> \in R}
    BY DEF LessActions
  <1>4. ActionsOf(rs) = [k \in 1..Cardinality(S) |->
                         CHOOSE x \in S : Cardinality({y \in S : <<y, x>> \in R}) = k - 1]
    BY <1>2, <1>3
  <1>5. IsOrder(R, S)
    BY <1>1 DEF IsOrder, LessActions
  <1> QED BY <1>1, <1>4, <1>5, RanksAreOrder DEF S
-----------------------------------------------------------------------------
(* The bytes of a pack                                                     *)

LEMMA JoinedByte ==
  ASSUME NEW entries, Len(entries) \in Nat, NEW width \in Nat \ {0},
         NEW k \in 0..(Len(entries) - 1), NEW j \in 1..width
  PROVE  /\ k * width + j \in 1..(Len(entries) * width)
         /\ Joined(entries, width)[k * width + j] = entries[k + 1][j]
  <1> DEFINE n == Len(entries)
             a == j - 1
             p == k * width + j
  <1>1. a \in 0..(width - 1) /\ k \in Nat /\ a + 1 = j
    OBVIOUS
  <1> HIDE DEF a
  <1>2. k * width + a + 1 \in 1..(n * width)
    BY <1>1, CellIsInside
  <1>3. k * width \in Nat
    BY <1>1, Z3
  <1>4. p = k * width + a + 1 /\ p - 1 = k * width + a
    BY <1>1, <1>3
  <1>5. (p - 1) \div width = k /\ (p - 1) % width = a
    <2> HIDE DEF p
    <2> QED BY <1>1, <1>4, CellNumber
  <1>6. Joined(entries, width)[p] = entries[(p - 1) \div width + 1][((p - 1) % width) + 1]
    <2>1. p \in 1..(n * width)
      BY <1>2, <1>4
    <2> HIDE DEF p
    <2> QED BY <2>1 DEF Joined
  <1> HIDE DEF p
  <1>7. Joined(entries, width)[p] = entries[k + 1][j]
    BY <1>1, <1>5, <1>6
  <1> QED BY <1>2, <1>4, <1>7 DEF p

LEMMA PartsAt ==
  ASSUME NEW r, NEW s, NEW t, IsSeq(r), IsSeq(s), IsSeq(t)
  PROVE  /\ \A i \in 1..Len(r) : (r \o s \o t)[i] = r[i]
         /\ \A i \in 1..Len(s) : (r \o s \o t)[Len(r) + i] = s[i]
         /\ \A i \in 1..Len(t) : (r \o s \o t)[Len(r) + Len(s) + i] = t[i]
  <1>1. PICK R, S, T : r \in Seq(R) /\ s \in Seq(S) /\ t \in Seq(T)
    BY DEF IsSeq
  <1> DEFINE U == R \cup S \cup T
  <1>2. r \in Seq(U) /\ s \in Seq(U) /\ t \in Seq(U)
    BY <1>1, SeqMonotonic
  <1> HIDE DEF U
  <1>3. PICK q : q = r \o s
    OBVIOUS
  <1>4. PICK u : u = q \o t
    OBVIOUS
  <1>5. /\ q \in Seq(U) /\ Len(q) = Len(r) + Len(s)
        /\ \A i \in 1..Len(r) + Len(s) : q[i] = IF i <= Len(r) THEN r[i] ELSE s[i - Len(r)]
    BY <1>2, <1>3, ConcatProperties
  <1>6. /\ Len(u) = Len(q) + Len(t)
        /\ \A i \in 1..Len(q) + Len(t) : u[i] = IF i <= Len(q) THEN q[i] ELSE t[i - Len(q)]
    <2>1. q \in Seq(U) /\ t \in Seq(U)
      BY <1>2, <1>5
    <2> QED BY <1>4, <2>1, ConcatProperties
  <1>7. Len(r) \in Nat /\ Len(s) \in Nat /\ Len(t) \in Nat
    BY <1>2, LenProperties
  <1>8. ASSUME NEW i \in 1..Len(r)
        PROVE  u[i] = r[i]
    <2>1. i \in 1..Len(r) + Len(s) /\ i \in 1..Len(q) + Len(t) /\ i <= Len(r) /\ i <= Len(q)
      BY <1>5, <1>7
    <2> QED BY <2>1, <1>5, <1>6
  <1>9. ASSUME NEW i \in 1..Len(s)
        PROVE  u[Len(r) + i] = s[i]
    <2> DEFINE k == Len(r) + i
    <2>1. k \in 1..Len(r) + Len(s) /\ k \in 1..Len(q) + Len(t) /\ ~(k <= Len(r)) /\ k <= Len(q)
          /\ k - Len(r) = i
      BY <1>5, <1>7
    <2> HIDE DEF k
    <2>2. u[k] = q[k] /\ q[k] = s[i]
      BY <2>1, <1>5, <1>6
    <2> QED BY <2>2 DEF k
  <1>10. ASSUME NEW i \in 1..Len(t)
         PROVE  u[Len(r) + Len(s) + i] = t[i]
    <2> DEFINE k == Len(r) + Len(s) + i
    <2>1. k \in 1..Len(q) + Len(t) /\ ~(k <= Len(q)) /\ k - Len(q) = i
      BY <1>5, <1>7
    <2> HIDE DEF k
    <2>2. u[k] = t[i]
      BY <2>1, <1>5, <1>6
    <2> QED BY <2>2 DEF k
  <1> QED BY <1>3, <1>4, <1>8, <1>9, <1>10

LEMMA WordIsRead ==
  ASSUME NEW bytes, NEW place, NEW v, \A k \in 1..4 : bytes[place + k] = <<v, k>>
  PROVE  ReadWord(bytes, place) = v
  <1>1. bytes[place + 1] = <<v, 1>>
    OBVIOUS
  <1> QED BY <1>1 DEF ReadWord

\* The numbers of a cell.
CellFreq(rs, hand, action) ==
  LET I == RowsOf(rs, hand, action)
  IN IF I = {} THEN 0 ELSE Float32(rs[Max(I)].freq)
CellEv(rs, hand, action) ==
  LET I == RowsOf(rs, hand, action)
  IN IF I = {} THEN NoEv
     ELSE IF rs[Max(I)].ev = NoEv THEN NoEv ELSE Float32(rs[Max(I)].ev)

LEMMA CellBytes ==
  ASSUME NEW rs, NEW hand, NEW action
  PROVE  \A k \in 1..4 : /\ CellOf(rs, hand, action)[k] = <<CellFreq(rs, hand, action), k>>
                         /\ CellOf(rs, hand, action)[4 + k] = <<CellEv(rs, hand, action), k>>
  <1>1. PICK u, v : u = CellFreq(rs, hand, action) /\ v = CellEv(rs, hand, action)
    OBVIOUS
  <1>2. CellOf(rs, hand, action) = Word(u) \o Word(v)
    BY <1>1 DEF CellOf, CellFreq, CellEv
  <1>3. ASSUME NEW x
        PROVE  Word(x) \in Seq({<<x, k>> : k \in 1..4}) /\ Len(Word(x)) = 4
               /\ \A k \in 1..4 : Word(x)[k] = <<x, k>>
    <2>1. Word(x) \in [1..4 -> {<<x, k>> : k \in 1..4}]
      BY DEF Word
    <2>2. Word(x) \in Seq({<<x, k>> : k \in 1..4}) /\ Len(Word(x)) = 4
      BY <2>1, FunctionIsSeq
    <2> QED BY <2>2 DEF Word
  <1> DEFINE S == {<<u, k>> : k \in 1..4} \cup {<<v, k>> : k \in 1..4}
             c == Word(u) \o Word(v)
  <1>4. Word(u) \in Seq(S) /\ Word(v) \in Seq(S)
    <2> DEFINE X == {<<u, k>> : k \in 1..4}
               Y == {<<v, k>> : k \in 1..4}
    <2>1. Word(u) \in Seq(X) /\ Word(v) \in Seq(Y)
      BY <1>3
    <2>2. S = X \cup Y
      OBVIOUS
    <2> HIDE DEF X, Y, S
    <2>3. X \subseteq S /\ Y \subseteq S
      BY <2>2
    <2> QED BY <2>1, <2>3, SeqMonotonic
  <1>5. PICK x, y : x = Word(u) /\ y = Word(v)
    OBVIOUS
  <1> HIDE DEF S
  <1>6. \A i \in 1..8 : c[i] = IF i <= 4 THEN x[i] ELSE y[i - 4]
    <2>1. x \in Seq(S) /\ y \in Seq(S) /\ Len(x) = 4 /\ Len(y) = 4
      BY <1>3, <1>4, <1>5
    <2>2. \A i \in 1..Len(x) + Len(y) : (x \o y)[i] = IF i <= Len(x) THEN x[i] ELSE y[i - Len(x)]
      BY <2>1, ConcatProperties
    <2>3. c = x \o y
      BY <1>5
    <2> HIDE DEF c
    <2>4. \A i \in 1..8 : i \in 1..Len(x) + Len(y) /\ (i <= 4 <=> i <= Len(x)) /\ i - 4 = i - Len(x)
      BY <2>1
    <2> QED BY <2>2, <2>3, <2>4
  <1> HIDE DEF c
  <1>7. ASSUME NEW k \in 1..4
        PROVE  c[k] = <<u, k>> /\ c[4 + k] = <<v, k>>
    <2>1. k \in 1..8 /\ k <= 4 /\ 4 + k \in 1..8 /\ ~(4 + k <= 4) /\ (4 + k) - 4 = k
      OBVIOUS
    <2>2. c[k] = x[k] /\ c[4 + k] = y[k]
      BY <1>6, <2>1
    <2> QED BY <1>3, <1>5, <2>2
  <1> QED BY <1>1, <1>2, <1>7 DEF c

\* Where the parts of the pack of a line are.
LEMMA PayloadParts ==
  ASSUME NEW rs \in Seq(TableRow)
  PROVE  LET P == Payload(rs)
             H == HandsOf(rs)
             A == ActionsOf(rs)
             m == Len(H)
             n == Len(A)
         IN /\ m \in Nat /\ n \in Nat
            /\ \A h \in 0..(m - 1) :
                 /\ P[h + 1] = <<H[h + 1], 0>>
                 /\ \A k \in 1..4 : P[m + (h * 4 + k)] = <<MaskOf(rs, H[h + 1], A), k>>
                 /\ \A a \in 0..(n - 1) : \A k \in 1..8 :
                      P[m + m * 4 + ((h * n + a) * 8 + k)] = CellOf(rs, H[h + 1], A[a + 1])[k]
  <1> DEFINE P == Payload(rs)
             H == HandsOf(rs)
             A == ActionsOf(rs)
             m == Len(H)
             n == Len(A)
             mn == m * n
             Ids == [h \in 1..m |-> <<H[h], 0>>]
             Masks == [h \in 1..m |-> Word(MaskOf(rs, H[h], A))]
             Cells == [c \in 1..mn |-> CellOf(rs, H[(c - 1) \div n + 1], A[((c - 1) % n) + 1])]
             M == Joined(Masks, 4)
             C == Joined(Cells, 8)
  <1>1. m \in Nat /\ n \in Nat
    BY HandsAndActions
  <1>2. mn \in Nat
    BY <1>1, Z3
  <1>3. P = Ids \o M \o C
    BY DEF Payload
  <1> HIDE DEF H, A, m, n, mn
  <1>4. /\ IsSeq(Ids) /\ Len(Ids) = m /\ Len(Masks) = m /\ Len(Cells) = mn
        /\ \A h \in 1..m : Ids[h] = <<H[h], 0>> /\ Masks[h] = Word(MaskOf(rs, H[h], A))
        /\ \A c \in 1..mn : Cells[c] = CellOf(rs, H[(c - 1) \div n + 1], A[((c - 1) % n) + 1])
    <2>1. /\ Ids \in [1..m -> {Ids[h] : h \in 1..m}]
          /\ Masks \in [1..m -> {Masks[h] : h \in 1..m}]
          /\ Cells \in [1..mn -> {Cells[c] : c \in 1..mn}]
      OBVIOUS
    <2>2. /\ \A h \in 1..m : Ids[h] = <<H[h], 0>> /\ Masks[h] = Word(MaskOf(rs, H[h], A))
          /\ \A c \in 1..mn : Cells[c] = CellOf(rs, H[(c - 1) \div n + 1], A[((c - 1) % n) + 1])
      OBVIOUS
    <2> HIDE DEF Ids, Masks, Cells
    <2>3. IsSeq(Ids) /\ Len(Ids) = m
      BY <1>1, <2>1, FunctionIsSeq DEF IsSeq
    <2>4. Len(Masks) = m
      BY <1>1, <2>1, FunctionIsSeq
    <2>5. Len(Cells) = mn
      BY <1>2, <2>1, FunctionIsSeq
    <2> QED BY <2>2, <2>3, <2>4, <2>5
  <1> HIDE DEF Ids, Masks, Cells, P
  <1>5. IsSeq(M) /\ Len(M) = m * 4 /\ IsSeq(C) /\ Len(C) = mn * 8
    <2>1. 4 \in Nat /\ 8 \in Nat /\ Len(Masks) \in Nat /\ Len(Cells) \in Nat
      BY <1>1, <1>2, <1>4
    <2>2. (\E S : M \in Seq(S) /\ Len(M) = Len(Masks) * 4) /\ \E S : C \in Seq(S) /\ Len(C) = Len(Cells) * 8
      BY <2>1, JoinedIsSeq
    <2> HIDE DEF M, C
    <2> QED BY <1>4, <2>2 DEF IsSeq
  <1>6. /\ \A j \in 0..(m - 1), k \in 1..4 : j * 4 + k \in 1..(m * 4) /\ M[j * 4 + k] = Masks[j + 1][k]
        /\ \A j \in 0..(mn - 1), k \in 1..8 : j * 8 + k \in 1..(mn * 8) /\ C[j * 8 + k] = Cells[j + 1][k]
    <2>1. 4 \in Nat \ {0} /\ 8 \in Nat \ {0} /\ Len(Masks) \in Nat /\ Len(Cells) \in Nat
      BY <1>1, <1>2, <1>4
    <2>2. ASSUME NEW j \in 0..(m - 1), NEW k \in 1..4
          PROVE  j * 4 + k \in 1..(m * 4) /\ M[j * 4 + k] = Masks[j + 1][k]
      <3>1. j \in 0..(Len(Masks) - 1)
        BY <1>4
      <3>2. /\ j * 4 + k \in 1..(Len(Masks) * 4)
            /\ Joined(Masks, 4)[j * 4 + k] = Masks[j + 1][k]
        BY <2>1, <3>1, JoinedByte, Zenon
      <3> QED BY <1>4, <3>2
    <2>3. ASSUME NEW j \in 0..(mn - 1), NEW k \in 1..8
          PROVE  j * 8 + k \in 1..(mn * 8) /\ C[j * 8 + k] = Cells[j + 1][k]
      <3>1. j \in 0..(Len(Cells) - 1)
        BY <1>4
      <3>2. /\ j * 8 + k \in 1..(Len(Cells) * 8)
            /\ Joined(Cells, 8)[j * 8 + k] = Cells[j + 1][k]
        BY <2>1, <3>1, JoinedByte, Zenon
      <3> QED BY <1>4, <3>2
    <2> QED BY <2>2, <2>3
  <1> HIDE DEF M, C
  <1>7. /\ \A i \in 1..m : P[i] = Ids[i]
        /\ \A i \in 1..(m * 4) : P[m + i] = M[i]
        /\ \A i \in 1..(mn * 8) : P[m + m * 4 + i] = C[i]
    <2>1. /\ \A i \in 1..Len(Ids) : P[i] = Ids[i]
          /\ \A i \in 1..Len(M) : P[Len(Ids) + i] = M[i]
          /\ \A i \in 1..Len(C) : P[Len(Ids) + Len(M) + i] = C[i]
      <3>1. IsSeq(Ids) /\ IsSeq(M) /\ IsSeq(C)
        BY <1>4, <1>5
      <3>2. /\ \A i \in 1..Len(Ids) : (Ids \o M \o C)[i] = Ids[i]
            /\ \A i \in 1..Len(M) : (Ids \o M \o C)[Len(Ids) + i] = M[i]
            /\ \A i \in 1..Len(C) : (Ids \o M \o C)[Len(Ids) + Len(M) + i] = C[i]
        BY <3>1, PartsAt
      <3> QED BY <1>3, <3>2, Zenon
    <2> QED BY <2>1, <1>4, <1>5
  <1>8. ASSUME NEW h \in 0..(m - 1)
        PROVE  /\ P[h + 1] = <<H[h + 1], 0>>
               /\ \A k \in 1..4 : P[m + (h * 4 + k)] = <<MaskOf(rs, H[h + 1], A), k>>
    <2>1. h + 1 \in 1..m
      BY <1>1
    <2>2. P[h + 1] = <<H[h + 1], 0>>
      BY <1>4, <1>7, <2>1
    <2>3. ASSUME NEW k \in 1..4
          PROVE  P[m + (h * 4 + k)] = <<MaskOf(rs, H[h + 1], A), k>>
      <3>1. h * 4 + k \in 1..(m * 4) /\ M[h * 4 + k] = Masks[h + 1][k]
        BY <1>6
      <3>2. P[m + (h * 4 + k)] = Masks[h + 1][k]
        BY <1>7, <3>1
      <3>3. Masks[h + 1] = Word(MaskOf(rs, H[h + 1], A))
        BY <1>4, <2>1
      <3> QED BY <3>2, <3>3 DEF Word
    <2> QED BY <2>2, <2>3
  <1>9. ASSUME NEW h \in 0..(m - 1), NEW a \in 0..(n - 1), NEW k \in 1..8
        PROVE  P[m + m * 4 + ((h * n + a) * 8 + k)] = CellOf(rs, H[h + 1], A[a + 1])[k]
    <2> DEFINE c == h * n + a
    <2>1. n \in Nat \ {0} /\ h \in Nat
      BY <1>1
    <2>2. c \div n = h /\ c % n = a /\ c + 1 \in 1..mn
      BY <1>1, <2>1, CellNumber, CellIsInside DEF mn
    <2>3. c \in Nat
      BY <2>1, Z3
    <2> HIDE DEF c
    <2>4. c \in 0..(mn - 1) /\ (c + 1) - 1 = c
      BY <1>2, <2>2, <2>3
    <2>5. c * 8 + k \in 1..(mn * 8) /\ C[c * 8 + k] = Cells[c + 1][k]
      BY <1>6, <2>4
    <2>6. Cells[c + 1] = CellOf(rs, H[h + 1], A[a + 1])
      BY <1>4, <2>2, <2>4
    <2>7. P[m + m * 4 + (c * 8 + k)] = CellOf(rs, H[h + 1], A[a + 1])[k]
      BY <1>7, <2>5, <2>6
    <2> QED BY <2>7 DEF c
  <1> QED BY <1>1, <1>8, <1>9 DEF P, H, A, m, n
-----------------------------------------------------------------------------
(* What a pack says of the rows it was made of                             *)

\* The cell that a row is stored as.
StoredCell(row, a) ==
  [action |-> a, freq |-> Float32(row.freq),
   ev |-> IF row.ev = NoEv THEN NoEv ELSE Float32(row.ev)]

\* A pack with the hands of the rows in order, each with the cells of the
\* actions that it has a row of, the last of them if there are several.
Packed(rs, P, H, A) ==
  /\ SoundPack(P, Len(H), Len(A))
  /\ Len(H) \in 1..HandCount /\ Len(A) \in 1..MaxActions
  /\ \A h \in 0..(Len(H) - 1) : P[h + 1][1] = H[h + 1]
  /\ \A h \in 0..(Len(H) - 1), a \in 0..(Len(A) - 1) :
       LET I == RowsOf(rs, H[h + 1], A[a + 1])
       IN /\ IsSet(P, Len(H), h, a) <=> I # {}
          /\ I # {} => CellOfPack(P, Len(H), Len(A), h, a) = StoredCell(rs[Max(I)], a)

LEMMA PartsArePacked ==
  ASSUME NEW rs \in Seq(TableRow), Encodable(rs)
  PROVE  Packed(rs, Payload(rs), HandsOf(rs), ActionsOf(rs))
  <1> DEFINE P == Payload(rs)
             H == HandsOf(rs)
             A == ActionsOf(rs)
             m == Len(H)
             n == Len(A)
  <1>1. m \in 1..HandCount /\ n \in 0..MaxActions /\ Len(P) = m * (5 + n * 8)
    BY EncodableHands, PayloadLength
  <1>2. Enumerates(H, HandsIn(rs), LessPairs(HandsIn(rs)))
    BY HandsAreOrdered
  <1>3. Enumerates(A, ActionsIn(rs), LessActions(ActionsIn(rs)))
    BY ActionsAreOrdered
  <1>4. /\ m \in Nat /\ n \in Nat
        /\ \A h \in 0..(m - 1) :
             /\ P[h + 1] = <<H[h + 1], 0>>
             /\ \A k \in 1..4 : P[m + (h * 4 + k)] = <<MaskOf(rs, H[h + 1], A), k>>
             /\ \A a \in 0..(n - 1) : \A k \in 1..8 :
                  P[m + m * 4 + ((h * n + a) * 8 + k)] = CellOf(rs, H[h + 1], A[a + 1])[k]
    BY PayloadParts, Zenon
  <1> HIDE DEF P, H, A
  <1>5. HandsIn(rs) \subseteq HandId /\ HandsIn(rs) \subseteq Int
    BY RowsHaveTypes DEF HandsIn, Encodable
  <1>6. n # 0
    <2>1. 1 \in DOMAIN rs
      BY RowsHaveTypes, EmptySeq DEF Encodable
    <2>2. \E k \in 1..n : A[k] = <<rs[1].action, rs[1].size>>
      BY <1>3, <2>1 DEF Enumerates, ActionsIn
    <2> QED BY <1>4, <2>2
  <1>7. Sorted(P, m)
    <2> SUFFICES ASSUME NEW k \in 1..m
                 PROVE  P[k][1] \in HandId /\ (k > 1 => P[k - 1][1] < P[k][1])
      BY DEF Sorted
    <2>1. \A j \in 1..m : P[j][1] = H[j] /\ H[j] \in HandsIn(rs)
      <3> TAKE j \in 1..m
      <3>1. j - 1 \in 0..(m - 1) /\ (j - 1) + 1 = j
        BY <1>4
      <3>2. P[j] = <<H[j], 0>>
        BY <1>4, <3>1
      <3>3. H[j] \in HandsIn(rs)
        BY <1>2, ElementOfSeq DEF Enumerates
      <3> QED BY <3>2, <3>3
    <2>2. ASSUME k > 1
          PROVE  H[k - 1] < H[k]
      <3>1. k - 1 \in 1..m /\ k - 1 < k
        BY <1>4, <2>2
      <3>2. <<H[k - 1], H[k]>> \in LessPairs(HandsIn(rs))
        BY <1>2, <3>1 DEF Enumerates
      <3> QED BY <3>2 DEF LessPairs
    <2>3. k > 1 => k - 1 \in 1..m
      BY <1>4
    <2> QED BY <1>5, <2>1, <2>2, <2>3
  <1>8. ASSUME NEW h \in 0..(m - 1), NEW a \in 0..(n - 1)
        PROVE  LET I == RowsOf(rs, H[h + 1], A[a + 1])
               IN /\ IsSet(P, m, h, a) <=> I # {}
                  /\ I # {} => CellOfPack(P, m, n, h, a) = StoredCell(rs[Max(I)], a)
    <2> DEFINE hand == H[h + 1]
               action == A[a + 1]
               I == RowsOf(rs, hand, action)
    <2>1. IsSet(P, m, h, a) <=> I # {}
      <3>1. \A k \in 1..4 : P[(m + h * 4) + k] = <<MaskOf(rs, hand, A), k>>
        <4> TAKE k \in 1..4
        <4>1. (m + h * 4) + k = m + (h * 4 + k)
          BY <1>4
        <4> QED BY <1>4, <4>1
      <3>2. ReadWord(P, m + h * 4) = MaskOf(rs, hand, A)
        BY <3>1, WordIsRead
      <3>3. IsSeq(A) /\ a \in 0..(Len(A) - 1)
        BY <1>3 DEF Enumerates, IsSeq
      <3>4. Bit(MaskOf(rs, hand, A), a) <=> I # {}
        BY <3>3, BitOfMask
      <3> QED BY <3>2, <3>4 DEF IsSet
    <2> DEFINE hn == h * n
               start == m + m * 4 + hn * 8 + a * 8
    <2>2. hn \in Nat
      BY <1>4, Z3
    <2>3. \A k \in 1..8 : P[m + m * 4 + ((hn + a) * 8 + k)] = CellOf(rs, hand, action)[k]
      BY <1>4
    <2> HIDE DEF hn
    <2>4. \A k \in 1..8 : P[start + k] = CellOf(rs, hand, action)[k]
      <3> TAKE k \in 1..8
      <3>1. start + k = m + m * 4 + ((hn + a) * 8 + k)
        BY <1>4, <2>2
      <3> HIDE DEF start
      <3> QED BY <2>3, <3>1
    <2>5. start \in Nat
      BY <1>4, <2>2
    <2> HIDE DEF start, hand, action
    <2>6. ReadWord(P, start) = CellFreq(rs, hand, action)
      <3>1. \A k \in 1..4 : P[start + k] = <<CellFreq(rs, hand, action), k>>
        BY <2>4, CellBytes
      <3> QED BY <3>1, WordIsRead
    <2>7. ReadWord(P, start + 4) = CellEv(rs, hand, action)
      <3>1. \A k \in 1..4 : P[(start + 4) + k] = <<CellEv(rs, hand, action), k>>
        <4> TAKE k \in 1..4
        <4>1. (start + 4) + k = start + (4 + k) /\ 4 + k \in 1..8
          BY <2>5
        <4> QED BY <2>4, <4>1, CellBytes
      <3> QED BY <3>1, WordIsRead
    <2>8. CellOfPack(P, m, n, h, a)
            = [action |-> a, freq |-> CellFreq(rs, hand, action), ev |-> CellEv(rs, hand, action)]
      <3>1. CellOfPack(P, m, n, h, a) = CellAt(P, start, a)
        BY Zenon DEF CellOfPack, start, hn
      <3> QED BY <2>6, <2>7, <3>1, Zenon DEF CellAt
    <2>9. ASSUME I # {}
          PROVE  CellOfPack(P, m, n, h, a) = StoredCell(rs[Max(I)], a)
      <3>1. CellFreq(rs, hand, action) = Float32(rs[Max(I)].freq)
        BY <2>9 DEF CellFreq
      <3>2. CellEv(rs, hand, action) = IF rs[Max(I)].ev = NoEv THEN NoEv ELSE Float32(rs[Max(I)].ev)
        BY <2>9 DEF CellEv
      <3> QED BY <2>8, <3>1, <3>2, Zenon DEF StoredCell
    <2> QED BY <2>1, <2>9 DEF hand, action
  <1>9. ASSUME NEW h \in 0..(m - 1)
        PROVE  P[h + 1][1] = H[h + 1]
    <2>1. P[h + 1] = <<H[h + 1], 0>>
      BY <1>4
    <2> QED BY <2>1
  <1>10. m \in 1..HandCount /\ n \in 1..MaxActions
    BY <1>1, <1>6
  <1>11. SoundPack(P, m, n)
    BY <1>1, <1>7 DEF SoundPack
  <1> HIDE DEF m, n
  <1> QED BY <1>8, <1>9, <1>10, <1>11 DEF Packed, P, H, A, m, n

\* Every row has a place in the pack.
LEMMA RowIsInPack ==
  ASSUME NEW rs \in Seq(TableRow), Encodable(rs), NEW i \in DOMAIN rs
  PROVE  \E h \in 0..(Len(HandsOf(rs)) - 1), a \in 0..(Len(ActionsOf(rs)) - 1) :
           /\ HandsOf(rs)[h + 1] = rs[i].hand
           /\ ActionsOf(rs)[a + 1] = <<rs[i].action, rs[i].size>>
  <1> DEFINE H == HandsOf(rs)
             A == ActionsOf(rs)
  <1>1. Len(H) \in Nat /\ Len(A) \in Nat
    BY HandsAndActions
  <1>2. Enumerates(H, HandsIn(rs), LessPairs(HandsIn(rs)))
    BY HandsAreOrdered
  <1>3. Enumerates(A, ActionsIn(rs), LessActions(ActionsIn(rs)))
    BY ActionsAreOrdered
  <1> HIDE DEF H, A
  <1>4. PICK k \in 1..Len(H) : H[k] = rs[i].hand
    BY <1>2 DEF Enumerates, HandsIn
  <1>5. PICK n \in 1..Len(A) : A[n] = <<rs[i].action, rs[i].size>>
    BY <1>3 DEF Enumerates, ActionsIn
  <1>6. k - 1 \in 0..(Len(H) - 1) /\ n - 1 \in 0..(Len(A) - 1) /\ (k - 1) + 1 = k /\ (n - 1) + 1 = n
    BY <1>1
  <1>7. H[(k - 1) + 1] = rs[i].hand /\ A[(n - 1) + 1] = <<rs[i].action, rs[i].size>>
    BY <1>4, <1>5, <1>6
  <1> QED BY <1>6, <1>7 DEF H, A
-----------------------------------------------------------------------------
(* The rows of a line and the cells of its pack                            *)

RowKey(row) == <<row.hand, row.action, row.size>>

\* A row is the last of its hand and action.
LastIn(rs, i) == \A j \in DOMAIN rs : j > i => RowKey(rs[j]) # RowKey(rs[i])

\* The number of the action of a row, from 0.
NumberOf(rs, row) ==
  CHOOSE a \in 0..(Len(ActionsOf(rs)) - 1) : ActionsOf(rs)[a + 1] = <<row.action, row.size>>

LEMMA ActionsDiffer ==
  ASSUME NEW rs \in Seq(TableRow), NEW a \in 0..(Len(ActionsOf(rs)) - 1),
         NEW b \in 0..(Len(ActionsOf(rs)) - 1), ActionsOf(rs)[a + 1] = ActionsOf(rs)[b + 1]
  PROVE  a = b
  <1> DEFINE A == ActionsOf(rs)
             S == ActionsIn(rs)
  <1>1. Enumerates(A, S, LessActions(S)) /\ Len(A) \in Nat
    BY ActionsAreOrdered, HandsAndActions
  <1>2. S \subseteq Int \X Int
    BY RowsHaveTypes DEF ActionsIn
  <1> HIDE DEF A, S
  <1>3. ASSUME NEW k \in 1..Len(A), NEW n \in 1..Len(A), k < n
        PROVE  A[k] # A[n]
    <2>1. <<A[k], A[n]>> \in LessActions(S)
      BY <1>1, <1>3 DEF Enumerates
    <2>2. A[k] \in S /\ A[n] \in S
      BY <1>1, ElementOfSeq DEF Enumerates
    <2>3. A[k] \in Int \X Int /\ A[n] \in Int \X Int
      BY <1>2, <2>2
    <2> QED BY <2>1, <2>3 DEF LessActions
  <1>4. a + 1 \in 1..Len(A) /\ b + 1 \in 1..Len(A) /\ A[a + 1] = A[b + 1]
    BY <1>1 DEF A
  <1>5. ~(a + 1 < b + 1) /\ ~(b + 1 < a + 1)
    BY <1>3, <1>4
  <1>6. a \in Int /\ b \in Int
    BY DEF A
  <1> QED BY <1>5, <1>6

\* The last row of a hand and an action has a cell that is set, with its numbers.
LEMMA LastRowIsStored ==
  ASSUME NEW rs \in Seq(TableRow), Encodable(rs), NEW i \in DOMAIN rs, LastIn(rs, i)
  PROVE  LET H == HandsOf(rs)
             A == ActionsOf(rs)
             a == NumberOf(rs, rs[i])
         IN /\ a \in 0..(Len(A) - 1) /\ A[a + 1] = <<rs[i].action, rs[i].size>>
            /\ \E h \in 0..(Len(H) - 1) :
                 /\ H[h + 1] = rs[i].hand
                 /\ IsSet(Payload(rs), Len(H), h, a)
                 /\ CellOfPack(Payload(rs), Len(H), Len(A), h, a) = StoredCell(rs[i], a)
  <1> DEFINE H == HandsOf(rs)
             A == ActionsOf(rs)
             P == Payload(rs)
             a == NumberOf(rs, rs[i])
  <1>1. Packed(rs, P, H, A)
    BY PartsArePacked
  <1>2. PICK h \in 0..(Len(H) - 1), b \in 0..(Len(A) - 1) :
          H[h + 1] = rs[i].hand /\ A[b + 1] = <<rs[i].action, rs[i].size>>
    BY RowIsInPack
  <1>3. a \in 0..(Len(A) - 1) /\ A[a + 1] = <<rs[i].action, rs[i].size>>
    BY <1>2 DEF NumberOf
  <1> HIDE DEF H, A, P, a
  <1> DEFINE I == RowsOf(rs, H[h + 1], A[a + 1])
  <1>4. I = {j \in DOMAIN rs : RowKey(rs[j]) = RowKey(rs[i])}
    BY <1>2, <1>3 DEF RowsOf, RowKey
  <1>5. Len(rs) \in Nat /\ DOMAIN rs = 1..Len(rs)
    BY RowsHaveTypes
  <1>6. i \in I /\ I \in SUBSET 1..Len(rs) /\ I # {}
    BY <1>4, <1>5
  <1>7. Max(I) \in I /\ \A y \in I : y <= Max(I)
    <2> HIDE DEF I
    <2> QED BY <1>5, <1>6, GreatestNumber
  <1>8. Max(I) = i
    <2> DEFINE m == Max(I)
    <2>1. m \in I /\ i <= m
      BY <1>6, <1>7
    <2>2. ~(m > i)
      <3> HIDE DEF m
      <3> QED BY <1>4, <2>1 DEF LastIn
    <2>3. m \in Int /\ i \in Int
      <3> HIDE DEF m, I
      <3> QED BY <1>5, <1>6, <2>1
    <2> HIDE DEF m, I
    <2>4. m = i
      BY <2>1, <2>2, <2>3
    <2> QED BY <2>4 DEF m
  <1>9. /\ IsSet(P, Len(H), h, a) <=> I # {}
        /\ I # {} => CellOfPack(P, Len(H), Len(A), h, a) = StoredCell(rs[Max(I)], a)
    BY <1>1, <1>3 DEF Packed
  <1>10. IsSet(P, Len(H), h, a) /\ CellOfPack(P, Len(H), Len(A), h, a) = StoredCell(rs[i], a)
    BY <1>6, <1>8, <1>9
  <1> QED BY <1>2, <1>3, <1>10 DEF H, A, P, a

LEMMA CellsOfPack ==
  ASSUME NEW pack, NEW hands \in Nat, NEW n \in Nat \ {0}
  PROVE  /\ \A h \in 0..(hands - 1), a \in 0..(n - 1) :
              \E c \in ToSet(DecodePack(pack, hands, n)) :
                /\ c.hand = pack[h + 1][1] /\ c.cell = CellOfPack(pack, hands, n, h, a)
                /\ c.exists <=> IsSet(pack, hands, h, a)
         /\ \A c \in ToSet(DecodePack(pack, hands, n)) :
              \E h \in 0..(hands - 1), a \in 0..(n - 1) :
                /\ c.hand = pack[h + 1][1] /\ c.cell = CellOfPack(pack, hands, n, h, a)
                /\ c.exists <=> IsSet(pack, hands, h, a)
  <1> DEFINE all == DecodePack(pack, hands, n)
  <1>1. DOMAIN all = 1..(hands * n)
    BY DEF DecodePack
  <1>2. ASSUME NEW h \in 0..(hands - 1), NEW a \in 0..(n - 1)
        PROVE  \E c \in ToSet(all) :
                /\ c.hand = pack[h + 1][1] /\ c.cell = CellOfPack(pack, hands, n, h, a)
                /\ c.exists <=> IsSet(pack, hands, h, a)
    <2> DEFINE k == h * n + a + 1
    <2>1. /\ k \in 1..(hands * n)
          /\ all[k].hand = pack[h + 1][1]
          /\ all[k].exists <=> IsSet(pack, hands, h, a)
          /\ all[k].cell = CellOfPack(pack, hands, n, h, a)
      BY CellIsDecoded, Zenon
    <2> HIDE DEF all, k
    <2>2. all[k] \in ToSet(all)
      BY <1>1, <2>1 DEF ToSet
    <2> QED BY <2>1, <2>2
  <1>3. ASSUME NEW c \in ToSet(all)
        PROVE  \E h \in 0..(hands - 1), a \in 0..(n - 1) :
                /\ c.hand = pack[h + 1][1] /\ c.cell = CellOfPack(pack, hands, n, h, a)
                /\ c.exists <=> IsSet(pack, hands, h, a)
    <2>1. PICK k \in 1..(hands * n) : c = all[k]
      BY <1>1 DEF ToSet
    <2> DEFINE h == (k - 1) \div n
               a == (k - 1) % n
    <2>2. /\ h \in 0..(hands - 1) /\ a \in 0..(n - 1)
          /\ all[k].hand = pack[h + 1][1]
          /\ all[k].exists <=> IsSet(pack, hands, h, a)
          /\ all[k].cell = CellOfPack(pack, hands, n, h, a)
      BY DecodedCell, Zenon
    <2> HIDE DEF all, h, a
    <2> QED BY <2>1, <2>2
  <1> QED BY <1>2, <1>3

\* Of any rows that the builder can encode, the search for a hand in their pack
\* (decode_pack_for_hand) gives the last row of the hand and an action, with its
\* numbers as float32.
THEOREM LastRowIsAnswered ==
  ASSUME NEW rs \in Seq(TableRow), Encodable(rs), NEW i \in DOMAIN rs, LastIn(rs, i)
  PROVE  StoredCell(rs[i], NumberOf(rs, rs[i]))
           \in DecodePackForHand(Payload(rs), Len(HandsOf(rs)), Len(ActionsOf(rs)), rs[i].hand)
  <1> DEFINE m == Len(HandsOf(rs))
             n == Len(ActionsOf(rs))
             P == Payload(rs)
             H == HandsOf(rs)
             a == NumberOf(rs, rs[i])
  <1>1. /\ SoundPack(P, m, n) /\ m \in Nat /\ n \in Nat \ {0}
        /\ \A h \in 0..(m - 1) : P[h + 1][1] = H[h + 1]
    BY PartsArePacked, PackAssumption DEF Packed
  <1>2. /\ a \in 0..(n - 1)
        /\ \E h \in 0..(m - 1) :
             /\ H[h + 1] = rs[i].hand
             /\ IsSet(P, m, h, a)
             /\ CellOfPack(P, m, n, h, a) = StoredCell(rs[i], a)
    BY LastRowIsStored, Zenon
  <1>3. rs[i].hand \in Int
    BY RowsHaveTypes
  <1> HIDE DEF m, n, P, H, a
  <1>4. PICK h \in 0..(m - 1) : /\ H[h + 1] = rs[i].hand
                                /\ IsSet(P, m, h, a)
                                /\ CellOfPack(P, m, n, h, a) = StoredCell(rs[i], a)
    BY <1>2
  <1>5. PICK c \in ToSet(DecodePack(P, m, n)) :
          c.hand = P[h + 1][1] /\ c.cell = CellOfPack(P, m, n, h, a) /\ (c.exists <=> IsSet(P, m, h, a))
    BY <1>1, <1>2, CellsOfPack
  <1>6. c.exists /\ c.hand = rs[i].hand /\ c.cell = StoredCell(rs[i], a)
    BY <1>1, <1>4, <1>5
  <1>7. c.cell \in DecodePackForHand(P, m, n, rs[i].hand)
    BY <1>1, <1>3, <1>6, DecodedIsFound
  <1> QED BY <1>6, <1>7 DEF m, n, P, H, a

\* Of any rows that the builder can encode, all of their pack (decode_pack) has
\* one cell for each hand and action that has a row, and no other.
THEOREM CellsAreLastRows ==
  ASSUME NEW rs \in Seq(TableRow), Encodable(rs)
  PROVE  LET all == ToSet(DecodePack(Payload(rs), Len(HandsOf(rs)), Len(ActionsOf(rs))))
         IN Cardinality({<<c.hand, c.cell>> : c \in {c \in all : c.exists}})
            = Cardinality({i \in DOMAIN rs : LastIn(rs, i)})
  <1> DEFINE H == HandsOf(rs)
             A == ActionsOf(rs)
             m == Len(H)
             n == Len(A)
             P == Payload(rs)
             all == ToSet(DecodePack(P, m, n))
             L == {i \in DOMAIN rs : LastIn(rs, i)}
             N(i) == NumberOf(rs, rs[i])
             f == [i \in L |-> <<rs[i].hand, StoredCell(rs[i], N(i))>>]
             Cells == {<<c.hand, c.cell>> : c \in {c \in all : c.exists}}
  <1>1. Packed(rs, P, H, A) /\ m \in Nat /\ n \in Nat \ {0}
    <2>1. Packed(rs, P, H, A)
      BY PartsArePacked
    <2> HIDE DEF P, H, A
    <2>2. m \in 1..HandCount /\ n \in 1..MaxActions
      BY <2>1 DEF Packed
    <2> QED BY <2>1, <2>2, PackAssumption
  <1>2. ASSUME NEW i \in L
        PROVE  /\ N(i) \in 0..(n - 1) /\ A[N(i) + 1] = <<rs[i].action, rs[i].size>>
               /\ \E h \in 0..(m - 1) :
                    /\ H[h + 1] = rs[i].hand
                    /\ IsSet(P, m, h, N(i))
                    /\ CellOfPack(P, m, n, h, N(i)) = StoredCell(rs[i], N(i))
    BY LastRowIsStored, Zenon
  <1>3. Len(rs) \in Nat /\ DOMAIN rs = 1..Len(rs)
    BY RowsHaveTypes
  <1>4. \A a, b \in 0..(n - 1) : A[a + 1] = A[b + 1] => a = b
    BY ActionsDiffer
  <1> HIDE DEF H, A, m, n, P, N
  <1>5. \A i, j \in L : f[i] = f[j] => i = j
    <2> SUFFICES ASSUME NEW i \in L, NEW j \in L, f[i] = f[j] PROVE i = j
      OBVIOUS
    <2>1. rs[i].hand = rs[j].hand /\ StoredCell(rs[i], N(i)) = StoredCell(rs[j], N(j))
      OBVIOUS
    <2>2. N(i) = N(j)
      <3>1. \A x, y : StoredCell(x, y).action = y
        BY DEF StoredCell
      <3> QED BY <2>1, <3>1
    <2>3. <<rs[i].action, rs[i].size>> = <<rs[j].action, rs[j].size>>
      BY <1>2, <2>2
    <2>4. RowKey(rs[i]) = RowKey(rs[j])
      BY <2>1, <2>3 DEF RowKey
    <2>5. ~(j > i) /\ ~(i > j)
      BY <2>4 DEF LastIn
    <2>6. i \in Int /\ j \in Int
      BY <1>3
    <2> QED BY <2>5, <2>6
  <1>6. ASSUME NEW i \in L
        PROVE  f[i] \in Cells
    <2>1. PICK h \in 0..(m - 1) : /\ H[h + 1] = rs[i].hand
                                  /\ IsSet(P, m, h, N(i))
                                  /\ CellOfPack(P, m, n, h, N(i)) = StoredCell(rs[i], N(i))
      BY <1>2
    <2>2. N(i) \in 0..(n - 1)
      BY <1>2
    <2>3. PICK c \in all : /\ c.hand = P[h + 1][1] /\ c.cell = CellOfPack(P, m, n, h, N(i))
                           /\ c.exists <=> IsSet(P, m, h, N(i))
      BY <1>1, <2>2, CellsOfPack
    <2>4. c.exists /\ c.hand = rs[i].hand /\ c.cell = StoredCell(rs[i], N(i))
      BY <1>1, <2>1, <2>3 DEF Packed, m
    <2> HIDE DEF all
    <2> QED BY <2>4
  <1>7. ASSUME NEW z \in Cells
        PROVE  \E i \in L : f[i] = z
    <2>1. PICK c \in all : c.exists /\ z = <<c.hand, c.cell>>
      OBVIOUS
    <2>2. PICK h \in 0..(m - 1), a \in 0..(n - 1) :
            /\ c.hand = P[h + 1][1] /\ c.cell = CellOfPack(P, m, n, h, a)
            /\ c.exists <=> IsSet(P, m, h, a)
      <3>1. \A x \in all : \E h \in 0..(m - 1), a \in 0..(n - 1) :
              /\ x.hand = P[h + 1][1] /\ x.cell = CellOfPack(P, m, n, h, a)
              /\ x.exists <=> IsSet(P, m, h, a)
        BY <1>1, CellsOfPack
      <3> HIDE DEF all, Cells
      <3> QED BY <2>1, <3>1
    <2> DEFINE I == RowsOf(rs, H[h + 1], A[a + 1])
               i == Max(I)
    <2>3. /\ P[h + 1][1] = H[h + 1]
          /\ IsSet(P, m, h, a) <=> I # {}
          /\ I # {} => CellOfPack(P, m, n, h, a) = StoredCell(rs[i], a)
      BY <1>1 DEF Packed, m, n
    <2>4. I # {} /\ I \in SUBSET 1..Len(rs)
      BY <1>3, <2>1, <2>2, <2>3 DEF RowsOf
    <2>5. i \in I /\ \A y \in I : y <= i
      <3> HIDE DEF I
      <3> QED BY <1>3, <2>4, GreatestNumber
    <2> HIDE DEF i
    <2>6. i \in DOMAIN rs /\ rs[i].hand = H[h + 1] /\ <<rs[i].action, rs[i].size>> = A[a + 1]
      BY <2>5 DEF RowsOf
    <2>7. LastIn(rs, i)
      <3> SUFFICES ASSUME NEW j \in DOMAIN rs, j > i, RowKey(rs[j]) = RowKey(rs[i]) PROVE FALSE
        BY DEF LastIn
      <3>1. j \in I
        BY <2>6 DEF RowsOf, RowKey
      <3>2. j <= i /\ i \in Int /\ j \in Int
        BY <1>3, <2>5, <2>6, <3>1
      <3> QED BY <3>2
    <2>8. i \in L /\ N(i) = a
      <3>1. i \in L
        BY <2>6, <2>7
      <3>2. A[N(i) + 1] = A[a + 1] /\ N(i) \in 0..(n - 1)
        BY <1>2, <2>6, <3>1
      <3> QED BY <1>4, <3>1, <3>2
    <2>9. z = <<rs[i].hand, StoredCell(rs[i], N(i))>>
      BY <2>1, <2>2, <2>3, <2>4, <2>6, <2>8
    <2> QED BY <2>8, <2>9
  <1>8. IsFiniteSet(L) /\ DOMAIN f = L
    <2>1. IsFiniteSet(DOMAIN rs) /\ L \subseteq DOMAIN rs
      BY <1>3, FS_Interval
    <2> QED BY <2>1, FS_Subset
  <1> HIDE DEF L, f, Cells, all
  <1>9. Cardinality({f[i] : i \in L}) = Cardinality(L)
    BY <1>5, <1>8, ImageIsAsLarge
  <1>10. {f[i] : i \in L} = Cells
    BY <1>6, <1>7
  <1> QED BY <1>9, <1>10 DEF L, Cells, all, m, n, P, H, A
-----------------------------------------------------------------------------
(* The rows that are gathered are those of the line                        *)

\* The places of a line in a table.
LineAt(T, lo, hi) ==
  /\ lo \in 1..Len(T) /\ hi \in lo..Len(T)
  /\ \A j \in 1..Len(T) : T[j].line = T[lo].line <=> j \in lo..hi

\* The rows gathered are the last ones stepped over, and no row of their line
\* is before them.
Gathering ==
  rows = <<>> \/ \E lo \in 1..at :
                   /\ rows = SubSeq(Table, lo, at)
                   /\ \A j \in lo..at : Table[j].line = Table[at].line
                   /\ \A j \in 1..(lo - 1) : Table[j].line # Table[at].line

LEMMA PartOfTable ==
  ASSUME NEW T \in Seq(TableRow), NEW lo \in 1..Len(T), NEW hi \in lo..Len(T)
  PROVE  LET s == SubSeq(T, lo, hi)
         IN /\ s \in Seq(TableRow) /\ Len(s) = hi - lo + 1
            /\ \A i \in 1..(hi - lo + 1) : s[i] = T[lo + i - 1]
  <1>1. Len(T) \in Nat /\ \A i \in 1..Len(T) : T[i] \in TableRow
    BY LenProperties, ElementOfSeq
  <1>2. lo \in Nat /\ hi \in Nat /\ lo <= hi /\ \A i \in lo..hi : i \in 1..Len(T)
    BY <1>1
  <1> QED BY <1>1, <1>2, SubSeqProperties

LEMMA NextPart ==
  ASSUME NEW T \in Seq(TableRow), NEW k \in 1..Len(T)
  PROVE  /\ <<T[k]>> = SubSeq(T, k, k)
         /\ \A lo \in 1..(k - 1) : Append(SubSeq(T, lo, k - 1), T[k]) = SubSeq(T, lo, k)
  <1>1. Len(T) \in Nat /\ \A i \in 1..Len(T) : T[i] \in TableRow
    BY LenProperties, ElementOfSeq
  <1>2. <<T[k]>> = SubSeq(T, k, k)
    <2> DEFINE s == SubSeq(T, k, k)
    <2>1. k \in 1..Len(T) /\ k \in k..Len(T) /\ k - k + 1 = 1
      BY <1>1
    <2>2. s \in Seq(TableRow) /\ Len(s) = 1 /\ s[1] = T[k + 1 - 1]
      BY <2>1, PartOfTable
    <2>3. k + 1 - 1 = k
      BY <1>1
    <2>4. <<T[k]>> \in Seq(TableRow) /\ Len(<<T[k]>>) = 1 /\ <<T[k]>>[1] = T[k]
      BY <1>1
    <2> HIDE DEF s
    <2>5. \A i \in 1..1 : <<T[k]>>[i] = s[i]
      BY <2>2, <2>3, <2>4
    <2> QED BY <2>2, <2>4, <2>5, SeqEqual DEF s
  <1>3. ASSUME NEW lo \in 1..(k - 1)
        PROVE  Append(SubSeq(T, lo, k - 1), T[k]) = SubSeq(T, lo, k)
    <2> DEFINE s == SubSeq(T, lo, k - 1)
               t == SubSeq(T, lo, k)
               u == Append(s, T[k])
    <2>1. lo \in 1..Len(T) /\ k - 1 \in lo..Len(T) /\ k \in lo..Len(T)
      BY <1>1
    <2>2. /\ s \in Seq(TableRow) /\ Len(s) = k - 1 - lo + 1
          /\ \A i \in 1..(k - 1 - lo + 1) : s[i] = T[lo + i - 1]
      BY <2>1, PartOfTable
    <2>3. /\ t \in Seq(TableRow) /\ Len(t) = k - lo + 1
          /\ \A i \in 1..(k - lo + 1) : t[i] = T[lo + i - 1]
      BY <2>1, PartOfTable
    <2>4. /\ u \in Seq(TableRow) /\ Len(u) = Len(s) + 1 /\ u[Len(s) + 1] = T[k]
          /\ \A i \in 1..Len(s) : u[i] = s[i]
      <3> DEFINE x == T[k]
      <3>1. u = Append(s, x) /\ s \in Seq(TableRow) /\ x \in TableRow
        BY <1>1, <2>2
      <3> HIDE DEF s, t, u, x
      <3>2. /\ u \in Seq(TableRow) /\ Len(u) = Len(s) + 1 /\ u[Len(s) + 1] = x
            /\ \A i \in 1..Len(s) : u[i] = s[i]
        BY <3>1, AppendProperties
      <3> QED BY <3>2 DEF x
    <2> HIDE DEF s, t, u
    <2>5. Len(s) = k - lo /\ Len(u) = Len(t) /\ Len(t) = k - lo + 1
      BY <2>1, <2>2, <2>3, <2>4
    <2>6. ASSUME NEW i \in 1..Len(t)
          PROVE  u[i] = t[i]
      <3>1. i \in 1..(k - lo) \/ i = k - lo + 1
        BY <2>1, <2>5
      <3>2. k - 1 - lo + 1 = k - lo
        BY <2>1
      <3>3. CASE i \in 1..(k - lo)
        <4>1. i \in 1..(k - 1 - lo + 1) /\ i \in 1..(k - lo + 1) /\ i \in 1..Len(s)
          BY <2>1, <2>5, <3>2, <3>3
        <4> QED BY <2>2, <2>3, <2>4, <4>1
      <3>4. CASE i = k - lo + 1
        <4>1. lo + i - 1 = k /\ i = Len(s) + 1 /\ i \in 1..(k - lo + 1)
          BY <2>1, <2>5, <3>4
        <4> QED BY <2>3, <2>4, <4>1
      <3> QED BY <3>1, <3>3, <3>4
    <2>7. u = t
      BY <2>3, <2>4, <2>5, <2>6, SeqEqual
    <2> QED BY <2>7 DEF s, t, u
  <1> QED BY <1>2, <1>3

\* A row that is gathered is the next of its line.
LEMMA GatherKeepsPlaces ==
  ASSUME FilesInv, Gathered, Gathering, GatherRow
  PROVE  Gathering'
  <1> DEFINE T == Table
             k == at + 1
  <1>1. /\ pc = "rows" /\ at < Len(T) /\ SameLine /\ T' = T
        /\ rows' = Append(rows, T[k]) /\ at' = k
    BY DEF GatherRow, Table
  <1>2. /\ T \in Seq(TableRow) /\ Len(T) \in Nat /\ at \in Nat
    BY <1>1, TableInOrder
  <1>3. k \in 1..Len(T) /\ k - 1 = at
    BY <1>1, <1>2
  <1>4. \E lo \in 1..k : /\ rows' = SubSeq(T, lo, k)
                         /\ \A j \in lo..k : T[j].line = T[k].line
                         /\ \A j \in 1..(lo - 1) : T[j].line # T[k].line
    <2>1. CASE rows = <<>>
      <3>1. at = 0
        BY <1>1, <1>2, <2>1 DEF Gathered
      <3>2. k = 1 /\ rows' = <<T[k]>>
        BY <1>1, <2>1, <3>1
      <3>3. rows' = SubSeq(T, 1, k)
        BY <1>2, <1>3, <3>2, NextPart
      <3>4. (\A j \in 1..k : j = k) /\ (\A j \in 1..(1 - 1) : FALSE) /\ 1 \in 1..k
        BY <3>2
      <3> QED BY <3>3, <3>4
    <2>2. CASE rows # <<>>
      <3>1. PICK lo \in 1..at : /\ rows = SubSeq(T, lo, at)
                                /\ \A j \in lo..at : T[j].line = T[at].line
                                /\ \A j \in 1..(lo - 1) : T[j].line # T[at].line
        BY <2>2 DEF Gathering
      <3>2. rows' = SubSeq(T, lo, k)
        BY <1>1, <1>2, <1>3, <3>1, NextPart
      <3>3. T[k].line = T[at].line
        <4>1. 1 \in DOMAIN rows
          BY <2>2, LenProperties, EmptySeq DEF FilesInv, Walk
        <4> QED BY <1>1, <2>2, <4>1 DEF SameLine, Gathered
      <3>4. \A j \in lo..k : j \in lo..at \/ j = k
        BY <1>2
      <3>5. lo \in 1..k
        BY <1>2
      <3> HIDE DEF T, k
      <3> QED BY <3>1, <3>2, <3>3, <3>4, <3>5
    <2> QED BY <2>1, <2>2
  <1> QED BY <1>1, <1>4 DEF Gathering

\* The row that ends a line is the first of the next.
LEMMA FlushKeepsPlaces ==
  ASSUME FilesInv, BuildTypes, limit \in Limits, Gathered, Gathering, FlushLine \/ FlushLastLine
  PROVE  Gathering'
  <1>1. CASE rows' = <<>>
    BY <1>1 DEF Gathering
  <1>2. CASE rows' # <<>>
    <2> DEFINE T == Table
               k == at + 1
    <2>1. FlushLine /\ pc = "rows" /\ at < Len(T) /\ ~SameLine /\ Flush
          /\ rows' = <<T[k]>> /\ at' = k /\ T' = T
      BY <1>2 DEF FlushLine, FlushLastLine, Table
    <2>2. /\ T \in Seq(TableRow) /\ Len(T) \in Nat /\ at \in Nat
          /\ InOrder(T) /\ DOMAIN T = 1..Len(T) /\ \A j \in 1..Len(T) : T[j].line \in Nat
      BY <2>1, TableInOrder
    <2>3. k \in 1..Len(T) /\ at \in 1..Len(T) /\ at < k
      BY <2>1, <2>2, FlushedLineIsNext
    <2>4. rows' = SubSeq(T, k, k)
      BY <2>1, <2>2, <2>3, NextPart
    <2>5. T[at].line < T[k].line
      <3>1. T[at].line <= T[k].line
        BY <2>2, <2>3 DEF InOrder
      <3>2. PICK i \in DOMAIN rows : rows[i].line # T[k].line
        BY <2>1 DEF SameLine
      <3>3. rows[i].line = T[at].line
        <4>1. rows # <<>>
          BY <2>1, FlushedLineIsNext
        <4> QED BY <3>2, <4>1 DEF Gathered
      <3> HIDE DEF T, k
      <3>4. T[at].line \in Nat /\ T[k].line \in Nat
        BY <2>2, <2>3
      <3> QED BY <3>1, <3>2, <3>3, <3>4
    <2>6. ASSUME NEW j \in 1..(k - 1)
          PROVE  T[j].line # T[k].line
      <3>1. j = at \/ j < at
        BY <2>2
      <3>2. j \in 1..Len(T)
        BY <2>2, <2>3
      <3> HIDE DEF T, k
      <3>3. T[j].line <= T[at].line
        BY <2>2, <2>3, <3>1, <3>2 DEF InOrder
      <3> QED BY <2>2, <2>3, <2>5, <3>2, <3>3
    <2>7. (\A j \in k..k : j = k) /\ k \in 1..k
      BY <2>2
    <2> HIDE DEF T, k
    <2>8. \E lo \in 1..k : /\ rows' = SubSeq(T, lo, k)
                           /\ \A j \in lo..k : T[j].line = T[k].line
                           /\ \A j \in 1..(lo - 1) : T[j].line # T[k].line
      BY <2>4, <2>6, <2>7
    <2> QED BY <2>1, <2>8 DEF Gathering, T, k
  <1> QED BY <1>1, <1>2
-----------------------------------------------------------------------------
(* Every record is that of the rows of a line                              *)

\* The rows of action_schemas as the builder inserts them.
GoodSchemas(S) ==
  /\ IsFiniteSet(S)
  /\ \A s \in S : /\ s.id \in 1..Cardinality(S)
                  /\ s.key = s.blob /\ s.checksum = s.blob /\ s.count = Len(s.blob)
                  /\ BlobDecodes(s)
  /\ \A s, t \in S : s.id = t.id => s = t

\* The record of the pack of some rows, whose actions are a schema.
IsRecordOf(r, rs, S) ==
  /\ Encodable(rs)
  /\ r.line = rs[1].line /\ r.hands = Len(HandsOf(rs))
  /\ r.length = Len(Payload(rs)) /\ r.checksum = Payload(rs)
  /\ \E s \in S : s.id = r.schema /\ s.blob = ActionBlob(rs)

\* A record of all the rows of a line.
FromLine(r, T, S) ==
  \E lo, hi \in 1..Len(T) : LineAt(T, lo, hi) /\ IsRecordOf(r, SubSeq(T, lo, hi), S)

FromLines(records, T, S) == \A i \in DOMAIN records : FromLine(records[i], T, S)

LEMMA MoreSchemas ==
  ASSUME NEW records, NEW T, NEW S, NEW R, S \subseteq R, FromLines(records, T, S)
  PROVE  FromLines(records, T, R)
  BY DEF FromLines, FromLine, IsRecordOf

LEMMA BlobOfRows ==
  ASSUME NEW rs \in Seq(TableRow), Encodable(rs)
  PROVE  LET blob == ActionBlob(rs)
         IN /\ Len(blob) = Len(ActionsOf(rs)) /\ Len(blob) \in 1..MaxActions
            /\ DOMAIN blob = 1..Len(blob)
            /\ \A a \in DOMAIN blob : blob[a][1] \in ActionType
  <1> DEFINE A == ActionsOf(rs)
             blob == ActionBlob(rs)
  <1>1. Len(A) \in 1..MaxActions
    BY PartsArePacked DEF Packed
  <1>2. Enumerates(A, ActionsIn(rs), LessActions(ActionsIn(rs)))
    BY ActionsAreOrdered
  <1>3. DOMAIN A = 1..Len(A) /\ Len(A) \in Nat /\ \A a \in 1..Len(A) : A[a] \in ActionsIn(rs)
    BY <1>2, LenProperties, ElementOfSeq DEF Enumerates
  <1>4. IsSeq(blob)
    BY BlobIsSeq
  <1>5. DOMAIN blob = DOMAIN A /\ \A a \in DOMAIN A : blob[a][1] = A[a][1]
    BY DEF ActionBlob
  <1> HIDE DEF A, blob
  <1>6. DOMAIN blob = 1..Len(blob) /\ Len(blob) \in Nat
    BY <1>4, LenProperties DEF IsSeq
  <1>7. Len(blob) = Len(A)
    BY <1>3, <1>5, <1>6
  <1>8. \A a \in DOMAIN A : A[a][1] \in ActionType
    BY <1>3 DEF ActionsIn, Encodable
  <1> QED BY <1>1, <1>5, <1>6, <1>7, <1>8 DEF A, blob

\* A schema that is there is found, one that is not gets the next id.
LEMMA SchemaIsStored ==
  ASSUME GoodSchemas(schemas), NEW rs \in Seq(TableRow), Encodable(rs)
  PROVE  LET blob == ActionBlob(rs)
         IN /\ GoodSchemas(SchemasWith(blob)) /\ schemas \subseteq SchemasWith(blob)
            /\ \E s \in SchemasWith(blob) : s.id = SchemaId(blob) /\ s.blob = blob
  <1> DEFINE blob == ActionBlob(rs)
             S == SchemasWith(blob)
             n == Cardinality(schemas)
             new == SchemaRow(n + 1, blob)
  <1>1. /\ Len(blob) \in 1..MaxActions /\ DOMAIN blob = 1..Len(blob)
        /\ \A a \in DOMAIN blob : blob[a][1] \in ActionType
    BY BlobOfRows
  <1>2. (S = schemas /\ \E s \in schemas : s.key = blob) \/ S = schemas \cup {new}
    BY DEF SchemasWith
  <1>3. /\ new.id = n + 1 /\ new.key = blob /\ new.checksum = blob /\ new.blob = blob
        /\ new.count = Len(blob)
    BY DEF SchemaRow
  <1>4. SchemaId(blob) = (CHOOSE s \in S : s.key = blob).id
    BY DEF SchemaId
  <1>5. n \in Nat
    BY FS_CardinalityType DEF GoodSchemas
  <1> HIDE DEF blob, S, new
  <1>6. BlobDecodes(new)
    BY <1>1, <1>3 DEF BlobDecodes
  <1>7. schemas \subseteq S /\ \E s \in S : s.key = blob
    BY <1>2, <1>3
  <1>8. GoodSchemas(S)
    <2>1. CASE S = schemas
      BY <2>1
    <2>2. CASE S = schemas \cup {new}
      <3>1. \A s \in schemas : s.id \in 1..n /\ s # new
        <4>1. \A s \in schemas : s.id \in 1..n
          BY DEF GoodSchemas
        <4> HIDE DEF n
        <4>2. n + 1 \notin 1..n
          BY <1>5
        <4> QED BY <1>3, <4>1, <4>2
      <3>2. IsFiniteSet(S) /\ Cardinality(S) = n + 1
        <4>1. new \notin schemas
          BY <3>1
        <4> QED BY <2>2, <4>1, FS_AddElement DEF GoodSchemas
      <3>3. \A s \in schemas : /\ s.id \in 1..Cardinality(S)
                               /\ s.key = s.blob /\ s.checksum = s.blob /\ s.count = Len(s.blob)
                               /\ BlobDecodes(s)
        <4>1. \A k \in 1..n : k \in 1..Cardinality(S)
          <5> HIDE DEF n
          <5> QED BY <1>5, <3>2
        <4> HIDE DEF n
        <4> QED BY <3>1, <4>1 DEF GoodSchemas
      <3>4. new.id \in 1..Cardinality(S)
        <4> HIDE DEF n
        <4> QED BY <1>3, <1>5, <3>2
      <3>5. \A s \in schemas : s.id # new.id
        <4> HIDE DEF n
        <4> QED BY <1>3, <1>5, <3>1
      <3>6. \A s, t \in schemas : s.id = t.id => s = t
        BY DEF GoodSchemas
      <3>7. \A s, t \in S : s.id = t.id => s = t
        BY <2>2, <3>5, <3>6
      <3>8. \A s \in S : /\ s.id \in 1..Cardinality(S)
                         /\ s.key = s.blob /\ s.checksum = s.blob /\ s.count = Len(s.blob)
                         /\ BlobDecodes(s)
        BY <1>3, <1>6, <2>2, <3>3, <3>4
      <3> QED BY <3>2, <3>7, <3>8 DEF GoodSchemas
    <2> QED BY <1>2, <2>1, <2>2
  <1>9. \E s \in S : s.id = SchemaId(blob) /\ s.blob = blob
    <2> DEFINE s == CHOOSE s \in S : s.key = blob
    <2>1. s \in S /\ s.key = blob
      BY <1>7
    <2>2. s.id = SchemaId(blob)
      BY <1>4
    <2> HIDE DEF s
    <2>3. s.blob = blob
      BY <1>8, <2>1 DEF GoodSchemas
    <2> QED BY <2>1, <2>2, <2>3
  <1> QED BY <1>7, <1>8, <1>9 DEF blob, S

\* The pack that is flushed is that of all the rows of a line.
LEMMA FlushedIsOfLine ==
  ASSUME FilesInv, BuildTypes, Gathered, Gathering, GoodSchemas(schemas),
         FromLines(idx, Table, schemas), pc = "rows", LineEnds, Flush
  PROVE  GoodSchemas(schemas') /\ schemas \subseteq schemas' /\ FromLines(idx', Table, schemas')
  <1> DEFINE T == Table
             blob == ActionBlob(rows)
             r == Record(rows[1].line, SchemaId(blob), Len(HandsOf(rows)), offset, Payload(rows))
  <1>1. /\ rows \in Seq(TableRow) /\ Encodable(rows)
        /\ idx' = Append(idx, r) /\ schemas' = SchemasWith(blob)
    BY DEF Flush, Flushable, FilesInv, Walk
  <1>2. /\ GoodSchemas(schemas') /\ schemas \subseteq schemas'
        /\ \E s \in schemas' : s.id = SchemaId(blob) /\ s.blob = blob
    BY <1>1, SchemaIsStored
  <1>3. /\ r.line = rows[1].line /\ r.schema = SchemaId(blob) /\ r.hands = Len(HandsOf(rows))
        /\ r.length = Len(Payload(rows)) /\ r.checksum = Payload(rows)
    BY DEF Record
  <1>4. IsRecordOf(r, rows, schemas')
    <2> HIDE DEF r
    <2> QED BY <1>1, <1>2, <1>3 DEF IsRecordOf
  <1>5. /\ T \in Seq(TableRow) /\ Len(T) \in Nat /\ at \in Nat
        /\ InOrder(T) /\ DOMAIN T = 1..Len(T) /\ \A j \in 1..Len(T) : T[j].line \in Nat
    BY TableInOrder
  <1>6. rows # <<>> /\ at \in 1..Len(T)
    BY FlushedLineIsNext
  <1>7. PICK lo \in 1..at : /\ rows = SubSeq(T, lo, at)
                            /\ \A j \in lo..at : T[j].line = T[at].line
                            /\ \A j \in 1..(lo - 1) : T[j].line # T[at].line
    BY <1>6 DEF Gathering
  <1>8. lo \in 1..Len(T) /\ at \in lo..Len(T) /\ lo \in lo..at
    BY <1>5, <1>6
  <1>9. ASSUME NEW j \in 1..Len(T), j > at
        PROVE  T[j].line # T[at].line
    <2>1. at < Len(T)
      BY <1>5, <1>9
    <2>2. PICK i \in DOMAIN rows : rows[i].line # T[at + 1].line
      BY <2>1 DEF LineEnds, SameLine
    <2>3. rows[i].line = T[at].line
      BY <1>6, <2>2 DEF Gathered
    <2>4. at + 1 \in 1..Len(T) /\ at < at + 1 /\ (at + 1 = j \/ at + 1 < j)
      BY <1>5, <1>9, <2>1
    <2> HIDE DEF T
    <2>5. T[at].line <= T[at + 1].line /\ T[at + 1].line <= T[j].line
      BY <1>5, <1>6, <2>4 DEF InOrder
    <2>6. T[at].line \in Nat /\ T[at + 1].line \in Nat /\ T[j].line \in Nat
      BY <1>5, <1>6, <2>4
    <2> QED BY <2>2, <2>3, <2>5, <2>6
  <1>10. LineAt(T, lo, at)
    <2>1. T[lo].line = T[at].line
      BY <1>7, <1>8
    <2>2. ASSUME NEW j \in 1..Len(T)
          PROVE  T[j].line = T[lo].line <=> j \in lo..at
      <3>1. j \in lo..at \/ j \in 1..(lo - 1) \/ j > at
        BY <1>5, <1>8
      <3>2. j \in 1..(lo - 1) \/ j > at => j \notin lo..at
        BY <1>5, <1>8
      <3> QED BY <1>7, <1>9, <2>1, <3>1, <3>2
    <2> QED BY <1>8, <2>2 DEF LineAt
  <1>11. FromLine(r, T, schemas')
    <2> HIDE DEF r, T
    <2> QED BY <1>4, <1>6, <1>7, <1>8, <1>10 DEF FromLine
  <1>12. FromLines(idx, T, schemas')
    BY <1>2, MoreSchemas
  <1> HIDE DEF r, T
  <1>13. PICK B : idx \in Seq(B)
    BY DEF FilesInv, Packs, IsSeq
  <1>14. idx \in Seq(B \cup {r}) /\ r \in B \cup {r}
    BY <1>13, SeqMonotonic
  <1>15. /\ DOMAIN idx' = 1..(Len(idx) + 1) /\ DOMAIN idx = 1..Len(idx) /\ Len(idx) \in Nat
         /\ \A i \in 1..Len(idx) : idx'[i] = idx[i]
         /\ idx'[Len(idx) + 1] = r
    BY <1>1, <1>14, AppendProperties, LenProperties
  <1>16. FromLines(idx', T, schemas')
    <2>1. \A i \in 1..(Len(idx) + 1) : i \in 1..Len(idx) \/ i = Len(idx) + 1
      BY <1>15
    <2> QED BY <1>11, <1>12, <1>15, <2>1 DEF FromLines
  <1> QED BY <1>2, <1>16 DEF T
-----------------------------------------------------------------------------
(* The origin of what is built                                             *)

\* The entries of a manifest that nobody has changed.
BuiltEntry(e) == ~e.failed /\ e.idxFile /\ e.binFile

\* The metadata that is published with the dimensions of a build.
PublishedAll ==
  /\ disk.manifest = "ok" /\ disk.catalog = "ok" /\ disk.schemas = schemas
  /\ disk.tables = {"build_info", "action_schemas", "drill"}
  /\ disk.info = {"built_at", "source_checksum"}
  /\ disk.lines = {e.dim : e \in ToSet(disk.entries)} /\ disk.indexed = disk.lines

ListsOrigins(D, tables, S) ==
  \A e \in ToSet(D.entries) :
    BuiltEntry(e) /\ FromLines(D.idx[e.dim].records, tables[e.dim], S)

OriginInv ==
  /\ GoodSchemas(schemas)
  /\ pc = "rows" => Gathering /\ FromLines(idx, Table, schemas)
  /\ ListsOrigins(disk, source, schemas)
  /\ pc = "published" => PublishedAll

LEMMA OriginStart == Init => OriginInv
  <1> SUFFICES ASSUME Init PROVE OriginInv
    OBVIOUS
  <1>1. GoodSchemas({})
    BY FS_EmptySet DEF GoodSchemas
  <1>2. ToSet(disk.entries) = {}
    <2>1. disk.entries = <<>> /\ DOMAIN <<>> = {}
      BY DEF Init
    <2> QED BY <2>1 DEF ToSet
  <1>3. schemas = {} /\ pc = "next"
    BY DEF Init
  <1> QED BY <1>1, <1>2, <1>3 DEF OriginInv, ListsOrigins

\* The entries of a manifest after a dimension is finished.
LEMMA FinishedEntries ==
  ASSUME FilesInv, IsDisk(disk), FinishDimension
  PROVE  LET d == Head(plan)
             x == [dim |-> d, failed |-> FALSE, idxFile |-> TRUE, binFile |-> TRUE]
         IN /\ d \in Dim
            /\ \A y \in ToSet(disk'.entries) : y = x \/ y \in ToSet(disk.entries)
            /\ \A y \in ToSet(disk.entries) : y.dim \in Dim
            /\ disk'.idx[d].records = idx
            /\ \A e \in Dim : e # d => disk'.idx[e] = disk.idx[e]
  <1> DEFINE d == Head(plan)
             f == [header |-> "ok", count |-> Len(idx), records |-> idx]
             b == [header |-> "ok", bytes |-> bin]
             x == [dim |-> d, failed |-> FALSE, idxFile |-> TRUE, binFile |-> TRUE]
             I == [disk.idx EXCEPT ![d] = f]
             S == Append(disk.entries, x)
  <1>1. disk' = [disk EXCEPT !.idx = I, !.bin = [disk.bin EXCEPT ![d] = b], !.entries = S]
    BY DEF FinishDimension
  <1>2. d \in Dim
    BY HeadTailProperties DEF FilesInv, Walk, FinishDimension
  <1>3. I[d] = f /\ f.records = idx /\ \A e \in Dim : e # d => I[e] = disk.idx[e]
    BY <1>2 DEF IsDisk
  <1>4. x \in Entry
    BY <1>2 DEF Entry
  <1> HIDE DEF d, f, b, x, I
  <1>5. disk.entries \in Seq(Entry) /\ Len(disk.entries) \in Nat
        /\ DOMAIN disk.entries = 1..Len(disk.entries)
    BY LenProperties DEF IsDisk
  <1>6. /\ S \in Seq(Entry) /\ Len(S) = Len(disk.entries) + 1 /\ S[Len(disk.entries) + 1] = x
        /\ \A i \in 1..Len(disk.entries) : S[i] = disk.entries[i]
    BY <1>4, <1>5, AppendProperties
  <1>7. DOMAIN S = 1..(Len(disk.entries) + 1)
    BY <1>6, LenProperties
  <1>8. disk'.idx = I /\ disk'.entries = S
    BY <1>1 DEF IsDisk
  <1> HIDE DEF S
  <1>9. \A y \in ToSet(S) : y = x \/ y \in ToSet(disk.entries)
    BY <1>5, <1>6, <1>7 DEF ToSet
  <1>10. \A y \in ToSet(disk.entries) : y.dim \in Dim
    <2>1. \A i \in 1..Len(disk.entries) : disk.entries[i] \in Entry
      BY <1>5, ElementOfSeq
    <2>2. \A y \in Entry : y.dim \in Dim
      BY DEF Entry
    <2> QED BY <1>5, <2>1, <2>2 DEF ToSet
  <1> QED BY <1>2, <1>3, <1>8, <1>9, <1>10 DEF d, x

LEMMA FinishKeepsOrigins ==
  ASSUME FilesInv, IsDisk(disk), OriginInv, FinishDimension
  PROVE  OriginInv'
  <1> DEFINE d == Head(plan)
             x == [dim |-> d, failed |-> FALSE, idxFile |-> TRUE, binFile |-> TRUE]
  <1>1. /\ d \in Dim
        /\ \A y \in ToSet(disk'.entries) : y = x \/ y \in ToSet(disk.entries)
        /\ \A y \in ToSet(disk.entries) : y.dim \in Dim
        /\ disk'.idx[d].records = idx
        /\ \A e \in Dim : e # d => disk'.idx[e] = disk.idx[e]
    BY FinishedEntries
  <1>2. BuiltEntry(x) /\ x.dim = d
    BY DEF BuiltEntry
  <1>3. FromLines(idx, source[d], schemas)
    BY DEF OriginInv, FinishDimension, Table
  <1> HIDE DEF d, x
  <1>4. ASSUME NEW y \in ToSet(disk'.entries)
        PROVE  BuiltEntry(y) /\ FromLines(disk'.idx[y.dim].records, source[y.dim], schemas)
    <2>1. CASE y = x
      BY <1>1, <1>2, <1>3, <2>1
    <2>2. CASE y # x
      <3>1. y \in ToSet(disk.entries)
        BY <1>1, <1>4, <2>2
      <3>2. BuiltEntry(y) /\ FromLines(disk.idx[y.dim].records, source[y.dim], schemas)
        BY <3>1 DEF OriginInv, ListsOrigins
      <3>3. CASE y.dim = d
        BY <1>1, <1>3, <3>2, <3>3
      <3>4. CASE y.dim # d
        BY <1>1, <3>1, <3>2, <3>4
      <3> QED BY <3>3, <3>4
    <2> QED BY <2>1, <2>2
  <1>5. ListsOrigins(disk', source, schemas)
    BY <1>4 DEF ListsOrigins
  <1>6. pc' = "next" /\ source' = source /\ schemas' = schemas
    BY DEF FinishDimension
  <1> QED BY <1>5, <1>6 DEF OriginInv

LEMMA FlushKeepsOrigins ==
  ASSUME FilesInv, BuildTypes, LinesInv, OriginInv, FlushLine \/ FlushLastLine
  PROVE  OriginInv'
  <1>1. /\ pc = "rows" /\ Flush /\ disk' = disk /\ source' = source /\ pc' = pc /\ Table' = Table
        /\ LineEnds
    <2>1. FilesInv => at \in Nat
      BY DEF FilesInv, Walk
    <2>2. CASE FlushLine
      BY <2>2 DEF FlushLine, Table, LineEnds
    <2>3. CASE FlushLastLine
      <3>1. pc = "rows"
        BY <2>3 DEF FlushLastLine
      <3>2. Len(Table) \in Nat
        BY <3>1, TableInOrder
      <3>3. ~(at < Len(Table))
        BY <2>3, <3>2 DEF FlushLastLine
      <3> QED BY <2>3, <3>3 DEF FlushLastLine, Table, LineEnds
    <2> QED BY <2>2, <2>3
  <1>2. GoodSchemas(schemas') /\ schemas \subseteq schemas' /\ FromLines(idx', Table, schemas')
    BY <1>1, FlushedIsOfLine DEF OriginInv, LinesInv
  <1>3. Gathering'
    BY <1>1, FlushKeepsPlaces DEF OriginInv, LinesInv
  <1>4. ListsOrigins(disk, source, schemas')
    <2>1. ASSUME NEW e \in ToSet(disk.entries)
          PROVE  BuiltEntry(e) /\ FromLines(disk.idx[e.dim].records, source[e.dim], schemas')
      BY <1>2, MoreSchemas DEF OriginInv, ListsOrigins
    <2> QED BY <2>1 DEF ListsOrigins
  <1>5. FromLines(idx, Table, schemas)'
    BY <1>1, <1>2 DEF FromLines
  <1> QED BY <1>1, <1>2, <1>3, <1>4, <1>5 DEF OriginInv

LEMMA BuildKeepsOrigins ==
  ASSUME FilesInv, BuildTypes, IsDisk(disk), LinesInv, OriginInv, FilesNext
  PROVE  OriginInv'
  <1>1. CASE CreateFiles
    <2>1. Gathering'
      BY <1>1 DEF CreateFiles, Gathering
    <2>2. idx' = <<>> /\ DOMAIN <<>> = {}
      BY <1>1 DEF CreateFiles
    <2>3. FromLines(idx, Table, schemas)'
      BY <2>2 DEF FromLines
    <2>4. pc' = "rows" /\ disk' = disk /\ source' = source /\ schemas' = schemas
      BY <1>1 DEF CreateFiles
    <2> QED BY <2>1, <2>3, <2>4 DEF OriginInv
  <1>2. CASE GatherRow
    <2>1. Gathering'
      BY <1>2, GatherKeepsPlaces DEF LinesInv, OriginInv, GatherRow
    <2>2. /\ pc = "rows" /\ pc' = "rows" /\ disk' = disk /\ source' = source /\ schemas' = schemas
          /\ idx' = idx /\ Table' = Table
      BY <1>2 DEF GatherRow, Table
    <2>3. FromLines(idx, Table, schemas)'
      BY <2>2 DEF OriginInv, FromLines
    <2> QED BY <2>1, <2>2, <2>3 DEF OriginInv
  <1>3. CASE FlushLine
    BY <1>3, FlushKeepsOrigins
  <1>4. CASE FlushLastLine
    BY <1>4, FlushKeepsOrigins
  <1>5. CASE FailBuild
    BY <1>5 DEF OriginInv, FailBuild
  <1>6. CASE FinishDimension
    BY <1>6, FinishKeepsOrigins
  <1>7. CASE PublishManifest
    <2> DEFINE E == ToSet(disk.entries)
    <2>1. {disk.entries[i].dim : i \in DOMAIN disk.entries} = {e.dim : e \in E}
      BY DEF ToSet
    <2>2. /\ pc' = "published" /\ source' = source /\ schemas' = schemas
          /\ disk'.entries = disk.entries /\ disk'.idx = disk.idx
          /\ disk'.manifest = "ok" /\ disk'.catalog = "ok"
          /\ disk'.tables = {"build_info", "action_schemas", "drill"}
          /\ disk'.info = {"built_at", "source_checksum"}
          /\ disk'.lines = {e.dim : e \in E} /\ disk'.indexed = {e.dim : e \in E}
          /\ disk'.schemas = schemas
      BY <1>7, <2>1 DEF PublishManifest, IsDisk
    <2>3. ListsOrigins(disk', source, schemas)
      BY <2>2 DEF OriginInv, ListsOrigins
    <2>4. PublishedAll'
      BY <2>2 DEF PublishedAll
    <2> QED BY <2>2, <2>3, <2>4 DEF OriginInv
  <1> QED BY <1>1, <1>2, <1>3, <1>4, <1>5, <1>6, <1>7 DEF FilesNext

\* A store that nobody has changed.
KeptOrigins == harmed = "" => ReadInv /\ LinesInv /\ OriginInv

LEMMA KeptStart == InitVerify => KeptOrigins
  BY ReadStart, LinesStart, OriginStart DEF InitVerify, KeptOrigins

LEMMA KeptStep == VerifyInv /\ KeptOrigins /\ [VerifyNext]_verifyVars => KeptOrigins'
  <1> SUFFICES ASSUME VerifyInv, harmed = "" => ReadInv /\ LinesInv /\ OriginInv,
                      [VerifyNext]_verifyVars, harmed' = ""
               PROVE  ReadInv' /\ LinesInv' /\ OriginInv'
    BY DEF KeptOrigins
  <1>1. LinesInv'
    BY LinesStep DEF KeptLines
  <1>2. CASE Build
    <2>1. FilesNext /\ harmed = ""
      BY <1>2 DEF Build
    <2>2. pc # "published"
      BY <2>1 DEF FilesNext, CreateFiles, GatherRow, FlushLine, FlushLastLine, FailBuild,
                  FinishDimension, PublishManifest
    <2>3. FilesInv /\ BuildTypes /\ IsDisk(disk)
      BY <2>2 DEF VerifyInv, VerifyTypes
    <2>4. ReadInv'
      BY <2>1, ReadStep
    <2> QED BY <1>1, <2>1, <2>3, <2>4, BuildKeepsOrigins
  <1>3. CASE DamageFiles \/ EditSource
    BY <1>3 DEF DamageFiles, EditSource
  <1>4. CASE UNCHANGED fileVars /\ harmed' = harmed
    <2>1. ReadInv'
      BY <1>4, ReadStep
    <2>2. OriginInv'
      BY <1>4 DEF OriginInv, fileVars, building, Gathering, Table, PublishedAll
    <2> QED BY <1>1, <2>1, <2>2
  <1>5. CASE VerifyStandalone \/ VerifyCross \/ UNCHANGED verifyVars
    BY <1>4, <1>5 DEF VerifyStandalone, VerifyCross, verifyVars
  <1> QED BY <1>2, <1>3, <1>5 DEF VerifyNext

LEMMA KeptAlways == VerifySpec => [](VerifyInv /\ KeptOrigins)
  BY KeptStart, KeptStep, VerifyStart, VerifyStep, PTL DEF VerifySpec
-----------------------------------------------------------------------------
(* The line of a row is served from the rows of that line                  *)

LEMMA FloatIsNear ==
  ASSUME NEW x \in Int
  PROVE  Distance(Float32(x), x) <= Step - 1
  <1>0. Step \in Nat \ {0}
    BY PackAssumption
  <1>1. CASE x = Infinite
    <2>1. Float32(x) = x
      BY <1>1 DEF Float32
    <2> QED BY <1>0, <2>1 DEF Distance
  <1>2. CASE x # Infinite
    <2> DEFINE q == x \div Step
               m == x % Step
    <2>1. q \in Int /\ m \in 0..(Step - 1) /\ x = q * Step + m
      BY <1>0, Z3
    <2> HIDE DEF q, m
    <2> DEFINE y == q * Step
    <2>2. Float32(x) = y
      BY <1>2 DEF Float32, q
    <2>3. y \in Int /\ x = y + m
      BY <1>0, <2>1, Z3
    <2> HIDE DEF y
    <2>4. ~(x < y) /\ x - y <= Step - 1
      BY <1>0, <2>1, <2>3
    <2>5. Distance(y, x) = IF y < x THEN x - y ELSE y - x
      BY DEF Distance
    <2>6. y < x \/ y = x
      BY <2>3, <2>4
    <2>7. y = x => y - x = 0
      BY <2>3
    <2> QED BY <1>0, <2>2, <2>4, <2>5, <2>6, <2>7
  <1> QED BY <1>1, <1>2

\* The pack that is found for a line is that of some rows, and passes the checks
\* of a reader.
Serves(f, b, line, rs, S) ==
  LET r == Found(f, line)
  IN /\ Finds(f, line) /\ Encodable(rs)
     /\ \A verify \in BOOLEAN : PackReadable(b, r, verify)
     /\ PackBytes(b, r) = Payload(rs)
     /\ r.hands = Len(HandsOf(rs)) /\ r.length = Len(Payload(rs))
     /\ ActionCountFromPack(r.hands, r.length) = Len(ActionsOf(rs))
     /\ \E s \in S : s.id = r.schema /\ s.blob = ActionBlob(rs)

\* What a line is when its places are known.
LEMMA LineOfPlace ==
  ASSUME NEW T \in Seq(TableRow), NEW lo, NEW hi, LineAt(T, lo, hi),
         NEW i \in 1..Len(T)
  PROVE  /\ SubSeq(T, lo, hi) \in Seq(TableRow) /\ Len(SubSeq(T, lo, hi)) = hi - lo + 1
         /\ SubSeq(T, lo, hi)[1] = T[lo]
         /\ T[i].line = T[lo].line <=> i \in lo..hi
         /\ i \in lo..hi => /\ i - lo + 1 \in 1..(hi - lo + 1)
                            /\ SubSeq(T, lo, hi)[i - lo + 1] = T[i]
  <1>1. lo \in 1..Len(T) /\ hi \in lo..Len(T) /\ Len(T) \in Nat
    BY LenProperties DEF LineAt
  <1>2. /\ SubSeq(T, lo, hi) \in Seq(TableRow) /\ Len(SubSeq(T, lo, hi)) = hi - lo + 1
        /\ \A k \in 1..(hi - lo + 1) : SubSeq(T, lo, hi)[k] = T[lo + k - 1]
    BY <1>1, PartOfTable
  <1> DEFINE s == SubSeq(T, lo, hi)
  <1> HIDE DEF s
  <1>3. 1 \in 1..(hi - lo + 1) /\ lo + 1 - 1 = lo
    BY <1>1
  <1>4. i \in lo..hi => i - lo + 1 \in 1..(hi - lo + 1) /\ lo + (i - lo + 1) - 1 = i
    BY <1>1
  <1> QED BY <1>2, <1>3, <1>4 DEF LineAt, s

LEMMA LineIsServed ==
  ASSUME ReadInv, LinesInv, OriginInv, IsDisk(disk), pc = "published",
         NEW e \in Successful, Opens(e.dim),
         NEW i \in DOMAIN source[e.dim], source[e.dim][i].line \in Wanted(e.dim)
  PROVE  LET d == e.dim
             T == source[d]
         IN /\ T \in Seq(TableRow)
            /\ \E lo, hi : /\ LineAt(T, lo, hi) /\ i \in lo..hi
                           /\ Serves(disk.idx[d], disk.bin[d], T[i].line, SubSeq(T, lo, hi),
                                     disk.schemas)
  <1> DEFINE d == e.dim
             T == source[d]
             f == disk.idx[d]
             b == disk.bin[d]
             line == T[i].line
             S == disk.schemas
  <1>1. e \in ToSet(disk.entries) /\ d \in Dim
    <2>1. e \in ToSet(disk.entries)
      BY DEF Successful
    <2>2. Successful \subseteq Entry
      BY EntriesAreFinite, DiskIsDisk
    <2> QED BY <2>1, <2>2 DEF Entry
  <1>2. T \in Seq(TableRow) /\ Len(T) \in Nat /\ DOMAIN T = 1..Len(T)
    <2>1. T \in Seq(TableRow)
      BY <1>1, FilesAssumption DEF ReadInv, FilesInv, Walk
    <2> HIDE DEF T
    <2> QED BY <2>1, LenProperties
  <1>3. HasFirstLines(f, T, limit)
    BY <1>1 DEF LinesInv, ListsLines
  <1>4. line \in Stored(f.records)
    <2>1. Wanted(d) = FirstLines(LinesIn(T), limit)
      BY DEF Wanted, FirstLines, LinesIn, Most
    <2> QED BY <1>3, <2>1 DEF HasFirstLines
  <1>5. FromLines(f.records, T, S)
    BY <1>1 DEF OriginInv, ListsOrigins, PublishedAll
  <1>6. IsIdx(f) /\ IdxOpens(f) /\ BinOpens(b)
    BY <1>1 DEF IsDisk, Opens
  <1>7. \A n \in 1..f.count : PackReadable(b, f.records[n], TRUE)
    BY <1>1 DEF ReadInv, PublishedPacksReadable
  <1> HIDE DEF T, f, b, S
  <1>8. PICK n \in DOMAIN f.records : f.records[n].line = line
    BY <1>4 DEF Stored
  <1>9. n \in 1..f.count
    BY <1>3, <1>8, LenProperties DEF HasFirstLines, IsSeq
  <1> DEFINE r == Found(f, line)
  <1>10. Finds(f, line) /\ r = f.records[n]
    BY <1>6, <1>8, <1>9, RecordIsFound
  <1>11. PICK lo \in 1..Len(T), hi \in 1..Len(T) :
           LineAt(T, lo, hi) /\ IsRecordOf(r, SubSeq(T, lo, hi), S)
    BY <1>5, <1>8, <1>10 DEF FromLines, FromLine
  <1> DEFINE rs == SubSeq(T, lo, hi)
  <1> HIDE DEF r
  <1>12. i \in 1..Len(T)
    BY <1>2 DEF T
  <1>13. rs \in Seq(TableRow) /\ rs[1] = T[lo] /\ (T[i].line = T[lo].line => i \in lo..hi)
    <2>1. LineAt(T, lo, hi)
      BY <1>11
    <2>2. T \in Seq(TableRow)
      BY <1>2
    <2>3. SubSeq(T, lo, hi) \in Seq(TableRow)
      BY <1>12, <2>1, <2>2, LineOfPlace, Zenon
    <2>4. SubSeq(T, lo, hi)[1] = T[lo]
      BY <1>12, <2>1, <2>2, LineOfPlace
    <2>5. T[i].line = T[lo].line <=> i \in lo..hi
      BY <1>12, <2>1, <2>2, LineOfPlace, Zenon
    <2> QED BY <2>3, <2>4, <2>5
  <1> HIDE DEF rs
  <1>14. IsRecordOf(r, rs, S)
    BY <1>11 DEF rs
  <1>15. i \in lo..hi
    BY <1>8, <1>10, <1>13, <1>14 DEF IsRecordOf
  <1>16. PackReadable(b, r, TRUE)
    BY <1>7, <1>9, <1>10
  <1>17. PackBytes(b, r) = Payload(rs)
    <2>1. PackBytes(b, r) = r.checksum
      BY <1>16 DEF PackReadable
    <2> QED BY <1>14, <2>1 DEF IsRecordOf
  <1>18. \A verify \in BOOLEAN : PackReadable(b, r, verify)
    BY <1>16, Zenon DEF PackReadable
  <1>19. ActionCountFromPack(r.hands, r.length) = Len(ActionsOf(rs))
    <2>1. Len(HandsOf(rs)) \in 1..HandCount /\ Len(ActionsOf(rs)) \in 0..MaxActions
      BY <1>13, <1>14, EncodableHands DEF IsRecordOf
    <2>2. Len(Payload(rs)) = Len(HandsOf(rs)) * (5 + Len(ActionsOf(rs)) * 8)
      BY <1>13, <1>14, PayloadLength DEF IsRecordOf
    <2>3. r.hands = Len(HandsOf(rs)) /\ r.length = Len(Payload(rs))
      BY <1>14 DEF IsRecordOf
    <2> QED BY <2>1, <2>2, <2>3, ActionCountIsKept
  <1>20. Serves(f, b, line, rs, S)
    BY <1>10, <1>14, <1>17, <1>18, <1>19, Zenon DEF Serves, IsRecordOf, r
  <1> QED BY <1>2, <1>11, <1>15, <1>20 DEF T, f, b, S, rs
-----------------------------------------------------------------------------
(* What was built answers as the source does                               *)

LEMMA ServedRowIsAnswered ==
  ASSUME NEW d, NEW rs \in Seq(TableRow), NEW k \in DOMAIN rs, LastIn(rs, k),
         Serves(disk.idx[d], disk.bin[d], rs[k].line, rs, disk.schemas)
  PROVE  Answers(d, rs[k], Step - 1)
  <1> DEFINE row == rs[k]
             f == disk.idx[d]
             b == disk.bin[d]
             r == Found(f, row.line)
             m == Len(HandsOf(rs))
             n == Len(ActionsOf(rs))
             P == Payload(rs)
             a == NumberOf(rs, row)
             cell == StoredCell(row, a)
             cells == DecodePackForHand(P, m, n, row.hand)
             answer == QueryHand(f, b, row.line, row.hand, FALSE)
             full == [outcome |-> "found", schema |-> r.schema, cells |-> cells]
  <1>1. /\ Finds(f, row.line) /\ Encodable(rs)
        /\ PackReadable(b, r, FALSE) /\ PackBytes(b, r) = P
        /\ r.hands = m /\ ActionCountFromPack(r.hands, r.length) = n
    BY DEF Serves
  <1>2. PICK s \in disk.schemas : s.id = r.schema /\ s.blob = ActionBlob(rs)
    BY DEF Serves
  <1>3. cell \in cells
    BY <1>1, LastRowIsAnswered
  <1>4. a \in 0..(n - 1) /\ ActionsOf(rs)[a + 1] = <<row.action, row.size>>
    BY <1>1, LastRowIsStored
  <1>5. s.blob[a + 1] = <<row.action, Float32(row.size)>>
    <2>1. a + 1 \in DOMAIN ActionBlob(rs)
      <3>1. DOMAIN ActionBlob(rs) = 1..n /\ n \in Nat
        BY <1>1, BlobOfRows, HandsAndActions
      <3> HIDE DEF n, a
      <3> QED BY <1>4, <3>1
    <2> HIDE DEF a, row
    <2> QED BY <1>2, <1>4, <2>1 DEF ActionBlob
  <1>6. cell.action = a /\ cell.freq = Float32(row.freq)
        /\ cell.ev = IF row.ev = NoEv THEN NoEv ELSE Float32(row.ev)
    BY DEF StoredCell
  <1>7. Distance(Float32(row.size), row.size) <= Step - 1
    <2>1. row.size \in Int
      BY RowsHaveTypes
    <2> QED BY <2>1, FloatIsNear
  <1>8. answer = IF cells = {} THEN NotFound ELSE full
    BY <1>1, Zenon DEF QueryHand
  <1>9. full.outcome = "found" /\ full.schema = r.schema /\ full.cells = cells
    OBVIOUS
  <1>10. answer = QueryHand(disk.idx[d], disk.bin[d], row.line, row.hand, FALSE)
    OBVIOUS
  <1> HIDE DEF answer, full, cells, cell, r, a, row
  <1>11. answer = full
    BY <1>3, <1>8
  <1>12. answer.outcome = "found" /\ cell \in answer.cells /\ s.id = answer.schema
    BY <1>2, <1>3, <1>9, <1>11
  <1>13. s.blob[a + 1][1] = row.action /\ s.blob[a + 1][2] = Float32(row.size)
    BY <1>5
  <1>14. /\ s.blob[cell.action + 1][1] = row.action
         /\ Distance(s.blob[cell.action + 1][2], row.size) <= Step - 1
    BY <1>6, <1>7, <1>13
  <1> QED BY <1>6, <1>10, <1>12, <1>14, Zenon DEF Answers, row

LastsIn(rs) == {k \in DOMAIN rs : LastIn(rs, k)}

LEMMA ServedLineIsWhole ==
  ASSUME NEW f, NEW b, NEW line, NEW S, NEW rs \in Seq(TableRow), Serves(f, b, line, rs, S)
  PROVE  Cardinality(QueryAll(f, b, line, TRUE).cells) = Cardinality(LastsIn(rs))
  <1> DEFINE r == Found(f, line)
             m == Len(HandsOf(rs))
             n == Len(ActionsOf(rs))
             P == Payload(rs)
             all == ToSet(DecodePack(P, m, n))
             cells == {<<c.hand, c.cell>> : c \in {c \in all : c.exists}}
             full == [outcome |-> "found", schema |-> r.schema, cells |-> cells]
  <1>1. /\ Finds(f, line) /\ Encodable(rs)
        /\ PackReadable(b, r, TRUE) /\ PackBytes(b, r) = P
        /\ r.hands = m /\ ActionCountFromPack(r.hands, r.length) = n
    BY DEF Serves
  <1>2. PackDecodes(P, m, n)
    <2>1. m \in 1..HandCount /\ n \in 0..MaxActions /\ Len(P) = m * (5 + n * 8)
      BY <1>1, EncodableHands, PayloadLength
    <2>2. n <= MaxActions
      BY <2>1, PackAssumption
    <2> QED BY <2>1, <2>2 DEF PackDecodes
  <1>3. QueryAll(f, b, line, TRUE) = full
    BY <1>1, <1>2, Zenon DEF QueryAll
  <1>4. full.cells = cells
    BY Zenon
  <1>5. Cardinality(cells) = Cardinality(LastsIn(rs))
    BY <1>1, CellsAreLastRows, Zenon DEF LastsIn
  <1> HIDE DEF full, cells
  <1> QED BY <1>3, <1>4, <1>5

LineKey(row) == <<row.line, row.hand, row.action, row.size>>

\* A row of a table is the last of its line, hand and action.
LastOf(T, i) == \A j \in DOMAIN T : j > i => LineKey(T[j]) # LineKey(T[i])

\* The last rows of a line are the last ones of the table.
LEMMA LastsOfLine ==
  ASSUME NEW T \in Seq(TableRow), NEW lo, NEW hi, LineAt(T, lo, hi),
         NEW rs, rs = SubSeq(T, lo, hi), NEW i \in lo..hi
  PROVE  LastIn(rs, i - lo + 1) <=> LastOf(T, i)
  <1>1. /\ lo \in 1..Len(T) /\ hi \in lo..Len(T) /\ Len(T) \in Nat /\ DOMAIN T = 1..Len(T)
    BY LenProperties DEF LineAt
  <1>2. \A j \in lo..hi : j \in 1..Len(T)
    BY <1>1
  <1>3. /\ rs \in Seq(TableRow) /\ Len(rs) = hi - lo + 1 /\ DOMAIN rs = 1..(hi - lo + 1)
    <2>1. /\ rs \in Seq(TableRow) /\ Len(rs) = hi - lo + 1
      BY <1>1, LineOfPlace
    <2> QED BY <2>1, LenProperties
  <1>4. \A j \in lo..hi : j - lo + 1 \in 1..(hi - lo + 1) /\ rs[j - lo + 1] = T[j]
    BY <1>2, LineOfPlace
  <1>5. \A j \in 1..Len(T) : T[j].line = T[i].line <=> j \in lo..hi
    BY <1>2, LineOfPlace
  <1>6. ASSUME LastIn(rs, i - lo + 1), NEW j \in 1..Len(T), j > i, LineKey(T[j]) = LineKey(T[i])
        PROVE  FALSE
    <2>1. T[j].line = T[i].line /\ RowKey(T[j]) = RowKey(T[i])
      BY <1>6 DEF LineKey, RowKey
    <2>2. j \in lo..hi
      BY <1>5, <2>1
    <2>3. rs[j - lo + 1] = T[j] /\ rs[i - lo + 1] = T[i] /\ j - lo + 1 \in DOMAIN rs
      BY <1>3, <1>4, <2>2
    <2>4. j - lo + 1 > i - lo + 1
      BY <1>1, <1>6, <2>2
    <2> QED BY <1>6, <2>1, <2>3, <2>4 DEF LastIn
  <1>7. ASSUME LastOf(T, i), NEW k \in DOMAIN rs, k > i - lo + 1,
               RowKey(rs[k]) = RowKey(rs[i - lo + 1])
        PROVE  FALSE
    <2> DEFINE j == k + lo - 1
    <2>0. k \in 1..(hi - lo + 1)
      BY <1>3
    <2>1. j \in lo..hi /\ j - lo + 1 = k /\ j > i
      <3>1. k > i - lo + 1
        BY <1>7
      <3> QED BY <1>1, <2>0, <3>1
    <2> HIDE DEF j
    <2>2. rs[k] = T[j] /\ rs[i - lo + 1] = T[i] /\ j \in 1..Len(T)
      BY <1>2, <1>4, <2>1
    <2>3. T[j].line = T[i].line
      BY <1>5, <2>1, <2>2
    <2>4. LineKey(T[j]) = LineKey(T[i])
      BY <1>7, <2>2, <2>3 DEF LineKey, RowKey
    <2> QED BY <1>1, <1>7, <2>1, <2>2, <2>4 DEF LastOf
  <1> QED BY <1>1, <1>6, <1>7 DEF LastIn, LastOf

LastsAt(T, line) == {j \in DOMAIN T : T[j].line = line /\ LastOf(T, j)}

LEMMA LastsAreCounted ==
  ASSUME NEW T \in Seq(TableRow), NEW lo, NEW hi, LineAt(T, lo, hi), NEW i \in lo..hi
  PROVE  Cardinality(LastsIn(SubSeq(T, lo, hi))) = Cardinality(LastsAt(T, T[i].line))
  <1>0. PICK rs : rs = SubSeq(T, lo, hi)
    OBVIOUS
  <1> DEFINE A == {j \in DOMAIN T : T[j].line = T[i].line /\ LastOf(T, j)}
             B == {k \in DOMAIN rs : LastIn(rs, k)}
             g == [j \in A |-> j - lo + 1]
  <1>1. /\ lo \in 1..Len(T) /\ hi \in lo..Len(T) /\ Len(T) \in Nat /\ DOMAIN T = 1..Len(T)
    BY LenProperties DEF LineAt
  <1>2. \A j \in lo..hi : j \in 1..Len(T)
    BY <1>1
  <1>3. \A j \in 1..Len(T) : T[j].line = T[i].line <=> j \in lo..hi
    BY <1>2, LineOfPlace
  <1>4. DOMAIN rs = 1..(hi - lo + 1)
    <2>1. rs \in Seq(TableRow) /\ Len(rs) = hi - lo + 1
      BY <1>0, <1>1, LineOfPlace
    <2> QED BY <2>1, LenProperties
  <1>5. A = {j \in lo..hi : LastOf(T, j)}
    BY <1>1, <1>2, <1>3
  <1>6. IsFiniteSet(A) /\ DOMAIN g = A
    <2>1. IsFiniteSet(lo..hi) /\ A \subseteq lo..hi
      BY <1>1, <1>5, FS_Interval
    <2> QED BY <2>1, FS_Subset
  <1>7. \A j \in lo..hi : LastIn(rs, j - lo + 1) <=> LastOf(T, j)
    BY <1>0, LastsOfLine
  <1>8. \A x, y \in A : g[x] = g[y] => x = y
    BY <1>1, <1>5
  <1>9. ASSUME NEW k \in B
        PROVE  \E j \in A : g[j] = k
    <2> DEFINE j == k + lo - 1
    <2>1. j \in lo..hi /\ j - lo + 1 = k
      BY <1>1, <1>4
    <2> HIDE DEF j
    <2>2. j \in A
      BY <1>5, <1>7, <2>1
    <2> QED BY <2>1, <2>2
  <1>10. ASSUME NEW j \in A
         PROVE  g[j] \in B
    <2>1. j \in lo..hi /\ LastOf(T, j)
      BY <1>5
    <2>2. j - lo + 1 \in 1..(hi - lo + 1)
      BY <1>1, <2>1
    <2> QED BY <1>4, <1>7, <2>1, <2>2
  <1> HIDE DEF A, B, g
  <1>11. Cardinality({g[x] : x \in A}) = Cardinality(A)
    BY <1>6, <1>8, ImageIsAsLarge
  <1>12. {g[x] : x \in A} = B
    BY <1>9, <1>10
  <1>13. A = LastsAt(T, T[i].line) /\ B = LastsIn(rs)
    BY DEF A, B, LastsIn, LastsAt
  <1> QED BY <1>0, <1>11, <1>12, <1>13

\* Whatever the source and the limit, what was built answers as the source does:
\* where it opens, every row of a line it was asked for is answered with its
\* numbers as float32, the last of several rows winning, and the whole range of
\* a line has no cell that no row gave (build_dimension_files,
\* encode_concrete_line_pack, DimensionReader).
THEOREM BuiltAnswersSource == VerifySpec => []BuiltStoreAnswersSource
  <1>1. ASSUME VerifyInv, KeptOrigins, pc = "published", harmed = "",
               NEW e \in Successful, Opens(e.dim),
               NEW i \in DOMAIN source[e.dim], source[e.dim][i].line \in Wanted(e.dim)
        PROVE  LET d == e.dim
                   line == source[d][i].line
               IN /\ Lasts(d, i) => Answers(d, source[d][i], Step - 1)
                  /\ Cardinality(QueryAll(disk.idx[d], disk.bin[d], line, TRUE).cells)
                     = Cardinality({j \in DOMAIN source[d] :
                                      source[d][j].line = line /\ Lasts(d, j)})
    <2> DEFINE d == e.dim
               T == source[d]
               f == disk.idx[d]
               b == disk.bin[d]
    <2>1. ReadInv /\ LinesInv /\ OriginInv /\ IsDisk(disk)
      BY <1>1 DEF KeptOrigins, VerifyInv, VerifyTypes
    <2>2. /\ T \in Seq(TableRow)
          /\ \E lo, hi : /\ LineAt(T, lo, hi) /\ i \in lo..hi
                         /\ Serves(f, b, T[i].line, SubSeq(T, lo, hi), disk.schemas)
      BY <1>1, <2>1, LineIsServed
    <2>3. PICK lo, hi : /\ LineAt(T, lo, hi) /\ i \in lo..hi
                        /\ Serves(f, b, T[i].line, SubSeq(T, lo, hi), disk.schemas)
      BY <2>2
    <2>0. PICK rs : rs = SubSeq(T, lo, hi)
      OBVIOUS
    <2> DEFINE k == i - lo + 1
    <2>4. \A j : Lasts(d, j) <=> LastOf(T, j)
      BY DEF Lasts, LastOf, LineKey
    <2>5. i \in 1..Len(T)
      BY <2>2, LenProperties
    <2> HIDE DEF T
    <2>6. rs \in Seq(TableRow) /\ k \in DOMAIN rs /\ rs[k] = T[i]
      <3>1. rs \in Seq(TableRow) /\ Len(rs) = hi - lo + 1 /\ k \in 1..(hi - lo + 1)
        BY <2>2, <2>3, <2>5, <2>0, LineOfPlace, Zenon
      <3>2. rs[k] = T[i]
        <4>1. T \in Seq(TableRow) /\ LineAt(T, lo, hi) /\ i \in lo..hi
          BY <2>2, <2>3
        <4> QED BY <2>5, <2>0, <4>1, LineOfPlace
      <3> QED BY <3>1, <3>2, LenProperties
    <2>7. LastIn(rs, k) <=> LastOf(T, i)
      BY <2>2, <2>3, <2>0, LastsOfLine
    <2>8. Cardinality(LastsIn(rs)) = Cardinality(LastsAt(T, T[i].line))
      <3>1. Cardinality(LastsIn(SubSeq(T, lo, hi))) = Cardinality(LastsAt(T, T[i].line))
        BY <2>2, <2>3, LastsAreCounted
      <3> QED BY <2>0, <3>1
    <2> HIDE DEF k
    <2>9. Serves(f, b, T[i].line, rs, disk.schemas)
      BY <2>3, <2>0
    <2>10. Lasts(d, i) => Answers(d, T[i], Step - 1)
      BY <2>4, <2>6, <2>7, <2>9, ServedRowIsAnswered
    <2>11. Cardinality(QueryAll(f, b, T[i].line, TRUE).cells) = Cardinality(LastsAt(T, T[i].line))
      BY <2>6, <2>8, <2>9, ServedLineIsWhole
    <2>12. LastsAt(T, T[i].line) = {j \in DOMAIN T : T[j].line = T[i].line /\ Lasts(d, j)}
      BY <2>4 DEF LastsAt
    <2> QED BY <2>10, <2>11, <2>12 DEF T
  <1>2. ASSUME VerifyInv, KeptOrigins, pc = "published", harmed = "",
               NEW d \in {e.dim : e \in Successful}, Opens(d),
               NEW i \in {i \in DOMAIN source[d] : source[d][i].line \in Wanted(d)}
        PROVE  LET line == source[d][i].line
               IN /\ Lasts(d, i) => Answers(d, source[d][i], Step - 1)
                  /\ Cardinality(QueryAll(disk.idx[d], disk.bin[d], line, TRUE).cells)
                     = Cardinality({j \in DOMAIN source[d] :
                                      source[d][j].line = line /\ Lasts(d, j)})
    <2>1. PICK e \in Successful : d = e.dim
      OBVIOUS
    <2>2. i \in DOMAIN source[e.dim] /\ source[e.dim][i].line \in Wanted(e.dim) /\ Opens(e.dim)
      BY <1>2, <2>1
    <2> QED BY <1>1, <1>2, <2>1, <2>2, Zenon
  <1>3. VerifyInv /\ KeptOrigins => BuiltStoreAnswersSource
    BY <1>2, Zenon DEF BuiltStoreAnswersSource
  <1> QED BY <1>3, KeptAlways, PTL
-----------------------------------------------------------------------------
(* What was built passes the standalone check                              *)

\* A published store that nobody has changed: it has an action schema, and its
\* dimensions open.
FreshStore ==
  /\ ReadInv /\ LinesInv /\ OriginInv /\ IsDisk(disk) /\ pc = "published"
  /\ \A e \in Successful : Opens(e.dim)
  /\ disk.schemas # {}

LEMMA FreshEntries ==
  ASSUME FreshStore
  PROVE  /\ Successful = ToSet(disk.entries)
         /\ \A e \in Successful :
              /\ e.dim \in Dim /\ e.idxFile /\ e.binFile /\ Opens(e.dim)
              /\ disk.idx[e.dim].header = "ok" /\ disk.bin[e.dim].header = "ok"
              /\ e.dim \in disk.lines /\ e.dim \in disk.indexed
  <1>1. \A e \in ToSet(disk.entries) : ~e.failed /\ e.idxFile /\ e.binFile
    BY DEF FreshStore, OriginInv, ListsOrigins, BuiltEntry
  <1>2. Successful = ToSet(disk.entries)
    BY <1>1 DEF Successful
  <1>3. Successful \subseteq Entry
    BY EntriesAreFinite, DiskIsDisk DEF FreshStore
  <1>4. \A e \in Entry : e.dim \in Dim
    BY DEF Entry
  <1>5. \A e \in Successful : Opens(e.dim)
    BY DEF FreshStore
  <1>6. \A e \in Successful : disk.idx[e.dim].header = "ok" /\ disk.bin[e.dim].header = "ok"
    BY <1>5 DEF Opens, IdxOpens, BinOpens
  <1>7. \A e \in Successful : e.dim \in disk.lines /\ e.dim \in disk.indexed
    BY <1>2 DEF FreshStore, OriginInv, PublishedAll
  <1> QED BY <1>1, <1>2, <1>3, <1>4, <1>5, <1>6, <1>7

LEMMA FreshSchema ==
  ASSUME GoodSchemas(disk.schemas), NEW s \in disk.schemas
  PROVE  SchemaFailures(s) = {}
  <1>1. /\ Len(s.blob) = s.count /\ s.count \in 1..MaxActions
        /\ s.checksum = s.blob /\ s.key = s.blob
    BY DEF GoodSchemas, BlobDecodes
  <1> QED BY <1>1 DEF SchemaFailures, When

LEMMA FreshCatalog ==
  ASSUME FreshStore
  PROVE  /\ ManifestFailures = {} /\ MissingFiles = {} /\ CatalogFailures = {}
         /\ KnownSchemas = disk.schemas
  <1>1. /\ disk.manifest = "ok" /\ disk.catalog = "ok"
        /\ disk.tables = {"build_info", "action_schemas", "drill"}
        /\ disk.info = {"built_at", "source_checksum"}
        /\ GoodSchemas(disk.schemas) /\ disk.schemas # {}
    BY DEF FreshStore, OriginInv, PublishedAll
  <1>2. ManifestFailures = {}
    BY <1>1 DEF ManifestFailures
  <1>3. \A e \in Successful : HasIdx(e) /\ HasBin(e)
    BY FreshEntries DEF HasIdx, HasBin
  <1>4. MissingFiles = {}
    BY <1>1, <1>3 DEF MissingFiles, When
  <1>5. HasTable("build_info") /\ HasTable("action_schemas") /\ HasTable("drill")
    BY <1>1 DEF HasTable
  <1>6. KnownSchemas = disk.schemas
    BY <1>5 DEF KnownSchemas
  <1>7. \A s \in KnownSchemas : SchemaFailures(s) = {}
    BY <1>1, <1>6, FreshSchema
  <1>8. UNION {SchemaFailures(s) : s \in KnownSchemas} = {}
    BY <1>7
  <1>9. \A e \in Successful : e.dim \in disk.lines /\ e.dim \in disk.indexed
    BY FreshEntries
  <1>10. CatalogFailures = {}
    BY <1>1, <1>5, <1>8, <1>9 DEF CatalogFailures, When
  <1> QED BY <1>2, <1>4, <1>6, <1>10

\* A record of an index that was built is that of some rows, and its pack can be
\* read.
LEMMA FreshRecord ==
  ASSUME FreshStore, NEW e \in Successful, NEW i \in 1..disk.idx[e.dim].count
  PROVE  LET r == disk.idx[e.dim].records[i]
         IN /\ PackReadable(disk.bin[e.dim], r, TRUE)
            /\ \E rs \in Seq(TableRow) : IsRecordOf(r, rs, disk.schemas)
  <1> DEFINE d == e.dim
             f == disk.idx[d]
             r == f.records[i]
             T == source[d]
             S == disk.schemas
  <1>1. d \in Dim /\ e \in ToSet(disk.entries)
    BY FreshEntries
  <1>2. PackReadable(disk.bin[d], r, TRUE)
    BY <1>1 DEF FreshStore, ReadInv, PublishedPacksReadable
  <1>3. FromLines(f.records, T, S)
    BY <1>1 DEF FreshStore, OriginInv, ListsOrigins, PublishedAll
  <1>4. HasFirstLines(f, T, limit)
    BY <1>1 DEF FreshStore, LinesInv, ListsLines
  <1>5. T \in Seq(TableRow)
    BY <1>1, FilesAssumption DEF FreshStore, ReadInv, FilesInv, Walk
  <1> HIDE DEF T, S, f
  <1>6. i \in DOMAIN f.records
    BY <1>4, LenProperties DEF HasFirstLines, IsSeq, f
  <1>7. PICK lo, hi \in 1..Len(T) : LineAt(T, lo, hi) /\ IsRecordOf(f.records[i], SubSeq(T, lo, hi), S)
    BY <1>3, <1>6 DEF FromLines, FromLine
  <1>8. SubSeq(T, lo, hi) \in Seq(TableRow)
    <2>1. lo \in 1..Len(T) /\ hi \in lo..Len(T)
      BY <1>7 DEF LineAt
    <2> QED BY <1>5, <2>1, PartOfTable
  <1>9. \E rs \in Seq(TableRow) : IsRecordOf(f.records[i], rs, S)
    BY <1>7, <1>8
  <1> QED BY <1>2, <1>9 DEF f, S

\* What such a record says, by the schema that it names.
LEMMA RecordOfRows ==
  ASSUME NEW r, NEW rs \in Seq(TableRow), NEW S, GoodSchemas(S), IsRecordOf(r, rs, S)
  PROVE  LET m == Len(HandsOf(rs))
             n == Len(ActionsOf(rs))
         IN /\ r.hands = m /\ m \in 1..HandCount /\ n \in 1..MaxActions
            /\ r.length = m * (5 + n * 8) /\ PackByteLength(m, n) = m * (5 + n * 8)
            /\ r.checksum = Payload(rs) /\ Sorted(Payload(rs), m)
            /\ \E s \in S : s.id = r.schema
            /\ \A s \in S : s.id = r.schema => s.count = n /\ s.blob = ActionBlob(rs)
  <1> DEFINE m == Len(HandsOf(rs))
             n == Len(ActionsOf(rs))
  <1>1. /\ Encodable(rs) /\ r.hands = m /\ r.length = Len(Payload(rs)) /\ r.checksum = Payload(rs)
        /\ \E s \in S : s.id = r.schema /\ s.blob = ActionBlob(rs)
    BY DEF IsRecordOf
  <1>2. PICK t \in S : t.id = r.schema /\ t.blob = ActionBlob(rs)
    BY <1>1
  <1>3. \A s \in S : s.id = r.schema => s = t
    BY <1>2 DEF GoodSchemas
  <1>4. t.count = Len(ActionBlob(rs)) /\ Len(ActionBlob(rs)) = n
    BY <1>1, <1>2, BlobOfRows DEF GoodSchemas
  <1>5. Packed(rs, Payload(rs), HandsOf(rs), ActionsOf(rs))
    BY <1>1, PartsArePacked
  <1>6. /\ Sorted(Payload(rs), m) /\ Len(Payload(rs)) = m * (5 + n * 8)
        /\ m \in 1..HandCount /\ n \in 1..MaxActions
    BY <1>5 DEF Packed, SoundPack
  <1>7. n \in 0..MaxActions
    BY <1>6, PackAssumption
  <1>8. PackByteLength(m, n) = m * (5 + n * 8)
    BY <1>6, <1>7, ActionCountIsKept
  <1> QED BY <1>1, <1>2, <1>3, <1>4, <1>6, <1>8
-----------------------------------------------------------------------------

LEMMA FreshIndex ==
  ASSUME FreshStore, NEW e \in Successful
  PROVE  IndexFailures(e.dim) = {} /\ Whole(disk.idx[e.dim]) /\ disk.idx[e.dim].count \in Nat
  <1> DEFINE d == e.dim
             f == disk.idx[d]
  <1>1. /\ d \in Dim /\ e \in ToSet(disk.entries) /\ f.header = "ok" /\ Opens(d)
        /\ KnownSchemas = disk.schemas
    BY FreshEntries, FreshCatalog
  <1>2. f.count <= Len(f.records) /\ Dense(f)
    BY <1>1 DEF Opens, IdxOpens
  <1>3. f.count \in Nat /\ \A i \in 1..f.count : f.records[i].line \in Nat
    <2>1. IsIdx(f)
      BY <1>1 DEF FreshStore, IsDisk
    <2> QED BY <1>2, <2>1, LinesOfIndex
  <1>4. Whole(f)
    BY <1>1, <1>2 DEF Whole
  <1> HIDE DEF f, d
  <1>5. ASSUME NEW i \in 1..f.count
        PROVE  RecordFailures(f, d, i) = {}
    <2> DEFINE r == f.records[i]
    <2>1. PICK rs \in Seq(TableRow) : IsRecordOf(r, rs, disk.schemas)
      BY <1>5, FreshRecord DEF f, d
    <2>2. GoodSchemas(disk.schemas)
      BY DEF FreshStore, OriginInv, PublishedAll
    <2>3. r.hands \in 1..HandCount /\ \E s \in disk.schemas : s.id = r.schema
      BY <2>1, <2>2, RecordOfRows
    <2>4. ~(r.hands > HandCount)
      <3>1. HandCount \in Nat
        BY PackAssumption
      <3> QED BY <2>3, <3>1
    <2>5. OrderFailures(f, d, i) = {}
      <3>1. CASE i = 1
        BY <3>1 DEF OrderFailures
      <3>2. CASE i # 1
        <4>1. i - 1 \in 1..f.count /\ 1 \in 1..f.count /\ i \in Nat
          BY <1>3, <3>2
        <4>2. /\ f.records[i].line = f.records[1].line + (i - 1)
              /\ f.records[i - 1].line = f.records[1].line + (i - 1 - 1)
          BY <1>2, <4>1 DEF Dense
        <4>3. f.records[1].line \in Nat
          BY <1>3, <4>1
        <4>4. f.records[i].line = f.records[i - 1].line + 1 /\ f.records[i - 1].line \in Int
          BY <4>1, <4>2, <4>3
        <4>5. ~(f.records[i].line <= f.records[i - 1].line)
              /\ ~(f.records[i].line > f.records[i - 1].line + 1)
          BY <4>4
        <4> QED BY <3>2, <4>5 DEF OrderFailures, When
      <3> QED BY <3>1, <3>2
    <2> HIDE DEF r
    <2>6. \E s \in KnownSchemas : s.id = r.schema
      BY <1>1, <2>3
    <2>7. When(r.hands > HandCount, Failing("index", d, i, "INVALID_HAND_COUNT")) = {}
      BY <2>4 DEF When
    <2>8. When(~\E s \in KnownSchemas : s.id = r.schema,
               Failing("index", d, i, "DANGLING_FOREIGN_KEY")) = {}
      BY <2>6 DEF When
    <2> QED BY <2>5, <2>7, <2>8 DEF RecordFailures, r
  <1>6. UNION {RecordFailures(f, d, i) : i \in IF Whole(f) THEN 1..f.count ELSE {}} = {}
    BY <1>4, <1>5
  <1>7. f = disk.idx[d]
    BY DEF f
  <1>8. IndexFailures(d) = {}
    BY <1>1, <1>4, <1>6, <1>7 DEF IndexFailures, When, f
  <1> QED BY <1>3, <1>4, <1>8 DEF f, d

\* The hands of a sorted pack give no failure.
LEMMA SortedHandsPass ==
  ASSUME NEW pack, NEW hands \in Nat, Sorted(pack, hands), NEW d, NEW i
  PROVE  HandFailures(pack, hands, d, i) = {}
  <1> DEFINE Falls == {k \in 2..hands : pack[k][1] <= pack[k - 1][1]}
  <1>1. \A k \in 1..hands : pack[k][1] \in HandId
    BY DEF Sorted
  <1>2. HandId \subseteq Int
    BY PackAssumption DEF HandId
  <1>3. ASSUME NEW k \in 2..hands, pack[k][1] <= pack[k - 1][1]
        PROVE  FALSE
    <2>1. k \in 1..hands /\ k - 1 \in 1..hands /\ k > 1
      BY <1>3
    <2>2. pack[k - 1][1] < pack[k][1]
      BY <2>1 DEF Sorted
    <2>3. pack[k - 1][1] \in Int /\ pack[k][1] \in Int
      BY <1>1, <1>2, <2>1
    <2> QED BY <1>3, <2>2, <2>3
  <1>4. Falls = {}
    BY <1>3
  <1>5. ~\E k \in 1..hands : pack[k][1] \notin HandId
    BY <1>1
  <1> QED BY <1>4, <1>5 DEF HandFailures, When

LEMMA FreshPack ==
  ASSUME FreshStore, NEW e \in Successful, NEW i \in 1..disk.idx[e.dim].count, NEW checksums
  PROVE  PackFailures(e.dim, i, checksums) = {}
  <1> DEFINE d == e.dim
             b == disk.bin[d]
             r == disk.idx[d].records[i]
             Expected == {PackByteLength(r.hands, s.count) :
                            s \in {s \in KnownSchemas : s.id = r.schema}}
  <1>1. PackReadable(b, r, TRUE)
    BY FreshRecord
  <1>2. PICK rs \in Seq(TableRow) : IsRecordOf(r, rs, disk.schemas)
    BY FreshRecord
  <1>3. GoodSchemas(disk.schemas) /\ KnownSchemas = disk.schemas
    BY FreshCatalog DEF FreshStore, OriginInv, PublishedAll
  <1> DEFINE m == Len(HandsOf(rs))
             n == Len(ActionsOf(rs))
  <1>4. /\ r.hands = m /\ m \in 1..HandCount
        /\ r.length = m * (5 + n * 8) /\ PackByteLength(m, n) = m * (5 + n * 8)
        /\ r.checksum = Payload(rs) /\ Sorted(Payload(rs), m)
        /\ \A s \in disk.schemas : s.id = r.schema => s.count = n
    BY <1>2, <1>3, RecordOfRows
  <1>5. PackInBounds(b, r) /\ PackBytes(b, r) = r.checksum
    BY <1>1 DEF PackReadable
  <1>6. IsBin(b) /\ b.header = "ok"
    BY FreshEntries DEF FreshStore, IsDisk
  <1>7. r.offset >= PfspHeaderSize /\ r.offset + r.length <= BinLength(b)
    BY <1>5 DEF PackInBounds
  <1>8. BinLength(b) \in Nat
    <2>1. PICK H, A : b \in [header : H, bytes : Seq(A)]
      BY <1>6 DEF IsBin
    <2>2. b.bytes \in Seq(A)
      BY <2>1
    <2>3. Len(b.bytes) \in Nat
      BY <2>2, LenProperties
    <2> QED BY <1>6, <2>3 DEF BinLength, PfspHeaderSize
  <1>9. r.offset \in Nat /\ r.length \in Int
    <2>1. IsIdx(disk.idx[d]) /\ disk.idx[d].count <= Len(disk.idx[d].records)
      BY FreshEntries DEF FreshStore, IsDisk, Opens, IdxOpens
    <2>2. PICK H, A : disk.idx[d] \in [header : H, count : Nat, records : Seq(IndexRecord(A))]
      BY <2>1 DEF IsIdx
    <2>3. disk.idx[d].records \in Seq(IndexRecord(A)) /\ disk.idx[d].count \in Nat
      BY <2>2
    <2>4. i \in 1..Len(disk.idx[d].records)
      BY <2>1, <2>3, LenProperties
    <2>5. r \in IndexRecord(A)
      BY <2>3, <2>4, ElementOfSeq
    <2> QED BY <2>5 DEF IndexRecord
  <1>10. ~\E k \in Expected : k # r.length
    BY <1>3, <1>4, Zenon
  <1> HIDE DEF m, n, Expected
  <1>11. ~(r.offset < PfspHeaderSize) /\ ~(r.offset + r.length > BinLength(b))
    BY <1>7, <1>8, <1>9 DEF PfspHeaderSize
  <1>12. HandFailures(PackBytes(b, r), r.hands, d, i) = {}
    <2>1. m \in Nat
      BY <1>4, PackAssumption
    <2> QED BY <1>4, <1>5, <2>1, SortedHandsPass
  <1>13. When(r.offset < PfspHeaderSize, Failing("cross", d, i, "INVALID_OFFSET")) = {}
    BY <1>11 DEF When
  <1>14. When(\E k \in Expected : k # r.length, Failing("cross", d, i, "PACK_SIZE_MISMATCH")) = {}
    BY <1>10 DEF When
  <1>15. When(checksums /\ PackBytes(b, r) # r.checksum,
              Failing("cross", d, i, "CHECKSUM_MISMATCH")) = {}
    BY <1>5 DEF When
  <1> QED BY <1>11, <1>12, <1>13, <1>14, <1>15 DEF PackFailures, Expected

\* The standalone check finds nothing in a store that nobody has changed.
LEMMA FreshStorePasses ==
  ASSUME FreshStore, NEW checksums
  PROVE  StandaloneFailures(checksums) = {}
  <1>1. /\ ManifestFailures = {} /\ MissingFiles = {} /\ CatalogFailures = {}
    BY FreshCatalog
  <1>2. \A e \in Successful : IndexFailures(e.dim) = {}
    BY FreshIndex
  <1>3. \A e \in Successful : PackHeaderFailures(e.dim) = {}
    BY FreshEntries DEF PackHeaderFailures, When
  <1>4. \A e \in Successful : \A i \in PackRecords(e) : PackFailures(e.dim, i, checksums) = {}
    <2>1. ASSUME NEW e \in Successful, NEW i \in PackRecords(e)
          PROVE  i \in 1..disk.idx[e.dim].count
      BY DEF PackRecords
    <2> QED BY <2>1, FreshPack
  <1>5. UNION {IndexFailures(e.dim) : e \in {e \in Successful : e.idxFile}} = {}
    BY <1>2
  <1>6. UNION {PackHeaderFailures(e.dim) : e \in {e \in Successful : e.binFile}} = {}
    BY <1>3
  <1>7. UNION {UNION {PackFailures(e.dim, i, checksums) : i \in PackRecords(e)} : e \in Successful} = {}
    BY <1>4
  <1> QED BY <1>1, <1>5, <1>6, <1>7 DEF StandaloneFailures
-----------------------------------------------------------------------------
(* Sums of nothing                                                         *)

\* The partial sums over the subsets of a set.
Adding(S, F, f) ==
  [s \in SUBSET S |-> IF s = {} THEN 0
                      ELSE F[CHOOSE x \in s : TRUE] + f[s \ {CHOOSE x \in s : TRUE}]]

LEMMA ZerosAddUp ==
  ASSUME NEW S, IsFiniteSet(S), NEW F, \A x \in S : F[x] = 0,
         NEW f, f = Adding(S, F, f)
  PROVE  f[S] = 0
  <1> DEFINE C == {s \in SUBSET S : f[s] # 0}
             K == {Cardinality(s) : s \in C}
  <1>1. \A s \in SUBSET S : IsFiniteSet(s) /\ Cardinality(s) \in Nat
    BY FS_Subset, FS_CardinalityType
  <1>2. ASSUME NEW s \in C
        PROVE  \E t \in C : Cardinality(t) < Cardinality(s)
    <2> DEFINE x == CHOOSE x \in s : TRUE
               t == s \ {x}
    <2>1. s \in SUBSET S /\ f[s] # 0
      OBVIOUS
    <2>2. f[s] = IF s = {} THEN 0 ELSE F[x] + f[t]
      BY <2>1 DEF Adding
    <2>3. s # {}
      BY <2>1, <2>2
    <2>4. x \in s
      BY <2>3
    <2>5. F[x] = 0
      BY <2>1, <2>4
    <2>6. IsFiniteSet(s) /\ t \in SUBSET S /\ Cardinality(t) \in Nat
      BY <1>1, <2>1
    <2>7. Cardinality(t) = Cardinality(s) - 1
      BY <2>4, <2>6, FS_RemoveElement
    <2>8. Cardinality(s) \in Nat
      BY <1>1, <2>1
    <2> HIDE DEF x, t, C
    <2>9. f[t] # 0
      <3>1. ASSUME f[t] = 0
            PROVE  FALSE
        <4>1. f[s] = F[x] + f[t]
          BY <2>2, <2>3
        <4>2. f[s] = 0
          BY <2>5, <3>1, <4>1
        <4> QED BY <2>1, <4>2
      <3> QED BY <3>1
    <2> QED BY <2>6, <2>7, <2>8, <2>9 DEF C
  <1>3. ASSUME C # {}
        PROVE  FALSE
    <2>1. K \in SUBSET Nat /\ K # {}
      BY <1>1, <1>3
    <2>2. Min(K) \in K /\ \A y \in K : Min(K) <= y
      BY <2>1, LeastNumber
    <2> DEFINE k == Min(K)
    <2> HIDE DEF k
    <2>3. k \in K /\ k \in Nat /\ \A y \in K : k <= y
      BY <2>1, <2>2 DEF k
    <2>4. PICK s \in C : k = Cardinality(s)
      BY <2>3
    <2>5. PICK t \in C : Cardinality(t) < Cardinality(s)
      BY <1>2
    <2>6. Cardinality(t) \in K /\ Cardinality(t) \in Nat
      BY <1>1, <2>5
    <2> QED BY <2>3, <2>4, <2>5, <2>6
  <1> QED BY <1>3

LEMMA ZeroIsAdding ==
  ASSUME NEW S, NEW F, \A x \in S : F[x] = 0, NEW z, z = [s \in SUBSET S |-> 0]
  PROVE  z = Adding(S, F, z)
  <1>1. ASSUME NEW s \in SUBSET S
        PROVE  0 = IF s = {} THEN 0
                   ELSE F[CHOOSE x \in s : TRUE] + z[s \ {CHOOSE x \in s : TRUE}]
    <2> DEFINE x == CHOOSE x \in s : TRUE
    <2>1. CASE s = {}
      BY <2>1
    <2>2. CASE s # {}
      <3>1. x \in s
        BY <2>2
      <3>2. F[x] = 0 /\ s \ {x} \in SUBSET S
        BY <3>1
      <3>3. z[s \ {x}] = 0
        BY <3>2
      <3> HIDE DEF x
      <3>4. F[x] + z[s \ {x}] = 0
        BY <3>2, <3>3
      <3> QED BY <2>2, <3>4 DEF x
    <2> QED BY <2>1, <2>2
  <1> QED BY <1>1 DEF Adding
-----------------------------------------------------------------------------
(* A row that the format keeps passes the cross check                      *)

\* The size of a row is near its float32, and no other size of its action is
\* near that.
SizeIsTold(rs, k) ==
  /\ Distance(Float32(rs[k].size), rs[k].size) <= Tolerance
  /\ \A j \in DOMAIN rs :
       (rs[j].action = rs[k].action /\ rs[j].size # rs[k].size)
       => Distance(Float32(rs[j].size), rs[k].size) > Tolerance

\* A row that the format keeps, among those of its line.
CleanRow(rs, k) ==
  /\ LastIn(rs, k) /\ SizeIsTold(rs, k)
  /\ Float32(rs[k].freq) # Infinite /\ Float32(rs[k].ev) # Infinite

LEMMA FloatIsNumber ==
  ASSUME NEW x \in Int
  PROVE  /\ Float32(x) \in Int
         /\ x = Infinite => Float32(x) = Infinite
         /\ Float32(x) = NoEv => x = NoEv
  <1>0. Step \in Nat \ {0} /\ Infinite \in Nat
    BY PackAssumption
  <1>1. CASE x = Infinite
    BY <1>0, <1>1 DEF Float32, NoEv
  <1>2. CASE x # Infinite
    <2> DEFINE q == x \div Step
               m == x % Step
    <2>1. q \in Int /\ m \in 0..(Step - 1) /\ x = q * Step + m
      BY <1>0, Z3
    <2>2. Float32(x) = q * Step
      BY <1>2 DEF Float32
    <2> HIDE DEF q, m
    <2>3. q * Step \in Int
      BY <1>0, <2>1, Z3
    <2>4. ASSUME q * Step = -1
          PROVE  Step = 1
      <3>1. q < 0
        BY <1>0, <2>1, <2>4, Z3
      <3>2. CASE Step # 1
        <4>1. q * Step <= q + q
          BY <1>0, <2>1, <3>1, <3>2, Z3
        <4> QED BY <2>1, <2>4, <3>1, <4>1
      <3> QED BY <3>2
    <2>5. q * Step = -1 => x = -1
      <3>1. ASSUME q * Step = -1
            PROVE  m = 0
        BY <2>1, <2>4, <3>1
      <3> DEFINE y == q * Step
      <3>2. x = y + m
        BY <2>1
      <3> HIDE DEF y
      <3>3. y = -1 => m = 0
        BY <3>1 DEF y
      <3>4. y = -1 => x = -1
        BY <3>2, <3>3
      <3> QED BY <3>4 DEF y
    <2> QED BY <1>2, <2>2, <2>3, <2>5 DEF NoEv
  <1> QED BY <1>1, <1>2

LEMMA CleanRowMatches ==
  ASSUME NEW rs \in Seq(TableRow), Encodable(rs), NEW k \in DOMAIN rs, LastIn(rs, k),
         SizeIsTold(rs, k)
  PROVE  MatchingAction(ActionBlob(rs), rs[k]) = NumberOf(rs, rs[k])
  <1> DEFINE A == ActionsOf(rs)
             n == Len(A)
             blob == ActionBlob(rs)
             row == rs[k]
             a == NumberOf(rs, row)
             Matches == {b \in DOMAIN blob : blob[b][1] = row.action
                                             /\ Distance(blob[b][2], row.size) <= Tolerance}
  <1>1. a \in 0..(n - 1) /\ A[a + 1] = <<row.action, row.size>>
    BY LastRowIsStored
  <1>2. n \in Nat /\ DOMAIN blob = 1..n /\ DOMAIN blob = DOMAIN A
    BY HandsAndActions, BlobOfRows DEF ActionBlob
  <1>3. \A b \in 1..n : blob[b] = <<A[b][1], Float32(A[b][2])>>
    BY <1>2 DEF ActionBlob
  <1>4. \A b \in 1..n : \E j \in DOMAIN rs : A[b] = <<rs[j].action, rs[j].size>>
    <2>1. A \in Seq(ActionsIn(rs))
      BY ActionsAreOrdered DEF Enumerates
    <2> HIDE DEF A
    <2>2. \A b \in 1..Len(A) : A[b] \in ActionsIn(rs)
      BY <2>1, ElementOfSeq
    <2> QED BY <2>2 DEF ActionsIn
  <1> HIDE DEF a, n, A, blob
  <1>5. a + 1 \in 1..n /\ a \in Int
    BY <1>1, <1>2
  <1>6. a + 1 \in Matches
    <2>1. blob[a + 1] = <<row.action, Float32(row.size)>>
      BY <1>1, <1>3, <1>5
    <2>2. Distance(Float32(row.size), row.size) <= Tolerance
      BY DEF SizeIsTold
    <2> QED BY <1>2, <1>5, <2>1, <2>2
  <1>7. ASSUME NEW b \in Matches
        PROVE  b = a + 1
    <2>1. b \in 1..n /\ blob[b][1] = row.action /\ Distance(blob[b][2], row.size) <= Tolerance
      BY <1>2
    <2>2. PICK j \in DOMAIN rs : A[b] = <<rs[j].action, rs[j].size>>
      BY <1>4, <2>1
    <2>3. blob[b] = <<rs[j].action, Float32(rs[j].size)>>
      <3>1. A[b][1] = rs[j].action /\ A[b][2] = rs[j].size
        BY <2>2
      <3> QED BY <1>3, <2>1, <3>1, Zenon
    <2>4. rs[j].action = row.action /\ Distance(Float32(rs[j].size), row.size) <= Tolerance
      BY <2>1, <2>3
    <2>5. rs[j].size \in Int /\ row.size \in Int /\ Tolerance \in Nat
      BY RowsHaveTypes, VerifyAssumption
    <2>6. Distance(Float32(rs[j].size), row.size) \in Int
      <3>1. Float32(rs[j].size) \in Int
        BY <2>5, FloatIsNumber
      <3> QED BY <2>5, <3>1 DEF Distance
    <2>7. rs[j].size = row.size
      <3>1. ~(Distance(Float32(rs[j].size), row.size) > Tolerance)
        BY <2>4, <2>5, <2>6
      <3> QED BY <2>4, <3>1 DEF SizeIsTold
    <2>8. A[b] = A[a + 1]
      BY <1>1, <2>2, <2>4, <2>7
    <2>9. b - 1 \in 0..(n - 1) /\ (b - 1) + 1 = b
      BY <1>2, <2>1
    <2>10. b - 1 = a
      BY <1>1, <2>8, <2>9, ActionsDiffer DEF A, n
    <2> QED BY <2>1, <2>10
  <1>8. Matches = {a + 1}
    BY <1>6, <1>7
  <1>9. Min({a + 1}) = a + 1
    <2>1. {a + 1} \in SUBSET Nat /\ {a + 1} # {}
      BY <1>5
    <2> QED BY <2>1, LeastNumber
  <1>10. PICK v : v = MatchingAction(blob, row)
    OBVIOUS
  <1>11. v = IF Matches = {} THEN -1 ELSE Min(Matches) - 1
    BY <1>10 DEF MatchingAction
  <1> HIDE DEF Matches
  <1>12. Matches # {} /\ Min(Matches) = a + 1
    BY <1>8, <1>9
  <1>13. v = Min(Matches) - 1
    BY <1>11, <1>12
  <1>14. v = a
    BY <1>5, <1>12, <1>13
  <1> QED BY <1>10, <1>14 DEF a, blob
-----------------------------------------------------------------------------

\* What the rows of a line are decoded from.
DecodedRows(rs) ==
  [actions |-> ActionBlob(rs),
   hands |-> [h \in 1..Len(HandsOf(rs)) |-> Payload(rs)[h][1]],
   cells |-> DecodePack(Payload(rs), Len(HandsOf(rs)), Len(ActionsOf(rs)))]

LEMMA PlaceOfHand ==
  ASSUME NEW pack, NEW m \in Nat, Sorted(pack, m), NEW h \in 0..(m - 1), NEW hand,
         pack[h + 1][1] = hand
  PROVE  {g \in 1..m : pack[g][1] = hand} = {h + 1}
  <1> DEFINE Places == {g \in 1..m : pack[g][1] = hand}
  <1>1. h + 1 \in 1..m
    OBVIOUS
  <1>2. \A g \in 1..m : pack[g][1] \in Int
    <2>1. HandId \subseteq Int
      BY PackAssumption DEF HandId
    <2> QED BY <2>1 DEF Sorted
  <1>3. ASSUME NEW g \in Places
        PROVE  g = h + 1
    <2>1. g \in 1..m /\ pack[g][1] = hand
      OBVIOUS
    <2>2. CASE g < h + 1
      <3>1. pack[g][1] < pack[h + 1][1]
        BY <1>1, <2>1, <2>2, SortedIsOrder
      <3> QED BY <1>1, <1>2, <2>1, <3>1
    <2>3. CASE h + 1 < g
      <3>1. pack[h + 1][1] < pack[g][1]
        BY <1>1, <2>1, <2>3, SortedIsOrder
      <3> QED BY <1>1, <1>2, <2>1, <3>1
    <2> QED BY <2>1, <2>2, <2>3
  <1> QED BY <1>1, <1>3

\* The place of the cell of a row that the format keeps, and the cell.
LEMMA CleanRowIsPlaced ==
  ASSUME NEW rs \in Seq(TableRow), Encodable(rs), NEW k \in DOMAIN rs, LastIn(rs, k),
         SizeIsTold(rs, k)
  PROVE  LET decoded == DecodedRows(rs)
             place == CellPlace(decoded, rs[k])
         IN /\ \E h \in DOMAIN decoded.hands : decoded.hands[h] = rs[k].hand
            /\ place # 0 /\ decoded.cells[place].exists
            /\ decoded.cells[place].cell = StoredCell(rs[k], NumberOf(rs, rs[k]))
  <1> DEFINE H == HandsOf(rs)
             A == ActionsOf(rs)
             m == Len(H)
             n == Len(A)
             P == Payload(rs)
             row == rs[k]
             a == NumberOf(rs, row)
             decoded == DecodedRows(rs)
             place == CellPlace(decoded, row)
  <1>1. Packed(rs, P, H, A)
    BY PartsArePacked
  <1>2. /\ m \in Nat \ {0} /\ n \in Nat \ {0} /\ Sorted(P, m)
        /\ \A h \in 0..(m - 1) : P[h + 1][1] = H[h + 1]
    BY <1>1, PackAssumption DEF Packed, SoundPack
  <1>3. a \in 0..(n - 1)
    BY LastRowIsStored
  <1>4. PICK h \in 0..(m - 1) : /\ H[h + 1] = row.hand /\ IsSet(P, m, h, a)
                                /\ CellOfPack(P, m, n, h, a) = StoredCell(row, a)
    BY LastRowIsStored
  <1>5. MatchingAction(ActionBlob(rs), row) = a
    BY CleanRowMatches
  <1>6. Len(ActionBlob(rs)) = n
    BY BlobOfRows
  <1>7. P[h + 1][1] = row.hand
    BY <1>2, <1>4
  <1>8. decoded.actions = ActionBlob(rs) /\ decoded.hands = [g \in 1..m |-> P[g][1]]
        /\ decoded.cells = DecodePack(P, m, n)
    BY DEF DecodedRows
  <1> HIDE DEF H, A, m, n, P, a, row, decoded
  <1>9. DOMAIN decoded.hands = 1..m /\ \A g \in 1..m : decoded.hands[g] = P[g][1]
    BY <1>8
  <1> DEFINE Places == {g \in DOMAIN decoded.hands : decoded.hands[g] = row.hand}
  <1>10. Places = {h + 1}
    <2>1. {g \in 1..m : P[g][1] = row.hand} = {h + 1}
      BY <1>2, <1>7, PlaceOfHand
    <2> QED BY <1>9, <2>1
  <1>11. h + 1 \in 1..m /\ h \in Nat /\ a \in Nat /\ a # -1
    BY <1>2, <1>3
  <1>12. Max({h + 1}) = h + 1
    <2>1. {h + 1} \in SUBSET (1..m) /\ {h + 1} # {}
      BY <1>11
    <2> QED BY <1>2, <2>1, GreatestNumber
  <1>13. \A x : MatchingAction(decoded.actions, row) = x =>
           place = IF Places = {} \/ x = -1 THEN 0
                   ELSE (Max(Places) - 1) * Len(decoded.actions) + x + 1
    BY DEF CellPlace
  <1>14. place = IF Places = {} \/ a = -1 THEN 0
                 ELSE (Max(Places) - 1) * Len(decoded.actions) + a + 1
    BY <1>5, <1>8, <1>13
  <1>15. Len(decoded.actions) = n
    BY <1>6, <1>8
  <1> HIDE DEF Places, place
  <1>16. Places # {} /\ Max(Places) = h + 1
    BY <1>10, <1>12
  <1>17. place = (h + 1 - 1) * n + a + 1
    BY <1>11, <1>14, <1>15, <1>16
  <1>18. h + 1 - 1 = h
    BY <1>11
  <1>19. place = h * n + a + 1
    BY <1>17, <1>18
  <1>20. LET c == DecodePack(P, m, n)[h * n + a + 1]
         IN /\ h * n + a + 1 \in 1..(m * n)
            /\ c.exists <=> IsSet(P, m, h, a)
            /\ c.cell = CellOfPack(P, m, n, h, a)
    BY <1>2, <1>3, <1>4, CellIsDecoded
  <1>21. place # 0
    <2>1. \A x, y \in Nat : x \in 1..y => x # 0
      OBVIOUS
    <2>2. place \in 1..(m * n)
      BY <1>19, <1>20
    <2>3. \A y : 0 \notin 1..y
      OBVIOUS
    <2> QED BY <2>2, <2>3
  <1>22. /\ decoded.cells[place].exists
         /\ decoded.cells[place].cell = StoredCell(row, a)
    BY <1>4, <1>8, <1>19, <1>20
  <1>23. \E g \in DOMAIN decoded.hands : decoded.hands[g] = row.hand
    BY <1>7, <1>9, <1>11
  <1> QED BY <1>21, <1>22, <1>23 DEF decoded, place, row, a

\* A number of a row that the format keeps is the number stored.
LEMMA FiniteRoundTrip ==
  ASSUME NEW x \in Int, Float32(x) # Infinite
  PROVE  /\ RoundTrip(x, Float32(x)) = ""
         /\ NullableRoundTrip(x, IF x = NoEv THEN NoEv ELSE Float32(x)) = ""
  <1>1. x # Infinite /\ (x # NoEv => Float32(x) # NoEv)
    BY FloatIsNumber
  <1>2. RoundTrip(x, Float32(x)) = ""
    BY <1>1 DEF RoundTrip
  <1>3. CASE x = NoEv
    BY <1>2, <1>3 DEF NullableRoundTrip
  <1>4. CASE x # NoEv
    BY <1>1, <1>2, <1>4 DEF NullableRoundTrip
  <1> QED BY <1>2, <1>3, <1>4

LEMMA CleanRowPasses ==
  ASSUME NEW rs \in Seq(TableRow), Encodable(rs), NEW k \in DOMAIN rs, CleanRow(rs, k)
  PROVE  RowFailure(DecodedRows(rs), rs[k]) = ""
  <1> DEFINE row == rs[k]
             decoded == DecodedRows(rs)
             place == CellPlace(decoded, row)
             cell == decoded.cells[place].cell
             a == NumberOf(rs, row)
  <1>1. /\ \E h \in DOMAIN decoded.hands : decoded.hands[h] = row.hand
        /\ place # 0 /\ decoded.cells[place].exists
        /\ cell = StoredCell(row, a)
    BY CleanRowIsPlaced DEF CleanRow
  <1>2. row.hand \in HandId
    BY DEF Encodable
  <1>3. row.freq \in Int /\ row.ev \in Int
    BY RowsHaveTypes
  <1>4. cell.freq = Float32(row.freq)
        /\ cell.ev = IF row.ev = NoEv THEN NoEv ELSE Float32(row.ev)
    BY <1>1 DEF StoredCell
  <1>5. Float32(row.freq) # Infinite /\ Float32(row.ev) # Infinite
    BY DEF CleanRow
  <1>6. RoundTrip(row.freq, Float32(row.freq)) = ""
    BY <1>3, <1>5, FiniteRoundTrip
  <1>7. NullableRoundTrip(row.ev, IF row.ev = NoEv THEN NoEv ELSE Float32(row.ev)) = ""
    BY <1>3, <1>5, FiniteRoundTrip
  <1>8. RoundTrip(row.freq, cell.freq) = "" /\ NullableRoundTrip(row.ev, cell.ev) = ""
    BY <1>4, <1>6, <1>7
  <1>9. ~\A h \in DOMAIN decoded.hands : decoded.hands[h] # row.hand
    BY <1>1
  <1> HIDE DEF row, decoded
  <1> QED BY <1>1, <1>2, <1>8, <1>9, Zenon DEF RowFailure, row, decoded
-----------------------------------------------------------------------------

\* Every cell of a pack that is set is one of a row.
LEMMA NoExtraCells ==
  ASSUME NEW rs \in Seq(TableRow), Encodable(rs),
         \A k \in DOMAIN rs : LastIn(rs, k) /\ SizeIsTold(rs, k)
  PROVE  ExtraCells(DecodedRows(rs), {rs[k] : k \in DOMAIN rs}) = 0
  <1> DEFINE H == HandsOf(rs)
             A == ActionsOf(rs)
             m == Len(H)
             n == Len(A)
             P == Payload(rs)
             decoded == DecodedRows(rs)
             lineRows == {rs[k] : k \in DOMAIN rs}
             Expected == {<<row.hand, MatchingAction(decoded.actions, row)>> :
                            row \in {row \in lineRows :
                                       /\ CellPlace(decoded, row) # 0
                                       /\ decoded.cells[CellPlace(decoded, row)].exists}}
             Extra == {k \in DOMAIN decoded.cells :
                         /\ decoded.cells[k].exists
                         /\ <<decoded.cells[k].hand, decoded.cells[k].cell.action>> \notin Expected}
  <1>1. Packed(rs, P, H, A)
    BY PartsArePacked
  <1>2. /\ m \in Nat \ {0} /\ n \in Nat \ {0}
        /\ \A h \in 0..(m - 1) : P[h + 1][1] = H[h + 1]
        /\ \A h \in 0..(m - 1), a \in 0..(n - 1) :
             IsSet(P, m, h, a) => RowsOf(rs, H[h + 1], A[a + 1]) # {}
    BY <1>1, PackAssumption DEF Packed
  <1>3. decoded.actions = ActionBlob(rs) /\ decoded.cells = DecodePack(P, m, n)
    BY DEF DecodedRows
  <1>4. DOMAIN DecodePack(P, m, n) = 1..(m * n)
    BY DEF DecodePack
  <1>5. ASSUME NEW k \in 1..(m * n), decoded.cells[k].exists
        PROVE  <<decoded.cells[k].hand, decoded.cells[k].cell.action>> \in Expected
    <2> DEFINE c == DecodePack(P, m, n)[k]
    <2>1. PICK h \in 0..(m - 1), a \in 0..(n - 1) :
            /\ c.hand = P[h + 1][1] /\ (c.exists <=> IsSet(P, m, h, a))
            /\ c.cell = CellOfPack(P, m, n, h, a)
      BY <1>2, DecodedCell
    <2>2. c.cell.action = a
      BY <2>1 DEF CellOfPack, CellAt
    <2>3. RowsOf(rs, H[h + 1], A[a + 1]) # {}
      BY <1>2, <1>3, <1>5, <2>1
    <2>4. PICK j \in DOMAIN rs : rs[j].hand = H[h + 1] /\ <<rs[j].action, rs[j].size>> = A[a + 1]
      BY <2>3 DEF RowsOf
    <2>5. MatchingAction(ActionBlob(rs), rs[j]) = NumberOf(rs, rs[j])
      BY CleanRowMatches
    <2>6. /\ NumberOf(rs, rs[j]) \in 0..(n - 1)
          /\ A[NumberOf(rs, rs[j]) + 1] = <<rs[j].action, rs[j].size>>
      BY LastRowIsStored
    <2>7. NumberOf(rs, rs[j]) = a
      BY <2>4, <2>6, ActionsDiffer
    <2>8. CellPlace(decoded, rs[j]) # 0 /\ decoded.cells[CellPlace(decoded, rs[j])].exists
      BY CleanRowIsPlaced
    <2>9. rs[j] \in lineRows
      OBVIOUS
    <2>10. rs[j].hand = c.hand /\ MatchingAction(decoded.actions, rs[j]) = a
      BY <1>2, <1>3, <2>1, <2>4, <2>5, <2>7
    <2>11. c = decoded.cells[k]
      BY <1>3
    <2> HIDE DEF lineRows, decoded, c
    <2>12. <<rs[j].hand, MatchingAction(decoded.actions, rs[j])>> \in Expected
      BY <2>8, <2>9
    <2> HIDE DEF Expected
    <2> QED BY <2>2, <2>10, <2>11, <2>12
  <1> HIDE DEF Expected, decoded
  <1>6. Extra = {}
    BY <1>3, <1>4, <1>5
  <1>7. Cardinality(Extra) = 0
    BY <1>6, FS_EmptySet
  <1> QED BY <1>7, Zenon DEF ExtraCells, Expected, decoded

\* A line that is served is decoded from its rows.
LEMMA ServedIsDecoded ==
  ASSUME GoodSchemas(disk.schemas), NEW rs \in Seq(TableRow), NEW d, NEW line, NEW checksums,
         Serves(disk.idx[d], disk.bin[d], line, rs, disk.schemas)
  PROVE  /\ GroupFailure(d, line, checksums) = ""
         /\ Decoded(d, line) = DecodedRows(rs)
  <1> DEFINE f == disk.idx[d]
             b == disk.bin[d]
             r == Found(f, line)
             m == Len(HandsOf(rs))
             n == Len(ActionsOf(rs))
             P == Payload(rs)
             Schemas == {s \in disk.schemas : s.id = r.schema}
  <1>1. /\ Finds(f, line) /\ Encodable(rs) /\ PackReadable(b, r, TRUE)
        /\ PackBytes(b, r) = P /\ r.hands = m
    BY DEF Serves
  <1>2. PICK t \in disk.schemas : t.id = r.schema /\ t.blob = ActionBlob(rs)
    BY DEF Serves
  <1>3. \A s \in disk.schemas : s.id = r.schema => s = t
    BY <1>2 DEF GoodSchemas
  <1>4. t.count = n
    BY <1>1, <1>2, BlobOfRows DEF GoodSchemas
  <1>5. PackInBounds(b, r) /\ PackBytes(b, r) = r.checksum
    BY <1>1 DEF PackReadable
  <1>6. PackDecodes(P, m, n)
    <2>1. m \in 1..HandCount /\ n \in 0..MaxActions /\ Len(P) = m * (5 + n * 8)
      BY <1>1, EncodableHands, PayloadLength
    <2>2. n <= MaxActions
      BY <2>1, PackAssumption
    <2> QED BY <2>1, <2>2 DEF PackDecodes
  <1>7. (CHOOSE s \in disk.schemas : s.id = r.schema) = t
    BY <1>2, <1>3
  <1> HIDE DEF m, n, P, r
  <1>8. Schemas # {} /\ \A s \in Schemas : PackDecodes(PackBytes(b, r), r.hands, s.count)
    BY <1>1, <1>2, <1>3, <1>4, <1>6
  <1>9. GroupFailure(d, line, checksums) = ""
    <2>1. ~(checksums /\ PackBytes(b, r) # r.checksum)
      BY <1>5
    <2>2. ~\E s \in Schemas : ~PackDecodes(PackBytes(b, r), r.hands, s.count)
      BY <1>8
    <2> QED BY <1>1, <1>5, <1>8, <2>1, <2>2, Zenon DEF GroupFailure, r
  <1>10. Decoded(d, line)
           = [actions |-> t.blob, hands |-> [h \in 1..r.hands |-> PackBytes(b, r)[h][1]],
              cells |-> DecodePack(PackBytes(b, r), r.hands, t.count)]
    BY <1>7, Zenon DEF Decoded, r
  <1>11. Decoded(d, line)
           = [actions |-> ActionBlob(rs), hands |-> [h \in 1..m |-> P[h][1]],
              cells |-> DecodePack(P, m, n)]
    BY <1>1, <1>2, <1>4, <1>10
  <1> QED BY <1>9, <1>11 DEF DecodedRows, m, n, P
-----------------------------------------------------------------------------
(* A source that the format keeps passes the cross check                   *)

\* The rows of a line of such a source.
LEMMA LineIsClean ==
  ASSUME NEW d, source[d] \in Seq(TableRow), Clean(d), NEW lo, NEW hi,
         LineAt(source[d], lo, hi), NEW k \in DOMAIN SubSeq(source[d], lo, hi)
  PROVE  CleanRow(SubSeq(source[d], lo, hi), k)
  <1> DEFINE T == source[d]
             i == k + lo - 1
  <1>0. PICK rs : rs = SubSeq(T, lo, hi)
    OBVIOUS
  <1>1. lo \in 1..Len(T) /\ hi \in lo..Len(T) /\ Len(T) \in Nat /\ DOMAIN T = 1..Len(T)
    BY LenProperties DEF LineAt
  <1>2. /\ rs \in Seq(TableRow) /\ Len(rs) = hi - lo + 1 /\ DOMAIN rs = 1..(hi - lo + 1)
        /\ \A j \in 1..(hi - lo + 1) : rs[j] = T[lo + j - 1]
    <2>1. /\ rs \in Seq(TableRow) /\ Len(rs) = hi - lo + 1
          /\ \A j \in 1..(hi - lo + 1) : rs[j] = T[lo + j - 1]
      <3> HIDE DEF T
      <3>1. T \in Seq(TableRow)
        BY DEF T
      <3> QED BY <1>0, <1>1, <3>1, PartOfTable
    <2> QED BY <2>1, LenProperties
  <1>3. \A j \in 1..(hi - lo + 1) : lo + j - 1 \in lo..hi /\ lo + j - 1 \in 1..Len(T)
    BY <1>1
  <1>4. k \in 1..(hi - lo + 1)
    BY <1>0, <1>2
  <1>5. i \in lo..hi /\ i \in DOMAIN T /\ i - lo + 1 = k /\ lo + k - 1 = i
    BY <1>1, <1>4
  <1>6. rs[k] = T[i]
    BY <1>2, <1>4, <1>5
  <1>7. /\ Lasts(d, i)
        /\ Float32(T[i].freq) # Infinite /\ Float32(T[i].ev) # Infinite
        /\ Distance(Float32(T[i].size), T[i].size) <= Tolerance
        /\ \A j \in DOMAIN T :
             (T[j].line = T[i].line /\ T[j].action = T[i].action /\ T[j].size # T[i].size)
             => Distance(Float32(T[j].size), T[i].size) > Tolerance
    BY <1>5 DEF Clean
  <1>8. LastIn(rs, k)
    <2>1. LastOf(T, i)
      BY <1>7 DEF Lasts, LastOf, LineKey
    <2>2. T \in Seq(TableRow) /\ LineAt(T, lo, hi)
      OBVIOUS
    <2> HIDE DEF T, i
    <2>3. LastIn(rs, i - lo + 1) <=> LastOf(T, i)
      BY <1>0, <1>5, <2>2, LastsOfLine
    <2> QED BY <1>5, <2>1, <2>3
  <1>9. \A j \in lo..hi : T[j].line = T[i].line
    <2>1. \A j \in lo..hi : j \in 1..Len(T)
      BY <1>1
    <2>2. \A j \in lo..hi : T[j].line = T[lo].line
      BY <2>1 DEF LineAt
    <2> QED BY <1>5, <2>2
  <1> HIDE DEF T, i
  <1>10. SizeIsTold(rs, k)
    <2>1. ASSUME NEW j \in DOMAIN rs, rs[j].action = rs[k].action, rs[j].size # rs[k].size
          PROVE  Distance(Float32(rs[j].size), rs[k].size) > Tolerance
      <3>1. PICK g : g = lo + j - 1
        OBVIOUS
      <3>2. rs[j] = T[g] /\ g \in lo..hi /\ g \in DOMAIN T
        BY <1>1, <1>2, <1>3, <2>1, <3>1
      <3> QED BY <1>6, <1>7, <1>9, <2>1, <3>2
    <2> QED BY <1>6, <1>7, <2>1 DEF SizeIsTold
  <1>11. CleanRow(rs, k)
    BY <1>6, <1>7, <1>8, <1>10 DEF CleanRow
  <1> QED BY <1>0, <1>11 DEF T

\* Every row of it is found and right, and its line has no other cell.
LEMMA CleanLinePasses ==
  ASSUME FreshStore, limit = NoLimit, NEW e \in Successful, Clean(e.dim),
         NEW i \in DOMAIN source[e.dim], NEW checksums
  PROVE  LET d == e.dim
             T == source[d]
             line == T[i].line
         IN /\ GroupFailure(d, line, checksums) = ""
            /\ RowFailure(Decoded(d, line), T[i]) = ""
            /\ ExtraCells(Decoded(d, line), {T[j] : j \in {j \in DOMAIN T : T[j].line = line}}) = 0
  <1> DEFINE d == e.dim
             T == source[d]
             line == T[i].line
  <1>1. line \in Wanted(d)
    BY DEF Wanted
  <1>2. GoodSchemas(disk.schemas)
    BY DEF FreshStore, OriginInv, PublishedAll
  <1>3. /\ T \in Seq(TableRow)
        /\ \E lo, hi : /\ LineAt(T, lo, hi) /\ i \in lo..hi
                       /\ Serves(disk.idx[d], disk.bin[d], line, SubSeq(T, lo, hi), disk.schemas)
    BY <1>1, LineIsServed DEF FreshStore
  <1>4. PICK lo, hi : /\ LineAt(T, lo, hi) /\ i \in lo..hi
                      /\ Serves(disk.idx[d], disk.bin[d], line, SubSeq(T, lo, hi), disk.schemas)
    BY <1>3
  <1>5. PICK rs : rs = SubSeq(T, lo, hi)
    OBVIOUS
  <1>6. lo \in 1..Len(T) /\ hi \in lo..Len(T) /\ Len(T) \in Nat /\ DOMAIN T = 1..Len(T)
    <2>1. T \in Seq(TableRow)
      BY <1>3
    <2> HIDE DEF T
    <2> QED BY <1>4, <2>1, LenProperties DEF LineAt
  <1>7. \A k \in DOMAIN rs : CleanRow(rs, k)
    BY <1>3, <1>4, <1>5, LineIsClean
  <1>8. Serves(disk.idx[d], disk.bin[d], line, rs, disk.schemas)
    BY <1>4, <1>5
  <1>9. T \in Seq(TableRow) /\ LineAt(T, lo, hi) /\ i \in lo..hi
    BY <1>3, <1>4
  <1> HIDE DEF T, line
  <1>10. /\ rs \in Seq(TableRow) /\ Len(rs) = hi - lo + 1 /\ DOMAIN rs = 1..(hi - lo + 1)
         /\ \A j \in 1..(hi - lo + 1) : rs[j] = T[lo + j - 1]
    <2>1. /\ rs \in Seq(TableRow) /\ Len(rs) = hi - lo + 1
          /\ \A j \in 1..(hi - lo + 1) : rs[j] = T[lo + j - 1]
      BY <1>5, <1>6, <1>9, PartOfTable
    <2> QED BY <2>1, LenProperties
  <1>11. GroupFailure(d, line, checksums) = "" /\ Decoded(d, line) = DecodedRows(rs)
    BY <1>2, <1>8, <1>10, ServedIsDecoded
  <1>12. Encodable(rs)
    BY <1>8 DEF Serves
  <1>13. RowFailure(Decoded(d, line), T[i]) = ""
    <2>1. PICK k : k = i - lo + 1
      OBVIOUS
    <2>2. k \in 1..(hi - lo + 1) /\ lo + k - 1 = i
      BY <1>6, <1>9, <2>1
    <2>3. k \in DOMAIN rs /\ rs[k] = T[i]
      BY <1>10, <2>2
    <2>4. RowFailure(DecodedRows(rs), rs[k]) = ""
      BY <1>7, <1>10, <1>12, <2>3, CleanRowPasses
    <2> QED BY <1>11, <2>3, <2>4
  <1> DEFINE At == {j \in DOMAIN T : T[j].line = line}
  <1>14. At = lo..hi
    <2>1. \A j \in lo..hi : j \in 1..Len(T)
      BY <1>6
    <2>2. \A j \in 1..Len(T) : T[j].line = T[lo].line <=> j \in lo..hi
      BY <1>9 DEF LineAt
    <2>3. T[lo].line = line
      BY <1>9, <2>1, <2>2 DEF line
    <2> QED BY <1>6, <2>1, <2>2, <2>3
  <1>15. {T[j] : j \in At} = {rs[k] : k \in DOMAIN rs}
    <2> HIDE DEF At
    <2>1. ASSUME NEW j \in At
          PROVE  \E k \in DOMAIN rs : rs[k] = T[j]
      <3>1. PICK k : k = j - lo + 1
        OBVIOUS
      <3>2. j \in lo..hi
        BY <1>14, <2>1
      <3>3. k \in 1..(hi - lo + 1) /\ lo + k - 1 = j
        BY <1>6, <3>1, <3>2
      <3> QED BY <1>10, <3>3
    <2>2. ASSUME NEW k \in DOMAIN rs
          PROVE  \E j \in At : rs[k] = T[j]
      <3>1. PICK j : j = lo + k - 1
        OBVIOUS
      <3>2. k \in 1..(hi - lo + 1)
        BY <1>10, <2>2
      <3>3. j \in lo..hi
        BY <1>6, <3>1, <3>2
      <3> QED BY <1>10, <1>14, <3>1, <3>2, <3>3
    <2> QED BY <2>1, <2>2
  <1>16. ExtraCells(Decoded(d, line), {T[j] : j \in At}) = 0
    <2>1. \A k \in DOMAIN rs : LastIn(rs, k) /\ SizeIsTold(rs, k)
      BY <1>7 DEF CleanRow
    <2>2. ExtraCells(DecodedRows(rs), {rs[k] : k \in DOMAIN rs}) = 0
      BY <1>10, <1>12, <2>1, NoExtraCells
    <2> HIDE DEF At
    <2> QED BY <1>11, <1>15, <2>2
  <1> QED BY <1>11, <1>13, <1>16 DEF T, line
-----------------------------------------------------------------------------

\* The cross check of a dimension of such a source, all of it or a sample.
LEMMA CleanDimensionPasses ==
  ASSUME FreshStore, limit = NoLimit, NEW e \in Successful, Clean(e.dim), NEW c,
         NEW Places \in SUBSET DOMAIN source[e.dim],
         c.sample = 0 => Places = DOMAIN source[e.dim]
  PROVE  LET x == CrossDimension(e.dim, Places, c)
         IN x.failures = {} /\ x.failed = 0 /\ x.extra = 0
  <1> DEFINE d == e.dim
             T == source[d]
             Lines == {T[i].line : i \in Places}
             At(line) == {i \in Places : T[i].line = line}
             Lost == {line \in Lines : GroupFailure(d, line, c.checksums) # ""}
             Reason(i) == RowFailure(Decoded(d, T[i].line), T[i])
             Bad == {i \in Places : T[i].line \notin Lost /\ Reason(i) # ""}
             Unplaced == {i \in Places : T[i].line \in Lost}
             Missed == {Failing("source", d, i, GroupFailure(d, T[i].line, c.checksums)) :
                          i \in {i \in Unplaced : \/ ~Finds(disk.idx[d], T[i].line)
                                                  \/ i = Max(At(T[i].line))}}
             Wrong == {Failing("source", d, i, Reason(i)) : i \in Bad}
             sum == MapThenSumSet(LAMBDA line : ExtraCells(Decoded(d, line), {T[i] : i \in At(line)}),
                                  Lines \ Lost)
  <1>1. ASSUME NEW i \in DOMAIN T
        PROVE  /\ GroupFailure(d, T[i].line, c.checksums) = ""
               /\ RowFailure(Decoded(d, T[i].line), T[i]) = ""
               /\ ExtraCells(Decoded(d, T[i].line),
                             {T[j] : j \in {j \in DOMAIN T : T[j].line = T[i].line}}) = 0
    BY CleanLinePasses
  <1>2. Opens(d)
    BY FreshEntries
  <1>3. Places \subseteq DOMAIN T /\ (c.sample = 0 => Places = DOMAIN T)
    OBVIOUS
  <1>4. IsFiniteSet(Lines)
    <2>1. IsFiniteSet(DOMAIN T)
      <3>1. T \in Seq(TableRow)
        BY FreshEntries, FilesAssumption DEF FreshStore, ReadInv, FilesInv, Walk
      <3> HIDE DEF T
      <3>2. DOMAIN T = 1..Len(T) /\ Len(T) \in Nat
        BY <3>1, LenProperties
      <3> QED BY <3>2, FS_Interval
    <2>2. IsFiniteSet(Places)
      BY <1>3, <2>1, FS_Subset
    <2> DEFINE g == [i \in Places |-> T[i].line]
    <2>3. IsFiniteSet({g[i] : i \in Places})
      BY <2>2, ImageIsFinite
    <2> QED BY <2>3
  <1> HIDE DEF T, d
  <1>5. Lost = {}
    BY <1>1, <1>3
  <1>6. Bad = {} /\ Unplaced = {}
    BY <1>1, <1>3, <1>5
  <1>7. c.sample = 0 => sum = 0
    <2> SUFFICES ASSUME c.sample = 0
                 PROVE  sum = 0
      OBVIOUS
    <2>1. Places = DOMAIN T
      BY <1>3
    <2>2. \A line \in Lines :
            ExtraCells(Decoded(d, line), {T[i] : i \in {i \in Places : T[i].line = line}}) = 0
      <3>1. ASSUME NEW line \in Lines
            PROVE  ExtraCells(Decoded(d, line),
                              {T[i] : i \in {i \in Places : T[i].line = line}}) = 0
        <4>1. PICK i \in Places : line = T[i].line
          OBVIOUS
        <4> QED BY <1>1, <2>1, <4>1
      <3> QED BY <3>1
    <2>3. Lines \ Lost = Lines
      BY <1>5
    <2> DEFINE X(line) == ExtraCells(Decoded(d, line), {T[i] : i \in At(line)})
               S == Lines \ Lost
               F == [line \in S |-> X(line)]
               Sums(h) == h = [s \in SUBSET S |->
                                 IF s = {} THEN 0
                                 ELSE X(CHOOSE x \in s : TRUE) + h[s \ {CHOOSE x \in s : TRUE}]]
               f == CHOOSE h : Sums(h)
               z == [s \in SUBSET S |-> 0]
    <2>4. sum = f[S]
      BY DEF MapThenSumSet, MapThenFoldSet
    <2>5. \A line \in S : X(line) = 0
      BY <2>2, <2>3
    <2> HIDE DEF X
    <2>6. \A x \in S : F[x] = 0
      BY <2>5
    <2>7. IsFiniteSet(S)
      BY <1>4, <2>3
    <2> HIDE DEF S
    <2>8. \A h : Sums(h) <=> h = Adding(S, F, h)
      <3>1. ASSUME NEW s \in SUBSET S, s # {}
            PROVE  X(CHOOSE x \in s : TRUE) = F[CHOOSE x \in s : TRUE]
        <4>1. (CHOOSE x \in s : TRUE) \in S
          BY <3>1
        <4> QED BY <4>1
      <3> HIDE DEF F
      <3>2. ASSUME NEW h
            PROVE  [s \in SUBSET S |->
                      IF s = {} THEN 0
                      ELSE X(CHOOSE x \in s : TRUE) + h[s \ {CHOOSE x \in s : TRUE}]]
                   = Adding(S, F, h)
        <4>1. ASSUME NEW s \in SUBSET S
              PROVE  (IF s = {} THEN 0
                      ELSE X(CHOOSE x \in s : TRUE) + h[s \ {CHOOSE x \in s : TRUE}])
                     = IF s = {} THEN 0
                       ELSE F[CHOOSE x \in s : TRUE] + h[s \ {CHOOSE x \in s : TRUE}]
          <5>1. CASE s = {}
            BY <5>1, Zenon
          <5>2. CASE s # {}
            <6>1. X(CHOOSE x \in s : TRUE) = F[CHOOSE x \in s : TRUE]
              BY <3>1, <5>2
            <6> QED BY <5>2, <6>1, Zenon
          <5> QED BY <5>1, <5>2
        <4> QED BY <4>1, Zenon DEF Adding
      <3> QED BY <3>2, Zenon
    <2> HIDE DEF F, Sums
    <2>9. Sums(z)
      BY <2>6, <2>8, ZeroIsAdding
    <2>10. Sums(f)
      BY <2>9
    <2> HIDE DEF f
    <2>11. f[S] = 0
      BY <2>6, <2>7, <2>8, <2>10, ZerosAddUp
    <2> QED BY <2>4, <2>11
  <1>8. Cardinality({}) = 0
    BY FS_EmptySet
  <1>9. Missed = {} /\ Wrong = {}
    BY <1>6
  <1> HIDE DEF Missed, Wrong, sum, Bad, Unplaced, Lost
  <1>10. CrossDimension(d, Places, c)
           = [failures |-> Missed \cup Wrong, checked |-> Cardinality(Places),
              failed |-> Cardinality(Bad \cup Unplaced),
              extra |-> IF c.sample # 0 THEN 0 ELSE sum]
    BY <1>2, Zenon DEF CrossDimension, Missed, Wrong, sum, Bad, Unplaced, Lost, T
  <1>11. Bad \cup Unplaced = {} /\ Missed \cup Wrong = {}
    BY <1>6, <1>9
  <1>12. (IF c.sample # 0 THEN 0 ELSE sum) = 0
    BY <1>7
  <1>13. PICK x : x = CrossDimension(d, Places, c)
    OBVIOUS
  <1>14. /\ x.failures = Missed \cup Wrong /\ x.failed = Cardinality(Bad \cup Unplaced)
         /\ x.extra = IF c.sample # 0 THEN 0 ELSE sum
    BY <1>10, <1>13
  <1>15. x.failures = {} /\ x.failed = 0 /\ x.extra = 0
    BY <1>8, <1>11, <1>12, <1>14
  <1> QED BY <1>13, <1>15 DEF d
-----------------------------------------------------------------------------
(* What was built from a clean source passes every check                   *)

\* Nobody has changed the store, all of its source is in it, and the source is
\* one that the format keeps.
CleanStore ==
  /\ harmed = "" /\ limit = NoLimit
  /\ {e.dim : e \in Successful} = Dim
  /\ \E d \in Dim : source[d] # <<>>
  /\ \A d \in Dim : Clean(d)

GoodVerdict(r) == Passes(r) /\ ~HasFailures(r.totals)

\* The report, if there is one, is about a clean store only if it says so.
CleanVerdict == (report.outcome = "report" /\ CleanStore) => GoodVerdict(report)

LEMMA StoreIsFresh ==
  ASSUME VerifyInv, KeptOrigins, pc = "published", CleanStore
  PROVE  FreshStore
  <1>1. ReadInv /\ LinesInv /\ OriginInv /\ IsDisk(disk)
    BY DEF KeptOrigins, CleanStore, VerifyInv, VerifyTypes
  <1>2. ASSUME NEW e \in Successful
        PROVE  Opens(e.dim)
    <2>1. e.dim \in {x.dim : x \in Successful}
      OBVIOUS
    <2>2. Contiguous(e.dim)
      BY <2>1 DEF CleanStore, Clean
    <2> QED BY <1>1, <2>1, <2>2, LinesAreBuilt
  <1>3. disk.schemas # {}
    <2>1. PICK d \in Dim : source[d] # <<>>
      BY DEF CleanStore
    <2>2. PICK e \in Successful : d = e.dim
      <3>1. d \in {e.dim : e \in Successful}
        BY DEF CleanStore
      <3> QED BY <3>1
    <2> DEFINE T == source[d]
               records == disk.idx[d].records
    <2>3. IsSeq(T)
      BY DEF VerifyInv, VerifyTypes, SourceTypes
    <2>4. 1 \in DOMAIN T
      <3>1. PICK S : T \in Seq(S)
        BY <2>3 DEF IsSeq
      <3>2. T # <<>>
        BY <2>1
      <3> HIDE DEF T
      <3>3. Len(T) \in Nat /\ DOMAIN T = 1..Len(T) /\ Len(T) # 0
        BY <3>1, <3>2, LenProperties, EmptySeq
      <3> QED BY <3>3
    <2>5. T[1].line \in Wanted(d)
      BY <2>4 DEF Wanted, CleanStore
    <2>6. {records[i].line : i \in DOMAIN records} = Wanted(d)
      BY <1>1, <2>2, LinesAreBuilt
    <2>7. PICK i \in DOMAIN records : T[1].line = records[i].line
      BY <2>5, <2>6
    <2>8. FromLines(records, T, schemas) /\ disk.schemas = schemas
      BY <1>1, <2>2 DEF OriginInv, ListsOrigins, PublishedAll, Successful
    <2>9. \E s \in schemas : s.id = records[i].schema
      BY <2>7, <2>8 DEF FromLines, FromLine, IsRecordOf
    <2> QED BY <2>8, <2>9
  <1> QED BY <1>1, <1>2, <1>3 DEF FreshStore

LEMMA NothingIsKept ==
  /\ Kept({}) = {}
  /\ \A cap \in Nat \ {0} : FirstOf({}, cap) = {}
  BY NothingKept, FirstAreOfList, OneFailure

\* The standalone check of a store that nobody has changed.
LEMMA CleanStandalone ==
  ASSUME FreshStore, NEW checksums
  PROVE  /\ GoodVerdict(StandaloneReport(checksums))
         /\ StandaloneReport(checksums).failures = {}
         /\ StandaloneReport(checksums).details = Details({})
  <1>1. StandaloneFailures(checksums) = {} /\ ManifestFailures = {}
    BY FreshStorePasses, FreshCatalog
  <1>2. StandaloneReport(checksums) = Report(Details({}), {})
    BY <1>1 DEF StandaloneReport
  <1>3. PICK r : r = Report(Details({}), {})
    OBVIOUS
  <1>4. /\ r.outcome = "report" /\ r.failures = Kept({}) /\ r.details = Details({})
        /\ r.totals = Totals(Details({}), {})
    BY <1>3 DEF Report
  <1>5. GoodVerdict(r) /\ r.failures = {}
    BY <1>4, NothingIsKept, NoFailuresNoTotals DEF GoodVerdict, Passes
  <1> QED BY <1>2, <1>3, <1>4, <1>5
-----------------------------------------------------------------------------
\* The sum of a number that each of some reports has.
SumOf(reports, S, number) == MapThenSumSet(LAMBDA d : reports[d][number], S)

LEMMA SumOfZeros ==
  ASSUME NEW S, IsFiniteSet(S), NEW reports, NEW number, \A d \in S : reports[d][number] = 0
  PROVE  SumOf(reports, S, number) = 0
  <1> DEFINE X(d) == reports[d][number]
             F == [d \in S |-> X(d)]
             Sums(h) == h = [s \in SUBSET S |->
                               IF s = {} THEN 0
                               ELSE X(CHOOSE x \in s : TRUE) + h[s \ {CHOOSE x \in s : TRUE}]]
             f == CHOOSE h : Sums(h)
             z == [s \in SUBSET S |-> 0]
  <1>1. SumOf(reports, S, number) = f[S]
    BY DEF SumOf, MapThenSumSet, MapThenFoldSet
  <1>2. \A x \in S : F[x] = 0
    OBVIOUS
  <1> HIDE DEF X
  <1>3. \A h : Sums(h) <=> h = Adding(S, F, h)
    <2>1. ASSUME NEW s \in SUBSET S, s # {}
          PROVE  X(CHOOSE x \in s : TRUE) = F[CHOOSE x \in s : TRUE]
      <3>1. (CHOOSE x \in s : TRUE) \in S
        BY <2>1
      <3> QED BY <3>1
    <2> HIDE DEF F
    <2>2. ASSUME NEW h
          PROVE  [s \in SUBSET S |->
                    IF s = {} THEN 0
                    ELSE X(CHOOSE x \in s : TRUE) + h[s \ {CHOOSE x \in s : TRUE}]]
                 = Adding(S, F, h)
      <3>1. ASSUME NEW s \in SUBSET S
            PROVE  (IF s = {} THEN 0
                    ELSE X(CHOOSE x \in s : TRUE) + h[s \ {CHOOSE x \in s : TRUE}])
                   = IF s = {} THEN 0
                     ELSE F[CHOOSE x \in s : TRUE] + h[s \ {CHOOSE x \in s : TRUE}]
        <4>1. CASE s = {}
          BY <4>1, Zenon
        <4>2. CASE s # {}
          <5>1. X(CHOOSE x \in s : TRUE) = F[CHOOSE x \in s : TRUE]
            BY <2>1, <4>2
          <5> QED BY <4>2, <5>1, Zenon
        <4> QED BY <4>1, <4>2
      <3> QED BY <3>1, Zenon DEF Adding
    <2> QED BY <2>2, Zenon
  <1> HIDE DEF F, Sums
  <1>4. Sums(z)
    BY <1>2, <1>3, ZeroIsAdding
  <1>5. Sums(f)
    BY <1>4
  <1> HIDE DEF f
  <1>6. f[S] = 0
    BY <1>2, <1>3, <1>5, ZerosAddUp
  <1> QED BY <1>1, <1>6

\* The numbers of the cross check are the sums of those of its dimensions.
LEMMA CrossReportSums ==
  ASSUME NEW c, NEW sample
  PROVE  LET cross == [d \in CrossDims |-> CrossDimension(d, sample[d], c)]
             r == CrossReport(c, sample)
         IN /\ r.totals.failed = SumOf(cross, CrossDims, "failed")
            /\ r.totals.extra = SumOf(cross, CrossDims, "extra")
  <1> DEFINE cross == [d \in CrossDims |-> CrossDimension(d, sample[d], c)]
             both == Report(StandaloneReport(c.checksums).details,
                            StandaloneReport(c.checksums).failures
                            \cup FirstOf(UNION {cross[d].failures : d \in CrossDims}, c.maxFailures))
             x == MapThenSumSet(LAMBDA d : cross[d].checked, CrossDims)
             y == MapThenSumSet(LAMBDA d : cross[d].failed, CrossDims)
             z == MapThenSumSet(LAMBDA d : cross[d].extra, CrossDims)
             r == [both EXCEPT !.totals.checked = x, !.totals.failed = y, !.totals.extra = z]
  <1>1. CrossReport(c, sample) = r
    BY DEF CrossReport
  <1>2. DOMAIN both = {"outcome", "details", "totals", "failures"}
    BY DEF Report
  <1>3. DOMAIN both.totals = {"manifestOk", "catalogOk", "indexFailed", "packFailed",
                              "crossFailures", "checked", "failed", "extra"}
    BY DEF Report, Totals
  <1> HIDE DEF both, x, y, z
  <1>4. r.totals = [both.totals EXCEPT !.checked = x, !.failed = y, !.extra = z]
    BY <1>2
  <1> HIDE DEF r
  <1>5. r.totals.failed = y /\ r.totals.extra = z
    BY <1>3, <1>4
  <1>6. y = SumOf(cross, CrossDims, "failed") /\ z = SumOf(cross, CrossDims, "extra")
    <2> HIDE DEF cross
    <2>1. y = SumOf(cross, CrossDims, "failed")
      BY DEF y, SumOf, MapThenSumSet, MapThenFoldSet
    <2>2. z = SumOf(cross, CrossDims, "extra")
      BY DEF z, SumOf, MapThenSumSet, MapThenFoldSet
    <2> QED BY <2>1, <2>2
  <1> QED BY <1>1, <1>5, <1>6
-----------------------------------------------------------------------------
\* The cross check of a clean store.
LEMMA CleanCross ==
  ASSUME FreshStore, SourceTypes, CleanStore, NEW c \in Commands, NEW sample \in Samples(c)
  PROVE  GoodVerdict(CrossReport(c, sample))
  <1> DEFINE cross == [d \in CrossDims |-> CrossDimension(d, sample[d], c)]
             r == CrossReport(c, sample)
             both == Report(StandaloneReport(c.checksums).details,
                            StandaloneReport(c.checksums).failures
                            \cup FirstOf(CrossFailures(c, sample), c.maxFailures))
  <1>1. ASSUME NEW d \in CrossDims
        PROVE  /\ CrossDimension(d, sample[d], c).failures = {}
               /\ CrossDimension(d, sample[d], c).failed = 0
               /\ CrossDimension(d, sample[d], c).extra = 0
    <2>1. d \in Dim /\ d \in {e.dim : e \in Successful} /\ limit = NoLimit
      BY DimsAreFinite DEF CleanStore
    <2>2. PICK e \in Successful : d = e.dim
      BY <2>1
    <2>3. Clean(e.dim)
      BY <2>1, <2>2 DEF CleanStore
    <2>4. sample[d] \in SUBSET DOMAIN source[e.dim]
          /\ (c.sample = 0 => sample[d] = DOMAIN source[e.dim])
      BY <2>2, SampledRows
    <2>5. LET x == CrossDimension(e.dim, sample[d], c)
          IN x.failures = {} /\ x.failed = 0 /\ x.extra = 0
      <3>1. PICK Places : Places = sample[d]
        OBVIOUS
      <3> QED BY <2>1, <2>3, <2>4, <3>1, CleanDimensionPasses
    <2> QED BY <2>2, <2>5
  <1>2. CrossFailures(c, sample) = {}
    BY <1>1 DEF CrossFailures
  <1>3. \A d \in CrossDims : cross[d]["failed"] = 0 /\ cross[d]["extra"] = 0
    BY <1>1
  <1>4. r.totals.failed = 0 /\ r.totals.extra = 0
    <2>1. /\ r.totals.failed = SumOf(cross, CrossDims, "failed")
          /\ r.totals.extra = SumOf(cross, CrossDims, "extra")
      BY CrossReportSums
    <2> HIDE DEF cross, r
    <2> QED BY <1>3, <2>1, DimsAreFinite, SumOfZeros
  <1>5. both = Report(Details({}), {})
    <2>1. FirstOf(CrossFailures(c, sample), c.maxFailures) = {}
      BY <1>2, NothingIsKept, VerifyAssumption
    <2>2. StandaloneReport(c.checksums).failures = {}
          /\ StandaloneReport(c.checksums).details = Details({})
      BY CleanStandalone
    <2> QED BY <2>1, <2>2
  <1>6. /\ r.outcome = "report"
        /\ r.failures = both.failures
        /\ r.totals.manifestOk = both.totals.manifestOk
        /\ r.totals.catalogOk = both.totals.catalogOk
        /\ r.totals.indexFailed = both.totals.indexFailed
        /\ r.totals.packFailed = both.totals.packFailed
        /\ r.totals.crossFailures = both.totals.crossFailures
    BY CrossReportParts
  <1> HIDE DEF both, r, cross
  <1>7. both.failures = {} /\ both.totals = Totals(Details({}), {})
    BY <1>5, NothingIsKept DEF Report
  <1>8. ~HasFailures(both.totals)
    BY <1>7, NoFailuresNoTotals
  <1>9. Passes(r) /\ ~HasFailures(r.totals)
    BY <1>4, <1>6, <1>7, <1>8 DEF Passes, HasFailures
  <1> QED BY <1>9 DEF GoodVerdict, r

-----------------------------------------------------------------------------
LEMMA SameClean ==
  ASSUME UNCHANGED <<fileVars, harmed>>
  PROVE  CleanStore' <=> CleanStore
  BY DEF CleanStore, fileVars, Successful, Clean, Contiguous, Wanted, Lasts

\* Nothing is said of a store before it is checked.
LEMMA NothingSaid ==
  ASSUME report' = NoReport
  PROVE  CleanVerdict'
  BY DEF CleanVerdict, NoReport

LEMMA CleanStep ==
  VerifyInv /\ KeptOrigins /\ CleanVerdict /\ [VerifyNext]_verifyVars => CleanVerdict'
  <1> SUFFICES ASSUME VerifyInv, KeptOrigins, CleanVerdict, [VerifyNext]_verifyVars
               PROVE  CleanVerdict'
    OBVIOUS
  <1>1. CASE Build
    <2>1. FilesNext /\ report' = report
      BY <1>1 DEF Build
    <2>2. pc # "published"
      BY <2>1 DEF FilesNext, CreateFiles, GatherRow, FlushLine, FlushLastLine, FailBuild,
                  FinishDimension, PublishManifest
    <2>3. report' = NoReport
      BY <2>1, <2>2 DEF VerifyInv
    <2> QED BY <2>3, NothingSaid
  <1>2. CASE DamageFiles \/ EditSource
    BY <1>2, NothingSaid DEF DamageFiles, EditSource
  <1>3. ASSUME UNCHANGED <<fileVars, harmed>>, pc = "published",
               report'.outcome = "report" /\ CleanStore => GoodVerdict(report')
        PROVE  CleanVerdict'
    <2>1. CleanStore' <=> CleanStore
      BY <1>3, SameClean
    <2> QED BY <1>3, <2>1 DEF CleanVerdict, GoodVerdict, Passes, HasFailures
  <1>4. CleanStore /\ pc = "published" => FreshStore /\ ManifestFailures = {} /\ SourceTypes
    BY StoreIsFresh, FreshCatalog DEF VerifyInv, VerifyTypes
  <1>5. CASE VerifyStandalone
    <2>1. PICK c \in Commands : report' = StandaloneReport(c.checksums)
      BY <1>5 DEF VerifyStandalone
    <2>2. UNCHANGED <<fileVars, harmed>> /\ pc = "published"
      BY <1>5 DEF VerifyStandalone
    <2>3. CleanStore => GoodVerdict(report')
      BY <1>4, <2>1, <2>2, CleanStandalone
    <2> QED BY <1>3, <2>2, <2>3
  <1>6. CASE VerifyCross
    <2>1. PICK c \in Commands :
            \/ ManifestFailures # {}
            \/ report' = [NoReport EXCEPT !.outcome = "error"]
            \/ \E sample \in Samples(c) : report' = CrossReport(c, sample)
      BY <1>6 DEF VerifyCross
    <2>2. UNCHANGED <<fileVars, harmed>> /\ pc = "published"
      BY <1>6 DEF VerifyCross
    <2>3. ASSUME report'.outcome = "report", CleanStore
          PROVE  GoodVerdict(report')
      <3>1. FreshStore /\ ManifestFailures = {} /\ SourceTypes
        BY <1>4, <2>2, <2>3
      <3>2. report' # [NoReport EXCEPT !.outcome = "error"]
        BY <2>3 DEF NoReport
      <3>3. PICK sample \in Samples(c) : report' = CrossReport(c, sample)
        BY <2>1, <3>1, <3>2
      <3> QED BY <2>3, <3>1, <3>3, CleanCross
    <2> QED BY <1>3, <2>2, <2>3
  <1>7. CASE UNCHANGED verifyVars
    <2>1. UNCHANGED <<fileVars, harmed>> /\ report' = report
      BY <1>7 DEF verifyVars
    <2>2. CASE report = NoReport
      BY <2>1, <2>2, NothingSaid
    <2>3. CASE report # NoReport
      <3>1. pc = "published"
        BY <2>3 DEF VerifyInv
      <3> QED BY <1>3, <2>1, <3>1 DEF CleanVerdict
    <2> QED BY <2>2, <2>3
  <1> QED BY <1>1, <1>2, <1>5, <1>6, <1>7 DEF VerifyNext

\* Whatever the source and however many rows are sampled, a store that was built
\* from tables the format keeps, and that nothing has happened to, passes every
\* check of verify and has no failure in its totals (run_standalone_verify,
\* run_cross_verify, print_verify_summary).
THEOREM BuiltVerifies == VerifySpec => []BuiltStoreVerifies
  <1>1. InitVerify => CleanVerdict
    <2>1. NoReport.outcome # "report"
      BY DEF NoReport
    <2>2. InitVerify => report = NoReport
      BY DEF InitVerify
    <2> QED BY <2>1, <2>2 DEF CleanVerdict
  <1>2. CleanVerdict => BuiltStoreVerifies
    BY DEF CleanVerdict, CleanStore, GoodVerdict, BuiltStoreVerifies
  <1> QED BY <1>1, <1>2, CleanStep, KeptStart, KeptStep, VerifyStart, VerifyStep, PTL DEF VerifySpec
=============================================================================
