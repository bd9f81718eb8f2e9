------------------------------- MODULE RangePack -------------------------------
(***************************************************************************)
(* The binary pack that holds the ranges of one concrete line: how the     *)
(* builder lays it out (encode_concrete_line_pack) and how the readers     *)
(* take it apart (pack_codec.rs, action_schema.rs).                        *)
(*                                                                         *)
(*   hand ids (1 byte each) | action masks (4) | cells (frequency 4, ev 4) *)
(*                                                                         *)
(* A byte is the pair of the number it is a part of and its place in it,   *)
(* so a word read at the wrong offset is not a word.  float64 values are   *)
(* numbers, of which each run of Step is one float32 value; action_size    *)
(* and amount_bb are one number, size.                                     *)
(***************************************************************************)
EXTENDS Integers, Sequences, FiniteSets, SequencesExt

CONSTANTS
  U16, U32,     \* number of values of the integers of the format
  MaxActions,   \* 32, the bits of a mask
  HandCount,    \* 169, the hand ids are 0..HandCount-1
  Step,         \* float64 values per float32 value
  Infinite      \* a value that is not finite

ASSUME PackAssumption ==
  /\ MaxActions \in Nat \ {0} /\ HandCount \in Nat \ {0} /\ Step \in Nat \ {0}
  /\ U16 \in Nat /\ MaxActions < U16 /\ HandCount < U16
  /\ U32 \in Nat /\ HandCount * (5 + MaxActions * 8) < U32
  /\ Infinite \in Nat

NoEv == -1       \* hand_ev NULL, stored as NaN
Misread == -2    \* four bytes that are no word

HandId == 0..(HandCount - 1)
ActionType == 0..5   \* fold, call, check, bet, raise, allin

Float32(x) == IF x = Infinite THEN Infinite ELSE (x \div Step) * Step

Word(v) == [k \in 1..4 |-> <<v, k>>]

\* The little-endian word at an offset of the pack.
ReadWord(bytes, at) ==
  LET v == bytes[at + 1][1]
  IN IF \A k \in 1..4 : bytes[at + k] = <<v, k>> THEN v ELSE Misread

\* (mask >> a) & 1
Bit(mask, a) ==
  LET Shifted[k \in 0..a] == IF k = 0 THEN mask ELSE Shifted[k - 1] \div 2
  IN Shifted[a] % 2 = 1

-----------------------------------------------------------------------------
\* pack_byte_length, in u32 arithmetic.
PackByteLength(hands, actions) == (hands * (5 + actions * 8)) % U32

\* action_count_from_pack: what the length says of the number of actions.
ActionCountFromPack(hands, length) ==
  IF hands = 0 THEN 0
  ELSE LET perHand == length \div hands
       IN ((IF perHand < 5 THEN 0 ELSE perHand - 5) \div 8) % U16

-----------------------------------------------------------------------------
\* encode_concrete_line_pack: the hands and the actions of the rows of a line
\* in order, the last of several rows of a hand and an action wins.
Ordered(S, Before(_, _)) ==
  [k \in 1..Cardinality(S) |->
     CHOOSE x \in S : Cardinality({y \in S : Before(y, x)}) = k - 1]

HandsOf(rows) == Ordered({rows[i].hand : i \in DOMAIN rows}, LAMBDA x, y : x < y)

ActionsOf(rows) ==
  Ordered({<<rows[i].action, rows[i].size>> : i \in DOMAIN rows},
          LAMBDA x, y : x[1] < y[1] \/ (x[1] = y[1] /\ x[2] < y[2]))

Encodable(rows) ==
  /\ rows # <<>>
  /\ \A i \in DOMAIN rows : rows[i].hand \in HandId /\ rows[i].action \in ActionType
  /\ Len(ActionsOf(rows)) <= MaxActions

RowsOf(rows, hand, action) ==
  {i \in DOMAIN rows : rows[i].hand = hand /\ <<rows[i].action, rows[i].size>> = action}

\* Bit a of the mask is set if the hand has a row of action a, from 0.
MaskOf(rows, hand, actions) ==
  LET From[a \in 0..Len(actions)] ==
        IF a = Len(actions) THEN 0
        ELSE (IF RowsOf(rows, hand, actions[a + 1]) = {} THEN 0 ELSE 1) + 2 * From[a + 1]
  IN From[0]

CellOf(rows, hand, action) ==
  LET I == RowsOf(rows, hand, action)
  IN IF I = {} THEN Word(0) \o Word(NoEv)
     ELSE LET row == rows[Max(I)]
          IN Word(Float32(row.freq))
             \o Word(IF row.ev = NoEv THEN NoEv ELSE Float32(row.ev))

\* The bytes of entries that have so many each.
Joined(entries, width) ==
  [k \in 1..(Len(entries) * width) |->
     entries[(k - 1) \div width + 1][((k - 1) % width) + 1]]

\* FAULT: the cells are laid out action by action, not hand by hand.
ActionMajorPayload(rows) ==
  LET hands == HandsOf(rows)
      actions == ActionsOf(rows)
      Masks == [h \in 1..Len(hands) |-> Word(MaskOf(rows, hands[h], actions))]
      Cells == [c \in 1..(Len(hands) * Len(actions)) |->
                  CellOf(rows, hands[((c - 1) % Len(hands)) + 1],
                               actions[(c - 1) \div Len(hands) + 1])]
  IN [h \in 1..Len(hands) |-> <<hands[h], 0>>] \o Joined(Masks, 4) \o Joined(Cells, 8)

Payload(rows) ==
  LET hands == HandsOf(rows)
      actions == ActionsOf(rows)
      Masks == [h \in 1..Len(hands) |-> Word(MaskOf(rows, hands[h], actions))]
      Cells == [c \in 1..(Len(hands) * Len(actions)) |->
                  CellOf(rows, hands[(c - 1) \div Len(actions) + 1],
                               actions[((c - 1) % Len(actions)) + 1])]
  IN [h \in 1..Len(hands) |-> <<hands[h], 0>>] \o Joined(Masks, 4) \o Joined(Cells, 8)

\* The blob of the action schema: the sizes are stored as float32.
ActionBlob(rows) ==
  LET actions == ActionsOf(rows)
  IN [a \in DOMAIN actions |-> <<actions[a][1], Float32(actions[a][2])>>]

\* decode_action_blob accepts a row of action_schemas.
BlobDecodes(schema) ==
  /\ schema.count \in 1..MaxActions
  /\ Len(schema.blob) = schema.count
  /\ \A a \in DOMAIN schema.blob : schema.blob[a][1] \in ActionType

-----------------------------------------------------------------------------
\* binary_search_u8 over the hand ids of a pack: a place counted from 0, -1 if
\* the hand is not there.
BinarySearch(pack, hands, target) ==
  LET Probe[range \in (0..hands) \X (0..hands)] ==
        LET lo == range[1]
            hi == range[2]
            mid == (lo + hi) \div 2
            value == pack[mid + 1][1]
        IN IF lo >= hi THEN -1
           ELSE IF value < target THEN Probe[<<mid + 1, hi>>]
           ELSE IF value > target THEN Probe[<<lo, mid>>]
           ELSE mid
  IN Probe[<<0, hands>>]

\* The cell of the pack at an offset.
CellAt(pack, at, action) ==
  [action |-> action, freq |-> ReadWord(pack, at), ev |-> ReadWord(pack, at + 4)]

\* FAULT: the cells of a hand are taken to start after its own masks.
ForHandMisplaced(pack, hands, actions, hand) ==
  LET place == BinarySearch(pack, hands, hand)
      mask == ReadWord(pack, hands + place * 4)
      cells == hands + hands * 4
  IN IF Len(pack) # hands * (5 + actions * 8) \/ actions = 0 \/ place = -1 THEN {}
     ELSE {CellAt(pack, cells + a * 8, a) : a \in {a \in 0..(actions - 1) : Bit(mask, a)}}

\* decode_pack_for_hand: the cells of one hand whose bit is set.
DecodePackForHand(pack, hands, actions, hand) ==
  LET place == BinarySearch(pack, hands, hand)
      mask == ReadWord(pack, hands + place * 4)
      cells == hands + hands * 4 + place * actions * 8
  IN IF Len(pack) # hands * (5 + actions * 8) \/ actions = 0 \/ place = -1 THEN {}
     ELSE {CellAt(pack, cells + a * 8, a) : a \in {a \in 0..(actions - 1) : Bit(mask, a)}}

PackDecodes(pack, hands, actions) ==
  actions <= MaxActions /\ Len(pack) = hands * (5 + actions * 8)

\* decode_pack: every cell of the pack in order, the unset ones included.
DecodePack(pack, hands, actions) ==
  [k \in 1..(hands * actions) |->
     LET h == (k - 1) \div actions
         a == (k - 1) % actions
     IN [hand |-> pack[h + 1][1],
         exists |-> Bit(ReadWord(pack, hands + h * 4), a),
         cell |-> CellAt(pack, hands * 5 + (k - 1) * 8, a)]]
=============================================================================
