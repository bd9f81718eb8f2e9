------------------------------ MODULE HoleCards ------------------------------
(***************************************************************************)
(* The 169 hands and their ids (range-store-core/src/hole_cards.rs): a     *)
(* request names a hand by its code, AA, AKs or AKo, or by two cards; a    *)
(* pack and the tables of hands-by-actions by an id.  A rank is its place  *)
(* in RANKS, the ace first; a character that is none is NoRank or NoSuit.  *)
(***************************************************************************)
EXTENDS Integers

Rank == 0..12
NoRank == 13
Suit == 0..3
NoSuit == 4
Suffix == {"s", "o", "other"}
Card == [rank : Rank \cup {NoRank}, suit : Suit \cup {NoSuit}]

HandId == 0..168

\* The codes of hands.
Code ==
  {[kind |-> "pair", high |-> r, low |-> r] : r \in Rank}
  \cup {c \in [kind : {"suited", "offsuit"}, high : Rank, low : Rank] : c.high < c.low}

\* The id is cast to u8.
IdOf(code) ==
  CASE code.kind = "pair" -> (code.high * 13 + code.high) % 256
    [] code.kind = "suited" -> (code.high * 13 + code.low) % 256
    [] code.kind = "offsuit" -> (code.low * 13 + code.high) % 256

\* hand_code_from_id.
CodeOf(id) ==
  LET row == id \div 13
      col == id % 13
  IN IF row = col THEN [kind |-> "pair", high |-> row, low |-> row]
     ELSE IF row < col THEN [kind |-> "suited", high |-> row, low |-> col]
     ELSE [kind |-> "offsuit", high |-> col, low |-> row]

Parsed(code) == [outcome |-> "hand", code |-> code, id |-> IdOf(code)]
Failed(error) == [outcome |-> error]

\* parse_two_cards.
ParseTwoCards(a, b) ==
  IF NoRank \in {a.rank, b.rank} \/ NoSuit \in {a.suit, b.suit}
    THEN Failed("InvalidCardFormat")
  ELSE IF a = b THEN Failed("DuplicateCard")
  ELSE IF a.rank = b.rank
    THEN Parsed([kind |-> "pair", high |-> a.rank, low |-> a.rank])
  ELSE Parsed([kind |-> IF a.suit = b.suit THEN "suited" ELSE "offsuit",
               high |-> IF a.rank < b.rank THEN a.rank ELSE b.rank,
               low |-> IF a.rank < b.rank THEN b.rank ELSE a.rank])

\* parse_standard_hand_code of two and of three characters; what is no code is
\* no pair of cards either, for parse_hole_cards, and no hand for get_hand_id.
ParsePair(left, right) ==
  IF left \in Rank /\ left = right
    THEN Parsed([kind |-> "pair", high |-> left, low |-> right])
    ELSE Failed("InvalidCardFormat")

ParseSuffixed(high, low, suffix) ==
  IF high \in Rank /\ low \in Rank /\ high < low /\ suffix # "other"
    THEN Parsed([kind |-> IF suffix = "s" THEN "suited" ELSE "offsuit",
                 high |-> high, low |-> low])
    ELSE Failed("InvalidCardFormat")

-----------------------------------------------------------------------------
\* A code and its id name each other, so that no two hands share a place in a
\* pack and none is renamed on its way back (get_hand_id, hand_code_from_id).
IdsNameCodes ==
  /\ \A code \in Code : IdOf(code) \in HandId /\ CodeOf(IdOf(code)) = code
  /\ \A id \in HandId : CodeOf(id) \in Code /\ IdOf(CodeOf(id)) = id

\* Two different cards are a hand, the same in either order and for any four
\* suits that agree or differ alike (parse_two_cards).
CardsNameHands ==
  \A a, b \in [rank : Rank, suit : Suit] :
    /\ ParseTwoCards(a, b) = ParseTwoCards(b, a)
    /\ a # b => /\ ParseTwoCards(a, b).outcome = "hand"
                /\ ParseTwoCards(a, b).code \in Code
                /\ ParseTwoCards(a, b).id \in HandId
    /\ \A s, t \in Suit :
         (s = t <=> a.suit = b.suit) =>
           ParseTwoCards([a EXCEPT !.suit = s], [b EXCEPT !.suit = t]) = ParseTwoCards(a, b)

Outcomes ==
  {ParseTwoCards(a, b) : a \in Card, b \in Card}
    \cup {ParsePair(l, h) : l \in Rank \cup {NoRank}, h \in Rank \cup {NoRank}}
    \cup {ParseSuffixed(h, l, s) : h \in Rank \cup {NoRank}, l \in Rank \cup {NoRank},
                                   s \in Suffix}

\* Whatever is accepted is a hand, and its id leads back to its code.
InputsNameHands ==
  \A r \in Outcomes :
    r.outcome = "hand" => /\ r.code \in Code /\ r.id \in HandId
                          /\ CodeOf(r.id) = r.code
=============================================================================
