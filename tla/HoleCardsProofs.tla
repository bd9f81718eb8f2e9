--------------------------- MODULE HoleCardsProofs ---------------------------
(***************************************************************************)
(* The dictionary of hands is a bijection, and every way to name a hand    *)
(* leads to its code and id.                                               *)
(***************************************************************************)
EXTENDS HoleCards, TLAPS

\* Quotient and remainder by the number of ranks.
LEMMA Split ==
  ASSUME NEW row \in Rank, NEW col \in Rank
  PROVE  /\ row * 13 + col \in HandId
         /\ (row * 13 + col) % 256 = row * 13 + col
         /\ (row * 13 + col) \div 13 = row
         /\ (row * 13 + col) % 13 = col
  BY Z3 DEF Rank, HandId

LEMMA Join ==
  ASSUME NEW id \in HandId
  PROVE  /\ id \div 13 \in Rank
         /\ id % 13 \in Rank
         /\ (id \div 13) * 13 + (id % 13) = id
         /\ id % 256 = id
  BY Z3 DEF Rank, HandId

LEMMA CodeIsKind ==
  ASSUME NEW code \in Code
  PROVE  /\ code.high \in Rank /\ code.low \in Rank
         /\ code = [kind |-> code.kind, high |-> code.high, low |-> code.low]
         /\ \/ code.kind = "pair" /\ code.low = code.high
            \/ code.kind = "suited" /\ code.high < code.low
            \/ code.kind = "offsuit" /\ code.high < code.low
  BY DEF Code

\* An id leads back to the code it was made of (get_hand_id and
\* hand_code_from_id).
LEMMA RoundTrip ==
  ASSUME NEW code \in Code
  PROVE  IdOf(code) \in HandId /\ CodeOf(IdOf(code)) = code
  <1> USE CodeIsKind DEF IdOf, CodeOf
  <1>1. CASE code.kind = "pair"
    BY <1>1, Split
  <1>2. CASE code.kind = "suited"
    <2>1. IdOf(code) = code.high * 13 + code.low
      BY <1>2, Split
    <2> QED BY <1>2, <2>1, Split DEF Rank
  <1>3. CASE code.kind = "offsuit"
    <2>1. IdOf(code) = code.low * 13 + code.high
      BY <1>3, Split
    <2> QED BY <1>3, <2>1, Split DEF Rank
  <1> QED BY <1>1, <1>2, <1>3

\* The hand codes and the ids 0..168 name each other.
THEOREM DictionaryIsBijective == IdsNameCodes
  <1>1. ASSUME NEW id \in HandId
        PROVE  CodeOf(id) \in Code /\ IdOf(CodeOf(id)) = id
    <2> DEFINE row == id \div 13
               col == id % 13
    <2>1. row \in Rank /\ col \in Rank /\ row * 13 + col = id /\ id % 256 = id
      BY Join
    <2> HIDE DEF row, col
    <2>2. CodeOf(id) = IF row = col THEN [kind |-> "pair", high |-> row, low |-> row]
                       ELSE IF row < col THEN [kind |-> "suited", high |-> row, low |-> col]
                       ELSE [kind |-> "offsuit", high |-> col, low |-> row]
      BY DEF CodeOf, row, col
    <2>3. CASE row = col
      BY <2>1, <2>2, <2>3 DEF IdOf, Code
    <2>4. CASE row < col
      BY <2>1, <2>2, <2>4 DEF IdOf, Code, Rank
    <2>5. CASE col < row
      BY <2>1, <2>2, <2>5 DEF IdOf, Code, Rank
    <2> QED BY <2>1, <2>3, <2>4, <2>5 DEF Rank
  <1> QED BY <1>1, RoundTrip DEF IdsNameCodes

LEMMA TwoCards ==
  ASSUME NEW a \in [rank : Rank, suit : Suit], NEW b \in [rank : Rank, suit : Suit], a # b
  PROVE  \E code \in Code : ParseTwoCards(a, b) = Parsed(code)
  <1>0. /\ a.rank \in Rank /\ b.rank \in Rank /\ a.suit \in Suit /\ b.suit \in Suit
        /\ a.rank # NoRank /\ b.rank # NoRank /\ a.suit # NoSuit /\ b.suit # NoSuit
    BY DEF Rank, Suit, NoRank, NoSuit
  <1>1. CASE a.rank = b.rank
    BY <1>0, <1>1 DEF ParseTwoCards, Code
  <1>2. CASE a.rank # b.rank
    <2> DEFINE code == [kind |-> IF a.suit = b.suit THEN "suited" ELSE "offsuit",
                        high |-> IF a.rank < b.rank THEN a.rank ELSE b.rank,
                        low |-> IF a.rank < b.rank THEN b.rank ELSE a.rank]
    <2>1. code \in Code
      BY <1>0, <1>2 DEF Code, Rank
    <2>2. ParseTwoCards(a, b) = Parsed(code)
      BY <1>0, <1>2 DEF ParseTwoCards
    <2> QED BY <2>1, <2>2
  <1> QED BY <1>1, <1>2

\* Two different cards name one hand, in either order and whatever their suits
\* beyond being the same or not (parse_two_cards).
THEOREM TwoCardsNameHands == CardsNameHands
  <1> SUFFICES ASSUME NEW a \in [rank : Rank, suit : Suit], NEW b \in [rank : Rank, suit : Suit]
      PROVE  /\ ParseTwoCards(a, b) = ParseTwoCards(b, a)
             /\ a # b => /\ ParseTwoCards(a, b).outcome = "hand"
                         /\ ParseTwoCards(a, b).code \in Code
                         /\ ParseTwoCards(a, b).id \in HandId
             /\ \A s, t \in Suit :
                  (s = t <=> a.suit = b.suit) =>
                    ParseTwoCards([a EXCEPT !.suit = s], [b EXCEPT !.suit = t])
                      = ParseTwoCards(a, b)
      BY DEF CardsNameHands
  <1>0. /\ a.rank \in Rank /\ b.rank \in Rank /\ a.suit \in Suit /\ b.suit \in Suit
        /\ a.rank # NoRank /\ b.rank # NoRank /\ a.suit # NoSuit /\ b.suit # NoSuit
        /\ \A s \in Suit : s # NoSuit
    BY DEF Rank, Suit, NoRank, NoSuit
  <1>1. ParseTwoCards(a, b) = ParseTwoCards(b, a)
    <2>1. a.rank < b.rank \/ b.rank < a.rank \/ a.rank = b.rank
      BY <1>0 DEF Rank
    <2>2. a.rank < b.rank => ~(b.rank < a.rank)
      BY <1>0 DEF Rank
    <2> QED BY <1>0, <2>1, <2>2 DEF ParseTwoCards
  <1>2. ASSUME a # b
        PROVE  /\ ParseTwoCards(a, b).outcome = "hand"
               /\ ParseTwoCards(a, b).code \in Code
               /\ ParseTwoCards(a, b).id \in HandId
    <2>1. PICK code \in Code : ParseTwoCards(a, b) = Parsed(code)
      BY <1>2, TwoCards
    <2> QED BY <2>1, RoundTrip DEF Parsed
  <1>3. ASSUME NEW s \in Suit, NEW t \in Suit, s = t <=> a.suit = b.suit
        PROVE  ParseTwoCards([a EXCEPT !.suit = s], [b EXCEPT !.suit = t]) = ParseTwoCards(a, b)
    <2> DEFINE c == [a EXCEPT !.suit = s]
               d == [b EXCEPT !.suit = t]
    <2>1. /\ c.rank = a.rank /\ c.suit = s /\ d.rank = b.rank /\ d.suit = t
          /\ c = d <=> a = b
      BY <1>3
    <2> HIDE DEF c, d
    <2>2. ParseTwoCards(c, d) = ParseTwoCards(a, b)
      BY <1>0, <1>3, <2>1 DEF ParseTwoCards
    <2> QED BY <2>2 DEF c, d
  <1> QED BY <1>1, <1>2, <1>3

\* Every input that is accepted is a hand whose id leads back to its code.
THEOREM AcceptedInputsNameHands == InputsNameHands
  <1>1. ASSUME NEW code \in Code
        PROVE  /\ Parsed(code).code \in Code /\ Parsed(code).id \in HandId
               /\ CodeOf(Parsed(code).id) = Parsed(code).code
    BY RoundTrip DEF Parsed
  <1>2. ASSUME NEW a \in Card, NEW b \in Card, ParseTwoCards(a, b).outcome = "hand"
        PROVE  \E code \in Code : ParseTwoCards(a, b) = Parsed(code)
    <2>1. /\ a.rank # NoRank /\ b.rank # NoRank /\ a.suit # NoSuit /\ b.suit # NoSuit
          /\ a # b
      BY <1>2 DEF ParseTwoCards, Failed
    <2>2. a \in [rank : Rank, suit : Suit] /\ b \in [rank : Rank, suit : Suit]
      BY <2>1 DEF Card
    <2> QED BY <2>1, <2>2, TwoCards
  <1>3. ASSUME NEW l \in Rank \cup {NoRank}, NEW h \in Rank \cup {NoRank},
               ParsePair(l, h).outcome = "hand"
        PROVE  \E code \in Code : ParsePair(l, h) = Parsed(code)
    BY <1>3 DEF ParsePair, Failed, Code
  <1>4. ASSUME NEW h \in Rank \cup {NoRank}, NEW l \in Rank \cup {NoRank}, NEW s \in Suffix,
               ParseSuffixed(h, l, s).outcome = "hand"
        PROVE  \E code \in Code : ParseSuffixed(h, l, s) = Parsed(code)
    <2> DEFINE code == [kind |-> IF s = "s" THEN "suited" ELSE "offsuit", high |-> h, low |-> l]
    <2>1. h \in Rank /\ l \in Rank /\ h < l /\ ParseSuffixed(h, l, s) = Parsed(code)
      BY <1>4 DEF ParseSuffixed, Failed
    <2>2. code \in Code
      BY <2>1 DEF Code
    <2> QED BY <2>1, <2>2
  <1>5. ASSUME NEW r \in Outcomes, r.outcome = "hand"
        PROVE  \E code \in Code : r = Parsed(code)
    <2>1. CASE r \in {ParseTwoCards(a, b) : a \in Card, b \in Card}
      BY <1>5, <2>1, <1>2
    <2>2. CASE r \in {ParsePair(l, h) : l \in Rank \cup {NoRank}, h \in Rank \cup {NoRank}}
      BY <1>5, <2>2, <1>3
    <2>3. CASE r \in {ParseSuffixed(h, l, s) : h \in Rank \cup {NoRank},
                                              l \in Rank \cup {NoRank}, s \in Suffix}
      <3>1. PICK h \in Rank \cup {NoRank}, l \in Rank \cup {NoRank}, s \in Suffix :
              r = ParseSuffixed(h, l, s)
        BY <2>3
      <3>2. ParseSuffixed(h, l, s).outcome = "hand"
        BY <1>5, <3>1
      <3> QED BY <3>1, <3>2, <1>4
    <2> QED BY <2>1, <2>2, <2>3 DEF Outcomes
  <1>6. ASSUME NEW r \in Outcomes, r.outcome = "hand"
        PROVE  r.code \in Code /\ r.id \in HandId /\ CodeOf(r.id) = r.code
    <2>1. PICK code \in Code : r = Parsed(code)
      BY <1>5, <1>6
    <2> QED BY <2>1, <1>1
  <1> QED BY <1>6 DEF InputsNameHands
=============================================================================
