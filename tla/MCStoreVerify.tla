----------------------------- MODULE MCStoreVerify -----------------------------
(***************************************************************************)
(* Databases and commands for StoreVerify: three hands, two actions, runs  *)
(* of three numbers for a float32.                                         *)
(***************************************************************************)
EXTENDS StoreVerify

Row(line, hand, action, size, freq, ev) ==
  [line |-> line, hand |-> hand, action |-> action, size |-> size, freq |-> freq, ev |-> ev]

MCDims == <<"a", "b">>

OneLine == <<Row(7, 1, 2, 0, 5, NoEv)>>

\* A line with a cell that is not set and one without an ev, and a line of the
\* same actions that so has its schema.
TwoLines == <<Row(1, 2, 0, 0, 4, 3), Row(1, 0, 3, 6, 9, NoEv), Row(1, 0, 0, 0, 1, 0),
              Row(2, 1, 0, 0, 7, 2), Row(2, 1, 3, 6, 0, 5)>>

\* The ids have a gap.
Gap == <<Row(1, 0, 0, 0, 1, 1), Row(3, 0, 0, 0, 2, 2)>>

\* Two rows of one hand and action.
Repeated == <<Row(4, 0, 0, 0, 1, 1), Row(4, 0, 0, 0, 8, 1)>>

\* Sizes that are one, and sizes that are farther from their float32 than the
\* tolerance.
Near == <<Row(1, 0, 3, 6, 1, 1), Row(1, 0, 3, 7, 3, 1)>>
Far == <<Row(1, 0, 3, 8, 1, 1)>>

\* Numbers that are not finite, and a number that is not finite as float32.
NotFinite == <<Row(1, 0, 3, 6, Infinite, 1)>>
TooLarge == <<Row(1, 0, 3, 6, 1, Infinite + 1)>>

\* What no pack can hold.
NoHand == <<Row(1, 3, 0, 0, 1, 1)>>
ManyActions == <<Row(1, 0, 0, 0, 1, 1), Row(1, 0, 1, 0, 1, 1), Row(1, 0, 2, 0, 1, 1)>>

\* Five lines of packs of 13 bytes: the last offset is not a u32.
Long == [i \in 1..9 |-> Row(i, 0, 0, 0, i, 0)]

Database(a, b) == [d \in {"a", "b"} |-> IF d = "a" THEN a ELSE b]

MCSources ==
  {Database(TwoLines, OneLine), Database(TwoLines, <<>>), Database(Gap, OneLine),
   Database(Repeated, <<>>), Database(Near, <<>>), Database(Far, OneLine),
   Database(NotFinite, <<>>), Database(TooLarge, <<>>), Database(<<>>, <<>>),
   Database(NoHand, OneLine), Database(ManyActions, <<>>), Database(Long, <<>>)}

MCPlans == {<<"a", "b">>, <<"b">>}

Verify(mode, checksums, sample, maxFailures) ==
  [mode |-> mode, checksums |-> checksums, sample |-> sample, maxFailures |-> maxFailures]

MCCommands ==
  {Verify("standalone", TRUE, 0, 1), Verify("standalone", FALSE, 0, 1),
   Verify("cross", TRUE, 0, 2), Verify("cross", FALSE, 0, 1), Verify("cross", FALSE, 3, 2)}
=============================================================================
