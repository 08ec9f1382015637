---------------------------- MODULE MCLiveAdmission ----------------------------
(* Small instances of LiveAdmission for TLC.                                *)
EXTENDS LiveAdmission, TLC

Move(symbol, source, lo, hi) ==
  [day |-> 1, symbol |-> symbol, source |-> source, lo |-> lo, hi |-> hi]

\* One move each of two symbols.
TwoSymbols == {Move(symbol, 1, 1, 1) : symbol \in Symbols}
\* One move seen by two detectors and a later move of the symbol.
OneSymbol == {Move("A", 1, 1, 2), Move("A", 2, 2, 3), Move("A", 3, 5, 5)}
\* Two moves and a detection that spans both.
Spanning == {Move("A", 1, 1, 1), Move("A", 2, 3, 3), Move("A", 3, 1, 4)}
\* Three separate moves.
ThreeMoves == {Move("A", 1, 1, 1), Move("A", 2, 3, 3), Move("A", 3, 5, 5)}
OneDay == {1}
AnySymbol == Permutations(Symbols)
================================================================================
