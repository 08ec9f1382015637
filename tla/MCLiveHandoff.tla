------------------------------ MODULE MCLiveHandoff ------------------------------
(* Instances of LiveHandoff for TLC. *)
EXTENDS LiveHandoff

Seen(symbol, source, lo, hi) ==
  [day |-> "d1", symbol |-> symbol, source |-> source, lo |-> lo, hi |-> hi]

\* One move, seen three times while it goes on.
OneMove == <<Seen("x", "s1", 1, 2), Seen("x", "s2", 2, 3), Seen("x", "s3", 3, 4)>>

\* A move seen twice and a later move of the same symbol.
Again == <<Seen("x", "s1", 1, 2), Seen("x", "s2", 2, 3), Seen("x", "s3", 5, 6)>>
==================================================================================
