------------------------------ MODULE MCOwnedExit ------------------------------
(* Instances of OwnedExit for TLC.                                              *)
EXTENDS OwnedExit

One(provider, first, last, faults, buys, gens, attempts, restarts) ==
  [provider |-> provider, first |-> first, last |-> last, faults |-> faults,
   buys |-> buys, gens |-> gens, attempts |-> attempts, crashes |-> restarts]

\* A pair that is outgrown, sold from and released, with answers that arrive.
PairDay == One("webull", "NORMAL", "NORMAL", {}, 2, 2, 1, 0)
\* The opening bell replaces the single target by a pair; wires and answers are lost.
BellDay == One("schwab", "AM", "NORMAL", {"lost", "ack"}, 1, 2, 1, 0)
\* The process dies at any await of protecting and selling one share.
CrashDay == One("webull", "NORMAL", "NORMAL", {"lost", "ack"}, 1, 1, 1, 1)
\* A mandatory exit after hours is cancelled and chased, with every fault.
ChaseDay == One("schwab", "PM", "PM", {"lost", "refused", "ack", "db"}, 2, 1, 2, 0)

AllDays == {PairDay, BellDay, CrashDay, ChaseDay}

\* Liveness: one share, a broker that does not lose what it is sent.
CalmDay   == {One("schwab", "NORMAL", "NORMAL", {}, 1, 1, 1, 0)}
UnreadDay == {One("webull", "NORMAL", "NORMAL", {}, 1, 1, 1, 0)}
AbortDay  == {One("schwab", "PM", "PM", {}, 1, 1, 1, 1)}
==============================================================================
