------------------------------- MODULE MCOrbExit -------------------------------
(* Instances of OrbExit for TLC.                                                *)
EXTENDS OrbExit

Situation(closers, pairs, attached, faulty) ==
  [closers |-> closers, pairs |-> pairs, attached |-> attached, faulty |-> faulty]

\* The reconciler alone, from no pair to the second; every closer over one resting pair.
Races == {Situation({}, 2, FALSE, TRUE), Situation(Sellers, 1, TRUE, TRUE)}

\* STOP over one resting pair, with answers that arrive.
Calm == {Situation({"stop"}, 1, TRUE, FALSE)}

RacesAndCalm == Races \cup Calm

\* A signal close before the first pair is attached.
Unprotected == {Situation({"signal"}, 1, FALSE, FALSE)}

\* A signal close and STOP over one resting pair.
Crossed == {Situation({"signal", "stop"}, 1, TRUE, FALSE)}
==============================================================================
