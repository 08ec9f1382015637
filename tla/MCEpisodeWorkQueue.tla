------------------------- MODULE MCEpisodeWorkQueue -------------------------
(* Small instances of EpisodeWorkQueue for TLC.                              *)
EXTENDS EpisodeWorkQueue, TLC

Alike == Permutations(Ids) \cup Permutations(Workers)
==============================================================================
