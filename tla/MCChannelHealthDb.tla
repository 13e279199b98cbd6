------------------------- MODULE MCChannelHealthDb -------------------------
(* Model-checking instances of ChannelHealthDb. *)
EXTENDS ChannelHealthDb, TLC

Symmetry == Permutations(Channels) \cup Permutations(Writers)

=============================================================================
