--------------------------- MODULE MCChannelAdmin ---------------------------
(* Model-checking instances of ChannelAdmin. *)
EXTENDS ChannelAdmin

Row(key) == [enabled |-> TRUE, key |-> key, protocols |-> {"chat"}, force |-> NoForce]

\* Two channels with one mapping each.
TwoChannels == [c \in Channels |-> Row("k1")]
TwoMappings == [m \in Mappings |->
                  [channel |-> IF m = "m1" THEN "a" ELSE "b", client |-> "x", enabled |-> TRUE]]

\* Switch off, force a protocol, and take the protocols away.
Bodies == { [enabled |-> FALSE, protocols |-> Keep, force |-> Keep],
            [enabled |-> Keep, protocols |-> Keep, force |-> "chat"],
            [enabled |-> Keep, protocols |-> {}, force |-> Keep] }

OneBody == { [enabled |-> FALSE, protocols |-> Keep, force |-> Keep] }

\* A mapping of channel b: created again, or moved there from a.
NewRows == { [channel |-> "b", client |-> "x", enabled |-> TRUE] }

MapBodies == { [client |-> Keep, enabled |-> FALSE] }

=============================================================================
