---------------------------- MODULE MCTransport ----------------------------
EXTENDS Transport

\* The streams of a game server or a client: the first reliable, the second not.
MCReliable == [s \in Streams |-> s = 1]
=============================================================================
