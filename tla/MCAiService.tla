---------------------------- MODULE MCAiService ----------------------------
EXTENDS AiService

\* A world of three places in two shards.
MCLayouts == {{[min |-> 0, max |-> 1], [min |-> 1, max |-> 2]}}
=============================================================================
