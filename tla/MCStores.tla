------------------------------ MODULE MCStores ------------------------------
\* Two files, two readable contents of one and two chunks, one unreadable; two
\* records, two tags; two calls that wait for embeddings.
EXTENDS Stores
MCContext == {"repo-map", "default", "vector", "graph", "semantic"}
MCMemory == {"memory/ephemeral", "memory/graph", "memory/vector"}
MCWalk == <<"p", "q">>
MCTexts == [one |-> <<"1">>, two |-> <<"2a", "2b">>]
MCUnread == {"bad"}
=============================================================================
