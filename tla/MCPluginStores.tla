--------------------------- MODULE MCPluginStores ---------------------------
(* Model-checking instance of PluginStores: the same key in each store.    *)
EXTENDS PluginStores

CONSTANTS k1, empty

MCEntries == {<<"kv", k1>>, <<"cache", k1>>, <<"config", k1>>}
MCLength == [v \in Values |-> IF v = empty THEN 0 ELSE 2]
MCTTLs == {-5, 0, 1, 2, 3}
=============================================================================
