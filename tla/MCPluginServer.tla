--------------------------- MODULE MCPluginServer ---------------------------
(***************************************************************************)
(* TLC instances of the plugin's server.                                   *)
(***************************************************************************)
EXTENDS PluginServer, TLC

\* One table without and one with background tasks and in-flight queries.
TwoTables == <<"publisher", "queryable">>
PubSub == <<"publisher", "subscriber">>
Queryables == <<"queryable">>
Publishers == <<"publisher">>

Symmetric == Permutations(Clients) \cup Permutations(Tasks)
==============================================================================
