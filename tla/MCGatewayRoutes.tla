--------------------------- MODULE MCGatewayRoutes ---------------------------
(* Small instance of GatewayRoutes: two letters, tables of up to two routes. *)
EXTENDS GatewayRoutes

Chars == {"/", "p", "q"}
RoutePrefixes == {<<"/", "p">>, <<"/", "p", "/", "q">>, <<"/", "p", "q">>, <<"/", "p", "/">>}
Bases == {<<"/">>, <<"/", "b", "/">>}

MCRoute == [enabled : BOOLEAN, prefix : RoutePrefixes, base : Bases]
MCTables == BoundedSeq(MCRoute, 2)
\* every path of up to five characters
MCPaths == {<<"/">> \o rest : rest \in BoundedSeq(Chars, 4)}
=============================================================================
