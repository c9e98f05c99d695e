--------------------------- MODULE MCResolveOrder ----------------------------
(* Three plugins; no root, one, or two. *)
EXTENDS ResolveOrder

CONSTANTS p1, p2, p3

MCPlugins == {p1, p2, p3}
MCRootLists == {<<>>, <<p1>>, <<p1, p2>>}
=============================================================================
