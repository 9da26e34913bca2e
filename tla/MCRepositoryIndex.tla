------------------------- MODULE MCRepositoryIndex -------------------------
(* RepositoryIndex for TLC: three paths of which two fit, so that a file    *)
(* comes into the index when another one goes; contents that import each    *)
(* other's paths; trees that differ by a change, an addition, a deletion    *)
(* and a revert.                                                            *)
EXTENDS RepositoryIndex, TLC

CONSTANTS a, b, c, plain, user, large

MCPathOrder == <<a, b, c>>
MCImports   == (plain :> {}) @@ (user :> {a, c}) @@ (large :> {b})
MCSize      == (plain :> 1) @@ (user :> 1) @@ (large :> 3)

TreeOf(x, y, z) == (a :> x) @@ (b :> y) @@ (c :> z)

MCTrees == {TreeOf(plain, user, NoBlob), TreeOf(NoBlob, user, plain),
            TreeOf(plain, large, user), TreeOf(plain, plain, user)}

=============================================================================
