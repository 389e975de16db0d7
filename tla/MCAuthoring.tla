----------------------------- MODULE MCAuthoring -----------------------------
(* Instances of schema authoring for TLC. *)
EXTENDS Authoring, TLC

CONSTANTS c1, f, g, p1, p2, r1, r2, m1, m2, m3

(* A first document and one that has another field in its place.           *)
TheDocuments == {c1 :> {f}, c1 :> {g}}

TheSelections == {<<c1, {f}>>}

TheTools == p1 :> {"apply", "presentation"} @@ p2 :> {"apply"}

OneRootEach == p1 :> r1 @@ p2 :> r2

Symmetry == Permutations({m1, m2, m3})
=============================================================================
