------------------------------ MODULE MCContent -----------------------------
(* Instances of ContentLifecycle for TLC. *)
EXTENDS ContentLifecycle

CONSTANTS a, b, en, pl, red, blue, both, link, v, w

OneEntry   == {a}
TwoEntries == {a, b}

(* Colours are localized unique fields, the link is a shared reference. *)
Colours  == {red, blue}
Mixtures == {red, blue, both}
Links    == {link}
Nothing  == {}
LinkToA  == [c \in Contents |-> IF c = link THEN {a} ELSE {}]
ByColour == [c \in Contents |-> CASE c = red -> {v} [] c = blue -> {w}
                              [] c = both -> {v, w} [] OTHER -> {}]
ByValue  == [x \in {v, w} |-> IF x = v THEN 1 ELSE 2]

Bounds(edits, releases, reviews, admin, batches, listings, losses) ==
  [edit |-> edits, release |-> releases, review |-> reviews, admin |-> admin,
   batch |-> batches, listing |-> listings, loss |-> losses]

(* An exchange of values; a publication and a batch that wait for each other. *)
PublishBounds == {Bounds(4, 4, 4, 0, 0, 0, 0), Bounds(3, 3, 3, 0, 1, 0, 0)}

(* Administration, listings and failures; administration and a backfill. *)
LocaleBounds == {Bounds(2, 3, 2, 1, 0, 1, 1), Bounds(2, 3, 2, 2, 1, 0, 0)}
=============================================================================
