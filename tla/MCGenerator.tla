----------------------------- MODULE MCGenerator -----------------------------
(* An instance of the tools for TLC: a schema of one file that may import a *)
(* second one.                                                              *)
EXTENDS ProjectTools

MCFiles == {"root", "part"}
MCTexts == {"plain", "other", "broken"}

(* "other" in the root imports the part; in the part it is a second text.   *)
Imports(c) == c["root"] = "other"
MCFirstCode == [f \in MCFiles |-> "plain"]
MCReads == [c \in [MCFiles -> MCTexts] |-> IF Imports(c) THEN MCFiles ELSE {"root"}]
MCSays == [c \in [MCFiles -> MCTexts] |->
  IF \E f \in MCReads[c] : c[f] = "broken" THEN "invalid"
  ELSE IF ~Imports(c) THEN "alone" ELSE IF c["part"] = "plain" THEN "with1" ELSE "with2"]
=============================================================================
