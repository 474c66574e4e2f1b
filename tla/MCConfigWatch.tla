--------------------------- MODULE MCConfigWatch ----------------------------
(***************************************************************************)
(* ConfigWatch with the baseline, of one rule, and a version of two.       *)
(***************************************************************************)
EXTENDS ConfigWatch, TLC

BaselineAndTwo == "default" :> {"a"} @@ "v1" :> {"b", "c"}
=============================================================================
