---------------------------- MODULE MCHpackTable ----------------------------
(* Instances of HpackTable for TLC. *)
EXTENDS HpackTable

\* Two small fields, and one that fits only into the larger table.
MCFields == {"small", "medium", "large"}
MCSize(f) == CASE f = "small" -> 1 [] f = "medium" -> 2 [] f = "large" -> 3
=============================================================================
