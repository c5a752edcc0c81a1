------------------------------- MODULE MCMenu -------------------------------
(* Instances of Menu: pages of a few rows.                                 *)
EXTENDS Menu

FewRows == [c \in Caller |-> CASE c = "explorer" -> 3 [] c = "main" -> 4 [] c = "file" -> 6]
=============================================================================
