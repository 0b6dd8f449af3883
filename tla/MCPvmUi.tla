------------------------------ MODULE MCPvmUi ------------------------------
(***************************************************************************)
(* Instances of PvmUi for TLC.  The first page has a text, a list of one   *)
(* row and a native surface, the second one text; two slots, one for the   *)
(* text and the row, the other for the surface and the second text.        *)
(***************************************************************************)
EXTENDS PvmUi

CONSTANTS home, other, top, text, list, row, surface, top2, text2, a, b, v1, v2

MCRoot == [p \in Pages |-> IF p = home THEN top ELSE top2]

MCChildren ==
  [n \in Nodes |-> CASE n = top -> {text, list, surface}
                     [] n = list -> {row}
                     [] n = top2 -> {text2}
                     [] OTHER -> {}]

MCKind ==
  [n \in Nodes |-> CASE n \in {top, top2} -> "Column"
                     [] n = list -> "List"
                     [] n = surface -> "NativeSurface"
                     [] OTHER -> "Text"]

MCBound ==
  [n \in Nodes |-> CASE n \in {text, row} -> a
                     [] n \in {surface, text2} -> b
                     [] OTHER -> None]

MCDeclared == [s \in Slots |-> v1]
============================================================================
