--------------------------- MODULE MCTypeRegistry ---------------------------
(* Three classes for TypeRegistry, each with an index of its own.          *)
EXTENDS TypeRegistry, TLC

CONSTANTS stmt, ret, str

\* StrNode, with a static index, beside StmtNode and ReturnStmtNode.
TreeParent == (stmt :> Root) @@ (ret :> stmt) @@ (str :> Root)
TreeStatic == (stmt :> 3) @@ (ret :> 3) @@ (str :> 1)
=============================================================================
