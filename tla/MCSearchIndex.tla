--------------------------- MODULE MCSearchIndex ---------------------------
(* Values for SearchIndex: a and b lie in the folder docs, m in the root;  *)
(* a and m have the same base name, A.                                     *)
EXTENDS SearchIndex

CONSTANTS a, b, m,      \* files
          A, B,         \* base names
          root, docs,   \* folders
          plain,        \* a text without links
          wiki,         \* [[A]]
          path,         \* a link to a by its path
          broken,       \* a text that its parser throws on
          h1, h2

MCBase == [f \in Files |-> IF f = b THEN B ELSE A]
MCWithin == [d \in Folders |-> IF d = root THEN Files ELSE Files \ {m}]
MCAbove == [d \in Folders |-> {d, root}]
MCParent == [f \in Files |-> IF docs \in Folders /\ f # m THEN docs ELSE root]
MCLinks == [t \in Texts |-> CASE t = wiki -> {A} [] t = path -> {a} [] OTHER -> {}]
=============================================================================
