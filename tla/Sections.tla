------------------------------ MODULE Sections ------------------------------
(***************************************************************************)
(* A markdown document as a list of blocks, its section tree, and the       *)
(* operations of section-ops-core.ts on it.                                 *)
(*                                                                         *)
(* A block is a heading (level 1..6) or a block of body (level 0).  A text  *)
(* is a sequence of words; a heading may carry a stable `^id` anchor, which *)
(* is the slug of a text and a number.  A node of the tree is named by the  *)
(* position of its heading, the preamble by 0.  Offsets become positions    *)
(* between blocks; blank lines are left out, except where the code forgets  *)
(* one (Glued).                                                             *)
(***************************************************************************)
EXTENDS Integers, SequencesExt

Hashtag  == <<"#tag">>                 \* body text that looks like a heading
TocTitle == <<"Table of Contents">>
TocList  == <<"list">>                 \* the links generateToc writes

NoId     == <<>>
Preamble == <<"__preamble">>

Body(t)       == [level |-> 0, text |-> t, id |-> NoId]
Heading(l, t, a) == [level |-> l, text |-> t, id |-> a]

(* renderHeading writes `level` hashes.  Seven of them, or none, are no     *)
(* heading to the parser: the line is read back as body.                    *)
Rendered(l, t, a) == IF l \in 1..6 THEN Heading(l, t, a) ELSE Body(t)

(* The blocks there are; body carries no anchor.  Words are strings, among   *)
(* them the few the tools write themselves.                                 *)
Vocabulary == STRING \union {"+", "^", TocTitle[1], TocList[1]}
Ids   == {NoId} \union (Seq(Vocabulary) \X Nat)
Block == {b \in [level : 0..6, text : Seq(Vocabulary), id : Ids] :
             b.level = 0 => b.id = NoId}

HeadsIn(s)         == {i \in DOMAIN s : s[i].level > 0}
Slice(d, from, to) == SubSeq(d, from, to - 1)     \* blocks from <= i < to

-----------------------------------------------------------------------------
(* The section tree.                                                        *)

(* The first heading after position n, or the end of the document: where    *)
(* the text of node n itself stops (findBodyEnd).                           *)
BodyEnd(d, n) == Min({j \in HeadsIn(d) : j > n} \union {Len(d) + 1})

HasPreamble(d) == d # <<>> /\ d[1].level = 0
Nodes(d)       == HeadsIn(d) \union (IF HasPreamble(d) THEN {0} ELSE {})

Level(d, n)     == IF n = 0 THEN 0 ELSE d[n].level
Title(d, n)     == IF n = 0 THEN Preamble ELSE d[n].text
Start(d, n)     == IF n = 0 THEN 1 ELSE n
BodyStart(d, n) == n + 1

(* Fault to detect: a heading of the same level stays on the stack.         *)
Popped_KeepsEqual(d, stack, l) ==
    SubSeq(stack, 1, Max({0} \union {k \in DOMAIN stack : d[stack[k]].level <= l}))

(* What is left of the stack of open sections when a heading of level l     *)
(* comes: sections are popped until one of a smaller level is on top.       *)
Popped(d, stack, l) ==
    SubSeq(stack, 1, Max({0} \union {k \in DOMAIN stack : d[stack[k]].level < l}))

(* buildSectionTree: the stack of open sections after each block.           *)
OpenSections(d) ==
    LET open[i \in 0..Len(d)] ==
            IF i = 0 THEN <<>>
            ELSE IF d[i].level = 0 THEN open[i - 1]
            ELSE Append(Popped(d, open[i - 1], d[i].level), i)
    IN  open

(* The nodes from the root to n, and the tree.                              *)
Root        == -1
Chain(d, n) == IF n = 0 THEN <<0>> ELSE OpenSections(d)[n]
Parents(d)  ==
    LET open  == OpenSections(d)
        up(c) == IF Len(c) = 1 THEN Root ELSE c[Len(c) - 1]
    IN  [n \in Nodes(d) |-> IF n = 0 THEN Root ELSE up(open[n])]

Children(d, p) == LET up == Parents(d) IN {n \in DOMAIN up : up[n] = p}
Siblings(d, n) == Children(d, Parents(d)[n])

(* fixSectionEndOffsets: a section ends at the next heading, or where its   *)
(* last child ends.                                                         *)
SectionEnd(d, n) ==
    LET up == Parents(d)
        end[i \in Nodes(d)] ==
            LET kids == {k \in DOMAIN up : up[k] = i}
            IN  IF kids = {} THEN BodyEnd(d, i) ELSE end[Max(kids)]
    IN  end[n]

(* Fault to detect: the preamble does not shift the index of its siblings.  *)
IndexOf_Unshifted(d, n) == Cardinality({m \in Siblings(d, n) \ {0} : m < n})

(* The zero-based place of a node among its siblings, the preamble being    *)
(* the first of the roots.                                                  *)
IndexOf(d, n) ==
    Cardinality({m \in Siblings(d, n) \ {0} : m < n})
      + (IF n # 0 /\ HasPreamble(d) /\ Parents(d)[n] = Root THEN 1 ELSE 0)

Path(d, n)      == LET c == Chain(d, n) IN [i \in DOMAIN c |-> Title(d, c[i])]
IndexPath(d, n) == LET c == Chain(d, n) IN [i \in DOMAIN c |-> IndexOf(d, c[i])]

-----------------------------------------------------------------------------
(* Addresses: heading text, path of texts, path of indices, anchor.         *)

(* resolvePathAddress: the first segment anywhere, the others by children.  *)
OnPath(d, segs) ==
    LET up == Parents(d)
        found[i \in 1..Len(segs)] ==
            {n \in Nodes(d) : /\ Title(d, n) = segs[i]
                              /\ i > 1 => up[n] \in found[i - 1]}
    IN  IF segs = <<>> THEN {} ELSE found[Len(segs)]

(* resolveIndexAddress: level by level, a place in the list of children.    *)
AtIndices(d, indices) ==
    LET up == Parents(d)
        before(n) == {m \in DOMAIN up : up[m] = up[n] /\ m < n}
        reached[i \in 0..Len(indices)] ==
            IF i = 0 THEN {Root}
            ELSE {n \in DOMAIN up : /\ up[n] \in reached[i - 1]
                                    /\ Cardinality(before(n)) = indices[i]}
    IN  IF indices = <<>> THEN {} ELSE reached[Len(indices)]

Resolve(d, addr) ==
    CASE addr.by = "text"   -> {n \in Nodes(d) : Title(d, n) = addr.at}
      [] addr.by = "path"   -> OnPath(d, addr.at)
      [] addr.by = "index"  -> AtIndices(d, addr.at)
      [] addr.by = "anchor" -> {n \in HeadsIn(d) : d[n].id = addr.at /\ addr.at # NoId}

(* resolveSingleSection throws unless one section matches.                  *)
Addresses(d, addr, n) == Resolve(d, addr) = {n}
=============================================================================
