------------------------------ MODULE DocEdits ------------------------------
(***************************************************************************)
(* The write tools of en-quire on one markdown document, one call after      *)
(* another: each loads and parses the document, resolves its addresses, runs *)
(* an operation of SectionOps and hands the result to executeWrite, which    *)
(* validates it.  (Workspace has what happens between loading and writing.)  *)
(* The `call` variable is the last call and what became of it.               *)
(***************************************************************************)
EXTENDS SectionOps

CONSTANTS Titles,      \* heading texts a caller may ask for
          Levels,      \* explicit levels a caller may ask for
          Contents,    \* contents a caller may send
          BatchKinds,  \* kinds of operation in a batch
          Words,       \* words find_replace and insert_text look for
          Documents,   \* the documents to start from
          Earlier,     \* a version a client previewed before
          MaxCalls     \* bound on the number of calls

(* What callers send and the files hold are blocks and words; a heading that *)
(* is asked for has a text (renameSection refuses an empty one).            *)
ASSUME DocAssumption ==
    /\ Titles \subseteq Seq(Vocabulary) \ {<<>>} /\ Levels \subseteq Int
    /\ Contents \subseteq Seq(Block) /\ Words \subseteq Vocabulary
    /\ BatchKinds \subseteq {"replace", "insert", "append", "delete", "move", "rename"}
    /\ Documents \subseteq Seq(Block) /\ Earlier \in Seq(Block)
    /\ MaxCalls \in Nat

VARIABLES doc, seen, call, calls

vars == <<doc, seen, call, calls>>

Call(op, n, m, p, t, c) ==
    [op |-> op, n |-> n, m |-> m, p |-> p, t |-> t, c |-> c, glued |-> FALSE, ok |-> FALSE]
Plain(op) == Call(op, 0, 0, "none", <<>>, <<>>)

-----------------------------------------------------------------------------
(* executeWrite.                                                            *)

(* validate reports no "Duplicate sibling" anywhere in the document.        *)
Valid(d) ==
    LET up == Parents(d) IN
    \A n, m \in HeadsIn(d) : n # m /\ up[n] = up[m] => d[n].text # d[m].text

(* if_match names the document that was loaded.  A client that has just read *)
(* it sends that etag; one that applies a preview sends the preview's.       *)
EtagOk(c) == c.op = "find_replace" => seen = doc

(* (What the tools do to a document with underlined headings is left out.)   *)
Answer(c, ok, d) ==
    /\ calls < MaxCalls
    /\ AtxOnly(doc)
    /\ calls' = calls + 1
    /\ call' = IF ok THEN [c EXCEPT !.ok = TRUE] ELSE Plain("refused")
    /\ doc' = IF ok THEN d ELSE doc
    /\ UNCHANGED seen

ExecuteWrite(c, allowed, d) ==
    LET ok == allowed /\ EtagOk(c) /\ Valid(d) IN Answer(c, ok, IF ok THEN d ELSE doc)

-----------------------------------------------------------------------------
(* The operations doc_batch shares with the tools of their own: whether the  *)
(* operation c is allowed on d, and its result.                              *)

Allowed(d, c) ==
    CASE c.op = "replace" -> BodyAllowed(d, c.n, c.c)
      [] c.op = "whole"   -> TRUE
      [] c.op = "insert"  -> InsertAllowed(d, c.n, c.p, c.t, c.c)
      [] c.op = "append"  -> AppendAllowed(d, c.n, c.c)
      [] c.op = "delete"  -> TRUE
      [] c.op = "move"    -> MoveAllowed(d, c.n, c.m, c.p)
      [] c.op = "rename"  -> RenameAllowed(d, c.n, c.t)

Result(d, c) ==
    CASE c.op = "replace" -> ReplaceBody(d, c.n, c.c)
      [] c.op = "whole"   -> ReplaceWhole(d, c.n, c.c)
      [] c.op = "insert"  -> InsertNode(d, c.n, c.p, c.t, c.c, 0)
      [] c.op = "append"  -> AppendBody(d, c.n, c.c)
      [] c.op = "delete"  -> DeleteNode(d, c.n)
      [] c.op = "move"    -> MoveNode(d, c.n, c.m, c.p, c.glued)
      [] c.op = "rename"  -> RenameHeading(d, c.n, c.t, NoId)

Edit(c) == ExecuteWrite(c, Allowed(doc, c), IF Allowed(doc, c) THEN Result(doc, c) ELSE doc)

DocReplaceSection ==
    \E n \in Nodes(doc), c \in Contents, op \in {"replace", "whole"} :
        Edit(Call(op, n, 0, "none", <<>>, c))

DocInsertSection ==
    \E n \in Nodes(doc), p \in Positions, t \in Titles, c \in Contents :
        Edit(Call("insert", n, 0, p, t, c))

(* The level parameter overrides the level of the place.                    *)
DocInsertAtLevel ==
    \E n \in Nodes(doc), p \in Positions, t \in Titles, l \in Levels :
        LET c == Call("insert_level", n, l, p, t, <<>>) IN
        ExecuteWrite(c, InsertAllowed(doc, n, p, t, <<>>), InsertNode(doc, n, p, t, <<>>, l))

DocAppendSection ==
    \E n \in Nodes(doc), c \in Contents : Edit(Call("append", n, 0, "none", <<>>, c))

DocDeleteSection == \E n \in Nodes(doc) : Edit(Call("delete", n, 0, "none", <<>>, <<>>))

(* Whether the text ends in a newline is not kept: other programs may have    *)
(* changed that since the last call.                                        *)
MoveCalls(d) ==
    {c \in {[Call("move", n, m, p, <<>>, <<>>) EXCEPT !.glued = g] :
                 n, m \in Nodes(d), p \in Positions, g \in BOOLEAN} :
        c.glued \in Gluings(d, c.n, c.m, c.p)}

DocMoveSection == \E c \in MoveCalls(doc) : Edit(c)

DocRenameSection ==
    \E n \in Nodes(doc), t \in Titles : Edit(Call("rename", n, 0, "none", t, <<>>))

(* An anchor in new_heading replaces the one that was there.                *)
DocReanchorSection ==
    \E n \in HeadsIn(doc), t \in Titles :
        LET c == Call("reanchor", n, 0, "none", t, <<>>) IN
        ExecuteWrite(c, RenameAllowed(doc, n, t), RenameHeading(doc, n, t, <<t, 1>>))

DocSetValue ==
    \E n \in Nodes(doc), c \in Contents :
        LET r == Call("set_value", n, 0, "none", <<>>, c) IN
        ExecuteWrite(r, SetValueAllowed(doc, n, c), ReplaceBody(doc, n, c))

(* The operations a batch may hold, with their addresses resolved in d.      *)
OpsOf(d, kind) ==
    CASE kind = "replace" -> {Call(op, n, 0, "none", <<>>, c) : n \in Nodes(d), c \in Contents,
                                                           op \in {"replace", "whole"}}
      [] kind = "insert"  -> {Call("insert", n, 0, p, t, c) : n \in Nodes(d), p \in Positions,
                                                             t \in Titles, c \in Contents}
      [] kind = "append"  -> {Call("append", n, 0, "none", <<>>, c) : n \in Nodes(d), c \in Contents}
      [] kind = "delete"  -> {Call("delete", n, 0, "none", <<>>, <<>>) : n \in Nodes(d)}
      [] kind = "move"    -> MoveCalls(d)
      [] kind = "rename"  -> {Call("rename", n, 0, "none", t, <<>>) : n \in Nodes(d), t \in Titles}

BatchOps(d) == UNION {OpsOf(d, k) : k \in BatchKinds}

(* doc_batch: each operation sees the document as the one before left it,    *)
(* its addresses are resolved there, and only the last result is validated   *)
(* and written, if it is another document.                                  *)
DocBatch ==
    \E first \in BatchOps(doc) :
        /\ Allowed(doc, first) /\ AtxOnly(Result(doc, first))
        /\ \E next \in BatchOps(Result(doc, first)) :
             LET left == Result(doc, first)
                 ok   == Allowed(left, next)
                 c    == Call("batch", 0, 0, "none", <<>>, first.c \o next.c)
             IN  IF ok /\ Result(left, next) = doc THEN Answer(c, TRUE, doc)
                 ELSE ExecuteWrite(c, ok, IF ok THEN Result(left, next) ELSE doc)

(* doc_assign_ids writes only when a heading has no anchor.                  *)
DocAssignIds ==
    /\ \E i \in HeadsIn(doc) : doc[i].id = NoId
    /\ ExecuteWrite(Plain("assign_ids"), TRUE, AssignIds(doc))

DocGenerateToc ==
    \E top, open \in BOOLEAN :
        ExecuteWrite(Plain("toc"), TRUE, GenerateToc(doc, top, open))

(* doc_find_replace with preview: the matches and the etag.                  *)
DocFindPreview ==
    /\ calls < MaxCalls
    /\ seen # doc
    /\ seen' = doc
    /\ UNCHANGED <<doc, call, calls>>

(* doc_find_replace that applies match k of what was previewed.              *)
DocFindReplace ==
    \E w \in Words, t \in Titles, k \in 0..1 :
        /\ k < Cardinality(Matches(seen, w)) /\ t # <<w>>
        /\ ExecuteWrite(Call("find_replace", k, 0, w, t, <<>>), TRUE,
                        FindReplace(doc, w, t[1], {k}))

DocInsertText ==
    \E w \in Words, after \in BOOLEAN, c \in Contents :
        LET ok == Cardinality(Occurrences(doc, w)) = 1 IN
        /\ c # <<>>
        /\ ExecuteWrite(Call("insert_text", 0, 0, "none", <<>>, c), ok,
                        IF ok THEN InsertText(doc, w, after, c) ELSE doc)

-----------------------------------------------------------------------------
Init ==
    /\ doc \in Documents
    /\ seen = Earlier
    /\ call = Plain("none")
    /\ calls = 0

Next ==
    \/ DocReplaceSection \/ DocInsertSection \/ DocInsertAtLevel
    \/ DocAppendSection  \/ DocDeleteSection \/ DocMoveSection
    \/ DocRenameSection  \/ DocReanchorSection \/ DocSetValue
    \/ DocBatch \/ DocAssignIds \/ DocGenerateToc
    \/ DocFindPreview \/ DocFindReplace \/ DocInsertText

Spec == Init /\ [][Next]_vars

-----------------------------------------------------------------------------
(* Properties.                                                              *)

(* The variables keep their shape (shared/types.ts, SectionNode).           *)
TypeOK ==
    /\ doc \in Seq(Block) /\ seen \in Seq(Block)
    /\ calls \in 0..MaxCalls /\ call.ok \in BOOLEAN

(* The tree the parser builds with a stack is the nesting of the headings:   *)
(* the parent is the nearest heading above of a smaller level, and a section *)
(* reaches to the next heading that is not deeper (markdown-parser.ts,       *)
(* "a heading owns all content up to the next heading of equal or higher     *)
(* level").  Every edit cuts at these places.                               *)
SectionsNest ==
    LET up == Parents(doc) IN
    \A n \in HeadsIn(doc) :
        LET above == {j \in HeadsIn(doc) : j < n /\ doc[j].level < doc[n].level}
            below == {j \in HeadsIn(doc) : j > n /\ doc[j].level <= doc[n].level}
        IN  /\ up[n] = Max(above \union {Root})
            /\ SectionEnd(doc, n) = Min(below \union {Len(doc) + 1})

(* The index path that an ambiguity error offers for a section resolves to   *)
(* that section and no other, whatever the headings are called               *)
(* (describeMatchForDisambiguation: "always works").                        *)
IndexPathsResolve ==
    \A n \in Nodes(doc) : Addresses(doc, [by |-> "index", at |-> IndexPath(doc, n)], n)

Accepted == calls' > calls /\ call'.ok

(* What a call takes out of the document, <<from, to>> for the blocks        *)
(* from .. to-1, and where what it puts in stands in the new document.      *)
Removed(d, c) ==
    CASE c.op \in {"replace", "set_value"} ->
            <<BodyStart(d, c.n), ReplaceEnd(d, c.n, Stripped(c.c, Title(d, c.n)))>>
      [] c.op \in {"delete", "move"} -> <<Start(d, c.n), SectionEnd(d, c.n)>>
      [] OTHER -> <<1, 1>>

Added(d, c) ==
    LET From(at, size) == <<at, at + size>> IN
    CASE c.op \in {"replace", "set_value"} ->
            From(BodyStart(d, c.n), Len(Stripped(c.c, Title(d, c.n))))
      [] c.op = "append" -> From(BodyEnd(d, c.n), Len(c.c))
      [] c.op = "insert" -> From(InsertAtPos(d, c.n, c.p), 1 + Len(Stripped(c.c, c.t)))
      [] c.op = "move" ->
            LET at   == InsertAtPos(d, c.m, c.p)
                size == Len(Moved(d, c.n))
            IN  From(IF c.n < at THEN at - size ELSE at, size)
      [] OTHER -> <<1, 1>>

(* A block and the path of the section it stands in.                        *)
Standing(d, i) ==
    LET heads == {h \in HeadsIn(d) : h <= i}
    IN  <<d[i], IF heads = {} THEN <<Preamble>> ELSE Path(d, Max(heads))>>

(* The blocks of d but those of the piece <<from, to>>, with their standings. *)
Others(d, piece) ==
    LET all == [i \in DOMAIN d |-> Standing(d, i)]
    IN  Slice(all, 1, piece[1]) \o Slice(all, piece[2], Len(d) + 1)

(* Calls whose new text stays inside the place they name.  A section put at  *)
(* "child_start" comes between a heading and its text, and one that is glued *)
(* to the line before it is part of that line; one inserted or moved next to *)
(* the preamble has level 0, and the preamble has no heading to move;        *)
(* inserted content is not looked at for headings that break out, nor any    *)
(* content for underlined ones; appended child headings take over children   *)
(* of theirs that follow.                                                   *)
Contained(d, c) ==
    CASE c.op \in {"replace", "set_value"} -> c.n # 0 /\ AtxOnly(c.c)
      [] c.op = "append" -> HeadsIn(c.c) = {}
      [] c.op = "insert" -> /\ c.n # 0 /\ c.p # "child_start" /\ AtxOnly(c.c)
                            /\ NoBreaking(Stripped(c.c, c.t), DestLevel(d, c.n, c.p))
      [] c.op = "move"   -> c.n # 0 /\ c.m # 0 /\ ~c.glued
      [] OTHER -> c.op = "delete"

(* An edit changes the section it names and nothing else: every other block  *)
(* is still there, in the same order, and under the same headings, so the    *)
(* addresses of other sections stay good (section-ops-core.ts).              *)
OthersStayPut ==
    [][ Accepted /\ Contained(doc, call') =>
            Others(doc, Removed(doc, call')) = Others(doc', Added(doc, call')) ]_vars

(* The section starting at n.                                               *)
SectionAt(d, n) == Slice(d, n, SectionEnd(d, n))

(* What was written reads back as one section: a replaced body is the body   *)
(* of its section, an inserted section has the title, the parent and the     *)
(* text it was given, and a moved section is the old one with its levels     *)
(* shifted (doc-move-section.ts: "place it as a child of the anchor").       *)
ReadsBack(d, e, c) ==
    CASE c.op \in {"replace", "set_value"} ->
            LET new == Stripped(c.c, d[c.n].text)
                old == IF HasDeeper(new, d[c.n].level) THEN <<>>
                       ELSE Slice(d, BodyEnd(d, c.n), SectionEnd(d, c.n))
            IN  SectionAt(e, c.n) = <<d[c.n]>> \o new \o old
      [] c.op = "insert" ->
            LET at == InsertAtPos(d, c.n, c.p) IN
            DestLevel(d, c.n, c.p) <= 6 =>
                /\ e[at].text = c.t
                /\ SectionAt(e, at) = <<e[at]>> \o Stripped(c.c, c.t)
      [] c.op = "move" ->
            SectionAt(e, Added(d, c)[1])
                = Shifted(Moved(d, c.n), MoveDelta(d, c.n, c.m, c.p))
      [] OTHER -> TRUE

WrittenReadsBack ==
    [][ Accepted /\ Contained(doc, call') => ReadsBack(doc, doc', call') ]_vars

(* The blocks whose anchors a call may take away.                           *)
MayLose(d, c) ==
    CASE c.op = "move"     -> {}
      [] c.op = "whole"    -> Start(d, c.n) .. (ReplaceEnd(d, c.n, c.c) - 1)
      [] c.op = "reanchor" -> {c.n}
      [] OTHER             -> Removed(d, c)[1] .. (Removed(d, c)[2] - 1)

(* Content whose first '#' heading is without an anchor.                    *)
TakesAnchor(c) == AtxIn(c) # {} /\ c[FirstHead(c)].id = NoId

(* An anchor goes on naming its section: only taking the section away, or    *)
(* giving it another anchor, ends an anchor.  A section that is renamed, or  *)
(* replaced by content whose first heading has none, keeps its own           *)
(* (preserveAnchor: "renaming a heading must not drop its stable ^id").      *)
(* Content that starts with '#' and has no heading takes the heading away,   *)
(* and so does a section that is moved to the end of a line.                *)
AnchorsStay ==
    [][ LET c == call' IN
        Accepted /\ c.op \notin {"batch", "toc", "insert_text"}
                 /\ ~c.glued =>
            /\ \A i \in HeadsIn(doc) \ MayLose(doc, c) : doc[i].id \in IdsIn(doc') \union {NoId}
            /\ c.op = "whole" /\ c.n # 0 /\ (StartsWithHash(c.c) => TakesAnchor(c.c))
                 => doc[c.n].id \in IdsIn(doc') \union {NoId} ]_vars

UniqueIds(d) == \A i, j \in HeadsIn(d) : i # j => d[i].id = NoId \/ d[i].id # d[j].id

(* An anchor addresses one section: what the tools make up is never in use,  *)
(* wherever the new section goes, and moving or renaming makes no second     *)
(* copy.  Ids that the caller writes are the caller's affair (validate warns *)
(* of duplicates; anchors.ts, assignAnchors).                               *)
FreshAnchorsAreFree ==
    [][ Accepted /\ call'.op # "reanchor" /\ IdsIn(call'.c) = {} /\ UniqueIds(doc)
            => UniqueIds(doc') ]_vars

(* A match id means the match the client was shown: whatever happened since  *)
(* the preview, find_replace with the preview's etag changes that one block  *)
(* of the document the client saw, or nothing (doc-find-replace.ts).         *)
AppliedAsPreviewed ==
    [][ LET c == call' IN
        Accepted /\ c.op = "find_replace" =>
            \E at \in Matches(seen, c.p) :
                /\ MatchId(seen, c.p, at) = c.n
                /\ doc' = [seen EXCEPT ![at] = doc'[at]] ]_vars

(* The content of a section holds deeper headings only: whatever a call      *)
(* appends to a section or puts in place of its text, no other section of    *)
(* its level begins there (section-ops-core.ts, "body content must only      *)
(* contain DEEPER (child) headings").                                       *)
ContentStaysInside ==
    [][ LET c == call' IN
        Accepted /\ c.op \in {"replace", "append"} /\ c.n # 0 =>
            \A i \in HeadsIn(doc') :
                doc'[i] \in Range(c.c) \ Range(doc) => doc'[i].level > Level(doc, c.n) ]_vars

(* A section is moved with its heading, body and children: under the anchor  *)
(* for "child_start" and at the end of the text too                         *)
(* (doc-move-section.ts, "place it as a child of the anchor").              *)
MovedIsChild ==
    [][ LET c == call' IN
        Accepted /\ c.op = "move" /\ c.n # 0 /\ c.m # 0 /\ AsChild(c.p) =>
            \E k \in HeadsIn(doc') : /\ Parents(doc')[k] # Root
                                    /\ Title(doc', k) = Title(doc, c.n)
                                    /\ Title(doc', Parents(doc')[k]) = Title(doc, c.m) ]_vars

(* Generating the table of contents replaces the table of contents: what is  *)
(* lost is its heading and its list, never other text (doc-generate-toc.ts,  *)
(* "If a TOC already exists, it is replaced in place").                      *)
TocKeepsText ==
    [][ Accepted /\ call'.op = "toc" =>
            \A b \in Range(doc) : b \in Range(doc') \union Range(TocBlocks) ]_vars
=============================================================================
