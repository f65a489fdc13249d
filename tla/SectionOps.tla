----------------------------- MODULE SectionOps -----------------------------
(***************************************************************************)
(* The section operations of section-ops-core.ts with the markdown          *)
(* strategy: for each, when it refuses, and the document it returns.  d is  *)
(* a document, n the node an address resolved to, c caller content (blocks). *)
(***************************************************************************)
EXTENDS Sections, FiniteSetsExt

(* Headings written as a line of text with a line of = or - under it.  The   *)
(* parser makes sections of them like of the others, while what the strategy *)
(* reads in a caller's content is lines that start with '#': AtxIn.          *)
CONSTANT Underlined

ASSUME UnderlinedAssumption == \A b \in Underlined : b \in Block /\ b.level \in 1..2

AtxIn(c)   == {i \in HeadsIn(c) : c[i] \notin Underlined}
AtxOnly(c) == \A i \in DOMAIN c : c[i] \notin Underlined

IdsIn(d) == {d[i].id : i \in HeadsIn(d)} \ {NoId}

(* Fault to detect: ids in use are given again.                             *)
FreshId_First(t, taken) == <<t, 1>>

(* uniqueSlug(slugify(t)): the slug itself, or with the first free number.  *)
FreshId(t, taken) ==
    <<t, Min({k \in 1..(Cardinality(taken) + 1) : <<t, k>> \notin taken})>>

(* Fault to detect: the headings of the content do not count.               *)
NoBreaking_Unchecked(c, l) == TRUE

(* checkForBreakingHeadings passes: every '#' heading of c is deeper than l. *)
NoBreaking(c, l) == \A i \in AtxIn(c) : c[i].level > l

(* hasChildHeadings.                                                        *)
HasDeeper(c, l) == \E i \in AtxIn(c) : c[i].level > l

(* Where a replacement c of node n ends: content with child headings        *)
(* replaces the children too.                                               *)
ReplaceEnd(d, n, c) ==
    IF HasDeeper(c, Level(d, n)) THEN SectionEnd(d, n) ELSE BodyEnd(d, n)

(* stripDuplicateHeading: the first '#' heading of c, if it has the title t. *)
FirstHead(c)     == Min(AtxIn(c) \union {Len(c) + 1})
Repeats(c, t)    == FirstHead(c) <= Len(c) /\ c[FirstHead(c)].text = t
Stripped(c, t)   == IF Repeats(c, t) THEN RemoveAt(c, FirstHead(c)) ELSE c

-----------------------------------------------------------------------------
(* replaceSection, the heading kept.                                        *)
BodyAllowed(d, n, c) ==
    Level(d, n) > 0 => NoBreaking(Stripped(c, Title(d, n)), Level(d, n))

ReplaceBody(d, n, c) ==
    LET new == Stripped(c, Title(d, n)) IN
    Slice(d, 1, BodyStart(d, n)) \o new
        \o Slice(d, ReplaceEnd(d, n, new), Len(d) + 1)

(* preserveAnchorInContent: the first heading of c takes over n's anchor,   *)
(* unless it carries one.                                                   *)
WithAnchorOf(d, n, c) ==
    IF FirstHead(c) <= Len(c) /\ n # 0 /\ c[FirstHead(c)].id = NoId
    THEN [c EXCEPT ![FirstHead(c)].id = d[n].id] ELSE c

StartsWithHash(c) == c # <<>> /\ (1 \in AtxIn(c) \/ c[1].text = Hashtag)

(* replaceSection with replace_heading: c brings its own heading.  Content   *)
(* that does not start with '#' keeps the old one.                          *)
ReplaceWhole(d, n, c) ==
    IF StartsWithHash(c)
    THEN Slice(d, 1, Start(d, n)) \o WithAnchorOf(d, n, c)
            \o Slice(d, ReplaceEnd(d, n, Tail(c)), Len(d) + 1)
    ELSE Slice(d, 1, BodyStart(d, n)) \o c
            \o Slice(d, ReplaceEnd(d, n, c), Len(d) + 1)

(* renameSection: a heading line, and no sibling with the new text.         *)
RenameAllowed(d, n, t) ==
    /\ n # 0
    /\ \A m \in Siblings(d, n) \ {n} : Title(d, m) # t

(* Fault to detect: the anchor is not carried across.                       *)
RenameHeading_DropsAnchor(d, n, t, id) == [d EXCEPT ![n] = Heading(@.level, t, id)]

(* preserveAnchor: an anchor written into the new heading wins.             *)
RenameHeading(d, n, t, id) ==
    [d EXCEPT ![n] = Heading(@.level, t, IF id = NoId THEN @.id ELSE id)]

(* appendToSection.                                                         *)
AppendAllowed(d, n, c) == Level(d, n) > 0 => NoBreaking(c, Level(d, n))
AppendBody(d, n, c) ==
    Slice(d, 1, BodyEnd(d, n)) \o c \o Slice(d, BodyEnd(d, n), Len(d) + 1)

(* setValue on markdown: a leaf, whose body is replaced.                    *)
SetValueAllowed(d, n, c) == Children(d, n) = {} /\ BodyAllowed(d, n, c)

(* deleteSection.                                                           *)
DeleteNode(d, n) ==
    Slice(d, 1, Start(d, n)) \o Slice(d, SectionEnd(d, n), Len(d) + 1)

-----------------------------------------------------------------------------
(* insertSection and moveSection.                                           *)

Positions  == {"before", "after", "child_start", "child_end"}
AsChild(p) == p \in {"child_start", "child_end"}

(* Fault to detect: "after" means after the text, not after the section.    *)
InsertAtPos_BodyOnly(d, n, p) ==
    CASE p = "before"      -> Start(d, n)
      [] p = "child_start" -> BodyStart(d, n)
      [] OTHER             -> BodyEnd(d, n)

InsertAtPos(d, n, p) ==
    CASE p = "before"      -> Start(d, n)
      [] p = "child_start" -> BodyStart(d, n)
      [] OTHER             -> SectionEnd(d, n)

DestLevel(d, n, p) == Level(d, n) + (IF AsChild(p) THEN 1 ELSE 0)

(* The siblings a section has at the destination.                           *)
DestSiblings(d, n, p) == IF AsChild(p) THEN Children(d, n) ELSE Siblings(d, n)

(* The heading takes over the anchor of its copy in the content, if free.   *)
KeepsId(d, t, c) == Repeats(c, t) /\ c[FirstHead(c)].id \notin IdsIn(d) \union {NoId}

(* No sibling has the title; with an anchor in it the title is not compared. *)
InsertAllowed(d, n, p, t, c) ==
    KeepsId(d, t, c) \/ \A m \in DestSiblings(d, n, p) : Title(d, m) # t

(* withFreshAnchor.                                                         *)
NewId(d, t, c) == IF KeepsId(d, t, c) THEN c[FirstHead(c)].id ELSE FreshId(t, IdsIn(d))

(* l = 0 when the caller gives no level.                                    *)
InsertNode(d, n, p, t, c, l) ==
    LET at  == InsertAtPos(d, n, p)
        lev == IF l = 0 THEN DestLevel(d, n, p) ELSE l
    IN  Slice(d, 1, at) \o <<Rendered(lev, t, NewId(d, t, c))>> \o Stripped(c, t)
            \o Slice(d, at, Len(d) + 1)

MoveDelta(d, n, m, p) == DestLevel(d, m, p) - Level(d, n)

Moved(d, n) == Slice(d, Start(d, n), SectionEnd(d, n))

(* adjustHeadingLevels refuses a level outside 1..6.                        *)
MoveAllowed(d, n, m, p) ==
    /\ n \notin Range(Chain(d, m))
    /\ \A k \in DestSiblings(d, m, p) \ {n} : Title(d, k) # Title(d, n)
    /\ \A i \in HeadsIn(Moved(d, n)) :
            Moved(d, n)[i].level + MoveDelta(d, n, m, p) \in 1..6

Shifted(s, delta) ==
    [i \in DOMAIN s |-> IF s[i].level = 0 THEN s[i]
                        ELSE [s[i] EXCEPT !.level = @ + delta]]

(* Whether the moved text runs on from the line before it, as it brings no   *)
(* newline: bodyStartOffset is the end of the heading line, before its       *)
(* newline, and a text may lack the newline at its end.                     *)
Gluings(d, n, m, p) ==
    CASE p = "child_start" /\ m # 0 -> {TRUE}
      [] p # "child_start" /\ InsertAtPos(d, m, p) = Len(d) + 1
            /\ SectionEnd(d, n) <= Len(d) -> BOOLEAN
      [] OTHER -> {FALSE}

(* The two lines become one: of heading b, whose anchor is lost in the middle *)
(* of it, or of the text b, where `first` is no heading any more and its      *)
(* anchor is a word.                                                        *)
Glued(b, first) ==
    IF b.level > 0
    THEN Heading(b.level, b.text \o <<"+">> \o first.text, first.id)
    ELSE Body(b.text \o <<"+">> \o first.text
                \o (IF first.id = NoId THEN <<>> ELSE <<"^">>))

(* The blocks s put into d before position `at`.                            *)
Spliced(d, at, s, glue) ==
    IF glue /\ s # <<>>
    THEN Slice(d, 1, at - 1) \o <<Glued(d[at - 1], s[1])>> \o Tail(s)
            \o Slice(d, at, Len(d) + 1)
    ELSE Slice(d, 1, at) \o s \o Slice(d, at, Len(d) + 1)

MoveNode(d, n, m, p, glue) ==
    LET at   == InsertAtPos(d, m, p)
        size == Len(Moved(d, n))
        text == Shifted(Moved(d, n), MoveDelta(d, n, m, p))
    IN  IF Start(d, n) < at
        THEN Spliced(DeleteNode(d, n), at - size, text, glue)
        ELSE LET e == Spliced(Slice(d, 1, Start(d, n)), at, text, glue)
             IN  e \o Slice(d, SectionEnd(d, n), Len(d) + 1)

-----------------------------------------------------------------------------
(* Operations on the text of the document, blind to its sections.           *)

(* assignAnchors: every heading without an anchor gets a fresh one, in       *)
(* order; those present are reserved first.                                 *)
AssignIds(d) ==
    LET done[i \in 0..Len(d)] ==
            IF i = 0 THEN d
            ELSE IF d[i].level = 0 \/ d[i].id # NoId THEN done[i - 1]
            ELSE [done[i - 1] EXCEPT ![i].id =
                     FreshId(d[i].text, IdsIn(d) \union IdsIn(done[i - 1]))]
    IN  done[Len(d)]

(* doc_generate_toc.  An existing TOC is found by its heading line, which    *)
(* must end there (no anchor), and reaches to the next h1 or h2.  Lines end   *)
(* with a newline, which the last one lacks when the text is `open`.        *)
TocBlocks  == <<Heading(2, TocTitle, NoId), Body(TocList)>>
TocHeads(d, open) == {i \in HeadsIn(d) : /\ d[i].level > 1
                                         /\ d[i].text = TocTitle /\ d[i].id = NoId
                                         /\ ~(open /\ i = Len(d))}
TocEnd(d, i) == Min({j \in HeadsIn(d) : j > i /\ d[j].level <= 2} \union {Len(d) + 1})

TocPlace(d, top, open) ==
    LET line == IF AtxIn(d) = {} THEN 1 ELSE FirstHead(d) IN
    IF top \/ d = <<>> \/ (open /\ line = Len(d)) THEN 1 ELSE line + 1

GenerateToc(d, top, open) ==
    IF TocHeads(d, open) # {}
    THEN LET i == Min(TocHeads(d, open))
         IN  Slice(d, 1, i + 1) \o <<Body(TocList)>> \o Slice(d, TocEnd(d, i), Len(d) + 1)
    ELSE LET at == TocPlace(d, top, open)
         IN  Slice(d, 1, at) \o TocBlocks \o Slice(d, at, Len(d) + 1)

(* findReplace: the matches of a word are numbered from 0 in document order. *)
Matches(d, w)    == {i \in DOMAIN d : Contains(d[i].text, w)}
MatchId(d, w, i) == Cardinality({j \in Matches(d, w) : j < i})

FindReplace(d, w, v, ids) ==
    [i \in DOMAIN d |->
        IF i \in Matches(d, w) /\ MatchId(d, w, i) \in ids
        THEN [d[i] EXCEPT !.text = [j \in DOMAIN @ |-> IF @[j] = w THEN v ELSE @[j]]]
        ELSE d[i]]

(* insertText: the anchor is one word that occurs once; its block is split   *)
(* there and the rest of it, anchor token included, becomes a paragraph.     *)
Occurrences(d, w) == {o \in UNION {{i} \X DOMAIN d[i].text : i \in DOMAIN d} :
                         d[o[1]].text[o[2]] = w}
SplitAt(b, k) ==
    LET first == Heading(b.level, SubSeq(b.text, 1, k), NoId)
        rest  == Body(SubSeq(b.text, k + 1, Len(b.text))
                        \o (IF b.id = NoId THEN <<>> ELSE <<"^">>))
    IN  <<IF first.level = 0 /\ first.text = <<>> THEN <<>> ELSE <<first>>,
          IF rest.text = <<>> THEN <<>> ELSE <<rest>>>>

InsertText(d, w, after, c) ==
    LET o == CHOOSE q \in Occurrences(d, w) : TRUE
        s == SplitAt(d[o[1]], IF after THEN o[2] ELSE o[2] - 1)
    IN  Slice(d, 1, o[1]) \o s[1] \o c \o s[2] \o Slice(d, o[1] + 1, Len(d) + 1)
=============================================================================
