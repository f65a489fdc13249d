------------------------------- MODULE DocLines -------------------------------
(***************************************************************************)
(* The write tools of en-scribe on a plain text: line arithmetic             *)
(* (line-utils.ts), literal search (text-find.ts) and the edits made with     *)
(* them.  A text is a sequence of characters, Newline one of them; places    *)
(* are counted from 1 here and from 0 in the code.                          *)
(***************************************************************************)
EXTENDS Integers, SequencesExt

CONSTANTS Letters,       \* the characters that are no newline
          Spaces,        \* those that are no word characters
          MaxLength,     \* bound on the length of a text
          Snippets,      \* texts a caller may look for or send
          MaxEdits       \* bound on the number of edits

VARIABLES text, before, edit, edits

vars == <<text, before, edit, edits>>

Newline == "\n"
Chars   == Letters \union {Newline}
Breaks(t) == {i \in DOMAIN t : t[i] = Newline}

-----------------------------------------------------------------------------
(* Lines.  A newline at the end belongs to the line it ends.                *)

CountLines(t) == IF t = <<>> THEN 0 ELSE 1 + Cardinality(Breaks(t) \ {Len(t)})

LineOf(t, i) == 1 + Cardinality({b \in Breaks(t) : b < i})

OffsetToLine(t, i) == Min({LineOf(t, i), Max({1, CountLines(t)})})

(* The first place on line l or later, or the end of the text.              *)
LineToOffset(t, l) == Min({i \in DOMAIN t : LineOf(t, i) >= l} \union {Len(t) + 1})

(* validateRange and readLineRange.                                         *)
RangeAllowed(t, from, to) == from >= 1 /\ to >= from /\ from <= CountLines(t)
ReadLineRange(t, from, to) ==
    SubSeq(t, LineToOffset(t, from), LineToOffset(t, to + 1) - 1)

(* replaceLineRange: to = from - 1 inserts before line `from`, wherever.     *)
ReplaceAllowed(t, from, to) == from >= 1 /\ (to = from - 1 \/ RangeAllowed(t, from, to))

ReplaceLineRange(t, from, to, c) ==
    SubSeq(t, 1, LineToOffset(t, from) - 1) \o c \o SubSeq(t, LineToOffset(t, to + 1), Len(t))

-----------------------------------------------------------------------------
(* findText.                                                                *)

At(t, q, i)       == SubSeq(t, i, i + Len(q) - 1) = q
WordChar(t, i)    == i \in DOMAIN t /\ t[i] \notin Spaces \union {Newline}
OnBoundary(t, i, n) == ~WordChar(t, i - 1) /\ ~WordChar(t, i + n)

(* Whether q is found at place i, and where the search goes on after it.     *)
Hit(t, q, i, whole)       == At(t, q, i) /\ (whole => OnBoundary(t, i, Len(q)))
NextPlace(t, q, i, whole) == IF Hit(t, q, i, whole) THEN i + Len(q) ELSE i + 1

FindText(t, q, whole) ==
    LET found[i \in 1..(Len(t) + 1)] ==
            IF i + Len(q) > Len(t) + 1 THEN <<>>
            ELSE (IF Hit(t, q, i, whole) THEN <<i>> ELSE <<>>)
                     \o found[NextPlace(t, q, i, whole)]
    IN  IF q = <<>> THEN <<>> ELSE found[1]

-----------------------------------------------------------------------------
(* The tools.                                                               *)

Write(e, t) ==
    /\ edits < MaxEdits
    /\ Len(t) <= MaxLength
    /\ text' = t /\ before' = text /\ edit' = e /\ edits' = edits + 1

NoEdit == [op |-> "none"]

(* text_edit: the one match is replaced.                                    *)
TextEdit ==
    \E q, c \in Snippets :
        LET found == FindText(text, q, FALSE) IN
        /\ q # <<>> /\ Len(found) = 1
        /\ Write([op |-> "edit", at |-> found[1], q |-> q],
                 SubSeq(text, 1, found[1] - 1) \o c \o SubSeq(text, found[1] + Len(q), Len(text)))

TextAppend == \E c \in Snippets : Write([op |-> "append"], text \o c)

TextReplaceRange ==
    \E from \in 1..(MaxLength + 1), to \in 0..MaxLength, c \in Snippets :
        /\ ReplaceAllowed(text, from, to)
        /\ Write([op |-> "replace", from |-> from, to |-> to, c |-> c],
                 ReplaceLineRange(text, from, to, c))

(* Fault to detect: "after" the anchor line is before it.                   *)
AnchorLine_Same(line, position) == line

(* The line before which text_insert_at_anchor inserts.                     *)
AnchorLine(line, position) == IF position = "before" THEN line ELSE line + 1

(* text_insert_at_anchor.                                                   *)
TextInsertAtAnchor ==
    \E q, c \in Snippets, position \in {"before", "after"} :
        LET found == FindText(text, q, FALSE)
            line  == OffsetToLine(text, found[1])
            here  == AnchorLine(line, position)
        IN  /\ q # <<>> /\ Len(found) = 1
            /\ Write([op |-> "insert", line |-> line, after |-> position = "after", c |-> c],
                     ReplaceLineRange(text, here, here - 1, c))

Init ==
    /\ text \in UNION {[1..n -> Chars] : n \in 0..(MaxLength - 1)}
    /\ before = <<>> /\ edit = NoEdit /\ edits = 0

Next == TextEdit \/ TextAppend \/ TextReplaceRange \/ TextInsertAtAnchor

Idle == text = <<>> /\ before = <<>> /\ edit = NoEdit /\ edits = MaxEdits

-----------------------------------------------------------------------------
(* Properties.                                                              *)

(* The lines of a text, each with its newline.                              *)
Lines(t) == [l \in 1..CountLines(t) |-> ReadLineRange(t, l, l)]
Joined(lines) == FlattenSeq(lines)

(* Reading line by line gives the text, no line but the last lacks its       *)
(* newline, none has two, and line numbers and offsets translate into each   *)
(* other (line-utils.ts: a trailing newline is no line of its own).          *)
LinesAreTheText ==
    /\ Joined(Lines(text)) = text
    /\ \A l \in 1..CountLines(text) :
        LET line == Lines(text)[l] IN
        /\ line # <<>>
        /\ Breaks(line) \subseteq {Len(line)}
        /\ l < CountLines(text) => Breaks(line) # {}
    /\ \A i \in DOMAIN text :
        LET l == OffsetToLine(text, i) IN
        LineToOffset(text, l) <= i /\ i < LineToOffset(text, l + 1)

(* text_find shows every place: matches do not overlap, and an occurrence    *)
(* that is not shown overlaps one that is (or is no whole word).             *)
FindsEveryPlace ==
    \A q \in Snippets \ {<<>>}, whole \in BOOLEAN :
        LET found == FindText(text, q, whole)
            all   == {i \in DOMAIN text : /\ i + Len(q) <= Len(text) + 1 /\ At(text, q, i)
                                          /\ whole => OnBoundary(text, i, Len(q))}
        IN  /\ \A j \in 1..(Len(found) - 1) : found[j] + Len(q) <= found[j + 1]
            /\ \A i \in all : \E j \in DOMAIN found : i \in found[j]..(found[j] + Len(q) - 1)

EndsLine(t) == t # <<>> /\ Last(t) = Newline

(* An edit of lines changes those lines: the lines before and after the      *)
(* range come out unchanged, and what is inserted at an anchor stands on     *)
(* lines of its own beside a whole anchor line, if the caller ends it with a *)
(* newline and the anchor line has one (text-insert-at-anchor.ts).          *)
OtherLinesStay ==
    LET old == Lines(before) IN
    /\ edit.op = "replace" =>
        text = Joined(SubSeq(old, 1, Min({edit.from - 1, Len(old)}))) \o edit.c
                 \o Joined(SubSeq(old, edit.to + 1, Len(old)))
    /\ edit.op = "insert" /\ EndsLine(edit.c)
         /\ (edit.after => EndsLine(old[edit.line])) =>
        LET here == IF edit.after THEN edit.line ELSE edit.line - 1 IN
        Lines(text) = SubSeq(old, 1, here) \o Lines(edit.c) \o SubSeq(old, here + 1, Len(old))
=============================================================================
