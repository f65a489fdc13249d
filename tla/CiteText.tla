------------------------------ MODULE CiteText ------------------------------
(***************************************************************************)
(* The text work of doc_cite: is a quote in a source, and where does a       *)
(* reference line go.  Source texts and quotes are sequences of letters, a   *)
(* document is the sequence of its lines.  Blank lines are left out: the     *)
(* code only trims them before it adds its own.                             *)
(***************************************************************************)
EXTENDS Integers, SequencesExt

CONSTANTS Digits,      \* the letters [0-9]
          WordChars,   \* the letters [A-Za-z_]
          Blanks,      \* white space
          Stripped,    \* zero-width characters the fallback drops
          Fold,        \* other letters |-> the plain letter the fallback compares
          CiteHeading  \* citation.section_heading, in lower case

-----------------------------------------------------------------------------
(* verifyQuote.                                                             *)

Occurrences(text, quote) ==
    {i \in 1..(Len(text) - Len(quote) + 1) : SubSeq(text, i, i + Len(quote) - 1) = quote}

LetterAt(text, i) == IF i \in DOMAIN text THEN text[i] ELSE ""

(* The match at i ends or begins in the middle of a run of the letters cs.   *)
CutsRun(cs, text, i, quote) ==
    \/ Last(quote) \in cs /\ LetterAt(text, i + Len(quote)) \in cs
    \/ Head(quote) \in cs /\ LetterAt(text, i - 1) \in cs

FoldLetter(ch) == IF ch \in DOMAIN Fold THEN Fold[ch] ELSE ch

NormaliseForFallback(text) ==
    LET kept == SelectSeq(text, LAMBDA ch : ch \notin Stripped) IN
    FoldLeft(LAMBDA seen, ch :
                IF ch \notin Blanks THEN Append(seen, FoldLetter(ch))
                ELSE IF seen # <<>> /\ Last(seen) = " " THEN seen
                ELSE Append(seen, " "),
             <<>>, kept)

(* Only the first match is looked at.                                       *)
VerifyQuote(text, quote) ==
    LET found == Occurrences(text, quote)
        first == CHOOSE i \in found : \A j \in found : i <= j
        plain == NormaliseForFallback(quote)
        alike == plain # <<>> /\ Occurrences(NormaliseForFallback(text), plain) # {}
    IN  IF found = {} THEN IF alike THEN "formatting_difference" ELSE "not_found"
        ELSE IF CutsRun(Digits, text, first, quote) THEN "numeric_truncation"
        ELSE IF CutsRun(WordChars, text, first, quote) THEN "boundary_warning"
        ELSE "verified"

Warnings == {"numeric_truncation", "boundary_warning", "formatting_difference"}

-----------------------------------------------------------------------------
(* buildCitationAppend.  A line is a heading, [level, title, anchored] with   *)
(* the title in lower case and whether a `^id` anchor follows it, or a text  *)
(* or reference line, whose level is 0.                                     *)

(* buildHeadingRegex: the line ends after the title, so a heading with an    *)
(* anchor is not found.                                                     *)
CiteHeadings(lines) ==
    {i \in DOMAIN lines : /\ lines[i].level > 0 /\ lines[i].title = CiteHeading
                          /\ ~lines[i].anchored}

(* findNextHeadingOfLevelOrHigher: the first line after the section of i.    *)
SectionEnd(lines, i) ==
    LET ends == {j \in i + 1..Len(lines) : lines[j].level \in 1..lines[i].level}
    IN  IF ends = {} THEN Len(lines) + 1 ELSE CHOOSE j \in ends : \A k \in ends : j <= k

BuildCitationAppend(lines, reference) ==
    LET sections == CiteHeadings(lines)
        first    == CHOOSE i \in sections : \A j \in sections : i <= j
    IN  IF sections = {}
        THEN lines \o <<[level |-> 2, title |-> CiteHeading, anchored |-> FALSE], reference>>
        ELSE InsertAt(lines, SectionEnd(lines, first), reference)

(* validate finds no duplicate siblings; to the parser an anchor is no part  *)
(* of a title.                                                              *)
Above(lines, i) == {j \in 1..i - 1 : lines[j].level \in 1..lines[i].level - 1}
Valid(lines) ==
    \A i, j \in {k \in DOMAIN lines : lines[k].level > 0} :
        i # j /\ lines[i].title = lines[j].title
            => Max(Above(lines, i) \union {0}) # Max(Above(lines, j) \union {0})
=============================================================================
