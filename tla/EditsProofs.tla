----------------------------- MODULE EditsProofs -----------------------------
(***************************************************************************)
(* What every edit of a document keeps, for all documents, contents, tables  *)
(* and texts (Edits): the section tree is the nesting of the headings, its   *)
(* addresses resolve, anchors and other sections stay, and what was written  *)
(* reads back; the rows that are not picked stay, and a batch is its calls;  *)
(* lines outside an edit stay, and a search finds every place.              *)
(***************************************************************************)
EXTENDS Edits, SectionsProofs

LEMMA TypeIdle == DocIdle => TypeOK
  <1> SUFFICES ASSUME DocIdle PROVE TypeOK OBVIOUS
  <1>1. <<>> \in Seq(Block) OBVIOUS
  <1>2. doc \in Seq(Block) /\ seen \in Seq(Block) BY <1>1 DEF DocIdle
  <1>3. calls \in 0..MaxCalls BY DocAssumption DEF DocIdle, DocAssumption
  <1>4. call.ok \in BOOLEAN BY DEF DocIdle, Plain, Call
  <1> QED BY <1>2, <1>3, <1>4 DEF TypeOK

(* The documents stay sequences of blocks, whichever way they are edited.    *)
THEOREM EditsAreTyped == EditsSpec => []TypeOK
  <1>1. EditsInit => TypeOK BY TypeHoldsFirst, TypeIdle DEF EditsInit
  <1>2. TypeOK /\ [EditsNext]_<<vars, tableVars, lineVars>> => TypeOK'
    <2> SUFFICES ASSUME TypeOK, [EditsNext]_<<vars, tableVars, lineVars>> PROVE TypeOK'
        OBVIOUS
    <2>1. CASE Next BY <2>1, StepIs
    <2>2. CASE UNCHANGED vars BY <2>2 DEF vars, TypeOK
    <2> QED BY <2>1, <2>2 DEF EditsNext
  <1> QED BY <1>1, <1>2, PTL DEF EditsSpec

(* One step of the edits, for the calls on a document: the others make none. *)
LEMMA DocStepIs ==
    TypeOK /\ [EditsNext]_<<vars, tableVars, lineVars>>
        => \/ UNCHANGED vars
           \/ Accepted => Sound(doc, doc', call')
  <1> SUFFICES ASSUME TypeOK, [EditsNext]_<<vars, tableVars, lineVars>>, ~UNCHANGED vars
               PROVE  Accepted => Sound(doc, doc', call')
      OBVIOUS
  <1>1. Next BY DEF EditsNext
  <1> QED BY <1>1, StepIs

(* An anchor goes on naming its section: whatever tool is called on whatever *)
(* document, the anchors outside what it takes away are still there, and so  *)
(* is that of a section replaced by content that brings none                *)
(* (preserveAnchor, preserveAnchorInContent).                               *)
THEOREM AnchorsAlwaysStay == EditsSpec => AnchorsStay
  <1> DEFINE Step == LET c == call' IN
          Accepted /\ c.op \notin {"batch", "toc", "insert_text"}
                   /\ ~c.glued =>
              /\ \A i \in HeadsIn(doc) \ MayLose(doc, c) :
                    doc[i].id \in IdsIn(doc') \union {NoId}
              /\ c.op = "whole" /\ c.n # 0 /\ (StartsWithHash(c.c) => TakesAnchor(c.c))
                   => doc[c.n].id \in IdsIn(doc') \union {NoId}
  <1>1. TypeOK /\ [EditsNext]_<<vars, tableVars, lineVars>> => [Step]_vars
    <2> SUFFICES ASSUME TypeOK, [EditsNext]_<<vars, tableVars, lineVars>>, ~UNCHANGED vars, Accepted
                 PROVE  Step
        OBVIOUS
    <2>1. Sound(doc, doc', call') BY DocStepIs
    <2>2. PICK c, e : c = call' /\ e = doc' OBVIOUS
    <2>3. Sound(doc, e, c) BY <2>1, <2>2
    <2>4. /\ c.op \notin {"batch", "toc", "insert_text"} /\ ~c.glued
               => Keeps(doc, e, MayLose(doc, c))
          /\ c.op = "whole" /\ c.n # 0 /\ (StartsWithHash(c.c) => TakesAnchor(c.c))
               => doc[c.n].id \in IdsIn(e) \union {NoId}
        BY <2>3, Zenon DEF Sound
    <2> QED BY <2>2, <2>4, Zenon DEF Keeps
  <1>2. EditsSpec => [][Step]_vars BY <1>1, EditsAreTyped, PTL DEF EditsSpec
  <1> QED BY <1>2 DEF AnchorsStay

(* What the tools make up is free: a document without an anchor twice, and a *)
(* call that writes none, give a document without an anchor twice, whatever  *)
(* the tool (withFreshAnchor, assignAnchors, moveSection).                   *)
THEOREM FreshAnchorsAreAlwaysFree == EditsSpec => FreshAnchorsAreFree
  <1> DEFINE Step == Accepted /\ call'.op # "reanchor" /\ IdsIn(call'.c) = {} /\ UniqueIds(doc)
                        => UniqueIds(doc')
  <1>1. TypeOK /\ [EditsNext]_<<vars, tableVars, lineVars>> => [Step]_vars
    <2> SUFFICES ASSUME TypeOK, [EditsNext]_<<vars, tableVars, lineVars>>, ~UNCHANGED vars, Accepted
                 PROVE  Step
        OBVIOUS
    <2>1. Sound(doc, doc', call') BY DocStepIs
    <2>2. PICK c, e : c = call' /\ e = doc' OBVIOUS
    <2>3. Sound(doc, e, c) BY <2>1, <2>2
    <2>4. c.op # "reanchor" /\ IdsIn(c.c) = {} /\ UniqueIds(doc) => UniqueIds(e)
        BY <2>3, Zenon DEF Sound
    <2>5. UniqueIds(e) => UniqueIds(doc') BY <2>2
    <2> QED BY <2>2, <2>4, <2>5, Zenon
  <1>2. EditsSpec => [][Step]_vars BY <1>1, EditsAreTyped, PTL DEF EditsSpec
  <1> QED BY <1>2 DEF FreshAnchorsAreFree

(* A call whose text stays inside the place it names changes nothing else:   *)
(* every other block is still there, in its order, and under the same        *)
(* headings, so the addresses of other sections stay good                   *)
(* (section-ops-core.ts).                                                   *)
THEOREM OthersAlwaysStayPut == EditsSpec => OthersStayPut
  <1> DEFINE Step == Accepted /\ Contained(doc, call') =>
                        Others(doc, Removed(doc, call')) = Others(doc', Added(doc, call'))
  <1>1. TypeOK /\ [EditsNext]_<<vars, tableVars, lineVars>> => [Step]_vars
    <2> SUFFICES ASSUME TypeOK, [EditsNext]_<<vars, tableVars, lineVars>>, ~UNCHANGED vars, Accepted
                 PROVE  Step
        OBVIOUS
    <2>1. Sound(doc, doc', call') BY DocStepIs
    <2>2. PICK c, e : c = call' /\ e = doc' OBVIOUS
    <2>3. Sound(doc, e, c) BY <2>1, <2>2
    <2>4. Contained(doc, c) => Others(doc, Removed(doc, c)) = Others(e, Added(doc, c))
        BY <2>3, Zenon DEF Sound, Local
    <2>5. Others(e, Added(doc, c)) = Others(doc', Added(doc, c)) BY <2>2
    <2> QED BY <2>2, <2>4, <2>5, Zenon
  <1>2. EditsSpec => [][Step]_vars BY <1>1, EditsAreTyped, PTL DEF EditsSpec
  <1> QED BY <1>2 DEF OthersStayPut

(* What a call wrote reads back as one section where it was put: a replaced  *)
(* body, an inserted section, a section that was moved (section-ops-core.ts, *)
(* doc-move-section.ts).                                                    *)
THEOREM WrittenAlwaysReadsBack == EditsSpec => WrittenReadsBack
  <1> DEFINE Step == Accepted /\ Contained(doc, call') => ReadsBack(doc, doc', call')
  <1>1. TypeOK /\ [EditsNext]_<<vars, tableVars, lineVars>> => [Step]_vars
    <2> SUFFICES ASSUME TypeOK, [EditsNext]_<<vars, tableVars, lineVars>>, ~UNCHANGED vars, Accepted
                 PROVE  Step
        OBVIOUS
    <2>1. Sound(doc, doc', call') BY DocStepIs
    <2>2. PICK c, e : c = call' /\ e = doc' OBVIOUS
    <2>3. Sound(doc, e, c) BY <2>1, <2>2
    <2>4. Contained(doc, c) => ReadsBack(doc, e, c) BY <2>3, Zenon DEF Sound, Local
    <2>5. ReadsBack(doc, e, c) = ReadsBack(doc, doc', c) BY <2>2
    <2> QED BY <2>2, <2>4, <2>5, Zenon
  <1>2. EditsSpec => [][Step]_vars BY <1>1, EditsAreTyped, PTL DEF EditsSpec
  <1> QED BY <1>2 DEF WrittenReadsBack

(* In every document that edits can lead to, the tree the parser builds is   *)
(* the nesting of the headings, and a section reaches to the next heading    *)
(* that is not deeper (markdown-parser.ts).                                 *)
THEOREM SectionsAlwaysNest == EditsSpec => []SectionsNest
  <1>1. TypeOK => SectionsNest
    <2> SUFFICES ASSUME TypeOK PROVE SectionsNest OBVIOUS
    <2>1. Nested(doc) BY TreeIsNesting DEF TypeOK
    <2> QED BY <2>1 DEF Nested, SectionsNest
  <1> QED BY <1>1, EditsAreTyped, PTL

(* In every such document, the index path an ambiguity error offers for a    *)
(* section resolves to that section alone (section-tree.ts,                 *)
(* describeMatchForDisambiguation).                                         *)
THEOREM IndexPathsAlwaysResolve == EditsSpec => []IndexPathsResolve
  <1>1. TypeOK => IndexPathsResolve
        BY IndexPathResolves DEF TypeOK, IndexPathsResolve
  <1> QED BY <1>1, EditsAreTyped, PTL
-----------------------------------------------------------------------------
(* WHAT WAS PREVIEWED.                                                      *)

(* The members of A before one of them are one fewer than those up to it.    *)
LEMMA CountBelow ==
    ASSUME NEW n \in Nat, NEW A \in SUBSET (1..n), NEW a \in A
    PROVE  Cardinality({b \in A : b < a}) = Rank(A, a) - 1
<1>1. \A b \in A : b \in Int
  OBVIOUS
<1>2. UpTo(A, a) \ {a} = {b \in A : b < a}
  <2>1. \A b \in A : (b <= a /\ b # a) <=> b < a
    BY <1>1
  <2> QED
    BY <2>1, Zenon DEF UpTo
<1>3. a \in UpTo(A, a)
  BY <1>1 DEF UpTo
<1>4. IsFiniteSet(UpTo(A, a))
  BY CountingIs, Zenon
<1> QED
  BY <1>2, <1>3, <1>4, FS_RemoveElement, Zenon DEF Rank

(* Every number below that of the matches is that of a match.               *)
LEMMA MatchExists ==
    ASSUME NEW d \in Seq(Block), NEW w, NEW k \in Nat, k < Cardinality(Matches(d, w))
    PROVE  \E at \in Matches(d, w) : MatchId(d, w, at) = k
<1>1. PICK n \in Nat : n = Len(d) /\ DOMAIN d = 1..n
  OBVIOUS
<1>2. PICK A \in SUBSET (1..n) : A = Matches(d, w)
  BY <1>1, Zenon DEF Matches
<1>3. Cardinality(A) \in Nat
  BY CountingIs, Zenon
<1>4. k < Cardinality(A)
  BY <1>2, Zenon
<1>5. k + 1 \in 1..Cardinality(A)
  BY <1>3, <1>4
<1>6. PICK at \in A : Rank(A, at) = k + 1
  BY <1>5, NthIs, Zenon
<1>7. Cardinality({b \in A : b < at}) = (k + 1) - 1
  BY <1>6, CountBelow, Zenon
<1>8. MatchId(d, w, at) = (k + 1) - 1
  BY <1>2, <1>7, Zenon DEF MatchId
<1>9. MatchId(d, w, at) = k
  BY <1>8
<1> QED
  BY <1>2, <1>9, Zenon

(* No two matches have the same number.                                     *)
LEMMA MatchIsOne ==
    ASSUME NEW d \in Seq(Block), NEW w, NEW i \in Matches(d, w), NEW j \in Matches(d, w),
           MatchId(d, w, i) = MatchId(d, w, j)
    PROVE  i = j
<1>1. PICK n \in Nat : n = Len(d) /\ DOMAIN d = 1..n
  OBVIOUS
<1>2. PICK A \in SUBSET (1..n) : A = Matches(d, w)
  BY <1>1, Zenon DEF Matches
<1>3. i \in A /\ j \in A
  BY <1>2, Zenon
<1>4. Rank(A, i) \in Nat /\ Rank(A, j) \in Nat
  BY CountingIs, Zenon
<1>5. Rank(A, i) - 1 = Rank(A, j) - 1
  BY <1>2, <1>3, CountBelow, Zenon DEF MatchId
<1>6. Rank(A, i) = Rank(A, j)
  BY <1>4, <1>5
<1> QED
  BY <1>3, <1>6, NthIs, Zenon

(* The call that is answered is the one that was made, or was refused.       *)
LEMMA AnyAnswerIs ==
    ASSUME NEW b, IsCall(b), NEW d, NEW a, NEW ok, Accepted,
           ExecuteWrite(b, a, d) \/ Answer(b, ok, d)
    PROVE  call'.op = b.op
<1>1. PICK good, e : Answer(b, good, e)
  BY Zenon DEF ExecuteWrite
<1>2. PICK asked : asked = [b EXCEPT !.ok = TRUE]
  OBVIOUS
<1>3. asked.op = b.op
  BY <1>2 DEF IsCall
<1>4. Plain("refused").ok = FALSE
  BY DEF Call, Plain
<1>5. call' = asked \/ call' = Plain("refused")
  BY <1>1, <1>2 DEF Answer
<1> QED
  BY <1>3, <1>4, <1>5 DEF Accepted

LEMMA AnswersIts ==
    ASSUME NEW op, NEW n, NEW m, NEW p, NEW t, NEW c, NEW d, NEW a, NEW ok, Accepted,
           \/ ExecuteWrite(Call(op, n, m, p, t, c), a, d)
           \/ Answer(Call(op, n, m, p, t, c), ok, d)
    PROVE  call'.op = op
<1>1. PICK b : b = Call(op, n, m, p, t, c) /\ b.op = op
  BY DEF Call
<1> QED
  BY <1>1, AnyAnswerIs, CallIsCall

LEMMA OnlyFindReplace ==
    ASSUME TypeOK, Next, Accepted, call'.op = "find_replace"
    PROVE  DocFindReplace
<1>1. CASE DocReplaceSection
  BY <1>1, AnswersIts DEF DocReplaceSection, Edit
<1>2. CASE DocInsertSection
  BY <1>2, AnswersIts DEF DocInsertSection, Edit
<1>3. CASE DocInsertAtLevel
  BY <1>3, AnswersIts DEF DocInsertAtLevel
<1>4. CASE DocAppendSection
  BY <1>4, AnswersIts DEF DocAppendSection, Edit
<1>5. CASE DocDeleteSection
  BY <1>5, AnswersIts DEF DocDeleteSection, Edit
<1>6. CASE DocMoveSection
  <2>1. PICK c \in MoveCalls(doc) : Edit(c)
    BY <1>6 DEF DocMoveSection
  <2>2. IsCall(c) /\ c.op = "move"
    BY MoveCallIs
  <2> QED
    BY <2>1, <2>2, AnyAnswerIs DEF Edit
<1>7. CASE DocRenameSection
  BY <1>7, AnswersIts DEF DocRenameSection, Edit
<1>8. CASE DocReanchorSection
  BY <1>8, AnswersIts DEF DocReanchorSection
<1>9. CASE DocSetValue
  BY <1>9, AnswersIts DEF DocSetValue
<1>10. CASE DocBatch
  BY <1>10, AnswersIts DEF DocBatch
<1>11. CASE DocAssignIds
  BY <1>11, AnswersIts DEF DocAssignIds, Plain
<1>12. CASE DocGenerateToc
  BY <1>12, AnswersIts DEF DocGenerateToc, Plain
<1>13. CASE DocFindPreview
  BY <1>13 DEF DocFindPreview, Accepted, TypeOK
<1>14. CASE DocInsertText
  BY <1>14, AnswersIts DEF DocInsertText
<1> QED
  BY <1>1, <1>2, <1>3, <1>4, <1>5, <1>6, <1>7, <1>8, <1>9, <1>10, <1>11, <1>12, <1>13, <1>14
     DEF Next

(* A match id means the match the client was shown: find_replace with the    *)
(* preview's etag changes that one block of the document the client saw, or  *)
(* nothing.                                                                 *)
THEOREM PreviewsAreApplied == EditsSpec => AppliedAsPreviewed
<1> DEFINE Shown == LET c == call' IN
        Accepted /\ c.op = "find_replace" =>
            \E at \in Matches(seen, c.p) :
                /\ MatchId(seen, c.p, at) = c.n
                /\ doc' = [seen EXCEPT ![at] = doc'[at]]
<1>1. ASSUME TypeOK, [EditsNext]_<<vars, tableVars, lineVars>>
      PROVE  [Shown]_vars
  <2>1. SUFFICES ASSUME Next, Accepted, call'.op = "find_replace"
        PROVE  \E at \in Matches(seen, call'.p) :
                   /\ MatchId(seen, call'.p, at) = call'.n
                   /\ doc' = [seen EXCEPT ![at] = doc'[at]]
    BY <1>1, Zenon DEF EditsNext, vars
  <2>2. DocFindReplace
    BY <1>1, <2>1, OnlyFindReplace, Zenon
  <2>3. PICK w \in Words, t \in Titles, k \in 0..1 :
            /\ k < Cardinality(Matches(seen, w))
            /\ ExecuteWrite(Call("find_replace", k, 0, w, t, <<>>), TRUE,
                            FindReplace(doc, w, t[1], {k}))
    BY <2>2, Zenon DEF DocFindReplace
  <2>4. PICK c : c = Call("find_replace", k, 0, w, t, <<>>)
    OBVIOUS
  <2>5. c.op = "find_replace" /\ c.p = w /\ c.n = k
    BY <2>4 DEF Call
  <2>6. PICK asked : asked = [c EXCEPT !.ok = TRUE]
    OBVIOUS
  <2>7. asked.p = w /\ asked.n = k
    BY <2>4, <2>6 DEF Call
  <2>8. PICK new : new = FindReplace(doc, w, t[1], {k})
    OBVIOUS
  <2>9. /\ call' = IF EtagOk(c) /\ Valid(new) THEN asked ELSE Plain("refused")
        /\ doc' = IF EtagOk(c) /\ Valid(new) THEN new ELSE doc
    BY <2>3, <2>4, <2>6, <2>8 DEF ExecuteWrite, Answer
  <2>10. Plain("refused").ok = FALSE
    BY DEF Call, Plain
  <2>11. call' = asked /\ doc' = new /\ EtagOk(c)
    BY <2>1, <2>9, <2>10 DEF Accepted
  <2>12. seen = doc
    BY <2>5, <2>11, Zenon DEF EtagOk
  <2>13. PICK d \in Seq(Block) : d = seen
    BY <1>1, Zenon DEF TypeOK
  <2>14. PICK at \in Matches(d, w) : MatchId(d, w, at) = k
    BY <2>3, <2>13, MatchExists
  <2>15. new = FindReplace(d, w, t[1], {k})
    BY <2>8, <2>12, <2>13, Zenon
  <2>16. DOMAIN new = DOMAIN d /\ at \in DOMAIN d
    BY <2>14, <2>15, Zenon DEF FindReplace, Matches
  <2>17. ASSUME NEW i \in DOMAIN d, i # at
         PROVE  new[i] = d[i]
    <3>1. ~(i \in Matches(d, w) /\ MatchId(d, w, i) \in {k})
      BY <2>14, <2>17, MatchIsOne, Zenon
    <3> QED
      BY <2>15, <2>17, <3>1, Zenon DEF FindReplace
  <2>18. new = [d EXCEPT ![at] = new[at]]
    <3>1. new = [i \in DOMAIN d |-> new[i]]
      BY <2>15 DEF FindReplace
    <3> QED
      BY <2>16, <2>17, <3>1
  <2> QED
    BY <2>7, <2>11, <2>13, <2>14, <2>18
<1> QED
  BY <1>1, EditsAreTyped, PTL DEF EditsSpec, AppliedAsPreviewed

-----------------------------------------------------------------------------
(* THE ITEMS OF A LIST AT SOME PLACES.                                      *)

(* The items of q at the places of A, in their order.                       *)
Listed(q, A) == [k \in 1..Cardinality(A) |-> q[Nth(A, k)]]

LEMMA ListedIs ==
    ASSUME NEW S, NEW q \in Seq(S), NEW A \in SUBSET (1..Len(q))
    PROVE  /\ Listed(q, A) \in Seq(S) /\ Len(Listed(q, A)) = Cardinality(A)
           /\ \A k \in 1..Cardinality(A) :
                    /\ Listed(q, A)[k] = q[Nth(A, k)]
                    /\ Nth(A, k) \in A /\ Rank(A, Nth(A, k)) = k
           /\ \A i \in A : Rank(A, i) \in 1..Cardinality(A) /\ Nth(A, Rank(A, i)) = i
<1>1. Len(q) \in Nat
  OBVIOUS
<1>2. /\ Cardinality(A) \in Nat
      /\ \A k \in 1..Cardinality(A) : Nth(A, k) \in A /\ Rank(A, Nth(A, k)) = k
      /\ \A i \in A : Nth(A, Rank(A, i)) = i
  BY <1>1, CountingIs, NthIs, Zenon
<1>3. \A i \in A : Rank(A, i) \in 1..Cardinality(A)
  BY <1>1, RankIn, Zenon
<1>4. \A i \in A : q[i] \in S
  OBVIOUS
<1>5. \A k \in 1..Cardinality(A) : q[Nth(A, k)] \in S
  BY <1>2, <1>4
<1> QED
  BY <1>2, <1>3, <1>5 DEF Listed

LEMMA RemoveAtItems ==
    ASSUME NEW S, NEW q \in Seq(S), NEW i \in 1..Len(q)
    PROVE  /\ RemoveAt(q, i) \in Seq(S) /\ Len(RemoveAt(q, i)) = Len(q) - 1
           /\ \A k \in 1..(Len(q) - 1) : RemoveAt(q, i)[k] = IF k < i THEN q[k] ELSE q[k + 1]
<1>1. Len(q) \in Nat
  OBVIOUS
<1> DEFINE a == SubSeq(q, 1, i - 1)
           b == SubSeq(q, i + 1, Len(q))
<1>2. a \in Seq(S) /\ Len(a) = i - 1 /\ \A k \in 1..(i - 1) : a[k] = q[k]
  BY <1>1
<1>3. b \in Seq(S) /\ Len(b) = Len(q) - i /\ \A k \in 1..(Len(q) - i) : b[k] = q[i + k]
  BY <1>1
<1>4. RemoveAt(q, i) = a \o b
  BY DEF RemoveAt
<1> HIDE DEF a, b
<1>5. a \o b \in Seq(S) /\ Len(a \o b) = Len(q) - 1
  <2>1. a \o b \in Seq(S) /\ Len(a \o b) = Len(a) + Len(b)
    BY <1>2, <1>3, ConcatProperties, Zenon
  <2> QED
    BY <1>1, <1>2, <1>3, <2>1
<1>6. ASSUME NEW k \in 1..(Len(q) - 1)
      PROVE  (a \o b)[k] = IF k < i THEN q[k] ELSE q[k + 1]
  BY <1>1, <1>2, <1>3
<1> QED
  BY <1>4, <1>5, <1>6

(* All of them.                                                             *)
LEMMA ListedAll ==
    ASSUME NEW S, NEW q \in Seq(S)
    PROVE  Listed(q, 1..Len(q)) = q
<1> DEFINE A == 1..Len(q)
<1>1. Len(q) \in Nat /\ A \in SUBSET (1..Len(q)) /\ Cardinality(A) = Len(q)
  <2>1. Len(q) \in Nat
    OBVIOUS
  <2> QED
    BY <2>1, FS_Interval, SMTT(40)
<1>2. \A i \in A : Rank(A, i) = i
  <2> SUFFICES ASSUME NEW i \in A PROVE Rank(A, i) = i
    OBVIOUS
  <2>1. Len(q) \in 0..Len(q) /\ 1..Len(q) \subseteq A
    BY <1>1
  <2> QED
    BY <1>1, <2>1, RankOfFull
<1> HIDE DEF A
<1>3. /\ Listed(q, A) \in Seq(S) /\ Len(Listed(q, A)) = Len(q)
      /\ \A k \in 1..Len(q) : Listed(q, A)[k] = q[Nth(A, k)]
      /\ \A k \in A : Nth(A, Rank(A, k)) = k
  BY <1>1, ListedIs
<1>4. \A k \in 1..Len(q) : Listed(q, A)[k] = q[k]
  BY <1>2, <1>3 DEF A
<1>5. Listed(q, A) = q
  BY <1>3, <1>4, SeqEqual
<1> QED
  BY <1>5 DEF A

(* The last of them at the end.                                             *)
LEMMA ListedAppend ==
    ASSUME NEW S, NEW q \in Seq(S), NEW A \in SUBSET (1..Len(q)),
           NEW m \in A, \A i \in A : i <= m
    PROVE  Listed(q, A) = Append(Listed(q, A \ {m}), q[m])
<1> DEFINE B == A \ {m}
           r == Append(Listed(q, B), q[m])
<1>1. Len(q) \in Nat /\ B \in SUBSET (1..Len(q)) /\ B \in SUBSET A /\ q[m] \in S
  OBVIOUS
<1>2. /\ Rank(A, m) = Cardinality(A) /\ Cardinality(B) = Cardinality(A) - 1
      /\ \A i \in B : Rank(B, i) = Rank(A, i)
  BY <1>1, RankWithoutTop
<1> HIDE DEF B
<1>3. /\ Listed(q, A) \in Seq(S) /\ Len(Listed(q, A)) = Cardinality(A)
      /\ \A k \in 1..Cardinality(A) : Listed(q, A)[k] = q[Nth(A, k)]
      /\ \A i \in A : Rank(A, i) \in 1..Cardinality(A) /\ Nth(A, Rank(A, i)) = i
  BY ListedIs
<1>4. /\ Listed(q, B) \in Seq(S) /\ Len(Listed(q, B)) = Cardinality(B)
      /\ \A k \in 1..Cardinality(B) : /\ Listed(q, B)[k] = q[Nth(B, k)]
                                      /\ Nth(B, k) \in B /\ Rank(B, Nth(B, k)) = k
  BY <1>1, ListedIs
<1>5. Cardinality(A) \in Nat
  BY <1>3
<1>6. r \in Seq(S) /\ Len(r) = Cardinality(A)
  BY <1>1, <1>2, <1>4, <1>5
<1>7. ASSUME NEW k \in 1..Cardinality(A)
      PROVE  Listed(q, A)[k] = r[k]
  <2>1. CASE k = Cardinality(A)
    <3>1. Listed(q, A)[k] = q[m]
      BY <1>2, <1>3, <2>1
    <3> QED
      BY <1>2, <1>4, <1>5, <2>1, <3>1
  <2>2. CASE k # Cardinality(A)
    <3>1. k \in 1..Cardinality(B)
      BY <1>2, <1>5, <2>2
    <3>2. Nth(A, k) = Nth(B, k)
      BY <1>1, <1>2, <1>3, <1>4, <3>1
    <3>3. r[k] = Listed(q, B)[k]
      BY <1>1, <1>4, <3>1
    <3> QED
      BY <1>3, <1>4, <3>1, <3>2, <3>3
  <2> QED
    BY <2>1, <2>2
<1> HIDE DEF r
<1>8. Listed(q, A) = r
  BY <1>3, <1>6, <1>7, SeqEqual
<1> QED
  BY <1>8 DEF r, B

(* Taking one out that nothing is missing before.                           *)
LEMMA ListedWithout ==
    ASSUME NEW S, NEW q \in Seq(S), NEW A \in SUBSET (1..Len(q)),
           NEW m \in A, 1..m \subseteq A
    PROVE  Listed(q, A \ {m}) = RemoveAt(Listed(q, A), m)
<1> DEFINE B == A \ {m}
           a == Listed(q, A)
           b == Listed(q, B)
           r == RemoveAt(a, m)
<1>1. Len(q) \in Nat /\ B \in SUBSET (1..Len(q)) /\ B \in SUBSET A /\ m \in 1..Len(q)
      /\ \A i \in A : i \in Int /\ i >= 1
  OBVIOUS
<1>2. /\ Cardinality(B) = Cardinality(A) - 1
      /\ \A i \in B : Rank(B, i) = IF i < m THEN Rank(A, i) ELSE Rank(A, i) - 1
  BY <1>1, RankWithout
<1>3. \A i \in 1..m : Rank(A, i) = i
  <2> SUFFICES ASSUME NEW i \in 1..m PROVE Rank(A, i) = i
    OBVIOUS
  <2>1. m \in 0..Len(q)
    BY <1>1
  <2> QED
    BY <1>1, <2>1, RankOfFull
<1>4. \A i \in A : i > m => Rank(A, i) > m
  <2> SUFFICES ASSUME NEW i \in A, i > m PROVE Rank(A, i) > m
    OBVIOUS
  <2>1. Rank(A, m) < Rank(A, i)
    BY <1>1, RankGrows
  <2>2. Rank(A, m) = m
    BY <1>1, <1>3
  <2> QED
    BY <2>1, <2>2
<1> HIDE DEF B
<1>5. /\ a \in Seq(S) /\ Len(a) = Cardinality(A)
      /\ \A k \in 1..Cardinality(A) : a[k] = q[Nth(A, k)]
      /\ \A i \in A : Rank(A, i) \in 1..Cardinality(A) /\ Nth(A, Rank(A, i)) = i
  BY ListedIs
<1>6. /\ b \in Seq(S) /\ Len(b) = Cardinality(B)
      /\ \A k \in 1..Cardinality(B) : /\ b[k] = q[Nth(B, k)]
                                      /\ Nth(B, k) \in B /\ Rank(B, Nth(B, k)) = k
  BY <1>1, ListedIs
<1>7. Cardinality(A) \in Nat /\ m \in 1..Cardinality(A)
  <2>1. Rank(A, m) = m
    BY <1>1, <1>3
  <2> QED
    BY <1>5, <2>1
<1> HIDE DEF a, b
<1>8. /\ r \in Seq(S) /\ Len(r) = Cardinality(A) - 1
      /\ \A k \in 1..(Cardinality(A) - 1) : r[k] = IF k < m THEN a[k] ELSE a[k + 1]
  BY <1>5, <1>7, RemoveAtItems, SMTT(40)
<1> HIDE DEF r
<1>9. ASSUME NEW k \in 1..(Cardinality(A) - 1)
      PROVE  b[k] = r[k]
  <2> DEFINE i == Nth(B, k)
  <2>1. k \in 1..Cardinality(B)
    BY <1>2
  <2>2. i \in B /\ i \in A /\ i # m /\ i \in Int /\ i >= 1 /\ Rank(B, i) = k /\ b[k] = q[i]
    BY <1>1, <1>6, <2>1 DEF B
  <2> HIDE DEF i
  <2>3. CASE i < m
    <3>1. i \in 1..m
      BY <1>1, <2>2, <2>3
    <3>2. Rank(A, i) = k /\ k = i
      BY <1>2, <1>3, <2>2, <2>3, <3>1
    <3>3. Nth(A, k) = i /\ k \in 1..Cardinality(A)
      BY <1>5, <2>2, <3>2
    <3> QED
      BY <1>5, <1>8, <2>2, <2>3, <3>2, <3>3
  <2>4. CASE i > m
    <3>1. Rank(A, i) = k + 1 /\ Rank(A, i) > m
      BY <1>1, <1>2, <1>4, <1>5, <2>2, <2>4
    <3>2. Nth(A, k + 1) = i /\ k + 1 \in 1..Cardinality(A)
      BY <1>5, <2>2, <3>1
    <3> QED
      BY <1>1, <1>5, <1>8, <2>2, <3>1, <3>2
  <2> QED
    BY <1>1, <2>2, <2>3, <2>4
<1>10. b = r
  BY <1>2, <1>6, <1>8, <1>9, SeqEqual
<1> QED
  BY <1>10 DEF a, b, r, B

(* Two lists with the same items at A.                                       *)
LEMMA ListedSame ==
    ASSUME NEW S, NEW q \in Seq(S), NEW p \in Seq(S),
           NEW A \in SUBSET (1..Len(q)), A \in SUBSET (1..Len(p)), \A i \in A : q[i] = p[i]
    PROVE  Listed(q, A) = Listed(p, A)
<1>1. \A k \in 1..Cardinality(A) : Nth(A, k) \in A
  BY ListedIs
<1>2. \A k \in 1..Cardinality(A) : q[Nth(A, k)] = p[Nth(A, k)]
  BY <1>1
<1> QED
  BY <1>2 DEF Listed

(* The same items moved to other places, in the same order.                 *)
LEMMA ListedMoved ==
    ASSUME NEW S, NEW q \in Seq(S), NEW p \in Seq(S), Len(p) = Len(q) + 1,
           NEW A \in SUBSET (1..Len(q)), NEW h \in [A -> 1..(Len(q) + 1)],
           \A i, j \in A : i < j => h[i] < h[j], \A i \in A : p[h[i]] = q[i]
    PROVE  Listed(p, {h[i] : i \in A}) = Listed(q, A)
<1> DEFINE B == {h[i] : i \in A}
<1>1. Len(q) \in Nat
  OBVIOUS
<1>2. /\ B \in SUBSET (1..(Len(q) + 1)) /\ Cardinality(B) = Cardinality(A)
      /\ \A i \in A : h[i] \in B /\ Rank(B, h[i]) = Rank(A, i)
  <2>1. /\ B \in SUBSET (1..(Len(q) + 1)) /\ Cardinality(B) = Cardinality(A)
        /\ \A i \in A : Rank(B, h[i]) = Rank(A, i)
    BY <1>1, RankMoved
  <2> QED
    BY <2>1
<1> HIDE DEF B
<1>3. \A k \in 1..Cardinality(A) : Nth(A, k) \in A /\ Rank(A, Nth(A, k)) = k
  BY ListedIs
<1>4. \A i \in B : Nth(B, Rank(B, i)) = i
  <2>1. B \in SUBSET (1..Len(p))
    BY <1>2
  <2> QED
    BY <2>1, ListedIs, ZenonT(40)
<1>5. ASSUME NEW k \in 1..Cardinality(A)
      PROVE  p[Nth(B, k)] = q[Nth(A, k)]
  BY <1>2, <1>3, <1>4
<1>6. Listed(p, B) = Listed(q, A)
  BY <1>2, <1>5 DEF Listed
<1> QED
  BY <1>6 DEF B

-----------------------------------------------------------------------------
(* TABLES.                                                                  *)

(* What DocTables takes from the libraries is what they define.             *)
LEMMA RowsUse ==
    /\ \A s : Rows!Max(s) = Max(s) /\ Rows!Min(s) = Min(s)
    /\ \A s : Rows!Cardinality(s) = Cardinality(s)
    /\ \A s, i : Rows!RemoveAt(s, i) = RemoveAt(s, i)
    /\ \A s, i, e : Rows!InsertAt(s, i, e) = InsertAt(s, i, e)
    /\ \A s : Rows!Front(s) = Front(s) /\ Rows!Last(s) = Last(s)
<1>1. \A s : Rows!Max(s) = Max(s) /\ Rows!Min(s) = Min(s)
  BY Zenon DEF Rows!Max, Max, Rows!Min, Min
<1>2. \A s : Rows!Cardinality(s) = Cardinality(s)
  BY Zenon DEF Rows!Cardinality, Cardinality, Rows!IsFiniteSet, IsFiniteSet
<1>3. \A s, i : Rows!RemoveAt(s, i) = RemoveAt(s, i)
  BY Zenon DEF Rows!RemoveAt, RemoveAt
<1>4. \A s, i, e : Rows!InsertAt(s, i, e) = InsertAt(s, i, e)
  BY Zenon DEF Rows!InsertAt, InsertAt
<1>5. \A s : Rows!Front(s) = Front(s) /\ Rows!Last(s) = Last(s)
  BY Zenon DEF Rows!Front, Front, Rows!Last, Last
<1> QED
  BY <1>1, <1>2, <1>3, <1>4, <1>5

(* Kept lists the rows it is asked for.                                     *)
LEMMA KeptIs ==
    ASSUME NEW S, NEW q \in Seq(S), NEW A \in SUBSET (1..Len(q))
    PROVE  Rows!Kept(q, A) = Listed(q, A)
<1> DEFINE Eq(f) == f = [s \in SUBSET A |-> IF s = {} THEN <<>>
                                            ELSE Append(f[s \ {Rows!Max(s)}], q[Rows!Max(s)])]
           iter == CHOOSE f : Eq(f)
<1>1. Rows!Kept(q, A) = iter[A]
  BY Zenon DEF Rows!Kept, Rows!MapThenFoldSet
<1>2. Len(q) \in Nat /\ IsFiniteSet(A)
  <2>1. Len(q) \in Nat
    OBVIOUS
  <2> QED
    BY <2>1, CountingIs
<1>3. ASSUME NEW s \in SUBSET A, s # {}
      PROVE  /\ Max(s) \in s /\ Cardinality(s \ {Max(s)}) = Cardinality(s) - 1
             /\ Cardinality(s) \in Nat /\ s \ {Max(s)} \in SUBSET A
             /\ Listed(q, s) = Append(Listed(q, s \ {Max(s)}), q[Max(s)])
  <2>1. s \in SUBSET (1..Len(q))
    OBVIOUS
  <2>2. Max(s) \in s /\ \A i \in s : i <= Max(s)
    BY <1>2, <1>3, <2>1, MaxExists, Zenon
  <2>3. IsFiniteSet(s) /\ Cardinality(s) \in Nat
    BY <1>2, <2>1, CountingIs
  <2> DEFINE m == Max(s)
  <2>4. m \in s /\ \A i \in s : i <= m
    BY <2>2
  <2> HIDE DEF m
  <2>5. Cardinality(s \ {m}) = Cardinality(s) - 1 /\ s \ {m} \in SUBSET A
    BY <2>3, <2>4, FS_RemoveElement
  <2>6. Listed(q, s) = Append(Listed(q, s \ {m}), q[m])
    BY <2>1, <2>4, ListedAppend
  <2> QED
    BY <2>3, <2>4, <2>5, <2>6 DEF m
<1>4. Listed(q, {}) = <<>>
  BY FS_EmptySet DEF Listed
<1>5. Eq([s \in SUBSET A |-> Listed(q, s)])
  <2> DEFINE g == [s \in SUBSET A |-> Listed(q, s)]
  <2>1. ASSUME NEW s \in SUBSET A
        PROVE  g[s] = IF s = {} THEN <<>> ELSE Append(g[s \ {Rows!Max(s)}], q[Rows!Max(s)])
    BY <1>3, <1>4, RowsUse
  <2> QED
    BY <2>1
<1>6. Eq(iter)
  <2> HIDE DEF Eq
  <2> QED
    BY <1>5, Zenon
<1> HIDE DEF iter
<1>7. \A s \in SUBSET A : iter[s] = IF s = {} THEN <<>> ELSE Append(iter[s \ {Max(s)}], q[Max(s)])
  BY <1>6, RowsUse, Zenon
<1> HIDE DEF Eq
<1> DEFINE T == {k \in Nat : \A s \in SUBSET A : Cardinality(s) = k => iter[s] = Listed(q, s)}
<1>8. 0 \in T
  <2> SUFFICES ASSUME NEW s \in SUBSET A, Cardinality(s) = 0 PROVE iter[s] = Listed(q, s)
    OBVIOUS
  <2>1. s = {}
    BY <1>2, FS_Subset, FS_EmptySet
  <2> QED
    BY <1>4, <1>7, <2>1
<1>9. ASSUME NEW k \in Nat, k \in T
      PROVE  k + 1 \in T
  <2> SUFFICES ASSUME NEW s \in SUBSET A, Cardinality(s) = k + 1 PROVE iter[s] = Listed(q, s)
    OBVIOUS
  <2>1. s # {}
    <3>1. Cardinality({}) = 0
      BY FS_EmptySet, Zenon
    <3>2. k + 1 # 0
      OBVIOUS
    <3> QED
      BY <3>1, <3>2, Zenon
  <2> DEFINE r == s \ {Max(s)}
  <2>2. /\ Cardinality(r) = Cardinality(s) - 1 /\ r \in SUBSET A
        /\ Listed(q, s) = Append(Listed(q, r), q[Max(s)])
    BY <1>3, <2>1
  <2>3. iter[s] = Append(iter[r], q[Max(s)])
    BY <1>7, <2>1
  <2> HIDE DEF r
  <2>4. Cardinality(r) = k
    BY <2>2
  <2>5. iter[r] = Listed(q, r)
    BY <1>9, <2>2, <2>4
  <2> QED
    BY <2>2, <2>3, <2>5
<1> HIDE DEF T
<1>10. Cardinality(A) \in T
  BY <1>2, <1>8, <1>9, SetInduction, FS_CardinalityType
<1> QED
  BY <1>1, <1>10 DEF T

(* Deleting rows from the bottom up leaves the others, in their order.       *)
LEMMA DeleteRowsIs ==
    ASSUME NEW S, NEW q \in Seq(S), NEW sel \in SUBSET (1..Len(q))
    PROVE  Rows!DeleteRows(q, sel) = Listed(q, (1..Len(q)) \ sel)
<1> DEFINE All == 1..Len(q)
           Eq(f) == f = [s \in SUBSET sel |-> IF s = {} THEN q
                                              ELSE Rows!RemoveAt(f[s \ {Rows!Min(s)}], Rows!Min(s))]
           iter == CHOOSE f : Eq(f)
<1>1. Rows!DeleteRows(q, sel) = iter[sel]
  BY Zenon DEF Rows!DeleteRows, Rows!MapThenFoldSet
<1>2. Len(q) \in Nat /\ IsFiniteSet(sel)
  <2>1. Len(q) \in Nat
    OBVIOUS
  <2> QED
    BY <2>1, CountingIs
<1>3. ASSUME NEW s \in SUBSET sel, s # {}
      PROVE  /\ Cardinality(s \ {Min(s)}) = Cardinality(s) - 1
             /\ Cardinality(s) \in Nat /\ s \ {Min(s)} \in SUBSET sel
             /\ Listed(q, All \ s) = RemoveAt(Listed(q, All \ (s \ {Min(s)})), Min(s))
  <2>1. s \in SUBSET (1..Len(q)) /\ s \in SUBSET Nat
    BY <1>2
  <2> DEFINE m == Min(s)
             A == All \ (s \ {m})
  <2>2. m \in s /\ \A i \in s : m <= i
    BY <1>3, <2>1, MinIs
  <2>3. IsFiniteSet(s) /\ Cardinality(s) \in Nat
    BY <1>2, <2>1, CountingIs
  <2> HIDE DEF m
  <2>4. Cardinality(s \ {m}) = Cardinality(s) - 1 /\ s \ {m} \in SUBSET sel
    BY <2>2, <2>3, FS_RemoveElement
  <2>5. m \in 1..Len(q)
    BY <2>1, <2>2
  <2>6. \A i \in 1..m : i \in A
    <3> SUFFICES ASSUME NEW i \in 1..m PROVE i \in A
      OBVIOUS
    <3>1. i \in 1..Len(q)
      BY <1>2, <2>5
    <3>2. i \notin s \ {m}
      BY <2>1, <2>2, <2>5
    <3> QED
      BY <3>1, <3>2
  <2>7. A \in SUBSET (1..Len(q)) /\ m \in A /\ A \ {m} = All \ s
    BY <2>2, <2>5
  <2> HIDE DEF A
  <2>8. Listed(q, A \ {m}) = RemoveAt(Listed(q, A), m)
    BY <2>6, <2>7, ListedWithout
  <2> HIDE DEF All
  <2> QED
    BY <2>3, <2>4, <2>7, <2>8 DEF m, A
<1>4. Listed(q, All \ {}) = q
  <2>1. All \ {} = 1..Len(q)
    OBVIOUS
  <2> QED
    BY <2>1, ListedAll
<1> HIDE DEF All
<1>5. Eq([s \in SUBSET sel |-> Listed(q, All \ s)])
  <2> DEFINE g == [s \in SUBSET sel |-> Listed(q, All \ s)]
  <2>1. ASSUME NEW s \in SUBSET sel
        PROVE  g[s] = IF s = {} THEN q ELSE Rows!RemoveAt(g[s \ {Rows!Min(s)}], Rows!Min(s))
    BY <1>3, <1>4, RowsUse
  <2> QED
    BY <2>1
<1>6. Eq(iter)
  <2> HIDE DEF Eq
  <2> QED
    BY <1>5, Zenon
<1> HIDE DEF iter
<1>7. \A s \in SUBSET sel : iter[s] = IF s = {} THEN q ELSE RemoveAt(iter[s \ {Min(s)}], Min(s))
  BY <1>6, RowsUse, Zenon
<1> HIDE DEF Eq
<1> DEFINE T == {k \in Nat : \A s \in SUBSET sel :
                                Cardinality(s) = k => iter[s] = Listed(q, All \ s)}
<1>8. 0 \in T
  <2> SUFFICES ASSUME NEW s \in SUBSET sel, Cardinality(s) = 0 PROVE iter[s] = Listed(q, All \ s)
    OBVIOUS
  <2>1. s = {}
    BY <1>2, FS_Subset, FS_EmptySet
  <2> QED
    BY <1>4, <1>7, <2>1
<1>9. ASSUME NEW k \in Nat, k \in T
      PROVE  k + 1 \in T
  <2> SUFFICES ASSUME NEW s \in SUBSET sel, Cardinality(s) = k + 1
               PROVE  iter[s] = Listed(q, All \ s)
    OBVIOUS
  <2>1. s # {}
    <3>1. Cardinality({}) = 0
      BY FS_EmptySet, Zenon
    <3>2. k + 1 # 0
      OBVIOUS
    <3> QED
      BY <3>1, <3>2, Zenon
  <2> DEFINE r == s \ {Min(s)}
  <2>2. /\ Cardinality(r) = Cardinality(s) - 1 /\ r \in SUBSET sel
        /\ Listed(q, All \ s) = RemoveAt(Listed(q, All \ r), Min(s))
    BY <1>3, <2>1
  <2>3. iter[s] = RemoveAt(iter[r], Min(s))
    BY <1>7, <2>1
  <2> HIDE DEF r
  <2>4. Cardinality(r) = k
    BY <2>2
  <2>5. iter[r] = Listed(q, All \ r)
    BY <1>9, <2>2, <2>4
  <2> QED
    BY <2>2, <2>3, <2>5
<1> HIDE DEF T
<1>10. Cardinality(sel) \in T
  BY <1>2, <1>8, <1>9, SetInduction, FS_CardinalityType
<1> QED
  BY <1>1, <1>10 DEF T, All


(* Batches of one operation and of two.                                     *)
LEMMA RunsOne ==
    ASSUME NEW t, NEW op
    PROVE  LET r == Rows!Runs(t, <<op>>) IN
           /\ r.ok <=> Rows!OpAllowed(t, op)
           /\ r.ok => r.t = Rows!ApplyOp(t, op)
<1> DEFINE ops == <<op>>
           Eq(f) == f = [i \in 0..Len(ops) |-> IF i = 0 THEN t ELSE Rows!ApplyOp(f[i - 1], ops[i])]
           after == CHOOSE f : Eq(f)
           fine  == \A i \in DOMAIN ops : Rows!OpAllowed(after[i - 1], ops[i])
<1>1. Rows!Runs(t, ops) = [ok |-> fine, t |-> IF fine THEN after[Len(ops)] ELSE t]
  BY Zenon DEF Rows!Runs
<1>2. Eq([i \in 0..1 |-> IF i = 0 THEN t ELSE Rows!ApplyOp(t, op)])
  OBVIOUS
<1>3. Eq(after)
  <2> HIDE DEF Eq
  <2> QED
    BY <1>2, Zenon
<1> HIDE DEF after
<1>4. after[0] = t /\ after[1] = Rows!ApplyOp(t, op)
  BY <1>3
<1> HIDE DEF Eq
<1>5. fine <=> Rows!OpAllowed(t, op)
  BY <1>4
<1> QED
  BY <1>1, <1>4, <1>5

LEMMA RunsTwo ==
    ASSUME NEW t, NEW one, NEW two
    PROVE  LET r == Rows!Runs(t, <<one, two>>)
               u == Rows!ApplyOp(t, one)
           IN  /\ r.ok <=> Rows!OpAllowed(t, one) /\ Rows!OpAllowed(u, two)
               /\ r.ok => r.t = Rows!ApplyOp(u, two)
<1> DEFINE ops == <<one, two>>
           u == Rows!ApplyOp(t, one)
           Eq(f) == f = [i \in 0..Len(ops) |-> IF i = 0 THEN t ELSE Rows!ApplyOp(f[i - 1], ops[i])]
           after == CHOOSE f : Eq(f)
           fine  == \A i \in DOMAIN ops : Rows!OpAllowed(after[i - 1], ops[i])
<1>1. Rows!Runs(t, ops) = [ok |-> fine, t |-> IF fine THEN after[Len(ops)] ELSE t]
  BY Zenon DEF Rows!Runs
<1>2. Eq([i \in 0..2 |-> IF i = 0 THEN t ELSE IF i = 1 THEN u ELSE Rows!ApplyOp(u, two)])
  OBVIOUS
<1>3. Eq(after)
  <2> HIDE DEF Eq
  <2> QED
    BY <1>2, Zenon
<1> HIDE DEF after
<1>4. after[0] = t /\ after[1] = u /\ after[2] = Rows!ApplyOp(u, two)
  BY <1>3
<1> HIDE DEF Eq
<1>5. fine <=> Rows!OpAllowed(t, one) /\ Rows!OpAllowed(u, two)
  BY <1>4
<1> QED
  BY <1>1, <1>4, <1>5

LEMMA TableParts ==
    /\ \A t \in Rows!Table : /\ t.header \in Seq(DOMAIN Folded) /\ t.outer \in BOOLEAN
                             /\ t.aligned \in BOOLEAN /\ t.rows \in Seq(Rows!TableRow)
                             /\ Rows!Width(t) \in Nat /\ Len(t.rows) \in Nat
                             /\ DOMAIN t.rows = 1..Len(t.rows)
                             /\ \A i \in 1..Len(t.rows) : t.rows[i] \in Rows!TableRow
    /\ \A t \in Rows!Table : \A q : [t EXCEPT !.rows = q]
            = [header |-> t.header, outer |-> t.outer, aligned |-> t.aligned, rows |-> q]
    /\ \A t \in Rows!Table, a \in BOOLEAN, q \in Seq(Rows!TableRow) :
            [header |-> t.header, outer |-> t.outer, aligned |-> a, rows |-> q] \in Rows!Table
<1> HIDE DEF Rows!TableRow
<1>1. \A t \in Rows!Table : /\ t.header \in Seq(DOMAIN Folded) /\ t.outer \in BOOLEAN
                            /\ t.aligned \in BOOLEAN /\ t.rows \in Seq(Rows!TableRow)
  BY DEF Rows!Table
<1>2. \A t \in Rows!Table : /\ Rows!Width(t) \in Nat /\ Len(t.rows) \in Nat
                            /\ DOMAIN t.rows = 1..Len(t.rows)
                            /\ \A i \in 1..Len(t.rows) : t.rows[i] \in Rows!TableRow
  BY <1>1 DEF Rows!Width
<1>3. ASSUME NEW t \in Rows!Table, NEW q
      PROVE  [t EXCEPT !.rows = q]
                = [header |-> t.header, outer |-> t.outer, aligned |-> t.aligned, rows |-> q]
  BY DEF Rows!Table
<1>4. \A t \in Rows!Table, a \in BOOLEAN, q \in Seq(Rows!TableRow) :
            [header |-> t.header, outer |-> t.outer, aligned |-> a, rows |-> q] \in Rows!Table
  BY <1>1 DEF Rows!Table
<1> QED
  BY <1>1, <1>2, <1>3, <1>4

LEMMA RowParts ==
    /\ \A r \in Rows!TableRow : /\ r.cells \in Seq(DOMAIN PlainText) /\ r.line \in Nat
                                /\ r = [cells |-> r.cells, line |-> r.line]
                                /\ \A q : [r EXCEPT !.cells = q] = [cells |-> q, line |-> r.line]
    /\ \A q \in Seq(DOMAIN PlainText), l \in Nat : [cells |-> q, line |-> l] \in Rows!TableRow
<1>1. ASSUME NEW r \in Rows!TableRow, NEW q
      PROVE  [r EXCEPT !.cells = q] = [cells |-> q, line |-> r.line]
  BY DEF Rows!TableRow
<1>2. \A r \in Rows!TableRow : /\ r.cells \in Seq(DOMAIN PlainText) /\ r.line \in Nat
                               /\ r = [cells |-> r.cells, line |-> r.line]
  BY DEF Rows!TableRow
<1>3. \A q \in Seq(DOMAIN PlainText), l \in Nat : [cells |-> q, line |-> l] \in Rows!TableRow
  BY DEF Rows!TableRow
<1> QED
  BY <1>1, <1>2, <1>3

(* The cell of a list of cells.                                             *)
CellAt(cells, c) == IF c \in DOMAIN cells THEN cells[c] ELSE Rows!Empty

(* What a write and the next reading make of the cells of a row.            *)
LEMMA CellsBackIs ==
    ASSUME NEW t, NEW q \in Seq(DOMAIN PlainText)
    PROVE  /\ Rows!CellsBack(t, q) \in Seq(DOMAIN PlainText)
           /\ \A c : CellAt(Rows!CellsBack(t, q), c) = CellAt(q, c)
<1>1. Len(q) \in Nat /\ DOMAIN q = 1..Len(q)
  OBVIOUS
<1>2. CASE Rows!DropsLast(t, q)
  <2>1. Len(q) > 1 /\ q[Len(q)] = Rows!Empty
    BY <1>2 DEF Rows!DropsLast, Rows!Last
  <2>2. Rows!CellsBack(t, q) = SubSeq(q, 1, Len(q) - 1)
    BY <1>2 DEF Rows!CellsBack, Rows!Front
  <2> DEFINE p == SubSeq(q, 1, Len(q) - 1)
  <2>3. /\ p \in Seq(DOMAIN PlainText) /\ DOMAIN p = 1..(Len(q) - 1)
        /\ \A c \in 1..(Len(q) - 1) : p[c] = q[c]
    BY <1>1, <2>1
  <2> HIDE DEF p
  <2>4. ASSUME NEW c PROVE CellAt(p, c) = CellAt(q, c)
    BY <1>1, <2>1, <2>3 DEF CellAt
  <2> QED
    BY <2>2, <2>3, <2>4 DEF p
<1>3. CASE ~Rows!DropsLast(t, q)
  BY <1>3 DEF Rows!CellsBack
<1> QED
  BY <1>2, <1>3

LEMMA FilledIs ==
    ASSUME NEW t \in Rows!Table, NEW q \in Seq(DOMAIN PlainText)
    PROVE  /\ Rows!Filled(t, q) \in Seq(DOMAIN PlainText)
           /\ \A c : CellAt(Rows!Filled(t, q), c) = CellAt(q, c)
<1> DEFINE w == Rows!Width(t)
           more == Len(SubSeq(q, w + 1, Len(q)))
<1>1. w \in Nat /\ Len(q) \in Nat /\ DOMAIN q = 1..Len(q)
  BY TableParts
<1> HIDE DEF w
<1>2. more = IF w < Len(q) THEN Len(q) - w ELSE 0
  BY <1>1
<1> HIDE DEF more
<1>3. Rows!Filled(t, q) = [c \in 1..(w + more) |-> IF c \in DOMAIN q THEN q[c] ELSE Rows!Empty]
  BY DEF Rows!Filled, w, more
<1>4. \A c \in 1..(w + more) : (IF c \in DOMAIN q THEN q[c] ELSE Rows!Empty) \in DOMAIN PlainText
  <2>1. Rows!Empty \in DOMAIN PlainText
    BY EditsAssumption, Zenon DEF EditsAssumption
  <2>2. \A c \in DOMAIN q : q[c] \in DOMAIN PlainText
    OBVIOUS
  <2> QED
    BY <2>1, <2>2
<1>5. w + more \in Nat /\ w + more >= Len(q)
  <2>1. CASE w < Len(q)
    <3>1. more = Len(q) - w
      BY <1>2, <2>1
    <3> QED
      BY <1>1, <2>1, <3>1
  <2>2. CASE ~(w < Len(q))
    <3>1. more = 0
      BY <1>2, <2>2
    <3> QED
      BY <1>1, <2>2, <3>1
  <2> QED
    BY <2>1, <2>2
<1>6. Rows!Filled(t, q) \in Seq(DOMAIN PlainText)
  BY <1>3, <1>4, <1>5
<1>7. ASSUME NEW c PROVE CellAt(Rows!Filled(t, q), c) = CellAt(q, c)
  BY <1>1, <1>3, <1>5 DEF CellAt
<1> QED
  BY <1>6, <1>7

(* Rows and tables that differ in nothing a condition or a record can see.   *)
SameRow(r, s) == r.line = s.line /\ \A c : CellAt(r.cells, c) = CellAt(s.cells, c)
SameTable(t, u) ==
    /\ t.header = u.header /\ t.outer = u.outer /\ Len(t.rows) = Len(u.rows)
    /\ \A i \in 1..Len(t.rows) : SameRow(t.rows[i], u.rows[i])

(* Written and read again, a table is the same.                             *)
LEMMA ReadBackIs ==
    ASSUME NEW t \in Rows!Table, NEW a \in BOOLEAN
    PROVE  Rows!ReadBack(t, a) \in Rows!Table /\ SameTable(Rows!ReadBack(t, a), t)
<1> DEFINE back(row) == IF t.aligned THEN [row EXCEPT !.cells = Rows!CellsBack(t, Rows!Filled(t, @))]
                        ELSE IF row.line = Rows!Edited THEN [row EXCEPT !.cells = Rows!CellsBack(t, @)]
                        ELSE row
           new == [i \in 1..Len(t.rows) |-> back(t.rows[i])]
<1>1. /\ Len(t.rows) \in Nat /\ DOMAIN t.rows = 1..Len(t.rows)
      /\ \A i \in 1..Len(t.rows) : t.rows[i] \in Rows!TableRow
  BY TableParts
<1>2. Rows!ReadBack(t, a) = [header |-> t.header, outer |-> t.outer, aligned |-> a, rows |-> new]
  BY <1>1 DEF Rows!ReadBack
<1>3. ASSUME NEW row \in Rows!TableRow
      PROVE  back(row) \in Rows!TableRow /\ SameRow(back(row), row)
  <2>1. row.cells \in Seq(DOMAIN PlainText) /\ row.line \in Nat
    BY RowParts
  <2>2. PICK q \in Seq(DOMAIN PlainText) :
            back(row) = [cells |-> q, line |-> row.line]
              /\ \A c : CellAt(q, c) = CellAt(row.cells, c)
    <3>1. CASE t.aligned
      <4> DEFINE f == Rows!Filled(t, row.cells)
      <4>1. f \in Seq(DOMAIN PlainText) /\ \A c : CellAt(f, c) = CellAt(row.cells, c)
        BY <2>1, FilledIs
      <4>2. back(row) = [cells |-> Rows!CellsBack(t, f), line |-> row.line]
        BY <3>1, RowParts
      <4> HIDE DEF f, back
      <4>3. /\ Rows!CellsBack(t, f) \in Seq(DOMAIN PlainText)
            /\ \A c : CellAt(Rows!CellsBack(t, f), c) = CellAt(f, c)
        BY <4>1, CellsBackIs
      <4> QED
        BY <4>1, <4>2, <4>3
    <3>2. CASE ~t.aligned /\ row.line = Rows!Edited
      <4>1. back(row) = [cells |-> Rows!CellsBack(t, row.cells), line |-> row.line]
        BY <3>2, RowParts
      <4> HIDE DEF back
      <4>2. /\ Rows!CellsBack(t, row.cells) \in Seq(DOMAIN PlainText)
            /\ \A c : CellAt(Rows!CellsBack(t, row.cells), c) = CellAt(row.cells, c)
        BY <2>1, CellsBackIs
      <4> QED
        BY <4>1, <4>2
    <3>3. CASE ~t.aligned /\ row.line # Rows!Edited
      <4>1. back(row) = [cells |-> row.cells, line |-> row.line]
        BY <3>3, RowParts
      <4> HIDE DEF back
      <4> QED
        BY <2>1, <4>1
    <3> QED
      BY <3>1, <3>2, <3>3
  <2> HIDE DEF back
  <2>3. back(row) \in Rows!TableRow
    BY <2>1, <2>2, RowParts
  <2> QED
    BY <2>2, <2>3 DEF SameRow
<1> HIDE DEF back
<1>4. /\ new \in Seq(Rows!TableRow) /\ Len(new) = Len(t.rows)
      /\ \A i \in 1..Len(t.rows) : SameRow(new[i], t.rows[i])
  <2>1. \A i \in 1..Len(t.rows) : back(t.rows[i]) \in Rows!TableRow /\ SameRow(back(t.rows[i]), t.rows[i])
    BY <1>1, <1>3
  <2> QED
    BY <1>1, <2>1
<1> HIDE DEF new
<1> QED
  BY <1>2, <1>4, TableParts DEF SameTable

LEMMA OpParts ==
    ASSUME NEW op \in Rows!TableOps
    PROVE  /\ op.op \in {"insert", "update", "delete"}
           /\ op.sel = Rows!NoRow \/ op.sel \in Rows!Selectors
           /\ op.op # "delete" => op.record \in Records
           /\ op.op = "insert" => op.position \in {"start", "end", "before", "after"}
           /\ op.op # "insert" => op.sel \in Rows!Selectors
<1>1. CASE op \in Rows!Inserts
  BY <1>1 DEF Rows!Inserts, Rows!Op
<1>2. CASE op \in Rows!Updates
  BY <1>2 DEF Rows!Updates, Rows!Op
<1>3. CASE op \in Rows!Deletes
  BY <1>3 DEF Rows!Deletes, Rows!Op
<1> QED
  BY <1>1, <1>2, <1>3 DEF Rows!TableOps

(* What is selected is in the table.                                        *)
LEMMA SelectedIn ==
    ASSUME NEW t \in Rows!Table, NEW sel, sel = Rows!NoRow \/ sel \in Rows!Selectors,
           Rows!Selectable(t, sel)
    PROVE  Rows!Selected(t, sel) \in SUBSET (1..Len(t.rows))
<1>1. Len(t.rows) \in Nat /\ DOMAIN t.rows = 1..Len(t.rows)
  BY TableParts
<1>2. CASE sel = Rows!NoRow
  BY <1>2 DEF Rows!NoRow, Rows!Selected
<1>3. ASSUME NEW w \in Wheres, sel = Rows!Where(w)
      PROVE  Rows!Selected(t, sel) \in SUBSET (1..Len(t.rows))
  <2>1. sel.by = "where"
    BY <1>3 DEF Rows!Where
  <2>2. Rows!Selected(t, sel) = {i \in DOMAIN t.rows : Rows!Matches(t, t.rows[i], sel.cols)}
    BY <2>1 DEF Rows!Selected
  <2> QED
    BY <1>1, <2>2
<1>4. ASSUME NEW n \in Numbers, sel = Rows!Row(n)
      PROVE  Rows!Selected(t, sel) \in SUBSET (1..Len(t.rows))
  <2>1. sel.by = "row"
    BY <1>4 DEF Rows!Row
  <2>2. sel.n \in (-Len(t.rows))..(Len(t.rows) - 1)
    BY <2>1 DEF Rows!Selectable
  <2>3. Rows!Selected(t, sel) = {(IF sel.n < 0 THEN Len(t.rows) + sel.n ELSE sel.n) + 1}
    BY <2>1 DEF Rows!Selected
  <2> QED
    BY <1>1, <2>2, <2>3
<1> QED
  BY <1>2, <1>3, <1>4 DEF Rows!Selectors

(* p is q with e put in at place i.                                         *)
InsertedAs(p, q, i, e) ==
    /\ Len(p) = Len(q) + 1
    /\ \A k \in 1..(Len(q) + 1) : p[k] = IF k < i THEN q[k] ELSE IF k = i THEN e ELSE q[k - 1]

LEMMA InsertAtItems ==
    ASSUME NEW S, NEW q \in Seq(S), NEW e \in S, NEW i \in 1..(Len(q) + 1)
    PROVE  InsertAt(q, i, e) \in Seq(S) /\ InsertedAs(InsertAt(q, i, e), q, i, e)
<1>1. Len(q) \in Nat
  OBVIOUS
<1> DEFINE a == SubSeq(q, 1, i - 1)
           m == <<e>>
           b == SubSeq(q, i, Len(q))
<1>2. a \in Seq(S) /\ Len(a) = i - 1 /\ \A k \in 1..(i - 1) : a[k] = q[k]
  BY <1>1
<1>3. b \in Seq(S) /\ Len(b) = Len(q) + 1 - i /\ \A k \in 1..(Len(q) + 1 - i) : b[k] = q[i + k - 1]
  BY <1>1
<1>4. m \in Seq(S) /\ Len(m) = 1 /\ m[1] = e
  OBVIOUS
<1>5. InsertAt(q, i, e) = (a \o m) \o b
  BY DEF InsertAt
<1> HIDE DEF a, m, b
<1>6. /\ a \o m \in Seq(S) /\ Len(a \o m) = i
      /\ \A k \in 1..i : (a \o m)[k] = IF k < i THEN q[k] ELSE e
  <2>1. /\ a \o m \in Seq(S) /\ Len(a \o m) = Len(a) + Len(m)
        /\ \A k \in 1..(Len(a) + Len(m)) :
                (a \o m)[k] = IF k <= Len(a) THEN a[k] ELSE m[k - Len(a)]
    BY <1>2, <1>4, ConcatProperties, Zenon
  <2> QED
    BY <1>1, <1>2, <1>4, <2>1
<1> DEFINE c == a \o m
<1>7. c \in Seq(S) /\ Len(c) = i /\ \A k \in 1..i : c[k] = IF k < i THEN q[k] ELSE e
  BY <1>6
<1> HIDE DEF c
<1>8. /\ c \o b \in Seq(S) /\ Len(c \o b) = Len(c) + Len(b)
       /\ \A k \in 1..(Len(c) + Len(b)) :
              (c \o b)[k] = IF k <= Len(c) THEN c[k] ELSE b[k - Len(c)]
  BY <1>3, <1>7, ConcatProperties, Zenon
<1>9. c \o b \in Seq(S) /\ Len(c \o b) = Len(q) + 1
  BY <1>1, <1>3, <1>7, <1>8
<1>10. ASSUME NEW k \in 1..(Len(q) + 1)
      PROVE  (c \o b)[k] = IF k < i THEN q[k] ELSE IF k = i THEN e ELSE q[k - 1]
  <2>1. CASE k <= i
    <3>1. (c \o b)[k] = c[k]
      BY <1>1, <1>3, <1>7, <1>8, <2>1
    <3> QED
      BY <1>1, <1>7, <2>1, <3>1
  <2>2. CASE k > i
    <3>1. (c \o b)[k] = b[k - i]
      BY <1>1, <1>3, <1>7, <1>8, <2>2
    <3>2. k - i \in 1..(Len(q) + 1 - i) /\ i + (k - i) - 1 = k - 1
      BY <1>1, <2>2
    <3> QED
      BY <1>1, <1>3, <2>2, <3>1, <3>2
  <2>3. k <= i \/ k > i
    OBVIOUS
  <2> QED
    BY <2>1, <2>2, <2>3, Zenon
<1> QED
  BY <1>5, <1>9, <1>10 DEF c, InsertedAs

(* A row made of a record.                                                  *)
LEMMA NewRowIs ==
    ASSUME NEW t \in Rows!Table, NEW q \in Seq(DOMAIN PlainText), NEW l, NEW record \in Records
    PROVE  LET r == Rows!NewRow(t, [cells |-> q, line |-> l], record) IN
           r \in Rows!TableRow /\ r.line = Rows!Edited
<1> DEFINE row == [cells |-> q, line |-> l]
<1>1. Rows!Width(t) \in Nat
  BY TableParts
<1>2. Rows!Empty \in DOMAIN PlainText /\ \A name \in DOMAIN record : record[name] \in DOMAIN PlainText
  BY EditsAssumption, Zenon DEF EditsAssumption
<1>3. \A c \in 1..Rows!Width(t) : Rows!Cell(row, c) \in DOMAIN PlainText
  <2>1. \A c \in DOMAIN q : q[c] \in DOMAIN PlainText
    OBVIOUS
  <2> QED
    BY <1>2, <2>1 DEF Rows!Cell
<1> DEFINE of(c) == {name \in DOMAIN record : Rows!Column(t, name) = c}
           cell(c) == IF \E name \in DOMAIN record : Rows!Column(t, name) = c
                      THEN record[CHOOSE name \in DOMAIN record : Rows!Column(t, name) = c]
                      ELSE Rows!Cell(row, c)
<1>4. ASSUME NEW c \in 1..Rows!Width(t)
      PROVE  cell(c) \in DOMAIN PlainText
  <2>1. CASE \E name \in DOMAIN record : Rows!Column(t, name) = c
    <3>1. (CHOOSE name \in DOMAIN record : Rows!Column(t, name) = c) \in DOMAIN record
      BY <2>1, Zenon
    <3> QED
      BY <1>2, <2>1, <3>1
  <2>2. CASE ~\E name \in DOMAIN record : Rows!Column(t, name) = c
    BY <1>3, <2>2
  <2> QED
    BY <2>1, <2>2
<1>5. Rows!CellsOf(t, row, record) = [c \in 1..Rows!Width(t) |-> cell(c)]
  BY Zenon DEF Rows!CellsOf
<1> HIDE DEF cell
<1>6. Rows!CellsOf(t, row, record) \in Seq(DOMAIN PlainText)
  BY <1>1, <1>4, <1>5
<1>7. Rows!Edited \in Nat
  BY DEF Rows!Edited
<1> HIDE DEF row
<1>8. Rows!NewRow(t, row, record) = [cells |-> Rows!CellsOf(t, row, record), line |-> Rows!Edited]
  BY DEF Rows!NewRow
<1> QED
  BY <1>6, <1>7, <1>8, RowParts DEF row

(* What each operation makes of the rows of a table.                        *)
OpDone(t, op) ==
    LET sel  == Rows!Selected(t, op.sel)
        q    == t.rows
        p    == Rows!ApplyOp(t, op).rows
        made == Rows!NewRow(t, Rows!Blank, op.record)
        at   == Rows!InsertPlace(t, op)
    IN  /\ Rows!ApplyOp(t, op) = [header |-> t.header, outer |-> t.outer,
                                  aligned |-> t.aligned, rows |-> p]
        /\ p \in Seq(Rows!TableRow)
        /\ op.op = "insert" => at \in 1..(Len(q) + 1) /\ made \in Rows!TableRow /\ p = InsertAt(q, at, made)
        /\ op.op = "update" =>
              p = [i \in 1..Len(q) |-> IF i \in sel THEN Rows!NewRow(t, q[i], op.record) ELSE q[i]]
        /\ op.op = "delete" => p = Listed(q, (1..Len(q)) \ sel)

LEMMA InsertDone ==
    ASSUME NEW t \in Rows!Table, NEW op \in Rows!TableOps, op.op = "insert", Rows!OpAllowed(t, op)
    PROVE  OpDone(t, op)
<1> DEFINE sel  == Rows!Selected(t, op.sel)
           made == Rows!NewRow(t, Rows!Blank, op.record)
           at   == Rows!InsertPlace(t, op)
<1>1. t.rows \in Seq(Rows!TableRow) /\ Len(t.rows) \in Nat
  BY TableParts
<1>2. Rows!InsertAllowed(t, op)
  BY DEF Rows!OpAllowed
<1>3. sel \in SUBSET (1..Len(t.rows))
  BY <1>2, OpParts, SelectedIn DEF Rows!InsertAllowed
<1>4. at \in 1..(Len(t.rows) + 1)
  <2>1. CASE op.position = "start"
    BY <1>1, <2>1 DEF Rows!InsertPlace
  <2>2. CASE op.position = "end"
    BY <1>1, <2>2 DEF Rows!InsertPlace
  <2>3. CASE op.position \in {"before", "after"}
    <3>1. Rows!Cardinality(sel) = 1
      BY <1>2, <2>3 DEF Rows!InsertAllowed
    <3>2. sel # {}
      BY <3>1, RowsUse, FS_EmptySet
    <3> HIDE DEF sel
    <3>3. Max(sel) \in sel
      BY <1>1, <1>3, <3>2, MaxExists, Zenon
    <3>4. at = Max(sel) \/ at = Max(sel) + 1
      BY <2>3, RowsUse DEF Rows!InsertPlace, sel
    <3>5. Max(sel) \in 1..Len(t.rows)
      BY <1>3, <3>3, Zenon
    <3> HIDE DEF at
    <3> QED
      BY <1>1, <3>4, <3>5
  <2> QED
    BY <2>1, <2>2, <2>3, OpParts
<1>5. made \in Rows!TableRow
  <2>1. <<>> \in Seq(DOMAIN PlainText) /\ op.record \in Records
    BY OpParts
  <2> QED
    BY <2>1, NewRowIs DEF Rows!Blank
<1>6. Rows!ApplyOp(t, op) = [t EXCEPT !.rows = InsertAt(t.rows, at, made)]
  <2>1. Rows!ApplyOp(t, op) = [t EXCEPT !.rows = Rows!InsertAt(t.rows, at, made)]
    BY DEF Rows!ApplyOp
  <2> QED
    BY <2>1, RowsUse
<1> HIDE DEF at, made
<1>7. InsertAt(t.rows, at, made) \in Seq(Rows!TableRow)
  BY <1>1, <1>4, <1>5, InsertAtItems DEF InsertedAs
<1>8. Rows!ApplyOp(t, op) = [header |-> t.header, outer |-> t.outer, aligned |-> t.aligned,
                             rows |-> InsertAt(t.rows, at, made)]
  BY <1>6, TableParts
<1> QED
  BY <1>4, <1>5, <1>7, <1>8 DEF OpDone, at, made

LEMMA UpdateDone ==
    ASSUME NEW t \in Rows!Table, NEW op \in Rows!TableOps, op.op = "update", Rows!OpAllowed(t, op)
    PROVE  OpDone(t, op)
<1> DEFINE sel == Rows!Selected(t, op.sel)
           new(i) == IF i \in sel THEN Rows!NewRow(t, t.rows[i], op.record) ELSE t.rows[i]
           p == [i \in 1..Len(t.rows) |-> new(i)]
<1>1. /\ Len(t.rows) \in Nat /\ DOMAIN t.rows = 1..Len(t.rows)
      /\ \A i \in 1..Len(t.rows) : t.rows[i] \in Rows!TableRow
  BY TableParts
<1>2. ASSUME NEW i \in 1..Len(t.rows)
      PROVE  new(i) \in Rows!TableRow
  <2> DEFINE row == t.rows[i]
  <2>1. row.cells \in Seq(DOMAIN PlainText) /\ row = [cells |-> row.cells, line |-> row.line]
    BY <1>1, RowParts
  <2>2. op.record \in Records
    BY OpParts
  <2> HIDE DEF row
  <2>3. Rows!NewRow(t, row, op.record) \in Rows!TableRow
    BY <2>1, <2>2, NewRowIs
  <2> QED
    BY <1>1, <2>3 DEF row
<1>3. Rows!ApplyOp(t, op) = [t EXCEPT !.rows = p]
  BY <1>1 DEF Rows!ApplyOp
<1>4. p \in Seq(Rows!TableRow)
  <2> HIDE DEF new
  <2> QED
    BY <1>1, <1>2
<1> HIDE DEF p
<1>5. Rows!ApplyOp(t, op) = [header |-> t.header, outer |-> t.outer, aligned |-> t.aligned, rows |-> p]
  BY <1>3, TableParts
<1> QED
  BY <1>4, <1>5 DEF OpDone, p

LEMMA DeleteDone ==
    ASSUME NEW t \in Rows!Table, NEW op \in Rows!TableOps, op.op = "delete", Rows!OpAllowed(t, op)
    PROVE  OpDone(t, op)
<1> DEFINE sel == Rows!Selected(t, op.sel)
           p == Listed(t.rows, (1..Len(t.rows)) \ sel)
<1>1. t.rows \in Seq(Rows!TableRow)
  BY TableParts
<1>2. sel \in SUBSET (1..Len(t.rows))
  BY OpParts, SelectedIn DEF Rows!OpAllowed, Rows!AsExpected
<1>3. Rows!ApplyOp(t, op) = [t EXCEPT !.rows = Rows!DeleteRows(t.rows, sel)]
  BY DEF Rows!ApplyOp
<1> HIDE DEF sel
<1>4. Rows!DeleteRows(t.rows, sel) = p
  BY <1>1, <1>2, DeleteRowsIs
<1>5. p \in Seq(Rows!TableRow)
  <2>1. (1..Len(t.rows)) \ sel \in SUBSET (1..Len(t.rows))
    OBVIOUS
  <2> QED
    BY <1>1, <2>1, ListedIs
<1> HIDE DEF p
<1>6. Rows!ApplyOp(t, op) = [header |-> t.header, outer |-> t.outer, aligned |-> t.aligned, rows |-> p]
  BY <1>3, <1>4, TableParts
<1> QED
  BY <1>5, <1>6 DEF OpDone, p, sel

(* An allowed operation leaves a table.                                     *)
LEMMA OpsDone ==
    ASSUME NEW t \in Rows!Table, NEW op \in Rows!TableOps, Rows!OpAllowed(t, op)
    PROVE  OpDone(t, op) /\ Rows!ApplyOp(t, op) \in Rows!Table
<1>1. OpDone(t, op)
  BY OpParts, InsertDone, UpdateDone, DeleteDone
<1>2. t.aligned \in BOOLEAN
  BY TableParts
<1> DEFINE u == Rows!ApplyOp(t, op)
<1>3. /\ u.rows \in Seq(Rows!TableRow)
      /\ u = [header |-> t.header, outer |-> t.outer, aligned |-> t.aligned, rows |-> u.rows]
  BY <1>1 DEF OpDone
<1> HIDE DEF u
<1>4. u \in Rows!Table
  BY <1>2, <1>3, TableParts
<1> QED
  BY <1>1, <1>4 DEF u

(* The rows that nobody edited.                                             *)
Unedited(q) == {i \in DOMAIN q : q[i].line # Rows!Edited}

LEMMA UneditedIs ==
    ASSUME NEW q \in Seq(Rows!TableRow)
    PROVE  Unedited(q) = {i \in 1..Len(q) : q[i].line # Rows!Edited}
           /\ Unedited(q) \in SUBSET (1..Len(q))
  BY DEF Unedited

LEMMA UpdateKeeps ==
    ASSUME NEW t \in Rows!Table, NEW op \in Rows!TableOps, op.op = "update", Rows!OpAllowed(t, op)
    PROVE  LET p == Rows!ApplyOp(t, op).rows IN
           Rows!Kept(p, Unedited(p)) = Rows!Kept(t.rows, Unedited(t.rows) \ Rows!Selected(t, op.sel))
<1> DEFINE q   == t.rows
           p   == Rows!ApplyOp(t, op).rows
           sel == Rows!Selected(t, op.sel)
           A   == Unedited(q) \ sel
<1>1. /\ q \in Seq(Rows!TableRow) /\ Len(q) \in Nat
      /\ \A i \in 1..Len(q) : q[i] \in Rows!TableRow
  BY TableParts
<1>2. /\ p \in Seq(Rows!TableRow)
      /\ p = [i \in 1..Len(q) |-> IF i \in sel THEN Rows!NewRow(t, q[i], op.record) ELSE q[i]]
  BY OpsDone DEF OpDone
<1>3. \A i \in 1..Len(q) : Rows!NewRow(t, q[i], op.record).line = Rows!Edited
  BY DEF Rows!NewRow
<1> HIDE DEF p, q, sel
<1>4. Len(p) = Len(q)
  BY <1>1, <1>2
<1>5. /\ \A i \in 1..Len(q) : i \in sel => p[i].line = Rows!Edited
      /\ \A i \in 1..Len(q) : i \notin sel => p[i] = q[i]
  BY <1>2, <1>3
<1>6. Unedited(q) = {i \in 1..Len(q) : q[i].line # Rows!Edited} /\ Unedited(q) \in SUBSET (1..Len(q))
  BY <1>1, UneditedIs
<1>7. Unedited(p) = {i \in 1..Len(p) : p[i].line # Rows!Edited}
  BY <1>2, UneditedIs
<1>8. Unedited(p) = A
  BY <1>4, <1>5, <1>6, <1>7
<1>9. /\ A \in SUBSET (1..Len(q)) /\ A \in SUBSET (1..Len(p)) /\ \A i \in A : p[i] = q[i]
  BY <1>4, <1>5, <1>6
<1> HIDE DEF A
<1>10. Listed(p, A) = Listed(q, A)
  BY <1>1, <1>2, <1>9, ListedSame
<1>11. Rows!Kept(p, A) = Listed(p, A) /\ Rows!Kept(q, A) = Listed(q, A)
  BY <1>1, <1>2, <1>9, KeptIs
<1> QED
  BY <1>8, <1>10, <1>11 DEF A, p, q, sel

LEMMA InsertKeeps ==
    ASSUME NEW t \in Rows!Table, NEW op \in Rows!TableOps, op.op = "insert", Rows!OpAllowed(t, op)
    PROVE  LET p == Rows!ApplyOp(t, op).rows IN
           Rows!Kept(p, Unedited(p)) = Rows!Kept(t.rows, Unedited(t.rows))
<1> DEFINE q  == t.rows
           p  == Rows!ApplyOp(t, op).rows
           A  == Unedited(q)
<1>1. q \in Seq(Rows!TableRow) /\ Len(q) \in Nat
  BY TableParts
<1>2. PICK at \in 1..(Len(q) + 1), made \in Rows!TableRow :
        made.line = Rows!Edited /\ p = InsertAt(q, at, made)
  <2> DEFINE m == Rows!NewRow(t, Rows!Blank, op.record)
  <2>1. Rows!InsertPlace(t, op) \in 1..(Len(q) + 1) /\ m \in Rows!TableRow
        /\ p = InsertAt(q, Rows!InsertPlace(t, op), m)
    BY OpsDone DEF OpDone
  <2>2. m.line = Rows!Edited
    BY DEF Rows!NewRow
  <2> HIDE DEF m
  <2> QED
    BY <2>1, <2>2
<1> HIDE DEF p, q
<1>3. /\ p \in Seq(Rows!TableRow) /\ Len(p) = Len(q) + 1
      /\ \A k \in 1..(Len(q) + 1) : p[k] = IF k < at THEN q[k] ELSE IF k = at THEN made ELSE q[k - 1]
  BY <1>1, <1>2, InsertAtItems DEF InsertedAs
<1>4. A = {i \in 1..Len(q) : q[i].line # Rows!Edited} /\ A \in SUBSET (1..Len(q))
  BY <1>1, UneditedIs
<1>5. Unedited(p) = {i \in 1..(Len(q) + 1) : p[i].line # Rows!Edited}
      /\ Unedited(p) \in SUBSET (1..Len(p))
  BY <1>3, UneditedIs
<1> HIDE DEF A
<1> DEFINE h == [i \in A |-> IF i < at THEN i ELSE i + 1]
<1>6. /\ h \in [A -> 1..(Len(q) + 1)] /\ \A i, j \in A : i < j => h[i] < h[j]
      /\ \A i \in A : p[h[i]] = q[i]
  <2>1. \A i \in A : i \in 1..Len(q)
    BY <1>4
  <2>2. \A i \in A : (IF i < at THEN i ELSE i + 1) \in 1..(Len(q) + 1)
    BY <1>1, <2>1
  <2>3. h \in [A -> 1..(Len(q) + 1)]
    BY <2>2
  <2>4. \A i, j \in A : i < j => h[i] < h[j]
    BY <2>1
  <2>5. ASSUME NEW i \in A PROVE p[h[i]] = q[i]
    <3>1. CASE i < at
      BY <1>1, <1>3, <2>1, <3>1
    <3>2. CASE ~(i < at)
      <4>1. h[i] = i + 1 /\ i + 1 \in 1..(Len(q) + 1) /\ ~(i + 1 < at) /\ i + 1 # at /\ (i + 1) - 1 = i
        BY <1>1, <2>1, <3>2
      <4> HIDE DEF h
      <4> QED
        BY <1>3, <4>1
    <3> QED
      BY <3>1, <3>2
  <2> QED
    BY <2>3, <2>4, <2>5
<1>7. Unedited(p) = {h[i] : i \in A}
  <2>1. ASSUME NEW k \in Unedited(p) PROVE \E i \in A : k = h[i]
    <3>1. k \in 1..(Len(q) + 1) /\ p[k].line # Rows!Edited /\ k # at
      BY <1>2, <1>3, <1>5
    <3>2. CASE k < at
      <4>1. p[k] = q[k] /\ k \in 1..Len(q)
        BY <1>1, <1>3, <3>1, <3>2
      <4>2. k \in A
        BY <1>4, <3>1, <4>1
      <4> QED
        BY <3>2, <4>2
    <3>3. CASE k > at
      <4>1. p[k] = q[k - 1] /\ k - 1 \in 1..Len(q) /\ ~(k - 1 < at) /\ (k - 1) + 1 = k
        BY <1>1, <1>3, <3>1, <3>3
      <4>2. k - 1 \in A
        BY <1>4, <3>1, <4>1
      <4> QED
        BY <4>1, <4>2
    <3> QED
      BY <3>1, <3>2, <3>3
  <2>2. ASSUME NEW i \in A PROVE h[i] \in Unedited(p)
    <3>1. h[i] \in 1..(Len(q) + 1) /\ p[h[i]] = q[i]
      BY <1>6
    <3>2. q[i].line # Rows!Edited
      BY <1>4
    <3> HIDE DEF h
    <3> QED
      BY <1>5, <3>1, <3>2
  <2> HIDE DEF h
  <2> QED
    BY <2>1, <2>2
<1> HIDE DEF h
<1>8. Listed(p, {h[i] : i \in A}) = Listed(q, A)
  <2>1. q \in Seq(Rows!TableRow) /\ p \in Seq(Rows!TableRow) /\ Len(p) = Len(q) + 1
    BY <1>1, <1>3
  <2>2. A \in SUBSET (1..Len(q))
    BY <1>4
  <2>3. h \in [A -> 1..(Len(q) + 1)]
    BY <1>6
  <2>4. \A i, j \in A : i < j => h[i] < h[j]
    BY <1>6
  <2>5. \A i \in A : p[h[i]] = q[i]
    BY <1>6
  <2> QED
    BY <2>1, <2>2, <2>3, <2>4, <2>5, ListedMoved
<1>9. Rows!Kept(p, Unedited(p)) = Listed(p, Unedited(p)) /\ Rows!Kept(q, A) = Listed(q, A)
  BY <1>1, <1>3, <1>4, <1>5, KeptIs
<1> QED
  BY <1>7, <1>8, <1>9 DEF A, p, q

TablesTyped == tables \in Seq(Rows!Table)

LEMMA RowsStay == TablesTyped => UnpickedRowsStay
<1> SUFFICES ASSUME tables \in Seq(Rows!Table), NEW k \in DOMAIN tables, NEW op \in Rows!TableOps,
                    Rows!Runs(tables[k], <<op>>).ok
             PROVE  LET t    == tables[k]
                        pick == Rows!Selected(t, op.sel)
                        p    == Rows!Runs(t, <<op>>).t.rows
                    IN  CASE op.op = "delete" -> p = Rows!Kept(t.rows, DOMAIN t.rows \ pick)
                          [] op.op = "update" ->
                                Rows!Kept(p, Unedited(p)) = Rows!Kept(t.rows, Unedited(t.rows) \ pick)
                          [] op.op = "insert" ->
                                Rows!Kept(p, Unedited(p)) = Rows!Kept(t.rows, Unedited(t.rows))
  BY Zenon DEF TablesTyped, UnpickedRowsStay, Rows!UnpickedRowsStay, Unedited
<1>1. PICK t \in Rows!Table : t = tables[k]
  OBVIOUS
<1>2. Rows!OpAllowed(t, op) /\ Rows!Runs(t, <<op>>).t = Rows!ApplyOp(t, op)
  BY <1>1, RunsOne
<1>3. CASE op.op = "insert"
  BY <1>1, <1>2, <1>3, InsertKeeps
<1>4. CASE op.op = "update"
  BY <1>1, <1>2, <1>4, UpdateKeeps
<1>5. CASE op.op = "delete"
  <2> DEFINE B == (1..Len(t.rows)) \ Rows!Selected(t, op.sel)
  <2>1. t.rows \in Seq(Rows!TableRow) /\ DOMAIN t.rows = 1..Len(t.rows)
    BY TableParts
  <2>2. Rows!ApplyOp(t, op).rows = Listed(t.rows, B)
    BY <1>2, <1>5, OpsDone DEF OpDone
  <2>3. B \in SUBSET (1..Len(t.rows))
    OBVIOUS
  <2> HIDE DEF B
  <2>4. Rows!Kept(t.rows, B) = Listed(t.rows, B)
    BY <2>1, <2>3, KeptIs
  <2> QED
    BY <1>1, <1>2, <1>5, <2>1, <2>2, <2>4 DEF B
<1> QED
  BY <1>3, <1>4, <1>5, OpParts

(* A batch of two operations leaves a table.                                *)
LEMMA BatchTyped ==
    ASSUME NEW t \in Rows!Table, NEW one \in Rows!TableOps, NEW two \in Rows!TableOps,
           Rows!Runs(t, <<one, two>>).ok
    PROVE  Rows!Runs(t, <<one, two>>).t \in Rows!Table
<1>1. /\ Rows!OpAllowed(t, one) /\ Rows!OpAllowed(Rows!ApplyOp(t, one), two)
      /\ Rows!Runs(t, <<one, two>>).t = Rows!ApplyOp(Rows!ApplyOp(t, one), two)
  BY RunsTwo
<1>2. PICK u \in Rows!Table : u = Rows!ApplyOp(t, one)
  BY <1>1, OpsDone
<1> QED
  BY <1>1, <1>2, OpsDone

LEMMA TableWriteTyped ==
    ASSUME TablesTyped, Rows!TableWrite
    PROVE  TablesTyped'
<1>1. PICK index \in -1..1, one, two \in Rows!TableOps, a \in BOOLEAN :
        /\ batches < MaxBatches
        /\ Rows!Pick(index) # {}
        /\ LET k == CHOOSE i \in Rows!Pick(index) : TRUE
               r == Rows!Runs(tables[k], <<one, two>>)
           IN  /\ r.ok
               /\ tables' = [tables EXCEPT ![k] = Rows!ReadBack(r.t, a)]
        /\ batches' = batches + 1
  BY Zenon DEF Rows!TableWrite
<1>2. PICK ts \in Seq(Rows!Table) : ts = tables
  BY DEF TablesTyped
<1>3. PICK k \in DOMAIN ts :
        LET r == Rows!Runs(ts[k], <<one, two>>) IN
        r.ok /\ tables' = [ts EXCEPT ![k] = Rows!ReadBack(r.t, a)]
  <2> DEFINE k == CHOOSE i \in Rows!Pick(index) : TRUE
  <2>1. k \in Rows!Pick(index)
    BY <1>1, Zenon
  <2>2. Rows!Pick(index) \in SUBSET DOMAIN ts
    BY <1>2 DEF Rows!Pick
  <2>3. k \in DOMAIN ts
    BY <2>1, <2>2, Zenon
  <2>4. LET r == Rows!Runs(ts[k], <<one, two>>) IN
        r.ok /\ tables' = [ts EXCEPT ![k] = Rows!ReadBack(r.t, a)]
    BY <1>1, <1>2, Zenon
  <2> HIDE DEF k
  <2> QED
    BY <2>3, <2>4
<1>4. ts[k] \in Rows!Table
  OBVIOUS
<1>5. Rows!Runs(ts[k], <<one, two>>).t \in Rows!Table
  BY <1>3, <1>4, BatchTyped
<1>6. PICK b \in Rows!Table : b = Rows!ReadBack(Rows!Runs(ts[k], <<one, two>>).t, a)
  BY <1>5, ReadBackIs
<1>7. tables' = [ts EXCEPT ![k] = b]
  BY <1>3, <1>6
<1> QED
  BY <1>7 DEF TablesTyped

LEMMA TablesAreTyped == EditsSpec => []TablesTyped
<1>1. EditsInit => TablesTyped
  <2>1. Rows!Init => TablesTyped
    BY EditsAssumption DEF EditsAssumption, Rows!Init, TablesTyped
  <2>2. Rows!Idle => TablesTyped
    BY DEF Rows!Idle, TablesTyped
  <2> QED
    BY <2>1, <2>2 DEF EditsInit
<1>2. TablesTyped /\ [EditsNext]_<<vars, tableVars, lineVars>> => TablesTyped'
  <2> SUFFICES ASSUME TablesTyped, [EditsNext]_<<vars, tableVars, lineVars>> PROVE TablesTyped'
    OBVIOUS
  <2>1. CASE Rows!TableWrite
    BY <2>1, TableWriteTyped
  <2>2. CASE UNCHANGED tables
    BY <2>2 DEF TablesTyped
  <2> QED
    BY <2>1, <2>2 DEF EditsNext, tableVars, Rows!Next
<1> QED
  BY <1>1, <1>2, PTL DEF EditsSpec

(* In every table that batches can lead to, an operation changes the rows it *)
(* picks and no other: the others keep their order and the line they were    *)
(* read from (gfm-table.ts).                                                *)
THEOREM UnpickedRowsAlwaysStay == EditsSpec => []UnpickedRowsStay
  BY RowsStay, TablesAreTyped, PTL

LEMMA SameIsSame ==
    /\ \A t, u : SameTable(t, u) => SameTable(u, t)
    /\ \A t, u, v : SameTable(t, u) /\ SameTable(u, v) => SameTable(t, v)
<1>1. \A r, s : SameRow(r, s) => SameRow(s, r)
  BY DEF SameRow
<1>2. \A r, s, v : SameRow(r, s) /\ SameRow(s, v) => SameRow(r, v)
  BY DEF SameRow
<1>3. \A t, u : SameTable(t, u) => SameTable(u, t)
  BY <1>1 DEF SameTable
<1>4. \A t, u, v : SameTable(t, u) /\ SameTable(u, v) => SameTable(t, v)
  BY <1>2 DEF SameTable
<1> QED
  BY <1>3, <1>4

(* Tables that are the same resolve the same names, match the same           *)
(* conditions and allow the same operations.                                *)
LEMMA SameNames ==
    ASSUME NEW t, NEW u, SameTable(t, u)
    PROVE  /\ \A name : Rows!Columns(t, name) = Rows!Columns(u, name)
           /\ \A name : Rows!Column(t, name) = Rows!Column(u, name)
           /\ \A names : Rows!Resolves(t, names) <=> Rows!Resolves(u, names)
           /\ Rows!Width(t) = Rows!Width(u)
<1>1. t.header = u.header
  BY DEF SameTable
<1>2. \A name : Rows!Columns(t, name) = Rows!Columns(u, name)
  BY <1>1 DEF Rows!Columns
<1>3. \A name : Rows!Column(t, name) = Rows!Column(u, name)
  BY <1>2 DEF Rows!Column
<1>4. \A names : Rows!Resolves(t, names) <=> Rows!Resolves(u, names)
  BY <1>2, Zenon DEF Rows!Resolves
<1> QED
  BY <1>1, <1>2, <1>3, <1>4 DEF Rows!Width

LEMMA SameSelected ==
    ASSUME NEW t \in Rows!Table, NEW u \in Rows!Table, SameTable(t, u),
           NEW sel, sel = Rows!NoRow \/ sel \in Rows!Selectors
    PROVE  /\ Rows!Selectable(t, sel) <=> Rows!Selectable(u, sel)
           /\ Rows!Selected(t, sel) = Rows!Selected(u, sel)
<1>1. /\ Len(t.rows) = Len(u.rows) /\ DOMAIN t.rows = 1..Len(t.rows) /\ DOMAIN u.rows = 1..Len(u.rows)
      /\ \A i \in 1..Len(t.rows) : SameRow(t.rows[i], u.rows[i])
  BY TableParts DEF SameTable
<1>2. CASE sel = Rows!NoRow
  BY <1>2 DEF Rows!NoRow, Rows!Selectable, Rows!Selected
<1>3. ASSUME NEW w \in Wheres, sel = Rows!Where(w)
      PROVE  /\ Rows!Selectable(t, sel) <=> Rows!Selectable(u, sel)
             /\ Rows!Selected(t, sel) = Rows!Selected(u, sel)
  <2>1. sel.by = "where"
    BY <1>3 DEF Rows!Where
  <2>2. /\ Rows!Selectable(t, sel) <=> Rows!Resolves(t, {p[1] : p \in sel.cols})
        /\ Rows!Selectable(u, sel) <=> Rows!Resolves(u, {p[1] : p \in sel.cols})
    BY <2>1 DEF Rows!Selectable
  <2>3. /\ Rows!Selected(t, sel) = {i \in DOMAIN t.rows : Rows!Matches(t, t.rows[i], sel.cols)}
        /\ Rows!Selected(u, sel) = {i \in DOMAIN u.rows : Rows!Matches(u, u.rows[i], sel.cols)}
    BY <2>1 DEF Rows!Selected
  <2>4. ASSUME NEW i \in 1..Len(t.rows)
        PROVE  Rows!Matches(t, t.rows[i], sel.cols) <=> Rows!Matches(u, u.rows[i], sel.cols)
    <3>1. \A c : Rows!Cell(t.rows[i], c) = Rows!Cell(u.rows[i], c)
      BY <1>1, Zenon DEF SameRow, CellAt, Rows!Cell
    <3>2. \A name : Rows!Column(t, name) = Rows!Column(u, name)
      BY SameNames, Zenon
    <3> QED
      BY <3>1, <3>2, Zenon DEF Rows!Matches
  <2>5. Rows!Resolves(t, {p[1] : p \in sel.cols}) <=> Rows!Resolves(u, {p[1] : p \in sel.cols})
    BY SameNames, Zenon
  <2>6. Rows!Selected(t, sel) = Rows!Selected(u, sel)
    BY <1>1, <2>3, <2>4
  <2> QED
    BY <2>2, <2>5, <2>6
<1>4. ASSUME NEW n \in Numbers, sel = Rows!Row(n)
      PROVE  /\ Rows!Selectable(t, sel) <=> Rows!Selectable(u, sel)
             /\ Rows!Selected(t, sel) = Rows!Selected(u, sel)
  <2>1. sel.by = "row"
    BY <1>4 DEF Rows!Row
  <2> QED
    BY <1>1, <2>1 DEF Rows!Selectable, Rows!Selected
<1> QED
  BY <1>2, <1>3, <1>4 DEF Rows!Selectors

LEMMA SameAllowed ==
    ASSUME NEW t \in Rows!Table, NEW u \in Rows!Table, SameTable(t, u), NEW op \in Rows!TableOps
    PROVE  Rows!OpAllowed(t, op) <=> Rows!OpAllowed(u, op)
<1>1. /\ Rows!Selectable(t, op.sel) <=> Rows!Selectable(u, op.sel)
      /\ Rows!Selected(t, op.sel) = Rows!Selected(u, op.sel)
  BY OpParts, SameSelected
<1>2. Rows!Resolves(t, DOMAIN op.record) <=> Rows!Resolves(u, DOMAIN op.record)
  BY SameNames, Zenon
<1>3. Rows!AsExpected(t, op.sel, op.count) <=> Rows!AsExpected(u, op.sel, op.count)
  BY <1>1, Zenon DEF Rows!AsExpected
<1>4. Rows!InsertAllowed(t, op) <=> Rows!InsertAllowed(u, op)
  BY <1>1, <1>2, Zenon DEF Rows!InsertAllowed
<1>5. CASE op.op = "insert"
  BY <1>4, <1>5 DEF Rows!OpAllowed
<1>6. CASE op.op = "update"
  BY <1>2, <1>3, <1>6 DEF Rows!OpAllowed
<1>7. CASE op.op = "delete"
  BY <1>3, <1>7 DEF Rows!OpAllowed
<1> QED
  BY <1>5, <1>6, <1>7, OpParts

LEMMA SameNewRow ==
    ASSUME NEW t, NEW u, SameTable(t, u), NEW r, NEW s, SameRow(r, s), NEW record
    PROVE  Rows!NewRow(t, r, record) = Rows!NewRow(u, s, record)
<1>1. \A c : Rows!Cell(r, c) = Rows!Cell(s, c)
  BY Zenon DEF SameRow, CellAt, Rows!Cell
<1>2. /\ \A name : Rows!Column(t, name) = Rows!Column(u, name)
      /\ Rows!Width(t) = Rows!Width(u)
  BY SameNames, Zenon
<1>3. Rows!CellsOf(t, r, record) = Rows!CellsOf(u, s, record)
  BY <1>1, <1>2 DEF Rows!CellsOf
<1> QED
  BY <1>3 DEF Rows!NewRow

LEMMA SameInserted ==
    ASSUME NEW q \in Seq(Rows!TableRow), NEW r \in Seq(Rows!TableRow), Len(r) = Len(q),
           \A i \in 1..Len(q) : SameRow(q[i], r[i]),
           NEW at \in 1..(Len(q) + 1), NEW made \in Rows!TableRow
    PROVE  LET p == InsertAt(q, at, made)
               o == InsertAt(r, at, made)
           IN  Len(p) = Len(o) /\ \A k \in 1..Len(p) : SameRow(p[k], o[k])
<1> DEFINE p == InsertAt(q, at, made)
           o == InsertAt(r, at, made)
<1>1. Len(q) \in Nat /\ at \in 1..(Len(r) + 1)
  OBVIOUS
<1>2. /\ Len(p) = Len(q) + 1
      /\ \A k \in 1..(Len(q) + 1) : p[k] = IF k < at THEN q[k] ELSE IF k = at THEN made ELSE q[k - 1]
  <2>1. InsertedAs(p, q, at, made)
    BY InsertAtItems, Zenon
  <2> QED
    BY <2>1, Zenon DEF InsertedAs
<1>3. /\ Len(o) = Len(r) + 1
      /\ \A k \in 1..(Len(r) + 1) : o[k] = IF k < at THEN r[k] ELSE IF k = at THEN made ELSE r[k - 1]
  <2>1. InsertedAs(o, r, at, made)
    BY <1>1, InsertAtItems, Zenon
  <2> QED
    BY <2>1, Zenon DEF InsertedAs
<1> HIDE DEF p, o
<1>4. ASSUME NEW k \in 1..(Len(q) + 1) PROVE SameRow(p[k], o[k])
  <2>1. CASE k < at
    BY <1>1, <1>2, <1>3, <2>1
  <2>2. CASE k = at
    <3>1. p[k] = made /\ o[k] = made
      BY <1>2, <1>3, <2>2
    <3> QED
      BY <3>1 DEF SameRow
  <2>3. CASE k > at
    <3>1. k - 1 \in 1..Len(q) /\ ~(k < at) /\ k # at
      BY <1>1, <2>3
    <3> QED
      BY <1>2, <1>3, <3>1
  <2> QED
    BY <2>1, <2>2, <2>3
<1> QED
  BY <1>2, <1>3, <1>4 DEF p, o

LEMMA SameApplied ==
    ASSUME NEW t \in Rows!Table, NEW u \in Rows!Table, SameTable(t, u), NEW op \in Rows!TableOps,
           Rows!OpAllowed(t, op)
    PROVE  SameTable(Rows!ApplyOp(t, op), Rows!ApplyOp(u, op))
<1> DEFINE q == t.rows
           r == u.rows
           n == Len(q)
           sel == Rows!Selected(t, op.sel)
           p == Rows!ApplyOp(t, op).rows
           o == Rows!ApplyOp(u, op).rows
<1>1. Rows!OpAllowed(u, op) /\ Rows!Selected(u, op.sel) = sel
  BY SameAllowed, OpParts, SameSelected
<1>2. OpDone(t, op) /\ OpDone(u, op)
  BY <1>1, OpsDone
<1>3. /\ n \in Nat /\ Len(r) = n /\ q \in Seq(Rows!TableRow) /\ r \in Seq(Rows!TableRow)
      /\ \A i \in 1..n : SameRow(q[i], r[i])
  BY TableParts DEF SameTable
<1>4. /\ Rows!ApplyOp(t, op).header = Rows!ApplyOp(u, op).header
      /\ Rows!ApplyOp(t, op).outer = Rows!ApplyOp(u, op).outer
  BY <1>2 DEF OpDone, SameTable
<1>5. p \in Seq(Rows!TableRow) /\ o \in Seq(Rows!TableRow)
  BY <1>2 DEF OpDone
<1>6. \A x : SameRow(x, x)
  BY DEF SameRow
<1>7. CASE op.op = "insert"
  <2>1. PICK at \in 1..(n + 1), made \in Rows!TableRow :
            /\ at = Rows!InsertPlace(t, op) /\ made = Rows!NewRow(t, Rows!Blank, op.record)
            /\ p = InsertAt(q, at, made)
    BY <1>2, <1>7 DEF OpDone
  <2>2. o = InsertAt(r, Rows!InsertPlace(u, op), Rows!NewRow(u, Rows!Blank, op.record))
    BY <1>2, <1>7 DEF OpDone
  <2>3. Rows!InsertPlace(u, op) = at
    BY <1>1, <1>3, <2>1 DEF Rows!InsertPlace
  <2>4. Rows!NewRow(u, Rows!Blank, op.record) = made
    <3>1. SameRow(Rows!Blank, Rows!Blank)
      BY <1>6
    <3>2. \A record : Rows!NewRow(t, Rows!Blank, record) = Rows!NewRow(u, Rows!Blank, record)
      BY <3>1, SameNewRow
    <3> QED
      BY <2>1, <3>2, Zenon
  <2>5. o = InsertAt(r, at, made)
    BY <2>2, <2>3, <2>4
  <2> HIDE DEF p, o, q, r
  <2>6. Len(p) = Len(o) /\ \A k \in 1..Len(p) : SameRow(p[k], o[k])
    BY <1>3, <2>1, <2>5, SameInserted
  <2> QED
    BY <1>4, <2>6 DEF SameTable, p, o
<1>8. CASE op.op = "update"
  <2>1. /\ p = [i \in 1..n |-> IF i \in sel THEN Rows!NewRow(t, q[i], op.record) ELSE q[i]]
        /\ o = [i \in 1..n |-> IF i \in sel THEN Rows!NewRow(u, r[i], op.record) ELSE r[i]]
    BY <1>1, <1>2, <1>3, <1>8 DEF OpDone
  <2>2. \A i \in 1..n : Rows!NewRow(t, q[i], op.record) = Rows!NewRow(u, r[i], op.record)
    BY <1>3, SameNewRow
  <2> HIDE DEF p, o, q, r, n, sel
  <2>3. Len(p) = n /\ Len(o) = n
    BY <1>3, <2>1
  <2>4. ASSUME NEW i \in 1..n PROVE SameRow(p[i], o[i])
    <3>1. CASE i \in sel
      BY <1>6, <2>1, <2>2, <3>1
    <3>2. CASE i \notin sel
      BY <1>3, <2>1, <3>2
    <3> QED
      BY <3>1, <3>2
  <2> QED
    BY <1>4, <2>3, <2>4 DEF SameTable, p, o
<1>9. CASE op.op = "delete"
  <2> DEFINE B == (1..n) \ sel
  <2>1. p = Listed(q, B) /\ o = Listed(r, B)
    BY <1>1, <1>2, <1>3, <1>9 DEF OpDone
  <2>2. B \in SUBSET (1..n)
    OBVIOUS
  <2> HIDE DEF B, p, o, q, r, n, sel
  <2>3. B \in SUBSET (1..Len(q)) /\ B \in SUBSET (1..Len(r))
    BY <1>3, <2>2 DEF n
  <2>4. /\ Len(p) = Cardinality(B)
        /\ \A k \in 1..Cardinality(B) : p[k] = q[Nth(B, k)] /\ Nth(B, k) \in B
    BY <1>3, <2>1, <2>3, ListedIs
  <2>5. /\ Len(o) = Cardinality(B)
        /\ \A k \in 1..Cardinality(B) : o[k] = r[Nth(B, k)]
    BY <1>3, <2>1, <2>3, ListedIs
  <2>6. \A k \in 1..Cardinality(B) : SameRow(p[k], o[k])
    BY <1>3, <2>2, <2>4, <2>5
  <2> QED
    BY <1>4, <2>4, <2>5, <2>6 DEF SameTable, p, o
<1> QED
  BY <1>7, <1>8, <1>9, OpParts

LEMMA SameIsSameCells ==
    ASSUME NEW t \in Rows!Table, NEW u \in Rows!Table, SameTable(t, u)
    PROVE  Rows!SameCells(t, u)
<1>1. /\ Len(t.rows) = Len(u.rows) /\ DOMAIN t.rows = 1..Len(t.rows)
      /\ \A i \in 1..Len(t.rows) : SameRow(t.rows[i], u.rows[i])
  BY TableParts DEF SameTable
<1>2. \A r, s : SameRow(r, s) => r.line = s.line /\ \A c : Rows!Cell(r, c) = Rows!Cell(s, c)
  BY Zenon DEF SameRow, CellAt, Rows!Cell
<1> QED
  BY <1>1, <1>2 DEF Rows!SameCells

(* A batch of two operations does what they do in calls of their own.        *)
LEMMA BatchAsCalls ==
    ASSUME NEW t \in Rows!Table, NEW one \in Rows!TableOps, NEW two \in Rows!TableOps,
           NEW a \in BOOLEAN, Rows!Runs(t, <<one>>).ok
    PROVE  LET both == Rows!Runs(t, <<one, two>>)
               last == Rows!Runs(Rows!ReadBack(Rows!Runs(t, <<one>>).t, a), <<two>>)
           IN  /\ both.ok <=> last.ok
               /\ both.ok => Rows!SameCells(Rows!ReadBack(both.t, a), Rows!ReadBack(last.t, a))
<1> DEFINE both == Rows!Runs(t, <<one, two>>)
           last == Rows!Runs(Rows!ReadBack(Rows!Runs(t, <<one>>).t, a), <<two>>)
<1>1. Rows!OpAllowed(t, one) /\ Rows!Runs(t, <<one>>).t = Rows!ApplyOp(t, one)
  BY RunsOne
<1>2. PICK u \in Rows!Table : u = Rows!ApplyOp(t, one)
  BY <1>1, OpsDone
<1>3. PICK v \in Rows!Table : v = Rows!ReadBack(u, a) /\ SameTable(v, u)
  BY <1>2, ReadBackIs
<1>4. /\ both.ok <=> Rows!OpAllowed(u, two)
      /\ both.ok => both.t = Rows!ApplyOp(u, two)
  BY <1>1, <1>2, RunsTwo
<1>5. /\ last.ok <=> Rows!OpAllowed(v, two)
      /\ last.ok => last.t = Rows!ApplyOp(v, two)
  BY <1>1, <1>2, <1>3, RunsOne
<1>6. Rows!OpAllowed(u, two) <=> Rows!OpAllowed(v, two)
  BY <1>3, SameAllowed
<1> HIDE DEF both, last
<1>7. ASSUME both.ok
      PROVE  Rows!SameCells(Rows!ReadBack(both.t, a), Rows!ReadBack(last.t, a))
  <2>1. PICK x \in Rows!Table : x = both.t /\ x = Rows!ApplyOp(u, two)
    BY <1>4, <1>7, OpsDone
  <2>2. PICK y \in Rows!Table : y = last.t /\ y = Rows!ApplyOp(v, two)
    BY <1>4, <1>5, <1>6, <1>7, OpsDone
  <2>3. SameTable(x, y)
    BY <1>3, <1>4, <1>6, <1>7, <2>1, <2>2, SameApplied, SameIsSame
  <2>4. PICK xx \in Rows!Table : xx = Rows!ReadBack(x, a) /\ SameTable(xx, x)
    BY ReadBackIs
  <2>5. PICK yy \in Rows!Table : yy = Rows!ReadBack(y, a) /\ SameTable(yy, y)
    BY ReadBackIs
  <2>6. SameTable(xx, yy)
    BY <2>3, <2>4, <2>5, SameIsSame, Zenon
  <2> QED
    BY <2>1, <2>2, <2>4, <2>5, <2>6, SameIsSameCells
<1> QED
  BY <1>4, <1>5, <1>6, <1>7 DEF both, last

LEMMA BatchesAsCalls == TablesTyped => BatchIsItsCalls
<1> SUFFICES ASSUME tables \in Seq(Rows!Table), NEW k \in DOMAIN tables,
                    NEW one \in Rows!TableOps, NEW two \in Rows!TableOps, NEW a \in BOOLEAN,
                    Rows!Runs(tables[k], <<one>>).ok
             PROVE  LET both == Rows!Runs(tables[k], <<one, two>>)
                        last == Rows!Runs(Rows!ReadBack(Rows!Runs(tables[k], <<one>>).t, a), <<two>>)
                    IN  /\ both.ok <=> last.ok
                        /\ both.ok => Rows!SameCells(Rows!ReadBack(both.t, a), Rows!ReadBack(last.t, a))
  BY ZenonT(40) DEF TablesTyped, BatchIsItsCalls, Rows!BatchIsItsCalls
<1>1. PICK t \in Rows!Table : t = tables[k]
  OBVIOUS
<1> QED
  BY <1>1, BatchAsCalls, Zenon

(* From every table that batches can lead to, a batch does what its           *)
(* operations do in calls of their own, each reading the table back from     *)
(* what the one before wrote (doc-table-write.ts).                          *)
THEOREM BatchesAreTheirCalls == EditsSpec => []BatchIsItsCalls
  BY BatchesAsCalls, TablesAreTyped, PTL

-----------------------------------------------------------------------------
(* TEXTS.                                                                   *)

LEMMA PlaintextUse ==
    /\ \A s : Plaintext!Max(s) = Max(s) /\ Plaintext!Min(s) = Min(s)
    /\ \A s : Plaintext!Cardinality(s) = Cardinality(s)
    /\ \A s : Plaintext!Last(s) = Last(s)
    /\ \A s : Plaintext!FlattenSeq(s) = FlattenSeq(s)
<1>1. \A s : Plaintext!Max(s) = Max(s) /\ Plaintext!Min(s) = Min(s)
  BY Zenon DEF Plaintext!Max, Max, Plaintext!Min, Min
<1>2. \A s : Plaintext!Cardinality(s) = Cardinality(s)
  BY Zenon DEF Plaintext!Cardinality, Cardinality, Plaintext!IsFiniteSet, IsFiniteSet
<1>3. \A s : Plaintext!Last(s) = Last(s)
  BY Zenon DEF Plaintext!Last, Last
<1>4. \A s : Plaintext!FlattenSeq(s) = FlattenSeq(s)
  BY Zenon DEF Plaintext!FlattenSeq, FlattenSeq
<1> QED
  BY <1>1, <1>2, <1>3, <1>4

(* The line of a place: one more after each newline.                        *)
LEMMA LineOfIs ==
    ASSUME NEW S, NEW t \in Seq(S)
    PROVE  /\ Len(t) \in Nat /\ \A i \in Nat : Plaintext!LineOf(t, i) \in Nat
           /\ Plaintext!LineOf(t, 1) = 1
           /\ \A i \in 1..Len(t) : Plaintext!LineOf(t, i + 1)
                    = IF t[i] = Plaintext!Newline THEN Plaintext!LineOf(t, i) + 1
                      ELSE Plaintext!LineOf(t, i)
<1> DEFINE B == Plaintext!Breaks(t)
           Below(i) == {b \in B : b < i}
<1>1. Len(t) \in Nat
  OBVIOUS
<1>2. B = {i \in 1..Len(t) : t[i] = Plaintext!Newline}
  BY DEF Plaintext!Breaks
<1> HIDE DEF B
<1>3. ASSUME NEW i \in Nat
      PROVE  IsFiniteSet(Below(i)) /\ Cardinality(Below(i)) \in Nat
  <2>1. IsFiniteSet(1..Len(t)) /\ Below(i) \in SUBSET (1..Len(t))
    BY <1>1, <1>2, FS_Interval
  <2> HIDE DEF Below
  <2> QED
    BY <2>1, FS_Subset, FS_CardinalityType
<1>4. \A i \in Nat : Plaintext!LineOf(t, i) = 1 + Cardinality(Below(i))
  BY PlaintextUse, Zenon DEF Plaintext!LineOf, B
<1>5. Below(1) = {}
  BY <1>2
<1>6. ASSUME NEW i \in 1..Len(t)
      PROVE  Plaintext!LineOf(t, i + 1) = IF t[i] = Plaintext!Newline THEN Plaintext!LineOf(t, i) + 1
                                          ELSE Plaintext!LineOf(t, i)
  <2>1. i \in Nat /\ i + 1 \in Nat
    OBVIOUS
  <2>2. CASE t[i] = Plaintext!Newline
    <3>1. Below(i + 1) = Below(i) \union {i} /\ i \notin Below(i)
      BY <1>2, <2>2
    <3> HIDE DEF Below
    <3>2. Cardinality(Below(i + 1)) = Cardinality(Below(i)) + 1
      BY <1>3, <2>1, <3>1, FS_AddElement
    <3> QED
      BY <1>3, <1>4, <2>1, <2>2, <3>2
  <2>3. CASE t[i] # Plaintext!Newline
    <3>1. Below(i + 1) = Below(i)
      BY <1>2, <2>3
    <3> HIDE DEF Below
    <3> QED
      BY <1>4, <2>1, <2>3, <3>1
  <2> QED
    BY <2>2, <2>3
<1> HIDE DEF Below
<1>7. Plaintext!LineOf(t, 1) = 1
  <2>1. Cardinality(Below(1)) = 0 /\ 1 \in Nat
    BY <1>5, FS_EmptySet, Zenon
  <2>2. Plaintext!LineOf(t, 1) = 1 + Cardinality(Below(1))
    BY <1>4, <2>1, Zenon
  <2> QED
    BY <2>1, <2>2
<1>8. ASSUME NEW i \in Nat
      PROVE  Plaintext!LineOf(t, i) \in Nat
  <2>1. Plaintext!LineOf(t, i) = 1 + Cardinality(Below(i)) /\ Cardinality(Below(i)) \in Nat
    BY <1>3, <1>4, Zenon
  <2> QED
    BY <2>1
<1> QED
  BY <1>1, <1>6, <1>7, <1>8

(* Lines do not go back.                                                    *)
LEMMA LinesAscend ==
    ASSUME NEW S, NEW t \in Seq(S), NEW i \in 1..(Len(t) + 1), NEW j \in 1..(Len(t) + 1), i <= j
    PROVE  Plaintext!LineOf(t, i) <= Plaintext!LineOf(t, j) /\ Plaintext!LineOf(t, i) >= 1
<1> DEFINE at(k) == Plaintext!LineOf(t, k)
<1>1. /\ Len(t) \in Nat /\ (\A k \in Nat : at(k) \in Nat) /\ at(1) = 1
      /\ \A k \in 1..Len(t) : at(k + 1) = at(k) + 1 \/ at(k + 1) = at(k)
  BY LineOfIs
<1> HIDE DEF at
<1>2. ASSUME NEW a \in 1..(Len(t) + 1), NEW b \in 1..(Len(t) + 1), a <= b
      PROVE  at(a) <= at(b)
  <2> DEFINE T == {k \in Nat : a + k <= Len(t) + 1 => at(a) <= at(a + k)}
  <2>1. 0 \in T
    BY <1>1
  <2>2. ASSUME NEW k \in Nat, k \in T
        PROVE  k + 1 \in T
    <3> SUFFICES ASSUME a + (k + 1) <= Len(t) + 1 PROVE at(a) <= at(a + (k + 1))
      OBVIOUS
    <3>1. a \in Nat /\ Len(t) \in Nat /\ a + k <= Len(t) + 1
      BY <1>1
    <3>2. a + k \in 1..Len(t) /\ (a + k) + 1 = a + (k + 1)
      BY <3>1
    <3>3. at(a) <= at(a + k)
      BY <2>2, <3>1
    <3>4. at(a + (k + 1)) = at(a + k) + 1 \/ at(a + (k + 1)) = at(a + k)
      BY <1>1, <3>2
    <3>5. at(a) \in Nat /\ at(a + k) \in Nat
      BY <1>1, <3>2
    <3> QED
      BY <3>2, <3>4, <3>5, <3>3
  <2>3. b - a \in Nat /\ a + (b - a) = b
    BY <1>2
  <2> HIDE DEF T
  <2>4. b - a \in T
    BY <2>1, <2>2, <2>3, SetInduction
  <2> QED
    BY <2>3, <2>4 DEF T
<1>3. at(1) <= at(i) /\ at(i) \in Nat
  <2>1. 1 \in 1..(Len(t) + 1) /\ 1 <= i /\ i \in Nat
    BY <1>1
  <2> QED
    BY <1>1, <1>2, <2>1, Zenon
<1>4. at(i) <= at(j)
  BY <1>2
<1> QED
  BY <1>1, <1>3, <1>4 DEF at

(* The offset of a line: the first place that is not above it.              *)
FirstOn(t, l, x) ==
    x \in 1..(Len(t) + 1) /\ \A i \in 1..Len(t) : Plaintext!LineOf(t, i) >= l <=> i >= x

LEMMA OffsetIs ==
    ASSUME NEW S, NEW t \in Seq(S), NEW l \in Int
    PROVE  /\ FirstOn(t, l, Plaintext!LineToOffset(t, l))
           /\ \A x : FirstOn(t, l, x) => x = Plaintext!LineToOffset(t, l)
<1> DEFINE at(k) == Plaintext!LineOf(t, k)
           s == {i \in 1..Len(t) : at(i) >= l} \union {Len(t) + 1}
           o == Min(s)
<1>1. Len(t) \in Nat /\ (\A k \in Nat : at(k) \in Nat) /\ DOMAIN t = 1..Len(t)
  BY LineOfIs
<1>2. \A i, j \in 1..Len(t) : i <= j => at(i) <= at(j)
  <2> SUFFICES ASSUME NEW i \in 1..Len(t), NEW j \in 1..Len(t), i <= j PROVE at(i) <= at(j)
    OBVIOUS
  <2>1. i \in 1..(Len(t) + 1) /\ j \in 1..(Len(t) + 1)
    OBVIOUS
  <2> QED
    BY <2>1, LinesAscend, Zenon
<1>3. Plaintext!LineToOffset(t, l) = o
  BY <1>1, PlaintextUse, Zenon DEF Plaintext!LineToOffset
<1> HIDE DEF at
<1>4. s \in SUBSET Nat /\ s # {}
  <2>1. Len(t) + 1 \in s /\ \A i \in s : i \in 1..Len(t) \/ i = Len(t) + 1
    OBVIOUS
  <2> HIDE DEF s
  <2>2. \A i \in s : i \in Nat
    BY <1>1, <2>1, SMTT(40)
  <2> QED
    BY <2>1, <2>2
<1>5. o \in s /\ \A i \in s : o <= i
  <2> HIDE DEF s
  <2> QED
    BY <1>4, MinIs
<1> HIDE DEF o
<1>6. o \in 1..(Len(t) + 1)
  BY <1>1, <1>5
<1>7. ASSUME NEW i \in 1..Len(t)
      PROVE  at(i) >= l <=> i >= o
  <2>1. at(i) >= l => i >= o
    BY <1>5, <1>6
  <2>2. ASSUME i >= o PROVE at(i) >= l
    <3>1. o \in 1..Len(t) /\ at(o) >= l
      BY <1>5, <1>6, <2>2
    <3>2. at(o) <= at(i) /\ at(o) \in Nat /\ at(i) \in Nat
      BY <1>1, <1>2, <1>6, <2>2, <3>1
    <3> QED
      BY <3>1, <3>2
  <2> QED
    BY <2>1, <2>2
<1>8. FirstOn(t, l, o)
  BY <1>6, <1>7 DEF FirstOn, at
<1>9. ASSUME NEW x, FirstOn(t, l, x)
      PROVE  x = o
  <2>1. x \in 1..(Len(t) + 1) /\ \A i \in 1..Len(t) : i >= o <=> i >= x
    BY <1>7, <1>9 DEF FirstOn, at
  <2>2. x \in Nat /\ o \in Nat /\ x <= Len(t) + 1 /\ o <= Len(t) + 1 /\ x >= 1 /\ o >= 1
    BY <1>1, <1>6, <2>1
  <2>3. ASSUME x < o PROVE FALSE
    <3>1. x \in 1..Len(t)
      BY <1>1, <2>2, <2>3
    <3> QED
      BY <2>1, <2>2, <2>3, <3>1
  <2>4. ASSUME o < x PROVE FALSE
    <3>1. o \in 1..Len(t)
      BY <1>1, <2>2, <2>4
    <3> QED
      BY <2>1, <2>2, <2>4, <3>1
  <2> QED
    BY <2>2, <2>3, <2>4
<1> QED
  BY <1>3, <1>8, <1>9

(* The number of lines is the line of the last place.                       *)
LEMMA CountIs ==
    ASSUME NEW S, NEW t \in Seq(S)
    PROVE  /\ Plaintext!CountLines(t) \in Nat
           /\ t = <<>> => Plaintext!CountLines(t) = 0
           /\ t # <<>> => /\ Len(t) \in 1..Len(t)
                          /\ Plaintext!CountLines(t) = Plaintext!LineOf(t, Len(t))
                          /\ Plaintext!CountLines(t) >= 1
<1>1. CASE t = <<>>
  BY <1>1, Zenon DEF Plaintext!CountLines
<1>2. CASE t # <<>>
  <2>1. Len(t) \in 1..Len(t) /\ Len(t) \in 1..(Len(t) + 1) /\ Len(t) \in Nat
    BY <1>2
  <2>2. {b \in Plaintext!Breaks(t) : b < Len(t)} = Plaintext!Breaks(t) \ {Len(t)}
    <3>1. \A b \in Plaintext!Breaks(t) : b \in 1..Len(t)
      BY DEF Plaintext!Breaks
    <3> QED
      BY <2>1, <3>1
  <2>3. Plaintext!CountLines(t) = Plaintext!LineOf(t, Len(t))
    BY <1>2, <2>2, Zenon DEF Plaintext!CountLines, Plaintext!LineOf
  <2>4. Plaintext!LineOf(t, Len(t)) \in Nat
    BY <2>1, LineOfIs, Zenon
  <2>5. Plaintext!LineOf(t, Len(t)) >= 1
    BY <2>1, LinesAscend
  <2> QED
    BY <1>2, <2>1, <2>3, <2>4, <2>5
<1> QED
  BY <1>1, <1>2

(* Where the lines start: the first at 1, those there are none of behind     *)
(* the end, and in order.                                                   *)
LEMMA OffsetsAre ==
    ASSUME NEW S, NEW t \in Seq(S)
    PROVE  /\ \A l \in Int : Plaintext!LineToOffset(t, l) \in 1..(Len(t) + 1)
           /\ Plaintext!LineToOffset(t, 1) = 1
           /\ \A l \in Int : l > Plaintext!CountLines(t) => Plaintext!LineToOffset(t, l) = Len(t) + 1
           /\ \A l, m \in Int : l <= m => Plaintext!LineToOffset(t, l) <= Plaintext!LineToOffset(t, m)
<1> DEFINE at(i) == Plaintext!LineOf(t, i)
           O(l) == Plaintext!LineToOffset(t, l)
<1>1. Len(t) \in Nat /\ \A i \in 1..Len(t) : at(i) \in Nat /\ at(i) >= 1
  <2>1. Len(t) \in Nat
    OBVIOUS
  <2>2. ASSUME NEW i \in 1..Len(t)
        PROVE  at(i) \in Nat /\ at(i) >= 1
    <3>1. i \in Nat /\ i \in 1..(Len(t) + 1) /\ i <= i
      BY <2>1
    <3> QED
      BY <3>1, LineOfIs, LinesAscend, Zenon
  <2> QED
    BY <2>1, <2>2
<1>2. ASSUME NEW l \in Int
      PROVE  O(l) \in 1..(Len(t) + 1) /\ \A i \in 1..Len(t) : at(i) >= l <=> i >= O(l)
  <2>1. FirstOn(t, l, O(l))
    BY OffsetIs, Zenon
  <2> QED
    BY <2>1, Zenon DEF FirstOn
<1>3. ASSUME NEW l \in Int, NEW x, FirstOn(t, l, x)
      PROVE  x = O(l)
  BY <1>3, OffsetIs, Zenon
<1>4. O(1) = 1
  <2>1. FirstOn(t, 1, 1)
    <3>1. 1 \in 1..(Len(t) + 1) /\ \A i \in 1..Len(t) : at(i) >= 1 <=> i >= 1
      BY <1>1
    <3> QED
      BY <3>1 DEF FirstOn
  <2> QED
    BY <1>3, <2>1
<1>5. ASSUME NEW l \in Int, l > Plaintext!CountLines(t)
      PROVE  O(l) = Len(t) + 1
  <2>1. \A i \in 1..Len(t) : at(i) < l
    <3> SUFFICES ASSUME NEW i \in 1..Len(t) PROVE at(i) < l
      OBVIOUS
    <3>1. t # <<>> /\ i \in 1..(Len(t) + 1) /\ Len(t) \in 1..(Len(t) + 1) /\ i <= Len(t)
      BY <1>1
    <3>2. at(i) <= at(Len(t)) /\ at(Len(t)) = Plaintext!CountLines(t)
      BY <3>1, LinesAscend, CountIs, Zenon
    <3>3. at(i) \in Nat /\ Plaintext!CountLines(t) \in Nat
      BY <1>1, CountIs, Zenon
    <3> HIDE DEF at
    <3> QED
      BY <1>5, <3>2, <3>3
  <2> HIDE DEF at, O
  <2>2. O(l) \in Nat /\ O(l) <= Len(t) + 1 /\ O(l) >= 1
    BY <1>1, <1>2, SMTT(40)
  <2>3. ASSUME O(l) <= Len(t) PROVE FALSE
    <3>1. O(l) \in 1..Len(t) /\ O(l) >= O(l)
      BY <1>1, <2>2, <2>3
    <3>2. at(O(l)) >= l /\ at(O(l)) < l /\ at(O(l)) \in Nat
      BY <1>1, <1>2, <2>1, <3>1
    <3> QED
      BY <3>2
  <2> QED
    BY <1>1, <2>2, <2>3
<1>6. ASSUME NEW l \in Int, NEW m \in Int, l <= m
      PROVE  O(l) <= O(m)
  <2> HIDE DEF at, O
  <2>1. O(l) \in 1..(Len(t) + 1) /\ O(m) \in 1..(Len(t) + 1)
    BY <1>2, Zenon
  <2>2. O(l) \in Nat /\ O(l) <= Len(t) + 1 /\ O(l) >= 1 /\ O(m) \in Nat /\ O(m) <= Len(t) + 1 /\ O(m) >= 1
    BY <2>1
  <2>3. ASSUME O(m) < O(l) PROVE FALSE
    <3>1. O(m) \in 1..Len(t) /\ O(m) >= O(m)
      BY <1>1, <2>2, <2>3
    <3>2. at(O(m)) >= m /\ at(O(m)) \in Nat
      BY <1>1, <1>2, <3>1
    <3>3. at(O(m)) >= l
      BY <1>6, <3>2
    <3>4. O(m) >= O(l)
      BY <1>2, <3>1, <3>3
    <3> QED
      BY <2>2, <2>3, <3>4
  <2> QED
    BY <2>2, <2>3
<1> QED
  BY <1>2, <1>4, <1>5, <1>6

(* Neighbouring stretches of a sequence, flattened, are the stretch from the *)
(* first to the last.                                                       *)
LEMMA FlattenIs ==
    ASSUME NEW S, NEW t \in Seq(S), NEW m \in Nat, NEW cut \in [0..m -> 1..(Len(t) + 1)],
           \A j \in 1..m : cut[j - 1] <= cut[j],
           NEW parts, parts = [j \in 1..m |-> SubSeq(t, cut[j - 1], cut[j] - 1)]
    PROVE  Plaintext!FlattenSeq(parts) = SubSeq(t, cut[0], cut[m] - 1)
<1> DEFINE Eq(f) == f = [i \in 1..m |-> IF i = 1 THEN parts[i] ELSE f[i - 1] \o parts[i]]
           iter == CHOOSE f : Eq(f)
           upTo(i) == SubSeq(t, cut[0], cut[i] - 1)
<1>1. Len(t) \in Nat /\ \A j \in 0..m : cut[j] \in Nat /\ cut[j] >= 1 /\ cut[j] <= Len(t) + 1
  <2>1. Len(t) \in Nat
    OBVIOUS
  <2> QED
    BY <2>1
<1>2. Len(parts) = m /\ DOMAIN parts = 1..m
  OBVIOUS
<1>3. CASE m = 0
  <2>1. Plaintext!FlattenSeq(parts) = parts
    BY <1>2, <1>3, PlaintextUse DEF FlattenSeq
  <2>2. parts = <<>>
    BY <1>3
  <2>3. SubSeq(t, cut[0], cut[0] - 1) = <<>>
    <3>1. cut[0] \in Int /\ cut[0] - 1 \in Int /\ cut[0] - 1 < cut[0]
      BY <1>1
    <3> QED
      BY <3>1, SubSeqEmpty
  <2> QED
    BY <1>3, <2>1, <2>2, <2>3
<1>4. CASE m # 0
  <2>1. Plaintext!FlattenSeq(parts) = iter[m]
    <3>1. Plaintext!FlattenSeq(parts) = FlattenSeq(parts) /\ Len(parts) # 0
      BY <1>2, <1>4, PlaintextUse
    <3> QED
      BY <1>2, <3>1, Zenon DEF FlattenSeq
  <2>2. \A i \in 1..m : cut[0] <= cut[i]
    <3> DEFINE T == {k \in Nat : k <= m => cut[0] <= cut[k]}
    <3>1. 0 \in T
      BY <1>1
    <3>2. ASSUME NEW k \in Nat, k \in T PROVE k + 1 \in T
      <4> SUFFICES ASSUME k + 1 <= m PROVE cut[0] <= cut[k + 1]
        OBVIOUS
      <4>1. k + 1 \in 1..m /\ (k + 1) - 1 = k /\ k \in 0..m /\ 0 \in 0..m /\ k + 1 \in 0..m
        OBVIOUS
      <4>2. cut[k] <= cut[k + 1]
        BY <4>1, Zenon
      <4>3. cut[0] <= cut[k]
        BY <3>2, <4>1
      <4> QED
        BY <1>1, <4>1, <4>2, <4>3
    <3> HIDE DEF T
    <3>3. Nat \subseteq T
      BY <3>1, <3>2, SetInduction
    <3> QED
      BY <3>3 DEF T
  <2>3. ASSUME NEW i \in 1..m, i # 1
        PROVE  upTo(i) = upTo(i - 1) \o parts[i]
    <3>1. /\ i - 1 \in 1..m /\ cut[0] <= cut[i - 1] /\ cut[i - 1] <= cut[i]
          /\ parts[i] = SubSeq(t, cut[i - 1], cut[i] - 1)
      <4>1. i - 1 \in 1..m
        BY <2>3
      <4> QED
        BY <2>2, <4>1
    <3>2. cut[0] \in 1..(Len(t) + 1) /\ cut[i - 1] - 1 \in (cut[0] - 1)..Len(t) /\ cut[i] - 1 \in (cut[i - 1] - 1)..Len(t)
      <4>1. 0 \in 0..m /\ i - 1 \in 0..m /\ i \in 0..m
        BY <3>1
      <4> QED
        BY <1>1, <3>1, <4>1
    <3>3. (cut[i - 1] - 1) + 1 = cut[i - 1]
      <4>1. i - 1 \in 0..m
        BY <3>1
      <4> QED
        BY <1>1, <4>1
    <3> DEFINE k == cut[i - 1] - 1
               n == cut[i] - 1
    <3>4. k + 1 = cut[i - 1] /\ k \in (cut[0] - 1)..Len(t) /\ n \in k..Len(t)
      BY <3>2, <3>3
    <3>5. SubSeq(t, cut[0], k) \o SubSeq(t, k + 1, n) = SubSeq(t, cut[0], n)
      <4> HIDE DEF k, n
      <4> QED
        BY <3>2, <3>4, ConcatAdjacentSubSeq
    <3> QED
      BY <3>1, <3>4, <3>5
  <2>4. parts[1] = upTo(1)
    BY <1>4, SMTT(40)
  <2> HIDE DEF upTo
  <2>5. Eq([i \in 1..m |-> upTo(i)])
    <3> DEFINE g == [i \in 1..m |-> upTo(i)]
    <3>1. ASSUME NEW i \in 1..m
          PROVE  g[i] = IF i = 1 THEN parts[i] ELSE g[i - 1] \o parts[i]
      <4>1. i # 1 => i - 1 \in 1..m
        OBVIOUS
      <4> QED
        BY <2>3, <2>4, <4>1
    <3> QED
      BY <3>1
  <2>6. Eq(iter)
    <3> HIDE DEF Eq
    <3> QED
      BY <2>5, Zenon
  <2> HIDE DEF iter
  <2>7. \A i \in 1..m : iter[i] = IF i = 1 THEN parts[i] ELSE iter[i - 1] \o parts[i]
    BY <2>6, Zenon
  <2> HIDE DEF Eq
  <2> DEFINE T == {k \in Nat : k + 1 <= m => iter[k + 1] = upTo(k + 1)}
  <2>8. 0 \in T
    <3>1. 1 \in 1..m /\ 0 + 1 = 1
      BY <1>4
    <3>2. iter[1] = upTo(1)
      BY <2>4, <2>7, <3>1, Zenon
    <3> QED
      BY <3>1, <3>2
  <2>9. ASSUME NEW k \in Nat, k \in T PROVE k + 1 \in T
    <3> SUFFICES ASSUME (k + 1) + 1 <= m PROVE iter[(k + 1) + 1] = upTo((k + 1) + 1)
      OBVIOUS
    <3>1. PICK i \in 1..m : i = (k + 1) + 1 /\ i # 1 /\ i - 1 = k + 1
      OBVIOUS
    <3>2. iter[i - 1] = upTo(i - 1)
      BY <2>9, <3>1
    <3>3. iter[i] = iter[i - 1] \o parts[i] /\ upTo(i) = upTo(i - 1) \o parts[i]
      BY <2>3, <2>7, <3>1, Zenon
    <3> QED
      BY <3>1, <3>2, <3>3
  <2> HIDE DEF T
  <2>10. Nat \subseteq T
    BY <2>8, <2>9, SetInduction
  <2>11. iter[m] = upTo(m)
    <3>1. m - 1 \in T /\ (m - 1) + 1 = m
      BY <1>4, <2>10
    <3> QED
      BY <3>1 DEF T
  <2> QED
    BY <2>1, <2>11 DEF upTo
<1> QED
  BY <1>3, <1>4

(* The lines of a text, those from p to q joined.                           *)
LEMMA LinesAre ==
    ASSUME NEW S, NEW t \in Seq(S)
    PROVE  /\ Plaintext!Lines(t) \in Seq(Seq(S))
           /\ Len(Plaintext!Lines(t)) = Plaintext!CountLines(t)
           /\ \A l \in 1..Plaintext!CountLines(t) : Plaintext!Lines(t)[l]
                = SubSeq(t, Plaintext!LineToOffset(t, l), Plaintext!LineToOffset(t, l + 1) - 1)
<1> DEFINE K == Plaintext!CountLines(t)
           O(l) == Plaintext!LineToOffset(t, l)
           L == Plaintext!Lines(t)
<1>1. K \in Nat
  BY CountIs, Zenon
<1>2. L = [l \in 1..K |-> SubSeq(t, O(l), O(l + 1) - 1)]
  BY Zenon DEF Plaintext!Lines, Plaintext!ReadLineRange
<1> HIDE DEF L, K, O
<1>3. ASSUME NEW l \in 1..K
      PROVE  SubSeq(t, O(l), O(l + 1) - 1) \in Seq(S)
  <2>1. l \in Int /\ l + 1 \in Int
    BY <1>1
  <2>2. O(l) \in 1..(Len(t) + 1) /\ O(l + 1) \in 1..(Len(t) + 1)
    BY <2>1, OffsetsAre, Zenon DEF O
  <2>3. Len(t) \in Nat
    OBVIOUS
  <2>4. PICK a \in 1..(Len(t) + 1), b \in 1..(Len(t) + 1) : a = O(l) /\ b = O(l + 1)
    BY <2>2
  <2>5. a \in Int /\ b - 1 \in Int /\ \A i \in a..(b - 1) : t[i] \in S
    BY <2>3
  <2>6. SubSeq(t, a, b - 1) \in Seq(S)
    BY <2>5, SubSeqProperties
  <2> QED
    BY <2>4, <2>6
<1>4. L \in [1..K -> Seq(S)]
  BY <1>2, <1>3
<1>5. L \in Seq(Seq(S)) /\ Len(L) = K
  BY <1>1, <1>4
<1>6. \A l \in 1..K : L[l] = SubSeq(t, O(l), O(l + 1) - 1)
  BY <1>2
<1> QED
  BY <1>5, <1>6 DEF L, K, O

LEMMA JoinedIs ==
    ASSUME NEW S, NEW t \in Seq(S), NEW p \in 1..(Plaintext!CountLines(t) + 1),
           NEW q \in (p - 1)..Plaintext!CountLines(t)
    PROVE  Plaintext!Joined(SubSeq(Plaintext!Lines(t), p, q))
             = SubSeq(t, Plaintext!LineToOffset(t, p), Plaintext!LineToOffset(t, q + 1) - 1)
<1> DEFINE K == Plaintext!CountLines(t)
           O(l) == Plaintext!LineToOffset(t, l)
           L == Plaintext!Lines(t)
           m == q - p + 1
           cut == [j \in 0..m |-> O(p + j)]
           parts == SubSeq(L, p, q)
<1>1. K \in Nat /\ L \in Seq(Seq(S)) /\ Len(L) = K
      /\ \A l \in 1..K : L[l] = SubSeq(t, O(l), O(l + 1) - 1)
  BY CountIs, LinesAre, Zenon
<1>2. \A l \in Int : O(l) \in 1..(Len(t) + 1)
  BY OffsetsAre, Zenon
<1>3. \A l \in Int : O(l) <= O(l + 1)
  <2> SUFFICES ASSUME NEW l \in Int PROVE O(l) <= O(l + 1)
    OBVIOUS
  <2>1. l + 1 \in Int /\ l <= l + 1
    OBVIOUS
  <2> QED
    BY <2>1, OffsetsAre, Zenon
<1> HIDE DEF L, K, O
<1>4. p \in Int /\ q \in Int /\ 1 <= p /\ p <= K + 1 /\ p - 1 <= q /\ q <= K
  BY <1>1 DEF K
<1>5. m \in Nat /\ p + m = q + 1 /\ p + 0 = p
  BY <1>4
<1>6. cut \in [0..m -> 1..(Len(t) + 1)]
  <2>1. \A j \in 0..m : p + j \in Int
    BY <1>4
  <2> QED
    BY <1>2, <2>1
<1>7. ASSUME NEW j \in 1..m
      PROVE  cut[j - 1] <= cut[j]
  <2>1. j - 1 \in 0..m /\ j \in 0..m /\ p + (j - 1) \in Int /\ (p + (j - 1)) + 1 = p + j
    BY <1>4
  <2>2. O(p + (j - 1)) <= O(p + j)
    BY <1>3, <2>1
  <2> QED
    BY <2>1, <2>2
<1>8. parts = [j \in 1..m |-> SubSeq(t, cut[j - 1], cut[j] - 1)]
  <2>1. parts = [j \in 1..m |-> L[p + j - 1]]
    <3>1. \A i \in p..q : L[i] \in Seq(S)
      BY <1>1, <1>4
    <3>2. /\ parts \in Seq(Seq(S)) /\ Len(parts) = IF p <= q THEN q - p + 1 ELSE 0
          /\ \A j \in 1..(q - p + 1) : parts[j] = L[p + j - 1]
      BY <1>4, <3>1, SubSeqProperties
    <3> HIDE DEF parts
    <3>3. Len(parts) = m
      BY <1>4, <3>2
    <3> QED
      BY <3>2, <3>3
  <2>2. ASSUME NEW j \in 1..m
        PROVE  L[p + j - 1] = SubSeq(t, cut[j - 1], cut[j] - 1)
    <3>1. /\ p + j - 1 \in 1..K /\ j - 1 \in 0..m /\ j \in 0..m
          /\ p + j - 1 = p + (j - 1) /\ (p + j - 1) + 1 = p + j
      BY <1>1, <1>4
    <3>2. cut[j - 1] = O(p + (j - 1)) /\ cut[j] = O(p + j)
      BY <3>1
    <3> HIDE DEF cut
    <3> QED
      BY <1>1, <3>1, <3>2
  <2> HIDE DEF parts, cut
  <2> QED
    BY <2>1, <2>2
<1>9. cut[0] = O(p) /\ cut[m] = O(q + 1)
  BY <1>5
<1> HIDE DEF cut, parts, m
<1>10. Plaintext!FlattenSeq(parts) = SubSeq(t, cut[0], cut[m] - 1)
  BY <1>5, <1>6, <1>7, <1>8, FlattenIs
<1> QED
  BY <1>9, <1>10 DEF parts, L, O, Plaintext!Joined

(* Replacing a range of lines: what it is made of.                          *)
LEMMA ReplacedTyped ==
    ASSUME NEW S, NEW t \in Seq(S), NEW c \in Seq(S), NEW from \in Int, NEW to \in Int
    PROVE  /\ SubSeq(t, 1, Plaintext!LineToOffset(t, from) - 1) \in Seq(S)
           /\ SubSeq(t, Plaintext!LineToOffset(t, to + 1), Len(t)) \in Seq(S)
           /\ Plaintext!ReplaceLineRange(t, from, to, c) \in Seq(S)
<1>1. Len(t) \in Nat
  OBVIOUS
<1>2. PICK a \in 1..(Len(t) + 1) : a = Plaintext!LineToOffset(t, from)
  BY OffsetsAre
<1>3. PICK b \in 1..(Len(t) + 1) : b = Plaintext!LineToOffset(t, to + 1)
  <2>1. to + 1 \in Int
    OBVIOUS
  <2> QED
    BY <2>1, OffsetsAre
<1>4. SubSeq(t, 1, a - 1) \in Seq(S)
  <2>1. 1 \in Int /\ a - 1 \in Int /\ \A i \in 1..(a - 1) : t[i] \in S
    BY <1>1
  <2> QED
    BY <2>1, SubSeqProperties
<1>5. SubSeq(t, b, Len(t)) \in Seq(S)
  <2>1. b \in Int /\ Len(t) \in Int /\ \A i \in b..Len(t) : t[i] \in S
    BY <1>1
  <2> QED
    BY <2>1, SubSeqProperties
<1>6. (SubSeq(t, 1, a - 1) \o c) \o SubSeq(t, b, Len(t)) \in Seq(S)
  <2> DEFINE x == SubSeq(t, 1, a - 1)
             y == SubSeq(t, b, Len(t))
  <2>1. x \in Seq(S) /\ y \in Seq(S)
    BY <1>4, <1>5
  <2> HIDE DEF x, y
  <2>2. (x \o c) \o y \in Seq(S)
    BY <2>1, ConcatProperties, Zenon
  <2> QED
    BY <2>2 DEF x, y
<1> QED
  BY <1>2, <1>3, <1>4, <1>5, <1>6, Zenon DEF Plaintext!ReplaceLineRange

LEMMA ReplaceKeeps ==
    ASSUME NEW S, NEW t \in Seq(S), NEW c \in Seq(S), NEW from \in Int, NEW to \in Int,
           Plaintext!ReplaceAllowed(t, from, to)
    PROVE  Plaintext!ReplaceLineRange(t, from, to, c)
             = Plaintext!Joined(SubSeq(Plaintext!Lines(t), 1,
                                       Plaintext!Min({from - 1, Len(Plaintext!Lines(t))})))
                 \o c
                 \o Plaintext!Joined(SubSeq(Plaintext!Lines(t), to + 1, Len(Plaintext!Lines(t))))
<1> DEFINE O(l) == Plaintext!LineToOffset(t, l)
           L == Plaintext!Lines(t)
           K == Plaintext!CountLines(t)
<1>1. K \in Nat /\ Len(L) = K
  BY CountIs, LinesAre, Zenon
<1>2. from >= 1 /\ to >= from - 1
  <2>1. from >= 1 /\ (to = from - 1 \/ to >= from)
    BY Zenon DEF Plaintext!ReplaceAllowed, Plaintext!RangeAllowed
  <2> QED
    BY <2>1
<1>3. O(1) = 1 /\ \A l \in Int : l > K => O(l) = Len(t) + 1
  BY OffsetsAre, Zenon
<1>4. \A p \in 1..(K + 1) : \A q \in (p - 1)..K :
         Plaintext!Joined(SubSeq(L, p, q)) = SubSeq(t, O(p), O(q + 1) - 1)
  BY JoinedIs, Zenon
<1>5. PICK m \in {from - 1, K} : m = Plaintext!Min({from - 1, K}) /\ m <= from - 1 /\ m <= K
  <2>1. {from - 1, K} \in SUBSET Nat /\ {from - 1, K} # {}
    BY <1>1, <1>2
  <2>2. Min({from - 1, K}) \in {from - 1, K} /\ \A i \in {from - 1, K} : Min({from - 1, K}) <= i
    BY <2>1, MinIs, Zenon
  <2> QED
    BY <2>2, PlaintextUse
<1>6. PICK j : j = Plaintext!Joined(SubSeq(L, 1, m))
  OBVIOUS
<1>7. PICK e : e = Plaintext!Joined(SubSeq(L, to + 1, K))
  OBVIOUS
<1> HIDE DEF O, L, K
<1>8. j = SubSeq(t, 1, O(from) - 1)
  <2>1. m \in Int /\ 0 <= m /\ m <= K
    BY <1>1, <1>2, <1>5
  <2>2. 1 \in 1..(K + 1) /\ m \in (1 - 1)..K
    BY <1>1, <2>1
  <2>3. j = SubSeq(t, 1, O(m + 1) - 1)
    BY <1>3, <1>4, <1>6, <2>2
  <2>4. O(m + 1) = O(from)
    <3>1. CASE m = from - 1
      <4>1. m + 1 = from
        BY <3>1
      <4> QED
        BY <4>1
    <3>2. CASE m = K
      <4>1. m + 1 > K /\ from > K /\ m + 1 \in Int
        BY <1>1, <1>5, <3>2
      <4> QED
        BY <1>3, <4>1, Zenon
    <3> QED
      BY <1>5, <3>1, <3>2
  <2> QED
    BY <2>3, <2>4
<1>9. e = SubSeq(t, O(to + 1), Len(t))
  <2>1. O(K + 1) - 1 = Len(t)
    <3>1. K + 1 \in Int /\ K + 1 > K /\ Len(t) \in Nat
      BY <1>1
    <3>2. O(K + 1) = Len(t) + 1
      BY <1>3, <3>1, Zenon
    <3> QED
      BY <3>1, <3>2
  <2>2. CASE to <= K
    <3>1. to + 1 \in 1..(K + 1) /\ K \in ((to + 1) - 1)..K
      BY <1>1, <1>2, <2>2
    <3>2. e = SubSeq(t, O(to + 1), O(K + 1) - 1)
      BY <1>4, <1>7, <3>1, Zenon
    <3> QED
      BY <2>1, <3>2
  <2>3. CASE to > K
    <3>1. to + 1 \in Int /\ to + 1 > K /\ K \in Int /\ K < to + 1
      BY <1>1, <2>3
    <3>2. SubSeq(L, to + 1, K) = <<>>
      BY <3>1, SubSeqEmpty
    <3>3. Plaintext!Joined(<<>>) = <<>>
      <4>1. Len(<<>>) = 0
        OBVIOUS
      <4> QED
        BY <4>1, PlaintextUse, Zenon DEF Plaintext!Joined, FlattenSeq
    <3>4. O(to + 1) = Len(t) + 1
      BY <1>3, <3>1, Zenon
    <3>5. Len(t) \in Int /\ Len(t) + 1 \in Int /\ Len(t) < Len(t) + 1
      OBVIOUS
    <3>6. SubSeq(t, Len(t) + 1, Len(t)) = <<>>
      BY <3>5, SubSeqEmpty
    <3> QED
      BY <1>7, <3>2, <3>3, <3>4, <3>6
  <2> QED
    BY <1>1, <2>2, <2>3
<1>10. Plaintext!ReplaceLineRange(t, from, to, c) = j \o c \o e
  BY <1>8, <1>9, Zenon DEF Plaintext!ReplaceLineRange, O
<1> QED
  BY <1>1, <1>5, <1>6, <1>7, <1>10, Zenon DEF K, L

-----------------------------------------------------------------------------
(* Behind a text that is empty or ends its last line, another one starts a   *)
(* line of its own: the lines are those of the one and those of the other.   *)
Ended(t) == t = <<>> \/ t[Len(t)] = Plaintext!Newline

LEMMA LineInJoin ==
    ASSUME NEW S, NEW u \in Seq(S), NEW v \in Seq(S), Ended(u)
    PROVE  /\ u \o v \in Seq(S) /\ Len(u \o v) = Len(u) + Len(v)
           /\ \A i \in 1..(Len(u) + 1) : Plaintext!LineOf(u \o v, i) = Plaintext!LineOf(u, i)
           /\ \A i \in 1..(Len(v) + 1) : Plaintext!LineOf(u \o v, Len(u) + i)
                                            = Plaintext!CountLines(u) + Plaintext!LineOf(v, i)
<1>1. PICK a \in Nat, b \in Nat : a = Len(u) /\ b = Len(v)
  OBVIOUS
<1>2. PICK w : w = u \o v
  OBVIOUS
<1>3. /\ w \in Seq(S) /\ Len(w) = a + b
      /\ \A i \in 1..(a + b) : w[i] = IF i <= a THEN u[i] ELSE v[i - a]
  BY <1>1, <1>2, ConcatProperties
<1> DEFINE atw(i) == Plaintext!LineOf(w, i)
           atu(i) == Plaintext!LineOf(u, i)
           atv(i) == Plaintext!LineOf(v, i)
           NL == Plaintext!Newline
<1>4. /\ \A i \in Nat : atw(i) \in Nat
      /\ atw(1) = 1
      /\ \A i \in 1..(a + b) : atw(i + 1) = IF w[i] = NL THEN atw(i) + 1 ELSE atw(i)
  BY <1>3, LineOfIs
<1>5. /\ \A i \in Nat : atu(i) \in Nat
      /\ atu(1) = 1
      /\ \A i \in 1..a : atu(i + 1) = IF u[i] = NL THEN atu(i) + 1 ELSE atu(i)
  BY <1>1, LineOfIs
<1>6. /\ \A i \in Nat : atv(i) \in Nat
      /\ atv(1) = 1
      /\ \A i \in 1..b : atv(i + 1) = IF v[i] = NL THEN atv(i) + 1 ELSE atv(i)
  BY <1>1, LineOfIs
<1>7. PICK k \in Nat : k = Plaintext!CountLines(u)
  BY CountIs
<1>8. atu(a + 1) = k + 1
  <2>1. CASE u = <<>>
    <3>1. a = 0 /\ k = 0
      BY <1>1, <1>7, <2>1, CountIs
    <3> QED
      BY <1>5, <3>1
  <2>2. CASE u # <<>>
    <3>1. a \in 1..a /\ k = atu(a) /\ u[a] = NL
      BY <1>1, <1>7, <2>2, CountIs DEF Ended
    <3> HIDE DEF atu, NL
    <3>2. atu(a + 1) = atu(a) + 1
      BY <1>5, <3>1
    <3> QED
      BY <3>1, <3>2
  <2> QED
    BY <2>1, <2>2
<1> HIDE DEF atw, atu, atv, NL
<1>9. \A i \in 1..(a + 1) : atw(i) = atu(i)
  <2> DEFINE T == {j \in Nat : j <= a => atw(j + 1) = atu(j + 1)}
  <2>1. 0 \in T
    BY <1>4, <1>5
  <2>2. ASSUME NEW j \in Nat, j \in T PROVE j + 1 \in T
    <3> SUFFICES ASSUME j + 1 <= a PROVE atw((j + 1) + 1) = atu((j + 1) + 1)
      OBVIOUS
    <3>1. PICK i : i = j + 1
      OBVIOUS
    <3>2. i \in 1..a /\ i \in 1..(a + b) /\ i <= a /\ atw(i) = atu(i)
      BY <2>2, <3>1
    <3>3. w[i] = u[i]
      BY <1>3, <3>2
    <3>4. atw(i + 1) = atu(i + 1)
      BY <1>4, <1>5, <3>2, <3>3
    <3> QED
      BY <3>1, <3>4
  <2> HIDE DEF T
  <2>3. Nat \subseteq T
    BY <2>1, <2>2, SetInduction
  <2>4. ASSUME NEW i \in 1..(a + 1) PROVE atw(i) = atu(i)
    <3>1. i - 1 \in T /\ i - 1 <= a /\ (i - 1) + 1 = i
      BY <2>3
    <3> QED
      BY <3>1 DEF T
  <2> QED
    BY <2>4
<1>10. \A i \in 1..(b + 1) : atw(a + i) = k + atv(i)
  <2> DEFINE T == {j \in Nat : j <= b => atw(a + (j + 1)) = k + atv(j + 1)}
  <2>1. 0 \in T
    <3>1. a + 1 \in 1..(a + 1) /\ 0 + 1 = 1
      OBVIOUS
    <3>2. atw(a + 1) = k + atv(1)
      BY <1>6, <1>8, <1>9, <3>1
    <3> QED
      BY <3>1, <3>2
  <2>2. ASSUME NEW j \in Nat, j \in T PROVE j + 1 \in T
    <3> SUFFICES ASSUME j + 1 <= b PROVE atw(a + ((j + 1) + 1)) = k + atv((j + 1) + 1)
      OBVIOUS
    <3>1. PICK i \in Nat : i = j + 1
      OBVIOUS
    <3>2. i \in 1..b /\ atw(a + i) = k + atv(i)
      BY <2>2, <3>1
    <3>3. PICK p \in 1..(a + b) : p = a + i /\ ~(p <= a) /\ p - a = i /\ p + 1 = a + (i + 1)
      BY <3>2
    <3>4. w[p] = v[i]
      BY <1>3, <3>3
    <3>5. /\ atw(p + 1) = IF v[i] = NL THEN atw(p) + 1 ELSE atw(p)
          /\ atv(i + 1) = IF v[i] = NL THEN atv(i) + 1 ELSE atv(i)
          /\ atv(i) \in Nat
      BY <1>4, <1>6, <3>2, <3>3, <3>4
    <3>6. atw(p + 1) = k + atv(i + 1)
      BY <3>2, <3>3, <3>5
    <3> QED
      BY <3>1, <3>3, <3>6
  <2> HIDE DEF T
  <2>3. Nat \subseteq T
    BY <2>1, <2>2, SetInduction
  <2>4. ASSUME NEW i \in 1..(b + 1) PROVE atw(a + i) = k + atv(i)
    <3>1. i - 1 \in T /\ i - 1 <= b /\ (i - 1) + 1 = i
      BY <2>3
    <3> QED
      BY <3>1 DEF T
  <2> QED
    BY <2>4
<1> QED
  BY <1>1, <1>2, <1>3, <1>7, <1>9, <1>10 DEF atw, atu, atv

LEMMA OffsetInJoin ==
    ASSUME NEW S, NEW u \in Seq(S), NEW v \in Seq(S), Ended(u)
    PROVE  /\ \A l \in 1..(Plaintext!CountLines(u) + 1) :
                 Plaintext!LineToOffset(u \o v, l) = Plaintext!LineToOffset(u, l)
           /\ \A l \in Nat \ {0} : Plaintext!LineToOffset(u \o v, Plaintext!CountLines(u) + l)
                                     = Len(u) + Plaintext!LineToOffset(v, l)
<1>1. PICK a \in Nat, b \in Nat : a = Len(u) /\ b = Len(v)
  OBVIOUS
<1>2. PICK w : w = u \o v
  OBVIOUS
<1>3. PICK k \in Nat : k = Plaintext!CountLines(u)
  BY CountIs
<1> DEFINE atw(i) == Plaintext!LineOf(w, i)
           atu(i) == Plaintext!LineOf(u, i)
           atv(i) == Plaintext!LineOf(v, i)
           Ou(l) == Plaintext!LineToOffset(u, l)
           Ov(l) == Plaintext!LineToOffset(v, l)
           Ow(l) == Plaintext!LineToOffset(w, l)
<1>4. /\ w \in Seq(S) /\ Len(w) = a + b
      /\ \A i \in 1..(a + 1) : atw(i) = atu(i)
      /\ \A i \in 1..(b + 1) : atw(a + i) = k + atv(i)
  BY <1>1, <1>2, <1>3, LineInJoin
<1>5. \A l \in Int : Ou(l) \in 1..(a + 1) /\ \A i \in 1..a : atu(i) >= l <=> i >= Ou(l)
  <2> SUFFICES ASSUME NEW l \in Int
               PROVE  Ou(l) \in 1..(a + 1) /\ \A i \in 1..a : atu(i) >= l <=> i >= Ou(l)
    OBVIOUS
  <2>1. FirstOn(u, l, Ou(l))
    BY OffsetIs, Zenon
  <2> QED
    BY <1>1, <2>1, Zenon DEF FirstOn
<1>6. \A l \in Int : Ov(l) \in 1..(b + 1) /\ \A i \in 1..b : atv(i) >= l <=> i >= Ov(l)
  <2> SUFFICES ASSUME NEW l \in Int
               PROVE  Ov(l) \in 1..(b + 1) /\ \A i \in 1..b : atv(i) >= l <=> i >= Ov(l)
    OBVIOUS
  <2>1. FirstOn(v, l, Ov(l))
    BY OffsetIs, Zenon
  <2> QED
    BY <1>1, <2>1, Zenon DEF FirstOn
<1>7. ASSUME NEW l \in Int, NEW x \in 1..((a + b) + 1), \A i \in 1..(a + b) : atw(i) >= l <=> i >= x
      PROVE  Ow(l) = x
  <2>1. FirstOn(w, l, x)
    BY <1>4, <1>7, Zenon DEF FirstOn
  <2> QED
    BY <1>4, <2>1, OffsetIs, Zenon
<1>8. /\ \A i \in 1..(a + 1) : atu(i) \in Nat
      /\ \A i \in 1..a : atu(i) <= k
      /\ \A i \in 1..b : atv(i) \in Nat /\ atv(i) >= 1
  <2>1. ASSUME NEW i \in 1..(a + 1) PROVE atu(i) \in Nat
    <3>1. i \in Nat
      OBVIOUS
    <3> QED
      BY <3>1, LineOfIs, Zenon
  <2>2. ASSUME NEW i \in 1..a PROVE atu(i) <= k
    <3>1. u # <<>> /\ i \in 1..(Len(u) + 1) /\ Len(u) \in 1..(Len(u) + 1) /\ i <= Len(u)
      BY <1>1
    <3>2. atu(i) <= atu(Len(u))
      BY <3>1, LinesAscend, Zenon
    <3>3. k = atu(Len(u))
      BY <1>3, <3>1, CountIs, Zenon
    <3> QED
      BY <3>2, <3>3, Zenon
  <2>3. ASSUME NEW i \in 1..b PROVE atv(i) \in Nat /\ atv(i) >= 1
    <3>1. i \in Nat /\ i \in 1..(Len(v) + 1) /\ i <= i
      BY <1>1
    <3> QED
      BY <3>1, LineOfIs, LinesAscend, Zenon
  <2> QED
    BY <2>1, <2>2, <2>3
<1> HIDE DEF atw, atu, atv, Ou, Ov, Ow
<1>9. ASSUME NEW l \in 1..(k + 1)
      PROVE  Ow(l) = Ou(l)
  <2>1. PICK x \in 1..(a + 1) : x = Ou(l) /\ \A i \in 1..a : atu(i) >= l <=> i >= x
    BY <1>5, SMTT(40)
  <2>2. ASSUME NEW i \in 1..(a + b) PROVE atw(i) >= l <=> i >= x
    <3>1. CASE i <= a
      <4>1. i \in 1..a /\ i \in 1..(a + 1)
        BY <3>1
      <4> QED
        BY <1>4, <2>1, <4>1
    <3>2. CASE i > a
      <4>1. PICK j \in 1..b : i = a + j
        <5>1. i - a \in 1..b /\ i = a + (i - a)
          BY <3>2
        <5> QED
          BY <5>1
      <4>2. j \in 1..(b + 1)
        OBVIOUS
      <4>3. atw(i) = k + atv(j) /\ atv(j) \in Nat /\ atv(j) >= 1
        BY <1>4, <1>8, <4>1, <4>2
      <4> QED
        BY <3>2, <4>3
    <3> QED
      BY <3>1, <3>2
  <2>3. x \in 1..((a + b) + 1) /\ l \in Int
    OBVIOUS
  <2> QED
    BY <1>7, <2>1, <2>2, <2>3
<1>10. ASSUME NEW l \in Nat \ {0}
       PROVE  Ow(k + l) = a + Ov(l)
  <2>1. PICK y \in 1..(b + 1) : y = Ov(l) /\ \A i \in 1..b : atv(i) >= l <=> i >= y
    BY <1>6, SMTT(40)
  <2>2. PICK x \in 1..((a + b) + 1) : x = a + y
    OBVIOUS
  <2>3. ASSUME NEW i \in 1..(a + b) PROVE atw(i) >= k + l <=> i >= x
    <3>1. CASE i <= a
      <4>1. i \in 1..a /\ i \in 1..(a + 1) /\ ~(i >= x)
        BY <2>2, <3>1
      <4>2. atw(i) = atu(i) /\ atu(i) <= k /\ atu(i) \in Nat
        BY <1>4, <1>8, <4>1
      <4> QED
        BY <4>1, <4>2
    <3>2. CASE i > a
      <4>1. PICK j \in 1..b : i = a + j
        <5>1. i - a \in 1..b /\ i = a + (i - a)
          BY <3>2
        <5> QED
          BY <5>1
      <4>2. j \in 1..(b + 1)
        OBVIOUS
      <4>3. atw(i) = k + atv(j) /\ atv(j) \in Nat
        BY <1>4, <1>8, <4>1, <4>2
      <4>4. i >= x <=> j >= y
        BY <2>2, <4>1
      <4>5. atv(j) >= l <=> j >= y
        BY <2>1
      <4> QED
        BY <4>3, <4>4, <4>5
    <3> QED
      BY <3>1, <3>2
  <2>4. k + l \in Int
    OBVIOUS
  <2> QED
    BY <1>7, <2>1, <2>2, <2>3, <2>4
<1> QED
  BY <1>1, <1>2, <1>3, <1>9, <1>10 DEF Ou, Ov, Ow

LEMMA LinesInJoin ==
    ASSUME NEW S, NEW u \in Seq(S), NEW v \in Seq(S), Ended(u)
    PROVE  Plaintext!Lines(u \o v) = Plaintext!Lines(u) \o Plaintext!Lines(v)
<1>1. PICK a \in Nat, b \in Nat : a = Len(u) /\ b = Len(v)
  OBVIOUS
<1>2. PICK w : w = u \o v
  OBVIOUS
<1>3. /\ w \in Seq(S) /\ Len(w) = a + b
      /\ \A i \in 1..(a + b) : w[i] = IF i <= a THEN u[i] ELSE v[i - a]
  BY <1>1, <1>2, ConcatProperties
<1>4. PICK k \in Nat, m \in Nat : k = Plaintext!CountLines(u) /\ m = Plaintext!CountLines(v)
  BY CountIs
<1> DEFINE Ou(l) == Plaintext!LineToOffset(u, l)
           Ov(l) == Plaintext!LineToOffset(v, l)
           Ow(l) == Plaintext!LineToOffset(w, l)
<1>5. /\ \A l \in 1..(k + 1) : Ow(l) = Ou(l)
      /\ \A l \in Nat \ {0} : Ow(k + l) = a + Ov(l)
  BY <1>1, <1>2, <1>4, OffsetInJoin, Zenon
<1>6. /\ \A l \in Int : Ou(l) \in 1..(a + 1)
      /\ \A l \in Int : Ov(l) \in 1..(b + 1)
  BY <1>1, OffsetsAre, Zenon
<1>7. Plaintext!CountLines(w) = k + m
  <2>1. CASE v = <<>>
    <3>1. w = u /\ m = 0
      BY <1>2, <1>4, <2>1, ConcatEmptySeq, CountIs
    <3> QED
      BY <1>4, <3>1
  <2>2. CASE v # <<>>
    <3>1. b \in 1..b /\ b \in 1..(b + 1) /\ m = Plaintext!LineOf(v, b)
      BY <1>1, <1>4, <2>2, CountIs
    <3>2. w # <<>>
      BY <1>3, <3>1
    <3>3. Plaintext!CountLines(w) = Plaintext!LineOf(w, a + b)
      BY <1>3, <3>2, CountIs
    <3>4. \A i \in 1..(b + 1) : Plaintext!LineOf(w, a + i) = k + Plaintext!LineOf(v, i)
      BY <1>1, <1>2, <1>4, LineInJoin
    <3> QED
      BY <3>1, <3>3, <3>4
  <2> QED
    BY <2>1, <2>2
<1> DEFINE Lu == Plaintext!Lines(u)
           Lv == Plaintext!Lines(v)
           Lw == Plaintext!Lines(w)
<1>8. /\ Lu \in Seq(Seq(S)) /\ Len(Lu) = k
      /\ \A l \in 1..k : Lu[l] = SubSeq(u, Ou(l), Ou(l + 1) - 1)
  BY <1>4, LinesAre, Zenon
<1>9. /\ Lv \in Seq(Seq(S)) /\ Len(Lv) = m
      /\ \A l \in 1..m : Lv[l] = SubSeq(v, Ov(l), Ov(l + 1) - 1)
  BY <1>4, LinesAre, Zenon
<1>10. /\ Lw \in Seq(Seq(S)) /\ Len(Lw) = k + m
       /\ \A l \in 1..(k + m) : Lw[l] = SubSeq(w, Ow(l), Ow(l + 1) - 1)
  BY <1>3, <1>7, LinesAre, Zenon
<1> HIDE DEF Ou, Ov, Ow, Lu, Lv, Lw
<1>11. /\ Lu \o Lv \in Seq(Seq(S)) /\ Len(Lu \o Lv) = k + m
       /\ \A l \in 1..(k + m) : (Lu \o Lv)[l] = IF l <= k THEN Lu[l] ELSE Lv[l - k]
  BY <1>8, <1>9, ConcatProperties
<1>12. ASSUME NEW l \in 1..(k + m)
       PROVE  Lw[l] = (Lu \o Lv)[l]
  <2>1. CASE l <= k
    <3>1. l \in 1..k /\ l \in 1..(k + 1) /\ l + 1 \in 1..(k + 1) /\ l \in Int /\ l + 1 \in Int
      BY <2>1
    <3>2. PICK x \in 1..(a + 1), y \in 1..(a + 1) :
             x = Ou(l) /\ y = Ou(l + 1) /\ x = Ow(l) /\ y = Ow(l + 1)
      BY <1>5, <1>6, <3>1
    <3>3. SubSeq(w, x, y - 1) = SubSeq(u, x, y - 1)
      <4>1. /\ x \in Int /\ y - 1 \in Int
            /\ \A i \in x..(y - 1) : i \in 1..(a + b) /\ i \in 1..a /\ i <= a
        OBVIOUS
      <4>2. \A i \in x..(y - 1) : w[i] = u[i] /\ u[i] \in S /\ w[i] \in S
        BY <1>1, <1>3, <4>1
      <4>3. /\ SubSeq(w, x, y - 1) \in Seq(S)
            /\ Len(SubSeq(w, x, y - 1)) = IF x <= y - 1 THEN y - 1 - x + 1 ELSE 0
            /\ \A i \in 1..(y - 1 - x + 1) : SubSeq(w, x, y - 1)[i] = w[x + i - 1]
        BY <4>1, <4>2, SubSeqProperties
      <4>4. /\ SubSeq(u, x, y - 1) \in Seq(S)
            /\ Len(SubSeq(u, x, y - 1)) = IF x <= y - 1 THEN y - 1 - x + 1 ELSE 0
            /\ \A i \in 1..(y - 1 - x + 1) : SubSeq(u, x, y - 1)[i] = u[x + i - 1]
        BY <4>1, <4>2, SubSeqProperties
      <4>5. PICK p, q : p = SubSeq(w, x, y - 1) /\ q = SubSeq(u, x, y - 1)
        OBVIOUS
      <4>6. p \in Seq(S) /\ q \in Seq(S) /\ Len(p) = Len(q)
        BY <4>3, <4>4, <4>5
      <4>7. \A i \in 1..Len(p) : p[i] = q[i]
        BY <4>2, <4>3, <4>4, <4>5
      <4> QED
        BY <4>5, <4>6, <4>7, SeqEqual, Zenon
    <3> QED
      BY <1>8, <1>10, <1>11, <2>1, <3>1, <3>2, <3>3
  <2>2. CASE l > k
    <3>1. PICK j \in 1..m : l = k + j
      <4>1. l - k \in 1..m /\ l = k + (l - k)
        BY <2>2
      <4> QED
        BY <4>1
    <3>2. l - k = j /\ j \in Nat \ {0} /\ j + 1 \in Nat \ {0} /\ l + 1 = k + (j + 1) /\ ~(l <= k)
          /\ j \in Int /\ j + 1 \in Int
      BY <3>1
    <3>3. PICK x \in 1..(b + 1), y \in 1..(b + 1) :
             x = Ov(j) /\ y = Ov(j + 1) /\ Ow(l) = a + x /\ Ow(l + 1) = a + y
      BY <1>5, <1>6, <3>1, <3>2
    <3>4. SubSeq(w, a + x, (a + y) - 1) = SubSeq(v, x, y - 1)
      <4>1. /\ x \in Int /\ y - 1 \in Int /\ a + x \in Int /\ (a + y) - 1 \in Int
            /\ \A i \in x..(y - 1) : i \in 1..b /\ a + i \in 1..(a + b) /\ ~(a + i <= a) /\ (a + i) - a = i
        OBVIOUS
      <4>2. \A i \in x..(y - 1) : w[a + i] = v[i] /\ v[i] \in S
        BY <1>1, <1>3, <4>1, SMTT(40)
      <4>3. \A i \in (a + x)..((a + y) - 1) : w[i] \in S
        BY <1>3
      <4>4. /\ SubSeq(w, a + x, (a + y) - 1) \in Seq(S)
            /\ Len(SubSeq(w, a + x, (a + y) - 1)) = IF a + x <= (a + y) - 1 THEN (a + y) - 1 - (a + x) + 1 ELSE 0
            /\ \A i \in 1..((a + y) - 1 - (a + x) + 1) : SubSeq(w, a + x, (a + y) - 1)[i] = w[(a + x) + i - 1]
        BY <4>3, <4>1, SubSeqProperties
      <4>5. /\ SubSeq(v, x, y - 1) \in Seq(S)
            /\ Len(SubSeq(v, x, y - 1)) = IF x <= y - 1 THEN y - 1 - x + 1 ELSE 0
            /\ \A i \in 1..(y - 1 - x + 1) : SubSeq(v, x, y - 1)[i] = v[x + i - 1]
        BY <4>1, <4>2, SubSeqProperties
      <4>6. PICK p, q : p = SubSeq(w, a + x, (a + y) - 1) /\ q = SubSeq(v, x, y - 1)
        OBVIOUS
      <4>7. p \in Seq(S) /\ q \in Seq(S) /\ Len(p) = Len(q)
        BY <4>4, <4>5, <4>6, SMTT(40)
      <4>8. ASSUME NEW i \in 1..Len(p) PROVE p[i] = q[i]
        <5>1. /\ i \in 1..(y - 1 - x + 1) /\ i \in 1..((a + y) - 1 - (a + x) + 1)
              /\ (a + x) + i - 1 = a + (x + i - 1) /\ x + i - 1 \in x..(y - 1)
          BY <4>4, <4>6
        <5> QED
          BY <4>2, <4>4, <4>5, <4>6, <5>1
      <4> QED
        BY <4>6, <4>7, <4>8, SeqEqual, Zenon
    <3>5. Lw[l] = SubSeq(w, a + x, (a + y) - 1)
      BY <1>10, <3>3, Zenon
    <3>6. (Lu \o Lv)[l] = Lv[j]
      BY <1>11, <3>2, Zenon
    <3>7. Lv[j] = SubSeq(v, x, y - 1)
      BY <1>9, <3>3, Zenon
    <3> QED
      BY <3>4, <3>5, <3>6, <3>7, Zenon
  <2>3. l <= k \/ l > k
    OBVIOUS
  <2> QED
    BY <2>1, <2>2, <2>3, Zenon
<1>13. Lw = Lu \o Lv
  <2>1. PICK x : x = Lu \o Lv
    OBVIOUS
  <2>2. x \in Seq(Seq(S)) /\ Len(Lw) = Len(x) /\ \A l \in 1..Len(Lw) : Lw[l] = x[l]
    BY <1>10, <1>11, <1>12, <2>1
  <2> QED
    BY <1>10, <2>1, <2>2, SeqEqual, Zenon
<1> QED
  BY <1>2, <1>13 DEF Lu, Lv, Lw

(* A sequence of two parts gives them back.                                 *)
LEMMA JoinedParts ==
    ASSUME NEW S, NEW x \in Seq(S), NEW y \in Seq(S), NEW h, Len(x) = h
    PROVE  SubSeq(x \o y, 1, h) = x /\ SubSeq(x \o y, h + 1, Len(x \o y)) = y
<1>1. PICK m \in Nat : m = Len(y) /\ h \in Nat
  OBVIOUS
<1>2. PICK z : z = x \o y
  OBVIOUS
<1>3. /\ z \in Seq(S) /\ Len(z) = h + m
      /\ \A i \in 1..(h + m) : z[i] = IF i <= h THEN x[i] ELSE y[i - h]
  BY <1>1, <1>2, ConcatProperties
<1>4. SubSeq(z, 1, h) = x
  <2>1. 1 \in Int /\ h \in Int /\ \A i \in 1..h : z[i] \in S
    BY <1>1, <1>3
  <2>2. /\ SubSeq(z, 1, h) \in Seq(S)
        /\ Len(SubSeq(z, 1, h)) = IF 1 <= h THEN h - 1 + 1 ELSE 0
        /\ \A i \in 1..(h - 1 + 1) : SubSeq(z, 1, h)[i] = z[1 + i - 1]
    BY <2>1, SubSeqProperties
  <2>3. PICK p : p = SubSeq(z, 1, h)
    OBVIOUS
  <2>4. p \in Seq(S) /\ Len(p) = Len(x)
    BY <1>1, <2>2, <2>3
  <2>5. \A i \in 1..Len(p) : p[i] = x[i]
    BY <1>1, <1>3, <2>2, <2>3
  <2> QED
    BY <2>3, <2>4, <2>5, SeqEqual, Zenon
<1>5. SubSeq(z, h + 1, h + m) = y
  <2>1. h + 1 \in Int /\ h + m \in Int /\ \A i \in (h + 1)..(h + m) : z[i] \in S
    BY <1>1, <1>3
  <2>2. /\ SubSeq(z, h + 1, h + m) \in Seq(S)
        /\ Len(SubSeq(z, h + 1, h + m)) = IF h + 1 <= h + m THEN h + m - (h + 1) + 1 ELSE 0
        /\ \A i \in 1..(h + m - (h + 1) + 1) : SubSeq(z, h + 1, h + m)[i] = z[(h + 1) + i - 1]
    BY <2>1, SubSeqProperties, SMTT(40)
  <2>3. PICK p : p = SubSeq(z, h + 1, h + m)
    OBVIOUS
  <2>4. p \in Seq(S) /\ Len(p) = Len(y) /\ Len(p) = m
    BY <1>1, <2>2, <2>3
  <2>5. ASSUME NEW i \in 1..Len(p) PROVE p[i] = y[i]
    <3>1. PICK j \in 1..(h + m) : j = (h + 1) + i - 1 /\ ~(j <= h) /\ j - h = i
      BY <1>1, <2>4
    <3>2. i \in 1..(h + m - (h + 1) + 1)
      BY <1>1, <2>4
    <3> QED
      BY <1>3, <2>2, <2>3, <3>1, <3>2
  <2> QED
    BY <2>3, <2>4, <2>5, SeqEqual, Zenon
<1> QED
  BY <1>2, <1>3, <1>4, <1>5

(* Cutting a text before line h + 1: above are h whole lines, if there is     *)
(* such a line or the last one is ended.                                    *)
LEMMA CutIsEnded ==
    ASSUME NEW S, NEW t \in Seq(S), NEW h \in 0..Plaintext!CountLines(t),
           h = Plaintext!CountLines(t) => Ended(t)
    PROVE  LET u == SubSeq(t, 1, Plaintext!LineToOffset(t, h + 1) - 1) IN
           /\ u \in Seq(S) /\ Ended(u) /\ Plaintext!CountLines(u) = h
           /\ t = u \o SubSeq(t, Plaintext!LineToOffset(t, h + 1), Len(t))
<1>1. PICK n \in Nat, K \in Nat : n = Len(t) /\ K = Plaintext!CountLines(t)
  BY CountIs
<1>2. h \in Nat /\ h <= K /\ h + 1 \in Int
  BY <1>1
<1>3. PICK o \in 1..(n + 1) : o = Plaintext!LineToOffset(t, h + 1)
  BY <1>1, <1>2, OffsetsAre
<1>4. PICK u : u = SubSeq(t, 1, o - 1)
  OBVIOUS
<1>5. PICK v : v = SubSeq(t, o, n)
  OBVIOUS
<1>6. u \in Seq(S) /\ Len(u) = o - 1 /\ \A i \in 1..(o - 1) : u[i] = t[i]
  <2>1. 1 \in Int /\ o - 1 \in Int /\ \A i \in 1..(o - 1) : t[i] \in S
    BY <1>1
  <2>2. /\ SubSeq(t, 1, o - 1) \in Seq(S)
        /\ Len(SubSeq(t, 1, o - 1)) = IF 1 <= o - 1 THEN o - 1 - 1 + 1 ELSE 0
        /\ \A i \in 1..(o - 1 - 1 + 1) : SubSeq(t, 1, o - 1)[i] = t[1 + i - 1]
    BY <2>1, SubSeqProperties
  <2> QED
    BY <1>4, <2>2
<1>7. v \in Seq(S)
  <2>1. o \in Int /\ n \in Int /\ \A i \in o..n : t[i] \in S
    BY <1>1
  <2> QED
    BY <1>5, <2>1, SubSeqProperties
<1>8. t = u \o v
  <2>1. /\ 1 \in 1..(Len(t) + 1) /\ o - 1 \in (1 - 1)..Len(t) /\ n \in (o - 1)..Len(t)
        /\ (o - 1) + 1 = o
    BY <1>1
  <2>2. SubSeq(t, 1, o - 1) \o SubSeq(t, (o - 1) + 1, n) = SubSeq(t, 1, n)
    BY <2>1, ConcatAdjacentSubSeq, Zenon
  <2>3. SubSeq(t, 1, n) = t
    BY <1>1, SubSeqFull
  <2> QED
    BY <1>4, <1>5, <2>1, <2>2, <2>3
<1> DEFINE at(i) == Plaintext!LineOf(t, i)
           NL == Plaintext!Newline
<1>9. /\ \A i \in Nat : at(i) \in Nat
      /\ at(1) = 1
      /\ \A i \in 1..n : at(i + 1) = IF t[i] = NL THEN at(i) + 1 ELSE at(i)
  BY <1>1, LineOfIs
<1>10. \A i \in 1..n : at(i) >= h + 1 <=> i >= o
  <2>1. FirstOn(t, h + 1, o)
    BY <1>2, <1>3, OffsetIs, Zenon
  <2> QED
    BY <1>1, <2>1, Zenon DEF FirstOn
<1>11. n # 0 => K = at(n)
  BY <1>1, CountIs
<1>12. n = 0 => K = 0
  <2>1. n = 0 => t = <<>>
    BY <1>1, EmptySeq
  <2> QED
    BY <1>1, <2>1, CountIs
<1>13. h = K /\ n # 0 => t[n] = NL
  BY <1>1 DEF Ended
<1> HIDE DEF at, NL
<1>14. CASE o = 1
  <2>1. u = <<>>
    BY <1>6, <1>14
  <2>2. h = 0
    <3>1. CASE n = 0
      BY <1>2, <1>12, <3>1
    <3>2. CASE n # 0
      <4>1. 1 \in 1..n /\ 1 >= o
        BY <1>14, <3>2
      <4>2. at(1) >= h + 1
        BY <1>10, <4>1
      <4> QED
        BY <1>2, <1>9, <4>2
    <3> QED
      BY <3>1, <3>2
  <2>3. Plaintext!CountLines(u) = 0
    BY <2>1, Zenon DEF Plaintext!CountLines
  <2> QED
    BY <1>1, <1>3, <1>4, <1>5, <1>6, <1>8, <2>1, <2>2, <2>3 DEF Ended
<1>15. CASE o # 1
  <2>1. PICK p \in 1..n : p = o - 1 /\ p + 1 = o /\ p \in Nat
    BY <1>15
  <2>2. at(p) = h /\ t[p] = NL
    <3>1. at(p) \in Nat /\ at(p) < h + 1
      <4>1. ~(p >= o)
        BY <2>1
      <4>2. ~(at(p) >= h + 1) /\ at(p) \in Nat
        BY <1>9, <1>10, <2>1, <4>1
      <4> QED
        BY <1>2, <4>2
    <3>2. CASE o <= n
      <4>1. at(o) >= h + 1 /\ o \in 1..n
        BY <1>10, <3>2
      <4>2. at(o) = IF t[p] = NL THEN at(p) + 1 ELSE at(p)
        BY <1>9, <2>1
      <4> QED
        BY <1>2, <3>1, <4>1, <4>2
    <3>3. CASE o > n
      <4>1. p = n /\ n # 0
        BY <2>1, <3>3
      <4>2. at(p) = K /\ h = K
        BY <1>2, <1>11, <3>1, <4>1
      <4> QED
        BY <1>13, <4>1, <4>2
    <3> QED
      BY <3>2, <3>3
  <2>3. Len(u) = p /\ u # <<>> /\ u[p] = NL
    BY <1>6, <2>1, <2>2
  <2>4. Ended(u)
    BY <2>3 DEF Ended, NL
  <2>5. Plaintext!LineOf(u, p) = at(p)
    <3>1. p \in 1..(Len(u) + 1)
      BY <2>1, <2>3
    <3> QED
      BY <1>6, <1>7, <1>8, <2>4, <3>1, LineInJoin, Zenon DEF at
  <2>6. Plaintext!CountLines(u) = h
    BY <1>6, <2>2, <2>3, <2>5, CountIs
  <2> QED
    BY <1>1, <1>3, <1>4, <1>5, <1>6, <1>8, <2>4, <2>6
<1> QED
  BY <1>14, <1>15

(* What is inserted before line h + 1, and ends in a newline, stands on       *)
(* lines of its own between the others.                                     *)
LEMMA InsertKeepsLines ==
    ASSUME NEW S, NEW t \in Seq(S), NEW c \in Seq(S), NEW h \in 0..Plaintext!CountLines(t),
           h = Plaintext!CountLines(t) => Ended(t), Plaintext!EndsLine(c)
    PROVE  LET L == Plaintext!Lines(t) IN
           Plaintext!Lines(Plaintext!ReplaceLineRange(t, h + 1, h, c))
             = SubSeq(L, 1, h) \o Plaintext!Lines(c) \o SubSeq(L, h + 1, Len(L))
<1>1. PICK u : u = SubSeq(t, 1, Plaintext!LineToOffset(t, h + 1) - 1)
  OBVIOUS
<1>2. PICK v : v = SubSeq(t, Plaintext!LineToOffset(t, h + 1), Len(t))
  OBVIOUS
<1>3. u \in Seq(S) /\ Ended(u) /\ Plaintext!CountLines(u) = h /\ t = u \o v
  BY <1>1, <1>2, CutIsEnded, Zenon
<1>4. h \in Int /\ h + 1 \in Int
  BY CountIs
<1>5. v \in Seq(S)
  BY <1>2, <1>4, ReplacedTyped
<1>6. Plaintext!ReplaceLineRange(t, h + 1, h, c) = (u \o c) \o v
  BY <1>1, <1>2, Zenon DEF Plaintext!ReplaceLineRange
<1>7. Plaintext!Lines(u \o c) = Plaintext!Lines(u) \o Plaintext!Lines(c)
  BY <1>3, LinesInJoin, Zenon
<1>8. u \o c \in Seq(S) /\ Ended(u \o c)
  <2>1. c # <<>> /\ Last(c) = Plaintext!Newline
    BY PlaintextUse, Zenon DEF Plaintext!EndsLine
  <2>2. Len(c) \in Nat /\ Len(c) >= 1 /\ c[Len(c)] = Plaintext!Newline /\ Len(u) \in Nat
    BY <1>3, <2>1 DEF Last
  <2>3. /\ u \o c \in Seq(S) /\ Len(u \o c) = Len(u) + Len(c)
        /\ \A i \in 1..(Len(u) + Len(c)) : (u \o c)[i] = IF i <= Len(u) THEN u[i] ELSE c[i - Len(u)]
    BY <1>3, ConcatProperties, Zenon
  <2>4. PICK i : i = Len(u) + Len(c)
    OBVIOUS
  <2>5. i \in 1..(Len(u) + Len(c)) /\ ~(i <= Len(u)) /\ i - Len(u) = Len(c)
    BY <2>2, <2>4
  <2>6. (u \o c)[i] = c[Len(c)]
    BY <2>3, <2>5, Zenon
  <2> QED
    BY <2>2, <2>3, <2>4, <2>6, Zenon DEF Ended
<1>9. Plaintext!Lines((u \o c) \o v) = (Plaintext!Lines(u) \o Plaintext!Lines(c)) \o Plaintext!Lines(v)
  BY <1>5, <1>7, <1>8, LinesInJoin, Zenon
<1>10. Plaintext!Lines(t) = Plaintext!Lines(u) \o Plaintext!Lines(v)
  BY <1>3, <1>5, LinesInJoin, Zenon
<1>11. PICK x, y : x = Plaintext!Lines(u) /\ y = Plaintext!Lines(v)
  OBVIOUS
<1>12. x \in Seq(Seq(S)) /\ y \in Seq(Seq(S)) /\ Len(x) = h
  BY <1>3, <1>5, <1>11, LinesAre, Zenon
<1>13. SubSeq(x \o y, 1, h) = x /\ SubSeq(x \o y, h + 1, Len(x \o y)) = y
  BY <1>12, JoinedParts
<1> QED
  BY <1>6, <1>9, <1>10, <1>11, <1>13, Zenon

-----------------------------------------------------------------------------
(* What is found of a text lies within it.                                  *)
(* What the search finds from each place on.                                *)
Finds(t, q, whole, f) ==
    /\ f \in [1..(Len(t) + 1) -> Seq({i \in 1..Len(t) : i + Len(q) <= Len(t) + 1})]
    /\ \A i \in 1..(Len(t) + 1) :
          f[i] = IF i + Len(q) > Len(t) + 1 THEN <<>>
                 ELSE (IF Plaintext!Hit(t, q, i, whole) THEN <<i>> ELSE <<>>)
                        \o f[Plaintext!NextPlace(t, q, i, whole)]

LEMMA FindsIs ==
    ASSUME NEW S, NEW t \in Seq(S), NEW q \in Seq(S), q # <<>>, NEW whole
    PROVE  \E f : Finds(t, q, whole, f) /\ Plaintext!FindText(t, q, whole) = f[1]
<1>1. PICK n \in Nat, k \in Nat : n = Len(t) /\ k = Len(q) /\ k >= 1
  OBVIOUS
<1> DEFINE P == {i \in 1..n : i + k <= n + 1}
           D == 1..(n + 1)
           Stop == {i \in D : i + k > n + 1}
           base == [i \in Stop |-> <<>>]
           next == [i \in D \ Stop |-> Plaintext!NextPlace(t, q, i, whole)]
           here == [i \in D |-> IF Plaintext!Hit(t, q, i, whole) THEN <<i>> ELSE <<>>]
           G == [p \in (D \ Stop) \X Seq(P) |-> here[p[1]] \o p[2]]
           Eq(f) == f = [i \in 1..(Len(t) + 1) |->
                           IF i + Len(q) > Len(t) + 1 THEN <<>>
                           ELSE (IF Plaintext!Hit(t, q, i, whole) THEN <<i>> ELSE <<>>)
                                  \o f[Plaintext!NextPlace(t, q, i, whole)]]
           iter == CHOOSE f : Eq(f)
<1>2. Plaintext!FindText(t, q, whole) = iter[1]
  BY Zenon DEF Plaintext!FindText
<1>3. D \in SUBSET (0..(n + 1)) /\ Stop \in SUBSET D /\ n + 1 \in Nat
  OBVIOUS
<1>4. ASSUME NEW i \in D \ Stop
      PROVE  /\ i \in P /\ Plaintext!NextPlace(t, q, i, whole) \in D
             /\ Plaintext!NextPlace(t, q, i, whole) > i
  <2>1. i \in P /\ i + k \in D /\ i + 1 \in D /\ i + k > i /\ i + 1 > i
    BY <1>1
  <2>2. Plaintext!NextPlace(t, q, i, whole) = i + k \/ Plaintext!NextPlace(t, q, i, whole) = i + 1
    BY <1>1, Zenon DEF Plaintext!NextPlace
  <2> HIDE DEF P, D, Stop
  <2> QED
    BY <2>1, <2>2, Zenon
<1>5. next \in [D \ Stop -> D] /\ \A i \in D \ Stop : next[i] > i
  <2> HIDE DEF D, Stop
  <2> QED
    BY <1>4
<1>6. <<>> \in Seq(P) /\ base \in [Stop -> Seq(P)]
  <2>1. <<>> \in Seq(P)
    OBVIOUS
  <2> HIDE DEF P, Stop
  <2> QED
    BY <2>1
<1>7. ASSUME NEW i \in D \ Stop
      PROVE  here[i] \in Seq(P) /\ i \in D
  <2>1. i \in P /\ i \in D
    BY <1>4
  <2> HIDE DEF P, D, Stop
  <2>2. <<i>> \in Seq(P) /\ <<>> \in Seq(P)
    BY <2>1
  <2>3. here[i] = IF Plaintext!Hit(t, q, i, whole) THEN <<i>> ELSE <<>>
    BY <2>1
  <2> HIDE DEF here
  <2> QED
    BY <2>1, <2>2, <2>3, Zenon
<1> HIDE DEF here
<1>8. G \in [(D \ Stop) \X Seq(P) -> Seq(P)]
  <2> HIDE DEF P, D, Stop
  <2>1. ASSUME NEW p \in (D \ Stop) \X Seq(P) PROVE here[p[1]] \o p[2] \in Seq(P)
    <3>1. here[p[1]] \in Seq(P) /\ p[2] \in Seq(P)
      BY <1>7
    <3> QED
      BY <3>1, ConcatProperties, Zenon
  <2> QED
    BY <2>1
<1>9. \E f \in [D -> Seq(P)] : Descends(f, D, Stop, base, next, G)
  <2> HIDE DEF P, D, Stop, base, next, G
  <2> QED
    BY <1>3, <1>5, <1>6, <1>8, DescentExists, Zenon
<1>10. PICK f \in [D -> Seq(P)] : Descends(f, D, Stop, base, next, G)
  BY <1>9
<1>11. ASSUME NEW i \in D
       PROVE  f[i] = IF i + Len(q) > Len(t) + 1 THEN <<>>
                     ELSE (IF Plaintext!Hit(t, q, i, whole) THEN <<i>> ELSE <<>>)
                            \o f[Plaintext!NextPlace(t, q, i, whole)]
  <2>1. f[i] = IF i \in Stop THEN base[i] ELSE G[<<i, f[next[i]]>>]
    BY <1>10, Zenon DEF Descends
  <2>2. CASE i \in Stop
    <3>1. f[i] = base[i] /\ base[i] = <<>>
      BY <2>1, <2>2
    <3>2. i + Len(q) > Len(t) + 1
      BY <1>1, <2>2
    <3> QED
      BY <3>1, <3>2, Zenon
  <2>3. CASE i \notin Stop
    <3>1. ~(i + Len(q) > Len(t) + 1)
      BY <1>1, <2>3
    <3> HIDE DEF P, D, Stop
    <3>2. next[i] = Plaintext!NextPlace(t, q, i, whole) /\ next[i] \in D
      BY <1>5, <2>3
    <3> HIDE DEF next
    <3>3. <<i, f[next[i]]>> \in (D \ Stop) \X Seq(P)
      BY <2>3, <3>2
    <3>4. G[<<i, f[next[i]]>>] = here[i] \o f[next[i]]
      BY <3>3
    <3> HIDE DEF G
    <3>5. here[i] = IF Plaintext!Hit(t, q, i, whole) THEN <<i>> ELSE <<>>
      BY DEF here
    <3> QED
      BY <2>1, <2>3, <3>1, <3>2, <3>4, <3>5, Zenon
  <2> QED
    BY <2>2, <2>3, Zenon
<1>12. Eq(f)
  <2>1. D = 1..(Len(t) + 1)
    BY <1>1
  <2>2. f = [i \in D |-> f[i]]
    <3> HIDE DEF D, P
    <3> QED
      OBVIOUS
  <2>3. f = [i \in D |->
                           IF i + Len(q) > Len(t) + 1 THEN <<>>
                           ELSE (IF Plaintext!Hit(t, q, i, whole) THEN <<i>> ELSE <<>>)
                                  \o f[Plaintext!NextPlace(t, q, i, whole)]]
    <3> HIDE DEF D, P
    <3> QED
      BY <1>11, <2>2, Zenon
  <2> HIDE DEF D
  <2> QED
    BY <2>1, <2>3, Zenon
<1>13. Eq(iter)
  <2> HIDE DEF Eq
  <2> QED
    BY <1>12, Zenon
<1> HIDE DEF iter
<1>14. DOMAIN iter = D /\ \A i \in D : iter[i] = IF i + k > n + 1 THEN <<>>
                              ELSE here[i] \o iter[Plaintext!NextPlace(t, q, i, whole)]
  <2>1. iter = [i \in D |->
                           IF i + Len(q) > Len(t) + 1 THEN <<>>
                           ELSE (IF Plaintext!Hit(t, q, i, whole) THEN <<i>> ELSE <<>>)
                                  \o iter[Plaintext!NextPlace(t, q, i, whole)]]
    BY <1>1, <1>13, Zenon
  <2> HIDE DEF Eq, D
  <2>2. DOMAIN iter = D
    BY <2>1, Zenon
  <2>3. ASSUME NEW i \in D
        PROVE  iter[i] = IF i + k > n + 1 THEN <<>>
                         ELSE here[i] \o iter[Plaintext!NextPlace(t, q, i, whole)]
    <3>1. iter[i] = IF i + Len(q) > Len(t) + 1 THEN <<>>
                         ELSE (IF Plaintext!Hit(t, q, i, whole) THEN <<i>> ELSE <<>>)
                                  \o iter[Plaintext!NextPlace(t, q, i, whole)]
      BY <2>1, Zenon
    <3>2. here[i] = IF Plaintext!Hit(t, q, i, whole) THEN <<i>> ELSE <<>>
      BY DEF here
    <3> QED
      BY <1>1, <3>1, <3>2, Zenon
  <2> QED
    BY <2>2, <2>3
<1> HIDE DEF Eq
<1>15. \A i \in D : iter[i] \in Seq(P)
  <2> DEFINE T == {j \in Nat : \A i \in D : i + j >= n + 1 => iter[i] \in Seq(P)}
  <2>1. 0 \in T
    <3>1. ASSUME NEW i \in D, i + 0 >= n + 1 PROVE iter[i] \in Seq(P)
      <4>1. i + k > n + 1
        BY <1>1, <3>1
      <4> HIDE DEF P, D
      <4> QED
        BY <1>6, <1>14, <4>1, Zenon
    <3> HIDE DEF P, D
    <3> QED
      BY <3>1
  <2>2. ASSUME NEW j \in Nat, j \in T PROVE j + 1 \in T
    <3>1. ASSUME NEW i \in D, i + (j + 1) >= n + 1 PROVE iter[i] \in Seq(P)
      <4>1. CASE i + k > n + 1
        <5> HIDE DEF P, D
        <5> QED
          BY <1>6, <1>14, <4>1, Zenon
      <4>2. CASE ~(i + k > n + 1)
        <5>1. i \in D \ Stop
          BY <4>2
        <5>2. PICK m \in D : m = Plaintext!NextPlace(t, q, i, whole) /\ m > i
          BY <1>4, <5>1, Zenon
        <5>3. m + j >= n + 1
          BY <3>1, <5>2
        <5> HIDE DEF P, D, Stop
        <5>4. iter[m] \in Seq(P) /\ here[i] \in Seq(P)
          BY <1>7, <2>2, <5>1, <5>3
        <5>5. here[i] \o iter[m] \in Seq(P)
          BY <5>4, ConcatProperties, Zenon
        <5> QED
          BY <1>14, <4>2, <5>2, <5>5, Zenon
      <4> QED
        BY <4>1, <4>2, Zenon
    <3> HIDE DEF P, D
    <3> QED
      BY <3>1
  <2> HIDE DEF T
  <2>3. Nat \subseteq T
    BY <2>1, <2>2, SetInduction
  <2>4. ASSUME NEW i \in D PROVE iter[i] \in Seq(P)
    <3>1. n + 1 \in T /\ i + (n + 1) >= n + 1
      BY <2>3
    <3> HIDE DEF P, D
    <3> QED
      BY <3>1 DEF T
  <2> QED
    BY <2>4
<1>16. D = 1..(Len(t) + 1) /\ P = {i \in 1..Len(t) : i + Len(q) <= Len(t) + 1}
  BY <1>1
<1>17. iter \in [D -> Seq(P)]
  <2>1. iter = [i \in D |-> iter[i]]
    <3> HIDE DEF D, P
    <3>1. iter = [i \in 1..(Len(t) + 1) |->
                           IF i + Len(q) > Len(t) + 1 THEN <<>>
                           ELSE (IF Plaintext!Hit(t, q, i, whole) THEN <<i>> ELSE <<>>)
                                  \o iter[Plaintext!NextPlace(t, q, i, whole)]]
      BY <1>13, Zenon DEF Eq
    <3> QED
      BY <1>14, <3>1
  <2> HIDE DEF D, P
  <2> QED
    BY <1>15, <2>1
<1>18. ASSUME NEW i \in D
       PROVE  iter[i] = IF i + Len(q) > Len(t) + 1 THEN <<>>
                        ELSE (IF Plaintext!Hit(t, q, i, whole) THEN <<i>> ELSE <<>>)
                               \o iter[Plaintext!NextPlace(t, q, i, whole)]
  <2>1. here[i] = IF Plaintext!Hit(t, q, i, whole) THEN <<i>> ELSE <<>>
    BY DEF here
  <2> HIDE DEF D, P
  <2> QED
    BY <1>1, <1>14, <2>1, Zenon
<1> HIDE DEF D, P
<1>19. Finds(t, q, whole, iter)
  BY <1>16, <1>17, <1>18, Zenon DEF Finds
<1> QED
  BY <1>2, <1>19, Zenon

LEMMA FoundIn ==
    ASSUME NEW S, NEW t \in Seq(S), NEW q \in Seq(S), q # <<>>, NEW whole
    PROVE  Plaintext!FindText(t, q, whole)
             \in Seq({i \in 1..Len(t) : i + Len(q) <= Len(t) + 1})
<1>1. PICK f : Finds(t, q, whole, f) /\ Plaintext!FindText(t, q, whole) = f[1]
  BY FindsIs
<1>2. 1 \in 1..(Len(t) + 1)
  OBVIOUS
<1> QED
  BY <1>1, <1>2 DEF Finds

-----------------------------------------------------------------------------
TextsTyped == text \in Seq(Plaintext!Chars) /\ before \in Seq(Plaintext!Chars)
TextsInv   == TextsTyped /\ OtherLinesStay

(* The line a place is on is one of the text's.                             *)
LEMMA LineIn ==
    ASSUME NEW S, NEW t \in Seq(S), NEW i \in 1..Len(t)
    PROVE  /\ Plaintext!OffsetToLine(t, i) \in 1..Plaintext!CountLines(t)
           /\ Plaintext!OffsetToLine(t, i) = Plaintext!LineOf(t, i)
<1>1. PICK K \in Nat : K = Plaintext!CountLines(t)
  BY CountIs
<1>2. t # <<>> /\ i \in Nat /\ i \in 1..(Len(t) + 1) /\ Len(t) \in 1..(Len(t) + 1) /\ i <= Len(t)
  OBVIOUS
<1>3. K = Plaintext!LineOf(t, Len(t)) /\ K >= 1
  BY <1>1, <1>2, CountIs, Zenon
<1>4. PICK at \in Nat : at = Plaintext!LineOf(t, i)
  BY <1>2, LineOfIs
<1>5. at >= 1 /\ at <= K
  BY <1>2, <1>3, <1>4, LinesAscend, Zenon
<1>6. Max({1, K}) = K
  <2>1. {1, K} \in SUBSET (1..K) /\ {1, K} # {}
    BY <1>3
  <2>2. Max({1, K}) \in {1, K} /\ \A x \in {1, K} : x <= Max({1, K})
    BY <2>1, MaxExists, Zenon
  <2> QED
    BY <1>3, <2>2
<1>7. Min({at, K}) = at
  <2>1. {at, K} \in SUBSET Nat /\ {at, K} # {}
    OBVIOUS
  <2>2. Min({at, K}) \in {at, K} /\ \A x \in {at, K} : Min({at, K}) <= x
    BY <2>1, MinIs, Zenon
  <2> QED
    BY <1>5, <2>2
<1>8. Plaintext!OffsetToLine(t, i) = at
  BY <1>1, <1>4, <1>6, <1>7, PlaintextUse, Zenon DEF Plaintext!OffsetToLine
<1> QED
  BY <1>1, <1>4, <1>5, <1>8

LEMMA OneFound ==
    ASSUME NEW S, NEW t \in Seq(S), NEW q \in Seq(S), q # <<>>,
           Len(Plaintext!FindText(t, q, FALSE)) = 1
    PROVE  /\ Plaintext!FindText(t, q, FALSE)[1] \in 1..Len(t)
           /\ Plaintext!FindText(t, q, FALSE)[1] + Len(q) <= Len(t) + 1
<1> DEFINE P == {i \in 1..Len(t) : i + Len(q) <= Len(t) + 1}
<1>1. PICK found : found = Plaintext!FindText(t, q, FALSE)
  OBVIOUS
<1>2. found \in Seq(P) /\ Len(found) = 1
  BY <1>1, FoundIn
<1> HIDE DEF P
<1>3. found[1] \in P
  <2>1. 1 \in 1..Len(found)
    BY <1>2
  <2> QED
    BY <1>2, <2>1, ElementOfSeq, Zenon
<1> QED
  BY <1>1, <1>3 DEF P

LEMMA TextEditTyped ==
    ASSUME TextsInv, Plaintext!TextEdit
    PROVE  TextsInv'
<1>1. PICK q \in Snippets, c \in Snippets :
         LET found == Plaintext!FindText(text, q, FALSE) IN
         /\ q # <<>> /\ Len(found) = 1
         /\ Plaintext!Write([op |-> "edit", at |-> found[1], q |-> q],
                 SubSeq(text, 1, found[1] - 1) \o c \o SubSeq(text, found[1] + Len(q), Len(text)))
  BY Zenon DEF Plaintext!TextEdit
<1>2. PICK t \in Seq(Plaintext!Chars) : t = text
  BY DEF TextsInv, TextsTyped
<1>3. q \in Seq(Plaintext!Chars) /\ c \in Seq(Plaintext!Chars)
  BY EditsAssumption DEF EditsAssumption
<1>4. PICK i \in 1..Len(t) : i = Plaintext!FindText(t, q, FALSE)[1] /\ i + Len(q) <= Len(t) + 1
  BY <1>1, <1>2, <1>3, OneFound
<1>5. PICK x : x = SubSeq(t, 1, i - 1)
  OBVIOUS
<1>6. PICK y : y = SubSeq(t, i + Len(q), Len(t))
  OBVIOUS
<1>7. /\ text' = x \o c \o y /\ before' = t
      /\ edit' = [op |-> "edit", at |-> i, q |-> q]
  BY <1>1, <1>2, <1>4, <1>5, <1>6, Zenon DEF Plaintext!Write
<1>8. x \in Seq(Plaintext!Chars)
  <2>1. 1 \in Int /\ i - 1 \in Int /\ \A j \in 1..(i - 1) : t[j] \in Plaintext!Chars
    OBVIOUS
  <2> QED
    BY <1>5, <2>1, SubSeqProperties
<1>9. y \in Seq(Plaintext!Chars)
  <2>1. Len(q) \in Nat /\ Len(t) \in Nat
    BY <1>3
  <2>2. i + Len(q) \in Int /\ Len(t) \in Int /\ \A j \in (i + Len(q))..Len(t) : t[j] \in Plaintext!Chars
    BY <2>1
  <2> QED
    BY <1>6, <2>2, SubSeqProperties
<1>10. text' \in Seq(Plaintext!Chars) /\ before' \in Seq(Plaintext!Chars)
  BY <1>2, <1>3, <1>7, <1>8, <1>9, ConcatProperties, Zenon
<1>11. edit'.op = "edit"
  BY <1>7
<1>12. OtherLinesStay'
  BY <1>11 DEF OtherLinesStay, Plaintext!OtherLinesStay
<1> QED
  BY <1>10, <1>12 DEF TextsInv, TextsTyped

LEMMA TextAppendTyped ==
    ASSUME TextsInv, Plaintext!TextAppend
    PROVE  TextsInv'
<1>1. PICK c \in Snippets : Plaintext!Write([op |-> "append"], text \o c)
  BY Zenon DEF Plaintext!TextAppend
<1>2. text' = text \o c /\ before' = text /\ edit' = [op |-> "append"]
  BY <1>1, Zenon DEF Plaintext!Write
<1>3. text \in Seq(Plaintext!Chars) /\ c \in Seq(Plaintext!Chars)
  BY EditsAssumption DEF EditsAssumption, TextsInv, TextsTyped
<1>4. text' \in Seq(Plaintext!Chars) /\ before' \in Seq(Plaintext!Chars)
  BY <1>2, <1>3, ConcatProperties, Zenon
<1>5. edit'.op = "append"
  BY <1>2
<1>6. OtherLinesStay'
  BY <1>5 DEF OtherLinesStay, Plaintext!OtherLinesStay
<1> QED
  BY <1>4, <1>6 DEF TextsInv, TextsTyped

LEMMA TextReplaceTyped ==
    ASSUME TextsInv, Plaintext!TextReplaceRange
    PROVE  TextsInv'
<1>1. PICK from \in 1..(MaxLength + 1), to \in 0..MaxLength, c \in Snippets :
        /\ Plaintext!ReplaceAllowed(text, from, to)
        /\ Plaintext!Write([op |-> "replace", from |-> from, to |-> to, c |-> c],
                 Plaintext!ReplaceLineRange(text, from, to, c))
  BY Zenon DEF Plaintext!TextReplaceRange
<1>2. PICK t \in Seq(Plaintext!Chars) : t = text
  BY DEF TextsInv, TextsTyped
<1>3. c \in Seq(Plaintext!Chars) /\ from \in Int /\ to \in Int
  BY EditsAssumption DEF EditsAssumption
<1>4. PICK r : r = Plaintext!ReplaceLineRange(t, from, to, c)
  OBVIOUS
<1>5. text' = r /\ before' = t /\ edit' = [op |-> "replace", from |-> from, to |-> to, c |-> c]
  BY <1>1, <1>2, <1>4, Zenon DEF Plaintext!Write
<1>6. r \in Seq(Plaintext!Chars)
  BY <1>3, <1>4, ReplacedTyped
<1>7. r = Plaintext!Joined(SubSeq(Plaintext!Lines(t), 1,
                                       Plaintext!Min({from - 1, Len(Plaintext!Lines(t))})))
                 \o c
                 \o Plaintext!Joined(SubSeq(Plaintext!Lines(t), to + 1, Len(Plaintext!Lines(t))))
  BY <1>1, <1>2, <1>3, <1>4, ReplaceKeeps, Zenon
<1>8. edit'.op = "replace" /\ edit'.from = from /\ edit'.to = to /\ edit'.c = c
  BY <1>5
<1>9. OtherLinesStay'
  <2>1. "replace" # "insert"
    OBVIOUS
  <2> QED
    BY <1>5, <1>7, <1>8, <2>1, Zenon DEF OtherLinesStay, Plaintext!OtherLinesStay
<1> QED
  BY <1>2, <1>5, <1>6, <1>9 DEF TextsInv, TextsTyped

LEMMA LastLineEnds ==
    ASSUME NEW S, NEW t \in Seq(S), NEW K, K = Plaintext!CountLines(t), K # 0,
           Plaintext!EndsLine(Plaintext!Lines(t)[K])
    PROVE  Ended(t)
<1>1. K \in Nat /\ K \in 1..K /\ K \in Int /\ K + 1 \in Int /\ K + 1 > K
  <2>1. K \in Nat
    BY CountIs
  <2> QED
    BY <2>1
<1>2. PICK o \in 1..(Len(t) + 1) : o = Plaintext!LineToOffset(t, K)
  BY <1>1, OffsetsAre
<1>3. Plaintext!LineToOffset(t, K + 1) = Len(t) + 1
  BY <1>1, OffsetsAre
<1>4. (Len(t) + 1) - 1 = Len(t) /\ Len(t) \in Nat
  OBVIOUS
<1>5. PICK line : line = Plaintext!Lines(t)[K]
  OBVIOUS
<1>6. line = SubSeq(t, o, Len(t))
  BY <1>1, <1>2, <1>3, <1>4, <1>5, LinesAre, Zenon
<1>7. line # <<>> /\ line[Len(line)] = Plaintext!Newline
  BY <1>5, PlaintextUse, Zenon DEF Plaintext!EndsLine, Last
<1>8. o \in Int /\ Len(t) \in Int /\ \A i \in o..Len(t) : t[i] \in S
  BY <1>4
<1>9. /\ Len(line) = IF o <= Len(t) THEN Len(t) - o + 1 ELSE 0
      /\ line \in Seq(S)
      /\ \A i \in 1..(Len(t) - o + 1) : line[i] = t[o + i - 1]
  BY <1>6, <1>8, SubSeqProperties
<1>10. Len(line) # 0
  BY <1>7, <1>9, EmptySeq
<1>11. PICK i \in 1..(Len(t) - o + 1) : i = Len(line) /\ o + i - 1 = Len(t)
  <2>1. o \in Nat /\ Len(t) \in Nat
    BY <1>4
  <2>2. PICK n \in Nat, a \in Nat : n = Len(t) /\ a = o
    BY <2>1, Zenon
  <2>3. PICK k : k = Len(line)
    OBVIOUS
  <2>4. k = (IF a <= n THEN n - a + 1 ELSE 0) /\ k # 0
    BY <1>9, <1>10, <2>2, <2>3
  <2>5. k \in 1..(n - a + 1) /\ a + k - 1 = n
    BY <2>4
  <2> QED
    BY <2>2, <2>3, <2>5
<1>12. line[i] = t[Len(t)]
  BY <1>9, <1>11
<1> QED
  BY <1>7, <1>11, <1>12 DEF Ended

LEMMA TextInsertTyped ==
    ASSUME TextsInv, Plaintext!TextInsertAtAnchor
    PROVE  TextsInv'
<1>1. PICK q \in Snippets, c \in Snippets, position \in {"before", "after"} :
        LET found == Plaintext!FindText(text, q, FALSE)
            line  == Plaintext!OffsetToLine(text, found[1])
            here  == Plaintext!AnchorLine(line, position)
        IN  /\ q # <<>> /\ Len(found) = 1
            /\ Plaintext!Write([op |-> "insert", line |-> line, after |-> position = "after", c |-> c],
                     Plaintext!ReplaceLineRange(text, here, here - 1, c))
  BY Zenon DEF Plaintext!TextInsertAtAnchor
<1>2. PICK t \in Seq(Plaintext!Chars) : t = text
  BY DEF TextsInv, TextsTyped
<1>3. q \in Seq(Plaintext!Chars) /\ c \in Seq(Plaintext!Chars)
  BY EditsAssumption DEF EditsAssumption
<1>4. PICK K \in Nat : K = Plaintext!CountLines(t)
  BY CountIs
<1>5. PICK i \in 1..Len(t) : i = Plaintext!FindText(t, q, FALSE)[1]
  BY <1>1, <1>2, <1>3, OneFound
<1>6. PICK line \in 1..K : line = Plaintext!OffsetToLine(t, i)
  BY <1>4, LineIn
<1>7. PICK h \in 0..K :
         /\ Plaintext!AnchorLine(line, position) = h + 1
         /\ (h + 1) - 1 = h
         /\ h = IF position = "after" THEN line ELSE line - 1
  <2>1. CASE position = "before"
    <3>1. Plaintext!AnchorLine(line, position) = line /\ line - 1 \in 0..K /\ (line - 1) + 1 = line
      BY <2>1 DEF Plaintext!AnchorLine
    <3> QED
      BY <2>1, <3>1
  <2>2. CASE position = "after"
    <3>1. Plaintext!AnchorLine(line, position) = line + 1 /\ line \in 0..K /\ (line + 1) - 1 = line
      BY <2>2 DEF Plaintext!AnchorLine
    <3> QED
      BY <2>2, <3>1
  <2> QED
    BY <2>1, <2>2
<1>8. PICK r : r = Plaintext!ReplaceLineRange(t, h + 1, h, c)
  OBVIOUS
<1>9. /\ text' = r /\ before' = t
      /\ edit' = [op |-> "insert", line |-> line, after |-> position = "after", c |-> c]
  BY <1>1, <1>2, <1>5, <1>6, <1>7, <1>8, Zenon DEF Plaintext!Write
<1>10. r \in Seq(Plaintext!Chars)
  <2>1. h + 1 \in Int /\ h \in Int
    OBVIOUS
  <2> QED
    BY <1>3, <1>8, <2>1, ReplacedTyped
<1>11. edit'.op = "insert" /\ edit'.line = line /\ edit'.after = (position = "after") /\ edit'.c = c
  BY <1>9
<1>12. ASSUME Plaintext!EndsLine(c), position = "after" => Plaintext!EndsLine(Plaintext!Lines(t)[line])
       PROVE  Plaintext!Lines(r) = SubSeq(Plaintext!Lines(t), 1, h) \o Plaintext!Lines(c)
                                     \o SubSeq(Plaintext!Lines(t), h + 1, Len(Plaintext!Lines(t)))
  <2>1. h = K => Ended(t)
    <3> SUFFICES ASSUME h = K PROVE Ended(t)
      OBVIOUS
    <3>1. position = "after" /\ line = K
      <4>1. position = "before" => h = line - 1
        BY <1>7
      <4>2. position # "before"
        BY <4>1
      <4> QED
        BY <1>7, <4>2
    <3>2. Plaintext!EndsLine(Plaintext!Lines(t)[K])
      BY <1>12, <3>1
    <3> QED
      BY <1>4, <3>2, LastLineEnds
  <2> QED
    BY <1>3, <1>4, <1>8, <1>12, <2>1, InsertKeepsLines, Zenon
<1>13. OtherLinesStay'
  <2>1. "replace" # "insert"
    OBVIOUS
  <2>2. (IF edit'.after THEN edit'.line ELSE edit'.line - 1) = h
    BY <1>7, <1>11, Zenon
  <2> QED
    BY <1>9, <1>11, <1>12, <2>1, <2>2, Zenon DEF OtherLinesStay, Plaintext!OtherLinesStay
<1> QED
  BY <1>2, <1>9, <1>10, <1>13 DEF TextsInv, TextsTyped

LEMMA TextsStay ==
    ASSUME TextsInv, [EditsNext]_<<vars, tableVars, lineVars>>
    PROVE  TextsInv'
<1>1. CASE Plaintext!Next
  BY <1>1, TextEditTyped, TextAppendTyped, TextReplaceTyped, TextInsertTyped, Zenon DEF Plaintext!Next
<1>2. ASSUME UNCHANGED lineVars PROVE TextsInv'
  <2>1. text' = text /\ before' = before /\ edit' = edit
    BY <1>2 DEF lineVars
  <2> QED
    BY <2>1, Zenon DEF TextsInv, TextsTyped, OtherLinesStay, Plaintext!OtherLinesStay
<1> QED
  BY <1>1, <1>2, Zenon DEF EditsNext

LEMMA TextsHoldFirst == EditsInit => TextsInv
<1> SUFFICES ASSUME EditsInit PROVE TextsInv
  OBVIOUS
<1>1. Plaintext!Idle \/ Plaintext!Init
  BY Zenon DEF EditsInit
<1>2. text \in Seq(Plaintext!Chars) /\ before \in Seq(Plaintext!Chars) /\ edit = Plaintext!NoEdit
  <2>1. <<>> \in Seq(Plaintext!Chars)
    OBVIOUS
  <2>2. CASE Plaintext!Idle
    BY <2>1, <2>2 DEF Plaintext!Idle
  <2>3. CASE Plaintext!Init
    <3>1. PICK n \in 0..(MaxLength - 1) : text \in [1..n -> Plaintext!Chars]
      BY <2>3, Zenon DEF Plaintext!Init
    <3>2. n \in Nat
      BY EditsAssumption DEF EditsAssumption
    <3>3. text \in Seq(Plaintext!Chars)
      BY <3>1, <3>2
    <3> QED
      BY <2>1, <2>3, <3>3 DEF Plaintext!Init
  <2> QED
    BY <1>1, <2>2, <2>3
<1>3. edit.op = "none"
  BY <1>2 DEF Plaintext!NoEdit
<1>4. OtherLinesStay
  BY <1>3 DEF OtherLinesStay, Plaintext!OtherLinesStay
<1> QED
  BY <1>2, <1>4 DEF TextsInv, TextsTyped

(* From every text, and for every text looked for or sent, an edit of lines  *)
(* leaves the lines before and after it as they are, and what is inserted     *)
(* beside an anchor stands on lines of its own (line-utils.ts).             *)
THEOREM OtherLinesAlwaysStay == EditsSpec => []OtherLinesStay
<1>1. EditsInit => TextsInv
  BY TextsHoldFirst
<1>2. TextsInv /\ [EditsNext]_<<vars, tableVars, lineVars>> => TextsInv'
  BY TextsStay
<1>3. TextsInv => OtherLinesStay
  BY Zenon DEF TextsInv
<1> QED
  BY <1>1, <1>2, <1>3, PTL DEF EditsSpec

-----------------------------------------------------------------------------
(* WHAT IS READ AND FOUND.                                                  *)

(* A line has a character, and its only newline is the last one; every line  *)
(* but the last has it.                                                     *)
LEMMA LinePlaces ==
    ASSUME NEW S, NEW t \in Seq(S), NEW l \in 1..Plaintext!CountLines(t)
    PROVE  \E from \in 1..Len(t), to \in 2..(Len(t) + 1) :
              /\ from = Plaintext!LineToOffset(t, l) /\ to = Plaintext!LineToOffset(t, l + 1)
              /\ from < to
              /\ \A i \in from..(to - 1) : t[i] = Plaintext!Newline => i = to - 1
              /\ l < Plaintext!CountLines(t) => t[to - 1] = Plaintext!Newline
<1>1. PICK K \in Nat, n \in Nat : K = Plaintext!CountLines(t) /\ n = Len(t)
  BY CountIs
<1>2. l \in Int /\ l + 1 \in Int /\ 1 <= l /\ l <= K
  BY <1>1
<1>3. t # <<>> /\ n >= 1
  <2>1. t # <<>>
    BY <1>1, <1>2, CountIs
  <2> QED
    BY <1>1, <2>1, EmptySeq
<1>4. K = Plaintext!LineOf(t, n)
  BY <1>1, <1>3, CountIs
<1>5. PICK from \in 1..(n + 1), to \in 1..(n + 1) :
         /\ from = Plaintext!LineToOffset(t, l) /\ to = Plaintext!LineToOffset(t, l + 1)
         /\ FirstOn(t, l, from) /\ FirstOn(t, l + 1, to)
  BY <1>1, <1>2, OffsetIs, Zenon DEF FirstOn
<1> DEFINE at(i) == Plaintext!LineOf(t, i)
           NL == Plaintext!Newline
<1>6. /\ \A i \in 1..n : at(i) >= l <=> i >= from
      /\ \A i \in 1..n : at(i) >= l + 1 <=> i >= to
  BY <1>1, <1>5, Zenon DEF FirstOn
<1>7. /\ \A i \in Nat : at(i) \in Nat
      /\ at(1) = 1
      /\ \A i \in 1..n : at(i + 1) = IF t[i] = NL THEN at(i) + 1 ELSE at(i)
  BY <1>1, LineOfIs
<1> HIDE DEF at, NL
<1>8. K = at(n)
  BY <1>4 DEF at
<1>9. from \in 1..n
  BY <1>2, <1>3, <1>6, <1>8
<1>10. at(from) = l
  <2>1. at(from) >= l /\ at(from) \in Nat
    BY <1>6, <1>7, <1>9, SMTT(40)
  <2>2. CASE from = 1
    BY <1>2, <1>7, <2>1, <2>2
  <2>3. CASE from # 1
    <3>1. PICK p \in 1..n : p + 1 = from /\ p \in Nat
      BY <1>9, <2>3
    <3>2. ~(at(p) >= l) /\ at(p) \in Nat
      BY <1>6, <1>7, <3>1, SMTT(40)
    <3>3. at(from) = at(p) \/ at(from) = at(p) + 1
      BY <1>7, <3>1
    <3> QED
      BY <1>2, <2>1, <3>2, <3>3
  <2> QED
    BY <2>2, <2>3
<1>11. from < to
  BY <1>2, <1>6, <1>9, <1>10
<1>12. ASSUME NEW i \in from..(to - 1), t[i] = NL
       PROVE  i = to - 1
  <2>1. i \in 1..n /\ i \in Nat /\ i + 1 \in Nat /\ i >= from /\ ~(i >= to)
    BY <1>5
  <2>2. at(i) >= l /\ at(i + 1) = at(i) + 1 /\ at(i) \in Nat
    BY <1>6, <1>7, <1>12, <2>1
  <2>3. i + 1 \in 1..n => i + 1 >= to
    BY <1>2, <1>6, <2>2
  <2> QED
    BY <1>5, <2>1, <2>3
<1>13. ASSUME l < K PROVE t[to - 1] = NL
  <2>1. n \in 1..n /\ at(n) >= l + 1
    BY <1>2, <1>3, <1>8, <1>13
  <2>2. to \in 1..n
    BY <1>5, <1>6, <2>1
  <2>3. PICK p \in 1..n : p + 1 = to /\ p = to - 1
    BY <1>9, <1>11, <2>2
  <2>4. at(to) >= l + 1 /\ ~(at(p) >= l + 1)
    BY <1>6, <2>2, <2>3
  <2>5. at(p + 1) = IF t[p] = NL THEN at(p) + 1 ELSE at(p)
    BY <1>7
  <2> QED
    BY <2>3, <2>4, <2>5
<1>14. from \in 1..Len(t) /\ to \in 2..(Len(t) + 1)
  BY <1>1, <1>5, <1>9, <1>11
<1> QED
  BY <1>1, <1>5, <1>11, <1>12, <1>13, <1>14 DEF NL

LEMMA LinesRead ==
    ASSUME NEW S, NEW t \in Seq(S)
    PROVE  /\ Plaintext!Joined(Plaintext!Lines(t)) = t
           /\ \A l \in 1..Plaintext!CountLines(t) :
                /\ Plaintext!Lines(t)[l] # <<>>
                /\ Plaintext!Breaks(Plaintext!Lines(t)[l]) \subseteq {Len(Plaintext!Lines(t)[l])}
                /\ l < Plaintext!CountLines(t) => Plaintext!Breaks(Plaintext!Lines(t)[l]) # {}
           /\ \A i \in DOMAIN t :
                /\ Plaintext!LineToOffset(t, Plaintext!OffsetToLine(t, i)) <= i
                /\ i < Plaintext!LineToOffset(t, Plaintext!OffsetToLine(t, i) + 1)
<1>1. PICK K \in Nat, n \in Nat : K = Plaintext!CountLines(t) /\ n = Len(t)
  BY CountIs
<1>2. Plaintext!Joined(Plaintext!Lines(t)) = t
  <2>1. PICK L : L = Plaintext!Lines(t) /\ L \in Seq(Seq(S)) /\ Len(L) = K
    BY <1>1, LinesAre
  <2>2. 1 \in 1..(K + 1) /\ K \in (1 - 1)..K /\ K + 1 \in Int /\ K + 1 > K
    OBVIOUS
  <2>3. Plaintext!Joined(SubSeq(L, 1, K))
          = SubSeq(t, Plaintext!LineToOffset(t, 1), Plaintext!LineToOffset(t, K + 1) - 1)
    BY <1>1, <2>1, <2>2, JoinedIs, Zenon
  <2>4. Plaintext!LineToOffset(t, 1) = 1 /\ Plaintext!LineToOffset(t, K + 1) = n + 1
    BY <1>1, <2>2, OffsetsAre
  <2>5. SubSeq(L, 1, K) = L
    BY <2>1, SubSeqFull
  <2>6. SubSeq(t, 1, n) = t /\ (n + 1) - 1 = n
    BY <1>1, SubSeqFull
  <2> QED
    BY <2>1, <2>3, <2>4, <2>5, <2>6
<1>3. ASSUME NEW l \in 1..K
      PROVE  /\ Plaintext!Lines(t)[l] # <<>>
             /\ Plaintext!Breaks(Plaintext!Lines(t)[l]) \subseteq {Len(Plaintext!Lines(t)[l])}
             /\ l < K => Plaintext!Breaks(Plaintext!Lines(t)[l]) # {}
  <2>1. PICK from \in 1..n, to \in 2..(n + 1) :
              /\ from = Plaintext!LineToOffset(t, l) /\ to = Plaintext!LineToOffset(t, l + 1)
              /\ from < to
              /\ \A i \in from..(to - 1) : t[i] = Plaintext!Newline => i = to - 1
              /\ l < K => t[to - 1] = Plaintext!Newline
    BY <1>1, LinePlaces
  <2>2. PICK line : line = Plaintext!Lines(t)[l]
    OBVIOUS
  <2>3. line = SubSeq(t, from, to - 1)
    BY <1>1, <2>1, <2>2, LinesAre
  <2>4. from \in Int /\ to - 1 \in Int /\ \A i \in from..(to - 1) : t[i] \in S
    BY <1>1, <2>1
  <2>5. PICK m \in Nat : m = to - from /\ m >= 1 /\ m = to - 1 - from + 1 /\ from <= to - 1
    BY <2>1
  <2>6. line \in Seq(S) /\ Len(line) = m /\ \A i \in 1..m : line[i] = t[from + i - 1]
    BY <2>3, <2>4, <2>5, SubSeqProperties
  <2>7. Plaintext!Breaks(line) = {i \in 1..m : line[i] = Plaintext!Newline}
    <3>1. DOMAIN line = 1..m
      BY <2>6
    <3> QED
      BY <3>1, Zenon DEF Plaintext!Breaks
  <2>8. ASSUME NEW i \in Plaintext!Breaks(line) PROVE i = m
    <3>1. i \in 1..m /\ t[from + i - 1] = Plaintext!Newline
      BY <2>6, <2>7, <2>8
    <3>2. from + i - 1 \in from..(to - 1)
      BY <2>5, <3>1
    <3>3. from + i - 1 = to - 1
      BY <2>1, <3>1, <3>2
    <3> QED
      BY <2>5, <3>1, <3>3
  <2>9. ASSUME l < K PROVE Plaintext!Breaks(line) # {}
    <3>1. m \in 1..m /\ from + m - 1 = to - 1
      BY <2>5
    <3>2. line[m] = Plaintext!Newline
      BY <2>1, <2>6, <2>9, <3>1
    <3> QED
      BY <2>7, <3>1, <3>2
  <2>10. line # <<>>
    BY <2>5, <2>6
  <2> QED
    BY <2>2, <2>6, <2>8, <2>9, <2>10
<1>4. ASSUME NEW i \in 1..n
      PROVE  /\ Plaintext!LineToOffset(t, Plaintext!OffsetToLine(t, i)) <= i
             /\ i < Plaintext!LineToOffset(t, Plaintext!OffsetToLine(t, i) + 1)
  <2>1. PICK l \in Nat : l = Plaintext!OffsetToLine(t, i) /\ l = Plaintext!LineOf(t, i)
    BY <1>1, LineIn
  <2>2. l \in Int /\ l + 1 \in Int /\ l >= l /\ ~(l >= l + 1)
    OBVIOUS
  <2>3. PICK from, to : /\ from = Plaintext!LineToOffset(t, l) /\ FirstOn(t, l, from)
                        /\ to = Plaintext!LineToOffset(t, l + 1) /\ FirstOn(t, l + 1, to)
    BY <2>2, OffsetIs
  <2>4. from \in Int /\ to \in Int /\ i >= from /\ ~(i >= to)
    BY <1>1, <2>1, <2>2, <2>3 DEF FirstOn
  <2> QED
    BY <2>1, <2>3, <2>4
<1>5. DOMAIN t = 1..n
  BY <1>1
<1> QED
  BY <1>1, <1>2, <1>3, <1>4, <1>5, Zenon


(* The places s found from i on: they do not overlap, and each of `hits` lies *)
(* in one of them.                                                          *)
Covers(s, i, k, hits) ==
    /\ \A j \in 1..Len(s) : s[j] >= i
    /\ \A j \in 1..(Len(s) - 1) : s[j] + k <= s[j + 1]
    /\ \A p \in hits : p >= i => \E j \in 1..Len(s) : s[j] <= p /\ p < s[j] + k

LEMMA CoversMore ==
    ASSUME NEW s \in Seq(Nat), NEW i \in Nat, NEW k \in Nat, k >= 1, NEW hits \in SUBSET Nat
    PROVE  /\ (\A p \in hits : p < i) => Covers(<<>>, i, k, hits)
           /\ i \notin hits /\ Covers(s, i + 1, k, hits) => Covers(s, i, k, hits)
           /\ Covers(s, i + k, k, hits) => Covers(<<i>> \o s, i, k, hits)
<1>1. (\A p \in hits : p < i) => Covers(<<>>, i, k, hits)
  BY DEF Covers
<1>2. ASSUME i \notin hits, Covers(s, i + 1, k, hits) PROVE Covers(s, i, k, hits)
  <2>1. \A j \in 1..Len(s) : s[j] \in Nat
    OBVIOUS
  <2>2. \A p \in hits : p \in Nat /\ (p >= i => p >= i + 1)
    BY <1>2
  <2> QED
    BY <1>2, <2>1, <2>2 DEF Covers
<1>3. ASSUME Covers(s, i + k, k, hits) PROVE Covers(<<i>> \o s, i, k, hits)
  <2>1. PICK m \in Nat : m = Len(s)
    OBVIOUS
  <2>2. PICK z : m = Len(s) /\ z = <<i>> \o s
    BY <2>1
  <2>3. Len(z) = m + 1 /\ z[1] = i /\ \A j \in 1..m : z[j + 1] = s[j]
    <3>1. PICK a : a = <<i>> /\ a \in Seq(Nat) /\ Len(a) = 1 /\ a[1] = i
      BY OneIs
    <3>2. /\ Len(a \o s) = Len(a) + Len(s)
          /\ \A j \in 1..Len(a) : (a \o s)[j] = a[j]
          /\ \A j \in 1..Len(s) : (a \o s)[Len(a) + j] = s[j]
      BY <3>1, JoinReads
    <3>3. z = a \o s
      BY <2>2, <3>1
    <3>4. \A j \in 1..m : z[1 + j] = s[j] /\ j + 1 = 1 + j
      BY <2>2, <3>1, <3>2, <3>3
    <3> QED
      BY <2>2, <3>1, <3>2, <3>3, <3>4
  <2>4. /\ \A j \in 1..m : s[j] >= i + k /\ s[j] \in Nat
        /\ \A j \in 1..(m - 1) : s[j] + k <= s[j + 1]
        /\ \A p \in hits : p >= i + k => \E j \in 1..m : s[j] <= p /\ p < s[j] + k
    BY <1>3, <2>2 DEF Covers
  <2>5. ASSUME NEW j \in 1..(m + 1) PROVE z[j] >= i
    <3>1. CASE j = 1
      BY <2>3, <3>1
    <3>2. CASE j # 1
      <4>1. PICK g \in 1..m : g + 1 = j
        BY <3>2
      <4>2. z[g + 1] = s[g]
        BY <2>3
      <4>3. s[g] >= i + k /\ s[g] \in Nat
        BY <2>4
      <4>4. s[g] >= i
        BY <4>3
      <4> QED
        BY <4>1, <4>2, <4>4
    <3> QED
      BY <3>1, <3>2
  <2>6. ASSUME NEW j \in 1..m PROVE z[j] + k <= z[j + 1]
    <3>1. CASE j = 1
      BY <2>3, <2>4, <3>1
    <3>2. CASE j # 1
      <4>1. PICK g \in 1..(m - 1) : g + 1 = j /\ g \in 1..m
        BY <3>2
      <4>2. z[j] = s[g] /\ z[j + 1] = s[g + 1]
        <5>1. g + 1 \in 1..m /\ j + 1 = (g + 1) + 1
          BY <4>1
        <5> QED
          BY <2>3, <4>1, <5>1
      <4> QED
        BY <2>4, <4>1, <4>2
    <3> QED
      BY <3>1, <3>2
  <2>7. ASSUME NEW p \in hits, p >= i
        PROVE  \E j \in 1..(m + 1) : z[j] <= p /\ p < z[j] + k
    <3>1. CASE p < i + k
      <4>1. 1 \in 1..(m + 1)
        OBVIOUS
      <4> QED
        BY <2>3, <2>7, <3>1, <4>1
    <3>2. CASE p >= i + k
      <4>1. PICK j \in 1..m : s[j] <= p /\ p < s[j] + k
        BY <2>4, <2>7, <3>2
      <4>2. j + 1 \in 1..(m + 1) /\ z[j + 1] = s[j]
        BY <2>3
      <4> QED
        BY <4>1, <4>2
    <3>3. p \in Nat
      OBVIOUS
    <3> QED
      BY <3>1, <3>2, <3>3
  <2>8. (m + 1) - 1 = m
    OBVIOUS
  <2>9. Covers(z, i, k, hits)
    BY <2>3, <2>5, <2>6, <2>7, <2>8 DEF Covers
  <2> QED
    BY <2>2, <2>9
<1> QED
  BY <1>1, <1>2, <1>3

LEMMA FindsAll ==
    ASSUME NEW S, NEW t \in Seq(S), NEW q \in Seq(S), q # <<>>, NEW whole
    PROVE  LET found == Plaintext!FindText(t, q, whole)
               P     == {i \in 1..Len(t) : i + Len(q) <= Len(t) + 1}
           IN  /\ found \in Seq(P)
               /\ Covers(found, 1, Len(q), {i \in P : Plaintext!Hit(t, q, i, whole)})
<1>1. PICK n \in Nat, k \in Nat : n = Len(t) /\ k = Len(q) /\ k >= 1
  OBVIOUS
<1>2. PICK P : P = {i \in 1..n : i + k <= n + 1}
  OBVIOUS
<1>3. PICK hits : hits = {i \in P : Plaintext!Hit(t, q, i, whole)}
  OBVIOUS
<1>4. hits \in SUBSET Nat /\ P \in SUBSET Nat /\ hits \in SUBSET P
  BY <1>2, <1>3
<1>5. PICK f : Finds(t, q, whole, f) /\ Plaintext!FindText(t, q, whole) = f[1]
  BY FindsIs
<1> DEFINE D == 1..(n + 1)
<1>6. /\ \A i \in D : f[i] \in Seq(P)
      /\ \A i \in D : f[i] = IF i + k > n + 1 THEN <<>>
                             ELSE (IF Plaintext!Hit(t, q, i, whole) THEN <<i>> ELSE <<>>)
                                    \o f[Plaintext!NextPlace(t, q, i, whole)]
  <2>1. /\ f \in [D -> Seq(P)]
        /\ \A i \in D : f[i] = IF i + k > n + 1 THEN <<>>
                             ELSE (IF Plaintext!Hit(t, q, i, whole) THEN <<i>> ELSE <<>>)
                                    \o f[Plaintext!NextPlace(t, q, i, whole)]
    BY <1>1, <1>2, <1>5, Zenon DEF Finds
  <2> HIDE DEF D
  <2> QED
    BY <2>1
<1>7. \A i \in D : f[i] \in Seq(Nat)
  <2>1. ASSUME NEW s \in Seq(P) PROVE s \in Seq(Nat)
    <3>1. \A p \in P : p \in Nat
      BY <1>4
    <3>2. Len(s) \in Nat /\ s = [j \in 1..Len(s) |-> s[j]] /\ \A j \in 1..Len(s) : s[j] \in P
      OBVIOUS
    <3>3. \A j \in 1..Len(s) : s[j] \in Nat
      BY <3>1, <3>2
    <3> QED
      BY <3>2, <3>3
  <2> HIDE DEF D
  <2> QED
    BY <1>6, <2>1
<1> DEFINE T == {m \in Nat : \A i \in D : i + m >= n + 1 => Covers(f[i], i, k, hits)}
<1>8. ASSUME NEW i \in D, \A j \in D : j > i => Covers(f[j], j, k, hits)
      PROVE  Covers(f[i], i, k, hits)
  <2>1. CASE i + k > n + 1
    <3>1. f[i] = <<>>
      BY <1>6, <2>1
    <3>2. i \in Nat /\ \A p \in hits : p < i
      BY <1>2, <1>4, <2>1
    <3> HIDE DEF D
    <3>3. <<>> \in Seq(Nat)
      OBVIOUS
    <3> QED
      BY <1>1, <1>4, <3>1, <3>2, <3>3, CoversMore
  <2>2. CASE ~(i + k > n + 1)
    <3>1. i \in P /\ i \in Nat /\ i + 1 \in D /\ i + k \in D /\ i + 1 > i /\ i + k > i
      BY <1>1, <1>2, <2>2
    <3>2. /\ Covers(f[i + 1], i + 1, k, hits) /\ Covers(f[i + k], i + k, k, hits)
          /\ f[i + 1] \in Seq(Nat) /\ f[i + k] \in Seq(Nat)
      BY <1>7, <1>8, <3>1
    <3> HIDE DEF D
    <3>3. CASE Plaintext!Hit(t, q, i, whole)
      <4>1. Plaintext!NextPlace(t, q, i, whole) = i + k
        BY <1>1, <3>3, Zenon DEF Plaintext!NextPlace
      <4>2. f[i] = <<i>> \o f[i + k]
        BY <1>6, <2>2, <3>3, <4>1
      <4> QED
        BY <1>1, <1>4, <3>1, <3>2, <4>2, CoversMore
    <3>4. CASE ~Plaintext!Hit(t, q, i, whole)
      <4>1. Plaintext!NextPlace(t, q, i, whole) = i + 1
        BY <3>4, Zenon DEF Plaintext!NextPlace
      <4>2. f[i] = <<>> \o f[i + 1]
        BY <1>6, <2>2, <3>4, <4>1
      <4>3. f[i] = f[i + 1] /\ i \notin hits
        BY <1>3, <3>2, <3>4, <4>2
      <4> QED
        BY <1>1, <1>4, <3>1, <3>2, <4>3, CoversMore
    <3> QED
      BY <3>3, <3>4
  <2> QED
    BY <2>1, <2>2
<1>9. 0 \in T
  <2>1. ASSUME NEW i \in D, i + 0 >= n + 1 PROVE Covers(f[i], i, k, hits)
    <3>1. \A j \in D : ~(j > i)
      BY <2>1
    <3> QED
      BY <1>8, <3>1
  <2> QED
    BY <2>1
<1>10. ASSUME NEW m \in Nat, m \in T PROVE m + 1 \in T
  <2>1. ASSUME NEW i \in D, i + (m + 1) >= n + 1 PROVE Covers(f[i], i, k, hits)
    <3>1. ASSUME NEW j \in D, j > i PROVE j + m >= n + 1
      BY <2>1, <3>1
    <3>2. \A j \in D : j > i => Covers(f[j], j, k, hits)
      BY <1>10, <3>1
    <3> QED
      BY <1>8, <3>2
  <2> QED
    BY <2>1
<1> HIDE DEF T
<1>11. Nat \subseteq T
  BY <1>9, <1>10, SetInduction
<1>12. Covers(f[1], 1, k, hits)
  <2>1. n + 1 \in T /\ 1 \in D /\ 1 + (n + 1) >= n + 1
    BY <1>11
  <2> QED
    BY <2>1 DEF T
<1>13. f[1] \in Seq(P)
  BY <1>6
<1> QED
  BY <1>1, <1>2, <1>3, <1>5, <1>12, <1>13


LEMMA TextsAreTyped == EditsSpec => []TextsTyped
<1>1. EditsInit => TextsInv
  BY TextsHoldFirst
<1>2. TextsInv /\ [EditsNext]_<<vars, tableVars, lineVars>> => TextsInv'
  BY TextsStay
<1>3. TextsInv => TextsTyped
  BY Zenon DEF TextsInv
<1> QED
  BY <1>1, <1>2, <1>3, PTL DEF EditsSpec

(* Every text that edits lead to reads, line by line, as that text, and line  *)
(* numbers and offsets translate into each other: a newline at the end is    *)
(* no line of its own (line-utils.ts).                                      *)
THEOREM LinesAreAlwaysTheText == EditsSpec => []LinesAreTheText
<1>1. TextsTyped => LinesAreTheText
  <2> SUFFICES ASSUME TextsTyped PROVE LinesAreTheText
    OBVIOUS
  <2>1. text \in Seq(Plaintext!Chars)
    BY Zenon DEF TextsTyped
  <2>2. /\ Plaintext!Joined(Plaintext!Lines(text)) = text
        /\ \A l \in 1..Plaintext!CountLines(text) :
             /\ Plaintext!Lines(text)[l] # <<>>
             /\ Plaintext!Breaks(Plaintext!Lines(text)[l])
                  \subseteq {Len(Plaintext!Lines(text)[l])}
             /\ l < Plaintext!CountLines(text)
                  => Plaintext!Breaks(Plaintext!Lines(text)[l]) # {}
        /\ \A i \in DOMAIN text :
             /\ Plaintext!LineToOffset(text, Plaintext!OffsetToLine(text, i)) <= i
             /\ i < Plaintext!LineToOffset(text, Plaintext!OffsetToLine(text, i) + 1)
    BY <2>1, LinesRead, Zenon
  <2> QED
    BY <2>2, Zenon DEF LinesAreTheText, Plaintext!LinesAreTheText
<1> QED
  BY <1>1, TextsAreTyped, PTL

(* In every such text a search shows every place: what it shows does not      *)
(* overlap, and an occurrence that is not shown overlaps one that is         *)
(* (text-find.ts).                                                          *)
THEOREM EveryPlaceIsAlwaysFound == EditsSpec => []FindsEveryPlace
<1>1. TextsTyped => FindsEveryPlace
  <2> SUFFICES ASSUME TextsTyped, NEW q \in Snippets \ {<<>>}, NEW whole \in BOOLEAN
               PROVE  LET found == Plaintext!FindText(text, q, whole)
                          all   == {i \in DOMAIN text :
                                      /\ i + Len(q) <= Len(text) + 1 /\ Plaintext!At(text, q, i)
                                      /\ whole => Plaintext!OnBoundary(text, i, Len(q))}
                      IN  /\ \A j \in 1..(Len(found) - 1) : found[j] + Len(q) <= found[j + 1]
                          /\ \A i \in all : \E j \in DOMAIN found :
                                i \in found[j]..(found[j] + Len(q) - 1)
    BY Zenon DEF FindsEveryPlace, Plaintext!FindsEveryPlace
  <2>1. PICK t \in Seq(Plaintext!Chars) : t = text
    BY Zenon DEF TextsTyped
  <2>2. q \in Seq(Plaintext!Chars) /\ q # <<>>
    BY EditsAssumption
  <2>3. PICK k \in Nat : k = Len(q)
    BY <2>2
  <2>4. PICK P, hits : /\ P = {i \in 1..Len(t) : i + Len(q) <= Len(t) + 1}
                       /\ hits = {i \in P : Plaintext!Hit(t, q, i, whole)}
    OBVIOUS
  <2>5. PICK found : found = Plaintext!FindText(t, q, whole)
    OBVIOUS
  <2>6. found \in Seq(P) /\ Covers(found, 1, k, hits)
    BY <2>1, <2>2, <2>3, <2>4, <2>5, FindsAll
  <2>7. \A j \in DOMAIN found : found[j] \in Nat
    BY <2>4, <2>6
  <2>8. DOMAIN found = 1..Len(found)
    BY <2>6
  <2>9. ASSUME NEW i \in DOMAIN t, i + Len(q) <= Len(t) + 1, Plaintext!At(t, q, i),
               whole => Plaintext!OnBoundary(t, i, Len(q))
        PROVE  \E j \in DOMAIN found : i \in found[j]..(found[j] + Len(q) - 1)
    <3>1. i \in 1..Len(t) /\ i \in Nat /\ i >= 1
      BY <2>1
    <3>2. Plaintext!Hit(t, q, i, whole)
      BY <2>9, Zenon DEF Plaintext!Hit
    <3>3. i \in hits
      BY <2>4, <2>9, <3>1, <3>2
    <3>4. PICK j \in 1..Len(found) : found[j] <= i /\ i < found[j] + k
      BY <2>6, <3>1, <3>3 DEF Covers
    <3>5. i \in found[j]..(found[j] + Len(q) - 1)
      BY <2>3, <2>7, <2>8, <3>1, <3>4
    <3> QED
      BY <2>8, <3>4, <3>5
  <2>10. \A j \in 1..(Len(found) - 1) : found[j] + Len(q) <= found[j + 1]
    BY <2>3, <2>6 DEF Covers
  <2> QED
    BY <2>1, <2>5, <2>9, <2>10
<1> QED
  BY <1>1, TextsAreTyped, PTL
=============================================================================
