------------------------------ MODULE MCEdits ------------------------------
(* Small documents for Edits: a regular one, one whose levels skip, one   *)
(* with a preamble, and one whose h1 has a text of its own.                  *)
EXTENDS Edits

x == Body(<<"x">>)
y == Body(<<"y">>)

H(l, t)    == Heading(l, <<t>>, NoId)
HId(l, t)  == Heading(l, <<t>>, <<<<t>>, 1>>)

(* A heading with a line under it.                                          *)
MCUnderlined == {H(2, "intro")}

MCTitles   == {<<"A">>, <<"B">>}
MCWords    == {"x", "A"}

MCContents == { <<>>, <<y>>, <<H(3, "B"), y>>, <<H(2, "A"), y>>,
                <<x, H(2, "intro")>>, <<HId(4, "A"), Body(<<"#tag">>)>>, <<Body(<<"#tag">>), H(3, "B")>> }

MCDocuments == { <<H(1, "D"), x, HId(2, "A"), y, H(3, "B"), x, H(2, "C")>>,
                 <<x, H(1, "A"), HId(3, "B"), y, HId(2, "C"), x>>,
                 <<H(2, "A"), x, H(6, "B"), HId(2, "B"), H(3, "A")>> }

MCEarlier == <<H(1, "D"), HId(2, "A"), x, y>>

(* For generating the table of contents twice.                              *)
OneTitle   == {<<"B">>}
OneContent == {<<>>}
WithIntro  == {<<H(1, "D"), Body(<<"intro">>), H(2, "A")>>}

(* Tables of two columns: cells with and without markup, a row too short and *)
(* one too long, with and without outer pipes.                              *)
MCPlainText == [c \in {"", "k", "*k*", "v"} |-> IF c = "*k*" THEN "k" ELSE c]
MCFolded    == [c \in {"Id", "id", "Val", "None"} |-> IF c = "Id" THEN "id" ELSE c]

RowOf(cells, l) == [cells |-> cells, line |-> l]
TableOf(outer, aligned, rows) ==
    [header |-> <<"Id", "Val">>, outer |-> outer, aligned |-> aligned, rows |-> rows]

Plainly == TableOf(FALSE, FALSE, <<RowOf(<<"k", "v">>, 1), RowOf(<<"v">>, 2),
                                   RowOf(<<"*k*", "", "v">>, 3)>>)
Piped   == TableOf(TRUE, TRUE, <<RowOf(<<"*k*", "v">>, 1), RowOf(<<"k", "">>, 2)>>)
Twice   == [header |-> <<"Id", "Id">>, outer |-> TRUE, aligned |-> FALSE,
            rows |-> <<RowOf(<<"k", "v">>, 1)>>]

MCTables  == {<<Plainly>>, <<Piped, Twice>>}
MCWheres  == {{<<"id", "k">>}, {<<"Id", "k">>, <<"Val", "">>}, {<<"None", "v">>}}
MCNumbers == {-1, 1}
MCRecords == { "id" :> "v", ("Id" :> "k") @@ ("Val" :> "") }

(* Texts of the letter x and the space.                                     *)
MCSnippets == {<<>>, <<" ", " ">>, <<"x">>, <<"x", "x">>, <<" ", "x">>, <<"x", "\n">>, <<"\n", "x">>}
=============================================================================
