------------------------------ MODULE MCService ------------------------------
(***************************************************************************)
(* Small worlds for Service: HTTP sessions of several OAuth callers, the     *)
(* citations of one caller over HTTP, and one client on stdio.               *)
(***************************************************************************)
EXTENDS Service

CONSTANTS r1, r2, r3

(* The document n has two spellings, the others have one.                   *)
MCSpellings == Targets \union {"docs/n"}
MCFileOf    == [x \in MCSpellings |-> IF x = "docs/n" THEN "n" ELSE x]

(* Callers and the configuration of roles.                                  *)
All  == [path |-> "**", permissions |-> {"read", "write", "cite", "cite_web"}]
Read == [path |-> "**", permissions |-> {"read"}]
Note == [path |-> "n", permissions |-> {"read", "write", "cite"}]
File == [path |-> "f", permissions |-> {"read"}]

MCOrder     == <<"alice">>
MCProviders == <<"idp1", "idp2">>
MCMinimal   == <<Read>>
MCCallers  == {"alice", "bob", "Carol", "_default"}
MCConfigs  == "alice" :> [key |-> "ka", scopes |-> <<All>>]
MCRoles    == [editor |-> <<All, Read>>, reader |-> <<Read>>, noter |-> <<Note, File>>]
MCGroups   == [staff |-> {"carol"}]
MCLower    == [Carol |-> "carol", Ex |-> "ex"]
MCBindings == << [by |-> "idp_group", name |-> "eng", roles |-> <<"noter">>],
                 [by |-> "local_group", name |-> "staff", roles |-> <<"noter", "editor">>],
                 [by |-> "domain", name |-> "Ex", roles |-> <<"ghost">>],
                 [by |-> "user", name |-> "carol", roles |-> <<"reader">>] >>
MCMatching == (MCSpellings \union Sources \union {"**"}) \X {"**"}
              \union {<<"n", "n">>, <<"f", "f">>}

(* "ta" and "tc" are of the first provider, "tb" of the second; "tg" may do   *)
(* nothing, and "tx" is nobody's.                                           *)
Facts(subject, groups, domain) ==
    [subject |-> subject, groups |-> groups, roles |-> {}, domain |-> domain]
MCFacts == <<"ta", "idp1">> :> Facts("alice", {"eng"}, NoName)
        @@ <<"tb", "idp2">> :> Facts("bob", {}, NoName)
        @@ <<"tc", "idp1">> :> Facts("Carol", {"ops"}, NoName)
        @@ <<"tc", "idp2">> :> Facts("alice", {"eng"}, NoName)
        @@ <<"tg", "idp1">> :> Facts(NoName, {}, "ex")

(* Documents and sources.                                                   *)
Line(level, title) == [level |-> level, title |-> title, anchored |-> FALSE]
Marked(level, title) == [Line(level, title) EXCEPT !.anchored = TRUE]
MCOpening == [g |-> <<Line(2, "citations"), Line(1, "end")>>, n |-> <<Line(0, "text")>>,
              b |-> <<Line(1, "end"), Marked(2, "citations")>>, h |-> <<Marked(2, "citations")>>]
MCAdditions == [t \in Targets |-> IF t \in {"g", "n"} THEN {Line(1, "more")} ELSE {}]
MCKind  == [w |-> "web", l |-> "literal", x |-> "refused", f |-> "file", m |-> "managed",
            o |-> "outside", p |-> "pdf", s |-> "file", i |-> "indirect"]
MCPublished == [k \in DOMAIN MCKind |-> CASE k \in {"w", "f"} -> <<"a", "1", "2">>
                                           [] k = "m" -> <<"a", "c", "-", "d">>
                                           [] OTHER -> <<"a">>]
MCRevisions == [k \in DOMAIN MCKind |-> IF k \in {"w", "f"} THEN {<<"a">>, Gone} ELSE {}]
MCFold  == "_" :> "-"

Cite(from, quote, target, etag, force) ==
    [op |-> "cite", source |-> from, quote |-> quote, target |-> target,
     etag |-> etag, force |-> force]
Recheck == [Cite("f", <<>>, NoTarget, FALSE, FALSE) EXCEPT !.op = "reverify"]

Ask(kind, token, cite) == [kind |-> kind, token |-> token, cite |-> cite]
Opens(token)   == Ask("open", token, NoCall)
Deletes(token) == Ask("delete", token, NoCall)
Simple(token)  == Ask("call", token, Cite("p", <<"a">>, NoTarget, FALSE, FALSE))
Cites(token, cites) == {Ask("call", token, k) : k \in cites}

World0 == [transport |-> "streamable-http", backend |-> "oauth-external",
           menu |-> [r \in Requests |-> {}], open |-> [s \in Ids |-> NoId], moves |-> {}]
Menus(one, two, three) ==
    [r \in Requests |-> CASE r = r1 -> one [] r = r2 -> two [] OTHER -> three]

(* Sessions that are opened, used and deleted by two callers, and the end.   *)
Many == [World0 EXCEPT
    !.menu = Menus({Opens("ta")}, {Opens("tc"), Opens("tb"), Simple("ta")},
                   {Simple("ta"), Simple("tc"), Deletes("ta")}),
    !.moves = {"end", "crash"}]

(* Tokens of every kind, some of which run out, and a crash.                *)
Tokens == [World0 EXCEPT
    !.menu = Menus({Opens("ta"), Opens("tb"), Opens("tg")},
                   {Simple("ta"), Simple("tx"), Opens("tc")}, {}),
    !.moves = {"tokens", "crash"}]

(* Sessions of one caller with a key, already open.                         *)
Server(outcome) == [id |-> outcome.id, scopes |-> outcome.scopes, due |-> Range(outcome.scopes)]
Keyed == [World0 EXCEPT !.backend = "bearer",
                        !.open = [s \in Ids |-> IF s = 1 THEN Server(AuthenticateBearer("ka"))
                                                ELSE NoId]]

OfFile(t, etag, force) == Cite("f", <<"a">>, t, etag, force)

(* Citations into a root without and a root under git, and other edits.      *)
Race == [Keyed EXCEPT
    !.menu = Menus(Cites("ka", {OfFile("n", TRUE, FALSE), OfFile("g", FALSE, FALSE)}),
                   Cites("ka", {OfFile("n", FALSE, TRUE), OfFile("g", FALSE, TRUE)}),
                   Cites("ka", {OfFile("n", FALSE, FALSE), OfFile("docs/n", FALSE, FALSE)})),
    !.moves = {"edits"}]

(* Citations that are checked again, of sources that change.                *)
Drift == [Keyed EXCEPT
    !.menu = Menus(Cites("ka", {OfFile("n", FALSE, FALSE), Cite("w", <<"a">>, "n", FALSE, FALSE)}),
                   Cites("ka", {Recheck}), {}),
    !.moves = {"sources", "crash"}]

(* Sources of the web, and time.                                            *)
Rate == [Keyed EXCEPT
    !.menu = [r \in Requests |-> Cites("ka", {Cite("l", <<"a">>, NoTarget, FALSE, FALSE)})],
    !.moves = {"time"}]

(* Every kind of source and verdict.                                        *)
Kinds == [Keyed EXCEPT
    !.menu = Menus(Cites("ka", {Cite(k, <<"a">>, "n", FALSE, FALSE) : k \in {"w", "x", "o", "s", "p"}}
                               \union {Cite("f", q, "n", FALSE, FALSE) : q \in {<<"1">>, <<"z">>}}
                               \union {OfFile(t, FALSE, FALSE) : t \in {"b", "h"}}
                               \union {Cite("m", <<"c", "_">>, "n", FALSE, FALSE),
                                       Cite("m", <<"a">>, "n", FALSE, FALSE)}),
                   {Opens("kb")}, {})]

(* The only client of a stdio server.                                       *)
Stdio == [World0 EXCEPT !.transport = "stdio",
    !.open = [s \in Ids |-> IF s = 1 THEN Server(ResolveCaller(MCMinimal)) ELSE NoId],
    !.menu = Menus(Cites("ka", {OfFile("n", FALSE, FALSE), OfFile("g", TRUE, FALSE)}),
                   Cites("ka", {OfFile("n", FALSE, FALSE)}), {}),
    !.moves = {"end", "crash"}]

(* Somebody who may only write notes.                                       *)
Noter == [World0 EXCEPT
    !.menu = Menus({Opens("ta")},
                   Cites("ta", {OfFile("g", FALSE, FALSE), Cite("m", <<"a">>, "n", FALSE, FALSE),
                                Cite("i", <<"a">>, "n", FALSE, FALSE),
                                OfFile("n", FALSE, FALSE), Cite("w", <<"a">>, "n", FALSE, FALSE)}),
                   Cites("ta", {OfFile("n", FALSE, TRUE), Recheck}))]

MCSetups == {Many, Tokens, Race, Drift, Rate, Kinds, Stdio, Noter}

(* For single questions.                                                    *)
OnlyRace  == {Race}
OnlyKinds == {Kinds}
OnlyStdio == {Stdio}

(* Two sources with the same text.                                          *)
Mirrored == [Keyed EXCEPT
    !.menu = Menus(Cites("ka", {OfFile("n", FALSE, FALSE)}),
                   Cites("ka", {Cite("w", <<"a">>, "n", FALSE, FALSE)}), {})]
OnlyMirrored == {Mirrored}

(* Two citations into a document whose Citations heading has an anchor.      *)
Anchored == [Keyed EXCEPT
    !.menu = Menus(Cites("ka", {OfFile("b", FALSE, FALSE)}),
                   Cites("ka", {OfFile("b", FALSE, FALSE)}), {})]
OnlyAnchored == {Anchored}

(* One document cited into under two spellings.                             *)
Spelled == [Keyed EXCEPT
    !.menu = Menus(Cites("ka", {OfFile("n", FALSE, FALSE)}),
                   Cites("ka", {OfFile("docs/n", FALSE, FALSE)}), {})]
OnlySpelled == {Spelled}

(* Somebody who may only write notes, and a path that has to be resolved.     *)
Indirect == [Noter EXCEPT
    !.menu = Menus({Opens("ta")}, Cites("ta", {Cite("i", <<"a">>, "n", FALSE, FALSE)}), {})]
OnlyIndirect == {Indirect}
=============================================================================
