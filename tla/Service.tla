------------------------------ MODULE Service ------------------------------
(***************************************************************************)
(* The server as a whole: requests reach their session (Sessions), a tool    *)
(* call runs as the caller of that session and with its rate limiter         *)
(* (Citations), and the end of the process ends the calls.  doc_cite stands  *)
(* for every tool; the write tools are in Workspace and DocEdits.           *)
(***************************************************************************)
EXTENDS Sessions, Citations

ASSUME OneCallEach == Calls = Requests /\ Limiters = Ids

(* What the schema of the tool's arguments lets through.                    *)
ASSUME MenusAssumption ==
    \A u \in Setups, r \in Requests : \A q \in u.menu[r] : q.kind = "call" =>
        q.cite \in [op : {"cite", "reverify"}, source : Sources, quote : {q.cite.quote},
                   target : Spellings \union {NoTarget}, etag : BOOLEAN, force : BOOLEAN]

serviceVars == <<sessVars, citeVars>>

(* createServer: the tools see the caller of the session, and a rate limiter *)
(* of their own.  NoTarget is the path "**".                                *)
Who(s) == [id |-> server[s].id, limiter |-> s,
           perms |-> Granted(server[s].scopes, {"cite", "cite_web", "read", "write"},
                             Spellings \union Sources \union {NoTarget})]

ServiceInit == SessInit /\ CiteInit

Transport(r) == (Arrive(r) \/ ArriveOnStdio(r) \/ RequestStep(r)) /\ UNCHANGED citeVars

(* wrapHandler calls the tool's handler; an exception is an answer, too.     *)
BeginTool(r) ==
    /\ req[r].pc = "handling"
    /\ Begin(r, req[r].is.cite, Who(req[r].sid))
    /\ UNCHANGED sessVars

Respond(r) ==
    /\ req[r].pc = "handling" /\ call[r].pc = "done"
    /\ Pass(r, "answered")
    /\ UNCHANGED <<setup, life, table, conn, server, expired, fired, shutdown, crashes>>
    /\ UNCHANGED citeVars

ToolStep(r) == CiteStep(r) /\ UNCHANGED sessVars

(* process.exit, and every other end, takes the calls that are under way.    *)
End == Ending /\ IF life' = "exited" THEN ProcessEnds ELSE UNCHANGED citeVars

Restart == Crash /\ ProcessEnds

World ==
    \/ /\ life = "up" /\ UNCHANGED sessVars
       /\ \/ "time" \in setup.moves /\ Tick
          \/ "sources" \in setup.moves /\ SourceChanges
          \/ "edits" \in setup.moves /\ OtherEdit
    \/ (\E r \in Requests : req[r].pc # "idle" /\ Expire(req[r].is.token)) /\ UNCHANGED citeVars

Handler(r) == Transport(r) \/ BeginTool(r) \/ ToolStep(r) \/ Respond(r)

ServiceNext == (\E r \in Requests : Handler(r)) \/ End \/ Restart \/ World

ServiceSpec == ServiceInit /\ [][ServiceNext]_serviceVars

(* node runs the continuation of every settled promise, and every promise of *)
(* a handler settles: authentication and DNS end or fail, requests have a    *)
(* timeout for headers and body, file reads and git end.  (drainBody has no  *)
(* bound on the length of a body, so a refused body is taken to end.)  A     *)
(* handler under way is never disabled by others, so weak fairness suffices. *)
(* No request, trigger or change has to come.                               *)
Continues(r) ==
    \/ RequestStep(r) /\ UNCHANGED citeVars
    \/ BeginTool(r) \/ ToolStep(r) \/ Respond(r)

ShutdownGoesOn ==
    /\ HttpCloseNext \/ HttpClose \/ HttpExit \/ CleanupEnds \/ GraceOver
    /\ IF life' = "exited" THEN ProcessEnds ELSE UNCHANGED citeVars

FairService == /\ ServiceSpec
               /\ \A r \in Requests : WF_serviceVars(Continues(r))
               /\ WF_serviceVars(ShutdownGoesOn)

-----------------------------------------------------------------------------
(* What the policy lets the caller of a request do, by its meaning.          *)
May(r, permission, path) ==
    \E s \in server[req[r].sid].due : <<path, s.path>> \in Matching /\ permission \in s.permissions

(* No call fetches a source, stores a row or writes a line that the policy    *)
(* does not allow its caller: some binding of its identity, or default_role   *)
(* where none is its own, has the permission to cite into the target, to read *)
(* a source whose path as it is written lies in a root, and to write the      *)
(* target.  The session found by its id, the closure that knows its caller    *)
(* and the roles have to agree on that.                                     *)
(* (roles.ts resolveScopes, bin.ts createServer, doc-cite.ts:97-134.)        *)
CitesWithinRoles ==
    \A r \in Requests :
        call[r].pc # "idle" /\ call[r].answer \notin {"thrown", "unknown"} =>
            LET k == call[r].req IN
            /\ May(r, IF Web(k.source) THEN "cite_web" ELSE "cite", k.target)
            /\ Kind[k.source] \in {"file", "managed"} => May(r, "read", k.source)
            /\ k.op = "cite" /\ k.target # NoTarget => May(r, "write", k.target)

(* doc-cite.ts:102 to 105 says that without read no caller can cite a file    *)
(* inside a root by spelling it as file://.  The path is looked up in the     *)
(* roots as it is written and read as it resolves: where only the resolved    *)
(* path lies in a root, nothing asks for read.                              *)
ReadsWithinRoles ==
    \A r \in Requests :
        call[r].pc # "idle" /\ call[r].answer \notin {"thrown", "unknown"}
            /\ Kind[call[r].req.source] \in {"file", "managed", "indirect"}
            => May(r, "read", call[r].req.source)

(* Every request is answered, whatever fails on the way, unless the process  *)
(* ends.  (http-server.ts, runtime.ts wrapHandler, doc-cite.ts.)            *)
EveryRequestEnds ==
    \A r \in Requests :
        req[r].pc # "idle" ~> req[r].pc = "answered" \/ life = "exited"

(* A stdio server whose client has gone ends, a cleanup that never settles    *)
(* included; an HTTP server that is told to stop closes every session it has *)
(* registered by then and stops listening.  (stdio-lifecycle.ts, bin.ts.)   *)
ShutdownEnds ==
    /\ fired # {} ~> life \in {"exited", "up"}
    /\ \A s \in Ids : life = "stopping" /\ table[s] # NoId ~> conn[s] = "closed"
    /\ life = "stopping" ~> life \in {"closed", "exited", "up"}
=============================================================================
