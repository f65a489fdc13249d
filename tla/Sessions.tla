------------------------------ MODULE Sessions ------------------------------
(***************************************************************************)
(* The transports: HTTP requests that are authenticated and routed to the    *)
(* MCP server of their session, or the one client of stdio; and the end of   *)
(* the process on either.  What a tool call does is left to Service.  A      *)
(* member of Requests is one request; its pc names what its handler awaits.  *)
(***************************************************************************)
EXTENDS Roles

CONSTANTS Requests,
          Ids,         \* session ids, in the order they are given out
          Setups,      \* [transport, backend, menu, open, moves]: how a behaviour starts, and
                       \* what moves around it: "time", "sources", "edits", "tokens",
                       \* "end" (the process is told to stop), "crash"
          Minimal,     \* the scopes of the `_default` caller of stdio
          Triggers,    \* what ends a stdio server: stdin end, a signal, ...
          Cleanups,    \* how its cleanup may go: "ends", "throws", "hangs", "blocks"
          MaxCrashes,
          NoId, NoRequest

(* A session that is open when a behaviour starts is of a caller whose scopes *)
(* the configuration lists.                                                 *)
ASSUME SetupsAssumption ==
    \A u \in Setups, s \in Ids :
        LET o == u.open[s] IN
        o # NoId => /\ o = [id |-> o.id, scopes |-> o.scopes, due |-> o.due]
                    /\ o.due = Range(o.scopes)

VARIABLES setup,    \* constant: the setup of this behaviour
          life,     \* the process: "up", "stopping", "closed" (HTTP), "exited"
          table,    \* the map `sessions`: id |-> callerId
          conn,     \* transport of an id: "free", "opening", "open", "closed"
          server,   \* the McpServer behind it: [id, scopes, due] of its caller
          req,      \* the requests
          expired,  \* tokens that are no longer valid
          fired,    \* stdio: the triggers that fired
          shutdown, \* stdio: [runs, how, code] of the shutdown function
          crashes

sessVars == <<setup, life, table, conn, server, req, expired, fired, shutdown, crashes>>

Unseen   == [pc |-> "idle", is |-> NoRequest, sid |-> NoId, try |-> 1, who |-> Denied(0)]
NoServer == [id |-> NoName, scopes |-> <<>>, due |-> {}]
Running  == [runs |-> 0, how |-> "none", code |-> "none"]

Http  == setup.transport = "streamable-http"

SessInit ==
    /\ setup \in Setups
    /\ life = "up"
    /\ server = [s \in Ids |-> IF setup.open[s] = NoId THEN NoServer ELSE setup.open[s]]
    /\ conn = [s \in Ids |-> IF setup.open[s] = NoId THEN "free" ELSE "open"]
    /\ table = [s \in Ids |-> IF setup.open[s] = NoId \/ ~Http THEN NoId ELSE server[s].id]
    /\ req = [r \in Requests |-> Unseen]
    /\ expired = {} /\ fired = {} /\ shutdown = Running /\ crashes = 0

-----------------------------------------------------------------------------
(* A request comes in.                                                      *)

Pass(r, pc) == req' = [req EXCEPT ![r].pc = pc]

(* createHttpServer's handler, up to the await of authenticate.  (Too large  *)
(* bodies, /health, discovery and other paths are answered without state.)  *)
Arrive(r) ==
    /\ Http /\ life \in {"up", "stopping"} /\ req[r] = Unseen
    /\ \E q \in setup.menu[r], s \in Ids \union {NoId} :
         /\ q.kind = "open" <=> s = NoId
         /\ req' = [req EXCEPT ![r] = [Unseen EXCEPT !.pc = "auth", !.is = q, !.sid = s]]
    /\ UNCHANGED <<setup, life, table, conn, server, expired, fired, shutdown, crashes>>

(* On stdio a request goes to the server at once.                           *)
ArriveOnStdio(r) ==
    /\ ~Http /\ life = "up" /\ req[r] = Unseen
    /\ \E q \in setup.menu[r], s \in Ids :
         /\ conn[s] = "open" /\ q.kind = "call"
         /\ req' = [req EXCEPT ![r] = [Unseen EXCEPT !.pc = "handling", !.is = q, !.sid = s,
                                          !.who = Known(server[s].id, server[s].scopes)]]
    /\ UNCHANGED <<setup, life, table, conn, server, expired, fired, shutdown, crashes>>

-----------------------------------------------------------------------------
(* The rest of the handler, up to its next await, once the caller is known.  *)

(* Fault to detect: any id that was given out is good enough.               *)
Owns_AnyIssued(s, who) == s # NoId /\ server[s].id = who.id

(* sessions.has(id), and the session is this caller's.                      *)
Owns(s, who) == s # NoId /\ table[s] # NoId /\ table[s] = who.id

Unlisted(s) == [table EXCEPT ![s] = NoId]

(* DELETE: transport.close() closes and calls onclose before it is awaited.  *)
Delete(r, who) ==
    LET s == req[r].sid IN
    /\ req[r].is.kind = "delete" /\ Owns(s, who)
    /\ conn' = [conn EXCEPT ![s] = "closed"]
    /\ table' = Unlisted(s)
    /\ req' = [req EXCEPT ![r].pc = "closing", ![r].who = who]
    /\ UNCHANGED server

Call(r, who) ==
    /\ req[r].is.kind = "call" /\ Owns(req[r].sid, who)
    /\ req' = [req EXCEPT ![r].pc = "handling", ![r].who = who]
    /\ UNCHANGED <<table, conn, server>>

(* 404 for an unknown session, 401 for another caller's.                    *)
Reject(r, who) ==
    /\ req[r].is.kind # "open" /\ ~Owns(req[r].sid, who)
    /\ req' = [req EXCEPT ![r].pc = "answered", ![r].who = who]
    /\ UNCHANGED <<table, conn, server>>

(* No session id: a transport and a server for this caller; connect.        *)
Open(r, who, due) ==
    /\ req[r].is.kind = "open"
    /\ \E s \in Ids :
         /\ conn[s] = "free" /\ \A t \in Ids : conn[t] = "free" => s <= t
         /\ conn' = [conn EXCEPT ![s] = "opening"]
         /\ server' = [server EXCEPT ![s] = [id |-> who.id, scopes |-> who.scopes,
                                            due |-> due]]
         /\ req' = [req EXCEPT ![r].pc = "connecting", ![r].who = who, ![r].sid = s]
    /\ UNCHANGED table

(* The outcome of authentication; `due` is what the policy means by it.      *)
Admit(r, outcome, due) ==
    \/ /\ outcome.ok
       /\ \/ Delete(r, outcome) \/ Call(r, outcome) \/ Reject(r, outcome)
          \/ Open(r, outcome, due)
    \/ /\ ~outcome.ok
       /\ req' = [req EXCEPT ![r].pc = "answered", ![r].who = outcome]
       /\ UNCHANGED <<table, conn, server>>

(* BearerAuthBackend.                                                       *)
Authenticate(r) ==
    /\ req[r].pc = "auth" /\ setup.backend = "bearer"
    /\ LET outcome == AuthenticateBearer(req[r].is.token)
       IN  Admit(r, outcome, Range(outcome.scopes))
    /\ UNCHANGED <<setup, life, expired, fired, shutdown, crashes>>

(* Fault to detect: the last provider's failure is not the end of the search. *)
Exhausted_Never(i) == i > Len(Providers) + 1

Exhausted(i) == i > Len(Providers)

(* OAuthExternalBackend: one provider after another until one has verified   *)
(* the token, which then settles it.                                        *)
AuthenticateExternally(r) ==
    LET i == req[r].try
        t == req[r].is.token
    IN  /\ req[r].pc = "auth" /\ setup.backend = "oauth-external"
        /\ \/ /\ Exhausted(i) /\ Admit(r, Denied(401), {})
           \/ /\ i <= Len(Providers) /\ Verifies(t, Providers[i]) /\ t \notin expired
              /\ Admit(r, Verdict[<<t, Providers[i]>>], Due[<<t, Providers[i]>>])
           \/ /\ i <= Len(Providers) /\ (~Verifies(t, Providers[i]) \/ t \in expired)
              /\ req' = [req EXCEPT ![r].try = i + 1]
              /\ UNCHANGED <<table, conn, server>>
        /\ UNCHANGED <<setup, life, expired, fired, shutdown, crashes>>

(* connect is done: onclose is set and the transport handles the request; it *)
(* takes an id for itself if this is an initialize request.                 *)
Connected(r) ==
    LET s == req[r].sid IN
    /\ req[r].pc = "connecting"
    /\ \/ conn' = [conn EXCEPT ![s] = "open"] /\ Pass(r, "initializing")
       \/ conn' = [conn EXCEPT ![s] = "closed"] /\ Pass(r, "answered")
    /\ UNCHANGED <<setup, life, table, server, expired, fired, shutdown, crashes>>

(* handleRequest is done: the session is entered in the map.                *)
Register(r) ==
    /\ req[r].pc = "initializing"
    /\ table' = [table EXCEPT ![req[r].sid] = req[r].who.id]
    /\ Pass(r, "answered")
    /\ UNCHANGED <<setup, life, conn, server, expired, fired, shutdown, crashes>>

(* The close of a DELETE is done; the entry is deleted once more.           *)
Closed(r) ==
    /\ req[r].pc = "closing"
    /\ table' = Unlisted(req[r].sid)
    /\ Pass(r, "answered")
    /\ UNCHANGED <<setup, life, conn, server, expired, fired, shutdown, crashes>>

RequestStep(r) ==
    Authenticate(r) \/ AuthenticateExternally(r) \/ Connected(r) \/ Register(r) \/ Closed(r)

(* A token runs out.                                                        *)
Expire(t) ==
    /\ "tokens" \in setup.moves
    /\ t \notin expired /\ expired' = expired \union {t}
    /\ setup.backend = "oauth-external"
    /\ UNCHANGED <<setup, life, table, conn, server, req, fired, shutdown, crashes>>

-----------------------------------------------------------------------------
(* The end of an HTTP server.                                               *)

HttpSignal ==
    /\ Http /\ "end" \in setup.moves
    /\ life = "up" /\ life' = "stopping"
    /\ UNCHANGED <<setup, table, conn, server, req, expired, fired, shutdown, crashes>>

(* One session of the loop: close, whose onclose takes it from the map.      *)
HttpCloseNext ==
    /\ Http /\ life = "stopping"
    /\ \E s \in Ids : /\ table[s] # NoId
                      /\ conn' = [conn EXCEPT ![s] = "closed"]
                      /\ table' = Unlisted(s)
    /\ UNCHANGED <<setup, life, server, req, expired, fired, shutdown, crashes>>

(* sessions.clear() and httpServer.close(): nothing new comes in.           *)
HttpClose ==
    /\ Http /\ life = "stopping" /\ \A s \in Ids : table[s] = NoId
    /\ life' = "closed"
    /\ UNCHANGED <<setup, table, conn, server, req, expired, fired, shutdown, crashes>>

(* Nothing holds the event loop any more.  (The event stream of a session   *)
(* that is still open may hold it longer.)                                  *)
HttpExit ==
    /\ life = "closed"
    /\ \A r \in Requests : req[r].pc \in {"idle", "answered"}
    /\ life' = "exited"
    /\ UNCHANGED <<setup, table, conn, server, req, expired, fired, shutdown, crashes>>

-----------------------------------------------------------------------------
(* The end of a stdio server: installStdioLifecycle.                        *)

(* Fault to detect: shuttingDown is not set.                                *)
FirstTrigger_Always == TRUE

FirstTrigger == shutdown.runs = 0

(* A trigger fires; the first one starts the timer and the cleanup.         *)
Trigger(t) ==
    /\ ~Http /\ "end" \in setup.moves
    /\ life \in {"up", "stopping"} /\ t \notin fired
    /\ shutdown.how # "blocks"
    /\ fired' = fired \union {t}
    /\ IF FirstTrigger
       THEN /\ life' = "stopping"
            /\ \E how \in Cleanups :
                 shutdown' = [shutdown EXCEPT !.runs = @ + 1, !.how = how]
       ELSE UNCHANGED <<life, shutdown>>
    /\ UNCHANGED <<setup, table, conn, server, req, expired, crashes>>

Exits(code) ==
    /\ life' = "exited"
    /\ shutdown' = [shutdown EXCEPT !.code = code]
    /\ UNCHANGED <<setup, table, conn, server, req, expired, fired, crashes>>

CleanupEnds ==
    /\ ~Http /\ life = "stopping"
    /\ \/ shutdown.how = "ends" /\ Exits("0")
       \/ shutdown.how = "throws" /\ Exits("1")

(* Fault to detect: there is no timer.                                      *)
GraceOver_Never == FALSE

(* The timer, unless the cleanup never gives the event loop back.           *)
GraceOver ==
    /\ ~Http /\ life = "stopping" /\ shutdown.how # "blocks"
    /\ Exits("1")

(* The timer does not hold the loop: with nothing else to wait for, node     *)
(* ends the process first.                                                  *)
LoopEmpties ==
    /\ ~Http /\ life = "stopping" /\ shutdown.how = "hangs"
    /\ \A r \in Requests : req[r].pc # "handling"
    /\ Exits("unset")

(* The process dies and is started again: no HTTP session survives.         *)
Crash ==
    /\ "crash" \in setup.moves
    /\ life # "exited" /\ crashes < MaxCrashes /\ crashes' = crashes + 1
    /\ life' = "up"
    /\ table' = [s \in Ids |-> NoId]
    /\ conn' = [s \in Ids |-> IF Http /\ conn[s] # "free" THEN "closed" ELSE conn[s]]
    /\ req' = [r \in Requests |-> IF req[r].pc = "idle" THEN req[r]
                                  ELSE [req[r] EXCEPT !.pc = "answered"]]
    /\ fired' = {} /\ shutdown' = Running
    /\ UNCHANGED <<setup, server, expired>>

Ending == HttpSignal \/ HttpCloseNext \/ HttpClose \/ HttpExit
          \/ (\E t \in Triggers : Trigger(t)) \/ CleanupEnds \/ GraceOver \/ LoopEmpties

-----------------------------------------------------------------------------
(* Properties.                                                              *)

(* A tool call is only ever handed to the live server of a session that the  *)
(* same caller opened: not after the session was deleted, nor by somebody    *)
(* else, whatever happened while the caller was being authenticated.         *)
(* (http-server.ts createMcpHttpServer.)                                    *)
CallsRunAsTheirCaller ==
    [][\A r \in Requests : req[r].pc # "handling" /\ req'[r].pc = "handling"
         => LET s == req'[r].sid IN
            conn[s] = "open" /\ server[s].id = req'[r].who.id]_sessVars

(* Whatever fires how often, the cleanup runs once, and the code tells how   *)
(* it went.  (stdio-lifecycle.ts installStdioLifecycle.)                    *)
StopsOnce ==
    /\ shutdown.runs <= 1
    /\ shutdown.code = "0" => shutdown.how = "ends"
    /\ life = "exited" /\ ~Http => shutdown.runs = 1

(* stdio-lifecycle.ts:43 says the exit code is 1 when the cleanup overran the *)
(* grace timer.  The timer is unref'd: with nothing left to wait for, the     *)
(* loop ends before it fires, and the code is the default, 0.               *)
OverrunIsReported == shutdown.code = "unset" => shutdown.how = "ends"
=============================================================================
