--------------------------- MODULE SessionsProofs ---------------------------
(* Sessions over HTTP and the end of a stdio server, for any number of       *)
(* requests, session ids, callers and tokens.                                *)
EXTENDS Service, TLAPS

-----------------------------------------------------------------------------
(* The end of a stdio server.                                               *)

(* On stdio the server is up until the shutdown function has run, and an     *)
(* exit code is only there once it has; HTTP never runs it.                  *)
EndInv ==
    /\ shutdown \in [runs : {0, 1}, how : Cleanups \union {"none"},
                     code : {"none", "0", "1", "unset"}]
    /\ shutdown.runs = 0 => shutdown.code = "none" /\ (~Http => life = "up")
    /\ shutdown.code = "0" => shutdown.how = "ends"

LEMMA EndInit == ServiceInit => EndInv
BY DEF ServiceInit, SessInit, EndInv, Running, Http

(* What leaves the shutdown and the life of the process alone.               *)
LEMMA EndSame ==
    ASSUME EndInv, UNCHANGED <<setup, life, shutdown>>
    PROVE  EndInv'
BY DEF EndInv, Http

LEMMA TransportEnd ==
    ASSUME NEW r \in Requests, Transport(r)
    PROVE  UNCHANGED <<setup, life, shutdown>>
BY DEF Transport, Arrive, ArriveOnStdio, RequestStep, Authenticate, AuthenticateExternally,
       Connected, Register, Closed

LEMMA EndingEnd ==
    ASSUME EndInv, Ending
    PROVE  EndInv'
<1>1. CASE HttpSignal \/ HttpClose \/ HttpExit
  BY <1>1 DEF HttpSignal, HttpClose, HttpExit, EndInv, Http
<1>2. CASE HttpCloseNext
  BY <1>2, EndSame DEF HttpCloseNext
<1>3. ASSUME NEW t \in Triggers, Trigger(t)
      PROVE  EndInv'
  <2>1. setup' = setup /\ (Http' <=> Http) /\ ~Http
    BY <1>3 DEF Trigger, Http
  <2>2. CASE shutdown.runs = 0
    <3>1. PICK how \in Cleanups :
             shutdown' = [shutdown EXCEPT !.runs = @ + 1, !.how = how]
      BY <1>3, <2>2 DEF Trigger, FirstTrigger
    <3>2. shutdown' = [shutdown EXCEPT !.runs = 1, !.how = how]
      BY <2>2, <3>1
    <3>3. shutdown'.runs = 1 /\ shutdown'.code = "none"
      BY <2>2, <3>2 DEF EndInv
    <3>4. shutdown' \in [runs : {0, 1}, how : Cleanups \union {"none"},
                         code : {"none", "0", "1", "unset"}]
      BY <3>2 DEF EndInv
    <3> QED
      BY <3>3, <3>4 DEF EndInv
  <2>3. CASE shutdown.runs # 0
    BY <1>3, <2>1, <2>3, EndSame DEF Trigger, FirstTrigger
  <2> QED
    BY <2>2, <2>3
<1>4. CASE CleanupEnds \/ GraceOver \/ LoopEmpties
  BY <1>4 DEF CleanupEnds, GraceOver, LoopEmpties, Exits, EndInv, Http
<1> QED
  BY <1>1, <1>2, <1>3, <1>4 DEF Ending

LEMMA EndKept ==
    ASSUME EndInv, [ServiceNext]_serviceVars
    PROVE  EndInv'
<1>1. ASSUME NEW r \in Requests, Handler(r)
      PROVE  EndInv'
  <2>1. CASE Transport(r)
    BY <2>1, TransportEnd, EndSame
  <2>2. CASE BeginTool(r) \/ ToolStep(r) \/ Respond(r)
    BY <2>2, EndSame DEF BeginTool, ToolStep, Respond, sessVars
  <2> QED
    BY <1>1, <2>1, <2>2 DEF Handler
<1>2. CASE End
  BY <1>2, EndingEnd DEF End
<1>3. CASE Restart
  BY <1>3 DEF Restart, Crash, EndInv, Running
<1>4. CASE World
  BY <1>4, EndSame DEF World, Expire, sessVars
<1>5. CASE UNCHANGED serviceVars
  BY <1>5, EndSame DEF serviceVars, sessVars
<1> QED
  BY <1>1, <1>2, <1>3, <1>4, <1>5 DEF ServiceNext

(* Whatever fires how often, in whatever order with requests and crashes, the *)
(* cleanup of a stdio server runs once before the process exits, and exit     *)
(* code 0 means that it went well.  (stdio-lifecycle.ts.)                     *)
THEOREM CleanupOnce == ServiceSpec => []StopsOnce
<1>1. EndInv => StopsOnce
  BY DEF EndInv, StopsOnce, Http
<1> QED
  BY EndInit, EndKept, <1>1, PTL DEF ServiceSpec

-----------------------------------------------------------------------------
(* Sessions and their callers.                                              *)

(* The requests that are opening a session.                                 *)
Creates(r) == req[r].pc \in {"connecting", "initializing"}

IsRequest(q) ==
    q \in [pc : {q.pc}, is : {q.is}, sid : {q.sid}, try : {q.try}, who : {q.who}]
IsServer(v)  == v = [id |-> v.id, scopes |-> v.scopes, due |-> v.due]

SessionShape ==
    /\ table = [s \in Ids |-> table[s]] /\ conn = [s \in Ids |-> conn[s]]
    /\ server = [s \in Ids |-> server[s]] /\ req = [r \in Requests |-> req[r]]
    /\ \A r \in Requests : IsRequest(req[r]) /\ req[r].sid \in Ids \union {NoId}
    /\ \A s \in Ids : IsServer(server[s])

(* A registered session has a live transport and the server of the caller it *)
(* is registered for.                                                       *)
TableInv ==
    \A s \in Ids : table[s] # NoId => conn[s] = "open" /\ server[s].id = table[s]

(* While a request opens a session no other request has its id, it is not    *)
(* registered, and the server is the requester's.                           *)
CreationInv ==
    /\ \A r \in Requests : Creates(r) =>
         LET s == req[r].sid IN
         /\ s \in Ids /\ table[s] = NoId /\ server[s].id = req[r].who.id
         /\ conn[s] = IF req[r].pc = "connecting" THEN "opening" ELSE "open"
    /\ \A r, q \in Requests : Creates(r) /\ Creates(q) /\ req[r].sid = req[q].sid => r = q

SessionInv == SessionShape /\ TableInv /\ CreationInv

LEMMA SessionStarts == ServiceInit => SessionInv
<1> SUFFICES ASSUME ServiceInit PROVE SessionInv
  OBVIOUS
<1>0. \A s \in Ids : setup.open[s] # NoId => IsServer(setup.open[s])
  BY SetupsAssumption DEF ServiceInit, SessInit, IsServer
<1>1. \A r \in Requests : req[r] = Unseen
  BY DEF ServiceInit, SessInit
<1>2. \A s \in Ids : server[s] = IF setup.open[s] = NoId THEN NoServer ELSE setup.open[s]
  BY DEF ServiceInit, SessInit
<1>3. IsServer(NoServer) /\ IsRequest(Unseen) /\ Unseen.pc = "idle"
  BY DEF NoServer, Unseen, IsServer, IsRequest
<1>4. SessionShape
  <2>1. \A s \in Ids : IsServer(server[s])
    BY <1>0, <1>2, <1>3
  <2>2. \A r \in Requests : IsRequest(req[r]) /\ req[r].sid \in Ids \union {NoId}
    BY <1>1, <1>3 DEF Unseen
  <2>3. /\ table = [s \in Ids |-> table[s]] /\ conn = [s \in Ids |-> conn[s]]
        /\ server = [s \in Ids |-> server[s]] /\ req = [r \in Requests |-> req[r]]
    BY DEF ServiceInit, SessInit
  <2> QED
    BY <2>1, <2>2, <2>3 DEF SessionShape
<1>5. TableInv
  BY DEF ServiceInit, SessInit, TableInv
<1>6. CreationInv
  BY <1>1, <1>3 DEF CreationInv, Creates
<1> QED
  BY <1>4, <1>5, <1>6 DEF SessionInv

LEMMA SessionSame ==
    ASSUME SessionInv, UNCHANGED <<table, conn, server, req>>
    PROVE  SessionInv'
BY DEF SessionInv, SessionShape, TableInv, CreationInv, IsRequest, IsServer, Creates

(* A request that goes on to a pc where it opens nothing.                    *)
LEMMA RequestGoesOn ==
    ASSUME SessionInv, NEW r \in Requests, NEW q, IsRequest(q),
           q.sid \in Ids \union {NoId}, q.pc \notin {"connecting", "initializing"},
           req' = [req EXCEPT ![r] = q], UNCHANGED <<table, conn, server>>
    PROVE  SessionInv'
BY DEF SessionInv, SessionShape, TableInv, CreationInv, IsRequest, IsServer, Creates

LEMMA DeleteKeeps ==
    ASSUME SessionInv, NEW r \in Requests, NEW who, req[r].pc = "auth", Delete(r, who)
    PROVE  SessionInv'
<1> DEFINE s == req[r].sid
<1>1. /\ s \in Ids /\ table[s] # NoId
      /\ conn' = [conn EXCEPT ![s] = "closed"] /\ table' = [table EXCEPT ![s] = NoId]
      /\ req' = [req EXCEPT ![r] = [@ EXCEPT !.pc = "closing", !.who = who]]
      /\ UNCHANGED server
  BY DEF Delete, Owns, Unlisted, SessionInv, SessionShape
<1>2. req'[r].pc = "closing" /\ IsRequest(req'[r]) /\ req'[r].sid = s
  BY <1>1 DEF SessionInv, SessionShape, IsRequest
<1>3. \A q \in Requests \ {r} : req'[q] = req[q]
  BY <1>1 DEF SessionInv, SessionShape
<1>4. SessionShape'
  BY <1>1, <1>2, <1>3 DEF SessionInv, SessionShape
<1>5. TableInv'
  BY <1>1 DEF SessionInv, SessionShape, TableInv
<1>6. \A q \in Requests : Creates(q)' => q # r /\ Creates(q) /\ req[q].sid # s
  BY <1>1, <1>2, <1>3 DEF SessionInv, CreationInv, Creates
<1>7. CreationInv'
  BY <1>1, <1>3, <1>6 DEF SessionInv, SessionShape, CreationInv, Creates
<1> QED
  BY <1>4, <1>5, <1>7 DEF SessionInv

LEMMA OpenKeeps ==
    ASSUME SessionInv, NEW r \in Requests, NEW who, NEW due, req[r].pc = "auth",
           Open(r, who, due)
    PROVE  SessionInv'
<1>1. PICK s \in Ids :
        /\ conn[s] = "free" /\ conn' = [conn EXCEPT ![s] = "opening"]
        /\ server' = [server EXCEPT ![s] = [id |-> who.id, scopes |-> who.scopes, due |-> due]]
        /\ req' = [req EXCEPT ![r] = [@ EXCEPT !.pc = "connecting", !.who = who, !.sid = s]]
        /\ UNCHANGED table
  BY DEF Open, SessionInv, SessionShape
<1>2. /\ req'[r].pc = "connecting" /\ IsRequest(req'[r])
      /\ req'[r].sid = s /\ req'[r].who = who
  BY <1>1 DEF SessionInv, SessionShape, IsRequest
<1>3. \A q \in Requests \ {r} : req'[q] = req[q]
  BY <1>1 DEF SessionInv, SessionShape
<1>4. /\ server'[s].id = who.id /\ IsServer(server'[s]) /\ conn'[s] = "opening"
      /\ table[s] = NoId
      /\ \A t \in Ids \ {s} : server'[t] = server[t] /\ conn'[t] = conn[t]
  BY <1>1 DEF SessionInv, SessionShape, IsServer, TableInv
<1>5. SessionShape'
  BY <1>1, <1>2, <1>3, <1>4 DEF SessionInv, SessionShape
<1>6. TableInv'
  BY <1>1, <1>4 DEF SessionInv, SessionShape, TableInv
<1>7. \A q \in Requests \ {r} : Creates(q) => req[q].sid # s
  BY <1>1 DEF SessionInv, CreationInv, Creates
<1>8. CreationInv'
  BY <1>1, <1>2, <1>3, <1>4, <1>7 DEF SessionInv, CreationInv, Creates
<1> QED
  BY <1>5, <1>6, <1>8 DEF SessionInv

LEMMA AdmitKeeps ==
    ASSUME SessionInv, NEW r \in Requests, NEW outcome, NEW due, req[r].pc = "auth",
           Admit(r, outcome, due)
    PROVE  SessionInv'
<1>0. \A pc, who : LET q == [req[r] EXCEPT !.pc = pc, !.who = who]
                   IN  IsRequest(q) /\ q.pc = pc /\ q.sid \in Ids \union {NoId}
  BY DEF SessionInv, SessionShape, IsRequest
<1>1. CASE Delete(r, outcome)
  BY <1>1, DeleteKeeps
<1>2. CASE Open(r, outcome, due)
  BY <1>2, OpenKeeps
<1>3. CASE \/ Call(r, outcome) \/ Reject(r, outcome)
           \/ /\ req' = [req EXCEPT ![r].pc = "answered", ![r].who = outcome]
              /\ UNCHANGED <<table, conn, server>>
  <2>1. PICK pc \in {"handling", "answered"} :
          /\ req' = [req EXCEPT ![r] = [@ EXCEPT !.pc = pc, !.who = outcome]]
          /\ UNCHANGED <<table, conn, server>>
    BY <1>3 DEF Call, Reject, SessionInv, SessionShape
  <2> QED
    BY <1>0, <2>1, RequestGoesOn
<1> QED
  BY <1>1, <1>2, <1>3 DEF Admit

LEMMA PassKeeps ==
    ASSUME SessionInv, NEW r \in Requests, NEW pc,
           pc \notin {"connecting", "initializing"}, Pass(r, pc),
           UNCHANGED <<table, conn, server>>
    PROVE  SessionInv'
<1> DEFINE q == [req[r] EXCEPT !.pc = pc]
<1>1. IsRequest(q) /\ q.pc = pc /\ q.sid \in Ids \union {NoId}
  BY DEF SessionInv, SessionShape, IsRequest
<1>2. req' = [req EXCEPT ![r] = q]
  BY DEF Pass, SessionInv, SessionShape
<1> HIDE DEF q
<1> QED
  BY <1>1, <1>2, RequestGoesOn

LEMMA ArriveKeeps ==
    ASSUME SessionInv, NEW r \in Requests, Arrive(r) \/ ArriveOnStdio(r)
    PROVE  SessionInv'
<1>1. PICK q : /\ IsRequest(q) /\ q.sid \in Ids \union {NoId}
               /\ q.pc \notin {"connecting", "initializing"}
               /\ req' = [req EXCEPT ![r] = q] /\ UNCHANGED <<table, conn, server>>
  <2>1. CASE Arrive(r)
    <3>1. PICK is \in setup.menu[r], s \in Ids \union {NoId} :
            req' = [req EXCEPT ![r] = [Unseen EXCEPT !.pc = "auth", !.is = is, !.sid = s]]
      BY <2>1 DEF Arrive
    <3> DEFINE q == [Unseen EXCEPT !.pc = "auth", !.is = is, !.sid = s]
    <3>2. IsRequest(q) /\ q.pc = "auth" /\ q.sid = s
      BY DEF Unseen, IsRequest
    <3> QED
      BY <2>1, <3>1, <3>2 DEF Arrive
  <2>2. CASE ArriveOnStdio(r)
    <3>1. PICK is \in setup.menu[r], s \in Ids :
            req' = [req EXCEPT ![r] = [Unseen EXCEPT !.pc = "handling", !.is = is, !.sid = s,
                                          !.who = Known(server[s].id, server[s].scopes)]]
      BY <2>2 DEF ArriveOnStdio
    <3> DEFINE q == [Unseen EXCEPT !.pc = "handling", !.is = is, !.sid = s,
                                          !.who = Known(server[s].id, server[s].scopes)]
    <3>2. IsRequest(q) /\ q.pc = "handling" /\ q.sid = s
      BY DEF Unseen, IsRequest
    <3> QED
      BY <2>2, <3>1, <3>2 DEF ArriveOnStdio
  <2> QED
    BY <2>1, <2>2
<1> QED
  BY <1>1, RequestGoesOn

LEMMA ConnectedKeeps ==
    ASSUME SessionInv, NEW r \in Requests, Connected(r)
    PROVE  SessionInv'
<1> DEFINE s == req[r].sid
<1>1. /\ s \in Ids /\ conn[s] = "opening" /\ table[s] = NoId /\ UNCHANGED <<table, server>>
      /\ \A q \in Requests \ {r} : Creates(q) => req[q].sid # s
  BY DEF Connected, SessionInv, CreationInv, Creates
<1>2. PICK to \in {"open", "closed"} :
        /\ conn' = [conn EXCEPT ![s] = to]
        /\ Pass(r, IF to = "open" THEN "initializing" ELSE "answered")
  BY DEF Connected
<1>3. /\ IsRequest(req'[r]) /\ req'[r].sid = s /\ req'[r].who = req[r].who
      /\ req'[r].pc = IF to = "open" THEN "initializing" ELSE "answered"
      /\ \A q \in Requests \ {r} : req'[q] = req[q]
      /\ req' = [q \in Requests |-> req'[q]]
  BY <1>2 DEF Pass, SessionInv, SessionShape, IsRequest
<1>4. SessionShape'
  BY <1>1, <1>2, <1>3 DEF SessionInv, SessionShape
<1>5. TableInv'
  BY <1>1, <1>2 DEF SessionInv, SessionShape, TableInv
<1>6. CreationInv'
  <2>1. \A q \in Requests : Creates(q)' =>
          /\ Creates(q) /\ req'[q].sid = req[q].sid /\ req'[q].who = req[q].who
          /\ q # r => req'[q] = req[q] /\ req[q].sid # s
    BY <1>1, <1>3 DEF Creates, Connected
  <2>2. Creates(r)' => req'[r].pc = "initializing" /\ conn'[s] = "open"
    BY <1>1, <1>2, <1>3 DEF Creates, SessionInv, SessionShape
  <2>3. \A t \in Ids \ {s} : conn'[t] = conn[t]
    BY <1>2 DEF SessionInv, SessionShape
  <2> QED
    BY <1>1, <2>1, <2>2, <2>3 DEF SessionInv, CreationInv
<1> QED
  BY <1>4, <1>5, <1>6 DEF SessionInv

LEMMA RegisterKeeps ==
    ASSUME SessionInv, NEW r \in Requests, Register(r)
    PROVE  SessionInv'
<1> DEFINE s == req[r].sid
<1>1. /\ s \in Ids /\ conn[s] = "open" /\ server[s].id = req[r].who.id
      /\ table' = [table EXCEPT ![s] = req[r].who.id] /\ UNCHANGED <<conn, server>>
      /\ \A q \in Requests \ {r} : Creates(q) => req[q].sid # s
  BY DEF Register, SessionInv, CreationInv, Creates
<1>2. /\ IsRequest(req'[r]) /\ req'[r].sid = s /\ req'[r].pc = "answered"
      /\ \A q \in Requests \ {r} : req'[q] = req[q]
      /\ req' = [q \in Requests |-> req'[q]]
  BY DEF Register, Pass, SessionInv, SessionShape, IsRequest
<1>3. SessionShape'
  BY <1>1, <1>2 DEF SessionInv, SessionShape
<1>4. TableInv'
  BY <1>1 DEF SessionInv, SessionShape, TableInv
<1>5. CreationInv'
  <2>1. \A q \in Requests : Creates(q)' =>
          q # r /\ Creates(q) /\ req'[q] = req[q] /\ req[q].sid # s
    BY <1>1, <1>2 DEF Creates
  <2>2. \A t \in Ids \ {s} : table'[t] = table[t]
    BY <1>1 DEF SessionInv, SessionShape
  <2> QED
    BY <1>1, <2>1, <2>2 DEF SessionInv, CreationInv
<1> QED
  BY <1>3, <1>4, <1>5 DEF SessionInv

(* A session leaves the map, by the close of its transport or afterwards.    *)
LEMMA UnlistedKeeps ==
    ASSUME SessionInv, NEW s \in Ids \union {NoId}, table' = Unlisted(s),
           \/ UNCHANGED conn
           \/ s \in Ids /\ table[s] # NoId /\ conn' = [conn EXCEPT ![s] = "closed"],
           UNCHANGED server,
           UNCHANGED req \/ \E r \in Requests : req[r].pc = "closing" /\ Pass(r, "answered")
    PROVE  SessionInv'
<1>1. /\ req' = [q \in Requests |-> req'[q]]
      /\ \A q \in Requests : IsRequest(req'[q]) /\ req'[q].sid \in Ids \union {NoId}
      /\ \A q \in Requests : Creates(q)' => Creates(q) /\ req'[q] = req[q]
  <2>1. CASE UNCHANGED req
    BY <2>1 DEF SessionInv, SessionShape, Creates
  <2>2. ASSUME NEW r \in Requests, req[r].pc = "closing", Pass(r, "answered")
        PROVE  <1>1!:
    <3>1. IsRequest(req'[r]) /\ req'[r].sid = req[r].sid /\ req'[r].pc = "answered"
      BY <2>2 DEF Pass, SessionInv, SessionShape, IsRequest
    <3>2. \A q \in Requests \ {r} : req'[q] = req[q]
      BY <2>2 DEF Pass, SessionInv, SessionShape
    <3> QED
      BY <2>2, <3>1, <3>2 DEF Pass, SessionInv, SessionShape, Creates
  <2> QED
    BY <2>1, <2>2
<1>2. SessionShape'
  BY <1>1 DEF SessionInv, SessionShape, Unlisted
<1>3. TableInv'
  BY DEF SessionInv, SessionShape, TableInv, Unlisted
<1>4. CreationInv'
  BY <1>1 DEF SessionInv, SessionShape, CreationInv, Creates, Unlisted
<1> QED
  BY <1>2, <1>3, <1>4 DEF SessionInv

LEMMA CrashKeeps ==
    ASSUME SessionInv, Crash
    PROVE  SessionInv'
<1>1. \A r \in Requests : /\ IsRequest(req'[r]) /\ req'[r].sid = req[r].sid
                          /\ req'[r].pc \in {"idle", "answered"}
  BY DEF Crash, SessionInv, SessionShape, IsRequest
<1>2. SessionShape'
  BY <1>1 DEF Crash, SessionInv, SessionShape
<1>3. TableInv' /\ CreationInv'
  BY <1>1 DEF Crash, SessionInv, SessionShape, TableInv, CreationInv, Creates
<1> QED
  BY <1>2, <1>3 DEF SessionInv

LEMMA TransportKeeps ==
    ASSUME SessionInv, NEW r \in Requests, Transport(r)
    PROVE  SessionInv'
<1>1. CASE Arrive(r) \/ ArriveOnStdio(r)
  BY <1>1, ArriveKeeps
<1>2. CASE Authenticate(r)
  BY <1>2, AdmitKeeps DEF Authenticate
<1>3. CASE AuthenticateExternally(r)
  <2>1. CASE \E outcome, due : Admit(r, outcome, due)
    BY <1>3, <2>1, AdmitKeeps DEF AuthenticateExternally
  <2>2. CASE req' = [req EXCEPT ![r].try = req[r].try + 1] /\ UNCHANGED <<table, conn, server>>
    <3> DEFINE q == [req[r] EXCEPT !.try = req[r].try + 1]
    <3>1. IsRequest(q) /\ q.pc = "auth" /\ q.sid \in Ids \union {NoId}
      BY <1>3 DEF AuthenticateExternally, SessionInv, SessionShape, IsRequest
    <3>2. req' = [req EXCEPT ![r] = q]
      BY <2>2 DEF SessionInv, SessionShape
    <3> HIDE DEF q
    <3> QED
      BY <2>2, <3>1, <3>2, RequestGoesOn
  <2> QED
    BY <1>3, <2>1, <2>2 DEF AuthenticateExternally
<1>4. CASE Connected(r) \/ Register(r)
  BY <1>4, ConnectedKeeps, RegisterKeeps
<1>5. CASE Closed(r)
  BY <1>5, UnlistedKeeps DEF Closed, SessionInv, SessionShape
<1> QED
  BY <1>1, <1>2, <1>3, <1>4, <1>5 DEF Transport, RequestStep

LEMMA SessionKept ==
    ASSUME SessionInv, [ServiceNext]_serviceVars
    PROVE  SessionInv'
<1>1. ASSUME NEW r \in Requests, Handler(r)
      PROVE  SessionInv'
  <2>1. CASE Transport(r)
    BY <2>1, TransportKeeps
  <2>2. CASE BeginTool(r) \/ ToolStep(r)
    BY <2>2, SessionSame DEF BeginTool, ToolStep, sessVars
  <2>3. CASE Respond(r)
    BY <2>3, PassKeeps DEF Respond
  <2> QED
    BY <1>1, <2>1, <2>2, <2>3 DEF Handler
<1>2. CASE End
  <2>1. CASE HttpCloseNext
    BY <2>1, UnlistedKeeps DEF HttpCloseNext
  <2>2. CASE UNCHANGED <<table, conn, server, req>>
    BY <2>2, SessionSame
  <2> QED
    BY <1>2, <2>1, <2>2 DEF End, Ending, HttpSignal, HttpClose, HttpExit, Trigger,
       CleanupEnds, GraceOver, LoopEmpties, Exits
<1>3. CASE Restart
  BY <1>3, CrashKeeps DEF Restart
<1>4. CASE World \/ UNCHANGED serviceVars
  BY <1>4, SessionSame DEF World, Expire, sessVars, serviceVars
<1> QED
  BY <1>1, <1>2, <1>3, <1>4 DEF ServiceNext

(* Whether each call that a step hands over is of the caller of its session. *)
Owned == \A r \in Requests : req[r].pc # "handling" /\ req'[r].pc = "handling"
           => LET s == req'[r].sid IN conn[s] = "open" /\ server[s].id = req'[r].who.id

(* A request may only become "handling" by a step of its own.                *)
LEMMA OnlyOwn ==
    ASSUME SessionInv, NEW r \in Requests,
           \A q \in Requests \ {r} : req'[q] = req[q],
           req'[r].pc = "handling" =>
              LET s == req'[r].sid IN conn[s] = "open" /\ server[s].id = req'[r].who.id
    PROVE  Owned
BY DEF Owned

LEMMA AdmitOwned ==
    ASSUME SessionInv, NEW r \in Requests, NEW outcome, NEW due, req[r].pc = "auth",
           Admit(r, outcome, due)
    PROVE  Owned
<1>1. \A q \in Requests \ {r} : req'[q] = req[q]
  BY DEF Admit, Delete, Call, Reject, Open, SessionInv, SessionShape
<1>2. CASE Call(r, outcome)
  <2>1. /\ req[r].sid \in Ids /\ table[req[r].sid] # NoId
        /\ table[req[r].sid] = outcome.id
    BY <1>2 DEF Call, Owns, SessionInv, SessionShape
  <2>2. req'[r].sid = req[r].sid /\ req'[r].who = outcome
    BY <1>2 DEF Call, SessionInv, SessionShape, IsRequest
  <2> QED
    BY <1>1, <2>1, <2>2, OnlyOwn DEF SessionInv, TableInv
<1>3. CASE ~Call(r, outcome)
  <2>1. PICK pc \in {"closing", "answered", "connecting"}, s \in Ids \union {NoId} :
          req' = [req EXCEPT ![r] = [@ EXCEPT !.pc = pc, !.who = outcome, !.sid = s]]
    <3>1. CASE Open(r, outcome, due)
      BY <3>1, ZenonT(40) DEF Open, SessionInv, SessionShape
    <3>2. CASE ~Open(r, outcome, due)
      <4>1. PICK pc \in {"closing", "answered"} :
              req' = [req EXCEPT ![r] = [@ EXCEPT !.pc = pc, !.who = outcome]]
        BY <1>3, <3>2 DEF Admit, Delete, Reject, SessionInv, SessionShape
      <4>2. [req[r] EXCEPT !.pc = pc, !.who = outcome]
              = [req[r] EXCEPT !.pc = pc, !.who = outcome, !.sid = req[r].sid]
        BY DEF SessionInv, SessionShape, IsRequest
      <4> QED
        BY <4>1, <4>2 DEF SessionInv, SessionShape
    <3> QED
      BY <3>1, <3>2
  <2>2. req'[r].pc = pc
    BY <2>1 DEF SessionInv, SessionShape, IsRequest
  <2> QED
    BY <1>1, <2>2, OnlyOwn
<1> QED
  BY <1>2, <1>3

LEMMA TransportOwned ==
    ASSUME SessionInv, NEW r \in Requests, Transport(r)
    PROVE  Owned
<1>1. CASE ArriveOnStdio(r)
  <2>1. PICK is \in setup.menu[r], s \in Ids :
          /\ conn[s] = "open"
          /\ req' = [req EXCEPT ![r] = [Unseen EXCEPT !.pc = "handling", !.is = is, !.sid = s,
                                          !.who = Known(server[s].id, server[s].scopes)]]
    BY <1>1 DEF ArriveOnStdio
  <2>2. req'[r].sid = s /\ req'[r].who.id = server[s].id
    BY <2>1 DEF Unseen, Known, SessionInv, SessionShape
  <2>3. \A q \in Requests \ {r} : req'[q] = req[q]
    BY <2>1 DEF SessionInv, SessionShape
  <2> QED
    BY <2>1, <2>2, <2>3, OnlyOwn
<1>2. CASE \E outcome, due : Admit(r, outcome, due) /\ req[r].pc = "auth"
  BY <1>2, AdmitOwned
<1>3. CASE \/ Arrive(r) \/ Connected(r) \/ Register(r) \/ Closed(r)
           \/ req[r].pc = "auth" /\ req' = [req EXCEPT ![r].try = req[r].try + 1]
  <2>1. \A q \in Requests \ {r} : req'[q] = req[q]
    BY <1>3 DEF Arrive, Connected, Register, Closed, Pass, SessionInv, SessionShape
  <2>2. CASE Arrive(r)
    <3>1. PICK is \in setup.menu[r], s \in Ids \union {NoId} :
            req' = [req EXCEPT ![r] = [Unseen EXCEPT !.pc = "auth", !.is = is, !.sid = s]]
      BY <2>2 DEF Arrive
    <3>2. req'[r].pc = "auth"
      BY <3>1 DEF Unseen, SessionInv, SessionShape
    <3> QED
      BY <2>1, <3>2, OnlyOwn
  <2>3. CASE Connected(r) \/ Register(r) \/ Closed(r)
    <3>1. PICK pc \in {"initializing", "answered"} : Pass(r, pc)
      BY <2>3 DEF Connected, Register, Closed
    <3>2. req'[r].pc = pc
      BY <3>1 DEF Pass, SessionInv, SessionShape, IsRequest
    <3> QED
      BY <2>1, <3>2, OnlyOwn
  <2>4. CASE req[r].pc = "auth" /\ req' = [req EXCEPT ![r].try = req[r].try + 1]
    <3>1. req'[r].pc = "auth"
      BY <2>4 DEF SessionInv, SessionShape, IsRequest
    <3> QED
      BY <2>1, <3>1, OnlyOwn
  <2> QED
    BY <1>3, <2>2, <2>3, <2>4
<1> QED
  BY <1>1, <1>2, <1>3 DEF Transport, RequestStep, Authenticate, AuthenticateExternally

LEMMA NextOwned ==
    ASSUME SessionInv, [ServiceNext]_serviceVars
    PROVE  Owned
<1>1. ASSUME NEW r \in Requests, Handler(r)
      PROVE  Owned
  <2>1. CASE Respond(r)
    BY <2>1 DEF Respond, Pass, Owned, SessionInv, SessionShape
  <2> QED
    BY <1>1, <2>1, TransportOwned DEF Handler, BeginTool, ToolStep, sessVars, Owned
<1>2. CASE Restart
  BY <1>2 DEF Restart, Crash, Owned, SessionInv, SessionShape, IsRequest
<1>3. CASE UNCHANGED req
  BY <1>3 DEF Owned
<1> QED
  BY <1>1, <1>2, <1>3 DEF ServiceNext, End, Ending, HttpSignal, HttpCloseNext, HttpClose,
     HttpExit, Trigger, CleanupEnds, GraceOver, LoopEmpties, Exits, World, Expire,
     sessVars, serviceVars

(* A tool call is only ever handed to the live server of a session that the  *)
(* same caller opened, for any number of callers, requests and sessions,      *)
(* whatever happens while the caller is being authenticated.                 *)
(* (http-server.ts createMcpHttpServer.)                                    *)
THEOREM CallsOwned == ServiceSpec => CallsRunAsTheirCaller
<1>1. SessionInv /\ [ServiceNext]_serviceVars => [Owned]_sessVars
  BY NextOwned
<1>2. SessionInv /\ [ServiceNext]_serviceVars => SessionInv'
  BY SessionKept
<1> QED
  BY SessionStarts, <1>1, <1>2, PTL DEF ServiceSpec, CallsRunAsTheirCaller, Owned
=============================================================================
