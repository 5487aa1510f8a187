---------------------------- MODULE HttpSessions ----------------------------
(***************************************************************************)
(* The HTTP side of the compact MCP server (server/compact/http-*.mjs):    *)
(* requests that are admitted, read, raced against their abort and         *)
(* answered; sessions whose reservation outlives their last request until  *)
(* the engine's factory and every operation are over.                      *)
(*                                                                         *)
(* An action is the code between two awaits.  The SDK's transport answers  *)
(* a message, starts an operation for a tool call, names the session on    *)
(* initialize and closes it on DELETE.  Of an answer only its meaning is   *)
(* kept: done, refused (nothing was begun) or unknown (interrupted).       *)
(***************************************************************************)
EXTENDS Naturals, FiniteSets

CONSTANTS HttpRequests, HttpSessionSet, NoSession,
          MaxSessions,   \* 8
          MaxRequests,   \* 16
          MaxActive      \* 2 for each session

ASSUME HttpAssumption ==
  /\ NoSession \notin HttpSessionSet
  /\ MaxSessions \in 1..8 /\ MaxRequests \in Nat \ {0} /\ MaxActive \in Nat \ {0}

VARIABLES http,      \* the listener: "starting", "open" or "closed"
          request,   \* request[r]: an HTTP request, its handler and its operation
          session    \* session[s]: a CompactHttpSession
httpVars == <<http, request, session>>

HttpRequest == [pc : {"idle", "body", "waiting", "transport", "answered"},
                session : HttpSessionSet \cup {NoSession},
                kind : {"initialize", "call", "delete"},
                aborted : BOOLEAN,
                op : {"none", "running", "over"},   \* in session.operations while it runs
                answer : {"none", "done", "refused", "unknown"}]

HttpSession == [state : {"unborn", "open", "closed", "disposing", "disposed"},
                engine : {"pending", "ready", "failed"},
                active : Nat,        \* activeRequests
                named : BOOLEAN,     \* transport.sessionId is set
                mapped : BOOLEAN,    \* an entry of server.sessions
                aged : BOOLEAN]      \* lastUsed is past the idle timeout

HttpInit ==
  /\ http = "starting"
  /\ request = [r \in HttpRequests |->
       [pc |-> "idle", session |-> NoSession, kind |-> "initialize",
        aborted |-> FALSE, op |-> "none", answer |-> "none"]]
  /\ session = [s \in HttpSessionSet |->
       [state |-> "unborn", engine |-> "pending", active |-> 0, named |-> FALSE,
        mapped |-> FALSE, aged |-> FALSE]]
-----------------------------------------------------------------------------
InFlight   == {r \in HttpRequests : request[r].pc \in {"body", "waiting", "transport"}}
Handling   == {"waiting", "transport"}
Reserved   == {s \in HttpSessionSet : session[s].state \in {"open", "closed", "disposing"}}
Running(s) == {r \in HttpRequests : request[r].session = s /\ request[r].op = "running"}

\* session.acquire and session.release, on the table of sessions S.
Acquired(S, s) == [S EXCEPT ![s].active = @ + 1, ![s].aged = FALSE]
ReleasedBy(S, r) == LET s == request[r].session IN
  IF s = NoSession THEN S ELSE [S EXCEPT ![s].active = @ - 1, ![s].aged = FALSE]

\* session.close on the sessions D: no effect the second time.  It interrupts
\* what is being handled for them, except a DELETE.
Ended(S, D) == [s \in HttpSessionSet |-> IF s \in D /\ S[s].state = "open"
                                         THEN [S[s] EXCEPT !.state = "closed"] ELSE S[s]]
Interrupted(R, D) ==
  [r \in HttpRequests |->
     IF R[r].session \in D /\ R[r].pc \in Handling /\ R[r].kind # "delete"
     THEN [R[r] EXCEPT !.aborted = TRUE] ELSE R[r]]

\* Mutant of Respond: a request that failed keeps its place in the session.
RespondKeeps(r, answer, D) ==
  /\ request' = Interrupted([request EXCEPT ![r].pc = "answered", ![r].answer = answer,
                                           ![r].aborted = FALSE], D)
  /\ session' = Ended(IF answer = "unknown" THEN session ELSE ReleasedBy(session, r), D)
  /\ UNCHANGED http
\* The end of CompactMcpHttpServer.handle: the answer, the sessions it closes,
\* the release of the request's own place.
Respond(r, answer, D) ==
  /\ request' = Interrupted([request EXCEPT ![r].pc = "answered", ![r].answer = answer,
                                           ![r].aborted = FALSE], D)
  /\ session' = Ended(ReleasedBy(session, r), D)
  /\ UNCHANGED http
-----------------------------------------------------------------------------
Listen == http = "starting" /\ http' = "open" /\ UNCHANGED <<request, session>>

\* The request itself is not acceptable, or a limit is reached.
Repel(r) == request[r].pc = "idle" /\ http = "open" /\ Respond(r, "refused", {})

\* It is admitted, and takes a place in the session it names.
Admit(r, k, s) ==
  /\ request[r].pc = "idle" /\ http = "open" /\ Cardinality(InFlight) < MaxRequests
  /\ request' = [request EXCEPT ![r].pc = "body", ![r].kind = k, ![r].session = s]
  /\ IF k = "initialize" THEN s = NoSession /\ UNCHANGED session
     ELSE /\ s # NoSession /\ session[s].mapped
          /\ session[s].state = "open" /\ session[s].active < MaxActive
          /\ session' = Acquired(session, s)
  /\ UNCHANGED http

\* The body is too large, late, broken or not a message; or what it asks for
\* needs a session first, or one more session than there may be.
BodyFails(r) ==
  /\ request[r].pc = "body"
  /\ Respond(r, IF request[r].aborted THEN "unknown" ELSE "refused", {})

BodyRead(r) ==
  /\ request[r].pc = "body" /\ ~request[r].aborted /\ request[r].kind # "initialize"
  /\ request' = [request EXCEPT ![r].pc = "waiting"]
  /\ UNCHANGED <<http, session>>

\* create(): the reservation is made before the engine exists.
Create(r, s) ==
  /\ request[r].pc = "body" /\ ~request[r].aborted /\ request[r].kind = "initialize"
  /\ http = "open" /\ Cardinality(Reserved) < MaxSessions /\ session[s].state = "unborn"
  /\ request' = [request EXCEPT ![r].pc = "waiting", ![r].session = s]
  /\ session' = Acquired([session EXCEPT ![s].state = "open"], s)
  /\ UNCHANGED http

\* The engine's factory answers, maybe long after the session was closed.
Factory(s, outcome) ==
  /\ s \in Reserved /\ session[s].engine = "pending"
  /\ session' = [session EXCEPT ![s].engine = outcome]
  /\ UNCHANGED <<http, request>>

Home(r) == session[request[r].session]

\* handle() goes on when the engine is there ...
Handle(r) ==
  /\ request[r].pc = "waiting" /\ ~request[r].aborted
  /\ Home(r).engine = "ready" /\ Home(r).state = "open"
  /\ request' = [request EXCEPT ![r].pc = "transport"]
  /\ UNCHANGED <<http, session>>

\* ... or refuses: the number is in use, which leaves the session alone; the
\* session or its factory failed.
Duplicate(r) ==
  /\ request[r].pc = "waiting" /\ Home(r).engine = "ready" /\ Home(r).state = "open"
  /\ \E q \in HttpRequests \ {r} : request[q].pc = "transport" /\ request[q].session = request[r].session
  /\ Respond(r, "refused", {})
HandleFails(r) ==
  /\ request[r].pc = "waiting" /\ Home(r).engine # "pending"
  /\ Home(r).engine = "failed" \/ Home(r).state # "open"
  /\ Respond(r, IF Home(r).engine = "failed" THEN "unknown" ELSE "refused", {request[r].session})

\* Mutant of AbandonRequest: the session of an interrupted request stays open.
AbandonOpen(r) ==
  /\ request[r].pc \in Handling /\ request[r].aborted
  /\ Respond(r, "unknown", {})
\* Mutant of AbandonRequest: it is told that it was refused.
AbandonRefuses(r) ==
  /\ request[r].pc \in Handling /\ request[r].aborted
  /\ Respond(r, "refused", {request[r].session})
\* The abort wins the race of wait(): what became of the operation is unknown,
\* and the session is closed.
AbandonRequest(r) ==
  /\ request[r].pc \in Handling /\ request[r].aborted
  /\ Respond(r, "unknown", {request[r].session})

\* call(): an operation is begun only while no signal says otherwise.
Operate(r) ==
  /\ request[r].pc = "transport" /\ request[r].kind = "call" /\ request[r].op = "none"
  /\ ~request[r].aborted /\ Home(r).state = "open"
  /\ request' = [request EXCEPT ![r].op = "running"]
  /\ UNCHANGED <<http, session>>

\* The operation ends, with its request or long after it.
OperationEnds(r) ==
  /\ request[r].op = "running"
  /\ request' = [request EXCEPT ![r].op = "over"]
  /\ session' = [session EXCEPT ![request[r].session].aged = FALSE]
  /\ UNCHANGED http

\* onInitialized: a session closed meanwhile is not made known.
NameSession(r) ==
  /\ request[r].pc = "transport" /\ request[r].kind = "initialize" /\ request[r].op = "none"
  /\ request' = [request EXCEPT ![r].op = "over"]
  /\ session' = [session EXCEPT ![request[r].session].named = TRUE,
                   ![request[r].session].mapped = (http = "open" /\ Home(r).state = "open")]
  /\ UNCHANGED http

ReplyTo(r) == /\ request[r].pc = "transport" /\ request[r].op = "over" /\ Respond(r, "done", {})
\* The SDK refuses the message; a session that has no name yet is closed.
Reject(r) ==
  /\ request[r].pc = "transport" /\ request[r].op = "none"
  /\ Respond(r, "refused", IF Home(r).named THEN {} ELSE {request[r].session})
Delete(r) ==
  /\ request[r].pc = "transport" /\ request[r].kind = "delete"
  /\ Respond(r, "done", {request[r].session})

\* The client disconnects or the deadline passes.
Abort(r) ==
  /\ r \in InFlight /\ ~request[r].aborted
  /\ request' = [request EXCEPT ![r].aborted = TRUE]
  /\ UNCHANGED <<http, session>>
-----------------------------------------------------------------------------
\* Mutant of Drain: the operations that still run are not waited for.
DrainEarly(s) ==
  /\ session[s].state = "closed" /\ session[s].engine # "pending"
  /\ session' = [session EXCEPT ![s].state = "disposing"]
  /\ UNCHANGED <<http, request>>
\* The cleanup of a closed session awaits the factory and the operations, then
\* closes the engine; then the reservation is free.
Drain(s) ==
  /\ session[s].state = "closed" /\ session[s].engine # "pending" /\ Running(s) = {}
  /\ session' = [session EXCEPT ![s].state = "disposing"]
  /\ UNCHANGED <<http, request>>
Dispose(s) ==
  /\ session[s].state = "disposing"
  /\ session' = [session EXCEPT ![s].state = "disposed", ![s].mapped = FALSE]
  /\ UNCHANGED <<http, request>>

\* The idle timeout passes; every use of the session starts it again.
Age(s) == /\ session[s].state = "open" /\ ~session[s].aged
          /\ session[s].active = 0 /\ Running(s) = {}
          /\ session' = [session EXCEPT ![s].aged = TRUE]
          /\ UNCHANGED <<http, request>>
ExpireIdle(s) ==
  /\ http = "open" /\ session[s].state = "open" /\ session[s].aged
  /\ session[s].active = 0 /\ Running(s) = {}
  /\ session' = Ended(session, {s}) /\ request' = Interrupted(request, {s})
  /\ UNCHANGED http

\* close(): also during startup, which then fails.
CloseServer ==
  /\ http # "closed" /\ http' = "closed"
  /\ request' = [r \in HttpRequests |->
                   IF r \in InFlight THEN [request[r] EXCEPT !.aborted = TRUE] ELSE request[r]]
  /\ session' = Ended(session, Reserved)

HandlerStep(r) ==
  \/ BodyFails(r) \/ BodyRead(r) \/ (\E s \in HttpSessionSet : Create(r, s))
  \/ Handle(r) \/ Duplicate(r) \/ HandleFails(r) \/ AbandonRequest(r)
  \/ Operate(r) \/ NameSession(r) \/ ReplyTo(r) \/ Reject(r) \/ Delete(r)
HttpNext ==
  \/ Listen \/ CloseServer
  \/ \E r \in HttpRequests :
       \/ Repel(r) \/ HandlerStep(r) \/ OperationEnds(r) \/ Abort(r)
       \/ \E k \in {"initialize", "call", "delete"}, s \in HttpSessionSet \cup {NoSession} : Admit(r, k, s)
  \/ \E s \in HttpSessionSet : \/ \E o \in {"ready", "failed"} : Factory(s, o)
                               \/ Drain(s) \/ Dispose(s) \/ Age(s) \/ ExpireIdle(s)
HttpSpec == HttpInit /\ [][HttpNext]_httpVars
-----------------------------------------------------------------------------
Holders(s) == {r \in InFlight : request[r].session = s}

\* Places are counted right through every way a request can end, so that none is
\* lost and no session is expired under a request (http-server.mjs:73, :107); an
\* operation that outlived its request belongs to a closed session, which never
\* runs a second one beside it (:103); and a reservation is given up only when no
\* operation and no factory can still use its engine (http-session.mjs:80).
SessionsAreSound ==
  /\ request \in [HttpRequests -> HttpRequest] /\ session \in [HttpSessionSet -> HttpSession]
  /\ \A s \in HttpSessionSet :
       /\ session[s].active = Cardinality(Holders(s)) /\ session[s].active <= MaxActive
       /\ session[s].mapped => s \in Reserved
       /\ session[s].state \in {"disposing", "disposed"} =>
            Running(s) = {} /\ session[s].engine # "pending"
       /\ session[s].state = "open" => \A r \in Running(s) : request[r].pc = "transport"
  /\ Cardinality(InFlight) <= MaxRequests /\ Cardinality(Reserved) <= MaxSessions

\* A client that is told "refused" may send its call again: it was never begun.
RefusedIsUndone ==
  [][\A r \in HttpRequests :
       request[r].answer = "none" /\ request'[r].answer = "refused" => request[r].op = "none"]_httpVars

\* Every request is answered, even if its operation hangs; a closed session
\* whose operations and factory are over gives its reservation back; and one
\* that nobody uses any more is closed.
SessionsDrain ==
  /\ \A r \in HttpRequests : (r \in InFlight) ~> (request[r].pc = "answered")
  /\ \A s \in HttpSessionSet :
       /\ (session[s].state = "closed" /\ session[s].engine # "pending" /\ Running(s) = {})
            ~> (session[s].state = "disposed")
       /\ (session[s].state = "open") ~>
            (session[s].state # "open" \/ Holders(s) # {} \/ Running(s) # {})
\* All together: what a client is told is true, and nothing is kept forever, nor
\* given up too early.
SessionsHold == []SessionsAreSound /\ RefusedIsUndone /\ SessionsDrain
=============================================================================
