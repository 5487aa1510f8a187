------------------------- MODULE Exchanges_proofs -------------------------
(***************************************************************************)
(* What programs that talk to each other may rely on, for every value of   *)
(* their constants: clients and the sessions of the HTTP server            *)
(* (HttpSessions), viewers and the gateways that are replaced under them   *)
(* (GatewayControl), tool calls and the code that serves them              *)
(* (CallShapes), a browser and the host that share files (SharedFiles),    *)
(* the agents and the person that share its tabs (BrowserTabs), and those  *)
(* who ask whether all is ready with those who answer (Readiness).         *)
(* The six share nothing; each has an inductive invariant of its own.      *)
(***************************************************************************)
EXTENDS HttpSessions, GatewayControl, CallShapes, SharedFiles, BrowserTabs, Readiness,
        FiniteSetTheorems, SequenceTheorems, WellFoundedInduction, TLAPS

\* A request that was not admitted has nothing; one that names no session is one
\* that would open it; and an operation belongs to a call in the transport, or to
\* a session that is closed.
RequestFits(r) ==
  LET q == request[r] IN
  /\ q.pc = "idle" => q.session = NoSession /\ q.op = "none"
  /\ q.pc \in {"body", "waiting"} => q.op = "none"
  /\ q.pc = "body" => (q.kind = "initialize") = (q.session = NoSession)
  /\ q.pc \in Handling => q.session # NoSession
  /\ q.session # NoSession => session[q.session].state # "unborn"
  /\ q.op = "running" => /\ q.session # NoSession /\ q.kind = "call"
                         /\ session[q.session].state \notin {"disposing", "disposed"}
                         /\ session[q.session].state = "open" => q.pc = "transport"
\* A session counts the requests that hold it, and is reachable by its name only while
\* its place is taken; its engine is settled before the place is given up.
SessionFits(s) ==
  /\ session[s].active = Cardinality(Holders(s)) /\ session[s].active <= MaxActive
  /\ session[s].mapped => s \in Reserved
  /\ session[s].state \in {"disposing", "disposed"} => session[s].engine # "pending"
\* The records of both; the two limits of the server; and the inductive invariant.
HttpTyped == request \in [HttpRequests -> HttpRequest] /\ session \in [HttpSessionSet -> HttpSession]
WithinLimits == /\ IsFiniteSet(InFlight) /\ Cardinality(InFlight) <= MaxRequests
           /\ IsFiniteSet(Reserved) /\ Cardinality(Reserved) <= MaxSessions
HttpInv == /\ HttpTyped /\ WithinLimits
           /\ \A r \in HttpRequests : RequestFits(r)
           /\ \A s \in HttpSessionSet : SessionFits(s)

\* A session has finitely many requests, those in flight being so.
LEMMA HoldersAreFinite ==
  ASSUME HttpInv, NEW s \in HttpSessionSet
  PROVE  IsFiniteSet(Holders(s)) /\ Cardinality(Holders(s)) \in Nat
<1>1. Holders(s) \subseteq InFlight BY DEF Holders
<1>. QED BY <1>1, FS_Subset, FS_CardinalityType DEF HttpInv, WithinLimits

\* A server that has just started has neither requests nor sessions.
LEMMA HttpStarts == HttpInit => HttpInv
<1> SUFFICES ASSUME HttpInit PROVE HttpInv OBVIOUS
<1>1. HttpTyped BY DEF HttpInit, HttpTyped, HttpRequest, HttpSession
<1>2. InFlight = {} /\ Reserved = {} BY DEF HttpInit, InFlight, Reserved
<1>3. \A s \in HttpSessionSet : Holders(s) = {} BY <1>2 DEF Holders
<1>4. IsFiniteSet({}) /\ Cardinality({}) = 0 BY FS_EmptySet
<1>5. WithinLimits BY <1>2, <1>4, HttpAssumption DEF WithinLimits
<1>6. \A r \in HttpRequests : RequestFits(r) BY HttpAssumption DEF HttpInit, RequestFits, Handling
<1>7. ASSUME NEW s \in HttpSessionSet PROVE SessionFits(s)
  <2>1. Cardinality(Holders(s)) = 0 BY <1>3, <1>4
  <2>2. session[s].active = 0 /\ ~session[s].mapped /\ session[s].state = "unborn" BY DEF HttpInit
  <2>. QED BY <2>1, <2>2, HttpAssumption DEF SessionFits
<1>. QED BY <1>1, <1>5, <1>6, <1>7 DEF HttpInv

\* A step after which the same requests are in flight for the same sessions.
LEMMA UnheldKeeps ==
  ASSUME HttpInv, HttpTyped',
         \A r \in HttpRequests : /\ request'[r].session = request[r].session
                                 /\ (request'[r].pc \in {"body", "waiting", "transport"})
                                      = (request[r].pc \in {"body", "waiting", "transport"}),
         \A s \in HttpSessionSet :
            /\ session'[s].active = session[s].active
            /\ session'[s].state \in {"open", "closed", "disposing"} => s \in Reserved
            /\ session'[s].mapped => s \in Reserved'
            /\ session'[s].state \in {"disposing", "disposed"} => session'[s].engine # "pending",
         \A r \in HttpRequests : RequestFits(r)'
  PROVE  HttpInv'
<1>1. InFlight' = InFlight BY DEF InFlight
<1>2. Reserved' \subseteq Reserved BY DEF Reserved
<1>3. IsFiniteSet(Reserved') /\ Cardinality(Reserved') <= MaxSessions
  <2>1. IsFiniteSet(Reserved') /\ Cardinality(Reserved') <= Cardinality(Reserved)
    BY <1>2, FS_Subset DEF HttpInv, WithinLimits
  <2>2. Cardinality(Reserved) \in Nat /\ Cardinality(Reserved') \in Nat
    BY <2>1, FS_CardinalityType DEF HttpInv, WithinLimits
  <2>. QED BY <2>1, <2>2, HttpAssumption DEF HttpInv, WithinLimits
<1>4. WithinLimits' BY <1>1, <1>3 DEF HttpInv, WithinLimits
<1>5. \A s \in HttpSessionSet : Holders(s)' = Holders(s) BY <1>1 DEF Holders, InFlight
<1>6. \A s \in HttpSessionSet : SessionFits(s)' BY <1>5 DEF HttpInv, SessionFits
<1>. QED BY <1>4, <1>6 DEF HttpInv

\* The signal of an abort changes nothing else of a request.
LEMMA AbortedIs ==
  ASSUME NEW q \in HttpRequest, NEW p \in {q, [q EXCEPT !.aborted = TRUE]}
  PROVE  /\ p \in HttpRequest /\ p.session = q.session /\ p.kind = q.kind /\ p.pc = q.pc /\ p.op = q.op
         /\ p.answer = q.answer
BY DEF HttpRequest

\* The end of a handler frees the place it had, and no other.
LEMMA RespondKeepsAll ==
  ASSUME HttpInv, NEW r \in HttpRequests, NEW answer \in {"done", "refused", "unknown"},
         NEW D \in SUBSET HttpSessionSet, Respond(r, answer, D),
         r \in InFlight \/ request[r].pc = "idle",
         request[r].op = "running" => request[r].session \in D
  PROVE  HttpInv'
<1>. DEFINE R == [request EXCEPT ![r].pc = "answered", ![r].answer = answer, ![r].aborted = FALSE]
            S == ReleasedBy(session, r)
            mine == request[r].session
<1>0. request \in [HttpRequests -> HttpRequest] /\ session \in [HttpSessionSet -> HttpSession]
  BY DEF HttpInv, HttpTyped
<1>1. request' = Interrupted(R, D) /\ session' = Ended(S, D) BY DEF Respond
<1>2. \A q \in HttpRequests :
        /\ R[q] \in HttpRequest /\ R[q].session = request[q].session /\ R[q].op = request[q].op
        /\ R[q].kind = request[q].kind /\ R[q].pc = IF q = r THEN "answered" ELSE request[q].pc
  <2>1. /\ \A q \in HttpRequests \ {r} : R[q] = request[q]
        /\ R[r] = [request[r] EXCEPT !.pc = "answered", !.answer = answer, !.aborted = FALSE]
    BY <1>0
  <2>2. request[r] \in HttpRequest /\ \A q \in HttpRequests : request[q] \in HttpRequest BY <1>0
  <2>. HIDE DEF R
  <2>3. /\ R[r] \in HttpRequest /\ R[r].session = request[r].session /\ R[r].op = request[r].op
        /\ R[r].kind = request[r].kind /\ R[r].pc = "answered"
    BY <2>1, <2>2 DEF HttpRequest
  <2>. QED BY <2>1, <2>2, <2>3
<1>3. \A q \in HttpRequests :
        /\ request'[q] \in HttpRequest /\ request'[q].session = request[q].session /\ request'[q].op = request[q].op
        /\ request'[q].kind = request[q].kind /\ request'[q].pc = IF q = r THEN "answered" ELSE request[q].pc
  <2>. HIDE DEF R
  <2>1. ASSUME NEW q \in HttpRequests
        PROVE  /\ request'[q] \in HttpRequest /\ request'[q].session = R[q].session /\ request'[q].op = R[q].op
               /\ request'[q].kind = R[q].kind /\ request'[q].pc = R[q].pc
    <3>1. R[q] \in HttpRequest BY <1>2
    <3>2. request'[q] \in {R[q], [R[q] EXCEPT !.aborted = TRUE]} BY <1>1 DEF Interrupted
    <3>. QED BY <3>1, <3>2, AbortedIs
  <2>. QED BY <1>2, <2>1
<1>4. request' \in [HttpRequests -> HttpRequest] BY <1>1, <1>3 DEF Interrupted
<1>5. mine # NoSession => /\ mine \in HttpSessionSet /\ r \in InFlight /\ r \in Holders(mine)
                          /\ session[mine].active \in Nat \ {0}
  <2> SUFFICES ASSUME mine # NoSession
               PROVE  mine \in HttpSessionSet /\ r \in InFlight /\ r \in Holders(mine) /\ session[mine].active \in Nat \ {0}
    OBVIOUS
  <2>1. mine \in HttpSessionSet BY <1>0 DEF HttpRequest
  <2>2. r \in InFlight BY DEF HttpInv, RequestFits
  <2>3. r \in Holders(mine) BY <2>2 DEF Holders
  <2>4. Cardinality(Holders(mine)) # 0 BY <2>1, <2>3, HoldersAreFinite, FS_EmptySet
  <2>5. session[mine].active = Cardinality(Holders(mine)) BY <2>1 DEF HttpInv, SessionFits
  <2>. QED BY <2>1, <2>2, <2>3, <2>4, <2>5, HoldersAreFinite
<1>6. \A s \in HttpSessionSet :
        /\ S[s] \in HttpSession /\ S[s].state = session[s].state /\ S[s].engine = session[s].engine
        /\ S[s].mapped = session[s].mapped
        /\ S[s].active = IF s = mine THEN session[s].active - 1 ELSE session[s].active
  <2>1. CASE mine = NoSession BY <1>0, <2>1, HttpAssumption DEF ReleasedBy
  <2>2. CASE mine # NoSession
    <3>1. S = [session EXCEPT ![mine].active = @ - 1, ![mine].aged = FALSE] BY <2>2 DEF ReleasedBy
    <3>2. session[mine].active - 1 \in Nat BY <1>5, <2>2
    <3>. HIDE DEF S
    <3>. QED BY <1>0, <1>5, <2>2, <3>1, <3>2 DEF HttpSession
  <2>. QED BY <2>1, <2>2
<1>7. \A s \in HttpSessionSet :
        /\ session'[s] \in HttpSession /\ session'[s].engine = session[s].engine /\ session'[s].mapped = session[s].mapped
        /\ session'[s].state = (IF s \in D /\ session[s].state = "open" THEN "closed" ELSE session[s].state)
        /\ session'[s].active = IF s = mine THEN session[s].active - 1 ELSE session[s].active
  <2>. HIDE DEF S
  <2>1. \A s \in HttpSessionSet : session'[s] = IF s \in D /\ S[s].state = "open" THEN [S[s] EXCEPT !.state = "closed"] ELSE S[s]
    BY <1>1 DEF Ended
  <2> SUFFICES ASSUME NEW s \in HttpSessionSet
               PROVE  /\ session'[s] \in HttpSession /\ session'[s].engine = S[s].engine /\ session'[s].mapped = S[s].mapped
                      /\ session'[s].state = (IF s \in D /\ S[s].state = "open" THEN "closed" ELSE S[s].state)
                      /\ session'[s].active = S[s].active
    BY <1>6
  <2>2. S[s] \in HttpSession BY <1>6
  <2>3. CASE s \in D /\ S[s].state = "open"
    <3>1. session'[s] = [S[s] EXCEPT !.state = "closed"] BY <2>1, <2>3
    <3>. QED BY <2>2, <2>3, <3>1 DEF HttpSession
  <2>4. CASE ~(s \in D /\ S[s].state = "open") BY <2>1, <2>2, <2>4
  <2>. QED BY <2>3, <2>4
<1>8. session' \in [HttpSessionSet -> HttpSession] BY <1>1, <1>7 DEF Ended
<1>9. InFlight' = InFlight \ {r} /\ InFlight \subseteq HttpRequests BY <1>3 DEF InFlight
<1>10. Reserved' = Reserved BY <1>7 DEF Reserved
<1>11. WithinLimits'
  <2>1. IsFiniteSet(InFlight') /\ Cardinality(InFlight') <= Cardinality(InFlight)
    BY <1>9, FS_Subset DEF HttpInv, WithinLimits
  <2>2. Cardinality(InFlight) \in Nat /\ Cardinality(InFlight') \in Nat
    BY <2>1, FS_CardinalityType DEF HttpInv, WithinLimits
  <2>. QED BY <1>10, <2>1, <2>2, HttpAssumption DEF HttpInv, WithinLimits
<1>12. ASSUME NEW s \in HttpSessionSet PROVE SessionFits(s)'
  <2>1. CASE s = mine
    <3>1. mine # NoSession BY <2>1, HttpAssumption
    <3>2. Holders(s)' = Holders(s) \ {r} BY <1>3, <1>9, <2>1 DEF Holders
    <3>3. Cardinality(Holders(s)') = Cardinality(Holders(s)) - 1
      BY <1>5, <2>1, <3>1, <3>2, HoldersAreFinite, FS_RemoveElement
    <3>4. session[s].active \in Nat /\ MaxActive \in Nat BY <1>0, HttpAssumption DEF HttpSession
    <3>. QED BY <1>7, <1>10, <2>1, <3>3, <3>4 DEF HttpInv, SessionFits
  <2>2. CASE s # mine
    <3>1. Holders(s)' = Holders(s) BY <1>3, <1>9, <2>2 DEF Holders
    <3>. QED BY <1>7, <1>10, <2>2, <3>1 DEF HttpInv, SessionFits
  <2>. QED BY <2>1, <2>2
<1>13. ASSUME NEW q \in HttpRequests PROVE RequestFits(q)'
  <2>1. RequestFits(q) /\ (request[q].session # NoSession => request[q].session \in HttpSessionSet)
    BY <1>0 DEF HttpInv, HttpRequest
  <2>2. CASE q = r
    BY <1>3, <1>7, <2>1, <2>2 DEF RequestFits, Handling
  <2>3. CASE q # r BY <1>3, <1>7, <2>1, <2>3 DEF RequestFits, Handling
  <2>. QED BY <2>2, <2>3
<1>. QED BY <1>4, <1>8, <1>11, <1>12, <1>13 DEF HttpInv, HttpTyped

\* A step of the handler that neither takes a place nor gives one back.
LEMMA ReadKeeps == ASSUME HttpInv, NEW r \in HttpRequests, BodyRead(r) \/ Handle(r) PROVE HttpInv'
<1>0. request \in [HttpRequests -> HttpRequest] /\ session \in [HttpSessionSet -> HttpSession]
  BY DEF HttpInv, HttpTyped
<1>1. PICK pc \in Handling : /\ request' = [request EXCEPT ![r].pc = pc] /\ session' = session
                             /\ request[r].pc \in {"body", "waiting"}
                             /\ request[r].kind # "initialize" \/ request[r].pc = "waiting"
  BY DEF BodyRead, Handle, Handling
<1>2. \A q \in HttpRequests :
        /\ request'[q] \in HttpRequest /\ request'[q].session = request[q].session /\ request'[q].op = request[q].op
        /\ request'[q].kind = request[q].kind /\ request'[q].pc = IF q = r THEN pc ELSE request[q].pc
  BY <1>0, <1>1 DEF HttpRequest, Handling
<1>3. HttpTyped' BY <1>0, <1>1, <1>2 DEF HttpTyped
<1>4. ASSUME NEW q \in HttpRequests PROVE RequestFits(q)'
  <2>1. RequestFits(q) /\ RequestFits(r) BY DEF HttpInv
  <2>2. session' = session BY <1>1
  <2>. QED BY <1>1, <1>2, <2>1, <2>2 DEF RequestFits, Handling
<1>5. \A s \in HttpSessionSet : session[s].mapped => s \in Reserved BY DEF HttpInv, SessionFits
<1>6. \A s \in HttpSessionSet : session[s].state \in {"disposing", "disposed"} => session[s].engine # "pending"
  BY DEF HttpInv, SessionFits
<1>7. Reserved' = Reserved BY <1>1 DEF Reserved
<1>8. \A q \in HttpRequests : (request'[q].pc \in {"body", "waiting", "transport"})
                                 = (request[q].pc \in {"body", "waiting", "transport"})
  BY <1>1, <1>2 DEF Handling
<1>. QED BY <1>1, <1>2, <1>3, <1>4, <1>5, <1>6, <1>7, <1>8, UnheldKeeps DEF Reserved

\* A session's own steps leave the requests alone.
LEMMA SessionKeeps ==
  ASSUME HttpInv, NEW s \in HttpSessionSet,
         (\E o \in {"ready", "failed"} : Factory(s, o)) \/ Drain(s) \/ Dispose(s) \/ Age(s)
  PROVE  HttpInv'
<1>0. request \in [HttpRequests -> HttpRequest] /\ session \in [HttpSessionSet -> HttpSession]
  BY DEF HttpInv, HttpTyped
<1>1. request' = request BY DEF Factory, Drain, Dispose, Age
<1>2. session' \in [HttpSessionSet -> HttpSession]
  <2>1. ASSUME NEW o \in {"ready", "failed"}, Factory(s, o) PROVE session' \in [HttpSessionSet -> HttpSession]
    BY <1>0, <2>1 DEF Factory, HttpSession
  <2>2. CASE Drain(s)
    <3>1. session' = [session EXCEPT ![s].state = "disposing"] BY <2>2 DEF Drain
    <3>2. session[s] \in HttpSession BY <1>0
    <3>3. [session[s] EXCEPT !.state = "disposing"] \in HttpSession BY <3>2 DEF HttpSession
    <3>. QED BY <1>0, <3>1, <3>3
  <2>3. CASE Dispose(s)
    <3>1. session' = [session EXCEPT ![s].state = "disposed", ![s].mapped = FALSE] BY <2>3 DEF Dispose
    <3>2. session[s] \in HttpSession BY <1>0
    <3>3. [session[s] EXCEPT !.state = "disposed", !.mapped = FALSE] \in HttpSession BY <3>2 DEF HttpSession
    <3>. QED BY <1>0, <3>1, <3>3
  <2>4. CASE Age(s) BY <1>0, <2>4 DEF Age, HttpSession
  <2>. QED BY <2>1, <2>2, <2>3, <2>4
<1>3. \A z \in HttpSessionSet : z # s => session'[z] = session[z] BY <1>0 DEF Factory, Drain, Dispose, Age
<1>4. session'[s].active = session[s].active BY <1>0 DEF Factory, Drain, Dispose, Age, HttpSession
<1>5. \/ s \in Reserved /\ session'[s].state = session[s].state /\ session'[s].engine # "pending"
         /\ session'[s].mapped = session[s].mapped
      \/ session[s].state = "closed" /\ session'[s].state = "disposing" /\ Running(s) = {}
         /\ session[s].engine # "pending"
         /\ session'[s].engine = session[s].engine /\ session'[s].mapped = session[s].mapped
      \/ session[s].state = "disposing" /\ session'[s].state = "disposed"
         /\ session'[s].engine = session[s].engine /\ ~session'[s].mapped
      \/ session[s].state = "open" /\ session'[s].state = "open"
         /\ session'[s].engine = session[s].engine /\ session'[s].mapped = session[s].mapped
  BY <1>0 DEF Factory, Drain, Dispose, Age, HttpSession
<1>6. ASSUME NEW q \in HttpRequests PROVE RequestFits(q)'
  <2>1. RequestFits(q) /\ request'[q] = request[q] BY <1>1 DEF HttpInv
  <2>2. CASE request[q].session # s
    <3>1. request[q].session # NoSession => session'[request[q].session] = session[request[q].session]
      BY <1>0, <1>3, <2>2 DEF HttpRequest
    <3>. QED BY <2>1, <3>1 DEF RequestFits
  <2>3. CASE request[q].session = s
    <3>1. Running(s) = {} => request[q].op # "running" BY <2>3 DEF Running
    <3>2. request[q].op = "running" => session[s].state \notin {"disposing", "disposed"}
      BY <2>1, <2>3 DEF RequestFits
    <3>3. session'[s].state # "unborn"
      BY <1>5, <2>1, <2>3, HttpAssumption DEF RequestFits, Reserved
    <3>4. request[q].op = "running" => /\ session'[s].state \notin {"disposing", "disposed"}
                                       /\ session'[s].state = "open" => session[s].state = "open"
      BY <1>5, <3>1, <3>2
    <3>. QED BY <2>1, <2>3, <3>3, <3>4 DEF RequestFits
  <2>. QED BY <2>2, <2>3
<1>7. ASSUME NEW z \in HttpSessionSet
      PROVE  /\ session'[z].active = session[z].active
             /\ session'[z].state \in {"open", "closed", "disposing"} => z \in Reserved
             /\ session'[z].mapped => z \in Reserved'
             /\ session'[z].state \in {"disposing", "disposed"} => session'[z].engine # "pending"
  <2>1. session[z].mapped => z \in Reserved BY DEF HttpInv, SessionFits
  <2>2. session[z].state \in {"disposing", "disposed"} => session[z].engine # "pending" BY DEF HttpInv, SessionFits
  <2>3. CASE z # s BY <1>3, <2>1, <2>2, <2>3 DEF Reserved
  <2>4. CASE z = s BY <1>4, <1>5, <2>1, <2>2, <2>4 DEF Reserved
  <2>. QED BY <2>3, <2>4
<1>8. \A q \in HttpRequests : /\ request'[q].session = request[q].session
                              /\ (request'[q].pc \in {"body", "waiting", "transport"})
                                   = (request[q].pc \in {"body", "waiting", "transport"})
  BY <1>1
<1>. QED BY <1>0, <1>1, <1>2, <1>6, <1>7, <1>8, UnheldKeeps DEF HttpTyped

\* Steps of a request in the transport, of its operation, and of its client.
LEMMA OperationKeeps ==
  ASSUME HttpInv, NEW r \in HttpRequests, Operate(r) \/ OperationEnds(r) \/ NameSession(r) \/ Abort(r)
  PROVE  HttpInv'
<1>. DEFINE mine == request[r].session
<1>0. request \in [HttpRequests -> HttpRequest] /\ session \in [HttpSessionSet -> HttpSession]
  BY DEF HttpInv, HttpTyped
<1>1. RequestFits(r) BY DEF HttpInv
<1>2. \/ request[r].pc = "transport" /\ request[r].op = "none" /\ request[r].kind = "call" /\ session[mine].state = "open"
         /\ request' = [request EXCEPT ![r].op = "running"] /\ session' = session
      \/ request[r].op = "running" /\ request' = [request EXCEPT ![r].op = "over"]
         /\ session' = [session EXCEPT ![mine].aged = FALSE]
      \/ request[r].pc = "transport" /\ request[r].op = "none" /\ request' = [request EXCEPT ![r].op = "over"]
         /\ session' = [session EXCEPT ![mine].named = TRUE, ![mine].mapped = (http = "open" /\ Home(r).state = "open")]
      \/ r \in InFlight /\ request' = [request EXCEPT ![r].aborted = TRUE] /\ session' = session
  BY DEF Operate, OperationEnds, NameSession, Abort, Home
<1>3. mine \in HttpSessionSet \/ session' = session
  BY <1>0, <1>1, <1>2 DEF RequestFits, Handling, HttpRequest
<1>4. request' \in [HttpRequests -> HttpRequest]
  <2>1. request[r] \in HttpRequest BY <1>0
  <2>2. ASSUME NEW next \in {"running", "over"}, request' = [request EXCEPT ![r].op = next]
        PROVE  request' \in [HttpRequests -> HttpRequest]
    <3>1. [request[r] EXCEPT !.op = next] \in HttpRequest BY <2>1 DEF HttpRequest
    <3>. QED BY <1>0, <2>2, <3>1
  <2>3. CASE request' = [request EXCEPT ![r].aborted = TRUE]
    <3>1. [request[r] EXCEPT !.aborted = TRUE] \in HttpRequest BY <2>1, AbortedIs
    <3>. QED BY <1>0, <2>3, <3>1
  <2>. QED BY <1>2, <2>2, <2>3
<1>5. \A z \in HttpSessionSet :
        /\ session'[z] \in HttpSession /\ session'[z].state = session[z].state
        /\ session'[z].engine = session[z].engine /\ session'[z].active = session[z].active
        /\ session'[z].mapped => session[z].mapped \/ session[z].state = "open"
  <2> SUFFICES ASSUME NEW z \in HttpSessionSet
               PROVE  /\ session'[z] \in HttpSession /\ session'[z].state = session[z].state
                      /\ session'[z].engine = session[z].engine /\ session'[z].active = session[z].active
                      /\ session'[z].mapped => session[z].mapped \/ session[z].state = "open"
    OBVIOUS
  <2>1. session[z] \in HttpSession BY <1>0
  <2>2. CASE session' = session BY <2>1, <2>2
  <2>3. CASE session' = [session EXCEPT ![mine].aged = FALSE] BY <1>0, <2>1, <2>3 DEF HttpSession
  <2>4. CASE session' = [session EXCEPT ![mine].named = TRUE, ![mine].mapped = (http = "open" /\ Home(r).state = "open")]
    <3>. DEFINE m == http = "open" /\ Home(r).state = "open"
    <3>1. m \in BOOLEAN /\ (z = mine /\ m => session[z].state = "open") BY DEF Home
    <3>2. session' = [session EXCEPT ![mine].named = TRUE, ![mine].mapped = m] BY <2>4
    <3>. HIDE DEF m
    <3>. QED BY <1>0, <2>1, <3>1, <3>2 DEF HttpSession
  <2>. QED BY <1>2, <2>2, <2>3, <2>4
<1>6. session' \in [HttpSessionSet -> HttpSession]
  <2>1. session' = [z \in HttpSessionSet |-> session'[z]] BY <1>0, <1>2
  <2>. QED BY <2>1, <1>5
<1>7. \A q \in HttpRequests :
        /\ request'[q].session = request[q].session /\ request'[q].kind = request[q].kind
        /\ request'[q].pc = request[q].pc
        /\ request'[q].op = request[q].op \/ q = r
  BY <1>0, <1>2 DEF HttpRequest
<1>8. \/ request'[r].op = request[r].op
      \/ request[r].pc = "transport" /\ request'[r].op = "over"
      \/ request[r].op = "running" /\ request'[r].op = "over"
      \/ request[r].pc = "transport" /\ request'[r].op = "running" /\ request[r].kind = "call" /\ session[mine].state = "open"
  BY <1>0, <1>2 DEF HttpRequest
<1>9. ASSUME NEW q \in HttpRequests PROVE RequestFits(q)'
  <2>1. RequestFits(q) BY DEF HttpInv
  <2>2. request[q].session # NoSession => session'[request[q].session].state = session[request[q].session].state
    BY <1>0, <1>5 DEF HttpRequest
  <2>3. CASE request'[q].op = request[q].op BY <1>7, <2>1, <2>2, <2>3 DEF RequestFits
  <2>4. CASE q = r BY <1>7, <1>8, <2>1, <2>2, <2>4 DEF RequestFits, Handling
  <2>. QED BY <1>7, <2>3, <2>4
<1>10. ASSUME NEW z \in HttpSessionSet
       PROVE  /\ session'[z].active = session[z].active
              /\ session'[z].state \in {"open", "closed", "disposing"} => z \in Reserved
              /\ session'[z].mapped => z \in Reserved'
              /\ session'[z].state \in {"disposing", "disposed"} => session'[z].engine # "pending"
  <2>1. session[z].mapped => z \in Reserved BY DEF HttpInv, SessionFits
  <2>2. session[z].state \in {"disposing", "disposed"} => session[z].engine # "pending" BY DEF HttpInv, SessionFits
  <2>. QED BY <1>5, <2>1, <2>2 DEF Reserved
<1>11. \A q \in HttpRequests : /\ request'[q].session = request[q].session
                               /\ (request'[q].pc \in {"body", "waiting", "transport"})
                                    = (request[q].pc \in {"body", "waiting", "transport"})
  BY <1>7
<1>. QED BY <1>4, <1>6, <1>9, <1>10, <1>11, UnheldKeeps DEF HttpTyped

\* Sessions that are closed take nothing away from the requests under way.
LEMMA EndingKeeps ==
  ASSUME HttpInv, NEW D \in SUBSET HttpSessionSet,
         session' = Ended(session, D), request' \in [HttpRequests -> HttpRequest],
         \A q \in HttpRequests : /\ request'[q].session = request[q].session /\ request'[q].kind = request[q].kind
                                 /\ request'[q].pc = request[q].pc /\ request'[q].op = request[q].op
  PROVE  HttpInv'
<1>0. request \in [HttpRequests -> HttpRequest] /\ session \in [HttpSessionSet -> HttpSession]
  BY DEF HttpInv, HttpTyped
<1>1. \A z \in HttpSessionSet :
        /\ session'[z] \in HttpSession /\ session'[z].engine = session[z].engine /\ session'[z].mapped = session[z].mapped
        /\ session'[z].active = session[z].active
        /\ session'[z].state = (IF z \in D /\ session[z].state = "open" THEN "closed" ELSE session[z].state)
  <2> SUFFICES ASSUME NEW z \in HttpSessionSet
               PROVE  /\ session'[z] \in HttpSession /\ session'[z].engine = session[z].engine
                      /\ session'[z].mapped = session[z].mapped /\ session'[z].active = session[z].active
                      /\ session'[z].state = (IF z \in D /\ session[z].state = "open" THEN "closed" ELSE session[z].state)
    OBVIOUS
  <2>1. session[z] \in HttpSession BY <1>0
  <2>2. CASE z \in D /\ session[z].state = "open"
    <3>1. session'[z] = [session[z] EXCEPT !.state = "closed"] BY <2>2 DEF Ended
    <3>. QED BY <2>1, <2>2, <3>1 DEF HttpSession
  <2>3. CASE ~(z \in D /\ session[z].state = "open") BY <2>1, <2>3 DEF Ended
  <2>. QED BY <2>2, <2>3
<1>2. session' \in [HttpSessionSet -> HttpSession] BY <1>1 DEF Ended
<1>3. ASSUME NEW q \in HttpRequests PROVE RequestFits(q)'
  <2>1. RequestFits(q) BY DEF HttpInv
  <2>2. request[q].session # NoSession => request[q].session \in HttpSessionSet BY <1>0 DEF HttpRequest
  <2>. QED BY <1>1, <2>1, <2>2 DEF RequestFits
<1>4. ASSUME NEW z \in HttpSessionSet
      PROVE  /\ session'[z].active = session[z].active
             /\ session'[z].state \in {"open", "closed", "disposing"} => z \in Reserved
             /\ session'[z].mapped => z \in Reserved'
             /\ session'[z].state \in {"disposing", "disposed"} => session'[z].engine # "pending"
  <2>1. session[z].mapped => z \in Reserved BY DEF HttpInv, SessionFits
  <2>2. session[z].state \in {"disposing", "disposed"} => session[z].engine # "pending" BY DEF HttpInv, SessionFits
  <2>. QED BY <1>1, <2>1, <2>2 DEF Reserved
<1>. QED BY <1>2, <1>3, <1>4, UnheldKeeps DEF HttpTyped

\* A request takes a place, in session s if that is one, which is then open.
LEMMA PlaceKeeps ==
  ASSUME HttpInv, NEW r \in HttpRequests, NEW s \in HttpSessionSet \cup {NoSession},
         HttpTyped', WithinLimits', RequestFits(r)',
         request[r].session = NoSession, r \in InFlight', request'[r].session = s,
         \A q \in HttpRequests \ {r} : request'[q] = request[q],
         \A z \in HttpSessionSet \ {s} : session'[z] = session[z],
         s # NoSession => /\ session'[s].active = session[s].active + 1 /\ session'[s].active <= MaxActive
                          /\ session'[s].state = "open" /\ session[s].state \in {"open", "unborn"}
  PROVE  HttpInv'
<1>1. ASSUME NEW z \in HttpSessionSet, z # s PROVE SessionFits(z)'
  <2>1. Holders(z)' = Holders(z)
    <3>1. \A q \in HttpRequests : q \in Holders(z)' <=> q \in Holders(z)
      BY <1>1, HttpAssumption DEF Holders, InFlight
    <3>2. Holders(z) \subseteq HttpRequests /\ Holders(z)' \subseteq HttpRequests BY DEF Holders, InFlight
    <3>. QED BY <3>1, <3>2
  <2>2. session'[z] = session[z] BY <1>1
  <2>3. SessionFits(z) BY DEF HttpInv
  <2>. QED BY <2>1, <2>2, <2>3 DEF SessionFits, Reserved
<1>2. ASSUME s # NoSession PROVE SessionFits(s)'
  <2>1. s \in HttpSessionSet BY <1>2
  <2>2. Holders(s)' = Holders(s) \cup {r} /\ r \notin Holders(s)
    <3>1. \A q \in HttpRequests : q \in Holders(s)' <=> q \in Holders(s) \cup {r}
      BY <1>2, HttpAssumption DEF Holders, InFlight
    <3>2. Holders(s) \subseteq HttpRequests /\ Holders(s)' \subseteq HttpRequests BY DEF Holders, InFlight
    <3>3. r \notin Holders(s) BY <1>2 DEF Holders
    <3>. PICK before, after : before = Holders(s) /\ after = Holders(s)' OBVIOUS
    <3>4. /\ before \subseteq HttpRequests /\ after \subseteq HttpRequests /\ r \in HttpRequests
          /\ \A q \in HttpRequests : q \in after <=> q \in before \cup {r}
      BY <3>1, <3>2
    <3>5. after = before \cup {r} BY <3>4
    <3>. QED BY <3>3, <3>5
  <2>3. Cardinality(Holders(s)') = Cardinality(Holders(s)) + 1
    <3>1. IsFiniteSet(Holders(s)) BY <2>1, HoldersAreFinite
    <3>2. Cardinality(Holders(s) \cup {r}) = Cardinality(Holders(s)) + 1 BY <2>2, <3>1, FS_AddElement
    <3>. QED BY <2>2, <3>2
  <2>4. SessionFits(s) BY <2>1 DEF HttpInv
  <2>. QED BY <1>2, <2>1, <2>3, <2>4 DEF SessionFits, Reserved
<1>3. ASSUME NEW q \in HttpRequests PROVE RequestFits(q)'
  <2>1. CASE q = r BY <2>1
  <2>2. CASE q # r
    <3>1. RequestFits(q) /\ request'[q] = request[q] BY <2>2 DEF HttpInv
    <3>2. request[q].session \in HttpSessionSet \cup {NoSession} BY DEF HttpInv, HttpTyped, HttpRequest
    <3>3. CASE request[q].session = NoSession BY <3>1, <3>3 DEF RequestFits
    <3>4. CASE request[q].session \in HttpSessionSet \ {s} BY <3>1, <3>4 DEF RequestFits
    <3>5. CASE request[q].session = s /\ s # NoSession BY <3>1, <3>5 DEF RequestFits
    <3>. QED BY <3>2, <3>3, <3>4, <3>5
  <2>. QED BY <2>1, <2>2
<1>4. \A z \in HttpSessionSet : SessionFits(z)' BY <1>1, <1>2, HttpAssumption
<1>. QED BY <1>3, <1>4 DEF HttpInv

\* One place more is within a limit that was not reached.
LEMMA OneMore ==
  ASSUME NEW A, NEW B, NEW x, NEW n \in Nat, IsFiniteSet(A), Cardinality(A) < n, B \subseteq A \cup {x}
  PROVE  IsFiniteSet(B) /\ Cardinality(B) <= n
<1>1. IsFiniteSet(A \cup {x}) /\ Cardinality(A \cup {x}) <= Cardinality(A) + 1 /\ Cardinality(A) \in Nat
  <2>1. IsFiniteSet(A \cup {x})
        /\ Cardinality(A \cup {x}) = IF x \in A THEN Cardinality(A) ELSE Cardinality(A) + 1
    BY FS_AddElement
  <2>2. Cardinality(A) \in Nat BY FS_CardinalityType
  <2>. QED BY <2>1, <2>2
<1>2. IsFiniteSet(B) /\ Cardinality(B) <= Cardinality(A \cup {x}) BY <1>1, FS_Subset
<1>3. Cardinality(B) \in Nat /\ Cardinality(A \cup {x}) \in Nat BY <1>1, <1>2, FS_CardinalityType
<1>. QED BY <1>1, <1>2, <1>3

\* A request that is admitted takes a place in flight, and one in the session it names.
LEMMA AdmitKeeps ==
  ASSUME HttpInv, NEW r \in HttpRequests, NEW k \in {"initialize", "call", "delete"},
         NEW s \in HttpSessionSet \cup {NoSession}, Admit(r, k, s)
  PROVE  HttpInv'
<1>0. request \in [HttpRequests -> HttpRequest] /\ session \in [HttpSessionSet -> HttpSession]
  BY DEF HttpInv, HttpTyped
<1>1. RequestFits(r) /\ request[r].pc = "idle" /\ request[r].session = NoSession /\ request[r].op = "none"
  BY DEF HttpInv, Admit, RequestFits
<1>2. request' = [request EXCEPT ![r].pc = "body", ![r].kind = k, ![r].session = s] BY DEF Admit
<1>3. request' \in [HttpRequests -> HttpRequest] /\ (\A q \in HttpRequests \ {r} : request'[q] = request[q])
      /\ request'[r].pc = "body" /\ request'[r].session = s /\ request'[r].kind = k /\ request'[r].op = "none"
  <2>1. /\ request' = [q \in HttpRequests |-> request'[q]] /\ (\A q \in HttpRequests \ {r} : request'[q] = request[q])
        /\ request'[r] = [request[r] EXCEPT !.pc = "body", !.kind = k, !.session = s]
    BY <1>0, <1>2
  <2>2. request[r] \in HttpRequest BY <1>0
  <2>3. /\ request'[r] \in HttpRequest /\ request'[r].pc = "body" /\ request'[r].session = s
        /\ request'[r].kind = k /\ request'[r].op = request[r].op
    BY <2>1, <2>2 DEF HttpRequest
  <2>. QED BY <1>0, <1>1, <2>1, <2>3
<1>4. \/ k = "initialize" /\ s = NoSession /\ session' = session
      \/ k # "initialize" /\ s # NoSession /\ session[s].state = "open" /\ session[s].active < MaxActive
         /\ session' = Acquired(session, s)
  BY DEF Admit
<1>5. /\ session' \in [HttpSessionSet -> HttpSession] /\ (\A z \in HttpSessionSet \ {s} : session'[z] = session[z])
      /\ s # NoSession => /\ session'[s].active = session[s].active + 1 /\ session[s].active \in Nat
                          /\ session'[s].state = "open" /\ session[s].state = "open"
                          /\ session[s].active < MaxActive
  <2>1. CASE s = NoSession BY <1>0, <1>4, <2>1
  <2>2. CASE s # NoSession
    <3>1. s \in HttpSessionSet /\ session[s] \in HttpSession BY <1>0, <2>2
    <3>2. session' = [session EXCEPT ![s].active = @ + 1, ![s].aged = FALSE] BY <1>4, <2>2 DEF Acquired
    <3>3. session[s].active + 1 \in Nat BY <3>1 DEF HttpSession
    <3>. QED BY <1>0, <1>4, <2>2, <3>1, <3>2, <3>3 DEF HttpSession
  <2>. QED BY <2>1, <2>2
<1>6. WithinLimits'
  <2>1. InFlight' \subseteq InFlight \cup {r} BY <1>3 DEF InFlight
  <2>2. Cardinality(InFlight) < MaxRequests BY DEF Admit
  <2>3. IsFiniteSet(InFlight)' /\ Cardinality(InFlight)' <= MaxRequests
    BY <2>1, <2>2, OneMore, HttpAssumption DEF HttpInv, WithinLimits
  <2>4. Reserved' = Reserved
    <3>1. \A z \in HttpSessionSet : session'[z].state = session[z].state BY <1>5, HttpAssumption
    <3>. QED BY <3>1 DEF Reserved
  <2>. QED BY <2>3, <2>4 DEF HttpInv, WithinLimits
<1>7. RequestFits(r)'
  <2>1. s # NoSession => session'[s].state = "open" BY <1>5
  <2>. QED BY <1>3, <1>4, <2>1 DEF RequestFits, Handling
<1>8. r \in InFlight' BY <1>3 DEF InFlight
<1>9. s # NoSession => session'[s].active <= MaxActive
  BY <1>5, HttpAssumption
<1>. QED BY <1>1, <1>3, <1>5, <1>6, <1>7, <1>8, <1>9, PlaceKeeps DEF HttpTyped

\* A request that opens a session reserves it, and is the first to hold it.
LEMMA CreateKeeps ==
  ASSUME HttpInv, NEW r \in HttpRequests, NEW s \in HttpSessionSet, Create(r, s)
  PROVE  HttpInv'
<1>0. request \in [HttpRequests -> HttpRequest] /\ session \in [HttpSessionSet -> HttpSession]
  BY DEF HttpInv, HttpTyped
<1>1. RequestFits(r) /\ request[r].pc = "body" /\ request[r].session = NoSession /\ request[r].op = "none"
      /\ request[r].kind = "initialize"
  BY DEF HttpInv, Create, RequestFits
<1>2. request' = [request EXCEPT ![r].pc = "waiting", ![r].session = s] BY DEF Create
<1>3. request' \in [HttpRequests -> HttpRequest] /\ (\A q \in HttpRequests \ {r} : request'[q] = request[q])
      /\ request'[r].pc = "waiting" /\ request'[r].session = s /\ request'[r].op = "none"
  <2>1. /\ request' = [q \in HttpRequests |-> request'[q]] /\ (\A q \in HttpRequests \ {r} : request'[q] = request[q])
        /\ request'[r] = [request[r] EXCEPT !.pc = "waiting", !.session = s]
    BY <1>0, <1>2
  <2>2. request[r] \in HttpRequest BY <1>0
  <2>3. /\ request'[r] \in HttpRequest /\ request'[r].pc = "waiting" /\ request'[r].session = s
        /\ request'[r].op = request[r].op
    BY <2>1, <2>2 DEF HttpRequest
  <2>. QED BY <1>0, <1>1, <2>1, <2>3
<1>4. session[s].state = "unborn" /\ session' = Acquired([session EXCEPT ![s].state = "open"], s) BY DEF Create
<1>5. session[s].active = 0
  <2>1. Holders(s) = {} BY <1>4, HttpAssumption DEF Holders, InFlight, HttpInv, RequestFits
  <2>. QED BY <2>1, FS_EmptySet DEF HttpInv, SessionFits
<1>6. /\ session' \in [HttpSessionSet -> HttpSession] /\ (\A z \in HttpSessionSet \ {s} : session'[z] = session[z])
      /\ session'[s].active = session[s].active + 1 /\ session'[s].state = "open"
  <2>. DEFINE S == [session EXCEPT ![s].state = "open"]
  <2>1. S \in [HttpSessionSet -> HttpSession] /\ (\A z \in HttpSessionSet \ {s} : S[z] = session[z])
        /\ S[s].active = session[s].active /\ S[s].state = "open"
    BY <1>0 DEF HttpSession
  <2>2. session' = [S EXCEPT ![s].active = @ + 1, ![s].aged = FALSE] BY <1>4 DEF Acquired
  <2>3. S[s].active + 1 \in Nat BY <1>5, <2>1
  <2>. HIDE DEF S
  <2>4. /\ session' = [z \in HttpSessionSet |-> session'[z]] /\ (\A z \in HttpSessionSet \ {s} : session'[z] = S[z])
        /\ session'[s] = [S[s] EXCEPT !.active = S[s].active + 1, !.aged = FALSE]
    BY <2>1, <2>2
  <2>5. S[s] \in HttpSession BY <2>1
  <2>6. session'[s] \in HttpSession /\ session'[s].active = S[s].active + 1 /\ session'[s].state = S[s].state
    BY <2>3, <2>4, <2>5 DEF HttpSession
  <2>. QED BY <2>1, <2>4, <2>6
<1>7. WithinLimits'
  <2>1. InFlight' = InFlight BY <1>1, <1>3 DEF InFlight
  <2>2. Reserved' \subseteq Reserved \cup {s} BY <1>6 DEF Reserved
  <2>3. Cardinality(Reserved) < MaxSessions BY DEF Create
  <2>4. MaxSessions \in Nat BY HttpAssumption
  <2>5. IsFiniteSet(Reserved)' /\ Cardinality(Reserved)' <= MaxSessions
    BY <2>2, <2>3, <2>4, OneMore DEF HttpInv, WithinLimits
  <2>. QED BY <2>1, <2>5 DEF HttpInv, WithinLimits
<1>8. RequestFits(r)' BY <1>3, <1>6, HttpAssumption DEF RequestFits, Handling
<1>9. r \in InFlight' BY <1>3 DEF InFlight
<1>10. session'[s].active <= MaxActive BY <1>5, <1>6, HttpAssumption
<1>. QED BY <1>1, <1>3, <1>4, <1>6, <1>7, <1>8, <1>9, <1>10, PlaceKeeps DEF HttpTyped

\* Each end of a handler is one answer, and knows what became of the operation.
LEMMA HandlerAnswers ==
  ASSUME HttpInv, NEW r \in HttpRequests,
         \/ Repel(r) \/ BodyFails(r) \/ Duplicate(r) \/ HandleFails(r) \/ AbandonRequest(r)
         \/ ReplyTo(r) \/ Reject(r) \/ Delete(r)
  PROVE  \E answer \in {"done", "refused", "unknown"}, D \in SUBSET HttpSessionSet :
            /\ Respond(r, answer, D) /\ (r \in InFlight \/ request[r].pc = "idle")
            /\ request[r].op = "running" => request[r].session \in D
            /\ answer = "refused" => request[r].op = "none"
<1>0. RequestFits(r) /\ request[r].session \in HttpSessionSet \cup {NoSession}
  BY DEF HttpInv, HttpTyped, HttpRequest
<1>. DEFINE Goal(answer, D) ==
       /\ answer \in {"done", "refused", "unknown"} /\ D \in SUBSET HttpSessionSet
       /\ Respond(r, answer, D) /\ (r \in InFlight \/ request[r].pc = "idle")
       /\ request[r].op = "running" => request[r].session \in D
       /\ answer = "refused" => request[r].op = "none"
     mine == {request[r].session}
<1>1. CASE Repel(r)
  <2>1. Goal("refused", {}) BY <1>0, <1>1 DEF Repel, RequestFits
  <2>. QED BY <2>1
<1>2. CASE BodyFails(r)
  <2>1. Goal("unknown", {}) \/ Goal("refused", {}) BY <1>0, <1>2 DEF BodyFails, RequestFits, InFlight
  <2>. QED BY <2>1
<1>3. CASE Duplicate(r)
  <2>1. Goal("refused", {}) BY <1>0, <1>3 DEF Duplicate, RequestFits, InFlight
  <2>. QED BY <2>1
<1>4. CASE HandleFails(r)
  <2>1. Goal("refused", mine) \/ Goal("unknown", mine)
    BY <1>0, <1>4 DEF HandleFails, RequestFits, InFlight, Handling
  <2>. QED BY <2>1
<1>5. CASE AbandonRequest(r)
  <2>1. Goal("unknown", mine) BY <1>0, <1>5 DEF AbandonRequest, RequestFits, InFlight, Handling
  <2>. QED BY <2>1
<1>6. CASE ReplyTo(r)
  <2>1. Goal("done", {}) BY <1>0, <1>6 DEF ReplyTo, InFlight
  <2>. QED BY <2>1
<1>7. CASE Reject(r)
  <2>1. Goal("refused", {}) \/ Goal("refused", mine)
    BY <1>0, <1>7 DEF Reject, RequestFits, InFlight, Handling
  <2>. QED BY <2>1
<1>8. CASE Delete(r)
  <2>1. Goal("done", mine) BY <1>0, <1>8 DEF Delete, RequestFits, InFlight, Handling
  <2>. QED BY <2>1
<1>. QED BY <1>1, <1>2, <1>3, <1>4, <1>5, <1>6, <1>7, <1>8

\* Every step of the server keeps the invariant.
LEMMA HttpStep == ASSUME HttpInv, [HttpNext]_httpVars PROVE HttpInv'
<1>0. request \in [HttpRequests -> HttpRequest] /\ session \in [HttpSessionSet -> HttpSession]
  BY DEF HttpInv, HttpTyped
<1>1. CASE UNCHANGED httpVars \/ Listen
  <2>1. request' = request /\ session' = session BY <1>1 DEF httpVars, Listen
  <2>. QED BY <2>1 DEF HttpInv, HttpTyped, WithinLimits, RequestFits, SessionFits, InFlight, Reserved, Holders, Handling
<1>2. CASE CloseServer
  <2>1. session' = Ended(session, Reserved) /\ Reserved \subseteq HttpSessionSet BY <1>2 DEF CloseServer, Reserved
  <2>2. \A q \in HttpRequests : request'[q] \in HttpRequest /\ request'[q].session = request[q].session
          /\ request'[q].kind = request[q].kind /\ request'[q].pc = request[q].pc /\ request'[q].op = request[q].op
    <3>1. \A q \in HttpRequests : /\ request[q] \in HttpRequest
                                  /\ request'[q] \in {request[q], [request[q] EXCEPT !.aborted = TRUE]}
      BY <1>0, <1>2 DEF CloseServer
    <3>. QED
      <4> SUFFICES ASSUME NEW q \in HttpRequests
                   PROVE  /\ request'[q] \in HttpRequest /\ request'[q].session = request[q].session
                          /\ request'[q].kind = request[q].kind /\ request'[q].pc = request[q].pc
                          /\ request'[q].op = request[q].op
        OBVIOUS
      <4>. PICK old, new : old = request[q] /\ new = request'[q] OBVIOUS
      <4>1. old \in HttpRequest /\ new \in {old, [old EXCEPT !.aborted = TRUE]} BY <3>1
      <4>. QED BY <4>1, AbortedIs
  <2>3. request' \in [HttpRequests -> HttpRequest] BY <1>2, <2>2 DEF CloseServer
  <2>. QED BY <2>1, <2>2, <2>3, EndingKeeps
<1>3. ASSUME NEW s \in HttpSessionSet, ExpireIdle(s) PROVE HttpInv'
  <2>1. session' = Ended(session, {s}) /\ request' = Interrupted(request, {s}) BY <1>3 DEF ExpireIdle
  <2>2. \A q \in HttpRequests : request'[q] \in HttpRequest /\ request'[q].session = request[q].session
          /\ request'[q].kind = request[q].kind /\ request'[q].pc = request[q].pc /\ request'[q].op = request[q].op
    <3>1. \A q \in HttpRequests : /\ request[q] \in HttpRequest
                                  /\ request'[q] \in {request[q], [request[q] EXCEPT !.aborted = TRUE]}
      BY <1>0, <2>1 DEF Interrupted
    <3>. QED
      <4> SUFFICES ASSUME NEW q \in HttpRequests
                   PROVE  /\ request'[q] \in HttpRequest /\ request'[q].session = request[q].session
                          /\ request'[q].kind = request[q].kind /\ request'[q].pc = request[q].pc
                          /\ request'[q].op = request[q].op
        OBVIOUS
      <4>. PICK old, new : old = request[q] /\ new = request'[q] OBVIOUS
      <4>1. old \in HttpRequest /\ new \in {old, [old EXCEPT !.aborted = TRUE]} BY <3>1
      <4>. QED BY <4>1, AbortedIs
  <2>3. request' \in [HttpRequests -> HttpRequest] BY <2>1, <2>2 DEF Interrupted
  <2>. QED BY <2>1, <2>2, <2>3, EndingKeeps
<1>4. ASSUME NEW r \in HttpRequests,
             Repel(r) \/ HandlerStep(r) \/ OperationEnds(r) \/ Abort(r)
               \/ (\E k \in {"initialize", "call", "delete"}, s \in HttpSessionSet \cup {NoSession} : Admit(r, k, s))
      PROVE  HttpInv'
  <2>1. CASE \/ Repel(r) \/ BodyFails(r) \/ Duplicate(r) \/ HandleFails(r) \/ AbandonRequest(r)
             \/ ReplyTo(r) \/ Reject(r) \/ Delete(r)
    BY <2>1, HandlerAnswers, RespondKeepsAll
  <2>2. CASE BodyRead(r) \/ Handle(r) BY <2>2, ReadKeeps
  <2>3. CASE \E s \in HttpSessionSet : Create(r, s) BY <2>3, CreateKeeps
  <2>4. CASE Operate(r) \/ OperationEnds(r) \/ NameSession(r) \/ Abort(r) BY <2>4, OperationKeeps
  <2>5. CASE \E k \in {"initialize", "call", "delete"}, s \in HttpSessionSet \cup {NoSession} : Admit(r, k, s)
    BY <2>5, AdmitKeeps
  <2>. QED BY <1>4, <2>1, <2>2, <2>3, <2>4, <2>5 DEF HandlerStep
<1>5. ASSUME NEW s \in HttpSessionSet,
             (\E o \in {"ready", "failed"} : Factory(s, o)) \/ Drain(s) \/ Dispose(s) \/ Age(s)
      PROVE  HttpInv'
  BY <1>5, SessionKeeps
<1>. QED BY <1>1, <1>2, <1>3, <1>4, <1>5 DEF HttpNext

\* The server (http-server.mjs, http-session.mjs) keeps its count of places, however
\* requests come, fail, are aborted or outlive their client.
THEOREM HttpInvariant == HttpSpec => []HttpInv
<1>1. HttpInv /\ [HttpNext]_httpVars => HttpInv' BY HttpStep
<1>. QED BY HttpStarts, <1>1, PTL DEF HttpSpec

\* No place is lost or given twice, no session ends under a request that holds it, and
\* a reservation goes only when neither an operation nor a factory can use its engine
\* (http-server.mjs:73, :103, :107; http-session.mjs:80).
THEOREM SoundSessions == HttpSpec => []SessionsAreSound
<1>1. ASSUME HttpInv PROVE SessionsAreSound
  <2>1. HttpTyped /\ WithinLimits BY <1>1 DEF HttpInv
  <2>2. ASSUME NEW s \in HttpSessionSet
        PROVE  /\ session[s].active = Cardinality(Holders(s)) /\ session[s].active <= MaxActive
               /\ session[s].mapped => s \in Reserved
               /\ session[s].state \in {"disposing", "disposed"} =>
                    Running(s) = {} /\ session[s].engine # "pending"
               /\ session[s].state = "open" => \A r \in Running(s) : request[r].pc = "transport"
    BY <1>1 DEF HttpInv, SessionFits, RequestFits, Running
  <2>. QED BY <2>1, <2>2 DEF SessionsAreSound, HttpTyped, WithinLimits
<1>. QED BY <1>1, HttpInvariant, PTL

\* Only the end of its handler answers a request.
LEMMA AnswersOnce ==
  ASSUME HttpInv, [HttpNext]_httpVars, NEW r \in HttpRequests,
         request[r].answer = "none", request'[r].answer = "refused"
  PROVE  request[r].op = "none"
<1>0. request \in [HttpRequests -> HttpRequest] BY DEF HttpInv, HttpTyped
<1>1. SUFFICES ASSUME request'[r].answer # request[r].answer PROVE request[r].op = "none" OBVIOUS
<1>2. CASE UNCHANGED httpVars \/ Listen BY <1>1, <1>2 DEF httpVars, Listen
<1>3. CASE CloseServer BY <1>0, <1>1, <1>3 DEF CloseServer, HttpRequest
<1>4. ASSUME NEW s \in HttpSessionSet, ExpireIdle(s) PROVE FALSE
  BY <1>0, <1>1, <1>4 DEF ExpireIdle, Interrupted, HttpRequest
<1>5. ASSUME NEW s \in HttpSessionSet,
             (\E o \in {"ready", "failed"} : Factory(s, o)) \/ Drain(s) \/ Dispose(s) \/ Age(s)
      PROVE  FALSE
  BY <1>1, <1>5 DEF Factory, Drain, Dispose, Age
<1>6. ASSUME NEW q \in HttpRequests,
             \/ BodyRead(q) \/ Handle(q) \/ (\E s \in HttpSessionSet : Create(q, s))
             \/ Operate(q) \/ OperationEnds(q) \/ NameSession(q) \/ Abort(q)
             \/ (\E k \in {"initialize", "call", "delete"}, s \in HttpSessionSet \cup {NoSession} : Admit(q, k, s))
      PROVE  FALSE
  <2>1. CASE BodyRead(q) \/ Handle(q) BY <1>0, <1>1, <2>1 DEF BodyRead, Handle, HttpRequest
  <2>2. ASSUME NEW s \in HttpSessionSet, Create(q, s) PROVE FALSE BY <1>0, <1>1, <2>2 DEF Create, HttpRequest
  <2>3. CASE Operate(q) BY <1>0, <1>1, <2>3 DEF Operate, HttpRequest
  <2>4. CASE OperationEnds(q) \/ NameSession(q) BY <1>0, <1>1, <2>4 DEF OperationEnds, NameSession, HttpRequest
  <2>5. CASE Abort(q) BY <1>0, <1>1, <2>5 DEF Abort, HttpRequest
  <2>6. ASSUME NEW k \in {"initialize", "call", "delete"}, NEW s \in HttpSessionSet \cup {NoSession}, Admit(q, k, s)
        PROVE  FALSE
    BY <1>0, <1>1, <2>6 DEF Admit, HttpRequest
  <2>. QED BY <1>6, <2>1, <2>2, <2>3, <2>4, <2>5, <2>6
<1>7. ASSUME NEW q \in HttpRequests,
             \/ Repel(q) \/ BodyFails(q) \/ Duplicate(q) \/ HandleFails(q) \/ AbandonRequest(q)
             \/ ReplyTo(q) \/ Reject(q) \/ Delete(q)
      PROVE  request[r].op = "none"
  <2>1. PICK answer \in {"done", "refused", "unknown"}, D \in SUBSET HttpSessionSet :
            /\ Respond(q, answer, D) /\ (answer = "refused" => request[q].op = "none")
    BY <1>7, HandlerAnswers
  <2>. DEFINE R == [request EXCEPT ![q].pc = "answered", ![q].answer = answer, ![q].aborted = FALSE]
  <2>2. request' = Interrupted(R, D) BY <2>1 DEF Respond
  <2>3. R[r] \in HttpRequest /\ R[r].answer = IF q = r THEN answer ELSE request[r].answer BY ZenonT(40), <1>0 DEF HttpRequest
  <2>. HIDE DEF R
  <2>4. request'[r].answer = R[r].answer
    <3>1. request'[r] = R[r] \/ request'[r] = [R[r] EXCEPT !.aborted = TRUE] BY <2>2 DEF Interrupted
    <3>. QED BY <2>3, <3>1 DEF HttpRequest
  <2>. QED BY <1>1, <2>1, <2>3, <2>4
<1>. QED BY <1>2, <1>3, <1>4, <1>5, <1>6, <1>7 DEF HttpNext, HandlerStep

\* A request that is answered with "refused" never began its operation, so that its
\* client may send it again.
THEOREM RefusedUndone == HttpSpec => RefusedIsUndone
<1>1. HttpInv /\ [HttpNext]_httpVars =>
        [\A r \in HttpRequests :
           request[r].answer = "none" /\ request'[r].answer = "refused" => request[r].op = "none"]_httpVars
  BY AnswersOnce
<1>. QED BY <1>1, HttpInvariant, PTL DEF HttpSpec, RefusedIsUndone
-----------------------------------------------------------------------------
\* A supervisor that waits for a child it did not tell to end has no rotation due.
SupervisorFits ==
  /\ sup \in [loop : {"test", "clear", "wait", "ended", "failed"}, stopping : BOOLEAN, rotation : BOOLEAN,
              child : {"none", "starting", "ready", "dying", "gone"}, told : BOOLEAN]
  /\ sup.loop = "wait" /\ ~sup.stopping => (sup.rotation <=> sup.told)
\* Nobody knows a gateway that does not exist yet; the admin works with the token
\* it has read; and it creates a session only where it found none.
AdminFits ==
  /\ gateways \in Gateways /\ tokenFile \in 0..gateways /\ made \in [Gateways -> 0..1]
  /\ \A g \in Gateways : g > gateways => made[g] = 0
  /\ admin \in Admin /\ admin.now <= gateways /\ admin.token <= gateways
  /\ admin.session \in {0, admin.token}
  /\ admin.at \in {"list", "create", "ticket"} => admin.now = admin.token
  /\ admin.at = "create" /\ admin.now = gateways => made[gateways] = 0
  /\ admin.at = "ticket" => admin.session = admin.now
\* The inductive invariant, of two parts that share nothing.
GatewayInv == SupervisorFits /\ AdminFits

\* Before the first gateway there is nothing to agree on.
LEMMA GatewayStarts == GatewayInit => GatewayInv
BY GatewayAssumption DEF GatewayInit, GatewayInv, SupervisorFits, AdminFits, Gateways, Admin

\* The supervisor's part of a step.
LEMMA SupervisorKeeps == ASSUME SupervisorFits, [GatewayNext]_gatewayVars PROVE SupervisorFits'
<1>. USE DEF SupervisorFits
<1>1. CASE Test BY <1>1 DEF Test
<1>2. CASE Replace BY <1>2 DEF Replace, Spawned
<1>3. CASE Exit BY <1>3 DEF Exit
<1>4. CASE Signal
  <2>1. PICK flag \in {"stopping", "rotation"} :
          sup' = [sup EXCEPT ![flag] = TRUE, !.child = Killed, !.told = (sup.loop = "wait")]
    BY <1>4 DEF Signal
  <2>2. Killed \in {"none", "starting", "ready", "dying", "gone"} BY DEF Killed
  <2>3. CASE flag = "stopping" BY <2>1, <2>2, <2>3
  <2>4. CASE flag = "rotation" BY <2>1, <2>2, <2>4
  <2>. QED BY <2>3, <2>4
<1>5. CASE GatewayReady BY <1>5 DEF GatewayReady
<1>6. CASE GatewayEnds BY <1>6 DEF GatewayEnds
<1>7. CASE UNCHANGED sup BY <1>7
<1>. QED BY <1>1, <1>2, <1>3, <1>4, <1>5, <1>6, <1>7
     DEF GatewayNext, SupervisorStep, AdminStep, Bootstrap, Serve, ReadToken, List, CreateSession, Ticket,
         RequestFails, gatewayVars

\* What becomes of the admin's record.
LEMMA AdminSettled ==
  ASSUME admin \in Admin, AdminSettles("failed") \/ AdminSettles("ticket")
  PROVE  /\ admin' \in Admin /\ admin'.at = "idle" /\ admin'.now = 0
         /\ admin'.token = admin.token /\ admin'.session = admin.session
<1>1. 0 \in Gateways BY GatewayAssumption DEF Gateways
<1>2. admin' = [admin EXCEPT !.at = "idle", !.now = 0] BY DEF AdminSettles
<1>. QED BY <1>1, <1>2 DEF Admin
\* ... and what it is once a token was read.
LEMMA AdminFound ==
  ASSUME admin \in Admin, NEW n \in Gateways, NEW s \in Gateways, NEW at \in {"list", "ticket"},
         admin' = [admin EXCEPT !.now = n, !.token = n, !.session = s, !.at = at]
  PROVE  admin' \in Admin /\ admin'.at = at /\ admin'.now = n /\ admin'.token = n /\ admin'.session = s
BY DEF Admin

\* What a step does with the sessions that the gateways have.
LEMMA AdminKeeps == ASSUME AdminFits, [GatewayNext]_gatewayVars PROVE AdminFits'
<1>. USE GatewayAssumption DEF AdminFits, Gateways
<1>1. CASE Test \/ Signal \/ Exit \/ GatewayEnds \/ (\E v \in Viewers, t \in BOOLEAN : Bootstrap(v, t)) \/ UNCHANGED gatewayVars
  BY <1>1 DEF Test, Signal, Exit, GatewayEnds, Bootstrap, gatewayVars, adminVars
<1>2. CASE Replace BY <1>2 DEF Replace, adminVars, Admin
<1>3. CASE GatewayReady BY <1>3 DEF GatewayReady, adminVars
<1>4. ASSUME NEW v \in Viewers, Serve(v) PROVE AdminFits' BY <1>4 DEF Serve, Admin
<1>0. ASSUME AdminSettles("failed") \/ AdminSettles("ticket")
      PROVE  /\ admin' \in Admin /\ admin'.at = "idle" /\ admin'.now = 0
             /\ admin'.token = admin.token /\ admin'.session = admin.session
  BY <1>0, AdminSettled
<1>5. CASE ReadToken
  <2>1. CASE tokenFile = 0 BY <1>0, <1>5, <2>1 DEF ReadToken
  <2>2. CASE tokenFile # 0
    <3>. DEFINE s == IF Cached THEN admin.session ELSE 0
               at == IF Cached THEN "ticket" ELSE "list"
    <3>1. admin' = [admin EXCEPT !.now = tokenFile, !.token = tokenFile, !.session = s, !.at = at]
      BY <1>5, <2>2 DEF ReadToken
    <3>2. s \in {0, tokenFile} /\ at \in {"ticket", "list"} /\ (at = "ticket" => s = tokenFile)
      BY DEF Cached, Admin
    <3>. HIDE DEF s, at
    <3>3. admin' \in Admin /\ admin'.now = tokenFile /\ admin'.token = tokenFile /\ admin'.session = s /\ admin'.at = at
      <4>1. admin \in Admin OBVIOUS
      <4>2. s \in Gateways /\ tokenFile \in Gateways /\ at \in {"list", "ticket"} BY <3>2
      <4>. QED BY <3>1, <4>1, <4>2, AdminFound
    <3>. QED BY <1>5, <3>2, <3>3 DEF ReadToken
  <2>. QED BY <2>1, <2>2
<1>6. ASSUME admin' = Adopted
      PROVE  /\ admin' \in Admin /\ admin'.at = "ticket" /\ admin'.now = admin.now
             /\ admin'.token = admin.token /\ admin'.session = gateways
  BY <1>6 DEF Adopted, Admin
<1>7. CASE List
  <2>1. CASE made[gateways] > 0 BY <1>6, <1>7, <2>1 DEF List, Answers
  <2>2. CASE ~(made[gateways] > 0) BY <1>7, <2>2 DEF List, Answers, Admin
  <2>. QED BY <2>1, <2>2
<1>10. ASSUME admin.at = "create", admin.now = gateways, made' = [made EXCEPT ![gateways] = @ + 1]
       PROVE  made' \in [Gateways -> 0..1] /\ \A g \in Gateways : g > gateways => made'[g] = 0
  BY <1>10
<1>8. CASE CreateSession \/ Ticket
  <2>1. CASE CreateSession BY <1>6, <1>10, <2>1 DEF CreateSession, Answers
  <2>2. CASE Ticket BY <1>0, <2>2 DEF Ticket
  <2>. QED BY <1>8, <2>1, <2>2
<1>9. CASE RequestFails
  <2>1. made' = made \/ (admin.at = "create" /\ admin.now = gateways /\ made' = [made EXCEPT ![gateways] = @ + 1])
    BY <1>9 DEF RequestFails, Answers
  <2>2. made' \in [Gateways -> 0..1] /\ \A g \in Gateways : g > gateways => made'[g] = 0 BY <1>10, <2>1
  <2>. QED BY <1>0, <1>9, <2>2 DEF RequestFails
<1>. QED BY <1>1, <1>2, <1>3, <1>4, <1>5, <1>7, <1>8, <1>9 DEF GatewayNext, SupervisorStep, AdminStep

\* Supervisor and admin keep their parts, however often gateways are replaced.
THEOREM GatewayInvariant == GatewaySpec => []GatewayInv
<1>1. GatewayInv /\ [GatewayNext]_gatewayVars => GatewayInv' BY SupervisorKeeps, AdminKeeps DEF GatewayInv
<1>. QED BY GatewayStarts, <1>1, PTL DEF GatewaySpec

\* A gateway never has two sessions of the viewers (gateway-admin.mjs:14), nor does the
\* admin ask one gateway for a ticket to another's session (:31).
THEOREM OneSession == GatewaySpec => []OneSessionEach
<1>1. GatewayInv => OneSessionEach BY DEF GatewayInv, AdminFits, OneSessionEach
<1>. QED BY <1>1, GatewayInvariant, PTL

\* The supervisor goes on after a gateway's exit exactly if the gateway was told to end,
\* so that no crash is taken for a rotation (gateway-process.mjs:32-39).
THEOREM ToldExits == GatewaySpec => ExitsAreTold
<1>1. ASSUME GatewayInv, [GatewayNext]_gatewayVars, sup.loop = "wait", sup'.loop # "wait"
      PROVE  (sup'.loop = "test") = (sup.told \/ sup.stopping)
  <2>1. SupervisorFits BY <1>1 DEF GatewayInv
  <2>2. Exit
    <3>1. ASSUME Signal PROVE FALSE
      <4>1. PICK flag \in {"stopping", "rotation"} :
              sup' = [sup EXCEPT ![flag] = TRUE, !.child = Killed, !.told = (sup.loop = "wait")]
        BY <3>1 DEF Signal
      <4>. QED BY <1>1, <2>1, <4>1 DEF SupervisorFits
    <3>2. CASE GatewayReady \/ GatewayEnds BY <1>1, <2>1, <3>2 DEF GatewayReady, GatewayEnds, SupervisorFits
    <3>. QED BY <1>1, <3>1, <3>2 DEF GatewayNext, SupervisorStep, Test, Replace, AdminStep, Bootstrap, Serve, ReadToken,
                    List, CreateSession, Ticket, RequestFails, gatewayVars
  <2>. QED BY <1>1, <2>1, <2>2 DEF Exit, SupervisorFits
<1>2. GatewayInv /\ [GatewayNext]_gatewayVars =>
        [sup.loop = "wait" /\ sup'.loop # "wait" => (sup'.loop = "test") = (sup.told \/ sup.stopping)]_gatewayVars
  BY <1>1
<1>. QED BY <1>2, GatewayInvariant, PTL DEF GatewaySpec, ExitsAreTold
-----------------------------------------------------------------------------
\* A view that is accepted has one source, numbers that the projection takes, and
\* a scope where it enters a frame.
Servable(c) ==
  CASE c.tool = "view" ->
         /\ Projectable(c) /\ (Bounded(c) => Covered(Coverage(c)))
         /\ "enterFrame" \in c.keys => Bounded(c)
         /\ Cardinality({"cursor", "state", "root"} \cap c.keys) <= 1
    [] c.tool = "act" -> /\ Reads(c.op) \subseteq c.keys /\ c.wait # {"text", "url"}
                         /\ (c.op = "new" \/ "view" \in c.target)
    [] c.tool = "flow" -> /\ Reads(c.op) \ {"ref"} \subseteq c.keys
                          /\ "ref" \in Reads(c.op) => "target" \in c.keys
                          /\ c.stages > 1 => 1 \in c.waits

\* A number that is accepted is in the range of its key, which is the range that
\* the code behind the door takes.
LEMMA NumbersFit ==
  ASSUME NEW c, ViewAccepted(c)
  PROVE  Projectable(c) /\ ("depth" \in c.keys => Value(Ranges.depth, c.end) \in 1..6)
<1>1. \A n \in DOMAIN Ranges : n \in c.keys => Within(Value(Ranges[n], c.end), Ranges[n]) BY DEF ViewAccepted
<1>2. DOMAIN Ranges = {"offset", "limit", "maxChars", "depth"} /\ DOMAIN Projection = {"offset", "limit", "maxChars"}
  BY DEF Ranges, Projection
<1>3. \A n \in DOMAIN Projection : Ranges[n] = Projection[n] BY DEF Ranges, Projection
<1>4. \A n \in DOMAIN Projection : /\ Projection[n][1] \in Int /\ Projection[n][2] \in Int /\ Assumed[n] \in Int
                                   /\ Projection[n][1] <= Assumed[n] /\ Assumed[n] <= Projection[n][2]
  BY DEF Projection, Assumed
<1>5. \A n \in DOMAIN Projection : Within(Assumed[n], Projection[n])
  <2>. HIDE DEF Projection
  <2>. QED BY <1>4 DEF Within
<1>6. Projectable(c) BY <1>1, <1>2, <1>3, <1>5 DEF Projectable
<1>7. Ranges.depth = <<1, 6>> BY DEF Ranges
<1>8. "depth" \in c.keys => Within(Value(Ranges.depth, c.end), Ranges.depth) BY <1>1, <1>2
<1>. QED BY <1>6, <1>7, <1>8 DEF Within

\* What the door lets through of each tool can be served.
LEMMA ViewServed == ASSUME NEW c \in Views, ViewAccepted(c) PROVE Servable(c)
<1>1. c.tool = "view" /\ c.keys \subseteq ViewKeys /\ c.end \in RangeEnds BY DEF Views, Few
<1>3. /\ "cursor" \in c.keys => c.keys \subseteq {"cursor", "limit", "maxChars"}
      /\ "enterFrame" \in c.keys => "root" \in c.keys
      /\ "depth" \in c.keys => "outline" \in c.keys
      /\ "state" \in c.keys => c.keys \cap {"since", "root", "view", "outline", "full", "depth", "enterFrame"} = {}
  BY DEF ViewAccepted
<1>4. "depth" \in c.keys => Value(Ranges.depth, c.end) \in 1..6 BY NumbersFit
<1>5. Projectable(c) BY NumbersFit
<1>6. Bounded(c) => Covered(Coverage(c))
  <2>. DEFINE depth == IF "outline" \notin c.keys THEN 0
                       ELSE IF "depth" \in c.keys THEN Value(Ranges.depth, c.end) ELSE 1
              v == Coverage(c)
  <2>1. depth \in 0..6 BY <1>4
  <2>2. v.depth = depth BY DEF Coverage
  <2>3. v.nodeLimit \in {256, 1024} BY DEF Coverage
  <2>4. v.enterFrame => v.scope # "page" BY <1>3 DEF Coverage
  <2>. HIDE DEF depth, v
  <2>5. Covered(v) BY <2>1, <2>2, <2>3, <2>4 DEF Covered
  <2>. QED BY <2>5 DEF v
<1>7. "enterFrame" \in c.keys => Bounded(c) BY <1>3 DEF Bounded
<1>8. Cardinality({"cursor", "state", "root"} \cap c.keys) <= 1
  <2>. DEFINE K == {"cursor", "state", "root"} \cap c.keys
  <2>1. K = {} \/ \E x \in {"cursor", "state", "root"} : K = {x} BY <1>3
  <2>. HIDE DEF K
  <2>2. Cardinality(K) = 0 \/ Cardinality(K) = 1 BY <2>1, FS_EmptySet, FS_Singleton
  <2>3. Cardinality(K) <= 1 BY <2>2
  <2>. QED BY <2>3 DEF K
<1>. QED BY <1>1, <1>5, <1>6, <1>7, <1>8 DEF Servable

\* An action brings each field that its operation reads, and one condition to wait for.
LEMMA ActServed == ASSUME NEW c \in Acts, ActAccepted(c) PROVE Servable(c)
<1>1. c.tool = "act" /\ c.op \in Alone \cup Inputs BY DEF Acts
<1>2. Reads(c.op) \subseteq Fields(c.op)[1]
  BY <1>1 DEF Alone, Inputs, Reads, Fields
<1>3. c.wait # {"text", "url"}
  <2>1. Cardinality({"text"}) = 1 /\ IsFiniteSet({"text"}) /\ "url" \notin {"text"} BY FS_Singleton
  <2>. DEFINE one == {"text"}
  <2>5. Cardinality(one) = 1 /\ IsFiniteSet(one) /\ "url" \notin one BY <2>1
  <2>. HIDE DEF one
  <2>4. Cardinality(one \cup {"url"}) = Cardinality(one) + 1 BY <2>5, FS_AddElement
  <2>2. Cardinality({"text"} \cup {"url"}) = 2 BY <2>4, <2>5 DEF one
  <2>3. {"text", "url"} = {"text"} \cup {"url"} OBVIOUS
  <2>. QED BY <2>2, <2>3 DEF ActAccepted, WaitAccepted
<1>. QED BY <1>1, <1>2, <1>3 DEF Servable, ActAccepted

\* A step of a flow does too, but for the ref, which it finds with its target.
LEMMA FlowServed == ASSUME NEW c \in Flows, FlowAccepted(c) PROVE Servable(c)
<1>1. c.tool = "flow" /\ c.op \in FlowOps /\ c.stages = 2 BY DEF Flows
<1>2. 1 \in c.waits BY <1>1 DEF FlowAccepted
<1>3. CASE c.op = "navigate" BY <1>1, <1>2, <1>3 DEF Servable, FlowAccepted, Reads
<1>4. CASE c.op # "navigate"
  <2>1. Reads(c.op) \subseteq Fields(c.op)[1] BY <1>1 DEF FlowOps, Reads, Fields
  <2>2. {"target"} \cup (Fields(c.op)[1] \ {"ref"}) \subseteq c.keys BY <1>4 DEF FlowAccepted
  <2>. QED BY <1>1, <1>2, <2>1, <2>2 DEF Servable
<1>. QED BY <1>3, <1>4

\* The inductive invariant: what was accepted is servable.
ShapeInv == shape.accepted => Servable(shape.call)
\* A call that PaneValidation accepts never fails for its shape where the code touches
\* the browser (validation.mjs:16).
THEOREM ServableCalls == ShapeSpec => []AcceptedIsServable
<1>1. ShapeInit => ShapeInv BY DEF ShapeInit, ShapeInv
<1>2. ASSUME ShapeInv, [ShapeNext]_shapeVars PROVE ShapeInv'
  <2>1. CASE UNCHANGED shapeVars BY <1>2, <2>1 DEF ShapeInv, shapeVars
  <2>2. ASSUME NEW c \in Views, Parse(c) PROVE ShapeInv'
    <3>1. c.tool = "view" BY DEF Views
    <3>. QED BY <2>2, <3>1, ViewServed DEF Parse, ShapeInv
  <2>3. ASSUME NEW c \in Acts, Parse(c) PROVE ShapeInv'
    <3>1. c.tool = "act" BY DEF Acts
    <3>. QED BY <2>3, <3>1, ActServed DEF Parse, ShapeInv
  <2>4. ASSUME NEW c \in Flows, Parse(c) PROVE ShapeInv'
    <3>1. c.tool = "flow" BY DEF Flows
    <3>. QED BY <2>4, <3>1, FlowServed DEF Parse, ShapeInv
  <2>. QED BY <1>2, <2>1, <2>2, <2>3, <2>4 DEF ShapeNext
<1>3. ShapeInv => AcceptedIsServable BY DEF ShapeInv, AcceptedIsServable, Servable
<1>. QED BY <1>1, <1>2, <1>3, PTL DEF ShapeSpec
-----------------------------------------------------------------------------
\* What a download, the disk and an upload are made of.
DownloadRecord == [pc : {"none", "saving", "linking", "linked", "broken", "complete", "failed"},
                   name : FileNames \cup {"none"}, index : 0..MaxIndex, staged : {"none", "part", "whole"}]
UploadRecord == [pc : {"path", "opened", "reading", "done", "refused"}, inode : Inodes \cup {0}, stat : Nat,
                 read : SUBSET Nat, at : Nat, bytes : Nat,
                 result : Seq([bytes : SUBSET Nat, inside : BOOLEAN]), wasInside : BOOLEAN]
FilesTyped ==
  /\ dir \in [FileNames \X (0..MaxIndex) -> Downloads \cup {"none", "host"}]
  /\ download \in [Downloads -> DownloadRecord]
  /\ records \in Seq(Downloads) /\ Len(records) <= KeptRecords
  /\ disk \in [inside : [Inodes -> BOOLEAN], version : [Inodes -> Nat], changes : Nat]
  /\ upload \in UploadRecord

\* A download has the one name it was linked under, and before the end a temporary
\* file, which is whole once it was saved.
DownloadFits(d) ==
  /\ download[d].pc # "none" => download[d].name \in FileNames
  /\ \A f \in FileNames \X (0..MaxIndex) :
       dir[f] = d <=> download[d].pc \in {"linked", "complete"} /\ f = ChosenFile(d)
  /\ download[d].pc \in {"linked", "complete"} => download[d].staged # "part"
  /\ download[d].pc \in {"none", "complete", "failed"} => download[d].staged = "none"
  /\ download[d].pc = "linking" => download[d].staged = "whole"
\* What was read of the file was written after it was looked at, if at all.
UploadFits ==
  /\ upload.pc \in {"opened", "reading"} =>
       upload.inode \in Inodes /\ upload.stat <= disk.version[upload.inode]
  /\ upload.pc = "reading" =>
       /\ upload.wasInside /\ upload.bytes + upload.inode.size <= MaxBytes
       /\ \A v \in upload.read : upload.stat <= v /\ v <= disk.version[upload.inode]
  /\ \A k \in DOMAIN upload.result : Cardinality(upload.result[k].bytes) <= 1 /\ upload.result[k].inside
  /\ upload.bytes <= MaxBytes
FilesInv == FilesTyped /\ (\A d \in Downloads : DownloadFits(d)) /\ UploadFits

\* Nothing is shared at first.
LEMMA FilesStart == FilesInit => FilesInv
<1> SUFFICES ASSUME FilesInit PROVE FilesInv OBVIOUS
<1>. USE FilesAssumption
<1>1. FilesTyped
  <2>1. dir \in [FileNames \X (0..MaxIndex) -> Downloads \cup {"none", "host"}] BY DEF FilesInit
  <2>2. download \in [Downloads -> DownloadRecord] BY DEF FilesInit, DownloadRecord
  <2>3. upload \in UploadRecord BY DEF FilesInit, UploadRecord
  <2>. QED BY <2>1, <2>2, <2>3 DEF FilesInit, FilesTyped
<1>2. \A d \in Downloads : DownloadFits(d) BY DEF FilesInit, DownloadFits
<1>3. UploadFits BY DEF FilesInit, UploadFits
<1>. QED BY <1>1, <1>2, <1>3 DEF FilesInv

\* A step of one download, after which it still fits, and which gives it no file
\* that was another's.
LEMMA DownloadSteps ==
  ASSUME FilesInv, NEW d \in Downloads, NEW q \in DownloadRecord,
         download' = [download EXCEPT ![d] = q], DownloadFits(d)',
         dir' \in [FileNames \X (0..MaxIndex) -> Downloads \cup {"none", "host"}],
         \A f \in FileNames \X (0..MaxIndex) : dir'[f] = dir[f] \/ (dir[f] = "none" /\ dir'[f] = d),
         records' \in Seq(Downloads) /\ Len(records') <= KeptRecords, UNCHANGED uploadVars
  PROVE  FilesInv'
<1>1. /\ download' \in [Downloads -> DownloadRecord] /\ \A e \in Downloads \ {d} : download'[e] = download[e]
  BY DEF FilesInv, FilesTyped
<1>2. disk' = disk /\ upload' = upload BY DEF uploadVars
<1>3. FilesTyped' BY <1>1, <1>2 DEF FilesInv, FilesTyped
<1>4. UploadFits' BY <1>2 DEF FilesInv, UploadFits
<1>5. ASSUME NEW e \in Downloads, e # d PROVE DownloadFits(e)'
  <2>1. DownloadFits(e) /\ download'[e] = download[e] BY <1>1, <1>5 DEF FilesInv
  <2>2. \A f \in FileNames \X (0..MaxIndex) : dir'[f] = e <=> dir[f] = e BY <1>5, FilesAssumption
  <2>. QED BY <2>1, <2>2 DEF DownloadFits, ChosenFile
<1>. QED BY <1>3, <1>4, <1>5 DEF FilesInv

\* The last few of a sequence that grows by one.
LEMMA LastFew ==
  ASSUME NEW S, NEW s \in Seq(S), NEW x \in S, NEW n \in Nat, Len(s) <= n
  PROVE  LET all == Append(s, x)  kept == IF Len(all) > n THEN Tail(all) ELSE all
         IN  kept \in Seq(S) /\ Len(kept) <= n
<1>. DEFINE all == Append(s, x)
<1>1. all \in Seq(S) /\ Len(all) = Len(s) + 1 /\ Len(s) \in Nat OBVIOUS
<1>. HIDE DEF all
<1>5. all # <<>> BY <1>1
<1>2. Tail(all) \in Seq(S) /\ Len(Tail(all)) = Len(all) - 1 BY <1>1, <1>5
<1>3. CASE Len(all) > n BY <1>1, <1>2, <1>3
<1>4. CASE ~(Len(all) > n) BY <1>1, <1>4
<1>. QED BY <1>3, <1>4 DEF all

\* Every step of a download, by which no file that is there changes.
LEMMA DownloadKeeps ==
  ASSUME FilesInv, NEW d \in Downloads,
         \/ \E n \in FileNames : Begin(d, n)
         \/ Saved(d) \/ Link(d) \/ Taken(d) \/ ForwardFails(d) \/ CleanUp(d)
  PROVE  FilesInv' /\ \A f \in DOMAIN dir : dir[f] # "none" => dir'[f] = dir[f]
<1>. DEFINE Files == FileNames \X (0..MaxIndex)
<1>0. /\ download[d] \in DownloadRecord /\ dir \in [Files -> Downloads \cup {"none", "host"}]
      /\ DownloadFits(d) /\ records \in Seq(Downloads) /\ Len(records) <= KeptRecords
      /\ download \in [Downloads -> DownloadRecord]
  BY DEF FilesInv, FilesTyped
<1>1. ASSUME NEW n \in FileNames, Begin(d, n) PROVE FilesInv' /\ dir' = dir
  <2>. DEFINE q == [pc |-> "saving", name |-> n, index |-> 0, staged |-> "part"]
  <2>1. q \in DownloadRecord BY FilesAssumption DEF DownloadRecord
  <2>2. download' = [download EXCEPT ![d] = q] /\ dir' = dir /\ UNCHANGED uploadVars BY <1>1 DEF Begin
  <2>3. records' \in Seq(Downloads) /\ Len(records') <= KeptRecords
    BY <1>0, <1>1, LastFew, FilesAssumption DEF Begin
  <2>4. download'[d] = q BY <1>0, <2>2
  <2>5. download[d].pc = "none" BY <1>1 DEF Begin
  <2>6. DownloadFits(d)' BY <1>0, <2>2, <2>4, <2>5 DEF DownloadFits
  <2>. HIDE DEF q
  <2>. QED BY <1>0, <2>1, <2>2, <2>3, <2>6, DownloadSteps
<1>2. ASSUME NEW q \in DownloadRecord, download' = [download EXCEPT ![d] = q], dir' = dir, records' = records,
             UNCHANGED uploadVars,
             q.pc # "none" => q.name \in FileNames,
             \/ /\ q.pc \notin {"linked", "complete"} /\ download[d].pc \notin {"linked", "complete"}
             \/ /\ q.pc \in {"linked", "complete"} /\ download[d].pc \in {"linked", "complete"}
                /\ q.name = download[d].name /\ q.index = download[d].index,
             q.pc \in {"linked", "complete"} => q.staged # "part",
             q.pc \in {"none", "complete", "failed"} => q.staged = "none",
             q.pc = "linking" => q.staged = "whole"
      PROVE  FilesInv' /\ dir' = dir
  <2>1. download'[d] = q BY <1>0, <1>2
  <2>2. DownloadFits(d)' BY <1>0, <1>2, <2>1 DEF DownloadFits, ChosenFile
  <2>. QED BY <1>0, <1>2, <2>2, DownloadSteps
<1>3. CASE Saved(d)
  <2>. PICK q : q = [download[d] EXCEPT !.pc = "linking", !.staged = "whole"] OBVIOUS
  <2>1. download' = [download EXCEPT ![d] = q] /\ download[d].pc = "saving" BY <1>0, <1>3 DEF Saved
  <2>2. q \in DownloadRecord /\ q.pc = "linking" /\ q.staged = "whole" /\ q.name = download[d].name
    BY <1>0 DEF DownloadRecord
  <2>3. q.name \in FileNames BY <1>0, <2>1, <2>2 DEF DownloadFits
  <2>. QED BY <1>2, <1>3, <2>1, <2>2, <2>3 DEF Saved
<1>4. CASE Link(d)
  <2>. PICK q : q = [download[d] EXCEPT !.pc = "linked"] OBVIOUS
  <2>1. /\ download' = [download EXCEPT ![d] = q] /\ download[d].pc = "linking" /\ dir[ChosenFile(d)] = "none"
        /\ dir' = [dir EXCEPT ![ChosenFile(d)] = d] /\ records' = records /\ UNCHANGED uploadVars
    BY <1>0, <1>4 DEF Link, Step, Free
  <2>2. q \in DownloadRecord /\ q.pc = "linked" /\ q.staged = download[d].staged /\ q.name = download[d].name
        /\ q.index = download[d].index
    BY <1>0 DEF DownloadRecord
  <2>3. download[d].name \in FileNames /\ download[d].index \in 0..MaxIndex BY <1>0, <2>1 DEF DownloadFits, DownloadRecord
  <2>4. ChosenFile(d) \in Files BY <2>3 DEF ChosenFile
  <2>5. dir' \in [Files -> Downloads \cup {"none", "host"}]
        /\ \A f \in Files : dir'[f] = IF f = ChosenFile(d) THEN d ELSE dir[f]
    BY <1>0, <2>1, <2>4
  <2>6. download'[d] = q BY <1>0, <2>1
  <2>7. ChosenFile(d)' = ChosenFile(d) BY <2>2, <2>6 DEF ChosenFile
  <2>8. \A f \in Files : dir[f] # d BY <1>0, <2>1 DEF DownloadFits
  <2>9. DownloadFits(d)'
    <3>1. \A f \in Files : dir'[f] = d <=> f = ChosenFile(d) BY <2>5, <2>8
    <3>2. download[d].staged = "whole" BY <1>0, <2>1 DEF DownloadFits
    <3>. QED BY <2>2, <2>3, <2>6, <2>7, <3>1, <3>2 DEF DownloadFits
  <2>10. FilesInv' BY <1>0, <2>1, <2>2, <2>5, <2>9, DownloadSteps
  <2>. QED BY <1>0, <2>1, <2>5, <2>10
<1>5. CASE Taken(d)
  <2>. PICK q : q = [download[d] EXCEPT !.index = download[d].index + 1] OBVIOUS
  <2>1. download' = [download EXCEPT ![d] = q] /\ download[d].pc = "linking" BY <1>0, <1>5 DEF Taken
  <2>2. download[d].index + 1 \in 0..MaxIndex
    <3>1. download[d].index \in 0..MaxIndex BY <1>0 DEF DownloadRecord
    <3>. QED BY <1>5, <3>1, FilesAssumption DEF Taken
  <2>3. q \in DownloadRecord /\ q.pc = download[d].pc /\ q.staged = download[d].staged /\ q.name = download[d].name
    BY <1>0, <2>2 DEF DownloadRecord
  <2>4. q.name \in FileNames /\ q.staged = "whole" BY <1>0, <2>1, <2>3 DEF DownloadFits
  <2>. QED BY <1>2, <1>5, <2>1, <2>3, <2>4 DEF Taken
<1>6. CASE ForwardFails(d)
  <2>. PICK q : q = [download[d] EXCEPT !.pc = "broken"] OBVIOUS
  <2>1. download' = [download EXCEPT ![d] = q] /\ download[d].pc \in {"saving", "linking"}
    BY <1>0, <1>6 DEF ForwardFails, Step
  <2>2. q \in DownloadRecord /\ q.pc = "broken" /\ q.name = download[d].name BY <1>0 DEF DownloadRecord
  <2>3. q.name \in FileNames BY <1>0, <2>1, <2>2 DEF DownloadFits
  <2>. QED BY <1>2, <1>6, <2>1, <2>2, <2>3 DEF ForwardFails
<1>7. CASE CleanUp(d)
  <2>. PICK pc \in {"complete", "failed"} : pc = (IF download[d].pc = "linked" THEN "complete" ELSE "failed") OBVIOUS
  <2>. PICK q : q = [download[d] EXCEPT !.pc = pc, !.staged = "none"] OBVIOUS
  <2>1. download' = [download EXCEPT ![d] = q] /\ download[d].pc \in {"linked", "broken"} BY <1>0, <1>7 DEF CleanUp
  <2>2. q \in DownloadRecord /\ q.pc = pc /\ q.staged = "none" /\ q.name = download[d].name /\ q.index = download[d].index
    BY <1>0 DEF DownloadRecord
  <2>3. q.name \in FileNames BY <1>0, <2>1, <2>2 DEF DownloadFits
  <2>. QED BY <1>2, <1>7, <2>1, <2>2, <2>3 DEF CleanUp
<1>. QED BY <1>1, <1>3, <1>4, <1>5, <1>6, <1>7

\* The host takes a name that is free.
LEMMA HostKeeps ==
  ASSUME FilesInv, NEW f \in FileNames \X (0..MaxIndex), HostFile(f)
  PROVE  FilesInv' /\ \A g \in DOMAIN dir : dir[g] # "none" => dir'[g] = dir[g]
<1>. DEFINE Files == FileNames \X (0..MaxIndex)
<1>1. /\ dir \in [Files -> Downloads \cup {"none", "host"}] /\ dir[f] = "none" /\ dir' = [dir EXCEPT ![f] = "host"]
      /\ download' = download /\ records' = records /\ disk' = disk /\ upload' = upload
  BY DEF FilesInv, FilesTyped, HostFile, uploadVars
<1>2. /\ dir' \in [Files -> Downloads \cup {"none", "host"}]
      /\ \A g \in Files : dir'[g] = IF g = f THEN "host" ELSE dir[g]
  BY <1>1
<1>3. FilesTyped' BY <1>1, <1>2 DEF FilesInv, FilesTyped
<1>4. ASSUME NEW d \in Downloads PROVE DownloadFits(d)'
  <2>1. \A g \in Files : dir'[g] = d <=> dir[g] = d BY <1>1, <1>2, FilesAssumption
  <2>2. DownloadFits(d) BY DEF FilesInv
  <2>. QED BY <1>1, <2>1, <2>2 DEF DownloadFits, ChosenFile
<1>5. UploadFits' BY <1>1 DEF FilesInv, UploadFits
<1>. QED BY <1>1, <1>2, <1>3, <1>4, <1>5 DEF FilesInv

\* A step of the upload, or of the host, that leaves the downloads alone.
LEMMA UploadSteps ==
  ASSUME FilesInv, upload' \in UploadRecord, UNCHANGED downloadVars, UploadFits',
         disk' \in [inside : [Inodes -> BOOLEAN], version : [Inodes -> Nat], changes : Nat]
  PROVE  FilesInv'
<1>1. dir' = dir /\ download' = download /\ records' = records BY DEF downloadVars
<1>2. \A d \in Downloads : DownloadFits(d)' BY <1>1 DEF FilesInv, DownloadFits, ChosenFile
<1>. QED BY <1>1, <1>2 DEF FilesInv, FilesTyped

\* One version of a file, or none.
LEMMA OneVersion == ASSUME NEW S, NEW v, S \subseteq {v} PROVE Cardinality(S) <= 1
<1>1. S = {} \/ S = {v} OBVIOUS
<1>2. Cardinality(S) = 0 \/ Cardinality(S) = 1 BY <1>1, FS_EmptySet, FS_Singleton
<1>. QED BY <1>2

\* Every step of the upload: what is checked after the reading was read of one version.
LEMMA UploadKeeps ==
  ASSUME FilesInv, Check \/ Read \/ Accept \/ \E i \in Inodes : Open(i)
  PROVE  FilesInv'
<1>. DEFINE Disk == [inside : [Inodes -> BOOLEAN], version : [Inodes -> Nat], changes : Nat]
            ReadPart == [bytes : SUBSET Nat, inside : BOOLEAN]
<1>0. upload \in UploadRecord /\ disk \in Disk /\ disk' = disk /\ UNCHANGED downloadVars /\ UploadFits
  BY DEF FilesInv, FilesTyped, Check, Read, Accept, Open, downloadVars
<1>1. ASSUME upload' \in UploadRecord, UploadFits' PROVE FilesInv' BY <1>0, <1>1, UploadSteps
<1>2. CASE Refuse
  <2>1. upload' = [upload EXCEPT !.pc = "refused"] BY <1>2 DEF Refuse, UpTo
  <2>2. /\ upload' \in UploadRecord /\ upload'.pc = "refused" /\ upload'.result = upload.result
        /\ upload'.bytes = upload.bytes
    BY <1>0, <2>1 DEF UploadRecord
  <2>. QED BY <1>0, <1>1, <2>2 DEF UploadFits
<1>3. ASSUME NEW i \in Inodes, upload' = [upload EXCEPT !.pc = "opened", !.inode = i, !.stat = disk.version[i]]
      PROVE  FilesInv'
  <2>. PICK v \in Nat : v = disk.version[i] BY <1>0
  <2>1. upload' = [upload EXCEPT !.pc = "opened", !.inode = i, !.stat = v] BY <1>3
  <2>2. /\ upload' \in UploadRecord /\ upload'.pc = "opened" /\ upload'.result = upload.result
        /\ upload'.bytes = upload.bytes /\ upload'.inode = i /\ upload'.stat = v
    BY <1>0, <2>1 DEF UploadRecord
  <2>. QED BY <1>0, <1>1, <2>2 DEF UploadFits
<1>4. ASSUME Check, ~Refuse PROVE FilesInv'
  <2>1. upload.pc = "opened" /\ upload.inode \in Inodes /\ upload.stat <= disk.version[upload.inode]
    BY <1>0, <1>4 DEF Check, UploadFits
  <2>2. /\ upload' = [upload EXCEPT !.pc = "reading", !.wasInside = TRUE, !.read = {}, !.at = 0]
        /\ upload.bytes + upload.inode.size <= MaxBytes
    <3>1. disk.inside[upload.inode] BY <1>4 DEF Check, Inside
    <3>2. disk.inside[upload.inode] \in BOOLEAN BY <1>0, <2>1
    <3>. QED BY <1>4, <3>1, <3>2 DEF Check, Inside
  <2>3. /\ upload' \in UploadRecord /\ upload'.pc = "reading" /\ upload'.result = upload.result
        /\ upload'.bytes = upload.bytes /\ upload'.inode = upload.inode /\ upload'.stat = upload.stat
        /\ upload'.wasInside /\ upload'.read = {}
    BY <1>0, <2>2 DEF UploadRecord
  <2>. QED BY <1>0, <1>1, <2>1, <2>2, <2>3 DEF UploadFits
<1>5. CASE Read
  <2>. PICK v : v = disk.version[upload.inode] OBVIOUS
  <2>1. upload.pc = "reading" /\ upload.inode \in Inodes /\ upload.stat <= v /\ v \in Nat
        /\ upload.stat \in Nat /\ upload.at + 1 \in Nat /\ upload.read \in SUBSET Nat
    BY <1>0, <1>5 DEF Read, UploadFits, UploadRecord
  <2>. PICK read \in SUBSET Nat : read = upload.read \cup {v} BY <2>1
  <2>. PICK at \in Nat : at = upload.at + 1 BY <2>1
  <2>2. upload' = [upload EXCEPT !.at = at, !.read = read] BY <1>0, <1>5 DEF Read, UploadRecord
  <2>3. /\ upload' \in UploadRecord /\ upload'.pc = "reading" /\ upload'.result = upload.result
        /\ upload'.bytes = upload.bytes /\ upload'.inode = upload.inode /\ upload'.stat = upload.stat
        /\ upload'.wasInside = upload.wasInside /\ upload'.read = read
    BY <1>0, <2>1, <2>2 DEF UploadRecord
  <2>4. \A w \in read : upload.stat <= w /\ w <= v BY <1>0, <2>1 DEF UploadFits
  <2>. QED BY <1>0, <1>1, <2>1, <2>3, <2>4 DEF UploadFits
<1>6. ASSUME Accept, ~Refuse PROVE FilesInv'
  <2>. PICK piece \in ReadPart : piece = [bytes |-> upload.read, inside |-> upload.wasInside] BY <1>0 DEF UploadRecord
  <2>. PICK result : result = Append(upload.result, piece) OBVIOUS
  <2>. PICK pc \in {"done", "path"} : pc = (IF Len(upload.result) + 1 = Paths THEN "done" ELSE "path") OBVIOUS
  <2>1. upload.pc = "reading" /\ disk.version[upload.inode] = upload.stat BY <1>6 DEF Accept, Unchanged
  <2>2. upload.inode \in Inodes /\ upload.wasInside /\ upload.bytes + upload.inode.size <= MaxBytes
    BY <1>0, <2>1 DEF UploadFits
  <2>. PICK bytes \in Nat : bytes = upload.bytes + upload.inode.size
    BY <1>0, <2>2, FilesAssumption DEF UploadRecord
  <2>3. upload' = [upload EXCEPT !.pc = pc, !.result = result, !.bytes = bytes]
    BY <1>0, <1>6 DEF Accept, UploadRecord
  <2>4. result \in Seq(ReadPart) /\ upload.result \in Seq(ReadPart) BY <1>0 DEF UploadRecord
  <2>5. /\ upload' \in UploadRecord /\ upload'.pc = pc /\ upload'.result = result /\ upload'.bytes = bytes
    BY <1>0, <2>3, <2>4 DEF UploadRecord
  <2>6. Cardinality(piece.bytes) <= 1 /\ piece.inside
    <3>1. \A v \in upload.read : v = upload.stat
      <4>1. upload.stat \in Nat /\ upload.read \in SUBSET Nat BY <1>0 DEF UploadRecord
      <4>. QED BY <1>0, <2>1, <4>1 DEF UploadFits
    <3>. QED BY <2>2, <3>1, OneVersion
  <2>7. \A k \in DOMAIN result : Cardinality(result[k].bytes) <= 1 /\ result[k].inside
    <3>1. /\ DOMAIN upload.result = 1..Len(upload.result) /\ DOMAIN result = 1..Len(upload.result) + 1
          /\ Len(upload.result) \in Nat /\ result[Len(upload.result) + 1] = piece
          /\ \A k \in 1..Len(upload.result) : result[k] = upload.result[k]
      BY <2>4
    <3>. QED BY <1>0, <2>6, <3>1 DEF UploadFits
  <2>. QED BY <1>0, <1>1, <2>2, <2>5, <2>7 DEF UploadFits
<1>. QED BY <1>2, <1>3, <1>4, <1>5, <1>6 DEF Check, Accept, Open

\* The host moves a file or writes it.
LEMMA MovesKeep == ASSUME FilesInv, NEW i \in Inodes, HostMoves(i) PROVE FilesInv'
<1>. DEFINE Disk == [inside : [Inodes -> BOOLEAN], version : [Inodes -> Nat], changes : Nat]
<1>0. upload \in UploadRecord /\ disk \in Disk /\ upload' = upload /\ UNCHANGED downloadVars /\ UploadFits
  BY DEF FilesInv, FilesTyped, HostMoves, downloadVars
<1>1. disk.inside[i] \in BOOLEAN /\ disk.version[i] \in Nat /\ disk.changes \in Nat BY <1>0
<1>. PICK n \in Nat : n = disk.changes + 1 BY <1>1
<1>. PICK v \in Nat : v = disk.version[i] + 1 BY <1>1
<1>. PICK in \in BOOLEAN : in = ~disk.inside[i] OBVIOUS
<1>2. disk' \in Disk /\ \A j \in Inodes : disk'.version[j] >= disk.version[j]
  <2>1. CASE disk' = [disk EXCEPT !.changes = n, !.inside[i] = in]
    <3>. PICK inside \in [Inodes -> BOOLEAN] : inside = [disk.inside EXCEPT ![i] = in] BY <1>0
    <3>1. disk' = [disk EXCEPT !.changes = n, !.inside = inside] BY <1>0, <2>1
    <3>2. disk' \in Disk /\ disk'.version = disk.version BY <1>0, <3>1
    <3>. QED BY <1>0, <3>2
  <2>2. CASE disk' = [disk EXCEPT !.changes = n, !.version[i] = v]
    <3>. PICK version \in [Inodes -> Nat] : version = [disk.version EXCEPT ![i] = v] BY <1>0
    <3>1. disk' = [disk EXCEPT !.changes = n, !.version = version] BY <1>0, <2>2
    <3>2. disk' \in Disk /\ disk'.version = version BY <1>0, <3>1
    <3>3. \A j \in Inodes : version[j] = IF j = i THEN v ELSE disk.version[j] BY <1>0
    <3>. QED BY <1>0, <1>1, <3>2, <3>3
  <2>. QED BY <1>0, <2>1, <2>2 DEF HostMoves
<1>3. UploadFits'
  <2>1. \A j \in Inodes : disk.version[j] \in Nat /\ disk'.version[j] \in Nat BY <1>0, <1>2
  <2>2. upload.stat \in Nat /\ upload.read \in SUBSET Nat BY <1>0 DEF UploadRecord
  <2>. QED BY <1>0, <1>2, <2>1, <2>2 DEF UploadFits
<1>. QED BY <1>0, <1>2, <1>3, UploadSteps

\* A download is in the directory whole, under one name, or not at all, and replaces
\* nothing; an upload is one version of a file that was in /shared, within the limit
\* (mcp-downloads.cjs:26-35, uploads.mjs:19-35).
THEOREM WholeFiles == FilesSpec => FilesAreWhole
<1>1. ASSUME FilesInv, [FilesNext]_filesVars
      PROVE  FilesInv' /\ \A f \in DOMAIN dir : dir[f] # "none" => dir'[f] = dir[f]
  <2>1. CASE UNCHANGED filesVars
    <3>1. downloadVars' = downloadVars /\ upload' = upload /\ disk' = disk BY <2>1 DEF filesVars, uploadVars
    <3>2. UploadFits' BY <1>1, <3>1 DEF FilesInv, UploadFits
    <3>. QED BY <1>1, <3>1, <3>2, UploadSteps DEF FilesInv, FilesTyped, downloadVars
  <2>2. ASSUME NEW d \in Downloads,
               \/ \E n \in FileNames : Begin(d, n)
               \/ Saved(d) \/ Link(d) \/ Taken(d) \/ ForwardFails(d) \/ CleanUp(d)
        PROVE  FilesInv' /\ \A f \in DOMAIN dir : dir[f] # "none" => dir'[f] = dir[f]
    BY <1>1, <2>2, DownloadKeeps
  <2>3. ASSUME NEW f \in FileNames \X (0..MaxIndex), HostFile(f)
        PROVE  FilesInv' /\ \A g \in DOMAIN dir : dir[g] # "none" => dir'[g] = dir[g]
    BY <1>1, <2>3, HostKeeps
  <2>4. CASE Check \/ Read \/ Accept \/ \E i \in Inodes : Open(i)
    BY <1>1, <2>4, UploadKeeps DEF Check, Read, Accept, Open, downloadVars
  <2>5. ASSUME NEW i \in Inodes, HostMoves(i) PROVE FilesInv' /\ dir' = dir
    BY <1>1, <2>5, MovesKeep DEF HostMoves, downloadVars
  <2>. QED BY <1>1, <2>1, <2>2, <2>3, <2>4, <2>5 DEF FilesNext
<1>2. ASSUME FilesInv PROVE DownloadsAreWhole
  <2>1. ASSUME NEW d \in Downloads
        PROVE  LET mine == {f \in DOMAIN dir : dir[f] = d}
               IN Cardinality(mine) = (IF download[d].pc \in {"linked", "complete"} THEN 1 ELSE 0)
                  /\ (mine # {} => download[d].pc \in {"linked", "complete"})
    <3>. DEFINE mine == {f \in DOMAIN dir : dir[f] = d}
    <3>0. DOMAIN dir = FileNames \X (0..MaxIndex) /\ DownloadFits(d) BY <1>2 DEF FilesInv, FilesTyped
    <3>1. CASE download[d].pc \in {"linked", "complete"}
      <4>1. download[d].name \in FileNames /\ download[d].index \in 0..MaxIndex
        BY <1>2, <3>0, <3>1 DEF DownloadFits, FilesInv, FilesTyped, DownloadRecord
      <4>2. ChosenFile(d) \in FileNames \X (0..MaxIndex) BY <4>1 DEF ChosenFile
      <4>3. mine = {ChosenFile(d)} BY <3>0, <3>1, <4>2 DEF DownloadFits
      <4>. HIDE DEF mine
      <4>4. Cardinality(mine) = 1 BY <4>3, FS_Singleton
      <4>. QED BY <3>1, <4>4 DEF mine
    <3>2. CASE download[d].pc \notin {"linked", "complete"}
      <4>1. mine = {} BY <3>0, <3>2 DEF DownloadFits
      <4>. HIDE DEF mine
      <4>2. Cardinality(mine) = 0 BY <4>1, FS_EmptySet
      <4>. QED BY <3>2, <4>1, <4>2 DEF mine
    <3>. QED BY <3>1, <3>2
  <2>2. \A d \in Downloads : DownloadFits(d) BY <1>2 DEF FilesInv
  <2>3. Len(records) <= KeptRecords BY <1>2 DEF FilesInv, FilesTyped
  <2>. QED BY <2>1, <2>2, <2>3 DEF DownloadsAreWhole, DownloadFits
<1>3. FilesInv => UploadsAreWhole BY DEF FilesInv, UploadFits, UploadsAreWhole
<1>4. FilesInv /\ [FilesNext]_filesVars => [\A f \in DOMAIN dir : dir[f] # "none" => dir'[f] = dir[f]]_filesVars
  BY <1>1
<1>5. FilesInv /\ [FilesNext]_filesVars => FilesInv' BY <1>1
<1>. QED BY FilesStart, <1>2, <1>3, <1>4, <1>5, PTL DEF FilesSpec, FilesAreWhole, NothingIsReplaced
-----------------------------------------------------------------------------
\* A sequence without repetitions that loses one element ...
LEMMA Removed ==
  ASSUME NEW S, NEW s \in Seq(S), IsInjective(s), NEW i \in 1..Len(s)
  PROVE  /\ RemoveAt(s, i) \in Seq(S) /\ IsInjective(RemoveAt(s, i))
         /\ ToSet(RemoveAt(s, i)) = ToSet(s) \ {s[i]} /\ Len(RemoveAt(s, i)) <= Len(s)
<1>0. PICK n \in Nat : n = Len(s) OBVIOUS
<1>a. DOMAIN s = 1..n /\ i \in 1..n /\ i \in Nat /\ s \in [1..n -> S] BY <1>0
<1>b. PICK front : front = SubSeq(s, 1, i - 1) OBVIOUS
<1>c. PICK back : back = SubSeq(s, i + 1, n) OBVIOUS
<1>d. PICK r : r = front \o back OBVIOUS
<1>1. front \in Seq(S) /\ Len(front) = i - 1 /\ \A k \in 1..i - 1 : front[k] = s[k] BY <1>0, <1>a, <1>b
<1>2. back \in Seq(S) /\ Len(back) = n - i /\ \A k \in 1..n - i : back[k] = s[k + i] BY <1>0, <1>a, <1>c
<1>3. /\ r \in Seq(S) /\ Len(r) = n - 1
      /\ \A k \in 1..n - 1 : r[k] = IF k < i THEN s[k] ELSE s[k + 1]
  <2>1. r \in Seq(S) /\ Len(r) = n - 1 BY <1>a, <1>1, <1>2, <1>d
  <2>2. ASSUME NEW k \in 1..n - 1 PROVE r[k] = IF k < i THEN s[k] ELSE s[k + 1]
    <3>1. CASE k < i
      <4>1. r[k] = front[k] BY <1>a, <1>1, <1>2, <1>d, <3>1
      <4>. QED BY <1>a, <1>1, <3>1, <4>1
    <3>2. CASE ~(k < i)
      <4>1. r[k] = back[k - (i - 1)] BY <1>a, <1>1, <1>2, <1>d, <3>2
      <4>2. k - (i - 1) \in 1..n - i /\ (k - (i - 1)) + i = k + 1 BY <1>a, <3>2
      <4>. QED BY <1>2, <3>2, <4>1, <4>2
    <3>. QED BY <3>1, <3>2
  <2>. QED BY <2>1, <2>2
<1>4. RemoveAt(s, i) = r BY <1>0, <1>b, <1>c, <1>d DEF RemoveAt
<1>5. DOMAIN r = 1..n - 1 BY <1>3
<1>6. IsInjective(r)
  <2>1. ASSUME NEW a \in 1..n - 1, NEW b \in 1..n - 1, r[a] = r[b] PROVE a = b
    BY <1>a, <1>3, <2>1 DEF IsInjective
  <2>. QED BY <1>5, <2>1 DEF IsInjective
<1>7. ToSet(r) = ToSet(s) \ {s[i]}
  <2>1. ASSUME NEW k \in 1..n - 1 PROVE \E j \in 1..n : j # i /\ r[k] = s[j]
    BY <1>a, <1>3
  <2>2. ASSUME NEW j \in 1..n, j # i PROVE \E k \in 1..n - 1 : r[k] = s[j]
    <3>1. CASE j < i BY <1>a, <1>3, <3>1
    <3>2. CASE j > i
      <4>1. j - 1 \in 1..n - 1 /\ ~(j - 1 < i) /\ (j - 1) + 1 = j BY <1>a, <3>2
      <4>. QED BY <1>3, <4>1
    <3>. QED BY <1>a, <2>2, <3>1, <3>2
  <2>3. \A j \in 1..n : j # i => s[j] # s[i] BY <1>a DEF IsInjective
  <2>. QED BY <1>a, <1>5, <2>1, <2>2, <2>3 DEF ToSet
<1>. QED BY <1>0, <1>3, <1>4, <1>6, <1>7

\* ... or grows by one.
LEMMA Grown ==
  ASSUME NEW S, NEW s \in Seq(S), IsInjective(s), NEW x \in S, x \notin ToSet(s)
  PROVE  /\ Append(s, x) \in Seq(S) /\ IsInjective(Append(s, x))
         /\ ToSet(Append(s, x)) = ToSet(s) \cup {x} /\ Len(Append(s, x)) = Len(s) + 1
<1>. PICK r : r = Append(s, x) OBVIOUS
<1>1. /\ r \in Seq(S) /\ Len(r) = Len(s) + 1 /\ Len(s) \in Nat /\ r[Len(s) + 1] = x
      /\ \A k \in 1..Len(s) : r[k] = s[k]
      /\ DOMAIN r = 1..Len(s) + 1 /\ DOMAIN s = 1..Len(s)
  OBVIOUS
<1>2. \A k \in 1..Len(s) : s[k] # x BY <1>1 DEF ToSet
<1>3. IsInjective(r) BY <1>1, <1>2 DEF IsInjective
<1>4. ToSet(r) = ToSet(s) \cup {x}
  <2>1. \A k \in DOMAIN r : r[k] \in ToSet(s) \cup {x} BY <1>1 DEF ToSet
  <2>2. \A k \in DOMAIN s : k \in DOMAIN r /\ r[k] = s[k] BY <1>1
  <2>3. Len(s) + 1 \in DOMAIN r BY <1>1
  <2>. QED BY <1>1, <2>1, <2>2, <2>3 DEF ToSet
<1>. QED BY <1>1, <1>3, <1>4

\* The first few of a set in some order.
LEMMA FirstFew ==
  ASSUME NEW S, IsFiniteSet(S), NEW order \in SetToSeqs(S), NEW n \in Nat
  PROVE  LET few == SubSeq(order, 1, IF Len(order) < n THEN Len(order) ELSE n)
         IN  few \in Seq(S) /\ IsInjective(few) /\ Len(few) <= n
<1>. PICK c \in Nat : c = Cardinality(S) BY FS_CardinalityType
<1>1. /\ order \in [1..c -> S] /\ \A i, j \in 1..c : i # j => order[i] # order[j]
  BY DEF SetToSeqs
<1>2. order \in Seq(S) /\ Len(order) = c BY <1>1
<1>. PICK k \in 0..c : k = (IF c < n THEN c ELSE n) OBVIOUS
<1>. PICK few : few = SubSeq(order, 1, k) OBVIOUS
<1>3. few \in Seq(S) /\ Len(few) = k /\ \A i \in 1..k : few[i] = order[i] BY <1>2
<1>4. DOMAIN few = 1..k BY <1>3
<1>5. IsInjective(few) BY <1>1, <1>3, <1>4 DEF IsInjective
<1>6. k <= n OBVIOUS
<1>. QED BY <1>2, <1>3, <1>5, <1>6

\* Of places in a sequence one is the first.
LEMMA Least == ASSUME NEW T, T \subseteq Nat, T # {} PROVE Min(T) \in T
<1>1. \A x, y \in Nat : <<y, x>> \in OpToRel(<, Nat) <=> y < x BY DEF OpToRel
<1>2. PICK R : (\A x, y \in Nat : <<y, x>> \in R <=> y < x) /\ IsWellFoundedOn(R, Nat)
  BY <1>1, NatLessThanWellFounded, Zenon
<1>3. PICK x \in T : \A y \in T : ~(<<y, x>> \in R) BY <1>2, WFMin, Zenon
<1>4. ASSUME NEW y \in T PROVE x <= y
  <2>1. x \in Nat /\ y \in Nat /\ ~(y < x) BY <1>2, <1>3, Zenon
  <2>. QED BY <2>1
<1>. QED BY <1>4 DEF Min

\* What the pages, the registry, the process and its operation are made of.
States == {"unborn", "open", "asked", "closing", "closed"}
SharedRecord == [process : {"starting", "up", "draining", "down"}, connected : BOOLEAN,
                 default : Pages \cup {NoPage}, missed : SUBSET Pages]
OpRecord == [kind : {"idle", "list", "create"}, title : [Pages -> {"none", "asked", "got", "turn", "gone"}],
             target : Pages \cup {NoPage},
             answer : {"none", "failed", "list", "refused", "created", "asked"},
             tabs : SUBSET Pages, marked : Pages \cup {NoPage}]
TabsTyped ==
  page \in [Pages -> States] /\ registry \in Seq(Pages) /\ shared \in SharedRecord /\ op \in OpRecord
\* The default is a tab as long as its page is open; what met a full registry was born.
DefaultFits ==
  /\ \A p \in shared.missed : page[p] # "unborn"
  /\ shared.process = "starting" => registry = <<>> /\ shared.default = NoPage
  /\ shared.default \in Pages => page[shared.default] # "unborn"
  /\ shared.connected /\ shared.default \in OpenPages => shared.default \in Tabs
\* What is listed has been open, and what is gone does not come back.
ListFits ==
  /\ op.kind = "list" => op.answer = "none"
  /\ \A p \in Pages : /\ op.title[p] # "none" => page[p] # "unborn"
                      /\ op.title[p] = "gone" => page[p] = "closed"
TabsInv == TabsTyped /\ TabsHold /\ DefaultFits /\ ListFits
\* A step that keeps all that and does as it should.
TabsStep == TabsInv' /\ Listing /\ DefaultStays

\* No page is a tab at first.
LEMMA TabsStart == TabsInit => TabsInv
<1> SUFFICES ASSUME TabsInit PROVE TabsInv OBVIOUS
<1>1. TabsTyped
  <2>1. page \in [Pages -> States] BY DEF TabsInit, States
  <2>2. Idle \in OpRecord BY TabsAssumption DEF Idle, OpRecord
  <2>3. shared \in SharedRecord BY DEF TabsInit, SharedRecord
  <2>. QED BY <2>1, <2>2, <2>3 DEF TabsInit, TabsTyped
<1>2. registry = <<>> /\ Len(registry) = 0 /\ DOMAIN registry = {} BY DEF TabsInit
<1>3. Tabs = {} /\ IsInjective(registry) BY <1>2 DEF Tabs, ToSet, IsInjective
<1>4. TabsHold BY <1>2, <1>3, TabsAssumption DEF TabsHold, TabsInit
<1>5. DefaultFits BY <1>2, TabsAssumption DEF DefaultFits, TabsInit, OpenPages
<1>6. ListFits BY DEF ListFits, TabsInit, Idle
<1>. QED BY <1>1, <1>4, <1>5, <1>6 DEF TabsInv

\* A step of the browser: pages are born and close for good, and the registry follows.
LEMMA BrowserMoves ==
  ASSUME TabsInv, page' \in [Pages -> States], registry' \in Seq(Pages), shared' \in SharedRecord,
         \A p \in Pages : /\ page[p] # "unborn" => page'[p] # "unborn"
                          /\ page[p] = "closed" => page'[p] = "closed",
         TabsHold', shared'.default = shared.default,
         \A p \in shared'.missed : page'[p] # "unborn",
         shared'.process = "starting" => shared.process = "starting" /\ registry' = registry,
         shared'.connected /\ shared.default \in OpenPages' => shared.default \in Tabs',
         \/ op' = op
         \/ \E p \in Pages : op' = [op EXCEPT !.target = p]
         \/ \E a \in {"none", "failed", "list", "refused", "created", "asked"} :
              op' = [Idle EXCEPT !.answer = a] /\ (op.kind = "list" => a # "list")
  PROVE  TabsStep
<1>0. TabsTyped /\ DefaultFits /\ ListFits BY DEF TabsInv
<1>. DEFINE Quiet == /\ op' \in OpRecord /\ (op'.kind = "list" => op'.answer = "none")
                     /\ op.kind = "list" => op'.answer # "list"
                     /\ \A p \in Pages : op'.title[p] \in {"none", op.title[p]}
<1>1. Quiet
  <2>1. CASE op' = op BY <1>0, <2>1 DEF TabsTyped, ListFits
  <2>2. ASSUME NEW p \in Pages, op' = [op EXCEPT !.target = p] PROVE Quiet
    <3>1. op' \in OpRecord /\ op'.kind = op.kind /\ op'.answer = op.answer /\ op'.title = op.title
      BY <1>0, <2>2 DEF TabsTyped, OpRecord
    <3>. QED BY <1>0, <3>1 DEF ListFits
  <2>3. ASSUME NEW a \in {"none", "failed", "list", "refused", "created", "asked"},
               op' = [Idle EXCEPT !.answer = a], op.kind = "list" => a # "list"
        PROVE  Quiet
    <3>1. /\ op' \in OpRecord /\ op'.kind = "idle" /\ op'.answer = a
          /\ \A p \in Pages : op'.title[p] = "none"
      BY <2>3, TabsAssumption DEF Idle, OpRecord
    <3>. QED BY <2>3, <3>1
  <2>. QED BY <2>1, <2>2, <2>3
<1>2. TabsTyped' BY <1>1 DEF TabsTyped
<1>3. DefaultFits' BY <1>0 DEF DefaultFits
<1>4. ListFits' BY <1>0, <1>1 DEF ListFits
<1>. QED BY <1>1, <1>2, <1>3, <1>4 DEF TabsStep, TabsInv, Listing, DefaultStays

\* The pages there are become tabs, as many as there is room for.
LEMMA StartKeeps == ASSUME TabsInv, StartTabs PROVE TabsStep
<1>0. TabsTyped /\ TabsHold /\ DefaultFits BY DEF TabsInv
<1>1. PICK order \in SetToSeqs(OpenPages) :
        /\ registry' = SubSeq(order, 1, IF Len(order) < MaxTabs THEN Len(order) ELSE MaxTabs)
        /\ shared' = [shared EXCEPT !.process = "up", !.missed = OpenPages \ ToSet(registry')]
  BY DEF StartTabs
<1>2. page' = page /\ op' = op /\ shared.process = "starting" BY DEF StartTabs
<1>3. OpenPages \subseteq Pages /\ IsFiniteSet(OpenPages) BY TabsAssumption, FS_Subset DEF OpenPages
<1>4. registry' \in Seq(OpenPages) /\ IsInjective(registry') /\ Len(registry') <= MaxTabs
  BY <1>1, <1>3, FirstFew, TabsAssumption
<1>5. registry' \in Seq(Pages) /\ ToSet(registry') \subseteq OpenPages BY <1>3, <1>4 DEF ToSet
<1>. PICK missed : missed = OpenPages \ ToSet(registry') OBVIOUS
<1>6. /\ shared' \in SharedRecord /\ shared'.process = "up" /\ shared'.missed = missed
      /\ shared'.default = shared.default
  BY <1>0, <1>1, <1>3 DEF TabsTyped, SharedRecord
<1>7. OpenPages' = OpenPages /\ Tabs' = ToSet(registry') BY <1>2 DEF OpenPages, Tabs
<1>8. TabsHold' BY <1>4, <1>5, <1>6, <1>7 DEF TabsHold
<1>9. shared.default \notin Pages BY <1>0, <1>2, TabsAssumption DEF DefaultFits
<1>10. \A p \in missed : page[p] # "unborn" BY DEF OpenPages
<1>. QED BY <1>0, <1>2, <1>3, <1>5, <1>6, <1>7, <1>8, <1>9, <1>10, BrowserMoves DEF TabsTyped

\* A page opens and becomes a tab, if there is room.
LEMMA OpensKeeps ==
  ASSUME TabsInv, NEW p \in Pages, Opens(p), shared.process # "starting",
         op' = op \/ op' = [op EXCEPT !.target = p]
  PROVE  TabsStep
<1>0. TabsTyped /\ TabsHold /\ DefaultFits BY DEF TabsInv
<1>1. page[p] = "unborn" /\ page' = [page EXCEPT ![p] = "open"] BY DEF Opens
<1>2. /\ page' \in [Pages -> States] /\ OpenPages' = OpenPages \cup {p} /\ p \notin OpenPages
      /\ \A q \in Pages : page'[q] = IF q = p THEN "open" ELSE page[q]
  BY <1>0, <1>1 DEF TabsTyped, States, OpenPages
<1>a. \A q \in Pages : /\ page[q] # "unborn" => page'[q] # "unborn"
                       /\ page[q] = "closed" => page'[q] = "closed"
  BY <1>1, <1>2
<1>3. p \notin Tabs /\ shared.default # p BY <1>0, <1>1, <1>2 DEF TabsHold, DefaultFits
<1>4. CASE Room /\ registry' = Append(registry, p) /\ shared' = shared
  <2>1. /\ registry' \in Seq(Pages) /\ IsInjective(registry') /\ Tabs' = Tabs \cup {p}
        /\ Len(registry') <= MaxTabs
    <3>1. Len(registry) \in Nat /\ Len(registry) < MaxTabs BY <1>0, <1>4 DEF TabsTyped, Room
    <3>. QED BY <1>0, <1>3, <1>4, <3>1, Grown, TabsAssumption DEF TabsTyped, TabsHold, Tabs
  <2>2. p \notin shared.missed BY <1>0, <1>1 DEF DefaultFits
  <2>3. TabsHold' BY <1>0, <1>2, <1>4, <2>1, <2>2 DEF TabsHold
  <2>4. shared.connected /\ shared.default \in OpenPages' => shared.default \in Tabs'
    BY <1>0, <1>2, <1>3, <2>1 DEF DefaultFits
  <2>5. \A q \in shared.missed : page'[q] # "unborn" BY <1>0, <1>2 DEF DefaultFits, TabsTyped, SharedRecord
  <2>. QED BY <1>0, <1>2, <1>a, <1>4, <2>1, <2>3, <2>4, <2>5, BrowserMoves DEF TabsTyped
<1>5. CASE registry' = registry /\ shared' = [shared EXCEPT !.missed = shared.missed \cup {p}]
  <2>. PICK missed : missed = shared.missed \cup {p} OBVIOUS
  <2>1. /\ shared' \in SharedRecord /\ shared'.process = shared.process /\ shared'.missed = missed
        /\ shared'.default = shared.default /\ shared'.connected = shared.connected
    BY <1>0, <1>5 DEF TabsTyped, SharedRecord
  <2>2. Tabs' = Tabs BY <1>5 DEF Tabs
  <2>3. TabsHold' BY <1>0, <1>2, <1>3, <1>5, <2>1, <2>2 DEF TabsHold
  <2>4. shared.connected /\ shared.default \in OpenPages' => shared.default \in Tabs'
    BY <1>0, <1>2, <1>3, <2>2 DEF DefaultFits
  <2>5. \A q \in missed : page'[q] # "unborn" BY <1>0, <1>2 DEF DefaultFits, TabsTyped, SharedRecord
  <2>. QED BY <1>0, <1>2, <1>a, <1>5, <2>1, <2>3, <2>4, <2>5, BrowserMoves DEF TabsTyped
<1>6. CASE registry' = registry /\ shared' = shared /\ shared.process # "up"
  <2>1. Tabs' = Tabs BY <1>6 DEF Tabs
  <2>2. TabsHold' BY <1>0, <1>2, <1>6, <2>1 DEF TabsHold
  <2>3. shared.connected /\ shared.default \in OpenPages' => shared.default \in Tabs'
    BY <1>0, <1>2, <1>3, <2>1 DEF DefaultFits
  <2>4. \A q \in shared.missed : page'[q] # "unborn" BY <1>0, <1>2 DEF DefaultFits, TabsTyped, SharedRecord
  <2>. QED BY <1>0, <1>2, <1>a, <1>6, <2>2, <2>3, <2>4, BrowserMoves DEF TabsTyped
<1>. QED BY <1>4, <1>5, <1>6 DEF Opens, Registered

\* A page asks, is kept, or begins to close: it is a tab as before.
LEMMA AsksKeep ==
  ASSUME TabsInv, NEW p \in Pages, NEW x \in {"open", "asked", "closing"},
         p \in OpenPages, page' = [page EXCEPT ![p] = x] \/ page' = page,
         UNCHANGED <<registry, shared>>,
         op' = op \/ \E a \in {"asked", "refused"} : CallEnds(a)
  PROVE  TabsStep
<1>0. TabsTyped /\ TabsHold /\ DefaultFits BY DEF TabsInv
<1>1. page[p] \in {"open", "asked", "closing"} BY DEF OpenPages
<1>2. /\ page' \in [Pages -> States]
      /\ \A q \in Pages : page'[q] = page[q] \/ (q = p /\ page'[q] \in {"open", "asked", "closing"})
  BY <1>0 DEF TabsTyped, States
<1>3. OpenPages' = OpenPages /\ Tabs' = Tabs BY <1>1, <1>2 DEF OpenPages, Tabs
<1>4. TabsHold' BY <1>0, <1>3 DEF TabsHold
<1>5. \A q \in shared.missed : q \in Pages /\ page'[q] # "unborn"
  BY <1>0, <1>1, <1>2 DEF TabsTyped, SharedRecord, DefaultFits
<1>. QED BY <1>0, <1>1, <1>2, <1>3, <1>4, <1>5, BrowserMoves DEF TabsTyped, DefaultFits, CallEnds

\* A page closes, and is no tab any more.
LEMMA CloseKeeps == ASSUME TabsInv, NEW p \in Pages, ClosePage(p) PROVE TabsStep
<1>0. TabsTyped /\ TabsHold /\ DefaultFits BY DEF TabsInv
<1>1. page[p] = "closing" /\ page' = [page EXCEPT ![p] = "closed"] /\ UNCHANGED <<shared, op>> BY DEF ClosePage
<1>2. /\ page' \in [Pages -> States] /\ OpenPages' = OpenPages \ {p}
      /\ \A q \in Pages : page'[q] = IF q = p THEN "closed" ELSE page[q]
  BY <1>0, <1>1 DEF TabsTyped, States, OpenPages
<1>. DEFINE Shorter == /\ registry' \in Seq(Pages) /\ IsInjective(registry')
                       /\ Tabs' = Tabs \ {p} /\ Len(registry') <= MaxTabs
<1>3. Shorter
  <2>1. ASSUME NEW i \in DOMAIN registry, registry[i] = p, registry' = RemoveAt(registry, i) PROVE Shorter
    <3>1. i \in 1..Len(registry) /\ Len(registry) \in Nat BY <1>0 DEF TabsTyped
    <3>2. Len(registry') \in Nat /\ Len(registry') <= Len(registry) /\ registry' \in Seq(Pages)
          /\ IsInjective(registry') /\ Tabs' = Tabs \ {p}
      BY <1>0, <2>1, <3>1, Removed DEF TabsTyped, TabsHold, Tabs
    <3>. QED BY <1>0, <3>1, <3>2, TabsAssumption DEF TabsHold
  <2>2. CASE p \notin Tabs /\ registry' = registry BY <1>0, <2>2 DEF TabsTyped, TabsHold, Tabs
  <2>3. (\E i \in DOMAIN registry : registry[i] = p /\ registry' = RemoveAt(registry, i))
        \/ (p \notin Tabs /\ registry' = registry)
    BY DEF ClosePage
  <2>. HIDE DEF Shorter
  <2>. QED BY <2>1, <2>2, <2>3
<1>4. TabsHold' BY <1>0, <1>1, <1>2, <1>3 DEF TabsHold
<1>5. \A q \in shared.missed : q \in Pages /\ page'[q] # "unborn"
  BY <1>0, <1>2 DEF TabsTyped, SharedRecord, DefaultFits
<1>6. shared.process = "starting" => registry' = registry
  <2>1. shared.process = "starting" => registry = <<>> /\ DOMAIN registry = {} BY <1>0 DEF DefaultFits
  <2>. QED BY <2>1 DEF ClosePage
<1>7. shared.connected /\ shared.default \in OpenPages' => shared.default \in Tabs' BY <1>0, <1>2, <1>3 DEF DefaultFits
<1>. QED BY <1>0, <1>1, <1>2, <1>3, <1>4, <1>5, <1>6, <1>7, BrowserMoves DEF TabsTyped

\* The browser is gone, or is left: there is no tab any more.
LEMMA EndsKeep == ASSUME TabsInv, Disconnect \/ Stop \/ Leave PROVE TabsStep
<1>0. TabsTyped /\ TabsHold /\ DefaultFits BY DEF TabsInv
<1>1. CASE Disconnect
  <2>1. /\ registry' = <<>> /\ op' = op /\ shared' = [shared EXCEPT !.connected = FALSE]
        /\ page' = [p \in Pages |-> IF p \in OpenPages THEN "closed" ELSE page[p]]
    BY <1>1 DEF Disconnect
  <2>2. /\ shared' \in SharedRecord /\ ~shared'.connected /\ shared'.process = shared.process
        /\ shared'.default = shared.default /\ shared'.missed = shared.missed
    BY <1>0, <2>1 DEF TabsTyped, SharedRecord
  <2>3. page' \in [Pages -> States] /\ \A p \in Pages : page'[p] = IF p \in OpenPages THEN "closed" ELSE page[p]
    BY <1>0, <2>1 DEF TabsTyped, States
  <2>4. OpenPages' = {} BY <1>0, <2>3 DEF OpenPages
  <2>5. Len(registry') = 0 /\ DOMAIN registry' = {} /\ registry' \in Seq(Pages) BY <2>1
  <2>6. TabsHold' BY <2>2, <2>4, <2>5, TabsAssumption DEF TabsHold, Tabs, ToSet, IsInjective
  <2>7. \A p \in shared.missed : p \in Pages /\ page'[p] # "unborn"
    BY <1>0, <2>3 DEF DefaultFits, TabsTyped, SharedRecord
  <2>8. \A p \in Pages : /\ page[p] # "unborn" => page'[p] # "unborn"
                         /\ page[p] = "closed" => page'[p] = "closed"
    BY <2>3
  <2>9. shared.process = "starting" => registry' = registry BY <1>0, <2>1 DEF DefaultFits
  <2>. QED BY <2>1, <2>2, <2>3, <2>5, <2>6, <2>7, <2>8, <2>9, BrowserMoves
<1>2. CASE Stop
  <2>1. shared' = [shared EXCEPT !.process = "draining"] /\ UNCHANGED <<page, registry, op>> BY <1>2 DEF Stop
  <2>2. /\ shared' \in SharedRecord /\ shared'.process = "draining" /\ shared'.connected = shared.connected
        /\ shared'.default = shared.default /\ shared'.missed = shared.missed
    BY <1>0, <2>1 DEF TabsTyped, SharedRecord
  <2>3. Tabs' = Tabs /\ OpenPages' = OpenPages BY <2>1 DEF Tabs, OpenPages
  <2>4. TabsHold' BY <1>0, <2>1, <2>2, <2>3 DEF TabsHold
  <2>. QED BY <1>0, <2>1, <2>2, <2>3, <2>4, BrowserMoves DEF TabsTyped, DefaultFits
<1>3. CASE Leave
  <2>. PICK a \in {"none", "failed", "list", "refused", "created", "asked"} :
         a = (IF op.kind = "idle" THEN op.answer ELSE "failed")
    BY <1>0 DEF TabsTyped, OpRecord
  <2>1. /\ shared' = [shared EXCEPT !.process = "down", !.connected = FALSE]
        /\ registry' = <<>> /\ page' = page /\ op' = [Idle EXCEPT !.answer = a]
    BY <1>3 DEF Leave, CallEnds
  <2>2. /\ shared' \in SharedRecord /\ ~shared'.connected /\ shared'.process = "down"
        /\ shared'.default = shared.default /\ shared'.missed = shared.missed
    BY <1>0, <2>1 DEF TabsTyped, SharedRecord
  <2>3. Len(registry') = 0 /\ DOMAIN registry' = {} /\ registry' \in Seq(Pages) BY <2>1
  <2>4. TabsHold' BY <2>2, <2>3, TabsAssumption DEF TabsHold, Tabs, ToSet, IsInjective
  <2>5. op.kind = "list" => a # "list" OBVIOUS
  <2>. QED BY <1>0, <2>1, <2>2, <2>3, <2>4, <2>5, BrowserMoves DEF TabsTyped, DefaultFits
<1>. QED BY <1>1, <1>2, <1>3

\* A page that was made becomes a tab late, if it is not one already.
LEMMA CreateEndsKeep == ASSUME TabsInv, CreateEnds PROVE TabsStep
<1>0. TabsTyped /\ TabsHold /\ DefaultFits BY DEF TabsInv
<1>1. page' = page /\ op.kind = "create" /\ OpenPages' = OpenPages BY DEF CreateEnds, OpenPages
<1>2. CASE (\E a \in {"created", "failed"} : CallEnds(a)) /\ UNCHANGED <<registry, shared>>
  <2>1. Tabs' = Tabs BY <1>2 DEF Tabs
  <2>2. TabsHold' BY <1>0, <1>1, <1>2, <2>1 DEF TabsHold
  <2>. QED BY <1>0, <1>1, <1>2, <2>1, <2>2, BrowserMoves DEF TabsTyped, DefaultFits, CallEnds
<1>3. CASE /\ CallEnds("created") /\ op.target \in OpenPages /\ op.target \notin Tabs /\ Room
           /\ registry' = Append(registry, op.target)
           /\ shared' = [shared EXCEPT !.missed = shared.missed \ {op.target}]
  <2>. PICK p \in Pages : p = op.target BY <1>3 DEF OpenPages
  <2>. PICK missed : missed = shared.missed \ {p} OBVIOUS
  <2>1. /\ shared' \in SharedRecord /\ shared'.process = shared.process /\ shared'.connected = shared.connected
        /\ shared'.default = shared.default /\ shared'.missed = missed
    BY <1>0, <1>3 DEF TabsTyped, SharedRecord
  <2>2. /\ registry' \in Seq(Pages) /\ IsInjective(registry') /\ Tabs' = Tabs \cup {p}
        /\ Len(registry') <= MaxTabs
    <3>1. Len(registry) \in Nat /\ Len(registry) < MaxTabs BY <1>0, <1>3 DEF TabsTyped, Room
    <3>. QED BY <1>0, <1>3, <3>1, Grown, TabsAssumption DEF TabsTyped, TabsHold, Tabs
  <2>3. TabsHold' BY <1>0, <1>1, <1>3, <2>1, <2>2 DEF TabsHold
  <2>4. shared.process # "starting" BY <1>3 DEF CreateEnds, Runs
  <2>. QED BY <1>0, <1>1, <1>3, <2>1, <2>2, <2>3, <2>4, BrowserMoves DEF TabsTyped, DefaultFits, CallEnds
<1>. QED BY <1>2, <1>3 DEF CreateEnds

\* An operation of the executor that leaves the browser alone.
LEMMA OpMoves ==
  ASSUME TabsInv, UNCHANGED <<page, registry, shared>>, op' \in OpRecord, ListFits', Listing
  PROVE  TabsStep
<1>1. TabsTyped' BY DEF TabsInv, TabsTyped
<1>2. Tabs' = Tabs /\ OpenPages' = OpenPages BY DEF Tabs, OpenPages
<1>3. TabsHold' /\ DefaultFits' BY <1>2 DEF TabsInv, TabsHold, DefaultFits
<1>. QED BY <1>1, <1>3 DEF TabsStep, TabsInv, DefaultStays

\* Titles are asked for, and come or do not; a page is asked for.
LEMMA TitlesKeep ==
  ASSUME TabsInv, ListTabs \/ CreateTab \/ \E p \in Pages : TitleCame(p) \/ TitleRejected(p) \/ TitleTurn(p)
  PROVE  TabsStep
<1>0. TabsTyped /\ TabsHold /\ ListFits /\ UNCHANGED <<page, registry, shared>>
  BY DEF TabsInv, ListTabs, CreateTab, TitleCame, TitleRejected, TitleTurn, Titled
<1>1. ASSUME NEW a \in {"refused", "failed"}, CallEnds(a) PROVE TabsStep
  <2>1. TabsHold' BY <1>0 DEF TabsHold, Tabs, OpenPages
  <2>. QED BY <1>0, <1>1, <2>1, BrowserMoves DEF TabsInv, TabsTyped, DefaultFits, CallEnds, Tabs, OpenPages
<1>2. CASE op' = [Idle EXCEPT !.kind = "create"]
  <2>1. op' \in OpRecord /\ op'.kind = "create" /\ op'.answer = "none" /\ \A p \in Pages : op'.title[p] = "none"
    BY <1>2, TabsAssumption DEF Idle, OpRecord
  <2>. QED BY <1>0, <2>1, OpMoves DEF ListFits, Listing
<1>3. CASE ListTabs
  <2>. PICK title \in [Pages -> {"none", "asked", "got", "turn", "gone"}] :
         title = [p \in Pages |-> IF p \in Tabs THEN "asked" ELSE "none"]
    OBVIOUS
  <2>1. op' = [Idle EXCEPT !.kind = "list", !.title = title] BY <1>3 DEF ListTabs
  <2>2. op' \in OpRecord /\ op'.kind = "list" /\ op'.answer = "none" /\ op'.title = title
    BY <2>1, TabsAssumption DEF Idle, OpRecord
  <2>3. \A p \in Pages : title[p] \in {"none", "asked"} /\ (title[p] = "asked" => page[p] # "unborn")
    BY <1>0 DEF TabsHold, OpenPages
  <2>. QED BY <1>0, <2>2, <2>3, OpMoves DEF ListFits, Listing
<1>4. ASSUME NEW p \in Pages, NEW t \in {"got", "turn", "gone"}, Titled(p, t), op.title[p] # "none",
             t = "gone" => p \notin OpenPages
      PROVE  TabsStep
  <2>. PICK title \in [Pages -> {"none", "asked", "got", "turn", "gone"}] : title = [op.title EXCEPT ![p] = t]
    BY <1>0 DEF TabsTyped, OpRecord
  <2>1. op' = [op EXCEPT !.title = title] BY <1>0, <1>4 DEF Titled, TabsTyped, OpRecord
  <2>2. op' \in OpRecord /\ op'.kind = op.kind /\ op'.answer = op.answer /\ op'.title = title
    BY <1>0, <2>1 DEF TabsTyped, OpRecord
  <2>3. \A q \in Pages : title[q] = IF q = p THEN t ELSE op.title[q] BY <1>0 DEF TabsTyped, OpRecord
  <2>4. t = "gone" => page[p] = "closed" BY <1>0, <1>4 DEF ListFits, TabsTyped, States, OpenPages
  <2>5. ListFits' BY <1>0, <1>4, <2>2, <2>3, <2>4 DEF ListFits
  <2>6. Listing BY <1>0, <2>2 DEF ListFits, Listing
  <2>. QED BY <1>0, <2>2, <2>5, <2>6, OpMoves
<1>. QED BY <1>0, <1>1, <1>2, <1>3, <1>4 DEF CreateTab, TitleCame, TitleRejected, TitleTurn

\* The default is a tab, if there is one, and stays what it was while it is one.
LEMMA DefaultIsTab ==
  ASSUME TabsInv
  PROVE  /\ Default \in Tabs \cup {NoPage} /\ (Default = NoPage) = (registry = <<>>)
         /\ shared.default \in Tabs => Default = shared.default
<1>0. registry \in Seq(Pages) /\ DOMAIN registry = 1..Len(registry) /\ Len(registry) \in Nat BY DEF TabsInv, TabsTyped
<1>1. \A i \in DOMAIN registry : registry[i] \in Tabs /\ registry[i] \in Pages BY <1>0 DEF Tabs, ToSet
<1>2. WebAt # {} => Min(WebAt) \in DOMAIN registry
  <2>1. WebAt \subseteq Nat /\ WebAt \subseteq DOMAIN registry BY <1>0 DEF WebAt
  <2>. QED BY <2>1, Least
<1>3. registry # <<>> => 1 \in DOMAIN registry /\ Head(registry) = registry[1] BY <1>0
<1>4. registry = <<>> => Tabs = {} /\ WebAt = {} BY DEF Tabs, ToSet, WebAt
<1>5. NoPage \notin Tabs BY <1>0, TabsAssumption DEF Tabs, ToSet
<1>6. CASE shared.default \in Tabs BY <1>4, <1>5, <1>6 DEF Default
<1>7. CASE shared.default \notin Tabs /\ WebAt # {}
  <2>1. Default = registry[Min(WebAt)] BY <1>7 DEF Default
  <2>2. Default \in Tabs BY <1>1, <1>2, <1>7, <2>1
  <2>. QED BY <1>4, <1>5, <1>7, <2>2
<1>8. CASE shared.default \notin Tabs /\ WebAt = {}
  <2>1. Default = IF registry # <<>> THEN Head(registry) ELSE NoPage BY <1>8 DEF Default
  <2>. QED BY <1>1, <1>3, <1>5, <1>8, <2>1
<1>. QED BY <1>6, <1>7, <1>8

\* The default is chosen, or a list is sent.
LEMMA DefaultsKeep == ASSUME TabsInv, UseDefault \/ ListEnds PROVE TabsStep
<1>0. TabsTyped /\ TabsHold /\ DefaultFits /\ ListFits /\ page' = page /\ registry' = registry
  BY DEF TabsInv, UseDefault, ListEnds
<1>1. Tabs' = Tabs /\ OpenPages' = OpenPages BY <1>0 DEF Tabs, OpenPages
<1>2. CASE CallEnds("failed") /\ shared' = shared
  <2>1. TabsHold' BY <1>0, <1>1, <1>2 DEF TabsHold
  <2>. QED BY <1>0, <1>1, <1>2, <2>1, BrowserMoves DEF TabsTyped, DefaultFits, CallEnds
<1>. PICK d : d = Default OBVIOUS
<1>3. d \in Tabs \cup {NoPage} /\ (d = NoPage) = (registry = <<>>) /\ (shared.default \in Tabs => d = shared.default)
  BY DefaultIsTab
<1>4. ASSUME shared.connected, shared.process # "starting", shared' = [shared EXCEPT !.default = d],
             op' \in OpRecord, ListFits', Listing
      PROVE  TabsStep
  <2>1. d \in Pages \cup {NoPage} /\ (d \in Pages => d \in OpenPages /\ d \in Tabs)
    BY <1>0, <1>3, TabsAssumption DEF TabsHold, OpenPages
  <2>2. /\ shared' \in SharedRecord /\ shared'.process = shared.process /\ shared'.connected = shared.connected
        /\ shared'.default = d /\ shared'.missed = shared.missed
    BY <1>0, <1>4, <2>1 DEF TabsTyped, SharedRecord
  <2>3. TabsTyped' /\ TabsHold' BY <1>0, <1>1, <1>4, <2>2 DEF TabsTyped, TabsHold
  <2>4. DefaultFits'
    <3>1. d \in OpenPages => d \in Tabs BY <2>1 DEF OpenPages
    <3>2. d \in Pages => page[d] # "unborn" BY <2>1 DEF OpenPages
    <3>. QED BY <1>0, <1>1, <1>4, <2>2, <3>1, <3>2 DEF DefaultFits
  <2>5. DefaultStays BY <1>0, <1>3, <1>4, <2>2 DEF DefaultStays, DefaultFits
  <2>. QED BY <1>4, <2>3, <2>4, <2>5 DEF TabsStep, TabsInv
<1>5. CASE UseDefault
  <2>1. op' = op /\ shared.connected /\ shared.process # "starting" /\ shared' = [shared EXCEPT !.default = d]
    BY <1>5 DEF UseDefault, Runs
  <2>2. op.kind = "idle" BY <1>5 DEF UseDefault
  <2>. QED BY <1>0, <1>4, <2>1, <2>2 DEF TabsTyped, ListFits, Listing
<1>6. CASE ListEnds /\ shared.connected
  <2>1. /\ op.kind = "list" /\ shared.process # "starting" /\ shared' = [shared EXCEPT !.default = d]
        /\ op' = [Idle EXCEPT !.answer = "list", !.tabs = Listed, !.marked = d]
        /\ \A p \in Pages : op.title[p] \in {"none", "got", "gone"}
    BY <1>6 DEF ListEnds, Runs
  <2>2. /\ op' \in OpRecord /\ op'.kind = "idle" /\ op'.tabs = Listed /\ op'.marked = d
        /\ \A p \in Pages : op'.title[p] = "none"
    BY <1>0, <1>3, <2>1, TabsAssumption DEF Idle, OpRecord, Listed, TabsHold, OpenPages
  <2>3. ListFits' BY <2>2 DEF ListFits
  <2>4. Listed = {p \in OpenPages : op.title[p] # "none"} BY <1>0, <2>1 DEF Listed, OpenPages, ListFits
  <2>5. shared'.default = d BY <1>0, <2>1 DEF TabsTyped, SharedRecord
  <2>6. d \in OpenPages \cup {NoPage} BY <1>0, <1>3 DEF TabsHold
  <2>7. Listing BY <1>3, <2>2, <2>4, <2>5, <2>6 DEF Listing
  <2>. QED BY <1>4, <1>6, <2>1, <2>2, <2>3, <2>7
<1>. QED BY <1>2, <1>5, <1>6 DEF ListEnds

\* The registry is the browser and a list shows what is open, for any number of pages
\* and tabs, though pages open and close during every await (browser.mjs:31, :35, :66).
THEOREM TrueTabs == TabsSpec => TabsAreTrue
<1>1. ASSUME TabsInv, [TabsNext]_tabsVars PROVE TabsStep
  <2>1. CASE UNCHANGED tabsVars
    <3>1. page' = page /\ registry' = registry /\ shared' = shared /\ op' = op BY <2>1 DEF tabsVars
    <3>2. TabsInv' BY <1>1, <3>1 DEF TabsInv, TabsTyped, TabsHold, DefaultFits, ListFits, Tabs, OpenPages
    <3>. QED BY <1>1, <3>1, <3>2 DEF TabsStep, TabsInv, ListFits, Listing, DefaultStays
  <2>2. ASSUME NEW p \in Pages, OpenPage(p) \/ CreateOpens(p) PROVE TabsStep
    BY <1>1, <2>2, OpensKeeps DEF OpenPage, CreateOpens, Runs
  <2>3. ASSUME NEW p \in Pages, Breaks(p) \/ Stays(p) \/ CloseTab(p) PROVE TabsStep
    <3>1. CASE Breaks(p) BY <1>1, <3>1, AsksKeep DEF Breaks, OpenPages
    <3>2. CASE Stays(p) BY <1>1, <3>2, AsksKeep DEF Stays, OpenPages
    <3>3. CASE CloseTab(p)
      <4>1. p \in OpenPages BY <1>1, <3>3 DEF CloseTab, TabsInv, TabsHold
      <4>. QED BY <1>1, <3>3, <4>1, AsksKeep DEF CloseTab
    <3>. QED BY <2>3, <3>1, <3>2, <3>3
  <2>4. ASSUME NEW p \in Pages, ClosePage(p) PROVE TabsStep BY <1>1, <2>4, CloseKeeps
  <2>5. CASE StartTabs BY <1>1, <2>5, StartKeeps
  <2>6. CASE UseDefault \/ ListEnds BY <1>1, <2>6, DefaultsKeep
  <2>7. CASE ListTabs \/ CreateTab \/ \E p \in Pages : TitleCame(p) \/ TitleRejected(p) \/ TitleTurn(p)
    BY <1>1, <2>7, TitlesKeep
  <2>8. CASE CreateEnds BY <1>1, <2>8, CreateEndsKeep
  <2>9. CASE Disconnect \/ Stop \/ Leave BY <1>1, <2>9, EndsKeep
  <2>. QED BY <1>1, <2>1, <2>2, <2>3, <2>4, <2>5, <2>6, <2>7, <2>8, <2>9 DEF TabsNext, Operation
<1>2. TabsInv /\ [TabsNext]_tabsVars => TabsInv' /\ [Listing]_tabsVars /\ [DefaultStays]_tabsVars
  BY <1>1 DEF TabsStep
<1>3. TabsInv => TabsHold BY DEF TabsInv
<1>. QED BY TabsStart, <1>2, <1>3, PTL DEF TabsSpec, TabsAreTrue

-----------------------------------------------------------------------------
\* Who is asked whether all is ready.  What a check has been told stands behind the place
\* it has come to: a report without a flaw, all of the greeting, each part that was up.
ReadyAt == {"begin", "fetch", "opening", "asked", "stat", "exchange", "done"} \cup Parts
\* What a check says that does not pass and names no flaw.
Refusals == {"httpTimeout", "unavailable", "status", "metadata", "socketFailed", "notPrivate", "socketClosed",
             "queryTimeout", "rejected", "invalid", "socketInvalid", "unhealthy", "truncated", "timeout", "failed"}
NamedFlaws == {"missing", "renderer", "sandbox", "crashCount", "crashed", "compositing", "rasterization"}
NamedDecoder == {"videoDecode", "h264"}
CheckRecord == [program : Programs, at : ReadyAt, verdict : {"none", "ok"} \cup Refusals \cup NamedFlaws \cup NamedDecoder,
                tail : BOOLEAN, decode : BOOLEAN, settings : Settings, sockets : SocketTables,
                got : Nat, poor : BOOLEAN]
TruthRecord == [report : {{"none"}} \cup Reports, bytes : Nat, wrong : BOOLEAN, ended : BOOLEAN, up : SUBSET Parts]
ReadyTyped ==
  /\ check \in CheckRecord /\ truth \in TruthRecord
  /\ parts \in [Parts -> {"up", "bad", "down"}]
Wanted == NamedFlaws \cup IF check.decode THEN NamedDecoder ELSE {}
\* Which program may be where.
PlacesFit ==
  /\ check.at # "done" => check.verdict = "none"
  /\ check.program = "close" => ~check.tail /\ check.at \notin {"stat", "exchange"} \cup Parts
  /\ check.program = "gate" => check.at \notin Parts
\* What was answered so far is what the places passed stand for.
AnswersFit ==
  /\ check.program = "gate" /\ check.at \in {"stat", "exchange"} => truth.report \cap Wanted = {}
  /\ check.at \in {"begin", "fetch", "opening", "asked", "stat"} => check.got = 0 /\ truth.bytes = 0 /\ ~truth.wrong
  /\ check.at = "exchange" => truth.bytes = check.got /\ ~truth.wrong
  /\ check.at \in Parts /\ check.tail => truth.bytes = Greeting /\ ~truth.wrong /\ truth.ended
PartsFit ==
  /\ \A p \in Parts : parts[p] = "up" => p \in truth.up
  /\ check.at \in Parts /\ ~check.poor =>
       CASE check.at = "agent" -> TRUE
         [] check.at = "cdp" -> {"agent"} \subseteq truth.up
         [] check.at = "mcp" -> {"agent", "cdp"} \subseteq truth.up
         [] check.at = "gateway" -> {"agent", "cdp", "mcp"} \subseteq truth.up
SocketsFit == \A e \in check.sockets : e.listens /\ e.port \in {"cdp", "admin", "cdpProxy"} => e.loopback
VerdictFits ==
  /\ check.verdict = "ok" =>
       /\ check.program = "gate" => truth.report \cap Wanted = {}
       /\ check.tail => truth.bytes = Greeting /\ ~truth.wrong /\ truth.ended
       /\ check.program \in {"health", "doctor"} => truth.up = Parts
       /\ check.program = "doctor" => SocketsFit
       /\ check.program = "close" => truth.ended
  /\ check.verdict \in NamedFlaws \cup NamedDecoder => check.verdict \in truth.report
ReadyInv == ReadyTyped /\ PlacesFit /\ AnswersFit /\ PartsFit /\ VerdictFits

\* The least of some places.
LEMMA LeastPlace == ASSUME NEW T, T \subseteq Nat, T # {} PROVE \E i \in T : \A j \in T : i <= j
<1>1. \A x, y \in Nat : <<y, x>> \in OpToRel(<, Nat) <=> y < x BY DEF OpToRel
<1>2. PICK R : (\A x, y \in Nat : <<y, x>> \in R <=> y < x) /\ IsWellFoundedOn(R, Nat)
  BY <1>1, NatLessThanWellFounded, Zenon
<1>3. PICK x \in T : \A y \in T : ~(<<y, x>> \in R) BY <1>2, WFMin, Zenon
<1>4. ASSUME NEW y \in T PROVE x <= y
  <2>1. x \in Nat /\ y \in Nat /\ ~(y < x) BY <1>2, <1>3, Zenon
  <2>. QED BY <2>1
<1>. QED BY <1>4

\* What the flaws are, and what is found first.
LEMMA FlawSets == Range(Flaws) = NamedFlaws /\ Range(DecoderFlaws) = NamedDecoder
                  /\ Range(Flaws \o DecoderFlaws) = NamedFlaws \cup NamedDecoder
<1>1. Range(Flaws) = NamedFlaws
  <2>1. DOMAIN Flaws = 1..7 BY DEF Flaws
  <2>2. DOMAIN Flaws = {1, 2, 3, 4, 5, 6, 7} BY <2>1
  <2>. QED BY <2>2 DEF Range, Flaws, NamedFlaws
<1>2. Range(DecoderFlaws) = NamedDecoder
  <2>1. DOMAIN DecoderFlaws = {1, 2} BY DEF DecoderFlaws
  <2>. QED BY <2>1 DEF Range, DecoderFlaws, NamedDecoder
<1>3. Flaws \in Seq(NamedFlaws \cup NamedDecoder) /\ DecoderFlaws \in Seq(NamedFlaws \cup NamedDecoder)
      /\ Len(Flaws) = 7 /\ Len(DecoderFlaws) = 2
  BY DEF Flaws, DecoderFlaws, NamedFlaws, NamedDecoder
<1>4. Range(Flaws \o DecoderFlaws) = Range(Flaws) \cup Range(DecoderFlaws)
  <2>a. PICK both : both = Flaws \o DecoderFlaws OBVIOUS
  <2>b. PICK S : S = NamedFlaws \cup NamedDecoder OBVIOUS
  <2>c. Flaws \in Seq(S) /\ DecoderFlaws \in Seq(S) BY <1>3, <2>b
  <2>d. both \in Seq(S) /\ Len(both) = Len(Flaws) + Len(DecoderFlaws)
        /\ \A i \in 1..Len(Flaws) + Len(DecoderFlaws) :
             both[i] = IF i <= Len(Flaws) THEN Flaws[i] ELSE DecoderFlaws[i - Len(Flaws)]
    BY <2>a, <2>c, ConcatProperties, Zenon
  <2>0. Len(both) = 9 /\ \A i \in 1..9 : both[i] = IF i <= 7 THEN Flaws[i] ELSE DecoderFlaws[i - 7]
    BY <1>3, <2>d
  <2>1. DOMAIN both = 1..9 BY <2>0, <2>d
  <2>2. \A i \in 1..7 : both[i] = Flaws[i] /\ i \in 1..9 BY <2>0
  <2>3. \A i \in 1..2 : both[7 + i] = DecoderFlaws[i] /\ 7 + i \in 1..9 BY <2>0
  <2>4. DOMAIN Flaws = 1..7 /\ DOMAIN DecoderFlaws = 1..2 BY <1>3
  <2>5. ASSUME NEW x \in Range(both) PROVE x \in Range(Flaws) \cup Range(DecoderFlaws)
    <3>1. PICK i \in 1..9 : x = both[i] BY <2>1, <2>5 DEF Range
    <3>2. CASE i <= 7
      <4>1. i \in 1..7 BY <3>2
      <4>. QED BY <2>2, <2>4, <3>1, <4>1 DEF Range
    <3>3. CASE i > 7
      <4>1. PICK k \in 1..2 : i = 7 + k BY <3>3
      <4>. QED BY <2>3, <2>4, <3>1, <4>1 DEF Range
    <3>. QED BY <3>2, <3>3
  <2>6. ASSUME NEW x \in Range(Flaws) \cup Range(DecoderFlaws) PROVE x \in Range(both)
    <3>1. CASE x \in Range(Flaws)
      <4>1. PICK i \in 1..7 : x = Flaws[i] BY <2>4, <3>1 DEF Range
      <4>. QED BY <2>1, <2>2, <4>1 DEF Range
    <3>2. CASE x \in Range(DecoderFlaws)
      <4>1. PICK i \in 1..2 : x = DecoderFlaws[i] BY <2>4, <3>2 DEF Range
      <4>2. x = both[7 + i] /\ 7 + i \in 1..9 BY <2>3, <4>1, Zenon
      <4>. QED BY <2>1, <4>2 DEF Range
    <3>. QED BY <2>6, <3>1, <3>2
  <2>. QED BY <2>a, <2>5, <2>6
<1>. QED BY <1>1, <1>2, <1>4

LEMMA FirstFlawIs ==
  ASSUME NEW S, NEW order \in Seq(S), "ok" \notin S, NEW report
  PROVE  \/ FirstFlaw(order, report) = "ok" /\ report \cap Range(order) = {}
         \/ FirstFlaw(order, report) \in report \cap Range(order)
<1> DEFINE found == {i \in 1..Len(order) : order[i] \in report}
<1>0. DOMAIN order = 1..Len(order) OBVIOUS
<1>1. CASE found = {}
  <2>1. FirstFlaw(order, report) = "ok" BY <1>1 DEF FirstFlaw
  <2>. QED BY <1>0, <1>1, <2>1 DEF Range
<1>2. CASE found # {}
  <2>0. found \subseteq Nat OBVIOUS
  <2>1. \E i \in found : \A j \in found : i <= j BY <1>2, <2>0, LeastPlace, Zenon
  <2> DEFINE first == CHOOSE i \in found : \A j \in found : i <= j
  <2>2. first \in found BY <2>1
  <2>3. FirstFlaw(order, report) = order[first] BY <1>2 DEF FirstFlaw
  <2>4. order[first] \in report /\ order[first] \in Range(order) BY <1>0, <2>2 DEF Range
  <2>. QED BY <2>3, <2>4
<1>. QED BY <1>1, <1>2

LEMMA ValidatedIs ==
  ASSUME NEW report
  PROVE  \/ Validated(report) = "ok" /\ report \cap Wanted = {}
         \/ Validated(report) \in report \cap (NamedFlaws \cup NamedDecoder)
<1> DEFINE S == NamedFlaws \cup NamedDecoder
<1>1. Flaws \in Seq(S) /\ DecoderFlaws \in Seq(S) BY DEF Flaws, DecoderFlaws, NamedFlaws, NamedDecoder
<1>2. Flaws \o DecoderFlaws \in Seq(S) BY <1>1
<1>3. "ok" \notin S BY DEF NamedFlaws, NamedDecoder
<1>4. CASE check.decode
  <2>1. Validated(report) = FirstFlaw(Flaws \o DecoderFlaws, report) BY <1>4 DEF Validated
  <2>2. Wanted = S BY <1>4 DEF Wanted
  <2>. QED BY <1>2, <1>3, <2>1, <2>2, FirstFlawIs, FlawSets
<1>5. CASE ~check.decode
  <2>1. Validated(report) = FirstFlaw(Flaws, report) BY <1>5 DEF Validated
  <2>2. Wanted = NamedFlaws BY <1>5 DEF Wanted
  <2>. QED BY <1>1, <1>3, <2>1, <2>2, FirstFlawIs, FlawSets
<1>. QED BY <1>4, <1>5

LEMMA CheckStart == ReadyInit => ReadyInv
<1> SUFFICES ASSUME ReadyInit PROVE ReadyInv OBVIOUS
<1>1. PICK n \in BOOLEAN : n = FALSE OBVIOUS
<1>2. check \in [program : Programs, at : {"begin"}, verdict : {"none"}, tail : BOOLEAN, decode : BOOLEAN,
                 settings : Settings, sockets : SocketTables, got : {0}, poor : {n}]
  BY <1>1 DEF ReadyInit
<1>3. check \in CheckRecord /\ check.at = "begin" /\ check.verdict = "none" /\ check.got = 0
  BY <1>2 DEF CheckRecord, ReadyAt, Programs
<1>4. PICK up \in SUBSET Parts : up = {p \in Parts : parts[p] = "up"} OBVIOUS
<1>5. truth = [report |-> {"none"}, bytes |-> 0, wrong |-> n, ended |-> n, up |-> up] BY <1>1, <1>4 DEF ReadyInit
<1>6. truth \in TruthRecord /\ truth.bytes = 0 /\ truth.wrong = n /\ truth.up = up BY <1>5 DEF TruthRecord
<1>7. parts \in [Parts -> {"up", "bad", "down"}]
  <2>1. parts \in [Parts -> {"up", "down"}] BY DEF ReadyInit
  <2>. QED BY <2>1
<1>8. check.program = "close" => ~check.tail BY DEF ReadyInit
<1>9. "begin" \notin Parts BY DEF Parts
<1>. QED BY <1>1, <1>3, <1>4, <1>6, <1>7, <1>8, <1>9
     DEF ReadyInv, ReadyTyped, PlacesFit, AnswersFit, PartsFit, VerdictFits, NamedFlaws, NamedDecoder

\* The fields of a check that is over, and of one that is elsewhere.
LEMMA DoneIs ==
  ASSUME check \in CheckRecord, NEW v \in {"none", "ok"} \cup Refusals \cup NamedFlaws \cup NamedDecoder
  PROVE  /\ Done(v) \in CheckRecord /\ Done(v).at = "done" /\ Done(v).verdict = v
         /\ Done(v).program = check.program /\ Done(v).tail = check.tail /\ Done(v).decode = check.decode
         /\ Done(v).sockets = check.sockets
BY DEF Done, CheckRecord, ReadyAt
LEMMA GoesIs ==
  ASSUME check \in CheckRecord, NEW at \in ReadyAt
  PROVE  /\ Goes(at) \in CheckRecord /\ Goes(at).at = at /\ Goes(at).verdict = check.verdict
         /\ Goes(at).program = check.program /\ Goes(at).tail = check.tail /\ Goes(at).decode = check.decode
         /\ Goes(at).sockets = check.sockets /\ Goes(at).got = check.got /\ Goes(at).poor = check.poor
BY DEF Goes, CheckRecord

\* A refusal claims nothing, and names no flaw.
LEMMA RefusesKeeps ==
  ASSUME ReadyInv, NEW v \in Refusals, check' = Done(v), truth' \in TruthRecord, truth'.up = truth.up, parts' = parts
  PROVE  ReadyInv'
<1>1. check' \in CheckRecord /\ check'.at = "done" /\ check'.verdict = v /\ check'.program = check.program
      /\ check'.tail = check.tail
  BY DoneIs DEF ReadyInv, ReadyTyped
<1>2. v # "none" /\ v # "ok" /\ v \notin NamedFlaws \cup NamedDecoder BY DEF Refusals, NamedFlaws, NamedDecoder
<1>3. "done" \notin Parts BY DEF Parts
<1>. QED BY <1>1, <1>2, <1>3 DEF ReadyInv, ReadyTyped, PlacesFit, AnswersFit, PartsFit, VerdictFits

\* A check that goes on, and has been told nothing.
LEMMA GoesKeeps ==
  ASSUME ReadyInv, NEW at \in {"fetch", "opening", "asked", "stat", "exchange", "agent"}, check' = Goes(at),
         UNCHANGED <<parts, truth>>,
         check.at # "done",
         at \in {"fetch", "opening", "asked"} => check.at \in {"begin", "fetch", "opening"},
         at \in {"stat", "exchange"} => check.at \in {"begin", "stat"} /\ check.program # "close",
         at = "exchange" => check.at = "stat",
         check.program = "gate" => at \notin {"stat", "agent"},
         at = "agent" => check.program # "close" /\ ~check.tail
  PROVE  ReadyInv'
<1>1. at \in ReadyAt BY DEF ReadyAt, Parts
<1>2. check' \in CheckRecord /\ check'.at = at /\ check'.verdict = check.verdict /\ check'.program = check.program
      /\ check'.tail = check.tail /\ check'.decode = check.decode /\ check'.got = check.got
  BY <1>1, GoesIs DEF ReadyInv, ReadyTyped
<1>3. Parts = {"agent", "cdp", "mcp", "gateway"} BY DEF Parts
<1>4. check.verdict = "none" BY DEF ReadyInv, PlacesFit
<1>5. PlacesFit' BY <1>2, <1>3, <1>4 DEF ReadyInv, PlacesFit
<1>6. AnswersFit' BY <1>2, <1>3 DEF ReadyInv, AnswersFit, Wanted
<1>7. PartsFit' BY <1>2, <1>3 DEF ReadyInv, PartsFit
<1>. QED BY <1>2, <1>4, <1>5, <1>6, <1>7 DEF ReadyInv, ReadyTyped, VerdictFits, NamedFlaws, NamedDecoder

LEMMA TruthTold ==
  ASSUME truth \in TruthRecord
  PROVE  /\ \A r \in Reports : LET t == [truth EXCEPT !.report = r]
                              IN t \in TruthRecord /\ t.report = r /\ t.bytes = truth.bytes /\ t.wrong = truth.wrong
                                 /\ t.ended = truth.ended /\ t.up = truth.up
         /\ LET t == [truth EXCEPT !.ended = TRUE]
            IN t \in TruthRecord /\ t.report = truth.report /\ t.bytes = truth.bytes /\ t.wrong = truth.wrong
               /\ t.ended /\ t.up = truth.up
<1>1. PICK y \in BOOLEAN : y = TRUE OBVIOUS
<1>2. [truth EXCEPT !.ended = TRUE] = [truth EXCEPT !.ended = y] BY <1>1
<1>. QED BY <1>1, <1>2 DEF TruthRecord

LEMMA BeginKeeps == ReadyInv /\ BeginCheck => ReadyInv'
<1> SUFFICES ASSUME ReadyInv, BeginCheck PROVE ReadyInv' OBVIOUS
<1>0. truth \in TruthRecord /\ check.at = "begin" /\ UNCHANGED <<parts, truth>>
      /\ (check.program = "close" => ~check.tail) /\ check.program \in Programs
  BY DEF ReadyInv, ReadyTyped, PlacesFit, BeginCheck, CheckRecord
<1>1. CASE check' = Done("failed") BY <1>0, <1>1, RefusesKeeps DEF Refusals
<1>2. CASE check' = Goes("fetch") BY <1>0, <1>2, GoesKeeps
<1>3. CASE check.program \in {"health", "doctor"} /\ check.tail /\ check' = Goes("stat") BY <1>0, <1>3, GoesKeeps
<1>4. CASE check.program \in {"health", "doctor"} /\ ~check.tail /\ check' = Goes("agent") BY <1>0, <1>4, GoesKeeps
<1>. QED BY <1>0, <1>1, <1>2, <1>3, <1>4 DEF BeginCheck, Programs

LEMMA FetchKeeps == ReadyInv /\ (FetchVersion \/ SocketOpens \/ SocketErrs \/ SocketTimeout) => ReadyInv'
<1> SUFFICES ASSUME ReadyInv, FetchVersion \/ SocketOpens \/ SocketErrs \/ SocketTimeout PROVE ReadyInv' OBVIOUS
<1>0. truth \in TruthRecord /\ UNCHANGED <<parts, truth>> /\ check.at \in {"fetch", "opening", "asked"}
  BY DEF ReadyInv, ReadyTyped, FetchVersion, SocketOpens, SocketErrs, SocketTimeout
<1>1. CASE \E v \in Refusals : check' = Done(v) BY <1>0, <1>1, RefusesKeeps
<1>2. CASE check' = Goes("opening") /\ check.at = "fetch" BY <1>0, <1>2, GoesKeeps
<1>3. CASE check' = Goes("asked") /\ check.at = "opening" BY <1>0, <1>3, GoesKeeps
<1>. QED BY <1>1, <1>2, <1>3 DEF FetchVersion, SocketOpens, SocketErrs, SocketTimeout, Refusals

LEMMA ClosesKeeps == ReadyInv /\ SocketCloses => ReadyInv'
<1> SUFFICES ASSUME ReadyInv, SocketCloses PROVE ReadyInv' OBVIOUS
<1>0. check \in CheckRecord /\ truth \in TruthRecord /\ parts' = parts /\ truth' = [truth EXCEPT !.ended = TRUE]
  BY DEF ReadyInv, ReadyTyped, SocketCloses
<1>1. truth' \in TruthRecord /\ truth'.ended /\ truth'.up = truth.up BY <1>0, TruthTold
<1>2. CASE check.program = "close"
  <2>1. check' = Done("ok") BY <1>2 DEF SocketCloses
  <2>2. check' \in CheckRecord /\ check'.at = "done" /\ check'.verdict = "ok" /\ check'.program = "close"
        /\ check'.tail = check.tail
    BY <1>0, <1>2, <2>1, DoneIs
  <2>3. ~check.tail BY <1>2 DEF ReadyInv, PlacesFit
  <2>. QED BY <1>0, <1>1, <2>2, <2>3
       DEF ReadyInv, ReadyTyped, PlacesFit, AnswersFit, PartsFit, VerdictFits, NamedFlaws, NamedDecoder, Parts
<1>3. CASE check.program # "close"
  <2>1. check' = Done("socketClosed") BY <1>3 DEF SocketCloses
  <2>. QED BY <1>0, <1>1, <2>1, RefusesKeeps DEF Refusals
<1>. QED BY <1>2, <1>3

LEMMA SaysKeeps == ReadyInv /\ SocketSays => ReadyInv'
<1> SUFFICES ASSUME ReadyInv, SocketSays PROVE ReadyInv' OBVIOUS
<1>0. check \in CheckRecord /\ truth \in TruthRecord /\ parts' = parts /\ check.at = "asked" /\ check.program = "gate"
      /\ check.verdict = "none"
  BY DEF ReadyInv, ReadyTyped, PlacesFit, SocketSays
<1>1. CASE check' \in {Done("rejected"), Done("invalid")} /\ UNCHANGED truth BY <1>0, <1>1, RefusesKeeps DEF Refusals
<1>2. CASE check' = GateReply(2, {"missing"}) /\ UNCHANGED truth
  <2>1. check' = check BY <1>2 DEF GateReply, Ours
  <2>. QED BY <1>0, <1>2, <2>1
       DEF ReadyInv, ReadyTyped, PlacesFit, AnswersFit, PartsFit, VerdictFits, Wanted, SocketsFit
<1>3. CASE \E r \in Reports : check' = GateReply(1, r) /\ truth' = [truth EXCEPT !.report = r]
  <2>1. PICK r \in Reports : check' = GateReply(1, r) /\ truth' = [truth EXCEPT !.report = r] BY <1>3
  <2>2. truth' \in TruthRecord /\ truth'.report = r /\ truth'.bytes = truth.bytes /\ truth'.wrong = truth.wrong
        /\ truth'.ended = truth.ended /\ truth'.up = truth.up
    BY <1>0, <2>1, TruthTold
  <2>3. PICK v : v = Validated(r) OBVIOUS
  <2>4. check' = IF v = "ok" /\ check.tail THEN Goes("stat") ELSE Done(v) BY <2>1, <2>3 DEF GateReply, Ours
  <2>5. \/ v = "ok" /\ r \cap Wanted = {}
        \/ v \in r \cap (NamedFlaws \cup NamedDecoder) BY <2>3, ValidatedIs
  <2>6. "ok" \notin NamedFlaws \cup NamedDecoder /\ "none" \notin NamedFlaws \cup NamedDecoder
        /\ "stat" \notin Parts /\ "done" \notin Parts /\ "asked" \notin Parts
    BY DEF NamedFlaws, NamedDecoder, Parts
  <2>7. CASE v = "ok" /\ check.tail
    <3>1. check' = Goes("stat") BY <2>4, <2>7
    <3>2. check' \in CheckRecord /\ check'.at = "stat" /\ check'.verdict = "none" /\ check'.program = "gate"
          /\ check'.got = check.got /\ check'.decode = check.decode
      BY <1>0, <3>1, GoesIs DEF ReadyAt
    <3>3. Wanted' = Wanted /\ r \cap Wanted = {} BY <2>5, <2>6, <2>7, <3>2 DEF Wanted
    <3>. QED BY <1>0, <2>2, <2>6, <3>2, <3>3
         DEF ReadyInv, ReadyTyped, PlacesFit, AnswersFit, PartsFit, VerdictFits
  <2>8. CASE ~(v = "ok" /\ check.tail)
    <3>1. check' = Done(v) BY <2>4, <2>8
    <3>2. check' \in CheckRecord /\ check'.at = "done" /\ check'.verdict = v /\ check'.program = "gate"
          /\ check'.tail = check.tail /\ check'.decode = check.decode
      BY <1>0, <2>5, <3>1, DoneIs
    <3>3. Wanted' = Wanted BY <3>2 DEF Wanted
    <3>. QED BY <1>0, <2>2, <2>5, <2>6, <2>8, <3>2, <3>3
         DEF ReadyInv, ReadyTyped, PlacesFit, AnswersFit, PartsFit, VerdictFits
  <2>. QED BY <2>7, <2>8
<1>. QED BY <1>1, <1>2, <1>3 DEF SocketSays

\* The greeting is not what it must be, or takes too long.
LEMMA CaptureRefuses ==
  ASSUME ReadyInv, NEW v \in Refusals, check' = AfterCapture(v), truth' \in TruthRecord, truth'.up = truth.up,
         parts' = parts
  PROVE  ReadyInv'
<1>1. v # "ok" BY DEF Refusals
<1>2. check' = Done(v) \/ check' = Done("failed") BY <1>1 DEF AfterCapture
<1>. QED BY <1>2, RefusesKeeps DEF Refusals

LEMMA CaptureKeeps == ReadyInv /\ (StatSocket \/ CaptureFails \/ CaptureTimeout \/ DoctorGivesUp) => ReadyInv'
<1> SUFFICES ASSUME ReadyInv, StatSocket \/ CaptureFails \/ CaptureTimeout \/ DoctorGivesUp PROVE ReadyInv' OBVIOUS
<1>0. truth \in TruthRecord /\ UNCHANGED <<parts, truth>>
  BY DEF ReadyInv, ReadyTyped, StatSocket, CaptureFails, CaptureTimeout, DoctorGivesUp
<1>1. CASE check.at = "stat" /\ check' = Goes("exchange")
  <2>1. check.program # "close" BY <1>1 DEF ReadyInv, PlacesFit
  <2>. QED BY <1>0, <1>1, <2>1, GoesKeeps
<1>2. CASE \E v \in Refusals : check' = AfterCapture(v) BY <1>0, <1>2, CaptureRefuses
<1>3. CASE check' = Done("failed") BY <1>0, <1>3, RefusesKeeps DEF Refusals
<1>. QED BY <1>1, <1>2, <1>3 DEF StatSocket, CaptureFails, CaptureTimeout, DoctorGivesUp, Refusals

LEMMA PieceKeeps == ReadyInv /\ Piece => ReadyInv'
<1> SUFFICES ASSUME ReadyInv, Piece PROVE ReadyInv' OBVIOUS
<1>0. check \in CheckRecord /\ truth \in TruthRecord /\ parts' = parts /\ check.at = "exchange" /\ check.verdict = "none"
  BY DEF ReadyInv, ReadyTyped, PlacesFit, Piece
<1>1. PICK n \in 1..Greeting, right \in BOOLEAN :
        /\ truth' = [truth EXCEPT !.bytes = @ + n, !.wrong = ~right]
        /\ check' = IF check.got + n > Greeting \/ ~right THEN AfterCapture("unhealthy")
                    ELSE [check EXCEPT !.got = @ + n]
  BY DEF Piece
<1>2. PICK bytes \in Nat : bytes = truth.bytes + n BY <1>0, ReadinessAssumption DEF TruthRecord
<1>3. PICK wrong \in BOOLEAN : wrong = ~right OBVIOUS
<1>4. truth' = [truth EXCEPT !.bytes = bytes, !.wrong = wrong] BY <1>1, <1>2, <1>3
<1>5. truth' \in TruthRecord /\ truth'.bytes = bytes /\ truth'.wrong = wrong /\ truth'.up = truth.up
      /\ truth'.report = truth.report
  BY <1>0, <1>4 DEF TruthRecord
<1>6. CASE check' = AfterCapture("unhealthy") BY <1>0, <1>5, <1>6, CaptureRefuses DEF Refusals
<1>7. CASE right /\ check' = [check EXCEPT !.got = @ + n]
  <2>1. PICK got \in Nat : got = check.got + n BY <1>0, ReadinessAssumption DEF CheckRecord
  <2>2. check' = [check EXCEPT !.got = got] BY <1>0, <1>7, <2>1 DEF CheckRecord
  <2>3. check' \in CheckRecord /\ check'.at = "exchange" /\ check'.verdict = "none" /\ check'.program = check.program
        /\ check'.got = got /\ check'.decode = check.decode /\ check'.tail = check.tail
    BY <1>0, <2>2 DEF CheckRecord
  <2>4. "exchange" \notin Parts BY DEF Parts
  <2>5. got = bytes BY <1>0, <1>2, <2>1 DEF ReadyInv, AnswersFit
  <2>6. Wanted' = Wanted BY <2>3 DEF Wanted
  <2>7. ~wrong BY <1>3, <1>7
  <2>. QED BY <1>0, <1>5, <2>3, <2>4, <2>5, <2>6, <2>7
       DEF ReadyInv, ReadyTyped, PlacesFit, AnswersFit, PartsFit, VerdictFits, NamedFlaws, NamedDecoder
<1>. QED BY <1>1, <1>6, <1>7

LEMMA EndKeeps == ReadyInv /\ CaptureEnds => ReadyInv'
<1> SUFFICES ASSUME ReadyInv, CaptureEnds PROVE ReadyInv' OBVIOUS
<1>0. check \in CheckRecord /\ truth \in TruthRecord /\ parts' = parts /\ check.at = "exchange" /\ check.verdict = "none"
      /\ truth' = [truth EXCEPT !.ended = TRUE] /\ check.program # "close"
  BY DEF ReadyInv, ReadyTyped, PlacesFit, CaptureEnds
<1>1. truth' \in TruthRecord /\ truth'.report = truth.report /\ truth'.bytes = truth.bytes
      /\ truth'.wrong = truth.wrong /\ truth'.ended /\ truth'.up = truth.up
  BY <1>0, TruthTold
<1>2. CASE ~Whole
  <2>1. check' = AfterCapture("truncated") BY <1>2 DEF CaptureEnds
  <2>. QED BY <1>0, <1>1, <2>1, CaptureRefuses DEF Refusals
<1>3. CASE Whole
  <2>1. truth.bytes = Greeting /\ ~truth.wrong BY <1>0, <1>3 DEF Whole, ReadyInv, AnswersFit
  <2>2. check' = AfterCapture("ok") BY <1>3 DEF CaptureEnds
  <2>3. CASE check.program = "gate"
    <3>1. check' = Done("ok") BY <2>2, <2>3 DEF AfterCapture
    <3>2. check' \in CheckRecord /\ check'.at = "done" /\ check'.verdict = "ok" /\ check'.program = "gate"
          /\ check'.decode = check.decode
      BY <1>0, <2>3, <3>1, DoneIs
    <3>3. Wanted' = Wanted BY <3>2 DEF Wanted
    <3>4. truth.report \cap Wanted = {} BY <1>0, <2>3 DEF ReadyInv, AnswersFit
    <3>5. "done" \notin Parts BY DEF Parts
    <3>. QED BY <1>0, <1>1, <2>1, <3>2, <3>3, <3>4, <3>5
         DEF ReadyInv, ReadyTyped, PlacesFit, AnswersFit, PartsFit, VerdictFits, NamedFlaws, NamedDecoder
  <2>4. CASE check.program # "gate"
    <3>1. check' = Goes("agent") BY <2>2, <2>4 DEF AfterCapture
    <3>2. check' \in CheckRecord /\ check'.at = "agent" /\ check'.verdict = "none" /\ check'.program = check.program
          /\ check'.tail = check.tail
      BY <1>0, <3>1, GoesIs DEF ReadyAt, Parts
    <3>. QED BY <1>0, <1>1, <2>1, <2>4, <3>2
         DEF ReadyInv, ReadyTyped, PlacesFit, AnswersFit, PartsFit, VerdictFits, NamedFlaws, NamedDecoder
  <2>. QED BY <2>3, <2>4
<1>. QED BY <1>2, <1>3

\* Sockets that are sound are private.
LEMMA SoundIsPrivate == Sound(check.sockets) => SocketsFit
<1> SUFFICES ASSUME Sound(check.sockets), NEW e \in check.sockets, e.listens, e.port \in {"cdp", "admin", "cdpProxy"}
             PROVE  e.loopback
  BY DEF SocketsFit
<1>1. e \in Listeners(check.sockets) BY DEF Listeners
<1>2. e.port # "cdpProxy" BY <1>1 DEF Sound
<1>3. PrivatePort(check.sockets, e.port) BY <1>2 DEF Sound, Private
<1>. QED BY <1>1, <1>3 DEF PrivatePort

LEMMA AskKeeps == ASSUME ReadyInv, NEW i \in 1..Len(Asked), AskPart(i) PROVE ReadyInv'
<1>0. check \in CheckRecord /\ truth \in TruthRecord /\ UNCHANGED <<parts, truth>> /\ check.at = Asked[i]
      /\ parts \in [Parts -> {"up", "bad", "down"}]
  BY DEF ReadyInv, ReadyTyped, AskPart
<1>1. Len(Asked) = 4 /\ Asked[1] = "agent" /\ Asked[2] = "cdp" /\ Asked[3] = "mcp" /\ Asked[4] = "gateway" BY DEF Asked
<1>2. Parts = {"agent", "cdp", "mcp", "gateway"} BY DEF Parts
<1>3. i \in {1, 2, 3, 4} /\ Asked[i] \in Parts BY <1>1, <1>2
<1>4. check.at \in Parts /\ check.verdict = "none" /\ check.program \in {"health", "doctor"}
  BY <1>0, <1>2, <1>3 DEF ReadyInv, PlacesFit, CheckRecord, Programs
<1>5. CASE check' = Done("failed") BY <1>0, <1>5, RefusesKeeps DEF Refusals
<1>6. CASE i # 4 /\ parts[Asked[i]] # "down"
             /\ check' = [check EXCEPT !.at = Asked[i + 1], !.poor = @ \/ Poor(Asked[i])]
  <2>1. PICK poor \in BOOLEAN : poor = (check.poor \/ Poor(Asked[i])) BY <1>0 DEF CheckRecord
  <2>2. PICK at \in ReadyAt : at = Asked[i + 1] BY <1>1, <1>3, <1>6 DEF ReadyAt, Parts
  <2>3. check' = [check EXCEPT !.at = at, !.poor = poor] BY <1>0, <1>6, <2>1, <2>2 DEF CheckRecord
  <2>4. check' \in CheckRecord /\ check'.at = at /\ check'.poor = poor /\ check'.program = check.program
        /\ check'.verdict = "none" /\ check'.tail = check.tail
    BY <1>0, <1>4, <2>3 DEF CheckRecord
  <2>5. ~poor => ~check.poor /\ Asked[i] \in truth.up
    <3>1. parts[Asked[i]] \in {"up", "bad", "down"} BY <1>0, <1>3
    <3>. QED BY <1>3, <1>6, <2>1, <3>1 DEF Poor, ReadyInv, PartsFit
  <2>6. at \in {"cdp", "mcp", "gateway"} /\ (i = 1 => at = "cdp") /\ (i = 2 => at = "mcp") /\ (i = 3 => at = "gateway")
    BY <1>1, <1>3, <1>6, <2>2
  <2>7. PartsFit'
    <3>1. \A p \in Parts : parts'[p] = "up" => p \in truth'.up BY <1>0 DEF ReadyInv, PartsFit
    <3>2. CASE poor BY <2>4, <3>1, <3>2 DEF PartsFit
    <3>3. CASE ~poor
      <4>1. ~check.poor /\ Asked[i] \in truth.up /\ check.at = Asked[i] BY <1>0, <2>5, <3>3
      <4>2. CASE i = 1 BY <1>0, <1>1, <2>4, <2>6, <3>1, <4>1, <4>2 DEF PartsFit
      <4>3. CASE i = 2
        <5>1. {"agent"} \subseteq truth.up BY <1>1, <1>4, <4>1, <4>3 DEF ReadyInv, PartsFit
        <5>. QED BY <1>0, <1>1, <2>4, <2>6, <3>1, <4>1, <4>3, <5>1 DEF PartsFit
      <4>4. CASE i = 3
        <5>1. {"agent", "cdp"} \subseteq truth.up BY <1>1, <1>4, <4>1, <4>4 DEF ReadyInv, PartsFit
        <5>. QED BY <1>0, <1>1, <2>4, <2>6, <3>1, <4>1, <4>4, <5>1 DEF PartsFit
      <4>. QED BY <1>3, <1>6, <4>2, <4>3, <4>4
    <3>. QED BY <3>2, <3>3
  <2>8. AnswersFit' BY <1>0, <1>2, <1>4, <2>4, <2>6 DEF ReadyInv, AnswersFit
  <2>. QED BY <1>0, <1>2, <1>4, <2>4, <2>6, <2>7, <2>8
       DEF ReadyInv, ReadyTyped, PlacesFit, VerdictFits, NamedFlaws, NamedDecoder
<1>7. CASE i = 4 /\ parts[Asked[i]] # "down" /\ check' = Done("ok") /\ ~(check.poor \/ Poor(Asked[i]))
             /\ (check.program = "doctor" => Sound(check.sockets))
  <2>1. check' \in CheckRecord /\ check'.at = "done" /\ check'.verdict = "ok" /\ check'.program = check.program
        /\ check'.tail = check.tail /\ check'.sockets = check.sockets
    BY <1>0, <1>7, DoneIs
  <2>2. parts["gateway"] = "up"
    <3>1. parts["gateway"] \in {"up", "bad", "down"} BY <1>0, <1>2
    <3>. QED BY <1>1, <1>7, <3>1 DEF Poor
  <2>3. truth.up = Parts
    <3>1. {"agent", "cdp", "mcp"} \subseteq truth.up /\ "gateway" \in truth.up
      BY <1>0, <1>1, <1>2, <1>4, <1>7, <2>2 DEF ReadyInv, PartsFit
    <3>. QED BY <1>0, <1>2, <3>1 DEF TruthRecord
  <2>4. check.program = "doctor" => SocketsFit BY <1>7, SoundIsPrivate
  <2>5. check.program = "doctor" => SocketsFit' BY <2>1, <2>4 DEF SocketsFit
  <2>6. check.tail => truth.bytes = Greeting /\ ~truth.wrong /\ truth.ended BY <1>4 DEF ReadyInv, AnswersFit
  <2>. QED BY <1>0, <1>2, <1>4, <2>1, <2>3, <2>5, <2>6
       DEF ReadyInv, ReadyTyped, PlacesFit, AnswersFit, PartsFit, VerdictFits, NamedFlaws, NamedDecoder
<1>. QED BY <1>1, <1>5, <1>6, <1>7 DEF AskPart, AfterParts

LEMMA OutageKeeps == ReadyInv /\ Outage => ReadyInv'
<1> SUFFICES ASSUME ReadyInv, Outage PROVE ReadyInv' OBVIOUS
<1>0. check \in CheckRecord /\ truth \in TruthRecord /\ check' = check /\ parts \in [Parts -> {"up", "bad", "down"}]
  BY DEF ReadyInv, ReadyTyped, Outage
<1>1. PICK p \in Parts, s \in {"up", "bad", "down"} :
        parts' = [parts EXCEPT ![p] = s] /\ truth' = [truth EXCEPT !.up = IF s = "up" THEN @ \cup {p} ELSE @]
  BY DEF Outage
<1>2. PICK up \in SUBSET Parts : up = IF s = "up" THEN truth.up \cup {p} ELSE truth.up BY <1>0 DEF TruthRecord
<1>3. truth' = [truth EXCEPT !.up = up] BY <1>0, <1>1, <1>2 DEF TruthRecord
<1>4. truth' \in TruthRecord /\ truth'.up = up /\ truth'.report = truth.report /\ truth'.bytes = truth.bytes
      /\ truth'.wrong = truth.wrong /\ truth'.ended = truth.ended
  BY <1>0, <1>3 DEF TruthRecord
<1>5. parts' \in [Parts -> {"up", "bad", "down"}] /\ \A q \in Parts : parts'[q] = IF q = p THEN s ELSE parts[q]
  BY <1>0, <1>1
<1>6. truth.up \subseteq up BY <1>2
<1>7. check.verdict = "ok" /\ check.program \in {"health", "doctor"} => up = Parts BY <1>6 DEF ReadyInv, VerdictFits
<1>8. ReadyTyped' /\ PlacesFit' BY <1>0, <1>4, <1>5 DEF ReadyInv, ReadyTyped, PlacesFit
<1>9. AnswersFit' BY <1>0, <1>4 DEF ReadyInv, AnswersFit, Wanted
<1>10. PartsFit'
  <2>1. \A q \in Parts : parts'[q] = "up" => q \in truth'.up BY <1>2, <1>4, <1>5 DEF ReadyInv, PartsFit
  <2>2. ASSUME check.at \in Parts, ~check.poor
        PROVE  CASE check.at = "agent" -> TRUE
                 [] check.at = "cdp" -> {"agent"} \subseteq up
                 [] check.at = "mcp" -> {"agent", "cdp"} \subseteq up
                 [] check.at = "gateway" -> {"agent", "cdp", "mcp"} \subseteq up
    BY <1>6, <2>2 DEF ReadyInv, PartsFit, Parts
  <2>. QED BY <1>0, <1>4, <2>1, <2>2 DEF PartsFit
<1>11. VerdictFits' BY <1>0, <1>4, <1>7 DEF ReadyInv, VerdictFits, Wanted, SocketsFit
<1>. QED BY <1>8, <1>9, <1>10, <1>11 DEF ReadyInv

\* A check that passes had the answers it asked for (gpu-status.mjs:42-61,
\* gpu-capture-health.mjs:32-39, main.mjs:47-55, doctor.mjs:17-19).
THEOREM EarnedVerdicts == ReadySpec => []VerdictIsTrue
<1>1. ReadyInv /\ [ReadyNext]_readyVars => ReadyInv'
  <2> SUFFICES ASSUME ReadyInv, [ReadyNext]_readyVars PROVE ReadyInv' OBVIOUS
  <2>1. CASE UNCHANGED readyVars
    BY <2>1 DEF readyVars, ReadyInv, ReadyTyped, PlacesFit, AnswersFit, PartsFit, VerdictFits, Wanted, SocketsFit
  <2>. QED BY <2>1, BeginKeeps, FetchKeeps, ClosesKeeps, SaysKeeps, CaptureKeeps, PieceKeeps, EndKeeps, AskKeeps,
              OutageKeeps DEF ReadyNext, ReadyStep
<1>2. ReadyInv => VerdictIsTrue
  <2>1. Range(Flaws \o DecoderFlaws) = NamedFlaws \cup NamedDecoder /\ Range(Flaws) = NamedFlaws
        /\ Range(DecoderFlaws) = NamedDecoder
    BY FlawSets
  <2>2. Wanted = Range(Flaws) \cup IF check.decode THEN Range(DecoderFlaws) ELSE {} BY <2>1 DEF Wanted
  <2>. QED BY <2>1, <2>2, Zenon DEF ReadyInv, VerdictFits, SocketsFit, VerdictIsTrue
<1>. QED BY CheckStart, <1>1, <1>2, PTL DEF ReadySpec
=============================================================================
