--------------------------- MODULE GatewayControl ---------------------------
(***************************************************************************)
(* The gateway's supervisor (server/gateway-process.mjs), which replaces   *)
(* the gateway for every certificate, and the viewer's web server          *)
(* (server/main.mjs, gateway-admin.mjs), whose queue of bootstraps adopts  *)
(* one session of whichever gateway runs and issues tickets for it.        *)
(*                                                                         *)
(* Each gateway is known by the number of its certificate; it writes the   *)
(* token of that number, answers only requests that carry it, never stops  *)
(* a session, and forgets its sessions when it ends.  A request that was   *)
(* given up is not carried out later.                                      *)
(***************************************************************************)
EXTENDS Naturals, FiniteSets

CONSTANTS Viewers,         \* the POSTs to /bootstrap
          MaxGateways,     \* bound: gateways that are started
          MaxFailures      \* bound: requests to the gateway that fail
ASSUME GatewayAssumption == MaxGateways \in Nat /\ MaxFailures \in Nat

VARIABLES sup,        \* the supervisor and its child
          gateways,   \* how many were started: the number of the present one
          tokenFile,  \* the token in the file, 0: none
          made,       \* made[g]: the sessions that were created at gateway g
          viewer,     \* viewer[v]: "idle", "queued", "served", or its answer
          admin,      \* GatewayAdmin, and the local variables of issueTicket
          failures
adminVars == <<made, viewer, admin, failures>>
gatewayVars == <<sup, gateways, tokenFile, adminVars>>

Gateways == 0..MaxGateways
Admin == [at : {"idle", "token", "list", "create", "ticket"},
          now : Gateways,       \* the token this operation has read
          token : Gateways,     \* this.token
          session : Gateways]   \* this.sessionId: whose session it is, 0: none

GatewayInit ==
  /\ sup = [loop |-> "test", stopping |-> FALSE, rotation |-> FALSE, child |-> "none",
            told |-> FALSE]     \* history: the child was told to end
  /\ gateways = 0 /\ tokenFile = 0 /\ made = [g \in Gateways |-> 0]
  /\ viewer = [v \in Viewers |-> "idle"]
  /\ admin = [at |-> "idle", now |-> 0, token |-> 0, session |-> 0] /\ failures = 0
-----------------------------------------------------------------------------
\* The supervisor.  A signal meets it at an await, between two turns.
Test == /\ sup.loop = "test"
        /\ sup' = [sup EXCEPT !.loop = IF sup.stopping THEN "ended" ELSE "clear"]
        /\ UNCHANGED <<gateways, tokenFile, adminVars>>

\* Mutant of Spawned: a rotation that was asked for before is kept.
SpawnedDue == [sup EXCEPT !.loop = "wait", !.child = "starting", !.told = FALSE]
Spawned == [sup EXCEPT !.loop = "wait", !.child = "starting", !.told = FALSE, !.rotation = FALSE]
\* The old token is gone: a certificate is made and a gateway spawned with it in
\* one turn; or either fails.
Replace ==
  /\ sup.loop = "clear" /\ tokenFile' = 0
  /\ \/ gateways < MaxGateways /\ gateways' = gateways + 1 /\ sup' = Spawned
     \/ UNCHANGED gateways /\ sup' = [sup EXCEPT !.loop = "failed"]
  /\ UNCHANGED adminVars

\* Mutant of Killed: a gateway that is still starting is left alone.
KilledReady == IF sup.child = "ready" THEN "dying" ELSE sup.child
Killed == IF sup.child \in {"starting", "ready"} THEN "dying" ELSE sup.child
\* SIGHUP, or the seven days are over; SIGTERM or SIGINT.  With no child to kill
\* the signal is only noted.
Signal ==
  /\ sup.loop \notin {"ended", "failed"}
  /\ \E flag \in {"stopping", "rotation"} :
       sup' = [sup EXCEPT ![flag] = TRUE, !.child = Killed, !.told = (sup.loop = "wait")]
  /\ UNCHANGED <<gateways, tokenFile, adminVars>>
Exit ==
  /\ sup.loop = "wait" /\ sup.child = "gone"
  /\ sup' = [sup EXCEPT !.loop = IF sup.stopping \/ sup.rotation THEN "test" ELSE "failed"]
  /\ UNCHANGED <<gateways, tokenFile, adminVars>>

\* The gateway writes its token and serves; it ends, when it is told to or by
\* itself.
GatewayReady == /\ sup.child = "starting" /\ sup' = [sup EXCEPT !.child = "ready"]
                /\ tokenFile' = gateways
                /\ UNCHANGED <<gateways, adminVars>>
GatewayEnds == /\ sup.child \in {"starting", "ready", "dying"}
               /\ sup' = [sup EXCEPT !.child = "gone"]
               /\ UNCHANGED <<gateways, tokenFile, adminVars>>
-----------------------------------------------------------------------------
\* Only a trusted POST to /bootstrap reaches the admin.
Bootstrap(v, trusted) ==
  /\ viewer[v] = "idle"
  /\ viewer' = [viewer EXCEPT ![v] = IF trusted THEN "queued" ELSE "forbidden"]
  /\ UNCHANGED <<sup, gateways, tokenFile, made, admin, failures>>

\* The queue: an operation begins when the one before it is settled.
Serve(v) ==
  /\ viewer[v] = "queued" /\ admin.at = "idle"
  /\ viewer' = [viewer EXCEPT ![v] = "served"] /\ admin' = [admin EXCEPT !.at = "token"]
  /\ UNCHANGED <<sup, gateways, tokenFile, made, failures>>
AdminSettles(answer) ==
  /\ admin' = [admin EXCEPT !.at = "idle", !.now = 0]
  /\ viewer' = [v \in Viewers |-> IF viewer[v] = "served" THEN answer ELSE viewer[v]]

\* Mutant of Cached: the session of another gateway is kept.
CachedAny == admin.session # 0
Cached == admin.session # 0 /\ admin.token = tokenFile
\* No token: the gateway is starting.  Another one, or no session yet: the
\* session has to be found first.
ReadToken ==
  /\ admin.at = "token" /\ UNCHANGED <<sup, gateways, tokenFile, made, failures>>
  /\ IF tokenFile = 0 THEN AdminSettles("failed")
     ELSE /\ UNCHANGED viewer
          /\ admin' = [admin EXCEPT !.now = tokenFile, !.token = tokenFile,
                         !.session = IF Cached THEN @ ELSE 0,
                         !.at = IF Cached THEN "ticket" ELSE "list"]

\* The gateway answers requests that carry its token.
Answers == sup.child = "ready" /\ admin.now = gateways
Adopted == [admin EXCEPT !.session = gateways, !.at = "ticket"]
List == /\ admin.at = "list" /\ Answers
        /\ admin' = IF made[gateways] > 0 THEN Adopted ELSE [admin EXCEPT !.at = "create"]
        /\ UNCHANGED <<sup, gateways, tokenFile, made, viewer, failures>>
CreateSession ==
  /\ admin.at = "create" /\ Answers
  /\ made' = [made EXCEPT ![gateways] = @ + 1] /\ admin' = Adopted
  /\ UNCHANGED <<sup, gateways, tokenFile, viewer, failures>>
Ticket == /\ admin.at = "ticket" /\ Answers /\ admin.session = gateways
          /\ AdminSettles("ticket")
          /\ UNCHANGED <<sup, gateways, tokenFile, made, failures>>
\* A request is refused, or its answer is late or lost: a session may have been
\* created all the same.
RequestFails ==
  /\ admin.at \in {"list", "create", "ticket"} /\ AdminSettles("failed")
  /\ \/ ~(Answers /\ admin.session \in {0, gateways}) /\ UNCHANGED <<made, failures>>
     \/ /\ Answers /\ failures < MaxFailures /\ failures' = failures + 1
        /\ made' \in {made} \cup (IF admin.at = "create" THEN {[made EXCEPT ![gateways] = @ + 1]} ELSE {})
  /\ UNCHANGED <<sup, gateways, tokenFile>>

SupervisorStep == Test \/ Replace \/ Exit
AdminStep == (\E v \in Viewers : Serve(v)) \/ ReadToken \/ List \/ CreateSession \/ Ticket \/ RequestFails
GatewayNext ==
  \/ SupervisorStep \/ Signal \/ GatewayReady \/ GatewayEnds
  \/ AdminStep \/ \E v \in Viewers, trusted \in BOOLEAN : Bootstrap(v, trusted)
GatewaySpec == GatewayInit /\ [][GatewayNext]_gatewayVars
-----------------------------------------------------------------------------
\* However many viewers bootstrap, fail and come again while gateways are
\* replaced, a gateway has one session of theirs (gateway-admin.mjs:14), and the
\* admin never asks for a ticket to a session of another gateway (:31).
OneSessionEach ==
  /\ \A g \in Gateways : made[g] <= 1
  /\ admin \in Admin /\ (admin.session # 0 => admin.session = admin.token)
  /\ admin.at = "ticket" => admin.session = admin.now

\* A gateway's exit restarts the loop exactly if it was told to end: a rotation
\* asked for while none ran hides no later crash, and one that meets a gateway,
\* even a starting one, is no crash (gateway-process.mjs:32-39).
ExitsAreTold ==
  [][sup.loop = "wait" /\ sup'.loop # "wait" =>
       (sup'.loop = "test") = (sup.told \/ sup.stopping)]_gatewayVars

\* Such a rotation brings a new certificate, and every viewer is answered.
RotationsAreServed ==
  /\ ExitsAreTold
  /\ \A g \in 1..MaxGateways-1 : (gateways = g /\ sup.told /\ ~sup.stopping) ~>
        (gateways > g \/ sup.stopping \/ sup.loop = "failed")
  /\ \A v \in Viewers : (viewer[v] = "queued") ~> (viewer[v] \in {"ticket", "failed"})
\* Both together: a gateway that is replaced leaves its viewers neither two
\* sessions nor none.
GatewaysHold == []OneSessionEach /\ RotationsAreServed
=============================================================================
