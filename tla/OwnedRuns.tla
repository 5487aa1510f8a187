----------------------------- MODULE OwnedRuns -----------------------------
(***************************************************************************)
(* Two runs of a whole runtime that own what they use, leave nothing       *)
(* behind and touch nothing of others: DisposableRun with the program      *)
(* test-runtime.mjs, whose docker commands block it, so that a signal      *)
(* meets it only where it awaits, and McpBaselineSession with its browser, *)
(* its MCP child and their temporary profile.                              *)
(*                                                                         *)
(* A docker command may fail without effect, or with it, when it takes     *)
(* longer than its timeout.  docker removes no volume and no network that  *)
(* a container still has, and takes a volume that exists for the new one.  *)
(***************************************************************************)
EXTENDS Naturals, Sequences, SequencesExt, FiniteSets

CONSTANTS MaxLaunches   \* bound: launches of one session
ASSUME OwnedAssumption == MaxLaunches \in Nat

VARIABLES docker,   \* docker[r]: "none", "ours", "stopped" or, of someone else, "theirs"
          trial,    \* DisposableRun, and where the program is in it
          baseline  \* McpBaselineSession, and what runs
ownedVars == <<docker, trial, baseline>>

Volumes == <<"data", "shared">>
Mounting == {"init", "first", "recreated"}   \* the containers that have the volumes
Containers == {"fixture"} \cup Mounting
Rank == [fixture |-> 1, init |-> 2, first |-> 3, recreated |-> 4]   \* in the order of the plan

\* What the program does, in order; it awaits before the steps in Awaits.
Plan == <<"net", "data", "shared", "fixture", "init", "first", "ready", "script", "restart",
          "ready", "script", "remove", "recreated", "ready", "script">>
Awaits == {4, 7, 8, 10, 14}

DockerObjects == {"net"} \cup ToSet(Volumes) \cup Containers
OwnedInit ==
  /\ docker \in [DockerObjects -> {"none", "theirs"}]
  /\ \A c \in Containers : docker[c] = "none"
  /\ trial = [at |-> 1, half |-> FALSE, containers |-> {}, volumes |-> <<>>, network |-> FALSE,
              browser |-> "none",
              odd |-> FALSE]     \* history: a command failed that had its effect, or cleans up
  /\ baseline = [at |-> "none", temporary |-> FALSE, browsers |-> 0, child |-> "none",
                 connected |-> FALSE, failed |-> FALSE, launches |-> 0, restarts |-> FALSE]
-----------------------------------------------------------------------------
(* DisposableRun. *)
Running == trial.at \in 1..Len(Plan)
Task == Plan[trial.at]
Onward(t) == [t EXCEPT !.at = @ + 1, !.half = FALSE]
CleansUp(t) == [t EXCEPT !.at = 100]
TrialEnded(t) == [t EXCEPT !.at = 101]
Odd(t) == [t EXCEPT !.odd = TRUE]
\* docker ... create: what it makes, and whether it says so.
Makes(r, success) ==
  \/ /\ docker' = IF docker[r] = "theirs" THEN docker ELSE [docker EXCEPT ![r] = "ours"]
     /\ trial' \in {success, Odd(CleansUp(trial))}
  \/ UNCHANGED docker /\ trial' = CleansUp(trial)
Fails == UNCHANGED docker /\ trial' = CleansUp(trial)

CreateNetwork ==
  /\ Running /\ Task = "net"
  /\ IF docker["net"] = "theirs" THEN Fails ELSE Makes("net", [Onward(trial) EXCEPT !.network = TRUE])
\* Mutant of Refuses: what exists under this name is used.
RefusesNothing(v) == FALSE
Refuses(v) == docker[v] = "theirs"
CreateVolume ==
  /\ Running /\ Task \in ToSet(Volumes)
  /\ IF Refuses(Task) THEN Fails ELSE Makes(Task, [Onward(trial) EXCEPT !.volumes = Append(@, Task)])
\* create(): the container is remembered before it is started.
\* Mutant of Remembered: it is remembered by who gets its id.
RememberedNever(t) == [t EXCEPT !.half = TRUE]
Remembered(t) == [t EXCEPT !.half = TRUE, !.containers = @ \cup {Task}]
CreateContainer == Running /\ Task \in Containers /\ ~trial.half /\ Makes(Task, Remembered(trial))
StartContainer ==
  /\ Running /\ Task \in Containers /\ trial.half
  /\ \/ UNCHANGED docker /\ trial' = [Onward(trial) EXCEPT !.browser = IF Task \in {"fixture", "init"} THEN @ ELSE Task]
     \/ Fails
\* assertBrowser(), and what is done with the browser that it recognises.
UseBrowser ==
  /\ Running /\ Task \in {"ready", "script", "restart"}
  /\ (docker[trial.browser] = "ours" /\ UNCHANGED docker /\ trial' = Onward(trial)) \/ Fails

\* remove(): its label, docker stop, docker rm; only then it is forgotten.
Stops(c, failed) ==
  /\ docker[c] = "ours"
  /\ \/ docker' = [docker EXCEPT ![c] = "stopped"] /\ UNCHANGED trial
     \/ docker' \in {docker, [docker EXCEPT ![c] = "stopped"]} /\ trial' = failed
Removes(c, removed, failed) ==
  /\ docker[c] = "stopped"
  /\ \/ docker' = [docker EXCEPT ![c] = "none"]
        /\ trial' = [removed EXCEPT !.containers = @ \ {c}]
     \/ UNCHANGED docker /\ trial' = failed
     \/ docker' = [docker EXCEPT ![c] = "none"] /\ trial' = Odd(failed)
RemoveBrowser ==
  /\ Running /\ Task = "remove"
  /\ Stops(trial.browser, CleansUp(trial)) \/ Removes(trial.browser, Onward(trial), CleansUp(trial))

\* The first signal at an await, and the end of the program.
InterruptTrial == Running /\ trial.at \in Awaits /\ Fails
EndTrial == trial.at = Len(Plan) + 1 /\ Fails

\* The ids are kept in the order of the plan, that makes each container once: the
\* latest of them is what the reversed list begins with.
Latest(made) == CHOOSE c \in made : \A d \in made : Rank[d] <= Rank[c]
\* cleanup(): the containers, the latest first, then the volumes, then the
\* network.  Its first failure ends it.
\* Mutant of Cleans: the volumes come first.
CleansVolumes == IF trial.volumes # <<>> THEN "volume" ELSE IF trial.containers # {} THEN "container" ELSE "network"
Cleans == IF trial.containers # {} THEN "container" ELSE IF trial.volumes # <<>> THEN "volume" ELSE "network"
CleanContainer ==
  /\ trial.at = 100 /\ Cleans = "container"
  /\ LET c == Latest(trial.containers)
         failed == Odd(TrialEnded(trial))
     IN \/ Stops(c, failed) \/ Removes(c, trial, failed)
        \/ docker[c] = "none" /\ UNCHANGED docker /\ trial' = TrialEnded(trial)
Unused(r) == r = "net" \/ \A c \in Mounting : docker[c] = "none"
Deletes(r, deleted) ==
  IF docker[r] = "ours" /\ Unused(r)
  THEN \/ docker' = [docker EXCEPT ![r] = "none"] /\ trial' \in {deleted, Odd(TrialEnded(trial))}
       \/ UNCHANGED docker /\ trial' = Odd(TrialEnded(trial))
  ELSE UNCHANGED docker /\ trial' = TrialEnded(trial)
CleanVolume == /\ trial.at = 100 /\ Cleans = "volume"
               /\ Deletes(Head(trial.volumes), [trial EXCEPT !.volumes = Tail(@)])
CleanNetwork ==
  /\ trial.at = 100 /\ Cleans = "network"
  /\ IF trial.network THEN Deletes("net", [TrialEnded(trial) EXCEPT !.network = FALSE])
     ELSE UNCHANGED docker /\ trial' = TrialEnded(trial)
-----------------------------------------------------------------------------
(* McpBaselineSession. *)
SessionAt(at) == baseline' = [baseline EXCEPT !.at = at]
StartSession == baseline.at = "none" /\ baseline' = [baseline EXCEPT !.at = "launch", !.temporary = TRUE]
\* #launch(): the browser, the child, its endpoint, the client; each may fail, and
\* then the program closes the session.
Launch ==
  /\ baseline.at = "launch" /\ baseline.launches < MaxLaunches
  /\ \/ baseline' = [baseline EXCEPT !.at = "spawn", !.browsers = @ + 1, !.launches = @ + 1]
     \/ SessionAt("close")
Spawn == /\ baseline.at = "spawn"
         /\ SessionAt("close") \/ baseline' = [baseline EXCEPT !.at = "endpoint", !.child = "up"]
Endpoint == /\ baseline.at = "endpoint"
            /\ SessionAt("close") \/ (baseline.child = "up" /\ SessionAt("connect"))
Connect == /\ baseline.at = "connect"
           /\ \E known \in BOOLEAN, at \in {"up", "close"} :
                /\ at = "up" => known /\ baseline.child = "up"
                /\ baseline' = [baseline EXCEPT !.at = at, !.connected = known]
ChildExits == baseline.child = "up" /\ baseline' = [baseline EXCEPT !.child = "exited"]
EndSession == baseline.at = "up" /\ SessionAt("close")
RestartSession == /\ baseline.at = "up" /\ baseline.launches < MaxLaunches
                  /\ baseline' = [baseline EXCEPT !.at = "terminate", !.restarts = TRUE, !.failed = FALSE]
CloseSession == baseline.at = "close"
                /\ baseline' = [baseline EXCEPT !.at = "terminate", !.restarts = FALSE, !.failed = FALSE]

\* #stop(): every part is attempted; what fails or takes three seconds is noted.
\* Mutant of Attempted: the first failure ends it.
AttemptedOnce(to, fails) == IF fails THEN "stopped" ELSE to
Attempted(to, fails) == to
Attempt(from, to, change) ==
  /\ baseline.at = from
  /\ \E fails \in BOOLEAN :
       baseline' = [change EXCEPT !.at = Attempted(to, fails), !.failed = @ \/ fails]
TerminateSession ==
  IF baseline.connected THEN Attempt("terminate", "disconnect", baseline)
  ELSE baseline.at = "terminate" /\ SessionAt("disconnect")
CloseClient == Attempt("disconnect", "kill", baseline)
\* SIGTERM, after three seconds SIGKILL; its exit is waited for.
KillChild == baseline.at = "kill" /\ baseline' = [baseline EXCEPT !.at = "context",
               !.child = IF @ = "up" THEN "exited" ELSE @]
CloseContext ==
  /\ baseline.at = "context"
  /\ \/ baseline' = [baseline EXCEPT !.at = "stopped", !.browsers = 0]
     \/ baseline' = [baseline EXCEPT !.at = "stopped", !.failed = TRUE]
\* restart() launches anew and close() deletes, but not after a failure.
\* Mutant of StoppedHow: what failed is not asked for.
StoppedAnyway == "clean"
StoppedHow == IF baseline.failed THEN "failed" ELSE "clean"
SessionStopped ==
  /\ baseline.at = "stopped"
  /\ IF StoppedHow = "failed" THEN SessionAt(IF baseline.restarts THEN "close" ELSE "left")
     ELSE baseline' = IF baseline.restarts THEN [baseline EXCEPT !.at = "launch", !.child = "none", !.connected = FALSE]
                      ELSE [baseline EXCEPT !.at = "gone", !.temporary = FALSE]

TrialStep ==
  \/ CreateNetwork \/ CreateVolume \/ CreateContainer \/ StartContainer \/ UseBrowser \/ RemoveBrowser
  \/ InterruptTrial \/ EndTrial \/ CleanContainer \/ CleanVolume \/ CleanNetwork
BaselineStep ==
  \/ StartSession \/ Launch \/ Spawn \/ Endpoint \/ Connect \/ ChildExits \/ EndSession \/ RestartSession
  \/ CloseSession \/ TerminateSession \/ CloseClient \/ KillChild \/ CloseContext \/ SessionStopped
OwnedNext == \/ TrialStep /\ UNCHANGED baseline
             \/ BaselineStep /\ UNCHANGED <<docker, trial>>
OwnedSpec == OwnedInit /\ [][OwnedNext]_ownedVars
-----------------------------------------------------------------------------
\* Wherever a trial fails or is interrupted, nothing of its own is left, unless a
\* command failed that had its effect or the cleanup's own did; no container of
\* it ever runs on a volume of someone else (disposable-run.mjs:41), and nothing
\* of theirs is touched.  A session never has two browsers on its profile, leaves
\* no child, and deletes the profile only when nothing can use it any more, not
\* after a failure to stop (mcp-baseline-session.mjs:146).
OwnedIsClean ==
  /\ [](/\ trial.at = 101 /\ ~trial.odd => \A r \in DOMAIN docker : docker[r] \in {"none", "theirs"}
        /\ (\E c \in Mounting : docker[c] # "none") => \A v \in ToSet(Volumes) : docker[v] = "ours"
        /\ baseline.browsers <= 1
        /\ baseline.at \in {"left", "gone"} => baseline.child # "up"
        /\ baseline.at = "gone" => baseline.browsers = 0)
  /\ [][\A r \in DOMAIN docker : docker[r] = "theirs" => docker'[r] = "theirs"]_ownedVars
=============================================================================
