--------------------------- MODULE Qualifications ---------------------------
(***************************************************************************)
(* The qualification programs that drive a disposable runtime from the     *)
(* host, and what their verdict may be trusted for.                        *)
(*   - check-display-controls.mjs and check-scroll-integrity.mjs: their    *)
(*     fixture is a tab in the container's browser, made, used and closed  *)
(*     by programs that they start in the container and wait for, 20       *)
(*     seconds at most.  The one that is given up goes on.                 *)
(*   - the checkpoints of the two, which compare the viewer's canvas with  *)
(*     a display that goes on moving.                                      *)
(*   - benchmark-capture.mjs: inputs to the host, and the batches of tiles *)
(*     that answer them, late or never.                                    *)
(*   - test-compose.mjs: a whole Compose project, and its cleanup.         *)
(***************************************************************************)
EXTENDS Naturals, Sequences, SequencesExt

CONSTANTS Screens,       \* pictures of the display: sequences of pixels, by their size
          LookAttempts,  \* how often a checkpoint looks: 8 and 4 times
          Samples,       \* inputs of one benchmark
          MaxWire        \* bound: messages of the host on their way
ASSUME QualificationAssumption ==
  /\ \A s \in Screens : s \in Seq(Nat) /\ s # <<>>
  /\ Screens # {} /\ LookAttempts \in Nat \ {0}
  /\ Samples \in 1..240 /\ MaxWire \in Nat

VARIABLES check,       \* a qualification with a fixture tab: its program, and where it is
          fixtureTab,  \* "none", "blank", "marked" with the program's token, or "closed"
          commands,    \* commands[k]: where the program in the container is
          x11,         \* what the display shows
          look,        \* a checkpoint
          sampler,     \* benchmark-capture.mjs
          inputs,      \* inputs that the page has not seen
          painted,     \* how often the page has been repainted
          wire,        \* from the host: colours of the marker's tile, and 0 for the end of a batch
          compose,     \* test-compose.mjs
          things       \* things[t]: "none", "labelled" or "unlabelled" in its project
tabCheckVars == <<check, fixtureTab, commands>>
lookVars == <<x11, look>>
samplerVars == <<sampler, inputs, painted, wire>>
composeVars == <<compose, things>>
qualificationVars == <<tabCheckVars, lookVars, samplerVars, composeVars>>
-----------------------------------------------------------------------------
(* The fixture tab. *)
CommandKinds == {"create", "use", "diagnose", "close"}
CommandEnded(k) == commands[k] \in {"answered", "refused"}
TabCheckInit ==
  /\ check \in [program : {"controls", "scroll"}, at : {"create"}, known : {FALSE}, asks : {"nobody"},
                failed : {FALSE}, browser : {FALSE}, report : {"none"}]
  /\ fixtureTab = "none" /\ commands = [k \in CommandKinds |-> "none"]

\* The program in the container.  A call of its own may fail, with its effect or
\* without; a tab that it made it closes again, if it can.
CommandAt(k, at) == commands' = [commands EXCEPT ![k] = at]
CommandFails(k) == CommandAt(k, IF k = "create" THEN "undo" ELSE "refused")
ConnectCommand(k) ==
  /\ commands[k] = "connect" /\ UNCHANGED <<check, fixtureTab>>
  /\ CommandAt(k, IF k = "create" THEN "target" ELSE "attach") \/ CommandAt(k, "refused")
CreateTarget ==
  /\ commands["create"] = "target" /\ UNCHANGED check
  /\ \/ fixtureTab' = "blank" /\ CommandAt("create", "attach")
     \/ fixtureTab' \in {"none", "blank"} /\ CommandAt("create", "refused")
AttachTarget(k) ==
  /\ commands[k] = "attach" /\ UNCHANGED <<check, fixtureTab>>
  /\ \/ fixtureTab # "closed" /\ CommandAt(k, IF k = "create" THEN "act" ELSE "token")
     \/ CommandFails(k)
CheckToken(k) ==
  /\ commands[k] = "token" /\ UNCHANGED <<check, fixtureTab>>
  /\ (fixtureTab = "marked" /\ CommandAt(k, "act")) \/ CommandFails(k)
ActsOn(k) == IF k = "create" THEN "marked" ELSE IF k = "close" THEN "closed" ELSE fixtureTab
ActOnTab(k) ==
  /\ commands[k] = "act" /\ UNCHANGED check
  /\ \/ fixtureTab # "closed" /\ fixtureTab' = ActsOn(k) /\ CommandAt(k, "answered")
     \/ fixtureTab' \in {fixtureTab, ActsOn(k)} /\ CommandFails(k)
UndoCreate == /\ commands["create"] = "undo" /\ CommandAt("create", "refused")
              /\ fixtureTab' \in {fixtureTab, "closed"} /\ UNCHANGED check

\* The program on the host: its steps, and where its try block ends in catch and finally.
Follow == [controls |-> [create |-> "metadata", metadata |-> "launch", launch |-> "views", views |-> "shut",
                         diagnose |-> "shut", shut |-> "close", close |-> "report", report |-> "over"],
           scroll |-> [create |-> "launch", launch |-> "views", views |-> "report",
                       report |-> "close", close |-> "shut", shut |-> "over"]]
GoesOn(c) == [c EXCEPT !.at = Follow[c.program][c.at], !.asks = "nobody"]
Throws(c) == [c EXCEPT !.failed = TRUE, !.asks = "nobody",
                       !.at = IF c.at \notin {"create", "metadata", "launch", "views"} THEN "over"
                              ELSE IF c.program = "controls" THEN "diagnose" ELSE "report"]
\* What is not closed fails the qualification.
\* Mutant of NotClosed: it is only logged.
NotClosedLogged(c) == GoesOn(c)
NotClosed(c) == [GoesOn(c) EXCEPT !.failed = TRUE]
Answers(k) == IF k = "create" THEN [GoesOn(check) EXCEPT !.known = TRUE]
              ELSE IF check.at = "views" THEN [check EXCEPT !.asks = "nobody"] ELSE GoesOn(check)
Denies(k) == IF k = "close" THEN NotClosed(check) ELSE IF k = "diagnose" THEN GoesOn(check) ELSE Throws(check)
AskCommand(k) ==
  /\ check.asks = "nobody"
  /\ \/ k = "use" /\ check.at \in {"metadata", "views"}
     \/ check.at = k /\ (k = "create" \/ check.known)
  /\ CommandAt(k, "connect") /\ check' = [check EXCEPT !.asks = k] /\ UNCHANGED fixtureTab
HearCommand(k) ==
  /\ check.asks = k /\ CommandEnded(k) /\ UNCHANGED <<fixtureTab, commands>>
  /\ check' = IF commands[k] = "answered" THEN Answers(k) ELSE Denies(k)
GiveUpCommand(k) ==
  /\ check.asks = k /\ ~CommandEnded(k) /\ check' = Denies(k) /\ UNCHANGED <<fixtureTab, commands>>
\* What else the host does: the viewer's browser, the assertions, the report.
HostDoes(at) == check.at = at /\ check.asks = "nobody" /\ UNCHANGED <<fixtureTab, commands>>
LaunchViewer == HostDoes("launch") /\ check' \in {[GoesOn(check) EXCEPT !.browser = TRUE], Throws(check)}
\* The views are as they must be, are not (the scroll check goes on then), or a step throws.
EndViews == /\ HostDoes("views")
            /\ \/ check' \in {GoesOn(check), Throws(check)}
               \/ check.program = "scroll" /\ check' = [GoesOn(check) EXCEPT !.failed = TRUE]
SkipCommand == (HostDoes("diagnose") \/ HostDoes("close")) /\ ~check.known /\ check' = GoesOn(check)
ShutViewer == /\ HostDoes("shut")
              /\ \/ check' = [GoesOn(check) EXCEPT !.browser = FALSE]
                 \/ check.browser /\ check' = Throws(check)
WriteReport == /\ HostDoes("report")
               /\ check' \in {[GoesOn(check) EXCEPT !.report = IF check.failed THEN "failed" ELSE "passed"], Throws(check)}
TabCheckNext ==
  \/ \E k \in CommandKinds :
       \/ ConnectCommand(k) \/ AttachTarget(k) \/ CheckToken(k) \/ ActOnTab(k)
       \/ AskCommand(k) \/ HearCommand(k) \/ GiveUpCommand(k)
  \/ CreateTarget \/ UndoCreate \/ LaunchViewer \/ EndViews \/ SkipCommand \/ ShutViewer \/ WriteReport
-----------------------------------------------------------------------------
(* A checkpoint: the viewer, the display's size, the display, the viewer,    *)
(* the display and, in the scroll check, its size again.  The viewer may     *)
(* show anything; the display is grabbed as large as the viewer was, and     *)
(* cannot be when it is smaller.                                             *)
Cut(s, n) == SubSeq(s, 1, n)
LookInit ==
  /\ x11 \in Screens
  /\ look \in [program : {"controls", "scroll"}, at : {"first"}, width : {0}, size : {0}, reference : {<<>>}, second : {<<>>},
               still : {FALSE}, tries : {0},
               moves : {0}, truth : {<<>>}]  \* history: the display's moves, and what it showed at the second look
X11Moves == /\ x11' \in Screens \ {x11}
            /\ look' = [look EXCEPT !.moves = IF @ = 0 THEN 1 ELSE 2]
Looks(at, next) == look.at = at /\ look' = next /\ UNCHANGED x11
FirstLook == \E s \in Screens : Looks("first", [look EXCEPT !.at = "size", !.width = Len(s), !.moves = 0])
ReadSize == Looks("size", [look EXCEPT !.size = Len(x11),
              !.at = IF look.program = "controls" /\ look.width # Len(x11) THEN "threw" ELSE "grab"])
Grabs == Len(x11) >= look.width
GrabDisplay ==
  \/ Grabs /\ Looks("grab", [look EXCEPT !.at = "second", !.reference = Cut(x11, look.width)])
  \/ ~Grabs /\ Looks("grab", [look EXCEPT !.at = "threw"])
SecondLook == \E s \in Screens : Looks("second", [look EXCEPT !.at = "regrab", !.second = s, !.truth = x11])
GrabAgain ==
  \/ Grabs /\ Looks("regrab", [look EXCEPT !.at = "judge", !.still = look.reference = Cut(x11, look.width)])
  \/ ~Grabs /\ Looks("regrab", [look EXCEPT !.at = "threw"])
\* A truth that moved is not compared.
\* Mutant of TruthStood: the display is grabbed once.
TruthStoodAnyway == Len(look.second) = look.width
TruthStood == look.still /\ Len(look.second) = look.width /\ (look.program = "scroll" => Len(x11) = look.size)
Exact == look.second = look.reference /\ (look.program = "scroll" => look.width = Len(x11))
JudgeLook ==
  Looks("judge", IF TruthStood /\ Exact THEN [look EXCEPT !.at = "passed"]
                 ELSE [look EXCEPT !.tries = @ + 1, !.at = IF look.tries + 1 < LookAttempts THEN "first" ELSE "failed"])
LookNext == X11Moves \/ FirstLook \/ ReadSize \/ GrabDisplay \/ SecondLook \/ GrabAgain \/ JudgeLook
-----------------------------------------------------------------------------
(* The benchmark of the host's capture.  Each input repaints the page's      *)
(* marker, in the colour of the repaint's number; an input may get lost.     *)
MarkerColour(n) == ((n * 37) % 240) + 8
SamplerInit ==
  /\ sampler = [at |-> "pause", n |-> 0, seen |-> FALSE, latencies |-> {}, timeouts |-> {}, failed |-> FALSE,
                printed |-> FALSE]
  /\ inputs = 0 /\ painted = 0 /\ wire = <<>>
\* Mutant of Asked: what was seen for the input before counts.
AskedOnly(s) == [s EXCEPT !.at = "waits", !.n = @ + 1]
Asked(s) == [s EXCEPT !.at = "waits", !.n = @ + 1, !.seen = FALSE]
SendInput == /\ sampler.at = "pause" /\ sampler.n < Samples /\ sampler' = Asked(sampler)
             /\ inputs' = inputs + 1 /\ UNCHANGED <<painted, wire>>
RepaintMarker == /\ inputs > 0 /\ inputs' = inputs - 1 /\ painted' \in {painted, painted + 1}
                 /\ UNCHANGED <<sampler, wire>>
HostSends == /\ Len(wire) < MaxWire /\ UNCHANGED <<sampler, inputs, painted>>
             /\ wire' = Append(wire, 0) \/ (painted > 0 /\ wire' = Append(wire, MarkerColour(painted)))
\* The last tile before the end of a batch decides; the batch answers the one who waits.
TakeMessage ==
  /\ wire # <<>> /\ sampler.at \in {"pause", "waits"}
  /\ wire' = Tail(wire) /\ UNCHANGED <<inputs, painted>>
  /\ sampler' = IF Head(wire) # 0
                THEN [sampler EXCEPT !.seen = sampler.n > 0 /\ Head(wire) = MarkerColour(sampler.n)]
                ELSE IF sampler.seen /\ sampler.at = "waits"
                THEN [sampler EXCEPT !.at = "pause", !.latencies = @ \cup {sampler.n}] ELSE sampler
SampleTimeout == /\ sampler.at = "waits" /\ UNCHANGED <<inputs, painted, wire>>
                 /\ sampler' = [sampler EXCEPT !.at = "pause", !.timeouts = @ \cup {sampler.n}]
\* The socket, a message or a step fails; at the end the page must have seen every input.
SamplerFails == /\ sampler.at \in {"pause", "waits"} /\ UNCHANGED <<inputs, painted, wire>>
                /\ sampler' = [sampler EXCEPT !.at = "close", !.failed = TRUE]
EndSamples == /\ sampler.at = "pause" /\ sampler.n = Samples /\ UNCHANGED <<inputs, painted, wire>>
              /\ sampler' = [sampler EXCEPT !.at = "close", !.failed = painted # Samples]
\* The result is printed behind the cleanup.
CloseSampler ==
  /\ sampler.at = "close" /\ UNCHANGED <<inputs, painted, wire>>
  /\ \/ sampler' = [sampler EXCEPT !.at = "over", !.printed = ~sampler.failed]
     \/ sampler' = [sampler EXCEPT !.at = "over", !.failed = TRUE]
SamplerNext == \/ SendInput \/ RepaintMarker \/ HostSends \/ TakeMessage \/ SampleTimeout
               \/ SamplerFails \/ EndSamples \/ CloseSampler
-----------------------------------------------------------------------------
(* A Compose project: the cleanup removes what has the project's label of    *)
(* this run, and refuses to remove anything else.                            *)
ThingKinds == {"container", "network", "volume"}
ComposeInit ==
  /\ compose = [at |-> "prepare", failed |-> FALSE, directory |-> TRUE,
                going |-> FALSE]   \* the daemon still makes what it was asked for
  /\ things = [t \in ThingKinds |-> "none"]
ComposeAt(at) == compose' = [compose EXCEPT !.at = at]
ComposeFails(at) == compose' = [compose EXCEPT !.at = at, !.failed = TRUE]
\* A container needs what it is attached to.
Attached(made) == made["container"] # "none" => \A t \in ThingKinds : made[t] # "none"
PrepareCompose == /\ compose.at = "prepare" /\ UNCHANGED things
                  /\ ComposeAt("up") \/ ComposeFails("directory")
ComposeUp ==
  /\ compose.at = "up"
  /\ things' \in {made \in [ThingKinds -> {"none", "labelled", "unlabelled"}] : Attached(made)}
  /\ \/ ComposeAt("checks")
     \/ \E goes \in BOOLEAN : compose' = [compose EXCEPT !.at = "container", !.failed = TRUE, !.going = goes]
DaemonGoesOn ==
  /\ compose.going
  /\ \/ \E t \in ThingKinds : /\ things[t] = "none" /\ things' = [things EXCEPT ![t] = "labelled"]
                             /\ Attached(things') /\ UNCHANGED compose
     \/ UNCHANGED things /\ compose' = [compose EXCEPT !.going = FALSE]
CheckCompose == /\ compose.at = "checks" /\ UNCHANGED things
                /\ ComposeAt("container") \/ ComposeFails("container")
\* docker rm, for what has the label and nothing uses; any command may fail, and its
\* failure ends the cleanup.
Removable(t) == things[t] = "labelled" /\ (t = "container" \/ things["container"] = "none")
Removed(t) == IF Removable(t) THEN [things EXCEPT ![t] = "none"] ELSE things
CleanThing(t, next) ==
  /\ compose.at = t
  /\ \/ things' = Removed(t) /\ (t = "container" \/ things'[t] = "none") /\ ComposeAt(next)
     \/ things' \in {things, Removed(t)} /\ ComposeFails("over")
VerifyContainers == /\ compose.at = "verify" /\ UNCHANGED things
                    /\ (things["container"] = "none" /\ ComposeAt("directory")) \/ ComposeFails("over")
RemoveDirectory == /\ compose.at = "directory" /\ UNCHANGED things
                   /\ \/ compose' = [compose EXCEPT !.at = "over", !.directory = FALSE]
                      \/ ComposeFails("over")
ComposeNext ==
  \/ PrepareCompose \/ ComposeUp \/ DaemonGoesOn \/ CheckCompose \/ VerifyContainers \/ RemoveDirectory
  \/ CleanThing("container", "network") \/ CleanThing("network", "volume") \/ CleanThing("volume", "verify")

QualificationInit == TabCheckInit /\ LookInit /\ SamplerInit /\ ComposeInit
QualificationNext ==
  \/ TabCheckNext /\ UNCHANGED <<lookVars, samplerVars, composeVars>>
  \/ LookNext /\ UNCHANGED <<tabCheckVars, samplerVars, composeVars>>
  \/ SamplerNext /\ UNCHANGED <<tabCheckVars, lookVars, composeVars>>
  \/ ComposeNext /\ UNCHANGED <<tabCheckVars, lookVars, samplerVars>>
QualificationSpec == QualificationInit /\ [][QualificationNext]_qualificationVars
-----------------------------------------------------------------------------
\* A check that ends without a failure leaves no tab and no viewer, and nothing of it
\* goes on in the container; the display check's report says so only then (line 479).
TabIsClosed ==
  /\ check.at = "over" /\ ~check.failed =>
       /\ fixtureTab = "closed" /\ ~check.browser /\ check.report = "passed"
       /\ \A k \in CommandKinds : commands[k] \in {"none", "answered"}
  /\ check.program = "controls" /\ check.report = "passed" => fixtureTab = "closed" /\ ~check.browser
\* What a checkpoint passes the viewer showed when the display did, unless the display
\* moved away and back meanwhile: the part of it that was grabbed and, in the scroll
\* check, which reads the size again, all of it.
LookIsExact ==
  look.at = "passed" /\ look.moves <= 1 =>
    /\ Len(look.second) <= Len(look.truth) /\ look.second = Cut(look.truth, Len(look.second))
    /\ look.program = "scroll" => look.second = look.truth
\* A latency ends with the repaint of its own input, never with the late one of an
\* input before; a printed result has each input once, and the page saw them all.
LatenciesAreOwn ==
  /\ \A n \in sampler.latencies : n <= painted
  /\ sampler.printed =>
       /\ sampler.latencies \cup sampler.timeouts = 1..Samples /\ painted = Samples
       /\ sampler.latencies \cap sampler.timeouts = {}
\* A Compose test that ends without a failure leaves nothing of its project.
ProjectIsGone ==
  compose.at = "over" /\ ~compose.failed =>
    ~compose.directory /\ ~compose.going /\ \A t \in ThingKinds : things[t] = "none"
\* The programs that qualify a runtime say no more than they know: nothing stays
\* behind a verdict without a failure, and what lacks the label is not removed (test-
\* compose.mjs:99); exact pixels and latencies are those of one moment and one input.
QualificationsAreSound ==
  /\ [](TabIsClosed /\ LookIsExact /\ LatenciesAreOwn /\ ProjectIsGone)
  /\ [][\A t \in ThingKinds : things[t] = "unlabelled" => things'[t] = "unlabelled"]_qualificationVars
=============================================================================
