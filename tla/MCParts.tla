------------------------------ MODULE MCParts ------------------------------
(* The parts of the system that share no state, each on a small instance.    *)
(* The focus of a behaviour is the part that moves in it; the others are at  *)
(* rest in one of their initial states.                                      *)
EXTENDS LeasePool, PacingLedger, BrowserTabs, Observations, SharedFiles, CallShapes,
        TableReader, RefKeys, ViewerSession, ViewerDisplay, Enhancement, PatchOverlay, OwnedRuns,
        Measurements, InputBarrier, PresentClock, WorkflowPacer, Qualifications, TLC

\* Two sizes that share one tile, so that a slot copied for one size could
\* be taken for the other.
MCSizes == {{1, 2}, {1}}

\* A strict and a loose policy for one site, and a policy for another one; the
\* capacity is one site less than there are.
PolicyOf(s, min, jit, max, win) ==
  [site |-> s, minInterval |-> min, jitter |-> jit, maxActions |-> max, window |-> win]
MCPolicies == {PolicyOf("a", 1, 1, 1, 3), PolicyOf("a", 0, 0, 2, 2), PolicyOf("b", 0, 0, 2, 1)}
MCSites == {"a", "b"}
MCTimes == 0..5

\* A page whose wanted lines hang from a frame that is not wanted, and the same
\* page with a line renamed.
Line(i, w, r, s) == [indent |-> i, wanted |-> w, ref |-> r, size |-> s]
MCBefore == <<Line(0, FALSE, "e1", 1), Line(1, FALSE, NoRef, 2), Line(2, TRUE, "e2", 3),
              Line(2, TRUE, "e3", 1), Line(1, TRUE, "e4", 1)>>
MCAfter == <<Line(0, FALSE, "e1", 1), Line(1, TRUE, "e5", 1), Line(1, TRUE, "e4", 1)>>
MCSnapshots == {MCBefore, MCAfter}
MCProjections == {[offset |-> 0, limit |-> 2, budget |-> 6], [offset |-> 0, limit |-> 9, budget |-> 9]}

MCInodes == {[id |-> 1, size |-> 2], [id |-> 2, size |-> 1]}

\* Rows that fit, that fill the budget, that have too many cells, that alone
\* are too long, and that are hidden.
ARow(s, c, n, v) == [shown |-> s, cells |-> c, chars |-> n, value |-> v]
MCRows == {ARow(TRUE, 1, 2, <<5>>), ARow(TRUE, 2, 4, <<>>), ARow(TRUE, 3, 1, <<1>>),
           ARow(TRUE, 1, 9, <<0>>), ARow(FALSE, 1, 2, <<5>>)}
\* Every table of three rows, and longer ones, which are refused.
MCTables == UNION {[1..n -> MCRows] : n \in 0..3}
  \cup [1..4 -> {ARow(TRUE, 1, 2, <<5>>), ARow(FALSE, 1, 2, <<5>>)}]
MCHeaders == {[cells |-> 1, chars |-> 3], [cells |-> 1, chars |-> 0]}

\* One element whose name is any few marks, written in any way, before a text
\* that looks like a reference; three that a target may confuse; a property and
\* a text; and two with one reference.
Element(r, n, m, p, y, t) == [role |-> r, name |-> n, mark |-> m, pointer |-> p, yaml |-> y, tail |-> t]
MCNames == BoundedSeq({":", " ", "\"", "\\", "'"}, 3) \cup [1..2 -> {"\"", "[ref=e2]"}]
MCTails == {<<>>, <<":", " ", "'", "\"", " ", "[ref=e2]">>}
MCPages == {<<>>} \cup {<<Element("button", n, m, m # NoMark /\ p, y, t)>> :
              n \in MCNames \cup {NoName}, m \in {"[ref=e1]", NoMark}, p, y \in BOOLEAN, t \in MCTails}
  \cup {[i \in 1..3 |-> Element(f[i][1], f[i][2], <<"[ref=e1]", "[ref=e2]", "[ref=e3]">>[i], FALSE, FALSE, <<>>)] :
              f \in [1..3 -> {"button", "link"} \X {<<"x">>, <<"y", "x">>}]}
  \cup {<<Element(r, NoName, NoMark, FALSE, FALSE, t)>> : r \in {"/url", "text"}, t \in MCTails}
  \cup {<<Element("link", <<"x">>, "[ref=e1]", FALSE, FALSE, <<>>), Element("link", <<"y">>, "[ref=e1]", FALSE, FALSE, <<>>)>>}

Size(a, b) == [w |-> a, h |-> b]
MCViewports == {Size(0, 0), Size(7, 20), Size(60, 30)}
MCResolutions == {Automatic, Size(20, 10)}
MCAuthorities == {Size(13, 9)}

\* Damage inside one patch, across the halo of two, and in a corner.
Rect(a, b, c, d) == [x |-> a, y |-> b, w |-> c, h |-> d]
MCRects == {Rect(0, 0, 3, 1), Rect(3, 0, 1, 2), Rect(4, 4, 1, 1)}
MCDelay == [k \in {"tile", "video"} |-> IF k = "tile" THEN 1 ELSE 2]

\* Spans of two threads and two names, presentations of two tracks, and presses
\* of two keys with records that fit one of them, both, or miss a time.
TraceEvent(ph, ts, at, name, times) == [ph |-> ph, ts |-> ts, at |-> at, name |-> name, times |-> times]
MCTrace == {TraceEvent("B", 0, 1, "f", <<>>), TraceEvent("B", 1, 1, "g", <<>>), TraceEvent("E", 1, 1, "", <<>>),
            TraceEvent("E", 2, 1, "f", <<>>), TraceEvent("E", 2, 2, "", <<>>),
            TraceEvent("b", 0, 1, "", <<>>), TraceEvent("e", 1, 1, "", <<>>),
            TraceEvent("I", 1, 1, "", <<>>), TraceEvent("I", 2, 2, "", <<>>), TraceEvent("input", 0, 1, "", <<0, 1, 1, 1>>),
            TraceEvent("input", 0, 1, "", <<0, 1, 1, 2>>), TraceEvent("input", 0, 1, "", <<>>)}
\* The second session only follows the first one.
MCCommands == <<1, 0>>
\* Screens of one and of two pixels, where the smaller may be a part of the larger.
MCScreens == {<<1>>, <<2>>, <<1, 2>>, <<1, 1>>}
MCCheckpoints == [epoch : {1, 2}, elapsed : {0, 1}, counts : [{"tiles", "video"} -> {0, 1}]]

VARIABLE focus   \* the part that this behaviour works on
Parts == {"pool", "pacing", "tabs", "views", "downloads", "uploads", "calls", "reader", "keys",
          "session", "display", "upscaler", "overlay", "trial", "baseline", "trace", "pipeline",
          "samples", "oracle", "waiter", "barrier", "click", "vblank", "waits",
          "fixture", "checkpoint", "capture", "project"}
On(f) == focus = f
AtRest(f, x, initial) == On(f) \/ x = (CHOOSE i \in initial : TRUE)

MCInit ==
  /\ focus \in Parts /\ LedgerInit /\ PresentInit
  /\ AtRest("waits", dueIn, {0}) /\ PacerInit
  /\ AtRest("pool", screen, {{}}) /\ Init
  /\ AtRest("tabs", page, [Pages -> {"open"}]) /\ TabsInit
  /\ AtRest("views", tabNow, {[t \in ViewTabs |-> [document |-> 0, mutation |-> 0, lines |-> MCBefore]]}) /\ ViewInit
  /\ FilesInit /\ ShapeInit
  /\ AtRest("reader", source, [mode : {"text"}, rows : {<<>>}, header : MCHeaders, length : {0}, wide : {1}]) /\ ReaderInit
  /\ AtRest("keys", snapshot, {<<>>}) /\ KeysInit
  /\ AtRest("session", space, {TRUE}) /\ ViewerInit
  /\ AtRest("display", place, [view : MCViewports, monitor : Densities, storage : {TRUE}]) /\ DisplayInit
  /\ AtRest("upscaler", upscale, [choice : {"original"}, source : {NoCanvas}, size : {1}, hidden : {FALSE},
       fits : {TRUE}, failure : {FALSE}, frame : {TRUE}, destroyed : {FALSE}]) /\ UpscaleInit
  /\ AtRest("overlay", mode, {"balanced"}) /\ OverlayInit
  /\ AtRest("trial", docker, {[r \in DockerObjects |-> "none"]}) /\ OwnedInit
  /\ AtRest("oracle", oracle, FirstPictures) /\ MeasureInit
  /\ BarrierInit /\ On("click") = (click.at = "polling")
  /\ QualificationInit
  /\ AtRest("fixture", check.program, {"scroll"}) /\ AtRest("checkpoint", <<look.program, x11>>, {<<"scroll", <<1>>>>})

textVars == <<readerVars, keysVars>>
restVars == <<shape, textVars, viewerVars, displayVars, upscaleVars, overlayVars>>
scriptVars == <<ownedVars, measureVars, barrierVars>>
paneVars == <<tabsVars, viewVars, filesVars>>
coreVars == <<vars, ledgerVars>>
\* Of two tabs that are alike in all, one is looked at first.
FirstView == made = 0 /\ made' = 1 => views'[1].tab = CHOOSE t \in ViewTabs : TRUE
PartNext ==
  \/ On("pool") /\ Next /\ UNCHANGED <<ledgerVars, paneVars, restVars>>
  \/ On("pacing") /\ LedgerNext /\ UNCHANGED <<vars, paneVars, restVars>>
  \/ UNCHANGED <<coreVars, restVars>> /\
       \/ On("tabs") /\ TabsNext /\ UNCHANGED <<viewVars, filesVars>>
       \/ On("views") /\ ViewNext /\ FirstView /\ UNCHANGED <<tabsVars, filesVars>>
       \/ On("downloads") /\ FilesNext /\ UNCHANGED <<tabsVars, viewVars, uploadVars>>
       \/ On("uploads") /\ FilesNext /\ UNCHANGED <<tabsVars, viewVars, downloadVars>>
  \/ UNCHANGED <<coreVars, paneVars>> /\
       \/ On("calls") /\ ShapeNext
          /\ UNCHANGED <<textVars, viewerVars, displayVars, upscaleVars, overlayVars>>
       \/ On("reader") /\ ReaderNext
          /\ UNCHANGED <<shape, keysVars, viewerVars, displayVars, upscaleVars, overlayVars>>
       \/ On("keys") /\ KeysNext
          /\ UNCHANGED <<shape, readerVars, viewerVars, displayVars, upscaleVars, overlayVars>>
       \/ On("session") /\ ViewerNext
          /\ UNCHANGED <<shape, textVars, displayVars, upscaleVars, overlayVars>>
       \/ On("display") /\ DisplayNext
          /\ UNCHANGED <<shape, textVars, viewerVars, upscaleVars, overlayVars>>
       \/ On("upscaler") /\ UpscaleNext
          /\ UNCHANGED <<shape, textVars, viewerVars, displayVars, overlayVars>>
       \/ On("overlay") /\ OverlayNext
          /\ UNCHANGED <<shape, textVars, viewerVars, displayVars, upscaleVars>>
\* Barriers are begun in the order of their names: nothing else tells them apart.
InNameOrder == barrier["b1"].at = "idle" => barrier'["b2"].at = "idle"
ProbeNext ==
  \/ On("trial") /\ TrialStep /\ UNCHANGED <<baseline, measureVars>>
  \/ On("baseline") /\ BaselineStep /\ UNCHANGED <<docker, trial, measureVars>>
  \/ UNCHANGED ownedVars /\
       \/ On("trace") /\ TraceStep
       \/ On("pipeline") /\ PipelineStep
       \/ On("samples") /\ SampleStep
       \/ On("oracle") /\ OracleStep
       \/ On("waiter") /\ WaiterStep
ScriptNext ==
  \/ ProbeNext /\ UNCHANGED barrierVars
  \/ (On("barrier") \/ On("click")) /\ BarrierNext /\ InNameOrder /\ UNCHANGED <<ownedVars, measureVars>>
clockVars == <<presentVars, pacerVars>>
QualifyNext ==
  \/ On("fixture") /\ TabCheckNext /\ UNCHANGED <<lookVars, samplerVars, composeVars>>
  \/ On("checkpoint") /\ LookNext /\ UNCHANGED <<tabCheckVars, samplerVars, composeVars>>
  \/ On("capture") /\ SamplerNext /\ UNCHANGED <<tabCheckVars, lookVars, composeVars>>
  \/ On("project") /\ ComposeNext /\ UNCHANGED <<tabCheckVars, lookVars, samplerVars>>
MCNext ==
  /\ UNCHANGED focus
  /\ \/ UNCHANGED qualificationVars /\
          \/ PartNext /\ UNCHANGED <<scriptVars, clockVars>>
          \/ ScriptNext /\ UNCHANGED <<coreVars, paneVars, restVars, clockVars>>
          \/ UNCHANGED <<coreVars, paneVars, restVars, scriptVars>> /\
               \/ On("vblank") /\ PresentNext /\ UNCHANGED pacerVars
               \/ On("waits") /\ PacerNext /\ UNCHANGED presentVars
     \/ QualifyNext /\ UNCHANGED <<coreVars, paneVars, restVars, scriptVars, clockVars>>
MCSpec == MCInit /\ [][MCNext]_<<focus, coreVars, paneVars, restVars, scriptVars, clockVars, qualificationVars>>
-----------------------------------------------------------------------------
\* What the server reads of a page is what is there, and what a client makes of
\* its answers is what was read: views, however they are spliced, tables and texts
\* read in pages, and roles, names and references from the lines of a snapshot
\* (server/compact/observations.mjs, reader.mjs, observation-refs.mjs).
PagesAreRead == ClientsSeeTrue /\ ReadsAreWhole /\ RefsAreReal
=============================================================================
