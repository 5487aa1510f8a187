----------------------------- MODULE CallShapes -----------------------------
(***************************************************************************)
(* What a call of the compact MCP server must look like                    *)
(* (server/compact/validation.mjs, schemas.mjs), and what the code behind  *)
(* it needs without looking again: the fields each input reads             *)
(* (action-steps.mjs), the projection and the coverage of a view           *)
(* (observation-input.mjs, snapshot-coverage.mjs, TabState.snapshot).      *)
(*                                                                         *)
(* A call is the set of its keys; of the values only what the checks tell  *)
(* apart: "outline" and "full" are the values of capture, integers lie at  *)
(* or beyond the ends of their ranges, all in the same way.                *)
(***************************************************************************)
EXTENDS Naturals, FiniteSets, Sequences

CONSTANTS MaxKeys,    \* bound: keys of a view
          MaxFields   \* bound: fields of a step
ASSUME ShapesAssumption == MaxKeys \in Nat /\ MaxFields \in Nat
VARIABLES shape     \* a call, and whether it was accepted
shapeVars == shape

Ranges == [offset |-> <<0, 32768>>, limit |-> <<1, 500>>, maxChars |-> <<64, 24576>>, depth |-> <<1, 6>>]
RangeEnds == {"below", "least", "most", "above"}
\* An integer at an end of the range r.
Value(r, end) == CASE end = "least" -> r[1] [] end = "most" -> r[2]
                   [] end = "below" -> r[1] - 1 [] end = "above" -> r[2] + 1
Within(n, r) == n \in r[1]..r[2]

ViewKeys == {"tab", "since", "detail", "outline", "full", "root", "view", "enterFrame", "depth",
             "state", "cursor", "filter", "query", "offset", "limit", "maxChars"}
StepKeys == {"ref", "to", "url", "text", "key", "checked", "values", "dx", "dy", "accept", "paths"}
\* The fields of each step: what it must have, and what it may have.
Fields(op) ==
  CASE op = "new" -> <<{}, {"url"}>>                  [] op = "navigate" -> <<{"url"}, {}>>
    [] op \in {"back", "activate", "close"} -> <<{}, {}>>
    [] op \in {"click", "hover"} -> <<{"ref"}, {}>>    [] op \in {"fill", "type"} -> <<{"ref", "text"}, {}>>
    [] op = "press" -> <<{"ref", "key"}, {}>>          [] op = "select" -> <<{"ref", "values"}, {}>>
    [] op = "check" -> <<{"ref", "checked"}, {}>>      [] op = "scroll" -> <<{"ref", "dy"}, {"dx"}>>
    [] op = "drag" -> <<{"ref", "to"}, {}>>            [] op = "upload" -> <<{"ref", "paths"}, {}>>
    [] op = "dialog" -> <<{"accept"}, {"text"}>>
Alone == {"new", "navigate", "back", "activate", "close", "dialog"}
Inputs == {"click", "hover", "fill", "type", "press", "select", "check", "scroll", "drag", "upload"}
FlowOps == {"navigate", "click", "hover", "fill", "type", "press", "select", "check", "scroll", "upload"}

Few(keys, n) == {k \in SUBSET keys : Cardinality(k) <= n}
Views == [tool : {"view"}, keys : Few(ViewKeys, MaxKeys), end : RangeEnds]
Acts == [tool : {"act"}, op : Alone \cup Inputs, keys : Few(StepKeys, MaxFields), steps : {1, 9},
         target : {{}, {"tab"}, {"tab", "view"}}, wait : {{}, {"text"}, {"text", "url"}}]
\* One step of a flow, the steps of its stage and in all, the stages that wait.
Flows == [tool : {"flow"}, op : FlowOps, steps : {1, 2}, total : {8, 9}, stages : {2},
          keys : Few((StepKeys \ {"ref", "to", "accept"}) \cup {"target"}, MaxFields + 1),
          waits : SUBSET {1, 2}]

ShapeInit == shape = [call |-> [tool |-> "none"], accepted |-> FALSE]
-----------------------------------------------------------------------------
\* Mutant of ViewAccepted: a frame may be entered without a scope.
ViewAcceptedFrame(c) ==
  LET k == c.keys
  IN /\ \A n \in k \cap DOMAIN Ranges : Within(Value(Ranges[n], c.end), Ranges[n])
     /\ "cursor" \in k => k \subseteq {"cursor", "limit", "maxChars"}
     /\ "root" \in k => {"tab", "view"} \subseteq k
     /\ "view" \in k => "root" \in k
     /\ "depth" \in k => "outline" \in k
     /\ "state" \in k => k \cap {"since", "root", "view", "outline", "full", "depth", "enterFrame"} = {}
ViewAccepted(c) ==
  LET k == c.keys
  IN /\ \A n \in k \cap DOMAIN Ranges : Within(Value(Ranges[n], c.end), Ranges[n])
     /\ "cursor" \in k => k \subseteq {"cursor", "limit", "maxChars"}
     /\ "root" \in k => {"tab", "view"} \subseteq k
     /\ "view" \in k => "root" \in k
     /\ "enterFrame" \in k => "root" \in k
     /\ "depth" \in k => "outline" \in k
     /\ "state" \in k => k \cap {"since", "root", "view", "outline", "full", "depth", "enterFrame"} = {}

WaitAccepted(wait) == wait = {} \/ Cardinality(wait) = 1
ActAccepted(c) ==
  /\ c.steps <= 8 /\ (c.op \in Alone => c.steps = 1)
  /\ Fields(c.op)[1] \subseteq c.keys /\ c.keys \subseteq Fields(c.op)[1] \cup Fields(c.op)[2]
  /\ c.target = (IF c.op = "new" THEN {} ELSE {"tab", "view"})
  /\ WaitAccepted(c.wait)

\* Mutant of FlowAccepted: a stage that is not the last needs no wait.
FlowAcceptedUnwaited(c) ==
  /\ c.total <= 8
  /\ IF c.op = "navigate" THEN c.steps = 1 /\ c.keys = {"url"}
     ELSE LET required == Fields(c.op)[1] \ {"ref"}
          IN /\ {"target"} \cup required \subseteq c.keys
             /\ c.keys \subseteq {"target"} \cup required \cup Fields(c.op)[2]
FlowAccepted(c) ==
  /\ c.total <= 8 /\ 1..c.stages-1 \subseteq c.waits
  /\ IF c.op = "navigate" THEN c.steps = 1 /\ c.keys = {"url"}
     ELSE LET required == Fields(c.op)[1] \ {"ref"}
          IN /\ {"target"} \cup required \subseteq c.keys
             /\ c.keys \subseteq {"target"} \cup required \cup Fields(c.op)[2]

\* PaneValidation.parse.
Parse(c) == shape' = [call |-> c,
  accepted |-> CASE c.tool = "view" -> ViewAccepted(c) [] c.tool = "act" -> ActAccepted(c)
                 [] c.tool = "flow" -> FlowAccepted(c)]
ShapeNext ==
  /\ shape.call.tool = "none"
  /\ (\E c \in Views : Parse(c)) \/ (\E c \in Acts : Parse(c)) \/ (\E c \in Flows : Parse(c))
ShapeSpec == ShapeInit /\ [][ShapeNext]_shapeVars
-----------------------------------------------------------------------------
\* What ActionSteps.perform reads of a step; a flow gives it the ref it has found.
Reads(op) ==
  CASE op \in {"navigate"} -> {"url"} [] op \in {"new", "back", "activate", "close"} -> {}
    [] op \in {"click", "hover"} -> {"ref"} [] op \in {"fill", "type"} -> {"ref", "text"}
    [] op = "press" -> {"ref", "key"} [] op = "select" -> {"ref", "values"}
    [] op = "check" -> {"ref", "checked"} [] op = "drag" -> {"ref", "to"}
    [] op = "scroll" -> {"ref", "dy"} [] op = "upload" -> {"ref", "paths"}
    [] op = "dialog" -> {"accept"}

\* ObservationInput.capture: the projection of a view, and what it takes for a
\* number that is not there.
Projection == [offset |-> <<0, 32768>>, limit |-> <<1, 500>>, maxChars |-> <<64, 24576>>]
Assumed    == [offset |-> 0, limit |-> 120, maxChars |-> 6000]
Projectable(c) == \A n \in DOMAIN Projection :
  Within(IF n \in c.keys THEN Value(Ranges[n], c.end) ELSE Assumed[n], Projection[n])

\* TabState.snapshot: a capture that is scoped or an outline says what it covers ...
Bounded(c) == "outline" \in c.keys \/ "root" \in c.keys
Coverage(c) ==
  [scope |-> IF "root" \in c.keys THEN "ref" ELSE "page",
   enterFrame |-> "enterFrame" \in c.keys,
   depth |-> IF "outline" \notin c.keys THEN 0   \* none
             ELSE IF "depth" \in c.keys THEN Value(Ranges.depth, c.end) ELSE 1,
   nodeLimit |-> IF "outline" \in c.keys THEN 256 ELSE 1024]
\* ... as SnapshotCoverage.validate wants it.
Covered(v) == /\ v.nodeLimit \in {256, 1024} /\ v.depth \in 0..6
              /\ v.enterFrame => v.scope # "page"

\* Whatever is accepted can be served: the code that touches the browser finds
\* every field it reads, in ranges that it takes, and a view has one source. So no
\* call that passed the door fails half-way for its shape (validation.mjs:16).
AcceptedIsServable ==
  LET c == shape.call
  IN shape.accepted =>
       CASE c.tool = "view" ->
              /\ Projectable(c) /\ (Bounded(c) => Covered(Coverage(c)))
              /\ "enterFrame" \in c.keys => Bounded(c)
              /\ Cardinality({"cursor", "state", "root"} \cap c.keys) <= 1
         [] c.tool = "act" -> /\ Reads(c.op) \subseteq c.keys /\ c.wait # {"text", "url"}
                              /\ (c.op = "new" \/ "view" \in c.target)
         [] c.tool = "flow" -> /\ Reads(c.op) \ {"ref"} \subseteq c.keys
                               /\ "ref" \in Reads(c.op) => "target" \in c.keys
                               /\ c.stages > 1 => 1 \in c.waits
=============================================================================
