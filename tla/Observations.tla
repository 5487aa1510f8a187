---------------------------- MODULE Observations ----------------------------
(***************************************************************************)
(* What a client of the compact MCP server sees of its tabs                *)
(* (server/compact/observation*.mjs and the views of session.mjs): raw     *)
(* snapshots that are kept for a while, views that show a page of the      *)
(* lines a projection selects, cursors that go on with them, and splices   *)
(* against a view the client already has.                                  *)
(*                                                                         *)
(* A line of a snapshot is a record: how far it is indented, whether the   *)
(* query or filter wants it, its ref and its size, in marks of truncation. *)
(* Sizes in characters and in bytes are limited alike: one limit stands    *)
(* for both.  A snapshot and the title are awaited; what that asserts      *)
(* afterwards is SharedTab's Current.                                      *)
(***************************************************************************)
EXTENDS Naturals, Sequences, FiniteSets, SequencesExt, FiniteSetsExt

CONSTANTS ViewTabs, NoTab,
          Snapshots,    \* the pages, as sequences of lines
          NoRef,
          Projections,  \* [limit, budget]: how many lines, how much text
          MaxLine,      \* 2048: more of a line is not shown
          Keep,         \* 4: states, views, epochs and latest views that are kept
          MaxEpoch,     \* bound: changes of a tab
          MaxView       \* bound: views that are made
ASSUME ViewAssumption ==
  /\ NoTab \notin ViewTabs /\ Keep \in Nat \ {0} /\ MaxLine \in Nat \ {0}
  /\ MaxEpoch \in Nat /\ MaxView \in Nat
  /\ \A s \in Snapshots : \A i, j \in 1..Len(s) : \* ObservationRefs.from has refused others
       i # j /\ s[i].ref # NoRef => s[i].ref # s[j].ref

VARIABLES tabNow,   \* tabNow[t]: its document and mutation, and the lines it would show
          states,   \* ObservationStore.#states, the oldest first
          views,    \* #views, the oldest first; and #epochs, which keeps the same ones
          made,     \* views made so far; their ids are fresh
          known     \* known[v]: the text that the client holds for view v
viewVars == <<tabNow, states, views, made, known>>

ViewInit ==
  /\ tabNow \in [ViewTabs -> {[document |-> 0, mutation |-> 0, lines |-> s] : s \in Snapshots}]
  /\ states = <<>> /\ views = <<>> /\ made = 0 /\ known = <<>>
-----------------------------------------------------------------------------
\* ObservationProjection.

\* #parents: the nearest line above that is indented less, 0: none.
Parent(lines, i) ==
  Max({0} \cup {j \in 1..i-1 : /\ lines[j].indent < lines[i].indent
                               /\ \A k \in j+1..i-1 : lines[k].indent >= lines[i].indent})
\* A line and the lines it hangs from.
Branch == [lines \in Snapshots |->
  LET up[i \in 0..Len(lines)] == IF i = 0 THEN {} ELSE {i} \cup up[Parent(lines, i)]
  IN [i \in DOMAIN lines |-> up[i]]]
\* #select: what is wanted, and what it hangs from, in order.
Selected == [lines \in Snapshots |->
  SetToSortSeq(UNION {Branch[lines][i] : i \in {j \in DOMAIN lines : lines[j].wanted}}, <)]

\* Mutant of Context: without the structure above the page.
ContextNone(lines, offset) == <<>>
\* #items: a page is preceded by the lines that its first one hangs from ...
Context(lines, offset) ==
  LET selected == Selected[lines]
  IN IF offset >= Len(selected) THEN <<>>
     ELSE SetToSortSeq(Branch[lines][selected[offset + 1]] \ {selected[offset + 1]}, <)
\* ... and is as many lines as were asked for.
Page(lines, p) ==
  LET selected == Selected[lines]
  IN IF p.offset >= Len(selected) THEN <<>>
     ELSE SubSeq(selected, p.offset + 1,
                 Min({Len(selected), p.offset + p.limit}))

\* #line: a line is shown, or its head without its ref, or nothing.
Shown(line, room) ==
  IF line.size <= Min({MaxLine, room}) THEN [line |-> line, size |-> line.size, cut |-> FALSE]
  ELSE [line |-> [line EXCEPT !.ref = NoRef], size |-> Min({MaxLine, room}), cut |-> TRUE]
\* Mutant of AddItem: context counts as read.
AddItemAlways(item, acc) ==
  LET room == acc.room - (IF acc.text = <<>> THEN 0 ELSE 1)
  IN IF acc.stopped \/ room < 1 THEN [acc EXCEPT !.stopped = TRUE]
     ELSE [text |-> Append(acc.text, Shown(item.line, room)),
           room |-> room - Shown(item.line, room).size,
           consumed |-> acc.consumed + 1, stopped |-> FALSE]
\* create: the items in order until one finds no room.  One turn of its loop:
AddItem(item, acc) ==
  LET room == acc.room - (IF acc.text = <<>> THEN 0 ELSE 1)
  IN IF acc.stopped \/ room < 1 THEN [acc EXCEPT !.stopped = TRUE]
     ELSE [text |-> Append(acc.text, Shown(item.line, room)),
           room |-> room - Shown(item.line, room).size,
           consumed |-> acc.consumed + (IF item.context THEN 0 ELSE 1), stopped |-> FALSE]
Project(lines, p) ==
  LET items == [i \in DOMAIN Context(lines, p.offset) |->
                  [line |-> lines[Context(lines, p.offset)[i]], context |-> TRUE]]
               \o [i \in DOMAIN Page(lines, p) |->
                  [line |-> lines[Page(lines, p)[i]], context |-> FALSE]]
  IN FoldLeft(LAMBDA acc, item : AddItem(item, acc),
              [text |-> <<>>, room |-> p.budget, consumed |-> 0, stopped |-> FALSE], items)
\* A view of the state: its text, and where its cursor goes on, if anywhere.
Done == 100
ViewOf(state, id, p) ==
  LET projected == Project(state.lines, p)
      next == p.offset + projected.consumed
  IN [view |-> id, projection |-> p, text |-> projected.text,
      next |-> IF next < Len(Selected[state.lines]) THEN next ELSE Done] @@ state
-----------------------------------------------------------------------------
\* ObservationStore.
Newest(q) == IF Len(q) > Keep THEN SubSeq(q, Len(q) - Keep + 1, Len(q)) ELSE q

\* A splice is only made against a view of the same document and projection.
Comparable(base, v) ==
  base.tab = v.tab /\ base.document = v.document /\ base.projection = v.projection

\* Mutant of Alike: the same line may count for both.
AlikeOverlap(before, after, n, m) ==
  /\ n <= Min({Len(before), Len(after)}) /\ m <= Min({Len(before), Len(after)})
  /\ \A i \in 1..n : before[i] = after[i]
  /\ \A i \in 1..m : before[Len(before) - i + 1] = after[Len(after) - i + 1]
\* #splice: where the texts begin and end alike.
Alike(before, after, n, m) ==   \* n lines at the beginning and m at the end
  /\ n + m <= Min({Len(before), Len(after)})
  /\ \A i \in 1..n : before[i] = after[i]
  /\ \A i \in 1..m : before[Len(before) - i + 1] = after[Len(after) - i + 1]
Splice(before, after) ==
  LET start == Max({n \in 0..Len(before) : Alike(before, after, n, 0)})
      end == Max({m \in 0..Len(before) : Alike(before, after, start, m)})
  IN [start |-> start, deleteCount |-> Len(before) - start - end,
      lines |-> SubSeq(after, start + 1, Len(after) - end)]
\* What the client does with one.
Spliced(text, s) ==
  SubSeq(text, 1, s.start) \o s.lines \o SubSeq(text, s.start + s.deleteCount + 1, Len(text))

\* #project: the view is kept and sent, whole or as a splice of "since", which is
\* sent if it is shorter.
Send(v, since, shorter) ==
  LET base == {u \in ToSet(views) : u.view = since /\ Comparable(u, v)}
  IN /\ views' = Newest(Append(views, v)) /\ made' = made + 1
     /\ known' = Append(known, IF base = {} \/ ~shorter THEN v.text
                              ELSE Spliced(known[since],
                                           Splice((CHOOSE u \in base : TRUE).text, v.text)))

\* capture: a new state, and a view of it.
Capture(t, p, since, shorter) ==
  LET now == tabNow[t]
      state == [state |-> made + 1, tab |-> t, document |-> now.document,
                mutation |-> now.mutation, lines |-> now.lines]
  IN /\ made < MaxView
     /\ states' = Newest(Append(states, state))
     /\ Send(ViewOf(state, made + 1, p), since, shorter)
     /\ UNCHANGED tabNow

\* Mutant of Source: what the tab shows now.
SourceNow(state) == [state EXCEPT !.lines = tabNow[state.tab].lines]
Source(state) == state
\* reproject: another view of a state, which is the last to go from now on.  The
\* tab must be as it was.
Reproject(state, p) ==
  /\ made < MaxView
  /\ tabNow[state.tab].document = state.document /\ tabNow[state.tab].mutation = state.mutation
  /\ states' = Append(SelectSeq(states, LAMBDA s : s # state), state)
  /\ Send(ViewOf(Source(state), made + 1, p), 0, FALSE)
  /\ UNCHANGED tabNow
Requery(state, p) == state \in ToSet(states) /\ Reproject(state, p)
\* continuation: a cursor goes on with its own view, but for limits.
FollowCursor(v, p) ==
  /\ v.next # Done
  /\ \E state \in ToSet(states) :
       state.state = v.state /\ Reproject(state, [p EXCEPT !.offset = v.next])

\* The page: a frame navigates, an input is issued, or the content just changes.
Happen(t, lines) ==
  LET now == tabNow[t]
  IN /\ \E d, m \in 0..1 :
          /\ now.document + now.mutation + d + m <= MaxEpoch
          /\ tabNow' = [tabNow EXCEPT ![t] = [document |-> now.document + d,
                                             mutation |-> now.mutation + m, lines |-> lines]]
     /\ UNCHANGED <<states, views, made, known>>

ViewNext ==
  \/ \E t \in ViewTabs, p \in Projections, since \in 0..made : \E shorter \in {FALSE, since # 0} :
       Capture(t, p, since, shorter)
  \/ \E state \in ToSet(states), p \in Projections : Requery(state, p)
  \/ \E v \in ToSet(views), p \in Projections : FollowCursor(v, p)
  \/ \E t \in ViewTabs, lines \in Snapshots : Happen(t, lines)
ViewSpec == ViewInit /\ [][ViewNext]_viewVars
-----------------------------------------------------------------------------
\* A page shows what it says it does: the lines from its offset to where its
\* cursor goes on, each with everything it hangs from, so that a client that
\* follows cursors misses no line, whatever the limits and however the text ran
\* out; and it offers no ref of a line it has cut (observation-projection.mjs).
PageIsWhole(v) ==
  LET selected == Selected[v.lines]
      end == IF v.next = Done THEN Len(selected) ELSE v.next
      shown == v.projection.offset + 1 .. end
      At(k) == v.text[Len(v.text) - end + k]
      Same(item, i) == [item.line EXCEPT !.ref = NoRef] = [v.lines[i] EXCEPT !.ref = NoRef]
  IN /\ \A k \in shown :
          /\ Same(At(k), selected[k])
          /\ \A i \in Branch[v.lines][selected[k]] : \E j \in DOMAIN v.text : Same(v.text[j], i)
     /\ \A j \in DOMAIN v.text : v.text[j].cut => v.text[j].line.ref = NoRef

\* The client's text of a view is the text the server keeps, through splices,
\* resets and evicted bases (observations.mjs:95); and every view of a state
\* shows the one snapshot, though the page went on (:33).
ClientsSeeTrue ==
  /\ \A v \in ToSet(views) :
       /\ known[v.view] = v.text /\ (v.view = made => PageIsWhole(v))
       /\ \A u \in ToSet(views) : u.state = v.state => u.lines = v.lines
  /\ Len(states) <= Keep /\ Len(views) <= Keep /\ Len(known) = made
=============================================================================
