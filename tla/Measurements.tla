---------------------------- MODULE Measurements ----------------------------
(***************************************************************************)
(* What the measurements of the pipeline report: the summaries of a        *)
(* Chromium trace, the checkpoints of ViewerPipelineMetrics, the samples   *)
(* of McpBaselineMetrics, RenderOracle.checkpoint, which compares pictures *)
(* that go on changing, and PixelWaiter, which times one key.              *)
(*                                                                         *)
(* A summary that refuses its input throws; it is then FALSE in "ok".      *)
(* Times are small numbers; a picture is one of Pictures, and may return.  *)
(***************************************************************************)
EXTENDS Integers, Sequences, SequencesExt, FiniteSets, FiniteSetsExt

CONSTANTS TraceEvents,       \* [ph, ts, at, name, times]: at is the thread, track or sequence
          MaxEvents,         \* bound: events of a trace
          MaxDepth,          \* spans of a thread that may be open
          Checkpoints,       \* what a checkpoint may see: [epoch, elapsed, counts]
          MaxCheckpoints,    \* bound
          Operations, Warmup,   \* the calls of a session, and which of them only warm it up
          Pictures, MaxAttempts

VARIABLES trace,       \* the events, as the trace lists them
          pipeline,    \* ViewerPipelineMetrics and, as history, what its reports add up to
          samples,     \* McpBaselineMetrics.#samples, and the operations under way
          oracle,      \* RenderOracle.checkpoint, and the two pictures it compares
          waiter       \* PixelWaiter, and the viewer it looks at
measureVars == <<trace, pipeline, samples, oracle, waiter>>
-----------------------------------------------------------------------------
(* The trace. *)
\* The events by their time; those of one time stay as they are listed.
InOrder(events) ==
  LET before(i, j) == events[i].ts < events[j].ts \/ (events[i].ts = events[j].ts /\ i < j)
      order == SetToSortSeq(DOMAIN events, before)
  IN [k \in DOMAIN order |-> [event |-> events[order[k]], k |-> k]]

\* The spans: an end closes the last begin of its thread.
\* Mutant of StackOf: one stack for every thread.
StackOfAll(e) == "all"
StackOf(e) == e.at
Spans(events) ==
  LET places == {StackOf(e) : e \in ToSet(events)}
      account(s, x) ==
        LET open == s.open[StackOf(x.event)]
        IN CASE x.event.ph = "B" ->
                  [s EXCEPT !.open[StackOf(x.event)] = Append(@, x), !.ok = @ /\ Len(open) < MaxDepth]
             [] x.event.ph = "E" /\ open = <<>> -> [s EXCEPT !.ends = @ + 1]
             [] x.event.ph = "E" /\ open # <<>> ->
                  [s EXCEPT !.open[StackOf(x.event)] = Front(@), !.spans = Append(@, [from |-> Last(open), to |-> x]),
                            !.ok = @ /\ x.event.name \in {"", Last(open).event.name}]
             [] OTHER -> s
  IN FoldLeft(account, [open |-> [p \in places |-> <<>>], ends |-> 0, spans |-> <<>>, ok |-> TRUE],
              InOrder(events))
Lasts(span) == span.to.event.ts - span.from.event.ts
\* The group of a span is its thread and its name.
Durations(spans, thread, name) ==
  LET group == SelectSeq(spans, LAMBDA s : s.from.event.at = thread /\ s.from.event.name = name)
  IN [i \in DOMAIN group |-> Lasts(group[i])]
\* The member at ceil(n * fraction), of the fraction in hundredths.
\* Mutant of RankOf: floor and one.
RankNext(n, hundredths) == ((n * hundredths) \div 100) + 1
RankOf(n, hundredths) == (n * hundredths + 99) \div 100
Percentile(values, hundredths) == SortSeq(values, <)[RankOf(Len(values), hundredths)]

\* Presentations, by the track; several tracks may tell of the same one.
Presentations(events) ==
  LET account(s, x) ==
        LET track == x.event.at
            begun == {b \in s.pending : b.at = track}
        IN CASE x.event.ph = "b" -> [s EXCEPT !.pending = @ \cup {x.event}, !.ok = @ /\ begun = {}]
             [] x.event.ph = "e" /\ begun = {} -> [s EXCEPT !.unmatched = @ + 1]
             [] x.event.ph = "e" /\ begun # {} ->
                  [s EXCEPT !.pending = @ \ begun,
                            !.records = @ \cup {[swap |-> b.ts, feedback |-> x.event.ts] : b \in begun}]
             [] OTHER -> s
  IN FoldLeft(account, [pending |-> {}, records |-> {}, unmatched |-> 0, ok |-> TRUE], InOrder(events))

\* Key presses: a latency record belongs to the one mark between the renderer's
\* handler (times[2]) and its swap (times[4]); a sequence is taken once.
\* Mutant of TakenBefore: it may be taken again.
TakenNever(records, mark) == FALSE
TakenBefore(records, mark) == \E r \in records : r.sequence = mark.at
KeyPresses(events) ==
  LET marks == {e \in ToSet(events) : e.ph = "I"}
      account(s, e) ==
        IF e.ph # "input" \/ marks = {} THEN s
        ELSE IF e.times = <<>> THEN [s EXCEPT !.missing = @ + 1]
        ELSE LET candidates == {k \in DOMAIN events : /\ events[k].ph = "I"
                                                      /\ e.times[2] <= events[k].ts /\ events[k].ts <= e.times[4]}
             IN IF Cardinality(candidates) # 1 THEN [s EXCEPT !.ok = FALSE]
                ELSE LET mark == events[CHOOSE k \in candidates : TRUE]
                     IN [s EXCEPT !.ok = @ /\ ~TakenBefore(s.records, mark),
                                  !.records = @ \cup {[sequence |-> mark.at, times |-> e.times]}]
  IN FoldLeft(account, [records |-> {}, missing |-> 0, ok |-> TRUE], events)

TraceRecord(e) == Len(trace) < MaxEvents /\ trace' = Append(trace, e)
             /\ UNCHANGED <<pipeline, samples, oracle, waiter>>
-----------------------------------------------------------------------------
(* ViewerPipelineMetrics.observe; a clock that goes back throws, and ends the  *)
(* measurement.                                                                *)
NoneCounted(counts) == [c \in DOMAIN counts |-> 0]
\* Mutant of Continues: the connection may have changed.
ContinuesAny(s) == pipeline.previous # <<>>
Continues(s) == pipeline.previous # <<>> /\ pipeline.previous[1].epoch = s.epoch
ObservePipeline(s) ==
  /\ pipeline.kind # "failed" /\ pipeline.seen < MaxCheckpoints
  /\ LET last == pipeline.previous[1]
         cumulative(kind) == [kind |-> kind, base |-> s, sum |-> NoneCounted(s.counts)]
         report ==
           IF ~Continues(s) THEN cumulative(IF pipeline.previous = <<>> THEN "initial-session" ELSE "new-session")
           ELSE IF s.elapsed < last.elapsed THEN [kind |-> "failed", base |-> pipeline.base, sum |-> pipeline.sum]
           ELSE IF \E c \in DOMAIN s.counts : s.counts[c] < last.counts[c] THEN cumulative("counter-reset")
           ELSE [kind |-> "interval", base |-> pipeline.base,
                 sum |-> [c \in DOMAIN s.counts |-> pipeline.sum[c] + s.counts[c] - last.counts[c]]]
     IN pipeline' = [previous |-> <<s>>, seen |-> pipeline.seen + 1,
                     kind |-> report.kind, base |-> report.base, sum |-> report.sum]
  /\ UNCHANGED <<trace, samples, oracle, waiter>>
-----------------------------------------------------------------------------
(* McpBaselineMetrics.measure: an operation settles with a result, of which a  *)
(* tool's error is one, or throws.                                             *)
BeginMeasure(o) ==
  /\ samples.at[o] = "idle" /\ samples' = [samples EXCEPT !.at[o] = "running"]
  /\ UNCHANGED <<trace, pipeline, oracle, waiter>>
\* Mutant of Noted: the sample of a tool's error is noted as a failure, too.
NotedTwice(o, result) ==
  IF result = "error" THEN <<[of |-> o, kind |-> "error"], [of |-> o, kind |-> "failed"]>>
  ELSE <<[of |-> o, kind |-> result]>>
Noted(o, result) == <<[of |-> o, kind |-> result]>>
EndMeasure(o) ==
  /\ samples.at[o] = "running"
  /\ \E result \in {"good", "error", "failed"} :
       samples' = [at |-> [samples.at EXCEPT ![o] = result], rows |-> samples.rows \o Noted(o, result)]
  /\ UNCHANGED <<trace, pipeline, oracle, waiter>>
\* summarize(): what it counts.
Summarized == SelectSeq(samples.rows, LAMBDA r : r.of \notin Warmup /\ r.kind = "good")
-----------------------------------------------------------------------------
(* RenderOracle.checkpoint.  The host paints, the viewer follows, and either   *)
(* may do so between two of its three pictures.                                *)
BothShow(o) == IF o.host = o.viewer THEN {o.host} ELSE {}
LookAt(o) == [o EXCEPT !.both = @ \cup BothShow(o)]
HostPaints == /\ oracle.at \in {"before", "actual", "after"}
          /\ \E p \in Pictures : oracle' = LookAt([oracle EXCEPT !.host = p])
          /\ UNCHANGED <<trace, pipeline, samples, waiter>>
ViewerFollows == /\ oracle.at \in {"before", "actual", "after"}
           /\ oracle' = LookAt([oracle EXCEPT !.viewer = oracle.host])
           /\ UNCHANGED <<trace, pipeline, samples, waiter>>
\* Mutant of Quiet: what changed meanwhile is not asked.
QuietAlways(before, after) == TRUE
Quiet(before, after) == before = after
ComparePictures ==
  /\ UNCHANGED <<trace, pipeline, samples, waiter>>
  /\ \/ /\ oracle.at = "before"
        /\ oracle' = [oracle EXCEPT !.at = "actual", !.before = oracle.host, !.both = BothShow(oracle)]
     \/ oracle.at = "actual" /\ oracle' = [oracle EXCEPT !.at = "after", !.actual = oracle.viewer]
     \/ /\ oracle.at = "after"
        /\ LET matched == Quiet(oracle.before, oracle.host) /\ oracle.actual = oracle.host
           IN oracle' = [oracle EXCEPT !.attempt = @ + 1,
                           !.at = IF matched THEN "matched"
                                  ELSE IF oracle.attempt = MaxAttempts THEN "failed" ELSE "before"]
-----------------------------------------------------------------------------
(* PixelWaiter: armed before the key is pressed, it reads pixels in animation  *)
(* frames; the pixels of this key are shown only after its batch is drawn.     *)
FinishWait(reason) == waiter' = [waiter EXCEPT !.at = reason]
OthersMeasure == UNCHANGED <<trace, pipeline, samples, oracle>>
ArmWaiter ==
  /\ waiter.at = "none" /\ ~waiter.changed /\ OthersMeasure
  /\ waiter' = [waiter EXCEPT !.at = "armed", !.batches = 0]
\* The page: another batch, the key's batch, its pixels, another session or size.
ViewerMoves ==
  /\ OthersMeasure /\ waiter.at \in {"none", "armed"}
  /\ \/ waiter.batches < 2 /\ waiter' = [waiter EXCEPT !.batches = @ + 1]
     \/ waiter.input /\ waiter.effect = "none" /\ waiter.batches < 2
        /\ waiter' = [waiter EXCEPT !.effect = "queued", !.batches = @ + 1]
     \/ waiter.effect = "queued" /\ waiter' = [waiter EXCEPT !.effect = "shown"]
     \/ ~waiter.changed /\ waiter' = [waiter EXCEPT !.changed = TRUE]
\* A second press, or one that nobody pressed, ends it.
KeyDown == /\ waiter.at = "armed" /\ OthersMeasure
           /\ \/ ~waiter.input /\ waiter' = [waiter EXCEPT !.input = TRUE]
              \/ FinishWait("invalid-input")
\* Mutant of Steady: the session may be another one.
SteadyAlways == TRUE
Steady == ~waiter.changed
PixelFrame == /\ waiter.at = "armed" /\ OthersMeasure
         /\ \/ ~Steady /\ FinishWait("session-or-geometry-changed")
            \/ Steady /\ waiter.input /\ waiter.batches > 0 /\ waiter.effect = "shown" /\ FinishWait("matched")
WaitEnds == /\ waiter.at = "armed" /\ OthersMeasure
            /\ FinishWait(IF waiter.input THEN "pixel-timeout" ELSE "input-not-observed")
-----------------------------------------------------------------------------
FirstPictures == [at : {"before"}, host : Pictures, viewer : Pictures, attempt : {1}, before : Pictures,
                  actual : Pictures, both : {{}}]
MeasureInit ==
  /\ trace = <<>>
  /\ pipeline = [previous |-> <<>>, seen |-> 0, kind |-> "none", base |-> <<>>, sum |-> <<>>]
  /\ samples = [at |-> [o \in Operations |-> "idle"], rows |-> <<>>]
  /\ oracle \in FirstPictures
  /\ waiter = [at |-> "none", input |-> FALSE, batches |-> 0, effect |-> "none", changed |-> FALSE]
PipelineStep == \E s \in Checkpoints : ObservePipeline(s)
TraceStep == \E e \in TraceEvents : TraceRecord(e)
SampleStep == \E o \in Operations : BeginMeasure(o) \/ EndMeasure(o)
OracleStep == HostPaints \/ ViewerFollows \/ ComparePictures
WaiterStep == ArmWaiter \/ ViewerMoves \/ KeyDown \/ PixelFrame \/ WaitEnds
MeasureNext == TraceStep \/ PipelineStep \/ SampleStep \/ OracleStep \/ WaiterStep
-----------------------------------------------------------------------------
\* Whatever order the trace lists its events in: a span begins and ends on one
\* thread, spans of one thread lie within or outside of each other, and a
\* percentile is the least duration that so many reach (stock-trace-summary.mjs:41).
SpansAreTrue ==
  LET s == Spans(trace)
      inside(a, b) == b.from.k < a.from.k /\ a.to.k < b.to.k
      upTo(values, v) == Cardinality({i \in DOMAIN values : values[i] <= v})
  IN s.ok =>
       /\ \A i, j \in DOMAIN s.spans :
            LET a == s.spans[i]
                b == s.spans[j]
            IN /\ a.from.event.at = a.to.event.at /\ Lasts(a) >= 0
               /\ i # j /\ a.from.event.at = b.from.event.at =>
                    inside(a, b) \/ inside(b, a) \/ a.to.k < b.from.k \/ b.to.k < a.from.k
       /\ \A x \in ToSet(s.spans), h \in {50, 95} :
            LET values == Durations(s.spans, x.from.event.at, x.from.event.name)
                p == Percentile(values, h)
            IN /\ 100 * upTo(values, p) >= h * Len(values)
               /\ \A v \in ToSet(values) : v < p => 100 * upTo(values, v) < h * Len(values)
\* Two records never claim the same key press, nor one the press of another
\* (stock-input-summary.mjs:27-30), and a presentation ends after it began.
RecordsAreTrue ==
  LET inputs == KeyPresses(trace)
  IN /\ inputs.ok => \A r \in inputs.records, q \in inputs.records : \A m \in ToSet(trace) :
          m.ph = "I" /\ (\A x \in {r, q} : x.times[2] <= m.ts /\ m.ts <= x.times[4]) => r = q
     /\ inputs.ok => Cardinality(inputs.records) + inputs.missing =
          IF \E m \in ToSet(trace) : m.ph = "I" THEN Len(SelectSeq(trace, LAMBDA e : e.ph = "input")) ELSE 0
     /\ Presentations(trace).ok => \A r \in Presentations(trace).records : r.swap <= r.feedback
\* What the intervals add up to is what was counted since the last cumulative
\* report, all of it on the same connection (viewer-pipeline-metrics.mjs:32).
IntervalsAddUp ==
  pipeline.kind \notin {"none", "failed"} =>
    LET now == pipeline.previous[1]
    IN /\ pipeline.base.epoch = now.epoch
       /\ pipeline.sum = [c \in DOMAIN now.counts |-> now.counts[c] - pipeline.base.counts[c]]
\* An operation leaves one sample when it settles and none before, however it
\* settles; the summary has each good one that is no warm-up, once.
SamplesAreTrue ==
  /\ \A o \in Operations : Len(SelectSeq(samples.rows, LAMBDA r : r.of = o))
                             = IF samples.at[o] \in {"idle", "running"} THEN 0 ELSE 1
  /\ {Summarized[i].of : i \in DOMAIN Summarized} = {o \in Operations \ Warmup : samples.at[o] = "good"}
\* A match is a picture that the host and the viewer had at the same time, even if
\* pictures return; a key's latency is that of pixels which the press brought, seen
\* in the session and the size that it was pressed in (pixel-waiter.mjs:42).
ComparisonsAreTrue ==
  /\ oracle.at = "matched" => oracle.actual \in oracle.both
  /\ waiter.at = "matched" => waiter.input /\ waiter.effect = "shown" /\ ~waiter.changed
MeasuresAreTrue ==
  SpansAreTrue /\ RecordsAreTrue /\ IntervalsAddUp /\ SamplesAreTrue /\ ComparisonsAreTrue
=============================================================================
