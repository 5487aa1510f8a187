----------------------- MODULE WorkflowRunner_proofs -----------------------
(***************************************************************************)
(* Safety of the workflow runner for any number of processes and runs.    *)
(*                                                                         *)
(* IInv adds to the type invariant what ties a worker's program counter to *)
(* the durable row: only the fence holder is off its idle step, and at     *)
(* every step the row's state is the one the step's intent committed.      *)
(* More adds what ties a row to the download directory; from both follow   *)
(* what a verified row says, and that the runner keeps its promise.        *)
(***************************************************************************)
EXTENDS WorkflowRunner, FiniteSetTheorems, TLAPS

\* Rows that no export can have happened for, and rows with a durable intent.
BeforeIntent == {"absent", "approved", "prepared", "navigating", "stopped"}
AfterIntent  == {"exporting", "verifying", "uncertain", "verified"}

\* Each row on its own: intent and baseline are one transaction, and one
\* export at most follows it.
RowsOK ==
  \A r \in Runs :
    /\ state[r] \in BeforeIntent => evidence[r].plan = None /\ exports[r] = 0
    /\ state[r] \in AfterIntent  => evidence[r].plan # None
    /\ exports[r] > 0 => evidence[r].plan # None
    /\ exports[r] <= 1

\* A busy worker holds the fence and works on a run.
FenceOK == \A w \in Workers : pc[w] # "idle" => fence = w /\ job[w] \in Runs

\* A worker past its poll has a candidate.
CandidateOK == \A w \in Workers :
                 pc[w] \in {"observe", "recheck", "promote"} => candidate[w] # None

\* The row states a worker can find at each of its steps.
StatesAt(step) ==
  CASE step \in {"started", "open", "intendNav"} -> {"prepared"}
    [] step \in {"checkNav", "navigate", "navigated", "view", "snapshot",
                 "intendExport"} -> {"navigating"}
    [] step \in {"checkExport", "export", "exported"} -> {"exporting"}
    [] step = "verify" -> {"exporting", "verifying", "uncertain"}
    [] step = "intendVerify" -> {"exporting", "uncertain"}
    [] step \in {"poll", "observe", "recheck", "promote"} -> {"verifying"}
    [] step = "intendStop" -> {"prepared", "navigating"}
    [] step = "failed" -> ActiveStates
    [] OTHER -> RowStates

LocationOK ==
  \A w \in Workers : pc[w] # "idle" =>
    /\ state[job[w]] \in StatesAt(pc[w])
    /\ pc[w] \in {"checkExport", "export"} => exports[job[w]] = 0
    /\ pc[w] = "intendExport" => plan[w] # None
    /\ pc[w] \in {"intendVerify", "poll", "observe", "recheck", "promote"} =>
         known[w].plan = evidence[job[w]].plan

\* The steps that write the row, each in two transactions.
Checkpoints == {"intendNav", "intendExport", "intendVerify", "promote", "intendStop", "failed"}

\* What a checkpoint has read is still the row.
ReadOK == \A w \in Workers : read[w] # None =>
            pc[w] \in Checkpoints /\ state[job[w]] = read[w]

\* At most one run is unresolved.
SoleOK == \A q, r \in Unresolved : q = r

IInv == TypeOK /\ RowsOK /\ FenceOK /\ CandidateOK /\ LocationOK /\ ReadOK /\ SoleOK
-----------------------------------------------------------------------------
(* Facts about the tables and the operators the actions are built from *)

LEMMA Tables ==
  /\ DOMAIN Target = {"intendNav", "intendExport", "intendVerify", "promote", "intendStop"}
  /\ Target["intendNav"] = "navigating" /\ Resume["intendNav"] = "checkNav"
  /\ Target["intendExport"] = "exporting" /\ Resume["intendExport"] = "checkExport"
  /\ Target["intendVerify"] = "verifying" /\ Resume["intendVerify"] = "poll"
  /\ Target["promote"] = "verified" /\ Resume["promote"] = "finish"
  /\ Target["intendStop"] = "stopped" /\ Resume["intendStop"] = "finish"
BY DEF Target, Resume

LEMMA FailStates ==
  /\ DOMAIN FailState = {"prepared", "navigating", "exporting", "verifying"}
  /\ \A s \in {"prepared", "navigating"} : FailState[s] = "stopped"
  /\ \A s \in {"exporting", "verifying"} : FailState[s] = "uncertain"
BY DEF FailState

\* What a run without evidence is approved with.
LEMMA EmptyEvidence == NoEvidence \in Evidence
BY DEF NoEvidence, Evidence

\* StatesAt, step by step.
LEMMA StatesTable ==
  /\ \A s \in {"started", "open", "intendNav"} : StatesAt(s) = {"prepared"}
  /\ \A s \in {"checkNav", "navigate", "navigated", "view", "snapshot", "intendExport"} :
       StatesAt(s) = {"navigating"}
  /\ \A s \in {"checkExport", "export", "exported"} : StatesAt(s) = {"exporting"}
  /\ StatesAt("verify") = {"exporting", "verifying", "uncertain"}
  /\ StatesAt("intendVerify") = {"exporting", "uncertain"}
  /\ \A s \in {"poll", "observe", "recheck", "promote"} : StatesAt(s) = {"verifying"}
  /\ StatesAt("intendStop") = {"prepared", "navigating"}
  /\ StatesAt("failed") = ActiveStates
  /\ \A s \in {"idle", "begin", "recall", "finish"} : StatesAt(s) = RowStates
BY DEF StatesAt

\* Letting go keeps the types, whatever the worker held.
LEMMA ReleaseTypes ==
  ASSUME TypeOK, NEW w \in Workers, Release(w)
  PROVE  TypeOK'
BY EmptyEvidence, PollsAssumption
   DEF TypeOK, JournalTypeOK, Release, Forget, Goto, Steps, journalVars, browserVars, ghostVars

LEMMA LookTypes ==
  ASSUME TypeOK, NEW w \in Workers, NEW from, NEW guard, NEW to \in Steps,
         Look(w, from, guard, to)
  PROVE  TypeOK'
BY DEF TypeOK, JournalTypeOK, Look, Goto, journalVars, localVars, browserVars, ghostVars

\* The stored evidence is well formed whatever evidence the caller holds.
LEMMA MergedType ==
  ASSUME TypeOK, NEW r \in Runs, NEW given \in Evidence \cup {None}
  PROVE  Merged(r, given) \in Evidence
BY DEF TypeOK, JournalTypeOK, Merged, Evidence

LEMMA GivenType ==
  ASSUME TypeOK, NEW w \in Workers
  PROVE  Given(w) \in Evidence \cup {None}
BY EmptyEvidence DEF TypeOK, Given, Evidence, NoEvidence

LEMMA CheckpointTypes ==
  ASSUME TypeOK, NEW r \in Runs, NEW expected, NEW to \in RowStates,
         NEW given \in Evidence \cup {None}, CheckpointRow(r, expected, to, given)
  PROVE  JournalTypeOK'
BY MergedType DEF TypeOK, JournalTypeOK, CheckpointRow
-----------------------------------------------------------------------------
(* Type correctness and the fence *)

LEMMA TypesStep ==
  ASSUME TypeOK, FenceOK, CandidateOK, [Next]_vars
  PROVE  TypeOK'
<1> USE EmptyEvidence, PollsAssumption
<1> USE DEF TypeOK, JournalTypeOK, FenceOK, Goto, journalVars, localVars, browserVars, ghostVars
<1>1. ASSUME NEW w \in Workers, NEW r \in Runs, NEW b \in BOOLEAN, Start(w, r, b)
      PROVE  TypeOK'
  BY <1>1 DEF Start, Steps
<1>2. ASSUME NEW w \in Workers, Begin(w)
      PROVE  TypeOK'
  BY <1>2 DEF Begin, BeginRow, Steps, TrySteps, RowStates, ActiveStates
<1>3. ASSUME NEW w \in Workers, Started(w) \/ Recall(w) \/ Open(w) \/ CheckNav(w)
             \/ Navigated(w) \/ CheckExport(w) \/ Exported(w) \/ Recheck(w)
      PROVE  TypeOK'
  BY <1>3, LookTypes DEF Started, Recall, Open, CheckNav, Navigated, CheckExport, Exported,
                         Recheck, Steps, TrySteps
<1>4. ASSUME NEW w \in Workers, Leave(w)
      PROVE  TypeOK'
  BY <1>4 DEF Leave, Steps
<1>5. ASSUME NEW w \in Workers, Finish(w) \/ Crash(w)
      PROVE  TypeOK'
  BY <1>5, ReleaseTypes DEF Finish, Crash
<1>6. ASSUME NEW w \in Workers, StepRaises(w)
      PROVE  TypeOK'
  BY <1>6 DEF StepRaises, Forget, Steps
<1>7. ASSUME NEW w \in Workers, ReadRow(w)
      PROVE  TypeOK'
  BY <1>7, Tables DEF ReadRow
<1>8. ASSUME NEW w \in Workers, WriteRow(w)
      PROVE  TypeOK'
  <2>1. job[w] \in Runs /\ Target[pc[w]] \in RowStates /\ Resume[pc[w]] \in Steps
    BY <1>8, Tables DEF WriteRow, RowStates, ActiveStates, TerminalStates, Steps, TrySteps
  <2>2. JournalTypeOK'
    BY <1>8, <2>1, GivenType, CheckpointTypes DEF WriteRow
  <2>3. QED
    BY <1>8, <2>1, <2>2 DEF WriteRow
<1>9. ASSUME NEW w \in Workers, FailRow(w)
      PROVE  TypeOK'
  <2>1. job[w] \in Runs /\ (read[w] \in DOMAIN FailState => FailState[read[w]] \in RowStates)
    BY <1>9, FailStates DEF FailRow, RowStates, ActiveStates, TerminalStates
  <2>2. JournalTypeOK'
    BY <1>9, <2>1, CheckpointTypes DEF FailRow
  <2>3. QED
    BY <1>9, <2>2 DEF FailRow, Steps
<1>10. ASSUME NEW w \in Workers, GiveUp(w)
       PROVE  TypeOK'
  BY <1>10 DEF GiveUp, Steps
<1>11. ASSUME NEW w \in Workers, Navigate(w)
       PROVE  TypeOK'
  BY <1>11 DEF Navigate, Late, Steps, TrySteps
<1>12. ASSUME NEW w \in Workers, View(w)
       PROVE  TypeOK'
  BY <1>12 DEF View, Steps, TrySteps
<1>13. ASSUME NEW w \in Workers, Snapshot(w)
       PROVE  TypeOK'
  BY <1>13 DEF Snapshot, Plan, Steps, TrySteps
<1>14. ASSUME NEW w \in Workers, Export(w)
       PROVE  TypeOK'
  <2>1. job[w] \in Runs
    BY <1>14 DEF Export
  <2>2. QED
    BY <1>14, <2>1 DEF Export, Late, Steps, TrySteps
<1>15. ASSUME NEW w \in Workers, Verify(w)
       PROVE  TypeOK'
  <2>1. job[w] \in Runs
    BY <1>15 DEF Verify
  <2>2. QED
    BY <1>15, <2>1 DEF Verify, Steps, TrySteps
<1>16. ASSUME NEW w \in Workers, PollAgain(w)
       PROVE  TypeOK'
  BY <1>16 DEF PollAgain
<1>17. ASSUME NEW w \in Workers, PollHit(w)
       PROVE  TypeOK'
  <2>1. ASSUME NEW c \in Candidates(disk, known[w].plan.files)
        PROVE  c \in Artifact
    BY <2>1 DEF Candidates, Added, Artifact, Directory
  <2>2. QED
    BY <1>17, <2>1 DEF PollHit, Steps, TrySteps
<1>18. ASSUME NEW w \in Workers, Observe(w)
       PROVE  TypeOK'
  <2>1. disk[candidate[w].run] \in File \cup {None}
    BY <1>18 DEF Observe, CandidateOK, Artifact, Directory
  <2>2. QED
    BY <1>18, <2>1 DEF Observe, Steps, TrySteps
<1>19. ASSUME NEW r \in Runs, Abandon(r) \/ Operator(r)
       PROVE  TypeOK'
  <2>1. CASE Abandon(r)
    BY <2>1 DEF Abandon, AbandonRow, RowStates, TerminalStates
  <2>2. CASE Operator(r)
    <3>1. CASE Approve(r) \/ Expire(r)
      BY <2>2, <3>1 DEF Operator, Approve, Expire, RowStates
    <3>2. CASE Cancel(r)
      <4>1. [evidence[r] EXCEPT !.cancelRequested = TRUE] \in Evidence
        BY DEF Evidence
      <4>2. evidence' = [evidence EXCEPT ![r] = [evidence[r] EXCEPT !.cancelRequested = TRUE]]
        BY <3>2 DEF Cancel
      <4>3. evidence' \in [Runs -> Evidence]
        BY <4>1, <4>2
      <4>4. state' \in [Runs -> RowStates]
        BY <3>2 DEF Cancel, RowStates, TerminalStates
      <4>5. QED
        BY <2>2, <3>2, <4>3, <4>4 DEF Operator, Cancel
    <3>3. QED
      BY <2>2, <3>1, <3>2 DEF Operator
  <2>3. QED
    BY <1>19, <2>1, <2>2
<1>20. ASSUME NEW r \in Runs, Deliver(r) \/ Complete(r) \/ Rewrite(r)
       PROVE  TypeOK'
  <2>1. CASE Deliver(r)
    BY <2>1, RewritesAssumption DEF Deliver, Directory, File
  <2>2. CASE Complete(r)
    BY <2>2 DEF Complete
  <2>3. CASE Rewrite(r)
    BY <2>3, RewritesAssumption DEF Rewrite, Directory, File
  <2>4. QED
    BY <1>20, <2>1, <2>2, <2>3
<1>21. CASE RestartBrowser
  BY <1>21 DEF RestartBrowser
<1>22. CASE UNCHANGED vars
  BY <1>22 DEF vars
<1>23. QED
  BY <1>1, <1>2, <1>3, <1>4, <1>5, <1>6, <1>7, <1>8, <1>9, <1>10, <1>11, <1>12, <1>13,
     <1>14, <1>15, <1>16, <1>17, <1>18, <1>19, <1>20, <1>21, <1>22 DEF Next, WorkerStep
-----------------------------------------------------------------------------
(* The inductive step, action by action *)

\* While a worker is busy every other one is idle, and has read nothing.
LEMMA Alone ==
  ASSUME FenceOK, ReadOK, NEW w \in Workers, pc[w] # "idle", NEW v \in Workers, v # w
  PROVE  pc[v] = "idle" /\ read[v] = None
BY DEF FenceOK, ReadOK, Checkpoints

\* With the fence free, all of them are.
LEMMA AllIdle ==
  ASSUME FenceOK, ReadOK, fence = NoWorker, NEW v \in Workers
  PROVE  pc[v] = "idle" /\ read[v] = None
BY WorkersAssumption DEF FenceOK, ReadOK, Checkpoints

Rest == RowsOK /\ FenceOK /\ CandidateOK /\ LocationOK /\ ReadOK /\ SoleOK

\* Steps of the site and the browser touch nothing the invariant reads.
LEMMA RestUnmoved ==
  ASSUME Rest, UNCHANGED <<journalVars, fence, pc, localVars, exports>>
  PROVE  Rest'
BY DEF Rest, RowsOK, FenceOK, CandidateOK, LocationOK, ReadOK, SoleOK, StatesAt, Unresolved,
       journalVars, localVars

\* A step of a busy worker that leaves the rows alone keeps the invariant if
\* the worker itself is in order afterwards.
LEMMA RestMoved ==
  ASSUME TypeOK, TypeOK', Rest, NEW w \in Workers, pc[w] # "idle",
         UNCHANGED <<journalVars, fence, job, exports>>,
         NEW step \in Steps \ {"idle"}, Goto(w, step),
         \A v \in Workers \ {w} : UNCHANGED <<read[v], plan[v], known[v], candidate[v]>>,
         state[job[w]] \in StatesAt(step),
         step \in {"checkExport", "export"} => exports[job[w]] = 0,
         step = "intendExport" => plan'[w] # None,
         step \in {"intendVerify", "poll", "observe", "recheck", "promote"} =>
            known'[w].plan = evidence[job[w]].plan,
         step \in {"observe", "recheck", "promote"} => candidate'[w] # None,
         read'[w] # None => step \in Checkpoints /\ state[job[w]] = read'[w]
  PROVE  Rest'
<1> USE DEF Rest, Goto
<1>1. pc'[w] = step /\ \A v \in Workers \ {w} : pc'[v] = pc[v] /\ pc[v] = "idle" /\ read[v] = None
  BY Alone DEF TypeOK
<1>2. RowsOK' /\ SoleOK'
  BY DEF RowsOK, SoleOK, Unresolved, journalVars
<1>3. FenceOK' /\ CandidateOK'
  BY <1>1 DEF FenceOK, CandidateOK
<1>4. LocationOK'
  BY <1>1 DEF LocationOK, StatesAt, journalVars
<1>5. ReadOK'
  BY <1>1 DEF ReadOK, journalVars
<1>6. QED
  BY <1>2, <1>3, <1>4, <1>5

\* Letting go leaves every worker idle.
LEMMA RestReleased ==
  ASSUME TypeOK, TypeOK', Rest, NEW w \in Workers, pc[w] # "idle", Release(w)
  PROVE  Rest'
<1> USE DEF Rest
<1>1. \A v \in Workers : pc'[v] = "idle" /\ read'[v] = None
  BY Alone DEF TypeOK, Release, Forget, Goto
<1>2. RowsOK' /\ SoleOK'
  BY DEF RowsOK, SoleOK, Unresolved, journalVars, ghostVars, Release
<1>3. QED
  BY <1>1, <1>2 DEF FenceOK, CandidateOK, LocationOK, ReadOK

\* Steps that read the journal, the page or the directory and go on.
LEMMA LookRest ==
  ASSUME TypeOK, TypeOK', Rest, NEW w \in Workers,
         \/ Started(w) \/ Recall(w) \/ Leave(w) \/ Open(w) \/ CheckNav(w) \/ Navigate(w)
         \/ Navigated(w) \/ View(w) \/ Snapshot(w) \/ CheckExport(w) \/ Exported(w)
         \/ Verify(w) \/ PollAgain(w) \/ PollHit(w) \/ Observe(w) \/ Recheck(w)
  PROVE  Rest'
<1> USE DEF journalVars, localVars, ghostVars
<1>1. CASE pc[w] = "idle"
  BY <1>1 DEF Started, Recall, Leave, Look, Open, CheckNav, Navigate, Navigated, View, Snapshot,
              CheckExport, Exported, Verify, PollAgain, PollHit, Observe, Recheck
<1>2. ASSUME pc[w] # "idle" PROVE Rest'
  <2>1. /\ job[w] \in Runs /\ state[job[w]] \in RowStates
        /\ state[job[w]] \in StatesAt(pc[w])
        /\ pc[w] \in {"checkExport", "export"} => exports[job[w]] = 0
        /\ pc[w] = "intendExport" => plan[w] # None
        /\ pc[w] \in {"intendVerify", "poll", "observe", "recheck", "promote"} =>
              known[w].plan = evidence[job[w]].plan
        /\ pc[w] \in {"observe", "recheck", "promote"} => candidate[w] # None
        /\ read[w] # None => pc[w] \in Checkpoints /\ state[job[w]] = read[w]
    BY <1>2 DEF Rest, FenceOK, LocationOK, CandidateOK, ReadOK, TypeOK, JournalTypeOK
  <2>2. ASSUME Started(w) \/ Open(w) \/ CheckNav(w) \/ Navigated(w) \/ Exported(w)
        PROVE  Rest'
    BY <1>2, <2>1, <2>2, RestMoved, StatesTable
       DEF Checkpoints, Started, Open, CheckNav, Navigated, Exported, Look, Steps, TrySteps
  <2>3. ASSUME Recall(w) PROVE Rest'
    <3>1. state[job[w]] \in IF evidence[job[w]].plan = None THEN {"prepared", "navigating"}
                            ELSE {"exporting", "verifying", "uncertain"}
      BY <2>1, <2>3 DEF Recall, Look, Rest, RowsOK, BeforeIntent, AfterIntent, ActiveStates
    <3>2. CASE evidence[job[w]].plan = None
      BY <1>2, <2>1, <2>3, <3>1, <3>2, RestMoved, StatesTable DEF Checkpoints, Recall, Look, Steps, TrySteps
    <3>3. CASE evidence[job[w]].plan # None
      BY <1>2, <2>1, <2>3, <3>1, <3>3, RestMoved, StatesTable DEF Checkpoints, Recall, Look, Steps, TrySteps
    <3>4. QED
      BY <3>2, <3>3
  <2>4. ASSUME Leave(w) PROVE Rest'
    BY <1>2, <2>1, <2>4, RestMoved, StatesTable DEF Checkpoints, Leave, Steps
  <2>5. ASSUME Navigate(w) PROVE Rest'
    BY <1>2, <2>1, <2>5, RestMoved, StatesTable DEF Checkpoints, Navigate, Steps, TrySteps
  <2>6. ASSUME View(w) PROVE Rest'
    BY <1>2, <2>1, <2>6, RestMoved, StatesTable DEF Checkpoints, View, Steps, TrySteps
  <2>7. ASSUME Snapshot(w) PROVE Rest'
    <3>1. plan'[w] # None
      BY <2>7, NoPlanAssumption DEF Snapshot, Plan, TypeOK
    <3>2. QED
      BY <1>2, <2>1, <2>7, <3>1, RestMoved, StatesTable DEF Checkpoints, Snapshot, Steps, TrySteps
  <2>8. ASSUME CheckExport(w) PROVE Rest'
    BY <1>2, <2>1, <2>8, RestMoved, StatesTable DEF Checkpoints, CheckExport, Look, Steps, TrySteps
  <2>9. ASSUME Verify(w) PROVE Rest'
    <3>1. known'[w] = evidence[job[w]]
      BY <2>9 DEF Verify, TypeOK
    <3>2. CASE state[job[w]] = "verifying"
      BY <1>2, <2>1, <2>9, <3>1, <3>2, RestMoved, StatesTable DEF Checkpoints, Verify, Steps, TrySteps
    <3>3. CASE state[job[w]] # "verifying"
      BY <1>2, <2>1, <2>9, <3>1, <3>3, RestMoved, StatesTable DEF Checkpoints, Verify, Steps, TrySteps
    <3>4. QED
      BY <3>2, <3>3
  <2>10. ASSUME PollAgain(w) PROVE Rest'
    <3>1. Goto(w, pc[w])
      BY <2>10 DEF PollAgain, Goto, TypeOK
    <3>2. QED
      BY <1>2, <2>1, <2>10, <3>1, RestMoved, StatesTable DEF Checkpoints, PollAgain, Steps, TrySteps
  <2>11. ASSUME PollHit(w) PROVE Rest'
    <3>1. candidate'[w] # None
      <4>1. ASSUME NEW c \in Candidates(disk, known[w].plan.files)
            PROVE  c \in Artifact
        BY <4>1 DEF Candidates, Added, Artifact, Directory, TypeOK
      <4>2. QED
        BY <2>11, <4>1, NoneAssumption DEF PollHit, TypeOK
    <3>2. QED
      BY <1>2, <2>1, <2>11, <3>1, RestMoved, StatesTable DEF Checkpoints, PollHit, Steps, TrySteps
  <2>12. ASSUME Observe(w) PROVE Rest'
    BY <1>2, <2>1, <2>12, RestMoved, StatesTable DEF Checkpoints, Observe, Steps, TrySteps
  <2>13. ASSUME Recheck(w) PROVE Rest'
    BY <1>2, <2>1, <2>13, RestMoved, StatesTable DEF Checkpoints, Recheck, Look, Steps, TrySteps
  <2>14. QED
    BY <2>2, <2>3, <2>4, <2>5, <2>6, <2>7, <2>8, <2>9, <2>10, <2>11, <2>12, <2>13
<1>3. QED
  BY <1>1, <1>2

\* A run is begun: every worker was idle, and no run was unresolved.
LEMMA StartRest ==
  ASSUME TypeOK, TypeOK', Rest, NEW w \in Workers, NEW r \in Runs, NEW b \in BOOLEAN,
         Start(w, r, b)
  PROVE  Rest'
<1> USE DEF Start, journalVars, ghostVars
<1>1. \A v \in Workers : pc[v] = "idle" /\ read[v] = None
  BY AllIdle DEF Rest
<1>2. /\ pc'[w] \in {"recall", "begin"} /\ job'[w] = r
      /\ \A v \in Workers : read'[v] = None /\ (v # w => pc'[v] = "idle")
  BY <1>1 DEF TypeOK, Goto
<1>3. RowsOK' /\ SoleOK' /\ ReadOK'
  BY <1>2 DEF Rest, RowsOK, SoleOK, ReadOK, Unresolved
<1>4. FenceOK' /\ CandidateOK'
  BY <1>2 DEF FenceOK, CandidateOK
<1>5. LocationOK'
  BY <1>2, StatesTable DEF LocationOK, TypeOK, JournalTypeOK
<1>6. QED
  BY <1>3, <1>4, <1>5 DEF Rest

LEMMA BeginRest ==
  ASSUME TypeOK, TypeOK', Rest, NEW w \in Workers, Begin(w)
  PROVE  Rest'
<1> USE DEF Begin, BeginRow, localVars, ghostVars
<1>1. job[w] \in Runs /\ job' = job
  BY DEF Rest, FenceOK
<1>2. /\ pc'[w] = "started" /\ state'[job[w]] = "prepared"
      /\ \A v \in Workers \ {w} : pc'[v] = pc[v] /\ pc[v] = "idle" /\ read[v] = None
  BY <1>1, Alone DEF TypeOK, JournalTypeOK, Goto, Rest
<1>3. \A r \in Runs \ {job[w]} : state'[r] = state[r] /\ r \notin Unresolved'
  BY <1>1 DEF Unresolved, TypeOK, JournalTypeOK
<1>4. RowsOK'
  BY <1>1, <1>2, <1>3 DEF Rest, RowsOK, BeforeIntent, AfterIntent
<1>5. SoleOK'
  BY <1>3 DEF SoleOK, Unresolved
<1>6. FenceOK' /\ CandidateOK'
  BY <1>1, <1>2 DEF Rest, FenceOK, CandidateOK
<1>7. LocationOK'
  BY <1>1, <1>2, StatesTable DEF LocationOK
<1>8. ReadOK'
  <2>1. read[w] = None
    BY DEF Rest, ReadOK, Checkpoints
  <2>2. QED
    BY <1>1, <1>2, <2>1 DEF ReadOK
<1>9. QED
  BY <1>4, <1>5, <1>6, <1>7, <1>8 DEF Rest

\* What a checkpoint stores: the worker's own baseline with the export intent,
\* the row's otherwise, and never less than the recorded cancellation.
LEMMA WrittenEvidence ==
  ASSUME TypeOK, Rest, NEW w \in Workers, pc[w] \in DOMAIN Target
  PROVE  /\ pc[w] = "intendExport" => Merged(job[w], Given(w)).plan # None
         /\ pc[w] # "intendExport" => Merged(job[w], Given(w)).plan = evidence[job[w]].plan
         /\ evidence[job[w]].cancelRequested => Merged(job[w], Given(w)).cancelRequested
<1>1. pc[w] # "idle" /\ job[w] \in Runs /\ evidence[job[w]] \in Evidence /\ known[w] \in Evidence
  BY Tables DEF Rest, FenceOK, TypeOK, JournalTypeOK
<1>2. CASE pc[w] = "intendExport"
  <2>1. plan[w] \in Plan
    BY <1>1, <1>2 DEF Rest, LocationOK, TypeOK
  <2>2. Given(w) = [NoEvidence EXCEPT !.plan = plan[w]] /\ Given(w) \in Evidence
    BY <1>2, <2>1, EmptyEvidence DEF Given, Evidence, NoEvidence
  <2>3. Given(w).plan = plan[w] /\ Given(w) # None
    BY <2>2, NoPlanAssumption DEF NoEvidence
  <2>4. QED
    BY <1>1, <1>2, <2>1, <2>2, <2>3, NoPlanAssumption DEF Merged, Evidence
<1>3. CASE pc[w] = "promote"
  <2>1. Given(w) = [known[w] EXCEPT !.artifact = candidate[w]] /\ candidate[w] \in Artifact \cup {None}
    BY <1>3 DEF Given, TypeOK
  <2>2. Given(w) \in Evidence /\ Given(w).plan = evidence[job[w]].plan
    BY <1>1, <1>3, <2>1 DEF Evidence, Rest, LocationOK
  <2>3. QED
    BY <1>1, <1>3, <2>2, NoPlanAssumption DEF Merged, Evidence
<1>4. CASE pc[w] \notin {"intendExport", "promote"}
  BY <1>4 DEF Given, Merged
<1>5. QED
  BY <1>2, <1>3, <1>4

\* A checkpoint of the busy worker keeps the invariant if the new row, and the
\* step the worker goes to, are in order.
LEMMA CheckpointRest ==
  ASSUME TypeOK, TypeOK', Rest, NEW w \in Workers, pc[w] # "idle",
         NEW to \in RowStates, NEW given, CheckpointRow(job[w], read[w], to, given),
         read[w] \in ActiveStates, read' = [read EXCEPT ![w] = None],
         NEW step \in {"checkNav", "checkExport", "poll", "finish"}, Goto(w, step),
         UNCHANGED <<fence, job, known, candidate, exports>>,
         to \in StatesAt(step),
         to \in BeforeIntent => /\ Merged(job[w], given).plan = None
                                /\ exports[job[w]] = 0,
         to \in AfterIntent \/ exports[job[w]] > 0 => Merged(job[w], given).plan # None,
         step = "checkExport" => exports[job[w]] = 0,
         step = "poll" => known[w].plan = Merged(job[w], given).plan
  PROVE  Rest'
<1> DEFINE r == job[w]
<1> USE DEF CheckpointRow, Rest
<1>1. /\ r \in Runs /\ state'[r] = to /\ evidence'[r] = Merged(r, given)
      /\ \A q \in Runs \ {r} : state'[q] = state[q] /\ evidence'[q] = evidence[q]
      /\ r \in Unresolved
  BY DEF FenceOK, TypeOK, JournalTypeOK, Unresolved
<1>2. /\ pc'[w] = step /\ read'[w] = None
      /\ \A v \in Workers \ {w} : pc'[v] = "idle" /\ read'[v] = None
  BY Alone DEF TypeOK, Goto
<1>3. RowsOK'
  BY <1>1 DEF RowsOK
<1>4. FenceOK' /\ CandidateOK' /\ ReadOK'
  BY <1>1, <1>2 DEF FenceOK, CandidateOK, ReadOK
<1>5. SoleOK'
  BY <1>1 DEF SoleOK, Unresolved
<1>6. LocationOK'
  BY <1>1, <1>2, StatesTable DEF LocationOK
<1>7. QED
  BY <1>3, <1>4, <1>5, <1>6

LEMMA WriteRest ==
  ASSUME TypeOK, TypeOK', Rest, NEW w \in Workers, WriteRow(w)
  PROVE  Rest'
<1> DEFINE r == job[w]
           m == Merged(r, Given(w))
<1>1. /\ r \in Runs /\ pc[w] # "idle" /\ state[r] \in StatesAt(pc[w]) /\ state[r] = read[w]
      /\ pc[w] = "intendVerify" => known[w].plan = evidence[r].plan
      /\ UNCHANGED <<fence, job, known, candidate, exports>>
      /\ CheckpointRow(r, read[w], Target[pc[w]], Given(w)) /\ Goto(w, Resume[pc[w]])
      /\ read' = [read EXCEPT ![w] = None]
  BY Tables DEF WriteRow, Rest, FenceOK, LocationOK, ReadOK, ghostVars
<1>2. /\ state[r] \in BeforeIntent => evidence[r].plan = None /\ exports[r] = 0
      /\ state[r] \in AfterIntent  => evidence[r].plan # None
      /\ exports[r] > 0 => evidence[r].plan # None
  BY <1>1 DEF Rest, RowsOK
<1>3. /\ pc[w] = "intendExport" => m.plan # None
      /\ pc[w] # "intendExport" => m.plan = evidence[r].plan
  BY WrittenEvidence DEF WriteRow
<1> DEFINE to == Target[pc[w]]
           step == Resume[pc[w]]
           InOrder == /\ read[w] \in ActiveStates /\ to \in RowStates
                      /\ step \in {"checkNav", "checkExport", "poll", "finish"}
                      /\ to \in StatesAt(step)
                      /\ to \in BeforeIntent => m.plan = None /\ exports[r] = 0
                      /\ to \in AfterIntent \/ exports[r] > 0 => m.plan # None
                      /\ step = "checkExport" => exports[r] = 0
                      /\ step = "poll" => known[w].plan = m.plan
<1>4. InOrder
  <2> USE DEF BeforeIntent, AfterIntent, ActiveStates, RowStates, TerminalStates
  <2>1. CASE pc[w] = "intendNav"
    BY <1>1, <1>2, <1>3, <2>1, Tables, StatesTable
  <2>2. CASE pc[w] = "intendExport"
    BY <1>1, <1>2, <1>3, <2>2, Tables, StatesTable
  <2>3. CASE pc[w] = "intendVerify"
    BY <1>1, <1>2, <1>3, <2>3, Tables, StatesTable
  <2>4. CASE pc[w] = "promote"
    BY <1>1, <1>2, <1>3, <2>4, Tables, StatesTable
  <2>5. CASE pc[w] = "intendStop"
    BY <1>1, <1>2, <1>3, <2>5, Tables, StatesTable
  <2>6. QED
    BY <2>1, <2>2, <2>3, <2>4, <2>5, Tables DEF WriteRow
<1>5. QED
  BY <1>1, <1>4, CheckpointRest

LEMMA FailRest ==
  ASSUME TypeOK, TypeOK', Rest, NEW w \in Workers, FailRow(w)
  PROVE  Rest'
<1> DEFINE r == job[w]
<1>1. /\ r \in Runs /\ pc[w] = "failed" /\ state[r] = read[w]
      /\ UNCHANGED <<fence, job, plan, known, candidate, exports>>
      /\ Goto(w, "finish") /\ read' = [read EXCEPT ![w] = None]
  BY DEF FailRow, Rest, FenceOK, ReadOK, ghostVars
<1>2. CASE read[w] \in DOMAIN FailState
  <2>1. CheckpointRow(r, read[w], FailState[read[w]], None)
    BY <1>2 DEF FailRow
  <2>2. Merged(r, None) = evidence[r]
    BY DEF Merged
  <2>3. /\ state[r] \in BeforeIntent => evidence[r].plan = None /\ exports[r] = 0
        /\ state[r] \in AfterIntent \/ exports[r] > 0 => evidence[r].plan # None
    BY <1>1 DEF Rest, RowsOK
  <2>4. /\ read[w] \in ActiveStates /\ FailState[read[w]] \in RowStates
        /\ FailState[read[w]] \in StatesAt("finish")
        /\ FailState[read[w]] \in BeforeIntent => evidence[r].plan = None /\ exports[r] = 0
        /\ FailState[read[w]] \in AfterIntent \/ exports[r] > 0 => evidence[r].plan # None
    BY <1>1, <1>2, <2>3, FailStates, StatesTable
       DEF BeforeIntent, AfterIntent, ActiveStates, RowStates, TerminalStates
  <2>5. QED
    BY <1>1, <2>1, <2>2, <2>4, CheckpointRest
<1>3. CASE read[w] \notin DOMAIN FailState
  <2>1. UNCHANGED journalVars /\ state[r] \in RowStates
    BY <1>1, <1>3 DEF FailRow, TypeOK, JournalTypeOK
  <2>2. read'[w] = None /\ \A v \in Workers \ {w} : read'[v] = read[v]
    BY <1>1 DEF TypeOK
  <2>3. QED
    BY <1>1, <2>1, <2>2, RestMoved, StatesTable DEF Steps
<1>4. QED
  BY <1>2, <1>3

\* Reading the row, raising, and giving up leave the rows alone.
LEMMA TurnRest ==
  ASSUME TypeOK, TypeOK', Rest, NEW w \in Workers, ReadRow(w) \/ StepRaises(w) \/ GiveUp(w)
  PROVE  Rest'
<1> USE DEF journalVars, ghostVars
<1>1. pc[w] # "idle"
  BY Tables DEF ReadRow, StepRaises, GiveUp, TrySteps
<1>2. /\ job[w] \in Runs /\ state[job[w]] \in RowStates
      /\ state[job[w]] \in StatesAt(pc[w])
      /\ pc[w] = "intendExport" => plan[w] # None
      /\ pc[w] \in {"intendVerify", "poll", "observe", "recheck", "promote"} =>
            known[w].plan = evidence[job[w]].plan
      /\ pc[w] \in {"observe", "recheck", "promote"} => candidate[w] # None
  BY <1>1 DEF Rest, FenceOK, LocationOK, CandidateOK, TypeOK, JournalTypeOK
<1>3. ASSUME ReadRow(w) PROVE Rest'
  <2>1. Goto(w, pc[w]) /\ pc[w] \in Checkpoints /\ read'[w] = state[job[w]]
    BY <1>3, Tables DEF ReadRow, Goto, TypeOK, Checkpoints
  <2>2. \A v \in Workers \ {w} : UNCHANGED <<read[v], plan[v], known[v], candidate[v]>>
    BY <1>3 DEF ReadRow, TypeOK
  <2>3. QED
    BY <1>1, <1>2, <1>3, <2>1, <2>2, RestMoved DEF ReadRow, Checkpoints, Steps, TrySteps
<1>4. ASSUME StepRaises(w) PROVE Rest'
  <2>1. state[job[w]] \in StatesAt("failed")
    BY <1>2, <1>4, StatesTable DEF StepRaises, TrySteps, ActiveStates
  <2>2. /\ read'[w] = None
        /\ \A v \in Workers \ {w} : UNCHANGED <<read[v], plan[v], known[v], candidate[v]>>
    BY <1>4 DEF StepRaises, Forget, TypeOK
  <2>3. QED
    BY <1>1, <1>2, <1>4, <2>1, <2>2, RestMoved DEF StepRaises, Steps
<1>5. ASSUME GiveUp(w) PROVE Rest'
  <2>1. /\ read'[w] = None
        /\ \A v \in Workers \ {w} : UNCHANGED <<read[v], plan[v], known[v], candidate[v]>>
    BY <1>5 DEF GiveUp, TypeOK
  <2>2. QED
    BY <1>1, <1>2, <1>5, <2>1, RestMoved, StatesTable DEF GiveUp, Steps
<1>6. QED
  BY <1>3, <1>4, <1>5

\* The export input goes out for a row whose intent is durable, the first time.
LEMMA ExportRest ==
  ASSUME TypeOK, TypeOK', Rest, NEW w \in Workers, Export(w)
  PROVE  Rest'
<1> DEFINE r == job[w]
<1> USE DEF Export, journalVars, localVars
<1>1. r \in Runs /\ state[r] = "exporting" /\ exports[r] = 0
  BY StatesTable DEF Rest, FenceOK, LocationOK
<1>2. /\ pc'[w] = "exported" /\ exports'[r] = 1 /\ evidence[r].plan # None
      /\ \A q \in Runs \ {r} : exports'[q] = exports[q]
      /\ \A v \in Workers \ {w} : pc'[v] = "idle" /\ read[v] = None
  BY <1>1, Alone DEF TypeOK, Goto, Rest, RowsOK, AfterIntent
<1>3. RowsOK'
  BY <1>1, <1>2 DEF Rest, RowsOK, BeforeIntent
<1>4. FenceOK' /\ CandidateOK' /\ SoleOK'
  BY <1>2 DEF Rest, FenceOK, CandidateOK, SoleOK, Unresolved
<1>5. LocationOK' /\ ReadOK'
  BY <1>1, <1>2, StatesTable DEF Rest, LocationOK, ReadOK, Checkpoints
<1>6. QED
  BY <1>3, <1>4, <1>5 DEF Rest

\* Abandon holds the fence: no worker is in the middle of the run.
LEMMA AbandonRest ==
  ASSUME TypeOK, TypeOK', Rest, NEW r \in Runs, Abandon(r)
  PROVE  Rest'
<1> USE DEF Abandon, AbandonRow, localVars, ghostVars
<1>1. \A v \in Workers : pc'[v] = "idle" /\ read'[v] = None
  BY AllIdle DEF Rest
<1>2. state'[r] = "abandoned" /\ \A q \in Runs \ {r} : state'[q] = state[q]
  BY DEF TypeOK, JournalTypeOK
<1>3. RowsOK' /\ SoleOK'
  BY <1>2 DEF Rest, RowsOK, SoleOK, Unresolved, BeforeIntent, AfterIntent, ActiveStates
<1>4. QED
  BY <1>1, <1>3 DEF Rest, FenceOK, CandidateOK, LocationOK, ReadOK

\* The operator's transactions change no active row's state and no baseline.
LEMMA OperatorRest ==
  ASSUME TypeOK, TypeOK', Rest, NEW r \in Runs, Operator(r)
  PROVE  Rest'
<1> USE DEF Operator, localVars, ghostVars, ActiveStates
<1>1. /\ \A q \in Runs : evidence'[q].plan = evidence[q].plan
      /\ \A q \in Runs \ {r} : state'[q] = state[q]
      /\ \/ state'[r] = state[r]
         \/ state[r] \in {"absent", "approved"} /\ state'[r] \in {"approved", "stopped"}
  <2>1. CASE Approve(r)
    BY <2>1 DEF Approve, TypeOK, JournalTypeOK
  <2>2. CASE Expire(r)
    BY <2>2 DEF Expire
  <2>3. CASE Cancel(r)
    BY <2>3 DEF Cancel, TypeOK, JournalTypeOK, Evidence
  <2>4. QED
    BY <2>1, <2>2, <2>3
<1>2. UNCHANGED <<fence, pc, job, read, plan, known, candidate, exports>>
  OBVIOUS
<1>3. RowsOK' /\ SoleOK'
  BY <1>1, <1>2 DEF Rest, RowsOK, SoleOK, Unresolved, BeforeIntent, AfterIntent
<1>4. FenceOK' /\ CandidateOK'
  BY <1>2 DEF Rest, FenceOK, CandidateOK
<1>5. LocationOK'
  <2>1. SUFFICES ASSUME NEW w \in Workers, pc[w] # "idle"
                 PROVE  state'[job[w]] \in StatesAt(pc[w])
    BY <1>1, <1>2 DEF Rest, FenceOK, LocationOK, StatesAt
  <2>2. job[w] \in Runs /\ state[job[w]] \in StatesAt(pc[w])
    BY <2>1 DEF Rest, FenceOK, LocationOK
  <2>3. CASE pc[w] \in {"begin", "recall", "finish"}
    <3>1. state' \in [Runs -> RowStates]
      BY DEF TypeOK, JournalTypeOK
    <3>2. QED
      BY <2>2, <2>3, <3>1, StatesTable
  <2>4. CASE pc[w] \notin {"begin", "recall", "finish"}
    <3>1. pc[w] \in (TrySteps \cup {"started", "failed"})
      BY <2>1, <2>4 DEF TypeOK, Steps
    <3>2. StatesAt(pc[w]) \subseteq ActiveStates
      BY <3>1, StatesTable DEF TrySteps
    <3>3. state'[job[w]] = state[job[w]]
      BY <1>1, <2>2, <3>2
    <3>4. QED
      BY <2>2, <3>3
  <2>5. QED
    BY <2>3, <2>4
<1>6. ReadOK'
  <2>1. SUFFICES ASSUME NEW w \in Workers, read[w] # None
                 PROVE  state'[job[w]] = read[w]
    BY <1>2 DEF Rest, ReadOK
  <2>2. /\ job[w] \in Runs /\ state[job[w]] = read[w]
        /\ pc[w] \in Checkpoints /\ state[job[w]] \in StatesAt(pc[w])
    BY <2>1 DEF Rest, FenceOK, LocationOK, ReadOK, Checkpoints
  <2>3. QED
    BY <1>1, <2>2, StatesTable DEF Checkpoints
<1>7. QED
  BY <1>3, <1>4, <1>5, <1>6 DEF Rest

LEMMA RestStep ==
  ASSUME TypeOK, TypeOK', Rest, [Next]_vars
  PROVE  Rest'
<1>1. ASSUME NEW w \in Workers, WorkerStep(w) PROVE Rest'
  <2>1. CASE Begin(w)
    BY <2>1, BeginRest
  <2>2. CASE Finish(w)
    BY <2>2, RestReleased DEF Finish
  <2>3. CASE WriteRow(w)
    BY <2>3, WriteRest
  <2>4. CASE FailRow(w)
    BY <2>4, FailRest
  <2>5. CASE Export(w)
    BY <2>5, ExportRest
  <2>6. CASE ReadRow(w) \/ StepRaises(w) \/ GiveUp(w)
    BY <2>6, TurnRest
  <2>7. QED
    BY <1>1, <2>1, <2>2, <2>3, <2>4, <2>5, <2>6, LookRest DEF WorkerStep
<1>2. ASSUME NEW w \in Workers, Crash(w) PROVE Rest'
  BY <1>2, RestReleased DEF Crash
<1>3. ASSUME NEW w \in Workers, NEW r \in Runs, NEW b \in BOOLEAN, Start(w, r, b) PROVE Rest'
  BY <1>3, StartRest
<1>4. ASSUME NEW r \in Runs, Abandon(r) PROVE Rest'
  BY <1>4, AbandonRest
<1>5. ASSUME NEW r \in Runs, Operator(r) PROVE Rest'
  BY <1>5, OperatorRest
<1>6. ASSUME NEW r \in Runs, Deliver(r) \/ Complete(r) \/ Rewrite(r) PROVE Rest'
  BY <1>6, RestUnmoved DEF Deliver, Complete, Rewrite, ghostVars
<1>7. CASE RestartBrowser
  BY <1>7, RestUnmoved DEF RestartBrowser, ghostVars
<1>8. CASE UNCHANGED vars
  BY <1>8, RestUnmoved DEF vars, ghostVars
<1>9. QED
  BY <1>1, <1>2, <1>3, <1>4, <1>5, <1>6, <1>7, <1>8 DEF Next
-----------------------------------------------------------------------------
(* The theorems *)

LEMMA InitInvariant == Init => IInv
<1> SUFFICES ASSUME Init PROVE IInv
  OBVIOUS
<1> USE DEF Init, JournalInit
<1>1. TypeOK
  BY EmptyEvidence, PollsAssumption
     DEF TypeOK, JournalTypeOK, RowStates, Steps, Directory, EmptyDirectory
<1>2. RowsOK /\ SoleOK
  BY DEF RowsOK, SoleOK, Unresolved, ActiveStates, BeforeIntent, AfterIntent, NoEvidence
<1>3. FenceOK /\ CandidateOK /\ LocationOK /\ ReadOK
  BY DEF FenceOK, CandidateOK, LocationOK, ReadOK
<1>4. QED
  BY <1>1, <1>2, <1>3 DEF IInv

LEMMA NextInvariant == IInv /\ [Next]_vars => IInv'
BY TypesStep, RestStep DEF IInv, Rest

\* The strengthening of the safety properties: at every step of every worker,
\* the row it works on is in a state that step's durable intent committed.
THEOREM Invariant == Spec => []IInv
BY InitInvariant, NextInvariant, PTL DEF Spec

\* Every variable keeps its type, for any number of processes and runs.
THEOREM TypeCorrect == Spec => []TypeOK
<1>1. IInv => TypeOK
  BY DEF IInv
<1>2. QED
  BY <1>1, Invariant, PTL

\* No approval ever sends a second export input: not after a crash, a
\* reconciliation, a repeated request, or with many processes (runner.py:134).
THEOREM ExportsOnce == Spec => []AtMostOneExport
<1>1. IInv => AtMostOneExport
  BY DEF IInv, RowsOK, AtMostOneExport
<1>2. QED
  BY <1>1, Invariant, PTL

\* When an export input is sent its intent and its baseline are durable; what
\* is closed as stopped never exported (runner.py:131).
THEOREM IntentFirst == Spec => []IntentBeforeInput
<1>1. IInv => IntentBeforeInput
  <2>1. SUFFICES ASSUME IInv, NEW r \in Runs, exports[r] > 0
                 PROVE  /\ evidence[r].plan # None
                        /\ state[r] \in AfterIntent \cup {"abandoned"}
    BY DEF IntentBeforeInput, AfterIntent
  <2>2. state[r] \in RowStates /\ (state[r] \in BeforeIntent => exports[r] = 0)
    BY <2>1 DEF IInv, RowsOK, TypeOK, JournalTypeOK
  <2>3. QED
    BY <2>1, <2>2
       DEF IInv, RowsOK, RowStates, ActiveStates, TerminalStates, BeforeIntent, AfterIntent
<1>2. QED
  BY <1>1, Invariant, PTL

\* What a checkpoint has read is still the row when it writes, although cancel
\* and other processes' requests need no fence (journal.py:73).
THEOREM CheckpointsAreFresh == Spec => []NeverStale
<1>1. IInv => NeverStale
  BY DEF IInv, ReadOK, NeverStale
<1>2. QED
  BY <1>1, Invariant, PTL

\* However many processes work on the store, at most one run is unresolved
\* (journal.py:59).
THEOREM OneAtATime == Spec => []OneUnresolved
<1>1. IInv => OneUnresolved
  <2>1. SUFFICES ASSUME SoleOK PROVE Cardinality(Unresolved) <= 1
    BY DEF IInv, OneUnresolved
  <2>2. CASE Unresolved = {}
    BY <2>2, FS_EmptySet
  <2>3. CASE Unresolved # {}
    <3>1. PICK r \in Unresolved : TRUE
      BY <2>3
    <3>2. Unresolved = {r}
      BY <2>1, <3>1 DEF SoleOK
    <3>3. Cardinality(Unresolved) = 1
      BY <3>2, FS_Singleton
    <3>4. QED
      BY <3>3
  <2>4. QED
    BY <2>2, <2>3
<1>2. QED
  BY <1>1, Invariant, PTL

\* The four together: what the run checks.
THEOREM SafeRuns == Spec => []RunsAreSafe
<1>1. TypeOK /\ AtMostOneExport /\ IntentBeforeInput /\ OneUnresolved => RunsAreSafe
  BY DEF RunsAreSafe
<1>2. QED
  BY <1>1, TypeCorrect, ExportsOnce, IntentFirst, OneAtATime, PTL
-----------------------------------------------------------------------------
(* What the reports rest on                                                *)
(*                                                                         *)
(* More adds to the invariant what ties a row to the download directory.   *)
(* An abandoned run that has exported may deliver its file later, and that *)
(* file may serve another run; as long as there is none (NoLost), a file   *)
(* that is new to a run's baseline is the run's own.                       *)

NoLost == \A q \in Runs : state[q] = "abandoned" => exports[q] = 0

\* A baseline of run r knows the files of all other runs that have exported.
Covers(p, r) == \A q \in Runs \ {r} : exports[q] > 0 => p.files[q] # None

\* A file is only ever rewritten with a later stamp.
Older(f, g) == f = g \/ f.stamp < g.stamp

FilesOK == \A r \in Runs : disk[r] # None \/ r \in inFlight => exports[r] > 0

LateOK == /\ \A r \in Runs : /\ lateInputs[r] <= 1
                             /\ lateInputs[r] > 0 => evidence[r].cancelRequested
          /\ \A w \in Workers : pc[w] \in {"navigate", "export"} => lateInputs[job[w]] = 0

Candidacy == {"observe", "recheck", "promote"}

\* What is known of a run and of its worker's candidate c at a step: the
\* candidate is on the disk, the file that was observed lies between the
\* two readings, and after the second they are one.
Traced(step, c, r) ==
  /\ step \in Candidacy => disk[c.run] # None /\ Older(c.file, disk[c.run])
  /\ step = "recheck" => /\ fileAtView[r] # None /\ Older(c.file, fileAtView[r])
                         /\ Older(fileAtView[r], disk[c.run])
  /\ step = "promote" => fileAtView[r] = c.file /\ c.file.content = "right"

TracedOK == \A w \in Workers : pc[w] # "idle" => Traced(pc[w], candidate[w], job[w])

\* A verified row names the file that was observed.
Proven(r) == LET a == evidence[r].artifact IN
             a # None /\ fileAtView[r] = a.file /\ a.file.content = "right"
ProvenOK  == \A r \in Runs : state[r] = "verified" => Proven(r)

\* The run's own file, as long as no file can come from an abandoned run.
OwnRow(r) ==
  /\ state[r] = "verified" => disk[r] # None /\ evidence[r].artifact.run = r
  /\ state[r] \in ActiveStates /\ evidence[r].plan # None => Covers(evidence[r].plan, r)
OwnWorker(w) ==
  /\ pc[w] = "intendExport" => Covers(plan[w], job[w])
  /\ pc[w] \in Candidacy => candidate[w].run = job[w]
OwnOK == NoLost => (\A r \in Runs : OwnRow(r)) /\ (\A w \in Workers : OwnWorker(w))

More == FilesOK /\ LateOK /\ TracedOK /\ ProvenOK /\ OwnOK

LEMMA OlderTransitive ==
  ASSUME NEW f \in File, NEW g \in File, NEW h \in File, Older(f, g), Older(g, h)
  PROVE  Older(f, h)
BY RewritesAssumption DEF Older, File

LEMMA OlderBetween ==
  ASSUME NEW f \in File, NEW g \in File, Older(f, g), Older(g, f)
  PROVE  f = g
BY RewritesAssumption DEF Older, File

\* A step of a busy worker that leaves the rows, the inputs and the directory
\* alone keeps More, if the worker itself is in order afterwards.
LEMMA MoreMoved ==
  ASSUME TypeOK, TypeOK', Rest, More, NEW w \in Workers, pc[w] # "idle",
         UNCHANGED <<journalVars, fence, job, exports, lateInputs, disk, inFlight>>,
         NEW step \in Steps, Goto(w, step),
         \A v \in Workers \ {w} : UNCHANGED <<plan[v], candidate[v]>>,
         \A r \in Runs : (r = job[w] /\ state[r] # "verified") \/ fileAtView'[r] = fileAtView[r],
         step \in {"navigate", "export"} => lateInputs[job[w]] = 0,
         step # "idle" => Traced(step, candidate[w], job[w])',
         NoLost => /\ step = "intendExport" => Covers(plan'[w], job[w])
                   /\ step \in Candidacy => candidate'[w].run = job[w]
  PROVE  More'
<1> USE DEF More, Goto, journalVars
<1>1. /\ pc'[w] = step
      /\ \A v \in Workers \ {w} : pc'[v] = "idle" /\ pc[v] = "idle"
  BY Alone DEF TypeOK, Rest
<1>2. FilesOK' /\ LateOK'
  BY <1>1 DEF FilesOK, LateOK
<1>3. TracedOK'
  BY <1>1 DEF TracedOK
<1>4. ProvenOK'
  BY DEF ProvenOK, Proven
<1>5. NoLost' => NoLost
  BY DEF NoLost
<1>6. OwnOK'
  <2>1. SUFFICES ASSUME NoLost PROVE (\A r \in Runs : OwnRow(r)') /\ (\A v \in Workers : OwnWorker(v)')
    BY <1>5 DEF OwnOK
  <2>2. \A r \in Runs : OwnRow(r)'
    BY <2>1 DEF OwnOK, OwnRow, Covers
  <2>3. \A v \in Workers : OwnWorker(v)'
    BY <1>1, <2>1 DEF OwnOK, OwnWorker, Covers, Candidacy
  <2>4. QED
    BY <2>2, <2>3
<1>7. QED
  BY <1>2, <1>3, <1>4, <1>6

\* What is known of the worker of a step before it takes it.
LEMMA MoreOfWorker ==
  ASSUME TypeOK, Rest, More, NEW w \in Workers, pc[w] # "idle"
  PROVE  /\ job[w] \in Runs
         /\ pc[w] \in {"navigate", "export"} => lateInputs[job[w]] = 0
         /\ Traced(pc[w], candidate[w], job[w])
         /\ pc[w] \in Candidacy => candidate[w] \in Artifact /\ disk[candidate[w].run] \in File
         /\ NoLost => /\ pc[w] = "intendExport" => Covers(plan[w], job[w])
                      /\ pc[w] \in Candidacy => candidate[w].run = job[w]
<1>1. job[w] \in Runs
  BY DEF Rest, FenceOK
<1>2. Traced(pc[w], candidate[w], job[w])
  BY DEF More, TracedOK
<1>3. pc[w] \in Candidacy => candidate[w] \in Artifact
  BY DEF Rest, CandidateOK, Candidacy, TypeOK
<1>4. pc[w] \in Candidacy => disk[candidate[w].run] \in File
  BY <1>2, <1>3 DEF Traced, TypeOK, Directory, Artifact
<1>5. QED
  BY <1>1, <1>2, <1>3, <1>4 DEF More, LateOK, OwnOK, OwnWorker

\* With no file of an abandoned run on its way, what another run has exported is
\* on the disk by the time this one looks at the directory.
LEMMA DiskCovers ==
  ASSUME TypeOK, Rest, More, NoLost, NEW r \in Runs, r \in Unresolved,
         NEW q \in Runs \ {r}, exports[q] > 0
  PROVE  disk[q] # None
<1>1. state[q] \notin ActiveStates /\ state[q] # "abandoned" /\ state[q] \notin BeforeIntent
  BY DEF Rest, SoleOK, Unresolved, NoLost, RowsOK
<1>2. state[q] = "verified"
  BY <1>1 DEF TypeOK, JournalTypeOK, RowStates, ActiveStates, TerminalStates, BeforeIntent
<1>3. QED
  BY <1>2 DEF More, OwnOK, OwnRow

\* The file that is new to the run's baseline is its own.
LEMMA NewIsOwn ==
  ASSUME TypeOK, Rest, More, NoLost, NEW r \in Runs, state[r] = "verifying",
         NEW c \in Candidates(disk, evidence[r].plan.files)
  PROVE  c.run = r
<1>1. c.run \in Runs /\ disk[c.run] # None /\ evidence[r].plan.files[c.run] = None
  BY DEF Candidates, Added
<1>2. exports[c.run] > 0
  BY <1>1 DEF More, FilesOK
<1>3. Covers(evidence[r].plan, r)
  BY DEF More, OwnOK, OwnRow, Rest, RowsOK, AfterIntent, ActiveStates
<1>4. QED
  BY <1>1, <1>2, <1>3 DEF Covers

\* What a look at the directory returns is the file that is there.
LEMMA CandidateIsThere ==
  ASSUME TypeOK, NEW before, NEW c \in Candidates(disk, before)
  PROVE  /\ c \in Artifact /\ disk[c.run] # None /\ c.file = disk[c.run]
<1>1. PICK r \in Added(disk, before) : c = [run |-> r, file |-> disk[r]]
  BY DEF Candidates
<1>2. r \in Runs /\ disk[r] # None
  BY <1>1 DEF Added
<1>3. disk[r] \in File
  BY <1>2 DEF TypeOK, Directory
<1>4. QED
  BY <1>1, <1>2, <1>3 DEF Artifact

LEMMA LookMore ==
  ASSUME TypeOK, TypeOK', Rest, More, NEW w \in Workers,
         \/ Started(w) \/ Recall(w) \/ Leave(w) \/ Open(w) \/ CheckNav(w)
         \/ Navigated(w) \/ View(w) \/ Snapshot(w) \/ CheckExport(w) \/ Exported(w)
         \/ Verify(w) \/ PollAgain(w) \/ PollHit(w) \/ Observe(w) \/ Recheck(w)
  PROVE  More'
<1> USE DEF journalVars, localVars, browserVars, ghostVars
<1>1. pc[w] # "idle"
  BY DEF Started, Recall, Leave, Look, Open, CheckNav, Navigated, View, Snapshot,
         CheckExport, Exported, Verify, PollAgain, PollHit, Observe, Recheck
<1>2. /\ job[w] \in Runs
      /\ lateInputs[job[w]] \in Nat
      /\ Traced(pc[w], candidate[w], job[w])
      /\ pc[w] \in Candidacy => candidate[w] \in Artifact /\ disk[candidate[w].run] \in File
      /\ NoLost => /\ pc[w] = "intendExport" => Covers(plan[w], job[w])
                   /\ pc[w] \in Candidacy => candidate[w].run = job[w]
      /\ NotCancelled(job[w]) => lateInputs[job[w]] = 0
  <2>1. job[w] \in Runs /\ (lateInputs[job[w]] > 0 => evidence[job[w]].cancelRequested)
    BY <1>1, MoreOfWorker DEF More, LateOK
  <2>2. QED
    BY <1>1, <2>1, MoreOfWorker DEF NotCancelled, TypeOK
<1>3. ASSUME Started(w) \/ Recall(w) \/ Leave(w) \/ Open(w) \/ CheckNav(w)
             \/ Navigated(w) \/ CheckExport(w) \/ Exported(w)
      PROVE  More'
  <2>1. \E step \in {"open", "intendStop", "verify", "finish", "intendNav", "navigate", "view",
                     "export"} :
           Goto(w, step) /\ (step \in {"navigate", "export"} => NotCancelled(job[w]))
    BY <1>3 DEF Started, Recall, Leave, Look, Open, CheckNav, Navigated, CheckExport, Exported
  <2>2. PICK step \in {"open", "intendStop", "verify", "finish", "intendNav", "navigate", "view",
                       "export"} :
           Goto(w, step) /\ (step \in {"navigate", "export"} => NotCancelled(job[w]))
    BY <2>1
  <2>3. UNCHANGED <<journalVars, job, exports, lateInputs, disk, inFlight, plan, candidate, fileAtView>>
    BY <1>3 DEF Started, Recall, Leave, Look, Open, CheckNav, Navigated, CheckExport, Exported
  <2>4. Traced(step, candidate[w], job[w])' /\ step \in Steps
    BY <2>2 DEF Traced, Candidacy, Steps, TrySteps
  <2>5. QED
    BY <1>1, <1>2, <1>3, <2>2, <2>3, <2>4, MoreMoved
       DEF Candidacy, Started, Recall, Leave, Look, Open, CheckNav, Navigated, CheckExport, Exported
<1>4. ASSUME View(w) \/ Verify(w) PROVE More'
  <2>1. PICK step \in {"snapshot", "poll", "intendVerify"} : Goto(w, step)
    BY <1>4 DEF View, Verify
  <2>2. Traced(step, candidate[w], job[w])' /\ step \in Steps
    BY <2>1 DEF Traced, Candidacy, Steps, TrySteps
  <2>3. QED
    BY <1>1, <1>2, <1>4, <2>1, <2>2, MoreMoved DEF Candidacy, View, Verify
<1>5. ASSUME Snapshot(w) PROVE More'
  <2>1. plan'[w] = [files |-> disk, downloads |-> seen[w]]
    BY <1>5 DEF Snapshot, TypeOK
  <2>2. job[w] \in Unresolved
    BY <1>1, <1>2, <1>5, StatesTable DEF Snapshot, Rest, LocationOK, Unresolved, ActiveStates
  <2>3. NoLost => Covers(plan'[w], job[w])
    BY <1>2, <2>1, <2>2, DiskCovers DEF Covers
  <2>4. Traced("intendExport", candidate[w], job[w])'
    BY DEF Traced, Candidacy
  <2>5. \A v \in Workers \ {w} : UNCHANGED <<plan[v], candidate[v]>>
    BY <1>5 DEF Snapshot, TypeOK
  <2>6. QED
    BY <1>1, <1>2, <1>5, <2>3, <2>4, <2>5, MoreMoved DEF Candidacy, Snapshot, Steps, TrySteps
<1>6. ASSUME PollAgain(w) PROVE More'
  <2>1. Goto(w, "poll")
    BY <1>6 DEF PollAgain, Goto, TypeOK
  <2>2. Traced("poll", candidate[w], job[w])'
    BY DEF Traced, Candidacy
  <2>3. QED
    BY <1>1, <1>2, <1>6, <2>1, <2>2, MoreMoved DEF Candidacy, PollAgain, Steps, TrySteps
<1>7. ASSUME PollHit(w) PROVE More'
  <2>1. PICK c \in Candidates(disk, known[w].plan.files) :
           candidate' = [candidate EXCEPT ![w] = c]
    BY <1>7 DEF PollHit
  <2>2. candidate'[w] = c /\ \A v \in Workers \ {w} : candidate'[v] = candidate[v]
    BY <2>1 DEF TypeOK
  <2>3. c \in Artifact /\ disk[c.run] # None /\ c.file = disk[c.run]
    BY <2>1, CandidateIsThere
  <2>4. known[w].plan = evidence[job[w]].plan /\ state[job[w]] = "verifying"
    BY <1>1, <1>7, StatesTable DEF PollHit, Rest, LocationOK
  <2>5. NoLost => c.run = job[w]
    BY <1>2, <2>1, <2>4, NewIsOwn
  <2>6. Traced("observe", candidate[w], job[w])'
    BY <1>7, <2>2, <2>3 DEF PollHit, Traced, Candidacy, Older
  <2>7. QED
    BY <1>1, <1>2, <1>7, <2>2, <2>5, <2>6, MoreMoved DEF Candidacy, PollHit, Steps, TrySteps
<1>8. ASSUME Observe(w) PROVE More'
  <2>1. /\ fileAtView'[job[w]] = disk[candidate[w].run]
        /\ \A r \in Runs \ {job[w]} : fileAtView'[r] = fileAtView[r]
    BY <1>2, <1>8 DEF Observe, TypeOK
  <2>2. Traced("recheck", candidate[w], job[w])'
    BY <1>2, <1>8, <2>1, NoneAssumption DEF Observe, Traced, Candidacy, Older
  <2>3. state[job[w]] # "verified"
    BY <1>1, <1>8, StatesTable DEF Observe, Rest, LocationOK
  <2>4. QED
    BY <1>1, <1>2, <1>8, <2>1, <2>2, <2>3, MoreMoved DEF Candidacy, Observe, Steps, TrySteps
<1>9. ASSUME Recheck(w) PROVE More'
  <2>1. /\ candidate[w] \in Candidates(disk, known[w].plan.files)
        /\ candidate[w].file.content = "right"
    BY <1>9 DEF Recheck, Look, Correlated
  <2>2. candidate[w].file = disk[candidate[w].run]
    BY <2>1, CandidateIsThere
  <2>3. /\ candidate[w] \in Artifact /\ candidate[w].file \in File
        /\ fileAtView[job[w]] \in File
        /\ Older(candidate[w].file, fileAtView[job[w]])
        /\ Older(fileAtView[job[w]], disk[candidate[w].run])
    BY <1>2, <1>9 DEF Recheck, Look, Traced, Candidacy, TypeOK, Artifact
  <2>4. fileAtView[job[w]] = candidate[w].file
    BY <2>2, <2>3, OlderBetween
  <2>5. Traced("promote", candidate[w], job[w])'
    BY <1>2, <1>9, <2>1, <2>4 DEF Recheck, Look, Traced, Candidacy
  <2>6. QED
    BY <1>1, <1>2, <1>9, <2>5, MoreMoved DEF Candidacy, Recheck, Look, Steps, TrySteps
<1>10. QED
  BY <1>3, <1>4, <1>5, <1>6, <1>7, <1>8, <1>9

\* Reading the row, raising and giving up leave a worker without a candidate in
\* hand, or where it was.
LEMMA TurnMore ==
  ASSUME TypeOK, TypeOK', Rest, More, NEW w \in Workers, ReadRow(w) \/ StepRaises(w) \/ GiveUp(w)
  PROVE  More'
<1> USE DEF journalVars, browserVars, ghostVars
<1>1. pc[w] # "idle"
  BY Tables DEF ReadRow, StepRaises, GiveUp, TrySteps
<1>2. /\ Traced(pc[w], candidate[w], job[w])
      /\ NoLost => /\ pc[w] = "intendExport" => Covers(plan[w], job[w])
                   /\ pc[w] \in Candidacy => candidate[w].run = job[w]
  BY <1>1, MoreOfWorker
<1>3. ASSUME ReadRow(w) PROVE More'
  <2>1. Goto(w, pc[w]) /\ pc[w] \notin {"navigate", "export"} /\ pc[w] \in Steps
    BY <1>3, Tables DEF ReadRow, Goto, TypeOK
  <2>2. Traced(pc[w], candidate[w], job[w])'
    BY <1>2, <1>3 DEF ReadRow, Traced
  <2>3. QED
    BY <1>1, <1>2, <1>3, <2>1, <2>2, MoreMoved DEF ReadRow, Traced
<1>4. ASSUME StepRaises(w) \/ GiveUp(w) PROVE More'
  <2>1. PICK step \in {"failed", "finish"} : Goto(w, step)
    BY <1>4 DEF StepRaises, GiveUp
  <2>2. Traced(step, candidate[w], job[w])' /\ step \in Steps
    BY <2>1 DEF Traced, Candidacy, Steps
  <2>3. \A v \in Workers \ {w} : UNCHANGED <<plan[v], candidate[v]>>
    BY <1>4 DEF StepRaises, GiveUp, Forget, TypeOK
  <2>4. QED
    BY <1>1, <1>4, <2>1, <2>2, <2>3, MoreMoved DEF Candidacy, StepRaises, GiveUp
<1>5. QED
  BY <1>3, <1>4

LEMMA ReleasedMore ==
  ASSUME TypeOK, TypeOK', Rest, More, NEW w \in Workers, pc[w] # "idle", Release(w)
  PROVE  More'
<1> USE DEF Release, journalVars, browserVars, ghostVars
<1>1. \A v \in Workers : pc'[v] = "idle"
  BY Alone DEF TypeOK, Goto, Rest
<1>2. FilesOK' /\ LateOK' /\ TracedOK' /\ ProvenOK'
  BY <1>1 DEF More, FilesOK, LateOK, TracedOK, ProvenOK, Proven
<1>3. OwnOK'
  BY <1>1 DEF More, OwnOK, OwnRow, OwnWorker, NoLost, Covers, Candidacy
<1>4. QED
  BY <1>2, <1>3 DEF More

\* An input goes out late once at most: the check before it found no request,
\* and none of the checks behind it passes with one.
LEMMA NavigateMore ==
  ASSUME TypeOK, TypeOK', Rest, More, NEW w \in Workers, Navigate(w)
  PROVE  More'
<1> USE DEF Navigate, journalVars, localVars, browserVars
<1>1. /\ job[w] \in Runs /\ lateInputs[job[w]] = 0 /\ lateInputs \in [Runs -> Nat]
      /\ lateInputs' = [lateInputs EXCEPT ![job[w]] = @ + Late(job[w])]
  BY MoreOfWorker DEF TypeOK
<1>2. \A v \in Workers : pc'[v] \in {"idle", "navigated"} /\ (v # w => pc[v] = "idle")
  BY Alone DEF TypeOK, Goto, Rest
<1>3. FilesOK' /\ TracedOK' /\ ProvenOK'
  BY <1>2 DEF More, FilesOK, TracedOK, Traced, Candidacy, ProvenOK, Proven
<1>4. LateOK'
  BY <1>1, <1>2 DEF More, LateOK, Late
<1>5. OwnOK'
  BY <1>2 DEF More, OwnOK, OwnRow, OwnWorker, NoLost, Covers, Candidacy
<1>6. QED
  BY <1>3, <1>4, <1>5 DEF More

LEMMA ExportMore ==
  ASSUME TypeOK, TypeOK', Rest, More, NEW w \in Workers, Export(w)
  PROVE  More'
<1> USE DEF Export, journalVars, localVars
<1>1. /\ job[w] \in Runs /\ lateInputs[job[w]] = 0 /\ lateInputs \in [Runs -> Nat]
      /\ lateInputs' = [lateInputs EXCEPT ![job[w]] = @ + Late(job[w])]
  BY MoreOfWorker DEF TypeOK
<1>2. \A v \in Workers : pc'[v] \in {"idle", "exported"} /\ (v # w => pc[v] = "idle")
  BY Alone DEF TypeOK, Goto, Rest
<1>3. /\ state[job[w]] = "exporting"
      /\ exports'[job[w]] > 0 /\ \A q \in Runs \ {job[w]} : exports'[q] = exports[q]
  BY <1>1, StatesTable DEF Rest, LocationOK, TypeOK
<1>4. FilesOK'
  <2>1. \A q \in Runs : exports[q] > 0 => exports'[q] > 0
    BY <1>3
  <2>2. QED
    BY <1>1, <1>3, <2>1 DEF More, FilesOK
<1>5. LateOK'
  BY <1>1, <1>2 DEF More, LateOK, Late
<1>6. TracedOK' /\ ProvenOK'
  BY <1>2 DEF More, TracedOK, Traced, Candidacy, ProvenOK, Proven
<1>7. OwnOK'
  <2>1. NoLost' => NoLost
    BY <1>3 DEF NoLost
  <2>2. SUFFICES ASSUME NoLost PROVE \A r \in Runs : OwnRow(r)'
    BY <1>2, <2>1 DEF OwnOK, OwnWorker, Candidacy
  <2>3. ASSUME NEW r \in Runs PROVE OwnRow(r)'
    <3>1. OwnRow(r)
      BY <2>2 DEF More, OwnOK
    <3>2. state[r] \in ActiveStates => r = job[w]
      BY <1>1, <1>3 DEF Rest, SoleOK, Unresolved, ActiveStates
    <3>3. QED
      BY <1>3, <3>1, <3>2 DEF OwnRow, Covers
  <2>4. QED
    BY <2>3
<1>8. QED
  BY <1>4, <1>5, <1>6, <1>7 DEF More

LEMMA StartMore ==
  ASSUME TypeOK, TypeOK', Rest, More, NEW w \in Workers, NEW r \in Runs, NEW b \in BOOLEAN,
         Start(w, r, b)
  PROVE  More'
<1> USE DEF Start, journalVars, browserVars, ghostVars
<1>1. \A v \in Workers : pc'[v] \in {"idle", "recall", "begin"}
  BY AllIdle DEF TypeOK, Goto, Rest
<1>2. FilesOK' /\ LateOK' /\ TracedOK' /\ ProvenOK'
  BY <1>1 DEF More, FilesOK, LateOK, TracedOK, Traced, Candidacy, ProvenOK, Proven
<1>3. OwnOK'
  BY <1>1 DEF More, OwnOK, OwnRow, OwnWorker, NoLost, Covers, Candidacy
<1>4. QED
  BY <1>2, <1>3 DEF More

\* Steps of the journal that change the state of one row only, keep its evidence
\* but for a cancellation, and neither activate it with a baseline nor verify it.
LEMMA RowMore ==
  ASSUME TypeOK, TypeOK', Rest, More, NEW r \in Runs,
         \A q \in Runs \ {r} : state'[q] = state[q] /\ evidence'[q] = evidence[q],
         evidence'[r].artifact = evidence[r].artifact,
         evidence'[r].plan = evidence[r].plan,
         evidence[r].cancelRequested => evidence'[r].cancelRequested,
         state'[r] = "verified" => state[r] = "verified",
         state'[r] \in ActiveStates /\ evidence[r].plan # None => state[r] \in ActiveStates,
         state[r] = "abandoned" => state'[r] = "abandoned",
         UNCHANGED <<disk, inFlight, ghostVars>>,
         \A w \in Workers : \/ UNCHANGED <<pc[w], job[w], plan[w], candidate[w]>>
                            \/ pc'[w] \in {"idle", "started", "checkNav", "poll", "finish"}
  PROVE  More'
<1> USE DEF ghostVars
<1>1. FilesOK' /\ LateOK'
  BY DEF More, FilesOK, LateOK
<1>2. TracedOK'
  BY DEF More, TracedOK, Traced, Candidacy
<1>3. ProvenOK'
  BY DEF More, ProvenOK, Proven
<1>4. NoLost' => NoLost
  BY DEF NoLost
<1>5. OwnOK'
  <2>1. SUFFICES ASSUME NoLost PROVE (\A q \in Runs : OwnRow(q)') /\ (\A v \in Workers : OwnWorker(v)')
    BY <1>4 DEF OwnOK
  <2>2. (\A q \in Runs : OwnRow(q)) /\ (\A v \in Workers : OwnWorker(v))
    BY <2>1 DEF More, OwnOK
  <2>3. \A q \in Runs : OwnRow(q)'
    BY <2>2 DEF OwnRow, Covers
  <2>4. \A v \in Workers : OwnWorker(v)'
    BY <2>2 DEF OwnWorker, Covers, Candidacy
  <2>5. QED
    BY <2>3, <2>4
<1>6. QED
  BY <1>1, <1>2, <1>3, <1>5 DEF More

LEMMA BeginMore ==
  ASSUME TypeOK, TypeOK', Rest, More, NEW w \in Workers, Begin(w)
  PROVE  More'
<1> USE DEF Begin, BeginRow, localVars, browserVars
<1>1. job[w] \in Runs /\ evidence[job[w]].plan = None
  BY DEF Rest, FenceOK, RowsOK, BeforeIntent
<1>2. \A v \in Workers : UNCHANGED <<pc[v], job[v], plan[v], candidate[v]>> \/ pc'[v] = "started"
  BY DEF Goto, TypeOK
<1>3. state'[job[w]] = "prepared" /\ \A q \in Runs \ {job[w]} : state'[q] = state[q]
  BY <1>1 DEF TypeOK, JournalTypeOK
<1>4. QED
  BY <1>1, <1>2, <1>3, RowMore

LEMMA OperatorMore ==
  ASSUME TypeOK, TypeOK', Rest, More, NEW r \in Runs, Abandon(r) \/ Operator(r)
  PROVE  More'
<1> USE DEF localVars, browserVars
<1>1. \A w \in Workers : UNCHANGED <<pc[w], job[w], plan[w], candidate[w]>>
  BY DEF Abandon, Operator
<1>2. UNCHANGED <<disk, inFlight, ghostVars>>
  BY DEF Abandon, Operator
<1>3. CASE Abandon(r)
  BY <1>1, <1>2, <1>3, RowMore DEF Abandon, AbandonRow, TypeOK, JournalTypeOK, ActiveStates
<1>4. CASE Approve(r)
  <2>1. state'[r] = "approved" /\ \A q \in Runs \ {r} : state'[q] = state[q]
    BY <1>4 DEF Approve, TypeOK, JournalTypeOK
  <2>2. evidence' = evidence /\ state[r] = "absent"
    BY <1>4 DEF Approve
  <2>3. QED
    BY <1>1, <1>2, <2>1, <2>2, RowMore DEF ActiveStates
<1>5. CASE Expire(r)
  BY <1>1, <1>2, <1>5, RowMore DEF Expire
<1>6. CASE Cancel(r)
  <2>1. /\ state'[r] = (IF state[r] = "approved" THEN "stopped" ELSE state[r])
        /\ \A q \in Runs \ {r} : state'[q] = state[q]
    BY <1>6 DEF Cancel, TypeOK, JournalTypeOK
  <2>2. /\ evidence'[r].cancelRequested /\ evidence'[r].plan = evidence[r].plan
        /\ evidence'[r].artifact = evidence[r].artifact
        /\ \A q \in Runs \ {r} : evidence'[q] = evidence[q]
    BY <1>6 DEF Cancel, TypeOK, JournalTypeOK, Evidence
  <2>3. QED
    BY <1>1, <1>2, <2>1, <2>2, RowMore DEF ActiveStates
<1>7. QED
  BY <1>3, <1>4, <1>5, <1>6 DEF Operator

LEMMA FailMore ==
  ASSUME TypeOK, TypeOK', Rest, More, NEW w \in Workers, FailRow(w)
  PROVE  More'
<1> DEFINE r == job[w]
<1> USE DEF browserVars, ghostVars
<1>1. /\ r \in Runs /\ state[r] = read[w]
      /\ UNCHANGED <<job, plan, candidate, disk, inFlight, ghostVars>>
      /\ \A v \in Workers : UNCHANGED pc[v] \/ pc'[v] = "finish"
  BY DEF FailRow, Rest, FenceOK, ReadOK, Goto, TypeOK
<1>2. CASE read[w] \in DOMAIN FailState
  <2>1. CheckpointRow(r, read[w], FailState[read[w]], None)
    BY <1>2 DEF FailRow
  <2>2. /\ state'[r] = FailState[read[w]] /\ \A q \in Runs \ {r} : state'[q] = state[q]
        /\ evidence' = evidence
    BY <1>1, <2>1 DEF CheckpointRow, Merged, TypeOK, JournalTypeOK
  <2>3. state'[r] \in {"stopped", "uncertain"} /\ state[r] \in ActiveStates
    BY <1>1, <1>2, <2>2, FailStates DEF ActiveStates
  <2>4. QED
    BY <1>1, <2>2, <2>3, RowMore DEF ActiveStates
<1>3. CASE read[w] \notin DOMAIN FailState
  <2>1. UNCHANGED journalVars
    BY <1>3 DEF FailRow
  <2>2. QED
    BY <1>1, <2>1, RowMore DEF journalVars
<1>4. QED
  BY <1>2, <1>3

\* What a checkpoint stores besides the baseline: the artifact it promotes.
LEMMA WrittenArtifact ==
  ASSUME TypeOK, Rest, NEW w \in Workers, pc[w] \in DOMAIN Target
  PROVE  /\ pc[w] = "promote" => Merged(job[w], Given(w)).artifact = candidate[w]
         /\ pc[w] = "intendExport" => Merged(job[w], Given(w)).plan = plan[w]
         /\ pc[w] \notin {"intendExport", "promote"} => Merged(job[w], Given(w)) = evidence[job[w]]
<1>1. pc[w] # "idle" /\ job[w] \in Runs /\ known[w] \in Evidence
  BY Tables DEF Rest, FenceOK, TypeOK
<1>2. CASE pc[w] = "intendExport"
  <2>1. plan[w] \in Plan
    BY <1>1, <1>2 DEF Rest, LocationOK, TypeOK
  <2>2. Given(w) = [NoEvidence EXCEPT !.plan = plan[w]] /\ Given(w) \in Evidence
    BY <1>2, <2>1, EmptyEvidence DEF Given, Evidence, NoEvidence
  <2>3. Given(w).plan = plan[w] /\ Given(w) # None
    BY <2>2, NoPlanAssumption DEF NoEvidence
  <2>4. QED
    BY <1>1, <1>2, <2>2, <2>3 DEF Merged, Evidence
<1>3. CASE pc[w] = "promote"
  <2>1. Given(w) = [known[w] EXCEPT !.artifact = candidate[w]] /\ candidate[w] \in Artifact \cup {None}
    BY <1>3 DEF Given, TypeOK
  <2>2. Given(w) \in Evidence /\ Given(w).artifact = candidate[w]
    BY <1>1, <2>1 DEF Evidence
  <2>3. QED
    BY <1>1, <1>3, <2>2, NoPlanAssumption DEF Merged, Evidence
<1>4. CASE pc[w] \notin {"intendExport", "promote"}
  BY <1>4 DEF Given, Merged
<1>5. QED
  BY <1>2, <1>3, <1>4

LEMMA WriteMore ==
  ASSUME TypeOK, TypeOK', Rest, More, NEW w \in Workers, WriteRow(w)
  PROVE  More'
<1> DEFINE r == job[w]
           m == Merged(r, Given(w))
           to == Target[pc[w]]
<1> USE DEF browserVars, ghostVars
<1>1. /\ pc[w] \in DOMAIN Target /\ r \in Runs /\ state[r] = read[w]
      /\ pc[w] # "idle" /\ state[r] \in StatesAt(pc[w])
      /\ UNCHANGED <<job, candidate, disk, inFlight, ghostVars>>
      /\ \A v \in Workers \ {w} : UNCHANGED <<pc[v], plan[v]>> /\ pc[v] = "idle"
      /\ pc'[w] = Resume[pc[w]]
  BY Alone, Tables DEF WriteRow, Rest, FenceOK, LocationOK, ReadOK, Goto, TypeOK
<1>2. /\ state'[r] = to /\ \A q \in Runs \ {r} : state'[q] = state[q]
      /\ evidence'[r] = m /\ \A q \in Runs \ {r} : evidence'[q] = evidence[q]
  BY <1>1 DEF WriteRow, CheckpointRow, TypeOK, JournalTypeOK
<1>3. evidence[r].cancelRequested => m.cancelRequested
  BY <1>1, WrittenEvidence
<1>4. /\ Traced(pc[w], candidate[w], r)
      /\ pc[w] \in Candidacy => candidate[w] \in Artifact /\ disk[candidate[w].run] \in File
      /\ NoLost => /\ pc[w] = "intendExport" => Covers(plan[w], r)
                   /\ pc[w] \in Candidacy => candidate[w].run = r
  BY <1>1, MoreOfWorker
<1>5. CASE pc[w] \notin {"intendExport", "promote"}
  <2>1. m = evidence[r]
    BY <1>1, <1>5, WrittenArtifact
  <2>2. state[r] \in ActiveStates /\ to \in {"navigating", "verifying", "stopped"}
        /\ pc'[w] \in {"checkNav", "poll", "finish"}
    BY <1>1, <1>5, Tables, StatesTable DEF ActiveStates
  <2>3. \A v \in Workers : \/ UNCHANGED <<pc[v], job[v], plan[v], candidate[v]>>
                           \/ pc'[v] \in {"idle", "started", "checkNav", "poll", "finish"}
    BY <1>1, <2>2
  <2>4. QED
    BY <1>1, <1>2, <2>1, <2>2, <2>3, RowMore DEF ActiveStates
<1>6. CASE pc[w] \in {"intendExport", "promote"}
  <2>1. /\ pc'[w] \in {"checkExport", "finish"}
        /\ \A v \in Workers : pc'[v] \in {"idle", "checkExport", "finish"}
    BY <1>1, <1>6, Tables
  <2>2. FilesOK' /\ LateOK' /\ TracedOK'
    BY <1>1, <1>2, <1>3, <2>1 DEF More, FilesOK, LateOK, TracedOK, Traced, Candidacy
  <2>3. /\ state[r] \in ActiveStates
        /\ to = (IF pc[w] = "promote" THEN "verified" ELSE "exporting")
    BY <1>1, <1>6, Tables, StatesTable DEF ActiveStates
  <2>4. pc[w] = "promote" => /\ m.artifact = candidate[w] /\ candidate[w] # None
                             /\ fileAtView[r] = candidate[w].file
                             /\ candidate[w].file.content = "right"
    BY <1>1, <1>4, NoneAssumption, WrittenArtifact DEF Traced, Candidacy
  <2>5. ProvenOK'
    BY <1>1, <1>2, <2>3, <2>4 DEF More, ProvenOK, Proven
  <2>6. NoLost' => NoLost
    BY <1>1, <1>2, <2>3 DEF NoLost, ActiveStates
  <2>7. ASSUME NoLost, NEW q \in Runs PROVE OwnRow(q)'
    <3>1. CASE q # r
      BY <1>1, <1>2, <2>7, <3>1 DEF More, OwnOK, OwnRow, Covers
    <3>2. CASE q = r /\ pc[w] = "promote"
      BY <1>1, <1>2, <1>4, <2>3, <2>4, <2>7, <3>2 DEF OwnRow, Traced, Candidacy, ActiveStates
    <3>3. CASE q = r /\ pc[w] = "intendExport"
      BY <1>1, <1>2, <1>4, <2>3, <2>7, <3>3, WrittenArtifact DEF OwnRow, Covers
    <3>4. QED
      BY <1>6, <3>1, <3>2, <3>3
  <2>8. OwnOK'
    BY <2>1, <2>6, <2>7 DEF OwnOK, OwnWorker, Candidacy
  <2>9. QED
    BY <2>2, <2>5, <2>8 DEF More
<1>7. QED
  BY <1>5, <1>6

\* The site and the browser: a file only comes from an export input.
LEMMA SiteMore ==
  ASSUME TypeOK, TypeOK', Rest, More,
         (\E r \in Runs : Deliver(r) \/ Complete(r) \/ Rewrite(r)) \/ RestartBrowser
  PROVE  More'
<1> USE DEF journalVars, localVars, ghostVars
<1>1. UNCHANGED <<journalVars, pc, job, plan, candidate, ghostVars>>
  BY DEF Deliver, Complete, Rewrite, RestartBrowser
<1>2. inFlight' \subseteq inFlight
  BY DEF Deliver, Complete, Rewrite, RestartBrowser
<1>3. \A q \in Runs : disk'[q] # None => disk[q] # None \/ q \in inFlight
  BY DEF Deliver, Complete, Rewrite, RestartBrowser, TypeOK, Directory
<1>4. \A q \in Runs : disk[q] # None =>
         /\ disk'[q] # None /\ disk'[q] \in File /\ disk[q] \in File
         /\ Older(disk[q], disk'[q])
  <2>1. ASSUME NEW q \in Runs, disk[q] # None, NEW r \in Runs, Rewrite(r)
        PROVE  disk'[q] # None /\ Older(disk[q], disk'[q])
    <3>1. disk[q] \in File
      BY <2>1 DEF TypeOK, Directory
    <3>2. CASE q = r
      BY <2>1, <3>1, <3>2, NoneAssumption, RewritesAssumption DEF Rewrite, Older, TypeOK, Directory, File
    <3>3. CASE q # r
      BY <2>1, <3>3 DEF Rewrite, Older, TypeOK, Directory
    <3>4. QED
      BY <3>2, <3>3
  <2>2. ASSUME NEW q \in Runs, disk[q] # None, ~ \E r \in Runs : Rewrite(r)
        PROVE  disk'[q] = disk[q]
    BY <2>2 DEF Deliver, Complete, RestartBrowser, TypeOK, Directory
  <2>3. QED
    BY <2>1, <2>2 DEF TypeOK, Directory, Older
<1>5. FilesOK' /\ LateOK' /\ ProvenOK'
  BY <1>1, <1>2, <1>3 DEF More, FilesOK, LateOK, ProvenOK, Proven
<1>6. TracedOK'
  <2>1. SUFFICES ASSUME NEW w \in Workers, pc[w] # "idle"
                 PROVE  Traced(pc[w], candidate[w], job[w])'
    BY <1>1 DEF TracedOK
  <2>2. /\ Traced(pc[w], candidate[w], job[w]) /\ job[w] \in Runs
        /\ pc[w] \in Candidacy => candidate[w] \in Artifact
    BY <2>1, MoreOfWorker
  <2>3. pc[w] \notin Candidacy => Traced(pc[w], candidate[w], job[w])'
    BY <1>1 DEF Traced, Candidacy
  <2>4. ASSUME pc[w] \in Candidacy PROVE Traced(pc[w], candidate[w], job[w])'
    <3>1. candidate[w].run \in Runs /\ candidate[w].file \in File
          /\ fileAtView[job[w]] \in File \cup {None}
      BY <2>2, <2>4 DEF Artifact, TypeOK
    <3>2. /\ disk[candidate[w].run] \in File /\ disk'[candidate[w].run] \in File
          /\ disk'[candidate[w].run] # None
          /\ Older(disk[candidate[w].run], disk'[candidate[w].run])
      BY <1>4, <2>2, <2>4, <3>1 DEF Traced
    <3>3. Older(candidate[w].file, disk'[candidate[w].run])
      BY <2>2, <2>4, <3>1, <3>2, OlderTransitive DEF Traced
    <3>4. pc[w] = "recheck" => Older(fileAtView[job[w]], disk'[candidate[w].run])
      BY <2>2, <3>1, <3>2, OlderTransitive DEF Traced
    <3>5. QED
      BY <1>1, <2>2, <3>2, <3>3, <3>4 DEF Traced, Older
  <2>5. QED
    BY <2>3, <2>4
<1>7. OwnOK'
  BY <1>1, <1>4 DEF More, OwnOK, OwnRow, OwnWorker, NoLost, Covers
<1>8. QED
  BY <1>5, <1>6, <1>7 DEF More

LEMMA StutterMore ==
  ASSUME More, UNCHANGED vars
  PROVE  More'
BY DEF vars, journalVars, localVars, browserVars, ghostVars, More, FilesOK, LateOK, TracedOK,
       Traced, ProvenOK, Proven, OwnOK, OwnRow, OwnWorker, NoLost, Covers

LEMMA MoreStep ==
  ASSUME IInv, IInv', More, [Next]_vars
  PROVE  More'
<1> USE DEF IInv, Rest
<1>1. ASSUME NEW w \in Workers, WorkerStep(w) PROVE More'
  <2>1. CASE Begin(w)
    BY <2>1, BeginMore
  <2>2. CASE Finish(w)
    BY <2>2, ReleasedMore DEF Finish
  <2>3. CASE WriteRow(w)
    BY <2>3, WriteMore
  <2>4. CASE FailRow(w)
    BY <2>4, FailMore
  <2>5. CASE Export(w)
    BY <2>5, ExportMore
  <2>6. CASE Navigate(w)
    BY <2>6, NavigateMore
  <2>7. CASE ReadRow(w) \/ StepRaises(w) \/ GiveUp(w)
    BY <2>7, TurnMore
  <2>8. QED
    BY <1>1, <2>1, <2>2, <2>3, <2>4, <2>5, <2>6, <2>7, LookMore DEF WorkerStep
<1>2. ASSUME NEW w \in Workers, Crash(w) PROVE More'
  BY <1>2, ReleasedMore DEF Crash
<1>3. ASSUME NEW w \in Workers, NEW r \in Runs, NEW b \in BOOLEAN, Start(w, r, b) PROVE More'
  BY <1>3, StartMore
<1>4. ASSUME NEW r \in Runs, Abandon(r) \/ Operator(r) PROVE More'
  BY <1>4, OperatorMore
<1>5. ASSUME (\E r \in Runs : Deliver(r) \/ Complete(r) \/ Rewrite(r)) \/ RestartBrowser PROVE More'
  BY <1>5, SiteMore
<1>6. CASE UNCHANGED vars
  BY <1>6, StutterMore
<1>7. QED
  BY <1>1, <1>2, <1>3, <1>4, <1>5, <1>6 DEF Next

LEMMA InitMore == Init => More
<1> SUFFICES ASSUME Init PROVE More
  OBVIOUS
<1> USE DEF Init, JournalInit
<1>1. FilesOK /\ LateOK /\ TracedOK /\ ProvenOK
  BY DEF FilesOK, LateOK, TracedOK, ProvenOK, EmptyDirectory
<1>2. OwnOK
  BY DEF OwnOK, OwnRow, OwnWorker, Candidacy, ActiveStates
<1>3. QED
  BY <1>1, <1>2 DEF More

\* The whole inductive invariant.
THEOREM FullInvariant == Spec => [](IInv /\ More)
<1>1. Init => IInv /\ More
  BY InitInvariant, InitMore
<1>2. IInv /\ More /\ [Next]_vars => IInv' /\ More'
  BY NextInvariant, MoreStep
<1>3. QED
  BY <1>1, <1>2, PTL DEF Spec

\* A cancellation bounds what follows it, and a verified report is the run's own
\* unless a run was abandoned (journal.py:75, runner.py:164).
THEOREM RowsTrue == Spec => []RowsAreTrue
<1>1. IInv /\ More => CancelBoundsInputs
  BY DEF More, LateOK, CancelBoundsInputs
<1>2. IInv /\ More => VerifiedIsOwn
  <2>1. SUFFICES ASSUME More, \A q \in Runs : state[q] # "abandoned",
                        NEW r \in Runs, state[r] = "verified"
                 PROVE  evidence[r].artifact.run = r
    BY DEF VerifiedIsOwn
  <2>2. NoLost
    BY <2>1 DEF NoLost
  <2>3. QED
    BY <2>1, <2>2 DEF More, OwnOK, OwnRow
<1>3. CancelBoundsInputs /\ VerifiedIsOwn => RowsAreTrue
  BY DEF RowsAreTrue
<1>4. QED
  BY <1>1, <1>2, <1>3, FullInvariant, PTL

\* What a run is verified with was in the directory, byte for byte, when the
\* browser was seen to have completed its download (runner.py:164).
THEOREM VerifiedObserved == Spec => []VerifiedWasObserved
<1>1. IInv /\ More => VerifiedWasObserved
  BY DEF More, ProvenOK, Proven, VerifiedWasObserved
<1>2. QED
  BY <1>1, FullInvariant, PTL

\* No checkpoint loses a recorded cancellation or baseline, however old the
\* evidence its worker holds (journal.py:76-80).
THEOREM EvidenceKept == Spec => EvidenceIsKept
<1> DEFINE Kept(r) == /\ evidence[r].cancelRequested => evidence'[r].cancelRequested
                      /\ evidence[r].plan # None => evidence'[r].plan = evidence[r].plan
<1>1. ASSUME IInv, [Next]_vars, NEW r \in Runs PROVE Kept(r)
  <2> USE DEF IInv
  <2>1. Rest /\ TypeOK
    BY <1>1 DEF Rest
  <2>2. ASSUME NEW w \in Workers, WriteRow(w) PROVE Kept(r)
    <3>1. /\ pc[w] \in DOMAIN Target /\ job[w] \in Runs
          /\ evidence' = [evidence EXCEPT ![job[w]] = Merged(job[w], Given(w))]
      BY <2>1, <2>2, Tables DEF WriteRow, CheckpointRow, Rest, FenceOK
    <3>2. pc[w] = "intendExport" => evidence[job[w]].plan = None
      <4>1. pc[w] = "intendExport" => state[job[w]] = "navigating"
        BY <2>1, StatesTable DEF Rest, LocationOK
      <4>2. QED
        BY <2>1, <3>1, <4>1 DEF Rest, RowsOK, BeforeIntent
    <3>3. QED
      BY <2>1, <3>1, <3>2, WrittenEvidence DEF TypeOK, JournalTypeOK
  <2>3. ASSUME NEW w \in Workers, FailRow(w) PROVE Kept(r)
    <3>1. evidence' = evidence \/ evidence' = [evidence EXCEPT ![job[w]] = evidence[job[w]]]
      BY <2>3 DEF FailRow, CheckpointRow, Merged, journalVars
    <3>2. QED
      BY <2>1, <3>1 DEF TypeOK, JournalTypeOK
  <2>4. ASSUME NEW q \in Runs, Operator(q) PROVE Kept(r)
    <3>1. CASE Cancel(q)
      BY <2>1, <3>1 DEF Cancel, TypeOK, JournalTypeOK, Evidence
    <3>2. CASE Approve(q) \/ Expire(q)
      BY <3>2 DEF Approve, Expire
    <3>3. QED
      BY <2>4, <3>1, <3>2 DEF Operator
  <2>5. ASSUME \/ \E w \in Workers : Begin(w)
               \/ \E q \in Runs : Abandon(q)
        PROVE  evidence' = evidence
    BY <2>5 DEF Begin, BeginRow, Abandon, AbandonRow
  <2>6. ASSUME UNCHANGED journalVars PROVE evidence' = evidence
    BY <2>6 DEF journalVars
  <2>7. ASSUME NEW w \in Workers,
               \/ Started(w) \/ Recall(w) \/ Leave(w) \/ Finish(w) \/ Crash(w)
               \/ StepRaises(w) \/ ReadRow(w) \/ GiveUp(w)
               \/ Open(w) \/ CheckNav(w) \/ Navigate(w) \/ Navigated(w) \/ View(w)
               \/ Snapshot(w) \/ CheckExport(w) \/ Export(w) \/ Exported(w)
               \/ Verify(w) \/ PollAgain(w) \/ PollHit(w) \/ Observe(w) \/ Recheck(w)
        PROVE  UNCHANGED journalVars
    BY <2>7 DEF Started, Recall, Leave, Finish, Crash, Release, StepRaises, ReadRow, GiveUp, Look,
       Open, CheckNav, Navigate, Navigated, View, Snapshot, CheckExport, Export, Exported,
       Verify, PollAgain, PollHit, Observe, Recheck
  <2>8. ASSUME \/ \E w \in Workers, q \in Runs, b \in BOOLEAN : Start(w, q, b)
               \/ \E q \in Runs : Deliver(q) \/ Complete(q) \/ Rewrite(q)
               \/ RestartBrowser \/ UNCHANGED vars
        PROVE  UNCHANGED journalVars
    BY <2>8 DEF Start, Deliver, Complete, Rewrite, RestartBrowser, vars
  <2>9. QED
    BY <1>1, <2>2, <2>3, <2>4, <2>5, <2>6, <2>7, <2>8 DEF Next, WorkerStep
<1>2. IInv /\ [Next]_vars => [\A r \in Runs : Kept(r)]_evidence
  BY <1>1
<1>3. QED
  BY <1>2, Invariant, PTL DEF Spec, EvidenceIsKept
-----------------------------------------------------------------------------
(* The runner implements what its operator is promised *)

Shown    == [r \in Runs |-> Status(state[r])]
Exporter == {r \in Runs : exports[r] > 0}

LEMMA PromiseDefs ==
  /\ Promise!vars = <<Shown, Exporter>>
  /\ Promise!Init <=> Shown = [r \in Runs |-> "none"] /\ Exporter = {}
BY DEF Promise!vars, Promise!Init, Shown, Exporter

\* What the operator is told, state by state.
LEMMA StatusTable ==
  /\ Status("absent") = "none" /\ Status("approved") = "approved"
  /\ \A s \in ActiveStates : Status(s) = "running"
  /\ \A s \in TerminalStates : Status(s) = s
BY DEF Status, ActiveStates, TerminalStates

\* A step that changes one row's status becomes the promise's step for that run.
LEMMA OneRow ==
  ASSUME TypeOK, NEW r \in Runs, NEW s, state' = [state EXCEPT ![r] = s]
  PROVE  Shown' = [Shown EXCEPT ![r] = Status(s)]
BY DEF Shown, TypeOK, JournalTypeOK

\* The promise's steps, in the variables of the runner.
PromiseStep ==
  \E r \in Runs :
    \/ Shown[r] = "none" /\ Shown' = [Shown EXCEPT ![r] = "approved"] /\ UNCHANGED Exporter
    \/ /\ Shown[r] = "approved" /\ \A q \in Runs : Shown[q] # "running"
       /\ Shown' = [Shown EXCEPT ![r] = "running"] /\ UNCHANGED Exporter
    \/ /\ Shown[r] = "running" /\ r \notin Exporter
       /\ Exporter' = Exporter \cup {r} /\ UNCHANGED Shown
    \/ /\ Shown[r] = "running"
       /\ r \in Exporter \/ \E q \in Exporter : Shown[q] = "abandoned"
       /\ Shown' = [Shown EXCEPT ![r] = "verified"] /\ UNCHANGED Exporter
    \/ /\ Shown[r] \in {"approved", "running"} /\ r \notin Exporter
       /\ Shown' = [Shown EXCEPT ![r] = "stopped"] /\ UNCHANGED Exporter
    \/ /\ Shown[r] \in {"approved", "running"}
       /\ Shown' = [Shown EXCEPT ![r] = "abandoned"] /\ UNCHANGED Exporter

LEMMA PromiseStepIsNext == PromiseStep \/ UNCHANGED <<Shown, Exporter>> => [Promise!Next]_(Promise!vars)
<1>1. UNCHANGED <<Shown, Exporter>> => UNCHANGED Promise!vars
  BY DEF Promise!vars, Shown, Exporter
<1>2. PromiseStep => Promise!Next
  BY DEF PromiseStep, Promise!Next, Promise!Approve, Promise!Start, Promise!Export, Promise!Verify,
         Promise!Stop, Promise!Abandon, Promise!Become, Promise!Open, Shown, Exporter
<1>3. QED
  BY <1>1, <1>2

\* Worker steps that no operator sees.
LEMMA SilentSteps ==
  ASSUME NEW w \in Workers,
         \/ Started(w) \/ Recall(w) \/ Leave(w) \/ Finish(w) \/ Crash(w)
         \/ StepRaises(w) \/ ReadRow(w) \/ GiveUp(w)
         \/ Open(w) \/ CheckNav(w) \/ Navigate(w) \/ Navigated(w) \/ View(w)
         \/ Snapshot(w) \/ CheckExport(w) \/ Exported(w)
         \/ Verify(w) \/ PollAgain(w) \/ PollHit(w) \/ Observe(w) \/ Recheck(w)
  PROVE  UNCHANGED <<journalVars, exports>>
BY DEF Started, Recall, Leave, Finish, Crash, Release, StepRaises, ReadRow, GiveUp, Look,
       Open, CheckNav, Navigate, Navigated, View, Snapshot, CheckExport, Exported,
       Verify, PollAgain, PollHit, Observe, Recheck, ghostVars

\* A verified report comes from an export: the run's own, or an abandoned one's.
LEMMA PromotedIsExported ==
  ASSUME TypeOK, Rest, More, NEW w \in Workers, pc[w] = "promote"
  PROVE  job[w] \in Exporter \/ \E q \in Exporter : Shown[q] = "abandoned"
<1>1. CASE NoLost
  <2>1. /\ job[w] \in Runs /\ candidate[w].run = job[w]
        /\ disk[candidate[w].run] # None
    BY <1>1, MoreOfWorker DEF Traced, Candidacy
  <2>2. QED
    BY <2>1 DEF More, FilesOK, Exporter
<1>2. CASE ~NoLost
  <2>1. PICK q \in Runs : state[q] = "abandoned" /\ exports[q] # 0
    BY <1>2 DEF NoLost
  <2>2. exports[q] > 0
    BY <2>1 DEF TypeOK
  <2>3. QED
    BY <2>1, <2>2, StatusTable DEF Exporter, Shown, TerminalStates
<1>3. QED
  BY <1>1, <1>2

\* A run that is stopped has not exported.
LEMMA BeforeNoExport ==
  ASSUME Rest, NEW r \in Runs, state[r] \in BeforeIntent
  PROVE  r \notin Exporter
BY DEF Rest, RowsOK, Exporter

LEMMA StepKeepsPromise ==
  ASSUME IInv, More, [Next]_vars
  PROVE  PromiseStep \/ UNCHANGED <<Shown, Exporter>>
<1> USE DEF IInv, Rest
<1>1. ASSUME UNCHANGED <<state, exports>> PROVE UNCHANGED <<Shown, Exporter>>
  BY <1>1 DEF Shown, Exporter
<1>2. ASSUME NEW w \in Workers, Begin(w) PROVE PromiseStep
  <2>1. /\ job[w] \in Runs /\ state[job[w]] = "approved" /\ Unresolved = {}
        /\ state' = [state EXCEPT ![job[w]] = "prepared"] /\ UNCHANGED exports
    BY <1>2 DEF Begin, BeginRow, FenceOK, ghostVars
  <2>2. Shown' = [Shown EXCEPT ![job[w]] = "running"] /\ Shown[job[w]] = "approved"
    <3>1. Shown' = [Shown EXCEPT ![job[w]] = Status("prepared")]
      BY <2>1, OneRow
    <3>2. Status("prepared") = "running" /\ Shown[job[w]] = Status(state[job[w]])
      BY <2>1, StatusTable DEF Shown, ActiveStates
    <3>3. QED
      BY <2>1, <3>1, <3>2, StatusTable
  <2>3. \A q \in Runs : Shown[q] # "running"
    <3>1. \A q \in Runs : state[q] \in {"absent", "approved"} \cup TerminalStates
      BY <2>1 DEF Unresolved, TypeOK, JournalTypeOK, RowStates
    <3>2. QED
      BY <3>1, StatusTable DEF Shown, TerminalStates
  <2>4. QED
    BY <2>1, <2>2, <2>3 DEF PromiseStep, Exporter
<1>3. ASSUME NEW w \in Workers, WriteRow(w) PROVE PromiseStep \/ UNCHANGED <<Shown, Exporter>>
  <2> DEFINE r == job[w]
             to == Target[pc[w]]
  <2>1. /\ pc[w] \in DOMAIN Target /\ r \in Runs /\ state[r] \in StatesAt(pc[w])
        /\ state' = [state EXCEPT ![r] = to] /\ UNCHANGED exports
    BY <1>3, Tables DEF WriteRow, CheckpointRow, FenceOK, LocationOK, ghostVars
  <2>2. /\ Shown' = [Shown EXCEPT ![r] = Status(to)] /\ UNCHANGED Exporter
        /\ Shown[r] = Status(state[r])
    BY <2>1, OneRow DEF Exporter, Shown
  <2>3. state[r] \in ActiveStates /\ Shown[r] = "running"
    BY <2>1, <2>2, Tables, StatesTable, StatusTable DEF ActiveStates
  <2>4. CASE pc[w] \in {"intendNav", "intendExport", "intendVerify"}
    <3>1. Status(to) = "running"
      BY <2>4, Tables, StatusTable DEF ActiveStates
    <3>2. Shown' = Shown
      BY <2>2, <2>3, <3>1 DEF Shown
    <3>3. QED
      BY <2>2, <3>2
  <2>5. CASE pc[w] = "promote"
    <3>1. r \in Exporter \/ \E q \in Exporter : Shown[q] = "abandoned"
      BY <2>5, PromotedIsExported
    <3>2. Status(to) = "verified"
      BY <2>5, Tables, StatusTable DEF TerminalStates
    <3>3. QED
      BY <2>1, <2>2, <2>3, <3>1, <3>2 DEF PromiseStep
  <2>6. CASE pc[w] = "intendStop"
    <3>1. r \notin Exporter
      BY <2>1, <2>6, BeforeNoExport, StatesTable DEF BeforeIntent
    <3>2. Status(to) = "stopped"
      BY <2>6, Tables, StatusTable DEF TerminalStates
    <3>3. QED
      BY <2>1, <2>2, <2>3, <3>1, <3>2 DEF PromiseStep
  <2>7. QED
    BY <2>1, <2>4, <2>5, <2>6, Tables
<1>4. ASSUME NEW w \in Workers, FailRow(w) PROVE PromiseStep \/ UNCHANGED <<Shown, Exporter>>
  <2> DEFINE r == job[w]
  <2>1. r \in Runs /\ state[r] = read[w] /\ UNCHANGED exports
    BY <1>4 DEF FailRow, FenceOK, ReadOK, ghostVars
  <2>2. CASE read[w] \in DOMAIN FailState
    <3>1. /\ state' = [state EXCEPT ![r] = FailState[read[w]]] /\ state[r] \in ActiveStates
          /\ FailState[read[w]] \in {"stopped", "uncertain"}
          /\ FailState[read[w]] = "stopped" => state[r] \in BeforeIntent
      BY <1>4, <2>1, <2>2, FailStates DEF FailRow, CheckpointRow, ActiveStates, BeforeIntent
    <3>2. /\ Shown' = [Shown EXCEPT ![r] = Status(FailState[read[w]])] /\ UNCHANGED Exporter
          /\ Shown[r] = "running"
      BY <2>1, <3>1, OneRow, StatusTable DEF Shown, Exporter
    <3>3. CASE FailState[read[w]] = "stopped"
      BY <2>1, <3>1, <3>2, <3>3, BeforeNoExport, StatusTable DEF PromiseStep, TerminalStates
    <3>4. CASE FailState[read[w]] = "uncertain"
      <4>1. Shown' = Shown
        BY <3>2, <3>4, StatusTable DEF Shown, ActiveStates
      <4>2. QED
        BY <3>2, <4>1
    <3>5. QED
      BY <3>1, <3>3, <3>4
  <2>3. CASE read[w] \notin DOMAIN FailState
    BY <1>1, <1>4, <2>1, <2>3 DEF FailRow, journalVars
  <2>4. QED
    BY <2>2, <2>3
<1>5. ASSUME NEW w \in Workers, Export(w) PROVE PromiseStep
  <2>1. /\ job[w] \in Runs /\ state[job[w]] = "exporting" /\ exports[job[w]] = 0
        /\ exports' = [exports EXCEPT ![job[w]] = @ + 1] /\ state' = state
    BY <1>5, StatesTable DEF Export, FenceOK, LocationOK, journalVars
  <2>2. Exporter' = Exporter \cup {job[w]} /\ job[w] \notin Exporter
    BY <2>1 DEF Exporter, TypeOK
  <2>3. Shown' = Shown /\ Shown[job[w]] = "running"
    BY <2>1, StatusTable DEF Shown, ActiveStates
  <2>4. QED
    BY <2>1, <2>2, <2>3 DEF PromiseStep
<1>6. ASSUME NEW r \in Runs, Abandon(r) PROVE PromiseStep
  <2>1. /\ state' = [state EXCEPT ![r] = "abandoned"] /\ UNCHANGED exports
        /\ state[r] \in {"approved"} \cup ActiveStates
    BY <1>6 DEF Abandon, AbandonRow, ghostVars
  <2>2. /\ Shown' = [Shown EXCEPT ![r] = "abandoned"] /\ UNCHANGED Exporter
        /\ Shown[r] \in {"approved", "running"}
    <3>1. Shown' = [Shown EXCEPT ![r] = Status("abandoned")]
      BY <2>1, OneRow
    <3>2. Status("abandoned") = "abandoned" /\ Shown[r] = Status(state[r])
      BY StatusTable DEF Shown, TerminalStates
    <3>3. Shown[r] \in {"approved", "running"}
      BY <2>1, <3>2, StatusTable
    <3>4. QED
      BY <2>1, <3>1, <3>2, <3>3 DEF Exporter
  <2>3. QED
    BY <2>2 DEF PromiseStep
<1>7. ASSUME NEW r \in Runs, Operator(r) PROVE PromiseStep \/ UNCHANGED <<Shown, Exporter>>
  <2>1. UNCHANGED exports
    BY <1>7 DEF Operator, ghostVars
  <2>2. CASE Approve(r)
    <3>1. /\ Shown' = [Shown EXCEPT ![r] = "approved"] /\ Shown[r] = "none" /\ UNCHANGED Exporter
      <4>1. state[r] = "absent" /\ state' = [state EXCEPT ![r] = "approved"]
        BY <2>2 DEF Approve
      <4>2. Shown' = [Shown EXCEPT ![r] = Status("approved")]
        BY <4>1, OneRow
      <4>3. Shown[r] = Status(state[r])
        BY DEF Shown
      <4>4. QED
        BY <2>1, <4>1, <4>2, <4>3, StatusTable DEF Exporter
    <3>2. QED
      BY <3>1 DEF PromiseStep
  <2>3. CASE Expire(r)
    BY <1>1, <2>1, <2>3 DEF Expire
  <2>4. CASE Cancel(r) /\ state[r] = "approved"
    <3>1. /\ Shown' = [Shown EXCEPT ![r] = "stopped"] /\ Shown[r] = "approved" /\ UNCHANGED Exporter
      <4>1. state' = [state EXCEPT ![r] = "stopped"]
        BY <2>4 DEF Cancel
      <4>2. Shown' = [Shown EXCEPT ![r] = Status("stopped")]
        BY <4>1, OneRow
      <4>3. Status("stopped") = "stopped" /\ Shown[r] = Status(state[r])
        BY StatusTable DEF Shown, TerminalStates
      <4>4. QED
        BY <2>1, <2>4, <4>2, <4>3, StatusTable DEF Exporter
    <3>2. r \notin Exporter
      BY <2>4, BeforeNoExport DEF BeforeIntent
    <3>3. QED
      BY <3>1, <3>2 DEF PromiseStep
  <2>5. CASE Cancel(r) /\ state[r] # "approved"
    <3>1. state' = state
      BY <2>5 DEF Cancel, TypeOK, JournalTypeOK
    <3>2. QED
      BY <1>1, <2>1, <3>1
  <2>6. QED
    BY <1>7, <2>2, <2>3, <2>4, <2>5 DEF Operator
<1>8. ASSUME \/ \E w \in Workers, r \in Runs, b \in BOOLEAN : Start(w, r, b)
             \/ \E r \in Runs : Deliver(r) \/ Complete(r) \/ Rewrite(r)
             \/ RestartBrowser \/ UNCHANGED vars
      PROVE  UNCHANGED <<state, exports>>
  BY <1>8 DEF Start, Deliver, Complete, Rewrite, RestartBrowser, vars, journalVars, ghostVars
<1>9. QED
  BY <1>1, <1>2, <1>3, <1>4, <1>5, <1>6, <1>7, <1>8, SilentSteps DEF Next, WorkerStep, journalVars

\* The runner, with its processes, its journal, its fence and its browser, does
\* what its operator is promised and nothing else (docs/WORKFLOW_REPLAY.md).
THEOREM PromiseKept == Spec => KeepsPromise
<1>1. Init => Promise!Init
  <2>1. SUFFICES ASSUME Init PROVE Shown = [r \in Runs |-> "none"] /\ Exporter = {}
    BY PromiseDefs
  <2>2. QED
    BY <2>1, StatusTable DEF Init, JournalInit, Shown, Exporter
<1>2. IInv /\ More /\ [Next]_vars => [Promise!Next]_(Promise!vars)
  BY StepKeepsPromise, PromiseStepIsNext
<1>3. QED
  BY <1>1, <1>2, FullInvariant, PTL DEF Spec, KeepsPromise, Promise!Spec
=============================================================================
