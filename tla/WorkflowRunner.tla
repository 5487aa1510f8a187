--------------------------- MODULE WorkflowRunner ---------------------------
(***************************************************************************)
(* Supervised report exports: the worker processes that execute a run      *)
(* (hermes/workflow_runner/runner.py, from the plugin's thread or from the *)
(* CLI), over the run journal, the worker fence, and a browser that acts   *)
(* on an input when it likes, if at all.                                   *)
(*                                                                         *)
(* A worker's program counter names the step of execute() it is about to   *)
(* take.  Every step opens the journal, the browser session or a file, so  *)
(* every step may raise instead (StepRaises); a guard in the code is a     *)
(* conjunct of the step that continues, and its error path is the raise.   *)
(* A process may be killed between any two steps (Crash).                  *)
(***************************************************************************)
EXTENDS RunJournal

CONSTANTS Workers,     \* processes that run jobs against this store
          NoWorker,
          MaxPolls,    \* looks at the download directory (101 in the code)
          Faults       \* which of "crash" and "storage" can happen

ASSUME WorkersAssumption == NoWorker \notin Workers
ASSUME PollsAssumption   == MaxPolls \in Nat

VARIABLES
  fence,        \* the process holding the flock on worker.lock
  pc,           \* pc[w]: the next step of worker w
  job,          \* job[w]: the run it executes
  reconciling,  \* reconciling[w]: execute(run, reconcile=True)
  read,         \* read[w]: the row state a checkpoint has read
  plan,         \* plan[w]: what it will record with the export intent
  known,        \* known[w]: the evidence _verify read when it started
  polls,        \* polls[w]: looks at the directory so far
  candidate,    \* candidate[w]: the artifact it is verifying
  seen,         \* seen[w]: the download records of its last observation
  disk,         \* the download directory
  downloads,    \* completed download records of the shared tab
  inFlight,     \* runs whose export the browser has yet to finish
  exports,                \* ghost: export inputs dispatched, per run
  lateInputs,             \* ghost: inputs dispatched after a durable cancel
  fileAtView              \* ghost: the candidate's file at the last observation

localVars   == <<job, reconciling, read, plan, known, polls, candidate, seen>>
browserVars == <<disk, downloads, inFlight>>
ghostVars   == <<exports, lateInputs, fileAtView>>
vars == <<journalVars, fence, pc, localVars, browserVars, ghostVars>>

\* The steps inside execute's try block, in program order.
TrySteps == {"open", "intendNav", "checkNav", "navigate", "navigated", "view",
             "snapshot", "intendExport", "checkExport", "export", "exported",
             "intendStop", "verify", "intendVerify", "poll", "observe",
             "recheck", "promote"}
Steps == TrySteps \cup {"idle", "begin", "started", "recall", "failed", "finish"}

TypeOK ==
  /\ JournalTypeOK
  /\ fence \in Workers \cup {NoWorker}
  /\ pc \in [Workers -> Steps]
  /\ job \in [Workers -> Runs \cup {None}]
  /\ reconciling \in [Workers -> BOOLEAN]
  /\ read \in [Workers -> RowStates \cup {None}]
  /\ plan \in [Workers -> Plan \cup {None}]
  /\ known \in [Workers -> Evidence]
  /\ polls \in [Workers -> 0..MaxPolls]
  /\ candidate \in [Workers -> Artifact \cup {None}]
  /\ seen \in [Workers -> SUBSET Runs]
  /\ disk \in Directory
  /\ downloads \subseteq Runs /\ inFlight \subseteq Runs
  /\ exports \in [Runs -> Nat] /\ lateInputs \in [Runs -> Nat]
  /\ fileAtView \in [Runs -> File \cup {None}]

EmptyDirectory == [r \in Runs |-> None]

Init ==
  /\ JournalInit
  /\ fence = NoWorker
  /\ pc = [w \in Workers |-> "idle"]
  /\ job = [w \in Workers |-> None]
  /\ reconciling = [w \in Workers |-> FALSE]
  /\ read = [w \in Workers |-> None]
  /\ plan = [w \in Workers |-> None]
  /\ known = [w \in Workers |-> NoEvidence]
  /\ polls = [w \in Workers |-> 0]
  /\ candidate = [w \in Workers |-> None]
  /\ seen = [w \in Workers |-> {}]
  /\ disk = EmptyDirectory
  /\ downloads = {} /\ inFlight = {}
  /\ exports = [r \in Runs |-> 0] /\ lateInputs = [r \in Runs |-> 0]
  /\ fileAtView = [r \in Runs |-> None]
-----------------------------------------------------------------------------
(* Moving a worker along *)

Goto(w, step) == pc' = [pc EXCEPT ![w] = step]

\* The locals of the steps inside the try block go out of scope.
Forget(w) ==
  /\ read' = [read EXCEPT ![w] = None]
  /\ plan' = [plan EXCEPT ![w] = None]
  /\ known' = [known EXCEPT ![w] = NoEvidence]
  /\ polls' = [polls EXCEPT ![w] = 0]
  /\ candidate' = [candidate EXCEPT ![w] = None]
  /\ seen' = [seen EXCEPT ![w] = {}]

\* The process lets go of the fence (returning, or killed: the kernel closes
\* its descriptor) and of everything it held in memory.
Release(w) ==
  /\ fence' = NoWorker
  /\ Goto(w, "idle")
  /\ job' = [job EXCEPT ![w] = None]
  /\ reconciling' = [reconciling EXCEPT ![w] = FALSE]
  /\ Forget(w)
  /\ UNCHANGED <<journalVars, browserVars, ghostVars>>

NotCancelled(r) == ~evidence[r].cancelRequested        \* _check_cancel

\* A step that only reads the journal or the page and goes on.
Look(w, from, guard, to) ==
  /\ pc[w] = from /\ guard /\ Goto(w, to)
  /\ UNCHANGED <<journalVars, fence, localVars, browserVars, ghostVars>>
-----------------------------------------------------------------------------
(* execute: taking the fence, beginning, recovering, letting go *)

\* The flock is not awaited: while another process holds it, WORKER_BUSY.
Start(w, r, reconcile) ==
  /\ pc[w] = "idle" /\ fence = NoWorker
  /\ state[r] # "absent"                               \* RUN_NOT_FOUND
  /\ fence' = w
  /\ job' = [job EXCEPT ![w] = r]
  /\ reconciling' = [reconciling EXCEPT ![w] = reconcile]
  /\ Goto(w, IF reconcile THEN "recall" ELSE "begin")
  /\ UNCHANGED <<journalVars, read, plan, known, polls, candidate, seen,
                 browserVars, ghostVars>>

Begin(w) ==
  /\ pc[w] = "begin" /\ BeginRow(job[w]) /\ Goto(w, "started")
  /\ UNCHANGED <<fence, localVars, browserVars, ghostVars>>

\* The row is read back before the try block: if that raises, the prepared
\* run stays behind without _fail.
Started(w) == Look(w, "started", TRUE, "open")

\* Mutant of Recall: an uncertain run is closed without looking at evidence.
RecallByState(w) ==
  Look(w, "recall", state[job[w]] \in ActiveStates,
       IF state[job[w]] = "uncertain" THEN "intendStop" ELSE "verify")

\* Reconciling reads the row: without a baseline no export was ever sent.
Recall(w) ==
  Look(w, "recall", state[job[w]] \in ActiveStates,
       IF evidence[job[w]].plan = None THEN "intendStop" ELSE "verify")

\* Mutant of Leave: admission and connection are outside the try block too.
LeaveEarly(w) ==
  /\ pc[w] \in {"begin", "recall", "open"} /\ Goto(w, "finish")
  /\ UNCHANGED <<journalVars, fence, localVars, browserVars, ghostVars>>

\* begin returned False, the run was not active, or a call before the try
\* block raised.
Leave(w) ==
  /\ \/ pc[w] \in {"begin", "recall"}
     \/ pc[w] = "started" /\ "storage" \in Faults
  /\ Goto(w, "finish")
  /\ UNCHANGED <<journalVars, fence, localVars, browserVars, ghostVars>>

Finish(w) == pc[w] = "finish" /\ Release(w)

Crash(w) == "crash" \in Faults /\ pc[w] # "idle" /\ Release(w)

StepRaises(w) ==
  /\ pc[w] \in TrySteps /\ Goto(w, "failed") /\ Forget(w)
  /\ UNCHANGED <<journalVars, fence, job, reconciling, browserVars, ghostVars>>
-----------------------------------------------------------------------------
(* _checkpoint: one transaction reads the row, another writes it *)

Target == [intendNav |-> "navigating", intendExport |-> "exporting",
           intendVerify |-> "verifying", promote |-> "verified",
           intendStop |-> "stopped"]
Resume == [intendNav |-> "checkNav", intendExport |-> "checkExport",
           intendVerify |-> "poll", promote |-> "finish",
           intendStop |-> "finish"]

\* The evidence handed to the journal with an intent.
Given(w) == CASE pc[w] = "intendExport" -> [NoEvidence EXCEPT !.plan = plan[w]]
              [] pc[w] = "promote" -> [known[w] EXCEPT !.artifact = candidate[w]]
              [] OTHER -> None

ReadRow(w) ==
  /\ pc[w] \in DOMAIN Target \cup {"failed"} /\ read[w] = None
  /\ read' = [read EXCEPT ![w] = state[job[w]]]
  /\ UNCHANGED <<journalVars, fence, pc, job, reconciling, plan, known, polls,
                 candidate, seen, browserVars, ghostVars>>

WriteRow(w) ==
  /\ pc[w] \in DOMAIN Target /\ read[w] # None
  /\ CheckpointRow(job[w], read[w], Target[pc[w]], Given(w))
  /\ read' = [read EXCEPT ![w] = None]
  /\ plan' = [plan EXCEPT ![w] = None]
  /\ Goto(w, Resume[pc[w]])
  /\ UNCHANGED <<fence, job, reconciling, known, polls, candidate, seen,
                 browserVars, ghostVars>>

\* What _fail records for the row it read; other rows it leaves alone.
FailState == [s \in {"prepared", "navigating", "exporting", "verifying"} |->
                IF s \in {"prepared", "navigating"} THEN "stopped" ELSE "uncertain"]

FailRow(w) ==
  /\ pc[w] = "failed" /\ read[w] # None
  /\ IF read[w] \in DOMAIN FailState
     THEN CheckpointRow(job[w], read[w], FailState[read[w]], None)
     ELSE UNCHANGED journalVars
  /\ read' = [read EXCEPT ![w] = None]
  /\ Goto(w, "finish")
  /\ UNCHANGED <<fence, job, reconciling, plan, known, polls, candidate, seen,
                 browserVars, ghostVars>>

\* _fail raised, and so did the outer _fail: the last durable intent stays.
GiveUp(w) ==
  /\ "storage" \in Faults /\ pc[w] = "failed" /\ Goto(w, "finish")
  /\ read' = [read EXCEPT ![w] = None]
  /\ UNCHANGED <<journalVars, fence, job, reconciling, plan, known, polls,
                 candidate, seen, browserVars, ghostVars>>
-----------------------------------------------------------------------------
(* _export *)

Late(r) == IF evidence[r].cancelRequested THEN 1 ELSE 0

\* Admission, connection, the first look at the shared tab.
Open(w)       == Look(w, "open", NotCancelled(job[w]), "intendNav")
CheckNav(w)   == Look(w, "checkNav", NotCancelled(job[w]), "navigate")
Navigated(w)  == Look(w, "navigated", NotCancelled(job[w]), "view")
CheckExport(w) == Look(w, "checkExport", NotCancelled(job[w]), "export")
Exported(w)   == Look(w, "exported", NotCancelled(job[w]), "verify")

\* Mutant of Navigate: a lost reply is answered by sending the input again.
NavigateRetries(w) ==
  /\ pc[w] = "navigate" /\ (Goto(w, "navigate") \/ Goto(w, "navigated"))
  /\ lateInputs' = [lateInputs EXCEPT ![job[w]] = @ + Late(job[w])]
  /\ UNCHANGED <<journalVars, fence, localVars, browserVars, exports, fileAtView>>

Navigate(w) ==
  /\ pc[w] = "navigate" /\ Goto(w, "navigated")
  /\ lateInputs' = [lateInputs EXCEPT ![job[w]] = @ + Late(job[w])]
  /\ UNCHANGED <<journalVars, fence, localVars, browserVars, exports, fileAtView>>

\* The page is looked at first, the directory after it.
View(w) ==
  /\ pc[w] = "view" /\ Goto(w, "snapshot")
  /\ seen' = [seen EXCEPT ![w] = downloads]
  /\ UNCHANGED <<journalVars, fence, job, reconciling, read, plan, known, polls,
                 candidate, browserVars, ghostVars>>

Snapshot(w) ==
  /\ pc[w] = "snapshot" /\ Goto(w, "intendExport")
  /\ plan' = [plan EXCEPT ![w] = [files |-> disk, downloads |-> seen[w]]]
  /\ seen' = [seen EXCEPT ![w] = {}]
  /\ UNCHANGED <<journalVars, fence, job, reconciling, read, known, polls,
                 candidate, browserVars, ghostVars>>

\* One fill+click batch; the page may refuse it, or act on it later.
Export(w) ==
  /\ pc[w] = "export" /\ Goto(w, "exported")
  /\ exports' = [exports EXCEPT ![job[w]] = @ + 1]
  /\ lateInputs' = [lateInputs EXCEPT ![job[w]] = @ + Late(job[w])]
  /\ inFlight' \in {inFlight, inFlight \cup {job[w]}}
  /\ UNCHANGED <<journalVars, fence, localVars, disk, downloads, fileAtView>>
-----------------------------------------------------------------------------
(* _verify *)

Verify(w) ==
  /\ pc[w] = "verify"
  /\ known' = [known EXCEPT ![w] = evidence[job[w]]]
  /\ Goto(w, IF state[job[w]] = "verifying" THEN "poll" ELSE "intendVerify")
  /\ UNCHANGED <<journalVars, fence, job, reconciling, read, plan, polls,
                 candidate, seen, browserVars, ghostVars>>

\* Mutant of PollAgain: the deadline restarts.
PollAgainForEver(w) ==
  /\ pc[w] = "poll" /\ (reconciling[w] \/ NotCancelled(job[w]))
  /\ Intact(disk, known[w].plan.files) /\ Added(disk, known[w].plan.files) = {}
  /\ polls' = [polls EXCEPT ![w] = (@ + 1) % 2]
  /\ UNCHANGED <<journalVars, fence, pc, job, reconciling, read, plan, known,
                 candidate, seen, browserVars, ghostVars>>

PollAgain(w) ==
  /\ pc[w] = "poll" /\ (reconciling[w] \/ NotCancelled(job[w]))
  /\ Intact(disk, known[w].plan.files) /\ Added(disk, known[w].plan.files) = {}
  /\ polls[w] < MaxPolls                               \* DOWNLOAD_TIMEOUT
  /\ polls' = [polls EXCEPT ![w] = @ + 1]
  /\ UNCHANGED <<journalVars, fence, pc, job, reconciling, read, plan, known,
                 candidate, seen, browserVars, ghostVars>>

PollHit(w) ==
  /\ pc[w] = "poll" /\ (reconciling[w] \/ NotCancelled(job[w]))
  /\ \E c \in Candidates(disk, known[w].plan.files) :
        candidate' = [candidate EXCEPT ![w] = c]
  /\ Goto(w, "observe")
  /\ UNCHANGED <<journalVars, fence, job, reconciling, read, plan, known, polls,
                 seen, browserVars, ghostVars>>

Observe(w) ==
  /\ pc[w] = "observe" /\ Goto(w, "recheck")
  /\ seen' = [seen EXCEPT ![w] = downloads]
  /\ fileAtView' = [fileAtView EXCEPT ![job[w]] = disk[candidate[w].run]]
  /\ UNCHANGED <<journalVars, fence, job, reconciling, read, plan, known, polls,
                 candidate, browserVars, exports, lateInputs>>

\* Mutant of Recheck: the directory is not read again after the observation.
RecheckOnce(w) ==
  Look(w, "recheck",
       /\ reconciling[w] \/ NotCancelled(job[w])
       /\ Correlated(candidate[w], seen[w], known[w].plan.downloads),
       "promote")

\* The awaited observation is over: the same file must still be the only new
\* one, with the signature and content read before it.
Recheck(w) ==
  Look(w, "recheck",
       /\ reconciling[w] \/ NotCancelled(job[w])
       /\ Correlated(candidate[w], seen[w], known[w].plan.downloads)
       /\ candidate[w] \in Candidates(disk, known[w].plan.files),
       "promote")
-----------------------------------------------------------------------------
(* Other processes, the operator and the browser *)

\* abandon takes the fence for the length of its transaction.
Abandon(r) ==
  /\ fence = NoWorker /\ AbandonRow(r)
  /\ UNCHANGED <<fence, pc, localVars, browserVars, ghostVars>>

Operator(r) ==
  /\ Approve(r) \/ Expire(r) \/ Cancel(r)
  /\ UNCHANGED <<fence, pc, localVars, browserVars, ghostVars>>

\* The site answers an export: the file is linked into the directory first,
\* its record shows as complete afterwards.
Deliver(r) ==
  /\ r \in inFlight /\ disk[r] = None
  /\ \E c \in {"right", "wrong"} :
        disk' = [disk EXCEPT ![r] = [content |-> c, stamp |-> 0]]
  /\ UNCHANGED <<journalVars, fence, pc, localVars, downloads, inFlight, ghostVars>>

Complete(r) ==
  /\ r \in inFlight /\ disk[r] # None
  /\ downloads' = downloads \cup {r} /\ inFlight' = inFlight \ {r}
  /\ UNCHANGED <<journalVars, fence, pc, localVars, disk, ghostVars>>

Rewrite(r) ==
  /\ disk[r] # None /\ disk[r].stamp < MaxRewrites
  /\ \E c \in {"right", "wrong"} :
        disk' = [disk EXCEPT ![r] = [content |-> c, stamp |-> @.stamp + 1]]
  /\ UNCHANGED <<journalVars, fence, pc, localVars, downloads, inFlight, ghostVars>>

RestartBrowser ==
  /\ downloads \cup inFlight # {}
  /\ downloads' = {} /\ inFlight' = {}
  /\ UNCHANGED <<journalVars, fence, pc, localVars, disk, ghostVars>>
-----------------------------------------------------------------------------
WorkerStep(w) ==
  \/ Begin(w) \/ Started(w) \/ Recall(w) \/ Leave(w) \/ Finish(w)
  \/ StepRaises(w) \/ ReadRow(w) \/ WriteRow(w) \/ FailRow(w) \/ GiveUp(w)
  \/ Open(w) \/ CheckNav(w) \/ Navigate(w) \/ Navigated(w) \/ View(w)
  \/ Snapshot(w) \/ CheckExport(w) \/ Export(w) \/ Exported(w)
  \/ Verify(w) \/ PollAgain(w) \/ PollHit(w) \/ Observe(w) \/ Recheck(w)

Next ==
  \/ \E w \in Workers : WorkerStep(w) \/ Crash(w)
  \/ \E w \in Workers, r \in Runs, reconcile \in BOOLEAN : Start(w, r, reconcile)
  \/ \E r \in Runs : Abandon(r) \/ Operator(r) \/ Deliver(r) \/ Complete(r) \/ Rewrite(r)
  \/ RestartBrowser

Spec == Init /\ [][Next]_vars

\* A process that is not killed takes its next step: every call it waits for
\* has a deadline.  Nothing obliges the operator, the site or a new job.
FairSpec == Spec /\ \A w \in Workers : WF_vars(WorkerStep(w))
-----------------------------------------------------------------------------
(* Properties *)

\* Across crashes, reconciliations, repeated run requests and any number of
\* processes, one approval sends at most one export input (runner.py:134).
AtMostOneExport == \A r \in Runs : exports[r] <= 1

\* An export input is only ever sent for a run whose intent, with the baseline
\* that reconciliation needs, is already durable; so a run that is shown as
\* stopped never exported (runner.py:131, and _fail's split of the states).
IntentBeforeInput ==
  \A r \in Runs : exports[r] > 0 =>
     /\ evidence[r].plan # None
     /\ state[r] \in {"exporting", "verifying", "uncertain", "verified", "abandoned"}

\* Unresolved work of one process blocks every other: the count in begin, the
\* fence and the crash rules together keep one active row (journal.py:59).
OneUnresolved == Cardinality(Unresolved) <= 1

\* The row a checkpoint has read is still the row when it writes: cancel and
\* abandon of other processes never make a worker stale (journal.py:73).
NeverStale ==
  \A w \in Workers : read[w] # None => state[job[w]] = read[w]

\* Once a cancellation is durable, at most the one input that had passed its
\* check still goes out (_check_cancel before each input, journal.py:75).
CancelBoundsInputs == \A r \in Runs : lateInputs[r] <= 1

\* The artifact a run is verified with was in the directory, byte for byte,
\* when the browser was seen to have completed that download: the re-check
\* after the awaited observation closes the gap (runner.py:164).
VerifiedWasObserved ==
  \A r \in Runs : state[r] = "verified" =>
     LET a == evidence[r].artifact IN
       a # None /\ fileAtView[r] = a.file /\ a.file.content = "right"

\* Unless a run was abandoned, a verified report comes from the run's own
\* export: a late download is never credited to the next run.
VerifiedIsOwn ==
  (\A q \in Runs : state[q] # "abandoned") =>
     \A r \in Runs : state[r] = "verified" => evidence[r].artifact.run = r

\* No checkpoint, however old the evidence its worker holds, loses a recorded
\* cancellation or a recorded baseline (the merge of journal.py:76-80).
EvidenceIsKept ==
  [][\A r \in Runs :
       /\ evidence[r].cancelRequested => evidence'[r].cancelRequested
       /\ evidence[r].plan # None => evidence'[r].plan = evidence[r].plan]_evidence

\* The runner implements what the operator is promised.
Status(s) == CASE s = "absent" -> "none"
               [] s \in ActiveStates -> "running"
               [] OTHER -> s
Promise == INSTANCE SupervisedExport
             WITH status <- [r \in Runs |-> Status(state[r])],
                  exported <- {r \in Runs : exports[r] > 0}
KeepsPromise == Promise!Spec

\* No step waits for ever: a worker always lets go of the fence (deadlines of
\* _verify's loop and of every call), and without crashes and storage failures a
\* run that was begun is settled, or left uncertain for the operator, before that.
WorkersSettle ==
  /\ \A w \in Workers : (fence = w) ~> (fence # w)
  /\ \A r \in Runs : (state[r] = "prepared") ~> (state[r] \in TerminalStates \cup {"uncertain"})

\* docs/WORKFLOW_EXECUTION.md:107: once export intent is recorded, a cancelled
\* run stays uncertain until a read-only reconciliation verifies it.
CancelLeavesUncertain ==
  [][\A r \in Runs : \A w \in Workers :
       /\ fence = w /\ job[w] = r /\ ~reconciling[w]
       /\ state[r] # "verified" /\ evidence[r].cancelRequested
       => state'[r] # "verified"]_state

\* What holds of the store and its runs at every moment: one export per approval
\* with its intent first, and one unresolved run.
RunsAreSafe == TypeOK /\ AtMostOneExport /\ IntentBeforeInput /\ OneUnresolved

\* What a row says of its run is true: a cancellation bounds what follows it, and
\* what a run is verified with is its own.
RowsAreTrue == CancelBoundsInputs /\ VerifiedIsOwn
=============================================================================
