--------------------------- MODULE WorkflowPacer ---------------------------
(***************************************************************************)
(* The waits of a run before its operations                                *)
(* (hermes/workflow_runner/pacing.py, and its calls in runner.py): each    *)
(* operation is admitted by the ledger that all runs of a site share, and  *)
(* completed there when its input has returned.  A run sleeps in slices,   *)
(* looks for a cancellation between them, and has one budget of waiting    *)
(* for all its operations.                                                 *)
(*                                                                         *)
(* Of the ledger (PacingLedger) the run sees how long its site is not due  *)
(* for its policy.  That is a matter of the wall clock, which may be set;  *)
(* deadlines are of the monotonic clock.  Both are counted down.           *)
(***************************************************************************)
EXTENDS Integers

CONSTANTS MaxWait,    \* maxWaitMs, at most 10000
          Slice,      \* 100 ms
          Delays,     \* bound: how long after a write a site may be due
          LongestDue, \* bound: the longest of them
          Late        \* bound: how much longer a sleep takes than it was asked for
ASSUME PacerAssumption ==
  MaxWait \in Nat /\ Slice \in Nat \ {0} /\ Delays \subseteq Nat /\ Late \in Nat /\ LongestDue \in Nat

Attempts == MaxWait \div Slice + 2   \* 102 for the longest wait

VARIABLES dueIn,  \* how long the site is not due for the run's policy
          pace    \* the pacer, with what became of its run; left: the time to its
                  \* deadline; slept: how long it sleeps already; real, grace and
                  \* alone are history: what it slept, what it had slept when it was
                  \* cancelled, and that nobody disturbs it
pacerVars == <<dueIn, pace>>

PacerInit ==
  /\ dueIn \in Delays
  /\ pace = [pc |-> "idle", left |-> 0, attempt |-> 0, delay |-> 0, slept |-> 0, waited |-> 0,
             operations |-> 0, cancelled |-> FALSE, why |-> "none", real |-> 0, grace |-> 0, alone |-> TRUE]
-----------------------------------------------------------------------------
PaceAt(pc) == pace.pc = pc
RunGoes(pc) == pace' = [pace EXCEPT !.pc = pc] /\ UNCHANGED dueIn
RunEnds(why) == pace' = [pace EXCEPT !.pc = "stopped", !.why = why] /\ UNCHANGED dueIn
Later(a, b) == IF a >= b THEN a ELSE b
Sooner(a, b) == IF a <= b THEN a ELSE b

\* Mutant of Remaining: every operation has the whole budget.
RemainingWhole == MaxWait
Remaining == Later(0, MaxWait - pace.waited)
\* The runner asks for its next operation: two in an execution.
BeginAdmit ==
  /\ PaceAt("idle") /\ pace.operations < 2 /\ UNCHANGED dueIn
  /\ pace' = [pace EXCEPT !.pc = "check", !.attempt = 0, !.alone = TRUE, !.left = Remaining]

\* Mutant of Exhausted: one try for each slice.
ExhaustedSlices == pace.attempt >= MaxWait \div Slice
Exhausted == pace.attempt >= Attempts
Overslept == pace.attempt > 0 /\ pace.left < 0
\* The top of the loop: the journal is asked for a cancellation.
CheckWait ==
  /\ PaceAt("check")
  /\ IF Exhausted THEN RunEnds("exhausted")
     ELSE IF pace.cancelled THEN RunEnds("cancelled")
     ELSE IF Overslept THEN RunEnds("overslept") ELSE RunGoes("reserve")

\* ledger.reserve: the site is spent, or the run is told when to come back.
ReserveNow ==
  /\ PaceAt("reserve") /\ dueIn = 0 /\ dueIn' \in Delays
  /\ pace' = [pace EXCEPT !.pc = "reserved", !.left = 0, !.attempt = 0]
ComeBack ==
  /\ PaceAt("reserve") /\ dueIn > 0 /\ UNCHANGED dueIn
  /\ pace' = [pace EXCEPT !.pc = "refused", !.delay = dueIn]
\* A wait that does not fit is not begun.
WaitFits == pace.delay <= Later(0, pace.left)
Weigh ==
  /\ PaceAt("refused")
  /\ IF WaitFits THEN pace' = [pace EXCEPT !.pc = "sleep", !.slept = 0] /\ UNCHANGED dueIn
     ELSE RunEnds("deferred")
\* Mutant of Nap: the whole delay is slept at once.
NapWhole == pace.delay
Nap == Sooner(pace.delay, Slice)
\* Mutant of Waited: what was asked for counts, not what it took.
WaitedAsked == pace.waited + Nap
Waited == pace.waited + pace.slept
\* The sleep is over, or its task is cancelled: what was waited counts.
WakeUp ==
  /\ PaceAt("sleep") /\ pace.slept >= Nap /\ UNCHANGED dueIn
  /\ pace' = [pace EXCEPT !.pc = "check", !.waited = Waited, !.attempt = @ + 1, !.slept = 0, !.delay = 0]
Interrupted ==
  /\ PaceAt("sleep") /\ UNCHANGED dueIn
  /\ pace' = [pace EXCEPT !.pc = "stopped", !.why = "interrupted", !.waited = Waited]
\* A cancellation that came meanwhile; what was reserved is spent all the same.
AdmitRun ==
  /\ PaceAt("reserved") /\ IF pace.cancelled THEN RunEnds("cancelled") ELSE RunGoes("input")
\* The input returns or fails, and is completed in the ledger either way; the run
\* goes on, or ends with it.
CompleteNow ==
  /\ PaceAt("input") /\ \E d \in Delays : dueIn' = Later(dueIn, d)
  /\ \E pc \in {"idle", "stopped"} : pace' = [pace EXCEPT !.pc = pc, !.operations = @ + 1]
\* The store, a wall clock behind the row, or a check before the input: the run
\* ends without a write.
OpFails == pace.pc \in {"reserve", "reserved", "input"} /\ RunEnds("failed")
\* An operator cancels the run, in its journal.
CancelRun ==
  /\ ~pace.cancelled /\ ~PaceAt("stopped") /\ UNCHANGED dueIn
  /\ pace' = [pace EXCEPT !.cancelled = TRUE, !.grace = pace.real]

Admitting == pace.pc \in {"check", "reserve", "refused", "sleep"}
\* Time passes; for a sleeper no more than it is late.
TickPasses ==
  /\ ~PaceAt("stopped") /\ (PaceAt("sleep") => pace.slept < Nap + Late)
  /\ dueIn' = Later(dueIn - 1, 0)
  /\ pace' = [pace EXCEPT !.left = IF Admitting THEN Later(@ - 1, -1) ELSE 0,
                            !.slept = IF PaceAt("sleep") THEN @ + 1 ELSE 0,
                            !.real = IF PaceAt("sleep") THEN @ + 1 ELSE @]
\* Other runs spend from the same ledger, under policies of their own, and
\* somebody sets the wall clock.
OthersWrite == ~PaceAt("stopped") /\ dueIn' \in Delays /\ pace' = [pace EXCEPT !.alone = FALSE]
WallIsSet ==
  /\ ~PaceAt("stopped") /\ dueIn > 0 /\ dueIn' \in {dueIn - 1, dueIn + 1} /\ dueIn' <= LongestDue
  /\ pace' = [pace EXCEPT !.alone = FALSE]

PacerNext ==
  \/ BeginAdmit \/ CheckWait \/ ReserveNow \/ ComeBack \/ Weigh \/ WakeUp \/ Interrupted \/ AdmitRun
  \/ CompleteNow \/ OpFails \/ CancelRun \/ TickPasses \/ OthersWrite \/ WallIsSet
PacerSpec == PacerInit /\ [][PacerNext]_pacerVars
-----------------------------------------------------------------------------
PaceSteps == {"idle", "check", "reserve", "refused", "sleep", "reserved", "input", "stopped"}
PaceEnds == {"none", "exhausted", "cancelled", "overslept", "deferred", "interrupted", "failed"}
PacerTypeOK ==
  /\ dueIn \in Nat
  /\ pace \in [pc : PaceSteps, left : Int, attempt : Nat, delay : Nat, slept : Nat, waited : Nat,
               operations : Nat, cancelled : BOOLEAN, why : PaceEnds, real : Nat, grace : Nat, alone : BOOLEAN]
\* A run waits for its budget and no longer, over all its operations, but for the
\* last sleep's lateness (docs/WORKFLOW_PACING.md:58, :80).
BudgetOfWaiting == pace.real <= MaxWait + Late
\* A run that is cancelled sleeps for one slice at the most
\* (docs/WORKFLOW_PACING.md:78).
CancelIsHeard == pace.cancelled => pace.real <= pace.grace + Slice + Late
\* The bound of the loop is for broken clocks only: who waits alone, by clocks
\* that nobody sets, is admitted or out of time before it is reached (pacing.py:33).
CapIsSpare == pace.why = "exhausted" => ~pace.alone
\* All of it, whatever others spend and however late the sleeps end.
WaitsAreBounded == PacerTypeOK /\ BudgetOfWaiting /\ CancelIsHeard /\ CapIsSpare
=============================================================================
