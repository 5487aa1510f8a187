----------------------------- MODULE RunJournal -----------------------------
(***************************************************************************)
(* The durable run journal (hermes/workflow_runner/journal.py): one SQLite *)
(* row per reviewed run.  Every operation is one IMMEDIATE transaction, so *)
(* it is one action here; what a caller does between two transactions can  *)
(* interleave with any other process that opens the same store.           *)
(*                                                                         *)
(* Abstracted: the binding digest (a caller with the wrong contract is     *)
(* rejected and changes nothing), the textual code of a row, the pacing    *)
(* statistics in the evidence, and the clock, kept as "expired or not".    *)
(***************************************************************************)
EXTENDS ReportArtifacts

CONSTANT Capacity       \* rows the journal accepts (32 in the code)

ASSUME CapacityAssumption == Capacity \in Nat

\* What an export intent records: the directory's snapshot and the download
\* records of the tab, both taken before the export input.
Plan == [files : Directory, downloads : SUBSET Runs]

ActiveStates   == {"prepared", "navigating", "exporting", "verifying", "uncertain"}
TerminalStates == {"verified", "stopped", "abandoned"}
RowStates      == {"absent", "approved"} \cup ActiveStates \cup TerminalStates

VARIABLES state,       \* state[r]: the row's state, "absent" before approve
          evidence,    \* evidence[r]: the row's JSON evidence
          expired      \* the runs whose approval has outlived its ten minutes

journalVars == <<state, evidence, expired>>

Evidence   == [plan : Plan \cup {None}, artifact : Artifact \cup {None},
               cancelRequested : BOOLEAN]
NoEvidence == [plan |-> None, artifact |-> None, cancelRequested |-> FALSE]

ASSUME NoPlanAssumption == None \notin Plan /\ None \notin Evidence

JournalTypeOK == /\ state \in [Runs -> RowStates]
                 /\ evidence \in [Runs -> Evidence]
                 /\ expired \subseteq Runs

JournalInit == /\ state = [r \in Runs |-> "absent"]
               /\ evidence = [r \in Runs |-> NoEvidence]
               /\ expired = {}

Rows       == {r \in Runs : state[r] # "absent"}
Unresolved == {r \in Runs : state[r] \in ActiveStates}

Approve(r) ==
  /\ state[r] = "absent"                    \* ids() returns a fresh identifier
  /\ Cardinality(Rows) < Capacity           \* JOURNAL_CAPACITY
  /\ state' = [state EXCEPT ![r] = "approved"]
  /\ UNCHANGED <<evidence, expired>>

\* The wall clock passes the row's "expires", which only begin looks at.
Expire(r) ==
  /\ state[r] = "approved" /\ r \notin expired
  /\ expired' = expired \cup {r}
  /\ UNCHANGED <<state, evidence>>

\* Mutants of BeginRow: an uncertain run may be begun again; and the count of
\* unresolved rows is not looked at.
BeginRowRetries(r) ==
  /\ state[r] \in {"approved", "uncertain"} /\ r \notin expired
  /\ Unresolved \subseteq {r}
  /\ state' = [state EXCEPT ![r] = "prepared"]
  /\ UNCHANGED <<evidence, expired>>
BeginRowAlongside(r) ==
  /\ state[r] = "approved" /\ r \notin expired
  /\ state' = [state EXCEPT ![r] = "prepared"]
  /\ UNCHANGED <<evidence, expired>>

\* begin that returns True; its other outcomes change nothing.
BeginRow(r) ==
  /\ state[r] = "approved"
  /\ r \notin expired                       \* APPROVAL_EXPIRED
  /\ Unresolved = {}                        \* UNRESOLVED_RUN
  /\ state' = [state EXCEPT ![r] = "prepared"]
  /\ UNCHANGED <<evidence, expired>>

Transitions ==
  [s \in RowStates |->
     CASE s = "prepared"   -> {"navigating", "stopped", "uncertain"}
       [] s = "navigating" -> {"exporting", "stopped", "uncertain"}
       [] s = "exporting"  -> {"verifying", "uncertain"}
       [] s = "verifying"  -> {"verified", "uncertain"}
       [] s = "uncertain"  -> {"verifying", "stopped"}
       [] OTHER            -> {}]

\* Mutant of Merged: the caller's evidence replaces the row's.
MergedVerbatim(r, given) == IF given = None THEN evidence[r] ELSE given

\* The evidence a checkpoint stores: the row's own when the caller passes
\* none, else the caller's, with a cancellation recorded meanwhile kept.
Merged(r, given) ==
  IF given = None THEN evidence[r]
  ELSE [given EXCEPT !.cancelRequested = @ \/ evidence[r].cancelRequested]

CheckpointRow(r, expected, to, given) ==
  /\ to \in Transitions[expected]           \* INVALID_TRANSITION
  /\ state[r] = expected                    \* STALE_WORKER
  /\ evidence[r].cancelRequested => to \notin {"navigating", "exporting"}
  /\ state' = [state EXCEPT ![r] = to]
  /\ evidence' = [evidence EXCEPT ![r] = Merged(r, given)]
  /\ UNCHANGED expired

\* No fence: any process may record a request at any time.
Cancel(r) ==
  /\ state[r] \in {"approved"} \cup ActiveStates
  /\ state' = [state EXCEPT ![r] = IF @ = "approved" THEN "stopped" ELSE @]
  /\ evidence' = [evidence EXCEPT ![r].cancelRequested = TRUE]
  /\ UNCHANGED expired

\* Mutant of AbandonRow: a terminal row can be abandoned too.
AbandonRowAnyTime(r) ==
  /\ state[r] # "absent"
  /\ state' = [state EXCEPT ![r] = "abandoned"]
  /\ UNCHANGED <<evidence, expired>>

AbandonRow(r) ==
  /\ state[r] \in {"approved"} \cup ActiveStates   \* TERMINAL_RUN
  /\ state' = [state EXCEPT ![r] = "abandoned"]
  /\ UNCHANGED <<evidence, expired>>
=============================================================================
