-------------------------- MODULE WorkflowService --------------------------
(***************************************************************************)
(* The warm workflow service (workflow_runner/service.py and warm.py): the *)
(* agent's threads call execute, status, cancel and close; one background  *)
(* thread runs an asyncio loop that takes jobs from a queue of one.  A lock *)
(* guards admission and the publication of results, not the work itself.   *)
(*                                                                         *)
(* Abstracted: what a run does is two writes of its row, by WorkflowRunner *)
(* in detail; of a cached result only whether it is an error; the text of  *)
(* replies.  Left out: calls that the catalog refuses.                     *)
(***************************************************************************)
EXTENDS Naturals, Sequences, FiniteSets

CONSTANTS Callers,       \* threads of the agent
          Runs,
          Approved,      \* those that are approved when the service starts
          Nobody,
          MaxJobs,       \* bound: jobs that are accepted
          StartInTime    \* whether the worker thread is up within _start's 5 s

ASSUME ServiceAssumption == /\ Nobody \notin Callers /\ Approved \subseteq Runs /\ Runs # {}
                            /\ MaxJobs \in Nat /\ StartInTime \in BOOLEAN

VARIABLES lock,       \* the caller inside the lock, or Nobody; the worker's
                      \* own critical sections are single steps
          caller,     \* caller[k]: where a call is
          active,     \* the job that was accepted last and has no result, or 0
          jobs,       \* the jobs accepted so far, with their futures
          closed,
          looped,     \* whether the thread has made its loop and queue
          inbox,      \* what was posted to the loop or is in the queue
          worker,     \* where the thread is
          holding,    \* the job it works on, or 0
          connected,  \* whether it keeps a connection
          row         \* row[r]: the state of a run in the journal

serviceVars == <<active, jobs, closed>>
workerVars  == <<looped, worker, holding, connected>>
vars == <<lock, caller, serviceVars, inbox, workerVars, row>>

Shutdown == 0     \* the None that ends WarmLoop.run
Job      == [run : Runs, reconcile : BOOLEAN, future : {"pending", "result", "error"}]
Thread   == {"none", "starting", "get", "release", "run", "work", "publish",
             "leave", "failing", "unlooped", "ended", "failed"}
Call     == [pc : {"idle", "admit", "ready", "wait", "peek", "status", "reply", "close", "join"},
             run : Runs, reconcile : BOOLEAN, job : Nat,
             late : BOOLEAN]    \* history: the worker wrote the row it has read
Idle     == [pc |-> "idle", run |-> CHOOSE r \in Runs : TRUE, reconcile |-> FALSE,
             job |-> 0, late |-> FALSE]

TypeOK == /\ lock \in Callers \cup {Nobody}
          /\ caller \in [Callers -> Call]
          /\ jobs \in Seq(Job)
          /\ \A k \in Callers : caller[k].job <= Len(jobs)
          /\ active \in 0..Len(jobs) /\ holding \in 0..Len(jobs)
          /\ inbox \in Seq(0..Len(jobs))
          /\ worker \in Thread
          /\ closed \in BOOLEAN /\ looped \in BOOLEAN /\ connected \in BOOLEAN
          /\ row \in [Runs -> {"approved", "begun", "over"}]

Init == /\ lock = Nobody /\ caller = [k \in Callers |-> Idle]
        /\ active = 0 /\ jobs = <<>> /\ closed = FALSE
        /\ looped = FALSE /\ inbox = <<>>
        /\ worker = "none" /\ holding = 0 /\ connected = FALSE
        /\ row = [r \in Runs |-> IF r \in Approved THEN "approved" ELSE "over"]

Alive      == worker \notin {"none", "ended", "failed"}
LoopIsOpen == looped /\ worker \notin {"unlooped", "ended", "failed"}

----------------------------------------------------------------------------
\* Calls.

At(k, pc)    == caller[k].pc = pc
Goes(k, pc)  == caller' = [caller EXCEPT ![k].pc = pc]
Returns(k)   == caller' = [caller EXCEPT ![k] = Idle]
Inspects(k)  == caller' = [caller EXCEPT ![k] = [Idle EXCEPT !.pc = "status", !.run = caller[k].run]]
Acquires(k)  == lock \in {Nobody, k}       \* the lock is reentrant
Releases(k)  == lock' = Nobody
Keeps(k)     == lock' = k

Asks(k, r, reconcile, pc) ==
  /\ At(k, "idle")
  /\ caller' = [caller EXCEPT ![k] = [Idle EXCEPT !.pc = pc, !.run = r, !.reconcile = reconcile]]
  /\ UNCHANGED <<lock, serviceVars, inbox, workerVars>>

Execute(k, r, reconcile) ==
  /\ Len(jobs) + Cardinality({c \in Callers : At(c, "admit") \/ At(c, "ready")}) < MaxJobs
  /\ Asks(k, r, reconcile, "admit") /\ UNCHANGED row
Status(k, r)             == Asks(k, r, FALSE, "peek") /\ UNCHANGED row
Close(k)                 == Asks(k, Idle.run, FALSE, "close") /\ UNCHANGED row

\* RunJournal.cancel: an approval is closed, a run under way is only flagged.
Withdrawn(r) == row' = [row EXCEPT ![r] = IF @ = "approved" THEN "over" ELSE @]
Cancel(k, r) == Asks(k, r, FALSE, "status") /\ Withdrawn(r)

Eligible(k) == row[caller[k].run] = IF caller[k].reconcile THEN "begun" ELSE "approved"
Busy(k)     == active # 0 /\ jobs[active].run # caller[k].run
Joins(k)    == active # 0 /\ jobs[active].run = caller[k].run

\* A call that may not run a job: the service is closed or busy, or the worker
\* is dead.
Refuse(k) ==
  /\ At(k, "admit") /\ Acquires(k)
  /\ closed \/ Busy(k) \/ (active = 0 /\ Eligible(k) /\ worker = "failed")
  /\ Returns(k) /\ Releases(k)
  /\ UNCHANGED <<serviceVars, inbox, workerVars, row>>

\* A call for the run under way waits for its result.
Join(k) ==
  /\ At(k, "admit") /\ Acquires(k) /\ ~closed /\ Joins(k)
  /\ caller' = [caller EXCEPT ![k].pc = "wait", ![k].job = active] /\ Releases(k)
  /\ UNCHANGED <<serviceVars, inbox, workerVars, row>>

\* A run that has no work to do: its status is read, still inside the lock.
Settled(k) ==
  /\ At(k, "admit") /\ Acquires(k) /\ ~closed /\ active = 0 /\ ~Eligible(k)
  /\ Inspects(k) /\ Keeps(k)
  /\ UNCHANGED <<serviceVars, inbox, workerVars, row>>

\* The job is made the active one, then posted to the loop: the second fails if
\* the loop is closed or was never made, and the call with it.
Submit(k) ==
  /\ jobs' = Append(jobs, [run |-> caller[k].run, reconcile |-> caller[k].reconcile,
                           future |-> "pending"])
  /\ active' = Len(jobs')
  /\ IF LoopIsOpen
     THEN /\ inbox' = Append(inbox, active')
          /\ caller' = [caller EXCEPT ![k].pc = "wait", ![k].job = active']
     ELSE Returns(k) /\ UNCHANGED inbox
  /\ Releases(k)
  /\ UNCHANGED <<closed, workerVars, row>>

Admits(k) == At(k, "admit") /\ Acquires(k) /\ ~closed /\ active = 0 /\ Eligible(k)
Admit(k)  == Admits(k) /\ Alive /\ Submit(k)

\* _start: the first job starts the thread, and waits for it inside the lock.
Start(k) ==
  /\ Admits(k) /\ worker = "none"
  /\ worker' = "starting" /\ Goes(k, "ready") /\ Keeps(k)
  /\ UNCHANGED <<serviceVars, inbox, looped, holding, connected, row>>
Started(k) == At(k, "ready") /\ looped /\ Alive /\ Submit(k)

\* Mutant of StartFails: the wait has no limit.  The thread's handler cannot get
\* in to say that it has failed.
StartWaits(k) ==
  /\ At(k, "ready") /\ worker = "failed"
  /\ Returns(k) /\ Releases(k)
  /\ UNCHANGED <<serviceVars, inbox, workerVars, row>>
\* The 5 s are over.
StartFails(k) ==
  /\ At(k, "ready") /\ ~looped
  /\ worker = "starting" => ~StartInTime
  /\ Returns(k) /\ Releases(k)
  /\ UNCHANGED <<serviceVars, inbox, workerVars, row>>

\* A status call looks for a job to wait for.
Peek(k) ==
  /\ At(k, "peek") /\ Acquires(k)
  /\ IF Joins(k) THEN caller' = [caller EXCEPT ![k].pc = "wait", ![k].job = active]
                 ELSE Inspects(k)
  /\ UNCHANGED <<lock, serviceVars, inbox, workerVars, row>>

\* The future has a result, an error, or the wait is over.
Waited(k) ==
  /\ At(k, "wait")
  /\ \/ jobs[caller[k].job].future = "error" /\ Returns(k)
     \/ Inspects(k)
  /\ UNCHANGED <<lock, serviceVars, inbox, workerVars, row>>

\* Mutant of ReadRow: the row is read before the lock is taken.
ReadRowUnlocked(k) ==
  /\ At(k, "status")
  /\ Goes(k, "reply")
  /\ UNCHANGED <<lock, serviceVars, inbox, workerVars, row>>
\* status reads the row under the lock ...
ReadRow(k) ==
  /\ At(k, "status") /\ Acquires(k) /\ Keeps(k)
  /\ Goes(k, "reply")
  /\ UNCHANGED <<serviceVars, inbox, workerVars, row>>
\* ... and only then whether the run is active.
Reply(k) ==
  /\ At(k, "reply") /\ Acquires(k) /\ Releases(k) /\ Returns(k)
  /\ UNCHANGED <<serviceVars, inbox, workerVars, row>>

\* Mutant of Shut: only an idle worker is told to end.
ShutIdle(k) ==
  /\ At(k, "close") /\ Acquires(k)
  /\ closed' = TRUE /\ Returns(k)
  /\ inbox' = IF LoopIsOpen /\ ~closed /\ active = 0 THEN Append(inbox, Shutdown) ELSE inbox
  /\ UNCHANGED <<lock, active, jobs, workerVars, row>>
\* The loop is told to end behind the active job, and its thread is joined.
Shut(k) ==
  /\ At(k, "close") /\ Acquires(k) /\ UNCHANGED <<active, jobs, workerVars>>
  /\ IF closed THEN Returns(k) /\ UNCHANGED <<lock, closed, inbox, row>>
     ELSE /\ closed' = TRUE
          /\ IF active = 0 THEN UNCHANGED row
             ELSE Withdrawn(jobs[active].run) \/ UNCHANGED row      \* cancel raises
          /\ inbox' = IF LoopIsOpen THEN Append(inbox, Shutdown) ELSE inbox
          /\ IF Alive THEN Goes(k, "join") ELSE Returns(k)
          /\ UNCHANGED lock
Joined(k) == /\ At(k, "join") /\ Returns(k)          \* or its 25 s are over
             /\ UNCHANGED <<lock, serviceVars, inbox, workerVars, row>>

----------------------------------------------------------------------------
\* The worker thread.

Moves(from, to) == worker = from /\ worker' = to

LoopMade == /\ Moves("starting", "get") /\ looped' = TRUE
            /\ UNCHANGED <<lock, caller, serviceVars, inbox, holding, connected, row>>

Take == /\ inbox # <<>> /\ inbox' = Tail(inbox) /\ holding' = Head(inbox)
        /\ Moves("get", IF Head(inbox) = Shutdown THEN "leave" ELSE "run")
        /\ UNCHANGED <<lock, caller, serviceVars, looped, connected, row>>

\* Nothing came for 30 s: the connection is closed, while jobs may come in.
IdleTimeout == /\ connected /\ inbox = <<>> /\ Moves("get", "release")
               /\ UNCHANGED <<lock, caller, serviceVars, inbox, looped, holding, connected, row>>
Released    == /\ connected' = FALSE /\ Moves("release", "get")
               /\ UNCHANGED <<lock, caller, serviceVars, inbox, looped, holding, row>>

Current  == jobs[holding].run
Writes(state) ==
  /\ row' = [row EXCEPT ![Current] = state]
  /\ caller' = [k \in Callers |-> IF At(k, "reply") /\ caller[k].run = Current
                                  THEN [caller[k] EXCEPT !.late = TRUE] ELSE caller[k]]

\* runner.execute: a job whose run is as expected takes the journal's fence and
\* works; any other returns the status, or raises.
Begin == /\ Moves("run", "work")
         /\ IF jobs[holding].reconcile
            THEN row[Current] = "begun" /\ UNCHANGED <<row, caller>>
            ELSE row[Current] = "approved" /\ Writes("begun")
         /\ UNCHANGED <<lock, serviceVars, inbox, looped, holding, connected>>
Decline == /\ Moves("run", "publish") /\ connected' \in {connected, FALSE}
           /\ UNCHANGED <<lock, caller, serviceVars, inbox, looped, holding, row>>
\* The last write settles the run, or leaves it uncertain; a connection that
\* broke is discarded.
Work == /\ Moves("work", "publish") /\ connected' \in BOOLEAN
        /\ Writes("begun") \/ Writes("over")
        /\ UNCHANGED <<lock, serviceVars, inbox, looped, holding>>

Resolves(j, outcome) == jobs' = [jobs EXCEPT ![j].future = outcome]

\* _completed.
Publish ==
  /\ lock = Nobody /\ Moves("publish", "get")
  /\ holding' = 0 /\ active' = 0
  /\ Resolves(holding, "result") \/ Resolves(holding, "error")
  /\ UNCHANGED <<lock, caller, closed, inbox, looped, connected, row>>

Left == /\ Moves("leave", "ended") /\ connected' = FALSE
        /\ UNCHANGED <<lock, caller, serviceVars, inbox, looped, holding, row>>

\* The thread's coroutine raises: no loop, a connection that cannot be closed,
\* an error that is not an Exception.  The loop closes after it.
Raise == /\ worker \in {"starting", "release", "run", "work", "leave"}
         /\ worker' = "failing" /\ holding' = 0 /\ connected' = FALSE
         /\ UNCHANGED <<lock, caller, serviceVars, inbox, looped, row>>
LoopCloses == /\ Moves("failing", "unlooped") /\ inbox' = <<>>
              /\ UNCHANGED <<lock, caller, serviceVars, looped, holding, connected, row>>

\* Mutants of Die: the last job's future is resolved whether it has been or not;
DieAgain ==
  /\ lock = Nobody /\ Moves("unlooped", "failed") /\ active' = 0
  /\ IF jobs # <<>> THEN Resolves(Len(jobs), "error") ELSE UNCHANGED jobs
  /\ UNCHANGED <<lock, caller, closed, inbox, looped, holding, connected, row>>
\* ... the active job is left as it is.
DieSilently ==
  /\ lock = Nobody /\ Moves("unlooped", "failed")
  /\ UNCHANGED <<lock, caller, serviceVars, inbox, looped, holding, connected, row>>
\* _thread_main's handler.
Die ==
  /\ lock = Nobody /\ Moves("unlooped", "failed") /\ active' = 0
  /\ IF active # 0 THEN Resolves(active, "error") ELSE UNCHANGED jobs
  /\ UNCHANGED <<lock, caller, closed, inbox, looped, holding, connected, row>>

\* Another process runs, settles or abandons a run: it needs the fence.
Elsewhere(r) ==
  /\ worker # "work"
  /\ \/ row[r] = "approved" /\ row' = [row EXCEPT ![r] = "begun"]
     \/ row[r] = "begun" /\ row' = [row EXCEPT ![r] = "over"]
  /\ UNCHANGED <<lock, caller, serviceVars, inbox, workerVars>>

----------------------------------------------------------------------------
Arrival(k) == Close(k) \/ \E r \in Runs : \/ \E reconcile \in BOOLEAN : Execute(k, r, reconcile)
                              \/ Status(k, r) \/ Cancel(k, r)
Step(k)    == \/ Refuse(k) \/ Join(k) \/ Settled(k) \/ Admit(k) \/ Start(k) \/ Started(k)
              \/ StartFails(k) \/ Peek(k) \/ Waited(k) \/ ReadRow(k) \/ Reply(k)
              \/ Shut(k) \/ Joined(k)
WorkerStep    == \/ LoopMade \/ Take \/ IdleTimeout \/ Released \/ Begin \/ Decline \/ Work
              \/ Publish \/ Left \/ Raise \/ LoopCloses \/ Die

Next == \/ \E k \in Callers : Arrival(k) \/ Step(k)
        \/ WorkerStep
        \/ \E r \in Runs : Elsewhere(r)

Spec == Init /\ [][Next]_vars

\* A thread that can go on does, and one that waits for the lock gets it some
\* time.  Nothing makes the agent call, or other processes work.
FairSpec == Spec /\ SF_vars(WorkerStep) /\ \A k \in Callers : SF_vars(Step(k))

----------------------------------------------------------------------------
\* Properties.

Posted == {i \in 1..Len(inbox) : inbox[i] # Shutdown}

\* There is one job, the active one, wherever it is: put_nowait never finds the
\* queue full, and no job runs that the lock does not know of.
OneJob ==
  /\ \A i \in Posted : inbox[i] = active /\ holding = 0
  /\ \A i, j \in Posted : i = j
  /\ holding # 0 => holding = active

\* "active" means that this process is still settling the job: the worker has
\* it, will take it, or is about to say that it cannot.
ActiveIsSettling ==
  active # 0 => \/ active = holding
                \/ \E i \in Posted : inbox[i] = active
                \/ worker \in {"failing", "unlooped"}

\* A job has one result: its callers are never told another one.
ResolvedOnce ==
  [][\A j \in 1..Len(jobs) :
       jobs[j].future # "pending" => jobs'[j].future = jobs[j].future]_vars

\* A status that says a run is not active shows the last row the worker wrote.
StatusIsCoherent ==
  [][\A k \in Callers :
       (At(k, "reply") /\ caller'[k].pc # "reply" /\ ~Joins(k))
         => ~caller[k].late]_vars

\* Nobody waits for ever: a job that is accepted is answered, even if the thread
\* dies, or dies between the check that it lives and the posting of the job; a
\* closed service's thread ends, once its job is settled; and no call hangs, not in
\* the lock, on the thread, or on a result.
NobodyHangs ==
  /\ \A j \in 1..MaxJobs :
       (j <= Len(jobs) /\ jobs[j].future = "pending") ~> (j <= Len(jobs) /\ jobs[j].future # "pending")
  /\ closed ~> ~Alive
  /\ \A k \in Callers : ~At(k, "idle") ~> At(k, "idle")

\* Every job that the lock knows of is somewhere, and nothing else is.
ServiceIsSound == TypeOK /\ OneJob /\ ActiveIsSettling

\* What callers are told stays true.
AnswersAreSound == ResolvedOnce /\ StatusIsCoherent
=============================================================================
