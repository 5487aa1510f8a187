---------------------- MODULE WorkflowService_proofs ----------------------
(***************************************************************************)
(* The safety of the warm service for any number of threads, runs and      *)
(* jobs.  The runs' invariants are not inductive: they rest on who holds   *)
(* the lock at which step, and on what a dying or closing worker leaves in *)
(* its queue.                                                              *)
(***************************************************************************)
EXTENDS WorkflowService, SequenceTheorems, TLAPS

\* Who is inside the lock; the first caller finds no job, and keeps it that way.
Inside == /\ \A k \in Callers : At(k, "ready") \/ At(k, "reply") => lock = k
          /\ \A k \in Callers : At(k, "ready") => ~closed /\ active = 0
\* The worker has a job in hand exactly while it works on one.
InHand == holding # 0 <=> worker \in {"run", "work", "publish"}
\* The active job has no result yet.
Unresolved == active # 0 => jobs[active].future = "pending"
\* A row can only be outdated while its run is the active one.
LateIsActive == \A k \in Callers : caller[k].late => At(k, "reply") /\ Joins(k)
\* Nothing is posted behind the shutdown, or to a loop that is gone.
Ending == /\ \A i \in 1..Len(inbox) : inbox[i] = Shutdown => closed /\ i = Len(inbox)
          /\ worker \in {"leave", "ended"} => closed /\ inbox = <<>>
          /\ worker \in {"unlooped", "failed"} => inbox = <<>>

IInv == TypeOK /\ OneJob /\ Inside /\ InHand /\ Unresolved /\ LateIsActive /\ Ending

\* While the thread starts in time, its starter waits; a thread that got
\* further has made its loop.
Timely == /\ worker \in {"none", "starting"} => ~looped
          /\ worker = "starting" => \E k \in Callers : At(k, "ready")
          /\ worker \in {"get", "release", "run", "work", "publish", "leave"} => looped
          /\ ActiveIsSettling

USE DEF Shutdown
-----------------------------------------------------------------------------
\* What a step of one caller does to the callers: it moves this one, to pc and
\* to a job, and clears its mark.
Moved(k, pc, job) == /\ caller' \in [Callers -> Call]
                     /\ \A c \in Callers : c # k => caller'[c] = caller[c]
                     /\ caller'[k].pc = pc /\ caller'[k].job = job /\ ~caller'[k].late

LEMMA IdleType ==
  Idle \in Call /\ Idle.pc = "idle" /\ Idle.job = 0 /\ Idle.late = FALSE /\ Idle.run \in Runs
<1>1. (CHOOSE r \in Runs : TRUE) \in Runs BY ServiceAssumption
<1>. QED BY <1>1 DEF Idle, Call

LEMMA GoesMoves ==
  ASSUME TypeOK, LateIsActive, NEW k \in Callers,
         NEW pc \in {"ready", "reply", "join"}, Goes(k, pc), ~At(k, "reply")
  PROVE Moved(k, pc, caller[k].job)
<1>1. caller \in [Callers -> Call] /\ ~caller[k].late BY DEF TypeOK, LateIsActive
<1>2. [caller[k] EXCEPT !.pc = pc] \in Call BY <1>1 DEF Call
<1>. QED BY <1>1, <1>2 DEF Goes, Moved, Call

LEMMA ReturnsMoves ==
  ASSUME TypeOK, NEW k \in Callers, Returns(k)
  PROVE Moved(k, "idle", 0)
BY IdleType DEF TypeOK, Returns, Moved

LEMMA InspectsMoves ==
  ASSUME TypeOK, NEW k \in Callers, Inspects(k)
  PROVE Moved(k, "status", 0)
<1> DEFINE new == [Idle EXCEPT !.pc = "status", !.run = caller[k].run]
<1>1. new \in Call /\ new.pc = "status" /\ new.job = 0 /\ ~new.late
  BY IdleType DEF TypeOK, Call
<1>2. caller' = [caller EXCEPT ![k] = new] BY DEF Inspects
<1>. HIDE DEF new
<1>. QED BY <1>1, <1>2 DEF TypeOK, Moved

LEMMA AsksMoves ==
  ASSUME TypeOK, NEW k \in Callers, NEW r \in Runs, NEW reconcile \in BOOLEAN,
         NEW pc \in {"admit", "peek", "close", "status"}, Asks(k, r, reconcile, pc)
  PROVE Moved(k, pc, 0)
<1> DEFINE new == [Idle EXCEPT !.pc = pc, !.run = r, !.reconcile = reconcile]
<1>1. new \in Call /\ new.pc = pc /\ new.job = 0 /\ ~new.late
  BY IdleType DEF Call
<1>2. caller' = [caller EXCEPT ![k] = new] BY DEF Asks
<1>. HIDE DEF new
<1>. QED BY <1>1, <1>2 DEF TypeOK, Moved

LEMMA WaitMoves ==
  ASSUME TypeOK, LateIsActive, NEW k \in Callers, ~At(k, "reply"), NEW j \in Nat,
         caller' = [caller EXCEPT ![k].pc = "wait", ![k].job = j]
  PROVE Moved(k, "wait", j)
<1> DEFINE new == [caller[k] EXCEPT !.pc = "wait", !.job = j]
<1>1. caller[k] \in Call /\ ~caller[k].late BY DEF TypeOK, LateIsActive
<1>2. new \in Call /\ new.pc = "wait" /\ new.job = j /\ ~new.late BY <1>1 DEF Call
<1>3. caller' = [caller EXCEPT ![k] = new] BY <1>1 DEF TypeOK, Call
<1>. HIDE DEF new
<1>. QED BY <1>2, <1>3 DEF TypeOK, Moved
-----------------------------------------------------------------------------
LEMMA InitInvariant == Init => IInv
<1> SUFFICES ASSUME Init PROVE IInv OBVIOUS
<1>1. \A k \in Callers : caller[k] = Idle BY DEF Init
<1>2. TypeOK
  <2>1. caller \in [Callers -> Call] BY IdleType DEF Init
  <2>2. \A k \in Callers : caller[k].job <= Len(jobs) BY <1>1, IdleType DEF Init
  <2>3. jobs \in Seq(Job) /\ inbox \in Seq(0..Len(jobs)) /\ active \in 0..Len(jobs) /\ holding \in 0..Len(jobs)
    BY DEF Init
  <2>4. row \in [Runs -> {"approved", "begun", "over"}] BY DEF Init
  <2>. QED BY <2>1, <2>2, <2>3, <2>4 DEF Init, TypeOK, Thread
<1>3. OneJob /\ InHand /\ Unresolved /\ Ending BY DEF Init, OneJob, Posted, InHand, Unresolved, Ending
<1>4. Inside /\ LateIsActive BY <1>1, IdleType DEF Inside, LateIsActive, At
<1>. QED BY <1>2, <1>3, <1>4 DEF IInv

\* A caller that only moves keeps the invariant, if it enters "reply" with the
\* lock in hand and takes the lock from nobody else.
LEMMA MoveKeeps ==
  ASSUME IInv, NEW k \in Callers,
         NEW pc \in {"idle", "admit", "wait", "peek", "status", "reply", "close", "join"},
         NEW job \in 0..Len(jobs), Moved(k, pc, job),
         UNCHANGED <<serviceVars, inbox, looped, worker, holding, connected>>,
         row' \in [Runs -> {"approved", "begun", "over"}],
         \/ lock' = lock /\ pc # "reply"
         \/ lock \in {Nobody, k} /\ lock' = Nobody /\ pc # "reply"
         \/ lock \in {Nobody, k} /\ lock' = k
  PROVE IInv'
<1>. USE DEF IInv
<1>1. UNCHANGED <<active, jobs, closed, inbox, looped, worker, holding, connected>>
  BY DEF serviceVars
<1>2. TypeOK'
  <2>1. \A c \in Callers : caller'[c].job <= Len(jobs) BY DEF Moved, TypeOK
  <2>. QED BY <1>1, <2>1 DEF TypeOK, Moved
<1>3. OneJob' /\ InHand' /\ Unresolved' /\ Ending'
  BY <1>1 DEF OneJob, Posted, InHand, Unresolved, Ending
<1>4. Inside'
  <2>1. \A c \in Callers : At(c, "ready")' => c # k /\ At(c, "ready") BY DEF At, Moved
  <2>2. \A c \in Callers : At(c, "reply")' /\ c # k => At(c, "reply") BY DEF At, Moved
  <2>3. At(k, "reply")' => lock' = k BY DEF At, Moved
  <2>4. \A c \in Callers : c # k /\ lock = c => lock' = c BY ServiceAssumption
  <2>. QED BY <1>1, <2>1, <2>2, <2>3, <2>4 DEF Inside
<1>5. LateIsActive' BY <1>1 DEF LateIsActive, Moved, At, Joins
<1>. QED BY <1>2, <1>3, <1>4, <1>5

\* Without an active job nothing is posted or worked on, and no row is outdated.
LEMMA NoJob ==
  ASSUME IInv, active = 0
  PROVE Posted = {} /\ holding = 0 /\ \A c \in Callers : ~caller[c].late
BY DEF IInv, OneJob, Posted, LateIsActive, Joins, TypeOK

\* A queue with one more message.
LEMMA Posting ==
  ASSUME NEW S, NEW q \in Seq(S), NEW x \in S, NEW q2, q2 = Append(q, x)
  PROVE /\ q2 \in Seq(S) /\ Len(q2) = Len(q) + 1 /\ Len(q) \in Nat
        /\ \A i \in 1..Len(q2) : \/ i \in 1..Len(q) /\ q2[i] = q[i]
                                 \/ i = Len(q2) /\ q2[i] = x
<1>1. q2 \in Seq(S) /\ Len(q2) = Len(q) + 1 /\ q2[Len(q)+1] = x
      /\ \A i \in 1..Len(q) : q2[i] = q[i] BY AppendProperties
<1>2. Len(q) \in Nat BY LenProperties
<1>3. ASSUME NEW i \in 1..Len(q2) PROVE i \in 1..Len(q) \/ i = Len(q2)
  BY <1>1, <1>2
<1> QED BY <1>1, <1>2, <1>3
LEMMA PostedAlone ==
  ASSUME NEW S, NEW x \in S, NEW q, q = <<>> \/ q = <<x>>
  PROVE q \in Seq(S) /\ \A i \in 1..Len(q) : q[i] = x /\ i = Len(q)
<1>1. CASE q = <<>> BY <1>1
<1>2. CASE q = <<x>>
  <2>1. <<x>> \in Seq(S) /\ Len(<<x>>) = 1 /\ <<x>>[1] = x /\ \A i \in 1..Len(<<x>>) : i = 1 OBVIOUS
  <2>. QED BY <1>2, <2>1
<1>. QED BY <1>1, <1>2

\* The accepted job becomes the active one, and the only one posted.
LEMMA SubmitInvariant ==
  ASSUME IInv, NEW k \in Callers, At(k, "admit") \/ At(k, "ready"), lock \in {Nobody, k},
         ~closed, active = 0, Submit(k)
  PROVE IInv'
<1>. USE DEF IInv
<1> DEFINE new == [run |-> caller[k].run, reconcile |-> caller[k].reconcile, future |-> "pending"]
<1>1. new \in Job /\ new.future = "pending" BY DEF TypeOK, Call, Job
<1>2. jobs' = Append(jobs, new) /\ active' = Len(jobs') /\ lock' = Nobody
      /\ UNCHANGED <<closed, looped, worker, holding, connected, row>>
  BY DEF Submit, Releases, workerVars
<1>. HIDE DEF new
<1>3. /\ jobs' \in Seq(Job) /\ Len(jobs') = Len(jobs) + 1 /\ Len(jobs) \in Nat
      /\ jobs'[active'].future = "pending"
  BY <1>1, <1>2 DEF TypeOK
<1>4. Posted = {} /\ holding = 0 /\ \A c \in Callers : ~caller[c].late BY NoJob
<1>5. \/ LoopIsOpen /\ inbox' = Append(inbox, active') /\ Moved(k, "wait", active')
      \/ ~LoopIsOpen /\ inbox' = inbox /\ Moved(k, "idle", 0)
  <2>1. CASE LoopIsOpen
    <3>1. inbox' = Append(inbox, active') /\ caller' = [caller EXCEPT ![k].pc = "wait", ![k].job = active']
      BY <2>1 DEF Submit
    <3>2. active' \in Nat /\ ~At(k, "reply") BY <1>2, <1>3 DEF At
    <3>. QED BY <2>1, <3>1, <3>2, WaitMoves
  <2>2. CASE ~LoopIsOpen BY <2>2, ReturnsMoves DEF Submit
  <2>. QED BY <2>1, <2>2
<1>6. \E pc \in {"wait", "idle"}, job \in 0..Len(jobs') : Moved(k, pc, job) BY <1>2, <1>3, <1>5
<1>7. inbox = <<>>
  <2>1. \A i \in 1..Len(inbox) : inbox[i] # Shutdown BY DEF Ending
  <2>. QED BY <1>4, <2>1 DEF Posted, TypeOK
<1>8. active' \in 0..Len(jobs') BY <1>2, <1>3
<1>9. inbox' = <<>> \/ (LoopIsOpen /\ inbox' = <<active'>>) BY <1>5, <1>7
<1>10. TypeOK'
  <2>1. caller' \in [Callers -> Call] BY <1>6 DEF Moved
  <2>2. ASSUME NEW c \in Callers PROVE caller'[c].job <= Len(jobs')
    <3>1. caller[c].job \in Nat /\ caller[c].job <= Len(jobs) BY DEF TypeOK, Call
    <3>2. caller'[c].job = caller[c].job \/ caller'[c].job \in 0..Len(jobs') BY <1>6 DEF Moved
    <3>. QED BY <1>3, <3>1, <3>2
  <2>3. holding' \in 0..Len(jobs') /\ inbox' \in Seq(0..Len(jobs')) BY <1>2, <1>3, <1>4, <1>8, <1>9, PostedAlone
  <2>. QED BY <1>2, <1>3, <1>8, <2>1, <2>2, <2>3 DEF TypeOK
<1>11. OneJob' /\ InHand' /\ Unresolved'
  <2>1. \A i \in 1..Len(inbox') : inbox'[i] = active' /\ i = Len(inbox') BY <1>8, <1>9, PostedAlone
  <2>2. \A i \in Posted' : inbox'[i] = active' /\ i = Len(inbox') BY <2>1 DEF Posted
  <2>. QED BY <1>2, <1>3, <1>4, <2>2 DEF OneJob, InHand, Unresolved
<1>12. Inside'
  <2>1. \A c \in Callers : At(c, "ready")' => c # k /\ At(c, "ready") BY <1>6 DEF At, Moved
  <2>2. \A c \in Callers : At(c, "reply")' => c # k /\ At(c, "reply") BY <1>6 DEF At, Moved
  <2>3. \A c \in Callers : c # k => ~At(c, "ready") /\ ~At(c, "reply") BY ServiceAssumption DEF Inside
  <2>. QED BY <2>1, <2>2, <2>3 DEF Inside
<1>13. LateIsActive' BY <1>4, <1>6 DEF LateIsActive, Moved
<1>14. Ending' BY <1>2, <1>3, <1>9 DEF Ending, LoopIsOpen
<1>. QED BY <1>10, <1>11, <1>12, <1>13, <1>14

\* A thread that starts has its starter inside the lock.
LEMMA StartInvariant ==
  ASSUME IInv, NEW k \in Callers, Start(k) PROVE IInv'
<1>. USE DEF IInv
<1>1. /\ At(k, "admit") /\ lock \in {Nobody, k} /\ ~closed /\ active = 0 /\ lock' = k
      /\ worker = "none" /\ worker' = "starting" /\ Goes(k, "ready")
      /\ UNCHANGED <<active, jobs, closed, inbox, looped, holding, connected, row>>
  BY DEF Start, Admits, Acquires, Keeps, serviceVars
<1>2. Moved(k, "ready", caller[k].job) BY <1>1, GoesMoves DEF At
<1>3. TypeOK'
  <2>1. \A c \in Callers : caller'[c].job <= Len(jobs) BY <1>2 DEF Moved, TypeOK
  <2>. QED BY <1>1, <1>2, <2>1 DEF TypeOK, Moved, Thread
<1>4. OneJob' /\ InHand' /\ Unresolved' /\ Ending'
  BY <1>1 DEF OneJob, Posted, InHand, Unresolved, Ending
<1>5. Inside'
  <2>1. \A c \in Callers : (At(c, "ready") \/ At(c, "reply"))' => c = k \/ At(c, "ready") \/ At(c, "reply")
    BY <1>2 DEF At, Moved
  <2>2. \A c \in Callers : At(c, "ready") \/ At(c, "reply") => c = k BY <1>1, ServiceAssumption DEF Inside
  <2>. QED BY <1>1, <2>1, <2>2 DEF Inside
<1>6. LateIsActive' BY <1>1, <1>2 DEF LateIsActive, Moved, At, Joins
<1>. QED BY <1>3, <1>4, <1>5, <1>6

\* A closed service's last message is the shutdown.
LEMMA ShutInvariant ==
  ASSUME IInv, NEW k \in Callers, Shut(k) PROVE IInv'
<1>. USE DEF IInv
<1>1. /\ At(k, "close") /\ lock \in {Nobody, k} /\ lock' = lock /\ closed' = TRUE
      /\ UNCHANGED <<active, jobs, looped, worker, holding, connected>>
      /\ row' \in [Runs -> {"approved", "begun", "over"}]
      /\ \/ inbox' = inbox
         \/ ~closed /\ LoopIsOpen /\ inbox' = Append(inbox, Shutdown)
  BY DEF Shut, Acquires, workerVars, Withdrawn, TypeOK
<1>2. \E pc \in {"idle", "join"}, job \in 0..Len(jobs) : Moved(k, pc, job)
  <2>1. Goes(k, "join") \/ Returns(k) BY DEF Shut
  <2>2. caller[k].job \in 0..Len(jobs) /\ 0 \in 0..Len(jobs) BY DEF TypeOK, Call
  <2>3. CASE Goes(k, "join") BY <1>1, <2>2, <2>3, GoesMoves DEF At
  <2>4. CASE Returns(k) BY <2>2, <2>4, ReturnsMoves
  <2>. QED BY <2>1, <2>3, <2>4
<1>3. /\ inbox' \in Seq(0..Len(jobs))
      /\ \A i \in 1..Len(inbox') :
           \/ i \in 1..Len(inbox) /\ inbox'[i] = inbox[i] /\ (inbox' = inbox \/ ~closed)
           \/ i = Len(inbox') /\ ~closed /\ LoopIsOpen /\ inbox'[i] = Shutdown
  <2>1. inbox \in Seq(0..Len(jobs)) /\ Shutdown \in 0..Len(jobs) BY DEF TypeOK
  <2>2. CASE inbox' = inbox BY <2>1, <2>2
  <2>3. CASE ~closed /\ LoopIsOpen /\ inbox' = Append(inbox, Shutdown) BY <2>1, <2>3, Posting
  <2>. QED BY <1>1, <2>2, <2>3
<1>4. TypeOK'
  <2>1. \A c \in Callers : caller'[c].job <= Len(jobs) BY <1>2 DEF Moved, TypeOK
  <2>. QED BY <1>1, <1>2, <1>3, <2>1 DEF TypeOK, Moved
<1>5. OneJob' /\ InHand' /\ Unresolved'
  <2>1. \A i \in Posted' : i \in Posted /\ inbox'[i] = inbox[i] BY <1>3 DEF Posted
  <2>. QED BY <1>1, <2>1 DEF OneJob, InHand, Unresolved
<1>6. Inside'
  <2>1. \A c \in Callers : /\ At(c, "ready")' => c # k /\ At(c, "ready")
                           /\ At(c, "reply")' => c # k /\ At(c, "reply")
    BY <1>2 DEF At, Moved
  <2>2. \A c \in Callers : c # k => ~At(c, "ready") BY <1>1, ServiceAssumption DEF Inside
  <2>. QED BY <1>1, <2>1, <2>2 DEF Inside
<1>7. LateIsActive' BY <1>1, <1>2 DEF LateIsActive, Moved, At, Joins
<1>8. Ending' BY <1>1, <1>3 DEF Ending, LoopIsOpen, TypeOK
<1>. QED BY <1>4, <1>5, <1>6, <1>7, <1>8
-----------------------------------------------------------------------------
\* The worker's steps.  Those that only move it, from or to no job:
LEMMA WorkerMoves ==
  ASSUME IInv, worker' \in Thread, looped' \in BOOLEAN, connected' \in BOOLEAN,
         UNCHANGED <<lock, caller, serviceVars, inbox, holding, row>>,
         worker \in {"run", "work", "publish"} <=> worker' \in {"run", "work", "publish"},
         worker' \in {"leave", "ended"} => worker = "leave",
         worker' \notin {"unlooped", "failed"}
  PROVE IInv'
<1>. USE DEF IInv, serviceVars
<1>1. TypeOK' BY DEF TypeOK
<1>2. OneJob' /\ InHand' /\ Unresolved' BY DEF OneJob, Posted, InHand, Unresolved
<1>3. Inside' /\ LateIsActive' BY DEF Inside, LateIsActive, At, Joins
<1>4. Ending' BY DEF Ending
<1>. QED BY <1>1, <1>2, <1>3, <1>4

LEMMA MovesInvariant ==
  ASSUME IInv, LoopMade \/ IdleTimeout \/ Released \/ Decline \/ Left PROVE IInv'
<1>1. connected \in BOOLEAN /\ looped \in BOOLEAN BY DEF IInv, TypeOK
<1>2. CASE LoopMade BY <1>1, <1>2, WorkerMoves DEF LoopMade, Moves, Thread
<1>3. CASE IdleTimeout BY <1>1, <1>3, WorkerMoves DEF IdleTimeout, Moves, Thread
<1>4. CASE Released BY <1>1, <1>4, WorkerMoves DEF Released, Moves, Thread
<1>5. CASE Decline BY <1>1, <1>5, WorkerMoves DEF Decline, Moves, Thread
<1>6. CASE Left BY <1>1, <1>6, WorkerMoves DEF Left, Moves, Thread
<1>. QED BY <1>2, <1>3, <1>4, <1>5, <1>6

\* A write marks the callers that have read the row: its run is the active one.
LEMMA WriteInvariant ==
  ASSUME IInv, Begin \/ Work PROVE IInv'
<1>. USE DEF IInv, serviceVars
<1>1. /\ UNCHANGED <<lock, active, jobs, closed, inbox, looped, holding>>
      /\ worker \in {"run", "work"} /\ worker' \in {"work", "publish"} /\ connected' \in BOOLEAN
      /\ \/ UNCHANGED <<row, caller>>
         \/ \E state \in {"begun", "over"} : Writes(state)
  BY DEF Begin, Work, Moves, TypeOK
<1>2. holding # 0 /\ holding = active /\ holding \in 1..Len(jobs)
  BY <1>1 DEF InHand, OneJob, TypeOK
<1>3. /\ row' \in [Runs -> {"approved", "begun", "over"}]
      /\ caller' \in [Callers -> Call]
      /\ \A c \in Callers : /\ caller'[c].pc = caller[c].pc /\ caller'[c].job = caller[c].job
                            /\ caller'[c].run = caller[c].run
                            /\ caller'[c].late => caller[c].late \/ (At(c, "reply") /\ Joins(c))
  <2>1. CASE UNCHANGED <<row, caller>> BY <2>1 DEF TypeOK
  <2>2. ASSUME NEW state \in {"begun", "over"}, Writes(state)
        PROVE <1>3!1 /\ <1>3!2 /\ <1>3!3
    <3>1. row' \in [Runs -> {"approved", "begun", "over"}] BY <2>2 DEF Writes, TypeOK
    <3>2. ASSUME NEW c \in Callers
          PROVE /\ caller'[c] \in Call
                /\ caller'[c].pc = caller[c].pc /\ caller'[c].job = caller[c].job
                /\ caller'[c].run = caller[c].run
                /\ caller'[c].late => caller[c].late \/ (At(c, "reply") /\ Joins(c))
      <4>1. caller[c] \in Call BY DEF TypeOK
      <4>2. CASE At(c, "reply") /\ caller[c].run = Current
        <5>1. caller'[c] = [caller[c] EXCEPT !.late = TRUE] BY <2>2, <4>2 DEF Writes
        <5>2. Joins(c) BY <1>2, <4>2 DEF Joins, Current
        <5>. QED BY <4>1, <4>2, <5>1, <5>2 DEF Call
      <4>3. CASE ~(At(c, "reply") /\ caller[c].run = Current)
        BY <2>2, <4>1, <4>3 DEF Writes
      <4>. QED BY <4>2, <4>3
    <3>3. caller' = [c \in Callers |-> caller'[c]] BY <2>2 DEF Writes
    <3>. QED BY <3>1, <3>2, <3>3
  <2>. QED BY <1>1, <2>1, <2>2
<1>4. TypeOK' BY <1>1, <1>3 DEF TypeOK, Thread
<1>5. OneJob' /\ InHand' /\ Unresolved' BY <1>1, <1>2 DEF OneJob, Posted, InHand, Unresolved
<1>6. Inside' BY <1>1, <1>3 DEF Inside, At
<1>7. LateIsActive' BY <1>1, <1>3 DEF LateIsActive, At, Joins
<1>8. Ending' BY <1>1 DEF Ending
<1>. QED BY <1>4, <1>5, <1>6, <1>7, <1>8

\* The rest of a queue.
LEMMA Taking ==
  ASSUME NEW S, NEW q \in Seq(S), q # <<>>, NEW q2, q2 = Tail(q)
  PROVE /\ Head(q) = q[1] /\ 1 \in 1..Len(q) /\ q[1] \in S
        /\ q2 \in Seq(S) /\ Len(q2) = Len(q) - 1 /\ (Len(q) = 1 => q2 = <<>>)
        /\ \A i \in 1..Len(q2) : i + 1 \in 1..Len(q) /\ q2[i] = q[i + 1]
<1>1. Len(q) \in Nat \ {0} BY EmptySeq
<1>2. q2 \in Seq(S) /\ Len(q2) = Len(q) - 1 /\ \A i \in 1..Len(q2) : q2[i] = q[i + 1]
  BY HeadTailProperties
<1>3. Len(q2) \in Nat BY <1>2, LenProperties
<1>4. 1 \in 1..Len(q) /\ \A i \in 1..Len(q2) : i + 1 \in 1..Len(q) BY <1>1, <1>2, <1>3
<1>5. q[1] \in S BY <1>4, ElementOfSeq
<1>6. Len(q) = 1 => q2 = <<>> BY <1>2, EmptySeq
<1>7. Head(q) = q[1] BY SMT
<1>. QED BY <1>2, <1>4, <1>5, <1>6, <1>7

\* The worker takes the one job that is posted, or the shutdown behind it.
LEMMA TakeInvariant ==
  ASSUME IInv, Take PROVE IInv'
<1>. USE DEF IInv, serviceVars
<1>1. /\ UNCHANGED <<lock, caller, active, jobs, closed, looped, connected, row>>
      /\ inbox # <<>> /\ inbox' = Tail(inbox) /\ holding' = Head(inbox)
      /\ worker = "get" /\ worker' = IF Head(inbox) = Shutdown THEN "leave" ELSE "run"
  BY DEF Take, Moves
<1>2. /\ Head(inbox) = inbox[1] /\ 1 \in 1..Len(inbox) /\ inbox[1] \in 0..Len(jobs)
      /\ inbox' \in Seq(0..Len(jobs)) /\ Len(inbox') = Len(inbox) - 1
      /\ Len(inbox) = 1 => inbox' = <<>>
      /\ \A i \in 1..Len(inbox') : i + 1 \in 1..Len(inbox) /\ inbox'[i] = inbox[i + 1]
  <2>1. inbox \in Seq(0..Len(jobs)) BY DEF TypeOK
  <2>. QED BY <1>1, <2>1, Taking
<1>3. holding = 0 BY <1>1 DEF InHand
<1>4. TypeOK' BY <1>1, <1>2 DEF TypeOK, Thread
<1>5. Posted' = {} /\ (holding' # 0 => holding' = active)
  <2>1. CASE Head(inbox) = Shutdown
    <3>1. inbox' = <<>> BY <1>2, <2>1 DEF Ending
    <3>. QED BY <1>1, <2>1, <3>1 DEF Posted
  <2>2. CASE Head(inbox) # Shutdown
    <3>1. 1 \in Posted BY <1>2, <2>2 DEF Posted
    <3>2. ASSUME NEW i \in Posted' PROVE FALSE
      <4>1. i \in 1..Len(inbox') /\ inbox'[i] # Shutdown BY DEF Posted
      <4>2. i + 1 \in Posted /\ i + 1 # 1 BY <1>2, <4>1 DEF Posted
      <4>. QED BY <3>1, <4>2 DEF OneJob
    <3>. QED BY <1>1, <1>2, <3>1, <3>2 DEF OneJob
  <2>. QED BY <2>1, <2>2
<1>6. OneJob' /\ InHand' /\ Unresolved' BY <1>1, <1>5 DEF OneJob, InHand, Unresolved
<1>7. Inside' /\ LateIsActive' BY <1>1 DEF Inside, LateIsActive, At, Joins
<1>8. Ending'
  <2>1. \A i \in 1..Len(inbox') : inbox'[i] = Shutdown => closed /\ i = Len(inbox')
    BY <1>2 DEF Ending
  <2>2. Head(inbox) = Shutdown => closed /\ inbox' = <<>> BY <1>2 DEF Ending
  <2>. QED BY <1>1, <2>1, <2>2 DEF Ending
<1>. QED BY <1>4, <1>6, <1>7, <1>8

\* A result changes one future, and nothing else about the jobs.
LEMMA Resolving ==
  ASSUME TypeOK, NEW j \in 1..Len(jobs), NEW outcome \in {"result", "error"}, Resolves(j, outcome)
  PROVE /\ jobs' \in Seq(Job) /\ Len(jobs') = Len(jobs)
        /\ \A i \in 1..Len(jobs) : i # j => jobs'[i] = jobs[i]
<1> DEFINE new == [jobs[j] EXCEPT !.future = outcome]
<1>1. jobs \in Seq(Job) BY DEF TypeOK
<1>2. jobs[j] \in Job BY <1>1, ElementOfSeq
<1>3. new \in Job BY <1>2 DEF Job
<1>4. jobs' = [jobs EXCEPT ![j] = new] BY DEF Resolves
<1>. HIDE DEF new
<1>. QED BY <1>1, <1>3, <1>4, ExceptSeq

\* No job is active any more, and nobody is inside the lock.
LEMMA ResolveInvariant ==
  ASSUME IInv, Publish \/ Die PROVE IInv'
<1>. USE DEF IInv
<1>1. /\ lock = Nobody /\ active' = 0 /\ holding' = 0
      /\ UNCHANGED <<lock, caller, closed, inbox, looped, connected, row>>
      /\ worker \in {"publish", "unlooped"} /\ worker' \in {"get", "failed"}
      /\ worker = "unlooped" => worker' = "failed"
      /\ worker' = "failed" => worker = "unlooped"
  BY DEF Publish, Die, Moves, InHand
<1>2. jobs' \in Seq(Job) /\ Len(jobs') = Len(jobs)
  <2>1. CASE Publish
    <3>1. holding \in 1..Len(jobs) BY <2>1 DEF Publish, Moves, InHand, TypeOK
    <3>. QED BY <2>1, <3>1, Resolving DEF Publish
  <2>2. CASE Die
    <3>1. active # 0 => active \in 1..Len(jobs) BY DEF TypeOK
    <3>2. CASE active # 0 BY <2>2, <3>1, <3>2, Resolving DEF Die
    <3>3. CASE active = 0 BY <2>2, <3>3 DEF Die, TypeOK
    <3>. QED BY <3>2, <3>3
  <2>. QED BY <2>1, <2>2
<1>3. \A c \in Callers : ~At(c, "ready") /\ ~At(c, "reply") BY <1>1, ServiceAssumption DEF Inside
<1>4. Posted' = {}
  <2>1. Posted = {} \/ inbox = <<>>
    BY <1>1 DEF OneJob, InHand, Ending
  <2>. QED BY <1>1, <2>1 DEF Posted
<1>5. TypeOK'
  <2>1. holding' \in 0..Len(jobs') /\ active' \in 0..Len(jobs') BY <1>1, <1>2 DEF TypeOK
  <2>. QED BY <1>1, <1>2, <2>1 DEF TypeOK, Thread
<1>6. OneJob' /\ InHand' /\ Unresolved' BY <1>1, <1>4 DEF OneJob, InHand, Unresolved
<1>7. Inside' /\ LateIsActive' BY <1>1, <1>3 DEF Inside, LateIsActive, At
<1>8. Ending' BY <1>1 DEF Ending
<1>. QED BY <1>5, <1>6, <1>7, <1>8

\* A thread that fails drops its job, and its loop drops what was posted.
LEMMA FailInvariant ==
  ASSUME IInv, Raise \/ LoopCloses PROVE IInv'
<1>. USE DEF IInv, serviceVars
<1>1. /\ UNCHANGED <<lock, caller, active, jobs, closed, looped, row>>
      /\ connected' \in BOOLEAN /\ holding' = 0 /\ worker' \in {"failing", "unlooped"}
      /\ inbox' = inbox \/ inbox' = <<>>
      /\ worker' = "unlooped" => inbox' = <<>>
  BY DEF Raise, LoopCloses, Moves, TypeOK, InHand
<1>2. inbox' \in Seq(0..Len(jobs)) /\ \A i \in 1..Len(inbox') : inbox' = inbox
  <2>1. inbox \in Seq(0..Len(jobs)) BY DEF TypeOK
  <2>2. CASE inbox' = inbox BY <2>1, <2>2
  <2>3. CASE inbox' = <<>> BY <2>3, EmptySeq
  <2>. QED BY <1>1, <2>2, <2>3
<1>3. TypeOK'
  <2>1. 0 \in 0..Len(jobs) BY DEF TypeOK
  <2>. QED BY <1>1, <1>2, <2>1 DEF TypeOK, Thread
<1>4. OneJob'
  <2>1. \A i \in Posted' : i \in Posted /\ inbox'[i] = inbox[i] BY <1>1, <1>2 DEF Posted
  <2>. QED BY <1>1, <2>1 DEF OneJob
<1>5. InHand' /\ Unresolved' BY <1>1 DEF InHand, Unresolved
<1>6. Inside' /\ LateIsActive' BY <1>1 DEF Inside, LateIsActive, At, Joins
<1>7. Ending' BY <1>1, <1>2 DEF Ending
<1>. QED BY <1>3, <1>4, <1>5, <1>6, <1>7

LEMMA ElsewhereInvariant ==
  ASSUME IInv, NEW r \in Runs, Elsewhere(r) PROVE IInv'
<1>. USE DEF IInv, serviceVars, workerVars
<1>1. TypeOK' BY DEF Elsewhere, TypeOK
<1>2. OneJob' /\ InHand' /\ Unresolved' BY DEF Elsewhere, OneJob, Posted, InHand, Unresolved
<1>3. Inside' /\ LateIsActive' BY DEF Elsewhere, Inside, LateIsActive, At, Joins
<1>4. Ending' BY DEF Elsewhere, Ending
<1>. QED BY <1>1, <1>2, <1>3, <1>4

LEMMA WorkerInvariant ==
  ASSUME IInv, WorkerStep PROVE IInv'
BY MovesInvariant, WriteInvariant, TakeInvariant, ResolveInvariant, FailInvariant DEF WorkerStep
-----------------------------------------------------------------------------
\* The callers' steps.
LEMMA ArrivalInvariant ==
  ASSUME IInv, NEW k \in Callers, Arrival(k) PROVE IInv'
<1>. USE DEF IInv
<1>1. \E r \in Runs, reconcile \in BOOLEAN, pc \in {"admit", "peek", "close", "status"} :
        Asks(k, r, reconcile, pc)
  BY IdleType DEF Arrival, Close, Execute, Status, Cancel
<1>2. row' \in [Runs -> {"approved", "begun", "over"}]
  BY DEF Arrival, Close, Execute, Status, Cancel, Withdrawn, TypeOK
<1>3. PICK pc \in {"admit", "peek", "close", "status"} : Moved(k, pc, 0) BY <1>1, AsksMoves
<1>4. UNCHANGED <<lock, serviceVars, inbox, looped, worker, holding, connected>>
  BY <1>1 DEF Asks, workerVars
<1>5. 0 \in 0..Len(jobs) BY DEF TypeOK
<1>. QED BY <1>2, <1>3, <1>4, <1>5, MoveKeeps

\* A caller that starts, submits or shuts changes the service; any other step
\* only moves it, out of the lock or into "reply" with the lock in hand.
LEMMA MoveStep ==
  ASSUME IInv, NEW k \in Callers,
         \/ Refuse(k) \/ Join(k) \/ Settled(k) \/ StartFails(k) \/ Peek(k)
         \/ Waited(k) \/ ReadRow(k) \/ Reply(k) \/ Joined(k)
  PROVE IInv'
<1>. USE DEF IInv
<1>1. UNCHANGED <<serviceVars, inbox, looped, worker, holding, connected, row>>
  BY DEF Refuse, Join, Settled, StartFails, Peek, Waited, ReadRow, Reply, Joined, workerVars
<1>2. row' \in [Runs -> {"approved", "begun", "over"}] BY <1>1 DEF TypeOK
<1>3. 0 \in 0..Len(jobs) /\ active \in 0..Len(jobs) /\ caller[k].job \in 0..Len(jobs) /\ active \in Nat
  BY DEF TypeOK, Call
<1>4. ASSUME Join(k) \/ Peek(k) \/ Waited(k) \/ Settled(k) \/ Refuse(k) \/ StartFails(k)
             \/ Reply(k) \/ Joined(k)
      PROVE /\ \E pc \in {"idle", "wait", "status"}, job \in 0..Len(jobs) : Moved(k, pc, job)
            /\ \/ lock' = lock
               \/ lock \in {Nobody, k} /\ lock' \in {Nobody, k}
  <2>1. \/ Returns(k) \/ Inspects(k)
        \/ ~At(k, "reply") /\ caller' = [caller EXCEPT ![k].pc = "wait", ![k].job = active]
    BY <1>4 DEF Join, Peek, Waited, Settled, Refuse, StartFails, Reply, Joined, At
  <2>2. \E pc \in {"idle", "wait", "status"}, job \in 0..Len(jobs) : Moved(k, pc, job)
    BY <1>3, <2>1, ReturnsMoves, InspectsMoves, WaitMoves
  <2>3. lock' = lock \/ (lock \in {Nobody, k} /\ lock' \in {Nobody, k})
    BY <1>4 DEF Join, Peek, Waited, Settled, Refuse, StartFails, Reply, Joined,
                Acquires, Releases, Keeps, Inside
  <2>. QED BY <2>2, <2>3
<1>5. CASE ReadRow(k)
  <2>1. Moved(k, "reply", caller[k].job) BY <1>5, GoesMoves DEF ReadRow, At
  <2>2. lock \in {Nobody, k} /\ lock' = k BY <1>5 DEF ReadRow, Acquires, Keeps
  <2>. QED BY <1>1, <1>2, <1>3, <2>1, <2>2, MoveKeeps
<1>6. CASE ~ReadRow(k)
  <2>1. PICK pc \in {"idle", "wait", "status"}, job \in 0..Len(jobs) : Moved(k, pc, job)
    BY <1>4, <1>6
  <2>2. lock' = lock \/ (lock \in {Nobody, k} /\ lock' \in {Nobody, k}) BY <1>4, <1>6
  <2>. QED BY <1>1, <1>2, <2>1, <2>2, MoveKeeps
<1>. QED BY <1>5, <1>6

LEMMA StepInvariant ==
  ASSUME IInv, NEW k \in Callers, Step(k) PROVE IInv'
<1>1. CASE Admit(k) BY <1>1, SubmitInvariant DEF Admit, Admits, Acquires
<1>2. CASE Started(k)
  <2>1. lock = k /\ ~closed /\ active = 0 /\ At(k, "ready") BY <1>2 DEF Started, IInv, Inside
  <2>. QED BY <1>2, <2>1, SubmitInvariant DEF Started
<1>. QED BY <1>1, <1>2, StartInvariant, ShutInvariant, MoveStep DEF Step

LEMMA NextInvariant == IInv /\ [Next]_vars => IInv'
<1> SUFFICES ASSUME IInv, [Next]_vars PROVE IInv' OBVIOUS
<1>1. CASE UNCHANGED vars
  <2>1. UNCHANGED <<lock, caller, active, jobs, closed, inbox, looped, worker, holding, connected, row>>
    BY <1>1 DEF vars, serviceVars, workerVars
  <2>. QED BY <2>1 DEF IInv, TypeOK, OneJob, Posted, Inside, InHand, Unresolved, LateIsActive,
                       Ending, At, Joins
<1>. QED BY <1>1, ArrivalInvariant, StepInvariant, WorkerInvariant, ElsewhereInvariant DEF Next

LEMMA Invariant == Spec => []IInv
<1>. QED BY InitInvariant, NextInvariant, PTL DEF Spec

\* The state of a service has its type.
THEOREM TypeCorrect == Spec => []TypeOK
<1>1. IInv => TypeOK BY DEF IInv
<1>. QED BY <1>1, Invariant, PTL

\* There is one job, the active one, wherever it is (service.py:83-97): the
\* queue of one is never full, and the worker does not run a job that the lock
\* does not know of.
THEOREM OneJobAtATime == Spec => []OneJob
<1>1. IInv => OneJob BY DEF IInv
<1>. QED BY <1>1, Invariant, PTL

\* A job has one result (service.py:23-29, 38-47): neither the worker nor the
\* handler of its death answers a job that has been answered.
THEOREM OneResult == Spec => ResolvedOnce
<1>1. ASSUME IInv, [Next]_vars,
             NEW j \in 1..Len(jobs), jobs[j].future # "pending"
      PROVE jobs'[j].future = jobs[j].future
  <2>. USE <1>1
  <2>1. CASE jobs' = jobs BY <2>1
  <2>2. ASSUME NEW k \in Callers, Submit(k) PROVE jobs'[j].future = jobs[j].future
    <3>1. \E x : jobs' = Append(jobs, x) /\ x \in Job
      BY <2>2 DEF Submit, IInv, TypeOK, Call, Job
    <3>. QED BY <3>1, AppendProperties DEF IInv, TypeOK
  <2>3. CASE Publish
    <3>1. holding \in 1..Len(jobs) /\ holding = active /\ active # 0
      BY <2>3 DEF Publish, Moves, IInv, InHand, OneJob, TypeOK
    <3>2. jobs[holding].future = "pending" BY <3>1 DEF IInv, Unresolved
    <3>3. jobs'[j] = jobs[j] BY <2>3, <3>1, <3>2, Resolving DEF Publish, IInv
    <3>. QED BY <3>3
  <2>4. CASE Die
    <3>1. CASE active = 0 BY <2>4, <3>1 DEF Die
    <3>2. CASE active # 0
      <4>1. active \in 1..Len(jobs) /\ jobs[active].future = "pending"
        BY <3>2 DEF IInv, TypeOK, Unresolved
      <4>2. jobs'[j] = jobs[j] BY <2>4, <3>2, <4>1, Resolving DEF Die, IInv
      <4>. QED BY <4>2
    <3>. QED BY <3>1, <3>2
  <2>5. CASE UNCHANGED vars BY <2>5, <2>1 DEF vars, serviceVars
  <2>6. ASSUME NEW k \in Callers, Arrival(k) PROVE jobs' = jobs
    BY <2>6 DEF Arrival, Close, Execute, Status, Cancel, Asks, serviceVars
  <2>7. ASSUME NEW k \in Callers, Step(k) PROVE jobs' = jobs \/ Submit(k)
    BY <2>7 DEF Step, Refuse, Join, Settled, Admit, Start, Started, StartFails, Peek, Waited,
                ReadRow, Reply, Shut, Joined, serviceVars
  <2>8. ASSUME WorkerStep PROVE jobs' = jobs \/ Publish \/ Die
    BY <2>8 DEF WorkerStep, LoopMade, Take, IdleTimeout, Released, Begin, Decline, Work,
                Left, Raise, LoopCloses, serviceVars
  <2>9. ASSUME NEW r \in Runs, Elsewhere(r) PROVE jobs' = jobs BY <2>9 DEF Elsewhere, serviceVars
  <2>. QED BY <2>1, <2>2, <2>3, <2>4, <2>5, <2>6, <2>7, <2>8, <2>9 DEF Next
<1>2. IInv /\ [Next]_vars =>
        [\A j \in 1..Len(jobs) :
           jobs[j].future # "pending" => jobs'[j].future = jobs[j].future]_vars
  BY <1>1
<1>. QED BY <1>2, Invariant, PTL DEF Spec, ResolvedOnce

\* A status that says a run is not active shows the last row the worker wrote
\* (service.py:66-77): both are read inside one critical section.
THEOREM CoherentStatus == Spec => StatusIsCoherent
<1>1. IInv => \A k \in Callers : caller[k].late => Joins(k) BY DEF IInv, LateIsActive
<1>2. IInv /\ [Next]_vars =>
        [\A k \in Callers : (At(k, "reply") /\ caller'[k].pc # "reply" /\ ~Joins(k))
                              => ~caller[k].late]_vars
  BY <1>1
<1>. QED BY <1>2, Invariant, PTL DEF Spec, StatusIsCoherent
-----------------------------------------------------------------------------
LEMMA TimelyInit == Init => Timely
BY DEF Init, Timely, ActiveIsSettling

\* With a thread that starts in time, a job is only posted to a worker that
\* will take it or say that it cannot.
LEMMA SubmitTimely ==
  ASSUME IInv, Timely, NEW k \in Callers, lock \in {Nobody, k}, Alive,
         At(k, "admit") \/ (At(k, "ready") /\ looped), Submit(k)
  PROVE Timely'
<1>. USE DEF IInv
<1>1. worker # "starting"
  <2> SUFFICES ASSUME worker = "starting" PROVE FALSE OBVIOUS
  <2>1. PICK c \in Callers : At(c, "ready") /\ ~looped BY DEF Timely
  <2>2. lock = c BY <2>1 DEF Inside
  <2>. QED BY <2>1, <2>2, ServiceAssumption DEF At
<1>2. worker' = worker /\ looped' = looped BY DEF Submit, workerVars
<1>3. CASE worker \in {"failing", "unlooped"} BY <1>2, <1>3 DEF Timely, ActiveIsSettling
<1>4. CASE worker \notin {"failing", "unlooped"}
  <2>1. worker \in {"get", "release", "run", "work", "publish", "leave"}
    BY <1>1, <1>4 DEF Alive, TypeOK, Thread
  <2>2. LoopIsOpen BY <2>1 DEF Timely, LoopIsOpen
  <2>3. inbox' = Append(inbox, active') /\ active' = Len(jobs') BY <2>2 DEF Submit
  <2>4. inbox \in Seq(Nat) /\ active' \in Nat
    <3>1. \E x \in Job : jobs' = Append(jobs, x) BY DEF Submit, TypeOK, Call, Job
    <3>2. Len(jobs') \in Nat BY <3>1, AppendProperties, LenProperties DEF TypeOK
    <3>3. 0..Len(jobs) \subseteq Nat BY DEF TypeOK
    <3>. QED BY <2>3, <3>2, <3>3 DEF TypeOK
  <2>5. Len(inbox') \in 1..Len(inbox') /\ inbox'[Len(inbox')] = active'
    BY <2>3, <2>4, AppendProperties, LenProperties
  <2>6. active' # 0 => Len(inbox') \in Posted' BY <2>5 DEF Posted
  <2>. QED BY <1>2, <2>1, <2>5, <2>6 DEF Timely, ActiveIsSettling
<1>. QED BY <1>3, <1>4

LEMMA StepTimely ==
  ASSUME StartInTime, IInv, Timely, NEW k \in Callers, Arrival(k) \/ Step(k)
  PROVE Timely'
<1>. USE DEF IInv
<1>1. CASE Admit(k) BY <1>1, SubmitTimely DEF Admit, Admits, Acquires
<1>2. CASE Started(k)
  <2>1. lock = k BY <1>2 DEF Started, Inside
  <2>. QED BY <1>2, <2>1, SubmitTimely DEF Started
<1>3. CASE Start(k)
  <2>1. worker = "none" /\ worker' = "starting" /\ active = 0 /\ active' = 0 /\ Goes(k, "ready")
        /\ looped' = looped
    BY <1>3 DEF Start, Admits, serviceVars
  <2>2. At(k, "ready")' BY <1>3, GoesMoves DEF Start, Admits, At, Moved
  <2>3. ~looped BY <2>1 DEF Timely
  <2>. QED BY <2>1, <2>2, <2>3 DEF Timely, ActiveIsSettling
<1>4. CASE Shut(k)
  <2>1. UNCHANGED <<active, looped, worker, holding>> BY <1>4 DEF Shut, workerVars
  <2>2. inbox \in Seq(0..Len(jobs)) /\ Shutdown \in 0..Len(jobs) BY DEF TypeOK
  <2>3. inbox' = inbox \/ inbox' = Append(inbox, Shutdown) BY <1>4 DEF Shut
  <2>4. \A i \in 1..Len(inbox) : i \in 1..Len(inbox') /\ inbox'[i] = inbox[i]
    <3>1. CASE inbox' = inbox BY <3>1
    <3>2. CASE inbox' = Append(inbox, Shutdown) BY <2>2, <3>2, AppendProperties, LenProperties
    <3>. QED BY <2>3, <3>1, <3>2
  <2>5. \A i \in Posted : i \in Posted' /\ inbox'[i] = inbox[i] BY <2>4 DEF Posted
  <2>6. \A c \in Callers : At(c, "ready") => At(c, "ready")'
    <3>1. Goes(k, "join") \/ Returns(k) BY <1>4 DEF Shut
    <3>2. \A c \in Callers : c # k => caller'[c] = caller[c]
      BY <1>4, <3>1, GoesMoves, ReturnsMoves DEF Shut, At, Moved
    <3>. QED BY <1>4, <3>2 DEF Shut, At
  <2>. QED BY <2>1, <2>5, <2>6 DEF Timely, ActiveIsSettling
<1>5. ASSUME ~Admit(k), ~Started(k), ~Start(k), ~Shut(k) PROVE Timely'
  <2>1. UNCHANGED <<active, inbox, looped, worker, holding>>
    BY <1>5 DEF Arrival, Close, Execute, Status, Cancel, Asks, Step, Refuse, Join, Settled,
                StartFails, Peek, Waited, ReadRow, Reply, Joined, serviceVars, workerVars
  <2>2. worker = "starting" => ~At(k, "ready")
    BY <1>5 DEF Arrival, Close, Execute, Status, Cancel, Asks, Step, Refuse, Join, Settled,
                StartFails, Peek, Waited, ReadRow, Reply, Joined, At
  <2>3. \A c \in Callers : c # k => caller'[c] = caller[c]
    BY <1>5 DEF Arrival, Close, Execute, Status, Cancel, Asks, Step, Refuse, Join, Settled,
                StartFails, Peek, Waited, ReadRow, Reply, Joined, Returns, Inspects, Goes, TypeOK
  <2>4. worker = "starting" => \E c \in Callers : At(c, "ready")'
    BY <2>2, <2>3 DEF Timely, At
  <2>. QED BY <2>1, <2>4 DEF Timely, ActiveIsSettling, Posted
<1>. QED BY <1>1, <1>2, <1>3, <1>4, <1>5

LEMMA WorkerTimely ==
  ASSUME IInv, Timely, WorkerStep PROVE Timely'
<1>. USE DEF IInv, serviceVars
<1>1. CASE Take
  <2>1. inbox \in Seq(0..Len(jobs)) /\ inbox # <<>> BY <1>1 DEF Take, TypeOK
  <2>2. worker = "get" /\ worker' \in {"leave", "run"} /\ looped' = looped /\ active' = active
        /\ holding' = Head(inbox) /\ holding = 0
    BY <1>1 DEF Take, Moves, InHand
  <2>3. Head(inbox) = inbox[1] /\ 1 \in 1..Len(inbox) BY <2>1, Taking
  <2>4. active # 0 => active = Head(inbox)
    <3> SUFFICES ASSUME active # 0 PROVE active = Head(inbox) OBVIOUS
    <3>1. PICK i \in Posted : inbox[i] = active BY <2>2 DEF Timely, ActiveIsSettling
    <3>2. i \in 1..Len(inbox) /\ inbox[i] # Shutdown BY DEF Posted
    <3>3. inbox[1] # Shutdown
      <4> SUFFICES ASSUME inbox[1] = Shutdown PROVE FALSE OBVIOUS
      <4>1. Len(inbox) = 1 BY <2>3 DEF Ending
      <4>. QED BY <3>2, <4>1
    <3>4. 1 \in Posted BY <2>3, <3>3 DEF Posted
    <3>. QED BY <2>3, <3>4 DEF OneJob
  <2>. QED BY <2>2, <2>4 DEF Timely, ActiveIsSettling
<1>2. CASE Publish \/ Die
  BY <1>2 DEF Publish, Die, Moves, Timely, ActiveIsSettling
<1>3. CASE Raise \/ LoopCloses
  BY <1>3 DEF Raise, LoopCloses, Moves, Timely, ActiveIsSettling
<1>4. CASE LoopMade \/ IdleTimeout \/ Released \/ Begin \/ Decline \/ Work \/ Left
  <2>1. /\ UNCHANGED <<active, inbox, holding>>
        /\ looped' = looped \/ looped'
        /\ worker' \in {"get", "release", "work", "publish", "ended"}
        /\ worker' # "ended" => looped'
        /\ worker \notin {"failing", "unlooped"}
    BY <1>4 DEF LoopMade, IdleTimeout, Released, Begin, Decline, Work, Left, Moves, Timely
  <2>. QED BY <2>1 DEF Timely, ActiveIsSettling, Posted
<1>. QED BY <1>1, <1>2, <1>3, <1>4 DEF WorkerStep

LEMMA NextTimely == StartInTime /\ IInv /\ Timely /\ [Next]_vars => Timely'
<1> SUFFICES ASSUME StartInTime, IInv, Timely, [Next]_vars PROVE Timely' OBVIOUS
<1>1. CASE UNCHANGED vars
  BY <1>1 DEF vars, serviceVars, workerVars, Timely, ActiveIsSettling, Posted, At
<1>2. ASSUME NEW r \in Runs, Elsewhere(r) PROVE Timely'
  BY <1>2 DEF Elsewhere, serviceVars, workerVars, Timely, ActiveIsSettling, Posted, At
<1>. QED BY <1>1, <1>2, StepTimely, WorkerTimely DEF Next

\* If the thread is up within the 5 s of _start (service.py:53), "active" means
\* that this process is still settling the job, as docs/WORKFLOW_EXECUTION.md:68
\* says it does.
THEOREM ActiveSettles == StartInTime => (Spec => []ActiveIsSettling)
<1> SUFFICES ASSUME StartInTime PROVE Spec => []ActiveIsSettling OBVIOUS
<1>1. IInv /\ Timely /\ [Next]_vars => Timely' BY NextTimely
<1>2. Timely => ActiveIsSettling BY DEF Timely
<1>. QED BY <1>1, <1>2, TimelyInit, Invariant, PTL DEF Spec

\* The state properties together, and the two about answers: what the run checks.
THEOREM SoundService == StartInTime => (Spec => []ServiceIsSound)
<1> SUFFICES ASSUME StartInTime PROVE Spec => []ServiceIsSound OBVIOUS
<1>1. TypeOK /\ OneJob /\ ActiveIsSettling => ServiceIsSound BY DEF ServiceIsSound
<1>2. Spec => []ActiveIsSettling BY ActiveSettles
<1>. QED BY <1>1, <1>2, TypeCorrect, OneJobAtATime, PTL

THEOREM SoundAnswers == Spec => AnswersAreSound
BY OneResult, CoherentStatus DEF AnswersAreSound
=============================================================================
