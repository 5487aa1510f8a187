--------------------------- MODULE SerialExecutor ---------------------------
(***************************************************************************)
(* The one owner of the shared browser (server/compact/executor.mjs): a    *)
(* bounded queue of tool calls, of which one runs at a time and keeps the  *)
(* browser until its last browser operation has settled.                   *)
(*                                                                         *)
(* Not modelled: close(), which the service calls after it has aborted     *)
(* every session, when no call is left in the queue.                       *)
(***************************************************************************)
EXTENDS Naturals, FiniteSets

CONSTANTS Calls,     \* the requests in progress at the HTTP server (16 in the code)
          NoCall,
          Limit      \* queued calls (8 in the code)

ASSUME ExecutorAssumption ==
  IsFiniteSet(Calls) /\ NoCall \notin Calls /\ Limit \in Nat \ {0}

VARIABLES place,     \* place[c]: the place of c in the queue, 1 is the oldest; 0: none
          running    \* the call that owns the browser, or NoCall

executorVars == <<place, running>>

Queued == {c \in Calls : place[c] # 0}

ExecutorTypeOK ==
  /\ place \in [Calls -> 0..(Limit + 1)] /\ Cardinality(Queued) <= Limit + 1
  /\ \A c \in Queued : /\ place[c] <= Cardinality(Queued)
                       /\ \A d \in Queued \ {c} : place[c] # place[d]
  /\ running \in Calls \cup {NoCall}

ExecutorInit == place = [c \in Calls |-> 0] /\ running = NoCall

\* A call that finds the executor free is shifted out of the queue within the
\* same turn, although Start is a later step here: it takes no place.
HasRoom == Cardinality(Queued) < IF running = NoCall THEN Limit + 1 ELSE Limit

Enqueue(c) == place' = [place EXCEPT ![c] = Cardinality(Queued) + 1] /\ UNCHANGED running

\* The calls in cs are taken out of the queue, and those behind them move up.
Leave(cs)  == place' = [c \in Calls |-> IF c \in cs THEN 0 ELSE
                          Cardinality({d \in Queued \ cs : place[d] <= place[c]})]

\* The drain loop shifts the oldest call once the one before it has settled.
IsNext(c)  == running = NoCall /\ place[c] = 1
Start(c)   == IsNext(c) /\ Leave({c}) /\ running' = c
\* ... and a call that only finds out that it cannot run leaves at once.
Skip(c)    == IsNext(c) /\ Leave({c}) /\ UNCHANGED running
Settle(c)  == running = c /\ running' = NoCall /\ UNCHANGED place

\* The abort listener of the calls in cs: those in the queue are taken out.
Withdraw(cs) == Leave(cs) /\ UNCHANGED running
=============================================================================
