--------------------------- MODULE RequestLedger ---------------------------
(***************************************************************************)
(* What a session remembers of its mutating requests                       *)
(* (server/compact/request-ledger.mjs), so that a client which lost the    *)
(* answer can send the same request again and is told the first outcome.   *)
(* A record holds the promise of the first run, errors included; only the  *)
(* newest records are kept, and a number below the highest one that has    *)
(* no record any more is refused.                                          *)
(***************************************************************************)
EXTENDS Naturals, FiniteSets, FiniteSetsExt

CONSTANTS Sessions,
          MaxRequest,  \* bound: request numbers a client uses
          Kept         \* records a session keeps (64 in the code)

ASSUME LedgerAssumption == MaxRequest \in Nat /\ Kept \in Nat \ {0}

Requests  == 1..MaxRequest
\* What a request asks for, as far as two requests of a model can differ.
Arguments == [kind : {"act", "dialog", "flow"}, view : Nat]

VARIABLES highest,   \* highest[s]: the largest request number run so far
          records,   \* records[s]: the records that are kept, by number
          settled    \* the requests <<s, r>> whose promise has an outcome

ledgerVars == <<highest, records, settled>>

Record == [request : Requests, args : Arguments]

LedgerTypeOK ==
  /\ highest \in [Sessions -> Requests \cup {0}]
  /\ records \in [Sessions -> SUBSET Record]
  /\ \A s \in Sessions : IsFiniteSet(records[s]) /\ Cardinality(records[s]) <= Kept
  /\ settled \subseteq Sessions \X Requests

LedgerInit == /\ highest = [s \in Sessions |-> 0]
              /\ records = [s \in Sessions |-> {}]
              /\ settled = {}

Numbers(s)       == {p.request : p \in records[s]}
\* Mutant of IsNew: a number whose record was evicted counts as new.
IsNewAgain(s, r) == r \notin Numbers(s)
\* A number seen for the first time; any other number without a record is old.
IsNew(s, r)      == r \notin Numbers(s) /\ r > highest[s]
\* A record of the same arguments: its promise is the answer.
Replays(s, r, a) == [request |-> r, args |-> a] \in records[s]

\* Records are inserted in increasing order, so the oldest is the smallest.
Newest(ps) ==
  IF Cardinality(ps) > Kept
  THEN {p \in ps : p.request # Min({q.request : q \in ps})} ELSE ps

Install(s, r, a) ==
  /\ IsNew(s, r)
  /\ highest' = [highest EXCEPT ![s] = r]
  /\ records' = [records EXCEPT ![s] = Newest(@ \cup {[request |-> r, args |-> a]})]
=============================================================================
