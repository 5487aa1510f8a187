---------------------------- MODULE PacingLedger ----------------------------
(***************************************************************************)
(* The pacing ledger (hermes/workflow_runner/pacing_ledger.py): one        *)
(* persistent row per site that every process of every workflow spends     *)
(* from.  A reservation is one transaction under the store's writer lock,  *)
(* with the wall clock read inside it (pacing_store.py:15, :38 of the      *)
(* ledger), so it is one action; the clock it reads may be any time at     *)
(* all.  A reservation that is refused, or whose commit fails, changes     *)
(* nothing.                                                                *)
(***************************************************************************)
EXTENDS Integers, Sequences, FiniteSets

CONSTANTS Policies,     \* reviewed policies, several of them for one site
          Sites, NoRow,
          MaxGap,       \* 60000 + 5000 in the code
          MaxWindow,    \* 3600000
          MaxUsed,      \* 1000
          Capacity,     \* 128 sites
          Times,        \* bound: the wall clock's readings
          MaxLog        \* bound: admissions and completions

\* The ranges of pacing_policy.py:13.
Policy == [site : Sites, minInterval : 0..MaxGap, jitter : 0..MaxGap,
           maxActions : 1..MaxUsed, window : 1..MaxWindow]
ASSUME LimitsAssumption ==
  MaxGap \in Nat /\ MaxWindow \in Nat /\ MaxUsed \in Nat /\ Times \subseteq Nat
ASSUME PoliciesAssumption ==
  \A p \in Policies : p \in Policy /\ p.minInterval + p.jitter <= MaxGap

Row == [last : Nat, next : Nat, start : Nat, end : Nat, used : 1..MaxUsed]
ASSUME NoRowAssumption == NoRow \notin Row

VARIABLES row,   \* row[s]: the ledger's row of site s, or NoRow
          log    \* history: the admissions and completions, in order

ledgerVars == <<row, log>>

Event == [kind : {"admit", "complete"}, at : Nat, policy : Policies, gap : Nat, start : Nat]

RowsTyped == row \in [Sites -> Row \cup {NoRow}] /\ log \in Seq(Event)

LedgerInit == row = [s \in Sites |-> NoRow] /\ log = <<>>
-----------------------------------------------------------------------------
Larger(a, b) == IF a >= b THEN a ELSE b

\* What _validate demands of a row before it is used.
Valid(r) ==
  /\ r.start <= r.last /\ r.start < r.end /\ r.end <= r.start + MaxWindow
  /\ r.last <= r.next /\ r.next <= r.last + MaxGap
  /\ 1 <= r.used /\ r.used <= MaxUsed

\* A row is usable if it is valid and the clock has not gone back behind it.
Usable(s, t) == Valid(row[s]) /\ t >= row[s].last

\* Mutant of WindowEnd: a shorter policy shortens the window it joins.
WindowEndShortened(p) == row[p.site].start + p.window
\* The end of the window, for a policy that joins it.
WindowEnd(p) == Larger(row[p.site].end, row[p.site].start + p.window)

\* The window that an admission of p at time t belongs to: the row's, or a
\* new one when there is no row or its window has ended.
FreshWindow(p, t) == [start |-> t, end |-> t + p.window, used |-> 0]
Window(p, t) ==
  IF row[p.site] = NoRow \/ t >= WindowEnd(p) THEN FreshWindow(p, t)
  ELSE [start |-> row[p.site].start, end |-> WindowEnd(p), used |-> row[p.site].used]

\* Mutant of Due: the budget is compared after the reservation.
DueOneMore(p, t) ==
  LET r == row[p.site] w == Window(p, t) IN
    IF r = NoRow THEN t
    ELSE Larger(Larger(t, IF w.used > p.maxActions THEN w.end ELSE t),
                Larger(r.next, r.last + p.minInterval))
\* Mutant of Due: only the policy at hand counts, not the cooldown that is stored.
DueForgetful(p, t) ==
  LET r == row[p.site] w == Window(p, t) IN
    IF r = NoRow THEN t
    ELSE Larger(Larger(t, IF w.used >= p.maxActions THEN w.end ELSE t),
                r.last + p.minInterval)
\* When p may act next.
Due(p, t) ==
  LET r == row[p.site] w == Window(p, t) IN
    IF r = NoRow THEN t
    ELSE Larger(Larger(t, IF w.used >= p.maxActions THEN w.end ELSE t),
                Larger(r.next, r.last + p.minInterval))

\* The row and the history after an admission.
Admitted(p, j, t) ==
  LET w == Window(p, t) IN
    [last |-> t, next |-> t + p.minInterval + j, start |-> w.start, end |-> w.end, used |-> w.used + 1]
Record(kind, p, j, t, start) ==
  log' = Append(log, [kind |-> kind, at |-> t, policy |-> p, gap |-> p.minInterval + j, start |-> start])

Rows == {s \in Sites : row[s] # NoRow}

\* reserve answers 0: the slot is spent, and never refunded.
Reserve(p, j, t) ==
  /\ IF row[p.site] = NoRow THEN Cardinality(Rows) < Capacity ELSE Usable(p.site, t)
  /\ Due(p, t) <= t
  /\ row' = [row EXCEPT ![p.site] = Admitted(p, j, t)]
  /\ Record("admit", p, j, t, Window(p, t).start)

\* Mutants of Complete: the row takes the new gap even if it ends earlier; and
\* the window is moved along.
CompleteShortens(p, j, t) ==
  /\ row[p.site] # NoRow /\ Usable(p.site, t)
  /\ row' = [row EXCEPT ![p.site].last = t, ![p.site].next = t + p.minInterval + j]
  /\ Record("complete", p, j, t, row[p.site].start)
CompleteMovesNext(p, j, t) ==
  /\ row[p.site] # NoRow /\ Usable(p.site, t)
  /\ row' = [row EXCEPT ![p.site].next = Larger(@, t + p.minInterval + j)]
  /\ Record("complete", p, j, t, row[p.site].start)

\* complete: the input has returned, and the gap counts from now.
Complete(p, j, t) ==
  /\ row[p.site] # NoRow /\ Usable(p.site, t)
  /\ row' = [row EXCEPT ![p.site].last = t,
                        ![p.site].next = Larger(@, t + p.minInterval + j)]
  /\ Record("complete", p, j, t, row[p.site].start)

LedgerNext ==
  /\ Len(log) < MaxLog
  /\ \E p \in Policies : \E j \in 0..p.jitter, t \in Times :
       Reserve(p, j, t) \/ Complete(p, j, t)

LedgerSpec == LedgerInit /\ [][LedgerNext]_ledgerVars
-----------------------------------------------------------------------------
(* Properties *)

Events(s) == {i \in DOMAIN log : log[i].policy.site = s}
Admissions(s) == {i \in Events(s) : log[i].kind = "admit"}

\* Whatever mixture of policies, clock readings and late completions wrote a
\* row, the next reader accepts it: the ledger cannot lock a site out with
\* PACING_STORE_INVALID (pacing_ledger.py:22).
RowsStayValid == \A s \in Rows : Valid(row[s])

\* An admission keeps the gap that every earlier admission and completion of
\* its site asked for, under its own policy and theirs (pacing_ledger.py:51).
GapsAreKept ==
  \A s \in Sites : \A a \in Admissions(s), e \in Events(s) :
     e < a => log[a].at >= log[e].at + Larger(log[e].gap, log[a].policy.minInterval)

\* No admission is beyond the budget of its policy in its window, whoever
\* spent the rest of it (pacing_ledger.py:52).
BudgetIsKept ==
  \A s \in Sites : \A a \in Admissions(s) :
     Cardinality({b \in Admissions(s) : b <= a /\ log[b].start = log[a].start})
       <= log[a].policy.maxActions

\* A new window opens only when the old one is over for every policy that
\* spent from it: a shorter policy never buys a second budget (pacing_ledger.py:44).
WindowsAreApart ==
  \A s \in Sites : \A a, b \in Admissions(s) :
     a < b /\ log[a].start # log[b].start => log[b].at >= log[a].start + log[a].policy.window

\* All of it, for every mixture of policies, clocks and late completions.
LedgerIsSound ==
  RowsTyped /\ RowsStayValid /\ GapsAreKept /\ BudgetIsKept /\ WindowsAreApart
=============================================================================
