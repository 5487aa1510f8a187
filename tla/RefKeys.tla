------------------------------ MODULE RefKeys ------------------------------
(***************************************************************************)
(* How the compact MCP server reads the lines of an accessibility snapshot *)
(* (server/compact/observation-refs.mjs): the role, name and reference of  *)
(* an element from the key of its line, and the one element that a flow's  *)
(* semantic target means (flow-runner.mjs).  Names and texts are whatever  *)
(* the page says, marks of quoting and pieces that look like references    *)
(* included; a line is a sequence of such marks.  Case is not modelled.    *)
(***************************************************************************)
EXTENDS Naturals, Sequences, FiniteSets, SequencesExt

CONSTANTS SnapshotPages,   \* sequences of elements with the way each is written
          Roles,           \* the words that are roles; other keys are properties
          NoName, NoMark   \* neither a name nor a reference
ASSUME KeysAssumption == \A page \in SnapshotPages : page \in Seq([
  role : STRING, name : Seq(STRING) \cup {NoName}, mark : STRING \cup {NoMark},
  pointer : BOOLEAN, yaml : BOOLEAN, tail : Seq(STRING)])

VARIABLES snapshot,   \* the page as its elements
          asked       \* what was read of it: a target and who it was found to be
keysVars == <<snapshot, asked>>

\* The marks that are references.
References == {"[ref=e1]", "[ref=e2]", "[ref=e3]"}
NobodyAsked == [role |-> NoName, name |-> NoName, exact |-> TRUE, found |-> {}]
KeysInit == snapshot \in SnapshotPages /\ asked = NobodyAsked
-----------------------------------------------------------------------------
\* Playwright's snapshot: a name is a JSON string, and a key may be quoted again
\* as YAML does it; what follows the key is the page's.
Json(name) == <<"\"">> \o FlattenSeq([i \in DOMAIN name |->
                IF name[i] \in {"\"", "\\"} THEN <<"\\", name[i]>> ELSE <<name[i]>>]) \o <<"\"">>
KeyOf(e) ==
  <<e.role>> \o (IF e.name = NoName THEN <<>> ELSE <<" ">> \o Json(e.name))
             \o (IF e.mark = NoMark THEN <<>> ELSE <<" ", e.mark>>)
             \o (IF e.pointer THEN <<" ", "[cursor=pointer]">> ELSE <<>>)
Yaml(key) == <<"'">> \o FlattenSeq([i \in DOMAIN key |->
               IF key[i] = "'" THEN <<"'", "'">> ELSE <<key[i]>>]) \o <<"'">>
Written(e) == (IF e.yaml THEN Yaml(KeyOf(e)) ELSE KeyOf(e)) \o e.tail
-----------------------------------------------------------------------------
\* Mutant of QuotingStep: an escaped mark ends the string.
QuotingPlainly(at, c) == IF c # "\"" THEN at ELSE IF at = "in" THEN "out" ELSE "in"
\* A mark enters or leaves a JSON string, or escapes the next one.
QuotingStep(at, c) ==
  CASE at = "escaped"          -> "in"
    [] at = "in" /\ c = "\\"   -> "escaped"
    [] at # "escaped" /\ c = "\"" -> IF at = "in" THEN "out" ELSE "in"
    [] OTHER                   -> at
\* Whether the mark after the first i is inside one.
QuotingAt(s, i) ==
  LET at[n \in 0..i] == IF n = 0 THEN "out" ELSE QuotingStep(at[n - 1], s[n])
  IN at[i]
Quoted(s, i) == QuotingAt(s, i) # "out"

\* Mutant of Unquoted: the first quote ends the key.
UnquotedAtFirst(line) ==
  LET at == SelectInSeq(Tail(line), LAMBDA c : c = "'")
  IN IF at = 0 THEN <<>> ELSE SubSeq(line, 2, at)
\* A key in single quotes, which are doubled inside: "after" is one that may be
\* either half of a pair or the end.  A key that is not well formed is none.
UnquotedStep(acc, c) ==
  CASE acc.at = "in" -> IF c = "'" THEN [acc EXCEPT !.at = "after"] ELSE [acc EXCEPT !.key = Append(@, c)]
    [] acc.at = "after" -> IF c = "'" THEN [at |-> "in", key |-> Append(acc.key, c)]
                           ELSE [acc EXCEPT !.at = IF c = ":" THEN "over" ELSE "bad"]
    [] OTHER -> acc
Unquoted(line) ==
  LET read[n \in 1..Len(line)] == IF n = 1 THEN [at |-> "in", key |-> <<>>] ELSE UnquotedStep(read[n - 1], line[n])
  IN IF read[Len(line)].at \in {"after", "over"} THEN read[Len(line)].key ELSE <<>>
\* #key: up to the colon that is in no string.
Key(line) ==
  IF line # <<>> /\ Head(line) = "'" THEN Unquoted(line)
  ELSE LET ends == {i \in DOMAIN line : /\ line[i] = ":" /\ ~Quoted(line, i)
                                        /\ i = Len(line) \/ line[i + 1] = " "}
       IN IF ends # {} THEN SubSeq(line, 1, (CHOOSE i \in ends : \A j \in ends : i <= j) - 1)
          ELSE IF Quoted(line, Len(line)) THEN <<>> ELSE line

\* signature: the key, whether or not the element shows a pointer.
Signature(line) ==
  IF IsSuffix(<<" ", "[cursor=pointer]">>, Key(line)) THEN SubSeq(Key(line), 1, Len(Key(line)) - 2)
  ELSE Key(line)
HasRole(key) == key # <<>> /\ key[1] \in Roles /\ (Len(key) = 1 \/ key[2] = " ")

\* Mutant of Structural: any piece that looks like a reference.
StructuralAny(key, i) == TRUE
\* The reference is the last piece, and in no string.
Structural(key, i) ==
  /\ SubSeq(key, i + 1, Len(key)) \in {<<>>, <<" ", "[cursor=pointer]">>}
  /\ ~Quoted(key, i - 1)
Reference(line) ==
  LET key == Key(line)
      refs == {i \in DOMAIN key : key[i] \in References /\ Structural(key, i)}
  IN IF HasRole(key) /\ refs # {} THEN key[CHOOSE i \in refs : \A j \in refs : i <= j] ELSE NoMark

Unescaped(s) ==   \* without the marks that escape another
  LET kept == SelectSeq([i \in DOMAIN s |-> i], LAMBDA i : s[i] # "\\" \/ QuotingAt(<<"\"">> \o s, i) = "escaped")
  IN [i \in DOMAIN kept |-> s[kept[i]]]
\* semantic: the name is the JSON string after the role, if there is one.
Name(line) ==
  LET rest == SubSeq(Key(line), 3, Len(Key(line)))
      ends == {i \in 2..Len(rest) : ~Quoted(rest, i)}
  IN IF rest = <<>> \/ rest[1] # "\"" \/ ends = {} THEN <<>>
     ELSE Unescaped(SubSeq(rest, 2, (CHOOSE i \in ends : \A j \in ends : i <= j) - 1))
Includes(name, part) == \E i \in 0..Len(name) - Len(part) : SubSeq(name, i + 1, i + Len(part)) = part
MeetsTarget(line, q) ==
  /\ Reference(line) # NoMark
  /\ q.role \in {NoName, Key(line)[1]}
  /\ q.name = NoName \/ IF q.exact THEN Name(line) = q.name ELSE Includes(Name(line), q.name)
-----------------------------------------------------------------------------
Lines == [i \in DOMAIN snapshot |-> Written(snapshot[i])]
\* The places of the lines of one reference; from refuses a page with two.
Marked(r) == {i \in DOMAIN snapshot : Reference(Lines[i]) = r}

\* Mutant of Places: the first one is good enough.
PlacesFirst(q) ==
  LET meets == {i \in DOMAIN snapshot : MeetsTarget(Lines[i], q)}
  IN {i \in meets : \A j \in meets : i <= j}
\* find: who meets the target; two are as many as it takes to refuse it.
Places(q) ==
  LET meets == {i \in DOMAIN snapshot : MeetsTarget(Lines[i], q)}
  IN {i \in meets : Cardinality({j \in meets : j < i}) < 2}

\* #resolveSteps: a target of a step, which asks for a role, a name or both.
AskFor(role, name, exact) ==
  LET q == [role |-> role, name |-> name, exact |-> exact, found |-> {}]
  IN /\ asked = NobodyAsked
     /\ role # NoName \/ name # NoName
     /\ name = NoName => exact
     /\ name # <<>>
     /\ \A r \in References : Cardinality(Marked(r)) <= 1
     /\ asked' = [q EXCEPT !.found = IF Cardinality(Places(q)) = 1
                                     THEN {Reference(Lines[i]) : i \in Places(q)} ELSE {}]
     /\ UNCHANGED snapshot
KeysNext ==
  \E e \in ToSet(snapshot), exact \in BOOLEAN :
    \E role \in {e.role, NoName}, name \in {e.name, NoName} \cup (IF e.name \in {NoName, <<>>} THEN {} ELSE {Tail(e.name)}) :
      AskFor(role, name, exact)
-----------------------------------------------------------------------------
\* Whatever a page writes into its names and texts, the server takes from a line
\* the role, name and reference that Playwright gave the element, a reference
\* where it gave none from no line, and a signature that depends on nothing
\* else (observation-refs.mjs:4-8, 25); and a flow's target is the one element that
\* meets it, or nobody (flow-runner.mjs:57-59).
RefsAreReal ==
  IF asked = NobodyAsked
  THEN \A i \in DOMAIN snapshot :
         LET e == snapshot[i]
         IN /\ Reference(Lines[i]) = e.mark
            /\ HasRole(Key(Lines[i])) = (e.role \in Roles) /\ Key(Lines[i])[1] = e.role
            /\ Name(Lines[i]) = IF e.name = NoName THEN <<>> ELSE e.name
            /\ Signature(Lines[i]) = KeyOf([e EXCEPT !.pointer = FALSE])
  ELSE LET meet == {e \in ToSet(snapshot) :
              /\ e.mark # NoMark /\ asked.role \in {e.role, NoName}
              /\ \/ asked.name = NoName
                 \/ asked.exact /\ e.name = asked.name
                 \/ ~asked.exact /\ e.name # NoName /\ Includes(e.name, asked.name)}
       IN asked.found = IF Cardinality(meet) = 1 THEN {e.mark : e \in meet} ELSE {}
=============================================================================
