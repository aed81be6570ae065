------------------------- MODULE ResearchVaultProofs -------------------------
(***************************************************************************)
(* Proofs about ResearchVault: the types of the vault, that an id is shared *)
(* by no more rows than there are agents, and that a hypothesis file       *)
(* without a row was left by an agent that died or whose logging raised.   *)
(***************************************************************************)
EXTENDS ResearchVault, FiniteSetTheorems, WellFoundedInduction, TLAPS

Places == {"idle", "ingest", "compile", "generate", "validate", "log", "lint",
           "scout", "glob", "page", "scan", "commit"}

WikiFiles == ({"summary"} \X Files) \union ({"concept"} \X Concepts)
             \union ({"hypothesis"} \X Nat \X Answers) \union ({"dispute"} \X Nat)

RunState == [at : Places, todo : SUBSET Files, wrote : BOOLEAN, id : Nat,
             status : Answers \union {"none"}, cycles : Nat, seen : SUBSET WikiFiles,
             had : SUBSET WikiFiles, search : BOOLEAN]

Rows == [id : Nat, status : Answers \union {"crash"}]

(* A run is where its fields make sense.                                   *)
Apt(m) ==
    /\ m \in RunState
    /\ m.at = "ingest" => m.todo # {}
    /\ m.at = "generate" => m.cycles > 0
    /\ m.at = "log" => m.status \in Answers

WikiTypeOK ==
    /\ raw \in SUBSET Files
    /\ wiki \in SUBSET WikiFiles
    /\ results \in Seq(Rows)
    /\ index \in SUBSET WikiFiles
    /\ found \in SUBSET WikiFiles
    /\ agent \in [Agents -> RunState]
    /\ \A a \in Agents : Apt(agent[a])
    /\ starts \in Nat
    /\ faults \in Nat
    /\ IsFiniteSet(Of("dispute"))

-----------------------------------------------------------------------------
(* Least and largest numbers.  A finite set of numbers without one or the  *)
(* other would have a smallest nonempty subset without it.                 *)
LEMMA EndsExist ==
  ASSUME NEW S \in SUBSET Nat, IsFiniteSet(S), S # {}
  PROVE  /\ \E x \in S : \A y \in S : x >= y
         /\ \E x \in S : \A y \in S : x =< y
<1> DEFINE Top(T) == \E x \in T : \A y \in T : x >= y
           Bottom(T) == \E x \in T : \A y \in T : x =< y
           Bad == {T \in SUBSET S : T # {} /\ ~ (Top(T) /\ Bottom(T))}
<1>1. Bad = {}
  <2>1. SUFFICES ASSUME Bad # {} PROVE FALSE
    OBVIOUS
  <2>2. PICK T \in Bad : \A U \in Bad : ~ (<<U, T>> \in StrictSubsetOrdering(S))
    <3>1. IsWellFoundedOn(StrictSubsetOrdering(S), SUBSET S)
      BY FS_StrictSubsetOrderingWellFounded, FS_FiniteSubsetsOfFinite
    <3>2. Bad \in SUBSET (SUBSET S)
      OBVIOUS
    <3> HIDE DEF Bad
    <3>3. QED
      BY <2>1, <3>1, <3>2, WFMin
  <2>3. T \in SUBSET S /\ T # {} /\ ~ (Top(T) /\ Bottom(T))
    OBVIOUS
  <2>4. PICK x \in T : TRUE
    BY <2>3
  <2>5. T \ {x} \notin Bad
    BY <2>2, <2>3, <2>4 DEF StrictSubsetOrdering
  <2>6. CASE T \ {x} = {}
    BY <2>3, <2>4, <2>6
  <2>7. CASE T \ {x} # {}
    <3>1. Top(T \ {x}) /\ Bottom(T \ {x})
      BY <2>3, <2>5, <2>7
    <3>2. x \in Nat /\ \A m \in T : m \in Nat
      BY <2>3, <2>4
    <3>3. Top(T)
      <4>1. PICK y \in T \ {x} : \A m \in T \ {x} : y >= m
        BY <3>1
      <4>2. x >= y => \A m \in T : x >= m
        BY <2>4, <3>2, <4>1
      <4>3. y >= x => \A m \in T : y >= m
        BY <2>4, <3>2, <4>1
      <4>4. QED
        BY <2>4, <3>2, <4>1, <4>2, <4>3
    <3>4. Bottom(T)
      <4>1. PICK y \in T \ {x} : \A m \in T \ {x} : y =< m
        BY <3>1
      <4>2. x =< y => \A m \in T : x =< m
        BY <2>4, <3>2, <4>1
      <4>3. y =< x => \A m \in T : y =< m
        BY <2>4, <3>2, <4>1
      <4>4. QED
        BY <2>4, <3>2, <4>1, <4>2, <4>3
    <3>5. QED
      BY <2>3, <3>3, <3>4
  <2>8. QED
    BY <2>6, <2>7
<1>2. S \notin Bad
  BY <1>1
<1>3. QED
  BY <1>2

LEMMA MinIsIn ==
  ASSUME NEW S \in SUBSET Nat, IsFiniteSet(S), S # {}
  PROVE  Min(S) \in S
BY EndsExist DEF Min

LEMMA MaxIsLargest ==
  ASSUME NEW S \in SUBSET Nat, IsFiniteSet(S), S # {}
  PROVE  Max(S) \in S /\ \A y \in S : Max(S) >= y
BY EndsExist DEF Max

LEMMA IdsAreFinite ==
  ASSUME NEW rows \in Seq(Rows)
  PROVE  /\ Ids(rows) \in SUBSET Nat
         /\ IsFiniteSet({0} \union Ids(rows))
<1>1. DOMAIN rows = 1 .. Len(rows) /\ Len(rows) \in Nat
  OBVIOUS
<1>2. IsFiniteSet(DOMAIN rows)
  BY <1>1, FS_Interval
<1>3. IsFiniteSet(Ids(rows))
  <2> DEFINE f == [n \in DOMAIN rows |-> rows[n].id]
  <2>1. f \in Surjection(DOMAIN rows, Ids(rows))
    BY DEF Surjection, Ids
  <2>2. QED
    BY <1>2, <2>1, FS_Surjection
<1>4. Ids(rows) \in SUBSET Nat
  <2>1. \A n \in DOMAIN rows : rows[n].id \in Nat
    <3>1. \A n \in 1 .. Len(rows) : rows[n] \in Rows
      OBVIOUS
    <3>2. QED
      BY <1>1, <3>1 DEF Rows
  <2>2. QED
    BY <2>1 DEF Ids
<1>5. QED
  BY <1>3, <1>4, FS_AddElement, FS_Union, FS_EmptySet

(* The id of a new hypothesis is on no row.                                *)
LEMMA NextIdIsNew ==
  ASSUME NEW rows \in Seq(Rows)
  PROVE  NextId(rows) \in Nat /\ NextId(rows) \notin Ids(rows)
<1> DEFINE S == {0} \union Ids(rows)
<1>1. S \in SUBSET Nat /\ IsFiniteSet(S) /\ S # {}
  BY IdsAreFinite
<1>2. Max(S) \in S /\ \A y \in S : Max(S) >= y
  <2> HIDE DEF S
  <2>1. QED
    BY <1>1, MaxIsLargest
<1>3. NextId(rows) = Max(S) + 1 /\ Ids(rows) \subseteq S
  BY DEF NextId
<1> DEFINE m == Max(S)
<1>4. m \in Nat /\ \A y \in Ids(rows) : y \in Nat /\ m >= y
  BY <1>1, <1>2, <1>3
<1>5. NextId(rows) = m + 1
  BY <1>3
<1> HIDE DEF m
<1>6. m + 1 \notin Ids(rows)
  BY <1>4
<1>7. QED
  BY <1>4, <1>5, <1>6

-----------------------------------------------------------------------------
(* Types.                                                                  *)

(* Where a step that moves an agent leaves the agents.                     *)
LEMMA MovesAgent ==
  ASSUME WikiTypeOK, NEW a \in Agents, NEW m, Moves(a, m)
  PROVE  /\ agent'[a] = m
         /\ \A b \in Agents : b # a => agent'[b] = agent[b]
         /\ Apt(m) => /\ agent' \in [Agents -> RunState]
                      /\ \A b \in Agents : Apt(agent'[b])
BY DEF WikiTypeOK, Moves, Apt

LEMMA IdleIsApt ==
  /\ Apt(Idle) /\ Idle.at = "idle" /\ Idle.cycles = 0
  /\ \A p \in Places \ {"ingest", "generate", "log"} : Apt([Idle EXCEPT !.at = p])
BY DEF Apt, Idle, RunState, Places

LEMMA DoneIsApt ==
  ASSUME NEW m, m.cycles \in Nat
  PROVE  Apt(Done(m)) /\ Done(m).at \in {"idle", "generate"}
<1>1. CASE m.cycles > 0
  BY <1>1 DEF Done, Apt, Idle, RunState, Places
<1>2. CASE ~ (m.cycles > 0)
  BY <1>2, IdleIsApt DEF Done
<1>3. QED
  BY <1>1, <1>2

LEMMA NextFileIsApt ==
  ASSUME NEW m, Apt(m), m.at = "ingest", NEW w \in BOOLEAN
  PROVE  /\ Apt(NextFile(m, w)) /\ NextFile(m, w).at \in {"idle", "ingest", "glob"}
         /\ Min(m.todo) \in Files
<1>1. m.todo \in SUBSET Nat /\ IsFiniteSet(m.todo) /\ m.todo # {} /\ m.todo \in SUBSET Files
  BY WikiAssumption, FS_Subset DEF Apt, RunState
<1>2. Min(m.todo) \in Files
  BY <1>1, MinIsIn
<1> DEFINE rest == m.todo \ {Min(m.todo)}
<1>3. CASE rest # {}
  <2>1. NextFile(m, w) = [m EXCEPT !.todo = rest, !.wrote = w]
    BY <1>3 DEF NextFile
  <2>2. rest \in SUBSET Files
    BY <1>1
  <2> HIDE DEF rest
  <2>3. QED
    BY <1>2, <1>3, <2>1, <2>2 DEF Apt, RunState, Places
<1>4. CASE rest = {}
  <2>1. NextFile(m, w) \in {[Idle EXCEPT !.at = "glob"], Idle}
    BY <1>4 DEF NextFile
  <2>2. Apt([Idle EXCEPT !.at = "glob"]) /\ [Idle EXCEPT !.at = "glob"].at = "glob"
    <3>1. "glob" \in Places \ {"ingest", "generate", "log"}
      BY DEF Places
    <3>2. Apt([Idle EXCEPT !.at = "glob"])
      BY <3>1, IdleIsApt
    <3>3. QED
      BY <3>2 DEF Idle
  <2>3. Apt(Idle) /\ Idle.at = "idle"
    BY IdleIsApt
  <2>4. QED
    BY <1>2, <2>1, <2>2, <2>3
<1>5. QED
  BY <1>3, <1>4

LEMMA AskedTypes ==
  ASSUME WikiTypeOK, NEW a \in Agents, NEW m, Apt(m), Asked(a, m)
  PROVE  WikiTypeOK'
<1>1. agent' \in [Agents -> RunState] /\ \A b \in Agents : Apt(agent'[b])
  BY MovesAgent DEF Asked
<1>2. QED
  BY <1>1 DEF WikiTypeOK, Asked, Of

(* A step that only moves an agent.                                        *)
LEMMA MovedTypes ==
  ASSUME WikiTypeOK, NEW a \in Agents, NEW m, Apt(m), Moves(a, m),
         UNCHANGED <<raw, wiki, results, starts, faults>>,
         index' \in SUBSET WikiFiles, found' \in SUBSET WikiFiles
  PROVE  WikiTypeOK'
<1>1. agent' \in [Agents -> RunState] /\ \A b \in Agents : Apt(agent'[b])
  BY MovesAgent
<1>2. QED
  BY <1>1 DEF WikiTypeOK, Of

(* A step that also writes files that are no disputes.                     *)
LEMMA WritesTypes ==
  ASSUME WikiTypeOK, NEW a \in Agents, NEW m, Apt(m), Moves(a, m),
         NEW x \in SUBSET WikiFiles, wiki' = wiki \union x,
         \A y \in x : y[1] # "dispute",
         UNCHANGED <<raw, results, index, found, starts, faults>>
  PROVE  WikiTypeOK'
<1>1. agent' \in [Agents -> RunState] /\ \A b \in Agents : Apt(agent'[b])
  BY MovesAgent
<1>2. Of("dispute")' = Of("dispute")
  BY DEF Of
<1>3. QED
  BY <1>1, <1>2 DEF WikiTypeOK

LEMMA LoggedTypes ==
  ASSUME WikiTypeOK, NEW a \in Agents, NEW m, Apt(m), Moves(a, m),
         NEW row \in Rows, results' = Append(results, row),
         UNCHANGED <<raw, wiki, index, found, starts, faults>>
  PROVE  WikiTypeOK'
<1>1. agent' \in [Agents -> RunState] /\ \A b \in Agents : Apt(agent'[b])
  BY MovesAgent
<1>2. results' \in Seq(Rows)
  BY DEF WikiTypeOK
<1>3. QED
  BY <1>1, <1>2 DEF WikiTypeOK, Of

(* A step of the linter: at most one dispute more is on file.              *)
LEMMA DisputesTypes ==
  ASSUME WikiTypeOK, NEW a \in Agents, NEW m, Apt(m), Moves(a, m),
         NEW k \in 0 .. 1, WriteDisputes(k), faults' \in Nat,
         UNCHANGED <<raw, results, index, found, starts>>
  PROVE  WikiTypeOK'
<1> DEFINE count == Cardinality(Of("dispute"))
<1>1. count \in Nat /\ IsFiniteSet(Of("dispute")) /\ wiki \in SUBSET WikiFiles
  BY FS_CardinalityType DEF WikiTypeOK
<1> DEFINE new == {Dispute(count + i) : i \in 1 .. k}
<1>2. wiki' = wiki \union new
  BY DEF WriteDisputes
<1>3. new \in SUBSET WikiFiles
  <2>1. \A i \in 1 .. k : count + i \in Nat
    BY <1>1
  <2> HIDE DEF count
  <2>2. QED
    BY <2>1 DEF Dispute, WikiFiles
<1>4. new \subseteq {Dispute(count + 1)}
  <2> HIDE DEF count
  <2>1. k \in {0, 1}
    OBVIOUS
  <2>2. \A i \in 1 .. k : i = 1
    BY <2>1
  <2>3. QED
    BY <2>2
<1>5. IsFiniteSet(Of("dispute")')
  <2>1. IsFiniteSet(Of("dispute") \union {Dispute(count + 1)})
    BY <1>1, FS_AddElement
  <2>2. Of("dispute")' \subseteq Of("dispute") \union {Dispute(count + 1)}
    <3> HIDE DEF new, count
    <3>1. QED
      BY <1>2, <1>4 DEF Of
  <2>3. QED
    BY <2>1, <2>2, FS_Subset
<1>6. agent' \in [Agents -> RunState] /\ \A b \in Agents : Apt(agent'[b])
  BY MovesAgent
<1>7. wiki' \in SUBSET WikiFiles
  <2> HIDE DEF new
  <2>1. QED
    BY <1>1, <1>2, <1>3
<1>8. QED
  BY <1>5, <1>6, <1>7 DEF WikiTypeOK

LEMMA RunsKeepTypes ==
  ASSUME WikiTypeOK, NEW a \in Agents, Runs(a)
  PROVE  WikiTypeOK'
<1> DEFINE m == agent[a]
<1>0. /\ Apt(m) /\ m \in RunState /\ m.cycles \in Nat /\ m.id \in Nat
      /\ index \in SUBSET WikiFiles /\ found \in SUBSET WikiFiles
      /\ wiki \in SUBSET WikiFiles
      /\ m.seen \in SUBSET WikiFiles /\ m.had \in SUBSET WikiFiles /\ m.wrote \in BOOLEAN
  BY DEF WikiTypeOK, Apt, RunState
<1>idle. Apt(Idle) /\ Apt([Idle EXCEPT !.at = "glob"])
  <2>1. "glob" \in Places \ {"ingest", "generate", "log"}
    BY DEF Places
  <2>2. QED
    BY <2>1, IdleIsApt
<1>1. CASE IngestNothing(a)
  BY <1>0, <1>1, NextFileIsApt, MovedTypes DEF IngestNothing
<1>2. CASE IngestFile(a)
  <2>1. Min(m.todo) \in Files /\ Apt(NextFile(m, TRUE))
    BY <1>0, <1>2, NextFileIsApt DEF IngestFile
  <2>2. {Summary(Min(m.todo))} \in SUBSET WikiFiles
    BY <2>1 DEF Summary, WikiFiles
  <2>3. Summary(Min(m.todo))[1] # "dispute"
    BY DEF Summary
  <2>4. QED
    BY <1>2, <2>1, <2>2, <2>3, WritesTypes DEF IngestFile
<1>3. CASE CompileConcepts(a)
  <2>1. PICK written \in SUBSET Concepts : wiki' = wiki \union {Concept(c) : c \in written}
    BY <1>3 DEF CompileConcepts
  <2>2. /\ {Concept(c) : c \in written} \in SUBSET WikiFiles
        /\ \A y \in {Concept(c) : c \in written} : y[1] # "dispute"
    BY DEF Concept, WikiFiles
  <2>3. QED
    BY <1>3, <1>idle, <2>1, <2>2, WritesTypes DEF CompileConcepts
<1>4. CASE CompileNothing(a)
  BY <1>0, <1>4, <1>idle, MovedTypes DEF CompileNothing
<1>5. CASE Generate(a)
  <2> DEFINE n == [m EXCEPT !.at = "validate", !.id = NextId(results), !.cycles = m.cycles - 1]
  <2>1. NextId(results) \in Nat
    BY NextIdIsNew DEF WikiTypeOK
  <2>2. m.cycles > 0
    BY <1>0, <1>5 DEF Apt, Generate
  <2>3. Apt(n)
    <3>1. ASSUME NEW i \in Nat, NEW c \in Nat
          PROVE  Apt([m EXCEPT !.at = "validate", !.id = i, !.cycles = c])
      BY <1>0 DEF Apt, RunState, Places
    <3>2. m.cycles - 1 \in Nat
      BY <1>0, <2>2
    <3>3. QED
      BY <2>1, <3>1, <3>2
  <2>4. Moves(a, n)
    BY <1>5 DEF Generate
  <2> HIDE DEF n
  <2>5. QED
    BY <1>0, <1>5, <2>3, <2>4, MovedTypes DEF Generate
<1>6. CASE GenerateNothing(a)
  <2> DEFINE n == [m EXCEPT !.cycles = m.cycles - 1]
  <2>1. m.cycles > 0
    BY <1>0, <1>6 DEF Apt, GenerateNothing
  <2>2. n.cycles \in Nat
    BY <1>0, <2>1 DEF RunState
  <2>3. Apt(Done(n))
    <3> HIDE DEF n
    <3>1. QED
      BY <2>2, DoneIsApt
  <2>4. QED
    BY <1>0, <1>6, <2>3, MovedTypes DEF GenerateNothing
<1>7. CASE ValidateCrashes(a)
  <2>1. [id |-> m.id, status |-> "crash"] \in Rows
    BY <1>0 DEF Rows
  <2>2. QED
    BY <1>0, <1>7, <2>1, DoneIsApt, LoggedTypes DEF ValidateCrashes
<1>8. CASE WriteHypothesis(a)
  <2>1. PICK s \in Answers :
          /\ wiki' = wiki \union {Hypothesis(m.id, s)}
          /\ Moves(a, [m EXCEPT !.at = "log", !.status = s])
    BY <1>8 DEF WriteHypothesis
  <2>2. Apt([m EXCEPT !.at = "log", !.status = s])
    BY <1>0 DEF Apt, RunState, Places
  <2>3. {Hypothesis(m.id, s)} \in SUBSET WikiFiles /\ Hypothesis(m.id, s)[1] # "dispute"
    BY <1>0 DEF Hypothesis, WikiFiles
  <2>4. QED
    BY <1>8, <2>1, <2>2, <2>3, WritesTypes DEF WriteHypothesis
<1>9. CASE LogResult(a)
  <2>1. [id |-> m.id, status |-> m.status] \in Rows
    BY <1>0, <1>9 DEF Rows, Apt, LogResult
  <2>2. Apt([m EXCEPT !.at = "glob", !.id = 0, !.status = "none"])
    BY <1>0 DEF Apt, RunState, Places
  <2>3. QED
    BY <1>9, <2>1, <2>2, LoggedTypes DEF LogResult, Logged
<1>10. CASE Lint(a)
  <2>1. PICK k \in 0 .. 1 : WriteDisputes(k) /\ Moves(a, AfterLint(k))
    BY <1>10 DEF Lint
  <2>2. faults' \in Nat
    BY <1>10 DEF Lint, WikiTypeOK
  <2>3. QED
    BY <1>10, <1>idle, <2>1, <2>2, DisputesTypes DEF Lint, AfterLint
<1>11. CASE Scout(a)
  BY <1>0, <1>11, <1>idle, MovedTypes DEF Scout
<1>12. CASE GlobFiles(a)
  <2>1. Apt([m EXCEPT !.at = "page", !.seen = wiki])
    BY <1>0 DEF Apt, RunState, Places
  <2>2. QED
    BY <1>0, <1>12, <2>1, MovedTypes DEF GlobFiles
<1>13. CASE WriteIndex(a)
  <2>1. Apt([m EXCEPT !.at = "scan", !.seen = {}]) /\ Apt(Done(m))
    BY <1>0, DoneIsApt DEF Apt, RunState, Places
  <2>2. index' \in SUBSET WikiFiles
    BY <1>0, <1>13 DEF WriteIndex, Listed
  <2>3. PICK n : Apt(n) /\ Moves(a, n)
    BY <1>13, <2>1 DEF WriteIndex
  <2>4. QED
    BY <1>0, <1>13, <2>2, <2>3, MovedTypes DEF WriteIndex
<1>14. CASE ScanFiles(a)
  <2>1. Apt([m EXCEPT !.at = "commit", !.seen = wiki, !.had = found])
    BY <1>0 DEF Apt, RunState, Places
  <2>2. QED
    BY <1>0, <1>14, <2>1, MovedTypes DEF ScanFiles
<1>15. CASE CommitFound(a)
  <2>1. found' \in SUBSET WikiFiles
    BY <1>0, <1>15 DEF CommitFound
  <2>2. QED
    BY <1>0, <1>15, <2>1, DoneIsApt, MovedTypes DEF CommitFound
<1>16. QED
  BY <1>1, <1>2, <1>3, <1>4, <1>5, <1>6, <1>7, <1>8, <1>9, <1>10, <1>11, <1>12, <1>13,
     <1>14, <1>15 DEF Runs

(* An agent that dies or raises: its step is not undone, only left.        *)
LEMMA FaultTypes ==
  ASSUME WikiTypeOK, NEW a \in Agents, NEW m, Apt(m), Moves(a, m),
         index' \in Abandoned(agent[a]), faults' = faults + 1,
         UNCHANGED <<raw, wiki, results, found, starts>>
  PROVE  WikiTypeOK'
<1>1. agent' \in [Agents -> RunState] /\ \A b \in Agents : Apt(agent'[b])
  BY MovesAgent
<1>2. index' \in SUBSET WikiFiles /\ faults' \in Nat
  BY DEF Abandoned, WikiTypeOK
<1>3. QED
  BY <1>1, <1>2 DEF WikiTypeOK, Of

LEMMA WikiTypesStart ==
  WikiInit => WikiTypeOK
<1> SUFFICES ASSUME WikiInit PROVE WikiTypeOK
  OBVIOUS
<1>1. wiki \in SUBSET WikiFiles
  BY WikiAssumption DEF WikiInit, Concept, WikiFiles
<1>2. Of("dispute") = {}
  BY DEF WikiInit, Of, Concept
<1>3. agent \in [Agents -> RunState] /\ \A a \in Agents : Apt(agent[a])
  BY IdleIsApt DEF WikiInit, Apt
<1>4. QED
  BY <1>1, <1>2, <1>3, FS_EmptySet DEF WikiInit, WikiTypeOK

LEMMA WikiTypesKept ==
  WikiTypeOK /\ [WikiNext]_wikiVars => WikiTypeOK'
<1> SUFFICES ASSUME WikiTypeOK, [WikiNext]_wikiVars PROVE WikiTypeOK'
  OBVIOUS
<1>0. \A p \in {"compile", "lint", "scout", "glob", "scan"} : Apt([Idle EXCEPT !.at = p])
  BY IdleIsApt DEF Places
<1>1. ASSUME NEW a \in Agents, StartIngestion(a) PROVE WikiTypeOK'
  <2>1. PICK known \in KnownSources :
          /\ raw \ known # {}
          /\ Asked(a, [Idle EXCEPT !.at = "ingest", !.todo = raw \ known])
    BY <1>1 DEF StartIngestion
  <2>2. Apt([Idle EXCEPT !.at = "ingest", !.todo = raw \ known])
    BY <2>1 DEF Apt, RunState, Places, Idle, WikiTypeOK
  <2>3. QED
    BY <2>1, <2>2, AskedTypes
<1>2. ASSUME NEW a \in Agents, StartCompiler(a) PROVE WikiTypeOK'
  BY <1>0, <1>2, AskedTypes DEF StartCompiler
<1>3. ASSUME NEW a \in Agents, StartLoop(a) PROVE WikiTypeOK'
  <2>1. PICK n \in 1 .. MaxLoop : Asked(a, [Idle EXCEPT !.at = "generate", !.cycles = n])
    BY <1>3 DEF StartLoop
  <2>2. n \in Nat /\ n > 0
    BY WikiAssumption
  <2>3. Apt([Idle EXCEPT !.at = "generate", !.cycles = n])
    BY <2>2 DEF Apt, RunState, Places, Idle
  <2>4. QED
    BY <2>1, <2>3, AskedTypes
<1>4. ASSUME NEW a \in Agents, StartLinter(a) \/ StartScout(a) PROVE WikiTypeOK'
  <2>1. index \in SUBSET WikiFiles /\ found \in SUBSET WikiFiles
    BY DEF WikiTypeOK
  <2>2. QED
    BY <1>0, <1>4, <2>1, MovedTypes DEF StartLinter, StartScout
<1>5. ASSUME NEW a \in Agents, AskIndex(a) PROVE WikiTypeOK'
  <2>1. Apt([Idle EXCEPT !.at = "glob", !.search = FALSE])
    BY DEF Apt, RunState, Places, Idle
  <2>2. QED
    BY <1>5, <2>1, AskedTypes DEF AskIndex
<1>6. ASSUME NEW a \in Agents, AskReindex(a) PROVE WikiTypeOK'
  BY <1>0, <1>6, AskedTypes DEF AskReindex
<1>7. ASSUME NEW a \in Agents, AgentDies(a) PROVE WikiTypeOK'
  BY <1>7, IdleIsApt, FaultTypes DEF AgentDies
<1>12. ASSUME NEW a \in Agents, Raises(a) PROVE WikiTypeOK'
  <2>1. agent[a].cycles \in Nat
    BY DEF WikiTypeOK, RunState
  <2>2. Apt(Done(agent[a]))
    BY <2>1, DoneIsApt
  <2>3. QED
    BY <1>12, <2>2, FaultTypes DEF Raises
<1>13. ASSUME NEW a \in Agents, LintRaises(a) PROVE WikiTypeOK'
  <2>1. PICK k \in 0 .. 1 : WriteDisputes(k) /\ Moves(a, Idle)
    BY <1>13 DEF LintRaises
  <2>2. faults' \in Nat
    BY <1>13 DEF LintRaises, WikiTypeOK
  <2>3. QED
    BY <1>13, <2>1, <2>2, IdleIsApt, DisputesTypes DEF LintRaises
<1>8. CASE AddRaw
  BY <1>8 DEF AddRaw, WikiTypeOK, Of
<1>9. CASE SettleDispute
  <2>1. PICK x \in Of("dispute") : wiki' = wiki \ {x}
    BY <1>9 DEF SettleDispute
  <2>2. Of("dispute")' \subseteq Of("dispute") /\ wiki' \subseteq wiki
    BY <2>1 DEF Of
  <2>3. IsFiniteSet(Of("dispute")')
    BY <2>2, FS_Subset DEF WikiTypeOK
  <2>4. QED
    BY <1>9, <2>2, <2>3 DEF SettleDispute, WikiTypeOK
<1>10. CASE UNCHANGED wikiVars
  BY <1>10 DEF wikiVars, WikiTypeOK, Of
<1>11. QED
  BY <1>1, <1>2, <1>3, <1>4, <1>5, <1>6, <1>7, <1>8, <1>9, <1>10, <1>12, <1>13, RunsKeepTypes
     DEF WikiNext

(* Whatever the agents do, and wherever they die or raise, files, log,     *)
(* index, table and runs keep their types; an ingestion has a file at      *)
(* hand, a loop a cycle left, and only what a validator answered is        *)
(* logged.                                                                 *)
THEOREM WikiTypeCorrect == WikiSpec => []WikiTypeOK
BY WikiTypesStart, WikiTypesKept, PTL DEF WikiSpec

-----------------------------------------------------------------------------
(* What a step does to the log and the hypotheses.                         *)

Busy(m) == m.at \in {"validate", "log"}

Others(a) == \A b \in Agents \ {a} : agent'[b] = agent[b]

Elsewhere ==
    /\ results' = results /\ Of("hypothesis")' = Of("hypothesis") /\ faults' = faults
    /\ \A b \in Agents : agent'[b] = agent[b] \/ (~ Busy(agent[b]) /\ ~ Busy(agent'[b]))

TakesId(a) ==
    /\ ~ Busy(agent[a]) /\ agent'[a].at = "validate" /\ agent'[a].id = NextId(results)
    /\ Others(a)
    /\ results' = results /\ Of("hypothesis")' = Of("hypothesis") /\ faults' = faults

Crashes(a) ==
    /\ agent[a].at = "validate" /\ ~ Busy(agent'[a]) /\ Others(a)
    /\ results' = Append(results, [id |-> agent[a].id, status |-> "crash"])
    /\ Of("hypothesis")' = Of("hypothesis") /\ faults' = faults

Writes(a) ==
    \E s \in Answers :
        /\ agent[a].at = "validate" /\ Others(a)
        /\ agent'[a].at = "log" /\ agent'[a].id = agent[a].id /\ agent'[a].status = s
        /\ Of("hypothesis")' = Of("hypothesis") \union {Hypothesis(agent[a].id, s)}
        /\ results' = results /\ faults' = faults

Logs(a) ==
    /\ agent[a].at = "log" /\ ~ Busy(agent'[a]) /\ Others(a)
    /\ results' = Append(results, [id |-> agent[a].id, status |-> agent[a].status])
    /\ Of("hypothesis")' = Of("hypothesis") /\ faults' = faults

Fails(a) ==
    /\ ~ Busy(agent'[a]) /\ Others(a) /\ faults' = faults + 1
    /\ results' = results /\ Of("hypothesis")' = Of("hypothesis")

LEMMA MovesElsewhere ==
  ASSUME WikiTypeOK, NEW a \in Agents, NEW m, Moves(a, m), ~ Busy(agent[a]), ~ Busy(m),
         results' = results, Of("hypothesis")' = Of("hypothesis"), faults' = faults
  PROVE  Elsewhere
BY MovesAgent DEF Elsewhere

LEMMA DisputesElsewhere ==
  ASSUME NEW k, WriteDisputes(k)
  PROVE  Of("hypothesis")' = Of("hypothesis")
<1> DEFINE new == {Dispute(Cardinality(Of("dispute")) + i) : i \in 1 .. k}
<1>1. \A x \in new : x[1] # "hypothesis"
  BY DEF Dispute
<1>2. wiki' = wiki \union new
  BY DEF WriteDisputes
<1> HIDE DEF new
<1>3. QED
  BY <1>1, <1>2 DEF Of

LEMMA RunsEffects ==
  ASSUME WikiTypeOK, NEW a \in Agents, Runs(a)
  PROVE  Elsewhere \/ TakesId(a) \/ Crashes(a) \/ Writes(a) \/ Logs(a)
<1> DEFINE m == agent[a]
<1>0. Apt(m) /\ m \in RunState /\ m.cycles \in Nat
  BY DEF WikiTypeOK, Apt, RunState
<1>idle. ~ Busy(Idle) /\ ~ Busy([Idle EXCEPT !.at = "glob"])
  BY DEF Busy, Idle
<1>same. UNCHANGED wiki => Of("hypothesis")' = Of("hypothesis")
  BY DEF Of
<1>1. CASE IngestNothing(a)
  <2>1. ~ Busy(NextFile(m, m.wrote)) /\ ~ Busy(m)
    BY <1>0, <1>1, NextFileIsApt DEF IngestNothing, Busy, RunState
  <2>2. QED
    BY <1>1, <1>same, <2>1, MovesElsewhere DEF IngestNothing
<1>2. CASE IngestFile(a)
  <2>1. ~ Busy(NextFile(m, TRUE)) /\ ~ Busy(m)
    BY <1>0, <1>2, NextFileIsApt DEF IngestFile, Busy
  <2>2. Of("hypothesis")' = Of("hypothesis")
    BY <1>2 DEF IngestFile, Of, Summary
  <2>3. QED
    BY <1>2, <2>1, <2>2, MovesElsewhere DEF IngestFile
<1>3. CASE CompileConcepts(a)
  <2>1. Of("hypothesis")' = Of("hypothesis")
    BY <1>3 DEF CompileConcepts, Of, Concept
  <2>2. ~ Busy(m)
    BY <1>3 DEF CompileConcepts, Busy
  <2>3. QED
    BY <1>3, <1>idle, <2>1, <2>2, MovesElsewhere DEF CompileConcepts
<1>4. CASE CompileNothing(a)
  <2>1. ~ Busy(m)
    BY <1>4 DEF CompileNothing, Busy
  <2>2. QED
    BY <1>4, <1>idle, <1>same, <2>1, MovesElsewhere DEF CompileNothing
<1>5. CASE Generate(a)
  <2> DEFINE n == [m EXCEPT !.at = "validate", !.id = NextId(results), !.cycles = m.cycles - 1]
  <2>1. n.at = "validate" /\ n.id = NextId(results)
    BY <1>0 DEF RunState
  <2>2. Moves(a, n)
    BY <1>5 DEF Generate
  <2> HIDE DEF n
  <2>3. agent'[a] = n /\ Others(a)
    BY <2>2, MovesAgent DEF Others
  <2>4. TakesId(a)
    BY <1>5, <1>same, <2>1, <2>3 DEF Generate, TakesId, Busy
  <2>5. QED
    BY <2>4
<1>6. CASE GenerateNothing(a)
  <2> DEFINE n == [m EXCEPT !.cycles = m.cycles - 1]
  <2>1. m.cycles > 0
    BY <1>0, <1>6 DEF Apt, GenerateNothing
  <2>2. n.cycles \in Nat
    BY <1>0, <2>1 DEF RunState
  <2>3. ~ Busy(Done(n)) /\ ~ Busy(m)
    <3> HIDE DEF n
    <3>1. QED
      BY <1>6, <2>2, DoneIsApt DEF Busy, GenerateNothing
  <2>4. QED
    BY <1>6, <1>same, <2>3, MovesElsewhere DEF GenerateNothing
<1>7. CASE ValidateCrashes(a)
  <2>1. ~ Busy(Done(m))
    BY <1>0, DoneIsApt DEF Busy
  <2>2. agent'[a] = Done(m) /\ Others(a)
    BY <1>7, MovesAgent DEF ValidateCrashes, Others
  <2>3. Crashes(a)
    BY <1>7, <1>same, <2>1, <2>2 DEF ValidateCrashes, Crashes
  <2>4. QED
    BY <2>3
<1>8. CASE WriteHypothesis(a)
  <2>1. PICK s \in Answers :
          /\ wiki' = wiki \union {Hypothesis(m.id, s)}
          /\ Moves(a, [m EXCEPT !.at = "log", !.status = s])
    BY <1>8 DEF WriteHypothesis
  <2>2. agent'[a] = [m EXCEPT !.at = "log", !.status = s] /\ Others(a)
    BY <2>1, MovesAgent DEF Others
  <2>3. agent'[a].at = "log" /\ agent'[a].id = m.id /\ agent'[a].status = s
    BY <1>0, <2>2 DEF RunState
  <2>4. Of("hypothesis")' = Of("hypothesis") \union {Hypothesis(m.id, s)}
    BY <2>1 DEF Of, Hypothesis
  <2>5. Writes(a)
    BY <1>8, <2>2, <2>3, <2>4 DEF WriteHypothesis, Writes
  <2>6. QED
    BY <2>5
<1>9. CASE LogResult(a)
  <2>1. agent'[a] = [m EXCEPT !.at = "glob", !.id = 0, !.status = "none"] /\ Others(a)
    BY <1>9, MovesAgent DEF LogResult, Others
  <2>2. ~ Busy(agent'[a])
    BY <1>0, <2>1 DEF Busy, RunState
  <2>3. Logs(a)
    BY <1>9, <1>same, <2>1, <2>2 DEF LogResult, Logged, Logs
  <2>4. QED
    BY <2>3
<1>10. CASE Lint(a)
  <2>1. PICK k : WriteDisputes(k) /\ Moves(a, AfterLint(k))
    BY <1>10 DEF Lint
  <2>2. Of("hypothesis")' = Of("hypothesis")
    BY <2>1, DisputesElsewhere
  <2>3. ~ Busy(m)
    BY <1>10 DEF Lint, Busy
  <2>4. QED
    BY <1>10, <1>idle, <2>1, <2>2, <2>3, MovesElsewhere DEF Lint, AfterLint
<1>11. CASE Scout(a)
  <2>1. ~ Busy(m)
    BY <1>11 DEF Scout, Busy
  <2>2. QED
    BY <1>11, <1>idle, <1>same, <2>1, MovesElsewhere DEF Scout
<1>12. CASE GlobFiles(a)
  <2>1. ~ Busy(m) /\ ~ Busy([m EXCEPT !.at = "page", !.seen = wiki])
    BY <1>0, <1>12 DEF GlobFiles, Busy, RunState
  <2>2. QED
    BY <1>12, <1>same, <2>1, MovesElsewhere DEF GlobFiles
<1>13. CASE WriteIndex(a)
  <2>1. /\ ~ Busy(m) /\ ~ Busy([m EXCEPT !.at = "scan", !.seen = {}])
        /\ ~ Busy(Done(m))
    BY <1>0, <1>13, DoneIsApt DEF WriteIndex, Busy, RunState
  <2>2. PICK n : ~ Busy(n) /\ Moves(a, n)
    BY <1>13, <2>1 DEF WriteIndex
  <2>3. QED
    BY <1>13, <1>same, <2>1, <2>2, MovesElsewhere DEF WriteIndex
<1>14. CASE ScanFiles(a)
  <2>1. ~ Busy(m) /\ ~ Busy([m EXCEPT !.at = "commit", !.seen = wiki, !.had = found])
    BY <1>0, <1>14 DEF ScanFiles, Busy, RunState
  <2>2. QED
    BY <1>14, <1>same, <2>1, MovesElsewhere DEF ScanFiles
<1>15. CASE CommitFound(a)
  <2>1. ~ Busy(m) /\ ~ Busy(Done(m))
    BY <1>0, <1>15, DoneIsApt DEF CommitFound, Busy
  <2>2. QED
    BY <1>15, <1>same, <2>1, MovesElsewhere DEF CommitFound
<1>16. QED
  BY <1>1, <1>2, <1>3, <1>4, <1>5, <1>6, <1>7, <1>8, <1>9, <1>10, <1>11, <1>12, <1>13,
     <1>14, <1>15 DEF Runs

LEMMA AskedElsewhere ==
  ASSUME WikiTypeOK, NEW a \in Agents, NEW m, Asked(a, m), ~ Busy(m)
  PROVE  Elsewhere
BY MovesElsewhere DEF Asked, Of, Busy, Idle

LEMMA WikiEffects ==
  ASSUME WikiTypeOK, [WikiNext]_wikiVars
  PROVE  \/ Elsewhere
         \/ \E a \in Agents :
                TakesId(a) \/ Crashes(a) \/ Writes(a) \/ Logs(a) \/ Fails(a)
<1>idle. /\ ~ Busy(Idle)
         /\ \A p \in {"compile", "lint", "scout", "glob", "scan"} : ~ Busy([Idle EXCEPT !.at = p])
  BY DEF Busy, Idle
<1>1. ASSUME NEW a \in Agents, StartIngestion(a) PROVE Elsewhere
  <2>1. PICK known : Asked(a, [Idle EXCEPT !.at = "ingest", !.todo = raw \ known])
    BY <1>1 DEF StartIngestion
  <2>2. ~ Busy([Idle EXCEPT !.at = "ingest", !.todo = raw \ known])
    BY DEF Busy, Idle
  <2>3. QED
    BY <2>1, <2>2, AskedElsewhere
<1>2. ASSUME NEW a \in Agents, StartCompiler(a) PROVE Elsewhere
  BY <1>2, <1>idle, AskedElsewhere DEF StartCompiler
<1>3. ASSUME NEW a \in Agents, StartLoop(a) PROVE Elsewhere
  <2>1. PICK n : Asked(a, [Idle EXCEPT !.at = "generate", !.cycles = n])
    BY <1>3 DEF StartLoop
  <2>2. ~ Busy([Idle EXCEPT !.at = "generate", !.cycles = n])
    BY DEF Busy, Idle
  <2>3. QED
    BY <2>1, <2>2, AskedElsewhere
<1>4. ASSUME NEW a \in Agents, StartLinter(a) \/ StartScout(a) PROVE Elsewhere
  BY <1>4, <1>idle, MovesElsewhere DEF StartLinter, StartScout, Of
<1>5. ASSUME NEW a \in Agents, AskIndex(a) PROVE Elsewhere
  <2>1. ~ Busy([Idle EXCEPT !.at = "glob", !.search = FALSE])
    BY DEF Busy, Idle
  <2>2. QED
    BY <1>5, <2>1, AskedElsewhere DEF AskIndex
<1>6. ASSUME NEW a \in Agents, AskReindex(a) PROVE Elsewhere
  BY <1>6, <1>idle, AskedElsewhere DEF AskReindex
<1>7. ASSUME NEW a \in Agents, AgentDies(a) PROVE Fails(a)
  <2>1. agent'[a] = Idle /\ Others(a)
    BY <1>7, MovesAgent DEF AgentDies, Others
  <2>2. QED
    BY <1>7, <1>idle, <2>1 DEF AgentDies, Fails, Of
<1>12. ASSUME NEW a \in Agents, Raises(a) PROVE Fails(a)
  <2>1. agent'[a] = Done(agent[a]) /\ Others(a)
    BY <1>12, MovesAgent DEF Raises, Others
  <2>2. agent[a].cycles \in Nat
    BY DEF WikiTypeOK, RunState
  <2>3. ~ Busy(Done(agent[a]))
    BY <2>2, DoneIsApt DEF Busy
  <2>4. QED
    BY <1>12, <2>1, <2>3 DEF Raises, Fails, Of
<1>13. ASSUME NEW a \in Agents, LintRaises(a) PROVE Fails(a)
  <2>1. PICK k : WriteDisputes(k) /\ Moves(a, Idle)
    BY <1>13 DEF LintRaises
  <2>2. agent'[a] = Idle /\ Others(a) /\ Of("hypothesis")' = Of("hypothesis")
    BY <2>1, MovesAgent, DisputesElsewhere DEF Others
  <2>3. QED
    BY <1>13, <1>idle, <2>2 DEF LintRaises, Fails
<1>8. CASE AddRaw
  BY <1>8 DEF AddRaw, Elsewhere, Of
<1>9. CASE SettleDispute
  <2>1. Of("hypothesis")' = Of("hypothesis")
    BY <1>9 DEF SettleDispute, Of
  <2>2. QED
    BY <1>9, <2>1 DEF SettleDispute, Elsewhere
<1>10. CASE UNCHANGED wikiVars
  BY <1>10 DEF wikiVars, Elsewhere, Of
<1>11. QED
  BY <1>1, <1>2, <1>3, <1>4, <1>5, <1>6, <1>7, <1>8, <1>9, <1>10, <1>12, <1>13, RunsEffects
     DEF WikiNext

-----------------------------------------------------------------------------
(* Ids are shared by no more rows than there are agents.  The rows with an *)
(* id and the agents that hold it are together never more: an agent takes  *)
(* an id only while no row has it.                                         *)

RowsWith(i) == {n \in DOMAIN results : results[n].id = i}

Holders(i) == {a \in Agents : Busy(agent[a]) /\ agent[a].id = i}

IdInv == \A i \in Nat :
             Cardinality(RowsWith(i)) + Cardinality(Holders(i)) <= Cardinality(Agents)

LEMMA SharesAreFinite ==
  ASSUME WikiTypeOK, NEW i
  PROVE  /\ IsFiniteSet(RowsWith(i)) /\ Cardinality(RowsWith(i)) \in Nat
         /\ IsFiniteSet(Holders(i)) /\ Cardinality(Holders(i)) \in Nat
         /\ Cardinality(Agents) \in Nat
         /\ Cardinality(Holders(i)) <= Cardinality(Agents)
<1>1. IsFiniteSet(DOMAIN results)
  <2>1. DOMAIN results = 1 .. Len(results) /\ Len(results) \in Nat
    BY DEF WikiTypeOK
  <2>2. QED
    BY <2>1, FS_Interval
<1>2. RowsWith(i) \subseteq DOMAIN results /\ Holders(i) \subseteq Agents
  BY DEF RowsWith, Holders
<1>3. QED
  BY <1>1, <1>2, WikiAssumption, FS_Subset, FS_CardinalityType

(* Nobody new holds an id.                                                 *)
LEMMA HoldersShrink ==
  ASSUME NEW i, \A b \in Agents : agent'[b] = agent[b] \/ ~ Busy(agent'[b])
  PROVE  Holders(i)' \subseteq Holders(i)
BY DEF Holders

LEMMA AppendedRows ==
  ASSUME WikiTypeOK, NEW row \in Rows, results' = Append(results, row), NEW i
  PROVE  /\ row.id # i => RowsWith(i)' = RowsWith(i)
         /\ row.id = i => /\ RowsWith(i)' = RowsWith(i) \union {Len(results) + 1}
                          /\ Len(results) + 1 \notin RowsWith(i)
<1>1. /\ DOMAIN results = 1 .. Len(results) /\ Len(results) \in Nat
      /\ DOMAIN results' = 1 .. Len(results) + 1
      /\ results'[Len(results) + 1] = row
      /\ \A n \in 1 .. Len(results) : results'[n] = results[n]
  BY DEF WikiTypeOK
<1>2. \A n : n \in DOMAIN results' <=> n \in DOMAIN results \/ n = Len(results) + 1
  BY <1>1
<1>3. Len(results) + 1 \notin DOMAIN results
  BY <1>1
<1>4. \A n \in DOMAIN results : results'[n] = results[n]
  BY <1>1
<1>5. RowsWith(i)' = {n \in DOMAIN results' : results'[n].id = i}
  BY DEF RowsWith
<1> DEFINE last == Len(results) + 1
<1> HIDE DEF last
<1>6. /\ \A n : n \in DOMAIN results' <=> n \in DOMAIN results \/ n = last
      /\ last \notin DOMAIN results /\ results'[last] = row
  BY <1>1, <1>2, <1>3 DEF last
<1>7. /\ row.id # i => RowsWith(i)' = RowsWith(i)
      /\ row.id = i => RowsWith(i)' = RowsWith(i) \union {last} /\ last \notin RowsWith(i)
  BY <1>4, <1>5, <1>6 DEF RowsWith
<1>8. QED
  BY <1>7 DEF last

(* An agent that puts its row into the log no longer holds the id.         *)
LEMMA PassesOn ==
  ASSUME WikiTypeOK, WikiTypeOK', IdInv, NEW a \in Agents, Busy(agent[a]), ~ Busy(agent'[a]),
         Others(a), NEW row \in Rows, row.id = agent[a].id, results' = Append(results, row)
  PROVE  IdInv'
<1> SUFFICES ASSUME NEW i \in Nat
             PROVE  Cardinality(RowsWith(i)') + Cardinality(Holders(i)')
                      <= Cardinality(Agents)
  BY DEF IdInv
<1>1. Cardinality(RowsWith(i)) + Cardinality(Holders(i)) <= Cardinality(Agents)
  BY DEF IdInv
<1>2. Holders(i)' \subseteq Holders(i) /\ a \notin Holders(i)'
  BY HoldersShrink DEF Others, Holders
<1>3. /\ IsFiniteSet(RowsWith(i)) /\ Cardinality(RowsWith(i)) \in Nat
      /\ IsFiniteSet(Holders(i)) /\ Cardinality(Holders(i)) \in Nat
      /\ Cardinality(Agents) \in Nat
  BY SharesAreFinite
<1>4. IsFiniteSet(Holders(i)') /\ Cardinality(Holders(i)') \in Nat
      /\ Cardinality(Holders(i)') <= Cardinality(Holders(i))
  BY <1>2, <1>3, FS_Subset, FS_CardinalityType
<1>5. CASE row.id # i
  <2>1. RowsWith(i)' = RowsWith(i)
    BY <1>5, AppendedRows
  <2>2. QED
    BY <1>1, <1>3, <1>4, <2>1
<1>6. CASE row.id = i
  <2>1. Cardinality(RowsWith(i)') = Cardinality(RowsWith(i)) + 1
    BY <1>3, <1>6, AppendedRows, FS_AddElement
  <2>2. a \in Holders(i)
    BY <1>6 DEF Holders
  <2>3. Cardinality(Holders(i) \ {a}) = Cardinality(Holders(i)) - 1
        /\ IsFiniteSet(Holders(i) \ {a})
    BY <1>3, <2>2, FS_RemoveElement
  <2>4. Holders(i)' \subseteq Holders(i) \ {a}
    BY <1>2
  <2>5. Cardinality(Holders(i)') <= Cardinality(Holders(i)) - 1
    BY <2>3, <2>4, FS_Subset
  <2>6. QED
    BY <1>1, <1>3, <1>4, <2>1, <2>5
<1>7. QED
  BY <1>5, <1>6

LEMMA IdInvStarts ==
  WikiInit => IdInv
<1> SUFFICES ASSUME WikiInit, NEW i \in Nat
             PROVE  Cardinality(RowsWith(i)) + Cardinality(Holders(i)) <= Cardinality(Agents)
  BY DEF IdInv
<1>1. RowsWith(i) = {} /\ Holders(i) = {}
  BY DEF WikiInit, RowsWith, Holders, Busy, Idle
<1>2. Cardinality(Agents) \in Nat
  BY WikiAssumption, FS_CardinalityType
<1>3. QED
  BY <1>1, <1>2, FS_EmptySet

LEMMA IdInvKept ==
  ASSUME WikiTypeOK, WikiTypeOK', IdInv, [WikiNext]_wikiVars
  PROVE  IdInv'
<1>1. ASSUME results' = results,
             \A b \in Agents : agent'[b] = agent[b] \/ ~ Busy(agent'[b])
      PROVE  IdInv'
  <2> SUFFICES ASSUME NEW i \in Nat
               PROVE  Cardinality(RowsWith(i)') + Cardinality(Holders(i)')
                        <= Cardinality(Agents)
    BY DEF IdInv
  <2>1. RowsWith(i)' = RowsWith(i)
    BY <1>1 DEF RowsWith
  <2>2. Holders(i)' \subseteq Holders(i)
    BY <1>1, HoldersShrink
  <2>3. /\ Cardinality(RowsWith(i)) \in Nat /\ Cardinality(Agents) \in Nat
        /\ IsFiniteSet(Holders(i)) /\ Cardinality(Holders(i)) \in Nat
    BY SharesAreFinite
  <2>4. Cardinality(Holders(i)') <= Cardinality(Holders(i)) /\ Cardinality(Holders(i)') \in Nat
    BY <2>2, <2>3, FS_Subset, FS_CardinalityType
  <2>5. QED
    BY <2>1, <2>3, <2>4 DEF IdInv
<1>2. CASE Elsewhere
  BY <1>1, <1>2 DEF Elsewhere
<1>3. ASSUME NEW a \in Agents, TakesId(a) PROVE IdInv'
  <2> SUFFICES ASSUME NEW i \in Nat
               PROVE  Cardinality(RowsWith(i)') + Cardinality(Holders(i)')
                        <= Cardinality(Agents)
    BY DEF IdInv
  <2>1. RowsWith(i)' = RowsWith(i)
    BY <1>3 DEF TakesId, RowsWith
  <2>2. /\ Cardinality(RowsWith(i)) \in Nat /\ Cardinality(Agents) \in Nat
        /\ IsFiniteSet(Holders(i)) /\ Cardinality(Holders(i)) \in Nat
        /\ Cardinality(RowsWith(i)) + Cardinality(Holders(i)) <= Cardinality(Agents)
    BY SharesAreFinite DEF IdInv
  <2>3. CASE i = NextId(results)
    <3>1. i \notin Ids(results)
      BY <2>3, NextIdIsNew DEF WikiTypeOK
    <3>2. RowsWith(i) = {}
      BY <3>1 DEF RowsWith, Ids
    <3>3. Cardinality(RowsWith(i)) = 0
      BY <3>2, FS_EmptySet
    <3>4. Holders(i)' \subseteq Agents
      BY DEF Holders
    <3>5. Cardinality(Holders(i)') <= Cardinality(Agents) /\ Cardinality(Holders(i)') \in Nat
      BY <3>4, WikiAssumption, FS_Subset, FS_CardinalityType
    <3>6. QED
      BY <2>1, <2>2, <3>3, <3>5
  <2>4. CASE i # NextId(results)
    <3>1. Holders(i)' \subseteq Holders(i)
      BY <1>3, <2>4 DEF TakesId, Others, Holders
    <3>2. Cardinality(Holders(i)') <= Cardinality(Holders(i)) /\ Cardinality(Holders(i)') \in Nat
      BY <2>2, <3>1, FS_Subset, FS_CardinalityType
    <3>3. QED
      BY <2>1, <2>2, <3>2
  <2>5. QED
    BY <2>3, <2>4
<1>4. ASSUME NEW a \in Agents, Crashes(a) \/ Logs(a) PROVE IdInv'
  <2>1. Apt(agent[a])
    BY DEF WikiTypeOK
  <2>2. /\ [id |-> agent[a].id, status |-> "crash"] \in Rows
        /\ agent[a].at = "log" => [id |-> agent[a].id, status |-> agent[a].status] \in Rows
    BY <2>1 DEF Apt, RunState, Rows
  <2>3. PICK row \in Rows : row.id = agent[a].id /\ results' = Append(results, row)
    BY <1>4, <2>2 DEF Crashes, Logs
  <2>4. Busy(agent[a]) /\ ~ Busy(agent'[a]) /\ Others(a)
    BY <1>4 DEF Crashes, Logs, Busy
  <2>5. QED
    BY <2>3, <2>4, PassesOn
<1>5. ASSUME NEW a \in Agents, Writes(a) PROVE IdInv'
  <2> SUFFICES ASSUME NEW i \in Nat
               PROVE  Cardinality(RowsWith(i)') + Cardinality(Holders(i)')
                        <= Cardinality(Agents)
    BY DEF IdInv
  <2>1. RowsWith(i)' = RowsWith(i)
    BY <1>5 DEF Writes, RowsWith
  <2>2. Holders(i)' = Holders(i)
    BY <1>5 DEF Writes, Others, Holders, Busy
  <2>3. QED
    BY <2>1, <2>2 DEF IdInv
<1>6. ASSUME NEW a \in Agents, Fails(a) PROVE IdInv'
  BY <1>1, <1>6 DEF Fails, Others
<1>7. QED
  BY <1>2, <1>3, <1>4, <1>5, <1>6, WikiEffects

(* The id of a hypothesis is read off the log long before its row is       *)
(* written, so agents share ids; but for any number of agents, and any     *)
(* faults, no more rows have an id than there are agents.                  *)
THEOREM IdsAreShared == WikiSpec => []IdSharing
<1>1. WikiTypeOK /\ IdInv => IdSharing
  <2> SUFFICES ASSUME WikiTypeOK, IdInv, NEW i \in Ids(results)
               PROVE  Cardinality(RowsWith(i)) <= Cardinality(Agents)
    BY DEF IdSharing, RowsWith
  <2>1. i \in Nat
    BY IdsAreFinite DEF WikiTypeOK
  <2>2. /\ Cardinality(RowsWith(i)) \in Nat /\ Cardinality(Holders(i)) \in Nat
        /\ Cardinality(Agents) \in Nat
    BY SharesAreFinite
  <2>3. QED
    BY <2>1, <2>2 DEF IdInv
<1>2. WikiTypeOK /\ WikiTypeOK' /\ IdInv /\ [WikiNext]_wikiVars => IdInv'
  BY IdInvKept
<1>3. QED
  BY <1>1, <1>2, IdInvStarts, WikiTypeCorrect, PTL DEF WikiSpec

-----------------------------------------------------------------------------
(* A hypothesis file without a row was left by an agent that died or whose *)
(* logging raised.  A file comes into the hands of the agent that wrote    *)
(* it, and goes from its hands to the log: only a fault leaves it to       *)
(* nobody.                                                                 *)

InLog(x) == \E n \in DOMAIN results : results[n] = [id |-> x[2], status |-> x[3]]

InHands(a, x) == agent[a].at = "log" /\ agent[a].id = x[2] /\ agent[a].status = x[3]

Unlogged == {x \in Of("hypothesis") : ~ (InLog(x) \/ \E a \in Agents : InHands(a, x))}

FileInv == IsFiniteSet(Unlogged) /\ Cardinality(Unlogged) <= faults

LEMMA HypothesisShape ==
  ASSUME WikiTypeOK, NEW x \in Of("hypothesis")
  PROVE  x = Hypothesis(x[2], x[3]) /\ x[2] \in Nat /\ x[3] \in Answers
<1>1. x \in WikiFiles /\ x[1] = "hypothesis"
  BY DEF Of, WikiTypeOK
<1>2. x \in {"hypothesis"} \X Nat \X Answers
  BY <1>1 DEF WikiFiles
<1>3. QED
  BY <1>2 DEF Hypothesis

LEMMA LogOnlyGrows ==
  ASSUME WikiTypeOK, NEW row \in Rows, results' = Append(results, row), NEW x
  PROVE  /\ InLog(x) => InLog(x)'
         /\ row = [id |-> x[2], status |-> x[3]] => InLog(x)'
<1>1. /\ DOMAIN results = 1 .. Len(results) /\ Len(results) \in Nat
      /\ DOMAIN results' = 1 .. Len(results) + 1
      /\ results'[Len(results) + 1] = row
      /\ \A n \in 1 .. Len(results) : results'[n] = results[n]
  BY DEF WikiTypeOK
<1>2. \A n \in DOMAIN results : n \in DOMAIN results' /\ results'[n] = results[n]
  BY <1>1
<1>3. Len(results) + 1 \in DOMAIN results'
  BY <1>1
<1>4. InLog(x) => InLog(x)'
  BY <1>2 DEF InLog
<1>5. row = [id |-> x[2], status |-> x[3]] => InLog(x)'
  BY <1>1, <1>3 DEF InLog
<1>6. QED
  BY <1>4, <1>5

(* A step after which no file is newly without a row.                      *)
LEMMA FilesKept ==
  ASSUME WikiTypeOK, FileInv, Unlogged' \subseteq Unlogged, faults' = faults
  PROVE  FileInv'
<1>1. IsFiniteSet(Unlogged') /\ Cardinality(Unlogged') <= Cardinality(Unlogged)
  BY FS_Subset DEF FileInv
<1>2. Cardinality(Unlogged') \in Nat /\ Cardinality(Unlogged) \in Nat /\ faults \in Nat
  BY <1>1, FS_CardinalityType DEF FileInv, WikiTypeOK
<1>3. QED
  BY <1>1, <1>2 DEF FileInv

LEMMA FileInvStarts ==
  WikiInit => FileInv
<1> SUFFICES ASSUME WikiInit PROVE FileInv
  OBVIOUS
<1>1. Unlogged = {}
  BY DEF WikiInit, Unlogged, Of, Concept
<1>2. QED
  BY <1>1, FS_EmptySet DEF WikiInit, FileInv

LEMMA FileInvKept ==
  ASSUME WikiTypeOK, WikiTypeOK', FileInv, [WikiNext]_wikiVars
  PROVE  FileInv'
<1>1. CASE Elsewhere
  <2>1. \A x : InLog(x)' = InLog(x)
    BY <1>1 DEF Elsewhere, InLog
  <2>2. ASSUME NEW x, NEW a \in Agents, InHands(a, x) PROVE InHands(a, x)'
    BY <1>1, <2>2 DEF Elsewhere, InHands, Busy
  <2>3. Unlogged' \subseteq Unlogged
    BY <1>1, <2>1, <2>2 DEF Elsewhere, Unlogged
  <2>4. QED
    BY <1>1, <2>3, FilesKept DEF Elsewhere
<1>2. ASSUME NEW a \in Agents, TakesId(a) PROVE FileInv'
  <2>1. \A x : InLog(x)' = InLog(x)
    BY <1>2 DEF TakesId, InLog
  <2>2. ASSUME NEW x, NEW b \in Agents, InHands(b, x) PROVE InHands(b, x)'
    BY <1>2, <2>2 DEF TakesId, Others, InHands, Busy
  <2>3. Unlogged' \subseteq Unlogged
    BY <1>2, <2>1, <2>2 DEF TakesId, Unlogged
  <2>4. QED
    BY <1>2, <2>3, FilesKept DEF TakesId
<1>3. ASSUME NEW a \in Agents, Crashes(a) \/ Logs(a) PROVE FileInv'
  <2>1. Apt(agent[a])
    BY DEF WikiTypeOK
  <2>2. PICK row \in Rows :
          /\ results' = Append(results, row)
          /\ Logs(a) => row = [id |-> agent[a].id, status |-> agent[a].status]
    <3>1. /\ [id |-> agent[a].id, status |-> "crash"] \in Rows
          /\ agent[a].at = "log" => [id |-> agent[a].id, status |-> agent[a].status] \in Rows
      BY <2>1 DEF Apt, RunState, Rows
    <3>2. CASE Logs(a)
      BY <3>1, <3>2 DEF Logs
    <3>3. CASE ~ Logs(a)
      BY <1>3, <3>1, <3>3 DEF Crashes
    <3>4. QED
      BY <3>2, <3>3
  <2>3. ASSUME NEW x, NEW b \in Agents, InHands(b, x), ~ InHands(b, x)'
        PROVE  InLog(x)'
    <3>1. b = a /\ Logs(a)
      BY <1>3, <2>3 DEF Crashes, Logs, Others, InHands
    <3>2. row = [id |-> x[2], status |-> x[3]]
      BY <2>2, <2>3, <3>1 DEF InHands
    <3>3. QED
      BY <2>2, <3>2, LogOnlyGrows
  <2>4. \A x : InLog(x) => InLog(x)'
    BY <2>2, LogOnlyGrows
  <2>5. Of("hypothesis")' = Of("hypothesis") /\ faults' = faults
    BY <1>3 DEF Crashes, Logs
  <2>6. Unlogged' \subseteq Unlogged
    BY <2>3, <2>4, <2>5 DEF Unlogged
  <2>7. QED
    BY <2>5, <2>6, FilesKept
<1>4. ASSUME NEW a \in Agents, Writes(a) PROVE FileInv'
  <2>1. PICK s \in Answers :
          /\ agent[a].at = "validate" /\ Others(a)
          /\ agent'[a].at = "log" /\ agent'[a].id = agent[a].id /\ agent'[a].status = s
          /\ Of("hypothesis")' = Of("hypothesis") \union {Hypothesis(agent[a].id, s)}
          /\ results' = results /\ faults' = faults
    BY <1>4 DEF Writes
  <2>2. \A x : InLog(x)' = InLog(x)
    BY <2>1 DEF InLog
  <2>3. ASSUME NEW x, NEW b \in Agents, InHands(b, x) PROVE InHands(b, x)'
    BY <2>1, <2>3 DEF Others, InHands
  <2>4. InHands(a, Hypothesis(agent[a].id, s))'
    <3>1. Hypothesis(agent[a].id, s)[2] = agent[a].id /\ Hypothesis(agent[a].id, s)[3] = s
      BY DEF Hypothesis
    <3>2. \A x : x[2] = agent[a].id /\ x[3] = s =>
            agent'[a].at = "log" /\ agent'[a].id = x[2] /\ agent'[a].status = x[3]
      BY <2>1
    <3>3. QED
      BY <3>1, <3>2 DEF InHands
  <2>5. Unlogged' \subseteq Unlogged
    BY <2>1, <2>2, <2>3, <2>4 DEF Unlogged
  <2>6. QED
    BY <2>1, <2>5, FilesKept
<1>5. ASSUME NEW a \in Agents, Fails(a) PROVE FileInv'
  <2> DEFINE file == Hypothesis(agent[a].id, agent[a].status)
  <2>1. \A x : InLog(x)' = InLog(x)
    BY <1>5 DEF Fails, InLog
  <2>2. ASSUME NEW x \in Of("hypothesis"), NEW b \in Agents, InHands(b, x), ~ InHands(b, x)'
        PROVE  x = file
    <3>1. b = a
      BY <1>5, <2>2 DEF Fails, Others, InHands
    <3>2. x[2] = agent[a].id /\ x[3] = agent[a].status
      BY <2>2, <3>1 DEF InHands
    <3>3. QED
      BY <2>2, <3>2, HypothesisShape
  <2>3. Unlogged' \subseteq Unlogged \union {file}
    <3> HIDE DEF file
    <3>1. QED
      BY <1>5, <2>1, <2>2 DEF Fails, Unlogged
  <2> HIDE DEF file
  <2>4. /\ IsFiniteSet(Unlogged) /\ Cardinality(Unlogged) \in Nat
        /\ Cardinality(Unlogged) <= faults /\ faults \in Nat
    BY FS_CardinalityType DEF FileInv, WikiTypeOK
  <2>5. /\ IsFiniteSet(Unlogged \union {file})
        /\ Cardinality(Unlogged \union {file}) <= Cardinality(Unlogged) + 1
    BY <2>4, FS_AddElement
  <2>6. /\ IsFiniteSet(Unlogged')
        /\ Cardinality(Unlogged') <= Cardinality(Unlogged \union {file})
    BY <2>3, <2>5, FS_Subset
  <2>7. Cardinality(Unlogged') \in Nat /\ Cardinality(Unlogged \union {file}) \in Nat
    BY <2>5, <2>6, FS_CardinalityType
  <2>8. faults' = faults + 1
    BY <1>5 DEF Fails
  <2>9. QED
    BY <2>4, <2>5, <2>6, <2>7, <2>8 DEF FileInv
<1>6. QED
  BY <1>1, <1>2, <1>3, <1>4, <1>5, WikiEffects

(* The file of a hypothesis is written before its row: for any number of   *)
(* agents, loops and answers, no more files are without a row, or an agent *)
(* about to write it, than agents have died or raised.                     *)
THEOREM FilesStayLogged == WikiSpec => []FilesAreLogged
<1>1. FileInv => FilesAreLogged
  BY DEF FileInv, FilesAreLogged, Unlogged, InLog, InHands
<1>2. WikiTypeOK /\ WikiTypeOK' /\ FileInv /\ [WikiNext]_wikiVars => FileInv'
  BY FileInvKept
<1>3. QED
  BY <1>1, <1>2, FileInvStarts, WikiTypeCorrect, PTL DEF WikiSpec

==============================================================================
