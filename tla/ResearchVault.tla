---------------------------- MODULE ResearchVault ----------------------------
(***************************************************************************)
(* The research vault: a directory of Markdown files that the agents of    *)
(* the worker (scheduled) and of the API (background tasks) write at the   *)
(* same time, with no lock: summaries of raw files, concepts, hypotheses   *)
(* and disputes; the hypothesis log results.tsv; and what is derived from  *)
(* the files, the index page and the full-text table.                      *)
(*                                                                         *)
(* An agent gives up control at every language-model call and, towards the *)
(* agents of the other process, at every file operation.                   *)
(***************************************************************************)
EXTENDS Naturals, Sequences, SequencesExt, FiniteSetsExt

CONSTANTS
    Agents,        \* agents that may run at the same time
    Files,         \* raw files, numbered in the order of their sorted paths
    Concepts,      \* titles of concept articles
    Compiled,      \* those on file at the start
    Answers,       \* statuses the validator may answer; files of others than Shown are not listed
    MaxStarts,     \* bound: agent runs asked for, the weekly ones apart
    MaxLoop,       \* bound: cycles of one hypothesis loop
    MaxDisputes,   \* bound: disputes on file
    MaxFaults      \* bound: agents killed half-way and steps that raise

ASSUME WikiAssumption ==
    /\ Compiled \subseteq Concepts /\ Files \subseteq Nat /\ IsFiniteSet(Files) /\ IsFiniteSet(Agents)
    /\ {MaxStarts, MaxLoop, MaxDisputes, MaxFaults} \subseteq Nat

VARIABLES
    raw,       \* raw files present
    wiki,      \* Markdown files under wiki/
    results,   \* rows of results.tsv
    index,     \* what the index page lists
    found,     \* files the full-text table holds
    agent,     \* what each agent is at
    starts, faults

wikiVars == <<raw, wiki, results, index, found, agent, starts, faults>>

Shown == {"supported", "refuted", "open"}

Summary(f) == <<"summary", f>>
Concept(c) == <<"concept", c>>
Hypothesis(h, s) == <<"hypothesis", h, s>>
Dispute(n) == <<"dispute", n>>

(* rebuild_index globs the concepts, the summaries, the disputes and three *)
(* of the hypothesis directories.                                          *)
Listed(files) == {x \in files : x[1] = "hypothesis" => x[3] \in Shown}

Of(kind) == {x \in wiki : x[1] = kind}

Idle == [at |-> "idle", todo |-> {}, wrote |-> FALSE, id |-> 0, status |-> "none",
         cycles |-> 0, seen |-> {}, had |-> {}, search |-> TRUE]

(* A frame for the actions: agent a moves to m.                            *)
Moves(a, m) == agent' = [agent EXCEPT ![a] = m]

(* The end of a run, or of one cycle of a hypothesis loop that has more.   *)
Done(m) == IF m.cycles > 0 THEN [Idle EXCEPT !.at = "generate", !.cycles = m.cycles]
           ELSE Idle

(* A run somebody asks for: an idle agent takes it.                        *)
Asked(a, m) ==
    /\ agent[a] = Idle /\ starts < MaxStarts
    /\ starts' = starts + 1 /\ Moves(a, m)
    /\ UNCHANGED <<raw, wiki, results, index, found, faults>>

-----------------------------------------------------------------------------
(* The ingestion agent.                                                    *)

(* The set of sources is shared by all the summaries read, so the opening  *)
(* "---" of the second one already ends its scan: of all the summaries     *)
(* only the source of the first, in directory order, is known.             *)
KnownSources == IF Of("summary") = {} THEN {{}} ELSE {{x[2]} : x \in Of("summary")}

StartIngestion(a) ==
    \E known \in KnownSources :
        /\ raw \ known # {}
        /\ Asked(a, [Idle EXCEPT !.at = "ingest", !.todo = raw \ known])

(* The file at hand is settled; after the last one the index and the table *)
(* are rebuilt if any summary was written.                                 *)
NextFile(m, wrote) ==
    LET rest == m.todo \ {Min(m.todo)}
    IN  IF rest # {} THEN [m EXCEPT !.todo = rest, !.wrote = wrote]
        ELSE IF wrote THEN [Idle EXCEPT !.at = "glob"]
        ELSE Idle

(* The file is too short, the model answers nothing usable or it fails.    *)
IngestNothing(a) ==
    /\ agent[a].at = "ingest"
    /\ Moves(a, NextFile(agent[a], agent[a].wrote))
    /\ UNCHANGED <<raw, wiki, results, index, found, starts, faults>>

IngestFile(a) ==
    /\ agent[a].at = "ingest"
    /\ wiki' = wiki \union {Summary(Min(agent[a].todo))}
    /\ Moves(a, NextFile(agent[a], TRUE))
    /\ UNCHANGED <<raw, results, index, found, starts, faults>>

-----------------------------------------------------------------------------
(* The compiler agent.                                                     *)

StartCompiler(a) == Of("summary") # {} /\ Asked(a, [Idle EXCEPT !.at = "compile"])

(* The articles the model returned and that could be written.              *)
CompileConcepts(a) ==
    /\ agent[a].at = "compile"
    /\ \E written \in SUBSET Concepts : wiki' = wiki \union {Concept(c) : c \in written}
    /\ Moves(a, [Idle EXCEPT !.at = "glob"])
    /\ UNCHANGED <<raw, results, index, found, starts, faults>>

CompileNothing(a) ==
    /\ agent[a].at = "compile"
    /\ Moves(a, Idle)
    /\ UNCHANGED <<raw, wiki, results, index, found, starts, faults>>

-----------------------------------------------------------------------------
(* The hypothesis loop.                                                    *)

StartLoop(a) ==
    \E n \in 1 .. MaxLoop : Asked(a, [Idle EXCEPT !.at = "generate", !.cycles = n])

Ids(rows) == {rows[n].id : n \in DOMAIN rows}

\* Mutant: rows of crashed validations are passed over.
NextIdOfTested(rows) == Max({0} \union Ids(SelectSeq(rows, LAMBDA r : r.status # "crash"))) + 1

NextId(rows) == Max({0} \union Ids(rows)) + 1

(* The model's answer is usable: only now is the id read off the log.      *)
Generate(a) ==
    /\ agent[a].at = "generate"
    /\ Moves(a, [agent[a] EXCEPT !.at = "validate", !.id = NextId(results),
                                 !.cycles = agent[a].cycles - 1])
    /\ UNCHANGED <<raw, wiki, results, index, found, starts, faults>>

GenerateNothing(a) ==
    /\ agent[a].at = "generate"
    /\ Moves(a, Done([agent[a] EXCEPT !.cycles = agent[a].cycles - 1]))
    /\ UNCHANGED <<raw, wiki, results, index, found, starts, faults>>

(* The validator fails or answers nothing: a row and no file.              *)
ValidateCrashes(a) ==
    /\ agent[a].at = "validate"
    /\ results' = Append(results, [id |-> agent[a].id, status |-> "crash"])
    /\ Moves(a, Done(agent[a]))
    /\ UNCHANGED <<raw, wiki, index, found, starts, faults>>

(* The file is in the directory of its status, under its id.               *)
WriteHypothesis(a) ==
    /\ agent[a].at = "validate"
    /\ \E s \in Answers :
           /\ wiki' = wiki \union {Hypothesis(agent[a].id, s)}
           /\ Moves(a, [agent[a] EXCEPT !.at = "log", !.status = s])
    /\ UNCHANGED <<raw, results, index, found, starts, faults>>

\* Mutant: only hypotheses the index shows are logged.
LoggedShown(rows, row) == IF row.status \in Shown THEN Append(rows, row) ELSE rows

Logged(rows, row) == Append(rows, row)

LogResult(a) ==
    /\ agent[a].at = "log"
    /\ results' = Logged(results, [id |-> agent[a].id, status |-> agent[a].status])
    /\ Moves(a, [agent[a] EXCEPT !.at = "glob", !.id = 0, !.status = "none"])
    /\ UNCHANGED <<raw, wiki, index, found, starts, faults>>

-----------------------------------------------------------------------------
(* The linter and the scout, started every week as well as on request.     *)

StartLinter(a) ==
    /\ agent[a] = Idle
    /\ Moves(a, [Idle EXCEPT !.at = "lint"])
    /\ UNCHANGED <<raw, wiki, results, index, found, starts, faults>>

StartScout(a) ==
    /\ agent[a] = Idle
    /\ Moves(a, [Idle EXCEPT !.at = "scout"])
    /\ UNCHANGED <<raw, wiki, results, index, found, starts, faults>>

\* Mutant: the linter rebuilds only after it has written a dispute.
AfterLintIfAny(disputes) == IF disputes > 0 THEN [Idle EXCEPT !.at = "glob"] ELSE Idle

AfterLint(disputes) == [Idle EXCEPT !.at = "glob"]

(* With two concepts the model is asked for contradictions; the disputes   *)
(* are numbered from the count of those on file when it has answered.      *)
WriteDisputes(new) ==
    LET count == Cardinality(Of("dispute"))
    IN  /\ new > 0 => Cardinality(Of("concept")) > 1
        /\ count + new <= MaxDisputes
        /\ wiki' = wiki \union {Dispute(count + i) : i \in 1 .. new}

Lint(a) ==
    /\ agent[a].at = "lint"
    /\ \E new \in 0 .. 1 : WriteDisputes(new) /\ Moves(a, AfterLint(new))
    /\ UNCHANGED <<raw, results, index, found, starts, faults>>

(* An entry of the answer that is no object raises, when the disputes of   *)
(* the entries before it are on file: the run ends with nothing rebuilt.   *)
LintRaises(a) ==
    /\ agent[a].at = "lint" /\ faults < MaxFaults /\ faults' = faults + 1
    /\ \E new \in 0 .. 1 : WriteDisputes(new) /\ Moves(a, Idle)
    /\ UNCHANGED <<raw, results, index, found, starts>>

(* The scout's report is not part of the wiki.                             *)
Scout(a) ==
    /\ agent[a].at = "scout"
    /\ Moves(a, [Idle EXCEPT !.at = "glob"])
    /\ UNCHANGED <<raw, wiki, results, index, found, starts, faults>>

-----------------------------------------------------------------------------
(* The index page and the full-text table.                                 *)

(* POST /index/rebuild and POST /search/reindex.                           *)
AskIndex(a) == Asked(a, [Idle EXCEPT !.at = "glob", !.search = FALSE])
AskReindex(a) == Asked(a, [Idle EXCEPT !.at = "scan"])

GlobFiles(a) ==
    /\ agent[a].at = "glob"
    /\ Moves(a, [agent[a] EXCEPT !.at = "page", !.seen = wiki])
    /\ UNCHANGED <<raw, wiki, results, index, found, starts, faults>>

WriteIndex(a) ==
    /\ agent[a].at = "page"
    /\ index' = Listed(agent[a].seen)
    /\ Moves(a, IF agent[a].search THEN [agent[a] EXCEPT !.at = "scan", !.seen = {}]
                ELSE Done(agent[a]))
    /\ UNCHANGED <<raw, wiki, results, found, starts, faults>>

(* reindex reads what the table holds and which files there are.           *)
ScanFiles(a) ==
    /\ agent[a].at = "scan"
    /\ Moves(a, [agent[a] EXCEPT !.at = "commit", !.seen = wiki, !.had = found])
    /\ UNCHANGED <<raw, wiki, results, index, found, starts, faults>>

(* It adds what the table did not hold, drops what is no file any more.    *)
CommitFound(a) ==
    /\ agent[a].at = "commit"
    /\ LET m == agent[a]
       IN  found' = (found \union (m.seen \ m.had)) \ (m.had \ m.seen)
    /\ Moves(a, Done(agent[a]))
    /\ UNCHANGED <<raw, wiki, results, index, starts, faults>>

-----------------------------------------------------------------------------
(* The surroundings.                                                       *)

(* Somebody puts a file into raw/.                                         *)
AddRaw ==
    /\ \E f \in Files \ raw : raw' = raw \union {f}
    /\ UNCHANGED <<wiki, results, index, found, agent, starts, faults>>

(* Somebody settles a dispute and takes its file away.                     *)
SettleDispute ==
    /\ starts < MaxStarts /\ starts' = starts + 1
    /\ \E x \in Of("dispute") : wiki' = wiki \ {x}
    /\ UNCHANGED <<raw, results, index, found, agent, faults>>

(* An index page opened for writing may be left empty.                     *)
Abandoned(m) == IF m.at = "page" THEN {index, {}} ELSE {index}

(* A process is killed: its agent's run ends where it is; the transaction  *)
(* of the table is undone.                                                 *)
AgentDies(a) ==
    /\ agent[a] # Idle /\ faults < MaxFaults /\ faults' = faults + 1
    /\ index' \in Abandoned(agent[a])
    /\ Moves(a, Idle)
    /\ UNCHANGED <<raw, wiki, results, found, starts>>

(* What is not caught at the step itself: an answer of another shape than  *)
(* asked for, a file or a table that cannot be read or written.  The cycle *)
(* of a hypothesis loop fails and the loop goes on; another run ends.      *)
Raises(a) ==
    /\ agent[a].at \in {"validate", "log", "scout", "glob", "page", "scan", "commit"}
    /\ faults < MaxFaults /\ faults' = faults + 1
    /\ index' \in Abandoned(agent[a])
    /\ Moves(a, Done(agent[a]))
    /\ UNCHANGED <<raw, wiki, results, found, starts>>

(* A process starts on the vault it finds: here one with some concepts,    *)
(* page and table up to date.                                              *)
WikiInit ==
    /\ raw = {} /\ results = <<>>
    /\ wiki = {Concept(c) : c \in Compiled} /\ index = wiki /\ found = wiki
    /\ agent = [a \in Agents |-> Idle]
    /\ starts = 0 /\ faults = 0

(* The steps of a run once it has started.                                 *)
Runs(a) ==
    \/ IngestNothing(a) \/ IngestFile(a)
    \/ CompileConcepts(a) \/ CompileNothing(a)
    \/ Generate(a) \/ GenerateNothing(a) \/ ValidateCrashes(a)
    \/ WriteHypothesis(a) \/ LogResult(a)
    \/ Lint(a) \/ Scout(a)
    \/ GlobFiles(a) \/ WriteIndex(a) \/ ScanFiles(a) \/ CommitFound(a)

WikiNext ==
    \/ \E a \in Agents :
           \/ StartIngestion(a) \/ StartCompiler(a) \/ StartLoop(a)
           \/ StartLinter(a) \/ StartScout(a) \/ AskIndex(a) \/ AskReindex(a)
           \/ Runs(a) \/ LintRaises(a) \/ Raises(a) \/ AgentDies(a)
    \/ AddRaw \/ SettleDispute

(* A model call returns or fails, so a run goes on; the scheduler starts   *)
(* the weekly linter and scout.                                            *)
WikiFairness ==
    /\ \A a \in Agents : WF_wikiVars(Runs(a))
    /\ WF_wikiVars(\E a \in Agents : StartLinter(a) \/ StartScout(a))

WikiSpec == WikiInit /\ [][WikiNext]_wikiVars /\ WikiFairness

-----------------------------------------------------------------------------
(* Properties.                                                             *)

(* The id of a hypothesis is read off the log long before its row is       *)
(* written, so ids are shared; but never by more rows than there are       *)
(* agents: whoever reads the log after the first row gets another id.      *)
IdSharing ==
    \A i \in Ids(results) :
        Cardinality({n \in DOMAIN results : results[n].id = i}) <= Cardinality(Agents)

(* A hypothesis file whose status is in no row of the log, and in the      *)
(* hands of no agent about to log it, was left by an agent that died       *)
(* between the two writes or whose logging raised: one each at most.       *)
FilesAreLogged ==
    LET isLogged(x) == \/ \E n \in DOMAIN results : results[n] = [id |-> x[2], status |-> x[3]]
                       \/ \E a \in Agents : /\ agent[a].at = "log" /\ agent[a].id = x[2]
                                            /\ agent[a].status = x[3]
    IN  Cardinality({x \in Of("hypothesis") : ~isLogged(x)}) <= faults

(* Two agents may list the files, and the one that listed first write the  *)
(* page last, or die with the page empty, or raise before the rebuild; but *)
(* a rebuild always follows, and once nothing raises and no file comes or  *)
(* goes any more, page and table show exactly what there is.               *)
IndexCatchesUp == <>[](index = Listed(wiki) /\ found = wiki)

(* What the ingestion agent says of itself (ingestion.py, "ingest any      *)
(* files that don't have summaries yet"): a run never takes up a raw file  *)
(* that a summary already names as its source.                             *)
OnlyNewFiles ==
    [][\A a \in Agents : agent[a] = Idle /\ agent'[a].at = "ingest" =>
           \A f \in agent'[a].todo : Summary(f) \notin wiki]_wikiVars

==============================================================================
