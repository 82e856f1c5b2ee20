------------------------------ MODULE Dispatch ------------------------------
(***************************************************************************)
(* One session of `ceo run` (packages/employees, orchestrator.py and       *)
(* gitnexus.py; packages/cli, ceo.py and live_display.py): the subtasks of *)
(* a plan are dispatched concurrently, and each dispatch first builds its  *)
(* employee's prompt from the employee's memory and mail, the changelog    *)
(* and the code index.  What the dispatches share is modelled: the opened  *)
(* databases, the state of the index and the live display.  The plan and   *)
(* the rows of the goal are in GoalExecution, the processes in SubAgents.  *)
(*                                                                         *)
(* A job is one subtask.  Its steps end at its awaits.                     *)
(***************************************************************************)
EXTENDS Integers, FiniteSets

CONSTANTS
  Jobs,        \* the subtasks of the plan, numbered
  Employees,
  Texts,       \* descriptions of subtasks
  HasGitNexus, \* the provider is enabled and its binary exists  (BOOLEAN)
  AutoIndex,   \* auto_index of its configuration  (BOOLEAN)
  MayStop      \* Ctrl-C, and exceptions in a job  (BOOLEAN)

ASSUME JobsAssumption == Jobs \subseteq Nat \ {0} /\ IsFiniteSet(Jobs) /\ Jobs # {}
ASSUME DispatchSwitchAssumption == {HasGitNexus, AutoIndex, MayStop} \subseteq BOOLEAN

VARIABLES
  who,      \* the employee each job was assigned to
  text,     \* the description of each job
  at,       \* what each job waits for
  try,      \* its attempt
  managers, \* _managers: the bundle of each employee
  conns,    \* the open connections, of all the bundles
  using,    \* the bundle whose memory and mail a job reads
  ready,    \* _repo_ready of the repository
  cached,   \* the keys of _task_cache
  shown,    \* _agents of the display: the job shown for each employee
  sess      \* the session

prepVars == <<managers, conns, using>>
nexusVars == <<ready, cached>>
dispatchVars == <<who, text, at, try, prepVars, nexusVars, shown, sess>>

-----------------------------------------------------------------------------
\* A bundle is named after the attempt that opened it.
Bundles == Jobs \X {1, 2}
NoBundle == <<0, 0>>
Databases == {"brain", "inbox"}

Commands == {"status", "analyze", "query"}
Preparing == {"openBrain", "openInbox", "readBrain", "readInbox"} \cup Commands
Working == Preparing \cup {"spawn", "retry", "won", "lost"}
Ended == {"done", "stopped"}

DispatchTypeOK ==
  /\ who \in [Jobs -> Employees] /\ text \in [Jobs -> Texts]
  /\ at \in [Jobs -> {"idle"} \cup Working \cup Ended]
  /\ try \in [Jobs -> {1, 2}]
  /\ managers \in [Employees -> Bundles \cup {NoBundle}]
  /\ conns \subseteq Bundles \X Databases
  /\ using \in [Jobs -> Bundles \cup {NoBundle}]
  /\ ready \in {"unknown", "yes", "no"}
  /\ cached \subseteq Texts \X (Jobs \cup {0})
  /\ shown \in [Employees -> Jobs \cup {0}]
  /\ sess \in {"planned", "running", "stopping", "closed", "left"}

DispatchInit ==
  /\ who \in [Jobs -> Employees] /\ text \in [Jobs -> Texts]
  /\ at = [j \in Jobs |-> "idle"] /\ try = [j \in Jobs |-> 1]
  /\ managers = [e \in Employees |-> NoBundle] /\ conns = {}
  /\ using = [j \in Jobs |-> NoBundle]
  /\ ready = "unknown" /\ cached = {}
  /\ shown = [e \in Employees |-> 0]
  /\ sess = "planned"

Bundle(j) == <<j, try[j]>>
Goto(j, l) == at' = [at EXCEPT ![j] = l]
Running(j, ls) == sess = "running" /\ at[j] \in ls

(* ---- gather: every job runs up to its first await ---- *)

StartJobs ==
  /\ sess = "planned" /\ sess' = "running"
  /\ at' = [j \in Jobs |-> "openBrain"]
  /\ shown' \in [Employees -> Jobs \cup {0}]
  /\ \A e \in Employees :
       LET mine == {j \in Jobs : who[j] = e}
       IN IF mine = {} THEN shown'[e] = 0
          ELSE shown'[e] \in mine /\ \A k \in mine : k <= shown'[e]
  /\ UNCHANGED <<who, text, try, prepVars, nexusVars>>

(* ---- _get_managers: the test, and the two connections after it ---- *)

FindManagers(j) ==
  /\ Running(j, {"retry"})
  /\ try' = [try EXCEPT ![j] = 2]
  /\ IF managers[who[j]] = NoBundle
     THEN Goto(j, "openBrain") /\ UNCHANGED using
     ELSE /\ Goto(j, "readBrain")
          /\ using' = [using EXCEPT ![j] = managers[who[j]]]
  /\ UNCHANGED <<who, text, managers, conns, nexusVars, shown, sess>>

\* Mutant: the bundle is entered before it is initialised.
OpenBrainEntered(j) ==
  /\ Running(j, {"openBrain"})
  /\ conns' = conns \cup {<<Bundle(j), "brain">>}
  /\ managers' = [managers EXCEPT ![who[j]] = Bundle(j)]
  /\ Goto(j, "openInbox")
  /\ UNCHANGED <<who, text, try, using, nexusVars, shown, sess>>

OpenBrain(j) ==
  /\ Running(j, {"openBrain"})
  /\ conns' = conns \cup {<<Bundle(j), "brain">>}
  /\ Goto(j, "openInbox")
  /\ UNCHANGED <<who, text, try, managers, using, nexusVars, shown, sess>>

\* The bundle is entered, over one that another job has entered meanwhile.
OpenInbox(j) ==
  /\ Running(j, {"openInbox"})
  /\ conns' = conns \cup {<<Bundle(j), "inbox">>}
  /\ managers' = [managers EXCEPT ![who[j]] = Bundle(j)]
  /\ using' = [using EXCEPT ![j] = Bundle(j)]
  /\ Goto(j, "readBrain")
  /\ UNCHANGED <<who, text, try, nexusVars, shown, sess>>

ReadBrain(j) ==
  /\ Running(j, {"readBrain"})
  /\ Goto(j, "readInbox")
  /\ UNCHANGED <<who, text, try, prepVars, nexusVars, shown, sess>>

(* ---- get_task_context ---- *)

\* The text of a second attempt quotes the output of the first.
Key(j) == <<text[j], IF try[j] = 1 THEN 0 ELSE j>>

\* Up to its first command: the cache, then what is known of the index.
TaskContext(j, again) ==
  IF ~HasGitNexus \/ again \/ Key(j) \in cached
  THEN Goto(j, "spawn") /\ UNCHANGED cached
  ELSE IF ready = "no"
  THEN Goto(j, "spawn") /\ cached' = cached \cup {Key(j)}
  ELSE Goto(j, IF ready = "yes" THEN "query" ELSE "status") /\ UNCHANGED cached

\* get_unread returns.  A first attempt without any output leaves the second
\* with the same text, which is cached.
ReadInbox(j, again) ==
  /\ Running(j, {"readInbox"}) /\ (again => try[j] = 2)
  /\ TaskContext(j, again)
  /\ UNCHANGED <<who, text, try, prepVars, ready, shown, sess>>

\* The answer about the index: go on to the query, or without any context.
IndexKnown(j, yes) ==
  /\ ready' = IF yes THEN "yes" ELSE "no"
  /\ IF yes THEN Goto(j, "query") /\ UNCHANGED cached
     ELSE Goto(j, "spawn") /\ cached' = cached \cup {Key(j)}

\* A command of gitnexus ends, with exit code 0 or not.
CommandEnds(j, ok) ==
  /\ \/ /\ Running(j, {"status"})
        /\ IF ~ok /\ AutoIndex THEN Goto(j, "analyze") /\ UNCHANGED nexusVars
           ELSE IndexKnown(j, ok)
     \/ Running(j, {"analyze"}) /\ IndexKnown(j, ok)
     \/ /\ Running(j, {"query"})
        /\ Goto(j, "spawn") /\ cached' = cached \cup {Key(j)}
        /\ UNCHANGED ready
  /\ UNCHANGED <<who, text, try, prepVars, shown, sess>>

\* Mutant: no deadline for analyze.
QuickTimesOut(j) == at[j] # "analyze" /\ CommandEnds(j, FALSE)

\* _run gives a command that is over its deadline exit code 124.
CommandTimesOut(j) == CommandEnds(j, FALSE)

(* ---- the dispatch, its retry and its end ---- *)

SpawnReturns(j, ok) ==
  /\ Running(j, {"spawn"})
  /\ Goto(j, IF ok THEN "won" ELSE IF try[j] = 1 THEN "retry" ELSE "lost")
  /\ UNCHANGED <<who, text, try, prepVars, nexusVars, shown, sess>>

\* agent_done pops whatever is shown.
AgentDone(e) == shown' = [shown EXCEPT ![e] = 0]

\* Mutant: the display is told of a success only.
SettleSilently(j) ==
  /\ Running(j, {"won", "lost"})
  /\ shown' = IF at[j] = "lost" THEN shown ELSE [shown EXCEPT ![who[j]] = 0]
  /\ Goto(j, "done")
  /\ UNCHANGED <<who, text, try, prepVars, nexusVars, sess>>

\* CEO_SUBTASK_COMPLETE or _FAIL, and its handler.
Settle(j) ==
  /\ Running(j, {"won", "lost"})
  /\ AgentDone(who[j])
  /\ Goto(j, "done")
  /\ UNCHANGED <<who, text, try, prepVars, nexusVars, sess>>

(* ---- the end of the session ---- *)

Stop == at' = [j \in Jobs |-> IF at[j] = "done" THEN "done" ELSE "stopped"]

\* An exception that is no RuntimeError: asyncio.run cancels the other jobs,
\* and the command is left without close().
JobRaises(j) ==
  /\ MayStop /\ Running(j, Working)
  /\ Stop /\ sess' = "left"
  /\ UNCHANGED <<who, text, try, prepVars, nexusVars, shown>>

\* Ctrl-C: gather cancels the jobs and ends after them.
Interrupt ==
  /\ MayStop /\ sess = "running"
  /\ Stop /\ sess' = "stopping"
  /\ UNCHANGED <<who, text, try, prepVars, nexusVars, shown>>

\* orch.close(), after the last job or the interrupt.
Close ==
  /\ \/ sess = "running" /\ \A j \in Jobs : at[j] = "done"
     \/ sess = "stopping"
  /\ conns' = {c \in conns : \A e \in Employees : c[1] # managers[e]}
  /\ managers' = [e \in Employees |-> NoBundle]
  /\ sess' = "closed"
  /\ UNCHANGED <<who, text, at, try, using, nexusVars, shown>>

-----------------------------------------------------------------------------
\* Steps that the event loop, the database threads and the timers ensure.
Prepare(j) ==
  FindManagers(j) \/ OpenBrain(j) \/ OpenInbox(j) \/ ReadBrain(j)
    \/ (\E again \in BOOLEAN : ReadInbox(j, again)) \/ CommandTimesOut(j)

JobStep(j) ==
  \/ Prepare(j) \/ CommandEnds(j, TRUE)
  \/ (\E ok \in BOOLEAN : SpawnReturns(j, ok)) \/ Settle(j) \/ JobRaises(j)

DispatchNext == StartJobs \/ (\E j \in Jobs : JobStep(j)) \/ Interrupt \/ Close

DispatchSpec == DispatchInit /\ [][DispatchNext]_dispatchVars

-----------------------------------------------------------------------------
\* While the session runs, a job that reads its employee's memory and mail
\* reads them from a bundle whose two connections are open, whichever job
\* opened or replaced it, on the first attempt and on the second.
UsedIsOpen ==
  \A j \in Jobs : Running(j, {"readBrain", "readInbox"}) =>
    \A d \in Databases : <<using[j], d>> \in conns

\* What the display shows as an employee's work is a subtask of theirs that is
\* under way; and an employee with one subtask is shown with it from its
\* assignment to its end, the retry included.
WorkingIsShown ==
  sess = "running" =>
    /\ \A e \in Employees : shown[e] # 0 =>
         who[shown[e]] = e /\ at[shown[e]] \in Working
    /\ \A j \in Jobs : at[j] \in Working /\ shown[who[j]] # j =>
         \E k \in Jobs \ {j} : who[k] = who[j]

\* Building the prompt ends, whatever gitnexus does: each of its commands has
\* a deadline.
PreparationEnds ==
  \A j \in Jobs : at[j] \in Preparing ~> at[j] \notin Preparing

-----------------------------------------------------------------------------
\* "Close all manager connections and state DB." (close): no connection is
\* open any more.  Two jobs of one employee both find no bundle and open one
\* each; the one that is entered first is replaced and never closed.
CloseClosesAll == sess = "closed" => conns = {}
=============================================================================
