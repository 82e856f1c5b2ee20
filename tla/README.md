# AutoGenesis: a verification project

TLA+ models of the parts of AutoGenesis that coordinate work, TLC
configurations that check them on small instances, and TLAPS proofs of the
results that should hold for every instance. Every definition is translated
from the Python source; line ranges are in `PROJECT.json` ("map").

## 1. The system

AutoGenesis is a command line program (`autogenesis ceo ...`) in which a "CEO"
decomposes goals, assigns the subtasks to virtual employees, and runs each of
them as a `codex` subprocess. There is no server: every command is a process
of its own, and the processes share SQLite files, markdown files and JSON/YAML
files. Inside a process everything is `asyncio`: code between two awaits is
atomic, and coroutines interleave only at awaits.

### Inventory

| Component | Source (under `src/packages`) | State it keeps | Operations | What is hard |
|---|---|---|---|---|
| CEO goals | `employees/.../orchestrator.py`, `state.py`; `cli/.../commands/ceo.py` | tables `goals`, `executions` of `ceo.db`; one plan markdown per goal with a check box per subtask | `run`, `resume`, `_execute_plan`, `_run_subtask`, `_update_plan_*` | one coroutine per subtask under `gather`; retry and escalation; crash between database and plan file; resume computes box indexes from counts |
| Sub-agent manager | `core/.../sub_agents.py` | semaphore, `_active`, prompt files, OS processes | `spawn`, `cancel_all` | timeouts, cancellation at every await, exceptions, a process that lives on |
| CEO task queue | `orchestrator.py` (`enqueue`, `dispatch`), `state.py` | table `tasks`, `executions` | `enqueue`, `dispatch` | several CLI processes over one database; select and claim are separate statements |
| CEO set-up | `orchestrator.py` (`_get_managers`, `_build_employee_context`, `close`), `reasoning.py`, `runtime.py` | cache of opened databases per employee | open on first use, close | test, await, then set: two coroutines open the same databases |
| GitNexus | `gitnexus.py` | "index is ready", contexts by task text | status, analyze, query | external commands that may hang, under several jobs at once |
| Live display | `cli/.../live_display.py` | the subtask shown for each employee | assigned, done | one entry per employee, several subtasks |
| Registry, HR | `registry.py`, `hr.py` | YAML file per employee, changelog | hire, fire, train, list | read, change, rewrite without a lock while sessions read |
| Memory and messages | `brain.py`, `inbox.py`, `meetings.py`, `project.py` | SQLite per employee: memories and their full-text index, messages | write, recall, decay, prune; send, get_unread, mark_read | two statements per change, ranks that recall changes, rowids used again |
| Union | `union.py` | proposals and votes | file, cast_vote, resolve | - |
| Twitter | `twitter/...`: `queue.py`, `poster.py`, `gateway.py`, `scheduler.py` | SQLite queue, counters in memory | draft, review, post, session cycles | retry of a post that did succeed, updates unguarded by status, counters never reset |
| TUI client | `tui/.../app.py`, `client.py`, `server.py` | server process, WebSocket, pending futures by request id, receive loop, active thread | start-up, requests, notifications, exit | a late answer to a request that timed out; a start that fails half way; a lost connection; exit at any of these points |
| Agent loop, model client | `core/.../loop.py`, `client.py`, `responses.py` | the conversation | request, stream, tool calls | tools that raise, ids that repeat or are missing |
| Context window, tools | `core/.../context.py`, `tools/.../registry.py` | messages; tools with usage counts | choose what fits a budget | overdrawn budgets, zero estimates, ties |
| Configuration | `core/.../config.py` | - | merge three files and the environment | the order of variables, sections that are no tables |
| Sessions, credentials | `core/.../state.py`, `auth.py` | session JSON, OAuth tokens | save, load, clean up; login, refresh, logout | atomic replacement; a refresh token that is good once |
| Token budget | `tokens/.../budget.py` | counters in a JSON file | check, record | read, change, write by several processes |
| Prompt versions | `optimizer/.../versioning.py` | versions and the active one | create, activate, roll back | rollback after a gap in versions |
| Audit log | `security/.../audit.py` | hash chain in a file, last hash in memory | log, verify | restart |
| MCP | `mcp/.../client.py`, `registry.py` | connections and their tools | connect, disconnect, call | await between test and update |
| Text processing and wrappers | guardrails, scanner, sandbox, parser, compression, plugins, the tools themselves | none or read-only | - | - |

### How they interact

`ceo run` (CLI) creates a `CEOOrchestrator` and a `SubAgentManager`. The
orchestrator asks a reasoning model for a decomposition, inserts the goal,
writes the plan file, and assigns an employee to every subtask one after the
other. Then one coroutine per subtask calls `SubAgentManager.spawn`, which
waits for a permit of the semaphore and runs a `codex` process; the result is
written to `executions`, and on success the box in the plan is checked. When
the gather is over the goal gets its verdict in `ceo.db` and in the plan's
status line. On an exception or Ctrl-C the CLI calls `cancel_all` and closes
the loop, which cancels what still runs. `ceo resume` starts again from the
plan file, not from the table of executions; `ceo dispatch` works on stand-alone
tasks through the same database.

### What makes each component correct

* Goals: the verdict says what happened; records of attempts are never
  rewritten; the plan file shows what was done; an escalated goal can be
  resumed; a goal under execution gets a verdict.
* Sub-agents: permits are conserved, nobody waits beside a free permit, what
  ends cleans up after itself, every call ends.
* Task queue: each task runs once, oldest first within a priority, a verdict
  is backed by executions and is final, a claimed task gets one.
* Twitter: a tweet is out once per approval unless a send had to be repeated
  without knowing the outcome of the last one, what is marked posted is out,
  nothing the agent wrote goes out unreviewed.
* TUI client: a usable session is listened to, every handler ends, a failing start
  leaves the app open, an exit leaves nothing behind.
* Dispatch: a job reads through open databases, the display shows what is under
  way, a prompt gets built whatever the code index does, `close` closes all.
* Registry: what was ordered is in the files; whoever is assigned has one.
* Memory: every memory can be found and nothing else is.
* Agent loop: a request holds an output for every call, in their order.
* Context, tools: what is chosen fits, and what is left out would not.
* MCP: a pooled client is connected, and nobody is disconnecting it.
* Budget, sessions, login, versions: no spending, saved state or good token is
  lost to restarts, deaths and overlaps; a prompt with versions has an active one.
* Audit: the verdict of `verify_chain` is about all that was logged.
* Configuration: the last layer that speaks of a key decides it.

## 2. Plan

The order is by importance: first what `ceo run/resume/dispatch` do with
durable state, then the processes they start, then the surrounding services.

| # | Module | Composes / implements | State |
|---|---|---|---|
| 1 | `GoalExecution` | implements `GoalContract` | done, proved |
| 2 | `SubAgents` | implements `SpawnContract` | done, proved |
| 3 | `TaskQueue` | implements `TaskContract` | done, proved |
| 4 | `TwitterPosting` (queue, poster, scheduler, gateway) | - | done, proved |
| 5 | `CommandCenter` (TUI app, its app server and the client between them) | - | done, proved |
| 6 | `Dispatch` (what the jobs of one session share: databases, code index, display) | - | done, proved |
| 7 | `Roster` (hr commands, registry) and `Brain` (memory) | - | done, proved |
| 8 | `AgentTurn`, `Selection` (loop and client; context window and disclosure of tools) | - | done, proved |
| 9 | `Login`, `Saves`, `Ledger` (the files of core and tokens) | - | done, proved |
| 10 | `Pool` (MCP registry) | - | done, proved |
| 11 | `Prompts`, `AuditLog`, `Config` | - | done, proved |
| 12 | `MCParts` | 5 to 11 and the liveness and contract of 2, one part at a time | done, proved |
| 13 | `GoalExecution` with two processes on one goal; `GoalExecution` over `SubAgents` (an exception in one coroutine, `cancel_all`, the siblings' retries) | composes 1 and 2 | open |

Runs are few and each asks a question of its own; the small components that share
no state run as parts of `MCParts`. Proofs about the small components share a module
with those of components of their kind: `SessionProofs` for what coroutines or
connections share and agents are asked with (`SubAgents`, `Dispatch`, `Pool`, `Brain`,
`AgentTurn`, `Selection`), `FileProofs` for what
is kept in files without a lock (`Login`, `Saves`, `Ledger`, `Roster`, `Prompts`,
`Config`, `AuditLog`), `DataLemmas` for what both need, and `PartsProofs` for the
composition of all of them in `MCParts`.

## 3. The models

### GoalExecution and GoalContract

One goal, from `ceo run` (process 1) through up to `MaxRuns - 1` `ceo resume`s.

| Model | Code |
|---|---|
| `goalStatus`, `planPath`, `rows` | the goal row and the execution rows of `ceo.db`; a row is named by process, subtask and attempt because `exec_id` is fresh for each of them |
| `planFile`, `planStatus`, `checked` | the plan markdown: its existence, its `Status:` line, its checked boxes by position |
| `phase` | where `run`, `resume` and `_execute_plan` are; `down` is no process |
| `remaining`, `completedCount`, `assigned` | the arguments of `_execute_plan` and its assignment loop |
| `pc`, `attempt`, `success` | the `_run_subtask` coroutines, one program point per await |

`Resume` is guarded by exactly what `resume` tests: the goal exists and its plan
file has an unchecked box; it does not test the goal's status. `BoxOf` is the
index `completed_count + i + 1`, `WithBox` the n-th box of the whole file, as in
`_update_plan_subtask`. An exception in one coroutine (`SubtaskRaises`) ends the
gather at once and leaves the siblings running (`Live` includes `raising`) until
the CLI has closed the loop. A crash may come between any two steps, and
`CrashInWrite` also in the middle of `write_text`, which truncates first.

A bundle of facts is atomic in the model because it is in the code: there is no
await between the read and the write of the plan in `_update_plan_subtask`.

`GoalContract` is what the orchestrator promises, without processes, rows, plan
files or retries: a goal is created, opened for a set of subtasks, single
subtasks finish, and it is settled as `completed` exactly when that whole set has
finished. The refinement maps `todo` to `remaining` and `finished` to the
subtasks that have a completed row of the current process.

### SubAgents and SpawnContract

`Agents` are calls of `spawn`; a step ends at an await. `permits` and `waiters`
are `asyncio.Semaphore` with its rule that a permit handed to a waiter is taken
before the waiter runs (`granted`). `CreateProcess`, `ReadDone`, `Finish`,
`TimeoutFires`, `TerminatedInTime`, `Kill` are the body; `ExecRaises` and
`ReadRaises` the exceptions for which `spawn` has no except clause; `Cancel` a
`CancelledError` at each await. `Leave` is the finally block with the end of
`async with`. The process is the environment: it closes its output and exits in
either order, may ignore SIGTERM, but not SIGKILL. Signalling a process that
asyncio has already dropped (`Gone`) raises `ProcessLookupError`, in `spawn` and
in `cancel_all`. A spawn is over as `returned` or `raised`; or
`broken`, by an exception out of reading the output, which leaves the process alone; or
`abandoned`, cancelled in the 5 s after `terminate()`, which leaves it unkilled.

`SpawnContract` is what the callers see: a line, those who are inside, those who are
done. One who comes gets in at once if nobody waits and there is room, or joins the
line; whoever leaves or gives up may let the head of the line in. There are no
permits and no woken waiters in it. The refinement maps the line to
`waiters` and the inside to `Holders`, so a waiter is inside from the moment a permit is
handed to it, though it runs later and may be cancelled before it does.

### TaskQueue and TaskContract

`Procs` are `ceo dispatch` processes, each dispatching once; they share only the
database. `Pick` is the SELECT (by priority, then age; or any existing task when
the user names an id), `Claim` the unconditional UPDATE that follows, then
assignment, dispatch, record, one retry, verdict. `Die` is an exception or a kill
at any point. The status of a task and the row of an attempt use different words
for failure (`escalated`, `failed`), as in the code.

`TaskContract` is what users can expect who start one dispatch after the other
and name no task: the most urgent task that waits is taken, the oldest of those; one is
in hand at a time; it runs once, and its verdict says whether both attempts have
failed. A dispatch that dies gives its task back if it had not written about it yet and
loses it otherwise. The phase of a task and its failed attempts are read off the
statuses, the rows and the processes that are still running (`Phase`, `FailedOf`).

### TwitterPosting

Drafts over one SQLite queue, one scheduler, one gateway, reviewers at dashboards.

| Model | Code |
|---|---|
| `status`, `text` | the rows; `text` tells only the agent's words from a reviewer's |
| `active` | `permission_granted` and `active` of the session, and the active hours |
| `phase`, `todo`, `snapshot`, `current` | `run_cycle`: the list it got from `list_approved`, with its own copy of the texts, and the item in hand |
| `attempt` | the loop variable of `post_tweet` |
| `abandoned` | requests in the gateway's socket whose sender has given up |
| `published`, `approvals`, `agentApproved`, `resent` | history: what happened, for the properties |

No UPDATE of the queue tests the status, so `Approve`, `Reject` and `UpdateDraft`
are enabled for any draft at any time, also one that is being posted. An
`httpx.HTTPError` (`RequestLost`) leaves open whether the request reached the
gateway; if it did, the single-threaded gateway serves it before anything newer
(`Served`), and its outcome reaches nobody (`ServeAbandoned`). `Interrupt` is an
exception out of `run_cycle` (a failing browser, an answer that is not JSON, a
locked database) or the end of the process. Reviewers' dashboards and the loop that
calls `run_cycle` are not in the repository; the model lets them act at any time.
Left out because no control depends on it: replies (`TwitterPostTool` drops
`reply_to_id`, so a reply of the agent is queued without its target), reasons and
timestamps, `cycles_today`, which is counted and never read.

### CommandCenter

One session of the terminal UI with the `codex app-server` it starts.

| Model | Code |
|---|---|
| `proc`, `conn`, `loop` | the process of `AppServerManager`, the WebSocket, the task of `_receive_loop` |
| `handler` | the handler the message pump is in: a step of `_start_server`, a turn or a fork that awaits its answer, a step of `on_unmount`; `idle` when it is free |
| `reqs`, `pending`, `outcome` | requests numbered in order (ids are fresh UUIDs in the code), the keys of `_pending`, the future of the current one |
| `unanswered`, `wire`, `notes` | what the server has yet to answer, what the client has yet to read, notifications sent |
| `uiQueue` | notifications handed to `call_after_refresh` |
| `thread`, `bar`, `left` | whether `_active_thread_id` is set, the connection shown in the status bar, why the app was left |

Textual's message pump (external) runs one handler at a time to its end, so at most
one request is awaited; the receive loop interleaves with it at every await. An
exception in `_start_server` is caught there; one in a turn or a fork is not, and
closes the app, which still runs `on_unmount`. So the first input after the connection
is lost closes the app (`Request` with a closed connection raises). `wait_for`
cancels the future on a timeout but leaves its id in `_pending`: when the answer
comes late, `set_result` raises `InvalidStateError` and the receive loop ends
(`ReceiveAnswer`). The server answers in any order, late, with an error or never,
and may die at any point; what had arrived before is still read.

Left out: `interrupt` and `_active_turn_id`, which no key binding reaches; the
roster and the employee's details, which share no state with the session.
Assumed of the server: its messages are JSON objects and the answer to a fork has an
id. A request of the server itself (an approval under the default policy
`on-request`) has an id that is not pending, so it is handed on as a notification;
nothing in the client answers it, which in the model is a server that never answers.

### Dispatch

One session of `ceo run`, seen from what its subtasks share.

| Model | Code |
|---|---|
| `who`, `text` | the assignment and the description of each subtask, fixed before the gather |
| `at`, `try` | the `_run_subtask` coroutine with the calls below it, one program point per await |
| `managers`, `conns`, `using` | `_managers`, the connections that are open, and the bundle a job works with |
| `ready`, `cached` | `_repo_ready` and the keys of `_task_cache` in `GitNexusContextProvider` |
| `shown` | `_agents` of the live display |
| `sess` | `run` of the CLI with its two except clauses: only a normal end and Ctrl-C reach `close` |

`_get_managers` is three steps, because it awaits twice between its test and its
entry; a second attempt tests again. `StartJobs` is one step: every task of the
gather runs to its first await before a database thread can answer. One job's
answer about the index is overwritten by another's (`IndexKnown`), so "no" can
follow "yes". The plan and the rows are in `GoalExecution`, the semaphore and the
process in `SubAgents`; the spawn is one await here.

### Roster and Brain

`Roster` is the directory of employee files. Each hr command is a process: `Hire`,
`Fire` and `Train` test and read, `Truncate` and `WriteBack` are the two halves of
`write_text`. A session reads the files one by one (`Load`), each whenever it comes to
it, and assigns from what it read: the model's answer if the registry knows it, else
the first active one. Overlapping commands do lose updates (a train can undo a fire),
two writes may leave a text that no parser takes (`garbled`), and a death after the
truncation leaves an empty file. The history says which orders were `lost`: those that
another command wrote between the reading and the writing of this one. The invariant
says that no order is lost in any other way.

`Brain` is the memory table and the full-text index that the code keeps in step by
rowid. Statements, transactions and the lock are SQLite's (`Execute`, `Commit`,
`Rollback`); what matters is the order of the code's statements: insert then index, count
then delete the lowest from the index then from the table, with the selection made
again each time. Ids are fresh, rowids are not. Scores have three values.
Mail and changelog are only read in `Dispatch`; no command marks a message as
read, prunes or decays by itself.

### AgentTurn and Selection

`AgentTurn` is `AgentLoop.run`: messages as roles with call ids, the conversion to the
request's input (`Items`), the stream, one step per tool. Anything that raises (no
token, HTTP, cancellation) ends the run; a tool that raises gives an error output
instead. `Selection` holds the two greedy choices, which are one loop over two orders:
a call sets the candidates and the budget, `ConsiderNext` is one pass through the body
for the candidate that the code's order gives next (`sorted` and `reversed` are in
`Preferred`), and `Returned` is what comes out. Both loops are without an await, so
nothing is said or used before they are through.

### Pool

Calls of `MCPRegistry` by several coroutines. `GetClient` looks into the pool,
`ConnectReturns` enters, over whatever is there by then; `Release` removes before it
awaits the disconnect. `open` keeps the server processes apart from `linked`, the
client's flag: a connect that fails half way, or two at once, leave a process that
nobody closes.

### Login, Saves, Ledger, Prompts

Files that several processes read and write. `Login`, `Ledger` and `Prompts` truncate and
write in place, so a death in between leaves a torn file; `Saves` writes beside and
renames. What was spent, saved, trained or lost is kept in variables named as history in
each module.

* `Login`: a refresh token is good once. The server (external) answers with the next one,
  or without one, and then goes on accepting the old (`PostKeeps`; `TokenToSave` writes
  the old one back); its answer may be lost.
* `Ledger`: any number of processes, each with its costs of the day and the month in
  memory. `Record` adds to them, reads the file back and merges; `TruncateFile` and
  `Saved` are the two halves of the write, which may overlap with another's. What is
  `exposed` the code does not promise to keep: units recorded beside another process, and
  what stood in a file that a process found unreadable.
* `Prompts`: managers hold a copy of the manifest and write it back whole; one may read a
  save half-written (`WriteBeginning`), and what descends from that is marked `cut`. The
  optimizer's choice among candidates stands beside it: a prompt is the set of phrases
  that the constitution and the golden tests look for, a candidate holds those of the
  current prompt and more (`_generate_candidates` appends a sentence).

### AuditLog and Config

`AuditLog`: each logger has the last hash in memory and starts from "genesis"; an
append that fails has already moved the chain on, and may leave a piece of a line: the
next entry is then appended to that piece and cannot be read either, `query` passes over
it and `verify_chain` raises. The files of all days are read as one.

`Config`: four layers are merged key by key, sections as tables and the two settings that
are scalars. A file that is absent or cannot be parsed says nothing, one that is not UTF-8
makes loading raise (`LoadRaises`), as does a name of a section that ends up without a
table. The variables of the environment come in any order (`environ` has those that have
come up), and one that names a section takes the place of its table.

### MCParts

The small components share no variable. A behaviour of `PartsSpec` picks one of them
(`part`) and runs it alone, so that one run covers all and their state spaces add up
instead of multiplying. `spawn` is `SubAgents` again, for its liveness; `center` is
`CommandCenter`; `hr` and `session` are the two uses of `Roster`, `versions` and
`optimizer` those of `Prompts`, `messages` and `tools` those of `Selection`. Some parts are
narrowed by a conjunct of `PartsNext` or `PartsInit` (see the bounds below).

## 4. The runs

| Run | Instance | Shows |
|---|---|---|
| `goal_crash` | 2 subtasks, run + 2 resumes, crashes and exceptions everywhere | types, retry discipline, verdicts backed by rows, the plan of the first run right, checks kept, the contract implemented |
| `goal_settles` | 3 subtasks, run + 2 resumes, no failure of the process, fair | no box checked without a recorded success, an escalated goal is resumable, goals settle |
| `goal_claim_completed` | 3 subtasks, run + 2 resumes | violated: a goal is `completed` although one subtask never succeeded |
| `spawn_safety` | 3 spawns, 2 permits, cancellation and exceptions | permits conserved, none idle beside a waiter, `_active` right, and exactly what an ended spawn leaves behind |
| `spawn_claim_timeout` | 2 spawns, 1 permit, fair | violated: the timeout does not bound a spawn |
| `queue_overlap` | 3 overlapping processes, 2 tasks, ids, deaths, fair | verdicts backed by one process, claimed tasks settled |
| `queue_order` | 4 processes in a row, 3 tasks of 2 priorities, deaths | the contract of the queue implemented: each task once, the most urgent first, the oldest of those, verdicts by two attempts |
| `queue_claim_race` | 2 overlapping processes | violated: both run the same task |
| `twitter_posting` | 2 drafts, 2 attempts per post, 2 approvals, 1 interrupted cycle | every copy has an approval or a repeated send behind it, posted rows are out, unapproved words never travel |
| `parts` | each small component alone, see below | types, the contract of `spawn`, and the 15 invariants and 3 liveness properties of the next table |
| `dispatch_claim_closed` | 2 subtasks, 2 employees | violated: databases stay open after `close` |
| `context_claim_oldest` | 2 messages, one turn | violated: an older message is kept where a newer one is dropped |

What `parts` shows of each part:

| Part | Property | In words |
|---|---|---|
| `spawn` | `SpawnEnds`, `ImplementsContract` | a waiting spawn ends if processes that close their output exit; first come, first served |
| `dispatch` | `UsedIsOpen`, `WorkingIsShown`, `PreparationEnds` | reads go through open connections; the display is right; prompts get built |
| `hr`, `session` | `RosterIsRight` | an order is lost only to a command that read the file before it; assignees are known |
| `brain` | `FindableMemory` | the index says what the table says |
| `turn` | `CallsAreAnswered` | one output per call, in order |
| `pool` | `PooledIsConnected` | pooled clients are usable |
| `ledger` | `SpendIsCounted` | all spending that is not exposed is in the file and counts against the limits |
| `saves` | `SavedStaysLoadable` | a load gives what the last finished save stored |
| `versions`, `optimizer` | `ActiveExists`, `BestIsBest` | an active version exists, but in what a half-written save left; the best allowed candidate is chosen |
| `login` | `LoginIsKept` | no used token in place of a good one, with one exception that it names |
| `messages`, `tools` | `SelectionFits` | choices fit, and are as full as their order allows |
| `audit` | `VerdictTellsWhole` | `verify_chain` is true exactly of one logger's unbroken log without a torn line |
| `config` | `LastLayerWins` | the last file or variable to mention a key or setting decides |
| `center` | `UsableIsHeard`, `HandlersEnd` | a usable session is listened to; every handler ends |

**Bounds.** Two resumes are the least in which a wrongly checked box of one
resume misleads the next; three subtasks are the least in which the unchecked
boxes can be other than the last ones in both. With two subtasks every pair of
coroutines interleaves with every crash point. Three spawns on two permits give a
waiter with two holders, on one permit (in `parts`) two waiters with one holder; there the
spawns, which are all alike, are called in the order of their names (`CalledInOrder`). Two attempts
are not a bound but the code's own limit. For Twitter two drafts give a list with
an item in hand and one to come; two attempts have a first failure that is retried
and a last one that is not; two approvals let one draft be approved again while or
after it is posted; one interrupted cycle is followed by cycles that find its
leftovers. A session of the terminal UI needs two requests to start; three more give
a turn, a second one and a fork after them, and two notifications stand before and
behind an answer.

In `parts`, two subtasks and two employees give one employee with both subtasks and one
each; two texts a context that is shared and one that is not. Two clerks at one employee
overlap in every way, one beside a session falls between any two of its reads
(`AtOneEmployee`, `OneClerk`). Two
connections and three writes over one memory too many let a pruned rowid be used again
by the other. Three iterations of up to two calls have a first, a middle and a last
request; one of the ids stands for the missing one. Two users of two servers and three
clients let a connect overtake another and a disconnect. Three days in two months
have a midnight with and one without a new month; two processes and three units of
spending (`MaxSpent`) a write between another's merge and write, and a save after it. Three
saves of two sessions, two versions with two managers, two refreshers and three tokens let
any two writers overlap, and a third step follow. One of the two managers reads half-written
saves and goes no further from there (`HalfWritten`). Two phrases, two tests of at most one
phrase each and constitutions of at most one rule (`FewTests`, `FewRules`) let two candidates
be allowed or not and better, equal or worse. Five messages are one more than two turns
hold; budgets are overdrawn, smaller and larger than a message. Two loggers, two days and
four entries give a chain that is broken in one file, across two, or not, and a torn line
before, between and behind entries; two keys and four layers each order of a table, a scalar
and silence, for one name at a time (`OneName`: a merge takes each name for itself). Nothing
else is bounded. Symmetry is
used only in runs without liveness, over agents and over processes, whose
identities no definition orders. `CHECK_DEADLOCK FALSE` stands in every
configuration because every instance comes to its end: the runs allowed by
`MaxRuns`, the calls of `spawn` and the processes are used up, the app is down, the bound of the
part that runs is reached.

**Fairness.** The event loop runs every coroutine that can go on and timers fire,
so each coroutine and the driver get weak fairness; a `codex` call is taken to
return because `spawn` has a timeout. (That this is not quite so is what
`spawn_claim_timeout` shows; `SpawnEnds` in `parts` states the assumption on the process
under which it is: one that has closed its output or was signalled exits.) `PartsSpec`
asks for less than the modules do: as long as some spawn, or some job that builds its
prompt, can go on, one does. The commands of gitnexus need no fairness of their own:
the deadline in `_run` ends them. In the terminal UI the message pump and the receive loop both
run and the 30 s timeout fires. Users, servers, crashes, exceptions and cancellation are never fair.

**Findings.** Five runs are counterexamples to what the repository says of itself:
the box index of a resume, the wait after the timeout, the claim of a pending
task, databases that are opened twice and closed once, and a context window that keeps
older messages while it drops newer ones, where its docstring says that the oldest go.
Others were met while reading and are visible in the models without a run of their own:

* `_update_plan_status` only replaces `Status: executing`, so a goal completed by a
  resume keeps a plan that says escalated.
* `cancel_all` stops at the first process that is already gone (`sub_agents.py:204`); an
  exception while reading the output leaves the process running without a permit (`:173`).
* A connection that the terminal UI loses is never shown nor made again
  (`client.py:62`), where its design document promises both.
* `docs/wiki/ceo-orchestrator.md` calls the dispatch of employees sequential where the
  code gathers them.
* A restarted audit logger begins a new chain, so `verify_chain` says False of an
  untouched log.
* An empty section in a YAML file, or a variable `AUTOGENESIS_SECTION`, forgets what
  the lower layers said of it; with `AUTOGENESIS_SECTION__KEY` after it, loading raises.
* A configuration file that is not UTF-8 ends the program with `UnicodeDecodeError`
  (`config.py:124`), though one that cannot be parsed is passed over.
* `hr train` that overlaps `hr fire` undoes it.
* Of two processes with a token budget the one that saves later writes its own total of
  the day over the other's (`budget.py:73`); after a death in the write the whole file
  starts again from nothing.
* An audit line cut off by a full disk takes the next entry with it, and `verify_chain`
  raises instead of answering (`audit.py:85`).
* A draft rejected after a Twitter cycle has listed it goes out as listed, and
  `mark_posted` overwrites the rejection (`scheduler.py:125`).
* Two connects to one MCP server at once leave a client and its process that nobody
  closes.
* `logout` removes the file that `auth.py` writes, `login` of the CLI fills another one.

**Hazards without a model.** These are real and stay prose, because what they do is
plain once said: a crash between `create_goal` and `update_goal_plan_path`
(`orchestrator.py:319`) leaves a goal without a plan path, which `resume` cannot use; siblings of a coroutine that raised retry what `cancel_all`
has just terminated (`ceo.py:216`); an approval request of the app server is never
answered (`client.py:60`); permission is tested before a Twitter cycle and not within
(`scheduler.py:125`), and two schedulers on one queue post twice (`:124`).

**Mutants.** Each property of a passing run has a mutant in its module: a variant
of one definition, written above it, that changes it as a plausible bug would
(an index off by one, a row shared between attempts, a stale snapshot written
back, a permit released twice, a filter dropped). With it the property fails.

## 5. The proofs

`tlapm` checks every step; the theorems hold for all values of the constants
that satisfy the named assumptions (`N`, `MaxRuns`, `MaxConcurrent` positive,
`Agents` and `Jobs` finite, `Priority` an integer per task, `Months` monotone, switches
Boolean).

**GoalExecutionProofs.** `TypeCorrectness` needs more than types: that the box
index stays inside the file follows from `IndexInv` (`completedCount` plus the
number of remaining subtasks is the number of boxes) and from `WorkersInv` (only
remaining subtasks have coroutines). The safety theorems rest on `RowsInv`:
rows of later processes are untouched (`FreshRows`), each coroutine's program point
says what its rows look like (`CoroutineInv`, `Discipline`), and a verdict has its
evidence (`VerdictInv`). From it `RetryDiscipline`, `VerdictIsEarned` and the action
property `ClosedRowsStayClosed` follow. `GoalImplementsContract` adds
`StatusInv`, which ties the phase to the goal's status, and shows that initial
states map to initial states and every action to a step of `GoalContract` or a
stutter; it covers safety, the contract states no fairness.

`ChecksAreEarned` is about two cardinalities and not inductive: between the commit of a
row and the check of a box the coroutine is at `committed`. `EarnedInv` counts these
with the boxes (checked boxes plus coroutines at `committed` are at most the completed
rows). `EscalatedIsResumable` needs `CountedInv`: each checked box was there when the
process started or was checked by a coroutine of its own that has returned, so one that
gives up leaves fewer checks than boxes. `FirstRunPlanIsRight` is inductive with
`FirstRunInv`, which follows each coroutine of run 1 from its row to its box.
`ChecksAreKept`, an action property, needs only that the plan is blank while it is
planned (`BlankInv`).

`FirstResumeIsComplete` says how far the claim that `goal_claim_completed` refutes is
kept: up to and including the first resume (`run <= 2`) a goal that ends as completed
has every subtask completed, under any crash or exception. `SkippedInv` carries it: what
the process was not asked to do has been done before. A first resume establishes that
because the boxes of run 1 are right (`FirstRunInv`); a second resume cannot, since the
first one may have checked boxes of other subtasks.

**TaskQueueProofs.** `TaskVerdictIsEarned`: the strengthening `RowsOf(p)` says for
each program point what rows the process has written; it survives any overlap
because processes write only their own rows and never forget the task they picked.
`TasksRunOnce` and `TakenInOrder` have hypotheses, those of the run that checks them:
nobody names a task by id (`~ById`), for the first also that processes do not overlap
(`~MayOverlap`). Without them the properties are false, as `queue_claim_race` shows for
the first. `AloneInv` says that at most one process runs, and that of two which picked the same
task one died before its first row; it rests on `TakenInv`, which ties the statuses to
the picks: a task that waits no longer is in somebody's hands, and waits no longer once
somebody has run it. `OldestFirst` needs the same and is inductive beside it; it holds
for overlapping processes too.

`QueueImplementsContract` has both hypotheses. `SerialInv` collects the above and adds
`HandInv`: a process that runs holds exactly one task, and has claimed it just when its
program point says so. So while a task is in hand the contract's phase
is a function of that one process (`InHand`), the other tasks keep phase and attempts
(`OthersRest`), and each statement of a dispatch is a move of one task or a stutter:
the SELECT takes, the first row runs, the row of an attempt fails or not, the last UPDATE
settles; a death gives back before the claim and loses the task after it.

**TwitterPostingProofs.** All four invariants of the run, for any number of drafts,
retries, approvals and interrupted cycles. `EachCopyHasACause` is not inductive: a
copy may still come out of the gateway, or be due because a row is approved, listed
or in hand. `Accounted` adds both (`Late`, `Now`) to the copies that are out, and the
sum stays within the approvals and repeated sends: each action moves a unit from one
summand to another or adds one on both sides. `AgentWordsNeedApproval` follows the
words through rows, list, hand and gateway, one lemma per place.

**CommandCenterProofs.** The invariants of the run for sessions of any length, and two
more: a start that fails leaves the app open, an exit leaves nothing behind. The
strengthening of `UsableIsHeard` is `HealthInv`: a session that has its thread or is on
its way to it never has an answer outstanding but the one it waits for, because every
timeout and every failure ends it (the start without a thread, the app otherwise). So
the receive loop can only meet the current future. It needs `UniqueInv`, which says that
a request is unanswered or has its answer on the wire once; `ExitInv` follows
`on_unmount` step by step.

**SessionProofs.** `PermitConservation` and `NoIdlePermit` hold for any number of
spawns and permits. Conservation alone is not inductive: handing out permits
counts waiters by position, so one must know that the queue has no duplicates
and holds exactly the agents at `queued` (`QueueInv`). Then one lemma
(`MoveConserves`) covers every step that moves one agent and wakes a prefix of
the queue, and `ReleaseStep`, `KeepStep` and the acquire steps are its instances.
`NoStrandedWaiter` is preserved because a release wakes one waiter and each woken
waiter wakes the rest. `ActiveIsSupervised` is inductive with the sequence `_active`
free of duplicates; `EndedCleanly` needs `TidyInv`, which says for each program point
whether the process was signalled or has exited and whether the prompt file is gone. Nothing
is exempt from it: it says of the spawns that leave a prompt file or a live process which
they are.
`SpawnsImplementContract` maps each step to one of `SpawnContract` or a stutter. What
moves the contract's variables is again one lemma, `MoveAdmits`; that there is room for
those let in is the conservation of the permits after the step (`FitsNext`), and that
nobody is overtaken is that `Move` hands out from the front and `Spawn` does not
enter past a waiter. `SpawnTypes` bounds `permits` by the conservation as well.

`UsedIsOpen` holds for any number of jobs. The strengthening is
`OpenedStaysOpen`: while the session runs no connection is closed, so the bundles that
are entered have both of theirs and one on its way has the first. `WorkingIsShown` is
inductive beside it: the entry of an employee is a job of theirs that has not ended, and
only the end of another job of the same employee removes it early. `PooledIsConnected`
needs that a client that is being connected is known to one coroutine only and is in no
pool yet (`ConnectingIsNew`), and that clients are numbered as they are created
(`NumberedSoFar`).

`FindableMemory` speaks of the committed state and is inductive only with what an open
transaction may do to it: one connection at most holds the lock, without a holder
`work` is `disk`, and `work` differs from an indexed state by the row just inserted
(`NewRowOnly`) or by the rowids whose entries are deleted and whose rows are not yet
(`Behind`). That the second selection of `prune` is the first follows because nothing
else changes `work` in between.

`CallsAreAnswered` compares the places of outputs with those of calls in the request,
which the code flattens out of the messages. `SentAnswered` and `ToAnswer` follow the
conversation message by message: every answer of the model is followed by the tool
messages it asks for, up to the tool that runs now. The rest is about `FlattenSeq`.

`SelectionFits` judges a finished choice; `ISelection` says the same of one that is still
going through its candidates. What is left is the budget less the sum of what was taken
(`LeftIsUnspent`), only required tools overdraw it (`Affordable`), because they come
first (`RequiredFirst`), and since the rest of the budget only shrinks, what did not fit
once never will, and what is taken after it is smaller (`TooLarge`).

**FileProofs.** `LoginIsKept` needs `NewIsUnseen`: a token
that a process has received and not written is still good, and nobody else has seen it;
for that, tokens are numbered (`IssuedSoFar`). Who was answered without a new token writes
an old one back that is still good, or `dropped` since (an exchange of it in between), so
that exception is part of the property and not of the model. `SavedStaysLoadable` follows from
`StoredIsLast`, which only a rename and an unlink touch. `SpendIsCounted` is restated in
terms of the costs themselves: wherever a total is kept, in a file that can be read
(`FileCovers`), in the memory of a process (`RunsCover`) or in what one is about to write
(`SavesCover`), it is at least what was spent and is not exposed. Who saves alone has the
whole total; what was spent beside another process is exposed when it is recorded. It needs
`FutureIsUnspent` at midnight and that nothing is exposed but what was spent.

`RosterIsRight` is about the file together with the commands that may still write it back:
`FilesSay` of a file that can be read, `OrdersSay` of what a command is about to write: all
that was ordered and not lost, but for what was written since it read the file
(`missed`), which is lost the moment it writes. `BrokenHasCause` names who left a file
unreadable, `AbsentIsNew` that a file nobody has written has no history, and `AssignedLast`
that the session assigns after it has read every file. No overlap of commands is exempt.

`ActiveExists` is inductive: every write of a manifest replaces the versions together with
the active one, and what is read before the write has ended is `cut`. `BestIsBest` is carried
through the candidates in their order; that each holds what the current prompt holds
(`Grown`) keeps a prompt with a blocked phrase as it is.

`LastLayerWins` needs `LastSoFar`, the property at the layer the merge has come to,
`NotYetSaid` (later layers say nothing before their turn), `LastKind` for the settings, and
`EnvTells`: what was parsed of the environment holds every variable that has come up, unless
a section has become a scalar, and then the configuration does not load (`LoadedFits`).

`VerdictTellsWhole` rests on `HashesAreUnique`: a hash is computed once, by one logger. So
entries that follow each other by hash are neighbours in the chain of one logger
(`JournalIsLogged`), and an unbroken sequence of them, from first to last, is a beginning of
that chain. An entry appended to a torn line, or lost in a failed append, only makes a gap.

**DataLemmas.** Facts about sequences and sums would be proved by induction, whose
theorems take an operator for a parameter. `LeastMember`, `Upwards` and `BySize` replace
them: a set of naturals has a least member (from the well-foundedness of `<`), so a set
that holds the first number and with each the next holds all, and so does a set of
subsets that holds each whose smaller ones it holds. With these `FlattenSeq` of the community
modules, a recursive function, is shown to exist, to have the type one expects, to
commute with `Append`, and to put each element where the lengths before it say; and
`MapThenSumSet` to be a function that adds up its members in whichever order
(`SumOfMore`).

**PartsProofs.** A behaviour of `MCParts` is, seen through the variables of one part, a
behaviour of that part: its steps are the part's or leave it alone. So
`PartsSpec` implies the specification of each (`SpawnPart` to `ConfigPart`), and what
is proved of a part holds in the composition: `PartsAreTyped` (the type invariant
of the run, from the type invariants of the parts) and `PartsAreSafe` (all their safety
properties at once). None of them is an effect of the bounds of the run.

**Only model-checked.** Liveness (`GoalSettles`, `SpawnEnds`, `ClaimedIsSettled`,
`HandlersEnd`, `PreparationEnds`): the prover has no way to reason about ENABLED.
The five violations are TLC's alone. `EachTaskOnce` is in a run only where it is
violated, for processes that overlap; for those that do not, it and `OldestFirst` are
proved, and `queue_order` checks the contract, in which both are contained.

## 6. Not modelled

Prompts, outputs, token counts, wording and layout; HTTP, HTML and the terminal.
Two processes on one goal, and the orchestrator over the sub-agent manager, are not
modelled yet. Of the employees' files: project-local overrides, meetings, project
pages and the changelog, which append or render text. The union's operations are
single statements that test nothing another left, so there is nothing the code tries
to keep. The response cache likewise. The parsing of server-sent events, the browser
part of the login, statistics, drift and the constitution's patterns are data without
control. Pure text processing, rendering and thin wrappers stay out for good:
`PROJECT.json` lists each with its reason.
