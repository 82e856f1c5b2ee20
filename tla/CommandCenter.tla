---------------------------- MODULE CommandCenter ----------------------------
(***************************************************************************)
(* The terminal UI and its app server (packages/tui: app.py, client.py,    *)
(* server.py): start-up, requests over one WebSocket, notifications, exit. *)
(*                                                                         *)
(* Two tasks interleave.  The message pump of the Textual app runs one     *)
(* handler at a time to its end, however long it awaits; what the receive  *)
(* loop reads for the UI waits until the pump is free.  The receive loop   *)
(* runs beside it.  An exception out of a handler closes the app, which    *)
(* then runs on_unmount.  The app server is the environment: it answers in *)
(* any order, late, never, or dies.                                        *)
(*                                                                         *)
(* RequestIds are numbered in the order they are made; the code's ids are    *)
(* fresh UUIDs.  left is history.                                          *)
(***************************************************************************)
EXTENDS Integers, Sequences

CONSTANTS
  MaxRequests,  \* bound: requests of one session
  MaxNotes      \* bound: notifications of one session

ASSUME BoundsAssumption == MaxRequests \in Nat /\ MaxNotes \in Nat

VARIABLES
  appServer,  \* the codex app-server
  conn,       \* the WebSocket
  loop,       \* _receive_loop
  handler,    \* what the message pump is in the middle of
  reqs,       \* requests made so far; the last one is the current one
  pendingIds, \* _pending: the ids
  outcome,    \* the future of the current request
  unanswered, \* requests the server has got and not answered
  wire,       \* messages of the server not read yet
  notes,      \* notifications sent so far
  uiQueue,    \* notifications handed to call_after_refresh
  thread,     \* _active_thread_id is set
  bar,        \* the connection state the status bar shows
  left        \* why the app was left

linkVars == <<appServer, conn>>
callVars == <<reqs, pendingIds, outcome>>
serverVars == <<unanswered, notes>>
uiVars == <<thread, bar, left>>
centerVars == <<linkVars, loop, handler, callVars, serverVars, wire, uiQueue, uiVars>>

-----------------------------------------------------------------------------
RequestIds == 1..MaxRequests

StartUp == {"start", "connect", "initialize", "thread"}
Answerable == {"initialize", "thread", "turn", "fork"}   \* awaiting an answer
Leaving == {"closing", "stop", "stopping", "down"}

\* A message on the wire: the answer to a request, or (id 0) a notification
\* that makes the status bar say "connected".
Answer(r, ok) == [id |-> r, ok |-> ok]
Note == Answer(0, TRUE)

\* Every answer on the wire is to a pending request.
WireOK ==
  /\ wire \in Seq([id : 0..MaxRequests, ok : BOOLEAN])
  /\ \A i \in 1..Len(wire) : wire[i].id \in pendingIds \cup {0}

CenterTypeOK ==
  /\ appServer \in {"none", "running", "exited", "killed"}
  /\ conn \in {"none", "open", "closed"}
  /\ loop \in {"none", "running", "ended"}
  /\ handler \in StartUp \cup Answerable \cup Leaving \cup {"idle"}
  /\ reqs \in 0..MaxRequests
  /\ pendingIds \subseteq 1..reqs
  /\ outcome \in {"open", "result", "error"}
  /\ unanswered \subseteq pendingIds
  /\ WireOK
  /\ notes \in 0..MaxNotes /\ uiQueue \in Nat
  /\ thread \in BOOLEAN
  /\ bar \in {"connecting", "connected", "disconnected"}
  /\ left \in {"no", "user", "request"}
  /\ (left = "no") <=> (handler \notin Leaving)

\* on_mount has come to _start_server.
CenterInit ==
  /\ appServer = "none" /\ conn = "none" /\ loop = "none" /\ handler = "start"
  /\ reqs = 0 /\ pendingIds = {} /\ outcome = "open"
  /\ unanswered = {} /\ wire = <<>> /\ notes = 0 /\ uiQueue = 0
  /\ thread = FALSE /\ bar = "connecting" /\ left = "no"

-----------------------------------------------------------------------------
(* ---- failures of a handler ---- *)

\* Mutant: a failed request is logged and forgotten, whoever made it.
RaiseIgnored(h) ==
  /\ handler' = "idle"
  /\ bar' = IF h \in StartUp THEN "disconnected" ELSE bar
  /\ UNCHANGED <<thread, left>>

\* An exception in handler h: _start_server catches its own, nobody those of a
\* turn or a fork.
Raise(h) ==
  IF h \in StartUp
  THEN handler' = "idle" /\ bar' = "disconnected" /\ UNCHANGED <<thread, left>>
  ELSE handler' = "closing" /\ left' = "request" /\ UNCHANGED <<thread, bar>>

\* _request: the id is pending before it is sent.
SendRequest(h) ==
  /\ reqs < MaxRequests
  /\ reqs' = reqs + 1 /\ pendingIds' = pendingIds \cup {reqs + 1}
  /\ outcome' = "open"
  /\ IF conn = "open"
     THEN /\ unanswered' = unanswered \cup {reqs + 1} /\ handler' = h
          /\ UNCHANGED uiVars
     ELSE Raise(h) /\ UNCHANGED unanswered   \* send raises ConnectionClosed

(* ---- _start_server ---- *)

\* AppServerManager.start and its pause; codex may be missing.
StartServer ==
  /\ handler = "start"
  /\ \/ appServer' = "running" /\ handler' = "connect" /\ UNCHANGED uiVars
     \/ Raise(handler) /\ UNCHANGED appServer
  /\ UNCHANGED <<conn, loop, callVars, serverVars, wire, uiQueue>>

\* connect: one try, then the receive loop and "initialize".
Connect ==
  /\ handler = "connect" /\ appServer = "running"
  /\ conn' = "open" /\ loop' = "running"
  /\ reqs < MaxRequests
  /\ reqs' = reqs + 1 /\ pendingIds' = pendingIds \cup {reqs + 1}
  /\ unanswered' = unanswered \cup {reqs + 1}
  /\ handler' = "initialize"
  /\ UNCHANGED <<appServer, outcome, notes, wire, uiQueue, uiVars>>

\* The server does not listen yet, or no longer.
ConnectFails ==
  /\ handler = "connect"
  /\ Raise(handler)
  /\ UNCHANGED <<linkVars, loop, callVars, serverVars, wire, uiQueue>>

\* start_thread follows.
Initialized ==
  /\ handler = "initialize" /\ outcome = "result"
  /\ SendRequest("thread")
  /\ UNCHANGED <<linkVars, loop, notes, wire, uiQueue>>

ThreadStarted ==
  /\ handler = "thread" /\ outcome = "result"
  /\ thread' = TRUE /\ bar' = "connected" /\ handler' = "idle"
  /\ UNCHANGED <<linkVars, loop, callVars, serverVars, wire, uiQueue, left>>

(* ---- the user ---- *)

\* Input for the CEO's thread, or the fork of that thread.
Submit(h) ==
  /\ handler = "idle" /\ thread
  /\ SendRequest(h)
  /\ UNCHANGED <<linkVars, loop, notes, wire, uiQueue>>

TurnOrForkAnswered ==
  /\ handler \in {"turn", "fork"} /\ outcome = "result"
  /\ handler' = "idle"
  /\ UNCHANGED <<linkVars, loop, callVars, serverVars, wire, uiQueue, uiVars>>

Quit ==
  /\ handler = "idle"
  /\ handler' = "closing" /\ left' = "user"
  /\ UNCHANGED <<linkVars, loop, callVars, serverVars, wire, uiQueue, thread,
                 bar>>

(* ---- answers that fail or do not come ---- *)

CallFails ==
  /\ handler \in Answerable /\ outcome = "error"
  /\ Raise(handler)
  /\ UNCHANGED <<linkVars, loop, callVars, serverVars, wire, uiQueue>>

\* Mutant: a timeout for the start only, since turns may take long.
StartTimesOut ==
  /\ handler \in Answerable \cap StartUp /\ outcome = "open"
  /\ Raise(handler)
  /\ UNCHANGED <<linkVars, loop, callVars, serverVars, wire, uiQueue>>

\* wait_for gives up after 30 s and cancels the future; the id stays pending.
CallTimesOut ==
  /\ handler \in Answerable /\ outcome = "open"
  /\ Raise(handler)
  /\ UNCHANGED <<linkVars, loop, callVars, serverVars, wire, uiQueue>>

(* ---- _receive_loop ---- *)

\* The answer to the current request completes its future.  The future of any
\* other one is cancelled, and the InvalidStateError ends the loop.
ReceiveAnswer ==
  /\ loop = "running" /\ wire # <<>> /\ Head(wire).id # 0
  /\ wire' = Tail(wire) /\ pendingIds' = pendingIds \ {Head(wire).id}
  /\ IF Head(wire).id = reqs /\ handler \in Answerable
     THEN /\ outcome' = IF Head(wire).ok THEN "result" ELSE "error"
          /\ UNCHANGED loop
     ELSE loop' = "ended" /\ UNCHANGED outcome
  /\ UNCHANGED <<linkVars, handler, reqs, serverVars, uiQueue, uiVars>>

ReceiveNote ==
  /\ loop = "running" /\ wire # <<>> /\ Head(wire).id = 0
  /\ wire' = Tail(wire) /\ uiQueue' = uiQueue + 1
  /\ UNCHANGED <<linkVars, loop, handler, callVars, serverVars, uiVars>>

\* The connection is closed and everything read: nobody is told.
LoopEnds ==
  /\ loop = "running" /\ wire = <<>> /\ conn = "closed"
  /\ loop' = "ended"
  /\ UNCHANGED <<linkVars, handler, callVars, serverVars, wire, uiQueue, uiVars>>

\* _process_ws_event: turn/started, turn/completed, thread/started.
ShowNote ==
  /\ handler = "idle" /\ uiQueue > 0
  /\ uiQueue' = uiQueue - 1 /\ bar' = "connected"
  /\ UNCHANGED <<linkVars, loop, handler, callVars, serverVars, wire, thread,
                 left>>

(* ---- on_unmount ---- *)

Disconnect ==
  /\ handler = "closing"
  /\ loop' = IF loop = "running" THEN "ended" ELSE loop
  /\ conn' = IF conn = "open" THEN "closed" ELSE conn
  /\ handler' = "stop"
  /\ UNCHANGED <<appServer, callVars, serverVars, wire, uiQueue, uiVars>>

\* AppServerManager.stop: nothing to do, or SIGTERM.  With a server that has
\* exited, terminate may raise ProcessLookupError, with which on_unmount ends.
TerminateServer ==
  /\ handler = "stop"
  /\ \/ appServer # "none" /\ handler' = "stopping"
     \/ appServer \in {"none", "exited"} /\ handler' = "down"
  /\ UNCHANGED <<linkVars, loop, callVars, serverVars, wire, uiQueue, uiVars>>

\* The process exits within 5 s or is killed.
AwaitServer ==
  /\ handler = "stopping"
  /\ appServer' = IF appServer = "running" THEN "killed" ELSE appServer
  /\ handler' = "down"
  /\ UNCHANGED <<conn, loop, callVars, serverVars, wire, uiQueue, uiVars>>

(* ---- the app server ---- *)

ServerAnswers(r, ok) ==
  /\ appServer = "running" /\ conn = "open" /\ r \in unanswered
  /\ unanswered' = unanswered \ {r} /\ wire' = Append(wire, Answer(r, ok))
  /\ UNCHANGED <<linkVars, loop, handler, callVars, notes, uiQueue, uiVars>>

ServerNotifies ==
  /\ appServer = "running" /\ conn = "open" /\ notes < MaxNotes
  /\ notes' = notes + 1 /\ wire' = Append(wire, Note)
  /\ UNCHANGED <<linkVars, loop, handler, callVars, unanswered, uiQueue, uiVars>>

ServerExits ==
  /\ appServer = "running"
  /\ appServer' = "exited" /\ conn' = IF conn = "open" THEN "closed" ELSE conn
  /\ UNCHANGED <<loop, handler, callVars, serverVars, wire, uiQueue, uiVars>>

\* Closed by the server, or by the keepalive.
ConnectionLost ==
  /\ conn = "open"
  /\ conn' = "closed"
  /\ UNCHANGED <<appServer, loop, handler, callVars, serverVars, wire, uiQueue, uiVars>>

-----------------------------------------------------------------------------
User == Submit("turn") \/ Submit("fork") \/ Quit

\* Steps of the message pump that only need time.
Pump ==
  \/ StartServer \/ Connect \/ ConnectFails \/ Initialized \/ ThreadStarted
  \/ TurnOrForkAnswered \/ CallFails \/ CallTimesOut
  \/ Disconnect \/ TerminateServer \/ AwaitServer

ReceiveLoop == ReceiveAnswer \/ ReceiveNote \/ LoopEnds

Server ==
  \/ \E r \in RequestIds, ok \in BOOLEAN : ServerAnswers(r, ok)
  \/ ServerNotifies \/ ServerExits \/ ConnectionLost

CenterNext == User \/ Pump \/ ReceiveLoop \/ ShowNote \/ Server

CenterSpec == CenterInit /\ [][CenterNext]_centerVars

-----------------------------------------------------------------------------
(* Safety *)

\* While the user can talk to a thread over an open connection, somebody is
\* listening: a late answer ends the receive loop only in a session that never
\* got its thread, or that is being closed.
UsableIsHeard ==
  thread /\ conn = "open" /\ handler \notin Leaving => loop = "running"

\* A failing start leaves the app open (the except clause of _start_server):
\* the app is left by the user or over one of the user's own requests, which
\* needs a thread.
StartNeverCloses == left = "request" => thread

\* Nothing is left behind: when the app is down, so are its server, its
\* connection and its loop (on_unmount, stop).
CleanExit ==
  handler = "down" => appServer # "running" /\ conn # "open" /\ loop # "running"

(* Liveness *)

\* Every handler that has begun comes to its end, also if the server is silent:
\* the pump is free again or the app is down.
HandlersEnd == (handler \notin {"start", "idle"}) ~> (handler \in {"idle", "down"})
=============================================================================
