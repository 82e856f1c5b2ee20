------------------------ MODULE CommandCenterProofs ------------------------
(***************************************************************************)
(* Proofs about CommandCenter, for sessions of any length.                 *)
(***************************************************************************)
EXTENDS CommandCenter, TLAPS

USE BoundsAssumption

\* A request is unanswered, or its answer is on the wire once.
UniqueInv ==
  /\ \A i \in 1..Len(wire) : wire[i].id \notin unanswered
  /\ \A i, j \in 1..Len(wire) :
       wire[i].id = wire[j].id /\ wire[i].id # 0 => i = j

\* A session that has its thread, or is on its way to it.
Healthy == handler \notin Leaving /\ (thread \/ handler \in StartUp)

\* The requests whose answer is still waited for.
AwaitedNow == IF handler \in Answerable /\ outcome = "open" THEN {reqs} ELSE {}

\* Only the current request of a healthy session is without its answer, and its
\* receive loop runs; before the connection there is nothing.
HealthInv ==
  /\ Healthy => /\ unanswered \subseteq AwaitedNow
                /\ \A i \in 1..Len(wire) : wire[i].id \in AwaitedNow \cup {0}
                /\ conn = "open" => loop = "running"
  /\ handler \in {"start", "connect"} =>
       conn = "none" /\ reqs = 0 /\ wire = <<>> /\ outcome = "open"
  /\ handler \in StartUp => ~thread
  /\ handler \in {"turn", "fork"} => thread
  /\ StartNeverCloses

\* What on_unmount has done so far.
ExitInv ==
  /\ handler \in {"stop", "stopping", "down"} => conn # "open" /\ loop # "running"
  /\ handler = "down" => appServer # "running"

-----------------------------------------------------------------------------
(* Sequences *)

LEMMA TailElements ==
  ASSUME NEW S, NEW s \in Seq(S), s # <<>>
  PROVE  /\ Tail(s) \in Seq(S) /\ Head(s) = s[1] /\ s[1] \in S
         /\ Len(s) \in Nat \ {0} /\ Len(Tail(s)) = Len(s) - 1
         /\ \A i \in 1..Len(Tail(s)) : Tail(s)[i] = s[i + 1]
  OBVIOUS

LEMMA AppendElements ==
  ASSUME NEW S, NEW s \in Seq(S), NEW e \in S
  PROVE  /\ Append(s, e) \in Seq(S) /\ Len(Append(s, e)) = Len(s) + 1
         /\ \A i \in 1..Len(s) : Append(s, e)[i] = s[i]
         /\ Append(s, e)[Len(s) + 1] = e
  OBVIOUS

Messages == [id : 0..MaxRequests, ok : BOOLEAN]

-----------------------------------------------------------------------------
(* Types, and one answer per request *)

LEMMA TypeInit == CenterInit => CenterTypeOK /\ UniqueInv
<1> SUFFICES ASSUME CenterInit PROVE CenterTypeOK /\ UniqueInv
  OBVIOUS
<1>1. wire = <<>> /\ Len(wire) = 0 /\ 1..Len(wire) = {}
  BY DEF CenterInit
<1>2. WireOK
  BY <1>1 DEF WireOK
<1>3. UniqueInv
  BY <1>1 DEF UniqueInv
<1>4. 0 \in 0..MaxRequests /\ 0 \in 0..MaxNotes /\ 0 \in Nat
  OBVIOUS
<1>5. CenterTypeOK
  BY <1>2, <1>4 DEF CenterInit, CenterTypeOK, StartUp, Answerable, Leaving
<1>6. QED
  BY <1>3, <1>5

\* Steps that leave the wire and the calls alone.
LEMMA TypeOtherStep ==
  ASSUME CenterTypeOK, UniqueInv, UNCHANGED <<reqs, pendingIds, unanswered, wire, notes>>,
         \/ StartServer \/ ConnectFails \/ ThreadStarted \/ TurnOrForkAnswered
         \/ Quit \/ CallFails \/ CallTimesOut \/ LoopEnds \/ ShowNote
         \/ Disconnect \/ TerminateServer \/ AwaitServer \/ ServerExits \/ ConnectionLost
         \/ UNCHANGED centerVars
  PROVE  CenterTypeOK' /\ UniqueInv'
<1>1. UniqueInv' /\ WireOK'
  BY DEF UniqueInv, WireOK, CenterTypeOK
<1> USE DEF CenterTypeOK, linkVars, callVars, serverVars, uiVars, StartUp, Answerable, Leaving
<1>2. CASE StartServer \/ ConnectFails \/ CallFails \/ CallTimesOut
  <2>1. handler \in StartUp \cup Answerable
    BY <1>2 DEF StartServer, ConnectFails, CallFails, CallTimesOut
  <2>2. /\ appServer' \in {appServer, "running"} /\ UNCHANGED <<conn, loop, outcome, uiQueue>>
        /\ \/ handler' = "connect" /\ UNCHANGED uiVars
           \/ Raise(handler)
    BY <1>2 DEF StartServer, ConnectFails, CallFails, CallTimesOut
  <2>3. /\ handler' \in {"connect", "idle", "closing"} /\ thread' = thread
        /\ bar' \in {bar, "disconnected"} /\ left' \in {left, "request"}
        /\ (left' = "no") <=> (handler' \notin Leaving)
    BY <2>1, <2>2 DEF Raise
  <2>4. QED
    BY <1>1, <2>2, <2>3
<1>3. CASE ThreadStarted \/ TurnOrForkAnswered \/ Quit \/ LoopEnds
  BY <1>1, <1>3 DEF ThreadStarted, TurnOrForkAnswered, Quit, LoopEnds
<1>4. CASE Disconnect \/ TerminateServer \/ AwaitServer
  BY <1>1, <1>4 DEF Disconnect, TerminateServer, AwaitServer
<1>5. CASE ServerExits \/ ConnectionLost \/ UNCHANGED centerVars
  BY <1>1, <1>5 DEF ServerExits, ConnectionLost, centerVars
<1>6. CASE ShowNote
  <2>1. uiQueue' \in Nat
    BY <1>6 DEF ShowNote
  <2>2. QED
    BY <1>1, <1>6, <2>1 DEF ShowNote
<1>7. QED
  BY <1>1, <1>2, <1>3, <1>4, <1>5, <1>6

\* A new request.
LEMMA TypeRequestStep ==
  ASSUME CenterTypeOK, UniqueInv, Connect \/ Initialized \/ User
  PROVE  CenterTypeOK' /\ UniqueInv'
<1> USE DEF linkVars, callVars, serverVars, uiVars, StartUp, Answerable, Leaving
<1>1. CASE Quit
  BY <1>1, TypeOtherStep DEF Quit
<1>2. CASE Connect \/ Initialized \/ Submit("turn") \/ Submit("fork")
  <2>1. /\ reqs < MaxRequests /\ reqs' = reqs + 1 /\ pendingIds' = pendingIds \cup {reqs + 1}
        /\ unanswered' \in {unanswered, unanswered \cup {reqs + 1}}
        /\ wire' = wire /\ notes' = notes /\ uiQueue' = uiQueue
        /\ outcome' \in {outcome, "open"} /\ appServer' = appServer
    BY <1>2 DEF Connect, Initialized, Submit, SendRequest
  <2>2. /\ conn' \in {conn, "open"} /\ loop' \in {loop, "running"}
        /\ handler' \in {"initialize", "thread", "turn", "fork", "idle", "closing"}
        /\ thread' = thread /\ bar' \in {bar, "disconnected"}
        /\ left' \in {left, "request"}
        /\ (left' = "no") <=> (handler' \notin Leaving)
    BY <1>2 DEF Connect, Initialized, Submit, SendRequest, Raise, CenterTypeOK
  <2>3. \A i \in 1..Len(wire) : wire[i].id # reqs + 1
    BY DEF CenterTypeOK, WireOK
  <2>4. UniqueInv'
    BY <2>1, <2>3 DEF UniqueInv
  <2>5. /\ reqs' \in 0..MaxRequests /\ pendingIds' \subseteq 1..reqs'
        /\ unanswered' \subseteq pendingIds' /\ WireOK'
    BY <2>1 DEF CenterTypeOK, WireOK
  <2>6. QED
    BY <2>1, <2>2, <2>4, <2>5 DEF CenterTypeOK
<1>3. QED
  BY <1>1, <1>2 DEF User

LEMMA TypeReceiveStep ==
  ASSUME CenterTypeOK, UniqueInv, ReceiveAnswer \/ ReceiveNote
  PROVE  CenterTypeOK' /\ UniqueInv'
<1> USE DEF linkVars, callVars, serverVars, uiVars
<1>1. /\ wire \in Seq(Messages) /\ wire # <<>> /\ wire' = Tail(wire)
      /\ Head(wire) = wire[1] /\ Len(wire) \in Nat \ {0}
      /\ Len(wire') = Len(wire) - 1 /\ wire' \in Seq(Messages)
      /\ \A i \in 1..Len(wire') : wire'[i] = wire[i + 1]
  <2>1. wire \in Seq(Messages) /\ wire # <<>> /\ wire' = Tail(wire)
    BY DEF CenterTypeOK, WireOK, Messages, ReceiveAnswer, ReceiveNote
  <2>2. QED
    BY <2>1, TailElements
<1>2. unanswered' = unanswered /\ reqs' = reqs /\ notes' = notes
  BY DEF ReceiveAnswer, ReceiveNote
<1>3. UniqueInv'
  BY <1>1, <1>2 DEF UniqueInv
<1>4. CASE ReceiveAnswer
  <2>1. /\ pendingIds' = pendingIds \ {wire[1].id} /\ uiQueue' = uiQueue /\ wire[1].id # 0
        /\ UNCHANGED <<linkVars, handler, uiVars>>
        /\ loop' \in {loop, "ended"} /\ outcome' \in {outcome, "result", "error"}
    BY <1>1, <1>4 DEF ReceiveAnswer
  <2>2. unanswered' \subseteq pendingIds'
    BY <1>1, <1>2, <2>1 DEF UniqueInv, CenterTypeOK
  <2>3. ASSUME NEW i \in 1..Len(wire') PROVE wire'[i].id \in pendingIds' \cup {0}
    <3>1. i + 1 \in 1..Len(wire) /\ 1 \in 1..Len(wire) /\ i + 1 # 1
      BY <1>1
    <3>2. wire[i + 1].id \in pendingIds \cup {0} /\ wire[i + 1].id # wire[1].id
      BY <3>1, <2>1 DEF UniqueInv, CenterTypeOK, WireOK
    <3>3. QED
      BY <1>1, <2>1, <3>2
  <2>4. WireOK'
    BY <1>1, <2>3 DEF WireOK, Messages
  <2>5. pendingIds' \subseteq 1..reqs'
    BY <1>2, <2>1 DEF CenterTypeOK
  <2>6. /\ appServer' \in {"none", "running", "exited", "killed"}
        /\ conn' \in {"none", "open", "closed"}
        /\ loop' \in {"none", "running", "ended"}
        /\ outcome' \in {"open", "result", "error"}
        /\ (left' = "no") <=> (handler' \notin Leaving)
    BY <2>1 DEF CenterTypeOK
  <2>7. reqs' \in 0..MaxRequests /\ notes' \in 0..MaxNotes /\ uiQueue' \in Nat
    BY <1>2, <2>1 DEF CenterTypeOK
  <2>8. QED
    BY <1>3, <2>1, <2>2, <2>4, <2>5, <2>6, <2>7 DEF CenterTypeOK
<1>5. CASE ReceiveNote
  <2>1. /\ pendingIds' = pendingIds /\ uiQueue' = uiQueue + 1 /\ outcome' = outcome
        /\ UNCHANGED <<linkVars, loop, handler, uiVars>>
    BY <1>5 DEF ReceiveNote
  <2>3. \A i \in 1..Len(wire') : wire'[i].id \in pendingIds' \cup {0}
    BY <1>1, <2>1 DEF CenterTypeOK, WireOK
  <2>4. WireOK'
    BY <1>1, <2>3 DEF WireOK, Messages
  <2>5. QED
    BY <1>2, <1>3, <2>1, <2>4 DEF CenterTypeOK
<1>6. QED
  BY <1>4, <1>5

LEMMA TypeServerStep ==
  ASSUME CenterTypeOK, UniqueInv,
         \/ \E r \in RequestIds, ok \in BOOLEAN : ServerAnswers(r, ok)
         \/ ServerNotifies
  PROVE  CenterTypeOK' /\ UniqueInv'
<1> USE DEF linkVars, callVars, uiVars
<1>1. PICK m \in Messages :
        /\ wire' = Append(wire, m) /\ m.id \in unanswered \cup {0}
        /\ unanswered' = unanswered \ {m.id}
        /\ notes' \in {notes, notes + 1} /\ notes' \in 0..MaxNotes
        /\ UNCHANGED <<linkVars, loop, handler, callVars, uiQueue, uiVars>>
  <2>1. ASSUME NEW r \in RequestIds, NEW ok \in BOOLEAN, ServerAnswers(r, ok)
        PROVE  /\ Answer(r, ok) \in Messages /\ Answer(r, ok).id = r
               /\ wire' = Append(wire, Answer(r, ok)) /\ r \in unanswered
               /\ unanswered' = unanswered \ {r} /\ notes' = notes
               /\ UNCHANGED <<linkVars, loop, handler, callVars, uiQueue, uiVars>>
    BY <2>1 DEF ServerAnswers, Answer, Messages, RequestIds
  <2>2. ASSUME ServerNotifies
        PROVE  /\ Note \in Messages /\ Note.id = 0 /\ wire' = Append(wire, Note)
               /\ unanswered' = unanswered /\ notes' = notes + 1
               /\ notes' \in 0..MaxNotes
               /\ UNCHANGED <<linkVars, loop, handler, callVars, uiQueue, uiVars>>
    BY <2>2 DEF ServerNotifies, Note, Answer, Messages, CenterTypeOK
  <2>3. 0 \notin unanswered /\ notes \in 0..MaxNotes
    BY DEF CenterTypeOK
  <2>4. CASE ServerNotifies
    BY <2>2, <2>3, <2>4
  <2>5. CASE \E r \in RequestIds, ok \in BOOLEAN : ServerAnswers(r, ok)
    BY <2>1, <2>3, <2>5
  <2>6. QED
    BY <2>4, <2>5
<1>2. /\ wire \in Seq(Messages) /\ Len(wire) \in Nat /\ wire' \in Seq(Messages)
      /\ Len(wire') = Len(wire) + 1 /\ wire'[Len(wire) + 1] = m
      /\ \A i \in 1..Len(wire) : wire'[i] = wire[i]
  <2>1. wire \in Seq(Messages)
    BY DEF CenterTypeOK, WireOK, Messages
  <2>2. QED
    BY <1>1, <2>1, AppendElements
<1>3. \A i \in 1..Len(wire') : i \in 1..Len(wire) \/ i = Len(wire) + 1
  BY <1>2
<1>4. WireOK'
  <2>1. \A i \in 1..Len(wire') : wire'[i].id \in pendingIds' \cup {0}
    BY <1>1, <1>2, <1>3 DEF CenterTypeOK, WireOK
  <2>2. QED
    BY <1>2, <2>1 DEF WireOK, Messages
<1>5. UniqueInv'
  <2>1. 0 \notin unanswered
    BY DEF CenterTypeOK
  <2>2. \A i \in 1..Len(wire') : wire'[i].id \notin unanswered'
    BY <1>1, <1>2, <1>3, <2>1 DEF UniqueInv
  <2>3. \A i \in 1..Len(wire) : wire[i].id # 0 => wire[i].id # m.id
    BY <1>1 DEF UniqueInv
  <2>4. \A i, j \in 1..Len(wire') :
          wire'[i].id = wire'[j].id /\ wire'[i].id # 0 => i = j
    <3>1. SUFFICES ASSUME NEW i \in 1..Len(wire'), NEW j \in 1..Len(wire'),
                          wire'[i].id = wire'[j].id, wire'[i].id # 0
                   PROVE  i = j
      OBVIOUS
    <3>2. CASE i \in 1..Len(wire) /\ j \in 1..Len(wire)
      BY <1>2, <3>1, <3>2 DEF UniqueInv
    <3>3. CASE i \in 1..Len(wire) /\ j = Len(wire) + 1
      BY <1>2, <2>3, <3>1, <3>3
    <3>4. CASE i = Len(wire) + 1 /\ j \in 1..Len(wire)
      BY <1>2, <2>3, <3>1, <3>4
    <3>5. QED
      BY <1>3, <3>1, <3>2, <3>3, <3>4
  <2>5. QED
    BY <2>2, <2>4 DEF UniqueInv
<1>6. unanswered' \subseteq pendingIds' /\ pendingIds' \subseteq 1..reqs'
  BY <1>1 DEF CenterTypeOK
<1>7. QED
  BY <1>1, <1>4, <1>5, <1>6 DEF CenterTypeOK

LEMMA TypeStep == CenterTypeOK /\ UniqueInv /\ [CenterNext]_centerVars => CenterTypeOK' /\ UniqueInv'
<1> SUFFICES ASSUME CenterTypeOK, UniqueInv, [CenterNext]_centerVars PROVE CenterTypeOK' /\ UniqueInv'
  OBVIOUS
<1> USE DEF linkVars, callVars, serverVars, uiVars
<1>1. CASE Connect \/ Initialized \/ User
  BY <1>1, TypeRequestStep
<1>2. CASE ReceiveAnswer \/ ReceiveNote
  BY <1>2, TypeReceiveStep
<1>3. CASE \/ \E r \in RequestIds, ok \in BOOLEAN : ServerAnswers(r, ok)
           \/ ServerNotifies
  BY <1>3, TypeServerStep
<1>4. CASE StartServer \/ ConnectFails \/ ThreadStarted \/ TurnOrForkAnswered
  BY <1>4, TypeOtherStep
     DEF StartServer, ConnectFails, ThreadStarted, TurnOrForkAnswered
<1>5. CASE CallFails \/ CallTimesOut \/ LoopEnds \/ ShowNote
  BY <1>5, TypeOtherStep DEF CallFails, CallTimesOut, LoopEnds, ShowNote
<1>6. CASE Disconnect \/ TerminateServer \/ AwaitServer
  BY <1>6, TypeOtherStep DEF Disconnect, TerminateServer, AwaitServer
<1>7. CASE ServerExits \/ ConnectionLost \/ UNCHANGED centerVars
  BY <1>7, TypeOtherStep DEF ServerExits, ConnectionLost, centerVars
<1>8. QED
  BY <1>1, <1>2, <1>3, <1>4, <1>5, <1>6, <1>7
     DEF CenterNext, Pump, ReceiveLoop, Server

\* The types of the variables, and no answer without its pending request; each
\* request is answered at most once.
THEOREM CenterTypes == CenterSpec => [](CenterTypeOK /\ UniqueInv)
<1>1. CenterInit => CenterTypeOK /\ UniqueInv
  BY TypeInit
<1>2. CenterTypeOK /\ UniqueInv /\ [CenterNext]_centerVars => CenterTypeOK' /\ UniqueInv'
  BY TypeStep
<1>3. QED
  BY <1>1, <1>2, PTL DEF CenterSpec

-----------------------------------------------------------------------------
(* Who listens, and why the app is left *)

\* A handler that raises leaves no healthy session.
LEMMA HealthRaise ==
  ASSUME CenterTypeOK, HealthInv, NEW h, Raise(h),
         h \in StartUp => ~thread, h \notin StartUp => thread
  PROVE  HealthInv'
<1>1. CASE h \in StartUp
  <2>1. handler' = "idle" /\ thread' = thread /\ ~thread /\ left' = left
    BY <1>1 DEF Raise
  <2>2. StartNeverCloses'
    BY <2>1 DEF StartNeverCloses, HealthInv
  <2>3. QED
    BY <2>1, <2>2 DEF HealthInv, Healthy, StartUp, Leaving
<1>2. CASE h \notin StartUp
  <2>1. handler' = "closing" /\ thread' = thread /\ thread
    BY <1>2 DEF Raise
  <2>2. QED
    BY <2>1 DEF HealthInv, Healthy, StartUp, Leaving, StartNeverCloses
<1>3. QED
  BY <1>1, <1>2

\* The start, up to the first request.
LEMMA HealthStartStep ==
  ASSUME CenterTypeOK, HealthInv, StartServer \/ Connect \/ ConnectFails
  PROVE  HealthInv'
<1>1. /\ handler \in {"start", "connect"} /\ handler \in StartUp \ Answerable /\ ~thread
      /\ handler \notin Leaving
      /\ conn = "none" /\ reqs = 0 /\ wire = <<>> /\ outcome = "open"
      /\ StartNeverCloses
  BY DEF StartServer, Connect, ConnectFails, HealthInv, StartUp, Answerable, Leaving
<1>2. unanswered = {}
  BY <1>1 DEF HealthInv, Healthy, AwaitedNow
<1>3. CASE Raise(handler)
  BY <1>1, <1>3, HealthRaise
<1>4. CASE StartServer /\ ~Raise(handler)
  <2>1. /\ handler' = "connect" /\ thread' = thread /\ left' = left
        /\ UNCHANGED <<conn, loop, reqs, outcome, unanswered, wire>>
    BY <1>4 DEF StartServer, callVars, serverVars, uiVars
  <2>2. StartNeverCloses' /\ handler' \in StartUp \ Answerable
    BY <1>1, <2>1 DEF StartNeverCloses, StartUp, Answerable
  <2>3. QED
    BY <1>1, <1>2, <2>1, <2>2 DEF HealthInv, Healthy, AwaitedNow
<1>5. CASE Connect
  <2>1. /\ handler' = "initialize" /\ thread' = thread /\ left' = left
        /\ loop' = "running" /\ reqs' = reqs + 1 /\ outcome' = outcome
        /\ unanswered' = unanswered \cup {reqs + 1} /\ wire' = wire
    BY <1>5 DEF Connect, uiVars
  <2>2. StartNeverCloses' /\ AwaitedNow' = {reqs + 1}
    BY <1>1, <2>1 DEF StartNeverCloses, AwaitedNow, Answerable
  <2>3. QED
    BY <1>1, <1>2, <2>1, <2>2 DEF HealthInv, Healthy
<1>6. QED
  BY <1>3, <1>4, <1>5 DEF ConnectFails

\* A request is made when no other one is waited for.
LEMMA HealthRequestStep ==
  ASSUME CenterTypeOK, HealthInv, Initialized \/ Submit("turn") \/ Submit("fork")
  PROVE  HealthInv'
<1>1. PICK h \in {"thread", "turn", "fork"} :
        /\ SendRequest(h) /\ UNCHANGED <<conn, loop, wire>>
        /\ h = "thread" => handler = "initialize" /\ outcome = "result"
        /\ h # "thread" => handler = "idle" /\ thread
  BY DEF Initialized, Submit, linkVars
<1>2. handler \notin Leaving /\ Healthy /\ AwaitedNow = {}
  BY <1>1 DEF Healthy, AwaitedNow, Leaving, StartUp, Answerable
<1>3. h \in StartUp => ~thread
  BY <1>1 DEF HealthInv, StartUp
<1>4. h \notin StartUp => thread
  BY <1>1 DEF StartUp
<1>5. CASE Raise(h)
  BY <1>3, <1>4, <1>5, HealthRaise
<1>6. CASE ~Raise(h)
  <2>1. /\ handler' = h /\ thread' = thread /\ left' = left
        /\ reqs' = reqs + 1 /\ outcome' = "open"
        /\ unanswered' = unanswered \cup {reqs + 1}
    BY <1>1, <1>6 DEF SendRequest, uiVars
  <2>2. StartNeverCloses' /\ AwaitedNow' = {reqs + 1}
    BY <2>1 DEF StartNeverCloses, HealthInv, AwaitedNow, Answerable
  <2>3. handler' \notin {"start", "connect"}
    BY <2>1
  <2>4. QED
    BY <1>1, <1>2, <1>3, <1>4, <2>1, <2>2, <2>3 DEF HealthInv, StartUp
<1>7. QED
  BY <1>5, <1>6

\* A call that succeeds, fails or times out.
LEMMA HealthReturnStep ==
  ASSUME CenterTypeOK, HealthInv,
         ThreadStarted \/ TurnOrForkAnswered \/ CallFails \/ CallTimesOut
  PROVE  HealthInv'
<1>1. CASE ThreadStarted \/ TurnOrForkAnswered
  <2>1. handler \in {"thread", "turn", "fork"} /\ outcome = "result"
    BY <1>1 DEF ThreadStarted, TurnOrForkAnswered
  <2>2. /\ handler \in Answerable /\ handler \notin Leaving /\ outcome = "result"
        /\ handler' = "idle" /\ left' = left /\ handler' \notin StartUp
        /\ UNCHANGED <<conn, loop, outcome, unanswered, wire>>
    <3>1. handler \in Answerable /\ handler \notin Leaving
      BY <2>1 DEF Answerable, Leaving
    <3>2. CASE ThreadStarted
      BY <2>1, <3>1, <3>2
         DEF ThreadStarted, linkVars, callVars, serverVars, StartUp
    <3>3. CASE TurnOrForkAnswered
      BY <2>1, <3>1, <3>3
         DEF TurnOrForkAnswered, linkVars, callVars, serverVars, uiVars, StartUp
    <3>4. QED
      BY <1>1, <3>2, <3>3
  <2>3. Healthy /\ AwaitedNow = {} /\ AwaitedNow' = {}
    BY <1>1, <2>2 DEF Healthy, AwaitedNow, HealthInv, StartUp, Answerable,
                      ThreadStarted, TurnOrForkAnswered
  <2>4. thread'
    BY <1>1 DEF ThreadStarted, TurnOrForkAnswered, HealthInv, uiVars
  <2>5. StartNeverCloses'
    BY <2>4 DEF StartNeverCloses
  <2>6. QED
    BY <2>2, <2>3, <2>5 DEF HealthInv
<1>2. CASE CallFails \/ CallTimesOut
  <2>1. Raise(handler) /\ handler \in Answerable
    BY <1>2 DEF CallFails, CallTimesOut
  <2>2. handler \in StartUp => ~thread
    BY DEF HealthInv
  <2>3. handler \notin StartUp => thread
    BY <2>1 DEF HealthInv, Answerable, StartUp
  <2>4. QED
    BY <2>1, <2>2, <2>3, HealthRaise
<1>3. QED
  BY <1>1, <1>2

\* Steps after which the app is being left.
LEMMA HealthExitStep ==
  ASSUME CenterTypeOK, HealthInv, Quit \/ Disconnect \/ TerminateServer \/ AwaitServer
  PROVE  HealthInv'
<1>1. handler' \in Leaving /\ left' \in {left, "user"} /\ thread' = thread
  BY DEF Quit, Disconnect, TerminateServer, AwaitServer, Leaving, uiVars
<1>2. StartNeverCloses'
  BY <1>1 DEF StartNeverCloses, HealthInv
<1>3. QED
  BY <1>1, <1>2 DEF HealthInv, Healthy, Leaving, StartUp

\* The current request of a healthy session gets its answer.
LEMMA HealthReceiveStep ==
  ASSUME CenterTypeOK, UniqueInv, HealthInv, ReceiveAnswer \/ ReceiveNote
  PROVE  HealthInv'
<1>1. /\ wire \in Seq(Messages) /\ wire # <<>> /\ wire' = Tail(wire)
      /\ UNCHANGED <<conn, handler, reqs, unanswered, thread, left>>
  BY DEF CenterTypeOK, WireOK, Messages, ReceiveAnswer, ReceiveNote, linkVars,
         callVars, serverVars, uiVars
<1>2. /\ Head(wire) = wire[1] /\ Len(wire) \in Nat \ {0}
      /\ Len(wire') = Len(wire) - 1
      /\ \A i \in 1..Len(wire') : wire'[i] = wire[i + 1]
  BY <1>1, TailElements
<1>3. StartNeverCloses' /\ handler \notin {"start", "connect"}
  BY <1>1 DEF HealthInv, StartNeverCloses
<1>4. Healthy' <=> Healthy
  BY <1>1 DEF Healthy
<1>5. ASSUME Healthy
      PROVE  /\ unanswered' \subseteq AwaitedNow'
             /\ \A i \in 1..Len(wire') : wire'[i].id \in AwaitedNow' \cup {0}
             /\ conn' = "open" => loop' = "running"
  <2>1. 1 \in 1..Len(wire) /\ \A i \in 1..Len(wire') : i + 1 \in 2..Len(wire)
    BY <1>2
  <2>2. CASE ReceiveNote
    <3>1. AwaitedNow' = AwaitedNow /\ loop' = loop
      BY <1>1, <2>2 DEF ReceiveNote, AwaitedNow, callVars
    <3>2. QED
      BY <1>1, <1>2, <1>5, <2>1, <3>1 DEF HealthInv
  <2>3. CASE ReceiveAnswer
    <3>1. wire[1].id \in AwaitedNow /\ wire[1].id # 0
      BY <1>2, <1>5, <2>1, <2>3 DEF HealthInv, ReceiveAnswer
    <3>2. wire[1].id = reqs /\ handler \in Answerable /\ AwaitedNow = {reqs}
      BY <3>1 DEF AwaitedNow
    <3>3. loop' = loop /\ outcome' # "open"
      BY <1>2, <2>3, <3>2 DEF ReceiveAnswer
    <3>4. AwaitedNow' = {}
      BY <3>3 DEF AwaitedNow
    <3>5. unanswered' = {}
      BY <1>1, <1>5, <2>1, <3>2 DEF HealthInv, UniqueInv
    <3>6. ASSUME NEW i \in 1..Len(wire') PROVE wire'[i].id = 0
      <4>1. i + 1 \in 1..Len(wire) /\ i + 1 # 1
        BY <1>2
      <4>2. wire[i + 1].id \in {reqs, 0}
        BY <1>5, <3>2, <4>1 DEF HealthInv
      <4>3. ~(wire[i + 1].id = wire[1].id /\ wire[i + 1].id # 0)
        BY <2>1, <4>1 DEF UniqueInv
      <4>4. QED
        BY <1>2, <3>2, <4>2, <4>3
    <3>7. QED
      BY <1>1, <1>5, <3>3, <3>4, <3>5, <3>6 DEF HealthInv
  <2>4. QED
    BY <2>2, <2>3
<1>6. QED
  BY <1>1, <1>3, <1>4, <1>5 DEF HealthInv

LEMMA HealthServerStep ==
  ASSUME CenterTypeOK, HealthInv,
         \/ \E r \in RequestIds, ok \in BOOLEAN : ServerAnswers(r, ok)
         \/ ServerNotifies
  PROVE  HealthInv'
<1>1. PICK m \in Messages :
        /\ wire' = Append(wire, m) /\ m.id \in unanswered \cup {0}
        /\ unanswered' \subseteq unanswered /\ conn = "open"
        /\ UNCHANGED <<conn, loop, handler, reqs, outcome, thread, left>>
  <2>1. ASSUME NEW r \in RequestIds, NEW ok \in BOOLEAN, ServerAnswers(r, ok)
        PROVE  /\ Answer(r, ok) \in Messages /\ Answer(r, ok).id \in unanswered
               /\ wire' = Append(wire, Answer(r, ok)) /\ conn = "open"
               /\ unanswered' \subseteq unanswered
               /\ UNCHANGED <<conn, loop, handler, reqs, outcome, thread, left>>
    BY <2>1 DEF ServerAnswers, Answer, Messages, RequestIds, linkVars, callVars,
                uiVars
  <2>2. ASSUME ServerNotifies
        PROVE  /\ Note \in Messages /\ Note.id = 0 /\ wire' = Append(wire, Note)
               /\ unanswered' = unanswered /\ conn = "open"
               /\ UNCHANGED <<conn, loop, handler, reqs, outcome, thread, left>>
    BY <2>2 DEF ServerNotifies, Note, Answer, Messages, linkVars, callVars,
                uiVars
  <2>3. CASE ServerNotifies
    BY <2>2, <2>3
  <2>4. CASE \E r \in RequestIds, ok \in BOOLEAN : ServerAnswers(r, ok)
    BY <2>1, <2>4
  <2>5. QED
    BY <2>3, <2>4
<1>2. /\ wire \in Seq(Messages) /\ Len(wire) \in Nat
      /\ Len(wire') = Len(wire) + 1 /\ wire'[Len(wire) + 1] = m
      /\ \A i \in 1..Len(wire) : wire'[i] = wire[i]
  <2>1. wire \in Seq(Messages)
    BY DEF CenterTypeOK, WireOK, Messages
  <2>2. QED
    BY <1>1, <2>1, AppendElements
<1>3. \A i \in 1..Len(wire') : i \in 1..Len(wire) \/ i = Len(wire) + 1
  BY <1>2
<1>4. AwaitedNow' = AwaitedNow /\ (Healthy' <=> Healthy) /\ StartNeverCloses'
  BY <1>1 DEF AwaitedNow, Healthy, HealthInv, StartNeverCloses
<1>5. Healthy => \A i \in 1..Len(wire') : wire'[i].id \in AwaitedNow' \cup {0}
  BY <1>1, <1>2, <1>3, <1>4 DEF HealthInv
<1>6. handler \notin {"start", "connect"}
  BY <1>1 DEF HealthInv
<1>7. QED
  BY <1>1, <1>4, <1>5, <1>6 DEF HealthInv

\* Steps that change neither handler nor wire.
LEMMA HealthOtherStep ==
  ASSUME CenterTypeOK, HealthInv,
         LoopEnds \/ ShowNote \/ ServerExits \/ ConnectionLost \/ UNCHANGED centerVars
  PROVE  HealthInv'
<1>1. /\ UNCHANGED <<handler, reqs, outcome, unanswered, wire, thread, left>>
      /\ conn' = conn \/ (conn = "open" /\ conn' = "closed")
      /\ loop' = loop \/ conn' # "open"
  BY DEF LoopEnds, ShowNote, ServerExits, ConnectionLost, centerVars, linkVars,
         callVars, serverVars, uiVars
<1>2. AwaitedNow' = AwaitedNow /\ (Healthy' <=> Healthy) /\ StartNeverCloses'
  BY <1>1 DEF AwaitedNow, Healthy, HealthInv, StartNeverCloses
<1>3. QED
  BY <1>1, <1>2 DEF HealthInv

LEMMA HealthStep == CenterTypeOK /\ UniqueInv /\ HealthInv /\ [CenterNext]_centerVars => HealthInv'
BY HealthStartStep, HealthRequestStep, HealthReturnStep, HealthExitStep,
   HealthReceiveStep, HealthServerStep, HealthOtherStep
   DEF CenterNext, User, Pump, ReceiveLoop, Server

LEMMA HealthCorrect == CenterSpec => []HealthInv
<1>1. CenterInit => HealthInv
  <2>1. SUFFICES ASSUME CenterInit PROVE HealthInv
    OBVIOUS
  <2>2. /\ handler = "start" /\ conn = "none" /\ reqs = 0 /\ wire = <<>>
        /\ 1..Len(wire) = {} /\ outcome = "open" /\ unanswered = {}
        /\ thread = FALSE /\ left = "no"
    BY <2>1 DEF CenterInit
  <2>3. QED
    BY <2>2 DEF HealthInv, StartNeverCloses
<1>2. CenterTypeOK /\ UniqueInv /\ HealthInv /\ [CenterNext]_centerVars => HealthInv'
  BY HealthStep
<1>3. QED
  BY <1>1, <1>2, CenterTypes, PTL DEF CenterSpec

\* A session that is connected and usable is listened to: no interleaving of
\* late answers, timeouts and failures stops the receive loop behind the user's
\* back.
THEOREM UsableSessionIsHeard == CenterSpec => []UsableIsHeard
<1>1. HealthInv => UsableIsHeard
  BY DEF HealthInv, Healthy, UsableIsHeard
<1>2. QED
  BY <1>1, HealthCorrect, PTL

\* However the start fails, the app stays open; only the user's own requests can
\* close it.
THEOREM FailedStartStaysOpen == CenterSpec => []StartNeverCloses
<1>1. HealthInv => StartNeverCloses
  BY DEF HealthInv
<1>2. QED
  BY <1>1, HealthCorrect, PTL

-----------------------------------------------------------------------------
(* Leaving *)

LEMMA CenterExitStep == CenterTypeOK /\ ExitInv /\ [CenterNext]_centerVars => ExitInv'
<1> SUFFICES ASSUME CenterTypeOK, ExitInv, [CenterNext]_centerVars PROVE ExitInv'
  OBVIOUS
<1> USE DEF ExitInv, linkVars, callVars, serverVars, uiVars
<1>1. CASE User \/ Initialized
  <2>1. handler' \notin {"stop", "stopping", "down"}
    BY <1>1 DEF User, Submit, Quit, Initialized, SendRequest, Raise
  <2>2. QED
    BY <2>1
<1>2. CASE StartServer \/ Connect \/ ConnectFails \/ ThreadStarted
           \/ TurnOrForkAnswered \/ CallFails \/ CallTimesOut
  <2>1. handler' \notin {"stop", "stopping", "down"}
    BY <1>2 DEF StartServer, Connect, ConnectFails, ThreadStarted,
                TurnOrForkAnswered, CallFails, CallTimesOut, Raise
  <2>2. QED
    BY <2>1
<1>3. CASE Disconnect
  BY <1>3 DEF Disconnect
<1>4. CASE TerminateServer \/ AwaitServer
  BY <1>4 DEF TerminateServer, AwaitServer
<1>5. CASE ReceiveAnswer \/ ReceiveNote \/ LoopEnds \/ ShowNote
  BY <1>5 DEF ReceiveAnswer, ReceiveNote, LoopEnds, ShowNote
<1>6. CASE Server \/ UNCHANGED centerVars
  BY <1>6 DEF Server, ServerAnswers, ServerNotifies, ServerExits,
              ConnectionLost, centerVars
<1>7. QED
  BY <1>1, <1>2, <1>3, <1>4, <1>5, <1>6 DEF CenterNext, Pump, ReceiveLoop

\* An app that is down has left neither its server, nor the connection, nor the
\* receive loop behind, whatever the server did meanwhile.
THEOREM NothingIsLeftBehind == CenterSpec => []CleanExit
<1>1. CenterInit => ExitInv
  BY DEF CenterInit, ExitInv
<1>2. CenterTypeOK /\ ExitInv /\ [CenterNext]_centerVars => ExitInv'
  BY CenterExitStep
<1>3. ExitInv => CleanExit
  BY DEF ExitInv, CleanExit
<1>4. QED
  BY <1>1, <1>2, <1>3, CenterTypes, PTL DEF CenterSpec
=============================================================================
