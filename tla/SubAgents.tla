----------------------------- MODULE SubAgents -----------------------------
(***************************************************************************)
(* SubAgentManager (packages/core, sub_agents.py): concurrent calls of     *)
(* spawn(), each of which runs one codex process under a semaphore and a   *)
(* timeout, and cancel_all().                                              *)
(*                                                                         *)
(* An agent is one call of spawn().  Its steps end at its awaits.  The     *)
(* semaphore is asyncio's: first come first served, and a permit that is   *)
(* handed to a waiter is taken before the waiter runs again.  The process  *)
(* is the environment: it closes its output and exits when it likes, in    *)
(* either order, and may ignore SIGTERM but not SIGKILL.                   *)
(***************************************************************************)
EXTENDS Integers, Sequences, FiniteSets, SequencesExt

CONSTANTS
  Agents,        \* the calls of spawn()
  MaxConcurrent, \* max_concurrent
  MayCancel,     \* the awaiting task may be cancelled (Ctrl-C)  (BOOLEAN)
  MayBreak       \* exec or reading the output may raise  (BOOLEAN)

ASSUME AgentsAssumption == IsFiniteSet(Agents)
ASSUME MaxConcurrentAssumption == MaxConcurrent \in Nat \ {0}
ASSUME SwitchAssumption == MayCancel \in BOOLEAN /\ MayBreak \in BOOLEAN

VARIABLES
  permits,     \* the semaphore's value
  waiters,     \* agents waiting for a permit that none was handed to yet
  pc,          \* where each spawn() is
  proc,        \* its process: "none", "running", or how it "succeeded"/"failed"
  eof,         \* the agents whose process has closed its output
  signal,      \* the last signal sent to it: "none", "TERM" or "KILL"
  active,      \* the dict _active, in insertion order
  promptFile,  \* agents whose prompt file exists
  result,      \* what spawn() returned
  cancelAll    \* "no", "done", or "raised": the outcome of cancel_all()

semVars == <<permits, waiters>>
procVars == <<proc, eof, signal>>
vars == <<semVars, pc, procVars, active, promptFile, result, cancelAll>>

-----------------------------------------------------------------------------
Locations == {"idle", "queued", "granted", "starting", "reading", "waiting",
              "timingOut", "cancelling", "returned", "raised", "broken",
              "abandoned"}

TypeOK ==
  /\ permits \in 0..MaxConcurrent
  /\ waiters \in Seq(Agents)
  /\ pc \in [Agents -> Locations]
  /\ proc \in [Agents -> {"none", "running", "succeeded", "failed"}]
  /\ eof \in SUBSET Agents
  /\ signal \in [Agents -> {"none", "TERM", "KILL"}]
  /\ active \in Seq(Agents)
  /\ promptFile \in SUBSET Agents
  /\ result \in [Agents -> {"none", "success", "failure", "timeout"}]
  /\ cancelAll \in {"no", "done", "raised"}

Exited(a) == proc[a] \in {"succeeded", "failed"}

\* asyncio has dropped the process: signalling it raises ProcessLookupError.
Gone(a) == Exited(a) /\ a \in eof

\* The spawn() calls that own a permit.
Holders == {a \in Agents : pc[a] \in {"granted", "starting", "reading",
                                      "waiting", "timingOut", "cancelling"}}

\* How spawn() ends; "broken" is an exception out of reading the output,
\* "abandoned" a cancellation during the wait for a terminated process.
Over == {"returned", "raised", "broken", "abandoned"}

Supervising == {"reading", "waiting", "timingOut", "cancelling"}

-----------------------------------------------------------------------------
(* The semaphore *)

\* Agent a moves to l, and the first n of the waiters w are handed a permit
\* each out of the given number.
Move(a, l, w, n, value) ==
  /\ permits' = value - n
  /\ waiters' = SubSeq(w, n + 1, Len(w))
  /\ pc' = [b \in Agents |->
              IF b = a THEN l
              ELSE IF b \in ToSet(SubSeq(w, 1, n)) THEN "granted" ELSE pc[b]]

\* Mutants: release twice; wake nobody; the last waiter first.
ReleaseTwice(a, l) ==
  Move(a, l, waiters, IF waiters = <<>> THEN 0 ELSE 1, permits + 2)
ReleaseQuietly(a, l) == Move(a, l, waiters, 0, permits + 1)
ReleaseToLast(a, l) ==
  Move(a, l, Reverse(waiters), IF waiters = <<>> THEN 0 ELSE 1, permits + 1)

\* release(): hand the permit to the first waiter, if there is one.
ReleaseTo(a, l) ==
  Move(a, l, waiters, IF waiters = <<>> THEN 0 ELSE 1, permits + 1)

\* The end of acquire(): wake as many more waiters as there are permits.
WakeAll(a, l, w, value) ==
  Move(a, l, w, IF value < Len(w) THEN value ELSE Len(w), value)

-----------------------------------------------------------------------------
Init ==
  /\ permits = MaxConcurrent /\ waiters = <<>>
  /\ pc = [a \in Agents |-> "idle"]
  /\ proc = [a \in Agents |-> "none"]
  /\ eof = {} /\ signal = [a \in Agents |-> "none"]
  /\ active = <<>> /\ promptFile = {}
  /\ result = [a \in Agents |-> "none"]
  /\ cancelAll = "no"

(* ---- spawn() ---- *)

\* The prompt file is written before the semaphore is waited for.
Spawn(a) ==
  /\ pc[a] = "idle"
  /\ promptFile' = promptFile \cup {a}
  /\ IF permits > 0 /\ waiters = <<>> /\ \A b \in Agents : pc[b] # "granted"
     THEN /\ permits' = permits - 1
          /\ pc' = [pc EXCEPT ![a] = "starting"]
          /\ UNCHANGED waiters
     ELSE /\ waiters' = Append(waiters, a)
          /\ pc' = [pc EXCEPT ![a] = "queued"]
          /\ UNCHANGED permits
  /\ UNCHANGED <<procVars, active, result, cancelAll>>

\* A waiter that was handed a permit runs again.
Resume(a) ==
  /\ pc[a] = "granted"
  /\ WakeAll(a, "starting", waiters, permits)
  /\ UNCHANGED <<procVars, active, promptFile, result, cancelAll>>

CreateProcess(a) ==
  /\ pc[a] = "starting"
  /\ proc' = [proc EXCEPT ![a] = "running"]
  /\ active' = Append(active, a)
  /\ pc' = [pc EXCEPT ![a] = "reading"]
  /\ UNCHANGED <<semVars, eof, signal, promptFile, result, cancelAll>>

\* Mutant: acquire and release around exec instead of async with.
ExecRaisesHolding(a) ==
  /\ MayBreak /\ pc[a] = "starting"
  /\ pc' = [pc EXCEPT ![a] = "raised"]
  /\ UNCHANGED <<semVars, procVars, active, promptFile, result, cancelAll>>

\* create_subprocess_exec raises (no codex, no cwd): outside the try block.
ExecRaises(a) ==
  /\ MayBreak /\ pc[a] = "starting"
  /\ ReleaseTo(a, "raised")
  /\ UNCHANGED <<procVars, active, promptFile, result, cancelAll>>

\* _read_stream sees the end of the output.
ReadDone(a) ==
  /\ pc[a] = "reading" /\ a \in eof
  /\ pc' = [pc EXCEPT ![a] = "waiting"]
  /\ UNCHANGED <<semVars, procVars, active, promptFile, result, cancelAll>>

\* Mutants: no pop in the finally block; the permit kept.
LeaveUnpopped(a, l) ==
  /\ promptFile' = promptFile \ {a}
  /\ ReleaseTo(a, l)
  /\ UNCHANGED active
LeaveHolding(a, l) ==
  /\ active' = RemoveFirst(active, a)
  /\ promptFile' = promptFile \ {a}
  /\ pc' = [pc EXCEPT ![a] = l]
  /\ UNCHANGED semVars

\* The finally block and the end of the async with.
Leave(a, l) ==
  /\ active' = RemoveFirst(active, a)
  /\ promptFile' = promptFile \ {a}
  /\ ReleaseTo(a, l)

Finish(a) ==
  /\ pc[a] = "waiting" /\ Exited(a)
  /\ result' = [result EXCEPT ![a] =
                  IF proc[a] = "succeeded" THEN "success" ELSE "failure"]
  /\ Leave(a, "returned")
  /\ UNCHANGED <<procVars, cancelAll>>

\* _read_stream raises: a line longer than the stream's limit (ValueError), or
\* an exception of on_output.  No except clause applies.
ReadRaises(a) ==
  /\ MayBreak /\ pc[a] = "reading"
  /\ Leave(a, "broken")
  /\ UNCHANGED <<procVars, result, cancelAll>>

\* Mutant: wait without terminate().
WaitOnly(a, l) ==
  /\ pc' = [pc EXCEPT ![a] = l]
  /\ UNCHANGED <<signal, semVars, active, promptFile>>

\* terminate() in an except clause of spawn(), then up to 5 s of proc.wait().
Terminate(a, l) ==
  IF Gone(a)
  THEN Leave(a, "raised") /\ UNCHANGED signal
  ELSE /\ signal' = [signal EXCEPT ![a] = IF Exited(a) THEN @ ELSE "TERM"]
       /\ pc' = [pc EXCEPT ![a] = l]
       /\ UNCHANGED <<semVars, active, promptFile>>

TimeoutFires(a) ==
  /\ pc[a] = "reading"
  /\ Terminate(a, "timingOut")
  /\ UNCHANGED <<proc, eof, result, cancelAll>>

\* The end of both except clauses: return the timeout, or re-raise.
Conclude(a) ==
  /\ Leave(a, IF pc[a] = "timingOut" THEN "returned" ELSE "raised")
  /\ result' = IF pc[a] = "timingOut" THEN [result EXCEPT ![a] = "timeout"]
               ELSE result

TerminatedInTime(a) ==
  /\ pc[a] \in {"timingOut", "cancelling"} /\ Exited(a)
  /\ Conclude(a)
  /\ UNCHANGED <<procVars, cancelAll>>

\* The 5 s are over: kill(), without waiting for the process to be gone.
Kill(a) ==
  /\ pc[a] \in {"timingOut", "cancelling"}
  /\ IF Gone(a)
     THEN Leave(a, "raised") /\ UNCHANGED <<signal, result>>
     ELSE /\ signal' = [signal EXCEPT ![a] = IF Exited(a) THEN @ ELSE "KILL"]
          /\ Conclude(a)
  /\ UNCHANGED <<proc, eof, cancelAll>>

(* ---- cancellation of the awaiting task, at each of its awaits ---- *)

CancelQueued(a) ==
  /\ MayCancel /\ pc[a] = "queued"
  /\ \E i \in DOMAIN waiters :
       waiters[i] = a /\ WakeAll(a, "raised", RemoveAt(waiters, i), permits)
  /\ UNCHANGED <<procVars, active, promptFile, result, cancelAll>>

\* The permit that was already handed over is put back.
CancelGranted(a) ==
  /\ MayCancel /\ pc[a] = "granted"
  /\ WakeAll(a, "raised", waiters, permits + 1)
  /\ UNCHANGED <<procVars, active, promptFile, result, cancelAll>>

\* asyncio closes a process that is being started.
CancelStarting(a) ==
  /\ MayCancel /\ pc[a] = "starting"
  /\ ReleaseTo(a, "raised")
  /\ UNCHANGED <<procVars, active, promptFile, result, cancelAll>>

CancelSupervising(a) ==
  /\ MayCancel /\ pc[a] \in {"reading", "waiting"}
  /\ Terminate(a, "cancelling")
  /\ UNCHANGED <<proc, eof, result, cancelAll>>

\* A cancellation that hits the wait for a terminated process: not a
\* TimeoutError, so nothing kills the process.
CancelTerminating(a) ==
  /\ MayCancel /\ pc[a] \in {"timingOut", "cancelling"}
  /\ Leave(a, "abandoned")
  /\ UNCHANGED <<procVars, result, cancelAll>>

Cancel(a) ==
  \/ CancelQueued(a) \/ CancelGranted(a) \/ CancelStarting(a)
  \/ CancelSupervising(a) \/ CancelTerminating(a)

(* ---- cancel_all() ---- *)

\* terminate() one process after the other.  One that is gone raises, which
\* leaves the later ones alone and the dict as it is.
CancelAll ==
  /\ cancelAll = "no"
  /\ LET gone == {i \in DOMAIN active : Gone(active[i])}
         reached == {active[i] : i \in {j \in DOMAIN active :
                                          \A g \in gone : j < g}}
     IN /\ signal' = [a \in Agents |->
                        IF a \in reached /\ ~Exited(a) /\ signal[a] = "none"
                        THEN "TERM" ELSE signal[a]]
        /\ IF gone = {}
           THEN active' = <<>> /\ cancelAll' = "done"
           ELSE cancelAll' = "raised" /\ UNCHANGED active
  /\ UNCHANGED <<semVars, pc, proc, eof, promptFile, result>>

(* ---- the process ---- *)

CloseOutput(a) ==
  /\ proc[a] # "none" /\ a \notin eof
  /\ eof' = eof \cup {a}
  /\ UNCHANGED <<semVars, pc, proc, signal, active, promptFile, result,
                 cancelAll>>

Exit(a, how) ==
  /\ proc[a] = "running"
  /\ signal[a] = "KILL" => how = "failed"
  /\ proc' = [proc EXCEPT ![a] = how]
  /\ UNCHANGED <<semVars, pc, eof, signal, active, promptFile, result,
                 cancelAll>>

-----------------------------------------------------------------------------
SpawnStep(a) ==
  \/ Resume(a) \/ CreateProcess(a) \/ ExecRaises(a)
  \/ ReadDone(a) \/ Finish(a) \/ ReadRaises(a)
  \/ TimeoutFires(a) \/ TerminatedInTime(a) \/ Kill(a)

Environment(a) == CloseOutput(a) \/ \E how \in {"succeeded", "failed"} : Exit(a, how)

Next ==
  \/ \E a \in Agents : Spawn(a) \/ SpawnStep(a) \/ Cancel(a) \/ Environment(a)
  \/ CancelAll

Spec == Init /\ [][Next]_vars

\* The event loop runs every coroutine that can go on, and timers fire.
FairSpec == Spec /\ \A a \in Agents : WF_vars(SpawnStep(a))

\* In addition every process that has closed its output or was sent a signal
\* exits at some time.
ObedientSpec ==
  FairSpec /\ \A a \in Agents :
    WF_vars((a \in eof \/ signal[a] # "none")
              /\ \E how \in {"succeeded", "failed"} : Exit(a, how))
-----------------------------------------------------------------------------
(* Safety *)

\* No path through spawn(), normal, failing, timed out or cancelled at any
\* await, loses a permit or returns one twice.
PermitsConserved == permits + Cardinality(Holders) = MaxConcurrent

\* A free permit never lies idle while an agent waits for one, unless a waiter
\* that was already handed one is about to pass it on.
NoStrandedWaiter ==
  permits > 0 /\ waiters # <<>> => \E a \in Agents : pc[a] = "granted"

\* Until cancel_all() has cleared it, the dict _active holds exactly the
\* processes whose spawn() still supervises them: those it ought to terminate.
ActiveIsSupervised ==
  cancelAll # "done" =>
    ToSet(active) = {a \in Agents : pc[a] \in Supervising}

\* What a spawn() that is over leaves behind, whatever hit it at whichever of
\* its awaits.  Its prompt file stays exactly if it never had a process (given
\* up in the queue or during exec, or a failed exec: all before the try block).
\* Its process has exited or was killed, with two exceptions and no other: a
\* cancellation during the 5 s after terminate() leaves it terminated only, and
\* an exception out of reading its output leaves it alone.
EndedCleanly ==
  \A a \in Agents : pc[a] \in Over =>
    /\ a \in promptFile <=> proc[a] = "none"
    /\ pc[a] \in {"returned", "raised"} =>
         proc[a] = "none" \/ Exited(a) \/ signal[a] = "KILL"
    /\ pc[a] = "abandoned" => Exited(a) \/ signal[a] = "TERM"

(* Refinement *)

\* The sets of agents that may hold permits at the same time.
Crews == {S \in SUBSET Agents : Cardinality(S) <= MaxConcurrent}

Departed == {a \in Agents : pc[a] \in Over}

Contract == INSTANCE SpawnContract WITH
              Callers <- Agents, Groups <- Crews,
              line <- waiters, inside <- Holders,
              left <- Departed

\* Calls of spawn() are served in the order in which they came, never more
\* than max_concurrent at a time, whoever fails, times out or is cancelled at
\* whichever await, though a permit passes from release() to a woken waiter
\* that may itself be cancelled before it runs.
ImplementsContract == Contract!Spec

(* Liveness *)

\* Every spawn() ends, and releases its permit, if processes end once they
\* have closed their output or were signalled.
SpawnEnds ==
  \A a \in Agents : pc[a] = "queued" ~> pc[a] \in Over

-----------------------------------------------------------------------------
(* A claim of the documentation that the code does not keep *)

\* "Default dispatch timeout is 300 seconds": a sub-agent that was started
\* ends, whatever its process does.  The timeout covers the reading of the
\* output, not the wait for the exit after it.
TimeoutBoundsSpawn ==
  \A a \in Agents : pc[a] = "reading" ~> pc[a] \in Over
=============================================================================
