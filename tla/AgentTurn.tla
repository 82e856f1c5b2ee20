----------------------------- MODULE AgentTurn -----------------------------
(***************************************************************************)
(* AgentLoop.run (packages/core, loop.py) over the client of the Responses *)
(* API (client.py, responses.py): ask the model, run the tools it calls,   *)
(* send it everything again with their outputs, until it calls none.       *)
(*                                                                         *)
(* The model and the tools are the environment.  An id is what the stream  *)
(* gives as call_id; ids may repeat, and 0 stands for the missing one.     *)
(***************************************************************************)
EXTENDS Integers, FiniteSets, Sequences, SequencesExt

CONSTANTS
  CallIds,       \* ids the model gives to its calls
  MaxIterations, \* max_iterations
  MaxCalls       \* bound: calls of one response

ASSUME TurnAssumption == MaxIterations \in Nat \ {0} /\ MaxCalls \in Nat

VARIABLES
  messages,  \* the conversation
  iteration,
  stage,     \* "asking", "streaming", "calling", or how run() ended
  calls,     \* tool_calls: those of the stream, then those not run yet
  sent       \* the input of the last request

turnVars == <<messages, iteration, stage, calls, sent>>

-----------------------------------------------------------------------------
\* A message: its role, and the ids of its calls or the id it answers.
Message(r, ids) == [role |-> r, ids |-> ids]

\* messages_to_response_input: the text beside the calls of an assistant's
\* message is dropped.
Items(msg) ==
  [n \in DOMAIN msg.ids |->
     [kind |-> IF msg.role = "tool" THEN "output" ELSE "call", id |-> msg.ids[n]]]
Input(msgs) == FlattenSeq([n \in DOMAIN msgs |-> Items(msgs[n])])

TurnTypeOK ==
  /\ \A n \in DOMAIN messages :
       /\ messages[n].role \in {"user", "assistant", "tool"}
       /\ ToSet(messages[n].ids) \subseteq CallIds
  /\ iteration \in 1..MaxIterations
  /\ stage \in {"asking", "streaming", "calling", "answered", "raised", "gaveUp"}
  /\ calls \in BoundedSeq(CallIds, MaxCalls)
  /\ \A n \in DOMAIN sent : sent[n].kind \in {"call", "output"}

TurnInit ==
  /\ messages = <<Message("user", <<>>)>>
  /\ iteration = 1 /\ stage = "asking"
  /\ calls = <<>> /\ sent = <<>>

Request ==
  /\ stage = "asking" /\ stage' = "streaming"
  /\ sent' = Input(messages) /\ calls' = <<>>
  /\ UNCHANGED <<messages, iteration>>

\* FUNCTION_CALL_ARGS_DONE.  Events of other types change no call.
CallDone(id) ==
  /\ stage = "streaming" /\ Len(calls) < MaxCalls
  /\ calls' = Append(calls, id)
  /\ UNCHANGED <<messages, iteration, stage, sent>>

\* The end of the stream, whether COMPLETED came or not.
StreamEnds ==
  /\ stage = "streaming"
  /\ IF calls = <<>>
     THEN stage' = "answered" /\ UNCHANGED messages
     ELSE /\ stage' = "calling"
          /\ messages' = Append(messages, Message("assistant", calls))
  /\ UNCHANGED <<iteration, calls, sent>>

\* No token, an HTTP error, a broken connection (nothing is tried again), or a
\* cancellation, which the tool executor does not turn into an output.
TurnRaises ==
  /\ stage \in {"asking", "streaming", "calling"} /\ stage' = "raised"
  /\ UNCHANGED <<messages, iteration, calls, sent>>

\* Mutant: a tool that raises leaves no message.
ToolMessageOfSuccess(ok) ==
  IF ok THEN Append(messages, Message("tool", <<Head(calls)>>)) ELSE messages

\* The output of a tool, or "Error: ..." if it raises.
ToolMessage(ok) == Append(messages, Message("tool", <<Head(calls)>>))

ToolEnds(ok) ==
  /\ stage = "calling"
  /\ messages' = ToolMessage(ok)
  /\ calls' = Tail(calls)
  /\ IF Len(calls) > 1 THEN UNCHANGED <<stage, iteration>>
     ELSE IF iteration = MaxIterations
     THEN stage' = "gaveUp" /\ UNCHANGED iteration
     ELSE stage' = "asking" /\ iteration' = iteration + 1
  /\ UNCHANGED sent

TurnNext ==
  \/ Request \/ (\E id \in CallIds : CallDone(id)) \/ StreamEnds \/ TurnRaises
  \/ \E ok \in BOOLEAN : ToolEnds(ok)

TurnSpec == TurnInit /\ [][TurnNext]_turnVars

-----------------------------------------------------------------------------
\* What the model is asked with answers all its calls: the n-th output is for
\* the n-th call and comes after it, and no call is left over, whichever tools
\* raised and even if ids repeat or are missing.
CallsAreAnswered ==
  LET places(kind) == {n \in DOMAIN sent : sent[n].kind = kind}
      number(n) == Cardinality({m \in 1..n : sent[m].kind = sent[n].kind})
  IN /\ Cardinality(places("call")) = Cardinality(places("output"))
     /\ \A c \in places("call"), o \in places("output") :
          number(c) = number(o) => c < o /\ sent[c].id = sent[o].id
=============================================================================
