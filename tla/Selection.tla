----------------------------- MODULE Selection -----------------------------
(***************************************************************************)
(* What fits into a request: ContextManager.build_context (packages/core,  *)
(* context.py) chooses messages of the conversation, ToolRegistry          *)
(* .get_definitions_for_context (packages/tools, registry.py) chooses      *)
(* tools, both greedily and under a budget of tokens.                      *)
(*                                                                         *)
(* A message is its length, a tool its number in the order of              *)
(* registration.  Both loops are one: asked is the last call, the          *)
(* candidates it still has to look at, what it took and what is left of    *)
(* the budget; it stays until the conversation or the usage changes.       *)
(***************************************************************************)
EXTENDS Integers, Sequences, FiniteSets, SequencesExt, FiniteSetsExt

CONSTANTS
  Lengths,      \* lengths of messages
  MaxMessages,  \* bound: messages of the conversation
  MaxTurns,     \* max_turns
  LeastMessage, \* _DEFAULT_TOKEN_ESTIMATE
  Tools,        \* the registered tools
  Estimates,    \* their token_cost_estimates
  UnknownCost,  \* the cost of a tool whose estimate is 0
  MaxUses,      \* bound: uses of a tool
  Budgets       \* token budgets of a call

ASSUME SelectionAssumption ==
  /\ Lengths \subseteq Nat /\ MaxTurns \in Nat /\ LeastMessage \in Nat
  /\ Tools \subseteq Nat /\ IsFiniteSet(Tools)
  /\ Estimates \subseteq Nat /\ UnknownCost \in Nat
  /\ MaxMessages \in Nat /\ MaxUses \in Nat /\ Budgets \subseteq Int

VARIABLES
  convo,    \* the messages
  used,     \* _usage_counts
  estimate, \* the token_cost_estimate of each tool
  hidden,   \* the hidden tools
  asked     \* the last call

selectionVars == <<convo, used, estimate, hidden, asked>>

-----------------------------------------------------------------------------
NotAsked == [what |-> "nothing", required |-> {}, budget |-> 0, rest |-> {},
             taken |-> <<>>, left |-> 0]

Requests == [what : {"nothing", "messages", "tools"}, required : SUBSET Tools,
             budget : Budgets \cup {0}, rest : SUBSET Nat, taken : Seq(Nat), left : Int]

SelectionTypeOK ==
  /\ convo \in Seq(Lengths) /\ Len(convo) <= MaxMessages
  /\ used \in [Tools -> 0..MaxUses]
  /\ estimate \in [Tools -> Estimates] /\ hidden \subseteq Tools
  /\ asked \in Requests

SelectionInit ==
  /\ convo = <<>> /\ asked = NotAsked
  /\ used = [t \in Tools |-> 0]
  /\ estimate \in [Tools -> Estimates] /\ hidden \in SUBSET Tools

MessageTokens(n) == LET tokens == convo[n] \div 4
                    IN IF tokens < LeastMessage THEN LeastMessage ELSE tokens
ToolCost(t) == IF estimate[t] = 0 THEN UnknownCost ELSE estimate[t]

(* ---- build_context ---- *)

\* The messages of the last turns (the slice [-0:] is the whole list).
Recent == {n \in DOMAIN convo : MaxTurns = 0 \/ n > Len(convo) - 2 * MaxTurns}

BuildContext(budget) ==
  asked' = [NotAsked EXCEPT !.what = "messages", !.budget = budget,
              !.rest = Recent, !.left = budget]

(* ---- get_definitions_for_context ---- *)

\* Required ones first, then by usage, then in the order of registration.
Precedes(s, t, required) ==
  \/ s \in required /\ t \notin required
  \/ /\ (s \in required) = (t \in required)
     /\ used[s] > used[t] \/ (used[s] = used[t] /\ s < t)

Visible(required) == {t \in Tools : t \in required \/ t \notin hidden}

Disclose(budget, required) ==
  asked' = [what |-> "tools", required |-> required, budget |-> budget,
            rest |-> Visible(required), taken |-> <<>>, left |-> budget]

(* ---- either ---- *)

CostOf(x) == IF asked.what = "messages" THEN MessageTokens(x) ELSE ToolCost(x)

\* The order of the loop; for messages the newest first.
Preferred(x, y) ==
  IF asked.what = "messages" THEN x > y ELSE Precedes(x, y, asked.required)

\* Mutant: what is required is not counted.
TakeUncounted(x) ==
  IF x \in asked.required
  THEN [asked EXCEPT !.rest = @ \ {x}, !.taken = Append(@, x)]
  ELSE IF CostOf(x) <= asked.left
  THEN [asked EXCEPT !.rest = @ \ {x}, !.taken = Append(@, x), !.left = @ - CostOf(x)]
  ELSE [asked EXCEPT !.rest = @ \ {x}]

\* What does not fit is passed over, and the loop goes on with the next.
TakeIfFits(x) ==
  IF x \in asked.required \/ CostOf(x) <= asked.left
  THEN [asked EXCEPT !.rest = @ \ {x}, !.taken = Append(@, x), !.left = @ - CostOf(x)]
  ELSE [asked EXCEPT !.rest = @ \ {x}]

ConsiderNext ==
  /\ \E x \in asked.rest :
       /\ \A y \in asked.rest \ {x} : Preferred(x, y)
       /\ asked' = TakeIfFits(x)
  /\ UNCHANGED <<convo, used, estimate, hidden>>

\* What the call returns: tools as they were taken, messages as they were said.
Returned == IF asked.what = "messages" THEN Reverse(asked.taken) ELSE asked.taken

(* ---- the agent ---- *)

Say(n) ==
  /\ Len(convo) < MaxMessages /\ asked.rest = {}
  /\ convo' = Append(convo, n) /\ asked' = NotAsked
  /\ UNCHANGED <<used, estimate, hidden>>

UseTool(t) ==
  /\ used[t] < MaxUses /\ asked.rest = {}
  /\ used' = [used EXCEPT ![t] = @ + 1] /\ asked' = NotAsked
  /\ UNCHANGED <<convo, estimate, hidden>>

AskForContext ==
  /\ asked = NotAsked
  /\ \E b \in Budgets : BuildContext(b)
  /\ UNCHANGED <<convo, used, estimate, hidden>>

AskForTools ==
  /\ asked = NotAsked
  /\ \E b \in Budgets, required \in SUBSET Tools : Disclose(b, required)
  /\ UNCHANGED <<convo, used, estimate, hidden>>

SelectionNext ==
  \/ (\E n \in Lengths : Say(n)) \/ (\E t \in Tools : UseTool(t))
  \/ AskForContext \/ AskForTools \/ ConsiderNext

SelectionSpec == SelectionInit /\ [][SelectionNext]_selectionVars

-----------------------------------------------------------------------------
\* What a choice took, and what it could have taken.
Chosen == ToSet(asked.taken)
Offered == IF asked.what = "messages" THEN Recent ELSE Visible(asked.required)

\* Whatever is asked for, of which conversation and after whichever usage: what
\* is required is there; the rest never overdraws the budget; what is left out
\* would overdraw it; something less used or older is kept in place of what is
\* left out only if it is smaller (of messages the documentation promises more,
\* see DropsOldest); and everything is in its order (messages as they were said,
\* tools with the preferred ones first).
SelectionFits ==
  asked.what # "nothing" /\ asked.rest = {} =>
    LET total == MapThenSumSet(CostOf, Chosen) IN
    /\ asked.required \subseteq Chosen /\ Chosen \subseteq Offered
    /\ Chosen # asked.required => total <= asked.budget
    /\ \A x \in Offered \ Chosen :
         /\ total + CostOf(x) > asked.budget
         /\ \A y \in Chosen : Preferred(x, y) => CostOf(y) < CostOf(x)
    /\ \A m, n \in DOMAIN Returned : m < n =>
         IF asked.what = "messages" THEN Returned[m] < Returned[n]
         ELSE Preferred(Returned[m], Returned[n])

-----------------------------------------------------------------------------
\* "dropping oldest messages when over token budget" (ContextManager): every
\* message that is kept is newer than every one that is dropped.  The loop goes
\* on after a message that does not fit, so that it may drop a long new one and
\* keep a short old one.
DropsOldest ==
  asked.what = "messages" /\ asked.rest = {} =>
    \A m \in Chosen, n \in Offered \ Chosen : n < m
=============================================================================
