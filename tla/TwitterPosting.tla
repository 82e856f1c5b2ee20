--------------------------- MODULE TwitterPosting ---------------------------
(***************************************************************************)
(* From a draft to a tweet (packages/twitter: queue.py, scheduler.py,      *)
(* poster.py, gateway.py; packages/tools: twitter_post.py).                *)
(*                                                                         *)
(* The agent queues drafts, reviewers (dashboards over the same SQLite     *)
(* file) approve, edit or reject them, and the scheduler's cycles send the *)
(* approved ones through a poster that retries and a gateway that signs    *)
(* and forwards.  Every UPDATE of the queue is unconditional.  The gateway *)
(* is single threaded: it serves one request after the other, also those   *)
(* whose sender has given up.                                              *)
(*                                                                         *)
(* Drafts are numbered by created_at.  published, approvals and resent     *)
(* count what happened; the code keeps no such counters.                   *)
(***************************************************************************)
EXTENDS Integers, FiniteSets, Functions

CONSTANTS
  MaxDrafts,     \* bound: drafts the agent queues
  MaxRetries,    \* max_retries of post_tweet: the sends per call
  MaxApprovals,  \* bound: approvals of all drafts together
  MaxInterrupts  \* bound: cycles ended by an exception or a kill

ASSUME BoundsAssumption == MaxDrafts \in Nat /\ MaxApprovals \in Nat
                             /\ MaxInterrupts \in Nat
ASSUME MaxRetriesAssumption == MaxRetries \in Nat \ {0}

Drafts == 1..MaxDrafts
Texts == {"agent", "edited"}

VARIABLES
  status, text,   \* the queue's rows
  active,         \* permission granted, and not outside the active hours
  phase,          \* where run_cycle is
  todo, snapshot, \* the items list_approved returned, and their texts
  current,        \* the item being posted, or 0
  attempt,        \* the attempt of post_tweet, counted from 0
  abandoned,      \* requests at the gateway nobody waits for any more
  published,      \* copies of each draft on Twitter
  approvals, agentApproved, \* approvals, and those of the agent's words
  resent,         \* sends after a network error or an interrupted cycle
  interrupts

queueVars == <<status, text>>
reviewVars == <<approvals, agentApproved>>
cycleVars == <<todo, snapshot, current, attempt>>
countVars == <<resent, interrupts>>
vars == <<queueVars, reviewVars, active, phase, cycleVars, abandoned,
          published, countVars>>

-----------------------------------------------------------------------------
Phases == {"idle", "browsing", "posting", "backoff", "waiting",
           "succeeded", "failed"}

TypeOK ==
  /\ status \in [Drafts -> {"absent", "pending", "approved", "rejected",
                            "posted", "failed"}]
  /\ text \in [Drafts -> Texts]
  /\ active \in BOOLEAN
  /\ phase \in Phases
  /\ todo \in SUBSET Drafts
  /\ snapshot \in [Drafts -> Texts]
  /\ current \in Drafts \cup {0}
  /\ attempt \in 0..(MaxRetries - 1)
  /\ abandoned \in [Drafts \X Texts -> Nat]
  /\ published \in [Drafts -> Nat]
  /\ approvals \in [Drafts -> Nat]
  /\ agentApproved \in SUBSET Drafts
  /\ resent \in [Drafts -> Nat]
  /\ interrupts \in 0..MaxInterrupts
  /\ current = 0 <=> phase \in {"idle", "browsing", "posting"}

\* Mutant: the status filter forgotten.
ListOpen == {d \in Drafts : status[d] \in {"pending", "approved"}}

\* list_approved.
Approved == {d \in Drafts : status[d] = "approved"}

\* Twitter has accepted a request for d.
Publish(d) == published' = [published EXCEPT ![d] = @ + 1]

-----------------------------------------------------------------------------
Init ==
  /\ status = [d \in Drafts |-> "absent"]
  /\ text = [d \in Drafts |-> "agent"]
  /\ active = FALSE
  /\ phase = "idle" /\ todo = {} /\ snapshot = [d \in Drafts |-> "agent"]
  /\ current = 0 /\ attempt = 0
  /\ abandoned = [q \in Drafts \X Texts |-> 0]
  /\ published = [d \in Drafts |-> 0]
  /\ approvals = [d \in Drafts |-> 0] /\ agentApproved = {}
  /\ resent = [d \in Drafts |-> 0] /\ interrupts = 0

(* ---- the agent's tool and the reviewers ---- *)

\* A new row: its words are the agent's.
Add(d) == status' = [status EXCEPT ![d] = "pending"]

\* TwitterPostTool.execute: the draft has passed the constitutional check.
QueueDraft(d) ==
  /\ status[d] = "absent" /\ \A e \in Drafts : e < d => status[e] # "absent"
  /\ Add(d)
  /\ UNCHANGED <<text, reviewVars, active, phase, cycleVars, abandoned,
                 published, countVars>>

\* Reviewers work from lists of pending drafts that may be out of date, and no
\* UPDATE tests the status: any draft in the queue may be approved, rejected or
\* edited at any time.
Approve(d) ==
  /\ status[d] # "absent" /\ FoldFunction(+, 0, approvals) < MaxApprovals
  /\ status' = [status EXCEPT ![d] = "approved"]
  /\ approvals' = [approvals EXCEPT ![d] = @ + 1]
  /\ agentApproved' = IF text[d] = "agent" THEN agentApproved \cup {d}
                      ELSE agentApproved
  /\ UNCHANGED <<text, active, phase, cycleVars, abandoned, published,
                 countVars>>

Reject(d) ==
  /\ status[d] # "absent"
  /\ status' = [status EXCEPT ![d] = "rejected"]
  /\ UNCHANGED <<text, reviewVars, active, phase, cycleVars, abandoned,
                 published, countVars>>

\* update_draft, the first half of "edit & approve".
UpdateDraft(d) ==
  /\ status[d] # "absent"
  /\ text' = [text EXCEPT ![d] = "edited"]
  /\ UNCHANGED <<status, reviewVars, active, phase, cycleVars, abandoned,
                 published, countVars>>

(* ---- the session ---- *)

GrantPermission ==
  /\ active' = TRUE
  /\ UNCHANGED <<queueVars, reviewVars, phase, cycleVars, abandoned,
                 published, countVars>>

\* By the user at any time, or by should_run_cycle when it is asked outside the
\* active hours.  A cycle under way goes on.
RevokePermission ==
  /\ active' = FALSE
  /\ UNCHANGED <<queueVars, reviewVars, phase, cycleVars, abandoned,
                 published, countVars>>

(* ---- run_cycle ---- *)

\* should_run_cycle says yes, then run_cycle up to the browsing of the feed.
StartCycle ==
  /\ phase = "idle" /\ active
  /\ phase' = "browsing"
  /\ UNCHANGED <<queueVars, reviewVars, active, cycleVars, abandoned,
                 published, countVars>>

ListApproved ==
  /\ phase = "browsing"
  /\ todo' = Approved
  /\ snapshot' = [d \in Drafts |-> IF d \in Approved THEN text[d] ELSE "agent"]
  /\ phase' = "posting"
  /\ UNCHANGED <<queueVars, reviewVars, active, current, attempt,
                 abandoned, published, countVars>>

\* The next item, newest first: post_tweet sends its first request.
PostItem(d) ==
  /\ phase = "posting"
  /\ d \in todo /\ \A e \in todo : e <= d
  /\ todo' = todo \ {d} /\ current' = d
  /\ phase' = "waiting"
  /\ UNCHANGED <<queueVars, reviewVars, active, snapshot, attempt, abandoned,
                 published, countVars>>

EndCycle ==
  /\ phase = "posting" /\ todo = {}
  /\ phase' = "idle" /\ snapshot' = [d \in Drafts |-> "agent"]
  /\ UNCHANGED <<queueVars, reviewVars, active, todo, current, attempt,
                 abandoned, published, countVars>>

(* ---- post_tweet ---- *)

\* The sleep between two attempts is over.
SendAgain ==
  /\ phase = "backoff"
  /\ phase' = "waiting"
  /\ UNCHANGED <<queueVars, reviewVars, active, cycleVars, abandoned,
                 published, countVars>>

\* `continue` of the retry loop, unless this was the last attempt.
TryAgain ==
  IF attempt < MaxRetries - 1
  THEN phase' = "backoff" /\ attempt' = attempt + 1
  ELSE phase' = "failed" /\ UNCHANGED attempt

\* An httpx.HTTPError: whether the tweet is out is not known.
NetworkError ==
  /\ TryAgain
  /\ resent' = IF attempt < MaxRetries - 1
               THEN [resent EXCEPT ![current] = @ + 1] ELSE resent

\* The request of the current attempt reaches the gateway, or it does not.
Abandon ==
  \/ abandoned' = [abandoned EXCEPT ![<<current, snapshot[current]>>] = @ + 1]
  \/ UNCHANGED abandoned

\* The gateway cannot be reached, the connection breaks, or the 30 s are over;
\* what the gateway has received stays there.
RequestLost ==
  /\ phase = "waiting"
  /\ NetworkError
  /\ Abandon
  /\ UNCHANGED <<queueVars, reviewVars, active, todo, snapshot, current,
                 published, interrupts>>

(* ---- _handle_tweet: the gateway's answers ---- *)

\* Earlier requests are served first.
Served == phase = "waiting" /\ \A q \in Drafts \X Texts : abandoned[q] = 0

\* Mutant: an answer without an "id" treated like a network error.
AnswerOkRetried ==
  /\ Served
  /\ Publish(current)
  /\ TryAgain
  /\ UNCHANGED <<queueVars, reviewVars, active, todo, snapshot, current,
                 abandoned, countVars>>

AnswerOk ==
  /\ Served
  /\ Publish(current)
  /\ phase' = "succeeded"
  /\ UNCHANGED <<queueVars, reviewVars, active, cycleVars, abandoned,
                 countVars>>

\* 429 of the Twitter API, passed on.
AnswerRateLimited ==
  /\ Served
  /\ TryAgain
  /\ UNCHANGED <<queueVars, reviewVars, active, todo, snapshot, current,
                 abandoned, published, countVars>>

\* 400, 401, 403, 413: not posted.  502: the gateway's own request failed or
\* timed out, and Twitter may have accepted it.
AnswerError ==
  /\ Served
  /\ phase' = "failed"
  /\ UNCHANGED published \/ Publish(current)
  /\ UNCHANGED <<queueVars, reviewVars, active, cycleVars, abandoned,
                 countVars>>

\* A request whose sender has given up is served all the same, if the gateway
\* lives: its outcome reaches nobody.
ServeAbandoned(d, t) ==
  /\ abandoned[<<d, t>>] > 0
  /\ abandoned' = [abandoned EXCEPT ![<<d, t>>] = @ - 1]
  /\ UNCHANGED published \/ Publish(d)
  /\ UNCHANGED <<queueVars, reviewVars, active, phase, cycleVars,
                 countVars>>

(* ---- back in run_cycle ---- *)

\* Mutant: posted whatever the result.
MarkAlways ==
  /\ phase \in {"succeeded", "failed"}
  /\ status' = [status EXCEPT ![current] = "posted"]
  /\ phase' = "posting" /\ current' = 0 /\ attempt' = 0
  /\ UNCHANGED <<text, reviewVars, active, todo, snapshot, abandoned,
                 published, countVars>>

\* mark_posted or mark_failed, whatever the row says by now.
MarkResult ==
  /\ phase \in {"succeeded", "failed"}
  /\ status' = [status EXCEPT ![current] =
                  IF phase = "succeeded" THEN "posted" ELSE "failed"]
  /\ phase' = "posting" /\ current' = 0 /\ attempt' = 0
  /\ UNCHANGED <<text, reviewVars, active, todo, snapshot, abandoned,
                 published, countVars>>

\* An exception out of run_cycle, or the end of its process: the rows stay,
\* the request under way too; a killed process forgets its permission.
Interrupt ==
  /\ phase # "idle" /\ interrupts < MaxInterrupts
  /\ interrupts' = interrupts + 1
  /\ phase' = "idle" /\ todo' = {} /\ current' = 0 /\ attempt' = 0
  /\ snapshot' = [d \in Drafts |-> "agent"]
  /\ active' \in {active, FALSE}
  /\ resent' = IF current = 0 THEN resent
               ELSE [resent EXCEPT ![current] = @ + 1]
  /\ IF phase = "waiting" THEN Abandon ELSE UNCHANGED abandoned
  /\ UNCHANGED <<queueVars, reviewVars, published>>

-----------------------------------------------------------------------------
Review(d) == Approve(d) \/ Reject(d) \/ UpdateDraft(d)

Session == GrantPermission \/ RevokePermission

CycleStep ==
  \/ ListApproved \/ (\E d \in Drafts : PostItem(d)) \/ EndCycle
  \/ SendAgain \/ RequestLost
  \/ AnswerOk \/ AnswerRateLimited \/ AnswerError \/ MarkResult

Next ==
  \/ \E d \in Drafts : QueueDraft(d) \/ Review(d)
  \/ Session \/ StartCycle \/ CycleStep \/ Interrupt
  \/ \E d \in Drafts, t \in Texts : ServeAbandoned(d, t)

Spec == Init /\ [][Next]_vars
-----------------------------------------------------------------------------
(* Safety *)

\* Every copy of a draft on Twitter has a cause: an approval of its own, or a
\* send repeated after a network error or an interrupted cycle.  No answer, no
\* stale review and no order of the UPDATEs makes the poster send a draft more
\* often than that, although abandoned requests may still be served later.
EachCopyHasACause == \A d \in Drafts : published[d] <= approvals[d] + resent[d]

\* A row that says posted tells the truth (mark_posted after a 200 only).
PostedIsPublished ==
  \A d \in Drafts : status[d] = "posted" => published[d] > 0

\* What the agent wrote is on its way in its words, now or in a request nobody
\* waits for, only if a reviewer approved these words; a draft that was edited
\* before its approval never is, whatever copies of the queue a cycle holds.
AgentWordsNeedApproval ==
  \A d \in Drafts :
    (current = d /\ snapshot[d] = "agent") \/ abandoned[<<d, "agent">>] > 0
      => d \in agentApproved
=============================================================================
