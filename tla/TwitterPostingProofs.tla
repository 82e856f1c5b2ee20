------------------------ MODULE TwitterPostingProofs ------------------------
(***************************************************************************)
(* Proofs about TwitterPosting, for any number of drafts, retries,         *)
(* approvals and interrupted cycles.                                       *)
(***************************************************************************)
EXTENDS TwitterPosting, TLAPS

USE BoundsAssumption, MaxRetriesAssumption

\* 1 while draft d may go out once more without a new cause.
Now(d) ==
  IF current = d THEN IF phase \in {"waiting", "backoff"} THEN 1 ELSE 0
  ELSE IF d \in todo \/ status[d] = "approved" THEN 1 ELSE 0

\* The requests for d that the gateway may still serve.
Late(d) == abandoned[<<d, "agent">>] + abandoned[<<d, "edited">>]

\* What is out, may come out late, or is due has a cause.
Accounted(d) ==
  published[d] + Late(d) + Now(d) <= approvals[d] + resent[d]

AccountsInv ==
  /\ current \notin todo
  /\ \A d \in Drafts : Accounted(d)

\* The words of the agent in the rows, in the snapshot and at the gateway.
WordsInv ==
  /\ \A d \in Drafts :
       status[d] = "approved" /\ text[d] = "agent" => d \in agentApproved
  /\ \A d \in todo : snapshot[d] = "agent" => d \in agentApproved
  /\ AgentWordsNeedApproval

\* A success in hand is out, and so is what a row calls posted.
OutInv ==
  /\ phase = "succeeded" => published[current] > 0
  /\ PostedIsPublished

LEMMA TypeInit == Init => TypeOK
<1> SUFFICES ASSUME Init PROVE TypeOK
  OBVIOUS
<1>1. /\ status \in [Drafts -> {"absent", "pending", "approved", "rejected",
                                "posted", "failed"}]
      /\ text \in [Drafts -> Texts] /\ snapshot \in [Drafts -> Texts]
  BY DEF Init, Texts
<1>2. /\ published \in [Drafts -> Nat] /\ approvals \in [Drafts -> Nat]
      /\ resent \in [Drafts -> Nat] /\ abandoned \in [Drafts \X Texts -> Nat]
  BY DEF Init
<1>3. attempt \in 0..(MaxRetries - 1) /\ interrupts \in 0..MaxInterrupts
  BY DEF Init
<1>4. QED
  BY <1>1, <1>2, <1>3 DEF Init, TypeOK, Phases

\* Every action keeps the types; the attempt stays below max_retries.
LEMMA TypeStep == TypeOK /\ [Next]_vars => TypeOK'
<1> USE DEF TypeOK, Phases, queueVars, reviewVars, cycleVars, countVars
<1> SUFFICES ASSUME TypeOK, [Next]_vars PROVE TypeOK'
  OBVIOUS
<1>1. ASSUME NEW d \in Drafts, QueueDraft(d) \/ Review(d) PROVE TypeOK'
  <2>1. CASE QueueDraft(d)
    BY <2>1 DEF QueueDraft, Add
  <2>2. CASE Approve(d)
    <3>1. /\ status' = [status EXCEPT ![d] = "approved"]
          /\ approvals' = [approvals EXCEPT ![d] = @ + 1]
          /\ agentApproved' \in {agentApproved, agentApproved \cup {d}}
          /\ UNCHANGED <<text, active, phase, cycleVars, abandoned, published,
                         countVars>>
      BY <2>2 DEF Approve
    <3>2. QED
      BY <3>1
  <2>3. CASE Reject(d)
    BY <2>3 DEF Reject
  <2>4. CASE UpdateDraft(d)
    BY <2>4 DEF UpdateDraft, Texts
  <2>5. QED
    BY <1>1, <2>1, <2>2, <2>3, <2>4 DEF Review
<1>2. CASE Session \/ StartCycle
  BY <1>2 DEF Session, GrantPermission, RevokePermission, StartCycle
<1>3. CASE ListApproved
  BY <1>3 DEF ListApproved, Approved, Texts
<1>4. ASSUME NEW d \in Drafts, PostItem(d) PROVE TypeOK'
  BY SMTT(30), <1>4 DEF PostItem, Drafts
<1>5. CASE EndCycle \/ SendAgain
  BY <1>5 DEF EndCycle, SendAgain, Texts
<1>6. CASE RequestLost
  <2>1. current \in Drafts /\ phase' \in {"backoff", "failed"}
        /\ <<current, snapshot[current]>> \in Drafts \X Texts
    BY <1>6 DEF RequestLost, NetworkError, TryAgain, Drafts
  <2>2. attempt' \in 0..(MaxRetries - 1)
    BY <1>6 DEF RequestLost, NetworkError, TryAgain
  <2>3. resent' \in [Drafts -> Nat] /\ abandoned' \in [Drafts \X Texts -> Nat]
    BY <1>6, <2>1 DEF RequestLost, NetworkError, Abandon
  <2>4. QED
    BY <1>6, <2>1, <2>2, <2>3 DEF RequestLost, Drafts
<1>7. CASE AnswerOk \/ AnswerRateLimited \/ AnswerError
  <2>1. /\ current \in Drafts /\ current # 0
        /\ phase' \in {"backoff", "failed", "succeeded"}
    BY <1>7 DEF AnswerOk, AnswerRateLimited, AnswerError, Served, TryAgain,
                Drafts
  <2>2. attempt' \in 0..(MaxRetries - 1)
    BY <1>7 DEF AnswerOk, AnswerRateLimited, AnswerError, TryAgain
  <2>3. published' \in [Drafts -> Nat]
    BY <1>7, <2>1 DEF AnswerOk, AnswerRateLimited, AnswerError, Publish
  <2>4. UNCHANGED <<queueVars, reviewVars, active, todo, snapshot, current,
                    abandoned, countVars>>
    BY <1>7 DEF AnswerOk, AnswerRateLimited, AnswerError
  <2>5. QED
    BY <2>1, <2>2, <2>3, <2>4
<1>8. CASE MarkResult
  BY <1>8 DEF MarkResult
<1>9. CASE Interrupt
  <2>1. phase = "waiting" =>
          current \in Drafts /\ <<current, snapshot[current]>> \in Drafts \X Texts
    BY DEF Drafts
  <2>2. abandoned' \in [Drafts \X Texts -> Nat]
    BY <1>9, <2>1 DEF Interrupt, Abandon
  <2>3. resent' \in [Drafts -> Nat]
    BY <1>9 DEF Interrupt
  <2>4. interrupts' \in 0..MaxInterrupts
    BY <1>9 DEF Interrupt
  <2>5. /\ phase' = "idle" /\ todo' = {} /\ current' = 0
        /\ attempt' \in 0..(MaxRetries - 1)
        /\ snapshot' \in [Drafts -> Texts]
        /\ UNCHANGED <<queueVars, reviewVars, published>>
    BY <1>9 DEF Interrupt, Texts
  <2>6. active' \in BOOLEAN
    BY <1>9, Zenon DEF Interrupt
  <2>7. QED
    BY <2>2, <2>3, <2>4, <2>5, <2>6
<1>10. ASSUME NEW d \in Drafts, NEW t \in Texts, ServeAbandoned(d, t)
       PROVE  TypeOK'
  <2>1. abandoned' \in [Drafts \X Texts -> Nat] /\ published' \in [Drafts -> Nat]
    BY <1>10 DEF ServeAbandoned, Publish
  <2>2. QED
    BY <1>10, <2>1 DEF ServeAbandoned
<1>11. CASE UNCHANGED vars
  BY <1>11 DEF vars
<1>12. QED
  BY <1>1, <1>2, <1>3, <1>4, <1>5, <1>6, <1>7, <1>8, <1>9, <1>10, <1>11
     DEF Next, CycleStep

\* Well-typedness of the queue, the cycle and the gateway: every attempt is one
\* of max_retries, and the poster works on a draft exactly within a post.
THEOREM TypeCorrectness == Spec => []TypeOK
  BY TypeInit, TypeStep, PTL DEF Spec

-----------------------------------------------------------------------------
(* Copies and their causes *)

LEMMA AccountsInit == Init => AccountsInv
<1> SUFFICES ASSUME Init PROVE AccountsInv
  OBVIOUS
<1>1. current \notin todo
  BY DEF Init
<1>2. ASSUME NEW e \in Drafts PROVE Accounted(e)
  <2>1. Late(e) = 0
    BY DEF Init, Late, Texts
  <2>2. Now(e) = 0
    BY DEF Init, Now, Drafts
  <2>3. published[e] = 0 /\ approvals[e] = 0 /\ resent[e] = 0
    BY DEF Init
  <2>4. QED
    BY <2>1, <2>2, <2>3 DEF Accounted
<1>3. QED
  BY <1>1, <1>2 DEF AccountsInv

\* The quantities of the account are numbers.
LEMMA AccountTypes ==
  ASSUME TypeOK, NEW e \in Drafts
  PROVE  /\ published[e] \in Nat /\ approvals[e] \in Nat /\ resent[e] \in Nat
         /\ Late(e) \in Nat /\ Now(e) \in 0..1
<1>1. published[e] \in Nat /\ approvals[e] \in Nat /\ resent[e] \in Nat
  BY DEF TypeOK
<1>2. <<e, "agent">> \in Drafts \X Texts /\ <<e, "edited">> \in Drafts \X Texts
  BY DEF Texts
<1>3. Late(e) \in Nat
  BY <1>2 DEF TypeOK, Late
<1>4. Now(e) \in 0..1
  BY DEF Now
<1>5. QED
  BY <1>1, <1>3, <1>4

LEMMA NextAccountTypes ==
  ASSUME TypeOK', NEW e \in Drafts
  PROVE  published'[e] \in Nat /\ Late(e)' \in Nat /\ Now(e)' \in 0..1
<1>1. <<e, "agent">> \in Drafts \X Texts /\ <<e, "edited">> \in Drafts \X Texts
  BY DEF Texts
<1>2. published'[e] \in Nat
  BY DEF TypeOK
<1>3. Late(e)' \in Nat
  BY <1>1 DEF TypeOK, Late
<1>4. Now(e)' \in 0..1
  BY DEF Now
<1>5. QED
  BY <1>2, <1>3, <1>4

\* A step that leaves the counters and the gateway alone and makes no draft due
\* keeps the account.
LEMMA NothingNew ==
  ASSUME NEW e \in Drafts, TypeOK, TypeOK', Accounted(e), Now(e)' <= Now(e),
         UNCHANGED <<published, abandoned, approvals, resent>>
  PROVE  Accounted(e)'
<1>1. Late(e)' = Late(e)
  BY DEF Late
<1>2. Now(e)' \in 0..1 /\ Now(e) \in 0..1
  BY DEF Now
<1>3. QED
  BY <1>1, <1>2, AccountTypes DEF Accounted

\* Abandoning the current request adds at most one to what may come late.
LEMMA AbandonBound ==
  ASSUME TypeOK, current # 0, Abandon, NEW e \in Drafts
  PROVE  Late(e)' <= IF e = current THEN Late(e) + 1 ELSE Late(e)
<1>1. current \in Drafts /\ snapshot[current] \in Texts
  BY DEF TypeOK
<1>2. /\ <<e, "agent">> \in Drafts \X Texts /\ <<e, "edited">> \in Drafts \X Texts
      /\ <<current, snapshot[current]>> \in Drafts \X Texts
  BY <1>1 DEF Texts
<1>3. abandoned \in [Drafts \X Texts -> Nat]
  BY DEF TypeOK
<1>4. CASE UNCHANGED abandoned
  BY <1>4, <1>3, <1>2 DEF Late
<1>5. CASE abandoned' = [abandoned EXCEPT ![<<current, snapshot[current]>>] = @ + 1]
  <2>1. CASE e # current
    <3>1. <<e, "agent">> # <<current, snapshot[current]>>
          /\ <<e, "edited">> # <<current, snapshot[current]>>
      BY <2>1
    <3>2. abandoned'[<<e, "agent">>] = abandoned[<<e, "agent">>]
          /\ abandoned'[<<e, "edited">>] = abandoned[<<e, "edited">>]
      BY <1>5, <1>3, <1>2, <3>1
    <3>3. QED
      BY <3>2, <1>2, <1>3, <2>1 DEF Late
  <2>2. CASE e = current /\ snapshot[current] = "agent"
    <3>1. abandoned'[<<e, "agent">>] = abandoned[<<e, "agent">>] + 1
          /\ abandoned'[<<e, "edited">>] = abandoned[<<e, "edited">>]
      BY <1>5, <1>3, <1>2, <2>2
    <3>2. QED
      BY <3>1, <1>2, <1>3, <2>2 DEF Late
  <2>3. CASE e = current /\ snapshot[current] = "edited"
    <3>1. abandoned'[<<e, "edited">>] = abandoned[<<e, "edited">>] + 1
          /\ abandoned'[<<e, "agent">>] = abandoned[<<e, "agent">>]
      BY <1>5, <1>3, <1>2, <2>3
    <3>2. QED
      BY <3>1, <1>2, <1>3, <2>3 DEF Late
  <2>4. QED
    BY <2>1, <2>2, <2>3, <1>1 DEF Texts
<1>6. QED
  BY <1>4, <1>5 DEF Abandon

\* Serving an abandoned request takes one of these away.
LEMMA ServeBound ==
  ASSUME TypeOK, NEW d \in Drafts, NEW t \in Texts, ServeAbandoned(d, t),
         NEW e \in Drafts
  PROVE  Late(e)' = IF e = d THEN Late(e) - 1 ELSE Late(e)
<1>1. /\ <<e, "agent">> \in Drafts \X Texts /\ <<e, "edited">> \in Drafts \X Texts
      /\ <<d, t>> \in Drafts \X Texts
  BY DEF Texts
<1>2. /\ abandoned \in [Drafts \X Texts -> Nat]
      /\ abandoned' = [abandoned EXCEPT ![<<d, t>>] = @ - 1]
  BY DEF TypeOK, ServeAbandoned
<1>3. CASE e # d
  <2>1. <<e, "agent">> # <<d, t>> /\ <<e, "edited">> # <<d, t>>
    BY <1>3
  <2>2. abandoned'[<<e, "agent">>] = abandoned[<<e, "agent">>]
        /\ abandoned'[<<e, "edited">>] = abandoned[<<e, "edited">>]
    BY <1>1, <1>2, <2>1
  <2>3. QED
    BY <2>2, <1>3 DEF Late
<1>4. CASE e = d /\ t = "agent"
  <2>1. abandoned'[<<e, "agent">>] = abandoned[<<e, "agent">>] - 1
        /\ abandoned'[<<e, "edited">>] = abandoned[<<e, "edited">>]
    BY <1>1, <1>2, <1>4
  <2>2. QED
    BY <2>1, <1>4, <1>1, <1>2 DEF Late
<1>5. CASE e = d /\ t = "edited"
  <2>1. abandoned'[<<e, "edited">>] = abandoned[<<e, "edited">>] - 1
        /\ abandoned'[<<e, "agent">>] = abandoned[<<e, "agent">>]
    BY <1>1, <1>2, <1>5
  <2>2. QED
    BY <2>1, <1>5, <1>1, <1>2 DEF Late
<1>6. QED
  BY <1>3, <1>4, <1>5 DEF Texts

LEMMA AccountsStep ==
  TypeOK /\ TypeOK' /\ AccountsInv /\ [Next]_vars => AccountsInv'
<1> USE DEF queueVars, reviewVars, cycleVars, countVars
<1> SUFFICES ASSUME TypeOK, TypeOK', AccountsInv, [Next]_vars
             PROVE  AccountsInv'
  OBVIOUS
<1>0. SUFFICES (current \notin todo)' /\ \A e \in Drafts : Accounted(e)'
  BY DEF AccountsInv
<1>t. /\ current \notin todo
      /\ \A e \in Drafts : Accounted(e)
      /\ (current = 0) <=> (phase \in {"idle", "browsing", "posting"})
      /\ current \in Drafts \cup {0} /\ 0 \notin Drafts /\ todo \subseteq Drafts
  <2>1. current \notin todo /\ \A e \in Drafts : Accounted(e)
    BY DEF AccountsInv
  <2>2. /\ (current = 0) <=> (phase \in {"idle", "browsing", "posting"})
        /\ current \in Drafts \cup {0} /\ todo \subseteq Drafts
    BY DEF TypeOK
  <2>3. 0 \notin Drafts
    BY DEF Drafts
  <2>4. QED
    BY <2>1, <2>2, <2>3
<1>1. ASSUME NEW d \in Drafts,
             QueueDraft(d) \/ Reject(d) \/ UpdateDraft(d)
      PROVE  AccountsInv'
  <2>1. UNCHANGED <<current, phase, todo, published, abandoned, approvals, resent>>
    BY <1>1 DEF QueueDraft, Add, Reject, UpdateDraft
  <2>2. ASSUME NEW e \in Drafts, status'[e] = "approved" PROVE status[e] = "approved"
    BY <1>1, <2>2 DEF QueueDraft, Add, Reject, UpdateDraft, TypeOK
  <2>3. ASSUME NEW e \in Drafts PROVE Now(e)' <= Now(e)
    BY <2>1, <2>2 DEF Now
  <2>4. QED
    BY <1>t, <2>1, <2>3, NothingNew DEF AccountsInv
<1>2. ASSUME NEW d \in Drafts, Approve(d) PROVE AccountsInv'
  <2>1. /\ UNCHANGED <<current, phase, todo, published, abandoned, resent>>
        /\ status' = [status EXCEPT ![d] = "approved"]
        /\ approvals' = [approvals EXCEPT ![d] = @ + 1]
    BY <1>2 DEF Approve
  <2>2. ASSUME NEW e \in Drafts PROVE Accounted(e)'
    <3>1. Late(e)' = Late(e) /\ published'[e] = published[e] /\ resent'[e] = resent[e]
      BY <2>1 DEF Late
    <3>2. Accounted(e) /\ Now(e) \in 0..1 /\ Now(e)' \in 0..1
      BY <1>t DEF Now
    <3>3. CASE e = d
      <4>1. approvals'[e] = approvals[e] + 1
        BY <2>1, <3>3 DEF TypeOK
      <4>2. QED
        BY <3>1, <3>2, <4>1, AccountTypes DEF Accounted
    <3>4. CASE e # d
      <4>1. approvals'[e] = approvals[e] /\ status'[e] = status[e]
        BY <2>1, <3>4 DEF TypeOK
      <4>2. Now(e)' = Now(e)
        BY <2>1, <4>1 DEF Now
      <4>3. QED
        BY <3>1, <3>2, <4>1, <4>2, AccountTypes DEF Accounted
    <3>5. QED
      BY <3>3, <3>4
  <2>3. QED
    BY <1>t, <2>1, <2>2 DEF AccountsInv
<1>3. CASE Session \/ StartCycle \/ EndCycle \/ SendAgain
  <2>1. /\ UNCHANGED <<current, todo, status, published, abandoned, approvals, resent>>
        /\ current = 0 \/ (phase = "backoff" /\ phase' = "waiting") \/ phase' = phase
    BY <1>3, <1>t DEF Session, GrantPermission, RevokePermission, StartCycle,
                      EndCycle, SendAgain
  <2>2. ASSUME NEW e \in Drafts PROVE Now(e)' <= Now(e)
    BY <2>1, <1>t DEF Now
  <2>3. QED
    BY <1>t, <2>1, <2>2, NothingNew DEF AccountsInv
<1>4. CASE ListApproved
  <2>1. /\ UNCHANGED <<current, status, published, abandoned, approvals, resent>>
        /\ todo' = Approved /\ current = 0
    BY <1>4, <1>t DEF ListApproved
  <2>2. ASSUME NEW e \in Drafts PROVE Now(e)' <= Now(e)
    BY <2>1, <1>t DEF Now, Approved
  <2>3. (current \notin todo)'
    BY <2>1, <1>t DEF Approved
  <2>4. QED
    BY <1>t, <2>1, <2>2, <2>3, NothingNew DEF AccountsInv
<1>5. ASSUME NEW d \in Drafts, PostItem(d) PROVE AccountsInv'
  <2>1. /\ UNCHANGED <<status, published, abandoned, approvals, resent>>
        /\ d \in todo /\ todo' = todo \ {d} /\ current' = d /\ current = 0
    BY <1>5, <1>t DEF PostItem
  <2>2. ASSUME NEW e \in Drafts PROVE Now(e)' <= Now(e)
    BY <2>1, <1>t DEF Now
  <2>3. QED
    BY <1>t, <2>1, <2>2, NothingNew DEF AccountsInv
<1>6. CASE RequestLost
  <2>1. /\ UNCHANGED <<current, todo, status, published, approvals>>
        /\ phase = "waiting" /\ current \in Drafts /\ current # 0
        /\ Abandon
    BY <1>6, <1>t DEF RequestLost
  <2>2. \/ phase' = "backoff" /\ resent' = [resent EXCEPT ![current] = @ + 1]
        \/ phase' = "failed" /\ resent' = resent
    BY <1>6 DEF RequestLost, NetworkError, TryAgain
  <2>3. ASSUME NEW e \in Drafts PROVE Accounted(e)'
    <3>1. Late(e)' <= IF e = current THEN Late(e) + 1 ELSE Late(e)
      BY <2>1, AbandonBound
    <3>2. Accounted(e) /\ published'[e] = published[e] /\ approvals'[e] = approvals[e]
      BY <1>t, <2>1
    <3>3. CASE e # current
      <4>1. Now(e)' = Now(e) /\ resent'[e] = resent[e]
        BY <2>1, <2>2, <3>3 DEF Now, TypeOK
      <4>2. QED
        BY <3>1, <3>2, <3>3, <4>1, AccountTypes,
           NextAccountTypes DEF Accounted
    <3>4. CASE e = current
      <4>1. /\ Now(e) = 1
            /\ \/ Now(e)' = 1 /\ resent'[e] = resent[e] + 1
               \/ Now(e)' = 0 /\ resent'[e] = resent[e]
        BY <2>1, <2>2, <3>4 DEF Now, TypeOK
      <4>2. QED
        BY <3>1, <3>2, <3>4, <4>1, AccountTypes,
           NextAccountTypes DEF Accounted
    <3>5. QED
      BY <3>3, <3>4
  <2>4. QED
    BY <1>t, <2>1, <2>3 DEF AccountsInv
<1>7. CASE AnswerOk \/ AnswerRateLimited \/ AnswerError
  <2>1. /\ UNCHANGED <<current, todo, status, abandoned, approvals, resent>>
        /\ phase = "waiting" /\ current \in Drafts /\ current # 0
    BY <1>7, <1>t DEF AnswerOk, AnswerRateLimited, AnswerError, Served
  <2>2. \/ phase' \in {"succeeded", "failed"} /\ Publish(current)
        \/ phase' \in {"backoff", "failed"} /\ published' = published
    BY <1>7 DEF AnswerOk, AnswerRateLimited, AnswerError, TryAgain
  <2>3. ASSUME NEW e \in Drafts PROVE Accounted(e)'
    <3>1. /\ Late(e)' = Late(e) /\ Accounted(e)
          /\ approvals'[e] = approvals[e] /\ resent'[e] = resent[e]
      BY <1>t, <2>1 DEF Late
    <3>2. CASE e # current
      <4>1. Now(e)' = Now(e) /\ published'[e] = published[e]
        BY <2>1, <2>2, <3>2 DEF Now, TypeOK, Publish
      <4>2. QED
        BY <3>1, <4>1, AccountTypes DEF Accounted
    <3>3. CASE e = current
      <4>1. /\ Now(e) = 1
            /\ \/ Now(e)' = 0 /\ published'[e] = published[e] + 1
               \/ Now(e)' \in 0..1 /\ published'[e] = published[e]
        BY <2>1, <2>2, <3>3 DEF Now, TypeOK, Publish
      <4>2. QED
        BY <3>1, <4>1, AccountTypes DEF Accounted
    <3>4. QED
      BY <3>2, <3>3
  <2>4. QED
    BY <1>t, <2>1, <2>3 DEF AccountsInv
<1>8. CASE MarkResult
  <2>1. /\ UNCHANGED <<todo, published, abandoned, approvals, resent>>
        /\ phase \in {"succeeded", "failed"} /\ current' = 0 /\ current \in Drafts
        /\ status' = [status EXCEPT ![current] =
                        IF phase = "succeeded" THEN "posted" ELSE "failed"]
    BY <1>8, <1>t DEF MarkResult
  <2>2. ASSUME NEW e \in Drafts PROVE Now(e)' <= Now(e)
    <3>1. CASE e = current
      BY <2>1, <1>t, <3>1 DEF Now, TypeOK
    <3>2. CASE e # current
      BY <2>1, <1>t, <3>2 DEF Now, TypeOK
    <3>3. QED
      BY <3>1, <3>2
  <2>3. (current \notin todo)'
    BY <2>1, <1>t
  <2>4. QED
    BY <1>t, <2>1, <2>2, <2>3, NothingNew DEF AccountsInv
<1>9. CASE Interrupt
  <2>1. /\ UNCHANGED <<status, published, approvals>>
        /\ current' = 0 /\ todo' = {}
        /\ IF phase = "waiting" THEN Abandon ELSE UNCHANGED abandoned
        /\ resent' = IF current = 0 THEN resent
                     ELSE [resent EXCEPT ![current] = @ + 1]
    BY <1>9 DEF Interrupt
  <2>2. ASSUME NEW e \in Drafts PROVE Accounted(e)'
    <3>1. Accounted(e) /\ published'[e] = published[e] /\ approvals'[e] = approvals[e]
      BY <1>t, <2>1
    <3>2. Late(e)' <= IF e = current /\ phase = "waiting" THEN Late(e) + 1 ELSE Late(e)
      <4>1. CASE phase = "waiting"
        BY <4>1, <2>1, <1>t, AbandonBound
      <4>2. CASE phase # "waiting"
        <5>1. Late(e)' = Late(e)
          BY <4>2, <2>1 DEF Late
        <5>2. QED
          BY <5>1, <4>2, AccountTypes
      <4>3. QED
        BY <4>1, <4>2
    <3>3. CASE e # current
      <4>1. resent'[e] = resent[e] /\ Now(e)' <= Now(e)
        BY <2>1, <1>t, <3>3 DEF Now, TypeOK
      <4>2. QED
        BY <3>1, <3>2, <3>3, <4>1, AccountTypes,
           NextAccountTypes DEF Accounted
    <3>4. CASE e = current
      <4>1. resent'[e] = resent[e] + 1
        BY <2>1, <1>t, <3>4 DEF TypeOK
      <4>2. phase = "waiting" => Now(e) = 1
        BY <3>4 DEF Now
      <4>3. QED
        BY <3>1, <3>2, <3>4, <4>1, <4>2, AccountTypes,
           NextAccountTypes DEF Accounted
    <3>5. QED
      BY <3>3, <3>4
  <2>3. QED
    BY <2>1, <2>2 DEF AccountsInv
<1>10. ASSUME NEW d \in Drafts, NEW t \in Texts, ServeAbandoned(d, t)
       PROVE  AccountsInv'
  <2>1. /\ UNCHANGED <<current, phase, todo, status, approvals, resent>>
        /\ UNCHANGED published \/ Publish(d)
    BY <1>10 DEF ServeAbandoned
  <2>2. ASSUME NEW e \in Drafts PROVE Accounted(e)'
    <3>1. Late(e)' = IF e = d THEN Late(e) - 1 ELSE Late(e)
      BY <1>10, ServeBound
    <3>2. /\ Accounted(e) /\ Now(e)' = Now(e)
          /\ approvals'[e] = approvals[e] /\ resent'[e] = resent[e]
      BY <1>t, <2>1 DEF Now
    <3>3. published'[e] <= IF e = d THEN published[e] + 1 ELSE published[e]
      BY <2>1 DEF Publish, TypeOK
    <3>4. QED
      BY <3>1, <3>2, <3>3, AccountTypes,
         NextAccountTypes DEF Accounted
  <2>3. QED
    BY <1>t, <2>1, <2>2 DEF AccountsInv
<1>11. CASE UNCHANGED vars
  <2>1. UNCHANGED <<current, phase, todo, status, published, abandoned, approvals,
                    resent>>
    BY <1>11 DEF vars
  <2>2. ASSUME NEW e \in Drafts PROVE Now(e)' <= Now(e)
    BY <2>1 DEF Now
  <2>3. QED
    BY <1>t, <2>1, <2>2, NothingNew DEF AccountsInv
<1>12. QED
  BY <1>0, <1>1, <1>2, <1>3, <1>4, <1>5, <1>6, <1>7, <1>8, <1>9, <1>10, <1>11
     DEF Next, CycleStep, Review, AccountsInv

\* Every copy on Twitter has an approval, a repeated send or an interrupted
\* cycle to show for it, for any number of retries, reviews and interrupts.
THEOREM EveryCopyHasACause == Spec => []EachCopyHasACause
<1>1. TypeOK /\ AccountsInv => EachCopyHasACause
  <2> SUFFICES ASSUME TypeOK, AccountsInv, NEW e \in Drafts
               PROVE  published[e] <= approvals[e] + resent[e]
    BY DEF EachCopyHasACause
  <2>1. Accounted(e)
    BY DEF AccountsInv
  <2>2. QED
    BY <2>1, AccountTypes DEF Accounted
<1>2. QED
  BY AccountsInit, AccountsStep, TypeCorrectness, <1>1, PTL DEF Spec

-----------------------------------------------------------------------------
(* What the rows say, and whose words go out *)

\* Copies are never taken back: a draft that is out stays out, in every step.
LEMMA PublishedStays ==
  ASSUME TypeOK, [Next]_vars, NEW e \in Drafts
  PROVE  published[e] > 0 => published'[e] > 0
<1> USE DEF TypeOK
<1>1. \A d \in Drafts : Publish(d) /\ published[e] > 0 => published'[e] > 0
  BY DEF Publish
<1>2. UNCHANGED published /\ published[e] > 0 => published'[e] > 0
  OBVIOUS
<1>3. UNCHANGED published \/ \E d \in Drafts : Publish(d)
  <2>1. CASE AnswerOk \/ AnswerError
    BY <2>1 DEF AnswerOk, AnswerError, Served, Drafts
  <2>2. ASSUME NEW d \in Drafts, NEW t \in Texts, ServeAbandoned(d, t)
        PROVE  UNCHANGED published \/ Publish(d)
    BY <2>2 DEF ServeAbandoned
  <2>3. CASE \/ \E d \in Drafts : QueueDraft(d) \/ Review(d)
             \/ Session \/ StartCycle \/ Interrupt
             \/ ListApproved \/ (\E d \in Drafts : PostItem(d)) \/ EndCycle
             \/ SendAgain \/ RequestLost \/ AnswerRateLimited \/ MarkResult
             \/ UNCHANGED vars
    BY <2>3
       DEF QueueDraft, Add, Review, Approve, Reject, UpdateDraft, Session,
           GrantPermission, RevokePermission, StartCycle, Interrupt,
           ListApproved, PostItem, EndCycle, SendAgain, RequestLost,
           AnswerRateLimited, MarkResult, vars
  <2>4. QED
    BY <2>1, <2>2, <2>3 DEF Next, CycleStep
<1>4. QED
  BY <1>1, <1>2, <1>3

LEMMA OutStep == TypeOK /\ OutInv /\ [Next]_vars => OutInv'
<1> USE DEF queueVars, reviewVars, cycleVars, countVars
<1> SUFFICES ASSUME TypeOK, OutInv, [Next]_vars PROVE OutInv'
  OBVIOUS
<1>1. status' = status /\ phase' = phase /\ current' = current => OutInv'
  <2> SUFFICES ASSUME status' = status, phase' = phase, current' = current
               PROVE  OutInv'
    OBVIOUS
  <2>1. phase = "succeeded" => current \in Drafts
    BY DEF TypeOK
  <2>2. phase' = "succeeded" => published'[current'] > 0
    BY <2>1, PublishedStays DEF OutInv, TypeOK
  <2>3. ASSUME NEW e \in Drafts, status'[e] = "posted" PROVE published'[e] > 0
    BY <2>3, PublishedStays DEF OutInv, PostedIsPublished, TypeOK
  <2>4. QED
    BY <2>2, <2>3 DEF OutInv, PostedIsPublished
<1>2. ASSUME NEW d \in Drafts, QueueDraft(d) \/ Review(d) PROVE OutInv'
  <2>1. /\ UNCHANGED <<published, phase, current>>
        /\ \E s \in {"pending", "approved", "rejected"} :
             status' = [status EXCEPT ![d] = s] \/ status' = status
    BY <1>2 DEF QueueDraft, Add, Review, Approve, Reject, UpdateDraft
  <2>2. ASSUME NEW e \in Drafts, status'[e] = "posted" PROVE status[e] = "posted"
    BY <2>1, <2>2 DEF TypeOK
  <2>3. QED
    BY <2>1, <2>2 DEF OutInv, PostedIsPublished
<1>3. CASE \/ StartCycle \/ ListApproved \/ (\E d \in Drafts : PostItem(d))
           \/ EndCycle \/ SendAgain \/ RequestLost \/ Interrupt
           \/ AnswerRateLimited
  BY <1>3 DEF StartCycle, ListApproved, PostItem, EndCycle, SendAgain,
              RequestLost, NetworkError, Interrupt, AnswerRateLimited, TryAgain,
              OutInv, PostedIsPublished
<1>4. CASE AnswerOk \/ AnswerError
  <2>1. /\ status' = status /\ current' = current /\ current \in Drafts
        /\ phase' = "failed" \/ Publish(current)
    BY <1>4 DEF AnswerOk, AnswerError, Served, TypeOK
  <2>2. phase' = "succeeded" => published'[current'] > 0
    BY <2>1 DEF Publish, TypeOK
  <2>3. ASSUME NEW e \in Drafts, status'[e] = "posted" PROVE published'[e] > 0
    BY <2>1, <2>3, PublishedStays DEF OutInv, PostedIsPublished, TypeOK
  <2>4. QED
    BY <2>2, <2>3 DEF OutInv, PostedIsPublished
<1>5. CASE MarkResult
  BY <1>5 DEF MarkResult, OutInv, PostedIsPublished, TypeOK
<1>6. CASE Session \/ (\E d \in Drafts, t \in Texts : ServeAbandoned(d, t))
           \/ UNCHANGED vars
  BY <1>6, <1>1 DEF Session, GrantPermission, RevokePermission, ServeAbandoned,
                    vars
<1>7. QED
  BY <1>2, <1>3, <1>4, <1>5, <1>6 DEF Next, CycleStep

\* A row that says posted is about a tweet that is out: mark_posted follows a
\* 200 only, and reviews never write that word.
THEOREM PostedRowsTellTheTruth == Spec => []PostedIsPublished
<1>1. Init => OutInv
  BY DEF Init, OutInv, PostedIsPublished
<1>2. OutInv => PostedIsPublished
  BY DEF OutInv
<1>3. QED
  BY <1>1, <1>2, OutStep, TypeCorrectness, PTL DEF Spec

\* An approval of the agent's words is never forgotten.
LEMMA ApprovalsStay ==
  ASSUME [Next]_vars PROVE agentApproved \subseteq agentApproved'
<1> USE DEF reviewVars
<1>1. ASSUME NEW d \in Drafts, Approve(d)
      PROVE  agentApproved \subseteq agentApproved'
  BY <1>1 DEF Approve
<1>2. CASE \/ \E d \in Drafts : \/ QueueDraft(d) \/ Reject(d) \/ UpdateDraft(d)
                              \/ PostItem(d)
           \/ Session \/ StartCycle \/ Interrupt
           \/ ListApproved \/ EndCycle \/ SendAgain \/ RequestLost
           \/ AnswerOk \/ AnswerRateLimited \/ AnswerError \/ MarkResult
           \/ (\E d \in Drafts, t \in Texts : ServeAbandoned(d, t))
           \/ UNCHANGED vars
  BY <1>2
     DEF QueueDraft, Add, Reject, UpdateDraft, PostItem, Session, GrantPermission,
         RevokePermission, StartCycle, Interrupt, ListApproved, EndCycle,
         SendAgain, RequestLost, AnswerOk, AnswerRateLimited, AnswerError,
         MarkResult, ServeAbandoned, vars
<1>3. QED
  BY <1>1, <1>2 DEF Next, Review, CycleStep

\* The pieces of WordsInv: the rows, the list of the cycle, the item being
\* posted and the gateway.
RowWords ==
  \A d \in Drafts :
    status[d] = "approved" /\ text[d] = "agent" => d \in agentApproved
ListWords == \A d \in todo : snapshot[d] = "agent" => d \in agentApproved
CurrentWords ==
  \A d \in Drafts : current = d /\ snapshot[d] = "agent" => d \in agentApproved
LateWords ==
  \A d \in Drafts : abandoned[<<d, "agent">>] > 0 => d \in agentApproved

LEMMA WordsSplit ==
  WordsInv <=> RowWords /\ ListWords /\ CurrentWords /\ LateWords
  BY DEF WordsInv, RowWords, ListWords, CurrentWords, LateWords,
         AgentWordsNeedApproval

LEMMA RowWordsStep ==
  ASSUME TypeOK, RowWords, [Next]_vars PROVE RowWords'
<1> USE DEF queueVars
<1>1. UNCHANGED queueVars => RowWords'
  BY ApprovalsStay DEF RowWords
<1>2. ASSUME NEW d \in Drafts, QueueDraft(d) \/ Reject(d) \/ UpdateDraft(d)
      PROVE  RowWords'
  BY <1>2, ApprovalsStay
     DEF QueueDraft, Add, Reject, UpdateDraft, RowWords, TypeOK, Texts
<1>3. ASSUME NEW d \in Drafts, Approve(d) PROVE RowWords'
  <2>1. /\ status' = [status EXCEPT ![d] = "approved"] /\ text' = text
        /\ text[d] = "agent" => d \in agentApproved'
    BY <1>3 DEF Approve
  <2>2. QED
    BY <2>1, ApprovalsStay DEF RowWords, TypeOK
<1>4. CASE MarkResult
  BY <1>4, ApprovalsStay DEF MarkResult, RowWords, TypeOK
<1>5. CASE \/ Session \/ StartCycle \/ Interrupt
           \/ ListApproved \/ (\E d \in Drafts : PostItem(d)) \/ EndCycle
           \/ SendAgain \/ RequestLost
           \/ AnswerOk \/ AnswerRateLimited \/ AnswerError
           \/ (\E d \in Drafts, t \in Texts : ServeAbandoned(d, t))
           \/ UNCHANGED vars
  BY <1>1, <1>5
     DEF PostItem, Session, GrantPermission, RevokePermission, StartCycle,
         Interrupt, ListApproved, EndCycle, SendAgain, RequestLost, AnswerOk,
         AnswerRateLimited, AnswerError, ServeAbandoned, vars
<1>6. QED
  BY <1>2, <1>3, <1>4, <1>5 DEF Next, Review, CycleStep

\* What a cycle holds and what it posts comes from the approved rows.
LEMMA CycleWordsStep ==
  ASSUME TypeOK, RowWords, ListWords, CurrentWords, [Next]_vars
  PROVE  ListWords' /\ CurrentWords'
<1> USE DEF cycleVars
<1>1. UNCHANGED <<todo, snapshot, current>> => ListWords' /\ CurrentWords'
  BY ApprovalsStay DEF ListWords, CurrentWords
<1>2. CASE ListApproved
  <2>1. /\ todo' = Approved /\ current' = current /\ current \notin Drafts
        /\ snapshot' = [d \in Drafts |-> IF d \in Approved THEN text[d] ELSE "agent"]
    <3>1. current = 0
      BY <1>2 DEF ListApproved, TypeOK
    <3>2. QED
      BY <1>2, <3>1 DEF ListApproved, Drafts
  <2>2. QED
    BY <2>1, ApprovalsStay DEF ListWords, CurrentWords, RowWords, Approved
<1>3. ASSUME NEW d \in Drafts, PostItem(d) PROVE ListWords' /\ CurrentWords'
  BY <1>3, ApprovalsStay DEF PostItem, ListWords, CurrentWords
<1>4. CASE EndCycle \/ Interrupt
  <2>1. todo' = {} /\ current' = 0
    BY <1>4 DEF EndCycle, Interrupt, TypeOK
  <2>2. QED
    BY <2>1 DEF ListWords, CurrentWords, Drafts
<1>5. CASE MarkResult
  <2>1. todo' = todo /\ snapshot' = snapshot /\ current' = 0
    BY <1>5 DEF MarkResult
  <2>2. ListWords'
    BY <2>1, ApprovalsStay DEF ListWords
  <2>3. CurrentWords'
    BY <2>1 DEF CurrentWords, Drafts
  <2>4. QED
    BY <2>2, <2>3
<1>6. CASE \/ \E d \in Drafts : QueueDraft(d) \/ Review(d)
           \/ Session \/ StartCycle \/ SendAgain \/ RequestLost
           \/ AnswerOk \/ AnswerRateLimited \/ AnswerError
           \/ (\E d \in Drafts, t \in Texts : ServeAbandoned(d, t))
           \/ UNCHANGED vars
  BY <1>1, <1>6
     DEF QueueDraft, Add, Review, Approve, Reject, UpdateDraft, Session,
         GrantPermission, RevokePermission, StartCycle, SendAgain, RequestLost,
         AnswerOk, AnswerRateLimited, AnswerError, ServeAbandoned, vars
<1>7. QED
  BY <1>2, <1>3, <1>4, <1>5, <1>6 DEF Next, CycleStep

\* A request enters the gateway's backlog with the words being posted only.
LEMMA LateWordsStep ==
  ASSUME TypeOK, CurrentWords, LateWords, [Next]_vars PROVE LateWords'
<1>1. UNCHANGED abandoned => LateWords'
  BY ApprovalsStay DEF LateWords
<1>2. ASSUME current \in Drafts, Abandon PROVE LateWords'
  <2> SUFFICES ASSUME NEW e \in Drafts, abandoned'[<<e, "agent">>] > 0,
                      ~ UNCHANGED abandoned
               PROVE  e \in agentApproved'
    BY <1>1 DEF LateWords
  <2>1. /\ abandoned \in [Drafts \X Texts -> Nat]
        /\ abandoned' = [abandoned EXCEPT ![<<current, snapshot[current]>>] = @ + 1]
        /\ <<e, "agent">> \in Drafts \X Texts
    BY <1>2 DEF Abandon, TypeOK, Texts
  <2>2. CASE <<e, "agent">> = <<current, snapshot[current]>>
    <3>1. current = e /\ snapshot[e] = "agent"
      BY <2>2
    <3>2. QED
      BY <3>1, ApprovalsStay DEF CurrentWords
  <2>3. CASE <<e, "agent">> # <<current, snapshot[current]>>
    <3>1. abandoned'[<<e, "agent">>] = abandoned[<<e, "agent">>]
      BY <2>1, <2>3
    <3>2. QED
      BY <3>1, ApprovalsStay DEF LateWords
  <2>4. QED
    BY <2>2, <2>3
<1>3. CASE RequestLost
  BY <1>3, <1>2 DEF RequestLost, TypeOK
<1>4. CASE Interrupt
  BY <1>4, <1>1, <1>2 DEF Interrupt, TypeOK
<1>5. ASSUME NEW d \in Drafts, NEW t \in Texts, ServeAbandoned(d, t)
      PROVE  LateWords'
  <2> SUFFICES ASSUME NEW e \in Drafts, abandoned'[<<e, "agent">>] > 0
               PROVE  e \in agentApproved'
    BY DEF LateWords
  <2>1. /\ abandoned \in [Drafts \X Texts -> Nat]
        /\ abandoned' = [abandoned EXCEPT ![<<d, t>>] = @ - 1]
        /\ <<e, "agent">> \in Drafts \X Texts
    BY <1>5 DEF ServeAbandoned, TypeOK, Texts
  <2>2. abandoned[<<e, "agent">>] > 0
    BY <2>1
  <2>3. QED
    BY <2>2, ApprovalsStay DEF LateWords
<1>6. CASE \/ \E d \in Drafts : QueueDraft(d) \/ Review(d) \/ PostItem(d)
           \/ Session \/ StartCycle \/ SendAgain \/ ListApproved \/ EndCycle
           \/ AnswerOk \/ AnswerRateLimited \/ AnswerError \/ MarkResult
           \/ UNCHANGED vars
  BY <1>1, <1>6
     DEF QueueDraft, Add, Review, Approve, Reject, UpdateDraft, PostItem, Session,
         GrantPermission, RevokePermission, StartCycle, SendAgain, ListApproved,
         EndCycle, AnswerOk, AnswerRateLimited, AnswerError, MarkResult, vars
<1>7. QED
  BY <1>3, <1>4, <1>5, <1>6 DEF Next, CycleStep

\* Words of the agent that no reviewer has approved are never on their way to
\* Twitter, whatever is edited, rejected or approved while a cycle runs.
THEOREM OnlyApprovedWordsGoOut == Spec => []AgentWordsNeedApproval
<1>1. Init => WordsInv
  BY DEF Init, WordsInv, AgentWordsNeedApproval, Texts, Drafts
<1>2. TypeOK /\ WordsInv /\ [Next]_vars => WordsInv'
  <2> SUFFICES ASSUME TypeOK, WordsInv, [Next]_vars PROVE WordsInv'
    OBVIOUS
  <2>1. RowWords /\ ListWords /\ CurrentWords /\ LateWords
    BY WordsSplit
  <2>2. RowWords' /\ ListWords' /\ CurrentWords' /\ LateWords'
    BY <2>1, RowWordsStep, CycleWordsStep, LateWordsStep
  <2>3. QED
    BY <2>2 DEF WordsInv, RowWords, ListWords, CurrentWords, LateWords,
                AgentWordsNeedApproval
<1>3. WordsInv => AgentWordsNeedApproval
  BY DEF WordsInv
<1>4. QED
  BY <1>1, <1>2, <1>3, TypeCorrectness, PTL DEF Spec
=============================================================================
