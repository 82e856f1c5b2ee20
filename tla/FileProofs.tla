----------------------------- MODULE FileProofs -----------------------------
(***************************************************************************)
(* Proofs about the components that keep their state in files without a    *)
(* lock: the stored login (Login), the sessions (Saves), the budget        *)
(* (Ledger), the employees (Roster), the prompts (Prompts), the            *)
(* configuration (Config) and the audit log (AuditLog), for any processes, *)
(* sessions, days, employees, prompts, layers, loggers and bounds.         *)
(***************************************************************************)
EXTENDS Login, Saves, Ledger, Roster, Prompts, Config, AuditLog,
        FiniteSetTheorems, DataLemmas, TLAPS

(* ---- Login ---- *)

\* Every token there is has been issued.
IssuedSoFar ==
  /\ auth <= issued /\ \A t \in accepted : t <= issued
  /\ \A p \in Refreshers : hold[p].old <= issued /\ hold[p].new <= issued

\* A process that has a new token to write, and one that may post or write back
\* the token it has read.
HasNew(p) == hold[p].at \in Unsaved /\ hold[p].new # 0
HasOld(p) == hold[p].at = "read" \/ WritesBack(p)

\* A token that a process has received and not written is still good, and
\* nobody else has seen it.
NewIsUnseen ==
  \A p \in Refreshers : HasNew(p) =>
    /\ hold[p].new \in accepted /\ hold[p].new # auth
    /\ \A q \in Refreshers : HasOld(q) => hold[q].old # hold[p].new
    /\ \A q \in Refreshers \ {p} : HasNew(q) => hold[q].new # hold[p].new

\* A token that is written back is still good, unless another process has
\* exchanged it meanwhile.
OldIsGood ==
  \A p \in Refreshers : WritesBack(p) => hold[p].old \in accepted \/ hold[p].old \in dropped

ReadHasNone == \A p \in Refreshers : hold[p].at = "read" => hold[p].new = 0

ILogin ==
  LoginTypeOK /\ IssuedSoFar /\ NewIsUnseen /\ OldIsGood /\ ReadHasNone /\ LoginIsKept

\* What a process may hold.
Holds == [at : {"idle", "read", "unlinked"} \cup Unsaved,
          old : Tokens \cup {0}, new : Tokens \cup {0}]

LEMMA LoginInitInv == LoginInit => ILogin
<1> SUFFICES ASSUME LoginInit PROVE ILogin
  OBVIOUS
<1>1. LoginTypeOK
  BY LoginAssumption DEF LoginInit, LoginTypeOK, NoHold
<1>2. IssuedSoFar /\ NewIsUnseen /\ OldIsGood /\ ReadHasNone /\ LoginIsKept
  BY DEF LoginInit, IssuedSoFar, NewIsUnseen, OldIsGood, ReadHasNone, LoginIsKept, NoHold,
         Unsaved, HasNew, WritesBack
<1>3. QED
  BY <1>1, <1>2 DEF ILogin

LEMMA HoldTypes ==
  ASSUME LoginTypeOK
  PROVE  /\ hold \in [Refreshers -> Holds] /\ NoHold \in Holds
         /\ \A p \in Refreshers :
              /\ hold[p].at \in {"idle", "read", "unlinked"} \cup Unsaved
              /\ hold[p].old \in Tokens \cup {0} /\ hold[p].new \in Tokens \cup {0}
<1>1. hold \in [Refreshers -> Holds] /\ NoHold \in Holds
  BY DEF LoginTypeOK, Holds, NoHold
<1>2. \A p \in Refreshers : hold[p] \in Holds
  BY <1>1
<1>3. QED
  BY <1>1, <1>2 DEF Holds

\* Numbers for the arithmetic below.
LEMMA LoginNumbers ==
  ASSUME LoginTypeOK
  PROVE  /\ issued \in Nat /\ auth \in Int /\ \A t \in accepted : t \in Nat
         /\ \A p \in Refreshers : hold[p].old \in Nat /\ hold[p].new \in Nat
<1>1. Tokens \subseteq Nat /\ issued \in Nat
  BY LoginAssumption DEF LoginTypeOK, Tokens
<1>2. auth \in Int /\ \A t \in accepted : t \in Nat
  BY <1>1 DEF LoginTypeOK
<1>3. ASSUME NEW p \in Refreshers
      PROVE  hold[p].old \in Nat /\ hold[p].new \in Nat
  <2>1. hold[p].old \in Tokens \cup {0} /\ hold[p].new \in Tokens \cup {0}
    BY HoldTypes
  <2>2. Tokens \cup {0} \subseteq Nat
    BY <1>1
  <2>3. QED
    BY <2>1, <2>2
<1>4. QED
  BY <1>1, <1>2, <1>3

\* A process that gives up what it holds, for whatever reason.
LEMMA GiveUpStep ==
  ASSUME ILogin, NEW p \in Refreshers, hold' = [hold EXCEPT ![p] = NoHold],
         UNCHANGED <<auth, accepted, issued>>,
         dropped' \in {dropped, dropped \cup {hold[p].old}},
         HasNew(p) => hold[p].old \in dropped'
  PROVE  ILogin'
<1> USE DEF ILogin
<1>1. LoginTypeOK'
  <2>1. dropped' \subseteq Tokens \cup {0}
    BY HoldTypes DEF LoginTypeOK
  <2>2. hold' \in [Refreshers -> Holds]
    BY HoldTypes
  <2>3. QED
    BY <2>1, <2>2 DEF LoginTypeOK, Holds
<1>2. /\ \A q \in Refreshers \ {p} : hold'[q] = hold[q]
      /\ hold'[p].at = "idle" /\ hold'[p].old = 0 /\ hold'[p].new = 0
  BY HoldTypes DEF NoHold
<1>3. IssuedSoFar'
  BY <1>2, LoginNumbers DEF IssuedSoFar
<1>4. NewIsUnseen' /\ OldIsGood'
  BY <1>2 DEF NewIsUnseen, OldIsGood, HasNew, HasOld, WritesBack, Unsaved
<1>5. LoginIsKept'
  BY <1>2 DEF LoginIsKept, HasNew
<1>7. ReadHasNone'
  BY <1>2 DEF ReadHasNone
<1>8. QED
  BY <1>1, <1>3, <1>4, <1>5, <1>7

LEMMA ReadLoginStep ==
  ASSUME ILogin, NEW p \in Refreshers, ReadLogin(p)
  PROVE  ILogin'
<1> USE DEF ILogin
<1>1. /\ hold[p] = NoHold /\ auth > 0 /\ UNCHANGED <<auth, accepted, issued, dropped>>
      /\ hold' = [hold EXCEPT ![p] = [at |-> "read", old |-> auth, new |-> 0]]
  BY DEF ReadLogin
<1>2. auth \in Tokens
  BY <1>1 DEF LoginTypeOK
<1>3. [at |-> "read", old |-> auth, new |-> 0] \in Holds
  BY <1>2 DEF Holds
<1>4. /\ hold' \in [Refreshers -> Holds]
      /\ \A q \in Refreshers \ {p} : hold'[q] = hold[q]
      /\ hold'[p].at = "read" /\ hold'[p].old = auth /\ hold'[p].new = 0
  BY <1>1, <1>3, HoldTypes
<1>5. LoginTypeOK'
  BY <1>1, <1>4 DEF LoginTypeOK, Holds
<1>6. IssuedSoFar'
  BY <1>1, <1>4, LoginNumbers DEF IssuedSoFar
<1>7. NewIsUnseen' /\ OldIsGood'
  BY <1>1, <1>4 DEF NewIsUnseen, OldIsGood, HasNew, HasOld, WritesBack, Unsaved
<1>8. hold[p].at \notin Unsaved
  BY <1>1 DEF NoHold, Unsaved
<1>9. LoginIsKept'
  BY <1>1, <1>4, <1>8 DEF LoginIsKept
<1>11. ReadHasNone'
  BY <1>4 DEF ReadHasNone
<1>12. QED
  BY <1>5, <1>6, <1>7, <1>9, <1>11

\* The server's part of an exchange: the token that was read is used up, and
\* the new one is larger than all there are.
LEMMA ExchangeEffect ==
  ASSUME ILogin, NEW p \in Refreshers, Exchange(p)
  PROVE  /\ hold[p].at = "read" /\ hold[p].old \in Tokens
         /\ issued' = issued + 1 /\ issued' \in Tokens
         /\ accepted' = (accepted \ {hold[p].old}) \cup {issued'}
         /\ accepted' \subseteq Tokens /\ issued' # auth
         /\ \A t \in accepted' : t <= issued'
         /\ \A q \in Refreshers : hold[q].old # issued' /\ hold[q].new # issued'
<1> USE DEF ILogin
<1>1. /\ hold[p].at = "read" /\ hold[p].old \in accepted
      /\ issued < MaxTokens /\ issued' = issued + 1
      /\ accepted' = (accepted \ {hold[p].old}) \cup {issued'}
  BY DEF Exchange
<1>2. hold[p].old \in Tokens /\ accepted \subseteq Tokens
  BY <1>1 DEF LoginTypeOK
<1>3. issued' \in Tokens
  BY <1>1, LoginNumbers, LoginAssumption DEF Tokens
<1>4. issued' # auth /\ \A q \in Refreshers : hold[q].old # issued' /\ hold[q].new # issued'
  BY <1>1, LoginNumbers DEF IssuedSoFar
<1>5. \A t \in accepted : t <= issued + 1
  BY LoginNumbers DEF IssuedSoFar
<1>6. issued + 1 <= issued + 1
  BY LoginNumbers
<1>7. QED
  BY <1>1, <1>2, <1>3, <1>4, <1>5, <1>6

LEMMA PostRefreshStep ==
  ASSUME ILogin, NEW p \in Refreshers, PostRefresh(p)
  PROVE  ILogin'
<1> USE DEF ILogin
<1>1. /\ Exchange(p) /\ hold' = [hold EXCEPT ![p].at = "answered", ![p].new = issued']
      /\ UNCHANGED auth /\ dropped' \in {dropped, dropped \cup {hold[p].old}}
      /\ \A q \in Refreshers : WritesBack(q) /\ hold[q].old = hold[p].old =>
           hold[p].old \in dropped'
  BY DEF PostRefresh
<1>2. hold' \in [Refreshers -> Holds]
  BY <1>1, ExchangeEffect, HoldTypes DEF Holds, Unsaved
<1>3. /\ \A q \in Refreshers \ {p} : hold'[q] = hold[q]
      /\ hold'[p].at = "answered" /\ hold'[p].old = hold[p].old
      /\ hold'[p].new = issued'
  BY <1>1, HoldTypes DEF Holds
<1>4. LoginTypeOK'
  <2>1. issued' \in 0..MaxTokens /\ hold[p].old \in Tokens
    BY <1>1, ExchangeEffect DEF Tokens
  <2>2. dropped' \subseteq Tokens \cup {0}
    BY <1>1, <2>1 DEF LoginTypeOK
  <2>3. QED
    BY <1>1, <1>2, <2>1, <2>2, ExchangeEffect DEF LoginTypeOK, Holds
<1>5. IssuedSoFar'
  <2>1. auth <= issued + 1 /\ issued + 1 <= issued + 1
        /\ \A q \in Refreshers : hold[q].old <= issued + 1 /\ hold[q].new <= issued + 1
    BY LoginNumbers DEF IssuedSoFar
  <2>2. /\ issued' = issued + 1 /\ auth' = auth
        /\ \A t \in accepted' : t <= issued'
    BY <1>1, ExchangeEffect
  <2>3. \A q \in Refreshers : hold'[q].old <= issued' /\ hold'[q].new <= issued'
    BY <1>3, <2>1, <2>2
  <2>4. QED
    BY <2>1, <2>2, <2>3 DEF IssuedSoFar
<1>6. NewIsUnseen'
  <2>1. /\ hold[p].at = "read" /\ accepted' = (accepted \ {hold[p].old}) \cup {issued'}
        /\ issued' # auth /\ auth' = auth
        /\ \A q \in Refreshers : hold[q].old # issued' /\ hold[q].new # issued'
    BY <1>1, ExchangeEffect
  <2>2. ASSUME NEW q \in Refreshers \ {p}, HasNew(q)
        PROVE  /\ hold[q].new \in accepted /\ hold[q].new # auth
               /\ hold[q].new # hold[p].old
               /\ \A r \in Refreshers : HasOld(r) => hold[r].old # hold[q].new
    BY <2>1, <2>2 DEF NewIsUnseen, HasOld
  <2>3. /\ HasNew(p)' /\ ~HasOld(p)'
        /\ \A q \in Refreshers \ {p} : (HasNew(q)' <=> HasNew(q)) /\ (HasOld(q)' <=> HasOld(q))
    <3>1. issued' # 0 /\ issued' \in Nat
      BY <1>1, ExchangeEffect, LoginAssumption DEF Tokens
    <3>2. QED
      BY <1>3, <3>1 DEF HasNew, HasOld, WritesBack, Unsaved
  <2>4. \A q \in Refreshers : HasNew(q)' =>
          hold'[q].new \in accepted' /\ hold'[q].new # auth'
    BY <1>3, <2>1, <2>2, <2>3
  <2>5. \A q, r \in Refreshers : HasNew(q)' /\ HasOld(r)' =>
          hold'[r].old # hold'[q].new
    BY <1>3, <2>1, <2>2, <2>3
  <2>6. \A q \in Refreshers : \A r \in Refreshers \ {q} :
          HasNew(q)' /\ HasNew(r)' => hold'[r].new # hold'[q].new
    BY <1>3, <2>1, <2>3 DEF NewIsUnseen
  <2>7. QED
    BY <2>4, <2>5, <2>6 DEF NewIsUnseen
<1>9. OldIsGood'
  <2>1. ASSUME NEW q \in Refreshers, WritesBack(q)' PROVE q # p /\ WritesBack(q) /\ hold'[q] = hold[q]
    <3>1. issued' # 0
      BY <1>1, ExchangeEffect, LoginAssumption DEF Tokens
    <3>2. QED
      BY <1>3, <2>1, <3>1 DEF WritesBack
  <2>2. ASSUME NEW q \in Refreshers, WritesBack(q)' PROVE hold'[q].old \in accepted' \/ hold'[q].old \in dropped'
    <3>1. CASE hold[q].old = hold[p].old
      BY <1>1, <2>1, <2>2, <3>1
    <3>2. CASE hold[q].old # hold[p].old
      <4>1. hold[q].old \in accepted \/ hold[q].old \in dropped
        BY <2>1, <2>2 DEF OldIsGood
      <4>2. QED
        BY <1>1, <2>1, <2>2, <3>2, <4>1, ExchangeEffect
    <3>3. QED
      BY <3>1, <3>2
  <2>3. QED
    BY <2>2 DEF OldIsGood
<1>7. LoginIsKept'
  <2>1. issued' # 0
    BY <1>1, ExchangeEffect, LoginAssumption DEF Tokens
  <2>2. QED
    BY <1>1, <1>3, <2>1, ExchangeEffect DEF LoginIsKept, Unsaved
<1>10. ReadHasNone'
  BY <1>3 DEF ReadHasNone
<1>11. QED
  BY <1>4, <1>5, <1>6, <1>7, <1>9, <1>10

LEMMA PostKeepsStep ==
  ASSUME ILogin, NEW p \in Refreshers, PostKeeps(p)
  PROVE  ILogin'
<1> USE DEF ILogin
<1>1. /\ hold[p].at = "read" /\ hold[p].old \in accepted
      /\ hold' = [hold EXCEPT ![p].at = "answered"]
      /\ UNCHANGED <<auth, accepted, issued, dropped>>
  BY DEF PostKeeps
<1>2. hold' \in [Refreshers -> Holds]
  BY <1>1, HoldTypes DEF Holds, Unsaved
<1>3. /\ \A q \in Refreshers \ {p} : hold'[q] = hold[q]
      /\ hold'[p].at = "answered"
      /\ hold'[p].old = hold[p].old /\ hold'[p].new = hold[p].new
  BY <1>1, HoldTypes DEF Holds
<1>4. LoginTypeOK'
  BY <1>1, <1>2 DEF LoginTypeOK, Holds
<1>5. IssuedSoFar'
  BY <1>1, <1>3 DEF IssuedSoFar
<1>6. hold[p].new = 0 /\ hold'[p].new = 0
  BY <1>1, <1>3 DEF ReadHasNone
<1>7. /\ ~HasNew(p)' /\ HasOld(p)' /\ HasOld(p)
      /\ \A q \in Refreshers \ {p} : (HasNew(q)' <=> HasNew(q)) /\ (HasOld(q)' <=> HasOld(q))
  BY <1>1, <1>3, <1>6 DEF HasNew, HasOld, WritesBack, Unsaved
<1>8. NewIsUnseen'
  BY <1>1, <1>3, <1>7 DEF NewIsUnseen
<1>9. OldIsGood' /\ ReadHasNone'
  BY <1>1, <1>3 DEF OldIsGood, WritesBack, ReadHasNone
<1>10. LoginIsKept'
  BY <1>1, <1>3 DEF LoginIsKept, Unsaved
<1>11. QED
  BY <1>4, <1>5, <1>8, <1>9, <1>10

LEMMA AnswerLostStep ==
  ASSUME ILogin, NEW p \in Refreshers, AnswerLost(p)
  PROVE  ILogin'
<1> USE DEF ILogin
<1>1. Exchange(p) /\ hold' = [hold EXCEPT ![p] = NoHold]
      /\ dropped' = dropped \cup {hold[p].old} /\ UNCHANGED auth
  BY DEF AnswerLost
<1>2. hold' \in [Refreshers -> Holds]
  BY <1>1, HoldTypes
<1>3. /\ \A q \in Refreshers \ {p} : hold'[q] = hold[q]
      /\ hold'[p].at = "idle" /\ hold'[p].old = 0 /\ hold'[p].new = 0
  BY <1>1, HoldTypes DEF NoHold
<1>4. LoginTypeOK'
  <2>1. issued' \in 0..MaxTokens
    BY <1>1, ExchangeEffect DEF Tokens
  <2>2. dropped' \subseteq Tokens \cup {0}
    BY <1>1, HoldTypes DEF LoginTypeOK
  <2>3. QED
    BY <1>1, <1>2, <2>1, <2>2, ExchangeEffect DEF LoginTypeOK, Holds
<1>5. IssuedSoFar'
  <2>1. auth <= issued + 1 /\ 0 <= issued + 1
        /\ \A q \in Refreshers : hold[q].old <= issued + 1 /\ hold[q].new <= issued + 1
    BY LoginNumbers DEF IssuedSoFar
  <2>2. QED
    BY <1>1, <1>3, <2>1, ExchangeEffect DEF IssuedSoFar
<1>6. NewIsUnseen'
  <2>1. \A q \in Refreshers : HasNew(q)' \/ HasOld(q)' =>
          q # p /\ hold'[q] = hold[q] /\ (HasNew(q)' => HasNew(q)) /\ (HasOld(q)' => HasOld(q))
    BY <1>3 DEF HasNew, HasOld, WritesBack, Unsaved
  <2>2. \A q \in Refreshers : HasNew(q) => hold[q].new \in accepted'
    BY <1>1, ExchangeEffect DEF NewIsUnseen, HasOld
  <2>3. QED
    BY <1>1, <2>1, <2>2 DEF NewIsUnseen
<1>9. OldIsGood'
  BY <1>1, <1>3, ExchangeEffect DEF OldIsGood, WritesBack, Unsaved
<1>7. LoginIsKept'
  BY <1>1, <1>3, ExchangeEffect DEF LoginIsKept, Unsaved
<1>10. ReadHasNone'
  BY <1>3 DEF ReadHasNone
<1>11. QED
  BY <1>4, <1>5, <1>6, <1>7, <1>9, <1>10

LEMMA CodeExchangedStep ==
  ASSUME ILogin, NEW p \in Refreshers, CodeExchanged(p)
  PROVE  ILogin'
<1> USE DEF ILogin
<1>1. /\ hold[p] = NoHold /\ issued < MaxTokens /\ issued' = issued + 1
      /\ accepted' = accepted \cup {issued'} /\ UNCHANGED <<auth, dropped>>
      /\ hold' = [hold EXCEPT ![p] = [at |-> "answered", old |-> 0, new |-> issued']]
  BY DEF CodeExchanged
<1>2. issued' \in Tokens /\ issued' \in 0..MaxTokens
  BY <1>1, LoginNumbers, LoginAssumption DEF Tokens
<1>3. [at |-> "answered", old |-> 0, new |-> issued'] \in Holds
  BY <1>2 DEF Holds, Unsaved
<1>4. /\ hold' \in [Refreshers -> Holds]
      /\ \A q \in Refreshers \ {p} : hold'[q] = hold[q]
      /\ hold'[p].at = "answered" /\ hold'[p].old = 0 /\ hold'[p].new = issued'
  BY <1>1, <1>3, HoldTypes
<1>5. LoginTypeOK'
  BY <1>1, <1>2, <1>4 DEF LoginTypeOK, Holds
<1>6. /\ auth <= issued' /\ 0 <= issued' /\ issued' <= issued' /\ issued' # auth
      /\ \A t \in accepted : t <= issued'
      /\ \A q \in Refreshers : /\ hold[q].old <= issued' /\ hold[q].new <= issued'
                               /\ hold[q].old # issued' /\ hold[q].new # issued'
  BY <1>1, LoginNumbers DEF IssuedSoFar
<1>7. IssuedSoFar'
  BY <1>1, <1>4, <1>6 DEF IssuedSoFar
<1>8. NewIsUnseen' /\ OldIsGood'
  <2>1. issued' # 0
    BY <1>2, LoginAssumption DEF Tokens
  <2>2. QED
    BY <1>1, <1>4, <1>6, <2>1 DEF NewIsUnseen, OldIsGood, HasNew, HasOld, WritesBack, Unsaved
<1>9. hold[p].at \notin Unsaved
  BY <1>1 DEF NoHold, Unsaved
<1>10. LoginIsKept'
  BY <1>1, <1>4, <1>9 DEF LoginIsKept
<1>12. ReadHasNone'
  BY <1>4 DEF ReadHasNone
<1>13. QED
  BY <1>5, <1>7, <1>8, <1>10, <1>12

\* Between truncation and writing the file has no token to keep.
LEMMA OpenLoginStep ==
  ASSUME ILogin, NEW p \in Refreshers, OpenLogin(p)
  PROVE  ILogin'
<1> USE DEF ILogin
<1>1. /\ hold[p].at = "answered" /\ auth' = -1
      /\ hold' = [hold EXCEPT ![p].at = "truncated"]
      /\ UNCHANGED <<accepted, issued, dropped>>
  BY DEF OpenLogin
<1>2. hold' \in [Refreshers -> Holds]
  BY <1>1, HoldTypes DEF Holds, Unsaved
<1>3. /\ \A q \in Refreshers \ {p} : hold'[q] = hold[q]
      /\ hold'[p].at = "truncated"
      /\ hold'[p].old = hold[p].old /\ hold'[p].new = hold[p].new
  BY <1>1, HoldTypes DEF Holds
<1>4. LoginTypeOK'
  BY <1>1, <1>2 DEF LoginTypeOK, Holds
<1>5. IssuedSoFar'
  BY <1>1, <1>3, LoginNumbers DEF IssuedSoFar
<1>6. \A q \in Refreshers : hold[q].new # -1
  BY LoginNumbers
<1>7. NewIsUnseen' /\ OldIsGood'
  BY <1>1, <1>3, <1>6 DEF NewIsUnseen, OldIsGood, HasNew, HasOld, WritesBack, Unsaved
<1>8. LoginIsKept'
  BY <1>1 DEF LoginIsKept
<1>10. ReadHasNone'
  BY <1>3 DEF ReadHasNone
<1>11. QED
  BY <1>4, <1>5, <1>7, <1>8, <1>10

LEMMA WriteLoginStep ==
  ASSUME ILogin, NEW p \in Refreshers, WriteLogin(p)
  PROVE  ILogin'
<1> USE DEF ILogin
<1>1. /\ hold[p].at = "truncated"
      /\ auth' = IF hold[p].new = 0 THEN hold[p].old ELSE hold[p].new
      /\ hold' = [hold EXCEPT ![p] = NoHold]
      /\ UNCHANGED <<accepted, issued, dropped>>
  BY DEF WriteLogin, TokenToSave
<1>2. hold' \in [Refreshers -> Holds]
  BY <1>1, HoldTypes
<1>3. /\ \A q \in Refreshers \ {p} : hold'[q] = hold[q]
      /\ hold'[p].at = "idle" /\ hold'[p].old = 0 /\ hold'[p].new = 0
  BY <1>1, HoldTypes DEF NoHold
<1>4. LoginTypeOK'
  BY <1>1, <1>2, HoldTypes DEF LoginTypeOK, Holds
<1>5. IssuedSoFar'
  BY <1>1, <1>3, LoginNumbers DEF IssuedSoFar
<1>6. NewIsUnseen' /\ OldIsGood'
  <2>1. \A q \in Refreshers : HasNew(q)' \/ HasOld(q)' =>
          q # p /\ hold'[q] = hold[q] /\ (HasNew(q)' <=> HasNew(q)) /\ (HasOld(q)' <=> HasOld(q))
    BY <1>3 DEF HasNew, HasOld, WritesBack, Unsaved
  <2>2. CASE hold[p].new = 0
    <3>1. HasOld(p) /\ auth' = hold[p].old
      BY <1>1, <2>2 DEF HasOld, WritesBack, Unsaved
    <3>2. QED
      BY <1>1, <2>1, <3>1 DEF NewIsUnseen, OldIsGood, HasOld, WritesBack, Unsaved
  <2>3. CASE hold[p].new # 0
    <3>1. HasNew(p) /\ auth' = hold[p].new
      BY <1>1, <2>3 DEF HasNew, Unsaved
    <3>2. QED
      BY <1>1, <2>1, <3>1 DEF NewIsUnseen, OldIsGood, HasOld, WritesBack, Unsaved
  <2>4. QED
    BY <2>2, <2>3
<1>7. LoginIsKept'
  BY <1>1 DEF LoginIsKept, NewIsUnseen, OldIsGood, HasNew, WritesBack, Unsaved
<1>9. ReadHasNone'
  BY <1>3 DEF ReadHasNone
<1>10. QED
  BY <1>4, <1>5, <1>6, <1>7, <1>9

LEMMA LogoutStep == ILogin /\ Logout => ILogin'
<1> SUFFICES ASSUME ILogin, Logout PROVE ILogin'
  OBVIOUS
<1> USE DEF ILogin
<1>1. /\ auth' = 0 /\ UNCHANGED <<accepted, issued, dropped>>
      /\ hold' = [p \in Refreshers |->
           IF hold[p].at = "truncated" THEN [hold[p] EXCEPT !.at = "unlinked"] ELSE hold[p]]
  BY DEF Logout
<1>2. ASSUME NEW p \in Refreshers
      PROVE  /\ hold'[p] \in Holds
             /\ hold'[p].old = hold[p].old /\ hold'[p].new = hold[p].new
             /\ hold'[p].at = IF hold[p].at = "truncated" THEN "unlinked" ELSE hold[p].at
  <2>1. hold[p] \in Holds
    BY HoldTypes
  <2>2. QED
    BY <1>1, <2>1 DEF Holds
<1>3. LoginTypeOK'
  <2>1. hold' \in [Refreshers -> Holds]
    BY <1>1, <1>2
  <2>2. QED
    BY <1>1, <2>1 DEF LoginTypeOK, Holds
<1>4. IssuedSoFar'
  BY <1>1, <1>2, LoginNumbers DEF IssuedSoFar
<1>5. NewIsUnseen' /\ OldIsGood'
  <2>1. \A p \in Refreshers : (HasNew(p)' => HasNew(p)) /\ (HasOld(p)' => HasOld(p))
                               /\ (WritesBack(p)' => WritesBack(p))
    BY <1>2 DEF HasNew, HasOld, WritesBack, Unsaved
  <2>2. NewIsUnseen'
    BY <1>1, <1>2, <2>1 DEF NewIsUnseen, HasNew
  <2>3. OldIsGood'
    BY <1>1, <1>2, <2>1 DEF OldIsGood
  <2>4. QED
    BY <2>2, <2>3
<1>6. LoginIsKept'
  BY <1>1 DEF LoginIsKept
<1>8. ReadHasNone'
  BY <1>2 DEF ReadHasNone
<1>9. QED
  BY <1>3, <1>4, <1>5, <1>6, <1>8

LEMMA LoginStep == ILogin /\ [LoginNext]_loginVars => ILogin'
<1> SUFFICES ASSUME ILogin, [LoginNext]_loginVars PROVE ILogin'
  OBVIOUS
<1>1. ASSUME NEW p \in Refreshers, PostRaises(p) \/ LoginDies(p)
      PROVE  ILogin'
  <2>1. /\ hold' = [hold EXCEPT ![p] = NoHold] /\ UNCHANGED <<auth, accepted, issued>>
        /\ dropped' \in {dropped, dropped \cup {hold[p].old}}
        /\ HasNew(p) => hold[p].old \in dropped'
    BY <1>1 DEF PostRaises, LoginDies, HasNew, Unsaved
  <2>2. QED
    BY <2>1, GiveUpStep
<1>2. CASE UNCHANGED loginVars
  BY <1>2 DEF loginVars, ILogin, LoginTypeOK, IssuedSoFar, NewIsUnseen, OldIsGood,
              ReadHasNone, HasNew, HasOld, WritesBack, LoginIsKept
<1>3. QED
  BY <1>1, <1>2, ReadLoginStep, PostRefreshStep, PostKeepsStep, AnswerLostStep,
     CodeExchangedStep, OpenLoginStep, WriteLoginStep, LogoutStep
  DEF LoginNext

\* Refreshes, logins and logouts that overlap in any number of processes never
\* leave a used token in the file in place of a good one, unless one of them is
\* to write back a token that another has exchanged since.
THEOREM LoginSurvives == LoginSpec => []LoginIsKept
<1>1. ILogin => LoginIsKept
  BY DEF ILogin
<1>2. QED
  BY <1>1, LoginInitInv, LoginStep, PTL DEF LoginSpec

(* ---- Saves ---- *)

\* What a save stores is a state: it has one from its beginning.
SavingIsSomething ==
  \A p \in Savers : saver[p].at \in {"made", "written"} => saver[p].state \in States

\* The files have nothing but what finished saves and cleanups left.
StoredIsLast ==
  \A s \in Sessions : /\ stored[s] # -1
                      /\ stored[s] = IF s \in removed THEN 0 ELSE last[s]

ISaves == SavesTypeOK /\ SavingIsSomething /\ StoredIsLast

SaverTypes == [of : SUBSET Sessions, state : States \cup {0},
               at : {"idle", "made", "written", "expired"}]

LEMMA SavesInitInv == SavesInit => ISaves
  BY SavesAssumption
  DEF SavesInit, ISaves, SavesTypeOK, SavingIsSomething, StoredIsLast, NoSave, States

LEMMA SaverIs ==
  ASSUME SavesTypeOK
  PROVE  /\ saver \in [Savers -> SaverTypes] /\ NoSave \in SaverTypes
         /\ \A p \in Savers : saver[p].of \in SUBSET Sessions
         /\ \A p \in Savers : saver[p].state \in States \cup {0}
<1>1. saver \in [Savers -> SaverTypes] /\ NoSave \in SaverTypes
  BY DEF SavesTypeOK, SaverTypes, NoSave
<1>2. \A p \in Savers : saver[p] \in SaverTypes
  BY <1>1
<1>3. QED
  BY <1>1, <1>2 DEF SaverTypes

LEMMA BeginSaveStep ==
  ASSUME ISaves, NEW p \in Savers, NEW s \in Sessions, BeginSave(p, s)
  PROVE  ISaves'
<1> USE DEF ISaves
<1>1. /\ saves < MaxSaves /\ saves' = saves + 1
      /\ saver' = [saver EXCEPT ![p] = [of |-> {s}, state |-> saves + 1, at |-> "made"]]
      /\ UNCHANGED <<stored, old, last, removed>>
  BY DEF BeginSave, MakeFile
<1>2. saves + 1 \in States /\ saves + 1 \in 0..MaxSaves
  BY <1>1, SavesAssumption DEF SavesTypeOK, States
<1>3. [of |-> {s}, state |-> saves + 1, at |-> "made"] \in SaverTypes
  BY <1>2 DEF SaverTypes
<1>4. /\ saver' \in [Savers -> SaverTypes]
      /\ \A q \in Savers \ {p} : saver'[q] = saver[q]
      /\ saver'[p].state = saves + 1
  BY <1>1, <1>3, SaverIs
<1>5. SavesTypeOK'
  BY <1>1, <1>2, <1>4 DEF SavesTypeOK, SaverTypes
<1>6. SavingIsSomething' /\ StoredIsLast'
  BY <1>1, <1>2, <1>4 DEF SavingIsSomething, StoredIsLast
<1>7. QED
  BY <1>5, <1>6

\* The steps that end what a process does: rename, unlink, an exception.
LEMMA SaverEndsStep ==
  ASSUME ISaves, NEW p \in Savers, saver' = [saver EXCEPT ![p] = NoSave],
         UNCHANGED <<old, saves>>,
         stored' \in [Sessions -> States \cup {0}],
         last' \in [Sessions -> States \cup {0}], removed' \subseteq Sessions,
         StoredIsLast'
  PROVE  ISaves'
<1> USE DEF ISaves
<1>1. /\ saver' \in [Savers -> SaverTypes]
      /\ \A q \in Savers \ {p} : saver'[q] = saver[q]
      /\ saver'[p].at = "idle"
  BY SaverIs DEF NoSave
<1>2. SavesTypeOK'
  BY <1>1 DEF SavesTypeOK, SaverTypes
<1>3. SavingIsSomething'
  BY <1>1 DEF SavingIsSomething
<1>4. QED
  BY <1>2, <1>3

\* Without the value of a file that is cut short.
LEMMA StoredTypes ==
  ASSUME ISaves
  PROVE  stored \in [Sessions -> States \cup {0}] /\ last \in [Sessions -> States \cup {0}]
  BY DEF ISaves, SavesTypeOK, StoredIsLast

LEMMA RenameStep ==
  ASSUME ISaves, NEW p \in Savers, NEW s \in Sessions, RenameFile(p, s)
  PROVE  ISaves'
<1>1. /\ stored' = [stored EXCEPT ![s] = saver[p].state]
      /\ last' = [last EXCEPT ![s] = saver[p].state] /\ removed' = removed \ {s}
      /\ saver' = [saver EXCEPT ![p] = NoSave] /\ UNCHANGED <<old, saves>>
  BY DEF RenameFile, Put
<1>2. saver[p].state \in States
  BY DEF RenameFile, ISaves, SavingIsSomething
<1>3. /\ stored' \in [Sessions -> States \cup {0}] /\ last' \in [Sessions -> States \cup {0}]
      /\ removed' \subseteq Sessions
  BY <1>1, <1>2, StoredTypes DEF ISaves, SavesTypeOK
<1>4. stored'[s] = saver[p].state /\ last'[s] = saver[p].state
      /\ \A t \in Sessions \ {s} : stored'[t] = stored[t] /\ last'[t] = last[t]
  BY <1>1, StoredTypes
<1>5. saver[p].state # -1
  BY <1>2 DEF States
<1>6. StoredIsLast'
  BY <1>1, <1>4, <1>5 DEF ISaves, StoredIsLast
<1>7. QED
  BY <1>1, <1>3, <1>6, SaverEndsStep

LEMMA UnlinkStep ==
  ASSUME ISaves, NEW p \in Savers, NEW s \in Sessions, Unlink(p, s)
  PROVE  ISaves'
<1>1. /\ stored' = [stored EXCEPT ![s] = 0] /\ removed' = removed \cup {s}
      /\ saver' = [saver EXCEPT ![p] = NoSave] /\ UNCHANGED <<old, saves, last>>
  BY DEF Unlink, Put
<1>2. /\ stored' \in [Sessions -> States \cup {0}] /\ last' \in [Sessions -> States \cup {0}]
      /\ removed' \subseteq Sessions
  BY <1>1, StoredTypes DEF ISaves, SavesTypeOK
<1>3. stored'[s] = 0 /\ \A t \in Sessions \ {s} : stored'[t] = stored[t]
  BY <1>1, StoredTypes
<1>4. StoredIsLast'
  BY <1>1, <1>3 DEF ISaves, StoredIsLast
<1>5. QED
  BY <1>1, <1>2, <1>4, SaverEndsStep

\* Steps of a process that leave the files alone.
LEMMA QuietSaveStep ==
  ASSUME ISaves, NEW p \in Savers,
         WriteFile(p) \/ SaverStops(p) \/ \E s \in Sessions : Expire(p, s)
  PROVE  ISaves'
<1> USE DEF ISaves
<1>1. UNCHANGED <<stored, old, saves, last, removed>>
  BY DEF WriteFile, SaverStops, Expire
<1>2. /\ saver' \in [Savers -> SaverTypes]
      /\ \A q \in Savers \ {p} : saver'[q] = saver[q]
      /\ saver'[p].at \in {"made", "written"} => saver'[p].state \in States
  <2>1. CASE WriteFile(p)
    <3>1. saver[p].at = "made" /\ saver' = [saver EXCEPT ![p].at = "written"]
      BY <2>1 DEF WriteFile
    <3>2. saver' \in [Savers -> SaverTypes]
      BY <3>1, SaverIs DEF SaverTypes
    <3>3. saver'[p].state = saver[p].state /\ \A q \in Savers \ {p} : saver'[q] = saver[q]
      BY <3>1, SaverIs DEF SaverTypes
    <3>4. QED
      BY <3>1, <3>2, <3>3 DEF SavingIsSomething
  <2>2. CASE SaverStops(p)
    BY <2>2, SaverIs DEF SaverStops, NoSave
  <2>3. ASSUME NEW s \in Sessions, Expire(p, s)
        PROVE  /\ saver' \in [Savers -> SaverTypes]
               /\ \A q \in Savers \ {p} : saver'[q] = saver[q]
               /\ saver'[p].at = "expired"
    <3>1. [of |-> {s}, state |-> 0, at |-> "expired"] \in SaverTypes
      BY DEF SaverTypes
    <3>2. QED
      BY <2>3, <3>1, SaverIs DEF Expire
  <2>4. QED
    BY <2>1, <2>2, <2>3
<1>3. SavesTypeOK'
  BY <1>1, <1>2 DEF SavesTypeOK, SaverTypes
<1>4. SavingIsSomething' /\ StoredIsLast'
  BY <1>1, <1>2 DEF SavingIsSomething, StoredIsLast
<1>5. QED
  BY <1>3, <1>4

LEMMA SavesStep == ISaves /\ [SavesNext]_savesVars => ISaves'
<1> SUFFICES ASSUME ISaves, [SavesNext]_savesVars PROVE ISaves'
  OBVIOUS
<1>1. ASSUME NEW n \in States, Grow(n)
      PROVE  ISaves'
  BY <1>1 DEF Grow, ISaves, SavesTypeOK, SavingIsSomething, StoredIsLast
<1>2. CASE UNCHANGED savesVars
  BY <1>2 DEF savesVars, ISaves, SavesTypeOK, SavingIsSomething, StoredIsLast
<1>3. QED
  BY <1>1, <1>2, BeginSaveStep, RenameStep, UnlinkStep, QuietSaveStep DEF SavesNext

\* Loading a session gives what the last finished save stored, or nothing after
\* a cleanup, whatever other processes are in the middle of or died in.
THEOREM SavesAreAtomic == SavesSpec => []SavedStaysLoadable
<1>1. ISaves => SavedStaysLoadable
  <2> SUFFICES ASSUME ISaves PROVE SavedStaysLoadable
    OBVIOUS
  <2>1. \A s \in Sessions : stored[s] \in Nat /\ last[s] \in Nat
    BY StoredTypes, SavesAssumption DEF States
  <2>2. \A s \in Sessions : LoadState(s) = stored[s]
    BY <2>1 DEF LoadState
  <2>3. \A s \in Sessions : LoadState(s) = IF s \in removed THEN 0 ELSE last[s]
    BY <2>2 DEF ISaves, StoredIsLast
  <2>4. ListSessions = {s \in Sessions : last[s] # 0} \ removed
    BY <2>3 DEF ListSessions
  <2>5. QED
    BY <2>3, <2>4 DEF SavedStaysLoadable
<1>2. QED
  BY <1>1, SavesInitInv, SavesStep, PTL DEF SavesSpec

(* ---- Ledger ---- *)

\* What tables hold, with what is exposed, is all that was spent.
Cover(tables) ==
  \A d \in Days : /\ tables.daily[d] + exposed.daily[d] >= spent.daily[d]
                  /\ tables.monthly[d] + exposed.monthly[d] >= spent.monthly[d]

\* Nothing was spent before the file exists, nor on days and in months that
\* have not come.
FutureIsUnspent ==
  /\ \A d \in Days : d > today \/ file = "absent" => spent.daily[d] = 0
  /\ \A m \in Days : m > ThisMonth \/ file = "absent" => spent.monthly[m] = 0

ExposedWasSpent ==
  \A d \in Days : /\ exposed.daily[d] <= spent.daily[d]
                  /\ exposed.monthly[d] <= spent.monthly[d]

FileCovers == file = "whole" => Cover(booked)

\* SpendIsCounted, in terms of the costs themselves.
RunsCover ==
  \A p \in Spenders : up[p] # "no" =>
    /\ cost[p].day + exposed.daily[today] >= spent.daily[today]
    /\ cost[p].month + exposed.monthly[ThisMonth] >= spent.monthly[ThisMonth]

\* What a process in _save is about to write also holds the unit that is not
\* recorded yet.
SaveCovers(p) ==
  LET s == saving[p] IN
  /\ s.day <= today
  /\ Cover(s.tables)
  /\ s.tables.daily[s.day] + exposed.daily[s.day] >= spent.daily[s.day] + 1
  /\ s.tables.monthly[Months[s.day]] + exposed.monthly[Months[s.day]]
       >= spent.monthly[Months[s.day]] + 1
  /\ s.tables.daily[s.day] = cost[p].day
  /\ s.tables.monthly[Months[s.day]] = cost[p].month

SavesCover == \A p \in Spenders : up[p] \in InSave => SaveCovers(p)

ILedger ==
  LedgerTypeOK /\ FutureIsUnspent /\ ExposedWasSpent /\ FileCovers /\ RunsCover /\ SavesCover

CostTypes == [session : Nat, day : Nat, month : Nat]
SaveTypes == [day : Days, tables : Accounts]

\* What the types say of the parts.
LEMMA AccountTypes ==
  ASSUME NEW t \in Accounts
  PROVE  /\ t.daily \in [Days -> Nat] /\ t.monthly \in [Days -> Nat]
         /\ t = [daily |-> t.daily, monthly |-> t.monthly]
         /\ \A d \in Days : t.daily[d] \in Nat /\ t.monthly[d] \in Nat
<1>1. t.daily \in [Days -> Nat] /\ t.monthly \in [Days -> Nat]
      /\ t = [daily |-> t.daily, monthly |-> t.monthly]
  BY DEF Accounts
<1>2. QED
  BY <1>1

LEMMA MonthTypes ==
  /\ Days \subseteq Nat
  /\ \A d \in Days : Months[d] \in Days /\ Months[d] \in Nat
  /\ \A d, e \in Days : d <= e => Months[d] <= Months[e]
BY LedgerAssumption DEF Days

LEMMA LedgerTypes ==
  ASSUME LedgerTypeOK
  PROVE  /\ today \in Days /\ ThisMonth \in Days /\ today \in Nat /\ ThisMonth \in Nat
         /\ booked \in Accounts /\ spent \in Accounts /\ exposed \in Accounts
         /\ \A p \in Spenders :
              /\ cost[p] \in CostTypes /\ cost[p].day \in Nat /\ cost[p].month \in Nat
              /\ saving[p] \in SaveTypes /\ saving[p].day \in Days
              /\ saving[p].tables \in Accounts
<1>1. today \in Days /\ ThisMonth \in Days
  BY MonthTypes DEF LedgerTypeOK, ThisMonth
<1>2. booked \in Accounts /\ spent \in Accounts /\ exposed \in Accounts
  BY DEF LedgerTypeOK
<1>3. ASSUME NEW p \in Spenders
      PROVE  cost[p] \in CostTypes /\ saving[p] \in SaveTypes
  BY DEF LedgerTypeOK, CostTypes, SaveTypes
<1>4. ASSUME NEW c \in CostTypes PROVE c.day \in Nat /\ c.month \in Nat
  BY DEF CostTypes
<1>5. ASSUME NEW s \in SaveTypes PROVE s.day \in Days /\ s.tables \in Accounts
  BY DEF SaveTypes
<1>6. QED
  BY <1>1, <1>2, <1>3, <1>4, <1>5, MonthTypes

LEMMA NothingTypes ==
  /\ Nothing \in Accounts /\ NoCost \in CostTypes /\ NoSaving \in SaveTypes
  /\ \A d \in Days : Nothing.daily[d] = 0 /\ Nothing.monthly[d] = 0
<1>1. Nothing \in Accounts
      /\ \A d \in Days : Nothing.daily[d] = 0 /\ Nothing.monthly[d] = 0
  BY DEF Nothing, Accounts
<1>2. 1 \in Days
  BY LedgerAssumption DEF Days
<1>3. QED
  BY <1>1, <1>2 DEF NoCost, CostTypes, NoSaving, SaveTypes

LEMMA LedgerInitInv == LedgerInit => ILedger
<1> SUFFICES ASSUME LedgerInit PROVE ILedger
  OBVIOUS
<1>1. /\ today = 1 /\ file = "absent" /\ booked = Nothing
      /\ up = [p \in Spenders |-> "no"] /\ cost = [p \in Spenders |-> NoCost]
      /\ saving = [p \in Spenders |-> NoSaving] /\ spent = Nothing /\ exposed = Nothing
  BY DEF LedgerInit
<1>2. 1 \in Days
  BY LedgerAssumption DEF Days
<1>3. LedgerTypeOK
  BY <1>1, <1>2, NothingTypes DEF LedgerTypeOK, CostTypes, SaveTypes
<1>4. FutureIsUnspent /\ ExposedWasSpent /\ FileCovers /\ RunsCover /\ SavesCover
  BY <1>1, NothingTypes DEF FutureIsUnspent, ExposedWasSpent, FileCovers, RunsCover,
                             SavesCover, InSave
<1>5. QED
  BY <1>3, <1>4 DEF ILedger

\* A process that runs past midnight holds at least what the new day and its
\* month have: nothing, or the same month.
LEMMA MidnightStep == ILedger /\ Midnight => ILedger'
<1> SUFFICES ASSUME ILedger, Midnight PROVE ILedger'
  OBVIOUS
<1> USE DEF ILedger
<1>1. /\ today' = today + 1 /\ today + 1 \in Days
      /\ UNCHANGED <<file, booked, up, cost, saving, spent, exposed>>
  BY DEF Midnight
<1>2. ThisMonth' = Months[today + 1] /\ ThisMonth' \in Days /\ ThisMonth <= ThisMonth'
  BY <1>1, LedgerTypes, MonthTypes DEF ThisMonth
<1>3. Days' = Days /\ Accounts' = Accounts /\ InSave' = InSave
  BY DEF Days, Accounts, InSave
<1>4. LedgerTypeOK'
  BY <1>1, <1>3 DEF LedgerTypeOK
<1>5. /\ today \in Nat /\ ThisMonth \in Nat /\ ThisMonth' \in Nat
      /\ \A d \in Days : d \in Nat
      /\ \A d \in Days : /\ spent.daily[d] \in Nat /\ spent.monthly[d] \in Nat
                         /\ exposed.daily[d] \in Nat /\ exposed.monthly[d] \in Nat
      /\ \A p \in Spenders : cost[p].day \in Nat /\ cost[p].month \in Nat
  BY <1>2, LedgerTypes, MonthTypes, AccountTypes
<1>6. FutureIsUnspent'
  BY <1>1, <1>2, <1>3, <1>5 DEF FutureIsUnspent
<1>7. ExposedWasSpent' /\ FileCovers' /\ SavesCover'
  <2>1. ExposedWasSpent' /\ FileCovers'
    BY <1>1, <1>3 DEF ExposedWasSpent, FileCovers, Cover
  <2>2. ASSUME NEW p \in Spenders, up[p] \in InSave PROVE SaveCovers(p)'
    <3>1. SaveCovers(p) /\ saving[p].day \in Nat
      BY <2>2, LedgerTypes, MonthTypes DEF SavesCover
    <3>2. saving[p].day <= today'
      BY <1>1, <1>5, <3>1 DEF SaveCovers
    <3>3. QED
      BY <1>1, <1>3, <3>1, <3>2 DEF SaveCovers, Cover
  <2>3. QED
    BY <1>1, <1>3, <2>1, <2>2 DEF SavesCover
<1>8. spent.daily[today + 1] = 0
  BY <1>1, <1>5 DEF FutureIsUnspent
<1>9. ThisMonth' = ThisMonth \/ spent.monthly[ThisMonth'] = 0
  BY <1>2, <1>5 DEF FutureIsUnspent
<1>10. RunsCover'
  BY <1>1, <1>2, <1>5, <1>8, <1>9 DEF RunsCover
<1>11. QED
  BY <1>4, <1>6, <1>7, <1>10

\* What is exposed only grows, up to all that was spent.
MoreExposed ==
  /\ exposed' \in Accounts
  /\ \A d \in Days :
       /\ exposed.daily[d] <= exposed'.daily[d] /\ exposed'.daily[d] <= spent.daily[d]
       /\ exposed.monthly[d] <= exposed'.monthly[d]
       /\ exposed'.monthly[d] <= spent.monthly[d]

LEMMA MoreExposedCovers ==
  ASSUME LedgerTypeOK, MoreExposed, NEW t \in Accounts, Cover(t)
  PROVE  \A d \in Days : /\ t.daily[d] + exposed'.daily[d] >= spent.daily[d]
                         /\ t.monthly[d] + exposed'.monthly[d] >= spent.monthly[d]
BY LedgerTypes, AccountTypes DEF MoreExposed, Cover

\* A step of process p that exposes more and saves nothing keeps what the file
\* and the others hold.
LEMMA OthersKept ==
  ASSUME ILedger, NEW p \in Spenders, MoreExposed, UNCHANGED <<today, spent>>,
         \/ UNCHANGED <<file, booked>>
         \/ file' \in {"empty", "garbled"},
         NEW u \in {"no", "yes", "merged", "truncated"}, up' = [up EXCEPT ![p] = u],
         NEW c \in CostTypes, cost' = [cost EXCEPT ![p] = c],
         NEW s \in SaveTypes, saving' = [saving EXCEPT ![p] = s],
         booked' \in Accounts,
         u # "no" => /\ c.day + exposed'.daily[today] >= spent.daily[today]
                     /\ c.month + exposed'.monthly[ThisMonth] >= spent.monthly[ThisMonth],
         u \in InSave => SaveCovers(p)'
  PROVE  ILedger'
<1> USE DEF ILedger
<1>1. ThisMonth' = ThisMonth /\ Days' = Days /\ InSave' = InSave
  BY DEF ThisMonth, Days, InSave
<1>2. LedgerTypeOK'
  <2>1. up' \in [Spenders -> {"no", "yes"} \cup InSave]
    BY DEF LedgerTypeOK, InSave
  <2>2. cost' \in [Spenders -> CostTypes] /\ saving' \in [Spenders -> SaveTypes]
    BY DEF LedgerTypeOK, CostTypes, SaveTypes
  <2>3. file' \in {"absent", "whole", "empty", "garbled"}
    BY DEF LedgerTypeOK
  <2>4. QED
    BY <2>1, <2>2, <2>3 DEF LedgerTypeOK, MoreExposed, CostTypes, SaveTypes, Accounts, Days, InSave
<1>3. FutureIsUnspent' /\ ExposedWasSpent'
  BY <1>1 DEF FutureIsUnspent, ExposedWasSpent, MoreExposed
<1>4. FileCovers'
  <2>1. CASE UNCHANGED <<file, booked>>
    BY <2>1, <1>1, LedgerTypes, MoreExposedCovers DEF FileCovers, Cover
  <2>2. CASE file' \in {"empty", "garbled"}
    BY <2>2 DEF FileCovers
  <2>3. QED
    BY <2>1, <2>2
<1>5. ASSUME NEW q \in Spenders, q # p
      PROVE  up'[q] = up[q] /\ cost'[q] = cost[q] /\ saving'[q] = saving[q]
  BY <1>5 DEF LedgerTypeOK
<1>6. up'[p] = u /\ cost'[p] = c /\ saving'[p] = s
  BY DEF LedgerTypeOK
<1>7. RunsCover'
  <2>1. ASSUME NEW q \in Spenders, q # p, up[q] # "no"
        PROVE  /\ cost[q].day + exposed'.daily[today] >= spent.daily[today]
               /\ cost[q].month + exposed'.monthly[ThisMonth] >= spent.monthly[ThisMonth]
    BY <2>1, LedgerTypes, AccountTypes DEF RunsCover, MoreExposed
  <2>2. QED
    BY <1>1, <1>5, <1>6, <2>1 DEF RunsCover
<1>8. SavesCover'
  <2>1. ASSUME NEW q \in Spenders, q # p, up[q] \in InSave
        PROVE  SaveCovers(q)'
    <3>1. SaveCovers(q) /\ saving[q].tables \in Accounts /\ saving[q].day \in Days
          /\ Months[saving[q].day] \in Days
      BY <2>1, LedgerTypes, MonthTypes DEF SavesCover
    <3> DEFINE t == saving[q].tables
               e == saving[q].day
    <3>2. /\ t.daily[e] + exposed'.daily[e] >= spent.daily[e] + 1
          /\ t.monthly[Months[e]] + exposed'.monthly[Months[e]] >= spent.monthly[Months[e]] + 1
      <4>1. /\ t.daily[e] + exposed.daily[e] >= spent.daily[e] + 1
            /\ t.monthly[Months[e]] + exposed.monthly[Months[e]] >= spent.monthly[Months[e]] + 1
            /\ exposed.daily[e] <= exposed'.daily[e]
            /\ exposed.monthly[Months[e]] <= exposed'.monthly[Months[e]]
        BY <3>1 DEF SaveCovers, MoreExposed
      <4>2. /\ t.daily[e] \in Nat /\ exposed.daily[e] \in Nat /\ exposed'.daily[e] \in Nat
            /\ t.monthly[Months[e]] \in Nat /\ exposed.monthly[Months[e]] \in Nat
            /\ exposed'.monthly[Months[e]] \in Nat
            /\ spent.daily[e] \in Nat /\ spent.monthly[Months[e]] \in Nat
        BY <3>1, LedgerTypes, AccountTypes DEF MoreExposed
      <4>3. QED
        BY <4>1, <4>2
    <3>3. QED
      BY <1>1, <1>5, <2>1, <3>1, <3>2, MoreExposedCovers DEF SaveCovers, Cover
  <2>2. QED
    BY <1>1, <1>5, <1>6, <2>1 DEF SavesCover
<1>9. QED
  BY <1>2, <1>3, <1>4, <1>7, <1>8

\* A date or month at which all is exposed from now on.
LEMMA ExposeAll ==
  ASSUME LedgerTypeOK, ExposedWasSpent, exposed' = spent
  PROVE  MoreExposed
BY LedgerTypes, AccountTypes DEF ExposedWasSpent, MoreExposed

LEMMA ExposeNothing ==
  ASSUME LedgerTypeOK, ExposedWasSpent, exposed' = exposed
  PROVE  MoreExposed
BY LedgerTypes, AccountTypes DEF ExposedWasSpent, MoreExposed

LEMMA StartProcessStep ==
  ASSUME ILedger, NEW p \in Spenders, StartProcess(p)
  PROVE  ILedger'
<1> USE DEF ILedger
<1>1. /\ up' = [up EXCEPT ![p] = "yes"] /\ cost' = [cost EXCEPT ![p] = Loaded]
      /\ UNCHANGED <<today, file, booked, saving, spent>>
  BY DEF StartProcess
<1>2. /\ Loaded \in CostTypes
      /\ file = "whole" => Loaded.day = booked.daily[today]
                            /\ Loaded.month = booked.monthly[ThisMonth]
      /\ file # "whole" => Loaded.day = 0 /\ Loaded.month = 0
  <2>1. booked.daily[today] \in Nat /\ booked.monthly[ThisMonth] \in Nat
    BY LedgerTypes, AccountTypes
  <2>2. QED
    BY <2>1 DEF Loaded, NoCost, CostTypes
<1>3. /\ MoreExposed
      /\ Loaded.day + exposed'.daily[today] >= spent.daily[today]
      /\ Loaded.month + exposed'.monthly[ThisMonth] >= spent.monthly[ThisMonth]
  <2>1. CASE Unreadable
    <3> DEFINE ed == [exposed.daily EXCEPT ![today] = spent.daily[today]]
               em == [exposed.monthly EXCEPT ![ThisMonth] = spent.monthly[ThisMonth]]
    <3>1. exposed' = Book(exposed, today, spent.daily[today], spent.monthly[ThisMonth])
      BY <2>1 DEF StartProcess
    <3>2. exposed' = [daily |-> ed, monthly |-> em]
      BY <3>1 DEF Book, ThisMonth
    <3>3. /\ ed \in [Days -> Nat] /\ em \in [Days -> Nat]
          /\ \A d \in Days : ed[d] = IF d = today THEN spent.daily[d] ELSE exposed.daily[d]
          /\ \A d \in Days :
               em[d] = IF d = ThisMonth THEN spent.monthly[d] ELSE exposed.monthly[d]
      BY LedgerTypes, AccountTypes
    <3> HIDE DEF ed, em
    <3>4. exposed' \in Accounts /\ exposed'.daily = ed /\ exposed'.monthly = em
      BY <3>2, <3>3 DEF Accounts
    <3>5. MoreExposed
      BY <3>3, <3>4, LedgerTypes, AccountTypes DEF ExposedWasSpent, MoreExposed
    <3>6. file # "whole" /\ ed[today] = spent.daily[today]
          /\ em[ThisMonth] = spent.monthly[ThisMonth]
      BY <2>1, <3>3, LedgerTypes DEF Unreadable
    <3>7. QED
      BY <1>2, <3>4, <3>5, <3>6, LedgerTypes, AccountTypes
  <2>2. CASE file = "whole"
    <3>1. exposed' = exposed
      BY <2>2 DEF StartProcess, Unreadable
    <3>2. QED
      BY <1>2, <2>2, <3>1, ExposeNothing, LedgerTypes DEF FileCovers, Cover
  <2>3. CASE file = "absent"
    <3>1. exposed' = exposed
      BY <2>3 DEF StartProcess, Unreadable
    <3>2. spent.daily[today] = 0 /\ spent.monthly[ThisMonth] = 0
      BY <2>3, LedgerTypes DEF FutureIsUnspent
    <3>3. QED
      BY <1>2, <2>3, <3>1, <3>2, ExposeNothing, LedgerTypes, AccountTypes
  <2>4. QED
    BY <2>1, <2>2, <2>3 DEF LedgerTypeOK, Unreadable
<1>4. saving' = [saving EXCEPT ![p] = saving[p]] /\ saving[p] \in SaveTypes
  BY <1>1, LedgerTypes DEF LedgerTypeOK
<1>5. booked' \in Accounts /\ Accounts' = Accounts
  BY <1>1, LedgerTypes
<1>6. "yes" \notin InSave
  BY DEF InSave
<1>7. QED
  BY <1>1, <1>2, <1>3, <1>4, <1>5, <1>6, OthersKept

LEMMA RecordStep ==
  ASSUME ILedger, NEW p \in Spenders, Record(p)
  PROVE  ILedger'
<1> USE DEF ILedger
<1> DEFINE c == [session |-> cost[p].session + 1, day |-> cost[p].day + 1,
                 month |-> cost[p].month + 1]
           td == [Kept.daily EXCEPT ![today] = cost[p].day + 1]
           tm == [Kept.monthly EXCEPT ![ThisMonth] = cost[p].month + 1]
           t == [daily |-> td, monthly |-> tm]
           s == [day |-> today, tables |-> t]
<1>1. /\ up[p] = "yes" /\ up' = [up EXCEPT ![p] = "merged"]
      /\ UNCHANGED <<today, file, booked, spent>>
  BY DEF Record
<1>2. c \in CostTypes /\ cost' = [cost EXCEPT ![p] = c]
  <2>1. cost[p] \in CostTypes
    BY LedgerTypes
  <2>2. c \in CostTypes /\ [period \in DOMAIN cost[p] |-> cost[p][period] + 1] = c
    BY <2>1 DEF CostTypes
  <2>3. QED
    BY <2>2 DEF Record
<1>3. Kept \in Accounts
  BY LedgerTypes, NothingTypes DEF Kept
<1>4. /\ td \in [Days -> Nat] /\ tm \in [Days -> Nat]
      /\ \A d \in Days : td[d] = IF d = today THEN cost[p].day + 1 ELSE Kept.daily[d]
      /\ \A d \in Days : tm[d] = IF d = ThisMonth THEN cost[p].month + 1 ELSE Kept.monthly[d]
  BY <1>3, LedgerTypes, AccountTypes
<1>5. saving' = [saving EXCEPT ![p] = s]
  <2>1. Book(Kept, today, cost[p].day + 1, cost[p].month + 1) = t
    BY DEF Book, ThisMonth
  <2>2. QED
    BY <2>1 DEF Record
<1> HIDE DEF td, tm
<1>6. t \in Accounts /\ s \in SaveTypes
  BY <1>4, LedgerTypes DEF Accounts, SaveTypes
<1>7. MoreExposed /\ (Unreadable => exposed' = spent)
  <2>1. exposed' = spent \/ exposed' = exposed
    BY DEF Record
  <2>2. QED
    BY <2>1, ExposeAll, ExposeNothing DEF Record
<1>8. /\ \A d \in Days : /\ Kept.daily[d] + exposed'.daily[d] >= spent.daily[d]
                         /\ Kept.monthly[d] + exposed'.monthly[d] >= spent.monthly[d]
  <2>1. CASE file = "whole"
    BY <2>1, <1>7, LedgerTypes, MoreExposedCovers DEF Kept, FileCovers
  <2>2. CASE file = "absent"
    BY <2>2, <1>3, <1>7, LedgerTypes, AccountTypes DEF FutureIsUnspent, MoreExposed
  <2>3. CASE Unreadable
    BY <2>3, <1>3, <1>7, LedgerTypes, AccountTypes
  <2>4. QED
    BY <2>1, <2>2, <2>3 DEF LedgerTypeOK, Unreadable
<1>9. /\ cost[p].day + exposed'.daily[today] >= spent.daily[today]
      /\ cost[p].month + exposed'.monthly[ThisMonth] >= spent.monthly[ThisMonth]
  BY <1>1, <1>7, LedgerTypes, AccountTypes DEF RunsCover, MoreExposed
<1>10. /\ c.day + exposed'.daily[today] >= spent.daily[today] + 1
       /\ c.month + exposed'.monthly[ThisMonth] >= spent.monthly[ThisMonth] + 1
  BY <1>7, <1>9, LedgerTypes, AccountTypes DEF MoreExposed
<1>11. \A d \in Days : /\ td[d] + exposed'.daily[d] >= spent.daily[d]
                       /\ tm[d] + exposed'.monthly[d] >= spent.monthly[d]
  BY <1>4, <1>7, <1>8, <1>10, LedgerTypes, AccountTypes DEF MoreExposed
<1>12. SaveCovers(p)'
  <2>1. saving'[p] = s /\ cost'[p] = c
    BY <1>2, <1>5 DEF LedgerTypeOK
  <2>2. /\ s.day = today /\ s.tables.daily = td /\ s.tables.monthly = tm
        /\ td[today] = c.day /\ tm[ThisMonth] = c.month
    BY <1>4, LedgerTypes
  <2>3. Days' = Days /\ Months[s.day] = ThisMonth
    BY <2>2 DEF Days, ThisMonth
  <2>4. today' = today /\ spent' = spent /\ today <= today
    BY <1>1, LedgerTypes
  <2> HIDE DEF s, c
  <2>5. QED
    BY <1>10, <1>11, <2>1, <2>2, <2>3, <2>4 DEF SaveCovers, Cover
<1>13. /\ c.day + exposed'.daily[today] >= spent.daily[today]
       /\ c.month + exposed'.monthly[ThisMonth] >= spent.monthly[ThisMonth]
  BY <1>2, <1>7, <1>10, LedgerTypes, AccountTypes DEF MoreExposed
<1>14. booked' \in Accounts /\ UNCHANGED <<file, booked>>
  BY <1>1, LedgerTypes
<1> HIDE DEF s, c
<1>15. QED
  BY <1>1, <1>2, <1>5, <1>6, <1>7, <1>12, <1>13, <1>14, OthersKept

LEMMA TruncateFileStep ==
  ASSUME ILedger, NEW p \in Spenders, TruncateFile(p)
  PROVE  ILedger'
<1> USE DEF ILedger
<1>1. /\ up[p] = "merged" /\ up' = [up EXCEPT ![p] = "truncated"]
      /\ file' = "empty" /\ booked' = Nothing
      /\ UNCHANGED <<today, cost, saving, spent, exposed>>
  BY DEF TruncateFile
<1>2. /\ cost' = [cost EXCEPT ![p] = cost[p]] /\ saving' = [saving EXCEPT ![p] = saving[p]]
      /\ cost[p] \in CostTypes /\ saving[p] \in SaveTypes
  BY <1>1, LedgerTypes DEF LedgerTypeOK
<1>3. MoreExposed /\ booked' \in Accounts
  BY <1>1, ExposeNothing, NothingTypes
<1>4. /\ cost[p].day + exposed'.daily[today] >= spent.daily[today]
      /\ cost[p].month + exposed'.monthly[ThisMonth] >= spent.monthly[ThisMonth]
  BY <1>1 DEF RunsCover
<1>5. SaveCovers(p)'
  <2>1. SaveCovers(p) /\ Days' = Days
    BY <1>1 DEF SavesCover, InSave, Days
  <2>2. QED
    BY <1>1, <2>1 DEF SaveCovers, Cover
<1>6. QED
  BY <1>1, <1>2, <1>3, <1>4, <1>5, OthersKept

LEMMA EndStep ==
  ASSUME ILedger, NEW p \in Spenders, EndProcess(p)
  PROVE  ILedger'
<1> USE DEF ILedger
<1>1. /\ up' = [up EXCEPT ![p] = "no"] /\ cost' = [cost EXCEPT ![p] = NoCost]
      /\ saving' = [saving EXCEPT ![p] = NoSaving]
      /\ UNCHANGED <<today, file, booked, spent, exposed>>
  BY DEF EndProcess
<1>2. MoreExposed /\ booked' \in Accounts /\ "no" \notin InSave
  BY <1>1, ExposeNothing, LedgerTypes DEF InSave
<1>3. QED
  BY <1>1, <1>2, NothingTypes, OthersKept

\* One more unit of a day and of its month.
LEMMA OneMoreIs ==
  ASSUME NEW t \in Accounts, NEW d \in Days
  PROVE  /\ OneMore(t, d) \in Accounts
         /\ \A e \in Days :
              /\ OneMore(t, d).daily[e] = IF e = d THEN t.daily[e] + 1 ELSE t.daily[e]
              /\ OneMore(t, d).monthly[e] =
                   IF e = Months[d] THEN t.monthly[e] + 1 ELSE t.monthly[e]
<1> DEFINE od == [t.daily EXCEPT ![d] = @ + 1]
           om == [t.monthly EXCEPT ![Months[d]] = @ + 1]
<1>1. OneMore(t, d) = [daily |-> od, monthly |-> om]
  BY DEF OneMore, Book
<1>2. /\ od \in [Days -> Nat] /\ om \in [Days -> Nat]
      /\ \A e \in Days : od[e] = IF e = d THEN t.daily[e] + 1 ELSE t.daily[e]
      /\ \A e \in Days : om[e] = IF e = Months[d] THEN t.monthly[e] + 1 ELSE t.monthly[e]
  BY AccountTypes, MonthTypes
<1> HIDE DEF od, om
<1>3. QED
  BY <1>1, <1>2 DEF Accounts

\* The unit is recorded; if others run, it is exposed to their saves, so that
\* they and the file need not hold it.
LEMMA SavedStep ==
  ASSUME ILedger, NEW p \in Spenders, Saved(p)
  PROVE  ILedger'
<1> USE DEF ILedger
<1> DEFINE s == saving[p]
           e == s.day
           alone == ~\E q \in Spenders \ {p} : up[q] # "no"
<1>1. /\ up[p] = "truncated" /\ up' = [up EXCEPT ![p] = "yes"]
      /\ \/ file' = "whole" /\ booked' = s.tables
         \/ file # "empty" /\ file' = "garbled" /\ booked' = Nothing
      /\ spent' = OneMore(spent, e)
      /\ exposed' = IF alone THEN exposed ELSE OneMore(exposed, e)
      /\ saving' = [saving EXCEPT ![p] = NoSaving]
      /\ UNCHANGED <<today, cost>>
  BY DEF Saved
<1>2. /\ SaveCovers(p) /\ e \in Days /\ Months[e] \in Days /\ s.tables \in Accounts
      /\ e <= today /\ Months[e] <= ThisMonth
  <2>1. SaveCovers(p) /\ e \in Days /\ s.tables \in Accounts
    BY <1>1, LedgerTypes DEF SavesCover, InSave
  <2>2. e <= today
    BY <2>1 DEF SaveCovers
  <2>3. QED
    BY <2>1, <2>2, MonthTypes, LedgerTypes DEF ThisMonth
<1>3. ThisMonth' = ThisMonth /\ Days' = Days /\ InSave' = InSave
  BY <1>1 DEF ThisMonth, Days, InSave
<1>4. /\ spent' \in Accounts /\ exposed' \in Accounts
      /\ \A d \in Days :
           /\ spent'.daily[d] = IF d = e THEN spent.daily[d] + 1 ELSE spent.daily[d]
           /\ spent'.monthly[d] =
                IF d = Months[e] THEN spent.monthly[d] + 1 ELSE spent.monthly[d]
           /\ exposed'.daily[d] =
                IF ~alone /\ d = e THEN exposed.daily[d] + 1 ELSE exposed.daily[d]
           /\ exposed'.monthly[d] =
                IF ~alone /\ d = Months[e] THEN exposed.monthly[d] + 1
                ELSE exposed.monthly[d]
  <2>1. \A x \in Accounts : /\ OneMore(x, e) \in Accounts
           /\ \A d \in Days :
                /\ OneMore(x, e).daily[d] = IF d = e THEN x.daily[d] + 1 ELSE x.daily[d]
                /\ OneMore(x, e).monthly[d] =
                     IF d = Months[e] THEN x.monthly[d] + 1 ELSE x.monthly[d]
    BY <1>2, OneMoreIs
  <2>2. spent \in Accounts /\ exposed \in Accounts
    BY LedgerTypes
  <2> HIDE DEF alone
  <2>3. /\ spent' = OneMore(spent, e)
        /\ exposed' = IF alone THEN exposed ELSE OneMore(exposed, e)
    BY <1>1
  <2> HIDE DEF e
  <2>4. QED
    BY <2>1, <2>2, <2>3
<1> HIDE DEF alone
<1>5. /\ \A d \in Days : /\ spent.daily[d] \in Nat /\ spent.monthly[d] \in Nat
                         /\ exposed.daily[d] \in Nat /\ exposed.monthly[d] \in Nat
                         /\ s.tables.daily[d] \in Nat /\ s.tables.monthly[d] \in Nat
      /\ today \in Days /\ ThisMonth \in Days
      /\ \A d \in Days : d \in Nat
  BY <1>2, LedgerTypes, AccountTypes, MonthTypes
<1>6. LedgerTypeOK'
  <2>1. up' \in [Spenders -> {"no", "yes"} \cup InSave]
    BY <1>1 DEF LedgerTypeOK, InSave
  <2>2. saving' \in [Spenders -> SaveTypes] /\ cost' \in [Spenders -> CostTypes]
    BY <1>1, NothingTypes DEF LedgerTypeOK, SaveTypes, CostTypes
  <2>3. booked' \in Accounts /\ file' \in {"absent", "whole", "empty", "garbled"}
    BY <1>1, <1>2, NothingTypes
  <2>4. QED
    BY <1>1, <1>4, <2>1, <2>2, <2>3 DEF LedgerTypeOK, SaveTypes, CostTypes, Accounts, Days, InSave
<1>7. FutureIsUnspent' /\ ExposedWasSpent'
  BY <1>1, <1>2, <1>3, <1>4, <1>5 DEF FutureIsUnspent, ExposedWasSpent
<1>8. /\ s.tables.daily[e] + exposed.daily[e] >= spent.daily[e] + 1
      /\ s.tables.monthly[Months[e]] + exposed.monthly[Months[e]]
           >= spent.monthly[Months[e]] + 1
      /\ \A d \in Days : /\ s.tables.daily[d] + exposed.daily[d] >= spent.daily[d]
                         /\ s.tables.monthly[d] + exposed.monthly[d] >= spent.monthly[d]
      /\ s.tables.daily[e] = cost[p].day /\ s.tables.monthly[Months[e]] = cost[p].month
  BY <1>2 DEF SaveCovers, Cover
<1>9. FileCovers'
  <2>1. \A d \in Days : /\ s.tables.daily[d] + exposed'.daily[d] >= spent'.daily[d]
                        /\ s.tables.monthly[d] + exposed'.monthly[d] >= spent'.monthly[d]
    BY <1>4, <1>5, <1>8
  <2>2. QED
    BY <1>1, <1>3, <2>1 DEF FileCovers, Cover
<1>10. \A q \in Spenders : q # p => /\ up'[q] = up[q] /\ saving'[q] = saving[q]
                                    /\ up[q] # "no" => ~alone
  BY <1>1 DEF LedgerTypeOK, alone
<1>11. up'[p] = "yes" /\ cost' = cost
  BY <1>1 DEF LedgerTypeOK
<1>12. RunsCover'
  <2>1. /\ cost[p].day + exposed'.daily[today] >= spent'.daily[today]
        /\ cost[p].month + exposed'.monthly[ThisMonth] >= spent'.monthly[ThisMonth]
    <3>1. /\ cost[p].day + exposed.daily[today] >= spent.daily[today]
          /\ cost[p].month + exposed.monthly[ThisMonth] >= spent.monthly[ThisMonth]
          /\ cost[p].day \in Nat /\ cost[p].month \in Nat
      BY <1>1, LedgerTypes DEF RunsCover
    <3>2. QED
      BY <1>4, <1>5, <1>8, <3>1
  <2>2. ASSUME NEW q \in Spenders, q # p, up[q] # "no"
        PROVE  /\ cost[q].day + exposed'.daily[today] >= spent'.daily[today]
               /\ cost[q].month + exposed'.monthly[ThisMonth] >= spent'.monthly[ThisMonth]
    <3>1. /\ cost[q].day + exposed.daily[today] >= spent.daily[today]
          /\ cost[q].month + exposed.monthly[ThisMonth] >= spent.monthly[ThisMonth]
          /\ cost[q].day \in Nat /\ cost[q].month \in Nat /\ ~alone
      BY <1>10, <2>2, LedgerTypes DEF RunsCover
    <3>2. QED
      BY <1>4, <1>5, <3>1
  <2>3. QED
    BY <1>1, <1>3, <1>10, <1>11, <2>1, <2>2 DEF RunsCover
<1>13. SavesCover'
  <2>1. ASSUME NEW q \in Spenders, q # p, up[q] \in InSave
        PROVE  SaveCovers(q)'
    <3> DEFINE t == saving[q].tables
               f == saving[q].day
    <3>1. /\ SaveCovers(q) /\ t \in Accounts /\ f \in Days /\ Months[f] \in Days /\ ~alone
      BY <1>10, <2>1, LedgerTypes, MonthTypes DEF SavesCover, InSave
    <3>2. /\ \A d \in Days : t.daily[d] \in Nat /\ t.monthly[d] \in Nat
      BY <3>1, AccountTypes
    <3>3. /\ t.daily[f] + exposed.daily[f] >= spent.daily[f] + 1
          /\ t.monthly[Months[f]] + exposed.monthly[Months[f]] >= spent.monthly[Months[f]] + 1
          /\ \A d \in Days : /\ t.daily[d] + exposed.daily[d] >= spent.daily[d]
                             /\ t.monthly[d] + exposed.monthly[d] >= spent.monthly[d]
      BY <3>1 DEF SaveCovers, Cover
    <3>4. /\ t.daily[f] + exposed'.daily[f] >= spent'.daily[f] + 1
          /\ t.monthly[Months[f]] + exposed'.monthly[Months[f]]
               >= spent'.monthly[Months[f]] + 1
          /\ \A d \in Days : /\ t.daily[d] + exposed'.daily[d] >= spent'.daily[d]
                             /\ t.monthly[d] + exposed'.monthly[d] >= spent'.monthly[d]
      BY <1>4, <1>5, <3>1, <3>2, <3>3
    <3>5. saving'[q] = saving[q] /\ cost'[q] = cost[q] /\ today' = today
      BY <1>1, <1>10, <2>1
    <3>6. QED
      BY <1>3, <3>1, <3>4, <3>5 DEF SaveCovers, Cover
  <2>2. QED
    BY <1>3, <1>10, <1>11, <2>1 DEF SavesCover, InSave
<1>14. QED
  BY <1>6, <1>7, <1>9, <1>12, <1>13

LEMMA LedgerStep == ILedger /\ [LedgerNext]_ledgerVars => ILedger'
<1> SUFFICES ASSUME ILedger, [LedgerNext]_ledgerVars PROVE ILedger'
  OBVIOUS
<1>1. CASE UNCHANGED ledgerVars
  BY <1>1 DEF ledgerVars, ILedger, LedgerTypeOK, FutureIsUnspent, ExposedWasSpent, FileCovers,
              RunsCover, SavesCover, SaveCovers, Cover, ThisMonth, Days, Accounts, InSave
<1>2. QED
  BY <1>1, MidnightStep, StartProcessStep, RecordStep, TruncateFileStep, SavedStep, EndStep
  DEF LedgerNext

\* For any processes, days and months, however the processes overlap, restart
\* and die: only spending that was recorded beside another running process, or
\* that stood in a file which somebody has found unreadable, can be missing from
\* the file and from what check_budget compares with the limits.
THEOREM SpendingIsCounted == LedgerSpec => []SpendIsCounted
<1>1. ILedger => SpendIsCounted
  <2> SUFFICES ASSUME ILedger PROVE SpendIsCounted
    OBVIOUS
  <2>1. /\ \A d \in Days : /\ spent.daily[d] \in Nat /\ spent.monthly[d] \in Nat
                           /\ exposed.daily[d] \in Nat /\ exposed.monthly[d] \in Nat
                           /\ booked.daily[d] \in Nat /\ booked.monthly[d] \in Nat
        /\ today \in Days /\ ThisMonth \in Days
        /\ \A p \in Spenders : cost[p].day \in Nat /\ cost[p].month \in Nat
    BY LedgerTypes, AccountTypes DEF ILedger
  <2>2. file = "whole" => \A d \in Days : /\ booked.daily[d] >= SureOfDay(d)
                                          /\ booked.monthly[d] >= SureOfMonth(d)
    BY <2>1 DEF ILedger, FileCovers, Cover, SureOfDay, SureOfMonth
  <2>3. ASSUME NEW p \in Spenders, up[p] # "no", NEW most \in 1..MaxSpent
        PROVE  /\ SureOfDay(today) >= most => cost[p].day >= most
               /\ SureOfMonth(ThisMonth) >= most => cost[p].month >= most
    BY <2>1, <2>3 DEF ILedger, RunsCover, SureOfDay, SureOfMonth
  <2>4. QED
    BY <2>2, <2>3 DEF SpendIsCounted, BudgetExceeded
<1>2. QED
  BY <1>1, LedgerInitInv, LedgerStep, PTL DEF LedgerSpec

(* ---- Roster ---- *)

\* A process at work has an employee and something to write.
OrdersAreWhole ==
  \A c \in Clerks :
    IF order[c].of = 0 THEN order[c] = NoOrder
    ELSE order[c].at \in {"read", "truncated"} /\ order[c].new.form = "whole"

WritesTo(c, e) == order[c].of = e /\ order[c].at = "truncated"

\* A file that does not exist yet has no history.
AbsentIsNew ==
  \A e \in Staff : config[e].form = "absent" =>
    ordered[e] = {} /\ \A c \in Clerks : ~WritesTo(c, e)

\* A file that can be read says what was ordered and not lost, ...
FilesSay == \A e \in Staff : config[e].form = "whole" => ordered[e] \ lost[e] \subseteq config[e].says

\* ... and so does what a command is about to write, but for what it missed.
OrdersSay ==
  \A c \in Clerks : order[c].of # 0 =>
    /\ ordered[order[c].of] \ (lost[order[c].of] \cup order[c].missed) \subseteq order[c].new.says
    /\ order[c].adds \subseteq order[c].new.says

BrokenHasCause ==
  \A e \in Staff : config[e].form \in {"empty", "garbled"} =>
    e \in broken \/ \E c \in Clerks : WritesTo(c, e)

\* The subtask is assigned when every file was read.
AssignedLast == AssigneeIsKnown /\ (assigned # 0 => unread = {})

IRoster ==
  /\ RosterTypeOK /\ OrdersAreWhole /\ AbsentIsNew /\ FilesSay /\ OrdersSay
  /\ BrokenHasCause /\ AssignedLast

LEMMA RosterTypes ==
  ASSUME RosterTypeOK
  PROVE  /\ order \in [Clerks -> Orders] /\ \A c \in Clerks : order[c] \in Orders
         /\ config \in [Staff -> Configs] /\ \A e \in Staff : config[e] \in Configs
         /\ ordered \in [Staff -> Sayings] /\ lost \in [Staff -> Sayings]
         /\ broken \subseteq Staff /\ 0 \notin Staff
BY StaffAssumption DEF RosterTypeOK

LEMMA OrderTypes ==
  ASSUME NEW o \in Orders
  PROVE  o.of \in Staff \cup {0} /\ o.new \in Configs /\ o.adds \in Sayings /\ o.missed \in Sayings
BY DEF Orders

LEMMA ConfigIs ==
  /\ \A f \in {"absent", "empty", "garbled", "whole"}, ss \in Sayings :
       Config(f, ss) \in Configs /\ Config(f, ss).form = f /\ Config(f, ss).says = ss
  /\ \A g \in Configs : g.says \in Sayings
  /\ {} \in Sayings /\ \A a, b \in Sayings : a \cup b \in Sayings /\ a \ b \in Sayings
  /\ \A a \in Sayings : a \ {"archived"} \in Sayings /\ a \cup {"archived"} \in Sayings
BY DEF Config, Configs, Sayings

LEMMA SmallConfigs ==
  /\ Absent \in Configs /\ Empty \in Configs /\ NoOrder \in Orders
  /\ Absent.form = "absent" /\ Empty.form = "empty"
  /\ NoOrder.of = 0 /\ NoOrder.at = "idle"
<1>1. Absent \in Configs /\ Empty \in Configs /\ Absent.form = "absent" /\ Empty.form = "empty"
  BY ConfigIs DEF Absent, Empty
<1>2. QED
  BY <1>1, ConfigIs DEF NoOrder, Orders

LEMMA RosterInitInv == RosterInit => IRoster
<1> SUFFICES ASSUME RosterInit PROVE IRoster
  OBVIOUS
<1>1. RosterTypeOK
  BY SmallConfigs, ConfigIs DEF RosterInit, RosterTypeOK
<1>2. 0 \notin Staff
  BY StaffAssumption
<1>3. OrdersAreWhole /\ AbsentIsNew /\ FilesSay /\ OrdersSay /\ BrokenHasCause /\ AssignedLast
  BY <1>2, SmallConfigs DEF RosterInit, OrdersAreWhole, AbsentIsNew, FilesSay, OrdersSay,
     BrokenHasCause, AssignedLast, AssigneeIsKnown, WritesTo
<1>4. QED
  BY <1>1, <1>3 DEF IRoster

\* A command that writes what it has read and what it adds.
LEMMA TakeStep ==
  ASSUME IRoster, NEW c \in Clerks, NEW e \in Staff, NEW says \in Sayings,
         NEW adds \in Sayings, adds \subseteq says, ordered[e] \ lost[e] \subseteq says,
         Take(c, e, says, adds)
  PROVE  IRoster'
<1> DEFINE o == [of |-> e, at |-> "read", new |-> Config("whole", says), adds |-> adds,
                 missed |-> {}]
<1>1. /\ order \in [Clerks -> Orders] /\ order[c] = NoOrder
      /\ order' = [order EXCEPT ![c] = o]
      /\ UNCHANGED <<config, ordered, lost, broken, roster, unread, assigned>>
  BY RosterTypes DEF IRoster, Take, loadVars
<1>2. /\ o \in Orders /\ o.of = e /\ o.at = "read" /\ o.new.form = "whole"
      /\ o.new.says = says /\ o.adds = adds /\ o.missed = {}
  BY ConfigIs DEF Orders
<1>3. /\ order' \in [Clerks -> Orders] /\ order'[c] = o
      /\ \A d \in Clerks : d # c => order'[d] = order[d]
  BY <1>1, <1>2
<1> HIDE DEF o
<1>4. e # 0 /\ order[c].of = 0
  BY <1>1, RosterTypes, SmallConfigs DEF IRoster
<1>5. RosterTypeOK'
  BY <1>1, <1>3 DEF IRoster, RosterTypeOK, Orders, Configs, Sayings
<1>6. OrdersAreWhole'
  BY <1>2, <1>3, <1>4 DEF IRoster, OrdersAreWhole, NoOrder, Absent, Config
<1>7. \A f \in Staff, d \in Clerks : WritesTo(d, f)' <=> WritesTo(d, f)
  BY <1>1, <1>2, <1>3, SmallConfigs DEF WritesTo
<1>8. AbsentIsNew' /\ FilesSay' /\ BrokenHasCause'
  BY <1>1, <1>7 DEF IRoster, AbsentIsNew, FilesSay, BrokenHasCause
<1>9. OrdersSay'
  BY <1>1, <1>2, <1>3 DEF IRoster, OrdersSay
<1>10. AssignedLast'
  BY <1>1 DEF IRoster, AssignedLast, AssigneeIsKnown
<1>11. QED
  BY <1>5, <1>6, <1>8, <1>9, <1>10 DEF IRoster

LEMMA HireStep ==
  ASSUME IRoster, NEW c \in Clerks, NEW e \in Staff, NEW base \in Staff, Hire(c, e, base)
  PROVE  IRoster'
<1> DEFINE says == config[base].says \ {"archived"}
<1>1. says \in Sayings
  BY RosterTypes, ConfigIs DEF IRoster
<1>2. ordered[e] = {}
  BY DEF Hire, IRoster, AbsentIsNew
<1>3. Take(c, e, says, {})
  BY DEF Hire
<1> HIDE DEF says
<1>4. QED
  BY <1>1, <1>2, <1>3, ConfigIs, TakeStep

LEMMA FireStep ==
  ASSUME IRoster, NEW c \in Clerks, NEW e \in Staff, Fire(c, e)
  PROVE  IRoster'
<1> DEFINE says == config[e].says \cup {"archived"}
<1>1. says \in Sayings /\ {"archived"} \in Sayings
  BY RosterTypes, ConfigIs DEF IRoster, Sayings
<1>2. ordered[e] \ lost[e] \subseteq says
  BY DEF Fire, IRoster, FilesSay
<1>3. Take(c, e, says, {"archived"}) /\ {"archived"} \subseteq says
  BY DEF Fire
<1> HIDE DEF says
<1>4. QED
  BY <1>1, <1>2, <1>3, TakeStep

LEMMA TrainStep ==
  ASSUME IRoster, NEW c \in Clerks, NEW e \in Staff, NEW d \in Directives, Train(c, e, d)
  PROVE  IRoster'
<1> DEFINE says == config[e].says \cup {d}
<1>1. config[e].says \in Sayings
  BY RosterTypes, ConfigIs DEF IRoster
<1>2. says \in Sayings /\ {d} \in Sayings
  BY <1>1 DEF Sayings
<1>3. ordered[e] \ lost[e] \subseteq says
  BY DEF Train, IRoster, FilesSay
<1>4. Take(c, e, says, {d}) /\ {d} \subseteq says
  BY DEF Train
<1> HIDE DEF says
<1>5. QED
  BY <1>2, <1>3, <1>4, TakeStep

LEMMA TruncateStep ==
  ASSUME IRoster, NEW c \in Clerks, Truncate(c)
  PROVE  IRoster'
<1> DEFINE e == order[c].of
<1>1. /\ order \in [Clerks -> Orders] /\ order[c].at = "read"
      /\ order' = [order EXCEPT ![c].at = "truncated"]
      /\ config' = [config EXCEPT ![e] = Empty] /\ config \in [Staff -> Configs]
      /\ UNCHANGED <<ordered, lost, broken, roster, unread, assigned>>
  BY RosterTypes DEF IRoster, Truncate, loadVars
<1>2. e \in Staff /\ e # 0
  BY <1>1, SmallConfigs DEF IRoster, OrdersAreWhole, Orders
<1>3. /\ order' \in [Clerks -> Orders]
      /\ \A d \in Clerks \ {c} : order'[d] = order[d]
      /\ order'[c].at = "truncated" /\ order'[c].of = e
      /\ order'[c].new = order[c].new /\ order'[c].adds = order[c].adds
      /\ order'[c].missed = order[c].missed
  BY <1>1 DEF Orders
<1>4. /\ config' \in [Staff -> Configs] /\ config'[e] = Empty
      /\ \A f \in Staff \ {e} : config'[f] = config[f]
  BY <1>1, <1>2, SmallConfigs
<1> HIDE DEF e
<1>5. RosterTypeOK'
  BY <1>1, <1>3, <1>4 DEF IRoster, RosterTypeOK, Orders, Configs, Sayings
<1>6. \A d \in Clerks : /\ order'[d].of = order[d].of /\ order'[d].new = order[d].new
                        /\ order'[d].adds = order[d].adds /\ order'[d].missed = order[d].missed
  BY <1>3 DEF e
<1>7. OrdersAreWhole'
  BY <1>2, <1>3, <1>6 DEF IRoster, OrdersAreWhole, NoOrder, Absent, Config
<1>8. WritesTo(c, e)' /\ \A f \in Staff \ {e}, d \in Clerks : WritesTo(d, f)' <=> WritesTo(d, f)
  BY <1>3 DEF WritesTo, e
<1>9. AbsentIsNew' /\ FilesSay' /\ BrokenHasCause'
  <2>1. config'[e].form = "empty"
    BY <1>4, SmallConfigs
  <2>2. AbsentIsNew'
    BY <1>1, <1>4, <1>8, <2>1 DEF IRoster, AbsentIsNew
  <2>3. FilesSay'
    BY <1>1, <1>4, <2>1 DEF IRoster, FilesSay
  <2>4. ASSUME NEW f \in Staff, config'[f].form \in {"empty", "garbled"}
        PROVE  f \in broken \/ \E d \in Clerks : WritesTo(d, f)'
    <3>1. CASE f = e
      BY <1>3, <3>1 DEF WritesTo
    <3>2. CASE f # e
      <4>1. f \in broken \/ \E d \in Clerks : WritesTo(d, f)
        BY <1>4, <2>4, <3>2 DEF IRoster, BrokenHasCause
      <4>2. QED
        BY <1>8, <3>2, <4>1
    <3>3. QED
      BY <3>1, <3>2
  <2>5. BrokenHasCause'
    BY <1>1, <2>4 DEF BrokenHasCause
  <2>6. QED
    BY <2>2, <2>3, <2>5
<1>10. OrdersSay'
  <2> SUFFICES ASSUME NEW d \in Clerks, order'[d].of # 0
        PROVE  /\ ordered'[order'[d].of] \ (lost'[order'[d].of] \cup order'[d].missed)
                    \subseteq order'[d].new.says
               /\ order'[d].adds \subseteq order'[d].new.says
    BY DEF OrdersSay
  <2>1. /\ ordered[order[d].of] \ (lost[order[d].of] \cup order[d].missed)
             \subseteq order[d].new.says
        /\ order[d].adds \subseteq order[d].new.says
    BY <1>6 DEF IRoster, OrdersSay
  <2>2. QED
    BY <1>1, <1>6, <2>1
<1>11. AssignedLast'
  BY <1>1 DEF IRoster, AssignedLast, AssigneeIsKnown
<1>12. QED
  BY <1>5, <1>7, <1>9, <1>10, <1>11 DEF IRoster

\* What the command has missed is lost with its write; what it adds, the others
\* miss from now on.
LEMMA WriteBackStep ==
  ASSUME IRoster, NEW c \in Clerks, WriteBack(c)
  PROVE  IRoster'
<1> DEFINE o == order[c]
           e == o.of
           Told(d) == [order[d] EXCEPT !.missed = @ \cup o.adds]
           garbled == Config("garbled", {})
<1>1. /\ order \in [Clerks -> Orders] /\ o.at = "truncated"
      /\ order' = [d \in Clerks |-> IF d = c THEN NoOrder
                                    ELSE IF order[d].of = e THEN Told(d) ELSE order[d]]
      /\ \/ config' = [config EXCEPT ![e] = o.new] /\ broken' = broken
         \/ config' = [config EXCEPT ![e] = garbled] /\ broken' = broken \cup {e}
      /\ config \in [Staff -> Configs] /\ broken \subseteq Staff
      /\ ordered' = [ordered EXCEPT ![e] = @ \cup o.adds] /\ ordered \in [Staff -> Sayings]
      /\ lost' = [lost EXCEPT ![e] = (@ \cup o.missed) \ o.adds] /\ lost \in [Staff -> Sayings]
      /\ UNCHANGED <<roster, unread, assigned>>
  BY RosterTypes DEF IRoster, WriteBack, loadVars
<1>2. /\ e \in Staff /\ e # 0 /\ o.new \in Configs /\ o.new.form = "whole"
      /\ o.adds \in Sayings /\ o.missed \in Sayings
  BY <1>1, SmallConfigs, OrderTypes DEF IRoster, OrdersAreWhole
<1>3. \A d \in Clerks :
        /\ Told(d) \in Orders /\ Told(d).of = order[d].of /\ Told(d).at = order[d].at
        /\ Told(d).new = order[d].new /\ Told(d).adds = order[d].adds
        /\ Told(d).missed = order[d].missed \cup o.adds
  BY <1>1, <1>2 DEF Orders, Sayings
<1>4. garbled \in Configs /\ garbled.form = "garbled"
  BY ConfigIs
<1>5. ordered[e] \ (lost[e] \cup o.missed) \subseteq o.new.says /\ o.adds \subseteq o.new.says
  BY <1>2 DEF IRoster, OrdersSay
<1> HIDE DEF Told, garbled
<1>6. /\ order' \in [Clerks -> Orders] /\ order'[c] = NoOrder
      /\ \A d \in Clerks \ {c} :
           /\ order'[d].of = order[d].of /\ order'[d].at = order[d].at
           /\ order'[d].new = order[d].new /\ order'[d].adds = order[d].adds
           /\ order[d].of = e => order'[d].missed = order[d].missed \cup o.adds
           /\ order[d].of # e => order'[d] = order[d]
  BY <1>1, <1>3, SmallConfigs
<1>7. /\ config' \in [Staff -> Configs]
      /\ \/ config'[e] = o.new
         \/ config'[e] = garbled /\ e \in broken'
      /\ \A f \in Staff \ {e} : config'[f] = config[f]
      /\ broken \subseteq broken' /\ broken' \subseteq Staff
  BY <1>1, <1>2, <1>4
<1>8. /\ ordered' \in [Staff -> Sayings] /\ lost' \in [Staff -> Sayings]
      /\ ordered'[e] = ordered[e] \cup o.adds /\ lost'[e] = (lost[e] \cup o.missed) \ o.adds
      /\ \A f \in Staff \ {e} : ordered'[f] = ordered[f] /\ lost'[f] = lost[f]
  <2>1. (ordered[e] \cup o.adds) \in Sayings /\ ((lost[e] \cup o.missed) \ o.adds) \in Sayings
    BY <1>1, <1>2, ConfigIs
  <2>2. QED
    BY <1>1, <1>2, <2>1
<1>9. WritesTo(c, e)
  BY <1>1 DEF WritesTo
<1> HIDE DEF e, o
<1>10. RosterTypeOK'
  BY <1>1, <1>6, <1>7, <1>8 DEF IRoster, RosterTypeOK, Orders, Configs, Sayings
<1>11. OrdersAreWhole'
  <2>1. ASSUME NEW d \in Clerks, d # c, order[d].of = 0 PROVE order'[d] = NoOrder
    BY <1>2, <1>6, <2>1 DEF IRoster, OrdersAreWhole
  <2>2. ASSUME NEW d \in Clerks, d # c, order[d].of # 0
        PROVE  order'[d].at \in {"read", "truncated"} /\ order'[d].new.form = "whole"
    BY <1>6, <2>2 DEF IRoster, OrdersAreWhole
  <2>3. NoOrder' = NoOrder
    BY DEF NoOrder, Absent, Config
  <2>4. QED
    BY <1>6, <2>1, <2>2, <2>3, SmallConfigs DEF OrdersAreWhole
<1>12. \A f \in Staff, d \in Clerks : WritesTo(d, f)' => WritesTo(d, f) /\ d # c
  BY <1>6, SmallConfigs, RosterTypes DEF WritesTo, IRoster
<1>13. \A f \in Staff \ {e}, d \in Clerks : WritesTo(d, f) => WritesTo(d, f)'
  BY <1>6, <1>9 DEF WritesTo
<1>14. AbsentIsNew'
  BY <1>2, <1>4, <1>7, <1>8, <1>12 DEF IRoster, AbsentIsNew
<1>15. FilesSay'
  <2>1. config'[e].form = "whole" => ordered'[e] \ lost'[e] \subseteq config'[e].says
    BY <1>4, <1>5, <1>7, <1>8
  <2>2. QED
    BY <1>7, <1>8, <2>1 DEF IRoster, FilesSay
<1>16. OrdersSay'
  <2> SUFFICES ASSUME NEW d \in Clerks, order'[d].of # 0
        PROVE  /\ ordered'[order'[d].of] \ (lost'[order'[d].of] \cup order'[d].missed)
                    \subseteq order'[d].new.says
               /\ order'[d].adds \subseteq order'[d].new.says
    BY DEF OrdersSay
  <2>1. d # c /\ order[d].of # 0 /\ order'[d].of = order[d].of /\ order[d].of \in Staff
    BY <1>1, <1>6, SmallConfigs, OrderTypes
  <2>2. /\ ordered[order[d].of] \ (lost[order[d].of] \cup order[d].missed)
             \subseteq order[d].new.says
        /\ order[d].adds \subseteq order[d].new.says
    BY <2>1 DEF IRoster, OrdersSay
  <2>3. CASE order[d].of = e
    <3>1. /\ order'[d].missed = order[d].missed \cup o.adds /\ order'[d].new = order[d].new
          /\ order'[d].adds = order[d].adds
      BY <1>6, <2>1, <2>3
    <3>2. ordered'[e] \ (lost'[e] \cup order'[d].missed)
            \subseteq ordered[e] \ (lost[e] \cup order[d].missed)
      BY <1>8, <3>1
    <3>3. QED
      BY <2>1, <2>2, <2>3, <3>1, <3>2
  <2>4. CASE order[d].of # e
    BY <1>6, <1>8, <2>1, <2>2, <2>4
  <2>5. QED
    BY <2>3, <2>4
<1>17. BrokenHasCause'
  <2>1. config'[e].form \in {"empty", "garbled"} => e \in broken'
    BY <1>2, <1>7
  <2>2. QED
    BY <1>7, <1>13, <2>1 DEF IRoster, BrokenHasCause
<1>18. AssignedLast'
  BY <1>1 DEF IRoster, AssignedLast, AssigneeIsKnown
<1>19. QED
  BY <1>10, <1>11, <1>14, <1>15, <1>16, <1>17, <1>18 DEF IRoster

LEMMA ClerkDiesStep ==
  ASSUME IRoster, NEW c \in Clerks, ClerkDies(c)
  PROVE  IRoster'
<1>1. /\ order \in [Clerks -> Orders]
      /\ order' = [order EXCEPT ![c] = NoOrder]
      /\ UNCHANGED <<config, ordered, lost, roster, unread, assigned>>
      /\ broken \subseteq broken'
      /\ order[c].at = "truncated" => order[c].of \in broken'
  BY RosterTypes DEF IRoster, ClerkDies, loadVars
<1>2. order[c].at = "truncated" => order[c].of \in Staff
  BY <1>1, SmallConfigs DEF IRoster, OrdersAreWhole, Orders
<1>3. broken' \subseteq Staff
  BY <1>2 DEF IRoster, RosterTypeOK, ClerkDies
<1>4. /\ order' \in [Clerks -> Orders] /\ order'[c] = NoOrder
      /\ \A d \in Clerks \ {c} : order'[d] = order[d]
  BY <1>1, SmallConfigs
<1>5. RosterTypeOK'
  BY <1>1, <1>3, <1>4 DEF IRoster, RosterTypeOK, Orders, Configs, Sayings
<1>6. OrdersAreWhole'
  BY <1>4, SmallConfigs DEF IRoster, OrdersAreWhole, NoOrder, Absent, Config
<1>7. \A f \in Staff, d \in Clerks : WritesTo(d, f)' => WritesTo(d, f)
  BY <1>4, SmallConfigs DEF WritesTo
<1>8. \A f \in Staff \ broken', d \in Clerks : WritesTo(d, f) => WritesTo(d, f)'
  BY <1>1, <1>4 DEF WritesTo
<1>9. AbsentIsNew' /\ FilesSay'
  BY <1>1, <1>7 DEF IRoster, AbsentIsNew, FilesSay
<1>10. OrdersSay'
  BY <1>1, <1>4, SmallConfigs DEF IRoster, OrdersSay
<1>11. BrokenHasCause'
  BY <1>1, <1>8 DEF IRoster, BrokenHasCause
<1>12. AssignedLast'
  BY <1>1 DEF IRoster, AssignedLast, AssigneeIsKnown
<1>13. QED
  BY <1>5, <1>6, <1>9, <1>10, <1>11, <1>12 DEF IRoster

\* The commands' part of the invariant does not speak of the session.
LEMMA SessionOnly ==
  ASSUME IRoster, UNCHANGED hrVars,
         roster' \in [Staff -> {"unknown", "active", "archived"}],
         unread' \subseteq Staff, assigned' \in Staff \cup {0, -1},
         AssignedLast'
  PROVE  IRoster'
<1>1. UNCHANGED <<config, order, ordered, lost, broken>>
  BY DEF hrVars
<1>2. RosterTypeOK'
  BY <1>1 DEF IRoster, RosterTypeOK, Orders, Configs, Sayings
<1>3. OrdersAreWhole' /\ AbsentIsNew' /\ FilesSay'
  BY <1>1 DEF IRoster, OrdersAreWhole, AbsentIsNew, FilesSay, WritesTo, NoOrder, Absent, Config
<1>4. OrdersSay' /\ BrokenHasCause'
  BY <1>1 DEF IRoster, OrdersSay, BrokenHasCause, WritesTo
<1>5. QED
  BY <1>2, <1>3, <1>4 DEF IRoster

LEMMA LoadStep ==
  ASSUME IRoster, NEW e \in Staff, Load(e)
  PROVE  IRoster'
<1>1. assigned = 0 /\ assigned' = 0
  BY DEF IRoster, AssignedLast, Load
<1>2. roster' \in [Staff -> {"unknown", "active", "archived"}] /\ unread' \subseteq Staff
  BY DEF IRoster, RosterTypeOK, Load
<1>3. AssignedLast'
  BY <1>1 DEF AssignedLast, AssigneeIsKnown
<1>4. QED
  BY <1>1, <1>2, <1>3, SessionOnly DEF Load

LEMMA FirstActiveIsActive ==
  FirstActive = -1 \/ (FirstActive \in Staff /\ roster[FirstActive] = "active")
<1> DEFINE isFirst(e) == /\ roster[e] = "active"
                         /\ \A f \in Staff : roster[f] = "active" => e <= f
           first == CHOOSE e \in Staff : isFirst(e)
           none == \A e \in Staff : roster[e] # "active"
<1>1. (none => FirstActive = -1) /\ (~none => FirstActive = first)
  BY DEF FirstActive
<1>2. ASSUME ~none PROVE first \in Staff /\ roster[first] = "active"
  <2> DEFINE T == {e \in Staff : roster[e] = "active"}
  <2>1. T \in SUBSET Nat /\ T # {}
    BY <1>2, StaffAssumption
  <2>2. PICK x \in T : \A y \in T : x <= y
    BY <2>1, LeastMember
  <2>3. \E e \in Staff : isFirst(e)
    BY <2>2
  <2>4. QED
    BY <2>3
<1> HIDE DEF first, none
<1>3. QED
  BY <1>1, <1>2

LEMMA AssignStep ==
  ASSUME IRoster, NEW answer \in Staff, AssignEmployee(answer)
  PROVE  IRoster'
<1>1. \/ Choice(answer) = -1
      \/ Choice(answer) \in Staff /\ roster[Choice(answer)] # "unknown"
  BY FirstActiveIsActive DEF Choice
<1>2. /\ assigned' = Choice(answer) /\ unread = {}
      /\ UNCHANGED <<hrVars, roster, unread>>
  BY DEF AssignEmployee
<1>3. AssignedLast'
  BY <1>1, <1>2 DEF AssignedLast, AssigneeIsKnown
<1>4. QED
  BY <1>1, <1>2, <1>3, SessionOnly DEF IRoster, RosterTypeOK

LEMMA RosterStep == IRoster /\ [RosterNext]_rosterVars => IRoster'
<1> SUFFICES ASSUME IRoster, [RosterNext]_rosterVars PROVE IRoster'
  OBVIOUS
<1>1. CASE UNCHANGED rosterVars
  <2>1. UNCHANGED hrVars /\ UNCHANGED <<roster, unread, assigned>>
    BY <1>1 DEF rosterVars, loadVars
  <2>2. AssignedLast'
    BY <2>1 DEF IRoster, AssignedLast, AssigneeIsKnown
  <2>3. QED
    BY <2>1, <2>2, SessionOnly DEF IRoster, RosterTypeOK
<1>2. ASSUME NEW c \in Clerks, ClerkStep(c) PROVE IRoster'
  BY <1>2, FireStep, TrainStep, HireStep, TruncateStep, WriteBackStep, ClerkDiesStep
     DEF ClerkStep
<1>3. QED
  BY <1>1, <1>2, LoadStep, AssignStep DEF RosterNext

\* For any employees, directives and processes, however the hr commands overlap
\* and die: a readable file says every directive and dismissal ordered but those
\* written between the reading and the writing of another command, an
\* unreadable one has a writer or lost one, and a session assigns only employees
\* it has read.
THEOREM OrdersReachTheRoster == RosterSpec => []RosterIsRight
<1>1. IRoster => RosterIsRight
  BY DEF IRoster, FilesSay, BrokenHasCause, WritesTo, AssignedLast, RosterIsRight, OrdersAreKept
<1>2. QED
  BY <1>1, RosterInitInv, RosterStep, PTL DEF RosterSpec

(* ---- Prompts ---- *)

\* An entry of the manifest that ActiveExists accepts.
Sound(entry) ==
  /\ entry \in Entries
  /\ entry.cut \/ IF entry.known = {} THEN entry.active = 0 ELSE entry.active \in entry.known

\* Every candidate holds what the current prompt holds.
Grown == \A c \in Candidates : holds[0] \subseteq holds[c]

IPrompts == PromptsTypeOK /\ ActiveExists /\ Grown /\ BestIsBest

LEMMA NoVersionsSound == Sound(NoVersions)
BY DEF Sound, NoVersions, Entries

LEMMA SoundEntries ==
  ASSUME PromptsTypeOK, ActiveExists
  PROVE  Sound(manifest) /\ \A m \in Authors : Sound(copy[m])
BY DEF PromptsTypeOK, ActiveExists, Sound

\* What the optimizer and the versions leave alone of each other.
LEMMA VersionsOnly ==
  ASSUME IPrompts, UNCHANGED optimizerVars,
         author' \in [Authors -> {"absent", "loaded", "saving"}],
         copy' \in [Authors -> Entries],
         Sound(manifest)', \A m \in Authors : Sound(copy[m])'
  PROVE  IPrompts'
<1>1. PromptsTypeOK'
  BY DEF IPrompts, PromptsTypeOK, optimizerVars, Sound
<1>2. ActiveExists'
  BY DEF ActiveExists, Sound
<1>3. Grown' /\ BestIsBest'
  BY DEF IPrompts, Grown, BestIsBest, ValidatePrompt, Passed, Candidates, optimizerVars
<1>4. QED
  BY <1>1, <1>2, <1>3 DEF IPrompts

LEMMA EditStep ==
  ASSUME IPrompts, NEW m \in Authors, NEW entry, Sound(entry), Edit(m, entry)
  PROVE  IPrompts'
<1>1. author' \in [Authors -> {"absent", "loaded", "saving"}]
  BY DEF IPrompts, PromptsTypeOK, Edit
<1>2. copy' = [copy EXCEPT ![m] = entry] /\ copy \in [Authors -> Entries] /\ entry \in Entries
  BY DEF IPrompts, PromptsTypeOK, Edit, Sound
<1>3. copy' \in [Authors -> Entries] /\ \A n \in Authors : copy'[n] = copy[n] \/ copy'[n] = entry
  BY <1>2
<1>4. \A n \in Authors : Sound(copy[n])'
  BY <1>3, SoundEntries DEF IPrompts, Sound
<1>5. Sound(manifest)'
  BY NoVersionsSound DEF Edit, Sound
<1>6. UNCHANGED optimizerVars
  BY DEF Edit
<1>7. QED
  BY <1>1, <1>3, <1>4, <1>5, <1>6, VersionsOnly

\* A version added to an entry, with any parent, and an active version that is
\* known make an entry that is sound again.
LEMMA SoundCreation ==
  ASSUME NEW entry, Sound(entry), NEW v \in Versions, NEW p \in Versions \cup {0}
  PROVE  Sound([entry EXCEPT !.known = @ \cup {v}, !.parent[v] = p,
                             !.active = IF @ = 0 THEN v ELSE @])
<1> DEFINE new == [entry EXCEPT !.known = @ \cup {v}, !.parent[v] = p,
                                !.active = IF @ = 0 THEN v ELSE @]
<1>1. entry \in Entries
  BY DEF Sound
<1>2. new.known = entry.known \cup {v} /\ new.parent = [entry.parent EXCEPT ![v] = p]
  BY <1>1 DEF Entries
<1>3. new.active = IF entry.active = 0 THEN v ELSE entry.active
  BY <1>1 DEF Entries
<1>4. new \in Entries
  BY <1>1 DEF Entries
<1>5. new.cut = entry.cut
  BY <1>1 DEF Entries
<1>6. new.cut \/ new.active \in new.known
  BY <1>1, <1>2, <1>3, <1>5, VersionsAssumption DEF Sound, Entries
<1> HIDE DEF new
<1>7. Sound(new)
  BY <1>2, <1>4, <1>6 DEF Sound
<1>8. QED
  BY <1>7 DEF new

LEMMA SoundActivation ==
  ASSUME NEW entry, Sound(entry), NEW v \in entry.known
  PROVE  Sound([entry EXCEPT !.active = v])
<1>1. entry \in Entries /\ v \in Versions
  BY DEF Sound, Entries
<1>2. [entry EXCEPT !.active = v] =
        [known |-> entry.known, parent |-> entry.parent, active |-> v, cut |-> entry.cut]
  BY <1>1 DEF Entries
<1>3. QED
  BY <1>1, <1>2 DEF Sound, Entries

LEMMA VersionStepInv ==
  ASSUME IPrompts, NEW m \in Authors, VersionStep(m)
  PROVE  IPrompts'
<1>1. Sound(manifest) /\ \A n \in Authors : Sound(copy[n])
  BY SoundEntries DEF IPrompts
<1>2. author \in [Authors -> {"absent", "loaded", "saving"}] /\ copy \in [Authors -> Entries]
      /\ manifest \in Entries /\ NoVersions \in Entries
  BY NoVersionsSound DEF IPrompts, PromptsTypeOK, Sound
<1>3. CASE LoadManifest(m)
  <2>1. /\ author' \in [Authors -> {"absent", "loaded", "saving"}]
        /\ copy' \in [Authors -> Entries] /\ manifest' = manifest
        /\ \A n \in Authors : copy'[n] = copy[n] \/ copy'[n] = manifest
        /\ UNCHANGED optimizerVars
    BY <1>2, <1>3 DEF LoadManifest
  <2>2. Sound(manifest)' /\ \A n \in Authors : Sound(copy[n])'
    BY <1>1, <2>1 DEF Sound
  <2>3. QED
    BY <2>1, <2>2, VersionsOnly
<1>4. CASE SaveManifest(m)
  <2>1. /\ author' \in [Authors -> {"absent", "loaded", "saving"}]
        /\ copy' = copy /\ manifest' = copy[m]
        /\ UNCHANGED optimizerVars
    BY <1>2, <1>4 DEF SaveManifest
  <2>2. Sound(manifest)' /\ \A n \in Authors : Sound(copy[n])'
    BY <1>1, <2>1 DEF Sound
  <2>3. QED
    BY <1>2, <2>1, <2>2, VersionsOnly
<1>10. CASE WriteBeginning(m)
  <2>1. PICK vs \in SUBSET copy[m].known : \E final \in vs : \E p \in {0, copy[m].parent[final]} :
          manifest' = [copy[m] EXCEPT !.known = vs, !.parent[final] = p, !.cut = TRUE]
    BY <1>10 DEF WriteBeginning
  <2>2. PICK final \in vs : \E p \in {0, copy[m].parent[final]} :
          manifest' = [copy[m] EXCEPT !.known = vs, !.parent[final] = p, !.cut = TRUE]
    BY <2>1
  <2>3. PICK p \in {0, copy[m].parent[final]} :
          manifest' = [copy[m] EXCEPT !.known = vs, !.parent[final] = p, !.cut = TRUE]
    BY <2>2
  <2>4. copy[m] \in Entries /\ vs \subseteq Versions /\ final \in Versions
    BY <1>2 DEF Entries
  <2>5. p \in Versions \cup {0}
    BY <2>4 DEF Entries
  <2>6. manifest' \in Entries /\ manifest'.cut
    BY <2>3, <2>4, <2>5 DEF Entries
  <2>7. UNCHANGED <<copy, author, optimizerVars>>
    BY <1>10 DEF WriteBeginning
  <2>8. Sound(manifest)' /\ \A n \in Authors : Sound(copy[n])'
    BY <1>1, <2>6, <2>7 DEF Sound
  <2>9. QED
    BY <1>2, <2>7, <2>8, VersionsOnly
<1>5. CASE AuthorEnds(m)
  <2>1. /\ author' \in [Authors -> {"absent", "loaded", "saving"}]
        /\ copy' \in [Authors -> Entries] /\ manifest' = manifest
        /\ \A n \in Authors : copy'[n] = copy[n] \/ copy'[n] = NoVersions
        /\ UNCHANGED optimizerVars
    BY <1>2, <1>5 DEF AuthorEnds
  <2>2. Sound(manifest)' /\ \A n \in Authors : Sound(copy[n])'
    BY <1>1, <2>1, NoVersionsSound DEF Sound
  <2>3. QED
    BY <2>1, <2>2, VersionsOnly
<1>6. CASE RollBack(m)
  <2>1. Sound([copy[m] EXCEPT !.active = copy[m].parent[copy[m].active]])
    BY <1>1, <1>6, SoundActivation DEF RollBack
  <2>2. Edit(m, [copy[m] EXCEPT !.active = copy[m].parent[copy[m].active]])
    BY <1>2, <1>6 DEF RollBack, Entries
  <2>3. QED
    BY <2>1, <2>2, EditStep
<1>7. ASSUME NEW v \in Versions, SetActive(m, v) PROVE IPrompts'
  BY <1>1, <1>7, SoundActivation, EditStep DEF SetActive
<1>8. ASSUME NEW v \in Versions, NEW p \in Versions \cup {0}, CreateVersion(m, v, p)
      PROVE  IPrompts'
  <2>1. Sound([copy[m] EXCEPT !.known = @ \cup {v}, !.parent[v] = p,
                              !.active = IF @ = 0 THEN v ELSE @])
    BY <1>1, SoundCreation
  <2>2. QED
    BY <1>8, <2>1, EditStep DEF CreateVersion
<1>9. QED
  BY <1>3, <1>4, <1>5, <1>6, <1>7, <1>8, <1>10 DEF VersionStep

LEMMA PassedTypes ==
  ASSUME NEW c
  PROVE  Passed(c) \in Nat
<1> DEFINE ts == {t \in Tests : /\ tests[t].expects \subseteq holds[c]
                               /\ tests[t].forbids \intersect holds[c] = {}}
<1>1. IsFiniteSet(ts)
  BY CandidatesAssumption, FS_Subset
<1>2. Cardinality(ts) \in Nat
  BY <1>1, FS_CardinalityType
<1> HIDE DEF ts
<1>3. QED
  BY <1>2 DEF Passed, ts

LEMMA TryCandidateStep ==
  ASSUME IPrompts, TryCandidate
  PROVE  IPrompts'
<1>1. /\ tried \in 0..MaxCandidates /\ tried' = tried + 1 /\ tried' \in 0..MaxCandidates
      /\ best \in 0..tried
      /\ UNCHANGED <<manifest, copy, author, holds, rules, tests>>
      /\ best' = IF Better(tried + 1) THEN tried + 1 ELSE best
  BY CandidatesAssumption DEF IPrompts, PromptsTypeOK, TryCandidate, versionVars
<1>2. /\ \A c : Passed(c) \in Nat /\ Passed(c)' = Passed(c)
      /\ \A c : ValidatePrompt(c)' = ValidatePrompt(c)
  <2>1. \A c : Passed(c)' = Passed(c) /\ ValidatePrompt(c)' = ValidatePrompt(c)
    BY <1>1 DEF Passed, ValidatePrompt
  <2>2. QED
    BY <2>1, PassedTypes
<1>3. best' \in 0..tried'
  BY <1>1, CandidatesAssumption
<1>4. PromptsTypeOK'
  BY <1>1, <1>3 DEF IPrompts, PromptsTypeOK, Entries, Candidates
<1>5. ActiveExists' /\ Grown'
  BY <1>1 DEF IPrompts, ActiveExists, Grown
<1>6. \A c \in Candidates : c \in Nat /\ c > 0
  BY CandidatesAssumption DEF Candidates
<1>7. /\ best # 0 => ValidatePrompt(best) /\ Passed(best) > Passed(0)
      /\ \A c \in Candidates : c <= tried /\ ValidatePrompt(c) =>
           /\ Passed(c) <= Passed(best)
           /\ c < best => Passed(c) < Passed(best)
      /\ rules.blocked \intersect holds[0] # {} => best = 0
  BY DEF IPrompts, BestIsBest
<1>8. \A c \in Candidates : c <= tried + 1 => c <= tried \/ c = tried + 1
  BY <1>1, <1>6
<1>9. CASE Better(tried + 1)
  <2> DEFINE b == tried + 1
  <2>1. best' = b /\ ValidatePrompt(b) /\ Passed(b) > Passed(best) /\ b # 0
        /\ b \in 1..MaxCandidates
    BY <1>1, <1>9, CandidatesAssumption DEF Better
  <2>2. Passed(best) >= Passed(0)
    BY <1>2, <1>7
  <2> HIDE DEF b
  <2>3. Passed(b) > Passed(0)
    BY <1>2, <2>1, <2>2
  <2>4. \A c \in Candidates : c <= tried /\ ValidatePrompt(c) => Passed(c) < Passed(b)
    BY <1>2, <1>7, <2>1
  <2>5. \A c \in Candidates : c <= tried + 1 /\ ValidatePrompt(c) =>
          /\ Passed(c) <= Passed(b)
          /\ c < b => Passed(c) < Passed(b)
    BY <1>2, <1>6, <1>8, <2>4 DEF b
  <2>6. rules.blocked \intersect holds[0] = {}
    <3>1. holds[0] \subseteq holds[b]
      BY <2>1 DEF IPrompts, Grown, Candidates
    <3>2. QED
      BY <2>1, <3>1 DEF ValidatePrompt
  <2>7. BestIsBest'
    BY <1>1, <1>2, <2>1, <2>3, <2>5, <2>6 DEF BestIsBest, Candidates
  <2>8. QED
    BY <1>4, <1>5, <2>7 DEF IPrompts
<1>10. CASE ~Better(tried + 1)
  <2>1. best' = best /\ (ValidatePrompt(tried + 1) => Passed(tried + 1) <= Passed(best))
    BY <1>1, <1>2, <1>10 DEF Better
  <2>2. \A c \in Candidates : c <= tried + 1 => c <= tried \/ (c = tried + 1 /\ ~(c < best))
    BY <1>1, <1>6, <1>8
  <2>3. \A c \in Candidates : c <= tried + 1 /\ ValidatePrompt(c) =>
          /\ Passed(c) <= Passed(best)
          /\ c < best => Passed(c) < Passed(best)
    BY <1>7, <2>1, <2>2
  <2>4. BestIsBest'
    BY <1>1, <1>2, <1>7, <2>1, <2>3 DEF BestIsBest, Candidates
  <2>5. QED
    BY <1>4, <1>5, <2>4 DEF IPrompts
<1>11. QED
  BY <1>9, <1>10

LEMMA PromptsInitInv == PromptsInit => IPrompts
<1> SUFFICES ASSUME PromptsInit PROVE IPrompts
  OBVIOUS
<1>1. NoVersions \in Entries
  BY NoVersionsSound DEF Sound
<1>2. PromptsTypeOK /\ Grown
  <2>1. PICK now \in SUBSET Phrases :
          holds \in [0..MaxCandidates -> {ps \in SUBSET Phrases : now \subseteq ps}]
            /\ holds[0] = now
    BY DEF PromptsInit
  <2>2. holds \in [0..MaxCandidates -> SUBSET Phrases]
    BY <2>1
  <2>3. Grown
    BY <2>1, CandidatesAssumption DEF Grown, Candidates
  <2>4. QED
    BY <1>1, <2>2, <2>3, CandidatesAssumption DEF PromptsInit, PromptsTypeOK
<1>3. ActiveExists
  BY DEF PromptsInit, ActiveExists, NoVersions
<1>4. \A c \in Candidates : c > 0
  BY CandidatesAssumption DEF Candidates
<1>5. BestIsBest
  BY <1>4, CandidatesAssumption DEF PromptsInit, BestIsBest, Candidates
<1>6. QED
  BY <1>2, <1>3, <1>5 DEF IPrompts

LEMMA PromptsStep == IPrompts /\ [PromptsNext]_promptVars => IPrompts'
<1> SUFFICES ASSUME IPrompts, [PromptsNext]_promptVars PROVE IPrompts'
  OBVIOUS
<1>1. CASE UNCHANGED promptVars
  <2>1. UNCHANGED <<manifest, copy, author>> /\ UNCHANGED optimizerVars
    BY <1>1 DEF promptVars, versionVars
  <2>2. Sound(manifest)' /\ \A m \in Authors : Sound(copy[m])'
    BY <2>1, SoundEntries DEF IPrompts, Sound
  <2>3. QED
    BY <2>1, <2>2, VersionsOnly DEF IPrompts, PromptsTypeOK
<1>2. QED
  BY <1>1, VersionStepInv, TryCandidateStep DEF PromptsNext

\* For any managers, versions and parents: whoever overwrites whose manifest,
\* a prompt with versions has an active one among them.
THEOREM ActiveIsThere == PromptsSpec => []ActiveExists
<1>1. IPrompts => ActiveExists
  BY DEF IPrompts
<1>2. QED
  BY <1>1, PromptsInitInv, PromptsStep, PTL DEF PromptsSpec

\* For any candidates, tests and scores: the prompt that optimize has chosen so
\* far is a best one that the constitution allows, the first of its score.
THEOREM OptimizerChoosesBest == PromptsSpec => []BestIsBest
<1>1. IPrompts => BestIsBest
  BY DEF IPrompts
<1>2. QED
  BY <1>1, PromptsInitInv, PromptsStep, PTL DEF PromptsSpec

(* ---- Config ---- *)

\* What layers say of a section, and what is merged of it.
Words == {d \in [kind : {"none", "scalar", "table"}, value : Layers \cup {0},
                  keys : [Keys -> Layers \cup {0}]] :
            /\ d.kind # "table" => d.keys = Nowhere
            /\ d.kind # "scalar" => d.value = 0}

ConfigWords ==
  /\ merged \in [Names -> Words] /\ env \in [Names -> Data(Variables)]
  /\ said \in [Layers -> [Names -> Words]]

\* Layers that are still to come have said nothing.
NotYetSaid ==
  loading = "reading" => \A n \in Layers : n >= layer => \A s \in Names : said[n][s] = Unsaid

\* The layers that give a key a value which no scalar above made forgotten.
AboveAll(s) == {n \in Layers : \A m \in Layers : said[m][s].kind = "scalar" => m < n}
Mentions(s, k) == {n \in AboveAll(s) : said[n][s].keys[k] # 0}

\* At any point the merged value is the last one of the layers so far.
LastSoFar ==
  \A s \in Names, k \in Keys :
    /\ merged[s].keys[k] \in {0} \cup Mentions(s, k)
    /\ \A n \in Mentions(s, k) : n <= merged[s].keys[k]

\* Table or scalar is what the last layer that said anything had, and a scalar
\* is its.
IsLast(n, s) ==
  /\ said[n][s].kind = merged[s].kind /\ (merged[s].kind = "scalar" => merged[s].value = n)
  /\ \A m \in Layers : said[m][s].kind # "none" => m <= n
LastKind ==
  \A s \in Names : /\ merged[s].kind = "none" => \A n \in Layers : said[n][s].kind = "none"
                   /\ merged[s].kind # "none" => \E n \in Layers : IsLast(n, s)

\* The parsed environment holds a scalar where a variable has the bare name, and
\* otherwise the keys whose variables have come up.
EnvTells ==
  /\ loading = "reading" => \A s \in Names :
       /\ env[s].kind = "scalar" <=> <<s, "itself">> \in environ
       /\ env[s].kind = "none" => \A k \in Keys : <<s, k>> \notin environ
       /\ env[s].kind # "scalar" => \A k \in Keys : env[s].keys[k] # 0 <=> <<s, k>> \in environ
  /\ loading = "loaded" => \A s \in Names :
       /\ said[Variables][s].kind = "scalar" <=> <<s, "itself">> \in environ
       /\ said[Variables][s].kind # "scalar" =>
            \A k \in Keys : said[Variables][s].keys[k] # 0 <=> <<s, k>> \in environ

\* What loads has tables where tables, and scalars where scalars, are expected.
LoadedFits ==
  loading = "loaded" => /\ \A s \in Sections : merged[s].kind # "scalar"
                        /\ \A s \in Settings : merged[s].kind # "table"

IConfig ==
  /\ ConfigTypeOK /\ ConfigWords /\ NotYetSaid /\ LastSoFar
  /\ LastKind /\ EnvTells /\ LoadedFits

LEMMA DataWords ==
  ASSUME NEW n \in Layers, NEW d \in Data(n)
  PROVE  /\ d \in Words /\ \A k \in Keys : d.keys[k] \in {0, n}
         /\ d.kind = "scalar" => d.value = n
<1>1. Nowhere \in [Keys -> Layers \cup {0}] /\ \A k \in Keys : Nowhere[k] = 0
  BY DEF Nowhere
<1>2. CASE d \in {Unsaid, Scalar(n)}
  BY <1>1, <1>2 DEF Unsaid, Scalar, Words
<1>3. CASE \E ks \in SUBSET Keys : d = Table(ks, n)
  <2>1. PICK ks \in SUBSET Keys : d = Table(ks, n)
    BY <1>3
  <2>2. /\ d.kind = "table" /\ d.keys = [k \in Keys |-> IF k \in ks THEN n ELSE 0]
        /\ d = [kind |-> "table", value |-> 0, keys |-> d.keys]
    BY <2>1 DEF Table
  <2>3. d.keys \in [Keys -> Layers \cup {0}] /\ \A k \in Keys : d.keys[k] \in {0, n}
    BY <2>2
  <2>4. QED
    BY <2>2, <2>3 DEF Words
<1>4. QED
  BY <1>2, <1>3 DEF Data

LEMMA MergedWords ==
  ASSUME NEW base \in Words, NEW over \in Words
  PROVE  /\ MergeSection(base, over) \in Words
         /\ over.kind = "none" => MergeSection(base, over) = base
         /\ over.kind # "none" => MergeSection(base, over).kind = over.kind
         /\ over.kind = "scalar" => MergeSection(base, over) = over
         /\ over.kind = "table" => \A k \in Keys :
              MergeSection(base, over).keys[k] =
                 IF over.keys[k] # 0 THEN over.keys[k] ELSE base.keys[k]
<1> DEFINE ks == [k \in Keys |-> IF over.keys[k] # 0 THEN over.keys[k] ELSE base.keys[k]]
<1>1. ks \in [Keys -> Layers \cup {0}]
  BY DEF Words
<1>2. CASE base.kind = "table" /\ over.kind = "table"
  <2>1. MergeSection(base, over) = [base EXCEPT !.keys = ks]
    BY <1>2 DEF MergeSection
  <2>2. MergeSection(base, over) = [kind |-> "table", value |-> 0, keys |-> ks]
    BY <1>2, <2>1 DEF Words
  <2>3. QED
    BY <1>1, <1>2, <2>2 DEF Words
<1>3. CASE over.kind = "none"
  BY <1>3 DEF MergeSection
<1>4. CASE over.kind # "none" /\ ~(base.kind = "table" /\ over.kind = "table")
  <2>1. MergeSection(base, over) = over
    BY <1>4 DEF MergeSection
  <2>2. over.kind = "table" => \A k \in Keys : base.keys[k] = 0
    BY <1>4 DEF Words, Nowhere
  <2>3. QED
    BY <2>1, <2>2, <1>4 DEF Words
<1>5. QED
  BY <1>2, <1>3, <1>4

LEMMA MergeStep ==
  ASSUME IConfig, loading = "reading",
         NEW data \in [Names -> Data(layer)], Merge(data)
  PROVE  /\ merged' \in [Names -> Words]
         /\ said' \in [Layers -> [Names -> Words]]
         /\ \A n \in Layers, s \in Names : said'[n][s] \in Data(n)
         /\ \A n \in Layers : n > layer => \A s \in Names : said'[n][s] = Unsaid
         /\ LastSoFar' /\ LastKind'
<1>1. /\ layer \in Layers /\ \A s \in Names : data[s] \in Data(layer)
      /\ merged \in [Names -> Words] /\ said \in [Layers -> [Names -> Words]]
      /\ \A n \in Layers, s \in Names : said[n][s] \in Data(n)
      /\ \A n \in Layers : n >= layer => \A s \in Names : said[n][s] = Unsaid
  BY DEF IConfig, ConfigTypeOK, ConfigWords, NotYetSaid
<1>2. /\ \A s \in Names : data[s] \in Words /\ \A k \in Keys : data[s].keys[k] \in {0, layer}
      /\ data \in [Names -> Words]
  BY <1>1, DataWords
<1>3. /\ merged' = [s \in Names |-> MergeSection(merged[s], data[s])]
      /\ \A s \in Names : merged'[s] = MergeSection(merged[s], data[s])
      /\ said' = [said EXCEPT ![layer] = data]
  BY DEF Merge
<1>4. merged' \in [Names -> Words]
  <2>1. \A s \in Names : MergeSection(merged[s], data[s]) \in Words
    BY <1>1, <1>2, MergedWords
  <2>2. QED
    BY <1>3, <2>1
<1>5. /\ said' \in [Layers -> [Names -> Words]] /\ said'[layer] = data
      /\ \A n \in Layers : n # layer => said'[n] = said[n]
  BY <1>1, <1>2, <1>3
<1>6. /\ \A n \in Layers, s \in Names : said'[n][s] \in Data(n)
      /\ \A n \in Layers : n > layer => \A s \in Names : said'[n][s] = Unsaid
  BY <1>1, <1>5 DEF Layers
<1>7. \A n \in Layers : n >= layer => \A s \in Names :
          said[n][s].kind = "none" /\ \A k \in Keys : said[n][s].keys[k] = 0
  BY <1>1 DEF Unsaid, Nowhere
<1>8. ASSUME NEW s \in Names, NEW k \in Keys
      PROVE  /\ merged'[s].keys[k] \in {0} \cup Mentions(s, k)'
             /\ \A n \in Mentions(s, k)' : n <= merged'[s].keys[k]
  <2>1. /\ merged[s].keys[k] \in {0} \cup Mentions(s, k)
        /\ \A n \in Mentions(s, k) : n <= merged[s].keys[k]
    BY DEF IConfig, LastSoFar
  <2>2. Mentions(s, k)' = {n \in AboveAll(s)' : said'[n][s].keys[k] # 0}
    BY DEF Mentions
  <2>3. CASE data[s].kind = "scalar"
    <3>1. \A n \in AboveAll(s)' : n \in Layers /\ n > layer
      BY <1>1, <1>5, <2>3 DEF AboveAll
    <3>2. Mentions(s, k)' = {}
      BY <1>1, <1>5, <1>7, <2>2, <3>1 DEF Layers
    <3>3. merged'[s] \in Words /\ merged'[s].kind = "scalar"
      BY <1>1, <1>2, <1>3, <1>4, <2>3, MergedWords
    <3>4. merged'[s].keys[k] = 0
      BY <3>3 DEF Words, Nowhere
    <3>5. QED
      BY <3>2, <3>4
  <2>4. CASE data[s].kind # "scalar"
    <3>1. AboveAll(s)' = AboveAll(s) /\ layer \in AboveAll(s)
      <4>1. \A m \in Layers : said'[m][s].kind = "scalar" <=> said[m][s].kind = "scalar"
        BY <1>1, <1>5, <1>7, <2>4 DEF Layers
      <4>2. \A m \in Layers : said[m][s].kind = "scalar" => m < layer
        BY <1>1, <1>7 DEF Layers
      <4>3. QED
        BY <1>1, <4>1, <4>2 DEF AboveAll
    <3>2. \A n \in AboveAll(s) : n \in Layers
      BY DEF AboveAll
    <3>3. CASE data[s].keys[k] = 0
      <4>1. Mentions(s, k)' = Mentions(s, k)
        <5>1. said'[layer][s].keys[k] = 0 /\ said[layer][s].keys[k] = 0
          BY <1>1, <1>5, <1>7, <3>3 DEF Layers
        <5>2. \A n \in AboveAll(s) : said'[n][s].keys[k] = said[n][s].keys[k]
          BY <1>5, <3>2, <5>1
        <5>3. QED
          BY <2>2, <3>1, <5>2 DEF Mentions
      <4>2. merged'[s].keys[k] = merged[s].keys[k]
        <5>1. data[s] \in Words /\ merged[s] \in Words /\ data[s].kind \in {"none", "table"}
          BY <1>1, <1>2, <2>4 DEF Words
        <5>2. QED
          BY <1>3, <3>3, <5>1, MergedWords
      <4>3. QED
        BY <2>1, <4>1, <4>2
    <3>4. CASE data[s].keys[k] # 0
      <4>1. data[s].kind = "table" /\ data[s].keys[k] = layer
        BY <1>2, <3>4 DEF Words, Nowhere
      <4>2. merged'[s].keys[k] = layer
        BY <1>1, <1>2, <1>3, <4>1, <3>4, MergedWords
      <4>3. layer \in Mentions(s, k)'
        BY <1>5, <2>2, <3>1, <3>4
      <4>4. \A n \in Mentions(s, k)' : n <= layer
        <5>1. ASSUME NEW n \in Layers, n > layer PROVE said'[n][s].keys[k] = 0
          BY <1>1, <1>5, <1>7, <5>1 DEF Layers
        <5>2. \A n \in Layers : n > layer \/ n <= layer
          BY <1>1 DEF Layers
        <5>3. QED
          BY <2>2, <3>1, <3>2, <5>1, <5>2
      <4>5. QED
        BY <4>2, <4>3, <4>4
    <3>5. QED
      BY <3>3, <3>4
  <2>5. QED
    BY <2>3, <2>4
<1>9. LastSoFar'
  BY <1>8 DEF LastSoFar
<1>10. ASSUME NEW s \in Names
       PROVE  /\ merged'[s].kind = "none" => \A n \in Layers : said'[n][s].kind = "none"
              /\ merged'[s].kind # "none" => \E n \in Layers : IsLast(n, s)'
  <2>1. /\ merged[s] \in Words /\ data[s] \in Words /\ data[s] \in Data(layer)
        /\ data[s].kind \in {"none", "scalar", "table"}
    BY <1>1, <1>2 DEF Words
  <2>2. \A n \in Layers : n > layer => said'[n][s].kind = "none"
    BY <1>6 DEF Unsaid
  <2>3. \A n \in Layers : n > layer \/ n <= layer
    BY <1>1 DEF Layers
  <2>4. CASE data[s].kind = "none"
    <3>1. merged'[s] = merged[s]
      BY <1>3, <2>1, <2>4, MergedWords
    <3>2. \A n \in Layers : said'[n][s].kind = said[n][s].kind
      BY <1>1, <1>5, <1>7, <2>4 DEF Layers
    <3>3. \A n \in Layers : IsLast(n, s) => IsLast(n, s)'
      BY <3>1, <3>2 DEF IsLast
    <3>4. QED
      BY <3>1, <3>2, <3>3 DEF IConfig, LastKind
  <2>5. CASE data[s].kind # "none"
    <3> DEFINE base == merged[s]
               over == data[s]
    <3>0. /\ base \in Words /\ over \in Words /\ over.kind # "none"
          /\ merged'[s] = MergeSection(base, over) /\ (over.kind = "scalar" => over.value = layer)
      BY <1>1, <1>3, <2>1, <2>5, DataWords
    <3> HIDE DEF base, over
    <3>1a. MergeSection(base, over).kind = over.kind
      BY <3>0, MergedWords
    <3>1b. over.kind = "scalar" => MergeSection(base, over) = over
      BY <3>0, MergedWords
    <3> USE DEF over
    <3>1. merged'[s].kind = data[s].kind
      BY <3>0, <3>1a
    <3>2. merged'[s].kind = "scalar" => merged'[s].value = layer
      BY <3>0, <3>1, <3>1b
    <3>3. ASSUME NEW n \in Layers, n = layer PROVE IsLast(n, s)'
      BY <1>1, <1>5, <2>2, <2>3, <3>1, <3>2, <3>3 DEF IsLast
    <3>4. QED
      BY <1>1, <2>5, <3>1, <3>3
  <2>6. QED
    BY <2>4, <2>5
<1>11. LastKind'
  BY <1>10 DEF LastKind
<1>12. QED
  BY <1>4, <1>5, <1>6, <1>9, <1>11

LEMMA WordsAreTyped ==
  ASSUME NEW d \in Words
  PROVE  /\ d.kind \in {"none", "scalar", "table"}
         /\ d.value \in Layers \cup {0}
         /\ d.keys \in [Keys -> Layers \cup {0}]
         /\ d.kind # "table" => d.keys = Nowhere
         /\ d.kind # "scalar" => d.value = 0
BY DEF Words

\* Steps of the environment leave what is merged alone.
LEMMA EnvironmentKeeps ==
  ASSUME IConfig, UNCHANGED <<merged, layer, said>>,
         env' \in [Names -> Data(Variables)],
         environ' \subseteq Names \X (Keys \cup {"itself"}),
         loading' \in {"reading", "raised"}, loading = "reading", EnvTells'
  PROVE  IConfig'
<1>1. Variables \in Layers
  BY DEF Variables, Layers
<1>2. \A s \in Names : merged[s] \in Words /\ env'[s] \in Words
  BY <1>1, DataWords DEF IConfig, ConfigWords
<1>3. ConfigTypeOK'
  BY <1>2, WordsAreTyped DEF IConfig, ConfigTypeOK
<1>4. ConfigWords'
  BY DEF IConfig, ConfigWords
<1>5. NotYetSaid'
  BY DEF IConfig, NotYetSaid
<1>6. LastSoFar'
  BY DEF IConfig, LastSoFar, Mentions, AboveAll
<1>7. LastKind' /\ LoadedFits'
  BY DEF IConfig, LastKind, IsLast, LoadedFits
<1>8. QED
  BY <1>3, <1>4, <1>5, <1>6, <1>7 DEF IConfig

LEMMA ReadNameStep ==
  ASSUME IConfig, NEW s \in Names, ReadName(s)
  PROVE  IConfig'
<1>1. /\ loading = "reading" /\ UNCHANGED <<merged, layer, loading, said>>
      /\ env' = [env EXCEPT ![s] = Scalar(Variables)]
      /\ environ' = environ \cup {<<s, "itself">>}
      /\ env \in [Names -> Data(Variables)] /\ "itself" \notin Keys
  BY ItselfIsNoKey DEF ReadName, IConfig, ConfigWords
<1>2. Scalar(Variables) \in Data(Variables) /\ Scalar(Variables).kind = "scalar"
  BY DEF Data, Scalar
<1>3. env' \in [Names -> Data(Variables)]
  BY <1>1, <1>2
<1>4. environ' \subseteq Names \X (Keys \cup {"itself"})
  BY <1>1 DEF IConfig, ConfigTypeOK
<1>5. EnvTells'
  BY <1>1, <1>2 DEF IConfig, EnvTells
<1>6. QED
  BY <1>1, <1>3, <1>4, <1>5, EnvironmentKeeps

LEMMA ReadKeyStep ==
  ASSUME IConfig, NEW s \in Names, NEW k \in Keys, ReadKey(s, k)
  PROVE  IConfig'
<1>0. /\ loading = "reading" /\ UNCHANGED <<merged, layer, said>>
      /\ environ' = environ \cup {<<s, k>>} /\ environ' \subseteq Names \X (Keys \cup {"itself"})
      /\ "itself" \notin Keys
  BY ItselfIsNoKey DEF ReadKey, IConfig, ConfigTypeOK
<1>1. CASE env[s].kind = "scalar"
  <2>1. loading' = "raised" /\ env' = env /\ EnvTells'
    BY <1>1 DEF ReadKey, EnvTells
  <2>2. QED
    BY <1>0, <2>1, EnvironmentKeeps DEF IConfig, ConfigWords
<1>2. CASE env[s].kind # "scalar"
  <2>1. env \in [Names -> Data(Variables)] /\ Variables \in Layers
    BY DEF IConfig, ConfigWords, Variables, Layers
  <2>2. env' = [env EXCEPT ![s].kind = "table", ![s].keys[k] = Variables]
    BY <1>2 DEF ReadKey
  <2>3. PICK ks \in SUBSET Keys :
          env[s].keys = [j \in Keys |-> IF j \in ks THEN Variables ELSE 0]
    <3>1. env[s] \in {Unsaid, Scalar(Variables)} \/ \E ks \in SUBSET Keys : env[s] = Table(ks, Variables)
      BY <2>1 DEF Data
    <3>2. CASE env[s] \in {Unsaid, Scalar(Variables)}
      <4>1. env[s].keys = [j \in Keys |-> IF j \in {} THEN Variables ELSE 0]
        BY <3>2 DEF Unsaid, Scalar, Nowhere
      <4>2. {} \in SUBSET Keys
        OBVIOUS
      <4>3. QED
        BY <4>1, <4>2, Zenon
    <3>3. CASE \E ks \in SUBSET Keys : env[s] = Table(ks, Variables)
      BY <3>3 DEF Table
    <3>4. QED
      BY <3>1, <3>2, <3>3
  <2>4. env[s] \in Words
    BY <2>1, DataWords
  <2>5. /\ env'[s].kind = "table"
        /\ env'[s].keys = [env[s].keys EXCEPT ![k] = Variables]
        /\ env'[s] \in [kind : {"none", "scalar", "table"}, value : Layers \cup {0},
                      keys : [Keys -> Layers \cup {0}]]
        /\ env'[s].value = 0
    BY <1>2, <2>1, <2>2, <2>4 DEF Words
  <2>6. env'[s].keys = [j \in Keys |-> IF j \in ks \cup {k} THEN Variables ELSE 0]
    BY <2>3, <2>5
  <2>7. env'[s] = Table(ks \cup {k}, Variables)
    BY <2>5, <2>6 DEF Table
  <2>8. env'[s] \in Data(Variables)
    BY <2>7 DEF Data
  <2>9. env' \in [Names -> Data(Variables)]
    BY <2>1, <2>2, <2>8
  <2>10. EnvTells'
    <3>1. /\ loading' = "reading" /\ \A t \in Names \ {s} : env'[t] = env[t]
      BY <1>0, <1>2, <2>1, <2>2 DEF ReadKey
    <3>2. /\ env'[s].kind = "table" /\ env'[s].keys[k] # 0
          /\ \A j \in Keys \ {k} : env'[s].keys[j] = env[s].keys[j]
      BY <2>4, <2>5 DEF Words, Variables
    <3>3. \A t \in Names :
            /\ env[t].kind = "scalar" <=> <<t, "itself">> \in environ
            /\ env[t].kind = "none" => \A j \in Keys : <<t, j>> \notin environ
            /\ env[t].kind # "scalar" => \A j \in Keys : env[t].keys[j] # 0 <=> <<t, j>> \in environ
      BY <1>0 DEF IConfig, EnvTells
    <3>4. QED
      BY <1>0, <1>2, <3>1, <3>2, <3>3 DEF EnvTells
  <2>11. QED
    BY <1>0, <1>2, <2>9, <2>10, EnvironmentKeeps DEF ReadKey
<1>3. QED
  BY <1>1, <1>2

LEMMA LoadYamlStep ==
  ASSUME IConfig, LoadYaml
  PROVE  IConfig'
<1>1. PICK data \in [Names -> Data(layer)] : Merge(data)
  BY DEF LoadYaml
<1>2. /\ loading = "reading" /\ layer \in Files /\ layer' = layer + 1
      /\ UNCHANGED <<env, environ, loading>>
  BY DEF LoadYaml
<1>3. /\ merged' \in [Names -> Words]
      /\ said' \in [Layers -> [Names -> Words]]
      /\ \A n \in Layers, s \in Names : said'[n][s] \in Data(n)
      /\ \A n \in Layers : n > layer => \A s \in Names : said'[n][s] = Unsaid
      /\ LastSoFar' /\ LastKind'
  BY <1>1, <1>2, MergeStep
<1>4. Variables \in Layers
  BY DEF Variables, Layers
<1>5. \A s \in Names : merged'[s] \in Words /\ env'[s] \in Words
  BY <1>2, <1>3, <1>4, DataWords DEF IConfig, ConfigWords
<1>6. layer' \in Layers /\ \A n \in Layers : n >= layer' => n > layer
  BY <1>2 DEF Files, Layers
<1>7. ConfigTypeOK'
  BY <1>2, <1>3, <1>5, <1>6, WordsAreTyped DEF IConfig, ConfigTypeOK
<1>8. ConfigWords' /\ NotYetSaid'
  BY <1>2, <1>3, <1>6 DEF IConfig, ConfigWords, NotYetSaid
<1>9. EnvTells' /\ LoadedFits'
  BY <1>2 DEF IConfig, EnvTells, LoadedFits
<1>10. QED
  BY <1>3, <1>7, <1>8, <1>9 DEF IConfig

LEMMA LoadRaisesStep == IConfig /\ LoadRaises => IConfig'
<1> SUFFICES ASSUME IConfig, LoadRaises PROVE IConfig'
  OBVIOUS
<1>1. loading' = "raised" /\ UNCHANGED <<merged, layer, env, environ, said>>
  BY DEF LoadRaises
<1>2. ConfigTypeOK' /\ ConfigWords' /\ NotYetSaid'
  BY <1>1 DEF IConfig, ConfigTypeOK, ConfigWords, NotYetSaid
<1>3. LastSoFar' /\ LastKind'
  BY <1>1 DEF IConfig, LastSoFar, LastKind, IsLast, Mentions, AboveAll
<1>4. EnvTells' /\ LoadedFits'
  BY <1>1 DEF EnvTells, LoadedFits
<1>5. QED
  BY <1>2, <1>3, <1>4 DEF IConfig

LEMMA MergeEnvironmentStep ==
  ASSUME IConfig, MergeEnvironment
  PROVE  IConfig'
<1>1. /\ loading = "reading" /\ layer = Variables /\ env \in [Names -> Data(layer)]
      /\ Merge(env) /\ loading' \in {"loaded", "raised"}
      /\ UNCHANGED <<layer, env, environ>>
  BY DEF MergeEnvironment, IConfig, ConfigWords
<1>2. /\ merged' \in [Names -> Words]
      /\ said' \in [Layers -> [Names -> Words]]
      /\ \A n \in Layers, s \in Names : said'[n][s] \in Data(n)
      /\ LastSoFar' /\ LastKind'
  BY <1>1, MergeStep
<1>3. Variables \in Layers
  BY DEF Variables, Layers
<1>4. \A s \in Names : merged'[s] \in Words /\ env'[s] \in Words
  BY <1>1, <1>2, <1>3, DataWords DEF IConfig, ConfigWords
<1>5. ConfigTypeOK'
  BY <1>1, <1>2, <1>4, WordsAreTyped DEF IConfig, ConfigTypeOK
<1>6. ConfigWords' /\ NotYetSaid'
  BY <1>1, <1>2 DEF IConfig, ConfigWords, NotYetSaid
<1>7. LoadedFits'
  BY <1>1 DEF MergeEnvironment, LoadedFits
<1>8. EnvTells'
  <2>1. said'[Variables] = env
    BY <1>1, <1>3 DEF Merge, IConfig, ConfigWords
  <2>2. QED
    BY <1>1, <2>1 DEF IConfig, EnvTells
<1>9. QED
  BY <1>2, <1>5, <1>6, <1>7, <1>8 DEF IConfig

LEMMA ConfigInitInv == ConfigInit => IConfig
<1> SUFFICES ASSUME ConfigInit PROVE IConfig
  OBVIOUS
<1>1. Unsaid \in Words /\ \A n \in Layers : Unsaid \in Data(n)
  BY DEF Unsaid, Words, Nowhere, Data
<1>2. /\ \A s \in Names : merged[s] = Unsaid /\ env[s] = Unsaid
      /\ \A n \in Layers, s \in Names : said[n][s] = Unsaid
  BY DEF ConfigInit
<1>3. ConfigTypeOK
  <2>1. \A s \in Names : merged[s] \in Words /\ env[s] \in Words
    BY <1>1, <1>2
  <2>2. layer \in Layers
    BY DEF ConfigInit, Layers
  <2>3. QED
    BY <1>1, <1>2, <2>1, <2>2, WordsAreTyped DEF ConfigInit, ConfigTypeOK
<1>4. ConfigWords
  BY <1>1 DEF ConfigInit, ConfigWords, Variables, Layers
<1>5. NotYetSaid
  BY <1>2 DEF NotYetSaid
<1>6. \A s \in Names, k \in Keys : merged[s].keys[k] = 0 /\ Mentions(s, k) = {}
  BY <1>2 DEF Mentions, AboveAll, Unsaid, Nowhere
<1>7. LastKind
  BY <1>2 DEF LastKind, Unsaid
<1>8. EnvTells /\ LoadedFits
  BY <1>2 DEF ConfigInit, EnvTells, LoadedFits, Unsaid, Nowhere
<1>9. QED
  BY <1>3, <1>4, <1>5, <1>6, <1>7, <1>8 DEF IConfig, LastSoFar

LEMMA ConfigStep == IConfig /\ [ConfigNext]_configVars => IConfig'
<1> SUFFICES ASSUME IConfig, [ConfigNext]_configVars PROVE IConfig'
  OBVIOUS
<1>1. CASE UNCHANGED configVars
  BY <1>1 DEF configVars, IConfig, ConfigTypeOK, ConfigWords, NotYetSaid, LastSoFar,
              Mentions, AboveAll, LastKind, IsLast, EnvTells, LoadedFits
<1>2. QED
  BY <1>1, LoadYamlStep, LoadRaisesStep, MergeEnvironmentStep, ReadNameStep, ReadKeyStep
  DEF ConfigNext

\* The greatest of a set of layers, or none.
LEMMA MaxOfLayers ==
  ASSUME NEW S \in SUBSET Layers, NEW v \in {0} \cup S, \A n \in S : n <= v
  PROVE  Max({0} \cup S) = v
<1> DEFINE T == {0} \cup S
<1>1. \A n \in T : n \in Int /\ n >= 0
  BY DEF Layers
<1>2. v \in T /\ \A n \in T : n <= v
  BY <1>1
<1> HIDE DEF T
<1>3. \A x \in T : (\A n \in T : n <= x) => x = v
  BY <1>1, <1>2
<1>4. Max(T) = v
  BY <1>2, <1>3 DEF Max
<1>5. QED
  BY <1>4 DEF T

\* Every key of a section, and every setting, of a configuration that loads has
\* the value of the last file or variable to mention it (above the last file with
\* a scalar in place of the section), for any sections, settings and keys,
\* whatever the files say and in whatever order the variables come.
THEOREM LayersPrevail == ConfigSpec => []LastLayerWins
<1>1. ASSUME IConfig PROVE LastLayerWins
  <2> SUFFICES ASSUME loading = "loaded" PROVE LastLayerWins
    BY DEF LastLayerWins
  <2>1. /\ Variables \in Layers /\ Layers = Files \cup {Variables}
        /\ Sections \subseteq Names /\ Settings \subseteq Names
    BY DEF Variables, Layers, Files, Names
  <2>2. \A s \in Names :
          /\ said[Variables][s].kind = "scalar" <=> <<s, "itself">> \in environ
          /\ said[Variables][s].kind # "scalar" =>
               \A k \in Keys : said[Variables][s].keys[k] # 0 <=> <<s, k>> \in environ
    BY <1>1 DEF IConfig, EnvTells
  <2>3. ASSUME NEW s \in Names PROVE merged[s] \in Words
    BY <1>1 DEF IConfig, ConfigWords
  <2>4. \A s \in Names :
          /\ merged[s].kind = "none" => \A n \in Layers : said[n][s].kind = "none"
          /\ merged[s].kind # "none" => \E n \in Layers : IsLast(n, s)
    BY <1>1 DEF IConfig, LastKind
  <2>5. ASSUME NEW s \in Sections, NEW k \in Keys
        PROVE  merged[s].keys[k] = Max({0} \cup {n \in Above(s) : MentionsKey(n, s, k)})
    <3> DEFINE S == {n \in Above(s) : MentionsKey(n, s, k)}
               v == merged[s].keys[k]
    <3>1. v \in {0} \cup Mentions(s, k) /\ \A n \in Mentions(s, k) : n <= v
      BY <1>1, <2>1 DEF IConfig, LastSoFar
    <3>2. said[Variables][s].kind # "scalar"
      <4>1. merged[s].kind # "scalar"
        BY <1>1 DEF IConfig, LoadedFits
      <4>2. \A n \in Layers : n <= Variables /\ (Variables <= n => n = Variables)
        BY DEF Layers, Variables
      <4>3. QED
        BY <2>1, <2>4, <4>1, <4>2 DEF IsLast
    <3>3. Above(s) = AboveAll(s)
      BY <2>1, <3>2 DEF Above, AboveAll
    <3>4. \A n \in Above(s) : MentionsKey(n, s, k) <=> said[n][s].keys[k] # 0
      BY <2>1, <2>2, <3>2 DEF MentionsKey
    <3>5. S = Mentions(s, k)
      BY <3>3, <3>4 DEF Mentions
    <3>6. S \in SUBSET Layers
      BY DEF Above
    <3> HIDE DEF S, v
    <3>7. Max({0} \cup S) = v
      BY <3>1, <3>5, <3>6, MaxOfLayers
    <3>8. QED
      BY <3>7 DEF S, v
  <2>6. ASSUME NEW s \in Settings
        PROVE  merged[s].value = Max({0} \cup {n \in Layers : MentionsName(n, s)})
    <3> DEFINE S == {n \in Layers : MentionsName(n, s)}
               v == merged[s].value
    <3>1. merged[s].kind \in {"none", "scalar"} /\ (merged[s].kind = "none" => v = 0)
      BY <1>1, <2>1, <2>3 DEF IConfig, LoadedFits, Words
    <3>2. v \in {0} \cup S /\ \A n \in S : n <= v
      <4>1. \A n \in Layers : MentionsName(n, s) => said[n][s].kind # "none"
        BY <2>1, <2>2 DEF MentionsName
      <4>2. \A n \in Layers : said[n][s].kind = "scalar" => MentionsName(n, s)
        BY <2>1, <2>2 DEF MentionsName
      <4>3. CASE merged[s].kind = "none"
        <5>1. S = {}
          BY <2>1, <2>4, <4>1, <4>3
        <5>2. QED
          BY <3>1, <4>3, <5>1
      <4>4. CASE merged[s].kind = "scalar"
        <5>1. PICK n \in Layers : IsLast(n, s)
          BY <2>1, <2>4, <4>4
        <5>2. v = n /\ n \in S
          BY <4>2, <4>4, <5>1 DEF IsLast
        <5>3. QED
          BY <4>1, <5>1, <5>2 DEF IsLast
      <4>5. QED
        BY <3>1, <4>3, <4>4
    <3>6. S \in SUBSET Layers
      OBVIOUS
    <3> HIDE DEF S, v
    <3>7. Max({0} \cup S) = v
      BY <3>2, <3>6, MaxOfLayers
    <3>8. QED
      BY <3>7 DEF S, v
  <2>7. QED
    BY <2>5, <2>6 DEF LastLayerWins
<1>2. QED
  BY <1>1, ConfigInitInv, ConfigStep, PTL DEF ConfigSpec

(* ---- AuditLog ---- *)

\* The hash and the previous hash of e are neighbours in what a logger has chained.
IsLogged(e) ==
  \E l \in Loggers : \E i \in 1..Len(chained[l]) :
    /\ e.hash = chained[l][i]
    /\ e.prev = IF i = 1 THEN 0 ELSE chained[l][i - 1]

JournalTypes ==
  /\ journal \in [1..LogDays -> Seq(Entry)] /\ logDay \in 1..LogDays
  /\ damaged \subseteq 1..LogDays /\ unended \subseteq damaged
  /\ hashes \in 0..MaxEntries
  /\ writing \in [Loggers -> SUBSET Entry]
  /\ chained \in [Loggers -> Seq(1..MaxEntries)]
  /\ lastHash \in [Loggers -> 0..MaxEntries]

\* A hash is computed once, by one logger, which keeps the last.
HashesAreUnique ==
  /\ \A l \in Loggers :
       /\ lastHash[l] = IF Len(chained[l]) = 0 THEN 0 ELSE chained[l][Len(chained[l])]
       /\ \A i \in 1..Len(chained[l]) : chained[l][i] <= hashes
  /\ \A l, m \in Loggers : \A i \in 1..Len(chained[l]), j \in 1..Len(chained[m]) :
       chained[l][i] = chained[m][j] => l = m /\ i = j

\* What a logger is about to append has its last hash, which no file has.
WritesTheLast ==
  \A l \in Loggers :
    /\ \A e \in writing[l] :
         /\ IsLogged(e) /\ Len(chained[l]) > 0 /\ e.hash = lastHash[l]
         /\ \A d \in 1..LogDays : \A n \in 1..Len(journal[d]) :
              journal[d][n].hash # e.hash
    /\ \A e, f \in writing[l] : e = f

JournalIsLogged ==
  /\ \A d \in 1..LogDays : \A n \in 1..Len(journal[d]) :
       IsLogged(journal[d][n]) /\ journal[d][n].hash <= hashes
  /\ \A d, f \in 1..LogDays :
       \A n \in 1..Len(journal[d]), k \in 1..Len(journal[f]) :
         journal[d][n].hash = journal[f][k].hash => d = f /\ n = k

IAudit == JournalTypes /\ HashesAreUnique /\ WritesTheLast /\ JournalIsLogged

LEMMA IAuditInit == AuditInit => IAudit
<1> SUFFICES ASSUME AuditInit PROVE IAudit
  OBVIOUS
<1>1. /\ \A d \in 1..LogDays : journal[d] = <<>>
      /\ \A l \in Loggers : writing[l] = {} /\ chained[l] = <<>> /\ lastHash[l] = 0
  BY DEF AuditInit
<1>2. JournalTypes
  <2>1. /\ journal \in [1..LogDays -> Seq(Entry)]
        /\ chained \in [Loggers -> Seq(1..MaxEntries)]
    BY DEF AuditInit
  <2>2. writing \in [Loggers -> SUBSET Entry]
    BY DEF AuditInit
  <2>3. lastHash \in [Loggers -> 0..MaxEntries] /\ hashes \in 0..MaxEntries
    BY AuditAssumption DEF AuditInit
  <2>4. logDay \in 1..LogDays /\ damaged \subseteq 1..LogDays /\ unended \subseteq damaged
    BY AuditAssumption DEF AuditInit
  <2>5. QED
    BY <2>1, <2>2, <2>3, <2>4 DEF JournalTypes
<1>3. (\A l \in Loggers : Len(chained[l]) = 0) /\ \A d \in 1..LogDays : Len(journal[d]) = 0
  BY <1>1
<1>4. HashesAreUnique
  BY <1>1, <1>3 DEF HashesAreUnique
<1>5. WritesTheLast
  BY <1>1 DEF WritesTheLast
<1>6. JournalIsLogged
  BY <1>3 DEF JournalIsLogged
<1>7. QED
  BY <1>2, <1>4, <1>5, <1>6 DEF IAudit

\* log computes a hash: nothing has it yet, and what was chained stays chained.
LEMMA ChainKeeps ==
  ASSUME IAudit, NEW l \in Loggers, Chain(l)
  PROVE  IAudit'
<1> DEFINE k == Len(chained[l])
<1>h. PICK h : h = hashes + 1
  OBVIOUS
<1>e. PICK new : new = [prev |-> lastHash[l], hash |-> h, day |-> logDay]
  OBVIOUS
<1>1. /\ journal' = journal /\ logDay' = logDay /\ hashes' = h
      /\ damaged' = damaged /\ unended' = unended
      /\ writing[l] = {} /\ writing' = [writing EXCEPT ![l] = {new}]
      /\ lastHash' = [lastHash EXCEPT ![l] = h]
      /\ chained' = [chained EXCEPT ![l] = Append(@, h)]
  BY <1>h, <1>e DEF Chain
<1>2. /\ hashes \in Nat /\ h \in 1..MaxEntries /\ MaxEntries \in Nat
      /\ h > hashes /\ new \in Entry
  BY <1>h, <1>e, AuditAssumption DEF Chain, IAudit, JournalTypes, Entry
<1>3. /\ \A m \in Loggers : chained[m] \in Seq(1..MaxEntries) /\ writing[m] \subseteq Entry
      /\ chained \in [Loggers -> Seq(1..MaxEntries)] /\ lastHash \in [Loggers -> 0..MaxEntries]
      /\ writing \in [Loggers -> SUBSET Entry]
      /\ \A d \in 1..LogDays : journal[d] \in Seq(Entry)
  BY DEF IAudit, JournalTypes
<1>4. /\ k \in Nat /\ Len(chained'[l]) = k + 1 /\ chained'[l][k + 1] = h
      /\ chained'[l] \in Seq(1..MaxEntries)
      /\ \A i \in 1..k : chained'[l][i] = chained[l][i]
  <2>1. chained'[l] = Append(chained[l], h)
    BY <1>1, <1>3
  <2>2. chained[l] \in Seq(1..MaxEntries) /\ h \in 1..MaxEntries
    BY <1>2, <1>3
  <2>3. QED
    BY <2>1, <2>2
<1>5. \A m \in Loggers : m # l => /\ chained'[m] = chained[m] /\ writing'[m] = writing[m]
                                  /\ lastHash'[m] = lastHash[m]
  BY <1>1, <1>3
<1>6. lastHash'[l] = h /\ writing'[l] = {new}
  BY <1>1, <1>3
<1>7. /\ \A m \in Loggers :
           lastHash[m] = IF Len(chained[m]) = 0 THEN 0 ELSE chained[m][Len(chained[m])]
      /\ \A m \in Loggers : \A i \in 1..Len(chained[m]) : chained[m][i] <= hashes
      /\ \A m, o \in Loggers : \A i \in 1..Len(chained[m]), j \in 1..Len(chained[o]) :
           chained[m][i] = chained[o][j] => m = o /\ i = j
  BY DEF IAudit, HashesAreUnique
<1>8. ASSUME NEW m \in Loggers
      PROVE  /\ Len(chained[m]) \in Nat
             /\ \A i \in 1..Len(chained[m]) : chained[m][i] \in 1..MaxEntries
  <2>1. chained[m] \in Seq(1..MaxEntries)
    BY <1>3
  <2>2. QED
    BY <2>1, SeqElements, Zenon
<1> HIDE DEF k
<1>8a. ASSUME NEW d \in 1..LogDays, NEW n \in 1..Len(journal[d])
       PROVE  journal[d][n].hash \in Nat /\ journal[d][n].hash <= hashes
  <2>1. journal[d] \in Seq(Entry)
    BY <1>3
  <2>2. journal[d][n] \in Entry
    BY <2>1
  <2>3. journal[d][n].hash \in Nat
    BY <2>2 DEF Entry
  <2>4. QED
    BY <2>3 DEF IAudit, JournalIsLogged
<1>9. \A m \in Loggers : \A i \in 1..Len(chained'[m]) :
        \/ i \in 1..Len(chained[m]) /\ chained'[m][i] = chained[m][i]
        \/ m = l /\ i = k + 1 /\ chained'[m][i] = h
  BY <1>4, <1>5 DEF k
<1>10. JournalTypes'
  <2>1. chained' \in [Loggers -> Seq(1..MaxEntries)]
    <3>1. Append(chained[l], h) \in Seq(1..MaxEntries)
      BY <1>2, <1>3
    <3>2. QED
      BY <1>1, <1>3, <3>1
  <2>2. writing' \in [Loggers -> SUBSET Entry] /\ lastHash' \in [Loggers -> 0..MaxEntries]
    BY <1>1, <1>2, <1>3
  <2>3. hashes' \in 0..MaxEntries
    BY <1>1, <1>2
  <2>4. QED
    BY <1>1, <2>1, <2>2, <2>3 DEF IAudit, JournalTypes
<1>11. HashesAreUnique'
  <2>1. ASSUME NEW m \in Loggers
        PROVE  /\ lastHash'[m] = IF Len(chained'[m]) = 0 THEN 0
                                 ELSE chained'[m][Len(chained'[m])]
               /\ \A i \in 1..Len(chained'[m]) : chained'[m][i] <= h
    <3>1. \A i \in 1..Len(chained'[m]) : chained'[m][i] <= h
      <4>1. \A i \in 1..Len(chained[m]) : chained[m][i] \in Nat /\ chained[m][i] <= hashes
        BY <1>2, <1>7, <1>8
      <4>2. h \in Nat
        BY <1>2
      <4>3. QED
        BY <1>2, <1>9, <4>1, <4>2
    <3>2. CASE m = l
      BY <1>4, <1>6, <3>1, <3>2
    <3>3. CASE m # l
      BY <1>5, <1>7, <3>1, <3>3
    <3>4. QED
      BY <3>2, <3>3
  <2>2. ASSUME NEW m \in Loggers, NEW o \in Loggers, NEW i \in 1..Len(chained'[m]),
               NEW j \in 1..Len(chained'[o]), chained'[m][i] = chained'[o][j]
        PROVE  m = o /\ i = j
    <3>1. \A p \in Loggers : \A n \in 1..Len(chained[p]) : chained[p][n] # h
      <4>1. h \in Nat
        BY <1>2
      <4>2. \A p \in Loggers : \A n \in 1..Len(chained[p]) :
              chained[p][n] \in Nat /\ chained[p][n] <= hashes
        BY <1>2, <1>7, <1>8
      <4>3. QED
        BY <1>2, <4>1, <4>2
    <3>2. CASE i \in 1..Len(chained[m]) /\ chained'[m][i] = chained[m][i]
      <4>1. j \in 1..Len(chained[o]) /\ chained'[o][j] = chained[o][j]
        BY <1>9, <2>2, <3>1, <3>2
      <4>2. chained[m][i] = chained[o][j]
        BY <2>2, <3>2, <4>1, Zenon
      <4>3. \A x \in 1..Len(chained[m]), y \in 1..Len(chained[o]) :
              chained[m][x] = chained[o][y] => m = o /\ x = y
        BY <1>7, Zenon
      <4>4. QED
        BY <3>2, <4>1, <4>2, <4>3
    <3>3. CASE m = l /\ i = k + 1 /\ chained'[m][i] = h
      <4>1. ~(j \in 1..Len(chained[o]) /\ chained'[o][j] = chained[o][j])
        BY <2>2, <3>1, <3>3
      <4>2. o = l /\ j = k + 1
        BY <1>9, <4>1
      <4>3. QED
        BY <3>3, <4>2
    <3>4. QED
      BY <1>9, <3>2, <3>3
  <2>3. QED
    BY <1>1, <2>1, <2>2 DEF HashesAreUnique
<1>12. \A e : IsLogged(e) => IsLogged(e)'
  <2>1. SUFFICES ASSUME NEW e, NEW m \in Loggers, NEW i \in 1..Len(chained[m]),
                        e.hash = chained[m][i],
                        e.prev = IF i = 1 THEN 0 ELSE chained[m][i - 1]
                 PROVE  /\ i \in 1..Len(chained'[m]) /\ chained'[m][i] = chained[m][i]
                        /\ i # 1 => chained'[m][i - 1] = chained[m][i - 1]
    BY DEF IsLogged
  <2>2. CASE m = l
    <3>1. i \in 1..k /\ (i # 1 => i - 1 \in 1..k) /\ i \in 1..(k + 1)
      BY <1>4, <2>2 DEF k
    <3>2. QED
      BY <1>4, <2>2, <3>1
  <2>3. CASE m # l
    BY <1>5, <2>3
  <2>4. QED
    BY <2>2, <2>3
<1>13. IsLogged(new)'
  <2>1. k + 1 \in 1..Len(chained'[l]) /\ chained'[l][k + 1] = h
    BY <1>4
  <2>2. new.hash = h /\ new.prev = lastHash[l]
    BY <1>e
  <2>3. lastHash[l] = IF k + 1 = 1 THEN 0 ELSE chained'[l][(k + 1) - 1]
    <3>1. (k + 1 = 1 <=> k = 0) /\ (k + 1) - 1 = k /\ (k # 0 => k \in 1..k)
      BY <1>4
    <3>2. QED
      BY <1>4, <1>7, <3>1 DEF k
  <2>4. QED
    BY <2>1, <2>2, <2>3 DEF IsLogged
<1>14. WritesTheLast'
  <2>1. ASSUME NEW m \in Loggers, NEW e \in writing'[m]
        PROVE  /\ IsLogged(e)' /\ Len(chained'[m]) > 0 /\ e.hash = lastHash'[m]
               /\ \A d \in 1..LogDays : \A n \in 1..Len(journal[d]) :
                    journal[d][n].hash # e.hash
    <3>1. CASE m = l
      <4>1. e = new /\ e.hash = h
        BY <1>e, <1>6, <2>1, <3>1
      <4>2. \A d \in 1..LogDays : \A n \in 1..Len(journal[d]) : journal[d][n].hash # h
        BY <1>2, <1>8a
      <4>3. Len(chained'[l]) > 0
        BY <1>4
      <4>4. QED
        BY <1>6, <1>13, <3>1, <4>1, <4>2, <4>3
    <3>2. CASE m # l
      <4>1. e \in writing[m]
        BY <1>5, <2>1, <3>2
      <4>2. /\ IsLogged(e) /\ Len(chained[m]) > 0 /\ e.hash = lastHash[m]
            /\ \A d \in 1..LogDays : \A n \in 1..Len(journal[d]) :
                 journal[d][n].hash # e.hash
        BY <4>1, Zenon DEF IAudit, WritesTheLast
      <4>3. QED
        BY <1>5, <1>12, <3>2, <4>2
    <3>3. QED
      BY <3>1, <3>2
  <2>2. ASSUME NEW m \in Loggers, NEW e \in writing'[m], NEW f \in writing'[m]
        PROVE  e = f
    <3>1. CASE m = l
      BY <1>6, <2>2, <3>1
    <3>2. CASE m # l
      BY <1>5, <2>2, <3>2 DEF IAudit, WritesTheLast
    <3>3. QED
      BY <3>1, <3>2
  <2>3. QED
    BY <1>1, <2>1, <2>2 DEF WritesTheLast
<1>15. JournalIsLogged'
  <2>1. ASSUME NEW d \in 1..LogDays, NEW n \in 1..Len(journal[d])
        PROVE  IsLogged(journal[d][n])' /\ journal[d][n].hash <= h
    <3>1. IsLogged(journal[d][n]) /\ journal[d][n].hash \in Nat /\ journal[d][n].hash <= hashes
      BY <1>8a DEF IAudit, JournalIsLogged
    <3>2. PICK e : e = journal[d][n]
      OBVIOUS
    <3>3. IsLogged(e)'
      BY <1>12, <3>1, <3>2
    <3>4. (journal[d][n])' = e
      BY <1>1, <3>2
    <3>5. IsLogged(journal[d][n])'
      BY <3>3, <3>4 DEF IsLogged
    <3>6. QED
      BY <1>2, <3>1, <3>5
  <2>2. QED
    BY <1>1, <2>1 DEF IAudit, JournalIsLogged
<1>16. QED
  BY <1>10, <1>11, <1>14, <1>15 DEF IAudit

\* The entry goes to the end of one file: its hash is new there, and nobody
\* else is about to write it.
LEMMA AppendedKeeps ==
  ASSUME IAudit, NEW l \in Loggers, NEW e \in writing[l],
         journal' = [journal EXCEPT ![e.day] = Append(@, e)],
         writing' = [writing EXCEPT ![l] = {}], UNCHANGED <<logDay, lastHash, hashes, chained>>,
         damaged' = damaged, unended' \subseteq unended
  PROVE  IAudit'
<1>1. journal' = [journal EXCEPT ![e.day] = Append(@, e)]
  OBVIOUS
<1>2. /\ writing' = [writing EXCEPT ![l] = {}] /\ logDay' = logDay
      /\ lastHash' = lastHash /\ hashes' = hashes /\ chained' = chained
  OBVIOUS
<1>3. /\ journal \in [1..LogDays -> Seq(Entry)] /\ writing \in [Loggers -> SUBSET Entry]
      /\ chained \in [Loggers -> Seq(1..MaxEntries)]
      /\ lastHash \in [Loggers -> 0..MaxEntries]
  BY DEF IAudit, JournalTypes
<1>4. /\ IsLogged(e) /\ Len(chained[l]) > 0 /\ e.hash = lastHash[l]
      /\ \A d \in 1..LogDays : \A n \in 1..Len(journal[d]) : journal[d][n].hash # e.hash
  BY <1>1, Zenon DEF IAudit, WritesTheLast
<1>5. e \in Entry /\ e.day \in 1..LogDays
  BY <1>1, <1>3 DEF Entry
<1>6. \A m \in Loggers : Len(chained[m]) > 0 =>
        Len(chained[m]) \in 1..Len(chained[m]) /\ lastHash[m] = chained[m][Len(chained[m])]
  <2>1. ASSUME NEW m \in Loggers, Len(chained[m]) > 0
        PROVE  Len(chained[m]) \in 1..Len(chained[m]) /\ Len(chained[m]) # 0
    <3>1. chained[m] \in Seq(1..MaxEntries)
      BY <1>3
    <3>2. Len(chained[m]) \in Nat
      BY <3>1, SeqElements, Zenon
    <3>3. QED
      BY <2>1, <3>2
  <2>2. QED
    BY <2>1 DEF IAudit, HashesAreUnique
<1>7. \A m \in Loggers \ {l} : writing'[m] = writing[m]
  BY <1>2, <1>3
<1>8. writing'[l] = {}
  BY <1>2, <1>3
<1> DEFINE k == Len(journal[e.day])
<1>9. ASSUME NEW d \in 1..LogDays, NEW n \in 1..Len(journal'[d])
      PROVE  \/ n \in 1..Len(journal[d]) /\ journal'[d][n] = journal[d][n]
             \/ d = e.day /\ n = k + 1 /\ journal'[d][n] = e
  <2>1. CASE d = e.day
    <3>1. journal'[d] = Append(journal[d], e) /\ journal[d] \in Seq(Entry)
      BY <1>1, <1>3, <1>5, <2>1
    <3>2. QED
      BY <1>5, <1>9, <2>1, <3>1
  <2>2. CASE d # e.day
    <3>1. journal'[d] = journal[d]
      BY <1>1, <1>3, <2>2
    <3>2. QED
      BY <1>9, <3>1
  <2>3. QED
    BY <2>1, <2>2
<1> HIDE DEF k
<1>10. JournalTypes'
  <2>1. Append(journal[e.day], e) \in Seq(Entry)
    BY <1>3, <1>5
  <2>2. journal' \in [1..LogDays -> Seq(Entry)]
    BY <1>1, <1>3, <1>5, <2>1
  <2>3. writing' \in [Loggers -> SUBSET Entry]
    BY <1>2, <1>3
  <2>4. QED
    BY <1>2, <2>2, <2>3 DEF IAudit, JournalTypes
<1>11. HashesAreUnique'
  BY <1>2 DEF IAudit, HashesAreUnique
<1>12. \A x : IsLogged(x) => IsLogged(x)'
  BY <1>2 DEF IsLogged
<1>13. WritesTheLast'
  <2>1. ASSUME NEW m \in Loggers, NEW x \in writing'[m]
        PROVE  /\ IsLogged(x)' /\ Len(chained[m]) > 0 /\ x.hash = lastHash[m]
               /\ \A d \in 1..LogDays : \A n \in 1..Len(journal'[d]) :
                    journal'[d][n].hash # x.hash
    <3>1. m # l /\ x \in writing[m]
      BY <1>7, <1>8, <2>1
    <3>2. /\ IsLogged(x) /\ Len(chained[m]) > 0 /\ x.hash = lastHash[m]
          /\ \A d \in 1..LogDays : \A n \in 1..Len(journal[d]) : journal[d][n].hash # x.hash
      BY <3>1, Zenon DEF IAudit, WritesTheLast
    <3>3. x.hash # e.hash
      BY <1>4, <1>6, <3>1, <3>2 DEF IAudit, HashesAreUnique
    <3>4. QED
      BY <1>9, <1>12, <3>2, <3>3
  <2>2. ASSUME NEW m \in Loggers, NEW x \in writing'[m], NEW y \in writing'[m]
        PROVE  x = y
    BY <1>7, <1>8, <2>2 DEF IAudit, WritesTheLast
  <2>3. QED
    BY <1>2, <2>1, <2>2 DEF WritesTheLast
<1>14. JournalIsLogged'
  <2>1. ASSUME NEW d \in 1..LogDays, NEW n \in 1..Len(journal'[d])
        PROVE  IsLogged(journal[d][n])' /\ journal'[d][n].hash <= hashes
    <3>1. PICK x : x = journal'[d][n]
      OBVIOUS
    <3>2. IsLogged(x) /\ x.hash <= hashes
      <4>1. CASE n \in 1..Len(journal[d]) /\ journal'[d][n] = journal[d][n]
        BY <3>1, <4>1 DEF IAudit, JournalIsLogged
      <4>2. CASE d = e.day /\ n = k + 1 /\ journal'[d][n] = e
        <5>1. e.hash <= hashes
          BY <1>4, <1>6 DEF IAudit, HashesAreUnique
        <5>2. QED
          BY <1>4, <3>1, <4>2, <5>1
      <4>3. QED
        BY <1>9, <4>1, <4>2
    <3>3. IsLogged(x)'
      BY <1>12, <3>2
    <3>4. IsLogged(journal[d][n])'
      BY <3>1, <3>3 DEF IsLogged
    <3>5. QED
      BY <3>1, <3>2, <3>4
  <2>2. ASSUME NEW d \in 1..LogDays, NEW f \in 1..LogDays, NEW n \in 1..Len(journal'[d]),
               NEW o \in 1..Len(journal'[f]), journal'[d][n].hash = journal'[f][o].hash
        PROVE  d = f /\ n = o
    <3>1. CASE n \in 1..Len(journal[d]) /\ journal'[d][n] = journal[d][n]
      <4>1. journal'[f][o].hash # e.hash
        BY <1>4, <2>2, <3>1
      <4>2. o \in 1..Len(journal[f]) /\ journal'[f][o] = journal[f][o]
        BY <1>9, <4>1
      <4>3. \A x \in 1..Len(journal[d]), y \in 1..Len(journal[f]) :
              journal[d][x].hash = journal[f][y].hash => d = f /\ x = y
        BY DEF IAudit, JournalIsLogged
      <4>4. QED
        BY <2>2, <3>1, <4>2, <4>3
    <3>2. CASE d = e.day /\ n = k + 1 /\ journal'[d][n] = e
      <4>1. ~(o \in 1..Len(journal[f]) /\ journal'[f][o] = journal[f][o])
        BY <1>4, <2>2, <3>2
      <4>2. QED
        BY <1>9, <3>2, <4>1
    <3>3. QED
      BY <1>9, <3>1, <3>2
  <2>3. /\ \A d \in 1..LogDays : \A n \in 1..Len(journal'[d]) :
             IsLogged(journal[d][n])' /\ journal'[d][n].hash <= hashes'
        /\ \A d, f \in 1..LogDays :
             \A n \in 1..Len(journal'[d]), o \in 1..Len(journal'[f]) :
               journal'[d][n].hash = journal'[f][o].hash => d = f /\ n = o
    BY <1>2, <2>1, <2>2
  <2>4. QED
    BY <2>3, Zenon DEF JournalIsLogged
<1>15. QED
  BY <1>10, <1>11, <1>13, <1>14 DEF IAudit

\* No entry more can be read.
LEMMA EntryIsGone ==
  ASSUME IAudit, NEW l \in Loggers, writing' = [writing EXCEPT ![l] = {}],
         UNCHANGED <<journal, logDay, lastHash, hashes, chained>>,
         damaged' \subseteq 1..LogDays, unended' \subseteq damaged'
  PROVE  IAudit'
<1>1. /\ writing' = [writing EXCEPT ![l] = {}] /\ logDay' = logDay /\ journal' = journal
      /\ lastHash' = lastHash /\ hashes' = hashes /\ chained' = chained
  OBVIOUS
<1>2. writing \in [Loggers -> SUBSET Entry]
  BY DEF IAudit, JournalTypes
<1>3. \A m \in Loggers : writing'[m] = {} \/ writing'[m] = writing[m]
  BY <1>1, <1>2
<1>4. \A x : IsLogged(x) => IsLogged(x)'
  BY <1>1 DEF IsLogged
<1>5. JournalTypes'
  <2>1. writing' \in [Loggers -> SUBSET Entry]
    BY <1>1, <1>2
  <2>2. QED
    BY <1>1, <2>1 DEF IAudit, JournalTypes
<1>6. HashesAreUnique'
  BY <1>1 DEF IAudit, HashesAreUnique
<1>7. WritesTheLast'
  BY <1>1, <1>3, <1>4 DEF IAudit, WritesTheLast
<1>8. JournalIsLogged'
  BY <1>1 DEF IAudit, JournalIsLogged, IsLogged
<1>9. QED
  BY <1>5, <1>6, <1>7, <1>8 DEF IAudit

LEMMA AppendEntryKeeps ==
  ASSUME IAudit, NEW l \in Loggers, AppendEntry(l)
  PROVE  IAudit'
<1>1. /\ writing' = [writing EXCEPT ![l] = {}]
      /\ UNCHANGED <<damaged, logDay, lastHash, hashes, chained>>
      /\ damaged \subseteq 1..LogDays /\ unended \subseteq damaged
  BY DEF AppendEntry, IAudit, JournalTypes
<1>2. PICK e \in writing[l] :
        /\ unended' = unended \ {e.day}
        /\ journal' \in {journal, [journal EXCEPT ![e.day] = Append(@, e)]}
  BY DEF AppendEntry
<1>3. unended' \subseteq unended
  BY <1>2
<1>4. CASE journal' = journal
  BY <1>1, <1>3, <1>4, EntryIsGone
<1>5. CASE journal' = [journal EXCEPT ![e.day] = Append(@, e)]
  BY <1>1, <1>3, <1>5, AppendedKeeps
<1>6. QED
  BY <1>2, <1>4, <1>5

LEMMA AppendRaisesKeeps ==
  ASSUME IAudit, NEW l \in Loggers, AppendRaises(l)
  PROVE  IAudit'
<1>1. /\ writing' = [writing EXCEPT ![l] = {}]
      /\ UNCHANGED <<journal, logDay, lastHash, hashes, chained>>
      /\ damaged \subseteq 1..LogDays /\ unended \subseteq damaged
      /\ writing[l] \subseteq Entry
  BY DEF AppendRaises, IAudit, JournalTypes
<1>2. PICK e \in writing[l] :
        \/ damaged' = damaged /\ unended' = unended
        \/ damaged' = damaged \cup {e.day} /\ unended' = unended \cup {e.day}
  BY DEF AppendRaises
<1>3. e.day \in 1..LogDays
  BY <1>1 DEF Entry
<1>4. damaged' \subseteq 1..LogDays /\ unended' \subseteq damaged'
  BY <1>1, <1>2, <1>3
<1>5. QED
  BY <1>1, <1>4, EntryIsGone

LEMMA AuditInvariant == AuditSpec => []IAudit
<1>1. AuditInit => IAudit
  BY IAuditInit
<1>2. IAudit /\ [AuditNext]_auditVars => IAudit'
  <2> SUFFICES ASSUME IAudit, [AuditNext]_auditVars PROVE IAudit'
    OBVIOUS
  <2>1. ASSUME NEW l \in Loggers, Chain(l) PROVE IAudit'
    BY <2>1, ChainKeeps
  <2>2. ASSUME NEW l \in Loggers, AppendEntry(l) PROVE IAudit'
    BY <2>2, AppendEntryKeeps
  <2>3. ASSUME NEW l \in Loggers, AppendRaises(l) PROVE IAudit'
    BY <2>3, AppendRaisesKeeps
  <2>4. CASE NextDay
    <3>1. logDay' \in 1..LogDays
      BY <2>4, AuditAssumption DEF NextDay, IAudit, JournalTypes
    <3>2. QED
      BY <2>4, <3>1 DEF NextDay, IAudit, JournalTypes, HashesAreUnique,
         WritesTheLast, JournalIsLogged, IsLogged
  <2>5. CASE UNCHANGED auditVars
    <3>1. JournalTypes' /\ HashesAreUnique'
      BY <2>5 DEF auditVars, IAudit, JournalTypes, HashesAreUnique
    <3>2. WritesTheLast' /\ JournalIsLogged'
      BY <2>5 DEF auditVars, IAudit, WritesTheLast, JournalIsLogged, IsLogged
    <3>3. QED
      BY <3>1, <3>2 DEF IAudit
  <2>6. QED
    BY <2>1, <2>2, <2>3, <2>4, <2>5 DEF AuditNext
<1>3. QED
  BY <1>1, <1>2, PTL DEF AuditSpec

\* What the files hold, read one after the other.
LEMMA AllEntriesFacts ==
  ASSUME IAudit
  PROVE  /\ AllEntries \in Seq(Entry)
         /\ \A p \in 1..Len(AllEntries) : IsLogged(AllEntries[p])
         /\ \A p, q \in 1..Len(AllEntries) :
              AllEntries[p].hash = AllEntries[q].hash => p = q
         /\ Len(AllEntries) <= MaxEntries
<1> DEFINE t == AllEntries
<1>1. journal \in [1..LogDays -> Seq(Entry)] /\ LogDays \in Nat
  BY AuditAssumption DEF IAudit, JournalTypes
<1>2. journal \in Seq(Seq(Entry)) /\ Len(journal) = LogDays
  BY <1>1
<1>3. t \in Seq(Entry)
  BY <1>2, FlattenSeqType DEF AllEntries
<1>4. PICK at : Places(journal, t, LogDays, at)
  <2>1. \E at : Places(journal, FlattenSeq(journal), Len(journal), at)
    BY <1>2, FlattenSeqPlaces
  <2>2. QED
    BY <1>2, <2>1 DEF AllEntries
<1> HIDE DEF t
<1>5. /\ \A p \in 1..Len(t) : /\ at[p] \in Nat \X Nat
                              /\ at[p][1] \in 1..LogDays
                              /\ at[p][2] \in 1..Len(journal[at[p][1]])
                              /\ t[p] = journal[at[p][1]][at[p][2]]
      /\ \A p, q \in 1..Len(t) : at[p] = at[q] => p = q
  BY <1>4 DEF Places
<1>6. \A p \in 1..Len(t) : IsLogged(t[p])
  BY SMTT(30), <1>5 DEF IAudit, JournalIsLogged
<1>7. ASSUME NEW p \in 1..Len(t), NEW q \in 1..Len(t), t[p].hash = t[q].hash
      PROVE  p = q
  <2>1. at[p][1] = at[q][1] /\ at[p][2] = at[q][2]
    <3> DEFINE d == at[p][1]
               f == at[q][1]
               n == at[p][2]
               k == at[q][2]
    <3>1. /\ d \in 1..LogDays /\ f \in 1..LogDays
          /\ n \in 1..Len(journal[d]) /\ k \in 1..Len(journal[f])
          /\ journal[d][n].hash = journal[f][k].hash
      BY <1>5, <1>7
    <3> HIDE DEF d, f, n, k
    <3>2. d = f /\ n = k
      BY <3>1 DEF IAudit, JournalIsLogged
    <3>3. QED
      BY <3>2 DEF d, f, n, k
  <2>2. at[p] = at[q]
    <3>1. at[p] \in Nat \X Nat /\ at[q] \in Nat \X Nat
      BY <1>5
    <3>2. QED
      BY <2>1, <3>1
  <2>3. QED
    BY <1>5, <2>2
<1>8. Len(t) <= MaxEntries
  <2> DEFINE f == [p \in 1..Len(t) |-> t[p].hash]
             m == Len(t)
  <2>1. m \in Nat /\ MaxEntries \in Nat
    BY <1>3, AuditAssumption
  <2>2. f \in [1..m -> 1..MaxEntries]
    <3>1. \A p \in 1..m : t[p] \in Entry
      BY <1>3
    <3>2. \A e \in Entry : e.hash \in 1..MaxEntries
      BY DEF Entry
    <3>3. QED
      BY <3>1, <3>2
  <2>3. \A p, q \in 1..m : f[p] = f[q] => p = q
    BY <1>7
  <2>4. /\ IsFiniteSet(1..m) /\ Cardinality(1..m) = m
        /\ IsFiniteSet(1..MaxEntries) /\ Cardinality(1..MaxEntries) = MaxEntries
    <3> HIDE DEF m
    <3>1. \A n \in Nat : IsFiniteSet(1..n) /\ Cardinality(1..n) = n
      <4>1. ASSUME NEW n \in Nat PROVE IsFiniteSet(1..n) /\ Cardinality(1..n) = n
        <5>1. IsFiniteSet(1..n) /\ Cardinality(1..n) = IF 1 > n THEN 0 ELSE n - 1 + 1
          BY FS_Interval
        <5>2. QED
          BY <5>1
      <4>2. QED
        BY <4>1
    <3>2. QED
      BY <2>1, <3>1
  <2> HIDE DEF f, m
  <2>5. ~(Cardinality(1..MaxEntries) < Cardinality(1..m))
    <3> SUFFICES ASSUME Cardinality(1..MaxEntries) < Cardinality(1..m) PROVE FALSE
      OBVIOUS
    <3>1. IsFiniteSet(1..m) /\ IsFiniteSet(1..MaxEntries)
      BY <2>4
    <3>2. \E p, q \in 1..m : p # q /\ f[p] = f[q]
      BY <2>2, <3>1, FS_PigeonHole
    <3>3. QED
      BY <2>3, <3>2
  <2>6. m <= MaxEntries
    BY <2>1, <2>4, <2>5
  <2>7. QED
    BY <2>6 DEF m
<1>9. QED
  BY <1>3, <1>6, <1>7, <1>8 DEF t

\* query from the first day with a limit shows the beginning of what there is.
LEMMA QueryShows ==
  ASSUME IAudit, NEW limit \in Nat
  PROVE  Query(1, limit) =
           LET most == IF limit < 1 THEN 1 ELSE limit
           IN IF Len(AllEntries) <= most THEN AllEntries ELSE SubSeq(AllEntries, 1, most)
<1> DEFINE t == AllEntries
           each == [n \in DOMAIN t |-> IF t[n].day < 1 THEN <<>> ELSE <<t[n]>>]
<1>1. t \in Seq(Entry)
  BY AllEntriesFacts
<1> HIDE DEF t
<1>2. \A n \in DOMAIN t : ~(t[n].day < 1)
  <2>1. DOMAIN t = 1..Len(t) /\ \A n \in 1..Len(t) : t[n] \in Entry
    BY <1>1
  <2>2. \A e \in Entry : e.day \in 1..LogDays
    BY DEF Entry
  <2>3. \A d \in 1..LogDays : ~(d < 1)
    OBVIOUS
  <2>4. QED
    BY <2>1, <2>2, <2>3
<1>3. each = [n \in 1..Len(t) |-> <<t[n]>>]
  BY <1>1, <1>2
<1> HIDE DEF each
<1>4. FlattenSeq(each) = t
  BY <1>1, <1>3, FlattenSeqOfSingles
<1>5. QED
  BY <1>4, Zenon DEF Query, each, t

\* A chain from the beginning over all files is a beginning of one logger's: a hash
\* names its logger and its place there.
LEMMA UnbrokenIsOneLogger ==
  ASSUME IAudit, VerifyChain, AllEntries # <<>>
  PROVE  \E l \in Loggers : \A n \in 1..Len(AllEntries) :
           n \in 1..Len(chained[l]) /\ AllEntries[n].hash = chained[l][n]
<1> DEFINE t == AllEntries
<1>1. /\ t \in Seq(Entry) /\ t # <<>>
      /\ \A p \in 1..Len(t) : IsLogged(t[p])
  BY AllEntriesFacts
<1>2. \A n \in 1..Len(t) : t[n].prev = IF n = 1 THEN 0 ELSE t[n - 1].hash
  BY <1>1 DEF VerifyChain
<1> HIDE DEF t
<1>3. Len(t) \in Nat /\ 1 \in 1..Len(t) /\ 1 \in Nat
  BY <1>1
<1>4. \A l \in Loggers : \A i \in 1..Len(chained[l]) : chained[l][i] \in 1..MaxEntries
  <2>1. ASSUME NEW l \in Loggers
        PROVE  \A i \in 1..Len(chained[l]) : chained[l][i] \in 1..MaxEntries
    <3>1. chained[l] \in Seq(1..MaxEntries)
      BY DEF IAudit, JournalTypes
    <3>2. QED
      BY <3>1, SeqElements, Zenon
  <2>2. QED
    BY <2>1
<1>5. \A l \in Loggers : Len(chained[l]) \in Nat
  <2>1. ASSUME NEW l \in Loggers PROVE Len(chained[l]) \in Nat
    <3>1. chained[l] \in Seq(1..MaxEntries)
      BY DEF IAudit, JournalTypes
    <3>2. QED
      BY <3>1, SeqElements, Zenon
  <2>2. QED
    BY <2>1
<1>6. \A l, m \in Loggers : \A i \in 1..Len(chained[l]), j \in 1..Len(chained[m]) :
        chained[l][i] = chained[m][j] => l = m /\ i = j
  BY DEF IAudit, HashesAreUnique
<1>7a. PICK l \in Loggers : \E i \in 1..Len(chained[l]) :
         t[1].hash = chained[l][i] /\ t[1].prev = IF i = 1 THEN 0 ELSE chained[l][i - 1]
  BY <1>1, <1>3 DEF IsLogged
<1>7. PICK i \in 1..Len(chained[l]) :
        t[1].hash = chained[l][i] /\ t[1].prev = IF i = 1 THEN 0 ELSE chained[l][i - 1]
  BY <1>7a
<1>8. i = 1
  <2>1. t[1].prev = 0
    BY <1>2, <1>3
  <2>2. ASSUME i # 1 PROVE FALSE
    <3>1. i - 1 \in 1..Len(chained[l])
      BY <1>5, <2>2
    <3>2. chained[l][i - 1] \in 1..MaxEntries
      BY <1>4, <3>1
    <3>3. chained[l][i - 1] # 0
      BY <3>2
    <3>4. QED
      BY <1>7, <2>1, <2>2, <3>3
  <2>3. QED
    BY <2>2
<1> DEFINE T == {n \in 1..Len(t) : n \in 1..Len(chained[l]) /\ t[n].hash = chained[l][n]}
<1>9. 1 \in T
  BY <1>3, <1>7, <1>8
<1>10. ASSUME NEW n \in 1..Len(t), n \in T, n < Len(t) PROVE n + 1 \in T
  <2>1. n + 1 \in 1..Len(t) /\ n + 1 # 1 /\ (n + 1) - 1 = n
    BY <1>3, <1>10
  <2>2. t[n + 1].prev = chained[l][n]
    BY <1>2, <1>10, <2>1
  <2>3a. PICK m \in Loggers : \E j \in 1..Len(chained[m]) :
           /\ t[n + 1].hash = chained[m][j]
           /\ t[n + 1].prev = IF j = 1 THEN 0 ELSE chained[m][j - 1]
    BY <1>1, <2>1 DEF IsLogged
  <2>3. PICK j \in 1..Len(chained[m]) :
          /\ t[n + 1].hash = chained[m][j]
          /\ t[n + 1].prev = IF j = 1 THEN 0 ELSE chained[m][j - 1]
    BY <2>3a
  <2>4. j # 1
    <3>1. chained[l][n] \in 1..MaxEntries
      BY <1>4, <1>10
    <3>2. chained[l][n] # 0
      BY <3>1
    <3>3. QED
      BY <2>2, <2>3, <3>2
  <2>5. j - 1 \in 1..Len(chained[m]) /\ chained[l][n] = chained[m][j - 1]
    BY <1>5, <2>2, <2>3, <2>4
  <2>6. l = m /\ n = j - 1
    BY <1>6, <1>10, <2>5
  <2>7. j = n + 1
    BY <2>6, <1>3
  <2>8. QED
    BY <2>1, <2>3, <2>6, <2>7
<1> HIDE DEF T
<1>11. 1..Len(t) \subseteq T
  BY <1>3, <1>9, <1>10, Upwards
<1>12. \A n \in 1..Len(t) : n \in 1..Len(chained[l]) /\ t[n].hash = chained[l][n]
  BY <1>11, Zenon DEF T
<1>13. QED
  BY <1>12 DEF t

\* verify_chain says True exactly if no line is damaged and what query shows is an
\* unbroken beginning of what one logger has logged.
THEOREM AuditTellsWhole == AuditSpec => []VerdictTellsWhole
<1>1. IAudit => VerdictTellsWhole
  <2> SUFFICES ASSUME IAudit PROVE VerdictTellsWhole
    OBVIOUS
  <2> DEFINE t == AllEntries
             shown(limit) == Query(1, limit)
             hashesOf(s) == [n \in DOMAIN s |-> s[n].hash]
             told(l) == \A limit \in 0..MaxEntries :
                          IsPrefix(hashesOf(shown(limit)), chained[l])
  <2>1. /\ t \in Seq(Entry) /\ Len(t) <= MaxEntries
        /\ \A p \in 1..Len(t) : IsLogged(t[p])
    BY AllEntriesFacts
  <2>2. ASSUME NEW limit \in 0..MaxEntries
        PROVE  shown(limit) = LET most == IF limit < 1 THEN 1 ELSE limit
                              IN IF Len(t) <= most THEN t ELSE SubSeq(t, 1, most)
    <3>1. limit \in Nat
      OBVIOUS
    <3>2. QED
      BY <3>1, QueryShows
  <2> HIDE DEF t, shown
  <2>3. Len(t) \in Nat /\ MaxEntries \in Nat
    BY <2>1, AuditAssumption
  <2>4. ASSUME NEW limit \in 0..MaxEntries
        PROVE  /\ shown(limit) \in Seq(Entry) /\ Len(shown(limit)) <= Len(t)
               /\ \A n \in 1..Len(shown(limit)) : shown(limit)[n] = t[n]
    <3> DEFINE most == IF limit < 1 THEN 1 ELSE limit
    <3>1. most \in Nat \ {0}
      OBVIOUS
    <3>2. shown(limit) = IF Len(t) <= most THEN t ELSE SubSeq(t, 1, most)
      BY <2>2
    <3> HIDE DEF most
    <3>3. CASE Len(t) <= most
      BY <2>1, <2>3, <3>2, <3>3
    <3>4. CASE ~(Len(t) <= most)
      <4>1. shown(limit) = SubSeq(t, 1, most) /\ most < Len(t)
        BY <2>3, <3>1, <3>2, <3>4
      <4>2. \A n \in 1..most : t[n] \in Entry
        BY <2>1, <2>3, <3>1, <4>1
      <4>3. QED
        BY <2>1, <2>3, <3>1, <4>1, <4>2
    <3>5. QED
      BY <3>3, <3>4
  <2>5. \A e \in Entry : e.hash \in 1..MaxEntries
    BY DEF Entry
  <2>6. ASSUME NEW l \in Loggers, NEW limit \in 0..MaxEntries
        PROVE  IsPrefix(hashesOf(shown(limit)), chained[l]) <=>
                 /\ Len(shown(limit)) <= Len(chained[l])
                 /\ \A n \in 1..Len(shown(limit)) : t[n].hash = chained[l][n]
    <3> DEFINE s == shown(limit)
               h == hashesOf(s)
    <3>1. s \in Seq(Entry) /\ \A n \in 1..Len(s) : s[n] = t[n]
      BY <2>4
    <3> HIDE DEF s
    <3>2. h \in Seq(1..MaxEntries) /\ Len(h) = Len(s) /\ \A n \in 1..Len(s) : h[n] = s[n].hash
      <4>1. DOMAIN s = 1..Len(s) /\ Len(s) \in Nat /\ \A n \in 1..Len(s) : s[n] \in Entry
        BY <3>1
      <4>2. QED
        BY <2>5, <4>1
    <3> HIDE DEF h
    <3>3. chained[l] \in Seq(1..MaxEntries)
      BY DEF IAudit, JournalTypes
    <3>4. IsPrefix(h, chained[l]) <=>
            Len(h) <= Len(chained[l]) /\ \A n \in 1..Len(h) : h[n] = chained[l][n]
      <4> DEFINE u == chained[l]
                 S == 1..MaxEntries
      <4>1. h \in Seq(S) /\ u \in Seq(S)
        BY <3>2, <3>3
      <4> HIDE DEF u, S
      <4>2. IsPrefix(h, u) <=> Len(h) <= Len(u) /\ \A n \in 1..Len(h) : h[n] = u[n]
        BY <4>1, PrefixElements
      <4>3. QED
        BY <4>2 DEF u
    <3>5. IsPrefix(h, chained[l]) <=>
            Len(s) <= Len(chained[l]) /\ \A n \in 1..Len(s) : t[n].hash = chained[l][n]
      BY <3>1, <3>2, <3>4
    <3>6. QED
      BY <3>5 DEF h, s
  <2> HIDE DEF hashesOf
  <2>7. ASSUME VerifyChain PROVE \E l \in Loggers : told(l)
    <3>1. PICK l \in Loggers : \A n \in 1..Len(t) :
            n \in 1..Len(chained[l]) /\ t[n].hash = chained[l][n]
      <4>1. CASE t = <<>>
        BY <4>1, AuditAssumption
      <4>2. CASE t # <<>>
        BY <2>7, <4>2, UnbrokenIsOneLogger DEF t
      <4>3. QED
        BY <4>1, <4>2
    <3>2. Len(chained[l]) \in Nat
      <4>1. chained[l] \in Seq(1..MaxEntries)
        BY DEF IAudit, JournalTypes
      <4>2. QED
        BY <4>1, SeqElements, Zenon
    <3>3. ASSUME NEW limit \in 0..MaxEntries
          PROVE  IsPrefix(hashesOf(shown(limit)), chained[l])
      <4> DEFINE k == Len(shown(limit))
      <4>1. k \in Nat /\ k <= Len(t)
        BY <2>4
      <4> HIDE DEF k
      <4>2. \A n \in 1..k : n \in 1..Len(t)
        BY <2>3, <4>1
      <4>3. k <= Len(chained[l])
        BY <3>1, <3>2, <4>1, <4>2
      <4>4. \A n \in 1..k : t[n].hash = chained[l][n]
        BY <3>1, <4>2
      <4>5. QED
        BY <2>6, <4>3, <4>4 DEF k
    <3>4. QED
      BY <3>3
  <2>8. ASSUME NEW l \in Loggers, told(l), damaged = {} PROVE VerifyChain
    <3>1. shown(MaxEntries) = t /\ MaxEntries \in 0..MaxEntries
      BY <2>1, <2>2, <2>3
    <3>2. Len(t) <= Len(chained[l]) /\ \A n \in 1..Len(t) : t[n].hash = chained[l][n]
      <4>1. IsPrefix(hashesOf(shown(MaxEntries)), chained[l])
        BY <2>8, <3>1
      <4>2. QED
        BY <2>6, <3>1, <4>1
    <3>3. ASSUME NEW n \in 1..Len(t)
          PROVE  t[n].prev = IF n = 1 THEN 0 ELSE t[n - 1].hash
      <4>1a. PICK m \in Loggers : \E j \in 1..Len(chained[m]) :
               t[n].hash = chained[m][j] /\ t[n].prev = IF j = 1 THEN 0 ELSE chained[m][j - 1]
        BY <2>1 DEF IsLogged
      <4>1. PICK j \in 1..Len(chained[m]) :
              t[n].hash = chained[m][j] /\ t[n].prev = IF j = 1 THEN 0 ELSE chained[m][j - 1]
        BY <4>1a
      <4>2. n \in 1..Len(chained[l]) /\ (n # 1 => n - 1 \in 1..Len(t))
        <5>1. Len(chained[l]) \in Nat
          <6>1. chained[l] \in Seq(1..MaxEntries)
            BY DEF IAudit, JournalTypes
          <6>2. QED
            BY <6>1, SeqElements, Zenon
        <5>2. QED
          BY <2>3, <3>2, <5>1
      <4>3. chained[l][n] = chained[m][j]
        BY <3>2, <4>1
      <4>4. m = l /\ j = n
        BY <4>2, <4>3 DEF IAudit, HashesAreUnique
      <4>5. QED
        BY <3>2, <4>1, <4>2, <4>4
    <3>4. DOMAIN t = 1..Len(t)
      BY <2>1
    <3>5. QED
      BY <2>8, <3>3, <3>4 DEF VerifyChain, t
  <2>9. VerifyChain => damaged = {}
    BY DEF VerifyChain
  <2>10. VerifyChain <=> damaged = {} /\ \E l \in Loggers : told(l)
    BY <2>7, <2>8, <2>9
  <2>11. QED
    BY <2>10 DEF VerdictTellsWhole, hashesOf, shown
<1>2. QED
  BY <1>1, AuditInvariant, PTL
=============================================================================
