------------------------------- MODULE Login -------------------------------
(***************************************************************************)
(* The stored login (packages/core, auth.py; packages/cli, logout.py): one *)
(* file with a refresh token.  Several processes log in, log out and       *)
(* refresh it, without a lock: read the file, post the token, truncate the *)
(* file, write it.  Two writes that overlap leave the text of the later    *)
(* one (texts of one format and length).                                   *)
(*                                                                         *)
(* The authorization server is the environment.  It takes a refresh token  *)
(* once and answers with the next one, or answers without one and goes on  *)
(* accepting the old; its answer may be lost.  Tokens are numbered as they *)
(* are issued.  dropped is history.                                        *)
(***************************************************************************)
EXTENDS Integers

CONSTANTS
  Refreshers, \* processes that refresh or log in
  MaxTokens   \* bound: tokens issued in all

ASSUME LoginAssumption == MaxTokens \in Nat

VARIABLES
  auth,     \* the file: a refresh token, 0: absent, -1: truncated
  accepted, \* the tokens the server accepts
  issued,   \* tokens issued so far
  hold,     \* where each process is, what it has read and what it received
  dropped   \* tokens whose successor was lost before it was written, or came
            \* while another process was about to write them back

loginVars == <<auth, accepted, issued, hold, dropped>>

-----------------------------------------------------------------------------
Tokens == 1..MaxTokens
NoHold == [at |-> "idle", old |-> 0, new |-> 0]
Unsaved == {"answered", "truncated"}

LoginTypeOK ==
  /\ auth \in Tokens \cup {0, -1}
  /\ accepted \subseteq Tokens /\ issued \in 0..MaxTokens
  /\ hold \in [Refreshers -> [at : {"idle", "read", "unlinked"} \cup Unsaved,
                              old : Tokens \cup {0}, new : Tokens \cup {0}]]
  /\ dropped \subseteq Tokens \cup {0}

LoginInit ==
  /\ auth = 0 /\ accepted = {} /\ issued = 0
  /\ hold = [p \in Refreshers |-> NoHold] /\ dropped = {}

(* ---- refresh_token ---- *)

\* load_credentials; it raises on a file that is absent or truncated.
ReadLogin(p) ==
  /\ hold[p] = NoHold /\ auth > 0
  /\ hold' = [hold EXCEPT ![p] = [at |-> "read", old |-> auth, new |-> 0]]
  /\ UNCHANGED <<auth, accepted, issued, dropped>>

\* The server exchanges the token.
Exchange(p) ==
  /\ hold[p].at = "read" /\ hold[p].old \in accepted
  /\ issued < MaxTokens /\ issued' = issued + 1
  /\ accepted' = (accepted \ {hold[p].old}) \cup {issued'}

\* Processes that will write back the token they have read.
WritesBack(p) == hold[p].at \in Unsaved /\ hold[p].new = 0

PostRefresh(p) ==
  /\ Exchange(p)
  /\ hold' = [hold EXCEPT ![p].at = "answered", ![p].new = issued']
  /\ dropped' = IF \E q \in Refreshers : WritesBack(q) /\ hold[q].old = hold[p].old
                THEN dropped \cup {hold[p].old} ELSE dropped
  /\ UNCHANGED auth

\* The answer holds a new access token and no refresh token.
PostKeeps(p) ==
  /\ hold[p].at = "read" /\ hold[p].old \in accepted
  /\ hold' = [hold EXCEPT ![p].at = "answered"]
  /\ UNCHANGED <<auth, accepted, issued, dropped>>

\* httpx raises: the answer did not arrive.
AnswerLost(p) ==
  /\ Exchange(p)
  /\ hold' = [hold EXCEPT ![p] = NoHold]
  /\ dropped' = dropped \cup {hold[p].old}
  /\ UNCHANGED auth

\* The server refuses, or was not reached.
PostRaises(p) ==
  /\ hold[p].at = "read"
  /\ hold' = [hold EXCEPT ![p] = NoHold]
  /\ UNCHANGED <<auth, accepted, issued, dropped>>

(* ---- login: the end of the browser flow ---- *)

CodeExchanged(p) ==
  /\ hold[p] = NoHold
  /\ issued < MaxTokens /\ issued' = issued + 1
  /\ accepted' = accepted \cup {issued'}
  /\ hold' = [hold EXCEPT ![p] = [at |-> "answered", old |-> 0, new |-> issued']]
  /\ UNCHANGED <<auth, dropped>>

(* ---- save_credentials, logout ---- *)

OpenLogin(p) ==
  /\ hold[p].at = "answered"
  /\ auth' = -1
  /\ hold' = [hold EXCEPT ![p].at = "truncated"]
  /\ UNCHANGED <<accepted, issued, dropped>>

\* Mutant: a refreshed access token beside the refresh token that was read.
TokenRead(p) == IF hold[p].old = 0 THEN hold[p].new ELSE hold[p].old

TokenToSave(p) == IF hold[p].new = 0 THEN hold[p].old ELSE hold[p].new

WriteLogin(p) ==
  /\ hold[p].at = "truncated"
  /\ auth' = TokenToSave(p)
  /\ hold' = [hold EXCEPT ![p] = NoHold]
  /\ UNCHANGED <<accepted, issued, dropped>>

\* A file that is being written keeps its writer, but has no name any more.
Logout ==
  /\ auth # 0 /\ auth' = 0
  /\ hold' = [p \in Refreshers |->
       IF hold[p].at = "truncated" THEN [hold[p] EXCEPT !.at = "unlinked"] ELSE hold[p]]
  /\ UNCHANGED <<accepted, issued, dropped>>

\* The process dies; or (chmod raises) it has written to a file without a name.
LoginDies(p) ==
  /\ hold[p] # NoHold
  /\ hold' = [hold EXCEPT ![p] = NoHold]
  /\ dropped' = IF hold[p].new = 0 THEN dropped ELSE dropped \cup {hold[p].old}
  /\ UNCHANGED <<auth, accepted, issued>>

LoginNext ==
  \/ \E p \in Refreshers :
       \/ ReadLogin(p) \/ PostRefresh(p) \/ PostKeeps(p) \/ AnswerLost(p)
       \/ PostRaises(p) \/ CodeExchanged(p) \/ OpenLogin(p) \/ WriteLogin(p) \/ LoginDies(p)
  \/ Logout

LoginSpec == LoginInit /\ [][LoginNext]_loginVars

-----------------------------------------------------------------------------
\* The login is kept: the refresh token in the file is one the server still
\* accepts, or its successor is in the hands of a process that has yet to
\* write it, or was lost with a process or an answer.  Refreshes that overlap
\* with each other, with a logout or with a new login never overwrite a good
\* token with a used one; but for one case: one refresh is answered without a
\* new refresh token, and before it writes the old one back, another exchanges it.
LoginIsKept ==
  auth > 0 => \/ auth \in accepted \/ auth \in dropped
              \/ \E p \in Refreshers :
                   hold[p].at \in Unsaved /\ hold[p].new # 0 /\ hold[p].old = auth
=============================================================================
