-------------------------------- MODULE Pool --------------------------------
(***************************************************************************)
(* MCPRegistry (packages/mcp, registry.py and client.py): concurrent calls *)
(* of connect, disconnect, disconnect_all and health_check over the pool   *)
(* _clients.  A step ends at an await.  Clients are numbered as they are   *)
(* created.  The servers are the environment: each call to one may fail.   *)
(***************************************************************************)
EXTENDS Integers, FiniteSets

CONSTANTS
  Servers,   \* the registered servers, all of them allowed
  Users,     \* coroutines that use the registry
  MaxClients \* bound: clients created in all

ASSUME PoolAssumption == MaxClients \in Nat

VARIABLES
  pool,    \* _clients; 0: no entry
  linked,  \* clients whose _connected is set
  open,    \* clients whose stdio context, and so the server's process, is open
  clients, \* clients created so far
  call     \* the call each coroutine is in

poolVars == <<pool, linked, open, clients, call>>

-----------------------------------------------------------------------------
\* A call: what it awaits, of which client, for which server, what
\* connect is called for (health_check lists the tools, an agent calls one), and
\* the servers that disconnect_all has still to go through.
NoCall == [awaits |-> "nothing", client |-> 0, of |-> {}, use |-> "nothing", rest |-> {}]
Uses == {"nothing", "list", "call"}
Calls == [awaits : Uses \cup {"connect", "exit", "next"}, client : 0..MaxClients,
          of : SUBSET Servers, use : Uses, rest : SUBSET Servers]

PoolTypeOK ==
  /\ pool \in [Servers -> 0..MaxClients]
  /\ linked \subseteq 1..MaxClients /\ open \subseteq 1..MaxClients
  /\ clients \in 0..MaxClients
  /\ call \in [Users -> Calls]

PoolInit ==
  /\ pool = [s \in Servers |-> 0]
  /\ linked = {} /\ open = {} /\ clients = 0
  /\ call = [u \in Users |-> NoCall]

Await(u, what, k) == call' = [call EXCEPT ![u].awaits = what, ![u].client = k]
Return(u) == call' = [call EXCEPT ![u] = NoCall]

(* ---- connect, and what it is called for ---- *)

\* The pooled client, or a new one that is not pooled yet.
GetClient(u, s, use) ==
  /\ call[u] = NoCall
  /\ IF pool[s] \in linked
     THEN /\ use # "nothing"
          /\ Await(u, use, pool[s])
          /\ UNCHANGED clients
     ELSE /\ clients < MaxClients /\ clients' = clients + 1
          /\ call' = [call EXCEPT ![u] = [awaits |-> "connect", client |-> clients',
                                          of |-> {s}, use |-> use, rest |-> {}]]
  /\ UNCHANGED <<pool, linked, open>>

\* The connection is up: the client replaces whatever is in the pool by now.
ConnectReturns(u) ==
  LET k == call[u].client IN
  /\ call[u].awaits = "connect"
  /\ linked' = linked \cup {k} /\ open' = open \cup {k}
  /\ pool' = [s \in Servers |-> IF s \in call[u].of THEN k ELSE pool[s]]
  /\ IF call[u].use = "nothing" THEN Return(u) ELSE Await(u, call[u].use, k)
  /\ UNCHANGED clients

\* It may fail after the process was started; nothing closes that.
ConnectRaises(u, started) ==
  /\ call[u].awaits = "connect"
  /\ open' = IF started THEN open \cup {call[u].client} ELSE open
  /\ Return(u)
  /\ UNCHANGED <<pool, linked, clients>>

\* health_check: a server that does not answer stays in the pool.
ListReturns(u) ==
  /\ call[u].awaits = "list"
  /\ Return(u)
  /\ UNCHANGED <<pool, linked, open, clients>>

\* call_tool: an exception of the server is the caller's; the client stays.
CallReturns(u) ==
  /\ call[u].awaits = "call"
  /\ Return(u)
  /\ UNCHANGED <<pool, linked, open, clients>>

(* ---- disconnect and disconnect_all ---- *)

\* Mutant: the entry is removed after the disconnect.
PopLate(s) == UNCHANGED pool

Pop(s) == pool' = [pool EXCEPT ![s] = 0]

\* pop first, then await the client's disconnect if it is connected.
Release(u, s, rest) ==
  /\ Pop(s)
  /\ call' = [call EXCEPT ![u] = [NoCall EXCEPT
                !.awaits = IF pool[s] \in linked THEN "exit" ELSE "next",
                !.client = pool[s], !.rest = rest]]
  /\ UNCHANGED <<linked, open, clients>>

DisconnectServer(u, s) == call[u] = NoCall /\ pool[s] # 0 /\ Release(u, s, {})

\* The list of names is taken once, at the start.
DisconnectAll(u) ==
  LET names == {s \in Servers : pool[s] # 0} IN
  /\ call[u] = NoCall
  /\ \E s \in names : Release(u, s, names \ {s})

\* The session and the process are closed; or that raised and only the flag
\* is cleared.
ExitReturns(u, closed) ==
  /\ call[u].awaits = "exit"
  /\ linked' = linked \ {call[u].client}
  /\ open' = IF closed THEN open \ {call[u].client} ELSE open
  /\ Await(u, "next", 0)
  /\ UNCHANGED <<pool, clients>>

\* The next name, which may have left the pool since.
NextName(u) ==
  /\ call[u].awaits = "next"
  /\ IF call[u].rest = {} THEN Return(u) /\ UNCHANGED <<pool, linked, open, clients>>
     ELSE \E s \in call[u].rest : Release(u, s, call[u].rest \ {s})

PoolNext ==
  \E u \in Users :
    \/ \E s \in Servers : DisconnectServer(u, s) \/ (\E use \in Uses : GetClient(u, s, use))
    \/ ConnectReturns(u) \/ (\E b \in BOOLEAN : ConnectRaises(u, b))
    \/ ListReturns(u) \/ CallReturns(u)
    \/ DisconnectAll(u) \/ (\E b \in BOOLEAN : ExitReturns(u, b)) \/ NextName(u)

PoolSpec == PoolInit /\ [][PoolNext]_poolVars

-----------------------------------------------------------------------------
\* Whoever gets a client out of the pool gets one that is connected and that
\* nobody is disconnecting, however the calls interleave at their awaits; and
\* no client is pooled twice.
PooledIsConnected ==
  \A s \in Servers : pool[s] # 0 =>
    /\ pool[s] \in linked
    /\ \A u \in Users : ~(call[u].awaits = "exit" /\ call[u].client = pool[s])
    /\ \A r \in Servers \ {s} : pool[r] # pool[s]
=============================================================================
