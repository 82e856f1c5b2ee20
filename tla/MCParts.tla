------------------------------ MODULE MCParts ------------------------------
(***************************************************************************)
(* Small instances of the components that share no state with each other,  *)
(* for TLC: a behaviour picks one part and runs it alone, the others stay  *)
(* in their initial states, so the state spaces add up.                    *)
(***************************************************************************)
EXTENDS SubAgents, Dispatch, Roster, Brain, AgentTurn, Pool, Ledger, Saves,
        Prompts, Login, Selection, AuditLog, Config, CommandCenter

VARIABLE part

partsVars == <<part, vars, dispatchVars, rosterVars, brainVars, turnVars,
               poolVars, ledgerVars, savesVars, promptVars, loginVars,
               selectionVars, auditVars, configVars, centerVars>>

\* Two months in three days.
SomeMonths == <<1, 1, 2>>

\* A budget that the system prompt has overdrawn, and some that are left.
SomeBudgets == {-1, 2, 4}

\* Constitutions of one rule, or none; tests that look for one phrase, or none.
FewTests == {r \in [expects : SUBSET Phrases, forbids : SUBSET Phrases] :
               Cardinality(r.expects) + Cardinality(r.forbids) <= 1}
FewRules == {r \in [blocked : SUBSET Phrases, required : SUBSET Phrases] :
               Cardinality(r.blocked) + Cardinality(r.required) <= 1}

Parts == {"spawn", "dispatch", "hr", "session", "brain", "turn", "pool",
          "ledger", "saves", "versions", "optimizer", "login", "messages", "tools",
          "audit", "config", "center"}

PartsInit ==
  /\ part \in Parts
  \* Only the part that runs starts in all its initial states (these conjuncts
  \* come first so that TLC does not enumerate what they exclude).
  /\ IF part = "dispatch" THEN TRUE
     ELSE /\ who = [j \in Jobs |-> CHOOSE e \in Employees : TRUE]
          /\ text = [j \in Jobs |-> CHOOSE x \in Texts : TRUE]
  /\ IF part = "optimizer" THEN rules \in FewRules /\ tests \in [Tests -> FewTests]
     ELSE /\ rules = [blocked |-> {}, required |-> {}]
          /\ tests = [t \in Tests |-> [expects |-> {}, forbids |-> {}]]
          /\ holds = [c \in 0..MaxCandidates |-> {}]
  /\ IF part = "tools" THEN TRUE
     ELSE hidden = {} /\ estimate = [t \in Tools |-> 0]
  /\ Init /\ DispatchInit /\ RosterInit /\ BrainInit /\ TurnInit /\ PoolInit
  /\ LedgerInit /\ SavesInit /\ PromptsInit /\ LoginInit /\ SelectionInit
  /\ AuditInit /\ ConfigInit /\ CenterInit

\* Calls of spawn() come in the order of their names, which are all alike.
CalledInOrder == \A a, b \in Agents : a < b /\ pc[a] = "idle" => pc[b] = "idle"

\* One clerk beside a session; without a session all of them, at one employee,
\* and only that one clerk is ever at any but the first employee.
OneClerk == {c \in Clerks : c = CHOOSE d \in Clerks : TRUE}
AtOneEmployee ==
  /\ \A c, d \in Clerks : 0 \in {order[c].of, order[d].of, order[c].of - order[d].of}
  /\ \A c \in Clerks \ OneClerk : order[c].of \in {0, 1}

\* All layers of a configuration speak of the same section or setting (a merge
\* takes each for itself).
OneName ==
  Cardinality({s \in Names : env[s].kind # "none" \/ \E n \in Files : said[n][s].kind # "none"}) <= 1

\* Half-written saves of one manager only, which reads them and goes no further.
HalfWritten ==
  LET one == CHOOSE m \in Authors : TRUE
  IN  /\ manifest'.cut /\ ~manifest.cut => author'[one] = "saving"
      /\ \A m \in Authors : copy'[m].cut => m = one /\ author'[m] # "saving"

PartsNext ==
  /\ UNCHANGED part
  /\ part # "spawn" => UNCHANGED vars
  /\ part # "dispatch" => UNCHANGED dispatchVars
  /\ part \notin {"hr", "session"} => UNCHANGED rosterVars
  /\ part # "brain" => UNCHANGED brainVars
  /\ part # "turn" => UNCHANGED turnVars
  /\ part # "pool" => UNCHANGED poolVars
  /\ part # "ledger" => UNCHANGED ledgerVars
  /\ part # "saves" => UNCHANGED savesVars
  /\ part \notin {"versions", "optimizer"} => UNCHANGED promptVars
  /\ part # "login" => UNCHANGED loginVars
  /\ part \notin {"messages", "tools"} => UNCHANGED selectionVars
  /\ part # "audit" => UNCHANGED auditVars
  /\ part # "config" => UNCHANGED configVars
  /\ part # "center" => UNCHANGED centerVars
  /\ \/ part = "spawn" /\ Next /\ CalledInOrder'
     \/ part = "dispatch" /\ DispatchNext
     \/ part = "hr" /\ (\E c \in Clerks : ClerkStep(c)) /\ AtOneEmployee'
     \/ part = "session" /\ \/ \E c \in OneClerk : ClerkStep(c)
                            \/ \E e \in Staff : Load(e) \/ AssignEmployee(e)
     \/ part = "brain" /\ BrainNext
     \/ part = "turn" /\ TurnNext
     \/ part = "pool" /\ PoolNext
     \/ part = "ledger" /\ LedgerNext
     \/ part = "saves" /\ SavesNext
     \/ part = "versions" /\ (\E m \in Authors : VersionStep(m)) /\ HalfWritten
     \/ part = "optimizer" /\ TryCandidate
     \/ part = "login" /\ LoginNext
     \/ part = "messages" /\ (AskForContext \/ ConsiderNext \/ \E n \in Lengths : Say(n))
     \/ part = "tools" /\ (AskForTools \/ ConsiderNext \/ \E t \in Tools : UseTool(t))
     \/ part = "audit" /\ AuditNext
     \/ part = "config" /\ ConfigNext /\ OneName'
     \/ part = "center" /\ CenterNext

\* Fairness, weaker than that of the modules: as long as some spawn can go on,
\* one does; as long as some process that has closed its output or was
\* signalled is there, one exits; as long as some prompt can be built on, one is.
\* Of the terminal UI both tasks run, and timeouts fire; user and server owe
\* nothing.
PartsSpec ==
  /\ PartsInit /\ [][PartsNext]_partsVars
  /\ WF_vars(part = "spawn" /\ \E a \in Agents : SpawnStep(a))
  /\ WF_vars(part = "spawn" /\ \E a \in Agents, how \in {"succeeded", "failed"} :
                (a \in eof \/ signal[a] # "none") /\ Exit(a, how))
  /\ WF_dispatchVars(part = "dispatch" /\ \E j \in Jobs : Prepare(j))
  /\ WF_centerVars(part = "center" /\ Pump)
  /\ WF_centerVars(part = "center" /\ ReceiveLoop)
  /\ WF_centerVars(part = "center" /\ ShowNote)

\* The variables of the part that runs have their types.
PartsTypeOK ==
  /\ part \in Parts
  /\ part = "spawn" => TypeOK
  /\ part = "dispatch" => DispatchTypeOK
  /\ part \in {"hr", "session"} => RosterTypeOK
  /\ part = "brain" => BrainTypeOK
  /\ part = "turn" => TurnTypeOK
  /\ part = "pool" => PoolTypeOK
  /\ part = "ledger" => LedgerTypeOK
  /\ part = "saves" => SavesTypeOK
  /\ part \in {"versions", "optimizer"} => PromptsTypeOK
  /\ part = "login" => LoginTypeOK
  /\ part \in {"messages", "tools"} => SelectionTypeOK
  /\ part = "audit" => AuditTypeOK
  /\ part = "config" => ConfigTypeOK
  /\ part = "center" => CenterTypeOK
=============================================================================
