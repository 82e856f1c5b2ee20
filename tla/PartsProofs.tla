---------------------------- MODULE PartsProofs ----------------------------
(***************************************************************************)
(* Proofs about the parts that MCParts runs beside each other: a behaviour *)
(* of the composition is one of every part, so that what is proved of the  *)
(* specification of a part holds in the composition as well.               *)
(***************************************************************************)
EXTENDS MCParts, SessionProofs, FileProofs, CommandCenterProofs

\* Fairness aside.
LEMMA PartsSteps == PartsSpec => PartsInit /\ [][PartsNext]_partsVars
BY PTL DEF PartsSpec

LEMMA SpawnPart == PartsSpec => Spec
<1>1. PartsInit => Init
  BY DEF PartsInit
<1>2. [PartsNext]_partsVars => [Next]_vars
  BY DEF PartsNext, partsVars, Next
<1>3. QED
  BY <1>1, <1>2, PartsSteps, PTL DEF Spec

LEMMA DispatchPart == PartsSpec => DispatchSpec
<1>1. PartsInit => DispatchInit
  BY DEF PartsInit
<1>2. [PartsNext]_partsVars => [DispatchNext]_dispatchVars
  BY DEF PartsNext, partsVars, DispatchNext
<1>3. QED
  BY <1>1, <1>2, PartsSteps, PTL DEF DispatchSpec

LEMMA RosterPart == PartsSpec => RosterSpec
<1>1. PartsInit => RosterInit
  BY DEF PartsInit
<1>2. [PartsNext]_partsVars => [RosterNext]_rosterVars
  BY DEF PartsNext, partsVars, RosterNext, OneClerk
<1>3. QED
  BY <1>1, <1>2, PartsSteps, PTL DEF RosterSpec

LEMMA BrainPart == PartsSpec => BrainSpec
<1>1. PartsInit => BrainInit
  BY DEF PartsInit
<1>2. [PartsNext]_partsVars => [BrainNext]_brainVars
  BY DEF PartsNext, partsVars, BrainNext
<1>3. QED
  BY <1>1, <1>2, PartsSteps, PTL DEF BrainSpec

LEMMA TurnPart == PartsSpec => TurnSpec
<1>1. PartsInit => TurnInit
  BY DEF PartsInit
<1>2. [PartsNext]_partsVars => [TurnNext]_turnVars
  BY DEF PartsNext, partsVars, TurnNext
<1>3. QED
  BY <1>1, <1>2, PartsSteps, PTL DEF TurnSpec

LEMMA PoolPart == PartsSpec => PoolSpec
<1>1. PartsInit => PoolInit
  BY DEF PartsInit
<1>2. [PartsNext]_partsVars => [PoolNext]_poolVars
  BY DEF PartsNext, partsVars, PoolNext
<1>3. QED
  BY <1>1, <1>2, PartsSteps, PTL DEF PoolSpec

LEMMA LedgerPart == PartsSpec => LedgerSpec
<1>1. PartsInit => LedgerInit
  BY DEF PartsInit
<1>2. [PartsNext]_partsVars => [LedgerNext]_ledgerVars
  BY DEF PartsNext, partsVars, LedgerNext
<1>3. QED
  BY <1>1, <1>2, PartsSteps, PTL DEF LedgerSpec

LEMMA SavesPart == PartsSpec => SavesSpec
<1>1. PartsInit => SavesInit
  BY DEF PartsInit
<1>2. [PartsNext]_partsVars => [SavesNext]_savesVars
  BY DEF PartsNext, partsVars, SavesNext
<1>3. QED
  BY <1>1, <1>2, PartsSteps, PTL DEF SavesSpec

LEMMA PromptsPart == PartsSpec => PromptsSpec
<1>1. PartsInit => PromptsInit
  BY DEF PartsInit
<1>2. [PartsNext]_partsVars => [PromptsNext]_promptVars
  BY DEF PartsNext, partsVars, PromptsNext
<1>3. QED
  BY <1>1, <1>2, PartsSteps, PTL DEF PromptsSpec

LEMMA LoginPart == PartsSpec => LoginSpec
<1>1. PartsInit => LoginInit
  BY DEF PartsInit
<1>2. [PartsNext]_partsVars => [LoginNext]_loginVars
  BY DEF PartsNext, partsVars, LoginNext
<1>3. QED
  BY <1>1, <1>2, PartsSteps, PTL DEF LoginSpec

LEMMA SelectionPart == PartsSpec => SelectionSpec
<1>1. PartsInit => SelectionInit
  BY DEF PartsInit
<1>2. [PartsNext]_partsVars => [SelectionNext]_selectionVars
  BY DEF PartsNext, partsVars, SelectionNext
<1>3. QED
  BY <1>1, <1>2, PartsSteps, PTL DEF SelectionSpec

LEMMA AuditPart == PartsSpec => AuditSpec
<1>1. PartsInit => AuditInit
  BY DEF PartsInit
<1>2. [PartsNext]_partsVars => [AuditNext]_auditVars
  BY DEF PartsNext, partsVars, AuditNext
<1>3. QED
  BY <1>1, <1>2, PartsSteps, PTL DEF AuditSpec

LEMMA ConfigPart == PartsSpec => ConfigSpec
<1>1. PartsInit => ConfigInit
  BY DEF PartsInit
<1>2. [PartsNext]_partsVars => [ConfigNext]_configVars
  BY DEF PartsNext, partsVars, ConfigNext
<1>3. QED
  BY <1>1, <1>2, PartsSteps, PTL DEF ConfigSpec

LEMMA CenterPart == PartsSpec => CenterSpec
<1>1. PartsInit => CenterInit
  BY DEF PartsInit
<1>2. [PartsNext]_partsVars => [CenterNext]_centerVars
  BY DEF PartsNext, partsVars, CenterNext
<1>3. QED
  BY <1>1, <1>2, PartsSteps, PTL DEF CenterSpec

-----------------------------------------------------------------------------
(* Their types *)

LEMMA BrainIsTyped == BrainSpec => []BrainTypeOK
<1>1. IBrain => BrainTypeOK
  BY DEF IBrain
<1>2. QED
  BY <1>1, BrainInitInv, BrainStep, PTL DEF BrainSpec

LEMMA LoginIsTyped == LoginSpec => []LoginTypeOK
<1>1. ILogin => LoginTypeOK
  BY DEF ILogin
<1>2. QED
  BY <1>1, LoginInitInv, LoginStep, PTL DEF LoginSpec

LEMMA SavesIsTyped == SavesSpec => []SavesTypeOK
<1>1. ISaves => SavesTypeOK
  BY DEF ISaves
<1>2. QED
  BY <1>1, SavesInitInv, SavesStep, PTL DEF SavesSpec

LEMMA LedgerIsTyped == LedgerSpec => []LedgerTypeOK
<1>1. ILedger => LedgerTypeOK
  BY DEF ILedger
<1>2. QED
  BY <1>1, LedgerInitInv, LedgerStep, PTL DEF LedgerSpec

LEMMA RosterIsTyped == RosterSpec => []RosterTypeOK
<1>1. IRoster => RosterTypeOK
  BY DEF IRoster
<1>2. QED
  BY <1>1, RosterInitInv, RosterStep, PTL DEF RosterSpec

LEMMA PromptsIsTyped == PromptsSpec => []PromptsTypeOK
<1>1. IPrompts => PromptsTypeOK
  BY DEF IPrompts
<1>2. QED
  BY <1>1, PromptsInitInv, PromptsStep, PTL DEF PromptsSpec

LEMMA ConfigIsTyped == ConfigSpec => []ConfigTypeOK
<1>1. IConfig => ConfigTypeOK
  BY DEF IConfig
<1>2. QED
  BY <1>1, ConfigInitInv, ConfigStep, PTL DEF ConfigSpec

LEMMA DispatchIsTyped == DispatchSpec => []DispatchTypeOK
<1>1. IDispatch => DispatchTypeOK
  BY DEF IDispatch
<1>2. QED
  BY <1>1, DispatchInvariance, PTL

LEMMA SelectionIsTyped == SelectionSpec => []SelectionTypeOK
<1>1. ISelection => SelectionTypeOK
  BY DEF ISelection
<1>2. QED
  BY <1>1, SelectionInvariance, PTL

\* A loop never runs more rounds than it may, nor collects more calls than
\* the stream had, and asks with calls and outputs only.
TurnBounds ==
  /\ iteration \in 1..MaxIterations
  /\ Len(calls) <= MaxCalls

LEMMA TurnIsTyped == TurnSpec => []TurnTypeOK
<1>1. TurnInit => TurnBounds
  BY TurnAssumption DEF TurnInit, TurnBounds
<1>2. ITurn /\ TurnBounds /\ [TurnNext]_turnVars => TurnBounds'
  <2> SUFFICES ASSUME ITurn, TurnBounds, [TurnNext]_turnVars PROVE TurnBounds'
    OBVIOUS
  <2>1. calls \in Seq(CallIds) /\ (stage = "calling" => calls # <<>>)
    BY DEF ITurn, TurnTypes
  <2>2. CASE Request
    <3>1. Len(calls') = 0 /\ iteration' = iteration
      BY <2>2 DEF Request
    <3>2. QED
      BY <3>1, TurnAssumption DEF TurnBounds
  <2>3. ASSUME NEW id \in CallIds, CallDone(id) PROVE TurnBounds'
    <3>1. Len(calls') = Len(calls) + 1 /\ Len(calls) \in Nat /\ Len(calls) < MaxCalls
          /\ iteration' = iteration
      BY <2>1, <2>3 DEF CallDone
    <3>2. QED
      BY <3>1, TurnAssumption DEF TurnBounds
  <2>4. ASSUME NEW ok \in BOOLEAN, ToolEnds(ok) PROVE TurnBounds'
    <3>1. Len(calls') = Len(calls) - 1 /\ Len(calls) \in Nat
      BY <2>1, <2>4 DEF ToolEnds
    <3>2. iteration' = iteration \/ (iteration # MaxIterations /\ iteration' = iteration + 1)
      BY <2>4 DEF ToolEnds
    <3>3. QED
      BY <3>1, <3>2, TurnAssumption DEF TurnBounds
  <2>5. CASE StreamEnds \/ TurnRaises \/ UNCHANGED turnVars
    BY <2>5 DEF StreamEnds, TurnRaises, turnVars, TurnBounds
  <2>6. QED
    BY <2>2, <2>3, <2>4, <2>5 DEF TurnNext
<1>3. ITurn /\ TurnBounds => TurnTypeOK
  <2> SUFFICES ASSUME ITurn, TurnBounds PROVE TurnTypeOK
    OBVIOUS
  <2>1. ASSUME NEW n \in DOMAIN messages
        PROVE  /\ messages[n].role \in {"user", "assistant", "tool"}
               /\ ToSet(messages[n].ids) \subseteq CallIds
    <3>1. messages \in Seq(MessageSet)
      BY DEF ITurn, TurnTypes
    <3>2. messages[n] \in MessageSet
      BY <3>1
    <3>3. messages[n].ids \in Seq(CallIds) /\ messages[n].role \in {"user", "assistant", "tool"}
      BY <3>2 DEF MessageSet
    <3>4. QED
      BY <3>3 DEF ToSet
  <2>2. calls \in BoundedSeq(CallIds, MaxCalls)
    <3>1. calls \in Seq(CallIds)
      BY DEF ITurn, TurnTypes
    <3>2. calls \in [1..Len(calls) -> CallIds] /\ Len(calls) \in Nat
      BY <3>1
    <3>3. Len(calls) \in 0..MaxCalls
      BY <3>2, TurnAssumption DEF TurnBounds
    <3>4. QED
      BY <3>2, <3>3 DEF BoundedSeq, SeqOf
  <2>3. ASSUME NEW n \in DOMAIN sent PROVE sent[n].kind \in {"call", "output"}
    <3>1. sent \in Seq(Item)
      BY DEF ITurn, SentAnswered
    <3>2. sent[n] \in Item
      BY <3>1
    <3>3. QED
      BY <3>2 DEF Item
  <2>4. QED
    BY <2>1, <2>2, <2>3 DEF ITurn, TurnTypes, TurnBounds, TurnTypeOK
<1>4. QED
  BY <1>1, <1>2, <1>3, TurnInvariant, PTL DEF TurnSpec

LEMMA AuditIsTyped == AuditSpec => []AuditTypeOK
<1>1. IAudit => AuditTypeOK
  <2> SUFFICES ASSUME IAudit PROVE AuditTypeOK
    OBVIOUS
  <2>1. ASSUME NEW d \in 1..LogDays PROVE ToSet(journal[d]) \subseteq Entry
    <3>1. journal[d] \in Seq(Entry)
      BY DEF IAudit, JournalTypes
    <3>2. QED
      BY <3>1 DEF ToSet
  <2>2. ASSUME NEW l \in Loggers PROVE writing[l] = {} \/ \E e \in Entry : writing[l] = {e}
    <3>1. writing[l] \subseteq Entry /\ \A e, f \in writing[l] : e = f
      BY DEF IAudit, JournalTypes, WritesTheLast
    <3>2. QED
      BY <3>1
  <2>3. ASSUME NEW l \in Loggers PROVE ToSet(chained[l]) \subseteq 1..hashes
    <3>1. /\ chained[l] \in Seq(1..MaxEntries) /\ hashes \in 0..MaxEntries
          /\ \A i \in 1..Len(chained[l]) : chained[l][i] <= hashes
      BY DEF IAudit, JournalTypes, HashesAreUnique
    <3>2. ASSUME NEW S, NEW s \in Seq(S)
          PROVE  \A i \in DOMAIN s : s[i] \in S /\ i \in 1..Len(s)
      OBVIOUS
    <3>3. \A i \in DOMAIN chained[l] : chained[l][i] \in 1..MaxEntries /\ i \in 1..Len(chained[l])
      BY <3>1, <3>2
    <3>4. \A i \in DOMAIN chained[l] : chained[l][i] \in 1..hashes
      BY <3>1, <3>3, AuditAssumption
    <3>5. QED
      BY <3>4 DEF ToSet
  <2>4. QED
    BY <2>1, <2>2, <2>3 DEF IAudit, JournalTypes, AuditTypeOK
<1>2. QED
  BY <1>1, AuditInvariant, PTL

-----------------------------------------------------------------------------
\* Whichever part runs, its variables have their types, for every value of the
\* constants of all parts.
THEOREM PartsAreTyped == PartsSpec => []PartsTypeOK
<1>1. PartsSpec => [](part \in Parts)
  <2>1. PartsInit => part \in Parts
    BY DEF PartsInit
  <2>2. part \in Parts /\ [PartsNext]_partsVars => (part \in Parts)'
    BY DEF PartsNext, partsVars
  <2>3. QED
    BY <2>1, <2>2, PartsSteps, PTL
<1>2. PartsSpec =>
        [](/\ TypeOK /\ DispatchTypeOK /\ RosterTypeOK /\ BrainTypeOK /\ TurnTypeOK
           /\ PoolTypeOK /\ LedgerTypeOK /\ SavesTypeOK /\ PromptsTypeOK /\ LoginTypeOK
           /\ SelectionTypeOK /\ AuditTypeOK /\ ConfigTypeOK /\ CenterTypeOK)
  BY SpawnPart, DispatchPart, RosterPart, BrainPart, TurnPart, PoolPart, LedgerPart,
     SavesPart, PromptsPart, LoginPart, SelectionPart, AuditPart, ConfigPart, CenterPart,
     SpawnTypes, DispatchIsTyped, RosterIsTyped, BrainIsTyped, TurnIsTyped, PoolTypes,
     LedgerIsTyped, SavesIsTyped, PromptsIsTyped, LoginIsTyped, SelectionIsTyped, AuditIsTyped,
     ConfigIsTyped, CenterTypes, PTL
<1>3. /\ part \in Parts
      /\ TypeOK /\ DispatchTypeOK /\ RosterTypeOK /\ BrainTypeOK /\ TurnTypeOK
      /\ PoolTypeOK /\ LedgerTypeOK /\ SavesTypeOK /\ PromptsTypeOK /\ LoginTypeOK
      /\ SelectionTypeOK /\ AuditTypeOK /\ ConfigTypeOK /\ CenterTypeOK
      => PartsTypeOK
  BY DEF PartsTypeOK
<1>4. QED
  BY <1>1, <1>2, <1>3, PTL

\* The safety properties of the parts hold where they run beside each other,
\* for every value of the constants of all parts: no part can break what
\* another one promises.
THEOREM PartsAreSafe ==
  PartsSpec =>
    [](/\ PermitsConserved /\ NoStrandedWaiter /\ ActiveIsSupervised /\ EndedCleanly
       /\ UsedIsOpen /\ WorkingIsShown /\ RosterIsRight /\ FindableMemory
       /\ CallsAreAnswered /\ PooledIsConnected /\ SpendIsCounted /\ SavedStaysLoadable
       /\ ActiveExists /\ BestIsBest /\ LoginIsKept /\ SelectionFits
       /\ VerdictTellsWhole /\ LastLayerWins
       /\ UsableIsHeard /\ StartNeverCloses /\ CleanExit)
BY SpawnPart, DispatchPart, RosterPart, BrainPart, TurnPart, PoolPart, LedgerPart,
   SavesPart, PromptsPart, LoginPart, SelectionPart, AuditPart, ConfigPart, CenterPart,
   PermitConservation, NoIdlePermit, ActiveAreSupervised, SpawnsEndCleanly,
   ReadsAreOpen, DisplayIsTrue, OrdersReachTheRoster, MemoriesAreFound,
   EveryCallIsAnswered, PoolIsConnected, SpendingIsCounted, SavesAreAtomic,
   ActiveIsThere, OptimizerChoosesBest, LoginSurvives, ChoicesFit,
   AuditTellsWhole, LayersPrevail, UsableSessionIsHeard, FailedStartStaysOpen,
   NothingIsLeftBehind, PTL
=============================================================================
