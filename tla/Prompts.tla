------------------------------ MODULE Prompts ------------------------------
(***************************************************************************)
(* Prompt versions and their optimization (packages/optimizer).            *)
(* versioning.py: managers, in processes of their own, read the manifest   *)
(* once, change their copy and write it back whole (two writes are taken   *)
(* not to overlap in the file).  engine.py, constitution.py, evaluator.py: *)
(* optimize tries candidates one after the other against the current       *)
(* prompt.  The two share nothing: optimize never touches the versions.    *)
(*                                                                         *)
(* Of a text only matters which of the phrases it holds that rules and     *)
(* tests look for.                                                         *)
(***************************************************************************)
EXTENDS Integers, FiniteSets

CONSTANTS
  Versions,      \* version numbers of the prompt
  Authors,       \* managers
  MaxCandidates, \* the candidates there are
  Phrases,       \* the phrases of the constitution and the golden tests
  Tests          \* golden tests

ASSUME VersionsAssumption == Versions \subseteq Nat \ {0}
ASSUME CandidatesAssumption == MaxCandidates \in Nat /\ IsFiniteSet(Tests)

VARIABLES
  manifest, \* the file's entry of the prompt
  copy,     \* the entry each manager holds
  author,   \* what each manager is doing
  holds,    \* the phrases in the current prompt (0) and in each candidate
  rules,    \* the constitution: the phrases it blocks and those it requires
  tests,    \* the phrases each test expects and those it forbids
  tried,    \* candidates tried so far
  best      \* best_candidate

versionVars == <<manifest, copy, author>>
optimizerVars == <<holds, rules, tests, tried, best>>
promptVars == <<versionVars, optimizerVars>>

-----------------------------------------------------------------------------
\* known: the versions;  parent: of each (0: none);  active: 0 without versions.
\* An empty file loads as NoVersions.  cut (history): the entry descends from a
\* save that was read half-written.
Entries == [known : SUBSET Versions, parent : [Versions -> Versions \cup {0}],
            active : Versions \cup {0}, cut : BOOLEAN]
NoVersions ==
  [known |-> {}, parent |-> [v \in Versions |-> 0], active |-> 0, cut |-> FALSE]
Candidates == 1..MaxCandidates

PromptsTypeOK ==
  /\ manifest \in Entries /\ copy \in [Authors -> Entries]
  /\ author \in [Authors -> {"absent", "loaded", "saving"}]
  /\ holds \in [0..MaxCandidates -> SUBSET Phrases]
  /\ rules \in [blocked : SUBSET Phrases, required : SUBSET Phrases]
  /\ tests \in [Tests -> [expects : SUBSET Phrases, forbids : SUBSET Phrases]]
  /\ tried \in 0..MaxCandidates /\ best \in 0..tried

PromptsInit ==
  /\ manifest = NoVersions
  /\ copy = [m \in Authors |-> NoVersions]
  /\ author = [m \in Authors |-> "absent"]
  \* A candidate is the current prompt and a sentence more.
  /\ \E now \in SUBSET Phrases :
       holds \in [0..MaxCandidates -> {ps \in SUBSET Phrases : now \subseteq ps}]
         /\ holds[0] = now
  /\ rules \in [blocked : SUBSET Phrases, required : SUBSET Phrases]
  /\ tests \in [Tests -> [expects : SUBSET Phrases, forbids : SUBSET Phrases]]
  /\ tried = 0 /\ best = 0

(* ---- versions ---- *)

\* (A manifest that was cut short may not parse: then there is no manager.)
LoadManifest(m) ==
  /\ author[m] = "absent"
  /\ author' = [author EXCEPT ![m] = "loaded"]
  /\ copy' = [copy EXCEPT ![m] = manifest]
  /\ UNCHANGED <<manifest, optimizerVars>>

\* A change of the copy and the first half of _save_manifest, which truncates.
Edit(m, entry) ==
  /\ author[m] = "loaded" /\ \A n \in Authors : author[n] # "saving"
  /\ copy' = [copy EXCEPT ![m] = entry]
  /\ author' = [author EXCEPT ![m] = "saving"]
  /\ manifest' = NoVersions
  /\ UNCHANGED optimizerVars

\* An existing version is replaced; a parent need not exist.
CreateVersion(m, v, parent) ==
  Edit(m, [copy[m] EXCEPT !.known = @ \cup {v}, !.parent[v] = parent,
                          !.active = IF @ = 0 THEN v ELSE @])

SetActive(m, v) == v \in copy[m].known /\ Edit(m, [copy[m] EXCEPT !.active = v])

\* Mutant: the parent is not looked up among the versions.
RollbackToParent(m) ==
  /\ copy[m].active # 0 /\ copy[m].parent[copy[m].active] # 0
  /\ Edit(m, [copy[m] EXCEPT !.active = copy[m].parent[@]])

RollBack(m) ==
  /\ copy[m].active # 0 /\ copy[m].parent[copy[m].active] \in copy[m].known
  /\ Edit(m, [copy[m] EXCEPT !.active = copy[m].parent[@]])

\* A write that takes more than one step has put the beginning in the file:
\* the active version, which comes first, and some of the versions, the last
\* of them perhaps without its parent.  (Cut off before the first version, it
\* makes managers that can change nothing.)
WriteBeginning(m) ==
  /\ author[m] = "saving"
  /\ \E vs \in SUBSET copy[m].known : \E last \in vs : \E p \in {0, copy[m].parent[last]} :
       manifest' = [copy[m] EXCEPT !.known = vs, !.parent[last] = p, !.cut = TRUE]
  /\ UNCHANGED <<copy, author, optimizerVars>>

SaveManifest(m) ==
  /\ author[m] = "saving"
  /\ manifest' = copy[m]
  /\ author' = [author EXCEPT ![m] = "loaded"]
  /\ UNCHANGED <<copy, optimizerVars>>

\* The process ends, or dies in the middle of a save.
AuthorEnds(m) ==
  /\ author[m] # "absent"
  /\ author' = [author EXCEPT ![m] = "absent"]
  /\ copy' = [copy EXCEPT ![m] = NoVersions]
  /\ UNCHANGED <<manifest, optimizerVars>>

(* ---- optimize: the next candidate ---- *)

ValidatePrompt(c) ==
  rules.blocked \intersect holds[c] = {} /\ rules.required \subseteq holds[c]

\* run_golden_tests.  The prompt is tested together with the test's input: what
\* the input holds is not expected of the prompt; a test that forbids what its
\* input holds is never passed (expects and forbids share a phrase).
Passed(c) ==
  Cardinality({t \in Tests : /\ tests[t].expects \subseteq holds[c]
                             /\ tests[t].forbids \intersect holds[c] = {}})

\* Mutant: the constitution is not asked.
BetterUnchecked(c) == Passed(c) > Passed(best)

\* The score of a prompt is the share of the tests it passes.
Better(c) == ValidatePrompt(c) /\ Passed(c) > Passed(best)

TryCandidate ==
  /\ tried < MaxCandidates /\ tried' = tried + 1
  /\ best' = IF Better(tried + 1) THEN tried + 1 ELSE best
  /\ UNCHANGED <<versionVars, holds, rules, tests>>

VersionStep(m) ==
  \/ LoadManifest(m) \/ WriteBeginning(m) \/ SaveManifest(m) \/ AuthorEnds(m) \/ RollBack(m)
  \/ \E v \in Versions : SetActive(m, v) \/ \E p \in Versions \cup {0} :
                                              CreateVersion(m, v, p)

PromptsNext == (\E m \in Authors : VersionStep(m)) \/ TryCandidate

PromptsSpec == PromptsInit /\ [][PromptsNext]_promptVars

-----------------------------------------------------------------------------
\* Whichever managers overwrite each other's manifest, roll back, replace a
\* version's parent or die before they write: a prompt with versions has an
\* active one, and it is one of them.  Only what was read of a half-written save
\* may lack it, and what was made of that.
ActiveExists ==
  \A entry \in {manifest} \cup {copy[m] : m \in Authors} : entry.cut \/
    IF entry.known = {} THEN entry.active = 0 ELSE entry.active \in entry.known

\* The prompt chosen passes more tests than any candidate before it and at
\* least as many as any after it; it is one that the constitution allows, or
\* the current prompt (which the constitution is not asked about) if no allowed
\* candidate is better: as when it holds a blocked phrase itself, since every
\* candidate keeps it.
BestIsBest ==
  /\ best # 0 => ValidatePrompt(best) /\ Passed(best) > Passed(0)
  /\ \A c \in Candidates : c <= tried /\ ValidatePrompt(c) =>
       /\ Passed(c) <= Passed(best)
       /\ c < best => Passed(c) < Passed(best)
  /\ rules.blocked \intersect holds[0] # {} => best = 0
=============================================================================
