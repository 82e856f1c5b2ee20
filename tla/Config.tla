------------------------------- MODULE Config -------------------------------
(***************************************************************************)
(* load_config (packages/core, config.py): three YAML files and the        *)
(* variables AUTOGENESIS_NAME and AUTOGENESIS_NAME__KEY, merged one after  *)
(* the other.  A name is that of a section of AutoGenesisConfig, which is  *)
(* a flat table, or of a setting that is a scalar; anything but a table    *)
(* (null too: an empty section in YAML) is a scalar here.                  *)
(*                                                                         *)
(* The value a layer gives to a key or setting is the number of the layer; *)
(* 0: none.  said is history: the data of the layers.                      *)
(***************************************************************************)
EXTENDS Integers, FiniteSetsExt

CONSTANTS
  Sections, \* codex to gitnexus
  Settings, \* credential_provider, credential_path
  Keys

ASSUME ItselfIsNoKey == "itself" \notin Keys

VARIABLES
  merged,  \* what the layers so far say of each name
  layer,   \* the next layer: system, user, project, environment
  env,     \* the result of _env_overrides so far
  environ, \* the variables of os.environ that have come up
  loading, \* "reading", "loaded", or "raised"
  said     \* history

configVars == <<merged, layer, env, environ, loading, said>>

-----------------------------------------------------------------------------
Names == Sections \cup Settings
Files == 1..3
\* The fourth is the environment.
Variables == 4
Layers == 1..4

Nowhere == [k \in Keys |-> 0]
Unsaid == [kind |-> "none", value |-> 0, keys |-> Nowhere]
Scalar(n) == [kind |-> "scalar", value |-> n, keys |-> Nowhere]
Table(ks, n) ==
  [kind |-> "table", value |-> 0, keys |-> [k \in Keys |-> IF k \in ks THEN n ELSE 0]]
Data(n) == {Unsaid, Scalar(n)} \cup {Table(ks, n) : ks \in SUBSET Keys}

ConfigTypeOK ==
  /\ \A s \in Names : \A d \in {merged[s], env[s]} :
       /\ d.kind \in {"none", "scalar", "table"} /\ d.value \in Layers \cup {0}
       /\ d.keys \in [Keys -> Layers \cup {0}]
       /\ d.kind # "table" => d.keys = Nowhere
       /\ d.kind # "scalar" => d.value = 0
  /\ layer \in Layers /\ loading \in {"reading", "loaded", "raised"}
  /\ environ \subseteq Names \X (Keys \cup {"itself"})
  /\ \A n \in Layers, s \in Names : said[n][s] \in Data(n)

ConfigInit ==
  /\ merged = [s \in Names |-> Unsaid] /\ env = merged
  /\ layer = 1 /\ loading = "reading" /\ environ = {}
  /\ said = [n \in Layers |-> merged]

\* Mutant: a table replaces the table below it.
MergeSectionWhole(base, over) == IF over.kind = "none" THEN base ELSE over

MergeSection(base, over) ==
  CASE over.kind = "none" -> base
    [] base.kind = "table" /\ over.kind = "table" ->
         [base EXCEPT !.keys = [k \in Keys |-> IF over.keys[k] # 0 THEN over.keys[k]
                                               ELSE @[k]]]
    [] OTHER -> over

Merge(data) ==
  /\ merged' = [s \in Names |-> MergeSection(merged[s], data[s])]
  /\ said' = [said EXCEPT ![layer] = data]

\* A file that is absent, cannot be opened or parsed, or is no table says nothing.
LoadYaml ==
  /\ loading = "reading" /\ layer \in Files
  /\ \E data \in [Names -> Data(layer)] : Merge(data)
  /\ layer' = layer + 1
  /\ UNCHANGED <<env, environ, loading>>

\* A file that is not UTF-8: UnicodeDecodeError is neither OSError nor YAMLError.
LoadRaises ==
  /\ loading = "reading" /\ layer \in Files /\ loading' = "raised"
  /\ UNCHANGED <<merged, layer, env, environ, said>>

(* ---- _env_overrides: the variables in the order of os.environ ---- *)

ReadName(s) ==
  /\ layer = Variables /\ loading = "reading" /\ <<s, "itself">> \notin environ
  /\ env' = [env EXCEPT ![s] = Scalar(Variables)]
  /\ environ' = environ \cup {<<s, "itself">>}
  /\ UNCHANGED <<merged, layer, loading, said>>

\* A string has no items to assign: TypeError.
ReadKey(s, k) ==
  /\ layer = Variables /\ loading = "reading" /\ <<s, k>> \notin environ
  /\ environ' = environ \cup {<<s, k>>}
  /\ IF env[s].kind = "scalar" THEN loading' = "raised" /\ UNCHANGED env
     ELSE /\ env' = [env EXCEPT ![s].kind = "table", ![s].keys[k] = Variables]
          /\ UNCHANGED loading
  /\ UNCHANGED <<merged, layer, said>>

\* The last merge; then the model refuses a section that is no table, a setting
\* that is one, and values it does not like.
MergeEnvironment ==
  /\ layer = Variables /\ loading = "reading"
  /\ Merge(env)
  /\ \/ loading' = "raised"
     \/ /\ \A s \in Sections : merged'[s].kind # "scalar"
        /\ \A s \in Settings : merged'[s].kind # "table"
        /\ loading' = "loaded"
  /\ UNCHANGED <<layer, env, environ>>

ConfigNext ==
  \/ LoadYaml \/ LoadRaises \/ MergeEnvironment
  \/ \E s \in Names : ReadName(s) \/ \E k \in Keys : ReadKey(s, k)

ConfigSpec == ConfigInit /\ [][ConfigNext]_configVars

-----------------------------------------------------------------------------
\* What mentions a key, or a name: a file, or a variable of the environment
\* (not what has been parsed of it).
MentionsKey(n, s, k) ==
  IF n = Variables THEN <<s, k>> \in environ ELSE said[n][s].keys[k] # 0
MentionsName(n, s) ==
  IF n = Variables THEN <<s, "itself">> \in environ ELSE said[n][s].kind # "none"

\* The layers above the last file that put a scalar in place of a section.
Above(s) == {n \in Layers : \A m \in Files : said[m][s].kind = "scalar" => m < n}

\* Every key of a section, and every setting, of a configuration that loads has
\* the value that the last layer to mention it gave; nothing of a lower layer
\* shows through, nothing is lost to a higher layer that speaks of other keys,
\* and every variable of the environment is in force, whatever the order they
\* come in; except that a file with a scalar in place of a section (an empty
\* section) makes the files up to itself forgotten.
LastLayerWins ==
  loading = "loaded" =>
    /\ \A s \in Sections, k \in Keys :
         merged[s].keys[k] = Max({0} \cup {n \in Above(s) : MentionsKey(n, s, k)})
    /\ \A s \in Settings : merged[s].value = Max({0} \cup {n \in Layers : MentionsName(n, s)})
=============================================================================
