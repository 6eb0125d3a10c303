---------------------------- MODULE LayeredLookup ----------------------------
(***************************************************************************)
(* What the layered configuration resolver promises (spec.md, 4.1 and 9):  *)
(* a Config is one override layer per varied aspect plus a default layer;  *)
(* at most one layer may define a key; a list value is a 5-entry table     *)
(* indexed by the run's load through DELAYS, and a list of another length  *)
(* is a missing-key-class failure; get_with_default suppresses the         *)
(* missing-key failure only; contains mirrors the search without failing.  *)
(*                                                                         *)
(* Failures are named by class: "Ambiguous", "Missing" (the class          *)
(* get_with_default suppresses), and "BadLoad", a failure of another       *)
(* class.  Layers are a function from aspect to table: their order        *)
(* carries no meaning.                                                     *)
(***************************************************************************)
EXTENDS Naturals, Sequences, FiniteSets

CONSTANTS Aspects, Keys, Profiles, Defined, Scalars, ListEntries, Loads, Alphas,
          Ops, None, NoValue

VARIABLES toml, run, phase, layers, default, result

vars == <<toml, run, phase, layers, default, result>>

DELAYS == <<90, 80, 70, 60, 50>>

Lists == DOMAIN ListEntries

Varied == {Aspects[i] : i \in DOMAIN Aspects} \ {"LOAD", "ALPHA"}

\* Steps 1-3 of the construction procedure: every varied aspect's profile
\* must exist ("no such profile" otherwise).
Resolve ==
  /\ phase = "init"
  /\ IF \A a \in Varied : /\ toml.sections[a] # NoValue
                          /\ run[a] \in DOMAIN toml.sections[a]
       THEN /\ phase' = "loaded"
            /\ layers' = [a \in Varied |-> toml.sections[a][run[a]]]
            /\ default' = toml.top
       ELSE /\ phase' = "failed"
            /\ UNCHANGED <<layers, default>>
  /\ UNCHANGED <<toml, run, result>>

\* A list value re-indexed through DELAYS by the run's load: the outcomes
\* the specification allows.  A list of the wrong length is a missing-key-
\* class failure; a load outside DELAYS fails with a class the spec leaves
\* open, missing-key or not.
ByLoad(l) ==
  LET e       == ListEntries[l]
      badLoad == \A i \in DOMAIN DELAYS : DELAYS[i] # run["LOAD"]
  IN  (IF Len(e) # Len(DELAYS) THEN {"Missing"} ELSE {})
        \cup (IF badLoad THEN {"Missing", "BadLoad"} ELSE {})
        \cup (IF Len(e) = Len(DELAYS) /\ ~badLoad
                THEN {e[CHOOSE i \in DOMAIN DELAYS : DELAYS[i] = run["LOAD"]]}
                ELSE {})

\* get(key): the outcomes allowed.
Lookup(k) ==
  LET definers == {a \in Varied : layers[a][k] # NoValue}
      found    == CASE Cardinality(definers) > 1 -> "Ambiguous"
                    [] Cardinality(definers) = 1 ->
                         layers[CHOOSE a \in definers : TRUE][k]
                    [] default[k] # NoValue      -> default[k]
                    [] OTHER                     -> "Missing"
  IN  IF found \in Lists THEN ByLoad(found) ELSE {found}

\* get_with_default(key, None): only the missing-key failure is suppressed.
WithDefault(k) ==
  UNION {CASE out = "Missing" -> {None}
           [] out = "BadLoad" -> {None, "BadLoad"}
           [] OTHER           -> {out} : out \in Lookup(k)}

\* contains(key)
Defines(k) ==
  (\E a \in Varied : layers[a][k] # NoValue) \/ default[k] # NoValue

Answer(op, k, outs) ==
  /\ phase = "loaded"
  /\ op \in Ops
  /\ \E out \in outs : result' = [op |-> op, key |-> k, out |-> out]
  /\ UNCHANGED <<toml, run, phase, layers, default>>

Init ==
  /\ toml \in [sections : [Varied -> {NoValue} \cup [Defined -> [Keys ->
                 Scalars \cup Lists \cup {NoValue}]]],
               top : [Keys -> Scalars \cup Lists \cup {NoValue}]]
  /\ run \in [{Aspects[i] : i \in DOMAIN Aspects} ->
                Profiles \cup Loads \cup Alphas \cup {None}]
  /\ phase = "init"
  /\ layers = [a \in Varied |-> [k \in Keys |-> NoValue]]
  /\ default = [k \in Keys |-> NoValue]
  /\ result = [op |-> "none", key |-> NoValue, out |-> NoValue]

Next ==
  \/ Resolve
  \/ \E k \in Keys : \/ Answer("getitem", k, Lookup(k))
                     \/ Answer("get", k, WithDefault(k))
                     \/ Answer("contains", k, {Defines(k)})
  \/ phase = "failed" /\ UNCHANGED vars

Spec == Init /\ [][Next]_vars

=============================================================================
