--------------------------- MODULE ConfigResolver ---------------------------
(***************************************************************************)
(* The layered configuration resolver of congestion_runner/config.py:      *)
(* Config.from_file splits the TOML document into one inherited table per  *)
(* non-LOAD/ALPHA aspect of the run and a default table; Config.__getitem__,*)
(* Config.get and Config.__contains__ then look keys up in that immutable  *)
(* pair.  A list value is re-indexed by the run's load through DELAYS.     *)
(*                                                                         *)
(* Data is abstracted to what the lookup tells apart: a key, a profile     *)
(* name and a scalar are short strings; a list is a name that ListEntries  *)
(* binds to a sequence of distinct scalars; a load is its value in         *)
(* hundredths (the float literals 0.9 .. 0.5 compare equal exactly when    *)
(* their hundredths do).                                                   *)
(***************************************************************************)
EXTENDS Naturals, Sequences, SequencesExt

CONSTANTS
  Aspects,      \* the Aspect enum, in declaration order (a sequence)
  Keys,         \* configuration keys
  Profiles,     \* profile names a run may name
  Defined,      \* the profile names a section of the file may define
  Scalars,      \* non-list values
  ListEntries,  \* list values: a name for each, mapped to its entries
  Loads,        \* LOAD values of a run, in hundredths
  Alphas,       \* ALPHA values of a run
  Ops,          \* the lookups the client performs: "getitem", "get", "contains"
  None,         \* Python None: a command-line flag that was not given
  NoValue       \* a key or section absent from a table

ASSUME Defined \subseteq Profiles
ASSUME Ops \subseteq {"getitem", "get", "contains"}

\* Config.DELAYS, in hundredths.
DELAYS == <<90, 80, 70, 60, 50>>

\* The outcomes of a failing lookup, tagged with where the code raises them.
AmbiguousKey == "KeyError:inherited_from_multiple_bases"   \* line 310
MissingKey   == "KeyError:default"                          \* line 312
LoadKey      == "KeyError:load_not_in_delays"               \* line 314
LoadType     == "TypeError:float(None)"                     \* line 238
KeyErrors    == {AmbiguousKey, MissingKey, LoadKey}
Errors       == KeyErrors \cup {LoadType}

Lists == DOMAIN ListEntries
Vals  == Scalars \cup Lists
ListItems == UNION {Range(ListEntries[l]) : l \in Lists}

\* Aspects that select an inherited table (all but LOAD and ALPHA).
IsLayerAspect(a) == a \notin {"LOAD", "ALPHA"}
LayerAspects == {Aspects[i] : i \in DOMAIN Aspects} \ {"LOAD", "ALPHA"}

Table == [Keys -> Vals \cup {NoValue}]

\* A TOML document: a section per layer aspect (absent, or a table per
\* defined profile) and the top-level keys.
Files == [sections : [LayerAspects -> {NoValue} \cup [Defined -> Table]],
          top      : Table]

\* The runs config_params and generate_for_name pass to Config.from_file:
\* every aspect is a key; a flag that was not given maps to None.
Runs == {r \in [{Aspects[i] : i \in DOMAIN Aspects} ->
                  Profiles \cup Loads \cup Alphas \cup {None}] :
           /\ \A a \in LayerAspects : r[a] \in Profiles \cup {None}
           /\ r["LOAD"] \in Loads \cup {None}
           /\ r["ALPHA"] \in Alphas \cup {None}}

VARIABLES
  toml,       \* the document read by toml.load
  run,        \* the Run the Config is built for
  phase,      \* "init", "loaded" (Config built) or "failed" (from_file raised)
  inherited,  \* Config._inherited: one table per layer aspect, in run order
  default,    \* Config._default
  result      \* the outcome of the last lookup

vars == <<toml, run, phase, inherited, default, result>>

NoResult == [op |-> "none", key |-> NoValue, out |-> NoValue]

-----------------------------------------------------------------------------
(* Config.from_file: for k, v in run.items(), every layer aspect's section  *)
(* is indexed by the run's profile (a KeyError when the section or the     *)
(* profile is missing, None included) and the section is deleted; what is  *)
(* left of the document is the default table.                              *)

\* The layer aspects in the order run.items() yields them.
LayerOrder == SelectSeq(Aspects, IsLayerAspect)

ProfileFound(a) ==
  /\ toml.sections[a] # NoValue
  /\ run[a] \in DOMAIN toml.sections[a]

FromFile ==
  /\ phase = "init"
  /\ IF \A i \in DOMAIN LayerOrder : ProfileFound(LayerOrder[i])
       THEN /\ phase' = "loaded"
            /\ inherited' = [i \in DOMAIN LayerOrder |->
                               toml.sections[LayerOrder[i]][run[LayerOrder[i]]]]
            /\ default' = toml.top
       ELSE /\ phase' = "failed"
            /\ UNCHANGED <<inherited, default>>
  /\ UNCHANGED <<toml, run, result>>

-----------------------------------------------------------------------------
(* Config.load and Config.__getitem__.                                      *)

\* {d: v for d, v in zip(self.DELAYS, result)}[self.load]
LoadSpecific(l) ==
  LET pairs == Zip(DELAYS, ListEntries[l])
      hits  == {i \in DOMAIN pairs : pairs[i][1] = run["LOAD"]}
  IN  CASE run["LOAD"] = None -> LoadType
        [] hits = {}          -> LoadKey
        [] OTHER              -> pairs[CHOOSE i \in hits : TRUE][2]

\* Mutants of __getitem__: the list re-indexing dropped; the ambiguity check
\* dropped, so the first defining layer wins.
GetItemNoReindex(k) ==
  LET defining == SelectSeq(inherited, LAMBDA t : t[k] # NoValue)
  IN  CASE Len(defining) = 1    -> defining[1][k]
        [] Len(defining) > 1    -> AmbiguousKey
        [] default[k] # NoValue -> default[k]
        [] OTHER                -> MissingKey

GetItemFirstLayerWins(k) ==
  LET defining == SelectSeq(inherited, LAMBDA t : t[k] # NoValue)
      found    == CASE Len(defining) >= 1   -> defining[1][k]
                    [] default[k] # NoValue -> default[k]
                    [] OTHER                -> MissingKey
  IN  IF found \in Lists THEN LoadSpecific(found) ELSE found

GetItem(k) ==
  LET defining == SelectSeq(inherited, LAMBDA t : t[k] # NoValue)
      found    == CASE Len(defining) = 1    -> defining[1][k]
                    [] Len(defining) > 1    -> AmbiguousKey
                    [] default[k] # NoValue -> default[k]
                    [] OTHER                -> MissingKey
  IN  IF found \in Lists THEN LoadSpecific(found) ELSE found

\* Config.get: every KeyError becomes the fallback (None at both call sites).
Get(k) == IF GetItem(k) \in KeyErrors THEN None ELSE GetItem(k)

\* Mutant of __contains__: the default table left out of the search.
ContainsKeyLayersOnly(k) ==
  \E i \in DOMAIN inherited : inherited[i][k] # NoValue

\* Config.__contains__
ContainsKey(k) ==
  \/ \E i \in DOMAIN inherited : inherited[i][k] # NoValue
  \/ default[k] # NoValue

Query(op, k, out) ==
  /\ phase = "loaded"
  /\ op \in Ops
  /\ result' = [op |-> op, key |-> k, out |-> out]
  /\ UNCHANGED <<toml, run, phase, inherited, default>>

LookupItem(k)  == Query("getitem", k, GetItem(k))
LookupGet(k)   == Query("get", k, Get(k))
LookupIn(k)    == Query("contains", k, ContainsKey(k))

-----------------------------------------------------------------------------
Init ==
  /\ toml \in Files
  /\ run \in Runs
  /\ phase = "init"
  /\ inherited = <<>>
  /\ default = [k \in Keys |-> NoValue]
  /\ result = NoResult

\* A Config is immutable once built; a failed from_file ends the program.
Done == phase = "failed" /\ UNCHANGED vars

Next ==
  \/ FromFile
  \/ \E k \in Keys : LookupItem(k) \/ LookupGet(k) \/ LookupIn(k)
  \/ Done

Spec == Init /\ [][Next]_vars

-----------------------------------------------------------------------------
TypeOK ==
  /\ toml \in Files
  /\ run \in Runs
  /\ phase \in {"init", "loaded", "failed"}
  /\ inherited \in Seq(Table)
  /\ default \in Table
  /\ result.op \in {"none", "getitem", "get", "contains"}
  /\ result.op = "contains" => result.out \in BOOLEAN
  /\ result.op \in {"getitem", "get"} =>
       result.out \in Scalars \cup ListItems \cup Errors \cup {None}

-----------------------------------------------------------------------------
(* Refinement: the code's layers, keyed by aspect, and its outcomes, named *)
(* by failure class, are a behaviour of LayeredLookup.                     *)

LayersByAspect ==
  IF phase = "loaded"
    THEN [a \in LayerAspects |->
            inherited[CHOOSE i \in DOMAIN LayerOrder : LayerOrder[i] = a]]
    ELSE [a \in LayerAspects |-> [k \in Keys |-> NoValue]]

\* Every KeyError but the ambiguity is of the missing-key class.
FailureClass(out) ==
  CASE out = AmbiguousKey           -> "Ambiguous"
    [] out \in {MissingKey, LoadKey} -> "Missing"
    [] out = LoadType               -> "BadLoad"
    [] OTHER                        -> out

Abstract == INSTANCE LayeredLookup
              WITH layers <- LayersByAspect,
                   result <- IF result.op \in {"getitem", "get"}
                               THEN [result EXCEPT !.out = FailureClass(@)]
                               ELSE result

\* Every behaviour of Config (from_file followed by any sequence of lookups)
\* is one the specification allows: ambiguity is fatal, the default is the
\* fallback, lists resolve by load, and get() suppresses only missing keys.
ImplementsLayeredLookup == Abstract!Spec

=============================================================================
