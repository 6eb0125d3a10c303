--------------------------- MODULE DelayAssignment ---------------------------
(***************************************************************************)
(* Config.delay_assignment_json and DelayAssignmentConfig (config.py):     *)
(* the resolved delay_assignment sub-table is dispatched, in a fixed       *)
(* priority order, on which of its keys are present, and turned into the   *)
(* descriptor the simulator reads.                                         *)
(*                                                                         *)
(* A sub-table is a function from the keys the dispatch reads to a raw    *)
(* TOML value or NoValue.  Numbers are integers (a delay in simulator      *)
(* units, nfct in tenths, the load in hundredths); a use_capping value and *)
(* a file template are model values (the code only compares use_capping   *)
(* with the string 'true').  A descriptor is a record; the range case is a  *)
(* sequence of fixed descriptors.  Divisions the code does in floating     *)
(* point are kept exact: a range delay is the pair <<numerator,            *)
(* denominator>> of min + step * i.                                        *)
(***************************************************************************)
EXTENDS Integers, Sequences, SequencesExt

CONSTANTS
  Delays,       \* values of delay, delay_min, delay_max, exp, uniform_*
  Counts,       \* values of count
  Nfcts,        \* values of nfct, in tenths
  Goodputs,     \* values of gp
  Bounds,       \* values of size_lower_bound / size_upper_bound
  Cappings,     \* TOML values of use_capping, strings and booleans
  TrueString,   \* the TOML string 'true', the one use_capping value taken
                \* as capping
  Templates,    \* values of file (a path template)
  Loads,        \* the run's load, in hundredths (None when not given)
  LinkRates,    \* link_rate in Gbps
  Shapes,       \* the key sets a sub-table may have
  None,
  NoValue

\* The keys DelayAssignmentConfig reads, in the order json tests them.
DispatchKeys == <<"delay", "delay_min", "exp", "gp", "nfct", "file",
                  "uniform_min_delay">>

\* The value sets of every key the class reads.
ValuesOf(k) ==
  CASE k \in {"delay", "delay_min", "delay_max", "exp",
              "uniform_min_delay", "uniform_max_delay"} -> Delays
    [] k = "count"                                       -> Counts
    [] k = "nfct"                                        -> Nfcts
    [] k = "gp"                                          -> Goodputs
    [] k \in {"size_lower_bound", "size_upper_bound"}    -> Bounds
    [] k = "use_capping"                                 -> Cappings
    [] k = "file"                                        -> Templates

AllKeys == {"delay", "delay_min", "delay_max", "count", "exp", "use_capping",
            "gp", "nfct", "file", "uniform_min_delay", "uniform_max_delay",
            "size_lower_bound", "size_upper_bound"}

\* The sub-tables of a given shape: every key of the shape holds a value.
TablesOf(shape) ==
  {[k \in AllKeys |-> IF k \in shape THEN v[k] ELSE NoValue] :
     v \in [shape -> UNION {ValuesOf(k) : k \in shape}]}
SubTables ==
  {t \in UNION {TablesOf(s) : s \in Shapes} :
     \A k \in AllKeys : t[k] # NoValue => t[k] \in ValuesOf(k)}

VARIABLES
  sub,      \* Config.get('delay_assignment'): a sub-table or None
  load,     \* float(run[LOAD]) in hundredths
  linkRate, \* Config.link_rate_gbps
  out       \* delay_assignment_json: NoValue until computed

vars == <<sub, load, linkRate, out>>

Has(k) == sub[k] # NoValue

\* The outcome of the property: an exception, a dict or a list of dicts.
Err(name) == [kind |-> "error", name |-> name]
Dict(d)   == [kind |-> "dict", json |-> d]
List(l)   == [kind |-> "list", json |-> l]
ErrorNames == {"ZeroDivisionError", "KeyError", "AssertionError", "TypeError"}

\* The dispatch key json acts on: the first one present, or "none".
Branch ==
  LET i == SelectInSeq(DispatchKeys, Has)
  IN  IF i = 0 THEN "none" ELSE DispatchKeys[i]

-----------------------------------------------------------------------------
(* The descriptor builders.                                                 *)

\* attach_size_bounds: the bounds the sub-table holds, added to parameters.
SizeBounds ==
  [b \in {x \in {"size_upper_bound", "size_lower_bound"} : Has(x)} |-> sub[b]]

WithSizeBounds(params) == params @@ SizeBounds

\* get_json_fixed_delay: the delay is the exact rational <<num, den>>.
FixedJson(delay) ==
  [type |-> "fixed", parameters |-> WithSizeBounds([delay |-> delay])]

\* Mutants of get_json_range: no guard on count = 1 (a zero denominator);
\* range(num_steps - 1), one delay short.
RangeJsonNoZeroGuard ==
  LET lo == sub["delay_min"]
      hi == sub["delay_max"]
      n  == sub["count"]
  IN  List([i \in 1..n |-> FixedJson(<<lo * (n - 1) + (hi - lo) * (i - 1),
                                       n - 1>>)])

\* get_json_range: count fixed descriptors at min + step * i,
\* step = (max - min) / (count - 1); a ZeroDivisionError when count = 1.
RangeJson ==
  LET lo == sub["delay_min"]
      hi == sub["delay_max"]
      n  == sub["count"]
  IN  IF n = 1 THEN Err("ZeroDivisionError")
      ELSE List([i \in 1..n |-> FixedJson(<<lo * (n - 1) + (hi - lo) * (i - 1),
                                            n - 1>>)])

\* get_exp_json
ExpJson(delay, capping) ==
  [type |-> "exponential",
   parameters |-> WithSizeBounds([average |-> delay,
                                  link_speed |-> linkRate * 10^9,
                                  use_capping |-> capping])]

\* get_json_gp
GoodputJson(goodput) ==
  [type |-> "goodput", parameters |-> WithSizeBounds([goodput |-> goodput])]

\* get_json_file: the template formatted with int(self._load * 100).
FileJson(template, fileLoad) ==
  [type |-> "file", parameters |-> <<template, fileLoad * 100>>]

\* _get_json_uniform
UniformJson(lo, hi) ==
  [type |-> "uniform", parameters |-> [min_delay |-> lo, max_delay |-> hi]]

\* int(8.0 / float(nfct)) with nfct in tenths: truncation of 80 / nfct.
NfctGoodput(nfct) == 80 \div nfct

\* DelayAssignmentConfig.json: the first present key decides; a key the
\* branch reads and the table lacks is a KeyError.
Json(fileLoad) ==
  CASE Has("delay")     -> Dict(FixedJson(<<sub["delay"], 1>>))
    [] Has("delay_min") ->
         IF Has("delay_max") /\ Has("count") THEN RangeJson ELSE Err("KeyError")
    [] Has("exp")       ->
         IF Has("use_capping")
           THEN Dict(ExpJson(sub["exp"], sub["use_capping"] = TrueString))
           ELSE Err("KeyError")
    [] Has("gp")        -> Dict(GoodputJson(sub["gp"]))
    [] Has("nfct")      ->
         IF sub["nfct"] = 0 THEN Err("ZeroDivisionError")
                            ELSE Dict(GoodputJson(NfctGoodput(sub["nfct"])))
    [] Has("file")      -> Dict(FileJson(sub["file"], fileLoad))
    [] Has("uniform_min_delay") ->
         IF Has("uniform_max_delay")
           THEN Dict(UniformJson(sub["uniform_min_delay"],
                                 sub["uniform_max_delay"]))
           ELSE Err("KeyError")
    [] OTHER            -> Err("AssertionError")

\* Config.delay_assignment_json: no sub-table, no descriptor; otherwise the
\* class is built with the load already scaled to int(self.load * 100)
\* (a TypeError when the run has no load).
Compute ==
  /\ out = NoValue
  /\ out' = CASE sub = None  -> None
             [] load = None -> Err("TypeError")
             [] OTHER       -> Json(load)
  /\ UNCHANGED <<sub, load, linkRate>>

Init ==
  /\ sub \in SubTables \cup {None}
  /\ load \in Loads \cup {None}
  /\ linkRate \in LinkRates
  /\ out = NoValue

\* The property is computed once per run_single_config call.
Next == Compute

Spec == Init /\ [][Next]_vars

-----------------------------------------------------------------------------
\* A descriptor of a known type; a fixed delay is a rational with a non-zero
\* denominator (a float division that did not fail).
DescriptorOK(d) ==
  /\ d.type \in {"fixed", "exponential", "goodput", "file", "uniform"}
  /\ d.type = "fixed" => d.parameters.delay[2] # 0

TypeOK ==
  /\ sub \in SubTables \cup {None}
  /\ load \in Loads \cup {None}
  /\ linkRate \in LinkRates
  /\ \/ out \in {NoValue, None}
     \/ out.kind = "error" /\ out.name \in ErrorNames
     \/ out.kind = "dict" /\ DescriptorOK(out.json)
     \/ out.kind = "list" /\ \A i \in DOMAIN out.json :
                               out.json[i].type = "fixed"
                               /\ DescriptorOK(out.json[i])


\* The computation has run on a sub-table and a load.
Computed == out # NoValue /\ sub # None /\ load # None

\* Spec 4.2: the file template is formatted with the integer percent load
\* (get_json_file formats int(self._load * 100), and Config passes a load
\* already scaled to int(self.load * 100)).
FileLoadIsPercent ==
  (Computed /\ Branch = "file") => out.json.parameters[2] = load

\* Python's round(): to the nearest integer, ties to even.
RoundHalfEven(a, b) ==
  LET q == a \div b
      r == a % b
  IN  CASE 2 * r > b -> q + 1
        [] 2 * r < b -> q
        [] OTHER     -> IF q % 2 = 0 THEN q ELSE q + 1

\* Spec 4.2: the nfct case's goodput target is round(8.0 / nfct).
NfctIsRounded ==
  (Computed /\ Branch = "nfct" /\ sub["nfct"] # 0)
    => out.json.parameters.goodput = RoundHalfEven(80, sub["nfct"])

=============================================================================
