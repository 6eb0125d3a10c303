--------------------------- MODULE DerivedParams ---------------------------
(***************************************************************************)
(* The derived read-only properties of a resolved Config                   *)
(* (congestion_runner/config.py) and the random variables they build       *)
(* (random_variables.py): num_servers, per_server_rate_bps, priority_scheme,*)
(* get_pias_threshold, packet_properties_assignment_json and the arrivals  *)
(* generator (flow_size_rv, flow_intval_rv, use_alpha_probability).        *)
(*                                                                         *)
(* The resolved keys the properties read are fixed in Init (a Config is   *)
(* immutable); every query is one action and leaves its outcome in out.   *)
(* Numbers are exact: a float is a rational <<num, den>>, a load is in     *)
(* hundredths, a rate is in Gbit/s (the factor 10^9 of link_rate_bps is a *)
(* unit, carried by no number), a CDF probability is in hundredths.        *)
(***************************************************************************)
EXTENDS Integers, Sequences, SequencesExt

CONSTANTS
  Topologies,     \* <<topology_spt, topology_tors>>
  LinkRates,      \* link_rate, Gbit/s
  Loads,          \* the run's LOAD in hundredths, or None (flag not given)
  PrioNames,      \* prio_scheme strings
  Upper,          \* str.upper, on PrioNames
  PiasVals,       \* pias_thresh_<i>: an integer, a string, or NoValue
  StrVals,        \* the string values among PiasVals
  PropTables,     \* packet_properties_assignment: NoValue or its key set
  FlowSizes,      \* arrivals.flow_size tables (a record of the keys present)
  MeanOverrides,  \* arrivals.mean_flow_size, or NoValue
  AlphaProbs,     \* arrivals.use_alpha_probability, or NoValue
  None, NoValue

PACKET_SIZE == 1460
LINK_LAYER_PACKET_SIZE == 1500
BITS_PER_BYTE == 8

\* PriorityScheme: the names and the codes of the simulator's wire contract.
PriorityScheme == [UNKNOWN |-> 5, REMAINING_SIZE |-> 2, BYTES_SENT |-> 3,
                   LAZY_REMAINING_SIZE |-> 6,
                   LAZY_REMAINING_SIZE_BYTES_SENT |-> 7]

\* Outcomes are records: a value of some kind, or the exception raised.
Err(name) == [kind |-> "error", name |-> name]
Num(r)    == [kind |-> "num", val |-> r]
NoneOut   == [kind |-> "none"]

Abs(x) == IF x < 0 THEN -x ELSE x

RECURSIVE Gcd(_, _)
Gcd(a, b) == IF b = 0 THEN a ELSE Gcd(b, a % b)

\* A rational in lowest terms with a positive denominator: the value a
\* Python float holds exactly for every number of this model.
Reduce(r) ==
  LET g == Gcd(Abs(r[1]), Abs(r[2]))
      s == IF r[2] < 0 THEN -1 ELSE 1
  IN  <<(s * r[1]) \div g, (s * r[2]) \div g>>

\* int(r) of a rational: truncation toward zero.
IntOf(r) == LET q == Abs(r[1]) \div Abs(r[2])
            IN  IF (r[1] < 0) = (r[2] < 0) THEN q ELSE -q

ArrivalTables ==
  {NoValue} \cup [flow_size : FlowSizes, mean_flow_size : MeanOverrides,
                  use_alpha_probability : AlphaProbs]

Configs == [topology : Topologies, linkRate : LinkRates, prio : PrioNames,
            pias : PiasVals, ppa : PropTables, arrivals : ArrivalTables]

VARIABLES
  cfg,    \* the resolved keys the derived properties read
  load,   \* Config.load: the run's LOAD
  out     \* the outcome of the last query

vars == <<cfg, load, out>>

-----------------------------------------------------------------------------
(* random_variables.py: EmpiricalInterpolation.  Each policy's function is *)
(* given doubled, so that every mean is an integer over 200.              *)

InterpCode == [NONE |-> 0, CONTINUOUS |-> 1, INTEGRAL |-> 2]

\* 2 * _interpolate_none / _interpolate_continous / _interpolate_integral
Interp(p, start, end) ==
  CASE p = "NONE"       -> 2 * end
    [] p = "CONTINUOUS" -> end + start
    [] p = "INTEGRAL"   -> 2 * start + (end - start - 1)

\* 200 * EmpiricalInterpolation.mean: the sum over zip(cdf[:-1], cdf[1:]) of
\* (x2 - x1) * f(y1, y2), for rows (y, x) = (size, cdf in hundredths).
RECURSIVE MeanSum(_, _)
MeanSum(p, cdf) ==
  IF Len(cdf) < 2 THEN 0
  ELSE (cdf[2][2] - cdf[1][2]) * Interp(p, cdf[1][1], cdf[2][1])
         + MeanSum(p, Tail(cdf))

EmpiricalMean(p, cdf) == Reduce(<<MeanSum(p, cdf), 200>>)

\* RandomVariable.mean of the variants ArrivalsConfig builds.
RvMean(rv) ==
  CASE rv.kind = "fixed"     -> <<rv.value, 1>>
    [] rv.kind = "uniform"   -> Reduce(<<rv.min + rv.max, 2>>)
    [] rv.kind = "empirical" -> EmpiricalMean(rv.interp, rv.cdf)

-----------------------------------------------------------------------------
(* Config's derived properties.                                           *)

NumServers == cfg.topology[1] * cfg.topology[2]

\* Mutant: no division by zero raised for a single server.
PerServerRateBpsNoZeroGuard ==
  IF load = None THEN Err("TypeError")
  ELSE Num(Reduce(<<cfg.linkRate * load, 100 * (NumServers - 1)>>))

\* link_rate_bps * load / (num_servers - 1); float(None) raises first.
PerServerRateBps ==
  CASE load = None         -> Err("TypeError")
    [] NumServers - 1 = 0  -> Err("ZeroDivisionError")
    [] OTHER               -> Num(Reduce(<<cfg.linkRate * load,
                                         100 * (NumServers - 1)>>))

PriorityCode ==
  IF Upper[cfg.prio] \in DOMAIN PriorityScheme
    THEN Num(<<PriorityScheme[Upper[cfg.prio]], 1>>)
    ELSE Err("KeyError")

\* PACKET_SIZE * self[key]: an int is scaled, a string repeated.
PiasThreshold ==
  CASE cfg.pias = NoValue     -> Err("KeyError")
    [] cfg.pias \in StrVals   -> [kind |-> "str", repeated |-> cfg.pias]
    [] OTHER                  -> Num(<<PACKET_SIZE * cfg.pias, 1>>)

\* Config.packet_properties_assignment_json with PacketPropertiesAssignerConfig.json
PacketPropertiesJson ==
  CASE cfg.ppa = NoValue         -> NoneOut
    [] cfg.ppa = {}              -> NoneOut
    [] "uniform" \in cfg.ppa     -> [kind |-> "uniform"]
    [] "inv_size" \in cfg.ppa    -> [kind |-> "inv_size"]
    [] "inv_rem_size" \in cfg.ppa -> [kind |-> "inv_rem_size"]
    [] "las" \in cfg.ppa         -> [kind |-> "las"]
    [] OTHER                     -> Err("AssertionError")

-----------------------------------------------------------------------------
(* ArrivalsConfig.  Config.arrivals_config evaluates self['arrivals'] and  *)
(* per_server_rate_bps before any property is read, so their failures are *)
(* the failures of every arrivals property.                               *)

ArrivalsFailure ==
  IF cfg.arrivals = NoValue THEN Err("KeyError") ELSE PerServerRateBps

ArrivalsBuilt == ArrivalsFailure.kind # "error"

\* ArrivalsConfig._rv_from_dict
RvFromDict(t) ==
  CASE t = NoValue              -> Err("KeyError")
    [] "cdf" \in DOMAIN t       -> [kind |-> "empirical", cdf |-> t.cdf,
                                    interp |-> "INTEGRAL"]
    [] "fixed" \in DOMAIN t     -> [kind |-> "fixed", value |-> t.fixed]
    [] "uniform" \in DOMAIN t   -> [kind |-> "uniform", min |-> t.uniform.min,
                                    max |-> t.uniform.max]
    [] OTHER                    -> Err("AssertionError")

FlowSizeRv == RvFromDict(cfg.arrivals.flow_size)

\* mean_flow_size: int() of the override or of flow_size_rv.mean.
MeanFlowSize ==
  IF cfg.arrivals.mean_flow_size # NoValue
    THEN Num(<<cfg.arrivals.mean_flow_size, 1>>)
    ELSE IF FlowSizeRv.kind = "error" THEN FlowSizeRv
         ELSE Num(<<IntOf(RvMean(FlowSizeRv)), 1>>)

\* mean_flow_size_in_bytes * BITS_PER_BYTE / PACKET_SIZE * LINK_LAYER_PACKET_SIZE
MeanFlowLoadBits(mfs) ==
  ((mfs * PACKET_SIZE * BITS_PER_BYTE) \div PACKET_SIZE) * LINK_LAYER_PACKET_SIZE

\* flow_intval_rv: Exponential(per_server_rate_bps / mean_flow_load_bits)
FlowIntvalRv ==
  LET psr == PerServerRateBps.val
      mfs == MeanFlowSize.val[1]
  IN  CASE MeanFlowSize.kind = "error" -> MeanFlowSize
        [] mfs = 0                      -> Err("ZeroDivisionError")
        [] OTHER -> [kind |-> "exponential",
                     rate |-> Reduce(<<psr[1], psr[2] * MeanFlowLoadBits(mfs)>>)]

UseAlphaProbability ==
  IF cfg.arrivals.use_alpha_probability = NoValue THEN NoneOut
  ELSE Num(<<cfg.arrivals.use_alpha_probability, 1>>)

-----------------------------------------------------------------------------
Query(op, val) ==
  /\ out' = [op |-> op, val |-> val]
  /\ UNCHANGED <<cfg, load>>

GetNumServers     == Query("num_servers", Num(<<NumServers, 1>>))
GetPerServerRate  == Query("per_server_rate_bps", PerServerRateBps)
GetPriorityScheme == Query("priority_scheme", PriorityCode)
GetPiasThreshold  == Query("pias_threshold", PiasThreshold)
GetPacketProperties == Query("packet_properties", PacketPropertiesJson)

ArrivalsQuery(op, val) ==
  Query(op, IF ArrivalsBuilt THEN val ELSE ArrivalsFailure)

GetFlowSizeRv   == ArrivalsQuery("flow_size_rv", FlowSizeRv)
GetFlowIntvalRv == ArrivalsQuery("flow_intval_rv", FlowIntvalRv)
GetUseAlphaProbability ==
  ArrivalsQuery("use_alpha_probability", UseAlphaProbability)

Init ==
  /\ cfg \in Configs
  /\ load \in Loads
  /\ out = [op |-> "none", val |-> NoneOut]

Next ==
  \/ GetNumServers \/ GetPerServerRate \/ GetPriorityScheme
  \/ GetPiasThreshold \/ GetPacketProperties
  \/ GetFlowSizeRv \/ GetFlowIntvalRv \/ GetUseAlphaProbability

Spec == Init /\ [][Next]_vars

-----------------------------------------------------------------------------
TypeOK ==
  /\ cfg \in Configs
  /\ load \in Loads
  /\ out.op \in {"none", "num_servers", "per_server_rate_bps",
                 "priority_scheme", "pias_threshold", "packet_properties",
                 "flow_size_rv", "flow_intval_rv", "use_alpha_probability"}
  /\ out.val.kind \in {"num", "none", "str", "error", "fixed", "uniform",
                       "empirical", "exponential", "inv_size",
                       "inv_rem_size", "las"}
  /\ out.val.kind = "error" =>
       out.val.name \in {"TypeError", "ZeroDivisionError", "KeyError",
                         "AssertionError"}
  /\ out.val.kind = "exponential" => out.val.rate[2] > 0

RatMul(a, b) == Reduce(<<a[1] * b[1], a[2] * b[2]>>)

\* Spec 4.3 (b): the declared mean flow size, in packets, before any int().
DeclaredMeanFlowSize ==
  IF cfg.arrivals.mean_flow_size # NoValue
    THEN <<cfg.arrivals.mean_flow_size, 1>>
    ELSE RvMean(FlowSizeRv)

\* The link-layer bit rate the arrival process offers one server: arrivals
\* per second times the declared mean flow size times 1500 * 8 bits.
OfferedLoad(rate) ==
  RatMul(RatMul(rate, DeclaredMeanFlowSize),
         <<LINK_LAYER_PACKET_SIZE * BITS_PER_BYTE, 1>>)

\* Spec 4.3 (d): the exponential inter-arrival variable that flow_intval_rv
\* hands the simulator reproduces the configured per-server load in
\* link-layer bits per second, whatever the flow-size distribution.
OfferedLoadReproduced ==
  (out.op = "flow_intval_rv" /\ out.val.kind = "exponential") =>
    OfferedLoad(out.val.rate) = PerServerRateBps.val

=============================================================================
