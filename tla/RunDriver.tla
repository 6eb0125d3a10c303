----------------------------- MODULE RunDriver -----------------------------
(***************************************************************************)
(* congestion_runner/run.py: a sequence of invocations of main, each       *)
(* building a Run from its flags (config_params.single_wrapper), resolving *)
(* it (Config.from_file), naming it (get_run_name), computing the          *)
(* simulator's arguments (run_single_config) and running the simulator in  *)
(* the results directory named after the run (run_it).                    *)
(*                                                                         *)
(* The file system is the state the invocations share.  config.toml is    *)
(* read anew by every invocation, so what it yields (a delay descriptor,  *)
(* a packet-properties descriptor, whether every argument resolves) is an  *)
(* input of each invocation.  A process may be killed while the simulator *)
(* runs, leaving what it wrote so far.                                     *)
(*                                                                         *)
(* A LOAD or ALPHA flag is a record: its text and py, the value          *)
(* int(float(text) * 100) takes in IEEE-754 double arithmetic.             *)
(***************************************************************************)
EXTENDS Integers, Sequences, FiniteSets

CONSTANTS
  Aspects,         \* the Aspect enum, in declaration order (a sequence)
  FlagValues,      \* aspect -> the values its flag may take, None included
  Defined,         \* profile names config.toml defines
  MaxInvocations,  \* invocations of main in one behaviour
  None

ASSUME MaxInvocations \in Nat

NumericAspects == {"LOAD", "ALPHA"}
AspectSet == {Aspects[i] : i \in DOMAIN Aspects}

\* config_params.single_wrapper: every aspect is a key; None if not given.
Runs == {r \in [AspectSet -> UNION {FlagValues[a] : a \in AspectSet}] :
           \A a \in AspectSet : r[a] \in FlagValues[a]}

\* Config.from_file indexes config[aspect][run[aspect]] for each layer aspect.
FromFileOk(r) == \A a \in AspectSet \ NumericAspects : r[a] \in Defined

\* get_run_name: float(None) raises TypeError.
NameOk(r) == \A a \in NumericAspects : r[a] # None

\* get_run_name: the fields joined by '.', in Aspect order; a LOAD or ALPHA
\* field is int(float(v) * 100).  Profile names hold no '.', so the tuple of
\* fields stands for the joined string.
RunName(r) ==
  [i \in DOMAIN Aspects |->
     IF Aspects[i] \in NumericAspects THEN r[Aspects[i]].py ELSE r[Aspects[i]]]

Names == {RunName(r) : r \in {r \in Runs : FromFileOk(r) /\ NameOk(r)}}

FileNames == {"delay", "pkt", "stdout", "stderr", "flow", "drop"}
Absent == [by |-> {}, complete |-> FALSE]
Contents == [by : SUBSET (1..MaxInvocations), complete : BOOLEAN]
Dirs == [FileNames -> Contents]
NoDir == [f \in FileNames |-> Absent]

VARIABLES
  fs,      \* results directory name -> its files (NoDir: no directory)
  inv,     \* invocations started so far; the current one is inv
  pc,      \* "idle", "prepared", "written", "sim", "exited"
  cur,     \* the current invocation: its run and what run_single_config computed
  outcome, \* invocation -> how main ended
  runOf    \* invocation -> the Run it was given

vars == <<fs, inv, pc, cur, outcome, runOf>>

Outcomes == {"none", "RuntimeError", "KeyError", "TypeError", "ConfigError", "dry_run",
             "exit0", "exit1", "killed"}

NoCur == [run |-> None, name |-> <<>>, hasDelay |-> FALSE, hasPkt |-> FALSE,
          argDelay |-> FALSE, argPkt |-> FALSE, dry |-> FALSE, code |-> 0]

Dir == fs[cur.name]

Written(i) == [by |-> {i}, complete |-> TRUE]

-----------------------------------------------------------------------------
(* main -> run_single_config up to run_it: from_file, run_name, the        *)
(* descriptors and the argument list.  None of it touches the file system, *)
(* so a failure anywhere in it ends the invocation with nothing written.   *)

Finish(i, o) ==
  /\ outcome' = [outcome EXCEPT ![i] = o]
  /\ pc' = "idle"

\* Mutant: the delay descriptor's file name passed whether or not one is written.
RunSingleConfigAlwaysDelayArg(r, hasDelay, hasPkt, argsOk, dry) ==
  /\ pc = "idle" /\ inv < MaxInvocations
  /\ inv' = inv + 1
  /\ runOf' = [runOf EXCEPT ![inv'] = r]
  /\ CASE ~FromFileOk(r) -> Finish(inv + 1, "KeyError") /\ UNCHANGED cur
       [] ~NameOk(r)     -> Finish(inv + 1, "TypeError") /\ UNCHANGED cur
       [] ~argsOk        -> Finish(inv + 1, "ConfigError") /\ UNCHANGED cur
       [] OTHER ->
            /\ cur' = [run |-> r, name |-> RunName(r), hasDelay |-> hasDelay,
                       hasPkt |-> hasPkt, argDelay |-> TRUE,
                       argPkt |-> hasPkt, dry |-> dry, code |-> 0]
            /\ pc' = "prepared"
            /\ UNCHANGED outcome
  /\ UNCHANGED fs

\* Mutant: a missing profile not detected (config[aspect].get(profile, {})).
RunSingleConfigNoProfileCheck(r, hasDelay, hasPkt, argsOk, dry) ==
  /\ pc = "idle" /\ inv < MaxInvocations
  /\ inv' = inv + 1
  /\ runOf' = [runOf EXCEPT ![inv'] = r]
  /\ CASE ~NameOk(r)     -> Finish(inv + 1, "TypeError") /\ UNCHANGED cur
       [] ~argsOk        -> Finish(inv + 1, "ConfigError") /\ UNCHANGED cur
       [] OTHER ->
            /\ cur' = [run |-> r, name |-> RunName(r), hasDelay |-> hasDelay,
                       hasPkt |-> hasPkt, argDelay |-> hasDelay,
                       argPkt |-> hasPkt, dry |-> dry, code |-> 0]
            /\ pc' = "prepared"
            /\ UNCHANGED outcome
  /\ UNCHANGED fs

\* Lines 88-183.
RunSingleConfig(r, hasDelay, hasPkt, argsOk, dry) ==
  /\ pc = "idle" /\ inv < MaxInvocations
  /\ inv' = inv + 1
  /\ runOf' = [runOf EXCEPT ![inv'] = r]
  /\ CASE ~FromFileOk(r) -> Finish(inv + 1, "KeyError") /\ UNCHANGED cur
       [] ~NameOk(r)     -> Finish(inv + 1, "TypeError") /\ UNCHANGED cur
       [] ~argsOk        -> Finish(inv + 1, "ConfigError") /\ UNCHANGED cur
       [] OTHER ->
            /\ cur' = [run |-> r, name |-> RunName(r), hasDelay |-> hasDelay,
                       hasPkt |-> hasPkt, argDelay |-> hasDelay,
                       argPkt |-> hasPkt, dry |-> dry, code |-> 0]
            /\ pc' = "prepared"
            /\ UNCHANGED outcome
  /\ UNCHANGED fs

\* main, lines 268 and 235-250: _get_ns_path finds no simulator (no
\* --ns-executable, no ns on PATH, no DEV_NS_DIR) and raises RuntimeError
\* before run_single_config.  Whether it finds one is the environment's;
\* the invocation's run plays no part, and runOf keeps None for it.
NsPathNotFound ==
  /\ pc = "idle" /\ inv < MaxInvocations
  /\ inv' = inv + 1
  /\ Finish(inv + 1, "RuntimeError")
  /\ UNCHANGED <<fs, cur, runOf>>

-----------------------------------------------------------------------------
(* run_it                                                                  *)

\* Lines 46-66: make the directory, write delay_assignment.json if there is
\* a descriptor, always write packet_properties_assignment.json (null when
\* there is none); a dry run returns here.
WriteDescriptors ==
  /\ pc = "prepared"
  /\ fs' = [fs EXCEPT ![cur.name] =
              [@ EXCEPT !["delay"] = IF cur.hasDelay THEN Written(inv) ELSE @,
                        !["pkt"]   = Written(inv)]]
  /\ IF cur.dry THEN Finish(inv, "dry_run") ELSE pc' = "written" /\ UNCHANGED outcome
  /\ UNCHANGED <<inv, cur, runOf>>

\* Lines 75-78: stdout.log and stderr.log opened for writing (truncated),
\* then the simulator started with them.
StartSimulator ==
  /\ pc = "written"
  /\ fs' = [fs EXCEPT ![cur.name] =
              [@ EXCEPT !["stdout"] = Written(inv), !["stderr"] = Written(inv)]]
  /\ pc' = "sim"
  /\ UNCHANGED <<inv, cur, outcome, runOf>>

\* The simulator exits: with status 0 after writing flow.tr and drop.tr, or
\* with another status having written them in full, in part, or not at all.
SimulatorExits ==
  /\ pc = "sim"
  /\ \E code \in {0, 1}, traces \in {"complete", "partial", "untouched"} :
       /\ code = 0 => traces = "complete"
       /\ fs' = [fs EXCEPT ![cur.name] =
                   [@ EXCEPT !["flow"] = IF traces = "untouched" THEN @
                                         ELSE [by |-> {inv},
                                               complete |-> traces = "complete"],
                             !["drop"] = IF traces = "untouched" THEN @
                                         ELSE [by |-> {inv},
                                               complete |-> traces = "complete"]]]
       /\ cur' = [cur EXCEPT !.code = code]
  /\ pc' = "exited"
  /\ UNCHANGED <<inv, outcome, runOf>>

\* The process is killed while the simulator runs: the traces are left as
\* far as they were written.
Killed ==
  /\ pc = "sim"
  /\ \E traces \in {"partial", "untouched"} :
       fs' = [fs EXCEPT ![cur.name] =
                [@ EXCEPT !["flow"] = IF traces = "untouched" THEN @
                                      ELSE [by |-> {inv}, complete |-> FALSE]]]
  /\ Finish(inv, "killed")
  /\ UNCHANGED <<inv, cur, runOf>>

\* Lines 80-85 and main 271-277: a non-zero status returns the logs, which
\* main prints before exit(1).
Report ==
  /\ pc = "exited"
  /\ Finish(inv, IF cur.code = 0 THEN "exit0" ELSE "exit1")
  /\ UNCHANGED <<fs, inv, cur, runOf>>

-----------------------------------------------------------------------------
Init ==
  /\ fs = [n \in Names |-> NoDir]
  /\ inv = 0
  /\ pc = "idle"
  /\ cur = NoCur
  /\ outcome = [i \in 1..MaxInvocations |-> "none"]
  /\ runOf = [i \in 1..MaxInvocations |-> None]

\* The last invocation has ended.
Done == pc = "idle" /\ inv = MaxInvocations /\ UNCHANGED vars

Next ==
  \/ \E r \in Runs, hasDelay, hasPkt, argsOk, dry \in BOOLEAN :
       RunSingleConfig(r, hasDelay, hasPkt, argsOk, dry)
  \/ NsPathNotFound
  \/ WriteDescriptors \/ StartSimulator \/ SimulatorExits \/ Killed \/ Report
  \/ Done

Spec == Init /\ [][Next]_vars

-----------------------------------------------------------------------------
TypeOK ==
  /\ fs \in [Names -> Dirs]
  /\ inv \in 0..MaxInvocations
  /\ pc \in {"idle", "prepared", "written", "sim", "exited"}
  /\ pc # "idle" => cur.run \in Runs /\ cur.name \in Names
  /\ outcome \in [1..MaxInvocations -> Outcomes]
  /\ runOf \in [1..MaxInvocations -> Runs \cup {None}]

\* The simulator never reads another invocation's descriptor: while it runs,
\* every descriptor file named in its arguments (delay_assignment.json only
\* when run_single_config found a descriptor) was written by this invocation,
\* whatever earlier invocations of the same run name, with another
\* config.toml, dry runs or kills, left in the directory.
SimulatorReadsOwnDescriptors ==
  pc = "sim" =>
    /\ cur.argDelay => Dir["delay"].by = {inv}
    /\ cur.argPkt => Dir["pkt"].by = {inv}

=============================================================================
