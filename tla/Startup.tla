-------------------------------- MODULE Startup --------------------------------
(***************************************************************************)
(* main: the command line, the configuration, the program and the start of *)
(* the simulation. The first cycle of Run is where Pipeline begins.        *)
(*                                                                         *)
(* The pages of the program and of the stack are the subject of Paging:    *)
(* here their allocation and the copying of the segments may end the       *)
(* process.                                                                *)
(***************************************************************************)
EXTENDS ElfReader, Config

CONSTANT Setups     \* command lines, with the configuration and program they name

\* What boost's parser made of the arguments; a string option that is not there is "".
CommandLine == [valid : BOOLEAN, help : BOOLEAN, file : STRING, config : STRING, predScheme : STRING]

ASSUME SetupsAssumption ==
  Setups \subseteq [options : CommandLine, lines : Seq(Line), file : Seq(Cell)]

VARIABLES
  options,
  phase,      \* "options", "config", "load", "setup", "run"; "exited" or "aborted"
  predScm,
  PC

vars == <<options, phase, predScm, PC, elfVars, configVars>>

SchemeOf == "AT" :> "AlwaysTaken" @@ "ANT" :> "AlwaysNotTaken"
         @@ "BI" :> "Bimodal"     @@ "SA"  :> "SelfAdj"

Init ==
  /\ \E s \in Setups : options = s.options /\ lines = s.lines /\ file = s.file
  /\ phase = "options" /\ predScm = "AlwaysNotTaken" /\ PC = 0
  /\ ElfInit /\ ConfigInit

\* A bad command line, a request for help, no program, or a configuration file
\* that cannot be opened end the process before anything is read.
NoConfig(name) == name = "missing.cfg"

ParseCommandLine ==
  /\ phase = "options"
  /\ phase' = IF ~options.valid \/ options.help \/ options.file = "" \/ NoConfig(options.config)
                THEN "exited" ELSE "config"
  /\ predScm' = IF options.predScheme \in DOMAIN SchemeOf THEN SchemeOf[options.predScheme]
                ELSE "AlwaysNotTaken"
  /\ UNCHANGED <<options, PC, elfVars, configVars>>

ReadConfigLine ==
  /\ phase = "config" /\ PfmConfig
  /\ UNCHANGED <<options, phase, predScm, PC, elfVars>>

ConfigAborts ==
  /\ phase = "config" /\ ConfigRefused
  /\ phase' = "aborted"
  /\ UNCHANGED <<options, predScm, PC, elfVars, configVars>>

Configured ==
  /\ phase = "config" /\ ~Reading
  /\ phase' = "load"
  /\ UNCHANGED <<options, predScm, PC, elfVars, configVars>>

LoadStep ==
  /\ phase = "load" /\ load
  /\ UNCHANGED <<options, phase, predScm, PC, configVars>>

\* A file that is refused leaves loadSuccess unset: Run says so and returns.
NotLoaded ==
  /\ phase = "load" /\ loading = "refused"
  /\ phase' = "exited"
  /\ UNCHANGED <<options, predScm, PC, elfVars, configVars>>

\* A segment of any type is copied, and one without data must be empty.
ReadUserProg ==
  /\ phase = "load" /\ loading = "loaded"
  /\ \A n \in DOMAIN segments : segments[n].data = NoData => segments[n].fileSize = 0
  /\ PC' = header.e_entry
  /\ phase' = "setup"
  /\ UNCHANGED <<options, predScm, elfVars, configVars>>

\* SetCacheConfig, with the stack allocated. The predictor starts to be used.
Run ==
  /\ phase = "setup"
  /\ \A level \in Level : Settable(cacheConfig[level])
  /\ phase' = "run"
  /\ UNCHANGED <<options, predScm, PC, elfVars, configVars>>

\* A null pointer is read, a level has no geometry, or Paging's reasons.
SetupAborts ==
  /\ \/ phase = "load" /\ loading = "loaded"
     \/ phase = "setup"
  /\ phase' = "aborted"
  /\ UNCHANGED <<options, predScm, PC, elfVars, configVars>>

Next == \/ ParseCommandLine \/ ReadConfigLine \/ ConfigAborts \/ Configured
        \/ LoadStep \/ NotLoaded \/ ReadUserProg \/ Run \/ SetupAborts

Spec == Init /\ [][Next]_vars

-----------------------------------------------------------------------------
(* Properties.                                                             *)

(* "Please give proper cache config!": whatever the file says or leaves    *)
(* out, a simulation that starts has levels whose blocks are divided into  *)
(* sets evenly, which Cache's set search divides by, and as many to a set  *)
(* as the associativity says, unless that is so large that PfmConfig's     *)
(* product overflows. PfmConfig checks less than that, and                 *)
(* Cache::SetConfig, much later, the rest.                                 *)
StartsWithProperCaches ==
  phase = "run" =>
    \A level \in Level :
      LET c    == cacheConfig[level]
          fits == c.associativity * BLOCK_SIZE \in -INT .. INT-1
      IN  /\ c.set_num # 0
          /\ Exactly(c.size, BLOCK_SIZE) % Magnitude(c.set_num) = 0
          /\ fits => c.size = c.set_num * c.associativity * BLOCK_SIZE

=============================================================================
