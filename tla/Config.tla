--------------------------------- MODULE Config ---------------------------------
(***************************************************************************)
(* The performance parameters of class Machine: PfmConfig reads them from  *)
(* a file line by line, and SetCacheConfig gives them to the caches when   *)
(* the simulation starts.                                                  *)
(*                                                                         *)
(* A line is what sscanf makes of it: its first word and the numbers that  *)
(* follow. Words and lines longer than the code's buffers are left out.    *)
(***************************************************************************)
EXTENDS Integers, Sequences, FiniteSets, TLC

CONSTANTS
  InstrName,        \* names of instrName_cstr that are looked at
  BLOCK_SIZE,
  MAXLINES,         \* INSTRNUM + 100
  INT,              \* the numbers of an int are -INT .. INT-1, 2^31 in the code
  DEFAULT_SIZE, DEFAULT_ASSOCIATIVITY,
  Uninitialised     \* what an int nobody wrote may hold

\* The word of a line of text; a comment, which starts with '/', '*' or a
\* space, has none.
Line == [word : STRING, numbers : Seq(Int)]
COMMENT == "//"

ASSUME ConfigAssumption ==
  /\ BLOCK_SIZE \in Nat \ {0} /\ MAXLINES \in Nat
  /\ {DEFAULT_SIZE, DEFAULT_ASSOCIATIVITY, INT} \subseteq Nat \ {0}
  /\ DEFAULT_ASSOCIATIVITY * BLOCK_SIZE < INT
  /\ DEFAULT_SIZE % (DEFAULT_ASSOCIATIVITY * BLOCK_SIZE) = 0
  /\ Uninitialised \subseteq Int /\ Uninitialised # {}

Level == {"L1", "L2", "LLC"}

\* A bug: the third of three copies still writes to the second level.
ConfigOfCopied == [L1_Config |-> "L1", L2_Config |-> "L2", LLC_Config |-> "L2"]

ConfigOf  == [L1_Config |-> "L1", L2_Config |-> "L2", LLC_Config |-> "LLC"]
\* A bug: the third line for a latency still writes to the second level.
LatencyOfCopied == [L1_Latency |-> "L1", L2_Latency |-> "L2", LLC_Latency |-> "L2",
                    Mem_Latency |-> "Memory"]

LatencyOf == [L1_Latency |-> "L1", L2_Latency |-> "L2", LLC_Latency |-> "LLC",
              Mem_Latency |-> "Memory"]

\* The entry INSTRNUM-1 of instrPfm, which belongs to no instruction, takes
\* the lines of every other word.
Unnamed == "unnamed"

\* The words PfmConfig looks for first are not in instrName_cstr.
ASSUME NamesAssumption ==
  InstrName \cap ({COMMENT, Unnamed} \cup DOMAIN LatencyOf \cup DOMAIN ConfigOf) = {}

VARIABLES
  lines,          \* the file
  line,           \* lines read
  cacheConfig,    \* L1_config, L2_config and LLC_config
  latency,        \* L1_latency, L2_latency, LLC_latency and Memory_latency
  instrPfm

configVars == <<lines, line, cacheConfig, latency, instrPfm>>

-----------------------------------------------------------------------------
(* The geometry of a level. Division truncates, but is used where there is *)
(* no remainder; the remainder has no sign that matters.                   *)

Magnitude(n)   == IF n < 0 THEN -n ELSE n
Exactly(m, n)  == IF n < 0 THEN -(m \div Magnitude(n)) ELSE m \div n

\* The bytes of a set, multiplied as an int: what is beyond wraps.
SetSize(associativity) == ((associativity * BLOCK_SIZE + INT) % (2 * INT)) - INT

\* A bug: capacity and associativity need not agree.
ProperNotZero(size, associativity) == SetSize(associativity) # 0

Proper(size, associativity) ==
  SetSize(associativity) # 0 /\ size % Magnitude(SetSize(associativity)) = 0

Geometry(size, associativity, wt, wa) ==
  [size |-> size, associativity |-> associativity,
   set_num |-> Exactly(size, SetSize(associativity)),
   write_through |-> wt, write_allocate |-> wa]

DefaultConfig == Geometry(DEFAULT_SIZE, DEFAULT_ASSOCIATIVITY, 0, 0)

\* The constructor of Machine.
ConfigInit ==
  /\ lines \in Seq(Line) /\ line = 0
  /\ cacheConfig = [level \in Level |-> DefaultConfig]
  /\ latency = [s \in Level \cup {"Memory"} |->
                  CASE s = "Memory" -> [hit |-> 0, bus |-> 50]
                    [] s = "LLC"    -> [hit |-> 20, bus |-> 0]
                    [] OTHER        -> [hit |-> 1, bus |-> 0]]
  /\ instrPfm = [name \in InstrName \cup {Unnamed} |-> 1]

-----------------------------------------------------------------------------
(* PfmConfig.                                                              *)

LinesToRead == IF Len(lines) < MAXLINES THEN Len(lines) ELSE MAXLINES
Reading     == line < LinesToRead

Word    == lines[line + 1].word
Numbers == lines[line + 1].numbers

\* The n-th number, or what the variable held that it should have been read into.
Scanned(n, before) == IF n <= Len(Numbers) THEN {Numbers[n]} ELSE before

ReadComment == Word = COMMENT /\ UNCHANGED <<cacheConfig, latency, instrPfm>>

ReadLatency ==
  /\ Word \in DOMAIN LatencyOf
  /\ \E hit \in Scanned(1, {0}), bus \in Scanned(2, {0}) :
       latency' = [latency EXCEPT ![LatencyOf[Word]] = [hit |-> hit, bus |-> bus]]
  /\ UNCHANGED <<cacheConfig, instrPfm>>

ReadConfig ==
  /\ Word \in DOMAIN ConfigOf
  /\ \E size \in Scanned(1, Uninitialised), associativity \in Scanned(2, Uninitialised),
        wt \in Scanned(3, Uninitialised), wa \in Scanned(4, Uninitialised) :
       /\ Proper(size, associativity)
       /\ cacheConfig' = [cacheConfig EXCEPT ![ConfigOf[Word]] = Geometry(size, associativity, wt, wa)]
  /\ UNCHANGED <<latency, instrPfm>>

ReadInstr ==
  /\ Word \notin {COMMENT} \cup DOMAIN LatencyOf \cup DOMAIN ConfigOf
  /\ \E performance \in Scanned(1, {1}) :
       instrPfm' = [instrPfm EXCEPT ![IF Word \in InstrName THEN Word ELSE Unnamed] = performance]
  /\ UNCHANGED <<cacheConfig, latency>>

PfmConfig ==
  /\ Reading
  /\ ReadComment \/ ReadLatency \/ ReadConfig \/ ReadInstr
  /\ line' = line + 1
  /\ UNCHANGED lines

\* The assertion on the geometry fails, or the division before it has no result.
ConfigRefused ==
  /\ Reading /\ Word \in DOMAIN ConfigOf
  /\ \E size \in Scanned(1, Uninitialised), associativity \in Scanned(2, Uninitialised) :
       ~Proper(size, associativity)

-----------------------------------------------------------------------------
\* Cache::SetConfig and buildContent get through: no division by zero, and an
\* array of a size there can be.
Settable(c) == /\ c.size % BLOCK_SIZE = 0
               /\ c.set_num # 0 /\ Exactly(c.size, BLOCK_SIZE) % Magnitude(c.set_num) = 0
               /\ c.size >= 0

-----------------------------------------------------------------------------
\* The last of the first k lines that starts with this word, or 0.
LastOf(word, k) ==
  LET naming == {n \in 1 .. k : lines[n].word = word}
  IN  IF naming = {} THEN 0 ELSE CHOOSE n \in naming : \A m \in naming : m <= n

\* The numbers of that line are in these variables, and one of "absent" for each it
\* does not have; without a line they have the values they start with.
Took(word, k, variables, otherwise, absent) ==
  LET numbers == lines[LastOf(word, k)].numbers
  IN  IF LastOf(word, k) = 0 THEN variables = otherwise
      ELSE \A n \in DOMAIN variables :
             variables[n] \in IF n <= Len(numbers) THEN {numbers[n]} ELSE absent

ConfigWord  == [L1 |-> "L1_Config", L2 |-> "L2_Config", LLC |-> "LLC_Config"]
LatencyWord == [L1 |-> "L1_Latency", L2 |-> "L2_Latency", LLC |-> "LLC_Latency",
                Memory |-> "Mem_Latency"]
DefaultLatency == [L1 |-> <<1, 0>>, L2 |-> <<1, 0>>, LLC |-> <<20, 0>>, Memory |-> <<0, 50>>]

ConfigTook(level, k) ==
  LET c == cacheConfig[level]
  IN  Took(ConfigWord[level], k, <<c.size, c.associativity, c.write_through, c.write_allocate>>,
           <<DEFAULT_SIZE, DEFAULT_ASSOCIATIVITY, 0, 0>>, Uninitialised)
LatencyTook(s, k) ==
  Took(LatencyWord[s], k, <<latency[s].hit, latency[s].bus>>, DefaultLatency[s], {0})
InstrTook(name, k) == Took(name, k, <<instrPfm[name]>>, <<1>>, {1})

(* Each parameter is what the last line for it says, among the first       *)
(* MAXLINES, and its default if there is none; a number the line does not  *)
(* have is 0 for a latency, 1 for an instruction and anything for a cache. *)
(* No line disturbs the parameter of another, which the seven copies of    *)
(* the same code in PfmConfig, and a table searched for names that are not *)
(* there, could.                                                           *)
ParametersOfTheirOwnLines ==
  ~Reading =>
    /\ \A level \in Level : ConfigTook(level, LinesToRead)
    /\ \A s \in Level \cup {"Memory"} : LatencyTook(s, LinesToRead)
    /\ \A name \in InstrName : InstrTook(name, LinesToRead)

=============================================================================
