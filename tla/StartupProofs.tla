---------------------------- MODULE StartupProofs ----------------------------
(***************************************************************************)
(* Before the first cycle. Whatever a configuration file says, leaves out  *)
(* or leaves uninitialised, a simulation that starts has caches whose      *)
(* capacity is divided evenly into sets: PfmConfig keeps the division      *)
(* exact, "Divides", and that there is a set at all is only seen when the  *)
(* simulation starts. Every parameter is what its own last line says:      *)
(* "ParametersSoFar", line by line. And what ELFIO makes of a program is   *)
(* what its headers describe up to the first gap in the file: "ReaderInv", *)
(* which relates the state of the stream to the parts of the file that     *)
(* were there.                                                             *)
(***************************************************************************)
EXTENDS Startup, TLAPS

\* What PfmConfig leaves of a level, with or without a line for it.
Divides(c) == /\ c.set_num \in Int /\ c.associativity \in Int /\ c.size \in Int
              /\ c.size = c.set_num * SetSize(c.associativity)

Divided ==
  /\ lines \in Seq(Line) /\ line \in Nat
  /\ \A level \in Level : Divides(cacheConfig[level])
  /\ DOMAIN cacheConfig = Level

Inv == Divided /\ StartsWithProperCaches

-----------------------------------------------------------------------------
\* An exact division is undone by multiplication, whatever the signs.
LEMMA ExactlyUndone ==
  ASSUME NEW m \in Int, NEW n \in Int, n # 0, m % Magnitude(n) = 0
  PROVE  Exactly(m, n) \in Int /\ m = Exactly(m, n) * n
<1>1. Magnitude(n) \in Nat \ {0}
  BY DEF Magnitude
<1>2. \A d \in Nat \ {0} : m % d = 0 => m \div d \in Int /\ m = (m \div d) * d
  BY SMT
<1>3. m \div Magnitude(n) \in Int /\ m = (m \div Magnitude(n)) * Magnitude(n)
  BY <1>1, <1>2
<1>4. CASE n < 0
<2>1. Exactly(m, n) = -(m \div Magnitude(n)) /\ n = -Magnitude(n)
  BY <1>4, <1>1 DEF Exactly, Magnitude
<2>2. \A q, d \in Int : q * d = (-q) * (-d)
  BY SMT
<2>. QED  BY <1>1, <1>3, <2>1, <2>2
<1>5. CASE ~(n < 0)
  BY <1>5, <1>3 DEF Exactly, Magnitude
<1>. QED  BY <1>4, <1>5

\* The product is a number of an int, and itself if it is one.
LEMMA SetSizeWraps ==
  ASSUME NEW a \in Int
  PROVE  /\ SetSize(a) \in Int
         /\ a * BLOCK_SIZE \in -INT .. INT-1 => SetSize(a) = a * BLOCK_SIZE
<1>. DEFINE x == a * BLOCK_SIZE
<1>1. x \in Int /\ INT \in Nat \ {0}
<2>1. \A m \in Int, n \in Nat : m * n \in Int
  BY SMT
<2>. QED  BY <2>1, ConfigAssumption
<1>2. SetSize(a) = ((x + INT) % (2 * INT)) - INT
  BY DEF SetSize
<1>. HIDE DEF x
<1>3. \A y \in Int, d \in Nat \ {0} : y % d \in Int /\ (y \in 0 .. d-1 => y % d = y)
  BY SMT
<1>4. /\ (x + INT) % (2 * INT) \in Int
      /\ x + INT \in 0 .. 2*INT - 1 => (x + INT) % (2 * INT) = x + INT
<2>1. x + INT \in Int /\ 2 * INT \in Nat \ {0}
  BY <1>1
<2>. QED  BY <2>1, <1>3
<1>5. SetSize(a) \in Int /\ (x \in -INT .. INT-1 => SetSize(a) = x)
  BY <1>1, <1>2, <1>4
<1>. QED  BY <1>5 DEF x

\* A line that PfmConfig does not refuse describes such a level.
LEMMA GeometryDivides ==
  ASSUME NEW size \in Int, NEW associativity \in Int, NEW wt, NEW wa, Proper(size, associativity)
  PROVE  Divides(Geometry(size, associativity, wt, wa))
<1>. DEFINE n == SetSize(associativity)
<1>1. n \in Int /\ n # 0 /\ size % Magnitude(n) = 0
  BY SetSizeWraps DEF Proper
<1>. HIDE DEF n
<1>2. Exactly(size, n) \in Int /\ size = Exactly(size, n) * n
  BY <1>1, ExactlyUndone
<1>. QED  BY <1>2 DEF Divides, Geometry, n

LEMMA DefaultDivides == Divides(DefaultConfig)
<1>. DEFINE n == DEFAULT_ASSOCIATIVITY * BLOCK_SIZE
<1>1. n \in Nat \ {0} /\ n < INT /\ INT \in Nat \ {0}
<2>1. \A a, b \in Nat \ {0} : a * b \in Nat \ {0}
  BY SMT
<2>. QED  BY <2>1, ConfigAssumption
<1>2. SetSize(DEFAULT_ASSOCIATIVITY) = n
<2>1. n \in -INT .. INT-1 /\ DEFAULT_ASSOCIATIVITY \in Int
  BY <1>1, ConfigAssumption
<2>. QED  BY <2>1, SetSizeWraps
<1>3. DEFAULT_SIZE % n = 0
  BY ConfigAssumption
<1>. HIDE DEF n
<1>4. Proper(DEFAULT_SIZE, DEFAULT_ASSOCIATIVITY)
  BY <1>1, <1>2, <1>3 DEF Proper, Magnitude
<1>. QED  BY <1>4, GeometryDivides, ConfigAssumption DEF DefaultConfig

\* What a line is scanned into is a number, written or not.
LEMMA ScannedIsNumber ==
  ASSUME lines \in Seq(Line), Reading, line \in Nat, NEW n \in Nat \ {0}, NEW x \in Scanned(n, Uninitialised)
  PROVE  x \in Int
<1>1. line + 1 \in 1 .. Len(lines)
  BY ConfigAssumption DEF Reading, LinesToRead
<1>2. Numbers \in Seq(Int)
<2>1. lines[line + 1] \in Line
  BY <1>1
<2>. QED  BY <2>1 DEF Numbers, Line
<1>3. CASE n <= Len(Numbers)
  BY <1>2, <1>3 DEF Scanned
<1>4. CASE ~(n <= Len(Numbers))
  BY <1>4, ConfigAssumption DEF Scanned
<1>. QED  BY <1>3, <1>4

-----------------------------------------------------------------------------
LEMMA InvInit == Init => Inv
<1>. SUFFICES ASSUME Init PROVE Inv
  OBVIOUS
<1>1. lines \in Seq(Line) /\ line \in Nat
  BY DEF Init, ConfigInit
<1>2. \A level \in Level : Divides(cacheConfig[level])
  BY DefaultDivides DEF Init, ConfigInit
<1>. QED  BY <1>1, <1>2 DEF Init, ConfigInit, Inv, Divided, StartsWithProperCaches

\* Steps that leave the configuration alone, the start of the simulation aside.
LEMMA InvSame ==
  Inv /\ UNCHANGED configVars /\ (phase' = "run" => phase = "run") => Inv'
  BY DEF Inv, Divided, Divides, StartsWithProperCaches, configVars

\* A line of the file changes one level at most.
LEMMA DividedPfmConfig == Divided /\ PfmConfig => Divided'
<1>. SUFFICES ASSUME Divided, PfmConfig PROVE Divided'
  OBVIOUS
<1>1. lines' = lines /\ lines \in Seq(Line) /\ line' \in Nat /\ line \in Nat /\ Reading
  BY DEF Divided, PfmConfig
<1>2. CASE UNCHANGED cacheConfig
  BY <1>1, <1>2 DEF Divided, Divides
<1>3. CASE ReadConfig
<2>1. PICK size \in Scanned(1, Uninitialised), associativity \in Scanned(2, Uninitialised),
           wt \in Scanned(3, Uninitialised), wa \in Scanned(4, Uninitialised) :
        /\ Proper(size, associativity)
        /\ cacheConfig' = [cacheConfig EXCEPT
                             ![ConfigOf[Word]] = Geometry(size, associativity, wt, wa)]
  BY <1>3 DEF ReadConfig
<2>2. Divides(Geometry(size, associativity, wt, wa))
  BY <1>1, <2>1, ScannedIsNumber, GeometryDivides
<2>3. \A level \in Level : Divides(cacheConfig'[level])
  BY <2>1, <2>2 DEF Divided
<2>. QED  BY <1>1, <2>1, <2>3 DEF Divided, Divides
<1>. QED  BY <1>2, <1>3 DEF PfmConfig, ReadComment, ReadLatency, ReadInstr

\* SetCacheConfig lets the simulation start with sets only.
LEMMA InvRun == Inv /\ Run => Inv'
<1>. SUFFICES ASSUME Inv, Run PROVE Inv'
  OBVIOUS
<1>1. UNCHANGED configVars /\ \A level \in Level : Settable(cacheConfig[level])
  BY DEF Run
<1>2. Divided'
  BY <1>1 DEF Inv, Divided, Divides, configVars
<1>3. StartsWithProperCaches'
<2>. SUFFICES ASSUME NEW level \in Level
              PROVE  LET c    == cacheConfig[level]
                         fits == c.associativity * BLOCK_SIZE \in -INT .. INT-1
                     IN  /\ c.set_num # 0
                         /\ Exactly(c.size, BLOCK_SIZE) % Magnitude(c.set_num) = 0
                         /\ fits => c.size = c.set_num * c.associativity * BLOCK_SIZE
  BY <1>1 DEF StartsWithProperCaches, configVars
<2>. DEFINE c == cacheConfig[level]
<2>1. /\ c.set_num \in Int /\ c.associativity \in Int
      /\ c.size = c.set_num * SetSize(c.associativity) /\ BLOCK_SIZE \in Int
  BY ConfigAssumption DEF Inv, Divided, Divides
<2>2. c.set_num # 0 /\ Exactly(c.size, BLOCK_SIZE) % Magnitude(c.set_num) = 0
  BY <1>1 DEF Settable
<2>. HIDE DEF c
<2>3. \A n, a, b \in Int : n * (a * b) = n * a * b
  BY SMT
<2>4. c.associativity * BLOCK_SIZE \in -INT .. INT-1
        => c.size = c.set_num * c.associativity * BLOCK_SIZE
  BY <2>1, <2>3, SetSizeWraps
<2>. QED  BY <2>2, <2>4 DEF c
<1>. QED  BY <1>2, <1>3 DEF Inv

LEMMA InvNext == Inv /\ [Next]_vars => Inv'
<1>. SUFFICES ASSUME Inv, [Next]_vars PROVE Inv'
  OBVIOUS
<1>1. CASE ReadConfigLine
<2>1. Divided' /\ phase = "config" /\ phase' = phase
  BY <1>1, DividedPfmConfig DEF ReadConfigLine, Inv
<2>. QED  BY <2>1 DEF Inv, StartsWithProperCaches
<1>2. CASE ParseCommandLine
  BY <1>2, InvSame DEF ParseCommandLine
<1>3. CASE ConfigAborts
  BY <1>3, InvSame DEF ConfigAborts
<1>4. CASE Configured
  BY <1>4, InvSame DEF Configured
<1>5. CASE LoadStep
  BY <1>5, InvSame DEF LoadStep
<1>6. CASE NotLoaded
  BY <1>6, InvSame DEF NotLoaded
<1>7. CASE ReadUserProg
  BY <1>7, InvSame DEF ReadUserProg
<1>8. CASE Run
  BY <1>8, InvRun
<1>9. CASE SetupAborts
  BY <1>9, InvSame DEF SetupAborts
<1>10. CASE UNCHANGED vars
  BY <1>10, InvSame DEF vars
<1>. QED
  BY <1>1, <1>2, <1>3, <1>4, <1>5, <1>6, <1>7, <1>8, <1>9, <1>10 DEF Next

(* Whatever the configuration file holds, a simulation that starts has      *)
(* levels that are evenly divided into at least one set, of as many blocks  *)
(* as the associativity unless its product with the block size overflows    *)
(* (PfmConfig and Cache::SetConfig).                                        *)
THEOREM ProperCachesCorrect == Spec => []StartsWithProperCaches
<1>1. Inv => StartsWithProperCaches
  BY DEF Inv
<1>. QED  BY <1>1, InvInit, InvNext, PTL DEF Spec

-----------------------------------------------------------------------------
(* The words of the lines read so far decide about the parameters so far.  *)

ParametersSoFar ==
  /\ lines \in Seq(Line) /\ line \in 0 .. LinesToRead
  /\ DOMAIN cacheConfig = Level /\ DOMAIN latency = Level \cup {"Memory"}
  /\ DOMAIN instrPfm = InstrName \cup {Unnamed}
  /\ \A level \in Level : ConfigTook(level, line)
  /\ \A s \in Level \cup {"Memory"} : LatencyTook(s, line)
  /\ \A name \in InstrName : InstrTook(name, line)

LEMMA NoLastLine == \A word : LastOf(word, 0) = 0
BY DEF LastOf

LEMMA LastLine ==
  ASSUME NEW word, NEW k \in Nat
  PROVE  LastOf(word, k + 1) = IF lines[k + 1].word = word THEN k + 1 ELSE LastOf(word, k)
<1>. DEFINE naming(j) == {n \in 1 .. j : lines[n].word = word}
<1>1. CASE lines[k + 1].word = word
<2>1. k + 1 \in naming(k + 1) /\ \A m \in naming(k + 1) : m <= k + 1
  BY <1>1
<2>2. \A n \in naming(k + 1) : (\A m \in naming(k + 1) : m <= n) => n = k + 1
<3>1. SUFFICES ASSUME NEW n \in naming(k + 1), \A m \in naming(k + 1) : m <= n PROVE n = k + 1
  OBVIOUS
<3>2. n \in 1 .. k + 1 /\ k + 1 <= n
  BY <2>1, <3>1
<3>. QED  BY <3>2
<2>3. (CHOOSE n \in naming(k + 1) : \A m \in naming(k + 1) : m <= n) = k + 1
  BY <2>1, <2>2
<2>4. naming(k + 1) # {}
  BY <2>1
<2>. QED  BY <1>1, <2>3, <2>4 DEF LastOf
<1>2. CASE lines[k + 1].word # word
<2>1. naming(k + 1) = naming(k)
  BY <1>2
<2>2. \A j : LastOf(word, j) = IF naming(j) = {} THEN 0
                              ELSE CHOOSE n \in naming(j) : \A m \in naming(j) : m <= n
  BY DEF LastOf
<2>. HIDE DEF naming
<2>3. LastOf(word, k + 1) = LastOf(word, k)
  BY <2>1, <2>2
<2>. QED  BY <1>2, <2>3
<1>. QED  BY <1>1, <1>2

\* A line that has another word leaves what was taken.
LEMMA StillTook ==
  ASSUME NEW word, NEW k \in Nat, NEW variables, NEW otherwise, NEW absent,
         Took(word, k, variables, otherwise, absent), lines[k + 1].word # word
  PROVE  Took(word, k + 1, variables, otherwise, absent)
BY LastLine DEF Took

\* A line that has the word gives what was scanned.
LEMMA TookScanned ==
  ASSUME NEW word, NEW k \in Nat, NEW variables, NEW otherwise, NEW absent, lines[k + 1].word = word,
         \A n \in DOMAIN variables :
           variables[n] \in IF n <= Len(lines[k + 1].numbers) THEN {lines[k + 1].numbers[n]} ELSE absent
  PROVE  Took(word, k + 1, variables, otherwise, absent)
<1>1. LastOf(word, k + 1) = k + 1
  BY LastLine
<1>2. k + 1 # 0
  OBVIOUS
<1>. QED  BY <1>1, <1>2 DEF Took

\* The words PfmConfig compares with are all different.
LEMMA WordsDiffer ==
  /\ \A level \in Level : /\ ConfigWord[level] \in DOMAIN ConfigOf
                          /\ ConfigOf[ConfigWord[level]] = level
  /\ \A word \in DOMAIN ConfigOf : ConfigOf[word] \in Level /\ ConfigWord[ConfigOf[word]] = word
  /\ \A s \in Level \cup {"Memory"} : /\ LatencyWord[s] \in DOMAIN LatencyOf
                                      /\ LatencyOf[LatencyWord[s]] = s
  /\ \A word \in DOMAIN LatencyOf : /\ LatencyOf[word] \in Level \cup {"Memory"}
                                    /\ LatencyWord[LatencyOf[word]] = word
  /\ COMMENT \notin DOMAIN ConfigOf \cup DOMAIN LatencyOf
  /\ DOMAIN ConfigOf \cap DOMAIN LatencyOf = {}
<1>1. DOMAIN ConfigOf = {"L1_Config", "L2_Config", "LLC_Config"}
  BY DEF ConfigOf
<1>2. DOMAIN LatencyOf = {"L1_Latency", "L2_Latency", "LLC_Latency", "Mem_Latency"}
  BY DEF LatencyOf
<1>3. /\ ConfigOf["L1_Config"] = "L1" /\ ConfigOf["L2_Config"] = "L2" /\ ConfigOf["LLC_Config"] = "LLC"
      /\ ConfigWord["L1"] = "L1_Config" /\ ConfigWord["L2"] = "L2_Config" /\ ConfigWord["LLC"] = "LLC_Config"
  BY DEF ConfigOf, ConfigWord
<1>4. /\ LatencyOf["L1_Latency"] = "L1" /\ LatencyOf["L2_Latency"] = "L2"
      /\ LatencyOf["LLC_Latency"] = "LLC" /\ LatencyOf["Mem_Latency"] = "Memory"
  BY DEF LatencyOf
<1>5. /\ LatencyWord["L1"] = "L1_Latency" /\ LatencyWord["L2"] = "L2_Latency"
      /\ LatencyWord["LLC"] = "LLC_Latency" /\ LatencyWord["Memory"] = "Mem_Latency"
  BY DEF LatencyWord
<1>. QED  BY <1>1, <1>2, <1>3, <1>4, <1>5 DEF Level, COMMENT

LEMMA ParametersInit == Init => ParametersSoFar
<1>. SUFFICES ASSUME Init PROVE ParametersSoFar
  OBVIOUS
<1>1. lines \in Seq(Line) /\ line = 0 /\ line \in 0 .. LinesToRead
  BY ConfigAssumption DEF Init, ConfigInit, LinesToRead
<1>2. DOMAIN cacheConfig = Level /\ DOMAIN latency = Level \cup {"Memory"}
      /\ DOMAIN instrPfm = InstrName \cup {Unnamed}
  BY DEF Init, ConfigInit
<1>3. \A level \in Level : ConfigTook(level, line)
<2>1. \A level \in Level : cacheConfig[level] = DefaultConfig
  BY DEF Init, ConfigInit
<2>. QED  BY <1>1, <2>1, NoLastLine DEF ConfigTook, Took, DefaultConfig, Geometry
<1>4. \A name \in InstrName : InstrTook(name, line)
  BY <1>1, NoLastLine DEF InstrTook, Took, Init, ConfigInit
<1>5. \A s \in Level \cup {"Memory"} : LatencyTook(s, line)
<2>1. /\ latency["Memory"] = [hit |-> 0, bus |-> 50] /\ latency["LLC"] = [hit |-> 20, bus |-> 0]
      /\ latency["L1"] = [hit |-> 1, bus |-> 0] /\ latency["L2"] = [hit |-> 1, bus |-> 0]
  BY DEF Init, ConfigInit, Level
<2>2. \A s \in Level \cup {"Memory"} : <<latency[s].hit, latency[s].bus>> = DefaultLatency[s]
  BY <2>1 DEF DefaultLatency, Level
<2>. QED  BY <1>1, <2>2, NoLastLine DEF LatencyTook, Took
<1>. QED  BY <1>1, <1>2, <1>3, <1>4, <1>5 DEF ParametersSoFar

\* What lines say does not change.
LEMMA SameLines ==
  ASSUME lines' = lines
  PROVE  /\ \A word, k : LastOf(word, k)' = LastOf(word, k)
         /\ \A word, k, variables, otherwise, absent :
              Took(word, k, variables, otherwise, absent)' <=> Took(word, k, variables, otherwise, absent)
<1>1. \A word, k : LastOf(word, k)' = LastOf(word, k)
  BY DEF LastOf
<1>. QED  BY <1>1 DEF Took

\* Only the reader of lines changes what these speak of.
LEMMA ParametersSame == ParametersSoFar /\ UNCHANGED configVars => ParametersSoFar'
<1>. SUFFICES ASSUME ParametersSoFar, UNCHANGED configVars PROVE ParametersSoFar'
  OBVIOUS
<1>1. UNCHANGED <<lines, line, cacheConfig, latency, instrPfm>>
  BY DEF configVars
<1>2. /\ lines' \in Seq(Line) /\ line' \in 0 .. LinesToRead'
      /\ DOMAIN cacheConfig' = Level /\ DOMAIN latency' = Level \cup {"Memory"}
      /\ DOMAIN instrPfm' = InstrName \cup {Unnamed}
  BY <1>1 DEF ParametersSoFar, LinesToRead
<1>3. \A level : ConfigTook(level, line)' = ConfigTook(level, line)
  BY <1>1 DEF ConfigTook, Took, LastOf
<1>4. \A name : InstrTook(name, line)' = InstrTook(name, line)
  BY <1>1 DEF InstrTook, Took, LastOf
<1>5. \A s : LatencyTook(s, line)' = LatencyTook(s, line)
  BY <1>1 DEF LatencyTook, Took, LastOf
<1>. QED  BY <1>2, <1>3, <1>4, <1>5 DEF ParametersSoFar

\* A line that PfmConfig reads disturbs no parameter but its own.
LEMMA ParametersPfmConfig == ParametersSoFar /\ PfmConfig => ParametersSoFar'
<1>. SUFFICES ASSUME ParametersSoFar, PfmConfig PROVE ParametersSoFar'
  OBVIOUS
<1>1. /\ lines' = lines /\ lines \in Seq(Line) /\ line' = line + 1 /\ line \in Nat
      /\ line' \in 0 .. LinesToRead /\ LinesToRead' = LinesToRead /\ Word = lines[line + 1].word
      /\ Numbers = lines[line + 1].numbers
  BY ConfigAssumption DEF ParametersSoFar, PfmConfig, Reading, LinesToRead, Word, Numbers
<1>. DEFINE of(f) == <<f.size, f.associativity, f.write_through, f.write_allocate>>
            default == <<DEFAULT_SIZE, DEFAULT_ASSOCIATIVITY, 0, 0>>
            times(f) == <<f.hit, f.bus>>
            Storage == Level \cup {"Memory"}
            Configs(c, k) == \A level \in Level :
                               Took(ConfigWord[level], k, of(c[level]), default, Uninitialised)
            Latencies(l, k) == \A s \in Storage :
                                 Took(LatencyWord[s], k, times(l[s]), DefaultLatency[s], {0})
            Instrs(i, k) == \A name \in InstrName : Took(name, k, <<i[name]>>, << 1 >>, {1})
<1>2. \A word, variables, otherwise, absent :
        Took(word, line, variables, otherwise, absent) /\ Word # word
          => Took(word, line + 1, variables, otherwise, absent)
  BY <1>1, StillTook
<1>3. Configs(cacheConfig, line) /\ Latencies(latency, line) /\ Instrs(instrPfm, line)
  BY DEF ParametersSoFar, ConfigTook, LatencyTook, InstrTook
<1>4. SUFFICES /\ DOMAIN cacheConfig' = Level /\ DOMAIN latency' = Storage
               /\ DOMAIN instrPfm' = InstrName \cup {Unnamed}
               /\ Configs(cacheConfig', line + 1) /\ Latencies(latency', line + 1)
               /\ Instrs(instrPfm', line + 1)
<2>1. ASSUME Configs(cacheConfig', line + 1), NEW level \in Level PROVE ConfigTook(level, line)'
<3>1. Took(ConfigWord[level], line + 1, of(cacheConfig'[level]), default, Uninitialised)
  BY <2>1
<3>. QED  BY <3>1, <1>1, SameLines DEF ConfigTook
<2>2. ASSUME Latencies(latency', line + 1), NEW s \in Storage PROVE LatencyTook(s, line)'
<3>1. Took(LatencyWord[s], line + 1, times(latency'[s]), DefaultLatency[s], {0})
  BY <2>2
<3>. QED  BY <3>1, <1>1, SameLines DEF LatencyTook
<2>3. ASSUME Instrs(instrPfm', line + 1), NEW name \in InstrName PROVE InstrTook(name, line)'
<3>1. Took(name, line + 1, <<instrPfm'[name]>>, << 1 >>, {1})
  BY <2>3
<3>. QED  BY <3>1, <1>1, SameLines DEF InstrTook
<2>. HIDE DEF Configs, Latencies, Instrs
<2>. QED  BY <1>1, <2>1, <2>2, <2>3 DEF ParametersSoFar
<1>5. DOMAIN cacheConfig = Level /\ DOMAIN latency = Storage
      /\ DOMAIN instrPfm = InstrName \cup {Unnamed}
  BY DEF ParametersSoFar
<1>. HIDE DEF of, default, times
\* What the words of one kind leave alone.
<1>6. Word \notin DOMAIN ConfigOf => Configs(cacheConfig, line + 1)
  BY <1>2, <1>3, WordsDiffer
<1>7. Word \in {COMMENT} \cup DOMAIN LatencyOf \cup DOMAIN ConfigOf => Instrs(instrPfm, line + 1)
<2>1. \A name \in InstrName : name \notin {COMMENT} \cup DOMAIN LatencyOf \cup DOMAIN ConfigOf
  BY NamesAssumption
<2>. QED  BY <1>2, <1>3, <2>1
<1>8. Word \notin DOMAIN LatencyOf => Latencies(latency, line + 1)
  BY <1>2, <1>3, WordsDiffer
<1>9. CASE ReadComment
<2>1. Word = COMMENT /\ UNCHANGED <<cacheConfig, latency, instrPfm>>
  BY <1>9 DEF ReadComment
<2>. HIDE DEF Configs, Latencies, Instrs
<2>. QED  BY <2>1, <1>5, <1>6, <1>7, <1>8, WordsDiffer
<1>10. CASE ReadLatency
<2>1. Word \in DOMAIN LatencyOf /\ UNCHANGED <<cacheConfig, instrPfm>>
  BY <1>10 DEF ReadLatency
<2>2. PICK hit \in Scanned(1, {0}), bus \in Scanned(2, {0}) :
        latency' = [latency EXCEPT ![LatencyOf[Word]] = [hit |-> hit, bus |-> bus]]
  BY <1>10 DEF ReadLatency
<2>3. DOMAIN latency' = Storage
  BY <2>2, <1>5
<2>4. ASSUME NEW s \in Storage
      PROVE  Took(LatencyWord[s], line + 1, times(latency'[s]), DefaultLatency[s], {0})
<3>1. CASE Word = LatencyWord[s]
<4>1. latency'[s] = [hit |-> hit, bus |-> bus]
  BY <2>2, <1>5, <3>1, WordsDiffer
<4>. DEFINE scanned == <<hit, bus>>
<4>2. times(latency'[s]) = scanned
  BY <4>1 DEF times
<4>3. \A n \in DOMAIN scanned : scanned[n] \in IF n <= Len(Numbers) THEN {Numbers[n]} ELSE {0}
<5>1. DOMAIN scanned = {1, 2}
  OBVIOUS
<5>2. /\ hit \in IF 1 <= Len(Numbers) THEN {Numbers[1]} ELSE {0}
      /\ bus \in IF 2 <= Len(Numbers) THEN {Numbers[2]} ELSE {0}
  BY DEF Scanned
<5>. QED  BY <5>1, <5>2
<4>. HIDE DEF scanned
<4>. QED  BY <1>1, <3>1, <4>2, <4>3, TookScanned
<3>2. CASE Word # LatencyWord[s]
<4>1. LatencyOf[Word] # s
  BY <2>1, <3>2, WordsDiffer
<4>2. latency'[s] = latency[s]
  BY <2>2, <4>1, <1>5
<4>. QED  BY <1>2, <1>3, <3>2, <4>2
<3>. QED  BY <3>1, <3>2
<2>5. Configs(cacheConfig', line + 1) /\ Instrs(instrPfm', line + 1)
  BY <2>1, <1>6, <1>7, WordsDiffer
<2>6. Latencies(latency', line + 1)
  BY <2>4
<2>. HIDE DEF Configs, Latencies, Instrs
<2>. QED  BY <2>1, <2>3, <2>5, <2>6, <1>5
<1>11. CASE ReadConfig
<2>1. Word \in DOMAIN ConfigOf /\ UNCHANGED <<latency, instrPfm>>
  BY <1>11 DEF ReadConfig
<2>2. PICK size \in Scanned(1, Uninitialised), associativity \in Scanned(2, Uninitialised),
           wt \in Scanned(3, Uninitialised), wa \in Scanned(4, Uninitialised) :
        cacheConfig' = [cacheConfig EXCEPT
                          ![ConfigOf[Word]] = Geometry(size, associativity, wt, wa)]
  BY <1>11 DEF ReadConfig
<2>3. DOMAIN cacheConfig' = Level
  BY <2>2, <1>5
<2>4. ASSUME NEW level \in Level
      PROVE  Took(ConfigWord[level], line + 1, of(cacheConfig'[level]), default, Uninitialised)
<3>1. CASE Word = ConfigWord[level]
<4>1. cacheConfig'[level] = Geometry(size, associativity, wt, wa)
  BY <2>2, <1>5, <3>1, WordsDiffer
<4>. DEFINE scanned == <<size, associativity, wt, wa>>
<4>2. of(cacheConfig'[level]) = scanned
  BY <4>1 DEF of, Geometry
<4>3. \A n \in DOMAIN scanned :
        scanned[n] \in IF n <= Len(Numbers) THEN {Numbers[n]} ELSE Uninitialised
<5>1. DOMAIN scanned = {1, 2, 3, 4}
  OBVIOUS
<5>2. /\ size \in IF 1 <= Len(Numbers) THEN {Numbers[1]} ELSE Uninitialised
      /\ associativity \in IF 2 <= Len(Numbers) THEN {Numbers[2]} ELSE Uninitialised
      /\ wt \in IF 3 <= Len(Numbers) THEN {Numbers[3]} ELSE Uninitialised
      /\ wa \in IF 4 <= Len(Numbers) THEN {Numbers[4]} ELSE Uninitialised
  BY DEF Scanned
<5>. QED  BY <5>1, <5>2
<4>. HIDE DEF scanned
<4>. QED  BY <1>1, <3>1, <4>2, <4>3, TookScanned
<3>2. CASE Word # ConfigWord[level]
<4>1. ConfigOf[Word] # level
  BY <2>1, <3>2, WordsDiffer
<4>2. cacheConfig'[level] = cacheConfig[level]
  BY <2>2, <4>1, <1>5
<4>. QED  BY <1>2, <1>3, <3>2, <4>2
<3>. QED  BY <3>1, <3>2
<2>5. Latencies(latency', line + 1) /\ Instrs(instrPfm', line + 1)
  BY <2>1, <1>7, <1>8, WordsDiffer
<2>6. Configs(cacheConfig', line + 1)
  BY <2>4
<2>. HIDE DEF Configs, Latencies, Instrs
<2>. QED  BY <2>1, <2>3, <2>5, <2>6, <1>5
<1>12. CASE ReadInstr
<2>1. /\ Word \notin {COMMENT} \cup DOMAIN LatencyOf \cup DOMAIN ConfigOf
      /\ UNCHANGED <<cacheConfig, latency>>
  BY <1>12 DEF ReadInstr
<2>2. PICK performance \in Scanned(1, {1}) :
        instrPfm' = [instrPfm EXCEPT ![IF Word \in InstrName THEN Word ELSE Unnamed] = performance]
  BY <1>12 DEF ReadInstr
<2>3. DOMAIN instrPfm' = InstrName \cup {Unnamed}
  BY <2>2, <1>5
<2>4. ASSUME NEW name \in InstrName
      PROVE  Took(name, line + 1, <<instrPfm'[name]>>, << 1 >>, {1})
<3>1. CASE Word = name
<4>1. instrPfm'[name] = performance
  BY <2>2, <1>5, <3>1
<4>2. performance \in IF 1 <= Len(Numbers) THEN {Numbers[1]} ELSE {1}
  BY DEF Scanned
<4>3. \A n \in DOMAIN <<performance>> :
        <<performance>>[n] \in IF n <= Len(Numbers) THEN {Numbers[n]} ELSE {1}
  BY <4>2
<4>. QED  BY <1>1, <3>1, <4>1, <4>3, TookScanned
<3>2. CASE Word # name
<4>1. name # Unnamed
  BY NamesAssumption
<4>2. instrPfm'[name] = instrPfm[name]
  BY <2>2, <4>1, <3>2, <1>5
<4>. QED  BY <1>2, <1>3, <3>2, <4>2
<3>. QED  BY <3>1, <3>2
<2>5. Configs(cacheConfig', line + 1) /\ Latencies(latency', line + 1)
  BY <2>1, <1>6, <1>8
<2>6. Instrs(instrPfm', line + 1)
  BY <2>4
<2>. HIDE DEF Configs, Latencies, Instrs
<2>. QED  BY <2>1, <2>3, <2>5, <2>6, <1>5
<1>. HIDE DEF Configs, Latencies, Instrs
<1>. QED  BY <1>9, <1>10, <1>11, <1>12 DEF PfmConfig

LEMMA ParametersNext == ParametersSoFar /\ [Next]_vars => ParametersSoFar'
<1>1. [Next]_vars => PfmConfig \/ UNCHANGED configVars
  BY DEF Next, vars, ParseCommandLine, ReadConfigLine, ConfigAborts, Configured, LoadStep, NotLoaded,
         ReadUserProg, Run, SetupAborts
<1>. QED  BY <1>1, ParametersPfmConfig, ParametersSame

(* When PfmConfig is through, the geometry and the latency of every level,  *)
(* the latency of the memory and that of every instruction are what the     *)
(* last line that has their word says, and the default when none does,      *)
(* whatever the lines before and after say.                                 *)
THEOREM ParametersCorrect == Spec => []ParametersOfTheirOwnLines
<1>1. ParametersSoFar => ParametersOfTheirOwnLines
<2>. SUFFICES ASSUME ParametersSoFar, ~Reading PROVE ParametersOfTheirOwnLines
  BY DEF ParametersOfTheirOwnLines
<2>1. line = LinesToRead
  BY ConfigAssumption DEF ParametersSoFar, Reading, LinesToRead
<2>. QED  BY <2>1 DEF ParametersSoFar, ParametersOfTheirOwnLines
<1>. QED  BY <1>1, ParametersInit, ParametersNext, PTL DEF Spec

-----------------------------------------------------------------------------
(* What ELFIO knows of the file while it reads: its header, whether the     *)
(* stream has met a gap, and the segments before it.                        *)

Field(f)      == FileField(0, Ehdr, f)
FieldsOf(seq) == {seq[n] : n \in DOMAIN seq}
FieldNames    == {"class", "data", "e_entry", "e_phoff", "e_shoff", "e_phentsize", "e_phnum", "e_shentsize",
                  "e_shnum", "p_type", "p_offset", "p_vaddr", "p_filesz", "p_memsz",
                  "sh_type", "sh_offset", "sh_size"}

IdentRead  == Fits(0, Len(Ident)) /\ header.class = file[1] /\ header.data = file[2]
HeaderRead == /\ Fits(0, Len(Ehdr))
              /\ \A f \in FieldsOf(Ehdr) \ FieldsOf(Ident) : header[f] = Field(f)

SegmentRead(n, seg) == IF WholeBefore(n) THEN SegmentIsThere(n) => seg = AsInTheFile(n)
                       ELSE seg = Nothing

SectionsRead == /\ segments = << >> /\ next \in 0 .. Field("e_shnum")
                /\ good <=> \A s \in 0 .. next - 1 : SectionIsThere(s)
SegmentsRead == /\ DOMAIN segments = 1 .. next /\ segments = [n \in 1 .. next |-> segments[n]]
                /\ next \in 0 .. Field("e_phnum")
                /\ good <=> WholeBefore(next)
                /\ \A n \in 0 .. next - 1 : SegmentRead(n, segments[n + 1])

ReaderInv ==
  /\ file \in Seq(Cell)
  /\ loading \in {"ident", "header"} => good /\ next = 0 /\ segments = << >>
  /\ loading \in {"header", "sections", "segments", "loaded"} => IdentRead
  /\ loading \in {"sections", "segments", "loaded"} => HeaderRead
  /\ loading = "sections" => SectionsRead
  /\ loading \in {"segments", "loaded"} => SegmentsRead
  /\ loading = "loaded" => next = Field("e_phnum")

LEMMA SwappedIsNumber == Swapped(0) = 0 /\ \A v \in Nat : Swapped(v) \in Nat
<1>1. \A v \in Nat, b \in Nat \ {0} : v % b \in Nat /\ (v % b) * b + v \div b \in Nat
<2>1. \A v \in Nat, b \in Nat \ {0} : v % b \in Nat /\ v \div b \in Nat
  BY SMT
<2>2. \A a, b, c \in Nat : a * b + c \in Nat
  BY SMT
<2>. QED  BY <2>1, <2>2
<1>2. \A b \in Nat \ {0} : 0 % b = 0 /\ 0 \div b = 0 /\ 0 * b = 0
  BY SMT
<1>. QED  BY <1>1, <1>2, CellAssumption DEF Swapped

LEMMA Concatenated ==
  ASSUME NEW S, NEW s \in Seq(S), NEW t \in Seq(S)
  PROVE  /\ s \o t \in Seq(S) /\ Len(s \o t) = Len(s) + Len(t)
         /\ \A n \in 1 .. Len(s) : (s \o t)[n] = s[n]
         /\ \A n \in 1 .. Len(t) : (s \o t)[Len(s) + n] = t[n]
OBVIOUS

LEMMA HeaderFields ==
  /\ Ident \in Seq(FieldNames) /\ Ehdr \in Seq(FieldNames) /\ Phdr \in Seq(FieldNames) /\ Shdr \in Seq(FieldNames)
  /\ Len(Ident) = 2 /\ Len(Ehdr) = 9
  /\ FieldsOf(Ident) = {"class", "data"}
  /\ {"e_entry", "e_phoff", "e_shoff", "e_phentsize", "e_phnum", "e_shentsize", "e_shnum"}
       \subseteq FieldsOf(Ehdr) \ FieldsOf(Ident)
  /\ {"class", "data"} \subseteq FieldsOf(Ehdr)
  /\ {"p_type", "p_offset", "p_vaddr", "p_filesz", "p_memsz"} \subseteq FieldsOf(Phdr)
  /\ {"sh_type", "sh_offset", "sh_size"} \subseteq FieldsOf(Shdr)
<1>. DEFINE rest == <<"e_entry", "e_phoff", "e_shoff", "e_phentsize", "e_phnum", "e_shentsize", "e_shnum">>
<1>1. Ident \in Seq(FieldNames) /\ Len(Ident) = 2 /\ Ident[1] = "class" /\ Ident[2] = "data"
  BY DEF Ident, FieldNames
<1>2. /\ rest \in Seq(FieldNames) /\ Len(rest) = 7
      /\ rest[1] = "e_entry" /\ rest[2] = "e_phoff" /\ rest[3] = "e_shoff" /\ rest[4] = "e_phentsize"
      /\ rest[5] = "e_phnum" /\ rest[6] = "e_shentsize" /\ rest[7] = "e_shnum"
  BY DEF FieldNames
<1>. HIDE DEF rest
<1>3. Ehdr = Ident \o rest
  BY DEF Ehdr, rest
<1>4. /\ Ehdr \in Seq(FieldNames) /\ Len(Ehdr) = 9
      /\ \A n \in 1 .. 2 : Ehdr[n] = Ident[n]
      /\ \A n \in 3 .. 9 : Ehdr[n] = rest[n - 2]
<2>1. Ehdr \in Seq(FieldNames) /\ Len(Ehdr) = Len(Ident) + Len(rest)
  BY <1>1, <1>2, <1>3, Concatenated
<2>2. /\ \A n \in 1 .. Len(Ident) : Ehdr[n] = Ident[n]
      /\ \A n \in 1 .. Len(rest) : Ehdr[Len(Ident) + n] = rest[n]
<3>1. Ident \in Seq(FieldNames) /\ rest \in Seq(FieldNames)
  BY <1>1, <1>2
<3>. QED  BY ONLY <3>1, <1>3, Concatenated
<2>3. ASSUME NEW n \in 3 .. 9 PROVE Ehdr[n] = rest[n - 2]
<3>1. n - 2 \in 1 .. Len(rest) /\ Len(Ident) + (n - 2) = n
  BY <1>1, <1>2
<3>. QED  BY <2>2, <3>1
<2>. QED  BY <1>1, <1>2, <2>1, <2>2, <2>3
<1>5. FieldsOf(Ident) = {"class", "data"}
<2>1. DOMAIN Ident = {1, 2}
  BY <1>1
<2>. QED  BY <1>1, <2>1 DEF FieldsOf
<1>6. \A n \in 1 .. 9 : Ehdr[n] \in FieldsOf(Ehdr)
  BY <1>4 DEF FieldsOf
<1>7. /\ Ehdr[1] = "class" /\ Ehdr[2] = "data"
      /\ Ehdr[3] = "e_entry" /\ Ehdr[4] = "e_phoff" /\ Ehdr[5] = "e_shoff" /\ Ehdr[6] = "e_phentsize"
      /\ Ehdr[7] = "e_phnum" /\ Ehdr[8] = "e_shentsize" /\ Ehdr[9] = "e_shnum"
  BY <1>1, <1>2, <1>4
<1>8. {"e_entry", "e_phoff", "e_shoff", "e_phentsize", "e_phnum", "e_shentsize", "e_shnum", "class", "data"}
        \subseteq FieldsOf(Ehdr)
  BY <1>6, <1>7
<1>9. Phdr \in Seq(FieldNames) /\ {"p_type", "p_offset", "p_vaddr", "p_filesz", "p_memsz"} \subseteq FieldsOf(Phdr)
<2>1. /\ Phdr \in Seq(FieldNames) /\ Len(Phdr) = 5 /\ Phdr[1] = "p_type" /\ Phdr[2] = "p_offset"
      /\ Phdr[3] = "p_vaddr" /\ Phdr[4] = "p_filesz" /\ Phdr[5] = "p_memsz"
  BY DEF Phdr, FieldNames
<2>2. \A n \in 1 .. 5 : Phdr[n] \in FieldsOf(Phdr)
  BY <2>1 DEF FieldsOf
<2>. QED  BY <2>1, <2>2
<1>10. Shdr \in Seq(FieldNames) /\ {"sh_type", "sh_offset", "sh_size"} \subseteq FieldsOf(Shdr)
<2>1. /\ Shdr \in Seq(FieldNames) /\ Len(Shdr) = 3 /\ Shdr[1] = "sh_type" /\ Shdr[2] = "sh_offset"
      /\ Shdr[3] = "sh_size"
  BY DEF Shdr, FieldNames
<2>2. \A n \in 1 .. 3 : Shdr[n] \in FieldsOf(Shdr)
  BY <2>1 DEF FieldsOf
<2>. QED  BY <2>1, <2>2
<1>. QED  BY <1>1, <1>4, <1>5, <1>8, <1>9, <1>10

\* A header that is there is read field by field.
LEMMA RecordThere ==
  ASSUME file \in Seq(Cell), NEW fields \in Seq(FieldNames), NEW pos \in Nat, StillGood(pos, Len(fields)),
         NEW f \in FieldsOf(fields), NEW n, n = CHOOSE m \in DOMAIN fields : fields[m] = f
  PROVE  /\ n \in DOMAIN fields /\ fields[n] = f
         /\ Record(fields, pos)[f] = file[pos + n] /\ file[pos + n] \in Nat
<1>1. n \in DOMAIN fields /\ fields[n] = f
  BY DEF FieldsOf
<1>2. Found(pos, Len(fields)) = SubSeq(file, pos + 1, pos + Len(fields)) /\ pos + Len(fields) <= Len(file)
  BY DEF StillGood, Found, Fits
<1>3. n \in 1 .. Len(fields)
  BY <1>1
<1>4. n \in DOMAIN Found(pos, Len(fields)) /\ Found(pos, Len(fields))[n] = file[pos + n]
  BY <1>2, <1>3
<1>5. file[pos + n] \in Nat
<2>1. pos + n \in 1 .. Len(file)
  BY <1>2, <1>3
<2>2. file[pos + n] \in Cell
  BY <2>1
<2>. QED  BY <2>2, CellAssumption DEF Cell
<1>6. Record(fields, pos)[f] = IF n \in DOMAIN Found(pos, Len(fields)) THEN Found(pos, Len(fields))[n] ELSE 0
  BY DEF Record, FieldsOf
<1>. QED  BY <1>1, <1>4, <1>5, <1>6

LEMMA FieldThere ==
  ASSUME file \in Seq(Cell), header.data = file[2], NEW fields \in Seq(FieldNames), NEW pos \in Nat,
         StillGood(pos, Len(fields)), NEW f \in FieldsOf(fields)
  PROVE  ConvertedRecord(fields, pos)[f] = FileField(pos, fields, f) /\ FileField(pos, fields, f) \in Nat
<1>. DEFINE n == CHOOSE m \in DOMAIN fields : fields[m] = f
<1>1. FileField(pos, fields, f) = Value(pos + n - 1)
  BY DEF FileField
<1>2. n \in DOMAIN fields /\ Record(fields, pos)[f] = file[pos + n] /\ file[pos + n] \in Nat
  BY RecordThere
<1>3. ConvertedRecord(fields, pos)[f] = Converted(Record(fields, pos)[f])
  BY DEF ConvertedRecord, Record, FieldsOf
<1>. HIDE DEF n
<1>4. n \in Nat /\ (pos + n - 1) + 1 = pos + n
  BY <1>2
<1>. QED  BY <1>1, <1>2, <1>3, <1>4, SwappedIsNumber DEF Value, Converted

\* What a header says that is there, without the stream.
LEMMA FieldIsNumber ==
  ASSUME file \in Seq(Cell), NEW fields \in Seq(FieldNames), NEW pos \in Nat, Fits(pos, Len(fields)),
         NEW f \in FieldsOf(fields)
  PROVE  FileField(pos, fields, f) \in Nat
<1>. DEFINE n == CHOOSE m \in DOMAIN fields : fields[m] = f
<1>1. FileField(pos, fields, f) = Value(pos + n - 1)
  BY DEF FileField
<1>2. n \in DOMAIN fields
  BY DEF FieldsOf
<1>. HIDE DEF n
<1>3. pos + n \in 1 .. Len(file) /\ (pos + n - 1) + 1 = pos + n
  BY <1>2 DEF Fits
<1>4. file[pos + n] \in Nat
<2>1. file[pos + n] \in Cell
  BY <1>3
<2>. QED  BY <2>1, CellAssumption DEF Cell
<1>. QED  BY <1>1, <1>3, <1>4, SwappedIsNumber DEF Value

\* A stream that failed reads nothing.
LEMMA FieldMissing ==
  ASSUME ~good, NEW fields, NEW pos, NEW f \in FieldsOf(fields)
  PROVE  ConvertedRecord(fields, pos)[f] = 0
<1>1. DOMAIN Found(pos, Len(fields)) = {}
  BY DEF Found
<1>2. Record(fields, pos)[f] = 0
  BY <1>1 DEF Record, FieldsOf
<1>3. ConvertedRecord(fields, pos)[f] = Converted(Record(fields, pos)[f])
  BY DEF ConvertedRecord, Record, FieldsOf
<1>. QED  BY <1>2, <1>3, SwappedIsNumber DEF Converted

LEMMA BufferThere ==
  ASSUME file \in Seq(Cell), NEW pos \in Nat, NEW n \in Nat, StillGood(pos, n)
  PROVE  Buffer(pos, n) = [i \in 1 .. n |-> file[pos + i]]
<1>1. Found(pos, n) = SubSeq(file, pos + 1, pos + n) /\ pos + n <= Len(file)
  BY DEF StillGood, Found, Fits
<1>2. \A i \in 1 .. n : i \in DOMAIN Found(pos, n) /\ Found(pos, n)[i] = file[pos + i]
  BY <1>1
<1>. QED  BY <1>2 DEF Buffer

\* The parts of the file do not change while it is read.
LEMMA SameFile ==
  ASSUME file' = file
  PROVE  /\ \A pos, fields, f : FileField(pos, fields, f)' = FileField(pos, fields, f)
         /\ \A n : SectionIsThere(n)' <=> SectionIsThere(n)
         /\ \A n : SegmentIsThere(n)' <=> SegmentIsThere(n)
         /\ \A n : AsInTheFile(n)' = AsInTheFile(n)
         /\ \A n : WholeBefore(n)' <=> WholeBefore(n)
<1>1. \A pos, fields, f : FileField(pos, fields, f)' = FileField(pos, fields, f)
  BY DEF FileField, Value
<1>2. \A n : SectionIsThere(n)' <=> SectionIsThere(n)
  BY DEF SectionIsThere, SectionAt, Fits, FileField, Value
<1>3. \A n : SegmentIsThere(n)' <=> SegmentIsThere(n)
  BY DEF SegmentIsThere, SegmentAt, Fits, FileField, Value
<1>4. \A n : AsInTheFile(n)' = AsInTheFile(n)
  BY DEF AsInTheFile, SegmentAt, FileField, Value
<1>5. \A n : WholeBefore(n)' <=> WholeBefore(n)
  BY <1>2, <1>3, <1>1 DEF WholeBefore
<1>. QED  BY <1>1, <1>2, <1>3, <1>4, <1>5

\* The header says where the other headers are.
LEMMA HeaderNumbers ==
  ASSUME file \in Seq(Cell), IdentRead, HeaderRead
  PROVE  /\ Field("e_shnum") \in Nat /\ header.e_shnum = Field("e_shnum")
         /\ Field("e_phnum") \in Nat /\ header.e_phnum = Field("e_phnum")
         /\ \A n \in Nat : /\ SectionAt(n) \in Nat
                           /\ SectionAt(n) = header.e_shoff + n * header.e_shentsize
                           /\ SegmentAt(n) \in Nat
                           /\ SegmentAt(n) = header.e_phoff + n * header.e_phentsize
<1>1. \A f \in FieldsOf(Ehdr) : Field(f) \in Nat
<2>1. Fits(0, Len(Ehdr)) /\ Ehdr \in Seq(FieldNames)
  BY HeaderFields DEF HeaderRead
<2>. QED  BY <2>1, FieldIsNumber DEF Field
<1>2. \A f \in {"e_phoff", "e_shoff", "e_phentsize", "e_phnum", "e_shentsize", "e_shnum"} :
        Field(f) \in Nat /\ header[f] = Field(f)
  BY <1>1, HeaderFields DEF HeaderRead
<1>3. \A a, b, n \in Nat : a + n * b \in Nat
  BY SMT
<1>. QED  BY <1>2, <1>3 DEF SectionAt, SegmentAt, Field

\* The stream is good after a section if it was before and the section is there.
LEMMA SectionLoads ==
  ASSUME ReaderInv, LoadSection
  PROVE  good' <=> good /\ SectionIsThere(next)
<1>. DEFINE pos == header.e_shoff + next * header.e_shentsize
            sh  == ConvertedRecord(Shdr, pos)
            hasData == /\ sh.sh_type \notin {SHT_NULL, SHT_NOBITS}
                       /\ sh.sh_size \in 1 .. Len(file) - 1
<1>1. /\ file \in Seq(Cell) /\ IdentRead /\ HeaderRead /\ next \in Nat
      /\ good' = (StillGood(pos, Len(Shdr)) /\ (hasData => StillGood(sh.sh_offset, sh.sh_size)))
<2>1. file \in Seq(Cell) /\ IdentRead /\ HeaderRead /\ SectionsRead
  BY DEF ReaderInv, LoadSection
<2>2. next \in Nat
  BY <2>1, HeaderNumbers DEF SectionsRead
<2>3. good' = (StillGood(pos, Len(Shdr)) /\ (hasData => StillGood(sh.sh_offset, sh.sh_size)))
  BY DEF LoadSection
<2>. QED  BY <2>1, <2>2, <2>3
<1>2. pos \in Nat /\ pos = SectionAt(next)
  BY <1>1, HeaderNumbers
<1>. HIDE DEF pos
<1>3. CASE ~StillGood(pos, Len(Shdr))
  BY <1>1, <1>2, <1>3 DEF StillGood, SectionIsThere
<1>4. CASE StillGood(pos, Len(Shdr))
<2>. DEFINE field(f) == FileField(pos, Shdr, f)
<2>1. \A f \in {"sh_type", "sh_offset", "sh_size"} : sh[f] = field(f) /\ field(f) \in Nat
<3>1. \A f \in FieldsOf(Shdr) : ConvertedRecord(Shdr, pos)[f] = FileField(pos, Shdr, f)
                                /\ FileField(pos, Shdr, f) \in Nat
  BY <1>1, <1>2, <1>4, FieldThere, HeaderFields DEF IdentRead
<3>. QED  BY <3>1, HeaderFields
<2>2. SectionIsThere(next) <=> \/ field("sh_type") \in {SHT_NULL, SHT_NOBITS}
                               \/ field("sh_size") >= Len(file)
                               \/ field("sh_size") = 0
                               \/ Fits(field("sh_offset"), field("sh_size"))
  BY <1>2, <1>4 DEF SectionIsThere, StillGood
<2>3. good
  BY <1>4 DEF StillGood
<2>4. sh.sh_type = field("sh_type") /\ sh.sh_size = field("sh_size") /\ sh.sh_offset = field("sh_offset")
  BY <2>1
<2>5. field("sh_size") \in Nat /\ Len(file) \in Nat
  BY <1>1, <2>1
<2>. HIDE DEF field, sh
<2>6. hasData <=> ~(\/ field("sh_type") \in {SHT_NULL, SHT_NOBITS}
                    \/ field("sh_size") >= Len(file)
                    \/ field("sh_size") = 0)
  BY <2>4, <2>5
<2>. HIDE DEF hasData
<2>. QED  BY <1>1, <1>4, <2>2, <2>3, <2>4, <2>6 DEF StillGood
<1>. QED  BY <1>3, <1>4

\* And so with a segment, of which nothing is read once the stream failed.
LEMMA SegmentLoads ==
  ASSUME ReaderInv, LoadSegment
  PROVE  /\ good' <=> good /\ SegmentIsThere(next)
         /\ \E seg : /\ segments' = Append(segments, seg)
                     /\ good /\ SegmentIsThere(next) => seg = AsInTheFile(next)
                     /\ ~good => seg = Nothing
<1>. DEFINE pos == header.e_phoff + next * header.e_phentsize
            ph  == ConvertedRecord(Phdr, pos)
            goodHeader == StillGood(pos, Len(Phdr))
            hasData    == ph.p_type # PT_NULL /\ ph.p_filesz \in 1 .. Len(file)
            seg == [vaddr |-> ph.p_vaddr, fileSize |-> ph.p_filesz, memSize |-> ph.p_memsz,
                    data |-> IF ~hasData THEN NoData
                             ELSE IF goodHeader THEN Buffer(ph.p_offset, ph.p_filesz)
                             ELSE [i \in 1 .. ph.p_filesz |-> Uninit]]
<1>1. /\ file \in Seq(Cell) /\ IdentRead /\ HeaderRead /\ next \in Nat
      /\ good' = (goodHeader /\ (hasData => StillGood(ph.p_offset, ph.p_filesz)))
      /\ segments' = Append(segments, seg)
  BY HeaderNumbers DEF ReaderInv, LoadSegment, SegmentsRead
<1>2. pos \in Nat /\ pos = SegmentAt(next)
  BY <1>1, HeaderNumbers
<1>. HIDE DEF pos
<1>3. CASE ~good
<2>1. \A f \in {"p_type", "p_offset", "p_vaddr", "p_filesz", "p_memsz"} : ph[f] = 0
  BY <1>3, FieldMissing, HeaderFields
<2>2. ph.p_type = 0 /\ ph.p_vaddr = 0 /\ ph.p_filesz = 0 /\ ph.p_memsz = 0
  BY <2>1
<2>. HIDE DEF ph
<2>3. ~hasData
  BY <2>2 DEF PT_NULL
<2>4. seg = Nothing
  BY <2>2, <2>3 DEF Nothing
<2>5. ~goodHeader
  BY <1>3 DEF StillGood
<2>. HIDE DEF seg, goodHeader, hasData
<2>. QED  BY <1>1, <1>3, <2>4, <2>5
<1>4. CASE good /\ ~goodHeader
<2>1. ~SegmentIsThere(next)
  BY <1>2, <1>4 DEF StillGood, SegmentIsThere
<2>. HIDE DEF seg, goodHeader, hasData
<2>. QED  BY <1>1, <1>4, <2>1
<1>5. CASE goodHeader
<2>. DEFINE field(f) == FileField(pos, Phdr, f)
<2>1. \A f \in {"p_type", "p_offset", "p_vaddr", "p_filesz", "p_memsz"} : ph[f] = field(f) /\ field(f) \in Nat
<3>1. \A f \in FieldsOf(Phdr) : ConvertedRecord(Phdr, pos)[f] = FileField(pos, Phdr, f)
                                /\ FileField(pos, Phdr, f) \in Nat
  BY <1>1, <1>2, <1>5, FieldThere, HeaderFields DEF IdentRead
<3>. QED  BY <3>1, HeaderFields
<2>2. good /\ Fits(pos, Len(Phdr))
  BY <1>5 DEF StillGood
<2>3. SegmentIsThere(next) <=> \/ field("p_type") = PT_NULL
                               \/ field("p_filesz") \notin 1 .. Len(file)
                               \/ Fits(field("p_offset"), field("p_filesz"))
  BY <1>2, <2>2 DEF SegmentIsThere
<2>4. /\ ph.p_type = field("p_type") /\ ph.p_filesz = field("p_filesz") /\ ph.p_offset = field("p_offset")
      /\ ph.p_vaddr = field("p_vaddr") /\ ph.p_memsz = field("p_memsz")
      /\ field("p_offset") \in Nat /\ field("p_filesz") \in Nat
  BY <2>1
<2>. DEFINE asInFile ==
              [vaddr |-> field("p_vaddr"), fileSize |-> field("p_filesz"), memSize |-> field("p_memsz"),
               data |-> IF field("p_type") = PT_NULL \/ field("p_filesz") \notin 1 .. Len(file) THEN NoData
                        ELSE [i \in 1 .. field("p_filesz") |-> file[field("p_offset") + i]]]
<2>5. AsInTheFile(next) = asInFile
  BY <1>2 DEF AsInTheFile
<2>. HIDE DEF field, ph
<2>6. hasData <=> ~(field("p_type") = PT_NULL \/ field("p_filesz") \notin 1 .. Len(file))
  BY <2>4
<2>7. good' <=> SegmentIsThere(next)
<3>1. StillGood(ph.p_offset, ph.p_filesz) <=> Fits(field("p_offset"), field("p_filesz"))
  BY <2>2, <2>4 DEF StillGood
<3>. HIDE DEF seg, goodHeader, hasData
<3>. QED  BY <1>1, <1>5, <2>3, <2>6, <3>1
<2>8. ASSUME SegmentIsThere(next) PROVE seg = asInFile
<3>1. CASE hasData
<4>1. StillGood(field("p_offset"), field("p_filesz"))
  BY <2>2, <2>3, <2>6, <2>8, <3>1 DEF StillGood
<4>2. Buffer(field("p_offset"), field("p_filesz"))
        = [i \in 1 .. field("p_filesz") |-> file[field("p_offset") + i]]
  BY <1>1, <2>4, <4>1, BufferThere
<4>3. seg.data = asInFile.data
  BY <2>4, <2>6, <3>1, <4>2, <1>5
<4>4. seg = [vaddr |-> ph.p_vaddr, fileSize |-> ph.p_filesz, memSize |-> ph.p_memsz, data |-> seg.data]
  OBVIOUS
<4>5. asInFile = [vaddr |-> field("p_vaddr"), fileSize |-> field("p_filesz"),
                  memSize |-> field("p_memsz"), data |-> asInFile.data]
  OBVIOUS
<4>. HIDE DEF seg, asInFile
<4>. QED  BY <2>4, <4>3, <4>4, <4>5
<3>2. CASE ~hasData
  BY <2>4, <2>6, <3>2
<3>. QED  BY <3>1, <3>2
<2>. HIDE DEF seg, goodHeader, hasData, asInFile
<2>. QED  BY <1>1, <2>2, <2>5, <2>7, <2>8
<1>6. goodHeader => good
  BY DEF StillGood
<1>. HIDE DEF seg, goodHeader, hasData
<1>. QED  BY <1>3, <1>4, <1>5, <1>6

LEMMA Appended ==
  ASSUME NEW S, NEW s \in Seq(S), NEW e \in S
  PROVE  /\ Append(s, e) \in Seq(S) /\ Len(Append(s, e)) = Len(s) + 1
         /\ \A n \in 1 .. Len(s) : Append(s, e)[n] = s[n]
         /\ Append(s, e)[Len(s) + 1] = e
OBVIOUS

LEMMA ReaderInit == Init => ReaderInv
BY DEF Init, ElfInit, ReaderInv

LEMMA ReaderSame == ReaderInv /\ UNCHANGED elfVars => ReaderInv'
<1>. SUFFICES ASSUME ReaderInv, UNCHANGED elfVars PROVE ReaderInv'
  OBVIOUS
<1>1. UNCHANGED <<file, loading, good, header, next, segments>>
  BY DEF elfVars
<1>2. \A f : Field(f)' = Field(f)
  BY <1>1, SameFile DEF Field
<1>3. (IdentRead' <=> IdentRead) /\ (HeaderRead' <=> HeaderRead)
  BY <1>1, <1>2 DEF IdentRead, HeaderRead, Fits
<1>4. SectionsRead' <=> SectionsRead
  BY <1>1, <1>2, SameFile DEF SectionsRead
<1>5. \A n, seg : SegmentRead(n, seg)' <=> SegmentRead(n, seg)
  BY <1>1, SameFile DEF SegmentRead, Nothing
<1>6. SegmentsRead' <=> SegmentsRead
  BY <1>1, <1>2, <1>5, SameFile DEF SegmentsRead
<1>. QED  BY <1>1, <1>2, <1>3, <1>4, <1>6 DEF ReaderInv

LEMMA ReaderIdent == ReaderInv /\ ReadIdent => ReaderInv'
<1>. SUFFICES ASSUME ReaderInv, ReadIdent PROVE ReaderInv'
  OBVIOUS
<1>1. /\ file' = file /\ good' = good /\ next' = next /\ segments' = segments /\ loading' = "header"
      /\ file \in Seq(Cell) /\ good /\ next = 0 /\ segments = << >> /\ Fits(0, Len(Ident))
  BY DEF ReaderInv, ReadIdent
<1>2. Record(Ident, 0)["class"] = file[1] /\ Record(Ident, 0)["data"] = file[2]
<2>1. StillGood(0, Len(Ident)) /\ Ident \in Seq(FieldNames)
  BY <1>1, HeaderFields DEF StillGood
<2>2. Ident[1] = "class" /\ Ident[2] = "data" /\ DOMAIN Ident = {1, 2}
  BY DEF Ident
<2>3. (CHOOSE m \in DOMAIN Ident : Ident[m] = "class") = 1
  BY <2>2
<2>4. (CHOOSE m \in DOMAIN Ident : Ident[m] = "data") = 2
  BY <2>2
<2>5. "class" \in FieldsOf(Ident) /\ "data" \in FieldsOf(Ident)
  BY HeaderFields
<2>. QED  BY <1>1, <2>1, <2>3, <2>4, <2>5, RecordThere
<1>3. IdentRead'
<2>1. header' = [NoEhdr EXCEPT !.class = Record(Ident, 0).class, !.data = Record(Ident, 0).data]
  BY DEF ReadIdent
<2>2. {"class", "data"} \subseteq DOMAIN NoEhdr
  BY HeaderFields DEF NoEhdr, FieldsOf
<2>3. header'.class = file[1] /\ header'.data = file[2]
  BY <1>2, <2>1, <2>2
<2>. QED  BY <1>1, <2>3 DEF IdentRead, Fits
<1>. QED  BY <1>1, <1>3 DEF ReaderInv

LEMMA ReaderHeader == ReaderInv /\ ReadHeader => ReaderInv'
<1>. SUFFICES ASSUME ReaderInv, ReadHeader PROVE ReaderInv'
  OBVIOUS
<1>1. /\ file' = file /\ next' = next /\ segments' = segments
      /\ file \in Seq(Cell) /\ good /\ next = 0 /\ segments = << >> /\ IdentRead
      /\ good' = Fits(0, Len(Ehdr)) /\ loading' = IF Fits(0, Len(Ehdr)) THEN "sections" ELSE "refused"
      /\ header' = [ConvertedRecord(Ehdr, 0) EXCEPT !.class = header.class, !.data = header.data]
<2>1. loading = "header" /\ StillGood(0, Len(Ehdr)) = Fits(0, Len(Ehdr))
  BY DEF ReaderInv, ReadHeader, StillGood, Fits
<2>. QED  BY <2>1 DEF ReaderInv, ReadHeader
<1>2. CASE ~Fits(0, Len(Ehdr))
  BY <1>1, <1>2 DEF ReaderInv
<1>3. CASE Fits(0, Len(Ehdr))
<2>1. DOMAIN ConvertedRecord(Ehdr, 0) = FieldsOf(Ehdr)
  BY DEF ConvertedRecord, Record, FieldsOf
<2>2. IdentRead'
<3>1. header'.class = header.class /\ header'.data = header.data
  BY <1>1, <2>1, HeaderFields
<3>. QED  BY <1>1, <3>1 DEF IdentRead, Fits
<2>3. \A f \in FieldsOf(Ehdr) : ConvertedRecord(Ehdr, 0)[f] = Field(f) /\ Field(f) \in Nat
  BY <1>1, <1>3, FieldThere, HeaderFields DEF IdentRead, StillGood, Field
<2>4. \A f : Field(f)' = Field(f)
  BY <1>1, SameFile DEF Field
<2>5. HeaderRead'
<3>1. \A f \in FieldsOf(Ehdr) \ FieldsOf(Ident) : header'[f] = Field(f)
  BY <1>1, <2>1, <2>3, HeaderFields
<3>. QED  BY <1>1, <1>3, <2>4, <3>1 DEF HeaderRead, Fits
<2>6. SectionsRead'
<3>1. Field("e_shnum") \in Nat
  BY <2>3, HeaderFields
<3>. QED  BY <1>1, <1>3, <2>4, <3>1 DEF SectionsRead
<2>. QED  BY <1>1, <1>3, <2>2, <2>5, <2>6 DEF ReaderInv
<1>. QED  BY <1>2, <1>3

LEMMA ReaderSection == ReaderInv /\ LoadSection => ReaderInv'
<1>. SUFFICES ASSUME ReaderInv, LoadSection PROVE ReaderInv'
  OBVIOUS
<1>1. /\ file' = file /\ header' = header /\ segments' = segments /\ loading' = "sections"
      /\ loading = "sections" /\ next' = next + 1 /\ next < header.e_shnum
      /\ file \in Seq(Cell) /\ IdentRead /\ HeaderRead /\ SectionsRead
  BY DEF ReaderInv, LoadSection
<1>2. \A f : Field(f)' = Field(f)
  BY <1>1, SameFile DEF Field
<1>3. IdentRead' /\ HeaderRead'
  BY <1>1, <1>2 DEF IdentRead, HeaderRead, Fits
<1>4. next \in Nat /\ next' \in 0 .. Field("e_shnum")
<2>1. header.e_shnum = Field("e_shnum") /\ Field("e_shnum") \in Nat
  BY <1>1, HeaderNumbers
<2>. QED  BY <1>1, <2>1 DEF SectionsRead
<1>5. good' <=> \A s \in 0 .. next' - 1 : SectionIsThere(s)
<2>1. 0 .. next' - 1 = (0 .. next - 1) \cup {next}
  BY <1>1, <1>4
<2>. QED  BY <1>1, <2>1, SectionLoads DEF SectionsRead
<1>6. SectionsRead'
  BY <1>1, <1>2, <1>4, <1>5, SameFile DEF SectionsRead
<1>. QED  BY <1>1, <1>3, <1>6 DEF ReaderInv

LEMMA ReaderSections == ReaderInv /\ SectionsLoaded => ReaderInv'
<1>. SUFFICES ASSUME ReaderInv, SectionsLoaded PROVE ReaderInv'
  OBVIOUS
<1>1. /\ file' = file /\ header' = header /\ segments' = segments /\ good' = good
      /\ loading' = "segments" /\ next' = 0 /\ next = header.e_shnum
      /\ file \in Seq(Cell) /\ IdentRead /\ HeaderRead /\ SectionsRead
  BY DEF ReaderInv, SectionsLoaded
<1>2. \A f : Field(f)' = Field(f)
  BY <1>1, SameFile DEF Field
<1>3. IdentRead' /\ HeaderRead'
  BY <1>1, <1>2 DEF IdentRead, HeaderRead, Fits
<1>4. good <=> WholeBefore(0)
<2>1. next = Field("e_shnum")
<3>1. header.e_shnum = Field("e_shnum")
  BY <1>1, HeaderNumbers
<3>. QED  BY <1>1, <3>1
<2>2. 0 .. 0 - 1 = {}
  OBVIOUS
<2>. QED  BY <1>1, <2>1, <2>2 DEF SectionsRead, WholeBefore, Field
<1>5. SegmentsRead'
<2>1. segments = << >> /\ Field("e_phnum") \in Nat
<3>1. Field("e_phnum") \in Nat
  BY <1>1, HeaderNumbers
<3>. QED  BY <1>1, <3>1 DEF SectionsRead
<2>2. DOMAIN segments = 1 .. 0 /\ segments = [n \in 1 .. 0 |-> segments[n]] /\ 0 .. 0 - 1 = {}
  BY <2>1
<2>. QED  BY <1>1, <1>2, <1>4, <2>1, <2>2, SameFile DEF SegmentsRead
<1>. QED  BY <1>1, <1>3, <1>5 DEF ReaderInv

LEMMA ReaderSegment == ReaderInv /\ LoadSegment => ReaderInv'
<1>. SUFFICES ASSUME ReaderInv, LoadSegment PROVE ReaderInv'
  OBVIOUS
<1>1. /\ file' = file /\ header' = header /\ loading' = "segments"
      /\ loading = "segments" /\ next' = next + 1 /\ next < header.e_phnum
      /\ file \in Seq(Cell) /\ IdentRead /\ HeaderRead /\ SegmentsRead
  BY DEF ReaderInv, LoadSegment
<1>2. \A f : Field(f)' = Field(f)
  BY <1>1, SameFile DEF Field
<1>3. IdentRead' /\ HeaderRead'
  BY <1>1, <1>2 DEF IdentRead, HeaderRead, Fits
<1>4. next \in Nat /\ next' \in 0 .. Field("e_phnum")
  BY <1>1, HeaderNumbers DEF SegmentsRead
<1>5. PICK seg : /\ segments' = Append(segments, seg)
                 /\ good /\ SegmentIsThere(next) => seg = AsInTheFile(next)
                 /\ ~good => seg = Nothing
  BY SegmentLoads
<1>6. WholeBefore(next') <=> WholeBefore(next) /\ SegmentIsThere(next)
<2>1. 0 .. next' - 1 = (0 .. next - 1) \cup {next}
  BY <1>1, <1>4
<2>. QED  BY <2>1 DEF WholeBefore
<1>7. good' <=> WholeBefore(next')
  BY <1>1, <1>6, SegmentLoads DEF SegmentsRead
<1>8. /\ DOMAIN segments' = 1 .. next' /\ segments' = [n \in 1 .. next' |-> segments'[n]]
      /\ \A n \in 1 .. next : segments'[n] = segments[n]
      /\ segments'[next + 1] = seg
<2>. DEFINE S == {segments[n] : n \in 1 .. next} \cup {seg}
<2>1. segments \in Seq(S) /\ Len(segments) = next /\ seg \in S
  BY <1>1, <1>4 DEF SegmentsRead
<2>. HIDE DEF S
<2>2. /\ segments' \in Seq(S) /\ Len(segments') = next'
      /\ \A n \in 1 .. next : segments'[n] = segments[n]
      /\ segments'[next + 1] = seg
  BY <1>1, <1>4, <1>5, <2>1, Appended
<2>. QED  BY <1>1, <1>4, <2>2
<1>9. \A n \in 0 .. next' - 1 : SegmentRead(n, segments'[n + 1])
<2>. SUFFICES ASSUME NEW n \in 0 .. next' - 1 PROVE SegmentRead(n, segments'[n + 1])
  OBVIOUS
<2>1. CASE n = next
<3>1. SegmentRead(next, seg)
  BY <1>1, <1>5 DEF SegmentRead, SegmentsRead
<3>. QED  BY <2>1, <3>1, <1>8
<2>2. CASE n # next
<3>1. n \in 0 .. next - 1 /\ n + 1 \in 1 .. next
  BY <1>1, <1>4, <2>2
<3>2. SegmentRead(n, segments[n + 1])
  BY <1>1, <3>1 DEF SegmentsRead
<3>. QED  BY <1>8, <3>1, <3>2
<2>. QED  BY <2>1, <2>2
<1>10. \A n, s : SegmentRead(n, s)' <=> SegmentRead(n, s)
  BY <1>1, SameFile DEF SegmentRead, Nothing
<1>11. \A n : WholeBefore(n)' <=> WholeBefore(n)
  BY <1>1, SameFile
<1>12. SegmentsRead'
  BY <1>2, <1>4, <1>7, <1>8, <1>9, <1>10, <1>11 DEF SegmentsRead
<1>. QED  BY <1>1, <1>3, <1>12 DEF ReaderInv

LEMMA ReaderLoad == ReaderInv /\ load => ReaderInv'
<1>. SUFFICES ASSUME ReaderInv, load PROVE ReaderInv'
  OBVIOUS
<1>1. CASE Refuse
  BY <1>1 DEF Refuse, ReaderInv
<1>2. CASE SegmentsLoaded
<2>1. UNCHANGED <<file, good, header, next, segments>> /\ loading = "segments" /\ loading' = "loaded"
      /\ next = header.e_phnum /\ file \in Seq(Cell) /\ IdentRead /\ HeaderRead /\ SegmentsRead
  BY <1>2 DEF SegmentsLoaded, ReaderInv
<2>2. \A f : Field(f)' = Field(f)
  BY <2>1, SameFile DEF Field
<2>3. IdentRead' /\ HeaderRead'
  BY <2>1, <2>2 DEF IdentRead, HeaderRead, Fits
<2>4. \A n, seg : SegmentRead(n, seg)' <=> SegmentRead(n, seg)
  BY <2>1, SameFile DEF SegmentRead, Nothing
<2>5. SegmentsRead'
  BY <2>1, <2>2, <2>4, SameFile DEF SegmentsRead
<2>6. next = Field("e_phnum")
  BY <2>1, HeaderNumbers
<2>. QED  BY <2>1, <2>2, <2>3, <2>5, <2>6 DEF ReaderInv
<1>. QED
  BY <1>1, <1>2, ReaderIdent, ReaderHeader, ReaderSection, ReaderSections, ReaderSegment DEF load

LEMMA ReaderNext == ReaderInv /\ [Next]_vars => ReaderInv'
<1>1. [Next]_vars => load \/ UNCHANGED elfVars
  BY DEF Next, vars, ParseCommandLine, ReadConfigLine, ConfigAborts, Configured, LoadStep, NotLoaded,
         ReadUserProg, Run, SetupAborts
<1>. QED  BY <1>1, ReaderLoad, ReaderSame

(* Whatever file it is given and wherever the file ends, what load returns  *)
(* as loaded is what the headers describe up to the first gap, and empty    *)
(* segments after it.                                                       *)
THEOREM SegmentsCorrect == Spec => []SegmentsUpToTheFirstGap
<1>1. ReaderInv => SegmentsUpToTheFirstGap
<2>. SUFFICES ASSUME ReaderInv, loading = "loaded" PROVE SegmentsUpToTheFirstGap
  BY DEF SegmentsUpToTheFirstGap
<2>1. SegmentsRead /\ next = Field("e_phnum") /\ file \in Seq(Cell) /\ IdentRead /\ HeaderRead
  BY DEF ReaderInv
<2>2. next \in Nat
  BY <2>1, HeaderNumbers
<2>3. Len(segments) = next
  BY <2>1, <2>2 DEF SegmentsRead
<2>. QED  BY <2>1, <2>3 DEF SegmentsRead, SegmentRead, SegmentsUpToTheFirstGap, Field
<1>. QED  BY <1>1, ReaderInit, ReaderNext, PTL DEF Spec

=============================================================================
