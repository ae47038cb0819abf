------------------------------- MODULE MCStartup -------------------------------
(***************************************************************************)
(* Every way to cut some small files short, configuration files of up to   *)
(* four lines, and the command lines that matter. Blocks of two bytes.     *)
(***************************************************************************)
EXTENDS Startup

\* Fields as the encoding has them.
Put(data, v) == IF data = ELFDATA2LSB THEN v ELSE (v % BASE) * BASE + v \div BASE
Fields(data, values) == [n \in DOMAIN values |-> Put(data, values[n])]

\* Type, offset, cells in the file and in memory of a segment; type, offset and
\* size of a section.
Seg(type, offset, size, memSize) == <<type, offset, offset, size, memSize>>
Sec(type, offset, size)          == <<type, offset, size>>

EH == Len(Ehdr)
PH == Len(Phdr)
SH == Len(Shdr)

\* As linkers lay files out: segment headers, four cells of data, section headers.
Image(class, data, segs, secs) ==
  LET phoff == EH
      body  == phoff + PH * Len(segs)
      shoff == body + 4
      all(headers) == IF Len(headers) = 1 THEN Fields(data, headers[1])
                      ELSE Fields(data, headers[1]) \o Fields(data, headers[2])
  IN  <<class, data>> \o Fields(data, <<12, phoff, shoff, PH, Len(segs), SH, Len(secs)>>)
        \o all(segs) \o <<5, 6, 7, 8>> \o all(secs)

\* Where the data of a file with n segments is.
Body(n) == EH + PH * n

SegLists == {<<Seg(1, Body(1), 3, 4)>>, <<Seg(4, Body(1) + 1, 0, 0)>>, <<Seg(1, 2, 50, 50)>>}
  \cup {<<a, b>> : a \in {Seg(1, Body(2), 2, 2), Seg(0, 0, 3, 3), Seg(1, Body(2) + 2, 11, 11)},
                   b \in {Seg(1, Body(2) + 2, 2, 3), Seg(6, 9, 10, 10)}}
SecLists == {<<Sec(1, 2, 3)>>} \cup {<<a, b>> : a \in {Sec(0, 60, 3), Sec(8, 60, 3)},
                                                b \in {Sec(1, 9, 4), Sec(2, 40, 9), Sec(1, 9, 60)}}

Images == {Image(class, data, segs, secs) :
             class \in {0, 1, 2}, data \in {1, 2}, segs \in SegLists, secs \in SecLists}

\* Without section headers nothing comes after the data.
Stripped(image) == [image EXCEPT ![Len(Ehdr)] = 0]

AllFiles == UNION {{SubSeq(f, 1, n) : n \in 0 .. Len(f)} : f \in Images \cup {Stripped(f) : f \in Images}}

GoodFile == Image(2, 1, <<Seg(1, Body(1), 3, 4)>>, <<Sec(1, 2, 3)>>)

-----------------------------------------------------------------------------
L(word, numbers) == [word |-> word, numbers |-> numbers]

Geometries == {<<8, 2, 0, 1>>, <<6, 2, 0, 0>>, <<6, 1, 1, 0>>, <<0, 1, 0, 0>>, <<4, 0, 0, 0>>,
               <<4, 4, 1, 1>>, <<8, -2, 0, 0>>, <<-4, 1, 0, 0>>, <<8, 33, 0, 0>>, <<8, 32, 0, 0>>,
               <<8, 1>>, << >>}

SomeLines == {L(word, g) : word \in DOMAIN ConfigOf, g \in Geometries}
  \cup {L(COMMENT, << >>), L("", << >>), L("nop", <<3>>), L("add", << >>), L("add", <<2>>),
        L("mul", <<3>>)}
  \cup {L(word, numbers) : word \in DOMAIN LatencyOf, numbers \in {<<4, 2>>, <<9>>}}

\* What an uninitialised number may be.
Garbage == {0, 1, -1}

Few == {L("L1_Config", <<8, 2, 0, 1>>), L("LLC_Config", <<6, 1, 1, 0>>), L("L2_Config", <<8, 1>>),
        L(COMMENT, << >>), L("LLC_Latency", <<4, 2>>), L("add", <<2>>), L("Mem_Latency", <<9>>)}

AllConfigFiles == {<<>>} \cup {<<a>> : a \in SomeLines} \cup {<<a, b>> : a, b \in SomeLines}
                    \cup {<<a, b, c>> : a, b, c \in Few} \cup {<<a, b, c, d>> : a, b, c, d \in Few}

-----------------------------------------------------------------------------
Plain == [valid |-> TRUE, help |-> FALSE, file |-> "add", config |-> "", predScheme |-> "SA"]
Arguments == {Plain} \cup {[Plain EXCEPT !.predScheme = s] : s \in {"", "AT", "ANT", "BI", "Bi"}}
  \cup {[Plain EXCEPT !.valid = FALSE], [Plain EXCEPT !.help = TRUE], [Plain EXCEPT !.file = ""],
        [Plain EXCEPT !.config = "missing.cfg"]}

\* One of the three varies, the others are plain.
PlainSetup == [options |-> Plain, lines |-> << >>, file |-> GoodFile]
AllSetups  == {[PlainSetup EXCEPT !.options = o] : o \in Arguments}
                \cup {[PlainSetup EXCEPT !.lines = ls] : ls \in AllConfigFiles}
                \cup {[PlainSetup EXCEPT !.file = f] : f \in AllFiles}
=============================================================================
