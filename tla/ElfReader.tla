------------------------------- MODULE ElfReader -------------------------------
(***************************************************************************)
(* ELFIO::elfio::load as ReadUserProg uses it: the file's header, section  *)
(* headers with their data, segment headers with their data, each read by  *)
(* a seek and a read of one stream. A read that meets the end of the file  *)
(* fails, and the stream fails from then on: later seeks and reads do      *)
(* nothing, and nobody looks at the stream's state again.                  *)
(*                                                                         *)
(* A file is a sequence of cells. A header is a run of cells, one for each *)
(* of its fields that the reader or ReadUserProg looks at, in the order of *)
(* the file, so a file can end inside a header but not inside a field;     *)
(* data are cells too. ELFCLASS32 and ELFCLASS64 have these fields in the  *)
(* same order.                                                             *)
(***************************************************************************)
EXTENDS Naturals, Sequences

CONSTANTS
  Uninit,    \* what is in memory nobody wrote
  NoData,    \* the null pointer of a segment without data
  BASE       \* a field of a header is two digits of this base

ELFCLASS32  == 1
ELFCLASS64  == 2
ELFDATA2LSB == 1
PT_NULL     == 0
SHT_NULL    == 0
SHT_NOBITS  == 8

Cell == 0 .. BASE * BASE - 1

ASSUME CellAssumption == BASE \in Nat \ {0, 1} /\ Uninit \notin Cell

\* The first two fields are e_ident's: the class, or 0 if the magic number is
\* not there, and the encoding.
Ident  == <<"class", "data">>
Ehdr   == Ident \o <<"e_entry", "e_phoff", "e_shoff", "e_phentsize", "e_phnum", "e_shentsize", "e_shnum">>
Phdr   == <<"p_type", "p_offset", "p_vaddr", "p_filesz", "p_memsz">>
Shdr   == <<"sh_type", "sh_offset", "sh_size">>
NoEhdr == [f \in {Ehdr[n] : n \in DOMAIN Ehdr} |-> 0]

VARIABLES
  file,
  loading,    \* what load is at: "ident", "header", "sections", "segments"; or
              \* "loaded" or "refused", as it returned true or false
  good,       \* the stream has not failed
  header,
  next,       \* index of the section or segment to load
  segments

elfVars == <<file, loading, good, header, next, segments>>

-----------------------------------------------------------------------------
(* endianess_convertor: the fields of e_ident are bytes, which have no     *)
(* order; another encoding than the host's, which is ELFDATA2LSB, has the  *)
(* bytes of every other field the other way round.                         *)

Swapped(v) == (v % BASE) * BASE + v \div BASE

Converted(v) == IF header.data = ELFDATA2LSB THEN v ELSE Swapped(v)

\* The cells a read of n cells at position pos finds, and whether that is all of them.
Fits(pos, n)  == pos + n <= Len(file)
Found(pos, n) == IF ~good THEN << >>
                 ELSE SubSeq(file, pos + 1, IF Fits(pos, n) THEN pos + n ELSE Len(file))

\* A bug: every seek starts with a stream that has not failed.
GoodAgain(pos, n) == Fits(pos, n)

\* The state of the stream after that read.
StillGood(pos, n) == good /\ Fits(pos, n)

\* A header, cleared before it is read into. A field that was not read is 0.
Record(fields, pos) ==
  LET found == Found(pos, Len(fields))
      at(f) == CHOOSE n \in DOMAIN fields : fields[n] = f
  IN  [f \in {fields[n] : n \in DOMAIN fields} |->
         IF at(f) \in DOMAIN found THEN found[at(f)] ELSE 0]

ConvertedRecord(fields, pos) ==
  LET raw == Record(fields, pos) IN [f \in DOMAIN raw |-> Converted(raw[f])]

\* A buffer of n cells after a read into it.
Buffer(pos, n) ==
  LET found == Found(pos, n)
  IN  [i \in 1 .. n |-> IF i \in DOMAIN found THEN found[i] ELSE Uninit]

-----------------------------------------------------------------------------
ElfInit ==
  /\ file \in Seq(Cell)
  /\ loading = "ident" /\ good = TRUE /\ header = NoEhdr /\ next = 0 /\ segments = << >>

\* Not an ELF file of a known class.
Refuse ==
  /\ loading = "ident"
  /\ ~(Fits(0, Len(Ident)) /\ Record(Ident, 0).class \in {ELFCLASS32, ELFCLASS64})
  /\ loading' = "refused"
  /\ UNCHANGED <<file, good, header, next, segments>>

\* The convertor knows the encoding before the header is read.
ReadIdent ==
  /\ loading = "ident"
  /\ Fits(0, Len(Ident)) /\ Record(Ident, 0).class \in {ELFCLASS32, ELFCLASS64}
  /\ header' = [NoEhdr EXCEPT !.class = Record(Ident, 0).class, !.data = Record(Ident, 0).data]
  /\ loading' = "header"
  /\ UNCHANGED <<file, good, next, segments>>

ReadHeader ==
  /\ loading = "header"
  /\ header' = [ConvertedRecord(Ehdr, 0) EXCEPT !.class = header.class, !.data = header.data]
  /\ good' = StillGood(0, Len(Ehdr))
  /\ loading' = IF Fits(0, Len(Ehdr)) THEN "sections" ELSE "refused"
  /\ UNCHANGED <<file, next, segments>>

\* The sections are only read for the stream: ReadUserProg uses none of them.
\* One as large as the file has no data.
LoadSection ==
  /\ loading = "sections" /\ next < header.e_shnum
  /\ LET pos == header.e_shoff + next * header.e_shentsize
         sh  == ConvertedRecord(Shdr, pos)
         hasData == /\ sh.sh_type \notin {SHT_NULL, SHT_NOBITS}
                    /\ sh.sh_size \in 1 .. Len(file) - 1
     IN  good' = /\ StillGood(pos, Len(Shdr))
                 /\ hasData => StillGood(sh.sh_offset, sh.sh_size)
  /\ next' = next + 1
  /\ UNCHANGED <<file, loading, header, segments>>

SectionsLoaded ==
  /\ loading = "sections" /\ next = header.e_shnum
  /\ loading' = "segments" /\ next' = 0
  /\ UNCHANGED <<file, good, header, segments>>

\* One larger than the file has no data. The buffer of one whose header was cut
\* off stays as it was allocated.
LoadSegment ==
  /\ loading = "segments" /\ next < header.e_phnum
  /\ LET pos == header.e_phoff + next * header.e_phentsize
         ph  == ConvertedRecord(Phdr, pos)
         goodHeader == StillGood(pos, Len(Phdr))
         hasData    == ph.p_type # PT_NULL /\ ph.p_filesz \in 1 .. Len(file)
     IN  /\ good' = (goodHeader /\ (hasData => StillGood(ph.p_offset, ph.p_filesz)))
         /\ segments' = Append(segments,
              [vaddr |-> ph.p_vaddr, fileSize |-> ph.p_filesz, memSize |-> ph.p_memsz,
               data |-> IF ~hasData THEN NoData
                        ELSE IF goodHeader THEN Buffer(ph.p_offset, ph.p_filesz)
                        ELSE [i \in 1 .. ph.p_filesz |-> Uninit]])
  /\ next' = next + 1
  /\ UNCHANGED <<file, loading, header>>

\* load returns true, whatever the state of the stream.
SegmentsLoaded ==
  /\ loading = "segments" /\ next = header.e_phnum
  /\ loading' = "loaded"
  /\ UNCHANGED <<file, good, header, next, segments>>

load == \/ Refuse \/ ReadIdent \/ ReadHeader
        \/ LoadSection \/ SectionsLoaded \/ LoadSegment \/ SegmentsLoaded

-----------------------------------------------------------------------------
(* The file read at leisure: what its headers say and which of its parts   *)
(* are there.                                                              *)

Value(pos)     == IF file[2] = ELFDATA2LSB THEN file[pos + 1] ELSE Swapped(file[pos + 1])
FileField(pos, fields, f) ==
  Value(pos + (CHOOSE n \in DOMAIN fields : fields[n] = f) - 1)

SectionAt(n) == FileField(0, Ehdr, "e_shoff") + n * FileField(0, Ehdr, "e_shentsize")
SegmentAt(n) == FileField(0, Ehdr, "e_phoff") + n * FileField(0, Ehdr, "e_phentsize")

SectionIsThere(n) ==
  /\ Fits(SectionAt(n), Len(Shdr))
  /\ LET field(f) == FileField(SectionAt(n), Shdr, f)
     IN  \/ field("sh_type") \in {SHT_NULL, SHT_NOBITS}
         \/ field("sh_size") >= Len(file)
         \/ field("sh_size") = 0
         \/ Fits(field("sh_offset"), field("sh_size"))

SegmentIsThere(n) ==
  /\ Fits(SegmentAt(n), Len(Phdr))
  /\ LET field(f) == FileField(SegmentAt(n), Phdr, f)
     IN  \/ field("p_type") = PT_NULL
         \/ field("p_filesz") \notin 1 .. Len(file)
         \/ Fits(field("p_offset"), field("p_filesz"))

\* Everything load reads before segment n is there.
WholeBefore(n) == /\ \A s \in 0 .. FileField(0, Ehdr, "e_shnum") - 1 : SectionIsThere(s)
                  /\ \A p \in 0 .. n-1 : SegmentIsThere(p)

AsInTheFile(n) ==
  LET field(f) == FileField(SegmentAt(n), Phdr, f)
      size     == field("p_filesz")
  IN  [vaddr |-> field("p_vaddr"), fileSize |-> size, memSize |-> field("p_memsz"),
       data |-> IF field("p_type") = PT_NULL \/ size \notin 1 .. Len(file) THEN NoData
                ELSE [i \in 1 .. size |-> file[field("p_offset") + i]]]

Nothing == [vaddr |-> 0, fileSize |-> 0, memSize |-> 0, data |-> NoData]

(* What load makes of a file it accepts, of either encoding: the segments  *)
(* its headers describe, exactly, up to the first part of the file that is *)
(* not there; and from there on nothing, with no sign of it in the result. *)
(* A file cut anywhere in its sections, which come last but are read       *)
(* first, yields no segment at all (elfio.hpp, elfio_section.hpp,          *)
(* elfio_segment.hpp, elfio_utils.hpp).                                    *)
SegmentsUpToTheFirstGap ==
  loading = "loaded" =>
    /\ Len(segments) = FileField(0, Ehdr, "e_phnum")
    /\ \A n \in 0 .. Len(segments) - 1 :
         IF WholeBefore(n)
           THEN SegmentIsThere(n) => segments[n + 1] = AsInTheFile(n)
           ELSE segments[n + 1] = Nothing

=============================================================================
