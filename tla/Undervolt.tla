----------------------------- MODULE Undervolt ------------------------------
(***************************************************************************)
(* The layer between the GUI and intel-undervolt (src/undervolt.c): what    *)
(* it makes of intel-undervolt.conf and of the output of "intel-undervolt  *)
(* read", and the copy of the file it writes.  All of it is pure: module   *)
(* UndervoltPanel puts it to work.                                         *)
(*                                                                         *)
(* Offsets are in thousandths of a mV, so that rounding to the two         *)
(* decimals of the file shows.  A file is a sequence of lines.  Of a line  *)
(* the model keeps what the code looks at: the domain it starts with, the  *)
(* number it ends with, and whether a newline follows; the rest is "text", *)
(* which tells whose line it is.                                           *)
(***************************************************************************)
EXTENDS Integers, Sequences, FiniteSets

CONSTANTS
  DomainCount,  \* UNDERVOLT_DOMAIN_COUNT
  NoDomain,     \* a line that is not a domain's: comments, other settings
  Garbage,      \* a line, or the backend, gives no number for the domain
  Missing,      \* no such file (ENOENT)
  Unreadable    \* the file is there and cannot be opened

ASSUME DomainCountAssumption == DomainCount \in Nat
ASSUME NoNumbersAssumption == NoDomain \notin Int /\ Garbage \notin Int

\* UNDERVOLT_MIN_MV and UNDERVOLT_MAX_MV.
MinMv == -150000
MaxMv == 0

Domains == 0..DomainCount - 1

Line == [domain : Domains \cup {NoDomain}, offset : Int \cup {Garbage},
         text : {"mine", "fused", "header", "own"}, ended : BOOLEAN]

\* Only the last line of a file can lack its newline.
Text == {lines \in Seq(Line) :
           \A i \in DOMAIN lines : i < Len(lines) => lines[i].ended}

ASSUME FilesAssumption == Missing \notin Text /\ Unreadable \notin Text

----------------------------------------------------------------------------
\* undervolt_defaults.
Zero == [d \in Domains |-> 0]

\* undervolt_validate.  No offset of the program is NaN or infinite: both
\* parsers turn them down.
Valid(offsets) == \A d \in Domains : offsets[d] \in MinMv..MaxMv

----------------------------------------------------------------------------
\* undervolt_load_config: the last line of a domain counts, a domain without
\* a line is at 0, and a domain's line without a number fails the whole load.
LinesOf(lines, d) == {i \in DOMAIN lines : lines[i].domain = d}

LoadSucceeds(contents) ==
  \/ contents = Missing
  \/ /\ contents # Unreadable
     /\ \A i \in DOMAIN contents :
          contents[i].domain # NoDomain => contents[i].offset # Garbage

LastOffset(lines, d) ==
  lines[CHOOSE i \in LinesOf(lines, d) : \A j \in LinesOf(lines, d) : j <= i].offset

Loaded(contents) ==
  [d \in Domains |->
     IF contents = Missing THEN 0
     ELSE IF LinesOf(contents, d) = {} THEN 0 ELSE LastOffset(contents, d)]

----------------------------------------------------------------------------
\* undervolt_parse_read_output_masked.  "output" is a function from the
\* domains the output names to the number that follows, or Garbage.
Found(output) == {d \in DOMAIN output : output[d] # Garbage}

\* Mutant: the offsets are not initialised before they are parsed.
ParsedUninitialised(output, before) ==
  [d \in Domains |-> IF d \in Found(output) THEN output[d] ELSE MinMv]

Parsed(output, before) ==
  [d \in Domains |-> IF d \in Found(output) THEN output[d] ELSE before[d]]

----------------------------------------------------------------------------
\* undervolt_write_config_copy_masked.

\* numeric_ascii_format_double with two decimals.
Printed(offset) == ((offset + 5) \div 10) * 10

\* Mutant: the line is written without its newline.
OwnLineUnended(d, offset) ==
  [domain |-> d, offset |-> Printed(offset), text |-> "own", ended |-> FALSE]

\* write_domain_line.
OwnLine(d, offset) ==
  [domain |-> d, offset |-> Printed(offset), text |-> "own", ended |-> TRUE]

\* What a copy of a missing file begins with.
Header == <<[domain |-> NoDomain, offset |-> Garbage, text |-> "header", ended |-> TRUE]>>

\* Two lines with no newline between them: one line, which starts like the
\* first and ends like the second.
Fused(first, second) ==
  [first EXCEPT !.offset = IF first.domain = NoDomain THEN @ ELSE second.offset,
                !.text = "fused", !.ended = second.ended]

\* Writing one piece of text after another.
Followed(first, second) ==
  IF second # <<>> /\ first # <<>> /\ ~first[Len(first)].ended
    THEN [first EXCEPT ![Len(first)] = Fused(@, second[1])] \o Tail(second)
    ELSE first \o second

\* The indices of a set of domains, ascending.
Ascending(set) ==
  CHOOSE s \in [1..Cardinality(set) -> set] :
    \A i, j \in 1..Cardinality(set) : i < j => s[i] < s[j]

Source(contents) == IF contents = Missing THEN Header ELSE contents

\* Mutant: a domain that has been written is not written again.
CopiedFirst(lines, offsets, selected) ==
  [i \in 1..Len(lines) |->
     IF /\ lines[i].domain \in selected
        /\ \A j \in LinesOf(lines, lines[i].domain) : i <= j
       THEN OwnLine(lines[i].domain, offsets[lines[i].domain])
       ELSE lines[i]]

\* The copying loop ...
Copied(lines, offsets, selected) ==
  [i \in 1..Len(lines) |->
     IF lines[i].domain \in selected
       THEN OwnLine(lines[i].domain, offsets[lines[i].domain])
       ELSE lines[i]]

\* ... and the loop over what has not been written.
Unwritten(lines, selected) == {d \in selected : LinesOf(lines, d) = {}}

Appended(lines, offsets, selected) ==
  LET rest == Unwritten(lines, selected)
  IN  [i \in 1..Cardinality(rest) |->
         OwnLine(Ascending(rest)[i], offsets[Ascending(rest)[i]])]

\* Mutant: a domain's line that is already there is left alone.
RewrittenOnce(contents, offsets, selected) ==
  Followed(Source(contents), Appended(Source(contents), offsets, selected))

\* Mutant: the mask is applied to the appended lines only.
RewrittenUnmasked(contents, offsets, selected) ==
  Followed(Copied(Source(contents), offsets, Domains),
           Appended(Source(contents), offsets, selected))

Rewritten(contents, offsets, selected) ==
  Followed(Copied(Source(contents), offsets, selected),
           Appended(Source(contents), offsets, selected))
============================================================================
