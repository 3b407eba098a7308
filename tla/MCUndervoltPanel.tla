-------------------------- MODULE MCUndervoltPanel --------------------------
(***************************************************************************)
(* Small instances of UndervoltPanel: two domains, each of which a read of *)
(* the hardware may leave out, and a handful of files.                     *)
(***************************************************************************)
EXTENDS UndervoltPanel

Mine(domain, offset) ==
  [domain |-> domain, offset |-> offset, text |-> "mine", ended |-> TRUE]

Unended(line) == [line EXCEPT !.ended = FALSE]

Other == Mine(NoDomain, Garbage)

\* Positive and too low offsets, a domain twice, a domain without a line, a
\* line without a number, no newline at the end, a file that cannot be read.
\* No file at all is what an install that stops half way leaves.
MCHandMade ==
  { Unreadable,
    <<Mine(0, -20006), Other, Mine(0, 10000), Unended(Mine(1, -150004))>>,
    <<Mine(0, Garbage), Unended(Other)>> }

MCForms == { [d \in Domains |-> IF d = 0 THEN -70004 ELSE -150000] }

\* The only line is a hidden domain's, and it has no newline.
UnendedFiles == { <<Unended(Mine(1, -7000))>> }
============================================================================
