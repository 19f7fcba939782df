-------------------------- MODULE EmbeddingFormat --------------------------
(***************************************************************************)
(* The layout of embedding.bin.  An enrolment is who captured it, the model  *)
(* and the camera mode it is tagged with, and its number of templates.  Its  *)
(* file is a header, which carries the tags and that number, and then the    *)
(* templates; a part remembers the enrolment it belongs to.                  *)
(***************************************************************************)
EXTENDS Naturals, Sequences

CONSTANT None

\* What a hole in a file reads as: no magic bytes, and a template of no length.
Garbage == [by |-> None, model |-> None, mode |-> None, count |-> 0]
Hole    == [of |-> Garbage, n |-> 0]

IsHeader(part) == part.n = 0 /\ part # Hole

serializeEmbeddings(e) == [k \in 1..(e.count + 1) |-> [of |-> e, n |-> k - 1]]

\* require: the header's record count asks for more than the file has.
Truncated(file) == Len(file) < file[1].of.count + 1

\* Mutant of deserializeEmbeddings: records are read until the file ends.
UntilTheEnd(file) ==
    IF file = <<>> \/ ~IsHeader(file[1]) THEN None ELSE SubSeq(file, 2, Len(file))

\* The templates of a file, or None where the program throws.  What follows the
\* last record is not looked at.
deserializeEmbeddings(file) ==
    IF file = <<>> \/ ~IsHeader(file[1]) \/ Truncated(file)
      THEN None
      ELSE SubSeq(file, 2, file[1].of.count + 1)
=============================================================================
