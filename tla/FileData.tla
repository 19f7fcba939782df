------------------------------ MODULE FileData ------------------------------
(***************************************************************************)
(* What a file holds after a write loop has put a chunk at its own offset.  *)
(* writeFileAtomic and writeFileWithMode keep the offset of their            *)
(* descriptor: whoever truncated the file meanwhile, they go on where they   *)
(* were, and what lies in between is a hole.                                *)
(***************************************************************************)
EXTENDS Naturals, Sequences

WriteAt(old, off, chunk, hole) ==
    LET end == off + Len(chunk) IN
    [n \in 1..(IF Len(old) > end THEN Len(old) ELSE end) |->
        IF n \in (off + 1)..end THEN chunk[n - off]
        ELSE IF n \in DOMAIN old THEN old[n] ELSE hole]
=============================================================================
