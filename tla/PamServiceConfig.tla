------------------------- MODULE PamServiceConfig -------------------------
(***************************************************************************)
(* The contents of a file of /etc/pam.d, as a sequence of lines, and the    *)
(* edits PamServiceConfig.cpp makes to it.  A line is what the edits tell   *)
(* apart: a line that names pam_facial.so is its control flag, every other  *)
(* line, comments included, is one that they leave alone.                   *)
(***************************************************************************)
EXTENDS Naturals, Sequences

FacialLines == {"sufficient", "required"}     \* "required": any other control flag
OtherLines  == {"unix", "deny"}
Lines       == FacialLines \cup OtherLines

lineReferencesPamFacial(line) == line \in FacialLines

\* The first line that names the module decides; later ones are not looked at.
detectPamFacialState(content) ==
    IF \A i \in DOMAIN content : ~lineReferencesPamFacial(content[i])
      THEN "Absent"
      ELSE LET first == CHOOSE i \in DOMAIN content :
                          /\ lineReferencesPamFacial(content[i])
                          /\ \A j \in 1..(i - 1) : ~lineReferencesPamFacial(content[j])
           IN  IF content[first] = "sufficient" THEN "EnabledSafe" ELSE "EnabledUnsafe"

\* What libpam makes of the lines for somebody who has these factors: a sufficient line
\* that passes ends it unless a required one failed before, and one that fails is ignored.
Accepts(content, factors) ==
    LET Passes(i)   == IF content[i] \in FacialLines THEN "face" \in factors
                       ELSE content[i] = "unix" /\ "password" \in factors
        Ignored(i)  == content[i] = "sufficient" /\ ~Passes(i)
        Unfailed(n) == \A i \in 1..n : Passes(i) \/ Ignored(i)
    IN  \/ \E i \in 1..Len(content) :
             content[i] = "sufficient" /\ Passes(i) /\ Unfailed(i - 1)
        \/ Unfailed(Len(content)) /\ \E i \in 1..Len(content) : Passes(i)

\* Mutant of enableInContent: the line goes where an administrator would add one.
AppendFace(content) ==
    IF detectPamFacialState(content) = "Absent"
      THEN Append(content, "sufficient")
      ELSE content

\* Where the program throws, there is nothing to write: callers test the state.
enableInContent(content) ==
    IF detectPamFacialState(content) = "Absent"
      THEN <<"sufficient">> \o content
      ELSE content

NotFacial(line) == ~lineReferencesPamFacial(line)

\* The lines that do not name the module, in their order: kept[i] is what is left of the
\* first i.
disableInContent(content) ==
    LET kept[i \in 0..Len(content)] ==
            IF i = 0 THEN <<>>
            ELSE IF NotFacial(content[i]) THEN Append(kept[i - 1], content[i])
            ELSE kept[i - 1]
    IN  kept[Len(content)]
=============================================================================
