----------------------------- MODULE ConfigFile -----------------------------
(***************************************************************************)
(* config.conf: the keys that the control application and a login look at,  *)
(* in the order serialize writes them.  A file is a function from the keys  *)
(* of its lines to the values that load takes, those of the last line with  *)
(* a key, and load fills in the rest.  (findConfigValue, at a login, takes   *)
(* the first such line: the two differ only behind another writer's text.)  *)
(* The gain is in hundredths.                                                *)
(***************************************************************************)
EXTENDS Naturals, Sequences

ConfigKeys == <<"path", "format", "mode", "size", "gain", "confirm", "greeter">>

Empty == [k \in {} |-> ""]

defaults ==
    [path |-> "", format |-> "unknown", mode |-> "ir", size |-> "640x480",
     gain |-> 100, confirm |-> "gui", greeter |-> "text"]

\* Mutant of load: a mode that is not there, or not known, is no question.
SilentLoad(file) ==
    [k \in DOMAIN defaults |->
        IF k \in DOMAIN file THEN file[k]
        ELSE IF k \in {"confirm", "greeter"} THEN "none" ELSE defaults[k]]

load(file) == [k \in DOMAIN defaults |-> IF k \in DOMAIN file THEN file[k] ELSE defaults[k]]

applyConfigOverrides(config, set) ==
    [k \in DOMAIN config |-> IF k \in DOMAIN set THEN set[k] ELSE config[k]]

\* The first n lines of what serialize gives.
FirstLines(config, n) == [k \in {ConfigKeys[i] : i \in 1..n} |-> config[k]]

serialize(config) == FirstLines(config, Len(ConfigKeys))

\* What load can get from the end of a longer text: the lines from some line on, or a part
\* of the last one, for behind "greeter_" it reads confirmation_mode.  (A part of any other
\* line has no key that load knows.)  How much longer the text is, is left open.
Tails(file) ==
    {[k \in DOMAIN file \cap {ConfigKeys[i] : i \in first..Len(ConfigKeys)} |-> file[k]] :
        first \in 2..(Len(ConfigKeys) + 1)}
    \cup {[confirm |-> file[k]] : k \in DOMAIN file \cap {"greeter"}}

\* What a file may hold once text has been written over its beginning: where another
\* process has written a longer one meanwhile, its end still follows, and counts.
WrittenOver(file, text) ==
    {[k \in DOMAIN text \cup DOMAIN tail |-> IF k \in DOMAIN tail THEN tail[k] ELSE text[k]] :
        tail \in Tails(file)}
=============================================================================
