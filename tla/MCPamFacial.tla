---------------------------- MODULE MCPamFacial ----------------------------
(***************************************************************************)
(* Instances of PamFacial for TLC: the sessions a call is made in.          *)
(***************************************************************************)
EXTENDS PamFacial

Session(display, conv, tty, autoReap, ttouIgnored) ==
    [user |-> TRUE, display |-> display, conv |-> conv, tty |-> tty,
     autoReap |-> autoReap, ttouIgnored |-> ttouIgnored]

NoUser == [Session(TRUE, TRUE, "none", FALSE, FALSE) EXCEPT !.user = FALSE]

\* A console or desktop host in the foreground, or with no terminal at all.
ForegroundSessions ==
    {Session(d, c, t, a, FALSE) :
        d \in BOOLEAN, c \in BOOLEAN, t \in {"none", "host"}, a \in BOOLEAN}

\* A background job of the shell, with SIGTTOU ignored and not.
BackgroundSessions ==
    {Session(d, TRUE, "other", FALSE, i) : d \in BOOLEAN, i \in BOOLEAN}

AllSessions == {NoUser} \cup ForegroundSessions \cup BackgroundSessions
=============================================================================
