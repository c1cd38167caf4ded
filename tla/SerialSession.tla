--------------------------- MODULE SerialSession ---------------------------
(***************************************************************************)
(* What the provider's resource handlers rely on when they share one SQL   *)
(* client: sessions are exclusive, and each starts without a connection,   *)
(* on the base database, or on a home database that never changes once it  *)
(* has been chosen.  Inside its session an owner selects what it likes.    *)
(***************************************************************************)
CONSTANTS
  Clients,  \* who may own a session
  Names,    \* the databases a session can select
  Base,     \* the database that is always there
  Nobody    \* no owner, no connection, no home yet

VARIABLES
  owner,     \* the client in session
  selected,  \* the database the connection has selected
  home       \* the default database

vars == <<owner, selected, home>>

Init == owner = Nobody /\ selected = Nobody /\ home = Nobody

\* A client enters a session as the previous one left it.
Enter(c) ==
  /\ owner = Nobody
  /\ owner' = c
  /\ UNCHANGED <<selected, home>>

\* The owner selects a database, or loses its connection; the first session
\* also chooses the home.
Select ==
  /\ owner # Nobody
  /\ selected' \in Names \cup {Nobody}
  /\ home' \in IF home = Nobody THEN Names \cup {Nobody} ELSE {home}
  /\ UNCHANGED owner

\* The owner leaves nothing of its own selection behind.
Leave ==
  /\ owner # Nobody
  /\ selected \in {Nobody, Base, home}
  /\ owner' = Nobody
  /\ UNCHANGED <<selected, home>>

\* The idle connection is lost.
Break ==
  /\ owner = Nobody
  /\ selected' = Nobody
  /\ UNCHANGED <<owner, home>>

Next == (\E c \in Clients : Enter(c)) \/ Select \/ Leave \/ Break

Spec == Init /\ [][Next]_vars
=============================================================================
