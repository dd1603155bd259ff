------------------------------- MODULE PostgreSQL -------------------------------
(***************************************************************************)
(* A PostgreSQL connection object, src/postgresql.cpp: its settings, the   *)
(* connection string made of them and kept until one of them is set again, *)
(* and the session.  Settings are opaque values; the connection string is  *)
(* what it was made of.                                                    *)
(***************************************************************************)
Fields == {"user", "password", "address", "databaseName", "port", "application"}

(* Empty is a setting not made, NoString a string not yet made.            *)
Empty == <<>>
NoString == <<>>
DefaultPort == <<"default", "port">>
DefaultApplication == <<"default", "application">>

PostgreSQL ==
    [settings |-> [f \in Fields |-> IF f = "port" THEN DefaultPort
                                    ELSE IF f = "application" THEN DefaultApplication
                                    ELSE Empty],
     connectionString |-> NoString, session |-> NoString]

(* setUser and its like, for a value they do not refuse.                   *)
Set(pg, f, v) ==
    [pg EXCEPT !.settings[f] = v, !.connectionString = NoString]

(* What getConnectionString needs, unless it has a string already.         *)
HasRequired(pg) ==
    \A f \in {"user", "password", "databaseName"} : pg.settings[f] # Empty

CanMakeString(pg) == pg.connectionString # NoString \/ HasRequired(pg)
GetConnectionString(pg) ==
    IF pg.connectionString # NoString THEN pg.connectionString ELSE pg.settings

(* connect, when it does not fail: a session that is open is replaced.     *)
Connected(pg) ==
    [pg EXCEPT !.connectionString = GetConnectionString(pg),
               !.session = GetConnectionString(pg)]

IsConnected(pg) == pg.session # NoString
=============================================================================
