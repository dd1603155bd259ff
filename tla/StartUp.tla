-------------------------------- MODULE StartUp --------------------------------
(***************************************************************************)
(* src/main.cpp: from the command line and the initialization file to the  *)
(* listening service, or to the end of the process.  Once it serves, its   *)
(* steps are those of HttpService.                                         *)
(*                                                                         *)
(* The parts are made in order.  The CCT service starts a thread of its    *)
(* own, the poller, which main waits for when it leaves after a later part *)
(* has failed.                                                             *)
(***************************************************************************)
EXTENDS HttpService, PostgreSQL

CONSTANTS
    Schemas,        \* main.cpp: production and test
    Inis            \* the initialization files that are tried

-----------------------------------------------------------------------------
(***************************************************************************)
(* The initialization file.  An entry says what is given in the file for a *)
(* setting, and for a secret what the file it names holds.                 *)
(***************************************************************************)
DatabaseSections == {"AQMSTest", "AQMSProduction", "CCTDB"}
Credentials == {"readWriteUser", "readWritePassword", "databaseName", "host"}

SecretKeys == (DatabaseSections \X Credentials) \union {<<"LDAP", "host">>}
StringKeys == {<<"LDAP", "organizationalUnit">>, <<"LDAP", "domainComponent">>}
PortKeys == (DatabaseSections \union {"LDAP", "Beast"}) \X {"port"}
OtherKeys == {<<"Beast", "address">>, <<"Beast", "numberOfThreads">>}
Keys == SecretKeys \union StringKeys \union PortKeys \union OtherKeys

Inline == {"absent", "empty", "garbage", "zero", "value"}
File == {"absent", "missing", "unreadable", "blank", "value"}
Ini == [Keys -> [inline : Inline, file : File]]

ASSUME IniAssumption == Inis \subseteq Ini

(* readSecretFile throws but for a file with more than whitespace in it.   *)
ReadSecretFile(file) == file = "value"

(* resolveSecret: both forms given is an error; the mutant has a           *)
(* precedence rule.  Nothing given is "none".                              *)
ResolveSecretInlineFirst(e) ==
    IF e.inline # "absent" THEN e.inline
    ELSE IF e.file # "absent"
         THEN IF ReadSecretFile(e.file) THEN "value" ELSE "exception"
         ELSE "none"
ResolveSecret(e) ==
    CASE e.inline # "absent" /\ e.file # "absent" -> "exception"
      [] e.inline = "absent" /\ e.file # "absent" ->
            IF ReadSecretFile(e.file) THEN "value" ELSE "exception"
      [] e.inline # "absent" /\ e.file = "absent" -> e.inline
      [] OTHER -> "none"

RequireSecret(e) == ResolveSecret(e) \notin {"exception", "none", "empty"}
RequireString(e) == e.inline \notin {"absent", "empty"}

(* A port that does not convert is replaced by the default, like one that  *)
(* is not given; 0 throws.  So with the number of threads.                 *)
GetPort(e) == e.inline # "zero"
GetAddress(e) == e.inline \in {"absent", "value"}

ParseIniFile(i) ==
    /\ \A k \in SecretKeys : RequireSecret(i[k])
    /\ \A k \in StringKeys : RequireString(i[k])
    /\ \A k \in PortKeys \union {<<"Beast", "numberOfThreads">>} : GetPort(i[k])
    /\ GetAddress(i[<<"Beast", "address">>])

-----------------------------------------------------------------------------
VARIABLES
    stage,          \* how far main has come
    ini,            \* the property tree while it is parsed
    cct,            \* connection of the CCT service
    aqms,           \* connection of each schema's AQMS client
    running,        \* the CCT service's mRunning
    poller,         \* its thread
    acceptor        \* of the listener

NoIni == [k \in Keys |-> [inline |-> "absent", file |-> "absent"]]
startVars == <<stage, ini, cct, aqms, running, poller, acceptor>>
allVars == <<vars, startVars>>

(* A connection with the settings of a section.                            *)
Configured(section) ==
    Set(Set(Set(Set(Set(PostgreSQL, "user", <<section, "readWriteUser">>),
                    "password", <<section, "readWritePassword">>),
                "databaseName", <<section, "databaseName">>),
            "address", <<section, "host">>),
        "port", <<section, "port">>)

OtherSection(schema) ==
    IF schema = "production" THEN "AQMSTest" ELSE "AQMSProduction"
SectionOf(schema) ==
    IF schema = "production" THEN "AQMSProduction" ELSE "AQMSTest"

Goto(s) == stage' = s

ParseCommandLine ==
    /\ stage = "options"
    /\ \/ Goto("parse")                 \* --ini names a file that exists
       \/ Goto("leaving")               \* --help, no file, or a bad option
    /\ UNCHANGED <<vars, ini, cct, aqms, running, poller, acceptor>>

ReadOptions ==
    /\ stage = "parse"
    /\ Goto(IF ParseIniFile(ini) THEN "ldap" ELSE "leaving")
    /\ ini' = NoIni
    /\ UNCHANGED <<vars, cct, aqms, running, poller, acceptor>>

(* An LDAP server out of reach is logged; the environment may be full.     *)
MakeAuthenticator ==
    /\ stage = "ldap"
    /\ Goto("cct") \/ Goto("leaving")
    /\ UNCHANGED <<vars, ini, cct, aqms, running, poller, acceptor>>

(* Connect, load the schemas, start the poller; each may throw.            *)
CreateCCTPostgresService ==
    /\ stage = "cct"
    /\ \/ /\ CanMakeString(Configured("CCTDB"))
          /\ cct' = Connected(Configured("CCTDB"))
          /\ running' = TRUE /\ poller' = "awake"
          /\ Goto("aqms")
       \/ Goto("leaving") /\ UNCHANGED <<cct, running, poller>>
    /\ UNCHANGED <<vars, ini, aqms, acceptor>>

(* One schema after the other; a failure ends the start.                   *)
CreateAQMSClient(s) ==
    /\ stage = "aqms" /\ ~IsConnected(aqms[s])
    /\ \/ /\ CanMakeString(Configured(SectionOf(s)))
          /\ aqms' = [aqms EXCEPT ![s] = Connected(Configured(SectionOf(s)))]
          /\ Goto(IF \E r \in Schemas \ {s} : ~IsConnected(aqms[r])
                  THEN "aqms" ELSE "callback")
       \/ Goto("leaving") /\ UNCHANGED aqms
    /\ UNCHANGED <<vars, ini, cct, running, poller, acceptor>>

(* What the constructor requires; main catches none of its exceptions.     *)
MakeCallback ==
    /\ stage = "callback"
    /\ Goto(IF running /\ \A s \in Schemas : IsConnected(aqms[s])
            THEN "listen" ELSE "aborted")
    /\ UNCHANGED <<vars, ini, cct, aqms, running, poller, acceptor>>

(* Open, set the option, bind and listen: a failure is logged, and main    *)
(* runs the I/O context all the same.                                      *)
Listen ==
    /\ stage = "listen"
    /\ acceptor' \in {"listening", "failed"}
    /\ Goto("serving")
    /\ UNCHANGED <<vars, ini, cct, aqms, running, poller>>

(* main returns.  The CCT service's destructor stops the poller and waits  *)
(* for its thread; the mutant only waits.                                  *)
LeaveAndWait ==
    /\ stage = "leaving"
    /\ Goto("joining")
    /\ UNCHANGED <<vars, ini, cct, aqms, running, poller, acceptor>>
LeaveMain ==
    /\ stage = "leaving"
    /\ running' = FALSE
    /\ Goto("joining")
    /\ UNCHANGED <<vars, ini, cct, aqms, poller, acceptor>>

JoinPoller ==
    /\ stage = "joining" /\ poller = "none"
    /\ cct' = PostgreSQL /\ aqms' = [s \in Schemas |-> PostgreSQL]
    /\ Goto("exited")
    /\ UNCHANGED <<vars, ini, running, poller, acceptor>>

(* The poller refreshes or not, whatever comes of it, and sleeps; then it  *)
(* looks whether to go on.                                                 *)
PollerRound ==
    /\ \/ poller = "awake" /\ poller' = "asleep"
       \/ poller = "asleep" /\ poller' = IF running THEN "awake" ELSE "none"
    /\ UNCHANGED <<vars, stage, ini, cct, aqms, running, acceptor>>

(* Every accept on a socket that does not listen fails, and is repeated.   *)
AcceptInVain ==
    /\ stage = "serving" /\ acceptor = "failed" /\ accepting
    /\ accepting' = TRUE
    /\ UNCHANGED <<phase, timer, clientVars, next, response, handled, received,
                   startVars>>

Serve ==
    /\ stage = "serving" /\ acceptor = "listening"
    /\ HttpNext
    /\ UNCHANGED startVars

StartUpStep ==
    \/ ParseCommandLine \/ ReadOptions \/ MakeAuthenticator
    \/ CreateCCTPostgresService \/ MakeCallback \/ Listen
    \/ LeaveMain \/ JoinPoller
    \/ \E s \in Schemas : CreateAQMSClient(s)

StartUpInit ==
    /\ HttpInit
    /\ stage = "options"
    /\ ini \in Inis
    /\ cct = PostgreSQL
    /\ aqms = [s \in Schemas |-> PostgreSQL]
    /\ running = FALSE
    /\ poller = "none"
    /\ acceptor = "closed"

StartUpNext == StartUpStep \/ PollerRound \/ AcceptInVain \/ Serve

(* main goes on, the poller's queries end, and HttpService's fairness.     *)
StartUpSpec ==
    /\ StartUpInit /\ [][StartUpNext]_allVars
    /\ WF_allVars(StartUpStep) /\ WF_allVars(PollerRound)
    /\ HttpFairness

-----------------------------------------------------------------------------
(***************************************************************************)
(* Properties.                                                             *)
(***************************************************************************)
(* An initialization file with which the process may start: every secret   *)
(* is given in exactly one form and that form has a value.                 *)
WellFormed(i) ==
    /\ \A k \in SecretKeys :
        \/ i[k].file = "absent" /\ i[k].inline \in Inline \ {"absent", "empty"}
        \/ i[k].file = "value" /\ i[k].inline = "absent"
    /\ \A k \in StringKeys : i[k].inline \in Inline \ {"absent", "empty"}
    /\ \A k \in Keys \ (SecretKeys \union StringKeys) : i[k].inline # "zero"
    /\ i[<<"Beast", "address">>].inline \in {"absent", "value"}

(* "Both being set is an error rather than a precedence rule"              *)
(* (secretFile.hpp): the process goes on with a file exactly if it is      *)
(* well formed, and never guesses which of two secrets was meant.          *)
NeverGuesses ==
    [][stage = "parse" /\ stage' # "parse" =>
          (stage' = "ldap" <=> WellFormed(ini))]_allVars

(* The process serves with everything the callback needs: the poller runs, *)
(* and each schema's client has a session opened with the settings of its  *)
(* own section.  The exceptions of the callback's constructor, which       *)
(* nothing catches, are never thrown.                                      *)
ServesWhenComplete ==
    /\ stage # "aborted"
    /\ stage = "serving" =>
        /\ running /\ poller # "none"
        /\ cct.session["databaseName"] = <<"CCTDB", "databaseName">>
        /\ \A s \in Schemas : \A f \in Fields \ {"application"} :
            aqms[s].session[f][1] =
                IF s = "production" THEN "AQMSProduction" ELSE "AQMSTest"

(* Starting comes to an end: the process serves, or has exited, even when  *)
(* a part fails after the poller was started.                              *)
StartUpEnds == <>(stage \in {"serving", "exited"})

(* Every variable has values of its kind.                                  *)
StartTypeOK ==
    /\ stage \in {"options", "parse", "ldap", "cct", "aqms", "callback",
                  "listen", "serving", "leaving", "joining", "exited", "aborted"}
    /\ running \in BOOLEAN
    /\ poller \in {"none", "awake", "asleep"}
    /\ acceptor \in {"closed", "listening", "failed"}
=============================================================================
