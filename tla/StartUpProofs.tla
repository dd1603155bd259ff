------------------------------ MODULE StartUpProofs ------------------------------
(***************************************************************************)
(* Proofs about StartUp, for any schemas, initialization files,            *)
(* connections and limits: what main has when it serves, that it never     *)
(* guesses a secret, and that while it serves it behaves as HttpService.   *)
(***************************************************************************)
EXTENDS StartUp, HttpServiceProofs

-----------------------------------------------------------------------------
(***************************************************************************)
(* Connections.                                                            *)
(***************************************************************************)
(* A connection object with given settings and no session.                 *)
Unconnected(f) == [settings |-> f, connectionString |-> NoString, session |-> NoString]

(* Setting one of the settings.                                            *)
LEMMA SetProperty ==
    ASSUME NEW f, NEW k, NEW v
    PROVE  Set(Unconnected(f), k, v) = Unconnected([f EXCEPT ![k] = v])
<1> DEFINE pg == Unconnected(f)
<1>1. pg.settings = f
  BY DEF Unconnected
<1>2. Set(pg, k, v) = [pg EXCEPT !.settings = [f EXCEPT ![k] = v],
                                 !.connectionString = NoString]
  BY <1>1 DEF Set
<1> QED
  BY <1>2 DEF Unconnected

(* The settings of a section, one entry each.                              *)
EntryOf(section) ==
    [f \in Fields |->
        CASE f = "user" -> <<section, "readWriteUser">>
          [] f = "password" -> <<section, "readWritePassword">>
          [] f = "databaseName" -> <<section, "databaseName">>
          [] f = "address" -> <<section, "host">>
          [] f = "port" -> <<section, "port">>
          [] OTHER -> DefaultApplication]

LEMMA ConfiguredProperty ==
    ASSUME NEW section
    PROVE  Configured(section) = Unconnected(EntryOf(section))
<1> DEFINE f0 == PostgreSQL.settings
           f1 == [f0 EXCEPT !["user"] = <<section, "readWriteUser">>]
           f2 == [f1 EXCEPT !["password"] = <<section, "readWritePassword">>]
           f3 == [f2 EXCEPT !["databaseName"] = <<section, "databaseName">>]
           f4 == [f3 EXCEPT !["address"] = <<section, "host">>]
           f5 == [f4 EXCEPT !["port"] = <<section, "port">>]
<1>1. PostgreSQL = Unconnected(f0)
  BY DEF PostgreSQL, Unconnected
<1>2. f0 = [f \in Fields |-> IF f = "port" THEN DefaultPort
                             ELSE IF f = "application" THEN DefaultApplication
                             ELSE Empty]
  BY DEF PostgreSQL
<1>3. f5 = EntryOf(section)
  <2> HIDE DEF f0
  <2>1. /\ DOMAIN f5 = Fields
        /\ f5["user"] = <<section, "readWriteUser">>
        /\ f5["password"] = <<section, "readWritePassword">>
        /\ f5["databaseName"] = <<section, "databaseName">>
        /\ f5["address"] = <<section, "host">>
        /\ f5["port"] = <<section, "port">>
        /\ f5["application"] = DefaultApplication
    BY <1>2 DEF Fields
  <2>2. f5 = [f \in Fields |-> f5[f]]
    BY <1>2 DEF Fields
  <2>3. /\ EntryOf(section)["user"] = <<section, "readWriteUser">>
        /\ EntryOf(section)["password"] = <<section, "readWritePassword">>
        /\ EntryOf(section)["databaseName"] = <<section, "databaseName">>
        /\ EntryOf(section)["address"] = <<section, "host">>
        /\ EntryOf(section)["port"] = <<section, "port">>
        /\ EntryOf(section)["application"] = DefaultApplication
    BY DEF EntryOf, Fields
  <2> HIDE DEF f5
  <2>4. \A f \in Fields : f5[f] = EntryOf(section)[f]
    BY <2>1, <2>3 DEF Fields
  <2>5. EntryOf(section) = [f \in Fields |-> EntryOf(section)[f]]
    BY DEF EntryOf
  <2> QED
    BY <2>2, <2>4, <2>5
<1> HIDE DEF f0
<1>4. Configured(section) = Unconnected(f5)
  <2>1. Set(PostgreSQL, "user", <<section, "readWriteUser">>) = Unconnected(f1)
    BY <1>1, SetProperty
  <2>2. Set(Unconnected(f1), "password", <<section, "readWritePassword">>)
            = Unconnected(f2)
    BY SetProperty
  <2>3. Set(Unconnected(f2), "databaseName", <<section, "databaseName">>)
            = Unconnected(f3)
    BY SetProperty
  <2>4. Set(Unconnected(f3), "address", <<section, "host">>) = Unconnected(f4)
    BY SetProperty
  <2>5. Set(Unconnected(f4), "port", <<section, "port">>) = Unconnected(f5)
    BY SetProperty
  <2> HIDE DEF f1, f2, f3, f4, f5
  <2> QED
    BY <2>1, <2>2, <2>3, <2>4, <2>5 DEF Configured
<1> QED
  BY <1>3, <1>4

(* A connection with the settings of a section is connected with these.    *)
LEMMA ConnectedProperty ==
    ASSUME NEW section
    PROVE  LET pg == Connected(Configured(section))
           IN  /\ IsConnected(pg)
               /\ pg.session = EntryOf(section)
<1>1. Configured(section) = Unconnected(EntryOf(section))
  BY ConfiguredProperty
<1>2. GetConnectionString(Unconnected(EntryOf(section))) = EntryOf(section)
  BY DEF GetConnectionString, Unconnected
<1>3. Connected(Configured(section)).session = EntryOf(section)
  BY <1>1, <1>2 DEF Connected, Unconnected
<1>4. EntryOf(section) # NoString
  <2>1. "user" \in DOMAIN EntryOf(section)
    BY DEF EntryOf, Fields
  <2>2. DOMAIN NoString = {}
    BY DEF NoString
  <2> QED
    BY <2>1, <2>2
<1> QED
  BY <1>3, <1>4 DEF IsConnected

(* All settings but the application's name come from the section.          *)
LEMMA EntryProperty ==
    ASSUME NEW section, NEW f \in Fields \ {"application"}
    PROVE  EntryOf(section)[f][1] = section
BY DEF EntryOf, Fields

-----------------------------------------------------------------------------
(***************************************************************************)
(* What main has, stage by stage.                                          *)
(***************************************************************************)
AfterCCT == {"aqms", "callback", "listen", "serving"}
AfterAQMS == {"callback", "listen", "serving"}
Client(s) == Connected(Configured(SectionOf(s)))

StartInv ==
    /\ StartTypeOK /\ stage # "aborted"
    /\ ini \in Ini
    /\ stage \in AfterCCT =>
        running /\ poller # "none" /\ cct = Connected(Configured("CCTDB"))
    /\ DOMAIN aqms = Schemas
    /\ \A s \in Schemas :
        /\ aqms[s] \in {PostgreSQL, Client(s)}
        /\ stage \in AfterAQMS => aqms[s] = Client(s)

LEMMA FreshNotConnected == ~IsConnected(PostgreSQL)
BY DEF IsConnected, PostgreSQL

LEMMA InitStart == StartUpInit => StartInv
<1> SUFFICES ASSUME StartUpInit PROVE StartInv
  OBVIOUS
<1>1. StartTypeOK /\ stage \notin AfterCCT \union AfterAQMS /\ stage # "aborted"
  BY DEF StartUpInit, StartTypeOK, AfterCCT, AfterAQMS
<1>2. ini \in Ini
  BY IniAssumption DEF StartUpInit
<1>3. DOMAIN aqms = Schemas /\ \A s \in Schemas : aqms[s] = PostgreSQL
  BY DEF StartUpInit
<1> QED
  BY <1>1, <1>2, <1>3 DEF StartInv

LEMMA NoIniIsIni == NoIni \in Ini
BY DEF NoIni, Ini, Inline, File

(* A step that leaves the AQMS clients alone.                              *)
LEMMA StepStart ==
    ASSUME StartInv, [StartUpNext]_allVars
    PROVE  StartInv'
<1> USE DEF Goto, startVars
<1>1. ASSUME ParseCommandLine PROVE StartInv'
  BY <1>1 DEF ParseCommandLine, StartInv, StartTypeOK, AfterCCT, AfterAQMS
<1>2. ASSUME ReadOptions PROVE StartInv'
  <2>1. stage' \in {"ldap", "leaving"} /\ ini' \in Ini
    BY <1>2, NoIniIsIni DEF ReadOptions
  <2> QED
    BY <1>2, <2>1 DEF ReadOptions, StartInv, StartTypeOK, AfterCCT, AfterAQMS
<1>3. ASSUME MakeAuthenticator PROVE StartInv'
  BY <1>3 DEF MakeAuthenticator, StartInv, StartTypeOK, AfterCCT, AfterAQMS
<1>4. ASSUME CreateCCTPostgresService PROVE StartInv'
  BY <1>4 DEF CreateCCTPostgresService, StartInv, StartTypeOK, AfterCCT, AfterAQMS
<1>5. ASSUME NEW s \in Schemas, CreateAQMSClient(s) PROVE StartInv'
  <2>1. CASE aqms' = [aqms EXCEPT ![s] = Client(s)]
             /\ Goto(IF \E r \in Schemas \ {s} : ~IsConnected(aqms[r])
                     THEN "aqms" ELSE "callback")
    <3>1. stage' \in {"aqms", "callback"} /\ UNCHANGED <<ini, cct, running, poller, acceptor>>
          /\ stage = "aqms"
      BY <1>5, <2>1 DEF CreateAQMSClient
    <3>2. DOMAIN aqms' = Schemas
      BY <2>1 DEF StartInv
    <3>3. \A r \in Schemas : aqms'[r] = IF r = s THEN Client(s) ELSE aqms[r]
      BY <2>1 DEF StartInv
    <3>4. stage' = "callback" => \A r \in Schemas \ {s} : IsConnected(aqms[r])
      BY <2>1
    <3>5. \A r \in Schemas : IsConnected(aqms[r]) => aqms[r] = Client(r)
      BY FreshNotConnected DEF StartInv
    <3>6. \A r \in Schemas :
            /\ aqms'[r] \in {PostgreSQL, Client(r)}
            /\ stage' \in AfterAQMS => aqms'[r] = Client(r)
      BY <3>1, <3>3, <3>4, <3>5 DEF StartInv, AfterAQMS
    <3> QED
      BY <3>1, <3>2, <3>6 DEF StartInv, StartTypeOK, AfterCCT
  <2>2. CASE Goto("leaving") /\ UNCHANGED aqms
    <3>1. UNCHANGED <<ini, cct, running, poller, acceptor>>
      BY <1>5 DEF CreateAQMSClient
    <3> QED
      BY <2>2, <3>1 DEF StartInv, StartTypeOK, AfterCCT, AfterAQMS
  <2> QED
    BY <1>5, <2>1, <2>2 DEF CreateAQMSClient, Client
<1>6. ASSUME MakeCallback PROVE StartInv'
  <2>1. running /\ \A s \in Schemas : IsConnected(aqms[s])
    BY <1>6, ConnectedProperty DEF MakeCallback, StartInv, AfterCCT, AfterAQMS, Client
  <2>2. stage' = "listen" /\ stage = "callback"
    BY <1>6, <2>1 DEF MakeCallback
  <2> QED
    BY <1>6, <2>2 DEF MakeCallback, StartInv, StartTypeOK, AfterCCT, AfterAQMS
<1>7. ASSUME Listen PROVE StartInv'
  BY <1>7 DEF Listen, StartInv, StartTypeOK, AfterCCT, AfterAQMS
<1>8. ASSUME LeaveMain PROVE StartInv'
  BY <1>8 DEF LeaveMain, StartInv, StartTypeOK, AfterCCT, AfterAQMS
<1>9. ASSUME JoinPoller PROVE StartInv'
  BY <1>9 DEF JoinPoller, StartInv, StartTypeOK, AfterCCT, AfterAQMS
<1>10. ASSUME PollerRound PROVE StartInv'
  <2>1. /\ poller' \in {"none", "awake", "asleep"}
        /\ running => poller' # "none"
    BY <1>10 DEF PollerRound
  <2> QED
    BY <1>10, <2>1 DEF PollerRound, StartInv, StartTypeOK
<1>11. ASSUME UNCHANGED startVars PROVE StartInv'
  BY <1>11 DEF StartInv, StartTypeOK
<1> QED
  BY <1>1, <1>2, <1>3, <1>4, <1>5, <1>6, <1>7, <1>8, <1>9, <1>10, <1>11
     DEF StartUpNext, StartUpStep, AcceptInVain, Serve, allVars

LEMMA StartInvariance == StartUpSpec => []StartInv
<1>1. StartInv /\ [StartUpNext]_allVars => StartInv'
  BY StepStart
<1> QED
  BY InitStart, <1>1, PTL DEF StartUpSpec

-----------------------------------------------------------------------------
(* Whoever serves has all that StartInv says of the last stages.           *)
LEMMA Complete == StartInv => ServesWhenComplete
<1> SUFFICES ASSUME StartInv, stage = "serving"
             PROVE  /\ running /\ poller # "none"
                    /\ cct.session["databaseName"] = <<"CCTDB", "databaseName">>
                    /\ \A s \in Schemas : \A f \in Fields \ {"application"} :
                        aqms[s].session[f][1] = SectionOf(s)
  BY DEF StartInv, ServesWhenComplete, SectionOf
<1>1. running /\ poller # "none" /\ cct = Connected(Configured("CCTDB"))
  BY DEF StartInv, AfterCCT
<1>2. cct.session["databaseName"] = <<"CCTDB", "databaseName">>
  <2>1. cct.session = EntryOf("CCTDB")
    BY <1>1, ConnectedProperty
  <2> QED
    BY <2>1 DEF EntryOf, Fields
<1>3. ASSUME NEW s \in Schemas, NEW f \in Fields \ {"application"}
      PROVE  aqms[s].session[f][1] = SectionOf(s)
  <2>1. aqms[s] = Client(s)
    BY DEF StartInv, AfterAQMS
  <2>2. aqms[s].session = EntryOf(SectionOf(s))
    BY <2>1, ConnectedProperty DEF Client
  <2> QED
    BY <2>2, EntryProperty
<1> QED
  BY <1>1, <1>2, <1>3

(* The process serves with everything the callback needs, each client with *)
(* the settings of its own section (ServesWhenComplete).                   *)
THEOREM ServesWhenCompleteHolds == StartUpSpec => []ServesWhenComplete
BY StartInvariance, Complete, PTL

(* A secret is accepted exactly if one of the two forms gives it.          *)
LEMMA SecretProperty ==
    ASSUME NEW e \in [inline : Inline, file : File]
    PROVE  RequireSecret(e) <=>
              \/ e.file = "absent" /\ e.inline \in Inline \ {"absent", "empty"}
              \/ e.file = "value" /\ e.inline = "absent"
BY DEF RequireSecret, ResolveSecret, ReadSecretFile, Inline, File

LEMMA WellFormedParses ==
    ASSUME NEW i \in Ini
    PROVE  ParseIniFile(i) <=> WellFormed(i)
<1>1. \A k \in Keys : i[k] \in [inline : Inline, file : File]
  BY DEF Ini
<1>2. /\ SecretKeys \subseteq Keys /\ StringKeys \subseteq Keys
      /\ <<"Beast", "address">> \in Keys
  BY DEF Keys, OtherKeys
<1>3. \A k \in SecretKeys : RequireSecret(i[k]) <=>
        \/ i[k].file = "absent" /\ i[k].inline \in Inline \ {"absent", "empty"}
        \/ i[k].file = "value" /\ i[k].inline = "absent"
  BY <1>1, <1>2, SecretProperty
<1>4. \A k \in StringKeys : RequireString(i[k]) <=>
        i[k].inline \in Inline \ {"absent", "empty"}
  BY <1>1, <1>2 DEF RequireString
<1>5. GetAddress(i[<<"Beast", "address">>]) <=>
        i[<<"Beast", "address">>].inline \in {"absent", "value"}
  BY DEF GetAddress
<1>6. Keys \ (SecretKeys \union StringKeys) =
        PortKeys \union {<<"Beast", "numberOfThreads">>, <<"Beast", "address">>}
  <2>1. ASSUME NEW k \in PortKeys \union OtherKeys PROVE k \notin SecretKeys \union StringKeys
    BY DEF PortKeys, OtherKeys, SecretKeys, StringKeys, Credentials, DatabaseSections
  <2> QED
    BY <2>1 DEF Keys, OtherKeys
<1>7. GetAddress(i[<<"Beast", "address">>]) =>
        i[<<"Beast", "address">>].inline # "zero"
  BY DEF GetAddress
<1>8. (\A k \in PortKeys \union {<<"Beast", "numberOfThreads">>} : GetPort(i[k]))
        /\ GetAddress(i[<<"Beast", "address">>])
      <=> (\A k \in Keys \ (SecretKeys \union StringKeys) : i[k].inline # "zero")
          /\ GetAddress(i[<<"Beast", "address">>])
  BY <1>6, <1>7 DEF GetPort
<1> QED
  BY <1>3, <1>4, <1>5, <1>8 DEF ParseIniFile, WellFormed

(* The process goes on with an initialization file exactly if each secret  *)
(* is given in one form that has a value (NeverGuesses).                   *)
THEOREM NeverGuessesHolds == StartUpSpec => NeverGuesses
<1>1. StartInv /\ [StartUpNext]_allVars =>
        [stage = "parse" /\ stage' # "parse" =>
            (stage' = "ldap" <=> WellFormed(ini))]_allVars
  <2> SUFFICES ASSUME StartInv, StartUpNext, stage = "parse", stage' # "parse"
               PROVE  stage' = "ldap" <=> WellFormed(ini)
    BY DEF allVars, startVars
  <2>1. ReadOptions
    BY DEF StartUpNext, StartUpStep, ParseCommandLine, MakeAuthenticator,
           CreateCCTPostgresService, CreateAQMSClient, MakeCallback, Listen,
           LeaveMain, JoinPoller, PollerRound, AcceptInVain, Serve, startVars
  <2>2. stage' = "ldap" <=> ParseIniFile(ini)
    BY <2>1 DEF ReadOptions, Goto
  <2> QED
    BY <2>2, WellFormedParses DEF StartInv
<1> QED
  BY <1>1, StartInvariance, PTL DEF StartUpSpec, NeverGuesses

-----------------------------------------------------------------------------
(* The listener and the sessions do the same whether or not they are part  *)
(* of the whole process: its steps are theirs, or change nothing of them.  *)
THEOREM StartUpImplementsHttp ==
    StartUpSpec => HttpInit /\ [][HttpNext]_vars /\ HttpFairness
<1>1. StartUpInit => HttpInit
  BY DEF StartUpInit
<1>2. [StartUpNext]_allVars => [HttpNext]_vars
  <2> SUFFICES ASSUME [StartUpNext]_allVars PROVE [HttpNext]_vars
    OBVIOUS
  <2>1. CASE AcceptInVain
    BY <2>1 DEF AcceptInVain, vars, clientVars
  <2>2. CASE Serve
    BY <2>2 DEF Serve
  <2>3. CASE PollerRound \/ StartUpStep
    BY <2>3 DEF PollerRound, StartUpStep, ParseCommandLine, ReadOptions,
                MakeAuthenticator, CreateCCTPostgresService, CreateAQMSClient,
                MakeCallback, Listen, LeaveMain, JoinPoller
  <2>4. CASE UNCHANGED allVars
    BY <2>4 DEF allVars
  <2> QED
    BY <2>1, <2>2, <2>3, <2>4 DEF StartUpNext
<1> QED
  BY <1>1, <1>2, PTL DEF StartUpSpec
==================================================================================
