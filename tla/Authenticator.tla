----------------------------- MODULE Authenticator -----------------------------
(***************************************************************************)
(* Who may make requests: the tokens and the credentials map of            *)
(* src/authenticator.cpp, the LDAP handle of src/ldap.cpp, and the gate    *)
(* that src/callback.cpp puts before every request.                        *)
(*                                                                         *)
(* All request threads share one authenticator and its one LDAP handle,    *)
(* which no lock protects; the map has a mutex, and each access to it is   *)
(* one step.  Time is counted in half seconds, because tokens and keys     *)
(* carry whole ones.  Every user that is added may read and write, so the  *)
(* refusals for lesser permissions are never met.                          *)
(***************************************************************************)
EXTENDS Integers, FiniteSets

CONSTANTS
    Users, Threads,
    Handles,            \* addresses of LDAP handles
    Messages,           \* verbs and bodies of requests
    Expiration,         \* seconds a token is good for, 86400
    Leeway,             \* seconds after that, 1
    MaxClock,           \* bound: half seconds
    MaxRestarts,        \* bound: restarts of the process
    MaxLogins           \* bound: tokens that are made

None == "none"
Second(c) == c \div 2

RequestTypes == {"availableSchemas", "hash", "cctData", "eventData",
                 "envelopeData", "accept", "reject"}
OfSchema == RequestTypes \ {"availableSchemas"}
OfEvent == {"eventData", "envelopeData", "accept", "reject"}
Field == {"absent", "number", "empty", "unknown", "known"}
Message ==
    [verb : {"get", "put", "post", "delete"},
     body : {"empty", "garbage", "object"},
     requestType : RequestTypes \union {"absent", "number", "unknown"},
     schema : Field, eventIdentifier : Field]

Exceptions == {"InvalidPermissionException", "UnimplementedException",
               "BadRequestException", "invalid_argument", "exception"}

ASSUME NoneAssumption == None \notin Users \union Handles
ASSUME MessagesAssumption == Messages \subseteq Message
ASSUME TimesAssumption ==
    /\ Expiration \in Nat /\ Leeway \in Nat
    /\ MaxClock \in Nat /\ MaxRestarts \in Nat /\ MaxLogins \in Nat

(* What is signed, the key included; run and issued are history.           *)
Token == [user : Users, iat : Nat, key : Nat, run : Nat, issued : Nat]

VARIABLES
    clock,
    key,            \* mKey: the second in which the process started
    handle,         \* mLDAP
    bound,          \* mBound
    open,           \* handles that are allocated
    userKeys,       \* mUserKeysMap: the token of each user
    at,             \* where each request stands
    user,           \* who logs in, or is authorized
    using,          \* handle that its bind was called with
    reply,          \* how it ended
    logins,
    tokens,         \* tokens that clients hold
    run,            \* history: which run of the process this is
    accepted,       \* history: users that LDAP has accepted in this run
    overlapped,     \* history: two logins were under way together
    misused         \* history: a handle was used after it was freed

ldapVars == <<handle, bound, open, using, overlapped, misused>>
timeVars == <<clock, key, run>>
requestVars == <<at, user, reply>>
tokenVars == <<userKeys, tokens, logins, accepted>>
vars == <<timeVars, requestVars, ldapVars, tokenVars>>

LoginStages == {"initialize", "create", "bind", "binding", "unbind", "add",
                "credentials"}
Stages == LoginStages \union {"idle", "authorized", "answered"}

To(t, s) == at' = [at EXCEPT ![t] = s]
Answer(t, r) == To(t, "answered") /\ reply' = [reply EXCEPT ![t] = r]

-----------------------------------------------------------------------------
(***************************************************************************)
(* LDAP.                                                                   *)
(***************************************************************************)
(* unbind frees the handle if there is one; the mutant's does not note it. *)
UnbindKeepsBound ==
    /\ open' = IF bound THEN open \ {handle} ELSE open
    /\ misused' = (misused \/ (bound /\ handle \notin open))
    /\ UNCHANGED bound
Unbind ==
    /\ open' = IF bound THEN open \ {handle} ELSE open
    /\ misused' = (misused \/ (bound /\ handle \notin open))
    /\ bound' = FALSE

(* A request to log in with a name and a password.                         *)
Login(t, u) ==
    /\ at[t] = "idle" /\ logins < MaxLogins
    /\ To(t, "initialize")
    /\ user' = [user EXCEPT ![t] = u]
    /\ logins' = logins + 1
    /\ overlapped' = (overlapped \/ \E s \in Threads : at[s] \in LoginStages)
    /\ UNCHANGED <<timeVars, reply, handle, bound, open, using, misused,
                   userKeys, tokens, accepted>>

(* initialize: a handle left over from a refused login is freed, and a new *)
(* one is made.  (Its protocol version is 3, which is never refused.)      *)
InitializeUnbind(t) ==
    /\ at[t] = "initialize"
    /\ Unbind
    /\ To(t, "create")
    /\ UNCHANGED <<timeVars, user, reply, handle, using, overlapped, tokenVars>>

Initialize(t) ==
    /\ at[t] = "create"
    /\ \/ \E h \in Handles \ open :
            handle' = h /\ bound' = TRUE /\ open' = open \union {h}
       \/ handle' = None /\ bound' = FALSE /\ UNCHANGED open
    /\ To(t, "bind")
    /\ UNCHANGED <<timeVars, user, reply, using, overlapped, misused, tokenVars>>

BindBegin(t) ==
    /\ at[t] = "bind"
    /\ IF bound
       THEN To(t, "binding") /\ using' = [using EXCEPT ![t] = handle]
            /\ UNCHANGED reply
       ELSE Answer(t, "exception") /\ UNCHANGED using
    /\ UNCHANGED <<timeVars, user, handle, bound, open, overlapped, misused,
                   tokenVars>>

(* The server accepts the user, or refuses, or cannot be reached.  On a    *)
(* handle that was freed meanwhile the call, if it returns, has failed.    *)
Bind(t) ==
    /\ at[t] = "binding"
    /\ \/ /\ using[t] \in open
          /\ accepted' = accepted \union {user[t]}
          /\ To(t, "unbind") /\ UNCHANGED reply
       \/ Answer(t, "InvalidPermissionException") /\ UNCHANGED accepted
    /\ misused' = (misused \/ using[t] \notin open)
    /\ using' = [using EXCEPT ![t] = None]
    /\ UNCHANGED <<timeVars, user, handle, bound, open, overlapped, userKeys,
                   tokens, logins>>

UnbindAfter(t) ==
    /\ at[t] = "unbind"
    /\ Unbind
    /\ To(t, "add")
    /\ UNCHANGED <<timeVars, user, reply, handle, using, overlapped, tokenVars>>

-----------------------------------------------------------------------------
(***************************************************************************)
(* Tokens.                                                                 *)
(***************************************************************************)
(* The mutant's token names no audience.                                   *)
CreateAnonymous(u) ==
    [user |-> None, iat |-> Second(clock), key |-> key, run |-> run,
     issued |-> clock]
CreateCredentials(u) ==
    [user |-> u, iat |-> Second(clock), key |-> key, run |-> run,
     issued |-> clock]

(* No token for a user is a token of no user.                              *)
NoToken == [user |-> None, iat |-> 0, key |-> 0, run |-> 0, issued |-> 0]

(* add: a token the user had before is replaced in the map.                *)
Add(t) ==
    /\ at[t] = "add"
    /\ userKeys' = [userKeys EXCEPT ![user[t]] = CreateCredentials(user[t])]
    /\ To(t, "credentials")
    /\ UNCHANGED <<timeVars, user, reply, ldapVars, tokens, logins, accepted>>

(* getCredentials: the token that is in the map by now.                    *)
GetCredentials(t) ==
    /\ at[t] = "credentials"
    /\ IF userKeys[user[t]] = NoToken
       THEN Answer(t, "exception") /\ UNCHANGED tokens
       ELSE Answer(t, "payload")
            /\ tokens' = tokens \union {userKeys[user[t]]}
    /\ UNCHANGED <<timeVars, user, ldapVars, userKeys, logins, accepted>>

(* The signature, and the time.                                            *)
Verified(tok) ==
    /\ tok.key = key
    /\ clock <= 2 * (tok.iat + Expiration + Leeway)

(* authorize: the user is in the map; the mutants want the very token      *)
(* there, or do not look.                                                  *)
AuthorizesLatest(tok) == Verified(tok) /\ userKeys[tok.user] = tok
AuthorizesVerified(tok) == Verified(tok)
Authorizes(tok) == Verified(tok) /\ userKeys[tok.user] # NoToken

Authorize(t, tok) ==
    /\ at[t] = "idle"
    /\ IF Authorizes(tok)
       THEN /\ To(t, "authorized") /\ user' = [user EXCEPT ![t] = tok.user]
            /\ UNCHANGED reply
       ELSE Answer(t, "InvalidPermissionException") /\ UNCHANGED user
    /\ UNCHANGED <<timeVars, ldapVars, tokenVars>>

-----------------------------------------------------------------------------
(***************************************************************************)
(* The callback.                                                           *)
(***************************************************************************)
(* Authorization headers that are refused at sight.                        *)
RefusalOf == [missing |-> "BadRequestException", short |-> "BadRequestException",
              otherScheme |-> "UnimplementedException",
              undecodable |-> "exception", noColon |-> "BadRequestException",
              noUser |-> "invalid_argument",
              forged |-> "InvalidPermissionException"]

Refuse(t) ==
    /\ at[t] = "idle"
    /\ \E h \in DOMAIN RefusalOf : Answer(t, RefusalOf[h])
    /\ UNCHANGED <<timeVars, user, ldapVars, tokenVars>>

(* What may be wrong with an authorized request, in the order of the code: *)
(* an entry is missing, an entry is not a string, an entry has no meaning. *)
(* (An event nobody knows has no envelopes; its data are empty, and its    *)
(* review is answered with a failure.  Envelopes are read from the         *)
(* database: that it fails is answered as if the event were unknown.)      *)
AboutEvent(m) == m.requestType \in OfEvent
AboutSchema(m) == m.requestType \in OfSchema

Missing(m) ==
    \/ m.requestType \in {"absent", "unknown"}
    \/ AboutSchema(m) /\ m.schema = "absent"
    \/ AboutEvent(m) /\ m.eventIdentifier = "absent"
NotString(m) ==
    \/ m.requestType = "number"
    \/ AboutEvent(m) /\ m.eventIdentifier = "number"
    \/ AboutSchema(m) /\ m.schema = "number"
        /\ (AboutEvent(m) => m.eventIdentifier # "empty")
Meaningless(m) ==
    \/ AboutEvent(m) /\ m.eventIdentifier = "empty"
    \/ AboutSchema(m) /\ m.schema # "known"
    \/ m.requestType = "envelopeData" /\ m.eventIdentifier = "unknown"

OutcomesOf(m) ==
    IF \/ m.verb = "delete" \/ m.body = "garbage"
       \/ m.body = "object" /\ ~Missing(m) /\ NotString(m)
    THEN {"exception"}
    ELSE IF m.body = "empty" \/ Missing(m) \/ Meaningless(m)
    THEN {"BadRequestException"}
    ELSE IF m.requestType = "envelopeData"
    THEN {"payload", "BadRequestException"}
    ELSE {"payload"}

Process(t) ==
    /\ at[t] = "authorized"
    /\ \E m \in Messages : \E o \in OutcomesOf(m) : Answer(t, o)
    /\ UNCHANGED <<timeVars, user, ldapVars, tokenVars>>

Respond(t) ==
    /\ at[t] = "answered"
    /\ To(t, "idle")
    /\ user' = [user EXCEPT ![t] = None]
    /\ reply' = [reply EXCEPT ![t] = None]
    /\ UNCHANGED <<timeVars, ldapVars, tokenVars>>

-----------------------------------------------------------------------------
Tick ==
    /\ clock < MaxClock
    /\ clock' = clock + 1
    /\ UNCHANGED <<key, run, requestVars, ldapVars, tokenVars>>

(* The process dies and starts again; tokens stay with the clients.  The   *)
(* constructor makes a handle and frees it.                                *)
Restart ==
    /\ run < MaxRestarts
    /\ run' = run + 1 /\ key' = Second(clock)
    /\ handle' \in Handles \union {None} /\ bound' = FALSE /\ open' = {}
    /\ userKeys' = [u \in Users |-> NoToken]
    /\ at' = [t \in Threads |-> "idle"]
    /\ user' = [t \in Threads |-> None] /\ using' = [t \in Threads |-> None]
    /\ reply' = [t \in Threads |-> None]
    /\ accepted' = {} /\ overlapped' = FALSE /\ misused' = FALSE
    /\ UNCHANGED <<clock, tokens, logins>>

Init ==
    /\ clock = 0 /\ key = 0 /\ run = 0
    /\ handle \in Handles \union {None} /\ bound = FALSE /\ open = {}
    /\ userKeys = [u \in Users |-> NoToken]
    /\ at = [t \in Threads |-> "idle"]
    /\ user = [t \in Threads |-> None] /\ using = [t \in Threads |-> None]
    /\ reply = [t \in Threads |-> None]
    /\ logins = 0 /\ tokens = {} /\ accepted = {}
    /\ overlapped = FALSE /\ misused = FALSE

Next ==
    \/ \E t \in Threads :
        \/ \E u \in Users : Login(t, u)
        \/ InitializeUnbind(t) \/ Initialize(t) \/ BindBegin(t) \/ Bind(t)
        \/ UnbindAfter(t) \/ Add(t) \/ GetCredentials(t)
        \/ \E tok \in tokens : Authorize(t, tok)
        \/ Refuse(t) \/ Process(t) \/ Respond(t)
    \/ Tick \/ Restart

Spec == Init /\ [][Next]_vars

-----------------------------------------------------------------------------
(***************************************************************************)
(* Properties.                                                             *)
(***************************************************************************)
(* Every variable has values of its kind.                                  *)
TypeOK ==
    /\ clock \in 0..MaxClock /\ key \in Nat /\ run \in Nat
    /\ handle \in Handles \union {None} /\ bound \in BOOLEAN
    /\ open \subseteq Handles
    /\ userKeys \in [Users -> Token \union {NoToken}]
    /\ at \in [Threads -> Stages]
    /\ user \in [Threads -> Users \union {None}]
    /\ using \in [Threads -> Handles \union {None}]
    /\ reply \in [Threads -> Exceptions \union {"payload", None}]
    /\ logins \in Nat /\ tokens \subseteq Token /\ accepted \subseteq Users
    /\ overlapped \in BOOLEAN /\ misused \in BOOLEAN

(* A request is authorized only for a user whom LDAP has accepted since    *)
(* the process started, and with a token made less than its life ago; so   *)
(* a user who is removed from LDAP is shut out in the end, and everybody   *)
(* logs in again after a restart.                                          *)
AuthorizedByLogin ==
    [][\A t \in Threads :
          at[t] = "idle" /\ at'[t] = "authorized" =>
            /\ user'[t] \in accepted
            /\ \E tok \in tokens :
                /\ tok.user = user'[t]
                /\ clock - tok.issued <= 2 * (Expiration + Leeway)]_vars

(* "A JSON Web Token for the user will be obtainable" (authenticator.hpp): *)
(* the token a client gets works until it expires or the process restarts, *)
(* whatever other logins there are, of the same user and by other threads. *)
TokenWorks ==
    \A tok \in tokens :
        tok.run = run /\ clock - tok.issued < 2 * (Expiration + Leeway) =>
            Authorizes(tok)

(* As long as logins do not overlap, the LDAP handle is freed exactly      *)
(* once and not used afterwards, through refused logins, servers out of    *)
(* reach, and any order of these.                                          *)
HandleIsSound ==
    ~overlapped => ~misused /\ open = (IF bound THEN {handle} ELSE {})
=============================================================================
