-------------------------- MODULE AuthenticatorProofs --------------------------
(***************************************************************************)
(* Proofs about Authenticator, for any users, threads, handles, times and  *)
(* bounds.  AuthInv says what is known of tokens and of the map, HandleInv *)
(* what is known of the LDAP handle while logins do not overlap.           *)
(***************************************************************************)
EXTENDS Authenticator, TLAPS

(* Whoever is logging in is a user, and one whom LDAP has accepted once    *)
(* the bind has succeeded.                                                 *)
LoginInv ==
    \A t \in Threads :
        /\ at[t] \in LoginStages => user[t] \in Users
        /\ at[t] \in {"unbind", "add", "credentials"} => user[t] \in accepted

(* Whole seconds and the instants they stand for.                          *)
Dated(tok) == 2 * tok.iat <= tok.issued /\ tok.issued <= 2 * tok.iat + 1

(* The map has tokens of this run, each for its user, whom LDAP accepted.  *)
KeysInv ==
    \A u \in Users : userKeys[u] # NoToken =>
        /\ u \in accepted
        /\ userKeys[u].user = u /\ userKeys[u].key = key
        /\ userKeys[u].run = run /\ Dated(userKeys[u])

(* Tokens are of this run or an earlier one; those of this run carry its   *)
(* key, and their users are in the map.                                    *)
TokensInv ==
    \A tok \in tokens :
        /\ Dated(tok) /\ tok.run <= run
        /\ tok.run = run => tok.key = key /\ userKeys[tok.user] # NoToken

AuthInv == TypeOK /\ LoginInv /\ KeysInv /\ TokensInv

-----------------------------------------------------------------------------
(* A second covers two instants.                                           *)
LEMMA SecondProperty ==
    ASSUME NEW c \in Nat
    PROVE  /\ Second(c) \in Nat
           /\ 2 * Second(c) <= c /\ c <= 2 * Second(c) + 1
BY DEF Second

(* A token that is made for a user is a token, dated, and not NoToken.     *)
LEMMA CreatedToken ==
    ASSUME TypeOK, NEW u \in Users
    PROVE  /\ CreateCredentials(u) \in Token
           /\ CreateCredentials(u) # NoToken
           /\ CreateCredentials(u).user = u /\ CreateCredentials(u).key = key
           /\ CreateCredentials(u).run = run
           /\ Dated(CreateCredentials(u))
<1>1. clock \in Nat /\ key \in Nat /\ run \in Nat
  BY DEF TypeOK
<1>2. /\ Second(clock) \in Nat
      /\ 2 * Second(clock) <= clock /\ clock <= 2 * Second(clock) + 1
  BY <1>1, SecondProperty
<1>3. u # None
  BY NoneAssumption
<1> QED
  BY <1>1, <1>2, <1>3 DEF CreateCredentials, Token, NoToken, Dated

(* A token of this run that a client may have, and whose user is in the    *)
(* map, is a token.                                                        *)
LEMMA InMap ==
    ASSUME TypeOK, NEW u \in Users, userKeys[u] # NoToken
    PROVE  userKeys[u] \in Token
BY DEF TypeOK

-----------------------------------------------------------------------------
(* What changes neither map, tokens, run nor accepted users keeps KeysInv  *)
(* and TokensInv.                                                          *)
LEMMA NothingOfTokens ==
    ASSUME KeysInv, TokensInv, UNCHANGED <<key, run, userKeys, tokens>>,
           accepted \subseteq accepted'
    PROVE  KeysInv' /\ TokensInv'
BY DEF KeysInv, TokensInv, Dated

LEMMA InitInv == Init => AuthInv
<1> SUFFICES ASSUME Init PROVE AuthInv
  OBVIOUS
<1>1. TypeOK
  <2>1. clock \in 0..MaxClock /\ key \in Nat /\ run \in Nat /\ logins \in Nat
    BY TimesAssumption DEF Init
  <2>2. at \in [Threads -> Stages]
    BY DEF Init, Stages
  <2>3. /\ userKeys \in [Users -> Token \union {NoToken}]
        /\ user \in [Threads -> Users \union {None}]
        /\ using \in [Threads -> Handles \union {None}]
        /\ reply \in [Threads -> Exceptions \union {"payload", None}]
    BY DEF Init
  <2> QED
    BY <2>1, <2>2, <2>3 DEF Init, TypeOK
<1>2. LoginInv
  BY DEF Init, LoginInv, LoginStages
<1>3. KeysInv
  BY DEF Init, KeysInv
<1>4. TokensInv
  BY DEF Init, TokensInv
<1> QED
  BY <1>1, <1>2, <1>3, <1>4 DEF AuthInv

-----------------------------------------------------------------------------
(***************************************************************************)
(* Every step keeps AuthInv.                                               *)
(***************************************************************************)
(* Answers and stages are of their types.                                  *)
LEMMA StageType ==
    ASSUME TypeOK, NEW t \in Threads, NEW s \in Stages, To(t, s)
    PROVE  at' \in [Threads -> Stages]
BY DEF TypeOK, To

LEMMA AnswerType ==
    ASSUME TypeOK, NEW t \in Threads, NEW r \in Exceptions \union {"payload"},
           Answer(t, r)
    PROVE  /\ at' \in [Threads -> Stages]
           /\ reply' \in [Threads -> Exceptions \union {"payload", None}]
BY StageType DEF TypeOK, Answer, Stages

LEMMA StepType ==
    ASSUME TypeOK, LoginInv, [Next]_vars
    PROVE  TypeOK'
<1> USE DEF timeVars, requestVars, ldapVars, tokenVars
<1>1. ASSUME NEW t \in Threads, NEW u \in Users, Login(t, u) PROVE TypeOK'
  <2>1. at' \in [Threads -> Stages]
    BY <1>1, StageType DEF Login, Stages, LoginStages
  <2>2. overlapped' \in BOOLEAN
    BY <1>1, Zenon DEF Login
  <2>3. user' \in [Threads -> Users \union {None}] /\ logins' \in Nat
    BY <1>1 DEF Login, TypeOK
  <2> QED
    BY <1>1, <2>1, <2>2, <2>3 DEF Login, TypeOK
<1>2. ASSUME NEW t \in Threads, InitializeUnbind(t) PROVE TypeOK'
  <2>1. at' \in [Threads -> Stages]
    BY <1>2, StageType DEF InitializeUnbind, Stages, LoginStages
  <2> QED
    BY <1>2, <2>1 DEF InitializeUnbind, Unbind, TypeOK
<1>3. ASSUME NEW t \in Threads, Initialize(t) PROVE TypeOK'
  <2>1. at' \in [Threads -> Stages]
    BY <1>3, StageType DEF Initialize, Stages, LoginStages
  <2> QED
    BY <1>3, <2>1 DEF Initialize, TypeOK
<1>4. ASSUME NEW t \in Threads, BindBegin(t) PROVE TypeOK'
  <2>1. /\ at' \in [Threads -> Stages]
        /\ reply' \in [Threads -> Exceptions \union {"payload", None}]
    <3>1. CASE bound
      <4>1. at' \in [Threads -> Stages]
        BY <1>4, <3>1, StageType DEF BindBegin, Stages, LoginStages
      <4> QED
        BY <1>4, <3>1, <4>1 DEF BindBegin, TypeOK
    <3>2. CASE ~bound
      BY <1>4, <3>2, AnswerType DEF BindBegin, Exceptions
    <3> QED
      BY <3>1, <3>2
  <2> QED
    BY <1>4, <2>1 DEF BindBegin, TypeOK
<1>5. ASSUME NEW t \in Threads, Bind(t) PROVE TypeOK'
  <2>1. /\ at' \in [Threads -> Stages]
        /\ reply' \in [Threads -> Exceptions \union {"payload", None}]
        /\ accepted' \subseteq Users
    <3>1. CASE /\ accepted' = accepted \union {user[t]}
               /\ To(t, "unbind") /\ UNCHANGED reply
      <4>1. at' \in [Threads -> Stages]
        BY <3>1, StageType DEF Stages, LoginStages
      <4>2. user[t] \in Users
        BY <1>5 DEF Bind, LoginInv, LoginStages
      <4> QED
        BY <3>1, <4>1, <4>2 DEF TypeOK
    <3>2. CASE Answer(t, "InvalidPermissionException") /\ UNCHANGED accepted
      BY <3>2, AnswerType DEF Exceptions, TypeOK
    <3> QED
      BY <1>5, <3>1, <3>2 DEF Bind
  <2>2. misused' \in BOOLEAN /\ using' \in [Threads -> Handles \union {None}]
    BY <1>5 DEF Bind, TypeOK
  <2> QED
    BY <1>5, <2>1, <2>2 DEF Bind, TypeOK
<1>6. ASSUME NEW t \in Threads, UnbindAfter(t) PROVE TypeOK'
  <2>1. at' \in [Threads -> Stages]
    BY <1>6, StageType DEF UnbindAfter, Stages, LoginStages
  <2> QED
    BY <1>6, <2>1 DEF UnbindAfter, Unbind, TypeOK
<1>7. ASSUME NEW t \in Threads, Add(t) PROVE TypeOK'
  <2>1. at' \in [Threads -> Stages]
    BY <1>7, StageType DEF Add, Stages, LoginStages
  <2>2. user[t] \in Users
    BY <1>7 DEF Add, LoginInv, LoginStages
  <2>3. CreateCredentials(user[t]) \in Token
    BY <2>2, CreatedToken
  <2>4. userKeys' \in [Users -> Token \union {NoToken}]
    BY <1>7, <2>3 DEF Add, TypeOK
  <2> QED
    BY <1>7, <2>1, <2>4 DEF Add, TypeOK
<1>8. ASSUME NEW t \in Threads, GetCredentials(t) PROVE TypeOK'
  <2>1. user[t] \in Users
    BY <1>8 DEF GetCredentials, LoginInv, LoginStages
  <2>2. /\ at' \in [Threads -> Stages]
        /\ reply' \in [Threads -> Exceptions \union {"payload", None}]
    BY <1>8, AnswerType DEF GetCredentials, Exceptions
  <2>3. tokens' \subseteq Token
    BY <1>8, <2>1, InMap DEF GetCredentials, TypeOK
  <2> QED
    BY <1>8, <2>2, <2>3 DEF GetCredentials, TypeOK
<1>9. ASSUME NEW t \in Threads, NEW tok \in tokens, Authorize(t, tok) PROVE TypeOK'
  <2>1. tok.user \in Users
    BY DEF TypeOK, Token
  <2>2. CASE Authorizes(tok)
    <3>1. at' \in [Threads -> Stages]
      BY <1>9, <2>2, StageType DEF Authorize, Stages
    <3>2. user' \in [Threads -> Users \union {None}]
      BY <1>9, <2>1, <2>2 DEF Authorize, TypeOK
    <3> QED
      BY <1>9, <2>2, <3>1, <3>2 DEF Authorize, TypeOK
  <2>3. CASE ~Authorizes(tok)
    <3>1. /\ at' \in [Threads -> Stages]
          /\ reply' \in [Threads -> Exceptions \union {"payload", None}]
      BY <1>9, <2>3, AnswerType DEF Authorize, Exceptions
    <3> QED
      BY <1>9, <2>3, <3>1 DEF Authorize, TypeOK
  <2> QED
    BY <2>2, <2>3
<1>10. ASSUME NEW t \in Threads, Refuse(t) PROVE TypeOK'
  <2>1. PICK h \in DOMAIN RefusalOf : Answer(t, RefusalOf[h])
    BY <1>10 DEF Refuse
  <2>2. RefusalOf[h] \in Exceptions
    BY DEF RefusalOf, Exceptions
  <2>3. /\ at' \in [Threads -> Stages]
        /\ reply' \in [Threads -> Exceptions \union {"payload", None}]
    BY <2>1, <2>2, AnswerType
  <2> QED
    BY <1>10, <2>3 DEF Refuse, TypeOK
<1>11. ASSUME NEW t \in Threads, Process(t) PROVE TypeOK'
  <2>1. PICK m \in Messages : \E o \in OutcomesOf(m) : Answer(t, o)
    BY <1>11 DEF Process
  <2>2. OutcomesOf(m) \subseteq Exceptions \union {"payload"}
    BY DEF OutcomesOf, Exceptions
  <2>3. /\ at' \in [Threads -> Stages]
        /\ reply' \in [Threads -> Exceptions \union {"payload", None}]
    BY <2>1, <2>2, AnswerType
  <2> QED
    BY <1>11, <2>3 DEF Process, TypeOK
<1>12. ASSUME NEW t \in Threads, Respond(t) PROVE TypeOK'
  <2>1. at' \in [Threads -> Stages]
    BY <1>12, StageType DEF Respond, Stages
  <2> QED
    BY <1>12, <2>1 DEF Respond, TypeOK
<1>13. ASSUME Tick PROVE TypeOK'
  <2>1. clock' \in 0..MaxClock
    BY <1>13, TimesAssumption DEF Tick, TypeOK
  <2> QED
    BY <1>13, <2>1 DEF Tick, TypeOK
<1>14. ASSUME Restart PROVE TypeOK'
  <2>1. key' \in Nat /\ run' \in Nat
    BY <1>14, SecondProperty DEF Restart, TypeOK
  <2>2. at' \in [Threads -> Stages]
    BY <1>14 DEF Restart, Stages
  <2>3. /\ userKeys' \in [Users -> Token \union {NoToken}]
        /\ user' \in [Threads -> Users \union {None}]
        /\ using' \in [Threads -> Handles \union {None}]
        /\ reply' \in [Threads -> Exceptions \union {"payload", None}]
    BY <1>14 DEF Restart
  <2> QED
    BY <1>14, <2>1, <2>2, <2>3 DEF Restart, TypeOK
<1>15. ASSUME UNCHANGED vars PROVE TypeOK'
  BY <1>15 DEF vars, TypeOK
<1> QED
  BY <1>1, <1>2, <1>3, <1>4, <1>5, <1>6, <1>7, <1>8, <1>9, <1>10, <1>11, <1>12,
     <1>13, <1>14, <1>15 DEF Next

(* A request that moves keeps LoginInv if it is right at its new stage.    *)
LEMMA LoginMoves ==
    ASSUME TypeOK, LoginInv, NEW t \in Threads, NEW s, To(t, s),
           accepted \subseteq accepted',
           \A r \in Threads : r # t => user'[r] = user[r],
           s \in LoginStages => user'[t] \in Users,
           s \in {"unbind", "add", "credentials"} => user'[t] \in accepted'
    PROVE  LoginInv'
<1> SUFFICES ASSUME NEW r \in Threads
             PROVE  /\ at'[r] \in LoginStages => user'[r] \in Users
                    /\ at'[r] \in {"unbind", "add", "credentials"} =>
                          user'[r] \in accepted'
  BY DEF LoginInv, LoginStages
<1>1. at \in [Threads -> Stages]
  BY DEF TypeOK
<1>2. CASE r = t
  BY <1>1, <1>2 DEF To
<1>3. CASE r # t
  <2>1. at'[r] = at[r] /\ user'[r] = user[r]
    BY <1>1, <1>3 DEF To
  <2> QED
    BY <2>1 DEF LoginInv
<1> QED
  BY <1>2, <1>3

(* A request that leaves its login keeps LoginInv.                         *)
LEMMA LoginLeft ==
    ASSUME TypeOK, LoginInv, NEW t \in Threads, NEW s, To(t, s),
           s \notin LoginStages, accepted \subseteq accepted',
           \A r \in Threads : r # t => user'[r] = user[r]
    PROVE  LoginInv'
BY LoginMoves DEF LoginStages

LEMMA StepLogin ==
    ASSUME TypeOK, LoginInv, [Next]_vars
    PROVE  LoginInv'
<1> USE DEF timeVars, requestVars, ldapVars, tokenVars
<1>0. user \in [Threads -> Users \union {None}]
  BY DEF TypeOK
<1>1. ASSUME NEW t \in Threads, NEW u \in Users, Login(t, u) PROVE LoginInv'
  <2>1. /\ To(t, "initialize") /\ user'[t] = u /\ accepted' = accepted
        /\ \A r \in Threads : r # t => user'[r] = user[r]
    BY <1>0, <1>1 DEF Login
  <2> QED
    BY <2>1, LoginMoves
<1>2. ASSUME NEW t \in Threads, InitializeUnbind(t) PROVE LoginInv'
  <2>1. /\ To(t, "create") /\ user' = user /\ accepted' = accepted
        /\ user[t] \in Users
    BY <1>2 DEF InitializeUnbind, LoginInv, LoginStages
  <2> QED
    BY <2>1, LoginMoves
<1>3. ASSUME NEW t \in Threads, Initialize(t) PROVE LoginInv'
  <2>1. /\ To(t, "bind") /\ user' = user /\ accepted' = accepted
        /\ user[t] \in Users
    BY <1>3 DEF Initialize, LoginInv, LoginStages
  <2> QED
    BY <2>1, LoginMoves
<1>4. ASSUME NEW t \in Threads, BindBegin(t) PROVE LoginInv'
  <2>1. user' = user /\ accepted' = accepted /\ user[t] \in Users
    BY <1>4 DEF BindBegin, LoginInv, LoginStages
  <2>2. CASE bound
    BY <1>4, <2>1, <2>2, LoginMoves DEF BindBegin
  <2>3. CASE ~bound
    <3>1. To(t, "answered")
      BY <1>4, <2>3 DEF BindBegin, Answer
    <3> QED
      BY <2>1, <3>1, LoginLeft DEF LoginStages
  <2> QED
    BY <2>2, <2>3
<1>5. ASSUME NEW t \in Threads, Bind(t) PROVE LoginInv'
  <2>1. user' = user /\ user[t] \in Users
    BY <1>5 DEF Bind, LoginInv, LoginStages
  <2>2. CASE accepted' = accepted \union {user[t]} /\ To(t, "unbind")
    BY <2>1, <2>2, LoginMoves
  <2>3. CASE accepted' = accepted /\ To(t, "answered")
    BY <2>1, <2>3, LoginLeft DEF LoginStages
  <2> QED
    BY <1>5, <2>2, <2>3 DEF Bind, Answer
<1>6. ASSUME NEW t \in Threads, UnbindAfter(t) PROVE LoginInv'
  <2>1. /\ To(t, "add") /\ user' = user /\ accepted' = accepted
        /\ user[t] \in Users /\ user[t] \in accepted
    BY <1>6 DEF UnbindAfter, LoginInv, LoginStages
  <2> QED
    BY <2>1, LoginMoves
<1>7. ASSUME NEW t \in Threads, Add(t) PROVE LoginInv'
  <2>1. /\ To(t, "credentials") /\ user' = user /\ accepted' = accepted
        /\ user[t] \in Users /\ user[t] \in accepted
    BY <1>7 DEF Add, LoginInv, LoginStages
  <2> QED
    BY <2>1, LoginMoves
<1>8. ASSUME NEW t \in Threads, GetCredentials(t) PROVE LoginInv'
  <2>1. To(t, "answered") /\ user' = user /\ accepted' = accepted
    BY <1>8 DEF GetCredentials, Answer
  <2> QED
    BY <2>1, LoginLeft DEF LoginStages
<1>9. ASSUME NEW t \in Threads, NEW tok \in tokens, Authorize(t, tok)
      PROVE  LoginInv'
  <2>1. /\ To(t, "authorized") \/ To(t, "answered")
        /\ accepted' = accepted
        /\ \A r \in Threads : r # t => user'[r] = user[r]
    BY <1>0, <1>9 DEF Authorize, Answer
  <2> QED
    BY <2>1, LoginLeft DEF LoginStages
<1>10. ASSUME NEW t \in Threads, Refuse(t) PROVE LoginInv'
  <2>1. To(t, "answered") /\ user' = user /\ accepted' = accepted
    BY <1>10 DEF Refuse, Answer
  <2> QED
    BY <2>1, LoginLeft DEF LoginStages
<1>11. ASSUME NEW t \in Threads, Process(t) PROVE LoginInv'
  <2>1. To(t, "answered") /\ user' = user /\ accepted' = accepted
    BY <1>11 DEF Process, Answer
  <2> QED
    BY <2>1, LoginLeft DEF LoginStages
<1>12. ASSUME NEW t \in Threads, Respond(t) PROVE LoginInv'
  <2>1. /\ To(t, "idle") /\ accepted' = accepted
        /\ \A r \in Threads : r # t => user'[r] = user[r]
    BY <1>0, <1>12 DEF Respond
  <2> QED
    BY <2>1, LoginLeft DEF LoginStages
<1>13. CASE Tick
  BY <1>13 DEF Tick, LoginInv
<1>14. CASE Restart
  BY <1>14 DEF Restart, LoginInv, LoginStages
<1>15. CASE UNCHANGED vars
  BY <1>15 DEF vars, LoginInv
<1> QED
  BY <1>1, <1>2, <1>3, <1>4, <1>5, <1>6, <1>7, <1>8, <1>9, <1>10, <1>11, <1>12,
     <1>13, <1>14, <1>15 DEF Next

LEMMA StepTokens ==
    ASSUME TypeOK, LoginInv, KeysInv, TokensInv, [Next]_vars
    PROVE  KeysInv' /\ TokensInv'
<1> USE DEF timeVars, requestVars, ldapVars, tokenVars
<1>1. ASSUME NEW t \in Threads,
             \/ \E u \in Users : Login(t, u)
             \/ InitializeUnbind(t) \/ Initialize(t) \/ BindBegin(t) \/ Bind(t)
             \/ UnbindAfter(t)
             \/ \E tok \in tokens : Authorize(t, tok)
             \/ Refuse(t) \/ Process(t) \/ Respond(t)
      PROVE  KeysInv' /\ TokensInv'
  <2>1. /\ UNCHANGED <<key, run, userKeys, tokens>>
        /\ accepted \subseteq accepted'
    BY <1>1 DEF Login, InitializeUnbind, Initialize, BindBegin, Bind,
                UnbindAfter, Authorize, Refuse, Process, Respond
  <2> QED
    BY <2>1, NothingOfTokens
<1>2. ASSUME NEW t \in Threads, Add(t) PROVE KeysInv' /\ TokensInv'
  <2> DEFINE c == CreateCredentials(user[t])
  <2>1. user[t] \in Users /\ user[t] \in accepted
    BY <1>2 DEF Add, LoginInv, LoginStages
  <2>2. /\ c # NoToken /\ c.user = user[t] /\ c.key = key /\ c.run = run
        /\ Dated(c)
    BY <2>1, CreatedToken
  <2>3. /\ UNCHANGED <<key, run, tokens, accepted, user>>
        /\ userKeys' = [userKeys EXCEPT ![user[t]] = c]
    BY <1>2 DEF Add
  <2>4. userKeys \in [Users -> Token \union {NoToken}]
    BY DEF TypeOK
  <2> HIDE DEF c
  <2>5. \A u \in Users : userKeys'[u] = IF u = user[t] THEN c ELSE userKeys[u]
    BY <2>1, <2>3, <2>4
  <2>6. KeysInv'
    BY <2>1, <2>2, <2>3, <2>5 DEF KeysInv, Dated
  <2>7. \A tok \in tokens : tok.user \in Users
    BY DEF TypeOK, Token
  <2>8. TokensInv'
    BY <2>2, <2>3, <2>5, <2>7 DEF TokensInv, Dated
  <2> QED
    BY <2>6, <2>8
<1>3. ASSUME NEW t \in Threads, GetCredentials(t) PROVE KeysInv' /\ TokensInv'
  <2>1. user[t] \in Users
    BY <1>3 DEF GetCredentials, LoginInv, LoginStages
  <2>2. CASE userKeys[user[t]] = NoToken
    BY <1>3, <2>2, NothingOfTokens DEF GetCredentials
  <2>3. CASE userKeys[user[t]] # NoToken
    <3> DEFINE c == userKeys[user[t]]
    <3>1. /\ tokens' = tokens \union {c}
          /\ UNCHANGED <<key, run, userKeys, accepted>>
      BY <1>3, <2>3 DEF GetCredentials
    <3>2. /\ c.user = user[t] /\ c.key = key /\ c.run = run /\ Dated(c)
          /\ userKeys[c.user] # NoToken
      BY <2>1, <2>3 DEF KeysInv
    <3>3. KeysInv'
      BY <3>1 DEF KeysInv, Dated
    <3>4. run \in Nat
      BY DEF TypeOK
    <3> HIDE DEF c
    <3>5. TokensInv'
      BY <3>1, <3>2, <3>4 DEF TokensInv, Dated
    <3> QED
      BY <3>3, <3>5
  <2> QED
    BY <2>2, <2>3
<1>4. CASE Tick
  BY <1>4, NothingOfTokens DEF Tick
<1>5. CASE Restart
  <2>1. KeysInv'
    BY <1>5 DEF Restart, KeysInv
  <2>2. run \in Nat /\ \A tok \in tokens : tok.run \in Nat
    BY DEF TypeOK, Token
  <2>3. run' = run + 1 /\ tokens' = tokens
    BY <1>5 DEF Restart
  <2>4. TokensInv'
    BY <2>2, <2>3 DEF TokensInv, Dated
  <2> QED
    BY <2>1, <2>4
<1>6. CASE UNCHANGED vars
  BY <1>6, NothingOfTokens DEF vars
<1> QED
  BY <1>1, <1>2, <1>3, <1>4, <1>5, <1>6 DEF Next

(* Every state of every behaviour satisfies AuthInv.                       *)
LEMMA Invariance == Spec => []AuthInv
<1>1. AuthInv /\ [Next]_vars => AuthInv'
  BY StepType, StepLogin, StepTokens DEF AuthInv
<1> QED
  BY InitInv, <1>1, PTL DEF Spec

-----------------------------------------------------------------------------
(***************************************************************************)
(* What follows from AuthInv.                                              *)
(***************************************************************************)
(* Every variable has values of its kind (TypeOK).                         *)
THEOREM TypeCorrect == Spec => []TypeOK
BY Invariance, PTL DEF AuthInv

(* A token of this run that is less than its life old is authorized: its   *)
(* user is in the map and it is verified, since the second it carries is   *)
(* at most half a second older than the instant it was made.               *)
LEMMA TokenIsGood == AuthInv => TokenWorks
<1> SUFFICES ASSUME AuthInv, NEW tok \in tokens, tok.run = run,
                    clock - tok.issued < 2 * (Expiration + Leeway)
             PROVE  Authorizes(tok)
  BY DEF TokenWorks
<1>1. Dated(tok) /\ tok.key = key /\ userKeys[tok.user] # NoToken
  BY DEF AuthInv, TokensInv
<1>2. clock \in Nat /\ tok.iat \in Nat /\ tok.issued \in Nat
  BY DEF AuthInv, TypeOK, Token
<1>3. clock <= 2 * (tok.iat + Expiration + Leeway)
  BY <1>1, <1>2, TimesAssumption DEF Dated
<1> QED
  BY <1>1, <1>3 DEF Authorizes, Verified

(* A token that a client was given works until it expires or the process   *)
(* restarts (TokenWorks), whatever the other logins.                       *)
THEOREM TokenWorksHolds == Spec => []TokenWorks
BY Invariance, TokenIsGood, PTL

(* A step that authorizes somebody is a step of Authorize, which finds the *)
(* user in the map, so that LDAP has accepted this user, and a token that  *)
(* is not too old.                                                         *)
LEMMA AuthorizingStep ==
    ASSUME AuthInv, [Next]_vars, NEW t \in Threads,
           at[t] = "idle", at'[t] = "authorized"
    PROVE  /\ user'[t] \in accepted
           /\ \E tok \in tokens :
                /\ tok.user = user'[t]
                /\ clock - tok.issued <= 2 * (Expiration + Leeway)
<1> USE DEF timeVars, requestVars, ldapVars, tokenVars
<1>0. /\ at \in [Threads -> Stages]
      /\ user \in [Threads -> Users \union {None}]
  BY DEF AuthInv, TypeOK
<1>1. \A s : To(t, s) => s = "authorized"
  BY <1>0 DEF To
<1>2. \A r \in Threads : r # t => \A s : ~To(r, s)
  BY <1>0 DEF To
<1>3. PICK tok \in tokens : Authorize(t, tok)
  <2>1. ASSUME NEW r \in Threads,
               \/ \E u \in Users : Login(r, u)
               \/ InitializeUnbind(r) \/ Initialize(r) \/ BindBegin(r)
               \/ Bind(r) \/ UnbindAfter(r) \/ Add(r) \/ GetCredentials(r)
               \/ Refuse(r) \/ Process(r) \/ Respond(r)
        PROVE  FALSE
    <3>1. \E s : To(r, s) /\ s # "authorized"
      BY <2>1 DEF Login, InitializeUnbind, Initialize, BindBegin, Bind,
                  UnbindAfter, Add, GetCredentials, Refuse, Process, Respond,
                  Answer
    <3> QED
      BY <1>1, <1>2, <3>1
  <2>2. ASSUME NEW r \in Threads, NEW tok \in tokens, Authorize(r, tok)
        PROVE  r = t
    <3>1. \E s : To(r, s)
      BY <2>2 DEF Authorize, Answer
    <3> QED
      BY <1>2, <3>1
  <2>3. ~(Tick \/ UNCHANGED vars)
    BY DEF Tick, vars
  <2>4. ~Restart
    BY DEF Restart
  <2> QED
    BY <2>1, <2>2, <2>3, <2>4 DEF Next
<1>4. Authorizes(tok)
  BY <1>1, <1>3 DEF Authorize, Answer
<1>5. user'[t] = tok.user
  BY <1>0, <1>3, <1>4 DEF Authorize
<1>6. tok \in Token
  BY DEF AuthInv, TypeOK
<1>7. user'[t] \in accepted
  BY <1>4, <1>5, <1>6 DEF Authorizes, AuthInv, KeysInv, Token
<1>8. clock - tok.issued <= 2 * (Expiration + Leeway)
  <2>1. clock \in Nat /\ tok.iat \in Nat /\ tok.issued \in Nat
    BY <1>6 DEF AuthInv, TypeOK, Token
  <2>2. 2 * tok.iat <= tok.issued
    BY DEF AuthInv, TokensInv, Dated
  <2>3. clock <= 2 * (tok.iat + Expiration + Leeway)
    BY <1>4 DEF Authorizes, Verified
  <2> QED
    BY <2>1, <2>2, <2>3, TimesAssumption
<1> QED
  BY <1>5, <1>7, <1>8

(* Requests are authorized only for users whom LDAP has accepted since the *)
(* process started, with a token that is not too old (AuthorizedByLogin).  *)
THEOREM AuthorizedByLoginHolds == Spec => AuthorizedByLogin
<1>1. AuthInv /\ [Next]_vars =>
        [\A t \in Threads :
            at[t] = "idle" /\ at'[t] = "authorized" =>
              /\ user'[t] \in accepted
              /\ \E tok \in tokens :
                  /\ tok.user = user'[t]
                  /\ clock - tok.issued <= 2 * (Expiration + Leeway)]_vars
  BY AuthorizingStep
<1> QED
  BY <1>1, Invariance, PTL DEF Spec, AuthorizedByLogin

-----------------------------------------------------------------------------
(***************************************************************************)
(* The LDAP handle.                                                        *)
(***************************************************************************)
(* While logins do not overlap there is one thread that logs in; the       *)
(* handle is allocated exactly while it is bound, was not used after it    *)
(* was freed, and a bind that is under way was called with it.             *)
Alone ==
    \A s, t \in Threads :
        at[s] \in LoginStages /\ at[t] \in LoginStages => s = t
HandleInv ==
    ~overlapped =>
        /\ ~misused
        /\ open = (IF bound THEN {handle} ELSE {})
        /\ Alone
        /\ \A t \in Threads :
            /\ at[t] = "binding" => bound /\ using[t] = handle
            /\ at[t] = "create" => ~bound

LEMMA InitHandle == Init => HandleInv
BY DEF Init, HandleInv, Alone, LoginStages

(* A request that moves on in its login, or leaves it, stays alone.        *)
LEMMA AloneMoves ==
    ASSUME TypeOK, Alone, NEW t \in Threads, NEW s, To(t, s),
           at[t] \in LoginStages \/ s \notin LoginStages
    PROVE  Alone'
<1>1. at \in [Threads -> Stages]
  BY DEF TypeOK
<1>2. \A r \in Threads : at'[r] = IF r = t THEN s ELSE at[r]
  BY <1>1 DEF To
<1> QED
  BY <1>2 DEF Alone, LoginStages

(* A step that leaves LDAP alone and begins no login keeps HandleInv.      *)
LEMMA HandleUntouched ==
    ASSUME TypeOK, HandleInv, NEW t \in Threads, NEW s, To(t, s),
           UNCHANGED ldapVars, at[t] \in LoginStages \/ s \notin LoginStages,
           s \notin {"binding", "create"}
    PROVE  HandleInv'
<1> SUFFICES ASSUME ~overlapped'
             PROVE  HandleInv'
  BY DEF HandleInv
<1>1. at \in [Threads -> Stages]
  BY DEF TypeOK
<1>2. \A r \in Threads : at'[r] = IF r = t THEN s ELSE at[r]
  BY <1>1 DEF To
<1>3. /\ bound' = bound /\ open' = open /\ handle' = handle /\ using' = using
      /\ misused' = misused /\ ~overlapped
  BY DEF ldapVars
<1>4. Alone'
  BY <1>3, AloneMoves DEF HandleInv
<1>5. ~misused /\ open = (IF bound THEN {handle} ELSE {})
  BY <1>3 DEF HandleInv
<1>6. \A r \in Threads :
        /\ at'[r] = "binding" => bound /\ using[r] = handle
        /\ at'[r] = "create" => ~bound
  BY <1>2, <1>3 DEF HandleInv
<1> QED
  BY <1>3, <1>4, <1>5, <1>6 DEF HandleInv

(* Whoever is in a stage of the login is the only one while no logins      *)
(* overlap, so what it does with the handle nobody else sees.              *)
LEMMA OnlyOne ==
    ASSUME TypeOK, Alone, NEW t \in Threads, NEW s, To(t, s),
           at[t] \in LoginStages, NEW r \in Threads,
           at'[r] \in {"binding", "create"}
    PROVE  r = t /\ at'[r] = s
<1>1. at \in [Threads -> Stages]
  BY DEF TypeOK
<1>2. at'[r] = IF r = t THEN s ELSE at[r]
  BY <1>1 DEF To
<1> QED
  BY <1>2 DEF Alone, LoginStages

LEMMA StepHandle ==
    ASSUME TypeOK, HandleInv, [Next]_vars
    PROVE  HandleInv'
<1> USE DEF timeVars, requestVars, ldapVars, tokenVars
<1>0. /\ at \in [Threads -> Stages]
      /\ using \in [Threads -> Handles \union {None}]
  BY DEF TypeOK
<1>1. ASSUME NEW t \in Threads, NEW u \in Users, Login(t, u) PROVE HandleInv'
  <2> SUFFICES ASSUME ~overlapped' PROVE HandleInv'
    BY DEF HandleInv
  <2>1. /\ UNCHANGED <<handle, bound, open, using, misused>>
        /\ To(t, "initialize")
    BY <1>1 DEF Login
  <2>2. ~overlapped /\ \A s \in Threads : at[s] \notin LoginStages
    BY <1>1, Zenon DEF Login
  <2>3. \A r \in Threads : at'[r] = IF r = t THEN "initialize" ELSE at[r]
    BY <1>0, <2>1 DEF To
  <2>4. Alone'
    BY <2>2, <2>3 DEF Alone
  <2>5. ~misused /\ open = (IF bound THEN {handle} ELSE {})
    BY <2>2 DEF HandleInv
  <2>6. \A r \in Threads : at'[r] \notin {"binding", "create"}
    BY <2>2, <2>3 DEF LoginStages
  <2> QED
    BY <2>1, <2>2, <2>4, <2>5, <2>6 DEF HandleInv
<1>2. ASSUME NEW t \in Threads, InitializeUnbind(t) PROVE HandleInv'
  <2> SUFFICES ASSUME ~overlapped' PROVE HandleInv'
    BY DEF HandleInv
  <2>1. /\ ~overlapped /\ To(t, "create") /\ at[t] \in LoginStages
        /\ handle' = handle /\ Unbind
    BY <1>2 DEF InitializeUnbind, LoginStages
  <2>2. /\ ~misused /\ Alone
        /\ open = (IF bound THEN {handle} ELSE {})
    BY <2>1 DEF HandleInv
  <2>3. ~misused' /\ ~bound' /\ open' = {}
    BY <2>1, <2>2 DEF Unbind
  <2>4. Alone'
    BY <2>1, <2>2, AloneMoves
  <2>5. \A r \in Threads : at'[r] # "binding"
    BY <2>1, <2>2, OnlyOne
  <2> QED
    BY <2>1, <2>3, <2>4, <2>5 DEF HandleInv
<1>3. ASSUME NEW t \in Threads, Initialize(t) PROVE HandleInv'
  <2> SUFFICES ASSUME ~overlapped' PROVE HandleInv'
    BY DEF HandleInv
  <2>1. /\ ~overlapped /\ To(t, "bind") /\ at[t] \in LoginStages
        /\ at[t] = "create" /\ misused' = misused
    BY <1>3 DEF Initialize, LoginStages
  <2>2. ~misused /\ Alone /\ ~bound /\ open = {}
    BY <2>1 DEF HandleInv
  <2>3. open' = (IF bound' THEN {handle'} ELSE {})
    BY <1>3, <2>2 DEF Initialize
  <2>4. Alone'
    BY <2>1, <2>2, AloneMoves
  <2>5. \A r \in Threads : at'[r] \notin {"binding", "create"}
    BY <2>1, <2>2, OnlyOne
  <2> QED
    BY <2>1, <2>2, <2>3, <2>4, <2>5 DEF HandleInv
<1>4. ASSUME NEW t \in Threads, BindBegin(t) PROVE HandleInv'
  <2> SUFFICES ASSUME ~overlapped' PROVE HandleInv'
    BY DEF HandleInv
  <2>1. /\ ~overlapped /\ at[t] \in LoginStages
        /\ UNCHANGED <<handle, bound, open, misused>>
    BY <1>4 DEF BindBegin, LoginStages
  <2>2. /\ ~misused /\ Alone
        /\ open = (IF bound THEN {handle} ELSE {})
    BY <2>1 DEF HandleInv
  <2>3. CASE bound
    <3>1. To(t, "binding") /\ using'[t] = handle
      BY <1>0, <1>4, <2>3 DEF BindBegin
    <3>2. Alone'
      BY <2>1, <2>2, <3>1, AloneMoves
    <3>3. \A r \in Threads : at'[r] \in {"binding", "create"} =>
                                r = t /\ at'[r] = "binding"
      BY <2>1, <2>2, <3>1, OnlyOne
    <3> QED
      BY <2>1, <2>2, <2>3, <3>1, <3>2, <3>3 DEF HandleInv
  <2>4. CASE ~bound
    <3>1. To(t, "answered")
      BY <1>4, <2>4 DEF BindBegin, Answer
    <3>2. Alone'
      BY <2>1, <2>2, <3>1, AloneMoves
    <3>3. \A r \in Threads : at'[r] \notin {"binding", "create"}
      BY <2>1, <2>2, <3>1, OnlyOne
    <3> QED
      BY <2>1, <2>2, <3>2, <3>3 DEF HandleInv
  <2> QED
    BY <2>3, <2>4
<1>5. ASSUME NEW t \in Threads, Bind(t) PROVE HandleInv'
  <2> SUFFICES ASSUME ~overlapped' PROVE HandleInv'
    BY DEF HandleInv
  <2>1. /\ ~overlapped /\ at[t] \in LoginStages /\ at[t] = "binding"
        /\ UNCHANGED <<handle, bound, open>>
    BY <1>5 DEF Bind, LoginStages
  <2>2. /\ ~misused /\ Alone /\ bound /\ using[t] = handle
        /\ open = {handle}
    BY <2>1 DEF HandleInv
  <2>3. ~misused'
    BY <1>5, <2>2 DEF Bind
  <2>4. PICK s \in {"unbind", "answered"} : To(t, s)
    BY <1>5 DEF Bind, Answer
  <2>5. Alone'
    BY <2>1, <2>2, <2>4, AloneMoves
  <2>6. \A r \in Threads : at'[r] \notin {"binding", "create"}
    BY <2>1, <2>2, <2>4, OnlyOne
  <2> QED
    BY <2>1, <2>2, <2>3, <2>5, <2>6 DEF HandleInv
<1>6. ASSUME NEW t \in Threads, UnbindAfter(t) PROVE HandleInv'
  <2> SUFFICES ASSUME ~overlapped' PROVE HandleInv'
    BY DEF HandleInv
  <2>1. /\ ~overlapped /\ To(t, "add") /\ at[t] \in LoginStages
        /\ handle' = handle /\ Unbind
    BY <1>6 DEF UnbindAfter, LoginStages
  <2>2. /\ ~misused /\ Alone
        /\ open = (IF bound THEN {handle} ELSE {})
    BY <2>1 DEF HandleInv
  <2>3. ~misused' /\ ~bound' /\ open' = {}
    BY <2>1, <2>2 DEF Unbind
  <2>4. Alone'
    BY <2>1, <2>2, AloneMoves
  <2>5. \A r \in Threads : at'[r] \notin {"binding", "create"}
    BY <2>1, <2>2, OnlyOne
  <2> QED
    BY <2>1, <2>3, <2>4, <2>5 DEF HandleInv
<1>7. ASSUME NEW t \in Threads, Add(t) PROVE HandleInv'
  BY <1>7, HandleUntouched DEF Add, LoginStages
<1>8. ASSUME NEW t \in Threads,
             \/ GetCredentials(t) \/ Refuse(t) \/ Process(t) \/ Respond(t)
             \/ \E tok \in tokens : Authorize(t, tok)
      PROVE  HandleInv'
  <2>1. /\ UNCHANGED ldapVars
        /\ \E s \in {"answered", "authorized", "idle"} : To(t, s)
    BY <1>8 DEF GetCredentials, Refuse, Process, Respond, Authorize, Answer
  <2> QED
    BY <2>1, HandleUntouched DEF LoginStages
<1>9. CASE Tick
  BY <1>9 DEF Tick, HandleInv, Alone
<1>10. CASE Restart
  BY <1>10 DEF Restart, HandleInv, Alone, LoginStages
<1>11. CASE UNCHANGED vars
  BY <1>11 DEF vars, HandleInv, Alone
<1> QED
  BY <1>1, <1>2, <1>3, <1>4, <1>5, <1>6, <1>7, <1>8, <1>9, <1>10, <1>11
     DEF Next

(* As long as logins do not overlap the LDAP handle is freed exactly once  *)
(* and not used afterwards (HandleIsSound).                                *)
THEOREM HandleIsSoundHolds == Spec => []HandleIsSound
<1>1. HandleInv => HandleIsSound
  BY DEF HandleInv, HandleIsSound
<1>2. TypeOK /\ HandleInv /\ [Next]_vars => HandleInv'
  BY StepHandle
<1> QED
  BY <1>1, <1>2, InitHandle, TypeCorrect, PTL DEF Spec
=============================================================================
