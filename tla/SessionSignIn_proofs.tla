------------------------ MODULE SessionSignIn_proofs ------------------------
(***************************************************************************)
(* Whose session a client uses, saves and repeats a request with, for any  *)
(* number of concurrent requests, accounts and configurations.             *)
(***************************************************************************)
EXTENDS SessionSignIn, TLAPS

SigningIn == {"posting", "works", "refused", "fails"}

(* A call that got a session got it for the configured key. *)
SessionsAreOfThisKey ==
  /\ signingIn # NoCaller => config.key # NoKey
  /\ \A c \in Callers : pc[c] \in {"works", "save", "saveUnused"} =>
       config.key \in Accounts /\ issued[c] \in {config.key} \X Serials

(* The file has a session of the key it names. *)
FileIsOfItsKey == file # NoFile => file.cookie \in {file.key} \X Serials

(* A new session is not one that any request was refused with. *)
NewIsUnused ==
  \A c \in Callers : pc[c] = "works" =>
    issued[c] # cookie /\ \A d \in Callers : issued[c] # sent[d]

(* A session is saved before the next sign-in may begin. *)
SavesInTime ==
  \A c \in Callers : pc[c] = "save" =>
    issued[c] = cookie /\ signingIn = NoCaller /\ sinceSignIn < RetryInterval

(* Who saves what the client does not use has given up. *)
UnusedIsAbandoned == \A c \in Callers : pc[c] = "saveUnused" => gone[c]

(* A request is repeated with what it was not refused with. *)
RepeatsWithAnother ==
  \A c \in Callers : pc[c] = "save" \/ (pc[c] = "request" /\ stage[c] = "renewed" /\ ~gone[c])
    => cookie # sent[c]

SessionInv ==
  /\ TypeOK /\ SessionIsOfThisAccount /\ SessionsAreOfThisKey /\ FileIsOfItsKey
  /\ NewIsUnused /\ SavesInTime /\ UnusedIsAbandoned /\ RepeatsWithAnother

USE NoCallerAssumption, IntervalAssumption, FileAssumption, SerialAssumption, ConfigAssumption

(* What a cookie is, and that a session that was issued is not none. *)
LEMMA CookieFacts ==
  /\ NoCookie \in SomeCookie
  /\ \A k \in Accounts, n \in Serials : <<k, n>> \in SomeCookie
  /\ \A k : \A x \in {k} \X Serials : x[1] = k /\ x # NoCookie
  /\ \A k \in Accounts : \A x \in {k} \X Serials : x \in SomeCookie /\ x \in Accounts \X Serials
  /\ \A k \in Configs : /\ k.key \in Accounts \cup {NoKey}
                        /\ k.cookie \in SomeCookie
BY DEF NoCookie, SomeCookie, SomeConfig, Browser

(* A client starts with what it is configured with. *)
LEMMA InitEstablishes == Init => SessionInv
<1> SUFFICES ASSUME Init
             PROVE  SessionInv
  OBVIOUS
<1> USE CookieFacts DEF Init
<1>1. accepted \subseteq SomeCookie \ {NoCookie}
  OBVIOUS
<1>2. config \in Configs /\ cookie \in SomeCookie /\ file = NoFile
  OBVIOUS
<1>3. /\ pc \in [Callers -> Places] /\ stage \in [Callers -> {"before", "first", "renewed"}]
      /\ gone \in [Callers -> BOOLEAN]
      /\ sent \in [Callers -> SomeCookie] /\ issued \in [Callers -> SomeCookie]
  BY DEF Places
<1>4. \A c \in Callers : signingIn # c /\ pc[c] = "idle"
  OBVIOUS
<1>5. sinceSignIn \in 0..RetryInterval
  OBVIOUS
<1>6. TypeOK
  BY <1>1, <1>2, <1>3, <1>4, <1>5 DEF TypeOK
<1>7. QED
  BY <1>6 DEF SessionInv, SessionIsOfThisAccount, SessionsAreOfThisKey, FileIsOfItsKey,
       NewIsUnused, SavesInTime, UnusedIsAbandoned, RepeatsWithAnother

(* A call that neither signs in nor saves, before and after, moves on with *)
(* what it knows: with the cookie of the moment, or none.                  *)
LEMMA CallMoves ==
  ASSUME SessionInv, NEW c \in Callers, UNCHANGED <<archiveVars, clientVars, file>>,
         pc[c] \notin SigningIn,
         NEW place \in Places \ (SigningIn \cup {"save", "saveUnused"}), pc' = [pc EXCEPT ![c] = place],
         NEW at \in {"before", "first", "renewed"}, stage' = [stage EXCEPT ![c] = at],
         NEW over \in BOOLEAN, gone' = [gone EXCEPT ![c] = over],
         NEW with \in {sent[c], cookie, NoCookie}, sent' = [sent EXCEPT ![c] = with],
         NEW got \in {issued[c], NoCookie}, issued' = [issued EXCEPT ![c] = got],
         place = "request" /\ at = "renewed" /\ ~over => cookie # with
  PROVE  SessionInv'
<1> USE CookieFacts DEF SessionInv, archiveVars, clientVars
<1>1. TypeOK'
  BY DEF TypeOK, Places, SigningIn
<1>2. (SessionIsOfThisAccount /\ SessionsAreOfThisKey /\ FileIsOfItsKey)'
  BY DEF SessionIsOfThisAccount, SessionsAreOfThisKey, FileIsOfItsKey, TypeOK, SigningIn
<1>3. NewIsUnused'
  BY DEF NewIsUnused, SessionsAreOfThisKey, TypeOK, SigningIn
<1>4. SavesInTime' /\ UnusedIsAbandoned'
  BY DEF SavesInTime, UnusedIsAbandoned, TypeOK
<1>5. RepeatsWithAnother'
  BY DEF RepeatsWithAnother, TypeOK
<1>6. QED
  BY <1>1, <1>2, <1>3, <1>4, <1>5

(* A call that returns forgets everything. *)
LEMMA ReturnKeeps ==
  ASSUME SessionInv, NEW c \in Callers, pc[c] \notin SigningIn, Return(c),
         UNCHANGED <<archiveVars, clientVars, file>>
  PROVE  SessionInv'
<1>1. "idle" \in Places \ (SigningIn \cup {"save", "saveUnused"})
  BY DEF Places, SigningIn
<1>2. QED
  BY <1>1, CallMoves DEF Return, Goto

(* Requests, and the ends of signIn that sign nobody in. *)
LEMMA CallsKeep ==
  ASSUME SessionInv, NEW c \in Callers,
         \/ Call(c) \/ Request(c) \/ Served(c) \/ Forbidden(c) \/ WithoutKey(c)
         \/ AlreadyReplaced(c) \/ AwaitSignIn(c) \/ TooSoon(c) \/ StopWaiting(c)
  PROVE  SessionInv'
<1> DEFINE Same == UNCHANGED <<archiveVars, clientVars, file>>
<1>1. Same /\ pc[c] \notin SigningIn
  BY DEF Call, Request, Served, Forbidden, WithoutKey, AlreadyReplaced, AwaitSignIn, TooSoon,
     StopWaiting, SigningIn
<1>2. CASE Return(c)
  BY <1>1, <1>2, ReturnKeeps
<1>3. CASE ~Return(c)
  <2>1. PICK place \in {"request", "sent", "signIn", "waiting"} : pc' = [pc EXCEPT ![c] = place]
    BY <1>3 DEF Call, Request, Served, Forbidden, WithoutKey, AlreadyReplaced, AwaitSignIn, TooSoon,
       StopWaiting, Unrenewed, Goto
  <2>2. PICK at \in {"before", "first", "renewed"} : stage' = [stage EXCEPT ![c] = at]
    BY <1>3 DEF Call, Request, Served, Forbidden, WithoutKey, AlreadyReplaced, AwaitSignIn, TooSoon,
       StopWaiting, Unrenewed, Goto, Retried, SessionInv, TypeOK
  <2>3. PICK with \in {sent[c], cookie} : sent' = [sent EXCEPT ![c] = with]
    BY <1>3 DEF Call, Request, Served, Forbidden, WithoutKey, AlreadyReplaced, AwaitSignIn, TooSoon,
       StopWaiting, Unrenewed, SessionInv, TypeOK
  <2>4. UNCHANGED <<gone, issued>>
    BY <1>3 DEF Call, Request, Served, Forbidden, WithoutKey, AlreadyReplaced, AwaitSignIn, TooSoon,
       StopWaiting, Unrenewed
  <2>5. ASSUME place = "request", at = "renewed" PROVE cookie # with
    BY <1>3, <2>1, <2>2, <2>3, <2>5 DEF Call, Request, Served, Forbidden, WithoutKey, AlreadyReplaced,
       AwaitSignIn, TooSoon, StopWaiting, Unrenewed, Goto, SessionInv, TypeOK
  <2>6. place \in Places \ (SigningIn \cup {"save", "saveUnused"})
    BY DEF Places, SigningIn
  <2>7. gone[c] \in BOOLEAN /\ gone' = [gone EXCEPT ![c] = gone[c]] /\ issued' = [issued EXCEPT ![c] = issued[c]]
    BY <2>4 DEF SessionInv, TypeOK
  <2>8. QED
    BY <1>1, <2>1, <2>2, <2>3, <2>5, <2>6, <2>7, CallMoves
<1>4. QED
  BY <1>2, <1>3

(* A call begins to sign in when no other does, and none saves. *)
LEMMA LeadKeeps == ASSUME SessionInv, NEW c \in Callers, LeadSignIn(c) PROVE SessionInv'
<1> USE DEF SessionInv, LeadSignIn, Goto, archiveVars
<1>1. TypeOK'
  BY DEF TypeOK, Places, SigningIn
<1>2. (SessionIsOfThisAccount /\ FileIsOfItsKey)'
  BY DEF SessionIsOfThisAccount, FileIsOfItsKey
<1>3. SessionsAreOfThisKey'
  BY DEF SessionsAreOfThisKey, TypeOK
<1>4. \A d \in Callers : pc[d] # "save"
  BY DEF SavesInTime
<1>5. (NewIsUnused /\ SavesInTime /\ UnusedIsAbandoned /\ RepeatsWithAnother)'
  BY <1>4 DEF NewIsUnused, SavesInTime, UnusedIsAbandoned, RepeatsWithAnother, TypeOK
<1>6. QED
  BY <1>1, <1>2, <1>3, <1>5

(* The new session is one that nothing refers to. *)
LEMMA WorksKeeps == ASSUME SessionInv, NEW c \in Callers, SignInWorks(c) PROVE SessionInv'
<1> USE DEF SessionInv
<1> DEFINE new == <<config.key, CHOOSE n \in Unused : TRUE>>
<1>1. /\ issued' = [issued EXCEPT ![c] = new] /\ pc' = [pc EXCEPT ![c] = "works"]
      /\ accepted' = (accepted \cap InUse) \cup {new}
      /\ pc[c] = "posting"
      /\ UNCHANGED <<config, steady, clientVars, file, stage, gone, sent>>
  BY DEF SignInWorks, Goto
<1>2. new \notin InUse /\ new \in {config.key} \X Serials
  BY DEF SignInWorks, Unused
<1>3. config.key \in Accounts
  BY <1>1, CookieFacts DEF TypeOK, SessionsAreOfThisKey
<1>4. new \in SomeCookie /\ new # NoCookie
  BY <1>2, <1>3, CookieFacts
<1> HIDE DEF new
<1>5. TypeOK'
  BY <1>1, <1>4 DEF TypeOK, Places, clientVars
<1>6. (SessionIsOfThisAccount /\ FileIsOfItsKey)'
  BY <1>1 DEF SessionIsOfThisAccount, FileIsOfItsKey, clientVars
<1>7. SessionsAreOfThisKey'
  BY <1>1, <1>2, <1>3 DEF SessionsAreOfThisKey, TypeOK, clientVars
<1>8. new # cookie /\ \A d \in Callers : new # sent[d]
  BY <1>2 DEF InUse
<1>9. NewIsUnused'
  BY <1>1, <1>8 DEF NewIsUnused, TypeOK, clientVars
<1>10. (SavesInTime /\ UnusedIsAbandoned /\ RepeatsWithAnother)'
  BY <1>1 DEF SavesInTime, UnusedIsAbandoned, RepeatsWithAnother, TypeOK, clientVars
<1>11. QED
  BY <1>5, <1>6, <1>7, <1>9, <1>10

(* A sign-in that fails gives nothing. *)
LEMMA FailsKeeps == ASSUME SessionInv, NEW c \in Callers, SignInFails(c) PROVE SessionInv'
<1> USE DEF SessionInv
<1>1. PICK how \in {"refused", "fails"} : pc' = [pc EXCEPT ![c] = how]
  BY DEF SignInFails, Goto
<1>2. /\ pc[c] = "posting"
      /\ UNCHANGED <<config, steady, accepted, cookie, signingIn, sinceSignIn, signInErr, file,
                     stage, gone, sent, issued>>
  BY DEF SignInFails, archiveVars, clientVars
<1>3. TypeOK'
  BY <1>1, <1>2 DEF TypeOK, Places
<1>4. QED
  BY <1>1, <1>2, <1>3 DEF TypeOK, SessionIsOfThisAccount, SessionsAreOfThisKey, FileIsOfItsKey,
    NewIsUnused, SavesInTime, UnusedIsAbandoned, RepeatsWithAnother

(* The new session replaces one that no request can have after it. *)
LEMMA EndKeeps == ASSUME SessionInv, NEW c \in Callers, EndSignIn(c) PROVE SessionInv'
<1> USE DEF SessionInv
<1>1. /\ signingIn = c /\ signingIn' = NoCaller /\ UNCHANGED <<config, steady, accepted, file>>
      /\ \A d \in Callers \ {c} : pc[d] \notin SigningIn
      /\ pc[c] \in {"works", "refused", "fails"}
  BY DEF EndSignIn, archiveVars, TypeOK, SigningIn
<1>2. \A d \in Callers : pc[d] # "save"
  BY <1>1 DEF SavesInTime
<1>3. Retried(c) \in {"before", "first", "renewed"}
  BY DEF Retried
<1>4. PICK next \in {"request", "save", "saveUnused", "idle"},
           at \in {"before", "first", "renewed"}, over \in BOOLEAN, with \in {sent[c], NoCookie} :
        /\ pc' = Released(c, next)
        /\ stage' = [stage EXCEPT ![c] = at] /\ gone' = [gone EXCEPT ![c] = over]
        /\ sent' = [sent EXCEPT ![c] = with] /\ UNCHANGED issued
        /\ next \in {"request", "saveUnused"} => over
        /\ next \in {"save", "saveUnused"} => pc[c] = "works"
        /\ next = "save" => with = sent[c] /\ cookie' = issued[c] /\ sinceSignIn' = 0
  <2>1. CASE EndInTime(c) /\ pc[c] = "works"
    <3>1. /\ pc' = Released(c, "save") /\ UNCHANGED <<stage, gone, sent, issued>>
          /\ cookie' = issued[c] /\ sinceSignIn' = 0
      BY <2>1 DEF EndInTime
    <3>2. /\ stage' = [stage EXCEPT ![c] = stage[c]] /\ gone' = [gone EXCEPT ![c] = gone[c]]
          /\ sent' = [sent EXCEPT ![c] = sent[c]]
          /\ stage[c] \in {"before", "first", "renewed"} /\ gone[c] \in BOOLEAN
      BY <3>1 DEF TypeOK
    <3>3. QED
      BY <2>1, <3>1, <3>2
  <2>2. CASE EndInTime(c) /\ pc[c] # "works"
    <3>1. /\ pc' = Released(c, "idle") /\ stage' = [stage EXCEPT ![c] = "first"]
          /\ sent' = [sent EXCEPT ![c] = NoCookie] /\ UNCHANGED <<gone, issued>>
      BY <2>2 DEF EndInTime
    <3>2. gone' = [gone EXCEPT ![c] = gone[c]] /\ gone[c] \in BOOLEAN
      BY <3>1 DEF TypeOK
    <3>3. QED
      BY <3>1, <3>2
  <2>3. CASE EndTooLate(c) /\ pc[c] = "works"
    <3>1. /\ pc' = Released(c, "request") /\ stage' = [stage EXCEPT ![c] = Retried(c)]
          /\ gone[c] /\ UNCHANGED <<gone, sent, issued>>
      BY <2>3 DEF EndTooLate
    <3>2. /\ gone' = [gone EXCEPT ![c] = TRUE] /\ sent' = [sent EXCEPT ![c] = sent[c]]
      BY <3>1 DEF TypeOK
    <3>3. QED
      BY <1>3, <3>1, <3>2
  <2>4. CASE EndTooLate(c) /\ pc[c] # "works"
    <3>1. /\ pc' = Released(c, "idle") /\ stage' = [stage EXCEPT ![c] = "first"]
          /\ gone' = [gone EXCEPT ![c] = FALSE]
          /\ sent' = [sent EXCEPT ![c] = NoCookie] /\ UNCHANGED issued
      BY <2>4 DEF EndTooLate
    <3>2. QED
      BY <3>1
  <2>5. CASE EndBetween(c)
    <3>1. /\ pc' = Released(c, "saveUnused") /\ gone' = [gone EXCEPT ![c] = TRUE]
          /\ pc[c] = "works" /\ UNCHANGED <<stage, sent, issued>>
      BY <2>5 DEF EndBetween
    <3>2. /\ stage' = [stage EXCEPT ![c] = stage[c]] /\ sent' = [sent EXCEPT ![c] = sent[c]]
          /\ stage[c] \in {"before", "first", "renewed"}
      BY <3>1 DEF TypeOK
    <3>3. QED
      BY <3>1, <3>2
  <2>6. QED
    BY <2>1, <2>2, <2>3, <2>4, <2>5 DEF EndSignIn
<1>5. cookie' = cookie \/ (pc[c] = "works" /\ cookie' = issued[c])
  BY DEF EndSignIn, EndInTime, EndTooLate, EndBetween
<1>6. /\ pc' \in [Callers -> Places \ SigningIn] /\ pc'[c] = next
      /\ \A d \in Callers \ {c} : pc'[d] = IF pc[d] = "waiting" THEN "signIn" ELSE pc[d]
      /\ \A d \in Callers \ {c} : stage'[d] = stage[d] /\ gone'[d] = gone[d] /\ sent'[d] = sent[d]
      /\ gone'[c] = over /\ sent'[c] = with
  BY <1>1, <1>4 DEF Released, TypeOK, Places, SigningIn
<1>7. TypeOK'
  <2>1. sinceSignIn' \in 0..RetryInterval /\ signInErr' \in BOOLEAN
    <3>1. CASE UNCHANGED <<sinceSignIn, signInErr>>
      BY <3>1 DEF TypeOK
    <3>2. CASE sinceSignIn' = 0 /\ signInErr' = (pc[c] = "refused")
      BY <3>2
    <3>3. QED
      BY <3>1, <3>2 DEF EndSignIn, EndInTime, EndTooLate, EndBetween
  <2>2. /\ stage' \in [Callers -> {"before", "first", "renewed"}]
        /\ gone' \in [Callers -> BOOLEAN] /\ sent' \in [Callers -> SomeCookie]
    BY <1>4, CookieFacts DEF TypeOK
  <2>3. QED
    BY <1>1, <1>4, <1>5, <1>6, <2>1, <2>2 DEF TypeOK, SigningIn
<1>8. SessionIsOfThisAccount'
  BY <1>1, <1>5, CookieFacts DEF SessionIsOfThisAccount, SessionsAreOfThisKey
<1>9. SessionsAreOfThisKey' /\ FileIsOfItsKey' /\ NewIsUnused' /\ UnusedIsAbandoned'
  BY <1>1, <1>4, <1>6 DEF SessionsAreOfThisKey, FileIsOfItsKey, NewIsUnused, UnusedIsAbandoned,
     SigningIn
<1>10. SavesInTime'
  BY <1>1, <1>2, <1>4, <1>6 DEF SavesInTime
<1>11. RepeatsWithAnother'
  <2>1. ASSUME NEW d \in Callers \ {c}, pc'[d] = "request", stage'[d] = "renewed", ~gone'[d]
        PROVE  cookie' # sent'[d]
    BY <1>1, <1>5, <1>6, <2>1 DEF RepeatsWithAnother, NewIsUnused
  <2>2. pc'[c] = "save" => cookie' # sent'[c]
    BY <1>4, <1>6 DEF NewIsUnused
  <2>3. pc'[c] = "request" => gone'[c]
    BY <1>4, <1>6
  <2>4. QED
    BY <1>2, <1>6, <2>1, <2>2, <2>3 DEF RepeatsWithAnother
<1>12. QED
  BY <1>7, <1>8, <1>9, <1>10, <1>11

(* What is saved is the session in use, unless the call gave up. *)
LEMMA SaveKeeps ==
  ASSUME SessionInv, NEW c \in Callers, Save(c)
  PROVE  /\ SessionInv'
         /\ file' # file => file'.cookie = cookie \/ (pc[c] = "saveUnused" /\ pc'[c] = "request")
<1> USE DEF SessionInv
<1>1. /\ pc[c] \in {"save", "saveUnused"} /\ pc' = [pc EXCEPT ![c] = "request"]
      /\ stage' = [stage EXCEPT ![c] = Retried(c)]
      /\ issued' = [issued EXCEPT ![c] = NoCookie]
      /\ UNCHANGED <<config, steady, accepted, cookie, signingIn, sinceSignIn, signInErr, gone, sent>>
  BY DEF Save, Goto, archiveVars, clientVars
<1>2. /\ config.key \in Accounts /\ issued[c] \in {config.key} \X Serials
      /\ pc[c] = "save" => issued[c] = cookie
      /\ pc[c] = "saveUnused" => gone[c]
  BY <1>1 DEF SessionsAreOfThisKey, SavesInTime, UnusedIsAbandoned
<1>3. \/ UNCHANGED file
      \/ file' = [key |-> config.key, cookie |-> issued[c], replaced |-> config.cookie]
  BY DEF Save
<1>4. TypeOK'
  <2>1. file' \in [key : Accounts, cookie : Accounts \X Serials, replaced : SomeCookie] \cup {NoFile}
    BY <1>2, <1>3, CookieFacts DEF TypeOK
  <2>2. Retried(c) \in {"before", "first", "renewed"}
    BY DEF Retried
  <2>3. QED
    BY <1>1, <2>1, <2>2, CookieFacts DEF TypeOK, Places
<1>5. FileIsOfItsKey'
  BY <1>2, <1>3 DEF FileIsOfItsKey
<1>6. (SessionIsOfThisAccount /\ SessionsAreOfThisKey /\ NewIsUnused /\ SavesInTime
        /\ UnusedIsAbandoned)'
  BY <1>1 DEF TypeOK, SessionIsOfThisAccount, SessionsAreOfThisKey, NewIsUnused, SavesInTime,
       UnusedIsAbandoned
<1>7. RepeatsWithAnother'
  BY <1>1, <1>2 DEF TypeOK, RepeatsWithAnother
<1>8. file' # file => file'.cookie = cookie \/ (pc[c] = "saveUnused" /\ pc'[c] = "request")
  BY <1>1, <1>2, <1>3 DEF TypeOK
<1>9. QED
  BY <1>4, <1>5, <1>6, <1>7, <1>8

(* Time, the archive and the user change no session but by a restart, and  *)
(* a process restarts with the configured cookie or one of the same key.   *)
LEMMA WorldKeeps ==
  ASSUME SessionInv,
         Tick \/ Expire \/ Settle \/ Restart \/ (\E c \in Callers : GiveUp(c)) \/ UNCHANGED vars
  PROVE  SessionInv'
<1> USE DEF SessionInv
<1> DEFINE Rest == SessionIsOfThisAccount /\ SessionsAreOfThisKey /\ FileIsOfItsKey /\ NewIsUnused
                     /\ SavesInTime /\ UnusedIsAbandoned /\ RepeatsWithAnother
<1>1. CASE Tick
  <2>1. /\ sinceSignIn' \in 0..RetryInterval
        /\ \A c \in Callers : pc[c] = "save" => sinceSignIn' < RetryInterval
    BY <1>1 DEF Tick, TypeOK
  <2>2. UNCHANGED <<config, steady, accepted, cookie, signingIn, signInErr, file, callVars>>
    BY <1>1 DEF Tick, archiveVars
  <2>3. TypeOK'
    BY <2>1, <2>2 DEF TypeOK, callVars
  <2>4. Rest'
    BY <2>1, <2>2 DEF callVars, SessionIsOfThisAccount, SessionsAreOfThisKey, FileIsOfItsKey,
         NewIsUnused, SavesInTime, UnusedIsAbandoned, RepeatsWithAnother
  <2>5. QED
    BY <2>3, <2>4
<1>2. CASE Expire \/ Settle \/ UNCHANGED vars
  <2>1. /\ accepted' \subseteq accepted /\ steady' \in BOOLEAN
        /\ UNCHANGED <<config, clientVars, file, callVars>>
    BY <1>2 DEF Expire, Settle, vars, archiveVars, TypeOK
  <2>2. TypeOK'
    BY <2>1 DEF TypeOK, clientVars, callVars
  <2>3. Rest'
    BY <2>1 DEF clientVars, callVars, SessionIsOfThisAccount, SessionsAreOfThisKey, FileIsOfItsKey,
         NewIsUnused, SavesInTime, UnusedIsAbandoned, RepeatsWithAnother
  <2>4. QED
    BY <2>2, <2>3
<1>3. CASE Restart
  <2>1. (\A c \in Callers : pc'[c] = "idle") /\ signingIn' = NoCaller
    BY <1>3 DEF Restart
  <2>2. /\ config' \in Configs /\ UNCHANGED <<steady, accepted, file>>
        /\ \/ cookie' = config'.cookie
           \/ file # NoFile /\ file.key = config'.key /\ cookie' = file.cookie
    BY <1>3 DEF Restart, Restored
  <2>3. cookie' \in SomeCookie /\ SessionIsOfThisAccount'
    BY <2>2, CookieFacts DEF TypeOK, FileIsOfItsKey, SessionIsOfThisAccount
  <2>4. /\ pc' \in [Callers -> Places] /\ stage' \in [Callers -> {"before", "first", "renewed"}]
        /\ gone' \in [Callers -> BOOLEAN]
        /\ sent' \in [Callers -> SomeCookie] /\ issued' \in [Callers -> SomeCookie]
        /\ sinceSignIn' \in 0..RetryInterval /\ signInErr' = FALSE
    BY <1>3, CookieFacts DEF Restart, Places
  <2>5. TypeOK'
    <3>1. /\ signingIn' \in Callers \cup {NoCaller}
          /\ \A c \in Callers : signingIn' = c <=> pc'[c] \in {"posting", "works", "refused", "fails"}
      BY <2>1, NoCallerAssumption
    <3>2. /\ steady' \in BOOLEAN /\ accepted' \subseteq SomeCookie \ {NoCookie}
          /\ file' \in [key : Accounts, cookie : Accounts \X Serials, replaced : SomeCookie] \cup {NoFile}
          /\ config' \in Configs
      BY <2>2 DEF TypeOK
    <3>3. QED
      BY ONLY <2>3, <2>4, <3>1, <3>2 DEF TypeOK
  <2>6. (SessionsAreOfThisKey /\ FileIsOfItsKey /\ NewIsUnused /\ SavesInTime
          /\ UnusedIsAbandoned /\ RepeatsWithAnother)'
    BY <1>3, <2>1, <2>2 DEF Restart, SessionsAreOfThisKey, FileIsOfItsKey, NewIsUnused, SavesInTime,
         UnusedIsAbandoned, RepeatsWithAnother
  <2>7. QED
    BY <2>3, <2>5, <2>6
<1>4. ASSUME NEW c \in Callers, GiveUp(c) PROVE SessionInv'
  <2>1. gone' = [gone EXCEPT ![c] = TRUE] /\ UNCHANGED <<config, steady, accepted, clientVars, file, pc,
                                                        stage, sent, issued>>
    BY <1>4 DEF GiveUp, archiveVars
  <2>2. TypeOK'
    BY <2>1 DEF TypeOK, clientVars
  <2>3. Rest'
    BY <2>1 DEF TypeOK, clientVars, SessionIsOfThisAccount, SessionsAreOfThisKey, FileIsOfItsKey,
         NewIsUnused, SavesInTime, UnusedIsAbandoned, RepeatsWithAnother
  <2>4. QED
    BY <2>2, <2>3
<1>5. QED
  BY <1>1, <1>2, <1>3, <1>4

(* Only Request sends anything. *)
LEMMA OnlyRequestSends ==
  ASSUME SessionInv, [Next]_vars, NEW c \in Callers, pc[c] = "request", pc'[c] = "sent"
  PROVE  Request(c)
<1> USE DEF SessionInv, TypeOK
<1>1. ASSUME NEW d \in Callers, pc' = [pc EXCEPT ![d] = pc'[d]], pc'[d] # "sent" PROVE FALSE
  BY <1>1
<1>2. ASSUME NEW d \in Callers, Request(d) PROVE d = c
  BY <1>2 DEF Request, Goto
<1>3. ASSUME NEW d \in Callers, Call(d) \/ (Proceed(d) /\ ~Request(d) /\ ~EndSignIn(d))
      PROVE  FALSE
  <2>1. pc' = [pc EXCEPT ![d] = pc'[d]] /\ pc'[d] # "sent"
    BY <1>3 DEF Call, Proceed, Served, Forbidden, WithoutKey, AlreadyReplaced, AwaitSignIn, TooSoon,
       LeadSignIn, SignInWorks, SignInFails, Save, StopWaiting, Unrenewed, Return, Goto
  <2>2. QED
    BY <1>1, <2>1
<1>4. ASSUME NEW d \in Callers, EndSignIn(d) PROVE FALSE
  BY <1>4 DEF EndSignIn, EndInTime, EndTooLate, EndBetween, Released
<1>5. ~Tick /\ ~Expire /\ ~Settle /\ ~Restart /\ ~UNCHANGED vars /\ \A d \in Callers : ~GiveUp(d)
  BY DEF Tick, Expire, Settle, Restart, GiveUp, vars, callVars
<1>6. QED
  BY <1>2, <1>3, <1>4, <1>5 DEF Next

(* What the client and its world do, with nothing said of what must happen. *)
Acts == Init /\ [][Next]_vars

(* Every behaviour of the specification is one of Acts. *)
LEMMA SpecActs == Spec => Acts
<1> QED
  BY PTL DEF Spec, Acts

(* The invariant holds in every state. *)
LEMMA InvHolds == Acts => []SessionInv
<1>1. SessionInv /\ [Next]_vars => SessionInv'
  BY CallsKeep, LeadKeeps, WorksKeeps, FailsKeeps, EndKeeps, SaveKeeps, WorldKeeps DEF Next, Proceed
<1>2. QED
  BY <1>1, InitEstablishes, PTL DEF Acts

(* Every variable keeps its type, and a call signs in just while the       *)
(* client says that it does.                                               *)
THEOREM SessionTypeIsKept == Spec => []TypeOK
<1>1. SessionInv => TypeOK
  BY DEF SessionInv
<1>2. QED
  BY <1>1, InvHolds, SpecActs, PTL

(* session_store.go, restoreSession: no client uses a session of another   *)
(* account, whatever the user changed between two starts.                  *)
THEOREM NoOtherAccount == Acts => []SessionIsOfThisAccount
<1>1. SessionInv => SessionIsOfThisAccount
  BY DEF SessionInv
<1>2. QED
  BY <1>1, InvHolds, PTL

(* client_http.go, doGetWith: the request after a sign-in does not repeat  *)
(* the one that was refused, whichever call signed in.                     *)
THEOREM RetryDiffers == Spec => RetrySendsAnotherCookie
<1>1. ASSUME SessionInv, [Next]_vars, NEW c \in Callers,
             pc[c] = "request", pc'[c] = "sent", stage[c] = "renewed", ~gone[c]
      PROVE  sent'[c] # sent[c]
  <2>1. cookie # sent[c]
    BY <1>1 DEF SessionInv, RepeatsWithAnother
  <2>2. Request(c)
    BY <1>1, OnlyRequestSends
  <2>3. QED
    BY <1>1, <2>1, <2>2 DEF Request, SessionInv, TypeOK
<1>2. SessionInv /\ [Next]_vars =>
        [\A c \in Callers : pc[c] = "request" /\ pc'[c] = "sent" /\ stage[c] = "renewed" /\ ~gone[c]
           => sent'[c] # sent[c]]_vars
  BY <1>1
<1>3. QED
  BY <1>2, InvHolds, SpecActs, PTL DEF Acts, RetrySendsAnotherCookie

(* session.go, saveSession: although it runs outside the lock, what it     *)
(* saves is the session in use, but for what a call saves that gave up     *)
(* between the two looks at its context.                                   *)
THEOREM SavesTheCurrent == Acts => SavedSessionIsCurrent
<1>1. SessionInv /\ [Next]_vars /\ file' # file => \E c \in Callers : Save(c)
  BY DEF Next, Proceed, vars, Tick, Expire, Settle, Restart, Call, GiveUp, Request, Served, Forbidden,
     WithoutKey, AlreadyReplaced, AwaitSignIn, TooSoon, LeadSignIn, SignInWorks, SignInFails,
     EndSignIn, StopWaiting
<1>2. SessionInv /\ [Next]_vars =>
        [file' # file => \/ file'.cookie = cookie
                         \/ \E c \in Callers : pc[c] = "saveUnused" /\ pc'[c] = "request"]_vars
  BY <1>1, SaveKeeps
<1>3. QED
  BY <1>2, InvHolds, PTL DEF Acts, SavedSessionIsCurrent

(* Who waits, waits for a sign-in that is under way. *)
WaitsForLeader == \A c \in Callers : pc[c] = "waiting" => signingIn # NoCaller

Waiting == {c \in Callers : pc[c] = "waiting"}

(* A step of a call that does not wait, and will not, changes no sign-in. *)
LEMMA SignInGoesOn ==
  ASSUME pc \in [Callers -> Places], NEW c \in Callers, pc[c] # "waiting",
         NEW s \in Places \ {"waiting"}, pc' = [pc EXCEPT ![c] = s], UNCHANGED signingIn
  PROVE  UNCHANGED SignIns!vars
<1>1. \A d \in Callers : pc'[d] = "waiting" <=> pc[d] = "waiting"
  OBVIOUS
<1>2. QED
  BY <1>1 DEF SignIns!vars

(* Every step of a session is a step of the shared sign-ins, or none.  A   *)
(* process that ends takes its sign-in, and those that wait, with it.      *)
LEMMA StepIsOfSignIns ==
  SessionInv /\ WaitsForLeader /\ [Next]_vars => [SignIns!Next]_(SignIns!vars)
<1> SUFFICES ASSUME SessionInv, WaitsForLeader, [Next]_vars
             PROVE  SignIns!Next \/ UNCHANGED SignIns!vars
  OBVIOUS
<1> DEFINE Goal == SignIns!Next \/ UNCHANGED SignIns!vars
<1>0. /\ pc \in [Callers -> Places] /\ signingIn \in Callers \cup {NoCaller}
      /\ \A c \in Callers : signingIn = c <=> pc[c] \in {"posting", "works", "refused", "fails"}
  BY DEF SessionInv, TypeOK
<1> USE <1>0 DEF Places, Goto, clientVars, callVars
<1>1. ASSUME UNCHANGED <<signingIn, pc>> PROVE Goal
  BY <1>1 DEF SignIns!vars
<1>2. ASSUME Tick \/ Expire \/ Settle PROVE Goal
  BY <1>1, <1>2 DEF Tick, Expire, Settle
<1>3. CASE Restart
  <2>1. signingIn' = NoCaller /\ Waiting' = {}
    BY <1>3 DEF Restart, Waiting
  <2>2. CASE signingIn = NoCaller
    <3>1. Waiting = {}
      BY <2>2 DEF WaitsForLeader, Waiting
    <3>2. QED
      BY <2>1, <2>2, <3>1 DEF Waiting, SignIns!vars
  <2>3. CASE signingIn # NoCaller
    BY <2>1, <2>3 DEF Waiting, SignIns!Next, SignIns!Finish
  <2>4. QED
    BY <2>2, <2>3
<1>4. ASSUME NEW c \in Callers, GiveUp(c) PROVE Goal
  BY <1>1, <1>4 DEF GiveUp
<1>5. ASSUME NEW c \in Callers, Call(c) PROVE Goal
  BY <1>5, SignInGoesOn DEF Call
<1>6. ASSUME NEW c \in Callers, Request(c) \/ Served(c) \/ Forbidden(c) PROVE Goal
  BY <1>6, SignInGoesOn DEF Request, Served, Forbidden, Return
<1>7. ASSUME NEW c \in Callers, WithoutKey(c) \/ AlreadyReplaced(c) \/ TooSoon(c) PROVE Goal
  BY <1>7, SignInGoesOn DEF WithoutKey, AlreadyReplaced, TooSoon, Unrenewed, Return
<1>8. ASSUME NEW c \in Callers, AwaitSignIn(c) PROVE Goal
  <2>1. Waiting' = Waiting \cup {c} /\ c \notin Waiting
    BY <1>8 DEF AwaitSignIn, Waiting
  <2>2. signingIn \notin {NoCaller, c} /\ UNCHANGED signingIn
    BY <1>8 DEF AwaitSignIn
  <2>3. QED
    BY <2>1, <2>2 DEF Waiting, SignIns!Next, SignIns!Wait
<1>9. ASSUME NEW c \in Callers, LeadSignIn(c) PROVE Goal
  <2>1. Waiting' = Waiting
    BY <1>9 DEF LeadSignIn, Waiting
  <2>2. signingIn = NoCaller /\ signingIn' = c
    BY <1>9 DEF LeadSignIn
  <2>3. QED
    BY <2>1, <2>2 DEF Waiting, SignIns!Next, SignIns!Lead
<1>10. ASSUME NEW c \in Callers, SignInWorks(c) PROVE Goal
  BY <1>10, SignInGoesOn DEF SignInWorks
<1>11. ASSUME NEW c \in Callers, SignInFails(c) PROVE Goal
  BY <1>11, SignInGoesOn DEF SignInFails
<1>12. ASSUME NEW c \in Callers, EndSignIn(c) PROVE Goal
  <2>1. signingIn = c /\ signingIn # NoCaller /\ signingIn' = NoCaller
    BY <1>12, NoCallerAssumption DEF EndSignIn
  <2>2. \E next \in {"request", "save", "saveUnused", "idle"} : pc' = Released(c, next)
    BY <1>12 DEF EndSignIn, EndInTime, EndTooLate, EndBetween
  <2>3. Waiting' = {}
    BY <2>2 DEF Released, Waiting
  <2>4. QED
    BY <2>1, <2>3 DEF Waiting, SignIns!Next, SignIns!Finish
<1>13. ASSUME NEW c \in Callers, Save(c) PROVE Goal
  BY <1>13, SignInGoesOn DEF Save
<1>14. ASSUME NEW c \in Callers, StopWaiting(c) PROVE Goal
  <2>1. Waiting' = Waiting \ {c} /\ c \in Waiting /\ UNCHANGED signingIn
    BY <1>14 DEF StopWaiting, Return, Waiting
  <2>2. QED
    BY <2>1 DEF Waiting, SignIns!Next, SignIns!Quit
<1>15. CASE UNCHANGED vars
  BY <1>1, <1>15 DEF vars
<1>16. QED
  BY <1>2, <1>3, <1>4, <1>5, <1>6, <1>7, <1>8, <1>9, <1>10, <1>11, <1>12, <1>13, <1>14, <1>15
     DEF Next, Proceed

(* A step of the shared sign-ins leaves nobody waiting without a leader. *)
LEMMA LeaderIsKept == WaitsForLeader /\ [SignIns!Next]_(SignIns!vars) => WaitsForLeader'
<1>1. WaitsForLeader <=> (Waiting # {} => signingIn # NoCaller)
  BY DEF WaitsForLeader, Waiting
<1>2. WaitsForLeader' <=> (Waiting' # {} => signingIn' # NoCaller)
  BY DEF WaitsForLeader, Waiting
<1>3. ASSUME Waiting # {} => signingIn # NoCaller, [SignIns!Next]_(SignIns!vars)
      PROVE  Waiting' # {} => signingIn' # NoCaller
  BY <1>3, NoCallerAssumption
     DEF Waiting, SignIns!Next, SignIns!vars, SignIns!Finish, SignIns!Lead, SignIns!Wait, SignIns!Quit
<1>4. QED
  BY <1>1, <1>2, <1>3

(* session.go, signIn: concurrent calls share one sign-in, and its end     *)
(* releases every call that waits for it, even when its leader gave up.    *)
(* This is SingleFlight but for its fairness.                              *)
THEOREM SignInsAreOneAtATime == Spec => SignIns!Init /\ [][SignIns!Next]_(SignIns!vars)
<1>1. Init => SignIns!Init /\ WaitsForLeader
  BY DEF Init, SignIns!Init, WaitsForLeader
<1>2. SessionInv /\ WaitsForLeader /\ [Next]_vars => WaitsForLeader'
  BY StepIsOfSignIns, LeaderIsKept
<1>3. Spec => []WaitsForLeader
  BY <1>1, <1>2, InvHolds, SpecActs, PTL DEF Acts
<1>4. QED
  BY <1>1, <1>3, StepIsOfSignIns, InvHolds, SpecActs, PTL DEF Acts
=============================================================================
