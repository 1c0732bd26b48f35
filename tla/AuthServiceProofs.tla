-------------------------- MODULE AuthServiceProofs --------------------------
(* What holds of auth-service for any number of requests, sessions, tokens  *)
(* and links.                                                               *)
EXTENDS AuthService, TLAPS

-----------------------------------------------------------------------------
(* Types                                                                   *)

LEMMA IdleType == Idle \in Handler
BY DEF Idle, Handler, Places

LEMMA JobType == ASSUME NEW p \in Places PROVE job(p) \in Handler
BY DEF job, Idle, Handler, Places

LEMMA InitTypes == Init => AuthTypeOK
<1> SUFFICES ASSUME Init PROVE AuthTypeOK
  OBVIOUS
<1>1. handler \in [Workers -> Handler]
  BY IdleType DEF Init
<1>2. token \in [Tokens -> Token] /\ young \in [Workers -> SUBSET Tokens]
  BY DEF Init, NoToken, made, Token
<1>3. calls \in 0..MaxCalls
  BY AuthAssumption DEF Init
<1>4. /\ account \in {"none", "PENDING_VERIFICATION", "ACTIVE", "SUSPENDED"}
      /\ failed \in Nat /\ password \in Nat \ {0}
      /\ knew \in [Sessions -> Nat]
      /\ behind \subseteq Sessions /\ parallel \subseteq Sessions
  BY DEF Init
<1>5. /\ link \in [Links -> {"none", "EMAIL_VERIFICATION", "PASSWORD_RESET", "consumed"}]
      /\ session \in [Sessions -> {"none", "open", "revoked"}]
  BY DEF Init
<1>6. locked \in BOOLEAN
  BY DEF Init
<1> QED
  BY <1>1, <1>2, <1>3, <1>4, <1>5, <1>6 DEF AuthTypeOK

\* A request only fills a handler and counts the call.
LEMMA BeginTypes ==
  ASSUME AuthTypeOK, NEW w \in Workers, NEW h \in Handler, begin(w, h),
         parallel' \subseteq Sessions
  PROVE  AuthTypeOK'
<1>1. handler' \in [Workers -> Handler]
  BY DEF begin, becomes, AuthTypeOK
<1>2. calls' \in 0..MaxCalls
  BY AuthAssumption DEF begin, called, AuthTypeOK
<1> QED
  BY <1>1, <1>2 DEF begin, accountVars, sessionVars, AuthTypeOK

LEMMA RequestTypes ==
  ASSUME AuthTypeOK, NEW w \in Workers, Request(w)
  PROVE  AuthTypeOK'
<1> USE DEF AuthTypeOK
<1>1. CASE register(w)
  <2>1. job(IF account = "none" THEN "createUser" ELSE "mail") \in Handler
    BY JobType DEF Places
  <2> QED BY <1>1, <2>1, BeginTypes DEF register
<1>2. CASE resendVerification(w)
  BY <1>2, JobType, BeginTypes DEF resendVerification, Places
<1>3. CASE login(w)
  <2>1. [job("countFailure") EXCEPT !.n = failed] \in Handler
    BY DEF job, Idle, Handler, Places
  <2>2. [job("createSession") EXCEPT !.n = password] \in Handler
    BY DEF job, Idle, Handler, Places
  <2> QED BY <1>3, <2>1, <2>2, BeginTypes DEF login
<1>4. CASE logoutAll(w)
  <2>1. [job("revoke") EXCEPT !.sessions = {s \in Sessions : session[s] = "open"}] \in Handler
    BY DEF job, Idle, Handler, Places
  <2> QED BY <1>4, <2>1, BeginTypes DEF logoutAll
<1>5. CASE beginChangePassword(w)
  BY <1>5, JobType, BeginTypes DEF beginChangePassword, Places
<1>6. ASSUME NEW k \in Links, beginVerifyEmail(w, k) PROVE AuthTypeOK'
  <2>1. [job("verify") EXCEPT !.on = k] \in Handler
    BY DEF job, Idle, Handler, Places
  <2> QED BY <1>6, <2>1, BeginTypes DEF beginVerifyEmail
<1>7. ASSUME NEW k \in Links, beginResetPassword(w, k) PROVE AuthTypeOK'
  <2>1. [job("reset") EXCEPT !.on = k] \in Handler
    BY DEF job, Idle, Handler, Places
  <2> QED BY <1>7, <2>1, BeginTypes DEF beginResetPassword
<1>8. ASSUME NEW t \in Tokens, refresh(w, t) PROVE AuthTypeOK'
  <2> DEFINE s == token[t].session
             h == [at |-> verdict(t), on |-> t, sessions |-> {s}, n |-> password]
  <2>1. h \in Handler
    <3>1. token[t].session \in Sessions
      BY <1>8 DEF refresh, issued, Token
    <3>2. verdict(t) \in {"revoke", "rotate"}
      BY <1>8 DEF refresh, verdict
    <3> QED BY <3>1, <3>2 DEF Handler, Places
  <2>2. parallel' \subseteq Sessions
    <3>1. token[t].session \in Sessions
      BY <1>8 DEF refresh, issued, Token
    <3> QED BY <1>8, <3>1 DEF refresh
  <2> QED BY <1>8, <2>1, <2>2, BeginTypes DEF refresh
<1>9. ASSUME NEW t \in Tokens, logout(w, t) PROVE AuthTypeOK'
  <2>1. token[t].session \in Sessions
    BY <1>9 DEF logout, issued, Token
  <2>2. [job("revoke") EXCEPT !.sessions = {token[t].session}] \in Handler
    BY <2>1 DEF job, Idle, Handler, Places
  <2> QED BY <1>9, <2>2, BeginTypes DEF logout
<1> QED
  BY <1>1, <1>2, <1>3, <1>4, <1>5, <1>6, <1>7, <1>8, <1>9 DEF Request

\* Marking rows as revoked keeps them rows.
LEMMA RevokedType ==
  ASSUME NEW S, NEW row \in Token
  PROVE  /\ revoked(S, row) \in Token
         /\ revoked(S, row).session = row.session
         /\ revoked(S, row).iat = row.iat
         /\ row.used => revoked(S, row).used
         /\ row.revoked => revoked(S, row).revoked
BY DEF revoked, Token

LEMMA StepTypes ==
  ASSUME AuthTypeOK, NEW w \in Workers, Step(w)
  PROVE  AuthTypeOK'
<1> USE DEF AuthTypeOK
<1> DEFINE moves == handler' \in [Workers -> Handler]
<1>ends. ASSUME ends(w) PROVE moves
  BY <1>ends, IdleType DEF ends, becomes
<1>job. ASSUME NEW p \in Places, becomes(w, job(p)) PROVE moves
  BY <1>job, JobType DEF becomes
<1>grows. ASSUME NEW t \in Tokens, grows(t) PROVE young' \in [Workers -> SUBSET Tokens]
  BY <1>grows DEF grows
<1>1. CASE createUser(w)
  <2>1. moves
    BY <1>1, <1>ends, <1>job DEF createUser, Places
  <2> QED BY <1>1, <2>1 DEF createUser, sessionVars, histories
<1>2. CASE issueEmailVerification(w)
  BY <1>2, <1>ends DEF issueEmailVerification, accountVars, sessionVars, histories
<1>3. CASE verifyEmail(w)
  BY <1>3, <1>ends DEF verifyEmail, sessionVars, histories
<1>4. CASE countFailure(w)
  <2>1. handler[w].n \in Nat
    BY DEF Handler
  <2>2. failed' \in Nat /\ locked' \in BOOLEAN
    BY <1>4, <2>1 DEF countFailure
  <2> QED BY <1>4, <2>2, <1>ends DEF countFailure, sessionVars, histories
<1>5. CASE createSession(w)
  <2> PICK s \in Sessions :
        /\ session' = [session EXCEPT ![s] = "open"]
        /\ knew' = [knew EXCEPT ![s] = password]
        /\ writtenBehind(w, s)
        /\ becomes(w, [job("createToken") EXCEPT !.sessions = {s}, !.n = password])
    BY <1>5 DEF createSession
  <2>1. [job("createToken") EXCEPT !.sessions = {s}, !.n = password] \in Handler
    BY DEF job, Idle, Handler, Places
  <2>2. moves
    BY <2>1 DEF becomes
  <2>3. behind' \subseteq Sessions
    BY DEF writtenBehind
  <2> QED BY <1>5, <2>2, <2>3 DEF createSession, accountVars
<1>6. CASE createToken(w)
  <2> PICK s \in handler[w].sessions, t \in Tokens : newToken(w, t, s)
    BY <1>6 DEF createToken
  <2>1. s \in Sessions
    BY DEF Handler
  <2>2. token' \in [Tokens -> Token]
    <3> PICK iat \in (handler[w].n - 1)..password : token' = [token EXCEPT ![t] = made(s, iat)]
      BY DEF newToken
    <3>1. iat \in Int
      BY DEF Handler
    <3>2. made(s, iat) \in Token
      BY <2>1, <3>1 DEF made, Token
    <3> QED BY <3>2
  <2>3. behind' \subseteq Sessions
    BY <2>1 DEF newToken, writtenBehind
  <2>4. young' \in [Workers -> SUBSET Tokens]
    BY <1>grows DEF newToken
  <2> QED BY <1>6, <2>2, <2>3, <2>4, <1>job DEF createToken, accountVars, Places
<1>7. CASE clearFailures(w)
  BY <1>7, <1>ends DEF clearFailures, sessionVars, histories
<1>8. CASE rotate(w)
  <2> PICK s \in handler[w].sessions, t \in Tokens :
        /\ grows(t)
        /\ \E iat \in (handler[w].n - 1)..password :
             token' = [token EXCEPT ![t] = made(s, iat), ![handler[w].on].used = TRUE]
        /\ writtenBehind(w, s)
    BY <1>8 DEF rotate
  <2>1. s \in Sessions
    BY DEF Handler
  <2>2. token' \in [Tokens -> Token]
    <3> PICK iat \in (handler[w].n - 1)..password :
           token' = [token EXCEPT ![t] = made(s, iat), ![handler[w].on].used = TRUE]
      OBVIOUS
    <3>1. iat \in Int
      BY DEF Handler
    <3>2. made(s, iat) \in Token
      BY <2>1, <3>1 DEF made, Token
    <3>3. ASSUME NEW row \in Token PROVE [row EXCEPT !.used = TRUE] \in Token
      BY DEF Token
    <3>4. [token EXCEPT ![t] = made(s, iat)] \in [Tokens -> Token]
      BY <3>2
    <3> QED BY <3>3, <3>4
  <2>3. behind' \subseteq Sessions
    BY <2>1 DEF writtenBehind
  <2>4. young' \in [Workers -> SUBSET Tokens]
    BY <1>grows
  <2> QED BY <1>8, <2>2, <2>3, <2>4, <1>ends DEF rotate, accountVars
<1>9. CASE revokeSession(w)
  <2> PICK s \in handler[w].sessions :
        /\ session' = [session EXCEPT ![s] = "revoked"]
        /\ token' = [t \in Tokens |-> revoked({s}, token[t])]
        /\ IF handler[w].sessions = {s} THEN ends(w)
           ELSE becomes(w, [handler[w] EXCEPT !.sessions = @ \ {s}])
    BY <1>9 DEF revokeSession
  <2>1. token' \in [Tokens -> Token]
    BY RevokedType
  <2>2. [handler[w] EXCEPT !.sessions = @ \ {s}] \in Handler
    BY DEF Handler
  <2>3. moves
    BY <2>2, <1>ends DEF becomes
  <2> QED BY <1>9, <2>1, <2>3 DEF revokeSession, accountVars, histories
<1>10. CASE resetPassword(w)
  <2>1. token' \in [Tokens -> Token]
    BY <1>10, RevokedType DEF resetPassword
  <2>2. locked' \in BOOLEAN
    BY <1>10 DEF resetPassword
  <2>3. failed' \in Nat /\ password' \in Nat \ {0} /\ account' = "ACTIVE"
    BY <1>10 DEF resetPassword
  <2>6. session' \in [Sessions -> {"none", "open", "revoked"}]
    BY <1>10 DEF resetPassword
  <2>7. link' \in [Links -> {"none", "EMAIL_VERIFICATION", "PASSWORD_RESET", "consumed"}]
    BY <1>10 DEF resetPassword
  <2>4. moves
    BY <1>10, <1>ends DEF resetPassword
  <2>5. /\ calls' \in 0..MaxCalls
        /\ knew' \in [Sessions -> Nat] /\ young' \in [Workers -> SUBSET Tokens]
        /\ behind' \subseteq Sessions /\ parallel' \subseteq Sessions
    BY <1>10 DEF resetPassword, histories
  <2> HIDE DEF moves
  <2> QED BY <2>1, <2>2, <2>3, <2>4, <2>5, <2>6, <2>7 DEF moves
<1>11. CASE changePassword(w)
  <2> PICK late \in SUBSET young[w] :
        /\ token' = [t \in Tokens |->
                      IF t \in late THEN dated(t, password + 1) ELSE token[t]]
        /\ behind' = behind \cup {s \in Sessions : \E t \in late : token[t].session = s}
    BY <1>11 DEF changePassword
  <2>1. \A t \in Tokens : dated(t, password + 1) \in Token
    BY DEF dated, Token
  <2>2. token' \in [Tokens -> Token] /\ behind' \subseteq Sessions
    BY <2>1
  <2>3. young' \in [Workers -> SUBSET Tokens]
    BY <1>11 DEF changePassword
  <2>4. password' \in Nat \ {0}
    BY <1>11 DEF changePassword
  <2>5. moves
    BY <1>11, <1>ends DEF changePassword
  <2>6. UNCHANGED <<account, failed, locked, link, session, calls, knew, parallel>>
    BY <1>11 DEF changePassword
  <2> HIDE DEF moves
  <2> QED BY <2>2, <2>3, <2>4, <2>5, <2>6 DEF moves
<1> QED
  BY <1>1, <1>2, <1>3, <1>4, <1>5, <1>6, <1>7, <1>8, <1>9, <1>10, <1>11 DEF Step

LEMMA NextTypes == AuthTypeOK /\ [Next]_vars => AuthTypeOK'
<1> SUFFICES ASSUME AuthTypeOK, [Next]_vars PROVE AuthTypeOK'
  OBVIOUS
<1>1. ASSUME NEW w \in Workers, abandon(w) PROVE AuthTypeOK'
  BY <1>1, IdleType DEF abandon, ends, becomes, accountVars, sessionVars, histories, AuthTypeOK
<1>2. CASE forgotPassword
  <2>1. calls' \in 0..MaxCalls
    BY <1>2, AuthAssumption DEF forgotPassword, called, AuthTypeOK
  <2> QED BY <1>2, <2>1 DEF forgotPassword, accountVars, sessionVars, histories, AuthTypeOK
<1>3. CASE suspend
  <2>1. calls' \in 0..MaxCalls
    BY <1>3, AuthAssumption DEF suspend, called, AuthTypeOK
  <2> QED BY <1>3, <2>1 DEF suspend, sessionVars, histories, AuthTypeOK
<1>4. CASE lockRunsOut
  BY <1>4 DEF lockRunsOut, sessionVars, histories, AuthTypeOK
<1>5. CASE UNCHANGED vars
  BY <1>5 DEF vars, accountVars, sessionVars, histories, AuthTypeOK
<1> QED
  BY <1>1, <1>2, <1>3, <1>4, <1>5, RequestTypes, StepTypes DEF Next

\* The rows and the handlers keep their shapes.
THEOREM AuthTypes == Spec => []AuthTypeOK
BY InitTypes, NextTypes, PTL DEF Spec

-----------------------------------------------------------------------------
(* The invariant                                                           *)

exists(s) == session[s] # "none"

\* A token belongs to a session that was made, and is no newer than the
\* password.
TokensHaveSessions ==
  \A t \in Tokens : issued(t) => exists(token[t].session) /\ token[t].iat <= password

\* A handler looked at a password there had been.
HandlersAreDated ==
  \A w \in Workers :
    handler[w].at \in {"createSession", "createToken", "rotate"} => handler[w].n <= password

\* Whoever signs in has made a session nobody else knows of yet.
CreatorsAreAlone ==
  \A w \in Workers : at(w, "createToken") =>
    \A s \in handler[w].sessions :
      /\ exists(s) /\ knew[s] = handler[w].n
      /\ \A t \in Tokens : token[t].session # s
      /\ \A v \in Workers : at(v, "createToken") /\ s \in handler[v].sessions => v = w

rotatesAlone(w, s) ==
  /\ \A t \in Tokens : live(t) /\ token[t].session = s => t = handler[w].on
  /\ \A v \in Workers : at(v, "rotate") /\ s \in handler[v].sessions => v = w

\* Whoever rotates holds the one token of its session, unless another does
\* so beside it.
RotatorsAreAlone ==
  \A w \in Workers : at(w, "rotate") =>
    \A s \in handler[w].sessions :
      /\ exists(s) /\ (s \in behind \/ knew[s] = handler[w].n)
      /\ handler[w].on \in Tokens /\ token[handler[w].on].session = s
      /\ s \in parallel \/ rotatesAlone(w, s)

AuthInv ==
  /\ AuthTypeOK
  /\ TokensHaveSessions /\ HandlersAreDated /\ CreatorsAreAlone /\ RotatorsAreAlone
  /\ TokensFollowThePassword /\ OneTokenASession

LEMMA InitInv == Init => AuthInv
<1> SUFFICES ASSUME Init PROVE AuthInv
  OBVIOUS
<1>1. \A t \in Tokens : ~issued(t)
  BY DEF Init, issued, NoToken, made
<1>2. \A w \in Workers : at(w, "idle")
  BY DEF Init, at, Idle
<1> QED
  BY <1>1, <1>2, InitTypes DEF AuthInv, TokensHaveSessions, HandlersAreDated,
    CreatorsAreAlone, RotatorsAreAlone, TokensFollowThePassword, OneTokenASession, live, at

-----------------------------------------------------------------------------
(* The steps that make no session and no token                             *)

\* What most steps do to the invariant's state: nothing but ending tokens,
\* sessions, handlers and passwords.
quiet ==
  /\ \A w \in Workers :
       \/ handler'[w] = handler[w]
       \/ /\ handler'[w].at \notin {"createToken", "rotate"}
          /\ handler'[w].at = "createSession" => handler'[w].n <= password
  /\ \A t \in Tokens :
       /\ token'[t].session = token[t].session
       /\ \/ token'[t].iat = token[t].iat
          \/ token'[t].iat = password' /\ token[t].session \in behind' \cup {Nobody}
       /\ token[t].used => token'[t].used
       /\ token[t].revoked => token'[t].revoked
  /\ \A s \in Sessions :
       /\ session[s] # "none" => session'[s] # "none"
       /\ session'[s] = "open" => session[s] = "open"
  /\ knew' = knew /\ behind \subseteq behind' /\ parallel \subseteq parallel'
  /\ password' \in {password, password + 1}

LEMMA QuietInv == ASSUME AuthInv, AuthTypeOK', quiet PROVE AuthInv'
<1> USE DEF AuthInv
<1>0. /\ password \in Nat /\ password' \in Nat /\ password <= password'
      /\ \A t \in Tokens : token[t].iat \in Int /\ token[t].session \in Sessions \cup {Nobody}
      /\ \A w \in Workers : handler[w].n \in Nat /\ handler[w].sessions \subseteq Sessions
  BY DEF AuthTypeOK, quiet, Token, Handler
<1>live. \A t \in Tokens : live(t)' => live(t)
  BY DEF quiet, live, issued
<1>1. TokensHaveSessions'
  <2> SUFFICES ASSUME NEW t \in Tokens, issued(t)'
               PROVE  exists(token[t].session)' /\ token'[t].iat <= password'
    BY DEF TokensHaveSessions
  <2>1. issued(t)
    BY DEF issued, quiet
  <2>2. exists(token[t].session) /\ token[t].iat <= password /\ token[t].session \in Sessions
    BY <1>0, <2>1 DEF TokensHaveSessions, issued
  <2> QED BY <1>0, <2>2 DEF quiet, exists
<1>2. HandlersAreDated'
  <2> SUFFICES ASSUME NEW w \in Workers,
                      handler'[w].at \in {"createSession", "createToken", "rotate"}
               PROVE  handler'[w].n <= password'
    BY DEF HandlersAreDated
  <2>1. handler'[w].n <= password
    BY DEF quiet, HandlersAreDated
  <2>2. handler'[w].n \in Nat
    BY DEF AuthTypeOK, Handler
  <2> QED BY <1>0, <2>1, <2>2
<1>kept. ASSUME NEW w \in Workers, handler'[w].at \in {"createToken", "rotate"}
         PROVE  handler'[w] = handler[w]
  BY <1>kept DEF quiet
<1>3. CreatorsAreAlone'
  BY <1>0, <1>kept DEF CreatorsAreAlone, at, exists, quiet
<1>4. RotatorsAreAlone'
  <2> SUFFICES ASSUME NEW w \in Workers, at(w, "rotate")', NEW s \in handler'[w].sessions
               PROVE  /\ exists(s)' /\ (s \in behind' \/ knew'[s] = handler'[w].n)
                      /\ handler'[w].on \in Tokens /\ token'[handler'[w].on].session = s
                      /\ s \in parallel' \/ rotatesAlone(w, s)'
    BY DEF RotatorsAreAlone
  <2>1. /\ handler'[w] = handler[w] /\ at(w, "rotate")
        /\ s \in handler[w].sessions /\ s \in Sessions
    BY <1>0, <1>kept DEF at
  <2>2. /\ exists(s) /\ (s \in behind \/ knew[s] = handler[w].n)
        /\ handler[w].on \in Tokens /\ token[handler[w].on].session = s
        /\ s \in parallel \/ rotatesAlone(w, s)
    BY <2>1 DEF RotatorsAreAlone
  <2>3. rotatesAlone(w, s) => rotatesAlone(w, s)'
    BY <1>live, <1>kept, <2>1 DEF rotatesAlone, at, quiet
  <2> QED BY <2>1, <2>2, <2>3 DEF exists, quiet
<1>5. TokensFollowThePassword'
  <2> SUFFICES ASSUME NEW t \in Tokens, live(t)', session'[token'[t].session] = "open",
                      token'[t].iat >= password', token'[t].session \notin behind'
               PROVE  knew'[token'[t].session] = password'
    BY DEF TokensFollowThePassword
  <2>1. live(t) /\ issued(t)
    BY <1>live DEF live
  <2>2. /\ token[t].session \in Sessions /\ token[t].iat <= password
        /\ token'[t].session = token[t].session /\ token'[t].iat = token[t].iat
    BY <1>0, <2>1, AuthAssumption DEF TokensHaveSessions, issued, quiet
  <2>3. password' = password /\ token[t].iat >= password
    BY <1>0, <2>2
  <2>4. session[token[t].session] = "open" /\ token[t].session \notin behind
    BY <2>2 DEF quiet
  <2>5. knew[token[t].session] = password
    BY <2>1, <2>3, <2>4 DEF TokensFollowThePassword
  <2> QED BY <2>2, <2>3, <2>5 DEF quiet
<1>6. OneTokenASession'
  BY <1>live DEF OneTokenASession, quiet
<1> QED
  BY <1>1, <1>2, <1>3, <1>4, <1>5, <1>6

-----------------------------------------------------------------------------
(* The steps that do                                                       *)

\* A token that passes every check is the live one of a session that knew
\* the password of now.
LEMMA RefreshInv ==
  ASSUME AuthInv, NEW w \in Workers, NEW t \in Tokens, refresh(w, t), AuthTypeOK'
  PROVE  AuthInv'
<1> USE DEF AuthInv
<1> DEFINE s == token[t].session
           h == [at |-> verdict(t), on |-> t, sessions |-> {s}, n |-> password]
<1>0. /\ handler \in [Workers -> Handler] /\ password \in Nat
      /\ s \in Sessions /\ exists(s) /\ issued(t) /\ token[t].iat \in Int
      /\ session \in [Sessions -> {"none", "open", "revoked"}]
      /\ token[t].used \in BOOLEAN /\ token[t].revoked \in BOOLEAN
  BY DEF AuthTypeOK, refresh, issued, TokensHaveSessions, Token
<1>1. begin(w, h) /\ parallel \subseteq parallel'
  BY DEF refresh
<1>2. /\ handler' = [handler EXCEPT ![w] = h]
      /\ UNCHANGED <<token, session, knew, behind, password>>
  BY <1>1 DEF begin, becomes, accountVars, sessionVars
<1>3. CASE verdict(t) = "revoke"
  <2>1. quiet
    BY <1>0, <1>1, <1>2, <1>3 DEF quiet
  <2> QED BY <2>1, QuietInv
<1>4. CASE verdict(t) = "rotate"
  <2>1. live(t) /\ session[s] = "open" /\ token[t].iat >= password
    BY <1>0, <1>4 DEF verdict, live, exists
  <2>2. s \in behind \/ knew[s] = password
    BY <1>0, <2>1 DEF TokensFollowThePassword
  <2>3. s \in parallel' \/ \A v \in Workers : at(v, "rotate") => s \notin handler[v].sessions
    BY DEF refresh
  <2>4. \A u \in Tokens : live(u) /\ token[u].session = s => u = t \/ s \in parallel
    BY <2>1 DEF OneTokenASession
  <2>5. \A v \in Workers : v # w => handler'[v] = handler[v]
    BY <1>2
  <2>6. handler'[w] = h
    BY <1>0, <1>2
  <2>7. \A u \in Tokens : live(u)' <=> live(u)
    BY <1>2 DEF live, issued
  <2>8. TokensHaveSessions' /\ TokensFollowThePassword' /\ OneTokenASession'
    BY <1>1, <1>2, <2>7 DEF TokensHaveSessions, TokensFollowThePassword, OneTokenASession,
      exists, issued
  <2>9. HandlersAreDated'
    BY <1>0, <1>2, <2>5, <2>6 DEF HandlersAreDated
  <2>10. CreatorsAreAlone'
    BY <1>2, <1>4, <2>5, <2>6 DEF CreatorsAreAlone, at, exists
  <2>11. RotatorsAreAlone'
    <3> SUFFICES ASSUME NEW v \in Workers, at(v, "rotate")', NEW r \in handler'[v].sessions
                 PROVE  /\ exists(r)' /\ (r \in behind' \/ knew'[r] = handler'[v].n)
                        /\ handler'[v].on \in Tokens /\ token'[handler'[v].on].session = r
                        /\ r \in parallel' \/ rotatesAlone(v, r)'
      BY DEF RotatorsAreAlone
    <3>1. CASE v = w
      <4>1. r = s
        BY <2>6, <3>1
      <4>2. s \in parallel' \/ rotatesAlone(w, s)'
        BY <1>1, <1>2, <2>3, <2>4, <2>5, <2>6, <2>7 DEF rotatesAlone, at
      <4> QED BY <1>0, <1>2, <2>2, <2>6, <3>1, <4>1, <4>2 DEF exists
    <3>2. CASE v # w
      <4>1. /\ at(v, "rotate") /\ r \in handler[v].sessions /\ handler'[v] = handler[v]
        BY <2>5, <3>2 DEF at
      <4>2. /\ exists(r) /\ (r \in behind \/ knew[r] = handler[v].n)
            /\ handler[v].on \in Tokens /\ token[handler[v].on].session = r
            /\ r \in parallel \/ rotatesAlone(v, r)
        BY <4>1 DEF RotatorsAreAlone
      <4>3. r \in parallel' \/ r # s
        BY <2>3, <4>1
      <4>4. rotatesAlone(v, r) /\ r # s => rotatesAlone(v, r)'
        BY <1>2, <2>5, <2>6, <2>7, <4>1 DEF rotatesAlone, at
      <4> QED BY <1>1, <1>2, <4>1, <4>2, <4>3, <4>4 DEF exists
    <3> QED BY <3>1, <3>2
  <2> QED BY <2>8, <2>9, <2>10, <2>11
<1> QED
  BY <1>3, <1>4 DEF refresh, verdict

LEMMA RequestInv ==
  ASSUME AuthInv, NEW w \in Workers, Request(w), AuthTypeOK'
  PROVE  AuthInv'
<1> USE DEF AuthInv
<1> DEFINE calm(h) == /\ h.at \notin {"createToken", "rotate"}
                      /\ h.at = "createSession" => h.n <= password
<1>types. handler \in [Workers -> Handler] /\ password \in Nat
  BY DEF AuthTypeOK
<1>calm. ASSUME NEW h, calm(h), begin(w, h), parallel \subseteq parallel' PROVE AuthInv'
  <2>1. quiet
    BY <1>calm, <1>types DEF begin, becomes, accountVars, sessionVars, quiet
  <2> QED BY <2>1, QuietInv
<1>1. CASE register(w)
  BY <1>1, <1>calm DEF register, job, Idle
<1>2. CASE resendVerification(w)
  BY <1>2, <1>calm DEF resendVerification, job, Idle
<1>3. CASE login(w)
  <2> DEFINE fails == [job("countFailure") EXCEPT !.n = failed]
             succeeds == [job("createSession") EXCEPT !.n = password]
  <2>1. calm(fails)
    BY DEF job, Idle
  <2>2. calm(succeeds)
    BY <1>types DEF job, Idle
  <2>3. (begin(w, fails) \/ begin(w, succeeds)) /\ parallel' = parallel
    BY <1>3 DEF login
  <2> HIDE DEF fails, succeeds
  <2> QED BY <2>1, <2>2, <2>3, <1>calm
<1>4. CASE logoutAll(w)
  <2> DEFINE h == [job("revoke") EXCEPT !.sessions = {s \in Sessions : session[s] = "open"}]
  <2>1. calm(h)
    BY DEF job, Idle
  <2> HIDE DEF h
  <2> QED BY <1>4, <2>1, <1>calm DEF logoutAll, h
<1>5. CASE beginChangePassword(w)
  BY <1>5, <1>calm DEF beginChangePassword, job, Idle
<1>6. ASSUME NEW k \in Links, beginVerifyEmail(w, k) PROVE AuthInv'
  BY <1>6, <1>calm DEF beginVerifyEmail, job, Idle
<1>7. ASSUME NEW k \in Links, beginResetPassword(w, k) PROVE AuthInv'
  BY <1>7, <1>calm DEF beginResetPassword, job, Idle
<1>8. ASSUME NEW t \in Tokens, refresh(w, t) PROVE AuthInv'
  BY <1>8, RefreshInv
<1>9. ASSUME NEW t \in Tokens, logout(w, t) PROVE AuthInv'
  BY <1>9, <1>calm DEF logout, job, Idle
<1> QED
  BY <1>1, <1>2, <1>3, <1>4, <1>5, <1>6, <1>7, <1>8, <1>9 DEF Request

\* A new session has no token, and no other handler knows of it.
LEMMA CreateSessionInv ==
  ASSUME AuthInv, NEW w \in Workers, createSession(w), AuthTypeOK'
  PROVE  AuthInv'
<1> USE DEF AuthInv
<1> PICK s \in Sessions :
      /\ session[s] = "none"
      /\ session' = [session EXCEPT ![s] = "open"]
      /\ knew' = [knew EXCEPT ![s] = password]
      /\ writtenBehind(w, s)
      /\ becomes(w, [job("createToken") EXCEPT !.sessions = {s}, !.n = password])
  BY DEF createSession
<1>0. /\ session \in [Sessions -> {"none", "open", "revoked"}] /\ knew \in [Sessions -> Nat]
      /\ handler \in [Workers -> Handler] /\ password \in Nat
      /\ \A t \in Tokens : token[t].session \in Sessions \cup {Nobody}
      /\ \A v \in Workers : handler[v].sessions \subseteq Sessions
  BY DEF AuthTypeOK, Token, Handler
<1>1. /\ UNCHANGED <<token, password, parallel>>
      /\ behind \subseteq behind'
  BY DEF createSession, accountVars, writtenBehind
<1>2. /\ \A r \in Sessions : exists(r) => exists(r)' /\ r # s /\ knew'[r] = knew[r]
      /\ \A r \in Sessions : r # s => session'[r] = session[r]
      /\ exists(s)' /\ knew'[s] = password
  BY <1>0 DEF exists
<1>3. /\ handler'[w].at = "createToken" /\ handler'[w].sessions = {s}
      /\ handler'[w].n = password
      /\ \A v \in Workers : v # w => handler'[v] = handler[v]
  BY <1>0 DEF becomes, job, Idle
<1>4. \A t \in Tokens : issued(t) => token[t].session \in Sessions /\ exists(token[t].session)
  BY <1>0 DEF TokensHaveSessions, issued
<1>5. \A t \in Tokens : token[t].session # s
  BY <1>2, <1>4, AuthAssumption DEF issued
<1>6. TokensHaveSessions' /\ OneTokenASession'
  BY <1>1, <1>2, <1>4 DEF TokensHaveSessions, OneTokenASession, issued, live
<1>7. HandlersAreDated'
  BY <1>0, <1>1, <1>3 DEF HandlersAreDated
<1>8. CreatorsAreAlone'
  <2>1. ASSUME NEW v \in Workers, v # w, at(v, "createToken"), NEW r \in handler[v].sessions
        PROVE  r # s /\ r \in Sessions
    BY <1>0, <1>2, <2>1 DEF CreatorsAreAlone
  <2>2. /\ exists(s)' /\ knew'[s] = handler'[w].n
        /\ \A t \in Tokens : token'[t].session # s
        /\ \A v \in Workers : at(v, "createToken")' /\ s \in handler'[v].sessions => v = w
    BY <1>1, <1>2, <1>3, <1>5, <2>1 DEF at
  <2> SUFFICES ASSUME NEW v \in Workers, v # w, at(v, "createToken")', NEW r \in handler'[v].sessions
               PROVE  /\ exists(r)' /\ knew'[r] = handler'[v].n
                      /\ \A t \in Tokens : token'[t].session # r
                      /\ \A x \in Workers : at(x, "createToken")' /\ r \in handler'[x].sessions => x = v
    BY <1>3, <2>2 DEF CreatorsAreAlone
  <2>3. handler'[v] = handler[v] /\ at(v, "createToken") /\ r # s /\ r \in Sessions
    BY <1>3, <2>1 DEF at
  <2>4. /\ exists(r) /\ knew[r] = handler[v].n
        /\ \A t \in Tokens : token[t].session # r
        /\ \A x \in Workers : at(x, "createToken") /\ r \in handler[x].sessions => x = v
    BY <2>3 DEF CreatorsAreAlone
  <2> QED BY <1>1, <1>2, <1>3, <2>3, <2>4 DEF at
<1>9. RotatorsAreAlone'
  <2> SUFFICES ASSUME NEW v \in Workers, at(v, "rotate")', NEW r \in handler'[v].sessions
               PROVE  /\ exists(r)' /\ (r \in behind' \/ knew'[r] = handler'[v].n)
                      /\ handler'[v].on \in Tokens /\ token'[handler'[v].on].session = r
                      /\ r \in parallel' \/ rotatesAlone(v, r)'
    BY DEF RotatorsAreAlone
  <2>1. at(v, "rotate") /\ v # w /\ handler'[v] = handler[v] /\ r \in Sessions
    BY <1>0, <1>3 DEF at
  <2>2. rotatesAlone(v, r) => rotatesAlone(v, r)'
    BY <1>1, <1>3, <2>1 DEF rotatesAlone, at, live, issued
  <2>3. /\ exists(r) /\ (r \in behind \/ knew[r] = handler[v].n)
        /\ handler[v].on \in Tokens /\ token[handler[v].on].session = r
        /\ r \in parallel \/ rotatesAlone(v, r)
    BY <2>1 DEF RotatorsAreAlone
  <2> QED BY <1>1, <1>2, <2>1, <2>2, <2>3
<1>10. TokensFollowThePassword'
  BY <1>0, <1>1, <1>2, <1>4 DEF TokensFollowThePassword, live, issued, exists
<1> QED
  BY <1>6, <1>7, <1>8, <1>9, <1>10

\* A new token of session s in an unused row, by a handler that leaves.
written(w, s, t) ==
  /\ s \in Sessions /\ t \in Tokens /\ ~issued(t)
  /\ token'[t].session = s /\ token'[t].iat <= password
  /\ \A u \in Tokens : u # t =>
       /\ token'[u].session = token[u].session /\ token'[u].iat = token[u].iat
       /\ live(u)' => live(u)
  /\ \A v \in Workers : v # w => handler'[v] = handler[v]
  /\ handler'[w].at \notin {"createSession", "createToken", "rotate"}
  /\ behind \subseteq behind' /\ (handler[w].n < password => s \in behind')
  /\ UNCHANGED <<session, knew, password, parallel>>

\* It is safe when nobody else holds a token of that session.
LEMMA WrittenInv ==
  ASSUME AuthInv, AuthTypeOK', NEW w \in Workers, NEW s, NEW t, written(w, s, t),
         exists(s), s \in behind \/ knew[s] = handler[w].n, handler[w].n <= password,
         \A v \in Workers : at(v, "createToken") /\ s \in handler[v].sessions => v = w,
         \A v \in Workers : at(v, "rotate") /\ s \in handler[v].sessions => v = w \/ s \in parallel,
         \A u \in Tokens : live(u)' /\ token'[u].session = s => u = t \/ s \in parallel
  PROVE  AuthInv'
<1> USE DEF AuthInv
<1>0. /\ password \in Nat /\ handler[w].n \in Nat
      /\ \A u \in Tokens : token[u].iat \in Int /\ token'[u].iat \in Int
      /\ \A v \in Workers : handler[v].sessions \subseteq Sessions
  BY DEF AuthTypeOK, Token, Handler
<1> USE DEF written
<1>1. TokensHaveSessions'
  BY DEF TokensHaveSessions, exists, issued
<1>2. HandlersAreDated'
  BY DEF HandlersAreDated
<1>3. CreatorsAreAlone'
  <2> SUFFICES ASSUME NEW v \in Workers, at(v, "createToken")', NEW r \in handler'[v].sessions
               PROVE  /\ exists(r)' /\ knew'[r] = handler'[v].n
                      /\ \A u \in Tokens : token'[u].session # r
                      /\ \A x \in Workers : at(x, "createToken")' /\ r \in handler'[x].sessions => x = v
    BY DEF CreatorsAreAlone
  <2>1. v # w /\ handler'[v] = handler[v] /\ at(v, "createToken") /\ r # s
    BY DEF at
  <2>2. \A x \in Workers : at(x, "createToken")' => at(x, "createToken") /\ handler'[x] = handler[x]
    BY DEF at
  <2> QED BY <2>1, <2>2 DEF CreatorsAreAlone, exists
<1>4. RotatorsAreAlone'
  <2> SUFFICES ASSUME NEW v \in Workers, at(v, "rotate")', NEW r \in handler'[v].sessions
               PROVE  /\ exists(r)' /\ (r \in behind' \/ knew'[r] = handler'[v].n)
                      /\ handler'[v].on \in Tokens /\ token'[handler'[v].on].session = r
                      /\ r \in parallel' \/ rotatesAlone(v, r)'
    BY DEF RotatorsAreAlone
  <2>1. v # w /\ handler'[v] = handler[v] /\ at(v, "rotate") /\ r \in Sessions
    BY <1>0 DEF at
  <2>2. /\ exists(r) /\ (r \in behind \/ knew[r] = handler[v].n)
        /\ handler[v].on \in Tokens /\ token[handler[v].on].session = r
        /\ r \in parallel \/ rotatesAlone(v, r)
    BY <2>1 DEF RotatorsAreAlone
  <2>3. handler[v].on # t
    BY <2>1, <2>2, AuthAssumption DEF issued
  <2>4. r # s /\ rotatesAlone(v, r) => rotatesAlone(v, r)'
    BY <2>1 DEF rotatesAlone, at
  <2>5. r \in parallel \/ r # s
    BY <2>1
  <2> QED BY <2>1, <2>2, <2>3, <2>4, <2>5 DEF exists
<1>5. TokensFollowThePassword'
  <2> SUFFICES ASSUME NEW u \in Tokens, live(u)', session'[token'[u].session] = "open",
                      token'[u].iat >= password', token'[u].session \notin behind'
               PROVE  knew'[token'[u].session] = password'
    BY DEF TokensFollowThePassword
  <2>1. CASE u = t
    BY <1>0, <2>1
  <2>2. CASE u # t
    BY <2>2 DEF TokensFollowThePassword
  <2> QED BY <2>1, <2>2
<1>6. OneTokenASession'
  BY DEF OneTokenASession
<1> QED
  BY <1>1, <1>2, <1>3, <1>4, <1>5, <1>6

LEMMA CreateTokenInv ==
  ASSUME AuthInv, NEW w \in Workers, createToken(w), AuthTypeOK'
  PROVE  AuthInv'
<1> USE DEF AuthInv
<1> PICK s \in handler[w].sessions, t \in Tokens : newToken(w, t, s)
  BY DEF createToken
<1> PICK iat \in (handler[w].n - 1)..password : token' = [token EXCEPT ![t] = made(s, iat)]
  BY DEF newToken
<1>0. /\ s \in Sessions /\ handler[w].n \in Nat /\ password \in Nat
      /\ handler \in [Workers -> Handler] /\ token \in [Tokens -> Token]
  BY DEF AuthTypeOK, Handler
<1>1. /\ exists(s) /\ knew[s] = handler[w].n /\ handler[w].n <= password
      /\ \A u \in Tokens : token[u].session # s
      /\ \A v \in Workers : at(v, "createToken") /\ s \in handler[v].sessions => v = w
  BY DEF createToken, CreatorsAreAlone, HandlersAreDated, at
<1>2. \A u \in Tokens : u # t => token'[u] = token[u]
  BY <1>0
<1>3. token'[t].session = s /\ token'[t].iat = iat
  BY <1>0 DEF made
<1>4. /\ handler'[w].at = "clearFailures"
      /\ \A v \in Workers : v # w => handler'[v] = handler[v]
  BY <1>0 DEF createToken, becomes, job, Idle
<1>5. \A u \in Tokens : u # t => (live(u)' <=> live(u))
  BY <1>2 DEF live, issued
<1>6. written(w, s, t)
  BY <1>0, <1>2, <1>3, <1>4, <1>5 DEF written, createToken, newToken, writtenBehind, accountVars
<1>7. \A v \in Workers : at(v, "rotate") => s \notin handler[v].sessions
  BY <1>1 DEF RotatorsAreAlone
<1>8. \A u \in Tokens : token'[u].session = s => u = t
  BY <1>1, <1>2
<1>9. AuthInv
  OBVIOUS
<1> HIDE DEF AuthInv
<1> QED
  BY <1>1, <1>6, <1>7, <1>8, <1>9, WrittenInv

LEMMA RotateInv ==
  ASSUME AuthInv, NEW w \in Workers, rotate(w), AuthTypeOK'
  PROVE  AuthInv'
<1> USE DEF AuthInv
<1> PICK s \in handler[w].sessions, t \in Tokens :
      /\ ~issued(t)
      /\ \E iat \in (handler[w].n - 1)..password :
           token' = [token EXCEPT ![t] = made(s, iat), ![handler[w].on].used = TRUE]
      /\ writtenBehind(w, s)
  BY DEF rotate
<1> PICK iat \in (handler[w].n - 1)..password :
      token' = [token EXCEPT ![t] = made(s, iat), ![handler[w].on].used = TRUE]
  OBVIOUS
<1> PICK old \in Tokens : old = handler[w].on
  BY DEF rotate, RotatorsAreAlone, at
<1>0. /\ s \in Sessions /\ handler[w].n \in Nat /\ password \in Nat
      /\ handler \in [Workers -> Handler] /\ token \in [Tokens -> Token]
  BY DEF AuthTypeOK, Handler
<1>1. /\ exists(s) /\ (s \in behind \/ knew[s] = handler[w].n) /\ handler[w].n <= password
      /\ old \in Tokens /\ token[old].session = s
      /\ s \in parallel \/ rotatesAlone(w, s)
  BY DEF rotate, RotatorsAreAlone, HandlersAreDated, at
<1>2. old # t
  BY <1>0, <1>1, AuthAssumption DEF issued
<1>3. /\ \A u \in Tokens : u # t /\ u # old => token'[u] = token[u]
      /\ token'[t] = made(s, iat)
      /\ token'[old] = [token[old] EXCEPT !.used = TRUE]
  BY <1>0, <1>1, <1>2
<1>4. /\ token'[t].session = s /\ token'[t].iat = iat /\ iat <= password
      /\ token'[old].session = s /\ token'[old].iat = token[old].iat /\ token'[old].used
  BY <1>0, <1>1, <1>3 DEF made, Token
<1>5. /\ handler'[w].at = "idle"
      /\ \A v \in Workers : v # w => handler'[v] = handler[v]
  BY <1>0 DEF rotate, ends, becomes, Idle
<1>6. ~live(old)'
  BY <1>4 DEF live
<1>11. \A u \in Tokens : u # t /\ u # old => (live(u)' <=> live(u))
  BY <1>3 DEF live, issued
<1>7. written(w, s, t)
  <2>1. \A u \in Tokens : u # t =>
          /\ token'[u].session = token[u].session /\ token'[u].iat = token[u].iat
          /\ live(u)' => live(u)
    <3> SUFFICES ASSUME NEW u \in Tokens, u # t
                 PROVE  /\ token'[u].session = token[u].session /\ token'[u].iat = token[u].iat
                        /\ live(u)' => live(u)
      OBVIOUS
    <3>1. CASE u = old
      BY <1>1, <1>4, <1>6, <3>1
    <3>2. CASE u # old
      BY <1>3, <1>11, <3>2
    <3> QED BY <3>1, <3>2
  <2>2. /\ behind \subseteq behind' /\ (handler[w].n < password => s \in behind')
        /\ UNCHANGED <<session, knew, password, parallel>>
    BY DEF rotate, writtenBehind, accountVars
  <2> QED BY <1>0, <1>4, <1>5, <2>1, <2>2 DEF written
<1>8. ASSUME NEW v \in Workers, at(v, "createToken") PROVE s \notin handler[v].sessions
  BY <1>1, <1>8 DEF CreatorsAreAlone
<1>9. \A v \in Workers : at(v, "rotate") /\ s \in handler[v].sessions => v = w \/ s \in parallel
  BY <1>1 DEF rotatesAlone
<1>10. \A u \in Tokens : live(u)' /\ token'[u].session = s => u = t \/ s \in parallel
  <2> SUFFICES ASSUME NEW u \in Tokens, live(u)', token'[u].session = s, u # t, s \notin parallel
               PROVE  FALSE
    OBVIOUS
  <2>1. u # old
    BY <1>6
  <2>2. live(u) /\ token[u].session = s
    BY <1>3, <1>11, <2>1
  <2> QED BY <1>1, <2>1, <2>2 DEF rotatesAlone
<1>12. AuthInv
  OBVIOUS
<1> HIDE DEF AuthInv
<1> QED
  BY <1>1, <1>7, <1>8, <1>9, <1>10, <1>12, WrittenInv

LEMMA StepInv ==
  ASSUME AuthInv, NEW w \in Workers, Step(w), AuthTypeOK'
  PROVE  AuthInv'
<1>0. /\ handler \in [Workers -> Handler] /\ password \in Nat
      /\ session \in [Sessions -> {"none", "open", "revoked"}] /\ token \in [Tokens -> Token]
      /\ \A v \in Workers : handler[v].sessions \subseteq Sessions
  BY DEF AuthInv, AuthTypeOK, Handler
<1>moves. ASSUME NEW h, becomes(w, h), h.at \notin {"createSession", "createToken", "rotate"}
          PROVE  \A v \in Workers :
                   \/ handler'[v] = handler[v]
                   \/ /\ handler'[v].at \notin {"createToken", "rotate"}
                      /\ handler'[v].at = "createSession" => handler'[v].n <= password
  BY <1>0, <1>moves DEF becomes
<1>ends. ASSUME ends(w)
         PROVE  \A v \in Workers :
                   \/ handler'[v] = handler[v]
                   \/ /\ handler'[v].at \notin {"createToken", "rotate"}
                      /\ handler'[v].at = "createSession" => handler'[v].n <= password
  BY <1>ends, <1>moves DEF ends, Idle
<1>1. CASE createUser(w)
  <2>1. ends(w) \/ becomes(w, job("mail"))
    BY <1>1 DEF createUser
  <2>2. quiet
    BY <1>1, <2>1, <1>ends, <1>moves DEF createUser, quiet, job, Idle, sessionVars, histories
  <2> QED BY <2>2, QuietInv
<1>2. CASE issueEmailVerification(w)
  BY <1>2, <1>ends, QuietInv DEF issueEmailVerification, quiet, accountVars, sessionVars, histories
<1>3. CASE verifyEmail(w)
  BY <1>3, <1>ends, QuietInv DEF verifyEmail, quiet, sessionVars, histories
<1>4. CASE countFailure(w)
  BY <1>4, <1>ends, QuietInv DEF countFailure, quiet, sessionVars, histories
<1>5. CASE createSession(w)
  BY <1>5, CreateSessionInv
<1>6. CASE createToken(w)
  BY <1>6, CreateTokenInv
<1>7. CASE clearFailures(w)
  BY <1>7, <1>ends, QuietInv DEF clearFailures, quiet, sessionVars, histories
<1>8. CASE rotate(w)
  BY <1>8, RotateInv
<1>9. CASE revokeSession(w)
  <2> PICK s \in handler[w].sessions :
        /\ session' = [session EXCEPT ![s] = "revoked"]
        /\ token' = [t \in Tokens |-> revoked({s}, token[t])]
        /\ IF handler[w].sessions = {s} THEN ends(w)
           ELSE becomes(w, [handler[w] EXCEPT !.sessions = @ \ {s}])
    BY <1>9 DEF revokeSession
  <2> DEFINE h == [handler[w] EXCEPT !.sessions = @ \ {s}]
  <2>1. h.at = "revoke"
    BY <1>0, <1>9 DEF revokeSession, at, Handler
  <2>2. ends(w) \/ becomes(w, h)
    OBVIOUS
  <2> HIDE DEF h
  <2>3. \A v \in Workers :
          \/ handler'[v] = handler[v]
          \/ /\ handler'[v].at \notin {"createToken", "rotate"}
             /\ handler'[v].at = "createSession" => handler'[v].n <= password
    BY <1>ends, <1>moves, <2>1, <2>2
  <2>4. \A t \in Tokens :
          /\ token'[t].session = token[t].session /\ token'[t].iat = token[t].iat
          /\ token[t].used => token'[t].used
          /\ token[t].revoked => token'[t].revoked
    BY <1>0, RevokedType
  <2>5. /\ \A r \in Sessions : session[r] # "none" => session'[r] # "none"
        /\ \A r \in Sessions : session'[r] = "open" => session[r] = "open"
    BY <1>0
  <2>6. quiet
    BY <1>9, <2>3, <2>4, <2>5 DEF revokeSession, quiet, accountVars, histories
  <2> QED BY <2>6, QuietInv
<1>10. CASE resetPassword(w)
  <2>1. \A t \in Tokens :
          /\ token'[t].session = token[t].session /\ token'[t].iat = token[t].iat
          /\ token[t].used => token'[t].used
          /\ token[t].revoked => token'[t].revoked
    BY <1>0, <1>10, RevokedType DEF resetPassword
  <2>2. /\ \A r \in Sessions : session[r] # "none" => session'[r] # "none"
        /\ \A r \in Sessions : session'[r] = "open" => session[r] = "open"
    BY <1>0, <1>10 DEF resetPassword
  <2>3. quiet
    BY <1>10, <1>ends, <2>1, <2>2 DEF resetPassword, quiet, histories
  <2> QED BY <2>3, QuietInv
<1>11. CASE changePassword(w)
  <2> PICK late \in SUBSET young[w] :
        /\ token' = [t \in Tokens |->
                      IF t \in late THEN dated(t, password + 1) ELSE token[t]]
        /\ behind' = behind \cup {s \in Sessions : \E t \in late : token[t].session = s}
    BY <1>11 DEF changePassword
  <2>1. password' = password + 1 /\ UNCHANGED <<session, knew, parallel>> /\ ends(w)
    BY <1>11 DEF changePassword
  <2>2. ASSUME NEW t \in Tokens
        PROVE  /\ token'[t].session = token[t].session
               /\ \/ token'[t].iat = token[t].iat
                  \/ token'[t].iat = password' /\ token[t].session \in behind' \cup {Nobody}
               /\ token'[t].used = token[t].used /\ token'[t].revoked = token[t].revoked
    <3>1. token[t] \in Token
      BY <1>0
    <3>2. CASE t \in late
      <4>1. token'[t] = dated(t, password')
        BY <2>1, <3>2
      <4> QED BY <3>1, <3>2, <4>1 DEF dated, Token
    <3>3. CASE t \notin late
      BY <3>3
    <3> QED BY <3>2, <3>3
  <2>3. quiet
    BY <1>ends, <2>1, <2>2 DEF quiet
  <2> QED BY <2>3, QuietInv
<1> QED
  BY <1>1, <1>2, <1>3, <1>4, <1>5, <1>6, <1>7, <1>8, <1>9, <1>10, <1>11 DEF Step

LEMMA NextInv == AuthInv /\ [Next]_vars => AuthInv'
<1> SUFFICES ASSUME AuthInv, [Next]_vars PROVE AuthInv'
  OBVIOUS
<1>0. AuthTypeOK' /\ handler \in [Workers -> Handler] /\ password \in Nat
  BY NextTypes DEF AuthInv, AuthTypeOK
<1>1. ASSUME NEW w \in Workers, abandon(w) PROVE AuthInv'
  <2>1. quiet
    BY <1>0, <1>1 DEF abandon, ends, becomes, Idle, quiet, accountVars, sessionVars, histories
  <2> QED BY <1>0, <2>1, QuietInv
<1>2. CASE forgotPassword
  BY <1>0, <1>2, QuietInv DEF forgotPassword, quiet, accountVars, sessionVars, histories
<1>3. CASE suspend
  BY <1>0, <1>3, QuietInv DEF suspend, quiet, sessionVars, histories
<1>4. CASE lockRunsOut
  BY <1>0, <1>4, QuietInv DEF lockRunsOut, quiet, sessionVars, histories
<1>5. CASE UNCHANGED vars
  BY <1>0, <1>5, QuietInv DEF vars, quiet, accountVars, sessionVars, histories
<1> QED
  BY <1>0, <1>1, <1>2, <1>3, <1>4, <1>5, RequestInv, StepInv DEF Next

\* The invariant holds at all times.
THEOREM AuthInvHolds == Spec => []AuthInv
BY InitInv, NextInv, PTL DEF Spec

\* Whatever can still be exchanged belongs to somebody who signed in with the
\* password of now, but for the handlers that looked before a change.
THEOREM TokensAlwaysFollowThePassword == Spec => []TokensFollowThePassword
<1>1. AuthInv => TokensFollowThePassword
  BY DEF AuthInv
<1> QED
  BY <1>1, AuthInvHolds, PTL

\* A session has one token to exchange at most, unless two refreshes of it
\* were in flight together.
THEOREM AlwaysOneTokenASession == Spec => []OneTokenASession
<1>1. AuthInv => OneTokenASession
  BY DEF AuthInv
<1> QED
  BY <1>1, AuthInvHolds, PTL

-----------------------------------------------------------------------------
(* What no step does                                                       *)

\* The step in SignedOutStaysOut.
staysOut(s) ==
  session[s] = "revoked" =>
    /\ session'[s] = "revoked"
    /\ (\A w \in Workers : ~writing(w, s)) =>
         /\ \A w \in Workers : ~writing(w, s)'
         /\ \A t \in Tokens : token'[t].session = s => token[t].session = s

\* No handler starts to write.
LEMMA NobodyStartsToWrite ==
  ASSUME NEW s \in Sessions,
         \A w \in Workers : handler'[w] = handler[w] \/ handler'[w].at \notin {"createToken", "rotate"}
  PROVE  (\A w \in Workers : ~writing(w, s)) => \A w \in Workers : ~writing(w, s)'
BY DEF writing

LEMMA RequestStaysOut ==
  ASSUME AuthInv, NEW w \in Workers, Request(w), NEW s \in Sessions
  PROVE  staysOut(s)
<1>0. handler \in [Workers -> Handler]
  BY DEF AuthInv, AuthTypeOK
<1>1. UNCHANGED <<session, token>>
  BY DEF Request, register, resendVerification, login, logoutAll, beginChangePassword,
    beginVerifyEmail, beginResetPassword, refresh, logout, begin, sessionVars
<1>2. ASSUME NEW h, becomes(w, h), h.at \notin {"createToken", "rotate"} PROVE staysOut(s)
  <2>1. \A v \in Workers : handler'[v] = handler[v] \/ handler'[v].at \notin {"createToken", "rotate"}
    BY <1>0, <1>2 DEF becomes
  <2> QED BY <1>1, <2>1, NobodyStartsToWrite DEF staysOut
<1>3. ASSUME NEW t \in Tokens, refresh(w, t) PROVE staysOut(s)
  <2> DEFINE h == [at |-> verdict(t), on |-> t, sessions |-> {token[t].session}, n |-> password]
  <2>1. becomes(w, h)
    BY <1>3 DEF refresh, begin
  <2>2. CASE verdict(t) = "revoke"
    BY <1>2, <2>1, <2>2
  <2>3. CASE verdict(t) = "rotate"
    <3>1. session[s] = "revoked" => s # token[t].session
      BY <2>3 DEF verdict
    <3>2. \A v \in Workers : handler'[v] = handler[v] \/ handler'[v] = h
      BY <1>0, <2>1 DEF becomes
    <3>3. session[s] = "revoked" /\ (\A v \in Workers : ~writing(v, s))
            => \A v \in Workers : ~writing(v, s)'
      BY <3>1, <3>2 DEF writing
    <3> QED BY <1>1, <3>3 DEF staysOut
  <2> QED BY <1>3, <2>2, <2>3 DEF refresh, verdict
<1>4. CASE register(w)
  BY <1>2, <1>4 DEF register, begin, job, Idle
<1>5. CASE resendVerification(w)
  BY <1>2, <1>5 DEF resendVerification, begin, job, Idle
<1>6. CASE login(w)
  <2> DEFINE fails == [job("countFailure") EXCEPT !.n = failed]
             succeeds == [job("createSession") EXCEPT !.n = password]
  <2>1. fails.at = "countFailure" /\ succeeds.at = "createSession"
    BY DEF job, Idle
  <2>2. becomes(w, fails) \/ becomes(w, succeeds)
    BY <1>6 DEF login, begin
  <2> HIDE DEF fails, succeeds
  <2> QED BY <1>2, <2>1, <2>2
<1>7. CASE logoutAll(w)
  <2> DEFINE h == [job("revoke") EXCEPT !.sessions = {r \in Sessions : session[r] = "open"}]
  <2>1. h.at = "revoke" /\ becomes(w, h)
    BY <1>7 DEF logoutAll, begin, job, Idle
  <2> HIDE DEF h
  <2> QED BY <1>2, <2>1
<1>8. CASE beginChangePassword(w)
  BY <1>2, <1>8 DEF beginChangePassword, begin, job, Idle
<1>9. ASSUME NEW k \in Links, beginVerifyEmail(w, k) PROVE staysOut(s)
  BY <1>2, <1>9 DEF beginVerifyEmail, begin, job, Idle
<1>10. ASSUME NEW k \in Links, beginResetPassword(w, k) PROVE staysOut(s)
  BY <1>2, <1>10 DEF beginResetPassword, begin, job, Idle
<1>11. ASSUME NEW t \in Tokens, logout(w, t) PROVE staysOut(s)
  BY <1>2, <1>11 DEF logout, begin, job, Idle
<1> QED
  BY <1>3, <1>4, <1>5, <1>6, <1>7, <1>8, <1>9, <1>10, <1>11 DEF Request

\* A change of the password touches nothing of a token but its date.
LEMMA ChangeDatesOnly ==
  ASSUME token \in [Tokens -> Token], NEW w \in Workers, changePassword(w), NEW t \in Tokens
  PROVE  /\ token'[t].session = token[t].session
         /\ token'[t].used = token[t].used /\ token'[t].revoked = token[t].revoked
<1>1. token'[t] \in {token[t], dated(t, password + 1)}
  BY DEF changePassword
<1>2. token[t] \in Token
  OBVIOUS
<1> QED
  BY <1>1, <1>2 DEF dated, Token

LEMMA StepStaysOut ==
  ASSUME AuthInv, NEW w \in Workers, Step(w), NEW s \in Sessions
  PROVE  staysOut(s)
<1>0. /\ handler \in [Workers -> Handler] /\ token \in [Tokens -> Token]
      /\ session \in [Sessions -> {"none", "open", "revoked"}]
  BY DEF AuthInv, AuthTypeOK
<1> DEFINE leaves == \A v \in Workers :
             handler'[v] = handler[v] \/ handler'[v].at \notin {"createToken", "rotate"}
<1>1. ASSUME NEW h, becomes(w, h), h.at \notin {"createToken", "rotate"} PROVE leaves
  BY <1>0, <1>1 DEF becomes
<1>2. ASSUME ends(w) PROVE leaves
  BY <1>1, <1>2 DEF ends, Idle
<1>3. ASSUME leaves, UNCHANGED <<session, token>> PROVE staysOut(s)
  BY <1>3, NobodyStartsToWrite DEF staysOut
<1>4. CASE createUser(w)
  <2>1. leaves
    BY <1>1, <1>2, <1>4 DEF createUser, job, Idle
  <2> QED BY <1>3, <1>4, <2>1 DEF createUser, sessionVars
<1>5. CASE issueEmailVerification(w)
  BY <1>2, <1>3, <1>5 DEF issueEmailVerification, sessionVars
<1>6. CASE verifyEmail(w)
  BY <1>2, <1>3, <1>6 DEF verifyEmail, sessionVars
<1>7. CASE countFailure(w)
  BY <1>2, <1>3, <1>7 DEF countFailure, sessionVars
<1>8. CASE createSession(w)
  <2> PICK r \in Sessions :
        /\ session[r] = "none"
        /\ session' = [session EXCEPT ![r] = "open"]
        /\ becomes(w, [job("createToken") EXCEPT !.sessions = {r}, !.n = password])
    BY <1>8 DEF createSession
  <2>1. session[s] = "revoked" => s # r /\ session'[s] = "revoked"
    BY <1>0
  <2>2. /\ handler'[w].sessions = {r}
        /\ \A v \in Workers : v # w => handler'[v] = handler[v]
    BY <1>0 DEF becomes, job, Idle
  <2>3. session[s] = "revoked" /\ (\A v \in Workers : ~writing(v, s))
          => \A v \in Workers : ~writing(v, s)'
    BY <2>1, <2>2 DEF writing
  <2> QED BY <1>8, <2>1, <2>3 DEF staysOut, createSession
<1>9. CASE createToken(w)
  <2> PICK r \in handler[w].sessions, t \in Tokens : newToken(w, t, r)
    BY <1>9 DEF createToken
  <2>1. leaves
    BY <1>1, <1>9 DEF createToken, job, Idle
  <2>2. \A u \in Tokens : token'[u].session = token[u].session \/ token'[u].session = r
    BY <1>0 DEF newToken, made
  <2>3. writing(w, r) /\ session' = session
    BY <1>9 DEF createToken, writing, at
  <2> QED BY <2>1, <2>2, <2>3, NobodyStartsToWrite DEF staysOut
<1>10. CASE clearFailures(w)
  BY <1>2, <1>3, <1>10 DEF clearFailures, sessionVars
<1>11. CASE rotate(w)
  <2> PICK r \in handler[w].sessions, t \in Tokens :
        \E iat \in (handler[w].n - 1)..password :
          token' = [token EXCEPT ![t] = made(r, iat), ![handler[w].on].used = TRUE]
    BY <1>11 DEF rotate
  <2>1. leaves
    BY <1>2, <1>11 DEF rotate
  <2>2. \A u \in Tokens : token'[u].session = token[u].session \/ token'[u].session = r
    BY <1>0 DEF made, Token
  <2>3. writing(w, r) /\ session' = session
    BY <1>11 DEF rotate, writing, at
  <2> QED BY <2>1, <2>2, <2>3, NobodyStartsToWrite DEF staysOut
<1>12. CASE revokeSession(w)
  <2> PICK r \in handler[w].sessions :
        /\ session' = [session EXCEPT ![r] = "revoked"]
        /\ token' = [t \in Tokens |-> revoked({r}, token[t])]
        /\ IF handler[w].sessions = {r} THEN ends(w)
           ELSE becomes(w, [handler[w] EXCEPT !.sessions = @ \ {r}])
    BY <1>12 DEF revokeSession
  <2> DEFINE h == [handler[w] EXCEPT !.sessions = @ \ {r}]
  <2>1. h.at = "revoke"
    BY <1>0, <1>12 DEF revokeSession, at, Handler
  <2>2. ends(w) \/ becomes(w, h)
    OBVIOUS
  <2> HIDE DEF h
  <2>3. leaves
    BY <1>1, <1>2, <2>1, <2>2
  <2>4. \A t \in Tokens : token'[t].session = token[t].session
    BY <1>0, RevokedType
  <2>5. session[s] = "revoked" => session'[s] = "revoked"
    BY <1>0
  <2> QED BY <2>3, <2>4, <2>5, NobodyStartsToWrite DEF staysOut
<1>13. CASE resetPassword(w)
  <2>1. leaves
    BY <1>2, <1>13 DEF resetPassword
  <2>2. \A t \in Tokens : token'[t].session = token[t].session
    BY <1>0, <1>13, RevokedType DEF resetPassword
  <2>3. session[s] = "revoked" => session'[s] = "revoked"
    BY <1>13 DEF resetPassword
  <2> QED BY <2>1, <2>2, <2>3, NobodyStartsToWrite DEF staysOut
<1>14. CASE changePassword(w)
  <2>1. leaves /\ session' = session
    BY <1>2, <1>14 DEF changePassword
  <2>2. \A t \in Tokens : token'[t].session = token[t].session
    BY <1>0, <1>14, ChangeDatesOnly
  <2> QED BY <2>1, <2>2, NobodyStartsToWrite DEF staysOut
<1> QED
  BY <1>4, <1>5, <1>6, <1>7, <1>8, <1>9, <1>10, <1>11, <1>12, <1>13, <1>14 DEF Step

\* A session that was signed out stays so; once the handlers that were past
\* their checks are through, none of its tokens is ever exchanged again.
THEOREM SignedOutAlwaysStaysOut == Spec => SignedOutStaysOut
<1>1. ASSUME AuthInv, [Next]_vars, NEW s \in Sessions PROVE staysOut(s)
  <2>0. handler \in [Workers -> Handler]
    BY <1>1 DEF AuthInv, AuthTypeOK
  <2>1. ASSUME NEW w \in Workers, abandon(w) PROVE staysOut(s)
    <3>1. \A v \in Workers : handler'[v] = handler[v] \/ handler'[v].at \notin {"createToken", "rotate"}
      BY <2>0, <2>1 DEF abandon, ends, becomes, Idle
    <3> QED BY <2>1, <3>1, NobodyStartsToWrite DEF staysOut, abandon, sessionVars
  <2>2. CASE forgotPassword \/ suspend \/ lockRunsOut \/ UNCHANGED vars
    <3>1. UNCHANGED <<session, token, handler>>
      BY <2>2 DEF forgotPassword, suspend, lockRunsOut, vars, sessionVars
    <3> QED BY <3>1, NobodyStartsToWrite DEF staysOut
  <2> QED
    BY <1>1, <2>1, <2>2, RequestStaysOut, StepStaysOut DEF Next
<1>2. AuthInv /\ [Next]_vars =>
        [\A s \in Sessions : session[s] = "revoked" =>
           /\ session'[s] = "revoked"
           /\ (\A w \in Workers : ~writing(w, s)) =>
                /\ \A w \in Workers : ~writing(w, s)'
                /\ \A t \in Tokens : token'[t].session = s => token[t].session = s]_vars
  BY <1>1 DEF staysOut
<1> QED
  BY <1>2, AuthInvHolds, PTL DEF Spec, SignedOutStaysOut

SignPlaces == {"countFailure", "createSession", "createToken", "clearFailures"}

\* While the account is locked and nobody is signing in, a step lets nobody
\* sign in, and leaves the lock unless it is time or a new password.
LEMMA LockedStep ==
  ASSUME AuthTypeOK, [Next]_vars, locked, \A w \in Workers : ~signingIn(w)
  PROVE  /\ \A w \in Workers : ~signingIn(w)'
         /\ locked' \/ lockRunsOut \/ password' # password
<1>0. handler \in [Workers -> Handler] /\ password \in Nat
  BY DEF AuthTypeOK
<1>signs. \A w \in Workers : handler[w].at \notin SignPlaces
  BY DEF signingIn, SignPlaces
<1> DEFINE out == \A v \in Workers : handler'[v].at \notin SignPlaces
<1> SUFFICES out /\ (locked' \/ lockRunsOut \/ password' # password)
  BY DEF signingIn, SignPlaces
<1>1. ASSUME NEW w \in Workers, NEW h, becomes(w, h), h.at \notin SignPlaces PROVE out
  BY <1>0, <1>1, <1>signs DEF becomes
<1>2. ASSUME NEW w \in Workers, ends(w) PROVE out
  BY <1>1, <1>2 DEF ends, Idle, SignPlaces
<1>3. ASSUME NEW w \in Workers, NEW h, begin(w, h), h.at \notin SignPlaces PROVE out /\ locked'
  BY <1>1, <1>3 DEF begin, accountVars
<1>4. ASSUME NEW w \in Workers, Request(w) PROVE out /\ locked'
  <2>1. CASE register(w)
    BY <1>3, <2>1 DEF register, job, Idle, SignPlaces
  <2>2. CASE resendVerification(w)
    BY <1>3, <2>2 DEF resendVerification, job, Idle, SignPlaces
  <2>3. ~login(w)
    BY DEF login
  <2>4. CASE logoutAll(w)
    <3> DEFINE h == [job("revoke") EXCEPT !.sessions = {s \in Sessions : session[s] = "open"}]
    <3>1. h.at = "revoke" /\ begin(w, h)
      BY <2>4 DEF logoutAll, job, Idle
    <3> HIDE DEF h
    <3> QED BY <1>3, <3>1 DEF SignPlaces
  <2>5. CASE beginChangePassword(w)
    BY <1>3, <2>5 DEF beginChangePassword, job, Idle, SignPlaces
  <2>6. ASSUME NEW k \in Links, beginVerifyEmail(w, k) PROVE out /\ locked'
    BY <1>3, <2>6 DEF beginVerifyEmail, job, Idle, SignPlaces
  <2>7. ASSUME NEW k \in Links, beginResetPassword(w, k) PROVE out /\ locked'
    BY <1>3, <2>7 DEF beginResetPassword, job, Idle, SignPlaces
  <2>8. ASSUME NEW t \in Tokens, refresh(w, t) PROVE out /\ locked'
    BY <1>3, <2>8 DEF refresh, verdict, SignPlaces
  <2>9. ASSUME NEW t \in Tokens, logout(w, t) PROVE out /\ locked'
    BY <1>3, <2>9 DEF logout, job, Idle, SignPlaces
  <2> QED
    BY <1>4, <2>1, <2>2, <2>3, <2>4, <2>5, <2>6, <2>7, <2>8, <2>9 DEF Request
<1>5. ASSUME NEW w \in Workers, Step(w) PROVE out /\ (locked' \/ password' # password)
  <2>1. CASE createUser(w)
    BY <1>1, <1>2, <2>1 DEF createUser, job, Idle, SignPlaces
  <2>2. CASE issueEmailVerification(w)
    BY <1>2, <2>2 DEF issueEmailVerification, accountVars
  <2>3. CASE verifyEmail(w)
    BY <1>2, <2>3 DEF verifyEmail
  <2>4. ~countFailure(w) /\ ~createSession(w) /\ ~createToken(w) /\ ~clearFailures(w)
    BY <1>signs DEF countFailure, createSession, createToken, clearFailures, at, SignPlaces
  <2>5. CASE rotate(w)
    BY <1>2, <2>5 DEF rotate, accountVars
  <2>6. CASE revokeSession(w)
    <3> PICK s \in handler[w].sessions :
          IF handler[w].sessions = {s} THEN ends(w)
          ELSE becomes(w, [handler[w] EXCEPT !.sessions = @ \ {s}])
      BY <2>6 DEF revokeSession
    <3> DEFINE h == [handler[w] EXCEPT !.sessions = @ \ {s}]
    <3>1. h.at = "revoke"
      BY <1>0, <2>6 DEF revokeSession, at, Handler
    <3>2. ends(w) \/ becomes(w, h)
      OBVIOUS
    <3> HIDE DEF h
    <3>3. out
      BY <1>1, <1>2, <3>1, <3>2 DEF SignPlaces
    <3> QED BY <2>6, <3>3 DEF revokeSession, accountVars
  <2>7. CASE resetPassword(w)
    BY <1>0, <1>2, <2>7 DEF resetPassword
  <2>8. CASE changePassword(w)
    BY <1>2, <2>8 DEF changePassword
  <2> QED
    BY <1>5, <2>1, <2>2, <2>3, <2>4, <2>5, <2>6, <2>7, <2>8 DEF Step
<1>6. ASSUME NEW w \in Workers, abandon(w) PROVE out /\ locked'
  BY <1>2, <1>6 DEF abandon, accountVars
<1>7. CASE forgotPassword \/ suspend \/ lockRunsOut \/ UNCHANGED vars
  <2>1. out
    BY <1>7, <1>signs DEF forgotPassword, suspend, lockRunsOut, vars
  <2>2. locked' \/ lockRunsOut
    BY <1>7 DEF forgotPassword, suspend, vars, accountVars
  <2> QED BY <2>1, <2>2
<1> QED
  BY <1>4, <1>5, <1>6, <1>7 DEF Next

\* A locked account stays locked, and nobody signs in to it.
THEOREM LocksAlwaysHold == Spec => LocksHold
<1>1. AuthTypeOK /\ [Next]_vars =>
        [locked /\ (\A w \in Workers : ~signingIn(w)) =>
           /\ \A w \in Workers : ~signingIn(w)'
           /\ locked' \/ lockRunsOut \/ password' # password]_vars
  BY LockedStep
<1> QED
  BY <1>1, AuthTypes, PTL DEF Spec, LocksHold
-----------------------------------------------------------------------------
(* Token families                                                          *)

dead(t) == token[t].used \/ token[t].revoked

\* Who rotates holds a token that is good yet, unless another refresh runs
\* beside it or the session ended meanwhile.
HoldersAreGood ==
  \A w \in Workers : at(w, "rotate") =>
    \A s \in handler[w].sessions :
      s \in parallel \/ session[s] = "revoked" \/ ~dead(handler[w].on)

\* Who revokes knows sessions that were made.
RevokersKnow ==
  \A w \in Workers : at(w, "revoke") => \A s \in handler[w].sessions : exists(s)

\* A token that was not given yet was not spent either.
BlanksAreGood == \A t \in Tokens : ~issued(t) => ~dead(t)

FamilyInv == AuthInv /\ HoldersAreGood /\ RevokersKnow /\ BlanksAreGood

\* Sessions are not unmade, and revoked ones stay so.
LEMMA SessionsOnward ==
  ASSUME AuthInv, [Next]_vars, NEW s \in Sessions
  PROVE  /\ session'[s] \in {"none", "open", "revoked"}
         /\ session[s] # "none" => session'[s] # "none"
         /\ session[s] = "revoked" => session'[s] = "revoked"
<1>0. session \in [Sessions -> {"none", "open", "revoked"}] /\ AuthTypeOK'
  BY NextInv DEF AuthInv, AuthTypeOK
<1>1. session'[s] \in {"none", "open", "revoked"}
  BY <1>0 DEF AuthTypeOK
<1>2. ASSUME NEW w \in Workers, createSession(w)
      PROVE  session[s] # "none" => session'[s] = session[s]
  BY <1>0, <1>2 DEF createSession
<1>3. ASSUME NEW w \in Workers, revokeSession(w)
      PROVE  session'[s] = session[s] \/ session'[s] = "revoked"
  BY <1>0, <1>3 DEF revokeSession
<1>4. ASSUME NEW w \in Workers, resetPassword(w)
      PROVE  session'[s] = session[s] \/ session'[s] = "revoked"
  BY <1>0, <1>4 DEF resetPassword
<1>5. \/ session' = session
      \/ \E w \in Workers : createSession(w) \/ revokeSession(w) \/ resetPassword(w)
  BY DEF Next, Request, Step, register, resendVerification, login, logoutAll,
    beginChangePassword, beginVerifyEmail, beginResetPassword, refresh, logout, begin,
    createUser, issueEmailVerification, verifyEmail, countFailure, createToken,
    clearFailures, rotate, changePassword, abandon, forgotPassword, suspend, lockRunsOut,
    vars, sessionVars
<1> QED
  BY <1>1, <1>2, <1>3, <1>4, <1>5

\* What a handler knows when it sets out to exchange a token or to sign out.
informed(h) ==
  \/ h.at \notin {"rotate", "revoke"}
  \/ h.at = "revoke" /\ \A s \in h.sessions : exists(s)
  \/ h.at = "rotate" /\ ~dead(h.on) /\ token' = token

LEMMA HandlersChange ==
  ASSUME FamilyInv, [Next]_vars, NEW v \in Workers
  PROVE  handler'[v] = handler[v] \/ informed(handler'[v])
<1>0. /\ handler \in [Workers -> Handler] /\ token \in [Tokens -> Token]
      /\ \A t \in Tokens : issued(t) => exists(token[t].session)
  BY DEF FamilyInv, AuthInv, AuthTypeOK, TokensHaveSessions
<1> DEFINE known == handler'[v] = handler[v] \/ informed(handler'[v])
<1>1. ASSUME NEW w \in Workers, NEW h, becomes(w, h), informed(h) PROVE known
  BY <1>0, <1>1 DEF becomes
<1>2. ASSUME NEW w \in Workers, NEW h, becomes(w, h), h.at \notin {"rotate", "revoke"} PROVE known
  BY <1>1, <1>2 DEF informed
<1>3. ASSUME NEW w \in Workers, ends(w) PROVE known
  BY <1>2, <1>3 DEF ends, Idle
<1>4. ASSUME NEW w \in Workers, NEW t \in Tokens, refresh(w, t) PROVE known
  <2> DEFINE h == [at |-> verdict(t), on |-> t, sessions |-> {token[t].session}, n |-> password]
  <2>1. becomes(w, h) /\ token' = token /\ exists(token[t].session)
    BY <1>0, <1>4 DEF refresh, begin, sessionVars
  <2>2. h.at = verdict(t) /\ h.on = t /\ h.sessions = {token[t].session}
    OBVIOUS
  <2>3. \/ verdict(t) = "revoke"
        \/ verdict(t) = "rotate" /\ ~dead(t)
    BY <1>4 DEF refresh, verdict, dead
  <2> HIDE DEF h
  <2>4. informed(h)
    BY <2>1, <2>2, <2>3 DEF informed
  <2> QED BY <1>1, <2>1, <2>4
<1>5. ASSUME NEW w \in Workers, NEW t \in Tokens, logout(w, t) PROVE known
  <2> DEFINE h == [job("revoke") EXCEPT !.sessions = {token[t].session}]
  <2>1. becomes(w, h) /\ exists(token[t].session)
    BY <1>0, <1>5 DEF logout, begin
  <2>2. h.at = "revoke" /\ h.sessions = {token[t].session}
    BY DEF job, Idle
  <2> HIDE DEF h
  <2>3. informed(h)
    BY <2>1, <2>2 DEF informed
  <2> QED BY <1>1, <2>1, <2>3
<1>6. ASSUME NEW w \in Workers, logoutAll(w) PROVE known
  <2> DEFINE h == [job("revoke") EXCEPT !.sessions = {s \in Sessions : session[s] = "open"}]
  <2>1. becomes(w, h)
    BY <1>6 DEF logoutAll, begin
  <2>2. h.at = "revoke" /\ \A s \in h.sessions : exists(s)
    BY DEF job, Idle, exists
  <2> HIDE DEF h
  <2>3. informed(h)
    BY <2>2 DEF informed
  <2> QED BY <1>1, <2>1, <2>3
<1>7. ASSUME NEW w \in Workers, revokeSession(w) PROVE known
  <2> PICK s \in handler[w].sessions :
        IF handler[w].sessions = {s} THEN ends(w)
        ELSE becomes(w, [handler[w] EXCEPT !.sessions = @ \ {s}])
    BY <1>7 DEF revokeSession
  <2> DEFINE h == [handler[w] EXCEPT !.sessions = @ \ {s}]
  <2>1. h.at = "revoke" /\ h.sessions \subseteq handler[w].sessions
    BY <1>0, <1>7 DEF revokeSession, at, Handler
  <2>2. \A r \in handler[w].sessions : exists(r)
    BY <1>7 DEF revokeSession, FamilyInv, RevokersKnow
  <2>3. ends(w) \/ becomes(w, h)
    OBVIOUS
  <2> HIDE DEF h
  <2>4. informed(h)
    BY <2>1, <2>2 DEF informed
  <2> QED BY <1>1, <1>3, <2>3, <2>4
<1>8. ASSUME NEW w \in Workers, createSession(w) PROVE known
  <2> PICK s \in Sessions :
        becomes(w, [job("createToken") EXCEPT !.sessions = {s}, !.n = password])
    BY <1>8 DEF createSession
  <2>1. [job("createToken") EXCEPT !.sessions = {s}, !.n = password].at = "createToken"
    BY DEF job, Idle
  <2> QED BY <1>2, <2>1
<1>9. ASSUME NEW w \in Workers, login(w) PROVE known
  <2> DEFINE fails == [job("countFailure") EXCEPT !.n = failed]
             succeeds == [job("createSession") EXCEPT !.n = password]
  <2>1. fails.at = "countFailure" /\ succeeds.at = "createSession"
    BY DEF job, Idle
  <2>2. becomes(w, fails) \/ becomes(w, succeeds)
    BY <1>9 DEF login, begin
  <2> HIDE DEF fails, succeeds
  <2> QED BY <1>2, <2>1, <2>2
<1>10. ASSUME NEW w \in Workers,
              \/ register(w) \/ resendVerification(w) \/ beginChangePassword(w)
              \/ createUser(w) \/ createToken(w)
       PROVE  known
  <2>1. \A place \in {"createUser", "mail", "change", "clearFailures"} :
          job(place).at \notin {"rotate", "revoke"}
    BY DEF job, Idle
  <2>2. \/ ends(w)
        \/ \E place \in {"createUser", "mail", "change", "clearFailures"} : becomes(w, job(place))
    BY <1>10 DEF register, resendVerification, beginChangePassword, createUser, createToken, begin
  <2> QED BY <1>2, <1>3, <2>1, <2>2
<1>11. ASSUME NEW w \in Workers, NEW k \in Links,
              beginVerifyEmail(w, k) \/ beginResetPassword(w, k)
       PROVE  known
  <2> DEFINE verifies == [job("verify") EXCEPT !.on = k]
             resets == [job("reset") EXCEPT !.on = k]
  <2>1. verifies.at = "verify" /\ resets.at = "reset"
    BY DEF job, Idle
  <2>2. becomes(w, verifies) \/ becomes(w, resets)
    BY <1>11 DEF beginVerifyEmail, beginResetPassword, begin
  <2> HIDE DEF verifies, resets
  <2> QED BY <1>2, <2>1, <2>2
<1>12. ASSUME NEW w \in Workers,
              \/ issueEmailVerification(w) \/ verifyEmail(w) \/ countFailure(w)
              \/ clearFailures(w) \/ rotate(w) \/ resetPassword(w) \/ changePassword(w)
              \/ abandon(w)
       PROVE  known
  BY <1>3, <1>12 DEF issueEmailVerification, verifyEmail, countFailure, clearFailures, rotate,
    resetPassword, changePassword, abandon
<1>13. CASE forgotPassword \/ suspend \/ lockRunsOut \/ UNCHANGED vars
  BY <1>13 DEF forgotPassword, suspend, lockRunsOut, vars
<1> QED
  BY <1>4, <1>5, <1>6, <1>7, <1>8, <1>9, <1>10, <1>11, <1>12, <1>13 DEF Next, Request, Step

\* Who writes to the tokens.
LEMMA TokensMove ==
  ASSUME [Next]_vars
  PROVE  \/ token' = token
         \/ \E w \in Workers : \/ createToken(w) \/ rotate(w)
                               \/ revokeSession(w) \/ resetPassword(w) \/ changePassword(w)
BY DEF Next, Request, Step, register, resendVerification, login, logoutAll,
  beginChangePassword, beginVerifyEmail, beginResetPassword, refresh, logout, begin,
  createUser, issueEmailVerification, verifyEmail, countFailure, createSession,
  clearFailures, abandon, forgotPassword, suspend, lockRunsOut, vars, sessionVars

\* A token dies by being exchanged or with its session.
LEMMA TokensChange ==
  ASSUME AuthInv, [Next]_vars, NEW t \in Tokens, issued(t)
  PROVE  \/ dead(t)' => dead(t)
         \/ session'[token[t].session] = "revoked"
         \/ \E w \in Workers : rotate(w) /\ handler[w].on = t
<1>0. /\ token \in [Tokens -> Token] /\ session \in [Sessions -> {"none", "open", "revoked"}]
      /\ token[t].session \in Sessions /\ exists(token[t].session)
  BY DEF AuthInv, AuthTypeOK, Token, TokensHaveSessions, issued
<1>1. CASE token' = token
  BY <1>1 DEF dead
<1>2. ASSUME NEW w \in Workers, createToken(w) PROVE dead(t)' => dead(t)
  BY <1>0, <1>2 DEF createToken, newToken, dead
<1>3. ASSUME NEW w \in Workers, rotate(w), handler[w].on # t PROVE dead(t)' => dead(t)
  <2> PICK s \in handler[w].sessions, u \in Tokens, iat \in (handler[w].n - 1)..password :
        /\ ~issued(u)
        /\ token' = [token EXCEPT ![u] = made(s, iat), ![handler[w].on].used = TRUE]
    BY <1>3 DEF rotate
  <2>1. token'[t] = token[t]
    BY <1>0, <1>3
  <2> QED BY <2>1 DEF dead
<1>4. ASSUME NEW w \in Workers, revokeSession(w)
      PROVE  (dead(t)' => dead(t)) \/ session'[token[t].session] = "revoked"
  <2> PICK s \in handler[w].sessions :
        /\ session' = [session EXCEPT ![s] = "revoked"]
        /\ token' = [u \in Tokens |-> revoked({s}, token[u])]
    BY <1>4 DEF revokeSession
  <2>1. CASE token[t].session = s
    BY <1>0, <2>1
  <2>2. CASE token[t].session # s
    <3>1. token'[t] = revoked({s}, token[t])
      OBVIOUS
    <3>2. revoked({s}, token[t]) = token[t]
      <4>1. token[t] = [session |-> token[t].session, iat |-> token[t].iat,
                        used |-> token[t].used, revoked |-> token[t].revoked]
        BY <1>0 DEF Token
      <4>2. token[t].revoked \in BOOLEAN
        BY <1>0 DEF Token
      <4> QED BY <2>2, <4>1, <4>2 DEF revoked
    <3> QED BY <3>1, <3>2 DEF dead
  <2> QED BY <2>1, <2>2
<1>5. ASSUME NEW w \in Workers, resetPassword(w) PROVE session'[token[t].session] = "revoked"
  BY <1>0, <1>5 DEF resetPassword, exists
<1>6. ASSUME NEW w \in Workers, changePassword(w) PROVE dead(t)' => dead(t)
  BY <1>0, <1>6, ChangeDatesOnly DEF dead
<1> QED
  BY <1>1, <1>2, <1>3, <1>4, <1>5, <1>6, TokensMove

\* A token that is not given is not spent.
LEMMA BlanksStay ==
  ASSUME FamilyInv, [Next]_vars, NEW t \in Tokens, token'[t].session = Nobody
  PROVE  token'[t].session = token[t].session /\ (dead(t)' <=> dead(t))
<1>0. /\ token \in [Tokens -> Token] /\ Nobody \notin Sessions
      /\ handler \in [Workers -> Handler]
  BY AuthAssumption DEF FamilyInv, AuthInv, AuthTypeOK
<1> SUFFICES token'[t] = token[t] \/ \E w \in Workers : changePassword(w)
  BY <1>0, ChangeDatesOnly DEF dead
<1>1. CASE token' = token
  BY <1>1
<1>2. ASSUME NEW w \in Workers, createToken(w) PROVE token'[t] = token[t]
  BY <1>0, <1>2 DEF createToken, newToken, made, Handler
<1>3. ASSUME NEW w \in Workers, rotate(w) PROVE token'[t] = token[t]
  <2> PICK s \in handler[w].sessions, u \in Tokens, iat \in (handler[w].n - 1)..password :
        token' = [token EXCEPT ![u] = made(s, iat), ![handler[w].on].used = TRUE]
    BY <1>3 DEF rotate
  <2>1. s \in Sessions /\ token[handler[w].on].session = s /\ handler[w].on \in Tokens
    BY <1>0, <1>3 DEF rotate, FamilyInv, AuthInv, RotatorsAreAlone, Handler
  <2>2. t # u /\ t # handler[w].on
    BY <1>0, <2>1 DEF made, Token
  <2> QED BY <1>0, <2>2
<1>4. ASSUME NEW S \in SUBSET Sessions, token'[t] = revoked(S, token[t])
      PROVE  token'[t] = token[t]
  <2>1. token[t].session = Nobody
    BY <1>0, <1>4, RevokedType
  <2>2. token[t] = [session |-> token[t].session, iat |-> token[t].iat,
                    used |-> token[t].used, revoked |-> token[t].revoked]
    BY <1>0 DEF Token
  <2>3. token[t].revoked \in BOOLEAN
    BY <1>0 DEF Token
  <2> QED BY <1>0, <1>4, <2>1, <2>2, <2>3 DEF revoked
<1>5. ASSUME NEW w \in Workers, revokeSession(w) PROVE token'[t] = token[t]
  <2> PICK s \in handler[w].sessions : token' = [u \in Tokens |-> revoked({s}, token[u])]
    BY <1>5 DEF revokeSession
  <2>1. {s} \in SUBSET Sessions
    BY <1>0 DEF Handler
  <2> QED BY <1>4, <2>1
<1>6. ASSUME NEW w \in Workers, resetPassword(w) PROVE token'[t] = token[t]
  BY <1>4, <1>6 DEF resetPassword
<1> QED
  BY <1>1, <1>2, <1>3, <1>5, <1>6, TokensMove

LEMMA FamilyStep == FamilyInv /\ [Next]_vars => FamilyInv'
<1> SUFFICES ASSUME FamilyInv, [Next]_vars PROVE FamilyInv'
  OBVIOUS
<1>0. /\ AuthInv /\ AuthInv' /\ handler' \in [Workers -> Handler]
      /\ \A w \in Workers : handler[w].sessions \subseteq Sessions
      /\ \A w \in Workers : handler'[w].sessions \subseteq Sessions
  BY NextInv DEF FamilyInv, AuthInv, AuthTypeOK, Handler
<1>1. RevokersKnow'
  <2> SUFFICES ASSUME NEW w \in Workers, handler'[w].at = "revoke", NEW s \in handler'[w].sessions
               PROVE  session'[s] # "none"
    BY DEF RevokersKnow, at, exists
  <2>1. exists(s)
    BY HandlersChange DEF informed, FamilyInv, RevokersKnow, at
  <2> QED BY <1>0, <2>1, SessionsOnward DEF exists
<1>2. HoldersAreGood'
  <2>0. ASSUME NEW w \in Workers, at(w, "rotate"), NEW s \in handler[w].sessions
        PROVE  /\ handler[w].on \in Tokens /\ token[handler[w].on].session = s
               /\ s \in parallel \/ rotatesAlone(w, s)
    BY <2>0 DEF FamilyInv, AuthInv, RotatorsAreAlone
  <2> SUFFICES ASSUME NEW w \in Workers, handler'[w].at = "rotate", NEW s \in handler'[w].sessions,
                      s \notin parallel', session'[s] # "revoked"
               PROVE  ~(token'[handler'[w].on].used \/ token'[handler'[w].on].revoked)
    BY DEF HoldersAreGood, at, dead
  <2> PICK t : t = handler'[w].on
    OBVIOUS
  <2>1. CASE informed(handler'[w])
    BY <2>1 DEF informed, dead
  <2>2. CASE handler'[w] = handler[w]
    <3>1. s \notin parallel /\ session[s] # "revoked"
      <4>1. parallel \subseteq parallel'
        BY DEF Next, Request, Step, register, resendVerification, login, logoutAll,
          beginChangePassword, beginVerifyEmail, beginResetPassword, refresh, logout,
          createUser, issueEmailVerification, verifyEmail, countFailure, createSession,
          createToken, clearFailures, rotate, revokeSession, resetPassword, changePassword,
          abandon, forgotPassword, suspend, lockRunsOut, vars, histories
      <4> QED BY <1>0, <4>1, SessionsOnward
    <3>2. at(w, "rotate") /\ s \in handler[w].sessions /\ t = handler[w].on
      BY <2>2 DEF at
    <3>3. t \in Tokens /\ token[t].session = s /\ rotatesAlone(w, s)
      BY <2>0, <3>1, <3>2
    <3>4. issued(t) /\ ~dead(t)
      BY <1>0, <3>1, <3>2, <3>3, AuthAssumption DEF FamilyInv, HoldersAreGood, issued
    <3>5. ASSUME NEW v \in Workers, rotate(v), handler[v].on = t PROVE FALSE
      <4>1. PICK r \in handler[v].sessions : TRUE
        BY <3>5 DEF rotate
      <4>2. at(v, "rotate")
        BY <3>5 DEF rotate
      <4>3. token[t].session = r
        BY <2>0, <3>5, <4>1, <4>2
      <4>4. v = w
        BY <3>3, <4>1, <4>2, <4>3 DEF rotatesAlone
      <4>5. handler'[w] = Idle
        BY <3>5, <4>4 DEF rotate, ends, becomes, FamilyInv, AuthInv, AuthTypeOK
      <4> QED BY <4>5 DEF Idle
    <3>6. dead(t)' => dead(t)
      BY <1>0, <3>3, <3>4, <3>5, TokensChange
    <3>7. ~(token'[t].used \/ token'[t].revoked)
      BY <3>4, <3>6 DEF dead
    <3> QED BY <3>7
  <2> QED BY <2>1, <2>2, HandlersChange
<1>3. BlanksAreGood'
  <2> SUFFICES ASSUME NEW t \in Tokens, token'[t].session = Nobody
               PROVE  ~(token'[t].used \/ token'[t].revoked)
    BY DEF BlanksAreGood, issued, dead
  <2>1. token'[t].session = token[t].session /\ (dead(t)' <=> dead(t))
    BY BlanksStay
  <2> QED BY <2>1 DEF FamilyInv, BlanksAreGood, issued, dead
<1> QED
  BY <1>0, <1>1, <1>2, <1>3 DEF FamilyInv

LEMMA FamilyHolds == Spec => []FamilyInv
<1>1. Init => FamilyInv
  <2> SUFFICES ASSUME Init PROVE FamilyInv
    OBVIOUS
  <2>1. \A w \in Workers : handler[w].at = "idle"
    BY DEF Init, Idle
  <2>2. BlanksAreGood
    BY DEF Init, BlanksAreGood, dead, NoToken, made
  <2> QED BY <2>1, <2>2, InitInv DEF FamilyInv, HoldersAreGood, RevokersKnow, at
<1> QED
  BY <1>1, FamilyStep, PTL DEF Spec

\* The state of TokenFamily, as AuthService maps it.
families == [t \in Tokens |-> token[t].session]
spents == {t \in Tokens : token[t].used \/ token[t].revoked}

\* The families see nothing but sessions, tokens and what is contested.
LEMMA FamilyStutters ==
  ASSUME UNCHANGED <<session, token, parallel>>
  PROVE  UNCHANGED Family!vars
<1>1. families' = families /\ spents' = spents
  BY DEF families, spents
<1> QED
  BY <1>1 DEF Family!vars, families, spents

LEMMA RequestFamily ==
  ASSUME FamilyInv, NEW w \in Workers, Request(w)
  PROVE  [Family!Next]_(Family!vars)
<1>0. session' = session /\ token' = token
  BY DEF Request, register, resendVerification, login, logoutAll, beginChangePassword,
    beginVerifyEmail, beginResetPassword, refresh, logout, begin, sessionVars
<1>1. ASSUME parallel' = parallel PROVE UNCHANGED Family!vars
  BY <1>0, <1>1, FamilyStutters
<1>2. ASSUME NEW s \in Sessions, parallel' = parallel \cup {s} PROVE Family!Next
  <2>1. families' = families /\ spents' = spents
    BY <1>0 DEF families, spents
  <2>2. Family!Contest(s)
    BY <1>0, <1>2, <2>1 DEF Family!Contest, families, spents
  <2> QED BY <2>2 DEF Family!Next
<1>3. \/ parallel' = parallel
      \/ \E s \in Sessions : parallel' = parallel \cup {s}
  <2>1. ASSUME NEW t \in Tokens, refresh(w, t)
        PROVE  \/ parallel' = parallel
               \/ \E s \in Sessions : parallel' = parallel \cup {s}
    <3>1. token[t].session \in Sessions
      BY <2>1 DEF refresh, issued, FamilyInv, AuthInv, AuthTypeOK, Token
    <3> QED BY <2>1, <3>1 DEF refresh
  <2> QED BY <2>1 DEF Request, register, resendVerification, login, logoutAll,
    beginChangePassword, beginVerifyEmail, beginResetPassword, logout
<1> QED
  BY <1>1, <1>2, <1>3

\* Ending the sessions of S, with all their tokens.
LEMMA Ends ==
  ASSUME FamilyInv, NEW S \in SUBSET Sessions, \A s \in S : session[s] # "none",
         \A s \in Sessions : session'[s] = IF s \in S THEN "revoked" ELSE session[s],
         session' \in [Sessions -> {"none", "open", "revoked"}],
         \A t \in Tokens : token'[t] = revoked(S, token[t]),
         parallel' = parallel
  PROVE  Family!Next
<1>0. token \in [Tokens -> Token]
  BY DEF FamilyInv, AuthInv, AuthTypeOK
<1>1. \A t \in Tokens :
        /\ token'[t].session = token[t].session
        /\ dead(t)' <=> (dead(t) \/ token[t].session \in S)
  <2> SUFFICES ASSUME NEW t \in Tokens
               PROVE  /\ token'[t].session = token[t].session
                      /\ dead(t)' <=> (dead(t) \/ token[t].session \in S)
    OBVIOUS
  <2>1. token'[t] = [token[t] EXCEPT !.revoked = token[t].revoked \/ token[t].session \in S]
    BY DEF revoked
  <2>2. token[t] \in Token
    BY <1>0
  <2>3. token'[t].session = token[t].session
    BY <2>1, <2>2 DEF Token
  <2>4. token'[t].used = token[t].used
    BY <2>1, <2>2 DEF Token
  <2>5. token'[t].revoked = (token[t].revoked \/ token[t].session \in S)
    BY <2>1, <2>2 DEF Token
  <2> QED BY <2>3, <2>4, <2>5 DEF dead
<1>2. families' = families
  BY <1>1 DEF families
<1>3. spents' = spents \cup {t \in Tokens : families[t] \in S}
  BY <1>1 DEF spents, families, dead
<1>4. session' = [s \in Sessions |-> IF s \in S THEN "revoked" ELSE session[s]]
  OBVIOUS
<1>5. Family!End(S)
  BY <1>2, <1>3, <1>4 DEF Family!End, families, spents
<1> QED
  BY <1>5 DEF Family!Next

\* Giving token t, that was not given yet, to session s, while the tokens of
\* "used" are spent.
LEMMA Gives ==
  ASSUME FamilyInv, NEW t \in Tokens, ~issued(t), NEW s \in Sessions,
         NEW used \in SUBSET (Tokens \ {t}),
         token'[t].session = s, ~dead(t)',
         \A u \in Tokens \ {t} : /\ token'[u].session = token[u].session
                                 /\ dead(u)' <=> (dead(u) \/ u \in used)
  PROVE  /\ families[t] = Nobody /\ families' = [families EXCEPT ![t] = s]
         /\ spents' = spents \cup used
<1>1. families' = [families EXCEPT ![t] = s]
  BY DEF families
<1>2. families[t] = Nobody
  BY DEF families, issued
<1>3. ~dead(t)
  BY DEF FamilyInv, BlanksAreGood
<1>4. spents' = spents \cup used
  BY <1>3 DEF spents, dead
<1> QED
  BY <1>1, <1>2, <1>4

LEMMA StepFamily ==
  ASSUME FamilyInv, NEW w \in Workers, Step(w)
  PROVE  [Family!Next]_(Family!vars)
<1>0. /\ token \in [Tokens -> Token] /\ session \in [Sessions -> {"none", "open", "revoked"}]
      /\ session' \in [Sessions -> {"none", "open", "revoked"}]
      /\ handler[w].sessions \subseteq Sessions
      /\ AuthInv
  BY StepTypes DEF FamilyInv, AuthInv, AuthTypeOK, Handler
<1>1. CASE createSession(w)
  <2> PICK s \in Sessions : session[s] = "none" /\ session' = [session EXCEPT ![s] = "open"]
    BY <1>1 DEF createSession
  <2>1. families' = families /\ spents' = spents /\ parallel' = parallel
    BY <1>1 DEF createSession, families, spents
  <2>2. Family!SignIn(s)
    BY <2>1 DEF Family!SignIn, families, spents
  <2> QED BY <2>2 DEF Family!Next
<1>2. CASE createToken(w)
  <2> PICK s \in handler[w].sessions, t \in Tokens, iat \in (handler[w].n - 1)..password :
        ~issued(t) /\ token' = [token EXCEPT ![t] = made(s, iat)]
    BY <1>2 DEF createToken, newToken
  <2>1. /\ session[s] # "none" /\ \A u \in Tokens : token[u].session # s
        /\ session' = session /\ parallel' = parallel
    BY <1>0, <1>2 DEF createToken, AuthInv, CreatorsAreAlone, exists
  <2>2. token'[t].session = s /\ ~dead(t)'
    BY <1>0 DEF made, dead
  <2>3. \A u \in Tokens \ {t} : token'[u].session = token[u].session /\ (dead(u)' <=> dead(u))
    BY <1>0 DEF dead
  <2>4. /\ families[t] = Nobody /\ families' = [families EXCEPT ![t] = s]
        /\ spents' = spents \cup {}
    BY <1>0, <2>2, <2>3, Gives
  <2>5. Family!First(t, s)
    BY <2>1, <2>4 DEF Family!First, Family!give, families, spents
  <2> QED BY <1>0, <2>5 DEF Family!Next
<1>3. CASE rotate(w)
  <2> PICK s \in handler[w].sessions, t \in Tokens, iat \in (handler[w].n - 1)..password :
        /\ ~issued(t)
        /\ token' = [token EXCEPT ![t] = made(s, iat), ![handler[w].on].used = TRUE]
    BY <1>3 DEF rotate
  <2> PICK u : u = handler[w].on
    OBVIOUS
  <2>1. /\ u \in Tokens /\ token[u].session = s /\ s \in Sessions /\ u # t
        /\ session' = session /\ parallel' = parallel
    <3>1. at(w, "rotate") /\ session' = session /\ parallel' = parallel
      BY <1>3 DEF rotate
    <3>2. s \in Sessions
      BY <1>0
    <3>3. u \in Tokens /\ token[u].session = s
      BY <1>0, <3>1 DEF AuthInv, RotatorsAreAlone
    <3>4. u # t
      BY <3>2, <3>3, AuthAssumption DEF issued
    <3> QED BY <3>1, <3>2, <3>3, <3>4
  <2>2. s \in parallel \/ session[s] = "revoked" \/ ~dead(u)
    BY <1>3 DEF rotate, FamilyInv, HoldersAreGood
  <2>3. token'[t] = made(s, iat) /\ token'[u] = [token[u] EXCEPT !.used = TRUE]
    BY <1>0, <2>1
  <2>4. token'[t].session = s /\ ~dead(t)'
    BY <2>3 DEF made, dead
  <2>5. dead(u)' /\ token'[u].session = token[u].session
    BY <1>0, <2>1, <2>3 DEF dead, Token
  <2>6. \A v \in Tokens \ {t} :
          token'[v].session = token[v].session /\ (dead(v)' <=> (dead(v) \/ v \in {u}))
    <3> SUFFICES ASSUME NEW v \in Tokens \ {t}
                 PROVE  /\ token'[v].session = token[v].session
                        /\ dead(v)' <=> (dead(v) \/ v = u)
      OBVIOUS
    <3>1. v # u => token'[v] = token[v]
      BY <1>0, <2>1
    <3> QED BY <2>5, <3>1 DEF dead
  <2>7. /\ families[t] = Nobody /\ families' = [families EXCEPT ![t] = s]
        /\ spents' = spents \cup {u}
    <3>1. {u} \in SUBSET (Tokens \ {t})
      BY <2>1
    <3> QED BY <2>1, <2>4, <2>6, <3>1, Gives
  <2>8. families[u] = s /\ (u \notin spents \/ s \in parallel \/ session[s] = "revoked")
    BY <2>1, <2>2 DEF families, spents, dead
  <2>9. Family!Exchange(t, u)
    BY <2>1, <2>7, <2>8 DEF Family!Exchange, Family!give, families, spents
  <2> QED BY <2>1, <2>9 DEF Family!Next
<1>4. CASE revokeSession(w)
  <2> PICK s \in handler[w].sessions :
        /\ session' = [session EXCEPT ![s] = "revoked"]
        /\ token' = [t \in Tokens |-> revoked({s}, token[t])]
    BY <1>4 DEF revokeSession
  <2>1. session[s] # "none" /\ parallel' = parallel
    BY <1>4 DEF revokeSession, FamilyInv, RevokersKnow, exists, histories
  <2>2. {s} \in SUBSET Sessions
    BY <1>0
  <2>3. \A r \in Sessions : session'[r] = IF r \in {s} THEN "revoked" ELSE session[r]
    BY <1>0
  <2> QED BY <1>0, <2>1, <2>2, <2>3, Ends
<1>5. CASE resetPassword(w)
  <2> DEFINE S == {s \in Sessions : session[s] # "none"}
  <2>1. /\ session' = [s \in Sessions |-> IF session[s] = "open" THEN "revoked" ELSE session[s]]
        /\ token' = [t \in Tokens |-> revoked(Sessions, token[t])]
        /\ parallel' = parallel
    BY <1>5 DEF resetPassword, histories
  <2>2. \A s \in Sessions : session'[s] = IF s \in S THEN "revoked" ELSE session[s]
    BY <1>0, <2>1
  <2>3. \A t \in Tokens : token[t].session \in Sessions <=> token[t].session \in S
    <3> SUFFICES ASSUME NEW t \in Tokens, token[t].session \in Sessions
                 PROVE  session[token[t].session] # "none"
      OBVIOUS
    <3>1. issued(t)
      BY AuthAssumption DEF issued
    <3> QED BY <1>0, <3>1 DEF AuthInv, TokensHaveSessions, exists
  <2>4. \A t \in Tokens : token'[t] = revoked(S, token[t])
    BY <2>1, <2>3 DEF revoked
  <2>5. S \in SUBSET Sessions /\ \A s \in S : session[s] # "none"
    OBVIOUS
  <2> HIDE DEF S
  <2> QED BY <1>0, <2>1, <2>2, <2>4, <2>5, Ends
<1>6. ASSUME UNCHANGED <<session, token, parallel>> PROVE UNCHANGED Family!vars
  BY <1>6, FamilyStutters
<1>7. CASE \/ createUser(w) \/ issueEmailVerification(w) \/ verifyEmail(w)
           \/ countFailure(w) \/ clearFailures(w)
  BY <1>6, <1>7 DEF createUser, issueEmailVerification, verifyEmail, countFailure,
    clearFailures, sessionVars, histories
<1>8. CASE changePassword(w)
  <2>1. session' = session /\ parallel' = parallel
    BY <1>8 DEF changePassword
  <2>2. families' = families /\ spents' = spents
    BY <1>0, <1>8, ChangeDatesOnly DEF families, spents
  <2> QED BY <2>1, <2>2 DEF Family!vars, families, spents
<1> QED
  BY <1>1, <1>2, <1>3, <1>4, <1>5, <1>7, <1>8 DEF Step

\* The sessions of auth-service are token families, for any number of requests
\* that overlap, stop half-way or present old tokens: a token comes from a
\* sign-in or from a good token of the same session, but for overlapping
\* refreshes, and a session ends with all its tokens.
THEOREM SessionsAreAlwaysFamilies == Spec => SessionsAreFamilies
<1>1. Init => Family!Init
  <2> SUFFICES ASSUME Init PROVE Family!Init
    OBVIOUS
  <2>1. \A t \in Tokens : token[t].session = Nobody /\ ~dead(t)
    BY DEF Init, NoToken, made, dead
  <2>2. families = [t \in Tokens |-> Nobody] /\ spents = {}
    BY <2>1 DEF families, spents, dead
  <2> QED BY <2>2 DEF Init, Family!Init, families, spents
<1>2. FamilyInv /\ [Next]_vars => [Family!Next]_(Family!vars)
  <2> SUFFICES ASSUME FamilyInv, [Next]_vars PROVE [Family!Next]_(Family!vars)
    OBVIOUS
  <2>1. ASSUME \/ \E w \in Workers : abandon(w)
               \/ forgotPassword \/ suspend \/ lockRunsOut \/ UNCHANGED vars
        PROVE  UNCHANGED Family!vars
    BY <2>1, FamilyStutters DEF abandon, forgotPassword, suspend, lockRunsOut, vars,
      sessionVars, histories
  <2> QED BY <2>1, RequestFamily, StepFamily DEF Next
<1> QED
  BY <1>1, <1>2, FamilyHolds, PTL DEF Spec, SessionsAreFamilies, Family!Spec

=============================================================================
