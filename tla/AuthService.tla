----------------------------- MODULE AuthService -----------------------------
(***************************************************************************)
(* auth-service/src/auth: the account of one user, its sessions and their  *)
(* refresh tokens.                                                         *)
(*                                                                         *)
(* Every handler looks something up, hashes or signs, and writes later; no *)
(* write asks again.  A worker runs one handler; what it looked up is what *)
(* it goes on with.                                                        *)
(*                                                                         *)
(* Times: "password" counts the values of passwordChangedAt, and a token   *)
(* carries the count at which its iat places it.  iat has whole seconds,   *)
(* so that a token made in the second of the change seems older.  Only the *)
(* lock runs out; a link or a token that did is answered like an unknown   *)
(* one, and access tokens are left to the session they name.  A change is  *)
(* dated before its update commits, so that a token made in between may    *)
(* seem newer than it is ("young").                                        *)
(*                                                                         *)
(* Left out: the rows of loginAttempt and auditLog, mails, cookies, the    *)
(* events user.registered and user.verified (no subscriber changes         *)
(* anything here), roles and profile data.                                 *)
(***************************************************************************)
EXTENDS Integers, FiniteSets

CONSTANTS Workers,       \* requests handled at a time (a bound)
          Sessions, Tokens, Links,   \* rows there may ever be (bounds)
          MaxAttempts,   \* LOGIN_MAX_ATTEMPTS
          MaxCalls,      \* requests (a bound)
          Nobody         \* no session, token or link

ASSUME AuthAssumption ==
  /\ MaxAttempts \in Nat \ {0}
  /\ MaxCalls \in Nat
  /\ Nobody \notin Sessions \cup Tokens \cup Links

VARIABLES account,     \* users.status, "none" without a row
          failed,      \* users.failed_login_count
          locked,      \* users.locked_until is in the future
          password,    \* which password it is
          link,        \* verification_tokens: purpose, or "consumed"
          session,     \* sessions: "none", "open" or "revoked"
          token,       \* refresh_tokens
          young,       \* tokens made since the change a worker is about began
          handler,     \* what each worker is doing
          calls,
          knew,        \* history: the password when a session was made
          behind,      \* history: sessions written after the password a
                       \* handler had seen was changed, or dated
          parallel     \* history: sessions refreshed twice at a time

accountVars == <<account, failed, locked, password>>
sessionVars == <<session, token, young>>
histories == <<knew, behind, parallel>>
vars == <<accountVars, link, sessionVars, handler, calls, histories>>

Token == [session : Sessions \cup {Nobody}, iat : Int, used : BOOLEAN, revoked : BOOLEAN]
made(s, iat) == [session |-> s, iat |-> iat, used |-> FALSE, revoked |-> FALSE]
NoToken == made(Nobody, 0)

Places == {"idle", "createUser", "mail", "verify", "reset", "change",
           "countFailure", "createSession", "createToken", "clearFailures",
           "rotate", "revoke"}
Handler == [at : Places, on : Tokens \cup Links \cup {Nobody},
            sessions : SUBSET Sessions, n : Nat]
Idle == [at |-> "idle", on |-> Nobody, sessions |-> {}, n |-> 0]

Init ==
  /\ account \in {"none", "ACTIVE"}
  /\ failed = 0 /\ locked = FALSE /\ password = 1
  /\ link = [k \in Links |-> "none"]
  /\ session = [s \in Sessions |-> "none"]
  /\ token = [t \in Tokens |-> NoToken]
  /\ young = [w \in Workers |-> {}]
  /\ handler = [w \in Workers |-> Idle]
  /\ calls = 0
  /\ knew = [s \in Sessions |-> 0]
  /\ behind = {} /\ parallel = {}

issued(t) == token[t].session # Nobody

at(w, place) == handler[w].at = place
idle(w) == at(w, "idle")
becomes(w, h) == handler' = [handler EXCEPT ![w] = h]
ends(w) == becomes(w, Idle)
called == calls < MaxCalls /\ calls' = calls + 1

\* A request is let in; it changes nothing before its worker goes on.
begin(w, h) ==
  /\ idle(w) /\ called
  /\ becomes(w, h)
  /\ UNCHANGED <<accountVars, link, sessionVars, knew, behind>>

job(place) == [Idle EXCEPT !.at = place]

-----------------------------------------------------------------------------
(* Registration and verification                                           *)

\* One answer for all; who is not verified yet gets another mail.
register(w) ==
  /\ account \in {"none", "PENDING_VERIFICATION"}
  /\ begin(w, job(IF account = "none" THEN "createUser" ELSE "mail"))
  /\ UNCHANGED parallel

\* Two at once: the unique index on the email stops the second.
createUser(w) ==
  /\ at(w, "createUser")
  /\ IF account = "none"
     THEN account' = "PENDING_VERIFICATION" /\ becomes(w, job("mail"))
     ELSE UNCHANGED account /\ ends(w)
  /\ UNCHANGED <<failed, locked, password, link, sessionVars, calls, histories>>

issueEmailVerification(w) ==
  /\ at(w, "mail")
  /\ \E k \in Links : link[k] = "none" /\ link' = [link EXCEPT ![k] = "EMAIL_VERIFICATION"]
  /\ ends(w)
  /\ UNCHANGED <<accountVars, sessionVars, calls, histories>>

resendVerification(w) ==
  /\ account = "PENDING_VERIFICATION"
  /\ begin(w, job("mail"))
  /\ UNCHANGED parallel

beginVerifyEmail(w, k) ==
  /\ link[k] = "EMAIL_VERIFICATION"
  /\ begin(w, [job("verify") EXCEPT !.on = k])
  /\ UNCHANGED parallel

\* Of whatever status the account is by now.
verifyEmail(w) ==
  /\ at(w, "verify")
  /\ link' = [link EXCEPT ![handler[w].on] = "consumed"]
  /\ account' = "ACTIVE"
  /\ ends(w)
  /\ UNCHANGED <<failed, locked, password, sessionVars, calls, histories>>

\* No code suspends an account; support does.
suspend ==
  /\ account = "ACTIVE" /\ called
  /\ account' = "SUSPENDED"
  /\ UNCHANGED <<failed, locked, password, link, sessionVars, handler, histories>>

-----------------------------------------------------------------------------
(* Signing in                                                              *)

\* Mutation: the lock is not looked at.
loginUnlocked(w) ==
  \/ /\ account # "none"
     /\ begin(w, [job("countFailure") EXCEPT !.n = failed])
     /\ UNCHANGED parallel
  \/ /\ account = "ACTIVE"
     /\ begin(w, [job("createSession") EXCEPT !.n = password])
     /\ UNCHANGED parallel

\* A wrong and a right password.  What is refused here changes nothing.
login(w) ==
  /\ account # "none" /\ ~locked
  /\ \/ begin(w, [job("countFailure") EXCEPT !.n = failed])
     \/ account = "ACTIVE" /\ begin(w, [job("createSession") EXCEPT !.n = password])
  /\ UNCHANGED parallel

\* Mutation: the attempts that are left are counted.
countDown(w) ==
  /\ at(w, "countFailure")
  /\ failed' = handler[w].n - 1
  /\ locked' = (handler[w].n - 1 >= MaxAttempts)
  /\ ends(w)
  /\ UNCHANGED <<account, password, link, sessionVars, calls, histories>>

\* The count that was read, plus one; below the limit a lock is taken away.
countFailure(w) ==
  /\ at(w, "countFailure")
  /\ failed' = handler[w].n + 1
  /\ locked' = (handler[w].n + 1 >= MaxAttempts)
  /\ ends(w)
  /\ UNCHANGED <<account, password, link, sessionVars, calls, histories>>

writtenBehind(w, s) == behind' = IF handler[w].n < password THEN behind \cup {s} ELSE behind

createSession(w) ==
  /\ at(w, "createSession")
  /\ \E s \in Sessions :
       /\ session[s] = "none"
       /\ session' = [session EXCEPT ![s] = "open"]
       /\ knew' = [knew EXCEPT ![s] = password]
       /\ writtenBehind(w, s)
       /\ becomes(w, [job("createToken") EXCEPT !.sessions = {s}, !.n = password])
  /\ UNCHANGED <<accountVars, link, token, young, calls, parallel>>

\* Whoever is changing the password may have dated the change before this token.
grows(t) == young' = [v \in Workers |-> IF at(v, "change") THEN young[v] \cup {t} ELSE young[v]]

\* signRefreshToken: at some moment since the worker last looked.
newToken(w, t, s) ==
  /\ ~issued(t)
  /\ grows(t)
  /\ \E iat \in (handler[w].n - 1)..password :
       token' = [token EXCEPT ![t] = made(s, iat)]
  /\ writtenBehind(w, s)

createToken(w) ==
  /\ at(w, "createToken")
  /\ \E s \in handler[w].sessions : \E t \in Tokens : newToken(w, t, s)
  /\ becomes(w, job("clearFailures"))
  /\ UNCHANGED <<accountVars, link, session, calls, knew, parallel>>

clearFailures(w) ==
  /\ at(w, "clearFailures")
  /\ failed' = 0
  /\ locked' = FALSE
  /\ ends(w)
  /\ UNCHANGED <<account, password, link, sessionVars, calls, histories>>

lockRunsOut ==
  /\ locked
  /\ locked' = FALSE
  /\ UNCHANGED <<account, failed, password, link, sessionVars, handler, calls, histories>>

-----------------------------------------------------------------------------
(* Refreshing and signing out                                              *)

\* Mutation: only the token itself is asked whether it was revoked.
verdictOnToken(t) ==
  IF token[t].used \/ token[t].revoked THEN "revoke"
  ELSE IF account # "ACTIVE" THEN "refuse"
  ELSE IF token[t].iat < password THEN "revoke"
  ELSE "rotate"

\* Mutation: the age of the password is not looked at.
verdictAtAnyAge(t) ==
  IF token[t].used \/ token[t].revoked THEN "revoke"
  ELSE IF session[token[t].session] = "revoked" \/ account # "ACTIVE" THEN "refuse"
  ELSE "rotate"

\* What refresh() makes of the rows it read.
verdict(t) ==
  IF token[t].used \/ token[t].revoked THEN "revoke"
  ELSE IF session[token[t].session] = "revoked" \/ account # "ACTIVE" THEN "refuse"
  ELSE IF token[t].iat < password THEN "revoke"
  ELSE "rotate"

refresh(w, t) ==
  /\ issued(t)
  /\ verdict(t) # "refuse"
  /\ LET s == token[t].session IN
     /\ begin(w, [at |-> verdict(t), on |-> t, sessions |-> {s}, n |-> password])
     /\ parallel' = IF \E v \in Workers : at(v, "rotate") /\ s \in handler[v].sessions
                    THEN parallel \cup {s} ELSE parallel

\* Mutation: the old token is not marked.
rotateUnmarked(w) ==
  /\ at(w, "rotate")
  /\ \E s \in handler[w].sessions : \E t \in Tokens : newToken(w, t, s)
  /\ ends(w)
  /\ UNCHANGED <<accountVars, link, session, calls, knew, parallel>>

\* The transaction: a new token, and the old one is used.
rotate(w) ==
  /\ at(w, "rotate")
  /\ \E s \in handler[w].sessions : \E t \in Tokens :
       /\ ~issued(t)
       /\ grows(t)
       /\ \E iat \in (handler[w].n - 1)..password :
            token' = [token EXCEPT ![t] = made(s, iat),
                                   ![handler[w].on].used = TRUE]
       /\ writtenBehind(w, s)
  /\ ends(w)
  /\ UNCHANGED <<accountVars, link, session, calls, knew, parallel>>

logout(w, t) ==
  /\ issued(t)
  /\ begin(w, [job("revoke") EXCEPT !.sessions = {token[t].session}])
  /\ UNCHANGED parallel

\* JwtStrategy.validate: the session an access token names still stands.
signedIn == \E s \in Sessions : session[s] = "open"

logoutAll(w) ==
  /\ signedIn
  /\ begin(w, [job("revoke") EXCEPT !.sessions = {s \in Sessions : session[s] = "open"}])
  /\ UNCHANGED parallel

revoked(S, row) == [row EXCEPT !.revoked = @ \/ row.session \in S]

\* One transaction for each session; logoutAll runs them side by side.
revokeSession(w) ==
  /\ at(w, "revoke")
  /\ \E s \in handler[w].sessions :
       /\ session' = [session EXCEPT ![s] = "revoked"]
       /\ token' = [t \in Tokens |-> revoked({s}, token[t])]
       /\ IF handler[w].sessions = {s} THEN ends(w)
          ELSE becomes(w, [handler[w] EXCEPT !.sessions = @ \ {s}])
  /\ UNCHANGED <<accountVars, link, young, calls, histories>>

-----------------------------------------------------------------------------
(* Passwords                                                               *)

\* The look-up and the new row together: a user never goes away.
forgotPassword ==
  /\ account # "none" /\ called
  /\ \E k \in Links : link[k] = "none" /\ link' = [link EXCEPT ![k] = "PASSWORD_RESET"]
  /\ UNCHANGED <<accountVars, sessionVars, handler, histories>>

beginResetPassword(w, k) ==
  /\ link[k] = "PASSWORD_RESET"
  /\ begin(w, [job("reset") EXCEPT !.on = k])
  /\ UNCHANGED parallel

\* One transaction; the link is not asked again whether it was consumed.
resetPassword(w) ==
  /\ at(w, "reset")
  /\ link' = [link EXCEPT ![handler[w].on] = "consumed"]
  /\ password' = password + 1
  /\ failed' = 0
  /\ locked' = FALSE
  /\ account' = "ACTIVE"
  /\ session' = [s \in Sessions |-> IF session[s] = "open" THEN "revoked" ELSE session[s]]
  /\ token' = [t \in Tokens |-> revoked(Sessions, token[t])]
  /\ ends(w)
  /\ UNCHANGED <<young, calls, histories>>

\* With the current password, by somebody who is signed in.
beginChangePassword(w) ==
  /\ signedIn
  /\ begin(w, job("change"))
  /\ UNCHANGED parallel

dated(t, n) == [token[t] EXCEPT !.iat = n]

\* "new Date()" stands before the update: of the tokens made since the request
\* began, any may be signed after it.
changePassword(w) ==
  /\ at(w, "change")
  /\ password' = password + 1
  /\ \E late \in SUBSET young[w] :
       /\ token' = [t \in Tokens |-> IF t \in late THEN dated(t, password + 1) ELSE token[t]]
       /\ behind' = behind \cup {s \in Sessions : \E t \in late : token[t].session = s}
  /\ young' = [young EXCEPT ![w] = {}]
  /\ ends(w)
  /\ UNCHANGED <<account, failed, locked, link, session, calls, knew, parallel>>

-----------------------------------------------------------------------------

\* A statement fails, or the process stops: the handler ends where it is.
abandon(w) ==
  /\ ~idle(w)
  /\ ends(w)
  /\ young' = [young EXCEPT ![w] = {}]
  /\ UNCHANGED <<accountVars, link, session, token, calls, histories>>

Request(w) ==
  \/ register(w) \/ resendVerification(w) \/ login(w) \/ logoutAll(w)
  \/ beginChangePassword(w)
  \/ \E k \in Links : beginVerifyEmail(w, k) \/ beginResetPassword(w, k)
  \/ \E t \in Tokens : refresh(w, t) \/ logout(w, t)

Step(w) ==
  \/ createUser(w) \/ issueEmailVerification(w) \/ verifyEmail(w)
  \/ countFailure(w) \/ createSession(w) \/ createToken(w) \/ clearFailures(w)
  \/ rotate(w) \/ revokeSession(w) \/ resetPassword(w) \/ changePassword(w)

Next ==
  \/ \E w \in Workers : Request(w) \/ Step(w) \/ abandon(w)
  \/ forgotPassword \/ suspend \/ lockRunsOut

Spec == Init /\ [][Next]_vars

-----------------------------------------------------------------------------
(* Properties                                                              *)

AuthTypeOK ==
  /\ account \in {"none", "PENDING_VERIFICATION", "ACTIVE", "SUSPENDED"}
  /\ failed \in Nat /\ locked \in BOOLEAN /\ password \in Nat \ {0}
  /\ link \in [Links -> {"none", "EMAIL_VERIFICATION", "PASSWORD_RESET", "consumed"}]
  /\ session \in [Sessions -> {"none", "open", "revoked"}]
  /\ token \in [Tokens -> Token]
  /\ young \in [Workers -> SUBSET Tokens]
  /\ handler \in [Workers -> Handler]
  /\ calls \in 0..MaxCalls
  /\ knew \in [Sessions -> Nat]
  /\ behind \subseteq Sessions /\ parallel \subseteq Sessions

live(t) == issued(t) /\ ~token[t].used /\ ~token[t].revoked

writing(w, s) == handler[w].at \in {"createToken", "rotate"} /\ s \in handler[w].sessions

\* "Revoking the session kills every descendant token at once" (schema.prisma
\* of auth-service): a session that was signed out stays so, and once the
\* handlers that were past their checks are through, none of its tokens is
\* ever exchanged again, not even one they left behind unrevoked.
SignedOutStaysOut ==
  [][\A s \in Sessions : session[s] = "revoked" =>
       /\ session'[s] = "revoked"
       /\ (\A w \in Workers : ~writing(w, s)) =>
            /\ \A w \in Workers : ~writing(w, s)'
            /\ \A t \in Tokens : token'[t].session = s => token[t].session = s]_vars

\* "A password change invalidates tokens issued before it"
\* (auth.service.ts:268): whatever can still be exchanged belongs to somebody
\* who signed in with the password of now.  Not so for a session written to
\* by a handler that looked before the change and wrote after it, or wrote
\* while the change was dated and not yet committed.
TokensFollowThePassword ==
  \A t \in Tokens :
    LET s == token[t].session IN
    live(t) /\ session[s] = "open" /\ token[t].iat >= password /\ s \notin behind =>
      knew[s] = password

\* "Every refresh returns a brand new refresh token and marks the old one
\* used" (auth.service.ts:232): a session has one token to exchange at most,
\* unless two refreshes of it were in flight together.
OneTokenASession ==
  \A t, u \in Tokens :
    live(t) /\ live(u) /\ token[t].session = token[u].session =>
      t = u \/ token[t].session \in parallel

\* The handlers implement the token families: whatever overlaps, stops or is
\* repeated, each step gives a first token, gives one for another of the same
\* session, ends sessions whole, or changes none of it.  In particular no token
\* comes from a token that was exchanged or revoked before, unless two
\* refreshes of its session were in flight together or the session is over.
Family ==
  INSTANCE TokenFamily WITH
    state     <- session,
    family    <- [t \in Tokens |-> token[t].session],
    spent     <- {t \in Tokens : token[t].used \/ token[t].revoked},
    contested <- parallel

SessionsAreFamilies == Family!Spec

signingIn(w) ==
  handler[w].at \in {"countFailure", "createSession", "createToken", "clearFailures"}

\* "Locks the account after repeated failed logins" (auth.e2e-spec.ts:98):
\* while it is locked nobody signs in, and only time or a reset opens it,
\* unless a sign-in was past its look at the lock already.
LocksHold ==
  [][locked /\ (\A w \in Workers : ~signingIn(w)) =>
       /\ \A w \in Workers : ~signingIn(w)'
       /\ locked' \/ lockRunsOut \/ password' # password]_vars
=============================================================================
