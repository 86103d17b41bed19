------------------------------ MODULE Accounts ------------------------------
(* Accounts and their sessions: SelfHostedAuthService over the tables of   *)
(* PostgresSelfHostedAuthRepository.  A transaction is one action, for all *)
(* of them lock the row of the user, except the rotation of a session,     *)
(* which locks the session and is two.  A session or a code may run out at *)
(* any moment, and is over then, as if it had been revoked or used.        *)
EXTENDS Maps, Naturals, FiniteSets

CONSTANTS
  Unset,
  Users,              \* by e-mail address
  Passwords,
  Calls,              \* numbers of the calls under way at a time
  MaxSessions,        \* session tokens are numbered as they are made
  Codes               \* one-time codes, six digits

AccountsAssumption ==
  Calls \subseteq Nat /\ MaxSessions \in Nat

VARIABLES
  account,   \* internal_users and auth_credentials
  sessions,  \* auth_sessions by token
  codes,     \* both tables of challenges, by code
  mail,      \* codes that reached their owner
  call       \* calls of the service under way

accountsVars == <<account, sessions, codes, mail, call>>

NoAccount == [status |-> "none", verified |-> FALSE, password |-> Unset, outdated |-> FALSE,
              chosen |-> Unset, resets |-> 0, overtaken |-> FALSE]

(* chosen, resets and overtaken are history: the password last chosen, how *)
(* often it was reset, and whether a sign-in that was under way at a reset *)
(* has written its own hash since.                                         *)
Existing(password) ==
  [NoAccount EXCEPT !.status = "active", !.verified = TRUE, !.password = password,
                    !.outdated = TRUE, !.chosen = password]

Idle == [pc |-> "idle", user |-> Unset, password |-> Unset, token |-> Unset, kind |-> Unset,
         proof |-> 0, late |-> FALSE]

(* Some accounts exist, hashed with parameters of an earlier version.      *)
AccountsInit ==
  /\ \E password \in Passwords, old \in SUBSET Users :
       account = [u \in Users |-> IF u \in old THEN Existing(password) ELSE NoAccount]
  /\ sessions = << >>
  /\ codes = << >>
  /\ mail = {}
  /\ call = [r \in Calls |-> Idle]

Free(r) == call[r].pc = "idle" /\ \A q \in Calls : q < r => call[q].pc # "idle"
Ends(r) == call' = [call EXCEPT ![r] = Idle]
Active(u) == account[u].status = "active"

-----------------------------------------------------------------------------
(* register creates the account, unless the address has one, and reads the *)
(* credential; an account that is not verified gets a code.                *)
Register(r, u, password) ==
  LET created == [NoAccount EXCEPT !.status = "active", !.password = password, !.chosen = password]
      found == IF account[u].status = "none" THEN created ELSE account[u]
  IN
  /\ Free(r)
  /\ account' = [account EXCEPT ![u] = found]
  /\ call' = IF found.status = "active" /\ ~found.verified
             THEN [call EXCEPT ![r] = [Idle EXCEPT !.pc = "challenge", !.user = u, !.kind = "verify"]]
             ELSE call
  /\ UNCHANGED <<sessions, codes, mail>>

RequestReset(r, u) ==
  /\ Free(r) /\ Active(u) /\ account[u].verified
  /\ call' = [call EXCEPT ![r] = [Idle EXCEPT !.pc = "challenge", !.user = u, !.kind = "reset"]]
  /\ UNCHANGED <<account, sessions, codes, mail>>

\* FAULT: earlier codes stay valid.
OpenCodesOf(u, kind) == {}

CodesOf(u, kind) == {c \in DOMAIN codes : codes[c].user = u /\ codes[c].kind = kind}

(* A code to verify is for an account that is not verified, one to reset   *)
(* for one that is.  The digest of a code is unique over all the codes     *)
(* there ever were: one that was drawn before is an error.                 *)
Inserts(u, kind, code) ==
  code \notin DOMAIN codes /\ Active(u) /\ (account[u].verified <=> kind = "reset")

(* The delivery, which may fail, comes after the challenge was made.       *)
Mailed(code, delivered) ==
  IF code \notin DOMAIN codes /\ delivered THEN mail \cup {code} ELSE mail

(* createEmailVerificationChallenge, createPasswordResetChallenge.         *)
Challenge(r, code, delivered) ==
  LET u == call[r].user
      kind == call[r].kind
      closed == [c \in DOMAIN codes |->
                   IF c \in CodesOf(u, kind) THEN [codes[c] EXCEPT !.over = TRUE] ELSE codes[c]]
  IN
  /\ call[r].pc = "challenge"
  /\ codes' = IF Inserts(u, kind, code)
              THEN Put(closed, code, [kind |-> kind, user |-> u, over |-> FALSE])
              ELSE codes
  /\ mail' = Mailed(code, delivered)
  /\ Ends(r)
  /\ UNCHANGED <<account, sessions>>

CodeHolds(code, kind) ==
  /\ code \in mail \cap DOMAIN codes
  /\ codes[code].kind = kind /\ ~codes[code].over
  /\ Active(codes[code].user)

VerifyEmail(code) ==
  /\ CodeHolds(code, "verify")
  /\ codes' = [codes EXCEPT ![code].over = TRUE]
  /\ account' = [account EXCEPT ![codes[code].user].verified = TRUE]
  /\ UNCHANGED <<sessions, mail, call>>

\* FAULT: only the session of the browser that resets is ended.
RevokedNone(u) == sessions

Revoked(u) ==
  [t \in DOMAIN sessions |-> IF sessions[t].user = u THEN [sessions[t] EXCEPT !.over = TRUE]
                             ELSE sessions[t]]

ResetTo(u, password) ==
  [account EXCEPT ![u].password = password, ![u].outdated = FALSE,
                  ![u].chosen = password, ![u].resets = @ + 1, ![u].overtaken = FALSE]

(* completePasswordReset; late marks the calls that proved the password it *)
(* replaces and are still under way.                                       *)
CompleteReset(code, password) ==
  LET u == codes[code].user IN
  /\ CodeHolds(code, "reset")
  /\ codes' = [codes EXCEPT ![code].over = TRUE]
  /\ account' = ResetTo(u, password)
  /\ sessions' = Revoked(u)
  /\ call' = [r \in Calls |->
       IF call[r].user = u /\ call[r].pc \in {"rehash", "session", "rotate", "rotating"}
       THEN [call[r] EXCEPT !.late = TRUE] ELSE call[r]]
  /\ UNCHANGED <<mail>>

DisableAccount(u) ==
  /\ Active(u)
  /\ account' = [account EXCEPT ![u].status = "disabled"]
  /\ sessions' = Revoked(u)
  /\ UNCHANGED <<codes, mail, call>>

-----------------------------------------------------------------------------
(* authenticate: the credential is read, the password is verified against  *)
(* it, an outdated hash is replaced, and a session is made.                *)
Proves(u, password) == Active(u) /\ account[u].verified /\ account[u].password = password

SignIn(r, u, password) ==
  /\ Free(r) /\ Proves(u, password)
  /\ call' = [call EXCEPT ![r] =
       [Idle EXCEPT !.pc = IF account[u].outdated THEN "rehash" ELSE "session",
                    !.user = u, !.password = password, !.proof = account[u].resets]]
  /\ UNCHANGED <<account, sessions, codes, mail>>

Rehash(r) ==
  LET u == call[r].user IN
  /\ call[r].pc = "rehash"
  /\ account' = [account EXCEPT ![u].password = call[r].password, ![u].outdated = FALSE,
                                ![u].overtaken = @ \/ call[r].late]
  /\ call' = [call EXCEPT ![r].pc = "session"]
  /\ UNCHANGED <<sessions, codes, mail>>

(* signIn is history: the first of the sessions that replaced each other.  *)
NewSession(r, signIn) ==
  [user |-> call[r].user, signIn |-> signIn, over |-> FALSE,
   proof |-> call[r].proof, late |-> call[r].late]

HasRoom == Cardinality(DOMAIN sessions) < MaxSessions
NewToken == Cardinality(DOMAIN sessions) + 1

CreateSession(r) ==
  /\ call[r].pc = "session" /\ HasRoom
  /\ sessions' = IF Active(call[r].user) /\ account[call[r].user].verified
                 THEN Put(sessions, NewToken, NewSession(r, NewToken)) ELSE sessions
  /\ Ends(r)
  /\ UNCHANGED <<account, codes, mail>>

-----------------------------------------------------------------------------
Open(token) == token \in DOMAIN sessions /\ ~sessions[token].over
Usable(token) == Open(token) /\ Active(sessions[token].user)
Locked(token) == \E r \in Calls : call[r].pc = "rotating" /\ call[r].token = token

(* revokeSession, or the session was idle or has lasted too long.          *)
Logout(token) ==
  /\ token \in DOMAIN sessions /\ ~Locked(token)
  /\ sessions' = [sessions EXCEPT ![token].over = TRUE]
  /\ UNCHANGED <<account, codes, mail, call>>

(* reverify: the session is resolved, the password verified, and the       *)
(* session is replaced by another one.                                     *)
Reverify(r, token, password) ==
  /\ Free(r) /\ Usable(token) /\ ~Locked(token)
  /\ call' = IF Proves(sessions[token].user, password)
             THEN [call EXCEPT ![r] = [Idle EXCEPT !.pc = "rotate", !.user = sessions[token].user,
                                         !.token = token, !.proof = account[sessions[token].user].resets]]
             ELSE call
  /\ UNCHANGED <<account, sessions, codes, mail>>

\* FAULT: the session is replaced whatever has become of it.
CanRotateAnyway(r) == TRUE

CanRotate(r) == Open(call[r].token)

LockSession(r) ==
  /\ call[r].pc = "rotate" /\ ~Locked(call[r].token)
  /\ IF CanRotate(r) THEN call' = [call EXCEPT ![r].pc = "rotating"] ELSE Ends(r)
  /\ UNCHANGED <<account, sessions, codes, mail>>

RotateSession(r) ==
  /\ call[r].pc = "rotating" /\ HasRoom
  /\ sessions' = Put([sessions EXCEPT ![call[r].token].over = TRUE],
                     NewToken, NewSession(r, sessions[call[r].token].signIn))
  /\ Ends(r)
  /\ UNCHANGED <<account, codes, mail>>

CodeExpires(code) ==
  /\ code \in DOMAIN codes
  /\ codes' = [codes EXCEPT ![code].over = TRUE]
  /\ UNCHANGED <<account, sessions, mail, call>>

-----------------------------------------------------------------------------
AccountsNext ==
  \/ \E r \in Calls, u \in Users : RequestReset(r, u)
  \/ \E r \in Calls, u \in Users, p \in Passwords : Register(r, u, p) \/ SignIn(r, u, p)
  \/ \E r \in Calls, c \in Codes, delivered \in BOOLEAN : Challenge(r, c, delivered)
  \/ \E c \in Codes : VerifyEmail(c) \/ CodeExpires(c)
  \/ \E c \in Codes, p \in Passwords : CompleteReset(c, p)
  \/ \E u \in Users : DisableAccount(u)
  \/ \E r \in Calls : Rehash(r) \/ CreateSession(r) \/ LockSession(r) \/ RotateSession(r)
  \/ \E t \in DOMAIN sessions : Logout(t)
  \/ \E r \in Calls, t \in DOMAIN sessions, p \in Passwords : Reverify(r, t, p)

AccountsSpec == AccountsInit /\ [][AccountsNext]_accountsVars

-----------------------------------------------------------------------------
AccountsTypeOK ==
  /\ \A u \in Users : account[u].status \in {"none", "active", "disabled"}
  /\ DOMAIN sessions \subseteq 1 .. MaxSessions
  /\ DOMAIN codes \subseteq Codes
  /\ mail \subseteq Codes
  /\ \A r \in Calls :
       call[r].pc \in {"idle", "challenge", "rehash", "session", "rotate", "rotating"}

(* A session that can be used is of a verified account and rests on the    *)
(* password that holds: a reset ends every session there is, and none is   *)
(* made on the old password but by a call that had proved it and was under *)
(* way.  Only such a call can also undo the new password.                  *)
ResetTakesHold ==
  /\ \A t \in DOMAIN sessions : Usable(t) =>
       LET s == sessions[t] IN
       account[s.user].verified /\ (s.proof = account[s.user].resets \/ s.late)
  /\ \A u \in Users : account[u].password = account[u].chosen \/ account[u].overtaken

(* Of the codes of an account only the last one of its kind can be used,   *)
(* and once.                                                               *)
LastCodeOnly ==
  \A c, d \in DOMAIN codes :
    c # d /\ codes[c].user = codes[d].user /\ codes[c].kind = codes[d].kind
    => codes[c].over \/ codes[d].over

(* Whoever reverifies replaces a session that can still be used, and only  *)
(* once: neither two reverifications of one session nor one that a logout  *)
(* or a reset overtook leave a second session behind.                      *)
SessionIsHandedOn ==
  [][\A t \in DOMAIN sessions' \ DOMAIN sessions :
       sessions'[t].signIn # t /\ ~sessions'[t].late /\ Active(sessions'[t].user) =>
         \E s \in DOMAIN sessions :
           Open(s) /\ sessions[s].signIn = sessions'[t].signIn /\ sessions'[s].over]_accountsVars
=============================================================================
