-------------------------- MODULE ServicePartsProofs --------------------------
(***************************************************************************)
(* What the services of MCServiceParts keep, each by itself, for every     *)
(* value of their constants.  ServicesProofs lifts the results to the      *)
(* services side by side.                                                  *)
(***************************************************************************)
EXTENDS MCServiceParts, Sequences, FiniteSetTheorems, TLAPS

-----------------------------------------------------------------------------
(* Accounts.  ResetTakesHold is not inductive: what a call under way will  *)
(* write rests on what it proved when it began, so the invariant speaks of *)
(* the calls as well, and of a reset that overtakes them.                  *)
AccountRecord ==
  [status : {"none", "active", "disabled"}, verified : BOOLEAN, password : Passwords \cup {Null},
   outdated : BOOLEAN, chosen : Passwords \cup {Null}, resets : Nat, overtaken : BOOLEAN]

SessionRecord(n) ==
  [user : Users, signIn : 1 .. n, over : BOOLEAN, proof : Nat, late : BOOLEAN]

CodeRecord == [kind : {"verify", "reset"}, user : Users, over : BOOLEAN]

CallRecord ==
  [pc : {"idle", "challenge", "rehash", "session", "rotate", "rotating"},
   user : Users \cup {Null}, password : Passwords \cup {Null}, token : Nat \cup {Null},
   kind : {"verify", "reset", Null}, proof : Nat, late : BOOLEAN]

CodesTyped == DOMAIN codes \subseteq Codes /\ codes \in [DOMAIN codes -> CodeRecord]

AccountsTyped ==
  /\ account \in [Users -> AccountRecord]
  /\ \E n \in 0 .. MaxSessions : sessions \in [1 .. n -> SessionRecord(n)]
  /\ CodesTyped
  /\ mail \subseteq Codes
  /\ call \in [Calls -> CallRecord]

ChallengesAreForSomeone ==
  \A r \in Calls : call[r].pc = "challenge" =>
    call[r].user \in Users /\ call[r].kind \in {"verify", "reset"}

(* A call that has proved a password proved the one that holds, or a reset *)
(* has come in between.                                                    *)
Proving == {r \in Calls : call[r].pc \in {"rehash", "session", "rotate", "rotating"}}

ProofsHold ==
  \A r \in Proving :
    /\ call[r].user \in Users
    /\ account[call[r].user].status # "none" /\ account[call[r].user].verified
    /\ call[r].proof = account[call[r].user].resets \/ call[r].late

HashesAreChosen ==
  \A r \in Calls : call[r].pc = "rehash" /\ ~call[r].late =>
    \/ call[r].password = account[call[r].user].chosen
    \/ account[call[r].user].overtaken

SessionsRest ==
  \A t \in DOMAIN sessions :
    /\ account[sessions[t].user].status # "none" /\ account[sessions[t].user].verified
    /\ ~sessions[t].over =>
         sessions[t].proof = account[sessions[t].user].resets \/ sessions[t].late

(* The session that a call replaces is its user's, locked by nobody else,  *)
(* and open unless a reset or the end of the account has overtaken it.     *)
TokensAreTheirs ==
  \A r \in Calls : call[r].pc \in {"rotate", "rotating"} =>
    call[r].token \in DOMAIN sessions /\ sessions[call[r].token].user = call[r].user

LockedAreOpen ==
  \A r \in Calls : call[r].pc = "rotating" =>
    \/ ~sessions[call[r].token].over
    \/ call[r].late
    \/ account[call[r].user].status # "active"

LocksAreAlone ==
  \A r, q \in Calls :
    call[r].pc = "rotating" /\ call[q].pc = "rotating" /\ call[r].token = call[q].token => r = q

PasswordsAreChosen ==
  \A u \in Users : account[u].password = account[u].chosen \/ account[u].overtaken

AccountsInv ==
  /\ AccountsTyped
  /\ ChallengesAreForSomeone
  /\ ProofsHold
  /\ HashesAreChosen
  /\ SessionsRest
  /\ TokensAreTheirs
  /\ LockedAreOpen
  /\ LocksAreAlone
  /\ PasswordsAreChosen
  /\ Auth!LastCodeOnly

-----------------------------------------------------------------------------
LEMMA CountOfTokens ==
  ASSUME NEW n \in Nat
  PROVE  Cardinality(1 .. n) = n
<1>1. n \in Int /\ 1 \in Int
  OBVIOUS
<1> QED
  BY <1>1, FS_Interval

(* The count of an instance is the count.                                  *)
LEMMA SameCount ==
  ASSUME NEW S
  PROVE  Auth!Cardinality(S) = Cardinality(S)
  BY DEF Auth!Cardinality, Cardinality, Auth!IsFiniteSet, IsFiniteSet

LEMMA NextToken ==
  ASSUME Auth!AccountsAssumption, NEW n \in 0 .. MaxSessions, DOMAIN sessions = 1 .. n
  PROVE  Auth!NewToken = n + 1 /\ (Auth!HasRoom => n + 1 \in 1 .. MaxSessions)
<1>1. Auth!Cardinality(DOMAIN sessions) = n
  BY CountOfTokens, SameCount
<1> QED
  BY <1>1 DEF Auth!NewToken, Auth!HasRoom, Auth!AccountsAssumption

LEMMA SessionsGrow ==
  ASSUME NEW n \in Nat
  PROVE  SessionRecord(n) \subseteq SessionRecord(n + 1)
<1>1. 1 .. n \subseteq 1 .. n + 1
  OBVIOUS
<1> QED
  BY <1>1 DEF SessionRecord

LEMMA AccountsStart ==
  ASSUME Auth!AccountsAssumption, Auth!AccountsInit
  PROVE  AccountsInv
<1>1. AccountsTyped
  <2>1. account \in [Users -> AccountRecord]
    <3>1. Auth!NoAccount \in AccountRecord
      BY DEF AccountRecord, Auth!NoAccount
    <3>2. ASSUME NEW p \in Passwords PROVE Auth!Existing(p) \in AccountRecord
      BY DEF AccountRecord, Auth!NoAccount, Auth!Existing
    <3> QED
      BY <3>1, <3>2 DEF Auth!AccountsInit
  <2>2. sessions \in [1 .. 0 -> SessionRecord(0)] /\ 0 \in 0 .. MaxSessions
    BY DEF Auth!AccountsInit, Auth!AccountsAssumption
  <2>3. call \in [Calls -> CallRecord]
    BY DEF Auth!AccountsInit, Auth!Idle, CallRecord
  <2> QED
    BY <2>1, <2>2, <2>3 DEF AccountsTyped, CodesTyped, Auth!AccountsInit
<1>2. /\ ChallengesAreForSomeone /\ ProofsHold /\ HashesAreChosen
      /\ TokensAreTheirs /\ LockedAreOpen /\ LocksAreAlone
  BY DEF ChallengesAreForSomeone, ProofsHold, HashesAreChosen, TokensAreTheirs, LockedAreOpen,
         LocksAreAlone, Proving, Auth!AccountsInit, Auth!Idle
<1>3. SessionsRest /\ Auth!LastCodeOnly
  BY DEF SessionsRest, Auth!LastCodeOnly, Auth!AccountsInit
<1>4. PasswordsAreChosen
  BY DEF PasswordsAreChosen, Auth!AccountsInit, Auth!NoAccount, Auth!Existing
<1> QED
  BY <1>1, <1>2, <1>3, <1>4 DEF AccountsInv
LEMMA RegisterKeeps ==
  ASSUME Auth!AccountsAssumption, AccountsInv, NEW r \in Calls, NEW u \in Users, NEW password \in Passwords,
         Auth!Register(r, u, password)
  PROVE  AccountsInv'
<1> USE DEF AccountsInv, Auth!Register
<1>1. AccountsTyped'
  <2>1. account' \in [Users -> AccountRecord]
    BY DEF AccountsTyped, AccountRecord, CallRecord, CodesTyped, CodeRecord, Auth!Idle,
           Auth!Free, Auth!NoAccount
  <2>2. PICK n \in 0 .. MaxSessions : sessions \in [1 .. n -> SessionRecord(n)]
    BY DEF AccountsTyped
  <2>3. sessions' \in [1 .. n -> SessionRecord(n)]
    BY <2>2 DEF SessionRecord, Auth!Idle, Auth!Free, Auth!NoAccount
  <2>4. CodesTyped' /\ mail' \subseteq Codes
    BY DEF AccountsTyped, CodesTyped, CodeRecord, Auth!Idle, Auth!Free, Auth!NoAccount
  <2>5. call' \in [Calls -> CallRecord]
    BY DEF AccountsTyped, AccountRecord, CallRecord, CodesTyped, CodeRecord, Auth!Idle,
           Auth!Free, Auth!NoAccount
  <2> QED
    BY <2>1, <2>3, <2>4, <2>5 DEF AccountsTyped
<1>2. ChallengesAreForSomeone'
  BY DEF AccountsTyped, AccountRecord, CallRecord, ChallengesAreForSomeone, Auth!Idle,
         Auth!Free, Auth!NoAccount
<1>3. ProofsHold'
  BY DEF AccountsTyped, AccountRecord, CallRecord, CodesTyped, CodeRecord, ProofsHold, Proving,
         Auth!Idle, Auth!Free, Auth!NoAccount
<1>4. HashesAreChosen'
  BY DEF AccountsTyped, AccountRecord, CallRecord, CodesTyped, CodeRecord, HashesAreChosen,
         ProofsHold, Proving, Auth!Idle, Auth!Free, Auth!NoAccount
<1>5. SessionsRest'
  BY DEF AccountsTyped, AccountRecord, CallRecord, SessionRecord, CodesTyped, CodeRecord,
         SessionsRest, ProofsHold, Proving, TokensAreTheirs, Auth!Idle, Auth!Free,
         Auth!NoAccount
<1>6. TokensAreTheirs'
  BY DEF AccountsTyped, AccountRecord, CallRecord, SessionRecord, TokensAreTheirs, ProofsHold,
         Proving, Auth!Idle, Auth!Free, Auth!NoAccount
<1>7. LockedAreOpen'
  BY DEF AccountsTyped, AccountRecord, CallRecord, SessionRecord, CodesTyped, CodeRecord,
         LockedAreOpen, ProofsHold, Proving, TokensAreTheirs, Auth!Idle, Auth!Free,
         Auth!NoAccount
<1>8. LocksAreAlone'
  BY DEF AccountsTyped, AccountRecord, CallRecord, LocksAreAlone, Auth!Idle, Auth!Free,
         Auth!NoAccount
<1>9. PasswordsAreChosen'
  BY DEF AccountsTyped, AccountRecord, CallRecord, PasswordsAreChosen, Auth!Idle, Auth!Free,
         Auth!NoAccount
<1>10. Auth!LastCodeOnly'
  BY DEF AccountsTyped, CodesTyped, CodeRecord, Auth!LastCodeOnly, Auth!Idle, Auth!Free,
         Auth!NoAccount
<1> QED
  BY <1>1, <1>2, <1>3, <1>4, <1>5, <1>6, <1>7, <1>8, <1>9, <1>10

LEMMA RequestResetKeeps ==
  ASSUME Auth!AccountsAssumption, AccountsInv, NEW r \in Calls, NEW u \in Users,
         Auth!RequestReset(r, u)
  PROVE  AccountsInv'
<1> USE DEF AccountsInv, Auth!RequestReset
<1>1. AccountsTyped'
  <2>1. account' \in [Users -> AccountRecord]
    BY DEF AccountsTyped, AccountRecord, CallRecord, CodesTyped, CodeRecord, Auth!Idle,
           Auth!Free, Auth!Active
  <2>2. PICK n \in 0 .. MaxSessions : sessions \in [1 .. n -> SessionRecord(n)]
    BY DEF AccountsTyped
  <2>3. sessions' \in [1 .. n -> SessionRecord(n)]
    BY <2>2 DEF SessionRecord, Auth!Idle, Auth!Free, Auth!Active
  <2>4. CodesTyped' /\ mail' \subseteq Codes
    BY DEF AccountsTyped, CodesTyped, CodeRecord, Auth!Idle, Auth!Free, Auth!Active
  <2>5. call' \in [Calls -> CallRecord]
    BY DEF AccountsTyped, AccountRecord, CallRecord, CodesTyped, CodeRecord, Auth!Idle,
           Auth!Free, Auth!Active
  <2> QED
    BY <2>1, <2>3, <2>4, <2>5 DEF AccountsTyped
<1>2. ChallengesAreForSomeone'
  BY DEF AccountsTyped, AccountRecord, CallRecord, ChallengesAreForSomeone, Auth!Idle,
         Auth!Free, Auth!Active
<1>3. ProofsHold'
  BY DEF AccountsTyped, AccountRecord, CallRecord, CodesTyped, CodeRecord, ProofsHold, Proving,
         Auth!Idle, Auth!Free, Auth!Active
<1>4. HashesAreChosen'
  BY DEF AccountsTyped, AccountRecord, CallRecord, CodesTyped, CodeRecord, HashesAreChosen,
         ProofsHold, Proving, Auth!Idle, Auth!Free, Auth!Active
<1>5. SessionsRest'
  BY DEF AccountsTyped, AccountRecord, CallRecord, SessionRecord, CodesTyped, CodeRecord,
         SessionsRest, ProofsHold, Proving, TokensAreTheirs, Auth!Idle, Auth!Free, Auth!Active
<1>6. TokensAreTheirs'
  BY DEF AccountsTyped, AccountRecord, CallRecord, SessionRecord, TokensAreTheirs, ProofsHold,
         Proving, Auth!Idle, Auth!Free, Auth!Active
<1>7. LockedAreOpen'
  BY DEF AccountsTyped, AccountRecord, CallRecord, SessionRecord, CodesTyped, CodeRecord,
         LockedAreOpen, ProofsHold, Proving, TokensAreTheirs, Auth!Idle, Auth!Free, Auth!Active
<1>8. LocksAreAlone'
  BY DEF AccountsTyped, AccountRecord, CallRecord, LocksAreAlone, Auth!Idle, Auth!Free,
         Auth!Active
<1>9. PasswordsAreChosen'
  BY DEF AccountsTyped, AccountRecord, CallRecord, PasswordsAreChosen, Auth!Idle, Auth!Free,
         Auth!Active
<1>10. Auth!LastCodeOnly'
  BY DEF AccountsTyped, CodesTyped, CodeRecord, Auth!LastCodeOnly, Auth!Idle, Auth!Free,
         Auth!Active
<1> QED
  BY <1>1, <1>2, <1>3, <1>4, <1>5, <1>6, <1>7, <1>8, <1>9, <1>10

LEMMA ChallengeKeeps ==
  ASSUME Auth!AccountsAssumption, AccountsInv, NEW r \in Calls, NEW code \in Codes, NEW delivered \in BOOLEAN,
         Auth!Challenge(r, code, delivered)
  PROVE  AccountsInv'
<1> USE DEF AccountsInv, Auth!Challenge
<1> DEFINE u == call[r].user
           kind == call[r].kind
<1>a. u \in Users /\ kind \in {"verify", "reset"}
  BY DEF ChallengesAreForSomeone
<1>b. Auth!Inserts(u, kind, code) =>
        /\ codes' = [c \in {code} \cup DOMAIN codes |->
             IF c = code THEN [kind |-> kind, user |-> u, over |-> FALSE]
             ELSE IF c \in Auth!CodesOf(u, kind) THEN [codes[c] EXCEPT !.over = TRUE]
             ELSE codes[c]]
        /\ code \notin DOMAIN codes
  BY DEF Auth!Put, Auth!Inserts
<1>c. ~Auth!Inserts(u, kind, code) => codes' = codes
  OBVIOUS
<1>d. \A c \in DOMAIN codes : codes[c] \in CodeRecord
  BY DEF AccountsTyped, CodesTyped
<1> HIDE DEF u, kind
<1>1. AccountsTyped'
  <2>1. account' \in [Users -> AccountRecord]
    BY DEF AccountsTyped
  <2>2. PICK n \in 0 .. MaxSessions : sessions \in [1 .. n -> SessionRecord(n)]
    BY DEF AccountsTyped
  <2>3. sessions' \in [1 .. n -> SessionRecord(n)]
    BY <2>2
  <2>4. CodesTyped' /\ mail' \subseteq Codes
    <3>1. CodesTyped'
      <4>1. CASE Auth!Inserts(u, kind, code)
        <5>1. [kind |-> kind, user |-> u, over |-> FALSE] \in CodeRecord
          BY <1>a DEF CodeRecord
        <5>2. \A c \in DOMAIN codes : [codes[c] EXCEPT !.over = TRUE] \in CodeRecord
          BY <1>d DEF CodeRecord
        <5>3. DOMAIN codes \subseteq Codes
          BY DEF AccountsTyped, CodesTyped
        <5> HIDE DEF AccountsInv, Auth!Challenge
        <5>4. codes' \in [{code} \cup DOMAIN codes -> CodeRecord]
          BY <4>1, <5>1, <5>2, <1>b, <1>d
        <5> QED
          BY <5>3, <5>4 DEF CodesTyped
      <4>2. CodesTyped
        BY DEF AccountsTyped
      <4> QED
        BY <4>1, <4>2, <1>c DEF CodesTyped
    <3> QED
      BY <3>1 DEF AccountsTyped, Auth!Mailed
  <2>5. call' \in [Calls -> CallRecord]
    BY DEF AccountsTyped, AccountRecord, CallRecord, Auth!Idle, Auth!Ends, Auth!CodesOf,
           Auth!Inserts, Auth!Mailed, Auth!Put
  <2> QED
    BY <2>1, <2>3, <2>4, <2>5 DEF AccountsTyped
<1>2. ChallengesAreForSomeone'
  BY DEF AccountsTyped, AccountRecord, CallRecord, ChallengesAreForSomeone, Auth!Idle,
         Auth!Ends, Auth!CodesOf, Auth!Inserts, Auth!Mailed, Auth!Put
<1>3. ProofsHold'
  BY DEF AccountsTyped, AccountRecord, CallRecord, CodesTyped, CodeRecord, ProofsHold, Proving,
         Auth!Idle, Auth!Ends, Auth!CodesOf, Auth!Inserts, Auth!Mailed, Auth!Put
<1>4. HashesAreChosen'
  BY DEF AccountsTyped, AccountRecord, CallRecord, CodesTyped, CodeRecord, HashesAreChosen,
         ProofsHold, Proving, Auth!Idle, Auth!Ends, Auth!CodesOf, Auth!Inserts, Auth!Mailed,
         Auth!Put
<1>5. SessionsRest'
  BY DEF AccountsTyped, AccountRecord, CallRecord, SessionRecord, CodesTyped, CodeRecord,
         SessionsRest, ProofsHold, Proving, TokensAreTheirs, Auth!Idle, Auth!Ends, Auth!CodesOf,
         Auth!Inserts, Auth!Mailed, Auth!Put
<1>6. TokensAreTheirs'
  BY DEF AccountsTyped, AccountRecord, CallRecord, SessionRecord, TokensAreTheirs, ProofsHold,
         Proving, Auth!Idle, Auth!Ends, Auth!CodesOf, Auth!Inserts, Auth!Mailed, Auth!Put
<1>7. LockedAreOpen'
  BY DEF AccountsTyped, AccountRecord, CallRecord, SessionRecord, CodesTyped, CodeRecord,
         LockedAreOpen, ProofsHold, Proving, TokensAreTheirs, Auth!Idle, Auth!Ends,
         Auth!CodesOf, Auth!Inserts, Auth!Mailed, Auth!Put
<1>8. LocksAreAlone'
  BY DEF AccountsTyped, AccountRecord, CallRecord, LocksAreAlone, Auth!Idle, Auth!Ends,
         Auth!CodesOf, Auth!Inserts, Auth!Mailed, Auth!Put
<1>9. PasswordsAreChosen'
  BY DEF AccountsTyped, AccountRecord, CallRecord, PasswordsAreChosen, Auth!Idle, Auth!Ends,
         Auth!CodesOf, Auth!Inserts, Auth!Mailed, Auth!Put
<1>10. Auth!LastCodeOnly'
  <2>0. Auth!LastCodeOnly
    OBVIOUS
  <2> HIDE DEF AccountsInv, Auth!Challenge
  <2>1. CASE Auth!Inserts(u, kind, code)
    <3>1. DOMAIN codes' = {code} \cup DOMAIN codes
      BY <2>1, <1>b
    <3>2. codes'[code].kind = kind /\ codes'[code].user = u
      BY <2>1, <1>b
    <3>3. \A c \in DOMAIN codes :
            /\ codes'[c].kind = codes[c].kind /\ codes'[c].user = codes[c].user
            /\ codes[c].over => codes'[c].over
            /\ codes[c].kind = kind /\ codes[c].user = u => codes'[c].over
      BY <2>1, <1>b, <1>d DEF CodeRecord, Auth!CodesOf
    <3> QED
      BY <2>0, <3>1, <3>2, <3>3 DEF Auth!LastCodeOnly
  <2> QED
    BY <2>0, <2>1, <1>c DEF Auth!LastCodeOnly
<1> QED
  BY <1>1, <1>2, <1>3, <1>4, <1>5, <1>6, <1>7, <1>8, <1>9, <1>10

LEMMA VerifyEmailKeeps ==
  ASSUME Auth!AccountsAssumption, AccountsInv, NEW code \in Codes,
         Auth!VerifyEmail(code)
  PROVE  AccountsInv'
<1> USE DEF AccountsInv, Auth!VerifyEmail
<1>1. AccountsTyped'
  <2>1. account' \in [Users -> AccountRecord]
    <3>1. PICK u \in Users : u = codes[code].user
      BY DEF AccountsTyped, CodesTyped, CodeRecord, Auth!CodeHolds
    <3>2. account[u] \in AccountRecord /\ account' = [account EXCEPT ![u].verified = TRUE]
      BY <3>1 DEF AccountsTyped
    <3>3. [account[u] EXCEPT !.verified = TRUE] \in AccountRecord
      BY <3>2 DEF AccountRecord
    <3> QED
      BY <3>2, <3>3 DEF AccountsTyped
  <2>2. PICK n \in 0 .. MaxSessions : sessions \in [1 .. n -> SessionRecord(n)]
    BY DEF AccountsTyped
  <2>3. sessions' \in [1 .. n -> SessionRecord(n)]
    BY <2>2 DEF SessionRecord
  <2>4. CodesTyped' /\ mail' \subseteq Codes
    BY DEF AccountsTyped, CodesTyped, CodeRecord, Auth!CodeHolds
  <2>5. call' \in [Calls -> CallRecord]
    BY DEF AccountsTyped
  <2> QED
    BY <2>1, <2>3, <2>4, <2>5 DEF AccountsTyped
<1>2. ChallengesAreForSomeone'
  BY DEF AccountsTyped, AccountRecord, CallRecord, ChallengesAreForSomeone, Auth!CodeHolds
<1>3. ProofsHold'
  BY DEF AccountsTyped, AccountRecord, CallRecord, CodesTyped, CodeRecord, ProofsHold, Proving,
         Auth!CodeHolds
<1>4. HashesAreChosen'
  BY DEF AccountsTyped, AccountRecord, CallRecord, CodesTyped, CodeRecord, HashesAreChosen,
         ProofsHold, Proving, Auth!CodeHolds
<1>5. SessionsRest'
  BY DEF AccountsTyped, AccountRecord, CallRecord, SessionRecord, CodesTyped, CodeRecord,
         SessionsRest, ProofsHold, Proving, TokensAreTheirs, Auth!CodeHolds
<1>6. TokensAreTheirs'
  BY DEF AccountsTyped, AccountRecord, CallRecord, SessionRecord, TokensAreTheirs, ProofsHold,
         Proving, Auth!CodeHolds
<1>7. LockedAreOpen'
  BY DEF AccountsTyped, AccountRecord, CallRecord, SessionRecord, CodesTyped, CodeRecord,
         LockedAreOpen, ProofsHold, Proving, TokensAreTheirs, Auth!CodeHolds
<1>8. LocksAreAlone'
  BY DEF AccountsTyped, AccountRecord, CallRecord, LocksAreAlone, Auth!CodeHolds
<1>9. PasswordsAreChosen'
  BY DEF AccountsTyped, AccountRecord, CallRecord, PasswordsAreChosen, Auth!CodeHolds
<1>10. Auth!LastCodeOnly'
  BY DEF AccountsTyped, CodesTyped, CodeRecord, Auth!LastCodeOnly, Auth!CodeHolds
<1> QED
  BY <1>1, <1>2, <1>3, <1>4, <1>5, <1>6, <1>7, <1>8, <1>9, <1>10

LEMMA CodeExpiresKeeps ==
  ASSUME Auth!AccountsAssumption, AccountsInv, NEW code \in Codes,
         Auth!CodeExpires(code)
  PROVE  AccountsInv'
<1> USE DEF AccountsInv, Auth!CodeExpires
<1>1. AccountsTyped'
  <2>1. account' \in [Users -> AccountRecord]
    BY DEF AccountsTyped, AccountRecord, CallRecord, CodesTyped, CodeRecord
  <2>2. PICK n \in 0 .. MaxSessions : sessions \in [1 .. n -> SessionRecord(n)]
    BY DEF AccountsTyped
  <2>3. sessions' \in [1 .. n -> SessionRecord(n)]
    BY <2>2 DEF SessionRecord
  <2>4. CodesTyped' /\ mail' \subseteq Codes
    BY DEF AccountsTyped, CodesTyped, CodeRecord
  <2>5. call' \in [Calls -> CallRecord]
    BY DEF AccountsTyped, AccountRecord, CallRecord, CodesTyped, CodeRecord
  <2> QED
    BY <2>1, <2>3, <2>4, <2>5 DEF AccountsTyped
<1>2. ChallengesAreForSomeone'
  BY DEF AccountsTyped, AccountRecord, CallRecord, ChallengesAreForSomeone
<1>3. ProofsHold'
  BY DEF AccountsTyped, AccountRecord, CallRecord, CodesTyped, CodeRecord, ProofsHold, Proving
<1>4. HashesAreChosen'
  BY DEF AccountsTyped, AccountRecord, CallRecord, CodesTyped, CodeRecord, HashesAreChosen,
         ProofsHold, Proving
<1>5. SessionsRest'
  BY DEF AccountsTyped, AccountRecord, CallRecord, SessionRecord, CodesTyped, CodeRecord,
         SessionsRest, ProofsHold, Proving, TokensAreTheirs
<1>6. TokensAreTheirs'
  BY DEF AccountsTyped, AccountRecord, CallRecord, SessionRecord, TokensAreTheirs, ProofsHold,
         Proving
<1>7. LockedAreOpen'
  BY DEF AccountsTyped, AccountRecord, CallRecord, SessionRecord, CodesTyped, CodeRecord,
         LockedAreOpen, ProofsHold, Proving, TokensAreTheirs
<1>8. LocksAreAlone'
  BY DEF AccountsTyped, AccountRecord, CallRecord, LocksAreAlone
<1>9. PasswordsAreChosen'
  BY DEF AccountsTyped, AccountRecord, CallRecord, PasswordsAreChosen
<1>10. Auth!LastCodeOnly'
  BY DEF AccountsTyped, CodesTyped, CodeRecord, Auth!LastCodeOnly
<1> QED
  BY <1>1, <1>2, <1>3, <1>4, <1>5, <1>6, <1>7, <1>8, <1>9, <1>10

LEMMA CompleteResetKeeps ==
  ASSUME Auth!AccountsAssumption, AccountsInv, NEW code \in Codes, NEW password \in Passwords,
         Auth!CompleteReset(code, password)
  PROVE  AccountsInv'
<1> USE DEF AccountsInv, Auth!CompleteReset
<1>1. AccountsTyped'
  <2>1. account' \in [Users -> AccountRecord]
    <3>1. PICK v \in Users : v = codes[code].user
      BY DEF AccountsTyped, CodesTyped, CodeRecord, Auth!CodeHolds
    <3>2. account' = Auth!ResetTo(v, password)
      BY <3>1
    <3> DEFINE one == [account EXCEPT ![v].password = password]
               two == [one EXCEPT ![v].outdated = FALSE]
               three == [two EXCEPT ![v].chosen = password]
               four == [three EXCEPT ![v].resets = @ + 1]
    <3>3. account' = [four EXCEPT ![v].overtaken = FALSE]
      <4>1. account \in [Users -> AccountRecord] /\ account[v] \in AccountRecord
        BY DEF AccountsTyped
      <4>2. three[v].resets = account[v].resets
        BY <4>1 DEF AccountRecord
      <4>3. account' = [[three EXCEPT ![v].resets = account[v].resets + 1]
                          EXCEPT ![v].overtaken = FALSE]
        BY <3>2, <4>1 DEF Auth!ResetTo
      <4> HIDE DEF three
      <4> QED
        BY <4>2, <4>3
    <3>4. one \in [Users -> AccountRecord]
      BY DEF AccountsTyped, AccountRecord
    <3> HIDE DEF one
    <3>5. two \in [Users -> AccountRecord]
      BY <3>4 DEF AccountRecord
    <3> HIDE DEF two
    <3>6. three \in [Users -> AccountRecord]
      BY <3>5 DEF AccountRecord
    <3> HIDE DEF three
    <3>7. four \in [Users -> AccountRecord]
      BY <3>6 DEF AccountRecord
    <3> HIDE DEF four
    <3> QED
      BY <3>3, <3>7 DEF AccountRecord
  <2>2. PICK n \in 0 .. MaxSessions : sessions \in [1 .. n -> SessionRecord(n)]
    BY DEF AccountsTyped
  <2>3. sessions' \in [1 .. n -> SessionRecord(n)]
    BY <2>2 DEF SessionRecord, Auth!CodeHolds, Auth!ResetTo, Auth!Revoked
  <2>4. CodesTyped' /\ mail' \subseteq Codes
    BY DEF AccountsTyped, CodesTyped, CodeRecord, Auth!CodeHolds, Auth!ResetTo, Auth!Revoked
  <2>5. call' \in [Calls -> CallRecord]
    <3>1. \A c \in CallRecord : [c EXCEPT !.late = TRUE] \in CallRecord
      BY DEF CallRecord
    <3> QED
      BY <3>1 DEF AccountsTyped
  <2> QED
    BY <2>1, <2>3, <2>4, <2>5 DEF AccountsTyped
<1>2. ChallengesAreForSomeone'
  BY DEF AccountsTyped, AccountRecord, CallRecord, ChallengesAreForSomeone, Auth!CodeHolds,
         Auth!ResetTo, Auth!Revoked
<1>3. ProofsHold'
  <2>1. PICK u \in Users : u = codes[code].user
    BY DEF AccountsTyped, CodesTyped, CodeRecord, Auth!CodeHolds
  <2>2. \A v \in Users :
          /\ account'[v].status = account[v].status /\ account'[v].verified = account[v].verified
          /\ v # u => account'[v].resets = account[v].resets
    <3>1. account' = Auth!ResetTo(u, password) /\ account \in [Users -> AccountRecord]
      BY <2>1 DEF AccountsTyped
    <3> HIDE DEF AccountsInv, Auth!CompleteReset
    <3> QED
      BY <3>1 DEF AccountRecord, Auth!ResetTo
  <2>3. \A r \in Calls :
          /\ call'[r].pc = call[r].pc /\ call'[r].user = call[r].user /\ call'[r].proof = call[r].proof
          /\ call[r].late => call'[r].late
          /\ r \in Proving /\ call[r].user = u => call'[r].late
    BY <2>1 DEF AccountsTyped, CallRecord, Proving
  <2>4. ProofsHold
    OBVIOUS
  <2> HIDE DEF AccountsInv, Auth!CompleteReset
  <2> QED
    BY <2>2, <2>3, <2>4 DEF ProofsHold, Proving
<1>4. HashesAreChosen'
  BY DEF AccountsTyped, AccountRecord, CallRecord, CodesTyped, CodeRecord, HashesAreChosen,
         ProofsHold, Proving, Auth!CodeHolds, Auth!ResetTo, Auth!Revoked
<1>5. SessionsRest'
  BY DEF AccountsTyped, AccountRecord, CallRecord, SessionRecord, CodesTyped, CodeRecord,
         SessionsRest, ProofsHold, Proving, TokensAreTheirs, Auth!CodeHolds, Auth!ResetTo,
         Auth!Revoked
<1>6. TokensAreTheirs'
  BY DEF AccountsTyped, AccountRecord, CallRecord, SessionRecord, TokensAreTheirs, ProofsHold,
         Proving, Auth!CodeHolds, Auth!ResetTo, Auth!Revoked
<1>7. LockedAreOpen'
  BY DEF AccountsTyped, AccountRecord, CallRecord, SessionRecord, CodesTyped, CodeRecord,
         LockedAreOpen, ProofsHold, Proving, TokensAreTheirs, Auth!CodeHolds, Auth!ResetTo,
         Auth!Revoked
<1>8. LocksAreAlone'
  BY DEF AccountsTyped, AccountRecord, CallRecord, LocksAreAlone, Auth!CodeHolds, Auth!ResetTo,
         Auth!Revoked
<1>9. PasswordsAreChosen'
  BY DEF AccountsTyped, AccountRecord, CallRecord, PasswordsAreChosen, Auth!CodeHolds,
         Auth!ResetTo, Auth!Revoked
<1>10. Auth!LastCodeOnly'
  BY DEF AccountsTyped, CodesTyped, CodeRecord, Auth!LastCodeOnly, Auth!CodeHolds, Auth!ResetTo,
         Auth!Revoked
<1> QED
  BY <1>1, <1>2, <1>3, <1>4, <1>5, <1>6, <1>7, <1>8, <1>9, <1>10

LEMMA DisableAccountKeeps ==
  ASSUME Auth!AccountsAssumption, AccountsInv, NEW u \in Users,
         Auth!DisableAccount(u)
  PROVE  AccountsInv'
<1> USE DEF AccountsInv, Auth!DisableAccount
<1>1. AccountsTyped'
  <2>1. account' \in [Users -> AccountRecord]
    BY DEF AccountsTyped, AccountRecord
  <2>2. PICK n \in 0 .. MaxSessions : sessions \in [1 .. n -> SessionRecord(n)]
    BY DEF AccountsTyped
  <2>3. sessions' \in [1 .. n -> SessionRecord(n)]
    BY <2>2 DEF SessionRecord, Auth!Revoked
  <2>4. CodesTyped' /\ mail' \subseteq Codes
    BY DEF AccountsTyped, CodesTyped
  <2>5. call' \in [Calls -> CallRecord]
    BY DEF AccountsTyped
  <2> QED
    BY <2>1, <2>3, <2>4, <2>5 DEF AccountsTyped
<1>2. ChallengesAreForSomeone'
  BY DEF AccountsTyped, AccountRecord, CallRecord, ChallengesAreForSomeone, Auth!Revoked,
         Auth!Active
<1>3. ProofsHold'
  BY DEF AccountsTyped, AccountRecord, CallRecord, CodesTyped, CodeRecord, ProofsHold, Proving,
         Auth!Revoked, Auth!Active
<1>4. HashesAreChosen'
  BY DEF AccountsTyped, AccountRecord, CallRecord, CodesTyped, CodeRecord, HashesAreChosen,
         ProofsHold, Proving, Auth!Revoked, Auth!Active
<1>5. SessionsRest'
  BY DEF AccountsTyped, AccountRecord, CallRecord, SessionRecord, CodesTyped, CodeRecord,
         SessionsRest, ProofsHold, Proving, TokensAreTheirs, Auth!Revoked, Auth!Active
<1>6. TokensAreTheirs'
  BY DEF AccountsTyped, AccountRecord, CallRecord, SessionRecord, TokensAreTheirs, ProofsHold,
         Proving, Auth!Revoked, Auth!Active
<1>7. LockedAreOpen'
  BY DEF AccountsTyped, AccountRecord, CallRecord, SessionRecord, CodesTyped, CodeRecord,
         LockedAreOpen, ProofsHold, Proving, TokensAreTheirs, Auth!Revoked, Auth!Active
<1>8. LocksAreAlone'
  BY DEF AccountsTyped, AccountRecord, CallRecord, LocksAreAlone, Auth!Revoked, Auth!Active
<1>9. PasswordsAreChosen'
  BY DEF AccountsTyped, AccountRecord, CallRecord, PasswordsAreChosen, Auth!Revoked, Auth!Active
<1>10. Auth!LastCodeOnly'
  BY DEF AccountsTyped, CodesTyped, CodeRecord, Auth!LastCodeOnly, Auth!Revoked, Auth!Active
<1> QED
  BY <1>1, <1>2, <1>3, <1>4, <1>5, <1>6, <1>7, <1>8, <1>9, <1>10

LEMMA RehashKeeps ==
  ASSUME Auth!AccountsAssumption, AccountsInv, NEW r \in Calls,
         Auth!Rehash(r)
  PROVE  AccountsInv'
<1> USE DEF AccountsInv, Auth!Rehash
<1>1. AccountsTyped'
  <2>1. account' \in [Users -> AccountRecord]
    <3>1. PICK u \in Users : u = call[r].user
      BY DEF ProofsHold, Proving
    <3>2. account' = [account EXCEPT ![u].password = call[r].password, ![u].outdated = FALSE,
                                     ![u].overtaken = @ \/ call[r].late]
      BY <3>1
    <3>3. call[r].password \in Passwords \cup {Null} /\ call[r].late \in BOOLEAN
      BY DEF AccountsTyped, CallRecord
    <3>4. account[u] \in AccountRecord
      BY DEF AccountsTyped
    <3>5. [account[u] EXCEPT !.password = call[r].password, !.outdated = FALSE,
                             !.overtaken = @ \/ call[r].late] \in AccountRecord
      BY <3>3, <3>4 DEF AccountRecord
    <3> QED
      BY <3>2, <3>5 DEF AccountsTyped
  <2>2. PICK n \in 0 .. MaxSessions : sessions \in [1 .. n -> SessionRecord(n)]
    BY DEF AccountsTyped
  <2>3. sessions' \in [1 .. n -> SessionRecord(n)]
    BY <2>2 DEF SessionRecord
  <2>4. CodesTyped' /\ mail' \subseteq Codes
    BY DEF AccountsTyped, CodesTyped
  <2>5. call' \in [Calls -> CallRecord]
    <3>1. [call[r] EXCEPT !.pc = "session"] \in CallRecord
      BY DEF AccountsTyped, CallRecord
    <3> QED
      BY <3>1 DEF AccountsTyped
  <2> QED
    BY <2>1, <2>3, <2>4, <2>5 DEF AccountsTyped
<1>2. ChallengesAreForSomeone'
  BY DEF AccountsTyped, AccountRecord, CallRecord, ChallengesAreForSomeone
<1>3. ProofsHold'
  BY DEF AccountsTyped, AccountRecord, CallRecord, CodesTyped, CodeRecord, ProofsHold, Proving
<1>4. HashesAreChosen'
  BY DEF AccountsTyped, AccountRecord, CallRecord, CodesTyped, CodeRecord, HashesAreChosen,
         ProofsHold, Proving
<1>5. SessionsRest'
  BY DEF AccountsTyped, AccountRecord, CallRecord, SessionRecord, CodesTyped, CodeRecord,
         SessionsRest, ProofsHold, Proving, TokensAreTheirs
<1>6. TokensAreTheirs'
  BY DEF AccountsTyped, AccountRecord, CallRecord, SessionRecord, TokensAreTheirs, ProofsHold,
         Proving
<1>7. LockedAreOpen'
  BY DEF AccountsTyped, AccountRecord, CallRecord, SessionRecord, CodesTyped, CodeRecord,
         LockedAreOpen, ProofsHold, Proving, TokensAreTheirs
<1>8. LocksAreAlone'
  BY DEF AccountsTyped, AccountRecord, CallRecord, LocksAreAlone
<1>9. PasswordsAreChosen'
  <2>1. PICK u \in Users : u = call[r].user
    BY DEF ProofsHold, Proving
  <2>2. account' = [account EXCEPT ![u].password = call[r].password, ![u].outdated = FALSE,
                                   ![u].overtaken = @ \/ call[r].late]
    BY <2>1
  <2>3. DOMAIN account = Users /\ \A v \in Users : account[v] \in AccountRecord
    BY DEF AccountsTyped
  <2>4. /\ account'[u].password = call[r].password /\ account'[u].chosen = account[u].chosen
        /\ account'[u].overtaken = (account[u].overtaken \/ call[r].late)
    BY <2>2, <2>3 DEF AccountRecord
  <2>5. \A v \in Users : v # u => account'[v] = account[v]
    BY <2>2, <2>3
  <2> QED
    BY <2>1, <2>4, <2>5 DEF HashesAreChosen, PasswordsAreChosen
<1>10. Auth!LastCodeOnly'
  BY DEF AccountsTyped, CodesTyped, CodeRecord, Auth!LastCodeOnly
<1> QED
  BY <1>1, <1>2, <1>3, <1>4, <1>5, <1>6, <1>7, <1>8, <1>9, <1>10

LEMMA CreateSessionKeeps ==
  ASSUME Auth!AccountsAssumption, AccountsInv, NEW r \in Calls,
         Auth!CreateSession(r)
  PROVE  AccountsInv'
<1> USE DEF AccountsInv, Auth!CreateSession
<1>a. \A q \in Calls : q # r => call'[q] = call[q]
  BY DEF AccountsTyped, Auth!Ends
<1>b. call'[r].pc = "idle" /\ call' \in [Calls -> CallRecord]
  <2>1. Auth!Idle \in CallRecord
    BY DEF Auth!Idle, CallRecord
  <2> QED
    BY <2>1 DEF AccountsTyped, Auth!Ends, Auth!Idle
<1>c. PICK n \in 0 .. MaxSessions : sessions \in [1 .. n -> SessionRecord(n)]
  BY DEF AccountsTyped
<1>d. Auth!NewToken = n + 1 /\ n + 1 \in 1 .. MaxSessions
  BY <1>c, NextToken
<1> DEFINE opened == Auth!Active(call[r].user) /\ account[call[r].user].verified
           new == Auth!NewSession(r, n + 1)
<1>e. call[r].user \in Users /\ new \in SessionRecord(n + 1) /\ new.user = call[r].user
  BY DEF ProofsHold, Proving, AccountsTyped, CallRecord, SessionRecord, Auth!NewSession
<1>f. opened => sessions' = [t \in {n + 1} \cup 1 .. n |-> IF t = n + 1 THEN new ELSE sessions[t]]
  BY <1>c, <1>d DEF Auth!Put
<1>g. ~opened => sessions' = sessions
  OBVIOUS
<1>h. ~new.over /\ new.proof = call[r].proof /\ new.late = call[r].late
  BY DEF Auth!NewSession
<1>1. AccountsTyped'
  <2>1. CASE opened
    <3>1. \A t \in 1 .. n : sessions[t] \in SessionRecord(n + 1)
      BY <1>c, SessionsGrow
    <3>2. sessions' \in [1 .. n + 1 -> SessionRecord(n + 1)]
      <4>1. {n + 1} \cup 1 .. n = 1 .. n + 1
        OBVIOUS
      <4> HIDE DEF new
      <4> QED
        BY <2>1, <3>1, <4>1, <1>e, <1>f
    <3>3. n + 1 \in 0 .. MaxSessions
      BY <1>d
    <3> QED
      BY <3>2, <3>3, <1>b DEF AccountsTyped, CodesTyped
  <2> QED
    BY <2>1, <1>b, <1>g DEF AccountsTyped, CodesTyped
<1>2. ChallengesAreForSomeone'
  BY <1>a, <1>b DEF ChallengesAreForSomeone
<1>3. ProofsHold'
  BY <1>a, <1>b DEF ProofsHold, Proving
<1>4. HashesAreChosen'
  BY <1>a, <1>b DEF HashesAreChosen
<1>5. SessionsRest'
  <2>1. CASE opened
    <3>1. account[new.user].status # "none" /\ account[new.user].verified
      BY <2>1, <1>e DEF Auth!Active
    <3>2. new.proof = account[new.user].resets \/ new.late
      BY <1>e, <1>h DEF ProofsHold, Proving
    <3>3. SessionsRest /\ account' = account
      OBVIOUS
    <3> HIDE DEF new, AccountsInv, Auth!CreateSession
    <3> QED
      BY <2>1, <3>1, <3>2, <3>3, <1>c, <1>f DEF SessionsRest
  <2> QED
    BY <2>1, <1>g DEF SessionsRest
<1>6. TokensAreTheirs'
  <2>1. DOMAIN sessions \subseteq DOMAIN sessions'
        /\ \A t \in DOMAIN sessions : sessions'[t] = sessions[t]
    <3> HIDE DEF new
    <3> QED
      BY <1>c, <1>f, <1>g
  <2> QED
    BY <2>1, <1>a, <1>b DEF TokensAreTheirs
<1>7. LockedAreOpen'
  <2>1. \A t \in DOMAIN sessions : sessions'[t] = sessions[t]
    <3> HIDE DEF new
    <3> QED
      BY <1>c, <1>f, <1>g
  <2> QED
    BY <2>1, <1>a, <1>b DEF LockedAreOpen, TokensAreTheirs
<1>8. LocksAreAlone'
  BY <1>a, <1>b DEF LocksAreAlone
<1>9. PasswordsAreChosen'
  BY DEF AccountsTyped, AccountRecord, CallRecord, PasswordsAreChosen, Auth!Ends, Auth!Idle,
         Auth!NewSession, Auth!Put, Auth!Active
<1>10. Auth!LastCodeOnly'
  BY DEF AccountsTyped, CodesTyped, CodeRecord, Auth!LastCodeOnly, Auth!Ends, Auth!Idle,
         Auth!NewSession, Auth!Put, Auth!Active
<1> QED
  BY <1>1, <1>2, <1>3, <1>4, <1>5, <1>6, <1>7, <1>8, <1>9, <1>10

LEMMA LockSessionKeeps ==
  ASSUME Auth!AccountsAssumption, AccountsInv, NEW r \in Calls,
         Auth!LockSession(r)
  PROVE  AccountsInv'
<1> USE DEF AccountsInv, Auth!LockSession
<1>a. \A q \in Calls : q # r => call'[q] = call[q]
  BY DEF AccountsTyped, Auth!Ends
<1>b. \/ Auth!Open(call[r].token) /\ call'[r] = [call[r] EXCEPT !.pc = "rotating"]
      \/ call'[r] = Auth!Idle
  BY DEF AccountsTyped, Auth!Ends, Auth!CanRotate
<1>c. call[r].pc = "rotate" /\ r \in Proving
  BY DEF Proving
<1>d. /\ call'[r].pc = "rotating" => Auth!Open(call[r].token)
      /\ call'[r].pc \in {"rotating", "idle"}
      /\ call'[r].pc = "rotating" =>
           /\ call'[r].user = call[r].user /\ call'[r].proof = call[r].proof
           /\ call'[r].token = call[r].token /\ call'[r].late = call[r].late
  <2>1. call[r] \in CallRecord
    BY DEF AccountsTyped
  <2> HIDE DEF AccountsInv, Auth!LockSession
  <2> QED
    BY <1>b, <2>1 DEF CallRecord, Auth!Idle
<1>e. UNCHANGED <<account, sessions, codes, mail>>
  OBVIOUS
<1>1. AccountsTyped'
  <2>1. Auth!Idle \in CallRecord
    BY DEF Auth!Idle, CallRecord
  <2>2. [call[r] EXCEPT !.pc = "rotating"] \in CallRecord
    BY DEF AccountsTyped, CallRecord
  <2>3. call' \in [Calls -> CallRecord]
    BY <2>1, <2>2 DEF AccountsTyped, Auth!Ends
  <2> QED
    BY <2>3, <1>e DEF AccountsTyped, CodesTyped
<1>2. ChallengesAreForSomeone'
  BY <1>a, <1>d DEF ChallengesAreForSomeone
<1>3. ProofsHold'
  BY <1>a, <1>c, <1>d, <1>e DEF ProofsHold, Proving
<1>4. HashesAreChosen'
  BY <1>a, <1>d, <1>e DEF HashesAreChosen
<1>5. SessionsRest'
  BY <1>e DEF SessionsRest
<1>6. TokensAreTheirs'
  BY <1>a, <1>c, <1>d, <1>e DEF TokensAreTheirs
<1>7. LockedAreOpen'
  BY <1>a, <1>d, <1>e DEF LockedAreOpen, Auth!Open
<1>8. LocksAreAlone'
  BY <1>a, <1>d DEF LocksAreAlone, Auth!Locked
<1>9. PasswordsAreChosen'
  BY <1>e DEF PasswordsAreChosen
<1>10. Auth!LastCodeOnly'
  BY <1>e DEF Auth!LastCodeOnly
<1> QED
  BY <1>1, <1>2, <1>3, <1>4, <1>5, <1>6, <1>7, <1>8, <1>9, <1>10

LEMMA RotateSessionKeeps ==
  ASSUME Auth!AccountsAssumption, AccountsInv, NEW r \in Calls,
         Auth!RotateSession(r)
  PROVE  AccountsInv'
<1> USE DEF AccountsInv, Auth!RotateSession
<1>a. \A q \in Calls : q # r => call'[q] = call[q]
  BY DEF AccountsTyped, Auth!Ends
<1>b. call'[r].pc = "idle" /\ call' \in [Calls -> CallRecord]
  <2>1. Auth!Idle \in CallRecord
    BY DEF Auth!Idle, CallRecord
  <2> QED
    BY <2>1 DEF AccountsTyped, Auth!Ends, Auth!Idle
<1>c. PICK n \in 0 .. MaxSessions : sessions \in [1 .. n -> SessionRecord(n)]
  BY DEF AccountsTyped
<1>d. Auth!NewToken = n + 1 /\ n + 1 \in 1 .. MaxSessions
  BY <1>c, NextToken
<1> DEFINE token == call[r].token
           new == Auth!NewSession(r, sessions[token].signIn)
<1>e. /\ call[r].pc = "rotating" /\ r \in Proving
      /\ token \in 1 .. n /\ sessions[token].user = call[r].user
  BY <1>c DEF TokensAreTheirs, Proving
<1>f. sessions[token].signIn \in 1 .. n
  BY <1>c, <1>e DEF SessionRecord
<1>g. call[r].user \in Users /\ new.user = call[r].user
  BY <1>e DEF ProofsHold, Auth!NewSession
<1>h. ~new.over /\ new.proof = call[r].proof /\ new.late = call[r].late
  BY DEF Auth!NewSession
<1>i. new \in SessionRecord(n + 1)
  <2>1. call[r].proof \in Nat /\ call[r].late \in BOOLEAN
    BY DEF AccountsTyped, CallRecord
  <2>2. sessions[token].signIn \in 1 .. n + 1
    BY <1>f
  <2> QED
    BY <2>1, <2>2, <1>g DEF SessionRecord, Auth!NewSession
<1>j. sessions' = [t \in {n + 1} \cup 1 .. n |->
        IF t = n + 1 THEN new ELSE IF t = token THEN [sessions[t] EXCEPT !.over = TRUE] ELSE sessions[t]]
  <2>1. n + 1 \notin 1 .. n
    OBVIOUS
  <2>2. sessions' = Auth!Put([sessions EXCEPT ![token].over = TRUE], n + 1, new)
    BY <1>d
  <2> HIDE DEF new, token, AccountsInv, Auth!RotateSession
  <2> QED
    BY <2>1, <2>2, <1>c, <1>e DEF Auth!Put
<1>k. UNCHANGED <<account, codes, mail>>
  OBVIOUS
<1>l. /\ DOMAIN sessions' = {n + 1} \cup 1 .. n /\ sessions'[n + 1] = new
      /\ \A t \in 1 .. n :
           /\ sessions'[t].user = sessions[t].user /\ sessions'[t].proof = sessions[t].proof
           /\ sessions'[t].late = sessions[t].late
           /\ sessions[t].over => sessions'[t].over
           /\ t # token => sessions'[t] = sessions[t]
  <2> HIDE DEF new, token, AccountsInv, Auth!RotateSession
  <2> QED
    BY <1>j, <1>c, <1>e DEF SessionRecord
<1>1. AccountsTyped'
  <2>1. \A t \in 1 .. n : sessions[t] \in SessionRecord(n + 1)
    BY <1>c, SessionsGrow
  <2>2. [sessions[token] EXCEPT !.over = TRUE] \in SessionRecord(n + 1)
    BY <2>1, <1>e DEF SessionRecord
  <2>3. sessions' \in [1 .. n + 1 -> SessionRecord(n + 1)]
    <3>1. {n + 1} \cup 1 .. n = 1 .. n + 1
      OBVIOUS
    <3> HIDE DEF new, token, AccountsInv, Auth!RotateSession
    <3> QED
      BY <2>1, <2>2, <3>1, <1>e, <1>i, <1>j
  <2>4. n + 1 \in 0 .. MaxSessions
    BY <1>d
  <2> QED
    BY <2>3, <2>4, <1>b, <1>k DEF AccountsTyped, CodesTyped
<1>2. ChallengesAreForSomeone'
  BY <1>a, <1>b DEF ChallengesAreForSomeone
<1>3. ProofsHold'
  BY <1>a, <1>b, <1>k DEF ProofsHold, Proving
<1>4. HashesAreChosen'
  BY <1>a, <1>b, <1>k DEF HashesAreChosen
<1>5. SessionsRest'
  <2>1. /\ account[new.user].status # "none" /\ account[new.user].verified
        /\ new.proof = account[new.user].resets \/ new.late
    BY <1>e, <1>g, <1>h DEF ProofsHold
  <2>2. SessionsRest
    OBVIOUS
  <2> HIDE DEF new, token, AccountsInv, Auth!RotateSession
  <2> QED
    BY <2>1, <2>2, <1>c, <1>k, <1>l DEF SessionsRest
<1>6. TokensAreTheirs'
  <2> HIDE DEF new, Auth!RotateSession
  <2> QED
    BY <1>a, <1>b, <1>c, <1>l DEF TokensAreTheirs
<1>7. LockedAreOpen'
  <2>1. \A q \in Calls : q # r /\ call[q].pc = "rotating" => call[q].token \in 1 .. n /\ call[q].token # token
    BY <1>c, <1>e DEF TokensAreTheirs, LocksAreAlone
  <2>2. LockedAreOpen
    OBVIOUS
  <2> HIDE DEF new, token, AccountsInv, Auth!RotateSession
  <2> QED
    BY <2>1, <2>2, <1>a, <1>b, <1>k, <1>l DEF LockedAreOpen
<1>8. LocksAreAlone'
  BY <1>a, <1>b DEF LocksAreAlone
<1>9. PasswordsAreChosen'
  BY <1>k DEF PasswordsAreChosen
<1>10. Auth!LastCodeOnly'
  BY <1>k DEF Auth!LastCodeOnly
<1> QED
  BY <1>1, <1>2, <1>3, <1>4, <1>5, <1>6, <1>7, <1>8, <1>9, <1>10

LEMMA LogoutKeeps ==
  ASSUME Auth!AccountsAssumption, AccountsInv, NEW token \in DOMAIN sessions,
         Auth!Logout(token)
  PROVE  AccountsInv'
<1> USE DEF AccountsInv, Auth!Logout
<1>a. PICK n \in 0 .. MaxSessions : sessions \in [1 .. n -> SessionRecord(n)]
  BY DEF AccountsTyped
<1>b. /\ DOMAIN sessions' = DOMAIN sessions
      /\ \A t \in DOMAIN sessions :
           /\ sessions'[t].user = sessions[t].user /\ sessions'[t].proof = sessions[t].proof
           /\ sessions'[t].late = sessions[t].late
           /\ sessions[t].over => sessions'[t].over
           /\ t # token => sessions'[t] = sessions[t]
  BY <1>a DEF SessionRecord
<1>1. AccountsTyped'
  <2>1. account' \in [Users -> AccountRecord]
    BY DEF AccountsTyped
  <2>3. sessions' \in [1 .. n -> SessionRecord(n)]
    <3>1. sessions[token] \in SessionRecord(n)
      BY <1>a
    <3>2. [sessions[token] EXCEPT !.over = TRUE] \in SessionRecord(n)
      BY <3>1 DEF SessionRecord
    <3> QED
      BY <1>a, <3>2
  <2>4. CodesTyped' /\ mail' \subseteq Codes
    BY DEF AccountsTyped, CodesTyped
  <2>5. call' \in [Calls -> CallRecord]
    BY DEF AccountsTyped
  <2> QED
    BY <2>1, <2>3, <2>4, <2>5 DEF AccountsTyped
<1>2. ChallengesAreForSomeone'
  BY DEF AccountsTyped, AccountRecord, CallRecord, ChallengesAreForSomeone, Auth!Locked
<1>3. ProofsHold'
  BY DEF AccountsTyped, AccountRecord, CallRecord, CodesTyped, CodeRecord, ProofsHold, Proving,
         Auth!Locked
<1>4. HashesAreChosen'
  BY DEF AccountsTyped, AccountRecord, CallRecord, CodesTyped, CodeRecord, HashesAreChosen,
         ProofsHold, Proving, Auth!Locked
<1>5. SessionsRest'
  <2>1. SessionsRest /\ account' = account
    OBVIOUS
  <2> HIDE DEF AccountsInv, Auth!Logout
  <2> QED
    BY <2>1, <1>b DEF SessionsRest
<1>6. TokensAreTheirs'
  BY <1>b DEF TokensAreTheirs
<1>7. LockedAreOpen'
  BY <1>b DEF LockedAreOpen, TokensAreTheirs, Auth!Locked
<1>8. LocksAreAlone'
  BY DEF AccountsTyped, AccountRecord, CallRecord, LocksAreAlone, Auth!Locked
<1>9. PasswordsAreChosen'
  BY DEF AccountsTyped, AccountRecord, CallRecord, PasswordsAreChosen, Auth!Locked
<1>10. Auth!LastCodeOnly'
  BY DEF AccountsTyped, CodesTyped, CodeRecord, Auth!LastCodeOnly, Auth!Locked
<1> QED
  BY <1>1, <1>2, <1>3, <1>4, <1>5, <1>6, <1>7, <1>8, <1>9, <1>10

LEMMA ReverifyKeeps ==
  ASSUME Auth!AccountsAssumption, AccountsInv, NEW r \in Calls, NEW token \in DOMAIN sessions, NEW password \in Passwords,
         Auth!Reverify(r, token, password)
  PROVE  AccountsInv'
<1> USE DEF AccountsInv, Auth!Reverify
<1>a. PICK n \in 0 .. MaxSessions : sessions \in [1 .. n -> SessionRecord(n)]
  BY DEF AccountsTyped
<1> DEFINE u == sessions[token].user
           waiting == [Auth!Idle EXCEPT !.pc = "rotate", !.user = u, !.token = token,
                                        !.proof = account[u].resets]
<1>b. /\ u \in Users /\ account[u] \in AccountRecord /\ token \in Nat
      /\ account[u].status # "none" /\ account[u].verified
  BY <1>a DEF AccountsTyped, SessionRecord, SessionsRest
<1>c. \A q \in Calls : q # r => call'[q] = call[q]
  BY DEF AccountsTyped
<1>d. call'[r] \in {call[r], waiting}
  BY DEF AccountsTyped
<1>e. /\ waiting \in CallRecord /\ waiting.pc = "rotate" /\ waiting.user = u
      /\ waiting.token = token /\ waiting.proof = account[u].resets
  BY <1>b DEF CallRecord, AccountRecord, Auth!Idle
<1>f. UNCHANGED <<account, sessions, codes, mail>> /\ call[r].pc = "idle"
  BY DEF Auth!Free
<1> HIDE DEF waiting
<1>1. AccountsTyped'
  <2>1. call' \in [Calls -> CallRecord]
    BY <1>e DEF AccountsTyped, waiting
  <2> QED
    BY <2>1, <1>f DEF AccountsTyped, CodesTyped
<1>2. ChallengesAreForSomeone'
  BY <1>c, <1>d, <1>e DEF ChallengesAreForSomeone
<1>3. ProofsHold'
  BY <1>b, <1>c, <1>d, <1>e, <1>f DEF ProofsHold, Proving
<1>4. HashesAreChosen'
  BY <1>c, <1>d, <1>e, <1>f DEF HashesAreChosen
<1>5. SessionsRest'
  BY <1>f DEF SessionsRest
<1>6. TokensAreTheirs'
  BY <1>c, <1>d, <1>e, <1>f DEF TokensAreTheirs
<1>7. LockedAreOpen'
  BY <1>c, <1>d, <1>e, <1>f DEF LockedAreOpen
<1>8. LocksAreAlone'
  BY <1>c, <1>d, <1>e, <1>f DEF LocksAreAlone
<1>9. PasswordsAreChosen'
  BY <1>f DEF PasswordsAreChosen
<1>10. Auth!LastCodeOnly'
  BY <1>f DEF Auth!LastCodeOnly
<1> QED
  BY <1>1, <1>2, <1>3, <1>4, <1>5, <1>6, <1>7, <1>8, <1>9, <1>10

LEMMA SignInKeeps ==
  ASSUME Auth!AccountsAssumption, AccountsInv, NEW r \in Calls, NEW u \in Users, NEW password \in Passwords,
         Auth!SignIn(r, u, password)
  PROVE  AccountsInv'
<1> USE DEF AccountsInv, Auth!SignIn
<1>1. AccountsTyped'
  <2>1. account' \in [Users -> AccountRecord]
    BY DEF AccountsTyped, AccountRecord, CallRecord, CodesTyped, CodeRecord, Auth!Free,
           Auth!Idle, Auth!Active, Auth!Proves
  <2>2. PICK n \in 0 .. MaxSessions : sessions \in [1 .. n -> SessionRecord(n)]
    BY DEF AccountsTyped
  <2>3. sessions' \in [1 .. n -> SessionRecord(n)]
    BY <2>2 DEF SessionRecord, Auth!Free, Auth!Idle, Auth!Active, Auth!Proves
  <2>4. CodesTyped' /\ mail' \subseteq Codes
    BY DEF AccountsTyped, CodesTyped, CodeRecord, Auth!Free, Auth!Idle, Auth!Active, Auth!Proves
  <2>5. call' \in [Calls -> CallRecord]
    BY DEF AccountsTyped, AccountRecord, CallRecord, CodesTyped, CodeRecord, Auth!Free,
           Auth!Idle, Auth!Active, Auth!Proves
  <2> QED
    BY <2>1, <2>3, <2>4, <2>5 DEF AccountsTyped
<1>2. ChallengesAreForSomeone'
  BY DEF AccountsTyped, AccountRecord, CallRecord, ChallengesAreForSomeone, Auth!Free,
         Auth!Idle, Auth!Active, Auth!Proves
<1>3. ProofsHold'
  BY DEF AccountsTyped, AccountRecord, CallRecord, CodesTyped, CodeRecord, ProofsHold, Proving,
         Auth!Free, Auth!Idle, Auth!Active, Auth!Proves
<1>4. HashesAreChosen'
  <2>1. call'[r].password = password /\ ~call'[r].late /\ call'[r].user = u
    BY DEF AccountsTyped, Auth!Idle
  <2>2. \A q \in Calls : q # r => call'[q] = call[q]
    BY DEF AccountsTyped
  <2>3. password = account[u].chosen \/ account[u].overtaken
    BY DEF PasswordsAreChosen, Auth!Proves
  <2> QED
    BY <2>1, <2>2, <2>3 DEF HashesAreChosen
<1>5. SessionsRest'
  BY DEF AccountsTyped, AccountRecord, CallRecord, SessionRecord, CodesTyped, CodeRecord,
         SessionsRest, ProofsHold, Proving, TokensAreTheirs, Auth!Free, Auth!Idle, Auth!Active,
         Auth!Proves
<1>6. TokensAreTheirs'
  BY DEF AccountsTyped, AccountRecord, CallRecord, SessionRecord, TokensAreTheirs, ProofsHold,
         Proving, Auth!Free, Auth!Idle, Auth!Active, Auth!Proves
<1>7. LockedAreOpen'
  BY DEF AccountsTyped, AccountRecord, CallRecord, SessionRecord, CodesTyped, CodeRecord,
         LockedAreOpen, ProofsHold, Proving, TokensAreTheirs, Auth!Free, Auth!Idle, Auth!Active,
         Auth!Proves
<1>8. LocksAreAlone'
  BY DEF AccountsTyped, AccountRecord, CallRecord, LocksAreAlone, Auth!Free, Auth!Idle,
         Auth!Active, Auth!Proves
<1>9. PasswordsAreChosen'
  BY DEF AccountsTyped, AccountRecord, CallRecord, PasswordsAreChosen, Auth!Free, Auth!Idle,
         Auth!Active, Auth!Proves
<1>10. Auth!LastCodeOnly'
  BY DEF AccountsTyped, CodesTyped, CodeRecord, Auth!LastCodeOnly, Auth!Free, Auth!Idle,
         Auth!Active, Auth!Proves
<1> QED
  BY <1>1, <1>2, <1>3, <1>4, <1>5, <1>6, <1>7, <1>8, <1>9, <1>10

LEMMA AccountsKeep ==
  ASSUME Auth!AccountsAssumption, AccountsInv, [Auth!AccountsNext]_accountsVars
  PROVE  AccountsInv'
<1>1. CASE UNCHANGED accountsVars
  <2> USE <1>1 DEF AccountsInv, accountsVars
  <2>1. AccountsTyped' /\ SessionsRest'
    BY DEF AccountsTyped, CodesTyped, SessionsRest
  <2>2. ChallengesAreForSomeone' /\ ProofsHold' /\ HashesAreChosen'
    BY DEF ChallengesAreForSomeone, ProofsHold, HashesAreChosen, Proving
  <2>3. TokensAreTheirs' /\ LockedAreOpen' /\ LocksAreAlone'
    BY DEF TokensAreTheirs, LockedAreOpen, LocksAreAlone
  <2>4. PasswordsAreChosen' /\ Auth!LastCodeOnly'
    BY DEF PasswordsAreChosen, Auth!LastCodeOnly
  <2> QED
    BY <2>1, <2>2, <2>3, <2>4
<1>2. CASE Auth!AccountsNext
  <2>1. ASSUME NEW r \in Calls, NEW u \in Users, Auth!RequestReset(r, u) PROVE AccountsInv'
    BY <2>1, RequestResetKeeps
  <2>2. ASSUME NEW r \in Calls, NEW u \in Users, NEW p \in Passwords,
               Auth!Register(r, u, p) \/ Auth!SignIn(r, u, p)
        PROVE  AccountsInv'
    BY <2>2, RegisterKeeps, SignInKeeps
  <2>3. ASSUME NEW r \in Calls, NEW c \in Codes, NEW delivered \in BOOLEAN,
               Auth!Challenge(r, c, delivered)
        PROVE  AccountsInv'
    BY <2>3, ChallengeKeeps
  <2>4. ASSUME NEW c \in Codes, Auth!VerifyEmail(c) \/ Auth!CodeExpires(c) PROVE AccountsInv'
    BY <2>4, VerifyEmailKeeps, CodeExpiresKeeps
  <2>5. ASSUME NEW c \in Codes, NEW p \in Passwords, Auth!CompleteReset(c, p) PROVE AccountsInv'
    BY <2>5, CompleteResetKeeps
  <2>6. ASSUME NEW u \in Users, Auth!DisableAccount(u) PROVE AccountsInv'
    BY <2>6, DisableAccountKeeps
  <2>7. ASSUME NEW r \in Calls, Auth!Rehash(r) \/ Auth!CreateSession(r) PROVE AccountsInv'
    BY <2>7, RehashKeeps, CreateSessionKeeps
  <2>8. ASSUME NEW r \in Calls, Auth!LockSession(r) \/ Auth!RotateSession(r) PROVE AccountsInv'
    BY <2>8, LockSessionKeeps, RotateSessionKeeps
  <2>9. ASSUME NEW t \in DOMAIN sessions, Auth!Logout(t) PROVE AccountsInv'
    BY <2>9, LogoutKeeps
  <2>10. ASSUME NEW r \in Calls, NEW t \in DOMAIN sessions, NEW p \in Passwords,
                Auth!Reverify(r, t, p)
         PROVE  AccountsInv'
    BY <2>10, ReverifyKeeps
  <2> QED
    BY <1>2, <2>1, <2>2, <2>3, <2>4, <2>5, <2>6, <2>7, <2>8, <2>9, <2>10 DEF Auth!AccountsNext
<1> QED
  BY <1>1, <1>2

LEMMA ResetsHold ==
  ASSUME AccountsInv
  PROVE  Auth!ResetTakesHold /\ Auth!LastCodeOnly
<1>1. \A t \in DOMAIN sessions : Auth!Usable(t) =>
        account[sessions[t].user].verified
        /\ (sessions[t].proof = account[sessions[t].user].resets \/ sessions[t].late)
  BY DEF AccountsInv, SessionsRest, Auth!Usable, Auth!Open
<1> QED
  BY <1>1 DEF AccountsInv, PasswordsAreChosen, Auth!ResetTakesHold

(* A session that replaces another one, on a proof that holds, replaces an *)
(* open one.                                                               *)
HandedOn ==
  \A t \in DOMAIN sessions' \ DOMAIN sessions :
    sessions'[t].signIn # t /\ ~sessions'[t].late /\ Auth!Active(sessions'[t].user) =>
      \E s \in DOMAIN sessions :
        Auth!Open(s) /\ sessions[s].signIn = sessions'[t].signIn /\ sessions'[s].over

LEMMA RotationHandsOn ==
  ASSUME Auth!AccountsAssumption, AccountsInv, NEW r \in Calls, Auth!RotateSession(r)
  PROVE  HandedOn
<1>1. PICK n \in 0 .. MaxSessions : sessions \in [1 .. n -> SessionRecord(n)]
  BY DEF AccountsInv, AccountsTyped
<1>2. Auth!NewToken = n + 1
  BY <1>1, NextToken
<1> DEFINE token == call[r].token
           new == Auth!NewSession(r, sessions[token].signIn)
<1>3. call[r].pc = "rotating" /\ token \in DOMAIN sessions /\ new.user = call[r].user
  BY DEF Auth!RotateSession, AccountsInv, TokensAreTheirs, Auth!NewSession
<1>4. new.signIn = sessions[token].signIn /\ new.late = call[r].late
  BY DEF Auth!NewSession
<1>5. sessions' = Auth!Put([sessions EXCEPT ![token].over = TRUE], n + 1, new)
  BY <1>2 DEF Auth!RotateSession
<1>6. Auth!Active(new.user) /\ ~new.late => Auth!Open(token)
  BY <1>3, <1>4 DEF AccountsInv, LockedAreOpen, Auth!Active, Auth!Open
<1>7. token # n + 1
  BY <1>1, <1>3
<1> HIDE DEF new, token
<1>8. sessions'[n + 1] = new /\ sessions'[token].over /\ DOMAIN sessions' = {n + 1} \cup DOMAIN sessions
  BY <1>1, <1>3, <1>5, <1>7 DEF Auth!Put, SessionRecord
<1> QED
  BY <1>3, <1>4, <1>6, <1>8 DEF HandedOn

LEMMA SessionsAreHandedOn ==
  ASSUME Auth!AccountsAssumption, AccountsInv, [Auth!AccountsNext]_accountsVars
  PROVE  HandedOn
<1>1. CASE DOMAIN sessions' = DOMAIN sessions
  BY <1>1 DEF HandedOn
<1>2. ASSUME NEW r \in Calls, Auth!CreateSession(r) PROVE HandedOn
  <2>1. PICK n \in 0 .. MaxSessions : sessions \in [1 .. n -> SessionRecord(n)]
    BY DEF AccountsInv, AccountsTyped
  <2>2. Auth!NewToken = n + 1
    BY <2>1, NextToken
  <2>3. \A t \in DOMAIN sessions' \ DOMAIN sessions : t = n + 1 /\ sessions'[t].signIn = t
    BY <1>2, <2>1, <2>2 DEF Auth!CreateSession, Auth!Put, Auth!NewSession
  <2> QED
    BY <2>3 DEF HandedOn
<1>3. Auth!AccountsNext /\ (\A r \in Calls : ~Auth!CreateSession(r) /\ ~Auth!RotateSession(r))
        => DOMAIN sessions' = DOMAIN sessions
  BY DEF Auth!AccountsNext, Auth!RequestReset, Auth!Register, Auth!SignIn, Auth!Challenge,
         Auth!VerifyEmail, Auth!CodeExpires, Auth!CompleteReset, Auth!Revoked, Auth!DisableAccount,
         Auth!Rehash, Auth!LockSession, Auth!Logout, Auth!Reverify
<1>4. UNCHANGED accountsVars => DOMAIN sessions' = DOMAIN sessions
  BY DEF accountsVars
<1> QED
  BY <1>1, <1>2, <1>3, <1>4, RotationHandsOn

-----------------------------------------------------------------------------
(* Case records.  What a caller holds is the beginning of what is stored;  *)
(* it is all of it as long as nobody saved since, which is what the save   *)
(* compares, and a case that is gone is not made again.                    *)
Reader ==
  [pc : {"idle", "loaded", "saved", "missed", "conflict", "gone"}, owner : Pids \cup {Null},
   caseId : Pages \cup {Null}, revision : Nat, works : Seq(Says)]

RecordsTyped ==
  /\ records \in [Pages -> Cases!Record \cup {Null}]
  /\ requests \in [Pages -> {Null, "pending", "completed"}]
  /\ caller \in [Says -> Reader]

HeldBy(r, c) == caller[r].pc # "idle" /\ caller[r].caseId = c

HeldIsStored ==
  \A r \in Says :
    /\ caller[r].pc # "idle" => caller[r].caseId \in Pages
    /\ \A c \in Pages : HeldBy(r, c) =>
         /\ records[c] = Null => requests[c] = "completed"
         /\ records[c] # Null =>
              /\ Cases!StartsWith(records[c].works, caller[r].works)
              /\ caller[r].revision <= records[c].revision
              /\ caller[r].revision = records[c].revision => caller[r].works = records[c].works

RequestsFollow ==
  /\ Cases!DeletionIsMarked
  /\ \A c \in Pages : requests[c] = "completed" => records[c] = Null

RecordsInv == RecordsTyped /\ HeldIsStored /\ RequestsFollow

LEMMA RecordsStart ==
  ASSUME Cases!RecordsAssumption, Cases!RecordsInit
  PROVE  RecordsInv
<1>1. RecordsTyped
  <2>1. Cases!Idle \in Reader
    BY DEF Cases!Idle, Reader
  <2> QED
    BY <2>1 DEF RecordsTyped, Cases!RecordsInit
<1>2. HeldIsStored
  BY DEF HeldIsStored, HeldBy, Cases!RecordsInit, Cases!Idle
<1>3. RequestsFollow
  BY DEF RequestsFollow, Cases!DeletionIsMarked, Cases!RecordsInit, Cases!RecordsAssumption
<1> QED
  BY <1>1, <1>2, <1>3 DEF RecordsInv

LEMMA CreateKeeps ==
  ASSUME Cases!RecordsAssumption, RecordsInv, NEW o \in Pids, NEW c \in Pages, Cases!Create(o, c)
  PROVE  RecordsInv'
<1> DEFINE new == [owner |-> o, status |-> "draft", revision |-> 0, works |-> << >>]
<1>1. new \in Cases!Record
  BY DEF Cases!Record
<1>2. records[c] = Null /\ requests[c] = Null /\ UNCHANGED <<requests, caller>>
  BY DEF Cases!Create
<1>3. records'[c] = new /\ \A d \in Pages : d # c => records'[d] = records[d]
  BY DEF Cases!Create, RecordsInv, RecordsTyped
<1>4. RecordsTyped'
  BY <1>1 DEF Cases!Create, RecordsInv, RecordsTyped
<1>5. HeldIsStored'
  <2>1. \A r \in Says : ~HeldBy(r, c)
    BY <1>2 DEF RecordsInv, HeldIsStored, Cases!RecordsAssumption
  <2> QED
    BY <2>1, <1>2, <1>3 DEF RecordsInv, HeldIsStored, HeldBy
<1>6. RequestsFollow'
  BY <1>1, <1>2, <1>3 DEF RecordsInv, RequestsFollow, Cases!DeletionIsMarked, Cases!RecordsAssumption
<1> QED
  BY <1>4, <1>5, <1>6 DEF RecordsInv

LEMMA LoadKeeps ==
  ASSUME Cases!RecordsAssumption, RecordsInv, NEW r \in Says, NEW o \in Pids, NEW c \in Pages,
         Cases!Load(r, o, c)
  PROVE  RecordsInv'
<1> DEFINE now1 == [pc |-> "loaded", owner |-> o, caseId |-> c,
                    revision |-> records[c].revision, works |-> records[c].works]
<1>1. records[c] \in Cases!Record /\ records[c] # Null /\ UNCHANGED <<records, requests>>
  BY DEF Cases!Load, Cases!Owned, RecordsInv, RecordsTyped
<1>2. now1 \in Reader
  BY <1>1 DEF Cases!Record, Reader
<1>3. caller' = [caller EXCEPT ![r] = now1]
  BY DEF Cases!Load
<1>4. RecordsTyped'
  BY <1>1, <1>2, <1>3 DEF RecordsInv, RecordsTyped
<1>5. HeldIsStored'
  <2>1. caller'[r] = now1 /\ \A q \in Says : q # r => caller'[q] = caller[q]
    BY <1>3 DEF RecordsInv, RecordsTyped
  <2>2. /\ Cases!StartsWith(records[c].works, now1.works)
        /\ now1.revision <= records[c].revision
    BY <1>1 DEF Cases!StartsWith, Cases!Record
  <2> QED
    BY <1>1, <2>1, <2>2 DEF RecordsInv, HeldIsStored, HeldBy
<1>6. RequestsFollow'
  BY <1>1 DEF RecordsInv, RequestsFollow, Cases!DeletionIsMarked
<1> QED
  BY <1>4, <1>5, <1>6 DEF RecordsInv

(* What starts with the first works goes on doing so when one is added.    *)
LEMMA OneMoreWork ==
  ASSUME NEW works \in Seq(Says), NEW first \in Seq(Says), NEW r \in Says,
         Cases!StartsWith(works, first)
  PROVE  Cases!StartsWith(Append(works, r), first)
  BY DEF Cases!StartsWith

LEMMA UpdateKeeps ==
  ASSUME Cases!RecordsAssumption, RecordsInv, NEW r \in Says, Cases!Update(r)
  PROVE  RecordsInv'
<1> DEFINE c == caller[r].caseId
           works == Append(caller[r].works, r)
<1>1. c \in Pages /\ HeldBy(r, c) /\ caller[r] \in Reader /\ UNCHANGED requests
  BY DEF Cases!Update, RecordsInv, HeldIsStored, RecordsTyped, HeldBy
<1>2. \A q \in Says : q # r => caller'[q] = caller[q]
  BY DEF Cases!Update, RecordsInv, RecordsTyped
<1>3. CASE ~Cases!Matches(r)
  <2>1. records' = records /\ caller' = [caller EXCEPT ![r].pc = "missed"]
    BY <1>3 DEF Cases!Update
  <2>2. [caller[r] EXCEPT !.pc = "missed"] \in Reader
    BY <1>1 DEF Reader
  <2>3. RecordsTyped'
    BY <1>1, <2>1, <2>2 DEF RecordsInv, RecordsTyped
  <2>4. /\ caller'[r].caseId = caller[r].caseId /\ caller'[r].works = caller[r].works
        /\ caller'[r].revision = caller[r].revision
    BY <1>1, <2>1 DEF Reader, RecordsInv, RecordsTyped
  <2>5. HeldIsStored'
    BY <1>1, <1>2, <2>1, <2>4 DEF RecordsInv, HeldIsStored, HeldBy
  <2>6. RequestsFollow'
    BY <1>1, <2>1 DEF RecordsInv, RequestsFollow, Cases!DeletionIsMarked
  <2> QED
    BY <2>3, <2>5, <2>6 DEF RecordsInv
<1>4. CASE Cases!Matches(r)
  <2> DEFINE saved == [records[c] EXCEPT !.works = works, !.revision = caller[r].revision + 1]
             told == [caller[r] EXCEPT !.pc = "saved", !.revision = @ + 1, !.works = works]
  <2>1. /\ records[c] # Null /\ records[c] \in Cases!Record
        /\ records[c].revision = caller[r].revision
    BY <1>1, <1>4 DEF Cases!Matches, Cases!Owned, RecordsInv, RecordsTyped
  <2>2. caller[r].works = records[c].works
    BY <1>1, <2>1 DEF RecordsInv, HeldIsStored
  <2>3. works \in Seq(Says) /\ caller[r].revision \in Nat /\ caller[r].revision + 1 \in Nat
    BY <1>1 DEF Reader
  <2>4. saved \in Cases!Record /\ saved.status = records[c].status /\ saved.works = works
        /\ saved.revision = caller[r].revision + 1
    <3> DEFINE worked == [records[c] EXCEPT !.works = works]
               next == caller[r].revision + 1
    <3>1. next \in Nat
      BY <2>3
    <3>2. worked \in Cases!Record /\ worked.status = records[c].status /\ worked.works = works
      BY <2>1, <2>3 DEF Cases!Record
    <3>3. saved = [worked EXCEPT !.revision = next]
      BY <2>1 DEF Cases!Record
    <3> HIDE DEF worked, next, saved
    <3> QED
      BY <3>1, <3>2, <3>3 DEF Cases!Record, next
  <2>5. told \in Reader /\ told.caseId = c /\ told.works = works
        /\ told.revision = caller[r].revision + 1
    <3> DEFINE worked == [[caller[r] EXCEPT !.pc = "saved"] EXCEPT !.works = works]
               next == caller[r].revision + 1
    <3>1. next \in Nat
      BY <2>3
    <3>2. worked \in Reader /\ worked.caseId = c /\ worked.works = works
      BY <1>1, <2>3 DEF Reader
    <3>3. told = [worked EXCEPT !.revision = next]
      BY <1>1 DEF Reader
    <3> HIDE DEF worked, next, told
    <3> QED
      BY <3>1, <3>2, <3>3 DEF Reader, next
  <2>6. records' = [records EXCEPT ![c] = saved]
    BY <1>1, <1>4, <2>1 DEF Cases!Update, Cases!StatusKept, Cases!Record, RecordsInv, RecordsTyped
  <2>7. caller' = [caller EXCEPT ![r] = told]
    BY <1>4 DEF Cases!Update
  <2> HIDE DEF saved, told
  <2>8. RecordsTyped'
    BY <1>1, <2>4, <2>5, <2>6, <2>7 DEF RecordsInv, RecordsTyped
  <2>9. /\ records'[c] = saved /\ \A d \in Pages : d # c => records'[d] = records[d]
        /\ caller'[r] = told
    BY <1>1, <2>6, <2>7 DEF RecordsInv, RecordsTyped
  <2>10. Cases!StartsWith(works, works)
    BY <2>3 DEF Cases!StartsWith
  <2>11. ASSUME NEW q \in Says, q # r, HeldBy(q, c)
         PROVE  Cases!StartsWith(works, caller[q].works) /\ caller[q].revision < saved.revision
    <3>1. caller[q].works \in Seq(Says) /\ caller[q].revision \in Nat /\ caller[r].revision \in Nat
      BY DEF RecordsInv, RecordsTyped, Reader
    <3>2. /\ Cases!StartsWith(caller[r].works, caller[q].works)
          /\ caller[q].revision <= caller[r].revision
      BY <1>1, <2>1, <2>2, <2>11 DEF RecordsInv, HeldIsStored
    <3>3. caller[r].works \in Seq(Says)
      BY <1>1 DEF Reader
    <3> QED
      BY <2>4, <3>1, <3>2, <3>3, OneMoreWork
  <2>12. saved # Null
    BY <2>4 DEF Cases!RecordsAssumption
  <2>13. HeldIsStored'
    <3>1. \A q \in Says : caller'[q].pc # "idle" => caller'[q].caseId \in Pages
      BY <1>1, <1>2, <2>5, <2>9 DEF RecordsInv, HeldIsStored
    <3>2. ASSUME NEW q \in Says, NEW d \in Pages, HeldBy(q, d)'
          PROVE  /\ records'[d] = Null => requests'[d] = "completed"
                 /\ records'[d] # Null =>
                      /\ Cases!StartsWith(records'[d].works, caller'[q].works)
                      /\ caller'[q].revision <= records'[d].revision
                      /\ caller'[q].revision = records'[d].revision =>
                           caller'[q].works = records'[d].works
      <4>1. CASE q = r
        <5>1. d = c
          BY <3>2, <4>1, <2>5, <2>9 DEF HeldBy
        <5>2. caller[r].revision + 1 <= caller[r].revision + 1
          BY <2>3
        <5> QED
          BY <4>1, <5>1, <5>2, <2>4, <2>5, <2>9, <2>10, <2>12
      <4>2. CASE q # r /\ d = c
        <5>1. HeldBy(q, c) /\ caller'[q] = caller[q]
          BY <1>2, <3>2, <4>2 DEF HeldBy
        <5>2. caller[q].revision \in Nat /\ saved.revision \in Nat
          BY <2>4 DEF RecordsInv, RecordsTyped, Reader, Cases!Record
        <5>3. Cases!StartsWith(works, caller[q].works) /\ caller[q].revision < saved.revision
          BY <4>2, <5>1, <2>11
        <5>4. caller[q].revision <= saved.revision /\ caller[q].revision # saved.revision
          BY <5>2, <5>3
        <5> QED
          BY <4>2, <5>1, <5>3, <5>4, <2>4, <2>9, <2>12
      <4>3. CASE q # r /\ d # c
        BY <4>3, <3>2, <1>1, <1>2, <2>9 DEF RecordsInv, HeldIsStored, HeldBy
      <4> QED
        BY <4>1, <4>2, <4>3
    <3> QED
      BY <3>1, <3>2 DEF HeldIsStored
  <2>14. RequestsFollow'
    BY <1>1, <2>1, <2>4, <2>9, <2>12 DEF RecordsInv, RequestsFollow, Cases!DeletionIsMarked
  <2> QED
    BY <2>8, <2>13, <2>14 DEF RecordsInv
<1> QED
  BY <1>3, <1>4

LEMMA LookKeeps ==
  ASSUME RecordsInv, NEW r \in Says, Cases!Look(r)
  PROVE  RecordsInv'
<1>1. PICK pc \in {"conflict", "gone"} : caller' = [caller EXCEPT ![r].pc = pc]
  BY DEF Cases!Look
<1>2. UNCHANGED <<records, requests>> /\ caller[r].pc # "idle" /\ caller[r] \in Reader
  BY DEF Cases!Look, RecordsInv, RecordsTyped
<1>3. [caller[r] EXCEPT !.pc = pc] \in Reader
  BY <1>2 DEF Reader
<1>4. RecordsTyped'
  BY <1>1, <1>2, <1>3 DEF RecordsInv, RecordsTyped
<1>5. \A q \in Says :
        /\ caller'[q].pc # "idle" => caller[q].pc # "idle"
        /\ caller'[q].caseId = caller[q].caseId /\ caller'[q].works = caller[q].works
        /\ caller'[q].revision = caller[q].revision
  BY <1>1, <1>2 DEF Reader, RecordsInv, RecordsTyped
<1>6. HeldIsStored'
  BY <1>2, <1>5 DEF RecordsInv, HeldIsStored, HeldBy
<1>7. RequestsFollow'
  BY <1>2 DEF RecordsInv, RequestsFollow, Cases!DeletionIsMarked
<1> QED
  BY <1>4, <1>6, <1>7 DEF RecordsInv

LEMMA RequestDeletionKeeps ==
  ASSUME Cases!RecordsAssumption, RecordsInv, NEW o \in Pids, NEW c \in Pages,
         Cases!RequestDeletion(o, c)
  PROVE  RecordsInv'
<1> DEFINE marked == [records[c] EXCEPT !.status = "deletion_pending"]
<1>1. /\ records[c] # Null /\ records[c] \in Cases!Record /\ requests[c] = Null
      /\ UNCHANGED caller
  BY DEF Cases!RequestDeletion, Cases!Owned, RecordsInv, RecordsTyped
<1>2. /\ marked \in Cases!Record /\ marked.status = "deletion_pending"
      /\ marked.works = records[c].works /\ marked.revision = records[c].revision
  BY <1>1 DEF Cases!Record
<1>3. records' = [records EXCEPT ![c] = marked] /\ requests' = [requests EXCEPT ![c] = "pending"]
  BY DEF Cases!RequestDeletion
<1> HIDE DEF marked
<1>4. RecordsTyped'
  BY <1>1, <1>2, <1>3 DEF RecordsInv, RecordsTyped
<1>5. /\ records'[c] = marked /\ \A d \in Pages : d # c => records'[d] = records[d]
      /\ requests'[c] = "pending" /\ \A d \in Pages : d # c => requests'[d] = requests[d]
      /\ marked # Null
  BY <1>2, <1>3 DEF RecordsInv, RecordsTyped, Cases!RecordsAssumption
<1>6. HeldIsStored'
  BY <1>1, <1>2, <1>5 DEF RecordsInv, HeldIsStored, HeldBy
<1>7. RequestsFollow'
  BY <1>2, <1>5 DEF RecordsInv, RequestsFollow, Cases!DeletionIsMarked
<1> QED
  BY <1>4, <1>6, <1>7 DEF RecordsInv

LEMMA RemoveKeeps ==
  ASSUME RecordsInv, NEW c \in Pages, Cases!Remove(c)
  PROVE  RecordsInv'
<1>1. RecordsTyped' /\ UNCHANGED caller
  BY DEF Cases!Remove, RecordsInv, RecordsTyped
<1>2. /\ records'[c] = Null /\ \A d \in Pages : d # c => records'[d] = records[d]
      /\ requests'[c] = "completed" /\ \A d \in Pages : d # c => requests'[d] = requests[d]
  BY DEF Cases!Remove, RecordsInv, RecordsTyped
<1>3. HeldIsStored'
  BY <1>1, <1>2 DEF RecordsInv, HeldIsStored, HeldBy
<1>4. RequestsFollow'
  BY <1>2 DEF RecordsInv, RequestsFollow, Cases!DeletionIsMarked
<1> QED
  BY <1>1, <1>3, <1>4 DEF RecordsInv

LEMMA RecordsKeep ==
  ASSUME Cases!RecordsAssumption, RecordsInv, [Cases!RecordsNext]_recordsVars
  PROVE  RecordsInv'
<1>1. CASE UNCHANGED recordsVars
  BY <1>1 DEF recordsVars, RecordsInv, RecordsTyped, HeldIsStored, HeldBy, RequestsFollow,
              Cases!DeletionIsMarked
<1>2. CASE Cases!RecordsNext
  BY <1>2, CreateKeeps, RequestDeletionKeeps, LoadKeeps, UpdateKeeps, LookKeeps, RemoveKeeps
     DEF Cases!RecordsNext
<1> QED
  BY <1>1, <1>2

LEMMA RecordsAreKept ==
  ASSUME RecordsInv
  PROVE  Cases!SavesBuildOnEachOther /\ Cases!DeletionIsMarked
  BY DEF RecordsInv, RequestsFollow, HeldIsStored, HeldBy, Cases!SavesBuildOnEachOther

(* No save of a case is lost, and a case is marked as long as its deletion *)
(* is asked for: of the case records alone.                                *)
THEOREM RecordsAreSafe ==
  Cases!RecordsSpec => [](Cases!SavesBuildOnEachOther /\ Cases!DeletionIsMarked)
<1>1. Cases!RecordsInit => RecordsInv
  BY RecordsStart, PartsAssumption DEF PartsAssumption
<1>2. RecordsInv /\ [Cases!RecordsNext]_(Cases!recordsVars) => RecordsInv'
  BY RecordsKeep, PartsAssumption DEF PartsAssumption, recordsVars, Cases!recordsVars
<1> QED
  BY <1>1, <1>2, RecordsAreKept, PTL DEF Cases!RecordsSpec

-----------------------------------------------------------------------------
(* The JSON store of one process.  A save writes under the lock of its key *)
(* what it has compared there, and a process that serves keeps its run; so *)
(* a revision that was written is above all that was saved before.         *)
IsServer(x) ==
  /\ x = [pc |-> x.pc, kind |-> x.kind, pid |-> x.pid, status |-> x.status,
          todo |-> x.todo, target |-> x.target, tree |-> x.tree]
  /\ x.pc \in {"root", "lock", "clean", "collect", "remove", "make", "serve", "stopped", "gone"}
  /\ x.status \in {"none", "active", "stopped"}

IsDirectory(x) ==
  /\ x = [files |-> x.files, status |-> x.status, aged |-> x.aged, revision |-> x.revision]
  /\ x.revision \in Nat

DirectoriesTyped == DOMAIN dirs \subseteq {1} /\ \A d \in DOMAIN dirs : IsDirectory(dirs[d])

Saving ==
  [pc : {"compare", "mkdir", "rename", "touch", "saved", "conflict", "failed", "lost"},
   by : {1}, base : Nat]

StoreTyped ==
  /\ rootMarker \in {"none", "torn", "whole"}
  /\ DOMAIN proc = {1} /\ (proc[1] = [pc |-> "new"] \/ IsServer(proc[1]))
  /\ DirectoriesTyped
  /\ DOMAIN save = Savers
  /\ \A w \in Savers : save[w] = [pc |-> "idle"] \/ save[w] \in Saving

(* Nobody saves before the process has its run.                            *)
SavesComeLater ==
  /\ proc[1].pc \in {"new", "root", "make"} => \A w \in Savers : save[w].pc = "idle"
  /\ proc[1].pc \in {"root", "make"} => proc[1].status = "none"
  /\ proc[1].pc = "serve" => proc[1].status = "active"
  /\ proc[1].pc # "new" /\ proc[1].status = "none" => \A w \in Savers : save[w].pc = "idle"

OneWrites ==
  \A w, v \in Savers :
    save[w].pc \in {"mkdir", "rename", "touch"} /\ save[v].pc \in {"mkdir", "rename", "touch"}
    => w = v

RevisionsGrow ==
  "late" \notin blame =>
    /\ proc[1].pc = "serve" =>
         \A w \in Savers :
           /\ save[w].pc \in {"mkdir", "rename"} => save[w].base = Store!Revision(1)
           /\ save[w].pc \in {"touch", "saved"} => save[w].base < Store!Revision(1)
    /\ \A w, v \in Savers :
         /\ save[w].pc \in {"touch", "saved"} /\ save[v].pc \in {"touch", "saved"}
         /\ save[w].base = save[v].base
         => w = v

StoreInv == StoreTyped /\ SavesComeLater /\ OneWrites /\ RevisionsGrow

LEMMA StoreStarts ==
  ASSUME Store!RuntimeInit
  PROVE  StoreInv
<1>1. proc[1] = [pc |-> "new"] /\ DOMAIN proc = {1}
  BY DEF Store!RuntimeInit
<1>2. DOMAIN save = Savers /\ \A w \in Savers : save[w] = [pc |-> "idle"]
  BY DEF Store!RuntimeInit
<1>3. StoreTyped
  BY <1>1, <1>2 DEF StoreTyped, DirectoriesTyped, Store!RuntimeInit
<1> QED
  BY <1>1, <1>2, <1>3 DEF StoreInv, SavesComeLater, OneWrites, RevisionsGrow

LEMMA ServerIsTyped ==
  ASSUME StoreInv, proc[1].pc # "new"
  PROVE  IsServer(proc[1]) /\ DOMAIN proc = {1}
  BY DEF StoreInv, StoreTyped

LEMMA SaverIsTyped ==
  ASSUME StoreInv, NEW w \in Savers, save[w].pc # "idle"
  PROVE  save[w] \in Saving /\ DOMAIN save = Savers /\ save[w].by = 1
  BY DEF StoreInv, StoreTyped, Saving

LEMMA ServerGoes ==
  ASSUME IsServer(proc[1]), DOMAIN proc = {1},
         NEW pc \in {"lock", "clean", "make", "stopped", "gone"}, Store!Goes(1, pc)
  PROVE  /\ IsServer(proc'[1]) /\ DOMAIN proc' = {1}
         /\ proc'[1].pc = pc /\ proc'[1].status = proc[1].status
  BY DEF Store!Goes, IsServer

(* A step of a process that does not serve, neither before nor after it.   *)
LEMMA OffDuty ==
  ASSUME StoreInv, UNCHANGED save, blame \subseteq blame', StoreTyped',
         proc'[1].pc # "serve", proc'[1].pc # "new",
         proc'[1].pc \in {"root", "make"} => proc'[1].status = "none",
         proc'[1].status = "none" => \A w \in Savers : save[w].pc = "idle"
  PROVE  StoreInv'
<1>1. SavesComeLater' /\ OneWrites'
  BY DEF StoreInv, SavesComeLater, OneWrites
<1>2. RevisionsGrow'
  BY DEF StoreInv, RevisionsGrow
<1> QED
  BY <1>1, <1>2 DEF StoreInv

LEMMA StartKeeps ==
  ASSUME StoreInv, NEW kind \in {"development", "formal_demo"}, NEW pid \in Pids,
         Store!Start(1, kind, pid)
  PROVE  StoreInv'
<1>1. proc[1].pc = "new" /\ UNCHANGED <<dirs, save, blame>> /\ rootMarker \in {"none", "torn", "whole"}
  BY DEF Store!Start, StoreInv, StoreTyped
<1>2. PICK pc \in {"root", "gone", "lock"} : proc' = [proc EXCEPT ![1] =
        [pc |-> pc, kind |-> kind, pid |-> pid, status |-> "none",
         todo |-> {}, target |-> 1, tree |-> {}]]
  <2> DEFINE pc == [none |-> "root", torn |-> "gone", whole |-> "lock"][rootMarker]
  <2>1. pc \in {"root", "gone", "lock"}
    BY <1>1
  <2>2. proc' = [proc EXCEPT ![1] =
          [pc |-> pc, kind |-> kind, pid |-> pid, status |-> "none",
           todo |-> {}, target |-> 1, tree |-> {}]]
    BY DEF Store!Start
  <2> HIDE DEF pc
  <2> QED
    BY <2>1, <2>2
<1>3. IsServer(proc'[1]) /\ DOMAIN proc' = {1} /\ proc'[1].pc = pc /\ proc'[1].status = "none"
  BY <1>2 DEF IsServer, StoreInv, StoreTyped
<1>4. rootMarker' \in {"none", "torn", "whole"}
  BY <1>1 DEF Store!Start
<1>5. StoreTyped'
  BY <1>1, <1>3, <1>4 DEF StoreInv, StoreTyped, DirectoriesTyped
<1>6. \A w \in Savers : save[w].pc = "idle"
  BY <1>1 DEF StoreInv, SavesComeLater
<1> QED
  BY <1>1, <1>3, <1>5, <1>6, OffDuty

(* The steps of a start and of a cleanup.                                  *)
LEMMA CleanupKeeps ==
  ASSUME StoreInv, proc[1].pc # "new",
         \/ Store!WriteRootMarker(1) \/ Store!TakeLock(1) \/ Store!CollectTree(1)
         \/ Store!Unlock(1) \/ Store!Examine(1, 1)
  PROVE  StoreInv'
<1>1. IsServer(proc[1]) /\ DOMAIN proc = {1}
  BY ServerIsTyped
<1>2. UNCHANGED <<dirs, save, blame>> /\ rootMarker' \in {"none", "torn", "whole"}
  BY DEF Store!WriteRootMarker, Store!TakeLock, Store!CollectTree, Store!Unlock, Store!Examine,
         StoreInv, StoreTyped
<1>3. /\ IsServer(proc'[1]) /\ DOMAIN proc' = {1} /\ proc'[1].status = proc[1].status
      /\ proc'[1].pc \in {"lock", "gone", "stopped", "clean", "collect", "remove", "make"}
      /\ proc'[1].pc = "make" => proc[1].status = "none"
  <2>1. CASE Store!WriteRootMarker(1)
    BY <1>1, <2>1, ServerGoes DEF Store!WriteRootMarker
  <2>2. CASE Store!TakeLock(1)
    <3>1. CASE lockFile
      BY <1>1, <2>2, <3>1, ServerGoes DEF Store!TakeLock, Store!NoCleanup
    <3>2. CASE ~lockFile
      BY <1>1, <2>2, <3>2 DEF Store!TakeLock, IsServer
    <3> QED
      BY <3>1, <3>2
  <2>3. CASE Store!CollectTree(1)
    <3>1. CASE proc[1].target \in DOMAIN dirs
      BY <1>1, <2>3, <3>1 DEF Store!CollectTree, IsServer
    <3>2. CASE proc[1].target \notin DOMAIN dirs
      BY <1>1, <2>3, <3>2, ServerGoes DEF Store!CollectTree
    <3> QED
      BY <3>1, <3>2
  <2>4. CASE Store!Unlock(1)
    BY <1>1, <2>4, ServerGoes DEF Store!Unlock, Store!Starting
  <2>5. CASE Store!Examine(1, 1)
    BY <1>1, <2>5 DEF Store!Examine, IsServer
  <2> QED
    BY <2>1, <2>2, <2>3, <2>4, <2>5
<1>4. StoreTyped'
  BY <1>2, <1>3 DEF StoreInv, StoreTyped, DirectoriesTyped
<1>5. proc[1].status = "none" => \A w \in Savers : save[w].pc = "idle"
  BY DEF StoreInv, SavesComeLater
<1> QED
  BY <1>2, <1>3, <1>4, <1>5, OffDuty

LEMMA RemoveEntryKeeps ==
  ASSUME StoreInv, Store!RemoveEntry(1)
  PROVE  StoreInv'
<1>1. proc[1].pc = "remove" /\ UNCHANGED <<rootMarker, save, blame>>
  BY DEF Store!RemoveEntry
<1>2. IsServer(proc[1]) /\ DOMAIN proc = {1}
  BY <1>1, ServerIsTyped
<1>3. /\ IsServer(proc'[1]) /\ DOMAIN proc' = {1} /\ proc'[1].status = proc[1].status
      /\ proc'[1].pc \in {"remove", "clean"}
  <2>1. CASE Store!Goes(1, "clean")
    BY <1>2, <2>1, ServerGoes
  <2>2. CASE ~Store!Goes(1, "clean")
    <3>1. PICK entry : proc' = [proc EXCEPT ![1].tree = @ \ {entry}]
      BY <2>2 DEF Store!RemoveEntry
    <3> QED
      BY <1>1, <1>2, <3>1 DEF IsServer
  <2> QED
    BY <2>1, <2>2
<1>4. DirectoriesTyped'
  <2>1. DirectoriesTyped
    BY DEF StoreInv, StoreTyped
  <2>2. PICK d, entry : \/ dirs' = dirs
                        \/ dirs' = [q \in DOMAIN dirs \ {d} |-> dirs[q]]
                        \/ d \in DOMAIN dirs /\ dirs' = [dirs EXCEPT ![d].files = @ \ {entry}]
    BY DEF Store!RemoveEntry
  <2> QED
    BY <2>1, <2>2 DEF DirectoriesTyped, IsDirectory
<1>5. StoreTyped'
  BY <1>1, <1>3, <1>4 DEF StoreInv, StoreTyped
<1>6. proc[1].status = "none" => \A w \in Savers : save[w].pc = "idle"
  BY <1>1 DEF StoreInv, SavesComeLater
<1> QED
  BY <1>1, <1>3, <1>5, <1>6, OffDuty

LEMMA MakeRunKeeps ==
  ASSUME StoreInv, Store!MakeRun(1)
  PROVE  StoreInv'
<1>1. proc[1].pc = "make" /\ UNCHANGED <<rootMarker, save, blame>>
  BY DEF Store!MakeRun
<1>2. IsServer(proc[1]) /\ DOMAIN proc = {1} /\ proc[1].status = "none"
      /\ \A w \in Savers : save[w].pc = "idle"
  BY <1>1, ServerIsTyped DEF StoreInv, SavesComeLater
<1>3. /\ IsServer(proc'[1]) /\ DOMAIN proc' = {1}
      /\ \/ proc'[1].pc = "make" /\ proc'[1].status = "none"
         \/ proc'[1].pc = "serve" /\ proc'[1].status = "active"
  BY <1>1, <1>2 DEF Store!MakeRun, IsServer
<1>4. DirectoriesTyped'
  <2>1. DirectoriesTyped
    BY DEF StoreInv, StoreTyped
  <2>2. PICK entry :
          \/ dirs' = dirs
          \/ dirs' = [q \in DOMAIN dirs \cup {1} |->
               IF q = 1 THEN [files |-> {}, status |-> "active", aged |-> FALSE, revision |-> 0]
               ELSE dirs[q]]
          \/ 1 \in DOMAIN dirs /\ dirs' = [dirs EXCEPT ![1].files = @ \cup {entry}]
    BY DEF Store!MakeRun
  <2> QED
    BY <2>1, <2>2 DEF DirectoriesTyped, IsDirectory
<1>5. StoreTyped'
  BY <1>1, <1>3, <1>4 DEF StoreInv, StoreTyped
<1> QED
  BY <1>1, <1>2, <1>3, <1>5 DEF StoreInv, SavesComeLater, OneWrites, RevisionsGrow

LEMMA StopKeeps ==
  ASSUME StoreInv, Store!Stop(1)
  PROVE  StoreInv'
<1>1. proc[1].pc = "serve" /\ UNCHANGED <<rootMarker, save, blame>>
  BY DEF Store!Stop
<1>2. IsServer(proc[1]) /\ DOMAIN proc = {1}
  BY <1>1, ServerIsTyped
<1>3. /\ IsServer(proc'[1]) /\ DOMAIN proc' = {1} /\ proc'[1].status = "stopped"
      /\ proc'[1].pc \in {"lock", "stopped"}
  BY <1>2 DEF Store!Stop, IsServer
<1>4. DirectoriesTyped'
  BY DEF Store!Stop, StoreInv, StoreTyped, DirectoriesTyped, IsDirectory
<1>5. StoreTyped'
  BY <1>1, <1>3, <1>4 DEF StoreInv, StoreTyped
<1> QED
  BY <1>1, <1>3, <1>5, OffDuty

(* An exit or a crash loses the saves that are under way.                  *)
LEMMA EndKeeps ==
  ASSUME StoreInv, Store!Exit(1) \/ Store!Crash(1)
  PROVE  StoreInv'
<1>1. /\ Store!Ended(1) /\ UNCHANGED <<rootMarker, dirs>> /\ proc[1].pc # "new"
      /\ blame \subseteq blame'
  BY DEF Store!Exit, Store!Crash, Store!Alive
<1>2. IsServer(proc[1]) /\ DOMAIN proc = {1}
  BY <1>1, ServerIsTyped
<1>3. /\ IsServer(proc'[1]) /\ DOMAIN proc' = {1} /\ proc'[1].pc = "gone"
      /\ proc'[1].status = proc[1].status
  BY <1>1, <1>2 DEF Store!Ended, IsServer
<1>4. DOMAIN save' = Savers /\ \A w \in Savers :
        \/ save'[w] = save[w]
        \/ save[w].pc \in {"compare", "mkdir", "rename", "touch"}
           /\ save'[w] = [save[w] EXCEPT !.pc = "lost"]
  BY <1>1 DEF Store!Ended
<1>5. \A w \in Savers : save[w].pc # "idle" => save[w] \in Saving
  BY SaverIsTyped
<1>6. \A w \in Savers :
        /\ save'[w] = [pc |-> "idle"] \/ save'[w] \in Saving
        /\ save[w].pc = "idle" => save'[w].pc = "idle"
        /\ save'[w] = save[w] \/ save'[w].pc = "lost"
  BY <1>4, <1>5 DEF Saving, StoreInv, StoreTyped
<1>7. StoreTyped'
  BY <1>1, <1>3, <1>4, <1>6 DEF StoreInv, StoreTyped, DirectoriesTyped
<1>8. SavesComeLater'
  BY <1>1, <1>3, <1>6 DEF StoreInv, SavesComeLater
<1>9. OneWrites'
  BY <1>6 DEF StoreInv, OneWrites
<1>10. RevisionsGrow'
  BY <1>1, <1>3, <1>6 DEF StoreInv, RevisionsGrow
<1> QED
  BY <1>7, <1>8, <1>9, <1>10 DEF StoreInv

LEMMA AgeKeeps ==
  ASSUME StoreInv, Store!Age(1)
  PROVE  StoreInv'
<1>1. UNCHANGED <<rootMarker, proc, save, blame>>
  BY DEF Store!Age
<1>2. 1 \in DOMAIN dirs /\ dirs' = [dirs EXCEPT ![1].aged = TRUE] /\ IsDirectory(dirs[1])
  BY DEF Store!Age, StoreInv, StoreTyped, DirectoriesTyped
<1>3. /\ DOMAIN dirs' = DOMAIN dirs /\ IsDirectory(dirs'[1])
      /\ dirs'[1].files = dirs[1].files /\ dirs'[1].revision = dirs[1].revision
  BY <1>2 DEF IsDirectory
<1>4. DirectoriesTyped'
  BY <1>3 DEF StoreInv, StoreTyped, DirectoriesTyped
<1>5. Store!Revision(1)' = Store!Revision(1)
  BY <1>3 DEF Store!Revision
<1> QED
  BY <1>1, <1>4, <1>5 DEF StoreInv, StoreTyped, SavesComeLater, OneWrites, RevisionsGrow

-----------------------------------------------------------------------------
LEMMA ReadCaseKeeps ==
  ASSUME StoreInv, NEW w \in Savers, Store!ReadCase(w, 1)
  PROVE  StoreInv'
<1>1. UNCHANGED <<rootMarker, proc, dirs, blame>> /\ proc[1].pc = "serve" /\ save[w].pc = "idle"
  BY DEF Store!ReadCase
<1>2. Store!Revision(1) \in Nat
  BY DEF StoreInv, StoreTyped, DirectoriesTyped, IsDirectory, Store!Revision
<1>3. /\ DOMAIN save' = Savers /\ \A v \in Savers : v # w => save'[v] = save[v]
      /\ save'[w] \in Saving /\ save'[w].pc = "compare"
  BY <1>2 DEF Store!ReadCase, StoreInv, StoreTyped, Saving
<1>4. StoreTyped'
  BY <1>1, <1>3 DEF StoreInv, StoreTyped, DirectoriesTyped
<1>5. SavesComeLater' /\ OneWrites'
  BY <1>1, <1>3 DEF StoreInv, SavesComeLater, OneWrites
<1>6. RevisionsGrow'
  BY <1>1, <1>3 DEF StoreInv, RevisionsGrow, Store!Revision
<1> QED
  BY <1>4, <1>5, <1>6 DEF StoreInv

(* A saver that goes on: its place and its base stay.                      *)
LEMMA SaverGoes ==
  ASSUME StoreInv, NEW w \in Savers, save[w].pc # "idle",
         NEW pc \in {"mkdir", "rename", "touch", "saved", "conflict", "failed"}, Store!SaveGoes(w, pc)
  PROVE  /\ DOMAIN save' = Savers /\ \A v \in Savers : v # w => save'[v] = save[v]
         /\ save'[w] \in Saving /\ save'[w].pc = pc /\ save'[w].base = save[w].base
<1>1. save[w] \in Saving /\ DOMAIN save = Savers
  BY SaverIsTyped
<1> QED
  BY <1>1 DEF Store!SaveGoes, Saving

LEMMA CompareKeeps ==
  ASSUME StoreInv, NEW w \in Savers, Store!Compare(w)
  PROVE  StoreInv'
<1>1. UNCHANGED <<rootMarker, proc, dirs, blame>> /\ save[w].pc = "compare" /\ save[w].by = 1
  BY SaverIsTyped DEF Store!Compare
<1>2. PICK pc \in {"mkdir", "conflict"} :
        Store!SaveGoes(w, pc) /\ (pc = "mkdir" => Store!Revision(1) = save[w].base)
  BY <1>1 DEF Store!Compare
<1>3. /\ DOMAIN save' = Savers /\ \A v \in Savers : v # w => save'[v] = save[v]
      /\ save'[w] \in Saving /\ save'[w].pc = pc /\ save'[w].base = save[w].base
  BY <1>1, <1>2, SaverGoes
<1>4. \A v \in Savers : save[v].pc \notin {"mkdir", "rename", "touch"}
  BY <1>1, SaverIsTyped DEF Store!Compare, Store!KeyLocked
<1>5. StoreTyped'
  BY <1>1, <1>3 DEF StoreInv, StoreTyped, DirectoriesTyped
<1>6. SavesComeLater'
  BY <1>1, <1>3 DEF StoreInv, SavesComeLater
<1>7. OneWrites'
  BY <1>3, <1>4 DEF OneWrites
<1>8. RevisionsGrow'
  <2>1. Store!Revision(1)' = Store!Revision(1)
    BY <1>1 DEF Store!Revision
  <2> QED
    BY <1>1, <1>2, <1>3, <2>1 DEF StoreInv, RevisionsGrow
<1> QED
  BY <1>5, <1>6, <1>7, <1>8 DEF StoreInv

(* A step of the saver that writes.                                        *)
LEMMA WriterKeeps ==
  ASSUME StoreInv, NEW w \in Savers, save[w].pc \in {"mkdir", "rename", "touch"},
         NEW pc \in {"rename", "touch", "saved", "failed"}, Store!SaveGoes(w, pc), Store!Late(1),
         UNCHANGED <<rootMarker, proc>>, DirectoriesTyped',
         save[w].pc = "mkdir" => pc = "rename" /\ Store!Revision(1)' = Store!Revision(1),
         save[w].pc = "rename" =>
           \/ pc = "touch" /\ Store!Revision(1)' = save[w].base + 1
           \/ pc = "failed" /\ Store!Revision(1)' = Store!Revision(1),
         save[w].pc = "touch" => pc \in {"saved", "failed"} /\ Store!Revision(1)' = Store!Revision(1)
  PROVE  StoreInv'
<1>1. /\ DOMAIN save' = Savers /\ \A v \in Savers : v # w => save'[v] = save[v]
      /\ save'[w] \in Saving /\ save'[w].pc = pc /\ save'[w].base = save[w].base
  BY SaverGoes
<1>2. \A v \in Savers : v # w => save[v].pc \notin {"mkdir", "rename", "touch"}
  BY DEF StoreInv, OneWrites
<1>3. StoreTyped'
  BY <1>1 DEF StoreInv, StoreTyped
<1>4. SavesComeLater'
  BY <1>1 DEF StoreInv, SavesComeLater
<1>5. OneWrites'
  BY <1>1, <1>2 DEF OneWrites
<1>6. RevisionsGrow'
  <2>1. CASE "late" \in blame'
    BY <2>1 DEF RevisionsGrow
  <2>2. CASE "late" \notin blame'
    <3>1. proc[1].pc = "serve" /\ blame' = blame
      BY <2>2 DEF Store!Late
    <3>2. \A v \in Savers : save[v].pc # "idle" => save[v].base \in Nat
      BY SaverIsTyped DEF Saving
    <3>3. Store!Revision(1) \in Nat /\ Store!Revision(1)' \in Nat
      BY DEF StoreInv, StoreTyped, DirectoriesTyped, IsDirectory, Store!Revision
    <3>4. /\ save[w].pc \in {"mkdir", "rename"} => save[w].base = Store!Revision(1)
          /\ save[w].pc = "touch" => save[w].base < Store!Revision(1)
          /\ \A v \in Savers : save[v].pc \in {"touch", "saved"} => save[v].base < Store!Revision(1)
      BY <2>2, <3>1 DEF StoreInv, RevisionsGrow
    <3>5. Store!Revision(1)' >= Store!Revision(1)
      BY <3>2, <3>3, <3>4
    <3>6. ASSUME NEW v \in Savers
          PROVE  /\ save'[v].pc \in {"mkdir", "rename"} => save'[v].base = Store!Revision(1)'
                 /\ save'[v].pc \in {"touch", "saved"} => save'[v].base < Store!Revision(1)'
      <4>1. CASE v = w
        BY <4>1, <1>1, <3>2, <3>3, <3>4
      <4>2. CASE v # w
        BY <4>2, <1>1, <1>2, <3>2, <3>3, <3>4, <3>5
      <4> QED
        BY <4>1, <4>2
    <3>7. ASSUME NEW u \in Savers, NEW v \in Savers,
                 save'[u].pc \in {"touch", "saved"}, save'[v].pc \in {"touch", "saved"},
                 save'[u].base = save'[v].base, u # v
          PROVE  FALSE
      <4>1. CASE save[w].pc = "touch"
        BY <4>1, <3>7, <1>1, <3>1, <2>2 DEF StoreInv, RevisionsGrow
      <4>2. CASE save[w].pc \in {"mkdir", "rename"}
        BY <4>2, <3>7, <1>1, <3>1, <2>2, <3>2, <3>3, <3>4 DEF StoreInv, RevisionsGrow
      <4> QED
        BY <4>1, <4>2
    <3> QED
      BY <3>6, <3>7 DEF RevisionsGrow
  <2> QED
    BY <2>1, <2>2
<1> QED
  BY <1>3, <1>4, <1>5, <1>6 DEF StoreInv

(* A manifest that is written again says that the run is used.             *)
LEMMA Rewritten ==
  ASSUME NEW x, NEW y, IsDirectory(x), y = [x EXCEPT !.aged = FALSE]
  PROVE  IsDirectory(y) /\ y.files = x.files /\ y.revision = x.revision
<1>1. y = [files |-> x.files, status |-> x.status, aged |-> FALSE, revision |-> x.revision]
  BY DEF IsDirectory
<1> QED
  BY <1>1 DEF IsDirectory

LEMMA WriteKeeps ==
  ASSUME StoreInv, NEW w \in Savers,
         Store!MakeStateDirectory(w) \/ Store!RenameIntoPlace(w) \/ Store!Touch(w)
  PROVE  StoreInv'
<1>1. save[w].pc # "idle" /\ UNCHANGED <<rootMarker, proc>>
  BY DEF Store!MakeStateDirectory, Store!RenameIntoPlace, Store!Touch
<1>2. save[w] \in Saving /\ save[w].by = 1 /\ save[w].base \in Nat
  BY <1>1, SaverIsTyped DEF Saving
<1>3. DirectoriesTyped
  BY DEF StoreInv, StoreTyped
<1>4. CASE Store!MakeStateDirectory(w)
  <2>1. save[w].pc = "mkdir" /\ Store!SaveGoes(w, "rename") /\ Store!Late(1)
    BY <1>2, <1>4 DEF Store!MakeStateDirectory
  <2>2. DOMAIN dirs' = {1}
    BY <1>2, <1>3, <1>4 DEF Store!MakeStateDirectory, DirectoriesTyped
  <2>3. CASE 1 \in DOMAIN dirs
    <3>1. dirs'[1] = [dirs[1] EXCEPT !.files = @ \cup {"state"}] /\ IsDirectory(dirs[1])
      BY <1>2, <1>3, <1>4, <2>3 DEF Store!MakeStateDirectory, DirectoriesTyped
    <3>2. /\ IsDirectory(dirs'[1]) /\ dirs'[1].files = dirs[1].files \cup {"state"}
          /\ dirs'[1].revision = dirs[1].revision
      BY <3>1 DEF IsDirectory
    <3>3. DirectoriesTyped'
      BY <2>2, <3>2 DEF DirectoriesTyped
    <3>4. Store!Revision(1)' = Store!Revision(1)
      BY <2>2, <2>3, <3>2 DEF Store!Revision
    <3> QED
      BY <1>1, <2>1, <3>3, <3>4, WriterKeeps
  <2>4. CASE 1 \notin DOMAIN dirs
    <3>1. dirs'[1] = [files |-> {"state"}, status |-> proc[1].status, aged |-> FALSE, revision |-> 0]
      BY <1>2, <1>4, <2>4 DEF Store!MakeStateDirectory
    <3>2. IsDirectory(dirs'[1]) /\ "doc" \notin dirs'[1].files
      BY <3>1 DEF IsDirectory
    <3>3. DirectoriesTyped'
      BY <2>2, <3>2 DEF DirectoriesTyped
    <3>4. Store!Revision(1)' = Store!Revision(1)
      BY <2>4, <3>2 DEF Store!Revision
    <3> QED
      BY <1>1, <2>1, <3>3, <3>4, WriterKeeps
  <2> QED
    BY <2>3, <2>4
<1>5. CASE Store!RenameIntoPlace(w)
  <2>1. CASE 1 \in DOMAIN dirs /\ "state" \in dirs[1].files
    <3>1. /\ dirs' = [dirs EXCEPT ![1].files = @ \cup {"doc"}, ![1].revision = save[w].base + 1]
          /\ Store!SaveGoes(w, "touch") /\ save[w].pc = "rename" /\ Store!Late(1)
      BY <1>2, <1>5, <2>1 DEF Store!RenameIntoPlace
    <3> DEFINE next == save[w].base + 1
               filed == [dirs[1] EXCEPT !.files = @ \cup {"doc"}]
               renamed == [filed EXCEPT !.revision = next]
    <3>2. next \in Nat
      BY <1>2
    <3>3. IsDirectory(filed) /\ "doc" \in filed.files
      BY <1>3, <2>1 DEF DirectoriesTyped, IsDirectory
    <3>4. dirs' = [dirs EXCEPT ![1] = renamed]
      BY <2>1, <3>1
    <3> HIDE DEF next, filed
    <3>5. IsDirectory(renamed) /\ "doc" \in renamed.files /\ renamed.revision = next
      BY <3>2, <3>3 DEF IsDirectory
    <3> HIDE DEF renamed
    <3>6. DOMAIN dirs' = DOMAIN dirs /\ dirs'[1] = renamed
      BY <2>1, <3>4
    <3>7. DirectoriesTyped'
      BY <1>3, <3>5, <3>6 DEF DirectoriesTyped
    <3>8. Store!Revision(1)' = next
      BY <2>1, <3>5, <3>6 DEF Store!Revision
    <3> QED
      BY <1>1, <3>1, <3>7, <3>8, WriterKeeps DEF next
  <2>2. CASE ~(1 \in DOMAIN dirs /\ "state" \in dirs[1].files)
    <3>1. UNCHANGED dirs /\ Store!SaveGoes(w, "failed") /\ save[w].pc = "rename" /\ Store!Late(1)
      BY <1>2, <1>5, <2>2 DEF Store!RenameIntoPlace
    <3>2. DirectoriesTyped' /\ Store!Revision(1)' = Store!Revision(1)
      BY <1>3, <3>1 DEF DirectoriesTyped, Store!Revision
    <3> QED
      BY <1>1, <3>1, <3>2, WriterKeeps
  <2> QED
    BY <2>1, <2>2
<1>6. CASE Store!Touch(w)
  <2>1. PICK pc \in {"saved", "failed"} : Store!SaveGoes(w, pc)
    BY <1>6 DEF Store!Touch
  <2>2. save[w].pc = "touch" /\ Store!Late(1)
    BY <1>2, <1>6 DEF Store!Touch
  <2>3. CASE 1 \notin DOMAIN dirs
    <3>1. UNCHANGED dirs
      BY <1>2, <1>6, <2>3 DEF Store!Touch
    <3>2. DirectoriesTyped' /\ Store!Revision(1)' = Store!Revision(1)
      BY <1>3, <3>1 DEF DirectoriesTyped, Store!Revision
    <3> QED
      BY <1>1, <2>1, <2>2, <3>2, WriterKeeps
  <2>4. CASE 1 \in DOMAIN dirs
    <3> DEFINE filed == [dirs[1] EXCEPT !.files = @ \cup {"manifest"}]
               kept == [filed EXCEPT !.status = proc[1].status]
               fresh == [kept EXCEPT !.aged = FALSE]
    <3>1. dirs' = [dirs EXCEPT ![1] = fresh]
      BY <1>2, <1>6, <2>4 DEF Store!Touch
    <3> HIDE DEF filed, kept, fresh
    <3>2. /\ IsDirectory(filed) /\ filed.files = dirs[1].files \cup {"manifest"}
          /\ filed.revision = dirs[1].revision
      <4>1. IsDirectory(dirs[1])
        BY <1>3, <2>4 DEF DirectoriesTyped
      <4> QED
        BY <4>1 DEF IsDirectory, filed
    <3>3. /\ IsDirectory(fresh) /\ fresh.files = filed.files /\ fresh.revision = filed.revision
      <4>1. IsDirectory(kept) /\ kept.files = filed.files /\ kept.revision = filed.revision
        BY <3>2 DEF IsDirectory, kept
      <4>2. fresh = [kept EXCEPT !.aged = FALSE]
        BY DEF fresh
      <4> QED
        BY <4>1, <4>2, Rewritten
    <3>4. DOMAIN dirs' = DOMAIN dirs /\ dirs'[1] = fresh
      BY <2>4, <3>1
    <3>5. DirectoriesTyped'
      BY <1>3, <3>3, <3>4 DEF DirectoriesTyped
    <3>6. Store!Revision(1)' = Store!Revision(1)
      BY <2>4, <3>2, <3>3, <3>4 DEF Store!Revision
    <3> QED
      BY <1>1, <2>1, <2>2, <3>5, <3>6, WriterKeeps
  <2> QED
    BY <2>3, <2>4
<1> QED
  BY <1>4, <1>5, <1>6

LEMMA StoreKeeps ==
  ASSUME StoreInv, [Store!RuntimeNext]_runtimeVars
  PROVE  StoreInv'
<1>1. CASE UNCHANGED runtimeVars
  BY <1>1 DEF runtimeVars, StoreInv, StoreTyped, DirectoriesTyped, SavesComeLater, OneWrites,
              RevisionsGrow, Store!Revision
<1>2. CASE Store!RuntimeNext
  <2>1. ~Store!LockBreaks(1) /\ ~Store!RemovalBreaks(1) /\ ~Store!StartBreaks(1)
    BY DEF Store!LockBreaks, Store!RemovalBreaks, Store!StartBreaks, Store!Errs
  <2>2. \/ Store!WriteRootMarker(1) \/ Store!TakeLock(1) \/ Store!CollectTree(1)
        \/ Store!Unlock(1) \/ Store!Examine(1, 1)
        => proc[1].pc # "new"
    BY DEF Store!WriteRootMarker, Store!TakeLock, Store!CollectTree, Store!Unlock, Store!Examine
  <2> QED
    BY <1>2, <2>1, <2>2, StartKeeps, CleanupKeeps, RemoveEntryKeeps, MakeRunKeeps, StopKeeps,
       EndKeeps, AgeKeeps, ReadCaseKeeps, CompareKeeps, WriteKeeps DEF Store!RuntimeNext
<1> QED
  BY <1>1, <1>2

LEMMA RevisionsAreSavedOnce ==
  ASSUME StoreInv
  PROVE  Store!OneSavePerRevision
  BY DEF StoreInv, RevisionsGrow, Store!OneSavePerRevision

-----------------------------------------------------------------------------
(* The runs of any processes P with any savers S.  The run of a process    *)
(* that starts is not there before it makes it, one that serves has it,    *)
(* and a cleanup looks only at runs whose process is gone or has stopped.  *)
Entries == {"marker", "manifest", "state", "doc"}
Whole(p) ==
  /\ p \in DOMAIN dirs /\ {"marker", "manifest", "state"} \subseteq dirs[p].files
  /\ dirs[p].status = "active"

Over(p) == proc[p].pc # "new" /\ (proc[p].pc = "gone" \/ proc[p].status = "stopped")

InPhase(p) ==
  /\ proc[p].pc = "new" => p \notin DOMAIN dirs
  /\ proc[p].pc = "serve" => Whole(p)
  /\ proc[p].pc # "new" =>
       /\ proc[p].status = "none" =>
            /\ proc[p].pc \in {"root", "lock", "clean", "collect", "remove", "make", "gone"}
            /\ proc[p].pc \notin {"make", "gone"} => p \notin DOMAIN dirs
            /\ proc[p].pc = "make" /\ p \in DOMAIN dirs => dirs[p].status = "active"
       /\ proc[p].status = "active" => proc[p].pc \in {"serve", "gone"}
       /\ proc[p].status = "stopped" =>
            /\ proc[p].pc \in {"lock", "clean", "collect", "remove", "stopped", "gone"}
            /\ proc[p].pc # "gone" /\ p \in DOMAIN dirs => dirs[p].status = "stopped"
       /\ proc[p].pc \in {"collect", "remove"} => proc[p].target \in DOMAIN proc /\ Over(proc[p].target)

IsSave(x, P) ==
  /\ x = [pc |-> x.pc, by |-> x.by, base |-> x.base]
  /\ x.pc \in {"compare", "mkdir", "rename", "touch", "saved", "conflict", "failed", "lost"}
  /\ x.by \in P /\ x.base \in Nat
  /\ proc[x.by].pc # "new" /\ proc[x.by].status \in {"active", "stopped"}
  /\ x.pc \in {"compare", "mkdir", "rename", "touch"} => proc[x.by].pc # "gone"

SaveFits(w, P) == save[w] = [pc |-> "idle"] \/ IsSave(save[w], P)

RunsInv(P, S) ==
  /\ DOMAIN proc = P
  /\ \A p \in P : proc[p] = [pc |-> "new"] \/ IsServer(proc[p])
  /\ DOMAIN dirs \subseteq P
  /\ \A d \in DOMAIN dirs : IsDirectory(dirs[d]) /\ dirs[d].files \subseteq Entries
  /\ DOMAIN save = S
  /\ \A w \in S : SaveFits(w, P)
  /\ \A p \in P : InPhase(p)

(* The lock file is there while somebody cleans up, and nobody else does.  *)
LockInv ==
  /\ Disk!LockIsTheCleanup
  /\ lockFile \in BOOLEAN /\ rootMarker \in {"none", "torn", "whole"}

(* The one save of the disk is kept while its process serves.              *)
SavedIsKept ==
  save["w"].pc \in {"touch", "saved"} /\ proc[save["w"].by].pc = "serve" =>
    LET d == save["w"].by IN
    d \in DOMAIN dirs /\ "doc" \in dirs[d].files /\ dirs[d].revision > save["w"].base

(* Until a mishap or a late save, a run that is not being made is owned or *)
(* being removed, and a removal knows what is left of the run.             *)
RunsAreOwned ==
  blame = {} =>
    /\ \A d \in DOMAIN dirs : proc[d].pc # "make" =>
         \/ Disk!Owned(d)
         \/ \E p \in Processes : proc[p].pc = "remove" /\ proc[p].target = d
    /\ \A p \in Processes : proc[p].pc = "remove" =>
         /\ proc[p].target \in DOMAIN dirs
         /\ proc[p].tree = dirs[proc[p].target].files \cup {"directory"}

DiskInv == RunsInv(Processes, {"w"}) /\ LockInv /\ SavedIsKept /\ RunsAreOwned

LEMMA RunsStart ==
  ASSUME NEW P, NEW S, proc = [p \in P |-> [pc |-> "new"]], dirs = << >>,
         save = [w \in S |-> [pc |-> "idle"]]
  PROVE  RunsInv(P, S)
<1>1. DOMAIN dirs = {}
  OBVIOUS
<1>2. \A p \in P : proc[p].pc = "new"
  OBVIOUS
<1> QED
  BY <1>1, <1>2 DEF RunsInv, InPhase, SaveFits

(* A process that does not serve moves on, and a run that is over may lose *)
(* some of its entries.                                                    *)
Shrunk ==
  /\ DOMAIN dirs' \subseteq DOMAIN dirs
  /\ \A d \in DOMAIN dirs' :
       IsDirectory(dirs'[d]) /\ dirs'[d].files \subseteq Entries /\ dirs'[d].status = dirs[d].status
  /\ \A q \in DOMAIN dirs : ~Over(q) => q \in DOMAIN dirs' /\ dirs'[q] = dirs[q]

LEMMA ProcMoves ==
  ASSUME NEW P, NEW S, RunsInv(P, S), NEW p \in P, NEW new, IsServer(new),
         proc' = [proc EXCEPT ![p] = new], UNCHANGED save, Shrunk,
         \/ proc[p].pc = "new" /\ new.status = "none" /\ new.pc \in {"root", "lock", "gone"}
         \/ /\ proc[p].pc \in {"root", "lock", "clean", "collect", "remove"}
            /\ new.status = proc[p].status
            /\ new.status = "none" => new.pc \in {"lock", "clean", "collect", "remove", "make", "gone"}
            /\ new.status # "none" => new.pc \in {"clean", "collect", "remove", "stopped"}
            /\ new.pc \in {"collect", "remove"} => new.target \in P /\ Over(new.target)
  PROVE  RunsInv(P, S)'
<1>1. /\ DOMAIN proc' = P /\ proc'[p] = new
      /\ \A q \in P : q # p => proc'[q] = proc[q]
  BY DEF RunsInv
<1>2. InPhase(p) /\ (proc[p].pc # "new" => IsServer(proc[p]))
  BY DEF RunsInv
<1>3. \A q \in P : Over(q) => Over(q)'
  BY <1>1, <1>2 DEF Over, InPhase, IsServer
<1>4. ~Over(p) \/ new.status = "stopped"
  BY <1>2 DEF Over, IsServer
<1>5. InPhase(p)'
  <2>1. CASE new.status = "none"
    <3>1. p \notin DOMAIN dirs'
      BY <1>2, <2>1 DEF InPhase, Shrunk
    <3>2. new.pc \in {"root", "lock", "clean", "collect", "remove", "make", "gone"}
      BY <2>1
    <3>3. new.pc \in {"collect", "remove"} => new.target \in P /\ Over(new.target)'
      BY <1>3
    <3> QED
      BY <1>1, <2>1, <3>1, <3>2, <3>3 DEF InPhase
  <2>2. CASE new.status # "none"
    <3>1. /\ proc[p].status = "stopped" /\ new.status = "stopped"
          /\ proc[p].pc \in {"root", "lock", "clean", "collect", "remove"}
      BY <1>2, <2>2 DEF InPhase, IsServer
    <3>2. p \in DOMAIN dirs' => dirs'[p].status = "stopped"
      BY <1>2, <3>1 DEF InPhase, Shrunk
    <3>3. new.pc \in {"collect", "remove"} => new.target \in P /\ Over(new.target)'
      BY <1>3, <2>2
    <3> QED
      BY <1>1, <2>2, <3>1, <3>2, <3>3 DEF InPhase
  <2> QED
    BY <2>1, <2>2
<1>6. ASSUME NEW q \in P, q # p
      PROVE  InPhase(q)'
  <2>1. InPhase(q) /\ proc'[q] = proc[q]
    BY <1>1, <1>6 DEF RunsInv
  <2>2. proc[q].pc \in {"collect", "remove"} /\ proc[q].pc # "new" => proc[q].target \in P /\ Over(proc[q].target)'
    BY <1>3, <2>1 DEF InPhase, RunsInv
  <2>3. Whole(q) /\ proc[q].pc = "serve" => Whole(q)'
    BY <2>1, <1>6 DEF Whole, Shrunk, Over, InPhase, RunsInv, IsServer
  <2>4. q \in DOMAIN dirs' => q \in DOMAIN dirs /\ dirs'[q].status = dirs[q].status
    BY DEF Shrunk
  <2> QED
    BY <1>1, <2>1, <2>2, <2>3, <2>4 DEF InPhase
<1>7. ASSUME NEW w \in S
      PROVE  SaveFits(w, P)'
  BY <1>1, <1>2 DEF RunsInv, SaveFits, IsSave, InPhase, IsServer
<1> QED
  BY <1>1, <1>5, <1>6, <1>7 DEF RunsInv, Shrunk

LEMMA NothingShrinks ==
  ASSUME NEW P, NEW S, RunsInv(P, S), UNCHANGED dirs
  PROVE  Shrunk
  BY DEF RunsInv, Shrunk

(* The saves go on, and one directory changes.                             *)
LEMMA RunChanges ==
  ASSUME NEW P, NEW S, RunsInv(P, S), NEW p \in P, UNCHANGED proc,
         DOMAIN save' = S,
         \A w \in S : save'[w] = [pc |-> "idle"] \/ IsSave(save'[w], P),
         DOMAIN dirs' = DOMAIN dirs \cup {p}, \A q \in DOMAIN dirs : q # p => dirs'[q] = dirs[q],
         IsDirectory(dirs'[p]), dirs'[p].files \subseteq Entries,
         proc[p].pc # "new", proc[p].status = "none" => proc[p].pc \in {"make", "gone"},
         proc[p].pc = "make" => dirs'[p].status = "active",
         proc[p].pc = "serve" =>
           /\ {"marker", "manifest", "state"} \subseteq dirs'[p].files
           /\ dirs'[p].status = "active",
         proc[p].pc # "gone" /\ proc[p].status = "stopped" => dirs'[p].status = "stopped"
  PROVE  RunsInv(P, S)'
<1>1. \A q \in P : Over(q)' <=> Over(q)
  BY DEF Over
<1>2. InPhase(p)'
  BY <1>1 DEF InPhase, RunsInv, Whole
<1>3. ASSUME NEW q \in P, q # p
      PROVE  InPhase(q)'
  BY <1>1, <1>3 DEF InPhase, RunsInv, Whole
<1>4. \A w \in S : SaveFits(w, P)'
  BY DEF SaveFits, IsSave
<1> QED
  BY <1>2, <1>3, <1>4 DEF RunsInv

LEMMA OnlySaves ==
  ASSUME NEW P, NEW S, RunsInv(P, S), UNCHANGED <<proc, dirs>>, DOMAIN save' = S,
         \A w \in S : save'[w] = [pc |-> "idle"] \/ IsSave(save'[w], P)
  PROVE  RunsInv(P, S)'
<1>1. \A q \in P : Over(q)' <=> Over(q)
  BY DEF Over
<1>2. ASSUME NEW q \in P
      PROVE  InPhase(q)'
  BY <1>1 DEF InPhase, RunsInv, Whole
<1>3. \A w \in S : SaveFits(w, P)'
  BY DEF SaveFits, IsSave
<1> QED
  BY <1>2, <1>3 DEF RunsInv

LEMMA RunsKeepAtStart ==
  ASSUME NEW P, NEW S, RunsInv(P, S), NEW p \in P, proc[p].pc = "new",
         rootMarker \in {"none", "torn", "whole"}, UNCHANGED <<dirs, save>>, NEW kind, NEW pid,
         proc' = [proc EXCEPT ![p] =
           [pc |-> [none |-> "root", torn |-> "gone", whole |-> "lock"][rootMarker],
            kind |-> kind, pid |-> pid, status |-> "none",
            todo |-> {}, target |-> p, tree |-> {}]]
  PROVE  RunsInv(P, S)'
<1> DEFINE pc == [none |-> "root", torn |-> "gone", whole |-> "lock"][rootMarker]
           new == [pc |-> pc, kind |-> kind, pid |-> pid, status |-> "none",
                   todo |-> {}, target |-> p, tree |-> {}]
<1>1. pc \in {"root", "gone", "lock"}
  OBVIOUS
<1>2. proc' = [proc EXCEPT ![p] = new]
  OBVIOUS
<1> HIDE DEF pc
<1>3. IsServer(new) /\ new.status = "none" /\ new.pc = pc
  BY <1>1 DEF IsServer
<1> HIDE DEF new
<1> QED
  BY <1>1, <1>2, <1>3, NothingShrinks, ProcMoves

(* The way out of a state of a start or a cleanup.                         *)
LEMMA RunsKeepOnGoing ==
  ASSUME NEW P, NEW S, RunsInv(P, S), NEW p \in P, NEW pc,
         proc[p].pc \in {"root", "lock", "clean", "collect", "remove"},
         pc \in {"lock", "clean", "make", "gone", "stopped"},
         proc[p].status = "none" => pc # "stopped",
         proc[p].status # "none" => pc \in {"clean", "stopped"},
         Disk!Goes(p, pc), Shrunk, UNCHANGED save
  PROVE  RunsInv(P, S)'
<1>1. IsServer(proc[p])
  BY DEF RunsInv
<1>2. PICK new : /\ new = [proc[p] EXCEPT !.pc = pc, !.target = p, !.tree = {}]
                 /\ proc' = [proc EXCEPT ![p] = new]
  BY DEF Disk!Goes
<1>3. IsServer(new) /\ new.pc = pc /\ new.status = proc[p].status
  BY <1>1, <1>2 DEF IsServer
<1> QED
  BY <1>2, <1>3, ProcMoves

LEMMA RunsKeepOnTakeLock ==
  ASSUME NEW P, NEW S, RunsInv(P, S), NEW p \in P, Disk!TakeLock(p)
  PROVE  RunsInv(P, S)'
<1>1. Shrunk /\ UNCHANGED save /\ proc[p].pc = "lock" /\ IsServer(proc[p])
  BY NothingShrinks DEF Disk!TakeLock, RunsInv
<1>2. CASE lockFile
  BY <1>1, <1>2, RunsKeepOnGoing DEF Disk!TakeLock, Disk!NoCleanup, Disk!Starting, IsServer
<1>3. CASE ~lockFile
  <2>1. PICK new : /\ new = [proc[p] EXCEPT !.pc = "clean", !.todo = DOMAIN dirs]
                   /\ proc' = [proc EXCEPT ![p] = new]
    BY <1>3 DEF Disk!TakeLock
  <2>2. IsServer(new) /\ new.pc = "clean" /\ new.status = proc[p].status
    BY <1>1, <2>1 DEF IsServer
  <2> QED
    BY <1>1, <2>1, <2>2, ProcMoves
<1> QED
  BY <1>2, <1>3

LEMMA RunsKeepOnLockBreaks ==
  ASSUME NEW P, NEW S, RunsInv(P, S), NEW p \in P, Disk!LockBreaks(p)
  PROVE  RunsInv(P, S)'
<1>1. Shrunk /\ UNCHANGED save
  BY NothingShrinks DEF Disk!LockBreaks, Disk!Errs
<1>2. IsServer(proc[p]) /\ proc[p].pc \in {"lock", "clean"}
  BY DEF Disk!LockBreaks, RunsInv
<1>3. \/ proc[p].pc = "lock" /\ Disk!NoCleanup(p)
      \/ proc[p].pc = "clean" /\ Disk!Goes(p, IF Disk!Starting(p) THEN "make" ELSE "stopped")
  BY DEF Disk!LockBreaks
<1> QED
  BY <1>1, <1>2, <1>3, RunsKeepOnGoing DEF Disk!NoCleanup, Disk!Starting, IsServer

LEMMA RunsKeepOnUnlock ==
  ASSUME NEW P, NEW S, RunsInv(P, S), NEW p \in P,
         Disk!Unlock(p) \/ Disk!WriteRootMarker(p) \/ Disk!RemovalBreaks(p)
  PROVE  RunsInv(P, S)'
<1>1. Shrunk /\ UNCHANGED save
  BY NothingShrinks DEF Disk!Unlock, Disk!WriteRootMarker, Disk!RemovalBreaks, Disk!Errs
<1>2. IsServer(proc[p]) /\ proc[p].pc \in {"root", "clean", "remove"} /\ InPhase(p)
  BY DEF Disk!Unlock, Disk!WriteRootMarker, Disk!RemovalBreaks, RunsInv
<1>3. CASE Disk!Unlock(p)
  BY <1>1, <1>2, <1>3, RunsKeepOnGoing DEF Disk!Unlock, Disk!Starting, IsServer
<1>4. CASE Disk!WriteRootMarker(p)
  BY <1>1, <1>2, <1>4, RunsKeepOnGoing DEF Disk!WriteRootMarker, IsServer, InPhase
<1>5. CASE Disk!RemovalBreaks(p)
  BY <1>1, <1>2, <1>5, RunsKeepOnGoing DEF Disk!RemovalBreaks, IsServer
<1> QED
  BY <1>3, <1>4, <1>5

(* A run that a cleanup may remove is over.                                *)
LEMMA TargetIsOver ==
  ASSUME NEW P, NEW S, RunsInv(P, S), NEW d \in DOMAIN dirs,
         ~(dirs[d].status = "active" /\ Disk!Alive(d))
  PROVE  d \in P /\ Over(d)
<1>1. d \in P /\ InPhase(d) /\ proc[d].pc # "new" /\ IsServer(proc[d])
  BY DEF RunsInv, InPhase
<1> QED
  BY <1>1 DEF InPhase, Over, IsServer, Whole, Disk!Alive

LEMMA RunsKeepOnExamine ==
  ASSUME NEW P, NEW S, RunsInv(P, S), NEW p \in P, NEW d, proc[p].pc = "clean",
         UNCHANGED <<dirs, save>>,
         \/ /\ d \in P /\ Over(d)
            /\ proc' = [proc EXCEPT ![p] =
                 [proc[p] EXCEPT !.todo = proc[p].todo \ {d}, !.pc = "collect", !.target = d]]
         \/ proc' = [proc EXCEPT ![p] = [proc[p] EXCEPT !.todo = proc[p].todo \ {d}]]
  PROVE  RunsInv(P, S)'
<1>1. Shrunk /\ UNCHANGED save /\ IsServer(proc[p])
  BY NothingShrinks DEF RunsInv
<1>2. PICK new :
        /\ \/ d \in P /\ Over(d) /\ new = [proc[p] EXCEPT !.todo = proc[p].todo \ {d},
                                                      !.pc = "collect", !.target = d]
           \/ new = [proc[p] EXCEPT !.todo = proc[p].todo \ {d}]
        /\ proc' = [proc EXCEPT ![p] = new]
  OBVIOUS
<1>3. CASE d \in P /\ Over(d) /\ new = [proc[p] EXCEPT !.todo = proc[p].todo \ {d},
                                                 !.pc = "collect", !.target = d]
  <2>1. IsServer(new) /\ new.pc = "collect" /\ new.status = proc[p].status /\ new.target = d
    BY <1>1, <1>3 DEF IsServer
  <2> QED
    BY <1>1, <1>2, <1>3, <2>1, ProcMoves
<1>4. CASE new = [proc[p] EXCEPT !.todo = proc[p].todo \ {d}]
  <2>1. IsServer(new) /\ new.pc = "clean" /\ new.status = proc[p].status
    BY <1>1, <1>4 DEF IsServer
  <2> QED
    BY <1>1, <1>2, <2>1, ProcMoves
<1> QED
  BY <1>2, <1>3, <1>4

LEMMA RunsKeepOnCollectTree ==
  ASSUME NEW P, NEW S, RunsInv(P, S), NEW p \in P, Disk!CollectTree(p)
  PROVE  RunsInv(P, S)'
<1>1. /\ Shrunk /\ UNCHANGED save /\ proc[p].pc = "collect" /\ IsServer(proc[p])
      /\ proc[p].target \in P /\ Over(proc[p].target)
  BY NothingShrinks DEF Disk!CollectTree, RunsInv, InPhase
<1>2. CASE proc[p].target \notin DOMAIN dirs
  BY <1>1, <1>2, RunsKeepOnGoing DEF Disk!CollectTree, IsServer
<1>3. CASE proc[p].target \in DOMAIN dirs
  <2>1. PICK new :
          /\ new = [proc[p] EXCEPT !.pc = "remove",
                                   !.tree = dirs[proc[p].target].files \cup {"directory"}]
          /\ proc' = [proc EXCEPT ![p] = new]
    BY <1>3 DEF Disk!CollectTree
  <2>2. IsServer(new) /\ new.pc = "remove" /\ new.status = proc[p].status /\ new.target = proc[p].target
    BY <1>1, <2>1 DEF IsServer
  <2> QED
    BY <1>1, <2>1, <2>2, ProcMoves
<1> QED
  BY <1>2, <1>3

LEMMA RunsKeepOnRemoveEntry ==
  ASSUME NEW P, NEW S, RunsInv(P, S), NEW p \in P, Disk!RemoveEntry(p)
  PROVE  RunsInv(P, S)'
<1>1. /\ UNCHANGED save /\ proc[p].pc = "remove" /\ IsServer(proc[p])
      /\ proc[p].target \in P /\ Over(proc[p].target)
  BY DEF Disk!RemoveEntry, RunsInv, InPhase
<1>2. PICK d, entry :
        /\ d = proc[p].target
        /\ \/ dirs' = dirs
           \/ dirs' = [q \in DOMAIN dirs \ {d} |-> dirs[q]]
           \/ d \in DOMAIN dirs /\ dirs' = [dirs EXCEPT ![d].files = @ \ {entry}]
        /\ proc' = [proc EXCEPT ![p].tree = @ \ {entry}] \/ Disk!Goes(p, "clean")
  BY DEF Disk!RemoveEntry
<1>3. Shrunk
  BY <1>1, <1>2 DEF Shrunk, RunsInv, IsDirectory
<1>4. CASE proc' = [proc EXCEPT ![p].tree = @ \ {entry}]
  <2>1. PICK new : /\ new = [proc[p] EXCEPT !.tree = proc[p].tree \ {entry}]
                   /\ proc' = [proc EXCEPT ![p] = new]
    BY <1>4
  <2>2. IsServer(new) /\ new.pc = "remove" /\ new.status = proc[p].status /\ new.target = proc[p].target
    BY <1>1, <2>1 DEF IsServer
  <2> QED
    BY <1>1, <1>3, <2>1, <2>2, ProcMoves
<1>5. CASE Disk!Goes(p, "clean")
  BY <1>1, <1>3, <1>5, RunsKeepOnGoing
<1> QED
  BY <1>2, <1>4, <1>5

(* A step of one process that may change its own run and the saves.        *)
LEMMA OtherRunsKeep ==
  ASSUME NEW P, NEW S, RunsInv(P, S), NEW p \in P, NEW new, IsServer(new),
         proc' = [proc EXCEPT ![p] = new], Over(p) => new.pc = "gone" \/ new.status = "stopped",
         DOMAIN dirs' \subseteq P,
         \A d \in DOMAIN dirs' : IsDirectory(dirs'[d]) /\ dirs'[d].files \subseteq Entries,
         \A q \in P : q # p => (q \in DOMAIN dirs' <=> q \in DOMAIN dirs),
         \A q \in DOMAIN dirs : q # p => dirs'[q] = dirs[q],
         InPhase(p)', DOMAIN save' = S, \A w \in S : SaveFits(w, P)'
  PROVE  RunsInv(P, S)'
<1>1. /\ DOMAIN proc' = P /\ proc'[p] = new
      /\ \A q \in P : q # p => proc'[q] = proc[q]
  BY DEF RunsInv
<1>2. \A q \in P : Over(q) => Over(q)'
  BY <1>1 DEF Over, IsServer
<1>3. ASSUME NEW q \in P, q # p
      PROVE  InPhase(q)'
  <2>1. InPhase(q) /\ proc'[q] = proc[q]
    BY <1>1, <1>3 DEF RunsInv
  <2>2. proc[q].pc \in {"collect", "remove"} /\ proc[q].pc # "new" => proc[q].target \in P /\ Over(proc[q].target)'
    BY <1>2, <2>1 DEF InPhase, RunsInv
  <2>3. Whole(q) => Whole(q)'
    BY <1>3 DEF Whole
  <2>4. q \in DOMAIN dirs' => q \in DOMAIN dirs /\ dirs'[q].status = dirs[q].status
    BY <1>3
  <2> QED
    BY <1>1, <2>1, <2>2, <2>3, <2>4 DEF InPhase
<1> QED
  BY <1>1, <1>3 DEF RunsInv

LEMMA FirstIsOne ==
  ASSUME NEW E, E \subseteq {"marker", "manifest", "state"}, E # {}
  PROVE  Disk!First(Disk!Control, E) \in E
<1> DEFINE F(i) == Disk!Control[i] \in E /\ \A j \in 1 .. i - 1 : Disk!Control[j] \notin E
<1>1. DOMAIN Disk!Control = {1, 2, 3} /\ Disk!Control[1] = "marker" /\ Disk!Control[2] = "manifest"
      /\ Disk!Control[3] = "state"
  BY DEF Disk!Control
<1>2. \E i \in DOMAIN Disk!Control : F(i)
  <2>1. CASE "marker" \in E
    BY <1>1, <2>1
  <2>2. CASE "marker" \notin E /\ "manifest" \in E
    BY <1>1, <2>2
  <2>3. CASE "marker" \notin E /\ "manifest" \notin E
    <3>1. \A j \in 1 .. 3 - 1 : j = 1 \/ j = 2
      OBVIOUS
    <3>2. 3 \in DOMAIN Disk!Control /\ "state" \in E
      BY <1>1, <2>3
    <3>3. F(3)
      BY <1>1, <2>3, <3>1, <3>2
    <3> QED
      BY <3>2, <3>3
  <2> QED
    BY <2>1, <2>2, <2>3
<1> QED
  BY <1>2 DEF Disk!First

LEMMA RunsKeepOnMakeRun ==
  ASSUME NEW P, NEW S, RunsInv(P, S), NEW p \in P, Disk!MakeRun(p)
  PROVE  RunsInv(P, S)'
<1>1. /\ UNCHANGED save /\ proc[p].pc = "make" /\ IsServer(proc[p]) /\ InPhase(p)
      /\ \A w \in S : save[w] = [pc |-> "idle"] \/ IsSave(save[w], P)
  BY DEF Disk!MakeRun, RunsInv, SaveFits
<1>2. proc[p].status = "none" /\ ~Over(p)
  BY <1>1 DEF InPhase, IsServer, Over
<1>3. CASE p \notin DOMAIN dirs
  <2>1. /\ DOMAIN dirs' = DOMAIN dirs \cup {p} /\ \A q \in DOMAIN dirs : q # p => dirs'[q] = dirs[q]
        /\ dirs'[p] = [files |-> {}, status |-> "active", aged |-> FALSE, revision |-> 0]
        /\ UNCHANGED proc
    BY <1>3 DEF Disk!MakeRun
  <2>2. IsDirectory(dirs'[p]) /\ dirs'[p].files = {} /\ dirs'[p].status = "active"
    BY <2>1 DEF IsDirectory
  <2> QED
    BY <1>1, <1>2, <2>1, <2>2, RunChanges DEF RunsInv
<1>4. CASE p \in DOMAIN dirs /\ Disk!Missing(p) # {}
  <2>1. PICK entry \in Entries : dirs' = [dirs EXCEPT ![p].files = @ \cup {entry}] /\ UNCHANGED proc
    BY <1>4, FirstIsOne DEF Disk!MakeRun, Disk!Missing, Entries
  <2>2. IsDirectory(dirs[p]) /\ dirs[p].files \subseteq Entries /\ dirs[p].status = "active"
    BY <1>1, <1>2, <1>4 DEF InPhase, RunsInv
  <2>3. IsDirectory(dirs'[p]) /\ dirs'[p].files = dirs[p].files \cup {entry} /\ dirs'[p].status = "active"
    BY <1>4, <2>1, <2>2 DEF IsDirectory
  <2>5. dirs'[p].files \subseteq Entries
    BY <2>2, <2>3
  <2>4. DOMAIN dirs' = DOMAIN dirs \cup {p} /\ \A q \in DOMAIN dirs : q # p => dirs'[q] = dirs[q]
    BY <1>4, <2>1
  <2> QED
    BY <1>1, <1>2, <2>1, <2>3, <2>4, <2>5, RunChanges DEF RunsInv
<1>5. CASE p \in DOMAIN dirs /\ Disk!Missing(p) = {}
  <2>1. PICK new : /\ new = [proc[p] EXCEPT !.pc = "serve", !.status = "active"]
                   /\ proc' = [proc EXCEPT ![p] = new] /\ UNCHANGED dirs
    BY <1>5 DEF Disk!MakeRun
  <2>2. IsServer(new) /\ new.pc = "serve" /\ new.status = "active"
    BY <1>1, <2>1 DEF IsServer
  <2>3. Whole(p)
    BY <1>1, <1>2, <1>5 DEF Whole, Disk!Missing, InPhase
  <2>4. proc'[p] = new
    BY <2>1 DEF RunsInv
  <2>5. InPhase(p)'
    BY <2>1, <2>2, <2>3, <2>4 DEF InPhase, Whole
  <2>6. \A w \in S : SaveFits(w, P)'
    BY <1>1, <1>2, <2>1, <2>2, <2>4 DEF SaveFits, IsSave, RunsInv
  <2> QED
    BY <1>1, <1>2, <2>1, <2>2, <2>5, <2>6, OtherRunsKeep DEF RunsInv
<1> QED
  BY <1>3, <1>4, <1>5

LEMMA RunsKeepOnStop ==
  ASSUME NEW P, NEW S, RunsInv(P, S), NEW p \in P, Disk!Stop(p)
  PROVE  RunsInv(P, S)'
<1>1. /\ UNCHANGED save /\ proc[p].pc = "serve" /\ IsServer(proc[p]) /\ Whole(p)
      /\ IsDirectory(dirs[p]) /\ dirs[p].files \subseteq Entries
  BY DEF Disk!Stop, RunsInv, InPhase, Whole
<1>2. PICK pc \in {"lock", "stopped"} :
        proc' = [proc EXCEPT ![p].status = "stopped", ![p].pc = pc]
  <2> DEFINE pc == IF proc[p].kind = "formal_demo" THEN "lock" ELSE "stopped"
  <2>1. proc' = [proc EXCEPT ![p].status = "stopped", ![p].pc = pc]
    BY DEF Disk!Stop
  <2>2. pc \in {"lock", "stopped"}
    OBVIOUS
  <2> HIDE DEF pc
  <2> QED
    BY <2>1, <2>2
<1>9. PICK new : /\ new = [proc[p] EXCEPT !.status = "stopped", !.pc = pc]
                 /\ proc' = [proc EXCEPT ![p] = new]
  BY <1>2
<1>3. IsServer(new) /\ new.pc = pc /\ new.status = "stopped"
  BY <1>1, <1>9 DEF IsServer
<1>4. dirs' = [dirs EXCEPT ![p].status = "stopped"]
  BY DEF Disk!Stop
<1>5. /\ IsDirectory(dirs'[p]) /\ dirs'[p].files \subseteq Entries /\ dirs'[p].status = "stopped"
      /\ DOMAIN dirs' = DOMAIN dirs /\ \A q \in DOMAIN dirs : q # p => dirs'[q] = dirs[q]
  BY <1>1, <1>4 DEF IsDirectory, Whole
<1>6. proc'[p] = new /\ \A q \in P : q # p => proc'[q] = proc[q]
  BY <1>9 DEF RunsInv
<1>7. InPhase(p)'
  BY <1>3, <1>5, <1>6 DEF InPhase
<1>8. \A w \in S : SaveFits(w, P)'
  BY <1>1, <1>3, <1>6 DEF SaveFits, IsSave, RunsInv
<1> QED
  BY <1>1, <1>9, <1>3, <1>5, <1>7, <1>8, OtherRunsKeep DEF RunsInv

(* The end of a process loses the saves that are under way.                *)
LEMMA RunsKeepAtEnd ==
  ASSUME NEW P, NEW S, RunsInv(P, S), NEW p \in P, proc[p].pc # "new", UNCHANGED dirs,
         proc' = [proc EXCEPT ![p].pc = "gone", ![p].todo = {}, ![p].target = p, ![p].tree = {}],
         save' = [w \in S |->
           IF save[w].pc \in {"compare", "mkdir", "rename", "touch"} /\ save[w].by = p
           THEN [save[w] EXCEPT !.pc = "lost"] ELSE save[w]]
  PROVE  RunsInv(P, S)'
<1>1. IsServer(proc[p])
  BY DEF RunsInv
<1>2. PICK new : /\ new = [proc[p] EXCEPT !.pc = "gone", !.todo = {}, !.target = p, !.tree = {}]
                 /\ proc' = [proc EXCEPT ![p] = new]
  OBVIOUS
<1>3. IsServer(new) /\ new.pc = "gone" /\ new.status = proc[p].status
  BY <1>1, <1>2 DEF IsServer
<1>4. proc'[p] = new /\ \A q \in P : q # p => proc'[q] = proc[q]
  BY <1>2 DEF RunsInv
<1>5. InPhase(p)'
  BY <1>1, <1>3, <1>4 DEF InPhase, IsServer, RunsInv
<1>6. ASSUME NEW w \in S
      PROVE  SaveFits(w, P)'
  <2>1. SaveFits(w, P)
    BY DEF RunsInv
  <2>2. CASE save[w].pc \in {"compare", "mkdir", "rename", "touch"} /\ save[w].by = p
    <3>1. IsSave(save[w], P) /\ save'[w] = [save[w] EXCEPT !.pc = "lost"]
      BY <2>1, <2>2 DEF SaveFits
    <3>2. /\ save'[w] = [pc |-> "lost", by |-> save[w].by, base |-> save[w].base]
      BY <3>1 DEF IsSave
    <3> QED
      BY <1>3, <1>4, <2>2, <3>1, <3>2 DEF SaveFits, IsSave
  <2>3. CASE ~(save[w].pc \in {"compare", "mkdir", "rename", "touch"} /\ save[w].by = p)
    <3>1. save'[w] = save[w]
      BY <2>3
    <3> QED
      BY <1>3, <1>4, <2>1, <2>3, <3>1 DEF SaveFits, IsSave
  <2> QED
    BY <2>2, <2>3
<1> QED
  BY <1>2, <1>3, <1>5, <1>6, OtherRunsKeep DEF RunsInv

LEMMA RunsKeepOnStartBreaks ==
  ASSUME NEW P, NEW S, RunsInv(P, S), NEW p \in P, Disk!StartBreaks(p)
  PROVE  RunsInv(P, S)'
<1>1. UNCHANGED save /\ proc[p].pc \in {"root", "make"} /\ IsServer(proc[p]) /\ InPhase(p)
  BY DEF Disk!StartBreaks, Disk!Errs, RunsInv
<1>2. proc[p].status = "none" /\ ~Over(p)
  BY <1>1 DEF InPhase, IsServer, Over
<1>3. PICK new : /\ new = [proc[p] EXCEPT !.pc = "gone", !.target = p, !.tree = {}]
                 /\ proc' = [proc EXCEPT ![p] = new]
  BY DEF Disk!StartBreaks, Disk!Goes
<1>4. IsServer(new) /\ new.pc = "gone" /\ new.status = "none"
  BY <1>1, <1>2, <1>3 DEF IsServer
<1>5. proc'[p] = new /\ \A q \in P : q # p => proc'[q] = proc[q]
  BY <1>3 DEF RunsInv
<1>6. DOMAIN dirs' = DOMAIN dirs \ {p} /\ \A d \in DOMAIN dirs' : dirs'[d] = dirs[d]
  BY DEF Disk!StartBreaks
<1>9. /\ DOMAIN dirs' \subseteq P
      /\ \A d \in DOMAIN dirs' : IsDirectory(dirs'[d]) /\ dirs'[d].files \subseteq Entries
      /\ DOMAIN save' = S
  BY <1>1, <1>6 DEF RunsInv
<1>7. InPhase(p)'
  BY <1>4, <1>5 DEF InPhase
<1>8. \A w \in S : SaveFits(w, P)'
  BY <1>1, <1>2, <1>5 DEF SaveFits, IsSave, RunsInv
<1> QED
  BY <1>2, <1>3, <1>4, <1>6, <1>7, <1>8, <1>9, OtherRunsKeep

(* The steps of a save.                                                    *)
LEMMA RevisionsAreNumbers ==
  ASSUME NEW P, NEW S, RunsInv(P, S), NEW p
  PROVE  Disk!Revision(p) \in Nat
  BY DEF RunsInv, IsDirectory, Disk!Revision

LEMMA SaversGo ==
  ASSUME NEW P, NEW S, RunsInv(P, S), NEW w \in S, IsSave(save[w], P),
         NEW pc \in {"mkdir", "rename", "touch", "saved", "conflict", "failed"},
         save' = [save EXCEPT ![w].pc = pc],
         pc \in {"mkdir", "rename", "touch"} => proc[save[w].by].pc # "gone"
  PROVE  /\ DOMAIN save' = S /\ \A v \in S : v # w => save'[v] = save[v]
         /\ save'[w].pc = pc /\ save'[w].by = save[w].by /\ save'[w].base = save[w].base
         /\ \A v \in S : save'[v] = [pc |-> "idle"] \/ IsSave(save'[v], P)
<1>1. save'[w] = [pc |-> pc, by |-> save[w].by, base |-> save[w].base]
  BY DEF IsSave, RunsInv
<1>2. DOMAIN save' = S /\ \A v \in S : v # w => save'[v] = save[v]
  BY DEF RunsInv
<1>3. IsSave(save'[w], P)
  BY <1>1 DEF IsSave
<1> QED
  BY <1>1, <1>2, <1>3 DEF RunsInv, SaveFits

LEMMA SaverIsKnown ==
  ASSUME NEW P, NEW S, RunsInv(P, S), NEW w \in S,
         save[w].pc \in {"compare", "mkdir", "rename", "touch"}
  PROVE  /\ IsSave(save[w], P) /\ save[w].by \in P /\ save[w].base \in Nat
         /\ proc[save[w].by].pc \notin {"new", "gone"}
         /\ proc[save[w].by].status \in {"active", "stopped"}
<1>1. IsSave(save[w], P)
  BY DEF RunsInv, SaveFits
<1> QED
  BY <1>1 DEF IsSave

LEMMA RunsKeepOnReadCase ==
  ASSUME NEW P, NEW S, RunsInv(P, S), NEW w \in S, NEW p \in P,
         Disk!ReadCase(w, p) \/ Disk!SaveGoes(w, "mkdir") \/ Disk!SaveGoes(w, "conflict"),
         Disk!ReadCase(w, p) \/ save[w].pc = "compare", UNCHANGED <<proc, dirs>>
  PROVE  RunsInv(P, S)'
<1>1. CASE Disk!ReadCase(w, p)
  <2>1. PICK base \in Nat : save' = [save EXCEPT ![w] = [pc |-> "compare", by |-> p, base |-> base]]
    BY <1>1, RevisionsAreNumbers DEF Disk!ReadCase
  <2>2. proc[p].pc = "serve" /\ proc[p].status = "active"
    BY <1>1 DEF Disk!ReadCase, RunsInv, InPhase, IsServer
  <2>3. IsSave([pc |-> "compare", by |-> p, base |-> base], P)
    BY <2>2 DEF IsSave
  <2>4. DOMAIN save' = S /\ \A v \in S : save'[v] = [pc |-> "idle"] \/ IsSave(save'[v], P)
    BY <2>1, <2>3 DEF RunsInv, SaveFits
  <2> QED
    BY <2>4, OnlySaves
<1>2. CASE ~Disk!ReadCase(w, p)
  <2>1. IsSave(save[w], P) /\ proc[save[w].by].pc # "gone"
    BY <1>2, SaverIsKnown
  <2>2. PICK pc \in {"mkdir", "conflict"} : save' = [save EXCEPT ![w].pc = pc]
    BY <1>2 DEF Disk!SaveGoes
  <2>3. DOMAIN save' = S /\ \A v \in S : save'[v] = [pc |-> "idle"] \/ IsSave(save'[v], P)
    BY <2>1, <2>2, SaversGo
  <2> QED
    BY <2>3, OnlySaves
<1> QED
  BY <1>1, <1>2

(* What a save writes, and where.                                          *)
LEMMA WritesGo ==
  ASSUME NEW P, NEW S, RunsInv(P, S), NEW w \in S,
         Disk!MakeStateDirectory(w) \/ Disk!RenameIntoPlace(w) \/ Disk!Touch(w),
         NEW p, p = save[w].by
  PROVE  /\ p \in P /\ proc[p].pc \notin {"new", "gone"} /\ proc[p].status \in {"active", "stopped"}
         /\ UNCHANGED proc /\ Disk!Late(p)
         /\ DOMAIN save' = S /\ \A v \in S : save'[v] = [pc |-> "idle"] \/ IsSave(save'[v], P)
         /\ \A v \in S : v # w => save'[v] = save[v]
         /\ save'[w].by = p /\ save'[w].base = save[w].base
         /\ Disk!MakeStateDirectory(w) => save'[w].pc = "rename"
         /\ Disk!RenameIntoPlace(w) => save'[w].pc \in {"touch", "failed"}
         /\ Disk!Touch(w) => save'[w].pc \in {"saved", "failed"}
<1>1. UNCHANGED proc /\ Disk!Late(p) /\ save[w].pc \in {"mkdir", "rename", "touch"}
  BY DEF Disk!MakeStateDirectory, Disk!RenameIntoPlace, Disk!Touch
<1>2. /\ IsSave(save[w], P) /\ p \in P /\ proc[p].pc \notin {"new", "gone"}
      /\ proc[p].status \in {"active", "stopped"}
  BY <1>1, SaverIsKnown
<1>3. PICK pc \in {"rename", "touch", "saved", "failed"} :
        /\ save' = [save EXCEPT ![w].pc = pc]
        /\ Disk!MakeStateDirectory(w) => pc = "rename"
        /\ Disk!RenameIntoPlace(w) => pc \in {"touch", "failed"}
        /\ Disk!Touch(w) => pc \in {"saved", "failed"}
  <2>1. CASE Disk!MakeStateDirectory(w)
    <3>1. save[w].pc = "mkdir" /\ save' = [save EXCEPT ![w].pc = "rename"]
      BY <2>1 DEF Disk!MakeStateDirectory, Disk!SaveGoes
    <3>2. ~Disk!RenameIntoPlace(w) /\ ~Disk!Touch(w)
      BY <3>1 DEF Disk!RenameIntoPlace, Disk!Touch
    <3> QED
      BY <3>1, <3>2
  <2>2. CASE Disk!RenameIntoPlace(w)
    <3>1. save[w].pc = "rename" /\ \E pc \in {"touch", "failed"} : save' = [save EXCEPT ![w].pc = pc]
      BY <2>2 DEF Disk!RenameIntoPlace, Disk!SaveGoes
    <3>2. ~Disk!MakeStateDirectory(w) /\ ~Disk!Touch(w)
      BY <3>1 DEF Disk!MakeStateDirectory, Disk!Touch
    <3> QED
      BY <3>1, <3>2
  <2>3. CASE Disk!Touch(w)
    <3>1. save[w].pc = "touch" /\ \E pc \in {"saved", "failed"} : save' = [save EXCEPT ![w].pc = pc]
      BY <2>3 DEF Disk!Touch, Disk!SaveGoes
    <3>2. ~Disk!MakeStateDirectory(w) /\ ~Disk!RenameIntoPlace(w)
      BY <3>1 DEF Disk!MakeStateDirectory, Disk!RenameIntoPlace
    <3> QED
      BY <3>1, <3>2
  <2> QED
    BY <2>1, <2>2, <2>3
<1>4. /\ DOMAIN save' = S /\ \A v \in S : v # w => save'[v] = save[v]
      /\ save'[w].pc = pc /\ save'[w].by = save[w].by /\ save'[w].base = save[w].base
      /\ \A v \in S : save'[v] = [pc |-> "idle"] \/ IsSave(save'[v], P)
  <2>1. pc \in {"mkdir", "rename", "touch", "saved", "conflict", "failed"}
    BY <1>3
  <2>2. IsSave(save[w], P) /\ proc[save[w].by].pc # "gone"
    BY <1>2
  <2> QED
    BY <1>3, <2>1, <2>2, SaversGo
<1> QED
  BY <1>1, <1>2, <1>3, <1>4

(* The directory after a write: no entry of it is lost, its revision grows *)
(* to the one that was written, and its status is that of its process.     *)
LEMMA WritesLand ==
  ASSUME NEW P, NEW S, RunsInv(P, S), NEW w \in S,
         Disk!MakeStateDirectory(w) \/ Disk!RenameIntoPlace(w) \/ Disk!Touch(w),
         NEW p, p = save[w].by, dirs' # dirs
  PROVE  /\ DOMAIN dirs' = DOMAIN dirs \cup {p} /\ \A q \in DOMAIN dirs : q # p => dirs'[q] = dirs[q]
         /\ IsDirectory(dirs'[p]) /\ dirs'[p].files \subseteq Entries
         /\ p \in DOMAIN dirs => dirs[p].files \subseteq dirs'[p].files
         /\ \/ dirs'[p].status = proc[p].status
            \/ p \in DOMAIN dirs /\ dirs'[p].status = dirs[p].status
         /\ Disk!RenameIntoPlace(w) => /\ save'[w].pc = "touch" /\ "doc" \in dirs'[p].files
                                       /\ dirs'[p].revision = save[w].base + 1
         /\ ~Disk!RenameIntoPlace(w) /\ p \in DOMAIN dirs => dirs'[p].revision = dirs[p].revision
<1>1. \A d \in DOMAIN dirs : IsDirectory(dirs[d]) /\ dirs[d].files \subseteq Entries
  BY DEF RunsInv
<1>2. CASE Disk!MakeStateDirectory(w)
  <2>1. /\ DOMAIN dirs' = DOMAIN dirs \cup {p} /\ \A q \in DOMAIN dirs : q # p => dirs'[q] = dirs[q]
        /\ p \in DOMAIN dirs => dirs'[p] = [dirs[p] EXCEPT !.files = @ \cup {"state"}]
        /\ p \notin DOMAIN dirs => dirs'[p] =
             [files |-> {"state"}, status |-> proc[p].status, aged |-> FALSE, revision |-> 0]
    BY <1>2 DEF Disk!MakeStateDirectory
  <2>2. p \in DOMAIN dirs =>
          /\ IsDirectory(dirs'[p]) /\ dirs'[p].files = dirs[p].files \cup {"state"}
          /\ dirs'[p].status = dirs[p].status /\ dirs'[p].revision = dirs[p].revision
    BY <1>1, <2>1 DEF IsDirectory
  <2>3. p \notin DOMAIN dirs => /\ IsDirectory(dirs'[p]) /\ dirs'[p].files = {"state"}
                                /\ dirs'[p].status = proc[p].status
    BY <2>1 DEF IsDirectory
  <2>4. ~Disk!RenameIntoPlace(w)
    BY <1>2 DEF Disk!MakeStateDirectory, Disk!RenameIntoPlace
  <2> QED
    BY <1>1, <2>1, <2>2, <2>3, <2>4 DEF Entries
<1>3. CASE Disk!RenameIntoPlace(w)
  <2>1. /\ p \in DOMAIN dirs /\ Disk!SaveGoes(w, "touch") /\ save[w].pc = "rename"
        /\ dirs' = [dirs EXCEPT ![p].files = @ \cup {"doc"}, ![p].revision = save[w].base + 1]
    BY <1>3 DEF Disk!RenameIntoPlace
  <2>2. save[w].base + 1 \in Nat
    BY <2>1, SaverIsKnown
  <2>3. PICK next \in Nat : next = save[w].base + 1
    BY <2>2
  <2>4. dirs' = [dirs EXCEPT ![p].files = @ \cup {"doc"}, ![p].revision = next]
    BY <2>1, <2>3
  <2>5. PICK new : /\ new = [dirs[p] EXCEPT !.files = dirs[p].files \cup {"doc"}, !.revision = next]
                   /\ dirs' = [dirs EXCEPT ![p] = new]
    BY <2>4
  <2>6. /\ new.files = dirs[p].files \cup {"doc"} /\ new.status = dirs[p].status
        /\ new.revision = next /\ IsDirectory(new)
    <3>1. IsDirectory(dirs[p]) /\ next \in Nat
      BY <1>1, <2>1, <2>3
    <3>2. new = [files |-> dirs[p].files \cup {"doc"}, status |-> dirs[p].status,
                 aged |-> dirs[p].aged, revision |-> next]
      BY <2>5, <3>1 DEF IsDirectory
    <3> QED
      BY <3>1, <3>2 DEF IsDirectory
  <2>8. /\ DOMAIN dirs' = DOMAIN dirs /\ dirs'[p] = new
        /\ \A q \in DOMAIN dirs : q # p => dirs'[q] = dirs[q]
    BY <2>1, <2>5
  <2>7. save'[w].pc = "touch"
    BY <1>3, <2>1 DEF Disk!SaveGoes, RunsInv, SaveFits, IsSave
  <2>9. DOMAIN dirs' = DOMAIN dirs \cup {p}
    BY <2>1, <2>8
  <2>10. dirs[p].files \subseteq Entries /\ {"doc"} \subseteq Entries
    BY <1>1, <2>1 DEF Entries
  <2>11. new.files \subseteq Entries
    BY <2>6, <2>10
  <2> QED
    BY <1>3, <2>1, <2>3, <2>6, <2>7, <2>8, <2>9, <2>11
<1>4. CASE Disk!Touch(w)
  <2>1. /\ p \in DOMAIN dirs
        /\ dirs' = [dirs EXCEPT ![p].files = @ \cup {"manifest"},
                                ![p].status = proc[p].status, ![p].aged = FALSE]
    BY <1>4 DEF Disk!Touch
  <2>2. PICK status : status = proc[p].status
    OBVIOUS
  <2>3. dirs' = [dirs EXCEPT ![p].files = @ \cup {"manifest"}, ![p].status = status, ![p].aged = FALSE]
    BY <2>1, <2>2
  <2>4. PICK new : /\ new = [dirs[p] EXCEPT !.files = dirs[p].files \cup {"manifest"},
                                           !.status = status, !.aged = FALSE]
                   /\ dirs' = [dirs EXCEPT ![p] = new]
    BY <2>3
  <2>5. /\ new.files = dirs[p].files \cup {"manifest"} /\ new.status = status
        /\ new.revision = dirs[p].revision /\ IsDirectory(new)
    <3>1. IsDirectory(dirs[p])
      BY <1>1, <2>1
    <3>2. new = [files |-> dirs[p].files \cup {"manifest"}, status |-> status,
                 aged |-> FALSE, revision |-> dirs[p].revision]
      BY <2>4, <3>1 DEF IsDirectory
    <3> QED
      BY <3>1, <3>2 DEF IsDirectory
  <2>7. /\ DOMAIN dirs' = DOMAIN dirs /\ dirs'[p] = new
        /\ \A q \in DOMAIN dirs : q # p => dirs'[q] = dirs[q]
    BY <2>1, <2>4
  <2>6. ~Disk!RenameIntoPlace(w)
    BY <1>4 DEF Disk!Touch, Disk!RenameIntoPlace
  <2>8. DOMAIN dirs' = DOMAIN dirs \cup {p}
    BY <2>1, <2>7
  <2>9. dirs[p].files \subseteq Entries /\ {"manifest"} \subseteq Entries
    BY <1>1, <2>1 DEF Entries
  <2>10. new.files \subseteq Entries
    BY <2>5, <2>9
  <2> QED
    BY <2>1, <2>2, <2>5, <2>6, <2>7, <2>8, <2>10
<1> QED
  BY <1>2, <1>3, <1>4

LEMMA RunsKeepOnWrites ==
  ASSUME NEW P, NEW S, RunsInv(P, S), NEW w \in S,
         Disk!MakeStateDirectory(w) \/ Disk!RenameIntoPlace(w) \/ Disk!Touch(w)
  PROVE  RunsInv(P, S)'
<1>1. PICK p : p = save[w].by
  OBVIOUS
<1>2. /\ p \in P /\ proc[p].pc \notin {"new", "gone"} /\ proc[p].status \in {"active", "stopped"}
      /\ UNCHANGED proc /\ DOMAIN save' = S
      /\ \A v \in S : save'[v] = [pc |-> "idle"] \/ IsSave(save'[v], P)
  BY <1>1, WritesGo
<1>3. CASE dirs' = dirs
  BY <1>2, <1>3, OnlySaves
<1>4. CASE dirs' # dirs
  <2>1. /\ DOMAIN dirs' = DOMAIN dirs \cup {p} /\ \A q \in DOMAIN dirs : q # p => dirs'[q] = dirs[q]
        /\ IsDirectory(dirs'[p]) /\ dirs'[p].files \subseteq Entries
        /\ p \in DOMAIN dirs => dirs[p].files \subseteq dirs'[p].files
        /\ \/ dirs'[p].status = proc[p].status
           \/ p \in DOMAIN dirs /\ dirs'[p].status = dirs[p].status
    BY ONLY RunsInv(P, S), w \in S, Disk!MakeStateDirectory(w) \/ Disk!RenameIntoPlace(w) \/ Disk!Touch(w), <1>1, <1>4, WritesLand
  <2>2. InPhase(p) /\ IsServer(proc[p])
    BY <1>2 DEF RunsInv
  <2>3. proc[p].pc = "serve" => /\ {"marker", "manifest", "state"} \subseteq dirs'[p].files
                                /\ dirs'[p].status = "active"
    BY <1>2, <2>1, <2>2 DEF InPhase, Whole
  <2>4. proc[p].pc # "make" /\ (proc[p].status = "stopped" => dirs'[p].status = "stopped")
    BY <1>2, <2>1, <2>2 DEF InPhase
  <2> QED
    BY <1>2, <2>1, <2>3, <2>4, RunChanges
<1> QED
  BY <1>3, <1>4

LEMMA RunsKeepOnAge ==
  ASSUME NEW P, NEW S, RunsInv(P, S), NEW d \in P, Disk!Age(d)
  PROVE  RunsInv(P, S)'
<1>1. /\ UNCHANGED <<proc, save>> /\ d \in DOMAIN dirs /\ IsDirectory(dirs[d])
      /\ dirs[d].files \subseteq Entries /\ dirs' = [dirs EXCEPT ![d].aged = TRUE]
      /\ InPhase(d) /\ proc[d].pc # "new" /\ IsServer(proc[d])
  BY DEF Disk!Age, RunsInv, InPhase
<1>2. /\ IsDirectory(dirs'[d]) /\ dirs'[d].files = dirs[d].files /\ dirs'[d].status = dirs[d].status
      /\ DOMAIN dirs' = DOMAIN dirs /\ \A q \in DOMAIN dirs : q # d => dirs'[q] = dirs[q]
  BY <1>1 DEF IsDirectory
<1>3. /\ proc[d].status = "none" => proc[d].pc \in {"make", "gone"}
      /\ proc[d].pc = "make" => dirs'[d].status = "active"
      /\ proc[d].pc # "gone" /\ proc[d].status = "stopped" => dirs'[d].status = "stopped"
  BY <1>1, <1>2 DEF InPhase, IsServer
<1>4. proc[d].pc = "serve" =>
        {"marker", "manifest", "state"} \subseteq dirs'[d].files /\ dirs'[d].status = "active"
  BY <1>1, <1>2 DEF InPhase, Whole
<1>5. DOMAIN save' = S /\ \A w \in S : save'[w] = [pc |-> "idle"] \/ IsSave(save'[w], P)
  BY <1>1 DEF RunsInv, SaveFits
<1> QED
  BY <1>1, <1>2, <1>3, <1>4, <1>5, RunChanges

-----------------------------------------------------------------------------
(* The disk: all processes, and one save.                                  *)
LEMMA DiskStarts ==
  ASSUME Disk!RuntimeInit
  PROVE  DiskInv
<1>1. RunsInv(Processes, {"w"})
  BY RunsStart DEF Disk!RuntimeInit
<1>2. DOMAIN dirs = {} /\ \A p \in Processes : proc[p].pc = "new"
  BY DEF Disk!RuntimeInit
<1>3. LockInv
  BY <1>2 DEF LockInv, Disk!LockIsTheCleanup, Disk!Cleaning, Disk!RuntimeInit
<1>4. SavedIsKept /\ RunsAreOwned
  BY <1>2 DEF SavedIsKept, RunsAreOwned, Disk!RuntimeInit
<1> QED
  BY <1>1, <1>3, <1>4 DEF DiskInv

LEMMA DiskRunsKeep ==
  ASSUME RunsInv(Processes, {"w"}), LockInv, [Disk!RuntimeNext]_runtimeVars
  PROVE  RunsInv(Processes, {"w"})'
<1>1. ASSUME NEW p \in Processes, NEW kind, NEW pid, Disk!Start(p, kind, pid)
      PROVE  RunsInv(Processes, {"w"})'
  <2>1. rootMarker \in {"none", "torn", "whole"}
    BY DEF LockInv
  <2> QED
    BY <1>1, <2>1, RunsKeepAtStart DEF Disk!Start
<1>2. ASSUME NEW p \in Processes,
             \/ Disk!WriteRootMarker(p) \/ Disk!TakeLock(p) \/ Disk!CollectTree(p)
             \/ Disk!RemoveEntry(p) \/ Disk!Unlock(p) \/ Disk!LockBreaks(p) \/ Disk!RemovalBreaks(p)
      PROVE  RunsInv(Processes, {"w"})'
  BY <1>2, RunsKeepOnUnlock, RunsKeepOnTakeLock, RunsKeepOnCollectTree, RunsKeepOnRemoveEntry,
     RunsKeepOnLockBreaks
<1>3. ASSUME NEW p \in Processes,
             Disk!MakeRun(p) \/ Disk!Stop(p) \/ Disk!StartBreaks(p) \/ Disk!Age(p)
      PROVE  RunsInv(Processes, {"w"})'
  BY <1>3, RunsKeepOnMakeRun, RunsKeepOnStop, RunsKeepOnStartBreaks, RunsKeepOnAge
<1>4. ASSUME NEW p \in Processes, Disk!Exit(p) \/ Disk!Crash(p)
      PROVE  RunsInv(Processes, {"w"})'
  <2>1. proc[p].pc # "new" /\ UNCHANGED dirs /\ Disk!Ended(p)
    BY <1>4 DEF Disk!Exit, Disk!Crash, Disk!Alive
  <2> QED
    BY <2>1, RunsKeepAtEnd DEF Disk!Ended
<1>5. ASSUME NEW p \in Processes, NEW d \in Processes, Disk!Examine(p, d)
      PROVE  RunsInv(Processes, {"w"})'
  <2>1. proc[p].pc = "clean" /\ UNCHANGED <<dirs, save>>
    BY <1>5 DEF Disk!Examine
  <2>2. CASE d \in DOMAIN dirs /\ Disk!Owned(d) /\ Disk!Expires(p, d)
    <3>1. Over(d)
      BY <2>2, TargetIsOver DEF Disk!Expires, Disk!PidAlive
    <3>2. proc' = [proc EXCEPT ![p] =
            [proc[p] EXCEPT !.todo = proc[p].todo \ {d}, !.pc = "collect", !.target = d]]
      BY <1>5, <2>2 DEF Disk!Examine
    <3> QED
      BY <2>1, <3>1, <3>2, RunsKeepOnExamine
  <2>3. CASE ~(d \in DOMAIN dirs /\ Disk!Owned(d) /\ Disk!Expires(p, d))
    <3>1. proc' = [proc EXCEPT ![p] = [proc[p] EXCEPT !.todo = proc[p].todo \ {d}]]
      BY <1>5, <2>3 DEF Disk!Examine
    <3> QED
      BY <2>1, <3>1, RunsKeepOnExamine
  <2> QED
    BY <2>2, <2>3
<1>6. ASSUME NEW p \in Processes, Disk!ReadCase("w", p)
      PROVE  RunsInv(Processes, {"w"})'
  BY <1>6, RunsKeepOnReadCase DEF Disk!ReadCase
<1>7. CASE Disk!Compare("w")
  <2>1. Disk!SaveGoes("w", "mkdir") \/ Disk!SaveGoes("w", "conflict")
    BY <1>7 DEF Disk!Compare
  <2>2. "w" \in {"w"} /\ save["w"].pc = "compare" /\ UNCHANGED <<proc, dirs>>
    BY <1>7 DEF Disk!Compare
  <2>3. save["w"].by \in Processes
    BY <2>2, SaverIsKnown
  <2> QED
    BY <2>1, <2>2, <2>3, RunsKeepOnReadCase
<1>8. CASE Disk!MakeStateDirectory("w") \/ Disk!RenameIntoPlace("w") \/ Disk!Touch("w")
  BY <1>8, RunsKeepOnWrites
<1>9. CASE UNCHANGED runtimeVars
  <2>1. UNCHANGED <<proc, dirs, save>> /\ DOMAIN save' = {"w"}
        /\ \A w \in {"w"} : save'[w] = [pc |-> "idle"] \/ IsSave(save'[w], Processes)
    BY <1>9 DEF runtimeVars, RunsInv, SaveFits
  <2> QED
    BY <2>1, OnlySaves
<1> QED
  BY <1>1, <1>2, <1>3, <1>4, <1>5, <1>6, <1>7, <1>8, <1>9 DEF Disk!RuntimeNext

(* A process that goes on, and the others that do not.                     *)
LEMMA Moved ==
  ASSUME NEW P, NEW S, RunsInv(P, S), NEW p \in P, proc[p].pc # "new", NEW pc, Disk!Goes(p, pc)
  PROVE  /\ proc'[p].pc = pc /\ proc'[p].status = proc[p].status /\ proc'[p].target = p
         /\ \A q \in P : q # p => proc'[q] = proc[q]
<1>1. IsServer(proc[p]) /\ p \in DOMAIN proc
  BY DEF RunsInv
<1>2. \A q \in P : q # p => proc'[q] = proc[q]
  BY DEF Disk!Goes, RunsInv
<1>3. proc'[p].pc = pc /\ proc'[p].status = proc[p].status /\ proc'[p].target = p
  BY <1>1 DEF Disk!Goes, IsServer
<1> QED
  BY <1>2, <1>3

(* What the steps of one process do to it.                                 *)
Alone(p, P) ==
  /\ \A q \in P : q # p => proc'[q] = proc[q]
  /\ proc[p].status # "none" => proc'[p].status # "none"

LEMMA StepsMove ==
  ASSUME NEW P, NEW S, RunsInv(P, S), NEW p \in P
  PROVE  /\ Disk!WriteRootMarker(p) \/ Disk!TakeLock(p) \/ Disk!CollectTree(p) \/ Disk!RemoveEntry(p)
            \/ Disk!Unlock(p) \/ Disk!MakeRun(p) \/ Disk!Stop(p)
            \/ Disk!LockBreaks(p) \/ Disk!RemovalBreaks(p) \/ Disk!StartBreaks(p)
            => /\ proc[p].pc # "new"
               /\ Alone(p, P)
         /\ Disk!WriteRootMarker(p) => proc[p].pc = "root" /\ proc'[p].pc = "lock"
         /\ Disk!TakeLock(p) => /\ proc[p].pc = "lock"
                                /\ ~lockFile => proc'[p].pc = "clean"
                                /\ lockFile => proc'[p].pc \in {"gone", "stopped"}
         /\ Disk!CollectTree(p) => proc[p].pc = "collect" /\ proc'[p].pc \in {"remove", "clean"}
         /\ Disk!RemoveEntry(p) => proc[p].pc = "remove" /\ proc'[p].pc \in {"remove", "clean"}
         /\ Disk!Unlock(p) => proc[p].pc = "clean" /\ proc'[p].pc \in {"make", "stopped"}
         /\ Disk!MakeRun(p) => proc[p].pc = "make" /\ proc'[p].pc \in {"make", "serve"}
         /\ Disk!Stop(p) => proc[p].pc = "serve" /\ proc'[p].pc \in {"lock", "stopped"}
         /\ Disk!LockBreaks(p) => \/ proc[p].pc = "lock" /\ proc'[p].pc \in {"gone", "stopped"}
                                  \/ proc[p].pc = "clean" /\ proc'[p].pc \in {"make", "stopped"}
         /\ Disk!RemovalBreaks(p) => proc[p].pc = "remove" /\ proc'[p].pc = "clean"
         /\ Disk!StartBreaks(p) => proc[p].pc \in {"root", "make"} /\ proc'[p].pc = "gone"
<1>1. proc[p].pc # "new" => IsServer(proc[p]) /\ p \in DOMAIN proc
  BY DEF RunsInv
<1>2. DOMAIN proc = P
  BY DEF RunsInv
<1>3. Disk!WriteRootMarker(p) =>
        /\ proc[p].pc = "root" /\ proc'[p].pc = "lock" /\ Alone(p, P)
  BY Moved DEF Alone, Disk!WriteRootMarker
<1>4. Disk!TakeLock(p) =>
        /\ proc[p].pc = "lock" /\ Alone(p, P)
        /\ ~lockFile => proc'[p].pc = "clean"
        /\ lockFile => proc'[p].pc \in {"gone", "stopped"}
  <2> SUFFICES ASSUME Disk!TakeLock(p)
               PROVE  /\ Alone(p, P)
                      /\ ~lockFile => proc'[p].pc = "clean"
                      /\ lockFile => proc'[p].pc \in {"gone", "stopped"}
    BY DEF Disk!TakeLock
  <2>1. proc[p].pc = "lock" /\ IsServer(proc[p])
    BY <1>1 DEF Disk!TakeLock
  <2>2. CASE lockFile
    BY <2>1, <2>2, Moved DEF Alone, Disk!TakeLock, Disk!NoCleanup
  <2>3. CASE ~lockFile
    BY <1>2, <2>1, <2>3 DEF Alone, Disk!TakeLock, IsServer
  <2> QED
    BY <2>2, <2>3
<1>5. Disk!CollectTree(p) =>
        /\ proc[p].pc = "collect" /\ Alone(p, P)
        /\ proc'[p].pc \in {"remove", "clean"}
  <2> SUFFICES ASSUME Disk!CollectTree(p)
               PROVE  /\ Alone(p, P)
                      /\ proc'[p].pc \in {"remove", "clean"}
    BY DEF Disk!CollectTree
  <2>1. proc[p].pc = "collect" /\ IsServer(proc[p])
    BY <1>1 DEF Disk!CollectTree
  <2>2. CASE proc[p].target \notin DOMAIN dirs
    BY <2>1, <2>2, Moved DEF Alone, Disk!CollectTree
  <2>3. CASE proc[p].target \in DOMAIN dirs
    BY <1>2, <2>1, <2>3 DEF Alone, Disk!CollectTree, IsServer
  <2> QED
    BY <2>2, <2>3
<1>6. Disk!RemoveEntry(p) =>
        /\ proc[p].pc = "remove" /\ Alone(p, P)
        /\ proc'[p].pc \in {"remove", "clean"}
  <2> SUFFICES ASSUME Disk!RemoveEntry(p)
               PROVE  /\ Alone(p, P)
                      /\ proc'[p].pc \in {"remove", "clean"}
    BY DEF Disk!RemoveEntry
  <2>1. proc[p].pc = "remove" /\ IsServer(proc[p])
    BY <1>1 DEF Disk!RemoveEntry
  <2>2. CASE Disk!Goes(p, "clean")
    BY <2>1, <2>2, Moved DEF Alone
  <2>3. CASE ~Disk!Goes(p, "clean")
    <3>1. PICK entry : proc' = [proc EXCEPT ![p].tree = @ \ {entry}]
      BY <2>3 DEF Disk!RemoveEntry
    <3> QED
      BY <1>2, <2>1, <3>1 DEF Alone, IsServer
  <2> QED
    BY <2>2, <2>3
<1>7. Disk!Unlock(p) =>
        /\ proc[p].pc = "clean" /\ Alone(p, P)
        /\ proc'[p].pc \in {"make", "stopped"}
  BY Moved DEF Alone, Disk!Unlock
<1>8. Disk!MakeRun(p) =>
        /\ proc[p].pc = "make" /\ Alone(p, P)
        /\ proc'[p].pc \in {"make", "serve"}
  BY <1>1, <1>2 DEF Alone, Disk!MakeRun, IsServer
<1>9. Disk!Stop(p) =>
        /\ proc[p].pc = "serve" /\ Alone(p, P)
        /\ proc'[p].pc \in {"lock", "stopped"}
  BY <1>1, <1>2 DEF Alone, Disk!Stop, IsServer
<1>10. Disk!LockBreaks(p) =>
         /\ Alone(p, P)
         /\ \/ proc[p].pc = "lock" /\ proc'[p].pc \in {"gone", "stopped"}
            \/ proc[p].pc = "clean" /\ proc'[p].pc \in {"make", "stopped"}
  <2> SUFFICES ASSUME Disk!LockBreaks(p)
               PROVE  /\ Alone(p, P)
                      /\ \/ proc[p].pc = "lock" /\ proc'[p].pc \in {"gone", "stopped"}
                         \/ proc[p].pc = "clean" /\ proc'[p].pc \in {"make", "stopped"}
    OBVIOUS
  <2>1. \/ proc[p].pc = "lock" /\ Disk!NoCleanup(p)
        \/ proc[p].pc = "clean" /\ Disk!Goes(p, IF Disk!Starting(p) THEN "make" ELSE "stopped")
    BY DEF Disk!LockBreaks
  <2> QED
    BY <2>1, Moved DEF Alone, Disk!NoCleanup
<1>11. Disk!RemovalBreaks(p) =>
         /\ proc[p].pc = "remove" /\ proc'[p].pc = "clean" /\ Alone(p, P)
  BY Moved DEF Alone, Disk!RemovalBreaks
<1>12. Disk!StartBreaks(p) =>
         /\ proc[p].pc \in {"root", "make"} /\ proc'[p].pc = "gone"
         /\ Alone(p, P)
  BY Moved DEF Alone, Disk!StartBreaks
<1> QED
  BY <1>3, <1>4, <1>5, <1>6, <1>7, <1>8, <1>9, <1>10, <1>11, <1>12

LEMMA StartsMove ==
  ASSUME NEW P, NEW S, RunsInv(P, S), NEW p \in P, rootMarker \in {"none", "torn", "whole"},
         NEW kind, NEW pid, Disk!Start(p, kind, pid)
  PROVE  /\ proc[p].pc = "new" /\ proc'[p].pc \in {"root", "gone", "lock"}
         /\ \A q \in P : q # p => proc'[q] = proc[q]
<1>1. DOMAIN proc = P
  BY DEF RunsInv
<1> QED
  BY <1>1 DEF Disk!Start

LEMMA ExaminesMove ==
  ASSUME NEW P, NEW S, RunsInv(P, S), NEW p \in P, NEW d, Disk!Examine(p, d)
  PROVE  /\ proc[p].pc = "clean" /\ proc'[p].pc \in {"clean", "collect"}
         /\ \A q \in P : q # p => proc'[q] = proc[q]
<1>1. DOMAIN proc = P /\ proc[p].pc = "clean" /\ IsServer(proc[p])
  BY DEF RunsInv, Disk!Examine
<1> QED
  BY <1>1 DEF Disk!Examine, IsServer

LEMMA EndsMove ==
  ASSUME NEW P, NEW S, RunsInv(P, S), NEW p \in P, Disk!Exit(p) \/ Disk!Crash(p)
  PROVE  /\ proc[p].pc # "new" /\ proc'[p].pc = "gone"
         /\ \A q \in P : q # p => proc'[q] = proc[q]
<1>1. DOMAIN proc = P /\ proc[p].pc # "new" /\ IsServer(proc[p]) /\ Disk!Ended(p)
  BY DEF RunsInv, Disk!Exit, Disk!Crash, Disk!Alive
<1> QED
  BY <1>1 DEF Disk!Ended, IsServer

(* The lock: the processes that clean up are the same, or an error or a    *)
(* crash is on record.                                                     *)
LEMMA LockStays ==
  ASSUME LockInv, UNCHANGED lockFile, blame \subseteq blame',
         rootMarker' \in {"none", "torn", "whole"},
         \A q \in Processes : Disk!Cleaning(q)' <=> Disk!Cleaning(q)
  PROVE  LockInv'
  BY DEF LockInv, Disk!LockIsTheCleanup

LEMMA LockIsLeft ==
  ASSUME LockInv, lockFile' \in BOOLEAN, lockFile => lockFile', UNCHANGED rootMarker,
         blame' \cap {"crash", "error"} # {},
         \A q \in Processes : Disk!Cleaning(q)' => Disk!Cleaning(q)
  PROVE  LockInv'
  BY DEF LockInv, Disk!LockIsTheCleanup

LEMMA LockKeeps ==
  ASSUME RunsInv(Processes, {"w"}), LockInv, [Disk!RuntimeNext]_runtimeVars
  PROVE  LockInv'
<1>1. ASSUME NEW p \in Processes, NEW kind, NEW pid, Disk!Start(p, kind, pid)
      PROVE  LockInv'
  <2>1. rootMarker' \in {"none", "torn", "whole"} /\ UNCHANGED <<lockFile, blame>>
    BY <1>1 DEF Disk!Start, LockInv
  <2>2. /\ proc[p].pc = "new" /\ proc'[p].pc \in {"root", "gone", "lock"}
        /\ \A q \in Processes : q # p => proc'[q] = proc[q]
    BY <1>1, StartsMove DEF LockInv
  <2> QED
    BY <2>1, <2>2, LockStays DEF Disk!Cleaning
<1>2. ASSUME NEW p \in Processes,
             \/ Disk!WriteRootMarker(p) \/ Disk!CollectTree(p) \/ Disk!RemoveEntry(p)
             \/ Disk!MakeRun(p) \/ Disk!Stop(p)
      PROVE  LockInv'
  <2>1. rootMarker' \in {"none", "torn", "whole"} /\ UNCHANGED <<lockFile, blame>>
    BY <1>2 DEF Disk!WriteRootMarker, Disk!CollectTree, Disk!RemoveEntry, Disk!MakeRun, Disk!Stop, LockInv
  <2>2. /\ Disk!Cleaning(p)' <=> Disk!Cleaning(p)
        /\ \A q \in Processes : q # p => proc'[q] = proc[q]
    BY <1>2, StepsMove DEF Alone, Disk!Cleaning
  <2> QED
    BY <2>1, <2>2, LockStays DEF Disk!Cleaning
<1>3. ASSUME NEW p \in Processes, Disk!TakeLock(p)
      PROVE  LockInv'
  <2>1. UNCHANGED <<rootMarker, blame>> /\ lockFile' = TRUE
    BY <1>3 DEF Disk!TakeLock
  <2>2. /\ proc[p].pc = "lock" /\ \A q \in Processes : q # p => proc'[q] = proc[q]
        /\ ~lockFile => proc'[p].pc = "clean"
        /\ lockFile => proc'[p].pc \in {"gone", "stopped"}
    BY <1>3, StepsMove DEF Alone
  <2>3. CASE lockFile
    BY <2>1, <2>2, <2>3, LockStays DEF Disk!Cleaning, LockInv
  <2>4. CASE ~lockFile
    <3>1. \A q \in Processes : ~Disk!Cleaning(q)
      BY <2>4 DEF LockInv, Disk!LockIsTheCleanup
    <3>2. \A q \in Processes : Disk!Cleaning(q)' <=> q = p
      BY <2>2, <2>4, <3>1 DEF Disk!Cleaning
    <3> QED
      BY <2>1, <3>2 DEF LockInv, Disk!LockIsTheCleanup
  <2> QED
    BY <2>3, <2>4
<1>4. ASSUME NEW p \in Processes, Disk!Unlock(p)
      PROVE  LockInv'
  <2>1. UNCHANGED <<rootMarker, blame>> /\ lockFile' = FALSE
    BY <1>4 DEF Disk!Unlock
  <2>2. /\ proc[p].pc = "clean" /\ proc'[p].pc \in {"make", "stopped"}
        /\ \A q \in Processes : q # p => proc'[q] = proc[q]
    BY <1>4, StepsMove DEF Alone
  <2>3. \A q \in Processes : ~Disk!Cleaning(q)'
    BY <2>2 DEF LockInv, Disk!LockIsTheCleanup, Disk!Cleaning
  <2> QED
    BY <2>1, <2>3 DEF LockInv, Disk!LockIsTheCleanup
<1>5. ASSUME NEW p \in Processes, Disk!LockBreaks(p) \/ Disk!RemovalBreaks(p) \/ Disk!StartBreaks(p)
      PROVE  LockInv'
  <2>1. UNCHANGED rootMarker /\ "error" \in blame' /\ (UNCHANGED lockFile \/ lockFile' = TRUE)
    BY <1>5 DEF Disk!LockBreaks, Disk!RemovalBreaks, Disk!StartBreaks, Disk!Errs
  <2>2. /\ Disk!Cleaning(p)' => Disk!Cleaning(p)
        /\ \A q \in Processes : q # p => proc'[q] = proc[q]
    BY <1>5, StepsMove DEF Alone, Disk!Cleaning
  <2>3. \A q \in Processes : Disk!Cleaning(q)' => Disk!Cleaning(q)
    BY <2>2 DEF Disk!Cleaning
  <2>4. lockFile' \in BOOLEAN /\ (lockFile => lockFile')
    <3>1. CASE UNCHANGED lockFile
      BY <3>1 DEF LockInv
    <3>2. CASE lockFile' = TRUE
      BY <3>2
    <3> QED
      BY <2>1, <3>1, <3>2
  <2>5. blame' \cap {"crash", "error"} # {}
    BY <2>1
  <2> QED
    BY <2>1, <2>3, <2>4, <2>5, LockIsLeft
<1>6. ASSUME NEW p \in Processes, Disk!Exit(p)
      PROVE  LockInv'
  <2>1. UNCHANGED <<rootMarker, lockFile, blame>> /\ proc[p].pc = "stopped"
    BY <1>6 DEF Disk!Exit
  <2>2. proc'[p].pc = "gone" /\ \A q \in Processes : q # p => proc'[q] = proc[q]
    BY <1>6, EndsMove
  <2> QED
    BY <2>1, <2>2, LockStays DEF Disk!Cleaning, LockInv
<1>7. ASSUME NEW p \in Processes, Disk!Crash(p)
      PROVE  LockInv'
  <2>1. UNCHANGED <<rootMarker, lockFile>> /\ "crash" \in blame'
    BY <1>7 DEF Disk!Crash
  <2>2. proc'[p].pc = "gone" /\ \A q \in Processes : q # p => proc'[q] = proc[q]
    BY <1>7, EndsMove
  <2> QED
    BY <2>1, <2>2, LockIsLeft DEF Disk!Cleaning, LockInv
<1>8. ASSUME NEW p \in Processes, NEW d \in Processes, Disk!Examine(p, d)
      PROVE  LockInv'
  <2>1. UNCHANGED <<rootMarker, lockFile, blame>>
    BY <1>8 DEF Disk!Examine
  <2>2. /\ proc[p].pc = "clean" /\ proc'[p].pc \in {"clean", "collect"}
        /\ \A q \in Processes : q # p => proc'[q] = proc[q]
    BY <1>8, ExaminesMove
  <2> QED
    BY <2>1, <2>2, LockStays DEF Disk!Cleaning, LockInv
<1>9. ASSUME UNCHANGED <<rootMarker, lockFile, proc>>, blame \subseteq blame'
      PROVE  LockInv'
  BY <1>9, LockStays DEF Disk!Cleaning, LockInv
<1>10. ASSUME NEW w, NEW p,
              \/ Disk!ReadCase(w, p) \/ Disk!Compare(w) \/ Disk!MakeStateDirectory(w)
              \/ Disk!RenameIntoPlace(w) \/ Disk!Touch(w) \/ Disk!Age(p)
       PROVE  UNCHANGED <<rootMarker, lockFile, proc>> /\ blame \subseteq blame'
  BY <1>10 DEF Disk!ReadCase, Disk!Compare, Disk!MakeStateDirectory, Disk!RenameIntoPlace,
               Disk!Touch, Disk!Age, Disk!Late
<1>11. CASE UNCHANGED runtimeVars
  BY <1>9, <1>11 DEF runtimeVars
<1> QED
  BY <1>1, <1>2, <1>3, <1>4, <1>5, <1>6, <1>7, <1>8, <1>9, <1>10, <1>11 DEF Disk!RuntimeNext

(* The save: a process begins to serve before anything is saved in it, and *)
(* while it serves its run only grows.                                     *)
LEMMA SavedStays ==
  ASSUME RunsInv(Processes, {"w"}), SavedIsKept, UNCHANGED save,
         \A q \in Processes : proc'[q].pc = "serve" =>
           /\ proc[q].pc = "serve" \/ (proc[q].pc # "new" /\ proc[q].status = "none")
           /\ q \in DOMAIN dirs =>
                /\ q \in DOMAIN dirs' /\ dirs[q].files \subseteq dirs'[q].files
                /\ dirs'[q].revision = dirs[q].revision
  PROVE  SavedIsKept'
<1> SUFFICES ASSUME save["w"].pc \in {"touch", "saved"}, proc'[save["w"].by].pc = "serve"
             PROVE  /\ save["w"].by \in DOMAIN dirs' /\ "doc" \in dirs'[save["w"].by].files
                    /\ dirs'[save["w"].by].revision > save["w"].base
  BY DEF SavedIsKept
<1>1. IsSave(save["w"], Processes)
  BY DEF RunsInv, SaveFits
<1>2. save["w"].by \in Processes /\ proc[save["w"].by].status \in {"active", "stopped"}
  BY <1>1 DEF IsSave
<1>3. proc[save["w"].by].pc = "serve"
  BY <1>2
<1> QED
  BY <1>2, <1>3 DEF SavedIsKept

LEMMA SavedKeeps ==
  ASSUME RunsInv(Processes, {"w"}), LockInv, SavedIsKept, [Disk!RuntimeNext]_runtimeVars
  PROVE  SavedIsKept'
<1>1. ASSUME NEW p \in Processes, NEW kind, NEW pid, Disk!Start(p, kind, pid)
      PROVE  SavedIsKept'
  <2>1. UNCHANGED <<dirs, save>>
    BY <1>1 DEF Disk!Start
  <2>2. /\ proc'[p].pc \in {"root", "gone", "lock"}
        /\ \A q \in Processes : q # p => proc'[q] = proc[q]
    BY <1>1, StartsMove DEF LockInv
  <2> QED
    BY <2>1, <2>2, SavedStays
<1>2. ASSUME NEW p \in Processes,
             \/ Disk!WriteRootMarker(p) \/ Disk!TakeLock(p) \/ Disk!CollectTree(p) \/ Disk!Unlock(p)
             \/ Disk!LockBreaks(p) \/ Disk!RemovalBreaks(p)
      PROVE  SavedIsKept'
  <2>1. UNCHANGED <<dirs, save>>
    BY <1>2 DEF Disk!WriteRootMarker, Disk!TakeLock, Disk!CollectTree, Disk!Unlock,
                Disk!LockBreaks, Disk!RemovalBreaks, Disk!Errs
  <2>2. proc'[p].pc # "serve" /\ \A q \in Processes : q # p => proc'[q] = proc[q]
    BY <1>2, StepsMove DEF Alone
  <2> QED
    BY <2>1, <2>2, SavedStays
<1>3. ASSUME NEW p \in Processes, Disk!RemoveEntry(p)
      PROVE  SavedIsKept'
  <2>1. proc[p].pc = "remove" /\ Over(proc[p].target) /\ UNCHANGED save
    BY <1>3 DEF Disk!RemoveEntry, RunsInv, InPhase
  <2>2. proc'[p].pc # "serve" /\ \A q \in Processes : q # p => proc'[q] = proc[q]
    BY <1>3, StepsMove DEF Alone
  <2>3. proc[proc[p].target].pc # "serve"
    BY <2>1 DEF Over, RunsInv, InPhase, IsServer
  <2>4. \A q \in DOMAIN dirs : q # proc[p].target => q \in DOMAIN dirs' /\ dirs'[q] = dirs[q]
    BY <1>3 DEF Disk!RemoveEntry
  <2> QED
    BY <2>1, <2>2, <2>3, <2>4, SavedStays
<1>4. ASSUME NEW p \in Processes, Disk!MakeRun(p)
      PROVE  SavedIsKept'
  <2>1. UNCHANGED save /\ proc[p].pc = "make" /\ proc[p].status = "none"
    BY <1>4 DEF Disk!MakeRun, RunsInv, InPhase, IsServer
  <2>2. \A q \in Processes : q # p => proc'[q] = proc[q]
    BY <1>4, StepsMove DEF Alone
  <2>3. \A q \in DOMAIN dirs : /\ q \in DOMAIN dirs' /\ dirs[q].files \subseteq dirs'[q].files
                               /\ dirs'[q].revision = dirs[q].revision
    BY <1>4 DEF Disk!MakeRun, RunsInv, IsDirectory
  <2> QED
    BY <2>1, <2>2, <2>3, SavedStays
<1>5. ASSUME NEW p \in Processes, Disk!Stop(p) \/ Disk!StartBreaks(p)
      PROVE  SavedIsKept'
  <2>1. UNCHANGED save /\ \A q \in DOMAIN dirs : q # p => q \in DOMAIN dirs' /\ dirs'[q] = dirs[q]
    BY <1>5 DEF Disk!Stop, Disk!StartBreaks, Disk!Errs
  <2>2. proc'[p].pc # "serve" /\ \A q \in Processes : q # p => proc'[q] = proc[q]
    BY <1>5, StepsMove DEF Alone
  <2> QED
    BY <2>1, <2>2, SavedStays
<1>6. ASSUME NEW p \in Processes, NEW d \in Processes, Disk!Examine(p, d)
      PROVE  SavedIsKept'
  <2>1. UNCHANGED <<dirs, save>>
    BY <1>6 DEF Disk!Examine
  <2>2. proc'[p].pc # "serve" /\ \A q \in Processes : q # p => proc'[q] = proc[q]
    BY <1>6, ExaminesMove
  <2> QED
    BY <2>1, <2>2, SavedStays
<1>7. ASSUME NEW p \in Processes, Disk!Exit(p) \/ Disk!Crash(p)
      PROVE  SavedIsKept'
  <2>1. UNCHANGED dirs /\ Disk!Ended(p)
    BY <1>7 DEF Disk!Exit, Disk!Crash
  <2>2. proc'[p].pc = "gone" /\ \A q \in Processes : q # p => proc'[q] = proc[q]
    BY <1>7, EndsMove
  <2>3. save'["w"] = save["w"] \/ save'["w"].pc \notin {"touch", "saved"}
    <3>1. CASE save["w"].pc \in {"compare", "mkdir", "rename", "touch"} /\ save["w"].by = p
      <4>1. save'["w"] = [save["w"] EXCEPT !.pc = "lost"] /\ IsSave(save["w"], Processes)
        BY <2>1, <3>1 DEF Disk!Ended, RunsInv, SaveFits
      <4> QED
        BY <4>1 DEF IsSave
    <3>2. CASE ~(save["w"].pc \in {"compare", "mkdir", "rename", "touch"} /\ save["w"].by = p)
      BY <2>1, <3>2 DEF Disk!Ended
    <3> QED
      BY <3>1, <3>2
  <2>4. save["w"].pc \in {"touch", "saved"} => save["w"].by \in Processes
    BY DEF RunsInv, SaveFits, IsSave
  <2> QED
    BY <2>1, <2>2, <2>3, <2>4 DEF SavedIsKept
<1>8. ASSUME NEW p \in Processes, Disk!ReadCase("w", p)
      PROVE  SavedIsKept'
  <2>1. save'["w"].pc = "compare"
    BY <1>8 DEF Disk!ReadCase, RunsInv
  <2> QED
    BY <2>1 DEF SavedIsKept
<1>9. CASE Disk!Compare("w")
  <2>1. PICK pc \in {"mkdir", "conflict"} : save' = [save EXCEPT !["w"].pc = pc]
    BY <1>9 DEF Disk!Compare, Disk!SaveGoes
  <2>2. IsSave(save["w"], Processes) /\ "w" \in DOMAIN save
    BY <1>9 DEF Disk!Compare, RunsInv, SaveFits
  <2>3. save'["w"].pc = pc
    BY <2>1, <2>2 DEF IsSave
  <2> QED
    BY <2>3 DEF SavedIsKept
<1>10. CASE Disk!MakeStateDirectory("w")
  <2>1. save'["w"].pc = "rename"
    BY <1>10, WritesGo
  <2> QED
    BY <2>1 DEF SavedIsKept
<1>11. CASE Disk!RenameIntoPlace("w")
  <2>1. PICK p : p = save["w"].by
    OBVIOUS
  <2>5. "w" \in {"w"} /\ save["w"].pc = "rename"
    BY <1>11 DEF Disk!RenameIntoPlace
  <2>6. save["w"].base \in Nat
    BY <2>5, SaverIsKnown
  <2>7. save'["w"].pc \in {"touch", "failed"}
    BY <1>11, <2>1, <2>5, WritesGo
  <2>8. save'["w"].by = p /\ save'["w"].base = save["w"].base
    BY <1>11, <2>1, <2>5, WritesGo
  <2>2. /\ save'["w"].pc \in {"touch", "failed"} /\ save'["w"].by = p
        /\ save'["w"].base = save["w"].base /\ save["w"].base \in Nat
    BY <2>6, <2>7, <2>8
  <2>3. CASE save'["w"].pc = "failed"
    BY <2>3 DEF SavedIsKept
  <2>4. CASE save'["w"].pc # "failed"
    <3>1. p \in DOMAIN dirs /\ "state" \in dirs[p].files
      BY <1>11, <2>1, <2>2, <2>4 DEF Disk!RenameIntoPlace, Disk!SaveGoes, RunsInv, SaveFits, IsSave
    <3>2. dirs' = [dirs EXCEPT ![p].files = @ \cup {"doc"}, ![p].revision = save["w"].base + 1]
      BY <1>11, <2>1, <3>1 DEF Disk!RenameIntoPlace
    <3>5. PICK next : next = save["w"].base + 1
      OBVIOUS
    <3>6. dirs' = [dirs EXCEPT ![p].files = @ \cup {"doc"}, ![p].revision = next]
      BY <3>2, <3>5
    <3>7. IsDirectory(dirs[p])
      BY <3>1 DEF RunsInv
    <3>3. /\ p \in DOMAIN dirs' /\ "doc" \in dirs'[p].files
          /\ dirs'[p].revision = save["w"].base + 1
      BY <3>1, <3>5, <3>6, <3>7 DEF IsDirectory
    <3>4. save["w"].base + 1 > save["w"].base
      BY <2>2
    <3> QED
      BY <2>2, <3>3, <3>4 DEF SavedIsKept
  <2> QED
    BY <2>3, <2>4
<1>12. CASE Disk!Touch("w")
  <2>1. PICK p : p = save["w"].by
    OBVIOUS
  <2>6. "w" \in {"w"} /\ save["w"].pc = "touch" /\ UNCHANGED proc
    BY <1>12 DEF Disk!Touch
  <2>7. save'["w"].by = p /\ save'["w"].base = save["w"].base
    BY <1>12, <2>1, <2>6, WritesGo
  <2>2. /\ save'["w"].by = p /\ UNCHANGED proc
        /\ save'["w"].base = save["w"].base /\ save["w"].pc = "touch"
    BY <2>6, <2>7
  <2>3. proc[p].pc = "serve" => /\ p \in DOMAIN dirs /\ "doc" \in dirs[p].files
                                /\ dirs[p].revision > save["w"].base
    BY <2>1, <2>2 DEF SavedIsKept
  <2>4. CASE dirs' = dirs
    BY <2>2, <2>3, <2>4 DEF SavedIsKept
  <2>5. CASE dirs' # dirs
    <3>1. ~Disk!RenameIntoPlace("w")
      BY <2>2 DEF Disk!RenameIntoPlace
    <3>2. /\ DOMAIN dirs' = DOMAIN dirs \cup {p}
          /\ p \in DOMAIN dirs => dirs[p].files \subseteq dirs'[p].files
          /\ p \in DOMAIN dirs => dirs'[p].revision = dirs[p].revision
      BY <1>12, <2>1, <2>5, <3>1, WritesLand
    <3> QED
      BY <2>2, <2>3, <3>2 DEF SavedIsKept
  <2> QED
    BY <2>4, <2>5
<1>13. ASSUME NEW d \in Processes, Disk!Age(d)
       PROVE  SavedIsKept'
  <2>1. UNCHANGED <<proc, save>> /\ DOMAIN dirs' = DOMAIN dirs
    BY <1>13 DEF Disk!Age
  <2>2. \A q \in DOMAIN dirs :
          dirs'[q].files = dirs[q].files /\ dirs'[q].revision = dirs[q].revision
    BY <1>13 DEF Disk!Age, RunsInv, IsDirectory
  <2> QED
    BY <2>1, <2>2, SavedStays
<1>14. CASE UNCHANGED runtimeVars
  BY <1>14, SavedStays DEF runtimeVars
<1> QED
  BY <1>1, <1>2, <1>3, <1>4, <1>5, <1>6, <1>7, <1>8, <1>9, <1>10, <1>11, <1>12, <1>13, <1>14
     DEF Disk!RuntimeNext

(* The runs that stay: those that were made are owned or being removed,    *)
(* and nobody but a removal takes an entry from them.                      *)
LEMMA OwnedStays ==
  ASSUME RunsInv(Processes, {"w"}), RunsAreOwned, blame' = {} => blame = {},
         \A q \in Processes : proc'[q].pc = "remove" \/ proc[q].pc = "remove" =>
           /\ proc'[q].pc = "remove" /\ proc[q].pc = "remove"
           /\ proc'[q].target = proc[q].target /\ proc'[q].tree = proc[q].tree,
         \A d \in DOMAIN dirs' : proc'[d].pc # "make" =>
           \/ d \in DOMAIN dirs /\ proc[d].pc # "make" /\ dirs[d].files \subseteq dirs'[d].files
           \/ Disk!Owned(d)',
         \A d \in DOMAIN dirs : Over(d) => d \in DOMAIN dirs' /\ dirs'[d].files = dirs[d].files
  PROVE  RunsAreOwned'
<1> SUFFICES ASSUME blame' = {}
             PROVE  /\ \A d \in DOMAIN dirs' : proc'[d].pc # "make" =>
                         \/ Disk!Owned(d)'
                         \/ \E p \in Processes : proc'[p].pc = "remove" /\ proc'[p].target = d
                    /\ \A p \in Processes : proc'[p].pc = "remove" =>
                         /\ proc'[p].target \in DOMAIN dirs'
                         /\ proc'[p].tree = dirs'[proc'[p].target].files \cup {"directory"}
  BY DEF RunsAreOwned
<1>1. blame = {}
  OBVIOUS
<1>2. ASSUME NEW d \in DOMAIN dirs', proc'[d].pc # "make"
      PROVE  Disk!Owned(d)' \/ \E p \in Processes : proc'[p].pc = "remove" /\ proc'[p].target = d
  <2>1. CASE Disk!Owned(d)'
    BY <2>1
  <2>2. CASE d \in DOMAIN dirs /\ proc[d].pc # "make" /\ dirs[d].files \subseteq dirs'[d].files
    <3>1. CASE Disk!Owned(d)
      BY <2>2, <3>1 DEF Disk!Owned
    <3>2. CASE \E p \in Processes : proc[p].pc = "remove" /\ proc[p].target = d
      BY <3>2
    <3> QED
      BY <1>1, <2>2, <3>1, <3>2 DEF RunsAreOwned
  <2> QED
    BY <1>2, <2>1, <2>2
<1>3. ASSUME NEW p \in Processes, proc'[p].pc = "remove"
      PROVE  /\ proc'[p].target \in DOMAIN dirs'
             /\ proc'[p].tree = dirs'[proc'[p].target].files \cup {"directory"}
  <2>1. /\ proc[p].pc = "remove" /\ proc'[p].target = proc[p].target /\ proc'[p].tree = proc[p].tree
        /\ proc[p].target \in DOMAIN dirs
        /\ proc[p].tree = dirs[proc[p].target].files \cup {"directory"}
    BY <1>1, <1>3 DEF RunsAreOwned
  <2>2. Over(proc[p].target)
    BY <2>1 DEF RunsInv, InPhase
  <2> QED
    BY <2>1, <2>2
<1> QED
  BY <1>2, <1>3

(* The first entry to remove: a directory comes last.                      *)
LEMMA FirstToRemove ==
  ASSUME NEW E, E \subseteq Entries \cup {"directory"}, E # {}
  PROVE  /\ Disk!First(Disk!Removal, E) \in E
         /\ Disk!First(Disk!Removal, E) = "state" => "doc" \notin E
         /\ Disk!First(Disk!Removal, E) = "directory" =>
              {"marker", "manifest", "state", "doc"} \cap E = {}
<1> DEFINE F(i) == Disk!Removal[i] \in E /\ \A j \in 1 .. i - 1 : Disk!Removal[j] \notin E
<1>1. /\ DOMAIN Disk!Removal = {1, 2, 3, 4, 5} /\ Disk!Removal[1] = "manifest"
      /\ Disk!Removal[2] = "marker" /\ Disk!Removal[3] = "doc" /\ Disk!Removal[4] = "state"
      /\ Disk!Removal[5] = "directory"
  BY DEF Disk!Removal
<1>2. /\ 1 .. 1 - 1 = {} /\ 1 .. 2 - 1 = {1} /\ 1 .. 3 - 1 = {1, 2} /\ 1 .. 4 - 1 = {1, 2, 3}
      /\ 1 .. 5 - 1 = {1, 2, 3, 4}
  OBVIOUS
<1>3. \E i \in DOMAIN Disk!Removal : F(i)
  <2>1. CASE "manifest" \in E
    BY <1>1, <1>2, <2>1
  <2>2. CASE "manifest" \notin E /\ "marker" \in E
    BY <1>1, <1>2, <2>2
  <2>3. CASE "manifest" \notin E /\ "marker" \notin E /\ "doc" \in E
    BY <1>1, <1>2, <2>3
  <2>4. CASE "manifest" \notin E /\ "marker" \notin E /\ "doc" \notin E /\ "state" \in E
    BY <1>1, <1>2, <2>4
  <2>5. CASE Entries \cap E = {}
    <3>1. "directory" \in E /\ {"manifest", "marker", "doc", "state"} \cap E = {}
      BY <2>5 DEF Entries
    <3> QED
      BY <1>1, <1>2, <3>1
  <2> QED
    BY <2>1, <2>2, <2>3, <2>4, <2>5 DEF Entries
<1>4. PICK i \in DOMAIN Disk!Removal : F(i) /\ Disk!First(Disk!Removal, E) = Disk!Removal[i]
  BY <1>3 DEF Disk!First
<1>5. CASE i = 4
  BY <1>1, <1>2, <1>4, <1>5
<1>6. CASE i = 5
  BY <1>1, <1>2, <1>4, <1>6
<1>7. CASE i \in {1, 2, 3}
  BY <1>1, <1>4, <1>7
<1> QED
  BY <1>1, <1>4, <1>5, <1>6, <1>7

(* A removal whose tree is what the directory holds works entry by entry.  *)
LEMMA RemovalWorks ==
  ASSUME RunsInv(Processes, {"w"}), LockInv, RunsAreOwned, NEW p \in Processes, Disk!RemoveEntry(p)
  PROVE  RunsAreOwned'
<1> SUFFICES ASSUME blame' = {} PROVE RunsAreOwned'
  BY DEF RunsAreOwned
<1>1. blame = {} /\ proc[p].pc = "remove" /\ IsServer(proc[p]) /\ p \in DOMAIN proc
  BY DEF Disk!RemoveEntry, RunsInv
<1>2. PICK d, entry : d = proc[p].target /\ entry = Disk!First(Disk!Removal, proc[p].tree)
  OBVIOUS
<1>3. d \in DOMAIN dirs /\ proc[p].tree = dirs[d].files \cup {"directory"} /\ IsDirectory(dirs[d])
  BY <1>1, <1>2 DEF RunsAreOwned, RunsInv
<1>4. /\ entry \in proc[p].tree /\ (entry = "state" => "doc" \notin proc[p].tree)
      /\ entry = "directory" => {"marker", "manifest", "state", "doc"} \cap proc[p].tree = {}
  <2>1. proc[p].tree \subseteq Entries \cup {"directory"} /\ proc[p].tree # {}
    BY <1>3 DEF RunsInv
  <2> QED
    BY <1>2, <2>1, FirstToRemove
<1>5. Disk!Inside(entry) \cap dirs[d].files = {}
  BY <1>3, <1>4 DEF Disk!Inside
<1>6. entry \in dirs[d].files \cup {"directory"}
  BY <1>3, <1>4
<1>7. \A q \in Processes : q # p => proc'[q] = proc[q] /\ proc[q].pc # "remove"
  BY <1>1, StepsMove DEF Alone, LockInv, Disk!LockIsTheCleanup, Disk!Cleaning
<1>9. CASE entry = "directory"
  <2>1. dirs' = [q \in DOMAIN dirs \ {d} |-> dirs[q]] /\ Disk!Goes(p, "clean")
    BY <1>2, <1>3, <1>5, <1>6, <1>9 DEF Disk!RemoveEntry
  <2>2. proc'[p].pc = "clean"
    BY <1>1, <2>1, Moved
  <2>3. \A q \in DOMAIN dirs' : q \in DOMAIN dirs /\ q # d /\ dirs'[q] = dirs[q]
    BY <2>1
  <2>4. ASSUME NEW q \in DOMAIN dirs', proc'[q].pc # "make"
        PROVE  Disk!Owned(q)'
    <3>1. q \in DOMAIN dirs /\ q # d /\ dirs'[q] = dirs[q] /\ q \in Processes
      BY <2>3 DEF RunsInv
    <3>2. proc[q].pc # "make"
      BY <1>1, <1>7, <2>4, <3>1
    <3>3. Disk!Owned(q)
      BY <1>1, <1>2, <1>7, <3>1, <3>2 DEF RunsAreOwned
    <3> QED
      BY <3>1, <3>3 DEF Disk!Owned
  <2> QED
    BY <1>7, <2>2, <2>4 DEF RunsAreOwned
<1>10. CASE entry # "directory"
  <2>1. /\ dirs' = [dirs EXCEPT ![d].files = @ \ {entry}]
        /\ proc' = [proc EXCEPT ![p].tree = @ \ {entry}]
    BY <1>2, <1>3, <1>5, <1>6, <1>10 DEF Disk!RemoveEntry
  <2>2. proc'[p].pc = "remove" /\ proc'[p].target = d /\ proc'[p].tree = proc[p].tree \ {entry}
    BY <1>1, <1>2, <2>1 DEF IsServer
  <2>3. /\ DOMAIN dirs' = DOMAIN dirs /\ dirs'[d].files = dirs[d].files \ {entry}
        /\ \A q \in DOMAIN dirs : q # d => dirs'[q] = dirs[q]
    BY <1>3, <2>1 DEF IsDirectory
  <2>4. proc'[p].tree = dirs'[d].files \cup {"directory"}
    BY <1>3, <1>10, <2>2, <2>3
  <2>5. ASSUME NEW q \in DOMAIN dirs', proc'[q].pc # "make", q # d
        PROVE  Disk!Owned(q)'
    <3>1. q \in DOMAIN dirs /\ dirs'[q] = dirs[q] /\ q \in Processes
      BY <2>3, <2>5 DEF RunsInv
    <3>2. proc[q].pc # "make"
      BY <1>1, <1>7, <2>5, <3>1
    <3>3. Disk!Owned(q)
      BY <1>1, <1>2, <1>7, <2>5, <3>1, <3>2 DEF RunsAreOwned
    <3> QED
      BY <3>1, <3>3 DEF Disk!Owned
  <2> QED
    BY <1>3, <1>7, <2>2, <2>3, <2>4, <2>5 DEF RunsAreOwned
<1> QED
  BY <1>9, <1>10

LEMMA OwnedKeeps ==
  ASSUME RunsInv(Processes, {"w"}), LockInv, RunsAreOwned, [Disk!RuntimeNext]_runtimeVars
  PROVE  RunsAreOwned'
<1>1. ASSUME NEW p \in Processes, NEW kind, NEW pid, Disk!Start(p, kind, pid)
      PROVE  RunsAreOwned'
  <2>1. UNCHANGED <<dirs, blame>> /\ p \notin DOMAIN dirs
    BY <1>1, StartsMove DEF Disk!Start, RunsInv, InPhase
  <2>2. /\ proc[p].pc = "new" /\ proc'[p].pc \in {"root", "gone", "lock"}
        /\ \A q \in Processes : q # p => proc'[q] = proc[q]
    BY <1>1, StartsMove DEF LockInv
  <2>3. DOMAIN dirs \subseteq Processes
    BY DEF RunsInv
  <2> QED
    BY <2>1, <2>2, <2>3, OwnedStays
<1>2. ASSUME NEW p \in Processes,
             \/ Disk!WriteRootMarker(p) \/ Disk!TakeLock(p) \/ Disk!Unlock(p)
      PROVE  RunsAreOwned'
  <2>1. UNCHANGED <<dirs, blame>>
    BY <1>2 DEF Disk!WriteRootMarker, Disk!TakeLock, Disk!Unlock
  <2>2. /\ proc[p].pc \in {"root", "lock", "clean"} /\ proc'[p].pc # "remove"
        /\ \A q \in Processes : q # p => proc'[q] = proc[q]
    BY <1>2, StepsMove DEF Alone
  <2>3. DOMAIN dirs \subseteq Processes
    BY DEF RunsInv
  <2> QED
    BY <2>1, <2>2, <2>3, OwnedStays
<1>3. ASSUME NEW p \in Processes, Disk!CollectTree(p)
      PROVE  RunsAreOwned'
  <2>1. /\ UNCHANGED <<dirs, blame>> /\ proc[p].pc = "collect" /\ IsServer(proc[p]) /\ p \in DOMAIN proc
        /\ DOMAIN dirs \subseteq Processes
    BY <1>3 DEF Disk!CollectTree, RunsInv
  <2>2. \A q \in Processes : q # p => proc'[q] = proc[q]
    BY <1>3, StepsMove DEF Alone
  <2>3. CASE proc[p].target \in DOMAIN dirs
    <3>1. PICK d : d = proc[p].target
      OBVIOUS
    <3>2. proc' = [proc EXCEPT ![p].pc = "remove", ![p].tree = dirs[d].files \cup {"directory"}]
      BY <1>3, <2>3, <3>1 DEF Disk!CollectTree
    <3>3. proc'[p].pc = "remove" /\ proc'[p].target = d /\ proc'[p].tree = dirs[d].files \cup {"directory"}
      BY <2>1, <3>1, <3>2 DEF IsServer
    <3> QED
      BY <2>1, <2>2, <2>3, <3>1, <3>3 DEF RunsAreOwned, Disk!Owned
  <2>4. CASE proc[p].target \notin DOMAIN dirs
    <3>1. proc'[p].pc = "clean"
      BY <1>3, <2>1, <2>4, Moved DEF Disk!CollectTree
    <3> QED
      BY <2>1, <2>2, <3>1, OwnedStays
  <2> QED
    BY <2>3, <2>4
<1>4. ASSUME NEW p \in Processes, Disk!RemoveEntry(p)
      PROVE  RunsAreOwned'
  BY <1>4, RemovalWorks
<1>5. ASSUME NEW p \in Processes, Disk!MakeRun(p)
      PROVE  RunsAreOwned'
  <2>1. /\ UNCHANGED blame /\ proc[p].pc = "make" /\ ~Over(p) /\ IsServer(proc[p])
        /\ DOMAIN dirs \subseteq Processes
    BY <1>5 DEF Disk!MakeRun, RunsInv, InPhase, IsServer, Over
  <2>2. proc'[p].pc \in {"make", "serve"} /\ \A q \in Processes : q # p => proc'[q] = proc[q]
    BY <1>5, StepsMove DEF Alone
  <2>3. /\ DOMAIN dirs' \subseteq DOMAIN dirs \cup {p}
        /\ \A q \in DOMAIN dirs : q # p => q \in DOMAIN dirs' /\ dirs'[q] = dirs[q]
    BY <1>5 DEF Disk!MakeRun
  <2>4. proc'[p].pc = "serve" => UNCHANGED dirs /\ p \in DOMAIN dirs /\ Disk!Missing(p) = {}
    BY <1>5, <2>1 DEF Disk!MakeRun
  <2>5. proc'[p].pc = "serve" => Disk!Owned(p)'
    BY <2>4 DEF Disk!Missing, Disk!Owned
  <2> QED
    BY <2>1, <2>2, <2>3, <2>5, OwnedStays
<1>6. ASSUME NEW p \in Processes, Disk!Stop(p)
      PROVE  RunsAreOwned'
  <2>1. /\ UNCHANGED blame /\ proc[p].pc = "serve" /\ DOMAIN dirs \subseteq Processes
        /\ dirs' = [dirs EXCEPT ![p].status = "stopped"]
    BY <1>6 DEF Disk!Stop, RunsInv
  <2>2. proc'[p].pc \in {"lock", "stopped"} /\ \A q \in Processes : q # p => proc'[q] = proc[q]
    BY <1>6, StepsMove DEF Alone
  <2>3. DOMAIN dirs' = DOMAIN dirs /\ \A q \in DOMAIN dirs : dirs'[q].files = dirs[q].files
    BY <2>1 DEF RunsInv, IsDirectory
  <2> QED
    BY <2>1, <2>2, <2>3, OwnedStays
<1>7. ASSUME NEW p \in Processes,
             \/ Disk!LockBreaks(p) \/ Disk!RemovalBreaks(p) \/ Disk!StartBreaks(p) \/ Disk!Crash(p)
      PROVE  RunsAreOwned'
  <2>1. blame' # {}
    BY <1>7 DEF Disk!LockBreaks, Disk!RemovalBreaks, Disk!StartBreaks, Disk!Crash, Disk!Errs
  <2> QED
    BY <2>1 DEF RunsAreOwned
<1>8. ASSUME NEW p \in Processes, Disk!Exit(p)
      PROVE  RunsAreOwned'
  <2>1. UNCHANGED <<dirs, blame>> /\ proc[p].pc = "stopped" /\ DOMAIN dirs \subseteq Processes
    BY <1>8 DEF Disk!Exit, RunsInv
  <2>2. proc'[p].pc = "gone" /\ \A q \in Processes : q # p => proc'[q] = proc[q]
    BY <1>8, EndsMove
  <2> QED
    BY <2>1, <2>2, OwnedStays
<1>9. ASSUME NEW p \in Processes, NEW d \in Processes, Disk!Examine(p, d)
      PROVE  RunsAreOwned'
  <2>1. UNCHANGED <<dirs, blame>> /\ DOMAIN dirs \subseteq Processes
    BY <1>9 DEF Disk!Examine, RunsInv
  <2>2. /\ proc[p].pc = "clean" /\ proc'[p].pc \in {"clean", "collect"}
        /\ \A q \in Processes : q # p => proc'[q] = proc[q]
    BY <1>9, ExaminesMove
  <2> QED
    BY <2>1, <2>2, OwnedStays
<1>10. ASSUME UNCHANGED <<dirs, proc, blame>>
       PROVE  RunsAreOwned'
  BY <1>10, OwnedStays
<1>11. ASSUME NEW p, Disk!ReadCase("w", p) \/ Disk!Compare("w") \/ UNCHANGED runtimeVars
       PROVE  RunsAreOwned'
  BY <1>10, <1>11 DEF Disk!ReadCase, Disk!Compare, runtimeVars
<1>12. CASE Disk!MakeStateDirectory("w") \/ Disk!RenameIntoPlace("w") \/ Disk!Touch("w")
  <2>1. PICK p : p = save["w"].by
    OBVIOUS
  <2>2. "w" \in {"w"}
    OBVIOUS
  <2>3. /\ p \in Processes /\ proc[p].pc \notin {"new", "gone"} /\ UNCHANGED proc /\ Disk!Late(p)
    BY <1>12, <2>1, <2>2, WritesGo
  <2>4. CASE dirs' = dirs
    <3>1. blame' = {} => blame = {}
      BY <2>3 DEF Disk!Late
    <3> QED
      BY <2>3, <2>4, <3>1, OwnedStays
  <2>5. CASE proc[p].pc # "serve"
    <3>1. blame' # {}
      BY <2>3, <2>5 DEF Disk!Late
    <3> QED
      BY <3>1 DEF RunsAreOwned
  <2>6. CASE dirs' # dirs /\ proc[p].pc = "serve"
    <3>1. /\ DOMAIN dirs' = DOMAIN dirs \cup {p} /\ \A q \in DOMAIN dirs : q # p => dirs'[q] = dirs[q]
          /\ p \in DOMAIN dirs => dirs[p].files \subseteq dirs'[p].files
      BY <1>12, <2>1, <2>2, <2>6, WritesLand
    <3>2. p \in DOMAIN dirs /\ ~Over(p) /\ DOMAIN dirs \subseteq Processes
      BY <2>3, <2>6 DEF RunsInv, InPhase, Whole, Over, IsServer
    <3>3. blame' = blame
      BY <2>3, <2>6 DEF Disk!Late
    <3> QED
      BY <2>3, <3>1, <3>2, <3>3, OwnedStays
  <2> QED
    BY <2>4, <2>5, <2>6
<1>13. ASSUME NEW d \in Processes, Disk!Age(d)
       PROVE  RunsAreOwned'
  <2>1. /\ UNCHANGED <<proc, blame>> /\ DOMAIN dirs' = DOMAIN dirs
        /\ \A q \in DOMAIN dirs : dirs'[q].files = dirs[q].files
    BY <1>13 DEF Disk!Age, RunsInv, IsDirectory
  <2> QED
    BY <2>1, OwnedStays
<1> QED
  BY <1>1, <1>2, <1>3, <1>4, <1>5, <1>6, <1>7, <1>8, <1>9, <1>11, <1>12, <1>13 DEF Disk!RuntimeNext

LEMMA DiskKeeps ==
  ASSUME DiskInv, [Disk!RuntimeNext]_runtimeVars
  PROVE  DiskInv'
  BY DiskRunsKeep, LockKeeps, SavedKeeps, OwnedKeeps DEF DiskInv

LEMMA DiskIsKept ==
  ASSUME DiskInv
  PROVE  Disk!LockIsTheCleanup /\ Disk!RunInUseIsKept /\ Disk!LeftoversAreOwned
<1>1. Disk!LockIsTheCleanup
  BY DEF DiskInv, LockInv
<1>2. ASSUME NEW p \in Processes, proc[p].pc = "serve"
      PROVE  /\ p \in DOMAIN dirs /\ {"marker", "manifest", "state"} \subseteq dirs[p].files
             /\ dirs[p].status = "active"
  BY <1>2 DEF DiskInv, RunsInv, InPhase, Whole
<1>3. ASSUME save["w"].pc = "saved", proc[save["w"].by].pc = "serve"
      PROVE  Disk!Revision(save["w"].by) > save["w"].base
  BY <1>3 DEF DiskInv, SavedIsKept, Disk!Revision
<1>4. Disk!RunInUseIsKept
  BY <1>2, <1>3 DEF Disk!RunInUseIsKept
<1>5. Disk!LeftoversAreOwned
  <2> SUFFICES ASSUME blame = {}, NEW d \in DOMAIN dirs, ~Disk!Alive(d) \/ proc[d].pc = "stopped"
               PROVE  \/ Disk!Owned(d)
                      \/ \E p \in Processes : proc[p].pc = "remove" /\ proc[p].target = d
    BY DEF Disk!LeftoversAreOwned
  <2> QED
    BY DEF DiskInv, RunsAreOwned, Disk!Alive
<1> QED
  BY <1>1, <1>4, <1>5

-----------------------------------------------------------------------------
(* The store: one process, and all its saves.                              *)
LEMMA SameSteps ==
  ASSUME NEW p, NEW w
  PROVE  /\ Store!WriteRootMarker(p) <=> Disk!WriteRootMarker(p)
         /\ Store!TakeLock(p) <=> Disk!TakeLock(p)
         /\ Store!CollectTree(p) <=> Disk!CollectTree(p)
         /\ Store!RemoveEntry(p) <=> Disk!RemoveEntry(p)
         /\ Store!Unlock(p) <=> Disk!Unlock(p)
         /\ Store!MakeRun(p) <=> Disk!MakeRun(p)
         /\ Store!Stop(p) <=> Disk!Stop(p)
         /\ Store!Age(p) <=> Disk!Age(p)
         /\ Store!ReadCase(w, p) <=> Disk!ReadCase(w, p)
         /\ \A pc : Store!SaveGoes(w, pc) <=> Disk!SaveGoes(w, pc)
         /\ Store!MakeStateDirectory(w) <=> Disk!MakeStateDirectory(w)
         /\ Store!RenameIntoPlace(w) <=> Disk!RenameIntoPlace(w)
         /\ Store!Touch(w) <=> Disk!Touch(w)
<1>1. \A q, pc : Store!Goes(q, pc) <=> Disk!Goes(q, pc)
  BY DEF Store!Goes, Disk!Goes
<1>2. \A q : (Store!Starting(q) <=> Disk!Starting(q)) /\ (Store!Late(q) <=> Disk!Late(q))
  BY DEF Store!Starting, Disk!Starting, Store!Late, Disk!Late
<1>3. \A pc : Store!SaveGoes(w, pc) <=> Disk!SaveGoes(w, pc)
  BY DEF Store!SaveGoes, Disk!SaveGoes
<1>4. /\ Store!WriteRootMarker(p) <=> Disk!WriteRootMarker(p)
      /\ Store!TakeLock(p) <=> Disk!TakeLock(p)
      /\ Store!CollectTree(p) <=> Disk!CollectTree(p)
      /\ Store!Unlock(p) <=> Disk!Unlock(p)
  BY <1>1, <1>2 DEF Store!WriteRootMarker, Disk!WriteRootMarker, Store!TakeLock, Disk!TakeLock,
     Store!CollectTree, Disk!CollectTree, Store!Unlock, Disk!Unlock, Store!NoCleanup, Disk!NoCleanup
<1>5. Store!RemoveEntry(p) <=> Disk!RemoveEntry(p)
  BY <1>1 DEF Store!RemoveEntry, Disk!RemoveEntry, Store!First, Disk!First, Store!Removal, Disk!Removal,
     Store!Inside, Disk!Inside
<1>6. Store!MakeRun(p) <=> Disk!MakeRun(p)
  BY DEF Store!MakeRun, Disk!MakeRun, Store!Missing, Disk!Missing, Store!First, Disk!First,
     Store!Control, Disk!Control
<1>7. (Store!Stop(p) <=> Disk!Stop(p)) /\ (Store!Age(p) <=> Disk!Age(p))
  BY DEF Store!Stop, Disk!Stop, Store!Age, Disk!Age
<1>8. Store!ReadCase(w, p) <=> Disk!ReadCase(w, p)
  BY DEF Store!ReadCase, Disk!ReadCase, Store!Revision, Disk!Revision
<1>9. /\ Store!MakeStateDirectory(w) <=> Disk!MakeStateDirectory(w)
      /\ Store!RenameIntoPlace(w) <=> Disk!RenameIntoPlace(w)
      /\ Store!Touch(w) <=> Disk!Touch(w)
  BY <1>2, <1>3 DEF Store!MakeStateDirectory, Disk!MakeStateDirectory, Store!RenameIntoPlace,
     Disk!RenameIntoPlace, Store!Touch, Disk!Touch
<1> QED
  BY <1>3, <1>4, <1>5, <1>6, <1>7, <1>8, <1>9

StoreRuns == RunsInv({1}, Savers)

(* A save is late once its process has stopped or is gone, and it does not *)
(* serve again.                                                            *)
LateIsAfter ==
  "late" \in blame => proc[1].pc \notin {"new", "serve"} /\ proc[1].status # "none"

LEMMA StoreRunsStart ==
  ASSUME Store!RuntimeInit
  PROVE  StoreRuns /\ LateIsAfter
  BY RunsStart DEF Store!RuntimeInit, StoreRuns, LateIsAfter

LEMMA StoreRunsKeep ==
  ASSUME StoreRuns, rootMarker \in {"none", "torn", "whole"}, [Store!RuntimeNext]_runtimeVars
  PROVE  StoreRuns'
<1>1. ASSUME NEW kind, NEW pid, Store!Start(1, kind, pid)
      PROVE  StoreRuns'
  BY <1>1, RunsKeepAtStart DEF Store!Start, StoreRuns
<1>2. ASSUME \/ Store!WriteRootMarker(1) \/ Store!TakeLock(1) \/ Store!CollectTree(1)
             \/ Store!RemoveEntry(1) \/ Store!Unlock(1)
      PROVE  StoreRuns'
  BY <1>2, SameSteps, RunsKeepOnUnlock, RunsKeepOnTakeLock, RunsKeepOnCollectTree,
     RunsKeepOnRemoveEntry DEF StoreRuns
<1>3. ASSUME Store!MakeRun(1) \/ Store!Stop(1) \/ Store!Age(1)
      PROVE  StoreRuns'
  BY <1>3, SameSteps, RunsKeepOnMakeRun, RunsKeepOnStop, RunsKeepOnAge DEF StoreRuns
<1>4. ASSUME Store!LockBreaks(1) \/ Store!RemovalBreaks(1) \/ Store!StartBreaks(1)
      PROVE  FALSE
  BY <1>4 DEF Store!LockBreaks, Store!RemovalBreaks, Store!StartBreaks, Store!Errs
<1>5. ASSUME Store!Exit(1) \/ Store!Crash(1)
      PROVE  StoreRuns'
  <2>1. proc[1].pc # "new" /\ UNCHANGED dirs /\ Store!Ended(1)
    BY <1>5 DEF Store!Exit, Store!Crash, Store!Alive
  <2> QED
    BY <2>1, RunsKeepAtEnd DEF Store!Ended, StoreRuns
<1>6. ASSUME Store!Examine(1, 1)
      PROVE  StoreRuns'
  <2>1. proc[1].pc = "clean" /\ UNCHANGED <<dirs, save>> /\ RunsInv({1}, Savers) /\ 1 \in {1}
    BY <1>6 DEF Store!Examine, StoreRuns
  <2>2. CASE 1 \in DOMAIN dirs /\ Store!Owned(1) /\ Store!Expires(1, 1)
    <3>1. ~(dirs[1].status = "active" /\ Disk!Alive(1))
      BY <2>2 DEF Store!Expires, Store!PidAlive, Store!Alive, Disk!Alive
    <3>2. Over(1)
      BY <2>1, <2>2, <3>1, TargetIsOver
    <3>3. proc' = [proc EXCEPT ![1] =
            [proc[1] EXCEPT !.todo = proc[1].todo \ {1}, !.pc = "collect", !.target = 1]]
      BY <1>6, <2>2 DEF Store!Examine
    <3> QED
      BY <2>1, <3>2, <3>3, RunsKeepOnExamine DEF StoreRuns
  <2>3. CASE ~(1 \in DOMAIN dirs /\ Store!Owned(1) /\ Store!Expires(1, 1))
    <3>1. proc' = [proc EXCEPT ![1] = [proc[1] EXCEPT !.todo = proc[1].todo \ {1}]]
      BY <1>6, <2>3 DEF Store!Examine
    <3> QED
      BY <2>1, <3>1, RunsKeepOnExamine DEF StoreRuns
  <2> QED
    BY <2>2, <2>3
<1>7. ASSUME NEW w \in Savers, Store!ReadCase(w, 1)
      PROVE  StoreRuns'
  BY <1>7, SameSteps, RunsKeepOnReadCase DEF Disk!ReadCase, StoreRuns
<1>8. ASSUME NEW w \in Savers, Store!Compare(w)
      PROVE  StoreRuns'
  <2>1. Disk!SaveGoes(w, "mkdir") \/ Disk!SaveGoes(w, "conflict")
    BY <1>8, SameSteps DEF Store!Compare
  <2>2. save[w].pc = "compare" /\ UNCHANGED <<proc, dirs>>
    BY <1>8 DEF Store!Compare
  <2> QED
    BY <2>1, <2>2, RunsKeepOnReadCase DEF StoreRuns
<1>9. ASSUME NEW w \in Savers,
             Store!MakeStateDirectory(w) \/ Store!RenameIntoPlace(w) \/ Store!Touch(w)
      PROVE  StoreRuns'
  BY <1>9, SameSteps, RunsKeepOnWrites DEF StoreRuns
<1>10. CASE UNCHANGED runtimeVars
  <2>1. UNCHANGED <<proc, dirs, save>> /\ DOMAIN save' = Savers
        /\ \A w \in Savers : save'[w] = [pc |-> "idle"] \/ IsSave(save'[w], {1})
    BY <1>10 DEF runtimeVars, StoreRuns, RunsInv, SaveFits
  <2> QED
    BY <2>1, OnlySaves DEF StoreRuns
<1> QED
  BY <1>1, <1>2, <1>3, <1>4, <1>5, <1>6, <1>7, <1>8, <1>9, <1>10 DEF Store!RuntimeNext

LEMMA LateKeeps ==
  ASSUME StoreRuns, LateIsAfter, [Store!RuntimeNext]_runtimeVars
  PROVE  LateIsAfter'
<1> SUFFICES ASSUME "late" \in blame'
             PROVE  proc'[1].pc \notin {"new", "serve"} /\ proc'[1].status # "none"
  BY DEF LateIsAfter
<1>1. /\ DOMAIN proc = {1} /\ InPhase(1) /\ RunsInv({1}, Savers)
      /\ proc[1].pc # "new" => IsServer(proc[1])
  BY DEF StoreRuns, RunsInv
<1>2. CASE "late" \notin blame
  <2>1. PICK w \in Savers :
          Store!MakeStateDirectory(w) \/ Store!RenameIntoPlace(w) \/ Store!Touch(w)
    BY <1>2 DEF Store!RuntimeNext, Store!Start, Store!WriteRootMarker, Store!TakeLock,
       Store!CollectTree, Store!RemoveEntry, Store!Unlock, Store!MakeRun, Store!Stop, Store!Exit,
       Store!Crash, Store!LockBreaks, Store!RemovalBreaks, Store!StartBreaks, Store!Errs, Store!Age,
       Store!Examine, Store!ReadCase, Store!Compare, runtimeVars
  <2>2. PICK p : p = save[w].by
    OBVIOUS
  <2>3. Disk!MakeStateDirectory(w) \/ Disk!RenameIntoPlace(w) \/ Disk!Touch(w)
    BY <2>1, SameSteps
  <2>4. /\ p \in {1} /\ proc[p].pc \notin {"new", "gone"} /\ proc[p].status \in {"active", "stopped"}
        /\ UNCHANGED proc /\ Disk!Late(p)
    BY <1>1, <2>2, <2>3, WritesGo
  <2> QED
    BY <1>2, <2>4 DEF Disk!Late
<1>3. CASE "late" \in blame
  <2>1. proc[1].pc \notin {"new", "serve"} /\ proc[1].status # "none" /\ IsServer(proc[1])
    BY <1>1, <1>3 DEF LateIsAfter
  <2>2. proc[1].pc # "make"
    BY <1>1, <2>1 DEF InPhase, IsServer
  <2>3. ASSUME \/ Store!WriteRootMarker(1) \/ Store!TakeLock(1) \/ Store!CollectTree(1)
               \/ Store!RemoveEntry(1) \/ Store!Unlock(1) \/ Store!MakeRun(1) \/ Store!Stop(1)
        PROVE  proc'[1].pc \notin {"new", "serve"} /\ proc'[1].status # "none"
    <3>1. \/ Disk!WriteRootMarker(1) \/ Disk!TakeLock(1) \/ Disk!CollectTree(1)
          \/ Disk!RemoveEntry(1) \/ Disk!Unlock(1) \/ Disk!MakeRun(1) \/ Disk!Stop(1)
      BY <2>3, SameSteps
    <3>2. 1 \in {1}
      OBVIOUS
    <3>3. Alone(1, {1}) /\ proc'[1].pc \notin {"new", "serve"}
      BY <1>1, <2>1, <2>2, <3>1, <3>2, StepsMove
    <3> QED
      BY <2>1, <3>3 DEF Alone
  <2>4. ASSUME Store!LockBreaks(1) \/ Store!RemovalBreaks(1) \/ Store!StartBreaks(1)
        PROVE  FALSE
    BY <2>4 DEF Store!LockBreaks, Store!RemovalBreaks, Store!StartBreaks, Store!Errs
  <2>5. ASSUME Store!Exit(1) \/ Store!Crash(1)
        PROVE  proc'[1].pc \notin {"new", "serve"} /\ proc'[1].status # "none"
    <3>1. Store!Ended(1)
      BY <2>5 DEF Store!Exit, Store!Crash
    <3> QED
      BY <1>1, <2>1, <3>1 DEF Store!Ended, IsServer
  <2>6. ASSUME Store!Examine(1, 1)
        PROVE  proc'[1].pc \notin {"new", "serve"} /\ proc'[1].status # "none"
    BY <1>1, <2>1, <2>6 DEF Store!Examine, IsServer
  <2>7. CASE UNCHANGED proc
    BY <2>1, <2>7
  <2>8. ASSUME NEW w,
               \/ Store!ReadCase(w, 1) \/ Store!Compare(w) \/ Store!MakeStateDirectory(w)
               \/ Store!RenameIntoPlace(w) \/ Store!Touch(w) \/ Store!Age(1) \/ UNCHANGED runtimeVars
        PROVE  UNCHANGED proc
    BY <2>8 DEF Store!ReadCase, Store!Compare, Store!MakeStateDirectory, Store!RenameIntoPlace,
                Store!Touch, Store!Age, runtimeVars
  <2>9. ASSUME NEW kind, NEW pid, Store!Start(1, kind, pid)
        PROVE  FALSE
    BY <2>1, <2>9 DEF Store!Start
  <2> QED
    BY <2>3, <2>4, <2>5, <2>6, <2>7, <2>8, <2>9 DEF Store!RuntimeNext
<1> QED
  BY <1>2, <1>3

LEMMA StoreRunIsKept ==
  ASSUME StoreRuns, LateIsAfter, StoreInv
  PROVE  Store!RunInUseIsKept
<1>1. ASSUME proc[1].pc = "serve"
      PROVE  /\ 1 \in DOMAIN dirs /\ {"marker", "manifest", "state"} \subseteq dirs[1].files
             /\ dirs[1].status = "active"
  BY <1>1 DEF StoreRuns, RunsInv, InPhase, Whole
<1>2. ASSUME NEW w \in Savers, save[w].pc = "saved", proc[save[w].by].pc = "serve"
      PROVE  Store!Revision(save[w].by) > save[w].base
  <2>1. save[w].by = 1 /\ save[w].base \in Nat
    BY <1>2 DEF StoreRuns, RunsInv, SaveFits, IsSave
  <2>2. "late" \notin blame
    BY <1>2, <2>1 DEF LateIsAfter
  <2>3. save[w].base < Store!Revision(1)
    BY <1>2, <2>1, <2>2 DEF StoreInv, RevisionsGrow
  <2>4. Store!Revision(1) \in Nat
    BY DEF StoreInv, StoreTyped, DirectoriesTyped, IsDirectory, Store!Revision
  <2> QED
    BY <2>1, <2>3, <2>4
<1> QED
  BY <1>1, <1>2 DEF Store!RunInUseIsKept

-----------------------------------------------------------------------------
(* The live analysis.  A result that is remembered is the one its own      *)
(* request was answered; one request runs at a time, and which stages of a *)
(* request are paid for follows from how far it came.                      *)
Busy(p) == post[p].pc \in {"reserve", "call", "compose"}

AnalysisPost ==
  [pc : {"unsent", "reserve", "call", "compose", "done"}, key : PostKeys \cup {Null},
   payload : Payloads \cup {Null}, stage : 0 .. 4, answer : Posts \cup {Null}]

PostsTyped ==
  /\ post \in [Posts -> AnalysisPost] /\ running \in BOOLEAN
  /\ \A p \in Posts : post[p].pc # "done" => post[p].answer = Null
  /\ \A p \in Posts : Busy(p) => post[p].key \in PostKeys /\ post[p].stage \in 1 .. 4

OneRuns ==
  /\ \A p, q \in Posts : Busy(p) /\ Busy(q) => p = q
  /\ running <=> \E p \in Posts : Busy(p)

IsCompleted(x) == x = [payload |-> x.payload, answer |-> x.answer] /\ x.answer \in Posts

CompletedAreTheirs ==
  /\ DOMAIN completed \subseteq PostKeys
  /\ \A key \in DOMAIN completed :
       LET a == completed[key].answer IN
       /\ IsCompleted(completed[key])
       /\ post[a].pc = "done" /\ post[a].answer = a
       /\ post[a].key = key /\ post[a].payload = completed[key].payload
  /\ \A p \in Posts : Busy(p) => post[p].key \notin DOMAIN completed

AnswersAreCompleted ==
  \A p \in Posts : post[p].answer # Null =>
    /\ post[p].key \in DOMAIN completed
    /\ completed[post[p].key] = [payload |-> post[p].payload, answer |-> post[p].answer]

(* The stages of p that were paid for.                                     *)
Paying(p) ==
  CASE post[p].pc = "unsent" -> {}
    [] post[p].pc \in {"reserve", "call"} -> 1 .. post[p].stage - 1
    [] post[p].pc = "compose" -> 1 .. 4
    [] OTHER -> IF post[p].answer = p THEN 1 .. 4 ELSE {}

IsBudget(b) ==
  b = [reserved |-> b.reserved, actual |-> b.actual, unknownUsage |-> b.unknownUsage,
       active |-> b.active, settled |-> b.settled]

StagesArePaid ==
  /\ IsBudget(budget)
  /\ \A p \in Posts : post[p].pc # "done" \/ post[p].answer # Null =>
       \A s \in 1 .. 4 : <<p, s>> \in budget.settled <=> s \in Paying(p)
  /\ DOMAIN budget.active = {<<p, post[p].stage>> : p \in {q \in Posts : post[q].pc = "call"}}

IsFollowUp(x) ==
  /\ x = [binding |-> x.binding, view |-> x.view]
  /\ x.view.base \in Posts /\ post[x.view.base].pc = "done"

BasesAreDone ==
  /\ liveBase # Null => liveBase = [base |-> liveBase.base, revision |-> liveBase.revision]
  /\ liveBase # Null => liveBase.base \in Posts /\ post[liveBase.base].pc = "done"
  /\ \A key \in DOMAIN followed : IsFollowUp(followed[key])

OneViewPerBase ==
  /\ \A k, l \in DOMAIN followed : followed[k].view.base = followed[l].view.base => k = l
  /\ liveBase # Null /\ liveBase.revision = 0 =>
       \A k \in DOMAIN followed : followed[k].view.base # liveBase.base

FollowUpsAreTheirs ==
  /\ DOMAIN follow = FollowUps
  /\ \A f \in FollowUps : follow[f] # Null =>
       /\ follow[f].key \in DOMAIN followed
       /\ followed[follow[f].key] = [binding |-> follow[f].asked, view |-> follow[f].view]

LiveInv ==
  /\ PostsTyped
  /\ OneRuns
  /\ CompletedAreTheirs
  /\ AnswersAreCompleted
  /\ StagesArePaid
  /\ BasesAreDone
  /\ OneViewPerBase
  /\ FollowUpsAreTheirs

LEMMA FourStages ==
  DOMAIN StageAsks = 1 .. 4 /\ Len(StageAsks) = 4
  BY DEF StageAsks

LEMMA LiveStarts ==
  ASSUME Paid!LiveAnalysisAssumption, Paid!LiveInit
  PROVE  LiveInv
<1>1. \A p \in Posts : post[p] = Paid!Waiting
  BY DEF Paid!LiveInit
<1>2. Paid!Waiting \in AnalysisPost /\ \A p \in Posts : ~Busy(p)
  BY <1>1 DEF Paid!Waiting, AnalysisPost, Busy
<1>3. PostsTyped /\ OneRuns
  BY <1>1, <1>2 DEF PostsTyped, OneRuns, Paid!LiveInit, Paid!Waiting
<1>4. CompletedAreTheirs /\ AnswersAreCompleted
  BY <1>1, <1>2 DEF CompletedAreTheirs, AnswersAreCompleted, Paid!LiveInit, Paid!Waiting
<1>5. StagesArePaid
  BY <1>1 DEF StagesArePaid, IsBudget, Paying, Paid!LiveInit, Paid!Waiting, Paid!EmptyBudget
<1>6. BasesAreDone /\ OneViewPerBase /\ FollowUpsAreTheirs
  BY DEF BasesAreDone, OneViewPerBase, FollowUpsAreTheirs, Paid!LiveInit
<1> QED
  BY <1>3, <1>4, <1>5, <1>6 DEF LiveInv

(* What a step of the request p leaves alone.                              *)
LEMMA RestStaysWithPost ==
  ASSUME LiveInv, NEW p \in Posts, post[p].pc # "done",
         DOMAIN post' = Posts, \A q \in Posts : q # p => post'[q] = post[q],
         UNCHANGED <<followed, follow>>
  PROVE  /\ liveBase' = liveBase => BasesAreDone' /\ OneViewPerBase'
         /\ FollowUpsAreTheirs'
<1>1. FollowUpsAreTheirs'
  BY DEF LiveInv, FollowUpsAreTheirs
<1>2. ASSUME liveBase' = liveBase PROVE BasesAreDone' /\ OneViewPerBase'
  BY <1>2 DEF LiveInv, BasesAreDone, OneViewPerBase, IsFollowUp
<1> QED
  BY <1>1, <1>2

(* The request p is answered from the completed ones, or closed.           *)
LEMMA PostIsOver ==
  ASSUME Paid!LiveAnalysisAssumption, LiveInv, NEW p \in Posts, post[p].pc = "unsent",
         UNCHANGED <<running, completed, budget, liveBase, followed, follow>>,
         NEW new \in AnalysisPost, post' = [post EXCEPT ![p] = new], new.pc = "done",
         \/ new.answer = Null
         \/ /\ new.key \in DOMAIN completed
            /\ completed[new.key].payload = new.payload
            /\ completed[new.key].answer = new.answer
  PROVE  LiveInv'
<1>0. /\ DOMAIN post' = Posts /\ \A q \in Posts : q # p => post'[q] = post[q]
      /\ post'[p] = new /\ post' \in [Posts -> AnalysisPost]
  BY DEF LiveInv, PostsTyped
<1>1. PostsTyped'
  BY <1>0 DEF LiveInv, PostsTyped, Busy
<1>2. OneRuns'
  BY <1>0 DEF LiveInv, OneRuns, Busy
<1>3. CompletedAreTheirs'
  BY <1>0 DEF LiveInv, CompletedAreTheirs, Busy
<1>4. AnswersAreCompleted'
  BY <1>0 DEF LiveInv, AnswersAreCompleted, CompletedAreTheirs, IsCompleted
<1>5. StagesArePaid'
  <2>1. \A q \in Posts : q # p => Paying(q)' = Paying(q)
    BY <1>0 DEF Paying
  <2>2. post'[p].answer # Null => Paying(p)' = {} /\ Paying(p) = {}
    <3>1. post'[p].answer # p
      BY <1>0 DEF LiveInv, CompletedAreTheirs, Paid!LiveAnalysisAssumption
    <3> QED
      BY <1>0, <3>1 DEF Paying
  <2>3. {q \in Posts : post[q].pc = "call"}' = {q \in Posts : post[q].pc = "call"}
    BY <1>0
  <2>4. \A q \in {r \in Posts : post[r].pc = "call"} : post'[q] = post[q]
    BY <1>0
  <2> QED
    BY <1>0, <2>1, <2>2, <2>3, <2>4 DEF LiveInv, StagesArePaid
<1>6. BasesAreDone' /\ OneViewPerBase' /\ FollowUpsAreTheirs'
  BY <1>0, RestStaysWithPost
<1> QED
  BY <1>1, <1>2, <1>3, <1>4, <1>5, <1>6 DEF LiveInv

LEMMA PostBegins ==
  ASSUME Paid!LiveAnalysisAssumption, LiveInv, NEW p \in Posts, post[p].pc = "unsent",
         UNCHANGED <<completed, budget, liveBase, followed, follow>>,
         NEW new \in AnalysisPost, post' = [post EXCEPT ![p] = new], new.pc = "reserve", new.answer = Null,
         new.stage = 1, new.key \in PostKeys \ DOMAIN completed,
         ~running, running'
  PROVE  LiveInv'
<1>0. /\ DOMAIN post' = Posts /\ \A q \in Posts : q # p => post'[q] = post[q]
      /\ post'[p] = new /\ post' \in [Posts -> AnalysisPost]
  BY DEF LiveInv, PostsTyped
<1>1. PostsTyped'
  BY <1>0 DEF LiveInv, PostsTyped, Busy
<1>2. OneRuns'
  BY <1>0 DEF LiveInv, OneRuns, Busy
<1>3. CompletedAreTheirs'
  BY <1>0 DEF LiveInv, CompletedAreTheirs, Busy
<1>4. AnswersAreCompleted'
  BY <1>0 DEF LiveInv, AnswersAreCompleted
<1>5. StagesArePaid'
  <2>1. \A q \in Posts : q # p => Paying(q)' = Paying(q)
    BY <1>0 DEF Paying
  <2>2. Paying(p)' = {} /\ Paying(p) = {}
    BY <1>0 DEF Paying
  <2>3. {q \in Posts : post[q].pc = "call"}' = {q \in Posts : post[q].pc = "call"}
    BY <1>0
  <2>4. \A q \in {r \in Posts : post[r].pc = "call"} : post'[q] = post[q]
    BY <1>0
  <2> QED
    BY <1>0, <2>1, <2>2, <2>3, <2>4 DEF LiveInv, StagesArePaid
<1>6. BasesAreDone' /\ OneViewPerBase' /\ FollowUpsAreTheirs'
  BY <1>0, RestStaysWithPost
<1> QED
  BY <1>1, <1>2, <1>3, <1>4, <1>5, <1>6 DEF LiveInv

LEMMA PostAtStage ==
  ASSUME NEW r \in AnalysisPost, NEW key \in PostKeys, NEW payload \in Payloads, NEW n \in 0 .. 4
  PROVE  [r EXCEPT !.pc = "reserve", !.key = key, !.payload = payload, !.stage = n] \in AnalysisPost
  BY DEF AnalysisPost

LEMMA PostKeeps ==
  ASSUME Paid!LiveAnalysisAssumption, LiveInv, NEW p \in Posts, NEW key \in PostKeys,
         NEW payload \in Payloads, NEW refused \in BOOLEAN,
         Paid!PostAnalysis(p, key, payload, refused)
  PROVE  LiveInv'
<1>1. /\ post[p].pc = "unsent" /\ post[p] \in AnalysisPost /\ post[p].answer = Null
      /\ DOMAIN post = Posts /\ UNCHANGED <<completed, budget, liveBase, followed, follow>>
      /\ running \in BOOLEAN
  BY DEF Paid!PostAnalysis, Paid!Arrives, LiveInv, PostsTyped
<1>2. running' = (running \/ post'[p].pc = "reserve")
  BY DEF Paid!PostAnalysis
<1>3. CASE key \in DOMAIN completed /\ completed[key].payload = payload
  <2>1. post' = [post EXCEPT ![p] = [@ EXCEPT !.pc = "done", !.key = key, !.payload = payload,
                                       !.answer = completed[key].answer]]
    BY <1>3 DEF Paid!PostAnalysis
  <2>2. completed[key].answer \in Posts
    BY <1>3 DEF LiveInv, CompletedAreTheirs, IsCompleted
  <2>3. [post[p] EXCEPT !.pc = "done", !.key = key, !.payload = payload,
          !.answer = completed[key].answer] \in AnalysisPost
    BY <1>1, <2>2 DEF AnalysisPost
  <2>4. /\ post'[p].pc = "done" /\ post'[p].key = key
        /\ post'[p].payload = payload /\ post'[p].answer = completed[key].answer
    BY <1>1, <2>1, <2>3 DEF AnalysisPost
  <2>5. running' = running
    BY <1>1, <1>2, <2>4
  <2> QED
    BY <1>1, <1>3, <2>1, <2>3, <2>4, <2>5, PostIsOver
<1>4. CASE \/ key \in DOMAIN completed /\ completed[key].payload # payload
           \/ key \notin DOMAIN completed /\ (running \/ refused)
  <2>1. post' = [post EXCEPT ![p] = [@ EXCEPT !.pc = "done"]]
    BY <1>4 DEF Paid!PostAnalysis
  <2>2. [post[p] EXCEPT !.pc = "done"] \in AnalysisPost
    BY <1>1 DEF AnalysisPost
  <2>3. /\ post'[p].pc = "done" /\ post'[p].answer = Null
    BY <1>1, <2>1, <2>2 DEF AnalysisPost
  <2>4. running' = running
    BY <1>1, <1>2, <2>3
  <2> QED
    BY <1>1, <2>1, <2>2, <2>3, <2>4, PostIsOver
<1>5. CASE key \notin DOMAIN completed /\ ~running /\ ~refused
  <2>1. post' = [post EXCEPT ![p] =
          [@ EXCEPT !.pc = "reserve", !.key = key, !.payload = payload, !.stage = 1]]
    BY <1>5 DEF Paid!PostAnalysis
  <2>2. [post[p] EXCEPT !.pc = "reserve", !.key = key, !.payload = payload, !.stage = 1]
          \in AnalysisPost
    <3>1. 1 \in 0 .. 4
      OBVIOUS
    <3> QED
      BY <1>1, <3>1, PostAtStage
  <2>3. /\ post'[p].pc = "reserve" /\ post'[p].answer = Null
        /\ post'[p].key = key /\ post'[p].stage = 1
    BY <1>1, <2>1, <2>2 DEF AnalysisPost
  <2> QED
    BY <1>1, <1>2, <1>5, <2>1, <2>2, <2>3, PostBegins
<1> QED
  BY <1>3, <1>4, <1>5

LEMMA BusyRuns ==
  ASSUME LiveInv, NEW p \in Posts, Busy(p)
  PROVE  /\ post[p] \in AnalysisPost /\ post[p].key \in PostKeys /\ post[p].stage \in 1 .. 4
         /\ post[p].answer = Null /\ post[p].key \notin DOMAIN completed
         /\ running /\ \A q \in Posts : q # p => ~Busy(q)
         /\ DOMAIN budget.active = IF post[p].pc = "call" THEN {<<p, post[p].stage>>} ELSE {}
<1>1. post[p] \in AnalysisPost /\ post[p].key \in PostKeys /\ post[p].stage \in 1 .. 4
  BY DEF LiveInv, PostsTyped
<1>2. post[p].answer = Null /\ post[p].key \notin DOMAIN completed
  BY DEF LiveInv, PostsTyped, CompletedAreTheirs, Busy
<1>3. running /\ \A q \in Posts : q # p => ~Busy(q)
  BY DEF LiveInv, OneRuns
<1>4. DOMAIN budget.active = IF post[p].pc = "call" THEN {<<p, post[p].stage>>} ELSE {}
  <2>1. \A q \in Posts : post[q].pc = "call" => q = p
    BY <1>3 DEF Busy
  <2> QED
    BY <2>1 DEF LiveInv, StagesArePaid
<1> QED
  BY <1>1, <1>2, <1>3, <1>4

(* The run goes to its next stage, or ends without an answer.              *)
LEMMA RunGoes ==
  ASSUME LiveInv, NEW p \in Posts, Busy(p), NEW new \in AnalysisPost,
         post' = [post EXCEPT ![p] = new], new.key = post[p].key, new.answer = Null,
         new.stage \in 1 .. 4, new.pc \in {"reserve", "call", "compose", "done"},
         running' = (new.pc # "done"), UNCHANGED <<completed, liveBase, followed, follow>>,
         IsBudget(budget'), budget'.settled \in {budget.settled, budget.settled \cup {<<p, post[p].stage>>}},
         DOMAIN budget'.active = IF new.pc = "call" THEN {<<p, new.stage>>} ELSE {},
         new.pc = "done" \/ \A s \in 1 .. 4 : <<p, s>> \in budget'.settled <=> s \in Paying(p)'
  PROVE  LiveInv'
<1>1. /\ DOMAIN post' = Posts /\ \A q \in Posts : q # p => post'[q] = post[q]
      /\ post'[p] = new /\ post' \in [Posts -> AnalysisPost]
  BY DEF LiveInv, PostsTyped
<1>2. /\ post[p].key \in PostKeys /\ post[p].key \notin DOMAIN completed /\ post[p].answer = Null
      /\ \A q \in Posts : q # p => ~Busy(q)
  BY BusyRuns
<1>3. PostsTyped'
  BY <1>1, <1>2 DEF LiveInv, PostsTyped, Busy
<1>4. OneRuns'
  <2>1. \A q \in Posts : q # p => ~Busy(q)'
    BY <1>1, <1>2 DEF Busy
  <2>2. Busy(p)' <=> new.pc # "done"
    BY <1>1 DEF Busy
  <2>3. running' <=> new.pc # "done"
    OBVIOUS
  <2> QED
    BY <2>1, <2>2, <2>3 DEF OneRuns
<1>5. CompletedAreTheirs'
  BY <1>1, <1>2 DEF LiveInv, CompletedAreTheirs, Busy
<1>6. AnswersAreCompleted'
  BY <1>1 DEF LiveInv, AnswersAreCompleted
<1>7. StagesArePaid'
  <2>1. \A q \in Posts : q # p => Paying(q)' = Paying(q)
    BY <1>1 DEF Paying
  <2>2. \A q \in Posts : q # p => \A s \in 1 .. 4 :
          <<q, s>> \in budget'.settled <=> <<q, s>> \in budget.settled
    OBVIOUS
  <2>3. \A q \in Posts : post'[q].pc = "call" => q = p
    BY <1>1, <1>2 DEF Busy
  <2>4. DOMAIN budget'.active = {<<q, post'[q].stage>> : q \in {r \in Posts : post'[r].pc = "call"}}
    BY <1>1, <2>3
  <2>5. \A q \in Posts : post'[q].pc # "done" \/ post'[q].answer # Null =>
          \A s \in 1 .. 4 : <<q, s>> \in budget'.settled <=> s \in Paying(q)'
    <3>1. ASSUME NEW q \in Posts, q # p, post'[q].pc # "done" \/ post'[q].answer # Null
          PROVE  \A s \in 1 .. 4 : <<q, s>> \in budget'.settled <=> s \in Paying(q)'
      <4>1. post[q].pc # "done" \/ post[q].answer # Null
        BY <1>1, <3>1
      <4>2. \A s \in 1 .. 4 : <<q, s>> \in budget.settled <=> s \in Paying(q)
        BY <4>1 DEF LiveInv, StagesArePaid
      <4> QED
        BY <2>1, <2>2, <3>1, <4>2
    <3>2. post'[p].answer = Null
      BY <1>1
    <3> QED
      BY <1>1, <3>1, <3>2
  <2> QED
    BY <2>4, <2>5 DEF StagesArePaid
<1>8. BasesAreDone' /\ OneViewPerBase' /\ FollowUpsAreTheirs'
  BY <1>1, RestStaysWithPost DEF Busy
<1> QED
  BY <1>3, <1>4, <1>5, <1>6, <1>7, <1>8 DEF LiveInv

LEMMA ReserveKeeps ==
  ASSUME LiveInv, NEW p \in Posts, Paid!ReserveStage(p)
  PROVE  LiveInv'
<1> DEFINE id == <<p, post[p].stage>>
           ask == StageAsks[post[p].stage]
<1>1. Busy(p) /\ post[p].pc = "reserve" /\ UNCHANGED <<completed, liveBase, followed, follow>>
  BY DEF Paid!ReserveStage, Busy
<1>2. /\ post[p] \in AnalysisPost /\ post[p].stage \in 1 .. 4 /\ post[p].answer = Null /\ running
      /\ DOMAIN budget.active = {}
  BY <1>1, BusyRuns
<1>3. IsBudget(budget) /\ \A s \in 1 .. 4 : <<p, s>> \in budget.settled <=> s \in 1 .. post[p].stage - 1
  BY <1>1 DEF LiveInv, StagesArePaid, Paying
<1>4. \A pc \in {"call", "done"} : [post[p] EXCEPT !.pc = pc] \in AnalysisPost
  BY <1>2 DEF AnalysisPost
<1>5. CASE Paid!CanReserve(budget, id, ask)
  <2>1. /\ post' = [post EXCEPT ![p] = [post[p] EXCEPT !.pc = "call"]] /\ running' = running
        /\ budget' = Paid!AfterReserve(budget, id, ask)
    BY <1>5 DEF Paid!ReserveStage, Paid!Reservation
  <2>2. /\ IsBudget(budget') /\ budget'.settled = budget.settled
        /\ DOMAIN budget'.active = {id}
    <3> HIDE DEF id, ask
    <3> QED
      BY <1>2, <1>3, <2>1 DEF Paid!AfterReserve, IsBudget
  <2>3. Paying(p)' = 1 .. post[p].stage - 1
    BY <1>2, <2>1 DEF Paying, LiveInv, PostsTyped, AnalysisPost
  <2>4. /\ [post[p] EXCEPT !.pc = "call"].key = post[p].key
        /\ [post[p] EXCEPT !.pc = "call"].answer = post[p].answer
        /\ [post[p] EXCEPT !.pc = "call"].stage = post[p].stage
        /\ [post[p] EXCEPT !.pc = "call"].pc = "call"
    BY <1>2 DEF AnalysisPost
  <2> QED
    BY <1>1, <1>2, <1>3, <1>4, <2>1, <2>2, <2>3, <2>4, RunGoes
<1>6. CASE ~Paid!CanReserve(budget, id, ask)
  <2>1. /\ post' = [post EXCEPT ![p] = [post[p] EXCEPT !.pc = "done"]] /\ running' = FALSE
        /\ budget' = budget
    BY <1>6 DEF Paid!ReserveStage, Paid!Reservation, Paid!Ends
  <2>2. IsBudget(budget')
    BY <1>3, <2>1 DEF IsBudget
  <2>4. /\ [post[p] EXCEPT !.pc = "done"].key = post[p].key
        /\ [post[p] EXCEPT !.pc = "done"].answer = post[p].answer
        /\ [post[p] EXCEPT !.pc = "done"].stage = post[p].stage
        /\ [post[p] EXCEPT !.pc = "done"].pc = "done"
    BY <1>2 DEF AnalysisPost
  <2> QED
    BY <1>1, <1>2, <1>4, <2>1, <2>2, <2>4, RunGoes
<1> QED
  BY <1>5, <1>6

(* The reservation of a call that came back is settled, whatever it used.  *)
LEMMA CallSettles ==
  ASSUME LiveInv, NEW p \in Posts, post[p].pc = "call", NEW u, NEW known,
         budget' = Paid!AfterReconcile(budget, Paid!Reservation(p), u, known)
  PROVE  /\ IsBudget(budget') /\ DOMAIN budget'.active = {}
         /\ budget'.settled = budget.settled \cup {<<p, post[p].stage>>}
<1> DEFINE id == <<p, post[p].stage>>
<1>1. DOMAIN budget.active = {id} /\ IsBudget(budget)
  BY BusyRuns DEF Busy, LiveInv, StagesArePaid
<1>2. budget' = Paid!AfterReconcile(budget, id, u, known)
  BY DEF Paid!Reservation
<1> HIDE DEF id
<1>3. IsBudget(budget') /\ budget'.settled = budget.settled \cup {id} /\ DOMAIN budget'.active = {}
  BY <1>1, <1>2 DEF Paid!AfterReconcile, IsBudget
<1> QED
  BY <1>3 DEF id

LEMMA RunEnds ==
  ASSUME LiveInv, NEW p \in Posts, Busy(p), Paid!Ends(p),
         UNCHANGED <<completed, liveBase, followed, follow>>,
         IsBudget(budget'), budget'.settled \in {budget.settled, budget.settled \cup {<<p, post[p].stage>>}},
         DOMAIN budget'.active = {}
  PROVE  LiveInv'
<1>1. post[p] \in AnalysisPost /\ post[p].stage \in 1 .. 4 /\ post[p].answer = Null
  BY BusyRuns
<1>2. [post[p] EXCEPT !.pc = "done"] \in AnalysisPost
  BY <1>1 DEF AnalysisPost
<1>3. /\ [post[p] EXCEPT !.pc = "done"].key = post[p].key
      /\ [post[p] EXCEPT !.pc = "done"].answer = post[p].answer
      /\ [post[p] EXCEPT !.pc = "done"].stage = post[p].stage
      /\ [post[p] EXCEPT !.pc = "done"].pc = "done"
  BY <1>1 DEF AnalysisPost
<1>4. post' = [post EXCEPT ![p] = [post[p] EXCEPT !.pc = "done"]] /\ running' = FALSE
  BY DEF Paid!Ends
<1> QED
  BY <1>1, <1>2, <1>3, <1>4, RunGoes

LEMMA FailKeeps ==
  ASSUME LiveInv, NEW p \in Posts, NEW u \in Usages, Paid!CallFails(p, u)
  PROVE  LiveInv'
<1>1. /\ post[p].pc = "call" /\ Paid!Ends(p) /\ UNCHANGED <<completed, liveBase, followed, follow>>
      /\ budget' = Paid!AfterReconcile(budget, Paid!Reservation(p), u, FALSE)
  BY DEF Paid!CallFails, Paid!AfterFailure
<1> QED
  BY <1>1, CallSettles, RunEnds DEF Busy

LEMMA NextStage ==
  ASSUME NEW r \in AnalysisPost, r.stage \in 1 .. 4
  PROVE  /\ r.stage = 4 =>
              LET new == [r EXCEPT !.pc = "compose"] IN
              /\ new \in AnalysisPost /\ new.key = r.key /\ new.answer = r.answer
              /\ new.stage \in 1 .. 4 /\ new.pc = "compose"
         /\ r.stage # 4 =>
              LET new == [r EXCEPT !.pc = "reserve", !.stage = r.stage + 1] IN
              /\ new \in AnalysisPost /\ new.key = r.key /\ new.answer = r.answer
              /\ new.stage = r.stage + 1 /\ new.stage \in 1 .. 4 /\ new.pc = "reserve"
<1>1. ASSUME r.stage # 4
      PROVE  LET new == [r EXCEPT !.pc = "reserve", !.stage = r.stage + 1] IN
              /\ new \in AnalysisPost /\ new.key = r.key /\ new.answer = r.answer
              /\ new.stage = r.stage + 1 /\ new.stage \in 1 .. 4 /\ new.pc = "reserve"
  <2> DEFINE n == r.stage + 1
  <2>1. n \in 1 .. 4 /\ n \in 0 .. 4
    BY <1>1
  <2> HIDE DEF n
  <2>2. [r EXCEPT !.pc = "reserve", !.stage = n] \in AnalysisPost
    BY <2>1 DEF AnalysisPost
  <2>3. /\ [r EXCEPT !.pc = "reserve", !.stage = n].key = r.key
        /\ [r EXCEPT !.pc = "reserve", !.stage = n].answer = r.answer
        /\ [r EXCEPT !.pc = "reserve", !.stage = n].stage = n
        /\ [r EXCEPT !.pc = "reserve", !.stage = n].pc = "reserve"
    BY DEF AnalysisPost
  <2> QED
    BY <2>1, <2>2, <2>3 DEF n
<1>2. LET new == [r EXCEPT !.pc = "compose"] IN
      /\ new \in AnalysisPost /\ new.key = r.key /\ new.answer = r.answer
      /\ new.stage \in 1 .. 4 /\ new.pc = "compose"
  BY DEF AnalysisPost
<1> QED
  BY <1>1, <1>2

LEMMA AnswerKeeps ==
  ASSUME LiveInv, NEW p \in Posts, NEW u \in Usages, NEW known \in BOOLEAN,
         Paid!CallAnswers(p, u, known)
  PROVE  LiveInv'
<1> DEFINE new == IF post[p].stage = Len(StageAsks) THEN [post[p] EXCEPT !.pc = "compose"]
                  ELSE [post[p] EXCEPT !.pc = "reserve", !.stage = post[p].stage + 1]
<1>1. /\ post[p].pc = "call" /\ UNCHANGED <<completed, liveBase, followed, follow>>
      /\ budget' = Paid!AfterReconcile(budget, Paid!Reservation(p), u, known)
      /\ \/ Paid!Ends(p)
         \/ post' = [post EXCEPT ![p] = new] /\ UNCHANGED running
  <2>1. /\ post[p].pc = "call" /\ UNCHANGED <<completed, liveBase, followed, follow>>
        /\ budget' = Paid!AfterReconcile(budget, Paid!Reservation(p), u, known)
    BY DEF Paid!CallAnswers
  <2>2. \/ Paid!Ends(p)
        \/ post' = [post EXCEPT ![p] = new] /\ UNCHANGED running
    BY DEF Paid!CallAnswers
  <2> QED
    BY <2>1, <2>2
<1>2. /\ IsBudget(budget') /\ DOMAIN budget'.active = {}
      /\ budget'.settled = budget.settled \cup {<<p, post[p].stage>>}
  BY <1>1, CallSettles
<1>3. CASE Paid!Ends(p)
  BY <1>1, <1>2, <1>3, RunEnds DEF Busy
<1>4. CASE post' = [post EXCEPT ![p] = new] /\ UNCHANGED running
  <2>1. post[p] \in AnalysisPost /\ post[p].stage \in 1 .. 4 /\ post[p].answer = Null /\ running
    BY <1>1, BusyRuns DEF Busy
  <2>2. /\ new \in AnalysisPost /\ new.key = post[p].key /\ new.answer = Null /\ new.stage \in 1 .. 4
        /\ IF post[p].stage = 4 THEN new.pc = "compose"
           ELSE new.pc = "reserve" /\ new.stage = post[p].stage + 1
    BY <2>1, NextStage, FourStages
  <2> HIDE DEF new
  <2>3. post'[p] = new /\ DOMAIN post = Posts
    BY <1>4 DEF LiveInv, PostsTyped
  <2>4. Paying(p)' = 1 .. post[p].stage
    <3>1. CASE post[p].stage = 4
      BY <2>2, <2>3, <3>1 DEF Paying
    <3>2. CASE post[p].stage # 4
      <4>1. Paying(p)' = 1 .. new.stage - 1
        BY <2>2, <2>3, <3>2 DEF Paying
      <4> QED
        BY <2>1, <2>2, <3>2, <4>1
    <3> QED
      BY <3>1, <3>2
  <2>5. \A s \in 1 .. 4 : <<p, s>> \in budget.settled <=> s \in 1 .. post[p].stage - 1
    BY <1>1 DEF LiveInv, StagesArePaid, Paying
  <2>6. \A s \in 1 .. 4 : <<p, s>> \in budget'.settled <=> s \in Paying(p)'
    BY <1>2, <2>1, <2>4, <2>5
  <2> QED
    BY <1>1, <1>2, <1>4, <2>1, <2>2, <2>6, RunGoes DEF Busy
<1> QED
  BY <1>1, <1>3, <1>4

LEMMA ComposeKeeps ==
  ASSUME Paid!LiveAnalysisAssumption, LiveInv, NEW p \in Posts, NEW composed \in BOOLEAN,
         Paid!Compose(p, composed)
  PROVE  LiveInv'
<1> DEFINE new == [post[p] EXCEPT !.pc = "done", !.answer = IF composed THEN p ELSE Null]
<1>1. Busy(p) /\ post[p].pc = "compose" /\ UNCHANGED <<budget, followed, follow>> /\ running' = FALSE
  BY DEF Paid!Compose, Busy
<1>2. /\ post[p] \in AnalysisPost /\ post[p].key \in PostKeys /\ post[p].stage \in 1 .. 4
      /\ post[p].answer = Null /\ post[p].key \notin DOMAIN completed
      /\ \A q \in Posts : q # p => ~Busy(q)
  BY <1>1, BusyRuns
<1>3. IsBudget(budget) /\ DOMAIN budget.active = {}
  BY <1>1, BusyRuns DEF LiveInv, StagesArePaid
<1>4. new \in AnalysisPost
  BY <1>2 DEF AnalysisPost
<1>5. /\ post' = [post EXCEPT ![p] = new] /\ new.pc = "done" /\ new.key = post[p].key
      /\ new.payload = post[p].payload /\ new.stage = post[p].stage
      /\ new.answer = IF composed THEN p ELSE Null
  <2>1. post' = [post EXCEPT ![p] = new]
    BY DEF Paid!Compose, LiveInv, PostsTyped
  <2>2. /\ new.pc = "done" /\ new.key = post[p].key /\ new.payload = post[p].payload
        /\ new.stage = post[p].stage /\ new.answer = IF composed THEN p ELSE Null
    BY <1>2 DEF AnalysisPost
  <2> QED
    BY <2>1, <2>2
<1> HIDE DEF new
<1>6. CASE ~composed
  <2>1. UNCHANGED <<completed, liveBase>> /\ new.answer = Null
    BY <1>5, <1>6 DEF Paid!Compose, Paid!Remembers
  <2>2. IsBudget(budget')
    BY <1>1, <1>3
  <2> QED
    BY <1>1, <1>2, <1>3, <1>4, <1>5, <2>1, <2>2, RunGoes
<1>7. CASE composed
  <2> DEFINE entry == [payload |-> post[p].payload, answer |-> p]
             key == post[p].key
  <2>1. /\ completed' = Paid!Put(completed, key, entry) /\ liveBase' = [base |-> p, revision |-> 0]
        /\ new.answer = p
    BY <1>5, <1>7 DEF Paid!Compose, Paid!Remembers
  <2>2. /\ DOMAIN completed' = DOMAIN completed \cup {key} /\ completed'[key] = entry
        /\ \A k \in DOMAIN completed : k # key => completed'[k] = completed[k]
    BY <2>1 DEF Paid!Put
  <2>3. /\ DOMAIN post' = Posts /\ \A q \in Posts : q # p => post'[q] = post[q]
        /\ post'[p] = new /\ post' \in [Posts -> AnalysisPost]
    BY <1>4, <1>5 DEF LiveInv, PostsTyped
  <2>4. p # Null
    BY DEF Paid!LiveAnalysisAssumption
  <2>5. PostsTyped' /\ OneRuns'
    <3>1. \A q \in Posts : ~Busy(q)'
      BY <1>2, <1>5, <2>3 DEF Busy
    <3>2. PostsTyped'
      BY <1>1, <1>5, <2>3, <3>1 DEF LiveInv, PostsTyped
    <3> QED
      BY <1>1, <3>1, <3>2 DEF OneRuns
  <2>6. CompletedAreTheirs'
    <3>1. ASSUME NEW k \in DOMAIN completed'
          PROVE  LET a == completed'[k].answer IN
                 /\ IsCompleted(completed'[k])
                 /\ post'[a].pc = "done" /\ post'[a].answer = a
                 /\ post'[a].key = k /\ post'[a].payload = completed'[k].payload
      <4>1. CASE k = key
        BY <1>5, <2>1, <2>2, <2>3, <4>1 DEF IsCompleted
      <4>2. CASE k # key
        <5>1. k \in DOMAIN completed /\ completed'[k] = completed[k]
          BY <2>2, <4>2
        <5>2. /\ IsCompleted(completed[k]) /\ completed[k].answer \in Posts
              /\ post[completed[k].answer].pc = "done"
          BY <5>1 DEF LiveInv, CompletedAreTheirs, IsCompleted
        <5>3. completed[k].answer # p
          BY <1>1, <5>2
        <5> QED
          BY <2>3, <5>1, <5>2, <5>3 DEF LiveInv, CompletedAreTheirs
      <4> QED
        BY <4>1, <4>2
    <3>2. DOMAIN completed' \subseteq PostKeys
      BY <1>2, <2>2 DEF LiveInv, CompletedAreTheirs
    <3>3. \A q \in Posts : ~Busy(q)'
      BY <1>2, <1>5, <2>3 DEF Busy
    <3> QED
      BY <3>1, <3>2, <3>3 DEF CompletedAreTheirs, IsCompleted
  <2>7. AnswersAreCompleted'
    BY <1>2, <1>5, <2>1, <2>2, <2>3 DEF LiveInv, AnswersAreCompleted
  <2>8. StagesArePaid'
    <3>1. \A q \in Posts : q # p => Paying(q)' = Paying(q)
      BY <2>3 DEF Paying
    <3>2. Paying(p)' = 1 .. 4 /\ Paying(p) = 1 .. 4
      BY <1>1, <1>5, <2>1, <2>3 DEF Paying
    <3>3. \A q \in Posts : post'[q].pc # "call"
      BY <1>2, <1>5, <2>3 DEF Busy
    <3>4. DOMAIN budget'.active = {<<q, post'[q].stage>> : q \in {r \in Posts : post'[r].pc = "call"}}
      BY <1>1, <1>3, <3>3
    <3>5. ASSUME NEW q \in Posts, post'[q].pc # "done" \/ post'[q].answer # Null
          PROVE  \A s \in 1 .. 4 : <<q, s>> \in budget'.settled <=> s \in Paying(q)'
      <4>1. post[q].pc # "done" \/ post[q].answer # Null
        BY <1>1, <2>3, <3>5
      <4>2. \A s \in 1 .. 4 : <<q, s>> \in budget.settled <=> s \in Paying(q)
        BY <4>1 DEF LiveInv, StagesArePaid
      <4> QED
        BY <1>1, <3>1, <3>2, <4>2
    <3> QED
      BY <1>1, <1>3, <3>4, <3>5 DEF StagesArePaid
  <2>9. BasesAreDone' /\ OneViewPerBase'
    <3>1. \A k \in DOMAIN followed : IsFollowUp(followed[k]) /\ followed[k].view.base # p
      BY <1>1 DEF LiveInv, BasesAreDone, IsFollowUp
    <3>2. \A k \in DOMAIN followed : IsFollowUp(followed[k])'
      BY <1>1, <2>3, <3>1 DEF IsFollowUp
    <3>3. BasesAreDone'
      BY <1>1, <1>5, <2>1, <2>3, <3>2 DEF BasesAreDone
    <3> QED
      BY <1>1, <2>1, <3>1, <3>3 DEF LiveInv, OneViewPerBase
  <2>10. FollowUpsAreTheirs'
    BY <1>1 DEF LiveInv, FollowUpsAreTheirs
  <2> QED
    BY <2>5, <2>6, <2>7, <2>8, <2>9, <2>10 DEF LiveInv
<1> QED
  BY <1>6, <1>7

LEMMA FollowKeeps ==
  ASSUME LiveInv, NEW f \in FollowUps, NEW key \in PostKeys, NEW base \in {0, 1},
         Paid!ApplyFollowUp(f, key, base)
  PROVE  LiveInv'
<1>1. follow[f] = Null /\ UNCHANGED <<post, running, completed, budget>> /\ DOMAIN follow = FollowUps
  BY DEF Paid!ApplyFollowUp, LiveInv, FollowUpsAreTheirs
<1>2. PostsTyped' /\ OneRuns' /\ CompletedAreTheirs' /\ AnswersAreCompleted' /\ StagesArePaid'
  BY <1>1 DEF LiveInv, PostsTyped, OneRuns, CompletedAreTheirs, AnswersAreCompleted, StagesArePaid,
              Busy, IsBudget, Paying, IsCompleted
<1>3. CASE key \in DOMAIN followed
  <2>1. /\ UNCHANGED <<liveBase, followed>> /\ followed[key].binding = base
        /\ follow' = [follow EXCEPT ![f] =
             [asked |-> base, key |-> key, view |-> followed[key].view]]
    BY <1>3 DEF Paid!ApplyFollowUp, Paid!SameBinding
  <2>2. BasesAreDone' /\ OneViewPerBase'
    BY <1>1, <2>1 DEF LiveInv, BasesAreDone, OneViewPerBase, IsFollowUp
  <2>3. FollowUpsAreTheirs'
    <3>1. IsFollowUp(followed[key])
      BY <1>3 DEF LiveInv, BasesAreDone
    <3> QED
      BY <1>1, <1>3, <2>1, <3>1 DEF LiveInv, FollowUpsAreTheirs, IsFollowUp
  <2> QED
    BY <1>2, <2>2, <2>3 DEF LiveInv
<1>4. CASE key \notin DOMAIN followed
  <2> DEFINE view == [key |-> key, binding |-> base, base |-> liveBase.base, by |-> f]
             entry == [binding |-> base, view |-> view]
  <2>1. /\ liveBase # Null /\ liveBase.revision = 0
        /\ liveBase' = [liveBase EXCEPT !.revision = 1]
        /\ followed' = Paid!Put(followed, key, entry)
        /\ follow' = [follow EXCEPT ![f] = [asked |-> base, key |-> key, view |-> view]]
    BY <1>4 DEF Paid!ApplyFollowUp
  <2>2. /\ DOMAIN followed' = DOMAIN followed \cup {key} /\ followed'[key] = entry
        /\ \A k \in DOMAIN followed : followed'[k] = followed[k]
    BY <1>4, <2>1 DEF Paid!Put
  <2>3. /\ liveBase = [base |-> liveBase.base, revision |-> liveBase.revision]
        /\ liveBase.base \in Posts /\ post[liveBase.base].pc = "done"
        /\ \A k \in DOMAIN followed : followed[k].view.base # liveBase.base
    BY <2>1 DEF LiveInv, BasesAreDone, OneViewPerBase
  <2>4. liveBase' = [base |-> liveBase.base, revision |-> 1]
    BY <2>1, <2>3
  <2>5. view.base = liveBase.base /\ entry.view = view /\ entry.binding = base
    OBVIOUS
  <2>6. BasesAreDone'
    <3>1. \A k \in DOMAIN followed : IsFollowUp(followed[k])'
      BY <1>1, <2>2 DEF LiveInv, BasesAreDone, IsFollowUp
    <3>2. IsFollowUp(followed[key])'
      BY <1>1, <2>2, <2>3, <2>5 DEF IsFollowUp
    <3>3. \A k \in DOMAIN followed' : IsFollowUp(followed[k])'
      BY <2>2, <3>1, <3>2
    <3> HIDE DEF view, entry
    <3> QED
      BY <1>1, <2>3, <2>4, <3>3 DEF BasesAreDone
  <2>7. OneViewPerBase'
    <3> HIDE DEF view, entry
    <3>1. liveBase'.revision = 1
      BY <2>4
    <3> QED
      BY <2>2, <2>3, <2>5, <3>1 DEF LiveInv, OneViewPerBase
  <2>8. FollowUpsAreTheirs'
    <3>1. /\ DOMAIN follow' = FollowUps /\ \A g \in FollowUps : g # f => follow'[g] = follow[g]
          /\ follow'[f].asked = base /\ follow'[f].key = key /\ follow'[f].view = view
      BY <1>1, <2>1
    <3> HIDE DEF view
    <3>2. ASSUME NEW g \in FollowUps, follow'[g] # Null
          PROVE  /\ follow'[g].key \in DOMAIN followed'
                 /\ followed'[follow'[g].key] = [binding |-> follow'[g].asked, view |-> follow'[g].view]
      BY <1>4, <2>2, <3>1, <3>2 DEF LiveInv, FollowUpsAreTheirs
    <3> QED
      BY <3>1, <3>2 DEF FollowUpsAreTheirs
  <2> QED
    BY <1>2, <2>6, <2>7, <2>8 DEF LiveInv
<1> QED
  BY <1>3, <1>4

LEMMA LiveKeeps ==
  ASSUME Paid!LiveAnalysisAssumption, LiveInv, [Paid!LiveNext]_liveVars
  PROVE  LiveInv'
<1>1. CASE UNCHANGED liveVars
  BY <1>1 DEF liveVars, LiveInv, PostsTyped, OneRuns, CompletedAreTheirs, AnswersAreCompleted,
              StagesArePaid, BasesAreDone, OneViewPerBase, FollowUpsAreTheirs,
              Busy, IsBudget, Paying, IsCompleted, IsFollowUp
<1> QED
  BY <1>1, PostKeeps, ReserveKeeps, FailKeeps, AnswerKeeps, ComposeKeeps, FollowKeeps
     DEF Paid!LiveNext

LEMMA ResultsArePaid ==
  ASSUME Paid!LiveAnalysisAssumption, LiveInv
  PROVE  Paid!ResultsArePaidOnce
<1>1. ASSUME NEW p \in Posts, NEW q \in Posts,
             post[p].answer # Null, post[q].answer # Null, post[p].key = post[q].key
      PROVE  post[p].answer = post[q].answer /\ post[p].payload = post[q].payload
  <2>1. ASSUME NEW r \in Posts, post[r].answer # Null
        PROVE  /\ completed[post[r].key].payload = post[r].payload
               /\ completed[post[r].key].answer = post[r].answer
    <3>1. completed[post[r].key] = [payload |-> post[r].payload, answer |-> post[r].answer]
      BY <2>1 DEF LiveInv, AnswersAreCompleted
    <3> QED
      BY <3>1
  <2> QED
    BY <1>1, <2>1
<1>2. ASSUME NEW p \in Posts, post[p].answer # Null
      PROVE  {s \in DOMAIN StageAsks : <<p, s>> \in budget.settled} =
               IF post[p].answer = p THEN DOMAIN StageAsks ELSE {}
  <2>1. post[p].pc = "done" /\ Paying(p) = IF post[p].answer = p THEN 1 .. 4 ELSE {}
    BY <1>2 DEF LiveInv, PostsTyped, Paying
  <2>2. \A s \in 1 .. 4 : <<p, s>> \in budget.settled <=> s \in Paying(p)
    BY <1>2 DEF LiveInv, StagesArePaid
  <2> QED
    BY <2>1, <2>2, FourStages
<1>3. \A key \in DOMAIN completed : post[completed[key].answer].answer # Null
  BY DEF LiveInv, CompletedAreTheirs, IsCompleted, Paid!LiveAnalysisAssumption
<1>4. ASSUME NEW f \in FollowUps, NEW g \in FollowUps, follow[f] # Null, follow[g] # Null
      PROVE  /\ follow[f].key = follow[g].key =>
                  follow[f].view = follow[g].view /\ follow[f].asked = follow[g].asked
             /\ follow[f].view.base = follow[g].view.base => follow[f].view = follow[g].view
  <2>1. ASSUME NEW h \in FollowUps, follow[h] # Null
        PROVE  /\ follow[h].key \in DOMAIN followed
               /\ followed[follow[h].key].binding = follow[h].asked
               /\ followed[follow[h].key].view = follow[h].view
    <3>1. /\ follow[h].key \in DOMAIN followed
          /\ followed[follow[h].key] = [binding |-> follow[h].asked, view |-> follow[h].view]
      BY <2>1 DEF LiveInv, FollowUpsAreTheirs
    <3> QED
      BY <3>1
  <2> QED
    BY <1>4, <2>1 DEF LiveInv, OneViewPerBase
<1> QED
  BY <1>1, <1>2, <1>3, <1>4 DEF Paid!ResultsArePaidOnce

LEMMA CountOfRuns ==
  ASSUME NEW S
  PROVE  Paid!Cardinality(S) = Cardinality(S)
  BY DEF Paid!Cardinality, Cardinality, Paid!IsFiniteSet, IsFiniteSet

LEMMA RunHolds ==
  ASSUME LiveInv
  PROVE  Paid!RunHoldsItsReservation
<1> DEFINE busy == {p \in Posts : post[p].pc \in {"reserve", "call", "compose"}}
<1>1. \A p \in Posts : p \in busy <=> Busy(p)
  BY DEF Busy
<1>2. (running <=> busy # {}) /\ \A p, q \in busy : p = q
  BY <1>1 DEF LiveInv, OneRuns
<1>3. Paid!Cardinality(busy) <= 1
  <2>1. CASE busy = {}
    BY <2>1, FS_EmptySet, CountOfRuns
  <2>2. CASE busy # {}
    <3>1. PICK p : busy = {p}
      BY <1>2, <2>2
    <3>2. Cardinality({p}) = 1
      BY FS_Singleton
    <3> QED
      BY <3>1, <3>2, CountOfRuns
  <2> QED
    BY <2>1, <2>2
<1>4. DOMAIN budget.active = {Paid!Reservation(p) : p \in {q \in busy : post[q].pc = "call"}}
  <2>1. {q \in busy : post[q].pc = "call"} = {q \in Posts : post[q].pc = "call"}
    BY DEF busy
  <2> QED
    BY <2>1 DEF LiveInv, StagesArePaid, Paid!Reservation
<1> QED
  BY <1>2, <1>3, <1>4 DEF Paid!RunHoldsItsReservation

(* However often a request is sent and whatever fails, the live analysis   *)
(* runs one request at a time, holds one reservation for it while it waits *)
(* for the model, pays for each stage of a result once, and answers a key  *)
(* and a base of follow-ups alike.                                         *)
THEOREM LiveIsSafe ==
  ASSUME Paid!LiveAnalysisAssumption
  PROVE  Paid!LiveSpec => [](Paid!RunHoldsItsReservation /\ Paid!ResultsArePaidOnce)
<1>1. Paid!LiveInit => LiveInv
  BY LiveStarts
<1>2. LiveInv /\ [Paid!LiveNext]_(Paid!liveVars) => LiveInv'
  BY LiveKeeps DEF Paid!liveVars, liveVars
<1>3. LiveInv => Paid!RunHoldsItsReservation /\ Paid!ResultsArePaidOnce
  BY ResultsArePaid, RunHolds
<1> QED
  BY <1>1, <1>2, <1>3, PTL DEF Paid!LiveSpec

-----------------------------------------------------------------------------
(* The conversation about an uploaded case.  One turn works at a time; its *)
(* key has a record without an answer, unless that expired; and while none *)
(* can have expired, whoever was answered has the answer of the record.    *)
AtWork(r) == say[r].pc \in {"context", "fetch", "save"}

Saying ==
  [pc : {"unsent", "context", "fetch", "save", "done"}, key : SayKeys \cup {Null},
   remark : Remarks \cup {Null}, ack : Says \cup {Null}, revision : Nat,
   answer : Says \cup {Null}]

SaysTyped ==
  /\ now \in Nat /\ active \in BOOLEAN /\ DOMAIN warnings \subseteq Says
  /\ say \in [Says -> Saying]
  /\ \A r \in Says : say[r].answer # Null => say[r].pc = "done"
  /\ \A r \in Says : AtWork(r) => say[r].key \in SayKeys

IsTurn(x) ==
  /\ x = [remark |-> x.remark, answer |-> x.answer, expires |-> x.expires]
  /\ x.answer \in Says \cup {Null} /\ x.expires \in Nat /\ x.expires >= TurnRetention

TurnsTyped == DOMAIN turns \subseteq SayKeys /\ \A k \in DOMAIN turns : IsTurn(turns[k])

OneTalks ==
  /\ \A r, q \in Says : AtWork(r) /\ AtWork(q) => r = q
  /\ active <=> \E r \in Says : AtWork(r)

OpenTurnsAreAtWork ==
  /\ \A k \in DOMAIN turns : turns[k].answer = Null => \E r \in Says : AtWork(r) /\ say[r].key = k
  /\ \A r \in Says : AtWork(r) /\ say[r].key \in DOMAIN turns =>
       turns[say[r].key].answer = Null /\ turns[say[r].key].remark = say[r].remark

RepliesAreKept ==
  now < TurnRetention =>
    /\ \A r \in Says : AtWork(r) => say[r].key \in DOMAIN turns
    /\ \A r \in Says : say[r].answer # Null =>
         /\ say[r].key \in DOMAIN turns
         /\ turns[say[r].key].answer = say[r].answer
         /\ turns[say[r].key].remark = say[r].remark

(* An offer was shown to the owner before it can be confirmed; once it was *)
(* added, the case has gone beyond the revision it was made for.           *)
IsOffer(o) ==
  /\ o = [page |-> o.page, offer |-> o.offer, revision |-> o.revision, expires |-> o.expires]
  /\ o.offer \in Says /\ o.revision \in Nat
  /\ say[o.offer].pc = "done" /\ say[o.offer].answer = o.offer

OffersAreShown ==
  /\ realCase = [revision |-> realCase.revision, listing |-> realCase.listing,
                 others |-> realCase.others]
  /\ realCase.revision \in Nat
  /\ pending # Null => IsOffer(pending)
  /\ realCase.listing # Null => IsOffer(realCase.listing)
  /\ \A r \in Says : say[r].pc = "save" => pending # Null
  /\ pending # Null /\ realCase.listing # Null /\ realCase.listing.offer = pending.offer
     => pending.revision < realCase.revision

TalkInv ==
  /\ SaysTyped
  /\ TurnsTyped
  /\ OneTalks
  /\ OpenTurnsAreAtWork
  /\ RepliesAreKept
  /\ OffersAreShown

TurnsInv == SaysTyped /\ TurnsTyped /\ OneTalks /\ OpenTurnsAreAtWork /\ RepliesAreKept

LEMMA TalkStarts ==
  ASSUME Real!RealConversationAssumption, ClockInit, Real!TalkInit
  PROVE  TalkInv
<1>1. \A r \in Says : say[r] = Real!Silent /\ ~AtWork(r)
  BY DEF Real!TalkInit, Real!Silent, AtWork
<1>2. Real!Silent \in Saying /\ Real!Silent.answer = Null
  BY DEF Real!Silent, Saying
<1>3. SaysTyped
  <2>1. say \in [Says -> Saying]
    BY <1>2 DEF Real!TalkInit
  <2>2. now \in Nat /\ active \in BOOLEAN
    BY DEF Real!TalkInit, ClockInit
  <2>3. DOMAIN warnings = {}
    BY DEF Real!TalkInit
  <2> QED
    BY <1>1, <1>2, <2>1, <2>2, <2>3 DEF SaysTyped
<1>4. TurnsTyped /\ OneTalks /\ OpenTurnsAreAtWork /\ RepliesAreKept
  BY <1>1, <1>2 DEF TurnsTyped, OneTalks, OpenTurnsAreAtWork, RepliesAreKept, Real!TalkInit
<1>5. OffersAreShown
  BY <1>1 DEF OffersAreShown, Real!TalkInit, Real!Silent
<1> QED
  BY <1>3, <1>4, <1>5 DEF TalkInv

LEMMA TalkerIsTyped ==
  ASSUME TalkInv, NEW r \in Says, AtWork(r)
  PROVE  /\ say[r] \in Saying /\ say[r].key \in SayKeys /\ say[r].answer = Null
         /\ say[r].pc # "done" /\ active /\ \A q \in Says : q # r => ~AtWork(q)
         /\ now \in Nat
  BY DEF TalkInv, SaysTyped, OneTalks, AtWork

(* The offers stay when a turn goes on or ends.                            *)
LEMMA OffersStay ==
  ASSUME TalkInv, NEW r \in Says, say[r].pc # "done",
         \A q \in Says : q # r => say'[q] = say[q] /\ ~AtWork(q),
         pending' \in {pending, Null}, say'[r].pc = "save" => pending' # Null,
         UNCHANGED realCase
  PROVE  OffersAreShown'
<1>1. ASSUME NEW o, IsOffer(o) PROVE IsOffer(o)'
  BY <1>1 DEF IsOffer
<1>2. \A q \in Says : say'[q].pc = "save" => q = r
  BY DEF AtWork
<1> QED
  BY <1>1, <1>2 DEF TalkInv, OffersAreShown

LEMMA TurnGoesOn ==
  ASSUME TalkInv, NEW r \in Says, AtWork(r), NEW pc \in {"fetch", "save"}, NEW base \in Nat,
         say' = [say EXCEPT ![r].pc = pc, ![r].revision = base],
         UNCHANGED <<now, turns, active>>, DOMAIN warnings' \subseteq Says
  PROVE  /\ TurnsInv' /\ say'[r].pc = pc
         /\ \A q \in Says : q # r => say'[q] = say[q] /\ ~AtWork(q)
<1>1. /\ say[r] \in Saying /\ say[r].key \in SayKeys /\ say[r].answer = Null
      /\ active /\ \A q \in Says : q # r => ~AtWork(q)
  BY TalkerIsTyped
<1>2. [say[r] EXCEPT !.pc = pc, !.revision = base] \in Saying
  BY <1>1 DEF Saying
<1>3. /\ say' \in [Says -> Saying] /\ \A q \in Says : q # r => say'[q] = say[q]
      /\ say'[r].pc = pc /\ say'[r].key = say[r].key /\ say'[r].answer = Null
      /\ say'[r].remark = say[r].remark
  BY <1>1, <1>2 DEF TalkInv, SaysTyped, Saying
<1>4. \A q \in Says : AtWork(q)' <=> AtWork(q)
  BY <1>3 DEF AtWork
<1>5. SaysTyped'
  BY <1>1, <1>3, <1>4 DEF TalkInv, SaysTyped
<1>6. TurnsTyped'
  BY DEF TalkInv, TurnsTyped, IsTurn
<1>7. OneTalks'
  BY <1>4 DEF TalkInv, OneTalks
<1>8. OpenTurnsAreAtWork'
  BY <1>3, <1>4 DEF TalkInv, OpenTurnsAreAtWork
<1>9. RepliesAreKept'
  BY <1>3, <1>4 DEF TalkInv, RepliesAreKept
<1> QED
  BY <1>1, <1>3, <1>5, <1>6, <1>7, <1>8, <1>9 DEF TurnsInv

LEMMA TurnFails ==
  ASSUME TalkInv, NEW r \in Says, AtWork(r), Real!Fail(r), UNCHANGED now,
         DOMAIN warnings' \subseteq Says
  PROVE  /\ TurnsInv' /\ say'[r].pc = "done"
         /\ \A q \in Says : q # r => say'[q] = say[q] /\ ~AtWork(q)
<1> DEFINE key == say[r].key
<1>1. /\ key \in SayKeys /\ say[r].answer = Null
      /\ active /\ \A q \in Says : q # r => ~AtWork(q)
  BY TalkerIsTyped
<1>2. /\ DOMAIN turns' = DOMAIN turns \ {key} /\ active' = FALSE
      /\ \A k \in DOMAIN turns : k # key => turns'[k] = turns[k]
  BY DEF Real!Fail, Real!Leave, Real!Restrict
<1>3. [Real!Silent EXCEPT !.pc = "done"] \in Saying
  BY DEF Real!Silent, Saying
<1>4. /\ say' \in [Says -> Saying] /\ \A q \in Says : q # r => say'[q] = say[q]
      /\ say'[r].pc = "done" /\ say'[r].answer = Null
  BY <1>3 DEF TalkInv, SaysTyped, Real!Fail, Real!Refused, Real!Silent
<1>5. \A q \in Says : ~AtWork(q)'
  BY <1>1, <1>4 DEF AtWork
<1>6. SaysTyped'
  BY <1>2, <1>4, <1>5 DEF TalkInv, SaysTyped
<1>7. TurnsTyped'
  BY <1>2 DEF TalkInv, TurnsTyped, IsTurn
<1>8. OneTalks'
  BY <1>2, <1>5 DEF OneTalks
<1>9. OpenTurnsAreAtWork'
  <2>1. ASSUME NEW k \in DOMAIN turns', turns'[k].answer = Null PROVE FALSE
    <3>1. PICK q \in Says : AtWork(q) /\ say[q].key = k
      BY <1>2, <2>1 DEF TalkInv, OpenTurnsAreAtWork
    <3> QED
      BY <1>1, <1>2, <2>1, <3>1
  <2> QED
    BY <1>5, <2>1 DEF OpenTurnsAreAtWork
<1>10. RepliesAreKept'
  <2>1. ASSUME now < TurnRetention, NEW q \in Says, say'[q].answer # Null
        PROVE  /\ say'[q].key \in DOMAIN turns'
               /\ turns'[say'[q].key].answer = say'[q].answer
               /\ turns'[say'[q].key].remark = say'[q].remark
    <3>1. q # r /\ say'[q] = say[q]
      BY <1>4, <2>1
    <3>2. /\ say[q].key \in DOMAIN turns /\ turns[say[q].key].answer = say[q].answer
          /\ turns[say[q].key].remark = say[q].remark
      BY <2>1, <3>1 DEF TalkInv, RepliesAreKept
    <3>3. say[q].key # key
      BY <2>1, <3>1, <3>2 DEF TalkInv, OpenTurnsAreAtWork
    <3> QED
      BY <1>2, <3>1, <3>2, <3>3
  <2> QED
    BY <1>5, <2>1 DEF RepliesAreKept
<1> QED
  BY <1>1, <1>4, <1>6, <1>7, <1>8, <1>9, <1>10 DEF TurnsInv

LEMMA TurnResponds ==
  ASSUME Real!RealConversationAssumption, TalkInv, NEW r \in Says, AtWork(r), Real!Respond(r),
         UNCHANGED now, DOMAIN warnings' \subseteq Says
  PROVE  /\ TurnsInv' /\ say'[r].pc = "done" /\ say'[r].answer = r
         /\ \A q \in Says : q # r => say'[q] = say[q] /\ ~AtWork(q)
<1> DEFINE key == say[r].key
<1>1. /\ say[r] \in Saying /\ key \in SayKeys /\ say[r].answer = Null
      /\ active /\ \A q \in Says : q # r => ~AtWork(q)
  BY TalkerIsTyped
<1>2. /\ DOMAIN turns' = DOMAIN turns /\ active' = FALSE
      /\ \A k \in DOMAIN turns : k # key => turns'[k] = turns[k]
      /\ key \in DOMAIN turns => turns'[key] = [turns[key] EXCEPT !.answer = r]
  BY DEF Real!Respond
<1>3. key \in DOMAIN turns => /\ turns'[key] = [remark |-> turns[key].remark, answer |-> r,
                                                expires |-> turns[key].expires]
                              /\ turns[key].expires \in Nat /\ turns[key].expires >= TurnRetention
                              /\ turns[key].remark = say[r].remark
  BY <1>2 DEF TalkInv, TurnsTyped, IsTurn, OpenTurnsAreAtWork
<1>4. [say[r] EXCEPT !.pc = "done", !.answer = r] \in Saying
  BY <1>1 DEF Saying
<1>5. /\ say' \in [Says -> Saying] /\ \A q \in Says : q # r => say'[q] = say[q]
      /\ say'[r].pc = "done" /\ say'[r].answer = r /\ say'[r].key = key
      /\ say'[r].remark = say[r].remark
  BY <1>1, <1>4 DEF TalkInv, SaysTyped, Saying, Real!Respond
<1>6. \A q \in Says : ~AtWork(q)'
  BY <1>1, <1>5 DEF AtWork
<1>7. SaysTyped'
  BY <1>2, <1>5, <1>6 DEF TalkInv, SaysTyped
<1>8. TurnsTyped'
  <2>1. ASSUME NEW k \in DOMAIN turns PROVE IsTurn(turns'[k])
    <3>1. CASE k = key
      BY <1>3, <3>1 DEF IsTurn
    <3>2. CASE k # key
      BY <1>2, <3>2 DEF TalkInv, TurnsTyped
    <3> QED
      BY <3>1, <3>2
  <2> QED
    BY <1>2, <2>1 DEF TalkInv, TurnsTyped, IsTurn
<1>9. OneTalks'
  BY <1>2, <1>6 DEF OneTalks
<1>10. OpenTurnsAreAtWork'
  <2>1. ASSUME NEW k \in DOMAIN turns', turns'[k].answer = Null PROVE FALSE
    <3>1. k # key
      BY <1>2, <1>3, <2>1 DEF Real!RealConversationAssumption
    <3>2. PICK q \in Says : AtWork(q) /\ say[q].key = k
      BY <1>2, <2>1, <3>1 DEF TalkInv, OpenTurnsAreAtWork
    <3> QED
      BY <1>1, <3>1, <3>2
  <2> QED
    BY <1>6, <2>1 DEF OpenTurnsAreAtWork
<1>11. RepliesAreKept'
  <2>1. ASSUME now < TurnRetention, NEW q \in Says, say'[q].answer # Null
        PROVE  /\ say'[q].key \in DOMAIN turns'
               /\ turns'[say'[q].key].answer = say'[q].answer
               /\ turns'[say'[q].key].remark = say'[q].remark
    <3>1. key \in DOMAIN turns
      BY <2>1 DEF TalkInv, RepliesAreKept
    <3>2. CASE q = r
      BY <1>2, <1>3, <1>5, <3>1, <3>2
    <3>3. CASE q # r
      <4>1. /\ say'[q] = say[q] /\ say[q].key \in DOMAIN turns
            /\ turns[say[q].key].answer = say[q].answer
            /\ turns[say[q].key].remark = say[q].remark
        BY <1>5, <2>1, <3>3 DEF TalkInv, RepliesAreKept
      <4>2. say[q].key # key
        BY <2>1, <4>1 DEF TalkInv, OpenTurnsAreAtWork
      <4> QED
        BY <1>2, <4>1, <4>2
    <3> QED
      BY <3>2, <3>3
  <2> QED
    BY <1>6, <2>1 DEF RepliesAreKept
<1> QED
  BY <1>1, <1>5, <1>7, <1>8, <1>9, <1>10, <1>11 DEF TurnsInv

-----------------------------------------------------------------------------
LEMMA KeptTurns ==
  ASSUME Real!RealConversationAssumption, TalkInv
  PROVE  /\ DOMAIN Real!TurnsKept \subseteq DOMAIN turns
         /\ \A k \in DOMAIN Real!TurnsKept : Real!TurnsKept[k] = turns[k]
         /\ now < TurnRetention => DOMAIN Real!TurnsKept = DOMAIN turns
<1>1. now < TurnRetention => \A k \in DOMAIN turns : turns[k].expires > now
  <2>1. ASSUME now < TurnRetention, NEW k \in DOMAIN turns PROVE turns[k].expires > now
    <3>1. now \in Nat /\ turns[k].expires \in Nat /\ turns[k].expires >= TurnRetention
      BY DEF TalkInv, SaysTyped, TurnsTyped, IsTurn
    <3>2. TurnRetention \in Nat
      BY DEF Real!RealConversationAssumption
    <3> QED
      BY <2>1, <3>1, <3>2
  <2> QED
    BY <2>1
<1> QED
  BY <1>1 DEF Real!TurnsKept, Real!Restrict

(* Turns that expired are forgotten; whoever works is not disturbed.       *)
LEMMA PruningKeeps ==
  ASSUME Real!RealConversationAssumption, TalkInv, turns' = Real!TurnsKept, UNCHANGED <<now, active>>, DOMAIN warnings' \subseteq Says,
         NEW r \in Says, ~AtWork(r), NEW new \in Saying, new.pc = "done",
         say' = [say EXCEPT ![r] = new],
         \/ new.answer = Null
         \/ /\ new.key \in DOMAIN turns'
            /\ turns'[new.key].answer = new.answer
            /\ turns'[new.key].remark = new.remark
  PROVE  TurnsInv'
<1>1. /\ say' \in [Says -> Saying] /\ \A q \in Says : q # r => say'[q] = say[q]
      /\ say'[r] = new
  BY DEF TalkInv, SaysTyped
<1>2. \A q \in Says : AtWork(q)' <=> AtWork(q)
  BY <1>1 DEF AtWork
<1>3. /\ DOMAIN turns' \subseteq DOMAIN turns /\ \A k \in DOMAIN turns' : turns'[k] = turns[k]
      /\ now < TurnRetention => DOMAIN turns' = DOMAIN turns
  BY KeptTurns
<1>4. SaysTyped'
  BY <1>1, <1>2 DEF TalkInv, SaysTyped, AtWork
<1>5. TurnsTyped'
  BY <1>3 DEF TalkInv, TurnsTyped, IsTurn
<1>6. OneTalks'
  BY <1>2 DEF TalkInv, OneTalks
<1>7. OpenTurnsAreAtWork'
  <2>1. \A q \in Says : AtWork(q) => say'[q] = say[q]
    BY <1>1
  <2> QED
    BY <1>2, <1>3, <2>1 DEF TalkInv, OpenTurnsAreAtWork
<1>8. RepliesAreKept'
  <2>1. \A q \in Says : AtWork(q) => say'[q] = say[q]
    BY <1>1
  <2>2. ASSUME now < TurnRetention, NEW q \in Says, say'[q].answer # Null
        PROVE  /\ say'[q].key \in DOMAIN turns'
               /\ turns'[say'[q].key].answer = say'[q].answer
               /\ turns'[say'[q].key].remark = say'[q].remark
    <3>1. CASE q = r
      BY <1>1, <2>2, <3>1
    <3>2. CASE q # r
      BY <1>1, <1>3, <2>2, <3>2 DEF TalkInv, RepliesAreKept
    <3> QED
      BY <3>1, <3>2
  <2> QED
    BY <1>2, <1>3, <2>1, <2>2 DEF TalkInv, RepliesAreKept
<1> QED
  BY <1>4, <1>5, <1>6, <1>7, <1>8 DEF TurnsInv

LEMMA TurnStarts ==
  ASSUME Real!RealConversationAssumption, TalkInv, NEW r \in Says, ~AtWork(r), NEW key \in SayKeys,
         NEW remark \in Remarks, ~active, key \notin DOMAIN Real!TurnsKept,
         turns' = Real!Put(Real!TurnsKept, key,
           [remark |-> remark, answer |-> Null, expires |-> now + TurnRetention]),
         active' = TRUE, UNCHANGED now, DOMAIN warnings' \subseteq Says,
         NEW new \in Saying, new.pc = "context", new.key = key, new.remark = remark,
         new.answer = Null, say' = [say EXCEPT ![r] = new]
  PROVE  TurnsInv'
<1> DEFINE entry == [remark |-> remark, answer |-> Null, expires |-> now + TurnRetention]
<1>1. /\ say' \in [Says -> Saying] /\ \A q \in Says : q # r => say'[q] = say[q]
      /\ say'[r] = new
  BY DEF TalkInv, SaysTyped
<1>2. \A q \in Says : ~AtWork(q)
  BY DEF TalkInv, OneTalks
<1>3. \A q \in Says : AtWork(q)' <=> q = r
  BY <1>1, <1>2 DEF AtWork
<1>4. /\ DOMAIN turns' \subseteq DOMAIN turns \cup {key} /\ key \in DOMAIN turns' /\ turns'[key] = entry
      /\ \A k \in DOMAIN turns' : k # key => k \in DOMAIN turns /\ turns'[k] = turns[k]
      /\ now < TurnRetention => DOMAIN turns' = DOMAIN turns \cup {key} /\ key \notin DOMAIN turns
  BY KeptTurns DEF Real!Put
<1>5. IsTurn(entry)
  BY DEF IsTurn, TalkInv, SaysTyped, Real!RealConversationAssumption
<1>6. entry.answer = Null /\ entry.remark = remark
  OBVIOUS
<1> HIDE DEF entry
<1>7. SaysTyped'
  BY <1>1, <1>3 DEF TalkInv, SaysTyped, AtWork
<1>8. TurnsTyped'
  <2>1. \A k \in DOMAIN turns' : IsTurn(turns'[k])
    BY <1>4, <1>5 DEF TalkInv, TurnsTyped
  <2> QED
    BY <1>4, <2>1 DEF TalkInv, TurnsTyped, IsTurn
<1>9. OneTalks'
  BY <1>3 DEF OneTalks
<1>10. OpenTurnsAreAtWork'
  <2>1. ASSUME NEW k \in DOMAIN turns', turns'[k].answer = Null PROVE k = key
    BY <1>2, <1>4, <2>1 DEF TalkInv, OpenTurnsAreAtWork
  <2> QED
    BY <1>1, <1>3, <1>4, <1>6, <2>1 DEF OpenTurnsAreAtWork
<1>11. RepliesAreKept'
  <2>1. ASSUME now < TurnRetention, NEW q \in Says, say'[q].answer # Null
        PROVE  /\ say'[q].key \in DOMAIN turns'
               /\ turns'[say'[q].key].answer = say'[q].answer
               /\ turns'[say'[q].key].remark = say'[q].remark
    <3>1. q # r /\ say'[q] = say[q]
      BY <1>1, <2>1
    <3>2. /\ say[q].key \in DOMAIN turns /\ turns[say[q].key].answer = say[q].answer
          /\ turns[say[q].key].remark = say[q].remark
      BY <2>1, <3>1 DEF TalkInv, RepliesAreKept
    <3> QED
      BY <1>4, <2>1, <3>1, <3>2
  <2> QED
    BY <1>1, <1>3, <1>4, <2>1 DEF RepliesAreKept
<1> QED
  BY <1>7, <1>8, <1>9, <1>10, <1>11 DEF TurnsInv

LEMMA SayKeeps ==
  ASSUME Real!RealConversationAssumption, TalkInv, NEW r \in Says, NEW key \in SayKeys,
         NEW remark \in Remarks, NEW ack \in DOMAIN warnings \cup {Null},
         Real!Say(r, key, remark, ack)
  PROVE  TalkInv'
<1>1. /\ say[r].pc = "unsent" /\ ~AtWork(r) /\ UNCHANGED <<now, pending, warnings, realCase>>
      /\ DOMAIN warnings' \subseteq Says /\ ack \in Says \cup {Null}
  BY DEF Real!Say, Real!Arrives, AtWork, TalkInv, SaysTyped
<1> DEFINE cached == [Real!Silent EXCEPT !.pc = "done", !.key = key, !.remark = remark,
                        !.answer = turns[key].answer]
           begun == [Real!Silent EXCEPT !.pc = "context", !.key = key, !.remark = remark, !.ack = ack]
           refused == [Real!Silent EXCEPT !.pc = "done"]
<1>2. DOMAIN say = Says
  BY DEF TalkInv, SaysTyped
<1>3. refused \in Saying /\ refused.pc = "done" /\ refused.answer = Null
  BY DEF Saying, Real!Silent
<1>4. /\ begun \in Saying /\ begun.pc = "context" /\ begun.answer = Null /\ begun.key = key
      /\ begun.remark = remark
  BY <1>1 DEF Saying, Real!Silent
<1>5. CASE key \in DOMAIN Real!TurnsKept /\ turns[key].remark = remark /\ turns[key].answer # Null
  <2>1. turns[key].answer \in Says
    BY <1>5, KeptTurns DEF TalkInv, TurnsTyped, IsTurn
  <2>2. /\ cached \in Saying /\ cached.pc = "done" /\ cached.key = key /\ cached.remark = remark
        /\ cached.answer = turns[key].answer
    BY <2>1 DEF Saying, Real!Silent
  <2>3. turns' = Real!TurnsKept /\ active' = active /\ say' = [say EXCEPT ![r] = cached]
    BY <1>5 DEF Real!Say
  <2> HIDE DEF cached
  <2>4. TurnsInv'
    BY <1>1, <1>5, <2>2, <2>3, KeptTurns, PruningKeeps
  <2>5. \A q \in Says : q # r => say'[q] = say[q]
    BY <1>2, <2>3
  <2>6. say'[r].pc = "done"
    BY <1>2, <2>2, <2>3
  <2> QED
    BY <1>1, <2>4, <2>5, <2>6 DEF TalkInv, TurnsInv, OffersAreShown, IsOffer
<1>6. CASE \/ key \in DOMAIN Real!TurnsKept /\ ~(turns[key].remark = remark /\ turns[key].answer # Null)
           \/ /\ key \notin DOMAIN Real!TurnsKept
              /\ ~(~active /\ Real!Cardinality(DOMAIN Real!TurnsKept) < MaxTurns)
  <2>1. turns' = Real!TurnsKept /\ active' = active /\ say' = [say EXCEPT ![r] = refused]
    BY <1>6 DEF Real!Say, Real!Refused
  <2> HIDE DEF refused
  <2>2. TurnsInv'
    BY <1>1, <1>3, <2>1, PruningKeeps
  <2>3. \A q \in Says : q # r => say'[q] = say[q]
    BY <1>2, <2>1
  <2>4. say'[r].pc = "done"
    BY <1>2, <1>3, <2>1
  <2> QED
    BY <1>1, <2>2, <2>3, <2>4 DEF TalkInv, TurnsInv, OffersAreShown, IsOffer
<1>7. CASE /\ key \notin DOMAIN Real!TurnsKept
           /\ ~active /\ Real!Cardinality(DOMAIN Real!TurnsKept) < MaxTurns
  <2>1. /\ active' = TRUE /\ say' = [say EXCEPT ![r] = begun]
        /\ turns' = Real!Put(Real!TurnsKept, key,
             [remark |-> remark, answer |-> Null, expires |-> now + TurnRetention])
    BY <1>7 DEF Real!Say
  <2> HIDE DEF begun
  <2>2. TurnsInv'
    BY <1>1, <1>4, <1>7, <2>1, TurnStarts
  <2>3. \A q \in Says : q # r => say'[q] = say[q]
    BY <1>2, <2>1
  <2>4. say'[r].pc = "context"
    BY <1>2, <1>4, <2>1
  <2> QED
    BY <1>1, <2>2, <2>3, <2>4 DEF TalkInv, TurnsInv, OffersAreShown, IsOffer
<1> QED
  BY <1>5, <1>6, <1>7

LEMMA ContextKeeps ==
  ASSUME Real!RealConversationAssumption, TalkInv, NEW r \in Says, Real!Context(r)
  PROVE  TalkInv'
<1> DEFINE held == realCase.revision
           goesOn == ~Real!MustAcknowledge(r) \/ Real!AckFits(r, held)
           kind == say[r].remark.kind
<1>1. AtWork(r) /\ UNCHANGED <<now, realCase>> /\ held \in Nat
  BY DEF Real!Context, AtWork, TalkInv, OffersAreShown
<1>2. DOMAIN warnings' \subseteq Says
  <2>1. DOMAIN warnings \subseteq Says
    BY DEF TalkInv, SaysTyped
  <2>2. \/ warnings' = warnings
        \/ \E w : warnings' = Real!Put(warnings, r, w)
        \/ \E i, w : warnings' = [warnings EXCEPT ![i] = w]
    BY DEF Real!Context
  <2> QED
    BY <2>1, <2>2 DEF Real!Put
<1>3. pending' \in {pending, Null}
  BY DEF Real!Context, Real!Offer
<1>4. \/ say' = [say EXCEPT ![r].pc = "fetch", ![r].revision = held] /\ UNCHANGED <<turns, active>>
      \/ /\ say' = [say EXCEPT ![r].pc = "save", ![r].revision = held]
         /\ UNCHANGED <<turns, active>> /\ pending' # Null
      \/ Real!Fail(r)
      \/ Real!Respond(r)
  <2>1. CASE ~goesOn
    BY <2>1 DEF Real!Context
  <2>2. CASE goesOn /\ kind = "link"
    BY <2>2 DEF Real!Context
  <2>3. CASE goesOn /\ kind = "confirm" /\ pending' # Null
    BY <2>3 DEF Real!Context
  <2>4. CASE goesOn /\ kind = "confirm" /\ pending' = Null
    BY <2>4 DEF Real!Context
  <2>5. CASE goesOn /\ kind # "link" /\ kind # "confirm"
    BY <2>5 DEF Real!Context
  <2> QED
    BY <2>1, <2>2, <2>3, <2>4, <2>5
<1>5. /\ TurnsInv'
      /\ say'[r].pc = "save" => pending' # Null
      /\ \A q \in Says : q # r => say'[q] = say[q] /\ ~AtWork(q)
  <2>1. CASE say' = [say EXCEPT ![r].pc = "fetch", ![r].revision = held] /\ UNCHANGED <<turns, active>>
    <3> HIDE DEF held
    <3> QED
      BY <1>1, <1>2, <2>1, TurnGoesOn
  <2>2. CASE /\ say' = [say EXCEPT ![r].pc = "save", ![r].revision = held]
             /\ UNCHANGED <<turns, active>> /\ pending' # Null
    <3> HIDE DEF held
    <3> QED
      BY <1>1, <1>2, <2>2, TurnGoesOn
  <2>3. CASE Real!Fail(r)
    BY <1>1, <1>2, <2>3, TurnFails
  <2>4. CASE Real!Respond(r)
    BY <1>1, <1>2, <2>4, TurnResponds
  <2> QED
    BY <1>4, <2>1, <2>2, <2>3, <2>4
<1>6. OffersAreShown'
  BY <1>1, <1>3, <1>5, TalkerIsTyped, OffersStay
<1> QED
  BY <1>5, <1>6 DEF TalkInv, TurnsInv

LEMMA TurnFailsKeeps ==
  ASSUME TalkInv, NEW r \in Says,
         Real!ContextFails(r) \/ Real!FetchFails(r) \/ Real!SaveFails(r)
  PROVE  TalkInv'
<1>1. AtWork(r) /\ Real!Fail(r) /\ UNCHANGED <<now, pending, warnings, realCase>>
  BY DEF Real!ContextFails, Real!FetchFails, Real!SaveFails, AtWork
<1>2. DOMAIN warnings' \subseteq Says
  BY <1>1 DEF TalkInv, SaysTyped
<1>3. /\ TurnsInv' /\ say'[r].pc = "done"
      /\ \A q \in Says : q # r => say'[q] = say[q] /\ ~AtWork(q)
  BY <1>1, <1>2, TurnFails
<1>4. OffersAreShown'
  BY <1>1, <1>3, TalkerIsTyped, OffersStay
<1> QED
  BY <1>3, <1>4 DEF TalkInv, TurnsInv

LEMMA FetchedKeeps ==
  ASSUME Real!RealConversationAssumption, TalkInv, NEW r \in Says, NEW fetched \in Pages,
         Real!Fetched(r, fetched)
  PROVE  TalkInv'
<1>1. AtWork(r) /\ Real!Respond(r) /\ UNCHANGED <<now, warnings, realCase>>
  BY DEF Real!Fetched, AtWork
<1>2. DOMAIN warnings' \subseteq Says
  BY <1>1 DEF TalkInv, SaysTyped
<1>3. /\ TurnsInv' /\ say'[r].pc = "done" /\ say'[r].answer = r
      /\ \A q \in Says : q # r => say'[q] = say[q] /\ ~AtWork(q)
  BY <1>1, <1>2, TurnResponds
<1>4. OffersAreShown'
  <2>1. say[r].revision \in Nat /\ say[r].pc # "done"
    BY <1>1, TalkerIsTyped DEF Saying
  <2>2. IsOffer(pending)' /\ pending'.offer = r
    BY <1>3, <2>1 DEF Real!Fetched, IsOffer
  <2>3. realCase.listing # Null => IsOffer(realCase.listing)' /\ realCase.listing.offer # r
    BY <1>1, <1>3, <2>1 DEF TalkInv, OffersAreShown, IsOffer
  <2>4. \A q \in Says : say'[q].pc # "save"
    BY <1>3 DEF AtWork
  <2> QED
    BY <1>1, <2>2, <2>3, <2>4 DEF TalkInv, OffersAreShown
<1> QED
  BY <1>3, <1>4 DEF TalkInv, TurnsInv

LEMMA SaveListingKeeps ==
  ASSUME Real!RealConversationAssumption, TalkInv, NEW r \in Says, NEW answered \in BOOLEAN,
         Real!SaveListing(r, answered)
  PROVE  TalkInv'
<1>1. /\ AtWork(r) /\ UNCHANGED <<now, warnings>> /\ say[r].pc = "save"
      /\ \/ Real!Fail(r) /\ UNCHANGED pending
         \/ Real!Respond(r) /\ pending' = Null
  BY DEF Real!SaveListing, AtWork
<1>2. DOMAIN warnings' \subseteq Says
  BY <1>1 DEF TalkInv, SaysTyped
<1>3. /\ TurnsInv' /\ say'[r].pc = "done"
      /\ \A q \in Says : q # r => say'[q] = say[q] /\ ~AtWork(q)
  BY <1>1, <1>2, TurnFails, TurnResponds
<1>4. OffersAreShown'
  <2>1. /\ pending # Null /\ IsOffer(pending) /\ realCase.revision \in Nat
        /\ realCase = [revision |-> realCase.revision, listing |-> realCase.listing,
                       others |-> realCase.others]
    BY <1>1 DEF TalkInv, OffersAreShown
  <2>2. say[r].pc # "done" /\ \A q \in Says : say'[q].pc # "save"
    BY <1>1, <1>3 DEF AtWork
  <2>3. CASE realCase.revision # pending.revision
    <3>1. UNCHANGED realCase /\ pending' \in {pending, Null}
      BY <1>1, <2>3 DEF Real!SaveListing, Real!SavesAtRevision
    <3> QED
      BY <1>3, <2>2, <3>1, OffersStay
  <2>4. CASE realCase.revision = pending.revision
    <3>1. realCase' = [revision |-> realCase.revision + 1, listing |-> pending,
                       others |-> realCase.others]
      BY <2>1, <2>4 DEF Real!SaveListing, Real!SavesAtRevision
    <3>2. IsOffer(pending) /\ pending.offer # r
      BY <2>1, <2>2 DEF IsOffer
    <3>3. /\ pending.offer \in Says /\ say'[pending.offer] = say[pending.offer]
          /\ pending.revision \in Nat
      BY <1>3, <3>2 DEF IsOffer
    <3>4. IsOffer(realCase.listing)' /\ realCase'.listing = pending
      BY <3>1, <3>2, <3>3 DEF IsOffer
    <3>5. pending' # Null => pending' = pending /\ IsOffer(pending)'
      BY <1>1, <3>2, <3>3 DEF IsOffer
    <3>6. realCase'.revision = realCase.revision + 1
      BY <3>1
    <3> QED
      BY <2>1, <2>2, <2>4, <3>1, <3>3, <3>4, <3>5, <3>6 DEF OffersAreShown
  <2> QED
    BY <2>3, <2>4
<1> QED
  BY <1>3, <1>4 DEF TalkInv, TurnsInv

LEMMA OthersKeep ==
  ASSUME TalkInv, Real!OthersChange
  PROVE  TalkInv'
<1>1. UNCHANGED <<now, say, turns, active, pending, warnings>>
  BY DEF Real!OthersChange
<1>2. TurnsInv'
  BY <1>1 DEF TurnsInv, TalkInv, SaysTyped, TurnsTyped, OneTalks, OpenTurnsAreAtWork,
              RepliesAreKept, AtWork, IsTurn
<1>3. /\ realCase'.revision = realCase.revision + 1 /\ realCase'.listing = realCase.listing
      /\ realCase' = [revision |-> realCase'.revision, listing |-> realCase'.listing,
                      others |-> realCase'.others]
      /\ realCase.revision \in Nat
  BY DEF Real!OthersChange, TalkInv, OffersAreShown
<1>4. pending # Null => pending.revision \in Nat
  BY DEF TalkInv, OffersAreShown, IsOffer
<1>5. OffersAreShown'
  BY <1>1, <1>3, <1>4 DEF TalkInv, OffersAreShown, IsOffer
<1> QED
  BY <1>2, <1>5 DEF TalkInv, TurnsInv

LEMMA TimeKeepsTalk ==
  ASSUME Real!RealConversationAssumption, TalkInv, now' \in {now, now + 1}, UNCHANGED talkVars
  PROVE  TalkInv'
<1>1. /\ UNCHANGED <<say, turns, active, pending, warnings, realCase>> /\ TurnRetention \in Nat
      /\ now \in Nat
  BY DEF talkVars, Real!RealConversationAssumption, TalkInv, SaysTyped
<1>2. SaysTyped' /\ (now' < TurnRetention => now < TurnRetention)
  BY <1>1 DEF TalkInv, SaysTyped, AtWork
<1>3. RepliesAreKept'
  BY <1>1, <1>2 DEF TalkInv, RepliesAreKept, AtWork
<1> QED
  BY <1>1, <1>2, <1>3 DEF TalkInv, TurnsTyped, OneTalks, OpenTurnsAreAtWork, OffersAreShown,
                          AtWork, IsTurn, IsOffer

LEMMA TalkKeeps ==
  ASSUME Real!RealConversationAssumption, TalkInv, [Real!TalkNext]_<<now, talkVars>>
  PROVE  TalkInv'
<1>1. CASE UNCHANGED <<now, talkVars>>
  BY <1>1, TimeKeepsTalk
<1>2. CASE Real!TalkTime
  BY <1>2, TimeKeepsTalk DEF Real!TalkTime, Real!Advance, Real!talkVars, talkVars
<1>3. CASE Real!TalkNext
  <2>1. ASSUME NEW r \in Says PROVE
          Real!Context(r) \/ Real!ContextFails(r) \/ Real!FetchFails(r) \/ Real!SaveFails(r) => TalkInv'
    BY <2>1, ContextKeeps, TurnFailsKeeps
  <2> QED
    BY <1>2, <1>3, <2>1, SayKeeps, FetchedKeeps, SaveListingKeeps, OthersKeep DEF Real!TalkNext
<1> QED
  BY <1>1, <1>3

LEMMA RepliesAreOne ==
  ASSUME TalkInv
  PROVE  Real!OneReplyPerKey
<1>1. ASSUME NEW r \in Says, NEW q \in Says, now < TurnRetention,
             say[r].answer # Null, say[q].answer # Null, say[r].key = say[q].key
      PROVE  say[r].answer = say[q].answer /\ say[r].remark = say[q].remark
  BY <1>1 DEF TalkInv, RepliesAreKept
<1> QED
  BY <1>1 DEF Real!OneReplyPerKey

LEMMA CountOfTurns ==
  ASSUME NEW S
  PROVE  Real!Cardinality(S) = Cardinality(S)
  BY DEF Real!Cardinality, Cardinality, Real!IsFiniteSet, IsFiniteSet

LEMMA TurnHolds ==
  ASSUME TalkInv
  PROVE  Real!TurnHoldsItsCase
<1> DEFINE busy == {r \in Says : say[r].pc \in {"context", "fetch", "save"}}
<1>1. \A r \in Says : r \in busy <=> AtWork(r)
  BY DEF AtWork
<1>2. (active <=> busy # {}) /\ \A r, q \in busy : r = q
  BY <1>1 DEF TalkInv, OneTalks
<1>3. Real!Cardinality(busy) <= 1
  <2>1. CASE busy = {}
    BY <2>1, FS_EmptySet, CountOfTurns
  <2>2. CASE busy # {}
    <3>1. PICK r : busy = {r}
      BY <1>2, <2>2
    <3>2. Cardinality({r}) = 1
      BY FS_Singleton
    <3> QED
      BY <3>1, <3>2, CountOfTurns
  <2> QED
    BY <2>1, <2>2
<1>4. \A k \in DOMAIN turns : turns[k].answer = Null => \E r \in busy : say[r].key = k
  BY <1>1 DEF TalkInv, OpenTurnsAreAtWork
<1> QED
  BY <1>2, <1>3, <1>4 DEF Real!TurnHoldsItsCase

(* A listing is added only as it was offered.                              *)
AddedAsOffered ==
  realCase'.listing # realCase.listing =>
    LET added == realCase'.listing IN
    /\ say[added.offer].pc = "done" /\ say[added.offer].answer = added.offer
    /\ added.revision = realCase.revision
    /\ realCase.listing # Null => realCase.listing.offer # added.offer

LEMMA ListingsAreAdded ==
  ASSUME TalkInv, [Real!TalkNext]_<<now, talkVars>>
  PROVE  AddedAsOffered
<1>1. \/ realCase'.listing = realCase.listing
      \/ \E r \in Says, answered \in BOOLEAN :
           Real!SaveListing(r, answered) /\ Real!SavesAtRevision
  <2>1. realCase = [revision |-> realCase.revision, listing |-> realCase.listing,
                    others |-> realCase.others]
    BY DEF TalkInv, OffersAreShown
  <2>2. CASE Real!OthersChange
    BY <2>1, <2>2 DEF Real!OthersChange
  <2>3. CASE UNCHANGED realCase
    BY <2>3
  <2>4. CASE \E r \in Says, answered \in BOOLEAN : Real!SaveListing(r, answered)
    BY <2>4 DEF Real!SaveListing
  <2>5. Real!OthersChange \/ UNCHANGED realCase
        \/ \E r \in Says, answered \in BOOLEAN : Real!SaveListing(r, answered)
    <3>1. CASE UNCHANGED <<now, talkVars>>
      BY <3>1 DEF talkVars
    <3>2. CASE Real!TalkNext
      BY <3>2 DEF Real!TalkNext, Real!TalkTime, Real!talkVars, Real!Say, Real!Context,
                  Real!ContextFails, Real!FetchFails, Real!SaveFails, Real!Fetched
    <3> QED
      BY <3>1, <3>2
  <2> QED
    BY <2>2, <2>3, <2>4, <2>5
<1>2. ASSUME NEW r \in Says, NEW answered \in BOOLEAN,
             Real!SaveListing(r, answered), Real!SavesAtRevision
      PROVE  AddedAsOffered
  <2>1. /\ realCase = [revision |-> realCase.revision, listing |-> realCase.listing,
                       others |-> realCase.others]
        /\ realCase.revision \in Nat /\ pending # Null /\ IsOffer(pending)
    BY <1>2 DEF Real!SaveListing, TalkInv, OffersAreShown
  <2>2. realCase'.listing = pending /\ pending.revision = realCase.revision
    BY <1>2, <2>1 DEF Real!SaveListing, Real!SavesAtRevision
  <2>3. realCase.listing # Null => realCase.listing.offer # pending.offer
    BY <2>1, <2>2 DEF TalkInv, OffersAreShown
  <2> QED
    BY <2>1, <2>2, <2>3 DEF AddedAsOffered, IsOffer
<1> QED
  BY <1>1, <1>2 DEF AddedAsOffered

(* In the conversation about an uploaded case one turn works at a time,    *)
(* however turns fail and repeat, and two turns with one key get one       *)
(* answer as long as no record can have expired.                           *)
THEOREM TalkIsSafe ==
  ASSUME Real!RealConversationAssumption
  PROVE  Real!TalkSpec => [](Real!TurnHoldsItsCase /\ Real!OneReplyPerKey)
<1>1. Real!ClockInit /\ Real!TalkInit => TalkInv
  BY TalkStarts DEF Real!ClockInit, ClockInit
<1>2. TalkInv /\ [Real!TalkNext]_<<now, Real!talkVars>> => TalkInv'
  BY TalkKeeps DEF Real!talkVars, talkVars
<1>3. TalkInv => Real!TurnHoldsItsCase /\ Real!OneReplyPerKey
  BY TurnHolds, RepliesAreOne
<1> QED
  BY <1>1, <1>2, <1>3, PTL DEF Real!TalkSpec

-----------------------------------------------------------------------------
(* The guided conversation.  A completed record names the turn that was    *)
(* answered and keeps its answer for CompletedRetention; two turns that    *)
(* were answered anew under one key are that long apart, whatever became   *)
(* of the pending operations in between.                                   *)
Sending ==
  [pc : {"unsent", "load", "reserve", "extract", "answer", "done"}, key : Keys \cup {Null},
   text : Texts \cup {Null}, reply : Turns \cup {Null}, ack : Turns \cup {Null}, at : Nat]

InWork(p) == turn[p].pc \in {"load", "reserve", "extract", "answer"}

(* The turn p was answered anew.                                           *)
Anew(p) == turn[p].reply = p
Forgotten(p) == turn[p].at + CompletedRetention

SendersTyped ==
  /\ now \in Nat /\ turn \in [Turns -> Sending]
  /\ \A p \in Turns : turn[p].at <= now
  /\ \A p \in Turns : turn[p].reply # Null => turn[p].pc = "done"

IsRecord(r) ==
  /\ r = [state |-> r.state, case |-> r.case, payload |-> r.payload, lease |-> r.lease,
          result |-> r.result, expires |-> r.expires]
  /\ r.state \in {"pending", "completed"} /\ r.expires \in Nat

PendingIsTheirs(k, r) ==
  r.state = "pending" =>
    /\ r.lease \in Turns /\ turn[r.lease].pc # "unsent"
    /\ InWork(r.lease) => turn[r.lease].key = k /\ turn[r.lease].text = r.payload

CompletedIsTheirs(k, r) ==
  r.state = "completed" =>
    /\ r.result \in Turns /\ Anew(r.result)
    /\ turn[r.result].key = k /\ turn[r.result].text = r.payload
    /\ r.expires = Forgotten(r.result)

RecordsAreTheirs ==
  \A k \in DOMAIN store.records :
    LET r == store.records[k] IN IsRecord(r) /\ PendingIsTheirs(k, r) /\ CompletedIsTheirs(k, r)

AnswersAreRemembered ==
  \A p \in Turns : Anew(p) /\ now < Forgotten(p) =>
    /\ turn[p].key \in DOMAIN store.records
    /\ store.records[turn[p].key].state = "completed" /\ store.records[turn[p].key].result = p

AnewIsApart ==
  \A p, q \in Turns : Anew(p) /\ Anew(q) /\ turn[p].key = turn[q].key =>
    p = q \/ turn[p].at >= Forgotten(q) \/ turn[q].at >= Forgotten(p)

RepliesAreTheirs ==
  \A p \in Turns : turn[p].reply # Null =>
    LET r == turn[p].reply IN
    /\ Anew(r) /\ turn[p].key = turn[r].key /\ turn[p].text = turn[r].text
    /\ turn[r].at <= turn[p].at /\ turn[p].at < Forgotten(r)

IsAck(a) ==
  a = [case |-> a.case, revision |-> a.revision, payload |-> a.payload,
       expires |-> a.expires, status |-> a.status]

AcksAreSpent ==
  /\ \A i \in DOMAIN acks : i \in Turns /\ turn[i].pc # "unsent" /\ IsAck(acks[i])
  /\ \A p \in Turns : turn[p].ack # Null =>
       LET i == turn[p].ack IN
       turn[i].pc # "unsent" /\ (i \in DOMAIN acks => acks[i].status = "consumed")
  /\ \A p, q \in Turns : turn[p].ack # Null /\ turn[p].ack = turn[q].ack => p = q

GuidedInv ==
  /\ SendersTyped
  /\ RecordsAreTheirs
  /\ AnswersAreRemembered
  /\ AnewIsApart
  /\ RepliesAreTheirs
  /\ AcksAreSpent

RepliesInv ==
  SendersTyped /\ RecordsAreTheirs /\ AnswersAreRemembered /\ AnewIsApart /\ RepliesAreTheirs

LEMMA GuidedStarts ==
  ASSUME Guided!TurnsAssumption, ClockInit, Guided!TurnsInit
  PROVE  GuidedInv
<1>1. /\ Guided!Unsent \in Sending /\ Guided!Unsent.reply = Null /\ Guided!Unsent.ack = Null
      /\ Guided!Unsent.pc = "unsent" /\ Guided!Unsent.at = 0
  BY DEF Guided!Unsent, Sending
<1>2. /\ now = 0 /\ turn \in [Turns -> Sending] /\ \A p \in Turns : turn[p] = Guided!Unsent
      /\ DOMAIN store.records = {} /\ DOMAIN acks = {}
  BY <1>1 DEF ClockInit, Guided!TurnsInit, Guided!EmptyStore, Guided!Empty
<1>3. \A p \in Turns : ~Anew(p)
  BY <1>1, <1>2 DEF Anew, Guided!TurnsAssumption
<1>4. SendersTyped
  BY <1>1, <1>2 DEF SendersTyped
<1> QED
  BY <1>1, <1>2, <1>3, <1>4 DEF GuidedInv, RecordsAreTheirs, AnswersAreRemembered, AnewIsApart,
                                RepliesAreTheirs, AcksAreSpent

LEMMA PrunedRecords ==
  ASSUME NEW s, NEW time
  PROVE  /\ DOMAIN Guided!Pruned(s, time).records =
              {k \in DOMAIN s.records : ~(time >= s.records[k].expires)}
         /\ \A k \in DOMAIN Guided!Pruned(s, time).records :
              Guided!Pruned(s, time).records[k] = s.records[k]
  BY DEF Guided!Pruned, Guided!Drop, Guided!Restrict

(* Records go when they expire, and pending ones when they are released.   *)
Shrinks ==
  /\ DOMAIN store'.records \subseteq DOMAIN store.records
  /\ \A k \in DOMAIN store'.records : store'.records[k] = store.records[k]
  /\ \A k \in DOMAIN store.records :
       store.records[k].state = "completed" /\ now < store.records[k].expires
       => k \in DOMAIN store'.records

LEMMA TimesAreNumbers ==
  ASSUME GuidedInv, NEW k \in DOMAIN store.records
  PROVE  /\ now \in Nat /\ store.records[k].expires \in Nat
         /\ now < store.records[k].expires <=> ~(now >= store.records[k].expires)
<1>1. now \in Nat /\ store.records[k].expires \in Nat
  BY DEF GuidedInv, SendersTyped, RecordsAreTheirs, IsRecord
<1> QED
  BY <1>1

LEMMA PruningShrinks ==
  ASSUME GuidedInv, store' = Guided!Pruned(store, now)
  PROVE  Shrinks
<1>1. \A k \in DOMAIN store.records : now < store.records[k].expires => ~(now >= store.records[k].expires)
  BY TimesAreNumbers
<1> QED
  BY <1>1, PrunedRecords DEF Shrinks

LEMMA ReleaseShrinks ==
  ASSUME GuidedInv, NEW key, NEW p, store' = Guided!AfterRelease(store, key, p, now)
  PROVE  Shrinks
<1> DEFINE s == Guided!Pruned(store, now)
<1>1. \A k \in DOMAIN store.records : now < store.records[k].expires => ~(now >= store.records[k].expires)
  BY TimesAreNumbers
<1>2. /\ DOMAIN s.records = {k \in DOMAIN store.records : ~(now >= store.records[k].expires)}
      /\ \A k \in DOMAIN s.records : s.records[k] = store.records[k]
  BY PrunedRecords
<1>3. CASE Guided!HoldsLease(s, key, p)
  <2>1. key \in DOMAIN s.records /\ s.records[key].state = "pending"
    BY <1>3 DEF Guided!HoldsLease
  <2>2. store' = Guided!Released(s, key)
    BY <1>3 DEF Guided!AfterRelease
  <2>3. /\ DOMAIN store'.records = DOMAIN s.records \ {key}
        /\ \A k \in DOMAIN store'.records : store'.records[k] = s.records[k]
    <3> HIDE DEF s
    <3> QED
      BY <2>2 DEF Guided!Released, Guided!Drop, Guided!Restrict
  <2> HIDE DEF s
  <2> QED
    BY <1>1, <1>2, <2>1, <2>3 DEF Shrinks
<1>4. CASE ~Guided!HoldsLease(s, key, p)
  <2>1. store' = s
    BY <1>4 DEF Guided!AfterRelease
  <2> QED
    BY <2>1, PruningShrinks
<1> QED
  BY <1>3, <1>4

(* A turn that goes on, ends without an answer, or is answered from the    *)
(* record.                                                                 *)
LEMMA ShrinkKeeps ==
  ASSUME Guided!TurnsAssumption, GuidedInv, UNCHANGED now, Shrinks,
         NEW p \in Turns, turn[p].pc # "done", NEW new \in Sending, turn' = [turn EXCEPT ![p] = new],
         new.pc # "unsent", new.at <= now,
         \/ /\ new.reply = Null
            /\ \/ new.pc = "done"
               \/ InWork(p) /\ new.key = turn[p].key /\ new.text = turn[p].text
         \/ /\ new.pc = "done" /\ new.reply \in Turns /\ Anew(new.reply)
            /\ new.key = turn[new.reply].key /\ new.text = turn[new.reply].text
            /\ turn[new.reply].at <= new.at /\ new.at < Forgotten(new.reply)
  PROVE  RepliesInv'
<1>1. /\ turn' \in [Turns -> Sending] /\ \A q \in Turns : q # p => turn'[q] = turn[q]
      /\ turn'[p] = new /\ turn[p].reply = Null
  BY DEF GuidedInv, SendersTyped
<1>2. \A q \in Turns : /\ Anew(q)' <=> Anew(q)
                       /\ Anew(q) => turn'[q] = turn[q] /\ Forgotten(q)' = Forgotten(q)
  BY <1>1 DEF Anew, Forgotten, Guided!TurnsAssumption
<1>3. \A q \in Turns : /\ InWork(q)' => InWork(q) /\ turn'[q].key = turn[q].key /\ turn'[q].text = turn[q].text
                       /\ turn[q].pc # "unsent" => turn'[q].pc # "unsent"
  BY <1>1 DEF InWork
<1>4. SendersTyped'
  <2>1. \A q \in Turns : turn'[q].at <= now /\ (turn'[q].reply # Null => turn'[q].pc = "done")
    BY <1>1 DEF GuidedInv, SendersTyped
  <2> QED
    BY <1>1, <2>1 DEF GuidedInv, SendersTyped
<1>5. RecordsAreTheirs'
  <2>1. ASSUME NEW k \in DOMAIN store'.records
        PROVE  /\ IsRecord(store.records[k])' /\ PendingIsTheirs(k, store.records[k])'
               /\ CompletedIsTheirs(k, store.records[k])'
    <3> DEFINE r == store.records[k]
    <3>1. store'.records[k] = r /\ IsRecord(r) /\ PendingIsTheirs(k, r) /\ CompletedIsTheirs(k, r)
      BY <2>1 DEF Shrinks, GuidedInv, RecordsAreTheirs
    <3>2. IsRecord(r)' /\ r' = r
      BY <3>1 DEF IsRecord
    <3> HIDE DEF r
    <3>3. PendingIsTheirs(k, r)'
      BY <1>3, <3>1, <3>2 DEF PendingIsTheirs
    <3>4. CompletedIsTheirs(k, r)'
      BY <1>2, <3>1, <3>2 DEF CompletedIsTheirs
    <3> QED
      BY <3>1, <3>2, <3>3, <3>4 DEF r
  <2> QED
    BY <2>1 DEF RecordsAreTheirs
<1>6. AnswersAreRemembered'
  <2>1. ASSUME NEW q \in Turns, Anew(q), now < Forgotten(q)
        PROVE  /\ turn[q].key \in DOMAIN store'.records
               /\ store'.records[turn[q].key].state = "completed"
               /\ store'.records[turn[q].key].result = q
    <3>1. /\ turn[q].key \in DOMAIN store.records
          /\ store.records[turn[q].key].state = "completed"
          /\ store.records[turn[q].key].result = q
      BY <2>1 DEF GuidedInv, AnswersAreRemembered
    <3>2. store.records[turn[q].key].expires = Forgotten(q)
      BY <3>1 DEF GuidedInv, RecordsAreTheirs, CompletedIsTheirs
    <3> QED
      BY <2>1, <3>1, <3>2 DEF Shrinks
  <2> QED
    BY <1>2, <2>1 DEF AnswersAreRemembered
<1>7. AnewIsApart'
  BY <1>2 DEF GuidedInv, AnewIsApart
<1>8. RepliesAreTheirs'
  <2>1. ASSUME NEW q \in Turns, turn'[q].reply # Null
        PROVE  LET r == turn'[q].reply IN
               /\ r \in Turns /\ Anew(r) /\ turn'[q].key = turn[r].key /\ turn'[q].text = turn[r].text
               /\ turn[r].at <= turn'[q].at /\ turn'[q].at < Forgotten(r)
    <3>1. CASE q = p
      BY <1>1, <2>1, <3>1
    <3>2. CASE q # p
      BY <1>1, <2>1, <3>2 DEF GuidedInv, RepliesAreTheirs, SendersTyped, Sending
    <3> QED
      BY <3>1, <3>2
  <2> QED
    BY <1>2, <2>1 DEF RepliesAreTheirs
<1> QED
  BY <1>4, <1>5, <1>6, <1>7, <1>8 DEF RepliesInv

(* The operation begins: a pending record for a key that had none.         *)
LEMMA AcquiredKeeps ==
  ASSUME Guided!TurnsAssumption, Guided!StoreOptionsAssumption, GuidedInv, UNCHANGED now,
         NEW p \in Turns, turn[p].pc = "unsent", NEW new \in Sending, turn' = [turn EXCEPT ![p] = new],
         new.pc # "unsent", new.reply = Null, new.at <= now, NEW key, NEW text,
         new.key = key, new.text = text, key \notin DOMAIN Guided!Pruned(store, now).records,
         store' = Guided!Acquired(Guided!Pruned(store, now), key, TheCase, text, p, now)
  PROVE  RepliesInv'
<1> DEFINE s == Guided!Pruned(store, now)
           entry == [state |-> "pending", case |-> TheCase, payload |-> text, lease |-> p,
                     result |-> Null, expires |-> now + PendingTtl]
<1>1. /\ turn' \in [Turns -> Sending] /\ \A q \in Turns : q # p => turn'[q] = turn[q]
      /\ turn'[p] = new /\ turn[p].reply = Null
  BY DEF GuidedInv, SendersTyped
<1>2. \A q \in Turns : /\ Anew(q)' <=> Anew(q)
                       /\ Anew(q) => turn'[q] = turn[q] /\ Forgotten(q)' = Forgotten(q)
  BY <1>1 DEF Anew, Forgotten, Guided!TurnsAssumption
<1>3. /\ DOMAIN s.records = {k \in DOMAIN store.records : ~(now >= store.records[k].expires)}
      /\ \A k \in DOMAIN s.records : s.records[k] = store.records[k]
  BY PrunedRecords
<1> HIDE DEF s
<1>4. /\ DOMAIN store'.records = DOMAIN s.records \cup {key} /\ store'.records[key] = entry
      /\ \A k \in DOMAIN s.records : store'.records[k] = s.records[k]
  BY DEF Guided!Acquired, Guided!Put, s
<1>5. SendersTyped'
  <2>1. \A q \in Turns : turn'[q].at <= now /\ (turn'[q].reply # Null => turn'[q].pc = "done")
    BY <1>1 DEF GuidedInv, SendersTyped
  <2> QED
    BY <1>1, <2>1 DEF GuidedInv, SendersTyped
<1>6. RecordsAreTheirs'
  <2>1. ASSUME NEW k \in DOMAIN s.records
        PROVE  /\ IsRecord(store.records[k])' /\ PendingIsTheirs(k, store.records[k])'
               /\ CompletedIsTheirs(k, store.records[k])'
    <3> DEFINE r == store.records[k]
    <3>1. r' = r /\ IsRecord(r) /\ PendingIsTheirs(k, r) /\ CompletedIsTheirs(k, r)
      BY <1>3, <1>4, <2>1 DEF GuidedInv, RecordsAreTheirs
    <3>2. IsRecord(r)'
      BY <3>1 DEF IsRecord
    <3> HIDE DEF r
    <3>3. PendingIsTheirs(k, r)'
      BY <1>1, <3>1 DEF PendingIsTheirs, InWork
    <3>4. CompletedIsTheirs(k, r)'
      BY <1>2, <3>1 DEF CompletedIsTheirs
    <3> QED
      BY <3>2, <3>3, <3>4 DEF r
  <2>2. /\ IsRecord(store.records[key])' /\ PendingIsTheirs(key, store.records[key])'
        /\ CompletedIsTheirs(key, store.records[key])'
    <3>1. now + PendingTtl \in Nat
      BY DEF GuidedInv, SendersTyped, Guided!StoreOptionsAssumption
    <3> QED
      BY <1>1, <1>4, <3>1 DEF IsRecord, PendingIsTheirs, CompletedIsTheirs
  <2> QED
    BY <1>4, <2>1, <2>2 DEF RecordsAreTheirs
<1>7. AnswersAreRemembered'
  <2>1. ASSUME NEW q \in Turns, Anew(q), now < Forgotten(q)
        PROVE  /\ turn[q].key \in DOMAIN store'.records
               /\ store'.records[turn[q].key].state = "completed"
               /\ store'.records[turn[q].key].result = q
    <3>1. /\ turn[q].key \in DOMAIN store.records
          /\ store.records[turn[q].key].state = "completed"
          /\ store.records[turn[q].key].result = q
      BY <2>1 DEF GuidedInv, AnswersAreRemembered
    <3>2. store.records[turn[q].key].expires = Forgotten(q)
      BY <3>1 DEF GuidedInv, RecordsAreTheirs, CompletedIsTheirs
    <3>3. turn[q].key \in DOMAIN s.records
      BY <1>3, <2>1, <3>1, <3>2, TimesAreNumbers
    <3> QED
      BY <1>3, <1>4, <3>1, <3>3
  <2> QED
    BY <1>2, <2>1 DEF AnswersAreRemembered
<1>8. AnewIsApart'
  BY <1>2 DEF GuidedInv, AnewIsApart
<1>9. RepliesAreTheirs'
  <2>1. ASSUME NEW q \in Turns, turn'[q].reply # Null
        PROVE  LET r == turn'[q].reply IN
               /\ r \in Turns /\ Anew(r) /\ turn'[q].key = turn[r].key /\ turn'[q].text = turn[r].text
               /\ turn[r].at <= turn'[q].at /\ turn'[q].at < Forgotten(r)
    <3>1. q # p
      BY <1>1, <2>1
    <3> QED
      BY <1>1, <2>1, <3>1 DEF GuidedInv, RepliesAreTheirs, SendersTyped, Sending
  <2> QED
    BY <1>2, <2>1 DEF RepliesAreTheirs
<1> QED
  BY <1>5, <1>6, <1>7, <1>8, <1>9 DEF RepliesInv

LEMMA GivenUpKeeps ==
  ASSUME Guided!TurnsAssumption, GuidedInv, UNCHANGED now, NEW p \in Turns, turn[p].pc # "done",
         Guided!Refuse(p), Shrinks
  PROVE  RepliesInv' /\ \E new \in Sending : /\ turn' = [turn EXCEPT ![p] = new]
                                             /\ new.ack = Null /\ new.pc # "unsent"
<1>1. /\ Guided!Refused \in Sending /\ Guided!Refused.reply = Null /\ Guided!Refused.ack = Null
      /\ Guided!Refused.pc = "done" /\ Guided!Refused.at = 0
  BY DEF Guided!Refused, Guided!Unsent, Sending
<1>2. turn' = [turn EXCEPT ![p] = Guided!Refused] /\ now \in Nat
  BY DEF Guided!Refuse, GuidedInv, SendersTyped
<1>3. Guided!Refused.at <= now /\ Guided!Refused.pc # "unsent"
  BY <1>1, <1>2
<1>4. RepliesInv'
  BY <1>1, <1>2, <1>3, ShrinkKeeps
<1> QED
  BY <1>1, <1>2, <1>3, <1>4

LEMMA SentIsTyped ==
  ASSUME GuidedInv, NEW key \in Keys, NEW text \in Texts, NEW ack \in Turns \cup {Null}
  PROVE  LET asked == Guided!Sent(key, text, ack) IN
         /\ asked \in Sending /\ asked.key = key /\ asked.text = text /\ asked.ack = ack
         /\ asked.at = now /\ asked.reply = Null /\ now \in Nat
  BY DEF Guided!Sent, Guided!Unsent, Sending, GuidedInv, SendersTyped

LEMMA BeginKeeps ==
  ASSUME Guided!TurnsAssumption, Guided!StoreOptionsAssumption, GuidedInv, UNCHANGED now,
         NEW p \in Turns, turn[p].pc = "unsent", NEW key \in Keys, NEW text \in Texts,
         NEW ack \in Turns \cup {Null}, Guided!Begin(p, key, text, ack)
  PROVE  RepliesInv' /\ \E new \in Sending : /\ turn' = [turn EXCEPT ![p] = new]
                                             /\ new.ack \in {Null, ack} /\ new.pc # "unsent"
<1> DEFINE s == Guided!Pruned(store, now)
           kind == Guided!BeginKind(s, key, TheCase, text)
           asked == Guided!Sent(key, text, ack)
<1>1. /\ asked \in Sending /\ asked.key = key /\ asked.text = text /\ asked.ack = ack
      /\ asked.at = now /\ asked.reply = Null /\ now \in Nat
  BY SentIsTyped
<1>2. CASE kind = "acquired"
  <2> DEFINE new == [asked EXCEPT !.pc = IF Live THEN "load" ELSE "answer"]
  <2>1. /\ new \in Sending /\ new.pc # "unsent" /\ new.key = key /\ new.text = text
        /\ new.reply = Null /\ new.at <= now /\ new.ack = ack
    <3> HIDE DEF asked
    <3> QED
      BY <1>1 DEF Sending
  <2>2. /\ turn' = [turn EXCEPT ![p] = new]
        /\ store' = Guided!Acquired(s, key, TheCase, text, p, now)
    BY <1>2 DEF Guided!Begin
  <2>3. key \notin DOMAIN s.records
    BY <1>2 DEF Guided!BeginKind
  <2> HIDE DEF new
  <2> QED
    BY <2>1, <2>2, <2>3, AcquiredKeeps
<1>3. CASE kind # "acquired" /\ kind = "result_reuse" /\ s.records[key].result \in DOMAIN Guided!ResponsesPruned
  <2> DEFINE r == s.records[key].result
             new == [asked EXCEPT !.pc = "done", !.reply = r]
  <2>1. turn' = [turn EXCEPT ![p] = new] /\ store' = s
    BY <1>3 DEF Guided!Begin
  <2>2. /\ key \in DOMAIN s.records /\ s.records[key].payload = text
        /\ s.records[key].state # "pending"
    BY <1>3 DEF Guided!BeginKind, Guided!SameBinding
  <2>3. key \in DOMAIN store.records /\ s.records[key] = store.records[key] /\ now < store.records[key].expires
    BY <2>2, PrunedRecords, TimesAreNumbers
  <2>4. /\ r \in Turns /\ Anew(r) /\ turn[r].key = key /\ turn[r].text = text /\ now < Forgotten(r)
        /\ turn[r].at <= now
    <3>1. /\ IsRecord(store.records[key]) /\ CompletedIsTheirs(key, store.records[key])
          /\ store.records[key].payload = text /\ store.records[key].state # "pending"
          /\ r = store.records[key].result
      BY <2>2, <2>3 DEF GuidedInv, RecordsAreTheirs
    <3> HIDE DEF r
    <3>2. /\ r \in Turns /\ Anew(r) /\ turn[r].key = key /\ turn[r].text = text
          /\ store.records[key].expires = Forgotten(r)
      BY <3>1 DEF IsRecord, CompletedIsTheirs
    <3> QED
      BY <2>3, <3>2 DEF GuidedInv, SendersTyped
  <2> HIDE DEF r, asked
  <2>5. /\ new \in Sending /\ new.pc = "done" /\ new.key = key /\ new.text = text
        /\ new.reply = r /\ new.at = now /\ new.ack = ack
    BY <1>1, <2>4 DEF Sending
  <2> HIDE DEF new
  <2>6. Shrinks
    BY <2>1, PruningShrinks
  <2>7. /\ new.reply \in Turns /\ Anew(new.reply) /\ new.key = turn[new.reply].key
        /\ new.text = turn[new.reply].text /\ turn[new.reply].at <= new.at
        /\ new.at < Forgotten(new.reply) /\ new.at <= now /\ new.pc # "unsent"
    BY <1>1, <2>4, <2>5
  <2>8. RepliesInv'
    BY <2>1, <2>5, <2>6, <2>7, ShrinkKeeps
  <2> QED
    BY <2>1, <2>5, <2>7, <2>8
<1>4. CASE ~(kind = "acquired") /\ ~(kind = "result_reuse" /\ s.records[key].result \in DOMAIN Guided!ResponsesPruned)
  <2>1. Guided!Refuse(p) /\ store' = s
    BY <1>4 DEF Guided!Begin, Guided!Refuse
  <2>2. Shrinks
    BY <2>1, PruningShrinks
  <2> QED
    BY <2>1, <2>2, GivenUpKeeps
<1> QED
  BY <1>2, <1>3, <1>4

LEMMA AcksStay ==
  ASSUME GuidedInv, NEW p \in Turns, NEW new \in Sending, turn' = [turn EXCEPT ![p] = new],
         new.pc # "unsent", new.ack \in {Null, turn[p].ack},
         DOMAIN acks' \subseteq DOMAIN acks, \A i \in DOMAIN acks' : acks'[i] = acks[i]
  PROVE  AcksAreSpent'
<1>1. /\ \A q \in Turns : q # p => turn'[q] = turn[q]
      /\ turn'[p] = new /\ \A q \in Turns : turn[q].ack \in Turns \cup {Null}
  BY DEF GuidedInv, SendersTyped, Sending
<1>2. \A q \in Turns : /\ turn'[q].ack \in {Null, turn[q].ack}
                       /\ turn[q].pc # "unsent" => turn'[q].pc # "unsent"
  BY <1>1
<1>3. \A i \in DOMAIN acks' : i \in Turns /\ turn'[i].pc # "unsent" /\ IsAck(acks[i])'
  BY <1>2 DEF GuidedInv, AcksAreSpent, IsAck
<1>4. \A q \in Turns : turn'[q].ack # Null =>
        /\ turn'[turn'[q].ack].pc # "unsent"
        /\ turn'[q].ack \in DOMAIN acks' => acks'[turn'[q].ack].status = "consumed"
  BY <1>1, <1>2 DEF GuidedInv, AcksAreSpent
<1>5. \A q, r \in Turns : turn'[q].ack # Null /\ turn'[q].ack = turn'[r].ack => q = r
  BY <1>2 DEF GuidedInv, AcksAreSpent
<1> QED
  BY <1>3, <1>4, <1>5 DEF AcksAreSpent

LEMMA AckIsMade ==
  ASSUME GuidedInv, NEW p \in Turns, turn[p].pc = "unsent", NEW new \in Sending,
         turn' = [turn EXCEPT ![p] = new], new.pc # "unsent", new.ack = Null, NEW ack, IsAck(ack),
         p \in DOMAIN acks', acks'[p] = ack,
         \A i \in DOMAIN acks' : i # p => i \in DOMAIN acks /\ acks'[i] = acks[i]
  PROVE  AcksAreSpent'
<1>1. /\ \A q \in Turns : q # p => turn'[q] = turn[q]
      /\ turn'[p] = new /\ \A q \in Turns : turn[q].ack \in Turns \cup {Null}
  BY DEF GuidedInv, SendersTyped, Sending
<1>2. \A q \in Turns : turn'[q].ack # Null =>
        /\ turn'[q] = turn[q] /\ q # p /\ turn[q].ack \in Turns /\ turn[q].ack # p
        /\ turn'[turn[q].ack].pc # "unsent"
  BY <1>1 DEF GuidedInv, AcksAreSpent
<1>3. \A i \in DOMAIN acks' : i \in Turns /\ turn'[i].pc # "unsent" /\ IsAck(acks[i])'
  BY <1>1 DEF GuidedInv, AcksAreSpent, IsAck
<1>4. \A q \in Turns : turn'[q].ack # Null =>
        /\ turn'[turn'[q].ack].pc # "unsent"
        /\ turn'[q].ack \in DOMAIN acks' => acks'[turn'[q].ack].status = "consumed"
  BY <1>2 DEF GuidedInv, AcksAreSpent
<1>5. \A q, r \in Turns : turn'[q].ack # Null /\ turn'[q].ack = turn'[r].ack => q = r
  BY <1>2 DEF GuidedInv, AcksAreSpent
<1> QED
  BY <1>3, <1>4, <1>5 DEF AcksAreSpent

LEMMA AckIsUsed ==
  ASSUME GuidedInv, NEW p \in Turns, NEW new \in Sending, turn' = [turn EXCEPT ![p] = new],
         new.pc # "unsent", NEW i \in DOMAIN acks, acks[i].status = "pending",
         new.ack \in {Null, i}, DOMAIN acks' \subseteq DOMAIN acks,
         \A j \in DOMAIN acks' : j # i => acks'[j] = acks[j],
         i \in DOMAIN acks' => acks'[i] = [acks[i] EXCEPT !.status = "consumed"]
  PROVE  AcksAreSpent'
<1>1. /\ \A q \in Turns : q # p => turn'[q] = turn[q]
      /\ turn'[p] = new /\ \A q \in Turns : turn[q].ack \in Turns \cup {Null}
  BY DEF GuidedInv, SendersTyped, Sending
<1>2. \A q \in Turns : turn[q].ack # Null => turn[q].ack # i
  BY DEF GuidedInv, AcksAreSpent
<1>3. i \in Turns /\ turn'[i].pc # "unsent"
  BY <1>1 DEF GuidedInv, AcksAreSpent
<1>4. i \in DOMAIN acks' =>
        acks'[i] = [case |-> acks[i].case, revision |-> acks[i].revision,
                    payload |-> acks[i].payload, expires |-> acks[i].expires,
                    status |-> "consumed"]
  BY DEF GuidedInv, AcksAreSpent, IsAck
<1>5. \A j \in DOMAIN acks' : j \in Turns /\ turn'[j].pc # "unsent" /\ IsAck(acks[j])'
  BY <1>1, <1>3, <1>4 DEF GuidedInv, AcksAreSpent, IsAck
<1>6. \A q \in Turns : turn'[q].ack # Null =>
        /\ turn'[turn'[q].ack].pc # "unsent"
        /\ turn'[q].ack \in DOMAIN acks' => acks'[turn'[q].ack].status = "consumed"
  BY <1>1, <1>2, <1>3, <1>4 DEF GuidedInv, AcksAreSpent
<1>7. \A q, r \in Turns : turn'[q].ack # Null /\ turn'[q].ack = turn'[r].ack => q = r
  BY <1>1, <1>2 DEF GuidedInv, AcksAreSpent
<1> QED
  BY <1>5, <1>6, <1>7 DEF AcksAreSpent

LEMMA SendKeeps ==
  ASSUME Guided!TurnsAssumption, Guided!StoreOptionsAssumption, GuidedInv, NEW p \in Turns,
         NEW key \in Keys, NEW text \in Texts, NEW ack \in DOMAIN acks \cup {Null},
         Guided!SendTurn(p, key, text, ack)
  PROVE  GuidedInv'
<1> DEFINE pruned == Guided!AcksPruned(acks, now)
<1>1. turn[p].pc = "unsent" /\ UNCHANGED now
  BY DEF Guided!SendTurn, Guided!Arrives
<1>2. DOMAIN pruned \subseteq DOMAIN acks /\ \A i \in DOMAIN pruned : pruned[i] = acks[i]
  BY DEF Guided!AcksPruned, Guided!Restrict
<1>3. ack \in Turns \cup {Null}
  BY DEF GuidedInv, AcksAreSpent
<1>4. CASE Guided!Begin(p, key, text, Null) /\ UNCHANGED acks
  <2>1. RepliesInv' /\ \E new \in Sending : /\ turn' = [turn EXCEPT ![p] = new]
                                            /\ new.ack \in {Null} /\ new.pc # "unsent"
    BY <1>1, <1>4, BeginKeeps
  <2>2. AcksAreSpent'
    BY <1>4, <2>1, AcksStay
  <2> QED
    BY <2>1, <2>2 DEF GuidedInv, RepliesInv
<1>5. CASE Guided!Warn(p, text)
  <2> HIDE DEF pruned
  <2>1. Guided!Refuse(p) /\ UNCHANGED store
    BY <1>5 DEF Guided!Warn
  <2>2. Shrinks
    BY <2>1 DEF Shrinks
  <2>3. RepliesInv' /\ \E new \in Sending : /\ turn' = [turn EXCEPT ![p] = new]
                                            /\ new.ack = Null /\ new.pc # "unsent"
    BY <1>1, <2>1, <2>2, GivenUpKeeps
  <2>4. acks' = pruned \/ acks' = Guided!Put(pruned, p, Guided!NewAck(TheCase, 1, text, now))
    BY <1>5 DEF Guided!Warn, pruned
  <2>5. AcksAreSpent'
    <3>1. CASE acks' = pruned
      BY <1>2, <2>3, <3>1, AcksStay
    <3>2. CASE acks' = Guided!Put(pruned, p, Guided!NewAck(TheCase, 1, text, now))
      <4>1. IsAck(Guided!NewAck(TheCase, 1, text, now))
        BY DEF IsAck, Guided!NewAck
      <4>2. /\ p \in DOMAIN acks' /\ acks'[p] = Guided!NewAck(TheCase, 1, text, now)
            /\ \A i \in DOMAIN acks' : i # p => i \in DOMAIN acks /\ acks'[i] = acks[i]
        BY <1>2, <3>2 DEF Guided!Put
      <4> QED
        BY <1>1, <2>3, <4>1, <4>2, AckIsMade
    <3> QED
      BY <2>4, <3>1, <3>2
  <2> QED
    BY <2>3, <2>5 DEF GuidedInv, RepliesInv
<1>6. CASE /\ Guided!AckHolds(pruned, ack, TheCase, 1, text, now)
           /\ Guided!Begin(p, key, text, ack) /\ acks' = Guided!AckUsed(pruned, ack)
  <2>1. ack \in DOMAIN pruned /\ pruned[ack].status = "pending"
    BY <1>6 DEF Guided!AckHolds
  <2> HIDE DEF pruned
  <2>2. RepliesInv' /\ \E new \in Sending : /\ turn' = [turn EXCEPT ![p] = new]
                                            /\ new.ack \in {Null, ack} /\ new.pc # "unsent"
    BY <1>1, <1>3, <1>6, BeginKeeps
  <2>3. /\ DOMAIN acks' \subseteq DOMAIN acks /\ \A j \in DOMAIN acks' : j # ack => acks'[j] = acks[j]
        /\ acks'[ack] = [acks[ack] EXCEPT !.status = "consumed"]
    BY <1>2, <1>6, <2>1 DEF Guided!AckUsed
  <2>4. AcksAreSpent'
    BY <1>2, <2>1, <2>2, <2>3, AckIsUsed
  <2> QED
    BY <2>2, <2>4 DEF GuidedInv, RepliesInv
<1>7. CASE Guided!Refuse(p) /\ acks' = pruned /\ UNCHANGED store
  <2> HIDE DEF pruned
  <2>1. Shrinks
    BY <1>7 DEF Shrinks
  <2>2. RepliesInv' /\ \E new \in Sending : /\ turn' = [turn EXCEPT ![p] = new]
                                            /\ new.ack = Null /\ new.pc # "unsent"
    BY <1>1, <1>7, <2>1, GivenUpKeeps
  <2>3. AcksAreSpent'
    BY <1>2, <1>7, <2>2, AcksStay
  <2> QED
    BY <2>2, <2>3 DEF GuidedInv, RepliesInv
<1> QED
  BY <1>4, <1>5, <1>6, <1>7 DEF Guided!SendTurn

LEMMA MovesKeep ==
  ASSUME Guided!TurnsAssumption, GuidedInv, NEW p \in Turns, InWork(p), UNCHANGED <<now, acks>>,
         \/ /\ \E pc \in {"reserve", "extract", "answer"} : turn' = [turn EXCEPT ![p].pc = pc]
            /\ UNCHANGED store
         \/ Guided!GiveUp(p)
  PROVE  GuidedInv'
<1>1. CASE Guided!GiveUp(p)
  <2>1. Guided!Refuse(p) /\ Shrinks /\ turn[p].pc # "done"
    BY <1>1, ReleaseShrinks DEF Guided!GiveUp, InWork
  <2>2. RepliesInv' /\ \E new \in Sending : /\ turn' = [turn EXCEPT ![p] = new]
                                            /\ new.ack = Null /\ new.pc # "unsent"
    BY <2>1, GivenUpKeeps
  <2>3. AcksAreSpent'
    BY <2>2, AcksStay
  <2> QED
    BY <2>2, <2>3 DEF GuidedInv, RepliesInv
<1>2. ASSUME NEW pc \in {"reserve", "extract", "answer"}, turn' = [turn EXCEPT ![p].pc = pc],
             UNCHANGED store
      PROVE  GuidedInv'
  <2> DEFINE new == [turn[p] EXCEPT !.pc = pc]
  <2>1. turn[p] \in Sending /\ turn[p].reply = Null /\ turn[p].at <= now /\ turn[p].pc # "done"
    BY DEF GuidedInv, SendersTyped, InWork
  <2>2. /\ new \in Sending /\ new.pc = pc /\ new.key = turn[p].key /\ new.text = turn[p].text
        /\ new.reply = turn[p].reply /\ new.at = turn[p].at /\ new.ack = turn[p].ack
    BY <2>1 DEF Sending
  <2>3. turn' = [turn EXCEPT ![p] = new]
    BY <1>2
  <2> HIDE DEF new
  <2>4. Shrinks
    BY <1>2 DEF Shrinks
  <2>5. new.reply = Null /\ new.at <= now /\ new.pc # "unsent"
    BY <2>1, <2>2
  <2>6. RepliesInv'
    BY <2>1, <2>2, <2>3, <2>4, <2>5, ShrinkKeeps
  <2>7. AcksAreSpent'
    BY <2>2, <2>3, <2>5, AcksStay
  <2> QED
    BY <2>6, <2>7 DEF GuidedInv, RepliesInv
<1> QED
  BY <1>1, <1>2

LEMMA LiveTurnKeeps ==
  ASSUME Guided!TurnsAssumption, GuidedInv, NEW p \in Turns, Guided!LiveTurn(p)
  PROVE  GuidedInv'
<1>1. InWork(p) /\ UNCHANGED <<now, acks>>
  BY DEF Guided!LiveTurn, Guided!LoadState, Guided!ReserveTurn, Guided!Extract, InWork
<1>2. \/ /\ \E pc \in {"reserve", "extract", "answer"} : turn' = [turn EXCEPT ![p].pc = pc]
         /\ UNCHANGED store
      \/ Guided!GiveUp(p)
  BY DEF Guided!LiveTurn, Guided!LoadState, Guided!ReserveTurn, Guided!Extract
<1> QED
  BY <1>1, <1>2, MovesKeep

(* The turn still holds its operation and is answered: an earlier answer   *)
(* under its key is forgotten, or its record would be there.               *)
LEMMA FinishedKeeps ==
  ASSUME Guided!TurnsAssumption, Guided!StoreOptionsAssumption, GuidedInv, UNCHANGED now,
         NEW p \in Turns, InWork(p), NEW key, key = turn[p].key,
         Guided!HoldsLease(Guided!Pruned(store, now), key, p),
         store' = Guided!Finished(Guided!Pruned(store, now), key, p, now),
         turn' = [turn EXCEPT ![p] = [turn[p] EXCEPT !.pc = "done", !.reply = p, !.at = now]]
  PROVE  RepliesInv' /\ \E new \in Sending : /\ turn' = [turn EXCEPT ![p] = new]
                                             /\ new.ack = turn[p].ack /\ new.pc # "unsent"
<1> DEFINE s == Guided!Pruned(store, now)
           r == store.records[key]
           new == [turn[p] EXCEPT !.pc = "done", !.reply = p, !.at = now]
           entry == [state |-> "completed", case |-> r.case, payload |-> r.payload,
                     lease |-> r.lease, result |-> p, expires |-> now + CompletedRetention]
<1>1. /\ turn[p] \in Sending /\ turn[p].reply = Null /\ now \in Nat
      /\ now + CompletedRetention \in Nat /\ now < now + CompletedRetention
  BY DEF GuidedInv, SendersTyped, InWork, Guided!StoreOptionsAssumption
<1>2. /\ new \in Sending /\ new.pc = "done" /\ new.reply = p /\ new.at = now
      /\ new.key = key /\ new.text = turn[p].text /\ new.ack = turn[p].ack
  BY <1>1 DEF Sending
<1> HIDE DEF new
<1>3. turn' = [turn EXCEPT ![p] = new]
  BY DEF new
<1>4. /\ turn' \in [Turns -> Sending] /\ \A q \in Turns : q # p => turn'[q] = turn[q]
      /\ turn'[p] = new
  BY <1>2, <1>3 DEF GuidedInv, SendersTyped
<1>5. /\ DOMAIN s.records = {k \in DOMAIN store.records : ~(now >= store.records[k].expires)}
      /\ \A k \in DOMAIN s.records : s.records[k] = store.records[k]
  BY PrunedRecords
<1>6. key \in DOMAIN s.records /\ s.records[key].state = "pending" /\ s.records[key].lease = p
  BY DEF Guided!HoldsLease
<1>7. store' = Guided!Finished(s, key, p, now)
  OBVIOUS
<1> HIDE DEF s
<1>8. /\ key \in DOMAIN store.records /\ r = s.records[key] /\ r.state = "pending" /\ r.lease = p
      /\ IsRecord(r) /\ r.payload = turn[p].text
  BY <1>5, <1>6 DEF GuidedInv, RecordsAreTheirs, PendingIsTheirs
<1>9. /\ DOMAIN store'.records = DOMAIN s.records \cup {key} /\ store'.records[key] = entry
      /\ \A k \in DOMAIN s.records : k # key => store'.records[k] = s.records[k]
  <2>1. entry = [s.records[key] EXCEPT !.state = "completed", !.result = p,
                                        !.expires = now + CompletedRetention]
    <3>1. ASSUME NEW e, NEW x, IsRecord(e)
          PROVE  [e EXCEPT !.state = "completed", !.result = p, !.expires = x]
                   = [state |-> "completed", case |-> e.case, payload |-> e.payload,
                      lease |-> e.lease, result |-> p, expires |-> x]
      <4> DEFINE done == [e EXCEPT !.state = "completed"]
                 kept == [done EXCEPT !.result = p]
      <4>1. done = [state |-> "completed", case |-> e.case, payload |-> e.payload,
                    lease |-> e.lease, result |-> e.result, expires |-> e.expires]
        BY <3>1 DEF IsRecord
      <4> HIDE DEF done
      <4>2. kept = [state |-> "completed", case |-> e.case, payload |-> e.payload,
                    lease |-> e.lease, result |-> p, expires |-> e.expires]
        BY <4>1
      <4> HIDE DEF kept
      <4>3. [kept EXCEPT !.expires = x]
              = [state |-> "completed", case |-> e.case, payload |-> e.payload,
                 lease |-> e.lease, result |-> p, expires |-> x]
        BY <4>2
      <4> QED
        BY <4>3 DEF kept, done
    <3>2. r = s.records[key] /\ IsRecord(r)
      BY <1>8
    <3> HIDE DEF r
    <3> QED
      BY <3>1, <3>2
  <2>2. store'.records = Guided!Put(s.records, key, [s.records[key] EXCEPT !.state = "completed",
                               !.result = p, !.expires = now + CompletedRetention])
    BY <1>7 DEF Guided!Finished
  <2> HIDE DEF entry
  <2> QED
    BY <2>1, <2>2 DEF Guided!Put
<1>10. /\ \A q \in Turns : q # p => /\ Anew(q)' <=> Anew(q)
                                    /\ turn'[q] = turn[q] /\ Forgotten(q)' = Forgotten(q)
       /\ Anew(p)' /\ Forgotten(p)' = now + CompletedRetention /\ ~Anew(p)
  BY <1>1, <1>2, <1>4 DEF Anew, Forgotten, Guided!TurnsAssumption
<1>11. \A q \in Turns : Anew(q) /\ turn[q].key = key => now >= Forgotten(q)
  <2>1. ASSUME NEW q \in Turns, Anew(q), turn[q].key = key
        PROVE  ~(now < Forgotten(q))
    BY <1>8, <2>1 DEF GuidedInv, AnswersAreRemembered
  <2>2. \A q \in Turns : Forgotten(q) \in Nat
    BY DEF Forgotten, GuidedInv, SendersTyped, Sending, Guided!StoreOptionsAssumption
  <2> QED
    BY <1>1, <2>1, <2>2
<1> HIDE DEF r
<1>12. SendersTyped'
  <2>1. \A q \in Turns : turn'[q].at <= now /\ (turn'[q].reply # Null => turn'[q].pc = "done")
    BY <1>1, <1>2, <1>4 DEF GuidedInv, SendersTyped
  <2> QED
    BY <1>4, <2>1 DEF GuidedInv, SendersTyped
<1>13. RecordsAreTheirs'
  <2>1. ASSUME NEW k \in DOMAIN s.records, k # key
        PROVE  /\ IsRecord(store.records[k])' /\ PendingIsTheirs(k, store.records[k])'
               /\ CompletedIsTheirs(k, store.records[k])'
    <3> DEFINE e == store.records[k]
    <3>1. e' = e /\ IsRecord(e) /\ PendingIsTheirs(k, e) /\ CompletedIsTheirs(k, e)
      BY <1>5, <1>9, <2>1 DEF GuidedInv, RecordsAreTheirs
    <3>2. IsRecord(e)'
      BY <3>1 DEF IsRecord
    <3> HIDE DEF e
    <3>3. PendingIsTheirs(k, e)'
      BY <1>2, <1>4, <3>1 DEF PendingIsTheirs, InWork
    <3>4. CompletedIsTheirs(k, e)'
      BY <1>10, <3>1 DEF CompletedIsTheirs
    <3> QED
      BY <3>2, <3>3, <3>4 DEF e
  <2>2. /\ IsRecord(store.records[key])' /\ PendingIsTheirs(key, store.records[key])'
        /\ CompletedIsTheirs(key, store.records[key])'
    BY <1>1, <1>2, <1>4, <1>8, <1>9, <1>10 DEF IsRecord, PendingIsTheirs, CompletedIsTheirs
  <2> QED
    BY <1>6, <1>9, <2>1, <2>2 DEF RecordsAreTheirs
<1>14. AnswersAreRemembered'
  <2>1. ASSUME NEW q \in Turns, q # p, Anew(q), now < Forgotten(q)
        PROVE  /\ turn[q].key \in DOMAIN store'.records
               /\ store'.records[turn[q].key].state = "completed"
               /\ store'.records[turn[q].key].result = q
    <3>1. /\ turn[q].key \in DOMAIN store.records
          /\ store.records[turn[q].key].state = "completed"
          /\ store.records[turn[q].key].result = q
      BY <2>1 DEF GuidedInv, AnswersAreRemembered
    <3>2. store.records[turn[q].key].expires = Forgotten(q)
      BY <3>1 DEF GuidedInv, RecordsAreTheirs, CompletedIsTheirs
    <3>3. ~(now >= Forgotten(q))
      BY <1>1, <2>1 DEF Forgotten, GuidedInv, SendersTyped, Sending, Guided!StoreOptionsAssumption
    <3>4. turn[q].key # key /\ turn[q].key \in DOMAIN s.records
      BY <1>5, <1>11, <2>1, <3>1, <3>2, <3>3
    <3> QED
      BY <1>5, <1>9, <3>1, <3>4
  <2>2. /\ turn'[p].key \in DOMAIN store'.records
        /\ store'.records[turn'[p].key].state = "completed"
        /\ store'.records[turn'[p].key].result = p
    BY <1>2, <1>4, <1>9
  <2> QED
    BY <1>10, <2>1, <2>2 DEF AnswersAreRemembered
<1>15. AnewIsApart'
  <2>1. \A q \in Turns : q # p /\ Anew(q) /\ turn[q].key = key => turn'[p].at >= Forgotten(q)
    BY <1>2, <1>4, <1>11
  <2>2. turn'[p].key = key
    BY <1>2, <1>4
  <2> QED
    BY <1>10, <2>1, <2>2 DEF GuidedInv, AnewIsApart
<1>16. RepliesAreTheirs'
  <2>1. ASSUME NEW q \in Turns, q # p, turn[q].reply # Null
        PROVE  LET a == turn[q].reply IN
               /\ a \in Turns /\ a # p /\ Anew(a) /\ turn[q].key = turn[a].key
               /\ turn[q].text = turn[a].text /\ turn[a].at <= turn[q].at
               /\ turn[q].at < Forgotten(a)
    BY <1>10, <2>1 DEF GuidedInv, RepliesAreTheirs, SendersTyped, Sending
  <2>2. turn'[p].reply = p /\ turn'[p].at <= turn'[p].at /\ turn'[p].at < Forgotten(p)'
    BY <1>1, <1>2, <1>4, <1>10
  <2> QED
    BY <1>10, <2>1, <2>2 DEF RepliesAreTheirs
<1> QED
  BY <1>2, <1>3, <1>12, <1>13, <1>14, <1>15, <1>16 DEF RepliesInv

LEMMA GuidedAnswerKeeps ==
  ASSUME Guided!TurnsAssumption, Guided!StoreOptionsAssumption, GuidedInv, NEW p \in Turns,
         NEW lag, Guided!Answer(p, lag)
  PROVE  GuidedInv'
<1> DEFINE s == Guided!Pruned(store, now)
           key == turn[p].key
<1>1. InWork(p) /\ UNCHANGED <<now, acks>> /\ turn[p].pc # "done"
  BY DEF Guided!Answer, InWork
<1>2. RepliesInv' /\ \E new \in Sending : /\ turn' = [turn EXCEPT ![p] = new]
                                          /\ new.ack \in {Null, turn[p].ack} /\ new.pc # "unsent"
  <2>1. CASE Guided!HoldsLease(s, key, p)
    <3>1. store' = Guided!Finished(s, key, p, now)
      BY <2>1 DEF Guided!Answer
    <3>2. turn' = [turn EXCEPT ![p] = [turn[p] EXCEPT !.pc = "done", !.reply = p, !.at = now]]
      BY <2>1 DEF Guided!Answer
    <3> QED
      BY <1>1, <2>1, <3>1, <3>2, FinishedKeeps
  <2>2. CASE ~Guided!HoldsLease(s, key, p)
    <3>1. store' = s /\ Guided!Refuse(p)
      BY <2>2 DEF Guided!Answer, Guided!Refuse
    <3> QED
      BY <1>1, <3>1, PruningShrinks, GivenUpKeeps
  <2> QED
    BY <2>1, <2>2
<1>3. AcksAreSpent'
  BY <1>1, <1>2, AcksStay
<1> QED
  BY <1>2, <1>3 DEF GuidedInv, RepliesInv

LEMMA TimeKeepsGuided ==
  ASSUME Guided!StoreOptionsAssumption, GuidedInv, now' \in {now, now + 1},
         UNCHANGED <<turn, store, responses, acks>>
  PROVE  GuidedInv'
<1>1. UNCHANGED <<turn, store, acks>> /\ now \in Nat /\ now' \in Nat /\ now <= now'
  BY DEF GuidedInv, SendersTyped
<1>2. \A p \in Turns : turn[p].at \in Nat /\ Forgotten(p) \in Nat
  BY DEF GuidedInv, SendersTyped, Sending, Forgotten, Guided!StoreOptionsAssumption
<1>3. SendersTyped'
  BY <1>1, <1>2 DEF GuidedInv, SendersTyped
<1>4. RecordsAreTheirs'
  BY <1>1 DEF GuidedInv, RecordsAreTheirs, IsRecord, PendingIsTheirs, CompletedIsTheirs, InWork,
              Anew, Forgotten
<1>5. AnswersAreRemembered'
  <2>1. \A p \in Turns : now' < Forgotten(p) => now < Forgotten(p)
    BY <1>1, <1>2
  <2>2. \A p \in Turns : (Anew(p)' <=> Anew(p)) /\ Forgotten(p)' = Forgotten(p)
    BY <1>1 DEF Anew, Forgotten
  <2> QED
    BY <1>1, <2>1, <2>2 DEF GuidedInv, AnswersAreRemembered
<1>6. AnewIsApart' /\ RepliesAreTheirs'
  BY <1>1 DEF GuidedInv, AnewIsApart, RepliesAreTheirs, Anew, Forgotten
<1>7. AcksAreSpent'
  BY <1>1 DEF GuidedInv, AcksAreSpent, IsAck
<1> QED
  BY <1>3, <1>4, <1>5, <1>6, <1>7 DEF GuidedInv

LEMMA GuidedKeeps ==
  ASSUME Guided!TurnsAssumption, Guided!StoreOptionsAssumption, GuidedInv,
         [Guided!TurnsNext]_<<now, turnsVars>>
  PROVE  GuidedInv'
<1>1. CASE UNCHANGED <<now, turnsVars>>
  BY <1>1, TimeKeepsGuided DEF turnsVars
<1>2. CASE Guided!TurnsTime
  BY <1>2, TimeKeepsGuided DEF Guided!TurnsTime, Guided!Advance
<1>3. CASE Guided!TurnsNext
  BY <1>2, <1>3, SendKeeps, LiveTurnKeeps, GuidedAnswerKeeps DEF Guided!TurnsNext
<1> QED
  BY <1>1, <1>3

LEMMA GuidedAnswersAreOne ==
  ASSUME Guided!StoreOptionsAssumption, GuidedInv
  PROVE  Guided!OneAnswerPerKey
<1>1. ASSUME NEW p \in Turns, NEW q \in Turns, turn[p].reply # Null, turn[q].reply # Null,
             turn[p].key = turn[q].key,
             turn[q].at \in turn[p].at .. turn[turn[p].reply].at + CompletedRetention - 1
      PROVE  turn[p].reply = turn[q].reply /\ turn[p].text = turn[q].text
  <2> DEFINE r == turn[p].reply
             s == turn[q].reply
  <2>1. /\ r \in Turns /\ Anew(r) /\ turn[p].key = turn[r].key /\ turn[p].text = turn[r].text
        /\ turn[r].at <= turn[p].at /\ turn[p].at < Forgotten(r)
    BY <1>1 DEF GuidedInv, RepliesAreTheirs, SendersTyped, Sending
  <2>2. /\ s \in Turns /\ Anew(s) /\ turn[q].key = turn[s].key /\ turn[q].text = turn[s].text
        /\ turn[s].at <= turn[q].at /\ turn[q].at < Forgotten(s)
    BY <1>1 DEF GuidedInv, RepliesAreTheirs, SendersTyped, Sending
  <2>3. \A x \in Turns : turn[x].at \in Nat /\ Forgotten(x) \in Nat
    BY DEF GuidedInv, SendersTyped, Sending, Forgotten, Guided!StoreOptionsAssumption
  <2>4. turn[p].at <= turn[q].at /\ turn[q].at < Forgotten(r)
    BY <1>1, <2>1, <2>3 DEF Forgotten, Guided!StoreOptionsAssumption
  <2>5. r = s \/ turn[r].at >= Forgotten(s) \/ turn[s].at >= Forgotten(r)
    BY <1>1, <2>1, <2>2 DEF GuidedInv, AnewIsApart
  <2>6. r = s
    <3> HIDE DEF r, s
    <3> QED
      BY <2>1, <2>2, <2>3, <2>4, <2>5
  <2> QED
    BY <2>1, <2>2, <2>6
<1> QED
  BY <1>1 DEF Guided!OneAnswerPerKey, Guided!Answered, Guided!CompletedAt

-----------------------------------------------------------------------------
(* What marks a turn of the guided conversation.  The case is leased to    *)
(* its one pending operation, for as long as that operation is kept; a     *)
(* turn has its operation until the lease expires; a response is kept as   *)
(* long as the record that names it, but for a tick.                       *)
IsLeased(s) ==
  /\ DOMAIN s.leases \subseteq {TheCase}
  /\ \A k \in DOMAIN s.records : s.records[k].case = TheCase /\ s.records[k].expires \in Nat
  /\ \A k \in DOMAIN s.records : s.records[k].state = "pending" =>
       /\ TheCase \in DOMAIN s.leases
       /\ s.leases[TheCase].key = k
       /\ s.leases[TheCase].lease = s.records[k].lease
       /\ s.leases[TheCase].expires = s.records[k].expires
  /\ TheCase \in DOMAIN s.leases =>
       /\ s.leases[TheCase].key \in DOMAIN s.records
       /\ s.records[s.leases[TheCase].key].state = "pending"

HasOperation(s, p) ==
  /\ Guided!HoldsLease(s, turn[p].key, p)
  /\ s.records[turn[p].key].expires = turn[p].at + PendingTtl

WorkIsLeased ==
  IsLeased(store) /\
  \A p \in Turns : InWork(p) /\ now < turn[p].at + PendingTtl => HasOperation(store, p)

ResponsesAreKept ==
  /\ \A o \in DOMAIN responses : responses[o] \in Nat
  /\ \A k \in DOMAIN store.records :
       LET r == store.records[k] IN
       r.state = "completed" =>
         IF r.result \in DOMAIN responses THEN responses[r.result] + 1 >= r.expires
         ELSE now + 1 >= r.expires

(* A reservation is that of the turn that calls the model, in one window   *)
(* of the budget; one of the windows is the last one.                      *)
IsWindow(w) ==
  /\ w = [start |-> w.start, reserved |-> w.reserved, actual |-> w.actual, unknown |-> w.unknown]
  /\ w.start \in Nat /\ w.start <= now

MoneyIsTheCalls ==
  /\ liveLease \in BOOLEAN /\ (liveLease <=> \E p \in Turns : turn[p].pc = "extract")
  /\ \A p, q \in Turns : turn[p].pc = "extract" /\ turn[q].pc = "extract" => p = q
  /\ \A w \in windows : IsWindow(w)
  /\ \A w \in windows : \A i \in DOMAIN w.reserved : i \in Turns /\ turn[i].pc = "extract"
  /\ \A p \in Turns : turn[p].pc = "extract" => \E w \in windows : p \in DOMAIN w.reserved
  /\ \A v, w \in windows : DOMAIN v.reserved \cap DOMAIN w.reserved # {} => v = w
  /\ windows # {} => \E w \in windows : \A v \in windows : v.start <= w.start

LEMMA PrunedIsLeased ==
  ASSUME NEW s, IsLeased(s), NEW time \in Nat
  PROVE  IsLeased(Guided!Pruned(s, time))
<1> DEFINE t == Guided!Pruned(s, time)
<1>1. /\ DOMAIN t.records = {k \in DOMAIN s.records : ~(time >= s.records[k].expires)}
      /\ \A k \in DOMAIN t.records : t.records[k] = s.records[k]
  BY PrunedRecords
<1>2. /\ DOMAIN t.leases \subseteq DOMAIN s.leases
      /\ \A c \in DOMAIN t.leases : t.leases[c] = s.leases[c] /\ ~(time >= s.leases[c].expires)
  BY DEF Guided!Pruned, Guided!Drop, Guided!Restrict
<1>3. ASSUME NEW k \in DOMAIN t.records, t.records[k].state = "pending"
      PROVE  /\ TheCase \in DOMAIN t.leases
             /\ t.leases[TheCase].key = k
             /\ t.leases[TheCase].lease = t.records[k].lease
             /\ t.leases[TheCase].expires = t.records[k].expires
  <2>1. /\ k \in DOMAIN s.records /\ s.records[k].state = "pending" /\ t.records[k] = s.records[k]
        /\ ~(time >= s.records[k].expires)
    BY <1>1, <1>3
  <2>2. /\ TheCase \in DOMAIN s.leases /\ s.leases[TheCase].key = k
        /\ s.leases[TheCase].lease = s.records[k].lease
        /\ s.leases[TheCase].expires = s.records[k].expires
    BY <2>1 DEF IsLeased
  <2>3. \A j \in DOMAIN s.records : Guided!LeaseOf(s, j) => j = k
    BY <2>2 DEF Guided!LeaseOf, IsLeased
  <2>4. ~(time >= s.leases[TheCase].expires)
    BY <2>1, <2>2
  <2>5. TheCase \in DOMAIN t.leases
    BY <2>1, <2>2, <2>3, <2>4 DEF Guided!Pruned, Guided!Drop, Guided!Restrict
  <2> QED
    BY <1>2, <2>1, <2>2, <2>5
<1>4. ASSUME TheCase \in DOMAIN t.leases
      PROVE  /\ t.leases[TheCase].key \in DOMAIN t.records
             /\ t.records[t.leases[TheCase].key].state = "pending"
  <2> DEFINE k == s.leases[TheCase].key
  <2>1. /\ TheCase \in DOMAIN s.leases /\ t.leases[TheCase] = s.leases[TheCase]
        /\ ~(time >= s.leases[TheCase].expires)
    BY <1>2, <1>4
  <2>2. k \in DOMAIN s.records /\ s.records[k].state = "pending"
    BY <2>1 DEF IsLeased
  <2>3. s.leases[TheCase].expires = s.records[k].expires
    BY <2>2 DEF IsLeased
  <2> QED
    BY <1>1, <2>1, <2>2, <2>3
<1>5. /\ DOMAIN t.leases \subseteq {TheCase}
      /\ \A k \in DOMAIN t.records : t.records[k].case = TheCase /\ t.records[k].expires \in Nat
  BY <1>1, <1>2 DEF IsLeased
<1> HIDE DEF t
<1>6. IsLeased(t)
  BY <1>3, <1>4, <1>5 DEF IsLeased
<1> QED
  BY <1>6 DEF t

LEMMA AcquiredIsLeased ==
  ASSUME NEW s, IsLeased(s), NEW time \in Nat, PendingTtl \in Nat, NEW key, NEW payload, NEW lease,
         key \notin DOMAIN s.records, TheCase \notin DOMAIN s.leases
  PROVE  /\ IsLeased(Guided!Acquired(s, key, TheCase, payload, lease, time))
         /\ \A k \in DOMAIN s.records : s.records[k].state # "pending"
<1> DEFINE t == Guided!Acquired(s, key, TheCase, payload, lease, time)
           r == [state |-> "pending", case |-> TheCase, payload |-> payload, lease |-> lease,
                 result |-> Null, expires |-> time + PendingTtl]
<1>1. /\ DOMAIN t.records = DOMAIN s.records \cup {key} /\ t.records[key] = r
      /\ \A k \in DOMAIN s.records : t.records[k] = s.records[k]
      /\ DOMAIN t.leases = DOMAIN s.leases \cup {TheCase}
      /\ t.leases[TheCase] = [key |-> key, lease |-> lease, expires |-> time + PendingTtl]
  BY DEF Guided!Acquired, Guided!Put
<1>2. \A k \in DOMAIN s.records : s.records[k].state # "pending"
  BY DEF IsLeased
<1>3. /\ r.state = "pending" /\ r.case = TheCase /\ r.lease = lease
      /\ r.expires = time + PendingTtl /\ time + PendingTtl \in Nat
  OBVIOUS
<1>4. DOMAIN s.leases \subseteq {TheCase}
  BY DEF IsLeased
<1>5. /\ t.leases[TheCase].key = key /\ t.leases[TheCase].lease = lease
      /\ t.leases[TheCase].expires = time + PendingTtl
  BY <1>1
<1> HIDE DEF t, r
<1>6. IsLeased(t)
  BY <1>1, <1>2, <1>3, <1>4, <1>5 DEF IsLeased
<1> QED
  BY <1>2, <1>6 DEF t

(* The operation is over: released, or completed.                          *)
LEMMA EndedIsLeased ==
  ASSUME NEW s, IsLeased(s), NEW key, NEW p, Guided!HoldsLease(s, key, p), NEW t,
         DOMAIN t.records \subseteq DOMAIN s.records,
         \A k \in DOMAIN t.records \ {key} : t.records[k] = s.records[k],
         key \in DOMAIN t.records =>
           /\ t.records[key].case = TheCase /\ t.records[key].expires \in Nat
           /\ t.records[key].state # "pending",
         t.leases = Guided!Drop(s.leases, {s.records[key].case})
  PROVE  IsLeased(t)
<1>1. /\ key \in DOMAIN s.records /\ s.records[key].state = "pending"
      /\ TheCase \in DOMAIN s.leases /\ s.leases[TheCase].key = key
      /\ s.records[key].case = TheCase
  BY DEF Guided!HoldsLease, Guided!LeaseOf, IsLeased
<1>2. DOMAIN t.leases = {}
  BY <1>1 DEF Guided!Drop, Guided!Restrict, IsLeased
<1>3. \A k \in DOMAIN s.records : s.records[k].state = "pending" => k = key
  BY <1>1 DEF IsLeased
<1> QED
  BY <1>1, <1>2, <1>3 DEF IsLeased

LEMMA LeaseIsUnique ==
  ASSUME NEW s, IsLeased(s), NEW j, NEW p, NEW k, NEW q, Guided!HoldsLease(s, j, p),
         Guided!HoldsLease(s, k, q)
  PROVE  p = q
  BY DEF Guided!HoldsLease, Guided!LeaseOf, IsLeased

LEMMA PrunedHasOperation ==
  ASSUME NEW s, IsLeased(s), now \in Nat, NEW q \in Turns, now < turn[q].at + PendingTtl,
         HasOperation(s, q)
  PROVE  HasOperation(Guided!Pruned(s, now), q)
<1> DEFINE t == Guided!Pruned(s, now)
           k == turn[q].key
<1>1. IsLeased(t)
  BY PrunedIsLeased
<1>2. /\ k \in DOMAIN s.records /\ s.records[k].state = "pending" /\ s.records[k].lease = q
      /\ s.records[k].expires = turn[q].at + PendingTtl
  BY DEF HasOperation, Guided!HoldsLease
<1>3. ~(now >= s.records[k].expires)
  <2>1. s.records[k].expires \in Nat
    BY <1>2 DEF IsLeased
  <2> QED
    BY <1>2, <2>1
<1>4. k \in DOMAIN t.records /\ t.records[k] = s.records[k]
  BY <1>2, <1>3, PrunedRecords
<1>5. Guided!LeaseOf(t, k)
  <2>1. t.records[k].case = TheCase
    BY <1>1, <1>4 DEF IsLeased
  <2>2. /\ TheCase \in DOMAIN t.leases
        /\ t.leases[TheCase].key = k /\ t.leases[TheCase].lease = t.records[k].lease
    BY <1>1, <1>2, <1>4 DEF IsLeased
  <2> HIDE DEF t
  <2> QED
    BY <2>1, <2>2 DEF Guided!LeaseOf
<1> HIDE DEF t
<1>6. HasOperation(t, q)
  BY <1>2, <1>4, <1>5 DEF HasOperation, Guided!HoldsLease
<1> QED
  BY <1>6 DEF t

MarksInv == WorkIsLeased /\ ResponsesAreKept /\ MoneyIsTheCalls

(* The turn p goes on as new; the others keep their operations.            *)
LEMMA WorkStays ==
  ASSUME GuidedInv, UNCHANGED now, NEW p \in Turns, NEW new,
         turn' = [turn EXCEPT ![p] = new], IsLeased(store'),
         \A q \in Turns \ {p} : InWork(q) /\ now < turn[q].at + PendingTtl => HasOperation(store', q),
         InWork(p)' /\ now < turn'[p].at + PendingTtl => HasOperation(store, p)'
  PROVE  WorkIsLeased'
<1>1. turn'[p] = new /\ \A q \in Turns \ {p} : turn'[q] = turn[q]
  BY DEF GuidedInv, SendersTyped
<1>2. ASSUME NEW q \in Turns, InWork(q)', now < turn'[q].at + PendingTtl
      PROVE  HasOperation(store, q)'
  <2>1. CASE q = p
    BY <1>2, <2>1
  <2>2. CASE q # p
    BY <1>1, <1>2, <2>2 DEF InWork, HasOperation
  <2> QED
    BY <2>1, <2>2
<1>3. IsLeased(store)'
  BY DEF IsLeased
<1> QED
  BY <1>2, <1>3 DEF WorkIsLeased

LEMMA RecordsAreLeft ==
  ASSUME ResponsesAreKept, UNCHANGED <<now, responses>>,
         \A k \in DOMAIN store'.records : store'.records[k].state = "completed" =>
           k \in DOMAIN store.records /\ store'.records[k] = store.records[k]
  PROVE  ResponsesAreKept'
  BY DEF ResponsesAreKept

(* The operation of p ends without an answer.                              *)
LEMMA GiveUpIsLeased ==
  ASSUME GuidedInv, WorkIsLeased, ResponsesAreKept, NEW p \in Turns, Guided!GiveUp(p),
         UNCHANGED <<now, responses>>
  PROVE  WorkIsLeased' /\ ResponsesAreKept'
<1> DEFINE s == Guided!Pruned(store, now)
           key == turn[p].key
<1>1. now \in Nat /\ IsLeased(store) /\ IsLeased(s)
  BY PrunedIsLeased DEF GuidedInv, SendersTyped, WorkIsLeased
<1>2. \A q \in Turns : InWork(q) /\ now < turn[q].at + PendingTtl => HasOperation(s, q)
  BY <1>1, PrunedHasOperation DEF WorkIsLeased
<1>3. /\ DOMAIN s.records \subseteq DOMAIN store.records
      /\ \A k \in DOMAIN s.records : s.records[k] = store.records[k]
  BY PrunedRecords
<1>4. turn' = [turn EXCEPT ![p] = Guided!Refused] /\ ~InWork(p)'
  BY DEF Guided!GiveUp, Guided!Refuse, Guided!Refused, Guided!Unsent, InWork, GuidedInv, SendersTyped
<1>5. CASE Guided!HoldsLease(s, key, p)
  <2> HIDE DEF s
  <2>1. /\ DOMAIN store'.records = DOMAIN s.records \ {key}
        /\ \A k \in DOMAIN store'.records : store'.records[k] = s.records[k]
        /\ store'.leases = Guided!Drop(s.leases, {s.records[key].case})
    BY <1>5 DEF Guided!GiveUp, Guided!AfterRelease, Guided!Released, Guided!Drop, Guided!Restrict, s
  <2>2. IsLeased(store')
    BY <1>1, <1>5, <2>1, EndedIsLeased
  <2>3. \A q \in Turns \ {p} : ~HasOperation(s, q)
    BY <1>1, <1>5, LeaseIsUnique DEF HasOperation
  <2>4. WorkIsLeased'
    BY <1>2, <1>4, <2>2, <2>3, WorkStays
  <2> QED
    BY <1>3, <2>1, <2>4, RecordsAreLeft
<1>6. CASE ~Guided!HoldsLease(s, key, p)
  <2>1. store' = s
    BY <1>6 DEF Guided!GiveUp, Guided!AfterRelease
  <2> HIDE DEF s
  <2>2. WorkIsLeased'
    BY <1>1, <1>2, <1>4, <2>1, WorkStays
  <2> QED
    BY <1>3, <2>1, <2>2, RecordsAreLeft
<1> QED
  BY <1>5, <1>6

LEMMA CallsStay ==
  ASSUME MoneyIsTheCalls, now \in Nat, now' \in {now, now + 1}, UNCHANGED <<liveLease, windows>>,
         \A p \in Turns : turn'[p].pc = "extract" <=> turn[p].pc = "extract"
  PROVE  MoneyIsTheCalls'
<1>1. \A w \in windows : IsWindow(w)'
  BY DEF MoneyIsTheCalls, IsWindow
<1> QED
  BY <1>1 DEF MoneyIsTheCalls

LEMMA BeginIsLeased ==
  ASSUME Guided!StoreOptionsAssumption, GuidedInv, WorkIsLeased, ResponsesAreKept, NEW p \in Turns,
         turn[p].pc = "unsent", NEW key \in Keys, NEW text \in Texts,
         NEW ack \in Turns \cup {Null}, Guided!Begin(p, key, text, ack), UNCHANGED now
  PROVE  /\ WorkIsLeased' /\ ResponsesAreKept'
         /\ turn'[p].pc # "extract" /\ \A q \in Turns \ {p} : turn'[q] = turn[q]
<1> DEFINE s == Guided!Pruned(store, now)
           kind == Guided!BeginKind(s, key, TheCase, text)
           asked == Guided!Sent(key, text, ack)
<1>1. now \in Nat /\ IsLeased(store) /\ IsLeased(s)
  BY PrunedIsLeased DEF GuidedInv, SendersTyped, WorkIsLeased
<1>2. \A q \in Turns : InWork(q) /\ now < turn[q].at + PendingTtl => HasOperation(s, q)
  BY <1>1, PrunedHasOperation DEF WorkIsLeased
<1>3. /\ DOMAIN s.records \subseteq DOMAIN store.records
      /\ \A k \in DOMAIN s.records : s.records[k] = store.records[k]
  BY PrunedRecords
<1>4. /\ DOMAIN responses' = {o \in DOMAIN responses : responses[o] > now}
      /\ \A o \in DOMAIN responses' : responses'[o] = responses[o]
  BY DEF Guided!Begin, Guided!ResponsesPruned, Guided!Restrict
<1> HIDE DEF s
<1>5. ASSUME \A k \in DOMAIN store'.records : store'.records[k].state = "completed" =>
               k \in DOMAIN s.records /\ store'.records[k] = s.records[k]
      PROVE  ResponsesAreKept'
  <2>1. \A o \in DOMAIN responses' : responses'[o] \in Nat
    BY <1>4 DEF ResponsesAreKept
  <2>2. ASSUME NEW k \in DOMAIN store'.records, store'.records[k].state = "completed"
        PROVE  IF store'.records[k].result \in DOMAIN responses'
               THEN responses'[store'.records[k].result] + 1 >= store'.records[k].expires
               ELSE now + 1 >= store'.records[k].expires
    <3> DEFINE r == store.records[k]
    <3>1. k \in DOMAIN store.records /\ store'.records[k] = r /\ r.state = "completed"
      BY <1>3, <1>5, <2>2
    <3>2. r.expires \in Nat
      BY <1>1, <3>1 DEF IsLeased
    <3>3. IF r.result \in DOMAIN responses THEN responses[r.result] + 1 >= r.expires
          ELSE now + 1 >= r.expires
      BY <3>1 DEF ResponsesAreKept
    <3>4. r.result \in DOMAIN responses => responses[r.result] \in Nat
      BY DEF ResponsesAreKept
    <3> HIDE DEF r
    <3> QED
      BY <1>1, <1>4, <3>1, <3>2, <3>3, <3>4
  <2> QED
    BY <2>1, <2>2 DEF ResponsesAreKept
<1>6. asked \in Sending /\ asked.key = key /\ asked.at = now
  BY SentIsTyped
<1>7. CASE kind = "acquired"
  <2> DEFINE new == [asked EXCEPT !.pc = IF Live THEN "load" ELSE "answer"]
  <2>1. /\ turn' = [turn EXCEPT ![p] = new]
        /\ store' = Guided!Acquired(s, key, TheCase, text, p, now)
    BY <1>7 DEF Guided!Begin, s
  <2>2. key \notin DOMAIN s.records /\ TheCase \notin DOMAIN s.leases
    BY <1>7 DEF Guided!BeginKind
  <2>3. /\ IsLeased(store') /\ \A k \in DOMAIN s.records : s.records[k].state # "pending"
    BY <1>1, <2>1, <2>2, AcquiredIsLeased DEF Guided!StoreOptionsAssumption
  <2>4. new.key = key /\ new.at = now /\ new.pc # "extract"
    BY <1>6 DEF Sending
  <2> HIDE DEF new
  <2>5. turn'[p] = new /\ \A q \in Turns \ {p} : turn'[q] = turn[q]
    BY <2>1 DEF GuidedInv, SendersTyped
  <2>6. /\ DOMAIN store'.records = DOMAIN s.records \cup {key}
        /\ store'.records[key] =
             [state |-> "pending", case |-> TheCase, payload |-> text, lease |-> p,
              result |-> Null, expires |-> now + PendingTtl]
        /\ \A k \in DOMAIN s.records : store'.records[k] = s.records[k]
    BY <2>1, <2>2 DEF Guided!Acquired, Guided!Put
  <2>7. HasOperation(store, p)'
    <3>1. /\ TheCase \in DOMAIN store'.leases
          /\ store'.leases[TheCase].key = key /\ store'.leases[TheCase].lease = p
      BY <2>1 DEF Guided!Acquired, Guided!Put
    <3>2. turn'[p].key = key /\ turn'[p].at = now
      BY <2>4, <2>5
    <3> QED
      BY <2>6, <3>1, <3>2 DEF HasOperation, Guided!HoldsLease, Guided!LeaseOf
  <2>8. \A q \in Turns : ~HasOperation(s, q)
    BY <2>3 DEF HasOperation, Guided!HoldsLease
  <2>9. WorkIsLeased'
    BY <1>2, <2>1, <2>3, <2>7, <2>8, WorkStays
  <2>10. ResponsesAreKept'
    BY <1>5, <2>6
  <2> QED
    BY <2>4, <2>5, <2>9, <2>10
<1>8. CASE kind # "acquired"
  <2>1. \E new : turn' = [turn EXCEPT ![p] = new] /\ new.pc = "done"
    <3> DEFINE over == [asked EXCEPT !.pc = "done", !.reply = s.records[key].result]
    <3>1. over.pc = "done" /\ Guided!Refused.pc = "done"
      BY <1>6 DEF Sending, Guided!Refused, Guided!Unsent
    <3>2. turn' = [turn EXCEPT ![p] = over] \/ turn' = [turn EXCEPT ![p] = Guided!Refused]
      BY <1>8 DEF Guided!Begin, s
    <3> HIDE DEF over
    <3> QED
      BY <3>1, <3>2
  <2>2. PICK new : turn' = [turn EXCEPT ![p] = new] /\ new.pc = "done"
    BY <2>1
  <2>3. store' = s
    BY <1>8 DEF Guided!Begin, s
  <2>4. turn'[p] = new /\ \A q \in Turns \ {p} : turn'[q] = turn[q]
    BY <2>2 DEF GuidedInv, SendersTyped
  <2>5. WorkIsLeased'
    BY <1>1, <1>2, <2>2, <2>3, <2>4, WorkStays DEF InWork
  <2>6. ResponsesAreKept'
    BY <1>5, <2>3
  <2> QED
    BY <2>2, <2>4, <2>5, <2>6
<1> QED
  BY <1>7, <1>8

LEMMA MarksStart ==
  ASSUME Guided!TurnsInit
  PROVE  MarksInv
<1>1. \A p \in Turns : turn[p].pc = "unsent"
  BY DEF Guided!TurnsInit, Guided!Unsent
<1>2. DOMAIN store.records = {} /\ DOMAIN store.leases = {} /\ DOMAIN responses = {}
  BY DEF Guided!TurnsInit, Guided!EmptyStore, Guided!Empty
<1>3. MoneyIsTheCalls
  BY <1>1 DEF Guided!TurnsInit, MoneyIsTheCalls
<1> QED
  BY <1>1, <1>2, <1>3 DEF MarksInv, WorkIsLeased, IsLeased, ResponsesAreKept, InWork

(* A turn that is under way takes its next step.                           *)
LEMMA WorkGoesOn ==
  ASSUME GuidedInv, WorkIsLeased, ResponsesAreKept, NEW p \in Turns, InWork(p),
         NEW pc \in {"reserve", "extract", "answer"}, turn' = [turn EXCEPT ![p].pc = pc],
         UNCHANGED <<now, store, responses>>
  PROVE  /\ WorkIsLeased' /\ ResponsesAreKept'
         /\ turn'[p].pc = pc /\ \A q \in Turns \ {p} : turn'[q] = turn[q]
<1> DEFINE new == [turn[p] EXCEPT !.pc = pc]
<1>1. /\ turn' = [turn EXCEPT ![p] = new]
      /\ turn'[p].pc = pc /\ turn'[p].key = turn[p].key /\ turn'[p].at = turn[p].at
      /\ \A q \in Turns \ {p} : turn'[q] = turn[q]
  BY DEF GuidedInv, SendersTyped, Sending
<1> HIDE DEF new
<1>2. IsLeased(store')
  BY DEF WorkIsLeased
<1>3. \A q \in Turns : InWork(q) /\ now < turn[q].at + PendingTtl => HasOperation(store, q)
  BY DEF WorkIsLeased
<1>4. HasOperation(store, p) => HasOperation(store, p)'
  BY <1>1 DEF HasOperation
<1>5. WorkIsLeased'
  BY <1>1, <1>2, <1>3, <1>4, WorkStays
<1> QED
  BY <1>1, <1>5, RecordsAreLeft

LEMMA TurnEnds ==
  ASSUME GuidedInv, NEW p \in Turns, Guided!GiveUp(p)
  PROVE  turn'[p].pc = "done" /\ \A q \in Turns \ {p} : turn'[q] = turn[q]
  BY DEF Guided!GiveUp, Guided!Refuse, Guided!Refused, Guided!Unsent, GuidedInv, SendersTyped

LEMMA LoadMarks ==
  ASSUME GuidedInv, MarksInv, NEW p \in Turns, Guided!LoadState(p)
  PROVE  MarksInv'
<1>1. /\ turn[p].pc = "load" /\ InWork(p) /\ UNCHANGED <<now, responses, liveLease, windows>>
      /\ now \in Nat
  BY DEF Guided!LoadState, Guided!moneyVars, InWork, GuidedInv, SendersTyped
<1>2. CASE turn' = [turn EXCEPT ![p].pc = "reserve"] /\ UNCHANGED store
  <2>1. /\ WorkIsLeased' /\ ResponsesAreKept'
        /\ turn'[p].pc = "reserve" /\ \A q \in Turns \ {p} : turn'[q] = turn[q]
    BY <1>1, <1>2, WorkGoesOn DEF MarksInv
  <2> QED
    BY <1>1, <2>1, CallsStay DEF MarksInv
<1>3. CASE Guided!GiveUp(p)
  <2>1. WorkIsLeased' /\ ResponsesAreKept'
    BY <1>1, <1>3, GiveUpIsLeased DEF MarksInv
  <2> QED
    BY <1>1, <1>3, <2>1, TurnEnds, CallsStay DEF MarksInv
<1> QED
  BY <1>2, <1>3 DEF Guided!LoadState

(* The window that a reservation is made in is the last one, or a new one  *)
(* after all others.                                                       *)
LEMMA CurrentWindow ==
  ASSUME MoneyIsTheCalls, now \in Nat, NEW w, w = Guided!Current(windows, now)
  PROVE  /\ IsWindow(w) /\ (w \in windows \/ w.reserved = << >>)
         /\ \A v \in windows : v.start <= w.start
<1> DEFINE last == CHOOSE u \in windows : \A v \in windows : v.start <= u.start
<1>1. CASE w = Guided!NewWindow(now)
  <2>1. w = [start |-> now, reserved |-> << >>, actual |-> Guided!Amounts, unknown |-> FALSE]
    BY <1>1 DEF Guided!NewWindow, Guided!Empty
  <2> QED
    BY <2>1 DEF MoneyIsTheCalls, IsWindow
<1>2. CASE w = last /\ windows # {}
  <2>1. \E u \in windows : \A v \in windows : v.start <= u.start
    BY <1>2 DEF MoneyIsTheCalls
  <2>2. last \in windows /\ \A v \in windows : v.start <= last.start
    BY <2>1
  <2> QED
    BY <1>2, <2>2 DEF MoneyIsTheCalls
<1> QED
  BY <1>1, <1>2 DEF Guided!Current

(* The window w becomes u.                                                 *)
LEMMA WindowChanges ==
  ASSUME MoneyIsTheCalls, now \in Nat, UNCHANGED now, NEW w, NEW u, IsWindow(u),
         w \in windows \/ \A v \in windows : v.start <= w.start,
         u.start = w.start, windows' = (windows \ {w}) \cup {u}
  PROVE  /\ \A v \in windows' : IsWindow(v)'
         /\ windows' # {} => \E x \in windows' : \A v \in windows' : v.start <= x.start
<1>1. \A v \in windows' : IsWindow(v)'
  BY DEF MoneyIsTheCalls, IsWindow
<1>2. u.start \in Nat /\ u \in windows' /\ \A v \in windows' : v = u \/ v \in windows
  BY DEF IsWindow
<1>3. CASE \A v \in windows : v.start <= w.start
  <2>1. \A v \in windows' : v.start <= u.start
    BY <1>2, <1>3
  <2> QED
    BY <1>1, <1>2, <2>1
<1>4. CASE w \in windows
  <2>1. PICK x \in windows : \A v \in windows : v.start <= x.start
    BY <1>4 DEF MoneyIsTheCalls
  <2>2. CASE x = w
    BY <1>3, <2>1, <2>2
  <2>3. CASE x # w
    <3>1. x \in windows' /\ u.start <= x.start
      BY <1>4, <2>1, <2>3
    <3>2. \A v \in windows' : v.start <= x.start
      BY <1>2, <2>1, <3>1
    <3> QED
      BY <1>1, <3>1, <3>2
  <2> QED
    BY <2>2, <2>3
<1> QED
  BY <1>3, <1>4

LEMMA SettledWindow ==
  ASSUME NEW x, NEW usage, NEW known,
         x = [start |-> x.start, reserved |-> x.reserved, actual |-> x.actual, unknown |-> x.unknown]
  PROVE  LET y == Guided!Settled(x, usage, known) IN
         y = [start |-> x.start, reserved |-> x.reserved, actual |-> y.actual, unknown |-> y.unknown]
<1> DEFINE y == Guided!Settled(x, usage, known)
           used == Guided!Add(x.actual, IF known THEN usage
                     ELSE [Guided!Amounts EXCEPT !.attempts = usage.attempts])
           lost == x.unknown \/ ~known
<1>1. y = [x EXCEPT !.actual = used, !.unknown = lost]
  BY DEF Guided!Settled
<1> HIDE DEF y, used, lost
<1>2. y = [start |-> x.start, reserved |-> x.reserved, actual |-> used, unknown |-> lost]
  BY <1>1
<1>3. y.actual = used /\ y.unknown = lost
  BY <1>2
<1> QED
  BY <1>2, <1>3 DEF y

LEMMA ReserveMarks ==
  ASSUME GuidedInv, MarksInv, NEW p \in Turns, Guided!ReserveTurn(p)
  PROVE  MarksInv'
<1>1. /\ turn[p].pc = "reserve" /\ InWork(p) /\ UNCHANGED <<now, responses>> /\ now \in Nat
      /\ liveLease \in BOOLEAN
  BY DEF Guided!ReserveTurn, InWork, GuidedInv, SendersTyped, MarksInv, MoneyIsTheCalls
<1>2. ASSUME Guided!GiveUp(p)
      PROVE  /\ WorkIsLeased' /\ ResponsesAreKept'
             /\ \A q \in Turns : turn'[q].pc = "extract" <=> turn[q].pc = "extract"
  BY <1>1, <1>2, GiveUpIsLeased, TurnEnds DEF MarksInv
<1>3. CASE liveLease
  <2>1. Guided!GiveUp(p) /\ UNCHANGED <<liveLease, windows>>
    BY <1>1, <1>3 DEF Guided!ReserveTurn, Guided!CanAcquire, Guided!moneyVars
  <2> QED
    BY <1>1, <1>2, <2>1, CallsStay DEF MarksInv
<1>4. CASE ~liveLease
  <2> DEFINE w == Guided!Current(windows, now)
             kept == [w EXCEPT !.reserved = Guided!Put(@, p, Asked)]
             u == IF Guided!Opens(w, Asked) THEN kept ELSE w
  <2>1. /\ windows' = (windows \ {w}) \cup {u}
        /\ IF Guided!Opens(w, Asked)
           THEN liveLease' = TRUE /\ turn' = [turn EXCEPT ![p].pc = "extract"] /\ UNCHANGED store
           ELSE Guided!GiveUp(p) /\ UNCHANGED liveLease
    BY <1>1, <1>4 DEF Guided!ReserveTurn, Guided!CanAcquire, Guided!AfterOpen
  <2>2. /\ IsWindow(w) /\ (w \in windows \/ w.reserved = << >>)
        /\ \A v \in windows : v.start <= w.start
    BY <1>1, CurrentWindow DEF MarksInv
  <2>3. /\ \A q \in Turns : turn[q].pc # "extract"
        /\ \A v \in windows : DOMAIN v.reserved = {}
    BY <1>4 DEF MarksInv, MoneyIsTheCalls
  <2>4. DOMAIN << >> = {}
    OBVIOUS
  <2>5. DOMAIN w.reserved = {}
    BY <2>2, <2>3, <2>4
  <2> HIDE DEF w
  <2>6. /\ IsWindow(kept) /\ kept.start = w.start /\ DOMAIN kept.reserved = {p}
    BY <2>2, <2>5 DEF IsWindow, Guided!Put
  <2> HIDE DEF kept
  <2>7. /\ \A v \in windows' : IsWindow(v)'
        /\ windows' # {} => \E x \in windows' : \A v \in windows' : v.start <= x.start
    BY <1>1, <2>1, <2>2, <2>6, WindowChanges DEF MarksInv
  <2>8. CASE Guided!Opens(w, Asked)
    <3>1. /\ WorkIsLeased' /\ ResponsesAreKept'
          /\ turn'[p].pc = "extract" /\ \A q \in Turns \ {p} : turn'[q] = turn[q]
      BY <1>1, <2>1, <2>8, WorkGoesOn DEF MarksInv
    <3>2. liveLease' = TRUE /\ kept \in windows' /\ \A v \in windows' \ {kept} : DOMAIN v.reserved = {}
      BY <2>1, <2>3, <2>8
    <3>3. MoneyIsTheCalls'
      BY <2>3, <2>6, <2>7, <3>1, <3>2 DEF MoneyIsTheCalls
    <3> QED
      BY <3>1, <3>3 DEF MarksInv
  <2>9. CASE ~Guided!Opens(w, Asked)
    <3>1. Guided!GiveUp(p) /\ liveLease' = FALSE
      BY <1>1, <1>4, <2>1, <2>9
    <3>2. \A v \in windows' : DOMAIN v.reserved = {}
      BY <2>1, <2>3, <2>5, <2>9
    <3>3. MoneyIsTheCalls'
      BY <1>2, <2>3, <2>7, <3>1, <3>2 DEF MoneyIsTheCalls
    <3> QED
      BY <1>2, <3>1, <3>3 DEF MarksInv
  <2> QED
    BY <2>8, <2>9
<1> QED
  BY <1>1, <1>3, <1>4

LEMMA ExtractMarks ==
  ASSUME GuidedInv, MarksInv, NEW p \in Turns, Guided!Extract(p)
  PROVE  MarksInv'
<1>1. /\ turn[p].pc = "extract" /\ InWork(p) /\ UNCHANGED <<now, responses>> /\ now \in Nat
      /\ liveLease' = FALSE
  BY DEF Guided!Extract, InWork, GuidedInv, SendersTyped
<1>2. PICK usage \in Used, known \in BOOLEAN :
        windows' = Guided!AfterSettle(windows, p, usage, known, now)
  BY DEF Guided!Extract
<1> DEFINE w == Guided!HolderOf(windows, p)
           free == [w EXCEPT !.reserved = Guided!Drop(@, {p})]
           u == Guided!Settled(free, usage, known)
<1>3. windows' = (windows \ {w}) \cup {u}
  BY <1>2 DEF Guided!AfterSettle
<1>4. w \in windows /\ p \in DOMAIN w.reserved
  <2>1. \E v \in windows : p \in DOMAIN v.reserved
    BY <1>1 DEF MarksInv, MoneyIsTheCalls
  <2> QED
    BY <2>1 DEF Guided!HolderOf
<1>5. \A q \in Turns : turn[q].pc = "extract" => q = p
  BY <1>1 DEF MarksInv, MoneyIsTheCalls
<1>6. /\ \A v \in windows \ {w} : DOMAIN v.reserved = {}
      /\ DOMAIN w.reserved = {p} /\ IsWindow(w)
  BY <1>4, <1>5 DEF MarksInv, MoneyIsTheCalls
<1> HIDE DEF w
<1>7. /\ free = [start |-> w.start, reserved |-> free.reserved, actual |-> w.actual,
                 unknown |-> w.unknown]
      /\ DOMAIN free.reserved = {}
  BY <1>6 DEF IsWindow, Guided!Drop, Guided!Restrict
<1> HIDE DEF free
<1>8. u = [start |-> w.start, reserved |-> free.reserved, actual |-> u.actual,
           unknown |-> u.unknown]
  BY <1>7, SettledWindow
<1> HIDE DEF u
<1>9. IsWindow(u) /\ u.start = w.start /\ DOMAIN u.reserved = {}
  BY <1>6, <1>7, <1>8 DEF IsWindow
<1>10. /\ \A v \in windows' : IsWindow(v)'
       /\ windows' # {} => \E x \in windows' : \A v \in windows' : v.start <= x.start
  BY <1>1, <1>3, <1>4, <1>9, WindowChanges DEF MarksInv
<1>11. \A v \in windows' : DOMAIN v.reserved = {}
  BY <1>3, <1>6, <1>9
<1>12. /\ WorkIsLeased' /\ ResponsesAreKept'
       /\ turn'[p].pc # "extract" /\ \A q \in Turns \ {p} : turn'[q] = turn[q]
  <2>1. CASE turn' = [turn EXCEPT ![p].pc = "answer"] /\ UNCHANGED store
    BY <1>1, <2>1, WorkGoesOn DEF MarksInv
  <2>2. CASE Guided!GiveUp(p)
    BY <1>1, <2>2, GiveUpIsLeased, TurnEnds DEF MarksInv
  <2> QED
    BY <2>1, <2>2 DEF Guided!Extract
<1>13. \A q \in Turns : turn'[q].pc # "extract"
  BY <1>5, <1>12
<1>14. MoneyIsTheCalls'
  BY <1>1, <1>10, <1>11, <1>13 DEF MoneyIsTheCalls
<1> QED
  BY <1>12, <1>14 DEF MarksInv

LEMMA AnswerMarks ==
  ASSUME Guided!TurnsAssumption, Guided!StoreOptionsAssumption, GuidedInv, MarksInv, NEW p \in Turns,
         NEW lag \in {0, 1}, Guided!Answer(p, lag)
  PROVE  MarksInv'
<1> DEFINE s == Guided!Pruned(store, now)
           key == turn[p].key
<1>1. /\ turn[p].pc = "answer" /\ InWork(p) /\ UNCHANGED <<now, liveLease, windows>>
      /\ now \in Nat /\ turn[p].reply = Null /\ ~Anew(p) /\ lag <= now
  BY DEF Guided!Answer, Guided!moneyVars, InWork, GuidedInv, SendersTyped, Anew,
         Guided!TurnsAssumption
<1>2. IsLeased(store) /\ IsLeased(s)
  BY <1>1, PrunedIsLeased DEF MarksInv, WorkIsLeased
<1>3. \A q \in Turns : InWork(q) /\ now < turn[q].at + PendingTtl => HasOperation(s, q)
  BY <1>1, <1>2, PrunedHasOperation DEF MarksInv, WorkIsLeased
<1>4. /\ DOMAIN s.records \subseteq DOMAIN store.records
      /\ \A k \in DOMAIN s.records : s.records[k] = store.records[k]
  BY PrunedRecords
<1>5. /\ \A k \in DOMAIN s.records : s.records[k].state = "completed" => s.records[k].result # p
      /\ \A k \in DOMAIN s.records : s.records[k].state = "completed" =>
           IF s.records[k].result \in DOMAIN responses
           THEN responses[s.records[k].result] + 1 >= s.records[k].expires
           ELSE now + 1 >= s.records[k].expires
  BY <1>1, <1>4 DEF GuidedInv, RecordsAreTheirs, CompletedIsTheirs, MarksInv, ResponsesAreKept
<1> HIDE DEF s
<1>6. CASE Guided!HoldsLease(s, key, p)
  <2> DEFINE new == [turn[p] EXCEPT !.pc = "done", !.reply = p, !.at = now]
             until == (now - lag) + CompletedRetention
  <2>1. /\ turn' = [turn EXCEPT ![p] = new] /\ responses' = Guided!Put(responses, p, until)
        /\ store' = Guided!Finished(s, key, p, now)
    BY <1>6 DEF Guided!Answer, s
  <2>2. new.pc = "done"
    BY DEF GuidedInv, SendersTyped, Sending
  <2> HIDE DEF new
  <2>3. turn'[p] = new /\ \A q \in Turns \ {p} : turn'[q] = turn[q]
    BY <2>1 DEF GuidedInv, SendersTyped
  <2>4. until \in Nat /\ until + 1 >= now + CompletedRetention /\ now + CompletedRetention \in Nat
    BY <1>1 DEF Guided!StoreOptionsAssumption
  <2> HIDE DEF until
  <2>5. /\ key \in DOMAIN s.records /\ s.records[key].case = TheCase /\ IsRecord(s.records[key])
    BY <1>2, <1>4, <1>6 DEF Guided!HoldsLease, IsLeased, GuidedInv, RecordsAreTheirs
  <2> DEFINE done == [s.records[key] EXCEPT !.state = "completed", !.result = p,
                                            !.expires = now + CompletedRetention]
  <2>6. /\ done.state = "completed" /\ done.result = p /\ done.expires = now + CompletedRetention
        /\ done.case = TheCase
    BY <2>5 DEF IsRecord
  <2>7. /\ store'.records = Guided!Put(s.records, key, done)
        /\ store'.leases = Guided!Drop(s.leases, {s.records[key].case})
    BY <2>1 DEF Guided!Finished
  <2> HIDE DEF done
  <2>8. /\ DOMAIN store'.records = DOMAIN s.records /\ store'.records[key] = done
        /\ \A k \in DOMAIN s.records \ {key} : store'.records[k] = s.records[k]
    BY <2>5, <2>7 DEF Guided!Put
  <2>9. IsLeased(store')
    <3> DEFINE t == store'
    <3>1. /\ DOMAIN t.records \subseteq DOMAIN s.records
          /\ \A k \in DOMAIN t.records \ {key} : t.records[k] = s.records[k]
          /\ t.records[key].case = TheCase /\ t.records[key].expires \in Nat
          /\ t.records[key].state # "pending"
          /\ t.leases = Guided!Drop(s.leases, {s.records[key].case})
      BY <2>4, <2>6, <2>7, <2>8
    <3> HIDE DEF t
    <3>2. IsLeased(t)
      BY <1>2, <1>6, <3>1, EndedIsLeased
    <3> QED
      BY <3>2 DEF t
  <2>10. \A q \in Turns \ {p} : ~HasOperation(s, q)
    BY <1>2, <1>6, LeaseIsUnique DEF HasOperation
  <2>11. WorkIsLeased'
    BY <1>1, <1>3, <2>1, <2>2, <2>3, <2>9, <2>10, WorkStays DEF InWork
  <2>12. /\ DOMAIN responses' = DOMAIN responses \cup {p} /\ responses'[p] = until
         /\ \A o \in DOMAIN responses \ {p} : responses'[o] = responses[o]
    BY <2>1 DEF Guided!Put
  <2>13. ResponsesAreKept'
    BY <1>1, <1>5, <2>4, <2>6, <2>8, <2>12 DEF ResponsesAreKept, MarksInv
  <2>14. MoneyIsTheCalls'
    BY <1>1, <2>2, <2>3, CallsStay DEF MarksInv
  <2> QED
    BY <2>11, <2>13, <2>14 DEF MarksInv
<1>7. CASE ~Guided!HoldsLease(s, key, p)
  <2>1. /\ turn' = [turn EXCEPT ![p] = Guided!Refused]
        /\ responses' = Guided!Drop(responses, {p}) /\ store' = s
    BY <1>7 DEF Guided!Answer, s
  <2>2. turn'[p].pc = "done" /\ \A q \in Turns \ {p} : turn'[q] = turn[q]
    BY <2>1 DEF GuidedInv, SendersTyped, Guided!Refused, Guided!Unsent
  <2>3. WorkIsLeased'
    BY <1>1, <1>2, <1>3, <2>1, <2>2, WorkStays DEF InWork
  <2>4. /\ DOMAIN responses' = DOMAIN responses \ {p}
        /\ \A o \in DOMAIN responses' : responses'[o] = responses[o]
    BY <2>1 DEF Guided!Drop, Guided!Restrict
  <2>5. ResponsesAreKept'
    BY <1>1, <1>5, <2>1, <2>4 DEF ResponsesAreKept, MarksInv
  <2>6. MoneyIsTheCalls'
    BY <1>1, <2>2, CallsStay DEF MarksInv
  <2> QED
    BY <2>3, <2>5, <2>6 DEF MarksInv
<1> QED
  BY <1>6, <1>7

LEMMA SendMarks ==
  ASSUME Guided!StoreOptionsAssumption, GuidedInv, MarksInv, NEW p \in Turns, NEW key \in Keys,
         NEW text \in Texts, NEW ack \in DOMAIN acks \cup {Null}, DOMAIN acks \subseteq Turns,
         Guided!SendTurn(p, key, text, ack)
  PROVE  MarksInv'
<1>1. /\ turn[p].pc = "unsent" /\ UNCHANGED <<now, liveLease, windows>> /\ now \in Nat
  BY DEF Guided!SendTurn, Guided!Arrives, Guided!moneyVars, GuidedInv, SendersTyped
<1>2. ASSUME Guided!Refuse(p), UNCHANGED <<store, responses>>
      PROVE  /\ WorkIsLeased' /\ ResponsesAreKept'
             /\ turn'[p].pc # "extract" /\ \A q \in Turns \ {p} : turn'[q] = turn[q]
  <2>1. /\ turn' = [turn EXCEPT ![p] = Guided!Refused]
        /\ turn'[p].pc = "done" /\ \A q \in Turns \ {p} : turn'[q] = turn[q]
    BY <1>2 DEF Guided!Refuse, GuidedInv, SendersTyped, Guided!Refused, Guided!Unsent
  <2>2. WorkIsLeased'
    BY <1>1, <1>2, <2>1, WorkStays DEF MarksInv, WorkIsLeased, InWork
  <2> QED
    BY <1>1, <1>2, <2>1, <2>2, RecordsAreLeft DEF MarksInv
<1>3. /\ WorkIsLeased' /\ ResponsesAreKept'
      /\ turn'[p].pc # "extract" /\ \A q \in Turns \ {p} : turn'[q] = turn[q]
  <2>1. CASE Guided!Begin(p, key, text, Null)
    BY <1>1, <2>1, BeginIsLeased DEF MarksInv
  <2>2. CASE Guided!Begin(p, key, text, ack)
    BY <1>1, <2>2, BeginIsLeased DEF MarksInv
  <2>3. CASE Guided!Refuse(p) /\ UNCHANGED <<store, responses>>
    BY <1>2, <2>3
  <2> QED
    BY <2>1, <2>2, <2>3 DEF Guided!SendTurn, Guided!Warn
<1>4. MoneyIsTheCalls'
  BY <1>1, <1>3, CallsStay DEF MarksInv
<1> QED
  BY <1>3, <1>4 DEF MarksInv

LEMMA TimeMarks ==
  ASSUME Guided!StoreOptionsAssumption, GuidedInv, MarksInv, UNCHANGED turnsVars,
         now' \in {now, now + 1}
  PROVE  MarksInv'
<1>1. now \in Nat /\ UNCHANGED <<turn, store, responses, liveLease, windows>>
  BY DEF GuidedInv, SendersTyped, turnsVars
<1>2. WorkIsLeased'
  <2>1. IsLeased(store)'
    BY <1>1 DEF MarksInv, WorkIsLeased, IsLeased
  <2>2. ASSUME NEW p \in Turns, InWork(p)', now' < turn'[p].at + PendingTtl
        PROVE  HasOperation(store, p)'
    <3>1. turn[p].at \in Nat /\ PendingTtl \in Nat
      BY DEF GuidedInv, SendersTyped, Sending, Guided!StoreOptionsAssumption
    <3>2. InWork(p) /\ now < turn[p].at + PendingTtl
      BY <1>1, <2>2, <3>1 DEF InWork
    <3> QED
      BY <1>1, <3>2 DEF MarksInv, WorkIsLeased, HasOperation
  <2> QED
    BY <2>1, <2>2 DEF WorkIsLeased
<1>3. ResponsesAreKept'
  <2>1. \A k \in DOMAIN store.records : store.records[k].expires \in Nat
    BY DEF MarksInv, WorkIsLeased, IsLeased
  <2> QED
    BY <1>1, <2>1 DEF MarksInv, ResponsesAreKept
<1>4. MoneyIsTheCalls'
  BY <1>1, CallsStay DEF MarksInv
<1> QED
  BY <1>2, <1>3, <1>4 DEF MarksInv

LEMMA MarksKeep ==
  ASSUME Guided!TurnsAssumption, Guided!StoreOptionsAssumption, GuidedInv, MarksInv,
         DOMAIN acks \subseteq Turns, [Guided!TurnsNext]_<<now, turnsVars>>
  PROVE  MarksInv'
<1>1. CASE Guided!TurnsTime \/ UNCHANGED <<now, turnsVars>>
  <2>1. UNCHANGED turnsVars /\ now' \in {now, now + 1}
    BY <1>1 DEF Guided!TurnsTime, Guided!Advance, turnsVars, Guided!moneyVars
  <2> QED
    BY <2>1, TimeMarks
<1>2. ASSUME NEW p \in Turns, NEW key \in Keys, NEW text \in Texts, NEW ack \in DOMAIN acks \cup {Null},
             Guided!SendTurn(p, key, text, ack)
      PROVE  MarksInv'
  BY <1>2, SendMarks
<1>3. ASSUME NEW p \in Turns, Guided!LiveTurn(p) PROVE MarksInv'
  BY <1>3, LoadMarks, ReserveMarks, ExtractMarks DEF Guided!LiveTurn
<1>4. ASSUME NEW p \in Turns, NEW lag \in {0, 1}, Guided!Answer(p, lag) PROVE MarksInv'
  BY <1>4, AnswerMarks
<1> QED
  BY <1>1, <1>2, <1>3, <1>4 DEF Guided!TurnsNext

LEMMA CountOfCalls ==
  ASSUME NEW S
  PROVE  Guided!Cardinality(S) = Cardinality(S)
  BY DEF Guided!Cardinality, Cardinality, Guided!IsFiniteSet, IsFiniteSet

LEMMA LeasesAreTheCalls ==
  ASSUME MarksInv
  PROVE  Guided!LeaseIsTheCall
<1> DEFINE calling == {p \in Turns : turn[p].pc = "extract"}
<1>1. Guided!Cardinality(calling) <= 1
  <2>1. CASE calling = {}
    BY <2>1, CountOfCalls, FS_EmptySet
  <2>2. CASE calling # {}
    <3>1. PICK p : calling = {p}
      BY <2>2 DEF MarksInv, MoneyIsTheCalls
    <3>2. Cardinality({p}) = 1
      BY FS_Singleton
    <3> HIDE DEF calling
    <3> QED
      BY <3>1, <3>2, CountOfCalls
  <2> QED
    BY <2>1, <2>2
<1>2. UNION {DOMAIN w.reserved : w \in windows} = calling
  BY DEF MarksInv, MoneyIsTheCalls
<1>3. liveLease <=> calling # {}
  BY DEF MarksInv, MoneyIsTheCalls
<1> QED
  BY <1>1, <1>2, <1>3 DEF Guided!LeaseIsTheCall

LEMMA MarksAgree ==
  ASSUME GuidedInv, MarksInv
  PROVE  Guided!StoresAgree
<1>1. ASSUME NEW k \in DOMAIN store.records
      PROVE  LET r == store.records[k] IN
             /\ r.state = "completed" /\ now + 1 < r.expires => r.result \in DOMAIN responses
             /\ r.state = "pending" => Guided!LeaseOf(store, k)
  <2>1. /\ store.records[k].expires \in Nat /\ now \in Nat /\ store.records[k].case = TheCase
    BY DEF MarksInv, WorkIsLeased, IsLeased, GuidedInv, SendersTyped
  <2>2. store.records[k].state = "completed" /\ now + 1 < store.records[k].expires =>
          store.records[k].result \in DOMAIN responses
    BY <2>1 DEF MarksInv, ResponsesAreKept
  <2>3. store.records[k].state = "pending" => Guided!LeaseOf(store, k)
    BY <2>1 DEF MarksInv, WorkIsLeased, IsLeased, Guided!LeaseOf
  <2> QED
    BY <2>2, <2>3
<1>2. \A c \in DOMAIN store.leases : store.leases[c].key \in DOMAIN store.records
  BY DEF MarksInv, WorkIsLeased, IsLeased
<1>3. ASSUME NEW p \in Turns, turn[p].pc \notin {"unsent", "done"}, now < turn[p].at + PendingTtl
      PROVE  Guided!HoldsLease(store, turn[p].key, p)
  <2>1. InWork(p)
    BY <1>3 DEF InWork, GuidedInv, SendersTyped, Sending
  <2> QED
    BY <1>3, <2>1 DEF MarksInv, WorkIsLeased, HasOperation
<1> QED
  BY <1>1, <1>2, <1>3 DEF Guided!StoresAgree

LEMMA GuidedAndMarksKeep ==
  ASSUME Guided!TurnsAssumption, Guided!StoreOptionsAssumption, GuidedInv, MarksInv,
         [Guided!TurnsNext]_<<now, turnsVars>>
  PROVE  GuidedInv' /\ MarksInv'
<1>1. DOMAIN acks \subseteq Turns
  BY DEF GuidedInv, AcksAreSpent
<1> QED
  BY <1>1, GuidedKeeps, MarksKeep

(* In the guided conversation, whatever expires, is released or is retried *)
(* in between, two turns with one key get one answer until that answer is  *)
(* forgotten, and an acknowledged warning lets one turn pass; the leases,  *)
(* the operations and the reservations are those of the turns under way.   *)
THEOREM GuidedIsSafe ==
  ASSUME Guided!TurnsAssumption, Guided!StoreOptionsAssumption
  PROVE  Guided!TurnsSpec => [](/\ Guided!OneAnswerPerKey /\ Guided!OneTurnPerAck
                                /\ Guided!StoresAgree /\ Guided!LeaseIsTheCall)
<1> DEFINE Inv == GuidedInv /\ MarksInv
<1>1. Guided!ClockInit /\ Guided!TurnsInit => Inv
  BY GuidedStarts, MarksStart DEF Guided!ClockInit, ClockInit
<1>2. Inv /\ [Guided!TurnsNext]_<<now, Guided!turnsVars>> => Inv'
  BY GuidedAndMarksKeep DEF Guided!turnsVars, Guided!moneyVars, turnsVars
<1>3. Inv => /\ Guided!OneAnswerPerKey /\ Guided!OneTurnPerAck
             /\ Guided!StoresAgree /\ Guided!LeaseIsTheCall
  BY GuidedAnswersAreOne, MarksAgree, LeasesAreTheCalls
     DEF GuidedInv, AcksAreSpent, Guided!OneTurnPerAck
<1> QED
  BY <1>1, <1>2, <1>3, PTL DEF Guided!TurnsSpec
===============================================================================
