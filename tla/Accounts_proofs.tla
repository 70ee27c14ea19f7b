----------------------------- MODULE Accounts_proofs -----------------------------
(***************************************************************************)
(* Theorems about Accounts, for any users, addresses, codes, requests and  *)
(* failures.                                                               *)
(***************************************************************************)
EXTENDS AccountCorrectness, TLAPS

--------------------------------------------------------------------------------
(* Type correctness, part by part *)

Secrets(s) ==
  /\ s.pc \in CodePcs => s.secret \in Codes
  /\ s.pc \in TokenPcs => s.secret \in Tokens

SessionsOK == reqs \in [Requests -> Session] /\ \A r \in Requests : Secrets(reqs[r])

RedisOK ==
  /\ RedisTypeOK
  /\ \A e \in Emails : redis[OtpKey(e)] \in Codes \cup {Nil}
  /\ \A t \in Tokens : redis[ResetKey(t)] \in Emails \cup {Nil}

TableOK == users \in [UserIds -> User] /\ lastUser \in 0..MaxUser

ClientsOK ==
  /\ inbox \in [Emails -> Codes \cup {Nil}]
  /\ links \in [Emails -> Tokens \cup {Nil}]
  /\ unsent \in [Emails -> BOOLEAN]
  /\ cookies \subseteq UserIds
  /\ access \subseteq UserIds

CountsOK == faults \in 0..MaxFaults /\ used \in [Tokens -> 0..2]

LEMMA Parts ==
  /\ TypeOK <=> SessionsOK /\ RedisOK /\ TableOK /\ ClientsOK /\ CountsOK
  /\ TypeOK' <=> SessionsOK' /\ RedisOK' /\ TableOK' /\ ClientsOK' /\ CountsOK'
  BY DEF TypeOK, SessionsOK, Secrets, RedisOK, TableOK, ClientsOK, CountsOK

(***************************************************************************)
(* The three kinds of keys never meet, and two addresses have two keys.    *)
(***************************************************************************)
LEMMA KeysDiffer ==
  /\ \A x, y : OtpKey(x) # CooldownKey(y) /\ OtpKey(x) # ResetKey(y) /\ CooldownKey(x) # ResetKey(y)
  /\ \A x, y : OtpKey(x) = OtpKey(y) => x = y
  BY DEF OtpKey, CooldownKey, ResetKey

LEMMA IdleType == Idle \in Session /\ Secrets(Idle)
  BY AccountsAssumption DEF Idle, Session, Secrets, Pcs, CodePcs, TokenPcs

(***************************************************************************)
(* A session of which a field changes within the field's type.             *)
(***************************************************************************)
LEMMA PcType ==
  ASSUME NEW s \in Session, NEW pc \in Pcs
  PROVE  [s EXCEPT !.pc = pc] \in Session /\ [s EXCEPT !.pc = pc].pc = pc
         /\ [s EXCEPT !.pc = pc].secret = s.secret
  BY DEF Session

LEMMA UserType ==
  ASSUME NEW s \in Session, NEW u \in UserIds
  PROVE  [s EXCEPT !.user = u] \in Session /\ [s EXCEPT !.user = u].pc = s.pc
         /\ [s EXCEPT !.user = u].secret = s.secret
  BY AccountsAssumption DEF Session, UserIds

LEMMA EmailType ==
  ASSUME NEW s \in Session, NEW e \in Emails \cup {Nil}
  PROVE  [s EXCEPT !.email = e] \in Session /\ [s EXCEPT !.email = e].pc = s.pc
         /\ [s EXCEPT !.email = e].secret = s.secret
  BY DEF Session

LEMMA SecretType ==
  ASSUME NEW s \in Session, NEW c \in Codes
  PROVE  [s EXCEPT !.secret = c] \in Session /\ [s EXCEPT !.secret = c].pc = s.pc
         /\ [s EXCEPT !.secret = c].secret = c
  BY DEF Session

(***************************************************************************)
(* What a step leaves of the sessions: the forms the steps use.            *)
(***************************************************************************)
LEMMA SlotType ==
  ASSUME SessionsOK, NEW r \in Requests, NEW s \in Session, Secrets(s),
         reqs' = [reqs EXCEPT ![r] = s]
  PROVE  SessionsOK'
  BY DEF SessionsOK

LEMMA DoneType ==
  ASSUME SessionsOK, NEW r \in Requests, Done(r)
  PROVE  SessionsOK'
  BY IdleType, SlotType DEF Done

LEMMA GotoType ==
  ASSUME SessionsOK, NEW r \in Requests, NEW pc \in Pcs, Goto(r, pc),
         pc \in CodePcs => reqs[r].secret \in Codes,
         pc \in TokenPcs => reqs[r].secret \in Tokens
  PROVE  SessionsOK'
<1> DEFINE s == [reqs[r] EXCEPT !.pc = pc]
<1>1. s \in Session /\ Secrets(s)
  BY PcType DEF SessionsOK, Secrets
<1>2. reqs' = [reqs EXCEPT ![r] = s]
  BY DEF Goto
<1> HIDE DEF s
<1> QED BY <1>1, <1>2, SlotType

LEMMA FoundType ==
  ASSUME SessionsOK, NEW r \in Requests, NEW pc \in Pcs, NEW u \in UserIds,
         reqs' = [reqs EXCEPT ![r].pc = pc, ![r].user = u],
         pc \notin CodePcs,
         pc \in TokenPcs => reqs[r].secret \in Tokens
  PROVE  SessionsOK'
<1>1. reqs' \in [Requests -> Session]
  BY PcType, UserType DEF SessionsOK
<1>2. /\ reqs'[r].pc = pc /\ reqs'[r].secret = reqs[r].secret
      /\ \A q \in Requests \ {r} : reqs'[q] = reqs[q]
  BY DEF SessionsOK, Session
<1> QED BY <1>1, <1>2 DEF SessionsOK, Secrets

LEMMA SetKeyType ==
  ASSUME RedisOK, NEW k, NEW v \in RedisValues \cup {Nil}, NEW ok, SetKey(k, v, ok),
         \A e \in Emails : k = OtpKey(e) => v \in Codes \cup {Nil},
         \A t \in Tokens : k = ResetKey(t) => v \in Emails \cup {Nil}
  PROVE  RedisOK'
<1>1. redis' \in [RedisKeys -> RedisValues \cup {Nil}] /\ connected' \in BOOLEAN
  BY DEF SetKey, RedisOK, RedisTypeOK
<1>2. \A j \in RedisKeys : redis'[j] = redis[j] \/ (j = k /\ redis'[j] = v)
  BY DEF SetKey, RedisOK, RedisTypeOK
<1>3. \A e \in Emails : OtpKey(e) \in RedisKeys
  BY AccountsAssumption
<1>4. \A t \in Tokens : ResetKey(t) \in RedisKeys
  BY AccountsAssumption
<1> QED BY <1>1, <1>2, <1>3, <1>4 DEF RedisOK, RedisTypeOK

LEMMA FaultType ==
  ASSUME CountsOK, UNCHANGED used, NEW kind, Fault(kind) \/ NoFault
  PROVE  CountsOK'
  BY AccountsAssumption DEF CountsOK, Fault, NoFault

LEMMA RedisFault ==
  ASSUME NEW ok, Redis(ok)
  PROVE  Fault("redis") \/ NoFault
  BY DEF Redis

LEMMA TypeInit == Init => TypeOK
<1> SUFFICES ASSUME Init PROVE TypeOK
  OBVIOUS
<1>1. SessionsOK
  BY IdleType DEF Init, SessionsOK
<1>2. RedisOK
  BY AccountsAssumption, RedisAssumption DEF Init, RedisInit, RedisOK, RedisTypeOK
<1>3. TableOK /\ ClientsOK /\ CountsOK
  BY AccountsAssumption
  DEF Init, TableOK, ClientsOK, CountsOK, NoUser, User
<1> QED BY <1>1, <1>2, <1>3, Parts

(***************************************************************************)
(* What a step leaves alone keeps its type.                                *)
(***************************************************************************)
LEMMA SameParts ==
  /\ SessionsOK /\ UNCHANGED reqs => SessionsOK'
  /\ RedisOK /\ UNCHANGED store => RedisOK'
  /\ TableOK /\ UNCHANGED table => TableOK'
  /\ ClientsOK /\ UNCHANGED <<mail, jwt>> => ClientsOK'
  /\ CountsOK /\ UNCHANGED <<faults, used>> => CountsOK'
  BY DEF SessionsOK, RedisOK, RedisTypeOK, TableOK, ClientsOK, CountsOK,
         store, table, mail, jwt

LEMMA StartType ==
  ASSUME TypeOK, NEW op, NEW r \in Requests, NEW s \in Session, Secrets(s), Start(op, r, s)
  PROVE  TypeOK'
<1>1. SessionsOK'
  BY SlotType, Parts DEF Start
<1> QED BY <1>1, Parts, SameParts DEF Start

LEMMA SelectAccountType ==
  ASSUME TypeOK, NEW r \in Requests, NEW here, NEW next \in Pcs, NEW accepted,
         next \notin CodePcs,
         next \in TokenPcs => here \in TokenPcs,
         SelectAccount(r, here, next, accepted)
  PROVE  TypeOK'
<1>1. SessionsOK'
  <2>1. CASE Done(r)
    BY <2>1, DoneType, Parts
  <2>2. ASSUME NEW u \in UserIds, reqs' = [reqs EXCEPT ![r].pc = next, ![r].user = u]
        PROVE  SessionsOK'
    BY <2>2, FoundType, Parts DEF SelectAccount, TypeOK
  <2> QED BY <2>1, <2>2 DEF SelectAccount, AccountsOf
<1> QED BY <1>1, Parts, SameParts DEF SelectAccount

LEMMA DeleteType ==
  ASSUME TypeOK, NEW r \in Requests, NEW here, NEW key, NEW next,
         Delete(r, here, key, next), SessionsOK'
  PROVE  TypeOK'
<1>1. PICK ok \in BOOLEAN : Redis(ok) /\ DeleteKey(key, ok)
  BY DEF Delete
<1>2. RedisOK'
  BY <1>1, SetKeyType, Parts DEF DeleteKey
<1>3. CountsOK'
  BY <1>1, RedisFault, FaultType, Parts DEF Delete
<1> QED BY <1>2, <1>3, Parts, SameParts DEF Delete

LEMMA CommitType ==
  ASSUME TypeOK, NEW r \in Requests, NEW here, NEW row \in User, NEW next,
         Commit(r, here, row, next), SessionsOK', used' \in [Tokens -> 0..2]
  PROVE  TypeOK'
<1>1. TableOK'
  BY Parts DEF Commit, TableOK
<1>2. CountsOK'
  BY Parts DEF Commit, CountsOK
<1> QED BY <1>1, <1>2, Parts, SameParts DEF Commit

LEMMA SetType ==
  ASSUME TypeOK, NEW r \in Requests, NEW next \in Pcs, NEW k, NEW v \in RedisValues \cup {Nil},
         \E ok \in BOOLEAN : Redis(ok) /\ SetKey(k, v, ok),
         \A e \in Emails : k = OtpKey(e) => v \in Codes \cup {Nil},
         \A t \in Tokens : k = ResetKey(t) => v \in Emails \cup {Nil},
         Goto(r, next),
         next \in CodePcs => reqs[r].secret \in Codes,
         next \in TokenPcs => reqs[r].secret \in Tokens,
         UNCHANGED <<table, mail, jwt, used>>
  PROVE  TypeOK'
<1>1. PICK ok \in BOOLEAN : Redis(ok) /\ SetKey(k, v, ok)
  OBVIOUS
<1>2. RedisOK'
  BY <1>1, SetKeyType, Parts
<1>3. CountsOK'
  BY <1>1, RedisFault, FaultType, Parts
<1>4. SessionsOK'
  BY GotoType, Parts
<1> QED BY <1>2, <1>3, <1>4, Parts, SameParts

(***************************************************************************)
(* register, resend_otp and the code they send.                            *)
(***************************************************************************)
LEMMA RegisterType ==
  ASSUME TypeOK, NEW r \in Requests,
         RegisterSelect(r) \/ RegisterInsert(r) \/ RegisterFails(r)
  PROVE  TypeOK'
<1>1. CASE RegisterSelect(r)
  <2>1. SessionsOK'
    BY <1>1, DoneType, GotoType, Parts DEF RegisterSelect, Pcs, CodePcs, TokenPcs
  <2> QED BY <1>1, <2>1, Parts, SameParts DEF RegisterSelect
<1>2. CASE RegisterInsert(r)
  <2>1. PICK u \in UserIds :
          /\ users' = [users EXCEPT ![u] = NewRow(r)]
          /\ lastUser' = IF u > lastUser THEN u ELSE lastUser
          /\ reqs' = [reqs EXCEPT ![r].pc = "o_get", ![r].user = u]
    BY <1>2 DEF RegisterInsert
  <2>2. SessionsOK'
    BY <2>1, FoundType, Parts DEF Pcs, CodePcs, TokenPcs
  <2>3. NewRow(r) \in User
    BY DEF NewRow, User, TypeOK, Session
  <2>4. TableOK'
    BY <2>1, <2>3, AccountsAssumption, Parts DEF TableOK, UserIds
  <2> QED BY <1>2, <2>2, <2>4, Parts, SameParts DEF RegisterInsert
<1>3. CASE RegisterFails(r)
  <2>1. SessionsOK' /\ CountsOK'
    BY <1>3, DoneType, FaultType, Parts DEF RegisterFails
  <2> QED BY <1>3, <2>1, Parts, SameParts DEF RegisterFails
<1> QED BY <1>1, <1>2, <1>3

LEMMA SendType ==
  ASSUME TypeOK, NEW r \in Requests,
         SendCheck(r) \/ SendCode(r) \/ SendCooldown(r) \/ SendMail(r)
  PROVE  TypeOK'
<1>1. CASE SendCheck(r)
  <2>1. PICK ok \in BOOLEAN :
          /\ Redis(ok)
          /\ \/ Done(r)
             \/ \E c \in Codes : reqs' = [reqs EXCEPT ![r].pc = "o_code", ![r].secret = c]
    BY <1>1 DEF SendCheck
  <2>2. ASSUME NEW c \in Codes, reqs' = [reqs EXCEPT ![r].pc = "o_code", ![r].secret = c]
        PROVE  SessionsOK'
    <3>0. SessionsOK /\ "o_code" \in Pcs
      BY Parts DEF Pcs
    <3>1. reqs' \in [Requests -> Session]
      BY <2>2, <3>0, PcType, SecretType DEF SessionsOK
    <3>2. /\ reqs'[r].pc = "o_code" /\ reqs'[r].secret = c
          /\ \A q \in Requests \ {r} : reqs'[q] = reqs[q]
      BY <2>2, <3>0 DEF SessionsOK, Session
    <3> QED BY <3>0, <3>1, <3>2 DEF SessionsOK, Secrets, TokenPcs
  <2>3. SessionsOK'
    BY <2>1, <2>2, DoneType, Parts
  <2>4. CountsOK'
    BY <1>1, <2>1, RedisFault, FaultType, Parts DEF SendCheck
  <2> QED BY <1>1, <2>3, <2>4, Parts, SameParts DEF SendCheck
<1>2. CASE SendCode(r)
  <2>1. reqs[r].secret \in Codes /\ "o_cooldown" \in Pcs /\ "o_cooldown" \notin TokenPcs
    BY <1>2 DEF SendCode, TypeOK, CodePcs, TokenPcs, Pcs
  <2>2. reqs[r].secret \in RedisValues
    BY <2>1, AccountsAssumption
  <2>3. \E ok \in BOOLEAN : Redis(ok) /\ SetKey(OtpKey(reqs[r].email), reqs[r].secret, ok)
    BY <1>2 DEF SendCode
  <2>4. Goto(r, "o_cooldown") /\ UNCHANGED <<table, mail, jwt, used>>
    BY <1>2 DEF SendCode
  <2> QED BY <2>1, <2>2, <2>3, <2>4, SetType, KeysDiffer
<1>3. CASE SendCooldown(r)
  <2>1. reqs[r].secret \in Codes /\ "o_mail" \in Pcs /\ "o_mail" \notin TokenPcs
    BY <1>3 DEF SendCooldown, TypeOK, CodePcs, TokenPcs, Pcs
  <2>2. Sent \in RedisValues
    BY AccountsAssumption
  <2>3. \E ok \in BOOLEAN : Redis(ok) /\ SetKey(CooldownKey(reqs[r].email), Sent, ok)
    BY <1>3 DEF SendCooldown
  <2>4. Goto(r, "o_mail") /\ UNCHANGED <<table, mail, jwt, used>>
    BY <1>3 DEF SendCooldown
  <2> QED BY <2>1, <2>2, <2>3, <2>4, SetType, KeysDiffer
<1>4. CASE SendMail(r)
  <2>1. SessionsOK' /\ CountsOK'
    BY <1>4, DoneType, FaultType, Parts DEF SendMail
  <2>2. reqs[r].secret \in Codes
    BY <1>4 DEF SendMail, TypeOK, CodePcs
  <2>3. ClientsOK'
    BY <1>4, <2>2 DEF SendMail, TypeOK, ClientsOK, jwt
  <2> QED BY <1>4, <2>1, <2>3, Parts, SameParts DEF SendMail
<1> QED BY <1>1, <1>2, <1>3, <1>4

(***************************************************************************)
(* verify_otp, update_password, forgot_password and reset_password.        *)
(***************************************************************************)
LEMMA AnswerType ==
  ASSUME TypeOK, NEW r \in Requests, NEW ok \in BOOLEAN
  PROVE  Answer(ResetKey(reqs[r].secret), ok) # Nil /\ reqs[r].secret \in Tokens =>
           Answer(ResetKey(reqs[r].secret), ok) \in Emails
  BY DEF Answer, TypeOK

LEMMA VerifyType ==
  ASSUME TypeOK, NEW r \in Requests, VerifyGet(r) \/ VerifyDelete(r) \/ VerifyCommit(r)
  PROVE  TypeOK'
<1>1. CASE VerifyGet(r)
  <2>1. PICK ok \in BOOLEAN : Redis(ok) /\ (Goto(r, "v_code") \/ Done(r))
    BY <1>1 DEF VerifyGet
  <2>2. SessionsOK' /\ CountsOK'
    BY <1>1, <2>1, DoneType, GotoType, RedisFault, FaultType, Parts
    DEF VerifyGet, Pcs, CodePcs, TokenPcs
  <2> QED BY <1>1, <2>2, Parts, SameParts DEF VerifyGet
<1>2. CASE VerifyDelete(r)
  <2>1. ASSUME NEW here, NEW key, NEW next \in {"v_cooldown", "v_commit"},
               Delete(r, here, key, Goto(r, next))
        PROVE  TypeOK'
    <3>1. Goto(r, next) /\ next \in Pcs
      BY <2>1 DEF Delete, Pcs
    <3>2. SessionsOK'
      BY <3>1, GotoType, Parts DEF CodePcs, TokenPcs
    <3> QED BY <2>1, <3>2, DeleteType
  <2> QED BY <1>2, <2>1 DEF VerifyDelete
<1>3. CASE VerifyCommit(r)
  <2>1. SessionsOK' /\ UNCHANGED used
    BY <1>3, DoneType, Parts DEF VerifyCommit, Commit
  <2>2. users' \in [UserIds -> User]
    BY <1>3 DEF VerifyCommit, Commit, TypeOK, User
  <2>3. TableOK' /\ CountsOK'
    BY <1>3, <2>1, <2>2 DEF VerifyCommit, Commit, TypeOK, TableOK, CountsOK
  <2> QED BY <1>3, <2>1, <2>3, Parts, SameParts DEF VerifyCommit, Commit
<1> QED BY <1>1, <1>2, <1>3

LEMMA PasswordType ==
  ASSUME TypeOK, NEW r \in Requests,
         UpdateCommit(r) \/ CommitFails(r) \/ ForgotSet(r) \/ ForgotMail(r)
           \/ ResetGet(r) \/ ResetCommit(r) \/ ResetDelete(r)
  PROVE  TypeOK'
<1>0. reqs[r].password \in Passwords \cup {Nil}
  BY DEF TypeOK, Session
<1>1. CASE UpdateCommit(r)
  <2>1. SessionsOK' /\ UNCHANGED used
    BY <1>1, DoneType, Parts DEF UpdateCommit, Commit
  <2>2. users' \in [UserIds -> User]
    BY <1>0, <1>1 DEF UpdateCommit, Commit, NewPassword, TypeOK, User
  <2>3. TableOK' /\ CountsOK'
    BY <1>1, <2>1, <2>2 DEF UpdateCommit, Commit, TypeOK, TableOK, CountsOK
  <2> QED BY <1>1, <2>1, <2>3, Parts, SameParts DEF UpdateCommit, Commit
<1>2. CASE CommitFails(r)
  <2>1. SessionsOK' /\ CountsOK'
    BY <1>2, DoneType, FaultType, Parts DEF CommitFails
  <2> QED BY <1>2, <2>1, Parts, SameParts DEF CommitFails
<1>3. CASE ForgotSet(r)
  <2>1. reqs[r].email \in Emails \cup {Nil} /\ reqs[r].email \in RedisValues \cup {Nil}
    BY AccountsAssumption DEF TypeOK, Session
  <2>2. reqs[r].secret \in Tokens /\ "f_mail" \in Pcs /\ "f_mail" \notin CodePcs
    BY <1>3 DEF ForgotSet, TypeOK, CodePcs, TokenPcs, Pcs
  <2>3. \E ok \in BOOLEAN : Redis(ok) /\ SetKey(ResetKey(reqs[r].secret), reqs[r].email, ok)
    BY <1>3 DEF ForgotSet
  <2>4. Goto(r, "f_mail") /\ UNCHANGED <<table, mail, jwt, used>>
    BY <1>3 DEF ForgotSet
  <2> QED BY <2>1, <2>2, <2>3, <2>4, SetType, KeysDiffer
<1>4. CASE ForgotMail(r)
  <2>1. SessionsOK' /\ CountsOK'
    BY <1>4, DoneType, FaultType, Parts DEF ForgotMail
  <2>2. reqs[r].secret \in Tokens
    BY <1>4 DEF ForgotMail, TypeOK, TokenPcs
  <2>3. ClientsOK'
    BY <1>4, <2>2 DEF ForgotMail, TypeOK, ClientsOK, jwt
  <2> QED BY <1>4, <2>1, <2>3, Parts, SameParts DEF ForgotMail
<1>5. CASE ResetGet(r)
  <2> DEFINE email(ok) == Answer(ResetKey(reqs[r].secret), ok)
  <2>1. PICK ok \in BOOLEAN :
          /\ Redis(ok)
          /\ IF email(ok) = Nil THEN Done(r)
             ELSE reqs' = [reqs EXCEPT ![r].pc = "x_select", ![r].email = email(ok)]
    BY <1>5 DEF ResetGet
  <2>2. ASSUME email(ok) # Nil
        PROVE  SessionsOK'
    <3>0. SessionsOK /\ "x_select" \in Pcs /\ reqs[r].secret \in Tokens
      BY <1>5, Parts DEF Pcs, ResetGet, SessionsOK, Secrets, TokenPcs
    <3>1. email(ok) \in Emails \cup {Nil}
      BY <2>2, <3>0, AnswerType
    <3> HIDE DEF email
    <3>2. reqs' \in [Requests -> Session]
      BY <2>1, <2>2, <3>0, <3>1, PcType, EmailType DEF SessionsOK
    <3>3. /\ reqs'[r].pc = "x_select" /\ reqs'[r].secret = reqs[r].secret
          /\ \A q \in Requests \ {r} : reqs'[q] = reqs[q]
      BY <2>1, <2>2, <3>0 DEF SessionsOK, Session
    <3>4. Secrets(reqs'[r])
      BY <3>0, <3>3 DEF Secrets, CodePcs
    <3> QED BY <3>0, <3>2, <3>3, <3>4 DEF SessionsOK
  <2>3. SessionsOK'
    BY <2>1, <2>2, DoneType, Parts
  <2>4. CountsOK'
    BY <1>5, <2>1, RedisFault, FaultType, Parts DEF ResetGet
  <2> QED BY <1>5, <2>3, <2>4, Parts, SameParts DEF ResetGet
<1>6. CASE ResetCommit(r)
  <2>1. SessionsOK'
    <3>1. Goto(r, "x_delete") /\ reqs[r].secret \in Tokens
      BY <1>6 DEF ResetCommit, Commit, TypeOK, TokenPcs
    <3> QED BY <3>1, GotoType, Parts DEF Pcs, CodePcs
  <2>2. users' \in [UserIds -> User]
    BY <1>0, <1>6 DEF ResetCommit, Commit, NewPassword, TypeOK, User
  <2>3. used' \in [Tokens -> 0..2]
    <3>1. reqs[r].secret \in Tokens
      BY <1>6 DEF ResetCommit, Commit, TypeOK, TokenPcs
    <3>2. used[reqs[r].secret] \in 0..2
      BY <3>1 DEF TypeOK
    <3> QED BY <1>6, <3>1, <3>2 DEF ResetCommit, Commit, TypeOK
  <2>4. TableOK' /\ CountsOK'
    BY <1>6, <2>2, <2>3 DEF ResetCommit, Commit, TypeOK, TableOK, CountsOK
  <2> QED BY <1>6, <2>1, <2>4, Parts, SameParts DEF ResetCommit, Commit
<1>7. CASE ResetDelete(r)
  <2>1. SessionsOK'
    BY <1>7, DoneType, Parts DEF ResetDelete, Delete
  <2> QED BY <1>7, <2>1, DeleteType DEF ResetDelete
<1> QED BY <1>1, <1>2, <1>3, <1>4, <1>5, <1>6, <1>7

LEMMA StepType ==
  ASSUME TypeOK, NEW r \in Requests, Step(r)
  PROVE  TypeOK'
<1>1. CASE ResendSelect(r)
  BY <1>1, SelectAccountType DEF ResendSelect, Pcs, CodePcs, TokenPcs
<1>2. CASE VerifySelect(r)
  BY <1>2, SelectAccountType DEF VerifySelect, Pcs, CodePcs, TokenPcs
<1>3. CASE ForgotSelect(r)
  BY <1>3, SelectAccountType DEF ForgotSelect, Pcs, CodePcs, TokenPcs
<1>4. CASE ResetSelect(r)
  BY <1>4, SelectAccountType DEF ResetSelect, Pcs, CodePcs, TokenPcs
<1> QED
  BY <1>1, <1>2, <1>3, <1>4, RegisterType, SendType, VerifyType, PasswordType DEF Step

LEMMA RequestType ==
  ASSUME TypeOK, NEW r \in Requests, Request(r)
  PROVE  TypeOK'
<1> USE IdleType DEF Secrets, CodePcs, TokenPcs
<1>1. ASSUME NEW e \in Emails, NEW n \in Names, NEW p \in Passwords, StartRegister(r, e, n, p)
      PROVE  TypeOK'
  <2> DEFINE s == [Idle EXCEPT !.pc = "r_select", !.email = e, !.name = n, !.password = p]
  <2>1. s \in Session /\ Secrets(s)
    BY DEF Session, Idle, Pcs
  <2> QED BY <1>1, <2>1, StartType DEF StartRegister
<1>2. ASSUME NEW e \in Emails, StartResend(r, e)
      PROVE  TypeOK'
  <2> DEFINE s == [Idle EXCEPT !.pc = "e_select", !.email = e]
  <2>1. s \in Session /\ Secrets(s)
    BY DEF Session, Idle, Pcs
  <2> QED BY <1>2, <2>1, StartType DEF StartResend
<1>3. ASSUME NEW e \in Emails, NEW c \in {inbox[e], WrongCode} \ {Nil}, StartVerify(r, e, c)
      PROVE  TypeOK'
  <2> DEFINE s == [Idle EXCEPT !.pc = "v_select", !.email = e, !.secret = c]
  <2>1. c \in Codes \cup {WrongCode}
    BY DEF TypeOK
  <2>2. s \in Session /\ Secrets(s)
    BY <2>1 DEF Session, Idle, Pcs
  <2> QED BY <1>3, <2>2, StartType DEF StartVerify
<1>4. ASSUME NEW e \in Emails, NEW t \in Tokens, StartForgot(r, e, t)
      PROVE  TypeOK'
  <2> DEFINE s == [Idle EXCEPT !.pc = "f_select", !.email = e, !.secret = t]
  <2>1. s \in Session /\ Secrets(s)
    BY DEF Session, Idle, Pcs
  <2> QED BY <1>4, <2>1, StartType DEF StartForgot
<1>5. ASSUME NEW e \in Emails, NEW p \in Passwords, StartReset(r, e, p)
      PROVE  TypeOK'
  <2> DEFINE s == [Idle EXCEPT !.pc = "x_get", !.email = e, !.password = p, !.secret = links[e]]
  <2>1. links[e] \in Tokens
    BY <1>5 DEF StartReset, TypeOK
  <2>2. s \in Session /\ Secrets(s)
    BY <2>1 DEF Session, Idle, Pcs
  <2> QED BY <1>5, <2>2, StartType DEF StartReset
<1> QED BY <1>1, <1>2, <1>3, <1>4, <1>5 DEF Request

LEMMA SignedType ==
  ASSUME TypeOK, NEW u \in UserIds, Signed(u)
  PROVE  TypeOK'
<1>1. CASE Refresh(u) \/ Logout(u) \/ AccessExpires(u)
  <2>1. UNCHANGED <<table, store, mail, reqs, faults, used>>
    BY <1>1 DEF Refresh, Logout, AccessExpires, Tokenless
  <2>2. cookies' \subseteq UserIds /\ access' \subseteq UserIds
    BY <1>1 DEF Refresh, Logout, AccessExpires, TypeOK
  <2>3. ClientsOK'
    BY <2>1, <2>2, Parts DEF ClientsOK, mail
  <2> QED BY <2>1, <2>3, Parts, SameParts
<1>2. ASSUME NEW r \in Requests, NEW p \in Passwords, NEW q \in Passwords, StartUpdate(r, u, p, q)
      PROVE  TypeOK'
  <2> DEFINE s == [Idle EXCEPT !.pc = "u_commit", !.email = users[u].email, !.user = u,
                               !.password = q]
  <2>1. users[u].email \in Emails \cup {Nil} /\ u \in 0..MaxUser
    BY AccountsAssumption DEF TypeOK, User, UserIds
  <2>2. s \in Session /\ Secrets(s)
    BY <2>1, IdleType DEF Session, Idle, Pcs, Secrets, CodePcs, TokenPcs
  <2> QED BY <1>2, <2>2, StartType DEF StartUpdate
<1>3. CASE RemoveUser(u)
  <2>1. TableOK'
    BY <1>3, Parts DEF RemoveUser, TableOK, NoUser, User
  <2> QED BY <1>3, <2>1, Parts, SameParts DEF RemoveUser
<1> QED BY <1>1, <1>2, <1>3 DEF Signed

LEMMA EnvironmentType ==
  ASSUME TypeOK, Environment
  PROVE  TypeOK'
<1>1. ASSUME NEW k, KeyExpires(k), CountsOK'
      PROVE  TypeOK'
  <2>1. RedisOK'
    <3>1. /\ redis' \in [RedisKeys -> RedisValues \cup {Nil}] /\ connected' \in BOOLEAN
          /\ \A j \in RedisKeys : redis'[j] \in {redis[j], Nil}
      BY <1>1, Parts DEF KeyExpires, Expire, RedisOK, RedisTypeOK
    <3>2. /\ \A e \in Emails : OtpKey(e) \in RedisKeys
          /\ \A t \in Tokens : ResetKey(t) \in RedisKeys
      BY AccountsAssumption
    <3> QED BY <3>1, <3>2, Parts DEF RedisOK, RedisTypeOK
  <2> QED BY <1>1, <2>1, Parts, SameParts DEF KeyExpires
<1>2. ASSUME NEW e \in Emails, CooldownExpires(e) \/ CodeExpires(e)
      PROVE  TypeOK'
  <2>1. CountsOK'
    BY <1>2, FaultType, Parts DEF CooldownExpires, CodeExpires, KeyExpires
  <2> QED BY <1>1, <1>2, <2>1 DEF CooldownExpires, CodeExpires
<1>3. ASSUME NEW t \in Tokens, LinkExpires(t)
      PROVE  TypeOK'
  <2>1. CountsOK'
    BY <1>3, FaultType, Parts DEF LinkExpires, KeyExpires
  <2> QED BY <1>1, <1>3, <2>1 DEF LinkExpires
<1>4. CASE Restart
  <2>1. SessionsOK'
    BY <1>4, IdleType DEF Restart, SessionsOK
  <2>2. CountsOK'
    BY <1>4, FaultType, Parts DEF Restart
  <2>3. RedisOK'
    BY <1>4, Parts DEF Restart, RedisOK, RedisTypeOK
  <2> QED BY <1>4, <2>1, <2>2, <2>3, Parts, SameParts DEF Restart
<1> QED BY <1>2, <1>3, <1>4 DEF Environment

LEMMA TypeStep == TypeOK /\ [Next]_avars => TypeOK'
<1> SUFFICES ASSUME TypeOK, [Next]_avars PROVE TypeOK'
  OBVIOUS
<1>1. ASSUME NEW e \in Emails, NEW p \in Passwords, Login(e, p)
      PROVE  TypeOK'
  <2>1. UNCHANGED <<table, store, mail, reqs, faults, used>>
    BY <1>1 DEF Login, Tokenless
  <2>2. cookies' \subseteq UserIds /\ access' \subseteq UserIds
    BY <1>1 DEF Login, SignIn, AccountsOf, TypeOK
  <2>3. ClientsOK'
    BY <2>1, <2>2, Parts DEF ClientsOK, mail
  <2> QED BY <2>1, <2>3, Parts, SameParts
<1>2. CASE UNCHANGED avars
  BY <1>2, Parts, SameParts DEF avars, store, table, mail, jwt
<1> QED BY <1>1, <1>2, StepType, RequestType, SignedType, EnvironmentType DEF Next

(***************************************************************************)
(* Every variable keeps its type.                                          *)
(***************************************************************************)
THEOREM TypeCorrect == Spec => []TypeOK
  BY TypeInit, TypeStep, PTL DEF Spec

--------------------------------------------------------------------------------
(* What a step ever does to the table of users *)

Inserts(r) ==
  /\ ~Taken(reqs[r].email, reqs[r].name)
  /\ \E u \in UserIds :
       /\ NextUser(u)
       /\ users' = [users EXCEPT ![u] = NewRow(r)]
       /\ lastUser' = IF u > lastUser THEN u ELSE lastUser

Verifies(r) ==
  /\ reqs[r].pc = "v_commit"
  /\ Exists(reqs[r].user)
  /\ users' = [users EXCEPT ![reqs[r].user] = [users[reqs[r].user] EXCEPT !.verified = TRUE]]
  /\ UNCHANGED lastUser

Changes(r) ==
  /\ Exists(reqs[r].user)
  /\ users' = [users EXCEPT ![reqs[r].user] = NewPassword(r)]
  /\ UNCHANGED lastUser

Removes ==
  /\ \E u \in UserIds : users' = [users EXCEPT ![u] = NoUser]
  /\ UNCHANGED lastUser

LEMMA TableStep ==
  ASSUME [Next]_avars
  PROVE  UNCHANGED table \/ Removes \/ \E r \in Requests : Inserts(r) \/ Verifies(r) \/ Changes(r)
<1>1. ASSUME NEW r \in Requests, Step(r)
      PROVE  UNCHANGED table \/ Inserts(r) \/ Verifies(r) \/ Changes(r)
  <2>1. CASE RegisterInsert(r)
    BY <2>1 DEF RegisterInsert, Inserts
  <2>2. CASE VerifyCommit(r)
    BY <2>2 DEF VerifyCommit, Commit, Verifies
  <2>3. CASE UpdateCommit(r) \/ ResetCommit(r)
    BY <2>3 DEF UpdateCommit, ResetCommit, Commit, Changes
  <2>4. CASE \/ RegisterSelect(r) \/ RegisterFails(r)
             \/ SendCheck(r) \/ SendCode(r) \/ SendCooldown(r) \/ SendMail(r)
             \/ ResendSelect(r) \/ VerifySelect(r) \/ VerifyGet(r)
    BY <2>4
    DEF RegisterSelect, RegisterFails, SendCheck, SendCode, SendCooldown, SendMail,
        ResendSelect, VerifySelect, SelectAccount, VerifyGet
  <2>5. CASE \/ VerifyDelete(r) \/ CommitFails(r) \/ ForgotSelect(r) \/ ForgotSet(r)
             \/ ForgotMail(r) \/ ResetGet(r) \/ ResetSelect(r) \/ ResetDelete(r)
    BY <2>5
    DEF VerifyDelete, CommitFails, ForgotSelect, ForgotSet, ForgotMail, ResetGet,
        ResetSelect, SelectAccount, ResetDelete, Delete
  <2> QED BY <1>1, <2>1, <2>2, <2>3, <2>4, <2>5 DEF Step
<1>2. ASSUME NEW r \in Requests, Request(r)
      PROVE  UNCHANGED table
  BY <1>2
  DEF Request, StartRegister, StartResend, StartVerify, StartForgot, StartReset, Start
<1>3. ASSUME NEW e \in Emails, NEW p \in Passwords, Login(e, p)
      PROVE  UNCHANGED table
  BY <1>3 DEF Login, Tokenless
<1>4. ASSUME NEW u \in UserIds, Signed(u)
      PROVE  UNCHANGED table \/ Removes
  BY <1>4
  DEF Signed, Refresh, Logout, AccessExpires, Tokenless, StartUpdate, Start, RemoveUser, Removes
<1>5. ASSUME Environment
      PROVE  UNCHANGED table
  BY <1>5
  DEF Environment, CooldownExpires, CodeExpires, LinkExpires, KeyExpires, Restart
<1>6. CASE UNCHANGED avars
  BY <1>6 DEF avars, table
<1> QED BY <1>1, <1>2, <1>3, <1>4, <1>5, <1>6 DEF Next

(***************************************************************************)
(* An UPDATE keeps the address and the name, and makes no account.         *)
(***************************************************************************)
LEMMA UpdateKeeps ==
  ASSUME TypeOK, NEW r \in Requests, Verifies(r) \/ Changes(r)
  PROVE  /\ \A u \in UserIds :
              /\ users'[u].email = users[u].email
              /\ users'[u].name = users[u].name
              /\ users[u].verified => users'[u].verified
              /\ users'[u].verified => \/ users[u].verified
                                       \/ Verifies(r) /\ u = reqs[r].user
              /\ Exists(u)' => Exists(u)
         /\ UNCHANGED lastUser
<1>1. users \in [UserIds -> User]
  BY DEF TypeOK
<1>2. ASSUME NEW row \in {[users[reqs[r].user] EXCEPT !.verified = TRUE], NewPassword(r)},
             users' = [users EXCEPT ![reqs[r].user] = row], NEW u \in UserIds
      PROVE  /\ users'[u].email = users[u].email
             /\ users'[u].name = users[u].name
             /\ users[u].verified => users'[u].verified
             /\ row = NewPassword(r) => users'[u].verified = users[u].verified
             /\ u # reqs[r].user => users'[u] = users[u]
  BY <1>1, <1>2 DEF User, NewPassword
<1>3. Exists(reqs[r].user) /\ \A u \in UserIds : u # reqs[r].user => users'[u] = users[u]
  BY <1>1 DEF Verifies, Changes
<1>4. \A u \in UserIds : Exists(u)' => Exists(u)
  BY <1>3 DEF Exists
<1>5. CASE Verifies(r)
  BY <1>2, <1>3, <1>4, <1>5 DEF Verifies
<1>6. CASE Changes(r)
  BY <1>2, <1>3, <1>4, <1>6 DEF Changes
<1> QED BY <1>5, <1>6

LEMMA InsertAdds ==
  ASSUME TypeOK, NEW r \in Requests, NEW u \in UserIds, users' = [users EXCEPT ![u] = NewRow(r)]
  PROVE  /\ users'[u] = NewRow(r) /\ ~users'[u].verified
         /\ \A v \in UserIds \ {u} : users'[v] = users[v]
  BY DEF TypeOK, NewRow

(***************************************************************************)
(* No address and no name belongs to two accounts, however many            *)
(* registrations overlap.                                                  *)
(***************************************************************************)
THEOREM OneAccount == Spec => []OneAccountEach
<1>1. Init => OneAccountEach
  BY DEF Init, OneAccountEach, Exists
<1>2. TypeOK /\ OneAccountEach /\ [Next]_avars => OneAccountEach'
  <2> SUFFICES ASSUME TypeOK, OneAccountEach, [Next]_avars
               PROVE  OneAccountEach'
    OBVIOUS
  <2>1. CASE UNCHANGED table
    BY <2>1 DEF table, OneAccountEach, Exists
  <2>2. CASE Removes
    BY <2>2 DEF Removes, OneAccountEach, Exists, TypeOK
  <2>3. ASSUME NEW r \in Requests, Inserts(r)
        PROVE  OneAccountEach'
    <3>1. PICK u \in UserIds : users' = [users EXCEPT ![u] = NewRow(r)]
      BY <2>3 DEF Inserts
    <3>2. users'[u] = NewRow(r) /\ \A v \in UserIds \ {u} : users'[v] = users[v]
      BY <3>1, InsertAdds
    <3>3. \A v \in UserIds : Exists(v) =>
            users[v].email # NewRow(r).email /\ users[v].name # NewRow(r).name
      BY <2>3 DEF Inserts, Taken, NewRow
    <3> QED BY <3>2, <3>3 DEF OneAccountEach, Exists
  <2>4. ASSUME NEW r \in Requests, Verifies(r) \/ Changes(r)
        PROVE  OneAccountEach'
    BY <2>4, UpdateKeeps DEF OneAccountEach
  <2> QED BY <2>1, <2>2, <2>3, <2>4, TableStep
<1> QED BY <1>1, <1>2, TypeCorrect, PTL DEF Spec

(***************************************************************************)
(* Where ids are not handed out again, an account that is gone does not    *)
(* come back through a request that had loaded it.                         *)
(***************************************************************************)
THEOREM GoneStaysGone ==
  ASSUME ~ReuseIds
  PROVE  Spec => NoAccountComesBack
<1> DEFINE New == \A u \in UserIds : ~Exists(u) /\ Exists(u)' => u > lastUser
<1>1. TypeOK /\ [Next]_avars => [New]_avars
  <2> SUFFICES ASSUME TypeOK, [Next]_avars
               PROVE  New
    OBVIOUS
  <2>1. CASE UNCHANGED table
    BY <2>1 DEF table, Exists
  <2>2. CASE Removes
    BY <2>2 DEF Removes, Exists, TypeOK
  <2>3. ASSUME NEW r \in Requests, Inserts(r)
        PROVE  New
    <3>1. PICK u \in UserIds : NextUser(u) /\ users' = [users EXCEPT ![u] = NewRow(r)]
      BY <2>3 DEF Inserts
    <3>2. \A v \in UserIds \ {u} : users'[v] = users[v]
      BY <3>1, InsertAdds
    <3>3. u > lastUser
      BY <3>1, AccountsAssumption DEF NextUser, TypeOK
    <3> QED BY <3>2, <3>3 DEF Exists
  <2>4. ASSUME NEW r \in Requests, Verifies(r) \/ Changes(r)
        PROVE  New
    BY <2>4, UpdateKeeps
  <2> QED BY <2>1, <2>2, <2>3, <2>4, TableStep
<1> QED BY <1>1, TypeCorrect, PTL DEF Spec, NoAccountComesBack
--------------------------------------------------------------------------------
(* Signed-in clients *)

(***************************************************************************)
(* A token is handed out for a verified account, or for one that has       *)
(* another token.                                                          *)
(***************************************************************************)
LEMMA TokenStep ==
  ASSUME [Next]_avars
  PROVE  \/ cookies' \cup access' \subseteq cookies \cup access
         \/ /\ UNCHANGED table
            /\ \E u \in UserIds :
                 /\ Exists(u) /\ users[u].verified
                 /\ cookies' \cup access' \subseteq cookies \cup access \cup {u}
<1>1. ASSUME NEW r \in Requests, Step(r)
      PROVE  UNCHANGED jwt
  <2>1. CASE \/ RegisterSelect(r) \/ RegisterInsert(r) \/ RegisterFails(r)
             \/ SendCheck(r) \/ SendCode(r) \/ SendCooldown(r) \/ SendMail(r)
             \/ ResendSelect(r) \/ VerifySelect(r) \/ VerifyGet(r)
    BY <2>1
    DEF RegisterSelect, RegisterInsert, RegisterFails, SendCheck, SendCode, SendCooldown,
        SendMail, ResendSelect, VerifySelect, SelectAccount, VerifyGet
  <2>2. CASE \/ VerifyDelete(r) \/ CommitFails(r) \/ ForgotSelect(r) \/ ForgotSet(r)
             \/ ForgotMail(r) \/ ResetGet(r) \/ ResetSelect(r) \/ ResetDelete(r)
    BY <2>2
    DEF VerifyDelete, CommitFails, ForgotSelect, ForgotSet, ForgotMail, ResetGet,
        ResetSelect, SelectAccount, ResetDelete, Delete
  <2>3. CASE VerifyCommit(r) \/ UpdateCommit(r) \/ ResetCommit(r)
    BY <2>3 DEF VerifyCommit, UpdateCommit, ResetCommit, Commit
  <2> QED BY <1>1, <2>1, <2>2, <2>3 DEF Step
<1>2. ASSUME NEW r \in Requests, Request(r)
      PROVE  UNCHANGED jwt
  BY <1>2
  DEF Request, StartRegister, StartResend, StartVerify, StartForgot, StartReset, Start
<1>3. ASSUME NEW e \in Emails, NEW p \in Passwords, Login(e, p)
      PROVE  /\ UNCHANGED table
             /\ \E u \in UserIds :
                  /\ Exists(u) /\ users[u].verified
                  /\ cookies' \cup access' \subseteq cookies \cup access \cup {u}
  BY <1>3 DEF Login, SignIn, AccountsOf, Tokenless
<1>4. ASSUME NEW u \in UserIds, Signed(u)
      PROVE  cookies' \cup access' \subseteq cookies \cup access
  <2>1. ASSUME NEW r \in Requests, NEW p \in Passwords, NEW q \in Passwords, StartUpdate(r, u, p, q)
        PROVE  UNCHANGED jwt
    BY <2>1 DEF StartUpdate, Start
  <2>2. CASE RemoveUser(u)
    BY <2>2 DEF RemoveUser, jwt
  <2>3. CASE Refresh(u) \/ Logout(u) \/ AccessExpires(u)
    BY <2>3 DEF Refresh, Logout, AccessExpires
  <2> QED BY <1>4, <2>1, <2>2, <2>3 DEF Signed, jwt
<1>5. ASSUME Environment
      PROVE  UNCHANGED jwt
  BY <1>5
  DEF Environment, CooldownExpires, CodeExpires, LinkExpires, KeyExpires, Restart
<1>6. CASE UNCHANGED avars
  BY <1>6 DEF avars
<1> QED BY <1>1, <1>2, <1>3, <1>4, <1>5, <1>6 DEF Next, jwt

(***************************************************************************)
(* No account has an id beyond the last one handed out, so none gets the   *)
(* id of an account that was there before.                                 *)
(***************************************************************************)
IdsCounted == \A u \in UserIds : Exists(u) => u <= lastUser

LEMMA IdsCountedStep ==
  ASSUME ~ReuseIds, TypeOK, IdsCounted, [Next]_avars
  PROVE  /\ IdsCounted'
         /\ lastUser' >= lastUser
         /\ \A r \in Requests : Inserts(r) =>
              \E u \in UserIds : /\ u > lastUser /\ ~Exists(u)
                                /\ users'[u] = NewRow(r) /\ ~users'[u].verified
                                /\ \A v \in UserIds \ {u} : users'[v] = users[v]
<1>0. lastUser \in Nat /\ \A u \in UserIds : u \in Nat
  BY AccountsAssumption DEF TypeOK, UserIds
<1>1. ASSUME NEW r \in Requests, Inserts(r)
      PROVE  \E u \in UserIds : /\ u > lastUser /\ ~Exists(u) /\ lastUser' = u
                               /\ users'[u] = NewRow(r) /\ ~users'[u].verified
                               /\ \A v \in UserIds \ {u} : users'[v] = users[v]
  <2>1. PICK u \in UserIds : /\ NextUser(u)
                            /\ users' = [users EXCEPT ![u] = NewRow(r)]
                            /\ lastUser' = IF u > lastUser THEN u ELSE lastUser
    BY <1>1 DEF Inserts
  <2>2. u > lastUser /\ lastUser' = u
    BY <1>0, <2>1 DEF NextUser
  <2>3. ~Exists(u)
    BY <1>0, <2>2 DEF IdsCounted
  <2> QED BY <2>1, <2>2, <2>3, InsertAdds
<1>2. CASE UNCHANGED table
  BY <1>0, <1>1, <1>2 DEF table, IdsCounted, Exists
<1>3. CASE Removes
  BY <1>0, <1>1, <1>3 DEF Removes, IdsCounted, Exists, TypeOK
<1>4. ASSUME NEW r \in Requests, Inserts(r)
      PROVE  IdsCounted' /\ lastUser' >= lastUser
  BY <1>0, <1>1, <1>4 DEF IdsCounted, Exists
<1>5. ASSUME NEW r \in Requests, Verifies(r) \/ Changes(r)
      PROVE  IdsCounted' /\ lastUser' >= lastUser
  BY <1>0, <1>5, UpdateKeeps DEF IdsCounted
<1> QED BY <1>1, <1>2, <1>3, <1>4, <1>5, TableStep

TokensVerified ==
  \A u \in cookies \cup access : u <= lastUser /\ (Exists(u) => users[u].verified)

(***************************************************************************)
(* Where ids are not handed out again, a token that still works names a    *)
(* verified account.                                                       *)
(***************************************************************************)
THEOREM SignedIn ==
  ASSUME ~ReuseIds
  PROVE  Spec => []SignedInVerified
<1>1. Init => IdsCounted /\ TokensVerified
  BY DEF Init, IdsCounted, TokensVerified, Exists
<1>2. TypeOK /\ IdsCounted /\ TokensVerified /\ [Next]_avars => IdsCounted' /\ TokensVerified'
  <2> SUFFICES ASSUME TypeOK, IdsCounted, TokensVerified, [Next]_avars
               PROVE  TokensVerified'
    BY IdsCountedStep
  <2>0. /\ lastUser \in Nat /\ lastUser' \in Nat /\ lastUser' >= lastUser
        /\ \A u \in UserIds : u \in Nat
        /\ cookies \cup access \subseteq UserIds
    BY TypeStep, IdsCountedStep, AccountsAssumption DEF TypeOK, UserIds
  <2>1. \A u \in cookies \cup access : u <= lastUser' /\ (Exists(u)' => users'[u].verified)
    <3>1. CASE UNCHANGED table
      BY <2>0, <3>1 DEF table, TokensVerified, Exists
    <3>2. CASE Removes
      BY <2>0, <3>2 DEF Removes, TokensVerified, Exists, TypeOK
    <3>3. ASSUME NEW r \in Requests, Inserts(r)
          PROVE  \A u \in cookies \cup access : u <= lastUser' /\ (Exists(u)' => users'[u].verified)
      <4>1. \E u \in UserIds : u > lastUser /\ \A v \in UserIds \ {u} : users'[v] = users[v]
        BY <3>3, IdsCountedStep
      <4> QED BY <2>0, <4>1 DEF TokensVerified, Exists
    <3>4. ASSUME NEW r \in Requests, Verifies(r) \/ Changes(r)
          PROVE  \A u \in cookies \cup access : u <= lastUser' /\ (Exists(u)' => users'[u].verified)
      BY <2>0, <3>4, UpdateKeeps DEF TokensVerified
    <3> QED BY <3>1, <3>2, <3>3, <3>4, TableStep
  <2>2. CASE cookies' \cup access' \subseteq cookies \cup access
    BY <2>1, <2>2 DEF TokensVerified
  <2>3. ASSUME UNCHANGED table, NEW u \in UserIds, Exists(u), users[u].verified,
               cookies' \cup access' \subseteq cookies \cup access \cup {u}
        PROVE  TokensVerified'
    <3>1. u <= lastUser' /\ users'[u].verified
      BY <2>3, <2>0 DEF IdsCounted, table
    <3> QED BY <2>1, <2>3, <3>1 DEF TokensVerified
  <2> QED BY <2>2, <2>3, TokenStep
<1>3. TokensVerified => SignedInVerified
  BY DEF TokensVerified, SignedInVerified
<1> QED BY <1>1, <1>2, <1>3, TypeCorrect, PTL DEF Spec

--------------------------------------------------------------------------------
(* Verification *)

VerifyPcs  == {"v_select", "v_get", "v_code", "v_cooldown", "v_commit"}
LoadedPcs  == VerifyPcs \ {"v_select"}
MatchedPcs == LoadedPcs \ {"v_get"}

(***************************************************************************)
(* A verification comes in with a code that was mailed, or a wrong one,    *)
(* and goes on when it has found its account and its code.                 *)
(***************************************************************************)
Begins(q) ==
  /\ reqs'[q].pc = "v_select"
  /\ reqs'[q].email \in Emails
  /\ reqs'[q].secret # Nil
  /\ reqs'[q].secret \in {inbox[reqs'[q].email], WrongCode}
  /\ UNCHANGED <<table, inbox>>

GoesOn(q) ==
  /\ reqs'[q].email = reqs[q].email
  /\ reqs'[q].secret = reqs[q].secret
  /\ \/ /\ reqs[q].pc = "v_select" /\ reqs'[q].pc = "v_get"
        /\ reqs'[q].user \in AccountsOf(reqs[q].email)
     \/ /\ reqs[q].pc = "v_get" /\ reqs'[q].pc = "v_code"
        /\ reqs'[q].user = reqs[q].user
        /\ reqs[q].email \in Emails => reqs[q].secret \in Codes \cup {Nil}
     \/ /\ reqs[q].pc \in MatchedPcs /\ reqs'[q].pc \in MatchedPcs
        /\ reqs'[q].user = reqs[q].user
  /\ UNCHANGED <<table, inbox>>

LEMMA DoneStep ==
  ASSUME TypeOK, NEW r \in Requests, Done(r)
  PROVE  reqs'[r].pc \notin VerifyPcs /\ \A q \in Requests \ {r} : reqs'[q] = reqs[q]
  BY DEF TypeOK, Done, Idle, VerifyPcs

LEMMA GotoStep ==
  ASSUME TypeOK, NEW r \in Requests, NEW pc, Goto(r, pc)
  PROVE  /\ reqs'[r].pc = pc /\ reqs'[r].email = reqs[r].email
         /\ reqs'[r].secret = reqs[r].secret /\ reqs'[r].user = reqs[r].user
         /\ \A q \in Requests \ {r} : reqs'[q] = reqs[q]
  BY DEF TypeOK, Goto, Session

LEMMA FoundStep ==
  ASSUME TypeOK, NEW r \in Requests, NEW here, NEW pc, NEW accepted,
         SelectAccount(r, here, pc, accepted)
  PROVE  /\ \A q \in Requests \ {r} : reqs'[q] = reqs[q]
         /\ \/ reqs'[r].pc \notin VerifyPcs
            \/ /\ reqs[r].pc = here /\ reqs'[r].pc = pc
               /\ reqs'[r].email = reqs[r].email /\ reqs'[r].secret = reqs[r].secret
               /\ reqs'[r].user \in AccountsOf(reqs[r].email)
               /\ UNCHANGED <<table, inbox>>
<1>1. CASE Done(r)
  BY <1>1, DoneStep
<1>2. ASSUME NEW u \in AccountsOf(reqs[r].email), reqs' = [reqs EXCEPT ![r].pc = pc, ![r].user = u]
      PROVE  /\ \A q \in Requests \ {r} : reqs'[q] = reqs[q]
             /\ reqs'[r].pc = pc
             /\ reqs'[r].email = reqs[r].email /\ reqs'[r].secret = reqs[r].secret
             /\ reqs'[r].user = u
  BY <1>2 DEF TypeOK, Session
<1> QED BY <1>1, <1>2 DEF SelectAccount, mail

LEMMA SessionStep ==
  ASSUME TypeOK, [Next]_avars, NEW q \in Requests
  PROVE  reqs'[q] = reqs[q] \/ reqs'[q].pc \notin VerifyPcs \/ Begins(q) \/ GoesOn(q)
<1> DEFINE Goal == reqs'[q] = reqs[q] \/ reqs'[q].pc \notin VerifyPcs \/ Begins(q) \/ GoesOn(q)
<1>1. ASSUME NEW r \in Requests, Step(r)
      PROVE  Goal
  <2>1. CASE \/ Done(r) \/ Goto(r, "r_insert") \/ Goto(r, "o_cooldown") \/ Goto(r, "o_mail")
             \/ Goto(r, "f_mail") \/ Goto(r, "x_delete")
    BY <2>1, DoneStep, GotoStep DEF VerifyPcs
  <2>2. CASE RegisterSelect(r) \/ RegisterFails(r)
    BY <2>1, <2>2 DEF RegisterSelect, RegisterFails
  <2>3. CASE RegisterInsert(r)
    BY <2>3 DEF RegisterInsert, TypeOK, Session, VerifyPcs
  <2>4. CASE SendCheck(r)
    <3>1. ASSUME NEW c \in Codes, reqs' = [reqs EXCEPT ![r].pc = "o_code", ![r].secret = c]
          PROVE  Goal
      BY <3>1 DEF TypeOK, Session, VerifyPcs
    <3> QED BY <2>1, <2>4, <3>1 DEF SendCheck
  <2>5. CASE SendCode(r) \/ SendCooldown(r) \/ SendMail(r)
    BY <2>1, <2>5 DEF SendCode, SendCooldown, SendMail
  <2>6. CASE ResendSelect(r) \/ ForgotSelect(r) \/ ResetSelect(r)
    BY <2>6, FoundStep DEF ResendSelect, ForgotSelect, ResetSelect, VerifyPcs
  <2>7. CASE VerifySelect(r)
    BY <2>7, FoundStep DEF VerifySelect, GoesOn
  <2>8. CASE VerifyGet(r)
    <3>1. CASE Goto(r, "v_code") /\ \E ok \in BOOLEAN : Answer(OtpKey(reqs[r].email), ok) = reqs[r].secret
      <4>1. reqs[r].email \in Emails => reqs[r].secret \in Codes \cup {Nil}
        BY <3>1 DEF Answer, TypeOK
      <4>2. reqs[r].pc = "v_get" /\ UNCHANGED <<table, inbox>>
        BY <2>8 DEF VerifyGet, mail
      <4> QED BY <3>1, <4>1, <4>2, GotoStep DEF GoesOn
    <3> QED BY <2>1, <2>8, <3>1 DEF VerifyGet
  <2>9. CASE VerifyDelete(r)
    <3>1. /\ reqs[r].pc \in MatchedPcs
          /\ Goto(r, "v_cooldown") \/ Goto(r, "v_commit")
          /\ UNCHANGED <<table, inbox>>
      BY <2>9 DEF VerifyDelete, Delete, MatchedPcs, LoadedPcs, VerifyPcs, mail
    <3> QED BY <3>1, GotoStep DEF GoesOn, MatchedPcs, LoadedPcs, VerifyPcs
  <2>10. CASE VerifyCommit(r) \/ UpdateCommit(r) \/ CommitFails(r) \/ ResetCommit(r)
    BY <2>1, <2>10 DEF VerifyCommit, UpdateCommit, CommitFails, ResetCommit, Commit
  <2>11. CASE ForgotSet(r) \/ ForgotMail(r) \/ ResetDelete(r)
    BY <2>1, <2>11 DEF ForgotSet, ForgotMail, ResetDelete, Delete
  <2>12. CASE ResetGet(r)
    <3>1. ASSUME NEW e, reqs' = [reqs EXCEPT ![r].pc = "x_select", ![r].email = e]
          PROVE  Goal
      BY <3>1 DEF TypeOK, Session, VerifyPcs
    <3> QED BY <2>1, <2>12, <3>1 DEF ResetGet
  <2> QED BY <1>1, <2>2, <2>3, <2>4, <2>5, <2>6, <2>7, <2>8, <2>9, <2>10, <2>11, <2>12 DEF Step
<1>2. ASSUME NEW r \in Requests, NEW op, NEW s, s.pc \notin VerifyPcs, Start(op, r, s)
      PROVE  Goal
  BY <1>2 DEF Start, TypeOK
<1>3. ASSUME NEW r \in Requests, Request(r)
      PROVE  Goal
  <2> USE DEF Idle, VerifyPcs
  <2>1. ASSUME NEW e \in Emails, NEW n \in Names, NEW p \in Passwords, StartRegister(r, e, n, p)
        PROVE  Goal
    BY <1>2, <2>1 DEF StartRegister
  <2>2. ASSUME NEW e \in Emails, StartResend(r, e)
        PROVE  Goal
    BY <1>2, <2>2 DEF StartResend
  <2>3. ASSUME NEW e \in Emails, NEW c \in {inbox[e], WrongCode} \ {Nil}, StartVerify(r, e, c)
        PROVE  Goal
    <3>1. /\ \A p \in Requests \ {r} : reqs'[p] = reqs[p]
          /\ reqs'[r].pc = "v_select" /\ reqs'[r].email = e /\ reqs'[r].secret = c
          /\ UNCHANGED <<table, inbox>>
      BY <2>3 DEF StartVerify, Start, TypeOK, mail
    <3> QED BY <3>1 DEF Begins
  <2>4. ASSUME NEW e \in Emails, NEW t \in Tokens, StartForgot(r, e, t)
        PROVE  Goal
    BY <1>2, <2>4 DEF StartForgot
  <2>5. ASSUME NEW e \in Emails, NEW p \in Passwords, StartReset(r, e, p)
        PROVE  Goal
    BY <1>2, <2>5 DEF StartReset
  <2> QED BY <1>3, <2>1, <2>2, <2>3, <2>4, <2>5 DEF Request
<1>4. ASSUME NEW u \in UserIds, Signed(u)
      PROVE  Goal
  <2>1. ASSUME NEW r \in Requests, NEW p \in Passwords, NEW n \in Passwords, StartUpdate(r, u, p, n)
        PROVE  Goal
    BY <1>2, <2>1 DEF StartUpdate, Idle, VerifyPcs
  <2> QED BY <1>4, <2>1 DEF Signed, Refresh, Logout, AccessExpires, Tokenless, RemoveUser
<1>5. ASSUME NEW e \in Emails, NEW p \in Passwords, Login(e, p)
      PROVE  Goal
  BY <1>5 DEF Login, Tokenless
<1>6. CASE Environment
  BY <1>6
  DEF Environment, CooldownExpires, CodeExpires, LinkExpires, KeyExpires, Restart, Idle, VerifyPcs
<1>7. CASE UNCHANGED avars
  BY <1>7 DEF avars
<1> QED BY <1>1, <1>3, <1>4, <1>5, <1>6, <1>7 DEF Next

(***************************************************************************)
(* An address that has had a code keeps the last one.                      *)
(***************************************************************************)
LEMMA MailStep ==
  ASSUME TypeOK, [Next]_avars, NEW e \in Emails, inbox[e] # Nil
  PROVE  inbox'[e] # Nil
<1>1. ASSUME NEW r \in Requests, Step(r)
      PROVE  inbox'[e] # Nil
  <2>1. CASE SendMail(r)
    <3>1. reqs[r].secret \in Codes
      BY <2>1 DEF SendMail, TypeOK, CodePcs
    <3> QED BY <2>1, <3>1, AccountsAssumption DEF SendMail, TypeOK
  <2>2. CASE \/ RegisterSelect(r) \/ RegisterInsert(r) \/ RegisterFails(r)
             \/ SendCheck(r) \/ SendCode(r) \/ SendCooldown(r)
             \/ ResendSelect(r) \/ VerifySelect(r) \/ VerifyGet(r)
    BY <2>2
    DEF RegisterSelect, RegisterInsert, RegisterFails, SendCheck, SendCode, SendCooldown,
        ResendSelect, VerifySelect, SelectAccount, VerifyGet, mail
  <2>3. CASE \/ VerifyDelete(r) \/ CommitFails(r) \/ ForgotSelect(r) \/ ForgotSet(r)
             \/ ForgotMail(r) \/ ResetGet(r) \/ ResetSelect(r) \/ ResetDelete(r)
    BY <2>3
    DEF VerifyDelete, CommitFails, ForgotSelect, ForgotSet, ForgotMail, ResetGet,
        ResetSelect, SelectAccount, ResetDelete, Delete, mail
  <2>4. CASE VerifyCommit(r) \/ UpdateCommit(r) \/ ResetCommit(r)
    BY <2>4 DEF VerifyCommit, UpdateCommit, ResetCommit, Commit, mail
  <2> QED BY <1>1, <2>1, <2>2, <2>3, <2>4 DEF Step
<1>2. ASSUME NEW r \in Requests, Request(r)
      PROVE  UNCHANGED mail
  BY <1>2
  DEF Request, StartRegister, StartResend, StartVerify, StartForgot, StartReset, Start
<1>3. ASSUME NEW x \in Emails, NEW p \in Passwords, Login(x, p)
      PROVE  UNCHANGED mail
  BY <1>3 DEF Login, Tokenless
<1>4. ASSUME NEW u \in UserIds, Signed(u)
      PROVE  UNCHANGED mail
  BY <1>4
  DEF Signed, Refresh, Logout, AccessExpires, Tokenless, StartUpdate, Start, RemoveUser
<1>5. ASSUME Environment
      PROVE  UNCHANGED mail
  BY <1>5
  DEF Environment, CooldownExpires, CodeExpires, LinkExpires, KeyExpires, Restart
<1>6. CASE UNCHANGED avars
  BY <1>6 DEF avars
<1> QED BY <1>1, <1>2, <1>3, <1>4, <1>5, <1>6 DEF Next, mail

Presented(s) ==
  s.pc \in VerifyPcs =>
    /\ s.email \in Emails
    /\ s.secret # Nil
    /\ s.secret # WrongCode => inbox[s.email] # Nil
    /\ s.pc \in MatchedPcs => s.secret # WrongCode

Loaded(s) ==
  s.pc \in LoadedPcs =>
    /\ s.user \in UserIds
    /\ s.user <= lastUser
    /\ Exists(s.user) => users[s.user].email = s.email

EveryMailed ==
  \A u \in UserIds :
    users[u].verified => users[u].email \in Emails /\ inbox[users[u].email] # Nil

VerifyInv ==
  /\ IdsCounted
  /\ \A r \in Requests : Presented(reqs[r]) /\ Loaded(reqs[r])
  /\ EveryMailed

LEMMA PresentedStep ==
  ASSUME TypeOK, VerifyInv, [Next]_avars, NEW q \in Requests
  PROVE  Presented(reqs[q])'
<1>0. Presented(reqs[q])
  BY DEF VerifyInv
<1>1. CASE reqs'[q] = reqs[q]
  BY <1>0, <1>1, MailStep DEF Presented
<1>2. CASE reqs'[q].pc \notin VerifyPcs
  BY <1>2 DEF Presented
<1>3. CASE Begins(q)
  BY <1>3 DEF Begins, Presented, MatchedPcs, LoadedPcs, VerifyPcs
<1>4. CASE GoesOn(q)
  BY <1>0, <1>4, AccountsAssumption DEF GoesOn, Presented, MatchedPcs, LoadedPcs, VerifyPcs
<1> QED BY <1>1, <1>2, <1>3, <1>4, SessionStep

LEMMA LoadedStep ==
  ASSUME ~ReuseIds, TypeOK, VerifyInv, [Next]_avars, NEW q \in Requests
  PROVE  Loaded(reqs[q])'
<1>0. /\ Loaded(reqs[q]) /\ IdsCounted
      /\ lastUser \in Nat /\ lastUser' \in Nat /\ lastUser' >= lastUser
      /\ \A u \in UserIds : u \in Nat
  BY TypeStep, IdsCountedStep, AccountsAssumption DEF VerifyInv, TypeOK, UserIds
<1>1. CASE reqs'[q] = reqs[q]
  <2>1. CASE UNCHANGED table
    BY <1>0, <1>1, <2>1 DEF table, Loaded, Exists
  <2>2. CASE Removes
    BY <1>0, <1>1, <2>2 DEF Removes, Loaded, Exists, TypeOK
  <2>3. ASSUME NEW r \in Requests, Inserts(r)
        PROVE  Loaded(reqs[q])'
    <3>1. \E u \in UserIds : u > lastUser /\ \A v \in UserIds \ {u} : users'[v] = users[v]
      BY <1>0, <2>3, IdsCountedStep
    <3> QED BY <1>0, <1>1, <3>1 DEF Loaded, Exists
  <2>4. ASSUME NEW r \in Requests, Verifies(r) \/ Changes(r)
        PROVE  Loaded(reqs[q])'
    BY <1>0, <1>1, <2>4, UpdateKeeps DEF Loaded
  <2> QED BY <2>1, <2>2, <2>3, <2>4, TableStep
<1>2. CASE reqs'[q].pc \notin LoadedPcs
  BY <1>2 DEF Loaded
<1>3. CASE GoesOn(q)
  <2>1. CASE reqs'[q].user \in AccountsOf(reqs[q].email)
    BY <1>0, <1>3, <2>1 DEF GoesOn, Loaded, AccountsOf, IdsCounted, table, Exists
  <2>2. CASE reqs'[q].user = reqs[q].user /\ reqs[q].pc \in LoadedPcs
    BY <1>0, <1>3, <2>2 DEF GoesOn, Loaded, table, Exists
  <2> QED BY <1>3, <2>1, <2>2 DEF GoesOn, MatchedPcs, LoadedPcs, VerifyPcs
<1> QED BY <1>1, <1>2, <1>3, SessionStep DEF Begins, LoadedPcs, VerifyPcs

LEMMA MailedStep ==
  ASSUME ~ReuseIds, TypeOK, VerifyInv, [Next]_avars
  PROVE  EveryMailed'
<1>0. EveryMailed /\ \A e \in Emails : inbox[e] # Nil => inbox'[e] # Nil
  BY MailStep DEF VerifyInv
<1>1. CASE UNCHANGED table
  BY <1>0, <1>1 DEF table, EveryMailed
<1>2. CASE Removes
  <2>1. \A u \in UserIds : users'[u] = users[u] \/ ~users'[u].verified
    BY <1>2 DEF Removes, TypeOK, NoUser
  <2> QED BY <1>0, <2>1 DEF EveryMailed
<1>3. ASSUME NEW r \in Requests, Inserts(r)
      PROVE  EveryMailed'
  <2>1. \A u \in UserIds : users'[u] = users[u] \/ ~users'[u].verified
    BY <1>3, IdsCountedStep DEF VerifyInv
  <2> QED BY <1>0, <2>1 DEF EveryMailed
<1>4. ASSUME NEW r \in Requests, Verifies(r) \/ Changes(r), NEW u \in UserIds, users'[u].verified
      PROVE  users'[u].email \in Emails /\ inbox'[users'[u].email] # Nil
  <2>1. CASE users[u].verified
    BY <1>0, <1>4, <2>1, UpdateKeeps DEF EveryMailed
  <2>2. CASE Verifies(r) /\ u = reqs[r].user
    <3>1. Exists(u) /\ reqs[r].pc = "v_commit"
      BY <2>2 DEF Verifies
    <3>2. users[u].email = reqs[r].email /\ reqs[r].email \in Emails /\ inbox[reqs[r].email] # Nil
      BY <2>2, <3>1 DEF VerifyInv, Presented, Loaded, MatchedPcs, LoadedPcs, VerifyPcs
    <3>3. users'[u].email = users[u].email
      BY <1>4, UpdateKeeps
    <3> QED BY <1>0, <3>2, <3>3
  <2> QED BY <1>4, <2>1, <2>2, UpdateKeeps
<1> QED BY <1>1, <1>2, <1>3, <1>4, TableStep DEF EveryMailed

(***************************************************************************)
(* Where ids are not handed out again, an account is verified only if a    *)
(* code has reached its address: a request that goes past the code has     *)
(* presented one that was stored, those were mailed to its address, and    *)
(* the row it commits still is the account of that address.                *)
(***************************************************************************)
THEOREM MailVerifies ==
  ASSUME ~ReuseIds
  PROVE  Spec => []VerifiedByMail
<1>1. Init => VerifyInv
  BY DEF Init, VerifyInv, IdsCounted, Exists, Presented, Loaded, EveryMailed, NoUser, Idle,
         LoadedPcs, VerifyPcs
<1>2. TypeOK /\ VerifyInv /\ [Next]_avars => VerifyInv'
  <2> SUFFICES ASSUME TypeOK, VerifyInv, [Next]_avars PROVE VerifyInv'
    OBVIOUS
  <2>1. IdsCounted'
    BY IdsCountedStep DEF VerifyInv
  <2>2. \A r \in Requests : Presented(reqs[r])'
    BY PresentedStep
  <2>3. \A r \in Requests : Loaded(reqs[r])'
    BY LoadedStep
  <2>4. EveryMailed'
    BY MailedStep
  <2> QED BY <2>1, <2>2, <2>3, <2>4 DEF VerifyInv
<1>3. VerifyInv => VerifiedByMail
  BY DEF VerifyInv, EveryMailed, VerifiedByMail
<1> QED BY <1>1, <1>2, <1>3, TypeCorrect, PTL DEF Spec
--------------------------------------------------------------------------------
(* Reset links *)

Serial == OnePerAddress /\ {"redis", "crash"} \cap FaultKinds = {}

ForgotPcs == {"f_select", "f_set", "f_mail"}
ResetPcs  == {"x_get", "x_select", "x_commit", "x_delete"}

LEMMA ResetKeysDiffer ==
  /\ \A x, y : ResetKey(x) = ResetKey(y) => x = y
  /\ \A x, y : ResetKey(x) # OtpKey(y) /\ ResetKey(x) # CooldownKey(y)
  /\ TokenPcs = ForgotPcs \cup ResetPcs /\ ForgotPcs \cap ResetPcs = {}
  BY DEF OtpKey, CooldownKey, ResetKey, TokenPcs, ForgotPcs, ResetPcs

(***************************************************************************)
(* What the requests of one address at a time keep: an address has one     *)
(* request; a token being mailed is new; a request that presents a token   *)
(* holds its address's link; a token that has changed a password has no    *)
(* key, or the request that used it is about to delete the key.            *)
(***************************************************************************)
OneEach ==
  \A r, q \in Requests : reqs[r].email = reqs[q].email /\ reqs[r].email # Nil => r = q

Asks(r) ==
  reqs[r].pc \in ForgotPcs =>
    /\ reqs[r].email \in Emails
    /\ used[reqs[r].secret] = 0
    /\ \A e \in Emails : links[e] # reqs[r].secret
    /\ redis[ResetKey(reqs[r].secret)] \in {Nil, reqs[r].email}
    /\ reqs[r].pc # "f_mail" => redis[ResetKey(reqs[r].secret)] = Nil
    /\ \A q \in Requests \ {r} :
         reqs[q].pc \in ForgotPcs => reqs[q].secret # reqs[r].secret

Presents(r) ==
  reqs[r].pc \in ResetPcs =>
    /\ reqs[r].email \in Emails
    /\ links[reqs[r].email] = reqs[r].secret
    /\ reqs[r].pc \in {"x_select", "x_commit"} => used[reqs[r].secret] = 0

LinkOf(e) ==
  links[e] # Nil =>
    /\ \A d \in Emails : links[d] = links[e] => d = e
    /\ redis[ResetKey(links[e])] \in {Nil, e}

UsedUp(t) ==
  \/ used[t] = 0
  \/ /\ used[t] = 1
     /\ \/ redis[ResetKey(t)] = Nil
        \/ \E r \in Requests : reqs[r].pc = "x_delete" /\ reqs[r].secret = t

Unused == ~connected => \A k \in RedisKeys : redis[k] = Nil

ResetInv ==
  /\ OneEach
  /\ \A r \in Requests : Asks(r) /\ Presents(r)
  /\ \A e \in Emails : LinkOf(e)
  /\ \A t \in Tokens : UsedUp(t)
  /\ Unused

(***************************************************************************)
(* Without a client nothing is ever stored.                                *)
(***************************************************************************)
LEMMA StoreStep ==
  ASSUME Serial, TypeOK, Unused, [Next]_avars
  PROVE  UNCHANGED connected /\ Unused'
<1>0. redis \in [RedisKeys -> RedisValues \cup {Nil}]
  BY DEF TypeOK, RedisTypeOK
<1>1. ASSUME NEW k, NEW v, NEW ok, SetKey(k, v, ok)
      PROVE  UNCHANGED connected /\ Unused'
  BY <1>0, <1>1 DEF SetKey, Unused
<1>2. ASSUME NEW k, Expire(k)
      PROVE  UNCHANGED connected /\ Unused'
  BY <1>0, <1>2 DEF Expire, Unused
<1>3. CASE UNCHANGED store
  BY <1>3 DEF store, Unused
<1>4. ASSUME NEW r \in Requests, Step(r)
      PROVE  UNCHANGED connected /\ Unused'
  <2>1. ASSUME \/ RegisterSelect(r) \/ RegisterInsert(r) \/ RegisterFails(r)
               \/ SendCheck(r) \/ SendMail(r) \/ ResendSelect(r) \/ VerifySelect(r) \/ VerifyGet(r)
        PROVE  UNCHANGED store
    BY <2>1
    DEF RegisterSelect, RegisterInsert, RegisterFails, SendCheck, SendMail, ResendSelect,
        VerifySelect, SelectAccount, VerifyGet
  <2>2. ASSUME \/ CommitFails(r) \/ ForgotSelect(r) \/ ForgotMail(r)
               \/ ResetGet(r) \/ ResetSelect(r)
               \/ VerifyCommit(r) \/ UpdateCommit(r) \/ ResetCommit(r)
        PROVE  UNCHANGED store
    BY <2>2
    DEF CommitFails, ForgotSelect, ForgotMail, ResetGet, ResetSelect, SelectAccount,
        VerifyCommit, UpdateCommit, ResetCommit, Commit
  <2>3. CASE SendCode(r) \/ SendCooldown(r) \/ ForgotSet(r)
    BY <1>1, <2>3 DEF SendCode, SendCooldown, ForgotSet
  <2>4. CASE VerifyDelete(r) \/ ResetDelete(r)
    BY <1>1, <2>4 DEF VerifyDelete, ResetDelete, Delete, DeleteKey
  <2> QED BY <1>3, <1>4, <2>1, <2>2, <2>3, <2>4 DEF Step
<1>5. ASSUME NEW r \in Requests, Request(r)
      PROVE  UNCHANGED store
  BY <1>5
  DEF Request, StartRegister, StartResend, StartVerify, StartForgot, StartReset, Start
<1>6. ASSUME NEW u \in UserIds, Signed(u)
      PROVE  UNCHANGED store
  BY <1>6 DEF Signed, Refresh, Logout, AccessExpires, Tokenless, StartUpdate, Start, RemoveUser
<1>7. CASE \E e \in Emails, p \in Passwords : Login(e, p)
  BY <1>3, <1>7 DEF Login, Tokenless
<1>8. CASE Environment
  BY <1>2, <1>8
  DEF Environment, CooldownExpires, CodeExpires, LinkExpires, KeyExpires, Restart, Fault, Serial
<1>9. CASE UNCHANGED avars
  BY <1>3, <1>9 DEF avars, store
<1> QED BY <1>3, <1>4, <1>5, <1>6, <1>7, <1>8, <1>9 DEF Next

(***************************************************************************)
(* The requests of a step: one slot changes.                               *)
(***************************************************************************)
Others(r) == \A q \in Requests \ {r} : reqs'[q] = reqs[q]

Becomes(r, pc, email, secret) ==
  /\ Others(r)
  /\ reqs'[r].pc = pc /\ reqs'[r].email = email /\ reqs'[r].secret = secret

LEMMA GotoSlot ==
  ASSUME TypeOK, NEW r \in Requests, NEW pc, Goto(r, pc)
  PROVE  Becomes(r, pc, reqs[r].email, reqs[r].secret)
  BY DEF TypeOK, Session, Goto, Becomes, Others

LEMMA DoneSlot ==
  ASSUME TypeOK, NEW r \in Requests, Done(r)
  PROVE  Becomes(r, "idle", Nil, Nil)
  BY DEF TypeOK, Session, Done, Becomes, Others, Idle

LEMMA FoundSlot ==
  ASSUME TypeOK, NEW r \in Requests, NEW pc, NEW u,
         reqs' = [reqs EXCEPT ![r].pc = pc, ![r].user = u]
  PROVE  Becomes(r, pc, reqs[r].email, reqs[r].secret)
  BY DEF TypeOK, Session, Becomes, Others

(***************************************************************************)
(* Steps that leave reset links alone.                                     *)
(***************************************************************************)
Linkless == UNCHANGED <<links, used>> /\ \A t \in Tokens : redis'[ResetKey(t)] = redis[ResetKey(t)]

LEMMA LinklessSlot ==
  ASSUME TypeOK, ResetInv, Linkless, Unused', NEW r \in Requests, Others(r),
         reqs[r].pc # "x_delete", reqs'[r].pc \notin TokenPcs,
         reqs'[r].email \in {Nil, reqs[r].email} \/ ~Busy(reqs'[r].email)
  PROVE  ResetInv'
<1>1. OneEach'
  BY DEF ResetInv, OneEach, Others, Busy
<1>2. \A q \in Requests : Asks(q)' /\ Presents(q)'
  <2> SUFFICES ASSUME NEW q \in Requests
               PROVE  Asks(q)' /\ Presents(q)'
    OBVIOUS
  <2>1. CASE q = r
    BY <2>1, ResetKeysDiffer DEF Asks, Presents
  <2>2. CASE q # r
    <3>1. reqs'[q] = reqs[q] /\ (reqs[q].pc \in TokenPcs => reqs[q].secret \in Tokens)
      BY <2>2 DEF Others, TypeOK
    <3>2. Asks(q)'
      BY <3>1, <2>2, ResetKeysDiffer DEF ResetInv, Asks, Linkless, Others
    <3>3. Presents(q)'
      BY <3>1, <2>2, ResetKeysDiffer DEF ResetInv, Presents, Linkless, Others
    <3> QED BY <3>2, <3>3
  <2> QED BY <2>1, <2>2
<1>3. \A e \in Emails : LinkOf(e)'
  BY AccountsAssumption DEF ResetInv, LinkOf, Linkless, TypeOK
<1>4. \A t \in Tokens : UsedUp(t)'
  BY DEF ResetInv, UsedUp, Linkless, Others
<1> QED BY <1>1, <1>2, <1>3, <1>4 DEF ResetInv
LEMMA KeysMayGo ==
  ASSUME TypeOK, ResetInv, Unused', UNCHANGED <<reqs, links, used>>,
         \A t \in Tokens : redis'[ResetKey(t)] \in {redis[ResetKey(t)], Nil}
  PROVE  ResetInv'
<1>0. \A q \in Requests : reqs[q].pc \in TokenPcs => reqs[q].secret \in Tokens
  BY DEF TypeOK
<1>1. OneEach'
  BY DEF ResetInv, OneEach
<1>2. ASSUME NEW q \in Requests
      PROVE  Asks(q)' /\ Presents(q)'
  BY <1>0, ResetKeysDiffer DEF ResetInv, Asks, Presents
<1>3. \A e \in Emails : LinkOf(e)'
  BY AccountsAssumption DEF ResetInv, LinkOf, TypeOK
<1>4. \A t \in Tokens : UsedUp(t)'
  BY DEF ResetInv, UsedUp
<1> QED BY <1>1, <1>2, <1>3, <1>4 DEF ResetInv

(***************************************************************************)
(* A key of another kind changes.                                          *)
(***************************************************************************)
LEMMA OtherKeys ==
  ASSUME TypeOK, NEW k, NEW v, NEW ok, SetKey(k, v, ok) \/ (Expire(k) /\ v = Nil),
         \A t \in Tokens : k # ResetKey(t)
  PROVE  \A t \in Tokens : redis'[ResetKey(t)] = redis[ResetKey(t)]
  BY AccountsAssumption DEF TypeOK, RedisTypeOK, SetKey, Expire

LEMMA SelectSlot ==
  ASSUME TypeOK, NEW r \in Requests, NEW here, NEW next, NEW accepted,
         SelectAccount(r, here, next, accepted)
  PROVE  /\ reqs[r].pc = here
         /\ Becomes(r, next, reqs[r].email, reqs[r].secret) \/ Becomes(r, "idle", Nil, Nil)
         /\ UNCHANGED <<redis, links, used>>
<1>1. CASE Done(r)
  BY <1>1, DoneSlot DEF SelectAccount, store, mail
<1>2. CASE \E u : reqs' = [reqs EXCEPT ![r].pc = next, ![r].user = u]
  BY <1>2, FoundSlot DEF SelectAccount, store, mail
<1> QED BY <1>1, <1>2 DEF SelectAccount

LEMMA OtherStep ==
  ASSUME TypeOK, ResetInv, Unused', NEW r \in Requests,
         \/ RegisterSelect(r) \/ RegisterInsert(r) \/ RegisterFails(r)
         \/ SendCheck(r) \/ SendCode(r) \/ SendCooldown(r) \/ SendMail(r)
         \/ ResendSelect(r)
         \/ VerifySelect(r) \/ VerifyGet(r) \/ VerifyDelete(r) \/ VerifyCommit(r)
         \/ UpdateCommit(r) \/ CommitFails(r)
  PROVE  ResetInv'
<1> USE DEF TokenPcs
<1>1. CASE RegisterSelect(r) \/ RegisterFails(r) \/ CommitFails(r) \/ VerifyGet(r)
  <2>1. Others(r) /\ reqs'[r].email \in {Nil, reqs[r].email}
    BY <1>1, GotoSlot, DoneSlot DEF RegisterSelect, RegisterFails, CommitFails, VerifyGet, Becomes
  <2>2. reqs'[r].pc \in {"idle", "r_insert", "v_code"}
    BY <1>1, GotoSlot, DoneSlot DEF RegisterSelect, RegisterFails, CommitFails, VerifyGet, Becomes
  <2>3. Linkless /\ reqs[r].pc # "x_delete"
    BY <1>1 DEF RegisterSelect, RegisterFails, CommitFails, VerifyGet, Linkless, store, mail
  <2> QED BY <2>1, <2>2, <2>3, LinklessSlot
<1>2. CASE RegisterInsert(r)
  <2>1. Becomes(r, "o_get", reqs[r].email, reqs[r].secret)
    BY <1>2, FoundSlot DEF RegisterInsert
  <2>2. Linkless /\ reqs[r].pc # "x_delete"
    BY <1>2 DEF RegisterInsert, Linkless, store, mail
  <2> QED BY <2>1, <2>2, LinklessSlot DEF Becomes
<1>3. CASE SendCheck(r)
  <2>1. Others(r) /\ reqs'[r].email \in {Nil, reqs[r].email} /\ reqs'[r].pc \in {"idle", "o_code"}
    <3>1. CASE Done(r)
      BY <3>1, DoneSlot DEF Becomes
    <3>2. CASE \E c \in Codes : reqs' = [reqs EXCEPT ![r].pc = "o_code", ![r].secret = c]
      BY <3>2 DEF TypeOK, Session, Others
    <3> QED BY <1>3, <3>1, <3>2 DEF SendCheck
  <2>2. Linkless /\ reqs[r].pc # "x_delete"
    BY <1>3 DEF SendCheck, Linkless, store, mail
  <2> QED BY <2>1, <2>2, LinklessSlot
<1>4. CASE SendCode(r) \/ SendCooldown(r)
  <2>1. Others(r) /\ reqs'[r].email = reqs[r].email /\ reqs'[r].pc \in {"o_cooldown", "o_mail"}
    BY <1>4, GotoSlot DEF SendCode, SendCooldown, Becomes
  <2>2. \A t \in Tokens : redis'[ResetKey(t)] = redis[ResetKey(t)]
    BY <1>4, OtherKeys, ResetKeysDiffer DEF SendCode, SendCooldown
  <2>3. Linkless /\ reqs[r].pc # "x_delete"
    BY <1>4, <2>2 DEF SendCode, SendCooldown, Linkless, mail
  <2> QED BY <2>1, <2>3, LinklessSlot
<1>5. CASE SendMail(r)
  <2>1. Becomes(r, "idle", Nil, Nil)
    BY <1>5, DoneSlot DEF SendMail
  <2>2. Linkless /\ reqs[r].pc # "x_delete"
    BY <1>5 DEF SendMail, Linkless, store
  <2> QED BY <2>1, <2>2, LinklessSlot DEF Becomes
<1>6. CASE ResendSelect(r) \/ VerifySelect(r)
  <2>1. /\ Others(r) /\ reqs'[r].email \in {Nil, reqs[r].email}
        /\ reqs'[r].pc \in {"idle", "o_get", "v_get"}
        /\ reqs[r].pc # "x_delete"
        /\ Linkless
    BY <1>6, SelectSlot DEF ResendSelect, VerifySelect, Becomes, Linkless
  <2> QED BY <2>1, LinklessSlot
<1>7. CASE VerifyDelete(r)
  <2>1. Others(r) /\ reqs'[r].email = reqs[r].email /\ reqs'[r].pc \in {"v_cooldown", "v_commit"}
    BY <1>7, GotoSlot DEF VerifyDelete, Delete, Becomes
  <2>2. \A t \in Tokens : redis'[ResetKey(t)] = redis[ResetKey(t)]
    BY <1>7, OtherKeys, ResetKeysDiffer DEF VerifyDelete, Delete, DeleteKey
  <2>3. Linkless /\ reqs[r].pc # "x_delete"
    BY <1>7, <2>2 DEF VerifyDelete, Delete, Linkless, mail
  <2> QED BY <2>1, <2>3, LinklessSlot
<1>8. CASE VerifyCommit(r) \/ UpdateCommit(r)
  <2>1. Becomes(r, "idle", Nil, Nil)
    BY <1>8, DoneSlot DEF VerifyCommit, UpdateCommit, Commit
  <2>2. Linkless /\ reqs[r].pc # "x_delete"
    BY <1>8 DEF VerifyCommit, UpdateCommit, Commit, Linkless, store, mail
  <2> QED BY <2>1, <2>2, LinklessSlot DEF Becomes
<1> QED BY <1>1, <1>2, <1>3, <1>4, <1>5, <1>6, <1>7, <1>8

(***************************************************************************)
(* forgot_password: the token stays new until the mail carries it out.     *)
(***************************************************************************)
LEMMA TokenSlot ==
  ASSUME TypeOK, ResetInv, UNCHANGED <<redis, links, used>>, Unused', NEW r \in Requests,
         Becomes(r, reqs'[r].pc, reqs[r].email, reqs[r].secret),
         reqs[r].pc # "x_delete", reqs'[r].pc # "f_mail",
         Asks(r)', Presents(r)',
         reqs'[r].pc \in ForgotPcs => reqs[r].pc \in ForgotPcs
  PROVE  ResetInv'
<1>1. OneEach'
  BY DEF ResetInv, OneEach, Others, Becomes
<1>2. ASSUME NEW q \in Requests
      PROVE  Asks(q)' /\ Presents(q)'
  <2>1. CASE q = r
    BY <2>1
  <2>2. CASE q # r
    <3>1. reqs'[q] = reqs[q]
      BY <2>2 DEF Others, Becomes
    <3>2. Asks(q)'
      BY <3>1, <2>2 DEF ResetInv, Asks, Others, Becomes
    <3>3. Presents(q)'
      BY <3>1, <2>2 DEF ResetInv, Presents
    <3> QED BY <3>2, <3>3
  <2> QED BY <2>1, <2>2
<1>3. \A e \in Emails : LinkOf(e)'
  BY DEF ResetInv, LinkOf
<1>4. \A t \in Tokens : UsedUp(t)'
  BY DEF ResetInv, UsedUp, Others, Becomes
<1> QED BY <1>1, <1>2, <1>3, <1>4 DEF ResetInv
LEMMA ForgotStep ==
  ASSUME TypeOK, ResetInv, Serial, Unused', NEW r \in Requests,
         ForgotSelect(r) \/ ForgotSet(r) \/ ForgotMail(r)
  PROVE  ResetInv'
<1> USE DEF ForgotPcs
<1>0. reqs[r].pc \in ForgotPcs /\ reqs[r].secret \in Tokens /\ reqs[r].email \in Emails
  BY DEF ForgotSelect, SelectAccount, ForgotSet, ForgotMail, TypeOK, TokenPcs, ResetInv, Asks
<1>1. CASE ForgotSelect(r)
  <2>1. /\ reqs[r].pc = "f_select" /\ UNCHANGED <<redis, links, used>>
        /\ \/ Becomes(r, "f_set", reqs[r].email, reqs[r].secret)
           \/ Becomes(r, "idle", Nil, Nil)
    BY <1>1, SelectSlot DEF ForgotSelect
  <2>2. CASE Becomes(r, "f_set", reqs[r].email, reqs[r].secret)
    <3>1. Asks(r)' /\ Presents(r)'
      BY <2>1, <2>2, <1>0 DEF ResetInv, Asks, Presents, ResetPcs, Becomes, Others
    <3> QED BY <2>1, <2>2, <3>1, TokenSlot DEF Becomes
  <2>3. CASE Becomes(r, "idle", Nil, Nil)
    BY <2>1, <2>3, LinklessSlot DEF Becomes, Linkless, TokenPcs
  <2> QED BY <2>1, <2>2, <2>3
<1>2. CASE ForgotSet(r)
  <2> DEFINE t == reqs[r].secret
  <2>1. Becomes(r, "f_mail", reqs[r].email, t) /\ UNCHANGED <<links, used>>
    BY <1>2, GotoSlot DEF ForgotSet, mail
  <2>2. reqs[r].pc = "f_set" /\ redis[ResetKey(t)] = Nil
    BY <1>2 DEF ForgotSet, ResetInv, Asks
  <2>3. /\ redis'[ResetKey(t)] \in {Nil, reqs[r].email}
        /\ \A x \in Tokens \ {t} : redis'[ResetKey(x)] = redis[ResetKey(x)]
    BY <1>0, <1>2, <2>2, ResetKeysDiffer, AccountsAssumption
    DEF ForgotSet, SetKey, TypeOK, RedisTypeOK
  <2>4. OneEach'
    BY <2>1 DEF ResetInv, OneEach, Others, Becomes
  <2>5. ASSUME NEW q \in Requests
        PROVE  Asks(q)' /\ Presents(q)'
    <3>1. CASE q = r
      <4>1. /\ used[t] = 0 /\ \A e \in Emails : links[e] # t
            /\ \A p \in Requests \ {r} : reqs[p].pc \in ForgotPcs => reqs[p].secret # t
        BY <2>2 DEF ResetInv, Asks
      <4> QED BY <1>0, <2>1, <2>3, <3>1, <4>1 DEF Asks, Presents, ResetPcs, Becomes, Others
    <3>2. CASE q # r
      <4>1. reqs'[q] = reqs[q] /\ (reqs[q].pc \in ForgotPcs => reqs[q].secret \in Tokens \ {t})
        BY <2>1, <2>2, <3>2, ResetKeysDiffer DEF Becomes, Others, TypeOK, ResetInv, Asks
      <4>2. Asks(q)'
        BY <2>1, <2>3, <4>1, <3>2, <2>2 DEF ResetInv, Asks, Becomes, Others
      <4>3. Presents(q)'
        BY <2>1, <4>1 DEF ResetInv, Presents
      <4> QED BY <4>2, <4>3
    <3> QED BY <3>1, <3>2
  <2>6. ASSUME NEW e \in Emails
        PROVE  LinkOf(e)'
    <3>1. links[e] # t
      BY <2>2 DEF ResetInv, Asks
    <3>2. links[e] # Nil => links[e] \in Tokens
      BY DEF TypeOK
    <3> QED BY <2>1, <2>3, <3>1, <3>2 DEF ResetInv, LinkOf
  <2>7. ASSUME NEW x \in Tokens
        PROVE  UsedUp(x)'
    <3>1. CASE x = t
      BY <2>1, <2>2, <3>1 DEF UsedUp, ResetInv, Asks
    <3>2. CASE x # t
      BY <2>1, <2>2, <2>3, <3>2 DEF UsedUp, ResetInv, Becomes, Others
    <3> QED BY <3>1, <3>2
  <2> QED BY <2>4, <2>5, <2>6, <2>7 DEF ResetInv
<1>3. CASE ForgotMail(r)
  <2> DEFINE t == reqs[r].secret
             e == reqs[r].email
  <2>1. Becomes(r, "idle", Nil, Nil) /\ UNCHANGED <<redis, used>> /\ reqs[r].pc = "f_mail"
    BY <1>3, DoneSlot DEF ForgotMail, store
  <2>2. CASE UNCHANGED links
    BY <2>1, <2>2, LinklessSlot DEF Becomes, Linkless, TokenPcs
  <2>3. CASE links' = [links EXCEPT ![e] = t]
    <3>0. /\ used[t] = 0 /\ \A d \in Emails : links[d] # t
          /\ redis[ResetKey(t)] \in {Nil, e}
          /\ \A q \in Requests \ {r} : reqs[q].pc \in ForgotPcs => reqs[q].secret # t
      BY <2>1 DEF ResetInv, Asks
    <3>1. links'[e] = t /\ \A d \in Emails \ {e} : links'[d] = links[d]
      BY <1>0, <2>3 DEF TypeOK
    <3>2. OneEach'
      BY <2>1 DEF ResetInv, OneEach, Others, Becomes
    <3>3. ASSUME NEW q \in Requests
          PROVE  Asks(q)' /\ Presents(q)'
      <4>1. CASE q = r
        BY <2>1, <4>1, ResetKeysDiffer DEF Asks, Presents, ResetPcs, Becomes
      <4>2. CASE q # r
        <5>1. reqs'[q] = reqs[q]
          BY <2>1, <4>2 DEF Becomes, Others
        <5>2. Asks(q)'
          BY <2>1, <3>0, <3>1, <4>2, <5>1 DEF ResetInv, Asks, Becomes, Others
        <5>3. reqs[q].pc \in ResetPcs => reqs[q].email \in Emails \ {e}
          BY <1>0, <4>2, AccountsAssumption DEF ResetInv, Presents, OneEach
        <5>4. Presents(q)'
          BY <2>1, <3>1, <5>1, <5>3 DEF ResetInv, Presents
        <5> QED BY <5>2, <5>4
      <4> QED BY <4>1, <4>2
    <3>4. ASSUME NEW d \in Emails
          PROVE  LinkOf(d)'
      <4>1. CASE d = e
        BY <2>1, <3>0, <3>1, <4>1 DEF LinkOf
      <4>2. CASE d # e
        BY <2>1, <3>0, <3>1, <4>2 DEF ResetInv, LinkOf
      <4> QED BY <4>1, <4>2
    <3>5. \A x \in Tokens : UsedUp(x)'
      BY <2>1 DEF ResetInv, UsedUp, Others, Becomes
    <3> QED BY <3>2, <3>3, <3>4, <3>5 DEF ResetInv
  <2> QED BY <1>3, <2>2, <2>3 DEF ForgotMail
<1> QED BY <1>1, <1>2, <1>3

(***************************************************************************)
(* reset_password: the token is the link of the address, so the address in *)
(* Redis is the one the request came for.                                  *)
(***************************************************************************)
LEMMA ResetStep ==
  ASSUME TypeOK, ResetInv, Serial, Unused', NEW r \in Requests,
         ResetGet(r) \/ ResetSelect(r) \/ ResetCommit(r) \/ ResetDelete(r)
  PROVE  ResetInv'
<1> USE DEF ResetPcs
<1> DEFINE t == reqs[r].secret
           e == reqs[r].email
<1>0. reqs[r].pc \in ResetPcs /\ t \in Tokens /\ e \in Emails /\ links[e] = t /\ t # Nil
  BY AccountsAssumption
  DEF ResetGet, ResetSelect, SelectAccount, ResetCommit, Commit, ResetDelete, Delete,
      TypeOK, TokenPcs, ResetInv, Presents
<1>1. \A q \in Requests : reqs[q].pc \in ResetPcs /\ reqs[q].secret = t => q = r
  BY <1>0, AccountsAssumption DEF ResetInv, Presents, LinkOf, OneEach
<1>2. \A q \in Requests : reqs[q].pc \in ForgotPcs => reqs[q].secret # t
  BY <1>0 DEF ResetInv, Asks
<1>3. CASE ResetGet(r)
  <2>1. /\ reqs[r].pc = "x_get" /\ UNCHANGED <<redis, links, used>>
        /\ \/ Becomes(r, "idle", Nil, Nil)
           \/ Becomes(r, "x_select", e, t) /\ redis[ResetKey(t)] # Nil
    <3>1. CASE Done(r)
      BY <1>3, <3>1, DoneSlot DEF ResetGet, store, mail
    <3>2. ASSUME NEW a, a # Nil, a \in {redis[ResetKey(t)], Nil},
                 reqs' = [reqs EXCEPT ![r].pc = "x_select", ![r].email = a]
          PROVE  Becomes(r, "x_select", e, t) /\ redis[ResetKey(t)] # Nil
      <4>1. a = e /\ redis[ResetKey(t)] # Nil
        BY <1>0, <3>2 DEF ResetInv, LinkOf
      <4> QED BY <3>2, <4>1 DEF TypeOK, Session, Becomes, Others
    <3> QED BY <1>3, <3>1, <3>2 DEF ResetGet, Answer, store, mail
  <2>2. CASE Becomes(r, "idle", Nil, Nil)
    BY <2>1, <2>2, LinklessSlot DEF Becomes, Linkless, TokenPcs
  <2>3. CASE Becomes(r, "x_select", e, t) /\ redis[ResetKey(t)] # Nil
    <3>1. used[t] = 0
      BY <1>0, <1>1, <2>1, <2>3 DEF ResetInv, UsedUp
    <3>2. Asks(r)' /\ Presents(r)'
      BY <1>0, <2>1, <2>3, <3>1 DEF Asks, Presents, ForgotPcs, Becomes
    <3> QED BY <2>1, <2>3, <3>2, TokenSlot DEF Becomes, ForgotPcs
  <2> QED BY <2>1, <2>2, <2>3
<1>4. CASE ResetSelect(r)
  <2>1. /\ reqs[r].pc = "x_select" /\ UNCHANGED <<redis, links, used>>
        /\ Becomes(r, "x_commit", e, t) \/ Becomes(r, "idle", Nil, Nil)
    BY <1>4, SelectSlot DEF ResetSelect
  <2>2. CASE Becomes(r, "idle", Nil, Nil)
    BY <2>1, <2>2, LinklessSlot DEF Becomes, Linkless, TokenPcs
  <2>3. CASE Becomes(r, "x_commit", e, t)
    <3>1. used[t] = 0
      BY <2>1 DEF ResetInv, Presents
    <3>2. Asks(r)' /\ Presents(r)'
      BY <1>0, <2>1, <2>3, <3>1 DEF Asks, Presents, ForgotPcs, Becomes
    <3> QED BY <2>1, <2>3, <3>2, TokenSlot DEF Becomes, ForgotPcs
  <2> QED BY <2>1, <2>2, <2>3
<1>5. CASE ResetCommit(r)
  <2>1. /\ reqs[r].pc = "x_commit" /\ UNCHANGED <<redis, links>>
        /\ Becomes(r, "x_delete", e, t)
        /\ used[t] = 0 /\ used'[t] = 1
        /\ \A x \in Tokens \ {t} : used'[x] = used[x]
    BY <1>0, <1>5, GotoSlot DEF ResetCommit, Commit, store, mail, ResetInv, Presents, TypeOK
  <2>2. OneEach'
    BY <2>1 DEF ResetInv, OneEach, Others, Becomes
  <2>3. ASSUME NEW q \in Requests
        PROVE  Asks(q)' /\ Presents(q)'
    <3>1. CASE q = r
      BY <1>0, <2>1, <3>1 DEF Asks, Presents, ForgotPcs, Becomes
    <3>2. CASE q # r
      <4>1. /\ reqs'[q] = reqs[q]
            /\ reqs[q].pc \in TokenPcs => reqs[q].secret \in Tokens \ {t}
        BY <1>1, <1>2, <2>1, <3>2, ResetKeysDiffer DEF Becomes, Others, TypeOK
      <4>2. Asks(q)'
        BY <2>1, <3>2, <4>1, ResetKeysDiffer DEF ResetInv, Asks, Becomes, Others, ForgotPcs
      <4>3. Presents(q)'
        BY <2>1, <4>1, ResetKeysDiffer DEF ResetInv, Presents
      <4> QED BY <4>2, <4>3
    <3> QED BY <3>1, <3>2
  <2>4. \A d \in Emails : LinkOf(d)'
    BY <2>1 DEF ResetInv, LinkOf
  <2>5. ASSUME NEW x \in Tokens
        PROVE  UsedUp(x)'
    <3>1. CASE x = t
      BY <2>1, <3>1 DEF UsedUp, Becomes
    <3>2. CASE x # t
      BY <2>1, <3>2 DEF UsedUp, ResetInv, Becomes, Others
    <3> QED BY <3>1, <3>2
  <2> QED BY <2>2, <2>3, <2>4, <2>5 DEF ResetInv
<1>6. CASE ResetDelete(r)
  <2>1. /\ Becomes(r, "idle", Nil, Nil) /\ UNCHANGED <<links, used>>
        /\ reqs[r].pc = "x_delete"
    BY <1>6, DoneSlot DEF ResetDelete, Delete, mail
  <2>2. ResetKey(t) \in RedisKeys /\ \A x \in Tokens : ResetKey(x) \in RedisKeys
    BY <1>0, AccountsAssumption
  <2>3. redis'[ResetKey(t)] = Nil /\ \A x \in Tokens \ {t} : redis'[ResetKey(x)] = redis[ResetKey(x)]
    <3>1. PICK ok \in BOOLEAN : Redis(ok) /\ DeleteKey(ResetKey(t), ok)
      BY <1>6 DEF ResetDelete, Delete
    <3>2. ok
      BY <3>1 DEF Redis, Fault, Serial
    <3>3. CASE connected
      BY <2>2, <3>1, <3>2, <3>3, ResetKeysDiffer DEF DeleteKey, SetKey, TypeOK, RedisTypeOK
    <3>4. CASE ~connected
      BY <2>2, <3>1, <3>4 DEF DeleteKey, SetKey, ResetInv, Unused
    <3> QED BY <3>3, <3>4
  <2>4. OneEach'
    BY <2>1 DEF ResetInv, OneEach, Others, Becomes
  <2>5. ASSUME NEW q \in Requests
        PROVE  Asks(q)' /\ Presents(q)'
    <3>1. CASE q = r
      BY <2>1, <3>1 DEF Asks, Presents, ForgotPcs, Becomes
    <3>2. CASE q # r
      <4>1. /\ reqs'[q] = reqs[q]
            /\ reqs[q].pc \in TokenPcs => reqs[q].secret \in Tokens \ {t}
        BY <1>1, <1>2, <2>1, <3>2, ResetKeysDiffer DEF Becomes, Others, TypeOK
      <4>2. Asks(q)'
        BY <2>1, <2>3, <3>2, <4>1, ResetKeysDiffer DEF ResetInv, Asks, Becomes, Others, ForgotPcs
      <4>3. Presents(q)'
        BY <2>1, <4>1, ResetKeysDiffer DEF ResetInv, Presents
      <4> QED BY <4>2, <4>3
    <3> QED BY <3>1, <3>2
  <2>6. ASSUME NEW d \in Emails
        PROVE  LinkOf(d)'
    <3>1. links[d] # Nil => links[d] \in Tokens
      BY DEF TypeOK
    <3> QED BY <2>1, <2>3, <3>1 DEF ResetInv, LinkOf
  <2>7. ASSUME NEW x \in Tokens
        PROVE  UsedUp(x)'
    <3>1. CASE x = t
      BY <2>1, <2>3, <3>1 DEF UsedUp, ResetInv
    <3>2. CASE x # t
      BY <2>1, <2>3, <3>2 DEF UsedUp, ResetInv, Becomes, Others
    <3> QED BY <3>1, <3>2
  <2> QED BY <2>4, <2>5, <2>6, <2>7 DEF ResetInv
<1> QED BY <1>3, <1>4, <1>5, <1>6
(***************************************************************************)
(* A request arrives: nobody else works for its address.                   *)
(***************************************************************************)
LEMMA StartSlot ==
  ASSUME TypeOK, Serial, NEW op, NEW r \in Requests, NEW s, Start(op, r, s)
  PROVE  /\ reqs[r].pc = "idle" /\ Becomes(r, s.pc, s.email, s.secret)
         /\ ~Busy(s.email)
         /\ UNCHANGED <<redis, connected, inbox, unsent, links, used>>
  BY DEF Start, Serial, TypeOK, Idle, Becomes, Others, store, mail

LEMMA OtherStart ==
  ASSUME TypeOK, ResetInv, Serial, Unused', NEW op, NEW r \in Requests, NEW s, Start(op, r, s),
         s.pc \notin TokenPcs
  PROVE  ResetInv'
  BY StartSlot, LinklessSlot DEF Becomes, Linkless

LEMMA ForgotStarts ==
  ASSUME TypeOK, ResetInv, Serial, Unused', NEW r \in Requests, NEW e \in Emails, NEW t \in Tokens,
         StartForgot(r, e, t)
  PROVE  ResetInv'
<1> DEFINE s == [Idle EXCEPT !.pc = "f_select", !.email = e, !.secret = t]
<1>0. s.pc = "f_select" /\ s.email = e /\ s.secret = t /\ Start("forgot", r, s)
  BY DEF StartForgot, Idle
<1> HIDE DEF s
<1>1. /\ Becomes(r, "f_select", e, t) /\ ~Busy(e) /\ reqs[r].pc = "idle"
      /\ UNCHANGED <<redis, links, used>>
  BY <1>0, StartSlot
<1>2. /\ used[t] = 0 /\ redis[ResetKey(t)] = Nil
      /\ \A d \in Emails : links[d] # t
      /\ \A q \in Requests : reqs[q].secret # t
  BY DEF StartForgot, Fresh
<1>3. OneEach'
  BY <1>1 DEF ResetInv, OneEach, Becomes, Others, Busy
<1>4. ASSUME NEW q \in Requests
      PROVE  Asks(q)' /\ Presents(q)'
  <2>1. CASE q = r
    BY <1>1, <1>2, <2>1 DEF Asks, Presents, ResetPcs, Becomes, Others
  <2>2. CASE q # r
    <3>1. reqs'[q] = reqs[q]
      BY <1>1, <2>2 DEF Becomes, Others
    <3>2. Asks(q)'
      BY <1>1, <1>2, <2>2, <3>1 DEF ResetInv, Asks, Becomes, Others
    <3>3. Presents(q)'
      BY <1>1, <3>1 DEF ResetInv, Presents
    <3> QED BY <3>2, <3>3
  <2> QED BY <2>1, <2>2
<1>5. \A d \in Emails : LinkOf(d)'
  BY <1>1 DEF ResetInv, LinkOf
<1>6. \A x \in Tokens : UsedUp(x)'
  BY <1>1 DEF ResetInv, UsedUp, Becomes, Others
<1> QED BY <1>3, <1>4, <1>5, <1>6 DEF ResetInv

LEMMA ResetStarts ==
  ASSUME TypeOK, ResetInv, Serial, Unused', NEW r \in Requests, NEW e \in Emails, NEW p \in Passwords,
         StartReset(r, e, p)
  PROVE  ResetInv'
<1> DEFINE s == [Idle EXCEPT !.pc = "x_get", !.email = e, !.password = p, !.secret = links[e]]
<1>0. s.pc = "x_get" /\ s.email = e /\ s.secret = links[e] /\ Start("reset", r, s)
  BY DEF StartReset, Idle
<1> HIDE DEF s
<1>1. /\ Becomes(r, "x_get", e, links[e]) /\ ~Busy(e) /\ reqs[r].pc = "idle"
      /\ UNCHANGED <<redis, links, used>>
  BY <1>0, StartSlot
<1>2. OneEach'
  BY <1>1 DEF ResetInv, OneEach, Becomes, Others, Busy
<1>3. ASSUME NEW q \in Requests
      PROVE  Asks(q)' /\ Presents(q)'
  <2>1. CASE q = r
    BY <1>1, <2>1 DEF Asks, Presents, ForgotPcs, Becomes
  <2>2. CASE q # r
    <3>1. reqs'[q] = reqs[q]
      BY <1>1, <2>2 DEF Becomes, Others
    <3>2. Asks(q)'
      BY <1>1, <2>2, <3>1 DEF ResetInv, Asks, Becomes, Others, ForgotPcs
    <3>3. Presents(q)'
      BY <1>1, <3>1 DEF ResetInv, Presents
    <3> QED BY <3>2, <3>3
  <2> QED BY <2>1, <2>2
<1>4. \A d \in Emails : LinkOf(d)'
  BY <1>1 DEF ResetInv, LinkOf
<1>5. \A x \in Tokens : UsedUp(x)'
  BY <1>1 DEF ResetInv, UsedUp, Becomes, Others
<1> QED BY <1>2, <1>3, <1>4, <1>5 DEF ResetInv

LEMMA ResetInvStep ==
  ASSUME TypeOK, ResetInv, Serial, [Next]_avars
  PROVE  ResetInv'
<1>0. Unused'
  BY StoreStep DEF ResetInv
<1>1. ASSUME NEW r \in Requests, Step(r)
      PROVE  ResetInv'
  BY <1>0, <1>1, OtherStep, ForgotStep, ResetStep DEF Step
<1>2. ASSUME NEW r \in Requests, Request(r)
      PROVE  ResetInv'
  <2>1. ASSUME NEW e \in Emails, NEW n \in Names, NEW p \in Passwords, StartRegister(r, e, n, p)
        PROVE  ResetInv'
    BY <1>0, <2>1, OtherStart DEF StartRegister, Idle, TokenPcs
  <2>2. ASSUME NEW e \in Emails, StartResend(r, e)
        PROVE  ResetInv'
    BY <1>0, <2>2, OtherStart DEF StartResend, Idle, TokenPcs
  <2>3. ASSUME NEW e \in Emails, NEW c, StartVerify(r, e, c)
        PROVE  ResetInv'
    BY <1>0, <2>3, OtherStart DEF StartVerify, Idle, TokenPcs
  <2> QED BY <1>0, <1>2, <2>1, <2>2, <2>3, ForgotStarts, ResetStarts DEF Request
<1>3. ASSUME NEW e \in Emails, NEW p \in Passwords, Login(e, p)
      PROVE  ResetInv'
  BY <1>0, <1>3, KeysMayGo DEF Login, Tokenless, store, mail
<1>4. ASSUME NEW u \in UserIds, Signed(u)
      PROVE  ResetInv'
  <2>1. ASSUME NEW r \in Requests, NEW p \in Passwords, NEW q \in Passwords, StartUpdate(r, u, p, q)
        PROVE  ResetInv'
    BY <1>0, <2>1, OtherStart DEF StartUpdate, Idle, TokenPcs
  <2>2. CASE Refresh(u) \/ Logout(u) \/ AccessExpires(u) \/ RemoveUser(u)
    BY <1>0, <2>2, KeysMayGo
    DEF Refresh, Logout, AccessExpires, Tokenless, RemoveUser, store, mail
  <2> QED BY <1>4, <2>1, <2>2 DEF Signed
<1>5. CASE Environment
  <2>1. ASSUME NEW k \in RedisKeys, KeyExpires(k)
        PROVE  ResetInv'
    <3>1. \A t \in Tokens : redis'[ResetKey(t)] \in {redis[ResetKey(t)], Nil}
      BY <2>1, AccountsAssumption DEF KeyExpires, Expire, TypeOK, RedisTypeOK
    <3> QED BY <1>0, <2>1, <3>1, KeysMayGo DEF KeyExpires, mail
  <2>2. \E k \in RedisKeys : KeyExpires(k)
    BY <1>5, AccountsAssumption
    DEF Environment, CooldownExpires, CodeExpires, LinkExpires, Restart, Fault, Serial
  <2> QED BY <2>1, <2>2
<1>6. CASE UNCHANGED avars
  BY <1>0, <1>6, KeysMayGo DEF avars
<1> QED BY <1>1, <1>2, <1>3, <1>4, <1>5, <1>6 DEF Next

LEMMA ResetInvInit ==
  Init => ResetInv
  BY DEF Init, RedisInit, ResetInv, OneEach, Asks, Presents, LinkOf, UsedUp, Unused, Idle,
         ForgotPcs, ResetPcs

(***************************************************************************)
(* With one request per address at a time, and a Redis that answers, a     *)
(* reset link changes a password once.                                     *)
(***************************************************************************)
THEOREM LinkWorksOnce ==
  ASSUME Serial
  PROVE  Spec => []ResetOnce
<1>1. TypeOK /\ ResetInv /\ [Next]_avars => ResetInv'
  BY ResetInvStep
<1>2. ResetInv => ResetOnce
  BY DEF ResetInv, UsedUp, ResetOnce
<1> QED BY <1>1, <1>2, ResetInvInit, TypeCorrect, PTL DEF Spec
--------------------------------------------------------------------------------
(* The cooldown and the code *)

(***************************************************************************)
(* While a cooldown is in force the code mailed is the one stored, unless  *)
(* the mail server has refused it, or the request of the address is about  *)
(* to mail it or to lift the cooldown.                                     *)
(***************************************************************************)
Addressed(r) ==
  reqs[r].pc \in CodePcs \cup {"r_select", "r_insert", "o_get", "e_select",
                               "v_select", "v_get", "v_code", "v_cooldown"}
    => reqs[r].email \in Emails

Pending(r) ==
  /\ reqs[r].pc \in {"o_code", "o_cooldown"} => redis[CooldownKey(reqs[r].email)] = Nil
  /\ \/ reqs[r].pc = "o_cooldown" /\ connected
     \/ reqs[r].pc = "o_mail" /\ redis[CooldownKey(reqs[r].email)] # Nil
     => redis[OtpKey(reqs[r].email)] = reqs[r].secret

Mailed(e) ==
  redis[CooldownKey(e)] # Nil /\ ~unsent[e] =>
    \/ redis[OtpKey(e)] = inbox[e] /\ inbox[e] # Nil
    \/ \E r \in Requests : reqs[r].email = e /\ reqs[r].pc \in {"o_mail", "v_cooldown"}

CodeInv ==
  /\ \A r \in Requests : Addressed(r) /\ Pending(r)
  /\ \A e \in Emails : Mailed(e)

SameCode(e) ==
  /\ redis'[OtpKey(e)] = redis[OtpKey(e)]
  /\ redis'[CooldownKey(e)] = redis[CooldownKey(e)]
  /\ inbox'[e] = inbox[e] /\ unsent'[e] = unsent[e]

(***************************************************************************)
(* A step of a request that mails no code, and one of a request that does: *)
(* the codes of the other addresses stay.                                  *)
(***************************************************************************)
LEMMA CodesStay ==
  ASSUME CodeInv, NEW r \in Requests, Others(r), UNCHANGED connected,
         \A e \in Emails : SameCode(e),
         reqs[r].pc \notin {"o_mail", "v_cooldown"}, reqs'[r].pc \notin CodePcs,
         Addressed(r)'
  PROVE  CodeInv'
<1>1. ASSUME NEW q \in Requests
      PROVE  Addressed(q)' /\ Pending(q)'
  <2>1. CASE q = r
    BY <2>1 DEF Pending, CodePcs
  <2>2. CASE q # r
    BY <2>2 DEF CodeInv, Addressed, Pending, Others, SameCode, CodePcs
  <2> QED BY <2>1, <2>2
<1>2. ASSUME NEW e \in Emails
      PROVE  Mailed(e)'
  BY DEF CodeInv, Mailed, Others, SameCode
<1> QED BY <1>1, <1>2 DEF CodeInv

LEMMA CodeMoves ==
  ASSUME TypeOK, CodeInv, OneEach, NEW r \in Requests, NEW e \in Emails, reqs[r].email = e,
         Others(r), UNCHANGED connected,
         \A d \in Emails \ {e} : SameCode(d),
         Addressed(r)', Pending(r)', Mailed(e)'
  PROVE  CodeInv'
<1>1. ASSUME NEW q \in Requests
      PROVE  Addressed(q)' /\ Pending(q)'
  <2>1. CASE q = r
    BY <2>1
  <2>2. CASE q # r
    <3>1. reqs'[q] = reqs[q] /\ reqs[q].email # e
      BY <2>2, AccountsAssumption DEF Others, OneEach
    <3> QED BY <3>1 DEF CodeInv, Addressed, Pending, SameCode, CodePcs
  <2> QED BY <2>1, <2>2
<1>2. ASSUME NEW d \in Emails
      PROVE  Mailed(d)'
  <2>1. CASE d = e
    BY <2>1
  <2>2. CASE d # e
    BY <2>2 DEF CodeInv, Mailed, Others, SameCode
  <2> QED BY <2>1, <2>2
<1> QED BY <1>1, <1>2 DEF CodeInv

LEMMA CodesUnchanged ==
  ASSUME UNCHANGED <<redis, inbox, unsent>>
  PROVE  \A e \in Emails : SameCode(e)
  BY DEF SameCode

(***************************************************************************)
(* A step that changes one key leaves those of the other addresses.        *)
(***************************************************************************)
LEMMA KeyChange ==
  ASSUME TypeOK, NEW k, NEW v, NEW ok, SetKey(k, v, ok) \/ (Expire(k) /\ v = Nil)
  PROVE  /\ \A d \in Emails : k # OtpKey(d) => redis'[OtpKey(d)] = redis[OtpKey(d)]
         /\ \A d \in Emails : k # CooldownKey(d) => redis'[CooldownKey(d)] = redis[CooldownKey(d)]
         /\ k \in RedisKeys => redis'[k] \in {v, redis[k]}
         /\ k \in RedisKeys /\ connected /\ ok => redis'[k] = v
  BY AccountsAssumption DEF TypeOK, RedisTypeOK, SetKey, Expire

LEMMA CodeKeys ==
  /\ \A x, y : OtpKey(x) = OtpKey(y) => x = y
  /\ \A x, y : CooldownKey(x) = CooldownKey(y) => x = y
  /\ \A x, y : OtpKey(x) # CooldownKey(y)
  /\ \A e \in Emails : OtpKey(e) \in RedisKeys /\ CooldownKey(e) \in RedisKeys
  BY AccountsAssumption DEF OtpKey, CooldownKey

LEMMA SelectQuiet ==
  ASSUME TypeOK, CodeInv, NEW r \in Requests, NEW here, NEW next, NEW accepted,
         SelectAccount(r, here, next, accepted),
         <<here, next>> \in {<<"e_select", "o_get">>, <<"v_select", "v_get">>,
                             <<"f_select", "f_set">>, <<"x_select", "x_commit">>}
  PROVE  CodeInv'
<1>0. UNCHANGED <<redis, inbox, unsent, connected>>
  BY DEF SelectAccount, store, mail
<1>1. /\ reqs[r].pc = here /\ UNCHANGED <<redis, inbox, unsent, connected>>
      /\ Becomes(r, next, reqs[r].email, reqs[r].secret) \/ Becomes(r, "idle", Nil, Nil)
  BY <1>0, SelectSlot
<1>2. here \notin {"o_mail", "v_cooldown"} /\ next \notin CodePcs
      /\ (here \in {"e_select", "v_select"} => reqs[r].email \in Emails)
      /\ (here \notin {"e_select", "v_select"} => next \in {"f_set", "x_commit"})
  BY <1>1 DEF CodeInv, Addressed, CodePcs
<1>3. Addressed(r)'
  BY <1>1, <1>2 DEF Addressed, CodePcs, Becomes
<1> QED BY <1>1, <1>2, <1>3, CodesStay, CodesUnchanged DEF Becomes, CodePcs

LEMMA CodeQuietStep ==
  ASSUME TypeOK, CodeInv, NEW r \in Requests,
         \/ RegisterSelect(r) \/ RegisterInsert(r) \/ RegisterFails(r)
         \/ ResendSelect(r) \/ VerifySelect(r) \/ VerifyGet(r) \/ VerifyCommit(r)
         \/ UpdateCommit(r) \/ CommitFails(r)
         \/ ForgotSelect(r) \/ ForgotMail(r)
         \/ ResetGet(r) \/ ResetSelect(r) \/ ResetCommit(r)
  PROVE  CodeInv'
<1>1. CASE RegisterSelect(r) \/ RegisterFails(r) \/ CommitFails(r) \/ VerifyGet(r)
  <2>1. /\ \/ Becomes(r, "idle", Nil, Nil)
           \/ Becomes(r, "r_insert", reqs[r].email, reqs[r].secret) /\ reqs[r].pc = "r_select"
           \/ Becomes(r, "v_code", reqs[r].email, reqs[r].secret) /\ reqs[r].pc = "v_get"
        /\ UNCHANGED <<redis, inbox, unsent, connected>>
        /\ reqs[r].pc \notin {"o_mail", "v_cooldown"}
    <3>0. /\ reqs[r].pc \notin {"o_mail", "v_cooldown"}
          /\ UNCHANGED <<redis, inbox, unsent, connected>>
      BY <1>1 DEF RegisterSelect, RegisterFails, CommitFails, VerifyGet, store, mail
    <3>1. CASE Done(r)
      BY <3>0, <3>1, DoneSlot
    <3>2. CASE RegisterSelect(r) /\ Goto(r, "r_insert")
      <4>1. reqs[r].pc = "r_select"
        BY <3>2 DEF RegisterSelect
      <4> QED BY <3>0, <3>2, <4>1, GotoSlot
    <3>3. CASE VerifyGet(r) /\ Goto(r, "v_code")
      BY <3>3, GotoSlot DEF VerifyGet, store, mail
    <3> QED BY <1>1, <3>1, <3>2, <3>3 DEF RegisterSelect, RegisterFails, CommitFails, VerifyGet
  <2>2. Addressed(r)'
    BY <2>1 DEF CodeInv, Addressed, CodePcs, Becomes
  <2> QED BY <2>1, <2>2, CodesStay, CodesUnchanged DEF Becomes, CodePcs
<1>2. CASE RegisterInsert(r)
  <2>1. Becomes(r, "o_get", reqs[r].email, reqs[r].secret)
    BY <1>2, FoundSlot DEF RegisterInsert
  <2>2. Addressed(r)'
    BY <1>2, <2>1 DEF RegisterInsert, CodeInv, Addressed, Becomes
  <2> QED BY <1>2, <2>1, <2>2, CodesStay, CodesUnchanged DEF Becomes, RegisterInsert, store, mail, CodePcs
<1>3. CASE ResendSelect(r) \/ VerifySelect(r) \/ ForgotSelect(r) \/ ResetSelect(r)
  BY <1>3, SelectQuiet DEF ResendSelect, VerifySelect, ForgotSelect, ResetSelect
<1>4. CASE VerifyCommit(r) \/ UpdateCommit(r) \/ ForgotMail(r)
  <2>1. Becomes(r, "idle", Nil, Nil)
    BY <1>4, DoneSlot DEF VerifyCommit, UpdateCommit, Commit, ForgotMail
  <2>2. Addressed(r)'
    BY <2>1 DEF Addressed, CodePcs, Becomes
  <2> QED BY <1>4, <2>1, <2>2, CodesStay, CodesUnchanged
          DEF Becomes, VerifyCommit, UpdateCommit, Commit, ForgotMail, store, mail, CodePcs
<1>5. CASE ResetGet(r)
  <2>1. Others(r) /\ reqs'[r].pc \in {"idle", "x_select"}
    <3>1. CASE Done(r)
      BY <3>1, DoneSlot DEF Becomes
    <3>2. CASE \E a : reqs' = [reqs EXCEPT ![r].pc = "x_select", ![r].email = a]
      BY <3>2 DEF TypeOK, Session, Others
    <3> QED BY <1>5, <3>1, <3>2 DEF ResetGet
  <2>2. Addressed(r)'
    BY <2>1 DEF Addressed, CodePcs
  <2> QED BY <1>5, <2>1, <2>2, CodesStay, CodesUnchanged DEF ResetGet, store, mail, CodePcs
<1>6. CASE ResetCommit(r)
  <2>1. Becomes(r, "x_delete", reqs[r].email, reqs[r].secret)
    BY <1>6, GotoSlot DEF ResetCommit, Commit
  <2>2. Addressed(r)'
    BY <2>1 DEF Addressed, CodePcs, Becomes
  <2> QED BY <1>6, <2>1, <2>2, CodesStay, CodesUnchanged DEF Becomes, ResetCommit, Commit, store, mail, CodePcs
<1> QED BY <1>1, <1>2, <1>3, <1>4, <1>5, <1>6

LEMMA TokenKeyStep ==
  ASSUME TypeOK, CodeInv, UNCHANGED connected, NEW r \in Requests, ForgotSet(r) \/ ResetDelete(r)
  PROVE  CodeInv'
<1>1. /\ Others(r) /\ reqs'[r].pc \in {"idle", "f_mail"} /\ UNCHANGED <<inbox, unsent>>
      /\ reqs[r].pc \notin {"o_mail", "v_cooldown"}
  BY GotoSlot, DoneSlot DEF ForgotSet, ResetDelete, Delete, Becomes, mail
<1>2. \A e \in Emails : SameCode(e)
  BY <1>1, KeyChange, ResetKeysDiffer DEF ForgotSet, ResetDelete, Delete, DeleteKey, SameCode
<1>3. Addressed(r)'
  BY <1>1 DEF Addressed, CodePcs
<1> QED BY <1>1, <1>2, <1>3, CodesStay DEF CodePcs

(***************************************************************************)
(* send_otp and the deletions of verify_otp.                               *)
(***************************************************************************)
LEMMA SendStep ==
  ASSUME TypeOK, CodeInv, OneEach, Unused, Serial, UNCHANGED connected, NEW r \in Requests,
         SendCheck(r) \/ SendCode(r) \/ SendCooldown(r) \/ SendMail(r) \/ VerifyDelete(r)
  PROVE  CodeInv'
<1>0. PICK e \in Emails : reqs[r].email = e
  BY DEF SendCheck, SendCode, SendCooldown, SendMail, VerifyDelete, Delete, CodeInv, Addressed, CodePcs
<1>1. CASE SendCheck(r)
  <2>0. reqs[r].pc = "o_get" /\ UNCHANGED <<redis, inbox, unsent>>
    BY <1>0, <1>1 DEF SendCheck, store, mail
  <2>1. CASE Done(r)
    <3>1. Becomes(r, "idle", Nil, Nil)
      BY <1>0, <2>1, DoneSlot
    <3> QED BY <1>0, <2>0, <3>1, CodesStay, CodesUnchanged DEF Becomes, Addressed, CodePcs
  <2>2. CASE ~Done(r)
    <3>1. PICK ok \in BOOLEAN : /\ Redis(ok)
                               /\ Answer(CooldownKey(e), ok) = Nil
                               /\ \E c \in Codes : reqs' = [reqs EXCEPT ![r].pc = "o_code", ![r].secret = c]
      BY <1>0, <1>1, <2>2 DEF SendCheck
    <3>2. ok
      BY <1>0, <3>1 DEF Redis, Fault, Serial
    <3>3. redis[CooldownKey(e)] = Nil
      BY <1>0, <3>1, <3>2, CodeKeys DEF Answer, Unused
    <3>4. Others(r) /\ reqs'[r].pc = "o_code" /\ reqs'[r].email = e
      BY <1>0, <3>1 DEF TypeOK, Session, Others
    <3>5. Addressed(r)' /\ Pending(r)' /\ Mailed(e)'
      BY <1>0, <2>0, <3>3, <3>4 DEF Addressed, Pending, Mailed
    <3> QED BY <1>0, <2>0, <3>4, <3>5, CodeMoves, CodesUnchanged
  <2> QED BY <1>0, <2>1, <2>2
<1>2. CASE SendCode(r)
  <2>1. PICK ok \in BOOLEAN : Redis(ok) /\ SetKey(OtpKey(e), reqs[r].secret, ok)
    BY <1>0, <1>2 DEF SendCode
  <2>2. ok
    BY <1>0, <2>1 DEF Redis, Fault, Serial
  <2>3. Becomes(r, "o_cooldown", e, reqs[r].secret) /\ UNCHANGED <<inbox, unsent>> /\ reqs[r].pc = "o_code"
    BY <1>0, <1>2, GotoSlot DEF SendCode, mail
  <2>4. /\ \A d \in Emails \ {e} : SameCode(d)
        /\ redis'[CooldownKey(e)] = redis[CooldownKey(e)]
        /\ connected => redis'[OtpKey(e)] = reqs[r].secret
    <3>1. OtpKey(e) \in RedisKeys /\ \A d \in Emails \ {e} : OtpKey(e) # OtpKey(d)
      BY <1>0, CodeKeys
    <3>2. connected => redis'[OtpKey(e)] = reqs[r].secret
      BY <1>0, <2>1, <2>2, <3>1, KeyChange
    <3> QED BY <1>0, <2>1, <2>3, <3>1, <3>2, KeyChange, CodeKeys DEF SameCode
  <2>5. redis[CooldownKey(e)] = Nil
    BY <1>0, <2>3 DEF CodeInv, Pending
  <2>6. Addressed(r)' /\ Pending(r)' /\ Mailed(e)'
    BY <1>0, <2>3, <2>4, <2>5 DEF Addressed, Pending, Mailed, Becomes
  <2> QED BY <1>0, <2>3, <2>4, <2>6, CodeMoves DEF Becomes
<1>3. CASE SendCooldown(r)
  <2>1. PICK ok \in BOOLEAN : Redis(ok) /\ SetKey(CooldownKey(e), Sent, ok)
    BY <1>0, <1>3 DEF SendCooldown
  <2>3. Becomes(r, "o_mail", e, reqs[r].secret) /\ UNCHANGED <<inbox, unsent>> /\ reqs[r].pc = "o_cooldown"
    BY <1>0, <1>3, GotoSlot DEF SendCooldown, mail
  <2>4. /\ \A d \in Emails \ {e} : SameCode(d)
        /\ redis'[OtpKey(e)] = redis[OtpKey(e)]
        /\ ~connected => redis' = redis
    BY <1>0, <2>1, <2>3, KeyChange, CodeKeys DEF SameCode, SetKey
  <2>5. redis[CooldownKey(e)] = Nil /\ (connected => redis[OtpKey(e)] = reqs[r].secret)
    BY <1>0, <2>3 DEF CodeInv, Pending
  <2>6. Addressed(r)' /\ Pending(r)' /\ Mailed(e)'
    BY <1>0, <2>3, <2>4, <2>5 DEF Addressed, Pending, Mailed, Becomes
  <2> QED BY <1>0, <2>3, <2>4, <2>6, CodeMoves DEF Becomes
<1>4. CASE SendMail(r)
  <2>1. /\ Becomes(r, "idle", Nil, Nil) /\ UNCHANGED redis /\ reqs[r].pc = "o_mail"
        /\ \/ /\ inbox' = [inbox EXCEPT ![e] = reqs[r].secret]
              /\ unsent' = [unsent EXCEPT ![e] = FALSE]
           \/ inbox' = inbox /\ unsent' = [unsent EXCEPT ![e] = TRUE]
        /\ reqs[r].secret \in Codes
    BY <1>0, <1>4, DoneSlot DEF SendMail, store, TypeOK, CodePcs
  <2>2. /\ inbox'[e] = reqs[r].secret \/ unsent'[e]
        /\ \A d \in Emails \ {e} : inbox'[d] = inbox[d] /\ unsent'[d] = unsent[d]
    BY <1>0, <2>1 DEF TypeOK
  <2>3. \A d \in Emails \ {e} : SameCode(d)
    BY <1>0, <2>1, <2>2 DEF SameCode
  <2>4. redis[CooldownKey(e)] # Nil => redis[OtpKey(e)] = reqs[r].secret
    BY <1>0, <2>1 DEF CodeInv, Pending
  <2>5. Addressed(r)' /\ Pending(r)'
    BY <1>0, <2>1 DEF Addressed, Pending, Becomes, CodePcs
  <2>6. Mailed(e)'
    BY <1>0, <2>1, <2>2, <2>4, AccountsAssumption DEF Mailed
  <2> QED BY <1>0, <2>1, <2>3, <2>5, <2>6, CodeMoves DEF Becomes
<1>5. CASE Delete(r, "v_code", OtpKey(e), Goto(r, "v_cooldown"))
  <2>1. Becomes(r, "v_cooldown", e, reqs[r].secret) /\ UNCHANGED <<inbox, unsent>>
    BY <1>0, <1>5, GotoSlot DEF Delete, mail
  <2>2. \A d \in Emails \ {e} : SameCode(d)
    BY <1>0, <1>5, <2>1, KeyChange, CodeKeys DEF Delete, DeleteKey, SameCode
  <2>3. Addressed(r)' /\ Pending(r)' /\ Mailed(e)'
    BY <1>0, <2>1 DEF Addressed, Pending, Mailed, Becomes
  <2> QED BY <1>0, <2>1, <2>2, <2>3, CodeMoves DEF Becomes
<1>6. CASE Delete(r, "v_cooldown", CooldownKey(e), Goto(r, "v_commit"))
  <2>1. Becomes(r, "v_commit", e, reqs[r].secret) /\ UNCHANGED <<inbox, unsent>>
    BY <1>0, <1>6, GotoSlot DEF Delete, mail
  <2>2. PICK ok \in BOOLEAN : Redis(ok) /\ SetKey(CooldownKey(e), Nil, ok)
    BY <1>0, <1>6 DEF Delete, DeleteKey
  <2>3. ok
    BY <1>0, <2>2 DEF Redis, Fault, Serial
  <2>4. \A d \in Emails \ {e} : SameCode(d)
    BY <1>0, <2>1, <2>2, KeyChange, CodeKeys DEF SameCode
  <2>5. redis'[CooldownKey(e)] = Nil
    BY <1>0, <2>2, <2>3, KeyChange, CodeKeys DEF SetKey, Unused
  <2>6. Addressed(r)' /\ Pending(r)' /\ Mailed(e)'
    BY <1>0, <2>1, <2>5 DEF Addressed, Pending, Mailed, Becomes, CodePcs
  <2> QED BY <1>0, <2>1, <2>4, <2>6, CodeMoves DEF Becomes
<1> QED BY <1>0, <1>1, <1>2, <1>3, <1>4, <1>5, <1>6 DEF VerifyDelete

LEMMA StartQuiet ==
  ASSUME TypeOK, CodeInv, Serial, NEW op, NEW r \in Requests, NEW s, Start(op, r, s),
         s.pc \notin CodePcs, s.pc \in TokenPcs \cup {"u_commit"} \/ s.email \in Emails
  PROVE  CodeInv'
<1>1. /\ reqs[r].pc = "idle" /\ Becomes(r, s.pc, s.email, s.secret)
      /\ UNCHANGED <<redis, connected, inbox, unsent>>
  BY StartSlot
<1>2. Addressed(r)'
  BY <1>1 DEF Addressed, Becomes, TokenPcs, CodePcs
<1> QED BY <1>1, <1>2, CodesStay, CodesUnchanged DEF Becomes

LEMMA CodesKept ==
  ASSUME CodeInv, UNCHANGED <<redis, connected, inbox, unsent, reqs>>
  PROVE  CodeInv'
  BY DEF CodeInv, Addressed, Pending, Mailed

LEMMA CodesExpire ==
  ASSUME TypeOK, CodeInv, UNCHANGED <<inbox, unsent, reqs>>,
         \/ \E e \in Emails : CooldownExpires(e) \/ CodeExpires(e)
         \/ \E t \in Tokens : LinkExpires(t)
  PROVE  CodeInv'
<1>1. ASSUME NEW e \in Emails, CooldownExpires(e)
      PROVE  CodeInv'
  <2>1. /\ UNCHANGED connected
        /\ \A d \in Emails \ {e} : SameCode(d)
        /\ redis'[OtpKey(e)] = redis[OtpKey(e)]
        /\ redis'[CooldownKey(e)] = Nil
    BY <1>1, KeyChange, CodeKeys, AccountsAssumption
    DEF CooldownExpires, KeyExpires, Expire, SameCode, TypeOK, RedisTypeOK
  <2>2. ASSUME NEW r \in Requests
        PROVE  Addressed(r)' /\ Pending(r)'
    BY <2>1 DEF CodeInv, Addressed, Pending, SameCode, CodePcs
  <2>3. ASSUME NEW d \in Emails
        PROVE  Mailed(d)'
    BY <2>1 DEF CodeInv, Mailed, SameCode
  <2> QED BY <2>2, <2>3 DEF CodeInv
<1>2. ASSUME NEW e \in Emails, CodeExpires(e)
      PROVE  CodeInv'
  <2>1. /\ UNCHANGED connected
        /\ \A d \in Emails \ {e} : SameCode(d)
        /\ redis'[CooldownKey(e)] = redis[CooldownKey(e)]
        /\ redis[CooldownKey(e)] = Nil
        /\ \A r \in Requests : ~(reqs[r].pc = "o_cooldown" /\ reqs[r].email = e)
    BY <1>2, KeyChange, CodeKeys DEF CodeExpires, KeyExpires, Expire, SameCode
  <2>2. ASSUME NEW r \in Requests
        PROVE  Addressed(r)' /\ Pending(r)'
    BY <2>1 DEF CodeInv, Addressed, Pending, SameCode, CodePcs
  <2>3. ASSUME NEW d \in Emails
        PROVE  Mailed(d)'
    BY <2>1 DEF CodeInv, Mailed, SameCode
  <2> QED BY <2>2, <2>3 DEF CodeInv
<1>3. ASSUME NEW t \in Tokens, LinkExpires(t)
      PROVE  CodeInv'
  <2>1. UNCHANGED connected /\ \A d \in Emails : SameCode(d)
    BY <1>3, KeyChange, ResetKeysDiffer DEF LinkExpires, KeyExpires, Expire, SameCode
  <2> QED BY <2>1 DEF CodeInv, Addressed, Pending, Mailed, SameCode, CodePcs
<1> QED BY <1>1, <1>2, <1>3

LEMMA CodeInvStep ==
  ASSUME TypeOK, ResetInv, CodeInv, Serial, [Next]_avars
  PROVE  CodeInv'
<1>0. Serial /\ OneEach /\ Unused /\ UNCHANGED connected
  BY StoreStep DEF ResetInv
<1>1. ASSUME NEW r \in Requests, Step(r)
      PROVE  CodeInv'
  BY <1>0, <1>1, CodeQuietStep, TokenKeyStep, SendStep DEF Step
<1>2. ASSUME NEW r \in Requests, Request(r)
      PROVE  CodeInv'
  <2> USE DEF Idle, TokenPcs, CodePcs
  <2>1. ASSUME NEW e \in Emails, NEW n \in Names, NEW p \in Passwords, StartRegister(r, e, n, p)
        PROVE  CodeInv'
    BY <1>0, <2>1, StartQuiet DEF StartRegister
  <2>2. ASSUME NEW e \in Emails, StartResend(r, e)
        PROVE  CodeInv'
    BY <1>0, <2>2, StartQuiet DEF StartResend
  <2>3. ASSUME NEW e \in Emails, NEW c, StartVerify(r, e, c)
        PROVE  CodeInv'
    BY <1>0, <2>3, StartQuiet DEF StartVerify
  <2>4. ASSUME NEW e \in Emails, NEW t \in Tokens, StartForgot(r, e, t)
        PROVE  CodeInv'
    BY <1>0, <2>4, StartQuiet DEF StartForgot
  <2>5. ASSUME NEW e \in Emails, NEW p \in Passwords, StartReset(r, e, p)
        PROVE  CodeInv'
    BY <1>0, <2>5, StartQuiet DEF StartReset
  <2> QED BY <1>2, <2>1, <2>2, <2>3, <2>4, <2>5 DEF Request
<1>3. ASSUME NEW e \in Emails, NEW p \in Passwords, Login(e, p)
      PROVE  CodeInv'
  BY <1>3, CodesKept DEF Login, Tokenless, store, mail
<1>4. ASSUME NEW u \in UserIds, Signed(u)
      PROVE  CodeInv'
  <2>1. ASSUME NEW r \in Requests, NEW p \in Passwords, NEW q \in Passwords, StartUpdate(r, u, p, q)
        PROVE  CodeInv'
    BY <1>0, <2>1, StartQuiet DEF StartUpdate, Idle, CodePcs, TokenPcs
  <2>2. CASE Refresh(u) \/ Logout(u) \/ AccessExpires(u) \/ RemoveUser(u)
    BY <2>2, CodesKept DEF Refresh, Logout, AccessExpires, Tokenless, RemoveUser, store, mail
  <2> QED BY <1>4, <2>1, <2>2 DEF Signed
<1>5. CASE Environment
  <2>1. ~Restart
    BY DEF Restart, Fault, Serial
  <2>2. UNCHANGED <<inbox, unsent, reqs>>
    BY <1>5, <2>1 DEF Environment, CooldownExpires, CodeExpires, LinkExpires, KeyExpires, mail
  <2> QED BY <1>5, <2>1, <2>2, CodesExpire DEF Environment
<1>6. CASE UNCHANGED avars
  BY <1>6, CodesKept DEF avars
<1> QED BY <1>1, <1>2, <1>3, <1>4, <1>5, <1>6 DEF Next

(***************************************************************************)
(* With one request per address at a time and a Redis that answers,        *)
(* whoever is told to wait for the next code has been mailed the one that  *)
(* is stored, unless the mail server has refused it.                       *)
(***************************************************************************)
THEOREM CodeArrives ==
  ASSUME Serial
  PROVE  Spec => []WaitingHasCode
<1>1. Init => CodeInv
  BY CodeKeys DEF Init, RedisInit, CodeInv, Addressed, Pending, Mailed, Idle, CodePcs
<1>2. TypeOK /\ ResetInv /\ CodeInv /\ [Next]_avars => ResetInv' /\ CodeInv'
  BY ResetInvStep, CodeInvStep
<1>3. CodeInv => WaitingHasCode
  BY DEF CodeInv, Mailed, WaitingHasCode, Busy
<1> QED BY <1>1, <1>2, <1>3, ResetInvInit, TypeCorrect, PTL DEF Spec
================================================================================
