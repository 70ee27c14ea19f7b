-------------------------------- MODULE Accounts --------------------------------
(***************************************************************************)
(* Accounts (api/v1/auth.py): registration, verification by a mailed code  *)
(* (app/services/otp_manager.py), login and refresh, change and reset of   *)
(* the password.  As in AppLifecycle every awaited call is a step and      *)
(* requests interleave between any two; a mail goes out inside one step    *)
(* (smtplib blocks the event loop).  OnePerAddress states that clients     *)
(* send one request per mail address at a time; the code does not.         *)
(*                                                                         *)
(* A password and its bcrypt hash are one value, an address is the one     *)
(* register stores (in lower case).  Failures, as there:                   *)
(*   "db"    a commit raises           "mail"  the mail server refuses     *)
(*   "redis" a Redis call fails        "late"  a code or link expires      *)
(*   "crash" the process dies and starts again                             *)
(***************************************************************************)
EXTENDS Naturals, RedisService

CONSTANTS
  MaxUser,        \* bound: user ids are 1..MaxUser
  ReuseIds,       \* TRUE: SQLite, which hands out the largest id + 1 again
  Emails, Names, Passwords,
  Codes,          \* what OTPManager._generate returns
  Tokens,         \* what secrets.token_urlsafe returns
  Requests,       \* slots for requests in flight
  Ops,            \* the operations clients use, a subset of AllOps
  OnePerAddress,
  FaultKinds, MaxFaults

AllOps    == {"register", "verify", "resend", "login", "update", "forgot", "reset", "remove"}
WrongCode == "wrong code"
Sent      == "1"
OtpKey(e)      == <<"otp", e>>
CooldownKey(e) == <<"otp_cooldown", e>>
ResetKey(t)    == <<"pwd_reset", t>>

ASSUME AccountsAssumption ==
  /\ MaxUser \in Nat
  /\ {ReuseIds, OnePerAddress} \subseteq BOOLEAN
  /\ Ops \subseteq AllOps
  /\ RedisKeys = {OtpKey(e) : e \in Emails} \cup {CooldownKey(e) : e \in Emails}
                   \cup {ResetKey(t) : t \in Tokens}
  /\ Codes \cup Emails \cup {Sent} \subseteq RedisValues
  /\ WrongCode \notin Codes
  /\ Nil \notin Codes \cup Emails \cup Names \cup Passwords \cup Tokens
  /\ FaultKinds \subseteq {"db", "mail", "redis", "late", "crash"}
  /\ MaxFaults \in Nat

VARIABLES
  users,     \* users[u]: the committed row, NoUser if there is none
  lastUser,  \* the largest user id ever handed out
  inbox,     \* inbox[e]: the last code mailed to e
  links,     \* links[e]: the token of the last reset link mailed to e
  unsent,    \* observation, unsent[e]: the last mail of a code to e was refused
  cookies,   \* user ids in the refresh tokens clients hold
  access,    \* user ids in the access tokens clients hold
  reqs,      \* the handlers in flight
  faults,
  used       \* observation: how often a token has changed a password (2: more than once)

store == <<redis, connected>>
table == <<users, lastUser>>
mail  == <<inbox, links, unsent>>
jwt   == <<cookies, access>>
avars == <<users, lastUser, redis, connected, inbox, links, unsent, cookies, access, reqs,
           faults, used>>

UserIds == 1..MaxUser
NoUser  == [email |-> Nil, name |-> Nil, password |-> Nil, verified |-> FALSE]
User    == [email : Emails \cup {Nil}, name : Names \cup {Nil},
            password : Passwords \cup {Nil}, verified : BOOLEAN]

Pcs == {"idle", "r_select", "r_insert", "o_get", "o_code", "o_cooldown", "o_mail",
        "e_select", "v_select", "v_get", "v_code", "v_cooldown", "v_commit",
        "u_commit", "f_select", "f_set", "f_mail", "x_get", "x_select", "x_commit", "x_delete"}

CodePcs  == {"o_code", "o_cooldown", "o_mail"}
TokenPcs == {"f_select", "f_set", "f_mail", "x_get", "x_select", "x_commit", "x_delete"}

Idle    == [pc |-> "idle", email |-> Nil, user |-> 0, name |-> Nil, password |-> Nil,
            secret |-> Nil]
Session == [pc : Pcs, email : Emails \cup {Nil}, user : 0..MaxUser, name : Names \cup {Nil},
            password : Passwords \cup {Nil},              \* the one to set
            secret : Codes \cup Tokens \cup {WrongCode, Nil}]   \* to mail, or presented

TypeOK ==
  /\ RedisTypeOK
  /\ users \in [UserIds -> User]
  /\ lastUser \in 0..MaxUser
  /\ inbox \in [Emails -> Codes \cup {Nil}]
  /\ links \in [Emails -> Tokens \cup {Nil}]
  /\ unsent \in [Emails -> BOOLEAN]
  /\ cookies \subseteq UserIds
  /\ access \subseteq UserIds
  /\ reqs \in [Requests -> Session]
  /\ faults \in 0..MaxFaults
  /\ used \in [Tokens -> 0..2]
  /\ \A e \in Emails : redis[OtpKey(e)] \in Codes \cup {Nil}
  /\ \A t \in Tokens : redis[ResetKey(t)] \in Emails \cup {Nil}
  /\ \A r \in Requests :
       /\ reqs[r].pc \in CodePcs => reqs[r].secret \in Codes
       /\ reqs[r].pc \in TokenPcs => reqs[r].secret \in Tokens

Init ==
  /\ RedisInit
  /\ users = [u \in UserIds |-> NoUser]
  /\ lastUser = 0
  /\ inbox = [e \in Emails |-> Nil]
  /\ links = [e \in Emails |-> Nil]
  /\ unsent = [e \in Emails |-> FALSE]
  /\ cookies = {}
  /\ access = {}
  /\ reqs = [r \in Requests |-> Idle]
  /\ faults = 0
  /\ used = [t \in Tokens |-> 0]

--------------------------------------------------------------------------------
(* Vocabulary *)

NoFault     == UNCHANGED faults
Fault(kind) == kind \in FaultKinds /\ faults < MaxFaults /\ faults' = faults + 1
Redis(ok)   == (ok /\ NoFault) \/ (~ok /\ connected /\ Fault("redis"))

Exists(u)     == users[u] # NoUser
Unverified    == {u \in UserIds : ~users[u].verified}
AccountsOf(e) == {u \in UserIds : Exists(u) /\ users[u].email = e}
Taken(e, n)   == \E u \in UserIds : Exists(u) /\ (users[u].email = e \/ users[u].name = n)

Goto(r, pc) == reqs' = [reqs EXCEPT ![r].pc = pc]
Done(r)     == reqs' = [reqs EXCEPT ![r] = Idle]
Busy(e)     == \E r \in Requests : reqs[r].email = e

Start(op, r, session) ==
  /\ op \in Ops
  /\ reqs[r] = Idle
  /\ OnePerAddress => ~Busy(session.email)
  /\ reqs' = [reqs EXCEPT ![r] = session]
  /\ UNCHANGED <<table, store, mail, jwt, faults, used>>

\* select(Users).where(Users.email == ...): the account, if the handler accepts it, or the end
SelectAccount(r, here, next, accepted) ==
  /\ reqs[r].pc = here
  /\ LET found == AccountsOf(reqs[r].email) \cap accepted
     IN  \/ found = {} /\ Done(r)
         \/ \E u \in found : reqs' = [reqs EXCEPT ![r].pc = next, ![r].user = u]
  /\ UNCHANGED <<table, store, mail, jwt, faults, used>>

--------------------------------------------------------------------------------
(* register *)

StartRegister(r, e, n, p) ==
  Start("register", r, [Idle EXCEPT !.pc = "r_select", !.email = e, !.name = n, !.password = p])

\* 409, or the 500 of scalar_one_or_none when two accounts match
RegisterSelect(r) ==
  /\ reqs[r].pc = "r_select"
  /\ IF Taken(reqs[r].email, reqs[r].name) THEN Done(r) ELSE Goto(r, "r_insert")
  /\ UNCHANGED <<table, store, mail, jwt, faults, used>>

NextUser(u) ==
  IF ReuseIds
  THEN (\A v \in UserIds : v >= u => ~Exists(v)) /\ (u = 1 \/ (u - 1 \in UserIds /\ Exists(u - 1)))
  ELSE u = lastUser + 1

\* mutant: the fields of the request swapped
NewRowSwapped(r) == [email |-> reqs[r].name, name |-> reqs[r].email,
                     password |-> reqs[r].password, verified |-> FALSE]

NewRow(r) == [email |-> reqs[r].email, name |-> reqs[r].name,
              password |-> reqs[r].password, verified |-> FALSE]

\* mutant: no UNIQUE on email and username
InsertAnyway(r) ==
  /\ reqs[r].pc = "r_insert"
  /\ \E u \in UserIds :
       /\ NextUser(u)
       /\ users' = [users EXCEPT ![u] = NewRow(r)]
       /\ lastUser' = IF u > lastUser THEN u ELSE lastUser
       /\ reqs' = [reqs EXCEPT ![r].pc = "o_get", ![r].user = u]
  /\ UNCHANGED <<store, mail, jwt, faults, used>>

\* commit (and refresh): email and username are UNIQUE
RegisterInsert(r) ==
  /\ reqs[r].pc = "r_insert"
  /\ ~Taken(reqs[r].email, reqs[r].name)
  /\ \E u \in UserIds :
       /\ NextUser(u)
       /\ users' = [users EXCEPT ![u] = NewRow(r)]
       /\ lastUser' = IF u > lastUser THEN u ELSE lastUser
       /\ reqs' = [reqs EXCEPT ![r].pc = "o_get", ![r].user = u]
  /\ UNCHANGED <<store, mail, jwt, faults, used>>

RegisterFails(r) ==
  /\ reqs[r].pc = "r_insert"
  /\ (Taken(reqs[r].email, reqs[r].name) /\ NoFault) \/ Fault("db")
  /\ Done(r)
  /\ UNCHANGED <<table, store, mail, jwt, used>>

--------------------------------------------------------------------------------
(* OTPManager.send_otp, the end of register and of resend_otp *)

SendCheck(r) ==
  /\ reqs[r].pc = "o_get"
  /\ \E ok \in BOOLEAN :
       /\ Redis(ok)
       /\ IF Answer(CooldownKey(reqs[r].email), ok) # Nil
          THEN Done(r)                                             \* 429
          ELSE \E c \in Codes : reqs' = [reqs EXCEPT ![r].pc = "o_code", ![r].secret = c]
  /\ UNCHANGED <<table, store, mail, jwt, used>>

\* mutant: a code that is still stored is kept (SET ... NX)
SendCodeOnce(r) ==
  /\ reqs[r].pc = "o_code"
  /\ \E ok \in BOOLEAN :
       /\ Redis(ok)
       /\ SetKey(OtpKey(reqs[r].email), reqs[r].secret, ok /\ redis[OtpKey(reqs[r].email)] = Nil)
  /\ Goto(r, "o_cooldown")
  /\ UNCHANGED <<table, mail, jwt, used>>

SendCode(r) ==
  /\ reqs[r].pc = "o_code"
  /\ \E ok \in BOOLEAN : Redis(ok) /\ SetKey(OtpKey(reqs[r].email), reqs[r].secret, ok)
  /\ Goto(r, "o_cooldown")
  /\ UNCHANGED <<table, mail, jwt, used>>

SendCooldown(r) ==
  /\ reqs[r].pc = "o_cooldown"
  /\ \E ok \in BOOLEAN : Redis(ok) /\ SetKey(CooldownKey(reqs[r].email), Sent, ok)
  /\ Goto(r, "o_mail")
  /\ UNCHANGED <<table, mail, jwt, used>>

\* CommunicationBuilder.send: delivered, or a 500
SendMail(r) ==
  /\ reqs[r].pc = "o_mail"
  /\ \/ inbox' = [inbox EXCEPT ![reqs[r].email] = reqs[r].secret]
        /\ unsent' = [unsent EXCEPT ![reqs[r].email] = FALSE]
        /\ NoFault
     \/ UNCHANGED inbox
        /\ unsent' = [unsent EXCEPT ![reqs[r].email] = TRUE]
        /\ Fault("mail")
  /\ Done(r)
  /\ UNCHANGED <<table, store, links, jwt, used>>

StartResend(r, e) == Start("resend", r, [Idle EXCEPT !.pc = "e_select", !.email = e])

ResendSelect(r) == SelectAccount(r, "e_select", "o_get", Unverified)

--------------------------------------------------------------------------------
(* verify_otp: clients present the code they were mailed, or a wrong one *)

StartVerify(r, e, c) ==
  Start("verify", r, [Idle EXCEPT !.pc = "v_select", !.email = e, !.secret = c])

VerifySelect(r) == SelectAccount(r, "v_select", "v_get", Unverified)

\* mutant: without Redis every code is good
VerifyOpen(r) ==
  /\ reqs[r].pc = "v_get"
  /\ \E ok \in BOOLEAN :
       /\ Redis(ok)
       /\ IF Answer(OtpKey(reqs[r].email), ok) \in {reqs[r].secret, Nil}
          THEN Goto(r, "v_code") ELSE Done(r)
  /\ UNCHANGED <<table, store, mail, jwt, used>>

VerifyGet(r) ==
  /\ reqs[r].pc = "v_get"
  /\ \E ok \in BOOLEAN :
       /\ Redis(ok)
       /\ IF Answer(OtpKey(reqs[r].email), ok) = reqs[r].secret THEN Goto(r, "v_code") ELSE Done(r)
  /\ UNCHANGED <<table, store, mail, jwt, used>>

\* mutant: nothing is deleted
KeepKey(r, here, key, next) ==
  /\ reqs[r].pc = here
  /\ next
  /\ UNCHANGED <<table, store, mail, jwt, faults, used>>

\* redis_delete, the code, then the cooldown; and at the end of a reset the token
Delete(r, here, key, next) ==
  /\ reqs[r].pc = here
  /\ \E ok \in BOOLEAN : Redis(ok) /\ DeleteKey(key, ok)
  /\ next
  /\ UNCHANGED <<table, mail, jwt, used>>

\* mutant: the cooldown of a used code stays
VerifyDeletesCode(r) == Delete(r, "v_code", OtpKey(reqs[r].email), Goto(r, "v_commit"))

VerifyDelete(r) ==
  \/ Delete(r, "v_code", OtpKey(reqs[r].email), Goto(r, "v_cooldown"))
  \/ Delete(r, "v_cooldown", CooldownKey(reqs[r].email), Goto(r, "v_commit"))

\* mutant: the row is written whether it is there or not (session.merge)
CommitAnyway(r, here, row, next) ==
  /\ reqs[r].pc = here
  /\ users' = [users EXCEPT ![reqs[r].user] = row]
  /\ next
  /\ UNCHANGED <<lastUser, store, mail, jwt, faults>>

\* UPDATE ... WHERE id: StaleDataError if the row is gone
Commit(r, here, row, next) ==
  /\ reqs[r].pc = here
  /\ Exists(reqs[r].user)
  /\ users' = [users EXCEPT ![reqs[r].user] = row]
  /\ next
  /\ UNCHANGED <<lastUser, store, mail, jwt, faults>>

CommitFails(r) ==
  /\ reqs[r].pc \in {"v_commit", "u_commit", "x_commit"}
  /\ (~Exists(reqs[r].user) /\ NoFault) \/ Fault("db")
  /\ Done(r)
  /\ UNCHANGED <<table, store, mail, jwt, used>>

VerifyCommit(r) ==
  Commit(r, "v_commit", [users[reqs[r].user] EXCEPT !.verified = TRUE], Done(r) /\ UNCHANGED used)

--------------------------------------------------------------------------------
(* login, refresh, logout and update_password; a token names a user id *)

SignIn(u) == cookies' = cookies \cup {u} /\ access' = access \cup {u}

CurrentUser(u) == u \in access /\ Exists(u)

Tokenless == UNCHANGED <<table, store, mail, reqs, faults, used>>

\* mutant: is_verified is not looked at
LoginAnyone(e, p) ==
  /\ "login" \in Ops
  /\ \E u \in AccountsOf(e) :
       /\ users[u].password = p
       /\ SignIn(u)
  /\ Tokenless

Login(e, p) ==
  /\ "login" \in Ops
  /\ \E u \in AccountsOf(e) :
       /\ users[u].password = p
       /\ users[u].verified
       /\ SignIn(u)
  /\ Tokenless

Refresh(u) ==
  /\ u \in cookies
  /\ Exists(u)
  /\ access' = access \cup {u}
  /\ UNCHANGED cookies
  /\ Tokenless

Logout(u)        == cookies' = cookies \ {u} /\ UNCHANGED access /\ Tokenless
AccessExpires(u) == access' = access \ {u} /\ UNCHANGED cookies /\ Tokenless

StartUpdate(r, u, current, new) ==
  /\ CurrentUser(u)
  /\ users[u].password = current
  /\ current # new
  /\ Start("update", r,
       [Idle EXCEPT !.pc = "u_commit", !.email = users[u].email, !.user = u, !.password = new])

NewPassword(r) == [users[reqs[r].user] EXCEPT !.password = reqs[r].password]

UpdateCommit(r) == Commit(r, "u_commit", NewPassword(r), Done(r) /\ UNCHANGED used)

--------------------------------------------------------------------------------
(* forgot_password and reset_password *)

\* token_urlsafe never repeats
Fresh(t) ==
  /\ used[t] = 0
  /\ redis[ResetKey(t)] = Nil
  /\ \A e \in Emails : links[e] # t
  /\ \A r \in Requests : reqs[r].secret # t

StartForgot(r, e, t) ==
  /\ Fresh(t)
  /\ Start("forgot", r, [Idle EXCEPT !.pc = "f_select", !.email = e, !.secret = t])

ForgotSelect(r) == SelectAccount(r, "f_select", "f_set", UserIds)

ForgotSet(r) ==
  /\ reqs[r].pc = "f_set"
  /\ \E ok \in BOOLEAN : Redis(ok) /\ SetKey(ResetKey(reqs[r].secret), reqs[r].email, ok)
  /\ Goto(r, "f_mail")
  /\ UNCHANGED <<table, mail, jwt, used>>

ForgotMail(r) ==
  /\ reqs[r].pc = "f_mail"
  /\ \/ links' = [links EXCEPT ![reqs[r].email] = reqs[r].secret] /\ NoFault
     \/ UNCHANGED links /\ Fault("mail")
  /\ Done(r)
  /\ UNCHANGED <<table, store, inbox, unsent, jwt, used>>

StartReset(r, e, p) ==
  /\ links[e] # Nil
  /\ Start("reset", r,
       [Idle EXCEPT !.pc = "x_get", !.email = e, !.password = p, !.secret = links[e]])

ResetGet(r) ==
  /\ reqs[r].pc = "x_get"
  /\ \E ok \in BOOLEAN :
       /\ Redis(ok)
       /\ LET email == Answer(ResetKey(reqs[r].secret), ok)
          IN  IF email = Nil THEN Done(r)
              ELSE reqs' = [reqs EXCEPT ![r].pc = "x_select", ![r].email = email]
  /\ UNCHANGED <<table, store, mail, jwt, used>>

ResetSelect(r) == SelectAccount(r, "x_select", "x_commit", UserIds)

ResetCommit(r) ==
  Commit(r, "x_commit", NewPassword(r),
    /\ Goto(r, "x_delete")
    /\ used' = [used EXCEPT ![reqs[r].secret] = IF @ < 2 THEN @ + 1 ELSE @])

ResetDelete(r) == Delete(r, "x_delete", ResetKey(reqs[r].secret), Done(r))

--------------------------------------------------------------------------------
(* Around the handlers *)

\* the end of admin_delete_user; keys in Redis and tokens stay
RemoveUser(u) ==
  /\ "remove" \in Ops
  /\ Exists(u)
  /\ users' = [users EXCEPT ![u] = NoUser]
  /\ UNCHANGED <<lastUser, store, mail, jwt, reqs, faults, used>>

KeyExpires(k) == Expire(k) /\ UNCHANGED <<table, mail, jwt, reqs, used>>

CooldownExpires(e) == KeyExpires(CooldownKey(e)) /\ NoFault

\* a code lives ten times as long as the cooldown set after it
CodeExpires(e) ==
  /\ redis[CooldownKey(e)] = Nil
  /\ \A r \in Requests : ~(reqs[r].pc = "o_cooldown" /\ reqs[r].email = e)
  /\ KeyExpires(OtpKey(e)) /\ Fault("late")

LinkExpires(t) == KeyExpires(ResetKey(t)) /\ Fault("late")

Restart ==
  /\ Fault("crash")
  /\ reqs' = [r \in Requests |-> Idle]
  /\ connected' \in BOOLEAN
  /\ InitRedis(connected')
  /\ UNCHANGED <<table, redis, mail, jwt, used>>

Step(r) ==
  \/ RegisterSelect(r) \/ RegisterInsert(r) \/ RegisterFails(r)
  \/ SendCheck(r) \/ SendCode(r) \/ SendCooldown(r) \/ SendMail(r)
  \/ ResendSelect(r)
  \/ VerifySelect(r) \/ VerifyGet(r) \/ VerifyDelete(r) \/ VerifyCommit(r)
  \/ UpdateCommit(r) \/ CommitFails(r)
  \/ ForgotSelect(r) \/ ForgotSet(r) \/ ForgotMail(r)
  \/ ResetGet(r) \/ ResetSelect(r) \/ ResetCommit(r) \/ ResetDelete(r)

Request(r) == \E e \in Emails :
  \/ \E n \in Names, p \in Passwords : StartRegister(r, e, n, p)
  \/ StartResend(r, e)
  \/ \E c \in {inbox[e], WrongCode} \ {Nil} : StartVerify(r, e, c)
  \/ \E t \in Tokens : StartForgot(r, e, t)
  \/ \E p \in Passwords : StartReset(r, e, p)

Signed(u) ==
  \/ Refresh(u)
  \/ Logout(u)
  \/ AccessExpires(u)
  \/ \E r \in Requests, p, q \in Passwords : StartUpdate(r, u, p, q)
  \/ RemoveUser(u)

Environment ==
  \/ \E e \in Emails : CooldownExpires(e) \/ CodeExpires(e)
  \/ \E t \in Tokens : LinkExpires(t)
  \/ Restart

Next ==
  \/ \E r \in Requests : Step(r) \/ Request(r)
  \/ \E e \in Emails, p \in Passwords : Login(e, p)
  \/ \E u \in UserIds : Signed(u)
  \/ Environment

Spec == Init /\ [][Next]_avars

(* Fairness: the event loop runs every handler on; a cooldown ends; someone *)
(* not verified asks for codes and presents them.                           *)
FairSpec ==
  /\ Spec
  /\ \A r \in Requests : WF_avars(Step(r))
  /\ \A e \in Emails :
       /\ WF_avars(CooldownExpires(e))
       /\ SF_avars(\E r \in Requests : StartResend(r, e))
       /\ SF_avars(\E r \in Requests : inbox[e] # Nil /\ StartVerify(r, e, inbox[e]))
================================================================================
