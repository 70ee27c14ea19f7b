--------------------------- MODULE AccountCorrectness ---------------------------
(***************************************************************************)
(* What Accounts promises.                                                 *)
(***************************************************************************)
EXTENDS Accounts

\* No mail address and no name belongs to two accounts: two registrations that
\* both pass the check of register meet the UNIQUE constraints when they commit.
OneAccountEach ==
  \A u, v \in UserIds :
    Exists(u) /\ Exists(v) /\ u # v =>
      users[u].email # users[v].email /\ users[u].name # users[v].name

\* An account is verified only if a code has reached its mail address: nothing
\* verify_otp reads, from a Redis that fails, restarts or is absent, lets a wrong
\* code pass.
VerifiedByMail ==
  \A u \in UserIds : users[u].verified => inbox[users[u].email] # Nil

\* A token in a client's hands that still works names a verified account: login
\* is the only way in, and no other request takes the mark back.
SignedInVerified ==
  \A u \in cookies \cup access : Exists(u) => users[u].verified

\* A request that has loaded an account and commits after its removal (verify_otp,
\* update_password, reset_password) does not bring it back.
NoAccountComesBack ==
  [][\A u \in UserIds : ~Exists(u) /\ Exists(u)' => u > lastUser]_avars

\* Whoever is told to wait (429) has a code that works, unless the mail server has
\* refused the last one (a 500 to the client): while the cooldown of an address is
\* in force and no request for it is under way, the code stored is the one mailed.
\* True of requests that do not overlap; send_otp sets the cooldown before it mails.
WaitingHasCode ==
  \A e \in Emails :
    redis[CooldownKey(e)] # Nil /\ ~Busy(e) /\ ~unsent[e] =>
      redis[OtpKey(e)] = inbox[e] /\ inbox[e] # Nil

\* A reset link changes a password once (reset_password: get, commit, delete).
ResetOnce == \A t \in Tokens : used[t] < 2

\* Someone who keeps asking for codes and entering them gets verified, whatever
\* mails, commits and codes are lost on the way, unless the account is removed.
GetsVerified ==
  \A u \in UserIds : Exists(u) ~> (users[u].verified \/ ~Exists(u))
================================================================================
