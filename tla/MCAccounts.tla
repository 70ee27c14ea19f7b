------------------------------- MODULE MCAccounts -------------------------------
(***************************************************************************)
(* Small instances of Accounts.  Requests, codes and tokens are            *)
(* interchangeable.                                                        *)
(***************************************************************************)
EXTENDS AccountCorrectness, TLC

Keys   == {OtpKey(e) : e \in Emails} \cup {CooldownKey(e) : e \in Emails}
            \cup {ResetKey(t) : t \in Tokens}
Stored == Codes \cup Emails \cup {Sent}

AccountSymmetry == Permutations(Requests)
================================================================================
