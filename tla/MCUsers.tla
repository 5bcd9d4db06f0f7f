------------------------------- MODULE MCUsers -------------------------------
(* Small instances of PasswordReset and Accounts for TLC.  A behaviour is one   *)
(* of either: the two have no variable in common.                              *)
EXTENDS PasswordReset, Accounts, TLC

VARIABLE model     \* which of the two moves

UsersInit ==
    /\ Init /\ AccountsInit /\ model \in {"reset", "accounts"}
    /\ model = "accounts" => password = [u \in Users |-> NoPassword]

UsersNext ==
    \/ model = "reset" /\ Next /\ UNCHANGED <<accountVars, model>>
    \/ model = "accounts" /\ AccountsNext /\ UNCHANGED <<vars, model>>

UsersSpec == UsersInit /\ [][UsersNext]_<<vars, accountVars, model>>

\* Goroutines, tokens, passwords, numbers and emails are interchangeable.
Symmetric ==
    Permutations(Requests) \cup Permutations(Tokens) \cup Permutations(Passwords)
    \cup Permutations(Callers) \cup Permutations(Numbers) \cup Permutations(Emails)

\* Both are well typed: a request is for somebody, a row is held by the request
\* that is about to commit it (auth/service.go, user/service.go).
TypesOK == TypeOK /\ AccountsTypeOK

\* All requests that write users are transactions as Trx has them: those that write
\* the password and those that write the number and the email (trxmanager.go 23-46).
ImplementsTrx == PasswordTrx /\ AccountTrx
=============================================================================
