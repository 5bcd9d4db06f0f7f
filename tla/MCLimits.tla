------------------------------ MODULE MCLimits ------------------------------
(* Small instances of LoginAttempt and IpCheck for TLC.  A behaviour is one of  *)
(* either: the two have no variable in common.                                *)
EXTENDS LoginAttempt, IpCheck

VARIABLE model     \* which of the two moves

limitVars == <<vars, ipVars, model>>

LimitsInit == Init /\ IpInit /\ model \in {"login", "address"}

Login(A) == model = "login" /\ A /\ UNCHANGED <<ipVars, model>>
Address(A) == model = "address" /\ A /\ UNCHANGED <<vars, model>>

LimitsNext == Login(Next) \/ Address(IpNext)

LimitsSpec ==
    LimitsInit /\ [][LimitsNext]_limitVars /\ WF_limitVars(Login(Tick) \/ Address(IpTick))

\* Both are well typed: nobody owes more than the long lock, and a counter lives no
\* longer than its window (login-attempt.go, noauthentication.go).
TypesOK == TypeOK /\ IpTypeOK
=============================================================================
