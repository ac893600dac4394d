------------------------------- MODULE Session --------------------------------
(***************************************************************************)
(* What src/apps/api promises of the one session an account has, without   *)
(* the requests that make it: at most one refresh token is current, and a  *)
(* token that is neither current nor on its way into the account is dead.  *)
(* A token is known by the second it was signed in: two that are signed    *)
(* for one account in one second are the same string.                      *)
(***************************************************************************)
EXTENDS Integers

CONSTANTS MaxSecond,  \* bound: seconds that pass
          NoToken

VARIABLES
    now,      \* the second
    current,  \* the refresh token whose hash the account holds, or NoToken
    coming    \* tokens signed whose hash is not stored yet

vars == <<now, current, coming>>

Tokens == 1..MaxSecond

Init == now = 1 /\ current = NoToken /\ coming = {}

Tick == now < MaxSecond /\ now' = now + 1 /\ UNCHANGED <<current, coming>>

Sign == coming' = coming \cup {now} /\ UNCHANGED <<now, current>>

(* Another request may have signed the same token in the same second. *)
Store ==
    \E t \in coming :
        /\ current' = t
        /\ coming' \in {coming, coming \ {t}}
        /\ UNCHANGED now

Close == current' = NoToken /\ UNCHANGED <<now, coming>>

(* A request that ends before its token is stored. *)
Drop == \E t \in coming : coming' = coming \ {t} /\ UNCHANGED <<now, current>>

Next == Tick \/ Sign \/ Store \/ Close \/ Drop

Spec == Init /\ [][Next]_vars

-----------------------------------------------------------------------------

(* A dead token of an earlier second is never current again. *)
DeadStaysDead ==
    [][\A t \in Tokens :
         t < now /\ t # current /\ t \notin coming => t # current' /\ t \notin coming']_vars
=============================================================================
