---------------------------- MODULE SessionProofs -----------------------------
(* What the abstract session promises, for any number of seconds. *)
EXTENDS Session, TLAPS

(* A dead token stays dead: no step brings back a refresh token that was   *)
(* signed in an earlier second and that is neither current nor about to be *)
(* stored; the account without a token holds none (AuthSession assumes it  *)
(* of the constants).                                                      *)
THEOREM DeadForGood ==
    ASSUME NoToken \notin Tokens
    PROVE  Spec => DeadStaysDead
<1>. DEFINE Dead(t) == t < now /\ t # current /\ t \notin coming
            DeadNext(t) == t # current' /\ t \notin coming'
<1>1. ASSUME Next, NEW t \in Tokens, Dead(t) PROVE DeadNext(t)
  <2>1. CASE Tick
    BY <1>1, <2>1 DEF Tick
  <2>2. CASE Sign
    BY <1>1, <2>2 DEF Sign, Tokens
  <2>3. CASE Store
    BY <1>1, <2>3 DEF Store
  <2>4. CASE Close
    BY <1>1, <2>4 DEF Close
  <2>5. CASE Drop
    BY <1>1, <2>5 DEF Drop
  <2>. QED
    BY <1>1, <2>1, <2>2, <2>3, <2>4, <2>5 DEF Next
<1>2. [Next]_vars => [\A t \in Tokens : Dead(t) => DeadNext(t)]_vars
  BY <1>1
<1>. QED
  BY <1>2, PTL DEF Spec, DeadStaysDead
=============================================================================
