------------------------- MODULE AdministrationProofs --------------------------
(***************************************************************************)
(* The requests of administration keep what the suite MCAdministration     *)
(* checks, for every set of clients, accounts, organisations, dealers,     *)
(* keys, numbers and files and whatever the order in which the providers   *)
(* are made. One part per module: first its types, then the inductive      *)
(* invariant, each with one step per action; the theorems of the whole     *)
(* suite are at the end.                                                   *)
(***************************************************************************)
EXTENDS MCAdministration, Counting

(* What the suite assumes of the constants of the session module, with     *)
(* NoToken and NoSecret set apart from what they stand beside.             *)
LEMMA AuthConstants ==
    /\ MaxSecond \in Nat \ {0} /\ MaxSecret \in Nat
    /\ NoToken \notin 1..MaxSecond /\ NoSecret \notin 1..MaxSecret
BY AdministrationAssumption DEF Auth!AuthAssumption

(* A step of the session module keeps its types. *)
LEMMA AuthStep == ASSUME Auth!TypeOK, [Auth!Next]_authVars PROVE Auth!TypeOK'
<1>a. /\ MaxSecond \in Nat /\ MaxSecret \in Nat
  BY AuthConstants
<1>t. /\ user \in Auth!UserRow /\ \A c \in Clients : request[c] \in Auth!Request
      /\ request \in [Clients -> Auth!Request] /\ now \in Auth!Tokens /\ secrets \in 0..MaxSecret
      /\ told \in [isActive : BOOLEAN, password : Passwords]
  BY DEF Auth!TypeOK
<1>i. Auth!Idle \in Auth!Request
  BY DEF Auth!Request
<1>b. ASSUME NEW c \in Clients, NEW r \in Auth!Request, Auth!Becomes(c, r)
      PROVE  request' \in [Clients -> Auth!Request]
  BY <1>t, <1>b DEF Auth!Becomes
<1>e. ASSUME NEW c \in Clients, Auth!Ends(c) PROVE request' \in [Clients -> Auth!Request]
  BY <1>b, <1>i, <1>e DEF Auth!Ends
<1>k. ASSUME NEW c \in Clients, request[c] # Auth!Idle, NEW pc \in {"handle", "guard"}
      PROVE  [kind |-> request[c].kind, pc |-> pc] \in Auth!Request
  <2>1. request[c].kind \in Auth!AllKinds
    BY <1>t, <1>k DEF Auth!Request, Auth!AllKinds
  <2>. QED
    BY <2>1 DEF Auth!Request
<1>h. ASSUME NEW c \in Clients, UNCHANGED <<now, secrets, told>>, user' \in Auth!UserRow, Auth!Ends(c)
      PROVE  Auth!TypeOK'
  BY <1>h, <1>e, <1>t DEF Auth!TypeOK, Auth!Tokens
<1>g. ASSUME NEW c \in Clients, UNCHANGED <<user, now, secrets, told>>, NEW r \in Auth!Request,
             Auth!Becomes(c, r) PROVE Auth!TypeOK'
  BY <1>g, <1>b, <1>t DEF Auth!TypeOK
<1>1. ASSUME NEW c \in Clients, Auth!Arrive(c) PROVE Auth!TypeOK'
  BY <1>1, <1>g DEF Auth!Arrive, Auth!Request
<1>2. ASSUME NEW c \in Clients, Auth!Validate(c) PROVE Auth!TypeOK'
  <2>1. request[c] # Auth!Idle
    BY <1>2 DEF Auth!Validate, Auth!Idle
  <2>2. [kind |-> request[c].kind, pc |-> "handle"] \in Auth!Request
    BY <2>1, <1>k
  <2>. QED
    BY <1>2, <1>g, <2>2, <1>i DEF Auth!Validate, Auth!Goes, Auth!Ends
<1>3. ASSUME NEW c \in Clients, Auth!Abandon(c) PROVE Auth!TypeOK'
  BY <1>3, <1>g, <1>i DEF Auth!Abandon, Auth!Ends
<1>4. ASSUME NEW c \in Clients, Auth!Login(c) PROVE Auth!TypeOK'
  BY <1>4, <1>g, <1>i DEF Auth!Login, Auth!Goes, Auth!Ends, Auth!At, Auth!Request
<1>5. ASSUME NEW c \in Clients, Auth!Refresh(c) PROVE Auth!TypeOK'
  BY <1>5, <1>g, <1>i DEF Auth!Refresh, Auth!Goes, Auth!Ends, Auth!At, Auth!Request
<1>6. ASSUME NEW c \in Clients, Auth!SignTokens(c) PROVE Auth!TypeOK'
  <2>1. request[c].kind \in {"login", "refresh"}
    BY <1>6, <1>t DEF Auth!SignTokens, Auth!Request, Auth!Idle
  <2>2. [kind |-> request[c].kind, pc |-> "write", token |-> now] \in Auth!Request
    BY <2>1, <1>t DEF Auth!Request
  <2>. QED
    BY <1>6, <1>g, <2>2 DEF Auth!SignTokens
<1>7. ASSUME NEW c \in Clients, Auth!StoreToken(c) PROVE Auth!TypeOK'
  <2>1. request[c].token \in Auth!Tokens
    BY <1>7, <1>t DEF Auth!StoreToken, Auth!Request, Auth!Idle
  <2>. QED
    BY <1>7, <1>h, <1>t, <2>1 DEF Auth!StoreToken, Auth!UserRow
<1>8. ASSUME NEW c \in Clients, Auth!Logout(c) PROVE Auth!TypeOK'
  BY <1>8, <1>h, <1>t DEF Auth!Logout, Auth!UserRow
<1>9. ASSUME NEW c \in Clients, Auth!ForgotPassword(c) PROVE Auth!TypeOK'
  BY <1>9, <1>g DEF Auth!ForgotPassword, Auth!Goes, Auth!At, Auth!Request
<1>10. ASSUME NEW c \in Clients, Auth!StoreResetToken(c) PROVE Auth!TypeOK'
  BY <1>10, <1>h, <1>t DEF Auth!StoreResetToken, Auth!UserRow
<1>11. ASSUME NEW c \in Clients, Auth!ResetPassword(c) PROVE Auth!TypeOK'
  BY <1>11, <1>g, <1>i DEF Auth!ResetPassword, Auth!Goes, Auth!Ends, Auth!At, Auth!Request
<1>12. ASSUME NEW c \in Clients, Auth!StoreResetPassword(c) PROVE Auth!TypeOK'
  BY <1>12, <1>e, <1>t DEF Auth!StoreResetPassword, Auth!UserRow, Auth!TypeOK, Auth!Tokens
<1>13. ASSUME NEW c \in Clients, Auth!ChangePassword(c) PROVE Auth!TypeOK'
  BY <1>13, <1>g, <1>i DEF Auth!ChangePassword, Auth!Goes, Auth!Ends, Auth!At, Auth!Request
<1>14. ASSUME NEW c \in Clients, Auth!StorePassword(c) PROVE Auth!TypeOK'
  BY <1>14, <1>e, <1>t DEF Auth!StorePassword, Auth!UserRow, Auth!TypeOK, Auth!Tokens
<1>15. ASSUME NEW c \in Clients, Auth!Setup2FA(c) PROVE Auth!TypeOK'
  <2>1. secrets + 1 \in Auth!Secrets /\ secrets + 1 \in 0..MaxSecret
    BY <1>15, <1>t, <1>a DEF Auth!Setup2FA, Auth!Secrets
  <2>2. [kind |-> "setup2FA", pc |-> "write", secret |-> secrets + 1] \in Auth!Request
    BY <2>1 DEF Auth!Request
  <2>. QED
    BY <1>15, <1>b, <1>t, <2>1, <2>2 DEF Auth!Setup2FA, Auth!TypeOK
<1>16. ASSUME NEW c \in Clients, Auth!StoreSecret(c) PROVE Auth!TypeOK'
  <2>1. request[c].secret \in Auth!Secrets
    BY <1>16, <1>t DEF Auth!StoreSecret, Auth!At, Auth!Request, Auth!Idle
  <2>. QED
    BY <1>16, <1>h, <1>t, <2>1 DEF Auth!StoreSecret, Auth!UserRow
<1>17. ASSUME NEW c \in Clients, Auth!Enable2FA(c) PROVE Auth!TypeOK'
  BY <1>17, <1>g, <1>i DEF Auth!Enable2FA, Auth!Goes, Auth!Ends, Auth!At, Auth!Request
<1>18. ASSUME NEW c \in Clients, Auth!StoreEnabled(c) PROVE Auth!TypeOK'
  BY <1>18, <1>h, <1>t DEF Auth!StoreEnabled, Auth!UserRow
<1>19. ASSUME NEW c \in Clients, Auth!Disable2FA(c) PROVE Auth!TypeOK'
  BY <1>19, <1>g, <1>i DEF Auth!Disable2FA, Auth!Goes, Auth!Ends, Auth!At, Auth!Request
<1>20. ASSUME NEW c \in Clients, Auth!StoreDisabled(c) PROVE Auth!TypeOK'
  BY <1>20, <1>h, <1>t DEF Auth!StoreDisabled, Auth!UserRow
<1>21. ASSUME NEW c \in Clients, Auth!FindOne(c) PROVE Auth!TypeOK'
  <2>1. Auth!Loaded(user) \in Auth!LoadedRow
    BY <1>t DEF Auth!Loaded, Auth!LoadedRow, Auth!UserRow
  <2>2. [kind |-> "update", pc |-> "write", seen |-> Auth!Loaded(user)] \in Auth!Request
    BY <2>1 DEF Auth!Request
  <2>. QED
    BY <1>21, <1>g, <2>2 DEF Auth!FindOne
<1>22. ASSUME NEW c \in Clients, Auth!SaveUser(c) PROVE Auth!TypeOK'
  <2>1. request[c].seen \in Auth!LoadedRow
    BY <1>22, <1>t DEF Auth!SaveUser, Auth!At, Auth!Request, Auth!Idle
  <2>. QED
    BY <1>22, <1>h, <1>t, <2>1 DEF Auth!SaveUser, Auth!UserRow, Auth!LoadedRow
<1>23. ASSUME NEW c \in Clients, NEW kind, NEW active \in BOOLEAN, Auth!SetActive(c, kind, active)
       PROVE  Auth!TypeOK'
  BY <1>23, <1>e, <1>t DEF Auth!SetActive, Auth!UserRow, Auth!TypeOK, Auth!Tokens
<1>24. CASE Auth!Tick
  BY <1>24, <1>t, <1>a DEF Auth!Tick, Auth!TypeOK, Auth!Tokens
<1>25. CASE Auth!ResetExpires
  BY <1>25, <1>t DEF Auth!ResetExpires, Auth!TypeOK, Auth!UserRow
<1>26. CASE UNCHANGED authVars
  BY <1>26, <1>t DEF authVars, Auth!TypeOK
<1>. QED
  BY <1>1, <1>2, <1>3, <1>4, <1>5, <1>6, <1>7, <1>8, <1>9, <1>10, <1>11, <1>12, <1>13, <1>14, <1>15, <1>16,
     <1>17, <1>18, <1>19, <1>20, <1>21, <1>22, <1>23, <1>24, <1>25, <1>26
  DEF Auth!Next, Auth!Deactivate, Auth!Activate

(* A step of the suite is one of the session module, or leaves it alone. *)
LEMMA AllMovesAuth == [AllNext]_allVars => [Auth!Next]_authVars
BY DEF AllNext, allVars

(* The initial state has them. *)
LEMMA AuthInit == ASSUME Auth!Init PROVE Auth!TypeOK
BY AuthConstants DEF Auth!Init, Auth!TypeOK, Auth!UserRow, Auth!Request, Auth!Tokens

(* Every state has them. *)
LEMMA AuthAlways == AllSpec => []Auth!TypeOK
<1>1. AllInit => Auth!TypeOK
  BY AuthInit DEF AllInit
<1>2. Auth!TypeOK /\ [AllNext]_allVars => Auth!TypeOK'
  BY AuthStep, AllMovesAuth
<1>. QED
  BY <1>1, <1>2, PTL DEF AllSpec

(* The tokens that some login or refresh has signed and not yet stored:    *)
(* what the abstract session calls its coming tokens.                      *)
Coming == {request[c].token : c \in Auth!Writing({"login", "refresh"})}

(* A request that holds such a token. *)
Storing(r) == r.kind \in {"login", "refresh"} /\ r.pc = "write"

(* What a step of the requests may do to the one session of the account,   *)
(* in the terms of the requests: nothing, a tick of the clock, one more    *)
(* signed token, the end of the session, or the end of one request, which  *)
(* stores its token or drops it.                                           *)
SessionMove ==
    \/ now' = now /\ user'.refreshToken = user.refreshToken /\ Coming' = Coming
    \/ /\ now < MaxSecond /\ now' = now + 1
       /\ user'.refreshToken = user.refreshToken /\ Coming' = Coming
    \/ Coming' = Coming \cup {now} /\ now' = now /\ user'.refreshToken = user.refreshToken
    \/ user'.refreshToken = NoToken /\ now' = now /\ Coming' = Coming
    \/ /\ now' = now
       /\ \E t \in Coming :
            \/ Coming' = Coming \ {t} /\ user'.refreshToken = user.refreshToken
            \/ user'.refreshToken = t /\ Coming' \in {Coming, Coming \ {t}}

(* Each of these is a step of the abstract session, or a stutter. *)
LEMMA MoveIsAbstract ==
    SessionMove => [Auth!AbstractSession!Next]_(Auth!AbstractSession!vars)
BY DEF SessionMove, Coming, Auth!AbstractSession!Next, Auth!AbstractSession!vars, Auth!AbstractSession!Tick,
       Auth!AbstractSession!Sign, Auth!AbstractSession!Store, Auth!AbstractSession!Close,
       Auth!AbstractSession!Drop

(* One request moves at a time, so one token comes or goes. When a request *)
(* lets go of its token, another may hold the same one: two sign-ins of    *)
(* the same second sign the same token.                                    *)
LEMMA ComingStep ==
    ASSUME Auth!TypeOK, NEW c \in Clients, NEW r, Auth!Becomes(c, r)
    PROVE  /\ ~Storing(request[c]) /\ ~Storing(r) => Coming' = Coming
           /\ ~Storing(request[c]) /\ Storing(r) => Coming' = Coming \cup {r.token}
           /\ Storing(request[c]) /\ ~Storing(r)
                => /\ request[c].token \in Coming
                   /\ Coming' \in {Coming, Coming \ {request[c].token}}
<1>1. request'[c] = r /\ \A d \in Clients \ {c} : request'[d] = request[d]
  BY DEF Auth!TypeOK, Auth!Becomes
<1>2. \A t : t \in Coming <=> \E d \in Clients : Storing(request[d]) /\ request[d].token = t
  BY DEF Coming, Auth!Writing, Storing
<1>3. \A t : t \in Coming' <=> \E d \in Clients : Storing(request'[d]) /\ request'[d].token = t
  BY DEF Coming, Auth!Writing, Storing
<1>4. ASSUME ~Storing(request[c]), ~Storing(r) PROVE Coming' = Coming
  <2>1. \A t : t \in Coming' <=> t \in Coming
    BY <1>1, <1>2, <1>3, <1>4
  <2>. QED
    BY <2>1 DEF Coming
<1>5. ASSUME ~Storing(request[c]), Storing(r) PROVE Coming' = Coming \cup {r.token}
  <2>1. \A t : t \in Coming' <=> t \in Coming \/ t = r.token
    BY <1>1, <1>2, <1>3, <1>5
  <2>. QED
    BY <2>1 DEF Coming
<1>6. ASSUME Storing(request[c]), ~Storing(r)
      PROVE  request[c].token \in Coming /\ Coming' \in {Coming, Coming \ {request[c].token}}
  <2>1. request[c].token \in Coming
    BY <1>2, <1>6
  <2>2. \A t : t # request[c].token => (t \in Coming' <=> t \in Coming)
    BY <1>1, <1>2, <1>3, <1>6
  <2>3. CASE request[c].token \in Coming'
    <3>1. \A t : t \in Coming' <=> t \in Coming
      BY <2>1, <2>2, <2>3
    <3>. QED
      BY <2>1, <3>1 DEF Coming
  <2>4. CASE request[c].token \notin Coming'
    <3>1. \A t : t \in Coming' <=> t \in Coming \ {request[c].token}
      BY <2>1, <2>2, <2>4
    <3>. QED
      BY <2>1, <3>1 DEF Coming
  <2>. QED
    BY <2>3, <2>4
<1>. QED
  BY <1>4, <1>5, <1>6

(* Every action of the session module is one of those moves. *)
LEMMA SessionStep == ASSUME Auth!TypeOK, [Auth!Next]_authVars PROVE SessionMove
<1>t. user \in Auth!UserRow /\ \A c \in Clients : request[c] \in Auth!Request
  BY DEF Auth!TypeOK
<1>h. ASSUME NEW c \in Clients, now' = now, ~Storing(request[c]), NEW r, ~Storing(r), Auth!Becomes(c, r),
             user'.refreshToken \in {user.refreshToken, NoToken}
      PROVE  SessionMove
  BY <1>h, ComingStep DEF SessionMove
<1>g. ASSUME NEW c \in Clients, UNCHANGED <<now, user>>, Auth!Ends(c) PROVE SessionMove
  <2>1. ~Storing(Auth!Idle)
    BY DEF Auth!Idle, Storing
  <2>. QED
    BY <1>g, <2>1, ComingStep DEF SessionMove, Auth!Ends
<1>i. ~Storing(Auth!Idle)
  BY DEF Auth!Idle, Storing
<1>u. DOMAIN user = {"isActive", "password", "refreshToken", "twoFactorEnabled", "twoFactorSecret", "reset"}
  BY <1>t DEF Auth!UserRow
<1>c. ASSUME NEW c \in Clients, now' = now, ~Storing(request[c]), Auth!Ends(c),
             user'.refreshToken \in {user.refreshToken, NoToken}
      PROVE  SessionMove
  BY <1>c, <1>h, <1>i DEF Auth!Ends
<1>p. ASSUME NEW c \in Clients, UNCHANGED <<now, user>>, ~Storing(request[c]), NEW pc,
             pc = "write" => request[c].kind \notin {"login", "refresh"},
             Auth!Goes(c, pc) \/ Auth!Ends(c)
      PROVE  SessionMove
  <2>1. CASE Auth!Goes(c, pc)
    BY <1>p, <2>1, <1>h DEF Auth!Goes, Storing
  <2>. QED
    BY <1>p, <2>1, <1>c
<1>1. ASSUME NEW c \in Clients, Auth!Arrive(c) PROVE SessionMove
  BY <1>1, <1>h, <1>i DEF Auth!Arrive, Storing, Auth!Idle
<1>2. ASSUME NEW c \in Clients, Auth!Login(c) PROVE SessionMove
  BY <1>2, <1>p DEF Storing, Auth!Login, Auth!At
<1>3. ASSUME NEW c \in Clients, Auth!Refresh(c) PROVE SessionMove
  BY <1>3, <1>p DEF Storing, Auth!Refresh, Auth!At
<1>4. ASSUME NEW c \in Clients, Auth!ForgotPassword(c) PROVE SessionMove
  BY <1>4, <1>p DEF Storing, Auth!ForgotPassword, Auth!At
<1>5. ASSUME NEW c \in Clients, Auth!ResetPassword(c) PROVE SessionMove
  BY <1>5, <1>p DEF Storing, Auth!ResetPassword, Auth!At
<1>6. ASSUME NEW c \in Clients, Auth!ChangePassword(c) PROVE SessionMove
  BY <1>6, <1>p DEF Storing, Auth!ChangePassword, Auth!At
<1>7. ASSUME NEW c \in Clients, Auth!Enable2FA(c) PROVE SessionMove
  BY <1>7, <1>p DEF Storing, Auth!Enable2FA, Auth!At
<1>8. ASSUME NEW c \in Clients, Auth!Disable2FA(c) PROVE SessionMove
  BY <1>8, <1>p DEF Storing, Auth!Disable2FA, Auth!At
<1>9. ASSUME NEW c \in Clients, Auth!Validate(c) PROVE SessionMove
  BY <1>9, <1>p DEF Storing, Auth!Validate
<1>10. ASSUME NEW c \in Clients, Auth!Setup2FA(c) PROVE SessionMove
  BY <1>10, <1>h DEF Auth!Setup2FA, Auth!At, Storing
<1>11. ASSUME NEW c \in Clients, Auth!FindOne(c) PROVE SessionMove
  BY <1>11, <1>h DEF Auth!FindOne, Auth!At, Storing
<1>12. ASSUME NEW c \in Clients, Auth!Logout(c) PROVE SessionMove
  BY <1>12, <1>c, <1>u DEF Auth!Logout, Auth!At, Storing
<1>13. ASSUME NEW c \in Clients, Auth!StoreResetToken(c) PROVE SessionMove
  BY <1>13, <1>c, <1>u DEF Auth!StoreResetToken, Auth!At, Storing
<1>14. ASSUME NEW c \in Clients, Auth!StoreResetPassword(c) PROVE SessionMove
  BY <1>14, <1>c, <1>u DEF Auth!StoreResetPassword, Auth!At, Storing
<1>15. ASSUME NEW c \in Clients, Auth!StorePassword(c) PROVE SessionMove
  BY <1>15, <1>c, <1>u DEF Auth!StorePassword, Auth!At, Storing
<1>16. ASSUME NEW c \in Clients, Auth!StoreSecret(c) PROVE SessionMove
  BY <1>16, <1>c, <1>u DEF Auth!StoreSecret, Auth!At, Storing
<1>17. ASSUME NEW c \in Clients, Auth!StoreEnabled(c) PROVE SessionMove
  BY <1>17, <1>c, <1>u DEF Auth!StoreEnabled, Auth!At, Storing
<1>18. ASSUME NEW c \in Clients, Auth!StoreDisabled(c) PROVE SessionMove
  BY <1>18, <1>c, <1>u DEF Auth!StoreDisabled, Auth!At, Storing
<1>19. ASSUME NEW c \in Clients, Auth!SaveUser(c) PROVE SessionMove
  BY <1>19, <1>c, <1>u DEF Auth!SaveUser, Auth!At, Storing
<1>20. ASSUME NEW c \in Clients, NEW kind, NEW active, Auth!SetActive(c, kind, active) PROVE SessionMove
  BY <1>20, <1>c, <1>u DEF Auth!SetActive, Auth!At, Storing
<1>21. ASSUME NEW c \in Clients, Auth!Abandon(c) PROVE SessionMove
  BY <1>21, <1>g DEF Auth!Abandon
<1>22. ASSUME NEW c \in Clients, Auth!SignTokens(c) PROVE SessionMove
  <2>1. request[c].kind \in {"login", "refresh"} /\ ~Storing(request[c])
    BY <1>22, <1>t DEF Auth!SignTokens, Auth!Request, Auth!Idle, Storing
  <2>2. Storing([kind |-> request[c].kind, pc |-> "write", token |-> now])
    BY <2>1 DEF Storing
  <2>. QED
    BY <1>22, <2>1, <2>2, ComingStep DEF Auth!SignTokens, SessionMove
<1>23. ASSUME NEW c \in Clients, Auth!StoreToken(c) PROVE SessionMove
  <2>1. request[c].token \in Coming /\ Coming' \in {Coming, Coming \ {request[c].token}}
    BY <1>23, <1>i, ComingStep DEF Auth!StoreToken, Auth!Ends, Storing
  <2>2. user'.refreshToken = request[c].token /\ now' = now
    BY <1>23, <1>u DEF Auth!StoreToken
  <2>. QED
    BY <2>1, <2>2 DEF SessionMove
<1>24. CASE Auth!Tick
  BY <1>24 DEF Auth!Tick, SessionMove, Coming, Auth!Writing
<1>25. CASE Auth!ResetExpires
  BY <1>25, <1>u DEF Auth!ResetExpires, SessionMove, Coming, Auth!Writing
<1>26. CASE UNCHANGED authVars
  BY <1>26 DEF authVars, SessionMove, Coming, Auth!Writing
<1>. QED
  BY <1>1, <1>2, <1>3, <1>4, <1>5, <1>6, <1>7, <1>8, <1>9, <1>10, <1>11, <1>12, <1>13, <1>14, <1>15, <1>16,
     <1>17, <1>18, <1>19, <1>20, <1>21, <1>22, <1>23, <1>24, <1>25, <1>26
  DEF Auth!Next, Auth!Deactivate, Auth!Activate

(* Login, refresh, logout, the guard and the administrators' requests, in  *)
(* any interleaving, keep one session of the account: the stored refresh   *)
(* token is one a request signed and held, and no other                    *)
(* (AuthService.login, refreshToken, storeRefreshToken, logout implement   *)
(* Session). By refinement: the initial states are the abstract ones and   *)
(* every step is an abstract step or a stutter.                            *)
THEOREM RequestsKeepTheSession == AllSpec => SessionImplemented
<1>1. AllInit => Auth!AbstractSession!Init
  BY DEF AllInit, Auth!Init, Auth!AbstractSession!Init, Auth!Writing, Auth!Idle
<1>2. Auth!TypeOK /\ [AllNext]_allVars => [Auth!AbstractSession!Next]_(Auth!AbstractSession!vars)
  BY SessionStep, AllMovesAuth, MoveIsAbstract
<1>. QED
  BY <1>1, <1>2, AuthAlways, PTL
  DEF AllSpec, SessionImplemented, Auth!SessionImplemented, Auth!AbstractSession!Spec

(* The theorem about the abstract session, with the variables of the       *)
(* requests for its own.                                                   *)
Dead == INSTANCE SessionProofs WITH
    now <- now, current <- user.refreshToken, coming <- Coming

(* A token that is not the stored one and that no request holds does not   *)
(* come back.                                                              *)
DeadStep ==
    \A t \in 1..MaxSecond :
        t < now /\ t # user.refreshToken /\ t \notin Coming => t # (user.refreshToken)' /\ t \notin Coming'

(* A refresh token that was replaced or logged out is never accepted       *)
(* again. What SessionProofs shows of the abstract session holds of the    *)
(* requests, as they implement it.                                         *)
THEOREM DeadTokensStayDead == AllSpec => Auth!AbstractSession!DeadStaysDead
<1>1. NoToken \notin Dead!Tokens
  BY AuthConstants DEF Dead!Tokens
<1>2. Dead!Spec => Dead!DeadStaysDead
  BY <1>1, Dead!DeadForGood
<1>3. Auth!AbstractSession!Init => Dead!Init
  BY DEF Auth!AbstractSession!Init, Dead!Init, Coming
<1>4. [Auth!AbstractSession!Next]_(Auth!AbstractSession!vars) => [Dead!Next]_(Dead!vars)
  BY DEF Auth!AbstractSession!Next, Auth!AbstractSession!vars, Auth!AbstractSession!Tick,
         Auth!AbstractSession!Sign, Auth!AbstractSession!Store, Auth!AbstractSession!Close,
         Auth!AbstractSession!Drop, Dead!Next, Dead!vars, Dead!Tick, Dead!Sign, Dead!Store, Dead!Close,
         Dead!Drop, Coming
<1>5. [DeadStep]_(Dead!vars) => [DeadStep]_(Auth!AbstractSession!vars)
  BY DEF Dead!vars, Auth!AbstractSession!vars, Coming
<1>6. Dead!DeadStaysDead => [][DeadStep]_(Dead!vars)
  BY PTL DEF Dead!DeadStaysDead, DeadStep, Dead!Tokens
<1>7. [][DeadStep]_(Auth!AbstractSession!vars) => Auth!AbstractSession!DeadStaysDead
  BY PTL DEF Auth!AbstractSession!DeadStaysDead, DeadStep, Auth!AbstractSession!Tokens, Coming
<1>. QED
  BY <1>2, <1>3, <1>4, <1>5, <1>6, <1>7, RequestsKeepTheSession, PTL
  DEF Dead!Spec, Auth!AbstractSession!Spec, SessionImplemented, Auth!SessionImplemented

(* The account goes back on an answer only with the save of a profile that *)
(* was loaded before the account changed.                                  *)
AnswersStep ==
    Auth!Answered /\ ~Auth!Answered'
      => \E c \in Clients : Auth!At(c, "update", "write") /\ request[c].seen # Auth!Loaded(user)

(* Every action of the session module is of this kind. A save of a profile *)
(* that is as it was loaded changes nothing of what was answered.          *)
LEMMA AnswersHere == ASSUME Auth!TypeOK, [Auth!Next]_authVars PROVE [AnswersStep]_authVars
<1>t. user \in Auth!UserRow /\ told \in [isActive : BOOLEAN, password : Passwords]
  BY DEF Auth!TypeOK
<1>u. ASSUME UNCHANGED told, user'.isActive = user.isActive, user'.password = user.password
      PROVE  AnswersStep
  BY <1>u DEF AnswersStep, Auth!Answered
<1>1. ASSUME NEW c \in Clients, Auth!SaveUser(c) PROVE AnswersStep
  <2>1. CASE request[c].seen = Auth!Loaded(user)
    BY <1>1, <2>1, <1>t, <1>u DEF Auth!SaveUser, Auth!UserRow, Auth!Loaded
  <2>. QED
    BY <1>1, <2>1 DEF Auth!SaveUser, AnswersStep
<1>2. ASSUME NEW c \in Clients, Auth!StoreResetPassword(c) \/ Auth!StorePassword(c) PROVE AnswersStep
  BY <1>2, <1>t DEF Auth!StoreResetPassword, Auth!StorePassword, Auth!UserRow, AnswersStep, Auth!Answered
<1>3. ASSUME NEW c \in Clients, NEW kind, NEW active, Auth!SetActive(c, kind, active) PROVE AnswersStep
  BY <1>3, <1>t DEF Auth!SetActive, Auth!UserRow, AnswersStep, Auth!Answered
<1>4. ASSUME NEW c \in Clients, \/ Auth!StoreToken(c) \/ Auth!Logout(c) \/ Auth!StoreResetToken(c)
                                \/ Auth!StoreSecret(c) \/ Auth!StoreEnabled(c) \/ Auth!StoreDisabled(c)
      PROVE  AnswersStep
  BY <1>4, <1>t, <1>u DEF Auth!StoreToken, Auth!Logout, Auth!StoreResetToken, Auth!StoreSecret,
     Auth!StoreEnabled, Auth!StoreDisabled, Auth!UserRow
<1>5. ASSUME Auth!ResetExpires PROVE AnswersStep
  BY <1>5, <1>t, <1>u DEF Auth!ResetExpires, Auth!UserRow
<1>6. ASSUME UNCHANGED <<user, told>> PROVE AnswersStep
  BY <1>6, <1>u
<1>. QED
  BY <1>1, <1>2, <1>3, <1>4, <1>5, <1>6
  DEF Auth!Next, authVars, Auth!Arrive, Auth!Validate, Auth!Abandon, Auth!Login, Auth!Refresh,
      Auth!SignTokens, Auth!ForgotPassword, Auth!ResetPassword, Auth!ChangePassword, Auth!Setup2FA,
      Auth!Enable2FA, Auth!Disable2FA, Auth!FindOne, Auth!Deactivate, Auth!Activate, Auth!Tick

(* What a request answered, a changed password or a deactivated account,   *)
(* is taken back by nothing but UsersService.update saving the entity it   *)
(* loaded before (AuthService, UsersService).                              *)
THEOREM AnswersAlwaysHold == AllSpec => AnswersHold
<1>1. Auth!TypeOK /\ [AllNext]_allVars => [AnswersStep]_authVars
  BY AnswersHere, AllMovesAuth
<1>. QED
  BY <1>1, AuthAlways, PTL DEF AllSpec, AnswersHold, Auth!OnlyStaleProfilesTakeBack, AnswersStep,
     Auth!vars, authVars

(* Two-factor sign-in has its secret, together with what makes this        *)
(* inductive: an enable2FA about to write, and a profile loaded with the   *)
(* flag set, rely on the secret still being there, and disable2FA, the one *)
(* that removes it, runs beside no other request.                          *)
SecretsAreKept ==
    /\ Auth!TwoFactorHasSecret
    /\ \A c \in Clients : Auth!At(c, "enable2FA", "write") => user.twoFactorSecret # NoSecret
    /\ \A c \in Clients : Auth!At(c, "update", "write") /\ request[c].seen.twoFactorEnabled
                            => user.twoFactorSecret # NoSecret
    /\ \A c, d \in Clients : c # d /\ request[c].kind = "disable2FA" => request[d] = Auth!Idle

(* No step of the session module turns the flag on without a secret or     *)
(* removes the secret from under it.                                       *)
LEMMA SecretsStep ==
    ASSUME "disable2FA" \notin AuthTogether, Auth!TypeOK, SecretsAreKept, [Auth!Next]_authVars
    PROVE  SecretsAreKept'
<1>t. /\ user \in Auth!UserRow /\ \A c \in Clients : request[c] \in Auth!Request
      /\ request \in [Clients -> Auth!Request]
  BY DEF Auth!TypeOK
<1>k. \A c, d \in Clients : c # d /\ request[c].kind = "disable2FA" => request[d] = Auth!Idle
  BY DEF SecretsAreKept
<1>b. ASSUME NEW c \in Clients, NEW r, Auth!Becomes(c, r)
      PROVE  request'[c] = r /\ \A d \in Clients \ {c} : request'[d] = request[d]
  BY <1>b, <1>t DEF Auth!Becomes
<1>n. Auth!Idle.kind = "none" /\ Auth!Idle.pc = "idle"
  BY DEF Auth!Idle
<1>h. ASSUME NEW c \in Clients, NEW r, Auth!Becomes(c, r),
             r = Auth!Idle \/ (request[c] # Auth!Idle /\ r.kind = request[c].kind),
             user'.twoFactorSecret = NoSecret => user.twoFactorSecret = NoSecret,
             user'.twoFactorEnabled => user'.twoFactorSecret # NoSecret,
             r.pc = "write" /\ r.kind = "enable2FA" => user'.twoFactorSecret # NoSecret,
             r.pc = "write" /\ r.kind = "update" /\ r.seen.twoFactorEnabled
               => user'.twoFactorSecret # NoSecret
      PROVE  SecretsAreKept'
  <2>b. request'[c] = r /\ \A d \in Clients \ {c} : request'[d] = request[d]
    BY <1>b, <1>h
  <2>1. Auth!TwoFactorHasSecret'
    BY <1>h DEF Auth!TwoFactorHasSecret
  <2>2. ASSUME NEW d \in Clients, Auth!At(d, "enable2FA", "write")' PROVE user'.twoFactorSecret # NoSecret
    BY <1>h, <2>b, <2>2 DEF SecretsAreKept, Auth!At
  <2>3. ASSUME NEW d \in Clients, Auth!At(d, "update", "write")', request'[d].seen.twoFactorEnabled
        PROVE  user'.twoFactorSecret # NoSecret
    BY <1>h, <2>b, <2>3 DEF SecretsAreKept, Auth!At
  <2>4. ASSUME NEW d \in Clients, NEW e \in Clients, d # e, request'[d].kind = "disable2FA"
        PROVE  request'[e] = Auth!Idle
    <3>1. request[d].kind = "disable2FA"
      BY <1>h, <1>n, <2>b, <2>4
    <3>2. request[e] = Auth!Idle
      BY <3>1, <1>k, <2>4
    <3>. QED
      BY <1>h, <2>b, <3>2
  <2>. QED
    BY <2>1, <2>2, <2>3, <2>4 DEF SecretsAreKept
<1>k0. user.twoFactorEnabled => user.twoFactorSecret # NoSecret
  BY DEF SecretsAreKept, Auth!TwoFactorHasSecret
<1>c. ASSUME NEW c \in Clients, Auth!Ends(c),
             user'.twoFactorSecret = NoSecret => user.twoFactorSecret = NoSecret,
             user'.twoFactorEnabled => user'.twoFactorSecret # NoSecret
      PROVE  SecretsAreKept'
  BY <1>c, <1>h, <1>n DEF Auth!Ends
<1>p. ASSUME NEW c \in Clients, user' = user, request[c] # Auth!Idle \/ request[c].kind # "none", NEW pc,
             \/ Auth!Ends(c)
             \/ /\ Auth!Goes(c, pc)
                /\ pc = "write" => request[c].kind # "update"
                /\ pc = "write" /\ request[c].kind = "enable2FA" => user.twoFactorSecret # NoSecret
      PROVE  SecretsAreKept'
  <2>1. CASE Auth!Ends(c)
    BY <1>p, <2>1, <1>c, <1>k0
  <2>2. CASE Auth!Goes(c, pc) /\ ~Auth!Ends(c)
    BY <1>p, <2>2, <1>h, <1>k0, <1>n DEF Auth!Goes
  <2>. QED
    BY <1>p, <2>1, <2>2
<1>1. ASSUME NEW c \in Clients, Auth!Arrive(c) PROVE SecretsAreKept'
  <2>1. PICK kind \in Auth!AllKinds :
            /\ \A d \in Clients \ {c} : request[d] # Auth!Idle
                 => {kind, request[d].kind} \subseteq AuthTogether
            /\ request' = [request EXCEPT ![c] =
                   [kind |-> kind,
                    pc |-> IF kind \in Auth!Public \cup Auth!OfOthers THEN "handle" ELSE "guard"]]
    BY <1>1 DEF Auth!Arrive, Auth!Becomes
  <2>2. request'[c].kind = kind /\ request'[c].pc # "write" /\ \A d \in Clients \ {c} : request'[d] = request[d]
    BY <2>1, <1>t
  <2>3. user' = user
    BY <1>1 DEF Auth!Arrive
  <2>4. ASSUME NEW d \in Clients, NEW e \in Clients, d # e, request'[d].kind = "disable2FA"
        PROVE  request'[e] = Auth!Idle
    BY <2>1, <2>2, <2>4, <1>k, <1>n
  <2>. QED
    BY <2>2, <2>3, <2>4 DEF SecretsAreKept, Auth!TwoFactorHasSecret, Auth!At
<1>2. ASSUME NEW c \in Clients, Auth!Login(c) PROVE SecretsAreKept'
  BY <1>2, <1>p DEF Auth!Login, Auth!At
<1>3. ASSUME NEW c \in Clients, Auth!Refresh(c) PROVE SecretsAreKept'
  BY <1>3, <1>p DEF Auth!Refresh, Auth!At
<1>4. ASSUME NEW c \in Clients, Auth!ForgotPassword(c) PROVE SecretsAreKept'
  BY <1>4, <1>p DEF Auth!ForgotPassword, Auth!At
<1>5. ASSUME NEW c \in Clients, Auth!ResetPassword(c) PROVE SecretsAreKept'
  BY <1>5, <1>p DEF Auth!ResetPassword, Auth!At
<1>6. ASSUME NEW c \in Clients, Auth!ChangePassword(c) PROVE SecretsAreKept'
  BY <1>6, <1>p DEF Auth!ChangePassword, Auth!At
<1>7. ASSUME NEW c \in Clients, Auth!Disable2FA(c) PROVE SecretsAreKept'
  BY <1>7, <1>p DEF Auth!Disable2FA, Auth!At
<1>8. ASSUME NEW c \in Clients, Auth!Enable2FA(c) PROVE SecretsAreKept'
  BY <1>8, <1>p DEF Auth!Enable2FA, Auth!At, Auth!CodeMatches
<1>9. ASSUME NEW c \in Clients, Auth!Validate(c) PROVE SecretsAreKept'
  BY <1>9, <1>p DEF Auth!Validate, Auth!Idle
<1>10. ASSUME NEW c \in Clients, Auth!SignTokens(c) PROVE SecretsAreKept'
  <2>1. request[c].kind \in {"login", "refresh"} /\ request[c] # Auth!Idle
    BY <1>10, <1>t DEF Auth!SignTokens, Auth!Request, Auth!Idle
  <2>. QED
    BY <1>10, <2>1, <1>h, <1>k0 DEF Auth!SignTokens
<1>11. ASSUME NEW c \in Clients, Auth!Setup2FA(c) PROVE SecretsAreKept'
  BY <1>11, <1>h, <1>k0, <1>n DEF Auth!Setup2FA, Auth!At
<1>12. ASSUME NEW c \in Clients, Auth!FindOne(c) PROVE SecretsAreKept'
  <2>1. Auth!Loaded(user).twoFactorEnabled => user.twoFactorSecret # NoSecret
    BY <1>k0 DEF Auth!Loaded
  <2>. QED
    BY <1>12, <2>1, <1>h, <1>k0, <1>n DEF Auth!FindOne, Auth!At
<1>13. ASSUME NEW c \in Clients, Auth!Logout(c) PROVE SecretsAreKept'
  BY <1>13, <1>c, <1>t, <1>k0 DEF Auth!Logout, Auth!UserRow
<1>14. ASSUME NEW c \in Clients, Auth!StoreResetToken(c) PROVE SecretsAreKept'
  BY <1>14, <1>c, <1>t, <1>k0 DEF Auth!StoreResetToken, Auth!UserRow
<1>15. ASSUME NEW c \in Clients, Auth!StoreResetPassword(c) PROVE SecretsAreKept'
  BY <1>15, <1>c, <1>t, <1>k0 DEF Auth!StoreResetPassword, Auth!UserRow
<1>16. ASSUME NEW c \in Clients, Auth!StorePassword(c) PROVE SecretsAreKept'
  BY <1>16, <1>c, <1>t, <1>k0 DEF Auth!StorePassword, Auth!UserRow
<1>17. ASSUME NEW c \in Clients, Auth!StoreToken(c) PROVE SecretsAreKept'
  BY <1>17, <1>c, <1>t, <1>k0 DEF Auth!StoreToken, Auth!UserRow
<1>18. ASSUME NEW c \in Clients, NEW kind, NEW active, Auth!SetActive(c, kind, active) PROVE SecretsAreKept'
  BY <1>18, <1>c, <1>t, <1>k0 DEF Auth!SetActive, Auth!UserRow
<1>19. ASSUME NEW c \in Clients, Auth!StoreSecret(c) PROVE SecretsAreKept'
  <2>1. request[c].secret \in Auth!Secrets /\ NoSecret \notin Auth!Secrets
    BY <1>19, <1>t, AuthConstants DEF Auth!StoreSecret, Auth!At, Auth!Request, Auth!Idle, Auth!Secrets
  <2>. QED
    BY <1>19, <2>1, <1>c, <1>t DEF Auth!StoreSecret, Auth!UserRow
<1>20. ASSUME NEW c \in Clients, Auth!StoreEnabled(c) PROVE SecretsAreKept'
  BY <1>20, <1>c, <1>t DEF SecretsAreKept, Auth!StoreEnabled, Auth!UserRow
<1>21. ASSUME NEW c \in Clients, Auth!SaveUser(c) PROVE SecretsAreKept'
  <2>1. request[c].seen.twoFactorEnabled => user.twoFactorSecret # NoSecret
    BY <1>21 DEF SecretsAreKept, Auth!SaveUser
  <2>. QED
    BY <1>21, <2>1, <1>c, <1>t DEF Auth!SaveUser, Auth!UserRow
<1>22. ASSUME NEW c \in Clients, Auth!StoreDisabled(c) PROVE SecretsAreKept'
  <2>1. \A d \in Clients : request'[d] = Auth!Idle
    BY <1>22, <1>k, <1>b DEF Auth!StoreDisabled, Auth!At, Auth!Ends
  <2>2. ~user'.twoFactorEnabled
    BY <1>22, <1>t DEF Auth!StoreDisabled, Auth!UserRow
  <2>. QED
    BY <2>1, <2>2, <1>n DEF SecretsAreKept, Auth!TwoFactorHasSecret, Auth!At
<1>23. ASSUME NEW c \in Clients, Auth!Abandon(c) PROVE SecretsAreKept'
  BY <1>23, <1>c, <1>k0 DEF Auth!Abandon
<1>24. CASE Auth!Tick
  BY <1>24 DEF Auth!Tick, SecretsAreKept, Auth!At, Auth!TwoFactorHasSecret
<1>25. CASE Auth!ResetExpires
  BY <1>25, <1>t DEF Auth!ResetExpires, SecretsAreKept, Auth!At, Auth!TwoFactorHasSecret, Auth!UserRow
<1>26. CASE UNCHANGED authVars
  BY <1>26 DEF authVars, SecretsAreKept, Auth!At, Auth!TwoFactorHasSecret
<1>. QED
  BY <1>1, <1>2, <1>3, <1>4, <1>5, <1>6, <1>7, <1>8, <1>9, <1>10, <1>11, <1>12, <1>13, <1>14, <1>15, <1>16,
     <1>17, <1>18, <1>19, <1>20, <1>21, <1>22, <1>23, <1>24, <1>25, <1>26
  DEF Auth!Next, Auth!Deactivate, Auth!Activate

(* An account with two-factor sign-in has a secret to check codes against, *)
(* while disable2FA runs alone.                                            *)
LEMMA SecretsAlways ==
    ASSUME "disable2FA" \notin AuthTogether PROVE AllSpec => []Auth!TwoFactorHasSecret
<1>1. AllInit => SecretsAreKept
  BY DEF AllInit, Auth!Init, SecretsAreKept, Auth!TwoFactorHasSecret, Auth!At, Auth!Idle
<1>2. Auth!TypeOK /\ SecretsAreKept /\ [AllNext]_allVars => SecretsAreKept'
  BY SecretsStep, AllMovesAuth
<1>3. SecretsAreKept => Auth!TwoFactorHasSecret
  BY DEF SecretsAreKept
<1>. QED
  BY <1>1, <1>2, <1>3, AuthAlways, PTL DEF AllSpec

(* A step of the suite is one of the accounts module, or leaves it alone. *)
LEMMA AllMovesPortal == [AllNext]_allVars => [Portal!Next]_portalVars
BY DEF AllNext, allVars

(* What the suite assumes of the constants of the accounts module. *)
LEMMA PortalConstants ==
    /\ MaxOrganizations \in Nat /\ MaxPortalFaults \in Nat /\ None \notin Orgs \cup Dealers
    /\ IsFiniteSet(Orgs)
<1>1. MaxOrganizations \in Nat /\ MaxPortalFaults \in Nat /\ None \notin Orgs \cup Dealers
  BY AdministrationAssumption DEF Portal!AccountsAssumption
<1>2. IsFiniteSet(Orgs)
  BY AdministrationAssumption, Zenon DEF Portal!AccountsAssumption, Portal!IsFiniteSet, IsFiniteSet
<1>. QED
  BY <1>1, <1>2

(* A step of the accounts module keeps its types. *)
LEMMA PortalStep == ASSUME Portal!TypeOK, [Portal!Next]_portalVars PROVE Portal!TypeOK'
<1>a. MaxOrganizations \in Nat /\ MaxPortalFaults \in Nat
  BY PortalConstants
<1>t. /\ org \in [Orgs -> Portal!OrgRow] /\ account \in [Users -> Portal!UserRow]
      /\ completed \in BOOLEAN /\ accountRequest \in [Clients -> Portal!Request]
      /\ accountFaults \in 0..MaxPortalFaults
  BY DEF Portal!TypeOK
<1>i. Portal!Idle \in Portal!Request
  BY DEF Portal!Request
<1>o. ASSUME NEW slug \in Slugs, NEW dealer \in Dealers \cup {None}
      PROVE  Portal!NewOrg(slug, dealer) \in Portal!OrgRow
  BY DEF Portal!NewOrg, Portal!OrgRow
<1>b. ASSUME NEW c \in Clients, NEW r \in Portal!Request, Portal!Becomes(c, r)
      PROVE  accountRequest' \in [Clients -> Portal!Request]
  BY <1>t, <1>b DEF Portal!Becomes
<1>e. ASSUME NEW c \in Clients, Portal!Ends(c) PROVE accountRequest' \in [Clients -> Portal!Request]
  BY <1>b, <1>i, <1>e DEF Portal!Ends
<1>g. ASSUME NEW c \in Clients, UNCHANGED <<org, account, completed, accountFaults>>,
             NEW r \in Portal!Request, Portal!Becomes(c, r)
      PROVE  Portal!TypeOK'
  BY <1>g, <1>b, <1>t DEF Portal!TypeOK
<1>1. ASSUME NEW c \in Clients, Portal!Arrive(c) PROVE Portal!TypeOK'
  BY <1>1, <1>g DEF Portal!Arrive, Portal!Request
<1>2. ASSUME NEW c \in Clients, Portal!Abandon(c) PROVE Portal!TypeOK'
  BY <1>2, <1>e, <1>t, <1>a DEF Portal!Abandon, Portal!TypeOK
<1>3. ASSUME NEW c \in Clients, Portal!Refused(c) PROVE Portal!TypeOK'
  BY <1>3, <1>g, <1>i DEF Portal!Refused, Portal!Ends
<1>4. ASSUME NEW c \in Clients, Portal!Conflict(c) PROVE Portal!TypeOK'
  BY <1>4, <1>g, <1>i DEF Portal!Conflict, Portal!Ends
<1>5. ASSUME NEW c \in Clients, Portal!SetupCredentialsFail(c) PROVE Portal!TypeOK'
  BY <1>5, <1>g, <1>i DEF Portal!SetupCredentialsFail, Portal!Ends
<1>6. ASSUME NEW c \in Clients, Portal!CheckSetup(c) PROVE Portal!TypeOK'
  BY <1>6, <1>g, <1>i DEF Portal!CheckSetup, Portal!Ends, Portal!Request
<1>7. ASSUME NEW c \in Clients, Portal!SaveSetupOrg(c) PROVE Portal!TypeOK'
  <2>1. PICK o \in Orgs, slug \in Slugs :
            /\ Portal!InsertOrg(o, Portal!NewOrg(slug, None))
            /\ Portal!Becomes(c, [kind |-> "runSetup", pc |-> "admin", org |-> o])
    BY <1>7 DEF Portal!SaveSetupOrg
  <2>2. org' \in [Orgs -> Portal!OrgRow]
    BY <2>1, <1>t, <1>o DEF Portal!InsertOrg
  <2>3. [kind |-> "runSetup", pc |-> "admin", org |-> o] \in Portal!Request
    BY DEF Portal!Request
  <2>. QED
    BY <1>7, <2>1, <2>2, <2>3, <1>b, <1>t DEF Portal!SaveSetupOrg, Portal!TypeOK
<1>8. ASSUME NEW c \in Clients, Portal!SaveAdmin(c) PROVE Portal!TypeOK'
  <2>1. PICK u \in Users, email \in Emails :
            /\ Portal!InsertUser(u, Portal!NewUser(email, "super_admin", accountRequest[c].org))
            /\ Portal!Becomes(c, [kind |-> "runSetup", pc |-> "owner",
                                  org |-> accountRequest[c].org, admin |-> u])
    BY <1>8 DEF Portal!SaveAdmin
  <2>o. accountRequest[c].org \in Orgs
    BY <1>8, <1>t DEF Portal!SaveAdmin, Portal!At, Portal!Request, Portal!Idle
  <2>2. account' \in [Users -> Portal!UserRow]
    BY <2>1, <2>o, <1>t DEF Portal!InsertUser, Portal!NewUser, Portal!UserRow, Portal!Roles
  <2>3. [kind |-> "runSetup", pc |-> "owner", org |-> accountRequest[c].org, admin |-> u] \in Portal!Request
    BY <2>o DEF Portal!Request
  <2>. QED
    BY <1>8, <2>1, <2>2, <2>3, <1>b, <1>t DEF Portal!SaveAdmin, Portal!TypeOK
<1>9. ASSUME NEW c \in Clients, Portal!UpdateOwner(c) PROVE Portal!TypeOK'
  <2>o. accountRequest[c].admin \in Users
    BY <1>9, <1>t DEF Portal!UpdateOwner, Portal!At, Portal!Request, Portal!Idle
  <2>2. org' \in [Orgs -> Portal!OrgRow]
    BY <1>9, <2>o, <1>t DEF Portal!UpdateOwner, Portal!OrgRow
  <2>3. \A b \in BOOLEAN : Portal!AfterOwner(b) \in Portal!Request
    BY DEF Portal!Request, Portal!AfterOwner
  <2>. QED
    BY <1>9, <2>2, <2>3, <1>b, <1>t DEF Portal!UpdateOwner, Portal!TypeOK
<1>10. ASSUME NEW c \in Clients, Portal!SaveSetupCredentials(c) PROVE Portal!TypeOK'
  <2>1. [accountRequest[c] EXCEPT !.pc = "mark"] \in Portal!Request
    BY <1>10, <1>t DEF Portal!SaveSetupCredentials, Portal!At, Portal!Request, Portal!Idle
  <2>. QED
    BY <1>10, <2>1, <1>g DEF Portal!SaveSetupCredentials
<1>11. ASSUME NEW c \in Clients, Portal!MarkComplete(c) PROVE Portal!TypeOK'
  BY <1>11, <1>e, <1>t DEF Portal!MarkComplete, Portal!TypeOK
<1>12. ASSUME NEW c \in Clients, NEW kind \in {"register", "invite"}, Portal!FindEmail(c, kind)
       PROVE  Portal!TypeOK'
  <2>1. PICK email \in Emails, role \in Portal!Roles, by \in Portal!LiveUsers \cup {None} :
            IF \E u \in Portal!LiveUsers : account[u].email = email
            THEN Portal!Ends(c)
            ELSE Portal!Becomes(c,
                   [kind |-> kind, pc |-> "save",
                    row |-> Portal!NewUser(email, role, IF by = None THEN None ELSE account[by].org)])
    BY <1>12 DEF Portal!FindEmail
  <2>2. Portal!NewUser(email, role, IF by = None THEN None ELSE account[by].org) \in Portal!UserRow
    BY <1>t DEF Portal!NewUser, Portal!UserRow, Portal!LiveUsers
  <2>3. [kind |-> kind, pc |-> "save",
         row |-> Portal!NewUser(email, role, IF by = None THEN None ELSE account[by].org)]
          \in Portal!Request
    BY <2>2 DEF Portal!Request
  <2>. QED
    BY <1>12, <2>1, <2>3, <1>g, <1>i DEF Portal!FindEmail, Portal!Ends
<1>13. ASSUME NEW c \in Clients, Portal!SaveUser(c) PROVE Portal!TypeOK'
  <2>1. accountRequest[c].row \in Portal!UserRow
    BY <1>13, <1>t DEF Portal!SaveUser, Portal!Request, Portal!Idle
  <2>2. account' \in [Users -> Portal!UserRow]
    BY <1>13, <2>1, <1>t DEF Portal!SaveUser, Portal!InsertUser
  <2>. QED
    BY <1>13, <2>2, <1>e, <1>t DEF Portal!SaveUser, Portal!TypeOK
<1>14. ASSUME NEW c \in Clients, Portal!FindDealer(c) PROVE Portal!TypeOK'
  BY <1>14, <1>g, <1>i, <1>a DEF Portal!FindDealer, Portal!Ends, Portal!Request
<1>15. ASSUME NEW c \in Clients, Portal!CountOrganizations(c) PROVE Portal!TypeOK'
  <2>1. accountRequest[c].dealer \in Dealers \cup {None}
    BY <1>15, <1>t DEF Portal!CountOrganizations, Portal!At, Portal!Request, Portal!Idle
  <2>2. [kind |-> "createOrganization", pc |-> "save", dealer |-> accountRequest[c].dealer]
          \in Portal!Request
    BY <2>1 DEF Portal!Request
  <2>. QED
    BY <1>15, <2>2, <1>g, <1>i DEF Portal!CountOrganizations, Portal!Ends
<1>16. ASSUME NEW c \in Clients, Portal!SaveOrganization(c) PROVE Portal!TypeOK'
  <2>1. accountRequest[c].dealer \in Dealers \cup {None}
    BY <1>16, <1>t DEF Portal!SaveOrganization, Portal!At, Portal!Request, Portal!Idle
  <2>2. org' \in [Orgs -> Portal!OrgRow]
    BY <1>16, <2>1, <1>t, <1>o DEF Portal!SaveOrganization, Portal!InsertOrg
  <2>. QED
    BY <1>16, <2>2, <1>e, <1>t DEF Portal!SaveOrganization, Portal!TypeOK
<1>17. ASSUME NEW c \in Clients, Portal!SuspendOrganization(c) PROVE Portal!TypeOK'
  <2>1. org' \in [Orgs -> Portal!OrgRow]
    BY <1>17, <1>t DEF Portal!SuspendOrganization, Portal!LiveOrgs, Portal!LiveUsers, Portal!OrgRow,
        Portal!UserRow
  <2>. QED
    BY <1>17, <2>1, <1>e, <1>t DEF Portal!SuspendOrganization, Portal!TypeOK
<1>18. ASSUME NEW c \in Clients, Portal!ToggleOrganization(c) PROVE Portal!TypeOK'
  <2>1. org' \in [Orgs -> Portal!OrgRow]
    BY <1>18, <1>t DEF Portal!ToggleOrganization, Portal!LiveOrgs, Portal!LiveUsers, Portal!OrgRow,
        Portal!UserRow
  <2>. QED
    BY <1>18, <2>1, <1>e, <1>t DEF Portal!ToggleOrganization, Portal!TypeOK
<1>19. ASSUME NEW c \in Clients, Portal!UpdateOrganization(c) PROVE Portal!TypeOK'
  <2>1. org' \in [Orgs -> Portal!OrgRow]
    BY <1>19, <1>t DEF Portal!UpdateOrganization, Portal!LiveOrgs, Portal!LiveUsers, Portal!OrgRow,
        Portal!UserRow
  <2>. QED
    BY <1>19, <2>1, <1>e, <1>t DEF Portal!UpdateOrganization, Portal!TypeOK
<1>20. CASE UNCHANGED portalVars
  BY <1>20, <1>t DEF portalVars, Portal!TypeOK
<1>. QED
  BY <1>1, <1>2, <1>3, <1>4, <1>5, <1>6, <1>7, <1>8, <1>9, <1>10, <1>11, <1>12, <1>13, <1>14, <1>15, <1>16,
     <1>17, <1>18, <1>19, <1>20
  DEF Portal!Next

(* Every state has them. *)
LEMMA PortalAlwaysTyped == AllSpec => []Portal!TypeOK
<1>1. ASSUME AllInit PROVE Portal!TypeOK
  <2>1. Portal!NoOrg \in Portal!OrgRow /\ Portal!NoUser \in Portal!UserRow
    BY DEF Portal!NoOrg, Portal!OrgRow, Portal!NoUser, Portal!UserRow
  <2>2. Portal!Idle \in Portal!Request /\ 0 \in 0..MaxPortalFaults
    BY PortalConstants DEF Portal!Request
  <2>. QED
    BY <1>1, <2>1, <2>2 DEF AllInit, Portal!Init, Portal!TypeOK
<1>2. Portal!TypeOK /\ [AllNext]_allVars => Portal!TypeOK'
  BY PortalStep, AllMovesPortal
<1>. QED
  BY <1>1, <1>2, PTL DEF AllSpec

(* An administrator whose organisation has them for its owner. *)
Usable == \E u \in Portal!Admins : account[u].org # None /\ org[account[u].org].owner = u

(* A runSetup about to write the owner names an administrator who is       *)
(* there, in the organisation it writes to.                                *)
OwnersComeNext ==
    \A c \in Clients : Portal!At(c, "runSetup", "owner") =>
        /\ accountRequest[c].admin \in Portal!Admins
        /\ account[accountRequest[c].admin].org = accountRequest[c].org
        /\ accountRequest[c].org \in Orgs

(* Setup is over, or all that is left of a runSetup are the credentials    *)
(* and the mark.                                                           *)
SetupIsDone == completed \/ \E c \in Clients : /\ accountRequest[c].kind = "runSetup"
                                             /\ accountRequest[c].pc \in {"credentials", "mark"}

(* The inductive invariant: what completed setup promises holds from the   *)
(* moment the owner is written, before the mark is.                        *)
PortalInv == Portal!OneAccountPerEmail /\ OwnersComeNext /\ (SetupIsDone => Usable)

(* No account changes that was there, and a usable organisation stays so. *)
RowsStay ==
    /\ \A u \in Portal!LiveUsers : u \in Portal!LiveUsers' /\ account'[u] = account[u]
    /\ Usable => Usable'

(* An insert takes an email that no account has, as the database's unique  *)
(* index has it, and leaves the other rows.                                *)
LEMMA UserInserted ==
    ASSUME Portal!TypeOK, Portal!OneAccountPerEmail, NEW u \in Users, NEW row \in Portal!UserRow,
           Portal!InsertUser(u, row), UNCHANGED org
    PROVE  Portal!OneAccountPerEmail' /\ RowsStay /\ account'[u] = row
<1>t. account \in [Users -> Portal!UserRow]
  BY DEF Portal!TypeOK
<1>1. account'[u] = row /\ \A v \in Users \ {u} : account'[v] = account[v]
  BY <1>t DEF Portal!InsertUser
<1>2. u \notin Portal!LiveUsers /\ \A v \in Portal!LiveUsers : account[v].email # row.email
  BY DEF Portal!InsertUser, Portal!LiveUsers, Portal!NoUser
<1>3. \A v \in Portal!LiveUsers : v \in Users \ {u} /\ v \in Portal!LiveUsers' /\ account'[v] = account[v]
  BY <1>1, <1>2 DEF Portal!LiveUsers
<1>4. \A v \in Portal!LiveUsers' : v = u \/ v \in Portal!LiveUsers
  BY <1>1 DEF Portal!LiveUsers
<1>5. Portal!OneAccountPerEmail'
  <2>. SUFFICES ASSUME NEW v \in Portal!LiveUsers', NEW w \in Portal!LiveUsers',
                       account'[v].email = account'[w].email
                PROVE  v = w
    BY DEF Portal!OneAccountPerEmail
  <2>. QED
    BY <1>1, <1>2, <1>3, <1>4 DEF Portal!OneAccountPerEmail
<1>6. Usable => Usable'
  BY <1>3 DEF Usable, Portal!Admins
<1>. QED
  BY <1>1, <1>3, <1>5, <1>6 DEF RowsStay

(* A change of organisations that leaves the owners leaves a usable one    *)
(* usable.                                                                 *)
LEMMA OrgsChange ==
    ASSUME UNCHANGED account, \A o \in Orgs : org'[o].owner = org[o].owner, Portal!TypeOK
    PROVE  RowsStay
<1>1. \A u \in Users : account[u].org \in Orgs \cup {None}
  BY DEF Portal!TypeOK, Portal!UserRow
<1>2. Usable => Usable'
  BY <1>1 DEF Usable, Portal!Admins, Portal!LiveUsers
<1>. QED
  BY <1>2 DEF RowsStay, Portal!LiveUsers

(* A step of the accounts module keeps the invariant. *)
LEMMA PortalInvStep == ASSUME Portal!TypeOK, PortalInv, [Portal!Next]_portalVars PROVE PortalInv'
<1>t. /\ org \in [Orgs -> Portal!OrgRow] /\ account \in [Users -> Portal!UserRow]
      /\ \A c \in Clients : accountRequest[c] \in Portal!Request
      /\ accountRequest \in [Clients -> Portal!Request]
  BY DEF Portal!TypeOK
<1>n. Portal!Idle.kind = "none"
  BY DEF Portal!Idle
<1>s. ASSUME UNCHANGED account, \A o \in Orgs : org'[o].owner = org[o].owner
      PROVE  RowsStay /\ Portal!OneAccountPerEmail'
  BY <1>s, OrgsChange DEF PortalInv, Portal!OneAccountPerEmail, Portal!LiveUsers
<1>h. ASSUME NEW c \in Clients, NEW r, Portal!Becomes(c, r), RowsStay, Portal!OneAccountPerEmail',
             r.kind = "runSetup" /\ r.pc = "owner"
               => /\ r.admin \in Portal!Admins' /\ account'[r.admin].org = r.org /\ r.org \in Orgs,
             (r.kind = "runSetup" /\ r.pc \in {"credentials", "mark"}) \/ (completed' /\ ~completed)
               => SetupIsDone \/ Usable'
      PROVE  PortalInv'
  <2>b. accountRequest'[c] = r /\ \A d \in Clients \ {c} : accountRequest'[d] = accountRequest[d]
    BY <1>h, <1>t DEF Portal!Becomes
  <2>1. OwnersComeNext'
    <3>. SUFFICES ASSUME NEW d \in Clients, accountRequest'[d].kind = "runSetup",
                         accountRequest'[d].pc = "owner"
                  PROVE  /\ accountRequest'[d].admin \in Portal!Admins'
                         /\ account'[accountRequest'[d].admin].org = accountRequest'[d].org
                         /\ accountRequest'[d].org \in Orgs
      BY DEF OwnersComeNext, Portal!At
    <3>1. CASE d = c
      BY <3>1, <2>b, <1>h
    <3>2. CASE d # c
      BY <3>2, <2>b, <1>h DEF PortalInv, OwnersComeNext, Portal!At, RowsStay, Portal!Admins
    <3>. QED
      BY <3>1, <3>2
  <2>2. SetupIsDone' => SetupIsDone \/ Usable'
    <3>. SUFFICES ASSUME SetupIsDone', ~Usable' PROVE SetupIsDone
      OBVIOUS
    <3>1. CASE completed'
      BY <3>1, <1>h DEF SetupIsDone
    <3>2. ASSUME NEW d \in Clients, accountRequest'[d].kind = "runSetup",
                 accountRequest'[d].pc \in {"credentials", "mark"}
          PROVE  SetupIsDone
      BY <3>2, <2>b, <1>h DEF SetupIsDone
    <3>. QED
      BY <3>1, <3>2 DEF SetupIsDone
  <2>3. SetupIsDone' => Usable'
    BY <2>2, <1>h DEF PortalInv, RowsStay
  <2>. QED
    BY <2>1, <2>3, <1>h DEF PortalInv
<1>r. ASSUME NEW c \in Clients, NEW r, Portal!Becomes(c, r), UNCHANGED <<account, completed>>,
             \A o \in Orgs : org'[o].owner = org[o].owner,
             r.kind = "runSetup" => r.pc # "owner" /\ (r.pc \in {"credentials", "mark"} => SetupIsDone)
      PROVE  PortalInv'
  BY <1>r, <1>h, <1>s
<1>e. ASSUME NEW c \in Clients, Portal!Ends(c), UNCHANGED <<account, completed>>,
             \A o \in Orgs : org'[o].owner = org[o].owner
      PROVE  PortalInv'
  BY <1>e, <1>r, <1>n DEF Portal!Ends
<1>o. ASSUME NEW o \in Orgs, NEW slug, NEW dealer, Portal!InsertOrg(o, Portal!NewOrg(slug, dealer))
      PROVE  \A p \in Orgs : org'[p].owner = org[p].owner
  BY <1>o, <1>t DEF Portal!InsertOrg, Portal!NewOrg, Portal!NoOrg
<1>1. ASSUME NEW c \in Clients, Portal!Arrive(c) PROVE PortalInv'
  BY <1>1, <1>r DEF Portal!Arrive
<1>2. ASSUME NEW c \in Clients, Portal!Abandon(c) PROVE PortalInv'
  BY <1>2, <1>e DEF Portal!Abandon
<1>3. ASSUME NEW c \in Clients, Portal!Refused(c) PROVE PortalInv'
  BY <1>3, <1>e DEF Portal!Refused
<1>4. ASSUME NEW c \in Clients, Portal!Conflict(c) PROVE PortalInv'
  BY <1>4, <1>e DEF Portal!Conflict
<1>5. ASSUME NEW c \in Clients, Portal!SetupCredentialsFail(c) PROVE PortalInv'
  BY <1>5, <1>e DEF Portal!SetupCredentialsFail
<1>6. ASSUME NEW c \in Clients, Portal!CheckSetup(c) PROVE PortalInv'
  BY <1>6, <1>r, <1>e DEF Portal!CheckSetup
<1>7. ASSUME NEW c \in Clients, Portal!SaveSetupOrg(c) PROVE PortalInv'
  <2>1. PICK o \in Orgs, slug \in Slugs :
            /\ Portal!InsertOrg(o, Portal!NewOrg(slug, None))
            /\ Portal!Becomes(c, [kind |-> "runSetup", pc |-> "admin", org |-> o])
    BY <1>7 DEF Portal!SaveSetupOrg
  <2>. QED
    BY <1>7, <2>1, <1>o, <1>r DEF Portal!SaveSetupOrg
<1>8. ASSUME NEW c \in Clients, Portal!SaveAdmin(c) PROVE PortalInv'
  <2>1. PICK u \in Users, email \in Emails :
            /\ Portal!InsertUser(u, Portal!NewUser(email, "super_admin", accountRequest[c].org))
            /\ Portal!Becomes(c, [kind |-> "runSetup", pc |-> "owner",
                                  org |-> accountRequest[c].org, admin |-> u])
    BY <1>8 DEF Portal!SaveAdmin
  <2>o. accountRequest[c].org \in Orgs
    BY <1>8, <1>t DEF Portal!SaveAdmin, Portal!At, Portal!Request, Portal!Idle
  <2>2. Portal!NewUser(email, "super_admin", accountRequest[c].org) \in Portal!UserRow
    BY <2>o DEF Portal!NewUser, Portal!UserRow, Portal!Roles
  <2>3. /\ Portal!OneAccountPerEmail' /\ RowsStay /\ UNCHANGED completed
        /\ account'[u] = Portal!NewUser(email, "super_admin", accountRequest[c].org)
    BY <1>8, <2>1, <2>2, UserInserted DEF Portal!SaveAdmin, PortalInv
  <2>4. u \in Portal!Admins' /\ account'[u].org = accountRequest[c].org
    BY <2>3 DEF Portal!Admins, Portal!LiveUsers, Portal!NewUser
  <2>. QED
    BY <2>1, <2>o, <2>3, <2>4, <1>h
<1>9. ASSUME NEW c \in Clients, Portal!UpdateOwner(c) PROVE PortalInv'
  <2>1. /\ accountRequest[c].admin \in Portal!Admins /\ accountRequest[c].org \in Orgs
        /\ account[accountRequest[c].admin].org = accountRequest[c].org
    BY <1>9 DEF Portal!UpdateOwner, PortalInv, OwnersComeNext
  <2>2. /\ UNCHANGED <<account, completed>>
         /\ org' = [org EXCEPT ![accountRequest[c].org].owner = accountRequest[c].admin]
    BY <1>9 DEF Portal!UpdateOwner
  <2>3. org'[accountRequest[c].org].owner = accountRequest[c].admin
    BY <2>1, <2>2, <1>t DEF Portal!OrgRow
  <2>4. Usable'
    BY <2>1, <2>2, <2>3, PortalConstants DEF Usable, Portal!Admins, Portal!LiveUsers
  <2>5. RowsStay /\ Portal!OneAccountPerEmail'
    BY <2>2, <2>4 DEF PortalInv, RowsStay, Portal!OneAccountPerEmail, Portal!LiveUsers
  <2>6. PICK b \in BOOLEAN : Portal!Becomes(c, Portal!AfterOwner(b))
    BY <1>9 DEF Portal!UpdateOwner
  <2>7. Portal!AfterOwner(b).pc # "owner"
    BY DEF Portal!AfterOwner
  <2>. QED
    BY <2>4, <2>5, <2>6, <2>7, <1>h
<1>10. ASSUME NEW c \in Clients, Portal!SaveSetupCredentials(c) PROVE PortalInv'
  <2>1. [accountRequest[c] EXCEPT !.pc = "mark"].pc = "mark" /\ SetupIsDone
    BY <1>10, <1>t DEF Portal!SaveSetupCredentials, Portal!At, Portal!Request, Portal!Idle, SetupIsDone
  <2>. QED
    BY <1>10, <2>1, <1>r DEF Portal!SaveSetupCredentials
<1>11. ASSUME NEW c \in Clients, Portal!MarkComplete(c) PROVE PortalInv'
  <2>1. SetupIsDone
    BY <1>11 DEF Portal!MarkComplete, Portal!At, SetupIsDone
  <2>2. RowsStay /\ Portal!OneAccountPerEmail'
    BY <1>11, <1>s DEF Portal!MarkComplete
  <2>. QED
    BY <1>11, <2>1, <2>2, <1>h, <1>n DEF Portal!MarkComplete, Portal!Ends
<1>12. ASSUME NEW c \in Clients, NEW kind \in {"register", "invite"}, Portal!FindEmail(c, kind)
       PROVE  PortalInv'
  BY <1>12, <1>r, <1>e DEF Portal!FindEmail
<1>13. ASSUME NEW c \in Clients, Portal!SaveUser(c) PROVE PortalInv'
  <2>1. accountRequest[c].row \in Portal!UserRow
    BY <1>13, <1>t DEF Portal!SaveUser, Portal!Request, Portal!Idle
  <2>2. RowsStay /\ Portal!OneAccountPerEmail'
    BY <1>13, <2>1, UserInserted DEF Portal!SaveUser, PortalInv
  <2>. QED
    BY <1>13, <2>2, <1>h, <1>n DEF Portal!SaveUser, Portal!Ends
<1>14. ASSUME NEW c \in Clients, Portal!FindDealer(c) PROVE PortalInv'
  BY <1>14, <1>r, <1>e DEF Portal!FindDealer
<1>15. ASSUME NEW c \in Clients, Portal!CountOrganizations(c) PROVE PortalInv'
  BY <1>15, <1>r, <1>e DEF Portal!CountOrganizations
<1>16. ASSUME NEW c \in Clients, Portal!SaveOrganization(c) PROVE PortalInv'
  BY <1>16, <1>e, <1>o DEF Portal!SaveOrganization
<1>17. ASSUME NEW c \in Clients, Portal!SuspendOrganization(c) PROVE PortalInv'
  <2>1. \A p \in Orgs : org'[p].owner = org[p].owner
    BY <1>17, <1>t DEF Portal!SuspendOrganization, Portal!LiveOrgs, Portal!LiveUsers, Portal!OrgRow,
        Portal!UserRow
  <2>. QED
    BY <1>17, <2>1, <1>e DEF Portal!SuspendOrganization
<1>18. ASSUME NEW c \in Clients, Portal!ToggleOrganization(c) PROVE PortalInv'
  <2>1. \A p \in Orgs : org'[p].owner = org[p].owner
    BY <1>18, <1>t DEF Portal!ToggleOrganization, Portal!LiveOrgs, Portal!LiveUsers, Portal!OrgRow,
        Portal!UserRow
  <2>. QED
    BY <1>18, <2>1, <1>e DEF Portal!ToggleOrganization
<1>19. ASSUME NEW c \in Clients, Portal!UpdateOrganization(c) PROVE PortalInv'
  <2>1. \A p \in Orgs : org'[p].owner = org[p].owner
    BY <1>19, <1>t DEF Portal!UpdateOrganization, Portal!LiveOrgs, Portal!LiveUsers, Portal!OrgRow,
        Portal!UserRow
  <2>. QED
    BY <1>19, <2>1, <1>e DEF Portal!UpdateOrganization
<1>20. CASE UNCHANGED portalVars
  BY <1>20 DEF portalVars, PortalInv, Portal!OneAccountPerEmail, OwnersComeNext, SetupIsDone, Usable,
     Portal!Admins, Portal!LiveUsers, Portal!At
<1>. QED
  BY <1>1, <1>2, <1>3, <1>4, <1>5, <1>6, <1>7, <1>8, <1>9, <1>10, <1>11, <1>12, <1>13, <1>14, <1>15, <1>16,
     <1>17, <1>18, <1>19, <1>20
  DEF Portal!Next

(* The organisations a dealer has. *)
Owned(d) == {o \in Portal!LiveOrgs : org[o].dealer = d}

(* The quota, with what makes it inductive: what a createOrganization      *)
(* counted is still true when it inserts, because no other one is under    *)
(* way.                                                                    *)
QuotaInv ==
    /\ \A d \in Dealers : Cardinality(Owned(d)) <= MaxOrganizations
    /\ \A c \in Clients : Portal!At(c, "createOrganization", "count")
         => accountRequest[c].max = MaxOrganizations
    /\ \A c \in Clients : Portal!At(c, "createOrganization", "save") =>
         \/ accountRequest[c].dealer = None
         \/ Cardinality(Owned(accountRequest[c].dealer)) < MaxOrganizations
    /\ \A c, d \in Clients : accountRequest[c].kind = "createOrganization" /\ c # d
                             => accountRequest[d].kind # "createOrganization"

(* It implies the quota. *)
LEMMA QuotaIsHeld == QuotaInv => Portal!QuotaHolds
BY Zenon DEF QuotaInv, Portal!QuotaHolds, Owned, Portal!Cardinality, Cardinality, Portal!IsFiniteSet,
    IsFiniteSet

(* Whatever leaves state and dealer of the organisations leaves what each  *)
(* dealer has.                                                             *)
LEMMA OwnedKept ==
    ASSUME NEW d, \A o \in Orgs : (org'[o].state = "live" /\ org'[o].dealer = d)
                                   <=> (org[o].state = "live" /\ org[o].dealer = d)
    PROVE  Owned(d)' = Owned(d)
BY DEF Owned, Portal!LiveOrgs

(* An insert gives its dealer one organisation at most. *)
LEMMA OrgInserted ==
    ASSUME Portal!TypeOK, NEW o \in Orgs, NEW slug, NEW dealer,
           Portal!InsertOrg(o, Portal!NewOrg(slug, dealer)),
           NEW d
    PROVE  /\ d # dealer => Owned(d)' = Owned(d)
           /\ Cardinality(Owned(d)') <= Cardinality(Owned(d)) + 1
<1>1. /\ org'[o] = Portal!NewOrg(slug, dealer) /\ org[o] = Portal!NoOrg
      /\ \A p \in Orgs \ {o} : org'[p] = org[p]
  BY DEF Portal!TypeOK, Portal!InsertOrg
<1>2. ASSUME d # dealer PROVE Owned(d)' = Owned(d)
  BY <1>1, <1>2, OwnedKept DEF Portal!NewOrg, Portal!NoOrg
<1>3. Owned(d)' \subseteq Owned(d) \cup {o}
  BY <1>1 DEF Owned, Portal!LiveOrgs
<1>4. IsFiniteSet(Owned(d))
  BY PortalConstants, FS_Subset DEF Owned, Portal!LiveOrgs
<1>5. /\ IsFiniteSet(Owned(d) \cup {o})
      /\ Cardinality(Owned(d) \cup {o})
           = IF o \in Owned(d) THEN Cardinality(Owned(d)) ELSE Cardinality(Owned(d)) + 1
  BY <1>4, FS_AddElement
<1>6. Cardinality(Owned(d)') <= Cardinality(Owned(d) \cup {o})
  BY <1>3, <1>5, FS_Subset
<1>7. Cardinality(Owned(d)) \in Nat /\ Cardinality(Owned(d)') \in Nat
  BY <1>3, <1>4, <1>5, FS_Subset, FS_CardinalityType
<1>8. Cardinality(Owned(d)') <= Cardinality(Owned(d)) + 1
  BY <1>5, <1>6, <1>7
<1>. QED
  BY <1>2, <1>8

(* A step of the accounts module keeps the quota while one                 *)
(* createOrganization at a time runs.                                      *)
LEMMA QuotaStep ==
    ASSUME "createOrganization" \notin PortalTogether, Portal!TypeOK, QuotaInv, [Portal!Next]_portalVars
    PROVE  QuotaInv'
<1>t. /\ org \in [Orgs -> Portal!OrgRow] /\ account \in [Users -> Portal!UserRow]
      /\ \A c \in Clients : accountRequest[c] \in Portal!Request
      /\ accountRequest \in [Clients -> Portal!Request]
  BY DEF Portal!TypeOK
<1>n. Portal!Idle.kind = "none" /\ Portal!Idle.pc = "idle"
  BY DEF Portal!Idle
<1>b. ASSUME NEW c \in Clients, NEW r, Portal!Becomes(c, r)
      PROVE  accountRequest'[c] = r /\ \A d \in Clients \ {c} : accountRequest'[d] = accountRequest[d]
  BY <1>b, <1>t DEF Portal!Becomes
<1>o. ASSUME UNCHANGED org, NEW d PROVE Owned(d)' = Owned(d)
  BY <1>o, OwnedKept
<1>h. ASSUME NEW c \in Clients, NEW r, Portal!Becomes(c, r), r.kind \in {accountRequest[c].kind, "none"},
             \A d : d # None => Owned(d)' = Owned(d),
             r.kind = "createOrganization" /\ r.pc = "count" => r.max = MaxOrganizations,
             r.kind = "createOrganization" /\ r.pc = "save"
               => r.dealer = None \/ Cardinality(Owned(r.dealer)) < MaxOrganizations
      PROVE  QuotaInv'
  <2>b. accountRequest'[c] = r /\ \A d \in Clients \ {c} : accountRequest'[d] = accountRequest[d]
    BY <1>b, <1>h
  <2>1. ASSUME NEW d \in Dealers PROVE Cardinality(Owned(d)') <= MaxOrganizations
    BY <1>h, PortalConstants DEF QuotaInv
  <2>2. ASSUME NEW e \in Clients, accountRequest'[e].kind = "createOrganization",
               accountRequest'[e].pc = "count"
        PROVE  accountRequest'[e].max = MaxOrganizations
    BY <2>2, <2>b, <1>h DEF QuotaInv, Portal!At
  <2>3. ASSUME NEW e \in Clients, accountRequest'[e].kind = "createOrganization",
               accountRequest'[e].pc = "save",
               NEW d, d = accountRequest'[e].dealer, d # None
        PROVE  Cardinality(Owned(d)') < MaxOrganizations
    <3>1. Cardinality(Owned(d)) < MaxOrganizations
      <4>1. CASE e = c
        BY <4>1, <2>3, <2>b, <1>h
      <4>2. CASE e # c
        BY <4>2, <2>3, <2>b DEF QuotaInv, Portal!At
      <4>. QED
        BY <4>1, <4>2
    <3>2. Owned(d)' = Owned(d)
      BY <2>3, <1>h
    <3>. QED
      BY <3>1, <3>2, Zenon
  <2>4. ASSUME NEW e \in Clients, NEW f \in Clients, accountRequest'[e].kind = "createOrganization", e # f
        PROVE  accountRequest'[f].kind # "createOrganization"
    BY <2>4, <2>b, <1>h DEF QuotaInv
  <2>. QED
    BY <2>1, <2>2, <2>3, <2>4, Zenon DEF QuotaInv, Portal!At
<1>e. ASSUME NEW c \in Clients, Portal!Ends(c), UNCHANGED org PROVE QuotaInv'
  BY <1>e, <1>h, <1>n, <1>o DEF Portal!Ends
<1>f. ASSUME NEW c \in Clients, Portal!Ends(c), \A d : Owned(d)' = Owned(d) PROVE QuotaInv'
  BY <1>f, <1>h, <1>n DEF Portal!Ends
<1>r. ASSUME NEW c \in Clients, NEW r, Portal!Becomes(c, r), r.kind = accountRequest[c].kind,
             r.kind # "createOrganization", UNCHANGED org
      PROVE  QuotaInv'
  BY <1>r, <1>h, <1>o
<1>1. ASSUME NEW c \in Clients, Portal!Arrive(c) PROVE QuotaInv'
  <2>1. PICK kind \in Portal!AllKinds :
            /\ \A d \in Clients \ {c} : accountRequest[d] # Portal!Idle
                 => {kind, accountRequest[d].kind} \subseteq PortalTogether
            /\ Portal!Becomes(c, [kind |-> kind, pc |-> "start"])
    BY <1>1 DEF Portal!Arrive
  <2>2. /\ accountRequest'[c] = [kind |-> kind, pc |-> "start"]
        /\ \A d \in Clients \ {c} : accountRequest'[d] = accountRequest[d]
    BY <2>1, <1>b
  <2>3. ASSUME NEW d PROVE Owned(d)' = Owned(d)
    BY <1>1, <1>o DEF Portal!Arrive
  <2>4. ASSUME NEW e \in Clients, NEW f \in Clients, accountRequest'[e].kind = "createOrganization", e # f
        PROVE  accountRequest'[f].kind # "createOrganization"
    BY <2>1, <2>2, <2>4, <1>n DEF QuotaInv
  <2>5. ASSUME NEW e \in Clients, accountRequest'[e].pc \in {"count", "save"}
        PROVE  accountRequest'[e] = accountRequest[e]
    BY <2>2, <2>5
  <2>6. ASSUME NEW e \in Clients, accountRequest'[e].kind = "createOrganization",
               accountRequest'[e].pc = "save"
        PROVE  \/ accountRequest'[e].dealer = None
               \/ Cardinality(Owned(accountRequest[e].dealer)) < MaxOrganizations
    BY <2>5, <2>6 DEF QuotaInv, Portal!At
  <2>7. ASSUME NEW e \in Clients, accountRequest'[e].kind = "createOrganization",
               accountRequest'[e].pc = "save",
               NEW d, d = accountRequest'[e].dealer, d # None
        PROVE  Cardinality(Owned(d)') < MaxOrganizations
    BY <2>3, <2>5, <2>6, <2>7
  <2>8. \A d \in Dealers : Cardinality(Owned(d)') <= MaxOrganizations
    BY <2>3 DEF QuotaInv
  <2>9. ASSUME NEW e \in Clients, accountRequest'[e].kind = "createOrganization",
               accountRequest'[e].pc = "count"
        PROVE  accountRequest'[e].max = MaxOrganizations
    BY <2>5, <2>9 DEF QuotaInv, Portal!At
  <2>. QED
    BY <2>4, <2>7, <2>8, <2>9, Zenon DEF QuotaInv, Portal!At
<1>2. ASSUME NEW c \in Clients, Portal!Abandon(c) PROVE QuotaInv'
  BY <1>2, <1>e DEF Portal!Abandon
<1>3. ASSUME NEW c \in Clients, Portal!Refused(c) PROVE QuotaInv'
  BY <1>3, <1>e DEF Portal!Refused
<1>4. ASSUME NEW c \in Clients, Portal!Conflict(c) PROVE QuotaInv'
  BY <1>4, <1>e DEF Portal!Conflict
<1>5. ASSUME NEW c \in Clients, Portal!SetupCredentialsFail(c) PROVE QuotaInv'
  BY <1>5, <1>e DEF Portal!SetupCredentialsFail
<1>6. ASSUME NEW c \in Clients, Portal!MarkComplete(c) PROVE QuotaInv'
  BY <1>6, <1>e DEF Portal!MarkComplete
<1>7. ASSUME NEW c \in Clients, Portal!SaveUser(c) PROVE QuotaInv'
  BY <1>7, <1>e DEF Portal!SaveUser
<1>8. ASSUME NEW c \in Clients, Portal!CheckSetup(c) PROVE QuotaInv'
  BY <1>8, <1>r, <1>e DEF Portal!CheckSetup, Portal!At
<1>9. ASSUME NEW c \in Clients, Portal!SaveSetupOrg(c) PROVE QuotaInv'
  <2>1. PICK o \in Orgs, slug \in Slugs :
            /\ Portal!InsertOrg(o, Portal!NewOrg(slug, None))
            /\ Portal!Becomes(c, [kind |-> "runSetup", pc |-> "admin", org |-> o])
    BY <1>9 DEF Portal!SaveSetupOrg
  <2>2. ASSUME NEW d, d # None PROVE Owned(d)' = Owned(d)
    BY <2>1, <2>2, OrgInserted
  <2>. QED
    BY <1>9, <2>1, <2>2, <1>h DEF Portal!SaveSetupOrg, Portal!At
<1>10. ASSUME NEW c \in Clients, Portal!SaveAdmin(c) PROVE QuotaInv'
  BY <1>10, <1>r DEF Portal!SaveAdmin, Portal!At
<1>11. ASSUME NEW c \in Clients, Portal!UpdateOwner(c) PROVE QuotaInv'
  <2>1. ASSUME NEW d PROVE Owned(d)' = Owned(d)
    BY <1>11, <1>t, OwnedKept DEF Portal!UpdateOwner, Portal!OrgRow
  <2>2. PICK b \in BOOLEAN : Portal!Becomes(c, Portal!AfterOwner(b))
    BY <1>11 DEF Portal!UpdateOwner
  <2>3. Portal!AfterOwner(b).kind = "runSetup" /\ accountRequest[c].kind = "runSetup"
    BY <1>11 DEF Portal!AfterOwner, Portal!UpdateOwner, Portal!At
  <2>. QED
    BY <2>1, <2>2, <2>3, <1>h
<1>12. ASSUME NEW c \in Clients, Portal!SaveSetupCredentials(c) PROVE QuotaInv'
  <2>1. [accountRequest[c] EXCEPT !.pc = "mark"].kind = "runSetup" /\ accountRequest[c].kind = "runSetup"
    BY <1>12, <1>t DEF Portal!SaveSetupCredentials, Portal!At, Portal!Request, Portal!Idle
  <2>. QED
    BY <1>12, <2>1, <1>r DEF Portal!SaveSetupCredentials
<1>13. ASSUME NEW c \in Clients, NEW kind \in {"register", "invite"}, Portal!FindEmail(c, kind)
       PROVE  QuotaInv'
  BY <1>13, <1>r, <1>e DEF Portal!FindEmail, Portal!At
<1>14. ASSUME NEW c \in Clients, Portal!FindDealer(c) PROVE QuotaInv'
  BY <1>14, <1>h, <1>e, <1>o DEF Portal!FindDealer, Portal!At
<1>15. ASSUME NEW c \in Clients, Portal!CountOrganizations(c) PROVE QuotaInv'
  <2>d. accountRequest[c].dealer \in Dealers \cup {None}
    BY <1>15, <1>t DEF Portal!CountOrganizations, Portal!At, Portal!Request, Portal!Idle
  <2>n. Cardinality(Owned(accountRequest[c].dealer)) \in Nat
    BY PortalConstants, FS_Subset, FS_CardinalityType DEF Owned, Portal!LiveOrgs
  <2>m. accountRequest[c].max = MaxOrganizations /\ accountRequest[c].kind = "createOrganization"
    BY <1>15 DEF Portal!CountOrganizations, QuotaInv, Portal!At
  <2>c. ASSUME accountRequest[c].dealer # None
        PROVE  {o \in Portal!LiveOrgs : Portal!Matches(accountRequest[c].dealer, o)}
                 = Owned(accountRequest[c].dealer)
    BY <2>c DEF Portal!Matches, Owned
  <2>k. \A S : Portal!Cardinality(S) = Cardinality(S)
    BY Zenon DEF Portal!Cardinality, Cardinality, Portal!IsFiniteSet, IsFiniteSet
  <2>1. CASE Portal!Ends(c)
    BY <1>15, <2>1, <1>e DEF Portal!CountOrganizations
  <2>2. CASE ~Portal!Ends(c)
    <3>1. /\ Portal!Becomes(c, [kind |-> "createOrganization", pc |-> "save",
                                dealer |-> accountRequest[c].dealer])
          /\ ~(Cardinality({o \in Portal!LiveOrgs : Portal!Matches(accountRequest[c].dealer, o)})
                 >= accountRequest[c].max)
          /\ UNCHANGED org
      BY <1>15, <2>2, <2>k DEF Portal!CountOrganizations
    <3>2. accountRequest[c].dealer = None \/ Cardinality(Owned(accountRequest[c].dealer)) < MaxOrganizations
      BY <3>1, <2>c, <2>m, <2>n, PortalConstants
    <3>. QED
      BY <3>1, <3>2, <2>m, <1>h, <1>o
  <2>. QED
    BY <2>1, <2>2
<1>16. ASSUME NEW c \in Clients, Portal!SaveOrganization(c) PROVE QuotaInv'
  <2>1. PICK o \in Orgs, slug \in Slugs : Portal!InsertOrg(o, Portal!NewOrg(slug, accountRequest[c].dealer))
    BY <1>16 DEF Portal!SaveOrganization
  <2>2. ASSUME NEW d PROVE /\ d # accountRequest[c].dealer => Owned(d)' = Owned(d)
                          /\ Cardinality(Owned(d)') <= Cardinality(Owned(d)) + 1
    BY <2>1, OrgInserted
  <2>3. /\ accountRequest'[c] = Portal!Idle /\ \A d \in Clients \ {c} : accountRequest'[d] = accountRequest[d]
        /\ accountRequest[c].kind = "createOrganization" /\ accountRequest[c].pc = "save"
    BY <1>16, <1>b DEF Portal!SaveOrganization, Portal!Ends, Portal!At
  <2>4. \A e \in Clients : accountRequest'[e].kind # "createOrganization"
    BY <2>3, <1>n DEF QuotaInv
  <2>5. ASSUME NEW d \in Dealers PROVE Cardinality(Owned(d)') <= MaxOrganizations
    <3>1. Cardinality(Owned(d)') \in Nat /\ Cardinality(Owned(d)) \in Nat
      BY PortalConstants, FS_Subset, FS_CardinalityType DEF Owned, Portal!LiveOrgs
    <3>2. CASE d = accountRequest[c].dealer
      BY <3>1, <3>2, <2>2, <2>3, PortalConstants DEF QuotaInv, Portal!At
    <3>3. CASE d # accountRequest[c].dealer
      BY <3>3, <2>2 DEF QuotaInv
    <3>. QED
      BY <3>2, <3>3
  <2>. QED
    BY <2>4, <2>5, Zenon DEF QuotaInv, Portal!At
<1>17. ASSUME NEW c \in Clients, Portal!SuspendOrganization(c) PROVE QuotaInv'
  <2>1. \A o \in Orgs : org'[o].state = org[o].state /\ org'[o].dealer = org[o].dealer
    BY <1>17, <1>t DEF Portal!SuspendOrganization, Portal!LiveOrgs, Portal!LiveUsers, Portal!OrgRow,
        Portal!UserRow
  <2>2. ASSUME NEW d PROVE Owned(d)' = Owned(d)
    BY <2>1, OwnedKept
  <2>. QED
    BY <1>17, <2>2, <1>f DEF Portal!SuspendOrganization
<1>18. ASSUME NEW c \in Clients, Portal!ToggleOrganization(c) PROVE QuotaInv'
  <2>1. \A o \in Orgs : org'[o].state = org[o].state /\ org'[o].dealer = org[o].dealer
    BY <1>18, <1>t DEF Portal!ToggleOrganization, Portal!LiveOrgs, Portal!LiveUsers, Portal!OrgRow,
        Portal!UserRow
  <2>2. ASSUME NEW d PROVE Owned(d)' = Owned(d)
    BY <2>1, OwnedKept
  <2>. QED
    BY <1>18, <2>2, <1>f DEF Portal!ToggleOrganization
<1>19. ASSUME NEW c \in Clients, Portal!UpdateOrganization(c) PROVE QuotaInv'
  <2>1. \A o \in Orgs : org'[o].state = org[o].state /\ org'[o].dealer = org[o].dealer
    BY <1>19, <1>t DEF Portal!UpdateOrganization, Portal!LiveOrgs, Portal!LiveUsers, Portal!OrgRow,
        Portal!UserRow
  <2>2. ASSUME NEW d PROVE Owned(d)' = Owned(d)
    BY <2>1, OwnedKept
  <2>. QED
    BY <1>19, <2>2, <1>f DEF Portal!UpdateOrganization
<1>20. CASE UNCHANGED portalVars
  BY <1>20 DEF portalVars, QuotaInv, Owned, Portal!LiveOrgs, Portal!At
<1>. QED
  BY <1>1, <1>2, <1>3, <1>4, <1>5, <1>6, <1>7, <1>8, <1>9, <1>10, <1>11, <1>12, <1>13, <1>14, <1>15, <1>16,
     <1>17, <1>18, <1>19, <1>20
  DEF Portal!Next

(* One account per email, and a completed setup leaves a usable            *)
(* administrator, in every state.                                          *)
LEMMA PortalAlways == AllSpec => [](Portal!OneAccountPerEmail /\ Portal!CompletedIsUsable)
<1>1. AllInit => PortalInv
  BY DEF AllInit, Portal!Init, PortalInv, Portal!OneAccountPerEmail, OwnersComeNext, SetupIsDone,
      Portal!LiveUsers,
     Portal!NoUser, Portal!At, Portal!Idle
<1>2. Portal!TypeOK /\ PortalInv /\ [AllNext]_allVars => PortalInv'
  BY PortalInvStep, AllMovesPortal
<1>3. PortalInv => Portal!OneAccountPerEmail /\ Portal!CompletedIsUsable
  BY DEF PortalInv, SetupIsDone, Usable, Portal!CompletedIsUsable
<1>. QED
  BY <1>1, <1>2, <1>3, PortalAlwaysTyped, PTL DEF AllSpec

(* No dealer has more organisations than the quota, in every state, while  *)
(* one createOrganization at a time runs.                                  *)
LEMMA QuotaAlways ==
    ASSUME "createOrganization" \notin PortalTogether PROVE AllSpec => []Portal!QuotaHolds
<1>1. ASSUME AllInit PROVE QuotaInv
  <2>1. \A d : Owned(d) = {}
    BY <1>1 DEF AllInit, Portal!Init, Owned, Portal!LiveOrgs, Portal!NoOrg
  <2>2. \A c \in Clients : accountRequest[c].kind = "none"
    BY <1>1 DEF AllInit, Portal!Init, Portal!Idle
  <2>3. \A d : Cardinality(Owned(d)) <= MaxOrganizations
    BY <2>1, FS_EmptySet, PortalConstants
  <2>. QED
    BY <2>2, <2>3, Zenon DEF QuotaInv, Portal!At
<1>2. Portal!TypeOK /\ QuotaInv /\ [AllNext]_allVars => QuotaInv'
  BY QuotaStep, AllMovesPortal
<1>. QED
  BY <1>1, <1>2, QuotaIsHeld, PortalAlwaysTyped, PTL DEF AllSpec

(* A step of the suite is one of the Twilio module, or leaves it alone. *)
LEMMA AllMovesCredentials == [AllNext]_allVars => [Credentials!Next]_credentialVars
BY DEF AllNext, allVars

(* What the suite assumes of the constants of the Twilio module. *)
LEMMA CredentialConstants == MaxChanges \in Nat /\ Keys # {}
BY AdministrationAssumption DEF Credentials!TwilioAssumption

(* What a row of credentials builds is a client or nothing. *)
LEMMA BuiltType ==
    ASSUME NEW row \in Credentials!CredRow
    PROVE  Credentials!Built(row) \in Credentials!ClientRecord \cup {None}
BY DEF Credentials!Built, Credentials!CredRow, Credentials!ClientRecord, Credentials!Opens,
    Credentials!AuthMethod, Credentials!Method, Credentials!Sealed

(* A step of the Twilio module keeps its types. *)
LEMMA CredentialsStep ==
    ASSUME Credentials!TypeOK, [Credentials!Next]_credentialVars
    PROVE  Credentials!TypeOK'
<1>t. /\ cred \in Credentials!CredRow /\ client \in Credentials!ClientRecord \cup {None} /\ key \in Keys
      /\ \A c \in Clients : keyRequest[c] \in Credentials!Request
      /\ keyRequest \in [Clients -> Credentials!Request] /\ revoked \subseteq Credentials!Method \X Accounts
      /\ owned \subseteq Numbers /\ rows
         \in [Numbers -> 0..2] /\ accepted \subseteq Credentials!ClientRecord
      /\ changes \in 0..MaxChanges
  BY DEF Credentials!TypeOK
<1>i. Credentials!Idle \in Credentials!Request
  BY DEF Credentials!Request
<1>b. ASSUME NEW c \in Clients, NEW r \in Credentials!Request, Credentials!Becomes(c, r)
      PROVE  keyRequest' \in [Clients -> Credentials!Request]
  BY <1>t, <1>b DEF Credentials!Becomes
<1>e. ASSUME NEW c \in Clients, Credentials!Ends(c) PROVE keyRequest' \in [Clients -> Credentials!Request]
  BY <1>b, <1>i, <1>e DEF Credentials!Ends
<1>m. ASSUME changes < MaxChanges, changes' = changes + 1 PROVE changes' \in 0..MaxChanges
  BY <1>m, <1>t, CredentialConstants
<1>g. ASSUME UNCHANGED <<key, revoked, owned, changes>>, keyRequest' \in [Clients -> Credentials!Request],
             cred' \in Credentials!CredRow,
             client' \in Credentials!ClientRecord \cup {None}, rows' \in [Numbers -> 0..2],
             accepted' \subseteq Credentials!ClientRecord
      PROVE  Credentials!TypeOK'
  BY <1>g, <1>t DEF Credentials!TypeOK
<1>p. ASSUME NEW c \in Clients,
             \/ Credentials!At(c, "testConnection", "build")
             \/ Credentials!At(c, "testConnection", "fetch")
      PROVE  /\ keyRequest[c] \in [kind : {"testConnection"}, pc : {"build", "fetch", "failed"},
                                     seen : Credentials!CredRow,
                                     use : Credentials!ClientRecord \cup {None}]
             /\ keyRequest[c].pc = "fetch" => keyRequest[c].use \in Credentials!ClientRecord
  BY <1>p, <1>t DEF Credentials!At, Credentials!Request, Credentials!Idle
<1>s. ASSUME NEW c \in Clients,
             \/ Credentials!At(c, "syncPhoneNumbers", "find")
             \/ Credentials!At(c, "syncPhoneNumbers", "insert")
      PROVE  keyRequest[c] \in [kind : {"syncPhoneNumbers"}, pc : {"find", "insert"},
                                 left : SUBSET Numbers, num : Numbers \cup {None}]
  BY <1>s, <1>t DEF Credentials!At, Credentials!Request, Credentials!Idle
<1>w. ASSUME NEW left \in SUBSET Numbers PROVE Credentials!Working(left) \in Credentials!Request
  BY DEF Credentials!Working, Credentials!Request
<1>1. ASSUME NEW c \in Clients, Credentials!Arrive(c) PROVE Credentials!TypeOK'
  BY <1>1, <1>g, <1>b, <1>t
  DEF Credentials!Arrive, Credentials!twilio, Credentials!history, Credentials!Request
<1>2. ASSUME NEW c \in Clients, Credentials!Abandon(c) PROVE Credentials!TypeOK'
  BY <1>2, <1>e, <1>t, <1>m
  DEF Credentials!Abandon, Credentials!twilio, Credentials!history, Credentials!TypeOK
<1>3. ASSUME NEW c \in Clients, Credentials!FindCred(c) PROVE Credentials!TypeOK'
  BY <1>3, <1>g, <1>b, <1>e, <1>t
  DEF Credentials!FindCred, Credentials!twilio, Credentials!history, Credentials!Request
<1>4. ASSUME NEW c \in Clients, Credentials!CacheClient(c) PROVE Credentials!TypeOK'
  <2>1. keyRequest[c].seen \in Credentials!CredRow
    BY <1>4, <1>t DEF Credentials!CacheClient, Credentials!At, Credentials!Request, Credentials!Idle
  <2>2. Credentials!Built(keyRequest[c].seen) \in Credentials!ClientRecord \cup {None}
    BY <2>1, BuiltType
  <2>. QED
    BY <1>4, <2>2, <1>g, <1>e, <1>t DEF Credentials!CacheClient, Credentials!twilio, Credentials!history
<1>5. ASSUME NEW c \in Clients, Credentials!SaveCredentials(c) PROVE Credentials!TypeOK'
  <2>1. PICK dto \in Credentials!Dto :
             Credentials!Becomes(c, [kind |-> "saveCredentials", pc |-> "write",
                                     existing |-> cred.id, dto |-> dto])
    BY <1>5 DEF Credentials!SaveCredentials
  <2>2. [kind |-> "saveCredentials", pc |-> "write", existing |-> cred.id, dto |-> dto]
          \in Credentials!Request
    BY <1>t DEF Credentials!Request, Credentials!CredRow
  <2>. QED
    BY <1>5, <2>1, <2>2, <1>g, <1>b, <1>t
    DEF Credentials!SaveCredentials, Credentials!twilio, Credentials!history
<1>6. ASSUME NEW c \in Clients, Credentials!StoreCredentials(c) PROVE Credentials!TypeOK'
  <2>1. keyRequest[c].dto \in Credentials!Dto
    BY <1>6, <1>t DEF Credentials!StoreCredentials, Credentials!At, Credentials!Request, Credentials!Idle
  <2>2. Credentials!Data(cred, keyRequest[c].dto) \in Credentials!CredRow
    BY <2>1, <1>t DEF Credentials!Data, Credentials!CredRow, Credentials!Dto, Credentials!Sealed
  <2>. QED
    BY <1>6, <2>2, <1>g, <1>e, <1>t
    DEF Credentials!StoreCredentials, Credentials!twilio, Credentials!history
<1>7. ASSUME NEW c \in Clients, Credentials!FindTested(c) PROVE Credentials!TypeOK'
  BY <1>7, <1>g, <1>b, <1>e, <1>t
  DEF Credentials!FindTested, Credentials!twilio, Credentials!history, Credentials!Request
<1>8. ASSUME NEW c \in Clients, Credentials!BuildTested(c) PROVE Credentials!TypeOK'
  <2>1. Credentials!Built(cred) \in Credentials!ClientRecord \cup {None}
    BY <1>t, BuiltType
  <2>2. keyRequest[c] \in [kind : {"testConnection"}, pc : {"build", "fetch", "failed"},
                           seen : Credentials!CredRow,
                           use : Credentials!ClientRecord \cup {None}]
    BY <1>8, <1>p DEF Credentials!BuildTested
  <2>3. /\ Credentials!Built(cred) # None
             => [keyRequest[c] EXCEPT !.pc = "fetch", !.use = Credentials!Built(cred)]
                  \in Credentials!Request
        /\ [keyRequest[c] EXCEPT !.pc = "failed", !.use = Credentials!Built(cred)] \in Credentials!Request
    BY <2>1, <2>2 DEF Credentials!Request
  <2>. QED
    BY <1>8, <2>1, <2>3, <1>g, <1>b, <1>t
    DEF Credentials!BuildTested, Credentials!twilio, Credentials!history
<1>9. ASSUME NEW c \in Clients, Credentials!FetchAccount(c) PROVE Credentials!TypeOK'
  <2>2. keyRequest[c] \in [kind : {"testConnection"}, pc : {"build", "fetch", "failed"},
                           seen : Credentials!CredRow,
                           use : Credentials!ClientRecord \cup {None}]
    BY <1>9, <1>p DEF Credentials!FetchAccount
  <2>3. /\ [keyRequest[c] EXCEPT !.pc = "failed"] \in Credentials!Request
        /\ [kind |-> "testConnection", pc |-> "verified"] \in Credentials!Request
    BY <2>2 DEF Credentials!Request
  <2>4. keyRequest[c].use \in Credentials!ClientRecord
    BY <1>9, <1>p DEF Credentials!FetchAccount, Credentials!At
  <2>. QED
    BY <1>9, <2>4, <2>3, <1>g, <1>b, <1>t
    DEF Credentials!FetchAccount, Credentials!twilio, Credentials!history
<1>10. ASSUME NEW c \in Clients, Credentials!StoreVerified(c) PROVE Credentials!TypeOK'
  BY <1>10, <1>g, <1>e, <1>t
  DEF Credentials!StoreVerified, Credentials!twilio, Credentials!history, Credentials!CredRow
<1>11. ASSUME NEW c \in Clients, Credentials!StoreFailed(c) PROVE Credentials!TypeOK'
  BY <1>11, <1>g, <1>e, <1>t
  DEF Credentials!StoreFailed, Credentials!twilio, Credentials!history, Credentials!CredRow
<1>12. ASSUME NEW c \in Clients, Credentials!ListNumbers(c) PROVE Credentials!TypeOK'
  <2>1. Credentials!Built(cred) \in Credentials!ClientRecord \cup {None}
    BY <1>t, BuiltType
  <2>. QED
    BY <1>12, <2>1, <1>w, <1>g, <1>b, <1>e, <1>t
    DEF Credentials!ListNumbers, Credentials!twilio, Credentials!history
<1>13. ASSUME NEW c \in Clients, Credentials!FindNumber(c) PROVE Credentials!TypeOK'
  <2>1. keyRequest[c] \in [kind : {"syncPhoneNumbers"}, pc : {"find", "insert"}, left : SUBSET Numbers,
                           num : Numbers \cup {None}]
    BY <1>13, <1>s DEF Credentials!FindNumber
  <2>2. ASSUME NEW k \in keyRequest[c].left
        PROVE  /\ Credentials!Working(keyRequest[c].left \ {k}) \in Credentials!Request
               /\ [keyRequest[c] EXCEPT !.pc = "insert", !.num = k] \in Credentials!Request
    BY <2>1, <1>w DEF Credentials!Request
  <2>. QED
    BY <1>13, <2>2, <1>g, <1>b, <1>t DEF Credentials!FindNumber, Credentials!twilio, Credentials!history
<1>14. ASSUME NEW c \in Clients, Credentials!InsertNumber(c) PROVE Credentials!TypeOK'
  <2>1. keyRequest[c] \in [kind : {"syncPhoneNumbers"}, pc : {"find", "insert"}, left : SUBSET Numbers,
                           num : Numbers \cup {None}]
    BY <1>14, <1>s DEF Credentials!InsertNumber
  <2>2. Credentials!Working(keyRequest[c].left \ {keyRequest[c].num}) \in Credentials!Request
    BY <2>1, <1>w
  <2>3. rows' \in [Numbers -> 0..2]
    <3>1. rows' = [rows EXCEPT ![keyRequest[c].num] = IF @ = 2 THEN 2 ELSE @ + 1]
      BY <1>14 DEF Credentials!InsertNumber
    <3>2. \A k \in Numbers : rows[k] \in 0..2 /\ (IF rows[k] = 2 THEN 2 ELSE rows[k] + 1) \in 0..2
      BY <1>t
    <3>. QED
      BY <3>1, <3>2, <1>t
  <2>. QED
    BY <1>14, <2>2, <2>3, <1>g, <1>b, <1>t
    DEF Credentials!InsertNumber, Credentials!twilio, Credentials!history
<1>15. ASSUME NEW c \in Clients, Credentials!EndSync(c) PROVE Credentials!TypeOK'
  BY <1>15, <1>g, <1>e, <1>t DEF Credentials!EndSync, Credentials!twilio, Credentials!history
<1>16. CASE Credentials!Revoke
  BY <1>16, <1>t, <1>m DEF Credentials!Revoke, Credentials!TypeOK
<1>17. CASE Credentials!NumbersChange
  BY <1>17, <1>t, <1>m DEF Credentials!NumbersChange, Credentials!TypeOK
<1>18. CASE Credentials!Restart
  BY <1>18, <1>t, <1>m, <1>i DEF Credentials!Restart, Credentials!twilio, Credentials!TypeOK
<1>19. CASE UNCHANGED credentialVars
  BY <1>19, <1>t DEF credentialVars, Credentials!TypeOK
<1>. QED
  BY <1>1, <1>2, <1>3, <1>4, <1>5, <1>6, <1>7, <1>8, <1>9, <1>10, <1>11, <1>12, <1>13, <1>14, <1>15, <1>16,
     <1>17, <1>18, <1>19
  DEF Credentials!Next

(* Every state has them. *)
LEMMA CredentialsTyped == AllSpec => []Credentials!TypeOK
<1>1. ASSUME AllInit PROVE Credentials!TypeOK
  <2>1. /\ Credentials!NoCred \in Credentials!CredRow
        /\ Credentials!Idle \in Credentials!Request /\ 0 \in 0..MaxChanges
    BY CredentialConstants DEF Credentials!NoCred, Credentials!CredRow, Credentials!Request
  <2>2. (CHOOSE k \in Keys : TRUE) \in Keys
    BY CredentialConstants
  <2>. QED
    BY <1>1, <2>1, <2>2 DEF AllInit, Credentials!Init, Credentials!TypeOK
<1>2. Credentials!TypeOK /\ [AllNext]_allVars => Credentials!TypeOK'
  BY CredentialsStep, AllMovesCredentials
<1>. QED
  BY <1>1, <1>2, PTL DEF AllSpec

(* The secret a row signs with. *)
Secret(row) == IF Credentials!AuthMethod(row) = "apiKey" THEN row.apiKey ELSE row.token

(* The client a row stands for, whether or not it can be built. *)
RecordOf(row) == [sid |-> row.sid.of, of |-> Secret(row).of, by |-> Credentials!AuthMethod(row)]

(* Two rows that build the same client: they may differ in what a client   *)
(* is not built from.                                                      *)
SameSecrets(a, b) == a.id = b.id /\ a.sid = b.sid /\ a.token = b.token /\ a.apiKey = b.apiKey

(* What a row builds, if anything, is the client it stands for. *)
LEMMA BuiltIsRecord ==
    ASSUME NEW row
    PROVE  Credentials!Built(row) = None \/ Credentials!Built(row) = RecordOf(row)
BY DEF Credentials!Built, RecordOf, Secret

(* Rows with the same secrets build the same client. *)
LEMMA SameAreBuiltSame ==
    ASSUME NEW a, NEW b, SameSecrets(a, b)
    PROVE  Credentials!Built(a) = Credentials!Built(b) /\ RecordOf(a) = RecordOf(b)
BY DEF SameSecrets, Credentials!Built, RecordOf, Secret, Credentials!AuthMethod

(* What a request read and has yet to use is still so: the credentials a   *)
(* client is about to be built from, those that are being tried at Twilio, *)
(* those that were accepted, and the cache that was emptied before the row *)
(* is written.                                                             *)
RequestFits(r) ==
    /\ r.kind = "getClient" /\ r.pc = "build" => SameSecrets(r.seen, cred)
    /\ r.kind = "testConnection" /\ r.pc = "fetch" => r.use = RecordOf(cred)
    /\ r.kind = "testConnection" /\ r.pc = "verified" => RecordOf(cred) \in accepted
    /\ r.kind = "saveCredentials" /\ r.pc = "write" => client = None

(* The inductive invariant of the cache and of the verdict, where a save   *)
(* runs alone: it empties the cache before it writes the row.              *)
CredInv ==
    /\ client \in {None, Credentials!Built(cred)}
    /\ cred.verified => RecordOf(cred) \in accepted
    /\ \A c \in Clients : RequestFits(keyRequest[c])
    /\ \A c, d \in Clients :
          keyRequest[c].kind = "saveCredentials" /\ c # d => keyRequest[d] = Credentials!Idle

(* A step keeps it, whatever runs beside whatever else. *)
LEMMA CredInvStep ==
    ASSUME "saveCredentials" \notin KeyTogether, Credentials!TypeOK, CredInv, [Credentials!Next]_credentialVars
    PROVE  CredInv'
<1>t. /\ cred \in Credentials!CredRow /\ client \in Credentials!ClientRecord \cup {None} /\ key \in Keys
      /\ \A c \in Clients : keyRequest[c] \in Credentials!Request
      /\ keyRequest \in [Clients -> Credentials!Request] /\ rows \in [Numbers -> 0..2]
  BY DEF Credentials!TypeOK
<1>v. /\ client \in {None, Credentials!Built(cred)} /\ (cred.verified => RecordOf(cred) \in accepted)
      /\ \A c \in Clients : RequestFits(keyRequest[c])
      /\ \A c, d \in Clients :
            keyRequest[c].kind = "saveCredentials" /\ c # d => keyRequest[d] = Credentials!Idle
  BY DEF CredInv
<1>n. Credentials!Idle.kind = "none" /\ Credentials!Idle.pc = "idle"
  BY DEF Credentials!Idle
<1>b. ASSUME NEW c \in Clients, NEW r, Credentials!Becomes(c, r)
      PROVE  keyRequest'[c] = r /\ \A d \in Clients \ {c} : keyRequest'[d] = keyRequest[d]
  BY <1>b, <1>t DEF Credentials!Becomes
<1>r. ASSUME NEW r, RequestFits(r), SameSecrets(cred', cred), accepted \subseteq accepted',
             client' = client \/ r.kind # "saveCredentials"
      PROVE  RequestFits(r)'
  <2>1. RecordOf(cred') = RecordOf(cred)
    BY <1>r, SameAreBuiltSame
  <2>. QED
    BY <1>r, <2>1 DEF RequestFits, SameSecrets
<1>x. ASSUME NEW c \in Clients, NEW r, Credentials!Becomes(c, r),
             r = Credentials!Idle \/ r.kind = keyRequest[c].kind, keyRequest[c] # Credentials!Idle
      PROVE  \A d, e \in Clients : keyRequest'[d].kind = "saveCredentials" /\ d # e
               => keyRequest'[e] = Credentials!Idle
  <2>. SUFFICES ASSUME NEW d \in Clients, NEW e \in Clients, keyRequest'[d].kind = "saveCredentials", d # e
                PROVE  keyRequest'[e] = Credentials!Idle
    OBVIOUS
  <2>b. keyRequest'[c] = r /\ \A f \in Clients \ {c} : keyRequest'[f] = keyRequest[f]
    BY <1>b, <1>x
  <2>1. keyRequest[d].kind = "saveCredentials"
    BY <2>b, <1>x, <1>n
  <2>2. keyRequest[e] = Credentials!Idle
    BY <2>1, <1>v
  <2>. QED
    BY <2>b, <2>2, <1>x
<1>h. ASSUME NEW c \in Clients, NEW r, Credentials!Becomes(c, r),
             r = Credentials!Idle \/ r.kind = keyRequest[c].kind, keyRequest[c] # Credentials!Idle,
             UNCHANGED key, SameSecrets(cred', cred), accepted \subseteq accepted',
             client' = client \/ keyRequest[c].kind # "saveCredentials",
             client' \in {None, Credentials!Built(cred)}, cred'.verified
               => cred.verified \/ RecordOf(cred) \in accepted,
             RequestFits(r)'
      PROVE  CredInv'
  <2>b. keyRequest'[c] = r /\ \A d \in Clients \ {c} : keyRequest'[d] = keyRequest[d]
    BY <1>b, <1>h
  <2>1. Credentials!Built(cred)' = Credentials!Built(cred) /\ RecordOf(cred)' = RecordOf(cred)
    BY <1>h, SameAreBuiltSame
    DEF SameSecrets, Credentials!Built, Credentials!Opens, RecordOf, Secret, Credentials!AuthMethod
  <2>3. ASSUME NEW d \in Clients, NEW q, q = keyRequest'[d] PROVE RequestFits(q)'
    <3>1. CASE d = c
      BY <3>1, <2>3, <2>b, <1>h
    <3>2. CASE d # c
      <4>1. q = keyRequest[d] /\ RequestFits(q)
        BY <3>2, <2>3, <2>b, <1>v
      <4>2. q.kind = "saveCredentials" => keyRequest[c] = Credentials!Idle
        BY <4>1, <3>2, <1>v
      <4>. QED
        BY <4>1, <4>2, <1>h, <1>r
    <3>. QED
      BY <3>1, <3>2
  <2>4. \A d, e \in Clients : keyRequest'[d].kind = "saveCredentials" /\ d # e
          => keyRequest'[e] = Credentials!Idle
    BY <1>x, <1>h
  <2>5. client' \in {None, Credentials!Built(cred)'} /\ (cred'.verified => RecordOf(cred)' \in accepted')
    BY <2>1, <1>h, <1>v
  <2>. QED
    BY <2>3, <2>4, <2>5 DEF CredInv, RequestFits
<1>w. ASSUME NEW left, NEW r, r = Credentials!Working(left)
      PROVE  r.kind = "syncPhoneNumbers" /\ RequestFits(r)'
  BY <1>w DEF Credentials!Working, RequestFits
<1>f. RequestFits(Credentials!Idle)'
  BY <1>n DEF RequestFits
<1>s. SameSecrets(cred, cred)
  BY DEF SameSecrets
<1>e. ASSUME NEW c \in Clients, Credentials!Ends(c), keyRequest[c] # Credentials!Idle,
             UNCHANGED key, SameSecrets(cred', cred), accepted \subseteq accepted',
             client' = client \/ keyRequest[c].kind # "saveCredentials",
             client' \in {None, Credentials!Built(cred)}, cred'.verified
               => cred.verified \/ RecordOf(cred) \in accepted
      PROVE  CredInv'
  BY <1>e, <1>h, <1>f DEF Credentials!Ends
<1>g. ASSUME NEW c \in Clients, NEW r, Credentials!Becomes(c, r), r.kind = keyRequest[c].kind,
             keyRequest[c] # Credentials!Idle,
             UNCHANGED <<key, cred>>, accepted \subseteq accepted',
             client' = client \/ keyRequest[c].kind # "saveCredentials",
             client' \in {None, Credentials!Built(cred)},
             RequestFits(r)'
      PROVE  CredInv'
  BY <1>g, <1>h, <1>s
<1>1. ASSUME NEW c \in Clients, Credentials!Arrive(c) PROVE CredInv'
  <2>1. PICK kind \in Credentials!AllKinds :
            /\ \A d \in Clients \ {c} : keyRequest[d] # Credentials!Idle
                 => {kind, keyRequest[d].kind} \subseteq KeyTogether
            /\ Credentials!Becomes(c, [kind |-> kind, pc |-> "start"])
    BY <1>1 DEF Credentials!Arrive
  <2>2. /\ keyRequest'[c] = [kind |-> kind, pc |-> "start"]
        /\ \A d \in Clients \ {c} : keyRequest'[d] = keyRequest[d]
    BY <2>1, <1>b
  <2>3. UNCHANGED <<cred, client, key, rows, accepted>>
    BY <1>1 DEF Credentials!Arrive, Credentials!twilio, Credentials!history
  <2>4. ASSUME NEW d \in Clients, NEW e \in Clients, keyRequest'[d].kind = "saveCredentials", d # e
        PROVE  keyRequest'[e] = Credentials!Idle
    BY <2>1, <2>2, <2>4, <1>v, <1>n
  <2>5. ASSUME NEW d \in Clients, NEW q, q = keyRequest'[d] PROVE RequestFits(q)'
    <3>1. q.pc = "start" \/ RequestFits(q)
      BY <2>2, <2>5, <1>v
    <3>. QED
      BY <3>1, <2>3 DEF RequestFits
  <2>6. /\ client' \in {None, Credentials!Built(cred)'}
        /\ cred'.verified => RecordOf(cred)' \in accepted'
    BY <2>3, <1>v DEF Credentials!Built, Credentials!Opens, RecordOf, Secret, Credentials!AuthMethod
  <2>. QED
    BY <2>4, <2>5, <2>6 DEF CredInv, RequestFits
<1>2. ASSUME NEW c \in Clients, Credentials!Abandon(c) PROVE CredInv'
  BY <1>2, <1>e, <1>s, <1>v DEF Credentials!Abandon, Credentials!twilio, Credentials!history
<1>3. ASSUME NEW c \in Clients, Credentials!FindCred(c) PROVE CredInv'
  <2>1. keyRequest[c] # Credentials!Idle
    BY <1>3, <1>n DEF Credentials!FindCred, Credentials!At
  <2>2. RequestFits([kind |-> "getClient", pc |-> "build", seen |-> cred])'
    BY <1>3, <1>s DEF Credentials!FindCred, RequestFits, SameSecrets
  <2>. QED
    BY <1>3, <2>1, <2>2, <1>g, <1>e, <1>s, <1>v
    DEF Credentials!FindCred, Credentials!At, Credentials!twilio, Credentials!history
<1>4. ASSUME NEW c \in Clients, Credentials!CacheClient(c) PROVE CredInv'
  <2>1. keyRequest[c] # Credentials!Idle
    BY <1>4, <1>n DEF Credentials!CacheClient, Credentials!At
  <2>2. Credentials!Built(keyRequest[c].seen) = Credentials!Built(cred)
    BY <1>4, <1>v, SameAreBuiltSame DEF Credentials!CacheClient, Credentials!At, RequestFits
  <2>. QED
    BY <1>4, <2>1, <2>2, <1>e, <1>s, <1>v
    DEF Credentials!CacheClient, Credentials!At, Credentials!twilio, Credentials!history
<1>5. ASSUME NEW c \in Clients, Credentials!SaveCredentials(c) PROVE CredInv'
  <2>1. PICK dto \in Credentials!Dto :
             Credentials!Becomes(c, [kind |-> "saveCredentials", pc |-> "write",
                                     existing |-> cred.id, dto |-> dto])
    BY <1>5 DEF Credentials!SaveCredentials
  <2>2. keyRequest[c].kind = "saveCredentials" /\ client' = None /\ UNCHANGED <<cred, key, rows, accepted>>
    BY <1>5 DEF Credentials!SaveCredentials, Credentials!At, Credentials!twilio, Credentials!history
  <2>3. \A d \in Clients \ {c} : keyRequest[d] = Credentials!Idle
    BY <2>2, <1>v
  <2>4. /\ keyRequest'[c] = [kind |-> "saveCredentials", pc |-> "write", existing |-> cred.id, dto |-> dto]
        /\ \A d \in Clients \ {c} : keyRequest'[d] = Credentials!Idle
    BY <2>1, <2>3, <1>b
  <2>5. \A d, e \in Clients : keyRequest'[d].kind = "saveCredentials" /\ d # e
          => keyRequest'[e] = Credentials!Idle
    BY <2>4, <1>n
  <2>6. cred'.verified => RecordOf(cred)' \in accepted'
    BY <2>2, <1>v DEF RecordOf, Secret, Credentials!AuthMethod
  <2>7. ASSUME NEW d \in Clients, NEW q, q = keyRequest'[d] PROVE RequestFits(q)'
    BY <2>2, <2>4, <2>7, <1>n DEF RequestFits
  <2>. QED
    BY <2>2, <2>5, <2>6, <2>7 DEF CredInv, RequestFits
<1>6. ASSUME NEW c \in Clients, Credentials!StoreCredentials(c) PROVE CredInv'
  <2>2. keyRequest[c].kind = "saveCredentials" /\ client = None /\ UNCHANGED <<client, key, rows, accepted>>
    BY <1>6, <1>v DEF Credentials!StoreCredentials, Credentials!At, RequestFits
  <2>4. \A d \in Clients : keyRequest'[d] = Credentials!Idle
    BY <1>6, <2>2, <1>v, <1>b DEF Credentials!StoreCredentials, Credentials!Ends
  <2>5. cred' = cred \/ ~cred'.verified
    BY <1>6 DEF Credentials!StoreCredentials, Credentials!Data
  <2>6. cred'.verified => RecordOf(cred)' \in accepted'
    BY <2>2, <2>5, <1>v DEF RecordOf, Secret, Credentials!AuthMethod
  <2>7. ASSUME NEW d \in Clients, NEW q, q = keyRequest'[d] PROVE RequestFits(q)'
    BY <2>4, <2>7, <1>n DEF RequestFits
  <2>. QED
    BY <2>2, <2>4, <2>6, <2>7, <1>n DEF CredInv, RequestFits
<1>7. ASSUME NEW c \in Clients, Credentials!FindTested(c) PROVE CredInv'
  <2>1. keyRequest[c] # Credentials!Idle /\ keyRequest[c].kind = "testConnection"
    BY <1>7, <1>n DEF Credentials!FindTested, Credentials!At
  <2>2. RequestFits([kind |-> "testConnection", pc |-> IF client = None THEN "build" ELSE "fetch",
                     seen |-> cred, use |-> client])'
    BY <1>7, <1>v, BuiltIsRecord
    DEF Credentials!FindTested, RequestFits, RecordOf, Secret, Credentials!AuthMethod
  <2>. QED
    BY <1>7, <2>1, <2>2, <1>g, <1>e, <1>s, <1>v
    DEF Credentials!FindTested, Credentials!twilio, Credentials!history
<1>8. ASSUME NEW c \in Clients, Credentials!BuildTested(c) PROVE CredInv'
  <2>1. keyRequest[c] # Credentials!Idle /\ keyRequest[c].kind = "testConnection" /\ keyRequest[c].pc = "build"
    BY <1>8, <1>n DEF Credentials!BuildTested, Credentials!At
  <2>2. DOMAIN keyRequest[c] = {"kind", "pc", "seen", "use"}
    BY <2>1, <1>t DEF Credentials!Request, Credentials!Idle
  <2>3. PICK r : /\ r = [keyRequest[c] EXCEPT
                              !.pc = IF Credentials!Built(cred) = None THEN "failed" ELSE "fetch",
                              !.use = Credentials!Built(cred)]
                 /\ Credentials!Becomes(c, r)
    BY <1>8 DEF Credentials!BuildTested
  <2>4. /\ r.kind = "testConnection" /\ r.use = Credentials!Built(cred)
        /\ r.pc = (IF Credentials!Built(cred) = None THEN "failed" ELSE "fetch")
    BY <2>1, <2>2, <2>3
  <2>5. UNCHANGED <<cred, key, rows, accepted>> /\ client' \in {client, Credentials!Built(cred)}
    BY <1>8 DEF Credentials!BuildTested, Credentials!twilio, Credentials!history
  <2>6. RequestFits(r)'
    BY <2>4, <2>5, BuiltIsRecord DEF RequestFits, RecordOf, Secret, Credentials!AuthMethod
  <2>. QED
    BY <2>1, <2>3, <2>4, <2>5, <2>6, <1>g, <1>v
<1>9. ASSUME NEW c \in Clients, Credentials!FetchAccount(c) PROVE CredInv'
  <2>1. keyRequest[c] # Credentials!Idle /\ keyRequest[c].kind = "testConnection" /\ keyRequest[c].pc = "fetch"
    BY <1>9, <1>n DEF Credentials!FetchAccount, Credentials!At
  <2>2. DOMAIN keyRequest[c] = {"kind", "pc", "seen", "use"} /\ keyRequest[c].use = RecordOf(cred)
    BY <2>1, <1>t, <1>v DEF Credentials!Request, Credentials!Idle, RequestFits
  <2>3. UNCHANGED <<cred, client, key, rows>>
    BY <1>9 DEF Credentials!FetchAccount, Credentials!twilio, Credentials!history
  <2>4. PICK r : /\ Credentials!Becomes(c, r)
                 /\ \/ /\ r = [kind |-> "testConnection", pc |-> "verified"]
                       /\ accepted' = accepted \cup {keyRequest[c].use}
                    \/ r = [keyRequest[c] EXCEPT !.pc = "failed"] /\ UNCHANGED accepted
    BY <1>9 DEF Credentials!FetchAccount
  <2>5. r.kind = "testConnection" /\ accepted \subseteq accepted'
        /\ (r.pc = "failed" \/ (r.pc = "verified" /\ RecordOf(cred) \in accepted'))
    BY <2>1, <2>2, <2>4
  <2>6. RequestFits(r)'
    BY <2>3, <2>5 DEF RequestFits, RecordOf, Secret, Credentials!AuthMethod
  <2>. QED
    BY <2>1, <2>3, <2>4, <2>5, <2>6, <1>g, <1>v
<1>10. ASSUME NEW c \in Clients, Credentials!StoreVerified(c) PROVE CredInv'
  <2>1. keyRequest[c] # Credentials!Idle /\ keyRequest[c].kind = "testConnection" /\ RecordOf(cred) \in accepted
    BY <1>10, <1>n, <1>v DEF Credentials!StoreVerified, Credentials!At, RequestFits
  <2>2. SameSecrets(cred', cred)
    BY <1>10, <1>t DEF Credentials!StoreVerified, SameSecrets, Credentials!CredRow
  <2>. QED
    BY <1>10, <2>1, <2>2, <1>e, <1>v DEF Credentials!StoreVerified, Credentials!twilio, Credentials!history
<1>11. ASSUME NEW c \in Clients, Credentials!StoreFailed(c) PROVE CredInv'
  <2>1. keyRequest[c] # Credentials!Idle /\ keyRequest[c].kind = "testConnection"
    BY <1>11, <1>n DEF Credentials!StoreFailed, Credentials!At
  <2>2. SameSecrets(cred', cred) /\ ~cred'.verified
    BY <1>11, <1>t DEF Credentials!StoreFailed, SameSecrets, Credentials!CredRow
  <2>. QED
    BY <1>11, <2>1, <2>2, <1>e DEF Credentials!StoreFailed, Credentials!twilio, Credentials!history
<1>12. ASSUME NEW c \in Clients, Credentials!ListNumbers(c) PROVE CredInv'
  <2>1. keyRequest[c] # Credentials!Idle /\ keyRequest[c].kind = "syncPhoneNumbers"
    BY <1>12, <1>n DEF Credentials!ListNumbers, Credentials!At
  <2>2. /\ Credentials!Becomes(c, Credentials!Working(owned)) \/ Credentials!Ends(c)
        /\ client' \in {None, Credentials!Built(cred)} /\ UNCHANGED <<cred, key, rows, accepted>>
    BY <1>12, <1>v DEF Credentials!ListNumbers, Credentials!twilio, Credentials!history
  <2>3. CASE Credentials!Ends(c)
    BY <2>1, <2>2, <2>3, <1>e, <1>s
  <2>4. CASE Credentials!Becomes(c, Credentials!Working(owned))
    <3>1. PICK r : r = Credentials!Working(owned) /\ Credentials!Becomes(c, r)
      BY <2>4
    <3>. QED
      BY <2>1, <2>2, <3>1, <1>w, <1>g
  <2>. QED
    BY <2>2, <2>3, <2>4
<1>13. ASSUME NEW c \in Clients, Credentials!FindNumber(c) PROVE CredInv'
  <2>1. keyRequest[c] # Credentials!Idle /\ keyRequest[c].kind = "syncPhoneNumbers" /\ keyRequest[c].pc = "find"
    BY <1>13, <1>n DEF Credentials!FindNumber, Credentials!At
  <2>2. DOMAIN keyRequest[c] = {"kind", "pc", "left", "num"} /\ keyRequest[c].left \subseteq Numbers
    BY <2>1, <1>t DEF Credentials!Request, Credentials!Idle
  <2>3. UNCHANGED <<cred, client, key, rows, accepted>>
    BY <1>13 DEF Credentials!FindNumber, Credentials!twilio, Credentials!history
  <2>4. PICK k \in keyRequest[c].left :
            IF rows[k] > 0 THEN Credentials!Becomes(c, Credentials!Working(keyRequest[c].left \ {k}))
            ELSE Credentials!Becomes(c, [keyRequest[c] EXCEPT !.pc = "insert", !.num = k])
    BY <1>13 DEF Credentials!FindNumber
  <2>5. CASE rows[k] > 0
    <3>1. PICK r : r = Credentials!Working(keyRequest[c].left \ {k}) /\ Credentials!Becomes(c, r)
      BY <2>4, <2>5
    <3>. QED
      BY <2>1, <2>3, <3>1, <1>w, <1>g, <1>v
  <2>6. CASE ~(rows[k] > 0)
    <3>1. PICK r : r = [keyRequest[c] EXCEPT !.pc = "insert", !.num = k] /\ Credentials!Becomes(c, r)
      BY <2>4, <2>6
    <3>2. r.kind = "syncPhoneNumbers" /\ r.num = k /\ rows[k] = 0
      BY <2>1, <2>2, <2>6, <3>1, <1>t
    <3>3. RequestFits(r)'
      BY <2>3, <3>2 DEF RequestFits
    <3>. QED
      BY <2>1, <2>3, <3>1, <3>2, <3>3, <1>g, <1>v
  <2>. QED
    BY <2>5, <2>6
<1>14. ASSUME NEW c \in Clients, Credentials!InsertNumber(c) PROVE CredInv'
  <2>1. keyRequest[c] # Credentials!Idle /\ keyRequest[c].kind = "syncPhoneNumbers"
    BY <1>14, <1>n DEF Credentials!InsertNumber, Credentials!At
  <2>2. UNCHANGED <<cred, client, key, accepted>>
    BY <1>14 DEF Credentials!InsertNumber, Credentials!twilio, Credentials!history
  <2>3. PICK r : r = Credentials!Working(keyRequest[c].left \ {keyRequest[c].num}) /\ Credentials!Becomes(c, r)
    BY <1>14 DEF Credentials!InsertNumber
  <2>. QED
    BY <2>1, <2>2, <2>3, <1>w, <1>g, <1>v
<1>15. ASSUME NEW c \in Clients, Credentials!EndSync(c) PROVE CredInv'
  BY <1>15, <1>e, <1>s, <1>v, <1>n
  DEF Credentials!EndSync, Credentials!At, Credentials!twilio, Credentials!history
<1>16. CASE Credentials!Revoke
  <2>1. UNCHANGED <<cred, client, key, keyRequest, rows, accepted>>
    BY <1>16 DEF Credentials!Revoke
  <2>. QED
    BY <2>1 DEF CredInv, RequestFits, Credentials!Built, Credentials!Opens, RecordOf, Secret,
        Credentials!AuthMethod
<1>17. CASE Credentials!NumbersChange
  <2>1. UNCHANGED <<cred, client, key, keyRequest, rows, accepted>>
    BY <1>17 DEF Credentials!NumbersChange
  <2>. QED
    BY <2>1 DEF CredInv, RequestFits, Credentials!Built, Credentials!Opens, RecordOf, Secret,
        Credentials!AuthMethod
<1>18. CASE Credentials!Restart
  <2>1. \A d \in Clients : keyRequest'[d] = Credentials!Idle
    BY <1>18 DEF Credentials!Restart
  <2>2. UNCHANGED <<cred, rows, accepted>> /\ client' = None
    BY <1>18 DEF Credentials!Restart
  <2>3. ASSUME NEW d \in Clients, NEW q, q = keyRequest'[d] PROVE RequestFits(q)'
    BY <2>1, <2>3, <1>n DEF RequestFits
  <2>4. cred'.verified => RecordOf(cred)' \in accepted'
    BY <2>2, <1>v DEF RecordOf, Secret, Credentials!AuthMethod
  <2>. QED
    BY <2>1, <2>2, <2>3, <2>4, <1>n DEF CredInv, RequestFits
<1>19. CASE UNCHANGED credentialVars
  <2>1. UNCHANGED <<cred, client, key, keyRequest, rows, accepted>>
    BY <1>19 DEF credentialVars
  <2>. QED
    BY <2>1 DEF CredInv, RequestFits, Credentials!Built, Credentials!Opens, RecordOf, Secret,
        Credentials!AuthMethod
<1>. QED
  BY <1>1, <1>2, <1>3, <1>4, <1>5, <1>6, <1>7, <1>8, <1>9, <1>10, <1>11, <1>12, <1>13, <1>14, <1>15, <1>16,
     <1>17, <1>18, <1>19
  DEF Credentials!Next

(* The inductive invariant of the numbers, where a synchronisation runs    *)
(* alone: the number one is about to insert has no row yet.                *)
NumberInv ==
    /\ Credentials!OneRowPerNumber
    /\ \A c \in Clients :
          Credentials!At(c, "syncPhoneNumbers", "insert") => rows[keyRequest[c].num] = 0
    /\ \A c, d \in Clients :
          keyRequest[c].kind = "syncPhoneNumbers" /\ c # d => keyRequest[d] = Credentials!Idle

(* A step keeps it, whatever else overlaps. *)
LEMMA NumberStep ==
    ASSUME "syncPhoneNumbers" \notin KeyTogether, Credentials!TypeOK, NumberInv,
           [Credentials!Next]_credentialVars
    PROVE  NumberInv'
<1>t. /\ keyRequest \in [Clients -> Credentials!Request] /\ rows \in [Numbers -> 0..2]
      /\ \A c \in Clients : keyRequest[c] \in Credentials!Request
  BY DEF Credentials!TypeOK
<1>v. /\ \A k \in Numbers : rows[k] <= 1
      /\ \A c \in Clients : keyRequest[c].kind = "syncPhoneNumbers" /\ keyRequest[c].pc = "insert"
                              => rows[keyRequest[c].num] = 0
      /\ \A c, d \in Clients :
            keyRequest[c].kind = "syncPhoneNumbers" /\ c # d => keyRequest[d] = Credentials!Idle
  BY DEF NumberInv, Credentials!OneRowPerNumber, Credentials!At
<1>n. Credentials!Idle.kind = "none" /\ Credentials!Idle.pc = "idle"
  BY DEF Credentials!Idle
<1>b. ASSUME NEW c \in Clients, NEW r, Credentials!Becomes(c, r)
      PROVE  keyRequest'[c] = r /\ \A d \in Clients \ {c} : keyRequest'[d] = keyRequest[d]
  BY <1>b, <1>t DEF Credentials!Becomes
<1>h. ASSUME NEW c \in Clients, NEW r, Credentials!Becomes(c, r), keyRequest[c] # Credentials!Idle, UNCHANGED rows,
             r = Credentials!Idle \/ r.kind = keyRequest[c].kind,
             r.kind = "syncPhoneNumbers" /\ r.pc = "insert" => rows[r.num] = 0
      PROVE  NumberInv'
  BY <1>h, <1>b, <1>v, <1>n DEF NumberInv, Credentials!OneRowPerNumber, Credentials!At
<1>e. ASSUME NEW c \in Clients, Credentials!Ends(c), keyRequest[c] # Credentials!Idle, UNCHANGED rows
      PROVE  NumberInv'
  BY <1>e, <1>h, <1>n DEF Credentials!Ends
<1>w. ASSUME NEW left, NEW r, r = Credentials!Working(left)
      PROVE  r.kind = "syncPhoneNumbers" /\ r.pc = "find"
  BY <1>w DEF Credentials!Working
<1>1. ASSUME NEW c \in Clients, Credentials!Arrive(c) PROVE NumberInv'
  <2>1. PICK kind \in Credentials!AllKinds :
            /\ \A d \in Clients \ {c} : keyRequest[d] # Credentials!Idle
                 => {kind, keyRequest[d].kind} \subseteq KeyTogether
            /\ Credentials!Becomes(c, [kind |-> kind, pc |-> "start"])
    BY <1>1 DEF Credentials!Arrive
  <2>2. /\ keyRequest'[c] = [kind |-> kind, pc |-> "start"]
        /\ \A d \in Clients \ {c} : keyRequest'[d] = keyRequest[d]
    BY <2>1, <1>b
  <2>3. UNCHANGED rows
    BY <1>1 DEF Credentials!Arrive
  <2>4. ASSUME NEW d \in Clients, NEW e \in Clients, keyRequest'[d].kind = "syncPhoneNumbers", d # e
        PROVE  keyRequest'[e] = Credentials!Idle
    BY <2>1, <2>2, <2>4, <1>v, <1>n
  <2>5. \A d \in Clients : keyRequest'[d].kind = "syncPhoneNumbers" /\ keyRequest'[d].pc = "insert"
                           => rows[keyRequest'[d].num] = 0
    BY <2>2, <1>v
  <2>. QED
    BY <2>3, <2>4, <2>5, <1>v DEF NumberInv, Credentials!OneRowPerNumber, Credentials!At
<1>2. ASSUME NEW c \in Clients, Credentials!Abandon(c) PROVE NumberInv'
  BY <1>2, <1>e DEF Credentials!Abandon
<1>3. ASSUME NEW c \in Clients, Credentials!FindCred(c) \/ Credentials!CacheClient(c) PROVE NumberInv'
  <2>1. keyRequest[c].kind = "getClient" /\ UNCHANGED rows
    BY <1>3 DEF Credentials!FindCred, Credentials!CacheClient, Credentials!At
  <2>2. PICK r : Credentials!Becomes(c, r) /\ (r = Credentials!Idle \/ r.kind = "getClient")
    BY <1>3 DEF Credentials!FindCred, Credentials!CacheClient, Credentials!Ends
  <2>. QED
    BY <2>1, <2>2, <1>h, <1>n
<1>4. ASSUME NEW c \in Clients, Credentials!SaveCredentials(c) \/ Credentials!StoreCredentials(c)
      PROVE  NumberInv'
  <2>1. keyRequest[c].kind = "saveCredentials" /\ UNCHANGED rows
    BY <1>4 DEF Credentials!SaveCredentials, Credentials!StoreCredentials, Credentials!At
  <2>2. PICK r : Credentials!Becomes(c, r) /\ (r = Credentials!Idle \/ r.kind = "saveCredentials")
    <3>1. CASE Credentials!SaveCredentials(c)
      BY <3>1 DEF Credentials!SaveCredentials
    <3>2. CASE Credentials!StoreCredentials(c)
      BY <3>2 DEF Credentials!StoreCredentials, Credentials!Ends
    <3>. QED
      BY <1>4, <3>1, <3>2
  <2>. QED
    BY <2>1, <2>2, <1>h, <1>n
<1>5. ASSUME NEW c \in Clients,
             \/ Credentials!FindTested(c) \/ Credentials!BuildTested(c) \/ Credentials!FetchAccount(c)
             \/ Credentials!StoreVerified(c) \/ Credentials!StoreFailed(c)
      PROVE  NumberInv'
  <2>1. keyRequest[c].kind = "testConnection" /\ UNCHANGED rows
    BY <1>5 DEF Credentials!FindTested, Credentials!BuildTested, Credentials!FetchAccount,
        Credentials!StoreVerified, Credentials!StoreFailed, Credentials!At
  <2>2. /\ \A pc, use : [keyRequest[c] EXCEPT !.pc = pc, !.use = use].kind = "testConnection"
        /\ [keyRequest[c] EXCEPT !.pc = "failed"].kind = "testConnection"
    BY <2>1, <1>t DEF Credentials!Request, Credentials!Idle
  <2>3. PICK r : Credentials!Becomes(c, r) /\ (r = Credentials!Idle \/ r.kind = "testConnection")
    <3>1. CASE Credentials!FindTested(c)
      BY <3>1 DEF Credentials!FindTested, Credentials!Ends
    <3>2. CASE Credentials!BuildTested(c)
      BY <3>2, <2>2 DEF Credentials!BuildTested
    <3>3. CASE Credentials!FetchAccount(c)
      <4>1. PICK r : /\ Credentials!Becomes(c, r)
                     /\ \/ r = [kind |-> "testConnection", pc |-> "verified"]
                        \/ r = [keyRequest[c] EXCEPT !.pc = "failed"]
        BY <3>3 DEF Credentials!FetchAccount
      <4>2. CASE r = [kind |-> "testConnection", pc |-> "verified"]
        BY <4>1, <4>2
      <4>3. CASE r = [keyRequest[c] EXCEPT !.pc = "failed"]
        BY <4>1, <4>3, <2>2
      <4>. QED
        BY <4>1, <4>2, <4>3
    <3>4. CASE Credentials!StoreVerified(c) \/ Credentials!StoreFailed(c)
      BY <3>4 DEF Credentials!StoreVerified, Credentials!StoreFailed, Credentials!Ends
    <3>. QED
      BY <1>5, <3>1, <3>2, <3>3, <3>4
  <2>. QED
    BY <2>1, <2>3, <1>h, <1>n
<1>6. ASSUME NEW c \in Clients, Credentials!ListNumbers(c) PROVE NumberInv'
  <2>1. keyRequest[c].kind = "syncPhoneNumbers" /\ UNCHANGED rows
    BY <1>6 DEF Credentials!ListNumbers, Credentials!At
  <2>2. PICK r : Credentials!Becomes(c, r) /\ (r = Credentials!Idle \/ r = Credentials!Working(owned))
    BY <1>6 DEF Credentials!ListNumbers, Credentials!Ends
  <2>. QED
    BY <2>1, <2>2, <1>h, <1>n, <1>w
<1>7. ASSUME NEW c \in Clients, Credentials!FindNumber(c) PROVE NumberInv'
  <2>1. keyRequest[c].kind = "syncPhoneNumbers" /\ keyRequest[c].pc = "find" /\ UNCHANGED rows
    BY <1>7 DEF Credentials!FindNumber, Credentials!At
  <2>2. DOMAIN keyRequest[c] = {"kind", "pc", "left", "num"} /\ keyRequest[c].left \subseteq Numbers
    BY <2>1, <1>t DEF Credentials!Request, Credentials!Idle
  <2>3. PICK k \in keyRequest[c].left :
            IF rows[k] > 0 THEN Credentials!Becomes(c, Credentials!Working(keyRequest[c].left \ {k}))
            ELSE Credentials!Becomes(c, [keyRequest[c] EXCEPT !.pc = "insert", !.num = k])
    BY <1>7 DEF Credentials!FindNumber
  <2>4. CASE rows[k] > 0
    <3>1. PICK r : r = Credentials!Working(keyRequest[c].left \ {k}) /\ Credentials!Becomes(c, r)
      BY <2>3, <2>4
    <3>. QED
      BY <2>1, <3>1, <1>h, <1>n, <1>w
  <2>5. CASE ~(rows[k] > 0)
    <3>1. PICK r : r = [keyRequest[c] EXCEPT !.pc = "insert", !.num = k] /\ Credentials!Becomes(c, r)
      BY <2>3, <2>5
    <3>2. r.kind = "syncPhoneNumbers" /\ r.num = k /\ rows[k] = 0
      BY <2>1, <2>2, <2>5, <3>1, <1>t
    <3>. QED
      BY <2>1, <3>1, <3>2, <1>h, <1>n
  <2>. QED
    BY <2>4, <2>5
<1>8. ASSUME NEW c \in Clients, Credentials!InsertNumber(c) PROVE NumberInv'
  <2>1. keyRequest[c].kind = "syncPhoneNumbers" /\ rows[keyRequest[c].num] = 0
    BY <1>8, <1>v DEF Credentials!InsertNumber, Credentials!At
  <2>2. /\ rows' = [rows EXCEPT ![keyRequest[c].num] = IF @ = 2 THEN 2 ELSE @ + 1]
        /\ keyRequest'[c] = Credentials!Working(keyRequest[c].left \ {keyRequest[c].num})
        /\ \A d \in Clients \ {c} : keyRequest'[d] = Credentials!Idle
    BY <1>8, <2>1, <1>b, <1>v DEF Credentials!InsertNumber
  <2>3. \A k \in Numbers : rows'[k] <= 1
    BY <2>1, <2>2, <1>t, <1>v
  <2>. QED
    BY <2>2, <2>3, <1>n, <1>w DEF NumberInv, Credentials!OneRowPerNumber, Credentials!At
<1>9. ASSUME NEW c \in Clients, Credentials!EndSync(c) PROVE NumberInv'
  BY <1>9, <1>e, <1>n DEF Credentials!EndSync, Credentials!At
<1>10. CASE Credentials!Restart
  BY <1>10, <1>v, <1>n DEF Credentials!Restart, NumberInv, Credentials!OneRowPerNumber, Credentials!At
<1>11. CASE Credentials!Revoke \/ Credentials!NumbersChange \/ UNCHANGED credentialVars
  <2>1. UNCHANGED <<keyRequest, rows>>
    BY <1>11 DEF Credentials!Revoke, Credentials!NumbersChange, credentialVars
  <2>. QED
    BY <2>1 DEF NumberInv, Credentials!OneRowPerNumber, Credentials!At
<1>. QED
  BY <1>1, <1>2, <1>3, <1>4, <1>5, <1>6, <1>7, <1>8, <1>9, <1>10, <1>11 DEF Credentials!Next

(* The cached client is that of the stored credentials, and credentials    *)
(* marked verified were accepted by Twilio, while saves run alone.         *)
LEMMA CacheAlways ==
    ASSUME "saveCredentials" \notin KeyTogether
    PROVE  AllSpec => [](Credentials!CacheIsCurrent /\ Credentials!VerifiedWasAccepted)
<1>1. AllInit => CredInv
  BY DEF AllInit, Credentials!Init, CredInv, Credentials!NoCred, Credentials!Idle, RequestFits
<1>2. Credentials!TypeOK /\ CredInv /\ [AllNext]_allVars => CredInv'
  BY CredInvStep, AllMovesCredentials
<1>3. CredInv => Credentials!CacheIsCurrent /\ Credentials!VerifiedWasAccepted
  BY BuiltIsRecord DEF CredInv, Credentials!CacheIsCurrent, Credentials!VerifiedWasAccepted
<1>. QED
  BY <1>1, <1>2, <1>3, CredentialsTyped, PTL DEF AllSpec

(* A number has one row, while synchronisations run alone. *)
LEMMA NumbersAlways ==
    ASSUME "syncPhoneNumbers" \notin KeyTogether PROVE AllSpec => []Credentials!OneRowPerNumber
<1>1. AllInit => NumberInv
  BY DEF AllInit, Credentials!Init, NumberInv, Credentials!OneRowPerNumber, Credentials!Idle, Credentials!At
<1>2. Credentials!TypeOK /\ NumberInv /\ [AllNext]_allVars => NumberInv'
  BY NumberStep, AllMovesCredentials
<1>3. NumberInv => Credentials!OneRowPerNumber
  BY DEF NumberInv
<1>. QED
  BY <1>1, <1>2, <1>3, CredentialsTyped, PTL DEF AllSpec

(* A step of the suite is one of the backup module, or leaves it alone. *)
LEMMA AllMovesDisk == [AllNext]_allVars => [Disk!Next]_diskVars
BY DEF AllNext, allVars

(* What the suite assumes of the constants of the backup module. *)
LEMMA BackupConstants ==
    /\ None \notin Files /\ HasPgDump \in BOOLEAN
    /\ MaxNights \in Nat /\ MaxFails \in Nat /\ MaxCrashes \in Nat
BY AdministrationAssumption DEF Disk!BackupAssumption

(* Files that a dump began and that no dump is writing. *)
Unfinished == {f \in Files \ {dump} : file[f] = "partial"}

(* Files reported as backups that are not whole. *)
ReportedBad == {f \in reported : file[f] # "whole"}

(* The inductive invariant: every file a dump left unfinished, and every   *)
(* bad one reported, is paid for by a failure or a crash that the module   *)
(* counts.                                                                 *)
DiskInv ==
    /\ Disk!TypeOK
    /\ reported \subseteq Disk!Listed
    /\ dump # None => file[dump] = "partial"
    /\ HasPgDump => /\ IsFiniteSet(Unfinished) /\ Cardinality(Unfinished) <= crashes + fails
                    /\ IsFiniteSet(ReportedBad) /\ Cardinality(ReportedBad) <= fails

(* A step of the backup module keeps it. *)
LEMMA DiskStep == ASSUME DiskInv, [Disk!Next]_diskVars PROVE DiskInv'
<1>t. /\ file \in [Files -> {"absent", "partial", "whole"}] /\ process \in {"up", "down"} /\ due \in BOOLEAN
      /\ dump \in Files \cup {None} /\ (dump # None => process = "up") /\ reported \subseteq Files
      /\ nights \in 0..MaxNights /\ fails \in 0..MaxFails /\ crashes \in 0..MaxCrashes
      /\ reported \subseteq Disk!Listed /\ (dump # None => file[dump] = "partial")
  BY DEF DiskInv, Disk!TypeOK
<1>n. /\ None \notin Files /\ MaxNights \in Nat /\ MaxFails \in Nat /\ MaxCrashes \in Nat
      /\ nights \in Nat /\ fails \in Nat /\ crashes \in Nat
  BY <1>t, BackupConstants
<1>k. HasPgDump => /\ IsFiniteSet(Unfinished) /\ Cardinality(Unfinished) <= crashes + fails
                   /\ IsFiniteSet(ReportedBad) /\ Cardinality(ReportedBad) <= fails
  BY DEF DiskInv
<1>c. ASSUME HasPgDump, fails' \in Nat, crashes' \in Nat, fails <= fails', crashes <= crashes',
             \/ Unfinished' \subseteq Unfinished
             \/ \E f : Unfinished' \subseteq Unfinished \cup {f} /\ crashes + fails < crashes' + fails',
             \/ ReportedBad' \subseteq ReportedBad
             \/ \E f : ReportedBad' \subseteq ReportedBad \cup {f} /\ fails < fails'
      PROVE  /\ IsFiniteSet(Unfinished)' /\ Cardinality(Unfinished)' <= crashes' + fails'
             /\ IsFiniteSet(ReportedBad)' /\ Cardinality(ReportedBad)' <= fails'
  <2>1. IsFiniteSet(Unfinished)' /\ Cardinality(Unfinished)' <= crashes' + fails'
    <3>1. CASE Unfinished' \subseteq Unfinished
      <4>1. /\ IsFiniteSet(Unfinished') /\ Cardinality(Unfinished') \in Nat /\ Cardinality(Unfinished) \in Nat
            /\ Cardinality(Unfinished') <= Cardinality(Unfinished)
        BY <1>c, <1>k, <3>1, CountPart
      <4>. QED
        BY <4>1, <1>c, <1>k, <1>n
    <3>2. ASSUME NEW f, Unfinished' \subseteq Unfinished \cup {f}, crashes + fails < crashes' + fails'
          PROVE  IsFiniteSet(Unfinished)' /\ Cardinality(Unfinished)' <= crashes' + fails'
      <4>1. /\ IsFiniteSet(Unfinished') /\ Cardinality(Unfinished') \in Nat /\ Cardinality(Unfinished) \in Nat
            /\ Cardinality(Unfinished') <= Cardinality(Unfinished) + 1
        BY <1>c, <1>k, <3>2, CountOneMore
      <4>2. Cardinality(Unfinished) <= crashes + fails /\ fails' \in Nat /\ crashes' \in Nat
        BY <1>c, <1>k
      <4>3. ASSUME NEW m \in Nat, NEW k \in Nat, NEW s \in Int, NEW t \in Int, k <= m + 1, m <= s, s < t
            PROVE  k <= t
        BY <4>3
      <4>4. crashes + fails \in Int /\ crashes' + fails' \in Int
        BY <4>2, <1>n
      <4>5. Cardinality(Unfinished') <= crashes' + fails'
        BY <4>1, <4>2, <4>3, <4>4, <3>2
      <4>. QED
        BY <4>1, <4>5
    <3>. QED
      BY <3>1, <3>2, <1>c
  <2>2. IsFiniteSet(ReportedBad)' /\ Cardinality(ReportedBad)' <= fails'
    <3>1. CASE ReportedBad' \subseteq ReportedBad
      <4>1. /\ IsFiniteSet(ReportedBad')
            /\ Cardinality(ReportedBad') \in Nat /\ Cardinality(ReportedBad) \in Nat
            /\ Cardinality(ReportedBad') <= Cardinality(ReportedBad)
        BY <1>c, <1>k, <3>1, CountPart
      <4>. QED
        BY <4>1, <1>c, <1>k, <1>n
    <3>2. ASSUME NEW f, ReportedBad' \subseteq ReportedBad \cup {f}, fails < fails'
          PROVE  IsFiniteSet(ReportedBad)' /\ Cardinality(ReportedBad)' <= fails'
      <4>1. /\ IsFiniteSet(ReportedBad')
            /\ Cardinality(ReportedBad') \in Nat /\ Cardinality(ReportedBad) \in Nat
            /\ Cardinality(ReportedBad') <= Cardinality(ReportedBad) + 1
        BY <1>c, <1>k, <3>2, CountOneMore
      <4>. QED
        BY <4>1, <3>2, <1>c, <1>k, <1>n
    <3>. QED
      BY <3>1, <3>2, <1>c
  <2>. QED
    BY <2>1, <2>2
<1>h. ASSUME Disk!TypeOK', reported' \subseteq Disk!Listed', dump' # None => file'[dump'] = "partial",
             UNCHANGED <<fails, crashes>> \/ (fails' \in Nat /\ crashes' \in Nat),
             fails <= fails', crashes <= crashes',
             HasPgDump => /\ \/ Unfinished' \subseteq Unfinished
                             \/ \E f : Unfinished' \subseteq Unfinished \cup {f} /\ crashes + fails < crashes' + fails'
                          /\ \/ ReportedBad' \subseteq ReportedBad
                             \/ \E f : ReportedBad' \subseteq ReportedBad \cup {f} /\ fails < fails'
      PROVE  DiskInv'
  BY <1>h, <1>c, <1>n DEF DiskInv
<1>1. CASE Disk!Night
  <2>1. /\ Disk!TypeOK' /\ Unfinished' = Unfinished /\ ReportedBad' = ReportedBad
        /\ reported' \subseteq Disk!Listed'
    BY <1>1, <1>t, <1>n DEF Disk!Night, Disk!TypeOK, Unfinished, ReportedBad, Disk!Listed
  <2>. QED
    BY <1>1, <2>1, <1>h, <1>t, <1>n DEF Disk!Night
<1>2. ASSUME NEW f \in Files, Disk!CreateBackup(f), due' \in BOOLEAN PROVE DiskInv'
  <2>1. file'[f] = "partial" /\ \A g \in Files \ {f} : file'[g] = file[g]
    BY <1>2, <1>t DEF Disk!CreateBackup
  <2>2. f \notin reported
    BY <1>2, <1>t DEF Disk!CreateBackup, Disk!Listed
  <2>3. Disk!TypeOK'
    BY <1>2, <1>t DEF Disk!CreateBackup, Disk!TypeOK
  <2>4. Unfinished' \subseteq Unfinished
    BY <1>2, <2>1, <1>n DEF Disk!CreateBackup, Unfinished
  <2>5. ReportedBad' \subseteq ReportedBad
    BY <1>2, <2>1, <2>2, <1>t DEF Disk!CreateBackup, ReportedBad
  <2>6. reported' \subseteq Disk!Listed'
    BY <1>2, <2>1, <2>2, <1>t DEF Disk!CreateBackup, Disk!Listed
  <2>. QED
    BY <1>2, <2>1, <2>3, <2>4, <2>5, <2>6, <1>h, <1>n DEF Disk!CreateBackup
<1>3. CASE Disk!Dumped
  <2>1. dump \in Files /\ file'[dump] = "whole" /\ \A g \in Files \ {dump} : file'[g] = file[g]
    BY <1>3, <1>t DEF Disk!Dumped
  <2>3. Disk!TypeOK'
    BY <1>3, <1>t, <2>1 DEF Disk!Dumped, Disk!TypeOK, Disk!Report
  <2>4. Unfinished' \subseteq Unfinished
    BY <1>3, <2>1 DEF Disk!Dumped, Unfinished
  <2>5. ReportedBad' \subseteq ReportedBad
    BY <1>3, <2>1, <1>t DEF Disk!Dumped, Disk!Report, ReportedBad
  <2>6. reported' \subseteq Disk!Listed'
    BY <1>3, <2>1, <1>t DEF Disk!Dumped, Disk!Report, Disk!Listed
  <2>. QED
    BY <1>3, <2>3, <2>4, <2>5, <2>6, <1>h, <1>n DEF Disk!Dumped
<1>4. CASE Disk!DumpFails
  <2>1. dump \in Files /\ file' = file /\ dump' = None /\ UNCHANGED crashes
    BY <1>4, <1>t DEF Disk!DumpFails
  <2>2. fails' \in 0..MaxFails /\ fails <= fails' /\ (HasPgDump => fails' = fails + 1)
    BY <1>4, <1>t, <1>n DEF Disk!DumpFails
  <2>3. Disk!TypeOK'
    BY <1>4, <1>t, <2>1, <2>2 DEF Disk!DumpFails, Disk!TypeOK, Disk!Report
  <2>4. Unfinished' \subseteq Unfinished \cup {dump}
    BY <2>1 DEF Unfinished
  <2>5. ReportedBad' \subseteq ReportedBad \cup {dump}
    BY <1>4, <2>1 DEF Disk!DumpFails, Disk!Report, ReportedBad
  <2>6. reported' \subseteq Disk!Listed'
    BY <1>4, <2>1, <1>t DEF Disk!DumpFails, Disk!Report, Disk!Listed
  <2>7. HasPgDump => crashes + fails < crashes' + fails' /\ fails < fails'
    BY <2>1, <2>2, <1>n
  <2>8. HasPgDump => /\ \E f : Unfinished' \subseteq Unfinished \cup {f} /\ crashes + fails < crashes' + fails'
                     /\ \E f : ReportedBad' \subseteq ReportedBad \cup {f} /\ fails < fails'
    BY <2>4, <2>5, <2>7
  <2>9. fails' \in Nat /\ crashes' \in Nat /\ fails <= fails' /\ crashes <= crashes'
    BY <2>1, <2>2, <1>n
  <2>. QED
    BY <2>1, <2>3, <2>6, <2>8, <2>9, <1>h, <1>n
<1>5. CASE Disk!WriteFails
  <2>1. dump \in Files /\ file' = file /\ dump' = None /\ UNCHANGED <<crashes, reported>>
    BY <1>5, <1>t DEF Disk!WriteFails
  <2>2. fails' \in 0..MaxFails /\ fails' = fails + 1 /\ crashes + fails < crashes' + fails'
    BY <1>5, <2>1, <1>t, <1>n DEF Disk!WriteFails
  <2>3. Disk!TypeOK'
    BY <1>5, <1>t, <2>1, <2>2 DEF Disk!WriteFails, Disk!TypeOK
  <2>4. Unfinished' \subseteq Unfinished \cup {dump}
    BY <2>1 DEF Unfinished
  <2>5. ReportedBad' \subseteq ReportedBad /\ reported' \subseteq Disk!Listed'
    BY <2>1, <1>t DEF ReportedBad, Disk!Listed
  <2>. QED
    BY <2>1, <2>2, <2>3, <2>4, <2>5, <1>h, <1>n
<1>6. CASE Disk!Crash
  <2>1. file' = file /\ dump' = None /\ UNCHANGED <<fails, reported>>
    BY <1>6 DEF Disk!Crash
  <2>2. crashes' \in 0..MaxCrashes /\ crashes' = crashes + 1 /\ crashes + fails < crashes' + fails'
    BY <1>6, <2>1, <1>t, <1>n DEF Disk!Crash
  <2>3. Disk!TypeOK'
    BY <1>6, <1>t, <2>1, <2>2 DEF Disk!Crash, Disk!TypeOK
  <2>4. Unfinished' \subseteq Unfinished \cup {dump}
    BY <2>1 DEF Unfinished
  <2>5. ReportedBad' \subseteq ReportedBad /\ reported' \subseteq Disk!Listed'
    BY <2>1, <1>t DEF ReportedBad, Disk!Listed
  <2>. QED
    BY <2>1, <2>2, <2>3, <2>4, <2>5, <1>h, <1>n
<1>7. CASE Disk!Restart
  <2>1. /\ Disk!TypeOK' /\ Unfinished' = Unfinished /\ ReportedBad' = ReportedBad
        /\ reported' \subseteq Disk!Listed'
    BY <1>7, <1>t DEF Disk!Restart, Disk!TypeOK, Unfinished, ReportedBad, Disk!Listed
  <2>. QED
    BY <1>7, <2>1, <1>h, <1>t, <1>n DEF Disk!Restart
<1>8. ASSUME NEW f \in Files, Disk!DeleteBackup(f) PROVE DiskInv'
  <2>1. /\ file'[f] = "absent" /\ \A g \in Files \ {f} : file'[g] = file[g]
        /\ reported' = reported \ {f} /\ dump' = None
    BY <1>8, <1>t DEF Disk!DeleteBackup
  <2>3. Disk!TypeOK'
    BY <1>8, <1>t DEF Disk!DeleteBackup, Disk!TypeOK
  <2>4. Unfinished' \subseteq Unfinished
    BY <1>8, <2>1 DEF Disk!DeleteBackup, Unfinished
  <2>5. ReportedBad' \subseteq ReportedBad
    BY <2>1, <1>t DEF ReportedBad
  <2>6. reported' \subseteq Disk!Listed'
    BY <2>1, <1>t DEF Disk!Listed
  <2>. QED
    BY <1>8, <2>1, <2>3, <2>4, <2>5, <2>6, <1>h, <1>n DEF Disk!DeleteBackup
<1>9. CASE UNCHANGED diskVars
  BY <1>9 DEF diskVars, DiskInv, Disk!TypeOK, Disk!Listed, Unfinished, ReportedBad
<1>10. ASSUME NEW f \in Files, Disk!ScheduledBackup(f) \/ Disk!RequestedBackup(f) PROVE DiskInv'
  BY <1>10, <1>2, <1>t DEF Disk!ScheduledBackup, Disk!RequestedBackup
<1>. QED
  BY <1>1, <1>3, <1>4, <1>5, <1>6, <1>7, <1>8, <1>9, <1>10 DEF Disk!Next

(* It holds in every state. *)
LEMMA DiskAlways == AllSpec => []DiskInv
<1>1. ASSUME AllInit PROVE DiskInv
  <2>1. Disk!TypeOK /\ dump = None /\ reported = {}
    <3>1. 0 \in 0..MaxNights /\ 0 \in 0..MaxFails /\ 0 \in 0..MaxCrashes
      BY BackupConstants
    <3>. QED
      BY <1>1, <3>1, BackupConstants DEF AllInit, Disk!Init, Disk!TypeOK
  <2>2. Unfinished = {} /\ ReportedBad = {} /\ crashes + fails = 0 /\ fails = 0
    BY <1>1 DEF AllInit, Disk!Init, Unfinished, ReportedBad
  <2>. QED
    BY <2>1, <2>2, FS_EmptySet DEF DiskInv
<1>2. DiskInv /\ [AllNext]_allVars => DiskInv'
  BY DiskStep, AllMovesDisk
<1>. QED
  BY <1>1, <1>2, PTL DEF AllSpec

(* It implies what a backup promises. *)
LEMMA DiskKeeps == ASSUME HasPgDump PROVE DiskInv => Disk!ReportedIsWhole /\ Disk!BadNeedsTrouble
<1>1. \A S : Disk!Cardinality(S) = Cardinality(S)
  BY Zenon DEF Disk!Cardinality, Cardinality, Disk!IsFiniteSet, IsFiniteSet
<1>. QED
  BY <1>1 DEF DiskInv, Disk!ReportedIsWhole, Disk!BadNeedsTrouble, Unfinished, ReportedBad

(* Of the files reported as backups no more are not whole than dumps       *)
(* failed, and no more files are left unfinished than dumps failed or were *)
(* cut off by a crash (BackupService.createBackup, deleteBackup). This is  *)
(* for an image that has pg_dump. Without it, as the image is built, every *)
(* backup is empty and no failure says so, which is why the count of       *)
(* failures cannot hold.                                                   *)
THEOREM BackupsAlwaysWhole == ASSUME HasPgDump PROVE AllSpec => []BackupsAreWhole
<1>1. DiskInv => BackupsAreWhole
  BY DiskKeeps DEF BackupsAreWhole
<1>. QED
  BY <1>1, DiskAlways, PTL

(* The modules that AppModule's tree imports. *)
LEMMA ImportedModules ==
    DOMAIN Imported = {
        "AuthModule", "UsersModule", "OrganizationsModule", "DealersModule", "TwilioModule",
        "MessagesModule", "CallsModule", "ContactsModule", "CampaignsModule", "WebhooksModule",
        "NotificationsModule", "ApiKeysModule", "FilesModule", "BackupModule", "AdminModule",
        "SetupModule", "AiModule", "AnalyticsModule"}
BY DEF Imported

(* The modules of the API are these and AppModule. *)
LEMMA ModulesAre ==
    /\ DOMAIN Modules = DOMAIN Imported \cup {"AppModule"}
    /\ Modules["AppModule"] = AppModule
    /\ \A m \in DOMAIN Imported : Modules[m] = Imported[m]
<1>1. "AppModule" \notin DOMAIN Imported
  BY ImportedModules
<1>. QED
  BY <1>1 DEF Modules

(* Every provider of an imported module sees all it needs but the gateway, *)
(* when ConfigModule is global: each need is exported by a module that its *)
(* module imports, or is global.                                           *)
LEMMA Sees ==
    ASSUME "ConfigService" \in Global, NEW m \in DOMAIN Imported, NEW p \in ProvidersOf(m)
    PROVE  Modules[m].needs[p] \ Visible(m) \subseteq {"EventsGateway"}
<1>m. ProvidersOf(m) = DOMAIN Imported[m].needs /\ Modules[m] = Imported[m]
  BY ModulesAre DEF ProvidersOf
<1>v. Imported[m].own \cup ProvidersOf(m) \cup Global \subseteq Visible(m)
  BY <1>m DEF Visible
<1>e. ASSUME NEW n \in DOMAIN Imported, n \in Imported[m].imports
      PROVE  Imported[n].exports \subseteq Visible(m)
  BY <1>e, <1>m, ModulesAre DEF Visible
<1>1. CASE m = "AuthModule"
  <2>1. Imported[m] = AuthModule
    BY <1>1 DEF Imported
  <2>. QED
    BY <2>1, <1>m, <1>v DEF AuthModule, Module
<1>2. CASE m = "UsersModule"
  <2>1. Imported[m] = UsersModule
    BY <1>2 DEF Imported
  <2>. QED
    BY <2>1, <1>m, <1>v DEF UsersModule, Module
<1>3. CASE m = "OrganizationsModule"
  <2>1. Imported[m] = OrganizationsModule
    BY <1>3 DEF Imported
  <2>. QED
    BY <2>1, <1>m, <1>v DEF OrganizationsModule, Module
<1>4. CASE m = "DealersModule"
  <2>1. Imported[m] = DealersModule
    BY <1>4 DEF Imported
  <2>. QED
    BY <2>1, <1>m, <1>v DEF DealersModule, Module
<1>5. CASE m = "TwilioModule"
  <2>1. Imported[m] = TwilioModule
    BY <1>5 DEF Imported
  <2>. QED
    BY <2>1, <1>m, <1>v DEF TwilioModule, Module
<1>6. CASE m = "MessagesModule"
  <2>1. Imported[m] = MessagesModule
    BY <1>6 DEF Imported
  <2>2. Imported["TwilioModule"].exports \subseteq Visible(m)
    BY <2>1, <1>e, ImportedModules DEF MessagesModule, Module
  <2>3. Imported["TwilioModule"] = TwilioModule
    BY DEF Imported
  <2>. QED
    BY <2>1, <1>m, <1>v, <2>2, <2>3 DEF MessagesModule, Module, TwilioModule
<1>7. CASE m = "CallsModule"
  <2>1. Imported[m] = CallsModule
    BY <1>7 DEF Imported
  <2>2. Imported["TwilioModule"].exports \subseteq Visible(m)
    BY <2>1, <1>e, ImportedModules DEF CallsModule, Module
  <2>3. Imported["TwilioModule"] = TwilioModule
    BY DEF Imported
  <2>. QED
    BY <2>1, <1>m, <1>v, <2>2, <2>3 DEF CallsModule, Module, TwilioModule
<1>8. CASE m = "ContactsModule"
  <2>1. Imported[m] = ContactsModule
    BY <1>8 DEF Imported
  <2>. QED
    BY <2>1, <1>m, <1>v DEF ContactsModule, Module
<1>9. CASE m = "CampaignsModule"
  <2>1. Imported[m] = CampaignsModule
    BY <1>9 DEF Imported
  <2>2. Imported["TwilioModule"].exports \subseteq Visible(m)
    BY <2>1, <1>e, ImportedModules DEF CampaignsModule, Module
  <2>3. Imported["TwilioModule"] = TwilioModule
    BY DEF Imported
  <2>. QED
    BY <2>1, <1>m, <1>v, <2>2, <2>3 DEF CampaignsModule, Module, TwilioModule
<1>10. CASE m = "WebhooksModule"
  <2>1. Imported[m] = WebhooksModule
    BY <1>10 DEF Imported
  <2>2. "MessagesModule" \in Imported[m].imports /\ Imported["MessagesModule"] = MessagesModule
    BY <2>1 DEF WebhooksModule, Module, Imported
  <2>3. MessagesModule.exports \subseteq Visible(m)
    BY <2>2, <1>e, ImportedModules
  <2>4. "MessagesService" \in Visible(m)
    BY <2>3 DEF MessagesModule, Module
  <2>5. "CallsModule" \in Imported[m].imports /\ Imported["CallsModule"] = CallsModule
    BY <2>1 DEF WebhooksModule, Module, Imported
  <2>6. CallsModule.exports \subseteq Visible(m)
    BY <2>5, <1>e, ImportedModules
  <2>7. "CallsService" \in Visible(m)
    BY <2>6 DEF CallsModule, Module
  <2>8. {"Webhook", "WebhookEvent"} \subseteq Visible(m) /\ "ConfigService" \in Visible(m)
    BY <2>1, <1>v DEF WebhooksModule, Module
  <2>9. ProvidersOf(m) = {"WebhooksService"}
    BY <2>1, <1>m DEF WebhooksModule, Module
  <2>10. {"WebhooksService"} \subseteq Visible(m)
    BY <2>9, <1>v
  <2>11. CASE p = "WebhooksService"
    <3>1. Modules[m].needs[p] = {"Webhook", "WebhookEvent", "MessagesService", "CallsService",
          "EventsGateway"}
      BY <2>11, <2>1, <1>m DEF WebhooksModule, Module
    <3>. QED
      BY <3>1, <2>8, <2>10, <2>4, <2>7
  <2>. QED
    BY <2>9, <2>11
<1>11. CASE m = "NotificationsModule"
  <2>1. Imported[m] = NotificationsModule
    BY <1>11 DEF Imported
  <2>. QED
    BY <2>1, <1>m, <1>v DEF NotificationsModule, Module
<1>12. CASE m = "ApiKeysModule"
  <2>1. Imported[m] = ApiKeysModule
    BY <1>12 DEF Imported
  <2>. QED
    BY <2>1, <1>m, <1>v DEF ApiKeysModule, Module
<1>13. CASE m = "FilesModule"
  <2>1. Imported[m] = FilesModule
    BY <1>13 DEF Imported
  <2>. QED
    BY <2>1, <1>m, <1>v DEF FilesModule, Module
<1>14. CASE m = "BackupModule"
  <2>1. Imported[m] = BackupModule
    BY <1>14 DEF Imported
  <2>. QED
    BY <2>1, <1>m, <1>v DEF BackupModule, Module
<1>15. CASE m = "AdminModule"
  <2>1. Imported[m] = AdminModule
    BY <1>15 DEF Imported
  <2>. QED
    BY <2>1, <1>m, <1>v DEF AdminModule, Module
<1>16. CASE m = "SetupModule"
  <2>1. Imported[m] = SetupModule
    BY <1>16 DEF Imported
  <2>2. Imported["TwilioModule"].exports \subseteq Visible(m)
    BY <2>1, <1>e, ImportedModules DEF SetupModule, Module
  <2>3. Imported["TwilioModule"] = TwilioModule
    BY DEF Imported
  <2>. QED
    BY <2>1, <1>m, <1>v, <2>2, <2>3 DEF SetupModule, Module, TwilioModule
<1>17. CASE m = "AiModule"
  <2>1. Imported[m] = AiModule
    BY <1>17 DEF Imported
  <2>. QED
    BY <2>1, <1>m, <1>v DEF AiModule, Module
<1>18. CASE m = "AnalyticsModule"
  <2>1. Imported[m] = AnalyticsModule
    BY <1>18 DEF Imported
  <2>. QED
    BY <2>1, <1>m, <1>v DEF AnalyticsModule, Module
<1>. QED
  BY ImportedModules, <1>1, <1>2, <1>3, <1>4, <1>5, <1>6, <1>7, <1>8, <1>9, <1>10, <1>11, <1>12, <1>13,
     <1>14, <1>15, <1>16, <1>17, <1>18

(* So does every provider of the API. *)
LEMMA SeesAll ==
    ASSUME "ConfigService" \in Global, NEW m \in DOMAIN Modules, NEW p \in ProvidersOf(m)
    PROVE  Modules[m].needs[p] \ Visible(m) \subseteq {"EventsGateway"}
<1>1. CASE m \in DOMAIN Imported
  BY <1>1, Sees
<1>2. CASE m = "AppModule"
  <2>1. Modules[m] = AppModule
    BY <1>2, ModulesAre
  <2>2. "AuthModule" \in Modules[m].imports /\ Modules["AuthModule"] = AuthModule
    BY <2>1, ImportedModules, ModulesAre DEF AppModule, Module, Imported
  <2>3. "JwtService" \in Visible(m)
    BY <2>2 DEF Visible, AuthModule, Module
  <2>4. p = "EventsGateway" /\ Modules[m].needs[p] = {"JwtService", "ConfigService"}
    BY <2>1 DEF ProvidersOf, AppModule, Module
  <2>. QED
    BY <2>3, <2>4 DEF Visible
<1>. QED
  BY <1>1, <1>2, ModulesAre

(* What a provider fails to see is the gateway or nothing. *)
LEMMA Unseens ==
    ASSUME "ConfigService" \in Global, NEW p \in Providers PROVE Unseen(p) \subseteq {"EventsGateway"}
<1>1. \E m \in Scope : p \in ProvidersOf(m)
  BY DEF Providers
<1>2. ModuleOf(p) \in Scope /\ p \in ProvidersOf(ModuleOf(p))
  BY <1>1 DEF ModuleOf
<1>. QED
  BY <1>2, SeesAll, BootAssumption DEF Unseen, Needs

(* A step of the start blames what one provider fails to see, or nothing. *)
Blames == UNCHANGED blamed \/ \E p \in Providers : blamed' = blamed \cup Unseen(p)

(* A step of the start keeps its types, and blames no more than that. *)
LEMMA StartStep ==
    ASSUME TypeOK, [Next]_vars PROVE TypeOK' /\ Blames
<1>t. /\ healthy \subseteq Stores \cup {"api", "web"} /\ api \in {"down", "starting", "listening"}
      /\ made \subseteq Providers /\ tables \in BOOLEAN /\ blamed \subseteq UNION {Needs(p) : p \in Providers}
      /\ served \in BOOLEAN /\ faults \in 0..MaxFaults
  BY DEF TypeOK
<1>g. ASSUME healthy' \subseteq Stores \cup {"api", "web"}, api' \in {"down", "starting", "listening"},
             made' \subseteq Providers, tables' \in BOOLEAN, served' \in BOOLEAN, faults' \in 0..MaxFaults,
             Blames
      PROVE  TypeOK' /\ Blames
  <2>1. \A p \in Providers : Unseen(p) \subseteq UNION {Needs(q) : q \in Providers}
    BY DEF Unseen
  <2>. QED
    BY <1>g, <2>1, <1>t DEF TypeOK, Blames
<1>1. ASSUME NEW s \in Stores, StoreUp(s) PROVE TypeOK' /\ Blames
  BY <1>1, <1>g, <1>t DEF Blames, StoreUp
<1>2. ASSUME NEW c \in Stores \cup {"api"}, GoesDown(c) PROVE TypeOK' /\ Blames
  <2>1. faults' \in 0..MaxFaults
    BY <1>2, <1>t, BootAssumption DEF GoesDown
  <2>. QED
    BY <1>2, <2>1, <1>g, <1>t DEF Blames, GoesDown, Exit
<1>3. ASSUME NEW p \in Providers, Make(p) PROVE TypeOK' /\ Blames
  BY <1>3, <1>g, <1>t DEF Blames, Make
<1>4. ASSUME NEW p \in Providers, Abort(p) PROVE TypeOK' /\ Blames
  BY <1>4, <1>g, <1>t DEF Blames, Abort, Exit
<1>5. CASE ApiStarts
  BY <1>5, <1>g, <1>t DEF Blames, ApiStarts
<1>6. CASE Migrate
  BY <1>6, <1>g, <1>t DEF Blames, Migrate
<1>7. CASE ConnectFails
  BY <1>7, <1>g, <1>t DEF Blames, ConnectFails, Exit
<1>8. CASE Listen
  BY <1>8, <1>g, <1>t DEF Blames, Listen
<1>9. CASE ApiHealthy
  BY <1>9, <1>g, <1>t DEF Blames, ApiHealthy
<1>10. CASE WebStarts
  BY <1>10, <1>g, <1>t DEF Blames, WebStarts
<1>11. CASE Request
  BY <1>11, <1>g, <1>t DEF Blames, Request
<1>12. CASE UNCHANGED vars
  BY <1>12, <1>g, <1>t DEF Blames, vars
<1>. QED
  BY <1>1, <1>2, <1>3, <1>4, <1>5, <1>6, <1>7, <1>8, <1>9, <1>10, <1>11, <1>12 DEF Next

(* A step of the suite is one of the start, or leaves it alone. *)
LEMMA AllMovesStart == [AllNext]_allVars => [Next]_vars
BY DEF AllNext, allVars

(* The start's types hold in every state. *)
LEMMA StartAlways == AllSpec => []TypeOK
<1>1. ASSUME AllInit PROVE TypeOK
  <2>1. 0 \in 0..MaxFaults
    BY BootAssumption
  <2>. QED
    BY <1>1, <2>1 DEF AllInit, Init, TypeOK
<1>2. TypeOK /\ [AllNext]_allVars => TypeOK'
  BY StartStep, AllMovesStart
<1>. QED
  BY <1>1, <1>2, PTL DEF AllSpec

(* Of all that the providers of the API inject, the events gateway is the  *)
(* only one that Nest can fail to find, however the modules are set up and *)
(* in whatever order they are built (the @Module decorators of             *)
(* src/apps/api).                                                          *)
THEOREM OnlyTheGatewayIsEverMissing ==
    ASSUME "ConfigService" \in Global PROVE AllSpec => []OnlyTheGatewayIsMissing
<1>1. AllInit => OnlyTheGatewayIsMissing
  BY DEF AllInit, Init, OnlyTheGatewayIsMissing
<1>2. TypeOK /\ OnlyTheGatewayIsMissing /\ [AllNext]_allVars => OnlyTheGatewayIsMissing'
  BY StartStep, AllMovesStart, Unseens DEF Blames, OnlyTheGatewayIsMissing
<1>. QED
  BY <1>1, <1>2, StartAlways, PTL DEF AllSpec

(* An answer comes from an API that listens, which has its tables and all  *)
(* its providers.                                                          *)
ServedBySome ==
    /\ api = "listening" => tables /\ made = Providers
    /\ served => api = "listening"

(* Nothing is served before the tables are there and every provider is     *)
(* built (bootstrap in main.ts, AppModule).                                *)
THEOREM AllOfTheApiServes == AllSpec => []ServedByAWholeApi
<1>1. AllInit => ServedBySome
  BY DEF AllInit, Init, ServedBySome
<1>2. ServedBySome /\ [Next]_vars => ServedBySome'
  BY DEF ServedBySome, Next, vars, StoreUp, GoesDown, Exit, Make, Abort, ApiStarts, Migrate, ConnectFails,
      Listen,
         ApiHealthy, WebStarts, Request
<1>3. ServedBySome => ServedByAWholeApi
  BY DEF ServedBySome, ServedByAWholeApi
<1>. QED
  BY <1>1, <1>2, <1>3, AllMovesStart, PTL DEF AllSpec

(* The invariant of the accounts the suite checks: two-factor sign-in has  *)
(* its secret, one account has an email, a completed setup leaves an       *)
(* administrator who can sign in and owns an organisation, and no dealer   *)
(* exceeds the quota. Two requests are taken to run alone, because beside  *)
(* others they do break it: disable2FA removes the secret under a profile  *)
(* being saved, and two createOrganization count before either inserts.    *)
THEOREM AccountsAlwaysUsable ==
    ASSUME "disable2FA" \notin AuthTogether, "createOrganization" \notin PortalTogether
    PROVE  AllSpec => []AccountsAreUsable
<1>1. Portal!OneAccountPerEmail /\ Portal!CompletedIsUsable /\ Portal!QuotaHolds /\ Auth!TwoFactorHasSecret
        => AccountsAreUsable
  BY DEF AccountsAreUsable
<1>. QED
  BY <1>1, PortalAlways, QuotaAlways, SecretsAlways, PTL

(* The cached client is that of the stored credentials, verified means     *)
(* accepted, and a number has one row (TwilioService). saveCredentials and *)
(* syncPhoneNumbers are taken to run alone, because beside others they do  *)
(* break it: a client built from the old row is cached after the cache was *)
(* emptied, and two syncs insert the same number.                          *)
THEOREM ClientsAlwaysCurrent ==
    ASSUME "saveCredentials" \notin KeyTogether, "syncPhoneNumbers" \notin KeyTogether
    PROVE  AllSpec => []ClientsAreCurrent
<1>1. Credentials!CacheIsCurrent /\ Credentials!VerifiedWasAccepted /\ Credentials!OneRowPerNumber
        => ClientsAreCurrent
  BY DEF ClientsAreCurrent
<1>. QED
  BY <1>1, CacheAlways, NumbersAlways, PTL

(* The types of the whole suite, of every module in it, hold in every      *)
(* state.                                                                  *)
THEOREM AdministrationTypes == AllSpec => []AllTypeOK
<1>1. AllInit => part \in Parts
  BY DEF AllInit
<1>2. part \in Parts /\ [AllNext]_allVars => (part \in Parts)'
  BY DEF AllNext, allVars
<1>3. part \in Parts /\ Auth!TypeOK /\ Portal!TypeOK /\ Credentials!TypeOK /\ DiskInv /\ TypeOK => AllTypeOK
  BY AdministrationAssumption DEF AllTypeOK, DiskInv
<1>. QED
  BY <1>1, <1>2, <1>3, AuthAlways, PortalAlwaysTyped, CredentialsTyped, DiskAlways, StartAlways, PTL
  DEF AllSpec
================================================================================
