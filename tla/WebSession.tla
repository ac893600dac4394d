------------------------------ MODULE WebSession -------------------------------
(***************************************************************************)
(* The session as the tabs of src/apps/web hold it: the store persisted to *)
(* localStorage, the axios interceptor that refreshes the tokens on a 401  *)
(* and lets other requests wait for it, the login form and the logout      *)
(* button.  The server is AuthService seen from outside; a pair of tokens  *)
(* is known by its number.                                                 *)
(***************************************************************************)
EXTENDS Integers, FiniteSets

CONSTANTS Tabs,
          Requests,      \* requests a tab has under way at a time
          MaxLogins,     \* bound: logins sent by the tabs
          MaxExpiries,   \* bound: times the access tokens made so far expire
          MaxRivals,     \* bound: logins from elsewhere
          MaxFaults,     \* bound: answers lost on the way
          TwoFactor      \* whether the account has 2FA enabled

ASSUME WebAssumption ==
    /\ MaxLogins \in Nat /\ MaxExpiries \in Nat /\ MaxRivals \in Nat /\ MaxFaults \in Nat
    /\ TwoFactor \in BOOLEAN

VARIABLES
    pairs,    \* pairs of tokens made
    current,  \* the pair whose refresh token the account holds; 0 is none
    expired,  \* access tokens up to this pair have expired
    stored,   \* localStorage, shared by the tabs
    tab,      \* each tab's memory
    logins, expiries, rivals, faults,
    disturbed \* history: tabs behind whose back the session was replaced or closed

server == <<pairs, current, expired, expiries>>
vars == <<pairs, current, expired, stored, tab, logins, expiries, rivals, faults, disturbed>>

-----------------------------------------------------------------------------

(* The number of a pair of tokens, 0 for none. *)
Pairs == Nat

(* What useAuthStore persists: user, accessToken and refreshToken. *)
Store == [user : BOOLEAN, pair : Pairs]

LoggedOut == [user |-> FALSE, pair |-> 0]

Kinds == {"data", "login", "logout"}

RequestRecord ==
    [kind : Kinds, at : {"none", "sent", "ok", "refused", "waiting"}, pair : Pairs, retry : BOOLEAN,
     code : BOOLEAN]

NoRequest == [kind |-> "data", at |-> "none", pair |-> 0, retry |-> FALSE, code |-> FALSE]

(* The refresh of the interceptor: the request it is for, what it presents *)
(* and what was answered.                                                  *)
RefreshRecord ==
    [for : Requests, pair : Pairs, answer : {"none", "refused", "tokens"}, made : Pairs]

NoRefresh == {}

(* No tab is ever on a page between the pages of the dashboard and /login; *)
(* "leaving" is a navigation by window.location that is under way.         *)
Tab == [store : Store, page : {"login", "dashboard"}, leaving : BOOLEAN,
        needs2FA : BOOLEAN, asked : BOOLEAN, out : BOOLEAN,
        refreshing : SUBSET RefreshRecord,
        request : [Requests -> RequestRecord]]

TypeOK ==
    /\ pairs \in Pairs /\ current \in Pairs /\ expired \in Pairs
    /\ stored \in Store
    /\ tab \in [Tabs -> Tab]
    /\ \A t \in Tabs : Cardinality(tab[t].refreshing) <= 1
    /\ logins \in 0..MaxLogins /\ expiries \in 0..MaxExpiries
    /\ rivals \in 0..MaxRivals /\ faults \in 0..MaxFaults /\ disturbed \subseteq Tabs

Fresh(store) ==
    [store |-> store, page |-> IF store.user /\ store.pair # 0 THEN "dashboard" ELSE "login",
     leaving |-> FALSE, needs2FA |-> FALSE, asked |-> FALSE, out |-> FALSE,
     refreshing |-> NoRefresh, request |-> [r \in Requests |-> NoRequest]]

Init ==
    /\ pairs = 0 /\ current = 0 /\ expired = 0
    /\ stored = LoggedOut
    /\ tab = [t \in Tabs |-> Fresh(LoggedOut)]
    /\ logins = 0 /\ expiries = 0 /\ rivals = 0 /\ faults = 0 /\ disturbed = {}

Request(t, r) == tab[t].request[r]

Is(t, r, kind, at) == Request(t, r).kind = kind /\ Request(t, r).at = at

Alive(t) == ~tab[t].leaving

-----------------------------------------------------------------------------
(* The server.                                                             *)

(* The access tokens made so far expire, after 15 minutes. *)
Expire ==
    /\ expired < pairs /\ expiries < MaxExpiries
    /\ expiries' = expiries + 1
    /\ expired' = pairs
    /\ UNCHANGED <<pairs, current, stored, tab, logins, rivals, faults, disturbed>>

(* A login from elsewhere, whose tokens replace those of the tabs. *)
Rival ==
    /\ rivals < MaxRivals
    /\ rivals' = rivals + 1
    /\ pairs' = pairs + 1 /\ current' = pairs + 1
    /\ disturbed' = Tabs
    /\ UNCHANGED <<expired, expiries, stored, tab, logins, faults>>

Answered(t, r, at) == tab' = [tab EXCEPT ![t].request[r].at = at]

AnswerData(t, r) ==
    /\ Is(t, r, "data", "sent")
    /\ Answered(t, r, IF Request(t, r).pair > expired THEN "ok" ELSE "refused")
    /\ UNCHANGED <<server, stored, logins, rivals, faults, disturbed>>

(* A logout from one tab ends the session of all. *)
AnswerLogout(t, r) ==
    /\ Is(t, r, "logout", "sent")
    /\ IF Request(t, r).pair > expired
       THEN Answered(t, r, "ok") /\ current' = 0 /\ disturbed' = Tabs
       ELSE Answered(t, r, "refused") /\ UNCHANGED <<current, disturbed>>
    /\ UNCHANGED <<pairs, expired, expiries, stored, logins, rivals, faults>>

(* The password may be wrong, and the code is asked for when there is 2FA. *)
LoginRefused(t, r) ==
    /\ Is(t, r, "login", "sent")
    /\ Answered(t, r, "refused")
    /\ UNCHANGED <<server, stored, logins, rivals, faults, disturbed>>

LoginAccepted(t, r) ==
    /\ Is(t, r, "login", "sent") /\ (TwoFactor => Request(t, r).code)
    /\ pairs' = pairs + 1 /\ current' = pairs + 1
    /\ tab' = [tab EXCEPT ![t].request[r] = [@ EXCEPT !.at = "ok", !.pair = pairs + 1]]
    /\ disturbed' = (IF current = 0 THEN disturbed ELSE Tabs)
    /\ UNCHANGED <<expired, expiries, stored, logins, rivals, faults>>

AnswerLogin(t, r) == LoginRefused(t, r) \/ LoginAccepted(t, r)

AnswerRefresh(t) ==
    \E f \in tab[t].refreshing :
        /\ f.answer = "none"
        /\ IF f.pair # 0 /\ f.pair = current
           THEN /\ pairs' = pairs + 1 /\ current' = pairs + 1
                /\ disturbed' = disturbed \cup (Tabs \ {t})
                /\ tab' = [tab EXCEPT ![t].refreshing = {[f EXCEPT !.answer = "tokens", !.made = pairs + 1]}]
           ELSE /\ tab' = [tab EXCEPT ![t].refreshing = {[f EXCEPT !.answer = "refused"]}]
                /\ UNCHANGED <<pairs, current, disturbed>>
        /\ UNCHANGED <<expired, expiries, stored, logins, rivals, faults>>

(* The answer to a refresh is lost, after the server made it. *)
LoseRefresh(t) ==
    \E f \in tab[t].refreshing :
        /\ f.answer # "none" /\ faults < MaxFaults
        /\ faults' = faults + 1
        /\ tab' = [tab EXCEPT ![t].refreshing = {[f EXCEPT !.answer = "refused"]}]
        /\ UNCHANGED <<server, stored, logins, rivals, disturbed>>

-----------------------------------------------------------------------------
(* The tab sends requests.                                                 *)

(* The request interceptor adds the token the store holds. *)
Sent(t, r, kind, code) ==
    tab' = [tab EXCEPT ![t].request[r] =
              [kind |-> kind, at |-> "sent", pair |-> tab[t].store.pair, retry |-> FALSE,
               code |-> code]]

Free(t, r) == Alive(t) /\ Request(t, r) = NoRequest

LoadData(t, r) ==
    /\ Free(t, r) /\ tab[t].page = "dashboard"
    /\ Sent(t, r, "data", FALSE)
    /\ UNCHANGED <<server, stored, logins, rivals, faults, disturbed>>

UnderWay(t, kind) == \E r \in Requests : Request(t, r) # NoRequest /\ Request(t, r).kind = kind

(* The code can be typed where the form has a field for it. *)
SubmitLogin(t, r) ==
    /\ Free(t, r) /\ tab[t].page = "login" /\ ~UnderWay(t, "login") /\ logins < MaxLogins
    /\ logins' = logins + 1
    /\ Sent(t, r, "login", tab[t].needs2FA)
    /\ UNCHANGED <<server, stored, rivals, faults, disturbed>>

ClickLogout(t, r) ==
    /\ Free(t, r) /\ tab[t].page = "dashboard" /\ ~UnderWay(t, "logout")
    /\ Sent(t, r, "logout", FALSE)
    /\ UNCHANGED <<server, stored, logins, rivals, faults, disturbed>>

-----------------------------------------------------------------------------
(* What a settled request does: the three callers' code after the await.   *)

Settle(s, r) == [s EXCEPT !.request[r] = NoRequest]

(* header.tsx: the store is emptied whether the logout succeeded or not. *)
AfterLogout(s, r) ==
    [Settle(s, r) EXCEPT !.store = LoggedOut, !.page = "login", !.out = TRUE]

Resolved(s, r) ==
    CASE s.request[r].kind = "data" -> Settle(s, r)
      [] s.request[r].kind = "logout" -> AfterLogout(s, r)
      [] s.request[r].kind = "login" ->
           [Settle(s, r) EXCEPT !.store = [user |-> TRUE, pair |-> s.request[r].pair],
                                !.page = "dashboard", !.out = FALSE,
                                !.needs2FA = FALSE, !.asked = FALSE]

(* login/page.tsx: the field for the code is shown when it was asked for,  *)
(* which a wrong password does not; "asked" is history: a login refused.   *)
Rejected(s, r, asked) ==
    CASE s.request[r].kind = "data" -> Settle(s, r)
      [] s.request[r].kind = "logout" -> AfterLogout(s, r)
      [] s.request[r].kind = "login" ->
           [Settle(s, r) EXCEPT !.needs2FA = @ \/ (asked /\ TwoFactor),
                                !.asked = @ \/ asked]

(* Every change of the store is written to localStorage. *)
Becomes(t, s) ==
    /\ tab' = [tab EXCEPT ![t] = s]
    /\ stored' = IF s.store # tab[t].store THEN s.store ELSE stored

Resolve(t, r) ==
    /\ Alive(t) /\ Request(t, r).at = "ok"
    /\ Becomes(t, Resolved(tab[t], r))
    /\ UNCHANGED <<server, logins, rivals, faults, disturbed>>

(* An answer that never came is no 401: the interceptor passes it on. *)
LoseAnswer(t, r) ==
    /\ Alive(t) /\ Request(t, r).at \in {"sent", "ok", "refused"} /\ faults < MaxFaults
    /\ faults' = faults + 1
    /\ Becomes(t, Rejected(tab[t], r, FALSE))
    /\ UNCHANGED <<server, logins, rivals, disturbed>>

-----------------------------------------------------------------------------
(* The response interceptor.                                               *)

Refused(t, r) == Alive(t) /\ Request(t, r).at = "refused"

(* A second 401 is passed on. *)
PassOn(t, r) ==
    /\ Refused(t, r) /\ Request(t, r).retry
    /\ Becomes(t, Rejected(tab[t], r, Request(t, r).kind = "login"))
    /\ UNCHANGED <<server, logins, rivals, faults, disturbed>>

(* The request of a 401 is kept, to be sent once more. *)
Waiting(m) == [m EXCEPT !.at = "waiting", !.retry = TRUE]

Wait(t, r) ==
    /\ Refused(t, r) /\ ~Request(t, r).retry /\ tab[t].refreshing # NoRefresh
    /\ tab' = [tab EXCEPT ![t].request[r] = Waiting(@)]
    /\ UNCHANGED <<server, stored, logins, rivals, faults, disturbed>>

StartRefresh(t, r) ==
    /\ Refused(t, r) /\ ~Request(t, r).retry /\ tab[t].refreshing = NoRefresh
    /\ tab' = [tab EXCEPT ![t] = [tab[t] EXCEPT
                 !.request[r] = Waiting(@),
                 !.refreshing = {[for |-> r, pair |-> tab[t].store.pair, answer |-> "none", made |-> 0]}]]
    /\ UNCHANGED <<server, stored, logins, rivals, faults, disturbed>>

(* Mutant: the subscribers are dropped without being called. *)
ResentFirst(s, f) ==
    [s EXCEPT !.request[f.for].at = "sent", !.request[f.for].pair = f.made]

(* Everybody who waits sends again, with the new token. *)
Resent(s, f) ==
    [s EXCEPT !.request = [r \in Requests |->
        IF s.request[r].at = "waiting" THEN [s.request[r] EXCEPT !.at = "sent", !.pair = f.made]
                                       ELSE s.request[r]]]

Refreshed(t, f) ==
    /\ f.answer = "tokens"
    /\ Becomes(t, [Resent(tab[t], f) EXCEPT !.store.pair = f.made, !.refreshing = NoRefresh])

(* Mutant: the refusal is passed on, and the page stays. *)
RefreshStays(t, f) ==
    /\ f.answer = "refused"
    /\ Becomes(t, [Rejected(tab[t], f.for, Request(t, f.for).kind = "login")
                   EXCEPT !.store = LoggedOut, !.refreshing = NoRefresh])

(* The store is emptied and the page left for /login; the request that     *)
(* met the 401 is rejected, those that wait are left waiting.              *)
RefreshFailed(t, f) ==
    /\ f.answer = "refused"
    /\ Becomes(t, [Rejected(tab[t], f.for, Request(t, f.for).kind = "login")
                   EXCEPT !.store = LoggedOut, !.leaving = TRUE, !.refreshing = NoRefresh])

FinishRefresh(t) ==
    /\ Alive(t)
    /\ \E f \in tab[t].refreshing : Refreshed(t, f) \/ RefreshFailed(t, f)
    /\ UNCHANGED <<server, logins, rivals, faults, disturbed>>

(* /login is loaded with what localStorage holds by now; nothing of the    *)
(* page's memory is left.                                                  *)
Arrive(t) ==
    /\ tab[t].leaving
    /\ tab' = [tab EXCEPT ![t] = [Fresh(stored) EXCEPT !.page = "login", !.asked = tab[t].asked]]
    /\ UNCHANGED <<server, stored, logins, rivals, faults, disturbed>>

(* The user loads the dashboard, whose layout sends the unauthenticated on *)
(* to /login.  A refresh under way is made and its answer is thrown away.  *)
Reload(t) ==
    /\ Alive(t)
    /\ tab' = [tab EXCEPT ![t] = Fresh(stored)]
    /\ disturbed' = disturbed \cup {u \in {t} : tab[u].refreshing # NoRefresh}
    /\ UNCHANGED <<server, stored, logins, rivals, faults>>

-----------------------------------------------------------------------------

ServerStep(t) ==
    \/ AnswerRefresh(t)
    \/ \E r \in Requests : AnswerData(t, r) \/ AnswerLogout(t, r) \/ AnswerLogin(t, r)

Handle(t, r) == Resolve(t, r) \/ PassOn(t, r) \/ Wait(t, r) \/ StartRefresh(t, r)

Next ==
    \/ Expire \/ Rival
    \/ \E t \in Tabs :
         \/ ServerStep(t) \/ LoseRefresh(t) \/ FinishRefresh(t) \/ Arrive(t) \/ Reload(t)
         \/ \E r \in Requests :
              \/ LoadData(t, r) \/ SubmitLogin(t, r) \/ ClickLogout(t, r)
              \/ LoseAnswer(t, r) \/ Handle(t, r)

Spec == Init /\ [][Next]_vars

(* Nginx and axios answer every request in the end, if only with an error, *)
(* and the browser runs the callbacks and the navigation it has started.   *)
Fairness ==
    \A t \in Tabs :
      /\ WF_vars(AnswerRefresh(t)) /\ WF_vars(FinishRefresh(t)) /\ WF_vars(Arrive(t))
      /\ \A r \in Requests :
           /\ WF_vars(AnswerData(t, r) \/ AnswerLogout(t, r) \/ AnswerLogin(t, r))
           /\ WF_vars(Handle(t, r))

-----------------------------------------------------------------------------

(* Nobody waits for a refresh that is over: refreshSubscribers is empty    *)
(* unless a refresh is under way or the page is being left.                *)
WaitersAreServed ==
    \A t \in Tabs, r \in Requests :
        Request(t, r).at = "waiting" => tab[t].refreshing # NoRefresh \/ tab[t].leaving

(* A tab is sent to /login for a reason outside it: an answer was lost or  *)
(* thrown away by a reload, the session was replaced or closed elsewhere,  *)
(* or a login was refused.                                                 *)
KickedOutForAReason ==
    \A t \in Tabs : tab[t].leaving =>
        t \in disturbed \/ faults > 0 \/ current = 0 \/ tab[t].asked \/ tab[t].out

(* Every request comes to an end. *)
RequestsSettle ==
    \A t \in Tabs, r \in Requests :
        Request(t, r) # NoRequest ~> Request(t, r) = NoRequest
=============================================================================
