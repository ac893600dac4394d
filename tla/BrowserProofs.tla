---------------------------- MODULE BrowserProofs -----------------------------
(***************************************************************************)
(* The pages of the browser keep what the suite MCBrowser checks, for      *)
(* every number of tabs and requests, users and sockets, messages, calls,  *)
(* contacts and texts. One part per module: the inductive invariant, what  *)
(* the operators of the module make of their arguments, one step per       *)
(* action; the theorems of the suite are at the end.                       *)
(***************************************************************************)
EXTENDS MCBrowser, Sequences, Counting

(* A tab behind whose back nothing has happened. *)
Clean(t) == t \notin disturbed /\ faults = 0

(* The tab has a refresh under way that was answered with a pair it has    *)
(* not stored yet.                                                         *)
HoldsTokens(q) == \E f \in q.refreshing : f.answer = "tokens"

(* All the tab has under way are logins. *)
LoginsOnly(q) == \A r \in Requests : q.request[r].at # "none" => q.request[r].kind = "login"

(* What the refresh of the tab owes its requests: a waiting request has a  *)
(* refresh, or a navigation, that will settle it; there is one refresh at  *)
(* a time, and its request waits for it.                                   *)
IsAwaited(q) ==
    /\ \A r \in Requests : q.request[r].at = "waiting" => q.refreshing # {} \/ q.leaving
    /\ q.leaving => q.refreshing = {}
    /\ \A f, g \in q.refreshing : f = g
    /\ \A f \in q.refreshing : q.request[f.for].at = "waiting"

(* A tab nobody has logged in with: whatever it refreshes is refused, and  *)
(* it is sent to the login for a login that was refused.                   *)
NewTab(q) ==
    /\ q.store.pair = 0 /\ q.page = "login" /\ ~q.out /\ LoginsOnly(q)
    /\ \A f \in q.refreshing : f.pair = 0 /\ f.answer # "tokens"
    /\ q.leaving => q.asked

(* A refresh that fails for a reason of the tab's own: a login that was    *)
(* refused, or a logout.                                                   *)
Excused(q, f) == q.request[f.for].kind = "login" \/ q.out

(* A tab the session of the account belongs to. It presents the current    *)
(* pair or is excused; an answer that is a pair brings the current one;    *)
(* and it holds the current pair, is about to, is leaving, or is logged    *)
(* out.                                                                    *)
OwnTab(q) ==
    /\ q.leaving => q.asked \/ q.out
    /\ \A f \in q.refreshing : /\ f.answer = "none" => f.pair = current \/ Excused(q, f)
                               /\ f.answer = "refused" => Excused(q, f)
                               /\ f.answer = "tokens" => f.made = current /\ q.store.pair # current
    /\ \/ q.leaving \/ q.store.pair = current \/ HoldsTokens(q)
       \/ q.store.pair = 0 /\ q.page = "login" /\ (q.out \/ LoginsOnly(q))

(* The logins that were answered with a pair their tab has not stored yet. *)
LoggedIn == {p \in Tabs \X Requests : Is(p[1], p[2], "login", "ok")}

(* Until the first login is taken up by its tab: nobody is logged in       *)
(* anywhere, and one login at most was answered, with the current pair.    *)
Before ==
    /\ stored.pair = 0 /\ \A t \in Tabs : NewTab(tab[t])
    /\ \A p \in LoggedIn : Request(p[1], p[2]).pair = current /\ current # 0
    /\ \A p, q \in LoggedIn : p = q

(* From then on: the session is the tab's. *)
After(t) ==
    /\ current # 0 /\ LoggedIn = {}
    /\ stored.pair \in {0, current} \/ HoldsTokens(tab[t])
    /\ OwnTab(tab[t])

(* The session of the account is, or is about to be, that of a tab behind  *)
(* whose back nothing has happened: no other tab holds a pair to store.    *)
CleanTabsAreRight ==
    \A t \in Tabs : Clean(t) => /\ \A u \in Tabs : u # t => ~HoldsTokens(tab[u])
                                /\ Before \/ After(t)

(* The inductive invariant of the web session. What sends a tab to the     *)
(* login is decided by an earlier answer, which depends on the pair the    *)
(* tab presented before that: so the invariant says for each stage of a    *)
(* refresh which pair it is about.                                         *)
WebInv == TypeOK /\ current <= pairs /\ (\A t \in Tabs : IsAwaited(tab[t])) /\ CleanTabsAreRight

(* It implies what is promised of the tabs. *)
LEMMA KickedOutRightly ==
    ASSUME WebInv PROVE WaitersAreServed /\ KickedOutForAReason
<1>1. WaitersAreServed
  BY DEF WebInv, IsAwaited, WaitersAreServed, Request, NoRefresh
<1>2. KickedOutForAReason
  <2>1. SUFFICES ASSUME NEW t \in Tabs, tab[t].leaving, t \notin disturbed, ~(faults > 0)
                 PROVE  tab[t].asked \/ tab[t].out
    BY DEF KickedOutForAReason
  <2>2. Clean(t)
    BY <2>1 DEF WebInv, TypeOK, Clean
  <2>. QED
    BY <2>1, <2>2 DEF WebInv, CleanTabsAreRight, Before, After, NewTab, OwnTab
<1>. QED
  BY <1>1, <1>2

(* No request is a request. *)
LEMMA NoRequestType == NoRequest \in RequestRecord
BY DEF NoRequest, RequestRecord, Kinds, Pairs

(* A page just loaded has nothing under way and no reason to leave. *)
LEMMA FreshTab ==
    ASSUME NEW s \in Store
    PROVE  /\ Fresh(s) \in Tab /\ Fresh(s).store = s /\ ~Fresh(s).leaving /\ ~Fresh(s).out /\ ~Fresh(s).asked
           /\ (s.pair = 0 => Fresh(s).page = "login")
           /\ Fresh(s).refreshing = {} /\ \A r \in Requests : Fresh(s).request[r] = NoRequest
<1>1. [r \in Requests |-> NoRequest] \in [Requests -> RequestRecord]
  BY NoRequestType
<1>. QED
  BY <1>1 DEF Fresh, Tab, NoRefresh

(* A request that is settled is gone, and the tab is as it was. *)
LEMMA SettledTab ==
    ASSUME NEW q \in Tab, NEW r \in Requests
    PROVE  /\ Settle(q, r) \in Tab
           /\ Settle(q, r).store = q.store /\ Settle(q, r).page = q.page /\ Settle(q, r).leaving = q.leaving
           /\ Settle(q, r).needs2FA = q.needs2FA
           /\ Settle(q, r).asked = q.asked /\ Settle(q, r).out = q.out /\ Settle(q, r).refreshing = q.refreshing
           /\ \A x \in Requests : Settle(q, r).request[x] = IF x = r THEN NoRequest ELSE q.request[x]
<1>1. q.request \in [Requests -> RequestRecord]
  BY DEF Tab
<1>2. [q.request EXCEPT ![r] = NoRequest] \in [Requests -> RequestRecord]
  BY <1>1, NoRequestType
<1>3. Settle(q, r) = [q EXCEPT !.request = [q.request EXCEPT ![r] = NoRequest]]
  BY DEF Settle
<1>. QED
  BY <1>1, <1>2, <1>3 DEF Tab

(* A logout that is settled leaves the tab logged out, at the login. *)
LEMMA LoggedOutTab ==
    ASSUME NEW q \in Tab, NEW r \in Requests
    PROVE  LET s == AfterLogout(q, r)
           IN  /\ s \in Tab /\ s.store = LoggedOut /\ s.page = "login" /\ s.leaving = q.leaving
               /\ s.asked = q.asked /\ s.out /\ s.refreshing = q.refreshing
               /\ \A x \in Requests : s.request[x] = IF x = r THEN NoRequest ELSE q.request[x]
<1>1. LoggedOut \in Store
  BY DEF LoggedOut, Store, Pairs
<1>. DEFINE s == AfterLogout(q, r)
<1>2. PICK z \in Tab : z = Settle(q, r)
  BY SettledTab
<1>3. s = [z EXCEPT !.store = LoggedOut, !.page = "login", !.out = TRUE]
  BY <1>2 DEF AfterLogout
<1>. HIDE DEF s
<1>4. /\ s \in Tab /\ s.store = LoggedOut /\ s.page = "login" /\ s.leaving = z.leaving
      /\ s.asked = z.asked /\ s.out /\ s.refreshing = z.refreshing /\ s.request = z.request
  BY <1>1, <1>2, <1>3 DEF Tab
<1>5. /\ z.leaving = q.leaving /\ z.asked = q.asked /\ z.refreshing = q.refreshing
      /\ \A x \in Requests : z.request[x] = IF x = r THEN NoRequest ELSE q.request[x]
  BY <1>2, SettledTab
<1>6. /\ s \in Tab /\ s.store = LoggedOut /\ s.page = "login" /\ s.leaving = q.leaving
      /\ s.asked = q.asked /\ s.out /\ s.refreshing = q.refreshing
      /\ \A x \in Requests : s.request[x] = IF x = r THEN NoRequest ELSE q.request[x]
  BY <1>4, <1>5
<1>. QED
  BY <1>6 DEF s

(* What a request that is answered makes of its tab: a login stores its    *)
(* pair, a logout clears the store, other requests change nothing else.    *)
LEMMA ResolvedTab ==
    ASSUME NEW q \in Tab, NEW r \in Requests
    PROVE  LET s == Resolved(q, r)
           IN  /\ s \in Tab /\ s.leaving = q.leaving /\ s.refreshing = q.refreshing
               /\ \A x \in Requests : s.request[x] = IF x = r THEN NoRequest ELSE q.request[x]
               /\ q.request[r].kind # "login" =>
                    /\ s.asked = q.asked
                    /\ \/ s.store = q.store /\ s.page = q.page /\ s.out = q.out /\ q.request[r].kind = "data"
                       \/ s.store = LoggedOut /\ s.page = "login" /\ s.out /\ q.request[r].kind = "logout"
               /\ q.request[r].kind = "login" =>
                    s.store.pair = q.request[r].pair /\ s.page = "dashboard" /\ ~s.out /\ ~s.asked
<1>1. q.request[r] \in RequestRecord
  BY DEF Tab
<1>2. q.request[r].kind \in {"data", "login", "logout"} /\ q.request[r].pair \in Nat
  BY <1>1 DEF RequestRecord, Kinds, Pairs
<1>3. CASE q.request[r].kind = "data"
  BY <1>3, SettledTab DEF Resolved
<1>4. CASE q.request[r].kind = "logout"
  BY <1>4, LoggedOutTab DEF Resolved
<1>5. CASE q.request[r].kind = "login"
  <2>. DEFINE v == [user |-> TRUE, pair |-> q.request[r].pair]
  <2>1. v \in Store /\ v.pair = q.request[r].pair
    BY <1>2 DEF Store, Pairs
  <2>. HIDE DEF v
  <2>2. PICK z \in Tab : z = Settle(q, r)
    BY SettledTab
  <2>. DEFINE s == Resolved(q, r)
  <2>3. s = [z EXCEPT !.store = v, !.page = "dashboard", !.out = FALSE, !.needs2FA = FALSE, !.asked = FALSE]
    BY <1>5, <2>2 DEF Resolved, v
  <2>. HIDE DEF s
  <2>4. /\ s \in Tab /\ s.store = v /\ s.page = "dashboard" /\ s.leaving = z.leaving
        /\ ~s.asked /\ ~s.out /\ s.refreshing = z.refreshing /\ s.request = z.request
    BY <2>1, <2>2, <2>3 DEF Tab
  <2>5. /\ z.leaving = q.leaving /\ z.refreshing = q.refreshing
        /\ \A x \in Requests : z.request[x] = IF x = r THEN NoRequest ELSE q.request[x]
    BY <2>2, SettledTab
  <2>6. /\ s \in Tab /\ s.leaving = q.leaving /\ s.refreshing = q.refreshing
        /\ \A x \in Requests : s.request[x] = IF x = r THEN NoRequest ELSE q.request[x]
        /\ s.store.pair = q.request[r].pair /\ s.page = "dashboard" /\ ~s.out /\ ~s.asked
    BY <2>1, <2>4, <2>5
  <2>. QED
    BY <1>5, <2>6 DEF s
<1>. QED
  BY <1>2, <1>3, <1>4, <1>5

(* What a request that is refused makes of its tab: a login that is        *)
(* refused for what it said counts as asked, and a logout logs out all the *)
(* same.                                                                   *)
LEMMA RejectedTab ==
    ASSUME NEW q \in Tab, NEW r \in Requests, NEW said \in BOOLEAN
    PROVE  LET s == Rejected(q, r, said)
           IN  /\ s \in Tab /\ s.leaving = q.leaving /\ s.refreshing = q.refreshing
               /\ \A x \in Requests : s.request[x] = IF x = r THEN NoRequest ELSE q.request[x]
               /\ (q.asked => s.asked) /\ (q.request[r].kind = "login" /\ said => s.asked)
               /\ \/ s.store = q.store /\ s.page = q.page /\ s.out = q.out /\ q.request[r].kind # "logout"
                  \/ s.store = LoggedOut /\ s.page = "login" /\ s.out /\ q.request[r].kind = "logout"
<1>1. q.request[r] \in RequestRecord
  BY DEF Tab
<1>2. q.request[r].kind \in {"data", "login", "logout"}
  BY <1>1 DEF RequestRecord, Kinds
<1>3. CASE q.request[r].kind = "data"
  BY <1>3, SettledTab DEF Rejected
<1>4. CASE q.request[r].kind = "logout"
  BY <1>4, LoggedOutTab DEF Rejected
<1>5. CASE q.request[r].kind = "login"
  <2>. DEFINE z == Settle(q, r)
  <2>1. z \in Tab /\ z.needs2FA \in BOOLEAN /\ z.asked \in BOOLEAN /\ z.asked = q.asked
    BY SettledTab DEF Tab
  <2>2. PICK n \in BOOLEAN, a \in BOOLEAN : n = (z.needs2FA \/ (said /\ TwoFactor)) /\ a = (z.asked \/ said)
    BY <2>1
  <2>3. Rejected(q, r, said) = [z EXCEPT !.needs2FA = n, !.asked = a]
    BY <1>5, <2>1, <2>2 DEF Rejected
  <2>. HIDE DEF z
  <2>4. LET s == [z EXCEPT !.needs2FA = n, !.asked = a]
        IN  /\ s \in Tab /\ s.store = z.store /\ s.page = z.page /\ s.leaving = z.leaving
            /\ s.asked = a /\ s.out = z.out /\ s.refreshing = z.refreshing /\ s.request = z.request
    BY <2>1, <2>2 DEF Tab
  <2>. QED
    BY <1>5, <2>1, <2>2, <2>3, <2>4, SettledTab DEF z
<1>. QED
  BY <1>2, <1>3, <1>4, <1>5

(* What a request under way becomes, in the memory of its tab. *)
LEMMA AnsweredTab ==
    ASSUME NEW q \in Tab, NEW r \in Requests, NEW m \in RequestRecord
    PROVE  LET s == [q EXCEPT !.request = [q.request EXCEPT ![r] = m]]
           IN  /\ s \in Tab /\ s.store = q.store /\ s.page = q.page /\ s.leaving = q.leaving
               /\ s.asked = q.asked /\ s.out = q.out /\ s.refreshing = q.refreshing
               /\ \A x \in Requests : s.request[x] = IF x = r THEN m ELSE q.request[x]
<1>1. q.request \in [Requests -> RequestRecord]
  BY DEF Tab
<1>2. [q.request EXCEPT ![r] = m] \in [Requests -> RequestRecord]
  BY <1>1
<1>. QED
  BY <1>1, <1>2 DEF Tab

(* What a step of one tab has to show, and no more: the other tabs keep    *)
(* what they had, as localStorage is at most emptied under them or takes   *)
(* the current pair.                                                       *)
LEMMA OneTabMoves ==
    ASSUME WebInv, NEW t \in Tabs, NEW s \in Tab, tab' = [tab EXCEPT ![t] = s], IsAwaited(s),
           current' = current, faults' = 0 => faults = 0, disturbed \subseteq disturbed',
           \A r \in Requests : s.request[r].kind = "login" /\ s.request[r].at = "ok" =>
                                   tab[t].request[r] = s.request[r],
           HoldsTokens(s) => HoldsTokens(tab[t]),
           stored'.pair \in {0, stored.pair} \/ (HoldsTokens(tab[t]) /\ stored'.pair = current),
           NewTab(tab[t]) /\ stored.pair = 0 => NewTab(s),
           t \notin disturbed' /\ After(t) =>
               OwnTab(s) /\ (stored'.pair \in {0, current} \/ HoldsTokens(s))
    PROVE  (\A w \in Tabs : IsAwaited(tab[w]))' /\ CleanTabsAreRight'
<1>t. tab \in [Tabs -> Tab]
  BY DEF WebInv, TypeOK
<1>1. tab'[t] = s /\ \A w \in Tabs : w # t => tab'[w] = tab[w]
  BY <1>t
<1>2. \A w \in Tabs : IsAwaited(tab'[w])
  BY <1>1 DEF WebInv
<1>3. \A p \in LoggedIn' : p \in LoggedIn /\ Request(p[1], p[2])' = Request(p[1], p[2])
  <2>1. SUFFICES ASSUME NEW w \in Tabs, NEW r \in Requests, tab'[w].request[r].kind = "login",
                        tab'[w].request[r].at = "ok"
                 PROVE  tab'[w].request[r] = tab[w].request[r]
    BY DEF LoggedIn, Is, Request
  <2>. QED
    BY <2>1, <1>1
<1>4. SUFFICES ASSUME NEW w \in Tabs, Clean(w)'
               PROVE  (\A u \in Tabs : u # w => ~HoldsTokens(tab[u]))' /\ (Before \/ After(w))'
  BY <1>2 DEF CleanTabsAreRight
<1>5. Clean(w) /\ w \notin disturbed'
  BY <1>4 DEF Clean
<1>6. (\A u \in Tabs : u # w => ~HoldsTokens(tab[u])) /\ (Before \/ After(w))
  BY <1>5 DEF WebInv, CleanTabsAreRight
<1>7. \A u \in Tabs : u # w => ~HoldsTokens(tab'[u])
  BY <1>1, <1>6
<1>8. CASE Before
  <2>1. stored'.pair = 0
    BY <1>8 DEF Before, NewTab, HoldsTokens
  <2>2. \A u \in Tabs : NewTab(tab'[u])
    BY <1>1, <1>8 DEF Before
  <2>3. Before'
    BY <1>3, <1>8, <2>1, <2>2 DEF Before, NewTab, LoginsOnly
  <2>. QED
    BY <1>7, <2>3 DEF HoldsTokens
<1>9. CASE After(w)
  <2>1. LoggedIn' = {} /\ current' # 0
    BY <1>3, <1>9 DEF After
  <2>2. CASE w = t
    <3>1. OwnTab(s) /\ (stored'.pair \in {0, current} \/ HoldsTokens(s))
      BY <1>5, <1>9, <2>2
    <3>2. After(w)'
      BY <1>1, <2>1, <2>2, <3>1 DEF After, OwnTab, HoldsTokens, LoginsOnly, Excused
    <3>. QED
      BY <1>7, <3>2 DEF HoldsTokens
  <2>3. CASE w # t
    <3>1. tab'[w] = tab[w] /\ stored'.pair \in {0, stored.pair}
      BY <1>1, <1>6, <2>3
    <3>2. stored'.pair \in {0, current} \/ HoldsTokens(tab[w])
      BY <3>1, <1>9 DEF After
    <3>3. After(w)'
      BY <1>9, <2>1, <3>1, <3>2 DEF After, OwnTab, HoldsTokens, LoginsOnly, Excused
    <3>. QED
      BY <1>7, <3>3 DEF HoldsTokens
  <2>. QED
    BY <2>2, <2>3
<1>. QED
  BY <1>6, <1>8, <1>9

(* Every action of the web session keeps the invariant. *)
LEMMA WebStep == ASSUME WebInv, [Next]_vars PROVE WebInv'
<1>t. /\ pairs \in Nat /\ current \in Nat /\ expired \in Nat /\ stored \in Store
      /\ tab \in [Tabs -> Tab]
      /\ logins \in 0..MaxLogins /\ expiries \in 0..MaxExpiries /\ rivals \in 0..MaxRivals
      /\ faults \in 0..MaxFaults /\ disturbed \subseteq Tabs /\ current <= pairs
  BY DEF WebInv, TypeOK, Pairs
<1>c. MaxLogins \in Nat /\ MaxExpiries \in Nat /\ MaxRivals \in Nat /\ MaxFaults \in Nat
  BY WebAssumption
<1>a. (\A t \in Tabs : IsAwaited(tab[t])) /\ CleanTabsAreRight
  BY DEF WebInv
<1>q. \A t \in Tabs : /\ tab[t] \in Tab /\ tab[t].store \in Store /\ tab[t].store.pair \in Nat
                      /\ \A r \in Requests : tab[t].request[r] \in RequestRecord
                      /\ \A f \in tab[t].refreshing : f \in RefreshRecord /\ f.for \in Requests
  BY <1>t DEF Tab, Store, Pairs, RefreshRecord
<1>p. stored.pair \in Nat
  BY <1>t DEF Store, Pairs
<1>y. ASSUME pairs' \in Nat, current' \in Nat, expired' \in Nat, stored' \in Store, current' <= pairs',
             tab' \in [Tabs -> Tab],
             logins' \in 0..MaxLogins, expiries' \in 0..MaxExpiries, rivals' \in 0..MaxRivals,
             faults' \in 0..MaxFaults, disturbed' \subseteq Tabs,
             (\A w \in Tabs : IsAwaited(tab[w]))' /\ CleanTabsAreRight'
      PROVE  WebInv'
  <2>1. \A w \in Tabs : Cardinality(tab'[w].refreshing) <= 1
    <3>1. \A w \in Tabs : \A f, g \in tab'[w].refreshing : f = g
      BY <1>y DEF IsAwaited
    <3>. QED
      BY <3>1, CountAtMostOne
  <2>. QED
    BY <1>y, <2>1 DEF WebInv, TypeOK, Pairs
<1>u. ASSUME UNCHANGED tab, disturbed' = Tabs \/ UNCHANGED <<current, stored, faults, disturbed>>
      PROVE  (\A w \in Tabs : IsAwaited(tab[w]))' /\ CleanTabsAreRight'
  <2>1. (\A w \in Tabs : IsAwaited(tab[w]))'
    BY <1>u, <1>a DEF IsAwaited
  <2>2. CASE disturbed' = Tabs
    BY <2>1, <2>2 DEF CleanTabsAreRight, Clean
  <2>3. CASE UNCHANGED <<current, stored, faults, disturbed>>
    BY <1>u, <1>a, <2>1, <2>3
    DEF CleanTabsAreRight, Clean, HoldsTokens, Before, After, NewTab, OwnTab, LoginsOnly, Excused, LoggedIn, Is,
        Request
  <2>. QED
    BY <1>u, <2>2, <2>3
<1>o. ASSUME NEW t \in Tabs, NEW s \in Tab, tab' = [tab EXCEPT ![t] = s], IsAwaited(s),
             disturbed' = Tabs \/ faults' # 0
      PROVE  (\A w \in Tabs : IsAwaited(tab[w]))' /\ CleanTabsAreRight'
  <2>1. \A w \in Tabs : IsAwaited(tab'[w])
    BY <1>o, <1>t, <1>a
  <2>. QED
    BY <1>o, <2>1 DEF CleanTabsAreRight, Clean
<1>1. CASE Expire
  BY <1>1, <1>u, <1>y, <1>t, <1>c DEF Expire
<1>2. CASE Rival
  BY <1>2, <1>u, <1>y, <1>t, <1>c DEF Rival, Pairs
<1>f. ASSUME NEW t \in Tabs, NEW s \in Tab, tab' = [tab EXCEPT ![t] = s], stored' \in Store,
             logins' \in 0..MaxLogins, faults' \in 0..MaxFaults, disturbed' \subseteq Tabs,
             UNCHANGED <<pairs, current, expired, expiries, rivals>>,
             (\A w \in Tabs : IsAwaited(tab[w]))' /\ CleanTabsAreRight'
      PROVE  WebInv'
  BY <1>f, <1>y, <1>t
(* A request in flight becomes one that is not logged in. *)
<1>r. ASSUME NEW t \in Tabs, NEW r \in Requests, NEW m \in RequestRecord,
             m.kind = tab[t].request[r].kind, tab[t].request[r].at \in {"sent", "ok", "refused"},
             m.at \in {"ok", "refused"}, m.kind = "login" => m.at # "ok",
             tab' = [tab EXCEPT ![t] = [tab[t] EXCEPT !.request = [tab[t].request EXCEPT ![r] = m]]],
             UNCHANGED <<pairs, current, expired, expiries, stored, logins, rivals, faults, disturbed>>
      PROVE  WebInv'
  <2>. DEFINE q == tab[t]
              s == [tab[t] EXCEPT !.request = [tab[t].request EXCEPT ![r] = m]]
  <2>1. /\ s \in Tab /\ s.store = q.store /\ s.page = q.page /\ s.leaving = q.leaving
        /\ s.asked = q.asked /\ s.out = q.out /\ s.refreshing = q.refreshing
        /\ \A x \in Requests : s.request[x] = IF x = r THEN m ELSE q.request[x]
    BY <1>q, AnsweredTab
  <2>2. tab' = [tab EXCEPT ![t] = s]
    BY <1>r
  <2>. HIDE DEF s
  <2>3. IsAwaited(s)
    BY <1>a, <1>r, <1>q, <2>1 DEF IsAwaited
  <2>4. (NewTab(q) => NewTab(s)) /\ (OwnTab(q) => OwnTab(s)) /\ (HoldsTokens(s) <=> HoldsTokens(q))
    BY <1>r, <1>q, <2>1 DEF NewTab, OwnTab, HoldsTokens, LoginsOnly, Excused
  <2>5. (\A w \in Tabs : IsAwaited(tab[w]))' /\ CleanTabsAreRight'
    BY <1>r, <2>1, <2>2, <2>3, <2>4, OneTabMoves DEF After
  <2>. QED
    BY <1>r, <1>f, <1>t, <2>1, <2>2, <2>5
<1>3. ASSUME NEW t \in Tabs, NEW r \in Requests, AnswerData(t, r) PROVE WebInv'
  <2>. DEFINE k == IF Request(t, r).pair > expired THEN "ok" ELSE "refused"
  <2>1. PICK m : m = [tab[t].request[r] EXCEPT !.at = k]
    OBVIOUS
  <2>2. m \in RequestRecord /\ m.kind = "data" /\ tab[t].request[r].kind = "data" /\ m.at \in {"ok", "refused"}
    BY <1>3, <1>q, <2>1 DEF AnswerData, Is, Request, RequestRecord
  <2>3. tab' = [tab EXCEPT ![t] = [tab[t] EXCEPT !.request = [tab[t].request EXCEPT ![r] = m]]]
    BY <1>3, <2>1 DEF AnswerData, Answered
  <2>4. tab[t].request[r].at = "sent"
    BY <1>3 DEF AnswerData, Is, Request
  <2>. QED
    BY <1>3, <2>2, <2>3, <2>4, <1>r DEF AnswerData, server
<1>4. ASSUME NEW t \in Tabs, NEW r \in Requests, AnswerLogout(t, r) PROVE WebInv'
  <2>. DEFINE k == IF Request(t, r).pair > expired THEN "ok" ELSE "refused"
  <2>1. PICK m : m = [tab[t].request[r] EXCEPT !.at = k]
    OBVIOUS
  <2>2. /\ m \in RequestRecord /\ m.kind = "logout" /\ m.at \in {"ok", "refused"}
        /\ tab[t].request[r].kind = "logout"
    BY <1>4, <1>q, <2>1 DEF AnswerLogout, Is, Request, RequestRecord
  <2>3. tab' = [tab EXCEPT ![t] = [tab[t] EXCEPT !.request = [tab[t].request EXCEPT ![r] = m]]]
    BY <1>4, <2>1 DEF AnswerLogout, Answered
  <2>4. tab[t].request[r].at = "sent"
    BY <1>4 DEF AnswerLogout, Is, Request
  <2>5. CASE Request(t, r).pair > expired
    <3>. DEFINE s == [tab[t] EXCEPT !.request = [tab[t].request EXCEPT ![r] = m]]
    <3>1. /\ s \in Tab /\ s.leaving = tab[t].leaving /\ s.refreshing = tab[t].refreshing
          /\ \A x \in Requests : s.request[x] = IF x = r THEN m ELSE tab[t].request[x]
      BY <1>q, <2>2, AnsweredTab
    <3>. HIDE DEF s
    <3>2. IsAwaited(s)
      BY <1>a, <1>q, <2>2, <2>4, <3>1 DEF IsAwaited
    <3>3. /\ current' = 0 /\ disturbed' = Tabs
          /\ UNCHANGED <<pairs, expired, expiries, stored, logins, rivals, faults>>
      BY <1>4, <2>5 DEF AnswerLogout
    <3>4. (\A w \in Tabs : IsAwaited(tab[w]))' /\ CleanTabsAreRight'
      BY <1>o, <2>3, <3>1, <3>2, <3>3 DEF s
    <3>5. tab' \in [Tabs -> Tab]
      BY <1>t, <2>3, <3>1 DEF s
    <3>. QED
      BY <1>y, <1>t, <3>3, <3>4, <3>5
  <2>6. CASE ~(Request(t, r).pair > expired)
    BY <1>4, <2>2, <2>3, <2>4, <2>6, <1>r DEF AnswerLogout
  <2>. QED
    BY <2>5, <2>6
<1>5. ASSUME NEW t \in Tabs, NEW r \in Requests, LoginRefused(t, r) PROVE WebInv'
  <2>1. PICK m : m = [tab[t].request[r] EXCEPT !.at = "refused"]
    OBVIOUS
  <2>2. m \in RequestRecord /\ m.kind = "login" /\ tab[t].request[r].kind = "login" /\ m.at = "refused"
    BY <1>5, <1>q, <2>1 DEF LoginRefused, Is, Request, RequestRecord
  <2>3. tab' = [tab EXCEPT ![t] = [tab[t] EXCEPT !.request = [tab[t].request EXCEPT ![r] = m]]]
    BY <1>5, <2>1 DEF LoginRefused, Answered
  <2>4. tab[t].request[r].at = "sent"
    BY <1>5 DEF LoginRefused, Is, Request
  <2>. QED
    BY <1>5, <2>2, <2>3, <2>4, <1>r DEF LoginRefused, server
<1>6. ASSUME NEW t \in Tabs, NEW r \in Requests, LoginAccepted(t, r) PROVE WebInv'
  <2>. DEFINE sent == [tab[t].request[r] EXCEPT !.at = "ok"]
              m == [sent EXCEPT !.pair = pairs + 1]
              s == [tab[t] EXCEPT !.request = [tab[t].request EXCEPT ![r] = m]]
  <2>1. sent \in RequestRecord /\ sent.kind = "login" /\ sent.at = "ok"
    BY <1>6, <1>q DEF LoginAccepted, Is, Request, RequestRecord
  <2>2. pairs + 1 \in Nat /\ pairs + 1 # 0
    BY <1>t
  <2>. HIDE DEF sent
  <2>3. m \in RequestRecord /\ m.kind = "login" /\ m.at = "ok" /\ m.pair = pairs + 1
    BY <2>1, <2>2 DEF RequestRecord, Pairs
  <2>4. tab' = [tab EXCEPT ![t] = s]
    BY <1>6, <1>q, <1>t DEF LoginAccepted, sent, Tab, RequestRecord
  <2>. HIDE DEF m
  <2>5. /\ s \in Tab /\ s.store = tab[t].store /\ s.page = tab[t].page /\ s.leaving = tab[t].leaving
        /\ s.asked = tab[t].asked /\ s.out = tab[t].out /\ s.refreshing = tab[t].refreshing
        /\ \A x \in Requests : s.request[x] = IF x = r THEN m ELSE tab[t].request[x]
    BY <1>q, <2>3, AnsweredTab
  <2>. HIDE DEF s
  <2>6. /\ tab[t].request[r].at = "sent" /\ tab[t].request[r].kind = "login"
        /\ pairs' = pairs + 1 /\ current' = pairs + 1
        /\ disturbed' = (IF current = 0 THEN disturbed ELSE Tabs)
        /\ UNCHANGED <<expired, expiries, stored, logins, rivals, faults>>
    BY <1>6 DEF LoginAccepted, Is, Request
  <2>7. IsAwaited(s)
    BY <1>a, <1>q, <2>3, <2>5, <2>6 DEF IsAwaited
  <2>8. (\A w \in Tabs : IsAwaited(tab[w]))' /\ CleanTabsAreRight'
    <3>1. CASE current # 0
      BY <1>o, <2>4, <2>5, <2>6, <2>7, <3>1
    <3>2. CASE current = 0
      <4>1. tab'[t] = s /\ \A w \in Tabs : w # t => tab'[w] = tab[w]
        BY <1>t, <2>4
      <4>2. \A w \in Tabs : IsAwaited(tab'[w])
        BY <4>1, <2>7, <1>a
      <4>3. SUFFICES ASSUME NEW w \in Tabs, Clean(w)'
                     PROVE  (\A u \in Tabs : u # w => ~HoldsTokens(tab[u]))' /\ (Before \/ After(w))'
        BY <4>2 DEF CleanTabsAreRight
      <4>4. Clean(w)
        BY <4>3, <3>2, <2>6 DEF Clean
      <4>5. Before /\ \A u \in Tabs : u # w => ~HoldsTokens(tab[u])
        BY <4>4, <3>2, <1>a DEF CleanTabsAreRight, After
      <4>6. LoggedIn = {}
        BY <4>5, <3>2 DEF Before
      <4>7. \A p \in LoggedIn' : p = <<t, r>>
        <5>1. SUFFICES ASSUME NEW u \in Tabs, NEW x \in Requests, tab'[u].request[x].kind = "login",
                              tab'[u].request[x].at = "ok"
                       PROVE  u = t /\ x = r
          BY DEF LoggedIn, Is, Request
        <5>. DEFINE p == <<u, x>>
        <5>p. p \in Tabs \X Requests /\ p[1] = u /\ p[2] = x
          OBVIOUS
        <5>2. ~(tab[u].request[x].kind = "login" /\ tab[u].request[x].at = "ok")
          <6>. HIDE DEF p
          <6>. QED
            BY <5>p, <4>6 DEF LoggedIn, Is, Request
        <5>. QED
          BY <5>1, <5>2, <4>1, <2>5
      <4>8. \A u \in Tabs : NewTab(tab'[u])
        <5>1. NewTab(s)
          BY <4>5, <2>3, <2>5 DEF Before, NewTab, LoginsOnly
        <5>. QED
          BY <5>1, <4>1, <4>5 DEF Before
      <4>9. Before'
        BY <4>1, <4>5, <4>7, <4>8, <2>2, <2>3, <2>5, <2>6 DEF Before, NewTab, LoginsOnly, Request
      <4>10. \A u \in Tabs : u # w => ~HoldsTokens(tab'[u])
        BY <4>8 DEF NewTab, HoldsTokens
      <4>. QED
        BY <4>9, <4>10 DEF HoldsTokens
    <3>. QED
      BY <3>1, <3>2
  <2>9. tab' \in [Tabs -> Tab] /\ disturbed' \subseteq Tabs
    BY <1>t, <2>4, <2>5, <2>6
  <2>. QED
    BY <1>y, <1>t, <2>2, <2>6, <2>8, <2>9
(* What the refresh of a tab becomes. *)
<1>g. ASSUME NEW t \in Tabs, NEW f \in tab[t].refreshing, NEW g \in RefreshRecord, g.for = f.for,
             tab' = [tab EXCEPT ![t] = [tab[t] EXCEPT !.refreshing = {g}]]
      PROVE  \E s \in Tab :
               /\ tab' = [tab EXCEPT ![t] = s] /\ IsAwaited(s) /\ s.refreshing = {g}
               /\ s.store = tab[t].store /\ s.page = tab[t].page /\ s.leaving = tab[t].leaving
               /\ s.asked = tab[t].asked /\ s.out = tab[t].out /\ s.request = tab[t].request
  <2>. DEFINE s == [tab[t] EXCEPT !.refreshing = {g}]
  <2>1. /\ s \in Tab /\ s.refreshing = {g}
        /\ s.store = tab[t].store /\ s.page = tab[t].page /\ s.leaving = tab[t].leaving
        /\ s.asked = tab[t].asked /\ s.out = tab[t].out /\ s.request = tab[t].request
    BY <1>g, <1>q DEF Tab
  <2>2. tab' = [tab EXCEPT ![t] = s]
    BY <1>g
  <2>. HIDE DEF s
  <2>3. IsAwaited(s)
    BY <1>g, <1>a, <2>1 DEF IsAwaited
  <2>. QED
    BY <2>1, <2>2, <2>3
<1>7. ASSUME NEW t \in Tabs, AnswerRefresh(t) PROVE WebInv'
  <2>1. PICK f \in tab[t].refreshing :
          /\ f.answer = "none"
          /\ IF f.pair # 0 /\ f.pair = current
             THEN /\ pairs' = pairs + 1 /\ current' = pairs + 1
                  /\ disturbed' = disturbed \cup (Tabs \ {t})
                  /\ tab' = [tab EXCEPT ![t].refreshing = {[f EXCEPT !.answer = "tokens", !.made = pairs + 1]}]
             ELSE /\ tab' = [tab EXCEPT ![t].refreshing = {[f EXCEPT !.answer = "refused"]}]
                  /\ UNCHANGED <<pairs, current, disturbed>>
          /\ UNCHANGED <<expired, expiries, stored, logins, rivals, faults>>
    BY <1>7 DEF AnswerRefresh
  <2>f. f \in RefreshRecord /\ pairs + 1 \in Nat
    BY <1>q, <1>t
  <2>2. CASE f.pair # 0 /\ f.pair = current
    <3>. DEFINE a == [f EXCEPT !.answer = "tokens"]
                g == [a EXCEPT !.made = pairs + 1]
    <3>1. a \in RefreshRecord /\ a.for = f.for /\ a.pair = f.pair /\ a.answer = "tokens"
      BY <2>f DEF RefreshRecord
    <3>. HIDE DEF a
    <3>2. g \in RefreshRecord /\ g.for = f.for /\ g.answer = "tokens" /\ g.made = pairs + 1
      BY <3>1, <2>f DEF RefreshRecord, Pairs
    <3>3. tab' = [tab EXCEPT ![t] = [tab[t] EXCEPT !.refreshing = {g}]]
      BY <2>1, <2>2, <2>f DEF a, RefreshRecord
    <3>. HIDE DEF g
    <3>4. PICK s \in Tab :
               /\ tab' = [tab EXCEPT ![t] = s] /\ IsAwaited(s) /\ s.refreshing = {g}
               /\ s.store = tab[t].store /\ s.page = tab[t].page /\ s.leaving = tab[t].leaving
               /\ s.asked = tab[t].asked /\ s.out = tab[t].out /\ s.request = tab[t].request
      BY <3>2, <3>3, <1>g
    <3>5. tab'[t] = s /\ \A w \in Tabs : w # t => tab'[w] = tab[w]
      BY <1>t, <3>4
    <3>6. \A w \in Tabs : IsAwaited(tab'[w])
      BY <3>4, <3>5, <1>a
    <3>7. CleanTabsAreRight'
      <4>1. SUFFICES ASSUME Clean(t)'
                     PROVE  (\A u \in Tabs : u # t => ~HoldsTokens(tab[u]))' /\ After(t)'
        BY <2>1, <2>2 DEF CleanTabsAreRight, Clean
      <4>2. Clean(t)
        BY <4>1, <2>1, <2>2 DEF Clean
      <4>3. After(t) /\ \A u \in Tabs : u # t => ~HoldsTokens(tab[u])
        BY <4>2, <1>a, <2>2 DEF CleanTabsAreRight, Before, NewTab
      <4>4. ~HoldsTokens(tab[t]) /\ ~tab[t].leaving
        BY <1>a, <2>1 DEF IsAwaited, HoldsTokens
      <4>5. s.store.pair # pairs + 1
        BY <4>3, <4>4, <3>4, <1>t, <1>q DEF After, OwnTab
      <4>6. HoldsTokens(s)
        BY <3>2, <3>4 DEF HoldsTokens
      <4>7. LoggedIn' = LoggedIn
        BY <3>4, <3>5 DEF LoggedIn, Is, Request
      <4>8. \A u \in Tabs : u # t => ~HoldsTokens(tab'[u])
        BY <3>5, <4>3
      <4>9. OwnTab(tab[t])'
        BY <2>1, <2>2, <3>2, <3>4, <3>5, <4>4, <4>5, <4>6
        DEF OwnTab, HoldsTokens, Excused, LoginsOnly
      <4>10. current' # 0 /\ LoggedIn' = {} /\ HoldsTokens(tab[t])'
        BY <2>1, <2>2, <1>t, <4>3, <4>6, <4>7, <3>5 DEF After, HoldsTokens
      <4>. QED
        BY <4>8, <4>9, <4>10 DEF After, HoldsTokens
    <3>8. tab' \in [Tabs -> Tab] /\ disturbed' \subseteq Tabs
      BY <1>t, <2>1, <2>2, <3>4
    <3>. QED
      BY <1>y, <1>t, <2>1, <2>2, <2>f, <3>6, <3>7, <3>8 DEF IsAwaited
  <2>3. CASE ~(f.pair # 0 /\ f.pair = current)
    <3>1. PICK g : g = [f EXCEPT !.answer = "refused"]
      OBVIOUS
    <3>2. g \in RefreshRecord /\ g.for = f.for /\ g.answer = "refused" /\ g.pair = f.pair
      BY <3>1, <2>f DEF RefreshRecord
    <3>3. tab' = [tab EXCEPT ![t] = [tab[t] EXCEPT !.refreshing = {g}]]
      BY <2>1, <2>3, <3>1
    <3>4. PICK s \in Tab :
               /\ tab' = [tab EXCEPT ![t] = s] /\ IsAwaited(s) /\ s.refreshing = {g}
               /\ s.store = tab[t].store /\ s.page = tab[t].page /\ s.leaving = tab[t].leaving
               /\ s.asked = tab[t].asked /\ s.out = tab[t].out /\ s.request = tab[t].request
      BY <3>2, <3>3, <1>g
    <3>5. ~HoldsTokens(s) /\ ~HoldsTokens(tab[t])
      BY <1>a, <2>1, <3>2, <3>4 DEF IsAwaited, HoldsTokens
    <3>6. NewTab(tab[t]) => NewTab(s)
      BY <3>2, <3>4 DEF NewTab, LoginsOnly
    <3>7. After(t) => OwnTab(s) /\ (stored'.pair \in {0, current} \/ HoldsTokens(s))
      BY <2>1, <2>3, <3>2, <3>4, <3>5 DEF After, OwnTab, Excused, LoginsOnly
    <3>8. (\A w \in Tabs : IsAwaited(tab[w]))' /\ CleanTabsAreRight'
      BY <2>1, <2>3, <3>4, <3>5, <3>6, <3>7, OneTabMoves
    <3>. QED
      BY <1>f, <1>t, <2>1, <2>3, <3>4, <3>8
  <2>. QED
    BY <2>2, <2>3
<1>8. ASSUME NEW t \in Tabs, LoseRefresh(t) PROVE WebInv'
  <2>1. PICK f \in tab[t].refreshing :
          /\ tab' = [tab EXCEPT ![t].refreshing = {[f EXCEPT !.answer = "refused"]}]
          /\ faults < MaxFaults /\ faults' = faults + 1
          /\ UNCHANGED <<pairs, current, expired, expiries, stored, logins, rivals, disturbed>>
    BY <1>8 DEF LoseRefresh, server
  <2>2. PICK g : g = [f EXCEPT !.answer = "refused"]
    OBVIOUS
  <2>3. g \in RefreshRecord /\ g.for = f.for
    BY <2>2, <1>q DEF RefreshRecord
  <2>4. tab' = [tab EXCEPT ![t] = [tab[t] EXCEPT !.refreshing = {g}]]
    BY <2>1, <2>2
  <2>5. PICK s \in Tab : tab' = [tab EXCEPT ![t] = s] /\ IsAwaited(s)
    BY <2>3, <2>4, <1>g
  <2>6. faults' \in 0..MaxFaults /\ faults' # 0
    BY <2>1, <1>t, <1>c
  <2>. QED
    BY <1>f, <1>o, <1>t, <2>1, <2>5, <2>6
(* A request that is sent with what the store holds. *)
<1>s. ASSUME NEW t \in Tabs, NEW r \in Requests, NEW kind \in Kinds, NEW code \in BOOLEAN,
             Free(t, r), Sent(t, r, kind, code), kind # "login" => tab[t].page = "dashboard",
             logins' \in 0..MaxLogins,
             UNCHANGED <<pairs, current, expired, expiries, stored, rivals, faults, disturbed>>
      PROVE  WebInv'
  <2>. DEFINE q == tab[t]
              m == [kind |-> kind, at |-> "sent", pair |-> tab[t].store.pair, retry |-> FALSE, code |-> code]
              s == [tab[t] EXCEPT !.request = [tab[t].request EXCEPT ![r] = m]]
  <2>1. m \in RequestRecord /\ m.kind = kind /\ m.at = "sent"
    BY <1>q DEF RequestRecord, Pairs
  <2>2. tab' = [tab EXCEPT ![t] = s]
    BY <1>s DEF Sent
  <2>. HIDE DEF m
  <2>3. /\ s \in Tab /\ s.store = q.store /\ s.page = q.page /\ s.leaving = q.leaving
        /\ s.asked = q.asked /\ s.out = q.out /\ s.refreshing = q.refreshing
        /\ \A x \in Requests : s.request[x] = IF x = r THEN m ELSE q.request[x]
    BY <1>q, <2>1, AnsweredTab
  <2>. HIDE DEF s
  <2>4. ~q.leaving /\ q.request[r].at = "none"
    BY <1>s DEF Free, Alive, Request, NoRequest
  <2>5. IsAwaited(s)
    BY <1>a, <1>q, <2>1, <2>3, <2>4 DEF IsAwaited
  <2>6. (NewTab(q) => NewTab(s)) /\ (HoldsTokens(s) <=> HoldsTokens(q))
    BY <1>s, <2>1, <2>3 DEF NewTab, HoldsTokens, LoginsOnly
  <2>7. \A f \in q.refreshing : f.for # r
    BY <1>a, <2>4 DEF IsAwaited
  <2>8. OwnTab(q) => OwnTab(s)
    BY <1>s, <1>q, <2>1, <2>3, <2>4, <2>6, <2>7 DEF OwnTab, LoginsOnly, Excused
  <2>9. (\A w \in Tabs : IsAwaited(tab[w]))' /\ CleanTabsAreRight'
    BY <1>s, <2>1, <2>2, <2>3, <2>5, <2>6, <2>8, OneTabMoves DEF After
  <2>. QED
    BY <1>s, <1>f, <1>t, <2>2, <2>3, <2>9
<1>9. ASSUME NEW t \in Tabs, NEW r \in Requests, LoadData(t, r) PROVE WebInv'
  BY <1>9, <1>s, <1>t DEF LoadData, server, Kinds
<1>10. ASSUME NEW t \in Tabs, NEW r \in Requests, SubmitLogin(t, r) PROVE WebInv'
  <2>1. logins' \in 0..MaxLogins
    BY <1>10, <1>t, <1>c DEF SubmitLogin
  <2>2. tab[t].needs2FA \in BOOLEAN
    BY <1>q DEF Tab
  <2>. QED
    BY <1>10, <2>1, <2>2, <1>s DEF SubmitLogin, server, Kinds
<1>11. ASSUME NEW t \in Tabs, NEW r \in Requests, ClickLogout(t, r) PROVE WebInv'
  BY <1>11, <1>s, <1>t DEF ClickLogout, server, Kinds
<1>n. NoRequest.kind = "data" /\ NoRequest.at = "none" /\ LoggedOut \in Store /\ LoggedOut.pair = 0
  BY DEF NoRequest, LoggedOut, Store, Pairs
(* What the store becomes in localStorage. *)
<1>b. ASSUME NEW t \in Tabs, NEW s \in Tab, Becomes(t, s)
      PROVE  /\ tab' = [tab EXCEPT ![t] = s] /\ stored' \in Store
             /\ s.store = tab[t].store => stored' = stored
             /\ s.store # tab[t].store => stored' = s.store
  <2>1. s.store \in Store
    BY DEF Tab
  <2>. QED
    BY <1>b, <2>1, <1>t DEF Becomes
(* A request other than one that logged in is over: it is settled, or it   *)
(* was a logout.                                                           *)
<1>d. ASSUME NEW t \in Tabs, NEW r \in Requests, NEW s \in Tab, Becomes(t, s),
             ~tab[t].leaving, tab[t].request[r].at \in {"ok", "refused"},
             s.leaving = tab[t].leaving, s.refreshing = tab[t].refreshing,
             \A x \in Requests : s.request[x] = IF x = r THEN NoRequest ELSE tab[t].request[x],
             \/ s.store = tab[t].store /\ s.page = tab[t].page /\ s.out = tab[t].out
             \/ s.store = LoggedOut /\ s.page = "login" /\ s.out /\ tab[t].request[r].kind = "logout",
             UNCHANGED <<pairs, current, expired, expiries, logins, rivals, faults, disturbed>>
      PROVE  WebInv'
  <2>. DEFINE q == tab[t]
  <2>1. IsAwaited(s)
    BY <1>d, <1>a, <1>q, <1>n DEF IsAwaited
  <2>2. \A f \in q.refreshing : f.for # r /\ f.for \in Requests
    BY <1>d, <1>a, <1>q DEF IsAwaited
  <2>3. HoldsTokens(s) <=> HoldsTokens(q)
    BY <1>d DEF HoldsTokens
  <2>4. NewTab(q) => NewTab(s)
    BY <1>d, <1>n DEF NewTab, LoginsOnly
  <2>5. current # 0 /\ OwnTab(q) => OwnTab(s)
    <3>1. CASE s.store = q.store /\ s.page = q.page /\ s.out = q.out
      BY <1>d, <1>n, <2>2, <2>3, <3>1 DEF OwnTab, LoginsOnly, Excused
    <3>2. CASE s.store = LoggedOut /\ s.page = "login" /\ s.out
      BY <1>d, <1>n, <2>2, <2>3, <3>2 DEF OwnTab, LoginsOnly, Excused
    <3>. QED
      BY <1>d, <3>1, <3>2
  <2>6. /\ tab' = [tab EXCEPT ![t] = s] /\ stored' \in Store
        /\ stored' = stored \/ stored'.pair = 0
    BY <1>b, <1>d, <1>n
  <2>7. After(t) => OwnTab(s) /\ (stored'.pair \in {0, current} \/ HoldsTokens(s))
    BY <2>3, <2>5, <2>6 DEF After
  <2>8. (\A w \in Tabs : IsAwaited(tab[w]))' /\ CleanTabsAreRight'
    BY <1>d, <1>n, <2>1, <2>3, <2>4, <2>6, <2>7, OneTabMoves
  <2>. QED
    BY <1>d, <1>f, <1>t, <2>6, <2>8
<1>12. ASSUME NEW t \in Tabs, NEW r \in Requests, Resolve(t, r) PROVE WebInv'
  <2>. DEFINE q == tab[t]
              s == Resolved(tab[t], r)
  <2>1. /\ s \in Tab /\ s.leaving = q.leaving /\ s.refreshing = q.refreshing
        /\ \A x \in Requests : s.request[x] = IF x = r THEN NoRequest ELSE q.request[x]
        /\ q.request[r].kind # "login" =>
             \/ s.store = q.store /\ s.page = q.page /\ s.out = q.out
             \/ s.store = LoggedOut /\ s.page = "login" /\ s.out /\ q.request[r].kind = "logout"
        /\ q.request[r].kind = "login" =>
             s.store.pair = q.request[r].pair /\ s.page = "dashboard" /\ ~s.out /\ ~s.asked
    BY <1>q, ResolvedTab
  <2>2. /\ Becomes(t, s) /\ ~q.leaving /\ q.request[r].at = "ok"
        /\ UNCHANGED <<pairs, current, expired, expiries, logins, rivals, faults, disturbed>>
    BY <1>12 DEF Resolve, Alive, Request, server
  <2>. HIDE DEF s
  <2>3. CASE q.request[r].kind # "login"
    BY <2>1, <2>2, <2>3, <1>d
  <2>4. CASE q.request[r].kind = "login"
    <3>1. /\ tab' = [tab EXCEPT ![t] = s] /\ stored' \in Store
          /\ s.store = q.store => stored' = stored
          /\ s.store # q.store => stored' = s.store
      BY <1>b, <2>1, <2>2
    <3>2. tab'[t] = s /\ \A w \in Tabs : w # t => tab'[w] = tab[w]
      BY <1>t, <3>1
    <3>3. IsAwaited(s)
      BY <1>a, <1>q, <1>n, <2>1, <2>2 DEF IsAwaited
    <3>4. \A w \in Tabs : IsAwaited(tab'[w])
      BY <1>a, <3>2, <3>3
    <3>5. CleanTabsAreRight'
      <4>1. SUFFICES ASSUME NEW w \in Tabs, Clean(w)'
                     PROVE  (\A u \in Tabs : u # w => ~HoldsTokens(tab[u]))' /\ After(w)'
        BY DEF CleanTabsAreRight
      <4>. DEFINE p == <<t, r>>
      <4>2. p \in LoggedIn /\ p[1] = t /\ p[2] = r
        BY <2>2, <2>4 DEF LoggedIn, Is, Request
      <4>. HIDE DEF p
      <4>3. Clean(w)
        BY <4>1, <2>2 DEF Clean
      <4>4. Before
        BY <4>2, <4>3, <1>a DEF CleanTabsAreRight, After
      <4>5. q.request[r].pair = current /\ current # 0
        BY <4>2, <4>4 DEF Before, Request
      <4>6. LoggedIn' = {}
        <5>1. SUFFICES ASSUME NEW u \in Tabs, NEW x \in Requests, tab'[u].request[x].kind = "login",
                              tab'[u].request[x].at = "ok"
                       PROVE  FALSE
          BY DEF LoggedIn, Is, Request
        <5>2. tab[u].request[x].kind = "login" /\ tab[u].request[x].at = "ok" /\ ~(u = t /\ x = r)
          BY <5>1, <3>2, <2>1, <1>n
        <5>. DEFINE v == <<u, x>>
        <5>3. v \in LoggedIn /\ v[1] = u /\ v[2] = x
          BY <5>2 DEF LoggedIn, Is, Request
        <5>. HIDE DEF v
        <5>. QED
          BY <5>2, <5>3, <4>2, <4>4 DEF Before
      <4>7. \A u \in Tabs : ~HoldsTokens(tab'[u])
        BY <4>4, <3>2, <2>1 DEF Before, NewTab, HoldsTokens
      <4>8. stored'.pair = current
        BY <4>4, <4>5, <3>1, <2>1, <2>4 DEF Before, NewTab
      <4>9. OwnTab(s)
        BY <4>4, <4>5, <2>1, <2>2, <2>4, <1>q, <1>a
        DEF Before, NewTab, OwnTab, Excused, IsAwaited, LoginsOnly
      <4>10. \A u \in Tabs : u # t => OwnTab(tab'[u])
        <5>1. SUFFICES ASSUME NEW u \in Tabs, u # t PROVE OwnTab(tab[u])
          BY <3>2
        <5>2. \A f \in tab[u].refreshing : f.for \in Requests /\ tab[u].request[f.for].at = "waiting"
          BY <1>q, <1>a DEF IsAwaited
        <5>. QED
          BY <5>2, <4>4 DEF Before, NewTab, OwnTab, Excused, LoginsOnly
      <4>11. OwnTab(tab[w])'
        BY <4>9, <4>10, <3>2, <2>2 DEF OwnTab, HoldsTokens, Excused, LoginsOnly
      <4>. QED
        BY <4>5, <4>6, <4>7, <4>8, <4>11, <2>2 DEF After, HoldsTokens
    <3>. QED
      BY <2>1, <2>2, <3>1, <3>4, <3>5, <1>f, <1>t DEF IsAwaited
  <2>. QED
    BY <2>3, <2>4
<1>13. ASSUME NEW t \in Tabs, NEW r \in Requests, LoseAnswer(t, r) PROVE WebInv'
  <2>. DEFINE s == Rejected(tab[t], r, FALSE)
  <2>1. /\ s \in Tab /\ s.leaving = tab[t].leaving /\ s.refreshing = tab[t].refreshing
        /\ \A x \in Requests : s.request[x] = IF x = r THEN NoRequest ELSE tab[t].request[x]
    <3>1. tab[t] \in Tab /\ FALSE \in BOOLEAN
      BY <1>q
    <3>. QED
      BY <3>1, RejectedTab, Zenon
  <2>2. /\ Becomes(t, s) /\ ~tab[t].leaving /\ tab[t].request[r].at \in {"sent", "ok", "refused"}
        /\ faults < MaxFaults /\ faults' = faults + 1
        /\ UNCHANGED <<pairs, current, expired, expiries, logins, rivals, disturbed>>
    BY <1>13 DEF LoseAnswer, Alive, Request, server
  <2>. HIDE DEF s
  <2>3. IsAwaited(s)
    BY <1>a, <1>q, <1>n, <2>1, <2>2 DEF IsAwaited
  <2>4. tab' = [tab EXCEPT ![t] = s] /\ stored' \in Store
    BY <1>b, <2>1, <2>2
  <2>5. faults' \in 0..MaxFaults /\ faults' # 0
    BY <2>2, <1>t, <1>c
  <2>. QED
    BY <1>f, <1>o, <1>t, <2>1, <2>2, <2>3, <2>4, <2>5
<1>14. ASSUME NEW t \in Tabs, NEW r \in Requests, PassOn(t, r) PROVE WebInv'
  <2>. DEFINE q == tab[t]
              s == Rejected(tab[t], r, Request(t, r).kind = "login")
  <2>1. /\ s \in Tab /\ s.leaving = q.leaving /\ s.refreshing = q.refreshing
        /\ \A x \in Requests : s.request[x] = IF x = r THEN NoRequest ELSE q.request[x]
        /\ \/ s.store = q.store /\ s.page = q.page /\ s.out = q.out
           \/ s.store = LoggedOut /\ s.page = "login" /\ s.out /\ q.request[r].kind = "logout"
    <3>1. q \in Tab
      BY <1>q
    <3>2. \A b \in BOOLEAN :
            /\ Rejected(q, r, b) \in Tab /\ Rejected(q, r, b).leaving = q.leaving
            /\ Rejected(q, r, b).refreshing = q.refreshing
            /\ \A x \in Requests : Rejected(q, r, b).request[x] = IF x = r THEN NoRequest ELSE q.request[x]
            /\ \/ /\ Rejected(q, r, b).store = q.store /\ Rejected(q, r, b).page = q.page
                  /\ Rejected(q, r, b).out = q.out
               \/ /\ Rejected(q, r, b).store = LoggedOut /\ Rejected(q, r, b).page = "login"
                  /\ Rejected(q, r, b).out /\ q.request[r].kind = "logout"
      BY <3>1, RejectedTab
    <3>3. (Request(t, r).kind = "login") \in BOOLEAN
      OBVIOUS
    <3>. QED
      BY <3>2, <3>3, Zenon
  <2>2. /\ Becomes(t, s) /\ ~q.leaving /\ q.request[r].at = "refused"
        /\ UNCHANGED <<pairs, current, expired, expiries, logins, rivals, faults, disturbed>>
    BY <1>14 DEF PassOn, Refused, Alive, Request, server
  <2>. HIDE DEF s
  <2>. QED
    BY <2>1, <2>2, <1>d
<1>w. ASSUME NEW m \in RequestRecord
      PROVE  Waiting(m) \in RequestRecord /\ Waiting(m).kind = m.kind /\ Waiting(m).at = "waiting"
  <2>1. PICK n : n = [m EXCEPT !.at = "waiting"]
    OBVIOUS
  <2>2. n \in RequestRecord /\ n.kind = m.kind /\ n.at = "waiting"
    BY <2>1 DEF RequestRecord
  <2>3. Waiting(m) = [n EXCEPT !.retry = TRUE]
    BY <2>1 DEF Waiting, RequestRecord
  <2>. QED
    BY <2>2, <2>3 DEF RequestRecord
<1>15. ASSUME NEW t \in Tabs, NEW r \in Requests, Wait(t, r) PROVE WebInv'
  <2>. DEFINE q == tab[t]
              m == Waiting(tab[t].request[r])
              s == [tab[t] EXCEPT !.request = [tab[t].request EXCEPT ![r] = m]]
  <2>1. m \in RequestRecord /\ m.kind = q.request[r].kind /\ m.at = "waiting"
    BY <1>q, <1>w
  <2>2. tab' = [tab EXCEPT ![t] = s]
    BY <1>15 DEF Wait
  <2>. HIDE DEF m
  <2>3. /\ s \in Tab /\ s.store = q.store /\ s.page = q.page /\ s.leaving = q.leaving
        /\ s.asked = q.asked /\ s.out = q.out /\ s.refreshing = q.refreshing
        /\ \A x \in Requests : s.request[x] = IF x = r THEN m ELSE q.request[x]
    BY <1>q, <2>1, AnsweredTab
  <2>. HIDE DEF s
  <2>4. q.refreshing # {} /\ q.request[r].at = "refused"
    BY <1>15 DEF Wait, Refused, Request, NoRefresh
  <2>5. IsAwaited(s)
    BY <1>a, <1>q, <2>1, <2>3, <2>4 DEF IsAwaited
  <2>6. (NewTab(q) => NewTab(s)) /\ (OwnTab(q) => OwnTab(s)) /\ (HoldsTokens(s) <=> HoldsTokens(q))
    BY <1>q, <2>1, <2>3, <2>4 DEF NewTab, OwnTab, HoldsTokens, LoginsOnly, Excused
  <2>7. UNCHANGED <<pairs, current, expired, expiries, stored, logins, rivals, faults, disturbed>>
    BY <1>15 DEF Wait, server
  <2>8. (\A w \in Tabs : IsAwaited(tab[w]))' /\ CleanTabsAreRight'
    BY <2>1, <2>2, <2>3, <2>5, <2>6, <2>7, OneTabMoves DEF After
  <2>. QED
    BY <1>f, <1>t, <2>2, <2>3, <2>7, <2>8
<1>16. ASSUME NEW t \in Tabs, NEW r \in Requests, StartRefresh(t, r) PROVE WebInv'
  <2>. DEFINE q == tab[t]
              m == Waiting(tab[t].request[r])
              g == [for |-> r, pair |-> tab[t].store.pair, answer |-> "none", made |-> 0]
              z == [tab[t] EXCEPT !.request = [tab[t].request EXCEPT ![r] = m]]
              s == [z EXCEPT !.refreshing = {g}]
  <2>1. m \in RequestRecord /\ m.kind = q.request[r].kind /\ m.at = "waiting"
    BY <1>q, <1>w
  <2>0. tab' = [tab EXCEPT ![t] = [tab[t] EXCEPT !.request[r] = Waiting(@), !.refreshing = {g}]]
    BY <1>16 DEF StartRefresh
  <2>3. g \in RefreshRecord /\ g.for = r /\ g.pair = q.store.pair /\ g.answer = "none"
    BY <1>q DEF RefreshRecord, Pairs
  <2>. HIDE DEF m, g
  <2>4. /\ z \in Tab /\ z.store = q.store /\ z.page = q.page /\ z.leaving = q.leaving
        /\ z.asked = q.asked /\ z.out = q.out
        /\ \A x \in Requests : z.request[x] = IF x = r THEN m ELSE q.request[x]
    BY <1>q, <2>1, AnsweredTab
  <2>2. tab' = [tab EXCEPT ![t] = s]
    <3>1. [tab[t] EXCEPT !.request[r] = Waiting(@), !.refreshing = {g}] = s
      BY <1>q DEF Tab, m
    <3>. QED
      BY <2>0, <3>1
  <2>. HIDE DEF z
  <2>5. /\ s \in Tab /\ s.store = q.store /\ s.page = q.page /\ s.leaving = q.leaving
        /\ s.asked = q.asked /\ s.out = q.out /\ s.refreshing = {g}
        /\ \A x \in Requests : s.request[x] = IF x = r THEN m ELSE q.request[x]
    BY <2>3, <2>4 DEF Tab
  <2>. HIDE DEF s
  <2>6. q.refreshing = {} /\ q.request[r].at = "refused" /\ ~q.leaving
    BY <1>16 DEF StartRefresh, Refused, Alive, Request, NoRefresh
  <2>7. IsAwaited(s)
    BY <1>a, <1>q, <2>1, <2>3, <2>5, <2>6 DEF IsAwaited
  <2>8. ~HoldsTokens(s) /\ ~HoldsTokens(q)
    BY <2>3, <2>5, <2>6 DEF HoldsTokens
  <2>9. NewTab(q) => NewTab(s)
    BY <2>1, <2>3, <2>5, <2>6 DEF NewTab, LoginsOnly
  <2>10. OwnTab(q) => OwnTab(s)
    BY <1>q, <2>1, <2>3, <2>5, <2>6, <2>8 DEF OwnTab, LoginsOnly, Excused
  <2>11. UNCHANGED <<pairs, current, expired, expiries, stored, logins, rivals, faults, disturbed>>
    BY <1>16 DEF StartRefresh, server
  <2>12. (\A w \in Tabs : IsAwaited(tab[w]))' /\ CleanTabsAreRight'
    BY <2>1, <2>2, <2>5, <2>7, <2>8, <2>9, <2>10, <2>11, OneTabMoves DEF After
  <2>. QED
    BY <1>f, <1>t, <2>2, <2>5, <2>11, <2>12
<1>17. ASSUME NEW t \in Tabs, FinishRefresh(t) PROVE WebInv'
  <2>. DEFINE q == tab[t]
  <2>1. PICK f \in q.refreshing : Refreshed(t, f) \/ RefreshFailed(t, f)
    BY <1>17 DEF FinishRefresh
  <2>2. ~q.leaving /\ UNCHANGED <<pairs, current, expired, expiries, logins, rivals, faults, disturbed>>
    BY <1>17 DEF FinishRefresh, Alive, server
  <2>3. /\ f.for \in Requests /\ q.request[f.for].at = "waiting" /\ f.made \in Nat
        /\ \A g \in q.refreshing : g = f
    BY <1>a, <1>q DEF IsAwaited, RefreshRecord, Pairs
  <2>4. CASE Refreshed(t, f)
    <3>. DEFINE z == Resent(q, f)
                st == [q.store EXCEPT !.pair = f.made]
                s == [[z EXCEPT !.store = st] EXCEPT !.refreshing = {}]
    <3>0. z.store = q.store
      BY <1>q DEF Resent, Tab
    <3>1. Becomes(t, s) /\ f.answer = "tokens"
      BY <2>4, <3>0 DEF Refreshed, NoRefresh
    <3>2. st \in Store /\ st.pair = f.made
      BY <1>q, <2>3 DEF Store, Pairs
    <3>3. /\ z \in Tab /\ z.page = q.page /\ z.leaving = q.leaving /\ z.asked = q.asked /\ z.out = q.out
          /\ \A x \in Requests : z.request[x].at # "waiting" /\ z.request[x].kind = q.request[x].kind
          /\ \A x \in Requests : z.request[x].at = "ok" => z.request[x] = q.request[x]
      <4>. DEFINE rs == [x \in Requests |-> IF q.request[x].at = "waiting"
                                            THEN [q.request[x] EXCEPT !.at = "sent", !.pair = f.made]
                                            ELSE q.request[x]]
      <4>1. \A x \in Requests : /\ rs[x] \in RequestRecord /\ rs[x].at # "waiting"
                                /\ rs[x].kind = q.request[x].kind
                                /\ rs[x].at = "ok" => rs[x] = q.request[x]
        <5>1. SUFFICES ASSUME NEW x \in Requests
                       PROVE  /\ rs[x] \in RequestRecord /\ rs[x].at # "waiting"
                              /\ rs[x].kind = q.request[x].kind
                              /\ rs[x].at = "ok" => rs[x] = q.request[x]
          OBVIOUS
        <5>2. CASE q.request[x].at # "waiting"
          BY <1>q, <5>2
        <5>3. CASE q.request[x].at = "waiting"
          <6>. DEFINE n == [q.request[x] EXCEPT !.at = "sent"]
          <6>1. n \in RequestRecord /\ n.at = "sent" /\ n.kind = q.request[x].kind
            BY <1>q DEF RequestRecord
          <6>2. rs[x] = [n EXCEPT !.pair = f.made]
            BY <1>q, <5>3 DEF RequestRecord
          <6>. HIDE DEF n, rs
          <6>. QED
            BY <2>3, <6>1, <6>2 DEF RequestRecord, Pairs
        <5>. QED
          BY <5>2, <5>3
      <4>2. rs \in [Requests -> RequestRecord]
        BY <4>1
      <4>3. z = [q EXCEPT !.request = rs]
        BY DEF Resent
      <4>. HIDE DEF rs, z
      <4>4. /\ z \in Tab /\ z.page = q.page /\ z.leaving = q.leaving /\ z.asked = q.asked /\ z.out = q.out
            /\ z.request = rs
        BY <1>q, <4>2, <4>3 DEF Tab
      <4>. QED
        BY <4>1, <4>4
    <3>. HIDE DEF z, st
    <3>4. /\ s \in Tab /\ s.store = st /\ s.page = q.page /\ s.leaving = q.leaving /\ s.asked = q.asked
          /\ s.out = q.out /\ s.refreshing = {} /\ s.request = z.request
      <4>. DEFINE y == [z EXCEPT !.store = st]
      <4>1. /\ y \in Tab /\ y.store = st /\ y.page = q.page /\ y.leaving = q.leaving /\ y.asked = q.asked
            /\ y.out = q.out /\ y.request = z.request
        BY <3>2, <3>3 DEF Tab
      <4>2. s = [y EXCEPT !.refreshing = {}]
        OBVIOUS
      <4>. HIDE DEF s, y
      <4>. QED
        BY <4>1, <4>2 DEF Tab
    <3>. HIDE DEF s
    <3>5. IsAwaited(s) /\ ~HoldsTokens(s) /\ HoldsTokens(q)
      BY <2>2, <3>1, <3>3, <3>4 DEF IsAwaited, HoldsTokens
    <3>6. ~NewTab(q)
      BY <3>1 DEF NewTab
    <3>7. /\ tab' = [tab EXCEPT ![t] = s] /\ stored' \in Store
          /\ s.store = q.store => stored' = stored
          /\ s.store # q.store => stored' = s.store
      BY <1>b, <3>1, <3>4
    <3>8. After(t) => OwnTab(s) /\ stored'.pair = current
      BY <2>2, <3>1, <3>2, <3>4, <3>7 DEF After, OwnTab
    <3>9. CleanTabsAreRight' /\ (\A w \in Tabs : IsAwaited(tab[w]))'
      <4>1. CASE \E w \in Tabs : Clean(w)
        <5>1. PICK w \in Tabs : Clean(w)
          BY <4>1
        <5>2. After(t)
          BY <5>1, <1>a, <3>5, <3>6 DEF CleanTabsAreRight, Before
        <5>3. stored'.pair = current /\ OwnTab(s)
          BY <5>2, <3>8
        <5>4. \A x \in Requests : s.request[x].kind = "login" /\ s.request[x].at = "ok" =>
                                     tab[t].request[x] = s.request[x]
          BY <3>3, <3>4
        <5>. HIDE DEF q
        <5>. QED
          BY <5>3, <5>4, <2>2, <3>4, <3>5, <3>6, <3>7, OneTabMoves DEF q
      <4>2. CASE ~\E w \in Tabs : Clean(w)
        <5>1. \A w \in Tabs : IsAwaited(tab'[w])
          BY <1>t, <1>a, <3>5, <3>7
        <5>. QED
          BY <5>1, <4>2, <2>2 DEF CleanTabsAreRight, Clean
      <4>. QED
        BY <4>1, <4>2
    <3>. QED
      BY <1>f, <1>t, <2>2, <3>4, <3>7, <3>9
  <2>5. CASE RefreshFailed(t, f)
    <3>. DEFINE b == Request(t, f.for).kind = "login"
                z == Rejected(q, f.for, b)
                s == [z EXCEPT !.store = LoggedOut, !.leaving = TRUE, !.refreshing = {}]
    <3>1. Becomes(t, s) /\ f.answer = "refused"
      BY <2>5 DEF RefreshFailed, NoRefresh
    <3>2. /\ z \in Tab
          /\ \A x \in Requests : z.request[x] = IF x = f.for THEN NoRequest ELSE q.request[x]
          /\ (q.asked => z.asked) /\ (q.request[f.for].kind = "login" => z.asked)
          /\ q.out => z.out
          /\ q.request[f.for].kind # "logout" => z.page = q.page /\ z.out = q.out
      <4>1. q \in Tab
        BY <1>q
      <4>2. \A c \in BOOLEAN :
              /\ Rejected(q, f.for, c) \in Tab
              /\ \A x \in Requests :
                   Rejected(q, f.for, c).request[x] = IF x = f.for THEN NoRequest ELSE q.request[x]
              /\ (q.asked => Rejected(q, f.for, c).asked)
              /\ (q.request[f.for].kind = "login" /\ c => Rejected(q, f.for, c).asked)
              /\ q.out => Rejected(q, f.for, c).out
              /\ q.request[f.for].kind # "logout" =>
                   Rejected(q, f.for, c).page = q.page /\ Rejected(q, f.for, c).out = q.out
        BY <4>1, <2>3, RejectedTab
      <4>3. b \in BOOLEAN /\ (q.request[f.for].kind = "login" => b)
        BY DEF Request
      <4>. HIDE DEF b
      <4>. QED
        BY <4>2, <4>3, Zenon
    <3>. HIDE DEF z
    <3>3. /\ s \in Tab /\ s.store = LoggedOut /\ s.leaving /\ s.refreshing = {} /\ s.request = z.request
          /\ s.page = z.page /\ s.asked = z.asked /\ s.out = z.out
      <4>. DEFINE x == [z EXCEPT !.store = LoggedOut]
                  y == [x EXCEPT !.leaving = TRUE]
      <4>1. /\ x \in Tab /\ x.store = LoggedOut /\ x.request = z.request
            /\ x.page = z.page /\ x.asked = z.asked /\ x.out = z.out
        BY <3>2, <1>n DEF Tab
      <4>3. s = [y EXCEPT !.refreshing = {}]
        BY <3>2 DEF Tab
      <4>. HIDE DEF s, x
      <4>2. /\ y \in Tab /\ y.store = LoggedOut /\ y.leaving /\ y.request = z.request
            /\ y.page = z.page /\ y.asked = z.asked /\ y.out = z.out
        BY <4>1 DEF Tab
      <4>. HIDE DEF y
      <4>. QED
        BY <4>2, <4>3 DEF Tab
    <3>. HIDE DEF s
    <3>4. IsAwaited(s) /\ ~HoldsTokens(s)
      BY <3>3 DEF IsAwaited, HoldsTokens
    <3>5. NewTab(q) => NewTab(s)
      BY <2>2, <2>3, <3>2, <3>3, <1>n DEF NewTab, LoginsOnly
    <3>6. OwnTab(q) => OwnTab(s)
      <4>1. OwnTab(q) => q.request[f.for].kind = "login" \/ q.out
        BY <3>1 DEF OwnTab, Excused
      <4>. QED
        BY <4>1, <3>2, <3>3 DEF OwnTab
    <3>7. /\ tab' = [tab EXCEPT ![t] = s] /\ stored' \in Store
          /\ stored' = stored \/ stored'.pair = 0
      BY <1>b, <3>1, <3>3, <1>n
    <3>8. ~HoldsTokens(q)
      BY <2>3, <3>1 DEF HoldsTokens
    <3>9. \A x \in Requests :
            s.request[x].kind = "login" /\ s.request[x].at = "ok" => q.request[x] = s.request[x]
      BY <3>2, <3>3, <1>n
    <3>10. CleanTabsAreRight' /\ (\A w \in Tabs : IsAwaited(tab[w]))'
      BY <2>2, <3>3, <3>4, <3>5, <3>6, <3>7, <3>8, <3>9, OneTabMoves DEF After
    <3>. QED
      BY <1>f, <1>t, <2>2, <3>3, <3>7, <3>10
  <2>. QED
    BY <2>1, <2>4, <2>5
(* A page is loaded anew. *)
<1>l. ASSUME NEW t \in Tabs, NEW s \in Tab, tab' = [tab EXCEPT ![t] = s],
             s.store = stored, ~s.leaving, ~s.out, s.refreshing = {}, stored.pair = 0 => s.page = "login",
             \A r \in Requests : s.request[r] = NoRequest,
             disturbed \subseteq disturbed', disturbed' \subseteq Tabs,
             t \notin disturbed' => tab[t].refreshing = {},
             UNCHANGED <<pairs, current, expired, expiries, stored, logins, rivals, faults>>
      PROVE  WebInv'
  <2>1. IsAwaited(s) /\ ~HoldsTokens(s)
    BY <1>l, <1>n DEF IsAwaited, HoldsTokens
  <2>2. stored.pair = 0 => NewTab(s)
    BY <1>l, <1>n DEF NewTab, LoginsOnly
  <2>3. t \notin disturbed' /\ After(t) => OwnTab(s) /\ stored.pair \in {0, current}
    BY <1>l, <1>n DEF After, OwnTab, LoginsOnly, HoldsTokens
  <2>4. (\A w \in Tabs : IsAwaited(tab[w]))' /\ CleanTabsAreRight'
    BY <1>l, <1>n, <2>1, <2>2, <2>3, OneTabMoves
  <2>. QED
    BY <1>f, <1>l, <1>t, <2>4
<1>18. ASSUME NEW t \in Tabs, Arrive(t) PROVE WebInv'
  <2>. DEFINE z == Fresh(stored)
              s == [z EXCEPT !.page = "login", !.asked = tab[t].asked]
  <2>1. /\ z \in Tab /\ z.store = stored /\ ~z.leaving /\ ~z.out
        /\ z.refreshing = {} /\ \A r \in Requests : z.request[r] = NoRequest
    BY <1>t, FreshTab
  <2>. HIDE DEF z
  <2>2. PICK a \in BOOLEAN : a = tab[t].asked
    BY <1>q DEF Tab
  <2>3. /\ s \in Tab /\ s.store = stored /\ ~s.leaving /\ ~s.out /\ s.page = "login"
        /\ s.refreshing = {} /\ \A r \in Requests : s.request[r] = NoRequest
    <3>. DEFINE y == [z EXCEPT !.page = "login"]
    <3>1. /\ y \in Tab /\ y.store = stored /\ ~y.leaving /\ ~y.out
          /\ y.page = "login" /\ y.refreshing = {} /\ y.request = z.request
      BY <2>1 DEF Tab
    <3>2. s = [y EXCEPT !.asked = a]
      BY <2>1, <2>2 DEF Tab
    <3>. HIDE DEF s, y
    <3>3. /\ s \in Tab /\ s.store = stored /\ ~s.leaving /\ ~s.out /\ s.page = "login"
          /\ s.refreshing = {} /\ s.request = z.request
      BY <3>1, <3>2 DEF Tab
    <3>. QED
      BY <3>3, <2>1
  <2>4. /\ tab' = [tab EXCEPT ![t] = s] /\ tab[t].refreshing = {}
        /\ UNCHANGED <<pairs, current, expired, expiries, stored, logins, rivals, faults, disturbed>>
    BY <1>18, <1>a DEF Arrive, server, z, IsAwaited
  <2>. HIDE DEF s
  <2>. QED
    BY <2>3, <2>4, <1>l, <1>t
<1>19. ASSUME NEW t \in Tabs, Reload(t) PROVE WebInv'
  <2>1. PICK s : s = Fresh(stored)
    OBVIOUS
  <2>2. /\ s \in Tab /\ s.store = stored /\ ~s.leaving /\ ~s.out /\ (stored.pair = 0 => s.page = "login")
        /\ s.refreshing = {} /\ \A r \in Requests : s.request[r] = NoRequest
    BY <1>t, <2>1, FreshTab
  <2>3. /\ tab' = [tab EXCEPT ![t] = s] /\ disturbed \subseteq disturbed' /\ disturbed' \subseteq Tabs
        /\ t \notin disturbed' => tab[t].refreshing = {}
        /\ UNCHANGED <<pairs, current, expired, expiries, stored, logins, rivals, faults>>
    BY <1>19, <2>1, <1>t DEF Reload, server, NoRefresh
  <2>. QED
    BY <2>2, <2>3, <1>l
<1>20. CASE UNCHANGED vars
  BY <1>20, <1>u, <1>y, <1>t DEF vars
<1>21. ASSUME NEW t \in Tabs, ServerStep(t) PROVE WebInv'
  BY <1>21, <1>3, <1>4, <1>5, <1>6, <1>7 DEF ServerStep, AnswerLogin
<1>. QED
  BY <1>1, <1>2, <1>8, <1>9, <1>10, <1>11, <1>12, <1>13, <1>14, <1>15, <1>16, <1>17, <1>18, <1>19, <1>20, <1>21
  DEF Next, Handle

(* A step of the suite is one of the web session, or leaves it alone. *)
LEMMA AllMovesWeb == [AllNext]_allVars => [Next]_vars
BY DEF AllNext, allVars

(* No request waits for nothing, and no tab is sent to the login without a *)
(* reason, in every state.                                                 *)
LEMMA WebAlways == AllSpec => [](TypeOK /\ WaitersAreServed /\ KickedOutForAReason)
<1>1. ASSUME AllInit PROVE WebInv
  <2>1. /\ pairs = 0 /\ current = 0 /\ expired = 0 /\ stored = LoggedOut
        /\ tab = [t \in Tabs |-> Fresh(LoggedOut)]
        /\ logins = 0 /\ expiries = 0 /\ rivals = 0 /\ faults = 0 /\ disturbed = {}
    BY <1>1 DEF AllInit, Init
  <2>2. LoggedOut \in Store /\ LoggedOut.pair = 0 /\ NoRequest.at = "none"
    BY DEF LoggedOut, Store, Pairs, NoRequest
  <2>3. \A t \in Tabs : /\ tab[t] \in Tab /\ tab[t].store = LoggedOut /\ ~tab[t].leaving /\ ~tab[t].out
                        /\ tab[t].page = "login"
                        /\ tab[t].refreshing = {} /\ \A r \in Requests : tab[t].request[r] = NoRequest
    BY <2>1, <2>2, FreshTab
  <2>4. TypeOK
    <3>1. tab \in [Tabs -> Tab]
      BY <2>1, <2>3
    <3>2. \A t \in Tabs : Cardinality(tab[t].refreshing) <= 1
      <4>1. Cardinality({}) = 0 /\ 0 <= 1
        BY FS_EmptySet
      <4>2. SUFFICES ASSUME NEW t \in Tabs PROVE Cardinality(tab[t].refreshing) <= 1
        OBVIOUS
      <4>3. tab[t].refreshing = {}
        BY <2>3
      <4>. QED
        BY <4>1, <4>3
    <3>3. 0 \in 0..MaxLogins /\ 0 \in 0..MaxExpiries /\ 0 \in 0..MaxRivals /\ 0 \in 0..MaxFaults
      BY WebAssumption
    <3>. QED
      BY <2>1, <2>2, <3>1, <3>2, <3>3 DEF TypeOK, Pairs
  <2>5. \A t \in Tabs : IsAwaited(tab[t]) /\ NewTab(tab[t]) /\ ~HoldsTokens(tab[t])
    BY <2>2, <2>3 DEF IsAwaited, NewTab, HoldsTokens, LoginsOnly
  <2>6. LoggedIn = {}
    BY <2>2, <2>3 DEF LoggedIn, Is, Request
  <2>7. Before
    BY <2>1, <2>2, <2>5, <2>6 DEF Before
  <2>. QED
    BY <2>1, <2>4, <2>5, <2>7 DEF WebInv, CleanTabsAreRight
<1>2. WebInv /\ [AllNext]_allVars => WebInv'
  BY WebStep, AllMovesWeb
<1>3. WebInv => TypeOK /\ WaitersAreServed /\ KickedOutForAReason
  BY KickedOutRightly DEF WebInv
<1>. QED
  BY <1>1, <1>2, <1>3, PTL DEF AllSpec

(* A step of the suite is one of the socket's, or leaves it alone. *)
LEMMA AllMovesSockets == [AllNext]_allVars => [Sockets!Next]_socketVars
BY DEF AllNext, allVars

(* What the suite assumes of the constants of the socket module. *)
LEMMA SocketConstants ==
    /\ OrgOf \in [Users -> Orgs] /\ None \notin Users
    /\ MaxTokens \in Nat /\ MaxSockets \in Nat /\ MaxEvents \in Nat
BY BrowserAssumption DEF Sockets!LiveAssumption

(* The hook listens once: one socket at most has a listener, and no socket *)
(* has two, as the effect's cleanup takes its own off before the next run. *)
OneListener ==
    /\ effect = 0 => \A i \in DOMAIN socket : socket[i].listeners = 0
    /\ \A i \in DOMAIN socket : socket[i].listeners \in {0, 1}
    /\ \A i, j \in DOMAIN socket : socket[i].listeners # 0 /\ socket[j].listeners # 0 => i = j

(* Until a logout in this page load, every socket was opened by the user   *)
(* whose token is stored, and there is none while none is.                 *)
SocketsAreOwn ==
    /\ \A i \in DOMAIN socket : socket[i].token \in DOMAIN owner
    /\ ~pushed /\ socketStored = 0 => socket = <<>>
    /\ ~pushed /\ socketStored # 0 =>
         \A i \in DOMAIN socket : owner[socket[i].token] = owner[socketStored]

(* The inductive invariant of the socket: events are shown once because    *)
(* one socket listens, and to the right organisation because the socket is *)
(* the stored user's.                                                      *)
SocketInv ==
    /\ Sockets!TypeOK /\ OneListener /\ SocketsAreOwn
    /\ Sockets!EachShownOnce /\ Sockets!OwnEventsUntilLogout

(* An event that is heard is heard once, on a socket of a user of its      *)
(* organisation: what is counted is at most one listener.                  *)
LEMMA HeardByOne ==
    ASSUME Sockets!TypeOK, OneListener, NEW o \in Orgs, Sockets!Heard(o) > 0
    PROVE  /\ Sockets!Heard(o) = 1
           /\ \E i \in DOMAIN socket : OrgOf[owner[socket[i].token]] = o
<1>. DEFINE H == UNION {{i} \X (1..socket[i].listeners) : i \in Sockets!InRoom(o)}
<1>1. Sockets!Heard(o) = Cardinality(H)
  <2>1. \A S : Sockets!Cardinality(S) = Cardinality(S)
    BY Zenon DEF Sockets!Cardinality, Cardinality, Sockets!IsFiniteSet, IsFiniteSet
  <2>. QED
    BY <2>1 DEF Sockets!Heard
<1>2. \A x, y \in H : x = y
  <2>1. SUFFICES ASSUME NEW i \in Sockets!InRoom(o), NEW j \in Sockets!InRoom(o),
                        NEW k \in 1..socket[i].listeners, NEW l \in 1..socket[j].listeners
                 PROVE  i = j /\ k = l
    OBVIOUS
  <2>2. i \in DOMAIN socket /\ j \in DOMAIN socket
    BY DEF Sockets!InRoom
  <2>. QED
    BY <2>2 DEF OneListener
<1>3. Cardinality(H) \in Nat /\ Cardinality(H) <= 1 /\ IsFiniteSet(H)
  BY <1>2, CountAtMostOne
<1>4. Sockets!Heard(o) = 1
  <2>. HIDE DEF H
  <2>. QED
    BY <1>1, <1>3
<1>5. H # {}
  <2>1. H = {} => Cardinality(H) = 0
    BY FS_EmptySet
  <2>. QED
    BY <1>1, <1>4, <2>1
<1>6. PICK i \in Sockets!InRoom(o) : TRUE
  BY <1>5
<1>. QED
  BY <1>4, <1>6 DEF Sockets!InRoom

(* A step of the socket module keeps the invariant. *)
LEMMA SocketStep == ASSUME SocketInv, [Sockets!Next]_socketVars PROVE SocketInv'
<1>c. /\ OrgOf \in [Users -> Orgs] /\ MaxTokens \in Nat /\ MaxSockets \in Nat /\ MaxEvents \in Nat
  BY SocketConstants
<1>t. /\ owner \in Seq(Users) /\ Len(owner) <= MaxTokens
      /\ socketExpired \subseteq DOMAIN owner /\ inactive \subseteq Users
      /\ socketStored \in 0..Len(owner) /\ effect \in 0..Len(owner)
      /\ mounted \in BOOLEAN /\ pushed \in BOOLEAN
      /\ socket \in Seq(Sockets!Socket) /\ Len(socket) <= MaxSockets
      /\ shown \in Seq(Sockets!Shown) /\ Len(shown) <= MaxEvents
  BY DEF SocketInv, Sockets!TypeOK, Sockets!Tokens
<1>l. /\ Len(owner) \in Nat /\ DOMAIN owner = 1..Len(owner)
      /\ Len(socket) \in Nat /\ DOMAIN socket = 1..Len(socket)
  BY <1>t
<1>s. \A i \in DOMAIN socket : /\ socket[i] \in Sockets!Socket
                               /\ socket[i].token \in DOMAIN owner /\ socket[i].listeners \in {0, 1}
  BY <1>t DEF SocketInv, OneListener, SocketsAreOwn
<1>o. OneListener /\ SocketsAreOwn /\ Sockets!EachShownOnce /\ Sockets!OwnEventsUntilLogout /\ Sockets!TypeOK
  BY DEF SocketInv
<1>a. ASSUME NEW u \in Users, owner' = Append(owner, u), Len(owner) < MaxTokens
      PROVE  /\ owner' \in Seq(Users) /\ Len(owner') = Len(owner) + 1 /\ Len(owner') <= MaxTokens
             /\ DOMAIN owner \subseteq DOMAIN owner' /\ 0..Len(owner) \subseteq 0..Len(owner')
             /\ Len(owner') \in 0..Len(owner')
             /\ Len(owner') # 0 /\ owner'[Len(owner')] = u
             /\ \A t \in DOMAIN owner : owner'[t] = owner[t]
  BY <1>a, <1>t, <1>l, <1>c
<1>1. ASSUME NEW u \in Users, Sockets!Login(u) PROVE SocketInv'
  <2>1. owner' = Append(owner, u) /\ Len(owner) < MaxTokens /\ socketStored' = Len(owner')
    BY <1>1 DEF Sockets!Login
  <2>2. ~pushed => DOMAIN socket = {}
    BY <1>1, <1>o, <1>l DEF Sockets!Login, SocketsAreOwn
  <2>3. Sockets!TypeOK'
    BY <1>1, <1>a, <2>1, <1>t DEF Sockets!Login, Sockets!TypeOK, Sockets!Tokens
  <2>4. SocketsAreOwn'
    BY <1>1, <1>a, <2>1, <2>2, <1>s DEF Sockets!Login, SocketsAreOwn
  <2>. QED
    BY <1>1, <1>o, <2>3, <2>4
    DEF Sockets!Login, SocketInv, OneListener, Sockets!EachShownOnce, Sockets!OwnEventsUntilLogout
<1>2. CASE Sockets!Refresh
  <2>1. owner[socketStored] \in Users /\ socketStored \in DOMAIN owner
    BY <1>2, <1>t, <1>l DEF Sockets!Refresh
  <2>2. owner' = Append(owner, owner[socketStored]) /\ Len(owner) < MaxTokens /\ socketStored' = Len(owner')
    BY <1>2 DEF Sockets!Refresh
  <2>3. Sockets!TypeOK'
    BY <1>2, <1>a, <2>1, <2>2, <1>t DEF Sockets!Refresh, Sockets!TypeOK, Sockets!Tokens
  <2>4. SocketsAreOwn'
    BY <1>2, <1>a, <2>1, <2>2, <1>s, <1>o DEF Sockets!Refresh, SocketsAreOwn
  <2>. QED
    BY <1>2, <1>o, <2>3, <2>4
    DEF Sockets!Refresh, SocketInv, OneListener, Sockets!EachShownOnce, Sockets!OwnEventsUntilLogout
<1>3. CASE Sockets!Refused
  <2>1. 0 \in 0..Len(owner) /\ socket' = <<>> /\ DOMAIN socket' = {} /\ Len(socket') = 0
    BY <1>3, <1>l DEF Sockets!Refused
  <2>2. socket' \in Seq(Sockets!Socket) /\ Len(socket') <= MaxSockets
    BY <2>1, <1>c
  <2>3. Sockets!TypeOK'
    BY <1>3, <2>1, <2>2, <1>t DEF Sockets!Refused, Sockets!TypeOK, Sockets!Tokens
  <2>. QED
    BY <1>3, <1>o, <2>1, <2>3
    DEF Sockets!Refused, SocketInv, OneListener, SocketsAreOwn, Sockets!EachShownOnce,
        Sockets!OwnEventsUntilLogout
<1>4. CASE Sockets!Logout
  <2>1. 0 \in 0..Len(owner)
    BY <1>l
  <2>. QED
    BY <1>4, <2>1, <1>o, <1>t
    DEF Sockets!Logout, SocketInv, Sockets!TypeOK, Sockets!Tokens, OneListener, SocketsAreOwn,
        Sockets!EachShownOnce, Sockets!OwnEventsUntilLogout
<1>5. ASSUME NEW t \in Sockets!Tokens, Sockets!Expire(t) PROVE SocketInv'
  BY <1>5, <1>o, <1>t
  DEF Sockets!Expire, SocketInv, Sockets!TypeOK, Sockets!Tokens, OneListener, SocketsAreOwn,
      Sockets!EachShownOnce, Sockets!OwnEventsUntilLogout
<1>6. ASSUME NEW u \in Users, Sockets!Deactivate(u) PROVE SocketInv'
  BY <1>6, <1>o, <1>t
  DEF Sockets!Deactivate, SocketInv, Sockets!TypeOK, Sockets!Tokens, OneListener, SocketsAreOwn,
      Sockets!EachShownOnce, Sockets!OwnEventsUntilLogout
<1>g. ASSUME UNCHANGED <<owner, socketExpired, socketStored, inactive, pushed, shown>>,
             mounted' \in BOOLEAN, effect' \in 0..Len(owner),
             socket' \in Seq(Sockets!Socket), Len(socket') <= MaxSockets, OneListener',
             \A i \in DOMAIN socket' : \/ socketStored # 0 /\ socket'[i].token = socketStored
                                       \/ i \in DOMAIN socket /\ socket'[i].token = socket[i].token
      PROVE  SocketInv'
  <2>1. socketStored # 0 => socketStored \in DOMAIN owner
    BY <1>t, <1>l
  <2>2. socket' = <<>> \/ DOMAIN socket' # {}
    BY <1>g
  <2>3. socket = <<>> => DOMAIN socket = {}
    BY <1>l
  <2>4. Sockets!TypeOK'
    BY <1>g, <1>t DEF Sockets!TypeOK, Sockets!Tokens
  <2>5. SocketsAreOwn'
    BY <1>g, <2>1, <2>2, <2>3, <1>s, <1>o DEF SocketsAreOwn
  <2>. QED
    BY <1>g, <1>o, <2>4, <2>5
    DEF SocketInv, Sockets!EachShownOnce, Sockets!OwnEventsUntilLogout
<1>f. /\ Sockets!Off(socket) \in Seq(Sockets!Socket) /\ Len(Sockets!Off(socket)) = Len(socket)
      /\ DOMAIN Sockets!Off(socket) = DOMAIN socket
      /\ \A i \in DOMAIN socket : /\ Sockets!Off(socket)[i].token = socket[i].token
                                  /\ Sockets!Off(socket)[i].listeners = 0
  <2>. DEFINE off == Sockets!Off(socket)
  <2>1. 0 \in 0..MaxTokens
    BY <1>c
  <2>2. DOMAIN off = 1..Len(socket) /\ \A i \in 1..Len(socket) : off[i] = [socket[i] EXCEPT !.listeners = 0]
    BY <1>l DEF Sockets!Off
  <2>3. off = [i \in 1..Len(socket) |-> off[i]]
    BY <1>l DEF Sockets!Off
  <2>4. \A i \in 1..Len(socket) : /\ off[i] \in Sockets!Socket
                                  /\ off[i].token = socket[i].token /\ off[i].listeners = 0
    BY <1>s, <1>l, <2>1, <2>2 DEF Sockets!Socket
  <2>. HIDE DEF off
  <2>5. off \in Seq(Sockets!Socket) /\ Len(off) = Len(socket)
    BY <1>l, <2>2, <2>3, <2>4
  <2>. QED
    BY <1>l, <2>2, <2>4, <2>5 DEF off
<1>7. CASE Sockets!Unmount
  <2>1. 0 \in 0..Len(owner)
    BY <1>l
  <2>2. OneListener'
    BY <1>7, <1>f DEF Sockets!Unmount, OneListener
  <2>. QED
    BY <1>7, <2>1, <2>2, <1>f, <1>t, <1>g DEF Sockets!Unmount
<1>n. ASSUME NEW ss \in Seq(Sockets!Socket), Len(ss) > 0, \A i \in DOMAIN ss : ss[i].listeners = 0,
             MaxTokens > 0
      PROVE  /\ Sockets!On(ss) \in Seq(Sockets!Socket) /\ Len(Sockets!On(ss)) = Len(ss)
             /\ DOMAIN Sockets!On(ss) = DOMAIN ss
             /\ \A i \in DOMAIN ss :
                  /\ Sockets!On(ss)[i].token = ss[i].token
                  /\ Sockets!On(ss)[i].listeners = IF i = Len(ss) THEN 1 ELSE 0
  <2>. DEFINE k == Len(ss)
              s == [ss[k] EXCEPT !.listeners = 1]
  <2>1. k \in DOMAIN ss /\ ss[k] \in Sockets!Socket /\ ss[k].listeners = 0 /\ ss[k].listeners + 1 = 1
    BY <1>n
  <2>n. 1 \in 0..MaxTokens
    BY <1>n, <1>c
  <2>2. s \in Sockets!Socket /\ s.token = ss[k].token /\ s.listeners = 1
    BY <2>1, <2>n DEF Sockets!Socket
  <2>3. Sockets!On(ss) = [ss EXCEPT ![k] = s]
    BY <2>1 DEF Sockets!On
  <2>. HIDE DEF s
  <2>4. /\ Sockets!On(ss) \in Seq(Sockets!Socket) /\ Len(Sockets!On(ss)) = Len(ss)
        /\ DOMAIN Sockets!On(ss) = DOMAIN ss
        /\ \A i \in DOMAIN ss : Sockets!On(ss)[i] = IF i = k THEN s ELSE ss[i]
    BY <2>1, <2>2, <2>3, <1>n
  <2>. QED
    BY <1>n, <2>1, <2>2, <2>4
<1>8. CASE Sockets!RunEffect
  <2>. DEFINE off == IF effect = 0 THEN socket ELSE Sockets!Off(socket)
              new == [token |-> socketStored, stage |-> "connecting", listeners |-> 0]
  <2>1. /\ off \in Seq(Sockets!Socket) /\ Len(off) = Len(socket) /\ DOMAIN off = DOMAIN socket
        /\ \A i \in DOMAIN socket : off[i].token = socket[i].token /\ off[i].listeners = 0
    BY <1>f, <1>t, <1>o DEF OneListener
  <2>2. /\ UNCHANGED <<owner, socketExpired, socketStored, inactive, pushed, shown, mounted>>
        /\ effect' = socketStored
    BY <1>8 DEF Sockets!RunEffect
  <2>3. CASE socketStored = 0
    <3>1. socket' = off
      BY <1>8, <2>3 DEF Sockets!RunEffect
    <3>. HIDE DEF off
    <3>2. OneListener'
      BY <2>1, <3>1 DEF OneListener
    <3>. QED
      BY <2>1, <2>2, <3>1, <3>2, <1>t, <1>g
  <2>4. CASE socketStored # 0 /\ ~Sockets!Disconnected
    <3>1. socket' = Sockets!On(off) /\ Len(socket) > 0 /\ MaxTokens > 0
      BY <1>8, <2>4, <1>t, <1>l, <1>c DEF Sockets!RunEffect, Sockets!Disconnected
    <3>. HIDE DEF off
    <3>2. /\ socket' \in Seq(Sockets!Socket) /\ Len(socket') = Len(socket) /\ DOMAIN socket' = DOMAIN socket
          /\ \A i \in DOMAIN socket : /\ socket'[i].token = socket[i].token
                                      /\ socket'[i].listeners = IF i = Len(socket) THEN 1 ELSE 0
      BY <1>n, <2>1, <3>1
    <3>3. OneListener'
      BY <2>2, <2>4, <3>2 DEF OneListener
    <3>. QED
      BY <2>2, <3>2, <3>3, <1>t, <1>g
  <2>5. CASE socketStored # 0 /\ Sockets!Disconnected
    <3>. DEFINE more == Append(off, new)
    <3>1. socket' = Sockets!On(more) /\ Len(socket) < MaxSockets /\ MaxTokens > 0
      BY <1>8, <2>5, <1>t, <1>l, <1>c DEF Sockets!RunEffect, Sockets!Last
    <3>2. new \in Sockets!Socket /\ new.token = socketStored /\ new.listeners = 0
      BY <2>5, <1>t, <1>l, <1>c DEF Sockets!Socket, Sockets!Stages
    <3>. HIDE DEF off, new
    <3>3. /\ more \in Seq(Sockets!Socket) /\ Len(more) = Len(socket) + 1
          /\ DOMAIN more = 1..Len(socket) + 1
          /\ \A i \in DOMAIN more : more[i] = IF i \in DOMAIN socket THEN off[i] ELSE new
      BY <2>1, <3>2, <1>l
    <3>. HIDE DEF more
    <3>4. \A i \in DOMAIN more : more[i].listeners = 0
      BY <2>1, <3>2, <3>3
    <3>5. /\ socket' \in Seq(Sockets!Socket) /\ Len(socket') = Len(more) /\ DOMAIN socket' = DOMAIN more
          /\ \A i \in DOMAIN more : /\ socket'[i].token = more[i].token
                                    /\ socket'[i].listeners = IF i = Len(more) THEN 1 ELSE 0
      BY <1>n, <1>l, <3>1, <3>3, <3>4
    <3>6. OneListener'
      BY <2>2, <2>5, <3>5 DEF OneListener
    <3>7. Len(socket') <= MaxSockets
      BY <3>1, <3>3, <3>5, <1>l, <1>c
    <3>. QED
      BY <2>1, <2>2, <2>5, <3>2, <3>3, <3>5, <3>6, <3>7, <1>t, <1>g
  <2>. QED
    BY <2>3, <2>4, <2>5
<1>h. ASSUME NEW i \in DOMAIN socket, NEW x \in Sockets!Stages, socket' = [socket EXCEPT ![i].stage = x],
             UNCHANGED <<owner, socketExpired, socketStored, mounted, effect, inactive, pushed, shown>>
      PROVE  SocketInv'
  <2>. DEFINE s == [socket[i] EXCEPT !.stage = x]
  <2>1. s \in Sockets!Socket /\ s.token = socket[i].token /\ s.listeners = socket[i].listeners
    BY <1>s DEF Sockets!Socket
  <2>2. socket' = [socket EXCEPT ![i] = s]
    BY <1>h
  <2>. HIDE DEF s
  <2>3. /\ socket' \in Seq(Sockets!Socket) /\ Len(socket') = Len(socket) /\ DOMAIN socket' = DOMAIN socket
        /\ \A j \in DOMAIN socket : socket'[j] = IF j = i THEN s ELSE socket[j]
    BY <2>1, <2>2, <1>t
  <2>4. OneListener'
    BY <1>h, <2>1, <2>3, <1>o DEF OneListener
  <2>. QED
    BY <1>h, <2>1, <2>3, <2>4, <1>t, <1>g
<1>9. ASSUME NEW i \in DOMAIN socket, Sockets!Connect(i) PROVE SocketInv'
  BY <1>9, <1>h DEF Sockets!Connect, Sockets!Stages
<1>10. ASSUME NEW i \in DOMAIN socket, Sockets!Drop(i) PROVE SocketInv'
  BY <1>10, <1>h DEF Sockets!Drop, Sockets!Stages
<1>11. ASSUME NEW i \in DOMAIN socket, Sockets!GiveUp(i) PROVE SocketInv'
  BY <1>11, <1>h DEF Sockets!GiveUp, Sockets!Stages
<1>12. ASSUME NEW o \in Orgs, Sockets!EmitToOrg(o) PROVE SocketInv'
  <2>. DEFINE e == [user |-> owner[socketStored], org |-> o, times |-> 1,
                    active |-> owner[socketStored] \notin inactive, pushed |-> pushed]
  <2>1. Sockets!Heard(o) > 0 /\ socketStored # 0 /\ Len(shown) < MaxEvents
    BY <1>12 DEF Sockets!EmitToOrg
  <2>2. Sockets!Heard(o) = 1
    BY <2>1, HeardByOne, <1>o
  <2>3. PICK i \in DOMAIN socket : OrgOf[owner[socket[i].token]] = o
    BY <2>1, HeardByOne, <1>o
  <2>4. owner[socketStored] \in Users /\ 1 \in 1..MaxTokens * MaxSockets
    <3>1. MaxTokens \in Nat /\ MaxSockets \in Nat /\ MaxTokens > 0 /\ MaxSockets > 0
      BY <2>1, <2>3, <1>t, <1>l, <1>c
    <3>2. MaxTokens - 1 \in Nat /\ (MaxTokens - 1) + 1 = MaxTokens
      BY <3>1
    <3>3. /\ MaxTokens * MaxSockets = (MaxTokens - 1) * MaxSockets + MaxSockets
          /\ (MaxTokens - 1) * MaxSockets \in Nat
      BY <3>1, <3>2, OneMoreTime
    <3>. QED
      BY <2>1, <3>1, <3>3, <1>t, <1>l
  <2>5. e \in Sockets!Shown /\ e.times = 1 /\ e.user = owner[socketStored] /\ e.org = o /\ e.pushed = pushed
    BY <2>4, <1>t DEF Sockets!Shown
  <2>6. e.org = OrgOf[e.user] \/ e.pushed
    BY <2>1, <2>3, <2>5, <1>o DEF SocketsAreOwn
  <2>7. shown' = Append(shown, e)
    BY <1>12, <2>2 DEF Sockets!EmitToOrg
  <2>. HIDE DEF e
  <2>8. /\ shown' \in Seq(Sockets!Shown) /\ Len(shown') <= MaxEvents
        /\ \A n \in DOMAIN shown' : shown'[n] = e \/ (n \in DOMAIN shown /\ shown'[n] = shown[n])
    BY <2>1, <2>5, <2>7, <1>t, <1>c
  <2>9. Sockets!EachShownOnce' /\ Sockets!OwnEventsUntilLogout'
    BY <2>5, <2>6, <2>8, <1>o DEF Sockets!EachShownOnce, Sockets!OwnEventsUntilLogout
  <2>. QED
    BY <1>12, <2>8, <2>9, <1>o, <1>t
    DEF Sockets!EmitToOrg, SocketInv, Sockets!TypeOK, Sockets!Tokens, OneListener, SocketsAreOwn
<1>13. CASE UNCHANGED socketVars
  BY <1>13, <1>o, <1>t
  DEF socketVars, SocketInv, Sockets!TypeOK, Sockets!Tokens, OneListener, SocketsAreOwn,
      Sockets!EachShownOnce, Sockets!OwnEventsUntilLogout
<1>. QED
  BY <1>1, <1>2, <1>3, <1>4, <1>5, <1>6, <1>7, <1>8, <1>9, <1>10, <1>11, <1>12, <1>13 DEF Sockets!Next

(* It holds in every state. *)
LEMMA SocketsAlways == AllSpec => []SocketInv
<1>1. ASSUME AllInit PROVE SocketInv
  <2>1. /\ owner = <<>> /\ Len(owner) = 0 /\ owner \in Seq(Users) /\ 0 \in 0..Len(owner)
        /\ socket = <<>> /\ Len(socket) = 0 /\ socket \in Seq(Sockets!Socket) /\ DOMAIN socket = {}
        /\ shown = <<>> /\ Len(shown) = 0 /\ shown \in Seq(Sockets!Shown) /\ DOMAIN shown = {}
    BY <1>1 DEF AllInit, Sockets!Init
  <2>2. Len(owner) <= MaxTokens /\ Len(socket) <= MaxSockets /\ Len(shown) <= MaxEvents
    BY <2>1, SocketConstants
  <2>3. Sockets!TypeOK
    BY <1>1, <2>1, <2>2 DEF AllInit, Sockets!Init, Sockets!TypeOK
  <2>. QED
    BY <1>1, <2>1, <2>3
    DEF AllInit, Sockets!Init, SocketInv, OneListener, SocketsAreOwn, Sockets!EachShownOnce,
        Sockets!OwnEventsUntilLogout
<1>2. SocketInv /\ [AllNext]_allVars => SocketInv'
  BY SocketStep, AllMovesSockets
<1>. QED
  BY <1>1, <1>2, PTL DEF AllSpec

(* A step of the suite is one of the inbox, or leaves it alone. *)
LEMMA AllMovesMessages == [AllNext]_allVars => [Messages!Next]_messageVars
BY DEF AllNext, allVars

(* What the suite assumes of the bounds of the inbox module. *)
LEMMA MessageConstants ==
    /\ MaxMessages \in Nat /\ MaxTexts \in Nat /\ MaxSends \in Nat /\ MaxAsks \in Nat /\ MaxFails \in Nat
BY BrowserAssumption DEF Messages!InboxAssumption

(* A list shows, and a fetch has read, messages that are in the table. *)
ReadsAreOfRows ==
    \A k \in Messages!Keys : query[k].data <= Len(rows) /\ query[k].read <= Len(rows)

(* What a send looks at and what it saved are in the table. *)
SendsAreOfRows ==
    \A i \in DOMAIN sends : /\ sends[i].view <= Len(rows) /\ sends[i].row <= Len(rows)
                            /\ sends[i].pc = "saved" => sends[i].row # 0

(* What makes ToldAreListed inductive: a message the browser was told of   *)
(* is in what the fetch under way has read, once it has read, and not only *)
(* in the list at rest. An invalidation that found a fetch under way       *)
(* starts it anew; without that, the older read would settle the list.     *)
ToldAreRead ==
    LET q == query[Messages!List]
    IN  \A n \in due : /\ q.fetch = "read" => n <= q.read
                       /\ q.fetch = "idle" /\ ~q.stale => n <= q.data

(* The inductive invariant of the inbox. *)
MessageInv == Messages!TypeOK /\ ReadsAreOfRows /\ SendsAreOfRows /\ ToldAreRead

(* A fetch that starts has read nothing yet and leaves what is shown. *)
LEMMA FetchType ==
    ASSUME NEW q \in Messages!Query
    PROVE  LET f == Messages!Fetching(q)
           IN  f \in Messages!Query /\ f.data = q.data /\ f.stale = q.stale /\ f.fetch = "asked" /\ f.read = -1
<1>. DEFINE asking == [q EXCEPT !.fetch = "asked"]
<1>1. asking \in Messages!Query /\ asking.data = q.data /\ asking.stale = q.stale /\ asking.fetch = "asked"
  BY DEF Messages!Query
<1>2. -1 \in -1..MaxMessages
  BY MessageConstants
<1>3. Messages!Fetching(q) = [asking EXCEPT !.read = -1]
  BY DEF Messages!Fetching, Messages!Query
<1>. HIDE DEF asking
<1>. QED
  BY <1>1, <1>2, <1>3 DEF Messages!Query

(* An invalidated query is stale and shows what it did. If it is on a page *)
(* and has something to show, it is being fetched from the start.          *)
LEMMA InvalidatedIs ==
    ASSUME NEW q \in Messages!Query, NEW active
    PROVE  LET i == Messages!Invalidated(q, active)
           IN  /\ i \in Messages!Query /\ i.data = q.data /\ i.stale
               /\ (i.fetch = q.fetch /\ i.read = q.read) \/ (i.fetch = "asked" /\ i.read = -1)
               /\ active /\ q.data # -1 => i.fetch = "asked"
<1>. DEFINE stale == [q EXCEPT !.stale = TRUE]
            i == Messages!Invalidated(q, active)
<1>1. /\ stale \in Messages!Query /\ stale.data = q.data /\ stale.stale
      /\ stale.fetch = q.fetch /\ stale.read = q.read
  BY DEF Messages!Query
<1>2. CASE active /\ (q.fetch = "idle" \/ q.data # -1)
  <2>1. i = Messages!Fetching(stale)
    BY <1>2 DEF Messages!Invalidated
  <2>2. /\ i \in Messages!Query /\ i.data = q.data /\ i.stale
        /\ i.fetch = "asked" /\ i.read = -1
    BY <1>1, <2>1, FetchType
  <2>. QED
    BY <2>2
<1>3. CASE ~(active /\ (q.fetch = "idle" \/ q.data # -1))
  <2>1. i = stale
    BY <1>3 DEF Messages!Invalidated
  <2>. QED
    BY <1>1, <1>3, <2>1
<1>. QED
  BY <1>2, <1>3

(* A step that invalidates the list, and tells the browser of messages,    *)
(* keeps the invariant.                                                    *)
LEMMA InvalidateStep ==
    ASSUME MessageInv, NEW ks, Messages!Invalidate(ks), Messages!List \in ks,
           NEW ns, ns \subseteq Messages!Indices, Messages!Tell(ns), UNCHANGED rows
    PROVE  /\ query' \in [Messages!Keys -> Messages!Query] /\ due' \subseteq Messages!Indices
           /\ ReadsAreOfRows' /\ ToldAreRead'
<1>t. /\ query \in [Messages!Keys -> Messages!Query] /\ due \subseteq Messages!Indices
      /\ rows \in Seq(Messages!Row)
  BY DEF MessageInv, Messages!TypeOK
<1>1. \A k \in Messages!Keys :
        query'[k] \in {Messages!Invalidated(query[k], k \in Messages!Active), query[k]}
  BY DEF Messages!Invalidate
<1>2. query' \in [Messages!Keys -> Messages!Query]
  <2>1. \A k \in Messages!Keys : query'[k] \in Messages!Query
    BY <1>1, <1>t, InvalidatedIs
  <2>. QED
    BY <2>1 DEF Messages!Invalidate
<1>3. ASSUME NEW k \in Messages!Keys
      PROVE  query'[k].data <= Len(rows) /\ query'[k].read <= Len(rows)
  <2>1. query[k] \in Messages!Query /\ query[k].data <= Len(rows) /\ query[k].read <= Len(rows)
    BY <1>t DEF MessageInv, ReadsAreOfRows
  <2>2. query'[k].data = query[k].data /\ query'[k].read \in {query[k].read, -1}
    BY <1>1, <2>1, InvalidatedIs
  <2>. QED
    BY <1>t, <2>1, <2>2
<1>. DEFINE q == query[Messages!List]
            i == query'[Messages!List]
<1>4. /\ i.stale /\ i.data = q.data
      /\ (i.fetch = q.fetch /\ i.read = q.read) \/ i.fetch = "asked"
      /\ q.data # -1 => i.fetch = "asked"
  <2>1. Messages!List \in Messages!Keys /\ Messages!List \in Messages!Active
    BY DEF Messages!Keys, Messages!Active
  <2>2. q \in Messages!Query
    BY <1>t, <2>1
  <2>3. i = Messages!Invalidated(q, TRUE)
    BY <2>1 DEF Messages!Invalidate
  <2>4. /\ Messages!Invalidated(q, TRUE).data = q.data /\ Messages!Invalidated(q, TRUE).stale
        /\ \/ /\ Messages!Invalidated(q, TRUE).fetch = q.fetch
              /\ Messages!Invalidated(q, TRUE).read = q.read
           \/ Messages!Invalidated(q, TRUE).fetch = "asked"
        /\ q.data # -1 => Messages!Invalidated(q, TRUE).fetch = "asked"
    BY <2>2, InvalidatedIs
  <2>. QED
    BY <2>3, <2>4
<1>5. ToldAreRead'
  BY <1>4 DEF MessageInv, ToldAreRead, Messages!Tell, Messages!List
<1>. QED
  BY <1>2, <1>3, <1>5, <1>t DEF ReadsAreOfRows, Messages!Tell

(* A message that is stored comes after the ones there are. *)
LEMMA RowAdded ==
    ASSUME MessageInv, NEW c \in Messages!Correspondents, NEW direction \in {"inbound", "outbound"},
           NEW from \in Messages!Senders, Messages!AddRow(c, direction, from)
    PROVE  /\ rows' \in Seq(Messages!Row) /\ Len(rows') <= MaxMessages /\ Len(rows') = Len(rows) + 1
           /\ Len(rows) \in Nat
<1>1. rows \in Seq(Messages!Row)
  BY DEF MessageInv, Messages!TypeOK
<1>2. [with |-> c, direction |-> direction, from |-> from] \in Messages!Row
  BY DEF Messages!Row
<1>3. Len(rows) \in Nat /\ Len(rows) < MaxMessages
  BY <1>1 DEF Messages!AddRow
<1>4. rows' \in Seq(Messages!Row) /\ Len(rows') = Len(rows) + 1
  BY <1>1, <1>2 DEF Messages!AddRow
<1>. QED
  BY <1>3, <1>4, MessageConstants

(* A step of the inbox module keeps the invariant. *)
LEMMA MessageStep == ASSUME MessageInv, [Messages!Next]_messageVars PROVE MessageInv'
<1>c. /\ MaxMessages \in Nat /\ MaxTexts \in Nat /\ MaxSends \in Nat /\ MaxAsks \in Nat /\ MaxFails \in Nat
  BY MessageConstants
<1>t. /\ rows \in Seq(Messages!Row) /\ Len(rows) <= MaxMessages
      /\ events \subseteq Messages!Indices /\ due \subseteq Messages!Indices
      /\ query \in [Messages!Keys -> Messages!Query] /\ numbers \in BOOLEAN
      /\ selected \in 0..Len(rows) /\ suggestions \in 0..Len(rows) /\ asked \subseteq Messages!Indices
      /\ draft \in 0..MaxTexts /\ texts \in 0..MaxTexts /\ composeFrom \in {"blank", "own"}
      /\ sends \in Seq(Messages!Send) /\ Len(sends) <= MaxSends /\ fails \in 0..MaxFails
  BY DEF MessageInv, Messages!TypeOK
<1>i. ReadsAreOfRows /\ SendsAreOfRows /\ ToldAreRead
  BY DEF MessageInv
<1>l. Len(rows) \in Nat /\ Messages!Indices = 1..Len(rows)
  BY <1>t DEF Messages!Indices
<1>d. \A k \in Messages!Keys : /\ query[k] \in Messages!Query
                               /\ query[k].data <= Len(rows) /\ query[k].read <= Len(rows)
  BY <1>t, <1>i DEF ReadsAreOfRows
<1>k. Messages!List \in Messages!Keys
  BY DEF Messages!Keys
<1>u. ASSUME UNCHANGED <<rows, query, sends, due, fails>>, events' \subseteq Messages!Indices,
             numbers' \in BOOLEAN, selected' \in 0..Len(rows), suggestions' \in 0..Len(rows),
             asked' \subseteq Messages!Indices, draft' \in 0..MaxTexts, texts' \in 0..MaxTexts,
             composeFrom' \in {"blank", "own"}
      PROVE  MessageInv'
  BY <1>u, <1>t, <1>i
  DEF MessageInv, Messages!TypeOK, Messages!Indices, ReadsAreOfRows, SendsAreOfRows, ToldAreRead
<1>s. ASSUME UNCHANGED <<rows, query, due, events, numbers, draft, texts, composeFrom, asked, suggestions>>,
             selected' \in 0..Len(rows), fails' \in 0..MaxFails,
             sends' \in Seq(Messages!Send), Len(sends') <= MaxSends,
             \A j \in DOMAIN sends' : /\ sends'[j].view <= Len(rows) /\ sends'[j].row <= Len(rows)
                                      /\ sends'[j].pc = "saved" => sends'[j].row # 0
      PROVE  MessageInv'
  BY <1>s, <1>t, <1>i
  DEF MessageInv, Messages!TypeOK, Messages!Indices, ReadsAreOfRows, SendsAreOfRows, ToldAreRead
<1>q. ASSUME UNCHANGED <<rows, sends, due, events, numbers, draft, texts, composeFrom, asked, suggestions>>,
             selected' \in 0..Len(rows), fails' \in 0..MaxFails,
             query' \in [Messages!Keys -> Messages!Query],
             \A k \in Messages!Keys : query'[k].data <= Len(rows) /\ query'[k].read <= Len(rows),
             ToldAreRead'
      PROVE  MessageInv'
  BY <1>q, <1>t, <1>i DEF MessageInv, Messages!TypeOK, Messages!Indices, ReadsAreOfRows, SendsAreOfRows
<1>o. ASSUME NEW k \in Messages!Keys, NEW q \in Messages!Query, query' = [query EXCEPT ![k] = q],
             UNCHANGED <<rows, sends, due, events, numbers, draft, texts, composeFrom, asked, suggestions>>,
             selected' \in 0..Len(rows), fails' \in 0..MaxFails, q.data <= Len(rows), q.read <= Len(rows),
             k = Messages!List =>
                 \A n \in due : /\ q.fetch = "read" => n <= q.read
                                /\ q.fetch = "idle" /\ ~q.stale => n <= q.data
      PROVE  MessageInv'
  <2>1. \A j \in Messages!Keys : query'[j] = IF j = k THEN q ELSE query[j]
    BY <1>o, <1>t
  <2>2. ToldAreRead'
    BY <1>o, <1>i, <1>k, <2>1 DEF ToldAreRead
  <2>3. query' \in [Messages!Keys -> Messages!Query]
    BY <1>o, <1>t
  <2>. QED
    BY <1>o, <1>q, <1>d, <2>1, <2>2, <2>3
<1>r. ASSUME NEW c \in Messages!Correspondents, NEW direction \in {"inbound", "outbound"},
             NEW from \in Messages!Senders, Messages!AddRow(c, direction, from),
             UNCHANGED <<query, numbers, selected, draft, texts, composeFrom, asked, suggestions, due, fails>>,
             events' \subseteq 1..Len(rows'),
             sends' \in Seq(Messages!Send), Len(sends') <= MaxSends,
             \A j \in DOMAIN sends' : /\ sends'[j].view <= Len(rows') /\ sends'[j].row <= Len(rows')
                                      /\ sends'[j].pc = "saved" => sends'[j].row # 0
      PROVE  MessageInv'
  <2>1. /\ rows' \in Seq(Messages!Row) /\ Len(rows') <= MaxMessages /\ Len(rows') = Len(rows) + 1
        /\ Messages!Indices' = 1..Len(rows')
    BY <1>r, RowAdded DEF Messages!Indices
  <2>2. Messages!TypeOK'
    BY <1>r, <1>t, <1>l, <2>1 DEF Messages!TypeOK
  <2>3. ReadsAreOfRows'
    <3>1. \A k \in Messages!Keys : query[k].data \in Int /\ query[k].read \in Int
      BY <1>d, <1>c DEF Messages!Query
    <3>. QED
      BY <1>r, <1>d, <1>l, <2>1, <3>1 DEF ReadsAreOfRows
  <2>. QED
    BY <1>r, <1>i, <2>2, <2>3 DEF MessageInv, SendsAreOfRows, ToldAreRead
<1>v. \A j \in DOMAIN sends : /\ sends[j] \in Messages!Send /\ j \in 1..Len(sends)
                              /\ sends[j].view \in 0..Len(rows) /\ sends[j].row \in 0..Len(rows)
                              /\ sends[j].pc = "saved" => sends[j].row \in 1..Len(rows)
  <2>. TAKE j \in DOMAIN sends
  <2>1. j \in 1..Len(sends) /\ sends[j] \in Messages!Send
    BY <1>t
  <2>2. /\ sends[j].view \in 0..MaxMessages /\ sends[j].row \in 0..MaxMessages
        /\ sends[j].view <= Len(rows) /\ sends[j].row <= Len(rows)
        /\ sends[j].pc = "saved" => sends[j].row # 0
    BY <2>1, <1>i DEF SendsAreOfRows, Messages!Send
  <2>. QED
    BY <2>1, <2>2, <1>l, <1>c
<1>w. \A n \in 1..Len(rows) : rows[n] \in Messages!Row
  BY <1>t
<1>1. ASSUME NEW c \in Messages!Correspondents, Messages!Receive(c) PROVE MessageInv'
  <2>1. Len(rows') = Len(rows) + 1
    BY <1>1, RowAdded DEF Messages!Receive, Messages!Senders
  <2>2. events' \subseteq 1..Len(rows')
    <3>1. Len(rows') \in 1..Len(rows') /\ 1..Len(rows) \subseteq 1..Len(rows')
      BY <1>l, <2>1
    <3>. QED
      BY <1>1, <1>t, <1>l, <3>1 DEF Messages!Receive
  <2>3. \A j \in DOMAIN sends' : /\ sends'[j].view <= Len(rows') /\ sends'[j].row <= Len(rows')
                                 /\ sends'[j].pc = "saved" => sends'[j].row # 0
    BY <1>1, <1>v, <1>l, <2>1 DEF Messages!Receive
  <2>. QED
    BY <1>1, <1>r, <1>t, <2>2, <2>3 DEF Messages!Receive, Messages!writing, Messages!history, Messages!Senders
<1>2. ASSUME NEW c \in Messages!Correspondents, Messages!SendElsewhere(c) PROVE MessageInv'
  <2>1. Len(rows') = Len(rows) + 1
    BY <1>2, RowAdded DEF Messages!SendElsewhere, Messages!Senders
  <2>2. events' \subseteq 1..Len(rows')
    BY <1>2, <1>t, <1>l, <2>1 DEF Messages!SendElsewhere
  <2>3. \A j \in DOMAIN sends' : /\ sends'[j].view <= Len(rows') /\ sends'[j].row <= Len(rows')
                                 /\ sends'[j].pc = "saved" => sends'[j].row # 0
    BY <1>2, <1>v, <1>l, <2>1 DEF Messages!SendElsewhere
  <2>. QED
    BY <1>2, <1>r, <1>t, <2>2, <2>3
    DEF Messages!SendElsewhere, Messages!writing, Messages!history, Messages!Senders
<1>3. ASSUME NEW i \in DOMAIN sends, Messages!SaveSend(i) PROVE MessageInv'
  <2>0. sends[i].to \in Messages!Correspondents /\ sends[i].from \in Messages!Senders
    BY <1>v DEF Messages!Send
  <2>1. Len(rows') = Len(rows) + 1 /\ Len(rows') <= MaxMessages
    BY <1>3, <2>0, RowAdded DEF Messages!SaveSend
  <2>2. events' \subseteq 1..Len(rows')
    BY <1>3, <1>t, <1>l, <2>1 DEF Messages!SaveSend
  <2>. DEFINE saved == [sends[i] EXCEPT !.pc = "saved"]
              s == [saved EXCEPT !.row = Len(rows')]
  <2>3. saved \in Messages!Send /\ saved.view = sends[i].view
    BY <1>v DEF Messages!Send
  <2>8. Len(rows') \in 0..MaxMessages
    BY <2>1, <1>l, <1>c
  <2>. HIDE DEF saved
  <2>4. s \in Messages!Send /\ s.view = sends[i].view /\ s.row = Len(rows')
    BY <2>3, <2>8 DEF Messages!Send
  <2>5. sends' = [sends EXCEPT ![i] = s]
    BY <1>3, <1>v DEF Messages!SaveSend, Messages!Send, saved
  <2>. HIDE DEF s
  <2>6. /\ sends' \in Seq(Messages!Send) /\ Len(sends') = Len(sends) /\ DOMAIN sends' = DOMAIN sends
        /\ \A j \in DOMAIN sends : sends'[j] = IF j = i THEN s ELSE sends[j]
    BY <2>4, <2>5, <1>t
  <2>7. \A j \in DOMAIN sends' : /\ sends'[j].view <= Len(rows') /\ sends'[j].row <= Len(rows')
                                 /\ sends'[j].pc = "saved" => sends'[j].row # 0
    BY <1>v, <1>l, <2>1, <2>4, <2>6
  <2>. QED
    BY <1>3, <1>r, <1>t, <2>0, <2>2, <2>6, <2>7 DEF Messages!SaveSend, Messages!writing, Messages!history
<1>4. ASSUME NEW k \in Messages!Keys, Messages!Read(k) PROVE MessageInv'
  <2>. DEFINE q == [[query[k] EXCEPT !.fetch = "read"] EXCEPT !.read = Len(rows)]
  <2>1. query' = [query EXCEPT ![k] = q]
    BY <1>4, <1>d DEF Messages!Read, Messages!Query
  <2>2. [query[k] EXCEPT !.fetch = "read"] \in Messages!Query
    BY <1>d DEF Messages!Query
  <2>3. Len(rows) \in -1..MaxMessages
    BY <1>t, <1>l, <1>c
  <2>4. /\ q \in Messages!Query /\ q.data = query[k].data /\ q.read = Len(rows) /\ q.fetch = "read"
    BY <2>2, <2>3 DEF Messages!Query
  <2>. HIDE DEF q
  <2>5. \A n \in due : n <= Len(rows)
    BY <1>t, <1>l
  <2>6. /\ q.data <= Len(rows) /\ q.read <= Len(rows)
        /\ \A n \in due : /\ q.fetch = "read" => n <= q.read
                          /\ q.fetch = "idle" /\ ~q.stale => n <= q.data
    BY <1>d, <1>l, <2>4, <2>5
  <2>7. UNCHANGED <<rows, sends, due, events, numbers, draft, texts, composeFrom, asked, suggestions,
                    selected, fails>>
    BY <1>4 DEF Messages!Read, Messages!writing, Messages!history
  <2>. QED
    BY <1>o, <1>t, <2>1, <2>4, <2>6, <2>7
<1>5. ASSUME NEW k \in Messages!Keys, Messages!Answered(k) PROVE MessageInv'
  <2>1. PICK q : /\ q = [data |-> query[k].read, stale |-> FALSE, fetch |-> "idle", read |-> -1]
                 /\ query' = [query EXCEPT ![k] = q]
    BY <1>5 DEF Messages!Answered
  <2>2. q \in Messages!Query /\ q.data <= Len(rows) /\ q.read <= Len(rows)
    BY <2>1, <1>d, <1>c, <1>l DEF Messages!Query
  <2>3. k = Messages!List => \A n \in due : n <= q.data
    BY <1>5, <2>1, <1>i DEF Messages!Answered, ToldAreRead
  <2>. QED
    BY <1>5, <1>o, <1>t, <2>1, <2>2, <2>3 DEF Messages!Answered, Messages!writing, Messages!history
<1>6. ASSUME NEW k \in Messages!Keys, Messages!FetchFails(k) PROVE MessageInv'
  <2>. DEFINE idle == [query[k] EXCEPT !.fetch = "idle"]
              given == [idle EXCEPT !.read = -1]
              q == [given EXCEPT !.stale = TRUE]
  <2>1. query' = [query EXCEPT ![k] = q]
    BY <1>6, <1>d DEF Messages!FetchFails, Messages!Query
  <2>2. idle \in Messages!Query /\ idle.data = query[k].data
    BY <1>d DEF Messages!Query
  <2>. HIDE DEF idle
  <2>3. given \in Messages!Query /\ given.data = query[k].data /\ given.read = -1
    BY <2>2, <1>c DEF Messages!Query
  <2>. HIDE DEF given
  <2>4. q \in Messages!Query /\ q.data = query[k].data /\ q.read = -1 /\ q.stale /\ q.fetch = "idle"
    <3>1. given.fetch = "idle"
      BY <2>2 DEF given, idle, Messages!Query
    <3>. QED
      BY <2>3, <3>1 DEF Messages!Query
  <2>. HIDE DEF q
  <2>5. q.data <= Len(rows) /\ q.read <= Len(rows) /\ fails' \in 0..MaxFails
    BY <1>6, <1>d, <1>l, <1>t, <1>c, <2>4 DEF Messages!FetchFails
  <2>6. UNCHANGED <<rows, sends, due, events, numbers, draft, texts, composeFrom, asked, suggestions, selected>>
    BY <1>6 DEF Messages!FetchFails, Messages!writing
  <2>. QED
    BY <1>o, <1>t, <2>1, <2>4, <2>5, <2>6
<1>7. ASSUME NEW k \in Messages!Keys, Messages!Age(k) PROVE MessageInv'
  <2>. DEFINE q == [query[k] EXCEPT !.stale = TRUE]
  <2>1. q \in Messages!Query /\ q.data = query[k].data /\ q.read = query[k].read /\ q.stale
        /\ q.fetch = query[k].fetch
    BY <1>d DEF Messages!Query
  <2>2. query' = [query EXCEPT ![k] = q]
    BY <1>7 DEF Messages!Age
  <2>. HIDE DEF q
  <2>3. k = Messages!List => \A n \in due : q.fetch = "read" => n <= q.read
    BY <1>i, <2>1 DEF ToldAreRead
  <2>4. q.data <= Len(rows) /\ q.read <= Len(rows)
    BY <1>d, <2>1
  <2>5. UNCHANGED <<rows, sends, due, events, numbers, draft, texts, composeFrom, asked, suggestions,
                    selected, fails>>
    BY <1>7 DEF Messages!Age, Messages!writing, Messages!history
  <2>. QED
    BY <1>o, <1>t, <2>1, <2>2, <2>3, <2>4, <2>5
<1>8. CASE Messages!Focus
  <2>1. \A k \in Messages!Keys :
            query'[k] = query[k] \/ (query[k].stale /\ query'[k] = Messages!Fetching(query[k]))
    BY <1>8, <1>d DEF Messages!Focus, Messages!Query
  <2>2. \A k \in Messages!Keys : /\ query'[k] \in Messages!Query
                                 /\ query'[k].data <= Len(rows) /\ query'[k].read <= Len(rows)
    BY <2>1, <1>d, <1>l, FetchType
  <2>3. query' \in [Messages!Keys -> Messages!Query]
    BY <1>8, <2>2 DEF Messages!Focus
  <2>4. ToldAreRead'
    <3>1. \/ query'[Messages!List] = query[Messages!List]
          \/ query'[Messages!List].fetch = "asked"
      BY <2>1, <1>d, <1>k, FetchType
    <3>2. due' = due
      BY <1>8 DEF Messages!Focus, Messages!history
    <3>. QED
      BY <1>i, <3>1, <3>2 DEF ToldAreRead
  <2>. QED
    BY <1>8, <1>q, <1>t, <2>2, <2>3, <2>4 DEF Messages!Focus, Messages!writing, Messages!history
<1>9. ASSUME NEW n \in Messages!Indices, Messages!MessageNew(n) PROVE MessageInv'
  <2>1. /\ query' \in [Messages!Keys -> Messages!Query] /\ due' \subseteq Messages!Indices
        /\ ReadsAreOfRows' /\ ToldAreRead'
    BY <1>9, InvalidateStep DEF Messages!MessageNew
  <2>. QED
    BY <1>9, <2>1, <1>t, <1>i
    DEF Messages!MessageNew, Messages!writing, Messages!Tell, MessageInv, Messages!TypeOK, Messages!Indices,
        SendsAreOfRows
<1>10. CASE Messages!NumbersAnswered
  BY <1>10, <1>u, <1>t DEF Messages!NumbersAnswered, Messages!writing, Messages!history
<1>11. ASSUME NEW i \in DOMAIN sends, Messages!SendAnswered(i) PROVE MessageInv'
  <2>1. {sends[i].row} \subseteq Messages!Indices
    BY <1>11, <1>v, <1>l DEF Messages!SendAnswered
  <2>2. /\ query' \in [Messages!Keys -> Messages!Query] /\ due' \subseteq Messages!Indices
        /\ ReadsAreOfRows' /\ ToldAreRead'
    BY <1>11, <2>1, InvalidateStep DEF Messages!SendAnswered
  <2>. DEFINE s == [sends[i] EXCEPT !.pc = "done"]
  <2>3. s \in Messages!Send /\ s.view = sends[i].view /\ s.row = sends[i].row /\ s.pc = "done"
    BY <1>v DEF Messages!Send
  <2>4. sends' = [sends EXCEPT ![i] = s]
    BY <1>11 DEF Messages!SendAnswered
  <2>. HIDE DEF s
  <2>5. /\ sends' \in Seq(Messages!Send) /\ Len(sends') = Len(sends) /\ DOMAIN sends' = DOMAIN sends
        /\ \A j \in DOMAIN sends : sends'[j] = IF j = i THEN s ELSE sends[j]
    BY <2>3, <2>4, <1>t
  <2>6. SendsAreOfRows'
    BY <1>11, <1>i, <2>3, <2>5 DEF SendsAreOfRows, Messages!SendAnswered
  <2>7. draft' \in 0..MaxTexts
    BY <1>11, <1>c DEF Messages!SendAnswered
  <2>. QED
    BY <1>11, <2>2, <2>5, <2>6, <2>7, <1>t
    DEF Messages!SendAnswered, Messages!Tell, MessageInv, Messages!TypeOK, Messages!Indices
<1>12. ASSUME NEW i \in DOMAIN sends, Messages!SendFails(i) PROVE MessageInv'
  <2>. DEFINE s == [sends[i] EXCEPT !.pc = "done"]
  <2>3. s \in Messages!Send /\ s.view = sends[i].view /\ s.row = sends[i].row /\ s.pc = "done"
    BY <1>v DEF Messages!Send
  <2>4. sends' = [sends EXCEPT ![i] = s]
    BY <1>12 DEF Messages!SendFails
  <2>. HIDE DEF s
  <2>5. /\ sends' \in Seq(Messages!Send) /\ Len(sends') = Len(sends) /\ DOMAIN sends' = DOMAIN sends
        /\ \A j \in DOMAIN sends : sends'[j] = IF j = i THEN s ELSE sends[j]
    BY <2>3, <2>4, <1>t
  <2>6. \A j \in DOMAIN sends' : /\ sends'[j].view <= Len(rows) /\ sends'[j].row <= Len(rows)
                                 /\ sends'[j].pc = "saved" => sends'[j].row # 0
    BY <1>i, <2>3, <2>5 DEF SendsAreOfRows
  <2>7. fails' \in 0..MaxFails
    BY <1>12, <1>t, <1>c DEF Messages!SendFails
  <2>. QED
    BY <1>12, <1>s, <1>t, <2>5, <2>6, <2>7 DEF Messages!SendFails, Messages!writing
<1>13. ASSUME NEW n \in Messages!Indices, Messages!Suggested(n) PROVE MessageInv'
  BY <1>13, <1>u, <1>t, <1>l DEF Messages!Suggested, Messages!writing, Messages!history
<1>y. ASSUME NEW n \in 0..Len(rows), Messages!View(n)
      PROVE  /\ selected' \in 0..Len(rows) /\ sends' \in Seq(Messages!Send) /\ Len(sends') <= MaxSends
             /\ \A j \in DOMAIN sends' : /\ sends'[j].view <= Len(rows) /\ sends'[j].row <= Len(rows)
                                         /\ sends'[j].pc = "saved" => sends'[j].row # 0
  <2>1. CASE sends = <<>>
    BY <1>y, <2>1, <1>t DEF Messages!View
  <2>2. CASE sends # <<>>
    <3>. DEFINE i == Len(sends)
                s == [sends[i] EXCEPT !.view = n]
    <3>1. i \in DOMAIN sends /\ i \in 1..Len(sends)
      BY <2>2, <1>t
    <3>2. n \in 0..MaxMessages
      BY <1>t, <1>l, <1>c
    <3>3. s \in Messages!Send /\ s.view = n /\ s.row = sends[i].row /\ s.pc = sends[i].pc
      BY <1>v, <3>1, <3>2 DEF Messages!Send
    <3>4. sends' = [sends EXCEPT ![i] = s]
      BY <1>y, <2>2 DEF Messages!View
    <3>. HIDE DEF s
    <3>5. /\ sends' \in Seq(Messages!Send) /\ Len(sends') = Len(sends) /\ DOMAIN sends' = DOMAIN sends
          /\ \A j \in DOMAIN sends : sends'[j] = IF j = i THEN s ELSE sends[j]
      BY <3>1, <3>3, <3>4, <1>t
    <3>6. \A j \in DOMAIN sends' : /\ sends'[j].view <= Len(rows) /\ sends'[j].row <= Len(rows)
                                   /\ sends'[j].pc = "saved" => sends'[j].row # 0
      BY <1>v, <1>l, <3>1, <3>3, <3>5
    <3>. QED
      BY <1>y, <3>5, <3>6, <1>t DEF Messages!View
  <2>. QED
    BY <2>1, <2>2
<1>14. ASSUME NEW n \in Messages!Indices, Messages!Select(n) PROVE MessageInv'
  <2>1. n \in 0..Len(rows)
    BY <1>l
  <2>2. /\ selected' \in 0..Len(rows) /\ sends' \in Seq(Messages!Send) /\ Len(sends') <= MaxSends
        /\ \A j \in DOMAIN sends' : /\ sends'[j].view <= Len(rows) /\ sends'[j].row <= Len(rows)
                                    /\ sends'[j].pc = "saved" => sends'[j].row # 0
    BY <1>14, <1>y, <2>1 DEF Messages!Select
  <2>. DEFINE c == rows[n].with
  <2>3. UNCHANGED <<rows, events, numbers, draft, texts, composeFrom, asked, suggestions, due, fails>>
    BY <1>14 DEF Messages!Select, Messages!writing, Messages!history
  <2>4. CASE query' = query
    BY <1>s, <1>t, <2>2, <2>3, <2>4
  <2>5. CASE query' # query
    <3>1. /\ c \in Messages!Keys /\ query[c].stale
          /\ query' = [query EXCEPT ![c] = Messages!Fetching(query[c])]
      BY <1>14, <2>5 DEF Messages!Select, Messages!Keys
    <3>2. /\ Messages!Fetching(query[c]) \in Messages!Query
          /\ Messages!Fetching(query[c]).data = query[c].data
          /\ Messages!Fetching(query[c]).read = -1 /\ Messages!Fetching(query[c]).fetch = "asked"
      BY <1>d, <3>1, FetchType
    <3>3. \A k \in Messages!Keys : query'[k] = IF k = c THEN Messages!Fetching(query[c]) ELSE query[k]
      BY <3>1, <1>t
    <3>4. \A k \in Messages!Keys : query'[k].data <= Len(rows) /\ query'[k].read <= Len(rows)
      BY <3>2, <3>3, <1>d, <1>l
    <3>5. query' \in [Messages!Keys -> Messages!Query]
      BY <3>1, <3>2, <1>t
    <3>6. ToldAreRead'
      BY <2>3, <3>2, <3>3, <1>i, <1>k DEF ToldAreRead
    <3>. QED
      BY <2>2, <2>3, <3>4, <3>5, <3>6, <1>t
      DEF MessageInv, Messages!TypeOK, Messages!Indices, ReadsAreOfRows, SendsAreOfRows
  <2>. QED
    BY <2>4, <2>5
<1>15. CASE Messages!Back
  <2>1. 0 \in 0..Len(rows)
    BY <1>l
  <2>2. /\ selected' \in 0..Len(rows) /\ sends' \in Seq(Messages!Send) /\ Len(sends') <= MaxSends
        /\ \A j \in DOMAIN sends' : /\ sends'[j].view <= Len(rows) /\ sends'[j].row <= Len(rows)
                                    /\ sends'[j].pc = "saved" => sends'[j].row # 0
    BY <1>15, <1>y, <2>1 DEF Messages!Back
  <2>. QED
    BY <1>15, <1>s, <1>t, <2>2 DEF Messages!Back, Messages!writing, Messages!history
<1>x. ASSUME Messages!NewText PROVE texts' \in 0..MaxTexts /\ draft' \in 0..MaxTexts
  BY <1>x, <1>t, <1>c DEF Messages!NewText
<1>16. CASE Messages!Type
  BY <1>16, <1>x, <1>u, <1>t DEF Messages!Type, Messages!history
<1>17. CASE Messages!GetSuggestions
  BY <1>17, <1>u, <1>t, <1>l DEF Messages!GetSuggestions, Messages!writing, Messages!history
<1>18. CASE Messages!UseSuggestion
  BY <1>18, <1>x, <1>u, <1>t, <1>l DEF Messages!UseSuggestion, Messages!history
<1>m. ASSUME NEW to \in Messages!Correspondents, NEW from \in Messages!Senders, draft # 0,
             Messages!Mutate(to, from)
      PROVE  MessageInv'
  <2>. DEFINE s == [to |-> to, text |-> draft, from |-> from, view |-> selected, pc |-> "asked", row |-> 0]
  <2>1. draft \in 1..MaxTexts /\ selected \in 0..MaxMessages /\ 0 \in 0..MaxMessages
    BY <1>m, <1>t, <1>l, <1>c
  <2>2. s \in Messages!Send /\ s.view = selected /\ s.row = 0 /\ s.pc = "asked"
    BY <2>1 DEF Messages!Send
  <2>3. sends' = Append(sends, s) /\ Len(sends) < MaxSends
    BY <1>m DEF Messages!Mutate
  <2>. HIDE DEF s
  <2>4. sends' \in Seq(Messages!Send) /\ Len(sends') <= MaxSends
    BY <2>2, <2>3, <1>t, <1>c
  <2>5. \A j \in DOMAIN sends' : sends'[j] = s \/ (j \in DOMAIN sends /\ sends'[j] = sends[j])
    BY <2>2, <2>3, <1>t
  <2>6. \A j \in DOMAIN sends' : /\ sends'[j].view <= Len(rows) /\ sends'[j].row <= Len(rows)
                                 /\ sends'[j].pc = "saved" => sends'[j].row # 0
    BY <2>2, <2>5, <1>v, <1>l, <1>t
  <2>. QED
    BY <1>m, <1>s, <1>t, <2>4, <2>6 DEF Messages!Mutate, Messages!writing, Messages!history
<1>z. ASSUME selected # 0
      PROVE  Messages!Shown \in Messages!Correspondents /\ Messages!ReplyFrom \in Messages!Senders
  BY <1>z, <1>t, <1>w, <1>l DEF Messages!Shown, Messages!ReplyFrom, Messages!Row, Messages!Senders
<1>19. CASE Messages!ReplyByButton \/ Messages!ReplyByEnter
  BY <1>19, <1>z, <1>m DEF Messages!ReplyByButton, Messages!ReplyByEnter
<1>20. CASE Messages!ChooseFrom
  BY <1>20, <1>u, <1>t DEF Messages!ChooseFrom, Messages!history
<1>21. ASSUME NEW c \in Messages!Correspondents, Messages!SendCompose(c) PROVE MessageInv'
  <2>1. composeFrom \in Messages!Senders
    BY <1>t DEF Messages!Senders
  <2>. QED
    BY <1>21, <2>1, <1>m DEF Messages!SendCompose
<1>22. CASE UNCHANGED messageVars
  BY <1>22, <1>u, <1>t DEF messageVars
<1>. QED
  BY <1>1, <1>2, <1>3, <1>4, <1>5, <1>6, <1>7, <1>8, <1>9, <1>10, <1>11, <1>12, <1>13, <1>14, <1>15, <1>16,
     <1>17, <1>18, <1>19, <1>20, <1>21, <1>22
  DEF Messages!Next

(* Its types and ToldAreListed hold in every state. *)
LEMMA MessagesAlways == AllSpec => [](Messages!TypeOK /\ Messages!ToldAreListed)
<1>1. ASSUME AllInit PROVE MessageInv
  <2>1. \A k \in Messages!Keys :
          query[k] \in Messages!Query /\ query[k].data = -1 /\ query[k].read = -1
    <3>1. -1 \in -1..MaxMessages
      BY MessageConstants
    <3>2. Messages!NoQuery \in Messages!Query
      BY <3>1 DEF Messages!NoQuery, Messages!Query
    <3>3. LET q == [Messages!NoQuery EXCEPT !.fetch = "asked"]
          IN  q \in Messages!Query /\ q.data = -1 /\ q.read = -1
      BY <3>2 DEF Messages!Query, Messages!NoQuery
    <3>. QED
      BY <1>1, <3>2, <3>3 DEF AllInit, Messages!Init, Messages!NoQuery
  <2>2. query \in [Messages!Keys -> Messages!Query]
    BY <1>1, <2>1 DEF AllInit, Messages!Init
  <2>3. /\ rows = <<>> /\ Len(rows) = 0 /\ rows \in Seq(Messages!Row)
        /\ sends = <<>> /\ Len(sends) = 0 /\ sends \in Seq(Messages!Send) /\ DOMAIN sends = {}
    BY <1>1 DEF AllInit, Messages!Init
  <2>n. /\ 0 \in 0..MaxMessages /\ 0 \in 0..MaxTexts /\ 0 \in 0..MaxFails /\ 0 \in 0..Len(rows)
        /\ Len(rows) <= MaxMessages /\ Len(sends) <= MaxSends
    BY <2>3, MessageConstants
  <2>4. Messages!TypeOK
    <3>1. /\ events = {} /\ due = {} /\ asked = {} /\ numbers = FALSE /\ composeFrom = "blank"
          /\ selected = 0 /\ suggestions = 0 /\ draft = 0 /\ texts = 0 /\ fails = 0
      BY <1>1 DEF AllInit, Messages!Init
    <3>. QED
      BY <2>2, <2>3, <2>n, <3>1 DEF Messages!TypeOK, Messages!Indices
  <2>5. ReadsAreOfRows /\ SendsAreOfRows /\ ToldAreRead
    BY <1>1, <2>1, <2>3 DEF AllInit, Messages!Init, ReadsAreOfRows, SendsAreOfRows, ToldAreRead
  <2>. QED
    BY <2>4, <2>5 DEF MessageInv
<1>2. MessageInv /\ [AllNext]_allVars => MessageInv'
  BY MessageStep, AllMovesMessages
<1>3. MessageInv => Messages!TypeOK /\ Messages!ToldAreListed
  BY DEF MessageInv, ToldAreRead, Messages!ToldAreListed, Messages!Settled
<1>. QED
  BY <1>1, <1>2, <1>3, PTL DEF AllSpec

(* A step of the suite is one of the softphone, or leaves it alone. *)
LEMMA AllMovesPhone == [AllNext]_allVars => [Phone!Next]_phoneVars
BY DEF AllNext, allVars

(* What the suite assumes of the constants of the softphone module. *)
LEMMA PhoneConstants ==
    None \notin Calls \cup Numbers /\ MaxTexts \in Nat /\ MaxDials \in Nat /\ MaxFails \in Nat
BY BrowserAssumption DEF Phone!SoftphoneAssumption

(* There is a banner or there is none. *)
OneBanner == banner = {} \/ \E b \in Phone!Banner : banner = {b}

(* A dial that had a number to call from was made once the numbers were    *)
(* there, and so are all after it.                                         *)
DialsFollow ==
    \A i \in DOMAIN dials :
        /\ dials[i].from # None => phoneNumbers # {}
        /\ \A j \in DOMAIN dials : i < j /\ dials[i].from # None => dials[j].from # None

(* What is typed is given a number no earlier text has. *)
TextsAreNew == dial <= dialTexts /\ \A i \in DOMAIN dials : dials[i].text <= dialTexts

(* The text of a dial with a number stays in the field until that dial is  *)
(* done: no dial from it on is done before, so the button is disabled and  *)
(* the text is not dialled again.                                          *)
PendingAsLongAsTyped ==
    phoneFails = 0 =>
        \A i \in DOMAIN dials :
            dials[i].text # 0 /\ dials[i].from # None /\ dial = dials[i].text =>
                \A j \in DOMAIN dials : i <= j => dials[j].pc # "done"

(* Of two dials of one text the first had no number to call from, and      *)
(* called nobody.                                                          *)
FirstHadNoNumber ==
    phoneFails = 0 =>
        \A i, j \in DOMAIN dials :
            i < j /\ dials[i].text = dials[j].text /\ dials[i].text # 0 => dials[i].from = None

(* What keeps a number from being dialled twice. PendingAsLongAsTyped is   *)
(* what relates the earlier dials, which are over, to the one that can be  *)
(* made now.                                                               *)
DialInv == DialsFollow /\ TextsAreNew /\ PendingAsLongAsTyped /\ FirstHadNoNumber

(* A dial that has a call had a number for it, and the call was made. *)
CallsArePlaced ==
    \A i \in DOMAIN dials :
        /\ dials[i].call # None => /\ dials[i].from # None
                                   /\ call[dials[i].call].state \in {"live", "over"}
        /\ dials[i].pc = "placed" => dials[i].call # None

(* The banner is of a call there is. It has no identifier only if the call *)
(* was not made here; otherwise the identifier is that of its row.         *)
BannerIsOfACall ==
    \A b \in banner : /\ call[b.call].state # "none"
                      /\ b.id = None => \A i \in DOMAIN dials : dials[i].call # b.call
                      /\ b.id # None => b.id = b.call

(* Who is hanging up, or was told that a call is over, had a call. *)
CallsAreKnown == \A c \in hanging \cup ended : call[c].state # "none"

(* What keeps a call that was hung up over: the identifier hung up on is   *)
(* that of the banner's call.                                              *)
CallInv == CallsArePlaced /\ BannerIsOfACall /\ CallsAreKnown /\ Phone!HungUpIsOver

(* The inductive invariant of the softphone. *)
PhoneInv == Phone!TypeOK /\ OneBanner /\ DialInv /\ CallInv

(* It implies that a number typed once is called once. *)
LEMMA DialledAtMostOnce == ASSUME PhoneInv PROVE Phone!DialledOnce
<1>1. SUFFICES ASSUME NEW i \in DOMAIN dials, NEW j \in DOMAIN dials, phoneFails = 0, i # j,
                      dials[i].text = dials[j].text, dials[i].text # 0,
                      dials[i].call # None, dials[j].call # None
               PROVE  FALSE
  BY DEF Phone!DialledOnce
<1>2. dials[i].from # None /\ dials[j].from # None
  BY <1>1 DEF PhoneInv, CallInv, CallsArePlaced
<1>3. i \in Int /\ j \in Int
  BY DEF PhoneInv, Phone!TypeOK
<1>4. i < j \/ j < i
  BY <1>1, <1>3
<1>. QED
  BY <1>1, <1>2, <1>4 DEF PhoneInv, DialInv, FirstHadNoNumber

(* A step of the softphone module keeps the invariant. *)
LEMMA PhoneStep == ASSUME PhoneInv, [Phone!Next]_phoneVars PROVE PhoneInv'
<1>c. None \notin Calls \cup Numbers /\ MaxTexts \in Nat /\ MaxDials \in Nat /\ MaxFails \in Nat
  BY PhoneConstants
<1>t. /\ call \in [Calls -> Phone!Call] /\ hanging \subseteq Calls
      /\ phoneMounted \in BOOLEAN /\ device \in BOOLEAN
      /\ phoneNumbers \subseteq Numbers /\ chosen \in phoneNumbers \cup {None}
      /\ dial \in 0..MaxTexts /\ dialTexts \in 0..MaxTexts
      /\ dials \in Seq(Phone!Dial) /\ Len(dials) <= MaxDials
      /\ ended \subseteq Calls /\ phoneFails \in 0..MaxFails
  BY DEF PhoneInv, Phone!TypeOK
<1>l. Len(dials) \in Nat /\ DOMAIN dials = 1..Len(dials) /\ \A i \in DOMAIN dials : dials[i] \in Phone!Dial
  BY <1>t
<1>r. \A i \in DOMAIN dials : /\ dials[i].text \in 0..MaxTexts /\ dials[i].from \in Numbers \cup {None}
                              /\ dials[i].call \in Calls \cup {None}
                              /\ dials[i].pc \in {"asked", "placed", "done"}
  BY <1>l DEF Phone!Dial
<1>o. OneBanner /\ DialsFollow /\ TextsAreNew /\ PendingAsLongAsTyped /\ FirstHadNoNumber
  BY DEF PhoneInv, DialInv
<1>i. CallsArePlaced /\ BannerIsOfACall /\ CallsAreKnown /\ Phone!HungUpIsOver
  BY DEF PhoneInv, CallInv
<1>s. \A c \in Calls : call[c] \in Phone!Call
  BY <1>t
<1>b. \A b \in banner : b \in Phone!Banner /\ b.call \in Calls /\ b.id \in Calls \cup {None}
  BY <1>o DEF OneBanner, Phone!Banner
<1>y. ASSUME call' \in [Calls -> Phone!Call], OneBanner', hanging' \subseteq Calls,
             phoneMounted' \in BOOLEAN, device' \in BOOLEAN,
             phoneNumbers' \subseteq Numbers, chosen' \in phoneNumbers' \cup {None},
             dial' \in 0..MaxTexts, dialTexts' \in 0..MaxTexts,
             dials' \in Seq(Phone!Dial), Len(dials') <= MaxDials,
             ended' \subseteq Calls, phoneFails' \in 0..MaxFails
      PROVE  Phone!TypeOK'
  <2>1. banner' \subseteq Phone!Banner /\ \A x, y \in banner' : x = y
    BY <1>y DEF OneBanner
  <2>2. Cardinality(banner') <= 1
    BY <2>1, CountAtMostOne
  <2>3. \A S : Phone!Cardinality(S) = Cardinality(S)
    BY Zenon DEF Phone!Cardinality, Cardinality, Phone!IsFiniteSet, IsFiniteSet
  <2>. QED
    BY <1>y, <2>1, <2>2, <2>3 DEF Phone!TypeOK
<1>d. ASSUME UNCHANGED dials, phoneFails' \in 0..MaxFails, phoneFails' >= phoneFails,
             phoneNumbers # {} => phoneNumbers' # {},
             dialTexts' \in 0..MaxTexts, dialTexts' >= dialTexts,
             dial' \in {0, dial} \/ (dial' > dialTexts /\ dial' <= dialTexts'), dial' \in 0..MaxTexts
      PROVE  DialInv'
  <2>1. DialsFollow'
    BY <1>d, <1>o DEF DialsFollow
  <2>2. TextsAreNew'
    BY <1>d, <1>o, <1>t, <1>r DEF TextsAreNew
  <2>3. phoneFails' = 0 => phoneFails = 0
    BY <1>d, <1>t
  <2>4. PendingAsLongAsTyped'
    BY <1>d, <2>3, <1>o, <1>t, <1>r DEF PendingAsLongAsTyped, TextsAreNew
  <2>5. FirstHadNoNumber'
    BY <1>d, <2>3, <1>o DEF FirstHadNoNumber
  <2>. QED
    BY <2>1, <2>2, <2>4, <2>5 DEF DialInv
<1>p. ASSUME UNCHANGED <<call, banner, hanging, dials, ended, phoneFails>>,
             phoneMounted' \in BOOLEAN, device' \in BOOLEAN,
             phoneNumbers' \subseteq Numbers, chosen' \in phoneNumbers' \cup {None},
             phoneNumbers # {} => phoneNumbers' # {},
             dialTexts' \in 0..MaxTexts, dialTexts' >= dialTexts,
             dial' \in {0, dial} \/ (dial' > dialTexts /\ dial' <= dialTexts'), dial' \in 0..MaxTexts
      PROVE  PhoneInv'
  <2>1. DialInv'
    BY <1>p, <1>d, <1>t
  <2>2. OneBanner' /\ CallInv'
    BY <1>p, <1>o, <1>i
    DEF OneBanner, CallInv, CallsArePlaced, BannerIsOfACall, CallsAreKnown, Phone!HungUpIsOver
  <2>3. Phone!TypeOK'
    BY <1>p, <1>y, <2>2, <1>t
  <2>. QED
    BY <2>1, <2>2, <2>3 DEF PhoneInv
<1>1. CASE Phone!Open
  BY <1>1, <1>p, <1>t DEF Phone!Open, Phone!typing
<1>2. CASE Phone!Leave
  <2>1. 0 \in 0..MaxTexts /\ dialTexts >= dialTexts
    BY <1>t, <1>c
  <2>. QED
    BY <1>2, <2>1, <1>p, <1>t DEF Phone!Leave
<1>3. CASE Phone!InitDevice
  BY <1>3, <1>p, <1>t DEF Phone!InitDevice, Phone!typing
<1>4. CASE Phone!NumbersAnswered
  BY <1>4, <1>p, <1>t DEF Phone!NumbersAnswered, Phone!typing
<1>5. ASSUME NEW n \in Numbers, Phone!ChooseNumber(n) PROVE PhoneInv'
  BY <1>5, <1>p, <1>t DEF Phone!ChooseNumber, Phone!typing
<1>6. CASE Phone!PressKey
  <2>1. /\ dialTexts' = dialTexts + 1 /\ dialTexts' \in 0..MaxTexts /\ dialTexts' >= dialTexts
        /\ dial' = 0 \/ (dial' > dialTexts /\ dial' <= dialTexts')
        /\ dial' \in 0..MaxTexts
    BY <1>6, <1>t, <1>c DEF Phone!PressKey
  <2>. QED
    BY <1>6, <2>1, <1>p, <1>t DEF Phone!PressKey, Phone!page
<1>m. ASSUME NEW text \in 0..MaxTexts, text <= dialTexts, Phone!Mutate(text),
             text # 0 => text = dial /\ ~Phone!Pending
      PROVE  PhoneInv'
  <2>. DEFINE s == [text |-> text, from |-> Phone!First, pick |-> chosen, call |-> None, pc |-> "asked"]
              n == Len(dials) + 1
  <2>1. Phone!First \in Numbers \cup {None} /\ (Phone!First = None <=> phoneNumbers = {})
    BY <1>t, <1>c DEF Phone!First
  <2>2. s \in Phone!Dial /\ s.text = text /\ s.from = Phone!First /\ s.call = None /\ s.pc = "asked"
    BY <2>1, <1>t DEF Phone!Dial
  <2>3. dials' = Append(dials, s) /\ Len(dials) < MaxDials
    BY <1>m DEF Phone!Mutate
  <2>. HIDE DEF s
  <2>4. /\ dials' \in Seq(Phone!Dial) /\ Len(dials') <= MaxDials /\ DOMAIN dials' = 1..n /\ n \in DOMAIN dials'
        /\ dials'[n] = s /\ \A i \in DOMAIN dials : i \in DOMAIN dials' /\ dials'[i] = dials[i] /\ i < n
        /\ \A i \in DOMAIN dials' : i = n \/ i \in DOMAIN dials
        /\ \A i \in DOMAIN dials' : i \in Int /\ n \in Int /\ i <= n
    BY <2>2, <2>3, <1>t, <1>l, <1>c
  <2>. HIDE DEF n
  <2>5. UNCHANGED <<call, banner, hanging, phoneMounted, device, phoneNumbers, chosen, dial, dialTexts, ended,
                    phoneFails>>
    BY <1>m DEF Phone!Mutate, Phone!page, Phone!typing
  <2>6. DialsFollow'
    BY <2>1, <2>2, <2>4, <2>5, <1>o DEF DialsFollow
  <2>7. TextsAreNew'
    BY <1>m, <2>2, <2>4, <2>5, <1>o DEF TextsAreNew
  <2>8. PendingAsLongAsTyped'
    <3>1. SUFFICES ASSUME phoneFails = 0, NEW i \in DOMAIN dials', dials'[i].text # 0, dials'[i].from # None,
                          dial = dials'[i].text, NEW j \in DOMAIN dials', i <= j
                   PROVE  dials'[j].pc # "done"
      BY <2>5 DEF PendingAsLongAsTyped
    <3>2. CASE j = n
      BY <3>2, <2>2, <2>4
    <3>3. CASE j # n
      <4>1. i \in DOMAIN dials /\ j \in DOMAIN dials
        BY <3>1, <3>3, <2>4
      <4>. QED
        BY <3>1, <4>1, <2>4, <1>o DEF PendingAsLongAsTyped
    <3>. QED
      BY <3>2, <3>3
  <2>9. FirstHadNoNumber'
    <3>1. SUFFICES ASSUME phoneFails = 0, NEW i \in DOMAIN dials', NEW j \in DOMAIN dials', i < j,
                          dials'[i].text = dials'[j].text, dials'[i].text # 0
                   PROVE  dials'[i].from = None
      BY <2>5 DEF FirstHadNoNumber
    <3>2. i \in DOMAIN dials
      BY <3>1, <2>4
    <3>3. CASE j # n
      BY <3>1, <3>2, <3>3, <2>4, <1>o DEF FirstHadNoNumber
    <3>4. CASE j = n
      <4>1. dials[i].text = text /\ text # 0 /\ text = dial /\ ~Phone!Pending
        BY <3>1, <3>2, <3>4, <2>2, <2>4, <1>m
      <4>2. dials # <<>> /\ Len(dials) \in DOMAIN dials /\ i <= Len(dials)
        BY <3>2, <1>l
      <4>3. dials[Len(dials)].pc = "done"
        BY <4>1, <4>2 DEF Phone!Pending
      <4>. QED
        BY <3>1, <3>2, <2>4, <4>1, <4>2, <4>3, <1>o DEF PendingAsLongAsTyped
    <3>. QED
      BY <3>3, <3>4
  <2>10. CallInv'
    <3>1. CallsArePlaced'
      BY <2>2, <2>4, <2>5, <1>i DEF CallsArePlaced
    <3>2. BannerIsOfACall'
      BY <2>2, <2>4, <2>5, <1>i, <1>b, <1>c DEF BannerIsOfACall
    <3>3. CallsAreKnown'
      BY <2>5, <1>i DEF CallsAreKnown
    <3>4. Phone!HungUpIsOver'
      BY <2>2, <2>4, <2>5, <1>i, <1>t, <1>c DEF Phone!HungUpIsOver
    <3>. QED
      BY <3>1, <3>2, <3>3, <3>4 DEF CallInv
  <2>11. OneBanner'
    BY <2>5, <1>o DEF OneBanner
  <2>12. Phone!TypeOK'
    BY <1>y, <2>4, <2>5, <2>11, <1>t
  <2>. QED
    BY <2>6, <2>7, <2>8, <2>9, <2>10, <2>11, <2>12 DEF PhoneInv, DialInv
<1>7. CASE Phone!PressCall
  BY <1>7, <1>m, <1>t, <1>o DEF Phone!PressCall, TextsAreNew
<1>8. CASE Phone!Redial
  <2>1. 0 \in 0..MaxTexts /\ 0 <= dialTexts
    BY <1>t, <1>c
  <2>. QED
    BY <1>8, <2>1, <1>m DEF Phone!Redial
<1>k. ASSUME NEW i \in DOMAIN dials, NEW s \in Phone!Dial, dials' = [dials EXCEPT ![i] = s],
             s.text = dials[i].text, s.from = dials[i].from,
             UNCHANGED <<phoneMounted, device, phoneNumbers, chosen, dialTexts>>,
             dial' \in {0, dial}, phoneFails' \in 0..MaxFails,
             phoneFails' = 0 => phoneFails = 0,
             phoneFails' = 0 /\ s.pc = "done" => dial' = 0 \/ s.from = None
      PROVE  /\ dials' \in Seq(Phone!Dial) /\ Len(dials') <= MaxDials /\ DOMAIN dials' = DOMAIN dials
             /\ \A j \in DOMAIN dials : dials'[j] = IF j = i THEN s ELSE dials[j]
             /\ DialInv'
  <2>1. /\ dials' \in Seq(Phone!Dial) /\ Len(dials') <= MaxDials /\ DOMAIN dials' = DOMAIN dials
        /\ \A j \in DOMAIN dials : dials'[j] = IF j = i THEN s ELSE dials[j]
    BY <1>k, <1>t
  <2>2. \A j \in DOMAIN dials : dials'[j].text = dials[j].text /\ dials'[j].from = dials[j].from
    BY <1>k, <2>1
  <2>3. DialsFollow'
    BY <1>k, <2>1, <2>2, <1>o DEF DialsFollow
  <2>4. TextsAreNew'
    BY <1>k, <2>1, <2>2, <1>o, <1>t DEF TextsAreNew
  <2>5. PendingAsLongAsTyped'
    <3>1. SUFFICES ASSUME phoneFails' = 0, NEW k \in DOMAIN dials, dials[k].text # 0, dials[k].from # None,
                          dial' = dials[k].text, NEW j \in DOMAIN dials, k <= j
                   PROVE  dials'[j].pc # "done"
      BY <2>1, <2>2 DEF PendingAsLongAsTyped
    <3>2. dial = dials[k].text /\ dial' # 0 /\ phoneFails = 0
      BY <3>1, <1>k
    <3>3. dials[j].pc # "done"
      BY <3>1, <3>2, <1>o DEF PendingAsLongAsTyped
    <3>4. CASE j # i
      BY <3>3, <3>4, <2>1
    <3>5. CASE j = i
      <4>1. dials[i].from # None
        BY <3>1, <3>5, <1>l, <1>o DEF DialsFollow
      <4>. QED
        BY <3>1, <3>2, <3>5, <4>1, <2>1, <1>k
    <3>. QED
      BY <3>4, <3>5
  <2>6. FirstHadNoNumber'
    BY <1>k, <2>1, <2>2, <1>o DEF FirstHadNoNumber
  <2>. QED
    BY <2>1, <2>3, <2>4, <2>5, <2>6 DEF DialInv
<1>9. ASSUME NEW i \in DOMAIN dials, NEW c \in Calls, Phone!Place(i, c) PROVE PhoneInv'
  <2>. DEFINE s == [dials[i] EXCEPT !.pc = "placed", !.call = c]
              x == [state |-> "live", from |-> dials[i].from]
  <2>1. s \in Phone!Dial /\ s.text = dials[i].text /\ s.from = dials[i].from /\ s.pc = "placed" /\ s.call = c
    BY <1>l DEF Phone!Dial
  <2>0. dials' = [dials EXCEPT ![i] = s]
    BY <1>9, <1>l DEF Phone!Place, Phone!Dial
  <2>2. /\ dials' = [dials EXCEPT ![i] = s] /\ dials[i].from # None /\ call[c].state = "none"
        /\ call' = [call EXCEPT ![c] = x]
        /\ UNCHANGED <<banner, hanging, phoneMounted, device, phoneNumbers, chosen, dial, dialTexts, ended,
                       phoneFails>>
    BY <2>0, <1>9 DEF Phone!Place, Phone!NoCall, Phone!page, Phone!typing
  <2>3. x \in Phone!Call /\ x.state = "live"
    BY <1>r DEF Phone!Call
  <2>. HIDE DEF s, x
  <2>4. /\ dials' \in Seq(Phone!Dial) /\ Len(dials') <= MaxDials /\ DOMAIN dials' = DOMAIN dials
        /\ \A j \in DOMAIN dials : dials'[j] = IF j = i THEN s ELSE dials[j]
        /\ DialInv'
    BY <2>1, <2>2, <1>k, <1>t
  <2>5. call' \in [Calls -> Phone!Call] /\ \A d \in Calls : call'[d] = IF d = c THEN x ELSE call[d]
    BY <2>2, <2>3, <1>t
  <2>6. CallsArePlaced'
    BY <2>1, <2>2, <2>3, <2>4, <2>5, <1>i, <1>r, <1>c DEF CallsArePlaced
  <2>7. BannerIsOfACall'
    BY <2>1, <2>2, <2>3, <2>4, <2>5, <1>i, <1>b DEF BannerIsOfACall
  <2>8. CallsAreKnown'
    BY <2>2, <2>3, <2>5, <1>i, <1>t DEF CallsAreKnown
  <2>9. Phone!HungUpIsOver'
    <3>1. c \notin ended
      BY <2>2, <1>i DEF CallsAreKnown
    <3>. QED
      BY <2>1, <2>2, <2>4, <2>5, <3>1, <1>i, <1>t DEF Phone!HungUpIsOver
  <2>10. OneBanner'
    BY <2>2, <1>o DEF OneBanner
  <2>11. Phone!TypeOK'
    BY <1>y, <2>2, <2>4, <2>5, <2>10, <1>t
  <2>. QED
    BY <2>4, <2>6, <2>7, <2>8, <2>9, <2>10, <2>11 DEF PhoneInv, CallInv
<1>v. ASSUME NEW c \in Calls, NEW id \in Calls \cup {None}, Phone!SetActiveCall(c, id)
      PROVE  OneBanner' /\ \A b \in banner' : b.call = c /\ b.id = id
  <2>1. PICK b : b = [call |-> c, id |-> id, muted |-> FALSE, held |-> FALSE] /\ banner' = {b}
    BY <1>v DEF Phone!SetActiveCall
  <2>2. b \in Phone!Banner /\ b.call = c /\ b.id = id
    BY <2>1 DEF Phone!Banner
  <2>. QED
    BY <2>1, <2>2 DEF OneBanner
<1>10. ASSUME NEW i \in DOMAIN dials, Phone!Answered(i) PROVE PhoneInv'
  <2>. DEFINE s == [dials[i] EXCEPT !.pc = "done"]
              c == dials[i].call
  <2>1. s \in Phone!Dial /\ s.text = dials[i].text /\ s.from = dials[i].from /\ s.pc = "done" /\ s.call = c
    BY <1>l DEF Phone!Dial
  <2>2. /\ dials' = [dials EXCEPT ![i] = s] /\ dials[i].pc = "placed" /\ dial' = 0
        /\ Phone!SetActiveCall(c, c)
        /\ UNCHANGED <<call, hanging, phoneMounted, device, phoneNumbers, chosen, dialTexts, ended, phoneFails>>
    BY <1>10 DEF Phone!Answered, Phone!page
  <2>. HIDE DEF s
  <2>3. /\ dials' \in Seq(Phone!Dial) /\ Len(dials') <= MaxDials /\ DOMAIN dials' = DOMAIN dials
        /\ \A j \in DOMAIN dials : dials'[j] = IF j = i THEN s ELSE dials[j]
        /\ DialInv'
    BY <2>1, <2>2, <1>k, <1>t
  <2>4. c \in Calls /\ call[c].state # "none"
    BY <2>2, <1>i, <1>r DEF CallsArePlaced
  <2>5. OneBanner' /\ \A b \in banner' : b.call = c /\ b.id = c
    BY <2>2, <2>4, <1>v
  <2>6. CallsArePlaced'
    BY <2>1, <2>2, <2>3, <1>i DEF CallsArePlaced
  <2>7. BannerIsOfACall'
    BY <2>2, <2>4, <2>5, <1>c DEF BannerIsOfACall
  <2>8. CallsAreKnown' /\ Phone!HungUpIsOver'
    BY <2>1, <2>2, <2>3, <1>i DEF CallsAreKnown, Phone!HungUpIsOver
  <2>9. Phone!TypeOK'
    BY <1>y, <2>2, <2>3, <2>5, <1>t, <1>c
  <2>. QED
    BY <2>3, <2>5, <2>6, <2>7, <2>8, <2>9 DEF PhoneInv, CallInv
<1>11. ASSUME NEW i \in DOMAIN dials, Phone!CallFailed(i) PROVE PhoneInv'
  <2>. DEFINE s == [dials[i] EXCEPT !.pc = "done"]
  <2>1. /\ s \in Phone!Dial /\ s.text = dials[i].text /\ s.from = dials[i].from /\ s.pc = "done"
        /\ s.call = dials[i].call
    BY <1>l DEF Phone!Dial
  <2>2. /\ dials' = [dials EXCEPT ![i] = s]
        /\ phoneFails' = IF dials[i].from = None THEN phoneFails ELSE phoneFails + 1
        /\ dials[i].from # None => phoneFails < MaxFails
        /\ UNCHANGED <<call, banner, hanging, phoneMounted, device, phoneNumbers, chosen, dial, dialTexts,
                       ended>>
    BY <1>11 DEF Phone!CallFailed, Phone!page, Phone!typing
  <2>. HIDE DEF s
  <2>3. /\ phoneFails' \in 0..MaxFails /\ (phoneFails' = 0 => phoneFails = 0)
        /\ phoneFails' = 0 => dials[i].from = None
    BY <2>2, <1>t, <1>c
  <2>4. /\ dials' \in Seq(Phone!Dial) /\ Len(dials') <= MaxDials /\ DOMAIN dials' = DOMAIN dials
        /\ \A j \in DOMAIN dials : dials'[j] = IF j = i THEN s ELSE dials[j]
        /\ DialInv'
    BY <2>1, <2>2, <2>3, <1>k, <1>t
  <2>5. CallsArePlaced'
    BY <2>1, <2>2, <2>4, <1>i DEF CallsArePlaced
  <2>6. BannerIsOfACall' /\ CallsAreKnown'
    BY <2>1, <2>2, <2>4, <1>i DEF BannerIsOfACall, CallsAreKnown
  <2>7. Phone!HungUpIsOver'
    BY <2>1, <2>2, <2>3, <2>4, <1>i DEF Phone!HungUpIsOver
  <2>8. OneBanner'
    BY <2>2, <1>o DEF OneBanner
  <2>9. Phone!TypeOK'
    BY <1>y, <2>2, <2>3, <2>4, <2>8, <1>t
  <2>. QED
    BY <2>4, <2>5, <2>6, <2>7, <2>8, <2>9 DEF PhoneInv, CallInv
<1>e. ASSUME UNCHANGED <<phoneMounted, device, phoneNumbers, chosen, dial, dialTexts, dials>>, OneBanner',
             hanging' \subseteq Calls, ended' \subseteq Calls, call' \in [Calls -> Phone!Call],
             phoneFails' \in 0..MaxFails, phoneFails' >= phoneFails,
             \A c \in Calls : call[c].state \in {"live", "over"} => call'[c].state \in {"live", "over"},
             BannerIsOfACall', CallsAreKnown', Phone!HungUpIsOver'
      PROVE  PhoneInv'
  <2>1. DialInv'
    BY <1>e, <1>d, <1>t
  <2>2. CallsArePlaced'
    BY <1>e, <1>i, <1>r DEF CallsArePlaced
  <2>3. Phone!TypeOK'
    BY <1>e, <1>y, <1>t
  <2>. QED
    BY <1>e, <2>1, <2>2, <2>3 DEF PhoneInv, CallInv
<1>w. ASSUME NEW c \in Calls, NEW x \in {"inbound", "live", "over"}, call' = [call EXCEPT ![c].state = x]
      PROVE  /\ call' \in [Calls -> Phone!Call] /\ call'[c].state = x
             /\ \A d \in Calls : d # c => call'[d] = call[d]
             /\ \A d \in Calls : call[d].state # "none" => call'[d].state # "none"
             /\ call[c].state \in {"none", "inbound"} \/ x = "over" =>
                  \A d \in Calls : call[d].state \in {"live", "over"} => call'[d].state \in {"live", "over"}
             /\ phoneFails \in 0..MaxFails /\ phoneFails >= phoneFails
  <2>1. call'[c] = [call[c] EXCEPT !.state = x] /\ \A d \in Calls : d # c => call'[d] = call[d]
    BY <1>w, <1>t
  <2>2. call'[c] \in Phone!Call /\ call'[c].state = x
    BY <2>1, <1>s DEF Phone!Call
  <2>. QED
    BY <1>w, <2>1, <2>2, <1>t
<1>12. ASSUME NEW c \in Calls, Phone!CallComesIn(c) PROVE PhoneInv'
  <2>1. /\ call[c].state = "none" /\ call' = [call EXCEPT ![c].state = "inbound"]
        /\ UNCHANGED <<banner, hanging, phoneMounted, device, phoneNumbers, chosen, dial, dialTexts, dials,
                       ended, phoneFails>>
    BY <1>12 DEF Phone!CallComesIn, Phone!NoCall, Phone!page, Phone!typing
  <2>2. OneBanner' /\ BannerIsOfACall' /\ CallsAreKnown'
    BY <2>1, <1>w, <1>o, <1>i, <1>b, <1>t DEF OneBanner, BannerIsOfACall, CallsAreKnown
  <2>3. Phone!HungUpIsOver'
    BY <2>1, <1>w, <1>i, <1>t DEF CallsAreKnown, Phone!HungUpIsOver
  <2>. QED
    BY <2>1, <2>2, <2>3, <1>e, <1>w, <1>t
<1>13. ASSUME NEW c \in Calls, Phone!Incoming(c) PROVE PhoneInv'
  <2>1. /\ call[c].state = "inbound" /\ call' = [call EXCEPT ![c].state = "live"]
        /\ Phone!SetActiveCall(c, None)
        /\ UNCHANGED <<hanging, phoneMounted, device, phoneNumbers, chosen, dial, dialTexts, dials, ended,
                       phoneFails>>
    BY <1>13 DEF Phone!Incoming, Phone!page, Phone!typing
  <2>2. OneBanner' /\ \A b \in banner' : b.call = c /\ b.id = None
    BY <2>1, <1>v
  <2>3. \A i \in DOMAIN dials : dials[i].call # c
    BY <2>1, <1>i, <1>c DEF CallsArePlaced
  <2>4. BannerIsOfACall' /\ CallsAreKnown'
    BY <2>1, <2>2, <2>3, <1>w, <1>i, <1>t DEF BannerIsOfACall, CallsAreKnown
  <2>5. Phone!HungUpIsOver'
    BY <2>1, <2>3, <1>w, <1>i, <1>t DEF Phone!HungUpIsOver
  <2>. QED
    BY <2>1, <2>2, <2>4, <2>5, <1>e, <1>w, <1>t
<1>14. ASSUME NEW c \in Calls, Phone!OtherEnds(c) PROVE PhoneInv'
  <2>1. /\ call' = [call EXCEPT ![c].state = "over"]
        /\ UNCHANGED <<banner, hanging, phoneMounted, device, phoneNumbers, chosen, dial, dialTexts, dials,
                       ended, phoneFails>>
    BY <1>14 DEF Phone!OtherEnds, Phone!page, Phone!typing
  <2>2. OneBanner' /\ BannerIsOfACall' /\ CallsAreKnown'
    BY <2>1, <1>w, <1>o, <1>i, <1>b, <1>t DEF OneBanner, BannerIsOfACall, CallsAreKnown
  <2>3. Phone!HungUpIsOver'
    BY <2>1, <1>w, <1>i, <1>t DEF Phone!HungUpIsOver
  <2>. QED
    BY <2>1, <2>2, <2>3, <1>e, <1>w, <1>t
<1>15. CASE Phone!ToggleMuteOrHold
  <2>1. PICK b \in banner : Phone!Toggle(b)
    BY <1>15 DEF Phone!ToggleMuteOrHold
  <2>2. PICK d \in Phone!Banner : banner' = {d} /\ d.call = b.call /\ d.id = b.id
    <3>1. b \in Phone!Banner
      BY <2>1, <1>b
    <3>2. b.muted \in BOOLEAN /\ b.held \in BOOLEAN
      BY <3>1 DEF Phone!Banner
    <3>3. PICK m \in BOOLEAN, h \in BOOLEAN : m = ~b.muted /\ h = ~b.held
      BY <3>2
    <3>4. banner' = {[b EXCEPT !.muted = m]} \/ banner' = {[b EXCEPT !.held = h]}
      BY <2>1, <3>3 DEF Phone!Toggle
    <3>. QED
      <4>1. [b EXCEPT !.muted = m] \in Phone!Banner /\ [b EXCEPT !.held = h] \in Phone!Banner
        BY <3>1 DEF Phone!Banner
      <4>2. /\ [b EXCEPT !.muted = m].call = b.call /\ [b EXCEPT !.muted = m].id = b.id
            /\ [b EXCEPT !.held = h].call = b.call /\ [b EXCEPT !.held = h].id = b.id
        BY <3>1 DEF Phone!Banner
      <4>. QED
        BY <3>4, <4>1, <4>2
  <2>3. OneBanner' /\ BannerIsOfACall'
    BY <1>15, <2>1, <2>2, <1>i DEF Phone!ToggleMuteOrHold, OneBanner, BannerIsOfACall
  <2>4. CallsAreKnown' /\ Phone!HungUpIsOver'
    BY <1>15, <1>i DEF Phone!ToggleMuteOrHold, CallsAreKnown, Phone!HungUpIsOver
  <2>. QED
    BY <1>15, <2>3, <2>4, <1>e, <1>t DEF Phone!ToggleMuteOrHold, Phone!page, Phone!typing
<1>16. CASE Phone!Hangup
  <2>1. PICK b \in banner : b.id # None /\ hanging' = hanging \cup {b.id}
    BY <1>16 DEF Phone!Hangup
  <2>2. b.id \in Calls /\ call[b.id].state # "none"
    BY <2>1, <1>b, <1>i DEF BannerIsOfACall
  <2>3. OneBanner' /\ BannerIsOfACall' /\ CallsAreKnown' /\ Phone!HungUpIsOver'
    BY <1>16, <2>1, <2>2, <1>o, <1>i
    DEF Phone!Hangup, OneBanner, BannerIsOfACall, CallsAreKnown, Phone!HungUpIsOver
  <2>. QED
    BY <1>16, <2>1, <2>2, <2>3, <1>e, <1>t DEF Phone!Hangup, Phone!page, Phone!typing
<1>17. CASE Phone!HangupInbound
  <2>1. PICK b \in banner : b.id = None /\ ended' = ended \cup {b.call}
    BY <1>17 DEF Phone!HangupInbound
  <2>2. /\ b.call \in Calls /\ call[b.call].state # "none" /\ \A i \in DOMAIN dials : dials[i].call # b.call
        /\ banner' = {}
    BY <1>17, <2>1, <1>b, <1>i DEF BannerIsOfACall, Phone!HangupInbound, Phone!ClearCall, Phone!NoBanner
  <2>3. OneBanner' /\ BannerIsOfACall' /\ CallsAreKnown' /\ Phone!HungUpIsOver'
    BY <1>17, <2>1, <2>2, <1>o, <1>i
    DEF Phone!HangupInbound, OneBanner, BannerIsOfACall, CallsAreKnown, Phone!HungUpIsOver
  <2>. QED
    BY <1>17, <2>1, <2>2, <2>3, <1>e, <1>t DEF Phone!HangupInbound, Phone!page, Phone!typing
<1>18. ASSUME NEW c \in Calls, Phone!HangupDone(c) PROVE PhoneInv'
  <2>1. /\ hanging' = hanging \ {c} /\ call' = [call EXCEPT ![c].state = "over"] /\ banner' = {}
        /\ ended' = ended \cup {c}
        /\ UNCHANGED <<phoneMounted, device, phoneNumbers, chosen, dial, dialTexts, dials, phoneFails>>
    BY <1>18 DEF Phone!HangupDone, Phone!ClearCall, Phone!NoBanner, Phone!page, Phone!typing
  <2>2. OneBanner' /\ BannerIsOfACall' /\ CallsAreKnown'
    BY <2>1, <1>w, <1>i, <1>t DEF OneBanner, BannerIsOfACall, CallsAreKnown
  <2>3. Phone!HungUpIsOver'
    BY <2>1, <1>w, <1>i, <1>t DEF Phone!HungUpIsOver
  <2>. QED
    BY <2>1, <2>2, <2>3, <1>e, <1>w, <1>t
<1>19. ASSUME NEW c \in Calls, Phone!HangupFailed(c) PROVE PhoneInv'
  <2>1. /\ c \in hanging /\ hanging' = hanging \ {c} /\ banner' = {} /\ ended' = ended \cup {c}
        /\ phoneFails < MaxFails /\ phoneFails' = phoneFails + 1
        /\ UNCHANGED <<call, phoneMounted, device, phoneNumbers, chosen, dial, dialTexts, dials>>
    BY <1>19 DEF Phone!HangupFailed, Phone!ClearCall, Phone!NoBanner, Phone!page, Phone!typing
  <2>2. phoneFails' \in 0..MaxFails /\ phoneFails' # 0 /\ phoneFails' >= phoneFails
    BY <2>1, <1>t, <1>c
  <2>3. OneBanner' /\ BannerIsOfACall' /\ CallsAreKnown' /\ Phone!HungUpIsOver'
    BY <2>1, <2>2, <1>i, <1>t DEF OneBanner, BannerIsOfACall, CallsAreKnown, Phone!HungUpIsOver
  <2>. QED
    BY <2>1, <2>2, <2>3, <1>e, <1>t
<1>20. CASE UNCHANGED phoneVars
  BY <1>20, <1>p, <1>t DEF phoneVars
<1>. QED
  BY <1>1, <1>2, <1>3, <1>4, <1>5, <1>6, <1>7, <1>8, <1>9, <1>10, <1>11, <1>12, <1>13, <1>14, <1>15, <1>16,
     <1>17, <1>18, <1>19, <1>20 DEF Phone!Next

(* A number is dialled once and a call hung up is over, in every state. *)
LEMMA PhoneAlways == AllSpec => [](Phone!TypeOK /\ Phone!DialledOnce /\ Phone!HungUpIsOver)
<1>1. ASSUME AllInit PROVE PhoneInv
  <2>1. /\ dials = <<>> /\ Len(dials) = 0 /\ dials \in Seq(Phone!Dial) /\ DOMAIN dials = {}
        /\ call = [c \in Calls |-> Phone!NoCall] /\ banner = {} /\ hanging = {} /\ ended = {}
        /\ phoneMounted = FALSE /\ device = FALSE /\ phoneNumbers = {} /\ chosen = None
        /\ dial = 0 /\ dialTexts = 0 /\ phoneFails = 0
    BY <1>1 DEF AllInit, Phone!Init, Phone!NoBanner
  <2>2. /\ 0 \in 0..MaxTexts /\ 0 \in 0..MaxFails /\ Len(dials) <= MaxDials
    BY <2>1, PhoneConstants
  <2>3. call \in [Calls -> Phone!Call]
    BY <2>1 DEF Phone!NoCall, Phone!Call
  <2>4. Phone!Cardinality({}) = 0
    <3>1. \A S : Phone!Cardinality(S) = Cardinality(S)
      BY Zenon DEF Phone!Cardinality, Cardinality, Phone!IsFiniteSet, IsFiniteSet
    <3>. QED
      BY <3>1, FS_EmptySet
  <2>5. Phone!TypeOK
    <3>1. Phone!Cardinality(banner) <= 1
      BY <2>1, <2>4
    <3>. QED
      BY <2>1, <2>2, <2>3, <3>1 DEF Phone!TypeOK
  <2>. QED
    BY <2>1, <2>5
    DEF PhoneInv, OneBanner, DialInv, DialsFollow, TextsAreNew, PendingAsLongAsTyped, FirstHadNoNumber, CallInv,
        CallsArePlaced, BannerIsOfACall, CallsAreKnown, Phone!HungUpIsOver
<1>2. PhoneInv /\ [AllNext]_allVars => PhoneInv'
  BY PhoneStep, AllMovesPhone
<1>3. PhoneInv => Phone!TypeOK /\ Phone!DialledOnce /\ Phone!HungUpIsOver
  BY DialledAtMostOnce DEF PhoneInv, CallInv
<1>. QED
  BY <1>1, <1>2, <1>3, PTL DEF AllSpec

(* A step of the suite is one of the contacts page, or leaves it alone. *)
LEMMA AllMovesCards == [AllNext]_allVars => [Cards!Next]_cardVars
BY DEF AllNext, allVars

(* What the suite assumes of the constants of the contacts page. *)
LEMMA CardConstants == None \notin Contacts \cup Texts /\ MaxOffline \in Nat /\ MaxLost \in Nat
BY BrowserAssumption DEF Cards!ContactsPageAssumption

(* The inductive invariant of the contacts page: a request whose target is *)
(* not what was meant when it was made was held back offline, and Resume   *)
(* took the target of the page as it was by then.                          *)
CardInv ==
    /\ ~online \/ mutation.state = "paused" => offline > 0
    /\ mutation.state = "sent" /\ mutation.target # mutation.meant => offline > 0
    /\ Cards!HeldBackOnly

(* A step of the contacts page keeps its types and the invariant. *)
LEMMA CardStep ==
    ASSUME Cards!TypeOK, CardInv, [Cards!Next]_cardVars PROVE Cards!TypeOK' /\ CardInv'
<1>c. None \notin Contacts \cup Texts /\ MaxOffline \in Nat /\ MaxLost \in Nat
  BY CardConstants
<1>t. /\ row \in [Contacts -> Texts \cup {None}]
      /\ form \in Cards!Form /\ editing \in Contacts \cup {None} /\ mutation \in Cards!Mutation
      /\ deleting \subseteq Contacts /\ bulk \subseteq Contacts /\ ticked \subseteq Contacts
      /\ online \in BOOLEAN /\ offline \in 0..MaxOffline /\ lost \in 0..MaxLost
      /\ overwritten \subseteq Contacts
  BY DEF Cards!TypeOK
<1>i. /\ ~online \/ mutation.state = "paused" => offline > 0
      /\ mutation.state = "sent" /\ mutation.target # mutation.meant => offline > 0
      /\ overwritten # {} => offline > 0
  BY DEF CardInv, Cards!HeldBackOnly
<1>n. Cards!NoMutation \in Cards!Mutation /\ Cards!NoMutation.state = "idle"
  BY DEF Cards!NoMutation, Cards!Mutation, Cards!Empty, Cards!Values
<1>m. ASSUME UNCHANGED <<editing, deleting, bulk, ticked, online, offline>>,
             form' \in Cards!Form, row' \in [Contacts -> Texts \cup {None}], lost' \in 0..MaxLost,
             mutation' \in Cards!Mutation, overwritten' \subseteq Contacts,
             mutation'.state = "paused" => offline > 0,
             mutation'.state = "sent" /\ mutation'.target # mutation'.meant => offline > 0,
             overwritten' # {} => offline > 0
      PROVE  Cards!TypeOK' /\ CardInv'
  BY <1>m, <1>t, <1>i DEF Cards!TypeOK, CardInv, Cards!HeldBackOnly
<1>p. ASSUME UNCHANGED <<mutation, online, offline, lost, overwritten>>,
             row' \in [Contacts -> Texts \cup {None}],
             form' \in Cards!Form, editing' \in Contacts \cup {None}, deleting' \subseteq Contacts,
             bulk' \subseteq Contacts, ticked' \subseteq Contacts
      PROVE  Cards!TypeOK' /\ CardInv'
  BY <1>p, <1>t, <1>i DEF Cards!TypeOK, CardInv, Cards!HeldBackOnly
<1>l. Cards!Live \subseteq Contacts /\ None \notin Cards!Live
  BY <1>c DEF Cards!Live
<1>1. CASE Cards!OpenCreate
  BY <1>1, <1>p, <1>t DEF Cards!OpenCreate, Cards!Form, Cards!Empty, Cards!Values, Cards!network
<1>2. CASE Cards!Close
  BY <1>2, <1>p, <1>t DEF Cards!Close, Cards!Form, Cards!network
<1>3. CASE Cards!Submit
  <2>1. form.values \in Cards!Values
    BY <1>t DEF Cards!Form
  <2>. QED
    BY <1>3, <2>1, <1>m, <1>t, <1>i DEF Cards!Submit, Cards!Submitted, Cards!Mutation, Cards!network
<1>4. CASE Cards!Resume
  BY <1>4, <1>m, <1>t, <1>i DEF Cards!Resume, Cards!Mutation, Cards!network
<1>5. CASE Cards!Update
  <2>1. mutation.values.text \in Texts \cup {None} /\ mutation.target \in Contacts
    BY <1>5, <1>t, <1>l DEF Cards!Update, Cards!Mutation, Cards!Values
  <2>2. row' \in [Contacts -> Texts \cup {None}]
    BY <1>5, <2>1, <1>t DEF Cards!Update
  <2>3. mutation' \in Cards!Mutation /\ mutation'.state = "taken"
    BY <1>5, <1>t DEF Cards!Update, Cards!Mutation
  <2>4. overwritten' \subseteq Contacts /\ (overwritten' # {} => offline > 0)
    BY <1>5, <2>1, <1>t, <1>i, <1>c DEF Cards!Update
  <2>. QED
    BY <1>5, <2>2, <2>3, <2>4, <1>m, <1>t DEF Cards!Update, Cards!network
<1>6. CASE Cards!Refuse
  BY <1>6, <1>m, <1>t, <1>i DEF Cards!Refuse, Cards!Mutation, Cards!network
<1>7. CASE Cards!Succeeded
  <2>1. form' \in Cards!Form
    BY <1>7, <1>t DEF Cards!Succeeded, Cards!Form
  <2>. QED
    BY <1>7, <2>1, <1>n, <1>t, <1>i
    DEF Cards!Succeeded, Cards!network, Cards!TypeOK, CardInv, Cards!HeldBackOnly
<1>8. CASE Cards!Failed
  BY <1>8, <1>m, <1>n, <1>t, <1>i DEF Cards!Failed, Cards!network
<1>9. CASE Cards!Lose
  BY <1>9, <1>m, <1>n, <1>t, <1>i, <1>c DEF Cards!Lose
<1>10. CASE Cards!SelectAll
  BY <1>10, <1>p, <1>t, <1>l DEF Cards!SelectAll, Cards!network
<1>11. CASE Cards!BulkDelete
  BY <1>11, <1>p, <1>t DEF Cards!BulkDelete, Cards!network
<1>12. CASE Cards!BulkDeleted
  BY <1>12, <1>p, <1>t DEF Cards!BulkDeleted, Cards!network
<1>13. CASE Cards!GoOffline
  <2>1. offline' \in 0..MaxOffline /\ offline' > 0 /\ online' = FALSE
    BY <1>13, <1>t, <1>c DEF Cards!GoOffline
  <2>. QED
    BY <1>13, <2>1, <1>t DEF Cards!GoOffline, Cards!TypeOK, CardInv, Cards!HeldBackOnly
<1>14. CASE Cards!GoOnline
  BY <1>14, <1>t, <1>i DEF Cards!GoOnline, Cards!TypeOK, CardInv, Cards!HeldBackOnly
<1>15. ASSUME NEW c \in Contacts, Cards!OpenEdit(c) PROVE Cards!TypeOK' /\ CardInv'
  BY <1>15, <1>p, <1>t DEF Cards!OpenEdit, Cards!Form, Cards!Values, Cards!network
<1>16. ASSUME NEW c \in Contacts, Cards!Create(c) PROVE Cards!TypeOK' /\ CardInv'
  <2>1. mutation.values.text \in Texts \cup {None}
    BY <1>t DEF Cards!Mutation, Cards!Values
  <2>2. row' \in [Contacts -> Texts \cup {None}] /\ mutation' \in Cards!Mutation /\ mutation'.state = "taken"
    BY <1>16, <2>1, <1>t DEF Cards!Create, Cards!Mutation
  <2>. QED
    BY <1>16, <2>2, <1>m, <1>t, <1>i DEF Cards!Create, Cards!network
<1>17. ASSUME NEW c \in Contacts, Cards!Delete(c) PROVE Cards!TypeOK' /\ CardInv'
  BY <1>17, <1>p, <1>t DEF Cards!Delete, Cards!network
<1>18. ASSUME NEW c \in Contacts, Cards!Deleted(c) PROVE Cards!TypeOK' /\ CardInv'
  BY <1>18, <1>p, <1>t DEF Cards!Deleted, Cards!network
<1>19. ASSUME NEW c \in Contacts, Cards!Select(c) PROVE Cards!TypeOK' /\ CardInv'
  BY <1>19, <1>p, <1>t DEF Cards!Select, Cards!network
<1>20. ASSUME NEW t \in Texts, NEW e \in BOOLEAN, Cards!Type(t, e) PROVE Cards!TypeOK' /\ CardInv'
  BY <1>20, <1>p, <1>t DEF Cards!Type, Cards!Form, Cards!Values, Cards!network
<1>21. CASE UNCHANGED cardVars
  BY <1>21, <1>p, <1>t DEF cardVars
<1>. QED
  BY <1>1, <1>2, <1>3, <1>4, <1>5, <1>6, <1>7, <1>8, <1>9, <1>10, <1>11, <1>12, <1>13, <1>14, <1>15, <1>16,
     <1>17, <1>18, <1>19, <1>20, <1>21 DEF Cards!Next

(* They hold in every state. *)
LEMMA CardsAlways == AllSpec => [](Cards!TypeOK /\ Cards!HeldBackOnly)
<1>1. ASSUME AllInit PROVE Cards!TypeOK /\ CardInv
  <2>1. 0 \in 0..MaxOffline /\ 0 \in 0..MaxLost
    BY CardConstants
  <2>. QED
    BY <1>1, <2>1 DEF AllInit, Cards!Init, Cards!TypeOK, CardInv, Cards!HeldBackOnly, Cards!Form, Cards!Empty,
       Cards!Values, Cards!NoMutation, Cards!Mutation
<1>2. Cards!TypeOK /\ CardInv /\ [AllNext]_allVars => Cards!TypeOK' /\ CardInv'
  BY CardStep, AllMovesCards
<1>3. CardInv => Cards!HeldBackOnly
  BY DEF CardInv
<1>. QED
  BY <1>1, <1>2, <1>3, PTL DEF AllSpec

(* A step of the suite is one of the forms, or leaves it alone. *)
LEMMA AllMovesEntry == [AllNext]_allVars => [Entry!Next]_entryVars
BY DEF AllNext, allVars

(* What the suite assumes of the constants of the forms module. *)
LEMMA FormConstants == Forms \subseteq DOMAIN Entry!Page /\ MaxTyped \in Nat
BY BrowserAssumption DEF Entry!FormAssumption

(* The forms that are named. *)
Disagreeing == {"register", "invite", "profile", "password", "campaign"}

(* The pages with a form. *)
LEMMA PagesAre ==
    DOMAIN Entry!Page = {"login", "register", "forgot", "setup", "invite", "profile", "password",
                         "webhook", "apiKey", "twilio", "organization", "campaign"}
BY DEF Entry!Page

(* Whatever is left blank on any other form, the pipe takes what it sends: *)
(* its fields are all in the DTO, and none that it leaves blank must not   *)
(* be.                                                                     *)
LEMMA TheOthersFit ==
    ASSUME NEW f \in Forms, f \notin Disagreeing, NEW blank PROVE Entry!Fits(f, blank)
<1>1. f \in {"login", "forgot", "setup", "webhook", "apiKey", "twilio", "organization"}
  BY PagesAre, FormConstants DEF Disagreeing
<1>2. Entry!NotBlank(f) = {}
  BY <1>1 DEF Entry!NotBlank
<1>3. Entry!Sends(f) \subseteq Entry!Takes[f]
  <2>1. CASE f = "login"
    BY <2>1 DEF Entry!Sends, Entry!Page, Entry!Takes, Entry!LoginPage, Entry!LoginDto
  <2>2. CASE f = "forgot"
    BY <2>2 DEF Entry!Sends, Entry!Page, Entry!Takes, Entry!ForgotPasswordPage, Entry!ForgotPasswordDto
  <2>3. CASE f = "setup"
    BY <2>3 DEF Entry!Sends, Entry!Page, Entry!Takes, Entry!SetupPage, Entry!SetupDto
  <2>4. CASE f = "webhook"
    BY <2>4 DEF Entry!Sends, Entry!Page, Entry!Takes, Entry!WebhooksPage, Entry!CreateWebhookDto
  <2>5. CASE f = "twilio"
    BY <2>5 DEF Entry!Sends, Entry!Page, Entry!Takes, Entry!TwilioSettingsPage, Entry!SaveCredentialsDto
  <2>6. CASE f \in {"apiKey", "organization"}
    BY <2>6 DEF Entry!Takes
  <2>. QED
    BY <1>1, <2>1, <2>2, <2>3, <2>4, <2>5, <2>6
<1>. QED
  BY <1>2, <1>3 DEF Entry!Fits

(* What can be left blank is sent. *)
LEMMA BlanksAreSent ==
    ASSUME NEW f \in Forms
    PROVE  Entry!Page[f].optional \subseteq Entry!Sends(f) /\ Entry!LeftBlank(f) \subseteq Entry!Sends(f)
<1>1. Entry!Page[f].optional \subseteq Entry!Sends(f)
  BY DEF Entry!Sends
<1>2. f = "twilio" => {"authToken", "twimlAppSid"} \subseteq Entry!Sends(f)
  BY DEF Entry!Sends, Entry!Page, Entry!TwilioSettingsPage
<1>. QED
  BY <1>1, <1>2 DEF Entry!LeftBlank

(* The inductive invariant of the forms is what the suite checks, with the *)
(* types: a request is bad only on a page that is named.                   *)
EntryInv == Entry!TypeOK /\ Entry!OnlyTheseDisagree

(* A step of the forms module keeps it. *)
LEMMA EntryStep == ASSUME EntryInv, [Entry!Next]_entryVars PROVE EntryInv'
<1>t. /\ page \in Forms /\ filled \in Entry!Form /\ submitted \in Entry!Request
      /\ submitted.state # "idle" => submitted.text # 0
      /\ submitted.state = "bad" => page \in Disagreeing
  BY DEF EntryInv, Entry!TypeOK, Entry!OnlyTheseDisagree, Disagreeing
<1>m. MaxTyped \in Nat
  BY FormConstants
<1>n. Entry!NoRequest \in Entry!Request /\ Entry!NoRequest.state = "idle"
  BY <1>m DEF Entry!NoRequest, Entry!Request
<1>f. /\ filled.open \in BOOLEAN /\ filled.text \in 0..MaxTyped /\ filled.last \in 0..MaxTyped
      /\ filled.blank \subseteq UNION {Entry!Sends(f) : f \in Forms}
  BY <1>t DEF Entry!Form
<1>g. ASSUME UNCHANGED page, filled' \in Entry!Form, submitted' \in Entry!Request,
             submitted'.state # "idle" => submitted'.text # 0,
             submitted'.state = "bad" => page \in Disagreeing
      PROVE  EntryInv'
  BY <1>g, <1>t DEF EntryInv, Entry!TypeOK, Entry!OnlyTheseDisagree, Disagreeing
<1>1. CASE Entry!Open
  BY <1>1, <1>g, <1>t DEF Entry!Open, Entry!Form
<1>2. CASE Entry!Close
  BY <1>2, <1>g, <1>t DEF Entry!Close, Entry!Form
<1>3. CASE Entry!Leave
  <2>1. filled' \in Entry!Form
    <3>1. filled' = [open |-> FALSE, text |-> 0, last |-> filled.last, blank |-> {}]
      BY <1>3 DEF Entry!Leave, Entry!Fresh
    <3>. QED
      BY <3>1, <1>f, <1>m DEF Entry!Form
  <2>2. /\ submitted' \in Entry!Request
        /\ submitted'.state = submitted.state /\ submitted'.text = submitted.text
    BY <1>3, <1>t DEF Entry!Leave, Entry!Request
  <2>. QED
    BY <1>3, <2>1, <2>2, <1>g, <1>t, <1>f DEF Entry!Leave
<1>4. CASE Entry!Type
  <2>1. PICK blank \in {{}, Entry!Page[page].optional, Entry!LeftBlank(page)} :
             filled' = [filled EXCEPT !.text = filled.last + 1, !.last = @ + 1, !.blank = blank]
    BY <1>4 DEF Entry!Type
  <2>2. blank \subseteq UNION {Entry!Sends(f) : f \in Forms}
    BY <1>t, BlanksAreSent
  <2>3. filled.last + 1 \in 0..MaxTyped
    BY <1>4, <1>f, <1>m DEF Entry!Type
  <2>4. filled' \in Entry!Form
    BY <2>1, <2>2, <2>3, <1>t, <1>f DEF Entry!Form
  <2>. QED
    BY <1>4, <2>3, <2>4, <1>g, <1>t, <1>f DEF Entry!Type, Entry!Form
<1>5. CASE Entry!Submit
  <2>1. ~Entry!Fits(page, filled.blank) => page \in Disagreeing
    BY <1>t, TheOthersFit
  <2>. QED
    BY <1>5, <2>1, <1>g, <1>t, <1>f DEF Entry!Submit, Entry!Ready, Entry!Request
<1>6. CASE Entry!Take
  BY <1>6, <1>g, <1>t DEF Entry!Take, Entry!Request
<1>7. CASE Entry!Decline
  BY <1>7, <1>g, <1>t DEF Entry!Decline, Entry!Request
<1>8. CASE Entry!Succeeded
  <2>1. CASE submitted.watched
    <3>1. filled' = [filled EXCEPT !.open = @ /\ ~Entry!Page[page].window,
                                   !.text = IF Entry!Page[page].clears THEN 0 ELSE @]
      BY <1>8, <2>1 DEF Entry!Succeeded
    <3>2. PICK k \in 0..MaxTyped : k = IF Entry!Page[page].clears THEN 0 ELSE filled.text
      BY <1>f, <1>m
    <3>4. PICK b \in BOOLEAN : b = (filled.open /\ ~Entry!Page[page].window)
      BY <1>f
    <3>5. filled' = [open |-> b, text |-> k, last |-> filled.last, blank |-> filled.blank]
      BY <3>1, <3>2, <3>4, <1>t DEF Entry!Form
    <3>3. filled' \in Entry!Form
      BY <3>5, <1>f DEF Entry!Form
    <3>. QED
      BY <1>8, <3>3, <1>g, <1>n DEF Entry!Succeeded
  <2>2. CASE ~submitted.watched
    BY <1>8, <2>2, <1>g, <1>n, <1>t DEF Entry!Succeeded
  <2>. QED
    BY <2>1, <2>2
<1>9. CASE Entry!Failed
  BY <1>9, <1>g, <1>n, <1>t DEF Entry!Failed
<1>10. CASE UNCHANGED entryVars
  BY <1>10, <1>g, <1>t DEF entryVars
<1>. QED
  BY <1>1, <1>2, <1>3, <1>4, <1>5, <1>6, <1>7, <1>8, <1>9, <1>10 DEF Entry!Next

(* It holds in every state. *)
LEMMA EntryAlways == AllSpec => []EntryInv
<1>1. ASSUME AllInit PROVE EntryInv
  BY <1>1, FormConstants
  DEF AllInit, Entry!Init, EntryInv, Entry!TypeOK, Entry!OnlyTheseDisagree, Entry!Fresh, Entry!NoRequest,
      Entry!Form, Entry!Request
<1>2. EntryInv /\ [AllNext]_allVars => EntryInv'
  BY EntryStep, AllMovesEntry
<1>. QED
  BY <1>1, <1>2, PTL DEF AllSpec

(* For any number of tabs and of requests in them, no request waits for a  *)
(* refresh that is over, and no tab behind whose back nothing happened is  *)
(* sent to the login but for a login refused or a logout (the response     *)
(* interceptor of src/apps/web/src/lib/api.ts, useAuthStore).              *)
THEOREM TabsAlwaysKeepTheirSession == AllSpec => []TabsKeepTheirSession
<1>1. WaitersAreServed /\ KickedOutForAReason => TabsKeepTheirSession
  BY DEF TabsKeepTheirSession
<1>. QED
  BY <1>1, WebAlways, PTL

(* Through every change of token, session and socket an event is shown     *)
(* once, and to another organisation only after a logout in the same page  *)
(* load (useSocket, EventsGateway).                                        *)
THEOREM EventsAlwaysFindTheirUser == AllSpec => []EventsFindTheirUser
<1>1. SocketInv => EventsFindTheirUser
  BY DEF SocketInv, EventsFindTheirUser
<1>. QED
  BY <1>1, SocketsAlways, PTL

(* A list of messages at rest has every message the browser was told of,   *)
(* whatever was being fetched when it came (the inbox page and TanStack    *)
(* Query).                                                                 *)
THEOREM ToldAreAlwaysListed == AllSpec => []ToldAreListed
<1>1. Messages!ToldAreListed => ToldAreListed
  BY DEF ToldAreListed
<1>. QED
  BY <1>1, MessagesAlways, PTL

(* With no failure, a number typed once is called once, and who was told   *)
(* that a call he had made is over has no such call (the softphone of      *)
(* src/apps/web).                                                          *)
THEOREM CallsAreAlwaysWhatTheBannerSays == AllSpec => []CallsAreWhatTheBannerSays
<1>1. Phone!DialledOnce /\ Phone!HungUpIsOver => CallsAreWhatTheBannerSays
  BY DEF CallsAreWhatTheBannerSays
<1>. QED
  BY <1>1, PhoneAlways, PTL

(* What was typed for a new contact overwrites another only if the request *)
(* was held back offline (the contacts page).                              *)
THEOREM HeldBackAlwaysOnly == AllSpec => []HeldBackOnly
<1>1. Cards!HeldBackOnly => HeldBackOnly
  BY DEF HeldBackOnly
<1>. QED
  BY <1>1, CardsAlways, PTL

(* Every form but the five that are named sends what its DTO takes,        *)
(* whichever of its optional fields are left blank and however often it is *)
(* edited and sent (the pages of src/apps/web and the DTOs of              *)
(* src/apps/api).                                                          *)
THEOREM OnlyTheseEverDisagree == AllSpec => []OnlyTheseDisagree
<1>1. EntryInv => OnlyTheseDisagree
  BY DEF EntryInv, OnlyTheseDisagree
<1>. QED
  BY <1>1, EntryAlways, PTL

(* The types of the part that runs hold in every state. *)
THEOREM BrowserTypes == AllSpec => []AllTypeOK
<1>1. AllInit => part \in Parts
  BY DEF AllInit
<1>2. part \in Parts /\ [AllNext]_allVars => (part \in Parts)'
  BY DEF AllNext, allVars
<1>3. /\ part \in Parts
      /\ TypeOK /\ SocketInv /\ Phone!TypeOK /\ Cards!TypeOK /\ EntryInv /\ Messages!TypeOK
      => AllTypeOK
  BY BrowserAssumption DEF AllTypeOK, SocketInv, EntryInv
<1>. QED
  BY <1>1, <1>2, <1>3, WebAlways, SocketsAlways, PhoneAlways, CardsAlways, EntryAlways, MessagesAlways, PTL
  DEF AllSpec
================================================================================
