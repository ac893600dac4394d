--------------------------------- MODULE Live ---------------------------------
(***************************************************************************)
(* Events in real time, from the gateway's rooms to a tab: the socket that *)
(* useWebSocket keeps outside of React, the listeners that come and go     *)
(* with the access token and with the dashboard, and the sessions that     *)
(* follow each other in one page load.                                     *)
(***************************************************************************)
EXTENDS Integers, Sequences, FiniteSets

CONSTANTS Users, Orgs,
          OrgOf,        \* function: the organisation in the token of a user
          None,
          MaxTokens,    \* bound: access tokens the tab comes by
          MaxSockets,   \* bound: sockets it opens
          MaxEvents     \* bound: events shown

LiveAssumption ==
    /\ OrgOf \in [Users -> Orgs] /\ None \notin Users
    /\ MaxTokens \in Nat /\ MaxSockets \in Nat /\ MaxEvents \in Nat

VARIABLES
    owner,    \* of each access token so far, its user
    expired,  \* access tokens past their fifteen minutes
    stored,   \* the token of the store, 0 when signed out
    mounted,  \* whether the layout of the dashboard is
    effect,   \* the token the effect of the hook last ran for, 0 if it is cleaned up
    socket,   \* the sockets of this page load, the last one globalSocket
    inactive, \* users deactivated
    pushed,   \* history: whether this page load has seen a logout
    shown     \* history: events shown, with who was signed in

vars == <<owner, expired, stored, mounted, effect, socket, inactive, pushed, shown>>

-----------------------------------------------------------------------------

Tokens == DOMAIN owner

Stages == {"connecting", "connected", "dropped", "closed"}

Socket == [token : 1..MaxTokens, stage : Stages, listeners : 0..MaxTokens]

Shown == [user : Users, org : Orgs, active : BOOLEAN, times : 1..MaxTokens * MaxSockets, pushed : BOOLEAN]

TypeOK ==
    /\ owner \in Seq(Users) /\ Len(owner) <= MaxTokens
    /\ expired \subseteq Tokens /\ inactive \subseteq Users
    /\ stored \in 0..Len(owner) /\ effect \in 0..Len(owner)
    /\ mounted \in BOOLEAN /\ pushed \in BOOLEAN
    /\ socket \in Seq(Socket) /\ Len(socket) <= MaxSockets
    /\ shown \in Seq(Shown) /\ Len(shown) <= MaxEvents

Init ==
    /\ owner = <<>> /\ expired = {} /\ inactive = {}
    /\ stored = 0 /\ mounted = FALSE /\ effect = 0
    /\ socket = <<>> /\ pushed = FALSE /\ shown = <<>>

Last == Len(socket)

(* socket.disconnected is true of a socket that is still connecting. *)
Disconnected == socket = <<>> \/ socket[Last].stage # "connected"

(* Mutant: the cleanup takes nothing off. *)
Kept(ss) == ss

(* The cleanup of the effect takes every listener off the socket it was    *)
(* for, which had them.                                                    *)
Off(ss) == [i \in DOMAIN ss |-> [ss[i] EXCEPT !.listeners = 0]]

On(ss) == [ss EXCEPT ![Len(ss)].listeners = @ + 1]

-----------------------------------------------------------------------------
(* The session.                                                            *)

(* The form of login puts the user and the tokens into the store and       *)
(* pushes the dashboard, in the same page load.                            *)
Login(u) ==
    /\ stored = 0 /\ ~mounted /\ u \notin inactive
    /\ Len(owner) < MaxTokens
    /\ owner' = Append(owner, u)
    /\ stored' = Len(owner')
    /\ mounted' = TRUE
    /\ UNCHANGED <<expired, effect, socket, inactive, pushed, shown>>

(* A request meets a 401, and the interceptor has the pair replaced. *)
Refresh ==
    /\ stored # 0 /\ stored \in expired /\ owner[stored] \notin inactive
    /\ Len(owner) < MaxTokens
    /\ owner' = Append(owner, owner[stored])
    /\ stored' = Len(owner')
    /\ UNCHANGED <<expired, mounted, effect, socket, inactive, pushed, shown>>

(* The refresh is refused: /login is loaded anew, and with it the hook. *)
Refused ==
    /\ stored # 0 /\ (stored \in expired \/ owner[stored] \in inactive)
    /\ stored' = 0 /\ mounted' = FALSE /\ effect' = 0
    /\ socket' = <<>> /\ pushed' = FALSE
    /\ UNCHANGED <<owner, expired, inactive, shown>>

(* handleLogout: the store is emptied, and /login pushed. *)
Logout ==
    /\ stored # 0 /\ mounted
    /\ stored' = 0
    /\ pushed' = TRUE
    /\ UNCHANGED <<owner, expired, mounted, effect, socket, inactive, shown>>

Expire(t) ==
    /\ t \in Tokens \ expired
    /\ expired' = expired \cup {t}
    /\ UNCHANGED <<owner, stored, mounted, effect, socket, inactive, pushed, shown>>

Deactivate(u) ==
    /\ u \notin inactive
    /\ inactive' = inactive \cup {u}
    /\ UNCHANGED <<owner, expired, stored, mounted, effect, socket, pushed, shown>>

-----------------------------------------------------------------------------
(* The hook.                                                               *)

(* The layout goes; its cleanup runs. *)
Unmount ==
    /\ mounted /\ stored = 0
    /\ mounted' = FALSE
    /\ effect' = 0
    /\ socket' = Off(socket)
    /\ UNCHANGED <<owner, expired, stored, inactive, pushed, shown>>

(* accessToken has changed: the cleanup of the last effect, then the next, *)
(* which opens a socket unless the one there is connected.                 *)
RunEffect ==
    /\ mounted /\ effect # stored
    /\ effect' = stored
    /\ LET off == IF effect = 0 THEN socket ELSE Off(socket)
       IN  IF stored = 0 THEN socket' = off
           ELSE IF Disconnected
           THEN /\ Last < MaxSockets
                /\ socket' = On(Append(off, [token |-> stored, stage |-> "connecting", listeners |-> 0]))
           ELSE socket' = On(off)
    /\ UNCHANGED <<owner, expired, stored, mounted, inactive, pushed, shown>>

(* handleConnection verifies the token and nothing else; a socket the      *)
(* server disconnects does not try again.                                  *)
Connect(i) ==
    /\ socket[i].stage \in {"connecting", "dropped"}
    /\ socket' = [socket EXCEPT ![i].stage =
                    IF socket[i].token \in expired THEN "closed" ELSE "connected"]
    /\ UNCHANGED <<owner, expired, stored, mounted, effect, inactive, pushed, shown>>

(* The API restarts, or the network goes. *)
Drop(i) ==
    /\ socket[i].stage = "connected"
    /\ socket' = [socket EXCEPT ![i].stage = "dropped"]
    /\ UNCHANGED <<owner, expired, stored, mounted, effect, inactive, pushed, shown>>

(* reconnectionAttempts are used up. *)
GiveUp(i) ==
    /\ socket[i].stage \in {"connecting", "dropped"}
    /\ socket' = [socket EXCEPT ![i].stage = "closed"]
    /\ UNCHANGED <<owner, expired, stored, mounted, effect, inactive, pushed, shown>>

(* emitToOrg reaches every socket in the room of the organisation, which   *)
(* it joined by the token it connected with, and every listener on it.     *)
InRoom(o) == {i \in DOMAIN socket : socket[i].stage = "connected" /\ OrgOf[owner[socket[i].token]] = o}

Heard(o) == Cardinality(UNION {{i} \X (1..socket[i].listeners) : i \in InRoom(o)})

EmitToOrg(o) ==
    /\ Len(shown) < MaxEvents
    /\ stored # 0 /\ mounted
    /\ Heard(o) > 0
    /\ shown' = Append(shown, [user |-> owner[stored], org |-> o, times |-> Heard(o),
                               active |-> owner[stored] \notin inactive, pushed |-> pushed])
    /\ UNCHANGED <<owner, expired, stored, mounted, effect, socket, inactive, pushed>>

-----------------------------------------------------------------------------

Next ==
    \/ \E u \in Users : Login(u) \/ Deactivate(u)
    \/ \E t \in Tokens : Expire(t)
    \/ \E i \in DOMAIN socket : Connect(i) \/ Drop(i) \/ GiveUp(i)
    \/ \E o \in Orgs : EmitToOrg(o)
    \/ Refresh \/ Refused \/ Logout \/ Unmount \/ RunEffect

Spec == Init /\ [][Next]_vars

-----------------------------------------------------------------------------

(* Through every change of token, of session and of socket an event is     *)
(* shown once.                                                             *)
EachShownOnce == \A n \in DOMAIN shown : shown[n].times = 1

(* Who is shown an event of another organisation has followed a logout in  *)
(* the same page load.                                                     *)
OwnEventsUntilLogout ==
    \A n \in DOMAIN shown : shown[n].org = OrgOf[shown[n].user] \/ shown[n].pushed
=============================================================================
