------------------------------ MODULE AuthSession ------------------------------
(***************************************************************************)
(* One account of src/apps/api and the requests that read and write it:    *)
(* AuthService (login, refresh, logout, the password and the 2FA           *)
(* requests), and UsersService.update, activate and deactivate.  A request *)
(* is cut at every await: what it read may be old when it writes.          *)
(***************************************************************************)
EXTENDS Integers, FiniteSets

CONSTANTS Clients,    \* requests under way at a time
          Together,   \* bound: the kinds of request that run beside others
          Passwords,
          NoToken, NoSecret,
          MaxSecond,  \* bound: seconds that pass
          MaxSecret   \* bound: 2FA secrets generated

AllKinds == {"login", "refresh", "logout", "forgotPassword", "resetPassword", "changePassword",
             "setup2FA", "enable2FA", "disable2FA", "update", "deactivate", "activate"}

AuthAssumption ==
    /\ Together \subseteq AllKinds
    /\ MaxSecond \in Nat \ {0} /\ MaxSecret \in Nat
    /\ NoToken \notin 1..MaxSecond /\ NoSecret \notin 1..MaxSecret

VARIABLES
    user,      \* the row of users
    request,   \* each client's request: its kind, where it stands, what it holds
    now,       \* the second, which is all that tells two tokens apart
    secrets,   \* 2FA secrets generated so far
    told       \* history: what the last answers said of the account

vars == <<user, request, now, secrets, told>>

-----------------------------------------------------------------------------

Tokens == 1..MaxSecond
Secrets == 1..MaxSecret

UserRow == [isActive : BOOLEAN, password : Passwords, refreshToken : Tokens \cup {NoToken},
            twoFactorEnabled : BOOLEAN, twoFactorSecret : Secrets \cup {NoSecret},
            reset : {"none", "valid", "expired"}]

(* The columns an entity holds that was loaded without naming them. *)
Loaded(row) == [isActive |-> row.isActive, password |-> row.password,
                twoFactorEnabled |-> row.twoFactorEnabled]

LoadedRow == [isActive : BOOLEAN, password : Passwords, twoFactorEnabled : BOOLEAN]

Idle == [kind |-> "none", pc |-> "idle"]

Request ==
    {Idle}
    \cup [kind : AllKinds, pc : {"guard", "handle"}]
    \cup [kind : {"login", "refresh"}, pc : {"sign"}]
    \cup [kind : {"login", "refresh"}, pc : {"write"}, token : Tokens]
    \cup [kind : {"setup2FA"}, pc : {"write"}, secret : Secrets]
    \cup [kind : {"update"}, pc : {"write"}, seen : LoadedRow]
    \cup [kind : {"forgotPassword", "resetPassword", "changePassword", "enable2FA",
                  "disable2FA"}, pc : {"write"}]

TypeOK ==
    /\ user \in UserRow
    /\ request \in [Clients -> Request]
    /\ now \in Tokens /\ secrets \in 0..MaxSecret
    /\ told \in [isActive : BOOLEAN, password : Passwords]

(* A user who has registered or was invited. *)
Init ==
    /\ \E p \in Passwords :
         /\ user = [isActive |-> TRUE, password |-> p, refreshToken |-> NoToken,
                    twoFactorEnabled |-> FALSE, twoFactorSecret |-> NoSecret, reset |-> "none"]
         /\ told = [isActive |-> TRUE, password |-> p]
    /\ request = [c \in Clients |-> Idle]
    /\ now = 1 /\ secrets = 0

At(c, kind, pc) == request[c].kind = kind /\ request[c].pc = pc

Becomes(c, r) == request' = [request EXCEPT ![c] = r]

Ends(c) == Becomes(c, Idle)

Goes(c, pc) == Becomes(c, [kind |-> request[c].kind, pc |-> pc])

-----------------------------------------------------------------------------
(* Requests arrive.  login, refresh and the two requests about a forgotten *)
(* password are public; those about a user come from any other user too.   *)

Public == {"login", "refresh", "forgotPassword", "resetPassword"}

OfOthers == {"update", "activate", "deactivate"}

Arrive(c) ==
    /\ request[c] = Idle /\ c = CHOOSE d \in Clients : request[d] = Idle
    /\ \E kind \in AllKinds :
         /\ \A d \in Clients \ {c} :
              request[d] # Idle => {kind, request[d].kind} \subseteq Together
         /\ Becomes(c, [kind |-> kind,
                        pc |-> IF kind \in Public \cup OfOthers THEN "handle" ELSE "guard"])
    /\ UNCHANGED <<user, now, secrets, told>>

(* JwtStrategy.validate; the access token itself is not looked up. *)
Validate(c) ==
    /\ request[c].pc = "guard"
    /\ IF user.isActive THEN Goes(c, "handle") ELSE Ends(c)
    /\ UNCHANGED <<user, now, secrets, told>>

(* The code of the authenticator matches a secret, and none matches null. *)
CodeMatches(secret) == secret # NoSecret

-----------------------------------------------------------------------------
(* Sessions.                                                               *)

Login(c) ==
    /\ At(c, "login", "handle")
    /\ \E p \in Passwords, matches \in {CodeMatches(user.twoFactorSecret), FALSE} :
         IF p = user.password /\ user.isActive /\ (user.twoFactorEnabled => matches)
         THEN Goes(c, "sign") ELSE Ends(c)
    /\ UNCHANGED <<user, now, secrets, told>>

Refresh(c) ==
    /\ At(c, "refresh", "handle")
    /\ \E presented \in 1..now :
         IF user.isActive /\ presented = user.refreshToken
         THEN Goes(c, "sign") ELSE Ends(c)
    /\ UNCHANGED <<user, now, secrets, told>>

(* generateTokens: sign, then hash, then store the hash. *)
SignTokens(c) ==
    /\ request[c].pc = "sign"
    /\ Becomes(c, [kind |-> request[c].kind, pc |-> "write", token |-> now])
    /\ UNCHANGED <<user, now, secrets, told>>

(* Mutant: the hash of another token than the one that is answered. *)
StoreOldest(c) ==
    /\ request[c].kind \in {"login", "refresh"} /\ request[c].pc = "write"
    /\ user' = [user EXCEPT !.refreshToken = 1]
    /\ Ends(c)
    /\ UNCHANGED <<now, secrets, told>>

StoreToken(c) ==
    /\ request[c].kind \in {"login", "refresh"} /\ request[c].pc = "write"
    /\ user' = [user EXCEPT !.refreshToken = request[c].token]
    /\ Ends(c)
    /\ UNCHANGED <<now, secrets, told>>

(* Mutant: an empty string for null. *)
LogoutEmpty(c) ==
    /\ At(c, "logout", "handle")
    /\ user' = [user EXCEPT !.refreshToken = 0]
    /\ Ends(c)
    /\ UNCHANGED <<now, secrets, told>>

Logout(c) ==
    /\ At(c, "logout", "handle")
    /\ user' = [user EXCEPT !.refreshToken = NoToken]
    /\ Ends(c)
    /\ UNCHANGED <<now, secrets, told>>

-----------------------------------------------------------------------------
(* Passwords.                                                              *)

ForgotPassword(c) ==
    /\ At(c, "forgotPassword", "handle")
    /\ Goes(c, "write")
    /\ UNCHANGED <<user, now, secrets, told>>

StoreResetToken(c) ==
    /\ At(c, "forgotPassword", "write")
    /\ user' = [user EXCEPT !.reset = "valid"]
    /\ Ends(c)
    /\ UNCHANGED <<now, secrets, told>>

ResetPassword(c) ==
    /\ At(c, "resetPassword", "handle")
    /\ IF user.reset = "valid" THEN Goes(c, "write") ELSE Ends(c)
    /\ UNCHANGED <<user, now, secrets, told>>

StoreResetPassword(c) ==
    /\ At(c, "resetPassword", "write")
    /\ \E p \in Passwords :
         /\ user' = [user EXCEPT !.password = p, !.reset = "none", !.refreshToken = NoToken]
         /\ told' = [told EXCEPT !.password = p]
    /\ Ends(c)
    /\ UNCHANGED <<now, secrets>>

ChangePassword(c) ==
    /\ At(c, "changePassword", "handle")
    /\ \E p \in Passwords : IF p = user.password THEN Goes(c, "write") ELSE Ends(c)
    /\ UNCHANGED <<user, now, secrets, told>>

StorePassword(c) ==
    /\ At(c, "changePassword", "write")
    /\ \E p \in Passwords :
         /\ user' = [user EXCEPT !.password = p, !.refreshToken = NoToken]
         /\ told' = [told EXCEPT !.password = p]
    /\ Ends(c)
    /\ UNCHANGED <<now, secrets>>

-----------------------------------------------------------------------------
(* Two-factor authentication.                                              *)

Setup2FA(c) ==
    /\ At(c, "setup2FA", "handle") /\ secrets < MaxSecret
    /\ secrets' = secrets + 1
    /\ Becomes(c, [kind |-> "setup2FA", pc |-> "write", secret |-> secrets + 1])
    /\ UNCHANGED <<user, now, told>>

StoreSecret(c) ==
    /\ At(c, "setup2FA", "write")
    /\ user' = [user EXCEPT !.twoFactorSecret = request[c].secret]
    /\ Ends(c)
    /\ UNCHANGED <<now, secrets, told>>

Enable2FA(c) ==
    /\ At(c, "enable2FA", "handle")
    /\ IF CodeMatches(user.twoFactorSecret) THEN Goes(c, "write") ELSE Ends(c)
    /\ UNCHANGED <<user, now, secrets, told>>

StoreEnabled(c) ==
    /\ At(c, "enable2FA", "write")
    /\ user' = [user EXCEPT !.twoFactorEnabled = TRUE]
    /\ Ends(c)
    /\ UNCHANGED <<now, secrets, told>>

Disable2FA(c) ==
    /\ At(c, "disable2FA", "handle")
    /\ IF CodeMatches(user.twoFactorSecret) THEN Goes(c, "write") ELSE Ends(c)
    /\ UNCHANGED <<user, now, secrets, told>>

StoreDisabled(c) ==
    /\ At(c, "disable2FA", "write")
    /\ user' = [user EXCEPT !.twoFactorEnabled = FALSE, !.twoFactorSecret = NoSecret]
    /\ Ends(c)
    /\ UNCHANGED <<now, secrets, told>>

-----------------------------------------------------------------------------
(* UsersService: a profile is changed by saving the entity that was        *)
(* loaded, every column of it that differs from the row by then.           *)

FindOne(c) ==
    /\ At(c, "update", "handle")
    /\ Becomes(c, [kind |-> "update", pc |-> "write", seen |-> Loaded(user)])
    /\ UNCHANGED <<user, now, secrets, told>>

(* Mutant: an entity created from the dto, with the column's default. *)
SaveCreated(c) ==
    /\ At(c, "update", "write")
    /\ user' = [user EXCEPT !.twoFactorEnabled = FALSE, !.isActive = TRUE]
    /\ Ends(c)
    /\ UNCHANGED <<now, secrets, told>>

SaveUser(c) ==
    /\ At(c, "update", "write")
    /\ user' = [user EXCEPT !.isActive = request[c].seen.isActive,
                            !.password = request[c].seen.password,
                            !.twoFactorEnabled = request[c].seen.twoFactorEnabled]
    /\ Ends(c)
    /\ UNCHANGED <<now, secrets, told>>

SetActive(c, kind, active) ==
    /\ At(c, kind, "handle")
    /\ user' = [user EXCEPT !.isActive = active]
    /\ told' = [told EXCEPT !.isActive = active]
    /\ Ends(c)
    /\ UNCHANGED <<now, secrets>>

Deactivate(c) == SetActive(c, "deactivate", FALSE)

Activate(c) == SetActive(c, "activate", TRUE)

-----------------------------------------------------------------------------

(* A statement fails or the API stops: the request ends where it stands.   *)
Abandon(c) ==
    /\ request[c] # Idle
    /\ Ends(c)
    /\ UNCHANGED <<user, now, secrets, told>>

Tick ==
    /\ now < MaxSecond
    /\ now' = now + 1
    /\ UNCHANGED <<user, request, secrets, told>>

ResetExpires ==
    /\ user.reset = "valid"
    /\ user' = [user EXCEPT !.reset = "expired"]
    /\ UNCHANGED <<request, now, secrets, told>>

Next ==
    \/ \E c \in Clients :
         \/ Arrive(c) \/ Validate(c) \/ Abandon(c)
         \/ Login(c) \/ Refresh(c) \/ SignTokens(c) \/ StoreToken(c) \/ Logout(c)
         \/ ForgotPassword(c) \/ StoreResetToken(c) \/ ResetPassword(c)
         \/ StoreResetPassword(c) \/ ChangePassword(c) \/ StorePassword(c)
         \/ Setup2FA(c) \/ StoreSecret(c) \/ Enable2FA(c) \/ StoreEnabled(c)
         \/ Disable2FA(c) \/ StoreDisabled(c)
         \/ FindOne(c) \/ SaveUser(c) \/ Deactivate(c) \/ Activate(c)
    \/ Tick \/ ResetExpires

Spec == Init /\ [][Next]_vars

-----------------------------------------------------------------------------

Writing(kinds) == {c \in Clients : request[c].kind \in kinds /\ request[c].pc = "write"}

(* The requests implement the session: a token that is neither current nor *)
(* held by a request that is about to store it never comes back.           *)
AbstractSession == INSTANCE Session WITH
    current <- user.refreshToken,
    coming <- {request[c].token : c \in Writing({"login", "refresh"})}

SessionImplemented == AbstractSession!Spec

(* What an answer said of the account ("User deactivated", "Password       *)
(* changed") is so until the next such answer...                           *)
Answered == told.isActive = user.isActive /\ told.password = user.password

(* ... unless a profile is saved that was loaded before it: nothing else   *)
(* that is under way at the time takes an answer back.                     *)
OnlyStaleProfilesTakeBack ==
    [][Answered /\ ~Answered'
         => \E c \in Clients : At(c, "update", "write") /\ request[c].seen # Loaded(user)]_vars

(* Whoever is asked for a code has a secret to make it from: otherwise no  *)
(* login can ever succeed.                                                 *)
TwoFactorHasSecret == user.twoFactorEnabled => user.twoFactorSecret # NoSecret
=============================================================================
