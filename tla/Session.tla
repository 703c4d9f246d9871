------------------------------ MODULE Session -------------------------------
(***************************************************************************)
(* The authentication service's sessions: logging in, getting, refreshing  *)
(* and ending the pair of tokens of a session, and the two ways to change  *)
(* a password (LoginController, LogoutController,                          *)
(* ForgetPasswordController), over the Redis stores of refresh tokens and  *)
(* of revoked tokens.  A request takes one step for each awaited call that *)
(* reads or writes what another request can change.                        *)
(*                                                                         *)
(* Requests are numbered in the order they start, so the number of a       *)
(* request names what it makes: its code, its reset link or its session.   *)
(* A refresh token is random, so the request that makes it stands for it.  *)
(* A JWT has nothing random in it: it is its payload and the second it was *)
(* signed in, and two that agree on these are one token.  Of a payload the *)
(* model keeps what tells two tokens of one user, client and device apart: *)
(* lastLogin, and whether the user was read together with the default      *)
(* tenant.  The n-th value of lastLogin is n: two logins of one user do    *)
(* not fall in one millisecond.  The clock counts seconds.                 *)
(***************************************************************************)
EXTENDS Naturals, FiniteSets

CONSTANTS
  User,
  Password,
  AccessTTL,    \* accessTokenExpiration of the client, in seconds
  RefreshTTL,   \* refreshTokenExpiration
  CodeTTL,      \* authCodeExpiration
  LinkTTL,      \* FORGOT_PASSWORD_LINK_EXPIRY
  NoPassword,
  MaxRequests,  \* bound: how many requests are made in all
  MaxInFlight,  \* bound: how many of them are handled at the same time
  MaxClock      \* bound: the last second

Requests == 1 .. MaxRequests

ASSUME PasswordAssumption == NoPassword \notin Password
ASSUME BoundsAssumption ==
  /\ {AccessTTL, RefreshTTL, CodeTTL, LinkTTL} \subseteq Nat
  /\ {MaxRequests, MaxInFlight, MaxClock} \subseteq Nat

VARIABLES
  firstTime, \* user_tenants: who still has to change the first password
  steady,    \* the users of one device, who make one request at a time, log in
             \* when they have no session, refresh an expired access token,
             \* and whose requests do not fail half-way
  clock,
  password,  \* user_credentials: the password of each user
  login,     \* users: lastLogin
  store,     \* Redis: the refresh tokens
  until,     \* Redis: when each of them expires
  revoked,   \* Redis: the revoked tokens
  pc,        \* the awaited call each request is at
  call,      \* what it asks for
  made,      \* the code, link or access token it makes
  patched    \* history: the requests that have set a password

users == <<firstTime, steady>>
vars == <<users, clock, password, login, store, until, revoked, pc, call, made, patched>>

Token(k, u, l, t) == [kind |-> k, user |-> u, login |-> l, iat |-> t]
NoToken == [kind |-> "none", user |-> NoPassword, login |-> 0, iat |-> 0]
NoCall == [op |-> "none", user |-> NoPassword, target |-> 0,
           old |-> NoPassword, new |-> NoPassword]

Busy(r) == pc[r] \notin {"idle", "done", "failed"}
IsSession(r) == made[r].kind \in {"direct", "found"} /\ pc[r] = "done"

\* refreshTokenRepo.get: what Redis has not deleted or let expire.
GetRefresh(s) == s \in store /\ clock < until[s]

\* jwt.verify: expired from the second iat + ttl on.
Unexpired(t, ttl) == clock < t.iat + ttl

\* The bearer strategy: neither revoked nor expired.
Accepted(t) == t \notin revoked /\ Unexpired(t, AccessTTL)
AnyLink(t) == Unexpired(t, LinkTTL)       \* mutant: a used link passes
LinkValid(t) == t \notin revoked /\ Unexpired(t, LinkTTL)

-----------------------------------------------------------------------------
(* Requests. *)

\* What a steady user refrains from.
Alone(u) == u \in steady => \A q \in Requests : call[q].user = u => ~Busy(q)
Without(u) == u \in steady =>
  \A s \in Requests : made[s].user = u /\ IsSession(s) => ~GetRefresh(s)
Due(u, t) == u \in steady => ~Unexpired(t, AccessTTL)

Begin(r, c, t, at) ==
  /\ pc[r] = "idle"
  /\ \A q \in Requests : q < r => pc[q] # "idle"
  /\ Cardinality({q \in Requests : Busy(q)}) < MaxInFlight
  /\ Alone(c.user)
  /\ call' = [call EXCEPT ![r] = c]
  /\ made' = [made EXCEPT ![r] = t]
  /\ pc' = [pc EXCEPT ![r] = at]
  /\ UNCHANGED <<users, clock, password, login, store, until, revoked, patched>>

Goto(r, at) == pc' = [pc EXCEPT ![r] = at]

\* What a request about the session s asks for.
About(op, s, old, new) ==
  [op |-> op, user |-> made[s].user, target |-> s, old |-> old, new |-> new]
By(op, u) ==
  [op |-> op, user |-> u, target |-> 0, old |-> NoPassword, new |-> NoPassword]

-----------------------------------------------------------------------------
(* Logging in: a code and then its tokens, or the tokens in one request.   *)

Login(r, u, w) ==
  /\ w = password[u]
  /\ Begin(r, By("login", u), Token("code", u, 0, clock), "done")

\* POST /auth/token: a code can be exchanged until it expires.
GetToken(r, c) ==
  /\ made[c].kind = "code" /\ Unexpired(made[c], CodeTTL)
  /\ Without(made[c].user)
  /\ Begin(r, About("token", c, NoPassword, NoPassword),
           Token("found", made[c].user, 0, 0), "touch")

\* POST /auth/login-token: the user as the password check has read it, its
\* lastLogin from before this login, is the payload.
LoginWithClientUser(r, u, w) ==
  /\ w = password[u]
  /\ Without(u)
  /\ Begin(r, By("login-token", u), Token("direct", u, login[u], 0), "touch")

\* firstTimeUser and updateLastLogin.
LoginKept(u) == login              \* mutant: lastLogin is not updated
LoginLost(u) == [login EXCEPT ![u] = NoPassword]   \* mutant: lastLogin is cleared
LoginUpdated(u) ==
  IF u \in firstTime THEN login ELSE [login EXCEPT ![u] = @ + 1]

Touch(r) ==
  /\ pc[r] = "touch"
  /\ login' = LoginUpdated(call[r].user)
  /\ Goto(r, IF made[r].kind = "found" THEN "find" ELSE "store")
  /\ UNCHANGED <<users, clock, password, store, until, revoked, call, made, patched>>

\* createJWT: the user is read, then the token is signed and the refresh
\* token stored with it.  Signing reads only the clock, so it is one step
\* with the write that follows.
Find(r) ==
  /\ pc[r] = "find"
  /\ LET u == call[r].user IN
       made' = [made EXCEPT ![r] = Token("found", u, login[u], 0)]
  /\ Goto(r, "store")
  /\ UNCHANGED <<users, clock, password, login, store, until, revoked, call, patched>>

Store(r) ==
  /\ pc[r] = "store"
  /\ made' = [made EXCEPT ![r].iat = clock]
  /\ store' = store \union {r}
  /\ until' = [until EXCEPT ![r] = clock + RefreshTTL]
  /\ Goto(r, "done")
  /\ UNCHANGED <<users, clock, password, login, revoked, call, patched>>

-----------------------------------------------------------------------------
(* Refreshing and ending a session.  The access token a client sends with  *)
(* the refresh token is the one it was answered with; any other is refused *)
(* and changes nothing.                                                    *)

\* POST /auth/token-refresh: the access token may be expired or revoked.
Exchange(r, s) ==
  /\ IsSession(s) /\ GetRefresh(s)
  /\ Due(made[s].user, made[s])
  /\ Begin(r, About("exchange", s, NoPassword, NoPassword), NoToken, "revoke")

\* POST /logout and POST /keycloak/logout, which sends Keycloak a request
\* nobody waits for.
Logout(r, s) ==
  /\ IsSession(s) /\ Accepted(made[s]) /\ GetRefresh(s)
  /\ Begin(r, About("logout", s, NoPassword, NoPassword), NoToken, "revoke")

RevokedBefore(t) == revoked        \* mutant: the token is not revoked
RevokedWith(t) == revoked \union {t}

Revoke(r) ==
  /\ pc[r] = "revoke"
  /\ revoked' = RevokedWith(made[call[r].target])
  /\ Goto(r, IF call[r].op = "reset" THEN "done" ELSE "delete")
  /\ UNCHANGED <<users, clock, password, login, store, until, call, made, patched>>

StoreKept(s) == store              \* mutant: the refresh token stays
StoreWithout(s) == store \ {s}

Delete(r) ==
  /\ pc[r] = "delete"
  /\ store' = StoreWithout(call[r].target)
  /\ Goto(r, IF call[r].op = "exchange" THEN "find" ELSE "done")
  /\ UNCHANGED <<users, clock, password, login, until, revoked, call, made, patched>>

-----------------------------------------------------------------------------
(* Changing a password: by the holder of a session, with or without the    *)
(* old one, or by a reset link.                                            *)

\* PATCH auth/change-password
ChangePassword(r, s, old, new) ==
  /\ IsSession(s) /\ Accepted(made[s]) /\ GetRefresh(s)
  /\ Begin(r, About("change", s, old, new), NoToken, "check")

\* POST auth/forget-password: the link is mailed.
ForgetPassword(r, u) ==
  Begin(r, By("forget", u), Token("link", u, 0, clock), "done")

\* mutant: the link is revoked before the password is set
ResetRevokingFirst(r, l, new) ==
  /\ made[l].kind = "link" /\ LinkValid(made[l])
  /\ Begin(r, About("reset", l, NoPassword, new), NoToken, "revoke")

\* PATCH auth/reset-password
ResetPassword(r, l, new) ==
  /\ made[l].kind = "link" /\ LinkValid(made[l])
  /\ Begin(r, About("reset", l, NoPassword, new), NoToken, "check")

\* updatePassword and changePassword: both refuse the present password as
\* the new one.
Check(r) ==
  /\ pc[r] = "check"
  /\ LET c == call[r] IN
       Goto(r, IF c.old \in {NoPassword, password[c.user]} /\ c.new # password[c.user]
               THEN "patch" ELSE "failed")
  /\ UNCHANGED <<users, clock, password, login, store, until, revoked, call, made, patched>>

Patch(r) ==
  /\ pc[r] = "patch"
  /\ password' = [password EXCEPT ![call[r].user] = call[r].new]
  /\ patched' = patched \union {r}
  /\ Goto(r, "revoke")
  /\ UNCHANGED <<users, clock, login, store, until, revoked, call, made>>

-----------------------------------------------------------------------------
(* Redis or the database fails, or the service stops.                      *)

Fail(r) ==
  /\ Busy(r) /\ call[r].user \notin steady
  /\ Goto(r, "failed")
  /\ UNCHANGED <<users, clock, password, login, store, until, revoked, call, made, patched>>

Tick ==
  /\ clock < MaxClock
  /\ clock' = clock + 1
  /\ UNCHANGED <<users, password, login, store, until, revoked, pc, call, made, patched>>

Init ==
  /\ firstTime \in SUBSET User
  /\ steady \in SUBSET User
  /\ clock = 0
  /\ password \in [User -> Password]
  /\ login = [u \in User |-> 0]
  /\ store = {}
  /\ until = [r \in Requests |-> 0]
  /\ revoked = {}
  /\ pc = [r \in Requests |-> "idle"]
  /\ call = [r \in Requests |-> NoCall]
  /\ made = [r \in Requests |-> NoToken]
  /\ patched = {}

Start(r) ==
  \/ \E u \in User, w \in Password : Login(r, u, w) \/ LoginWithClientUser(r, u, w)
  \/ \E u \in User : ForgetPassword(r, u)
  \/ \E s \in Requests : GetToken(r, s) \/ Exchange(r, s) \/ Logout(r, s)
  \/ \E s \in Requests, old \in Password \union {NoPassword}, new \in Password :
       ChangePassword(r, s, old, new)
  \/ \E l \in Requests, new \in Password : ResetPassword(r, l, new)

Continue(r) ==
  \/ Touch(r) \/ Find(r) \/ Store(r)
  \/ Revoke(r) \/ Delete(r) \/ Check(r) \/ Patch(r)

Next == Tick \/ \E r \in Requests : Start(r) \/ Continue(r) \/ Fail(r)

Spec == Init /\ [][Next]_vars

-----------------------------------------------------------------------------
(* What the code guarantees.                                               *)

Tokens == [kind : {"none", "code", "link", "direct", "found"},
           user : User \union {NoPassword}, login : Nat, iat : Nat]
Calls == [op : {"none", "login", "token", "login-token", "exchange", "logout", "change",
                "forget", "reset"},
          user : User \union {NoPassword}, target : Requests \union {0},
          old : Password \union {NoPassword}, new : Password \union {NoPassword}]

TypeOK ==
  /\ firstTime \subseteq User /\ steady \subseteq User
  /\ clock \in Nat
  /\ password \in [User -> Password]
  /\ login \in [User -> Nat]
  /\ store \subseteq Requests
  /\ until \in [Requests -> Nat]
  /\ revoked \subseteq Tokens
  /\ pc \in [Requests -> {"idle", "touch", "find", "store", "revoke", "delete",
                          "check", "patch", "done", "failed"}]
  /\ call \in [Requests -> Calls]
  /\ made \in [Requests -> Tokens]
  /\ patched \subseteq Requests

\* A session that has been refreshed or ended has its access token revoked:
\* whatever fails and however requests overlap, no access token is accepted
\* for a session whose refresh token is gone (the order of revoke and delete
\* in exchangeToken, logout and resetPassword).
EndedTokenRevoked ==
  \A s \in Requests : IsSession(s) /\ s \notin store => made[s] \in revoked

\* A steady user's session is refreshed once, and not at all after a logout
\* or a change of password has ended it (exchangeToken reads the refresh
\* token, revokes and deletes in separate steps).
OneSuccessor ==
  \A x, y \in Requests :
    /\ call[x].op = "exchange" /\ IsSession(x) /\ call[x].user \in steady
    /\ call[y].op \in {"exchange", "logout", "change"} /\ pc[y] = "done"
    /\ call[x].target = call[y].target
    => x = y

\* The access token of the session a steady user holds is not revoked by the
\* end of any other session: between its requests, its token works until it
\* expires (createJWT: payload and second tell the token from the earlier
\* ones of the user).
HeldTokenWorks ==
  \A s \in Requests :
    /\ IsSession(s) /\ s \in store
    /\ made[s].user \in steady \ firstTime
    /\ \A r \in Requests : call[r].target = s => ~Busy(r)
    => made[s] \notin revoked

\* A steady user's reset link sets a password once (resetPassword checks the
\* store of revoked tokens first and writes it last).
LinkSetsOnce ==
  \A x, y \in patched :
    /\ call[x].op = "reset" /\ call[y].op = "reset"
    /\ made[call[x].target] = made[call[y].target]
    /\ call[x].user \in steady
    => x = y

\* A reset link is used up only by a request that has set the password: one
\* that fails half-way can be made again (resetPassword, any user).
LinkUsedUpByPatch ==
  \A l \in Requests :
    made[l].kind = "link" /\ made[l] \in revoked =>
      \E x \in patched : call[x].op = "reset" /\ made[call[x].target] = made[l]

\* POST /auth/token-refresh: "Gets you a new access and refresh token".
RefreshGivesNewToken ==
  \A x \in Requests :
    call[x].op = "exchange" /\ IsSession(x) => made[x] # made[call[x].target]

=============================================================================
