---------------------------- MODULE SessionProofs ----------------------------
(***************************************************************************)
(* What ends a session ends its tokens, for any number of users, requests  *)
(* and seconds.  The strengthening follows a request from what it has read *)
(* when it began to what it has written when it ends: what it is about     *)
(* (ControlOK), what its end leaves revoked (RevokedOK), and, for steady   *)
(* users, that nobody else ends the same session or uses the same link     *)
(* (LinksOK, SessionsOK).  A second strengthening, HeldInv, compares the   *)
(* tokens of a user's sessions with each other.                            *)
(***************************************************************************)
EXTENDS Session, TLAPS

Ends == {"exchange", "logout", "change"}
Target(r) == call[r].target
Steady(r) == call[r].user \in steady

\* Requests that have deleted the refresh token they end.
Past(r) == pc[r] = "done" \/ (call[r].op = "exchange" /\ pc[r] \in {"find", "store"})

\* What a request is about has been made, and is of the same user.
AboutSession(r) ==
  /\ Target(r) \in Requests /\ IsSession(Target(r))
  /\ call[r].user = made[Target(r)].user
AboutLink(r) ==
  /\ Target(r) \in Requests /\ pc[Target(r)] = "done" /\ made[Target(r)].kind = "link"
  /\ call[r].user = made[Target(r)].user

ControlOK ==
  \A r \in Requests :
    /\ pc[r] = "idle" => call[r].op = "none" /\ made[r].kind = "none"
    /\ pc[r] # "idle" => call[r].user \in User
    /\ made[r].kind # "none" => made[r].user \in User
    /\ call[r].op \in Ends => AboutSession(r)
    /\ call[r].op = "reset" => AboutLink(r)
    /\ pc[r] \in {"revoke", "check", "patch"} => call[r].op \in Ends \union {"reset"}
    /\ pc[r] \in {"revoke", "check", "patch", "delete"} => made[r].kind = "none"
    /\ pc[r] \in {"find", "store"} => call[r].op \in {"token", "login-token", "exchange"}
    /\ pc[r] = "delete" => call[r].op \in Ends
    /\ pc[r] = "touch" => call[r].op \in {"token", "login-token"}
    /\ pc[r] \in {"check", "patch"} =>
         call[r].op \in {"change", "reset"} /\ call[r].new \in Password
    /\ made[r].kind \in {"code", "link"} => pc[r] = "done"
    /\ pc[r] = "touch" => made[r].kind \in {"found", "direct"}

RevokedOK ==
  /\ \A r \in Requests : pc[r] = "delete" => made[Target(r)] \in revoked
  /\ \A t \in revoked : t.kind = "link" =>
       \E x \in patched : call[x].op = "reset" /\ made[Target(x)] = t
  /\ \A r \in Requests : pc[r] = "revoke" /\ call[r].op = "reset" => r \in patched
  /\ \A x \in patched :
       pc[x] \in {"revoke", "delete", "done", "failed"} /\ call[x].op \in {"change", "reset"}

AloneOK ==
  \A x, y \in Requests :
    Busy(x) /\ Busy(y) /\ Steady(x) /\ call[x].user = call[y].user => x = y

LinksOK ==
  \A r \in Requests : call[r].op = "reset" /\ Steady(r) =>
    /\ pc[r] \in {"check", "patch"} => made[Target(r)] \notin revoked
    /\ r \in patched /\ pc[r] # "revoke" => made[Target(r)] \in revoked

SessionsOK ==
  /\ \A r \in Requests : call[r].op \in Ends /\ Steady(r) =>
       /\ pc[r] \in {"check", "patch", "revoke", "delete"} => Target(r) \in store
       /\ Past(r) => Target(r) \notin store
  /\ \A x, y \in Requests :
       /\ call[x].op \in Ends /\ Steady(x) /\ Past(x)
       /\ call[y].op \in Ends /\ Past(y)
       /\ Target(x) = Target(y)
       => x = y

IInv ==
  /\ TypeOK /\ ControlOK /\ RevokedOK /\ AloneOK /\ LinksOK /\ SessionsOK
  /\ EndedTokenRevoked /\ LinkSetsOnce

Labels == {"idle", "touch", "find", "store", "revoke", "delete", "check", "patch", "done",
           "failed"}

USE DEF Requests, Busy, IsSession, Ends, Target, Steady, Past

-----------------------------------------------------------------------------
(* Requests that begin.                                                    *)

\* What a request may begin with.
Fits(c, t, at) ==
  /\ c \in Calls /\ t \in Tokens /\ c.op # "none" /\ c.user \in User
  /\ t.kind # "none" => t.user \in User
  /\ c.op \in Ends =>
       /\ t.kind = "none" /\ at \in {"revoke", "check"}
       /\ at = "check" => c.op = "change" /\ c.new \in Password
       /\ c.target \in store /\ IsSession(c.target) /\ c.user = made[c.target].user
  /\ c.op = "reset" =>
       /\ t.kind = "none" /\ at = "check" /\ c.new \in Password
       /\ c.target \in Requests /\ made[c.target] \notin revoked
       /\ pc[c.target] = "done" /\ made[c.target].kind = "link"
       /\ c.user = made[c.target].user
  /\ c.op \notin Ends \union {"reset"} =>
       \/ at = "touch" /\ c.op \in {"token", "login-token"} /\ t.kind \in {"found", "direct"}
       \/ at = "done" /\ t.kind \in {"code", "link"}

LEMMA BeginInv ==
  ASSUME IInv, NEW r \in Requests, NEW c, NEW t, NEW at, Fits(c, t, at), Begin(r, c, t, at)
  PROVE  IInv'
<1> USE DEF IInv, Fits, Begin, users
<1>0. /\ at \in Labels /\ at # "idle" /\ pc[r] = "idle"
      /\ r \notin patched /\ call[r].op = "none"
  BY DEF Labels, ControlOK, RevokedOK
<1>1. /\ TypeOK /\ pc' = [pc EXCEPT ![r] = at] /\ call' = [call EXCEPT ![r] = c]
      /\ made' = [made EXCEPT ![r] = t]
      /\ UNCHANGED <<firstTime, steady, clock, password, login, store, until, revoked,
                     patched>>
  OBVIOUS
<1>2. /\ pc' \in [Requests -> Labels] /\ call' \in [Requests -> Calls]
      /\ made' \in [Requests -> Tokens]
      /\ pc'[r] = at /\ call'[r] = c /\ made'[r] = t
      /\ \A q \in Requests : q # r =>
           pc'[q] = pc[q] /\ call'[q] = call[q] /\ made'[q] = made[q]
  BY <1>0, <1>1 DEF TypeOK, Labels
<1>3. TypeOK'
  BY <1>1, <1>2 DEF TypeOK, Labels
<1>4. ControlOK'
  <2> SUFFICES ASSUME NEW q \in Requests PROVE ControlOK!(q)'
    BY DEF ControlOK
  <2>1. CASE q = r
    BY <2>1, <1>0, <1>1, <1>2 DEF ControlOK, AboutSession, AboutLink, TypeOK, Calls
  <2>2. CASE q # r
    BY <2>2, <1>0, <1>2 DEF ControlOK, AboutSession, AboutLink
  <2> QED BY <2>1, <2>2
<1>5. RevokedOK'
  BY <1>0, <1>1, <1>2 DEF RevokedOK, ControlOK, AboutSession, AboutLink, TypeOK
<1>6. AloneOK'
  BY <1>0, <1>1, <1>2 DEF AloneOK, Alone
<1>7. LinksOK'
  BY <1>0, <1>1, <1>2 DEF LinksOK, ControlOK, AboutLink
<1>8. SessionsOK'
  BY <1>0, <1>1, <1>2 DEF SessionsOK, ControlOK, AboutSession
<1>9. EndedTokenRevoked'
  BY <1>0, <1>1, <1>2 DEF EndedTokenRevoked
<1>10. LinkSetsOnce'
  BY <1>0, <1>1, <1>2 DEF LinkSetsOnce, ControlOK, AboutLink, RevokedOK, TypeOK
<1> QED BY <1>3, <1>4, <1>5, <1>6, <1>7, <1>8, <1>9, <1>10

-----------------------------------------------------------------------------
(* Requests that go on.                                                    *)

LEMMA TouchInv ==
  ASSUME IInv, NEW r \in Requests, Touch(r)
  PROVE  IInv'
<1> USE DEF IInv, Touch, users, Goto
<1>1. /\ pc[r] = "touch" /\ pc'[r] \in {"find", "store"} /\ pc' \in [Requests -> Labels]
      /\ \A q \in Requests : q # r => pc'[q] = pc[q]
      /\ UNCHANGED <<firstTime, steady, clock, password, store, until, revoked, call,
                     made, patched>>
      /\ call[r].op \notin Ends \union {"reset"}
  BY DEF TypeOK, Labels, ControlOK
<1>2. login' \in [User -> Nat]
  <2>1. call[r].user \in User
    BY DEF ControlOK
  <2>2. [login EXCEPT ![call[r].user] = @ + 1] \in [User -> Nat]
    BY <2>1 DEF TypeOK
  <2> QED BY <2>2 DEF TypeOK, LoginUpdated
<1>3. TypeOK'
  BY <1>1, <1>2 DEF TypeOK, Labels
<1>4. ControlOK' /\ EndedTokenRevoked'
  BY <1>1 DEF ControlOK, AboutSession, AboutLink, EndedTokenRevoked
<1>5. RevokedOK' /\ LinkSetsOnce'
  BY <1>1 DEF RevokedOK, LinkSetsOnce
<1>6. AloneOK' /\ LinksOK' /\ SessionsOK'
  BY <1>1 DEF AloneOK, LinksOK, SessionsOK
<1> QED BY <1>3, <1>4, <1>5, <1>6

LEMMA FindInv ==
  ASSUME IInv, NEW r \in Requests, Find(r)
  PROVE  IInv'
<1> USE DEF IInv, Find, users, Goto
<1>0. call[r].user \in User /\ r \notin patched
  BY DEF ControlOK, RevokedOK
<1>1. /\ pc[r] = "find" /\ pc'[r] = "store" /\ pc' \in [Requests -> Labels]
      /\ \A q \in Requests : q # r => pc'[q] = pc[q] /\ made'[q] = made[q]
      /\ UNCHANGED <<firstTime, steady, clock, password, login, store, until, revoked, call,
                     patched>>
      /\ r \notin patched /\ made'[r].kind = "found" /\ made'[r].user \in User
  BY <1>0 DEF TypeOK, Labels, Token
<1>2. made' \in [Requests -> Tokens]
  <2>1. Token("found", call[r].user, login[call[r].user], 0) \in Tokens
    BY DEF TypeOK, Token, Tokens, ControlOK
  <2> QED BY <2>1 DEF TypeOK
<1>3. TypeOK'
  BY <1>1, <1>2 DEF TypeOK, Labels
<1>4. ControlOK' /\ EndedTokenRevoked'
  BY <1>1 DEF ControlOK, AboutSession, AboutLink, EndedTokenRevoked, Token
<1>5. RevokedOK' /\ LinkSetsOnce'
  <2>1. \A q \in Requests : call[q].op \in Ends \union {"reset"} =>
          Target(q) \in Requests /\ made'[Target(q)] = made[Target(q)]
    BY <1>1 DEF ControlOK, AboutSession, AboutLink
  <2>2. RevokedOK'
    <3>1. \A q \in Requests : pc'[q] = "delete" => made'[Target(q)] \in revoked
      BY <1>1, <2>1 DEF RevokedOK, ControlOK
    <3>2. ASSUME NEW t \in revoked, t.kind = "link"
          PROVE  \E x \in patched : call[x].op = "reset" /\ made'[Target(x)] = t
      <4>1. PICK x \in patched : call[x].op = "reset" /\ made[Target(x)] = t
        BY <3>2 DEF RevokedOK
      <4>2. x \in Requests
        BY DEF TypeOK
      <4> QED BY <2>1, <4>1, <4>2
    <3> QED BY <1>1, <3>1, <3>2 DEF RevokedOK
  <2>3. LinkSetsOnce'
    <3>1. \A x \in patched : x \in Requests /\
            (call[x].op = "reset" => made'[Target(x)] = made[Target(x)])
      BY <2>1 DEF TypeOK
    <3> QED BY <1>1, <3>1 DEF LinkSetsOnce
  <2> QED BY <2>2, <2>3
<1>6. AloneOK' /\ LinksOK' /\ SessionsOK'
  BY <1>1 DEF AloneOK, LinksOK, SessionsOK, ControlOK, AboutLink, AboutSession
<1> QED BY <1>3, <1>4, <1>5, <1>6

LEMMA StoreInv ==
  ASSUME IInv, NEW r \in Requests, Store(r), RefreshTTL \in Nat
  PROVE  IInv'
<1> USE DEF IInv, Store, users, Goto
<1>0. /\ [made[r] EXCEPT !.iat = clock] \in Tokens
      /\ [made[r] EXCEPT !.iat = clock].kind = made[r].kind
      /\ [made[r] EXCEPT !.iat = clock].user = made[r].user
  <2>1. made[r] \in Tokens /\ clock \in Nat
    BY DEF TypeOK
  <2> QED BY <2>1 DEF Tokens
<1>1. /\ pc[r] = "store" /\ pc'[r] = "done" /\ pc' \in [Requests -> Labels]
      /\ \A q \in Requests : q # r => pc'[q] = pc[q] /\ made'[q] = made[q]
      /\ store' = store \union {r}
      /\ UNCHANGED <<firstTime, steady, clock, password, login, revoked, call, patched>>
      /\ r \notin patched /\ made'[r].kind = made[r].kind /\ made'[r].user = made[r].user
  BY <1>0 DEF TypeOK, Labels, RevokedOK
<1>2. made' \in [Requests -> Tokens] /\ until' \in [Requests -> Nat]
  BY <1>0 DEF TypeOK
<1>3. TypeOK'
  BY <1>1, <1>2 DEF TypeOK, Labels
<1>4. ControlOK' /\ EndedTokenRevoked'
  BY <1>1 DEF ControlOK, AboutSession, AboutLink, EndedTokenRevoked
<1>5. RevokedOK' /\ LinkSetsOnce'
  <2>1. \A q \in Requests : call[q].op \in Ends \union {"reset"} =>
          Target(q) \in Requests /\ made'[Target(q)] = made[Target(q)]
    BY <1>1 DEF ControlOK, AboutSession, AboutLink
  <2>2. RevokedOK'
    <3>1. \A q \in Requests : pc'[q] = "delete" => made'[Target(q)] \in revoked
      BY <1>1, <2>1 DEF RevokedOK, ControlOK
    <3>2. ASSUME NEW t \in revoked, t.kind = "link"
          PROVE  \E x \in patched : call[x].op = "reset" /\ made'[Target(x)] = t
      <4>1. PICK x \in patched : call[x].op = "reset" /\ made[Target(x)] = t
        BY <3>2 DEF RevokedOK
      <4>2. x \in Requests
        BY DEF TypeOK
      <4> QED BY <2>1, <4>1, <4>2
    <3> QED BY <1>1, <3>1, <3>2 DEF RevokedOK
  <2>3. LinkSetsOnce'
    <3>1. \A x \in patched : x \in Requests /\
            (call[x].op = "reset" => made'[Target(x)] = made[Target(x)])
      BY <2>1 DEF TypeOK
    <3> QED BY <1>1, <3>1 DEF LinkSetsOnce
  <2> QED BY <2>2, <2>3
<1>6. AloneOK' /\ LinksOK'
  <2>1. AloneOK'
    BY <1>1 DEF AloneOK
  <2>2. \A q \in Requests : call[q].op = "reset" => made'[Target(q)] = made[Target(q)]
    BY <1>1 DEF ControlOK, AboutLink
  <2>3. LinksOK'
    BY <1>1, <2>2 DEF LinksOK
  <2> QED BY <2>1, <2>3
<1>7. SessionsOK'
  <2>1. \A q \in Requests : call[q].op \in Ends => Target(q) # r
    BY <1>1 DEF ControlOK, AboutSession
  <2>2. \A q \in Requests : call[q].op \in Ends /\ Past(q)' => Past(q)
    BY <1>1 DEF ControlOK
  <2>3. \A q \in Requests : pc'[q] \in {"check", "patch", "revoke", "delete"} => pc'[q] = pc[q]
    BY <1>1
  <2> QED BY <1>1, <2>1, <2>2, <2>3 DEF SessionsOK
<1> QED BY <1>3, <1>4, <1>5, <1>6, <1>7

LEMMA RevokeInv ==
  ASSUME IInv, NEW r \in Requests, Revoke(r)
  PROVE  IInv'
<1> USE DEF IInv, Revoke, users, Goto, RevokedWith
<1>1. /\ pc[r] = "revoke" /\ pc' \in [Requests -> Labels]
      /\ pc'[r] = IF call[r].op = "reset" THEN "done" ELSE "delete"
      /\ \A q \in Requests : q # r => pc'[q] = pc[q]
      /\ revoked' = revoked \union {made[Target(r)]}
      /\ UNCHANGED <<firstTime, steady, clock, password, login, store, until, call, made,
                     patched>>
      /\ call[r].op \in Ends \union {"reset"} /\ Target(r) \in Requests
      /\ call[r].user = made[Target(r)].user
  BY DEF TypeOK, Labels, ControlOK, AboutSession, AboutLink
<1>2. TypeOK'
  BY <1>1 DEF TypeOK, Labels
<1>3. ControlOK'
  BY <1>1 DEF ControlOK, AboutSession, AboutLink
<1>4. EndedTokenRevoked'
  BY <1>1 DEF EndedTokenRevoked, ControlOK
<1>5. RevokedOK' /\ LinkSetsOnce'
  BY <1>1 DEF RevokedOK, LinkSetsOnce, ControlOK, AboutSession, AboutLink
<1>6. AloneOK' /\ SessionsOK'
  BY <1>1 DEF AloneOK, SessionsOK
<1>7. LinksOK'
  <2> SUFFICES ASSUME NEW q \in Requests, call[q].op = "reset", call[q].user \in steady
               PROVE  /\ pc'[q] \in {"check", "patch"} => made[Target(q)] \notin revoked'
                      /\ q \in patched /\ pc'[q] # "revoke" => made[Target(q)] \in revoked'
    BY <1>1 DEF LinksOK
  <2>1. ASSUME pc'[q] \in {"check", "patch"} PROVE made[Target(q)] \notin revoked'
    <3>1. q # r /\ pc[q] = pc'[q] /\ made[Target(q)] \notin revoked
      BY <1>1, <2>1 DEF LinksOK
    <3>2. call[q].user # call[r].user
      BY <1>1, <2>1, <3>1 DEF AloneOK
    <3> QED BY <1>1, <3>1, <3>2 DEF ControlOK, AboutLink
  <2>2. ASSUME q \in patched, pc'[q] # "revoke" PROVE made[Target(q)] \in revoked'
    BY <1>1, <2>2 DEF LinksOK
  <2> QED BY <2>1, <2>2
<1> QED BY <1>2, <1>3, <1>4, <1>5, <1>6, <1>7

LEMMA DeleteInv ==
  ASSUME IInv, NEW r \in Requests, Delete(r)
  PROVE  IInv'
<1> USE DEF IInv, Delete, users, Goto, StoreWithout
<1>1. /\ pc[r] = "delete" /\ pc' \in [Requests -> Labels]
      /\ pc'[r] = IF call[r].op = "exchange" THEN "find" ELSE "done"
      /\ \A q \in Requests : q # r => pc'[q] = pc[q]
      /\ store' = store \ {Target(r)}
      /\ UNCHANGED <<firstTime, steady, clock, password, login, until, revoked, call, made,
                     patched>>
      /\ call[r].op \in Ends /\ AboutSession(r) /\ made[Target(r)] \in revoked
  BY DEF TypeOK, Labels, ControlOK, RevokedOK
<1>2. TypeOK'
  BY <1>1 DEF TypeOK, Labels
<1>3. ControlOK'
  BY <1>1 DEF ControlOK, AboutSession, AboutLink
<1>4. RevokedOK' /\ LinkSetsOnce'
  BY <1>1 DEF RevokedOK, LinkSetsOnce
<1>5. AloneOK' /\ LinksOK'
  BY <1>1 DEF AloneOK, LinksOK
<1>6. SessionsOK'
  BY <1>1 DEF SessionsOK, ControlOK, AboutSession, AloneOK
<1>7. EndedTokenRevoked'
  <2> SUFFICES ASSUME NEW s \in Requests, IsSession(s)', s \notin store'
               PROVE  made'[s] \in revoked'
    BY DEF EndedTokenRevoked
  <2>1. s # r => IsSession(s)
    BY <1>1
  <2>2. s # r
    BY <1>1 DEF ControlOK
  <2> QED BY <1>1, <2>1, <2>2 DEF EndedTokenRevoked
<1> QED BY <1>2, <1>3, <1>4, <1>5, <1>6, <1>7

LEMMA CheckInv ==
  ASSUME IInv, NEW r \in Requests, Check(r)
  PROVE  IInv'
<1> USE DEF IInv, Check, users, Goto
<1>1. /\ pc[r] = "check" /\ pc'[r] \in {"patch", "failed"} /\ pc' \in [Requests -> Labels]
      /\ \A q \in Requests : q # r => pc'[q] = pc[q]
      /\ UNCHANGED <<firstTime, steady, clock, password, login, store, until, revoked, call,
                     made, patched>>
      /\ r \notin patched
  BY DEF TypeOK, Labels, RevokedOK
<1>2. TypeOK'
  BY <1>1 DEF TypeOK, Labels
<1>3. ControlOK' /\ EndedTokenRevoked'
  BY <1>1 DEF ControlOK, AboutSession, AboutLink, EndedTokenRevoked
<1>4. RevokedOK' /\ LinkSetsOnce'
  BY <1>1 DEF RevokedOK, LinkSetsOnce
<1>5. AloneOK' /\ LinksOK' /\ SessionsOK'
  BY <1>1 DEF AloneOK, LinksOK, SessionsOK
<1> QED BY <1>2, <1>3, <1>4, <1>5

\* A second password set by the same link would need it to be both revoked,
\* by the first request's end, and not, by this one's beginning.
LEMMA PatchInv ==
  ASSUME IInv, NEW r \in Requests, Patch(r)
  PROVE  IInv'
<1> USE DEF IInv, Patch, users, Goto
<1>0. pc[r] = "patch" /\ call[r].op \in {"change", "reset"} /\ r \notin patched
  BY DEF RevokedOK, ControlOK
<1>1. /\ pc[r] = "patch" /\ pc'[r] = "revoke" /\ pc' \in [Requests -> Labels]
      /\ \A q \in Requests : q # r => pc'[q] = pc[q]
      /\ patched' = patched \union {r}
      /\ UNCHANGED <<firstTime, steady, clock, login, store, until, revoked, call, made>>
      /\ call[r].op \in {"change", "reset"} /\ r \notin patched
  BY <1>0 DEF TypeOK, Labels
<1>2. password' \in [User -> Password]
  <2>1. call[r].new \in Password
    BY <1>1 DEF ControlOK
  <2> QED BY <2>1 DEF TypeOK
<1>3. TypeOK'
  BY <1>1, <1>2 DEF TypeOK, Labels
<1>4. ControlOK' /\ EndedTokenRevoked'
  BY <1>1 DEF ControlOK, AboutSession, AboutLink, EndedTokenRevoked
<1>5. RevokedOK'
  BY <1>1 DEF RevokedOK
<1>6. AloneOK' /\ LinksOK' /\ SessionsOK'
  BY <1>1 DEF AloneOK, LinksOK, SessionsOK
<1>7. LinkSetsOnce'
  <2> SUFFICES ASSUME NEW x \in patched, call[r].op = "reset", call[x].op = "reset",
                      made[Target(x)] = made[Target(r)], Steady(x) \/ Steady(r)
               PROVE  FALSE
    BY <1>1 DEF LinkSetsOnce
  <2>1. x \in Requests /\ x # r
    BY <1>1 DEF TypeOK
  <2>2. call[x].user = call[r].user
    BY <2>1 DEF ControlOK, AboutLink
  <2>3. ~Busy(x)
    BY <1>1, <2>1, <2>2 DEF AloneOK
  <2>4. made[Target(x)] \in revoked
    BY <2>1, <2>2, <2>3 DEF LinksOK
  <2>5. made[Target(r)] \notin revoked
    BY <1>1, <2>2 DEF LinksOK
  <2> QED BY <2>4, <2>5
<1> QED BY <1>3, <1>4, <1>5, <1>6, <1>7

\* A steady user's requests do not fail, and one that fails has not ended
\* anything for good.
LEMMA FailInv ==
  ASSUME IInv, NEW r \in Requests, Fail(r)
  PROVE  IInv'
<1> USE DEF IInv, Fail, users, Goto
<1>1. /\ Busy(r) /\ ~Steady(r) /\ pc'[r] = "failed" /\ pc' \in [Requests -> Labels]
      /\ \A q \in Requests : q # r => pc'[q] = pc[q]
      /\ UNCHANGED <<firstTime, steady, clock, password, login, store, until, revoked, call,
                     made, patched>>
  BY DEF TypeOK, Labels
<1>2. TypeOK'
  BY <1>1 DEF TypeOK, Labels
<1>3. ControlOK' /\ EndedTokenRevoked'
  BY <1>1 DEF ControlOK, AboutSession, AboutLink, EndedTokenRevoked
<1>4. RevokedOK' /\ LinkSetsOnce'
  BY <1>1 DEF RevokedOK, LinkSetsOnce
<1>5. AloneOK' /\ LinksOK' /\ SessionsOK'
  BY <1>1 DEF AloneOK, LinksOK, SessionsOK
<1> QED BY <1>2, <1>3, <1>4, <1>5

LEMMA UnchangedInv ==
  ASSUME IInv, UNCHANGED <<firstTime, steady, store, password, login, until, revoked, pc, call,
                           made, patched>>, clock' \in Nat
  PROVE  IInv'
BY DEF IInv, TypeOK, ControlOK, AboutSession, AboutLink, RevokedOK, AloneOK, LinksOK,
       SessionsOK, EndedTokenRevoked, LinkSetsOnce

-----------------------------------------------------------------------------
(* Every request that begins fits.                                         *)

LEMMA NewTokens ==
  ASSUME IInv, NEW u \in User, NEW l \in Nat, NEW i \in Nat,
         NEW k \in {"code", "link", "direct", "found"}
  PROVE  Token(k, u, l, i) \in Tokens /\ Token(k, u, l, i).kind = k
           /\ Token(k, u, l, i).user = u
BY DEF Token, Tokens

LEMMA ByCalls ==
  ASSUME NEW u \in User, NEW op \in {"login", "token", "login-token", "forget"}
  PROVE  By(op, u) \in Calls /\ By(op, u).op = op /\ By(op, u).user = u
BY DEF By, Calls

LEMMA AboutCalls ==
  ASSUME IInv, NEW s \in Requests, made[s].kind # "none",
         NEW op \in {"token", "exchange", "logout", "change", "reset"},
         NEW old \in Password \union {NoPassword}, NEW new \in Password \union {NoPassword}
  PROVE  /\ About(op, s, old, new) \in Calls
         /\ About(op, s, old, new).op = op /\ About(op, s, old, new).target = s
         /\ About(op, s, old, new).new = new
         /\ About(op, s, old, new).user = made[s].user /\ made[s].user \in User
BY DEF About, Calls, IInv, ControlOK

LEMMA NoTokens == NoToken \in Tokens /\ NoToken.kind = "none"
BY DEF NoToken, Tokens

LEMMA StartInv ==
  ASSUME IInv, NEW r \in Requests, Start(r)
  PROVE  IInv'
<1>0. clock \in Nat /\ login \in [User -> Nat] /\ NoPassword \in Password \union {NoPassword}
  BY DEF IInv, TypeOK
<1>1. ASSUME NEW u \in User, NEW w \in Password, Login(r, u, w) PROVE IInv'
  <2>1. Fits(By("login", u), Token("code", u, 0, clock), "done")
    BY <1>0, NewTokens, ByCalls DEF Fits
  <2> QED BY <1>1, <2>1, BeginInv DEF Login
<1>2. ASSUME NEW u \in User, NEW w \in Password, LoginWithClientUser(r, u, w) PROVE IInv'
  <2>1. Fits(By("login-token", u), Token("direct", u, login[u], 0), "touch")
    BY <1>0, NewTokens, ByCalls DEF Fits
  <2> QED BY <1>2, <2>1, BeginInv DEF LoginWithClientUser
<1>3. ASSUME NEW u \in User, ForgetPassword(r, u) PROVE IInv'
  <2>1. Fits(By("forget", u), Token("link", u, 0, clock), "done")
    BY <1>0, NewTokens, ByCalls DEF Fits
  <2> QED BY <1>3, <2>1, BeginInv DEF ForgetPassword
<1>4. ASSUME NEW s \in Requests, GetToken(r, s) PROVE IInv'
  <2> DEFINE c == About("token", s, NoPassword, NoPassword)
             t == Token("found", made[s].user, 0, 0)
  <2>1. /\ c \in Calls /\ c.op = "token" /\ c.user = made[s].user /\ made[s].user \in User
    BY <1>0, <1>4, AboutCalls DEF GetToken
  <2>2. t \in Tokens /\ t.kind = "found" /\ t.user = made[s].user
    BY <2>1, NewTokens
  <2>3. Fits(c, t, "touch")
    BY <2>1, <2>2 DEF Fits
  <2> QED BY <1>4, <2>3, BeginInv DEF GetToken
<1>5. ASSUME NEW s \in Requests, Exchange(r, s) PROVE IInv'
  <2>1. Fits(About("exchange", s, NoPassword, NoPassword), NoToken, "revoke")
    BY <1>0, <1>5, NoTokens, AboutCalls DEF Fits, Exchange, GetRefresh
  <2> QED BY <1>5, <2>1, BeginInv DEF Exchange
<1>6. ASSUME NEW s \in Requests, Logout(r, s) PROVE IInv'
  <2>1. Fits(About("logout", s, NoPassword, NoPassword), NoToken, "revoke")
    BY <1>0, <1>6, NoTokens, AboutCalls DEF Fits, Logout, GetRefresh
  <2> QED BY <1>6, <2>1, BeginInv DEF Logout
<1>7. ASSUME NEW s \in Requests, NEW old \in Password \union {NoPassword},
             NEW new \in Password, ChangePassword(r, s, old, new)
      PROVE  IInv'
  <2> DEFINE c == About("change", s, old, new)
  <2>1. made[s].kind # "none" /\ s \in store /\ IsSession(s) /\ Begin(r, c, NoToken, "check")
    BY <1>7 DEF ChangePassword, GetRefresh
  <2>2. /\ c \in Calls /\ c.op = "change" /\ c.target = s /\ c.new = new
        /\ c.user = made[s].user /\ made[s].user \in User
    BY <2>1, AboutCalls
  <2>3. Fits(c, NoToken, "check")
    BY <2>1, <2>2, NoTokens DEF Fits
  <2> QED BY <2>1, <2>3, BeginInv
<1>8. ASSUME NEW l \in Requests, NEW new \in Password, ResetPassword(r, l, new) PROVE IInv'
  <2> DEFINE c == About("reset", l, NoPassword, new)
  <2>1. /\ made[l].kind = "link" /\ pc[l] = "done" /\ made[l] \notin revoked
        /\ Begin(r, c, NoToken, "check")
    BY <1>8 DEF ResetPassword, LinkValid, IInv, ControlOK
  <2>2. /\ c \in Calls /\ c.op = "reset" /\ c.target = l /\ c.new = new
        /\ c.user = made[l].user /\ made[l].user \in User
    BY <1>0, <2>1, AboutCalls
  <2>3. Fits(c, NoToken, "check")
    BY <2>1, <2>2, NoTokens DEF Fits
  <2> QED BY <2>1, <2>3, BeginInv
<1> QED BY <1>1, <1>2, <1>3, <1>4, <1>5, <1>6, <1>7, <1>8 DEF Start

-----------------------------------------------------------------------------
(* The theorems.                                                           *)

LEMMA InitInv == Init => IInv
<1> SUFFICES ASSUME Init PROVE IInv
  OBVIOUS
<1>1. TypeOK
  BY DEF Init, TypeOK, NoCall, NoToken, Calls, Tokens
<1>2. \A r \in Requests : pc[r] = "idle" /\ call[r].op = "none" /\ made[r].kind = "none"
  BY DEF Init, NoCall, NoToken
<1>3. store = {} /\ revoked = {} /\ patched = {}
  BY DEF Init
<1> QED
  BY <1>1, <1>2, <1>3 DEF IInv, ControlOK, RevokedOK, AloneOK, LinksOK, SessionsOK,
     EndedTokenRevoked, LinkSetsOnce

LEMMA NextInv == IInv /\ [Next]_vars => IInv'
<1> SUFFICES ASSUME IInv, [Next]_vars PROVE IInv'
  OBVIOUS
<1>1. CASE Tick
  BY <1>1, UnchangedInv DEF Tick, users, IInv, TypeOK
<1>2. ASSUME NEW r \in Requests, Start(r) \/ Continue(r) \/ Fail(r) PROVE IInv'
  <2>1. RefreshTTL \in Nat
    BY BoundsAssumption
  <2> QED BY <1>2, <2>1, StartInv, TouchInv, FindInv, StoreInv, RevokeInv, DeleteInv, CheckInv,
             PatchInv, FailInv DEF Continue
<1>3. CASE UNCHANGED vars
  BY <1>3, UnchangedInv DEF vars, users, IInv, TypeOK
<1> QED BY <1>1, <1>2, <1>3 DEF Next

THEOREM Invariance == Spec => []IInv
BY InitInv, NextInv, PTL DEF Spec

\* The stores, the users and the requests keep their types.
THEOREM TypeCorrect == Spec => []TypeOK
<1>1. IInv => TypeOK
  BY DEF IInv
<1> QED BY <1>1, Invariance, PTL

\* No access token is accepted for a session whose refresh token is gone
\* (exchangeToken, logout and resetPassword revoke first and delete then).
THEOREM EndedIsRevoked == Spec => []EndedTokenRevoked
<1>1. IInv => EndedTokenRevoked
  BY DEF IInv
<1> QED BY <1>1, Invariance, PTL

\* A steady user's session is refreshed once, and not after its end.
THEOREM OneSucceeds == Spec => []OneSuccessor
<1>1. IInv => OneSuccessor
  BY DEF IInv, SessionsOK, OneSuccessor
<1> QED BY <1>1, Invariance, PTL

\* A steady user's reset link sets a password once.
THEOREM LinkOnce == Spec => []LinkSetsOnce
<1>1. IInv => LinkSetsOnce
  BY DEF IInv
<1> QED BY <1>1, Invariance, PTL

\* A reset link is used up only by a request that has set the password.
THEOREM LinkUsedUp == Spec => []LinkUsedUpByPatch
<1>1. IInv => LinkUsedUpByPatch
  BY DEF IInv, RevokedOK, LinkUsedUpByPatch
<1> QED BY <1>1, Invariance, PTL

-----------------------------------------------------------------------------
(* The tokens a steady user holds.  Its sessions follow each other: no two  *)
(* can be refreshed at a time, and what tells the token of a new one from   *)
(* all earlier ones is lastLogin, or, after a refresh, the second.          *)

Holder == steady \ firstTime
SessionsOf(u) == {s \in Requests : IsSession(s) /\ made[s].user = u}

\* The sessions there are.
PastOK(u) ==
  /\ \A x \in SessionsOf(u) :
       /\ made[x].iat <= clock
       /\ made[x].login <= login[u]
       /\ made[x].kind = "direct" => made[x].login < login[u]
  /\ \A x, y \in SessionsOf(u) :
       /\ made[x] = made[y] => x = y
       /\ GetRefresh(y) => made[x].iat <= made[y].iat
       /\ GetRefresh(x) /\ GetRefresh(y) => x = y

\* The session that is being made.
LogsIn(r) ==
  LET u == call[r].user IN
    /\ call[r].op = "token" => made[r].kind = "found"
    /\ call[r].op = "login-token" => made[r].kind = "direct" /\ pc[r] # "find"
    /\ \A s \in SessionsOf(u) : ~GetRefresh(s)
    /\ pc[r] = "touch" /\ made[r].kind = "direct" => made[r].login = login[u]
    /\ pc[r] = "find" => \A x \in SessionsOf(u) : made[x].login < login[u]
    /\ pc[r] = "store" =>
         /\ made[r].kind = "found" => made[r].login <= login[u]
         /\ made[r].kind = "direct" => made[r].login < login[u]
         /\ \A x \in SessionsOf(u) : made[x].kind = made[r].kind => made[x].login < made[r].login
Refreshes(r) ==
  LET u == call[r].user IN
    /\ \A s \in SessionsOf(u) :
         /\ GetRefresh(s) => s = Target(r)
         /\ clock >= made[s].iat + AccessTTL
    /\ pc[r] = "store" => made[r].kind = "found" /\ made[r].login <= login[u]

NextOK(r) ==
  /\ call[r].op \in {"token", "login-token"} => LogsIn(r)
  /\ call[r].op = "exchange" => Refreshes(r)

\* What has been revoked.
RevokedSessionOK(u) ==
  /\ \A t \in revoked : t.user = u /\ t.kind \in {"direct", "found"} =>
       \E x \in SessionsOf(u) : made[x] = t
  /\ \A s \in SessionsOf(u) : s \in store /\ made[s] \in revoked =>
       \E r \in Requests : Target(r) = s /\ pc[r] = "delete"

HeldInv ==
  /\ IInv
  /\ \A r \in Requests : made[r].kind \in {"direct", "found"} => made[r].user = call[r].user
  /\ \A u \in Holder : PastOK(u) /\ RevokedSessionOK(u)
  /\ \A r \in Requests : Busy(r) /\ call[r].user \in Holder => NextOK(r)

LEMMA HeldInitInv == Init => HeldInv
<1> SUFFICES ASSUME Init PROVE HeldInv
  OBVIOUS
<1> USE DEF Init
<1>1. IInv
  BY InitInv
<1>2. \A u : SessionsOf(u) = {}
  BY DEF SessionsOf
<1> QED BY <1>1, <1>2 DEF HeldInv, PastOK, RevokedSessionOK, NoToken

\* A step that makes no session and gives no user another lastLogin: what is
\* left to see to is the requests of S, whose step it is, and the revoked tokens.
LEMMA SameSessions ==
  ASSUME HeldInv, IInv', NEW S \in SUBSET Requests,
         \A q \in Requests \ S : pc'[q] = pc[q] /\ call'[q] = call[q] /\ made'[q] = made[q],
         \A q \in S : ~IsSession(q) /\ ~IsSession(q)',
         UNCHANGED <<users, login, until>>, clock' >= clock, store' \subseteq store,
         \A q \in S : made'[q].kind \in {"direct", "found"} => made'[q].user = call'[q].user,
         \A q \in S : Busy(q)' /\ call'[q].user \in Holder => NextOK(q)',
         \A u \in Holder : RevokedSessionOK(u)'
  PROVE  HeldInv'
<1> USE DEF HeldInv, users
<1>1. Holder' = Holder
  BY DEF Holder
<1>2. \A u : SessionsOf(u)' = SessionsOf(u) /\ \A x \in SessionsOf(u) : made'[x] = made[x]
  BY DEF SessionsOf
<1>3. \A s \in Requests : GetRefresh(s)' => GetRefresh(s)
  BY DEF GetRefresh, IInv, TypeOK
<1>4. \A u \in Holder : \A x \in SessionsOf(u) :
        made[x].iat \in Nat /\ made[x].login \in Nat /\ login[u] \in Nat /\ x \in Requests
  BY DEF SessionsOf, IInv, TypeOK, Tokens, Holder
<1>5. clock \in Nat /\ clock' \in Nat /\ AccessTTL \in Nat
  BY BoundsAssumption DEF IInv, TypeOK
<1>6. ASSUME NEW u \in Holder PROVE PastOK(u)'
  BY <1>2, <1>3, <1>4, <1>5 DEF PastOK
<1>7. ASSUME NEW q \in Requests \ S, Busy(q)', call'[q].user \in Holder
      PROVE  NextOK(q)'
  <2>1. NextOK(q) /\ UNCHANGED <<pc[q], call[q], made[q], login>>
    BY <1>7
  <2>2. call[q].op \in {"token", "login-token"} => LogsIn(q)'
    BY <2>1, <1>2, <1>3, <1>4, <1>7 DEF NextOK, LogsIn
  <2>3. call[q].op = "exchange" => Refreshes(q)'
    BY <2>1, <1>2, <1>3, <1>4, <1>5, <1>7 DEF NextOK, Refreshes
  <2> QED BY <2>1, <2>2, <2>3 DEF NextOK
<1> QED BY <1>1, <1>6, <1>7

\* The same where no token is revoked and no session's end is half-way in S.
LEMMA SameRevoked ==
  ASSUME HeldInv, NEW S \in SUBSET Requests,
         \A q \in Requests \ S : pc'[q] = pc[q] /\ call'[q] = call[q] /\ made'[q] = made[q],
         \A q \in S : ~IsSession(q) /\ ~IsSession(q)',
         \A q \in S : pc[q] = "delete" =>
           \/ call[q].user \notin Holder
           \/ Target(q) \notin store',
         store' \subseteq store, UNCHANGED revoked
  PROVE  \A u \in Holder : RevokedSessionOK(u)'
<1> SUFFICES ASSUME NEW u \in Holder PROVE RevokedSessionOK(u)'
  OBVIOUS
<1>1. SessionsOf(u)' = SessionsOf(u) /\ \A x \in SessionsOf(u) : made'[x] = made[x]
  BY DEF SessionsOf
<1>2. ASSUME NEW s \in SessionsOf(u), s \in store', made[s] \in revoked
      PROVE  \E q \in Requests : Target(q)' = s /\ pc'[q] = "delete"
  <2>1. PICK q \in Requests : Target(q) = s /\ pc[q] = "delete"
    BY <1>2 DEF HeldInv, RevokedSessionOK
  <2>2. call[q].user = u
    BY <2>1 DEF HeldInv, IInv, ControlOK, AboutSession, SessionsOf
  <2>3. q \notin S
    BY <1>2, <2>1, <2>2
  <2> QED BY <2>1, <2>3
<1>3. \A t \in revoked' : t.user = u /\ t.kind \in {"direct", "found"} =>
        \E x \in SessionsOf(u)' : made'[x] = t
  BY <1>1 DEF HeldInv, RevokedSessionOK
<1> QED BY <1>1, <1>2, <1>3 DEF RevokedSessionOK

LEMMA BeginHeld ==
  ASSUME HeldInv, IInv', NEW r \in Requests, Start(r)
  PROVE  HeldInv'
<1> USE DEF HeldInv, users
<1>1. PICK c, t, at :
        /\ Begin(r, c, t, at)
        /\ t.kind \in {"direct", "found"} => t.user = c.user /\ at = "touch"
        /\ c.op = "token" => /\ t.kind = "found" /\ Without(c.user) /\ at = "touch"
        /\ c.op = "login-token" =>
             t.kind = "direct" /\ Without(c.user) /\ at = "touch" /\ t.login = login[c.user]
        /\ c.op = "exchange" =>
             /\ c.target \in SessionsOf(c.user) /\ GetRefresh(c.target)
             /\ Due(c.user, made[c.target]) /\ at = "revoke"
  <2>1. CASE \E u \in User, w \in Password : Login(r, u, w)
    BY <2>1 DEF Login, By, Token
  <2>2. CASE \E u \in User, w \in Password : LoginWithClientUser(r, u, w)
    BY <2>2 DEF LoginWithClientUser, By, Token
  <2>3. CASE \E u \in User : ForgetPassword(r, u)
    BY <2>3 DEF ForgetPassword, By, Token
  <2>4. CASE \E s \in Requests : GetToken(r, s)
    BY <2>4 DEF GetToken, About, Token
  <2>5. CASE \E s \in Requests : Exchange(r, s)
    BY <2>5 DEF Exchange, About, NoToken, SessionsOf
  <2>6. CASE \E s \in Requests : Logout(r, s)
    BY <2>6 DEF Logout, About, NoToken
  <2>7. CASE \E s \in Requests, old \in Password \union {NoPassword}, new \in Password :
               ChangePassword(r, s, old, new)
    BY <2>7 DEF ChangePassword, About, NoToken
  <2>8. CASE \E l \in Requests, new \in Password : ResetPassword(r, l, new)
    BY <2>8 DEF ResetPassword, About, NoToken
  <2> QED BY <2>1, <2>2, <2>3, <2>4, <2>5, <2>6, <2>7, <2>8 DEF Start
<1>2. /\ pc[r] = "idle"
      /\ \A q \in Requests : /\ pc'[q] = IF q = r THEN at ELSE pc[q]
                             /\ call'[q] = IF q = r THEN c ELSE call[q]
                             /\ made'[q] = IF q = r THEN t ELSE made[q]
      /\ UNCHANGED <<firstTime, steady, clock, login, store, until, revoked>>
  BY <1>1 DEF Begin, IInv, TypeOK
<1>3. ~IsSession(r) /\ ~IsSession(r)'
  BY <1>1, <1>2
<1>4. ASSUME c.user \in Holder PROVE NextOK(r)'
  <2>1. \A u : SessionsOf(u)' = SessionsOf(u) /\ \A x \in SessionsOf(u) : made'[x] = made[x]
    BY <1>2, <1>3 DEF SessionsOf
  <2>2. \A s : GetRefresh(s)' <=> GetRefresh(s)
    BY <1>2 DEF GetRefresh
  <2>3. c.user \in steady
    BY <1>4 DEF Holder
  <2>4. CASE c.op \in {"token", "login-token"}
    <3>1. \A s \in SessionsOf(c.user) : ~GetRefresh(s)
      BY <1>1, <2>3, <2>4 DEF Without, SessionsOf
    <3> QED BY <1>1, <1>2, <2>1, <2>2, <2>4, <3>1 DEF NextOK, LogsIn
  <2>5. CASE c.op = "exchange"
    <3>1. /\ c.target \in SessionsOf(c.user) /\ GetRefresh(c.target) /\ at = "revoke"
          /\ ~(clock < made[c.target].iat + AccessTTL)
      BY <1>1, <2>3, <2>5 DEF Due, Unexpired
    <3>2. ASSUME NEW s \in SessionsOf(c.user)
          PROVE  /\ GetRefresh(s) => s = c.target
                 /\ clock >= made[s].iat + AccessTTL
      <4>1. made[s].iat <= made[c.target].iat /\ (GetRefresh(s) => s = c.target)
        BY <1>4, <3>1 DEF PastOK
      <4>2. made[s].iat \in Nat /\ made[c.target].iat \in Nat /\ clock \in Nat /\ AccessTTL \in Nat
        BY <3>1, BoundsAssumption DEF SessionsOf, IInv, TypeOK, Tokens
      <4> QED BY <3>1, <4>1, <4>2
    <3> QED BY <1>2, <2>1, <2>2, <2>5, <3>1, <3>2 DEF NextOK, Refreshes
  <2>6. CASE c.op \notin {"token", "login-token", "exchange"}
    BY <1>2, <2>6 DEF NextOK
  <2> QED BY <2>4, <2>5, <2>6
<1> DEFINE S == {r}
<1>5. /\ S \in SUBSET Requests /\ clock' >= clock /\ store' \subseteq store
      /\ \A q \in Requests \ S : pc'[q] = pc[q] /\ call'[q] = call[q] /\ made'[q] = made[q]
      /\ \A q \in S : ~IsSession(q) /\ ~IsSession(q)'
      /\ \A q \in S : made'[q].kind \in {"direct", "found"} => made'[q].user = call'[q].user
      /\ \A q \in S : Busy(q)' /\ call'[q].user \in Holder => NextOK(q)'
      /\ \A q \in S : pc[q] # "delete"
  BY <1>1, <1>2, <1>3, <1>4 DEF IInv, TypeOK
<1> HIDE DEF S
<1>6. \A u \in Holder : RevokedSessionOK(u)'
  BY <1>2, <1>5, SameRevoked
<1> QED BY <1>2, <1>5, <1>6, SameSessions

LEMMA FindHeld ==
  ASSUME HeldInv, IInv', NEW r \in Requests, Find(r)
  PROVE  HeldInv'
<1> USE DEF HeldInv, users
<1> DEFINE u == call[r].user
           t == Token("found", u, login[u], 0)
           S == {r}
<1>1. /\ pc[r] = "find"
      /\ \A q \in Requests : /\ pc'[q] = IF q = r THEN "store" ELSE pc[q]
                             /\ made'[q] = IF q = r THEN t ELSE made[q]
      /\ UNCHANGED <<firstTime, steady, clock, login, store, until, revoked, call>>
  BY DEF Find, Goto, IInv, TypeOK
<1>2. ~IsSession(r) /\ ~IsSession(r)' /\ made'[r].user = call'[r].user
  BY <1>1 DEF Token
<1>3. ASSUME u \in Holder PROVE NextOK(r)'
  <2>1. \A v : SessionsOf(v)' = SessionsOf(v) /\ \A x \in SessionsOf(v) : made'[x] = made[x]
    BY <1>1, <1>2 DEF SessionsOf
  <2>2. \A s : GetRefresh(s)' <=> GetRefresh(s)
    BY <1>1 DEF GetRefresh
  <2>3. NextOK(r) /\ login[u] \in Nat
    BY <1>1, <1>3 DEF IInv, TypeOK, Holder
  <2>4. made'[r].kind = "found" /\ made'[r].login = login[u]
    BY <1>1 DEF Token
  <2> HIDE DEF t
  <2>5. ASSUME call[r].op \in {"token", "login-token"} PROVE LogsIn(r)'
    BY <1>1, <2>1, <2>2, <2>3, <2>4, <2>5 DEF NextOK, LogsIn
  <2>6. ASSUME call[r].op = "exchange" PROVE Refreshes(r)'
    BY <1>1, <2>1, <2>2, <2>3, <2>4, <2>6 DEF NextOK, Refreshes
  <2> QED BY <1>1, <2>5, <2>6 DEF NextOK
<1>5. /\ S \in SUBSET Requests /\ clock' >= clock /\ store' \subseteq store
      /\ \A q \in Requests \ S : pc'[q] = pc[q] /\ call'[q] = call[q] /\ made'[q] = made[q]
      /\ \A q \in S : ~IsSession(q) /\ ~IsSession(q)'
      /\ \A q \in S : made'[q].kind \in {"direct", "found"} => made'[q].user = call'[q].user
      /\ \A q \in S : Busy(q)' /\ call'[q].user \in Holder => NextOK(q)'
      /\ \A q \in S : pc[q] # "delete"
  BY <1>1, <1>2, <1>3 DEF IInv, TypeOK
<1> HIDE DEF S, u, t
<1>6. \A v \in Holder : RevokedSessionOK(v)'
  BY <1>1, <1>5, SameRevoked
<1> QED BY <1>1, <1>5, <1>6, SameSessions

LEMMA RevokeHeld ==
  ASSUME HeldInv, IInv', NEW r \in Requests, Revoke(r)
  PROVE  HeldInv'
<1> USE DEF HeldInv, users
<1> DEFINE t == made[Target(r)]
           next == IF call[r].op = "reset" THEN "done" ELSE "delete"
           S == {r}
<1>1. /\ pc[r] = "revoke" /\ revoked' = revoked \union {t}
      /\ \A q \in Requests : pc'[q] = IF q = r THEN next ELSE pc[q]
      /\ UNCHANGED <<firstTime, steady, clock, login, store, until, call, made>>
  BY DEF Revoke, Goto, IInv, TypeOK, RevokedWith
<1>2. made[r].kind = "none" /\ (call[r].op \in Ends \/ call[r].op = "reset")
  BY <1>1 DEF IInv, ControlOK
<1>3. ~IsSession(r) /\ ~IsSession(r)'
  BY <1>1, <1>2
<1>4. \A v : SessionsOf(v)' = SessionsOf(v)
  BY <1>1, <1>3 DEF SessionsOf
<1>5. ASSUME call[r].user \in Holder, Busy(r)' PROVE NextOK(r)'
  <2>1. \A s : GetRefresh(s)' <=> GetRefresh(s)
    BY <1>1 DEF GetRefresh
  <2> QED BY <1>1, <1>2, <1>4, <1>5, <2>1 DEF NextOK, Refreshes
<1>6. ASSUME NEW u \in Holder PROVE RevokedSessionOK(u)'
  <2>1. call[r].op = "reset" => t.kind = "link"
    BY DEF IInv, ControlOK, AboutLink
  <2>2. call[r].op \in Ends => Target(r) \in SessionsOf(t.user) /\ pc'[r] = "delete"
    BY <1>1 DEF IInv, ControlOK, AboutSession, SessionsOf
  <2>3. \A x \in revoked' : x.user = u /\ x.kind \in {"direct", "found"} =>
          \E s \in SessionsOf(u) : made[s] = x
    BY <1>1, <1>2, <2>1, <2>2 DEF RevokedSessionOK
  <2>4. ASSUME NEW s \in SessionsOf(u), s \in store, made[s] \in revoked'
        PROVE  \E q \in Requests : Target(q) = s /\ pc'[q] = "delete"
    <3>1. CASE made[s] \in revoked
      BY <1>1, <2>4, <3>1 DEF RevokedSessionOK
    <3>2. CASE made[s] = t
      <4>1. t.user = u /\ t.kind # "link"
        BY <3>2 DEF SessionsOf
      <4>2. Target(r) \in SessionsOf(u) /\ pc'[r] = "delete"
        BY <1>2, <2>1, <2>2, <4>1
      <4>3. Target(r) = s
        BY <3>2, <4>2 DEF PastOK
      <4> QED BY <4>2, <4>3
    <3> QED BY <1>1, <2>4, <3>1, <3>2
  <2> QED BY <1>1, <1>4, <2>3, <2>4 DEF RevokedSessionOK
<1>7. /\ S \in SUBSET Requests /\ clock' >= clock /\ store' \subseteq store
      /\ \A q \in Requests \ S : pc'[q] = pc[q] /\ call'[q] = call[q] /\ made'[q] = made[q]
      /\ \A q \in S : ~IsSession(q) /\ ~IsSession(q)'
      /\ \A q \in S : made'[q].kind \in {"direct", "found"} => made'[q].user = call'[q].user
      /\ \A q \in S : Busy(q)' /\ call'[q].user \in Holder => NextOK(q)'
  BY <1>1, <1>2, <1>3, <1>5 DEF IInv, TypeOK
<1> HIDE DEF S, t, next
<1> QED BY <1>1, <1>6, <1>7, SameSessions

LEMMA DeleteHeld ==
  ASSUME HeldInv, IInv', NEW r \in Requests, Delete(r)
  PROVE  HeldInv'
<1> USE DEF HeldInv, users
<1> DEFINE next == IF call[r].op = "exchange" THEN "find" ELSE "done"
           S == {r}
<1>1. /\ pc[r] = "delete" /\ store' = store \ {Target(r)}
      /\ \A q \in Requests : pc'[q] = IF q = r THEN next ELSE pc[q]
      /\ UNCHANGED <<firstTime, steady, clock, login, until, revoked, call, made>>
  BY DEF Delete, Goto, IInv, TypeOK, StoreWithout
<1>2. made[r].kind = "none" /\ call[r].op \in Ends
  BY <1>1 DEF IInv, ControlOK
<1>3. ~IsSession(r) /\ ~IsSession(r)'
  BY <1>1, <1>2
<1>4. ASSUME call[r].user \in Holder, Busy(r)' PROVE NextOK(r)'
  <2>1. \A s : GetRefresh(s)' => GetRefresh(s)
    BY <1>1 DEF GetRefresh
  <2>2. \A v : SessionsOf(v)' = SessionsOf(v)
    BY <1>1, <1>3 DEF SessionsOf
  <2> QED BY <1>1, <1>2, <1>4, <2>1, <2>2 DEF NextOK, Refreshes
<1>5. /\ S \in SUBSET Requests /\ clock' >= clock /\ store' \subseteq store
      /\ \A q \in Requests \ S : pc'[q] = pc[q] /\ call'[q] = call[q] /\ made'[q] = made[q]
      /\ \A q \in S : ~IsSession(q) /\ ~IsSession(q)'
      /\ \A q \in S : made'[q].kind \in {"direct", "found"} => made'[q].user = call'[q].user
      /\ \A q \in S : Busy(q)' /\ call'[q].user \in Holder => NextOK(q)'
      /\ \A q \in S : Target(q) \notin store'
  BY <1>1, <1>2, <1>3, <1>4 DEF IInv, TypeOK
<1> HIDE DEF S, next
<1>6. \A v \in Holder : RevokedSessionOK(v)'
  BY <1>1, <1>5, SameRevoked
<1> QED BY <1>1, <1>5, <1>6, SameSessions

LEMMA CheckHeld ==
  ASSUME HeldInv, IInv', NEW r \in Requests, Check(r) \/ Patch(r) \/ Fail(r)
  PROVE  HeldInv'
<1> USE DEF HeldInv, users
<1> DEFINE S == {r}
<1>1. PICK at \in {"patch", "failed", "revoke"} :
        /\ \A q \in Requests : pc'[q] = IF q = r THEN at ELSE pc[q]
        /\ pc[r] \in {"check", "patch"} \/ (call[r].user \notin steady /\ at = "failed")
        /\ pc[r] # "done"
        /\ UNCHANGED <<firstTime, steady, clock, login, store, until, revoked, call, made>>
  BY DEF Check, Patch, Fail, Goto, IInv, TypeOK
<1>2. ~IsSession(r) /\ ~IsSession(r)'
  BY <1>1
<1>3. Busy(r)' => call[r].op \in {"change", "reset"}
  BY <1>1 DEF IInv, ControlOK
<1>4. Busy(r)' => NextOK(r)'
  BY <1>1, <1>3 DEF NextOK
<1>5. pc[r] = "delete" => call[r].user \notin Holder
  BY <1>1 DEF Holder
<1>6. /\ S \in SUBSET Requests /\ clock' >= clock /\ store' \subseteq store
      /\ \A q \in Requests \ S : pc'[q] = pc[q] /\ call'[q] = call[q] /\ made'[q] = made[q]
      /\ \A q \in S : ~IsSession(q) /\ ~IsSession(q)'
      /\ \A q \in S : made'[q].kind \in {"direct", "found"} => made'[q].user = call'[q].user
      /\ \A q \in S : Busy(q)' /\ call'[q].user \in Holder => NextOK(q)'
      /\ \A q \in S : pc[q] = "delete" => call[q].user \notin Holder
  BY <1>1, <1>2, <1>4, <1>5 DEF IInv, TypeOK
<1> HIDE DEF S
<1>7. \A v \in Holder : RevokedSessionOK(v)'
  BY <1>1, <1>6, SameRevoked
<1> QED BY <1>1, <1>6, <1>7, SameSessions

LEMMA ClockHeld ==
  ASSUME HeldInv, IInv', Tick \/ UNCHANGED vars
  PROVE  HeldInv'
<1> USE DEF HeldInv, users, vars
<1> DEFINE S == {}
<1>1. /\ clock' >= clock
      /\ UNCHANGED <<firstTime, steady, login, store, until, revoked, pc, call, made>>
  BY DEF Tick, IInv, TypeOK
<1>2. /\ S \in SUBSET Requests
      /\ \A q \in Requests \ S : pc'[q] = pc[q] /\ call'[q] = call[q] /\ made'[q] = made[q]
      /\ \A q \in S : FALSE
  BY <1>1
<1> HIDE DEF S
<1>3. \A v \in Holder : RevokedSessionOK(v)'
  BY <1>1, <1>2, SameRevoked
<1> QED BY <1>1, <1>2, <1>3, SameSessions

\* Logging in: what the earlier sessions have as lastLogin is now in the past.
LEMMA TouchHeld ==
  ASSUME HeldInv, IInv', NEW r \in Requests, Touch(r)
  PROVE  HeldInv'
<1> USE DEF HeldInv, users
<1> DEFINE u == call[r].user
           next == IF made[r].kind = "found" THEN "find" ELSE "store"
<1>1. /\ pc[r] = "touch" /\ login' = LoginUpdated(u)
      /\ \A q \in Requests : pc'[q] = IF q = r THEN next ELSE pc[q]
      /\ UNCHANGED <<firstTime, steady, clock, store, until, revoked, call, made>>
  BY DEF Touch, Goto, IInv, TypeOK
<1>2. /\ u \in User /\ call[r].op \in {"token", "login-token"}
      /\ made[r].kind \in {"found", "direct"}
  BY <1>1 DEF IInv, ControlOK
<1>3. /\ \A v \in User \ {u} : login'[v] = login[v]
      /\ u \in Holder => login'[u] = login[u] + 1
      /\ \A v \in User : login[v] \in Nat
  BY <1>1, <1>2 DEF LoginUpdated, Holder, IInv, TypeOK
<1>4. ~IsSession(r) /\ ~IsSession(r)'
  BY <1>1
<1>5. \A v : SessionsOf(v)' = SessionsOf(v)
  BY <1>1, <1>4 DEF SessionsOf
<1>6. \A s : GetRefresh(s)' <=> GetRefresh(s)
  BY <1>1 DEF GetRefresh
<1>7. Holder \subseteq User /\ Holder' = Holder
  BY <1>1 DEF Holder, IInv, TypeOK
<1>8. \A v \in Holder : \A x \in SessionsOf(v) : made[x].iat \in Nat /\ made[x].login \in Nat
  BY DEF SessionsOf, IInv, TypeOK, Tokens
<1>9. ASSUME NEW v \in Holder PROVE PastOK(v)'
  <2>1. login'[v] >= login[v] /\ login[v] \in Nat /\ login'[v] \in Nat
    BY <1>3, <1>7
  <2> QED BY <1>1, <1>5, <1>6, <1>8, <2>1 DEF PastOK
<1>10. ASSUME NEW v \in Holder PROVE RevokedSessionOK(v)'
  BY <1>1, <1>5, <1>10 DEF RevokedSessionOK
<1>11. ASSUME u \in Holder PROVE NextOK(r)'
  <2>1. PastOK(u) /\ LogsIn(r)
    BY <1>1, <1>2, <1>11 DEF NextOK
  <2>2. login'[u] = login[u] + 1 /\ login[u] \in Nat
    BY <1>3, <1>7, <1>11
  <2>3. \A x \in SessionsOf(u) : made[x].login < login'[u]
    BY <1>8, <1>11, <2>1, <2>2 DEF PastOK
  <2>4. CASE made[r].kind = "found"
    BY <1>1, <1>2, <1>5, <1>6, <2>1, <2>3, <2>4 DEF NextOK, LogsIn
  <2>5. CASE made[r].kind = "direct"
    <3>1. made[r].login = login[u] /\ \A x \in SessionsOf(u) :
            made[x].kind = "direct" => made[x].login < login[u]
      BY <1>1, <2>1, <2>5 DEF LogsIn, PastOK
    <3>2. pc'[r] = "store" /\ made[r].login < login'[u]
      BY <1>1, <2>2, <2>5, <3>1
    <3> QED BY <1>1, <1>2, <1>5, <1>6, <2>1, <2>5, <3>1, <3>2 DEF NextOK, LogsIn
  <2> QED BY <1>2, <2>4, <2>5
<1>12. ASSUME NEW q \in Requests \ {r}, Busy(q)', call'[q].user \in Holder
       PROVE  NextOK(q)'
  <2>1. Busy(q) /\ call[q].user \in Holder /\ call[q].user \in steady
    BY <1>1, <1>12 DEF Holder
  <2>2. call[q].user # u
    BY <1>1, <2>1 DEF IInv, AloneOK
  <2>3. login'[call[q].user] = login[call[q].user]
    BY <1>3, <1>7, <2>1, <2>2
  <2>4. NextOK(q)
    BY <2>1
  <2> QED BY <1>1, <1>5, <1>6, <2>3, <2>4 DEF NextOK, LogsIn, Refreshes
<1> QED BY <1>1, <1>7, <1>9, <1>10, <1>11, <1>12

\* A session is made: its token is none of the user's earlier ones.
LEMMA StoreHeld ==
  ASSUME HeldInv, IInv', NEW r \in Requests, Store(r), AccessTTL > 0
  PROVE  HeldInv'
<1> USE DEF HeldInv, users
<1> DEFINE w == call[r].user
           t == [made[r] EXCEPT !.iat = clock]
<1>1. /\ pc[r] = "store" /\ store' = store \union {r} /\ until'[r] = clock + RefreshTTL
      /\ \A q \in Requests : /\ pc'[q] = IF q = r THEN "done" ELSE pc[q]
                             /\ made'[q] = IF q = r THEN t ELSE made[q]
                             /\ q # r => until'[q] = until[q]
      /\ UNCHANGED <<firstTime, steady, clock, login, revoked, call>>
  BY DEF Store, Goto, IInv, TypeOK
<1>2. /\ t.kind = made[r].kind /\ t.user = made[r].user /\ t.login = made[r].login
      /\ t.iat = clock
  BY DEF IInv, TypeOK, Tokens
<1> HIDE DEF t
<1>3. Holder' = Holder
  BY <1>1 DEF Holder
<1>4. \A q \in Requests : made'[q].kind \in {"direct", "found"} => made'[q].user = call'[q].user
  BY <1>1, <1>2
<1>5. \A v : /\ SessionsOf(v) \subseteq SessionsOf(v)'
             /\ \A x \in SessionsOf(v)' \ {r} : x \in SessionsOf(v)
             /\ \A x \in SessionsOf(v) : x # r /\ made'[x] = made[x]
  BY <1>1 DEF SessionsOf
<1>6. \A s \in Requests \ {r} : GetRefresh(s)' <=> GetRefresh(s)
  BY <1>1 DEF GetRefresh
<1>7. clock \in Nat /\ AccessTTL \in Nat
  BY BoundsAssumption DEF IInv, TypeOK
<1>8. \A v : \A x \in SessionsOf(v) :
        made[x].iat \in Nat /\ made[x].login \in Nat /\ x \in Requests
  BY DEF SessionsOf, IInv, TypeOK, Tokens
<1>9. ASSUME NEW v \in Holder, v # w
      PROVE  SessionsOf(v)' = SessionsOf(v)
  <2>1. r \notin SessionsOf(v)'
    BY <1>4, <1>9, <1>1 DEF SessionsOf
  <2> QED BY <1>5, <2>1
<1>10. ASSUME w \in Holder
       PROVE  /\ \A x \in SessionsOf(w) :
                   /\ made[x].kind = t.kind => made[x].login < t.login \/ made[x].iat < t.iat
                   /\ ~GetRefresh(x)
              /\ t.login <= login[w] /\ (t.kind = "direct" => t.login < login[w])
              /\ t.kind \in {"direct", "found"}
  <2>1. NextOK(r) /\ call[r].op \in {"token", "login-token", "exchange"}
        /\ login[w] \in Nat /\ made[r].login \in Nat
    BY <1>1, <1>10 DEF IInv, ControlOK, TypeOK, Tokens, Holder
  <2>2. CASE call[r].op \in {"token", "login-token"}
    BY <1>1, <1>2, <2>1, <2>2 DEF NextOK, LogsIn
  <2>3. CASE call[r].op = "exchange"
    <3>1. Refreshes(r)
      BY <2>1, <2>3 DEF NextOK
    <3>2. Target(r) \notin store
      BY <1>1, <1>10, <2>3 DEF IInv, SessionsOK, Holder
    <3>3. \A x \in SessionsOf(w) : ~GetRefresh(x) /\ made[x].iat < clock
      BY <1>7, <1>8, <3>1, <3>2 DEF Refreshes, GetRefresh
    <3> QED BY <1>1, <1>2, <3>1, <3>3 DEF Refreshes
  <2> QED BY <2>1, <2>2, <2>3
<1>11. ASSUME NEW v \in Holder PROVE PastOK(v)'
  <2>1. PastOK(v) /\ \A x \in SessionsOf(v) : made[x].iat <= clock
    BY DEF PastOK
  <2>2. CASE v # w
    <3>1. r \notin SessionsOf(v)
      BY <1>5
    <3> QED BY <1>1, <1>5, <1>6, <1>8, <1>9, <2>1, <2>2, <3>1 DEF PastOK
  <2>3. CASE v = w
    <3>1. \A x \in SessionsOf(v) :
            made'[x] # made'[r] /\ ~GetRefresh(x)' /\ made'[x].iat <= made'[r].iat
      BY <1>1, <1>2, <1>5, <1>6, <1>7, <1>8, <1>10, <2>1, <2>3
    <3>2. \A x \in SessionsOf(v)' : x = r \/ x \in SessionsOf(v)
      BY <1>5
    <3>3. made'[r].iat = clock /\ made'[r].login <= login[v]
          /\ (made'[r].kind = "direct" => made'[r].login < login[v])
      BY <1>1, <1>2, <1>10, <2>3
    <3>4. ASSUME NEW x \in SessionsOf(v)'
          PROVE  /\ made'[x].iat <= clock'
                 /\ made'[x].login <= login'[v]
                 /\ made'[x].kind = "direct" => made'[x].login < login'[v]
      BY <1>1, <1>5, <1>7, <2>1, <3>2, <3>3 DEF PastOK
    <3>5. ASSUME NEW x \in SessionsOf(v)', NEW y \in SessionsOf(v)'
          PROVE  /\ made'[x] = made'[y] => x = y
                 /\ GetRefresh(y)' => made'[x].iat <= made'[y].iat
                 /\ GetRefresh(x)' /\ GetRefresh(y)' => x = y
      <4>1. CASE x = r /\ y = r
        BY <1>7, <3>3, <4>1
      <4>2. CASE x # r /\ y = r
        BY <3>1, <3>2, <4>2
      <4>3. CASE x = r /\ y # r
        BY <3>1, <3>2, <4>3
      <4>4. CASE x # r /\ y # r
        BY <1>5, <1>6, <1>8, <2>1, <3>2, <4>4 DEF PastOK
      <4> QED BY <4>1, <4>2, <4>3, <4>4
    <3> QED BY <3>4, <3>5 DEF PastOK
  <2> QED BY <2>2, <2>3
<1>12. ASSUME NEW v \in Holder PROVE RevokedSessionOK(v)'
  <2>1. RevokedSessionOK(v)
    OBVIOUS
  <2>2. \A x \in revoked : x.user = v /\ x.kind \in {"direct", "found"} =>
          \E s \in SessionsOf(v)' : made'[s] = x
    BY <1>5, <2>1 DEF RevokedSessionOK
  <2>3. ASSUME NEW s \in SessionsOf(v)', made'[s] \in revoked, s \in store'
        PROVE  \E q \in Requests : Target(q) = s /\ pc'[q] = "delete"
    <3>1. CASE s # r
      <4>1. PICK q \in Requests : Target(q) = s /\ pc[q] = "delete"
        BY <1>1, <1>5, <2>1, <2>3, <3>1 DEF RevokedSessionOK
      <4> QED BY <1>1, <4>1
    <3>2. CASE s = r
      <4>1. v = w
        BY <1>5, <1>9, <3>2
      <4>2. made'[r] = t /\ t.user = v /\ t.kind \in {"direct", "found"}
        BY <1>1, <1>10, <2>3, <3>2, <4>1 DEF SessionsOf
      <4>3. PICK x \in SessionsOf(v) : made[x] = t
        BY <2>1, <2>3, <3>2, <4>2 DEF RevokedSessionOK
      <4>4. \A a, b \in SessionsOf(v)' : made'[a] = made'[b] => a = b
        BY <1>11 DEF PastOK
      <4>5. x = r
        BY <1>5, <2>3, <3>2, <4>2, <4>3, <4>4
      <4> QED BY <1>5, <4>5
    <3> QED BY <3>1, <3>2
  <2> QED BY <1>1, <2>2, <2>3 DEF RevokedSessionOK
<1>13. ASSUME NEW q \in Requests, Busy(q)', call'[q].user \in Holder
       PROVE  NextOK(q)'
  <2>1. q # r /\ Busy(q) /\ NextOK(q) /\ call[q].user \in Holder /\ call[q].user \in steady
    BY <1>1, <1>13 DEF Holder
  <2>2. call[q].user # w
    BY <1>1, <2>1 DEF IInv, AloneOK
  <2>3. PICK v \in Holder : v = call[q].user /\ v # w
    BY <2>1, <2>2
  <2>4. SessionsOf(v)' = SessionsOf(v)
    BY <1>9, <2>3
  <2>5. \A x \in SessionsOf(v) :
          made'[x] = made[x] /\ (GetRefresh(x)' <=> GetRefresh(x))
    BY <1>5, <1>6, <1>8
  <2>6. made'[q] = made[q] /\ pc'[q] = pc[q]
    BY <1>1, <2>1
  <2> QED BY <1>1, <2>1, <2>3, <2>4, <2>5, <2>6 DEF NextOK, LogsIn, Refreshes
<1> QED BY <1>3, <1>4, <1>11, <1>12, <1>13

LEMMA HeldNextInv ==
  ASSUME AccessTTL > 0
  PROVE  HeldInv /\ [Next]_vars => HeldInv'
<1> SUFFICES ASSUME HeldInv, [Next]_vars PROVE HeldInv'
  OBVIOUS
<1>1. IInv'
  BY NextInv DEF HeldInv
<1> QED BY <1>1, BeginHeld, TouchHeld, FindHeld, StoreHeld, RevokeHeld, DeleteHeld, CheckHeld,
           ClockHeld
        DEF Next, Continue

\* Between its requests, a steady user's access token works until it expires:
\* neither a refresh nor the end of any other session revokes it, as no two of
\* the user's sessions have the same token (createJWT).  A client whose access
\* tokens expire in the second they are signed is out of it: there a refresh
\* returns the token it has revoked.
THEOREM HeldTokensWork == ASSUME AccessTTL > 0 PROVE Spec => []HeldTokenWorks
<1>1. Spec => []HeldInv
  BY HeldInitInv, HeldNextInv, PTL DEF Spec
<1>2. HeldInv => HeldTokenWorks
  BY DEF HeldInv, RevokedSessionOK, HeldTokenWorks, SessionsOf, Holder
<1> QED BY <1>1, <1>2, PTL
=============================================================================
