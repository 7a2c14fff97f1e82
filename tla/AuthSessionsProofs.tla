------------------------- MODULE AuthSessionsProofs -------------------------
(***************************************************************************)
(* Proofs about AuthSessions, for any number of requests, tokens, links    *)
(* and passwords.                                                          *)
(*                                                                         *)
(* The inductive invariant IInv follows a sign-in through the requests     *)
(* that exchange its token: from the moment the old token is consumed to   *)
(* the moment the new one is stored, the sign-in has no valid token and    *)
(* one request (ReplacedIsOver).  A reset link is followed in the same way *)
(* from its consumption to the password it replaces (UsableLinksAreNew,    *)
(* OneHolderOfLink).                                                       *)
(***************************************************************************)
EXTENDS MCAuthSessions, TLAPS

Logins == ReplacedIsOver /\ LoginsAreTokens /\ OneSessionPerLogin

LinkUses == UsableLinksAreNew /\ OneHolderOfLink

LEMMA SessionShape ==
  ASSUME TypeOK, NEW t \in Tokens, session[t] # NoSession
  PROVE  /\ session[t] \in Session
         /\ session[t].login \in Tokens /\ session[t].under \in Passwords
  BY DEF TypeOK, Session

(* Tokens may become invalid, but none is issued and nobody starts to      *)
(* exchange one.                                                           *)
LEMMA NoNewLogins ==
  ASSUME IInv, Open' => Open,
         \A t \in Tokens : /\ session'[t] # NoSession <=> session[t] # NoSession
                           /\ session'[t] # NoSession => session'[t].login = session[t].login
                           /\ Live(t)' => Live(t),
         \A s \in Requests, l \in Tokens : Replaces(s, l)' => Replaces(s, l)
  PROVE  Logins'
<1>1. ReplacedIsOver'
  BY DEF IInv, ReplacedIsOver, Live
<1>2. LoginsAreTokens'
  <2>1. \A t \in Tokens : session[t] # NoSession => session[t].login \in Tokens
    BY SessionShape DEF IInv
  <2> QED  BY <2>1 DEF IInv, LoginsAreTokens
<1>3. OneSessionPerLogin'
  BY DEF IInv, OneSessionPerLogin, Live
<1> QED  BY <1>1, <1>2, <1>3 DEF Logins

(* Links may become unusable, but none is consumed.                        *)
LEMMA NoNewLinkUses ==
  ASSUME IInv, Open' => Open, UNCHANGED replaced,
         \A k \in Links : link'[k] # "over" => link[k] # "over" \/ ~ Open',
         \A s \in Requests, k \in Links : Holds(s, k)' => Holds(s, k)
  PROVE  LinkUses'
  BY DEF IInv, LinkUses, UsableLinksAreNew, OneHolderOfLink

(* With the types, what is left of IInv is about the account.              *)
LEMMA Assembled ==
  ASSUME TypeOK', Logins', LinkUses', NothingBeforeAccount', NothingOutlivesAccount'
  PROVE  IInv'
  BY DEF IInv, Logins, LinkUses
-----------------------------------------------------------------------------
(* The types.                                                              *)

LEMMA TypeKept ==
  ASSUME IInv, Next
  PROVE  TypeOK'
<1>1. /\ password \in Passwords \cup {NoAccount, Deleted}
      /\ used \subseteq Passwords
      /\ session \in [Tokens -> Session \cup {NoSession}]
      /\ link \in [Links -> {"none", "usable", "over"}]
      /\ replaced \subseteq Links
      /\ req \in [Requests -> Request]
  BY DEF IInv, TypeOK
<1>2. Idle \in Request /\ [kind |-> "delete"] \in Request
  BY DEF Request
<1>3. \A p \in Passwords : [kind |-> "issue", login |-> Fresh, under |-> p] \in Request
  BY DEF Request
<1>4. ASSUME NEW t \in Tokens, Live(t)
      PROVE  /\ [session[t] EXCEPT !.status = "over"] \in Session
             /\ session[t].login \in Tokens /\ session[t].under \in Passwords
  BY <1>1, <1>4 DEF Live, Session
<1>5. ASSUME NEW s \in Requests, NEW p \in Passwords, Register(s, p) PROVE TypeOK'
  BY <1>1, <1>3, <1>5 DEF Register, Begin, TypeOK
<1>6. ASSUME NEW s \in Requests, Login(s) \/ DeleteAccount(s) \/ Fail(s) PROVE TypeOK'
  BY <1>1, <1>2, <1>3, <1>6 DEF Login, DeleteAccount, Fail, Begin, Become, Open, TypeOK
<1>7. ASSUME NEW s \in Requests, NEW t \in Tokens, Refresh(s, t) PROVE TypeOK'
  <2>1. [kind |-> "issue", login |-> session[t].login, under |-> session[t].under] \in Request
    BY <1>4, <1>7 DEF Refresh, Request
  <2>2. session' = [session EXCEPT ![t] = [session[t] EXCEPT !.status = "over"]]
    BY <1>1, <1>7 DEF Refresh
  <2> QED  BY <1>1, <1>4, <1>7, <2>1, <2>2 DEF Refresh, Begin, TypeOK
<1>8. ASSUME NEW s \in Requests, NEW t \in Tokens, Issue(s, t) PROVE TypeOK'
  <2>1. req[s].login \in Tokens \cup {Fresh} /\ req[s].under \in Passwords
    BY <1>1, <1>8 DEF Issue, Request, Idle
  <2>2. [login  |-> IF req[s].login = Fresh THEN t ELSE req[s].login,
         under  |-> req[s].under,
         status |-> "live"] \in Session
    BY <2>1 DEF Session
  <2> QED  BY <1>1, <1>2, <1>8, <2>2 DEF Issue, Become, TypeOK
<1>9. ASSUME NEW t \in Tokens, EndSession(t) PROVE TypeOK'
  <2>1. session' = [session EXCEPT ![t] = [session[t] EXCEPT !.status = "over"]]
    BY <1>1, <1>9 DEF EndSession
  <2> QED  BY <1>1, <1>4, <1>9, <2>1 DEF EndSession, TypeOK
<1>10. ASSUME NEW k \in Links, RequestPasswordReset(k) \/ ExpireLink(k) PROVE TypeOK'
  BY <1>1, <1>10 DEF RequestPasswordReset, ExpireLink, TypeOK
<1>11. ASSUME NEW s \in Requests, NEW p \in Passwords,
              \/ CheckPassword(s, p)
              \/ \E k \in Links : ConsumePasswordResetToken(s, k, p)
       PROVE  TypeOK'
  <2>1. \A k \in Links \cup {Form} : [kind |-> "write", new |-> p, by |-> k] \in Request
    BY DEF Request
  <2> QED  BY <1>1, <1>11, <2>1 DEF CheckPassword, ConsumePasswordResetToken, Begin, TypeOK
<1>12. ASSUME NEW s \in Requests, WritePassword(s) PROVE TypeOK'
  <2>1. req[s].new \in Passwords /\ req[s].by \in Links \cup {Form}
    BY <1>1, <1>12 DEF WritePassword, Request, Idle
  <2>2. [req[s] EXCEPT !.kind = "revoke"] \in Request
    BY <1>1, <1>12 DEF WritePassword, Request, Idle
  <2> QED  BY <1>1, <1>12, <2>1, <2>2 DEF WritePassword, Become, TypeOK
<1>13. ASSUME NEW s \in Requests, RevokeAllSessions(s) PROVE TypeOK'
  <2>1. req[s].new \in Passwords
    BY <1>1, <1>13 DEF RevokeAllSessions, Request, Idle
  <2>2. session' \in [Tokens -> Session \cup {NoSession}]
    BY <1>1, <1>4, <1>13 DEF RevokeAllSessions
  <2> QED  BY <1>1, <1>2, <1>3, <1>13, <2>1, <2>2 DEF RevokeAllSessions, Become, TypeOK
<1>14. ASSUME NEW s \in Requests, DeleteUser(s) PROVE TypeOK'
  BY <1>1, <1>2, <1>14 DEF DeleteUser, Become, TypeOK
<1> QED  BY <1>5, <1>6, <1>7, <1>8, <1>9, <1>10, <1>11, <1>12, <1>13, <1>14
         DEF Next
-----------------------------------------------------------------------------
(* The steps.                                                              *)

(* What a step of one request does to the others.                          *)
LEMMA OthersKeep ==
  ASSUME TypeOK, NEW s \in Requests, NEW x, req' = [req EXCEPT ![s] = x]
  PROVE  /\ req'[s] = x
         /\ \A r \in Requests \ {s} : req'[r] = req[r]
  BY DEF TypeOK

(* A step that leaves the account as it is keeps what is known of it.      *)
LEMMA SameAccount ==
  ASSUME IInv, UNCHANGED <<password, replaced>>, password # NoAccount,
         Open \/ UNCHANGED <<session, link>>
  PROVE  NothingBeforeAccount' /\ NothingOutlivesAccount'
  BY DEF IInv, NothingBeforeAccount, NothingOutlivesAccount, Open

LEMMA AccountExists ==
  ASSUME IInv, NEW s \in Requests, req[s] # Idle
  PROVE  password # NoAccount
  BY DEF IInv, NothingBeforeAccount

LEMMA OpenExists ==
  ASSUME Open
  PROVE  password # NoAccount
  BY AuthAssumption DEF Open

LEMMA LiveIsOpen ==
  ASSUME IInv, NEW t \in Tokens, Live(t)
  PROVE  Open
  BY DEF IInv, NothingOutlivesAccount, Live

LEMMA LinkIsOpen ==
  ASSUME IInv, NEW k \in Links, link[k] # "none"
  PROVE  Open
  BY DEF IInv, NothingOutlivesAccount

LEMMA RegisterKeeps ==
  ASSUME IInv, TypeOK', NEW s \in Requests, NEW p \in Passwords, Register(s, p)
  PROVE  IInv'
<1>1. /\ \A t \in Tokens : session'[t] = NoSession
      /\ \A k \in Links : link'[k] = "none"
      /\ replaced' = {}
      /\ Open' /\ password' # NoAccount
  BY AuthAssumption
     DEF Register, IInv, NothingOutlivesAccount, NothingBeforeAccount, Open
<1>2. \A r \in Requests : /\ \A l \in Tokens : ~ Replaces(r, l)'
                          /\ \A k \in Links : ~ Holds(r, k)'
  <2>1. \A r \in Requests : req'[r] \in {Idle, [kind |-> "issue", login |-> Fresh, under |-> p]}
    BY DEF Register, Begin, IInv, TypeOK, NothingBeforeAccount
  <2> QED  BY <2>1, AuthAssumption DEF Replaces, Holds, Idle
<1>3. Logins'
  BY <1>1, <1>2 DEF Logins, ReplacedIsOver, LoginsAreTokens, OneSessionPerLogin, Live
<1>4. LinkUses'
  BY <1>1, <1>2 DEF LinkUses, UsableLinksAreNew, OneHolderOfLink
<1>5. NothingBeforeAccount' /\ NothingOutlivesAccount'
  BY <1>1 DEF NothingBeforeAccount, NothingOutlivesAccount
<1> QED  BY <1>3, <1>4, <1>5, Assembled

(* Requests that start without consuming anything, requests that fail, and *)
(* what time and users do to tokens and links.                             *)
LEMMA QuietKeeps ==
  ASSUME IInv, TypeOK', UNCHANGED <<password, replaced>>,
         password # NoAccount, Open \/ UNCHANGED <<session, link>>,
         \A t \in Tokens : /\ session'[t] # NoSession <=> session[t] # NoSession
                           /\ session'[t] # NoSession => session'[t].login = session[t].login
                           /\ Live(t)' => Live(t),
         \A k \in Links : link'[k] # "over" => link[k] # "over",
         \A s \in Requests : /\ \A l \in Tokens : Replaces(s, l)' => Replaces(s, l)
                             /\ \A k \in Links : Holds(s, k)' => Holds(s, k)
  PROVE  IInv'
<1>1. Open' => Open
  BY DEF Open
<1>2. Logins'
  BY <1>1, NoNewLogins
<1>3. LinkUses'
  BY <1>1, NoNewLinkUses
<1> QED  BY <1>2, <1>3, SameAccount, Assembled

LEMMA StartOrFailKeeps ==
  ASSUME IInv, TypeOK', NEW s \in Requests,
         \/ Login(s) \/ DeleteAccount(s) \/ Fail(s)
         \/ \E p \in Passwords : CheckPassword(s, p)
  PROVE  IInv'
<1>1. UNCHANGED <<password, replaced, session, link>> /\ password # NoAccount
  BY OpenExists, AccountExists DEF Login, DeleteAccount, Fail, CheckPassword
<1>2. ~ (\E l \in Tokens : Replaces(s, l)') /\ ~ (\E k \in Links : Holds(s, k)')
  <2>1. CASE Login(s)
    <3>1. req'[s].kind = "issue" /\ req'[s].login = Fresh
      BY <2>1 DEF IInv, TypeOK, Login, Begin
    <3> QED  BY <3>1, AuthAssumption DEF Replaces, Holds
  <2>2. CASE DeleteAccount(s) \/ Fail(s)
    <3>1. req'[s].kind \in {"none", "delete"}
      BY <2>2, OthersKeep DEF IInv, DeleteAccount, Fail, Begin, Become, Idle
    <3> QED  BY <3>1 DEF Replaces, Holds
  <2>3. CASE \E p \in Passwords : CheckPassword(s, p)
    <3>1. req'[s].kind = "write" /\ req'[s].by = Form
      BY <2>3 DEF IInv, TypeOK, CheckPassword, Begin
    <3> QED  BY <3>1, AuthAssumption DEF Replaces, Holds
  <2> QED  BY <2>1, <2>2, <2>3
<1>3. \A r \in Requests \ {s} : req'[r] = req[r]
  BY OthersKeep DEF IInv, Login, DeleteAccount, Fail, CheckPassword, Begin, Become
<1>4. \A r \in Requests : /\ \A l \in Tokens : Replaces(r, l)' => Replaces(r, l)
                          /\ \A k \in Links : Holds(r, k)' => Holds(r, k)
  BY <1>2, <1>3 DEF Replaces, Holds
<1> QED  BY <1>1, <1>4, QuietKeeps DEF Live

LEMMA EndSessionKeeps ==
  ASSUME IInv, TypeOK', NEW t \in Tokens, EndSession(t)
  PROVE  IInv'
<1>1. /\ UNCHANGED <<password, replaced, link, req>>
      /\ session' = [session EXCEPT ![t] = [session[t] EXCEPT !.status = "over"]]
      /\ Live(t) /\ Open /\ password # NoAccount
  BY LiveIsOpen, OpenExists DEF EndSession, IInv, TypeOK
<1>2. session'[t] # NoSession /\ session'[t].login = session[t].login
  <2>1. session[t] \in Session
    BY <1>1, SessionShape DEF Live, IInv
  <2>2. session'[t] = [session[t] EXCEPT !.status = "over"]
    BY <1>1 DEF IInv, TypeOK
  <2>3. [session[t] EXCEPT !.status = "over"] \in Session
    BY <2>1 DEF Session
  <2> QED  BY <2>1, <2>2, <2>3, AuthAssumption DEF Session
<1>3. \A u \in Tokens \ {t} : session'[u] = session[u]
  BY <1>1 DEF IInv, TypeOK
<1>4. \A u \in Tokens : /\ session'[u] # NoSession <=> session[u] # NoSession
                        /\ session'[u] # NoSession => session'[u].login = session[u].login
                        /\ Live(u)' => Live(u)
  BY <1>1, <1>2, <1>3 DEF Live
<1> QED  BY <1>1, <1>4, QuietKeeps DEF Replaces, Holds

LEMMA LinkStepKeeps ==
  ASSUME IInv, TypeOK', NEW k \in Links, RequestPasswordReset(k) \/ ExpireLink(k)
  PROVE  IInv'
<1>1. UNCHANGED <<password, replaced, session, req>> /\ Open /\ password # NoAccount
  BY LinkIsOpen, OpenExists DEF RequestPasswordReset, ExpireLink
<1>2. \A j \in Links : link'[j] # "over" => link[j] # "over"
  BY DEF RequestPasswordReset, ExpireLink, IInv, TypeOK
<1> QED  BY <1>1, <1>2, QuietKeeps DEF Live, Replaces, Holds

LEMMA RevokeKeeps ==
  ASSUME IInv, TypeOK', NEW s \in Requests, RevokeAllSessions(s)
  PROVE  IInv'
<1>1. /\ UNCHANGED <<password, replaced, link>>
      /\ req[s] # Idle
      /\ \A t \in Tokens : session'[t] =
           IF Live(t) THEN [session[t] EXCEPT !.status = "over"] ELSE session[t]
  BY DEF RevokeAllSessions, Idle
<1>2. \A t \in Tokens : Live(t) =>
        /\ session'[t] # NoSession /\ session'[t].login = session[t].login
        /\ session'[t].status = "over"
  <2>1. \A t \in Tokens : Live(t) => session[t] \in Session
    BY SessionShape DEF Live, IInv
  <2>2. ASSUME NEW x \in Session
        PROVE  /\ [x EXCEPT !.status = "over"] \in Session
               /\ [x EXCEPT !.status = "over"].login = x.login
               /\ [x EXCEPT !.status = "over"].status = "over"
    <3>1. x = [login |-> x.login, under |-> x.under, status |-> x.status]
      BY <2>2 DEF Session
    <3>2. [x EXCEPT !.status = "over"] =
            [login |-> x.login, under |-> x.under, status |-> "over"]
      BY <3>1
    <3> QED  BY <2>2, <3>2 DEF Session
  <2> QED  BY <1>1, <2>1, <2>2, AuthAssumption
<1>3. \A t \in Tokens : /\ session'[t] # NoSession <=> session[t] # NoSession
                        /\ session'[t] # NoSession => session'[t].login = session[t].login
                        /\ Live(t)' => Live(t)
  BY <1>1, <1>2 DEF Live
<1>4. \A r \in Requests : /\ \A l \in Tokens : Replaces(r, l)' => Replaces(r, l)
                          /\ \A k \in Links : Holds(r, k)' => Holds(r, k)
  <2>1. req'[s] = Idle \/ (req'[s].kind = "issue" /\ req'[s].login = Fresh)
    <3>1. req'[s] = IF req[s].by = Form
                    THEN [kind |-> "issue", login |-> Fresh, under |-> req[s].new]
                    ELSE Idle
      BY DEF RevokeAllSessions, Become, IInv, TypeOK
    <3> QED  BY <3>1
  <2>2. \A r \in Requests \ {s} : req'[r] = req[r]
    BY OthersKeep DEF RevokeAllSessions, Become, IInv
  <2> QED  BY <2>1, <2>2, AuthAssumption DEF Replaces, Holds, Idle
<1>5. password # NoAccount
  BY <1>1, AccountExists
<1>6. Open \/ UNCHANGED <<session, link>>
  <2>1. ASSUME ~ Open PROVE session' = session
    <3>1. \A t \in Tokens : ~ Live(t)
      BY <2>1, LiveIsOpen
    <3>2. session' = [t \in Tokens |-> session[t]]
      BY <3>1 DEF RevokeAllSessions
    <3> QED  BY <3>2 DEF IInv, TypeOK
  <2> QED  BY <1>1, <2>1
<1> QED  BY <1>1, <1>3, <1>4, <1>5, <1>6, QuietKeeps

(* A token is consumed: its sign-in has no valid token any more, and its   *)
(* request replaces it.                                                    *)
LEMMA RefreshStepKeeps ==
  ASSUME IInv, TypeOK', NEW s \in Requests, NEW t \in Tokens, Refresh(s, t)
  PROVE  IInv'
<1>1. /\ UNCHANGED <<password, replaced, link>>
      /\ session' = [session EXCEPT ![t] = [session[t] EXCEPT !.status = "over"]]
      /\ req[s] = Idle
      /\ Live(t) /\ Open /\ password # NoAccount
  BY LiveIsOpen, OpenExists DEF Refresh, Begin, IInv, TypeOK
<1>2. PICK l \in Tokens : l = session[t].login
  BY <1>1, SessionShape DEF Live, IInv
<1>3. /\ req'[s].kind = "issue" /\ req'[s].login = l
      /\ \A r \in Requests \ {s} : req'[r] = req[r]
  BY <1>2 DEF Refresh, Begin, IInv, TypeOK
<1>4. /\ session'[t] # NoSession /\ session'[t].login = l /\ ~ Live(t)'
      /\ \A u \in Tokens \ {t} : session'[u] = session[u]
  <2>1. session[t] \in Session
    BY <1>1, SessionShape DEF Live, IInv
  <2>2. session'[t] = [session[t] EXCEPT !.status = "over"]
    BY <1>1 DEF IInv, TypeOK
  <2>3. session'[t] = [login |-> l, under |-> session[t].under, status |-> "over"]
    BY <1>2, <2>1, <2>2 DEF Session
  <2>4. session'[t] \in Session
    BY <2>1, <2>3 DEF Session
  <2> QED  BY <1>1, <2>3, <2>4, AuthAssumption DEF Live, IInv, TypeOK
<1>5. \A u \in Tokens : Live(u)' => Live(u) /\ u # t /\ session'[u] = session[u]
  BY <1>4 DEF Live
<1>6. \A r \in Requests : ~ Replaces(r, l)
  BY <1>1, <1>2 DEF IInv, ReplacedIsOver
<1>7. \A r \in Requests, m \in Tokens :
        Replaces(r, m)' <=> (r = s /\ m = l) \/ (r # s /\ Replaces(r, m))
  BY <1>1, <1>3 DEF Replaces, Idle
<1>8. ReplacedIsOver'
  <2>1. \A u \in Tokens : Live(u)' => session'[u].login # l
    BY <1>1, <1>2, <1>5 DEF IInv, OneSessionPerLogin
  <2> QED  BY <1>1, <1>5, <1>6, <1>7, <2>1 DEF IInv, ReplacedIsOver
<1>9. LoginsAreTokens'
  <2>1. session[l] # NoSession
    BY <1>1, <1>2 DEF IInv, LoginsAreTokens, Live
  <2>2. \A u \in Tokens : session[u] # NoSession => session[u].login \in Tokens
    BY SessionShape DEF IInv
  <2>3. \A u \in Tokens : session'[u] # NoSession <=> session[u] # NoSession
    BY <1>1, <1>4 DEF Live
  <2>4. \A u \in Tokens : session'[u] # NoSession => session'[u].login = session[u].login
    BY <1>2, <1>4
  <2> QED  BY <1>1, <1>7, <2>1, <2>2, <2>3, <2>4 DEF IInv, LoginsAreTokens
<1>10. OneSessionPerLogin'
  BY <1>5 DEF IInv, OneSessionPerLogin
<1>11. LinkUses'
  <2>1. \A r \in Requests, k \in Links : Holds(r, k)' => Holds(r, k)
    BY <1>3 DEF Holds
  <2>2. Open' => Open
    BY <1>1
  <2> QED  BY <1>1, <2>1, <2>2, NoNewLinkUses
<1>12. NothingBeforeAccount' /\ NothingOutlivesAccount'
  BY <1>1, SameAccount
<1> QED  BY <1>8, <1>9, <1>10, <1>11, <1>12, Assembled DEF Logins

(* The new token is stored: the only valid one of its sign-in.             *)
LEMMA IssueKeeps ==
  ASSUME IInv, TypeOK', NEW s \in Requests, NEW t \in Tokens, Issue(s, t)
  PROVE  IInv'
<1>1. /\ UNCHANGED <<password, replaced, link>>
      /\ req[s].kind = "issue" /\ session[t] = NoSession
      /\ Open /\ password # NoAccount
  BY OpenExists DEF Issue
<1>2. PICK l \in Tokens : l = IF req[s].login = Fresh THEN t ELSE req[s].login
  <2>1. req[s].login \in Tokens \cup {Fresh}
    BY <1>1 DEF IInv, TypeOK, Request, Idle
  <2> QED  BY <2>1
<1>3. /\ session'[t] = [login |-> l, under |-> req[s].under, status |-> "live"]
      /\ \A u \in Tokens \ {t} : session'[u] = session[u]
  BY <1>2 DEF Issue, IInv, TypeOK
<1>4. /\ req'[s] = Idle
      /\ \A r \in Requests \ {s} : req'[r] = req[r]
  BY DEF Issue, Become, IInv, TypeOK
<1>5. session'[t] # NoSession /\ session'[t].login = l
  <2>1. session'[t] \in Session
    <3>1. req[s].under \in Passwords
      BY <1>1 DEF IInv, TypeOK, Request, Idle
    <3> QED  BY <1>3, <3>1 DEF Session
  <2> QED  BY <1>3, <2>1, AuthAssumption
<1>6. \A r \in Requests, m \in Tokens : Replaces(r, m)' => r # s /\ Replaces(r, m)
  BY <1>4 DEF Replaces, Idle
<1>7. \A u \in Tokens : Live(u)' => u = t \/ (Live(u) /\ session'[u] = session[u])
  BY <1>3 DEF Live
<1>8. /\ \A u \in Tokens : Live(u) => session[u].login # l
      /\ \A r \in Requests \ {s} : ~ Replaces(r, l)
  <2>1. CASE req[s].login = Fresh
    <3>1. session[l] = NoSession
      BY <1>1, <1>2, <2>1
    <3> QED  BY <1>1, <3>1 DEF IInv, LoginsAreTokens, Live
  <2>2. CASE req[s].login # Fresh
    <3>1. Replaces(s, l)
      BY <1>1, <1>2, <2>2 DEF Replaces
    <3> QED  BY <1>1, <3>1 DEF IInv, ReplacedIsOver
  <2> QED  BY <2>1, <2>2
<1>9. ReplacedIsOver'
  BY <1>1, <1>5, <1>6, <1>7, <1>8 DEF IInv, ReplacedIsOver
<1>10. LoginsAreTokens'
  <2>1. session'[l] # NoSession
    <3>1. CASE l = t
      BY <1>5, <3>1
    <3>2. CASE l # t
      <4>1. Replaces(s, l)
        BY <1>1, <1>2, <3>2 DEF Replaces
      <4> QED  BY <1>1, <1>3, <3>2, <4>1 DEF IInv, LoginsAreTokens
    <3> QED  BY <3>1, <3>2
  <2>2. \A u \in Tokens : session[u] # NoSession =>
          session[u].login \in Tokens /\ session'[u] = session[u]
    BY <1>1, <1>3, SessionShape DEF IInv
  <2>3. \A u \in Tokens : session'[u] # NoSession => u = t \/ session[u] # NoSession
    BY <1>3
  <2> QED  BY <1>1, <1>5, <1>6, <2>1, <2>2, <2>3 DEF IInv, LoginsAreTokens
<1>11. OneSessionPerLogin'
  BY <1>5, <1>7, <1>8 DEF IInv, OneSessionPerLogin
<1>12. LinkUses'
  <2>1. \A r \in Requests, k \in Links : Holds(r, k)' => Holds(r, k)
    BY <1>4 DEF Holds, Idle
  <2>2. Open' => Open
    BY <1>1
  <2> QED  BY <1>1, <2>1, <2>2, NoNewLinkUses
<1>13. NothingBeforeAccount' /\ NothingOutlivesAccount'
  BY <1>1, SameAccount
<1> QED  BY <1>9, <1>10, <1>11, <1>12, <1>13, Assembled DEF Logins

(* A link is consumed: only its request may still use it.                  *)
LEMMA ConsumeKeeps ==
  ASSUME IInv, TypeOK', NEW s \in Requests, NEW k \in Links, NEW p \in Passwords,
         ConsumePasswordResetToken(s, k, p)
  PROVE  IInv'
<1>1. /\ UNCHANGED <<password, replaced, session>>
      /\ link[k] = "usable" /\ req[s] = Idle
      /\ Open /\ password # NoAccount
  BY LinkIsOpen, OpenExists DEF ConsumePasswordResetToken, Begin
<1>2. /\ req'[s].kind = "write" /\ req'[s].by = k
      /\ \A r \in Requests \ {s} : req'[r] = req[r]
      /\ link'[k] = "over" /\ \A j \in Links \ {k} : link'[j] = link[j]
  BY DEF ConsumePasswordResetToken, Begin, IInv, TypeOK
<1>3. k \notin replaced /\ \A r \in Requests : ~ Holds(r, k)
  BY <1>1 DEF IInv, UsableLinksAreNew
<1>4. \A r \in Requests, j \in Links :
        Holds(r, j)' => (r = s /\ j = k) \/ (r # s /\ j # k /\ Holds(r, j))
  BY <1>2, <1>3 DEF Holds
<1>5. UsableLinksAreNew'
  BY <1>1, <1>2, <1>4 DEF IInv, UsableLinksAreNew
<1>6. OneHolderOfLink'
  BY <1>1, <1>3, <1>4 DEF IInv, OneHolderOfLink
<1>7. Logins'
  <2>1. \A r \in Requests, l \in Tokens : Replaces(r, l)' => Replaces(r, l)
    BY <1>2 DEF Replaces
  <2>2. Open' => Open
    BY <1>1
  <2> QED  BY <1>1, <2>1, <2>2, NoNewLogins DEF Live
<1>8. NothingBeforeAccount' /\ NothingOutlivesAccount'
  BY <1>1, SameAccount DEF IInv, NothingBeforeAccount, NothingOutlivesAccount, Open
<1> QED  BY <1>5, <1>6, <1>7, <1>8, Assembled DEF LinkUses

(* The link is used up before anybody else may hold it.                    *)
LEMMA WriteKeeps ==
  ASSUME IInv, TypeOK', NEW s \in Requests, WritePassword(s)
  PROVE  IInv'
<1>1. /\ UNCHANGED <<session, link>>
      /\ req[s].kind = "write" /\ req[s].by \in Links \cup {Form} /\ req[s].new \in Passwords
      /\ password # NoAccount
  BY AccountExists DEF WritePassword, IInv, TypeOK, Request, Idle
<1>2. /\ req'[s].kind = "revoke"
      /\ \A r \in Requests \ {s} : req'[r] = req[r]
  <2>1. req[s] \in [kind : {"write", "revoke"}, new : Passwords, by : Links \cup {Form}]
    BY <1>1 DEF IInv, TypeOK, Request, Idle
  <2>2. req' = [req EXCEPT ![s] = [req[s] EXCEPT !.kind = "revoke"]]
    BY DEF WritePassword, Become
  <2> QED  BY <2>1, <2>2 DEF IInv, TypeOK
<1>3. \A r \in Requests : /\ \A l \in Tokens : Replaces(r, l)' => Replaces(r, l)
                          /\ \A k \in Links : Holds(r, k)' => r # s /\ Holds(r, k)
  BY <1>2 DEF Replaces, Holds
<1>4. Open' <=> Open
  BY <1>1 DEF WritePassword, Open
<1>5. \A k \in Links : k \in replaced' => k \in replaced \/ Holds(s, k)
  BY <1>1 DEF WritePassword, Holds
<1>6. Logins'
  BY <1>1, <1>3, <1>4, NoNewLogins DEF Live
<1>7. UsableLinksAreNew'
  BY <1>1, <1>3, <1>4, <1>5 DEF IInv, UsableLinksAreNew
<1>8. OneHolderOfLink'
  BY <1>3, <1>5 DEF IInv, OneHolderOfLink
<1>9. password' # NoAccount
  BY <1>1, AuthAssumption DEF WritePassword
<1>10. NothingBeforeAccount' /\ NothingOutlivesAccount'
  BY <1>1, <1>4, <1>9 DEF IInv, NothingBeforeAccount, NothingOutlivesAccount
<1> QED  BY <1>6, <1>7, <1>8, <1>10, Assembled DEF LinkUses

LEMMA DeleteKeeps ==
  ASSUME IInv, TypeOK', NEW s \in Requests, DeleteUser(s)
  PROVE  IInv'
<1>1. /\ password' = Deleted /\ ~ Open' /\ password' # NoAccount
      /\ \A t \in Tokens : session'[t] = NoSession
      /\ \A k \in Links : link'[k] = "none"
      /\ UNCHANGED replaced
  BY AuthAssumption DEF DeleteUser, Open
<1>2. \A r \in Requests, k \in Links : Holds(r, k)' => Holds(r, k)
  BY DEF DeleteUser, Become, IInv, TypeOK, Holds, Idle
<1>3. Logins'
  BY <1>1 DEF Logins, ReplacedIsOver, LoginsAreTokens, OneSessionPerLogin, Live
<1>4. LinkUses'
  BY <1>1, <1>2 DEF IInv, LinkUses, UsableLinksAreNew, OneHolderOfLink
<1>5. NothingBeforeAccount' /\ NothingOutlivesAccount'
  BY <1>1 DEF NothingBeforeAccount, NothingOutlivesAccount
<1> QED  BY <1>3, <1>4, <1>5, Assembled
-----------------------------------------------------------------------------
LEMMA InitInv == Init => IInv
<1> SUFFICES ASSUME Init PROVE IInv
  OBVIOUS
<1>1. TypeOK
  BY DEF Init, TypeOK, Request
<1>2. ~ Open /\ \A s \in Requests : req[s] = Idle
  BY AuthAssumption DEF Init, Open
<1>3. \A s \in Requests, k \in Links : ~ Holds(s, k)
  BY <1>2 DEF Holds, Idle
<1> QED  BY <1>1, <1>2, <1>3
         DEF Init, IInv, NothingBeforeAccount, ReplacedIsOver, LoginsAreTokens,
             OneSessionPerLogin, NothingOutlivesAccount, UsableLinksAreNew,
             OneHolderOfLink, Live

LEMMA NextInv == IInv /\ [Next]_vars => IInv'
<1>1. ASSUME IInv, Next PROVE IInv'
  <2>1. TypeOK'
    BY <1>1, TypeKept
  <2> QED  BY <1>1, <2>1, RegisterKeeps, StartOrFailKeeps, EndSessionKeeps, LinkStepKeeps,
              RevokeKeeps, RefreshStepKeeps, IssueKeeps, ConsumeKeeps, WriteKeeps, DeleteKeeps
           DEF Next
<1>2. ASSUME IInv, UNCHANGED vars PROVE IInv'
  BY <1>2 DEF vars, IInv, TypeOK, NothingBeforeAccount, ReplacedIsOver, LoginsAreTokens,
              OneSessionPerLogin, NothingOutlivesAccount, UsableLinksAreNew,
              OneHolderOfLink, Live, Open, Replaces, Holds
<1> QED  BY <1>1, <1>2

LEMMA Invariance == Spec => []IInv
  BY InitInv, NextInv, PTL DEF Spec
-----------------------------------------------------------------------------
(* Rows and requests keep their shape, however requests interleave.        *)
THEOREM TypeCorrect == Spec => []TypeOK
<1>1. IInv => TypeOK
  BY DEF IInv
<1> QED  BY <1>1, Invariance, PTL

(* A sign-in never becomes two sessions: ConsumeRefreshToken hands a token *)
(* to one of the requests that present it, whatever else interleaves.      *)
THEOREM RefreshNeverForks == Spec => []OneSessionPerLogin
<1>1. IInv => OneSessionPerLogin
  BY DEF IInv
<1> QED  BY <1>1, Invariance, PTL

(* No session or reset link outlives the account, whatever is in flight    *)
(* when it is deleted (DeleteUser and the foreign keys).                   *)
THEOREM DeletionIsFinal == Spec => []NothingOutlivesAccount
<1>1. IInv => NothingOutlivesAccount
  BY DEF IInv
<1> QED  BY <1>1, Invariance, PTL

(* A reset link replaces the password at most once                         *)
(* (ConsumePasswordResetToken).                                            *)
THEOREM ResetLinksAreSpent == Spec => ResetLinkOnce
<1> DEFINE Once == \A s \in Requests :
                     WritePassword(s) /\ req[s].by # Form => req[s].by \notin replaced
<1>1. ASSUME IInv, [Next]_vars PROVE [Once]_vars
  <2>1. ASSUME NEW s \in Requests, WritePassword(s), req[s].by # Form
        PROVE  req[s].by \notin replaced
    <3>1. PICK k \in Links : k = req[s].by
      BY <1>1, <2>1 DEF WritePassword, IInv, TypeOK, Request, Idle
    <3>2. Holds(s, k)
      BY <2>1, <3>1 DEF WritePassword, Holds
    <3> QED  BY <1>1, <3>1, <3>2 DEF IInv, OneHolderOfLink
  <2> QED  BY <2>1
<1> QED  BY <1>1, Invariance, PTL DEF Spec, ResetLinkOnce
-----------------------------------------------------------------------------
(* Requests one at a time.                                                 *)

LEMMA IdleKind == Idle.kind = "none"
BY DEF Idle

(* A busy request is the only one.                                         *)
LEMMA OnlyOne ==
  ASSUME OneAtATime, NEW s \in Requests, req[s].kind # "none"
  PROVE  \A r \in Requests \ {s} : req[r] = Idle /\ req[r].kind = "none"
BY IdleKind DEF OneAtATime

(* A request that begins is the only one.                                  *)
LEMMA BeginsAlone ==
  ASSUME IInv, OneAtATime', NEW s \in Requests, NEW new, Begin(s, new), new.kind # "none"
  PROVE  /\ req'[s] = new /\ req[s].kind = "none"
         /\ \A r \in Requests \ {s} : req'[r] = req[r] /\ req'[r].kind = "none"
<1>1. req'[s] = new /\ req[s].kind = "none" /\ \A r \in Requests \ {s} : req'[r] = req[r]
  BY IdleKind DEF IInv, TypeOK, Begin
<1>2. \A r \in Requests \ {s} : req'[r].kind = "none"
  BY <1>1, IdleKind DEF OneAtATime
<1>. QED  BY <1>1, <1>2

LEMMA BecomeParts ==
  ASSUME IInv, NEW s \in Requests, NEW new, Become(s, new)
  PROVE  req'[s] = new /\ \A r \in Requests \ {s} : req'[r] = req[r]
BY DEF IInv, TypeOK, Become

(* Nothing is issued, and the valid sessions stay what they were.          *)
LEMMA OfNowStays ==
  ASSUME SessionsAreOfNow, password' = password,
         \A t \in Tokens : Live(t)' => Live(t) /\ session'[t].under = session[t].under,
         \A s \in Requests : \/ req'[s] = req[s]
                             \/ /\ req[s].kind # "revoke"
                                /\ req'[s].kind \notin {"issue", "revoke"}
  PROVE  SessionsAreOfNow'
BY DEF SessionsAreOfNow, Open

LEMMA IssueIsOfNow ==
  ASSUME IInv, OneAtATime, SessionsAreOfNow,
         NEW s \in Requests, NEW t \in Tokens, Issue(s, t)
  PROVE  SessionsAreOfNow'
<1>1. /\ req[s].kind = "issue" /\ Open /\ password' = password
      /\ req'[s] = Idle /\ \A r \in Requests \ {s} : req'[r] = req[r]
  BY BecomeParts DEF Issue
<1>2. req[s].under = password
  BY <1>1 DEF SessionsAreOfNow
<1>3. \A r \in Requests : req[r].kind # "revoke" /\ req'[r].kind = "none"
  BY <1>1, OnlyOne, IdleKind
<1>4. \A u \in Tokens : Live(u) => session[u].under = password
  BY <1>1, <1>3 DEF SessionsAreOfNow
<1>5. session'[t].under = password /\ \A u \in Tokens \ {t} : session'[u] = session[u]
  BY <1>2 DEF IInv, TypeOK, Issue
<1>6. \A u \in Tokens : Live(u)' => session'[u].under = password
  BY <1>4, <1>5 DEF Live
<1>. QED  BY <1>1, <1>3, <1>6 DEF SessionsAreOfNow

LEMMA RefreshIsOfNow ==
  ASSUME IInv, OneAtATime', SessionsAreOfNow,
         NEW s \in Requests, NEW t \in Tokens, Refresh(s, t)
  PROVE  SessionsAreOfNow'
<1>. DEFINE new == [kind |-> "issue", login |-> session[t].login, under |-> session[t].under]
<1>1. Live(t) /\ password' = password /\ Begin(s, new) /\ new.kind = "issue"
  BY DEF Refresh
<1>2. new.under = session[t].under
  OBVIOUS
<1>. HIDE DEF new
<1>3. /\ req'[s] = new /\ req[s].kind = "none"
      /\ \A r \in Requests \ {s} : req'[r] = req[r] /\ req'[r].kind = "none"
  BY <1>1, BeginsAlone
<1>4. \A r \in Requests : req[r].kind = "none" /\ req'[r].kind # "revoke"
  BY <1>1, <1>3
<1>5. \A u \in Tokens : Live(u)' => Live(u) /\ session'[u] = session[u]
  <2>1. session' = [session EXCEPT ![t] = [session[t] EXCEPT !.status = "over"]]
    BY DEF Refresh, IInv, TypeOK
  <2>2. session[t] \in Session
    BY <1>1, SessionShape DEF IInv, Live
  <2>3. [session[t] EXCEPT !.status = "over"].status = "over"
    BY <2>2 DEF Session
  <2>. QED  BY <2>1, <2>3 DEF Live, IInv, TypeOK
<1>. SUFFICES ASSUME Open PROVE SessionsAreOfNow'
  BY <1>1 DEF SessionsAreOfNow, Open
<1>6. \A u \in Tokens : Live(u) => session[u].under = password
  BY <1>4 DEF SessionsAreOfNow
<1>. QED  BY <1>1, <1>2, <1>3, <1>4, <1>5, <1>6 DEF SessionsAreOfNow

LEMMA WriteIsOfNow ==
  ASSUME IInv, OneAtATime, NEW s \in Requests, WritePassword(s)
  PROVE  SessionsAreOfNow'
<1>1. req[s].kind = "write" /\ req[s] \in [kind : {"write", "revoke"}, new : Passwords, by : Links \cup {Form}]
  BY DEF WritePassword, IInv, TypeOK, Request, Idle
<1>. DEFINE new == [req[s] EXCEPT !.kind = "revoke"]
<1>2. Become(s, new) /\ new.kind = "revoke" /\ new.new = req[s].new
  BY <1>1 DEF WritePassword
<1>. HIDE DEF new
<1>3. req'[s] = new /\ \A r \in Requests \ {s} : req'[r] = req[r]
  BY <1>2, BecomeParts
<1>4. \A r \in Requests \ {s} : req'[r].kind = "none"
  BY <1>1, <1>3, OnlyOne
<1>5. Open' => password' = req[s].new
  BY DEF WritePassword, Open
<1>. QED  BY <1>2, <1>3, <1>4, <1>5 DEF SessionsAreOfNow

LEMMA RevokeIsOfNow ==
  ASSUME IInv, OneAtATime, SessionsAreOfNow, NEW s \in Requests, RevokeAllSessions(s)
  PROVE  SessionsAreOfNow'
<1>1. req[s].kind = "revoke" /\ password' = password
  BY DEF RevokeAllSessions
<1>. DEFINE next == [kind |-> "issue", login |-> Fresh, under |-> req[s].new]
<1>2. /\ req'[s] = next \/ req'[s] = Idle
      /\ \A r \in Requests \ {s} : req'[r] = req[r]
  BY BecomeParts DEF RevokeAllSessions
<1>3. next.kind = "issue" /\ next.under = req[s].new
  OBVIOUS
<1>. HIDE DEF next
<1>4. \A r \in Requests \ {s} : req'[r].kind = "none"
  BY <1>1, <1>2, OnlyOne
<1>5. \A t \in Tokens : ~ Live(t)'
  <2>. SUFFICES ASSUME NEW t \in Tokens, Live(t)' PROVE FALSE
    OBVIOUS
  <2>1. session'[t] = IF Live(t) THEN [session[t] EXCEPT !.status = "over"] ELSE session[t]
    BY DEF RevokeAllSessions
  <2>2. Live(t)
    BY <2>1 DEF Live
  <2>3. session[t] \in Session
    BY <2>2, SessionShape DEF IInv, Live
  <2>. QED  BY <2>1, <2>2, <2>3 DEF Live, Session
<1>6. Open => req[s].new = password
  BY <1>1 DEF SessionsAreOfNow
<1>. QED  BY <1>1, <1>2, <1>3, <1>4, <1>5, <1>6, IdleKind DEF SessionsAreOfNow, Open

(* With requests one at a time a session goes back to the password of now, *)
(* or is about to be revoked.                                              *)
LEMMA StaysOfNow ==
  ASSUME IInv, IInv', Next, OneAtATime, OneAtATime', SessionsAreOfNow,
         \A s \in Requests : req[s].kind = "revoke" /\ Fail(s) => RevokeAllSessions(s)
  PROVE  SessionsAreOfNow'
<1>1. ASSUME NEW s \in Requests, NEW p \in Passwords, Register(s, p) PROVE SessionsAreOfNow'
  <2>. DEFINE new == [kind |-> "issue", login |-> Fresh, under |-> p]
  <2>1. Begin(s, new) /\ new.kind = "issue" /\ new.under = p
    BY <1>1 DEF Register
  <2>. HIDE DEF new
  <2>2. req'[s] = new /\ \A r \in Requests \ {s} : req'[r].kind = "none"
    BY <2>1, BeginsAlone
  <2>3. password' = p /\ \A t \in Tokens : session'[t] = NoSession
    BY <1>1, AuthAssumption DEF Register, IInv, NothingOutlivesAccount, Open
  <2>. QED  BY <2>1, <2>2, <2>3 DEF SessionsAreOfNow, Live
<1>2. ASSUME NEW s \in Requests, Login(s) PROVE SessionsAreOfNow'
  <2>. DEFINE new == [kind |-> "issue", login |-> Fresh, under |-> password]
  <2>1. Begin(s, new) /\ new.kind = "issue" /\ new.under = password
    BY <1>2 DEF Login
  <2>. HIDE DEF new
  <2>2. /\ req'[s] = new /\ req[s].kind = "none"
        /\ \A r \in Requests \ {s} : req'[r] = req[r] /\ req'[r].kind = "none"
    BY <2>1, BeginsAlone
  <2>3. \A r \in Requests : req[r].kind = "none" /\ req'[r].kind # "revoke"
    BY <2>1, <2>2
  <2>4. password' = password /\ session' = session
    BY <1>2 DEF Login
  <2>. QED  BY <2>1, <2>2, <2>3, <2>4 DEF SessionsAreOfNow, Live, Open
<1>3. ASSUME NEW s \in Requests,
             \/ DeleteAccount(s)
             \/ \E p \in Passwords : CheckPassword(s, p)
             \/ \E k \in Links, p \in Passwords : ConsumePasswordResetToken(s, k, p)
      PROVE  SessionsAreOfNow'
  <2>1. \E new : Begin(s, new) /\ new.kind \in {"delete", "write"}
    <3>1. CASE DeleteAccount(s)
      <4>. DEFINE new == [kind |-> "delete"]
      <4>1. Begin(s, new) /\ new.kind = "delete"
        BY <3>1 DEF DeleteAccount
      <4>. QED  BY <4>1
    <3>2. ASSUME NEW p \in Passwords, CheckPassword(s, p)
          PROVE  \E new : Begin(s, new) /\ new.kind \in {"delete", "write"}
      <4>. DEFINE new == [kind |-> "write", new |-> p, by |-> Form]
      <4>1. Begin(s, new) /\ new.kind = "write"
        BY <3>2 DEF CheckPassword
      <4>. QED  BY <4>1
    <3>3. ASSUME NEW k \in Links, NEW p \in Passwords, ConsumePasswordResetToken(s, k, p)
          PROVE  \E new : Begin(s, new) /\ new.kind \in {"delete", "write"}
      <4>. DEFINE new == [kind |-> "write", new |-> p, by |-> k]
      <4>1. Begin(s, new) /\ new.kind = "write"
        BY <3>3 DEF ConsumePasswordResetToken
      <4>. QED  BY <4>1
    <3>. QED  BY <1>3, <3>1, <3>2, <3>3
  <2>2. PICK new : Begin(s, new) /\ new.kind \in {"delete", "write"}
    BY <2>1
  <2>3. /\ req'[s] = new /\ req[s].kind = "none"
        /\ \A r \in Requests \ {s} : req'[r] = req[r]
    BY <2>2, BeginsAlone
  <2>4. password' = password /\ session' = session
    BY <1>3 DEF DeleteAccount, CheckPassword, ConsumePasswordResetToken
  <2>. QED  BY <2>2, <2>3, <2>4, OfNowStays DEF Live
<1>4. ASSUME NEW t \in Tokens, EndSession(t) PROVE SessionsAreOfNow'
  <2>1. session' = [session EXCEPT ![t] = [session[t] EXCEPT !.status = "over"]]
    BY <1>4 DEF EndSession, IInv, TypeOK
  <2>2. session[t] \in Session
    BY <1>4, SessionShape DEF IInv, EndSession, Live
  <2>3. [session[t] EXCEPT !.status = "over"].status = "over"
    BY <2>2 DEF Session
  <2>4. \A u \in Tokens : Live(u)' => Live(u) /\ session'[u] = session[u]
    BY <2>1, <2>3 DEF Live, IInv, TypeOK
  <2>. QED  BY <1>4, <2>4, OfNowStays DEF EndSession
<1>5. ASSUME NEW k \in Links, RequestPasswordReset(k) \/ ExpireLink(k) PROVE SessionsAreOfNow'
  BY <1>5, OfNowStays DEF RequestPasswordReset, ExpireLink, Live
<1>6. ASSUME NEW s \in Requests, DeleteUser(s) PROVE SessionsAreOfNow'
  BY <1>6, AuthAssumption DEF DeleteUser, SessionsAreOfNow, Open
<1>7. ASSUME NEW s \in Requests, Fail(s) PROVE SessionsAreOfNow'
  <2>1. CASE req[s].kind = "revoke"
    BY <1>7, <2>1, RevokeIsOfNow
  <2>2. CASE req[s].kind # "revoke"
    <3>1. req'[s] = Idle /\ \A r \in Requests \ {s} : req'[r] = req[r]
      BY <1>7, BecomeParts DEF Fail
    <3>. QED  BY <1>7, <2>2, <3>1, IdleKind, OfNowStays DEF Fail, Live
  <2>. QED  BY <2>1, <2>2
<1>. QED
  BY <1>1, <1>2, <1>3, <1>4, <1>5, <1>6, <1>7,
     IssueIsOfNow, RefreshIsOfNow, WriteIsOfNow, RevokeIsOfNow DEF Next

LEMMA MCInitInv == MCInit => MCIInv
<1>1. MCInit => IInv
  BY InitInv DEF MCInit
<1>2. MCInit => OneAtATime /\ SessionsAreOfNow
  BY AuthAssumption DEF MCInit, Init, OneAtATime, SessionsAreOfNow, Open
<1>. QED  BY <1>1, <1>2 DEF MCIInv

LEMMA MCNextInv == MCIInv /\ [MCNext]_<<vars, raced, failed>> => MCIInv'
<1>1. ASSUME MCIInv, MCNext PROVE MCIInv'
  <2>1. IInv /\ Next /\ IInv'
    BY <1>1, NextInv DEF MCIInv, MCNext
  <2>2. ~ raced' => ~ raced /\ OneAtATime'
    BY <1>1 DEF MCNext, OneAtATime
  <2>3. ~ failed' => ~ failed /\ \A s \in Requests :
                       req[s].kind = "revoke" /\ Fail(s) => RevokeAllSessions(s)
    BY <1>1 DEF MCNext
  <2>4. ~ raced' /\ ~ failed' => SessionsAreOfNow'
    BY <1>1, <2>1, <2>2, <2>3, StaysOfNow DEF MCIInv
  <2>. QED  BY <2>1, <2>2, <2>4 DEF MCIInv
<1>2. ASSUME MCIInv, UNCHANGED <<vars, raced, failed>> PROVE MCIInv'
  <2>1. IInv'
    BY <1>2, NextInv DEF MCIInv
  <2>2. UNCHANGED <<password, session, req, raced, failed>>
    BY <1>2 DEF vars
  <2>. QED  BY <1>2, <2>1, <2>2 DEF MCIInv, OneAtATime, SessionsAreOfNow, Open, Live
<1>. QED  BY <1>1, <1>2

(* With requests one at a time, none of which failed between the new       *)
(* password and the revocation, no session of an earlier password is left  *)
(* (ChangePassword, ResetPassword).                                        *)
THEOREM SessionsFollow == MCSpec => []SessionsFollowPasswordAlone
<1>1. MCSpec => []MCIInv
  BY MCInitInv, MCNextInv, PTL DEF MCSpec
<1>2. MCIInv => SessionsFollowPasswordAlone
  <2>. SUFFICES ASSUME MCIInv, ~ raced, ~ failed, \A s \in Requests : req[s] = Idle,
                       NEW t \in Tokens, Live(t)
                PROVE  session[t].under = password
    BY DEF SessionsFollowPasswordAlone, SessionsFollowPassword
  <2>1. Open
    BY DEF MCIInv, IInv, NothingOutlivesAccount, Live
  <2>. QED  BY <2>1, IdleKind DEF MCIInv, SessionsAreOfNow
<1>. QED  BY <1>1, <1>2, PTL
=============================================================================
