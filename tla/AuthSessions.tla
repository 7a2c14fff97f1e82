----------------------------- MODULE AuthSessions -----------------------------
(***************************************************************************)
(* The sessions of one account (internal/auth): refresh tokens that are    *)
(* exchanged for new ones, links that reset the password, changes of the   *)
(* password and the deletion of the account.  No statement looks at the    *)
(* rows of two accounts.                                                   *)
(*                                                                         *)
(* Every statement commits by itself; req[s] is what session s has still   *)
(* to do for its request.  Access tokens are signed and not stored, and    *)
(* are left out.                                                           *)
(***************************************************************************)
CONSTANTS
  Requests,               \* requests in flight at a time
  Tokens,                 \* refresh tokens, random and never made twice
  Links,                  \* password reset tokens
  Passwords,              \* every change picks one that was not used before
  NoAccount, Deleted,     \* password before the account exists, and after
  NoSession,              \* a token that was not issued
  Fresh, Form             \* a new sign-in; a change with the old password

Session == [login : Tokens, under : Passwords, status : {"live", "over"}]

ASSUME AuthAssumption ==
  /\ NoAccount \notin Passwords /\ Deleted \notin Passwords /\ NoAccount # Deleted
  /\ NoSession \notin Session
  /\ Fresh \notin Tokens
  /\ Form \notin Links

Idle == [kind |-> "none"]

Request ==
       {Idle}
  \cup [kind : {"issue"}, login : Tokens \cup {Fresh}, under : Passwords]
  \cup [kind : {"write", "revoke"}, new : Passwords, by : Links \cup {Form}]
  \cup [kind : {"delete"}]

VARIABLES
  password,   \* the password that users.password_hash is the hash of
  used,       \* the passwords the account has had
  session,    \* rows of refresh_tokens, with the sign-in a token goes back to
              \* and the password that was in force then (not columns)
  link,       \* rows of password_reset_tokens: "none", "usable" or "over"
  replaced,   \* the reset links that have replaced the password (not a column)
  req

vars == <<password, used, session, link, replaced, req>>

TypeOK ==
  /\ password \in Passwords \cup {NoAccount, Deleted}
  /\ used     \subseteq Passwords
  /\ session  \in [Tokens -> Session \cup {NoSession}]
  /\ link     \in [Links -> {"none", "usable", "over"}]
  /\ replaced \subseteq Links
  /\ req      \in [Requests -> Request]

Init ==
  /\ password = NoAccount
  /\ used     = {}
  /\ session  = [t \in Tokens |-> NoSession]
  /\ link     = [k \in Links |-> "none"]
  /\ replaced = {}
  /\ req      = [s \in Requests |-> Idle]
-----------------------------------------------------------------------------
Open    == password \in Passwords
Live(t) == session[t] # NoSession /\ session[t].status = "live"

Begin(s, r) == req[s] = Idle /\ req' = [req EXCEPT ![s] = r]

Become(s, r) == req' = [req EXCEPT ![s] = r]

(* Register: the user's row, with its categories and first wallet.         *)
Register(s, p) ==
  /\ password = NoAccount
  /\ Begin(s, [kind |-> "issue", login |-> Fresh, under |-> p])
  /\ password' = p
  /\ used'     = {p}
  /\ UNCHANGED <<session, link, replaced>>

(* A faulty variant for the mutation checks: no such user is no error.     *)
LoginUnchecked(s) ==
  /\ Begin(s, [kind |-> "issue", login |-> Fresh, under |-> password])
  /\ UNCHANGED <<password, used, session, link, replaced>>

(* Login with the right password.                                          *)
Login(s) ==
  /\ Open
  /\ Begin(s, [kind |-> "issue", login |-> Fresh, under |-> password])
  /\ UNCHANGED <<password, used, session, link, replaced>>

(* A faulty variant: the token that is exchanged stays valid.              *)
RefreshKeeps(s, t) ==
  /\ Live(t)
  /\ Begin(s, [kind |-> "issue", login |-> session[t].login, under |-> session[t].under])
  /\ UNCHANGED <<password, used, session, link, replaced>>

(* Refresh: ConsumeRefreshToken, one UPDATE ... RETURNING.                 *)
Refresh(s, t) ==
  /\ Live(t)
  /\ Begin(s, [kind |-> "issue", login |-> session[t].login, under |-> session[t].under])
  /\ session' = [session EXCEPT ![t].status = "over"]
  /\ UNCHANGED <<password, used, link, replaced>>

(* A faulty variant: no foreign key from refresh_tokens to users.          *)
IssueForNobody(s, t) ==
  /\ req[s].kind = "issue"
  /\ session[t] = NoSession
  /\ session' = [session EXCEPT ![t] =
       [login  |-> IF req[s].login = Fresh THEN t ELSE req[s].login,
        under  |-> req[s].under,
        status |-> "live"]]
  /\ Become(s, Idle)
  /\ UNCHANGED <<password, used, link, replaced>>

(* issuePair: the new refresh token, whose user must still exist.          *)
Issue(s, t) ==
  /\ req[s].kind = "issue"
  /\ Open
  /\ session[t] = NoSession
  /\ session' = [session EXCEPT ![t] =
       [login  |-> IF req[s].login = Fresh THEN t ELSE req[s].login,
        under  |-> req[s].under,
        status |-> "live"]]
  /\ Become(s, Idle)
  /\ UNCHANGED <<password, used, link, replaced>>

(* RevokeSession, or expires_at has passed.                                *)
EndSession(t) ==
  /\ Live(t)
  /\ session' = [session EXCEPT ![t].status = "over"]
  /\ UNCHANGED <<password, used, link, replaced, req>>
-----------------------------------------------------------------------------
(* ChangePassword: the old password is compared ...                        *)
CheckPassword(s, new) ==
  /\ Open
  /\ new \notin used
  /\ Begin(s, [kind |-> "write", new |-> new, by |-> Form])
  /\ UNCHANGED <<password, used, session, link, replaced>>

RequestPasswordReset(k) ==
  /\ Open
  /\ link[k] = "none"
  /\ link' = [link EXCEPT ![k] = "usable"]
  /\ UNCHANGED <<password, used, session, replaced, req>>

ExpireLink(k) ==
  /\ link[k] = "usable"
  /\ link' = [link EXCEPT ![k] = "over"]
  /\ UNCHANGED <<password, used, session, replaced, req>>

(* A faulty variant: the link is looked up and not consumed.               *)
LookUpResetToken(s, k, new) ==
  /\ link[k] = "usable"
  /\ new \notin used
  /\ Begin(s, [kind |-> "write", new |-> new, by |-> k])
  /\ UNCHANGED <<password, used, session, link, replaced>>

(* ResetPassword: the link is consumed (one UPDATE ... RETURNING) ...      *)
ConsumePasswordResetToken(s, k, new) ==
  /\ link[k] = "usable"
  /\ new \notin used
  /\ Begin(s, [kind |-> "write", new |-> new, by |-> k])
  /\ link' = [link EXCEPT ![k] = "over"]
  /\ UNCHANGED <<password, used, session, replaced>>

(* ... the new password is written, to nobody if the account has gone ...  *)
WritePassword(s) ==
  LET new == req[s].new IN
  /\ req[s].kind = "write"
  /\ IF Open
     THEN /\ password' = new
          /\ used'     = used \cup {new}
          /\ replaced' = replaced \cup ({req[s].by} \cap Links)
     ELSE UNCHANGED <<password, used, replaced>>
  /\ Become(s, [req[s] EXCEPT !.kind = "revoke"])
  /\ UNCHANGED <<session, link>>

(* A faulty variant: a reset leaves the sessions alone.                    *)
RevokeAfterChange(s) ==
  /\ req[s].kind = "revoke"
  /\ session' = [t \in Tokens |->
       IF Live(t) /\ req[s].by = Form THEN [session[t] EXCEPT !.status = "over"] ELSE session[t]]
  /\ Become(s, IF req[s].by = Form
               THEN [kind |-> "issue", login |-> Fresh, under |-> req[s].new]
               ELSE Idle)
  /\ UNCHANGED <<password, used, link, replaced>>

(* ... and every session is revoked; who gave the old password gets a new  *)
(* one.                                                                    *)
RevokeAllSessions(s) ==
  /\ req[s].kind = "revoke"
  /\ session' = [t \in Tokens |->
       IF Live(t) THEN [session[t] EXCEPT !.status = "over"] ELSE session[t]]
  /\ Become(s, IF req[s].by = Form
               THEN [kind |-> "issue", login |-> Fresh, under |-> req[s].new]
               ELSE Idle)
  /\ UNCHANGED <<password, used, link, replaced>>

(* DeleteAccount compares the password; DeleteUser is one transaction, and *)
(* the user's rows go with the user (ON DELETE CASCADE).                   *)
DeleteAccount(s) ==
  /\ Open
  /\ Begin(s, [kind |-> "delete"])
  /\ UNCHANGED <<password, used, session, link, replaced>>

DeleteUser(s) ==
  /\ req[s].kind = "delete"
  /\ Open
  /\ password' = Deleted
  /\ session'  = [t \in Tokens |-> NoSession]
  /\ link'     = [k \in Links |-> "none"]
  /\ Become(s, Idle)
  /\ UNCHANGED <<used, replaced>>

(* A statement fails, or the process stops: what was done stays done.      *)
Fail(s) ==
  /\ req[s] # Idle
  /\ Become(s, Idle)
  /\ UNCHANGED <<password, used, session, link, replaced>>
-----------------------------------------------------------------------------
Next ==
  \/ \E s \in Requests :
       \/ Login(s) \/ DeleteAccount(s)
       \/ WritePassword(s) \/ RevokeAllSessions(s) \/ DeleteUser(s) \/ Fail(s)
       \/ \E p \in Passwords : Register(s, p) \/ CheckPassword(s, p)
       \/ \E t \in Tokens : Refresh(s, t) \/ Issue(s, t)
       \/ \E k \in Links, p \in Passwords : ConsumePasswordResetToken(s, k, p)
  \/ \E t \in Tokens : EndSession(t)
  \/ \E k \in Links : RequestPasswordReset(k) \/ ExpireLink(k)

Spec == Init /\ [][Next]_vars
-----------------------------------------------------------------------------
(* Properties.                                                             *)

(* A sign-in never becomes two sessions: of the tokens that were exchanged *)
(* for one another at most one is valid, however often a client repeats a  *)
(* refresh or sends it twice at once (ConsumeRefreshToken).                *)
OneSessionPerLogin ==
  \A t, u \in Tokens : Live(t) /\ Live(u) /\ session[t].login = session[u].login => t = u

(* A reset link replaces the password at most once, even if it is opened   *)
(* twice at once or a first attempt fails half-way                         *)
(* (ConsumePasswordResetToken).                                            *)
ResetLinkOnce ==
  [][\A s \in Requests :
       WritePassword(s) /\ req[s].by # Form => req[s].by \notin replaced]_vars

(* "The cascade wipes ... refresh tokens": no session or reset link        *)
(* outlives the account, although sign-ins, refreshes and resets that are  *)
(* in flight when it is deleted go on (DeleteUser).                        *)
NothingOutlivesAccount ==
  ~ Open => /\ \A t \in Tokens : session[t] = NoSession
            /\ \A k \in Links : link[k] = "none"

(* "Invalidate every existing session" (service.go:162): with no request   *)
(* in flight, every session goes back to the password of now.              *)
SessionsFollowPassword ==
  (\A s \in Requests : req[s] = Idle) =>
    \A t \in Tokens : Live(t) => session[t].under = password
-----------------------------------------------------------------------------
(* The rest of the inductive invariant.                                    *)

(* s is about to issue a token that replaces one of sign-in l.             *)
Replaces(s, l) == req[s].kind = "issue" /\ req[s].login = l

(* s is about to write a password that link k allows.                      *)
Holds(s, k) == req[s].kind = "write" /\ req[s].by = k

NothingBeforeAccount ==
  password = NoAccount => /\ \A s \in Requests : req[s] = Idle
                          /\ replaced = {}

(* While a token is exchanged its sign-in has no valid token, and only one *)
(* request exchanges it.                                                   *)
ReplacedIsOver ==
  Open => \A s \in Requests, l \in Tokens : Replaces(s, l) =>
            /\ \A t \in Tokens : Live(t) => session[t].login # l
            /\ \A r \in Requests : Replaces(r, l) => r = s

(* A sign-in is named after its first token.                               *)
LoginsAreTokens ==
  Open => /\ \A t \in Tokens : session[t] # NoSession =>
                session[session[t].login] # NoSession
          /\ \A s \in Requests, l \in Tokens : Replaces(s, l) => session[l] # NoSession

(* A link that can still be opened has not been used.                      *)
UsableLinksAreNew ==
  Open => \A k \in Links : link[k] # "over" =>
            k \notin replaced /\ \A s \in Requests : ~ Holds(s, k)

OneHolderOfLink ==
  \A s \in Requests, k \in Links : Holds(s, k) =>
    k \notin replaced /\ \A r \in Requests : Holds(r, k) => r = s

IInv ==
  /\ TypeOK
  /\ NothingBeforeAccount
  /\ ReplacedIsOver
  /\ LoginsAreTokens
  /\ OneSessionPerLogin
  /\ NothingOutlivesAccount
  /\ UsableLinksAreNew
  /\ OneHolderOfLink
=============================================================================
