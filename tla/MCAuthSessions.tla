--------------------------- MODULE MCAuthSessions ---------------------------
(* Instances of AuthSessions for TLC.                                      *)
EXTENDS AuthSessions, TLC

CONSTANTS t1, t2, t3, t4, k1, k2, p1, p2, p3, a, b

VARIABLES
  raced,    \* two requests have been in flight at the same time
  failed    \* a request failed between the new password and the revocation

Interchange ==
  Permutations(Tokens) \cup Permutations(Links) \cup Permutations(Passwords)
    \cup Permutations(Requests)

MCInit == Init /\ raced = FALSE /\ failed = FALSE
MCNext ==
  /\ Next
  /\ raced'  = (raced \/ \E s, r \in Requests : s # r /\ req'[s] # Idle /\ req'[r] # Idle)
  /\ failed' = (failed \/ \E s \in Requests :
                  req[s].kind = "revoke" /\ Fail(s) /\ ~ RevokeAllSessions(s))
MCSpec == MCInit /\ [][MCNext]_<<vars, raced, failed>>

(* Requests one at a time, none of which failed between the two writes:    *)
(* after a change or reset of the password no earlier session is left.     *)
SessionsFollowPasswordAlone == ~ raced /\ ~ failed => SessionsFollowPassword
-----------------------------------------------------------------------------
(* The inductive invariant of the property.                                *)

OneAtATime == \A s, r \in Requests : req[s] # Idle /\ req[r] # Idle => s = r

(* What is issued goes back to the password of now, and what does not is   *)
(* about to be revoked.                                                    *)
SessionsAreOfNow ==
  Open =>
    /\ \A s \in Requests : req[s].kind = "issue" => req[s].under = password
    /\ \A s \in Requests : req[s].kind = "revoke" => req[s].new = password
    /\ (\A s \in Requests : req[s].kind # "revoke") =>
         \A t \in Tokens : Live(t) => session[t].under = password

MCIInv ==
  /\ IInv
  /\ ~ raced => OneAtATime
  /\ ~ raced /\ ~ failed => SessionsAreOfNow
=============================================================================
