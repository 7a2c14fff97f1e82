----------------------------- MODULE RateLimit ------------------------------
(***************************************************************************)
(* The rate limiter of internal/httpx: a sync.Map of token buckets, one    *)
(* for each client address, made when a client is first seen, and a        *)
(* goroutine that removes buckets.  getLimiter is a Load and then a Store, *)
(* and the cleanup takes a token and then deletes: requests run in         *)
(* between.  The limiter of golang.org/x/time/rate is a bucket that        *)
(* starts full and gains one token at each tick.                           *)
(***************************************************************************)
EXTENDS Integers, FiniteSetsExt

CONSTANTS Clients,
          Requests,    \* requests that may be under way at once
          Limiters,    \* objects, enough for every reference to them
          Burst,
          None

(* What the constants are expected to be.                                  *)
RateLimitConstants ==
  /\ Burst \in Nat \ {0}
  /\ None \notin Clients \cup Limiters

VARIABLES
  limiters,   \* the map
  tokens,     \* what is in each bucket
  request,    \* where each request is, for which client, with which limiter
  sweeping,   \* the client whose bucket the cleanup is about to delete
  due,        \* what one bucket for the client would hold; -1: overdrawn
  disturbed   \* a client got two buckets, or lost one it was using

rateVars == <<limiters, tokens, request, sweeping, due, disturbed>>

Request == [step : {"idle", "load", "store", "allow"},
            client : Clients \cup {None}, limiter : Limiters \cup {None}]

TypeOK ==
  /\ limiters \in [Clients -> Limiters \cup {None}]
  /\ tokens \in [Limiters -> 0 .. Burst]
  /\ request \in [Requests -> Request]
  /\ sweeping \in Clients \cup {None}
  /\ due \in [Clients -> -1 .. Burst]
  /\ disturbed \in BOOLEAN

Idle == [step |-> "idle", client |-> None, limiter |-> None]

Init ==
  /\ limiters = [c \in Clients |-> None]
  /\ tokens = [l \in Limiters |-> Burst]
  /\ request = [r \in Requests |-> Idle]
  /\ sweeping = None
  /\ due = [c \in Clients |-> Burst]
  /\ disturbed = FALSE
-----------------------------------------------------------------------------
Held(l) == \E r \in Requests : request[r].limiter = l

Unused == {l \in Limiters : ~Held(l) /\ \A c \in Clients : limiters[c] # l}

Arrive(r, c) ==
  /\ request[r].step = "idle"
  /\ request' = [request EXCEPT ![r] = [step |-> "load", client |-> c, limiter |-> None]]
  /\ UNCHANGED <<limiters, tokens, sweeping, due, disturbed>>

(* getLimiter: Load, and on a miss a new limiter.                          *)
Load(r) ==
  /\ request[r].step = "load"
  /\ LET c     == request[r].client
         found == limiters[c]
         new   == CHOOSE l \in Unused : TRUE
     IN \/ /\ found # None
           /\ request' = [request EXCEPT ![r] = [step |-> "allow", client |-> c, limiter |-> found]]
           /\ UNCHANGED <<tokens, disturbed>>
        \/ /\ found = None /\ Unused # {}
           /\ request' = [request EXCEPT ![r] = [step |-> "store", client |-> c, limiter |-> new]]
           /\ tokens' = [tokens EXCEPT ![new] = Burst]
           /\ disturbed' = (disturbed \/ \E q \in Requests :
                              request[q].step = "store" /\ request[q].client = c)
  /\ UNCHANGED <<limiters, sweeping, due>>

(* A faulty variant: the new limiter is not stored.                        *)
StoreNothing(r) ==
  /\ request[r].step = "store"
  /\ request' = [request EXCEPT ![r].step = "allow"]
  /\ UNCHANGED <<limiters, tokens, sweeping, due, disturbed>>

Store(r) ==
  /\ request[r].step = "store"
  /\ limiters' = [limiters EXCEPT ![request[r].client] = request[r].limiter]
  /\ request' = [request EXCEPT ![r].step = "allow"]
  /\ UNCHANGED <<tokens, sweeping, due, disturbed>>

(* Middleware: Allow, or 429.                                              *)
Allow(r) ==
  /\ request[r].step = "allow"
  /\ LET l == request[r].limiter
         c == request[r].client IN
       IF tokens[l] > 0
       THEN /\ tokens' = [tokens EXCEPT ![l] = @ - 1]
            /\ due' = [due EXCEPT ![c] = Max({@ - 1, -1})]
       ELSE UNCHANGED <<tokens, due>>
  /\ request' = [request EXCEPT ![r] = Idle]
  /\ UNCHANGED <<limiters, sweeping, disturbed>>

Tick ==
  /\ tokens' = [l \in Limiters |-> Min({tokens[l] + 1, Burst})]
  /\ due' = [c \in Clients |-> Min({due[c] + 1, Burst})]
  /\ UNCHANGED <<limiters, request, sweeping, disturbed>>

(* StartCleanup, one client at a time: a bucket that yields a token is     *)
(* taken for unused.                                                       *)
SweepAllow(c) ==
  /\ sweeping = None /\ limiters[c] # None /\ tokens[limiters[c]] > 0
  /\ tokens' = [tokens EXCEPT ![limiters[c]] = @ - 1]
  /\ sweeping' = c
  /\ UNCHANGED <<limiters, request, due, disturbed>>

SweepDelete ==
  /\ sweeping # None
  /\ disturbed' = (disturbed \/ Held(limiters[sweeping]) \/ due[sweeping] < Burst)
  /\ limiters' = [limiters EXCEPT ![sweeping] = None]
  /\ sweeping' = None
  /\ UNCHANGED <<tokens, request, due>>
-----------------------------------------------------------------------------
Next ==
  \/ \E r \in Requests : Load(r) \/ Store(r) \/ Allow(r) \/ \E c \in Clients : Arrive(r, c)
  \/ Tick
  \/ SweepDelete \/ \E c \in Clients : SweepAllow(c)

Spec == Init /\ [][Next]_rateVars
-----------------------------------------------------------------------------
(* "rate: requests per second ... burst: maximum burst size": a client is  *)
(* never allowed more requests than one bucket would allow it, unless two  *)
(* first requests made a bucket each, or the cleanup deleted a bucket that *)
(* the client was drawing on or that a request had just loaded.            *)
WithinRateAlone == disturbed \/ \A c \in Clients : due[c] >= 0

(* The rest of the inductive invariant: until something is disturbed, a    *)
(* client has one bucket, in the map or about to be stored there, which    *)
(* never holds more than it would be owed; without one it is owed a full   *)
(* one.                                                                    *)
At(r, s) == request[r].step = s

Owed(l, c) == tokens[l] <= due[c]

Storing(c) == \E r \in Requests : At(r, "store") /\ request[r].client = c

Shaped(q) ==
  /\ q.step # "idle" => q.client \in Clients
  /\ IF q.step \in {"store", "allow"} THEN q.limiter \in Limiters ELSE q.limiter = None

OneBucketEach ==
  /\ \A c \in Clients :
       /\ due[c] >= 0
       /\ limiters[c] # None => Owed(limiters[c], c)
       /\ limiters[c] = None /\ ~Storing(c) => due[c] = Burst
  /\ \A r \in Requests :
       /\ At(r, "store") => limiters[request[r].client] = None
                            /\ Owed(request[r].limiter, request[r].client)
       /\ At(r, "allow") => request[r].limiter = limiters[request[r].client]
  /\ \A q, r \in Requests :
       At(q, "store") /\ At(r, "store") /\ request[q].client = request[r].client => q = r

IInv ==
  /\ TypeOK
  /\ \A r \in Requests : Shaped(request[r])
  /\ disturbed \/ OneBucketEach
=============================================================================
