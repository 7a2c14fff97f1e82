----------------------------- MODULE RequestLog -----------------------------
(***************************************************************************)
(* The request log (internal/apilog): the middleware reads the start of    *)
(* the request's body and puts it back, copies the response up to a limit  *)
(* while the handler writes it, and leaves the insertion to a goroutine;   *)
(* a job prunes old rows.  Bodies are represented by their lengths.        *)
(***************************************************************************)
EXTENDS Integers, FiniteSetsExt

CONSTANTS Requests,
          Cap,         \* maxLogPayloadSize
          MaxBody,     \* bound on a body, above Cap
          Retention,   \* retentionDays
          LastDay      \* bound on the clock

(* What the constants are expected to be.                                  *)
RequestLogConstants ==
  /\ Cap \in Nat \ {0} /\ MaxBody \in Nat /\ Cap < MaxBody
  /\ Retention \in Nat \ {0} /\ LastDay \in Nat

Paths == {"/healthz", "auth", "export", "other"}

VARIABLES
  today,
  request,    \* the requests
  rows        \* api_logs: request, day, what is stored of the two bodies

requestVars == <<today, request, rows>>

Payloads == {"none", "masked", "truncated", "whole"} \X (0 .. Cap)

NoPayload == <<"none", 0>>

Row == [request : Requests, day : 0 .. LastDay, asked : Payloads, answered : Payloads]

Request == [step : {"new", "handler", "save", "done"}, path : Paths,
            sent     : 0 .. MaxBody,    \* length of the body the client sent
            read     : 0 .. Cap + 1,    \* what the middleware has read of it
            written  : 0 .. MaxBody,    \* length of what the handler wrote
            body     : 0 .. Cap, limitHit : BOOLEAN]

TypeOK ==
  /\ today \in 0 .. LastDay
  /\ request \in [Requests -> Request]
  /\ rows \subseteq Row

NoRequest == [step |-> "new", path |-> "other", sent |-> 0, read |-> 0,
              written |-> 0, body |-> 0, limitHit |-> FALSE]

Init ==
  /\ today = 0
  /\ request = [r \in Requests |-> NoRequest]
  /\ rows = {}
-----------------------------------------------------------------------------
(* A request for a path, with a body of n bytes, reaches the middleware:   *)
(* up to Cap + 1 bytes are read, and put in front of the rest again.       *)
Begin(r, path, n) ==
  /\ request[r].step = "new"
  /\ request' = [request EXCEPT ![r] =
       [step |-> "handler", path |-> path, sent |-> n, read |-> Min({n, Cap + 1}),
        written |-> 0, body |-> 0, limitHit |-> FALSE]]
  /\ UNCHANGED <<today, rows>>

(* Exports are not copied, and health checks not even wrapped.             *)
Skipped(path) == path \in {"export", "/healthz"}

(* What a write changes of a request.                                      *)
Copy(r, written, body, noted) ==
  LET q == request[r] IN
  request' = [request EXCEPT ![r] =
    [step |-> q.step, path |-> q.path, sent |-> q.sent, read |-> q.read, written |-> written,
     body     |-> IF Skipped(q.path) THEN q.body ELSE body,
     limitHit |-> q.limitHit \/ (~Skipped(q.path) /\ noted)]]

(* A faulty variant: nothing is noted once the copy is full.               *)
WriteUnnoticed(r, n) ==
  /\ request[r].step = "handler" /\ request[r].written + n <= MaxBody
  /\ LET q         == request[r]
         remaining == Cap - q.body
     IN Copy(r, q.written + n, q.body + Min({n, remaining}), remaining > 0 /\ n > remaining)
  /\ UNCHANGED <<today, rows>>

(* A faulty variant: all of a write is copied as long as any of it fits.   *)
WriteUncut(r, n) ==
  /\ request[r].step = "handler" /\ request[r].written + n <= MaxBody
  /\ LET q         == request[r]
         remaining == Cap - q.body
     IN Copy(r, q.written + n, q.body + (IF remaining > 0 THEN n ELSE 0), n > remaining)
  /\ UNCHANGED <<today, rows>>

(* responseBodyWriter.Write and WriteString: all n bytes go on to the      *)
(* client, and what fits is copied.                                        *)
Write(r, n) ==
  /\ request[r].step = "handler" /\ request[r].written + n <= MaxBody
  /\ LET q         == request[r]
         remaining == Cap - q.body
     IN Copy(r, q.written + n, q.body + Min({n, remaining}), n > remaining)
  /\ UNCHANGED <<today, rows>>

(* Health checks are not logged.                                           *)
Finish(r) ==
  /\ request[r].step = "handler"
  /\ request' = [request EXCEPT ![r].step = IF request[r].path = "/healthz" THEN "done" ELSE "save"]
  /\ UNCHANGED <<today, rows>>

(* logPayload.                                                             *)
LogPayload(path, length, truncated) ==
  IF length = 0 THEN NoPayload
  ELSE IF path = "auth" THEN <<"masked", 0>>
  ELSE IF truncated THEN <<"truncated", 0>> ELSE <<"whole", length>>

(* SaveLog, unless it fails or the process stops first.                    *)
Save(r) ==
  /\ request[r].step = "save"
  /\ LET q == request[r] IN
       \/ rows' = rows \cup {[request |-> r, day |-> today,
            asked    |-> LogPayload(q.path, Min({q.read, Cap}), q.read > Cap),
            answered |-> IF q.path = "export" THEN NoPayload
                         ELSE LogPayload(q.path, q.body, q.limitHit)]}
       \/ UNCHANGED rows
  /\ request' = [request EXCEPT ![r].step = "done"]
  /\ UNCHANGED today

NextDay ==
  /\ today < LastDay
  /\ today' = today + 1
  /\ UNCHANGED <<request, rows>>

(* RetentionScheduler.run.                                                 *)
Prune ==
  /\ rows' = {l \in rows : l.day >= today - Retention}
  /\ UNCHANGED <<today, request>>
-----------------------------------------------------------------------------
Next ==
  \/ \E r \in Requests : Finish(r) \/ Save(r)
  \/ \E r \in Requests, n \in 0 .. MaxBody : Write(r, n) \/ \E path \in Paths : Begin(r, path, n)
  \/ NextDay \/ Prune

Spec == Init /\ [][Next]_requestVars
-----------------------------------------------------------------------------
(* However the handler cuts its response into writes, a row holds a body   *)
(* completely or says that it was masked or cut.                           *)
LogsAreWholeOrMarked ==
  \A l \in rows :
    LET q == request[l.request]
        Logged(n) == IF n = 0 THEN NoPayload
                     ELSE IF q.path = "auth" THEN <<"masked", 0>>
                     ELSE IF n > Cap THEN <<"truncated", 0>> ELSE <<"whole", n>>
    IN /\ l.asked = Logged(q.sent)
       /\ l.answered = IF q.path = "export" THEN NoPayload ELSE Logged(q.written)

(* The rest of the inductive invariant: what has been read and copied of a *)
(* request, and that what is logged does not change any more.              *)
Copied(q) ==
  /\ q.read = Min({q.sent, Cap + 1})
  /\ IF Skipped(q.path) THEN q.body = 0 /\ ~q.limitHit
     ELSE q.body = Min({q.written, Cap}) /\ (q.limitHit <=> q.written > Cap)

IInv ==
  /\ TypeOK
  /\ \A r \in Requests :
       /\ Copied(request[r])
       /\ request[r].step = "save" => request[r].path # "/healthz"
  /\ \A l \in rows : request[l.request].step = "done"
  /\ LogsAreWholeOrMarked
=============================================================================
