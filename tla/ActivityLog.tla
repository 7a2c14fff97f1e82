---------------------------- MODULE ActivityLog -----------------------------
(***************************************************************************)
(* The activity log (internal/activity): LogActivity drops expired entries *)
(* of the deduplication map, reads the entry of the activity's key, writes *)
(* it, each under the lock and none of them together, and leaves the       *)
(* insertion to a goroutine that may fail or never run.  The key is made   *)
(* of the user, the action and the entity; the description is not part.    *)
(***************************************************************************)
EXTENDS Integers, FiniteSets

CONSTANTS Callers,     \* requests that may log at once
          Keys,
          Window,      \* dedupeWindow, in ticks
          MaxTime,     \* bound on the clock
          None

(* What the constants are expected to be.                                  *)
ActivityLogConstants ==
  /\ Window \in Nat \ {0} /\ MaxTime \in Nat
  /\ None \notin Keys \cup Nat

VARIABLES
  now,
  dedupe,     \* when an activity of the key was last accepted
  call,       \* where each caller is, and with which key
  saving,     \* the activities whose goroutine has not finished: key, time
  rows,       \* user_activities: key, time of acceptance
  doubled     \* two calls for one key were between their read and write

activityVars == <<now, dedupe, call, saving, rows, doubled>>

Activity == Keys \X (0 .. MaxTime)

TypeOK ==
  /\ now \in 0 .. MaxTime
  /\ dedupe \in [Keys -> 0 .. MaxTime \cup {None}]
  /\ call \in [Callers -> [step : {"idle", "read", "write"}, key : Keys \cup {None}]]
  /\ saving \subseteq Activity /\ rows \subseteq Activity
  /\ doubled \in BOOLEAN

Idle == [step |-> "idle", key |-> None]

Init ==
  /\ now = 0
  /\ dedupe = [k \in Keys |-> None]
  /\ call = [p \in Callers |-> Idle]
  /\ saving = {} /\ rows = {}
  /\ doubled = FALSE
-----------------------------------------------------------------------------
Tick ==
  /\ now < MaxTime
  /\ now' = now + 1
  /\ UNCHANGED <<dedupe, call, saving, rows, doubled>>

Age(k) == now - dedupe[k]

(* LogActivity up to cleanupDedupe, which drops what is older than the     *)
(* window.                                                                 *)
Clean(p, k) ==
  /\ call[p].step = "idle"
  /\ call' = [call EXCEPT ![p] = [step |-> "read", key |-> k]]
  /\ dedupe' = [j \in Keys |-> IF dedupe[j] # None /\ Age(j) > Window THEN None ELSE dedupe[j]]
  /\ UNCHANGED <<now, saving, rows, doubled>>

Read(p) ==
  /\ call[p].step = "read"
  /\ LET k == call[p].key IN
       IF dedupe[k] # None /\ Age(k) < Window
       THEN call' = [call EXCEPT ![p] = Idle]
       ELSE call' = [call EXCEPT ![p].step = "write"]
  /\ UNCHANGED <<now, dedupe, saving, rows, doubled>>

(* A faulty variant: an entry that is still there keeps its time.          *)
WriteOnce(p) ==
  /\ call[p].step = "write"
  /\ LET k == call[p].key IN
       /\ dedupe' = [dedupe EXCEPT ![k] = IF @ = None THEN now ELSE @]
       /\ saving' = saving \cup {<<k, now>>}
       /\ doubled' = (doubled \/ \E q \in Callers \ {p} : call[q] = call[p])
  /\ call' = [call EXCEPT ![p] = Idle]
  /\ UNCHANGED <<now, rows>>

Write(p) ==
  /\ call[p].step = "write"
  /\ LET k == call[p].key IN
       /\ dedupe' = [dedupe EXCEPT ![k] = now]
       /\ saving' = saving \cup {<<k, now>>}
       /\ doubled' = (doubled \/ \E q \in Callers \ {p} : call[q] = call[p])
  /\ call' = [call EXCEPT ![p] = Idle]
  /\ UNCHANGED <<now, rows>>

(* The goroutine inserts the row, or its five seconds run out.             *)
Save(a) ==
  /\ saving' = saving \ {a}
  /\ rows' \in {rows, rows \cup {a}}
  /\ UNCHANGED <<now, dedupe, call, doubled>>

(* The process stops: the map and the goroutines are gone.                 *)
Restart ==
  /\ dedupe' = [k \in Keys |-> None]
  /\ call' = [p \in Callers |-> Idle]
  /\ saving' = {}
  /\ doubled' = TRUE
  /\ UNCHANGED <<now, rows>>
-----------------------------------------------------------------------------
Next ==
  \/ Tick \/ Restart
  \/ \E p \in Callers : Read(p) \/ Write(p) \/ \E k \in Keys : Clean(p, k)
  \/ \E a \in saving : Save(a)

Spec == Init /\ [][Next]_activityVars
-----------------------------------------------------------------------------
(* "Duplicate activities within dedupeWindow are ignored": two rows of one *)
(* key are a window apart, unless two calls overlapped or the process was  *)
(* restarted.                                                              *)
LoggedOncePerWindowAlone ==
  doubled \/ \A a, b \in rows : a[1] = b[1] /\ a[2] < b[2] => b[2] - a[2] >= Window

(* The rest of the inductive invariant: until calls overlap, the map       *)
(* remembers every activity that was accepted less than a window ago, and  *)
(* a call that is about to write has none of its key.                      *)
Accepted == rows \cup saving

Remembered(a) == (dedupe[a[1]] # None /\ a[2] <= dedupe[a[1]]) \/ now - a[2] >= Window

WindowPassed(k) == \A a \in Accepted : a[1] = k => now - a[2] >= Window

IInv ==
  /\ TypeOK
  /\ \A p \in Callers : call[p].step # "idle" => call[p].key \in Keys
  /\ doubled \/
       /\ \A a \in Accepted : Remembered(a)
       /\ \A p \in Callers : call[p].step = "write" => WindowPassed(call[p].key)
       /\ \A a, b \in Accepted : a[1] = b[1] /\ a[2] < b[2] => b[2] - a[2] >= Window
=============================================================================
