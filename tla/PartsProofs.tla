----------------------------- MODULE PartsProofs -----------------------------
(***************************************************************************)
(* Proofs about the parts, for every value of the constants.  Each part    *)
(* has an inductive invariant of its own (IInv in its module); a behaviour *)
(* of the composition is one of the part it is about.                      *)
(***************************************************************************)
EXTENDS Parts, Sums

(***************************************************************************)
(* Startup.                                                                *)
(***************************************************************************)

LEMMA StartupInit == Sta!Init => Sta!IInv
<1>. SUFFICES ASSUME Sta!Init PROVE Sta!IInv
  OBVIOUS
<1>1. LastFile \in Nat /\ None \notin Twins
  BY PartsAssumption DEF Sta!StartupConstants
<1>2. Sta!TypeOK
  BY <1>1 DEF Sta!Init, Sta!TypeOK, Sta!Phases, Sta!Files
<1>. QED
  BY <1>1, <1>2 DEF Sta!Init, Sta!IInv, Sta!Migrating, Sta!SchemaIsThere, Sta!MigratedOnce

LEMMA StartupGoes ==
  ASSUME Sta!TypeOK, NEW p \in Twins, NEW s \in Sta!Phases, Sta!Goto(p, s)
  PROVE  /\ phase' \in [Twins -> Sta!Phases]
         /\ phase'[p] = s /\ \A q \in Twins \ {p} : phase'[q] = phase[q]
BY DEF Sta!TypeOK, Sta!Goto

LEMMA StartupNumbers ==
  ASSUME Sta!TypeOK, NEW p \in Twins
  PROVE  LastFile \in Nat /\ build[p] \in 0 .. LastFile /\ file[p] \in 1 .. LastFile + 1
BY PartsAssumption DEF Sta!StartupConstants, Sta!TypeOK

LEMMA StartupMoves ==
  ASSUME Sta!TypeOK, NEW p \in Twins, file[p] <= build[p],
         file' = [file EXCEPT ![p] = file[p] + 1]
  PROVE  /\ file' \in [Twins -> 1 .. LastFile + 1] /\ file'[p] = file[p] + 1
         /\ \A q \in Twins \ {p} : file'[q] = file[q]
<1>1. file[p] + 1 \in 1 .. LastFile + 1
  BY StartupNumbers
<1>. QED  BY <1>1 DEF Sta!TypeOK

LEMMA StartupStarts ==
  ASSUME Sta!IInv, NEW p \in Twins, NEW n \in 0 .. LastFile, Sta!Start(p, n)
  PROVE  Sta!IInv'
<1>1. LastFile \in Nat
  BY PartsAssumption DEF Sta!StartupConstants
<1>2. Sta!TypeOK'
  <2>1. phase' \in [Twins -> Sta!Phases]
    BY StartupGoes DEF Sta!IInv, Sta!Start, Sta!Phases
  <2>2. 1 \in 1 .. LastFile + 1
    BY <1>1
  <2>. QED  BY <2>1, <2>2 DEF Sta!IInv, Sta!TypeOK, Sta!Start
<1>3. \A q \in Twins \ {p} : phase'[q] = phase[q] /\ build'[q] = build[q] /\ file'[q] = file[q]
  BY DEF Sta!IInv, Sta!TypeOK, Sta!Start, Sta!Goto
<1>4. ~ Sta!Migrating(p) /\ ~ Sta!Migrating(p)'
  BY DEF Sta!IInv, Sta!TypeOK, Sta!Start, Sta!Goto, Sta!Migrating
<1>5. phase'[p] = "serving" => 1 .. build'[p] = {}
  BY <1>1 DEF Sta!IInv, Sta!TypeOK, Sta!Start, Sta!Goto
<1>6. phase'[p] # "draining" /\ phase'[p] # "apply"
  BY DEF Sta!IInv, Sta!TypeOK, Sta!Start, Sta!Goto
<1>7. file'[p] = 1
  BY DEF Sta!IInv, Sta!TypeOK, Sta!Start
<1>. QED
  BY <1>2, <1>3, <1>4, <1>5, <1>6, <1>7 DEF Sta!IInv, Sta!MigratedOnce, Sta!Migrating, Sta!SchemaIsThere, Sta!Start

LEMMA StartupLocks ==
  ASSUME Sta!IInv, NEW p \in Twins, Sta!Lock(p)
  PROVE  Sta!IInv'
<1>1. LastFile \in Nat /\ None \notin Twins
  BY PartsAssumption DEF Sta!StartupConstants
<1>2. Sta!TypeOK'
  BY <1>1 DEF Sta!IInv, Sta!TypeOK, Sta!Lock, Sta!Goto, Sta!Phases, Sta!Files
<1>3. phase'[p] = "check" /\ \A q \in Twins \ {p} : phase'[q] = phase[q]
  BY DEF Sta!IInv, Sta!TypeOK, Sta!Lock, Sta!Goto
<1>4. \A q \in Twins : ~ Sta!Migrating(q)
  BY <1>1 DEF Sta!IInv, Sta!Lock
<1>5. file[p] <= build[p] + 1 /\ 1 .. file[p] - 1 \subseteq recorded
  <2>1. file[p] = 1 /\ build[p] \in Nat
    BY <1>1 DEF Sta!IInv, Sta!TypeOK, Sta!Lock
  <2>. QED  BY <2>1
<1>. QED
  BY <1>1, <1>2, <1>3, <1>4, <1>5 DEF Sta!IInv, Sta!MigratedOnce, Sta!Migrating, Sta!SchemaIsThere, Sta!Lock


LEMMA StartupChecks ==
  ASSUME Sta!IInv, NEW p \in Twins, Sta!Check(p)
  PROVE  Sta!IInv'
<1>1. LastFile \in Nat /\ build[p] \in 0 .. LastFile /\ file[p] \in 1 .. LastFile + 1
      /\ file[p] <= build[p] /\ 1 .. file[p] - 1 \subseteq recorded
  BY PartsAssumption DEF Sta!StartupConstants, Sta!IInv, Sta!TypeOK, Sta!Check, Sta!Migrating
<1>2. CASE file[p] \in recorded
  <2>1. file' = [file EXCEPT ![p] = file[p] + 1]
    BY <1>2 DEF Sta!Check
  <2>2. /\ file' \in [Twins -> 1 .. LastFile + 1] /\ file'[p] = file[p] + 1
        /\ \A q \in Twins \ {p} : file'[q] = file[q]
    BY <1>1, <2>1, StartupMoves DEF Sta!IInv
  <2>3. 1 .. file'[p] - 1 \subseteq recorded
    BY <1>1, <1>2, <2>2
  <2>4. phase[p] = "check" /\ UNCHANGED <<phase, build, holder, executed, recorded>>
    BY <1>2 DEF Sta!Check
  <2>5. Sta!TypeOK'
    BY <2>2, <2>4 DEF Sta!IInv, Sta!TypeOK
  <2>6. file'[p] <= build[p] + 1
    BY <1>1, <2>2
  <2>. QED
    BY <2>2, <2>3, <2>4, <2>5, <2>6 DEF Sta!IInv, Sta!MigratedOnce, Sta!Migrating, Sta!SchemaIsThere
<1>3. CASE file[p] \notin recorded
  <2>1. phase[p] = "check" /\ UNCHANGED <<build, file, holder, executed, recorded>>
    BY <1>3 DEF Sta!Check
  <2>2. /\ phase' \in [Twins -> Sta!Phases]
        /\ phase'[p] = "apply" /\ \A q \in Twins \ {p} : phase'[q] = phase[q]
    BY <1>3, StartupGoes DEF Sta!Check, Sta!IInv, Sta!Phases
  <2>. QED
    BY <1>1, <1>3, <2>1, <2>2 DEF Sta!IInv, Sta!TypeOK, Sta!MigratedOnce, Sta!Migrating, Sta!SchemaIsThere
<1>. QED  BY <1>2, <1>3

LEMMA StartupApplies ==
  ASSUME Sta!IInv, NEW p \in Twins, Sta!Apply(p)
  PROVE  Sta!IInv'
<1>1. /\ LastFile \in Nat /\ build[p] \in 0 .. LastFile /\ file[p] \in 1 .. LastFile + 1
      /\ file[p] <= build[p] /\ 1 .. file[p] - 1 \subseteq recorded /\ file[p] \notin recorded
  BY PartsAssumption DEF Sta!StartupConstants, Sta!IInv, Sta!TypeOK, Sta!Apply, Sta!Migrating
<1>2. recorded' = recorded \cup {file[p]}
  BY DEF Sta!Apply
<1>3. \A f \in recorded' : 1 .. f \subseteq recorded'
  <2>1. 1 .. file[p] \subseteq recorded'
    BY <1>1, <1>2
  <2>. QED  BY <1>2, <2>1 DEF Sta!IInv, Sta!MigratedOnce
<1>4. 1 .. file[p] \subseteq recorded'
  BY <1>1, <1>2
<1>5. /\ executed[file[p]] = 0 /\ executed \in [Sta!Files -> 0 .. 2]
      /\ file[p] \in Sta!Files
  BY <1>1 DEF Sta!IInv, Sta!TypeOK, Sta!Files, Sta!MigratedOnce
<1>6. executed' = [executed EXCEPT ![file[p]] = 1]
  BY <1>5 DEF Sta!Apply
<1>7. /\ executed' \in [Sta!Files -> 0 .. 2]
      /\ \A f \in Sta!Files : executed'[f] = IF f \in recorded' THEN 1 ELSE 0
  BY <1>2, <1>5, <1>6 DEF Sta!IInv, Sta!MigratedOnce
<1>8. /\ file' \in [Twins -> 1 .. LastFile + 1] /\ file'[p] = file[p] + 1
      /\ \A q \in Twins \ {p} : file'[q] = file[q]
  BY <1>1, StartupMoves DEF Sta!IInv, Sta!Apply
<1>9. /\ phase' \in [Twins -> Sta!Phases] /\ phase'[p] = "check" /\ phase[p] = "apply"
      /\ \A q \in Twins \ {p} : phase'[q] = phase[q]
  BY StartupGoes DEF Sta!IInv, Sta!Apply, Sta!Phases
<1>10. Sta!TypeOK'
  BY <1>5, <1>7, <1>8, <1>9 DEF Sta!IInv, Sta!TypeOK, Sta!Apply
<1>11. 1 .. file'[p] - 1 \subseteq recorded' /\ file'[p] <= build[p] + 1
  BY <1>1, <1>3, <1>4, <1>8
<1>12. \A q \in Twins \ {p} : ~ Sta!Migrating(q)
  BY <1>9 DEF Sta!IInv, Sta!Migrating
<1>13. recorded \subseteq recorded' /\ build' = build /\ holder' = holder
  BY DEF Sta!Apply
<1>. QED
  BY <1>3, <1>7, <1>8, <1>9, <1>10, <1>11, <1>12, <1>13
     DEF Sta!IInv, Sta!Migrating, Sta!SchemaIsThere, Sta!MigratedOnce

LEMMA StartupServes ==
  ASSUME Sta!IInv, NEW p \in Twins, Sta!Serve(p)
  PROVE  Sta!IInv'
<1>1. LastFile \in Nat /\ build[p] \in 0 .. LastFile /\ file[p] \in 1 .. LastFile + 1
  BY StartupNumbers DEF Sta!IInv
<1>2. /\ phase' \in [Twins -> Sta!Phases] /\ phase'[p] = "serving" /\ phase[p] = "check"
      /\ \A q \in Twins \ {p} : phase'[q] = phase[q]
  BY StartupGoes DEF Sta!IInv, Sta!Serve, Sta!Phases
<1>3. holder = p /\ holder' = None /\ \A q \in Twins \ {p} : ~ Sta!Migrating(q)
  BY <1>2 DEF Sta!IInv, Sta!MigratedOnce, Sta!Migrating, Sta!Serve
<1>4. 1 .. build[p] \subseteq recorded
  <2>1. 1 .. file[p] - 1 \subseteq recorded /\ build[p] < file[p]
    BY <1>2 DEF Sta!IInv, Sta!MigratedOnce, Sta!Migrating, Sta!Serve
  <2>. QED  BY <1>1, <2>1
<1>5. None \notin Twins
  BY PartsAssumption DEF Sta!StartupConstants
<1>6. UNCHANGED <<build, file, executed, recorded>>
  BY DEF Sta!Serve
<1>7. Sta!TypeOK'
  BY <1>2, <1>3, <1>6 DEF Sta!IInv, Sta!TypeOK
<1>8. Sta!SchemaIsThere'
  BY <1>2, <1>4, <1>6 DEF Sta!IInv, Sta!SchemaIsThere
<1>. QED
  BY <1>2, <1>3, <1>5, <1>6, <1>7, <1>8 DEF Sta!IInv, Sta!MigratedOnce, Sta!Migrating

LEMMA StartupSignals ==
  ASSUME Sta!IInv, NEW p \in Twins, Sta!Signal(p)
  PROVE  Sta!IInv'
<1>1. /\ phase' \in [Twins -> Sta!Phases] /\ phase'[p] = "draining" /\ phase[p] = "serving"
      /\ \A q \in Twins \ {p} : phase'[q] = phase[q]
  BY StartupGoes DEF Sta!IInv, Sta!Signal, Sta!Phases
<1>. QED
  BY <1>1 DEF Sta!IInv, Sta!TypeOK, Sta!MigratedOnce, Sta!Migrating, Sta!SchemaIsThere, Sta!Signal

LEMMA StartupExits ==
  ASSUME Sta!IInv, NEW p \in Twins, Sta!Exit(p)
  PROVE  Sta!IInv'
<1>1. /\ phase' \in [Twins -> Sta!Phases] /\ phase'[p] = "down"
      /\ \A q \in Twins \ {p} : phase'[q] = phase[q]
  BY StartupGoes DEF Sta!IInv, Sta!Exit, Sta!Phases
<1>2. None \notin Twins
  BY PartsAssumption DEF Sta!StartupConstants
<1>3. holder' = IF holder = p THEN None ELSE holder
  BY DEF Sta!Exit
<1>4. \A q \in Twins : Sta!Migrating(q)' <=> holder' = q
  BY <1>1, <1>2, <1>3 DEF Sta!IInv, Sta!MigratedOnce, Sta!Migrating
<1>. QED
  BY <1>1, <1>3, <1>4 DEF Sta!IInv, Sta!TypeOK, Sta!MigratedOnce, Sta!Migrating, Sta!SchemaIsThere, Sta!Exit

LEMMA StartupNext == Sta!IInv /\ Sta!Next => Sta!IInv'
BY StartupStarts, StartupLocks, StartupChecks, StartupApplies, StartupServes, StartupSignals,
   StartupExits DEF Sta!Next

LEMMA StartupUnchanged == Sta!IInv /\ UNCHANGED startupVars => Sta!IInv'
BY DEF startupVars, Sta!IInv, Sta!TypeOK, Sta!MigratedOnce, Sta!Migrating, Sta!SchemaIsThere

LEMMA StartupSafe == Sta!IInv => Sta!SchemaReady
BY DEF Sta!IInv, Sta!SchemaReady, Sta!RunnersAreSerialized

(***************************************************************************)
(* The activity log.                                                       *)
(***************************************************************************)

LEMMA ActivityConstants ==
  Window \in Nat \ {0} /\ MaxTime \in Nat /\ None \notin Keys /\ None \notin Nat
BY PartsAssumption DEF Act!ActivityLogConstants

(* The ages of what has been accepted are numbers.                         *)
LEMMA ActivityTimes ==
  ASSUME Act!TypeOK
  PROVE  /\ now \in 0 .. MaxTime
         /\ \A a \in Act!Accepted : a = <<a[1], a[2]>> /\ a[1] \in Keys /\ a[2] \in 0 .. MaxTime
         /\ \A k \in Keys : dedupe[k] # None => dedupe[k] \in 0 .. MaxTime
BY DEF Act!TypeOK, Act!Accepted, Act!Activity

LEMMA ActivityInit == Act!Init => Act!IInv
<1>. SUFFICES ASSUME Act!Init PROVE Act!IInv
  OBVIOUS
<1>1. 0 \in 0 .. MaxTime /\ Act!Accepted = {}
  BY ActivityConstants DEF Act!Init, Act!Accepted
<1>2. Act!TypeOK
  BY <1>1 DEF Act!Init, Act!TypeOK, Act!Idle
<1>. QED  BY <1>1, <1>2 DEF Act!Init, Act!IInv, Act!Idle

LEMMA ActivityTicks == ASSUME Act!IInv, Act!Tick PROVE Act!IInv'
<1>1. Act!TypeOK'
  BY ActivityConstants DEF Act!IInv, Act!TypeOK, Act!Tick
<1>2. now' = now + 1 /\ now \in Nat /\ Act!Accepted' = Act!Accepted
  BY DEF Act!IInv, Act!TypeOK, Act!Tick, Act!Accepted
<1>3. \A a \in Act!Accepted : a[2] \in Int
  BY ActivityTimes DEF Act!IInv
<1>4. \A a \in Act!Accepted : now - a[2] >= Window => now' - a[2] >= Window
  BY <1>2, <1>3, ActivityConstants
<1>. QED
  BY <1>1, <1>2, <1>4 DEF Act!IInv, Act!Tick, Act!Remembered, Act!WindowPassed

LEMMA ActivityCleans ==
  ASSUME Act!IInv, NEW p \in Twins, NEW k \in Keys, Act!Clean(p, k)
  PROVE  Act!IInv'
<1>1. Act!Accepted' = Act!Accepted /\ now' = now /\ doubled' = doubled
  BY DEF Act!Clean, Act!Accepted
<1>2. \A j \in Keys : dedupe'[j] = IF dedupe[j] # None /\ now - dedupe[j] > Window
                                   THEN None ELSE dedupe[j]
  BY DEF Act!Clean, Act!Age
<1>3. \A a \in Act!Accepted : Act!Remembered(a) => Act!Remembered(a)'
  BY <1>1, <1>2, ActivityTimes, ActivityConstants DEF Act!IInv, Act!Remembered
<1>4. call'[p].step = "read" /\ call'[p].key = k /\ \A q \in Twins \ {p} : call'[q] = call[q]
  BY DEF Act!IInv, Act!TypeOK, Act!Clean
<1>5. Act!TypeOK'
  <2>1. dedupe' \in [Keys -> 0 .. MaxTime \cup {None}]
    BY DEF Act!IInv, Act!TypeOK, Act!Clean
  <2>2. [step |-> "read", key |-> k] \in
          [step : {"idle", "read", "write"}, key : Keys \cup {None}]
    OBVIOUS
  <2>. QED  BY <2>1, <2>2 DEF Act!IInv, Act!TypeOK, Act!Clean
<1>. QED
  BY <1>1, <1>3, <1>4, <1>5 DEF Act!IInv, Act!WindowPassed

LEMMA ActivityReads ==
  ASSUME Act!IInv, NEW p \in Twins, Act!Read(p)
  PROVE  Act!IInv'
<1>. DEFINE k == call[p].key
<1>1. UNCHANGED <<now, dedupe, saving, activities, doubled>> /\ Act!Accepted' = Act!Accepted
      /\ k \in Keys /\ call[p].step = "read"
  BY DEF Act!IInv, Act!Read, Act!Accepted
<1>2. CASE dedupe[k] # None /\ Act!Age(k) < Window
  <2>1. call' = [call EXCEPT ![p] = Act!Idle]
    BY <1>2 DEF Act!Read
  <2>2. /\ call' \in [Twins -> [step : {"idle", "read", "write"}, key : Keys \cup {None}]]
        /\ call'[p].step = "idle" /\ \A q \in Twins \ {p} : call'[q] = call[q]
    BY <2>1 DEF Act!IInv, Act!TypeOK, Act!Idle
  <2>. QED
    BY <1>1, <2>2 DEF Act!IInv, Act!TypeOK, Act!Remembered, Act!WindowPassed
<1>3. CASE ~ (dedupe[k] # None /\ Act!Age(k) < Window)
  <2>1. call' = [call EXCEPT ![p].step = "write"]
    BY <1>3 DEF Act!Read
  <2>2. /\ call' \in [Twins -> [step : {"idle", "read", "write"}, key : Keys \cup {None}]]
        /\ call'[p].key = k /\ \A q \in Twins \ {p} : call'[q] = call[q]
    BY <2>1 DEF Act!IInv, Act!TypeOK
  <2>3. ASSUME NEW a \in Act!Accepted, a[1] = k, Act!Remembered(a) PROVE now - a[2] >= Window
    BY <1>1, <1>3, <2>3, ActivityTimes, ActivityConstants DEF Act!IInv, Act!Remembered, Act!Age
  <2>. HIDE DEF k
  <2>. QED
    BY <1>1, <2>2, <2>3 DEF Act!IInv, Act!TypeOK, Act!Remembered, Act!WindowPassed
<1>. QED  BY <1>2, <1>3

LEMMA ActivityWrites ==
  ASSUME Act!IInv, NEW p \in Twins, Act!Write(p)
  PROVE  Act!IInv'
<1>. DEFINE k == call[p].key
            new == <<k, now>>
<1>1. /\ call[p].step = "write" /\ k \in Keys /\ now' = now /\ now \in 0 .. MaxTime
      /\ dedupe' = [dedupe EXCEPT ![k] = now]
      /\ doubled' = (doubled \/ \E q \in Twins \ {p} : call[q] = call[p])
      /\ call' = [call EXCEPT ![p] = Act!Idle] /\ activities' = activities
      /\ saving' = saving \cup {new}
  BY DEF Act!IInv, Act!TypeOK, Act!Write
<1>2. Act!Accepted' = Act!Accepted \cup {new} /\ new[1] = k /\ new[2] = now
  BY <1>1 DEF Act!Accepted
<1>3. /\ call' \in [Twins -> [step : {"idle", "read", "write"}, key : Keys \cup {None}]]
      /\ call'[p].step = "idle" /\ \A q \in Twins \ {p} : call'[q] = call[q]
  BY <1>1 DEF Act!IInv, Act!TypeOK, Act!Idle
<1>4. /\ dedupe' \in [Keys -> 0 .. MaxTime \cup {None}]
      /\ dedupe'[k] = now /\ \A j \in Keys \ {k} : dedupe'[j] = dedupe[j]
  BY <1>1 DEF Act!IInv, Act!TypeOK
<1>5. Act!TypeOK'
  BY <1>1, <1>3, <1>4 DEF Act!IInv, Act!TypeOK, Act!Activity
<1>. HIDE DEF new, k
<1>6. ASSUME ~ doubled' PROVE \A q \in Twins \ {p} : call[q].step = "write" => call[q].key # k
  <2>1. \A q \in Twins : call[q] \in [step : {"idle", "read", "write"}, key : Keys \cup {None}]
    BY DEF Act!IInv, Act!TypeOK
  <2>2. \A q \in Twins : call[q] = [step |-> call[q].step, key |-> call[q].key]
    BY <2>1
  <2>. QED  BY <1>1, <1>6, <2>2 DEF k
<1>7. ASSUME ~ doubled'
      PROVE  /\ \A a \in Act!Accepted : Act!Remembered(a)
             /\ \A q \in Twins : call[q].step = "write" => Act!WindowPassed(call[q].key)
             /\ \A a, b \in Act!Accepted : a[1] = b[1] /\ a[2] < b[2] => b[2] - a[2] >= Window
  BY <1>1, <1>7 DEF Act!IInv
<1>8. \A a \in Act!Accepted : a[1] \in Keys /\ a[2] \in 0 .. MaxTime
  BY ActivityTimes DEF Act!IInv
<1>9. ASSUME ~ doubled' PROVE \A a \in Act!Accepted : a[1] = k => now - a[2] >= Window
  BY <1>1, <1>7, <1>9 DEF Act!WindowPassed, k
<1>10. ASSUME ~ doubled' PROVE \A a \in Act!Accepted' : Act!Remembered(a)'
  <2>. SUFFICES ASSUME NEW a \in Act!Accepted' PROVE Act!Remembered(a)'
    OBVIOUS
  <2>1. CASE a \in Act!Accepted
    BY <1>1, <1>4, <1>7, <1>8, <1>9, <1>10, <2>1 DEF Act!Remembered
  <2>2. CASE a = new
    BY <1>1, <1>2, <1>4, <2>2, ActivityConstants DEF Act!Remembered
  <2>. QED  BY <1>2, <2>1, <2>2
<1>11. ASSUME ~ doubled', NEW q \in Twins, call'[q].step = "write"
       PROVE  \A a \in Act!Accepted' : a[1] = call'[q].key => now' - a[2] >= Window
  <2>1. q # p /\ call'[q] = call[q] /\ call[q].step = "write" /\ call[q].key # k
    BY <1>3, <1>6, <1>11
  <2>2. Act!WindowPassed(call[q].key)
    BY <1>7, <1>11, <2>1
  <2>. QED  BY <1>1, <1>2, <2>1, <2>2 DEF Act!WindowPassed
<1>12. ASSUME ~ doubled', NEW a \in Act!Accepted', NEW b \in Act!Accepted', a[1] = b[1], a[2] < b[2]
       PROVE  b[2] - a[2] >= Window
  <2>1. CASE a \in Act!Accepted /\ b \in Act!Accepted
    BY <1>7, <1>12, <2>1
  <2>2. CASE a \in Act!Accepted /\ b = new
    BY <1>2, <1>9, <1>12, <2>2
  <2>3. CASE a = new
    <3>1. a[1] = k /\ a[2] = now /\ b \in Act!Accepted
      BY <1>1, <1>2, <1>12, <2>3
    <3>2. now - b[2] >= Window
      BY <1>9, <1>12, <3>1
    <3>. QED  BY <1>1, <1>8, <1>12, <3>1, <3>2, ActivityConstants
  <2>. QED  BY <1>2, <2>1, <2>2, <2>3
<1>13. \A q \in Twins : call'[q].step # "idle" => call'[q].key \in Keys
  BY <1>3 DEF Act!IInv
<1>. QED
  BY <1>5, <1>10, <1>11, <1>12, <1>13 DEF Act!IInv, Act!WindowPassed

LEMMA ActivitySaves ==
  ASSUME Act!IInv, NEW a \in saving, Act!Save(a)
  PROVE  Act!IInv'
<1>1. Act!Accepted' \subseteq Act!Accepted /\ UNCHANGED <<now, dedupe, call, doubled>>
  BY DEF Act!Save, Act!Accepted
<1>2. Act!TypeOK'
  BY DEF Act!IInv, Act!TypeOK, Act!Save
<1>. QED
  BY <1>1, <1>2 DEF Act!IInv, Act!Remembered, Act!WindowPassed

LEMMA ActivityRestarts == ASSUME Act!IInv, Act!Restart PROVE Act!IInv'
BY DEF Act!IInv, Act!TypeOK, Act!Restart, Act!Idle

LEMMA ActivityNext == Act!IInv /\ Act!Next => Act!IInv'
BY ActivityTicks, ActivityCleans, ActivityReads, ActivityWrites, ActivitySaves, ActivityRestarts
   DEF Act!Next

LEMMA ActivityUnchanged == Act!IInv /\ UNCHANGED activitiesVars => Act!IInv'
BY DEF activitiesVars, Act!IInv, Act!TypeOK, Act!Accepted, Act!Remembered, Act!WindowPassed

LEMMA ActivitySafe == Act!IInv => Act!LoggedOncePerWindowAlone
BY DEF Act!IInv, Act!LoggedOncePerWindowAlone, Act!Accepted

(***************************************************************************)
(* The request log.                                                        *)
(***************************************************************************)

LEMMA RequestConstants ==
  Cap \in Nat \ {0} /\ MaxBody \in Nat /\ Cap < MaxBody /\ LastDay \in Nat /\ Retention \in Nat
BY PartsAssumption DEF Log!RequestLogConstants

LEMMA RequestMin ==
  ASSUME NEW a \in Int, NEW b \in Int
  PROVE  Log!Min({a, b}) = IF a <= b THEN a ELSE b
<1>. DEFINE m == IF a <= b THEN a ELSE b
<1>1. m \in {a, b} /\ \A y \in {a, b} : m <= y
  OBVIOUS
<1>2. \A x \in {a, b} : (\A y \in {a, b} : x <= y) => x = m
  OBVIOUS
<1>. QED  BY <1>1, <1>2 DEF Log!Min

(* The fields of a request.                                                *)
LEMMA RequestShape ==
  ASSUME NEW q \in Log!Request
  PROVE  /\ q.step \in {"new", "handler", "save", "done"} /\ q.path \in Log!Paths
         /\ q.sent \in 0 .. MaxBody /\ q.read \in 0 .. Cap + 1 /\ q.written \in 0 .. MaxBody
         /\ q.body \in 0 .. Cap /\ q.limitHit \in BOOLEAN
BY DEF Log!Request

(* A request that has not been logged yet moves on.                        *)
LEMMA OneRequestMoves ==
  ASSUME Log!IInv, NEW r \in Exchanges, NEW q \in Log!Request,
         exchange' = [exchange EXCEPT ![r] = q], Log!Copied(q),
         q.step = "save" => q.path # "/healthz",
         exchange[r].step # "done", UNCHANGED <<today, logs>>
  PROVE  Log!IInv'
<1>1. /\ exchange' \in [Exchanges -> Log!Request] /\ exchange'[r] = q
      /\ \A s \in Exchanges \ {r} : exchange'[s] = exchange[s]
  BY DEF Log!IInv, Log!TypeOK
<1>2. \A s \in Exchanges : Log!Copied(exchange[s])'
  <2>. SUFFICES ASSUME NEW s \in Exchanges, NEW e, e = exchange'[s] PROVE Log!Copied(e)
    BY DEF Log!Copied, Log!Skipped, Log!Min
  <2>. QED  BY <1>1 DEF Log!IInv
<1>3. \A l \in logs : l.request \in Exchanges \ {r}
  BY DEF Log!IInv, Log!TypeOK, Log!Row
<1>4. Log!LogsAreWholeOrMarked'
  BY <1>1, <1>3 DEF Log!IInv, Log!LogsAreWholeOrMarked, Log!NoPayload
<1>5. Log!TypeOK'
  BY <1>1 DEF Log!IInv, Log!TypeOK, Log!Row, Log!Payloads
<1>. QED
  BY <1>1, <1>2, <1>3, <1>4, <1>5 DEF Log!IInv

LEMMA RequestInit == Log!Init => Log!IInv
<1>. SUFFICES ASSUME Log!Init PROVE Log!IInv
  OBVIOUS
<1>1. Log!NoRequest \in Log!Request
  BY RequestConstants DEF Log!NoRequest, Log!Request, Log!Paths
<1>2. Log!Copied(Log!NoRequest)
  BY RequestMin, RequestConstants DEF Log!Copied, Log!Skipped, Log!NoRequest
<1>3. \A r \in Exchanges : exchange[r] = Log!NoRequest
  BY DEF Log!Init
<1>4. Log!TypeOK
  BY <1>1, RequestConstants DEF Log!Init, Log!TypeOK
<1>. QED
  BY <1>2, <1>3, <1>4 DEF Log!Init, Log!IInv, Log!LogsAreWholeOrMarked, Log!NoRequest

LEMMA RequestBegins ==
  ASSUME Log!IInv, NEW r \in Exchanges, NEW path \in Log!Paths, NEW n \in 0 .. MaxBody,
         Log!Begin(r, path, n)
  PROVE  Log!IInv'
<1>. DEFINE q == [step |-> "handler", path |-> path, sent |-> n, read |-> Log!Min({n, Cap + 1}),
                  written |-> 0, body |-> 0, limitHit |-> FALSE]
<1>1. exchange' = [exchange EXCEPT ![r] = q] /\ exchange[r].step # "done"
      /\ UNCHANGED <<today, logs>>
  BY DEF Log!Begin
<1>2. Log!Min({n, Cap + 1}) \in 0 .. Cap + 1
  BY RequestMin, RequestConstants
<1>3. q \in Log!Request
  BY <1>2, RequestConstants DEF Log!Request
<1>4. Log!Min({0, Cap}) = 0 /\ ~ 0 > Cap
  BY RequestMin, RequestConstants
<1>5. Log!Copied(q) /\ q.step = "handler"
  BY <1>4 DEF Log!Copied
<1>. HIDE DEF q
<1>. QED  BY <1>1, <1>3, <1>5, OneRequestMoves

LEMMA RequestWrites ==
  ASSUME Log!IInv, NEW r \in Exchanges, NEW n \in 0 .. MaxBody, Log!Write(r, n)
  PROVE  Log!IInv'
<1>. DEFINE old  == exchange[r]
            body == IF Log!Skipped(old.path) THEN old.body
                    ELSE old.body + Log!Min({n, Cap - old.body})
            hit  == old.limitHit \/ (~ Log!Skipped(old.path) /\ n > Cap - old.body)
            q    == [step |-> old.step, path |-> old.path, sent |-> old.sent, read |-> old.read,
                     written |-> old.written + n, body |-> body, limitHit |-> hit]
<1>1. exchange' = [exchange EXCEPT ![r] = q] /\ old.step = "handler"
      /\ old.written + n <= MaxBody /\ UNCHANGED <<today, logs>>
  BY DEF Log!Write, Log!Copy
<1>2. old \in Log!Request /\ Log!Copied(old)
  BY DEF Log!IInv, Log!TypeOK
<1>3. /\ old.path \in Log!Paths /\ old.sent \in 0 .. MaxBody /\ old.read \in 0 .. Cap + 1
      /\ old.written \in 0 .. MaxBody /\ old.body \in 0 .. Cap /\ old.limitHit \in BOOLEAN
  BY <1>2, RequestShape
<1>4. /\ Log!Min({n, Cap - old.body}) = IF n <= Cap - old.body THEN n ELSE Cap - old.body
      /\ Log!Min({old.written, Cap}) = IF old.written <= Cap THEN old.written ELSE Cap
      /\ Log!Min({old.written + n, Cap}) = IF old.written + n <= Cap THEN old.written + n ELSE Cap
  BY <1>3, RequestMin, RequestConstants
<1>5. /\ old.read = Log!Min({old.sent, Cap + 1})
      /\ IF Log!Skipped(old.path) THEN old.body = 0 /\ ~ old.limitHit
         ELSE old.body = Log!Min({old.written, Cap}) /\ (old.limitHit <=> old.written > Cap)
  BY <1>2 DEF Log!Copied
<1>. HIDE DEF old
<1>6. body \in 0 .. Cap /\ hit \in BOOLEAN /\ old.written + n \in 0 .. MaxBody
  BY <1>1, <1>3, <1>4, RequestConstants
<1>7. IF Log!Skipped(old.path) THEN body = 0 /\ ~ hit
      ELSE body = Log!Min({old.written + n, Cap}) /\ (hit <=> old.written + n > Cap)
  BY <1>1, <1>3, <1>4, <1>5, RequestConstants
<1>. HIDE DEF body, hit
<1>8. q \in Log!Request
  BY <1>1, <1>3, <1>6 DEF Log!Request
<1>9. Log!Copied(q) /\ q.step = "handler"
  BY <1>1, <1>5, <1>7 DEF Log!Copied
<1>. HIDE DEF q
<1>10. exchange[r].step # "done"
  BY <1>1 DEF old
<1>. QED  BY <1>1, <1>8, <1>9, <1>10, OneRequestMoves

LEMMA RequestFinishes ==
  ASSUME Log!IInv, NEW r \in Exchanges, Log!Finish(r)
  PROVE  Log!IInv'
<1>. DEFINE old == exchange[r]
            s   == IF old.path = "/healthz" THEN "done" ELSE "save"
            q   == [old EXCEPT !.step = s]
<1>1. exchange' = [exchange EXCEPT ![r] = q] /\ exchange[r].step # "done"
      /\ UNCHANGED <<today, logs>>
  BY DEF Log!Finish
<1>2. old \in Log!Request /\ Log!Copied(old)
  BY DEF Log!IInv, Log!TypeOK
<1>. HIDE DEF old
<1>3. q \in Log!Request /\ q.path = old.path /\ q.step = s
  BY <1>2 DEF Log!Request
<1>4. Log!Copied(q)
  BY <1>2, <1>3 DEF Log!Copied, Log!Request
<1>. HIDE DEF q
<1>. QED  BY <1>1, <1>3, <1>4, OneRequestMoves

(* What is logged of a body says what the row must say of it.              *)
LEMMA PayloadsAreTrue ==
  ASSUME NEW path, NEW n \in Nat, NEW c \in Nat, NEW cut \in BOOLEAN,
         c = IF n <= Cap THEN n ELSE Cap, cut <=> n > Cap
  PROVE  Log!LogPayload(path, c, cut) =
           IF n = 0 THEN Log!NoPayload ELSE IF path = "auth" THEN <<"masked", 0>>
           ELSE IF n > Cap THEN <<"truncated", 0>> ELSE <<"whole", n>>
BY RequestConstants DEF Log!LogPayload

LEMMA RequestSaves ==
  ASSUME Log!IInv, NEW r \in Exchanges, Log!Save(r)
  PROVE  Log!IInv'
<1>. DEFINE old == exchange[r]
            q   == [old EXCEPT !.step = "done"]
            asked    == Log!LogPayload(old.path, Log!Min({old.read, Cap}), old.read > Cap)
            answered == IF old.path = "export" THEN Log!NoPayload
                        ELSE Log!LogPayload(old.path, old.body, old.limitHit)
            row == [request |-> r, day |-> today, asked |-> asked, answered |-> answered]
<1>1. /\ exchange' = [exchange EXCEPT ![r] = q] /\ old.step = "save" /\ today' = today
      /\ logs' = logs \cup {row} \/ logs' = logs
  BY DEF Log!Save
<1>2. old \in Log!Request /\ Log!Copied(old) /\ old.path # "/healthz"
  BY <1>1 DEF Log!IInv, Log!TypeOK
<1>3. /\ old.path \in Log!Paths /\ old.sent \in 0 .. MaxBody /\ old.read \in 0 .. Cap + 1
      /\ old.written \in 0 .. MaxBody /\ old.body \in 0 .. Cap /\ old.limitHit \in BOOLEAN
  BY <1>2, RequestShape
<1>4. /\ exchange' \in [Exchanges -> Log!Request] /\ exchange'[r] = q
      /\ \A s \in Exchanges \ {r} : exchange'[s] = exchange[s]
  BY <1>1, <1>2 DEF Log!IInv, Log!TypeOK, Log!Request
<1>5. /\ q.path = old.path /\ q.sent = old.sent /\ q.read = old.read /\ q.written = old.written
      /\ q.body = old.body /\ q.limitHit = old.limitHit /\ q.step = "done"
  BY <1>2 DEF Log!Request
<1>6. /\ old.read = IF old.sent <= Cap + 1 THEN old.sent ELSE Cap + 1
      /\ Log!Min({old.read, Cap}) = IF old.read <= Cap THEN old.read ELSE Cap
      /\ Log!Min({old.written, Cap}) = IF old.written <= Cap THEN old.written ELSE Cap
  BY <1>2, <1>3, RequestMin, RequestConstants DEF Log!Copied
<1>7. ~ Log!Skipped(old.path) =>
        /\ old.body = IF old.written <= Cap THEN old.written ELSE Cap
        /\ old.limitHit <=> old.written > Cap
  BY <1>2, <1>6 DEF Log!Copied
<1>. HIDE DEF old
<1>8. asked = IF old.sent = 0 THEN Log!NoPayload ELSE IF old.path = "auth" THEN <<"masked", 0>>
              ELSE IF old.sent > Cap THEN <<"truncated", 0>> ELSE <<"whole", old.sent>>
  <2>1. Log!Min({old.read, Cap}) = IF old.sent <= Cap THEN old.sent ELSE Cap
    BY <1>3, <1>6, RequestConstants
  <2>2. old.read > Cap <=> old.sent > Cap
    BY <1>3, <1>6, RequestConstants
  <2>. QED  BY <1>3, <2>1, <2>2, RequestConstants DEF Log!LogPayload
<1>9. answered = IF old.path = "export" THEN Log!NoPayload
                 ELSE IF old.written = 0 THEN Log!NoPayload
                 ELSE IF old.path = "auth" THEN <<"masked", 0>>
                 ELSE IF old.written > Cap THEN <<"truncated", 0>> ELSE <<"whole", old.written>>
  <2>1. CASE old.path = "export"
    BY <2>1
  <2>2. CASE old.path # "export"
    <3>1. ~ Log!Skipped(old.path)
      BY <1>2, <2>2 DEF Log!Skipped
    <3>. QED  BY <1>3, <1>7, <2>2, <3>1, PayloadsAreTrue, RequestConstants
  <2>. QED  BY <2>1, <2>2
<1>10. asked \in Log!Payloads /\ answered \in Log!Payloads
  <2>1. Log!Min({old.read, Cap}) \in 0 .. Cap
    BY <1>3, <1>6, RequestConstants
  <2>2. asked \in Log!Payloads
    BY <2>1, RequestConstants DEF Log!LogPayload, Log!Payloads, Log!NoPayload
  <2>3. answered \in Log!Payloads
    BY <1>3, RequestConstants DEF Log!LogPayload, Log!Payloads, Log!NoPayload
  <2>. QED  BY <2>2, <2>3
<1>. HIDE DEF asked, answered, q
<1>11. row \in Log!Row /\ row.request = r /\ row.asked = asked /\ row.answered = answered
  BY <1>10 DEF Log!IInv, Log!TypeOK, Log!Row
<1>. HIDE DEF row
<1>12. logs' \subseteq logs \cup {row} /\ Log!TypeOK'
  BY <1>1, <1>4, <1>11 DEF Log!IInv, Log!TypeOK
<1>13. \A l \in logs : l.request \in Exchanges \ {r}
  BY <1>1 DEF Log!IInv, Log!TypeOK, Log!Row, old
<1>14. Log!LogsAreWholeOrMarked'
  <2>1. ASSUME NEW l \in logs
        PROVE  exchange'[l.request] = exchange[l.request]
    BY <1>4, <1>13
  <2>. QED
    BY <1>4, <1>5, <1>8, <1>9, <1>11, <1>12, <2>1
       DEF Log!IInv, Log!LogsAreWholeOrMarked, Log!NoPayload
<1>15. \A s \in Exchanges : Log!Copied(exchange[s])'
  <2>. SUFFICES ASSUME NEW s \in Exchanges, NEW e, e = exchange'[s] PROVE Log!Copied(e)
    BY DEF Log!Copied, Log!Skipped, Log!Min
  <2>1. CASE s = r
    BY <1>2, <1>4, <1>5, <2>1 DEF Log!Copied
  <2>2. CASE s # r
    BY <1>4, <2>2 DEF Log!IInv
  <2>. QED  BY <2>1, <2>2
<1>. QED
  BY <1>4, <1>5, <1>11, <1>12, <1>13, <1>14, <1>15 DEF Log!IInv

LEMMA RequestsWait ==
  ASSUME Log!IInv, Log!NextDay \/ Log!Prune
  PROVE  Log!IInv'
<1>1. exchange' = exchange /\ logs' \subseteq logs
  BY DEF Log!NextDay, Log!Prune
<1>2. today' \in 0 .. LastDay
  BY RequestConstants DEF Log!NextDay, Log!Prune, Log!IInv, Log!TypeOK
<1>3. \A s \in Exchanges : Log!Copied(exchange[s])'
  BY <1>1 DEF Log!IInv, Log!Copied, Log!Skipped, Log!Min
<1>4. Log!TypeOK'
  BY <1>1, <1>2 DEF Log!IInv, Log!TypeOK, Log!Row
<1>5. Log!LogsAreWholeOrMarked'
  BY <1>1 DEF Log!IInv, Log!LogsAreWholeOrMarked, Log!NoPayload
<1>. QED  BY <1>1, <1>3, <1>4, <1>5 DEF Log!IInv

LEMMA RequestNext == Log!IInv /\ Log!Next => Log!IInv'
BY RequestBegins, RequestWrites, RequestFinishes, RequestSaves, RequestsWait DEF Log!Next

LEMMA RequestUnchanged == Log!IInv /\ UNCHANGED requestsVars => Log!IInv'
<1>. SUFFICES ASSUME Log!IInv, UNCHANGED requestsVars PROVE Log!IInv'
  OBVIOUS
<1>1. today' = today /\ exchange' = exchange /\ logs' = logs
  BY DEF requestsVars
<1>2. \A s \in Exchanges : Log!Copied(exchange[s])'
  BY <1>1 DEF Log!IInv, Log!Copied, Log!Skipped, Log!Min
<1>. QED
  BY <1>1, <1>2 DEF Log!IInv, Log!TypeOK, Log!LogsAreWholeOrMarked, Log!NoPayload

(***************************************************************************)
(* The rate limiter.                                                       *)
(***************************************************************************)

LEMMA LimiterConstants == Burst \in Nat \ {0} /\ None \notin Clients /\ None \notin Limiters
BY PartsAssumption DEF Lim!RateLimitConstants

LEMMA LimiterMin ==
  ASSUME NEW a \in Int, NEW b \in Int
  PROVE  /\ Lim!Min({a, b}) = IF a <= b THEN a ELSE b
         /\ Lim!Max({a, b}) = IF a >= b THEN a ELSE b
<1>. DEFINE m == IF a <= b THEN a ELSE b
            n == IF a >= b THEN a ELSE b
<1>1. m \in {a, b} /\ \A y \in {a, b} : m <= y
  OBVIOUS
<1>2. \A x \in {a, b} : (\A y \in {a, b} : x <= y) => x = m
  OBVIOUS
<1>3. n \in {a, b} /\ \A y \in {a, b} : n >= y
  OBVIOUS
<1>4. \A x \in {a, b} : (\A y \in {a, b} : x >= y) => x = n
  OBVIOUS
<1>5. Lim!Min({a, b}) = m
  BY <1>1, <1>2 DEF Lim!Min
<1>6. Lim!Max({a, b}) = n
  BY <1>3, <1>4 DEF Lim!Max
<1>. QED  BY <1>5, <1>6

(* The next state of one request.                                          *)
LEMMA LimiterMoves ==
  ASSUME Lim!IInv, NEW r \in Twins, NEW q \in Lim!Request, Lim!Shaped(q),
         request' = [request EXCEPT ![r] = q]
  PROVE  /\ request' \in [Twins -> Lim!Request]
         /\ request'[r] = q /\ \A s \in Twins \ {r} : request'[s] = request[s]
         /\ \A s \in Twins : Lim!Shaped(request[s])'
<1>1. /\ request' \in [Twins -> Lim!Request]
      /\ request'[r] = q /\ \A s \in Twins \ {r} : request'[s] = request[s]
  BY DEF Lim!IInv, Lim!TypeOK
<1>2. \A s \in Twins : Lim!Shaped(request[s])'
  <2>. SUFFICES ASSUME NEW s \in Twins, NEW e, e = request'[s] PROVE Lim!Shaped(e)
    BY DEF Lim!Shaped
  <2>. QED  BY <1>1 DEF Lim!IInv
<1>. QED  BY <1>1, <1>2

LEMMA LimiterTypes ==
  ASSUME Lim!TypeOK
  PROVE  /\ \A l \in Limiters : tokens[l] \in 0 .. Burst
         /\ \A c \in Clients : allowance[c] \in -1 .. Burst
         /\ \A c \in Clients : limiters[c] # None => limiters[c] \in Limiters
BY DEF Lim!TypeOK

LEMMA LimiterInit == Lim!Init => Lim!IInv
<1>. SUFFICES ASSUME Lim!Init PROVE Lim!IInv
  OBVIOUS
<1>1. Burst \in 0 .. Burst /\ Burst \in -1 .. Burst /\ Burst >= 0
  BY LimiterConstants
<1>2. Lim!Idle \in Lim!Request /\ Lim!Shaped(Lim!Idle) /\ Lim!Idle.step = "idle"
  BY DEF Lim!Idle, Lim!Request, Lim!Shaped
<1>3. \A r \in Twins : request[r] = Lim!Idle
  BY DEF Lim!Init
<1>4. Lim!TypeOK
  BY <1>1, <1>2 DEF Lim!Init, Lim!TypeOK
<1>5. Lim!OneBucketEach
  BY <1>1, <1>2, <1>3 DEF Lim!Init, Lim!OneBucketEach, Lim!At
<1>. QED  BY <1>2, <1>3, <1>4, <1>5 DEF Lim!IInv

LEMMA LimiterArrives ==
  ASSUME Lim!IInv, NEW r \in Twins, NEW c \in Clients, Lim!Arrive(r, c)
  PROVE  Lim!IInv'
<1>. DEFINE q == [step |-> "load", client |-> c, limiter |-> None]
<1>1. q \in Lim!Request /\ Lim!Shaped(q) /\ q.step = "load"
  BY DEF Lim!Request, Lim!Shaped
<1>2. /\ request' = [request EXCEPT ![r] = q] /\ request[r].step = "idle"
      /\ UNCHANGED <<limiters, tokens, sweeping, allowance, disturbed>>
  BY DEF Lim!Arrive
<1>. HIDE DEF q
<1>3. /\ request' \in [Twins -> Lim!Request]
      /\ request'[r] = q /\ \A s \in Twins \ {r} : request'[s] = request[s]
      /\ \A s \in Twins : Lim!Shaped(request[s])'
  BY <1>1, <1>2, LimiterMoves
<1>4. \A d \in Clients : Lim!Storing(d)' <=> Lim!Storing(d)
  BY <1>1, <1>2, <1>3 DEF Lim!Storing, Lim!At
<1>5. Lim!OneBucketEach => Lim!OneBucketEach'
  BY <1>1, <1>2, <1>3, <1>4 DEF Lim!OneBucketEach, Lim!At, Lim!Owed
<1>. QED  BY <1>2, <1>3, <1>5 DEF Lim!IInv, Lim!TypeOK

LEMMA LimiterLoads ==
  ASSUME Lim!IInv, NEW r \in Twins, Lim!Load(r)
  PROVE  Lim!IInv'
<1>. DEFINE c     == request[r].client
            found == limiters[c]
            new   == CHOOSE l \in Lim!Unused : TRUE
            hit   == [step |-> "allow", client |-> c, limiter |-> found]
            miss  == [step |-> "store", client |-> c, limiter |-> new]
<1>1. /\ request[r].step = "load" /\ UNCHANGED <<limiters, sweeping, allowance>>
      /\ \/ /\ found # None /\ request' = [request EXCEPT ![r] = hit]
            /\ UNCHANGED <<tokens, disturbed>>
         \/ /\ found = None /\ Lim!Unused # {} /\ request' = [request EXCEPT ![r] = miss]
            /\ tokens' = [tokens EXCEPT ![new] = Burst]
            /\ disturbed' = (disturbed \/ \E q \in Twins :
                               request[q].step = "store" /\ request[q].client = c)
  BY DEF Lim!Load
<1>2. c \in Clients
  BY <1>1 DEF Lim!IInv, Lim!Shaped
<1>3. CASE found # None
  <2>1. request' = [request EXCEPT ![r] = hit] /\ UNCHANGED <<tokens, disturbed>>
    BY <1>1, <1>3
  <2>2. found \in Limiters
    BY <1>2, <1>3, LimiterTypes DEF Lim!IInv
  <2>3. hit \in Lim!Request /\ Lim!Shaped(hit) /\ hit.step = "allow" /\ hit.client = c
        /\ hit.limiter = found
    BY <1>2, <2>2 DEF Lim!Request, Lim!Shaped
  <2>. HIDE DEF hit
  <2>4. /\ request' \in [Twins -> Lim!Request]
        /\ request'[r] = hit /\ \A s \in Twins \ {r} : request'[s] = request[s]
        /\ \A s \in Twins : Lim!Shaped(request[s])'
    BY <2>1, <2>3, LimiterMoves
  <2>5. \A d \in Clients : Lim!Storing(d)' <=> Lim!Storing(d)
    BY <1>1, <2>3, <2>4 DEF Lim!Storing, Lim!At
  <2>6. Lim!OneBucketEach => Lim!OneBucketEach'
    BY <1>1, <2>1, <2>3, <2>4, <2>5 DEF Lim!OneBucketEach, Lim!At, Lim!Owed
  <2>. QED  BY <1>1, <2>1, <2>4, <2>6 DEF Lim!IInv, Lim!TypeOK
<1>4. CASE found = None
  <2>1. /\ Lim!Unused # {} /\ request' = [request EXCEPT ![r] = miss]
        /\ tokens' = [tokens EXCEPT ![new] = Burst]
        /\ disturbed' = (disturbed \/ \E q \in Twins :
                           request[q].step = "store" /\ request[q].client = c)
    BY <1>1, <1>4
  <2>2. new \in Lim!Unused
    BY <2>1
  <2>. HIDE DEF new
  <2>3. /\ new \in Limiters /\ \A s \in Twins : request[s].limiter # new
        /\ \A d \in Clients : limiters[d] # new
    BY <2>2 DEF Lim!Unused, Lim!Held
  <2>4. miss \in Lim!Request /\ Lim!Shaped(miss) /\ miss.step = "store" /\ miss.client = c
        /\ miss.limiter = new
    BY <1>2, <2>3 DEF Lim!Request, Lim!Shaped
  <2>. HIDE DEF miss
  <2>5. /\ request' \in [Twins -> Lim!Request]
        /\ request'[r] = miss /\ \A s \in Twins \ {r} : request'[s] = request[s]
        /\ \A s \in Twins : Lim!Shaped(request[s])'
    BY <2>1, <2>4, LimiterMoves
  <2>6. /\ tokens' \in [Limiters -> 0 .. Burst] /\ tokens'[new] = Burst
        /\ \A l \in Limiters \ {new} : tokens'[l] = tokens[l]
    BY <2>1, <2>3, LimiterConstants DEF Lim!IInv, Lim!TypeOK
  <2>7. disturbed' \in BOOLEAN
    BY <2>1 DEF Lim!IInv, Lim!TypeOK
  <2>8. Lim!TypeOK'
    BY <1>1, <2>5, <2>6, <2>7 DEF Lim!IInv, Lim!TypeOK
  <2>9. ASSUME ~ disturbed' PROVE Lim!OneBucketEach'
    <3>1. Lim!OneBucketEach /\ \A q \in Twins : ~ (request[q].step = "store" /\ request[q].client = c)
      BY <2>1, <2>9 DEF Lim!IInv
    <3>2. allowance[c] = Burst
      BY <1>2, <1>4, <3>1 DEF Lim!OneBucketEach, Lim!Storing, Lim!At
    <3>3. \A d \in Clients \ {c} : Lim!Storing(d) => Lim!Storing(d)'
      BY <1>1, <2>5 DEF Lim!Storing, Lim!At
    <3>4. \A d \in Clients : d = c => Lim!Storing(d)'
      BY <2>4, <2>5 DEF Lim!Storing, Lim!At
    <3>. HIDE DEF c
    <3>5. \A d \in Clients : /\ allowance'[d] >= 0
                             /\ limiters'[d] # None => tokens'[limiters'[d]] <= allowance'[d]
                             /\ limiters'[d] = None /\ ~ Lim!Storing(d)' => allowance'[d] = Burst
      <4>. TAKE d \in Clients
      <4>1. limiters[d] # None => limiters[d] \in Limiters \ {new}
        BY <2>3, LimiterTypes DEF Lim!IInv
      <4>. QED
        BY <1>1, <2>6, <3>1, <3>3, <3>4, <4>1 DEF Lim!OneBucketEach, Lim!Owed
    <3>6. \A s \in Twins \ {r} : request'[s].step \in {"store", "allow"} =>
            request[s].limiter \in Limiters \ {new}
      BY <2>3, <2>5 DEF Lim!IInv, Lim!Shaped
    <3>7. \A s \in Twins :
            /\ request'[s].step = "store" => limiters'[request'[s].client] = None
                 /\ tokens'[request'[s].limiter] <= allowance'[request'[s].client]
            /\ request'[s].step = "allow" => request'[s].limiter = limiters'[request'[s].client]
      <4>. TAKE s \in Twins
      <4>1. CASE s = r
        BY <1>1, <1>4, <2>4, <2>5, <2>6, <3>2, <4>1, LimiterConstants DEF c
      <4>2. CASE s # r
        BY <1>1, <2>5, <2>6, <3>1, <3>6, <4>2 DEF Lim!OneBucketEach, Lim!At, Lim!Owed
      <4>. QED  BY <4>1, <4>2
    <3>8. \A q, s \in Twins :
            request'[q].step = "store" /\ request'[s].step = "store"
            /\ request'[q].client = request'[s].client => q = s
      BY <2>4, <2>5, <3>1 DEF Lim!OneBucketEach, Lim!At
    <3>. QED  BY <3>5, <3>7, <3>8 DEF Lim!OneBucketEach, Lim!At, Lim!Owed
  <2>. QED  BY <2>5, <2>8, <2>9 DEF Lim!IInv
<1>. QED  BY <1>3, <1>4

LEMMA LimiterStores ==
  ASSUME Lim!IInv, NEW r \in Twins, Lim!Store(r)
  PROVE  Lim!IInv'
<1>. DEFINE c == request[r].client
            l == request[r].limiter
            q == [request[r] EXCEPT !.step = "allow"]
<1>1. /\ request[r].step = "store" /\ limiters' = [limiters EXCEPT ![c] = l]
      /\ request' = [request EXCEPT ![r] = q]
      /\ UNCHANGED <<tokens, sweeping, allowance, disturbed>>
  BY DEF Lim!Store
<1>2. request[r] \in Lim!Request /\ c \in Clients /\ l \in Limiters
  BY <1>1 DEF Lim!IInv, Lim!TypeOK, Lim!Shaped
<1>3. q \in Lim!Request /\ q.step = "allow" /\ q.client = c /\ q.limiter = l
  BY <1>2 DEF Lim!Request
<1>4. Lim!Shaped(q)
  BY <1>2, <1>3 DEF Lim!Shaped
<1>. HIDE DEF q
<1>5. /\ request' \in [Twins -> Lim!Request]
      /\ request'[r] = q /\ \A s \in Twins \ {r} : request'[s] = request[s]
      /\ \A s \in Twins : Lim!Shaped(request[s])'
  BY <1>1, <1>3, <1>4, LimiterMoves
<1>6. /\ limiters' \in [Clients -> Limiters \cup {None}] /\ limiters'[c] = l
      /\ \A d \in Clients \ {c} : limiters'[d] = limiters[d]
  BY <1>1, <1>2 DEF Lim!IInv, Lim!TypeOK
<1>7. Lim!TypeOK'
  BY <1>1, <1>5, <1>6 DEF Lim!IInv, Lim!TypeOK
<1>8. ASSUME Lim!OneBucketEach PROVE Lim!OneBucketEach'
  <2>1. limiters[c] = None /\ tokens[l] <= allowance[c]
    BY <1>1, <1>8 DEF Lim!OneBucketEach, Lim!At, Lim!Owed
  <2>2. \A s \in Twins \ {r} : request[s].step \in {"store", "allow"} => request[s].client # c
    <3>. SUFFICES ASSUME NEW s \in Twins \ {r}, request[s].step \in {"store", "allow"},
                         request[s].client = c
                  PROVE  FALSE
      OBVIOUS
    <3>1. CASE request[s].step = "store"
      BY <1>1, <1>8, <3>1 DEF Lim!OneBucketEach, Lim!At
    <3>2. CASE request[s].step = "allow"
      <4>1. request[s].limiter = None
        BY <1>8, <2>1, <3>2 DEF Lim!OneBucketEach, Lim!At
      <4>. QED  BY <3>2, <4>1, LimiterConstants DEF Lim!IInv, Lim!Shaped
    <3>. QED  BY <3>1, <3>2
  <2>3. \A d \in Clients \ {c} : Lim!Storing(d) => Lim!Storing(d)'
    BY <1>5 DEF Lim!Storing, Lim!At
  <2>4. \A s \in Twins : request'[s].step \in {"store", "allow"} => request'[s].client \in Clients
    BY <1>5 DEF Lim!Shaped
  <2>. HIDE DEF c, l
  <2>5. \A d \in Clients : /\ allowance'[d] >= 0
                           /\ limiters'[d] # None => tokens'[limiters'[d]] <= allowance'[d]
                           /\ limiters'[d] = None /\ ~ Lim!Storing(d)' => allowance'[d] = Burst
    <3>. TAKE d \in Clients
    <3>1. CASE d = c
      BY <1>1, <1>2, <1>6, <1>8, <2>1, <3>1, LimiterConstants DEF Lim!OneBucketEach
    <3>2. CASE d # c
      BY <1>1, <1>6, <1>8, <2>3, <3>2 DEF Lim!OneBucketEach, Lim!Owed
    <3>. QED  BY <3>1, <3>2
  <2>6. \A s \in Twins :
          /\ request'[s].step = "store" => limiters'[request'[s].client] = None
               /\ tokens'[request'[s].limiter] <= allowance'[request'[s].client]
          /\ request'[s].step = "allow" => request'[s].limiter = limiters'[request'[s].client]
    <3>. TAKE s \in Twins
    <3>1. CASE s = r
      BY <1>3, <1>5, <1>6, <3>1
    <3>2. CASE s # r
      BY <1>1, <1>5, <1>6, <1>8, <2>2, <2>4, <3>2 DEF Lim!OneBucketEach, Lim!At, Lim!Owed
    <3>. QED  BY <3>1, <3>2
  <2>7. \A p, s \in Twins :
          request'[p].step = "store" /\ request'[s].step = "store"
          /\ request'[p].client = request'[s].client => p = s
    BY <1>3, <1>5, <1>8 DEF Lim!OneBucketEach, Lim!At
  <2>. QED  BY <2>5, <2>6, <2>7 DEF Lim!OneBucketEach, Lim!At, Lim!Owed
<1>. QED  BY <1>1, <1>5, <1>7, <1>8 DEF Lim!IInv

LEMMA LimiterAllows ==
  ASSUME Lim!IInv, NEW r \in Twins, Lim!Allow(r)
  PROVE  Lim!IInv'
<1>. DEFINE c == request[r].client
            l == request[r].limiter
<1>1. /\ request[r].step = "allow" /\ request' = [request EXCEPT ![r] = Lim!Idle]
      /\ UNCHANGED <<limiters, sweeping, disturbed>>
      /\ IF tokens[l] > 0
         THEN /\ tokens' = [tokens EXCEPT ![l] = tokens[l] - 1]
              /\ allowance' = [allowance EXCEPT ![c] = Lim!Max({allowance[c] - 1, -1})]
         ELSE UNCHANGED <<tokens, allowance>>
  BY DEF Lim!Allow
<1>2. c \in Clients /\ l \in Limiters
  BY <1>1 DEF Lim!IInv, Lim!Shaped
<1>3. Lim!Idle \in Lim!Request /\ Lim!Shaped(Lim!Idle) /\ Lim!Idle.step = "idle"
  BY DEF Lim!Idle, Lim!Request, Lim!Shaped
<1>4. /\ request' \in [Twins -> Lim!Request]
      /\ request'[r] = Lim!Idle /\ \A s \in Twins \ {r} : request'[s] = request[s]
      /\ \A s \in Twins : Lim!Shaped(request[s])'
  BY <1>1, <1>3, LimiterMoves
<1>5. \A d \in Clients : Lim!Storing(d)' <=> Lim!Storing(d)
  BY <1>1, <1>3, <1>4 DEF Lim!Storing, Lim!At
<1>. HIDE DEF c, l
<1>6. tokens[l] \in 0 .. Burst /\ allowance[c] \in -1 .. Burst
  BY <1>2, LimiterTypes DEF Lim!IInv
<1>7. CASE tokens[l] > 0
  <2>1. Lim!Max({allowance[c] - 1, -1}) = IF allowance[c] - 1 >= -1 THEN allowance[c] - 1 ELSE -1
    <3>1. allowance[c] - 1 \in Int /\ -1 \in Int
      BY <1>6
    <3>. QED  BY <3>1, LimiterMin
  <2>2. Lim!Max({allowance[c] - 1, -1}) \in -1 .. Burst
    BY <1>6, <2>1, LimiterConstants
  <2>3. /\ tokens' \in [Limiters -> 0 .. Burst] /\ tokens'[l] = tokens[l] - 1
        /\ \A m \in Limiters \ {l} : tokens'[m] = tokens[m]
    <3>1. tokens[l] - 1 \in 0 .. Burst
      BY <1>6, <1>7, LimiterConstants
    <3>. QED  BY <1>1, <1>2, <1>7, <3>1 DEF Lim!IInv, Lim!TypeOK
  <2>4. /\ allowance' \in [Clients -> -1 .. Burst]
        /\ allowance'[c] = Lim!Max({allowance[c] - 1, -1})
        /\ \A d \in Clients \ {c} : allowance'[d] = allowance[d]
    BY <1>1, <1>2, <1>7, <2>2 DEF Lim!IInv, Lim!TypeOK
  <2>5. Lim!TypeOK'
    BY <1>1, <1>4, <2>3, <2>4 DEF Lim!IInv, Lim!TypeOK
  <2>6. ASSUME Lim!OneBucketEach PROVE Lim!OneBucketEach'
    <3>1. limiters[c] = l /\ tokens[l] <= allowance[c]
      BY <1>1, <1>2, <2>6, LimiterConstants DEF Lim!OneBucketEach, Lim!At, Lim!Owed, c, l
    <3>2. allowance'[c] = allowance[c] - 1 /\ allowance'[c] >= 0 /\ tokens'[l] <= allowance'[c]
      BY <1>6, <1>7, <2>1, <2>3, <2>4, <3>1
    <3>3. \A m \in Limiters : tokens'[m] <= tokens[m] /\ tokens[m] \in Int /\ tokens'[m] \in Int
      BY <1>6, <2>3 DEF Lim!IInv, Lim!TypeOK
    <3>4. \A d \in Clients :
            /\ allowance'[d] >= 0
            /\ limiters'[d] # None => tokens'[limiters'[d]] <= allowance'[d]
            /\ limiters'[d] = None /\ ~ Lim!Storing(d)' => allowance'[d] = Burst
      <4>. TAKE d \in Clients
      <4>1. CASE d = c
        BY <1>1, <1>2, <3>1, <3>2, <4>1, LimiterConstants
      <4>2. CASE d # c
        <5>1. limiters[d] # None => tokens'[limiters[d]] <= tokens[limiters[d]]
          BY <3>3, LimiterTypes DEF Lim!IInv
        <5>. QED
          BY <1>1, <1>5, <2>4, <2>6, <3>3, <4>2, <5>1, LimiterTypes
             DEF Lim!IInv, Lim!OneBucketEach, Lim!Owed
      <4>. QED  BY <4>1, <4>2
    <3>5. ASSUME NEW s \in Twins, request'[s].step = "store"
          PROVE  /\ limiters'[request'[s].client] = None
                 /\ tokens'[request'[s].limiter] <= allowance'[request'[s].client]
      <4>1. /\ request'[s] = request[s] /\ request[s].step = "store"
            /\ request[s].client \in Clients /\ request[s].limiter \in Limiters
        BY <1>3, <1>4, <3>5 DEF Lim!IInv, Lim!Shaped
      <4>2. limiters[request[s].client] = None
            /\ tokens[request[s].limiter] <= allowance[request[s].client]
        BY <2>6, <4>1 DEF Lim!OneBucketEach, Lim!At, Lim!Owed
      <4>3. request[s].client # c
        BY <1>2, <3>1, <4>2, LimiterConstants
      <4>. QED
        BY <1>1, <2>4, <3>3, <4>1, <4>2, <4>3, LimiterTypes DEF Lim!IInv
    <3>6. ASSUME NEW s \in Twins, request'[s].step = "allow"
          PROVE  request'[s].limiter = limiters'[request'[s].client]
      BY <1>1, <1>3, <1>4, <2>6, <3>6 DEF Lim!OneBucketEach, Lim!At
    <3>7. \A p, s \in Twins :
            request'[p].step = "store" /\ request'[s].step = "store"
            /\ request'[p].client = request'[s].client => p = s
      BY <1>3, <1>4, <2>6 DEF Lim!OneBucketEach, Lim!At
    <3>. QED  BY <3>4, <3>5, <3>6, <3>7 DEF Lim!OneBucketEach, Lim!At, Lim!Owed
  <2>. QED  BY <1>1, <1>4, <2>5, <2>6 DEF Lim!IInv
<1>8. CASE ~ tokens[l] > 0
  <2>1. UNCHANGED <<tokens, allowance>>
    BY <1>1, <1>8
  <2>2. Lim!OneBucketEach => Lim!OneBucketEach'
    BY <1>1, <1>3, <1>4, <1>5, <2>1 DEF Lim!OneBucketEach, Lim!At, Lim!Owed
  <2>. QED  BY <1>1, <1>4, <2>1, <2>2 DEF Lim!IInv, Lim!TypeOK
<1>. QED  BY <1>7, <1>8

LEMMA LimiterTicks == ASSUME Lim!IInv, Lim!Tick PROVE Lim!IInv'
<1>1. /\ tokens' = [l \in Limiters |-> Lim!Min({tokens[l] + 1, Burst})]
      /\ allowance' = [c \in Clients |-> Lim!Min({allowance[c] + 1, Burst})]
      /\ UNCHANGED <<limiters, request, sweeping, disturbed>>
  BY DEF Lim!Tick
<1>2. \A l \in Limiters : tokens'[l] = IF tokens[l] + 1 <= Burst THEN tokens[l] + 1 ELSE Burst
  <2>. TAKE l \in Limiters
  <2>1. tokens[l] \in 0 .. Burst
    BY LimiterTypes DEF Lim!IInv
  <2>. QED  BY <1>1, <2>1, LimiterMin, LimiterConstants
<1>3. \A c \in Clients : allowance'[c] = IF allowance[c] + 1 <= Burst THEN allowance[c] + 1 ELSE Burst
  <2>. TAKE c \in Clients
  <2>1. allowance[c] \in -1 .. Burst
    BY LimiterTypes DEF Lim!IInv
  <2>. QED  BY <1>1, <2>1, LimiterMin, LimiterConstants
<1>4. Lim!TypeOK'
  <2>1. \A l \in Limiters : tokens'[l] \in 0 .. Burst
    BY <1>2, LimiterTypes, LimiterConstants DEF Lim!IInv
  <2>2. \A c \in Clients : allowance'[c] \in -1 .. Burst
    BY <1>3, LimiterTypes, LimiterConstants DEF Lim!IInv
  <2>3. tokens' \in [Limiters -> 0 .. Burst] /\ allowance' \in [Clients -> -1 .. Burst]
    BY <1>1, <2>1, <2>2
  <2>. QED  BY <1>1, <2>3 DEF Lim!IInv, Lim!TypeOK
<1>5. \A l \in Limiters, c \in Clients : Lim!Owed(l, c) => Lim!Owed(l, c)'
  <2>. SUFFICES ASSUME NEW l \in Limiters, NEW c \in Clients, tokens[l] <= allowance[c]
                PROVE  tokens'[l] <= allowance'[c]
    BY DEF Lim!Owed
  <2>1. tokens[l] \in 0 .. Burst /\ allowance[c] \in -1 .. Burst
    BY LimiterTypes DEF Lim!IInv
  <2>. QED  BY <1>2, <1>3, <2>1, LimiterConstants
<1>6. ASSUME Lim!OneBucketEach PROVE Lim!OneBucketEach'
  <2>1. \A c \in Clients : allowance[c] >= 0 => allowance'[c] >= 0
    BY <1>3, LimiterTypes, LimiterConstants DEF Lim!IInv
  <2>2. \A c \in Clients : allowance[c] = Burst => allowance'[c] = Burst
    BY <1>3, LimiterConstants
  <2>3. \A c \in Clients : Lim!Storing(c)' <=> Lim!Storing(c)
    BY <1>1 DEF Lim!Storing, Lim!At
  <2>4. \A c \in Clients : limiters[c] # None => tokens'[limiters[c]] <= allowance'[c]
    BY <1>5, <1>6, LimiterTypes DEF Lim!IInv, Lim!OneBucketEach, Lim!Owed
  <2>5. \A s \in Twins : request[s].step = "store" =>
          tokens'[request[s].limiter] <= allowance'[request[s].client]
    BY <1>5, <1>6 DEF Lim!IInv, Lim!Shaped, Lim!OneBucketEach, Lim!At, Lim!Owed
  <2>. QED
    BY <1>1, <1>6, <2>1, <2>2, <2>3, <2>4, <2>5 DEF Lim!OneBucketEach, Lim!At, Lim!Owed
<1>. QED  BY <1>1, <1>4, <1>6 DEF Lim!IInv, Lim!Shaped

LEMMA LimiterSweeps ==
  ASSUME Lim!IInv, NEW c \in Clients, Lim!SweepAllow(c)
  PROVE  Lim!IInv'
<1>. DEFINE l == limiters[c]
<1>1. /\ l # None /\ tokens[l] > 0 /\ tokens' = [tokens EXCEPT ![l] = tokens[l] - 1]
      /\ sweeping' = c /\ UNCHANGED <<limiters, request, allowance, disturbed>>
  BY DEF Lim!SweepAllow
<1>2. l \in Limiters /\ tokens[l] \in 0 .. Burst
  BY <1>1, LimiterTypes DEF Lim!IInv
<1>. HIDE DEF l
<1>3. tokens[l] - 1 \in 0 .. Burst
  BY <1>1, <1>2, LimiterConstants
<1>4. /\ tokens' \in [Limiters -> 0 .. Burst]
      /\ \A m \in Limiters : tokens[m] \in Int /\ tokens'[m] \in Int /\ tokens'[m] <= tokens[m]
  BY <1>1, <1>2, <1>3 DEF Lim!IInv, Lim!TypeOK
<1>5. Lim!TypeOK'
  BY <1>1, <1>4 DEF Lim!IInv, Lim!TypeOK
<1>6. \A m \in Limiters, d \in Clients : tokens[m] <= allowance[d] => tokens'[m] <= allowance[d]
  BY <1>4, LimiterTypes DEF Lim!IInv
<1>7. ASSUME Lim!OneBucketEach PROVE Lim!OneBucketEach'
  <2>1. \A d \in Clients : Lim!Storing(d)' <=> Lim!Storing(d)
    BY <1>1 DEF Lim!Storing, Lim!At
  <2>2. \A d \in Clients : limiters[d] # None => tokens'[limiters[d]] <= allowance[d]
    BY <1>6, <1>7, LimiterTypes DEF Lim!IInv, Lim!OneBucketEach, Lim!Owed
  <2>3. \A s \in Twins : request[s].step = "store" =>
          tokens'[request[s].limiter] <= allowance[request[s].client]
    BY <1>6, <1>7 DEF Lim!IInv, Lim!Shaped, Lim!OneBucketEach, Lim!At, Lim!Owed
  <2>. QED
    BY <1>1, <1>7, <2>1, <2>2, <2>3 DEF Lim!OneBucketEach, Lim!At, Lim!Owed
<1>. QED  BY <1>1, <1>5, <1>7 DEF Lim!IInv, Lim!Shaped

LEMMA LimiterDeletes == ASSUME Lim!IInv, Lim!SweepDelete PROVE Lim!IInv'
<1>. DEFINE c == sweeping
<1>1. /\ c \in Clients /\ limiters' = [limiters EXCEPT ![c] = None] /\ sweeping' = None
      /\ disturbed' = (disturbed \/ Lim!Held(limiters[c]) \/ allowance[c] < Burst)
      /\ UNCHANGED <<tokens, request, allowance>>
  BY DEF Lim!IInv, Lim!TypeOK, Lim!SweepDelete
<1>. HIDE DEF c
<1>2. /\ limiters' \in [Clients -> Limiters \cup {None}] /\ limiters'[c] = None
      /\ \A d \in Clients \ {c} : limiters'[d] = limiters[d]
  BY <1>1 DEF Lim!IInv, Lim!TypeOK
<1>3. disturbed' \in BOOLEAN
  BY <1>1 DEF Lim!IInv, Lim!TypeOK
<1>4. Lim!TypeOK'
  BY <1>1, <1>2, <1>3 DEF Lim!IInv, Lim!TypeOK
<1>5. ASSUME ~ disturbed' PROVE Lim!OneBucketEach'
  <2>1. Lim!OneBucketEach /\ ~ Lim!Held(limiters[c]) /\ ~ allowance[c] < Burst
    BY <1>1, <1>5 DEF Lim!IInv
  <2>2. allowance[c] = Burst
    BY <1>1, <2>1, LimiterTypes, LimiterConstants DEF Lim!IInv
  <2>3. \A d \in Clients : Lim!Storing(d)' <=> Lim!Storing(d)
    BY <1>1 DEF Lim!Storing, Lim!At
  <2>4. \A s \in Twins : request[s].step = "allow" => request[s].client # c
    BY <2>1 DEF Lim!OneBucketEach, Lim!At, Lim!Held
  <2>5. \A s \in Twins : request[s].step \in {"store", "allow"} => request[s].client \in Clients
    BY DEF Lim!IInv, Lim!Shaped
  <2>. QED
    BY <1>1, <1>2, <2>1, <2>2, <2>3, <2>4, <2>5 DEF Lim!OneBucketEach, Lim!At, Lim!Owed
<1>. QED  BY <1>1, <1>4, <1>5 DEF Lim!IInv, Lim!Shaped

LEMMA LimiterNext == Lim!IInv /\ Lim!Next => Lim!IInv'
BY LimiterArrives, LimiterLoads, LimiterStores, LimiterAllows, LimiterTicks, LimiterSweeps,
   LimiterDeletes DEF Lim!Next

LEMMA LimiterUnchanged == Lim!IInv /\ UNCHANGED limiterVars => Lim!IInv'
BY DEF limiterVars, Lim!IInv, Lim!TypeOK, Lim!Shaped, Lim!OneBucketEach, Lim!At, Lim!Owed,
       Lim!Storing

LEMMA LimiterSafe == Lim!IInv => Lim!WithinRateAlone
BY DEF Lim!IInv, Lim!OneBucketEach, Lim!WithinRateAlone

(***************************************************************************)
(* The budget alerts.                                                      *)
(***************************************************************************)

LEMMA SumOfOne ==
  ASSUME NEW f, NEW c, f[c] \in Int
  PROVE  SumFunctionOnSet(f, {c}) = f[c]
<1>1. SumFunctionOnSet(f, {} \cup {c}) = f[c] + SumFunctionOnSet(f, {})
  BY SumAdd, FS_EmptySet
<1>. QED  BY <1>1, SumEmpty

LEMMA SpentIsSum ==
  ASSUME NEW c \in Budgeted
  PROVE  Alr!SpentUnder(c) = SumFunctionOnSet(spent, Alr!Below[c])
BY SumUnfolded DEF Alr!SpentUnder, Alr!MapThenSumSet, Alr!MapThenFoldSet, Adds, Pick

LEMMA SpentOfLeaf ==
  ASSUME NEW c \in Budgeted, Alr!Below[c] = {c}
  PROVE  /\ spent[c] \in Int => Alr!SpentUnder(c) = spent[c]
         /\ spent'[c] \in Int => Alr!SpentUnder(c)' = spent'[c]
<1>1. Alr!SpentUnder(c)' = SumFunctionOnSet(spent', Alr!Below[c])
  BY SumUnfolded DEF Alr!SpentUnder, Alr!MapThenSumSet, Alr!MapThenFoldSet, Adds, Pick
<1>2. Alr!SpentUnder(c) = SumFunctionOnSet(spent, Alr!Below[c])
  BY SpentIsSum
<1>. QED  BY <1>1, <1>2, SumOfOne

LEMMA AlertConstants == /\ Limits \subseteq Nat \ {0} /\ Amounts \subseteq Nat \ {0} /\ MaxSpent \in Nat
                        /\ NoParent \notin Budgeted
BY PartsAssumption DEF Alr!AlertsConstants

LEMMA AlertTypes ==
  ASSUME Alr!TypeOK
  PROVE  /\ \A c \in Budgeted : spent[c] \in 0 .. MaxSpent /\ alertLimit[c] \in Nat
         /\ \A k \in Twins : check[k] \in Alr!Check
<1>1. Limits \cup {0} \subseteq Nat
  BY AlertConstants
<1>2. \A c \in Budgeted : alertLimit[c] \in Limits \cup {0}
  BY DEF Alr!TypeOK
<1>. QED  BY <1>1, <1>2 DEF Alr!TypeOK

LEMMA CheckShape ==
  ASSUME NEW q \in Alr!Check
  PROVE  /\ q.step \in Alr!Steps /\ q.category \in Budgeted \cup {NoParent}
         /\ q.level \in Alr!Levels \cup {"none"} /\ q.email \in BOOLEAN
BY DEF Alr!Check

LEMMA AtIsCheck ==
  ASSUME NEW s \in Alr!Steps, NEW c \in Budgeted, NEW l \in Alr!Levels \cup {"none"}, NEW e \in BOOLEAN,
         s \in {"gate", "mark", "mail", "undo"} => l \in Alr!Levels
  PROVE  /\ Alr!At(s, c, l, e) \in Alr!Check /\ Alr!Shaped(Alr!At(s, c, l, e))
         /\ Alr!At(s, c, l, e).step = s /\ Alr!At(s, c, l, e).category = c
         /\ Alr!At(s, c, l, e).level = l
BY DEF Alr!At, Alr!Check, Alr!Shaped

LEMMA NoCheckIsIdle ==
  Alr!NoCheck \in Alr!Check /\ Alr!Shaped(Alr!NoCheck) /\ Alr!NoCheck.step = "idle"
BY DEF Alr!NoCheck, Alr!At, Alr!Check, Alr!Shaped, Alr!Steps

(* The next state of one goroutine.                                        *)
LEMMA AlertGoes ==
  ASSUME Alr!IInv, NEW k \in Twins, NEW q \in Alr!Check, Alr!Shaped(q), Alr!Goto(k, q)
  PROVE  /\ check' \in [Twins -> Alr!Check]
         /\ check'[k] = q /\ \A j \in Twins \ {k} : check'[j] = check[j]
         /\ \A j \in Twins : Alr!Shaped(check[j])'
<1>1. /\ check' \in [Twins -> Alr!Check]
      /\ check'[k] = q /\ \A j \in Twins \ {k} : check'[j] = check[j]
  BY DEF Alr!IInv, Alr!TypeOK, Alr!Goto
<1>2. \A j \in Twins : Alr!Shaped(check[j])'
  <2>. SUFFICES ASSUME NEW j \in Twins, NEW e, e = check'[j] PROVE Alr!Shaped(e)
    BY DEF Alr!Shaped
  <2>. QED  BY <1>1 DEF Alr!IInv
<1>. QED  BY <1>1, <1>2

(* Nothing is sent, taken back, or about to be sent that was not before.   *)
LEMMA SentStays ==
  ASSUME Alr!SentOnce, sentMails' = sentMails, marks \subseteq marks',
         \A k \in Twins : check'[k].step \in {"mail", "undo"} =>
           /\ check[k].step \in {"mail", "undo"}
           /\ check'[k].category = check[k].category /\ check'[k].level = check[k].level
  PROVE  Alr!SentOnce'
<1>1. \A k \in Twins : Alr!Sending(k)' => Alr!Sending(k) /\ Alr!Key(k)' = Alr!Key(k)
  BY DEF Alr!Sending, Alr!Key
<1>. HIDE DEF Alr!BagToSet
<1>2. Alr!BagToSet(sentMails)' = Alr!BagToSet(sentMails)
  BY DEF Alr!BagToSet
<1>. QED  BY <1>1, <1>2 DEF Alr!SentOnce

(* A level depends on the category's own spending if nothing is below it.  *)
LEMMA LevelStays ==
  ASSUME Alr!TypeOK, NEW c \in Budgeted, Alr!Below[c] = {c},
         spent'[c] = spent[c], alertLimit'[c] = alertLimit[c]
  PROVE  Alr!LevelOf(c)' = Alr!LevelOf(c)
<1>1. Alr!SpentUnder(c)' = Alr!SpentUnder(c)
  BY SpentOfLeaf, AlertTypes
<1>. QED  BY <1>1 DEF Alr!LevelOf

LEMMA LevelIsLevel == \A c : Alr!LevelOf(c) \in Alr!Levels \cup {"none"}
BY DEF Alr!LevelOf, Alr!Levels

LEMMA AlertInit == Alr!Init => Alr!IInv
<1>. SUFFICES ASSUME Alr!Init PROVE Alr!IInv
  OBVIOUS
<1>1. /\ \A k \in Twins : check[k] = Alr!NoCheck
      /\ marks = {} /\ sentMails = Alr!EmptyBag /\ disturbed = disturbed
  BY DEF Alr!Init
<1>2. Alr!IsABag(sentMails) /\ Alr!BagToSet(sentMails) = {}
  BY <1>1 DEF Alr!EmptyBag, Alr!SetToBag, Alr!IsABag, Alr!BagToSet
<1>3. Alr!TypeOK
  <2>1. spent \in [Budgeted -> 0 .. MaxSpent]
    BY AlertConstants DEF Alr!Init
  <2>. QED  BY <1>1, <1>2, <2>1, NoCheckIsIdle DEF Alr!Init, Alr!TypeOK
<1>4. Alr!SentOnce
  BY <1>1, <1>2, NoCheckIsIdle DEF Alr!SentOnce, Alr!Sending
<1>5. ASSUME NEW c \in Budgeted, Alr!Below[c] = {c} PROVE Alr!LevelOf(c) = "none"
  <2>1. spent[c] = 0 /\ alertLimit[c] \in Nat /\ alertLimit[c] > 0
    <3>1. spent[c] = 0 /\ alertLimit[c] \in Limits
      BY DEF Alr!Init
    <3>2. \A x \in Limits : x \in Nat /\ x # 0
      BY AlertConstants
    <3>. QED  BY <3>1, <3>2
  <2>2. Alr!SpentUnder(c) = 0
    BY <1>5, <2>1, SpentOfLeaf
  <2>. QED  BY <2>1, <2>2 DEF Alr!LevelOf
<1>. QED
  BY <1>1, <1>3, <1>4, <1>5, NoCheckIsIdle DEF Alr!IInv, Alr!NoticedIfOver

(* What is under way, or marked, stays noticed.                            *)
OnTheWay(k, c) ==
  /\ check[k].category = c
  /\ \/ check[k].step = "list"
     \/ check[k].step \in {"gate", "mark"} /\ check[k].level \in Alr!Enough(c)

LEMMA NoticedStays ==
  ASSUME NEW c, Alr!Noticed(c), Alr!Enough(c) \subseteq Alr!Enough(c)', marks \subseteq marks',
         \A k \in Twins : OnTheWay(k, c) => OnTheWay(k, c)' \/ Alr!Noticed(c)'
  PROVE  Alr!Noticed(c)'
<1>. HIDE DEF Alr!Enough
<1>1. CASE \E l \in Alr!Enough(c) : <<c, l>> \in marks
  BY <1>1 DEF Alr!Noticed
<1>2. CASE \E k \in Twins : OnTheWay(k, c)
  BY <1>2 DEF Alr!Noticed, OnTheWay
<1>. QED  BY <1>1, <1>2 DEF Alr!Noticed, OnTheWay

(* A goroutine that was not on its way to a marker changes nothing of it.  *)
LEMMA OthersNotice ==
  ASSUME NEW k \in Twins, \A j \in Twins \ {k} : check'[j] = check[j],
         NEW c, ~OnTheWay(k, c), Alr!Noticed(c), marks \subseteq marks',
         Alr!Enough(c) \subseteq Alr!Enough(c)'
  PROVE  Alr!Noticed(c)'
<1>1. \A j \in Twins : OnTheWay(j, c) => OnTheWay(j, c)'
  <2>. TAKE j \in Twins
  <2>1. CASE j = k
    BY <2>1
  <2>2. CASE j # k
    BY <2>2 DEF OnTheWay
  <2>. QED  BY <2>1, <2>2
<1>. QED  BY <1>1, NoticedStays

LEMMA AlertCreates ==
  ASSUME Alr!IInv, NEW k \in Twins, NEW c \in Budgeted, NEW n \in Amounts, Alr!CreateExpense(k, c, n)
  PROVE  Alr!IInv'
<1>. DEFINE q == Alr!At("list", c, "none", FALSE)
<1>1. q \in Alr!Check /\ Alr!Shaped(q) /\ q.step = "list" /\ q.category = c
  BY DEF Alr!At, Alr!Check, Alr!Shaped, Alr!Steps
<1>2. Alr!Goto(k, q) /\ check[k].step = "idle" /\ UNCHANGED <<alertLimit, gate, marks, sentMails, unusual>>
  BY NoCheckIsIdle DEF Alr!CreateExpense
<1>. HIDE DEF q
<1>3. /\ check' \in [Twins -> Alr!Check]
      /\ check'[k] = q /\ \A j \in Twins \ {k} : check'[j] = check[j]
      /\ \A j \in Twins : Alr!Shaped(check[j])'
  BY <1>1, <1>2, AlertGoes
<1>4. spent' \in [Budgeted -> 0 .. MaxSpent] /\ \A d \in Budgeted \ {c} : spent'[d] = spent[d]
  <2>1. n \in Nat /\ spent \in [Budgeted -> 0 .. MaxSpent] /\ MaxSpent \in Nat
    BY AlertConstants DEF Alr!IInv, Alr!TypeOK
  <2>2. spent[c] + n \in 0 .. MaxSpent
    BY <2>1 DEF Alr!CreateExpense
  <2>. QED  BY <2>1, <2>2 DEF Alr!CreateExpense
<1>5. Alr!TypeOK'
  BY <1>2, <1>3, <1>4 DEF Alr!IInv, Alr!TypeOK
<1>6. Alr!SentOnce'
  <2>1. \A j \in Twins : check'[j].step \in {"mail", "undo"} => check'[j] = check[j]
    BY <1>1, <1>3
  <2>. QED  BY <1>2, <2>1, SentStays DEF Alr!IInv
<1>7. ASSUME NEW d \in Budgeted, Alr!NoticedIfOver(d) PROVE Alr!NoticedIfOver(d)'
  <2>1. CASE d = c
    BY <1>1, <1>3, <2>1 DEF Alr!NoticedIfOver, Alr!Noticed
  <2>2. CASE d # c
    <3>. SUFFICES ASSUME Alr!Below[d] = {d}, Alr!LevelOf(d)' # "none" PROVE Alr!Noticed(d)'
      BY DEF Alr!NoticedIfOver
    <3>1. Alr!LevelOf(d)' = Alr!LevelOf(d)
      BY <1>2, <1>4, <2>2, LevelStays DEF Alr!IInv
    <3>2. ~OnTheWay(k, d) /\ Alr!Noticed(d) /\ Alr!Enough(d)' = Alr!Enough(d)
      BY <1>2, <1>7, <3>1 DEF OnTheWay, Alr!NoticedIfOver, Alr!Enough
    <3>. QED  BY <1>2, <1>3, <3>2, OthersNotice
  <2>. QED  BY <2>1, <2>2
<1>8. unusual' \/ \A j \in Twins : check'[j].step # "undo"
  BY <1>1, <1>2, <1>3 DEF Alr!IInv
<1>. QED  BY <1>2, <1>3, <1>5, <1>6, <1>7, <1>8 DEF Alr!IInv

(* The checks that touch neither the books nor what was sent or marked, nor*)
(* come to send: they go on, or end, with nothing lost that is noticed.    *)
LEMMA ChecksGoOn ==
  ASSUME Alr!IInv, NEW k \in Twins, NEW q \in Alr!Check, Alr!Shaped(q), Alr!Goto(k, q),
         q.step \notin {"mail", "undo"}, unusual' \in BOOLEAN, unusual => unusual',
         UNCHANGED <<spent, alertLimit, gate, marks, sentMails>>,
         \/ unusual' \/ gate = "off"
         \/ \A c \in Budgeted : Alr!Below[c] = {c} /\ Alr!LevelOf(c) # "none" /\ OnTheWay(k, c) =>
              q.category = c /\ q.step \in {"gate", "mark"} /\ q.level \in Alr!Enough(c)
  PROVE  Alr!IInv'
<1>1. /\ check' \in [Twins -> Alr!Check]
      /\ check'[k] = q /\ \A j \in Twins \ {k} : check'[j] = check[j]
      /\ \A j \in Twins : Alr!Shaped(check[j])'
  BY AlertGoes
<1>2. Alr!TypeOK'
  BY <1>1 DEF Alr!IInv, Alr!TypeOK
<1>3. Alr!SentOnce'
  <2>1. \A j \in Twins : check'[j].step \in {"mail", "undo"} => check'[j] = check[j]
    BY <1>1
  <2>. QED  BY <2>1, SentStays DEF Alr!IInv
<1>4. unusual' \/ \A j \in Twins : check'[j].step # "undo"
  BY <1>1 DEF Alr!IInv
<1>5. ASSUME ~unusual', gate # "off", NEW c \in Budgeted PROVE Alr!NoticedIfOver(c)'
  <2>. SUFFICES ASSUME Alr!Below[c] = {c}, Alr!LevelOf(c)' # "none" PROVE Alr!Noticed(c)'
    BY DEF Alr!NoticedIfOver
  <2>1. Alr!LevelOf(c)' = Alr!LevelOf(c) /\ Alr!Enough(c)' = Alr!Enough(c)
    <3>1. Alr!LevelOf(c)' = Alr!LevelOf(c)
      BY LevelStays DEF Alr!IInv
    <3>. QED  BY <3>1 DEF Alr!Enough
  <2>2. Alr!Noticed(c)
    BY <1>5, <2>1 DEF Alr!IInv, Alr!NoticedIfOver
  <2>3. CASE ~OnTheWay(k, c)
    BY <1>1, <2>1, <2>2, <2>3, OthersNotice
  <2>4. CASE OnTheWay(k, c)
    <3>1. check'[k].category = c /\ check'[k].step \in {"gate", "mark"} /\ check'[k].level \in Alr!Enough(c)'
      BY <1>1, <1>5, <2>1, <2>4
    <3>. QED  BY <3>1 DEF Alr!Noticed
  <2>. QED  BY <2>3, <2>4
<1>. QED  BY <1>1, <1>2, <1>3, <1>4, <1>5 DEF Alr!IInv

LEMMA AlertFails ==
  ASSUME Alr!IInv, NEW k \in Twins, Alr!Fail(k), UNCHANGED <<spent, alertLimit, gate, marks, sentMails>>
  PROVE  Alr!IInv'
<1>1. Alr!Goto(k, Alr!NoCheck) /\ unusual' = TRUE
  BY DEF Alr!Fail
<1>. QED  BY <1>1, NoCheckIsIdle, ChecksGoOn

LEMMA AlertLists ==
  ASSUME Alr!IInv, NEW k \in Twins, Alr!ListBudgets(k)
  PROVE  Alr!IInv'
<1>. DEFINE c == check[k].category
            level == Alr!LevelOf(c)
            q == IF level = "none" THEN Alr!NoCheck ELSE Alr!At("gate", c, level, FALSE)
<1>1. UNCHANGED <<spent, alertLimit, gate, marks, sentMails>> /\ check[k].step = "list"
  BY DEF Alr!ListBudgets, Alr!books
<1>2. CASE Alr!Fail(k)
  BY <1>1, <1>2, AlertFails
<1>3. CASE Alr!Goto(k, q) /\ UNCHANGED unusual
  <2>1. c \in Budgeted
    BY <1>1 DEF Alr!IInv, Alr!Shaped
  <2>2. /\ q \in Alr!Check /\ Alr!Shaped(q) /\ q.step \notin {"mail", "undo"}
        /\ level # "none" => q.step = "gate" /\ q.category = c /\ q.level = level
    <3>. HIDE DEF c, level
    <3>1. CASE level = "none"
      BY <3>1, NoCheckIsIdle
    <3>2. CASE level # "none"
      <4>1. level \in Alr!Levels
        BY <3>2, LevelIsLevel DEF level
      <4>. QED  BY <2>1, <3>2, <4>1 DEF Alr!At, Alr!Check, Alr!Shaped, Alr!Steps
    <3>. QED  BY <3>1, <3>2
  <2>. HIDE DEF q
  <2>3. ASSUME NEW d \in Budgeted, Alr!LevelOf(d) # "none", OnTheWay(k, d)
        PROVE  q.category = d /\ q.step \in {"gate", "mark"} /\ q.level \in Alr!Enough(d)
    <3>1. d = c
      BY <2>3 DEF OnTheWay
    <3>. QED  BY <2>2, <2>3, <3>1 DEF Alr!Enough
  <2>4. unusual' \in BOOLEAN /\ unusual' = unusual
    BY <1>3 DEF Alr!IInv, Alr!TypeOK
  <2>. QED  BY <1>1, <1>3, <2>2, <2>3, <2>4, ChecksGoOn
<1>. QED  BY <1>2, <1>3 DEF Alr!ListBudgets

LEMMA AlertConsults ==
  ASSUME Alr!IInv, NEW k \in Twins, Alr!ConsultRule(k)
  PROVE  Alr!IInv'
<1>. DEFINE q == IF gate = "off" THEN Alr!NoCheck
                 ELSE Alr!At("mark", check[k].category, check[k].level, gate = "email")
<1>1. UNCHANGED <<spent, alertLimit, gate, marks, sentMails>> /\ check[k].step = "gate"
  BY DEF Alr!ConsultRule, Alr!books
<1>2. CASE Alr!Fail(k)
  BY <1>1, <1>2, AlertFails
<1>3. CASE Alr!Goto(k, q) /\ UNCHANGED unusual
  <2>1. check[k].category \in Budgeted /\ check[k].level \in Alr!Levels
    BY <1>1 DEF Alr!IInv, Alr!Shaped
  <2>2. /\ q \in Alr!Check /\ Alr!Shaped(q) /\ q.step \notin {"mail", "undo"}
        /\ gate # "off" => q.step = "mark" /\ q.category = check[k].category /\ q.level = check[k].level
    <3>1. CASE gate = "off"
      BY <3>1, NoCheckIsIdle
    <3>2. CASE gate # "off"
      BY <2>1, <3>2 DEF Alr!At, Alr!Check, Alr!Shaped, Alr!Steps
    <3>. QED  BY <3>1, <3>2
  <2>. HIDE DEF q
  <2>3. ASSUME gate # "off", NEW d \in Budgeted, OnTheWay(k, d)
        PROVE  q.category = d /\ q.step \in {"gate", "mark"} /\ q.level \in Alr!Enough(d)
    BY <1>1, <2>2, <2>3 DEF OnTheWay
  <2>4. unusual' \in BOOLEAN /\ unusual' = unusual
    BY <1>3 DEF Alr!IInv, Alr!TypeOK
  <2>. QED  BY <1>1, <1>3, <2>2, <2>3, <2>4, ChecksGoOn
<1>. QED  BY <1>2, <1>3 DEF Alr!ConsultRule

LEMMA AlertDies ==
  ASSUME Alr!IInv, NEW k \in Twins, Alr!Die(k)
  PROVE  Alr!IInv'
BY AlertFails DEF Alr!Die, Alr!books

LEMMA StepIsChanged ==
  ASSUME NEW q \in Alr!Check, NEW s \in Alr!Steps, q.category \in Budgeted, q.level \in Alr!Levels
  PROVE  LET r == [q EXCEPT !.step = s]
         IN  /\ r \in Alr!Check /\ Alr!Shaped(r) /\ r.step = s
             /\ r.category = q.category /\ r.level = q.level
BY DEF Alr!Check, Alr!Shaped

LEMMA MarksAreTyped ==
  ASSUME Alr!IInv, NEW k \in Twins, check[k].step \in {"gate", "mark", "mail", "undo"}
  PROVE  /\ Alr!Key(k) \in Budgeted \X Alr!Levels
         /\ check[k].category \in Budgeted /\ check[k].level \in Alr!Levels /\ check[k] \in Alr!Check
BY DEF Alr!IInv, Alr!TypeOK, Alr!Shaped, Alr!Key

LEMMA AlertMarks ==
  ASSUME Alr!IInv, NEW k \in Twins, Alr!TryInsertSentAlert(k)
  PROVE  Alr!IInv'
<1>. DEFINE r == [check[k] EXCEPT !.step = "mail"]
            new == Alr!Key(k) \notin marks /\ check[k].email
            q == IF new THEN r ELSE Alr!NoCheck
<1>1. /\ UNCHANGED <<spent, alertLimit, gate, sentMails>> /\ check[k].step = "mark"
      /\ Alr!Key(k) \in Budgeted \X Alr!Levels
      /\ check[k].category \in Budgeted /\ check[k].level \in Alr!Levels /\ check[k] \in Alr!Check
  BY MarksAreTyped DEF Alr!TryInsertSentAlert, Alr!books
<1>2. CASE Alr!Fail(k) /\ UNCHANGED marks
  BY <1>1, <1>2, AlertFails
<1>3. CASE marks' = marks \cup {Alr!Key(k)} /\ Alr!Goto(k, q) /\ UNCHANGED unusual
  <2>1. /\ r \in Alr!Check /\ Alr!Shaped(r) /\ r.step = "mail"
        /\ r.category = check[k].category /\ r.level = check[k].level
    BY <1>1, StepIsChanged DEF Alr!Steps
  <2>. HIDE DEF r
  <2>2. /\ q \in Alr!Check /\ Alr!Shaped(q) /\ q.step \in {"idle", "mail"}
        /\ q.step = "mail" => /\ Alr!Key(k) \notin marks
                              /\ q.category = check[k].category /\ q.level = check[k].level
    <3>1. CASE new
      BY <2>1, <3>1
    <3>2. CASE ~new
      BY <3>2, NoCheckIsIdle
    <3>. QED  BY <3>1, <3>2
  <2>. HIDE DEF q, new
  <2>3. /\ check' \in [Twins -> Alr!Check]
        /\ check'[k] = q /\ \A j \in Twins \ {k} : check'[j] = check[j]
        /\ \A j \in Twins : Alr!Shaped(check[j])'
    BY <1>3, <2>2, AlertGoes
  <2>4. Alr!TypeOK'
    BY <1>1, <1>3, <2>3 DEF Alr!IInv, Alr!TypeOK
  <2>5. Alr!SentOnce'
    <3>1. Alr!BagToSet(sentMails)' = Alr!BagToSet(sentMails)
      BY <1>1 DEF Alr!BagToSet
    <3>2. \A j \in Twins \ {k} : Alr!Key(j)' = Alr!Key(j) /\ (Alr!Sending(j)' <=> Alr!Sending(j))
      BY <2>3 DEF Alr!Key, Alr!Sending
    <3>3. Alr!Sending(k)' => Alr!Key(k)' = Alr!Key(k) /\ Alr!Key(k) \notin marks
      BY <2>2, <2>3 DEF Alr!Sending, Alr!Key
    <3>4. \A m \in Alr!BagToSet(sentMails)' : m \in marks' /\ sentMails'[m] = 1
      BY <1>1, <1>3, <3>1 DEF Alr!IInv, Alr!SentOnce
    <3>5. \A j \in Twins : Alr!Sending(j)' => Alr!Key(j)' \in marks' /\ Alr!Key(j)' \notin Alr!BagToSet(sentMails)'
      <4>. TAKE j \in Twins
      <4>1. CASE j = k
        BY <1>3, <3>1, <3>3, <4>1 DEF Alr!IInv, Alr!SentOnce
      <4>2. CASE j # k
        BY <1>3, <3>1, <3>2, <4>2 DEF Alr!IInv, Alr!SentOnce
      <4>. QED  BY <4>1, <4>2
    <3>6. \A i, j \in Twins : Alr!Sending(i)' /\ Alr!Sending(j)' /\ Alr!Key(i)' = Alr!Key(j)' => i = j
      <4>. TAKE i, j \in Twins
      <4>1. CASE i = k \/ j = k
        BY <3>2, <3>3, <4>1 DEF Alr!IInv, Alr!SentOnce
      <4>2. CASE i # k /\ j # k
        BY <3>2, <4>2 DEF Alr!IInv, Alr!SentOnce
      <4>. QED  BY <4>1, <4>2
    <3>. QED  BY <3>4, <3>5, <3>6 DEF Alr!SentOnce
  <2>6. unusual' \/ \A j \in Twins : check'[j].step # "undo"
    BY <1>3, <2>2, <2>3 DEF Alr!IInv
  <2>7. ASSUME ~unusual', gate # "off", NEW c \in Budgeted PROVE Alr!NoticedIfOver(c)'
    <3>. SUFFICES ASSUME Alr!Below[c] = {c}, Alr!LevelOf(c)' # "none" PROVE Alr!Noticed(c)'
      BY DEF Alr!NoticedIfOver
    <3>1. Alr!LevelOf(c)' = Alr!LevelOf(c) /\ Alr!Enough(c)' = Alr!Enough(c)
      <4>1. Alr!LevelOf(c)' = Alr!LevelOf(c)
        BY <1>1, LevelStays DEF Alr!IInv
      <4>. QED  BY <4>1 DEF Alr!Enough
    <3>2. Alr!Noticed(c)
      BY <1>3, <2>7, <3>1 DEF Alr!IInv, Alr!NoticedIfOver
    <3>3. CASE ~OnTheWay(k, c)
      BY <1>3, <2>3, <3>1, <3>2, <3>3, OthersNotice
    <3>4. CASE OnTheWay(k, c)
      <4>1. <<c, check[k].level>> \in marks' /\ check[k].level \in Alr!Enough(c)'
        BY <1>1, <1>3, <3>1, <3>4 DEF OnTheWay, Alr!Key
      <4>. QED  BY <4>1 DEF Alr!Noticed
    <3>. QED  BY <3>3, <3>4
  <2>. QED  BY <1>1, <2>3, <2>4, <2>5, <2>6, <2>7 DEF Alr!IInv
<1>. QED  BY <1>2, <1>3 DEF Alr!TryInsertSentAlert

(* The checks that end or go on after the marker: what is noticed by a     *)
(* goroutine on its way to a marker is not theirs.                         *)
LEMMA MarkedStayNoticed ==
  ASSUME Alr!IInv, NEW k \in Twins, check[k].step \in {"mail", "undo"},
         \A j \in Twins \ {k} : check'[j] = check[j],
         UNCHANGED <<spent, alertLimit, gate>>, marks \subseteq marks', ~unusual,
         gate # "off", NEW c \in Budgeted
  PROVE  Alr!NoticedIfOver(c)'
<1>. SUFFICES ASSUME Alr!Below[c] = {c}, Alr!LevelOf(c)' # "none" PROVE Alr!Noticed(c)'
  BY DEF Alr!NoticedIfOver
<1>1. Alr!LevelOf(c)' = Alr!LevelOf(c) /\ Alr!Enough(c)' = Alr!Enough(c)
  <2>1. Alr!LevelOf(c)' = Alr!LevelOf(c)
    BY LevelStays DEF Alr!IInv
  <2>. QED  BY <2>1 DEF Alr!Enough
<1>2. Alr!Noticed(c) /\ ~OnTheWay(k, c)
  BY <1>1 DEF Alr!IInv, Alr!NoticedIfOver, OnTheWay
<1>. QED  BY <1>1, <1>2, OthersNotice

LEMMA AlertMails ==
  ASSUME Alr!IInv, NEW k \in Twins, Alr!SendEmail(k)
  PROVE  Alr!IInv'
<1>1. /\ UNCHANGED <<spent, alertLimit, gate, marks>> /\ check[k].step = "mail"
      /\ Alr!Key(k) \in Budgeted \X Alr!Levels
      /\ check[k].category \in Budgeted /\ check[k].level \in Alr!Levels /\ check[k] \in Alr!Check
  BY MarksAreTyped DEF Alr!SendEmail, Alr!books
<1>2. CASE Alr!Fail(k) /\ UNCHANGED sentMails
  BY <1>1, <1>2, AlertFails
<1>3. CASE sentMails' = Alr!(+)(sentMails, Alr!SetToBag({Alr!Key(k)})) /\ Alr!Goto(k, Alr!NoCheck) /\ UNCHANGED unusual
  <2>1. /\ check' \in [Twins -> Alr!Check]
        /\ check'[k] = Alr!NoCheck /\ \A j \in Twins \ {k} : check'[j] = check[j]
        /\ \A j \in Twins : Alr!Shaped(check[j])'
    BY <1>3, NoCheckIsIdle, AlertGoes
  <2>2. Alr!Key(k) \in marks /\ Alr!Key(k) \notin Alr!BagToSet(sentMails)
    BY <1>1 DEF Alr!IInv, Alr!SentOnce, Alr!Sending
  <2>3. Alr!IsABag(sentMails)
    BY DEF Alr!IInv, Alr!TypeOK
  <2>4. /\ Alr!IsABag(sentMails') /\ Alr!BagToSet(sentMails') = Alr!BagToSet(sentMails) \cup {Alr!Key(k)}
        /\ sentMails'[Alr!Key(k)] = 1
        /\ \A x \in Alr!BagToSet(sentMails) : sentMails'[x] = sentMails[x]
    <3>. DEFINE m == Alr!Key(k)
    <3>1. sentMails' = Alr!(+)(sentMails, Alr!SetToBag({m})) /\ m \notin Alr!BagToSet(sentMails)
      BY <1>3, <2>2
    <3>. HIDE DEF m
    <3>2. /\ Alr!IsABag(sentMails') /\ Alr!BagToSet(sentMails') = Alr!BagToSet(sentMails) \cup {m}
          /\ sentMails'[m] = 1 /\ \A x \in Alr!BagToSet(sentMails) : sentMails'[x] = sentMails[x]
      BY <2>3, <3>1 DEF Alr!(+), Alr!SetToBag, Alr!IsABag, Alr!BagToSet
    <3>. QED  BY <3>2 DEF m
  <2>. HIDE DEF Alr!Key, Alr!NoCheck
  <2>5. Alr!TypeOK'
    BY <1>1, <1>3, <2>1, <2>4 DEF Alr!IInv, Alr!TypeOK
  <2>6. Alr!SentOnce'
    <3>1. \A j \in Twins \ {k} : Alr!Key(j)' = Alr!Key(j) /\ (Alr!Sending(j)' <=> Alr!Sending(j))
      BY <2>1 DEF Alr!Key, Alr!Sending
    <3>2. ~Alr!Sending(k)' /\ Alr!Sending(k)
      BY <1>1, <2>1, NoCheckIsIdle DEF Alr!Sending
    <3>3. \A m \in Alr!BagToSet(sentMails') : m \in marks' /\ sentMails'[m] = 1
      BY <1>1, <2>2, <2>4 DEF Alr!IInv, Alr!SentOnce
    <3>4. \A j \in Twins : Alr!Sending(j)' => Alr!Key(j)' \in marks' /\ Alr!Key(j)' \notin Alr!BagToSet(sentMails')
      <4>. SUFFICES ASSUME NEW j \in Twins, Alr!Sending(j)'
                    PROVE  Alr!Key(j)' \in marks' /\ Alr!Key(j)' \notin Alr!BagToSet(sentMails')
        OBVIOUS
      <4>1. j # k
        BY <3>2
      <4>2. Alr!Sending(j) /\ Alr!Key(j)' = Alr!Key(j)
        BY <3>1, <4>1
      <4>3. Alr!Key(j) \in marks /\ Alr!Key(j) \notin Alr!BagToSet(sentMails) /\ Alr!Key(j) # Alr!Key(k)
        BY <3>2, <4>1, <4>2 DEF Alr!IInv, Alr!SentOnce
      <4>. QED  BY <1>1, <2>4, <4>2, <4>3
    <3>5. \A i, j \in Twins : Alr!Sending(i)' /\ Alr!Sending(j)' /\ Alr!Key(i)' = Alr!Key(j)' => i = j
      BY <3>1, <3>2 DEF Alr!IInv, Alr!SentOnce
    <3>6. Alr!BagToSet(sentMails)' = Alr!BagToSet(sentMails')
      BY DEF Alr!BagToSet
    <3>. QED  BY <3>3, <3>4, <3>5, <3>6 DEF Alr!SentOnce
  <2>7. unusual' \/ \A j \in Twins : check'[j].step # "undo"
    BY <1>3, <2>1, NoCheckIsIdle DEF Alr!IInv
  <2>8. ASSUME ~unusual', gate # "off", NEW c \in Budgeted PROVE Alr!NoticedIfOver(c)'
    BY <1>1, <1>3, <2>1, <2>8, MarkedStayNoticed
  <2>. QED  BY <1>1, <2>1, <2>5, <2>6, <2>7, <2>8 DEF Alr!IInv
<1>4. CASE Alr!Goto(k, [check[k] EXCEPT !.step = "undo"]) /\ unusual' = TRUE /\ UNCHANGED sentMails
  <2>. DEFINE r == [check[k] EXCEPT !.step = "undo"]
  <2>1. /\ r \in Alr!Check /\ Alr!Shaped(r) /\ r.step = "undo"
        /\ r.category = check[k].category /\ r.level = check[k].level
    BY <1>1, StepIsChanged DEF Alr!Steps
  <2>. HIDE DEF r
  <2>2. /\ check' \in [Twins -> Alr!Check]
        /\ check'[k] = r /\ \A j \in Twins \ {k} : check'[j] = check[j]
        /\ \A j \in Twins : Alr!Shaped(check[j])'
    BY <1>4, <2>1, AlertGoes DEF r
  <2>3. Alr!TypeOK'
    BY <1>1, <1>4, <2>2 DEF Alr!IInv, Alr!TypeOK
  <2>4. Alr!SentOnce'
    <3>1. \A j \in Twins : check'[j].step \in {"mail", "undo"} =>
            /\ check[j].step \in {"mail", "undo"}
            /\ check'[j].category = check[j].category /\ check'[j].level = check[j].level
      BY <1>1, <2>1, <2>2
    <3>. QED  BY <1>1, <1>4, <3>1, SentStays DEF Alr!IInv
  <2>. QED  BY <1>1, <1>4, <2>2, <2>3, <2>4 DEF Alr!IInv
<1>. QED  BY <1>2, <1>3, <1>4 DEF Alr!SendEmail

LEMMA AlertUndoes ==
  ASSUME Alr!IInv, NEW k \in Twins, Alr!DeleteSentAlert(k)
  PROVE  Alr!IInv'
<1>1. /\ UNCHANGED <<spent, alertLimit, gate, sentMails, unusual>> /\ check[k].step = "undo"
      /\ marks' \in {marks \ {Alr!Key(k)}, marks} /\ Alr!Goto(k, Alr!NoCheck)
  BY DEF Alr!DeleteSentAlert, Alr!books
<1>2. unusual
  BY <1>1 DEF Alr!IInv
<1>3. /\ check' \in [Twins -> Alr!Check]
      /\ check'[k] = Alr!NoCheck /\ \A j \in Twins \ {k} : check'[j] = check[j]
      /\ \A j \in Twins : Alr!Shaped(check[j])'
  BY <1>1, NoCheckIsIdle, AlertGoes
<1>4. Alr!TypeOK'
  BY <1>1, <1>3 DEF Alr!IInv, Alr!TypeOK
<1>5. Alr!SentOnce'
  <2>1. \A j \in Twins \ {k} : Alr!Key(j)' = Alr!Key(j) /\ (Alr!Sending(j)' <=> Alr!Sending(j))
    BY <1>3 DEF Alr!Key, Alr!Sending
  <2>2. ~Alr!Sending(k)' /\ Alr!Sending(k)
    BY <1>1, <1>3, NoCheckIsIdle DEF Alr!Sending
  <2>3. Alr!BagToSet(sentMails)' = Alr!BagToSet(sentMails)
    BY <1>1 DEF Alr!BagToSet
  <2>4. \A m \in Alr!BagToSet(sentMails) : m \in marks' /\ sentMails'[m] = 1
    BY <1>1, <2>2 DEF Alr!IInv, Alr!SentOnce
  <2>5. \A j \in Twins : Alr!Sending(j)' => Alr!Key(j)' \in marks' /\ Alr!Key(j)' \notin Alr!BagToSet(sentMails)
    <3>. SUFFICES ASSUME NEW j \in Twins, Alr!Sending(j)'
                  PROVE  Alr!Key(j)' \in marks' /\ Alr!Key(j)' \notin Alr!BagToSet(sentMails)
      OBVIOUS
    <3>1. j # k
      BY <2>2
    <3>2. Alr!Sending(j) /\ Alr!Key(j)' = Alr!Key(j)
      BY <2>1, <3>1
    <3>3. Alr!Key(j) \in marks /\ Alr!Key(j) \notin Alr!BagToSet(sentMails) /\ Alr!Key(j) # Alr!Key(k)
      BY <2>2, <3>1, <3>2 DEF Alr!IInv, Alr!SentOnce
    <3>. QED  BY <1>1, <3>2, <3>3
  <2>6. \A i, j \in Twins : Alr!Sending(i)' /\ Alr!Sending(j)' /\ Alr!Key(i)' = Alr!Key(j)' => i = j
    BY <2>1, <2>2 DEF Alr!IInv, Alr!SentOnce
  <2>. QED  BY <2>3, <2>4, <2>5, <2>6 DEF Alr!SentOnce
<1>. QED  BY <1>1, <1>2, <1>3, <1>4, <1>5 DEF Alr!IInv

(* The steps of others than the goroutines.                                *)
LEMMA BooksChange ==
  ASSUME Alr!IInv, UNCHANGED <<marks, sentMails, check>>, spent' \in [Budgeted -> 0 .. MaxSpent],
         alertLimit' \in [Budgeted -> Limits \cup {0}], gate' \in Alr!Gates, unusual' \in BOOLEAN,
         unusual => unusual',
         unusual' \/ gate' = "off" \/ \A c \in Budgeted : Alr!NoticedIfOver(c)'
  PROVE  Alr!IInv'
<1>1. Alr!TypeOK'
  BY DEF Alr!IInv, Alr!TypeOK
<1>2. Alr!SentOnce'
  BY SentStays DEF Alr!IInv
<1>3. \A k \in Twins : Alr!Shaped(check[k])'
  BY DEF Alr!IInv, Alr!Shaped
<1>. QED  BY <1>1, <1>2, <1>3 DEF Alr!IInv

LEMMA UncheckedRises ==
  ASSUME Alr!IInv, NEW c \in Budgeted, NEW n \in Amounts, Alr!UncheckedExpense(c, n)
  PROVE  Alr!IInv'
<1>1. n \in Nat /\ spent \in [Budgeted -> 0 .. MaxSpent] /\ MaxSpent \in Nat
  BY AlertConstants DEF Alr!IInv, Alr!TypeOK
<1>2. spent[c] + n \in 0 .. MaxSpent
  BY <1>1 DEF Alr!UncheckedExpense
<1>3. spent' \in [Budgeted -> 0 .. MaxSpent]
  BY <1>1, <1>2 DEF Alr!UncheckedExpense
<1>. QED  BY <1>3, BooksChange DEF Alr!UncheckedExpense, Alr!IInv, Alr!TypeOK

LEMMA BudgetIsSet ==
  ASSUME Alr!IInv, NEW c \in Budgeted, NEW l \in Limits \cup {0}, Alr!SetBudget(c, l)
  PROVE  Alr!IInv'
<1>1. alertLimit' \in [Budgeted -> Limits \cup {0}]
  BY DEF Alr!SetBudget, Alr!IInv, Alr!TypeOK
<1>. QED  BY <1>1, BooksChange DEF Alr!SetBudget, Alr!IInv, Alr!TypeOK

LEMMA RuleIsSet ==
  ASSUME Alr!IInv, NEW g \in Alr!Gates, Alr!SetRule(g)
  PROVE  Alr!IInv'
BY BooksChange DEF Alr!SetRule, Alr!IInv, Alr!TypeOK

LEMMA ExpenseIsRemoved ==
  ASSUME Alr!IInv, NEW c \in Budgeted, NEW n \in Amounts, Alr!RemoveExpense(c, n)
  PROVE  Alr!IInv'
<1>1. n \in Nat /\ spent \in [Budgeted -> 0 .. MaxSpent] /\ MaxSpent \in Nat
  BY AlertConstants DEF Alr!IInv, Alr!TypeOK
<1>2. spent[c] - n \in 0 .. MaxSpent /\ UNCHANGED <<alertLimit, gate, marks, sentMails, check, unusual>>
  BY <1>1 DEF Alr!RemoveExpense
<1>3. /\ spent' \in [Budgeted -> 0 .. MaxSpent]
      /\ \A d \in Budgeted : spent'[d] <= spent[d] /\ spent'[d] \in Nat /\ spent[d] \in Nat
  BY <1>1, <1>2 DEF Alr!RemoveExpense
<1>4. ASSUME NEW d \in Budgeted, Alr!NoticedIfOver(d) PROVE Alr!NoticedIfOver(d)'
  <2>. SUFFICES ASSUME Alr!Below[d] = {d}, Alr!LevelOf(d)' # "none" PROVE Alr!Noticed(d)'
    BY DEF Alr!NoticedIfOver
  <2>1. /\ Alr!SpentUnder(d) = spent[d] /\ Alr!SpentUnder(d)' = spent'[d]
        /\ alertLimit[d] \in Nat /\ alertLimit'[d] = alertLimit[d]
    BY <1>2, <1>3, SpentOfLeaf, AlertTypes DEF Alr!IInv
  <2>2. /\ Alr!LevelOf(d) # "none"
        /\ Alr!LevelOf(d) = "WARNING" => Alr!LevelOf(d)' = "WARNING"
        /\ Alr!LevelOf(d) \in Alr!Levels
    <3>1. spent'[d] <= spent[d] /\ spent'[d] \in Nat /\ spent[d] \in Nat
      BY <1>3
    <3>. HIDE DEF Alr!SpentUnder
    <3>. QED  BY <2>1, <3>1 DEF Alr!LevelOf, Alr!Levels
  <2>3. Alr!Enough(d) \subseteq Alr!Enough(d)'
    BY <2>2 DEF Alr!Enough, Alr!Levels
  <2>4. \A k \in Twins : OnTheWay(k, d) => OnTheWay(k, d)'
    BY <1>2, <2>3 DEF OnTheWay
  <2>. QED  BY <1>2, <1>4, <2>2, <2>3, <2>4, NoticedStays DEF Alr!NoticedIfOver
<1>5. unusual' \/ gate' = "off" \/ \A d \in Budgeted : Alr!NoticedIfOver(d)'
  BY <1>2, <1>4 DEF Alr!IInv
<1>. QED  BY <1>2, <1>3, <1>5, BooksChange DEF Alr!IInv, Alr!TypeOK

LEMMA AlertNext == Alr!IInv /\ Alr!Next => Alr!IInv'
BY AlertCreates, AlertLists, AlertConsults, AlertMarks, AlertMails, AlertUndoes, AlertDies,
   UncheckedRises, ExpenseIsRemoved, BudgetIsSet, RuleIsSet DEF Alr!Next

LEMMA AlertUnchanged == Alr!IInv /\ UNCHANGED alertsVars => Alr!IInv'
<1>. SUFFICES ASSUME Alr!IInv, UNCHANGED alertsVars PROVE Alr!IInv'
  OBVIOUS
<1>1. UNCHANGED <<spent, alertLimit, gate, marks, sentMails, check, unusual>>
  BY DEF alertsVars
<1>2. \A c \in Budgeted : Alr!NoticedIfOver(c) => Alr!NoticedIfOver(c)'
  <2>. SUFFICES ASSUME NEW c \in Budgeted, Alr!NoticedIfOver(c), Alr!Below[c] = {c}, Alr!LevelOf(c)' # "none"
                PROVE  Alr!Noticed(c)'
    BY DEF Alr!NoticedIfOver
  <2>1. Alr!LevelOf(c)' = Alr!LevelOf(c)
    BY <1>1, LevelStays DEF Alr!IInv
  <2>2. Alr!Enough(c)' = Alr!Enough(c) /\ Alr!Noticed(c)
    BY <2>1 DEF Alr!Enough, Alr!NoticedIfOver
  <2>. QED  BY <1>1, <2>2, NoticedStays DEF OnTheWay
<1>. QED  BY <1>1, <1>2, BooksChange DEF Alr!IInv, Alr!TypeOK

LEMMA AlertSafe == Alr!IInv => Alr!AlertedOnce /\ Alr!OverspendingAlertedAlone
<1>. SUFFICES ASSUME Alr!IInv PROVE Alr!AlertedOnce /\ Alr!OverspendingAlertedAlone
  OBVIOUS
<1>1. Alr!AlertedOnce
  BY DEF Alr!AlertedOnce, Alr!IInv, Alr!SentOnce
<1>2. ASSUME ~unusual, gate # "off", \A k \in Twins : check[k] = Alr!NoCheck,
             NEW c \in Budgeted, Alr!Below[c] = {c}, Alr!LevelOf(c) # "none"
      PROVE  \/ <<c, "EXCEEDED">> \in marks
             \/ Alr!LevelOf(c) = "WARNING" /\ <<c, "WARNING">> \in marks
  <2>1. Alr!Noticed(c) /\ \A k \in Twins : check[k].step = "idle"
    BY <1>2, NoCheckIsIdle DEF Alr!IInv, Alr!NoticedIfOver
  <2>2. PICK l \in Alr!Enough(c) : <<c, l>> \in marks
    BY <2>1 DEF Alr!Noticed
  <2>. QED  BY <1>2, <2>2, LevelIsLevel DEF Alr!Enough, Alr!Levels
<1>. QED  BY <1>1, <1>2 DEF Alr!OverspendingAlertedAlone

(***************************************************************************)
(* The reminders.                                                          *)
(***************************************************************************)

LEMMA RemConstants ==
  /\ UserOf \in [Items -> Users] /\ LastDay \in Nat /\ WeekDays \in Nat \ {0} /\ None \notin Rem!Notice
  /\ None \notin Rem!Days /\ None \notin Rem!RuleRow /\ MaxEdits \in Nat
BY PartsAssumption DEF Rem!RemindersConstants

LEMMA TickIsJob ==
  ASSUME NEW ph \in {"idle", "due", "weekly"}, NEW date \in Rem!Days,
         NEW todo \in SUBSET (Users \X {0, 1, 3}), NEW batch \in SUBSET Rem!Notice, NEW clean \in BOOLEAN
  PROVE  LET q == Rem!Tick(ph, date, todo, batch, clean)
         IN  /\ q \in Rem!Job /\ q.phase = ph /\ q.now = date /\ q.todo = todo /\ q.batch = batch
             /\ q.sending = None /\ q.email = FALSE /\ q.recorded = FALSE /\ q.clean = clean
BY DEF Rem!Tick, Rem!Job

LEMMA SendingIsJob ==
  ASSUME NEW r \in Rem!Job, NEW batch \in SUBSET Rem!Notice, NEW n \in Rem!Notice \cup {None},
         NEW email \in BOOLEAN, NEW known \in BOOLEAN, NEW clean \in BOOLEAN
  PROVE  LET q == Rem!Sending(r, batch, n, email, known, clean)
         IN  /\ q \in Rem!Job /\ q.phase = r.phase /\ q.now = r.now /\ q.todo = r.todo /\ q.batch = batch
             /\ q.sending = n /\ q.email = email /\ q.recorded = known /\ q.clean = clean
BY DEF Rem!Sending, Rem!Job

LEMMA JobShape ==
  ASSUME NEW r \in Rem!Job
  PROVE  /\ r.phase \in {"idle", "due", "weekly"} /\ r.now \in Rem!Days
         /\ r.todo \in SUBSET (Users \X {0, 1, 3}) /\ r.batch \in SUBSET Rem!Notice
         /\ r.sending \in Rem!Notice \cup {None}
         /\ r.email \in BOOLEAN /\ r.recorded \in BOOLEAN /\ r.clean \in BOOLEAN
BY DEF Rem!Job

LEMMA SentIsJob ==
  ASSUME NEW r \in Rem!Job, NEW batch \in SUBSET Rem!Notice, NEW clean \in BOOLEAN
  PROVE  LET q == Rem!Sent(r, batch, clean)
         IN  /\ q \in Rem!Job /\ q.phase = r.phase /\ q.now = r.now /\ q.todo = r.todo /\ q.batch = batch
             /\ q.sending = None /\ q.email = FALSE /\ q.recorded = FALSE /\ q.clean = clean
BY DEF Rem!Sent, Rem!Tick, Rem!Job

LEMMA RemindersAreNotices ==
  ASSUME NEW u, NEW date \in Rem!Days, NEW a \in Rem!Windows
  PROVE  /\ Rem!DueItems(u, date, a) \subseteq Rem!Notice
         /\ \A n \in Rem!DueItems(u, date, a) : n.rule = "due-reminder" /\ n.user = u
<1>1. date + a \in 0 .. LastDay + 3
  BY RemConstants DEF Rem!Days, Rem!Windows
<1>2. \A i \in Items : Rem!Reminder(i, a, date + a) \in Rem!Notice
  BY <1>1 DEF Rem!Notice
<1>. QED  BY <1>2 DEF Rem!DueItems, Rem!Reminder

LEMMA SummariesAreNotices ==
  ASSUME NEW u \in Users, NEW date \in Rem!Days
  PROVE  Rem!Summary(u, Rem!PreviousWeek(date)) \in Rem!Notice
<1>1. date \in Nat /\ date <= LastDay /\ LastDay \in Nat /\ WeekDays \in Nat /\ WeekDays >= 1
  BY RemConstants DEF Rem!Days
<1>2. date \div WeekDays \in 0 .. LastDay
  BY <1>1
<1>3. Rem!PreviousWeek(date) \in -1 .. LastDay
  BY <1>1, <1>2 DEF Rem!PreviousWeek
<1>. QED  BY <1>3 DEF Rem!Notice

(* What a tick wants to send is a notice that its user's rule allows.      *)
LEMMA WantedAllowed ==
  ASSUME Rem!TypeOK, NEW r \in Rem!Job, NEW n \in Rem!Wanted(r)
  PROVE  n \in Rem!Notice /\ n # None /\ Rem!Sends(n.user, n.rule)
<1>1. CASE r.phase = "due"
  <2>1. PICK x \in (Rem!RuleOwners("due-reminder") \X Rem!Windows) \ r.todo : n \in Rem!DueItems(x[1], r.now, x[2])
    BY <1>1 DEF Rem!Wanted
  <2>2. x[1] \in Rem!RuleOwners("due-reminder") /\ x[2] \in Rem!Windows /\ r.now \in Rem!Days
    BY <2>1, JobShape
  <2>3. n \in Rem!Notice /\ n.rule = "due-reminder" /\ n.user = x[1]
    BY <2>1, <2>2, RemindersAreNotices
  <2>. QED  BY <2>2, <2>3, RemConstants DEF Rem!RuleOwners
<1>2. CASE r.phase = "weekly"
  <2>1. PICK u \in Rem!RuleOwners("weekly-summary") : n = Rem!Summary(u, Rem!PreviousWeek(r.now))
    BY <1>2 DEF Rem!Wanted
  <2>2. u \in Users /\ r.now \in Rem!Days
    BY <2>1, JobShape DEF Rem!RuleOwners
  <2>3. n \in Rem!Notice
    BY <2>1, <2>2, SummariesAreNotices
  <2>4. n.user = u /\ n.rule = "weekly-summary"
    BY <2>1 DEF Rem!Summary
  <2>. QED  BY <2>1, <2>3, <2>4, RemConstants DEF Rem!RuleOwners
<1>. QED  BY <1>1, <1>2 DEF Rem!Wanted

LEMMA WantedStays ==
  ASSUME rule' = rule, due' = due, NEW r
  PROVE  Rem!Wanted(r)' = Rem!Wanted(r)
BY DEF Rem!Wanted, Rem!DueItems, Rem!RuleOwners, Rem!Sends

(* A tick that goes on wants the same.                                     *)
LEMMA WantedGoesOn ==
  ASSUME NEW r, NEW q, q.phase = r.phase, q.now = r.now, q.todo = r.todo
  PROVE  Rem!Wanted(q) = Rem!Wanted(r)
BY DEF Rem!Wanted

LEMMA ReminderInit == Rem!Init => Rem!IInv
<1>. SUFFICES ASSUME Rem!Init PROVE Rem!IInv
  OBVIOUS
<1>1. 0 \in Rem!Days
  BY RemConstants DEF Rem!Days
<1>2. /\ Rem!Idle \in Rem!Job /\ Rem!Idle.phase = "idle" /\ Rem!Idle.recorded = FALSE /\ Rem!Idle.clean = FALSE
  BY <1>1 DEF Rem!Idle, Rem!Tick, Rem!Job
<1>3. Rem!IsABag(mails) /\ Rem!BagToSet(mails) = {}
  BY DEF Rem!Init, Rem!EmptyBag, Rem!SetToBag, Rem!IsABag, Rem!BagToSet
<1>4. \A p \in Twins : job[p] = Rem!Idle
  BY DEF Rem!Init
<1>. HIDE DEF Rem!Idle
<1>5. Rem!TypeOK
  BY <1>1, <1>2, <1>3, RemConstants DEF Rem!Init, Rem!TypeOK
<1>6. Rem!RecordedOnce
  BY <1>2, <1>3, <1>4 DEF Rem!RecordedOnce
<1>. QED  BY <1>2, <1>4, <1>5, <1>6 DEF Rem!IInv

(* Nothing is recorded, or about to be mailed, that was not before.        *)
LEMMA RecordedStays ==
  ASSUME Rem!RecordedOnce, mails' = mails, delivered \subseteq delivered',
         \A p \in Twins : job'[p].recorded => job[p].recorded /\ job'[p].sending = job[p].sending
  PROVE  Rem!RecordedOnce'
<1>1. Rem!BagToSet(mails)' = Rem!BagToSet(mails)
  BY DEF Rem!BagToSet
<1>. QED  BY <1>1 DEF Rem!RecordedOnce

LEMMA ListedStays ==
  ASSUME rule' = rule, due' = due, delivered \subseteq delivered', NEW r, Rem!Listed(r)
  PROVE  Rem!Listed(r)'
<1>1. Rem!Wanted(r)' = Rem!Wanted(r)
  BY WantedStays
<1>. QED  BY <1>1 DEF Rem!Listed

LEMMA JobMoves ==
  ASSUME Rem!IInv, NEW p \in Twins, NEW q \in Rem!Job, Rem!Goto(p, q)
  PROVE  /\ job' \in [Twins -> Rem!Job] /\ job'[p] = q /\ \A k \in Twins \ {p} : job'[k] = job[k]
         /\ job[p] \in Rem!Job
BY DEF Rem!IInv, Rem!TypeOK, Rem!Goto

(* One process goes on.                                                    *)
LEMMA TickMoves ==
  ASSUME Rem!IInv, NEW p \in Twins, NEW q \in Rem!Job, Rem!Goto(p, q),
         q.phase = "due" => q.todo \subseteq Users \X Rem!Windows,
         q.clean => Rem!Listed(q)', UNCHANGED <<day, due, rule, edits>>,
         delivered \subseteq delivered', delivered' \subseteq Rem!Notice,
         Rem!IsABag(mails'), Rem!BagToSet(mails') \subseteq Rem!Notice, Rem!RecordedOnce'
  PROVE  Rem!IInv'
<1>1. /\ job' \in [Twins -> Rem!Job] /\ job'[p] = q /\ \A k \in Twins \ {p} : job'[k] = job[k]
  BY JobMoves
<1>2. Rem!TypeOK'
  BY <1>1 DEF Rem!IInv, Rem!TypeOK, Rem!IsABag, Rem!BagToSet
<1>3. \A k \in Twins : job'[k].phase = "due" => job'[k].todo \subseteq Users \X Rem!Windows
  BY <1>1 DEF Rem!IInv
<1>4. ASSUME NEW k \in Twins, job'[k].clean PROVE Rem!Listed(job[k])'
  <2>. SUFFICES ASSUME NEW r, r = job'[k] PROVE Rem!Listed(r)'
    BY DEF Rem!Listed, Rem!Wanted
  <2>1. CASE k = p
    BY <1>1, <1>4, <2>1
  <2>2. CASE k # p
    <3>1. r = job[k] /\ Rem!Listed(job[k])
      BY <1>1, <1>4, <2>2 DEF Rem!IInv
    <3>2. Rem!Listed(r)
      BY <3>1
    <3>. QED  BY <3>2, ListedStays
  <2>. QED  BY <2>1, <2>2
<1>. QED  BY <1>2, <1>3, <1>4 DEF Rem!IInv

(* The steps that neither record nor mail anything.                        *)
LEMMA TickReads ==
  ASSUME Rem!IInv, NEW p \in Twins, NEW q \in Rem!Job, Rem!Goto(p, q), UNCHANGED <<Rem!tables, mails>>,
         ~q.recorded, q.phase = "due" => q.todo \subseteq Users \X Rem!Windows,
         q.clean => Rem!Listed(q)
  PROVE  Rem!IInv'
<1>1. UNCHANGED <<day, due, rule, delivered, edits, mails>>
  BY DEF Rem!tables
<1>2. /\ job'[p] = q /\ \A k \in Twins \ {p} : job'[k] = job[k]
  BY JobMoves
<1>3. Rem!RecordedOnce'
  BY <1>1, <1>2, RecordedStays DEF Rem!IInv
<1>4. q.clean => Rem!Listed(q)'
  BY <1>1, ListedStays
<1>5. delivered' \subseteq Rem!Notice /\ Rem!IsABag(mails') /\ Rem!BagToSet(mails') \subseteq Rem!Notice
  BY <1>1 DEF Rem!IInv, Rem!TypeOK
<1>. QED  BY <1>1, <1>3, <1>4, <1>5, TickMoves

LEMMA QueriesLeft ==
  ASSUME NEW todo, NEW x \in Rem!NextQueries(todo)
  PROVE  x \in todo
BY DEF Rem!NextQueries

LEMMA TickUnclean ==
  ASSUME Rem!IInv, NEW p \in Twins, NEW ph \in {"idle", "due", "weekly"}, NEW date \in Rem!Days,
         NEW todo \in SUBSET (Users \X {0, 1, 3}), ph = "due" => todo \subseteq Users \X Rem!Windows,
         Rem!Goto(p, Rem!Tick(ph, date, todo, {}, FALSE)), UNCHANGED <<Rem!tables, mails>>
  PROVE  Rem!IInv'
<1>. DEFINE q == Rem!Tick(ph, date, todo, {}, FALSE)
<1>1. q \in Rem!Job /\ q.phase = ph /\ q.todo = todo /\ q.recorded = FALSE /\ q.clean = FALSE
  BY DEF Rem!Tick, Rem!Job
<1>2. Rem!Goto(p, q)
  OBVIOUS
<1>. HIDE DEF q
<1>. QED  BY <1>1, <1>2, TickReads

LEMMA ReminderListsUsers ==
  ASSUME Rem!IInv, NEW p \in Twins, Rem!ListReminderUsers(p)
  PROVE  Rem!IInv'
<1>. DEFINE todo == Rem!RuleOwners("due-reminder") \X Rem!Windows
            q == Rem!Tick("due", day, todo, {}, TRUE)
<1>1. day \in Rem!Days /\ UNCHANGED <<Rem!tables, mails>>
  BY DEF Rem!IInv, Rem!TypeOK, Rem!ListReminderUsers
<1>2. todo \subseteq Users \X Rem!Windows /\ todo \in SUBSET (Users \X {0, 1, 3})
  BY DEF Rem!RuleOwners, Rem!Windows
<1>3. CASE Rem!Goto(p, q)
  <2>. HIDE DEF todo
  <2>1. /\ q \in Rem!Job /\ q.phase = "due" /\ q.todo = todo
        /\ q.recorded = FALSE
    BY <1>1, <1>2 DEF Rem!Tick, Rem!Job
  <2>. HIDE DEF q
  <2>2. Rem!Wanted(q) = {}
    BY <2>1 DEF Rem!Wanted, todo
  <2>3. Rem!Listed(q)
    BY <2>2 DEF Rem!Listed
  <2>. QED  BY <1>1, <1>2, <1>3, <2>1, <2>3, TickReads
<1>4. CASE Rem!Goto(p, Rem!Tick("due", day, {}, {}, FALSE))
  <2>1. {} \in SUBSET (Users \X {0, 1, 3}) /\ {} \subseteq Users \X Rem!Windows
    OBVIOUS
  <2>. QED  BY <1>1, <1>4, <2>1, TickUnclean
<1>. QED  BY <1>3, <1>4 DEF Rem!ListReminderUsers

LEMMA ReminderReadsItems ==
  ASSUME Rem!IInv, NEW p \in Twins, Rem!ReadDueItems(p)
  PROVE  Rem!IInv'
<1>1. /\ job[p] \in Rem!Job /\ job[p].phase = "due" /\ job[p].batch = {} /\ job[p].sending = None
      /\ UNCHANGED <<Rem!tables, mails>> /\ job[p].todo \subseteq Users \X Rem!Windows
  BY DEF Rem!IInv, Rem!TypeOK, Rem!ReadDueItems
<1>. DEFINE date == job[p].now
            rest(x) == job[p].todo \ {x}
            q(x) == Rem!Tick("due", date, rest(x), Rem!DueItems(x[1], date, x[2]), job[p].clean)
<1>2. PICK x \in Rem!NextQueries(job[p].todo) :
        Rem!Goto(p, q(x)) \/ Rem!Goto(p, Rem!Tick("due", date, rest(x), {}, FALSE))
  BY DEF Rem!ReadDueItems
<1>3. x[1] \in Users /\ x[2] \in Rem!Windows /\ date \in Rem!Days /\ job[p].clean \in BOOLEAN
  BY <1>1, QueriesLeft, JobShape
<1>4. rest(x) \in SUBSET (Users \X {0, 1, 3}) /\ rest(x) \subseteq Users \X Rem!Windows
  BY <1>1, JobShape
<1>5. CASE Rem!Goto(p, q(x))
  <2>. DEFINE batch == Rem!DueItems(x[1], date, x[2])
              clean == job[p].clean
              r == Rem!Tick("due", date, rest(x), batch, clean)
  <2>1. batch \in SUBSET Rem!Notice
    BY <1>3, RemindersAreNotices
  <2>2. Rem!Goto(p, r)
    BY <1>5
  <2>. HIDE DEF batch, clean, date, rest
  <2>3. /\ r \in Rem!Job /\ r.phase = "due" /\ r.now = date /\ r.todo = rest(x) /\ r.batch = batch
        /\ r.clean = clean /\ r.recorded = FALSE
    BY <1>3, <1>4, <2>1 DEF Rem!Tick, Rem!Job, clean
  <2>. HIDE DEF r
  <2>4. ASSUME clean PROVE Rem!Listed(r)
    <3>1. Rem!Listed(job[p])
      BY <2>4 DEF Rem!IInv, clean
    <3>2. ASSUME NEW n \in Rem!Wanted(r) PROVE n \in batch \/ n \in delivered
      <4>1. PICK y \in (Rem!RuleOwners("due-reminder") \X Rem!Windows) \ rest(x) : n \in Rem!DueItems(y[1], date, y[2])
        BY <2>3, <3>2 DEF Rem!Wanted
      <4>2. CASE y = x
        BY <4>1, <4>2 DEF batch
      <4>3. CASE y # x
        <5>1. y \notin job[p].todo
          BY <4>1, <4>3 DEF rest
        <5>2. n \in Rem!Wanted(job[p])
          BY <1>1, <4>1, <5>1 DEF Rem!Wanted, date
        <5>3. n # None
          BY <1>1, <5>2, WantedAllowed DEF Rem!IInv
        <5>. QED  BY <1>1, <3>1, <5>2, <5>3 DEF Rem!Listed
      <4>. QED  BY <4>2, <4>3
    <3>. QED  BY <2>3, <3>2 DEF Rem!Listed
  <2>. QED  BY <1>1, <1>4, <2>2, <2>3, <2>4, TickReads
<1>6. CASE Rem!Goto(p, Rem!Tick("due", date, rest(x), {}, FALSE))
  <2>. HIDE DEF rest, date
  <2>. QED  BY <1>1, <1>3, <1>4, <1>6, TickUnclean
<1>. QED  BY <1>2, <1>5, <1>6

LEMMA SummaryListsUsers ==
  ASSUME Rem!IInv, NEW p \in Twins, Rem!ListSummaryUsers(p)
  PROVE  Rem!IInv'
<1>. DEFINE todo == Rem!RuleOwners("weekly-summary") \X {0}
            clean == job[p].clean
            q == Rem!Tick("weekly", day, todo, {}, clean)
<1>1. day \in Rem!Days /\ UNCHANGED <<Rem!tables, mails>> /\ job[p] \in Rem!Job /\ clean \in BOOLEAN
  BY JobShape DEF Rem!IInv, Rem!TypeOK, Rem!ListSummaryUsers
<1>2. todo \in SUBSET (Users \X {0, 1, 3})
  BY DEF Rem!RuleOwners
<1>3. CASE Rem!Goto(p, q)
  <2>. HIDE DEF todo, clean
  <2>1. q \in Rem!Job /\ q.phase = "weekly" /\ q.todo = todo /\ q.recorded = FALSE
    BY <1>1, <1>2 DEF Rem!Tick, Rem!Job
  <2>. HIDE DEF q
  <2>2. Rem!Wanted(q) = {}
    BY <2>1 DEF Rem!Wanted, todo
  <2>3. Rem!Listed(q)
    BY <2>2 DEF Rem!Listed
  <2>. QED  BY <1>1, <1>3, <2>1, <2>3, TickReads
<1>4. CASE Rem!Goto(p, Rem!Tick("weekly", day, {}, {}, FALSE))
  <2>1. {} \in SUBSET (Users \X {0, 1, 3})
    OBVIOUS
  <2>. QED  BY <1>1, <1>4, <2>1, TickUnclean
<1>. QED  BY <1>3, <1>4 DEF Rem!ListSummaryUsers

LEMMA SummaryReadsWeek ==
  ASSUME Rem!IInv, NEW p \in Twins, Rem!ReadWeek(p)
  PROVE  Rem!IInv'
<1>1. /\ job[p] \in Rem!Job /\ job[p].phase = "weekly" /\ job[p].batch = {} /\ job[p].sending = None
      /\ UNCHANGED <<Rem!tables, mails>>
  BY DEF Rem!IInv, Rem!TypeOK, Rem!ReadWeek
<1>. DEFINE date == job[p].now
            rest(x) == job[p].todo \ {x}
            q(x) == Rem!Tick("weekly", date, rest(x), {Rem!Summary(x[1], Rem!PreviousWeek(date))}, job[p].clean)
<1>2. PICK x \in Rem!NextQueries(job[p].todo) :
        Rem!Goto(p, q(x)) \/ Rem!Goto(p, Rem!Tick("weekly", date, rest(x), {}, FALSE))
  BY DEF Rem!ReadWeek
<1>3. x[1] \in Users /\ date \in Rem!Days /\ job[p].clean \in BOOLEAN
  BY <1>1, QueriesLeft, JobShape
<1>4. rest(x) \in SUBSET (Users \X {0, 1, 3})
  BY <1>1, JobShape
<1>5. CASE Rem!Goto(p, q(x))
  <2>. DEFINE batch == {Rem!Summary(x[1], Rem!PreviousWeek(date))}
              clean == job[p].clean
              r == Rem!Tick("weekly", date, rest(x), batch, clean)
  <2>1. batch \in SUBSET Rem!Notice
    BY <1>3, SummariesAreNotices
  <2>2. Rem!Goto(p, r)
    BY <1>5
  <2>. HIDE DEF batch, clean, date, rest
  <2>3. /\ r \in Rem!Job /\ r.phase = "weekly" /\ r.now = date /\ r.todo = rest(x) /\ r.batch = batch
        /\ r.clean = clean /\ r.recorded = FALSE
    BY <1>3, <1>4, <2>1 DEF Rem!Tick, Rem!Job, clean
  <2>. HIDE DEF r
  <2>4. ASSUME clean PROVE Rem!Listed(r)
    <3>1. Rem!Listed(job[p])
      BY <2>4 DEF Rem!IInv, clean
    <3>2. ASSUME NEW n \in Rem!Wanted(r) PROVE n \in batch \/ n \in delivered
      <4>1. PICK u \in Rem!RuleOwners("weekly-summary") :
              <<u, 0>> \notin rest(x) /\ n = Rem!Summary(u, Rem!PreviousWeek(date))
        BY <2>3, <3>2 DEF Rem!Wanted
      <4>2. CASE <<u, 0>> = x
        BY <4>1, <4>2 DEF batch
      <4>3. CASE <<u, 0>> # x
        <5>1. <<u, 0>> \notin job[p].todo
          BY <4>1, <4>3 DEF rest
        <5>2. n \in Rem!Wanted(job[p])
          BY <1>1, <4>1, <5>1 DEF Rem!Wanted, date
        <5>3. n # None
          BY <1>1, <5>2, WantedAllowed DEF Rem!IInv
        <5>. QED  BY <1>1, <3>1, <5>2, <5>3 DEF Rem!Listed
      <4>. QED  BY <4>2, <4>3
    <3>. QED  BY <2>3, <3>2 DEF Rem!Listed
  <2>. QED  BY <1>1, <1>4, <2>2, <2>3, <2>4, TickReads
<1>6. CASE Rem!Goto(p, Rem!Tick("weekly", date, rest(x), {}, FALSE))
  <2>. HIDE DEF rest, date
  <2>. QED  BY <1>1, <1>3, <1>4, <1>6, TickUnclean
<1>. QED  BY <1>2, <1>5, <1>6

LEMMA TickEnds ==
  ASSUME Rem!IInv, NEW p \in Twins, Rem!EndTick(p) \/ Rem!Stop(p)
  PROVE  Rem!IInv'
<1>1. Rem!Goto(p, Rem!Tick("idle", 0, {}, {}, FALSE)) /\ UNCHANGED <<Rem!tables, mails>>
  BY DEF Rem!EndTick, Rem!Stop, Rem!Idle
<1>2. 0 \in Rem!Days /\ {} \in SUBSET (Users \X {0, 1, 3})
  BY RemConstants DEF Rem!Days
<1>. QED  BY <1>1, <1>2, TickUnclean

(* A tick whose process has done with a notice.                            *)
LEMMA TickSent ==
  ASSUME Rem!IInv, NEW p \in Twins, NEW batch \in SUBSET job[p].batch, NEW clean \in BOOLEAN,
         NEW q, q = Rem!Sent(job[p], batch, clean), Rem!Goto(p, q), UNCHANGED <<day, due, rule, edits>>,
         delivered \subseteq delivered', delivered' \subseteq Rem!Notice,
         Rem!IsABag(mails'), Rem!BagToSet(mails') \subseteq Rem!Notice, Rem!RecordedOnce',
         clean => /\ job[p].clean
                  /\ \A n \in Rem!Wanted(job[p]) : n \in job[p].batch \ batch \/ n = job[p].sending => n \in delivered'
  PROVE  Rem!IInv'
<1>. DEFINE r == job[p]
<1>1. r \in Rem!Job
  BY DEF Rem!IInv, Rem!TypeOK
<1>2. /\ q \in Rem!Job /\ q.phase = r.phase /\ q.now = r.now /\ q.todo = r.todo /\ q.batch = batch
      /\ q.sending = None /\ q.clean = clean
  <2>. HIDE DEF r
  <2>1. batch \in SUBSET Rem!Notice
    BY <1>1, JobShape DEF r
  <2>2. q = Rem!Sent(r, batch, clean)
    BY DEF r
  <2>. HIDE DEF r
  <2>. QED  BY <1>1, <2>1, <2>2 DEF Rem!Sent, Rem!Tick, Rem!Job
<1>3. r.phase = "due" => r.todo \subseteq Users \X Rem!Windows
  BY DEF Rem!IInv
<1>4. ASSUME clean PROVE Rem!Listed(q)'
  <2>1. Rem!Listed(r) /\ Rem!Wanted(q) = Rem!Wanted(r)
    BY <1>2, <1>4, WantedGoesOn DEF Rem!IInv
  <2>2. Rem!Wanted(q)' = Rem!Wanted(q)
    BY WantedStays
  <2>3. \A n \in Rem!Wanted(q) : n \in batch \/ n \in delivered'
    BY <1>4, <2>1 DEF Rem!Listed
  <2>. QED  BY <1>2, <1>4, <2>2, <2>3 DEF Rem!Listed
<1>. QED  BY <1>2, <1>3, <1>4, TickMoves

LEMMA ReminderDecides ==
  ASSUME Rem!IInv, NEW p \in Twins, Rem!Decide(p)
  PROVE  Rem!IInv'
<1>. DEFINE q == job[p]
            rest(n) == q.batch \ {n}
            held(n) == Rem!Sending(q, rest(n), n, Rem!Emails(n.user, n.rule), FALSE, q.clean)
<1>1. /\ q \in Rem!Job /\ q.sending = None /\ UNCHANGED <<Rem!tables, mails>>
      /\ UNCHANGED <<day, due, rule, delivered, edits, mails>>
  BY DEF Rem!IInv, Rem!TypeOK, Rem!Decide, Rem!tables
<1>2. PICK n \in q.batch :
        \/ Rem!Goto(p, held(n))
        \/ ~Rem!Sends(n.user, n.rule) /\ Rem!Goto(p, Rem!Sent(q, rest(n), q.clean))
        \/ Rem!Goto(p, Rem!Sent(q, rest(n), FALSE))
  BY DEF Rem!Decide
<1>3. n \in Rem!Notice /\ rest(n) \in SUBSET q.batch /\ rest(n) \in SUBSET Rem!Notice /\ q.clean \in BOOLEAN
  BY <1>1, JobShape
<1>4. CASE Rem!Goto(p, held(n))
  <2>. DEFINE email == Rem!Emails(n.user, n.rule)
              batch == rest(n)
              clean == q.clean
              r == Rem!Sending(q, batch, n, email, FALSE, clean)
  <2>0. email \in BOOLEAN
    BY DEF Rem!Emails
  <2>1. Rem!Goto(p, r)
    BY <1>4
  <2>. HIDE DEF email, batch, clean, q
  <2>2. /\ r \in Rem!Job /\ r.phase = q.phase /\ r.now = q.now /\ r.todo = q.todo /\ r.batch = batch
        /\ r.sending = n /\ r.recorded = FALSE /\ r.clean = clean
    BY <1>1, <1>3, <2>0 DEF Rem!Sending, Rem!Job, batch, clean
  <2>. HIDE DEF r
  <2>3. ASSUME clean PROVE Rem!Listed(r)
    <3>1. Rem!Listed(q) /\ Rem!Wanted(r) = Rem!Wanted(q)
      BY <2>2, <2>3, WantedGoesOn DEF Rem!IInv, clean, q
    <3>2. \A m \in Rem!Wanted(q) : m # None
      BY <1>1, WantedAllowed DEF Rem!IInv
    <3>. QED  BY <1>1, <2>2, <3>1, <3>2 DEF Rem!Listed, batch
  <2>4. r.phase = "due" => r.todo \subseteq Users \X Rem!Windows
    BY <2>2 DEF Rem!IInv, q
  <2>. QED  BY <1>1, <2>1, <2>2, <2>3, <2>4, TickReads
<1>5. ASSUME NEW clean \in BOOLEAN, Rem!Goto(p, Rem!Sent(q, rest(n), clean)),
             clean => q.clean /\ ~Rem!Sends(n.user, n.rule)
      PROVE  Rem!IInv'
  <2>1. Rem!RecordedOnce'
    <3>1. q.batch \in SUBSET Rem!Notice /\ Rem!Sent(q, rest(n), clean) \in Rem!Job
          /\ Rem!Sent(q, rest(n), clean).recorded = FALSE
      BY <1>1, <1>3, SentIsJob, JobShape
    <3>2. \A k \in Twins : job'[k].recorded => job'[k] = job[k]
      BY <1>5, <3>1, JobMoves
    <3>. QED  BY <1>1, <3>2, RecordedStays DEF Rem!IInv
  <2>2. /\ delivered' \subseteq Rem!Notice /\ Rem!IsABag(mails') /\ Rem!BagToSet(mails') \subseteq Rem!Notice
    BY <1>1 DEF Rem!IInv, Rem!TypeOK
  <2>3. ASSUME clean, NEW m \in Rem!Wanted(q), m \in q.batch \ rest(n) \/ m = q.sending PROVE m \in delivered'
    <3>1. m # None /\ Rem!Sends(m.user, m.rule)
      BY <1>1, <2>3, WantedAllowed DEF Rem!IInv
    <3>. QED  BY <1>1, <1>5, <2>3, <3>1
  <2>. HIDE DEF q, rest
  <2>4. rest(n) \in SUBSET q.batch /\ Rem!Goto(p, Rem!Sent(q, rest(n), clean))
    BY <1>3, <1>5
  <2>. QED  BY <1>1, <1>5, <2>1, <2>2, <2>3, <2>4, TickSent DEF q
<1>. QED  BY <1>2, <1>3, <1>4, <1>5

(* The row of delivered that a process inserts is its own.                 *)
LEMMA ReminderRecords ==
  ASSUME Rem!IInv, NEW p \in Twins, Rem!Record(p)
  PROVE  Rem!IInv'
<1>. DEFINE q == job[p]
            n == q.sending
<1>1. /\ q \in Rem!Job /\ n \in Rem!Notice /\ q.recorded = FALSE /\ q.batch \in SUBSET Rem!Notice
      /\ q.clean \in BOOLEAN /\ q.email \in BOOLEAN
      /\ UNCHANGED <<day, due, rule, edits, mails>>
  BY JobShape DEF Rem!IInv, Rem!TypeOK, Rem!Record
<1>2. /\ Rem!IsABag(mails') /\ Rem!BagToSet(mails') \subseteq Rem!Notice
      /\ Rem!BagToSet(mails)' = Rem!BagToSet(mails)
  BY <1>1 DEF Rem!IInv, Rem!TypeOK, Rem!BagToSet
<1>3. ASSUME NEW clean \in BOOLEAN, Rem!Goto(p, Rem!Sent(q, q.batch, clean)),
             delivered \subseteq delivered', delivered' \subseteq Rem!Notice,
             clean => q.clean /\ n \in delivered'
      PROVE  Rem!IInv'
  <2>1. Rem!RecordedOnce'
    <3>1. Rem!Sent(q, q.batch, clean) \in Rem!Job /\ Rem!Sent(q, q.batch, clean).recorded = FALSE
      <4>. HIDE DEF q
      <4>. QED  BY <1>1, <1>3 DEF Rem!Sent, Rem!Tick, Rem!Job
    <3>2. \A k \in Twins : job'[k].recorded => job'[k] = job[k]
      BY <1>3, <3>1, JobMoves
    <3>. QED  BY <1>1, <1>3, <3>2, RecordedStays DEF Rem!IInv
  <2>2. q.batch \in SUBSET q.batch /\ \A m : m \notin q.batch \ q.batch
    OBVIOUS
  <2>. QED  BY <1>1, <1>2, <1>3, <2>1, <2>2, TickSent
<1>4. CASE Rem!Goto(p, Rem!Sent(q, q.batch, FALSE)) /\ UNCHANGED delivered
  BY <1>3, <1>4 DEF Rem!IInv, Rem!TypeOK
<1>5. CASE n \in delivered /\ Rem!Goto(p, Rem!Sent(q, q.batch, q.clean)) /\ UNCHANGED delivered
  BY <1>1, <1>3, <1>5 DEF Rem!IInv, Rem!TypeOK
<1>6. CASE n \notin delivered /\ delivered' = delivered \cup {n} /\ Rem!Go(p)
  <2>1. delivered \subseteq delivered' /\ delivered' \subseteq Rem!Notice /\ n \in delivered'
    BY <1>1, <1>6 DEF Rem!IInv, Rem!TypeOK
  <2>2. CASE q.email = FALSE
    BY <1>1, <1>3, <1>6, <2>1, <2>2 DEF Rem!Go
  <2>3. CASE q.email = TRUE
    <3>. DEFINE r == Rem!Sending(q, q.batch, n, TRUE, TRUE, q.clean)
    <3>1. Rem!Goto(p, r)
      BY <1>6, <2>3 DEF Rem!Go
    <3>. HIDE DEF q, n
    <3>2. /\ r \in Rem!Job /\ r.phase = q.phase /\ r.now = q.now /\ r.todo = q.todo /\ r.batch = q.batch
          /\ r.sending = n /\ r.recorded = TRUE /\ r.clean = q.clean
      BY <1>1 DEF Rem!Sending, Rem!Job
    <3>. HIDE DEF r
    <3>3. job'[p] = r /\ \A k \in Twins \ {p} : job'[k] = job[k]
      BY <3>1, <3>2, JobMoves
    <3>4. Rem!RecordedOnce'
      <4>1. n \notin Rem!BagToSet(mails)
        BY <1>6 DEF Rem!IInv, Rem!RecordedOnce
      <4>2. \A k \in Twins \ {p} : job[k].recorded => job[k].sending # n
        BY <1>6 DEF Rem!IInv, Rem!RecordedOnce
      <4>3. \A m \in Rem!BagToSet(mails) : m \in delivered' /\ mails'[m] = 1
        BY <1>1, <2>1 DEF Rem!IInv, Rem!RecordedOnce
      <4>4. \A k \in Twins : job'[k].recorded =>
              job'[k].sending \in delivered' /\ job'[k].sending \notin Rem!BagToSet(mails)
        <5>. TAKE k \in Twins
        <5>1. CASE k = p
          BY <2>1, <3>2, <3>3, <4>1, <5>1
        <5>2. CASE k # p
          BY <2>1, <3>3, <5>2 DEF Rem!IInv, Rem!RecordedOnce
        <5>. QED  BY <5>1, <5>2
      <4>5. \A j, k \in Twins : job'[j].recorded /\ job'[k].recorded /\ job'[j].sending = job'[k].sending => j = k
        <5>. TAKE j, k \in Twins
        <5>1. CASE j = p \/ k = p
          BY <3>2, <3>3, <4>2, <5>1
        <5>2. CASE j # p /\ k # p
          BY <3>3, <5>2 DEF Rem!IInv, Rem!RecordedOnce
        <5>. QED  BY <5>1, <5>2
      <4>. QED  BY <1>2, <4>3, <4>4, <4>5 DEF Rem!RecordedOnce
    <3>5. ASSUME NEW e, e = r, e.clean PROVE Rem!Listed(e)'
      <4>1. Rem!Listed(q) /\ Rem!Wanted(e) = Rem!Wanted(q)
        BY <3>2, <3>5, WantedGoesOn DEF Rem!IInv, q
      <4>2. Rem!Wanted(e)' = Rem!Wanted(e)
        BY <1>1, WantedStays
      <4>3. \A m \in Rem!Wanted(e) : m \in q.batch \/ m = n \/ m \in delivered'
        BY <2>1, <4>1 DEF Rem!Listed, n
      <4>. QED  BY <3>2, <3>5, <4>2, <4>3 DEF Rem!Listed
    <3>6. r.phase = "due" => r.todo \subseteq Users \X Rem!Windows
      BY <3>2 DEF Rem!IInv, q
    <3>7. PICK e : e = r
      OBVIOUS
    <3>8. e \in Rem!Job /\ Rem!Goto(p, e) /\ (e.phase = "due" => e.todo \subseteq Users \X Rem!Windows)
      BY <3>1, <3>2, <3>6, <3>7
    <3>9. e.clean => Rem!Listed(e)'
      BY <3>5, <3>7
    <3>. QED  BY <1>1, <1>2, <2>1, <3>4, <3>8, <3>9, TickMoves
  <2>. QED  BY <1>1, <2>2, <2>3
<1>. QED  BY <1>4, <1>5, <1>6 DEF Rem!Record

LEMMA ReminderMails ==
  ASSUME Rem!IInv, NEW p \in Twins, Rem!Mail(p)
  PROVE  Rem!IInv'
<1>. DEFINE q == job[p]
            n == q.sending
<1>1. /\ q \in Rem!Job /\ q.recorded /\ q.batch \in SUBSET Rem!Notice /\ q.clean \in BOOLEAN
      /\ UNCHANGED <<day, due, rule, delivered, edits>>
      /\ delivered' \subseteq Rem!Notice
  BY JobShape DEF Rem!IInv, Rem!TypeOK, Rem!Mail, Rem!tables
<1>2. /\ n \in delivered /\ n \in Rem!Notice /\ n \notin Rem!BagToSet(mails)
      /\ \A k \in Twins \ {p} : job[k].recorded => job[k].sending # n
      /\ Rem!IsABag(mails) /\ Rem!BagToSet(mails) \subseteq Rem!Notice
  BY <1>1 DEF Rem!IInv, Rem!RecordedOnce, Rem!TypeOK
<1>3. ASSUME NEW clean \in BOOLEAN, Rem!Goto(p, Rem!Sent(q, q.batch, clean)), clean => q.clean,
             Rem!IsABag(mails'), Rem!BagToSet(mails') \subseteq Rem!Notice,
             Rem!BagToSet(mails') \subseteq Rem!BagToSet(mails) \cup {n},
             \A m \in Rem!BagToSet(mails') : mails'[m] = 1
      PROVE  Rem!IInv'
  <2>1. Rem!RecordedOnce'
    <3>1. Rem!Sent(q, q.batch, clean) \in Rem!Job /\ Rem!Sent(q, q.batch, clean).recorded = FALSE
      BY <1>1, SentIsJob
    <3>2. \A k \in Twins : job'[k].recorded => k # p /\ job'[k] = job[k]
      BY <1>3, <3>1, JobMoves
    <3>3. \A m \in Rem!BagToSet(mails') : m \in delivered' /\ mails'[m] = 1
      BY <1>1, <1>2, <1>3 DEF Rem!IInv, Rem!RecordedOnce
    <3>. HIDE DEF n
    <3>4. \A k \in Twins : job'[k].recorded =>
            job'[k].sending \in delivered' /\ job'[k].sending \notin Rem!BagToSet(mails')
      <4>. SUFFICES ASSUME NEW k \in Twins, job'[k].recorded
                    PROVE  job'[k].sending \in delivered' /\ job'[k].sending \notin Rem!BagToSet(mails')
        OBVIOUS
      <4>1. k # p /\ job'[k] = job[k] /\ job[k].recorded
        BY <3>2
      <4>2. job[k].sending \in delivered /\ job[k].sending \notin Rem!BagToSet(mails) /\ job[k].sending # n
        BY <1>2, <4>1 DEF Rem!IInv, Rem!RecordedOnce
      <4>. QED  BY <1>1, <1>3, <4>1, <4>2
    <3>5. \A j, k \in Twins : job'[j].recorded /\ job'[k].recorded /\ job'[j].sending = job'[k].sending => j = k
      BY <3>2 DEF Rem!IInv, Rem!RecordedOnce
    <3>6. Rem!BagToSet(mails)' = Rem!BagToSet(mails')
      BY DEF Rem!BagToSet
    <3>. QED  BY <3>3, <3>4, <3>5, <3>6 DEF Rem!RecordedOnce
  <2>2. q.batch \in SUBSET q.batch /\ \A m : m \notin q.batch \ q.batch
    OBVIOUS
  <2>. QED  BY <1>1, <1>2, <1>3, <2>1, <2>2, TickSent
<1>4. CASE Rem!Goto(p, Rem!Sent(q, q.batch, FALSE)) /\ UNCHANGED mails
  <2>1. \A m \in Rem!BagToSet(mails) : mails'[m] = 1
    BY <1>4 DEF Rem!IInv, Rem!RecordedOnce
  <2>2. mails' = mails
    BY <1>4
  <2>. QED  BY <1>2, <1>3, <1>4, <2>1, <2>2
<1>5. CASE mails' = Rem!(+)(mails, Rem!SetToBag({n})) /\ Rem!Goto(p, Rem!Sent(q, q.batch, q.clean))
  <2>1. mails' = Rem!(+)(mails, Rem!SetToBag({n}))
    BY <1>5
  <2>. HIDE DEF n
  <2>2. /\ Rem!IsABag(mails') /\ Rem!BagToSet(mails') = Rem!BagToSet(mails) \cup {n}
        /\ mails'[n] = 1 /\ \A x \in Rem!BagToSet(mails) : mails'[x] = mails[x]
    BY <1>2, <2>1 DEF Rem!(+), Rem!SetToBag, Rem!IsABag, Rem!BagToSet
  <2>3. \A m \in Rem!BagToSet(mails') : mails'[m] = 1
    BY <2>2 DEF Rem!IInv, Rem!RecordedOnce
  <2>. QED  BY <1>1, <1>2, <1>3, <1>5, <2>2, <2>3
<1>. QED  BY <1>4, <1>5 DEF Rem!Mail

(* Users change their settings and pay while ticks go on.                  *)
LEMMA EditMoves ==
  ASSUME Rem!IInv, Rem!Edit, due' \in [Items -> Rem!Days \cup {None}],
         rule' \in [Users -> [Rem!RuleKeys -> Rem!RuleRow \cup {None}]]
  PROVE  Rem!IInv'
<1>1. /\ edits' \in 0 .. MaxEdits /\ UNCHANGED <<day, delivered, mails>>
  BY RemConstants DEF Rem!Edit, Rem!IInv, Rem!TypeOK
<1>2. ASSUME NEW p \in Twins
      PROVE  /\ job'[p] \in Rem!Job /\ job'[p].phase = job[p].phase /\ job'[p].todo = job[p].todo
             /\ job'[p].sending = job[p].sending /\ job'[p].recorded = job[p].recorded
             /\ job'[p].clean = FALSE
  <2>1. PICK r : r = job[p]
    OBVIOUS
  <2>2. r \in Rem!Job /\ job'[p] = Rem!Sending(r, r.batch, r.sending, r.email, r.recorded, FALSE)
    BY <2>1 DEF Rem!IInv, Rem!TypeOK, Rem!Edit
  <2>. QED  BY <2>1, <2>2 DEF Rem!Sending, Rem!Job
<1>3. job' \in [Twins -> Rem!Job]
  <2>1. DOMAIN job' = Twins /\ job' = [p \in Twins |-> job'[p]]
    BY DEF Rem!Edit
  <2>. QED  BY <1>2, <2>1
<1>4. Rem!TypeOK'
  BY <1>1, <1>3 DEF Rem!IInv, Rem!TypeOK, Rem!IsABag, Rem!BagToSet
<1>5. Rem!RecordedOnce'
  BY <1>1, <1>2, RecordedStays DEF Rem!IInv
<1>. QED  BY <1>2, <1>4, <1>5 DEF Rem!IInv

LEMMA DueIsSet ==
  ASSUME Rem!IInv, NEW i \in Items, NEW d \in Rem!Days \cup {None}, Rem!SetDue(i, d)
  PROVE  Rem!IInv'
BY EditMoves DEF Rem!SetDue, Rem!IInv, Rem!TypeOK

LEMMA SettingsAreOpened ==
  ASSUME Rem!IInv, NEW u \in Users, Rem!OpenSettings(u)
  PROVE  Rem!IInv'
<1>1. rule \in [Users -> [Rem!RuleKeys -> Rem!RuleRow \cup {None}]] /\ due' = due
  BY DEF Rem!OpenSettings, Rem!IInv, Rem!TypeOK
<1>. DEFINE row == [k \in Rem!RuleKeys |-> IF rule[u][k] = None THEN Rem!Default[k] ELSE rule[u][k]]
<1>2. row \in [Rem!RuleKeys -> Rem!RuleRow \cup {None}]
  <2>1. \A k \in Rem!RuleKeys : Rem!Default[k] \in Rem!RuleRow
    BY DEF Rem!Default, Rem!RuleKeys, Rem!RuleRow, Rem!Channels
  <2>. QED  BY <1>1, <2>1
<1>3. rule' = [rule EXCEPT ![u] = row]
  BY DEF Rem!OpenSettings
<1>. HIDE DEF row
<1>4. rule' \in [Users -> [Rem!RuleKeys -> Rem!RuleRow \cup {None}]]
  BY <1>1, <1>2, <1>3
<1>. QED  BY <1>1, <1>4, EditMoves DEF Rem!OpenSettings, Rem!IInv, Rem!TypeOK

LEMMA RuleIsUpdated ==
  ASSUME Rem!IInv, NEW u \in Users, NEW k \in Rem!RuleKeys, NEW e \in BOOLEAN \cup {None},
         NEW c \in Rem!Channels \cup {None}, Rem!UpdateRule(u, k, e, c)
  PROVE  Rem!IInv'
<1>1. /\ rule \in [Users -> [Rem!RuleKeys -> Rem!RuleRow \cup {None}]] /\ due' = due
      /\ rule[u][k] \in Rem!RuleRow
  BY DEF Rem!UpdateRule, Rem!IInv, Rem!TypeOK
<1>. DEFINE old == rule[u][k]
            row == [enabled |-> IF e = None THEN old.enabled ELSE e,
                    channel |-> IF c = None THEN old.channel ELSE c]
<1>2. rule' = [rule EXCEPT ![u][k] = row]
  BY DEF Rem!UpdateRule
<1>3. row \in Rem!RuleRow
  <2>1. old.enabled \in BOOLEAN /\ old.channel \in Rem!Channels
    BY <1>1 DEF Rem!RuleRow
  <2>2. (IF e = None THEN old.enabled ELSE e) \in BOOLEAN
    BY <2>1
  <2>3. (IF c = None THEN old.channel ELSE c) \in Rem!Channels
    BY <2>1
  <2>. QED  BY <2>2, <2>3 DEF Rem!RuleRow
<1>. HIDE DEF row, old
<1>4. rule' \in [Users -> [Rem!RuleKeys -> Rem!RuleRow \cup {None}]]
  BY <1>1, <1>2, <1>3
<1>. QED  BY <1>1, <1>4, EditMoves DEF Rem!UpdateRule, Rem!IInv, Rem!TypeOK

LEMMA NothingIsRead ==
  ASSUME Rem!IInv, UNCHANGED <<due, rule, delivered, mails, job, edits>>, day' \in Rem!Days
  PROVE  Rem!IInv'
<1>1. Rem!TypeOK'
  BY DEF Rem!IInv, Rem!TypeOK, Rem!IsABag, Rem!BagToSet
<1>2. Rem!RecordedOnce'
  BY RecordedStays DEF Rem!IInv
<1>3. ASSUME NEW p \in Twins, job'[p].clean PROVE Rem!Listed(job[p])'
  <2>. SUFFICES ASSUME NEW r, r = job'[p] PROVE Rem!Listed(r)'
    BY DEF Rem!Listed, Rem!Wanted
  <2>1. r = job[p] /\ Rem!Listed(job[p])
    BY <1>3 DEF Rem!IInv
  <2>2. Rem!Listed(r)
    BY <2>1
  <2>. QED  BY <2>2, ListedStays
<1>. QED  BY <1>1, <1>2, <1>3 DEF Rem!IInv

LEMMA DayPasses ==
  ASSUME Rem!IInv, Rem!NextDay
  PROVE  Rem!IInv'
<1>1. day' \in Rem!Days
  BY RemConstants DEF Rem!IInv, Rem!TypeOK, Rem!NextDay, Rem!Days
<1>. QED  BY <1>1, NothingIsRead DEF Rem!NextDay

LEMMA ReminderNext == Rem!IInv /\ Rem!Next => Rem!IInv'
BY ReminderListsUsers, ReminderReadsItems, SummaryListsUsers, SummaryReadsWeek, TickEnds, ReminderDecides,
   ReminderRecords, ReminderMails, DueIsSet, SettingsAreOpened, RuleIsUpdated, DayPasses DEF Rem!Next

LEMMA ReminderUnchanged == Rem!IInv /\ UNCHANGED remindersVars => Rem!IInv'
BY NothingIsRead DEF remindersVars, Rem!IInv, Rem!TypeOK

LEMMA ReminderSafe == Rem!IInv => Rem!MailedOnce /\ Rem!DueItemsNoticed
<1>. SUFFICES ASSUME Rem!IInv PROVE Rem!MailedOnce /\ Rem!DueItemsNoticed
  OBVIOUS
<1>1. Rem!MailedOnce
  BY DEF Rem!MailedOnce, Rem!IInv, Rem!RecordedOnce
<1>2. ASSUME NEW p \in Twins, job[p].clean, Rem!Drained(p), NEW n \in Rem!Wanted(job[p])
      PROVE  n \in delivered
  <2>1. Rem!Listed(job[p]) /\ n # None
    BY <1>2, WantedAllowed DEF Rem!IInv, Rem!TypeOK
  <2>. QED  BY <1>2, <2>1 DEF Rem!Listed, Rem!Drained
<1>3. ASSUME NEW p \in Twins, job[p].clean, Rem!Drained(p), job[p].phase = "due",
             NEW u \in Rem!RuleOwners("due-reminder"), NEW a \in Rem!Windows,
             NEW i \in Items, UserOf[i] = u, due[i] = job[p].now + a
      PROVE  \E n \in delivered : /\ n.rule = "due-reminder" /\ n.item = i
                                  /\ n.ahead = a /\ n.date = due[i]
  <2>. DEFINE n == Rem!Reminder(i, a, job[p].now + a)
  <2>1. n \in Rem!DueItems(u, job[p].now, a)
    BY <1>3 DEF Rem!DueItems
  <2>2. n.rule = "due-reminder" /\ n.item = i /\ n.ahead = a /\ n.date = due[i]
    BY <1>3 DEF Rem!Reminder
  <2>. HIDE DEF n
  <2>3. n \in Rem!Wanted(job[p])
    <3>1. <<u, a>> \in (Rem!RuleOwners("due-reminder") \X Rem!Windows) \ job[p].todo
      BY <1>3 DEF Rem!Drained
    <3>. QED  BY <1>3, <2>1, <3>1 DEF Rem!Wanted
  <2>. QED  BY <1>2, <1>3, <2>2, <2>3
<1>4. ASSUME NEW p \in Twins, job[p].clean, Rem!Drained(p), job[p].phase = "weekly",
             NEW u \in Rem!RuleOwners("weekly-summary")
      PROVE  Rem!Summary(u, Rem!PreviousWeek(job[p].now)) \in delivered
  <2>1. Rem!Summary(u, Rem!PreviousWeek(job[p].now)) \in Rem!Wanted(job[p])
    BY <1>4 DEF Rem!Wanted, Rem!Drained
  <2>. QED  BY <1>2, <1>4, <2>1
<1>5. Rem!DueItemsNoticed
  BY <1>3, <1>4 DEF Rem!DueItemsNoticed
<1>. QED  BY <1>1, <1>5

(***************************************************************************)
(* Goals and the deletion of accounts.                                     *)
(***************************************************************************)

LEMMA AccountConstants ==
  /\ OwnerOf \in [Wallets -> Users] /\ None \notin Goals /\ None \notin Wallets /\ None \notin Users
  /\ None \notin {"cash", "pending", "joined", "rejected"} /\ None \notin Nat
  /\ None \notin Acc!Entry /\ None \notin Acc!Debt /\ "cash" \notin Goals /\ IsFiniteSet(Wallets)
BY PartsAssumption DEF Acc!AccountsConstants, Acc!IsFiniteSet, IsFiniteSet

LEMMA AccountInit == Acc!Init => Acc!IInv
BY AccountConstants
   DEF Acc!Init, Acc!IInv, Acc!TypeOK, Acc!DebtsFit, Acc!OpenDebts, Acc!GoalRows, Acc!GoalWallets, Acc!AccountRows

(* What a step leaves alone stays in order.                                *)
LEMMA DebtsStay ==
  ASSUME Acc!DebtsFit, UNCHANGED <<entry, debt, edited>>
  PROVE  Acc!DebtsFit'
BY DEF Acc!DebtsFit, Acc!OpenDebts, Acc!OpenEntries

LEMMA GoalsStay ==
  ASSUME Acc!GoalRows, Acc!GoalWallets, Acc!AccountRows, UNCHANGED <<alive, wallet, goal, member>>
  PROVE  Acc!GoalRows' /\ Acc!GoalWallets' /\ Acc!AccountRows'
BY DEF Acc!GoalRows, Acc!GoalWallets, Acc!AccountRows

(* A wallet that belongs to no goal appears or goes.                       *)
LEMMA CashWallets ==
  ASSUME Acc!IInv, NEW w \in Wallets, NEW x \in {"cash", None}, wallet[w] \notin Goals,
         wallet' = [wallet EXCEPT ![w] = x], alive \subseteq alive', x = "cash" => OwnerOf[w] \in alive',
         UNCHANGED <<goal, member>>
  PROVE  /\ Acc!GoalRows' /\ Acc!GoalWallets' /\ Acc!AccountRows'
         /\ wallet' \in [Wallets -> Goals \cup {"cash", None}]
<1>1. /\ wallet \in [Wallets -> Goals \cup {"cash", None}] /\ x \notin Goals
      /\ \A v \in Wallets \ {w} : wallet'[v] = wallet[v]
      /\ wallet'[w] = x /\ wallet' \in [Wallets -> Goals \cup {"cash", None}]
  BY AccountConstants DEF Acc!IInv, Acc!TypeOK
<1>2. Acc!GoalRows'
  BY DEF Acc!IInv, Acc!GoalRows
<1>3. Acc!GoalWallets'
  <2>1. \A v \in Wallets : wallet'[v] \in Goals => wallet'[v] = wallet[v]
    BY <1>1
  <2>2. \A g \in Goals, u \in Users : member'[<<g, u>>] = "joined" =>
          \E v \in Wallets : OwnerOf[v] = u /\ wallet'[v] = g
    BY <1>1 DEF Acc!IInv, Acc!GoalWallets
  <2>3. \A v \in Wallets : wallet'[v] \in Goals => member'[<<wallet'[v], OwnerOf[v]>>] = "joined"
    BY <2>1 DEF Acc!IInv, Acc!GoalWallets
  <2>4. \A u, v \in Wallets : wallet'[v] \in Goals /\ wallet'[u] = wallet'[v] /\ OwnerOf[u] = OwnerOf[v] => u = v
    BY <2>1 DEF Acc!IInv, Acc!GoalWallets
  <2>. QED  BY <2>2, <2>3, <2>4 DEF Acc!GoalWallets
<1>4. Acc!AccountRows'
  BY <1>1 DEF Acc!IInv, Acc!AccountRows
<1>. QED  BY <1>1, <1>2, <1>3, <1>4

LEMMA AccountRegisters ==
  ASSUME Acc!IInv, NEW w \in Wallets, Acc!Register(w)
  PROVE  Acc!IInv'
<1>1. /\ UNCHANGED <<goal, member, shares, entry, debt, standing, edited>>
      /\ wallet[w] = None /\ OwnerOf[w] \in Users
      /\ alive' = alive \cup {OwnerOf[w]} /\ wallet' = [wallet EXCEPT ![w] = "cash"]
  BY AccountConstants DEF Acc!Register, Acc!goals, Acc!rows, Acc!IInv, Acc!AccountRows
<1>2. wallet[w] \notin Goals
  BY <1>1, AccountConstants
<1>3. /\ Acc!GoalRows' /\ Acc!GoalWallets' /\ Acc!AccountRows'
      /\ wallet' \in [Wallets -> Goals \cup {"cash", None}]
  BY <1>1, <1>2, CashWallets
<1>4. Acc!TypeOK' /\ Acc!DebtsFit'
  BY <1>1, <1>3, DebtsStay DEF Acc!IInv, Acc!TypeOK
<1>. QED  BY <1>3, <1>4 DEF Acc!IInv

LEMMA WalletIsCreated ==
  ASSUME Acc!IInv, NEW w \in Wallets, Acc!CreateWallet(w)
  PROVE  Acc!IInv'
<1>1. /\ UNCHANGED <<alive, goal, member, shares, entry, debt, standing, edited>>
      /\ wallet[w] = None /\ OwnerOf[w] \in alive /\ wallet' = [wallet EXCEPT ![w] = "cash"]
  BY DEF Acc!CreateWallet, Acc!goals, Acc!rows
<1>2. wallet[w] \notin Goals
  BY <1>1, AccountConstants
<1>3. /\ Acc!GoalRows' /\ Acc!GoalWallets' /\ Acc!AccountRows'
      /\ wallet' \in [Wallets -> Goals \cup {"cash", None}]
  BY <1>1, <1>2, CashWallets
<1>4. Acc!TypeOK' /\ Acc!DebtsFit'
  BY <1>1, <1>3, DebtsStay DEF Acc!IInv, Acc!TypeOK
<1>. QED  BY <1>3, <1>4 DEF Acc!IInv

LEMMA WalletIsDeleted ==
  ASSUME Acc!IInv, NEW w \in Wallets, Acc!DeleteWallet(w)
  PROVE  Acc!IInv'
<1>1. /\ UNCHANGED <<alive, goal, member, entry, debt, standing, edited>>
      /\ wallet[w] = "cash" /\ wallet' = [wallet EXCEPT ![w] = None]
      /\ shares' \subseteq shares
  BY DEF Acc!DeleteWallet, Acc!goals, Acc!rows
<1>2. wallet[w] \notin Goals /\ None # "cash"
  BY <1>1, AccountConstants
<1>3. /\ Acc!GoalRows' /\ Acc!GoalWallets' /\ Acc!AccountRows'
      /\ wallet' \in [Wallets -> Goals \cup {"cash", None}]
  BY <1>1, <1>2, CashWallets
<1>4. Acc!TypeOK' /\ Acc!DebtsFit'
  BY <1>1, <1>3, DebtsStay DEF Acc!IInv, Acc!TypeOK
<1>. QED  BY <1>3, <1>4 DEF Acc!IInv

LEMMA WalletIsShared ==
  ASSUME Acc!IInv, NEW w \in Wallets, NEW u \in Users, Acc!JoinWallet(w, u) \/ Acc!LeaveWallet(w, u)
  PROVE  Acc!IInv'
<1>1. /\ UNCHANGED <<alive, wallet, goal, member, entry, debt, standing, edited>>
      /\ shares' \subseteq Wallets \X Users
  BY DEF Acc!JoinWallet, Acc!LeaveWallet, Acc!goals, Acc!rows, Acc!IInv, Acc!TypeOK
<1>. QED  BY <1>1, DebtsStay, GoalsStay DEF Acc!IInv, Acc!TypeOK

(* A joined membership appears together with its wallet.                   *)
LEMMA GoalWalletAppears ==
  ASSUME Acc!IInv, NEW w \in Wallets, NEW g \in Goals, wallet[w] = None, OwnerOf[w] \in alive,
         \A v \in Wallets : wallet[v] = g => OwnerOf[v] # OwnerOf[w],
         wallet' = [wallet EXCEPT ![w] = g],
         member' = [member EXCEPT ![<<g, OwnerOf[w]>>] = "joined"],
         UNCHANGED alive
  PROVE  /\ Acc!GoalWallets' /\ Acc!AccountRows'
         /\ wallet' \in [Wallets -> Goals \cup {"cash", None}]
         /\ member' \in [Goals \X Users -> {"pending", "joined", "rejected", None}]
<1>1. /\ wallet \in [Wallets -> Goals \cup {"cash", None}] /\ None \notin Goals
      /\ member \in [Goals \X Users -> {"pending", "joined", "rejected", None}]
      /\ OwnerOf \in [Wallets -> Users] /\ <<g, OwnerOf[w]>> \in Goals \X Users
  BY AccountConstants DEF Acc!IInv, Acc!TypeOK
<1>2. /\ \A v \in Wallets \ {w} : wallet'[v] = wallet[v]
      /\ wallet'[w] = g /\ wallet' \in [Wallets -> Goals \cup {"cash", None}]
  BY <1>1
<1>3. /\ \A m \in Goals \X Users : m # <<g, OwnerOf[w]>> => member'[m] = member[m]
      /\ member'[<<g, OwnerOf[w]>>] = "joined"
      /\ member' \in [Goals \X Users -> {"pending", "joined", "rejected", None}]
  BY <1>1
<1>4. Acc!AccountRows'
  <2>1. \A v \in Wallets : wallet'[v] # None => OwnerOf[v] \in alive'
    BY <1>2 DEF Acc!IInv, Acc!AccountRows
  <2>2. \A m \in Goals \X Users : member'[m] # None => m[2] \in alive'
    BY <1>3 DEF Acc!IInv, Acc!AccountRows
  <2>. QED  BY <2>1, <2>2 DEF Acc!AccountRows
<1>5. Acc!GoalWallets'
  <2>1. ASSUME NEW v \in Wallets, wallet'[v] \in Goals
        PROVE  member'[<<wallet'[v], OwnerOf[v]>>] = "joined"
    <3>1. <<wallet'[v], OwnerOf[v]>> \in Goals \X Users
      BY <2>1, <1>1
    <3>2. CASE v = w
      BY <3>2, <1>2, <1>3
    <3>3. CASE v # w
      BY <3>1, <3>3, <2>1, <1>2, <1>3 DEF Acc!IInv, Acc!GoalWallets
    <3>. QED  BY <3>2, <3>3
  <2>2. ASSUME NEW u \in Wallets, NEW v \in Wallets,
               wallet'[v] \in Goals, wallet'[u] = wallet'[v], OwnerOf[u] = OwnerOf[v]
        PROVE  u = v
    <3>1. CASE u # w /\ v # w
      BY <3>1, <2>2, <1>2 DEF Acc!IInv, Acc!GoalWallets
    <3>2. CASE u = w \/ v = w
      BY <3>2, <2>2, <1>2
    <3>. QED  BY <3>1, <3>2
  <2>3. ASSUME NEW h \in Goals, NEW u \in Users, member'[<<h, u>>] = "joined"
        PROVE  \E v \in Wallets : OwnerOf[v] = u /\ wallet'[v] = h
    <3>1. CASE <<h, u>> = <<g, OwnerOf[w]>>
      BY <3>1, <1>2
    <3>2. CASE <<h, u>> # <<g, OwnerOf[w]>>
      <4>1. member[<<h, u>>] = "joined"
        BY <3>2, <2>3, <1>3
      <4>2. PICK v \in Wallets : OwnerOf[v] = u /\ wallet[v] = h
        BY <4>1 DEF Acc!IInv, Acc!GoalWallets
      <4>. QED  BY <4>2, <1>1, <1>2
    <3>. QED  BY <3>1, <3>2
  <2>. QED  BY <2>1, <2>2, <2>3 DEF Acc!GoalWallets
<1>. QED  BY <1>2, <1>3, <1>4, <1>5

LEMMA GoalIsCreated ==
  ASSUME Acc!IInv, NEW g \in Goals, NEW w \in Wallets, Acc!CreateGoal(g, w)
  PROVE  Acc!IInv'
<1>1. /\ UNCHANGED <<alive, shares, entry, debt, standing, edited>>
      /\ goal[g] = None /\ wallet[w] = None /\ OwnerOf[w] \in alive /\ OwnerOf[w] \in Users
      /\ goal' = [goal EXCEPT ![g] = OwnerOf[w]]
      /\ member' = [member EXCEPT ![<<g, OwnerOf[w]>>] = "joined"]
      /\ wallet' = [wallet EXCEPT ![w] = g]
  BY AccountConstants DEF Acc!CreateGoal, Acc!rows
<1>2. \A v \in Wallets : wallet[v] # g
  <2>1. \A u \in Users : member[<<g, u>>] = None
    BY <1>1 DEF Acc!IInv, Acc!GoalRows
  <2>2. \A v \in Wallets : wallet[v] = g => member[<<g, OwnerOf[v]>>] = "joined"
    BY DEF Acc!IInv, Acc!GoalWallets
  <2>. QED  BY <2>1, <2>2, AccountConstants
<1>3. /\ Acc!GoalWallets' /\ Acc!AccountRows'
      /\ wallet' \in [Wallets -> Goals \cup {"cash", None}]
      /\ member' \in [Goals \X Users -> {"pending", "joined", "rejected", None}]
  <2>1. \A v \in Wallets : wallet[v] = g => OwnerOf[v] # OwnerOf[w]
    BY <1>2
  <2>2. UNCHANGED alive
    BY <1>1
  <2>. QED  BY <1>1, <2>1, <2>2, GoalWalletAppears
<1>4. /\ goal \in [Goals -> Users \cup {None}] /\ goal' \in [Goals -> Users \cup {None}]
      /\ goal'[g] = OwnerOf[w] /\ \A h \in Goals \ {g} : goal'[h] = goal[h]
      /\ member \in [Goals \X Users -> {"pending", "joined", "rejected", None}]
  BY <1>1 DEF Acc!IInv, Acc!TypeOK
<1>5. Acc!GoalRows'
  <2>1. member'[<<g, goal'[g]>>] = "joined" /\ goal'[g] # None
    BY <1>1, <1>4, AccountConstants
  <2>2. ASSUME NEW h \in Goals \ {g}
        PROVE  /\ goal'[h] = None => \A u \in Users : member'[<<h, u>>] = None
               /\ goal'[h] # None => member'[<<h, goal'[h]>>] = "joined"
    <3>1. \A u \in Users : member'[<<h, u>>] = member[<<h, u>>]
      BY <1>1, <1>4
    <3>2. goal'[h] # None => goal[h] \in Users
      BY <1>4
    <3>. QED  BY <3>1, <3>2, <1>4 DEF Acc!IInv, Acc!GoalRows
  <2>. QED  BY <2>1, <2>2 DEF Acc!GoalRows
<1>6. Acc!TypeOK' /\ Acc!DebtsFit'
  BY <1>1, <1>3, <1>4, DebtsStay DEF Acc!IInv, Acc!TypeOK
<1>. QED  BY <1>3, <1>5, <1>6 DEF Acc!IInv

(* An invitation or a refusal changes one membership that is not joined.   *)
LEMMA MembershipChanges ==
  ASSUME Acc!IInv, NEW g \in Goals, NEW u \in Users, NEW s \in {"pending", "rejected"},
         goal[g] \notin {None, u}, member[<<g, u>>] # "joined", u \in alive,
         member' = [member EXCEPT ![<<g, u>>] = s],
         UNCHANGED <<alive, wallet, goal, shares, entry, debt, standing, edited>>
  PROVE  Acc!IInv'
<1>1. /\ wallet \in [Wallets -> Goals \cup {"cash", None}] /\ OwnerOf \in [Wallets -> Users]
      /\ member \in [Goals \X Users -> {"pending", "joined", "rejected", None}]
      /\ <<g, u>> \in Goals \X Users /\ goal \in [Goals -> Users \cup {None}]
  BY AccountConstants DEF Acc!IInv, Acc!TypeOK
<1>2. /\ \A m \in Goals \X Users : m # <<g, u>> => member'[m] = member[m]
      /\ member'[<<g, u>>] = s
      /\ member' \in [Goals \X Users -> {"pending", "joined", "rejected", None}]
  BY <1>1
<1>3. \A h \in Goals, v \in Users : member'[<<h, v>>] = "joined" <=> member[<<h, v>>] = "joined"
  BY <1>1, <1>2
<1>4. Acc!AccountRows'
  BY <1>2 DEF Acc!IInv, Acc!AccountRows
<1>5. Acc!GoalRows'
  <2>1. ASSUME NEW h \in Goals
        PROVE  /\ goal[h] = None => \A v \in Users : member'[<<h, v>>] = None
               /\ goal[h] # None => member'[<<h, goal[h]>>] = "joined"
    <3>1. goal[h] # None => goal[h] \in Users
      BY <1>1
    <3>. QED  BY <3>1, <1>1, <1>2, <1>3 DEF Acc!IInv, Acc!GoalRows
  <2>. QED  BY <2>1 DEF Acc!GoalRows
<1>6. Acc!GoalWallets'
  BY <1>1, <1>3 DEF Acc!IInv, Acc!GoalWallets
<1>7. Acc!TypeOK' /\ Acc!DebtsFit'
  BY <1>2, DebtsStay DEF Acc!IInv, Acc!TypeOK
<1>. QED  BY <1>4, <1>5, <1>6, <1>7 DEF Acc!IInv

LEMMA MemberIsInvited ==
  ASSUME Acc!IInv, NEW g \in Goals, NEW u \in Users, Acc!InviteMember(g, u)
  PROVE  Acc!IInv'
<1>1. /\ UNCHANGED <<alive, wallet, goal, shares, entry, debt, standing, edited>>
      /\ goal[g] \notin {None, u} /\ member[<<g, u>>] # "joined" /\ u \in alive
      /\ member' = [member EXCEPT ![<<g, u>>] = "pending"]
  BY DEF Acc!InviteMember, Acc!rows
<1>. QED  BY <1>1, MembershipChanges

LEMMA InviteIsAnswered ==
  ASSUME Acc!IInv, NEW g \in Goals, NEW w \in Wallets, Acc!RespondInvite(g, OwnerOf[w], w)
  PROVE  Acc!IInv'
<1>. DEFINE u == OwnerOf[w]
<1>1. /\ UNCHANGED <<alive, goal, shares, entry, debt, standing, edited>>
      /\ goal[g] \notin {None, u} /\ member[<<g, u>>] = "pending" /\ u \in Users
      /\ \/ member' = [member EXCEPT ![<<g, u>>] = "rejected"] /\ UNCHANGED wallet
         \/ /\ wallet[w] = None
            /\ member' = [member EXCEPT ![<<g, u>>] = "joined"]
            /\ wallet' = [wallet EXCEPT ![w] = g]
  BY AccountConstants DEF Acc!RespondInvite, Acc!rows
<1>2. u \in alive /\ <<g, u>> \in Goals \X Users
  BY <1>1, AccountConstants DEF Acc!IInv, Acc!AccountRows
<1>3. CASE member' = [member EXCEPT ![<<g, u>>] = "rejected"] /\ UNCHANGED wallet
  BY <1>1, <1>2, <1>3, MembershipChanges
<1>4. CASE /\ wallet[w] = None
           /\ member' = [member EXCEPT ![<<g, u>>] = "joined"]
           /\ wallet' = [wallet EXCEPT ![w] = g]
  <2>1. \A v \in Wallets : wallet[v] = g => OwnerOf[v] # OwnerOf[w]
    BY <1>1 DEF Acc!IInv, Acc!GoalWallets
  <2>2. /\ Acc!GoalWallets' /\ Acc!AccountRows'
        /\ wallet' \in [Wallets -> Goals \cup {"cash", None}]
        /\ member' \in [Goals \X Users -> {"pending", "joined", "rejected", None}]
    BY <1>1, <1>2, <1>4, <2>1, GoalWalletAppears
  <2>3. Acc!GoalRows'
    <3>1. /\ member \in [Goals \X Users -> {"pending", "joined", "rejected", None}]
          /\ goal \in [Goals -> Users \cup {None}]
      BY DEF Acc!IInv, Acc!TypeOK
    <3>2. /\ \A m \in Goals \X Users : m # <<g, u>> => member'[m] = member[m]
          /\ member'[<<g, u>>] = "joined"
      BY <1>2, <1>4, <3>1
    <3>3. ASSUME NEW h \in Goals
          PROVE  /\ goal'[h] = None => \A v \in Users : member'[<<h, v>>] = None
                 /\ goal'[h] # None => member'[<<h, goal'[h]>>] = "joined"
      <4>1. goal[h] # None => goal[h] \in Users
        BY <3>1
      <4>. QED  BY <4>1, <1>1, <3>2 DEF Acc!IInv, Acc!GoalRows
    <3>. QED  BY <3>3 DEF Acc!GoalRows
  <2>4. Acc!TypeOK' /\ Acc!DebtsFit'
    BY <1>1, <2>2, DebtsStay DEF Acc!IInv, Acc!TypeOK
  <2>. QED  BY <2>2, <2>3, <2>4 DEF Acc!IInv
<1>. HIDE DEF u
<1>. QED  BY <1>1, <1>3, <1>4

(* The types of rows that are there.                                       *)
LEMMA RowShapes ==
  ASSUME Acc!IInv
  PROVE  /\ \A e \in Acc!OpenEntries : entry[e] \in Acc!Entry
         /\ \A d \in Acc!OpenDebts : debt[d] \in Acc!Debt
         /\ \A s \in standing : s[1] \in Users /\ s[2] \in Wallets
         /\ Acc!OpenEntries \subseteq Twins /\ Acc!OpenDebts \subseteq Debts
BY DEF Acc!IInv, Acc!TypeOK, Acc!OpenEntries, Acc!OpenDebts

(* A transaction is written that no debt names, or the edit is noted.      *)
LEMMA EntryChanges ==
  ASSUME Acc!IInv, NEW e \in Twins, NEW x \in Acc!Entry \cup {None},
         entry' = [entry EXCEPT ![e] = x],
         edited' \in BOOLEAN, edited => edited',
         e \in Acc!OfDebts => x # None /\ edited',
         UNCHANGED <<alive, wallet, goal, member, shares, debt, standing>>
  PROVE  Acc!IInv'
<1>1. /\ entry \in [Twins -> Acc!Entry \cup {None}] /\ entry' \in [Twins -> Acc!Entry \cup {None}]
      /\ entry'[e] = x /\ \A c \in Twins \ {e} : entry'[c] = entry[c]
  BY DEF Acc!IInv, Acc!TypeOK
<1>2. Acc!DebtsFit'
  <2>1. ASSUME NEW d \in Debts, debt'[d] # None, NEW c \in debt'[d].entries
        PROVE  /\ c \in Twins /\ entry'[c] # None
               /\ edited' \/ entry'[c] = [user |-> debt'[d].user, from |-> debt'[d].wallet, to |-> None]
    <3>1. d \in Acc!OpenDebts /\ c \in debt[d].entries
      BY <2>1 DEF Acc!OpenDebts
    <3>2. /\ c \in Twins /\ entry[c] # None
          /\ edited \/ entry[c] = [user |-> debt[d].user, from |-> debt[d].wallet, to |-> None]
      BY <3>1 DEF Acc!IInv, Acc!DebtsFit, Acc!OpenEntries
    <3>3. CASE c = e
      <4>1. e \in Acc!OfDebts
        BY <3>1, <3>3 DEF Acc!OfDebts
      <4>. QED  BY <4>1, <3>2, <3>3, <1>1
    <3>4. CASE c # e
      BY <3>2, <3>4, <1>1
    <3>. QED  BY <3>3, <3>4
  <2>. QED  BY <2>1 DEF Acc!DebtsFit, Acc!OpenDebts, Acc!OpenEntries
<1>3. Acc!TypeOK'
  BY <1>1 DEF Acc!IInv, Acc!TypeOK
<1>. QED  BY <1>2, <1>3, GoalsStay DEF Acc!IInv

LEMMA UnusedEntry ==
  ASSUME Acc!IInv, NEW e \in Twins, entry[e] = None
  PROVE  e \notin Acc!OfDebts
BY DEF Acc!IInv, Acc!DebtsFit, Acc!OfDebts, Acc!OpenEntries

LEMMA EntryIsRecorded ==
  ASSUME Acc!IInv, NEW e \in Twins, NEW u \in Users, NEW f \in Wallets, NEW t \in Wallets \cup {None},
         Acc!Record(e, u, f, t)
  PROVE  Acc!IInv'
<1>. DEFINE x == [user |-> u, from |-> f, to |-> t]
<1>1. /\ entry[e] = None /\ entry' = [entry EXCEPT ![e] = x]
      /\ UNCHANGED <<alive, wallet, goal, member, shares, debt, standing, edited>>
  BY DEF Acc!Record, Acc!goals
<1>2. x \in Acc!Entry
  BY DEF Acc!Entry
<1>3. e \notin Acc!OfDebts /\ edited' \in BOOLEAN
  BY <1>1, UnusedEntry DEF Acc!IInv, Acc!TypeOK
<1>. HIDE DEF x
<1>. QED  BY <1>1, <1>2, <1>3, EntryChanges

LEMMA TemplateIsExecuted ==
  ASSUME Acc!IInv, NEW s \in standing, NEW e \in Twins, Acc!Execute(s, e)
  PROVE  Acc!IInv'
BY RowShapes, EntryIsRecorded DEF Acc!Execute

LEMMA EntryIsEdited ==
  ASSUME Acc!IInv, NEW e \in Twins, NEW f \in Wallets, NEW t \in Wallets \cup {None},
         Acc!EditEntry(e, f, t)
  PROVE  Acc!IInv'
<1>. DEFINE x == [user |-> entry[e].user, from |-> f, to |-> t]
<1>1. /\ entry[e] # None /\ entry' = [entry EXCEPT ![e] = x]
      /\ edited' = (edited \/ e \in Acc!OfDebts)
      /\ UNCHANGED <<alive, wallet, goal, member, shares, debt, standing>>
  BY DEF Acc!EditEntry, Acc!goals
<1>2. x \in Acc!Entry
  <2>1. entry[e] \in Acc!Entry
    BY <1>1 DEF Acc!IInv, Acc!TypeOK
  <2>. QED  BY <2>1 DEF Acc!Entry
<1>3. x # None /\ edited' \in BOOLEAN
  BY <1>1, <1>2, AccountConstants
<1>. HIDE DEF x
<1>. QED  BY <1>1, <1>2, <1>3, EntryChanges

LEMMA EntryIsDeleted ==
  ASSUME Acc!IInv, NEW e \in Twins, Acc!DeleteEntry(e)
  PROVE  Acc!IInv'
<1>1. /\ e \notin Acc!OfDebts /\ entry' = [entry EXCEPT ![e] = None]
      /\ UNCHANGED <<alive, wallet, goal, member, shares, debt, standing, edited>>
  BY DEF Acc!DeleteEntry, Acc!goals
<1>2. edited' \in BOOLEAN
  BY <1>1 DEF Acc!IInv, Acc!TypeOK
<1>. QED  BY <1>1, <1>2, EntryChanges

(* A debt is opened or paid: its new transaction is its user's, on its     *)
(* wallet.                                                                 *)
LEMMA DebtGrows ==
  ASSUME Acc!IInv, NEW d \in Debts, NEW e \in Twins, NEW u \in Users, NEW w \in Wallets,
         NEW old \in SUBSET Twins, entry[e] = None,
         old = {} \/ (debt[d] # None /\ debt[d] = [user |-> u, wallet |-> w, entries |-> old]),
         entry' = [entry EXCEPT ![e] = [user |-> u, from |-> w, to |-> None]],
         debt' = [debt EXCEPT ![d] = [user |-> u, wallet |-> w, entries |-> old \cup {e}]],
         UNCHANGED <<alive, wallet, goal, member, shares, standing, edited>>
  PROVE  Acc!IInv'
<1>. DEFINE x == [user |-> u, from |-> w, to |-> None]
            y == [user |-> u, wallet |-> w, entries |-> old \cup {e}]
<1>1. /\ x \in Acc!Entry /\ y \in Acc!Debt /\ x # None
      /\ y.user = u /\ y.wallet = w /\ y.entries = old \cup {e}
  BY AccountConstants DEF Acc!Entry, Acc!Debt
<1>2. /\ entry \in [Twins -> Acc!Entry \cup {None}] /\ debt \in [Debts -> Acc!Debt \cup {None}]
  BY DEF Acc!IInv, Acc!TypeOK
<1>. HIDE DEF y
<1>3. /\ entry' \in [Twins -> Acc!Entry \cup {None}] /\ debt' \in [Debts -> Acc!Debt \cup {None}]
      /\ entry'[e] = x /\ \A c \in Twins \ {e} : entry'[c] = entry[c]
      /\ debt'[d] = y /\ \A c \in Debts \ {d} : debt'[c] = debt[c]
  BY <1>1, <1>2 DEF y
<1>4. \A c \in Debts : debt[c] # None => \A a \in debt[c].entries :
        /\ a \in Twins /\ entry[a] # None
        /\ edited \/ entry[a] = [user |-> debt[c].user, from |-> debt[c].wallet, to |-> None]
  BY DEF Acc!IInv, Acc!DebtsFit, Acc!OpenDebts, Acc!OpenEntries
<1>5. Acc!DebtsFit'
  <2>1. ASSUME NEW c \in Debts, debt'[c] # None, NEW a \in debt'[c].entries
        PROVE  /\ a \in Twins /\ entry'[a] # None
               /\ edited' \/ entry'[a] = [user |-> debt'[c].user, from |-> debt'[c].wallet, to |-> None]
    <3>1. CASE c # d
      <4>1. debt'[c] = debt[c]
        BY <3>1, <1>3
      <4>2. a # e
        BY <4>1, <2>1, <1>4
      <4>. QED  BY <4>1, <4>2, <2>1, <1>3, <1>4
    <3>2. CASE c = d /\ a = e
      BY <3>2, <1>1, <1>3
    <3>3. CASE c = d /\ a # e
      <4>1. a \in old
        BY <3>3, <2>1, <1>1, <1>3
      <4>2. debt[d] # None /\ debt[d].user = u /\ debt[d].wallet = w /\ a \in debt[d].entries
        BY <4>1
      <4>3. /\ a \in Twins /\ entry[a] # None /\ entry'[a] = entry[a]
            /\ edited \/ entry[a] = x
        BY <4>2, <3>3, <1>3, <1>4
      <4>. QED  BY <4>3, <3>3, <1>1, <1>3
    <3>. QED  BY <3>1, <3>2, <3>3
  <2>. QED  BY <2>1 DEF Acc!DebtsFit, Acc!OpenDebts, Acc!OpenEntries
<1>6. Acc!TypeOK'
  BY <1>3 DEF Acc!IInv, Acc!TypeOK
<1>. QED  BY <1>5, <1>6, GoalsStay DEF Acc!IInv

LEMMA DebtIsOpened ==
  ASSUME Acc!IInv, NEW d \in Debts, NEW u \in Users, NEW w \in Wallets, NEW e \in Twins,
         Acc!OpenDebt(d, u, w, e)
  PROVE  Acc!IInv'
<1>1. /\ entry[e] = None /\ {} \cup {e} = {e} /\ {} \in SUBSET Twins
      /\ entry' = [entry EXCEPT ![e] = [user |-> u, from |-> w, to |-> None]]
      /\ debt' = [debt EXCEPT ![d] = [user |-> u, wallet |-> w, entries |-> {e}]]
      /\ UNCHANGED <<alive, wallet, goal, member, shares, standing, edited>>
  BY DEF Acc!OpenDebt, Acc!goals
<1>2. debt' = [debt EXCEPT ![d] = [user |-> u, wallet |-> w, entries |-> {} \cup {e}]]
  BY <1>1
<1>. QED  BY <1>1, <1>2, DebtGrows

LEMMA DebtIsPaid ==
  ASSUME Acc!IInv, NEW d \in Debts, NEW e \in Twins, Acc!PayDebt(d, e)
  PROVE  Acc!IInv'
<1>1. /\ debt[d] # None /\ entry[e] = None
      /\ entry' = [entry EXCEPT ![e] = [user |-> debt[d].user, from |-> debt[d].wallet, to |-> None]]
      /\ debt' = [debt EXCEPT ![d] = [user |-> debt[d].user, wallet |-> debt[d].wallet,
                                      entries |-> debt[d].entries \cup {e}]]
      /\ UNCHANGED <<alive, wallet, goal, member, shares, standing, edited>>
  BY DEF Acc!PayDebt, Acc!goals
<1>2. debt[d] \in Acc!Debt
  BY <1>1 DEF Acc!IInv, Acc!TypeOK
<1>3. /\ debt[d].user \in Users /\ debt[d].wallet \in Wallets /\ debt[d].entries \in SUBSET Twins
      /\ debt[d] = [user |-> debt[d].user, wallet |-> debt[d].wallet, entries |-> debt[d].entries]
  BY <1>2 DEF Acc!Debt
<1>. QED  BY <1>1, <1>3, DebtGrows

LEMMA StandingRowsChange ==
  ASSUME Acc!IInv,
         \/ \E u \in Users, w \in Wallets : Acc!AddStanding(u, w)
         \/ \E s \in standing : Acc!RemoveStanding(s) \/ \E w \in Wallets : Acc!UpdateStanding(s, w)
  PROVE  Acc!IInv'
<1>1. /\ UNCHANGED <<alive, wallet, goal, member, shares, entry, debt, edited>>
      /\ standing' \subseteq Users \X Wallets
  BY RowShapes DEF Acc!AddStanding, Acc!RemoveStanding, Acc!UpdateStanding, Acc!goals, Acc!IInv, Acc!TypeOK
<1>. QED  BY <1>1, DebtsStay, GoalsStay DEF Acc!IInv, Acc!TypeOK

(* The cascade reaches the user's own wallets only: the others' wallets of *)
(* the user's goals have been detached.                                    *)
LEMMA CascadeTakesOwn ==
  ASSUME Acc!IInv, NEW u \in Users
  PROVE  Acc!CascadedWallets(u) = Acc!OwnWallets(u)
BY AccountConstants DEF Acc!CascadedWallets, Acc!OwnWallets, Acc!Detached, Acc!GoalsOf

(* Which purpose a wallet has after the deletion.                          *)
LEMMA WalletAfterDeletion ==
  ASSUME Acc!IInv, NEW u \in Users, Acc!DeleteUser(u), NEW w \in Wallets
  PROVE  /\ OwnerOf[w] = u => wallet'[w] = None
         /\ OwnerOf[w] # u /\ wallet[w] \in Acc!GoalsOf(u) => wallet'[w] = "cash"
         /\ OwnerOf[w] # u /\ wallet[w] \notin Acc!GoalsOf(u) => wallet'[w] = wallet[w]
<1>1. wallet'[w] = IF w \in Acc!OwnWallets(u) THEN None
                   ELSE IF w \in Acc!Detached(u) THEN "cash" ELSE wallet[w]
  BY CascadeTakesOwn DEF Acc!DeleteUser
<1>. QED  BY <1>1 DEF Acc!OwnWallets, Acc!Detached

LEMMA MemberAfterDeletion ==
  ASSUME NEW u \in Users, Acc!DeleteUser(u), NEW g \in Goals, NEW v \in Users
  PROVE  /\ member'[<<g, v>>] = IF goal[g] = u \/ v = u THEN None ELSE member[<<g, v>>]
         /\ goal'[g] = IF goal[g] = u THEN None ELSE goal[g]
<1>1. member' = [m \in Goals \X Users |->
                  IF m[1] \in Acc!GoalsOf(u) \/ m[2] = u THEN None ELSE member[m]]
  BY DEF Acc!DeleteUser
<1>2. <<g, v>> \in Goals \X Users
  OBVIOUS
<1>3. member'[<<g, v>>] = IF g \in Acc!GoalsOf(u) \/ v = u THEN None ELSE member[<<g, v>>]
  BY <1>1, <1>2
<1>4. goal'[g] = IF g \in Acc!GoalsOf(u) THEN None ELSE goal[g]
  BY DEF Acc!DeleteUser
<1>. QED  BY <1>3, <1>4 DEF Acc!GoalsOf

LEMMA DeletionKeepsTypes ==
  ASSUME Acc!IInv, NEW u \in Users, Acc!DeleteUser(u)
  PROVE  Acc!TypeOK'
<1>1. /\ alive' \subseteq Users /\ shares' \subseteq Wallets \X Users
      /\ standing' \subseteq Users \X Wallets /\ edited' \in BOOLEAN
  BY DEF Acc!IInv, Acc!TypeOK, Acc!DeleteUser
<1>2. /\ wallet' \in [Wallets -> Goals \cup {"cash", None}]
      /\ goal' \in [Goals -> Users \cup {None}]
  BY DEF Acc!IInv, Acc!TypeOK, Acc!DeleteUser
<1>3. member' \in [Goals \X Users -> {"pending", "joined", "rejected", None}]
  BY DEF Acc!IInv, Acc!TypeOK, Acc!DeleteUser
<1>4. /\ entry' \in [Twins -> Acc!Entry \cup {None}]
      /\ debt' \in [Debts -> Acc!Debt \cup {None}]
  BY DEF Acc!IInv, Acc!TypeOK, Acc!DeleteUser
<1>. QED  BY <1>1, <1>2, <1>3, <1>4 DEF Acc!TypeOK

(* A debt that stays keeps its transactions, or the deletion would have    *)
(* been refused.                                                           *)
LEMMA DeletionKeepsDebts ==
  ASSUME Acc!IInv, NEW u \in Users, Acc!DeleteUser(u)
  PROVE  Acc!DebtsFit'
<1>1. /\ edited' = edited
      /\ \A d \in Debts : debt'[d] = IF d \in Acc!GoneDebts(u) THEN None ELSE debt[d]
      /\ \A e \in Twins : entry'[e] = IF e \in Acc!GoneEntries(u) THEN None ELSE entry[e]
      /\ \A d \in Acc!OpenDebts \ Acc!GoneDebts(u) : debt[d].entries \cap Acc!GoneEntries(u) = {}
  BY DEF Acc!DeleteUser, Acc!Blocked
<1>2. ASSUME NEW d \in Debts, debt'[d] # None, NEW e \in debt'[d].entries
      PROVE  /\ e \in Twins /\ entry'[e] # None
             /\ edited' \/ entry'[e] = [user |-> debt'[d].user, from |-> debt'[d].wallet, to |-> None]
  <2>1. debt'[d] = debt[d] /\ d \in Acc!OpenDebts \ Acc!GoneDebts(u)
    BY <1>1, <1>2 DEF Acc!OpenDebts
  <2>2. /\ e \in Twins /\ entry[e] # None
        /\ edited \/ entry[e] = [user |-> debt[d].user, from |-> debt[d].wallet, to |-> None]
    BY <2>1, <1>2 DEF Acc!IInv, Acc!DebtsFit, Acc!OpenEntries
  <2>3. entry'[e] = entry[e]
    BY <2>1, <2>2, <1>1, <1>2
  <2>. QED  BY <2>1, <2>2, <2>3, <1>1
<1>. QED  BY <1>2 DEF Acc!DebtsFit, Acc!OpenDebts, Acc!OpenEntries

LEMMA DeletionKeepsGoals ==
  ASSUME Acc!IInv, NEW u \in Users, Acc!DeleteUser(u)
  PROVE  Acc!GoalRows' /\ Acc!GoalWallets' /\ Acc!AccountRows'
<1>1. /\ OwnerOf \in [Wallets -> Users] /\ goal \in [Goals -> Users \cup {None}]
      /\ None \notin Goals /\ "cash" \notin Goals /\ alive' = alive \ {u}
      /\ None \notin {"cash", "pending", "joined", "rejected"}
  BY AccountConstants DEF Acc!IInv, Acc!TypeOK, Acc!DeleteUser
<1>2. Acc!GoalRows'
  <2>1. ASSUME NEW g \in Goals
        PROVE  /\ goal'[g] = None => \A v \in Users : member'[<<g, v>>] = None
               /\ goal'[g] # None => member'[<<g, goal'[g]>>] = "joined"
    <3>1. CASE goal[g] = u \/ goal[g] = None
      <4>1. goal'[g] = None
        BY <3>1, MemberAfterDeletion
      <4>2. goal[g] = None => \A v \in Users : member[<<g, v>>] = None
        BY DEF Acc!IInv, Acc!GoalRows
      <4>3. \A v \in Users : member'[<<g, v>>] = None
        BY <3>1, <4>2, MemberAfterDeletion
      <4>. QED  BY <4>1, <4>3
    <3>2. CASE goal[g] # u /\ goal[g] # None
      <4>1. goal'[g] = goal[g] /\ goal[g] \in Users /\ goal[g] # None
        BY <3>2, <1>1, MemberAfterDeletion
      <4>2. member'[<<g, goal[g]>>] = member[<<g, goal[g]>>]
        BY <3>2, <4>1, MemberAfterDeletion
      <4>. QED  BY <4>1, <4>2 DEF Acc!IInv, Acc!GoalRows
    <3>. QED  BY <3>1, <3>2
  <2>. QED  BY <2>1 DEF Acc!GoalRows
<1>3. ASSUME NEW w \in Wallets, wallet'[w] \in Goals
      PROVE  wallet'[w] = wallet[w] /\ OwnerOf[w] # u /\ goal[wallet[w]] # u
  BY <1>1, <1>3, WalletAfterDeletion DEF Acc!GoalsOf
<1>4. Acc!GoalWallets'
  <2>1. ASSUME NEW w \in Wallets, wallet'[w] \in Goals
        PROVE  member'[<<wallet'[w], OwnerOf[w]>>] = "joined"
    <3>1. wallet'[w] = wallet[w] /\ OwnerOf[w] \in Users \ {u} /\ goal[wallet[w]] # u
      BY <2>1, <1>1, <1>3
    <3>2. member[<<wallet[w], OwnerOf[w]>>] = "joined"
      BY <2>1, <3>1 DEF Acc!IInv, Acc!GoalWallets
    <3>3. \A g \in Goals : goal[g] # u => member'[<<g, OwnerOf[w]>>] = member[<<g, OwnerOf[w]>>]
      BY <3>1, MemberAfterDeletion
    <3>. QED  BY <2>1, <3>1, <3>2, <3>3
  <2>2. ASSUME NEW v \in Wallets, NEW w \in Wallets,
               wallet'[w] \in Goals, wallet'[v] = wallet'[w], OwnerOf[v] = OwnerOf[w]
        PROVE  v = w
    BY <2>2, <1>3 DEF Acc!IInv, Acc!GoalWallets
  <2>3. ASSUME NEW g \in Goals, NEW v \in Users, member'[<<g, v>>] = "joined"
        PROVE  \E w \in Wallets : OwnerOf[w] = v /\ wallet'[w] = g
    <3>1. member[<<g, v>>] = "joined" /\ goal[g] # u /\ v # u
      BY <2>3, <1>1, MemberAfterDeletion
    <3>2. PICK w \in Wallets : OwnerOf[w] = v /\ wallet[w] = g
      BY <3>1 DEF Acc!IInv, Acc!GoalWallets
    <3>3. wallet'[w] = wallet[w]
      BY <3>1, <3>2, WalletAfterDeletion DEF Acc!GoalsOf
    <3>. QED  BY <3>2, <3>3
  <2>. QED  BY <2>1, <2>2, <2>3 DEF Acc!GoalWallets
<1>5. Acc!AccountRows'
  <2>1. ASSUME NEW w \in Wallets, wallet'[w] # None PROVE OwnerOf[w] \in alive'
    <3>1. OwnerOf[w] # u /\ wallet[w] # None
      BY <2>1, <1>1, WalletAfterDeletion DEF Acc!GoalsOf
    <3>. QED  BY <3>1, <1>1 DEF Acc!IInv, Acc!AccountRows
  <2>2. ASSUME NEW m \in Goals \X Users, member'[m] # None PROVE m[2] \in alive'
    <3>1. m[1] \in Goals /\ m[2] \in Users /\ m = <<m[1], m[2]>>
      OBVIOUS
    <3>2. m[2] # u /\ member[m] # None
      BY <2>2, <3>1, MemberAfterDeletion
    <3>. QED  BY <3>1, <3>2, <1>1 DEF Acc!IInv, Acc!AccountRows
  <2>. QED  BY <2>1, <2>2 DEF Acc!AccountRows
<1>. QED  BY <1>2, <1>4, <1>5

LEMMA AccountNext == Acc!IInv /\ Acc!Next => Acc!IInv'
<1>. SUFFICES ASSUME Acc!IInv, Acc!Next PROVE Acc!IInv'
  OBVIOUS
<1>0. \A w \in Wallets : OwnerOf[w] \in Users
  BY AccountConstants
<1>1. CASE \E w \in Wallets : Acc!Register(w) \/ Acc!CreateWallet(w) \/ Acc!DeleteWallet(w)
  BY <1>1, AccountRegisters, WalletIsCreated, WalletIsDeleted
<1>2. CASE \E w \in Wallets, u \in Users :
             Acc!JoinWallet(w, u) \/ Acc!LeaveWallet(w, u) \/ Acc!AddStanding(u, w)
  BY <1>2, WalletIsShared, StandingRowsChange
<1>3. CASE \E g \in Goals, w \in Wallets :
             \/ Acc!CreateGoal(g, w) \/ Acc!InviteMember(g, OwnerOf[w])
             \/ Acc!RespondInvite(g, OwnerOf[w], w)
  BY <1>0, <1>3, GoalIsCreated, MemberIsInvited, InviteIsAnswered
<1>4. CASE \E s \in standing, e \in Twins : Acc!Execute(s, e)
  BY <1>4, TemplateIsExecuted
<1>5. CASE \E e \in Twins, f \in Wallets, t \in Wallets \cup {None} :
             Acc!EditEntry(e, f, t) \/ \E u \in Users : Acc!Record(e, u, f, t)
  BY <1>5, EntryIsEdited, EntryIsRecorded
<1>6. CASE \E e \in Twins : Acc!DeleteEntry(e) \/ \E d \in Debts : Acc!PayDebt(d, e)
  BY <1>6, EntryIsDeleted, DebtIsPaid
<1>7. CASE \E d \in Debts, u \in Users, w \in Wallets, e \in Twins : Acc!OpenDebt(d, u, w, e)
  BY <1>7, DebtIsOpened
<1>8. CASE \E s \in standing : Acc!RemoveStanding(s) \/ \E w \in Wallets : Acc!UpdateStanding(s, w)
  BY <1>8, StandingRowsChange
<1>9. CASE \E u \in Users : Acc!DeleteUser(u)
  BY <1>9, DeletionKeepsTypes, DeletionKeepsDebts, DeletionKeepsGoals DEF Acc!IInv
<1>. QED  BY <1>1, <1>2, <1>3, <1>4, <1>5, <1>6, <1>7, <1>8, <1>9 DEF Acc!Next

LEMMA AccountUnchanged == Acc!IInv /\ UNCHANGED accountsVars => Acc!IInv'
BY DebtsStay, GoalsStay DEF Acc!IInv, Acc!TypeOK, accountsVars

(* Whoever keeps a debt keeps its transactions: they are on wallets that   *)
(* stay, and so is everything else that is not taken.                      *)
LEMMA NothingBlocks ==
  ASSUME Acc!IInv
  PROVE  Acc!AccountsDeletableUnedited
<1>. SUFFICES ASSUME ~edited, NEW u \in alive PROVE ~Acc!Blocked(u)
  BY DEF Acc!AccountsDeletableUnedited, Acc!AccountsDeletable
<1>0. u \in Users
  BY DEF Acc!IInv, Acc!TypeOK
<1>1. Acc!CascadedWallets(u) = Acc!OwnWallets(u) /\ None \notin Acc!OwnWallets(u)
  BY <1>0, CascadeTakesOwn, AccountConstants DEF Acc!OwnWallets
<1>2. ASSUME NEW d \in Acc!OpenDebts \ Acc!GoneDebts(u)
      PROVE  debt[d].entries \cap Acc!GoneEntries(u) = {} /\ debt[d].wallet \notin Acc!OwnWallets(u)
  <2>1. debt[d].user # u /\ debt[d].wallet \notin Acc!OwnWallets(u)
    BY <1>2 DEF Acc!GoneDebts, Acc!DebtsOn
  <2>2. ASSUME NEW e \in debt[d].entries PROVE e \notin Acc!GoneEntries(u)
    <3>1. entry[e] = [user |-> debt[d].user, from |-> debt[d].wallet, to |-> None]
      BY DEF Acc!IInv, Acc!DebtsFit
    <3>2. entry[e].user # u /\ ~Acc!Touches(e, Acc!OwnWallets(u))
      BY <3>1, <2>1, <1>1 DEF Acc!Touches
    <3>. QED  BY <3>2 DEF Acc!GoneEntries, Acc!EntriesOn
  <2>. QED  BY <2>1, <2>2
<1>3. \A e \in Acc!OpenEntries \ Acc!GoneEntries(u) : ~Acc!Touches(e, Acc!OwnWallets(u))
  BY DEF Acc!GoneEntries, Acc!EntriesOn
<1>4. \A s \in standing \ Acc!GoneStanding(u) : s[2] \notin Acc!OwnWallets(u)
  BY DEF Acc!GoneStanding, Acc!StandingOn
<1>. QED  BY <1>1, <1>2, <1>3, <1>4 DEF Acc!Blocked

(* The deletion takes nothing of the others but what is on its wallets.    *)
LEMMA DeletionSparesOthers ==
  ASSUME Acc!IInv, Acc!Next
  PROVE  Acc!OthersKeepTheirs
<1>. SUFFICES ASSUME NEW u \in alive \ alive'
              PROVE  /\ \A w \in Wallets : OwnerOf[w] # u /\ wallet[w] # None => wallet'[w] # None
                     /\ \A e \in Acc!OpenEntries :
                          entry[e].user # u /\ ~Acc!Touches(e, Acc!OwnWallets(u)) => entry'[e] = entry[e]
  BY DEF Acc!OthersKeepTheirs
<1>1. PICK v \in Users : Acc!DeleteUser(v)
  BY DEF Acc!Next, Acc!Register, Acc!CreateWallet, Acc!DeleteWallet, Acc!JoinWallet, Acc!LeaveWallet,
         Acc!AddStanding, Acc!CreateGoal, Acc!InviteMember, Acc!RespondInvite, Acc!Execute, Acc!Record,
         Acc!EditEntry, Acc!DeleteEntry, Acc!PayDebt, Acc!OpenDebt, Acc!RemoveStanding, Acc!UpdateStanding
<1>2. v = u /\ u \in Users
  BY <1>1 DEF Acc!DeleteUser
<1>3. \A w \in Wallets : OwnerOf[w] # u /\ wallet[w] # None => wallet'[w] # None
  BY <1>1, <1>2, WalletAfterDeletion, AccountConstants
<1>4. \A e \in Twins : entry'[e] = IF e \in Acc!GoneEntries(u) THEN None ELSE entry[e]
  BY <1>1, <1>2 DEF Acc!DeleteUser
<1>5. \A e \in Acc!OpenEntries :
        entry[e].user # u /\ ~Acc!Touches(e, Acc!OwnWallets(u)) => entry'[e] = entry[e]
  BY <1>4 DEF Acc!GoneEntries, Acc!EntriesOn, Acc!OpenEntries
<1>. QED  BY <1>3, <1>5

LEMMA SameCount ==
  ASSUME NEW S
  PROVE  Acc!Cardinality(S) = Cardinality(S)
BY DEF Acc!Cardinality, Cardinality

LEMMA CountOfNone ==
  Acc!Cardinality({}) = 0
BY SameCount, FS_EmptySet

LEMMA CountOfOne ==
  ASSUME NEW x
  PROVE  Acc!Cardinality({x}) = 1
BY SameCount, FS_Singleton

(* A joined member has exactly one wallet in the goal, nobody else one.    *)
LEMMA OneWalletEach ==
  ASSUME Acc!IInv
  PROVE  Acc!OneGoalWallet
<1>. SUFFICES ASSUME NEW g \in Goals, NEW u \in Users
              PROVE  Acc!Cardinality({w \in Wallets : OwnerOf[w] = u /\ wallet[w] = g})
                       = IF member[<<g, u>>] = "joined" THEN 1 ELSE 0
  BY DEF Acc!OneGoalWallet
<1>. DEFINE S == {w \in Wallets : OwnerOf[w] = u /\ wallet[w] = g}
<1>1. CASE member[<<g, u>>] = "joined"
  <2>1. PICK w \in Wallets : OwnerOf[w] = u /\ wallet[w] = g
    BY <1>1 DEF Acc!IInv, Acc!GoalWallets
  <2>2. S = {w}
    BY <2>1 DEF Acc!IInv, Acc!GoalWallets
  <2>. QED  BY <1>1, <2>2, CountOfOne
<1>2. CASE member[<<g, u>>] # "joined"
  <2>1. S = {}
    BY <1>2 DEF Acc!IInv, Acc!GoalWallets
  <2>. QED  BY <1>2, <2>1, CountOfNone
<1>. QED  BY <1>1, <1>2

(* What the views ask of memberships is who has a wallet in the goal.      *)
LEMMA ViewsOfGoal ==
  ASSUME Acc!IInv, NEW u \in Users, NEW g \in Goals
  PROVE  LET has == \E w \in Acc!Collected(g) : OwnerOf[w] = u IN
         /\ has <=> member[<<g, u>>] = "joined"
         /\ goal[g] = u => has
         /\ has <=> Acc!MaySeePool(u, g)
         /\ Acc!JoinedRows(u, g) # {} <=> has
         /\ has /\ goal[g] # u => Acc!JoinedRows(u, g) = {u}
         /\ has => u \in Acc!MembersOf(g)
<1>. DEFINE has == \E w \in Acc!Collected(g) : OwnerOf[w] = u
<1>1. has <=> member[<<g, u>>] = "joined"
  BY DEF Acc!IInv, Acc!GoalWallets, Acc!Collected
<1>2. goal[g] = u => member[<<g, u>>] = "joined"
  BY AccountConstants DEF Acc!IInv, Acc!GoalRows
<1>3. has => u \in Acc!MembersOf(g)
  BY <1>1, AccountConstants DEF Acc!MembersOf
<1>. HIDE DEF has
<1>4. has <=> Acc!MaySeePool(u, g)
  BY <1>1, <1>2 DEF Acc!MaySeePool
<1>5. Acc!JoinedRows(u, g) # {} <=> has
  BY <1>1, <1>2, <1>3 DEF Acc!JoinedRows
<1>6. has /\ goal[g] # u => Acc!JoinedRows(u, g) = {u}
  BY <1>1, <1>3 DEF Acc!JoinedRows
<1>. QED  BY <1>1, <1>2, <1>3, <1>4, <1>5, <1>6 DEF has

LEMMA GoalViews ==
  ASSUME Acc!IInv
  PROVE  Acc!GoalViewsAgree
<1>. SUFFICES ASSUME NEW u \in alive, NEW g \in Goals
              PROVE  LET has == \E w \in Acc!Collected(g) : OwnerOf[w] = u IN
                     /\ has = (g \in DOMAIN Acc!GoalList(u) /\ Acc!GoalList(u)[g].collected # None)
                     /\ has = (g \in DOMAIN Acc!GoalReport(u))
                     /\ g \in DOMAIN Acc!GoalList(u) =>
                          /\ Acc!GoalDetail(u, g).collected = Acc!GoalList(u)[g].collected
                          /\ has = (u \in Acc!GoalDetail(u, g).members)
                     /\ has /\ goal[g] # u => Acc!GoalReport(u)[g] = Acc!GoalDetail(u, g).collected
  BY DEF Acc!GoalViewsAgree
<1>. DEFINE has   == \E w \in Acc!Collected(g) : OwnerOf[w] = u
            pool  == Acc!Cardinality(Acc!Collected(g))
            sees  == Acc!MaySeePool(u, g)
            shown == goal[g] = u \/ member[<<g, u>>] \in {"pending", "joined"}
            rows  == Acc!JoinedRows(u, g)
<1>0. u \in Users
  BY DEF Acc!IInv, Acc!TypeOK
<1>1. /\ has <=> member[<<g, u>>] = "joined"
      /\ has <=> sees
      /\ rows # {} <=> has
      /\ has /\ goal[g] # u => rows = {u}
      /\ has => u \in Acc!MembersOf(g)
  BY <1>0, ViewsOfGoal
<1>2. pool \in Nat /\ pool # None
  <2>1. IsFiniteSet(Acc!Collected(g))
    BY AccountConstants, FS_Subset DEF Acc!Collected
  <2>2. pool \in Nat
    BY <2>1, SameCount, FS_CardinalityType
  <2>. QED  BY <2>2, AccountConstants
<1>3. /\ g \in DOMAIN Acc!GoalList(u) <=> shown
      /\ shown => Acc!GoalList(u)[g].collected = IF sees THEN pool ELSE None
  BY DEF Acc!GoalList
<1>4. /\ Acc!GoalDetail(u, g).collected = IF sees THEN pool ELSE None
      /\ Acc!GoalDetail(u, g).members = IF sees THEN Acc!MembersOf(g) ELSE {}
  BY DEF Acc!GoalDetail
<1>5. /\ g \in DOMAIN Acc!GoalReport(u) <=> rows # {}
      /\ rows = {u} => Acc!GoalReport(u)[g] = pool
  <2>1. /\ g \in DOMAIN Acc!GoalReport(u) <=> rows # {}
        /\ rows # {} => Acc!GoalReport(u)[g] = Acc!*(Acc!Cardinality(rows), pool)
    BY DEF Acc!GoalReport
  <2>2. rows = {u} => Acc!Cardinality(rows) = 1
    BY CountOfOne
  <2>. QED  BY <1>2, <2>1, <2>2
<1>7. has \in BOOLEAN
  OBVIOUS
<1>. HIDE DEF has, pool, sees, rows
<1>6. has => shown
  BY <1>1
<1>. HIDE DEF shown
<1>8. has = (g \in DOMAIN Acc!GoalList(u) /\ Acc!GoalList(u)[g].collected # None)
  BY <1>1, <1>2, <1>3, <1>6 DEF has
<1>9. has = (g \in DOMAIN Acc!GoalReport(u))
  <2>1. has <=> g \in DOMAIN Acc!GoalReport(u)
    BY <1>1, <1>5
  <2>. QED  BY <1>7, <2>1
<1>10. g \in DOMAIN Acc!GoalList(u) =>
        /\ Acc!GoalDetail(u, g).collected = Acc!GoalList(u)[g].collected
        /\ has = (u \in Acc!GoalDetail(u, g).members)
  <2>1. has <=> u \in Acc!GoalDetail(u, g).members
    BY <1>1, <1>4
  <2>2. has = (u \in Acc!GoalDetail(u, g).members)
    BY <1>7, <2>1
  <2>. QED  BY <2>2, <1>3, <1>4
<1>11. has /\ goal[g] # u => Acc!GoalReport(u)[g] = Acc!GoalDetail(u, g).collected
  BY <1>1, <1>4, <1>5
<1>. QED  BY <1>8, <1>9, <1>10, <1>11 DEF has

(***************************************************************************)
(* The category tree.                                                      *)
(***************************************************************************)

LEMMA CatConstants ==
  None \notin Nodes /\ Absent \notin Cat!Row /\ IsFiniteSet(Nodes)
BY PartsAssumption DEF Cat!CategoriesConstants, Cat!Row, Cat!IsFiniteSet, IsFiniteSet

LEMMA CatCount == Cat!Cardinality(Nodes) = Cardinality(Nodes)
BY DEF Cat!Cardinality, Cardinality

(* The rows above a set of rows.                                           *)
ParentsOf(A) == {tree[d].parent : d \in A} \ {None}

(* g satisfies the recursion of the query that climbs n levels from c.     *)
Climbs(g, c, n) ==
  g = [i \in 0 .. n |-> IF i = 0 THEN {c} \cap Cat!Live ELSE g[i - 1] \cup ParentsOf(g[i - 1])]

LEMMA LineUnfolded ==
  ASSUME NEW c
  PROVE  Cat!Line(c) = (CHOOSE g : Climbs(g, c, Cat!Cardinality(Nodes)))[Cat!Cardinality(Nodes)]
BY DEF Cat!Line, Climbs, ParentsOf

(* The query climbs any number of levels.                                  *)
LEMMA ClimbExists ==
  ASSUME NEW c, NEW k \in Nat
  PROVE  \E g : Climbs(g, c, k)
<1>. DEFINE Bad == {n \in Nat : ~ \E g : Climbs(g, c, n)}
<1>. SUFFICES ASSUME Bad # {} PROVE FALSE
  OBVIOUS
<1>1. PICK n \in Bad : \A m \in Bad : n <= m
  BY LeastNatural
<1>2. CASE n = 0
  <2>. DEFINE f == [i \in 0 .. n |-> {c} \cap Cat!Live]
  <2>1. Climbs(f, c, n)
    BY <1>2 DEF Climbs
  <2>. QED  BY <1>1, <2>1
<1>3. CASE n # 0
  <2>1. n \in Nat /\ n - 1 \in Nat /\ n - 1 < n /\ n - 1 \notin Bad
    BY <1>1, <1>3
  <2>2. PICK g : Climbs(g, c, n - 1)
    BY <2>1
  <2>. DEFINE f == [i \in 0 .. n |-> IF i = n THEN g[n - 1] \cup ParentsOf(g[n - 1]) ELSE g[i]]
  <2>3. \A i \in 0 .. n - 1 : g[i] = IF i = 0 THEN {c} \cap Cat!Live ELSE g[i - 1] \cup ParentsOf(g[i - 1])
    BY <2>2 DEF Climbs
  <2>4. \A i \in 0 .. n : f[i] = IF i = 0 THEN {c} \cap Cat!Live ELSE f[i - 1] \cup ParentsOf(f[i - 1])
    <3>. SUFFICES ASSUME NEW i \in 0 .. n
                  PROVE  f[i] = IF i = 0 THEN {c} \cap Cat!Live ELSE f[i - 1] \cup ParentsOf(f[i - 1])
      OBVIOUS
    <3>1. CASE i = n
      <4>1. f[i] = g[n - 1] \cup ParentsOf(g[n - 1]) /\ f[i - 1] = g[n - 1] /\ i # 0
        BY <3>1, <1>3, <2>1
      <4>. QED  BY <4>1, <3>1
    <3>2. CASE i = 0
      <4>1. i \in 0 .. n - 1 /\ f[i] = g[i]
        BY <3>2, <1>3, <2>1
      <4>. QED  BY <4>1, <3>2, <2>3
    <3>3. CASE i # n /\ i # 0
      <4>1. i \in 0 .. n - 1 /\ f[i] = g[i] /\ f[i - 1] = g[i - 1]
        BY <3>3, <2>1
      <4>. QED  BY <4>1, <2>3, <3>3
    <3>. QED  BY <3>1, <3>2, <3>3
  <2>5. f = [i \in 0 .. n |-> f[i]]
    OBVIOUS
  <2>. HIDE DEF f
  <2>6. Climbs(f, c, n)
    BY <2>4, <2>5 DEF Climbs
  <2>. QED  BY <1>1, <2>6
<1>. QED  BY <1>2, <1>3

(* Until it stops growing, each level of the query adds a row; so it has   *)
(* stopped when it has climbed as many levels as there are rows.           *)
LEMMA LineIsClosed ==
  ASSUME NEW c, tree \in [Nodes -> Cat!Row \cup {Absent}], Cat!Closed(Cat!Live)
  PROVE  /\ Cat!Line(c) \subseteq Cat!Live
         /\ Cat!Closed(Cat!Line(c))
         /\ c \in Cat!Live => c \in Cat!Line(c)
         /\ c \notin Cat!Live => Cat!Line(c) = {}
<1>. DEFINE N == Cardinality(Nodes)
<1>1. N \in Nat
  BY CatConstants, FS_CardinalityType
<1>2. PICK g : Climbs(g, c, N) /\ Cat!Line(c) = g[N]
  <2>1. \E g : Climbs(g, c, N)
    BY <1>1, ClimbExists
  <2>. QED  BY <2>1, LineUnfolded, CatCount
<1>. HIDE DEF N
<1>3. \A i \in 0 .. N : g[i] = IF i = 0 THEN {c} \cap Cat!Live ELSE g[i - 1] \cup ParentsOf(g[i - 1])
  BY <1>2 DEF Climbs
<1>. DEFINE Grown(n) == /\ g[n] \subseteq Cat!Live
                        /\ c \in Cat!Live => c \in g[n]
                        /\ c \notin Cat!Live => g[n] = {}
                        /\ ParentsOf(g[n]) \subseteq g[n] \/ Cardinality(g[n]) > n
            Bad == {n \in 0 .. N : ~Grown(n)}
<1>4. \A S \in SUBSET Cat!Live : IsFiniteSet(S) /\ Cardinality(S) \in Nat /\ S \subseteq Nodes
  BY CatConstants, FS_Subset, FS_CardinalityType DEF Cat!Live
<1>5. Bad = {}
  <2>. SUFFICES ASSUME Bad # {} PROVE FALSE
    OBVIOUS
  <2>. HIDE DEF Grown
  <2>0. Bad \in SUBSET Nat
    BY <1>1
  <2>1. PICK n \in Bad : \A m \in Bad : n <= m
    BY <2>0, LeastNatural
  <2>. USE DEF Grown
  <2>2. CASE n = 0
    <3>1. g[n] = {c} \cap Cat!Live
      BY <2>2, <1>1, <1>3
    <3>2. c \in Cat!Live => Cardinality(g[n]) > n
      <4>1. c \in Cat!Live => g[n] = {c}
        BY <3>1
      <4>2. Cardinality({c}) = 1
        BY FS_Singleton
      <4>. QED  BY <4>1, <4>2, <2>2
    <3>3. c \notin Cat!Live => ParentsOf(g[n]) \subseteq g[n]
      BY <3>1 DEF ParentsOf
    <3>. QED  BY <2>1, <3>1, <3>2, <3>3
  <2>3. CASE n # 0
    <3>1. n - 1 \in 0 .. N /\ n - 1 < n /\ n \in 0 .. N
      BY <2>1, <2>3, <1>1
    <3>2. Grown(n - 1)
      BY <2>1, <3>1
    <3>3. PICK A, B : A = g[n - 1] /\ B = g[n]
      OBVIOUS
    <3>4. B = A \cup ParentsOf(A)
      BY <3>1, <3>3, <1>3, <2>3
    <3>5. /\ A \subseteq Cat!Live
          /\ c \in Cat!Live => c \in A
          /\ c \notin Cat!Live => A = {}
          /\ ParentsOf(A) \subseteq A \/ Cardinality(A) > n - 1
      BY <3>2, <3>3
    <3>6. B \subseteq Cat!Live
      <4>1. \A d \in A : tree[d].parent \in Cat!Live \cup {None}
        BY <3>5 DEF Cat!Closed
      <4>2. ParentsOf(A) \subseteq Cat!Live
        BY <4>1 DEF ParentsOf
      <4>. QED  BY <4>2, <3>4, <3>5
    <3>7. c \notin Cat!Live => B = {}
      BY <3>4, <3>5 DEF ParentsOf
    <3>8. ParentsOf(B) \subseteq B \/ Cardinality(B) > n
      <4>1. CASE ParentsOf(A) \subseteq A
        BY <4>1, <3>4
      <4>2. CASE ~(ParentsOf(A) \subseteq A)
        <5>1. A \subseteq B /\ A # B /\ IsFiniteSet(B)
          BY <4>2, <3>4, <3>6, <1>4
        <5>2. Cardinality(A) <= Cardinality(B) /\ Cardinality(A) # Cardinality(B)
          BY <5>1, FS_Subset
        <5>3. Cardinality(A) \in Nat /\ Cardinality(B) \in Nat
          BY <3>5, <3>6, <1>4
        <5>4. n \in Nat /\ Cardinality(A) > n - 1
          BY <4>2, <3>1, <3>5
        <5>. QED  BY <5>2, <5>3, <5>4
      <4>. QED  BY <4>1, <4>2
    <3>. QED  BY <2>1, <3>3, <3>4, <3>5, <3>6, <3>7, <3>8
  <2>. QED  BY <2>2, <2>3
<1>6. Grown(N)
  BY <1>1, <1>5
<1>. DEFINE L == g[N]
<1>7. ~(Cardinality(L) > N)
  <2>1. L \subseteq Nodes
    BY <1>4, <1>6
  <2>. QED  BY <2>1, <1>1, <1>4, <1>6, CatConstants, FS_Subset DEF N
<1>8. ParentsOf(L) \subseteq L
  BY <1>6, <1>7
<1>9. Cat!Closed(L)
  BY <1>8 DEF Cat!Closed, ParentsOf
<1>. QED  BY <1>2, <1>6, <1>9

LEMMA CatInit == Cat!Init => Cat!IInv
<1>. SUFFICES ASSUME Cat!Init PROVE Cat!IInv
  OBVIOUS
<1>1. Cat!Live = {}
  BY DEF Cat!Init, Cat!Live
<1>2. Cat!NoRequest \in Cat!Request /\ ~Cat!IsMove(Cat!NoRequest)
  BY DEF Cat!NoRequest, Cat!Request, Cat!Row, Cat!Types, Cat!IsMove
<1>3. change = [r \in Twins |-> Cat!NoRequest]
  BY DEF Cat!Init
<1>4. Cat!TypeOK
  BY <1>2, <1>3 DEF Cat!Init, Cat!TypeOK
<1>5. Cat!OneMove /\ Cat!StillApart
  BY <1>2, <1>3 DEF Cat!OneMove, Cat!StillApart
<1>6. Cat!Closed(Cat!Live) /\ Cat!NoLoop
  BY <1>1 DEF Cat!Closed, Cat!NoLoop
<1>. QED  BY <1>4, <1>5, <1>6 DEF Cat!IInv

LEMMA TreeStays ==
  ASSUME UNCHANGED tree
  PROVE  /\ Cat!Closed(Cat!Live) => Cat!Closed(Cat!Live)'
         /\ Cat!NoLoop => Cat!NoLoop'
         /\ \A c, p : Cat!Apart(c, p) => Cat!Apart(c, p)'
BY DEF Cat!Closed, Cat!Live, Cat!NoLoop, Cat!Apart

(* One request goes on; if it is a move it is the only one, and it has     *)
(* been checked.                                                           *)
LEMMA RequestMoves ==
  ASSUME Cat!IInv, NEW r \in Twins, NEW q \in Cat!Request,
         change' = [change EXCEPT ![r] = q], UNCHANGED tree,
         overlap' \in BOOLEAN, overlap => overlap',
         \/ overlap'
         \/ /\ Cat!IsMove(q) => \A s \in Twins \ {r} : ~Cat!IsMove(change[s])
            /\ Cat!IsMove(q) /\ q.step # "cycle" => Cat!Apart(q.id, q.row.parent)
  PROVE  Cat!IInv'
<1>1. /\ change \in [Twins -> Cat!Request] /\ change' \in [Twins -> Cat!Request]
      /\ change'[r] = q /\ \A s \in Twins \ {r} : change'[s] = change[s]
  BY DEF Cat!IInv, Cat!TypeOK
<1>2. Cat!TypeOK' /\ Cat!Closed(Cat!Live)'
  BY <1>1, TreeStays DEF Cat!IInv, Cat!TypeOK
<1>3. ASSUME ~overlap' PROVE Cat!NoLoop' /\ Cat!OneMove' /\ Cat!StillApart'
  <2>1. Cat!NoLoop /\ Cat!OneMove /\ Cat!StillApart
    BY <1>3 DEF Cat!IInv
  <2>2. Cat!OneMove'
    BY <1>1, <1>3, <2>1 DEF Cat!OneMove, Cat!IsMove
  <2>3. ASSUME NEW s \in Twins, NEW x, x = change'[s], Cat!IsMove(x), x.step # "cycle"
        PROVE  Cat!Apart(x.id, x.row.parent)'
    <3>1. Cat!Apart(x.id, x.row.parent)
      BY <1>1, <1>3, <2>1, <2>3 DEF Cat!StillApart
    <3>. QED  BY <3>1, TreeStays
  <2>4. Cat!StillApart'
    BY <2>3 DEF Cat!StillApart, Cat!Apart, Cat!IsMove, Cat!Live, Cat!Closed
  <2>. QED  BY <2>1, <2>2, <2>4, TreeStays
<1>. QED  BY <1>2, <1>3 DEF Cat!IInv

LEMMA ChangeShape ==
  ASSUME Cat!IInv, NEW r \in Twins
  PROVE  /\ change[r] \in Cat!Request /\ change[r].row \in Cat!Row
         /\ change[r].row.parent \in Nodes \cup {None}
         /\ change[r].id \in Nodes \cup {None}
BY DEF Cat!IInv, Cat!TypeOK, Cat!Request, Cat!Row

LEMMA RequestEnds ==
  ASSUME Cat!IInv, NEW r \in Twins, Cat!Refuse(r)
  PROVE  Cat!IInv'
<1>1. Cat!NoRequest \in Cat!Request /\ ~Cat!IsMove(Cat!NoRequest)
  BY DEF Cat!NoRequest, Cat!Request, Cat!Row, Cat!Types, Cat!IsMove
<1>2. /\ change' = [change EXCEPT ![r] = Cat!NoRequest] /\ UNCHANGED tree
      /\ overlap' = overlap /\ overlap' \in BOOLEAN
  BY DEF Cat!Refuse, Cat!IInv, Cat!TypeOK
<1>. QED  BY <1>1, <1>2, RequestMoves

(* A move that goes on to its next step has been checked.                  *)
LEMMA RequestGoes ==
  ASSUME Cat!IInv, NEW r \in Twins, NEW s \in {"parent", "depth", "write"}, Cat!Go(r, s),
         change[r].step # "idle",
         overlap \/ (Cat!IsMove(change[r]) => Cat!Apart(change[r].id, change[r].row.parent))
  PROVE  Cat!IInv'
<1>1. PICK old : old = change[r]
  OBVIOUS
<1>2. PICK q : q = [old EXCEPT !.step = s]
  OBVIOUS
<1>3. /\ q \in Cat!Request /\ q.id = old.id /\ q.row = old.row /\ q.op = old.op /\ q.step = s
  BY <1>1, <1>2, ChangeShape DEF Cat!Request
<1>4. Cat!IsMove(q) <=> Cat!IsMove(old)
  BY <1>1, <1>3 DEF Cat!IsMove
<1>5. change' = [change EXCEPT ![r] = q] /\ UNCHANGED <<tree, overlap>>
  BY <1>1, <1>2 DEF Cat!Go
<1>6. overlap' \in BOOLEAN
  BY <1>5 DEF Cat!IInv, Cat!TypeOK
<1>7. \/ overlap
      \/ /\ Cat!IsMove(q) => \A t \in Twins \ {r} : ~Cat!IsMove(change[t])
         /\ Cat!IsMove(q) => Cat!Apart(q.id, q.row.parent)
  BY <1>1, <1>3, <1>4 DEF Cat!IInv, Cat!OneMove
<1>. QED  BY <1>3, <1>5, <1>6, <1>7, RequestMoves

LEMMA CreateBegins ==
  ASSUME Cat!IInv, NEW r \in Twins, NEW row \in Cat!Row, Cat!BeginCreate(r, row)
  PROVE  Cat!IInv'
<1>. DEFINE q == [step |-> "parent", op |-> "create", id |-> None, row |-> row]
<1>1. q \in Cat!Request /\ ~Cat!IsMove(q)
  BY DEF Cat!Request, Cat!IsMove
<1>2. /\ change' = [change EXCEPT ![r] = q] /\ UNCHANGED tree
      /\ overlap' = overlap /\ overlap' \in BOOLEAN
  BY DEF Cat!BeginCreate, Cat!IInv, Cat!TypeOK
<1>. HIDE DEF q
<1>. QED  BY <1>1, <1>2, RequestMoves

LEMMA UpdateBegins ==
  ASSUME Cat!IInv, NEW r \in Twins, NEW c \in Nodes, NEW row \in Cat!Row, Cat!BeginUpdate(r, c, row)
  PROVE  Cat!IInv'
<1>. DEFINE q == [step |-> "cycle", op |-> "update", id |-> c, row |-> row]
<1>1. /\ q \in Cat!Request /\ q.step = "cycle"
      /\ Cat!IsMove(q) => row.parent # None
  BY DEF Cat!Request, Cat!IsMove
<1>2. /\ change' = [change EXCEPT ![r] = q] /\ UNCHANGED tree
      /\ overlap' = (overlap \/ (row.parent # None /\ \E s \in Twins : Cat!IsMove(change[s])))
  BY DEF Cat!BeginUpdate
<1>. HIDE DEF q
<1>3. overlap' \in BOOLEAN /\ (overlap => overlap')
  BY <1>2 DEF Cat!IInv, Cat!TypeOK
<1>4. \/ overlap'
      \/ /\ Cat!IsMove(q) => \A s \in Twins \ {r} : ~Cat!IsMove(change[s])
         /\ Cat!IsMove(q) /\ q.step # "cycle" => Cat!Apart(q.id, q.row.parent)
  BY <1>1, <1>2
<1>. QED  BY <1>1, <1>2, <1>3, <1>4, RequestMoves

(* What the check of a move establishes: the rows above the new parent are *)
(* a set without the category, and whole.                                  *)
LEMMA CycleIsChecked ==
  ASSUME Cat!IInv, NEW r \in Twins, Cat!CheckCycle(r)
  PROVE  Cat!IInv'
<1>. DEFINE c == change[r].id
            p == change[r].row.parent
<1>1. /\ Cat!Line(p) \subseteq Cat!Live /\ Cat!Closed(Cat!Line(p))
      /\ p \in Cat!Live => p \in Cat!Line(p)
  BY LineIsClosed DEF Cat!IInv, Cat!TypeOK
<1>2. CASE c \notin Cat!Line(p) \cup {p} /\ Cat!Go(r, "parent")
  <2>1. Cat!Apart(c, p)
    BY <1>1, <1>2 DEF Cat!Apart
  <2>2. change[r].step # "idle"
    BY DEF Cat!CheckCycle
  <2>. QED  BY <1>2, <2>1, <2>2, RequestGoes
<1>3. CASE Cat!Refuse(r)
  BY <1>3, RequestEnds
<1>. QED  BY <1>2, <1>3 DEF Cat!CheckCycle

LEMMA ParentIsChecked ==
  ASSUME Cat!IInv, NEW r \in Twins, Cat!CheckParent(r) \/ Cat!CheckDepth(r)
  PROVE  Cat!IInv'
<1>1. change[r].step \in {"parent", "depth"}
  BY DEF Cat!CheckParent, Cat!CheckDepth
<1>2. overlap \/ (Cat!IsMove(change[r]) => Cat!Apart(change[r].id, change[r].row.parent))
  BY <1>1 DEF Cat!IInv, Cat!StillApart
<1>3. CASE Cat!Refuse(r)
  BY <1>3, RequestEnds
<1>4. CASE Cat!Go(r, "depth") \/ Cat!Go(r, "write")
  BY <1>1, <1>2, <1>4, RequestGoes
<1>. QED  BY <1>3, <1>4 DEF Cat!CheckParent, Cat!CheckDepth
-----------------------------------------------------------------------------
(* The tables after one row was written.                                   *)

LEMMA RowIsWritten ==
  ASSUME Cat!IInv, NEW c \in Nodes, NEW row \in Cat!Row,
         row.parent # None => row.parent \in Cat!Live,
         tree' = [tree EXCEPT ![c] = row]
  PROVE  /\ tree' \in [Nodes -> Cat!Row \cup {Absent}]
         /\ Cat!Live' = Cat!Live \cup {c}
         /\ tree'[c] = row /\ \A d \in Nodes \ {c} : tree'[d] = tree[d]
         /\ Cat!Closed(Cat!Live)'
<1>1. tree \in [Nodes -> Cat!Row \cup {Absent}] /\ row # Absent
  BY CatConstants DEF Cat!IInv, Cat!TypeOK
<1>2. /\ tree' \in [Nodes -> Cat!Row \cup {Absent}]
      /\ tree'[c] = row /\ \A d \in Nodes \ {c} : tree'[d] = tree[d]
  BY <1>1
<1>3. Cat!Live' = Cat!Live \cup {c}
  BY <1>1, <1>2 DEF Cat!Live
<1>4. ASSUME NEW d \in Cat!Live' PROVE tree'[d].parent \in Cat!Live' \cup {None}
  <2>1. CASE d = c
    BY <1>2, <1>3, <2>1
  <2>2. CASE d # c
    <3>1. d \in Cat!Live /\ d \in Nodes /\ tree'[d] = tree[d]
      BY <1>2, <1>3, <1>4, <2>2 DEF Cat!Live
    <3>2. tree[d].parent \in Cat!Live \cup {None}
      BY <3>1 DEF Cat!IInv, Cat!Closed
    <3>. QED  BY <1>3, <3>1, <3>2
  <2>. QED  BY <2>1, <2>2
<1>5. Cat!Closed(Cat!Live)'
  BY <1>4 DEF Cat!Closed
<1>. QED  BY <1>2, <1>3, <1>5

(* It closes no loop if the new parent has a set apart from the row.       *)
LEMMA WriteMakesNoLoop ==
  ASSUME Cat!IInv, Cat!NoLoop, NEW c \in Nodes, NEW row \in Cat!Row,
         row.parent # None => row.parent \in Cat!Live /\ Cat!Apart(c, row.parent),
         tree' = [tree EXCEPT ![c] = row]
  PROVE  Cat!NoLoop'
<1>1. /\ Cat!Live' = Cat!Live \cup {c} /\ Cat!Live \subseteq Nodes
      /\ tree'[c] = row /\ \A d \in Nodes \ {c} : tree'[d] = tree[d]
  BY RowIsWritten DEF Cat!Live
<1>. SUFFICES ASSUME NEW S \in SUBSET (Cat!Live \cup {c}), S # {}, \A d \in S : tree'[d].parent \in S
              PROVE  FALSE
  BY <1>1 DEF Cat!NoLoop
<1>2. \A B \in SUBSET Cat!Live : B # {} => \E d \in B : tree[d].parent \notin B
  BY DEF Cat!NoLoop
<1>3. CASE c \notin S
  BY <1>1, <1>2, <1>3
<1>4. CASE c \in S
  <2>1. row.parent \in S /\ row.parent # None
    BY <1>1, <1>4, CatConstants
  <2>2. PICK A \in SUBSET (Cat!Live \ {c}) : row.parent \in A /\ Cat!Closed(A)
    BY <2>1 DEF Cat!Apart
  <2>3. ASSUME NEW d \in S \cap A PROVE tree[d].parent \in S \cap A
    <3>1. tree[d].parent = tree'[d].parent
      BY <1>1, <2>3
    <3>2. tree[d].parent \in S /\ tree[d].parent \in A \cup {None} /\ tree[d].parent # None
      BY <1>1, <2>2, <2>3, <3>1, CatConstants DEF Cat!Closed
    <3>. QED  BY <3>2
  <2>4. S \cap A \in SUBSET Cat!Live /\ S \cap A # {}
    BY <2>1, <2>2
  <2>. QED  BY <1>2, <2>3, <2>4
<1>. QED  BY <1>3, <1>4

(* A new row, or one that loses its parent, keeps apart what is apart.     *)
LEMMA WriteKeepsApart ==
  ASSUME Cat!IInv, NEW c \in Nodes, NEW row \in Cat!Row,
         row.parent # None => row.parent \in Cat!Live /\ c \notin Cat!Live,
         tree' = [tree EXCEPT ![c] = row],
         NEW i, NEW p, p = c => c \in Cat!Live, Cat!Apart(i, p)
  PROVE  Cat!Apart(i, p)'
<1>1. /\ Cat!Live' = Cat!Live \cup {c} /\ Cat!Live \subseteq Nodes
      /\ tree'[c] = row /\ \A d \in Nodes \ {c} : tree'[d] = tree[d]
  BY RowIsWritten DEF Cat!Live
<1>. SUFFICES ASSUME p \in Cat!Live'
              PROVE  \E A \in SUBSET (Cat!Live' \ {i}) : p \in A /\ \A d \in A : tree'[d].parent \in A \cup {None}
  BY DEF Cat!Apart, Cat!Closed
<1>2. PICK A \in SUBSET (Cat!Live \ {i}) : p \in A /\ Cat!Closed(A)
  BY <1>1 DEF Cat!Apart
<1>3. ASSUME NEW d \in A PROVE tree'[d].parent \in A \cup {None}
  BY <1>1, <1>2 DEF Cat!Closed
<1>. QED  BY <1>1, <1>2, <1>3

(* The written row keeps the invariant if it closes no loop and the moves  *)
(* that are left stay apart.                                               *)
LEMMA WriteEnds ==
  ASSUME Cat!IInv, NEW r \in Twins, NEW c \in Nodes, NEW row \in Cat!Row,
         row.parent # None => row.parent \in Cat!Live,
         tree' = [tree EXCEPT ![c] = row],
         change' = [change EXCEPT ![r] = Cat!NoRequest], UNCHANGED overlap,
         ~overlap /\ row.parent # None => Cat!Apart(c, row.parent),
         ~overlap => \A s \in Twins \ {r} : Cat!IsMove(change[s]) =>
                       /\ row.parent # None => c \notin Cat!Live
                       /\ change[s].row.parent = c => c \in Cat!Live
  PROVE  Cat!IInv'
<1>1. Cat!NoRequest \in Cat!Request /\ ~Cat!IsMove(Cat!NoRequest)
  BY DEF Cat!NoRequest, Cat!Request, Cat!Row, Cat!Types, Cat!IsMove
<1>2. /\ change \in [Twins -> Cat!Request] /\ change' \in [Twins -> Cat!Request]
      /\ change'[r] = Cat!NoRequest /\ \A s \in Twins \ {r} : change'[s] = change[s]
  BY <1>1 DEF Cat!IInv, Cat!TypeOK
<1>3. Cat!TypeOK' /\ Cat!Closed(Cat!Live)'
  BY <1>2, RowIsWritten DEF Cat!IInv, Cat!TypeOK
<1>4. ASSUME ~overlap PROVE Cat!NoLoop' /\ Cat!OneMove' /\ Cat!StillApart'
  <2>1. Cat!NoLoop /\ Cat!OneMove /\ Cat!StillApart
    BY <1>4 DEF Cat!IInv
  <2>2. Cat!NoLoop'
    BY <1>4, <2>1, WriteMakesNoLoop
  <2>3. Cat!OneMove'
    BY <1>1, <1>2, <2>1 DEF Cat!OneMove
  <2>4. ASSUME NEW s \in Twins, NEW x, x = change'[s], Cat!IsMove(x), x.step # "cycle"
        PROVE  Cat!Apart(x.id, x.row.parent)'
    <3>1. s # r /\ x = change[s]
      BY <1>1, <1>2, <2>4
    <3>2. Cat!Apart(x.id, x.row.parent)
      BY <2>1, <2>4, <3>1 DEF Cat!StillApart
    <3>3. /\ row.parent # None => row.parent \in Cat!Live /\ c \notin Cat!Live
          /\ x.row.parent = c => c \in Cat!Live
      BY <1>4, <2>4, <3>1
    <3>. QED  BY <3>2, <3>3, WriteKeepsApart
  <2>5. Cat!StillApart'
    BY <2>4 DEF Cat!StillApart, Cat!Apart, Cat!IsMove, Cat!Live, Cat!Closed
  <2>. QED  BY <2>2, <2>3, <2>5
<1>. QED  BY <1>3, <1>4 DEF Cat!IInv

LEMMA CategoryIsWritten ==
  ASSUME Cat!IInv, NEW r \in Twins, Cat!Write(r)
  PROVE  Cat!IInv'
<1>1. PICK q : q = change[r]
  OBVIOUS
<1>2. /\ q \in Cat!Request /\ q.step = "write" /\ q.row \in Cat!Row
  BY <1>1, ChangeShape DEF Cat!Write
<1>3. CASE Cat!Refuse(r)
  BY <1>3, RequestEnds
<1>4. ASSUME NEW c \in (IF q.op = "create" THEN Cat!Fresh ELSE {q.id} \cap Cat!Live),
             Cat!KeepsForeignKey(c, q.row), tree' = [tree EXCEPT ![c] = q.row],
             change' = [change EXCEPT ![r] = Cat!NoRequest], UNCHANGED overlap
      PROVE  Cat!IInv'
  <2>1. q.row.parent # None => q.row.parent \in Cat!Live
    BY <1>4 DEF Cat!KeepsForeignKey
  <2>2. CASE q.op = "create"
    <3>1. c \in Nodes /\ c \notin Cat!Live /\ \A s \in Twins : change[s].row.parent # c
      BY <1>4, <2>2 DEF Cat!Fresh
    <3>2. q.row.parent # None => Cat!Apart(c, q.row.parent)
      BY <2>1, <3>1 DEF Cat!Apart, Cat!IInv
    <3>. QED  BY <1>2, <1>4, <2>1, <3>1, <3>2, WriteEnds
  <2>3. CASE q.op = "update"
    <3>1. c = q.id /\ c \in Cat!Live /\ c \in Nodes
      BY <1>4, <2>3 DEF Cat!Live
    <3>2. q.row.parent # None => Cat!IsMove(q)
      BY <1>2, <2>3 DEF Cat!IsMove
    <3>3. ~overlap /\ q.row.parent # None => Cat!Apart(c, q.row.parent)
      BY <1>1, <1>2, <3>1, <3>2 DEF Cat!IInv, Cat!StillApart
    <3>4. ~overlap => \A s \in Twins \ {r} : Cat!IsMove(change[s]) => q.row.parent = None
      BY <1>1, <3>2 DEF Cat!IInv, Cat!OneMove
    <3>. QED  BY <1>2, <1>4, <2>1, <3>1, <3>3, <3>4, WriteEnds
  <2>. QED  BY <1>2, <2>2, <2>3 DEF Cat!Request
<1>. QED  BY <1>1, <1>3, <1>4 DEF Cat!Write

(* A category without children is in no set but as a leaf.                 *)
LEMMA CategoryIsDeleted ==
  ASSUME Cat!IInv, NEW c \in Nodes, Cat!Delete(c)
  PROVE  Cat!IInv'
<1>1. /\ c \in Cat!Live /\ \A d \in Cat!Live : tree[d].parent # c
      /\ tree' = [tree EXCEPT ![c] = Absent] /\ UNCHANGED <<change, overlap>>
  BY DEF Cat!Delete, Cat!Children
<1>2. tree \in [Nodes -> Cat!Row \cup {Absent}]
  BY DEF Cat!IInv, Cat!TypeOK
<1>3. /\ tree' \in [Nodes -> Cat!Row \cup {Absent}]
      /\ \A d \in Nodes \ {c} : tree'[d] = tree[d]
      /\ Cat!Live' = Cat!Live \ {c} /\ Cat!Live \subseteq Nodes
  BY <1>1, <1>2 DEF Cat!Live
<1>4. Cat!TypeOK'
  BY <1>1, <1>3 DEF Cat!IInv, Cat!TypeOK
<1>5. Cat!Closed(Cat!Live)'
  <2>1. \A d \in Cat!Live \ {c} : tree[d].parent \in (Cat!Live \ {c}) \cup {None}
    BY <1>1 DEF Cat!IInv, Cat!Closed
  <2>. QED  BY <1>3, <2>1 DEF Cat!Closed
<1>6. Cat!NoLoop => Cat!NoLoop'
  BY <1>3 DEF Cat!NoLoop
<1>7. ASSUME NEW i, NEW p, Cat!Apart(i, p) PROVE Cat!Apart(i, p)'
  <2>. SUFFICES ASSUME p \in Cat!Live'
                PROVE  \E A \in SUBSET (Cat!Live' \ {i}) : p \in A /\ \A d \in A : tree'[d].parent \in A \cup {None}
    BY DEF Cat!Apart, Cat!Closed
  <2>1. PICK A \in SUBSET (Cat!Live \ {i}) : p \in A /\ Cat!Closed(A)
    BY <1>3, <1>7 DEF Cat!Apart
  <2>2. \A d \in A \ {c} : tree'[d].parent \in (A \ {c}) \cup {None}
    BY <1>1, <1>3, <2>1 DEF Cat!Closed
  <2>3. A \ {c} \in SUBSET (Cat!Live' \ {i}) /\ p \in A \ {c}
    BY <1>3, <2>1
  <2>. QED  BY <2>2, <2>3
<1>8. Cat!OneMove /\ Cat!StillApart => Cat!OneMove' /\ Cat!StillApart'
  <2>1. Cat!OneMove => Cat!OneMove'
    BY <1>1 DEF Cat!OneMove
  <2>2. ASSUME Cat!StillApart, NEW s \in Twins, NEW x, x = change'[s], Cat!IsMove(x), x.step # "cycle"
        PROVE  Cat!Apart(x.id, x.row.parent)'
    <3>1. Cat!Apart(x.id, x.row.parent)
      BY <1>1, <2>2 DEF Cat!StillApart
    <3>. QED  BY <1>7, <3>1
  <2>3. Cat!StillApart => Cat!StillApart'
    BY <2>2 DEF Cat!StillApart, Cat!Apart, Cat!IsMove, Cat!Live, Cat!Closed
  <2>. QED  BY <2>1, <2>3
<1>. QED  BY <1>1, <1>4, <1>5, <1>6, <1>8 DEF Cat!IInv

LEMMA CatNext == Cat!IInv /\ Cat!Next => Cat!IInv'
<1>. SUFFICES ASSUME Cat!IInv, Cat!Next PROVE Cat!IInv'
  OBVIOUS
<1>1. Cat!Live \subseteq Nodes
  BY DEF Cat!Live
<1>2. \A t \in Cat!Types, p \in Cat!Live \cup {None} : [type |-> t, parent |-> p] \in Cat!Row
  BY <1>1 DEF Cat!Row
<1>3. ASSUME NEW r \in Twins, NEW t \in Cat!Types, NEW p \in Cat!Live \cup {None},
             \/ Cat!BeginCreate(r, [type |-> t, parent |-> p])
             \/ \E c \in Cat!Live : Cat!BeginUpdate(r, c, [type |-> t, parent |-> p])
      PROVE  Cat!IInv'
  BY <1>1, <1>2, <1>3, CreateBegins, UpdateBegins
<1>4. ASSUME NEW r \in Twins,
             Cat!CheckCycle(r) \/ Cat!CheckParent(r) \/ Cat!CheckDepth(r) \/ Cat!Write(r) \/ Cat!GiveUp(r)
      PROVE  Cat!IInv'
  BY <1>4, CycleIsChecked, ParentIsChecked, CategoryIsWritten, RequestEnds DEF Cat!GiveUp
<1>. QED  BY <1>3, <1>4, CategoryIsDeleted DEF Cat!Next

LEMMA CatUnchanged == Cat!IInv /\ UNCHANGED categoriesVars => Cat!IInv'
<1>. SUFFICES ASSUME Cat!IInv, UNCHANGED <<tree, change, overlap>> PROVE Cat!IInv'
  BY DEF categoriesVars
<1>1. Cat!TypeOK' /\ Cat!Closed(Cat!Live)' /\ (Cat!NoLoop => Cat!NoLoop')
  BY TreeStays DEF Cat!IInv, Cat!TypeOK
<1>2. Cat!OneMove /\ Cat!StillApart => Cat!OneMove' /\ Cat!StillApart'
  BY DEF Cat!OneMove, Cat!StillApart, Cat!Apart, Cat!IsMove, Cat!Live, Cat!Closed
<1>. QED  BY <1>1, <1>2 DEF Cat!IInv

(* Above a row that no query ends for, all parents would be among them.    *)
LEMMA CatSafe == Cat!IInv => Cat!ForestAlone
<1>. SUFFICES ASSUME Cat!IInv, ~overlap, NEW c \in Cat!Live, Cat!Endless(c) PROVE FALSE
  BY DEF Cat!ForestAlone
<1>1. /\ Cat!Line(c) \subseteq Cat!Live /\ Cat!Closed(Cat!Line(c)) /\ c \in Cat!Line(c)
  BY LineIsClosed DEF Cat!IInv, Cat!TypeOK
<1>2. \A d \in Cat!Line(c) : tree[d].parent \in Cat!Line(c)
  BY <1>1 DEF Cat!Endless, Cat!Closed
<1>. QED  BY <1>1, <1>2 DEF Cat!IInv, Cat!NoLoop

(***************************************************************************)
(* Reports.                                                                *)
(***************************************************************************)

LEMMA ReportInit == Rep!Init => Rep!TypeOK
BY DEF Rep!Init, Rep!TypeOK

LEMMA ReportNext == Rep!TypeOK /\ Rep!Next => Rep!TypeOK'
<1>. SUFFICES ASSUME Rep!TypeOK, Rep!Next PROVE Rep!TypeOK'
  OBVIOUS
<1>1. ASSUME NEW i \in Twins, NEW t \in Rep!Rows, Rep!Record(i, t) \/ Rep!Edit(i, t)
      PROVE  Rep!TypeOK'
  <2>1. tx' = [tx EXCEPT ![i] = t] /\ UNCHANGED <<joined, limit>>
    BY <1>1 DEF Rep!Record, Rep!Edit
  <2>. QED  BY <2>1 DEF Rep!TypeOK
<1>2. ASSUME NEW i \in Twins, Rep!Remove(i) PROVE Rep!TypeOK'
  BY <1>2 DEF Rep!TypeOK, Rep!Remove
<1>3. ASSUME NEW w \in Reported, NEW u \in Users, Rep!Share(w, u) PROVE Rep!TypeOK'
  BY <1>3 DEF Rep!TypeOK, Rep!Share
<1>4. ASSUME NEW c \in Categories, NEW l \in Limits \cup {None}, Rep!SetBudget(c, l) PROVE Rep!TypeOK'
  BY <1>4 DEF Rep!TypeOK, Rep!SetBudget
<1>. QED  BY <1>1, <1>2, <1>3, <1>4 DEF Rep!Next

LEMMA ReportUnchanged == Rep!TypeOK /\ UNCHANGED reportsVars => Rep!TypeOK'
BY DEF Rep!TypeOK, reportsVars

(* The instance's sums are those of `Sums`.                                *)
LEMMA RepSumIs ==
  ASSUME NEW f, NEW S
  PROVE  Rep!SumFunctionOnSet(f, S) = SumFunctionOnSet(f, S)
BY DEF Rep!SumFunctionOnSet, Rep!FoldFunctionOnSet, Rep!MapThenFoldSet,
       SumFunctionOnSet, FoldFunctionOnSet, MapThenFoldSet

LEMMA RepSum ==
  ASSUME NEW f
  PROVE  Rep!SumFunction(f) = SumFunctionOnSet(f, DOMAIN f)
BY RepSumIs DEF Rep!SumFunction

LEMMA RepConstants ==
  /\ IsFiniteSet(Reported) /\ IsFiniteSet(Categories) /\ IsFiniteSet(Twins)
  /\ None \notin Categories
  /\ \A c \in Categories :
       LET p == CategoryOf[c].parent IN
       /\ CategoryOf[c].user \in Users
       /\ CategoryOf[c].type \in {"income", "expense"}
       /\ p # None => /\ p \in Categories
                      /\ CategoryOf[p].user = CategoryOf[c].user
                      /\ CategoryOf[p].type = CategoryOf[c].type
  /\ WeekOf \in [Dates -> 1 .. 53] /\ MonthOf \in [Dates -> Nat]
  /\ Amounts \cup Limits \subseteq Nat \ {0}
BY PartsAssumption DEF Rep!ReportsConstants, Rep!IsFiniteSet, IsFiniteSet

(* What is known of a row.                                                 *)
LEMMA RepRows ==
  ASSUME Rep!TypeOK, NEW i \in Rep!OpenRows
  PROVE  /\ i \in Twins /\ tx[i].amount \in Nat /\ tx[i].wallet \in Reported /\ tx[i].date \in Dates
         /\ tx[i].type \in {"income", "expense"} =>
              /\ tx[i].to = None /\ tx[i].category \in Categories
              /\ CategoryOf[tx[i].category].user = tx[i].user
              /\ CategoryOf[tx[i].category].type = tx[i].type
<1>1. i \in Twins /\ tx[i] \in Rep!Rows
  BY DEF Rep!TypeOK, Rep!OpenRows
<1>. QED  BY <1>1, RepConstants DEF Rep!Rows

LEMMA RepOpen == Rep!OpenRows \subseteq Twins
BY DEF Rep!OpenRows

(* The amount of a row.                                                    *)
Value == [i \in Twins |-> tx[i].amount]

LEMMA RepSumOf ==
  ASSUME Rep!TypeOK, NEW S, S \subseteq Rep!OpenRows
  PROVE  /\ IsFiniteSet(S)
         /\ \A i \in S : Value[i] \in Nat
         /\ Rep!SumOf(S) = SumFunctionOnSet(Value, S)
         /\ Rep!SumOf(S) \in Nat
<1>. DEFINE f == [i \in S |-> tx[i].amount]
<1>1. IsFiniteSet(S)
  BY RepOpen, RepConstants, FS_Subset
<1>2. \A i \in S : Value[i] \in Nat /\ f[i] = Value[i]
  BY RepRows DEF Value
<1>3. Rep!SumOf(S) = SumFunctionOnSet(f, S)
  BY RepSum DEF Rep!SumOf
<1>. HIDE DEF f
<1>4. SumFunctionOnSet(f, S) = SumFunctionOnSet(Value, S)
  BY <1>1, <1>2, SumAgree
<1>5. SumFunctionOnSet(Value, S) \in Nat
  BY <1>1, <1>2, SumNat
<1>. QED  BY <1>1, <1>2, <1>3, <1>4, <1>5

(* A figure that adds up the sums of the groups of a set of rows is the    *)
(* sum of the set.                                                         *)
LEMMA RepGroups ==
  ASSUME Rep!TypeOK, NEW S, S \subseteq Rep!OpenRows, NEW K, IsFiniteSet(K),
         NEW A, NEW f, DOMAIN f = K,
         \A k \in K : A[k] \subseteq S /\ f[k] = Rep!SumOf(A[k]),
         \A i \in S : \E k \in K : i \in A[k],
         \A k, l \in K : k # l => A[k] \cap A[l] = {}
  PROVE  Rep!SumFunction(f) = Rep!SumOf(S)
<1>1. \A k \in K : /\ IsFiniteSet(A[k])
                   /\ \A i \in A[k] : Value[i] \in Int
                   /\ f[k] = SumFunctionOnSet(Value, A[k])
  BY RepSumOf
<1>2. Groups(A, K, S, Value, f)
  BY <1>1 DEF Groups
<1>3. Rep!SumFunction(f) = SumFunctionOnSet(f, K)
  BY RepSum
<1>. QED  BY <1>2, <1>3, SumOfSums, RepSumOf

(* Of incomes and expenses, which have one wallet, all queries see the     *)
(* same rows.                                                              *)
LEMMA RepShown ==
  ASSUME Rep!TypeOK, NEW u, NEW m, NEW k \in {"income", "expense"}
  PROVE  /\ Rep!OfType(k, Rep!Accessible(u) \cap Rep!In(m)) = Rep!OfType(k, Rep!OnDashboard(u) \cap Rep!In(m))
         /\ Rep!OfType(k, Rep!OnDashboard(u) \cap Rep!In(m)) \subseteq Rep!OpenRows
<1>1. \A i \in Rep!OpenRows : tx[i].type = k => tx[i].to = None
  BY RepRows
<1>2. ~ Rep!HasAccess(u, None)
  BY DEF Rep!HasAccess
<1>. QED  BY <1>1, <1>2 DEF Rep!OfType, Rep!Accessible, Rep!OnDashboard

(* The report groups by names, ...                                         *)
LEMMA ReportTotal ==
  ASSUME Rep!TypeOK, NEW u, NEW m, NEW k \in {"income", "expense"}
  PROVE  Rep!Report(u, k, m).total = Rep!SumOf(Rep!OfType(k, Rep!OnDashboard(u) \cap Rep!In(m)))
<1>. DEFINE S == Rep!OfType(k, Rep!OnDashboard(u) \cap Rep!In(m))
            name == [i \in S |-> CategoryOf[tx[i].category].name]
            K == {name[i] : i \in S}
            A == [n \in K |-> {i \in S : name[i] = n}]
            f == Rep!GetIncomeExpenseAggregation(u, k, m)
<1>1. S \subseteq Rep!OpenRows /\ IsFiniteSet(S)
  BY RepShown, RepSumOf
<1>2. IsFiniteSet(K)
  BY <1>1, FiniteImage
<1>3. f = [n \in K |-> Rep!SumOf(A[n])]
  <2>. DEFINE T == Rep!OfType(k, Rep!Accessible(u) \cap Rep!In(m))
              N(i) == CategoryOf[tx[i].category].name
  <2>1. T = S
    BY RepShown
  <2>2. f = [n \in {N(i) : i \in T} |-> Rep!SumOf({i \in T : N(i) = n})]
    BY DEF Rep!GetIncomeExpenseAggregation
  <2>. HIDE DEF S, T, f
  <2>3. f = [n \in {N(i) : i \in S} |-> Rep!SumOf({i \in S : N(i) = n})]
    BY <2>1, <2>2
  <2>4. K = {N(i) : i \in S} /\ \A n : {i \in S : N(i) = n} = {i \in S : name[i] = n}
    OBVIOUS
  <2>. QED  BY <2>3, <2>4
<1>4. Rep!Report(u, k, m).total = Rep!SumFunction(f)
  BY DEF Rep!Report
<1>5. /\ DOMAIN f = K
      /\ \A n \in K : A[n] \subseteq S /\ f[n] = Rep!SumOf(A[n])
      /\ \A i \in S : \E n \in K : i \in A[n]
      /\ \A n, l \in K : n # l => A[n] \cap A[l] = {}
  BY <1>3
<1>. HIDE DEF S, K, A, f
<1>6. Rep!SumFunction(f) = Rep!SumOf(S)
  BY <1>1, <1>2, <1>5, RepGroups
<1>. QED  BY <1>4, <1>6 DEF S

(* ... the cash flow by weeks, ...                                         *)
LEMMA CashflowTotals ==
  ASSUME Rep!TypeOK, NEW u, NEW m
  PROVE  /\ Rep!CashflowReport(u, m).income = Rep!Income(Rep!OnDashboard(u) \cap Rep!In(m))
         /\ Rep!CashflowReport(u, m).expense = Rep!Expense(Rep!OnDashboard(u) \cap Rep!In(m))
<1>. DEFINE S == Rep!Accessible(u) \cap Rep!In(m)
            I == Rep!OfType("income", S)
            E == Rep!OfType("expense", S)
            week == [i \in I \cup E |-> WeekOf[tx[i].date]]
            K == {week[i] : i \in I \cup E}
            W == [w \in K |-> {i \in S : WeekOf[tx[i].date] = w}]
            IW == [w \in K |-> Rep!OfType("income", W[w])]
            EW == [w \in K |-> Rep!OfType("expense", W[w])]
            weeks == Rep!GetWeeklyCashflow(u, m)
            fi == [w \in DOMAIN weeks |-> weeks[w].income]
            fe == [w \in DOMAIN weeks |-> weeks[w].expense]
<1>1. /\ I = Rep!OfType("income", Rep!OnDashboard(u) \cap Rep!In(m))
      /\ E = Rep!OfType("expense", Rep!OnDashboard(u) \cap Rep!In(m))
      /\ I \subseteq Rep!OpenRows /\ E \subseteq Rep!OpenRows
  BY RepShown
<1>2. IsFiniteSet(I \cup E)
  BY <1>1, RepSumOf, FS_Union
<1>3. IsFiniteSet(K)
  BY <1>2, FiniteImage
<1>4. weeks = [w \in K |-> [income |-> Rep!Income(W[w]), expense |-> Rep!Expense(W[w])]]
  BY DEF Rep!GetWeeklyCashflow
<1>5. /\ Rep!CashflowReport(u, m).income = Rep!SumFunction(fi)
      /\ Rep!CashflowReport(u, m).expense = Rep!SumFunction(fe)
  BY DEF Rep!CashflowReport
<1>6. /\ DOMAIN fi = K /\ DOMAIN fe = K
      /\ \A w \in K : /\ IW[w] \subseteq I /\ fi[w] = Rep!SumOf(IW[w])
                      /\ EW[w] \subseteq E /\ fe[w] = Rep!SumOf(EW[w])
  <2>. HIDE DEF weeks, K, S
  <2>1. DOMAIN weeks = K
    BY <1>4
  <2>2. ASSUME NEW w \in K
        PROVE  fi[w] = Rep!SumOf(IW[w]) /\ fe[w] = Rep!SumOf(EW[w])
    BY <1>4, <2>1 DEF Rep!Income, Rep!Expense
  <2>. QED  BY <2>1, <2>2 DEF Rep!OfType
<1>7. /\ \A i \in I : \E w \in K : i \in IW[w]
      /\ \A i \in E : \E w \in K : i \in EW[w]
      /\ \A w, x \in K : w # x => IW[w] \cap IW[x] = {} /\ EW[w] \cap EW[x] = {}
  BY DEF Rep!OfType
<1>. HIDE DEF S, I, E, K, IW, EW, fi, fe
<1>8. Rep!SumFunction(fi) = Rep!SumOf(I)
  <2>1. \A w \in K : IW[w] \subseteq I /\ fi[w] = Rep!SumOf(IW[w])
    BY <1>6
  <2>2. \A w, x \in K : w # x => IW[w] \cap IW[x] = {}
    BY <1>7
  <2>3. DOMAIN fi = K /\ I \subseteq Rep!OpenRows /\ \A i \in I : \E w \in K : i \in IW[w]
    BY <1>1, <1>6, <1>7
  <2>. QED  BY <1>3, <2>1, <2>2, <2>3, RepGroups
<1>9. Rep!SumFunction(fe) = Rep!SumOf(E)
  <2>1. \A w \in K : EW[w] \subseteq E /\ fe[w] = Rep!SumOf(EW[w])
    BY <1>6
  <2>2. \A w, x \in K : w # x => EW[w] \cap EW[x] = {}
    BY <1>7
  <2>3. DOMAIN fe = K /\ E \subseteq Rep!OpenRows /\ \A i \in E : \E w \in K : i \in EW[w]
    BY <1>1, <1>6, <1>7
  <2>. QED  BY <1>3, <2>1, <2>2, <2>3, RepGroups
<1>. QED  BY <1>1, <1>5, <1>8, <1>9 DEF Rep!Income, Rep!Expense

(* ... the distribution by sets of roots, ...                              *)
LEMMA DistributionTotal ==
  ASSUME Rep!TypeOK, NEW u, NEW m
  PROVE  Rep!SumFunction(Rep!ExpenseDistribution(u, m)) = Rep!Expense(Rep!OnDashboard(u) \cap Rep!In(m))
<1>. DEFINE S == Rep!OfType("expense", Rep!OnDashboard(u) \cap Rep!In(m))
            root == [i \in S |-> {c \in Categories : /\ CategoryOf[c].user = u /\ CategoryOf[c].parent = None
                                                     /\ tx[i].category \in Rep!Subtree(c)}]
            K == {root[i] : i \in S}
            A == [r \in K |-> {i \in S : root[i] = r}]
            f == Rep!ExpenseDistribution(u, m)
<1>1. S \subseteq Rep!OpenRows /\ IsFiniteSet(S)
  BY RepShown, RepSumOf
<1>2. IsFiniteSet(K)
  BY <1>1, FiniteImage
<1>3. f = [r \in K |-> Rep!SumOf(A[r])]
  BY DEF Rep!ExpenseDistribution
<1>4. /\ DOMAIN f = K
      /\ \A n \in K : A[n] \subseteq S /\ f[n] = Rep!SumOf(A[n])
      /\ \A i \in S : \E n \in K : i \in A[n]
      /\ \A n, l \in K : n # l => A[n] \cap A[l] = {}
  BY <1>3
<1>. HIDE DEF S, K, A, f
<1>5. Rep!SumFunction(f) = Rep!SumOf(S)
  BY <1>1, <1>2, <1>4, RepGroups
<1>. QED  BY <1>5 DEF S, f, Rep!Expense

(* ... the analytics by wallets, which leaves the rows on lost wallets,    *)
(* and the export lists the rows.                                          *)
LEMMA WalletTotals ==
  ASSUME Rep!TypeOK, NEW u, NEW m,
         NEW mine, mine = {w \in Reported : Rep!HasAccess(u, w)},
         NEW lost, lost = {i \in Rep!In(m) : tx[i].user = u /\ tx[i].wallet \notin mine}
  PROVE  Rep!Expense(Rep!OnDashboard(u) \cap Rep!In(m)) =
           Rep!SumFunction([w \in mine |-> Rep!GetAnalytics(w, m).outflow]) + Rep!Expense(lost)
<1>. DEFINE S == Rep!OfType("expense", Rep!OnDashboard(u) \cap Rep!In(m))
            L == Rep!OfType("expense", lost)
            A == [w \in mine |-> Rep!OfType("expense", {i \in Rep!In(m) : tx[i].wallet = w})]
            f == [w \in mine |-> Rep!GetAnalytics(w, m).outflow]
<1>1. /\ S \subseteq Rep!OpenRows /\ IsFiniteSet(S) /\ L \subseteq S
      /\ \A i \in S : Value[i] \in Nat
  BY RepShown, RepSumOf DEF Rep!OfType, Rep!In, Rep!OnDashboard
<1>2. IsFiniteSet(mine)
  BY RepConstants, FS_Subset
<1>3. \A w \in mine : f[w] = Rep!SumOf(A[w])
  BY DEF Rep!GetAnalytics, Rep!Expense
<1>4. \A i \in S : tx[i].wallet \in Reported
  BY <1>1, RepRows
<1>5. /\ \A w \in mine : A[w] \subseteq S \ L
      /\ \A i \in S \ L : \E w \in mine : i \in A[w]
      /\ \A w, x \in mine : w # x => A[w] \cap A[x] = {}
  BY <1>4 DEF Rep!OfType, Rep!In, Rep!OnDashboard
<1>6. DOMAIN f = mine
  OBVIOUS
<1>. HIDE DEF S, L, A, f
<1>7. Rep!SumFunction(f) = Rep!SumOf(S \ L)
  BY <1>1, <1>2, <1>3, <1>5, <1>6, RepGroups
<1>8. /\ Rep!SumOf(S) = SumFunctionOnSet(Value, S)
      /\ Rep!SumOf(S \ L) = SumFunctionOnSet(Value, S \ L)
      /\ Rep!SumOf(L) = SumFunctionOnSet(Value, L)
  BY <1>1, RepSumOf
<1>9. SumFunctionOnSet(Value, S) = SumFunctionOnSet(Value, S \ L) + SumFunctionOnSet(Value, L)
  <2>1. (S \ L) \cup L = S /\ (S \ L) \cap L = {} /\ \A i \in S : Value[i] \in Int
    BY <1>1
  <2>. QED  BY <1>1, <2>1, SumSplit
<1>10. Rep!SumOf(S) = Rep!SumFunction(f) + Rep!SumOf(L)
  BY <1>7, <1>8, <1>9
<1>. QED  BY <1>10 DEF S, L, f, Rep!Expense

LEMMA ExportTotal ==
  ASSUME Rep!TypeOK, NEW u, NEW m, NEW k \in {"income", "expense"},
         NEW R, R = {r \in Rep!GetCSVRows(u, m) : r.row.type = k}
  PROVE  Rep!SumFunction([r \in R |-> r.row.amount]) =
           Rep!SumOf(Rep!OfType(k, Rep!OnDashboard(u) \cap Rep!In(m)))
<1>. DEFINE S == Rep!OfType(k, Rep!OnDashboard(u) \cap Rep!In(m))
            h == [i \in S |-> [id |-> i, row |-> tx[i]]]
            g == [r \in R |-> r.row.amount]
<1>1. S \subseteq Rep!OpenRows /\ IsFiniteSet(S) /\ S = Rep!OfType(k, Rep!Accessible(u) \cap Rep!In(m))
  BY RepShown, RepSumOf
<1>2. R = {h[i] : i \in S}
  <2>1. ASSUME NEW r \in R PROVE \E i \in S : r = h[i]
    BY <1>1 DEF Rep!GetCSVRows, Rep!OfType
  <2>2. ASSUME NEW i \in S PROVE h[i] \in R
    <3>1. [id |-> i, row |-> tx[i]] \in Rep!GetCSVRows(u, m) /\ tx[i].type = k
      BY <1>1 DEF Rep!GetCSVRows, Rep!OfType
    <3>. QED  BY <3>1
  <2>. QED  BY <2>1, <2>2
<1>3. \A i \in S : Value[i] \in Int /\ Value[i] = tx[i].amount
  BY <1>1, RepRows DEF Value
<1>4. Reindexes(h, S, R, Value, g)
  <2>1. \A x, y \in S : h[x] = h[y] => x = y
    OBVIOUS
  <2>2. \A x \in S : h[x] \in R /\ g[h[x]] = Value[x]
    BY <1>2, <1>3
  <2>. HIDE DEF h, g
  <2>. QED  BY <1>2, <1>3, <2>1, <2>2 DEF Reindexes
<1>5. Rep!SumFunction(g) = SumFunctionOnSet(g, R)
  BY RepSum
<1>. HIDE DEF S, h, g
<1>6. SumFunctionOnSet(g, R) = SumFunctionOnSet(Value, S)
  BY <1>1, <1>4, SumReindex
<1>7. SumFunctionOnSet(Value, S) = Rep!SumOf(S)
  BY <1>1, RepSumOf
<1>. QED  BY <1>5, <1>6, <1>7 DEF S, g

LEMMA ReportSafe == Rep!TypeOK => Rep!ReportsAgree
<1>. SUFFICES ASSUME Rep!TypeOK, NEW u \in Users, NEW m \in Rep!Months
     PROVE  LET s == Rep!Summary(u, m)
                d == Rep!ExpenseDistribution(u, m)
                c == Rep!CashflowReport(u, m)
                mine == {w \in Reported : Rep!HasAccess(u, w)}
                lost == {i \in Rep!In(m) : tx[i].user = u /\ tx[i].wallet \notin mine}
                Exported(k) == LET R == {r \in Rep!GetCSVRows(u, m) : r.row.type = k}
                               IN Rep!SumFunction([r \in R |-> r.row.amount])
            IN /\ s = Rep!CashflowTrend(u)[m]
               /\ s = [income |-> Rep!Report(u, "income", m).total, expense |-> Rep!Report(u, "expense", m).total]
               /\ s = [income |-> c.income, expense |-> c.expense]
               /\ s = [income |-> Rep!Overview(u, m).income, expense |-> Rep!Overview(u, m).expense]
               /\ s = [income |-> Exported("income"), expense |-> Exported("expense")]
               /\ s = [income |-> Rep!Income(Rep!List(u, m)), expense |-> Rep!Expense(Rep!List(u, m))]
               /\ s.expense = Rep!SumFunction(d)
               /\ m = ThisMonth => s.expense = Rep!Forecast(u).spent
               /\ s.expense = Rep!SumFunction([w \in mine |-> Rep!GetAnalytics(w, m).outflow]) + Rep!Expense(lost)
  BY DEF Rep!ReportsAgree
<1>. DEFINE S == Rep!OnDashboard(u) \cap Rep!In(m)
            mine == {w \in Reported : Rep!HasAccess(u, w)}
            lost == {i \in Rep!In(m) : tx[i].user = u /\ tx[i].wallet \notin mine}
            Csv(k) == {r \in Rep!GetCSVRows(u, m) : r.row.type = k}
            s == [income |-> Rep!Income(S), expense |-> Rep!Expense(S)]
<1>1. Rep!Summary(u, m) = s /\ Rep!CashflowTrend(u)[m] = s
  BY DEF Rep!Summary, Rep!CashflowTrend
<1>2. s.income = Rep!Report(u, "income", m).total /\ s.expense = Rep!Report(u, "expense", m).total
  BY ReportTotal DEF Rep!Income, Rep!Expense
<1>3. s.income = Rep!CashflowReport(u, m).income /\ s.expense = Rep!CashflowReport(u, m).expense
  BY CashflowTotals
<1>4. s.income = Rep!Overview(u, m).income /\ s.expense = Rep!Overview(u, m).expense
  BY <1>3 DEF Rep!Overview
<1>5. /\ s.income = Rep!SumFunction([r \in Csv("income") |-> r.row.amount])
      /\ s.expense = Rep!SumFunction([r \in Csv("expense") |-> r.row.amount])
  BY ExportTotal DEF Rep!Income, Rep!Expense
<1>6. s.income = Rep!Income(Rep!List(u, m)) /\ s.expense = Rep!Expense(Rep!List(u, m))
  BY RepShown DEF Rep!Income, Rep!Expense, Rep!List
<1>7. s.expense = Rep!SumFunction(Rep!ExpenseDistribution(u, m))
  BY DistributionTotal
<1>8. m = ThisMonth => s.expense = Rep!Forecast(u).spent
  BY DEF Rep!Forecast
<1>9. s.expense = Rep!SumFunction([w \in mine |-> Rep!GetAnalytics(w, m).outflow]) + Rep!Expense(lost)
  BY WalletTotals
<1>10. s = [income |-> s.income, expense |-> s.expense]
  OBVIOUS
<1>. HIDE DEF s
<1>. QED  BY <1>1, <1>2, <1>3, <1>4, <1>5, <1>6, <1>7, <1>8, <1>9, <1>10

(* The categories below a category have its user, and at most one root is  *)
(* above them.                                                             *)
LEMMA RepTree ==
  ASSUME NEW c \in Categories, NEW d \in Rep!Subtree(c)
  PROVE  /\ d \in Categories /\ CategoryOf[d].user = CategoryOf[c].user
         /\ \A r \in Categories :
              /\ CategoryOf[c].parent = None /\ CategoryOf[r].parent = None /\ d \in Rep!Subtree(r)
              => r = c
<1>1. \A e \in Categories : LET p == CategoryOf[e].parent IN
        p # None => p \in Categories /\ CategoryOf[p].user = CategoryOf[e].user
  BY RepConstants
<1>2. None \notin Categories
  BY RepConstants
<1>. QED  BY <1>1, <1>2 DEF Rep!Subtree

(* What a budget counts is its user's.                                     *)
LEMMA SpentRows ==
  ASSUME Rep!TypeOK, NEW c \in Categories
  PROVE  \A i \in Rep!OpenRows :
           tx[i].type = "expense" /\ tx[i].category \in Rep!Subtree(c) => tx[i].user = CategoryOf[c].user
BY RepRows, RepTree

LEMMA SpentListed ==
  ASSUME Rep!TypeOK, NEW u, NEW c \in Categories, CategoryOf[c].user = u
  PROVE  Rep!SpentOn(c) = Rep!Expense(Rep!ListUnder(u, c) \cap Rep!In(ThisMonth))
<1>. DEFINE A == {i \in Rep!OfType("expense", Rep!In(ThisMonth)) :
                    tx[i].user = CategoryOf[c].user /\ tx[i].category \in Rep!Subtree(c)}
            B == Rep!OfType("expense", Rep!ListUnder(u, c) \cap Rep!In(ThisMonth))
<1>1. A = B
  BY SpentRows DEF Rep!OfType, Rep!In, Rep!ListUnder, Rep!Accessible
<1>2. Rep!SpentOn(c) = Rep!SumOf(A) /\ Rep!Expense(Rep!ListUnder(u, c) \cap Rep!In(ThisMonth)) = Rep!SumOf(B)
  BY DEF Rep!SpentOn, Rep!Expense
<1>. QED  BY <1>1, <1>2

LEMMA SpentIsNumber ==
  ASSUME Rep!TypeOK, NEW c
  PROVE  Rep!SpentOn(c) \in Nat
BY RepSumOf DEF Rep!SpentOn, Rep!OfType, Rep!In

LEMMA SpentDistributed ==
  ASSUME Rep!TypeOK, NEW u, NEW c \in Categories, CategoryOf[c].user = u, CategoryOf[c].parent = None
  PROVE  Rep!SpentOn(c) = Rep!Lookup(Rep!ExpenseDistribution(u, ThisMonth), {c})
<1>. DEFINE S == Rep!OfType("expense", Rep!OnDashboard(u) \cap Rep!In(ThisMonth))
            Root(i) == {r \in Categories : /\ CategoryOf[r].user = u /\ CategoryOf[r].parent = None
                                          /\ tx[i].category \in Rep!Subtree(r)}
            A == {i \in Rep!OfType("expense", Rep!In(ThisMonth)) :
                    tx[i].user = CategoryOf[c].user /\ tx[i].category \in Rep!Subtree(c)}
            d == Rep!ExpenseDistribution(u, ThisMonth)
<1>1. d = [r \in {Root(i) : i \in S} |-> Rep!SumOf({i \in S : Root(i) = r})]
  BY DEF Rep!ExpenseDistribution
<1>2. Rep!SpentOn(c) = Rep!SumOf(A)
  BY DEF Rep!SpentOn
<1>3. A = {i \in S : Root(i) = {c}}
  <2>1. ASSUME NEW i \in A PROVE i \in S /\ Root(i) = {c}
    <3>1. i \in S
      BY DEF Rep!OfType, Rep!In, Rep!OnDashboard
    <3>2. \A r \in Root(i) : r = c
      BY RepTree
    <3>. QED  BY <3>1, <3>2
  <2>2. ASSUME NEW i \in S, Root(i) = {c} PROVE i \in A
    <3>1. tx[i].category \in Rep!Subtree(c)
      BY <2>2
    <3>2. tx[i].user = CategoryOf[c].user
      BY <3>1, SpentRows DEF Rep!OfType, Rep!In
    <3>. QED  BY <3>1, <3>2 DEF Rep!OfType, Rep!In
  <2>. HIDE DEF A, S, Root
  <2>3. A \subseteq {i \in S : Root(i) = {c}}
    BY <2>1
  <2>4. {i \in S : Root(i) = {c}} \subseteq A
    BY <2>2
  <2>. QED  BY <2>3, <2>4
<1>4. CASE {c} \in {Root(i) : i \in S}
  <2>1. {c} \in DOMAIN d /\ d[{c}] = Rep!SumOf({i \in S : Root(i) = {c}})
    BY <1>1, <1>4
  <2>. HIDE DEF A, S, Root, d
  <2>. QED  BY <1>2, <1>3, <2>1 DEF Rep!Lookup, d
<1>5. CASE {c} \notin {Root(i) : i \in S}
  <2>1. {c} \notin DOMAIN d
    BY <1>1, <1>5
  <2>2. A = {}
    BY <1>3, <1>5
  <2>3. Rep!SumOf({}) = 0
    BY RepSumOf, SumEmpty
  <2>. HIDE DEF A, S, Root, d
  <2>. QED  BY <1>2, <2>1, <2>2, <2>3 DEF Rep!Lookup, d
<1>. QED  BY <1>4, <1>5

LEMMA BudgetSafe == Rep!TypeOK => Rep!BudgetViewsAgree
<1>. SUFFICES ASSUME Rep!TypeOK, NEW u \in Users
     PROVE  LET r == Rep!ListReport(u)
                d == Rep!ExpenseDistribution(u, ThisMonth)
            IN /\ Rep!DashboardBudget(u) = [limit |-> r.limit, spent |-> r.spent]
               /\ Rep!ListAlerts(u) = Rep!FeedAlerts(u)
               /\ Rep!ListAlerts(u) = {[category |-> c, severity |-> "danger"] : c \in r.exceeded}
                                     \cup {[category |-> c, severity |-> "warning"] : c \in r.warning}
               /\ \A c \in Rep!BudgetsOf(u) :
                    /\ Rep!SpentOn(c) = Rep!Expense(Rep!ListUnder(u, c) \cap Rep!In(ThisMonth))
                    /\ CategoryOf[c].parent = None => Rep!SpentOn(c) = Rep!Lookup(d, {c})
  BY DEF Rep!BudgetViewsAgree
<1>. DEFINE B == Rep!BudgetsOf(u)
            b == Rep!BudgetList(u)
            near == {c \in B : Rep!Near(b[c])}
            over == {c \in B : Rep!Over(b[c])}
            r == Rep!ListReport(u)
            Danger(c) == [category |-> c, severity |-> "danger"]
            Warning(c) == [category |-> c, severity |-> "warning"]
<1>1. \A c \in B : c \in Categories /\ CategoryOf[c].user = u /\ limit[c] \in Nat
  BY RepConstants DEF Rep!TypeOK, Rep!BudgetsOf
<1>2. b = [c \in B |-> [limit |-> limit[c], spent |-> Rep!SpentOn(c)]]
  BY DEF Rep!BudgetList
<1>3. /\ r.limit = Rep!SumFunction([c \in B |-> b[c].limit])
      /\ r.spent = Rep!SumFunction([c \in B |-> b[c].spent])
      /\ r.exceeded = over
      /\ r.warning = {c \in B : Rep!Near(b[c]) /\ ~ Rep!Over(b[c])}
  BY DEF Rep!ListReport
<1>4. Rep!ListAlerts(u) =
        {[category |-> c, severity |-> IF Rep!Over(b[c]) THEN "danger" ELSE "warning"] : c \in near}
  BY DEF Rep!ListAlerts
<1>5. Rep!FeedAlerts(u) =
        {Warning(c) : c \in {d \in B : Rep!Near(b[d]) /\ ~ Rep!Over(b[d])}} \cup {Danger(c) : c \in over}
  BY DEF Rep!FeedAlerts
<1>6. over \subseteq near
  <2>1. ASSUME NEW c \in B, Rep!Over(b[c]) PROVE Rep!Near(b[c])
    <3>1. b[c].limit = limit[c] /\ b[c].spent = Rep!SpentOn(c)
      BY <1>2
    <3>2. limit[c] \in Nat /\ Rep!SpentOn(c) \in Nat
      BY <1>1, SpentIsNumber
    <3>. QED  BY <2>1, <3>1, <3>2 DEF Rep!Over, Rep!Near
  <2>. QED  BY <2>1
<1>7. Rep!DashboardBudget(u) = [limit |-> r.limit, spent |-> r.spent]
  <2>1. /\ [c \in B |-> b[c].limit] = [c \in B |-> limit[c]]
        /\ [c \in B |-> b[c].spent] = [c \in B |-> Rep!SpentOn(c)]
    BY <1>2
  <2>. QED  BY <1>3, <2>1 DEF Rep!DashboardBudget
<1>8. \A c \in B : /\ Rep!SpentOn(c) = Rep!Expense(Rep!ListUnder(u, c) \cap Rep!In(ThisMonth))
                   /\ CategoryOf[c].parent = None
                        => Rep!SpentOn(c) = Rep!Lookup(Rep!ExpenseDistribution(u, ThisMonth), {c})
  BY <1>1, SpentListed, SpentDistributed
<1>9. Rep!ListAlerts(u) = Rep!FeedAlerts(u)
  <2>. HIDE DEF B, b
  <2>. QED  BY <1>4, <1>5, <1>6
<1>10. Rep!FeedAlerts(u) = {Danger(c) : c \in r.exceeded} \cup {Warning(c) : c \in r.warning}
  <2>. HIDE DEF B, b, r
  <2>. QED  BY <1>3, <1>5
<1>. QED  BY <1>7, <1>8, <1>9, <1>10

(***************************************************************************)
(* What holds of every behaviour.                                          *)
(***************************************************************************)

LEMMA PartsInit == Init => IInv
BY ReminderInit, AlertInit, CatInit, AccountInit, ReportInit, LimiterInit, ActivityInit, RequestInit, StartupInit
   DEF Init, IInv

LEMMA PartsNext == IInv /\ [Next]_vars => IInv'
<1>. SUFFICES ASSUME IInv, [Next]_vars PROVE IInv'
  OBVIOUS
<1>1. part' = "reminders" => Rem!IInv'
  BY ReminderNext, ReminderUnchanged DEF IInv, Next, vars
<1>2. part' = "alerts" => Alr!IInv'
  BY AlertNext, AlertUnchanged DEF IInv, Next, vars
<1>3. part' = "accounts" => Acc!IInv'
  BY AccountNext, AccountUnchanged DEF IInv, Next, vars
<1>4. part' = "limiter" => Lim!IInv'
  BY LimiterNext, LimiterUnchanged DEF IInv, Next, vars
<1>5. part' = "activities" => Act!IInv'
  BY ActivityNext, ActivityUnchanged DEF IInv, Next, vars
<1>6. part' = "requests" => Log!IInv'
  BY RequestNext, RequestUnchanged DEF IInv, Next, vars
<1>7. part' = "startup" => Sta!IInv'
  BY StartupNext, StartupUnchanged DEF IInv, Next, vars
<1>8. part' = "categories" => Cat!IInv'
  BY CatNext, CatUnchanged DEF IInv, Next, vars
<1>9. part' = "reports" => Rep!TypeOK'
  BY ReportNext, ReportUnchanged DEF IInv, Next, vars
<1>10. part' \in Explored
  BY DEF IInv, Next, vars
<1>. QED  BY <1>1, <1>2, <1>3, <1>4, <1>5, <1>6, <1>7, <1>8, <1>9, <1>10 DEF IInv

LEMMA PartsInvariance == Spec => []IInv
BY PartsInit, PartsNext, PTL DEF Spec

(* Every table, request, tick and process keeps its shape, for any values  *)
(* of all constants.                                                       *)
THEOREM PartsWellTyped == Spec => []TypeOK
<1>1. IInv => TypeOK
  BY DEF IInv, TypeOK, Rem!IInv, Alr!IInv, Cat!IInv, Acc!IInv, Lim!IInv, Act!IInv, Log!IInv, Sta!IInv
<1>. QED  BY <1>1, PartsInvariance, PTL

(* However processes of several builds start, migrate, crash and are       *)
(* replaced, every file is executed once, in order, and nobody serves on a *)
(* schema that lacks one of its files (db.Migrate, main).                  *)
THEOREM SchemasAreReady == Spec => []SchemaReady
<1>1. IInv => SchemaReady
  BY StartupSafe DEF IInv, SchemaReady
<1>. QED  BY <1>1, PartsInvariance, PTL

(* Whatever clients send, whenever the limiters' maps are swept, and       *)
(* whichever steps of two requests meet, a client whose requests share one *)
(* limiter gets no more than its burst and its rate (RateLimiter.Allow).   *)
THEOREM WithinRate == Spec => []WithinRateAlone
<1>1. IInv => WithinRateAlone
  BY LimiterSafe DEF IInv, WithinRateAlone
<1>. QED  BY <1>1, PartsInvariance, PTL

(* An activity is logged once in its window unless two calls of it         *)
(* overlapped (Logger.Log), and every logged body is complete or marked as *)
(* cut (APILogMiddleware), for any number of callers, requests and sizes.  *)
THEOREM LogsFaithful == Spec => []LogsAreFaithful
<1>1. IInv => LogsAreFaithful
  BY ActivitySafe DEF IInv, LogsAreFaithful, Log!IInv
<1>. QED  BY <1>1, PartsInvariance, PTL

(* What a leaf category's created expenses push over a threshold of its    *)
(* budget has its alert's marker once no check is left running, for any    *)
(* number of goroutines and amounts (Alerter.CheckBudgetAndAlert).         *)
THEOREM Overspending == Spec => []OverspendingAlertedAlone
<1>1. IInv => OverspendingAlertedAlone
  BY AlertSafe DEF IInv, OverspendingAlertedAlone
<1>. QED  BY <1>1, PartsInvariance, PTL

(* Whatever processes, goroutines and calls fail or overlap, no reminder   *)
(* of one occurrence, no summary of one week, and no alert of one category *)
(* and level is e-mailed twice (Notifier.Send, CheckBudgetAndAlert).       *)
THEOREM NothingMailedTwice == Spec => []NoMailTwice
<1>1. IInv => NoMailTwice
  BY ReminderSafe, AlertSafe DEF IInv, NoMailTwice
<1>. QED  BY <1>1, PartsInvariance, PTL

(* A tick that ran without failure or edit leaves a delivery for every     *)
(* item that falls due in a window and for every summary, of every user    *)
(* whose rule is on, for any numbers of users, items and processes and     *)
(* any settings (Scheduler.runOnce).                                       *)
THEOREM NothingDueIsLeftOut == Spec => []DueItemsNoticed
<1>1. IInv => DueItemsNoticed
  BY ReminderSafe DEF IInv, DueItemsNoticed
<1>. QED  BY <1>1, PartsInvariance, PTL

(* As long as no two moves were under way at once, no category comes to be *)
(* below itself, whatever creations, deletions and changes of type happen  *)
(* between the checks of a move and its write (category.UseCase.Update).   *)
THEOREM ForestStays == Spec => []ForestAlone
<1>1. IInv => ForestAlone
  BY CatSafe DEF IInv, ForestAlone
<1>. QED  BY <1>1, PartsInvariance, PTL

(* As long as no transaction of a debt has been edited, every account can  *)
(* be deleted: whatever members did on shared wallets and goals, no row    *)
(* that stays names one that goes (Repository.DeleteUser).                 *)
THEOREM DeletionIsPossible == Spec => []AccountsDeletableUnedited
<1>1. IInv => AccountsDeletableUnedited
  BY NothingBlocks DEF IInv, AccountsDeletableUnedited
<1>. QED  BY <1>1, PartsInvariance, PTL

(* The deletion of an account takes no wallet of another user, and no      *)
(* transaction of theirs that is not on a wallet of the account: their     *)
(* contributions to its goals stay (Repository.DeleteUser).                *)
THEOREM OthersAreSpared == Spec => ContributionsSurvive
<1>. DEFINE Spares == part = "accounts" => Acc!OthersKeepTheirs
<1>1. IInv /\ [Next]_vars => [Spares]_vars
  BY DeletionSparesOthers DEF IInv, Next
<1>2. Spec => [][Spares]_vars
  <2>. HIDE DEF Spares
  <2>. QED  BY <1>1, PartsInvariance, PTL DEF Spec
<1>. QED  BY <1>2 DEF ContributionsSurvive

(* What a user earned, spent, budgeted and saved is the same in every view *)
(* that shows it: each query groups the rows of one set, by names, weeks,  *)
(* trees of categories or wallets, and a joined member of a goal, nobody   *)
(* else, has one wallet in it (the report of the goal's owner is left      *)
(* out).  For any users, wallets, categories, calendars, amounts and       *)
(* limits (the repositories of report, dashboard, budget, alert, wallet,   *)
(* transaction, export and goal).                                          *)
THEOREM ViewsTellTheSame == Spec => []ViewsAgree
<1>1. IInv => ViewsAgree
  BY ReportSafe, BudgetSafe, OneWalletEach, GoalViews DEF IInv, ViewsAgree, Acc!GoalsAddUp
<1>. QED  BY <1>1, PartsInvariance, PTL
=============================================================================
