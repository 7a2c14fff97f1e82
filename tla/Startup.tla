------------------------------- MODULE Startup -------------------------------
(***************************************************************************)
(* The life of a server process (cmd/api): it opens the database, brings   *)
(* the schema up to the migration files of its build (db.Migrate), serves, *)
(* and drains when it is told to stop.  Processes of older and newer       *)
(* builds start and stop side by side, as in a rolling deployment.         *)
(*                                                                         *)
(* Files are numbered in the order of their names; a build has the first   *)
(* so many of them.  Build 0 stands for RUN_MIGRATIONS=false.              *)
(***************************************************************************)
EXTENDS Integers

CONSTANTS Processes,
          LastFile,   \* files of the newest build
          Nobody      \* nobody holds the lock

(* What the constants are expected to be.                                  *)
StartupConstants == LastFile \in Nat /\ Nobody \notin Processes

Files == 1 .. LastFile

VARIABLES
  phase,      \* what a process is doing
  build,      \* the number of its files
  file,       \* the file its loop is at
  holder,     \* of the advisory lock
  executed,   \* how often the statements of a file have been committed
  recorded    \* schema_migrations

startupVars == <<phase, build, file, holder, executed, recorded>>

Phases == {"down", "waiting", "check", "apply", "serving", "draining"}

TypeOK ==
  /\ phase \in [Processes -> Phases]
  /\ build \in [Processes -> 0 .. LastFile]
  /\ file \in [Processes -> 1 .. LastFile + 1]
  /\ holder \in Processes \cup {Nobody}
  /\ executed \in [Files -> 0 .. 2]
  /\ recorded \subseteq Files

Init ==
  /\ phase = [p \in Processes |-> "down"]
  /\ build = [p \in Processes |-> 0]
  /\ file = [p \in Processes |-> 1]
  /\ holder = Nobody
  /\ executed = [f \in Files |-> 0]
  /\ recorded = {}
-----------------------------------------------------------------------------
Goto(p, there) == phase' = [phase EXCEPT ![p] = there]

(* main: the configuration, db.Open, and Migrate unless it is switched off.*)
Start(p, n) ==
  /\ phase[p] = "down"
  /\ Goto(p, IF n = 0 THEN "serving" ELSE "waiting")
  /\ build' = [build EXCEPT ![p] = n]
  /\ file' = [file EXCEPT ![p] = 1]
  /\ UNCHANGED <<holder, executed, recorded>>

(* A faulty variant: no advisory lock.                                     *)
LockNothing(p) ==
  /\ phase[p] = "waiting"
  /\ Goto(p, "check")
  /\ UNCHANGED <<build, file, holder, executed, recorded>>

(* pg_advisory_lock waits until nobody else has it.                        *)
Lock(p) ==
  /\ phase[p] = "waiting" /\ holder = Nobody
  /\ holder' = p
  /\ Goto(p, "check")
  /\ UNCHANGED <<build, file, executed, recorded>>

(* SELECT EXISTS, a statement of its own: a recorded file is skipped.      *)
Check(p) ==
  /\ phase[p] = "check" /\ file[p] <= build[p]
  /\ IF file[p] \in recorded
     THEN file' = [file EXCEPT ![p] = @ + 1] /\ UNCHANGED phase
     ELSE Goto(p, "apply") /\ UNCHANGED file
  /\ UNCHANGED <<build, holder, executed, recorded>>

(* A faulty variant: the version is recorded after the COMMIT, if at all.  *)
ApplyThenRecord(p) ==
  /\ phase[p] = "apply" /\ file[p] \notin recorded
  /\ executed' = [executed EXCEPT ![file[p]] = IF @ < 2 THEN @ + 1 ELSE @]
  /\ \/ recorded' = recorded \cup {file[p]}
     \/ UNCHANGED recorded
  /\ file' = [file EXCEPT ![p] = @ + 1]
  /\ Goto(p, "check")
  /\ UNCHANGED <<build, holder>>

(* The file's statements and its version in one transaction.  A version    *)
(* that is there already (PRIMARY KEY) fails it.                           *)
Apply(p) ==
  /\ phase[p] = "apply" /\ file[p] \notin recorded
  /\ executed' = [executed EXCEPT ![file[p]] = @ + 1]
  /\ recorded' = recorded \cup {file[p]}
  /\ file' = [file EXCEPT ![p] = @ + 1]
  /\ Goto(p, "check")
  /\ UNCHANGED <<build, holder>>

(* Migrate returns, the deferred unlock runs, and main goes on: schedulers,*)
(* rate limiters, router, ListenAndServe.                                  *)
Serve(p) ==
  /\ phase[p] = "check" /\ file[p] > build[p]
  /\ holder' = IF holder = p THEN Nobody ELSE holder
  /\ Goto(p, "serving")
  /\ UNCHANGED <<build, file, executed, recorded>>

(* SIGTERM: the schedulers are cancelled and requests drained.             *)
Signal(p) ==
  /\ phase[p] = "serving"
  /\ Goto(p, "draining")
  /\ UNCHANGED <<build, file, holder, executed, recorded>>

(* Any error before serving ends the process, and so do a crash, the end   *)
(* of the drain and its timeout.  Open transactions are rolled back and    *)
(* the lock goes with the connection.                                      *)
Exit(p) ==
  /\ phase[p] # "down"
  /\ Goto(p, "down")
  /\ holder' = IF holder = p THEN Nobody ELSE holder
  /\ UNCHANGED <<build, file, executed, recorded>>

Next ==
  \E p \in Processes :
    \/ \E n \in 0 .. LastFile : Start(p, n)
    \/ Lock(p) \/ Check(p) \/ Apply(p) \/ Serve(p) \/ Signal(p) \/ Exit(p)

Spec == Init /\ [][Next]_startupVars
-----------------------------------------------------------------------------
(* Every file has been executed once if it is recorded and not at all if   *)
(* it is not, and none before an earlier one, wherever processes of other  *)
(* builds stopped.                                                         *)
MigratedOnce ==
  /\ \A f \in Files : executed[f] = IF f \in recorded THEN 1 ELSE 0
  /\ \A f \in recorded : 1 .. f \subseteq recorded

(* A process serves requests only on a schema that has all of its files.   *)
SchemaIsThere ==
  \A p \in Processes : phase[p] \in {"serving", "draining"} => 1 .. build[p] \subseteq recorded

(* No start fails because another process migrates (README.md:82, "it      *)
(* serializes concurrent runners"): what is about to be applied is still   *)
(* missing.                                                                *)
RunnersAreSerialized ==
  \A p \in Processes : phase[p] = "apply" => file[p] \notin recorded

SchemaReady == MigratedOnce /\ SchemaIsThere /\ RunnersAreSerialized

(* The rest of the inductive invariant: one process at a time is between   *)
(* its lock and its return, everything before the file it is at has been   *)
(* recorded, and nothing after a gap.                                      *)
Migrating(p) == phase[p] \in {"check", "apply"}

IInv ==
  /\ TypeOK
  /\ \A p \in Processes : Migrating(p) <=> holder = p
  /\ \A p \in Processes : Migrating(p) =>
       file[p] <= build[p] + 1 /\ 1 .. file[p] - 1 \subseteq recorded
  /\ \A p \in Processes : phase[p] = "waiting" => file[p] = 1
  /\ \A p \in Processes : phase[p] = "apply" => file[p] <= build[p] /\ file[p] \notin recorded
  /\ SchemaIsThere
  /\ MigratedOnce
=============================================================================
