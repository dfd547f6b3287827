------------------------------- MODULE Migrator -------------------------------
(***************************************************************************)
(* The start of the process as far as the schema goes: run_migrations      *)
(* (database/migrator.py), which main() awaits before any bot is started.  *)
(*                                                                         *)
(* Files are numbered in the order of their names.  MySQL commits before   *)
(* and after every statement that changes the schema, so a file is not one *)
(* transaction although the code opens one for it: what an INSERT of the   *)
(* file wrote is committed by the next such statement, and a rollback      *)
(* takes back only what was written since.                                 *)
(*                                                                         *)
(* A statement is of one of three kinds:                                   *)
(*   ddl    CREATE or ADD ... IF NOT EXISTS, MODIFY: may be repeated        *)
(*   copy   INSERT ... SELECT from columns that the file then drops        *)
(*   drop   DROP COLUMN IF EXISTS of those columns                         *)
(***************************************************************************)
EXTENDS Integers, Sequences, FiniteSets

CONSTANTS Scripts,     \* the statements of each file, in the order of the names
          MaxMishaps   \* bound: how often the process dies

ASSUME ScriptsAssumption == Scripts \in Seq(Seq({"ddl", "copy", "drop"}))
ASSUME MishapsAssumption == MaxMishaps \in Nat

Files == DOMAIN Scripts

VARIABLES
    folder,    \* the files of migrations/ are 1 .. folder: one more with a push
    recorded,  \* the rows of schema_migrations
    baseline,  \* history: files that were recorded without being run
    done,      \* statements that were executed and committed
    copies,    \* history: how often the rows of a copy were committed
    columns,   \* whether the columns that a file copies and drops exist
    phase,     \* where the process is
    pending,   \* files still to be run
    next,      \* the statement of the first of them that comes next
    open,      \* statements of the transaction that is open
    mishaps    \* how often the process died

schemaVars   == <<folder, recorded, baseline, done, copies, columns>>
startVars    == <<phase, pending, next, open>>
migratorVars == <<schemaVars, startVars, mishaps>>

Statements == UNION {{<<f, i>> : i \in DOMAIN Scripts[f]} : f \in Files}
Has(f, kind) == \E i \in DOMAIN Scripts[f] : Scripts[f][i] = kind

Phase == {"down", "baseline", "read", "run", "up"}

MigratorTypeOK ==
    /\ folder \in 0 .. Len(Scripts)
    /\ recorded \subseteq Files /\ baseline \subseteq Files /\ pending \subseteq Files
    /\ done \subseteq Statements /\ open \subseteq Statements
    /\ copies \in [Statements -> Nat]
    /\ columns \in [Files -> BOOLEAN]
    /\ phase \in Phase
    /\ next \in Nat \ {0}
    /\ mishaps \in 0 .. MaxMishaps

\* The database was made by hand from some version of schema.sql; whether it
\* has the columns that a file copies depends on that version.
MigratorInit ==
    /\ folder \in 0 .. Len(Scripts)
    /\ recorded = {} /\ baseline = {} /\ done = {}
    /\ copies = [s \in Statements |-> 0]
    /\ columns \in [Files -> BOOLEAN]
    /\ \A f \in Files : columns[f] \/ Has(f, "drop")
    /\ phase = "down" /\ pending = {} /\ next = 1 /\ open = {}
    /\ mishaps = 0

\* What a process leaves behind when it ends: nothing but what was committed.
Down == phase' = "down" /\ pending' = {} /\ next' = 1 /\ open' = {}

\* A file is added with a push, for which the platform restarts the process.
Push ==
    /\ phase \in {"down", "up"}
    /\ folder < Len(Scripts)
    /\ folder' = folder + 1
    /\ Down
    /\ UNCHANGED <<recorded, baseline, done, copies, columns, mishaps>>

\* The process dies, or a statement raises; what is not committed is lost.
Die ==
    /\ phase # "down" /\ mishaps < MaxMishaps
    /\ Down
    /\ mishaps' = mishaps + 1
    /\ UNCHANGED schemaVars

-----------------------------------------------------------------------------
(* run_migrations: first how many rows schema_migrations has.              *)

Boot ==
    /\ phase = "down"
    /\ phase' = CASE folder = 0 -> "up"
                  [] folder > 0 /\ recorded = {} -> "baseline"
                  [] OTHER -> "read"
    /\ UNCHANGED <<schemaVars, pending, next, open, mishaps>>

\* The table was empty: all files count as applied by hand, in one transaction.
Baseline ==
    /\ phase = "baseline"
    /\ recorded' = 1 .. folder /\ baseline' = 1 .. folder
    /\ phase' = "up"
    /\ UNCHANGED <<folder, done, copies, columns, pending, next, open, mishaps>>

\* Faulty variant: every file is run again.
ReadApplied_All ==
    /\ phase = "read"
    /\ pending' = 1 .. folder
    /\ phase' = IF pending' = {} THEN "up" ELSE "run"
    /\ UNCHANGED <<schemaVars, next, open, mishaps>>

\* The files that have no row are run, in the order of their names.
ReadApplied ==
    /\ phase = "read"
    /\ pending' = (1 .. folder) \ recorded
    /\ phase' = IF pending' = {} THEN "up" ELSE "run"
    /\ UNCHANGED <<schemaVars, next, open, mishaps>>

\* Faulty variant: the files in the order in which the folder lists them.
Runs_Unsorted(f) == phase = "run" /\ f \in pending

Runs(f) == phase = "run" /\ f \in pending /\ \A g \in pending : f <= g

ComesNext(f, kinds) == next \in DOMAIN Scripts[f] /\ Scripts[f][next] \in kinds

\* The transaction that is open is committed, and the statements in extra.
CommitOpen(extra) ==
    /\ done' = done \cup open \cup extra
    /\ copies' = [s \in Statements |-> IF s \in open THEN copies[s] + 1 ELSE copies[s]]
    /\ open' = {}

\* Faulty variant: the statement does not ask whether it was executed before.
ChangeSchema_NotRepeatable(f) ==
    /\ Runs(f) /\ ComesNext(f, {"ddl", "drop"})
    /\ IF <<f, next>> \in done
       THEN Down /\ UNCHANGED <<done, copies, columns>>
       ELSE /\ CommitOpen({<<f, next>>})
            /\ columns' = [columns EXCEPT ![f] = @ /\ Scripts[f][next] # "drop"]
            /\ next' = next + 1 /\ UNCHANGED <<phase, pending>>
    /\ UNCHANGED <<folder, recorded, baseline, mishaps>>

\* A statement that changes the schema commits what was written before it.
ChangeSchema(f) ==
    /\ Runs(f) /\ ComesNext(f, {"ddl", "drop"})
    /\ CommitOpen({<<f, next>>})
    /\ columns' = [columns EXCEPT ![f] = @ /\ Scripts[f][next] # "drop"]
    /\ next' = next + 1
    /\ UNCHANGED <<folder, recorded, baseline, phase, pending, mishaps>>

\* It raises, after that commit; the rollback that follows finds nothing.
ChangeSchemaFails(f) ==
    /\ Runs(f) /\ ComesNext(f, {"ddl", "drop"})
    /\ mishaps < MaxMishaps
    /\ CommitOpen({})
    /\ phase' = "down" /\ pending' = {} /\ next' = 1
    /\ mishaps' = mishaps + 1
    /\ UNCHANGED <<folder, recorded, baseline, columns>>

CopyRows(f) ==
    /\ Runs(f) /\ ComesNext(f, {"copy"}) /\ columns[f]
    /\ open' = open \cup {<<f, next>>}
    /\ next' = next + 1
    /\ UNCHANGED <<schemaVars, phase, pending, mishaps>>

\* Faulty variant: the exception is logged and the next file is run.
CopyFails_Swallowed(f) ==
    /\ Runs(f) /\ ComesNext(f, {"copy"}) /\ ~columns[f]
    /\ open' = {} /\ next' = 1 /\ pending' = pending \ {f}
    /\ phase' = IF pending' = {} THEN "up" ELSE "run"
    /\ UNCHANGED <<schemaVars, mishaps>>

\* The columns are not there: the exception is raised through main().
CopyFails(f) ==
    /\ Runs(f) /\ ComesNext(f, {"copy"}) /\ ~columns[f]
    /\ Down
    /\ UNCHANGED <<schemaVars, mishaps>>

\* Faulty variant: the row of the file is written before its last statement.
Record_Early(f) ==
    /\ Runs(f) /\ next >= Len(Scripts[f])
    /\ recorded' = recorded \cup {f}
    /\ CommitOpen({})
    /\ pending' = pending \ {f} /\ next' = 1
    /\ phase' = IF pending' = {} THEN "up" ELSE "run"
    /\ UNCHANGED <<folder, baseline, columns, mishaps>>

\* After its last statement the file gets its row, in the transaction that
\* holds what was written since the schema was last changed.
Record(f) ==
    /\ Runs(f) /\ next > Len(Scripts[f])
    /\ recorded' = recorded \cup {f}
    /\ CommitOpen({})
    /\ pending' = pending \ {f} /\ next' = 1
    /\ phase' = IF pending' = {} THEN "up" ELSE "run"
    /\ UNCHANGED <<folder, baseline, columns, mishaps>>

GoOn == \/ Boot \/ Baseline \/ ReadApplied
        \/ \E f \in Files : ChangeSchema(f) \/ CopyRows(f) \/ CopyFails(f) \/ Record(f)

MigratorNext == Push \/ Die \/ GoOn \/ \E f \in Files : ChangeSchemaFails(f)

\* The start goes on while nothing goes wrong, and the platform runs the
\* process again when it has ended.
MigratorSpec == MigratorInit /\ [][MigratorNext]_migratorVars /\ WF_migratorVars(GoOn)

-----------------------------------------------------------------------------
(* A file that has its row was run to its last statement, unless it was    *)
(* assumed to be applied: the row is what keeps it from being run again,   *)
(* and no crash may put it there before the schema has what it stands for. *)
RecordedWasRun ==
    \A s \in Statements : s[1] \in recorded \ baseline => s \in done

(* No statement of a file is ever executed before all files of a smaller   *)
(* name have their rows, whatever failed and was started again.            *)
InOrder ==
    \A s \in done \cup open : \A f \in Files : f < s[1] => f \in recorded

(* A file need not be repeatable, says migrator.py:21, since each is run   *)
(* only once.  But a statement that changes the schema commits the copy    *)
(* before it, so a failure after it has the rows copied again: at most     *)
(* once for each failure.                                                  *)
CopiedOncePerFailure ==
    \A s \in Statements : copies[s] <= mishaps + 1

(* The bots are started only on a schema that has every file.              *)
UpIsMigrated == phase = "up" => 1 .. folder \subseteq recorded

\* A file that was not run yet but whose copy finds no columns: an earlier start
\* died after it had dropped them, or the database was made without them.
Stuck(f) ==
    /\ f \in (1 .. folder) \ recorded /\ recorded # {} /\ ~columns[f]
    /\ \E i \in DOMAIN Scripts[f] : Scripts[f][i] = "copy" /\ ~(Runs(f) /\ i < next)

(* Nothing the program does ever gets a stuck file out of the way: its row *)
(* can only be written by hand, and until then no start succeeds.          *)
StuckForGood == [][\A f \in Files : Stuck(f) => Stuck(f)']_migratorVars

(* Nothing but a stuck file keeps the process down: it gets up again after *)
(* every crash, whatever was half done.                                    *)
GetsUp == phase = "down" ~> (phase = "up" \/ \E f \in Files : Stuck(f))
=============================================================================
