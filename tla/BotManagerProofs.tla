-------------------------- MODULE BotManagerProofs --------------------------
(***************************************************************************)
(* Theorems about Migrator and BotManager, for any files, resellers and     *)
(* failures.  The migrations come first: the process that BotManager       *)
(* describes starts only when they are done.                               *)
(***************************************************************************)
EXTENDS BotManager, TLAPS

-----------------------------------------------------------------------------
(* Migrator                                                                *)

(* The inductive invariant.                                                *)

\* What the phase says of the rows and of what the process holds.
Progress ==
    /\ recorded \subseteq 1 .. folder
    /\ phase = "run" => pending = (1 .. folder) \ recorded
    /\ phase # "run" => pending = {} /\ open = {} /\ next = 1
    /\ phase = "baseline" => recorded = {}
    /\ UpIsMigrated

\* Only the file that runs has statements that are not committed, and as long as
\* a copy is among them its columns are there.
OpenRuns == \A s \in open : Runs(s[1]) /\ s[2] < next /\ columns[s[1]]

RunSoFar ==
    \A f \in Files : Runs(f) =>
        \A i \in DOMAIN Scripts[f] : i < next => <<f, i>> \in done \cup open

\* The rows of a copy were committed by this run of its file, or will not be
\* copied again.
Committed(s) ==
    \/ s[1] \in recorded
    \/ ~columns[s[1]]
    \/ Runs(s[1]) /\ s[2] < next /\ s \notin open

CopiesBound ==
    \A s \in Statements :
        /\ copies[s] <= mishaps + 1
        /\ ~Committed(s) => copies[s] <= mishaps

MigratorInv ==
    /\ MigratorTypeOK
    /\ Progress
    /\ OpenRuns
    /\ RunSoFar
    /\ RecordedWasRun
    /\ InOrder
    /\ CopiesBound

-----------------------------------------------------------------------------
(* Files and statements.                                                   *)

LEMMA FileFacts ==
    /\ Len(Scripts) \in Nat /\ Files = 1 .. Len(Scripts) /\ Files \subseteq Nat
    /\ \A f \in Files : Len(Scripts[f]) \in Nat /\ DOMAIN Scripts[f] = 1 .. Len(Scripts[f])
<1>1. Len(Scripts) \in Nat /\ DOMAIN Scripts = 1 .. Len(Scripts)
  BY ScriptsAssumption
<1>2. ASSUME NEW f \in DOMAIN Scripts
      PROVE  Len(Scripts[f]) \in Nat /\ DOMAIN Scripts[f] = 1 .. Len(Scripts[f])
  <2>1. Scripts[f] \in Seq({"ddl", "copy", "drop"})
    BY ScriptsAssumption
  <2>2. QED
    BY <2>1
<1>3. QED
  BY <1>1, <1>2 DEF Files

LEMMA StatementFacts ==
    /\ \A s \in Statements : /\ s[1] \in Files /\ s[2] \in DOMAIN Scripts[s[1]]
                             /\ s = <<s[1], s[2]>>
    /\ \A f \in Files : \A i \in DOMAIN Scripts[f] : <<f, i>> \in Statements
BY DEF Statements

\* One file runs at a time.
LEMMA OneRuns ==
    ASSUME pending \subseteq Files, NEW f, NEW g, Runs(f), Runs(g)
    PROVE  f = g
BY FileFacts DEF Runs

-----------------------------------------------------------------------------
LEMMA MigratorInitInv == MigratorInit => MigratorInv
<1> SUFFICES ASSUME MigratorInit PROVE MigratorInv
  OBVIOUS
<1> USE DEF MigratorInit
<1>1. MigratorTypeOK
  BY FileFacts, MishapsAssumption DEF MigratorTypeOK, Phase
<1>2. Progress /\ OpenRuns /\ RunSoFar /\ RecordedWasRun /\ InOrder
  BY DEF Progress, UpIsMigrated, OpenRuns, RunSoFar, Runs, RecordedWasRun, InOrder
<1>3. CopiesBound
  BY DEF CopiesBound
<1>4. QED
  BY <1>1, <1>2, <1>3 DEF MigratorInv

-----------------------------------------------------------------------------
(* Every step keeps the invariant.                                         *)

\* What the steps that leave the rows alone, and run no statement, keep.
LEMMA QuietStep ==
    ASSUME MigratorInv, MigratorTypeOK', Progress',
           folder \in Nat, folder' \in Nat, folder <= folder',
           recorded \subseteq recorded', recorded' \ baseline' \subseteq recorded \ baseline,
           UNCHANGED <<done, copies, columns>>, mishaps <= mishaps',
           open' = {}, next' = 1,
           \/ mishaps < mishaps' /\ recorded' = recorded
           \/ phase # "run"
           \/ \E f \in Files : Runs(f) /\ ~columns[f] /\ UNCHANGED recorded
    PROVE  MigratorInv'
<1> USE DEF MigratorInv, MigratorTypeOK
<1>1. OpenRuns' /\ RunSoFar'
  BY FileFacts DEF OpenRuns, RunSoFar
<1>2. RecordedWasRun'
  BY DEF RecordedWasRun
<1>3. InOrder'
  BY DEF InOrder
<1>4. ASSUME NEW s \in Statements
      PROVE  /\ copies'[s] <= mishaps' + 1
             /\ ~Committed(s)' => copies'[s] <= mishaps'
  <2>0. copies[s] \in Nat /\ mishaps \in Nat /\ mishaps' \in Nat
    BY MishapsAssumption
  <2>1. copies[s] <= mishaps + 1 /\ (~Committed(s) => copies[s] <= mishaps)
    BY DEF CopiesBound
  <2>2. CASE mishaps < mishaps'
    BY <2>0, <2>1, <2>2
  <2>3. CASE phase # "run"
    BY <2>0, <2>1, <2>3 DEF Committed, Runs
  <2>4. CASE \E f \in Files : Runs(f) /\ ~columns[f] /\ UNCHANGED recorded
    <3>1. ~Committed(s)' => ~Committed(s)
      BY <2>4, OneRuns DEF Committed
    <3>2. QED
      BY <2>0, <2>1, <3>1
  <2>5. QED
    BY <2>2, <2>3, <2>4
<1>5. CopiesBound'
  BY <1>4 DEF CopiesBound
<1>6. QED
  BY <1>1, <1>2, <1>3, <1>5

LEMMA PushInv == MigratorInv /\ Push => MigratorInv'
<1> SUFFICES ASSUME MigratorInv, Push PROVE MigratorInv'
  OBVIOUS
<1> USE DEF MigratorInv, Push, Down
<1>1. folder \in Nat /\ folder' \in Nat /\ folder <= folder' /\ folder' <= Len(Scripts)
  BY FileFacts DEF MigratorTypeOK
<1>2. MigratorTypeOK'
  BY <1>1, FileFacts DEF MigratorTypeOK, Phase
<1>3. Progress'
  BY <1>1 DEF Progress, UpIsMigrated
<1>4. QED
  BY <1>1, <1>2, <1>3, QuietStep, MishapsAssumption DEF MigratorTypeOK

LEMMA DieInv == MigratorInv /\ Die => MigratorInv'
<1> SUFFICES ASSUME MigratorInv, Die PROVE MigratorInv'
  OBVIOUS
<1> USE DEF MigratorInv, Die, Down, schemaVars
<1>1. MigratorTypeOK'
  BY MishapsAssumption DEF MigratorTypeOK, Phase
<1>2. Progress'
  BY DEF Progress, UpIsMigrated
<1>3. folder \in Nat /\ mishaps < mishaps'
  BY FileFacts, MishapsAssumption DEF MigratorTypeOK
<1>4. QED
  BY <1>1, <1>2, <1>3, QuietStep DEF MigratorTypeOK

LEMMA BootInv == MigratorInv /\ Boot => MigratorInv'
<1> SUFFICES ASSUME MigratorInv, Boot PROVE MigratorInv'
  OBVIOUS
<1> USE DEF MigratorInv, Boot, schemaVars
<1>1. MigratorTypeOK'
  BY DEF MigratorTypeOK, Phase
<1>2. folder \in Nat
  BY FileFacts DEF MigratorTypeOK
<1>3. Progress'
  BY <1>2 DEF Progress, UpIsMigrated
<1>4. open' = {} /\ next' = 1 /\ phase # "run"
  BY DEF Progress
<1>5. QED
  BY <1>1, <1>2, <1>3, <1>4, QuietStep, MishapsAssumption DEF MigratorTypeOK

LEMMA BaselineInv == MigratorInv /\ Baseline => MigratorInv'
<1> SUFFICES ASSUME MigratorInv, Baseline PROVE MigratorInv'
  OBVIOUS
<1> USE DEF MigratorInv, Baseline
<1>1. MigratorTypeOK'
  BY FileFacts DEF MigratorTypeOK, Phase
<1>2. folder \in Nat
  BY FileFacts DEF MigratorTypeOK
<1>3. Progress'
  BY <1>2 DEF Progress, UpIsMigrated
<1>4. open' = {} /\ next' = 1 /\ phase # "run" /\ recorded = {}
  BY DEF Progress
<1>5. QED
  BY <1>1, <1>2, <1>3, <1>4, QuietStep, MishapsAssumption DEF MigratorTypeOK

LEMMA CopyFailsInv ==
    ASSUME MigratorInv, NEW f \in Files, CopyFails(f)
    PROVE  MigratorInv'
<1> USE DEF MigratorInv, CopyFails, Down, schemaVars
<1>1. MigratorTypeOK'
  BY DEF MigratorTypeOK, Phase
<1>2. Progress'
  BY DEF Progress, UpIsMigrated
<1>3. folder \in Nat
  BY FileFacts DEF MigratorTypeOK
<1>4. QED
  BY <1>1, <1>2, <1>3, QuietStep, MishapsAssumption DEF MigratorTypeOK

LEMMA ReadAppliedInv == MigratorInv /\ ReadApplied => MigratorInv'
<1> SUFFICES ASSUME MigratorInv, ReadApplied PROVE MigratorInv'
  OBVIOUS
<1> USE DEF MigratorInv, ReadApplied, schemaVars
<1>1. folder \in Nat /\ 1 .. folder \subseteq Files
  BY FileFacts DEF MigratorTypeOK
<1>2. open' = {} /\ next' = 1 /\ phase = "read"
  BY DEF Progress
<1>3. MigratorTypeOK'
  BY <1>1, <1>2 DEF MigratorTypeOK, Phase
<1>4. Progress'
  BY <1>2 DEF Progress, UpIsMigrated
<1>5. QED
  BY <1>1, <1>2, <1>3, <1>4, QuietStep, MishapsAssumption DEF MigratorTypeOK

\* What is open was committed fewer times than the process died, plus one.
LEMMA OpenIsNotCommitted ==
    ASSUME MigratorInv, NEW s \in open
    PROVE  s \in Statements /\ ~Committed(s) /\ copies[s] <= mishaps
<1>1. s \in Statements /\ Runs(s[1]) /\ columns[s[1]]
  BY DEF MigratorInv, MigratorTypeOK, OpenRuns
<1>2. s[1] \notin recorded
  BY <1>1 DEF MigratorInv, Progress, Runs
<1>3. QED
  BY <1>1, <1>2 DEF MigratorInv, CopiesBound, Committed

\* A file runs only when all before it have their rows.
LEMMA RunsInOrder ==
    ASSUME MigratorInv, NEW f \in Files, Runs(f), NEW g \in Files, g < f
    PROVE  g \in recorded
<1>1. f \in 1 .. folder /\ folder \in Nat /\ g \in 1 .. folder
  BY FileFacts DEF MigratorInv, MigratorTypeOK, Progress, Runs
<1>2. g \notin pending
  BY <1>1, FileFacts DEF Runs
<1>3. QED
  BY <1>1, <1>2 DEF MigratorInv, Progress, Runs

\* Rows of copies that a commit adds up.
LEMMA CommitCounts ==
    ASSUME MigratorInv, NEW extra, CommitOpen(extra)
    PROVE  /\ copies' \in [Statements -> Nat]
           /\ \A s \in Statements : copies[s] \in Nat /\ copies'[s] <= mishaps + 1
           /\ \A s \in Statements \ open : copies'[s] = copies[s]
<1> USE DEF MigratorInv, MigratorTypeOK, CommitOpen
<1>1. ASSUME NEW s \in Statements
      PROVE  copies[s] \in Nat /\ copies'[s] <= mishaps + 1
  <2>1. copies[s] \in Nat /\ mishaps \in Nat
    BY MishapsAssumption
  <2>2. CASE s \in open
    BY <2>1, <2>2, OpenIsNotCommitted
  <2>3. CASE s \notin open
    BY <2>1, <2>3 DEF CopiesBound
  <2>4. QED
    BY <2>2, <2>3, <2>1
<1>2. QED
  BY <1>1

LEMMA ChangeSchemaInv ==
    ASSUME MigratorInv, NEW f \in Files, ChangeSchema(f)
    PROVE  MigratorInv'
<1> USE DEF ChangeSchema
<1> DEFINE stmt == <<f, next>>
<1>1. stmt \in Statements /\ next \in Nat /\ mishaps \in Nat
  BY StatementFacts, MishapsAssumption DEF ComesNext, MigratorInv, MigratorTypeOK
<1>2. MigratorTypeOK'
  <2>1. columns' \in [Files -> BOOLEAN]
    BY DEF MigratorInv, MigratorTypeOK
  <2>2. done' \subseteq Statements /\ open' = {}
    BY <1>1 DEF CommitOpen, MigratorInv, MigratorTypeOK
  <2>3. next' \in Nat \ {0}
    BY <1>1
  <2>4. QED
    BY <2>1, <2>2, <2>3, CommitCounts DEF MigratorInv, MigratorTypeOK
<1>3. Progress'
  BY DEF MigratorInv, Progress, UpIsMigrated, Runs
<1>4. OpenRuns'
  BY DEF OpenRuns, CommitOpen
<1>5. ASSUME NEW g \in Files, Runs(g)', NEW i \in DOMAIN Scripts[g], i < next'
      PROVE  <<g, i>> \in (done \cup open)'
  <2>1. Runs(g) /\ g = f
    BY <1>5, OneRuns DEF Runs, MigratorInv, MigratorTypeOK
  <2>2. i \in Nat
    BY FileFacts
  <2>3. i < next \/ i = next
    BY <1>1, <1>5, <2>2
  <2>4. QED
    BY <2>1, <2>3 DEF MigratorInv, RunSoFar, CommitOpen
<1>6. RunSoFar'
  BY <1>5 DEF RunSoFar
<1>7. RecordedWasRun'
  BY DEF MigratorInv, RecordedWasRun, CommitOpen
<1>8. InOrder'
  <2>1. ASSUME NEW s \in (done \cup open)', NEW g \in Files, g < s[1] PROVE g \in recorded'
    <3>1. CASE s \in done \cup open
      BY <2>1, <3>1 DEF MigratorInv, InOrder
    <3>2. CASE s = stmt
      BY <2>1, <3>2, RunsInOrder
    <3>3. QED
      BY <3>1, <3>2 DEF CommitOpen
  <2>2. QED
    BY <2>1 DEF InOrder
<1>9. ASSUME NEW s \in Statements
      PROVE  copies'[s] <= mishaps' + 1 /\ (~Committed(s)' => copies'[s] <= mishaps')
  <2>1. copies'[s] <= mishaps' + 1
    BY CommitCounts
  <2>2. ASSUME s \in open PROVE Committed(s)'
    <3>1. Runs(s[1]) /\ s[2] < next
      BY <2>2 DEF MigratorInv, OpenRuns
    <3>2. s[2] \in Nat
      BY StatementFacts, FileFacts
    <3>3. s[2] < next'
      BY <1>1, <3>1, <3>2
    <3>4. QED
      BY <3>1, <3>3 DEF Committed, Runs, CommitOpen
  <2>3. ASSUME s \notin open, Committed(s) PROVE Committed(s)'
    <3>1. s[1] \in Files /\ s[2] \in Nat
      BY StatementFacts, FileFacts
    <3>2. ~columns[s[1]] => ~columns'[s[1]]
      BY <3>1 DEF MigratorInv, MigratorTypeOK
    <3>3. s[2] < next => s[2] < next'
      BY <1>1, <3>1
    <3>4. QED
      BY <2>3, <3>2, <3>3 DEF Committed, Runs, CommitOpen
  <2>4. s \notin open /\ ~Committed(s) => copies'[s] <= mishaps'
    BY CommitCounts DEF MigratorInv, CopiesBound
  <2>5. QED
    BY <2>1, <2>2, <2>3, <2>4
<1>10. CopiesBound'
  BY <1>9 DEF CopiesBound
<1>11. QED
  BY <1>2, <1>3, <1>4, <1>6, <1>7, <1>8, <1>10 DEF MigratorInv

LEMMA ChangeSchemaFailsInv ==
    ASSUME MigratorInv, NEW f \in Files, ChangeSchemaFails(f)
    PROVE  MigratorInv'
<1> USE DEF ChangeSchemaFails
<1>1. done' = done \cup open /\ open' = {} /\ mishaps \in Nat
  BY MishapsAssumption DEF CommitOpen, MigratorInv, MigratorTypeOK
<1>2. MigratorTypeOK'
  BY <1>1, CommitCounts, MishapsAssumption DEF MigratorInv, MigratorTypeOK, Phase
<1>3. Progress'
  BY <1>1 DEF MigratorInv, Progress, UpIsMigrated
<1>4. OpenRuns' /\ RunSoFar'
  BY <1>1 DEF OpenRuns, RunSoFar, Runs
<1>5. RecordedWasRun' /\ InOrder'
  BY <1>1 DEF MigratorInv, RecordedWasRun, InOrder
<1>6. ASSUME NEW s \in Statements
      PROVE  copies'[s] <= mishaps' + 1 /\ copies'[s] <= mishaps'
  <2>1. copies'[s] \in Nat /\ copies'[s] <= mishaps + 1
    BY CommitCounts
  <2>2. QED
    BY <1>1, <2>1
<1>7. CopiesBound'
  BY <1>6 DEF CopiesBound
<1>8. QED
  BY <1>2, <1>3, <1>4, <1>5, <1>7 DEF MigratorInv

LEMMA CopyRowsInv ==
    ASSUME MigratorInv, NEW f \in Files, CopyRows(f)
    PROVE  MigratorInv'
<1> USE DEF CopyRows, schemaVars
<1> DEFINE stmt == <<f, next>>
<1>1. stmt \in Statements /\ next \in Nat
  BY StatementFacts DEF ComesNext, MigratorInv, MigratorTypeOK
<1>2. MigratorTypeOK'
  BY <1>1 DEF MigratorInv, MigratorTypeOK
<1>3. Progress'
  BY DEF MigratorInv, Progress, UpIsMigrated, Runs
<1>4. OpenRuns'
  <2>1. ASSUME NEW s \in open PROVE Runs(s[1])' /\ s[2] < next' /\ columns'[s[1]]
    <3>1. s[2] \in Nat
      BY StatementFacts, FileFacts DEF MigratorInv, MigratorTypeOK
    <3>2. QED
      BY <1>1, <3>1 DEF MigratorInv, OpenRuns, Runs
  <2>2. Runs(f)' /\ next < next' /\ columns'[f]
    BY <1>1 DEF Runs
  <2>3. QED
    BY <2>1, <2>2 DEF OpenRuns
<1>5. ASSUME NEW g \in Files, Runs(g)', NEW i \in DOMAIN Scripts[g], i < next'
      PROVE  <<g, i>> \in (done \cup open)'
  <2>1. Runs(g) /\ g = f
    BY <1>5, OneRuns DEF Runs, MigratorInv, MigratorTypeOK
  <2>2. i \in Nat
    BY FileFacts
  <2>3. i < next \/ i = next
    BY <1>1, <1>5, <2>2
  <2>4. QED
    BY <2>1, <2>3 DEF MigratorInv, RunSoFar
<1>6. RunSoFar'
  BY <1>5 DEF RunSoFar
<1>7. RecordedWasRun'
  BY DEF MigratorInv, RecordedWasRun
<1>8. InOrder'
  <2>1. ASSUME NEW g \in Files, g < f PROVE g \in recorded
    BY <2>1, RunsInOrder
  <2>2. QED
    BY <2>1 DEF MigratorInv, InOrder
<1>9. ASSUME NEW s \in Statements
      PROVE  copies'[s] <= mishaps' + 1 /\ (~Committed(s)' => copies'[s] <= mishaps')
  <2>1. s[2] \in Nat
    BY StatementFacts, FileFacts
  <2>2. CASE s # stmt
    <3>1. Committed(s) => Committed(s)'
      BY <1>1, <2>1, <2>2 DEF Committed, Runs
    <3>2. QED
      BY <3>1 DEF MigratorInv, CopiesBound
  <2>3. CASE s = stmt
    <3>1. ~Committed(s)
      BY <1>1, <2>3 DEF Committed, Runs, MigratorInv, Progress
    <3>2. QED
      BY <3>1 DEF MigratorInv, CopiesBound
  <2>4. QED
    BY <2>2, <2>3
<1>10. CopiesBound'
  BY <1>9 DEF CopiesBound
<1>11. QED
  BY <1>2, <1>3, <1>4, <1>6, <1>7, <1>8, <1>10 DEF MigratorInv

LEMMA RecordInv ==
    ASSUME MigratorInv, NEW f \in Files, Record(f)
    PROVE  MigratorInv'
<1> USE DEF Record
<1>1. done' = done \cup open /\ open' = {}
  BY DEF CommitOpen
<1>2. f \in 1 .. folder /\ f \in pending /\ phase = "run"
  BY DEF MigratorInv, Progress, Runs
<1>3. MigratorTypeOK'
  BY <1>1, CommitCounts DEF MigratorInv, MigratorTypeOK, Phase
<1>4. Progress'
  BY <1>1, <1>2 DEF MigratorInv, Progress, UpIsMigrated
<1>5. OpenRuns' /\ RunSoFar'
  BY <1>1, FileFacts DEF OpenRuns, RunSoFar
<1>6. RecordedWasRun'
  <2>1. ASSUME NEW s \in Statements, s[1] = f PROVE s \in done'
    <3>1. s[2] \in DOMAIN Scripts[f] /\ s = <<f, s[2]>>
      BY <2>1, StatementFacts
    <3>2. s[2] < next
      BY <3>1, FileFacts DEF MigratorInv, MigratorTypeOK
    <3>3. QED
      BY <1>1, <3>1, <3>2 DEF MigratorInv, RunSoFar
  <2>2. QED
    BY <1>1, <2>1 DEF MigratorInv, RecordedWasRun
<1>7. InOrder'
  BY <1>1 DEF MigratorInv, InOrder
<1>8. ASSUME NEW s \in Statements
      PROVE  copies'[s] <= mishaps' + 1 /\ (~Committed(s)' => copies'[s] <= mishaps')
  <2>1. copies'[s] <= mishaps' + 1
    BY CommitCounts
  <2>2. ASSUME s \in open PROVE Committed(s)'
    <3>1. s[1] = f
      BY <2>2, OneRuns DEF MigratorInv, MigratorTypeOK, OpenRuns
    <3>2. QED
      BY <3>1 DEF Committed
  <2>3. ASSUME s \notin open, Committed(s) PROVE Committed(s)'
    BY <2>3, OneRuns DEF Committed, MigratorInv, MigratorTypeOK
  <2>4. s \notin open /\ ~Committed(s) => copies'[s] <= mishaps'
    BY CommitCounts DEF MigratorInv, CopiesBound
  <2>5. QED
    BY <2>1, <2>2, <2>3, <2>4
<1>9. CopiesBound'
  BY <1>8 DEF CopiesBound
<1>10. QED
  BY <1>3, <1>4, <1>5, <1>6, <1>7, <1>9 DEF MigratorInv

LEMMA MigratorStep == MigratorInv /\ [MigratorNext]_migratorVars => MigratorInv'
<1> SUFFICES ASSUME MigratorInv, [MigratorNext]_migratorVars PROVE MigratorInv'
  OBVIOUS
<1>1. CASE Push
  BY <1>1, PushInv
<1>2. CASE Die
  BY <1>2, DieInv
<1>3. CASE Boot \/ Baseline \/ ReadApplied
  BY <1>3, BootInv, BaselineInv, ReadAppliedInv
<1>4. ASSUME NEW f \in Files,
             ChangeSchema(f) \/ CopyRows(f) \/ CopyFails(f) \/ Record(f) \/ ChangeSchemaFails(f)
      PROVE  MigratorInv'
  BY <1>4, ChangeSchemaInv, CopyRowsInv, CopyFailsInv, RecordInv, ChangeSchemaFailsInv
<1>5. CASE UNCHANGED migratorVars
  BY <1>5 DEF migratorVars, schemaVars, startVars, MigratorInv, MigratorTypeOK, Progress,
              UpIsMigrated, OpenRuns, RunSoFar, Runs, RecordedWasRun, InOrder, CopiesBound,
              Committed
<1>6. QED
  BY <1>1, <1>2, <1>3, <1>4, <1>5 DEF MigratorNext, GoOn

(* Whatever files there are and however often a start dies: a row of       *)
(* schema_migrations stands for a file that was run, files are run in      *)
(* order, rows are copied once more for each failure at most, and the      *)
(* process gets past run_migrations only with every row in place.          *)
THEOREM MigratorSafe ==
    MigratorSpec => [](RecordedWasRun /\ InOrder /\ CopiedOncePerFailure /\ UpIsMigrated)
<1>1. MigratorInv => RecordedWasRun /\ InOrder /\ CopiedOncePerFailure /\ UpIsMigrated
  BY DEF MigratorInv, CopiesBound, CopiedOncePerFailure, Progress
<1>2. QED
  BY <1>1, MigratorInitInv, MigratorStep, PTL DEF MigratorSpec

-----------------------------------------------------------------------------
(* What keeps the process down stays.                                      *)

\* A copy of f that this run of f has not got past.
CopyAhead(f) ==
    \E i \in DOMAIN Scripts[f] : Scripts[f][i] = "copy" /\ ~(Runs(f) /\ i < next)

LEMMA CopyStaysAhead ==
    ASSUME MigratorInv, NEW f \in Files, ~columns[f], CopyAhead(f), MigratorNext
    PROVE  CopyAhead(f)'
<1>1. PICK i \in DOMAIN Scripts[f] : Scripts[f][i] = "copy" /\ ~(Runs(f) /\ i < next)
  BY DEF CopyAhead
<1>2. i \in Nat \ {0} /\ next \in Nat
  BY FileFacts DEF MigratorInv, MigratorTypeOK
<1> SUFFICES ~(Runs(f)' /\ i < next')
  BY <1>1 DEF CopyAhead
<1>3. CASE next' = 1
  BY <1>2, <1>3
<1>4. CASE Push \/ Die \/ \E g \in Files : ChangeSchemaFails(g) \/ CopyFails(g) \/ Record(g)
  BY <1>3, <1>4 DEF Push, Die, Down, ChangeSchemaFails, CopyFails, Record
<1>5. CASE Boot \/ Baseline \/ ReadApplied
  <2>1. phase # "run"
    BY <1>5 DEF Boot, Baseline, ReadApplied
  <2>2. next' = 1
    BY <1>5, <2>1 DEF MigratorInv, Progress, Boot, Baseline, ReadApplied
  <2>3. QED
    BY <1>3, <2>2
<1>6. ASSUME NEW g \in Files, ChangeSchema(g) \/ CopyRows(g), Runs(f)', i < next'
      PROVE  FALSE
  <2>1. Runs(g) /\ Runs(f)
    BY <1>6 DEF Runs, ChangeSchema, CopyRows
  <2>2. g = f
    BY <2>1, OneRuns DEF MigratorInv, MigratorTypeOK
  <2>3. ComesNext(f, {"ddl", "drop"}) /\ next' = next + 1
    BY <1>6, <2>2 DEF ChangeSchema, CopyRows
  <2>4. i # next
    BY <1>1, <2>3 DEF ComesNext
  <2>5. QED
    BY <1>1, <1>2, <1>6, <2>1, <2>3, <2>4
<1>7. QED
  BY <1>4, <1>5, <1>6 DEF MigratorNext, GoOn

LEMMA StuckStays ==
    ASSUME MigratorInv, NEW f \in Files, Stuck(f), MigratorNext
    PROVE  Stuck(f)'
<1> USE DEF MigratorInv, MigratorTypeOK
<1>1. f \in 1 .. folder /\ f \notin recorded /\ recorded # {} /\ ~columns[f] /\ CopyAhead(f)
  BY DEF Stuck, CopyAhead
<1>2. f \in 1 .. folder'
  <2>1. folder \in Nat
    BY FileFacts
  <2>2. Push => folder' = folder + 1
    BY DEF Push
  <2>3. ~Push => folder' = folder
    BY DEF MigratorNext, GoOn, Die, Boot, Baseline, ReadApplied,
           ChangeSchema, ChangeSchemaFails, CopyRows, CopyFails, Record, schemaVars
  <2>4. folder' = folder \/ folder' = folder + 1
    BY <2>2, <2>3
  <2>5. QED
    BY <1>1, <2>1, <2>4
<1>3. ~columns'[f]
  BY <1>1 DEF MigratorNext, GoOn, Push, Die, Boot, Baseline, ReadApplied,
         ChangeSchema, ChangeSchemaFails, CopyRows, CopyFails, Record, schemaVars
<1>4. f \notin recorded' /\ recorded' # {}
  <2>1. ~Baseline
    BY <1>1 DEF Baseline, Progress
  <2>2. ASSUME NEW g \in Files, Record(g) PROVE g # f
    <3>1. PICK i \in DOMAIN Scripts[f] : ~(Runs(f) /\ i < next)
      BY <1>1 DEF CopyAhead
    <3>2. QED
      BY <2>2, <3>1, FileFacts DEF Record
  <2>3. QED
    BY <1>1, <2>1, <2>2 DEF MigratorNext, GoOn, Push, Die, Boot, ReadApplied,
           ChangeSchema, ChangeSchemaFails, CopyRows, CopyFails, Record, schemaVars
<1>5. CopyAhead(f)'
  BY <1>1, CopyStaysAhead
<1>6. QED
  BY <1>2, <1>3, <1>4, <1>5 DEF Stuck, CopyAhead

(* A file that can no longer be run (0004 after a failure among its DROP   *)
(* COLUMNs) stays so through every push, crash and start.                  *)
THEOREM MigratorStuckForGood == MigratorSpec => StuckForGood
<1>1. MigratorInv /\ [MigratorNext]_migratorVars =>
          [\A f \in Files : Stuck(f) => Stuck(f)']_migratorVars
  BY StuckStays
<1>2. QED
  BY <1>1, MigratorInitInv, MigratorStep, PTL DEF MigratorSpec, StuckForGood

-----------------------------------------------------------------------------
(* BotManager                                                              *)

(* The inductive invariant.                                                *)

\* Bots and the loop are there only while main() is past run_migrations.
UpWhenServing ==
    (loop # "fetch" \/ \E r \in Resellers : InRunning(r)) => phase = "up"

\* A bot has a dispatcher, and so has the one that is being started; where the
\* routers are exclusive it is then the only one.
Attached ==
    /\ \A r \in Resellers : InRunning(r) => attached
    /\ loop = "commands" =>
          /\ attached /\ starting \in Resellers
          /\ routers_exclusive => \A r \in Resellers : ~InRunning(r)

BotInv ==
    /\ MigratorInv
    /\ TypeOK
    /\ UpWhenServing
    /\ Attached
    /\ OneBotPerProcess

-----------------------------------------------------------------------------
LEMMA InitInv == Init => BotInv
<1> SUFFICES ASSUME Init PROVE BotInv
  OBVIOUS
<1>1. MigratorInv
  BY MigratorInitInv DEF Init
<1>2. TypeOK
  <2>1. MigratorTypeOK
    BY <1>1 DEF MigratorInv
  <2>2. glitches \in 0 .. MaxGlitches
    BY GlitchesAssumption DEF Init
  <2>3. status \in [Resellers -> {"none", "active", "suspended"}]
    BY DEF Init
  <2>4. token_ok \in [Resellers -> BOOLEAN] /\ running \in [Resellers -> BotState]
    BY DEF Init, BotState
  <2>5. QED
    BY <2>1, <2>2, <2>3, <2>4 DEF Init, TypeOK
<1>3. UpWhenServing /\ Attached /\ OneBotPerProcess
  BY DEF Init, UpWhenServing, Attached, OneBotPerProcess, InRunning
<1>4. QED
  BY <1>1, <1>2, <1>3 DEF BotInv

\* The steps of run_migrations, a push and a crash keep what Migrator promises;
\* every other step leaves its variables alone.
LEMMA MigratorPart ==
    ASSUME BotInv, [Next]_vars
    PROVE  MigratorInv' /\ MigratorTypeOK'
<1>1. MigratorNext \/ UNCHANGED migratorVars
  BY DEF Next, vars, MigratorNext
<1>2. QED
  BY <1>1, MigratorStep DEF BotInv, MigratorInv

\* While the process serves, no step of run_migrations is taken.
LEMMA StartIsOver == phase = "up" => ~GoOn /\ \A f \in Files : ~ChangeSchemaFails(f)
BY DEF GoOn, Boot, Baseline, ReadApplied, ChangeSchema, CopyRows, CopyFails, Record,
       ChangeSchemaFails, Runs

-----------------------------------------------------------------------------
(* Every step keeps the invariant.                                         *)

LEMMA ExitInv ==
    ASSUME BotInv, MigratorInv', UNCHANGED routers_exclusive, Exit
    PROVE  BotInv'
<1> USE DEF Exit, EndRound
<1>1. TypeOK'
  BY DEF BotInv, TypeOK, BotState, MigratorInv
<1>2. UpWhenServing' /\ Attached' /\ OneBotPerProcess'
  BY DEF UpWhenServing, Attached, OneBotPerProcess, InRunning
<1>3. QED
  BY <1>1, <1>2 DEF BotInv

LEMMA StartInv ==
    ASSUME BotInv, MigratorInv', UNCHANGED <<routers_exclusive, botVars>>,
           GoOn \/ \E f \in Files : ChangeSchemaFails(f)
    PROVE  BotInv'
<1> USE DEF botVars
<1>1. TypeOK'
  BY DEF BotInv, TypeOK, MigratorInv
<1>2. UpWhenServing'
  BY StartIsOver DEF BotInv, UpWhenServing, InRunning
<1>3. Attached' /\ OneBotPerProcess'
  BY DEF BotInv, Attached, OneBotPerProcess, InRunning
<1>4. QED
  BY <1>1, <1>2, <1>3 DEF BotInv

\* What happens outside of the loop starts no bot.
LEMMA OutsideInv ==
    ASSUME BotInv, MigratorInv', UNCHANGED <<migratorVars, routers_exclusive>>,
           NEW r \in Resellers,
           AddReseller(r) \/ Toggle(r) \/ RevokeToken(r) \/ PollingEnds(r)
    PROVE  BotInv'
<1> USE DEF AddReseller, Toggle, RevokeToken, PollingEnds, migratorVars, startVars
<1>1. TypeOK'
  <2>1. status' \in [Resellers -> {"none", "active", "suspended"}]
    BY DEF BotInv, TypeOK
  <2>2. token_ok' \in [Resellers -> BOOLEAN] /\ running' \in [Resellers -> BotState]
    BY DEF BotInv, TypeOK, BotState
  <2>3. glitches' \in 0 .. MaxGlitches
    BY GlitchesAssumption DEF BotInv, TypeOK
  <2>4. QED
    BY <2>1, <2>2, <2>3 DEF BotInv, TypeOK, MigratorInv
<1>2. \A q \in Resellers : InRunning(q)' => InRunning(q)
  BY DEF BotInv, TypeOK, InRunning
<1>3. UNCHANGED <<attached, loop, starting>>
  OBVIOUS
<1>4. UpWhenServing' /\ Attached' /\ OneBotPerProcess'
  BY <1>2, <1>3 DEF BotInv, UpWhenServing, Attached, OneBotPerProcess
<1>5. QED
  BY <1>1, <1>4 DEF BotInv

LEMMA SyncInv ==
    ASSUME BotInv, MigratorInv', UNCHANGED <<migratorVars, routers_exclusive>>, SyncStep
    PROVE  BotInv'
<1> USE DEF EndRound, migratorVars, startVars
<1>t. MigratorTypeOK'
  BY DEF MigratorInv
<1>1. CASE Fetch \/ AllStarted \/ Sleep
  <2> USE <1>1 DEF Fetch, AllStarted, Sleep
  <2>1. TypeOK'
    BY <1>t DEF BotInv, TypeOK
  <2>2. UpWhenServing' /\ Attached' /\ OneBotPerProcess'
    BY DEF BotInv, UpWhenServing, Attached, OneBotPerProcess, InRunning
  <2>3. QED
    BY <2>1, <2>2 DEF BotInv
<1>2. CASE SetMyCommandsFails
  <2> USE <1>2 DEF SetMyCommandsFails
  <2>1. TypeOK'
    BY <1>t, GlitchesAssumption DEF BotInv, TypeOK
  <2>2. UpWhenServing' /\ Attached' /\ OneBotPerProcess'
    BY DEF BotInv, UpWhenServing, Attached, OneBotPerProcess, InRunning
  <2>3. QED
    BY <2>1, <2>2 DEF BotInv
<1>3. CASE SetMyCommands
  <2> USE <1>3 DEF SetMyCommands
  <2>1. TypeOK'
    BY <1>t DEF BotInv, TypeOK, BotState
  <2>2. \A q \in Resellers : InRunning(q)' => InRunning(q) \/ q = starting
    BY DEF BotInv, TypeOK, InRunning
  <2>3. UpWhenServing' /\ Attached'
    BY <2>2 DEF BotInv, UpWhenServing, Attached
  <2>4. OneBotPerProcess'
    BY <2>2 DEF BotInv, Attached, OneBotPerProcess
  <2>5. QED
    BY <2>1, <2>3, <2>4 DEF BotInv
<1>4. ASSUME NEW r \in Resellers, BuildDispatcher(r) PROVE BotInv'
  <2> USE <1>4 DEF BuildDispatcher
  <2>1. TypeOK'
    BY <1>t DEF BotInv, TypeOK
  <2>2. UpWhenServing' /\ OneBotPerProcess'
    BY DEF BotInv, UpWhenServing, OneBotPerProcess, InRunning
  <2>3. Attached'
    BY DEF BotInv, Attached, InRunning
  <2>4. QED
    BY <2>1, <2>2, <2>3 DEF BotInv
<1>5. ASSUME NEW r \in Resellers, StopBot(r) PROVE BotInv'
  <2> USE <1>5 DEF StopBot
  <2>1. TypeOK'
    BY <1>t DEF BotInv, TypeOK, BotState
  <2>2. \A q \in Resellers : InRunning(q)' => InRunning(q)
    BY DEF BotInv, TypeOK, InRunning
  <2>3. UpWhenServing' /\ Attached' /\ OneBotPerProcess'
    BY <2>2 DEF BotInv, UpWhenServing, Attached, OneBotPerProcess
  <2>4. QED
    BY <2>1, <2>3 DEF BotInv
<1>6. QED
  BY <1>1, <1>2, <1>3, <1>4, <1>5 DEF SyncStep

LEMMA BotStep == BotInv /\ [Next]_vars => BotInv'
<1> SUFFICES ASSUME BotInv, [Next]_vars PROVE BotInv'
  OBVIOUS
<1>1. MigratorInv'
  BY MigratorPart
<1>2. CASE (Push \/ Die) /\ Exit /\ UNCHANGED routers_exclusive
  BY <1>1, <1>2, ExitInv
<1>3. CASE /\ GoOn \/ \E f \in Files : ChangeSchemaFails(f)
           /\ UNCHANGED <<routers_exclusive, botVars>>
  BY <1>1, <1>3, StartInv
<1>4. CASE SyncStep /\ UNCHANGED <<migratorVars, routers_exclusive>>
  BY <1>1, <1>4, SyncInv
<1>5. ASSUME NEW r \in Resellers, UNCHANGED <<migratorVars, routers_exclusive>>,
             AddReseller(r) \/ Toggle(r) \/ RevokeToken(r) \/ PollingEnds(r)
      PROVE  BotInv'
  BY <1>1, <1>5, OutsideInv
<1>6. CASE UNCHANGED vars
  BY <1>1, <1>6 DEF vars, botVars, migratorVars, startVars, BotInv, MigratorInv, TypeOK,
                    UpWhenServing, Attached, OneBotPerProcess, InRunning
<1>7. QED
  BY <1>2, <1>3, <1>4, <1>5, <1>6 DEF Next

LEMMA AlwaysBotInv == Spec => []BotInv
BY InitInv, BotStep, PTL DEF Spec

-----------------------------------------------------------------------------
(* Rows, bots and the loop keep their types, whatever run_forever, the     *)
(* super admin and Telegram do.                                            *)
THEOREM BotManagerTypeOK == Spec => []TypeOK
<1>1. BotInv => TypeOK
  BY DEF BotInv
<1>2. QED
  BY <1>1, AlwaysBotInv, PTL

(* run_migrations records only what was run, however it is interrupted.    *)
THEOREM BotManagerRecordedWasRun == Spec => []RecordedWasRun
<1>1. BotInv => RecordedWasRun
  BY DEF BotInv, MigratorInv
<1>2. QED
  BY <1>1, AlwaysBotInv, PTL

(* run_migrations runs files in the order of their names, across crashes.  *)
THEOREM BotManagerInOrder == Spec => []InOrder
<1>1. BotInv => InOrder
  BY DEF BotInv, MigratorInv
<1>2. QED
  BY <1>1, AlwaysBotInv, PTL

(* The INSERTs of a file are repeated once per failure at most, although   *)
(* its statements commit by themselves.                                    *)
THEOREM BotManagerCopiedOncePerFailure == Spec => []CopiedOncePerFailure
<1>1. BotInv => CopiedOncePerFailure
  BY DEF BotInv, MigratorInv, CopiesBound, CopiedOncePerFailure
<1>2. QED
  BY <1>1, AlwaysBotInv, PTL

(* main() awaits run_migrations before it starts the loop, so no bot polls *)
(* on a database that lacks a file.                                        *)
THEOREM BotManagerServedOnMigrated == Spec => []ServedOnMigrated
<1>1. BotInv => ServedOnMigrated
  BY DEF BotInv, UpWhenServing, MigratorInv, Progress, UpIsMigrated, ServedOnMigrated
<1>2. QED
  BY <1>1, AlwaysBotInv, PTL

(* With exclusive routers build_dispatcher lets one process serve one      *)
(* reseller at most, whichever are added, suspended or fail to start.      *)
THEOREM BotManagerOneBotPerProcess == Spec => []OneBotPerProcess
<1>1. BotInv => OneBotPerProcess
  BY DEF BotInv
<1>2. QED
  BY <1>1, AlwaysBotInv, PTL
=============================================================================
