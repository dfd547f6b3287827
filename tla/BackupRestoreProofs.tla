------------------------ MODULE BackupRestoreProofs ------------------------
(* Theorems about BackupRestore, for any transactions, tables, connections *)
(* and concurrent handlers of the super admin's taps.                      *)
EXTENDS BackupRestore, TLAPS

-----------------------------------------------------------------------------
(* Type correctness.  A handler that writes a file has one, and one that   *)
(* is going to restore has the file it read.                               *)

HasFiles ==
    \A t \in Tasks :
        /\ task[t].at \in {"backup", "safety"} => task[t].file \in File
        /\ task[t].at \in {"safety", "restore"} => task[t].data \in File

Typed == TypeOK /\ HasFiles

LEMMA ListedIsTyped ==
    /\ Len(Listed) \in Nat
    /\ DOMAIN Listed = 1 .. Len(Listed)
    /\ \A i \in 1 .. Len(Listed) : Listed[i] \in ListedTables
    /\ ListedTables = {Listed[i] : i \in 1 .. Len(Listed)}
    /\ ListedTables \subseteq Tables
BY ListedAssumption DEF ListedTables, Tables

LEMMA TouchesIsTyped ==
    \A x \in Txns : Touches[x] \subseteq Tables /\ Touches[x] # {} /\ Needs[x] \subseteq Txns
BY TouchesAssumption, NeedsAssumption

LEMMA IdleIsTask == Idle \in Task /\ Idle.at = "idle"
BY ListedIsTyped DEF Idle, Task

LEMMA EmptyIsFile == Empty \in File
BY DEF Empty, File

LEMMA InitTyped == Init => Typed
BY IdleIsTask DEF Init, Typed, TypeOK, HasFiles

LEMMA CommitTyped ==
    ASSUME Typed, NEW x \in Txns, Commit(x) PROVE Typed'
BY DEF Commit, Typed, TypeOK, HasFiles, fileVars

LEMMA DeleteRowTyped ==
    ASSUME Typed, NEW x \in Txns, NEW conn \in Connections, DeleteRow(x, conn) PROVE Typed'
BY DEF DeleteRow, Typed, TypeOK, HasFiles, fileVars

\* The steps of the dialog, those of a restart and a stutter.
DialogStep == StartRestore \/ ReceiveFile \/ EndDialog \/ UNCHANGED vars

LEMMA DialogTyped ==
    ASSUME Typed, DialogStep PROVE Typed'
BY DEF DialogStep, StartRestore, ReceiveFile, EndDialog, vars, dataVars, fileVars,
       Typed, TypeOK, HasFiles

LEMMA RestartTyped ==
    ASSUME Typed, Restart PROVE Typed'
BY IdleIsTask DEF Restart, Typed, TypeOK, HasFiles

LEMMA TakeBackupTyped ==
    ASSUME Typed, NEW t \in Tasks, TakeBackup(t) PROVE Typed'
BY IdleIsTask, EmptyIsFile, ListedIsTyped
   DEF TakeBackup, Start, Idle, Task, dataVars, fileVars, Typed, TypeOK, HasFiles

\* The file of a handler that reads a table, and how far it is.
LEMMA ReadTableStep ==
    ASSUME Typed, NEW t \in Tasks, ReadTable(t)
    PROVE  LET i == task[t].table
               r == [task[t] EXCEPT !.file = [@ EXCEPT ![Listed[i]] = db[Listed[i]]],
                                    !.table = i + 1] IN
           /\ task[t].at \in {"backup", "safety"} /\ task[t].file \in File
           /\ i \in 1 .. Len(Listed) /\ Listed[i] \in ListedTables
           /\ task' = [task EXCEPT ![t] = r]
           /\ r.at = task[t].at /\ r.table = i + 1 /\ r.data = task[t].data
           /\ r.file = [task[t].file EXCEPT ![Listed[i]] = db[Listed[i]]]
           /\ r \in Task /\ r.file \in File
           /\ UNCHANGED <<dataVars, fileVars>>
<1> DEFINE i == task[t].table
           r == [task[t] EXCEPT !.file = [@ EXCEPT ![Listed[i]] = db[Listed[i]]],
                                !.table = i + 1]
<1>1. /\ task[t] \in Task /\ task[t].file \in File
      /\ task[t].at \in {"backup", "safety"}
      /\ i \in Nat /\ i \in 1 .. Len(Listed) /\ i + 1 \in 1 .. Len(Listed) + 1
  BY ListedIsTyped DEF ReadTable, Typed, TypeOK, HasFiles, Task
<1>2. Listed[i] \in ListedTables /\ db[Listed[i]] \in SUBSET Txns
  BY <1>1, ListedIsTyped DEF Typed, TypeOK
<1>3. task' = [task EXCEPT ![t] = r] /\ UNCHANGED <<dataVars, fileVars>>
  BY DEF ReadTable
<1>4. [task[t].file EXCEPT ![Listed[i]] = db[Listed[i]]] \in File
  BY <1>1, <1>2 DEF File
<1>5. /\ r.at = task[t].at /\ r.table = i + 1 /\ r.data = task[t].data
      /\ r.file = [task[t].file EXCEPT ![Listed[i]] = db[Listed[i]]]
      /\ r \in Task
  BY <1>1, <1>4 DEF Task
<1>6. QED
  BY <1>1, <1>2, <1>3, <1>4, <1>5

LEMMA ReadTableTyped ==
    ASSUME Typed, NEW t \in Tasks, ReadTable(t) PROVE Typed'
<1> DEFINE i == task[t].table
           r == [task[t] EXCEPT !.file = [@ EXCEPT ![Listed[i]] = db[Listed[i]]],
                                !.table = i + 1]
<1>1. /\ task' = [task EXCEPT ![t] = r]
      /\ r.at = task[t].at /\ r.data = task[t].data
      /\ r \in Task /\ r.file \in File
      /\ UNCHANGED <<dataVars, fileVars>>
  BY ReadTableStep
<1> HIDE DEF r
<1>2. QED
  BY <1>1 DEF dataVars, fileVars, Typed, TypeOK, HasFiles

LEMMA SendBackupTyped ==
    ASSUME Typed, NEW t \in Tasks, SendBackup(t) PROVE Typed'
BY IdleIsTask DEF SendBackup, Start, dataVars, Typed, TypeOK, HasFiles

LEMMA ConfirmRestoreTyped ==
    ASSUME Typed, NEW t \in Tasks, ConfirmRestore(t) PROVE Typed'
BY IdleIsTask, EmptyIsFile, ListedIsTyped
   DEF ConfirmRestore, Start, Idle, Task, dataVars, fileVars, Typed, TypeOK, HasFiles

LEMMA SaveSafetyTyped ==
    ASSUME Typed, NEW t \in Tasks, SaveSafety(t) PROVE Typed'
<1> DEFINE r == [task[t] EXCEPT !.at = "restore"]
<1>1. /\ task[t] \in Task /\ task[t].file \in File /\ task[t].data \in File
      /\ r \in Task /\ r.at = "restore" /\ r.data = task[t].data
  BY DEF SaveSafety, Typed, TypeOK, HasFiles, Task
<1>2. task' = [task EXCEPT ![t] = r]
  BY DEF SaveSafety
<1> HIDE DEF r
<1>3. QED
  BY <1>1, <1>2 DEF SaveSafety, dataVars, Typed, TypeOK, HasFiles

LEMMA RestoreTyped ==
    ASSUME Typed, NEW t \in Tasks, NEW conn \in Connections, Restore(t, conn) PROVE Typed'
<1>1. task[t].data \in File
  BY DEF Restore, Typed, HasFiles
<1>2. db' \in [Tables -> SUBSET Txns]
  BY <1>1 DEF Restore, Typed, TypeOK, File
<1>3. overlapped' \subseteq Txns
  BY DEF Restore, Typed, TypeOK
<1>4. QED
  BY <1>2, <1>3, IdleIsTask DEF Restore, Start, Typed, TypeOK, HasFiles

LEMMA RestoreFailsTyped ==
    ASSUME Typed, NEW t \in Tasks, NEW conn \in Connections, RestoreFails(t, conn)
    PROVE  Typed'
BY IdleIsTask DEF RestoreFails, Start, Typed, TypeOK, HasFiles

\* The steps of Next, one by one.
LEMMA Steps ==
    ASSUME [Next]_vars
    PROVE  \/ DialogStep
           \/ Restart
           \/ \E x \in Txns : Commit(x)
           \/ \E x \in Txns, conn \in Connections : DeleteRow(x, conn)
           \/ \E t \in Tasks : TakeBackup(t)
           \/ \E t \in Tasks : ReadTable(t)
           \/ \E t \in Tasks : SendBackup(t)
           \/ \E t \in Tasks : ConfirmRestore(t)
           \/ \E t \in Tasks : SaveSafety(t)
           \/ \E t \in Tasks, conn \in Connections : Restore(t, conn)
           \/ \E t \in Tasks, conn \in Connections : RestoreFails(t, conn)
BY DEF Next, DialogStep

LEMMA NextTyped == Typed /\ [Next]_vars => Typed'
<1> SUFFICES ASSUME Typed, [Next]_vars PROVE Typed'
  OBVIOUS
<1> QED
  BY Steps, DialogTyped, RestartTyped, CommitTyped, DeleteRowTyped, TakeBackupTyped,
     ReadTableTyped, SendBackupTyped, ConfirmRestoreTyped, SaveSafetyTyped,
     RestoreTyped, RestoreFailsTyped

\* The state of the database, the files and the dialog stays well formed:
\* nothing but files of the listed tables is kept, uploaded or restored.
THEOREM BackupRestoreTypeOK == Spec => []TypeOK
<1>1. Typed => TypeOK
  BY DEF Typed
<1> QED
  BY InitTyped, NextTyped, <1>1, PTL DEF Spec

-----------------------------------------------------------------------------
(* A database or a file is sound if it holds all of a transaction or       *)
(* nothing of it, and with it what its foreign keys refer to.  Left are    *)
(* the transactions about which nothing is said, and loose says whether a  *)
(* DELETE may have run without the foreign key checks.                     *)

Present(x, f) == \E tab \in Touches[x] : x \in f[tab]
Complete(x, f) == \A tab \in Touches[x] : x \in f[tab]
AllListed(x) == Touches[x] \subseteq ListedTables
Referred(x) == {y \in Needs[x] : AllListed(y)}

Sound(f, Left, loose) ==
    \A x \in Txns \ Left : AllListed(x) /\ Present(x, f) =>
        Complete(x, f) /\ (~loose => \A y \in Referred(x) : Complete(y, f))

\* It is a matter of the listed tables only.
LEMMA SoundOnListed ==
    ASSUME NEW f, NEW Left, NEW loose \in BOOLEAN, Sound(f, Left, loose),
           NEW g, \A tab \in ListedTables : g[tab] = f[tab]
    PROVE  Sound(g, Left, loose)
BY DEF Sound, Present, Complete, AllListed, Referred

(* What a handler has read so far is what the database holds, but for what *)
(* changed meanwhile; and what a row that is still there refers to has     *)
(* been read if its table has.                                             *)

ReadUpTo(n) == {Listed[j] : j \in 1 .. n}
ReadSoFar(t) == ReadUpTo(task[t].table - 1)

CopyIsFaithful(t) ==
    \A x \in Txns \ overlapped :
        /\ \A tab \in ListedTables :
               x \in task[t].file[tab] <=> x \in db[tab] /\ tab \in ReadSoFar(t)
        /\ ~failed /\ AllListed(x) /\ Present(x, db) =>
               \A y \in Referred(x) : \A tab \in Touches[y] \cap ReadSoFar(t) :
                   y \in task[t].file[tab]

\* A handler that is about to restore has made its safety copy.
CopyIsSaved(t) ==
    \A x \in Txns \ (deleted \cup overlapped), tab \in ListedTables :
        x \in db[tab] => \E f \in safety : x \in f[tab]

FilesSound ==
    /\ Sound(db, overlapped, failed)
    /\ \A f \in kept \cup safety : Sound(f, overlapped, failed)
    /\ pending_restore # NoFile => Sound(pending_restore, overlapped, failed)
    /\ \A t \in Tasks : task[t].at \in {"safety", "restore"} =>
                            Sound(task[t].data, overlapped, failed)

CopiesFaithful ==
    \A t \in Tasks : task[t].at \in {"backup", "safety"} => CopyIsFaithful(t)

CopiesSaved == \A t \in Tasks : task[t].at = "restore" => CopyIsSaved(t)

ChecksOn == ~failed => unchecked = {}

BackupBooks ==
    Typed /\ FilesSound /\ CopiesFaithful /\ CopiesSaved /\ ChecksOn /\ LostIsSaved

LEMMA InitBooks == Init => BackupBooks
<1> SUFFICES ASSUME Init PROVE BackupBooks
  OBVIOUS
<1>1. \A t \in Tasks : task[t].at = "idle"
  BY IdleIsTask DEF Init
<1>2. \A x \in Txns : ~Present(x, db)
  BY TouchesIsTyped DEF Init, Present
<1>3. FilesSound
  <2>1. Sound(db, overlapped, failed)
    BY <1>2 DEF Sound
  <2>2. pending_restore # NoFile => Sound(pending_restore, overlapped, failed)
    BY DEF Init
  <2>3. QED
    BY <1>1, <2>1, <2>2 DEF Init, FilesSound
<1>4. QED
  BY <1>1, <1>3, InitTyped
     DEF Init, BackupBooks, CopiesFaithful, CopiesSaved, ChecksOn, LostIsSaved

-----------------------------------------------------------------------------
(* The steps that leave the database alone.                                *)

\* The database, and what is known about it, stay.
SameData == UNCHANGED <<db, deleted, overlapped, failed, written>>

\* A handler that does not read stays faithful, and so does one that has
\* nothing to do.
LEMMA SameTaskBooks ==
    ASSUME SameData, NEW t \in Tasks, task'[t] = task[t], safety \subseteq safety'
    PROVE  /\ CopyIsFaithful(t) => CopyIsFaithful(t)'
           /\ CopyIsSaved(t) => CopyIsSaved(t)'
BY DEF SameData, CopyIsFaithful, CopyIsSaved, ReadSoFar, Present

LEMMA SameDataSaved ==
    ASSUME LostIsSaved, SameData, safety \subseteq safety'
    PROVE  LostIsSaved'
BY DEF LostIsSaved, SameData

LEMMA DialogBooks ==
    ASSUME BackupBooks, DialogStep PROVE BackupBooks'
<1>1. SameData /\ UNCHANGED <<unchecked, safety, kept, task>>
  BY DEF DialogStep, StartRestore, ReceiveFile, EndDialog, vars, dataVars, fileVars, SameData
<1>2. Typed'
  BY DialogTyped DEF BackupBooks
<1>3. FilesSound'
  <2>1. pending_restore' # NoFile =>
            pending_restore' = pending_restore \/ pending_restore' \in kept \cup safety
    BY DEF DialogStep, StartRestore, ReceiveFile, EndDialog, vars, fileVars
  <2>2. QED
    BY <1>1, <2>1 DEF BackupBooks, FilesSound, SameData
<1>4. CopiesFaithful' /\ CopiesSaved'
  BY <1>1, SameTaskBooks DEF BackupBooks, CopiesFaithful, CopiesSaved
<1>5. ChecksOn' /\ LostIsSaved'
  BY <1>1, SameDataSaved DEF BackupBooks, ChecksOn, SameData
<1>6. QED
  BY <1>2, <1>3, <1>4, <1>5 DEF BackupBooks

LEMMA RestartBooks ==
    ASSUME BackupBooks, Restart PROVE BackupBooks'
<1>1. SameData /\ UNCHANGED <<safety, kept>> /\ unchecked' = {}
  BY DEF Restart, SameData
<1>2. \A t \in Tasks : task'[t].at = "idle"
  BY IdleIsTask DEF Restart
<1>3. Typed'
  BY RestartTyped DEF BackupBooks
<1>4. FilesSound'
  BY <1>1, <1>2 DEF Restart, BackupBooks, FilesSound, SameData
<1>5. CopiesFaithful' /\ CopiesSaved' /\ ChecksOn' /\ LostIsSaved'
  BY <1>1, <1>2, SameDataSaved DEF BackupBooks, CopiesFaithful, CopiesSaved, ChecksOn
<1>6. QED
  BY <1>3, <1>4, <1>5 DEF BackupBooks

\* The steps of one handler that neither read nor end a file.
LEMMA TaskStep ==
    ASSUME BackupBooks, SameData, Typed', NEW t \in Tasks,
           UNCHANGED <<unchecked, safety, kept, pending_restore>>,
           \A u \in Tasks \ {t} : task'[u] = task[u],
           task'[t].at \in {"backup", "safety"} => CopyIsFaithful(t)',
           task'[t].at \in {"safety", "restore"} =>
               Sound(task'[t].data, overlapped, failed),
           task'[t].at # "restore"
    PROVE  BackupBooks'
<1>1. FilesSound'
  BY DEF BackupBooks, FilesSound, SameData
<1>2. CopiesFaithful'
  <2> SUFFICES ASSUME NEW u \in Tasks, task'[u].at \in {"backup", "safety"}
               PROVE  CopyIsFaithful(u)'
    BY DEF CopiesFaithful
  <2> QED
    BY SameTaskBooks DEF BackupBooks, CopiesFaithful
<1>3. CopiesSaved'
  <2> SUFFICES ASSUME NEW u \in Tasks, task'[u].at = "restore"
               PROVE  CopyIsSaved(u)'
    BY DEF CopiesSaved
  <2> QED
    BY SameTaskBooks DEF BackupBooks, CopiesSaved
<1>4. ChecksOn' /\ LostIsSaved'
  BY SameDataSaved DEF BackupBooks, ChecksOn, SameData
<1>5. QED
  BY <1>1, <1>2, <1>3, <1>4 DEF BackupBooks

LEMMA TakeBackupBooks ==
    ASSUME BackupBooks, NEW t \in Tasks, TakeBackup(t) PROVE BackupBooks'
<1>1. SameData /\ UNCHANGED <<unchecked, safety, kept, pending_restore>>
  BY DEF TakeBackup, dataVars, fileVars, SameData
<1>2. Typed'
  BY TakeBackupTyped DEF BackupBooks
<1>3. /\ \A u \in Tasks \ {t} : task'[u] = task[u]
      /\ task'[t].at = "backup" /\ task'[t].file = Empty /\ task'[t].table = 1
  BY DEF TakeBackup, Start, Idle, BackupBooks, Typed, TypeOK
<1>4. CopyIsFaithful(t)'
  <2>1. ReadSoFar(t)' = {}
    BY <1>3 DEF ReadSoFar, ReadUpTo
  <2>2. QED
    BY <1>3, <2>1 DEF CopyIsFaithful, Empty
<1>5. QED
  BY <1>1, <1>2, <1>3, <1>4, TaskStep

LEMMA ConfirmRestoreBooks ==
    ASSUME BackupBooks, NEW t \in Tasks, ConfirmRestore(t) PROVE BackupBooks'
<1>1. SameData /\ UNCHANGED <<unchecked, safety, kept, pending_restore>>
  BY DEF ConfirmRestore, dataVars, fileVars, SameData
<1>2. Typed'
  BY ConfirmRestoreTyped DEF BackupBooks
<1>3. /\ \A u \in Tasks \ {t} : task'[u] = task[u]
      /\ task'[t].at = "safety" /\ task'[t].file = Empty /\ task'[t].table = 1
      /\ task'[t].data = pending_restore
  BY DEF ConfirmRestore, Start, Idle, BackupBooks, Typed, TypeOK
<1>4. CopyIsFaithful(t)'
  <2>1. ReadSoFar(t)' = {}
    BY <1>3 DEF ReadSoFar, ReadUpTo
  <2>2. QED
    BY <1>3, <2>1 DEF CopyIsFaithful, Empty
<1>5. Sound(task'[t].data, overlapped, failed)
  BY <1>3 DEF ConfirmRestore, BackupBooks, FilesSound
<1>6. QED
  BY <1>1, <1>2, <1>3, <1>4, <1>5, TaskStep

LEMMA OneMoreTable ==
    ASSUME NEW n \in Nat \ {0}
    PROVE  ReadUpTo(n) = ReadUpTo(n - 1) \cup {Listed[n]}
<1>1. \A j : j \in 1 .. n <=> j \in 1 .. (n - 1) \/ j = n
  OBVIOUS
<1>2. QED
  BY <1>1 DEF ReadUpTo

\* The next table is read as it is in the database.
LEMMA ReadTableBooks ==
    ASSUME BackupBooks, NEW t \in Tasks, ReadTable(t) PROVE BackupBooks'
<1> DEFINE i == task[t].table
           r == [task[t] EXCEPT !.file = [@ EXCEPT ![Listed[i]] = db[Listed[i]]],
                                !.table = i + 1]
<1>1. /\ task[t].at \in {"backup", "safety"} /\ task[t].file \in File
      /\ i \in 1 .. Len(Listed) /\ Listed[i] \in ListedTables
      /\ task' = [task EXCEPT ![t] = r]
      /\ r.at = task[t].at /\ r.table = i + 1 /\ r.data = task[t].data
      /\ r.file = [task[t].file EXCEPT ![Listed[i]] = db[Listed[i]]]
      /\ UNCHANGED <<dataVars, fileVars>>
  BY ReadTableStep DEF BackupBooks
<1> HIDE DEF r
<1>2. /\ task'[t].at = task[t].at /\ task'[t].data = task[t].data
      /\ task'[t].table = i + 1
      /\ task'[t].file = [task[t].file EXCEPT ![Listed[i]] = db[Listed[i]]]
      /\ \A u \in Tasks \ {t} : task'[u] = task[u]
  BY <1>1 DEF BackupBooks, Typed, TypeOK
<1>3. SameData /\ UNCHANGED <<unchecked, safety, kept, pending_restore>>
  BY <1>1 DEF dataVars, fileVars, SameData
<1>4. ReadSoFar(t)' = ReadSoFar(t) \cup {Listed[i]}
  <2>1. i \in Nat \ {0} /\ task'[t].table - 1 = i
    <3>1. task'[t].table = i + 1
      BY <1>2
    <3>2. i \in 1 .. Len(Listed) /\ Len(Listed) \in Nat
      BY <1>1, ListedIsTyped, Zenon
    <3> HIDE DEF i
    <3>3. QED
      BY <3>1, <3>2
  <2>2. ReadUpTo(task'[t].table - 1) = ReadUpTo(i - 1) \cup {Listed[i]}
    BY <2>1, OneMoreTable
  <2>3. QED
    BY <2>2 DEF ReadSoFar
<1>5. CopyIsFaithful(t)
  BY <1>1 DEF BackupBooks, CopiesFaithful
<1>6. CopyIsFaithful(t)'
  <2> SUFFICES ASSUME NEW x \in Txns \ overlapped
               PROVE  /\ \A tab \in ListedTables :
                             x \in task'[t].file[tab] <=> x \in db[tab] /\ tab \in ReadSoFar(t)'
                      /\ ~failed /\ AllListed(x) /\ Present(x, db) =>
                             \A y \in Referred(x) :
                                 \A tab \in Touches[y] \cap ReadSoFar(t)' :
                                     y \in task'[t].file[tab]
    BY <1>3 DEF CopyIsFaithful, SameData, AllListed, Referred, Present
  <2>1. \A tab \in ListedTables :
            task'[t].file[tab] = IF tab = Listed[i] THEN db[tab] ELSE task[t].file[tab]
    BY <1>1, <1>2 DEF File
  <2>2. \A tab \in ListedTables :
            x \in task'[t].file[tab] <=> x \in db[tab] /\ tab \in ReadSoFar(t)'
    BY <1>4, <1>5, <2>1 DEF CopyIsFaithful
  <2>3. ASSUME ~failed, AllListed(x), Present(x, db),
               NEW y \in Referred(x), NEW tab \in Touches[y] \cap ReadSoFar(t)'
        PROVE  y \in task'[t].file[tab]
    <3>1. y \in db[tab]
      BY <2>3 DEF BackupBooks, FilesSound, Sound, Complete
    <3>2. tab \in ListedTables
      BY <2>3 DEF Referred, AllListed
    <3>3. CASE tab = Listed[i]
      BY <2>1, <3>1, <3>2, <3>3
    <3>4. CASE tab # Listed[i]
      BY <1>4, <1>5, <2>1, <2>3, <3>2, <3>4 DEF CopyIsFaithful
    <3>5. QED
      BY <3>3, <3>4
  <2>4. QED
    BY <2>2, <2>3
<1>7. Typed'
  BY ReadTableTyped DEF BackupBooks
<1>8. task'[t].at # "restore" /\ (task'[t].at \in {"safety", "restore"} =>
          Sound(task'[t].data, overlapped, failed))
  BY <1>1, <1>2 DEF BackupBooks, FilesSound
<1>9. QED
  BY <1>2, <1>3, <1>6, <1>7, <1>8, TaskStep

\* A file of which every table was read is sound.
LEMMA FinishedIsSound ==
    ASSUME BackupBooks, NEW t \in Tasks, task[t].at \in {"backup", "safety"},
           task[t].table > Len(Listed)
    PROVE  /\ Sound(task[t].file, overlapped, failed)
           /\ \A x \in Txns \ overlapped, tab \in ListedTables :
                  x \in task[t].file[tab] <=> x \in db[tab]
<1>1. ReadSoFar(t) = ListedTables
  <2>1. task[t].table - 1 = Len(Listed)
    BY ListedIsTyped DEF BackupBooks, Typed, TypeOK, Task
  <2>2. QED
    BY <2>1, ListedIsTyped DEF ReadSoFar, ReadUpTo
<1>2. CopyIsFaithful(t)
  BY DEF BackupBooks, CopiesFaithful
<1>3. \A x \in Txns \ overlapped, tab \in ListedTables :
          x \in task[t].file[tab] <=> x \in db[tab]
  BY <1>1, <1>2 DEF CopyIsFaithful
<1>4. Sound(task[t].file, overlapped, failed)
  <2> SUFFICES ASSUME NEW x \in Txns \ overlapped, AllListed(x), Present(x, task[t].file)
               PROVE  /\ Complete(x, task[t].file)
                      /\ ~failed => \A y \in Referred(x) : Complete(y, task[t].file)
    BY DEF Sound
  <2>1. Present(x, db)
    BY <1>3 DEF Present, AllListed
  <2>2. Complete(x, db)
    BY <2>1 DEF BackupBooks, FilesSound, Sound
  <2>3. Complete(x, task[t].file)
    BY <1>3, <2>2 DEF Complete, AllListed
  <2>4. ASSUME ~failed, NEW y \in Referred(x) PROVE Complete(y, task[t].file)
    BY <1>1, <1>2, <2>1, <2>4 DEF CopyIsFaithful, Complete, Referred, AllListed
  <2>5. QED
    BY <2>3, <2>4
<1>5. QED
  BY <1>3, <1>4

LEMMA SendBackupBooks ==
    ASSUME BackupBooks, NEW t \in Tasks, SendBackup(t) PROVE BackupBooks'
<1>1. SameData /\ UNCHANGED <<unchecked, safety, pending_restore>>
  BY DEF SendBackup, dataVars, SameData
<1>2. Typed'
  BY SendBackupTyped DEF BackupBooks
<1>3. /\ \A u \in Tasks \ {t} : task'[u] = task[u]
      /\ task'[t].at = "idle"
      /\ kept' = kept \cup {task[t].file}
  BY IdleIsTask DEF SendBackup, Start, BackupBooks, Typed, TypeOK
<1>4. Sound(task[t].file, overlapped, failed)
  BY FinishedIsSound DEF SendBackup
<1>5. FilesSound'
  BY <1>1, <1>3, <1>4 DEF BackupBooks, FilesSound, SameData
<1>6. CopiesFaithful' /\ CopiesSaved'
  BY <1>1, <1>3, SameTaskBooks DEF BackupBooks, CopiesFaithful, CopiesSaved
<1>7. ChecksOn' /\ LostIsSaved'
  BY <1>1, SameDataSaved DEF BackupBooks, ChecksOn, SameData
<1>8. QED
  BY <1>2, <1>5, <1>6, <1>7 DEF BackupBooks

\* The copy holds whatever the restore may take away.
LEMMA SaveSafetyBooks ==
    ASSUME BackupBooks, NEW t \in Tasks, SaveSafety(t) PROVE BackupBooks'
<1>1. SameData /\ UNCHANGED <<unchecked, kept, pending_restore>>
  BY DEF SaveSafety, dataVars, SameData
<1>2. Typed'
  BY SaveSafetyTyped DEF BackupBooks
<1>3. /\ \A u \in Tasks \ {t} : task'[u] = task[u]
      /\ task[t].at = "safety"
      /\ task'[t].at = "restore" /\ task'[t].data = task[t].data
      /\ safety' = safety \cup {task[t].file}
  BY DEF SaveSafety, BackupBooks, Typed, TypeOK, Task
<1>4. /\ Sound(task[t].file, overlapped, failed)
      /\ \A x \in Txns \ overlapped, tab \in ListedTables :
             x \in task[t].file[tab] <=> x \in db[tab]
  BY FinishedIsSound DEF SaveSafety
<1>5. FilesSound'
  BY <1>1, <1>3, <1>4 DEF BackupBooks, FilesSound, SameData
<1>6. CopiesFaithful'
  BY <1>1, <1>3, SameTaskBooks DEF BackupBooks, CopiesFaithful
<1>7. CopiesSaved'
  <2> SUFFICES ASSUME NEW u \in Tasks, task'[u].at = "restore"
               PROVE  CopyIsSaved(u)'
    BY DEF CopiesSaved
  <2>1. CASE u = t
    BY <1>1, <1>3, <1>4 DEF CopyIsSaved, SameData
  <2>2. CASE u # t
    BY <1>1, <1>3, <2>2, SameTaskBooks DEF BackupBooks, CopiesSaved
  <2>3. QED
    BY <2>1, <2>2
<1>8. ChecksOn' /\ LostIsSaved'
  BY <1>1, <1>3, SameDataSaved DEF BackupBooks, ChecksOn, SameData
<1>9. QED
  BY <1>2, <1>5, <1>6, <1>7, <1>8 DEF BackupBooks

\* The checks of the connection may stay off, and nothing else changes.
LEMMA RestoreFailsBooks ==
    ASSUME BackupBooks, NEW t \in Tasks, NEW conn \in Connections, RestoreFails(t, conn)
    PROVE  BackupBooks'
<1>1. /\ UNCHANGED <<db, written, deleted, overlapped, safety, kept>>
      /\ pending_restore' = NoFile /\ failed' = TRUE
  BY DEF RestoreFails
<1>2. Typed'
  BY RestoreFailsTyped DEF BackupBooks
<1>3. /\ \A u \in Tasks \ {t} : task'[u] = task[u]
      /\ task'[t].at = "idle"
  BY IdleIsTask DEF RestoreFails, Start, BackupBooks, Typed, TypeOK
<1>4. \A f : Sound(f, overlapped, failed) => Sound(f, overlapped', failed')
  BY <1>1 DEF Sound
<1>5. FilesSound'
  BY <1>1, <1>3, <1>4 DEF BackupBooks, FilesSound
<1>6. \A u \in Tasks \ {t} : /\ CopyIsFaithful(u) => CopyIsFaithful(u)'
                             /\ CopyIsSaved(u) => CopyIsSaved(u)'
  BY <1>1, <1>3 DEF CopyIsFaithful, CopyIsSaved, ReadSoFar
<1>7. CopiesFaithful' /\ CopiesSaved'
  BY <1>3, <1>6 DEF BackupBooks, CopiesFaithful, CopiesSaved
<1>8. ChecksOn' /\ LostIsSaved'
  BY <1>1 DEF BackupBooks, ChecksOn, LostIsSaved
<1>9. QED
  BY <1>2, <1>5, <1>7, <1>8 DEF BackupBooks

-----------------------------------------------------------------------------
(* The steps that write the database.                                      *)

\* Once a handler is not idle, nothing more is said of x.
Leaves(x) ==
    overlapped' = IF \E t \in Tasks : task[t].at # "idle" THEN overlapped \cup {x}
                                                          ELSE overlapped

\* The handlers' copies are as they were for every other transaction, if what
\* it refers to stays.
LEMMA OthersFaithful ==
    ASSUME BackupBooks, NEW x \in Txns, Leaves(x),
           UNCHANGED <<task, safety, failed>>, deleted \subseteq deleted',
           \A z \in Txns \ {x} : \A tab \in Tables : z \in db'[tab] <=> z \in db[tab]
    PROVE  CopiesFaithful' /\ CopiesSaved'
<1>1. CopiesFaithful'
  <2> SUFFICES ASSUME NEW t \in Tasks, task[t].at \in {"backup", "safety"}
               PROVE  CopyIsFaithful(t)'
    BY DEF CopiesFaithful
  <2>1. CopyIsFaithful(t)
    BY DEF BackupBooks, CopiesFaithful
  <2>2. overlapped' = overlapped \cup {x}
    BY DEF Leaves
  <2>3. \A z \in Txns \ overlapped' : Present(z, db') <=> Present(z, db)
    BY <2>2, TouchesIsTyped DEF Present
  <2>4. \A z \in Txns \ overlapped', tab \in ListedTables : z \in db'[tab] <=> z \in db[tab]
    BY <2>2, ListedIsTyped
  <2>5. QED
    BY <2>1, <2>2, <2>3, <2>4 DEF CopyIsFaithful, ReadSoFar
<1>2. CopiesSaved'
  <2> SUFFICES ASSUME NEW t \in Tasks, task[t].at = "restore"
               PROVE  CopyIsSaved(t)'
    BY DEF CopiesSaved
  <2>1. CopyIsSaved(t)
    BY DEF BackupBooks, CopiesSaved
  <2>2. overlapped' = overlapped \cup {x}
    BY DEF Leaves
  <2>3. \A z \in Txns \ overlapped', tab \in ListedTables : z \in db'[tab] <=> z \in db[tab]
    BY <2>2, ListedIsTyped
  <2>4. QED
    BY <2>1, <2>2, <2>3 DEF CopyIsSaved
<1>3. QED
  BY <1>1, <1>2

\* The files stay sound when the database and the history grow.
LEMMA OthersSound ==
    ASSUME BackupBooks, UNCHANGED <<task, safety, kept, pending_restore, failed>>,
           overlapped \subseteq overlapped', Sound(db', overlapped', failed')
    PROVE  FilesSound'
<1>1. \A f : Sound(f, overlapped, failed) => Sound(f, overlapped', failed')
  BY DEF Sound
<1>2. QED
  BY <1>1 DEF BackupBooks, FilesSound

\* All the rows of a transaction are written at once, and those they refer to
\* are there.
LEMMA CommitBooks ==
    ASSUME BackupBooks, NEW x \in Txns, Commit(x) PROVE BackupBooks'
<1>1. /\ UNCHANGED <<unchecked, deleted, failed, safety, kept, pending_restore, task>>
      /\ written' = written \cup {x} /\ Leaves(x) /\ overlapped \subseteq overlapped'
  BY DEF Commit, fileVars, Leaves
<1>2. Typed'
  BY CommitTyped DEF BackupBooks
<1>3. \A tab \in Tables : db'[tab] = IF tab \in Touches[x] THEN db[tab] \cup {x} ELSE db[tab]
  BY DEF Commit, BackupBooks, Typed, TypeOK
<1>4. Sound(db', overlapped', failed')
  <2> SUFFICES ASSUME NEW z \in Txns \ overlapped', AllListed(z), Present(z, db')
               PROVE  /\ Complete(z, db')
                      /\ ~failed' => \A y \in Referred(z) : Complete(y, db')
    BY DEF Sound
  <2>1. \A y \in Txns : Complete(y, db) => Complete(y, db')
    BY <1>3, TouchesIsTyped DEF Complete
  <2>2. Referred(z) \subseteq Txns
    BY TouchesIsTyped DEF Referred
  <2>3. CASE z = x
    <3>1. Complete(x, db')
      BY <1>3, TouchesIsTyped DEF Complete
    <3>2. \A y \in Needs[x] : Complete(y, db)
      BY DEF Commit, Whole, Complete
    <3>3. QED
      BY <2>1, <2>2, <2>3, <3>1, <3>2 DEF Referred
  <2>4. CASE z # x
    <3>1. Present(z, db)
      BY <1>3, <2>4, TouchesIsTyped DEF Present
    <3>2. Complete(z, db) /\ (~failed => \A y \in Referred(z) : Complete(y, db))
      BY <1>1, <3>1 DEF BackupBooks, FilesSound, Sound
    <3>3. QED
      BY <1>1, <2>1, <2>2, <3>2
  <2>5. QED
    BY <2>3, <2>4
<1>5. FilesSound'
  BY <1>1, <1>4, OthersSound
<1>6. CopiesFaithful' /\ CopiesSaved'
  BY <1>1, <1>3, OthersFaithful
<1>7. LostIsSaved'
  <2> SUFFICES ASSUME NEW z \in written' \ (deleted \cup overlapped'),
                      NEW tab \in ListedTables, tab \in Touches[z], z \notin db'[tab]
               PROVE  \E f \in safety : z \in f[tab]
    BY <1>1 DEF LostIsSaved
  <2>1. tab \in Tables
    BY ListedIsTyped
  <2>2. z # x /\ z \notin db[tab]
    BY <1>3, <2>1
  <2>3. z \in written \ (deleted \cup overlapped)
    BY <1>1, <2>2
  <2>4. QED
    BY <2>2, <2>3 DEF BackupBooks, LostIsSaved
<1>8. QED
  BY <1>1, <1>2, <1>5, <1>6, <1>7 DEF BackupBooks, ChecksOn

\* As long as no restore has failed, what others refer to is not deleted.
LEMMA DeleteRowBooks ==
    ASSUME BackupBooks, NEW x \in Txns, NEW conn \in Connections, DeleteRow(x, conn)
    PROVE  BackupBooks'
<1>1. /\ UNCHANGED <<unchecked, written, failed, safety, kept, pending_restore, task>>
      /\ deleted' = deleted \cup {x} /\ Leaves(x) /\ overlapped \subseteq overlapped'
  BY DEF DeleteRow, fileVars, Leaves
<1>2. Typed'
  BY DeleteRowTyped DEF BackupBooks
<1>3. \A tab \in Tables : db'[tab] = IF tab \in Touches[x] THEN db[tab] \ {x} ELSE db[tab]
  BY DEF DeleteRow, BackupBooks, Typed, TypeOK
<1>4. ~failed => \A z \in Txns : x \in Needs[z] => ~Present(z, db)
  BY DEF DeleteRow, BackupBooks, ChecksOn, Present
<1>5. Sound(db', overlapped', failed')
  <2> SUFFICES ASSUME NEW z \in Txns \ overlapped', AllListed(z), Present(z, db')
               PROVE  /\ Complete(z, db')
                      /\ ~failed' => \A y \in Referred(z) : Complete(y, db')
    BY DEF Sound
  <2>1. z # x /\ Present(z, db)
    BY <1>3, TouchesIsTyped DEF Present
  <2>2. \A y \in Txns \ {x} : Complete(y, db) => Complete(y, db')
    BY <1>3, TouchesIsTyped DEF Complete
  <2>3. Complete(z, db) /\ (~failed => \A y \in Referred(z) : Complete(y, db))
    BY <1>1, <2>1 DEF BackupBooks, FilesSound, Sound
  <2>4. ~failed => Referred(z) \subseteq Txns \ {x}
    BY <1>4, <2>1, TouchesIsTyped DEF Referred
  <2>5. QED
    BY <1>1, <2>1, <2>2, <2>3, <2>4
<1>6. FilesSound'
  BY <1>1, <1>5, OthersSound
<1>7. CopiesFaithful' /\ CopiesSaved'
  BY <1>1, <1>3, OthersFaithful
<1>8. LostIsSaved'
  <2> SUFFICES ASSUME NEW z \in written \ (deleted' \cup overlapped'),
                      NEW tab \in ListedTables, tab \in Touches[z], z \notin db'[tab]
               PROVE  \E f \in safety : z \in f[tab]
    BY <1>1 DEF LostIsSaved
  <2>1. tab \in Tables
    BY ListedIsTyped
  <2>2. z # x /\ z \in written \ (deleted \cup overlapped)
    BY <1>1
  <2>3. z \notin db[tab]
    BY <1>3, <2>1, <2>2
  <2>4. QED
    BY <2>2, <2>3 DEF BackupBooks, LostIsSaved
<1>9. QED
  BY <1>1, <1>2, <1>6, <1>7, <1>8 DEF BackupBooks, ChecksOn

\* A restore replaces the listed tables by those of a sound file.
LEMMA RestoreBooks ==
    ASSUME BackupBooks, NEW t \in Tasks, NEW conn \in Connections, Restore(t, conn)
    PROVE  BackupBooks'
<1>1. /\ UNCHANGED <<written, deleted, failed, safety, kept>>
      /\ unchecked' \subseteq unchecked /\ pending_restore' = NoFile
      /\ overlapped \subseteq overlapped'
      /\ task[t].at = "restore"
  BY DEF Restore
<1>2. Typed'
  BY RestoreTyped DEF BackupBooks
<1>3. /\ \A u \in Tasks \ {t} : task'[u] = task[u]
      /\ task'[t].at = "idle"
  BY IdleIsTask DEF Restore, Start, BackupBooks, Typed, TypeOK
<1>4. \A tab \in ListedTables : db'[tab] = task[t].data[tab]
  BY ListedIsTyped DEF Restore
<1>5. \A f : Sound(f, overlapped, failed) => Sound(f, overlapped', failed')
  BY <1>1 DEF Sound
<1>6. Sound(db', overlapped', failed')
  <2>1. Sound(task[t].data, overlapped', failed')
    BY <1>1, <1>5 DEF BackupBooks, FilesSound
  <2>2. failed' \in BOOLEAN
    BY <1>2 DEF Typed, TypeOK
  <2>3. QED
    BY <1>4, <2>1, <2>2, SoundOnListed
<1>7. FilesSound'
  BY <1>1, <1>3, <1>5, <1>6 DEF BackupBooks, FilesSound
<1>8. ASSUME NEW u \in Tasks \ {t}, task[u].at # "idle",
             NEW z \in Txns \ overlapped', NEW tab \in Tables
      PROVE  z \in db'[tab] <=> z \in db[tab]
  BY <1>8 DEF Restore
<1>9. CopiesFaithful'
  <2> SUFFICES ASSUME NEW u \in Tasks, task'[u].at \in {"backup", "safety"}
               PROVE  CopyIsFaithful(u)'
    BY DEF CopiesFaithful
  <2>1. u \in Tasks \ {t} /\ task'[u] = task[u] /\ CopyIsFaithful(u)
    BY <1>3 DEF BackupBooks, CopiesFaithful
  <2>2. \A z \in Txns \ overlapped', tab \in Tables : z \in db'[tab] <=> z \in db[tab]
    BY <1>8, <2>1
  <2>3. \A z \in Txns \ overlapped' : Present(z, db') <=> Present(z, db)
    BY <2>2, TouchesIsTyped DEF Present
  <2>4. \A z \in Txns \ overlapped', tab \in ListedTables : z \in db'[tab] <=> z \in db[tab]
    BY <2>2, ListedIsTyped
  <2>5. QED
    BY <1>1, <2>1, <2>3, <2>4 DEF CopyIsFaithful, ReadSoFar
<1>10. CopiesSaved'
  <2> SUFFICES ASSUME NEW u \in Tasks, task'[u].at = "restore"
               PROVE  CopyIsSaved(u)'
    BY DEF CopiesSaved
  <2>1. u \in Tasks \ {t} /\ task'[u] = task[u] /\ CopyIsSaved(u)
    BY <1>3 DEF BackupBooks, CopiesSaved
  <2>2. \A z \in Txns \ overlapped', tab \in ListedTables : z \in db'[tab] <=> z \in db[tab]
    BY <1>8, <2>1, ListedIsTyped
  <2>3. QED
    BY <1>1, <2>1, <2>2 DEF CopyIsSaved
<1>11. LostIsSaved'
  <2> SUFFICES ASSUME NEW x \in written \ (deleted \cup overlapped'),
                      NEW tab \in ListedTables, tab \in Touches[x], x \notin db'[tab]
               PROVE  \E f \in safety : x \in f[tab]
    BY <1>1 DEF LostIsSaved
  <2>1. x \in Txns \ (deleted \cup overlapped)
    BY <1>1 DEF BackupBooks, Typed, TypeOK
  <2>2. CASE x \in db[tab]
    BY <1>1, <2>1, <2>2 DEF BackupBooks, CopiesSaved, CopyIsSaved
  <2>3. CASE x \notin db[tab]
    BY <2>1, <2>3 DEF BackupBooks, LostIsSaved
  <2>4. QED
    BY <2>2, <2>3
<1>12. QED
  BY <1>1, <1>2, <1>7, <1>9, <1>10, <1>11 DEF BackupBooks, ChecksOn

LEMMA NextBooks == BackupBooks /\ [Next]_vars => BackupBooks'
<1> SUFFICES ASSUME BackupBooks, [Next]_vars PROVE BackupBooks'
  OBVIOUS
<1> QED
  BY Steps, DialogBooks, RestartBooks, CommitBooks, DeleteRowBooks, TakeBackupBooks,
     ReadTableBooks, SendBackupBooks, ConfirmRestoreBooks, SaveSafetyBooks,
     RestoreBooks, RestoreFailsBooks

LEMMA AlwaysBooks == Spec => []BackupBooks
BY InitBooks, NextBooks, PTL DEF Spec

-----------------------------------------------------------------------------

\* The database holds all the rows of a transaction or none of them, whatever
\* was restored, unless a row of it was written or taken away while a file was
\* being written, or a table of it is not restored.
THEOREM BackupRestoreTornIsOverlapped == Spec => []TornIsOverlapped
<1>1. BackupBooks => TornIsOverlapped
  <2> SUFFICES ASSUME BackupBooks, NEW x \in Txns \ overlapped, AllListed(x), Partly(x)
               PROVE  FALSE
    BY DEF TornIsOverlapped, AllListed
  <2>1. Present(x, db)
    BY DEF Partly, Present, AllListed
  <2>2. Complete(x, db)
    BY <2>1 DEF BackupBooks, FilesSound, Sound
  <2>3. QED
    BY <2>2 DEF Partly, Whole, Complete
<1>2. QED
  BY <1>1, AlwaysBooks, PTL

\* What a restore takes away is in a safety copy.
THEOREM BackupRestoreLostIsSaved == Spec => []LostIsSaved
<1>1. BackupBooks => LostIsSaved
  BY DEF BackupBooks
<1>2. QED
  BY <1>1, AlwaysBooks, PTL

\* No row refers to one that is not there, as long as no restore failed, but
\* for the rows written while a file was and for those that are not restored.
THEOREM BackupRestoreNoDanglingRow == Spec => []NoDanglingRow
<1>1. BackupBooks => NoDanglingRow
  <2> SUFFICES ASSUME BackupBooks, ~failed,
                      NEW x \in Txns \ overlapped, NEW y \in Needs[x],
                      AllListed(x), AllListed(y),
                      \E tab \in Touches[x] : x \in db[tab],
                      \A tab \in Touches[y] : y \notin db[tab]
               PROVE  FALSE
    BY DEF NoDanglingRow, AllListed
  <2>1. Present(x, db)
    BY DEF Present, AllListed
  <2>2. Complete(y, db)
    BY <2>1 DEF BackupBooks, FilesSound, Sound, Referred
  <2>3. QED
    BY <2>2, TouchesIsTyped DEF Complete
<1>2. QED
  BY <1>1, AlwaysBooks, PTL
=============================================================================
