---------------------------- MODULE BackupRestore ----------------------------
(***************************************************************************)
(* Backup and restore by the super admin (services/backup_service.py,      *)
(* handlers/admin/backup.py).                                              *)
(*                                                                         *)
(* The contents of the database are the business transactions whose writes *)
(* are in it: db[tab] is the set of those whose row is in table tab.  A    *)
(* transaction commits all its rows at once, but a backup reads the tables *)
(* one by one, each with a SELECT of its own, and a restore puts back only *)
(* the tables of TABLES_IN_DEPENDENCY_ORDER: a transaction may end up with *)
(* some of its rows.                                                       *)
(*                                                                         *)
(* A restore is one transaction.  Its DELETEs lock what they touch until   *)
(* it commits, so it is one action here.  It switches the foreign key      *)
(* checks off for its connection, which is a setting of the session and    *)
(* not of the transaction.                                                 *)
(***************************************************************************)
EXTENDS Integers, Sequences, FiniteSets

CONSTANTS Txns,        \* business transactions, each with the rows it writes
          Touches,     \* the tables a transaction writes
          Needs,       \* the transactions whose rows its foreign keys refer to
          Deletable,   \* transactions whose row a handler may delete again
          Listed,      \* TABLES_IN_DEPENDENCY_ORDER
          Unlisted,    \* the tables that are not in it
          Connections, \* of the pool
          Tasks,       \* handlers of the super admin's taps that run at once
          NoFile,
          MaxFiles     \* bound: files that exist

ListedTables == {Listed[i] : i \in DOMAIN Listed}
Tables == ListedTables \cup Unlisted

ASSUME ListedAssumption == Listed \in Seq(ListedTables)
ASSUME TouchesAssumption == Touches \in [Txns -> (SUBSET Tables) \ {{}}]
ASSUME NeedsAssumption == Needs \in [Txns -> SUBSET Txns]
ASSUME BoundsAssumption == MaxFiles \in Nat
ASSUME DeletableAssumption == Deletable \subseteq Txns

VARIABLES
    db,         \* the transactions whose row is in a table
    unchecked,  \* connections whose session has its foreign key checks off
    safety,     \* the files in _safety_backups
    kept,       \* the files that were sent to the admin
    pending_restore,  \* the file that was uploaded for a restore
    dialog,     \* the admin's RestoreStates
    task,       \* the handlers
    written, deleted,  \* history: transactions committed; rows deleted by a handler
    overlapped, \* history: written or taken away while a file was being written
    failed      \* history: a restore raised

dataVars == <<db, unchecked, written, deleted, overlapped, failed>>
fileVars == <<safety, kept, pending_restore, dialog>>
vars == <<dataVars, fileVars, task>>

File == [ListedTables -> SUBSET Txns]
Empty == [tab \in ListedTables |-> {}]

\* What a handler does, the table it reads next, the file that it writes, and
\* the one that it is to restore.
Task == [at : {"idle", "backup", "safety", "restore"}, table : 1 .. Len(Listed) + 1,
         file : File \cup {NoFile}, data : File \cup {NoFile}]
Idle == [at |-> "idle", table |-> 1, file |-> NoFile, data |-> NoFile]

TypeOK ==
    /\ db \in [Tables -> SUBSET Txns]
    /\ unchecked \subseteq Connections
    /\ safety \subseteq File /\ kept \subseteq File
    /\ pending_restore \in File \cup {NoFile}
    /\ dialog \in {"none", "waiting_file", "waiting_confirmation"}
    /\ task \in [Tasks -> Task]
    /\ written \subseteq Txns /\ deleted \subseteq Txns /\ overlapped \subseteq Txns
    /\ failed \in BOOLEAN

Init ==
    /\ db = [tab \in Tables |-> {}] /\ unchecked = {}
    /\ safety = {} /\ kept = {} /\ pending_restore = NoFile /\ dialog = "none"
    /\ task = [t \in Tasks |-> Idle]
    /\ written = {} /\ deleted = {} /\ overlapped = {} /\ failed = FALSE

Start(t, local) == task' = [task EXCEPT ![t] = local]
Free(t) == task[t].at = "idle"
Whole(x) == \A tab \in Touches[x] : x \in db[tab]
Partly(x) == ~Whole(x) /\ \E tab \in Touches[x] : x \in db[tab]

-----------------------------------------------------------------------------
(* What the other handlers do to the database meanwhile.                   *)

Commit(x) ==
    /\ x \notin written
    /\ \A y \in Needs[x] : Whole(y)
    /\ db' = [tab \in Tables |-> IF tab \in Touches[x] THEN db[tab] \cup {x} ELSE db[tab]]
    /\ written' = written \cup {x}
    /\ overlapped' = IF \E t \in Tasks : task[t].at # "idle" THEN overlapped \cup {x}
                                                            ELSE overlapped
    /\ UNCHANGED <<unchecked, deleted, failed, fileVars, task>>

\* A row that others refer to is kept by its foreign key, as long as the
\* connection on which the DELETE runs has the checks on.
DeleteRow(x, conn) ==
    /\ x \in Deletable /\ Whole(x)
    /\ \/ conn \in unchecked
       \/ \A y \in Txns : x \in Needs[y] => \A tab \in Touches[y] : y \notin db[tab]
    /\ db' = [tab \in Tables |-> IF tab \in Touches[x] THEN db[tab] \ {x} ELSE db[tab]]
    /\ deleted' = deleted \cup {x}
    /\ overlapped' = IF \E t \in Tasks : task[t].at # "idle" THEN overlapped \cup {x}
                                                            ELSE overlapped
    /\ UNCHANGED <<unchecked, written, failed, fileVars, task>>

-----------------------------------------------------------------------------
(* create_backup_dict, for the admin's backup and for the safety copy.     *)

\* take_backup_cb.
TakeBackup(t) ==
    /\ Free(t)
    /\ Start(t, [Idle EXCEPT !.at = "backup", !.file = Empty])
    /\ UNCHANGED <<dataVars, fileVars>>

ReadTable(t) ==
    /\ task[t].at \in {"backup", "safety"} /\ task[t].table <= Len(Listed)
    /\ LET tab == Listed[task[t].table] IN
           task' = [task EXCEPT ![t].file[tab] = db[tab], ![t].table = @ + 1]
    /\ UNCHANGED <<dataVars, fileVars>>

\* The file is logged in backup_logs and sent.
SendBackup(t) ==
    /\ task[t].at = "backup" /\ task[t].table > Len(Listed)
    /\ kept' = kept \cup {task[t].file} /\ Cardinality(kept' \cup safety) <= MaxFiles
    /\ Start(t, Idle)
    /\ UNCHANGED <<dataVars, safety, pending_restore, dialog>>

-----------------------------------------------------------------------------
(* The restore dialog.  Its state is in memory and the uploaded file has   *)
(* one path for the admin, so a later upload replaces it.                  *)

\* start_restore_cb, from the menu, whatever the dialog was doing.  A file that
\* was uploaded before is not read any more.
StartRestore ==
    /\ dialog' = "waiting_file" /\ pending_restore' = NoFile
    /\ UNCHANGED <<dataVars, safety, kept, task>>

\* Faulty variant: a file of another structure is taken.
ReceiveFile_NotValidated ==
    /\ dialog = "waiting_file"
    /\ pending_restore' \in kept \cup safety \cup {[tab \in Unlisted |-> {}]}
    /\ dialog' = "waiting_confirmation"
    /\ UNCHANGED <<dataVars, safety, kept, task>>

\* receive_restore_file: a file that is refused is removed and ends the dialog.
ReceiveFile ==
    /\ dialog = "waiting_file"
    /\ \/ /\ pending_restore' \in kept \cup safety
          /\ dialog' = "waiting_confirmation"
       \/ pending_restore' = NoFile /\ dialog' = "none"
    /\ UNCHANGED <<dataVars, safety, kept, task>>

\* Faulty variant: no safety copy is made.
ConfirmRestore_NoCopy(t) ==
    /\ Free(t) /\ dialog = "waiting_confirmation" /\ pending_restore # NoFile
    /\ Start(t, [Idle EXCEPT !.at = "restore", !.data = pending_restore])
    /\ UNCHANGED <<dataVars, fileVars>>

\* confirm_restore_cb reads the file and starts the safety copy.
ConfirmRestore(t) ==
    /\ Free(t) /\ dialog = "waiting_confirmation" /\ pending_restore # NoFile
    /\ Start(t, [Idle EXCEPT !.at = "safety", !.file = Empty, !.data = pending_restore])
    /\ UNCHANGED <<dataVars, fileVars>>

\* The file is gone, removed by another tap; or the admin taps on "cancel".
EndDialog ==
    /\ dialog = "waiting_confirmation"
    /\ pending_restore' = NoFile /\ dialog' = "none"
    /\ UNCHANGED <<dataVars, safety, kept, task>>

SaveSafety(t) ==
    /\ task[t].at = "safety" /\ task[t].table > Len(Listed)
    /\ safety' = safety \cup {task[t].file} /\ Cardinality(kept \cup safety') <= MaxFiles
    /\ task' = [task EXCEPT ![t].at = "restore"]
    /\ UNCHANGED <<dataVars, kept, pending_restore, dialog>>

\* Faulty variant: the checks are not switched on again.
Restore_LeavesChecksOff(t, conn) ==
    /\ task[t].at = "restore"
    /\ db' = [tab \in Tables |-> IF tab \in ListedTables THEN task[t].data[tab] ELSE db[tab]]
    /\ unchecked' = unchecked \cup {conn}
    /\ Start(t, Idle)
    /\ pending_restore' = NoFile /\ dialog' = "none"
    /\ UNCHANGED <<written, deleted, overlapped, failed, safety, kept>>

\* Faulty variant: each table is emptied and filled in a transaction of its own,
\* and the process dies after the first ones.
Restore_TableByTable(t, conn) ==
    /\ task[t].at = "restore"
    /\ \E n \in DOMAIN Listed :
           db' = [tab \in Tables |-> IF \E i \in 1 .. n : tab = Listed[i]
                                     THEN task[t].data[tab] ELSE db[tab]]
    /\ unchecked' = unchecked \ {conn}
    /\ Start(t, Idle)
    /\ pending_restore' = NoFile /\ dialog' = "none"
    /\ UNCHANGED <<written, deleted, overlapped, failed, safety, kept>>

\* restore_from_dict succeeds, the checks of its connection are on again; the
\* uploaded file is removed, be it this one or a later one, and the dialog ends.
Restore(t, conn) ==
    /\ task[t].at = "restore"
    /\ db' = [tab \in Tables |-> IF tab \in ListedTables THEN task[t].data[tab] ELSE db[tab]]
    /\ unchecked' = unchecked \ {conn}
    /\ overlapped' = IF \E u \in Tasks \ {t} : task[u].at # "idle"
                     THEN overlapped \cup {x \in Txns : \E tab \in Tables :
                                               (x \in db[tab]) # (x \in db'[tab])}
                     ELSE overlapped
    /\ Start(t, Idle)
    /\ pending_restore' = NoFile /\ dialog' = "none"
    /\ UNCHANGED <<written, deleted, failed, safety, kept>>

\* It raises: a row names a column that a migration has dropped, a DELETE meets
\* a deadlock, or the connection breaks.  The transaction is rolled back, the
\* setting of the session is not, and the dialog does not end.
RestoreFails(t, conn) ==
    /\ task[t].at = "restore"
    /\ unchecked' = unchecked \cup {conn}
    /\ failed' = TRUE
    /\ Start(t, Idle)
    /\ pending_restore' = NoFile
    /\ UNCHANGED <<db, written, deleted, overlapped, safety, kept, dialog>>

-----------------------------------------------------------------------------
\* The process ends and starts again: what it held in memory is gone.
Restart ==
    /\ task' = [t \in Tasks |-> Idle] /\ unchecked' = {}
    /\ dialog' = "none" /\ pending_restore' = NoFile
    /\ UNCHANGED <<db, written, deleted, overlapped, failed, safety, kept>>

Next ==
    \/ Restart
    \/ \E x \in Txns : Commit(x) \/ \E conn \in Connections : DeleteRow(x, conn)
    \/ StartRestore \/ ReceiveFile \/ EndDialog
    \/ \E t \in Tasks : \/ TakeBackup(t) \/ ReadTable(t) \/ SendBackup(t)
                        \/ ConfirmRestore(t) \/ SaveSafety(t)
                        \/ \E conn \in Connections : Restore(t, conn) \/ RestoreFails(t, conn)

Spec == Init /\ [][Next]_vars

-----------------------------------------------------------------------------
(* Restores are atomic and a transaction commits all its rows at once, so  *)
(* the database never holds a part of a transaction that was not committed *)
(* or taken away while a file was written, if all its tables are listed.   *)
(* (Those that are not: a credited topup stays when the balance goes.)     *)
TornIsOverlapped ==
    \A x \in Txns : Partly(x) => x \in overlapped \/ ~(Touches[x] \subseteq ListedTables)

(* What a restore takes away is in a safety copy, unless it was committed  *)
(* while the admin's tap was already being handled: it may be in no file.  *)
LostIsSaved ==
    \A x \in written \ (deleted \cup overlapped), tab \in ListedTables :
        tab \in Touches[x] /\ x \notin db[tab] => \E file \in safety : x \in file[tab]

(* A row that others refer to stays, whatever is restored: unless a        *)
(* restore failed, after which deletes may no longer be checked, or a file *)
(* was written while the row that refers to it was being committed.  (A    *)
(* row of a table that is not listed stays when the one it refers to goes, *)
(* since the restore has switched the foreign key checks off.)             *)
NoDanglingRow ==
    \A x \in Txns : \A y \in Needs[x] :
        /\ \E tab \in Touches[x] : x \in db[tab]
        /\ \A tab \in Touches[y] : y \notin db[tab]
        => failed \/ x \in overlapped \/ ~(Touches[x] \cup Touches[y] \subseteq ListedTables)
=============================================================================
