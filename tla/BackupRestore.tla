--------------------------- MODULE BackupRestore ---------------------------
(***************************************************************************)
(* Backup and restore by several clients: mysqldump into a file of the     *)
(* server and its download; an upload into the same file, and mysql run on *)
(* it.  The file has one name for all clients.  A block is what the dump   *)
(* says of one table; that the copy loops copy the bytes of a file when    *)
(* nothing disturbs them is the subject of FileTransfer.  Meanwhile the    *)
(* database is in use.                                                     *)
(***************************************************************************)
EXTENDS Integers, Sequences

CONSTANTS
    Clients,     \* running copies of the program
    Restorers,   \* those whose user presses the restore button
    Tables,      \* how many tables the database has
    Contents,    \* what a table may hold
    EMPTY,       \* the content of a table just created
    HOLE,        \* a block of zero bytes, between two writers of a file
    NULL,        \* "none"
    Flaky        \* those for whom a call of SSH or SFTP, or a command run on the
                 \* server, may fail

Table  == 1 .. Tables
States == [Table -> Contents]
Block  == [table : Table, content : Contents]

ASSUME BackupAssumption ==
    /\ Restorers \subseteq Clients /\ NULL \notin Clients
    /\ Tables \in Nat \ {0}
    /\ EMPTY \in Contents
    /\ HOLE \notin Block
    /\ NULL \notin States \cup Seq(Block \cup {HOLE})
    /\ Flaky \subseteq Clients

VARIABLES
    db,       \* the tables of CMDB
    remote,   \* /home/<user>/CMDB.sql, a sequence of blocks
    local,    \* the backup file of each client, NULL before there is one
    pc,       \* where a client's handler is, or which message it shows
    size,     \* the length "ls -l" announced
    done,     \* blocks read: of remote by a download and by mysql, of local by an upload
    off,      \* blocks written: the position of mysqldump, or of the SFTP handle
    snap,     \* what the tables held when mysqldump locked them
    clean     \* history: since the button was pressed no call of this handler has
              \* failed, and no other client or user was in its way

counters == <<size, done, off>>
vars     == <<db, remote, local, pc, counters, snap, clean>>

Backing   == {"exec", "dump", "measure", "open", "download"}
Restoring == {"create", "upload", "run"}
Busy      == Backing \cup Restoring
Messages  == {"saved", "restored", "failed"}

\* The handler has begun with the server's file and is not done with it.
UsesFile(c) == pc[c] \in Busy \ {"exec", "create"}

\* The dump of a database.  The set of tables is fixed: a room is a table, and
\* rooms created or deleted between a backup and a restore are not modelled.  A
\* restore leaves a table that is not in the file as it is.
DumpOf(s) == [t \in Table |-> [table |-> t, content |-> s[t]]]

\* f with block b written at position o; a gap before it reads as zeros.
WriteAt(f, o, b) ==
    [i \in 1 .. (IF o < Len(f) THEN Len(f) ELSE o + 1) |->
        IF i = o + 1 THEN b ELSE IF i <= Len(f) THEN f[i] ELSE HOLE]

-----------------------------------------------------------------------------
(* Helpers. *)

Goto(c, p) == pc' = [pc EXCEPT ![c] = p]

\* The function that counts has returned.
NoCounters(c) ==
    /\ size' = [size EXCEPT ![c] = 0]
    /\ done' = [done EXCEPT ![c] = 0]
    /\ off' = [off EXCEPT ![c] = 0]

\* The history after a step of c: one that touches neither file nor database,
\* one that writes the server's file, one that writes the database.
Alone(c, ok)       == clean' = [clean EXCEPT ![c] = @ /\ ok]
WritesFile(c, ok)  == clean' = [d \in Clients |-> clean[d] /\ IF d = c THEN ok ELSE ~UsesFile(d)]
WritesDb(who, ok)  == clean' = [d \in Clients |-> clean[d] /\
                                   IF d = who THEN ok ELSE pc[d] \notin {"run", "restored"}]

\* The constructor of ServerConnector throws outside of the try: the process ends.
Connect(c, next) ==
    /\ \/ Goto(c, next) /\ clean' = [clean EXCEPT ![c] = TRUE]
       \/ c \in Flaky /\ Goto(c, "crashed") /\ Alone(c, FALSE)
    /\ UNCHANGED <<db, remote, local, counters, snap>>

\* A call throws: the message that the backup, or the restore, failed.
Fail(c) ==
    /\ c \in Flaky
    /\ Goto(c, "failed")
    /\ NoCounters(c)
    /\ Alone(c, FALSE)
    /\ UNCHANGED <<db, remote, local, snap>>

-----------------------------------------------------------------------------
(* Backup: on_click_pushbutton_backup_confirm. *)

ClickBackup(c) ==
    /\ pc[c] = "ready"
    /\ Connect(c, "exec")

\* The shell empties the file, mysqldump locks the tables.  A database that is
\* just being restored is in no state worth a backup.
StartDump(c) ==
    /\ pc[c] = "exec"
    /\ \/ /\ Goto(c, "dump")
          /\ remote' = <<>>
          /\ off' = [off EXCEPT ![c] = 0]
          /\ snap' = [snap EXCEPT ![c] = db]
          /\ WritesFile(c, \A d \in Clients : pc[d] # "run")
          /\ UNCHANGED <<db, local, size, done>>
       \/ Fail(c)

DumpBlockUnlocked(c) ==
    /\ pc[c] = "dump" /\ off[c] < Tables
    /\ remote' = WriteAt(remote, off[c], DumpOf(db)[off[c] + 1])
    /\ off' = [off EXCEPT ![c] = @ + 1]
    /\ WritesFile(c, TRUE)
    /\ UNCHANGED <<db, local, pc, size, done, snap>>
DumpBlock(c) ==
    /\ pc[c] = "dump" /\ off[c] < Tables
    /\ remote' = WriteAt(remote, off[c], DumpOf(snap[c])[off[c] + 1])
    /\ off' = [off EXCEPT ![c] = @ + 1]
    /\ WritesFile(c, TRUE)
    /\ UNCHANGED <<db, local, pc, size, done, snap>>

\* mysqldump ends, or fails: its exit status is not read.
DumpEnd(c) ==
    /\ pc[c] = "dump" /\ (off[c] = Tables \/ c \in Flaky)
    /\ Goto(c, "measure")
    /\ off' = [off EXCEPT ![c] = 0]
    /\ Alone(c, off[c] = Tables)
    /\ UNCHANGED <<db, remote, local, size, done, snap>>

\* "ls -l": when the command cannot be run the function returns quietly and the
\* handler reports success; when its answer is lost the size is 0.
Measure(c) ==
    /\ pc[c] = "measure"
    /\ \/ /\ Goto(c, "open")
          /\ size' = [size EXCEPT ![c] = Len(remote)]
          /\ UNCHANGED clean
       \/ /\ c \in Flaky
          /\ Goto(c, "open") \/ Goto(c, "saved")
          /\ size' = [size EXCEPT ![c] = 0]
          /\ Alone(c, FALSE)
    /\ UNCHANGED <<db, remote, local, done, off, snap>>

\* The remote file is opened, then the local one, which is created or emptied.
OpenLocal(c) ==
    /\ pc[c] = "open"
    /\ \/ /\ Goto(c, "download")
          /\ local' = [local EXCEPT ![c] = <<>>]
          /\ done' = [done EXCEPT ![c] = 0]
          /\ UNCHANGED <<db, remote, size, off, snap, clean>>
       \/ Fail(c)

\* What is read beyond the announced size is not written.
ReadBlockUncapped(c) ==
    /\ pc[c] = "download" /\ done[c] < Len(remote)
    /\ local' = [local EXCEPT ![c] = Append(@, remote[done[c] + 1])]
    /\ done' = [done EXCEPT ![c] = @ + 1]
    /\ UNCHANGED <<db, remote, pc, size, off, snap, clean>>
ReadBlock(c) ==
    /\ pc[c] = "download" /\ done[c] < Len(remote)
    /\ local' = [local EXCEPT ![c] =
          IF done[c] < size[c] THEN Append(@, remote[done[c] + 1]) ELSE @]
    /\ done' = [done EXCEPT ![c] = @ + 1]
    /\ UNCHANGED <<db, remote, pc, size, off, snap, clean>>

\* The end of the file, or an error, which is not told apart from it.
ReadEndWaits(c) ==
    /\ pc[c] = "download" /\ done[c] >= Len(remote) /\ done[c] >= size[c]
    /\ Goto(c, "saved")
    /\ NoCounters(c)
    /\ UNCHANGED <<db, remote, local, snap, clean>>
ReadEndRetries(c) ==
    /\ pc[c] = "download" /\ done[c] >= Len(remote)
    /\ IF Len(local[c]) = size[c]
       THEN Goto(c, "saved") /\ NoCounters(c) /\ UNCHANGED local
       ELSE /\ local' = [local EXCEPT ![c] = <<>>]
            /\ done' = [done EXCEPT ![c] = 0]
            /\ UNCHANGED <<pc, size, off>>
    /\ UNCHANGED <<db, remote, snap, clean>>
ReadEnd(c) ==
    /\ pc[c] = "download" /\ (done[c] >= Len(remote) \/ c \in Flaky)
    /\ Goto(c, "saved")
    /\ NoCounters(c)
    /\ Alone(c, done[c] >= Len(remote))
    /\ UNCHANGED <<db, remote, local, snap>>

-----------------------------------------------------------------------------
(* Restore: on_click_pushbutton_restore_confirm. *)

\* A file was chosen in the dialog, so there is one.
ClickRestore(c) ==
    /\ pc[c] = "ready" /\ c \in Restorers /\ local[c] # NULL
    /\ Connect(c, "create")

\* The file on the server is emptied before the local file is opened.
CreateRemote(c) ==
    /\ pc[c] = "create"
    /\ \/ /\ \/ Goto(c, "upload") /\ WritesFile(c, TRUE)
             \/ c \in Flaky /\ Goto(c, "failed") /\ WritesFile(c, FALSE)
          /\ remote' = <<>>
          /\ done' = [done EXCEPT ![c] = 0]
          /\ off' = [off EXCEPT ![c] = 0]
          /\ UNCHANGED <<db, local, size, snap>>
       \/ Fail(c)

\* A write that fails goes unnoticed and does not move the handle.
WriteBlock(c) ==
    /\ pc[c] = "upload" /\ done[c] < Len(local[c])
    /\ done' = [done EXCEPT ![c] = @ + 1]
    /\ \/ /\ remote' = WriteAt(remote, off[c], local[c][done[c] + 1])
          /\ off' = [off EXCEPT ![c] = @ + 1]
          /\ WritesFile(c, TRUE)
       \/ /\ c \in Flaky
          /\ Alone(c, FALSE)
          /\ UNCHANGED <<remote, off>>
    /\ UNCHANGED <<db, local, pc, size, snap>>

\* The upload is over; mysql is started on the file.
StartMysqlEarly(c) ==
    /\ pc[c] = "upload" /\ done[c] + 1 >= Len(local[c])
    /\ Goto(c, "run")
    /\ NoCounters(c)
    /\ UNCHANGED <<db, remote, local, snap, clean>>
StartMysql(c) ==
    /\ pc[c] = "upload" /\ done[c] >= Len(local[c])
    /\ \/ /\ Goto(c, "run")
          /\ NoCounters(c)
          /\ UNCHANGED <<db, remote, local, snap, clean>>
       \/ Fail(c)

\* mysql drops, creates and fills a table.
RunBlock(c) ==
    LET b == remote[done[c] + 1] IN
    /\ pc[c] = "run" /\ done[c] < Len(remote) /\ b # HOLE
    /\ db' = [db EXCEPT ![b.table] = b.content]
    /\ done' = [done EXCEPT ![c] = @ + 1]
    /\ WritesDb(c, TRUE)
    /\ UNCHANGED <<remote, local, pc, size, off, snap>>

\* The end of the file, or a statement that fails, possibly halfway through a
\* table; the exit status is not read.
RunEnd(c) ==
    /\ pc[c] = "run"
    /\ Goto(c, "restored")
    /\ NoCounters(c)
    /\ \/ /\ done[c] < Len(remote) => remote[done[c] + 1] = HOLE
          /\ UNCHANGED <<db, clean>>
       \/ /\ c \in Flaky
          /\ db' \in {db} \cup {[db EXCEPT ![t] = EMPTY] : t \in Table}
          /\ WritesDb(c, FALSE)
    /\ UNCHANGED <<remote, local, snap>>

-----------------------------------------------------------------------------
(* Around the handlers. *)

\* The message is dismissed, or the program started again: the locals are gone.
Return(c) ==
    /\ pc[c] \in Messages \cup {"crashed"}
    /\ Goto(c, "ready")
    /\ snap' = [snap EXCEPT ![c] = NULL]
    /\ clean' = [clean EXCEPT ![c] = TRUE]
    /\ UNCHANGED <<db, remote, local, counters>>

\* Every other page of the program writes tables.
UseDatabase(t, v) ==
    /\ v # EMPTY
    /\ db' = [db EXCEPT ![t] = v]
    /\ WritesDb(NULL, TRUE)
    /\ UNCHANGED <<remote, local, pc, counters, snap>>

Init ==
    /\ db = [t \in Table |-> EMPTY]
    /\ remote = <<>>
    /\ local = [c \in Clients |-> NULL]
    /\ pc = [c \in Clients |-> "ready"]
    /\ size = [c \in Clients |-> 0]
    /\ done = [c \in Clients |-> 0]
    /\ off = [c \in Clients |-> 0]
    /\ snap = [c \in Clients |-> NULL]
    /\ clean = [c \in Clients |-> TRUE]

Handler(c) ==
    \/ StartDump(c) \/ DumpBlock(c) \/ DumpEnd(c)
    \/ Measure(c) \/ OpenLocal(c) \/ ReadBlock(c) \/ ReadEnd(c)
    \/ CreateRemote(c) \/ WriteBlock(c) \/ StartMysql(c)
    \/ RunBlock(c) \/ RunEnd(c)

Next ==
    \/ \E c \in Clients : Handler(c) \/ ClickBackup(c) \/ ClickRestore(c) \/ Return(c)
    \/ \E t \in Table, v \in Contents : UseDatabase(t, v)

Spec == Init /\ [][Next]_vars

-----------------------------------------------------------------------------
(* Properties. *)

Files == {f \in Seq(Block \cup {HOLE}) : Len(f) <= Tables}

\* The types of the variables.  No file is longer than a dump, no copy longer
\* than announced.
TypeOK ==
    /\ db \in States
    /\ remote \in Files
    /\ local \in [Clients -> Files \cup {NULL}]
    /\ pc \in [Clients -> Busy \cup Messages \cup {"ready", "crashed"}]
    /\ size \in [Clients -> 0 .. Tables]
    /\ done \in [Clients -> 0 .. Tables]
    /\ off \in [Clients -> 0 .. Tables]
    /\ snap \in [Clients -> States \cup {NULL}]
    /\ clean \in [Clients -> BOOLEAN]
    /\ \A c \in Clients : pc[c] = "download" => Len(local[c]) <= size[c]

\* A backup that was not disturbed is what all the tables held at one moment while
\* the handler ran, however much it was written meanwhile, and whatever
\* earlier backups and uploads have left in the file.
BackupIsState ==
    \A c \in Clients : pc[c] = "saved" /\ clean[c] => local[c] = DumpOf(snap[c])

\* A restore that was not disturbed brings back all the tables the backup
\* holds, as they were.
RestoreIsBackup ==
    \A c \in Clients, s \in States :
        pc[c] = "restored" /\ clean[c] /\ local[c] = DumpOf(s) => db = s

\* How many steps a handler has left at most.
StepsLeft(p, d, o) ==
    CASE p = "exec"     -> 5 * (Tables + 1)
      [] p = "dump"     -> 4 * (Tables + 1) + Tables - o
      [] p = "measure"  -> 4 * (Tables + 1) - 1
      [] p = "open"     -> 3 * (Tables + 1)
      [] p = "create"   -> 3 * (Tables + 1)
      [] p = "download" -> 1 + Tables - d
      [] p = "upload"   -> Tables + 2 + Tables - d
      [] p = "run"      -> 1 + Tables - d
      [] OTHER          -> 0

\* A handler comes to its end: each of its steps brings the end nearer, and no
\* other client that writes the file or the database meanwhile moves it away.
HandlersAdvance ==
    [][\A c \in Clients :
          pc[c] \in Busy /\ <<pc[c], done[c], off[c]>> # <<pc'[c], done'[c], off'[c]>> =>
             StepsLeft(pc'[c], done'[c], off'[c]) < StepsLeft(pc[c], done[c], off[c])]_vars

\* And it is never stuck: whatever others have made of the file, a handler that
\* runs has a next step.
NeverStuck == \A c \in Clients : pc[c] \in Busy => ENABLED Handler(c)

\* Whatever is reported as a backup is a dump of one state of the database.
SavedIsWhole ==
    \A c \in Clients : pc[c] = "saved" => local[c] = DumpOf(snap[c])
=============================================================================
