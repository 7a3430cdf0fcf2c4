# ComputersManager in TLA+

ComputersManager is a Qt program for the staff of computer rooms.  Any number
of copies of it (*clients*) work on one MySQL database, `CMDB`; there is no
server program of its own.  The interesting part is therefore not in any one
window but between the SQL statements of several: every statement commits by
itself, nothing is locked for the next one, and what a window shows may be old.

All paths below are relative to `src/ComputersManager/`.

## 1. Inventory

| Component | Files | State | Operations |
|---|---|---|---|
| machine page and windows | `computers_manager.cpp`, `rent_machine_window.*`, `modify_machine_window.*`, `add_machine_winodw.*` | table of machines shown, `current_machine_room`, enabled buttons; per window the machine id and the status its constructor read | open a room, add, edit, delete, rent, return a machine |
| room page and windows | `computers_manager.cpp`, `create_room_window.*`, `modify_room.*` | list of rooms shown; per window the room and its status | list, create, delete, manage (close, open, new manager, new fee) |
| `SqlService` | `sql_service.*` | one connection and one statement, a singleton | one method per database operation: a sequence of statements and what becomes of an `sql::SQLException` |
| database | schema not in the repository; trigger in `sql_service.cpp` 414-422 | `user_info`, `user_permission`, `machine_room`, one table per room | trigger; stored procedures `EndRent`, `CheckSomeOneIsRent`, `CreateTableAndInsertDefaultData`, `SumRoom`, `CountItBySomeRows` |
| login, registration, session | `login_window.*`, `computers_manager.cpp` 228-278, 424-436 | `user_info_`, visible tool buttons | log in, register, log out |
| user administration | `change_userinfo.*`, `modify_window.*` | the user being edited | change another user, change oneself |
| backup and restore | `computers_manager.cpp` 663-692, `login_window.cpp` 217-247 | `/home/<user>/CMDB.sql` on the server, shared by all clients | dump and download; upload and run |
| `ServerConnector` | `server_connector.*` | socket, SSH session | connect, run a command, copy a file either way |
| statistics | `computers_manager.cpp` 376-410, 587-601, 628-661 | none | reads only |
| configuration, helpers | `configure_get.*`, `common_tools.*` | none | read `config.json`, parse dates |

**Interaction.**  A double click or a button runs a handler of
`ComputersManager`, which calls `SqlService` directly or opens a window whose
handlers do.  A window reports its end by a signal (`signal_rent_finish`,
`signal_modify_finish`, ...) to a lambda that refreshes the page and deletes
the window.  The windows of machines are application modal; `ModifyRoom` is
not.  Workers started with `std::async` are joined before their function
returns (the future's destructor blocks), so one client never runs two
statements at once: all concurrency is between clients.

**What is hard.**

* *Check, then act.*  `CheckSomeOneIsRent` before `RentMachine`,
  `GetPeopleOnUseMachine` before `drop table` and before closing a room: two
  statements each, with another client's in between.
* *Old windows.*  A window decides by what its constructor read, and updates by
  machine id alone.
* *The trigger.*  It acts on every update of a machine in use, whatever the
  update was for.
* *Failing in the middle.*  A failed statement leaves what earlier ones
  committed; DDL cannot be rolled back; a `-1` is sometimes read as a `0`; an
  empty vector is indexed.
* *Signals before `connect`.*  Two constructors emit the signal that should
  close their window before anybody listens.
* *Late answers.*  `wait_for` gives up on a worker whose statement goes on, and
  whose answer is dropped; three of the five time limits are in microseconds
  (`computers_manager.cpp` 60 and 465, `modify_window.cpp` 74), the other two in
  milliseconds (`login_window.cpp` 93 and 179).
* *Cached rights.*  A session keeps the permission it read at login, while other
  sessions edit the account.
* *The shared dump.*  All clients back up to and restore from one file; the
  exit status of `mysqldump` is not read; the copy loops trust a length that was
  measured earlier.

**What makes each component correct.**  Machines: the columns of a row agree,
nobody holds two machines, a machine is handed over only after it came back, a
rental starts when it starts, whatever date the row still holds.  Rooms: record,
table and trigger exist together unless a statement failed, nobody sits in a closed
room, and no room is dropped with people in it.  Accounts: nobody keeps the buttons of a
right he has lost, administrators are changed from above only, a rank never
changes without the rest of its edit, and who is told that he is registered is.  Backup:
what is reported as a backup is a complete dump of one state of the database,
and restoring it gives that state.

`PROJECT.json` lists every hazard at its line, with the property that watches it.

## 2. Plan

1. `MachineRental`, `RentalDesk`: machines, statement by statement, and what the
   desk promises.  *Done, with proofs.*
2. `RoomAdmin`, `RoomBook`: rooms, statement by statement, and what the room page
   promises.  *Done, with proofs.*
3. `FileTransfer`: the download and upload loops (`server_connector.cpp`
   94-192) over short reads, short writes, failing calls and a file that changes
   meanwhile.  *Done, with proofs.*
4. `Accounts`, `AccountBook`: login, registration, logout, the two edit windows,
   timeouts, and what the accounts promise; the comment at `change_userinfo.cpp` 35
   as a claim to check.  *Done, with proofs.*
5. `BackupRestore`: several clients, the shared file, failing dumps; a backup is
   one state of the database.  *Done, with proofs.*
6. What the machine and room pages promise to several clients: which clients must
   keep out of each other's way for which property.  *Proved.*
7. Variants for the handlers of `MachineRental` and `RoomAdmin` and for the
   loops of `FileTransfer`: every step of a handler brings its end nearer.  *Proved.*
8. What could still be added: a composition of `RoomAdmin` and `Accounts` in which a logout
   leaves windows of the old session open, once it is known what should become
   of them.

The modules declare everything instance-specific as CONSTANTS with a named
assumption, have one action per gesture or statement, and use no RECURSIVE
operator, so that each can be proved about as it stands.

## 3. Modules

### MachineRental

The database side is `exists` (machines with a row), `used` (ids ever handed
out by `auto_increment`), `row` (`mh_status`, `mh_uid`, `mh_sdate`), `bills`
(closed rentals) and `now` (`NOW()`).  The client side is `pc` (the page or the
place between two statements), `room`, `view` and `canEdit` (the machine page),
and `mach`, `seen`, `who`, `todo` (the open window).  A row that does not exist
keeps the value `Fresh`.

Each handler is cut where it talks to the database:

| Code | Actions |
|---|---|
| double click on a machine | `OpenRentWindow` (reads the manager), `LoadMachineUser` (`GetMachineUser`), `LoadRentInfo` (`GetRentInfo`) |
| rent button | `ClickRent` (`GetUserName`, `CheckSomeOneIsRent`), `RentMachine` |
| end button | `EndRent` (the procedure, then the fee) |
| edit button | `OpenEditWindow`, `LoadMachineStatus`, `ConfirmEdit`, `EditStatement` once per column |
| add, delete button | `OpenAddWindow`, `AddMachine`; `DeleteMachine` |
| the finish signals | `Finish` |

`Trigger` is the trigger of `CreateRoom`; every update goes through it.  A
machine of status 0 leads to `pageUse`, because the finish signal comes too
early and `PAGE_ON_USE` is page 0.  `Crash` stands for an index past an empty
vector (`machine_user_info[0]`, `ret[0]`) and for the exception of
`MysqlDateTimeToTimeT`; `Restart` for starting the program again.

`EndRentProcedure` is external.  All the code shows is one `CALL` and the columns
of a fee: that the procedure runs as one step, and that it bills and frees a row
in use, are assumptions.  Left open are whether it clears `mh_sdate`, whether it
bills a row nobody uses once more while the date is there, whether it changes
such a row, and whether it then reports an error.  So nothing is said here about
a second bill: whether the second press of the end button, or the button of a
stale window, writes one is up to the procedure.

`AnswerLost`: a statement may be carried out and its answer be lost with the
connection.  The program connects once (`sql_service.cpp` 15), so nothing works any
more at that client; it is over as after a crash.  `ForeignKey` leaves open whether the schema rejects a user
id that does not exist.  A failed `DELETE` or `INSERT` is left out as an action,
because it changes neither the database nor the page.

### RentalDesk

The abstract specification: `holder` and `bills`, with the four steps `Rent`
(free machine, person with none), `Return` (with a bill), `BillAgain` (a bill for
a free machine, which only the procedure could rule out) and `Withdraw` (the
machine is deleted under its user).  `MachineRental` implements it with
`holder` being the `mh_uid` column, when one client rents, whatever the others do
to the machines.

### RoomAdmin

A room is three things: a row of `machine_room` (`record`), a table (`table`)
and a trigger on it (`trigger`).  `inUse` counts the machines whose `mh_uid` is
set, which is all that this component reads of them.  Client side: `pc`, `job`
(parameters of the running handler), `list` (the room list with the statuses
shown), `page` (whose machines are in front), `win` (the `ModifyRoom` windows,
which are not modal).

`ClickSum` is the sum button (`computers_manager.cpp` 587): its answer is
forgotten, and what is left of it is element 0 of a vector that may be empty.

`CreateRoom` becomes `ConfirmCreate`, `CreateTable`, `CreateRecord`,
`CommitRecord`, `CreateTrigger`: the procedure's `CREATE TABLE` and
`CREATE TRIGGER` commit implicitly, and the row inserted in between is visible
to others only from the second of these commits on.  While that transaction is
open, DDL of others on the same table waits (`Locked`, external: MySQL's
metadata lock), and so does the deletion of the inserted row (`RowLocked`).  A
creation that fails is given up (`GiveUp`): the error of `rollback` is ignored,
and `setAutoCommit(true)`, which is outside the `try`, may then commit the row that
is still there (`WithRow`), or end the process.  `DeleteMachineRoom` becomes `ClickDelete` (the count),
`DropTable`, `DropRecord`; `ModifyRoomInfo` becomes `ConfirmModify` (the count
included) and one `ModifyStatement` per column.  The fee is a flag in `job`,
since its value decides nothing.

All clients here are super administrators: for other accounts `slot_login`
disables the buttons of this page.

### RoomBook

The abstract specification of the rooms: `record` and `inUse`, with the steps
`Create`, `GiveUp` (an empty room), `SitDown` (in an open room), `Leave`,
`SetStatus` (of an empty room) and `HandOver`.  `RoomAdmin` implements it with its
variables of the same names (`Book == INSTANCE RoomBook WITH Managers <- Ids`): a
creation appears when its row is committed, a deletion when its row is removed,
and a change of a room as one step per column.  The counts and the statuses the
code decides by are read one or more steps before those it decides about.

### FileTransfer

A file is the sequence of its bytes, `remote` on the server and `local` at the
client.  `size`, `left` (the variable `file_size` of the download, counted
down), `pos` and `off` are the locals of the two functions and the positions of
their handles.

| Code | Actions |
|---|---|
| `DownloadFileFromServer2Local` | `MeasureSize` (with `ExecCommand` and `atoi`), `OpenLocal`, `ReadChunk` once per turn of the loop, `ReadEnd` |
| `UploadFileFromLocal2Server` | `Truncate` (opens both files), `WriteChunk` once per turn, `WriteEnd` |
| the message of the handler | `Dismiss`, from `saved`, `restored` or `failed` |
| the same file used by other clients | `OtherEmpties`, `OtherWrites` |

A read may deliver less than it could, a write take less than it was given, any
call may fail, and others may write the file at any moment.  `clean` is a
history variable: TRUE as long as nothing of this has happened in the transfer.
What the loops promise then is not obvious: the download never looks at how much
was read, but writes as much as the countdown of the announced size says, in an
`int` from which a `size_t` is subtracted (`Wrap`); the last bufferful must
still be cut at the right byte.  `Text` is what a file opened without
`ios::binary` makes of a byte; the upload reads with `"rb"`, so a dump that was
downloaded and uploaded again is the translated one.

### Accounts

`info` and `permission` are the rows of `user_info` and `user_permission`
(NULL: none).  Per client: `pc`, `connected` (`p_stat_` is not null), `session`
(`user_info_`), `buttons` (the permission `slot_login` enabled the tool buttons
for), `list` (`tableView_user`, kept only while the user page is in front: the
page is filled whenever it is shown), `win` (the account of the `ChangeUserInfo`
window and the index of its permission box), `job`, `reply` (the statement of a
`std::async` worker: pending, or its result) and `tx` (the tables the open
transaction of `ChangInfo` has written).

| Code | Actions |
|---|---|
| login button, `slot_login`, `InitMainPage` | `ClickLogin`, `SlotLogin` |
| logout button | `Logout` |
| register page, `SqlService::Register` | `TurnRegisterPage`, `ConfirmRegister`, `Register`, `RegisterAnswer`, `DismissRegistered` |
| `wait_for` and the future's destructor | `TimeOut`, `Join` |
| main page | `ShowMainPage` |
| `ModifyWindow` | `OpenModifyWindow`, `ConfirmModify`, `ModifyInfo`, `ModifyAnswer`, `CloseModifyWindow` |
| user page and its search | `ShowUserPage`, `SearchUser` |
| `ChangeUserInfo`, `ChangInfo` | `OpenChangeWindow`, `ConfirmChange`, `UpdateRow` (twice), `Commit`, `GiveUp`, `FinishChange` |

Name and password are one value, since nothing reads one without the other.
An uncommitted update holds its rows: other writers wait (`Locked`, external:
InnoDB).  The row of `user_permission` of a registered user is written by
nothing in the source (external): it may or may not appear.  `setAutoCommit` is outside of
the `try` blocks, so it may end the process with the transaction open; the
server then rolls back.  After a failed statement (`GiveUp`) an error of
`rollback` is caught and dropped (`sql_service.cpp` 381-388), and
`setAutoCommit(true)` (393) then commits what was written, while the window reports
an error: name and password may be changed and the rank not.  An `INSERT` or
`UPDATE` in a worker may have been done although its answer is an error.  `BoxIndex` is `setCurrentIndex` on a box with
`Offered` entries.  The order column of the user table is left out.

### AccountBook

The abstract specification of the accounts: `info` and `permission`, with the
steps `Enter`, `ChangeNames` (name and password, by the owner or by an edit that
was cut short) and `ChangeOther`.  Nobody rises, a super administrator stays one,
and the rank of an administrator is changed only while there is a super
administrator.  `Accounts` implements it; the two updates and the commit of
`ChangInfo` are one `ChangeOther`, or one `ChangeNames` when a failed rollback
leaves the first update to be committed.  What the code checks instead of this
step's condition is the list of `GetUserList`, older than window and transaction.

### BackupRestore

`db` maps tables to contents, `remote` is `/home/<user>/CMDB.sql`, `local` the
backup file of each client; both are sequences of blocks, one per table.
`size`, `done`, `off` count as the loops do, in blocks; `snap` is what
`mysqldump` locked; `clean` is a history variable: no call of this handler has
failed, and nobody has written the file, or the database, while it needed it.

| Code | Actions |
|---|---|
| backup button | `ClickBackup`, `StartDump`, `DumpBlock` per table, `DumpEnd` |
| `DownloadFileFromServer2Local` | `Measure`, `OpenLocal`, `ReadBlock`, `ReadEnd` |
| restore button, `UploadFileFromLocal2Server` | `ClickRestore`, `CreateRemote`, `WriteBlock` |
| `mysql < CMDB.sql` | `StartMysql`, `RunBlock` per table, `RunEnd` |
| message box | `Return` |
| every other page, and other programs | `UseDatabase` |

`mysqldump` locks all tables for its time (its default), so that its output is
`DumpOf(snap)` although tables change meanwhile; a dump that fails has written a
prefix.  The set of tables is fixed: rooms, which are tables, are created and
dropped in use, and a restore leaves a table that is not in the file as it is, so
"the database" here means the tables of the backup.  Neither its exit status nor
that of `mysql` is read: `DumpEnd` and `RunEnd` go on as if nothing had
happened.  When `ls` cannot be run, the download returns quietly and the handler
reports success.  Writing past the end
of a file that was emptied meanwhile leaves a gap (`HOLE`), at which `mysql`
stops.  `FileTransfer` has the same two loops byte by byte, with one client;
here they run block by block with several.

### MC modules

Each module `M` has an `MCM` that extends it and defines the functions and
symmetry sets a `.cfg` cannot write down.

## 4. Runs

| Run | Instance | Shows |
|---|---|---|
| `rental_one` | 2 clients, of whom one manages every room and the other only looks; 2 rooms with a machine each, 1 user and a stranger | without errors the windows keep `OneMachinePerUser`, `NoTakeover`, `NeverRentDisabled`, `EndsShownRental`, `RentReportsTrue`, `RentalsEndBilled`, `NoCrash`, and implement `RentalDesk` |
| `rental_two` | 2 clients, 1 machine, clock to 2, SQL errors, foreign key | `TypeOK`, `InUseConsistent` and `NeverBackdated` survive everything, lost answers included; `HandlersReturn`, and `HandlersAdvance`, the reason why |
| `rooms_one` | 1 client, 2 rooms, no errors | `RoomWhole`, `DisabledRoomEmpty`, `RentsAreDated`, `NoCrash`; the rooms implement `RoomBook` |
| `rooms_two` | 2 clients, 1 room, SQL errors, foreign key | `TypeOK`; `OnlyErrorsBreakRooms`, with both creating and deleting the same name; `HandlersReturn`, with clients waiting for each other's locks; `HandlersAdvance` |
| `transfer_any` | buffer of 2, largest int 3, files up to 4, everything may be short, fail or be overwritten | `TypeOK`; `DownloadComplete`, `UploadComplete` of transfers without such an event; `LoopsEnd` and `LoopsAdvance` of all |
| `accounts_two` | 2 clients, a super administrator, an administrator and a number without account, errors, missing connections | `TypeOK`, `RoomButtonsOnlySadmin`, `RegisteredIsTrue`, `LocksAreShort`, `AdminsChangedFromAbove`, `EditInOrder`; the accounts implement `AccountBook` |
| `backup_two` | 2 clients, 2 tables, one client whose calls fail and who restores | `TypeOK`; `BackupIsState`, `RestoreIsBackup` of undisturbed handlers; `HandlersAdvance` and `NeverStuck` of all |
| `rental_race` | 2 clients, each manager of one room | violates `OneMachinePerUser`: check and update are two statements |
| `rental_redate` | 1 client | violates `StartDateKept`: editing the hardware of a machine in use restarts its rental |
| `rooms_drop` | 2 clients, 1 room, no errors | violates `DropsNoRenter`: somebody sits down between the count and the `drop table` |
| `accounts_demote` | 1 client | violates `EditGivesAnOffer`: the box offers one entry, an administrator is stored with permission 0 |
| `backup_torn` | 2 clients, no errors | violates `SavedIsWhole`: two backups at a time share one file |

The violated properties are claims of comments and messages in the code;
`findings` quotes each with its line.  `OneMachinePerUser` holds as long as one
client rents, and `BackupIsState` says what an undisturbed backup is.

The properties of `rental_one` and `rooms_one` are those that a second client at
the same machines or rooms, or a failing statement, can take away; both runs
exclude that, and show nothing about the races themselves.  How many
clients may work, and where, without losing them is the subject of
`Clerks_proofs`, `Keepers_proofs` and `Wards_proofs`; what holds against every
interleaving and every failure is in `rental_two`, `rooms_two` and
`accounts_two`.

**Bounds.**  The second client of `rental_one` may open rooms and no more, so
that a page others only look at is part of the run; that other clients may also
change what is not theirs is left to the proofs, which say how far.  `MaxTime` caps
the clock: two ticks are the least that tell apart the start date an earlier
rental left in the row, and the start of the next; without ticks everything
still interleaves, at the same instant.
`MaxTouches` caps the hardware columns of one edit (4 in the code): two give a
first, a following and a last statement.  `MaxUse` is 1, since the code
compares the count with zero only.  One machine is enough for properties of one
row, two for `OneMachinePerUser`; two clients are enough for every race between
two statements, and two `ModifyRoom` windows of one client would only repeat
what a second client does.  A user and a stranger (an id without a row in
`user_info`) cover the outcomes of `GetUserName`.  In `transfer_any` (439,807
states) a file may have no, a part of, one and two bufferfuls, and one byte more
than the largest int; the countdown becomes negative and wraps.  `MaxLen` bounds
what others write; without it a file could grow for ever and the download with it.

`accounts_two` (1,223,692 states): two sessions are enough for one to edit the
account of the other, or the same account as the other; one value to type is
enough because the accounts start with another, `First`, and an edit may change
the permission too; three numbers
give one account of each rank that matters and one to be registered.
`backup_two` (3,587,294 states): two tables are the least of which half can be
written; an empty and a filled content are the least that tell the state before
from the state after.  One client fails and restores, the other disturbs it:
what failing twice would add is a second cause of the same end.

**Symmetry.**  The clients of `accounts_two` are interchangeable; no liveness
property is checked under symmetry.

**Deadlock** is checked everywhere: a client can always do something.

**Fairness.**  `FairSpec` is about handlers, never about users.  A statement
that was sent returns or throws, and the handler runs on: weak fairness of
`Handler(c)` in `MachineRental`, where no statement waits for another client.
In `RoomAdmin` a `DROP TABLE` may be blocked again and again by other clients'
transactions; MySQL grants metadata locks in order of request, hence strong
fairness there.  In `FileTransfer` weak fairness of `Copying`: both loops run
without waiting for anything but blocking calls, which return.
`Accounts` and `BackupRestore` assume none: that a backup or a restore ends is
said by `HandlersAdvance` (a variant that every step of the handler decreases
and no other step touches) and `NeverStuck` (the handler has a next step), from
which it follows under weak fairness of `Handler(c)`.

## 5. Proofs

All of it is for arbitrary constants that satisfy the assumption named in the
module.  These say little more than that NULL is none of the values it is
compared with; `TransferAssumption` also that a buffer is not longer than the
largest int.  Where a theorem assumes more, about which clients work where or that
no statement fails, that is in its statement, and it is there because the
property is false without it: TLC finds a counterexample for each when it is
dropped.

* `MachineRental_proofs`: `TypeCorrect`, `ColumnsAgree`, and the action properties
  `RentalsStartNow` (`NeverBackdated`) and `StatementsRunOut` (`HandlersAdvance`),
  for **any number of clients and with errors**.  The inductive invariant is `IInv`:
  the types; the columns of every row agree; no start date, not even one left
  behind by a rental that ended, is ahead of the clock (`DatesPast`); and for the
  clients, what a window needs at each `pc` (`WindowsReady`).  `RentalsStartNow`
  needs it because a step either keeps a row, dates it `now`, or leaves it without
  user (`DateStep`), and `now` must not be behind the date it replaces.  The types
  matter more than usual: that the statement of an edit never writes status 2 on
  a row without user depends on what `ConfirmEdit` may put into `todo`.
  `StatementsRunOut` needs of `IInv` that a running edit has a statement left, and
  that the row of a machine has one of the three statuses (`PageFor` then leads
  to a page or to `GetRentInfo`, nowhere else).
* `Clerks_proofs`: what the rent windows promise to several clients.  The only
  assumption of `ClerkNoTakeover` and `ClerkEndsShownRental` is `OneClerk`: no room
  has its manager logged in at two clients that may rent.  Everybody else may
  disable, edit, add and delete machines, and statements may fail.  The
  invariant (`Clerk`): a rent window is one of a room its client manages, and
  knows of its machine that it is free, or who sits at it if anybody does; no
  step of another client seats anybody there (`UserStep`).
  `ClerkRentalsEndBilled` follows from the same invariant: with `UserStep` nobody
  is seated in another's place, no handler empties a place (`HandlerFreesNobody`),
  and the one gesture that empties that of a machine which stays, the end button,
  leaves the bill of the start date the row held (`FreedIsBilled`).  With two
  clients at one room a rental may overwrite another and its hours are lost.
  `DeskOneMachinePerUser` and `ImplementsDesk`, the refinement of `RentalDesk`,
  need `OneDesk`: one client rents, and no statement fails.  Two clients that rent
  in rooms of their own are not enough, since both may check the same person:
  that is the finding of `rental_race`.
* `Keepers_proofs`: `KeeperNoCrash` (without errors),
  `KeeperNeverRentDisabled` and `KeeperReportsTrue` (with errors) under `OneKeeper`: no room may be changed
  at two clients.  The code lets a super administrator change machines of every
  room, so this says: while one works the others only look.  It is stronger than
  `OneClerk` because an edit or a deletion by another client is enough to make
  what the window has read of its machine untrue.  `KeeperReportsTrue`
  (`RentReportsTrue`) adds `ThereInv`: a window that offers to rent is one of a
  machine that is there.  This is what makes the message of `RentMachine` true,
  which does not count the rows it updates; for one deletion by a second
  client it is false, even if that client manages no room.  A single client always
  satisfies all three.
* `RoomAdmin_proofs`: `RoomTypeCorrect`, `OnlyFailuresBreak`
  (`OnlyErrorsBreakRooms`) and `RoomStatementsRunOut` (`HandlersAdvance`), for any
  number of clients and with errors.  `OnlyFailuresBreak` uses `HeldInv`: a table
  under creation is there until its transaction ends, since the lock keeps the
  deletions of others away (`StepServes` then goes through the statements).  It
  follows that without errors every row of `machine_room` has its table and its
  trigger, or a client that is just making or removing them, in every interleaving
  (`RoomsServed`).  `RoomStatementsRunOut` rests on `WorkInv`: `ModifyRoomInfo` is
  not entered, or continued, with nothing left to write.
  `ApartRentsAreDated` is for any number of clients as well, without errors, and
  for the behaviours in which no two clients are *at* the same room at the same
  time (`Separate`: creating or deleting it, or with a rent window on one of its
  machines).  Statuses and managers may be changed by anybody meanwhile.  The
  strengthening is `Stage`: how much of its room a creation or deletion has made or
  removed at each `pc`.  `Separate` is a condition on behaviours, not on constants,
  since the code does nothing to establish it: the theorem says what staff must
  avoid, and no more.  `RoomWhole`, which is that condition made a property, is
  only model-checked.
* `Wards_proofs`: `WardDisabledRoomEmpty`, `WardRoomsNoCrash` and
  `WardImplementsBook`, the refinement of `RoomBook`, for any number of clients each
  of which uses the buttons of the page for rooms of its own (`Wards`, `Keeping`),
  without errors.  `Separate` is too little here: another client may close a
  room between two of this client's visits, and the list, which was read before,
  still lets people in.  The strengthening is `PageTrue`: list and machine page
  show the client's own rooms as they are.  `WardRoomsNoCrash` allows for a foreign
  key on the manager, the two others do not: if the schema has one, closing a room and
  naming a manager who is no user, in one edit, writes the status, fails, and does
  not refresh the list, through which people are let into the closed room.
  `WardsApart` shows that wards imply `Separate`, and `OneClientKeeps` that a single
  client satisfies the hypothesis with all rooms for its ward, so that the results
  are about `rooms_one` too.
* `Accounts_proofs`: `AccountTypeCorrect`, `ButtonsOnlySadmin`,
  `RegisteredHasAccount`, `LocksShort`, and the action properties
  `AdminsFromAbove` and `EditOrdered` (`EditInOrder`), for any number of clients and accounts, with
  errors.  The invariant ties a session to its account (a super administrator's
  cached permission is true: nobody else's list or window can name him), says
  what a window may offer (`Reach`) and what a running job is about; `RowStep`
  then says how a step may change one account.  `ImplementsAccountBook` is the
  refinement of `AccountBook`, without any assumption; `EditSteps` says how a
  transaction may end, the failing rollback included.  It needs in addition that a
  client past the login page is logged in as somebody (`LoggedIn`), so that
  there is a super administrator for the abstract step to name; `BookStep`
  maps each action.
* `BackupRestore_proofs`: `BackupTypeCorrect`, `CleanBackup`, `CleanRestore`,
  `Advance`, for any number of clients and tables.  While a handler is
  undisturbed the file is, up to where it is, the same as the dump, the copy the
  same as the file, and the database the same as the copy.
* `FileTransfer_proofs`: `TransferTypeCorrect`, `DownloadsAreComplete`,
  `UploadsAreComplete` and `CallsRunOut` (`LoopsAdvance`), for files of any length and any buffer not longer than
  the largest int.  The loop invariant `Downloading`: while bytes are missing
  the countdown is `size - pos`, and the copy is the part that was read, or all
  that was announced.  It fails after one short read, which is why the
  property speaks of transfers without one.  `CallsRunOut` is about all of them;
  it needs `LoopInv` (the upload's position is inside its file) and counts
  the calls of a download against the longest the file can still become, not
  against the countdown, which may have wrapped.  `MaxLen`, up to which others
  write, is arbitrary there, but there must be one: a download from a file that
  never stops growing does not end.

Only model-checked: `RoomWhole`, `HandlersReturn` of both modules and `LoopsEnd` (liveness and
fairness are outside of what the prover does here) and `NeverStuck` (ENABLED).  Of
each the half that is about single steps is proved, `HandlersAdvance` and
`LoopsAdvance`: a natural number decreases with every step of the handler.  What
stays with TLC is that the next step is possible and is taken.  The listed
claims of the code that do not hold are shown by their counterexamples.

## 6. Not modelled

* Layout, texts, style sheets, validators of input fields, the payment picture.
* Statistics: they read, through procedures that are not in the repository.
* The amount of a fee; `bills` records the interval it is computed from.
* The order of destruction in `ServerConnector` (socket, library, session): it
  concerns libssh2 only, nothing in the program observes it.
* `ModifyRoom` windows that survive a logout: they are in `RoomAdmin` as windows,
  but sessions are in `Accounts`, and no line says what should become of them.
* Demonstrations of races that no comment denies have no run of their own: the
  count of `ModifyRoomInfo` with a second client, a takeover through a stale rent
  window, a rental check that fails with -1 and passes (`rent_machine_window.cpp`
  95), the window of a disabled machine whose signal is emitted before it is
  connected (`rent_machine_window.cpp` 40), two editors of one account of whom the
  last wins, an edit of which a failing rollback keeps the first half.  Nor has the
  manager of a new room, who is searched for and not verified (`create_room_window.cpp`
  108): `ConfirmCreate` takes anybody.  The models contain all of them.
* Tables that are created or dropped between a backup and its restore.
* A client that loses its connection for good: every statement fails from then
  on, which `SqlErrors` includes statement by statement; in `MachineRental` it is
  over once the answer of a statement that was carried out is lost (`AnswerLost`).
* Vendored code, by far most of the lines under `src/` (MySQL connector, libssh2, OpenSSL, nlohmann-json).
