----------------------------- MODULE RoomAdmin -----------------------------
(***************************************************************************)
(* The rooms: the room page of ComputersManager, CreateRoomWindow,         *)
(* ModifyRoom and the SqlService methods they call.  A room is a row of    *)
(* machine_room, a table named after it and a trigger on that table, made  *)
(* and removed by separate statements.  The machines of a room are only    *)
(* counted here (MachineRental has them one by one).  All the clients are  *)
(* super administrators: for others the buttons of this page are disabled. *)
(***************************************************************************)
EXTENDS Integers, FiniteSets

CONSTANTS
    Clients,      \* running copies of the program
    Account,      \* the user logged in at each client
    Rooms,        \* names a room may be given
    Slots,        \* bound of the ModifyRoom windows one client has open
    Users,        \* ids with a row in user_info
    Stranger,     \* text of a manager field that is no user's id
    NULL,         \* "none"
    SqlErrors,    \* may a statement raise sql::SQLException?
    ForeignKey,   \* does the schema tie mr_manager to user_info?
    MaxUse        \* bound of the machines in use in one room

ASSUME RoomAssumption ==
    /\ Account \in [Clients -> Users]
    /\ Stranger \notin Users
    /\ NULL \notin Users \cup Rooms \cup Slots \cup {Stranger, -1, 0, 1}
    /\ NULL \notin [status : {0, 1}, manager : Users \cup {Stranger}]
    /\ SqlErrors \in BOOLEAN
    /\ ForeignKey \in BOOLEAN
    /\ MaxUse \in Nat \ {0}

VARIABLES
    record,   \* the committed rows of machine_room: mr_status, mr_manager
    table,    \* the rooms whose table of machines exists
    trigger,  \* the rooms whose table has the BEFORE UPDATE trigger
    inUse,    \* the machines of a room whose mh_uid is set
    pc,       \* where each client is: free, in a modal window, in a handler
    job,      \* what its handler works on
    list,     \* tableView_rooms: the rooms shown, with the status shown
    page,     \* the room whose machine page is in front, if one is
    win       \* its ModifyRoom windows, which are not modal

dbVars     == <<record, table, trigger, inUse>>
clientVars == <<pc, job, list, page, win>>
vars       == <<dbVars, clientVars>>

Disabled == 0
Enabled  == 1

Ids   == Users \cup {Stranger}
NoJob == [room |-> NULL, manager |-> NULL, status |-> -1, fee |-> FALSE, slot |-> NULL]

\* The client is inside a handler, between two SQL statements.
Busy == {"createTable", "createRecord", "createTrigger", "createCommitted",
         "dropTable", "dropRecord", "manage", "modify"}

-----------------------------------------------------------------------------
(* Helpers. *)

Goto(c, p) == pc' = [pc EXCEPT ![c] = p]

\* GetRoomList joins with user_info: a room whose manager is no user is hidden.
Listed == [r \in Rooms |-> IF record[r] = NULL THEN NULL
                           ELSE IF record[r].manager \in Users THEN record[r].status ELSE NULL]
Empty  == [r \in Rooms |-> NULL]

\* on_click_toolbutton_room: refresh the list and show the room page.
Refresh(c) ==
    /\ \E shown \in {Listed} \cup (IF SqlErrors THEN {Empty} ELSE {}) :
          list' = [list EXCEPT ![c] = shown]
    /\ page' = [page EXCEPT ![c] = NULL]

\* GetPeopleOnUseMachine finds nobody; a missing table or an error is -1.
NobodyOn(r) == r \in table /\ inUse[r] = 0

\* The creator's open transaction has touched the table of r, and later the row:
\* DDL on the one and a deletion of the other wait for it.
LockedLate(r) == \E c \in Clients : job[c].room = r /\ pc[c] = "createTrigger"
Locked(r)    == \E c \in Clients : job[c].room = r /\ pc[c] \in {"createRecord", "createTrigger"}
RowLocked(r) == \E c \in Clients : job[c].room = r /\ pc[c] = "createTrigger"

\* An index past the end of an empty vector, or an exception outside the try.
Crash(c) ==
    /\ Goto(c, "crashed")
    /\ job'  = [job  EXCEPT ![c] = NoJob]
    /\ list' = [list EXCEPT ![c] = Empty]
    /\ page' = [page EXCEPT ![c] = NULL]
    /\ win'  = [win  EXCEPT ![c] = [s \in Slots |-> NULL]]

Restart(c) ==
    /\ pc[c] = "crashed"
    /\ Goto(c, "main")
    /\ UNCHANGED <<dbVars, job, list, page, win>>

-----------------------------------------------------------------------------
(* The room page, and the machines of a room. *)

ShowRooms(c) ==
    /\ pc[c] = "main"
    /\ Refresh(c)
    /\ UNCHANGED <<dbVars, pc, job, win>>

\* Double click on a room: what counts is the status the list shows.
OpenRoomUnchecked(c, r) ==
    /\ pc[c] = "main" /\ page[c] = NULL /\ list[c][r] # NULL
    /\ page' = [page EXCEPT ![c] = r]
    /\ UNCHANGED <<dbVars, pc, job, list, win>>
OpenRoom(c, r) ==
    /\ pc[c] = "main" /\ page[c] = NULL /\ list[c][r] = Enabled
    /\ page' = [page EXCEPT ![c] = r]
    /\ UNCHANGED <<dbVars, pc, job, list, win>>

\* Double click on a machine: the manager of the room opens the modal window.
OpenRentWindow(c) ==
    LET r == page[c] IN
    /\ pc[c] = "main" /\ r # NULL
    /\ r \in table /\ record[r] # NULL /\ record[r].manager = Account[c]
    /\ Goto(c, "rent")
    /\ UNCHANGED <<dbVars, job, list, page, win>>

\* RentMachine or EndRent; nothing looks at the room again.  Machines of a
\* table under creation are not visible yet.
UseMachineUncounted(c) ==
    LET r == page[c] IN
    /\ pc[c] = "rent" /\ r \in table /\ ~Locked(r)
    /\ inUse' \in {[inUse EXCEPT ![r] = @ + 1], [inUse EXCEPT ![r] = @ - 1]}
    /\ Goto(c, "main")
    /\ UNCHANGED <<record, table, trigger, job, list, page, win>>
UseMachine(c) ==
    LET r == page[c] IN
    /\ pc[c] = "rent" /\ r \in table /\ ~Locked(r)
    /\ \/ inUse[r] < MaxUse /\ inUse' = [inUse EXCEPT ![r] = @ + 1]
       \/ inUse[r] > 0 /\ inUse' = [inUse EXCEPT ![r] = @ - 1]
    /\ Goto(c, "main")
    /\ UNCHANGED <<record, table, trigger, job, list, page, win>>

CloseRentWindow(c) ==
    /\ pc[c] = "rent"
    /\ Goto(c, "main")
    /\ UNCHANGED <<dbVars, job, list, page, win>>

-----------------------------------------------------------------------------
(* The total of a room, CreateRoomWindow and CreateRoom. *)

\* The sum button, on a room the list shows: SumRoom reads the room's table.  The
\* answer is shown and forgotten; when there is none, as for a room that somebody
\* has deleted, element 0 of an empty vector is read.
ClickSum(c, r) ==
    /\ pc[c] = "main" /\ page[c] = NULL /\ list[c][r] # NULL
    /\ r \notin table \/ SqlErrors
    /\ Crash(c)
    /\ UNCHANGED dbVars

OpenCreateWindow(c) ==
    /\ pc[c] = "main" /\ page[c] = NULL
    /\ Goto(c, "create")
    /\ UNCHANGED <<dbVars, job, list, page, win>>

\* The confirm button.  The search for the manager shows a message and no
\* more; setAutoCommit(false) is outside the try.
ConfirmCreate(c, r, u) ==
    /\ pc[c] = "create"
    /\ UNCHANGED dbVars
    /\ \/ /\ Goto(c, "createTable")
          /\ job' = [job EXCEPT ![c] = [NoJob EXCEPT !.room = r, !.manager = u]]
          /\ UNCHANGED <<list, page, win>>
       \/ SqlErrors /\ Crash(c)

\* The creation is given up: rollback, whose own error is ignored, and
\* setAutoCommit(true), outside the try.  The window stays open.
GiveUp(c) ==
    \/ /\ Goto(c, "create")
       /\ job' = [job EXCEPT ![c] = NoJob]
       /\ UNCHANGED <<list, page, win>>
    \/ SqlErrors /\ Crash(c)

\* machine_room with the row CreateRoom inserts; the status is the schema's default.
WithRow(c) ==
    {[record EXCEPT ![job[c].room] = [status |-> st, manager |-> job[c].manager]] :
        st \in {Disabled, Enabled}}

\* The stored procedure makes the table, a DDL statement that commits at once,
\* and inserts its machines; an error may come before or after.
CreateTable(c) ==
    LET r == job[c].room IN
    /\ pc[c] = "createTable"
    /\ UNCHANGED <<record, trigger, inUse>>
    /\ \/ /\ r \notin table
          /\ table' = table \cup {r}
          /\ Goto(c, "createRecord")
          /\ UNCHANGED <<job, list, page, win>>
       \/ /\ r \in table \/ SqlErrors
          /\ table' \in {table} \cup (IF SqlErrors THEN {table \cup {r}} ELSE {})
          /\ GiveUp(c)

\* The row of machine_room: nobody else sees it before the commit.  If both the
\* answer and the rollback are lost, setAutoCommit(true) commits it.
CreateRecord(c) ==
    LET r == job[c].room
        possible == record[r] = NULL /\ (ForeignKey => job[c].manager \in Users) IN
    /\ pc[c] = "createRecord"
    /\ UNCHANGED <<table, trigger, inUse>>
    /\ \/ /\ possible
          /\ Goto(c, "createTrigger")
          /\ UNCHANGED <<record, job, list, page, win>>
       \/ /\ ~possible \/ SqlErrors
          /\ record' \in {record} \cup (IF possible THEN WithRow(c) ELSE {})
          /\ GiveUp(c)

\* "create trigger" is DDL: it commits the row before it does anything.  An error
\* before that leaves the row to the rollback, or to setAutoCommit(true).
CommitRecord(c) ==
    /\ pc[c] = "createTrigger"
    /\ UNCHANGED <<table, trigger, inUse>>
    /\ \/ /\ record' \in WithRow(c)
          /\ Goto(c, "createCommitted")
          /\ UNCHANGED <<job, list, page, win>>
       \/ /\ SqlErrors
          /\ record' \in {record} \cup WithRow(c)
          /\ GiveUp(c)

\* The trigger needs its table, and a name nobody has used.  The table may be in
\* another creation by now.  What follows, setAutoCommit(true), may throw.
CreateTriggerForgotten(c) ==
    /\ pc[c] = "createCommitted"
    /\ Goto(c, "done")
    /\ UNCHANGED <<dbVars, job, list, page, win>>
CreateTrigger(c) ==
    LET r == job[c].room IN
    /\ pc[c] = "createCommitted" /\ ~Locked(r)
    /\ UNCHANGED <<record, table, inUse>>
    /\ \/ /\ r \in table \ trigger
          /\ trigger' = trigger \cup {r}
          /\ \/ Goto(c, "done") /\ UNCHANGED <<job, list, page, win>>
             \/ GiveUp(c) /\ SqlErrors
       \/ /\ r \notin table \ trigger \/ SqlErrors
          /\ GiveUp(c)
          /\ UNCHANGED trigger

-----------------------------------------------------------------------------
(* DeleteMachineRoom. *)

\* The delete button, confirmed: the count alone decides, and is not looked at
\* again.  Renters, a missing table or an error end the handler.
ClickDeleteUncounted(c, r) ==
    /\ pc[c] = "main" /\ page[c] = NULL /\ list[c][r] # NULL
    /\ Goto(c, "dropTable")
    /\ job' = [job EXCEPT ![c] = [NoJob EXCEPT !.room = r]]
    /\ UNCHANGED <<dbVars, list, page, win>>
ClickDelete(c, r) ==
    /\ pc[c] = "main" /\ page[c] = NULL /\ list[c][r] # NULL
    /\ NobodyOn(r)
    /\ Goto(c, "dropTable")
    /\ job' = [job EXCEPT ![c] = [NoJob EXCEPT !.room = r]]
    /\ UNCHANGED <<dbVars, list, page, win>>

\* The handler returns after an error: nothing is undone, nothing refreshed.
ReturnMain(c) ==
    /\ Goto(c, "main")
    /\ job' = [job EXCEPT ![c] = NoJob]
    /\ UNCHANGED <<list, page, win>>

\* "drop table" takes the trigger along and waits for whoever uses the table.
DropTable(c) ==
    LET r == job[c].room IN
    /\ pc[c] = "dropTable" /\ ~Locked(r)
    /\ UNCHANGED record
    /\ \/ /\ r \in table
          /\ table' = table \ {r}
          /\ trigger' = trigger \ {r}
          /\ inUse' = [inUse EXCEPT ![r] = 0]
          /\ Goto(c, "dropRecord")
          /\ UNCHANGED <<job, list, page, win>>
       \/ /\ r \notin table \/ SqlErrors
          /\ ReturnMain(c)
          /\ UNCHANGED <<table, trigger, inUse>>

DropRecordForgotten(c) ==
    /\ pc[c] = "dropRecord"
    /\ Goto(c, "done")
    /\ UNCHANGED <<dbVars, job, list, page, win>>
DropRecord(c) ==
    LET r == job[c].room IN
    /\ pc[c] = "dropRecord" /\ ~RowLocked(r)
    /\ UNCHANGED <<table, trigger, inUse>>
    /\ \/ /\ record' = [record EXCEPT ![r] = NULL]
          /\ Goto(c, "done")
          /\ UNCHANGED <<job, list, page, win>>
       \/ /\ SqlErrors
          /\ ReturnMain(c)
          /\ UNCHANGED record

-----------------------------------------------------------------------------
(* ModifyRoom and ModifyRoomInfo. *)

\* The manage button reads the room, updates the row shown, and makes a
\* ModifyRoom, whose constructor reads the room again.  Both take element 0 of
\* a vector that is empty when there is no such room any more.
ClickManage(c, r) ==
    /\ pc[c] = "main" /\ page[c] = NULL /\ list[c][r] # NULL
    /\ \E s \in Slots : win[c][s] = NULL
    /\ UNCHANGED dbVars
    /\ \/ /\ record[r] # NULL
          /\ list' = [list EXCEPT ![c][r] = record[r].status]
          /\ job' = [job EXCEPT ![c] = [NoJob EXCEPT !.room = r]]
          /\ Goto(c, "manage")
          /\ UNCHANGED <<page, win>>
       \/ /\ record[r] = NULL \/ SqlErrors
          /\ Crash(c)

OpenModifyWindow(c, s) ==
    LET r == job[c].room IN
    /\ pc[c] = "manage" /\ win[c][s] = NULL
    /\ UNCHANGED dbVars
    /\ \/ /\ record[r] # NULL
          /\ win' = [win EXCEPT ![c][s] = [room |-> r, status |-> record[r].status]]
          /\ job' = [job EXCEPT ![c] = NoJob]
          /\ Goto(c, "main")
          /\ UNCHANGED <<list, page>>
       \/ /\ record[r] = NULL \/ SqlErrors
          /\ Crash(c)

\* The confirm button, with the status box on box, u in the manager field (NULL:
\* empty) and a new fee or none.  The search for u shows a message and no more.
\* A new status, whichever it is, needs a count of zero.
ConfirmModify(c, s, box, u, fee) ==
    LET st == IF box # win[c][s].status THEN box ELSE -1 IN
    /\ pc[c] = "main" /\ win[c][s] # NULL
    /\ st # -1 \/ u # NULL \/ fee
    /\ st # -1 => NobodyOn(win[c][s].room)
    /\ job' = [job EXCEPT ![c] = [room |-> win[c][s].room, manager |-> u, status |-> st,
                                  fee |-> fee, slot |-> s]]
    /\ Goto(c, "modify")
    /\ UNCHANGED <<dbVars, list, page, win>>

\* What is left to run after the next statement: status, manager, fee.
RestStartsOver(j) == IF j.status # -1 THEN [j EXCEPT !.status = -1] ELSE [j EXCEPT !.fee = ~@]
Rest(j) ==
    IF j.status # -1 THEN [j EXCEPT !.status = -1]
    ELSE IF j.manager # NULL THEN [j EXCEPT !.manager = NULL]
    ELSE [j EXCEPT !.fee = FALSE]

\* One statement of ModifyRoomInfo; each commits by itself.  An error keeps
\* what was done and leaves the window open.  The fee is not modelled.
ModifyStatement(c) ==
    LET j == job[c]
        r == j.room
        rest == Rest(j)
        possible == ForeignKey /\ j.status = -1 /\ j.manager # NULL /\ record[r] # NULL
                        => j.manager \in Users IN
    /\ pc[c] = "modify"
    /\ UNCHANGED <<table, trigger, inUse>>
    /\ \/ /\ possible
          /\ record' = [record EXCEPT ![r] =
                IF @ = NULL THEN NULL
                ELSE IF j.status # -1 THEN [@ EXCEPT !.status = j.status]
                ELSE IF j.manager # NULL THEN [@ EXCEPT !.manager = j.manager]
                ELSE @]
          /\ job' = [job EXCEPT ![c] = rest]
          /\ Goto(c, IF rest.status = -1 /\ rest.manager = NULL /\ ~rest.fee
                     THEN "done" ELSE "modify")
          /\ UNCHANGED <<list, page, win>>
       \/ /\ ~possible \/ SqlErrors
          /\ ReturnMain(c)
          /\ UNCHANGED record

\* The cancel button, or the window's own close button.
CloseModifyWindow(c, s) ==
    /\ pc[c] = "main" /\ win[c][s] # NULL
    /\ win' = [win EXCEPT ![c][s] = NULL]
    /\ Refresh(c)
    /\ UNCHANGED <<dbVars, pc, job>>

\* The message box after a change is dismissed, or the create window is left:
\* the window goes and the room page is refreshed.
FinishKeepsList(c) ==
    /\ pc[c] \in {"create", "done"}
    /\ Goto(c, "main")
    /\ job' = [job EXCEPT ![c] = NoJob]
    /\ win' = [win EXCEPT ![c] = [s \in Slots |-> IF s = job[c].slot THEN NULL ELSE @[s]]]
    /\ UNCHANGED <<dbVars, list, page>>
Finish(c) ==
    /\ pc[c] \in {"create", "done"}
    /\ Goto(c, "main")
    /\ job' = [job EXCEPT ![c] = NoJob]
    /\ win' = [win EXCEPT ![c] = [s \in Slots |-> IF s = job[c].slot THEN NULL ELSE @[s]]]
    /\ Refresh(c)
    /\ UNCHANGED dbVars

-----------------------------------------------------------------------------
(* The specification. *)

Init ==
    /\ record = [r \in Rooms |-> NULL]
    /\ table = {}
    /\ trigger = {}
    /\ inUse = [r \in Rooms |-> 0]
    /\ pc = [c \in Clients |-> "main"]
    /\ job = [c \in Clients |-> NoJob]
    /\ list = [c \in Clients |-> Empty]
    /\ page = [c \in Clients |-> NULL]
    /\ win = [c \in Clients |-> [s \in Slots |-> NULL]]

\* The rest of a handler the user has started.
Handler(c) ==
    \/ CreateTable(c) \/ CreateRecord(c) \/ CommitRecord(c) \/ CreateTrigger(c)
    \/ DropTable(c) \/ DropRecord(c)
    \/ ModifyStatement(c)
    \/ \E s \in Slots : OpenModifyWindow(c, s)

Gesture(c) ==
    \/ Restart(c)
    \/ ShowRooms(c)
    \/ OpenRentWindow(c) \/ UseMachine(c) \/ CloseRentWindow(c)
    \/ OpenCreateWindow(c)
    \/ Finish(c)
    \/ \E r \in Rooms : OpenRoom(c, r) \/ ClickSum(c, r) \/ ClickDelete(c, r) \/ ClickManage(c, r)
    \/ \E r \in Rooms, u \in Ids : ConfirmCreate(c, r, u)
    \/ \E s \in Slots : CloseModifyWindow(c, s)
    \/ \E s \in Slots, box \in {Disabled, Enabled}, u \in Ids \cup {NULL}, fee \in BOOLEAN :
          ConfirmModify(c, s, box, u, fee)

Next == \E c \in Clients : Handler(c) \/ Gesture(c)

Spec == Init /\ [][Next]_vars

\* A statement that was sent runs, or throws, and the handler goes on.  One that
\* waits for the table of another client's transaction is served in turn by the
\* server, however often that table is taken again: strong fairness.
FairSpec == Spec /\ \A c \in Clients : SF_vars(Handler(c))

-----------------------------------------------------------------------------
(* Properties. *)

Jobs == [room : Rooms \cup {NULL}, manager : Ids \cup {NULL},
         status : {-1, Disabled, Enabled}, fee : BOOLEAN, slot : Slots \cup {NULL}]

\* The types of the variables; a drop leaves no count behind.
TypeOK ==
    /\ record \in [Rooms -> [status : {Disabled, Enabled}, manager : Ids] \cup {NULL}]
    /\ trigger \subseteq table /\ table \subseteq Rooms
    /\ inUse \in [Rooms -> 0 .. MaxUse]
    /\ pc \in [Clients -> {"main", "rent", "create", "done", "crashed"} \cup Busy]
    /\ job \in [Clients -> Jobs]
    /\ list \in [Clients -> [Rooms -> {NULL, Disabled, Enabled}]]
    /\ page \in [Clients -> Rooms \cup {NULL}]
    /\ win \in [Clients -> [Slots -> [room : Rooms, status : {Disabled, Enabled}] \cup {NULL}]]

\* A row of machine_room stands for a room that can be used and deleted: it has
\* its table, and the table its trigger or the client that is making it; or else
\* a deletion is on its way to the row.
Served(r) == record[r] # NULL =>
    \/ \E c \in Clients : pc[c] = "dropRecord" /\ job[c].room = r
    \/ /\ r \in table
       /\ r \in trigger \/ \E c \in Clients : pc[c] = "createCommitted" /\ job[c].room = r

\* A statement of c on r fails with the creation or the deletion half done.
Fails(c, r) ==
    /\ job[c].room = r
    /\ pc[c] \in {"createRecord", "createTrigger", "createCommitted", "dropRecord"}
    /\ pc'[c] \in {"create", "main", "crashed"}

\* Only a statement that fails leaves the row of a room without its table or its
\* trigger, whatever other clients create and delete under the same name.
OnlyErrorsBreakRooms ==
    [][\A r \in Rooms : Served(r) /\ ~Served(r)' => \E c \in Clients : Fails(c, r)]_vars

\* A room has all its three parts or none when nobody is creating or deleting.
RoomWhole ==
    \A r \in Rooms :
        (\A c \in Clients : pc[c] \in Busy \ {"manage", "modify"} => job[c].room # r) =>
            (record[r] # NULL <=> r \in table) /\ (r \in table => r \in trigger)

\* Nobody sits in a room that is closed.
DisabledRoomEmpty ==
    \A r \in Rooms : record[r] # NULL /\ inUse[r] > 0 => record[r].status = Enabled

\* A table is not dropped while somebody sits in its room: DeleteMachineRoom says
\* that it returns if there are still people using it.
DropsNoRenter == [][\A r \in table \ table' : inUse[r] = 0]_vars

\* A machine in use lies in a table with the trigger that dates its rental and
\* keeps its columns together.
RentsAreDated == \A r \in Rooms : inUse[r] > 0 => r \in trigger

\* No vector is read past its end.
NoCrash == \A c \in Clients : pc[c] # "crashed"

\* The rooms as their users see them: RoomBook promises this.
Book == INSTANCE RoomBook WITH Managers <- Ids
BookSpec == Book!Spec

\* A handler comes back: nobody waits for a lock for ever.
HandlersReturn == \A c \in Clients : pc[c] \in Busy ~> pc[c] \notin Busy

\* How many columns ModifyRoomInfo has yet to write, and how many statements a
\* handler has left at most.
ColumnsLeft(j) ==
    (IF j.status = -1 THEN 0 ELSE 1) + (IF j.manager = NULL THEN 0 ELSE 1) + (IF j.fee THEN 1 ELSE 0)
StepsLeft(p, j) ==
    CASE p = "createTable"     -> 4
      [] p = "createRecord"    -> 3
      [] p = "createTrigger"   -> 2
      [] p = "createCommitted" -> 1
      [] p = "dropTable"       -> 2
      [] p \in {"dropRecord", "manage"} -> 1
      [] p = "modify"          -> ColumnsLeft(j)
      [] OTHER                 -> 0

\* What makes it come back: no statement, whether it succeeds, fails or finds its
\* room gone, leads back to an earlier one.
HandlersAdvance ==
    [][\A c \in Clients :
          pc[c] \in Busy /\ <<pc[c], job[c]>> # <<pc'[c], job'[c]>> =>
             StepsLeft(pc'[c], job'[c]) < StepsLeft(pc[c], job[c])]_vars
=============================================================================
