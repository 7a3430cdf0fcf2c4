--------------------------- MODULE MachineRental ---------------------------
(***************************************************************************)
(* The machines of the rooms and the windows that operate on them: the     *)
(* machine page of ComputersManager, RentMachineWindow,                    *)
(* ModifyMachineWindow, AddMachineWinodw, and the SqlService methods they  *)
(* call.  Every client is one process with one connection; its windows are *)
(* application modal, so a client does one thing at a time, but any number *)
(* of clients share the database and no SQL statement locks anything for   *)
(* the next one.  One action is one user gesture or one SQL statement.     *)
(***************************************************************************)
EXTENDS Integers, FiniteSets

CONSTANTS
    Clients,      \* running copies of the program
    Rooms,        \* rows of machine_room, one table of machines each
    Machines,     \* machine ids that the tables may ever hold
    RoomOf,       \* the room whose table holds a machine id
    Users,        \* ids with a row in user_info
    Stranger,     \* text of lineEdit_user_id that is no user's id
    NULL,         \* SQL NULL, and "none"
    Manages,      \* the rooms whose mr_manager is the account of a client
    Super,        \* the clients whose account has permission SADMIN
    SqlErrors,    \* may a statement raise sql::SQLException?
    ForeignKey,   \* does the schema tie mh_uid to user_info?
    MaxTime,      \* bound of the clock
    MaxTouches    \* bound of the hardware columns one edit sets (4 in the code)

ASSUME RentalAssumption ==
    /\ RoomOf \in [Machines -> Rooms]
    /\ Manages \in [Clients -> SUBSET Rooms]
    /\ Super \subseteq Clients
    /\ Stranger \notin Users
    /\ NULL \notin Users \cup Machines \cup Rooms \cup {Stranger} \cup 0 .. MaxTime
    /\ SqlErrors \in BOOLEAN
    /\ ForeignKey \in BOOLEAN
    /\ MaxTime \in Nat
    /\ MaxTouches \in Nat

VARIABLES
    exists,   \* the machines that have a row
    used,     \* the machines that ever had one: mh_id is never handed out twice
    row,      \* mh_status, mh_uid and mh_sdate of each row
    bills,    \* the rentals that EndRent has closed
    now,      \* the clock of the database server, NOW()
    pc,       \* where each client is: a page, or between two statements
    room,     \* current_machine_room
    view,     \* the ids in tableView_machines
    canEdit,  \* are the add, manage and delete buttons enabled?
    mach,     \* machine_id_ of the open window
    seen,     \* the status its constructor read (-1: none)
    who,      \* the user id being checked in, or shown on PAGE_ON_USE
    todo      \* the statements ModifyMachineInfo has not run yet

dbVars     == <<exists, used, row, bills>>
windowVars == <<mach, seen, who, todo>>
pageVars   == <<room, view, canEdit>>
vars       == <<dbVars, now, pc, pageVars, windowVars>>

Disabled == 0
Idle     == 1
InUse    == 2

Ids   == Users \cup {Stranger}
Time  == 0 .. MaxTime
Fresh == [status |-> Idle, uid |-> NULL, sdate |-> NULL]

\* The client is inside a handler, between two SQL statements.
Busy  == {"rentLoad", "rentInfo", "rentUpdate", "editLoad", "editRun"}
\* A modal window, or the message box that ends a handler, waits for the user.
Modal == {"pageFree", "pageUse", "pagePay", "edit", "add", "done"}

-----------------------------------------------------------------------------
(* Helpers. *)

Goto(c, p) == pc' = [pc EXCEPT ![c] = p]

\* The rows a refresh of the machine table shows for room r.
RowsOf(r) == {m \in exists : RoomOf[m] = r}

\* The BEFORE UPDATE trigger CreateRoom installs on every table of machines.
TriggerKeepsStatus(new) ==
    IF new.uid = NULL THEN new ELSE [new EXCEPT !.sdate = now]
TriggerKeepsDate(new) ==
    IF new.uid = NULL \/ new.sdate # NULL THEN [new EXCEPT !.status = IF new.uid = NULL THEN @ ELSE InUse]
    ELSE [new EXCEPT !.status = InUse, !.sdate = now]
Trigger(new) ==
    IF new.uid = NULL THEN new
    ELSE [new EXCEPT !.status = InUse, !.sdate = now]

\* update <room> set ... where mh_id = m: matching no row is not an error.
Update(m, new) ==
    /\ row' = [row EXCEPT ![m] = IF m \in exists THEN Trigger(new) ELSE @]
    /\ UNCHANGED <<exists, used, bills>>

\* CheckSomeOneIsRent: does some row of some room hold this user?
SomeOneIsRent(u) == \E m \in exists : row[m].uid = u

NoWindow(c) ==
    /\ mach' = [mach EXCEPT ![c] = NULL]
    /\ seen' = [seen EXCEPT ![c] = -1]
    /\ who'  = [who  EXCEPT ![c] = NULL]
    /\ todo' = [todo EXCEPT ![c] = [hw |-> 0, st |-> -1]]

\* The client is over: nothing it holds reaches the database any more.
Over(c) ==
    /\ Goto(c, "crashed")
    /\ room'    = [room EXCEPT ![c] = NULL]
    /\ view'    = [view EXCEPT ![c] = {}]
    /\ canEdit' = [canEdit EXCEPT ![c] = FALSE]
    /\ NoWindow(c)

\* An exception no handler catches, or an index past the end of an empty
\* vector, ends the process.
Crash(c) == Over(c) /\ UNCHANGED <<dbVars, now>>

\* A statement is carried out, but its answer is lost with the connection.  The
\* code connects once, at login, so every later statement of the client fails.
AnswerLost(c) == SqlErrors /\ Over(c)

\* A new process, and a new login, after a crash.
Restart(c) ==
    /\ pc[c] = "crashed"
    /\ Goto(c, "main")
    /\ UNCHANGED <<dbVars, now, pageVars, windowVars>>

-----------------------------------------------------------------------------
(* The main window. *)

\* Double click on a room: its machines are listed and the buttons follow from
\* the manager of the room.  A failed GetMachines shows none, a failed
\* GetRoomManager reads as "no manager".
OpenRoomForAll(c, r) ==
    /\ pc[c] = "main"
    /\ room' = [room EXCEPT ![c] = r]
    /\ view' = [view EXCEPT ![c] = RowsOf(r)]
    /\ canEdit' = [canEdit EXCEPT ![c] = TRUE]
    /\ UNCHANGED <<dbVars, now, pc, windowVars>>
OpenRoom(c, r) ==
    /\ pc[c] = "main"
    /\ room' = [room EXCEPT ![c] = r]
    /\ \E shown \in {RowsOf(r)} \cup (IF SqlErrors THEN {{}} ELSE {}) :
          view' = [view EXCEPT ![c] = shown]
    /\ \E known \in {TRUE} \cup (IF SqlErrors THEN {FALSE} ELSE {}) :
          canEdit' = [canEdit EXCEPT ![c] = (known /\ r \in Manages[c]) \/ c \in Super]
    /\ UNCHANGED <<dbVars, now, pc, windowVars>>

\* The signal that ends a modal window (or a deletion): the window is deleted
\* and the machine table refreshed.
FinishKeepsView(c) ==
    /\ pc[c] \in Modal
    /\ Goto(c, "main")
    /\ NoWindow(c)
    /\ UNCHANGED <<dbVars, now, pageVars>>
Finish(c) ==
    /\ pc[c] \in Modal
    /\ Goto(c, "main")
    /\ \E shown \in {RowsOf(room[c])} \cup (IF SqlErrors THEN {{}} ELSE {}) :
          view' = [view EXCEPT ![c] = shown]
    /\ NoWindow(c)
    /\ UNCHANGED <<dbVars, now, room, canEdit>>

\* The delete button asks nothing of the row, not even whether it is in use.
\* A failed DELETE changes nothing, unless the answer is lost, and refreshes nothing.
DeleteMachine(c, m) ==
    /\ pc[c] = "main" /\ canEdit[c] /\ m \in view[c]
    /\ exists' = exists \ {m}
    /\ row' = [row EXCEPT ![m] = Fresh]
    /\ (Goto(c, "done") /\ UNCHANGED <<pageVars, windowVars>>) \/ AnswerLost(c)
    /\ UNCHANGED <<used, bills, now>>

-----------------------------------------------------------------------------
(* AddMachineWinodw. *)

OpenAddWindow(c) ==
    /\ pc[c] = "main" /\ canEdit[c]
    /\ Goto(c, "add")
    /\ UNCHANGED <<dbVars, now, pageVars, windowVars>>

\* mh_id is auto_increment, mh_status has its default.  A failed INSERT changes
\* nothing, unless the answer is lost, and leaves the window open.
AddMachine(c, m) ==
    /\ pc[c] = "add"
    /\ m \notin used /\ RoomOf[m] = room[c]
    /\ exists' = exists \cup {m}
    /\ used' = used \cup {m}
    /\ row' = [row EXCEPT ![m] = Fresh]
    /\ (Goto(c, "done") /\ UNCHANGED <<pageVars, windowVars>>) \/ AnswerLost(c)
    /\ UNCHANGED <<bills, now>>

-----------------------------------------------------------------------------
(* RentMachineWindow. *)

\* Double click on a machine.  The guard is as written: manager of the room
\* and SADMIN.  A failed GetRoomManager returns without opening anything.
OpenRentWindow(c, m) ==
    /\ pc[c] = "main" /\ m \in view[c]
    /\ room[c] \in Manages[c] /\ c \in Super
    /\ mach' = [mach EXCEPT ![c] = m]
    /\ Goto(c, "rentLoad")
    /\ UNCHANGED <<dbVars, now, pageVars, seen, who, todo>>

\* The page the constructor selects from the status it read.  For a disabled
\* machine it only emits signal_rent_finish, which nothing is connected to
\* yet, so the window stays on the first page of the form: PAGE_ON_USE.
PageAlwaysFree(s) ==
    CASE s = Disabled -> "pageUse" [] s = Idle -> "pageFree" [] s = InUse -> "pageFree"
PageForDisabledFree(s) ==
    CASE s = Disabled -> "pageFree" [] s = Idle -> "pageFree" [] s = InUse -> "rentInfo"
PageWithoutInfo(s) ==
    CASE s = Disabled -> "pageUse" [] s = Idle -> "pageFree" [] s = InUse -> "pageUse"
PageFor(s) ==
    CASE s = Disabled -> "pageUse" [] s = Idle -> "pageFree" [] s = InUse -> "rentInfo"

\* GetMachineUser.  No row, or a failed query, is an empty vector, whose
\* element 0 is read all the same.
LoadMachineUser(c) ==
    /\ pc[c] = "rentLoad"
    /\ \/ /\ mach[c] \in exists
          /\ seen' = [seen EXCEPT ![c] = row[mach[c]].status]
          /\ Goto(c, PageFor(row[mach[c]].status))
          /\ UNCHANGED <<dbVars, now, pageVars, mach, who, todo>>
       \/ /\ mach[c] \notin exists \/ SqlErrors
          /\ Crash(c)

\* GetRentInfo.  A row without a start date makes MysqlDateTimeToTimeT throw a
\* std::runtime_error, which no handler catches.
LoadRentInfo(c) ==
    /\ pc[c] = "rentInfo"
    /\ \/ /\ mach[c] \in exists /\ row[mach[c]].sdate # NULL
          /\ who' = [who EXCEPT ![c] = row[mach[c]].uid]
          /\ Goto(c, "pageUse")
          /\ UNCHANGED <<dbVars, now, pageVars, mach, seen, todo>>
       \/ /\ mach[c] \notin exists \/ row[mach[c]].sdate = NULL \/ SqlErrors
          /\ Crash(c)

\* The rent button: find_user only shows a message when the id is no user's,
\* and the check lets -1, its "unknown error", pass like 0.
ClickRentUnchecked(c, u) ==
    /\ pc[c] = "pageFree"
    /\ who' = [who EXCEPT ![c] = u]
    /\ Goto(c, "rentUpdate")
    /\ UNCHANGED <<dbVars, now, pageVars, mach, seen, todo>>
ClickRent(c, u) ==
    /\ pc[c] = "pageFree"
    /\ ~SomeOneIsRent(u) \/ SqlErrors
    /\ who' = [who EXCEPT ![c] = u]
    /\ Goto(c, "rentUpdate")
    /\ UNCHANGED <<dbVars, now, pageVars, mach, seen, todo>>

\* RentMachine: the UPDATE names the machine only, not the state it was seen in.
RentMachine(c) ==
    LET refused == ForeignKey /\ mach[c] \in exists /\ who[c] \notin Users IN
    /\ pc[c] = "rentUpdate"
    /\ now' = now
    /\ \/ /\ ~refused
          /\ Update(mach[c], [row[mach[c]] EXCEPT !.uid = who[c]])
          /\ (Goto(c, "done") /\ UNCHANGED <<pageVars, windowVars>>) \/ AnswerLost(c)
       \/ /\ refused \/ SqlErrors
          /\ Goto(c, "pageFree")
          /\ who' = [who EXCEPT ![c] = NULL]
          /\ UNCHANGED <<dbVars, pageVars, mach, seen, todo>>

\* The stored procedure EndRent, which is not in the repository.  All the code
\* shows is one CALL and a fee: that it runs as one step, and bills and frees a
\* row in use, is assumed.  It may or may not clear the start date, and a row
\* nobody uses it may bill once more as long as the date is there.
EndRentProcedure(m) ==
    LET bill == [machine |-> m, from |-> row[m].sdate, to |-> now]
        left == {[row EXCEPT ![m] = [status |-> Idle, uid |-> NULL, sdate |-> d]] :
                    d \in {NULL, row[m].sdate}} IN
    \/ /\ m \in exists /\ row[m].uid # NULL
       /\ bills' = bills \cup {bill} /\ row' \in left
    \/ /\ m \in exists /\ row[m].uid = NULL
       /\ bills' = bills \/ (row[m].sdate # NULL /\ bills' = bills \cup {bill})
       /\ row' \in left \cup {row}
    \/ /\ m \notin exists
       /\ UNCHANGED <<bills, row>>

\* The end button.  The fee is fetched by a second statement, so an error may
\* come after the rental is closed; closing nothing may or may not be one.
EndRent(c) ==
    /\ pc[c] = "pageUse"
    /\ UNCHANGED <<exists, used, now, pageVars, windowVars>>
    /\ \/ /\ EndRentProcedure(mach[c])
          /\ \/ Goto(c, "pagePay")
             \/ /\ SqlErrors \/ mach[c] \notin exists \/ row[mach[c]].uid = NULL
                /\ UNCHANGED pc
       \/ SqlErrors /\ UNCHANGED <<row, bills, pc>>

-----------------------------------------------------------------------------
(* ModifyMachineWindow. *)

OpenEditWindow(c, m) ==
    /\ pc[c] = "main" /\ canEdit[c] /\ m \in view[c]
    /\ mach' = [mach EXCEPT ![c] = m]
    /\ Goto(c, "editLoad")
    /\ UNCHANGED <<dbVars, now, pageVars, seen, who, todo>>

\* The constructor: no row reads as status 0, an error as -1.  After an error
\* the finish signal is emitted before anything is connected, and the window
\* opens regardless.
LoadMachineStatus(c) ==
    /\ pc[c] = "editLoad"
    /\ \E s \in {IF mach[c] \in exists THEN row[mach[c]].status ELSE Disabled}
                  \cup (IF SqlErrors THEN {-1} ELSE {}) :
          seen' = [seen EXCEPT ![c] = s]
    /\ Goto(c, "edit")
    /\ UNCHANGED <<dbVars, now, pageVars, mach, who, todo>>

\* The confirm button with hw hardware columns filled in and the status box on
\* box; an unchanged box is no new status, nor is any box when row_status was
\* never set, after an error or on a machine in use.
ConfirmEdit(c, hw, box) ==
    LET st == IF seen[c] \in {Disabled, Idle} \ {box} THEN box ELSE -1 IN
    /\ pc[c] = "edit"
    /\ hw > 0 \/ st # -1
    /\ todo' = [todo EXCEPT ![c] = [hw |-> hw, st |-> st]]
    /\ Goto(c, "editRun")
    /\ UNCHANGED <<dbVars, now, pageVars, mach, seen, who>>

\* What is left to run after the next statement: the status comes last.
RestBelowEmpty(t) == IF t.hw >= 0 THEN [t EXCEPT !.hw = @ - 1] ELSE [t EXCEPT !.st = -1]
RestStartsOver(t) == IF t.hw > 0 THEN [t EXCEPT !.hw = @ - 1] ELSE [t EXCEPT !.hw = MaxTouches]
Rest(t) == IF t.hw > 0 THEN [t EXCEPT !.hw = @ - 1] ELSE [t EXCEPT !.st = -1]

\* One statement of ModifyMachineInfo; each commits by itself, and an error
\* keeps what was done and leaves the window open.
EditStatement(c) ==
    LET t == todo[c]
        m == mach[c]
        rest == Rest(t) IN
    /\ pc[c] = "editRun"
    /\ now' = now
    /\ \/ /\ Update(m, IF t.hw > 0 THEN row[m] ELSE [row[m] EXCEPT !.status = t.st])
          /\ \/ /\ todo' = [todo EXCEPT ![c] = rest]
                /\ Goto(c, IF rest.hw = 0 /\ rest.st = -1 THEN "done" ELSE "editRun")
                /\ UNCHANGED <<pageVars, mach, seen, who>>
             \/ AnswerLost(c)
       \/ /\ SqlErrors
          /\ todo' = [todo EXCEPT ![c] = [hw |-> 0, st |-> -1]]
          /\ Goto(c, "edit")
          /\ UNCHANGED <<dbVars, pageVars, mach, seen, who>>

-----------------------------------------------------------------------------
(* The specification. *)

Tick ==
    /\ now < MaxTime
    /\ now' = now + 1
    /\ UNCHANGED <<dbVars, pc, pageVars, windowVars>>

\* The rooms have been created and some machines are in them; nobody has
\* opened a room.
Init ==
    /\ exists \in SUBSET Machines
    /\ used = exists
    /\ row = [m \in Machines |-> Fresh]
    /\ bills = {}
    /\ now = 0
    /\ pc = [c \in Clients |-> "main"]
    /\ room = [c \in Clients |-> NULL]
    /\ view = [c \in Clients |-> {}]
    /\ canEdit = [c \in Clients |-> FALSE]
    /\ mach = [c \in Clients |-> NULL]
    /\ seen = [c \in Clients |-> -1]
    /\ who = [c \in Clients |-> NULL]
    /\ todo = [c \in Clients |-> [hw |-> 0, st |-> -1]]

\* The rest of a handler the user has started: it runs by itself.
Handler(c) ==
    \/ LoadMachineUser(c) \/ LoadRentInfo(c) \/ RentMachine(c)
    \/ LoadMachineStatus(c) \/ EditStatement(c)

Gesture(c) ==
    \/ Restart(c)
    \/ \E r \in Rooms : OpenRoom(c, r)
    \/ Finish(c)
    \/ OpenAddWindow(c)
    \/ EndRent(c)
    \/ \E m \in Machines :
          DeleteMachine(c, m) \/ AddMachine(c, m) \/ OpenRentWindow(c, m) \/ OpenEditWindow(c, m)
    \/ \E u \in Ids : ClickRent(c, u)
    \/ \E hw \in 0 .. MaxTouches, box \in {Disabled, Idle} : ConfirmEdit(c, hw, box)

Next == Tick \/ \E c \in Clients : Handler(c) \/ Gesture(c)

Spec == Init /\ [][Next]_vars

\* A statement that was sent returns or throws, and the handler goes on: that
\* is all the fairness there is.  Users may walk away at any page.
FairSpec == Spec /\ \A c \in Clients : WF_vars(Handler(c))

-----------------------------------------------------------------------------
(* What holds whatever the clients do, however many they are. *)

Rows == [status : {Disabled, Idle, InUse}, uid : Ids \cup {NULL}, sdate : Time \cup {NULL}]

DatabaseTypes ==
    /\ exists \subseteq used /\ used \subseteq Machines
    /\ row \in [Machines -> Rows]
    /\ bills \subseteq [machine : Machines, from : Time, to : Time]
    /\ now \in Time

ClientTypes ==
    /\ pc \in [Clients -> {"main", "crashed"} \cup Busy \cup Modal]
    /\ room \in [Clients -> Rooms \cup {NULL}]
    /\ view \in [Clients -> SUBSET Machines]
    /\ canEdit \in [Clients -> BOOLEAN]
    /\ mach \in [Clients -> Machines \cup {NULL}]
    /\ seen \in [Clients -> {-1, Disabled, Idle, InUse}]
    /\ who \in [Clients -> Ids \cup {NULL}]
    /\ todo \in [Clients -> [hw : 0 .. MaxTouches, st : {-1, Disabled, Idle}]]

\* The types of the variables; a list of statements never runs below empty.
TypeOK == DatabaseTypes /\ ClientTypes

\* The three columns that say whether a machine is in use agree: a row has a
\* user exactly when its status is "in use", and then it has a start date.  An
\* edit window opened on an idle machine may write its status after the machine
\* was rented, and a rent window may write its user after the machine was
\* disabled: only the trigger of CreateRoom keeps the columns together.
InUseConsistent ==
    \A m \in Machines :
        /\ row[m].status = InUse <=> row[m].uid # NULL
        /\ row[m].uid # NULL => row[m].sdate \in 0 .. now

\* Nobody pays for the hours of those who sat there before him: the old start
\* date may still be in the row when the next rental begins (EndRent need not
\* clear it, and the code of RentMachine does not write it), or somebody may be
\* put on a machine in use by a stale window, and yet the new rental starts now.
\* Nor is a rental ever moved back in time while it runs.
NeverBackdated ==
    [][\A m \in Machines : row'[m].uid # NULL =>
          IF row'[m].uid = row[m].uid THEN row[m].sdate <= row'[m].sdate
                                      ELSE row'[m].sdate = now]_vars

\* A handler that waits for the database comes back to a page, or the process
\* ends: ModifyMachineInfo runs its list of statements to the end.
HandlersReturn == \A c \in Clients : pc[c] \in Busy ~> pc[c] \notin Busy

\* How many statements a handler has left at most.
StepsLeft(p, t) ==
    CASE p = "rentLoad" -> 2
      [] p \in {"rentInfo", "rentUpdate", "editLoad"} -> 1
      [] p = "editRun"  -> t.hw + (IF t.st = -1 THEN 0 ELSE 1)
      [] OTHER          -> 0

\* What makes them return: each statement leaves fewer to run, whatever other
\* clients do to the row meanwhile, and no list is sent to the database empty.
HandlersAdvance ==
    [][\A c \in Clients :
          pc[c] \in Busy /\ <<pc[c], todo[c]>> # <<pc'[c], todo'[c]>> =>
             StepsLeft(pc'[c], todo'[c]) < StepsLeft(pc[c], todo[c])]_vars

-----------------------------------------------------------------------------
(* What the windows rely on, and what a second client takes away. *)

\* Nobody sits at two machines, which CheckSomeOneIsRent is there to ensure.
OneMachinePerUser ==
    \A m, n \in exists : row[m].uid # NULL /\ row[m].uid = row[n].uid => m = n

\* A machine is not handed over while somebody is on it: PAGE_NO_USE is the
\* page of a machine that is free.
NoTakeover ==
    [][\A m \in exists \cap exists' :
          row[m].uid # NULL => row'[m].uid \in {row[m].uid, NULL}]_vars

\* A machine that was disabled is not rented before it is enabled again.
NeverRentDisabled ==
    [][\A m \in exists : row[m].status = Disabled => row'[m].status # InUse]_vars

\* The end button closes no rental but the one its window shows.
EndsShownRental ==
    [][\A c \in Clients :
          pc[c] = "pageUse" /\ bills' # bills /\ pc'[c] # pc[c]
              => row[mach[c]].uid \in {who[c], NULL}]_vars

\* Whoever is told that he may start sits at the machine: RentMachine takes an
\* UPDATE that matched no row for a success, too, so the message is true only
\* if the machine is still there at that moment.
RentReportsTrue ==
    [][\A c \in Clients :
          pc[c] = "rentUpdate" /\ pc'[c] = "done"
              => mach[c] \in exists' /\ row'[mach[c]].uid = who[c]]_vars

\* Every rental that ends is billed, from the start that its row holds to the
\* moment it ends, by whichever window.  The only way to leave without a bill is that the machine is
\* deleted under its user.
RentalsEndBilled ==
    [][\A m \in exists \cap exists' :
          row[m].uid \notin {NULL, row'[m].uid}
              => [machine |-> m, from |-> row[m].sdate, to |-> now] \in bills']_vars

\* No vector is read past its end and no exception leaves a handler.
NoCrash == \A c \in Clients : pc[c] # "crashed"

\* The start date of a rental stays what it was when the rental began, so that
\* the fee is for the hours the machine was used.
StartDateKept ==
    [][\A m \in exists \cap exists' :
          row[m].uid # NULL /\ row'[m].uid = row[m].uid => row'[m].sdate = row[m].sdate]_vars

\* With a single client the windows and statements implement the rental desk.
Desk == INSTANCE RentalDesk WITH holder <- [m \in Machines |-> row[m].uid]
DeskSpec == Desk!Spec
=============================================================================
