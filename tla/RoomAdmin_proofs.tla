-------------------------- MODULE RoomAdmin_proofs --------------------------
(***************************************************************************)
(* What RoomAdmin guarantees for any number of clients, rooms and windows:  *)
(* the types; that only a statement that fails leaves the row of a room     *)
(* without its table or its trigger; that a handler comes nearer to its end *)
(* with every statement; and, while the clients keep apart, that machines   *)
(* are rented in tables with a trigger only.                                *)
(***************************************************************************)
EXTENDS RoomAdmin, TLAPS

\* What the statements of a handler rely on.
JobReady ==
    \A c \in Clients :
        /\ pc[c] \in Busy => job[c].room \in Rooms
        /\ pc[c] \in {"createTable", "createRecord", "createTrigger"} => job[c].manager \in Ids

TypeInv == TypeOK /\ JobReady

\* A creator's transaction keeps its table from being dropped.
TableHeld == \A c \in Clients : pc[c] \in {"createRecord", "createTrigger"} => job[c].room \in table

HeldInv == TypeInv /\ TableHeld

\* What the clients have, of their types.
ClientsTyped ==
    /\ pc \in [Clients -> {"main", "rent", "create", "done", "crashed"} \cup Busy]
    /\ job \in [Clients -> Jobs]
    /\ list \in [Clients -> [Rooms -> {NULL, Disabled, Enabled}]]
    /\ page \in [Clients -> Rooms \cup {NULL}]
    /\ win \in [Clients -> [Slots -> [room : Rooms, status : {Disabled, Enabled}] \cup {NULL}]]

\* The record, the table and the trigger of a room.  A foreign key that rejects the
\* manager of a new room leaves its table behind.
Whole(r) ==
    /\ record[r] # NULL => r \in table /\ r \in trigger
    /\ ~ForeignKey /\ r \in table => record[r] # NULL /\ r \in trigger

\* A creation or a deletion is under way.
Changing == Busy \ {"manage", "modify"}

\* The room a client creates or deletes, or rents a machine of.
At(c) == IF pc[c] \in Changing THEN job[c].room
         ELSE IF pc[c] = "rent" THEN page[c] ELSE NULL

\* No two clients are at the same room at the same time.
Separate == \A c, d \in Clients : c # d /\ At(c) # NULL => At(c) # At(d)

\* How far the room of a creation or a deletion has come.
Stage(c) ==
    LET r == job[c].room IN
    /\ pc[c] = "createTable" => Whole(r)
    /\ pc[c] \in {"createRecord", "createTrigger"} =>
          r \in table \ trigger /\ record[r] = NULL /\ inUse[r] = 0
    /\ pc[c] = "createCommitted" => r \in table \ trigger /\ record[r] # NULL /\ inUse[r] = 0
    /\ pc[c] = "dropTable" => r \in table /\ Whole(r) /\ inUse[r] = 0
    /\ pc[c] = "dropRecord" => r \notin table
    /\ pc[c] = "rent" => page[c] \in Rooms /\ record[page[c]] # NULL

\* The rooms nobody is creating or deleting.
RestWhole == \A r \in Rooms : (\A c \in Clients : pc[c] \in Changing => job[c].room # r) => Whole(r)

ApartInv == TypeInv /\ RestWhole /\ RentsAreDated /\ \A c \in Clients : Stage(c)

-----------------------------------------------------------------------------
(* Typing. *)

\* The list GetRoomList returns, and the refresh that shows it.
LEMMA RefreshTyped ==
    ASSUME TypeOK, NEW c \in Clients, Refresh(c)
    PROVE  /\ list' \in [Clients -> [Rooms -> {NULL, Disabled, Enabled}]]
           /\ page' \in [Clients -> Rooms \cup {NULL}]
<1>1. Listed \in [Rooms -> {NULL, Disabled, Enabled}]
  <2>1. \A r \in Rooms : record[r] # NULL => record[r].status \in {Disabled, Enabled}
    BY DEF TypeOK
  <2> QED BY <2>1 DEF Listed
<1>2. Empty \in [Rooms -> {NULL, Disabled, Enabled}]
  BY DEF Empty
<1> QED BY <1>1, <1>2 DEF Refresh, TypeOK

LEMMA NoJobTyped == NoJob \in Jobs
  BY DEF NoJob, Jobs

\* A process that ends keeps nothing.
LEMMA CrashClients ==
    ASSUME TypeInv, NEW c \in Clients, Crash(c)
    PROVE  ClientsTyped' /\ JobReady'
<1>1. ClientsTyped'
  BY NoJobTyped DEF TypeInv, TypeOK, ClientsTyped, Crash, Goto, Empty
<1>2. JobReady'
  BY DEF TypeInv, TypeOK, JobReady, Crash, Goto, Busy
<1> QED BY <1>1, <1>2

LEMMA CrashTyped ==
    ASSUME TypeInv, NEW c \in Clients, Crash(c), UNCHANGED dbVars
    PROVE  TypeInv'
  BY CrashClients DEF TypeInv, TypeOK, ClientsTyped, dbVars

\* A creation that is given up ends in its window, or with the process.
LEMMA GiveUpTyped ==
    ASSUME TypeInv, NEW c \in Clients, GiveUp(c)
    PROVE  ClientsTyped' /\ JobReady' /\ pc'[c] \in {"create", "crashed"}
<1>1. CASE Goto(c, "create") /\ job' = [job EXCEPT ![c] = NoJob] /\ UNCHANGED <<list, page, win>>
  <2>1. ClientsTyped'
    BY <1>1, NoJobTyped DEF TypeInv, TypeOK, ClientsTyped, Goto
  <2>2. JobReady' /\ pc'[c] = "create"
    BY <1>1 DEF TypeInv, TypeOK, JobReady, Goto, Busy
  <2> QED BY <2>1, <2>2
<1>2. CASE Crash(c)
  BY <1>2, CrashClients DEF Crash, Goto, TypeInv, TypeOK
<1> QED BY <1>1, <1>2 DEF GiveUp

\* The row of a new room.
LEMMA WithRowTyped ==
    ASSUME TypeInv, NEW c \in Clients, pc[c] \in {"createRecord", "createTrigger"},
           NEW rec \in WithRow(c)
    PROVE  /\ rec \in [Rooms -> [status : {Disabled, Enabled}, manager : Ids] \cup {NULL}]
           /\ rec[job[c].room] # NULL
           /\ \A q \in Rooms \ {job[c].room} : rec[q] = record[q]
<1>1. PICK st \in {Disabled, Enabled} :
         rec = [record EXCEPT ![job[c].room] = [status |-> st, manager |-> job[c].manager]]
  BY DEF WithRow
<1>2. job[c].room \in Rooms /\ job[c].manager \in Ids
  BY DEF TypeInv, JobReady, Busy
<1> DEFINE new == [status |-> st, manager |-> job[c].manager]
<1>3. new \in [status : {Disabled, Enabled}, manager : Ids]
  BY <1>2
<1>4. new # NULL
  BY <1>3, RoomAssumption DEF Ids, Disabled, Enabled
<1>5. rec = [record EXCEPT ![job[c].room] = new]
  BY <1>1
<1> HIDE DEF new
<1> QED BY <1>2, <1>3, <1>4, <1>5 DEF TypeInv, TypeOK

LEMMA InitTypeInv == Init => TypeInv
<1> SUFFICES ASSUME Init PROVE TypeInv
  OBVIOUS
<1>1. TypeOK
  BY NoJobTyped, RoomAssumption DEF Init, TypeOK, Empty
<1>2. JobReady
  BY DEF Init, JobReady, Busy
<1> QED BY <1>1, <1>2 DEF TypeInv

LEMMA GestureTyped ==
    ASSUME TypeInv, NEW c \in Clients, Gesture(c)
    PROVE  TypeInv'
<1> USE DEF TypeInv
<1>1. CASE Restart(c)
  BY <1>1 DEF Restart, TypeOK, JobReady, Goto, Busy, dbVars
<1>2. CASE ShowRooms(c)
  BY <1>2, RefreshTyped DEF ShowRooms, TypeOK, JobReady, dbVars
<1>3. CASE OpenRentWindow(c) \/ CloseRentWindow(c)
  BY <1>3 DEF OpenRentWindow, CloseRentWindow, TypeOK, JobReady, Goto, Busy, dbVars
<1>4. CASE UseMachine(c)
  <2>1. inUse' \in [Rooms -> 0 .. MaxUse]
    <3>1. page[c] \in Rooms /\ inUse[page[c]] \in 0 .. MaxUse
      BY <1>4 DEF UseMachine, TypeOK
    <3>2. \/ inUse[page[c]] < MaxUse /\ inUse' = [inUse EXCEPT ![page[c]] = @ + 1]
          \/ inUse[page[c]] > 0 /\ inUse' = [inUse EXCEPT ![page[c]] = @ - 1]
      BY <1>4 DEF UseMachine
    <3>3. /\ inUse[page[c]] < MaxUse => inUse[page[c]] + 1 \in 0 .. MaxUse
          /\ inUse[page[c]] > 0 => inUse[page[c]] - 1 \in 0 .. MaxUse
      BY <3>1, RoomAssumption
    <3> QED BY <3>1, <3>2, <3>3 DEF TypeOK
  <2> QED BY <1>4, <2>1 DEF UseMachine, TypeOK, JobReady, Goto, Busy
<1>5. CASE OpenCreateWindow(c)
  BY <1>5 DEF OpenCreateWindow, TypeOK, JobReady, Goto, Busy, dbVars
<1>6. CASE Finish(c)
  <2>1. /\ list' \in [Clients -> [Rooms -> {NULL, Disabled, Enabled}]]
        /\ page' \in [Clients -> Rooms \cup {NULL}]
    BY <1>6, RefreshTyped DEF Finish
  <2>2. job' \in [Clients -> Jobs]
    BY <1>6, NoJobTyped DEF Finish, TypeOK
  <2>4. win' \in [Clients -> [Slots -> [room : Rooms, status : {Disabled, Enabled}] \cup {NULL}]]
    <3>1. win[c] \in [Slots -> [room : Rooms, status : {Disabled, Enabled}] \cup {NULL}]
      BY DEF TypeOK
    <3>2. [s \in Slots |-> IF s = job[c].slot THEN NULL ELSE win[c][s]]
              \in [Slots -> [room : Rooms, status : {Disabled, Enabled}] \cup {NULL}]
      BY <3>1
    <3>3. win' = [win EXCEPT ![c] = [s \in Slots |-> IF s = job[c].slot THEN NULL ELSE win[c][s]]]
      BY <1>6 DEF Finish, TypeOK
    <3> QED BY <3>2, <3>3 DEF TypeOK
  <2>5. TypeOK'
    BY <1>6, <2>1, <2>2, <2>4 DEF Finish, TypeOK, Goto, dbVars
  <2>3. JobReady'
    BY <1>6 DEF Finish, TypeOK, JobReady, Goto, Busy
  <2> QED BY <2>5, <2>3
<1>7. ASSUME NEW r \in Rooms, OpenRoom(c, r)
      PROVE  TypeInv'
  BY <1>7 DEF OpenRoom, TypeOK, JobReady, dbVars
<1>8. ASSUME NEW r \in Rooms, ClickDelete(c, r)
      PROVE  TypeInv'
  <2>1. [NoJob EXCEPT !.room = r] \in Jobs
    BY NoJobTyped DEF NoJob, Jobs
  <2> QED BY <1>8, <2>1 DEF ClickDelete, TypeOK, JobReady, Goto, Busy, dbVars, NoJob
<1>9. ASSUME NEW r \in Rooms, ClickManage(c, r)
      PROVE  TypeInv'
  <2>1. CASE Crash(c)
    BY <1>9, <2>1, CrashTyped DEF ClickManage
  <2>2. CASE /\ record[r] # NULL
             /\ list' = [list EXCEPT ![c][r] = record[r].status]
             /\ job' = [job EXCEPT ![c] = [NoJob EXCEPT !.room = r]]
             /\ Goto(c, "manage")
             /\ UNCHANGED <<page, win>>
    <3>1. [NoJob EXCEPT !.room = r] \in Jobs
      BY NoJobTyped DEF NoJob, Jobs
    <3>2. record[r].status \in {Disabled, Enabled}
      BY <2>2 DEF TypeOK
    <3>3. list' \in [Clients -> [Rooms -> {NULL, Disabled, Enabled}]]
      BY <2>2, <3>2 DEF TypeOK
    <3> QED BY <1>9, <2>2, <3>1, <3>3
            DEF ClickManage, TypeOK, JobReady, Goto, Busy, dbVars, NoJob
  <2> QED BY <1>9, <2>1, <2>2 DEF ClickManage
<1>10. ASSUME NEW r \in Rooms, NEW u \in Ids, ConfirmCreate(c, r, u)
       PROVE  TypeInv'
  <2>1. CASE Crash(c)
    BY <1>10, <2>1, CrashTyped DEF ConfirmCreate
  <2>2. CASE ~Crash(c)
    <3> DEFINE j == [NoJob EXCEPT !.room = r, !.manager = u]
    <3>1. j \in Jobs /\ j.room = r /\ j.manager = u
      BY NoJobTyped DEF NoJob, Jobs
    <3>2. /\ job' = [job EXCEPT ![c] = j]
          /\ pc' = [pc EXCEPT ![c] = "createTable"]
          /\ UNCHANGED <<dbVars, list, page, win>>
      BY <1>10, <2>2 DEF ConfirmCreate, Goto
    <3> HIDE DEF j
    <3>3. TypeOK'
      BY <3>1, <3>2 DEF TypeOK, Busy, dbVars
    <3>4. JobReady'
      BY <3>1, <3>2 DEF TypeOK, JobReady
    <3> QED BY <3>3, <3>4
  <2> QED BY <2>1, <2>2
<1>11. ASSUME NEW s \in Slots, CloseModifyWindow(c, s)
       PROVE  TypeInv'
  BY <1>11, RefreshTyped DEF CloseModifyWindow, TypeOK, JobReady, dbVars
<1>12. ASSUME NEW s \in Slots, NEW box \in {Disabled, Enabled}, NEW u \in Ids \cup {NULL},
              NEW fee \in BOOLEAN, ConfirmModify(c, s, box, u, fee)
       PROVE  TypeInv'
  <2> DEFINE st == IF box # win[c][s].status THEN box ELSE -1
             j == [room |-> win[c][s].room, manager |-> u, status |-> st,
                   fee |-> fee, slot |-> s]
  <2>1. win[c][s].room \in Rooms
    BY <1>12 DEF ConfirmModify, TypeOK
  <2>2. j \in Jobs /\ j.room \in Rooms
    BY <2>1 DEF Jobs
  <2>3. /\ pc' = [pc EXCEPT ![c] = "modify"]
        /\ job' = [job EXCEPT ![c] = j]
        /\ UNCHANGED <<dbVars, list, page, win>>
    BY <1>12 DEF ConfirmModify, Goto
  <2> HIDE DEF j
  <2> QED BY <2>2, <2>3 DEF TypeOK, JobReady, Busy, dbVars
<1>13. ASSUME NEW r \in Rooms, ClickSum(c, r)
       PROVE  TypeInv'
  BY <1>13, CrashTyped DEF ClickSum
<1> QED BY <1>1, <1>2, <1>3, <1>4, <1>5, <1>6, <1>7, <1>8, <1>9, <1>10, <1>11, <1>12, <1>13
        DEF Gesture

LEMMA HandlerTyped ==
    ASSUME TypeInv, NEW c \in Clients, Handler(c)
    PROVE  TypeInv'
<1> USE DEF TypeInv
<1>a. /\ pc[c] \in Busy => job[c].room \in Rooms
      /\ pc[c] \in {"createTable", "createRecord", "createTrigger"} => job[c].manager \in Ids
      /\ job[c] \in Jobs
  BY DEF JobReady, TypeOK
<1>b. ASSUME Goto(c, "main"), job' = [job EXCEPT ![c] = NoJob],
             UNCHANGED <<list, page, win>>
      PROVE  /\ pc' \in [Clients -> {"main", "rent", "create", "done", "crashed"} \cup Busy]
             /\ job' \in [Clients -> Jobs]
             /\ JobReady'
  BY <1>b, NoJobTyped DEF Goto, TypeOK, JobReady, Busy
<1>c. ASSUME NEW p \in Busy \cup {"done"}, Goto(c, p), UNCHANGED <<job, list, page, win>>,
             pc[c] \in Busy,
             p = "createTable" => FALSE,
             p \in {"createRecord", "createTrigger"} => job[c].manager \in Ids
      PROVE  /\ pc' \in [Clients -> {"main", "rent", "create", "done", "crashed"} \cup Busy]
             /\ JobReady'
  BY <1>c, <1>a DEF Goto, TypeOK, JobReady, Busy
<1>1. CASE CreateTable(c)
  <2>1. table' \subseteq Rooms /\ table \subseteq table'
    BY <1>1, <1>a DEF CreateTable, TypeOK, Busy
  <2>2. CASE GiveUp(c)
    BY <1>1, <2>1, <2>2, GiveUpTyped DEF CreateTable, TypeOK, ClientsTyped
  <2>3. CASE Goto(c, "createRecord") /\ UNCHANGED <<job, list, page, win>>
    BY <1>1, <2>1, <2>3, <1>a, <1>c DEF CreateTable, TypeOK, Busy
  <2> QED BY <1>1, <2>2, <2>3 DEF CreateTable
<1>2. CASE CreateRecord(c)
  <2>1. CASE GiveUp(c) /\ record' \in {record} \cup WithRow(c)
    BY <1>2, <2>1, GiveUpTyped, WithRowTyped DEF CreateRecord, TypeOK, ClientsTyped
  <2>2. CASE Goto(c, "createTrigger") /\ UNCHANGED <<record, job, list, page, win>>
    BY <1>2, <2>2, <1>a, <1>c DEF CreateRecord, TypeOK, Busy
  <2> QED BY <1>2, <2>1, <2>2 DEF CreateRecord
<1>3. CASE CommitRecord(c)
  <2>1. CASE GiveUp(c) /\ record' \in {record} \cup WithRow(c)
    BY <1>3, <2>1, GiveUpTyped, WithRowTyped DEF CommitRecord, TypeOK, ClientsTyped
  <2>2. CASE /\ record' \in WithRow(c)
             /\ Goto(c, "createCommitted")
             /\ UNCHANGED <<job, list, page, win>>
    BY <1>3, <2>2, <1>c, WithRowTyped DEF CommitRecord, TypeOK, Busy
  <2> QED BY <1>3, <2>1, <2>2 DEF CommitRecord
<1>4. CASE CreateTrigger(c)
  <2>1. trigger' \subseteq table' /\ table' \subseteq Rooms
    BY <1>4, <1>a DEF CreateTrigger, TypeOK
  <2>2. CASE GiveUp(c)
    BY <1>4, <2>1, <2>2, GiveUpTyped DEF CreateTrigger, TypeOK, ClientsTyped
  <2>4. CASE Goto(c, "done") /\ UNCHANGED <<job, list, page, win>>
    BY <1>4, <2>1, <2>4, <1>c DEF CreateTrigger, TypeOK, Busy
  <2> QED BY <1>4, <2>2, <2>4 DEF CreateTrigger
<1>5. CASE DropTable(c)
  <2>0. 0 \in 0 .. MaxUse
    BY RoomAssumption
  <2>1. /\ trigger' \subseteq table' /\ table' \subseteq Rooms
        /\ inUse' \in [Rooms -> 0 .. MaxUse]
    BY <1>5, <2>0 DEF DropTable, TypeOK
  <2>2. CASE ReturnMain(c)
    BY <1>5, <2>1, <2>2, <1>b DEF ReturnMain, DropTable, TypeOK
  <2>3. CASE Goto(c, "dropRecord") /\ UNCHANGED <<job, list, page, win>>
    BY <1>5, <2>1, <2>3, <1>c DEF DropTable, TypeOK, Busy
  <2> QED BY <1>5, <2>2, <2>3 DEF DropTable
<1>6. CASE DropRecord(c)
  <2>1. record' \in [Rooms -> [status : {Disabled, Enabled}, manager : Ids] \cup {NULL}]
    BY <1>6 DEF DropRecord, TypeOK
  <2>2. CASE ReturnMain(c)
    BY <1>6, <2>1, <2>2, <1>b DEF ReturnMain, DropRecord, TypeOK
  <2>3. CASE Goto(c, "done") /\ UNCHANGED <<job, list, page, win>>
    BY <1>6, <2>1, <2>3, <1>c DEF DropRecord, TypeOK, Busy
  <2> QED BY <1>6, <2>2, <2>3 DEF DropRecord
<1>7. CASE ModifyStatement(c)
  <2> DEFINE j == job[c]
             rest == Rest(j)
             new == IF record[j.room] = NULL THEN NULL
                    ELSE IF j.status # -1 THEN [record[j.room] EXCEPT !.status = j.status]
                    ELSE IF j.manager # NULL THEN [record[j.room] EXCEPT !.manager = j.manager]
                    ELSE record[j.room]
  <2>1. j.room \in Rooms /\ rest \in Jobs /\ rest.room = j.room
    BY <1>7, <1>a DEF ModifyStatement, Busy, Rest, Jobs
  <2>2. new \in [status : {Disabled, Enabled}, manager : Ids] \cup {NULL}
    BY <2>1, <1>a DEF TypeOK, Jobs
  <2>3. CASE ReturnMain(c) /\ UNCHANGED record
    BY <1>7, <2>3, <1>b DEF ReturnMain, ModifyStatement, TypeOK
  <2>4. CASE ~(ReturnMain(c) /\ UNCHANGED record)
    <3>1. /\ record' = [record EXCEPT ![j.room] = new]
          /\ job' = [job EXCEPT ![c] = rest]
          /\ Goto(c, "done") \/ Goto(c, "modify")
          /\ UNCHANGED <<table, trigger, inUse, list, page, win>>
      BY <1>7, <2>4, <2>1 DEF ModifyStatement, TypeOK
    <3> HIDE DEF new, rest
    <3>2. TypeOK'
      BY <2>1, <2>2, <3>1 DEF TypeOK, Goto, Busy
    <3>3. JobReady'
      BY <2>1, <3>1 DEF TypeOK, JobReady, Goto, Busy
    <3> QED BY <3>2, <3>3
  <2> QED BY <2>3, <2>4
<1>8. ASSUME NEW s \in Slots, OpenModifyWindow(c, s)
      PROVE  TypeInv'
  <2>1. CASE Crash(c)
    BY <1>8, <2>1, CrashTyped DEF OpenModifyWindow
  <2>2. CASE ~Crash(c)
    <3> DEFINE w == [room |-> job[c].room, status |-> record[job[c].room].status]
    <3>1. w \in [room : Rooms, status : {Disabled, Enabled}]
      BY <1>8, <2>2, <1>a DEF OpenModifyWindow, TypeOK, Busy
    <3>2. /\ win' = [win EXCEPT ![c][s] = w]
          /\ job' = [job EXCEPT ![c] = NoJob]
          /\ Goto(c, "main")
          /\ UNCHANGED <<dbVars, list, page>>
      BY <1>8, <2>2 DEF OpenModifyWindow
    <3> HIDE DEF w
    <3>3. TypeOK'
      BY <3>1, <3>2, NoJobTyped DEF TypeOK, Goto, dbVars
    <3>4. JobReady'
      BY <3>2 DEF TypeOK, JobReady, Goto, Busy
    <3> QED BY <3>3, <3>4
  <2> QED BY <2>1, <2>2
<1> QED BY <1>1, <1>2, <1>3, <1>4, <1>5, <1>6, <1>7, <1>8 DEF Handler

\* A step of a client changes nothing another client has.
LEMMA OthersIdle ==
    ASSUME TypeInv, NEW c \in Clients, Handler(c) \/ Gesture(c)
    PROVE  \A d \in Clients \ {c} :
              /\ pc'[d] = pc[d] /\ job'[d] = job[d] /\ list'[d] = list[d]
              /\ page'[d] = page[d] /\ win'[d] = win[d]
<1>a. /\ pc \in [Clients -> {"main", "rent", "create", "done", "crashed"} \cup Busy]
      /\ job \in [Clients -> Jobs]
      /\ list \in [Clients -> [Rooms -> {NULL, Disabled, Enabled}]]
      /\ page \in [Clients -> Rooms \cup {NULL}]
      /\ win \in [Clients -> [Slots -> [room : Rooms, status : {Disabled, Enabled}] \cup {NULL}]]
  BY DEF TypeInv, TypeOK
<1>1. CASE Handler(c)
  BY <1>1, <1>a
     DEF Handler, CreateTable, CreateRecord, CommitRecord, CreateTrigger, DropTable, DropRecord,
         ModifyStatement, OpenModifyWindow, GiveUp, ReturnMain, Crash, Goto
<1>2. CASE Gesture(c)
  BY <1>2, <1>a
     DEF Gesture, Restart, ShowRooms, OpenRentWindow, UseMachine, CloseRentWindow,
         OpenCreateWindow, Finish, OpenRoom, ClickSum, ClickDelete, ClickManage, ConfirmCreate,
         CloseModifyWindow, ConfirmModify, Refresh, Crash, Goto
<1> QED BY <1>1, <1>2

LEMMA NextTyped == TypeInv /\ [Next]_vars => TypeInv'
<1>1. CASE UNCHANGED vars
  BY <1>1 DEF vars, dbVars, clientVars, TypeInv, TypeOK, JobReady
<1> QED BY <1>1, GestureTyped, HandlerTyped DEF Next

-----------------------------------------------------------------------------
(* Rows and their tables. *)

\* What one step of a client does to the parts of a room.
LEMMA RoomFacts ==
    ASSUME HeldInv, NEW c \in Clients, Handler(c) \/ Gesture(c)
    PROVE  /\ \A r \in table \ table' :
                 /\ pc[c] = "dropTable" /\ job[c].room = r /\ ~Locked(r)
                 /\ pc'[c] = "dropRecord" /\ job'[c] = job[c]
           /\ trigger \ trigger' \subseteq table \ table'
           /\ pc'[c] \in {"createRecord", "createTrigger"} =>
                 job'[c] = job[c] /\ job[c].room \in table'
           /\ \A r \in Rooms : record[r] = NULL /\ record'[r] # NULL =>
                 /\ job[c].room = r
                 /\ Fails(c, r) \/ /\ pc[c] = "createTrigger" /\ pc'[c] = "createCommitted"
                                   /\ job'[c] = job[c]
           /\ pc[c] = "dropRecord" => Fails(c, job[c].room) \/ record'[job[c].room] = NULL
           /\ pc[c] = "createCommitted" => Fails(c, job[c].room) \/ job[c].room \in trigger'
<1>a. /\ pc \in [Clients -> {"main", "rent", "create", "done", "crashed"} \cup Busy]
      /\ job \in [Clients -> Jobs]
      /\ record \in [Rooms -> [status : {Disabled, Enabled}, manager : Ids] \cup {NULL}]
      /\ trigger \subseteq table
      /\ pc[c] \in Busy => job[c].room \in Rooms
      /\ pc[c] \in {"createRecord", "createTrigger"} => job[c].room \in table
      /\ TypeInv
  BY DEF HeldInv, TypeInv, TypeOK, JobReady, TableHeld
<1>1. CASE CreateTable(c)
  <2>1. pc[c] = "createTable" /\ table \subseteq table' /\ UNCHANGED <<record, trigger>>
    BY <1>1 DEF CreateTable
  <2>2. CASE GiveUp(c)
    <3>1. pc'[c] \in {"create", "crashed"}
      BY <1>a, <2>2, GiveUpTyped
    <3> QED BY <2>1, <3>1
  <2>3. CASE table' = table \cup {job[c].room} /\ pc'[c] = "createRecord" /\ job' = job
    BY <2>1, <2>3
  <2> QED BY <1>1, <1>a, <2>2, <2>3 DEF CreateTable, Goto
<1>2. CASE CreateRecord(c)
  <2>1. pc[c] = "createRecord" /\ UNCHANGED <<table, trigger, inUse>>
    BY <1>2 DEF CreateRecord
  <2>2. CASE GiveUp(c) /\ record' \in {record} \cup WithRow(c)
    <3>1. pc'[c] \in {"create", "crashed"} /\ Fails(c, job[c].room)
      BY <1>a, <2>1, <2>2, GiveUpTyped DEF Fails
    <3>2. \A q \in Rooms \ {job[c].room} : record'[q] = record[q]
      BY <1>a, <2>1, <2>2, WithRowTyped
    <3> QED BY <2>1, <3>1, <3>2
  <2>3. CASE pc'[c] = "createTrigger" /\ UNCHANGED <<record, job>>
    BY <1>a, <2>1, <2>3
  <2> QED BY <1>2, <1>a, <2>2, <2>3 DEF CreateRecord, Goto
<1>3. CASE CommitRecord(c)
  <2>1. pc[c] = "createTrigger" /\ UNCHANGED <<table, trigger>>
        /\ record' \in {record} \cup WithRow(c)
    BY <1>3 DEF CommitRecord
  <2>2. \A q \in Rooms \ {job[c].room} : record'[q] = record[q]
    BY <1>a, <2>1, WithRowTyped
  <2>3. CASE GiveUp(c)
    <3>1. pc'[c] \in {"create", "crashed"} /\ Fails(c, job[c].room)
      BY <1>a, <2>1, <2>3, GiveUpTyped DEF Fails
    <3> QED BY <2>1, <2>2, <3>1
  <2>4. CASE pc'[c] = "createCommitted" /\ job' = job
    BY <2>1, <2>2, <2>4
  <2> QED BY <1>3, <1>a, <2>3, <2>4 DEF CommitRecord, Goto
<1>4. CASE CreateTrigger(c)
  <2>1. /\ pc[c] = "createCommitted" /\ UNCHANGED <<record, table>>
        /\ trigger \subseteq trigger'
    BY <1>4 DEF CreateTrigger
  <2>2. CASE GiveUp(c)
    <3>1. pc'[c] \in {"create", "crashed"} /\ Fails(c, job[c].room)
      BY <1>a, <2>1, <2>2, GiveUpTyped DEF Fails
    <3> QED BY <2>1, <3>1
  <2>3. CASE pc'[c] = "done" /\ job[c].room \in trigger'
    BY <2>1, <2>3
  <2> QED BY <1>4, <1>a, <2>2, <2>3 DEF CreateTrigger, Goto
<1>5. CASE DropTable(c)
  <2>1. CASE ReturnMain(c) /\ UNCHANGED <<table, trigger>>
    BY <1>5, <1>a, <2>1 DEF DropTable, ReturnMain, Goto
  <2>2. CASE /\ table' = table \ {job[c].room} /\ trigger' = trigger \ {job[c].room}
             /\ Goto(c, "dropRecord") /\ job' = job
    BY <1>5, <1>a, <2>2 DEF DropTable, Goto
  <2> QED BY <1>5, <2>1, <2>2 DEF DropTable
<1>6. CASE DropRecord(c)
  BY <1>6, <1>a DEF DropRecord, ReturnMain, Goto, Fails
<1>7. CASE ModifyStatement(c)
  <2>1. pc[c] = "modify" /\ pc'[c] \in {"main", "done", "modify"} /\ UNCHANGED <<table, trigger>>
    BY <1>7, <1>a DEF ModifyStatement, ReturnMain, Goto
  <2>2. \A r \in Rooms : record[r] = NULL => record'[r] = NULL
    BY <1>7, <1>a DEF ModifyStatement
  <2> QED BY <2>1, <2>2
<1>8. CASE \E s \in Slots : OpenModifyWindow(c, s)
  BY <1>8, <1>a DEF OpenModifyWindow, Crash, Goto, dbVars
<1>9. CASE Gesture(c)
  BY <1>9, <1>a
     DEF Gesture, Restart, ShowRooms, OpenRentWindow, UseMachine, CloseRentWindow,
         OpenCreateWindow, Finish, OpenRoom, ClickSum, ClickDelete, ClickManage, ConfirmCreate,
         CloseModifyWindow, ConfirmModify, Crash, Goto, dbVars
<1> QED BY <1>1, <1>2, <1>3, <1>4, <1>5, <1>6, <1>7, <1>8, <1>9 DEF Handler

LEMMA NextHeld == HeldInv /\ [Next]_vars => HeldInv'
<1> SUFFICES ASSUME HeldInv, [Next]_vars PROVE HeldInv'
  OBVIOUS
<1>1. TypeInv'
  BY NextTyped DEF HeldInv
<1>2. CASE UNCHANGED vars
  BY <1>1, <1>2 DEF vars, dbVars, clientVars, HeldInv, TableHeld
<1>3. ASSUME NEW c \in Clients, Handler(c) \/ Gesture(c),
             NEW d \in Clients, pc'[d] \in {"createRecord", "createTrigger"}
      PROVE  job'[d].room \in table'
  <2>1. CASE d = c
    BY <1>3, <2>1, RoomFacts
  <2>2. CASE d # c
    <3>1. pc[d] = pc'[d] /\ job[d] = job'[d]
      BY <1>3, <2>2, OthersIdle DEF HeldInv
    <3>2. job[d].room \in table /\ Locked(job[d].room)
      BY <1>3, <3>1 DEF HeldInv, TableHeld, Locked
    <3> QED BY <1>3, <3>1, <3>2, RoomFacts
  <2> QED BY <2>1, <2>2
<1> QED BY <1>1, <1>2, <1>3 DEF Next, HeldInv, TableHeld

LEMMA HeldAlways == Spec => []HeldInv
<1>1. Init => HeldInv
  BY InitTypeInv DEF Init, HeldInv, TableHeld
<1> QED BY <1>1, NextHeld, PTL DEF Spec

\* A step that is no failure keeps a room served: a creation passes the room on to
\* its trigger, a deletion takes it over with the table.
LEMMA StepServes ==
    ASSUME HeldInv, NEW c \in Clients, Handler(c) \/ Gesture(c),
           NEW r \in Rooms, Served(r), ~Fails(c, r)
    PROVE  Served(r)'
<1> SUFFICES ASSUME record'[r] # NULL
             PROVE  \/ \E d \in Clients : pc'[d] = "dropRecord" /\ job'[d].room = r
                    \/ /\ r \in table'
                       /\ \/ r \in trigger'
                          \/ \E d \in Clients : pc'[d] = "createCommitted" /\ job'[d].room = r
  BY DEF Served
<1>1. \A d \in Clients \ {c} : pc'[d] = pc[d] /\ job'[d] = job[d]
  BY OthersIdle DEF HeldInv
<1>2. CASE record[r] = NULL
  <2>1. /\ pc[c] = "createTrigger" /\ pc'[c] = "createCommitted"
        /\ job[c].room = r /\ job'[c] = job[c]
    BY <1>2, RoomFacts
  <2>2. r \in table'
    BY <2>1, RoomFacts DEF HeldInv, TableHeld
  <2> QED BY <2>1, <2>2
<1>3. CASE \E d \in Clients : pc[d] = "dropRecord" /\ job[d].room = r
  <2>1. PICK d \in Clients : pc[d] = "dropRecord" /\ job[d].room = r
    BY <1>3
  <2>2. d # c
    BY <2>1, RoomFacts
  <2> QED BY <1>1, <2>1, <2>2
<1>4. CASE r \in table /\ r \notin table'
  BY <1>4, RoomFacts
<1>5. CASE r \in table' /\ r \in trigger
  BY <1>5, RoomFacts
<1>6. CASE r \in table' /\ \E d \in Clients : pc[d] = "createCommitted" /\ job[d].room = r
  <2>1. PICK d \in Clients : pc[d] = "createCommitted" /\ job[d].room = r
    BY <1>6
  <2>2. CASE d # c
    BY <1>1, <1>6, <2>1, <2>2
  <2>3. CASE d = c
    BY <1>6, <2>1, <2>3, RoomFacts
  <2> QED BY <2>2, <2>3
<1> QED BY <1>2, <1>3, <1>4, <1>5, <1>6 DEF Served

\* A statement that fails only because of what is there already, or of the schema,
\* leaves every room as it was.
LEMMA QuietFailure ==
    ASSUME ~SqlErrors, HeldInv, NEW c \in Clients, Handler(c) \/ Gesture(c),
           NEW r \in Rooms, Served(r), Fails(c, r)
    PROVE  Served(r)'
<1>a. /\ pc \in [Clients -> {"main", "rent", "create", "done", "crashed"} \cup Busy]
      /\ pc[c] \in {"createRecord", "createTrigger", "createCommitted", "dropRecord"}
      /\ pc'[c] \in {"create", "main", "crashed"}
      /\ job[c].room = r
  BY DEF Fails, HeldInv, TypeInv, TypeOK
<1>1. UNCHANGED dbVars /\ (pc[c] = "createCommitted" => r \notin table \ trigger)
      /\ pc[c] # "dropRecord"
  <2>1. ~Gesture(c)
    BY <1>a DEF Gesture, Restart, ShowRooms, OpenRentWindow, UseMachine, CloseRentWindow,
           OpenCreateWindow, Finish, OpenRoom, ClickSum, ClickDelete, ClickManage, ConfirmCreate,
           CloseModifyWindow, ConfirmModify
  <2> QED BY <1>a, <2>1
          DEF Handler, CreateTable, CreateRecord, CommitRecord, CreateTrigger, DropTable,
              DropRecord, ModifyStatement, OpenModifyWindow, Goto, dbVars
<1>2. \A d \in Clients \ {c} : pc'[d] = pc[d] /\ job'[d] = job[d]
  BY OthersIdle DEF HeldInv
<1> QED BY <1>a, <1>1, <1>2 DEF Served, dbVars

-----------------------------------------------------------------------------
(* Clients that keep apart. *)

LEMMA InitApart == Init => ApartInv
<1> SUFFICES ASSUME Init PROVE ApartInv
  OBVIOUS
<1>1. RestWhole /\ RentsAreDated
  BY DEF Init, RestWhole, Whole, RentsAreDated
<1>2. ASSUME NEW c \in Clients PROVE Stage(c)
  BY DEF Init, Stage
<1> QED BY <1>1, <1>2, InitTypeInv DEF ApartInv

\* What the steps start from.
LEMMA ApartFacts ==
    ASSUME ApartInv
    PROVE  /\ \A r \in Rooms : (\A c \in Clients : pc[c] \in Changing => job[c].room # r)
                                  => Whole(r)
           /\ \A r \in Rooms : inUse[r] \in Nat /\ (inUse[r] > 0 => r \in trigger /\ r \in table)
           /\ \A c \in Clients : pc[c] \in Busy => job[c].room \in Rooms
           /\ \A c \in Clients : pc[c] \in {"createTable", "createRecord", "createTrigger"}
                                    => job[c].manager \in Ids
           /\ trigger \subseteq table
           /\ pc \in [Clients -> {"main", "rent", "create", "done", "crashed"} \cup Busy]
           /\ record \in [Rooms -> [status : {Disabled, Enabled}, manager : Ids] \cup {NULL}]
           /\ inUse \in [Rooms -> 0 .. MaxUse]
           /\ job \in [Clients -> Jobs]
           /\ page \in [Clients -> Rooms \cup {NULL}]
<1>1. /\ trigger \subseteq table
      /\ \A c \in Clients : pc[c] \in Busy => job[c].room \in Rooms
      /\ \A c \in Clients : pc[c] \in {"createTable", "createRecord", "createTrigger"}
                               => job[c].manager \in Ids
      /\ pc \in [Clients -> {"main", "rent", "create", "done", "crashed"} \cup Busy]
      /\ record \in [Rooms -> [status : {Disabled, Enabled}, manager : Ids] \cup {NULL}]
      /\ inUse \in [Rooms -> 0 .. MaxUse]
      /\ job \in [Clients -> Jobs]
      /\ page \in [Clients -> Rooms \cup {NULL}]
  BY DEF ApartInv, TypeInv, TypeOK, JobReady
<1>2. \A r \in Rooms : (\A c \in Clients : pc[c] \in Changing => job[c].room # r) => Whole(r)
  BY DEF ApartInv, RestWhole
<1>3. \A r \in Rooms : inUse[r] \in Nat /\ (inUse[r] > 0 => r \in trigger /\ r \in table)
  BY <1>1, RoomAssumption DEF ApartInv, RentsAreDated
<1> QED BY <1>1, <1>2, <1>3

\* A step of one client that touches no room but the one it is at.
LEMMA AtItsRoom ==
    ASSUME ApartInv, Separate, NEW c \in Clients, NEW r \in Rooms, At(c) = r,
           \A q \in Rooms \ {r} : /\ record'[q] = record[q]
                                  /\ q \in table' <=> q \in table
                                  /\ q \in trigger' <=> q \in trigger
                                  /\ inUse'[q] = inUse[q],
           \A d \in Clients \ {c} : pc'[d] = pc[d] /\ job'[d] = job[d] /\ page'[d] = page[d],
           Stage(c)',
           inUse'[r] > 0 => r \in trigger',
           (pc'[c] \in Changing /\ job'[c].room = r) \/ Whole(r)'
    PROVE  RestWhole' /\ RentsAreDated' /\ \A d \in Clients : Stage(d)'
<1>1. ASSUME NEW d \in Clients \ {c} PROVE Stage(d)'
  <2>1. CASE pc[d] \notin Changing /\ pc[d] # "rent"
    <3>1. pc'[d] \notin {"createTable", "createRecord", "createTrigger", "createCommitted",
                         "dropTable", "dropRecord", "rent"}
      BY <2>1 DEF Changing, Busy
    <3> QED BY <3>1 DEF Stage
  <2>3. CASE pc[d] = "rent"
    <3>1. page[d] \in Rooms \ {r} /\ record[page[d]] # NULL
      BY <2>3, RoomAssumption DEF ApartInv, Stage, Separate, At, Changing, Busy
    <3> QED BY <2>3, <3>1 DEF Stage
  <2>2. CASE pc[d] \in Changing
    <3>1. r # NULL
      BY RoomAssumption
    <3>2. PICK q \in Rooms \ {r} : q = job[d].room
      BY <2>2, <3>1, ApartFacts DEF Separate, At, Changing
    <3> USE <3>2
    <3>3. Stage(d)
      BY DEF ApartInv
    <3>4. job'[d].room = q /\ pc'[d] = pc[d] /\ pc[d] # "rent"
      BY <2>2 DEF Changing, Busy
    <3> QED BY <3>3, <3>4 DEF Stage, Whole
  <2> QED BY <2>1, <2>2, <2>3
<1>2. RestWhole'
  <2> SUFFICES ASSUME NEW q \in Rooms,
                      \A d \in Clients : pc'[d] \in Changing => job'[d].room # q
               PROVE  Whole(q)'
    BY DEF RestWhole
  <2>1. CASE q = r
    BY <2>1
  <2>2. CASE q # r
    <3>1. \A d \in Clients : pc[d] \in Changing => job[d].room # q
      BY <2>2 DEF At
    <3> QED BY <2>2, <3>1, ApartFacts DEF Whole
  <2> QED BY <2>1, <2>2
<1>3. RentsAreDated'
  BY DEF ApartInv, RentsAreDated
<1> QED BY <1>1, <1>2, <1>3

\* A step of a client that leaves the database alone and ends no creation or
\* deletion.
LEMMA DatabaseApart ==
    ASSUME ApartInv, NEW c \in Clients, UNCHANGED dbVars, pc[c] \notin Changing,
           \A d \in Clients \ {c} : pc'[d] = pc[d] /\ job'[d] = job[d] /\ page'[d] = page[d],
           Stage(c)'
    PROVE  RestWhole' /\ RentsAreDated' /\ \A d \in Clients : Stage(d)'
<1>1. ASSUME NEW d \in Clients \ {c} PROVE Stage(d)'
  BY DEF ApartInv, Stage, Whole, dbVars
<1>2. RestWhole'
  BY DEF ApartInv, RestWhole, Whole, Changing, dbVars
<1>3. RentsAreDated'
  BY DEF ApartInv, RentsAreDated, dbVars
<1> QED BY <1>1, <1>2, <1>3

\* Whoever starts a creation or a deletion finds nobody at its room.
LEMMA RoomIsFree ==
    ASSUME ApartInv, Separate', NEW c \in Clients, NEW r \in Rooms, pc[c] \notin Changing,
           \A d \in Clients \ {c} : pc'[d] = pc[d] /\ job'[d] = job[d],
           pc'[c] \in Changing, job'[c].room = r
    PROVE  Whole(r)
<1>1. r # NULL
  BY RoomAssumption
<1>2. At(c)' = r
  BY DEF At
<1>3. ASSUME NEW d \in Clients \ {c}, pc[d] \in Changing PROVE job[d].room # r
  <2>1. At(d)' = job[d].room
    BY <1>3 DEF At
  <2> QED BY <1>1, <1>2, <2>1 DEF Separate
<1> QED BY <1>3, ApartFacts

LEMMA NullIsNoRecord ==
    \A w \in [status : {Disabled, Enabled}, manager : Ids] : w # NULL
BY RoomAssumption DEF Disabled, Enabled, Ids

\* Gestures: only the delete button and the create window start something, and
\* only a machine that is rented or returned changes the database.
LEMMA GestureApart ==
    ASSUME ApartInv, Separate, Separate', NEW c \in Clients, Gesture(c)
    PROVE  RestWhole' /\ RentsAreDated' /\ \A d \in Clients : Stage(d)'
<1> DEFINE Goal == RestWhole' /\ RentsAreDated' /\ \A d \in Clients : Stage(d)'
<1>o. \A d \in Clients \ {c} : pc'[d] = pc[d] /\ job'[d] = job[d] /\ page'[d] = page[d]
  BY OthersIdle DEF ApartInv
<1>a. ASSUME NEW p \in {"main", "create", "manage", "modify", "crashed"},
             UNCHANGED dbVars, pc[c] \notin Changing,
             Goto(c, p) \/ (UNCHANGED pc /\ pc[c] = "main")
      PROVE  Goal
  <2>1. pc'[c] \in {"main", "create", "manage", "modify", "crashed"}
    BY <1>a, ApartFacts DEF Goto
  <2>2. Stage(c)'
    BY <2>1 DEF Stage
  <2> QED BY <1>a, <1>o, <2>2, DatabaseApart
<1>b. pc[c] \in {"main", "rent", "create", "done", "crashed"} => pc[c] \notin Changing
  BY DEF Changing, Busy
<1>c. job \in [Clients -> Jobs]
  BY ApartFacts
<1>1. CASE Restart(c) \/ ShowRooms(c)
  BY <1>1, <1>a, <1>b DEF Restart, ShowRooms
<1>2. CASE CloseRentWindow(c) \/ OpenCreateWindow(c)
  BY <1>2, <1>a, <1>b DEF CloseRentWindow, OpenCreateWindow
<1>9. CASE OpenRentWindow(c)
  <2>1. /\ pc[c] = "main" /\ pc'[c] = "rent" /\ UNCHANGED <<dbVars, page>>
        /\ page[c] \in Rooms /\ record[page[c]] # NULL
    BY <1>9, ApartFacts DEF OpenRentWindow, Goto
  <2>2. Stage(c)'
    BY <2>1 DEF Stage, dbVars
  <2> QED BY <1>b, <1>o, <2>1, <2>2, DatabaseApart
<1>3. CASE UseMachine(c)
  <2>1. PICK r \in Rooms : r = page[c]
    BY <1>3, ApartFacts DEF UseMachine, ApartInv, TypeInv, TypeOK
  <2> USE <2>1
  <2>2. /\ pc[c] = "rent" /\ r \in table /\ pc'[c] = "main"
        /\ UNCHANGED <<record, table, trigger, job>>
        /\ \A d \in Clients \ {c} : pc'[d] = pc[d]
        /\ \A q \in Rooms \ {r} : inUse'[q] = inUse[q]
    BY <1>3, ApartFacts DEF UseMachine, Goto
  <2>3. At(c) = r
    BY <2>2 DEF At, Changing, Busy
  <2>4. Whole(r)
    <3>1. r # NULL
      BY RoomAssumption
    <3>2. \A d \in Clients : pc[d] \in Changing => job[d].room # r
      BY <2>2, <2>3, <3>1 DEF Separate, At, Changing, Busy
    <3> QED BY <3>2, ApartFacts
  <2>5. Stage(c)'
    BY <2>2 DEF Stage
  <2>7. record[r] # NULL
    BY <2>2 DEF ApartInv, Stage
  <2>6. Whole(r)' /\ r \in trigger'
    BY <2>2, <2>4, <2>7 DEF Whole
  <2> QED BY <1>o, <2>2, <2>3, <2>5, <2>6, AtItsRoom
<1>4. CASE Finish(c)
  BY <1>4, <1>a, <1>b, <1>c DEF Finish
<1>5. ASSUME NEW r \in Rooms, OpenRoom(c, r) \/ ClickSum(c, r) \/ ClickManage(c, r)
      PROVE  Goal
  <2>1. CASE OpenRoom(c, r)
    BY <2>1, <1>a, <1>b DEF OpenRoom
  <2>2. CASE ClickSum(c, r)
    BY <2>2, <1>a, <1>b, <1>c DEF ClickSum, Crash
  <2>3. CASE ClickManage(c, r)
    BY <2>3, <1>a, <1>b, <1>c DEF ClickManage, Crash
  <2> QED BY <1>5, <2>1, <2>2, <2>3
<1>6. ASSUME NEW r \in Rooms, ClickDelete(c, r)
      PROVE  Goal
  <2>1. /\ pc[c] = "main" /\ pc'[c] = "dropTable" /\ job'[c].room = r
        /\ r \in table /\ inUse[r] = 0
        /\ \A d \in Clients \ {c} : pc'[d] = pc[d] /\ job'[d] = job[d]
        /\ UNCHANGED dbVars
    BY <1>6, ApartFacts, NoJobTyped DEF ClickDelete, Goto, NobodyOn, NoJob
  <2>2. Whole(r)
    BY <1>b, <2>1, RoomIsFree DEF Changing, Busy
  <2>3. Stage(c)'
    BY <2>1, <2>2 DEF Stage, Whole, dbVars
  <2> QED BY <1>o, <1>b, <2>1, <2>3, DatabaseApart DEF dbVars
<1>7. ASSUME NEW r \in Rooms, NEW u \in Ids, ConfirmCreate(c, r, u)
      PROVE  Goal
  <2>1. pc[c] = "create" /\ UNCHANGED dbVars
    BY <1>7 DEF ConfirmCreate
  <2>2. CASE Crash(c)
    BY <1>a, <1>b, <1>c, <2>1, <2>2 DEF Crash
  <2>3. CASE ~Crash(c)
    <3>1. /\ pc'[c] = "createTable" /\ job'[c].room = r
          /\ \A d \in Clients \ {c} : pc'[d] = pc[d] /\ job'[d] = job[d]
      <4>1. [NoJob EXCEPT !.room = r, !.manager = u].room = r
        BY DEF NoJob
      <4> QED BY <1>7, <2>3, <4>1, ApartFacts DEF ConfirmCreate, Goto
    <3>2. Whole(r)
      BY <1>b, <2>1, <3>1, RoomIsFree DEF Changing, Busy
    <3>3. Stage(c)'
      BY <2>1, <3>1, <3>2 DEF Stage, Whole, dbVars
    <3> QED BY <1>o, <1>b, <2>1, <3>1, <3>3, DatabaseApart DEF dbVars
  <2> QED BY <2>2, <2>3
<1>8. ASSUME NEW s \in Slots, CloseModifyWindow(c, s)
      PROVE  Goal
  BY <1>8, <1>a, <1>b DEF CloseModifyWindow
<1>10. ASSUME NEW s \in Slots, NEW box \in {Disabled, Enabled}, NEW u \in Ids \cup {NULL},
             NEW fee \in BOOLEAN, ConfirmModify(c, s, box, u, fee)
      PROVE  Goal
  BY <1>10, <1>a, <1>b DEF ConfirmModify
<1> QED BY <1>1, <1>2, <1>3, <1>4, <1>5, <1>6, <1>7, <1>8, <1>9, <1>10 DEF Gesture

\* ModifyRoomInfo makes no room and removes none.
LEMMA ModifyKeepsRooms ==
    ASSUME ApartInv, NEW c \in Clients, ModifyStatement(c)
    PROVE  \A q \in Rooms : record'[q] = NULL <=> record[q] = NULL
<1>1. PICK r \in Rooms : r = job[c].room
  BY ApartFacts DEF ModifyStatement, Busy
<1> DEFINE j == job[c]
           new == IF record[r] = NULL THEN NULL
                  ELSE IF j.status # -1 THEN [record[r] EXCEPT !.status = j.status]
                  ELSE IF j.manager # NULL THEN [record[r] EXCEPT !.manager = j.manager]
                  ELSE record[r]
<1>2. record' \in {record, [record EXCEPT ![r] = new]}
  BY <1>1, ApartFacts DEF ModifyStatement
<1>3. record[r] # NULL => new \in [status : {Disabled, Enabled}, manager : Ids]
  <2>1. j.status \in {-1, Disabled, Enabled} /\ j.manager \in Ids \cup {NULL}
    BY ApartFacts DEF Jobs
  <2> QED BY <2>1, ApartFacts
<1>4. new = NULL <=> record[r] = NULL
  BY <1>3, NullIsNoRecord
<1> HIDE DEF new
<1> QED BY <1>2, <1>4, ApartFacts

\* Handlers: no statement fails but for a foreign key, and each brings the room one
\* stage further or leaves it.
LEMMA HandlerApart ==
    ASSUME ~SqlErrors, ApartInv, Separate, NEW c \in Clients, Handler(c)
    PROVE  RestWhole' /\ RentsAreDated' /\ \A d \in Clients : Stage(d)'
<1>o. \A d \in Clients \ {c} : pc'[d] = pc[d] /\ job'[d] = job[d] /\ page'[d] = page[d]
  BY OthersIdle DEF ApartInv
<1>r. PICK r \in Rooms : r = job[c].room
  <2>1. pc[c] \in Busy
    BY DEF Handler, CreateTable, CreateRecord, CommitRecord, CreateTrigger, DropTable,
           DropRecord, ModifyStatement, OpenModifyWindow, Busy
  <2> QED BY <2>1, ApartFacts
<1> USE <1>r
<1>a. Stage(c)
  BY DEF ApartInv
<1>b. pc[c] \in Changing => At(c) = r
  BY DEF At
<1>c. inUse[r] \in Nat /\ (inUse[r] > 0 => r \in trigger /\ r \in table)
  BY ApartFacts
<1>n. ~SqlErrors
  OBVIOUS
<1>1. CASE CreateTable(c)
  <2>1. /\ pc[c] = "createTable" /\ Whole(r) /\ At(c) = r
        /\ UNCHANGED <<record, trigger, inUse>>
    BY <1>1, <1>a, <1>b DEF CreateTable, Stage, Changing, Busy
  <2>2. CASE r \in table
    <3>1. /\ table' = table /\ pc'[c] = "create"
          /\ \A d \in Clients \ {c} : pc'[d] = pc[d] /\ job'[d] = job[d]
      BY <1>1, <1>n, <2>2, ApartFacts DEF CreateTable, GiveUp, Goto
    <3>2. Stage(c)' /\ Whole(r)'
      BY <2>1, <3>1 DEF Stage, Whole
    <3> QED BY <1>o, <1>c, <2>1, <3>1, <3>2, AtItsRoom
  <2>3. CASE r \notin table
    <3>1. /\ table' = table \cup {r} /\ pc'[c] = "createRecord" /\ job' = job
          /\ \A d \in Clients \ {c} : pc'[d] = pc[d]
      BY <1>1, <1>n, <2>3, ApartFacts DEF CreateTable, GiveUp, Goto
    <3>2. record[r] = NULL /\ inUse[r] = 0 /\ r \notin trigger
      BY <1>c, <2>1, <2>3, ApartFacts DEF Whole
    <3>3. Stage(c)' /\ pc'[c] \in Changing
      BY <2>1, <3>1, <3>2 DEF Stage, Changing, Busy
    <3> QED BY <1>o, <1>c, <2>1, <3>1, <3>3, AtItsRoom
  <2> QED BY <2>2, <2>3
<1>2. CASE CreateRecord(c)
  <2>1. /\ pc[c] = "createRecord" /\ At(c) = r
        /\ r \in table \ trigger /\ record[r] = NULL /\ inUse[r] = 0
        /\ UNCHANGED dbVars
    BY <1>2, <1>n, <1>a, <1>b DEF CreateRecord, Stage, Changing, Busy, dbVars
  <2>2. CASE pc'[c] = "createTrigger" /\ job' = job
    <3>1. Stage(c)' /\ pc'[c] \in Changing
      BY <2>1, <2>2 DEF Stage, Changing, Busy, dbVars
    <3> QED BY <1>o, <1>c, <2>1, <2>2, <3>1, AtItsRoom DEF dbVars
  <2>3. CASE ForeignKey /\ pc'[c] = "create"
    <3>1. Stage(c)' /\ Whole(r)'
      BY <2>1, <2>3 DEF Stage, Whole, dbVars
    <3> QED BY <1>o, <1>c, <2>1, <3>1, AtItsRoom DEF dbVars
  <2> QED BY <1>2, <1>n, <2>1, <2>2, <2>3, ApartFacts DEF CreateRecord, GiveUp, Goto
<1>3. CASE CommitRecord(c)
  <2>1. pc[c] = "createTrigger" /\ At(c) = r /\ r \in table \ trigger /\ inUse[r] = 0
    BY <1>3, <1>a, <1>b DEF CommitRecord, Stage, Changing, Busy
  <2>2. /\ pc'[c] = "createCommitted" /\ job' = job
        /\ UNCHANGED <<table, trigger, inUse>>
        /\ record' \in WithRow(c)
        /\ \A d \in Clients \ {c} : pc'[d] = pc[d]
    BY <1>3, <1>n, ApartFacts DEF CommitRecord, Goto
  <2>3. record'[r] # NULL /\ \A q \in Rooms \ {r} : record'[q] = record[q]
    BY <2>1, <2>2, WithRowTyped DEF ApartInv
  <2>4. Stage(c)' /\ pc'[c] \in Changing
    BY <2>1, <2>2, <2>3 DEF Stage, Changing, Busy
  <2> QED BY <1>o, <1>c, <2>1, <2>2, <2>3, <2>4, AtItsRoom
<1>4. CASE CreateTrigger(c)
  <2>1. /\ pc[c] = "createCommitted" /\ At(c) = r
        /\ r \in table \ trigger /\ record[r] # NULL
        /\ UNCHANGED <<record, table, inUse>>
    BY <1>4, <1>a, <1>b DEF CreateTrigger, Stage, Changing, Busy
  <2>2. /\ trigger' = trigger \cup {r} /\ pc'[c] = "done" /\ job' = job
        /\ \A d \in Clients \ {c} : pc'[d] = pc[d]
    BY <1>4, <1>n, <2>1, ApartFacts DEF CreateTrigger, Goto
  <2>3. Stage(c)' /\ Whole(r)'
    BY <2>1, <2>2 DEF Stage, Whole
  <2> QED BY <1>o, <1>c, <2>1, <2>2, <2>3, AtItsRoom
<1>5. CASE DropTable(c)
  <2>1. /\ pc[c] = "dropTable" /\ At(c) = r /\ r \in table /\ inUse[r] = 0
        /\ UNCHANGED record
    BY <1>5, <1>a, <1>b DEF DropTable, Stage, Changing, Busy
  <2>2. /\ table' = table \ {r} /\ trigger' = trigger \ {r}
        /\ inUse' = [inUse EXCEPT ![r] = 0]
        /\ pc'[c] = "dropRecord" /\ job' = job
        /\ \A d \in Clients \ {c} : pc'[d] = pc[d]
    BY <1>5, <2>1, ApartFacts DEF DropTable, Goto
  <2>3. Stage(c)' /\ pc'[c] \in Changing
    BY <2>2 DEF Stage, Changing, Busy
  <2>4. inUse'[r] = 0 /\ \A q \in Rooms \ {r} : inUse'[q] = inUse[q]
    BY <2>2, ApartFacts
  <2> QED BY <1>o, <2>1, <2>2, <2>3, <2>4, AtItsRoom
<1>6. CASE DropRecord(c)
  <2>1. /\ pc[c] = "dropRecord" /\ At(c) = r /\ r \notin table
        /\ UNCHANGED <<table, trigger, inUse>>
    BY <1>6, <1>a, <1>b DEF DropRecord, Stage, Changing, Busy
  <2>2. /\ record' = [record EXCEPT ![r] = NULL] /\ pc'[c] = "done" /\ job' = job
        /\ \A d \in Clients \ {c} : pc'[d] = pc[d]
    BY <1>6, ApartFacts DEF DropRecord, Goto
  <2>3. Stage(c)' /\ Whole(r)'
    BY <2>1, <2>2, ApartFacts DEF Stage, Whole
  <2>4. \A q \in Rooms \ {r} : record'[q] = record[q]
    BY <2>2, ApartFacts
  <2> QED BY <1>o, <1>c, <2>1, <2>2, <2>3, <2>4, AtItsRoom
<1>7. CASE ModifyStatement(c)
  <2>1. /\ UNCHANGED <<table, trigger, inUse>>
        /\ pc[c] = "modify" /\ pc'[c] \in {"done", "modify", "main"}
    BY <1>7, ApartFacts DEF ModifyStatement, ReturnMain, Goto
  <2>2. \A q \in Rooms : record'[q] = NULL <=> record[q] = NULL
    BY <1>7, ModifyKeepsRooms
  <2>3. ASSUME NEW d \in Clients PROVE Stage(d)'
    <3>1. CASE d = c
      BY <2>1, <3>1 DEF Stage
    <3>2. CASE d # c
      <4>1. pc'[d] \in Changing => job[d].room \in Rooms
        BY <1>o, <3>2, ApartFacts DEF Changing
      <4>2. Stage(d)
        BY DEF ApartInv
      <4>3. pc'[d] = pc[d] /\ job'[d] = job[d] /\ page'[d] = page[d]
        BY <1>o, <3>2
      <4> QED BY <2>1, <2>2, <4>1, <4>2, <4>3 DEF Stage, Whole, Changing, Busy
    <3> QED BY <3>1, <3>2
  <2>4. RestWhole'
    BY <1>o, <2>1, <2>2 DEF ApartInv, RestWhole, Whole, Changing, Busy
  <2>5. RentsAreDated'
    BY <2>1 DEF ApartInv, RentsAreDated
  <2> QED BY <2>3, <2>4, <2>5
<1>8. ASSUME NEW s \in Slots, OpenModifyWindow(c, s)
      PROVE  RestWhole' /\ RentsAreDated' /\ \A d \in Clients : Stage(d)'
  <2>1. /\ pc[c] = "manage" /\ pc'[c] \in {"main", "crashed"} /\ UNCHANGED dbVars
    BY <1>8, ApartFacts DEF OpenModifyWindow, Crash, Goto
  <2>2. Stage(c)'
    BY <2>1 DEF Stage
  <2> QED BY <1>o, <2>1, <2>2, DatabaseApart DEF Changing, dbVars
<1> QED BY <1>1, <1>2, <1>3, <1>4, <1>5, <1>6, <1>7, <1>8 DEF Handler

LEMMA NextApart ==
    ASSUME ~SqlErrors, ApartInv, Separate, Separate', [Next]_vars
    PROVE  ApartInv'
<1>1. TypeInv'
  BY NextTyped DEF ApartInv
<1>2. CASE UNCHANGED vars
  <2>1. RestWhole' /\ RentsAreDated' /\ \A c \in Clients : Stage(c)'
    BY <1>2 DEF vars, dbVars, clientVars, ApartInv, RestWhole, RentsAreDated, Stage, Whole
  <2> QED BY <1>1, <1>2, <2>1 DEF ApartInv, vars, dbVars
<1>3. ASSUME NEW c \in Clients, Handler(c) \/ Gesture(c)
      PROVE  ApartInv'
  BY <1>1, <1>3, HandlerApart, GestureApart DEF ApartInv
<1> QED BY <1>2, <1>3 DEF Next

\* The inductive invariant holds as long as the clients keep apart.
LEMMA ApartAlways ==
    ASSUME ~SqlErrors
    PROVE  Spec /\ []Separate => []ApartInv
<1>1. ApartInv /\ Separate /\ Separate' /\ [Next]_vars => ApartInv'
  BY NextApart
<1> QED BY <1>1, InitApart, PTL DEF Spec

-----------------------------------------------------------------------------
(* The way a handler takes to its end. *)

\* ModifyRoomInfo is never called for nothing.
WorkInv == TypeInv /\ \A c \in Clients : pc[c] = "modify" => ColumnsLeft(job[c]) > 0

\* After one of its statements a column less is left.
LEMMA RestIsShorter ==
    ASSUME NEW j \in Jobs
    PROVE  /\ ColumnsLeft(j) \in 0 .. 3
           /\ ColumnsLeft(j) > 0 => ColumnsLeft(Rest(j)) < ColumnsLeft(j)
           /\ ColumnsLeft(j) = 0 <=> j.status = -1 /\ j.manager = NULL /\ ~j.fee
  BY DEF Jobs, Rest, ColumnsLeft

\* What the confirm button and ModifyRoomInfo do to the list of columns.
LEMMA OwnStatements ==
    ASSUME TypeInv, NEW c \in Clients, Handler(c) \/ Gesture(c), pc'[c] = "modify"
    PROVE  /\ ColumnsLeft(job'[c]) > 0
           /\ pc[c] # "modify" \/ job'[c] = Rest(job[c])
<1>a. /\ pc \in [Clients -> {"main", "rent", "create", "done", "crashed"} \cup Busy]
      /\ job \in [Clients -> Jobs]
      /\ job[c] \in Jobs
  BY DEF TypeInv, TypeOK
<1>1. CASE Handler(c)
  <2>1. ModifyStatement(c) /\ ~ReturnMain(c)
    BY <1>1, <1>a
       DEF Handler, CreateTable, CreateRecord, CommitRecord, CreateTrigger, DropTable, DropRecord,
           OpenModifyWindow, GiveUp, ReturnMain, Crash, Goto
  <2>2. /\ job'[c] = Rest(job[c])
        /\ ~(Rest(job[c]).status = -1 /\ Rest(job[c]).manager = NULL /\ ~Rest(job[c]).fee)
    BY <2>1, <1>a DEF ModifyStatement, Goto
  <2>3. Rest(job[c]) \in Jobs
    BY <1>a DEF Rest, Jobs
  <2> QED BY <2>2, <2>3, RestIsShorter
<1>2. CASE Gesture(c)
  <2>1. PICK s \in Slots, box \in {Disabled, Enabled}, u \in Ids \cup {NULL}, fee \in BOOLEAN :
           ConfirmModify(c, s, box, u, fee)
    BY <1>2, <1>a
       DEF Gesture, Restart, ShowRooms, OpenRentWindow, UseMachine, CloseRentWindow,
           OpenCreateWindow, Finish, OpenRoom, ClickSum, ClickDelete, ClickManage, ConfirmCreate,
           CloseModifyWindow, Refresh, Crash, Goto
  <2> DEFINE st == IF box # win[c][s].status THEN box ELSE -1
  <2>2. /\ job'[c].status = st /\ job'[c].manager = u /\ job'[c].fee = fee
        /\ st # -1 \/ u # NULL \/ fee
        /\ pc[c] = "main"
    BY <2>1, <1>a DEF ConfirmModify
  <2> HIDE DEF st
  <2>3. ColumnsLeft(job'[c]) > 0
    BY <2>2 DEF ColumnsLeft
  <2> QED BY <2>2, <2>3
<1> QED BY <1>1, <1>2

\* The list of columns is made not empty, and is left when it becomes so.
LEMMA NextWork == WorkInv /\ [Next]_vars => WorkInv'
<1> SUFFICES ASSUME WorkInv, [Next]_vars PROVE WorkInv'
  OBVIOUS
<1>1. TypeInv'
  BY NextTyped DEF WorkInv
<1>2. CASE UNCHANGED vars
  BY <1>1, <1>2 DEF WorkInv, vars, clientVars
<1>3. ASSUME NEW c \in Clients, Handler(c) \/ Gesture(c)
      PROVE  \A d \in Clients : pc'[d] = "modify" => ColumnsLeft(job'[d]) > 0
  BY <1>3, OthersIdle, OwnStatements DEF WorkInv
<1> QED BY <1>1, <1>2, <1>3 DEF WorkInv, Next

LEMMA WorkAlways == Spec => []WorkInv
<1>1. Init => WorkInv
  BY InitTypeInv DEF WorkInv, Init
<1> QED BY <1>1, NextWork, PTL DEF Spec

\* A statement brings the handler nearer to its end, also when the room is gone.
LEMMA HandlerAdvances ==
    ASSUME WorkInv, NEW c \in Clients, Handler(c)
    PROVE  StepsLeft(pc'[c], job'[c]) < StepsLeft(pc[c], job[c])
<1>a. /\ pc \in [Clients -> {"main", "rent", "create", "done", "crashed"} \cup Busy]
      /\ job[c] \in Jobs
      /\ pc[c] = "modify" => ColumnsLeft(job[c]) > 0
      /\ TypeInv
  BY DEF WorkInv, TypeInv, TypeOK
<1>b. /\ pc[c] = "createTable" => StepsLeft(pc[c], job[c]) = 4
      /\ pc[c] = "createRecord" => StepsLeft(pc[c], job[c]) = 3
      /\ pc[c] \in {"createTrigger", "dropTable"} => StepsLeft(pc[c], job[c]) = 2
      /\ pc[c] \in {"createCommitted", "dropRecord", "manage"} => StepsLeft(pc[c], job[c]) = 1
      /\ pc[c] = "modify" => StepsLeft(pc[c], job[c]) = ColumnsLeft(job[c])
  BY DEF StepsLeft
<1>c. /\ pc'[c] = "createRecord" => StepsLeft(pc'[c], job'[c]) = 3
      /\ pc'[c] = "createTrigger" => StepsLeft(pc'[c], job'[c]) = 2
      /\ pc'[c] \in {"createCommitted", "dropRecord"} => StepsLeft(pc'[c], job'[c]) = 1
      /\ pc'[c] = "modify" => StepsLeft(pc'[c], job'[c]) = ColumnsLeft(job'[c])
      /\ pc'[c] \in {"main", "create", "done", "crashed"} => StepsLeft(pc'[c], job'[c]) = 0
  BY DEF StepsLeft
<1>1. CASE CreateTable(c)
  <2>1. pc[c] = "createTable" /\ pc'[c] \in {"createRecord", "create", "crashed"}
    BY <1>1, <1>a, GiveUpTyped DEF CreateTable, Goto
  <2> QED BY <1>b, <1>c, <2>1
<1>2. CASE CreateRecord(c)
  <2>1. pc[c] = "createRecord" /\ pc'[c] \in {"createTrigger", "create", "crashed"}
    BY <1>2, <1>a, GiveUpTyped DEF CreateRecord, Goto
  <2> QED BY <1>b, <1>c, <2>1
<1>3. CASE CommitRecord(c)
  <2>1. pc[c] = "createTrigger" /\ pc'[c] \in {"createCommitted", "create", "crashed"}
    BY <1>3, <1>a, GiveUpTyped DEF CommitRecord, Goto
  <2> QED BY <1>b, <1>c, <2>1
<1>4. CASE DropTable(c)
  <2>1. pc[c] = "dropTable" /\ pc'[c] \in {"dropRecord", "main"}
    BY <1>4, <1>a DEF DropTable, ReturnMain, Goto
  <2> QED BY <1>b, <1>c, <2>1
<1>5. CASE CreateTrigger(c) \/ DropRecord(c) \/ \E s \in Slots : OpenModifyWindow(c, s)
  <2>1. /\ pc[c] \in {"createCommitted", "dropRecord", "manage"}
        /\ pc'[c] \in {"main", "create", "done", "crashed"}
    BY <1>5, <1>a
       DEF CreateTrigger, DropRecord, OpenModifyWindow, GiveUp, ReturnMain, Crash, Goto
  <2> QED BY <1>b, <1>c, <2>1
<1>6. CASE ModifyStatement(c)
  <2>1. pc[c] = "modify" /\ pc'[c] \in {"main", "done", "modify"}
    BY <1>6, <1>a DEF ModifyStatement, ReturnMain, Goto
  <2>2. CASE pc'[c] = "modify"
    <3>1. job'[c] = Rest(job[c])
      BY <1>6, <1>a, <2>1, <2>2, OwnStatements DEF Handler
    <3> QED BY <1>a, <1>b, <1>c, <2>1, <2>2, <3>1, RestIsShorter
  <2> QED BY <1>a, <1>b, <1>c, <2>1, <2>2
<1> QED BY <1>1, <1>2, <1>3, <1>4, <1>5, <1>6 DEF Handler

-----------------------------------------------------------------------------
(* The results. *)

\* The variables keep their types, with and without SQL errors (the handlers of
\* the room page and of its windows).
THEOREM RoomTypeCorrect == Spec => []TypeOK
<1>1. TypeInv => TypeOK
  BY DEF TypeInv
<1> QED BY InitTypeInv, NextTyped, <1>1, PTL DEF Spec

\* However many clients create and delete rooms of the same name, and whatever fails,
\* a row of machine_room loses its table or its trigger only in a step in which a
\* statement on that room fails (CreateRoom, DeleteMachineRoom).
THEOREM OnlyFailuresBreak == Spec => OnlyErrorsBreakRooms
<1> DEFINE Step == \A r \in Rooms : Served(r) /\ ~Served(r)' => \E c \in Clients : Fails(c, r)
<1>1. HeldInv /\ [Next]_vars => [Step]_vars
  <2> SUFFICES ASSUME HeldInv, Next PROVE Step
    OBVIOUS
  <2> QED BY StepServes DEF Next
<1> QED BY HeldAlways, <1>1, PTL DEF Spec, OnlyErrorsBreakRooms

\* So where no statement fails for a reason of its own, every row of machine_room has
\* its table and its trigger, or a client that is just making or removing them,
\* whatever is created and deleted at the same time.
THEOREM RoomsServed ==
    ASSUME ~SqlErrors
    PROVE  Spec => []\A r \in Rooms : Served(r)
<1> DEFINE All == HeldInv /\ \A r \in Rooms : Served(r)
<1>1. Init => All
  BY InitTypeInv DEF Init, HeldInv, TableHeld, Served
<1>2. All /\ [Next]_vars => All'
  <2> SUFFICES ASSUME All, [Next]_vars PROVE All'
    OBVIOUS
  <2>1. HeldInv'
    BY NextHeld
  <2>2. CASE UNCHANGED vars
    BY <2>1, <2>2 DEF vars, dbVars, clientVars, Served
  <2>3. ASSUME NEW c \in Clients, Handler(c) \/ Gesture(c), NEW r \in Rooms
        PROVE  Served(r)'
    BY <2>3, QuietFailure, StepServes
  <2> QED BY <2>1, <2>2, <2>3 DEF Next
<1>3. All => \A r \in Rooms : Served(r)
  OBVIOUS
<1> QED BY <1>1, <1>2, <1>3, PTL DEF Spec

\* As long as no two clients create, delete or rent in one room at the same time and
\* no statement fails, every machine in use lies in a table with the trigger of
\* CreateRoom, even if a foreign key stops creations halfway: OpenRentWindow needs
\* the row.
THEOREM ApartRentsAreDated ==
    ASSUME ~SqlErrors
    PROVE  Spec /\ []Separate => []RentsAreDated
<1>1. ApartInv => RentsAreDated
  BY DEF ApartInv
<1> QED BY <1>1, ApartAlways, PTL

\* Each step of a handler leaves fewer statements to run: a creation, a deletion
\* or a change of a room never goes back to a statement it has run, whatever
\* fails and whatever other clients have made of the room (CreateRoom,
\* DeleteMachineRoom, ModifyRoomInfo).
THEOREM RoomStatementsRunOut == Spec => HandlersAdvance
<1> DEFINE Step == \A c \in Clients :
                      pc[c] \in Busy /\ <<pc[c], job[c]>> # <<pc'[c], job'[c]>> =>
                         StepsLeft(pc'[c], job'[c]) < StepsLeft(pc[c], job[c])
<1>1. WorkInv /\ [Next]_vars => [Step]_vars
  <2> SUFFICES ASSUME WorkInv, Next, NEW c \in Clients, pc[c] \in Busy,
                      <<pc[c], job[c]>> # <<pc'[c], job'[c]>>
               PROVE  StepsLeft(pc'[c], job'[c]) < StepsLeft(pc[c], job[c])
    OBVIOUS
  <2>1. PICK d \in Clients : Handler(d) \/ Gesture(d)
    BY DEF Next
  <2>2. d = c
    BY <2>1, OthersIdle DEF WorkInv
  <2>3. ~Gesture(c)
    BY DEF Gesture, Restart, ShowRooms, OpenRentWindow, UseMachine, CloseRentWindow,
           OpenCreateWindow, Finish, OpenRoom, ClickSum, ClickDelete, ClickManage, ConfirmCreate,
           CloseModifyWindow, ConfirmModify, Busy
  <2> QED BY <2>1, <2>2, <2>3, HandlerAdvances
<1> QED BY WorkAlways, <1>1, PTL DEF Spec, HandlersAdvance
=============================================================================
