---------------------------- MODULE Wards_proofs ----------------------------
(***************************************************************************)
(* What the room page promises when every room is looked after at one      *)
(* client only, which is where its buttons are used, and no statement      *)
(* fails: nobody sits in a closed room, no vector is read past its end,    *)
(* and the rooms behave as RoomBook says.  The counts of ModifyRoomInfo    *)
(* and DeleteMachineRoom, and what the page shows of the client's own      *)
(* rooms, are then still true when they are used.                          *)
(***************************************************************************)
EXTENDS RoomAdmin_proofs

CONSTANT Wards   \* the rooms each client looks after

OneWard ==
    /\ ~SqlErrors
    /\ Wards \in [Clients -> SUBSET Rooms]
    /\ \A c, d \in Clients : Wards[c] \cap Wards[d] # {} => c = d

\* What a user does with a room of the list, or to make one.
Touch(c, r) ==
    \/ OpenRoom(c, r) \/ ClickSum(c, r) \/ ClickDelete(c, r) \/ ClickManage(c, r)
    \/ \E u \in Ids : ConfirmCreate(c, r, u)

\* Every client keeps to its own rooms.
InWard  == \A c \in Clients, r \in Rooms : Touch(c, r) => r \in Wards[c]
Keeping == [][InWard]_vars

\* What a client works on is in its ward.
Mine(c) ==
    /\ pc[c] \in Busy => job[c].room \in Wards[c]
    /\ page[c] # NULL => page[c] \in Wards[c]
    /\ \A s \in Slots : win[c][s] # NULL => win[c][s].room \in Wards[c]

\* The rooms of the ward that the page shows are there, and open if they look open,
\* except between a change of the client's own and the refresh that follows it.
\* There is no refresh when the schema rejects a manager after the status was
\* written.
PageTrue(c) ==
    /\ pc[c] \in {"main", "rent", "manage", "modify"} =>
          /\ \A r \in Wards[c] : list[c][r] # NULL => record[r] # NULL
          /\ page[c] # NULL => record[page[c]] # NULL
    /\ pc[c] \in {"main", "rent", "manage"} /\ ~ForeignKey =>
          /\ \A r \in Wards[c] : list[c][r] = Enabled => record[r].status = Enabled
          /\ page[c] # NULL => record[page[c]].status = Enabled

Shown(c) ==
    /\ pc[c] # "crashed"
    /\ pc[c] = "manage" => record[job[c].room] # NULL
    /\ pc[c] = "modify" /\ job[c].status # -1 => inUse[job[c].room] = 0
    /\ PageTrue(c)

WardInv == ApartInv /\ (~ForeignKey => DisabledRoomEmpty) /\ \A c \in Clients : Mine(c) /\ Shown(c)

-----------------------------------------------------------------------------
(* Wards keep the clients apart. *)

LEMMA WardsSeparate ==
    ASSUME OneWard, TypeOK, \A c \in Clients : Mine(c)
    PROVE  Separate
<1>1. ASSUME NEW c \in Clients, At(c) # NULL PROVE At(c) \in Wards[c]
  BY <1>1 DEF At, Mine, Changing
<1> QED BY <1>1 DEF OneWard, Separate

LEMMA OthersKept ==
    ASSUME OneWard, WardInv, NEW c \in Clients, Handler(c) \/ Gesture(c),
           \A q \in Rooms \ Wards[c] : record'[q] = record[q] /\ inUse'[q] = inUse[q]
    PROVE  \A d \in Clients \ {c} : Mine(d)' /\ Shown(d)'
<1> SUFFICES ASSUME NEW d \in Clients \ {c} PROVE Mine(d)' /\ Shown(d)'
  OBVIOUS
<1>1. /\ pc'[d] = pc[d] /\ job'[d] = job[d] /\ list'[d] = list[d]
      /\ page'[d] = page[d] /\ win'[d] = win[d]
  BY OthersIdle DEF WardInv, ApartInv
<1>2. Mine(d) /\ Shown(d)
  BY DEF WardInv
<1>3. \A q \in Wards[d] : record'[q] = record[q] /\ inUse'[q] = inUse[q]
  BY DEF OneWard
<1>4. Mine(d)'
  BY <1>1, <1>2 DEF Mine
<1>5. /\ page[d] # NULL => page[d] \in Wards[d]
      /\ pc[d] \in {"manage", "modify"} => job[d].room \in Wards[d]
  BY <1>2 DEF Mine, Busy
<1>6. PageTrue(d)'
  BY <1>1, <1>2, <1>3, <1>5 DEF Shown, PageTrue
<1>7. Shown(d)'
  BY <1>1, <1>2, <1>3, <1>5, <1>6 DEF Shown
<1> QED BY <1>4, <1>7

-----------------------------------------------------------------------------
(* Steps. *)

LEMMA InitWard == ASSUME OneWard, Init PROVE WardInv
<1>1. DisabledRoomEmpty
  BY DEF Init, DisabledRoomEmpty
<1>2. ASSUME NEW c \in Clients PROVE Mine(c) /\ Shown(c)
  <2>1. /\ pc[c] = "main" /\ page[c] = NULL
        /\ \A s \in Slots : win[c][s] = NULL
        /\ TypeOK
    BY InitTypeInv DEF Init, TypeInv
  <2>2. \A r \in Rooms : list[c][r] = NULL
    BY DEF Init, Empty
  <2>3. Wards[c] \subseteq Rooms
    BY DEF OneWard
  <2> QED BY <2>1, <2>2, <2>3, RoomAssumption DEF Mine, Shown, PageTrue, Busy, Enabled
<1> QED BY <1>1, <1>2, InitApart DEF WardInv

\* What the steps of one client start from.
LEMMA WardFacts ==
    ASSUME OneWard, WardInv, NEW c \in Clients
    PROVE  /\ Wards[c] \subseteq Rooms
           /\ ~SqlErrors
           /\ Mine(c) /\ Shown(c) /\ Separate
           /\ (~ForeignKey => DisabledRoomEmpty) /\ RentsAreDated /\ ApartInv
           /\ pc \in [Clients -> {"main", "rent", "create", "done", "crashed"} \cup Busy]
           /\ record \in [Rooms -> [status : {Disabled, Enabled}, manager : Ids] \cup {NULL}]
           /\ inUse \in [Rooms -> 0 .. MaxUse]
           /\ job \in [Clients -> Jobs]
           /\ list \in [Clients -> [Rooms -> {NULL, Disabled, Enabled}]]
           /\ page \in [Clients -> Rooms \cup {NULL}]
           /\ win \in [Clients -> [Slots -> [room : Rooms, status : {Disabled, Enabled}] \cup {NULL}]]
<1>1. TypeOK
  BY DEF WardInv, ApartInv, TypeInv
<1>2. Separate
  BY <1>1, WardsSeparate DEF WardInv
<1> QED BY <1>1, <1>2 DEF WardInv, ApartInv, OneWard, TypeOK

\* After a refresh the page shows what is so.
LEMMA RefreshTrue ==
    ASSUME OneWard, WardInv, NEW c \in Clients, Refresh(c), UNCHANGED record
    PROVE  PageTrue(c)' /\ page'[c] = NULL
<1>1. list' = [list EXCEPT ![c] = Listed] /\ page' = [page EXCEPT ![c] = NULL]
  BY DEF OneWard, Refresh
<1>2. list'[c] = Listed /\ page'[c] = NULL
  BY <1>1, WardFacts
<1>3. \A r \in Wards[c] : list'[c][r] # NULL =>
          record[r] # NULL /\ list'[c][r] = record[r].status
  BY <1>2, WardFacts DEF Listed
<1> QED BY <1>2, <1>3, RoomAssumption DEF PageTrue, Enabled

LEMMA WholeRoom ==
    ASSUME OneWard, WardInv, NEW c \in Clients, NEW r \in Wards[c], pc[c] \notin Changing
    PROVE  Whole(r)
<1>1. ASSUME NEW d \in Clients, pc[d] \in Changing PROVE job[d].room # r
  <2>1. Mine(d) /\ d # c
    BY <1>1 DEF WardInv
  <2>2. job[d].room \in Wards[d]
    BY <1>1, <2>1 DEF Mine, Changing
  <2> QED BY <2>1, <2>2 DEF OneWard
<1> QED BY <1>1, ApartFacts, WardFacts

\* What a step of c does to the rooms: nothing to those of others.
RoomsStep(c) ==
    /\ \A q \in Rooms \ Wards[c] : record'[q] = record[q] /\ inUse'[q] = inUse[q]
    /\ ~ForeignKey => DisabledRoomEmpty' /\ [Book!Next]_(Book!vars)

LEMMA RoomsAlone ==
    ASSUME OneWard, WardInv, NEW c \in Clients, UNCHANGED dbVars
    PROVE  RoomsStep(c)
BY DEF WardInv, RoomsStep, DisabledRoomEmpty, dbVars, Book!vars

\* A gesture.
LEMMA GestureWard ==
    ASSUME OneWard, WardInv, InWard, NEW c \in Clients, Gesture(c)
    PROVE  RoomsStep(c) /\ Mine(c)' /\ Shown(c)'
<1>a. /\ Wards[c] \subseteq Rooms
      /\ ~SqlErrors
      /\ pc[c] # "crashed"
      /\ page[c] # NULL => page[c] \in Wards[c]
      /\ \A s \in Slots : win[c][s] # NULL => win[c][s].room \in Wards[c]
      /\ PageTrue(c)
  BY WardFacts DEF Mine, Shown
<1>b. pc[c] \in {"main", "rent", "create", "done"} => pc[c] \notin Changing
  BY DEF Changing, Busy
<1>1. ~Restart(c)
  BY <1>a DEF Restart
<1>2. CASE ShowRooms(c)
  <2>1. pc'[c] = "main" /\ UNCHANGED <<dbVars, pc, job, win>>
    BY <1>2 DEF ShowRooms
  <2>2. PageTrue(c)' /\ page'[c] = NULL
    BY <1>2, RefreshTrue DEF ShowRooms, dbVars
  <2>3. Mine(c)'
    BY <1>a, <2>1, <2>2 DEF Mine, Busy
  <2> QED BY <2>1, <2>2, <2>3, RoomsAlone DEF Shown
<1>3. CASE OpenRentWindow(c) \/ CloseRentWindow(c)
  <2>1. /\ pc[c] \in {"main", "rent"} /\ pc'[c] \in {"main", "rent"}
        /\ UNCHANGED <<dbVars, list, page, win>>
    BY <1>3, WardFacts DEF OpenRentWindow, CloseRentWindow, Goto
  <2>2. Mine(c)'
    BY <1>a, <2>1 DEF Mine, Busy
  <2>3. Shown(c)'
    BY <1>a, <2>1 DEF Shown, PageTrue, dbVars
  <2> QED BY <2>1, <2>2, <2>3, RoomsAlone
<1>4. CASE UseMachine(c)
  <2>0. page[c] # NULL
    BY <1>4, WardFacts, RoomAssumption DEF UseMachine, WardInv, ApartInv, TypeInv, TypeOK
  <2>1. PICK r \in Wards[c] : r = page[c]
    BY <1>a, <2>0
  <2> USE <2>1
  <2>2. /\ pc[c] = "rent" /\ pc'[c] = "main"
        /\ UNCHANGED <<record, table, trigger, job, list, page, win>>
    BY <1>4, WardFacts DEF UseMachine, Goto
  <2>3. record[r] # NULL /\ (~ForeignKey => record[r].status = Enabled)
    BY <1>a, <2>0, <2>2 DEF PageTrue
  <2>4. \A q \in Rooms \ {r} : inUse'[q] = inUse[q]
    BY <1>a, <1>4, WardFacts DEF UseMachine
  <2>5. ~ForeignKey => DisabledRoomEmpty'
    BY <2>2, <2>3, <2>4, WardFacts DEF DisabledRoomEmpty
  <2>6. ~ForeignKey => Book!SitDown(r) \/ Book!Leave(r)
    BY <1>4, <2>2, <2>3 DEF UseMachine, Book!SitDown, Book!Leave, Book!Open, Enabled
  <2>7. RoomsStep(c)
    BY <1>a, <2>2, <2>4, <2>5, <2>6 DEF RoomsStep, Book!Next
  <2>8. Mine(c)'
    BY <1>a, <2>2 DEF Mine, Busy
  <2>9. Shown(c)'
    BY <1>a, <2>2 DEF Shown, PageTrue
  <2> QED BY <2>7, <2>8, <2>9
<1>5. CASE OpenCreateWindow(c)
  <2>1. pc'[c] = "create" /\ UNCHANGED <<dbVars, page, win>>
    BY <1>5, WardFacts DEF OpenCreateWindow, Goto
  <2>2. Mine(c)' /\ Shown(c)'
    BY <1>a, <2>1 DEF Mine, Shown, PageTrue, Busy
  <2> QED BY <2>1, <2>2, RoomsAlone
<1>6. CASE Finish(c)
  <2>1. pc'[c] = "main" /\ UNCHANGED dbVars /\ Refresh(c)
    BY <1>6, WardFacts DEF Finish, Goto
  <2>2. PageTrue(c)' /\ page'[c] = NULL
    BY <2>1, RefreshTrue DEF dbVars
  <2>3. \A s \in Slots : win'[c][s] \in {NULL, win[c][s]}
    BY <1>6, WardFacts DEF Finish
  <2>4. Mine(c)'
    BY <1>a, <2>1, <2>2, <2>3 DEF Mine, Busy
  <2>5. Shown(c)'
    BY <2>1, <2>2 DEF Shown
  <2> QED BY <2>1, <2>4, <2>5, RoomsAlone
<1>7. ASSUME NEW r \in Rooms, OpenRoom(c, r)
      PROVE  RoomsStep(c) /\ Mine(c)' /\ Shown(c)'
  <2>1. r \in Wards[c]
    BY <1>7 DEF InWard, Touch
  <2>2. /\ pc[c] = "main" /\ list[c][r] = Enabled /\ page'[c] = r
        /\ UNCHANGED <<dbVars, pc, job, list, win>>
    BY <1>7, WardFacts DEF OpenRoom
  <2>3. record[r] # NULL /\ (~ForeignKey => record[r].status = Enabled)
    BY <1>a, <2>1, <2>2, RoomAssumption DEF PageTrue, Enabled
  <2>4. Mine(c)'
    BY <1>a, <2>1, <2>2 DEF Mine, Busy
  <2>5. Shown(c)'
    BY <1>a, <2>2, <2>3 DEF Shown, PageTrue, dbVars
  <2> QED BY <2>2, <2>4, <2>5, RoomsAlone
<1>8. ASSUME NEW r \in Rooms, ClickSum(c, r)
      PROVE  FALSE
  <2>1. r \in Wards[c]
    BY <1>8 DEF InWard, Touch
  <2>2. record[r] # NULL /\ Whole(r)
    BY <1>8, <1>a, <1>b, <2>1, WholeRoom DEF ClickSum, PageTrue
  <2> QED BY <1>8, <1>a, <2>2 DEF ClickSum, Whole
<1>9. ASSUME NEW r \in Rooms, ClickDelete(c, r)
      PROVE  RoomsStep(c) /\ Mine(c)' /\ Shown(c)'
  <2>1. r \in Wards[c]
    BY <1>9 DEF InWard, Touch
  <2>2. pc'[c] = "dropTable" /\ job'[c].room = r /\ UNCHANGED <<dbVars, page, win>>
    BY <1>9, WardFacts, NoJobTyped DEF ClickDelete, Goto, NoJob
  <2>3. Mine(c)' /\ Shown(c)'
    BY <1>a, <2>1, <2>2 DEF Mine, Shown, PageTrue
  <2> QED BY <2>2, <2>3, RoomsAlone
<1>10. ASSUME NEW r \in Rooms, ClickManage(c, r)
       PROVE  RoomsStep(c) /\ Mine(c)' /\ Shown(c)'
  <2>1. r \in Wards[c]
    BY <1>10 DEF InWard, Touch
  <2>2. pc[c] = "main" /\ page[c] = NULL /\ record[r] # NULL /\ UNCHANGED dbVars
    BY <1>10, <1>a, <2>1 DEF ClickManage, PageTrue
  <2>3. /\ pc'[c] = "manage" /\ job'[c].room = r /\ page'[c] = NULL /\ win' = win
        /\ list'[c] = [list[c] EXCEPT ![r] = record[r].status]
    BY <1>10, <1>a, <2>2, WardFacts DEF ClickManage, Goto, NoJob
  <2>4. Mine(c)'
    BY <1>a, <2>1, <2>3 DEF Mine
  <2>5. PageTrue(c)'
    BY <1>a, <2>2, <2>3, WardFacts DEF PageTrue, dbVars
  <2>6. Shown(c)'
    BY <2>2, <2>3, <2>5 DEF Shown, dbVars
  <2> QED BY <2>2, <2>4, <2>6, RoomsAlone
<1>11. ASSUME NEW r \in Rooms, NEW u \in Ids, ConfirmCreate(c, r, u)
       PROVE  RoomsStep(c) /\ Mine(c)' /\ Shown(c)'
  <2>1. r \in Wards[c]
    BY <1>11 DEF InWard, Touch
  <2>2. pc'[c] = "createTable" /\ job'[c].room = r /\ UNCHANGED <<dbVars, page, win>>
    <3>1. [NoJob EXCEPT !.room = r, !.manager = u].room = r
      BY DEF NoJob
    <3> QED BY <1>11, <1>a, <3>1, WardFacts DEF ConfirmCreate, Goto
  <2>3. Mine(c)' /\ Shown(c)'
    BY <1>a, <2>1, <2>2 DEF Mine, Shown, PageTrue
  <2> QED BY <2>2, <2>3, RoomsAlone
<1>12. ASSUME NEW s \in Slots, CloseModifyWindow(c, s)
       PROVE  RoomsStep(c) /\ Mine(c)' /\ Shown(c)'
  <2>1. pc[c] = "main" /\ Refresh(c) /\ UNCHANGED <<dbVars, pc, job>>
    BY <1>12 DEF CloseModifyWindow
  <2>2. PageTrue(c)' /\ page'[c] = NULL
    BY <2>1, RefreshTrue DEF dbVars
  <2>3. \A t \in Slots : win'[c][t] \in {NULL, win[c][t]}
    BY <1>12, WardFacts DEF CloseModifyWindow
  <2>4. Mine(c)'
    BY <1>a, <2>1, <2>2, <2>3 DEF Mine, Busy
  <2>5. Shown(c)'
    BY <2>1, <2>2 DEF Shown
  <2> QED BY <2>1, <2>4, <2>5, RoomsAlone
<1>13. ASSUME NEW s \in Slots, NEW box \in {Disabled, Enabled}, NEW u \in Ids \cup {NULL},
              NEW fee \in BOOLEAN, ConfirmModify(c, s, box, u, fee)
       PROVE  RoomsStep(c) /\ Mine(c)' /\ Shown(c)'
  <2>1. /\ win[c][s] # NULL
        /\ pc[c] = "main" /\ pc'[c] = "modify" /\ job'[c].room = win[c][s].room
        /\ job'[c].status # -1 => inUse[job'[c].room] = 0
        /\ UNCHANGED <<dbVars, list, page, win>>
    BY <1>13, WardFacts DEF ConfirmModify, Goto, NobodyOn
  <2>2. Mine(c)'
    BY <1>a, <2>1 DEF Mine
  <2>3. Shown(c)'
    BY <1>a, <2>1 DEF Shown, PageTrue, dbVars
  <2> QED BY <2>1, <2>2, <2>3, RoomsAlone
<1> QED BY <1>1, <1>2, <1>3, <1>4, <1>5, <1>6, <1>7, <1>8, <1>9, <1>10, <1>11, <1>12, <1>13
        DEF Gesture

\* A handler: no statement of it fails, except for a manager the schema rejects.
LEMMA HandlerWard ==
    ASSUME OneWard, WardInv, NEW c \in Clients, Handler(c)
    PROVE  RoomsStep(c) /\ Mine(c)' /\ Shown(c)'
<1>a. /\ Wards[c] \subseteq Rooms
      /\ ~SqlErrors
      /\ Mine(c) /\ Shown(c) /\ Stage(c)
      /\ page[c] # NULL => page[c] \in Wards[c]
      /\ \A s \in Slots : win[c][s] # NULL => win[c][s].room \in Wards[c]
      /\ (~ForeignKey => DisabledRoomEmpty) /\ RentsAreDated
  BY WardFacts DEF Mine, WardInv, ApartInv
<1>r. PICK r \in Wards[c] : r = job[c].room
  <2>1. pc[c] \in Busy
    BY DEF Handler, CreateTable, CreateRecord, CommitRecord, CreateTrigger, DropTable,
           DropRecord, ModifyStatement, OpenModifyWindow, Busy
  <2> QED BY <1>a, <2>1 DEF Mine
<1> USE <1>r
<1>b. r \in Rooms
  BY <1>a
\* A step that leaves the rooms of RoomBook alone.
<1>c. ASSUME UNCHANGED <<record, inUse, page, win>>,
             pc'[c] \in {"create", "createRecord", "createTrigger", "dropRecord", "done"},
             pc'[c] \in Busy => job'[c].room = r
      PROVE  RoomsStep(c) /\ Mine(c)' /\ Shown(c)'
  <2>1. RoomsStep(c)
    BY <1>a, <1>c DEF RoomsStep, DisabledRoomEmpty, Book!vars
  <2>2. Mine(c)' /\ Shown(c)'
    BY <1>a, <1>c DEF Mine, Shown, PageTrue
  <2> QED BY <2>1, <2>2
<1>1. CASE CreateTable(c)
  <2>1. pc[c] = "createTable" /\ UNCHANGED <<record, inUse>>
    BY <1>1 DEF CreateTable
  <2>2. CASE GiveUp(c)
    <3>1. pc'[c] = "create" /\ UNCHANGED <<page, win>>
      BY <1>a, <2>2, WardFacts DEF GiveUp, Goto
    <3> QED BY <1>c, <2>1, <3>1 DEF Busy
  <2>3. CASE Goto(c, "createRecord") /\ UNCHANGED <<job, page, win>>
    <3>1. pc'[c] = "createRecord"
      BY <2>3, WardFacts DEF Goto
    <3> QED BY <1>c, <2>1, <2>3, <3>1
  <2> QED BY <1>1, <2>2, <2>3 DEF CreateTable
<1>2. CASE CreateRecord(c)
  <2>1. record[r] = NULL
    BY <1>2, <1>a DEF CreateRecord, Stage
  <2>2. /\ UNCHANGED <<record, inUse, page, win>>
        /\ (pc'[c] = "createTrigger" /\ job' = job) \/ pc'[c] = "create"
    BY <1>2, <1>a, <2>1, WardFacts DEF CreateRecord, GiveUp, Goto
  <2> QED BY <1>c, <2>2 DEF Busy
<1>3. CASE CommitRecord(c)
  <2>1. pc[c] = "createTrigger" /\ record[r] = NULL /\ inUse[r] = 0
    BY <1>3, <1>a DEF CommitRecord, Stage
  <2>2. /\ pc'[c] = "createCommitted"
        /\ UNCHANGED <<inUse, job, page, win>>
        /\ \A q \in Rooms \ {r} : record'[q] = record[q]
    BY <1>3, <1>a, <1>b, WardFacts DEF CommitRecord, WithRow, Goto
  <2>3. ~ForeignKey => DisabledRoomEmpty'
    BY <1>a, <2>1, <2>2 DEF DisabledRoomEmpty
  <2>4. \E m \in Ids : Book!Create(r, m)
    <3>1. job[c].manager \in Ids
      BY <2>1, WardFacts DEF ApartInv, TypeInv, JobReady
    <3>2. Book!Create(r, job[c].manager)
      BY <1>3, <1>a, <2>1, <2>2
         DEF CommitRecord, WithRow, Book!Create, Book!Open, Book!Closed, Enabled, Disabled
    <3> QED BY <3>1, <3>2
  <2>5. RoomsStep(c)
    BY <1>b, <2>2, <2>3, <2>4 DEF RoomsStep, Book!Next
  <2>6. Mine(c)' /\ Shown(c)'
    BY <1>a, <2>2 DEF Mine, Shown, PageTrue
  <2> QED BY <2>5, <2>6
<1>4. CASE CreateTrigger(c)
  <2>1. r \in table \ trigger
    BY <1>4, <1>a DEF CreateTrigger, Stage
  <2>2. pc'[c] = "done" /\ UNCHANGED <<record, inUse, page, win>>
    BY <1>4, <1>a, <2>1, WardFacts DEF CreateTrigger, Goto
  <2> QED BY <1>c, <2>2 DEF Busy
<1>5. CASE DropTable(c)
  <2>1. r \in table /\ inUse[r] = 0
    BY <1>5, <1>a DEF DropTable, Stage
  <2>2. /\ pc'[c] = "dropRecord" /\ UNCHANGED <<record, job, page, win>>
        /\ inUse' = [inUse EXCEPT ![r] = 0]
    BY <1>5, <1>a, <2>1, WardFacts DEF DropTable, Goto
  <2>3. inUse' = inUse
    BY <2>1, <2>2, WardFacts
  <2> QED BY <1>c, <2>2, <2>3
<1>6. CASE DropRecord(c)
  <2>1. r \notin table
    BY <1>6, <1>a DEF DropRecord, Stage
  <2>2. inUse[r] = 0
    BY <1>a, <1>b, <2>1, ApartFacts, WardFacts
  <2>3. /\ pc'[c] = "done" /\ UNCHANGED <<inUse, page, win>>
        /\ record' = [record EXCEPT ![r] = NULL]
    BY <1>6, <1>a, WardFacts DEF DropRecord, Goto
  <2>4. (~ForeignKey => DisabledRoomEmpty') /\ \A q \in Rooms \ Wards[c] : record'[q] = record[q]
    BY <1>a, <1>b, <2>3, WardFacts DEF DisabledRoomEmpty
  <2>5. [Book!Next]_(Book!vars)
    <3>1. CASE record[r] = NULL
      <4>1. record' = record
        BY <1>b, <2>3, <3>1, WardFacts
      <4> QED BY <2>3, <4>1 DEF Book!vars
    <3>2. CASE record[r] # NULL
      <4>1. Book!GiveUp(r)
        BY <2>2, <2>3, <3>2 DEF Book!GiveUp
      <4> QED BY <1>b, <4>1 DEF Book!Next
    <3> QED BY <3>1, <3>2
  <2>6. Mine(c)' /\ Shown(c)'
    BY <1>a, <2>3 DEF Mine, Shown, PageTrue, Busy
  <2> QED BY <2>3, <2>4, <2>5, <2>6 DEF RoomsStep
<1>7. CASE ModifyStatement(c)
  <2> DEFINE j == job[c]
  <2>1. /\ pc[c] = "modify" /\ j \in Jobs
        /\ j.status # -1 => inUse[r] = 0
        /\ UNCHANGED <<inUse, page, win>>
    BY <1>7, <1>a, WardFacts DEF ModifyStatement, ReturnMain, Shown
  <2>a. CASE ReturnMain(c) /\ record' = record
    <3>1. pc'[c] = "main" /\ UNCHANGED <<record, inUse, list, page, win>> /\ ForeignKey
      BY <1>7, <1>a, <2>1, <2>a, WardFacts DEF ModifyStatement, ReturnMain, Goto
    <3>2. Mine(c)' /\ Shown(c)'
      BY <1>a, <2>1, <3>1 DEF Mine, Shown, PageTrue, Busy
    <3> QED BY <3>1, <3>2 DEF RoomsStep
  <2>b. SUFFICES ASSUME ~(ReturnMain(c) /\ record' = record)
                 PROVE  RoomsStep(c) /\ Mine(c)' /\ Shown(c)'
    BY <2>a
  <2>2. /\ job' = [job EXCEPT ![c] = Rest(j)] /\ list' = list
        /\ pc'[c] \in {"done", "modify"}
        /\ record' = [record EXCEPT ![r] =
              IF @ = NULL THEN NULL
              ELSE IF j.status # -1 THEN [@ EXCEPT !.status = j.status]
              ELSE IF j.manager # NULL THEN [@ EXCEPT !.manager = j.manager]
              ELSE @]
    BY <1>7, <1>a, <2>b, WardFacts DEF ModifyStatement, Goto
  <2>3. Rest(j).status = -1 /\ Rest(j).room = r
    BY <2>1 DEF Rest, Jobs
  <2>4. \A q \in Rooms \ {r} : record'[q] = record[q]
    BY <1>b, <2>2, WardFacts
  <2>5. ~ForeignKey => DisabledRoomEmpty' /\ [Book!Next]_(Book!vars)
    <3> SUFFICES ASSUME ~ForeignKey PROVE DisabledRoomEmpty' /\ [Book!Next]_(Book!vars)
      OBVIOUS
    <3>1. CASE record[r] = NULL
      <4>1. record' = record
        BY <1>b, <2>2, <3>1, WardFacts
      <4> QED BY <1>a, <2>1, <4>1 DEF DisabledRoomEmpty, Book!vars
    <3>2. CASE record[r] # NULL /\ j.status # -1
      <4>1. j.status \in {Disabled, Enabled}
        BY <2>1, <3>2 DEF Jobs
      <4>2. record' = [record EXCEPT ![r] = [@ EXCEPT !.status = j.status]]
        BY <1>b, <2>2, <3>2, WardFacts
      <4>3. Book!SetStatus(r, j.status)
        BY <2>1, <3>2, <4>2 DEF Book!SetStatus
      <4>4. [Book!Next]_(Book!vars)
        BY <1>b, <4>1, <4>3 DEF Book!Next, Book!Open, Book!Closed, Enabled, Disabled
      <4>5. DisabledRoomEmpty'
        BY <1>a, <2>1, <2>4, <3>2 DEF DisabledRoomEmpty
      <4> QED BY <4>4, <4>5
    <3>3. CASE record[r] # NULL /\ j.status = -1
      <4> DEFINE new == IF j.manager # NULL THEN [record[r] EXCEPT !.manager = j.manager]
                        ELSE record[r]
      <4>1. record' = [record EXCEPT ![r] = new]
        BY <1>b, <2>2, <3>3, WardFacts
      <4>2. new.status = record[r].status
        BY <1>b, <3>3, WardFacts
      <4>3. DisabledRoomEmpty'
        <5>1. record'[r].status = record[r].status
          BY <1>b, <4>1, <4>2, WardFacts
        <5> QED BY <1>a, <2>1, <2>4, <3>3, <5>1 DEF DisabledRoomEmpty
      <4>4. CASE j.manager = NULL
        <5>1. record' = record
          BY <1>b, <4>1, <4>4, WardFacts
        <5> QED BY <2>1, <4>3, <5>1 DEF Book!vars
      <4>5. CASE j.manager # NULL
        <5>1. j.manager \in Ids
          BY <2>1, <4>5 DEF Jobs
        <5>2. Book!HandOver(r, j.manager)
          BY <2>1, <3>3, <4>1, <4>5 DEF Book!HandOver
        <5>3. [Book!Next]_(Book!vars)
          BY <1>b, <5>1, <5>2 DEF Book!Next
        <5> QED BY <4>3, <5>3
      <4> QED BY <4>4, <4>5
    <3> QED BY <3>1, <3>2, <3>3
  <2>6. RoomsStep(c)
    BY <2>1, <2>4, <2>5 DEF RoomsStep
  <2>7. job'[c] = Rest(j)
    BY <2>2, WardFacts
  <2>8. Mine(c)'
    BY <1>a, <2>1, <2>2, <2>3, <2>7 DEF Mine
  <2>9. Shown(c)'
    BY <1>a, <1>7, <2>1, <2>2, <2>3, <2>7, ModifyKeepsRooms, WardFacts DEF Shown, PageTrue
  <2> QED BY <2>6, <2>8, <2>9
<1>8. ASSUME NEW s \in Slots, OpenModifyWindow(c, s)
      PROVE  RoomsStep(c) /\ Mine(c)' /\ Shown(c)'
  <2>1. pc[c] = "manage" /\ record[r] # NULL /\ UNCHANGED dbVars
    BY <1>8, <1>a DEF OpenModifyWindow, Shown
  <2>2. /\ pc'[c] = "main" /\ UNCHANGED <<list, page>>
        /\ win' = [win EXCEPT ![c][s] = [room |-> r, status |-> record[r].status]]
    BY <1>8, <1>a, <2>1, WardFacts DEF OpenModifyWindow, Goto
  <2>3. \A t \in Slots : win'[c][t] # NULL => win'[c][t].room \in Wards[c]
    <3> DEFINE w == [room |-> r, status |-> record[r].status]
    <3>1. w.room = r
      OBVIOUS
    <3>2. win'[c] = [win[c] EXCEPT ![s] = w]
      BY <2>2, WardFacts
    <3> HIDE DEF w
    <3>3. \A t \in Slots : win'[c][t] \in {w, win[c][t]}
      BY <3>2, WardFacts
    <3> QED BY <1>a, <3>1, <3>3
  <2>4. Mine(c)'
    BY <1>a, <2>2, <2>3 DEF Mine, Busy
  <2>5. Shown(c)'
    BY <1>a, <2>1, <2>2 DEF Shown, PageTrue, dbVars
  <2> QED BY <2>1, <2>4, <2>5, RoomsAlone
<1> QED BY <1>1, <1>2, <1>3, <1>4, <1>5, <1>6, <1>7, <1>8 DEF Handler

LEMMA NextWard ==
    ASSUME OneWard, WardInv, [InWard]_vars, [Next]_vars
    PROVE  WardInv' /\ (~ForeignKey => [Book!Next]_(Book!vars))
<1>a. ApartInv /\ Separate /\ TypeInv' /\ ~SqlErrors
  <2>1. TypeInv /\ \A c \in Clients : Mine(c)
    BY DEF WardInv, ApartInv
  <2>2. Separate
    BY <2>1, WardsSeparate DEF TypeInv
  <2>3. TypeInv'
    BY <2>1, NextTyped
  <2> QED BY <2>2, <2>3 DEF WardInv, OneWard
<1>1. CASE UNCHANGED vars
  <2>1. Separate' /\ (~ForeignKey => DisabledRoomEmpty') /\ \A c \in Clients : Mine(c)' /\ Shown(c)'
    BY <1>1, <1>a DEF vars, dbVars, clientVars, WardInv, Separate, At, DisabledRoomEmpty,
                      Mine, Shown, PageTrue
  <2>2. ApartInv'
    BY <1>a, <2>1, NextApart
  <2> QED BY <1>1, <2>1, <2>2 DEF WardInv, Book!vars, vars, dbVars
<1>2. ASSUME NEW c \in Clients, Handler(c) \/ Gesture(c), ~UNCHANGED vars
      PROVE  WardInv' /\ (~ForeignKey => [Book!Next]_(Book!vars))
  <2>1. RoomsStep(c) /\ Mine(c)' /\ Shown(c)'
    BY <1>2, HandlerWard, GestureWard
  <2>2. \A d \in Clients : Mine(d)' /\ Shown(d)'
    BY <1>2, <2>1, OthersKept DEF RoomsStep
  <2>3. Separate'
    <3>1. TypeOK' /\ \A d \in Clients : Mine(d)'
      BY <1>a, <2>2 DEF TypeInv
    <3>2. ASSUME NEW d \in Clients, At(d)' # NULL PROVE At(d)' \in Wards[d]
      BY <3>1, <3>2 DEF At, Mine, Changing
    <3> QED BY <3>2 DEF OneWard, Separate
  <2>4. ApartInv'
    BY <1>2, <1>a, <2>3, NextApart
  <2> QED BY <2>1, <2>2, <2>4 DEF WardInv, RoomsStep
<1> QED BY <1>1, <1>2 DEF Next

-----------------------------------------------------------------------------
(* Theorems. *)

\* The inductive invariant holds as long as every client keeps to its rooms.
LEMMA WardAlways == ASSUME OneWard PROVE Spec /\ Keeping => []WardInv
<1>1. WardInv /\ [InWard]_vars /\ [Next]_vars => WardInv'
  BY NextWard
<1>2. Init => WardInv
  BY InitWard
<1> QED BY <1>1, <1>2, PTL DEF Spec, Keeping

\* Such clients are never at the same room: what RoomAdmin_proofs shows
\* of clients that keep apart holds of them.
LEMMA WardsApart == ASSUME OneWard PROVE Spec /\ Keeping => []Separate
<1>1. WardInv => Separate
  BY WardsSeparate DEF WardInv, ApartInv, TypeInv
<1> QED BY <1>1, WardAlways, PTL

\* A program that runs once looks after every room, and keeps to them.
LEMMA OneClientKeeps ==
    ASSUME ~SqlErrors, \A c, d \in Clients : c = d,
           Wards = [c \in Clients |-> Rooms]
    PROVE  OneWard /\ (Spec => Keeping)
<1>1. OneWard /\ InWard
  BY DEF OneWard, InWard
<1> QED BY <1>1, PTL DEF Keeping

\* ModifyRoomInfo closes a room only when nobody sits in it, and nobody sits down
\* in a closed one: the count is still true when the status is written, and so is
\* the status the list shows when a room is opened.  A schema that rejects the new
\* manager after the status was written would leave the old list in front.
THEOREM WardDisabledRoomEmpty ==
    ASSUME OneWard, ~ForeignKey
    PROVE  Spec /\ Keeping => []DisabledRoomEmpty
<1>1. WardInv => DisabledRoomEmpty
  BY DEF WardInv
<1> QED BY <1>1, WardAlways, PTL

\* The room page reads no element of an empty vector: a room it shows is there,
\* whether or not the schema rejects managers that are no users.
THEOREM WardRoomsNoCrash == ASSUME OneWard PROVE Spec /\ Keeping => []NoCrash
<1>1. WardInv => NoCrash
  BY DEF WardInv, Shown, NoCrash
<1> QED BY <1>1, WardAlways, PTL

\* The rooms come, open, close, are handed over and go as RoomBook says: however
\* many statements a creation, a deletion or a change takes, its effect on the
\* rooms is one step, taken while its condition holds.
THEOREM WardImplementsBook ==
    ASSUME OneWard, ~ForeignKey
    PROVE  Spec /\ Keeping => BookSpec
<1>1. Init => Book!Init
  BY DEF Init, Book!Init
<1>2. WardInv /\ [InWard]_vars /\ [Next]_vars => [Book!Next]_(Book!vars)
  BY NextWard
<1> QED BY <1>1, <1>2, WardAlways, PTL DEF Spec, Keeping, BookSpec, Book!Spec
=============================================================================
