---------------------------- MODULE Clerks_proofs ----------------------------
(***************************************************************************)
(* What the windows of MachineRental promise to several clients that add,  *)
(* edit, delete and rent at will, as long as no two of them rent machines  *)
(* of the same room.  OpenRentWindow lets in the manager of the room only, *)
(* and a room has one manager: two clients meet at a machine only when an  *)
(* account is logged in twice.                                             *)
(***************************************************************************)
EXTENDS MachineRental_proofs

\* No room is managed at two clients that may rent.
OneClerk == \A c, d \in Super : Manages[c] \cap Manages[d] # {} => c = d

\* One client rents, however many look, add, edit and delete; no statement fails.
OneDesk == ~SqlErrors /\ \A c, d \in Super : Manages[c] # {} /\ Manages[d] # {} => c = d

RentPages == {"rentLoad", "rentInfo", "rentUpdate", "pageFree", "pageUse", "pagePay"}

\* A rent window is one of a room its client manages, and still knows of its
\* machine that it is free, or who sits at it if anybody does.
Clerk(c) ==
    /\ \A m \in view[c] : RoomOf[m] = room[c]
    /\ pc[c] \in RentPages => c \in Super /\ RoomOf[mach[c]] \in Manages[c]
    /\ pc[c] \in {"pageFree", "rentUpdate"} => row[mach[c]].uid = NULL
    /\ pc[c] = "pageUse" => row[mach[c]].uid \in {who[c], NULL}

ClerkInv == IInv /\ \A c \in Clients : Clerk(c)

\* What a step of c does to the user of a machine: nothing, or it is free
\* afterwards, or c rents it out.
UserStep(c, m) ==
    \/ row'[m].uid \in {row[m].uid, NULL}
    \/ pc[c] = "rentUpdate" /\ m = mach[c] /\ row'[m].uid = who[c] /\ m \in exists

\* Closing a rental is up to the client that shows it.
BillStep(c) == bills' # bills => pc[c] = "pageUse"

-----------------------------------------------------------------------------
(* Steps. *)

LEMMA UpdatedUser ==
    ASSUME row \in [Machines -> Rows], NEW m \in Machines, NEW new \in Rows, Update(m, new)
    PROVE  /\ m \in exists => row'[m].uid = new.uid
           /\ m \notin exists => row' = row
           /\ \A n \in Machines \ {m} : row'[n] = row[n]
<1>1. Trigger(new).uid = new.uid
  BY DEF Trigger, Rows
<1> QED BY <1>1 DEF Update

LEMMA EndedUser ==
    ASSUME row \in [Machines -> Rows], NEW m \in Machines, EndRentProcedure(m)
    PROVE  /\ row'[m].uid = NULL \/ row'[m].uid = row[m].uid
           /\ \A n \in Machines \ {m} : row'[n] = row[n]
  BY DEF EndRentProcedure

\* A client that is over shows nothing and knows nothing.
LEMMA OverClerk ==
    ASSUME ClerkInv, NEW c \in Clients, Over(c)
    PROVE  Clerk(c)' /\ pc'[c] = "crashed"
BY DEF Over, Goto, NoWindow, Clerk, RentPages, ClerkInv, IInv, ClientInv, ClientTypes

\* A handler does to a row what its window may do, and leaves the others' windows.
LEMMA ClerkHandler ==
    ASSUME ClerkInv, NEW c \in Clients, Handler(c)
    PROVE  /\ Clerk(c)'
           /\ \A m \in Machines : UserStep(c, m)
           /\ BillStep(c)
<1>a. /\ row \in [Machines -> Rows]
      /\ pc \in [Clients -> {"main", "crashed"} \cup Busy \cup Modal]
      /\ who \in [Clients -> Ids \cup {NULL}]
      /\ view \in [Clients -> SUBSET Machines]
      /\ seen \in [Clients -> {-1, Disabled, Idle, InUse}]
      /\ pc[c] \in AtMachine => mach[c] \in Machines
      /\ exists \subseteq Machines
      /\ todo[c] \in [hw : 0 .. MaxTouches, st : {-1, Disabled, Idle}]
      /\ \A m \in Machines : row[m].status = InUse <=> row[m].uid # NULL
      /\ NULL \notin Ids
  BY RentalAssumption
     DEF ClerkInv, IInv, DatabaseInv, DatabaseTypes, InUseConsistent, ClientInv, ClientTypes,
         WindowsReady, Ids
<1>b. /\ \A m \in view[c] : RoomOf[m] = room[c]
      /\ pc[c] \in RentPages => c \in Super /\ RoomOf[mach[c]] \in Manages[c]
      /\ pc[c] \in {"pageFree", "rentUpdate"} => row[mach[c]].uid = NULL
      /\ pc[c] = "pageUse" => row[mach[c]].uid \in {who[c], NULL}
  BY DEF ClerkInv, Clerk
<1>c. ASSUME Crash(c)
      PROVE  Clerk(c)'
  BY <1>c, OverClerk DEF Crash
<1>1. CASE LoadMachineUser(c)
  <2>1. UNCHANGED dbVars
    BY <1>1 DEF LoadMachineUser, Crash
  <2>2. Clerk(c)'
    <3>1. CASE mach[c] \in exists /\ Goto(c, PageFor(row[mach[c]].status)) /\ ~Crash(c)
      <4>1. /\ row[mach[c]].status \in {Disabled, Idle, InUse}
            /\ row[mach[c]].status = InUse <=> row[mach[c]].uid # NULL
        BY <1>a, <3>1 DEF Rows
      <4>2. /\ PageFor(row[mach[c]].status) \in {"pageUse", "pageFree", "rentInfo"}
            /\ PageFor(row[mach[c]].status) # "rentInfo" => row[mach[c]].uid = NULL
        BY <4>1 DEF PageFor, Disabled, Idle, InUse
      <4>3. pc'[c] \in {"pageUse", "pageFree", "rentInfo"}
            /\ (pc'[c] # "rentInfo" => row[mach[c]].uid = NULL)
        BY <3>1, <4>2, <1>a DEF Goto
      <4> QED BY <1>1, <1>b, <2>1, <3>1, <4>3
              DEF LoadMachineUser, Clerk, RentPages, pageVars, dbVars
    <3> QED BY <1>1, <1>c, <3>1 DEF LoadMachineUser
  <2> QED BY <2>1, <2>2 DEF UserStep, BillStep, dbVars
<1>2. CASE LoadRentInfo(c)
  <2>1. UNCHANGED dbVars
    BY <1>2 DEF LoadRentInfo, Crash
  <2>2. Clerk(c)'
    BY <1>2, <1>a, <1>b, <1>c, <2>1
       DEF LoadRentInfo, Goto, Clerk, RentPages, pageVars, dbVars
  <2> QED BY <2>1, <2>2 DEF UserStep, BillStep, dbVars
<1>3. CASE RentMachine(c)
  <2> DEFINE new == [row[mach[c]] EXCEPT !.uid = who[c]]
  <2>1. mach[c] \in Machines /\ pc[c] = "rentUpdate" /\ who[c] \in Ids
    BY <1>3, <1>a DEF RentMachine, AtMachine, ClerkInv, IInv, ClientInv, WindowsReady
  <2>2. CASE /\ Update(mach[c], new)
             /\ (Goto(c, "done") /\ UNCHANGED <<pageVars, windowVars>>) \/ Over(c)
    <3>1. new \in Rows /\ new.uid = who[c]
      BY <1>a, <2>1 DEF Rows
    <3>2. \A m \in Machines : UserStep(c, m)
      <4> HIDE DEF new
      <4> QED BY <1>a, <2>1, <2>2, <3>1, UpdatedUser DEF UserStep
    <3>3. Clerk(c)'
      BY <1>a, <1>b, <2>1, <2>2, OverClerk DEF Goto, Clerk, RentPages, pageVars
    <3>4. BillStep(c)
      BY <2>2 DEF Update, BillStep
    <3> QED BY <3>2, <3>3, <3>4
  <2>3. CASE Goto(c, "pageFree") /\ UNCHANGED <<dbVars, pageVars, mach>>
    <3>1. Clerk(c)'
      BY <1>a, <1>b, <2>1, <2>3 DEF Goto, Clerk, RentPages, pageVars, dbVars
    <3> QED BY <2>3, <3>1 DEF UserStep, BillStep, dbVars
  <2> QED BY <1>3, <2>2, <2>3 DEF RentMachine, AnswerLost
<1>4. CASE LoadMachineStatus(c)
  <2>1. UNCHANGED dbVars
    BY <1>4 DEF LoadMachineStatus
  <2>2. Clerk(c)'
    BY <1>4, <1>a, <1>b DEF LoadMachineStatus, Goto, Clerk, RentPages, pageVars
  <2> QED BY <2>1, <2>2 DEF UserStep, BillStep, dbVars
<1>5. CASE EditStatement(c)
  <2> DEFINE t == todo[c]
             new == IF t.hw > 0 THEN row[mach[c]] ELSE [row[mach[c]] EXCEPT !.status = t.st]
  <2>1. mach[c] \in Machines /\ pc[c] = "editRun"
    BY <1>5, <1>a DEF EditStatement, AtMachine
  <2>4. Clerk(c)'
    <3>1. CASE UNCHANGED pageVars /\ pc'[c] \in {"editRun", "done", "edit"}
      BY <1>b, <3>1 DEF Clerk, RentPages, pageVars
    <3> QED BY <1>5, <1>a, <3>1, OverClerk DEF EditStatement, AnswerLost, Goto
  <2>2. CASE Update(mach[c], new)
    <3>1. new \in Rows /\ new.uid = row[mach[c]].uid
      BY <1>5, <1>a, <2>1 DEF EditStatement, ClerkInv, IInv, ClientInv, WindowsReady, Rows
    <3>2. \A m \in Machines : UserStep(c, m)
      <4> HIDE DEF new
      <4> QED BY <1>a, <2>1, <2>2, <3>1, UpdatedUser DEF UserStep
    <3> QED BY <2>2, <2>4, <3>2 DEF Update, BillStep
  <2>3. CASE UNCHANGED dbVars
    BY <2>3, <2>4 DEF UserStep, BillStep, dbVars
  <2> QED BY <1>5, <2>2, <2>3 DEF EditStatement
<1> QED BY <1>1, <1>2, <1>3, <1>4, <1>5 DEF Handler

LEMMA ClerkGesture ==
    ASSUME ClerkInv, NEW c \in Clients, Gesture(c)
    PROVE  /\ Clerk(c)'
           /\ \A m \in Machines : UserStep(c, m)
           /\ BillStep(c)
<1>a. /\ row \in [Machines -> Rows]
      /\ pc \in [Clients -> {"main", "crashed"} \cup Busy \cup Modal]
      /\ room \in [Clients -> Rooms \cup {NULL}]
      /\ view \in [Clients -> SUBSET Machines]
      /\ mach \in [Clients -> Machines \cup {NULL}]
      /\ who \in [Clients -> Ids \cup {NULL}]
      /\ pc[c] \in AtMachine => mach[c] \in Machines
      /\ exists \subseteq Machines
  BY DEF ClerkInv, IInv, DatabaseInv, DatabaseTypes, ClientInv, ClientTypes, WindowsReady
<1>b. /\ \A m \in view[c] : RoomOf[m] = room[c]
      /\ pc[c] \in RentPages => c \in Super /\ RoomOf[mach[c]] \in Manages[c]
      /\ pc[c] \in {"pageFree", "rentUpdate"} => row[mach[c]].uid = NULL
      /\ pc[c] = "pageUse" => row[mach[c]].uid \in {who[c], NULL}
  BY DEF ClerkInv, Clerk
<1>0. ASSUME UNCHANGED <<row, bills>>
      PROVE  BillStep(c) /\ \A m \in Machines : UserStep(c, m)
  BY <1>0 DEF UserStep, BillStep
<1>1. CASE Restart(c)
  <2>1. Clerk(c)'
    BY <1>1, <1>a, <1>b DEF Restart, Goto, Clerk, RentPages, pageVars
  <2> QED BY <1>0, <1>1, <2>1 DEF Restart, dbVars
<1>2. ASSUME NEW r \in Rooms, OpenRoom(c, r)
      PROVE  Clerk(c)' /\ UNCHANGED dbVars
  BY <1>2, <1>a DEF OpenRoom, Clerk, RentPages, RowsOf
<1>3. CASE Finish(c)
  <2>1. Clerk(c)'
    BY <1>3, <1>a DEF Finish, Goto, Clerk, RentPages, RowsOf
  <2> QED BY <1>0, <1>3, <2>1 DEF Finish, dbVars
<1>4. CASE OpenAddWindow(c)
  <2>1. Clerk(c)'
    BY <1>4, <1>a, <1>b DEF OpenAddWindow, Goto, Clerk, RentPages, pageVars
  <2> QED BY <1>0, <1>4, <2>1 DEF OpenAddWindow, dbVars
<1>5. CASE EndRent(c)
  <2>1. /\ mach[c] \in Machines /\ pc[c] = "pageUse" /\ pc'[c] \in {"pageUse", "pagePay"}
        /\ UNCHANGED <<pageVars, windowVars>>
    BY <1>5, <1>a DEF EndRent, AtMachine, Goto
  <2>2. CASE EndRentProcedure(mach[c])
    <3>1. /\ row'[mach[c]].uid \in {row[mach[c]].uid, NULL}
          /\ \A m \in Machines : UserStep(c, m)
          /\ BillStep(c)
      BY <1>a, <2>1, <2>2, EndedUser DEF UserStep, BillStep
    <3>2. Clerk(c)'
      BY <1>b, <2>1, <3>1 DEF Clerk, RentPages, pageVars, windowVars
    <3> QED BY <3>1, <3>2
  <2>3. CASE UNCHANGED <<row, bills>>
    <3>1. Clerk(c)'
      BY <1>b, <2>1, <2>3 DEF Clerk, RentPages, pageVars, windowVars
    <3> QED BY <1>0, <2>3, <3>1
  <2> QED BY <1>5, <2>2, <2>3 DEF EndRent
<1>6. ASSUME NEW m \in Machines, DeleteMachine(c, m) \/ AddMachine(c, m)
      PROVE  Clerk(c)' /\ BillStep(c) /\ \A n \in Machines : UserStep(c, n)
  <2>1. /\ row' = [row EXCEPT ![m] = Fresh] /\ UNCHANGED bills
        /\ (Goto(c, "done") /\ UNCHANGED pageVars) \/ Over(c)
    BY <1>6 DEF DeleteMachine, AddMachine, AnswerLost
  <2>2. Clerk(c)'
    BY <1>a, <1>b, <2>1, OverClerk DEF Goto, Clerk, RentPages, pageVars
  <2> QED BY <1>a, <2>1, <2>2 DEF Fresh, UserStep, BillStep
<1>7. ASSUME NEW m \in Machines, OpenRentWindow(c, m) \/ OpenEditWindow(c, m)
      PROVE  Clerk(c)' /\ UNCHANGED dbVars
  BY <1>7, <1>a, <1>b DEF OpenRentWindow, OpenEditWindow, Goto, Clerk, RentPages, pageVars
<1>8. ASSUME NEW u \in Ids, ClickRent(c, u)
      PROVE  Clerk(c)' /\ UNCHANGED dbVars
  BY <1>8, <1>a, <1>b DEF ClickRent, Goto, Clerk, RentPages, pageVars, dbVars
<1>9. ASSUME NEW hw \in 0 .. MaxTouches, NEW box \in {Disabled, Idle}, ConfirmEdit(c, hw, box)
      PROVE  Clerk(c)' /\ UNCHANGED dbVars
  BY <1>9, <1>a, <1>b DEF ConfirmEdit, Goto, Clerk, RentPages, pageVars
<1>10. UNCHANGED dbVars => UNCHANGED <<row, bills>>
  BY DEF dbVars
<1> QED BY <1>0, <1>1, <1>2, <1>3, <1>4, <1>5, <1>6, <1>7, <1>8, <1>9, <1>10 DEF Gesture

\* A step of c moves no other client, nor what its window shows.
LEMMA OthersStay ==
    ASSUME IInv, NEW c \in Clients, Handler(c) \/ Gesture(c), NEW d \in Clients, d # c
    PROVE  /\ pc'[d] = pc[d] /\ room'[d] = room[d] /\ view'[d] = view[d]
           /\ canEdit'[d] = canEdit[d] /\ mach'[d] = mach[d] /\ who'[d] = who[d]
<1>a. /\ pc \in [Clients -> {"main", "crashed"} \cup Busy \cup Modal]
      /\ room \in [Clients -> Rooms \cup {NULL}]
      /\ view \in [Clients -> SUBSET Machines]
      /\ canEdit \in [Clients -> BOOLEAN]
      /\ mach \in [Clients -> Machines \cup {NULL}]
      /\ who \in [Clients -> Ids \cup {NULL}]
  BY DEF IInv, ClientInv, ClientTypes
<1>1. CASE Handler(c)
  BY <1>1, <1>a
     DEF Handler, LoadMachineUser, LoadRentInfo, RentMachine, LoadMachineStatus, EditStatement,
         AnswerLost, Crash, Over, NoWindow, Goto, pageVars, windowVars
<1>2. CASE Gesture(c)
  BY <1>2, <1>a
     DEF Gesture, Restart, OpenRoom, Finish, OpenAddWindow, EndRent, DeleteMachine, AddMachine,
         OpenRentWindow, OpenEditWindow, ClickRent, ConfirmEdit, AnswerLost, Over, NoWindow, Goto,
         pageVars, windowVars
<1> QED BY <1>1, <1>2

\* Two clerks never stand at one machine: what the other one knows stays true.
LEMMA NextClerk ==
    ASSUME OneClerk, ClerkInv, NEW c \in Clients, Handler(c) \/ Gesture(c)
    PROVE  ClerkInv'
<1>1. IInv'
  BY HandlerStep, GestureStep DEF ClerkInv
<1>2. Clerk(c)' /\ \A m \in Machines : UserStep(c, m)
  BY ClerkHandler, ClerkGesture
<1>3. ASSUME NEW d \in Clients, d # c
      PROVE  Clerk(d)'
  <2>1. /\ pc'[d] = pc[d] /\ room'[d] = room[d] /\ view'[d] = view[d]
        /\ mach'[d] = mach[d] /\ who'[d] = who[d]
    BY <1>3, OthersStay DEF ClerkInv
  <2>2. Clerk(c) /\ Clerk(d)
    BY DEF ClerkInv
  <2>3. pc[d] \in RentPages => mach[d] \in Machines
    BY DEF ClerkInv, IInv, ClientInv, WindowsReady, RentPages, AtMachine
  <2>4. ASSUME pc[d] \in RentPages
        PROVE  row'[mach[d]].uid \in {row[mach[d]].uid, NULL}
    <3>1. ~(pc[c] = "rentUpdate" /\ mach[d] = mach[c])
      BY <1>3, <2>2, <2>4 DEF Clerk, OneClerk, RentPages
    <3> QED BY <1>2, <2>3, <2>4, <3>1 DEF UserStep
  <2> QED BY <2>1, <2>2, <2>4 DEF Clerk, RentPages
<1> QED BY <1>1, <1>2, <1>3 DEF ClerkInv

LEMMA InitClerk == Init => ClerkInv
<1> SUFFICES ASSUME Init PROVE ClerkInv
  OBVIOUS
<1>1. \A c \in Clients : Clerk(c)
  BY DEF Init, Clerk, RentPages
<1> QED BY <1>1, InitIInv DEF ClerkInv

\* A step of nobody changes nothing that a window relies on.
LEMMA IdleClerk ==
    ASSUME ClerkInv, Tick \/ UNCHANGED vars
    PROVE  ClerkInv' /\ UNCHANGED <<dbVars, pc>>
<1>1. UNCHANGED <<dbVars, pc, pageVars, windowVars>>
  BY DEF Tick, vars
<1>2. IInv'
  BY NextIInv DEF ClerkInv, Next
<1>3. \A c \in Clients : Clerk(c)'
  BY <1>1 DEF ClerkInv, Clerk, dbVars, pageVars, windowVars
<1> QED BY <1>1, <1>2, <1>3 DEF ClerkInv

LEMMA ClerkInvariance == ASSUME OneClerk PROVE Spec => []ClerkInv
<1>1. ClerkInv /\ [Next]_vars => ClerkInv'
  BY IdleClerk, NextClerk DEF Next
<1> QED BY InitClerk, <1>1, PTL DEF Spec

-----------------------------------------------------------------------------
(* The desk. *)

\* A machine without a row is held by nobody.
NoRowNoUser == \A m \in Machines \ exists : row[m].uid = NULL

\* OneMachinePerUser, said of all the machines.
OneEach ==
    \A m, n \in Machines : row[m].uid # NULL /\ row[m].uid = row[n].uid => m = n

\* Who is about to get a machine has none.
Checked(c) == pc[c] = "rentUpdate" => \A m \in Machines : row[m].uid # who[c]

DeskInv == ClerkInv /\ NoRowNoUser /\ OneEach /\ \A c \in Clients : Checked(c)

LEMMA OneDeskOneClerk == OneDesk => OneClerk
BY DEF OneDesk, OneClerk

\* A step that leaves the rows alone is a step of the desk where nothing happens.
LEMMA RowsKept ==
    ASSUME NoRowNoUser, OneEach, UNCHANGED dbVars
    PROVE  NoRowNoUser' /\ OneEach' /\ UNCHANGED Desk!vars
  BY DEF NoRowNoUser, OneEach, dbVars, Desk!vars

\* A step of the desk, or none, by what happens to the holder of one machine.
LEMMA DeskRent ==
    ASSUME row \in [Machines -> Rows], NEW m \in Machines, NEW new, NEW u \in Ids, new.uid = u,
           row' = [row EXCEPT ![m] = new], bills' = bills,
           row[m].uid = NULL, \A n \in Machines : row[n].uid # u
    PROVE  Desk!Next
<1>1. Desk!Rent(m, u)
  BY DEF Desk!Rent
<1> QED BY <1>1 DEF Desk!Next

LEMMA DeskWithdraw ==
    ASSUME row \in [Machines -> Rows], NEW m \in Machines, NEW new, new.uid = NULL,
           row' = [row EXCEPT ![m] = new], bills' = bills
    PROVE  [Desk!Next]_(Desk!vars)
<1>1. CASE row[m].uid = NULL
  BY <1>1 DEF Desk!vars
<1>2. CASE row[m].uid # NULL
  <2>1. Desk!Withdraw(m)
    BY <1>2 DEF Desk!Withdraw
  <2> QED BY <2>1 DEF Desk!Next
<1> QED BY <1>1, <1>2

LEMMA DeskReturn ==
    ASSUME row \in [Machines -> Rows], NEW m \in Machines, NEW new, new.uid = NULL,
           NEW from \in Time, NEW to \in Time, from <= to,
           row[m].uid # NULL, row' = [row EXCEPT ![m] = new],
           bills' = bills \cup {[machine |-> m, from |-> from, to |-> to]}
    PROVE  Desk!Next
<1>1. Desk!Return(m, from, to)
  BY DEF Desk!Return
<1> QED BY <1>1 DEF Desk!Next

LEMMA DeskBillAgain ==
    ASSUME row \in [Machines -> Rows], NEW m \in Machines, row[m].uid = NULL,
           NEW from \in Time, NEW to \in Time, from <= to,
           \A n \in Machines : row'[n].uid = row[n].uid,
           bills' = bills \cup {[machine |-> m, from |-> from, to |-> to]}
    PROVE  Desk!Next
<1>1. Desk!BillAgain(m, from, to)
  BY DEF Desk!BillAgain
<1> QED BY <1>1 DEF Desk!Next

\* Rows that nobody uses any more leave the other promises intact.
LEMMA FreedKeeps ==
    ASSUME row \in [Machines -> Rows], NoRowNoUser, OneEach, NEW m \in Machines,
           NEW new, new.uid = NULL,
           row' = [row EXCEPT ![m] = new], exists \ {m} \subseteq exists'
    PROVE  NoRowNoUser' /\ OneEach'
  BY DEF NoRowNoUser, OneEach

\* What a client does to the machines is what a desk does.
LEMMA DeskHandler ==
    ASSUME ~SqlErrors, DeskInv, NEW c \in Clients, Handler(c)
    PROVE  NoRowNoUser' /\ OneEach' /\ [Desk!Next]_(Desk!vars)
<1>a. /\ row \in [Machines -> Rows]
      /\ exists \subseteq Machines
      /\ pc[c] \in AtMachine => mach[c] \in Machines
      /\ pc[c] = "rentUpdate" => who[c] \in Ids
      /\ todo[c] \in [hw : 0 .. MaxTouches, st : {-1, Disabled, Idle}]
      /\ NULL \notin Ids
      /\ NoRowNoUser /\ OneEach
  BY RentalAssumption
     DEF DeskInv, ClerkInv, IInv, DatabaseInv, DatabaseTypes, ClientInv, ClientTypes,
         WindowsReady, Ids
<1>1. CASE LoadMachineUser(c) \/ LoadRentInfo(c) \/ LoadMachineStatus(c)
  <2>1. UNCHANGED dbVars
    BY <1>1 DEF LoadMachineUser, LoadRentInfo, LoadMachineStatus, Crash
  <2> QED BY <1>a, <2>1, RowsKept
<1>2. CASE RentMachine(c)
  <2> DEFINE new == [row[mach[c]] EXCEPT !.uid = who[c]]
  <2>1. /\ mach[c] \in Machines /\ who[c] \in Ids
        /\ row[mach[c]].uid = NULL
        /\ \A m \in Machines : row[m].uid # who[c]
    BY <1>2, <1>a DEF RentMachine, AtMachine, DeskInv, Checked, ClerkInv, Clerk
  <2>2. CASE Update(mach[c], new) /\ mach[c] \in exists
    <3>1. row' = [row EXCEPT ![mach[c]] = Trigger(new)] /\ UNCHANGED <<exists, bills>>
      BY <2>2 DEF Update
    <3>2. Trigger(new).uid = who[c]
      BY <1>a, <2>1 DEF Trigger, Rows
    <3> HIDE DEF new
    <3>3. NoRowNoUser' /\ OneEach'
      BY <1>a, <2>1, <2>2, <3>1, <3>2 DEF NoRowNoUser, OneEach
    <3>4. Desk!Next
      BY <1>a, <2>1, <3>1, <3>2, DeskRent
    <3> QED BY <3>3, <3>4
  <2>3. CASE Update(mach[c], new) /\ mach[c] \notin exists
    <3>1. UNCHANGED dbVars
      BY <1>a, <2>1, <2>3 DEF Update, dbVars
    <3> QED BY <1>a, <3>1, RowsKept
  <2>4. CASE UNCHANGED dbVars
    BY <1>a, <2>4, RowsKept
  <2> QED BY <1>2, <2>2, <2>3, <2>4 DEF RentMachine
<1>3. CASE EditStatement(c)
  <2> DEFINE t == todo[c]
             new == IF t.hw > 0 THEN row[mach[c]] ELSE [row[mach[c]] EXCEPT !.status = t.st]
  <2>1. mach[c] \in Machines
    BY <1>3, <1>a DEF EditStatement, AtMachine
  <2>2. Update(mach[c], new)
    BY <1>3 DEF EditStatement
  <2>3. new \in Rows /\ new.uid = row[mach[c]].uid
    BY <1>3, <1>a, <2>1
       DEF EditStatement, DeskInv, ClerkInv, IInv, ClientInv, WindowsReady, Rows
  <2>4. UNCHANGED <<exists, bills>>
    BY <2>2 DEF Update
  <2>5. \A m \in Machines : row'[m].uid = row[m].uid
    <3> HIDE DEF new
    <3> QED BY <1>a, <2>1, <2>2, <2>3, UpdatedUser
  <2> QED BY <1>a, <2>4, <2>5 DEF NoRowNoUser, OneEach, Desk!vars
<1> QED BY <1>1, <1>2, <1>3 DEF Handler

LEMMA DeskGesture ==
    ASSUME ~SqlErrors, DeskInv, NEW c \in Clients, Gesture(c)
    PROVE  NoRowNoUser' /\ OneEach' /\ [Desk!Next]_(Desk!vars)
<1>a. /\ row \in [Machines -> Rows]
      /\ exists \subseteq Machines
      /\ pc[c] \in AtMachine => mach[c] \in Machines
      /\ NoRowNoUser /\ OneEach
  BY DEF DeskInv, ClerkInv, IInv, DatabaseInv, DatabaseTypes, ClientInv, ClientTypes, WindowsReady
<1>1. CASE UNCHANGED dbVars
  BY <1>a, <1>1, RowsKept
<1>2. CASE EndRent(c)
  <2>1. /\ mach[c] \in Machines /\ UNCHANGED exists
        /\ EndRentProcedure(mach[c])
    BY <1>2, <1>a DEF EndRent, AtMachine
  <2>2. CASE mach[c] \in exists /\ row[mach[c]].uid # NULL
    <3>1. bills' = bills \cup {[machine |-> mach[c], from |-> row[mach[c]].sdate, to |-> now]}
      BY <2>1, <2>2 DEF EndRentProcedure
    <3>2. PICK d : row' = [row EXCEPT ![mach[c]] = [status |-> Idle, uid |-> NULL, sdate |-> d]]
      BY <2>1, <2>2 DEF EndRentProcedure
    <3>3. /\ row[mach[c]].sdate \in Time /\ now \in Time
          /\ row[mach[c]].sdate <= now
      BY <2>1, <2>2, RentalAssumption
         DEF DeskInv, ClerkInv, IInv, DatabaseInv, InUseConsistent, DatabaseTypes, Time
    <3> DEFINE new == [status |-> Idle, uid |-> NULL, sdate |-> d]
    <3>4. new.uid = NULL /\ row' = [row EXCEPT ![mach[c]] = new]
      BY <3>2
    <3> HIDE DEF new
    <3>5. Desk!Next
      BY <1>a, <2>1, <2>2, <3>1, <3>3, <3>4, DeskReturn
    <3> QED BY <1>a, <2>1, <3>4, <3>5, FreedKeeps
  <2>3. CASE ~(mach[c] \in exists /\ row[mach[c]].uid # NULL)
    <3>1. \A m \in Machines : row'[m].uid = row[m].uid
      BY <1>a, <2>1, <2>3 DEF EndRentProcedure, Rows
    <3>2. NoRowNoUser' /\ OneEach'
      BY <1>a, <2>1, <3>1 DEF NoRowNoUser, OneEach
    <3>3. CASE bills' = bills
      BY <3>1, <3>2, <3>3 DEF Desk!vars
    <3>4. CASE bills' # bills
      <4>1. /\ row[mach[c]].uid = NULL /\ row[mach[c]].sdate # NULL
            /\ bills' = bills \cup {[machine |-> mach[c], from |-> row[mach[c]].sdate, to |-> now]}
        BY <2>1, <2>3, <3>4 DEF EndRentProcedure
      <4>2. /\ row[mach[c]].sdate \in Time /\ now \in Time
            /\ row[mach[c]].sdate <= now
        BY <2>1, <4>1, RentalAssumption
           DEF DeskInv, ClerkInv, IInv, DatabaseInv, DatesPast, DatabaseTypes, Rows, Time
      <4>3. Desk!Next
        BY <1>a, <2>1, <3>1, <4>1, <4>2, DeskBillAgain
      <4> QED BY <3>2, <4>3
    <3> QED BY <3>3, <3>4
  <2> QED BY <2>2, <2>3
<1>3. ASSUME NEW m \in Machines, DeleteMachine(c, m) \/ AddMachine(c, m)
      PROVE  NoRowNoUser' /\ OneEach' /\ [Desk!Next]_(Desk!vars)
  <2>1. /\ row' = [row EXCEPT ![m] = Fresh] /\ Fresh.uid = NULL
        /\ exists \ {m} \subseteq exists' /\ bills' = bills
    BY <1>3 DEF DeleteMachine, AddMachine, Fresh
  <2> QED BY <1>a, <2>1, FreedKeeps, DeskWithdraw
<1> QED BY <1>1, <1>2, <1>3
        DEF Gesture, Restart, OpenRoom, Finish, OpenAddWindow, OpenRentWindow, OpenEditWindow,
            ClickRent, ConfirmEdit

\* The check before a rental stays true until the machine is rented.
LEMMA CheckKept ==
    ASSUME OneDesk, DeskInv, NEW c \in Clients, Handler(c) \/ Gesture(c), NEW d \in Clients
    PROVE  Checked(d)'
<1>a. /\ pc \in [Clients -> {"main", "crashed"} \cup Busy \cup Modal]
      /\ who \in [Clients -> Ids \cup {NULL}]
      /\ NULL \notin Ids
      /\ NoRowNoUser
      /\ ClerkInv
      /\ IInv
  BY RentalAssumption DEF DeskInv, ClerkInv, IInv, ClientInv, ClientTypes, Ids
<1>1. CASE d # c /\ pc[d] = "rentUpdate"
  <2>1. ~(pc[c] = "rentUpdate")
    BY <1>1, <1>a DEF ClerkInv, Clerk, RentPages, OneDesk
  <2>2. \A m \in Machines : row'[m].uid \in {row[m].uid, NULL}
    BY <1>a, <2>1, ClerkHandler, ClerkGesture DEF UserStep
  <2>3. who[d] \in Ids /\ \A m \in Machines : row[m].uid # who[d]
    BY <1>1, <1>a DEF DeskInv, Checked, IInv, ClientInv, WindowsReady
  <2>4. who'[d] = who[d]
    BY <1>1, <1>a, OthersStay
  <2> QED BY <1>a, <2>2, <2>3, <2>4 DEF Checked
<1>2. CASE d # c /\ pc[d] # "rentUpdate"
  BY <1>2, <1>a, OthersStay DEF Checked
<1>3. CASE d = c /\ Handler(c)
  <2>1. mach[c] \in exists => PageFor(row[mach[c]].status) # "rentUpdate"
    BY <1>a DEF PageFor, IInv, DatabaseInv, DatabaseTypes, Rows, Disabled, Idle, InUse
  <2>2. pc'[c] # "rentUpdate"
    BY <1>3, <1>a, <2>1
       DEF Handler, LoadMachineUser, LoadRentInfo, RentMachine, LoadMachineStatus, EditStatement,
           AnswerLost, Crash, Over, Goto
  <2> QED BY <1>3, <2>2 DEF Checked
<1>4. ASSUME NEW u \in Ids, ClickRent(c, u), d = c
      PROVE  Checked(d)'
  <2>1. ~SomeOneIsRent(u) /\ UNCHANGED row /\ who'[c] = u
    BY <1>4, <1>a DEF ClickRent, OneDesk, dbVars
  <2> QED BY <1>4, <1>a, <2>1 DEF SomeOneIsRent, NoRowNoUser, Checked
<1>5. CASE d = c /\ Gesture(c) /\ ~\E u \in Ids : ClickRent(c, u)
  <2>1. pc'[c] # "rentUpdate"
    BY <1>5, <1>a
       DEF Gesture, Restart, OpenRoom, Finish, OpenAddWindow, EndRent, DeleteMachine, AddMachine,
           OpenRentWindow, OpenEditWindow, ConfirmEdit, AnswerLost, Over, Goto
  <2> QED BY <1>5, <2>1 DEF Checked
<1> QED BY <1>1, <1>2, <1>3, <1>4, <1>5

LEMMA InitDesk == Init => DeskInv
<1> SUFFICES ASSUME Init PROVE DeskInv
  OBVIOUS
<1>1. NoRowNoUser /\ OneEach /\ \A c \in Clients : Checked(c)
  BY DEF Init, NoRowNoUser, OneEach, Checked, Fresh
<1> QED BY <1>1, InitClerk DEF DeskInv

LEMMA NextDesk ==
    ASSUME OneDesk, DeskInv, [Next]_vars
    PROVE  DeskInv' /\ [Desk!Next]_(Desk!vars)
<1>1. CASE Tick \/ UNCHANGED vars
  <2>1. ClerkInv' /\ UNCHANGED <<dbVars, pc>> /\ who' = who
    BY <1>1, IdleClerk DEF DeskInv, Tick, vars, windowVars
  <2>2. NoRowNoUser' /\ OneEach' /\ UNCHANGED Desk!vars
    BY <2>1, RowsKept DEF DeskInv
  <2>3. \A c \in Clients : Checked(c)'
    BY <2>1 DEF DeskInv, Checked, dbVars
  <2> QED BY <2>1, <2>2, <2>3 DEF DeskInv
<1>2. ASSUME NEW c \in Clients, Handler(c) \/ Gesture(c)
      PROVE  DeskInv' /\ [Desk!Next]_(Desk!vars)
  <2>1. ClerkInv'
    BY <1>2, OneDeskOneClerk, NextClerk DEF DeskInv
  <2>2. NoRowNoUser' /\ OneEach' /\ [Desk!Next]_(Desk!vars)
    BY <1>2, DeskHandler, DeskGesture DEF OneDesk
  <2>3. \A d \in Clients : Checked(d)'
    BY <1>2, CheckKept
  <2> QED BY <2>1, <2>2, <2>3 DEF DeskInv
<1> QED BY <1>1, <1>2 DEF Next

-----------------------------------------------------------------------------
(* The results. *)

\* With one client per room's manager a machine is not handed over while somebody
\* is on it, although others disable, add and delete machines beside it, several
\* rent in other rooms, and statements may fail.
THEOREM ClerkNoTakeover == ASSUME OneClerk PROVE Spec => NoTakeover
<1> DEFINE A == \A m \in exists \cap exists' :
                   row[m].uid # NULL => row'[m].uid \in {row[m].uid, NULL}
<1>1. ClerkInv /\ [Next]_vars => [A]_vars
  <2> SUFFICES ASSUME ClerkInv, [Next]_vars, NEW m \in exists \cap exists', row[m].uid # NULL
               PROVE  row'[m].uid \in {row[m].uid, NULL}
    OBVIOUS
  <2>0. m \in Machines
    BY DEF ClerkInv, IInv, DatabaseInv, DatabaseTypes
  <2>1. CASE Tick \/ UNCHANGED vars
    BY <2>1, IdleClerk DEF dbVars
  <2>2. ASSUME NEW c \in Clients, Handler(c) \/ Gesture(c)
        PROVE  row'[m].uid \in {row[m].uid, NULL}
    <3>1. UserStep(c, m)
      BY <2>0, <2>2, ClerkHandler, ClerkGesture
    <3>2. ~(pc[c] = "rentUpdate" /\ m = mach[c])
      BY DEF ClerkInv, Clerk
    <3> QED BY <3>1, <3>2 DEF UserStep
  <2> QED BY <2>1, <2>2 DEF Next
<1> QED BY ClerkInvariance, <1>1, PTL DEF Spec, NoTakeover

\* With one client per room's manager the end button closes no rental but the one
\* its window shows, though EndRent is given the machine only and others may have deleted it.
THEOREM ClerkEndsShownRental == ASSUME OneClerk PROVE Spec => EndsShownRental
<1> DEFINE A == \A c \in Clients : pc[c] = "pageUse" /\ bills' # bills /\ pc'[c] # pc[c]
                   => row[mach[c]].uid \in {who[c], NULL}
<1>1. ClerkInv /\ [Next]_vars => [A]_vars
  <2> SUFFICES ASSUME ClerkInv, [Next]_vars, NEW d \in Clients,
                      pc[d] = "pageUse", bills' # bills, pc'[d] # pc[d]
               PROVE  row[mach[d]].uid \in {who[d], NULL}
    OBVIOUS
  <2>1. CASE Tick \/ UNCHANGED vars
    BY <2>1, IdleClerk
  <2>2. ASSUME NEW c \in Clients, Handler(c) \/ Gesture(c)
        PROVE  row[mach[d]].uid \in {who[d], NULL}
    <3>1. d = c
      BY <2>2, OthersStay DEF ClerkInv
    <3> QED BY <3>1 DEF ClerkInv, Clerk
  <2> QED BY <2>1, <2>2 DEF Next
<1> QED BY ClerkInvariance, <1>1, PTL DEF Spec, EndsShownRental

\* What a rental must leave behind when it ends: a bill from its start to now.
BillOf(m) == [machine |-> m, from |-> row[m].sdate, to |-> now]

\* No handler frees a machine: RentMachine puts somebody there, ModifyMachineInfo
\* leaves mh_uid alone.
LEMMA HandlerFreesNobody ==
    ASSUME IInv, NEW c \in Clients, Handler(c), NEW m \in Machines, row[m].uid # NULL
    PROVE  row'[m].uid # NULL
<1>a. /\ row \in [Machines -> Rows] /\ row[m] \in Rows
      /\ pc[c] \in AtMachine => mach[c] \in Machines
      /\ pc[c] = "rentUpdate" => who[c] \in Ids
      /\ todo[c] \in [hw : 0 .. MaxTouches, st : {-1, Disabled, Idle}]
      /\ pc[c] = "editRun" => todo[c].hw > 0 \/ todo[c].st # -1
      /\ NULL \notin Ids
  BY RentalAssumption
     DEF IInv, DatabaseInv, DatabaseTypes, ClientInv, ClientTypes, WindowsReady, Ids
<1>1. CASE UNCHANGED dbVars
  BY <1>1 DEF dbVars
<1>2. CASE RentMachine(c)
  <2> DEFINE new == [row[mach[c]] EXCEPT !.uid = who[c]]
  <2>1. mach[c] \in Machines /\ who[c] # NULL /\ new \in Rows /\ new.uid = who[c]
    BY <1>2, <1>a DEF RentMachine, AtMachine, Rows
  <2>2. CASE Update(mach[c], new)
    <3> HIDE DEF new
    <3> QED BY <1>a, <2>1, <2>2, UpdatedUser
  <2> QED BY <1>1, <1>2, <2>2 DEF RentMachine
<1>3. CASE EditStatement(c)
  <2> DEFINE t == todo[c]
             new == IF t.hw > 0 THEN row[mach[c]] ELSE [row[mach[c]] EXCEPT !.status = t.st]
  <2>1. mach[c] \in Machines /\ new \in Rows /\ new.uid = row[mach[c]].uid
    BY <1>3, <1>a DEF EditStatement, AtMachine, Rows
  <2>2. CASE Update(mach[c], new)
    <3> HIDE DEF new
    <3> QED BY <1>a, <2>1, <2>2, UpdatedUser
  <2> QED BY <1>1, <1>3, <2>2 DEF EditStatement
<1>4. CASE LoadMachineUser(c) \/ LoadRentInfo(c) \/ LoadMachineStatus(c)
  BY <1>1, <1>4 DEF LoadMachineUser, LoadRentInfo, LoadMachineStatus, Crash
<1> QED BY <1>2, <1>3, <1>4 DEF Handler

\* And of what the users do, only the end button frees one that stays.
LEMMA FreedIsBilled ==
    ASSUME IInv, NEW c \in Clients, Gesture(c), NEW m \in exists \cap exists',
           row[m].uid # NULL, row'[m].uid = NULL
    PROVE  BillOf(m) \in bills'
<1>a. /\ row \in [Machines -> Rows]
      /\ m \in Machines /\ m \in used
      /\ pc[c] \in AtMachine => mach[c] \in Machines
  BY DEF IInv, DatabaseInv, DatabaseTypes, ClientInv, WindowsReady
<1>1. row' # row
  OBVIOUS
<1>2. CASE EndRent(c)
  <2>1. EndRentProcedure(mach[c]) /\ mach[c] \in Machines
    BY <1>1, <1>2, <1>a DEF EndRent, AtMachine
  <2>2. mach[c] = m
    BY <1>a, <2>1, EndedUser
  <2> QED BY <2>1, <2>2 DEF EndRentProcedure, BillOf
<1>3. ASSUME NEW n \in Machines, DeleteMachine(c, n) \/ AddMachine(c, n)
      PROVE  FALSE
  <2>1. row' = [row EXCEPT ![n] = Fresh] /\ n # m
    BY <1>3, <1>a DEF DeleteMachine, AddMachine
  <2> QED BY <1>a, <2>1
<1> QED BY <1>1, <1>2, <1>3
        DEF Gesture, Restart, OpenRoom, Finish, OpenAddWindow, OpenRentWindow, OpenEditWindow,
            ClickRent, ConfirmEdit, dbVars

\* With one client per room's manager every rental leaves a bill, unless its row is
\* deleted: EndRent is the only way out, and nobody rents over the head of another.
THEOREM ClerkRentalsEndBilled == ASSUME OneClerk PROVE Spec => RentalsEndBilled
<1> DEFINE A == \A m \in exists \cap exists' :
                   row[m].uid \notin {NULL, row'[m].uid}
                      => [machine |-> m, from |-> row[m].sdate, to |-> now] \in bills'
<1>1. ClerkInv /\ [Next]_vars => [A]_vars
  <2> SUFFICES ASSUME ClerkInv, [Next]_vars, NEW m \in exists \cap exists',
                      row[m].uid \notin {NULL, row'[m].uid}
               PROVE  BillOf(m) \in bills'
    BY DEF BillOf
  <2>0. m \in Machines /\ IInv
    BY DEF ClerkInv, IInv, DatabaseInv, DatabaseTypes
  <2>1. CASE Tick \/ UNCHANGED vars
    BY <2>1, IdleClerk DEF dbVars
  <2>2. ASSUME NEW c \in Clients, Handler(c) \/ Gesture(c)
        PROVE  BillOf(m) \in bills'
    <3>1. UserStep(c, m)
      BY <2>0, <2>2, ClerkHandler, ClerkGesture
    <3>2. ~(pc[c] = "rentUpdate" /\ m = mach[c])
      BY DEF ClerkInv, Clerk
    <3>3. row'[m].uid = NULL
      BY <3>1, <3>2 DEF UserStep
    <3> QED BY <2>0, <2>2, <3>3, HandlerFreesNobody, FreedIsBilled
  <2> QED BY <2>1, <2>2 DEF Next
<1> QED BY ClerkInvariance, <1>1, PTL DEF Spec, RentalsEndBilled

\* As long as one client rents and no statement fails nobody sits at two machines,
\* whatever the other clients do to the machines meanwhile.
THEOREM DeskOneMachinePerUser == ASSUME OneDesk PROVE Spec => []OneMachinePerUser
<1>1. DeskInv /\ [Next]_vars => DeskInv'
  BY NextDesk
<1>2. DeskInv => OneMachinePerUser
  BY DEF DeskInv, OneEach, OneMachinePerUser, ClerkInv, IInv, DatabaseInv, DatabaseTypes
<1> QED BY InitDesk, <1>1, <1>2, PTL DEF Spec

\* As long as one client rents and no statement fails the program implements the
\* rental desk; a deletion by another client is a machine withdrawn.
THEOREM ImplementsDesk == ASSUME OneDesk PROVE Spec => DeskSpec
<1>1. Init => Desk!Init
  BY DEF Init, Desk!Init, Fresh
<1>2. DeskInv /\ [Next]_vars => DeskInv' /\ [Desk!Next]_(Desk!vars)
  BY NextDesk
<1> QED BY InitDesk, <1>1, <1>2, PTL DEF Spec, DeskSpec, Desk!Spec
=============================================================================
