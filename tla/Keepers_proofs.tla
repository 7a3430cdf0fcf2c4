--------------------------- MODULE Keepers_proofs ---------------------------
(***************************************************************************)
(* What the windows of MachineRental promise to any number of clients as   *)
(* long as no room is worked on at two of them: what a window has read of  *)
(* its machine is still so when it acts.  That is: no account is logged in *)
(* twice, and while a super administrator is logged in the others manage   *)
(* no room; they may look.                                                 *)
(***************************************************************************)
EXTENDS Clerks_proofs

\* The rooms whose machines slot_login and the room page let a client change.
May(c) == IF c \in Super THEN Rooms ELSE Manages[c]

OneKeeper == \A c, d \in Clients : May(c) \cap May(d) # {} => c = d

\* The buttons and windows of a client are about rooms it may change, and the
\* page with a rent button about an enabled machine.
Keeper(c) ==
    /\ \A m \in view[c] : RoomOf[m] = room[c]
    /\ canEdit[c] \/ pc[c] = "add" => room[c] \in May(c)
    /\ pc[c] \in AtMachine => RoomOf[mach[c]] \in May(c)
    /\ pc[c] \in {"pageFree", "rentUpdate"} => row[mach[c]].status = Idle

KeeperInv == IInv /\ \A c \in Clients : Keeper(c)

\* What a client has read of a room it may change is still so.
ViewFresh(c) ==
    /\ pc[c] # "crashed"
    /\ pc[c] = "main" /\ room[c] \in May(c) => view[c] \subseteq exists
    /\ pc[c] \in AtMachine => mach[c] \in exists
    /\ pc[c] = "rentInfo" => row[mach[c]].uid # NULL

FreshInv == KeeperInv /\ \A c \in Clients : ViewFresh(c)

\* A step of c changes machines of its own rooms only.
RoomStep(c) ==
    \A m \in Machines : row'[m] # row[m] \/ (m \in exists /\ m \notin exists') => RoomOf[m] \in May(c)

\* A machine gets into use by a client that read it as idle.
UseStep(c, m) ==
    row'[m].status = InUse => row[m].status = InUse \/ (pc[c] = "rentUpdate" /\ m = mach[c])

-----------------------------------------------------------------------------
(* Steps of one client. *)

LEMMA UpdatedUse ==
    ASSUME DatabaseInv, NEW m \in Machines, NEW new \in Rows, Update(m, new)
    PROVE  /\ \A n \in Machines \ {m} : row'[n] = row[n]
           /\ new.uid = NULL /\ new.status # InUse => row'[m].status # InUse \/ row' = row
           /\ UNCHANGED <<exists, bills>>
  BY DEF Update, Trigger, Rows, DatabaseInv, DatabaseTypes

LEMMA EndedUse ==
    ASSUME DatabaseInv, NEW m \in Machines, EndRentProcedure(m)
    PROVE  /\ \A n \in Machines \ {m} : row'[n] = row[n]
           /\ row'[m].status = InUse => row[m].status = InUse
<1>1. row \in [Machines -> Rows]
  BY DEF DatabaseInv, DatabaseTypes
<1> QED BY <1>1 DEF EndRentProcedure, Idle, InUse

\* A client that is over shows nothing and works on no machine.
LEMMA OverKeeper ==
    ASSUME KeeperInv, NEW c \in Clients, Over(c)
    PROVE  Keeper(c)'
BY DEF Over, Goto, NoWindow, Keeper, AtMachine, KeeperInv, IInv, ClientInv, ClientTypes

LEMMA KeeperHandler ==
    ASSUME KeeperInv, NEW c \in Clients, Handler(c)
    PROVE  Keeper(c)' /\ RoomStep(c) /\ (\A m \in Machines : UseStep(c, m)) /\ exists' = exists
<1>a. /\ row \in [Machines -> Rows]
      /\ pc \in [Clients -> {"main", "crashed"} \cup Busy \cup Modal]
      /\ who \in [Clients -> Ids \cup {NULL}]
      /\ view \in [Clients -> SUBSET Machines]
      /\ canEdit \in [Clients -> BOOLEAN]
      /\ pc[c] \in AtMachine => mach[c] \in Machines
      /\ exists \subseteq Machines
      /\ todo[c] \in [hw : 0 .. MaxTouches, st : {-1, Disabled, Idle}]
      /\ pc[c] = "editRun" => todo[c].hw > 0 \/ todo[c].st # -1
      /\ pc[c] = "rentUpdate" => who[c] \in Ids
      /\ \A m \in Machines : row[m].status = InUse <=> row[m].uid # NULL
      /\ DatabaseInv
  BY DEF KeeperInv, IInv, DatabaseInv, DatabaseTypes, InUseConsistent, ClientInv, ClientTypes,
         WindowsReady
<1>b. /\ \A m \in view[c] : RoomOf[m] = room[c]
      /\ canEdit[c] \/ pc[c] = "add" => room[c] \in May(c)
      /\ pc[c] \in AtMachine => RoomOf[mach[c]] \in May(c)
      /\ pc[c] \in {"pageFree", "rentUpdate"} => row[mach[c]].status = Idle
  BY DEF KeeperInv, Keeper
<1>0. ASSUME UNCHANGED dbVars
      PROVE  RoomStep(c) /\ (\A m \in Machines : UseStep(c, m)) /\ exists' = exists
  BY <1>0 DEF RoomStep, UseStep, dbVars
<1>c. ASSUME Crash(c)
      PROVE  Keeper(c)' /\ UNCHANGED dbVars
  BY <1>c, OverKeeper DEF Crash
<1>1. CASE LoadMachineUser(c)
  <2>1. CASE mach[c] \in exists /\ Goto(c, PageFor(row[mach[c]].status)) /\ ~Crash(c)
    <3>1. row[mach[c]].status \in {Disabled, Idle, InUse}
      BY <1>a, <2>1 DEF Rows
    <3>2. /\ PageFor(row[mach[c]].status) \in {"pageUse", "pageFree", "rentInfo"}
          /\ PageFor(row[mach[c]].status) = "pageFree" => row[mach[c]].status = Idle
      BY <3>1 DEF PageFor, Disabled, Idle, InUse
    <3>3. /\ pc'[c] \in {"pageUse", "pageFree", "rentInfo"}
          /\ pc'[c] = "pageFree" => row[mach[c]].status = Idle
      BY <2>1, <3>2, <1>a DEF Goto
    <3>4. pc[c] \in AtMachine /\ UNCHANGED <<dbVars, pageVars, mach>>
      BY <1>1, <2>1 DEF LoadMachineUser, AtMachine
    <3> QED BY <1>0, <1>b, <3>3, <3>4 DEF Keeper, AtMachine, pageVars, dbVars
  <2> QED BY <1>0, <1>1, <1>c, <2>1 DEF LoadMachineUser
<1>2. CASE LoadRentInfo(c)
  <2>1. CASE Goto(c, "pageUse") /\ UNCHANGED <<dbVars, pageVars, mach>>
    BY <1>0, <1>2, <1>a, <1>b, <2>1
       DEF LoadRentInfo, Goto, Keeper, AtMachine, pageVars, dbVars
  <2> QED BY <1>0, <1>2, <1>c, <2>1 DEF LoadRentInfo
<1>3. CASE RentMachine(c)
  <2> DEFINE new == [row[mach[c]] EXCEPT !.uid = who[c]]
  <2>1. /\ mach[c] \in Machines /\ who[c] \in Ids /\ RoomOf[mach[c]] \in May(c)
        /\ pc[c] = "rentUpdate" /\ row[mach[c]].status = Idle
    BY <1>3, <1>a, <1>b DEF RentMachine, AtMachine
  <2>2. CASE /\ Update(mach[c], new)
             /\ (Goto(c, "done") /\ UNCHANGED <<pageVars, windowVars>>) \/ Over(c)
    <3>1. new \in Rows
      BY <1>a, <2>1 DEF Rows
    <3>2. RoomStep(c) /\ (\A m \in Machines : UseStep(c, m)) /\ exists' = exists
      <4> HIDE DEF new
      <4> QED BY <1>a, <2>1, <2>2, <3>1, UpdatedUse DEF RoomStep, UseStep
    <3>3. Keeper(c)'
      BY <1>a, <1>b, <2>1, <2>2, OverKeeper DEF Goto, Keeper, AtMachine, pageVars
    <3> QED BY <3>2, <3>3
  <2>3. CASE Goto(c, "pageFree") /\ UNCHANGED <<dbVars, pageVars, mach>>
    BY <1>0, <1>a, <1>b, <2>1, <2>3 DEF Goto, Keeper, AtMachine, pageVars, dbVars
  <2> QED BY <1>3, <2>2, <2>3 DEF RentMachine, AnswerLost
<1>4. CASE LoadMachineStatus(c)
  BY <1>0, <1>4, <1>a, <1>b DEF LoadMachineStatus, Goto, Keeper, AtMachine, pageVars
<1>5. CASE EditStatement(c)
  <2> DEFINE t == todo[c]
             new == IF t.hw > 0 THEN row[mach[c]] ELSE [row[mach[c]] EXCEPT !.status = t.st]
  <2>1. mach[c] \in Machines /\ RoomOf[mach[c]] \in May(c) /\ pc[c] = "editRun"
    BY <1>5, <1>a, <1>b DEF EditStatement, AtMachine
  <2>2. Keeper(c)'
    <3>1. CASE UNCHANGED <<pageVars, mach>> /\ pc'[c] \in {"editRun", "done", "edit"}
      BY <1>b, <2>1, <3>1 DEF Keeper, AtMachine, pageVars
    <3> QED BY <1>5, <1>a, <3>1, OverKeeper DEF EditStatement, AnswerLost, Goto
  <2>3. CASE Update(mach[c], new)
    <3>1. /\ new \in Rows /\ new.uid = row[mach[c]].uid
          /\ new.status = InUse => row[mach[c]].status = InUse
      BY <1>a, <2>1 DEF Rows, Disabled, Idle, InUse
    <3> HIDE DEF new
    <3> QED BY <1>a, <2>1, <2>2, <2>3, <3>1, UpdatedUse DEF RoomStep, UseStep
  <2>4. CASE UNCHANGED dbVars
    BY <1>0, <2>2, <2>4
  <2> QED BY <1>5, <2>3, <2>4 DEF EditStatement
<1> QED BY <1>1, <1>2, <1>3, <1>4, <1>5 DEF Handler

LEMMA KeeperGesture ==
    ASSUME KeeperInv, NEW c \in Clients, Gesture(c)
    PROVE  Keeper(c)' /\ RoomStep(c) /\ \A m \in Machines : UseStep(c, m)
<1>a. /\ row \in [Machines -> Rows]
      /\ pc \in [Clients -> {"main", "crashed"} \cup Busy \cup Modal]
      /\ room \in [Clients -> Rooms \cup {NULL}]
      /\ view \in [Clients -> SUBSET Machines]
      /\ canEdit \in [Clients -> BOOLEAN]
      /\ mach \in [Clients -> Machines \cup {NULL}]
      /\ pc[c] \in AtMachine => mach[c] \in Machines
      /\ exists \subseteq used /\ used \subseteq Machines
      /\ DatabaseInv
  BY DEF KeeperInv, IInv, DatabaseInv, DatabaseTypes, ClientInv, ClientTypes, WindowsReady
<1>b. /\ \A m \in view[c] : RoomOf[m] = room[c]
      /\ canEdit[c] \/ pc[c] = "add" => room[c] \in May(c)
      /\ pc[c] \in AtMachine => RoomOf[mach[c]] \in May(c)
      /\ pc[c] \in {"pageFree", "rentUpdate"} => row[mach[c]].status = Idle
  BY DEF KeeperInv, Keeper
<1>0. ASSUME UNCHANGED dbVars
      PROVE  RoomStep(c) /\ \A m \in Machines : UseStep(c, m)
  BY <1>0 DEF RoomStep, UseStep, dbVars
<1>1. CASE Restart(c) \/ OpenAddWindow(c)
  BY <1>0, <1>1, <1>a, <1>b DEF Restart, OpenAddWindow, Goto, Keeper, AtMachine, pageVars
<1>2. ASSUME NEW r \in Rooms, OpenRoom(c, r)
      PROVE  Keeper(c)' /\ UNCHANGED dbVars
  <2>1. /\ room'[c] = r /\ view'[c] \subseteq RowsOf(r) /\ pc' = pc /\ pc[c] = "main"
        /\ UNCHANGED dbVars
    BY <1>2, <1>a DEF OpenRoom
  <2>2. PICK known \in BOOLEAN :
           canEdit' = [canEdit EXCEPT ![c] = (known /\ r \in Manages[c]) \/ c \in Super]
    BY <1>2 DEF OpenRoom
  <2>3. canEdit'[c] => r \in May(c)
    BY <2>2, <1>a DEF May
  <2> QED BY <2>1, <2>3 DEF Keeper, AtMachine, RowsOf
<1>3. CASE Finish(c)
  <2>1. /\ view'[c] \subseteq RowsOf(room[c]) /\ pc'[c] = "main"
        /\ UNCHANGED <<dbVars, room, canEdit>>
    BY <1>3, <1>a DEF Finish, Goto
  <2> QED BY <1>0, <1>b, <2>1 DEF Keeper, AtMachine, RowsOf
<1>4. CASE EndRent(c)
  <2>1. /\ mach[c] \in Machines /\ RoomOf[mach[c]] \in May(c) /\ pc'[c] \in {"pageUse", "pagePay"}
        /\ UNCHANGED <<exists, pageVars, windowVars>>
    BY <1>4, <1>a, <1>b DEF EndRent, AtMachine, Goto
  <2>2. Keeper(c)'
    BY <1>b, <2>1 DEF Keeper, AtMachine, pageVars, windowVars
  <2>3. CASE EndRentProcedure(mach[c])
    BY <1>a, <2>1, <2>2, <2>3, EndedUse DEF RoomStep, UseStep
  <2>4. CASE UNCHANGED row
    BY <2>1, <2>2, <2>4 DEF RoomStep, UseStep
  <2> QED BY <1>4, <2>3, <2>4 DEF EndRent
<1>5. ASSUME NEW m \in Machines, DeleteMachine(c, m) \/ AddMachine(c, m)
      PROVE  Keeper(c)' /\ RoomStep(c) /\ \A n \in Machines : UseStep(c, n)
  <2>1. /\ row' = [row EXCEPT ![m] = Fresh] /\ exists \ {m} \subseteq exists'
        /\ RoomOf[m] \in May(c)
        /\ (pc'[c] = "done" /\ UNCHANGED pageVars) \/ Over(c)
    BY <1>5, <1>a, <1>b DEF DeleteMachine, AddMachine, AnswerLost, Goto
  <2>2. Keeper(c)'
    BY <1>b, <2>1, OverKeeper DEF Keeper, AtMachine, pageVars
  <2> QED BY <1>a, <2>1, <2>2, FreshConsistent DEF RoomStep, UseStep
<1>6. ASSUME NEW m \in Machines, OpenRentWindow(c, m)
      PROVE  Keeper(c)' /\ UNCHANGED dbVars
  BY <1>6, <1>a, <1>b, RentalAssumption DEF OpenRentWindow, Goto, Keeper, AtMachine, May, pageVars
<1>7. ASSUME NEW m \in Machines, OpenEditWindow(c, m)
      PROVE  Keeper(c)' /\ UNCHANGED dbVars
  BY <1>7, <1>a, <1>b DEF OpenEditWindow, Goto, Keeper, AtMachine, pageVars
<1>8. ASSUME NEW u \in Ids, ClickRent(c, u)
      PROVE  Keeper(c)' /\ UNCHANGED dbVars
  BY <1>8, <1>a, <1>b DEF ClickRent, Goto, Keeper, AtMachine, pageVars, dbVars
<1>9. ASSUME NEW hw \in 0 .. MaxTouches, NEW box \in {Disabled, Idle}, ConfirmEdit(c, hw, box)
      PROVE  Keeper(c)' /\ UNCHANGED dbVars
  BY <1>9, <1>a, <1>b DEF ConfirmEdit, Goto, Keeper, AtMachine, pageVars
<1> QED BY <1>0, <1>1, <1>2, <1>3, <1>4, <1>5, <1>6, <1>7, <1>8, <1>9 DEF Gesture

\* Without an error no window meets a machine that is gone, or a row it cannot read.
LEMMA FreshHandler ==
    ASSUME ~SqlErrors, FreshInv, NEW c \in Clients, Handler(c)
    PROVE  ViewFresh(c)'
<1>a. /\ row \in [Machines -> Rows]
      /\ exists \subseteq Machines
      /\ pc \in [Clients -> {"main", "crashed"} \cup Busy \cup Modal]
      /\ \A m \in Machines : row[m].status = InUse <=> row[m].uid # NULL
      /\ pc[c] \in AtMachine => mach[c] \in exists
      /\ pc[c] = "rentInfo" => row[mach[c]].uid # NULL
  BY DEF FreshInv, ViewFresh, KeeperInv, IInv, DatabaseInv, DatabaseTypes, InUseConsistent,
         ClientInv, ClientTypes
<1>1. CASE LoadMachineUser(c)
  <2>1. /\ mach[c] \in exists /\ Goto(c, PageFor(row[mach[c]].status))
        /\ UNCHANGED <<dbVars, mach>>
        /\ row[mach[c]].status \in {Disabled, Idle, InUse}
    BY <1>1, <1>a DEF LoadMachineUser, AtMachine, Rows
  <2>2. /\ pc'[c] \in {"pageUse", "pageFree", "rentInfo"}
        /\ pc'[c] = "rentInfo" => row[mach[c]].status = InUse
    BY <2>1, <1>a DEF PageFor, Goto, Disabled, Idle, InUse
  <2> QED BY <2>1, <2>2, <1>a DEF ViewFresh, dbVars
<1>2. CASE LoadRentInfo(c)
  <2>1. mach[c] \in exists /\ row[mach[c]].uid # NULL
    BY <1>2, <1>a DEF LoadRentInfo, AtMachine
  <2>2. row[mach[c]].sdate # NULL
    <3>1. row[mach[c]].sdate \in 0 .. now /\ now \in Time
      BY <2>1, <1>a DEF FreshInv, KeeperInv, IInv, DatabaseInv, InUseConsistent, DatabaseTypes
    <3> QED BY <3>1, RentalAssumption DEF Time
  <2>3. pc'[c] = "pageUse" /\ UNCHANGED <<dbVars, mach>>
    BY <1>2, <1>a, <2>1, <2>2 DEF LoadRentInfo, Goto
  <2> QED BY <2>1, <2>3 DEF ViewFresh, dbVars
<1>3. CASE RentMachine(c) \/ LoadMachineStatus(c) \/ EditStatement(c)
  <2>1. /\ pc'[c] \in {"pageFree", "done", "edit", "editRun"}
        /\ mach' = mach /\ exists' = exists /\ mach[c] \in exists
    BY <1>3, <1>a
       DEF RentMachine, LoadMachineStatus, EditStatement, AnswerLost, Update, Goto, AtMachine,
           dbVars, windowVars
  <2> QED BY <2>1 DEF ViewFresh
<1> QED BY <1>1, <1>2, <1>3 DEF Handler

LEMMA FreshGesture ==
    ASSUME ~SqlErrors, FreshInv, NEW c \in Clients, Gesture(c)
    PROVE  ViewFresh(c)'
<1>a. /\ pc \in [Clients -> {"main", "crashed"} \cup Busy \cup Modal]
      /\ view \in [Clients -> SUBSET Machines]
      /\ mach \in [Clients -> Machines \cup {NULL}]
      /\ pc[c] # "crashed"
      /\ pc[c] = "main" /\ room[c] \in May(c) => view[c] \subseteq exists
      /\ pc[c] \in AtMachine => mach[c] \in exists
      /\ canEdit[c] => room[c] \in May(c)
  BY DEF FreshInv, ViewFresh, KeeperInv, Keeper, IInv, ClientInv, ClientTypes
<1>1. ~Restart(c)
  BY <1>a DEF Restart
<1>2. CASE Finish(c) \/ \E r \in Rooms : OpenRoom(c, r)
  <2>1. pc'[c] = "main" /\ exists' = exists
    BY <1>2, <1>a DEF Finish, OpenRoom, Goto, dbVars
  <2>2. PICK r \in Rooms \cup {NULL} : view' = [view EXCEPT ![c] = RowsOf(r)]
    <3>1. room[c] \in Rooms \cup {NULL}
      BY DEF FreshInv, KeeperInv, IInv, ClientInv, ClientTypes
    <3> QED BY <1>2, <3>1 DEF Finish, OpenRoom
  <2>3. view'[c] \subseteq exists
    BY <1>a, <2>2 DEF RowsOf
  <2> QED BY <2>1, <2>3 DEF ViewFresh, AtMachine
<1>3. CASE OpenAddWindow(c) \/ \E m \in Machines : DeleteMachine(c, m) \/ AddMachine(c, m)
  <2>1. pc'[c] \in {"add", "done"}
    BY <1>3, <1>a DEF OpenAddWindow, DeleteMachine, AddMachine, AnswerLost, Goto
  <2> QED BY <2>1 DEF ViewFresh, AtMachine
<1>4. ASSUME NEW m \in Machines, OpenRentWindow(c, m) \/ OpenEditWindow(c, m)
      PROVE  ViewFresh(c)'
  <2>1. room[c] \in May(c)
    BY <1>4, <1>a, RentalAssumption DEF OpenRentWindow, OpenEditWindow, May
  <2>2. /\ pc'[c] \in {"rentLoad", "editLoad"} /\ mach'[c] = m /\ m \in exists
        /\ exists' = exists
    BY <1>4, <1>a, <2>1 DEF OpenRentWindow, OpenEditWindow, Goto, dbVars
  <2> QED BY <2>2 DEF ViewFresh
<1>5. CASE \/ EndRent(c)
           \/ \E u \in Ids : ClickRent(c, u)
           \/ \E hw \in 0 .. MaxTouches, box \in {Disabled, Idle} : ConfirmEdit(c, hw, box)
  <2>1. /\ pc'[c] \in {"pageUse", "pagePay", "rentUpdate", "editRun"}
        /\ mach' = mach /\ exists' = exists /\ mach[c] \in exists
    BY <1>5, <1>a DEF EndRent, ClickRent, ConfirmEdit, Goto, AtMachine, windowVars, dbVars
  <2> QED BY <2>1 DEF ViewFresh
<1> QED BY <1>1, <1>2, <1>3, <1>4, <1>5 DEF Gesture

-----------------------------------------------------------------------------
(* Steps of all the clients. *)

\* What one client does to its rooms does not reach the windows of another.
LEMMA OthersKeep ==
    ASSUME OneKeeper, KeeperInv, NEW c \in Clients, Handler(c) \/ Gesture(c),
           NEW d \in Clients, d # c
    PROVE  Keeper(d)' /\ (ViewFresh(d) => ViewFresh(d)')
<1>1. /\ pc'[d] = pc[d] /\ room'[d] = room[d] /\ view'[d] = view[d]
      /\ canEdit'[d] = canEdit[d] /\ mach'[d] = mach[d]
  BY OthersStay DEF KeeperInv
<1>2. Keeper(d) /\ RoomStep(c)
  BY KeeperHandler, KeeperGesture DEF KeeperInv
<1>3. view[d] \subseteq Machines /\ (pc[d] \in AtMachine => mach[d] \in Machines)
  BY DEF KeeperInv, IInv, ClientInv, ClientTypes, WindowsReady
<1>4. ASSUME NEW m \in Machines, RoomOf[m] \in May(d)
      PROVE  row'[m] = row[m] /\ (m \in exists => m \in exists')
  BY <1>2, <1>4 DEF OneKeeper, RoomStep
<1>5. Keeper(d)'
  BY <1>1, <1>2, <1>3, <1>4 DEF Keeper, AtMachine
<1>6. ASSUME ViewFresh(d) PROVE ViewFresh(d)'
  <2>1. pc[d] = "main" /\ room[d] \in May(d) => view[d] \subseteq exists'
    BY <1>2, <1>3, <1>4, <1>6 DEF Keeper, ViewFresh
  <2>2. pc[d] \in AtMachine => mach[d] \in exists' /\ row'[mach[d]] = row[mach[d]]
    BY <1>2, <1>3, <1>4, <1>6 DEF Keeper, ViewFresh
  <2> QED BY <1>1, <1>6, <2>1, <2>2 DEF ViewFresh, AtMachine
<1> QED BY <1>5, <1>6

LEMMA InitKeeper == Init => FreshInv
<1> SUFFICES ASSUME Init PROVE FreshInv
  OBVIOUS
<1>1. \A c \in Clients : Keeper(c) /\ ViewFresh(c)
  BY DEF Init, Keeper, ViewFresh, AtMachine
<1> QED BY <1>1, InitIInv DEF FreshInv, KeeperInv

LEMMA IdleKeeper ==
    ASSUME KeeperInv, Tick \/ UNCHANGED vars
    PROVE  /\ KeeperInv'
           /\ UNCHANGED dbVars
           /\ \A c \in Clients : ViewFresh(c) => ViewFresh(c)'
<1>1. UNCHANGED <<dbVars, pc, pageVars, windowVars>>
  BY DEF Tick, vars
<1>2. IInv'
  BY NextIInv DEF KeeperInv, Next
<1>3. \A c \in Clients : Keeper(c)'
  BY <1>1 DEF KeeperInv, Keeper, dbVars, pageVars, windowVars
<1>4. \A c \in Clients : ViewFresh(c) => ViewFresh(c)'
  BY <1>1 DEF ViewFresh, dbVars, pageVars, windowVars
<1> QED BY <1>1, <1>2, <1>3, <1>4 DEF KeeperInv

LEMMA NextKeeper ==
    ASSUME OneKeeper, KeeperInv, [Next]_vars
    PROVE  KeeperInv'
<1>1. ASSUME NEW c \in Clients, Handler(c) \/ Gesture(c)
      PROVE  KeeperInv'
  <2>1. IInv' /\ Keeper(c)'
    BY <1>1, HandlerStep, GestureStep, KeeperHandler, KeeperGesture DEF KeeperInv
  <2> QED BY <1>1, <2>1, OthersKeep DEF KeeperInv
<1> QED BY <1>1, IdleKeeper DEF Next

LEMMA NextFresh ==
    ASSUME OneKeeper, ~SqlErrors, FreshInv, [Next]_vars
    PROVE  FreshInv'
<1>1. KeeperInv'
  BY NextKeeper DEF FreshInv
<1>2. ASSUME NEW c \in Clients, Handler(c) \/ Gesture(c)
      PROVE  \A d \in Clients : ViewFresh(d)'
  BY <1>2, FreshHandler, FreshGesture, OthersKeep DEF FreshInv
<1> QED BY <1>1, <1>2, IdleKeeper DEF Next, FreshInv

-----------------------------------------------------------------------------
(* The results. *)

\* The three ways to share the work, from the strictest: what Clerks_proofs shows
\* of clerks and of a desk holds here too, and of a single client all the more.
LEMMA KeeperIsClerk ==
    /\ (\A c, d \in Clients : c = d) => OneKeeper
    /\ OneKeeper => OneClerk
    /\ OneKeeper /\ ~SqlErrors => OneDesk
<1>1. OneKeeper => \A c, d \in Super : Manages[c] # {} => c = d
  <2> SUFFICES ASSUME OneKeeper, NEW c \in Super, NEW d \in Super, NEW r \in Manages[c]
               PROVE  c = d
    OBVIOUS
  <2>1. c \in Clients /\ d \in Clients /\ r \in May(c) \cap May(d)
    BY RentalAssumption DEF May
  <2> QED BY <2>1 DEF OneKeeper
<1> QED BY <1>1 DEF OneKeeper, OneClerk, OneDesk

\* As long as no room is worked on at two clients, and no statement fails, no
\* constructor reads an empty vector and GetRentInfo meets a start date: whatever
\* a list shows in a room one may change is there.
THEOREM KeeperNoCrash ==
    ASSUME OneKeeper, ~SqlErrors
    PROVE  Spec => []NoCrash
<1>1. FreshInv /\ [Next]_vars => FreshInv'
  BY NextFresh
<1>2. FreshInv => NoCrash
  BY DEF FreshInv, ViewFresh, NoCrash
<1> QED BY InitKeeper, <1>1, <1>2, PTL DEF Spec

\* As long as no room is worked on at two clients, a machine that ModifyMachineInfo
\* disabled is rented only after it was enabled, even if statements fail: the rent
\* button is on the page of an idle machine.
THEOREM KeeperNeverRentDisabled == ASSUME OneKeeper PROVE Spec => NeverRentDisabled
<1> DEFINE A == \A m \in exists : row[m].status = Disabled => row'[m].status # InUse
<1>1. Init => KeeperInv
  BY InitKeeper DEF FreshInv
<1>2. KeeperInv /\ [Next]_vars => KeeperInv'
  BY NextKeeper
<1>3. KeeperInv /\ [Next]_vars => [A]_vars
  <2> SUFFICES ASSUME KeeperInv, [Next]_vars, NEW m \in exists, row[m].status = Disabled
               PROVE  row'[m].status # InUse
    OBVIOUS
  <2>1. CASE Tick \/ UNCHANGED vars
    BY <2>1, IdleKeeper DEF dbVars, Disabled, InUse
  <2>2. ASSUME NEW c \in Clients, Handler(c) \/ Gesture(c)
        PROVE  row'[m].status # InUse
    <3>1. m \in Machines /\ UseStep(c, m)
      BY <2>2, KeeperHandler, KeeperGesture DEF KeeperInv, IInv, DatabaseInv, DatabaseTypes
    <3>2. ~(pc[c] = "rentUpdate" /\ m = mach[c])
      BY DEF KeeperInv, Keeper, Disabled, Idle
    <3> QED BY <3>1, <3>2 DEF UseStep, Disabled, InUse
  <2> QED BY <2>1, <2>2 DEF Next
<1> QED BY <1>1, <1>2, <1>3, PTL DEF Spec, NeverRentDisabled

\* A window that offers to rent is one of a machine that is there: its constructor
\* has read the row, and nobody else may delete it.
ThereInv == KeeperInv /\ \A c \in Clients : pc[c] \in {"pageFree", "rentUpdate"} => mach[c] \in exists

\* The constructor comes first, and only the same client could delete the machine.
LEMMA NextThere ==
    ASSUME OneKeeper, ThereInv, [Next]_vars
    PROVE  ThereInv'
<1>1. KeeperInv'
  BY NextKeeper DEF ThereInv
<1>2. CASE Tick \/ UNCHANGED vars
  BY <1>1, <1>2 DEF Tick, vars, dbVars, windowVars, ThereInv
<1>3. ASSUME NEW c \in Clients, Handler(c) \/ Gesture(c), NEW d \in Clients,
             pc'[d] \in {"pageFree", "rentUpdate"}
      PROVE  mach'[d] \in exists'
  <2>a. pc \in [Clients -> {"main", "crashed"} \cup Busy \cup Modal]
    BY DEF ThereInv, KeeperInv, IInv, ClientInv, ClientTypes
  <2>1. CASE d # c
    <3>1. pc'[d] = pc[d] /\ mach'[d] = mach[d] /\ mach[d] \in exists
      BY <1>3, <2>1, OthersStay DEF ThereInv, KeeperInv
    <3>2. mach[d] \in Machines /\ RoomOf[mach[d]] \in May(d)
      BY <1>3, <3>1 DEF ThereInv, KeeperInv, Keeper, IInv, ClientInv, WindowsReady, AtMachine
    <3>3. RoomStep(c)
      BY <1>3, KeeperHandler, KeeperGesture DEF ThereInv
    <3> QED BY <2>1, <3>1, <3>2, <3>3 DEF RoomStep, OneKeeper
  <2>2. CASE d = c /\ Handler(c)
    <3>1. exists' = exists
      BY <2>2, KeeperHandler DEF ThereInv
    <3>2. mach'[c] = mach[c] /\ mach[c] \in exists
      BY <1>3, <2>2, <2>a
         DEF Handler, LoadMachineUser, LoadRentInfo, RentMachine, LoadMachineStatus,
             EditStatement, AnswerLost, Crash, Over, Goto, ThereInv, windowVars
    <3> QED BY <2>2, <3>1, <3>2
  <2>3. CASE d = c /\ Gesture(c)
    <3>1. PICK u \in Ids : ClickRent(c, u)
      BY <1>3, <2>3, <2>a
         DEF Gesture, Restart, OpenRoom, Finish, OpenAddWindow, EndRent, DeleteMachine,
             AddMachine, OpenRentWindow, OpenEditWindow, ConfirmEdit, AnswerLost, Over, Goto,
             Modal
    <3> QED BY <2>3, <3>1 DEF ClickRent, ThereInv, dbVars
  <2> QED BY <1>3, <2>1, <2>2, <2>3
<1> QED BY <1>1, <1>2, <1>3 DEF ThereInv, Next

\* As long as no room is worked on at two clients, the message that a rental has
\* begun is true, although RentMachine does not count the rows it updates, and
\* even if other statements fail.
THEOREM KeeperReportsTrue == ASSUME OneKeeper PROVE Spec => RentReportsTrue
<1> DEFINE A == \A c \in Clients :
                   pc[c] = "rentUpdate" /\ pc'[c] = "done"
                      => mach[c] \in exists' /\ row'[mach[c]].uid = who[c]
<1>1. Init => ThereInv
  BY InitKeeper DEF FreshInv, ThereInv, Init
<1>2. ThereInv /\ [Next]_vars => ThereInv'
  BY NextThere
<1>3. ThereInv /\ [Next]_vars => [A]_vars
  <2> SUFFICES ASSUME ThereInv, Next, NEW c \in Clients, pc[c] = "rentUpdate", pc'[c] = "done"
               PROVE  mach[c] \in exists' /\ row'[mach[c]].uid = who[c]
    OBVIOUS
  <2>a. /\ pc \in [Clients -> {"main", "crashed"} \cup Busy \cup Modal]
        /\ row \in [Machines -> Rows]
        /\ mach[c] \in Machines /\ mach[c] \in exists /\ who[c] \in Ids
    BY DEF ThereInv, KeeperInv, IInv, DatabaseInv, DatabaseTypes, ClientInv, ClientTypes,
           WindowsReady, AtMachine
  <2>1. RentMachine(c)
    <3>1. ~Tick
      BY DEF Tick
    <3>2. PICK d \in Clients : Handler(d) \/ Gesture(d)
      BY <3>1 DEF Next
    <3>3. d = c
      BY <3>2, OthersStay DEF ThereInv, KeeperInv
    <3>4. ~Gesture(c)
      BY DEF Gesture, Restart, OpenRoom, Finish, OpenAddWindow, EndRent, DeleteMachine,
             AddMachine, OpenRentWindow, OpenEditWindow, ClickRent, ConfirmEdit, Modal
    <3> QED BY <3>2, <3>3, <3>4
            DEF Handler, LoadMachineUser, LoadRentInfo, LoadMachineStatus, EditStatement
  <2>2. Update(mach[c], [row[mach[c]] EXCEPT !.uid = who[c]])
    BY <2>1, <2>a DEF RentMachine, Goto
  <2>3. [row[mach[c]] EXCEPT !.uid = who[c]] \in Rows
    BY <2>a DEF Rows
  <2>4. row'[mach[c]].uid = who[c]
    BY <2>a, <2>2, <2>3, UpdatedUser DEF Rows
  <2> QED BY <2>a, <2>2, <2>4 DEF Update
<1> QED BY <1>1, <1>2, <1>3, PTL DEF Spec, RentReportsTrue
=============================================================================
