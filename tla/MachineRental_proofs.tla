------------------------ MODULE MachineRental_proofs ------------------------
(***************************************************************************)
(* What MachineRental guarantees for any number of clients, rooms, machines *)
(* and users, with or without SQL errors: the columns of a row agree, a     *)
(* rental starts when it starts, and no handler loops.                      *)
(***************************************************************************)
EXTENDS MachineRental, TLAPS

\* The pages on which a client has the window of one machine open.
AtMachine == {"rentLoad", "rentInfo", "rentUpdate", "pageFree", "pageUse", "pagePay",
              "editLoad", "edit", "editRun"}

\* What the handlers of an open window rely on.
WindowsReady ==
    \A c \in Clients :
        /\ pc[c] \in AtMachine => mach[c] \in Machines
        /\ pc[c] = "rentUpdate" => who[c] \in Ids
        /\ pc[c] = "editRun" => todo[c].hw > 0 \/ todo[c].st # -1

\* A start date is never ahead of the clock, nor is one that a rental left behind:
\* the procedure EndRent may bill from it.
DatesPast == \A m \in Machines : row[m].sdate # NULL => row[m].sdate \in 0 .. now

\* The inductive invariant: what it says of the database, and of the windows.
DatabaseInv == DatabaseTypes /\ InUseConsistent /\ DatesPast
ClientInv   == ClientTypes /\ WindowsReady
IInv        == DatabaseInv /\ ClientInv

-----------------------------------------------------------------------------
(* The operators of the model. *)

\* What the trigger of CreateRoom leaves in a row: a row that is not "in use"
\* without a user comes out consistent, and dated now if it has one.
LEMMA TriggerConsistent ==
    ASSUME NEW new \in Rows, now \in Time, new.status = InUse => new.uid # NULL
    PROVE  /\ Trigger(new) \in Rows
           /\ Trigger(new).uid = new.uid
           /\ Trigger(new).status = InUse <=> new.uid # NULL
           /\ new.uid # NULL => Trigger(new).sdate = now
           /\ new.uid = NULL => Trigger(new).sdate = new.sdate
  BY DEF Trigger, Rows, InUse, Idle, Disabled

\* A row that nobody uses.
LEMMA FreshConsistent ==
    Fresh \in Rows /\ Fresh.uid = NULL /\ Fresh.sdate = NULL /\ Fresh.status # InUse
  BY DEF Fresh, Rows, InUse, Idle, Disabled

\* What ModifyMachineInfo has left to run after a statement is again a list.
LEMMA RestTyped ==
    ASSUME NEW t \in [hw : 0 .. MaxTouches, st : {-1, Disabled, Idle}]
    PROVE  Rest(t) \in [hw : 0 .. MaxTouches, st : {-1, Disabled, Idle}]
  BY RentalAssumption DEF Rest, Disabled, Idle

-----------------------------------------------------------------------------
(* The database part of the invariant. *)

\* A step that leaves the database alone keeps it while the clock runs on.
LEMMA DatabaseKept ==
    ASSUME DatabaseInv, UNCHANGED dbVars, now' \in Time, now <= now'
    PROVE  DatabaseInv'
<1> USE DEF dbVars, DatabaseInv
<1>1. DatabaseTypes'
  BY DEF DatabaseTypes
<1>2. InUseConsistent'
  BY DEF DatabaseTypes, InUseConsistent, Time
<1>3. DatesPast'
  BY DEF DatabaseTypes, DatesPast, Time
<1> QED BY <1>1, <1>2, <1>3

\* Every UPDATE goes through the trigger, so it keeps the database part.
LEMMA UpdateKeeps ==
    ASSUME DatabaseInv, NEW m \in Machines, NEW new \in Rows, Update(m, new), now' = now,
           new.status = InUse => new.uid # NULL,
           new.sdate = row[m].sdate
    PROVE  DatabaseInv'
<1> USE DEF DatabaseInv
<1>1. /\ Trigger(new) \in Rows
      /\ Trigger(new).uid = new.uid
      /\ Trigger(new).status = InUse <=> new.uid # NULL
      /\ new.uid # NULL => Trigger(new).sdate = now
      /\ new.uid = NULL => Trigger(new).sdate = row[m].sdate
      /\ now \in Nat
  BY TriggerConsistent DEF DatabaseTypes, Time
<1>2. /\ UNCHANGED <<exists, used, bills>>
      /\ row \in [Machines -> Rows]
      /\ row' = row \/ row' = [row EXCEPT ![m] = Trigger(new)]
  BY DEF Update, DatabaseTypes
<1>3. DatabaseTypes'
  BY <1>1, <1>2 DEF DatabaseTypes
<1>4. InUseConsistent'
  BY <1>1, <1>2 DEF InUseConsistent, DatabaseTypes, Time
<1>5. DatesPast'
  BY <1>1, <1>2 DEF DatesPast
<1> QED BY <1>3, <1>4, <1>5

\* Adding or deleting a row leaves one that nobody uses.
LEMMA FreshKeeps ==
    ASSUME DatabaseInv, NEW m \in Machines, row' = [row EXCEPT ![m] = Fresh],
           exists' \subseteq used', used' \subseteq Machines, UNCHANGED <<bills, now>>
    PROVE  DatabaseInv'
<1> USE DEF DatabaseInv
<1>1. DatabaseTypes'
  BY FreshConsistent DEF DatabaseTypes
<1>2. InUseConsistent'
  BY FreshConsistent DEF InUseConsistent, DatabaseTypes
<1>3. DatesPast'
  BY FreshConsistent DEF DatesPast, DatabaseTypes
<1> QED BY <1>1, <1>2, <1>3

\* EndRent bills from a date the row holds, and leaves a row nobody uses.
LEMMA EndRentKeeps ==
    ASSUME DatabaseInv, NEW m \in Machines, EndRentProcedure(m),
           UNCHANGED <<exists, used, now>>
    PROVE  DatabaseInv'
<1> DEFINE bill == [machine |-> m, from |-> row[m].sdate, to |-> now]
<1> USE DEF DatabaseInv
<1>1. /\ row \in [Machines -> Rows] /\ now \in Time
      /\ row[m].uid # NULL => row[m].sdate # NULL
      /\ row[m].sdate \in Time \cup {NULL}
  <2>1. NULL \notin 0 .. now
    BY RentalAssumption DEF DatabaseTypes, Time
  <2> QED BY <2>1 DEF InUseConsistent, DatabaseTypes, Rows
<1>2. bills' = bills \/ (row[m].sdate \in Time /\ bills' = bills \cup {bill})
  BY <1>1 DEF EndRentProcedure
<1>3. \/ row' = row
      \/ \E d \in {NULL, row[m].sdate} :
            row' = [row EXCEPT ![m] = [status |-> Idle, uid |-> NULL, sdate |-> d]]
  BY DEF EndRentProcedure
<1>4. CASE row' = row
  <2>1. DatabaseTypes'
    BY <1>1, <1>2, <1>4 DEF DatabaseTypes
  <2> QED BY <1>4, <2>1 DEF InUseConsistent, DatesPast
<1>5. ASSUME NEW d \in {NULL, row[m].sdate},
             row' = [row EXCEPT ![m] = [status |-> Idle, uid |-> NULL, sdate |-> d]]
      PROVE  DatabaseInv'
  <2>1. [status |-> Idle, uid |-> NULL, sdate |-> d] \in Rows
    BY <1>1 DEF Rows
  <2>2. DatabaseTypes'
    BY <1>1, <1>2, <1>5, <2>1 DEF DatabaseTypes
  <2>3. InUseConsistent'
    BY <1>1, <1>5 DEF InUseConsistent, Idle, InUse
  <2>4. DatesPast'
    BY <1>1, <1>5 DEF DatesPast
  <2> QED BY <2>2, <2>3, <2>4
<1> QED BY <1>3, <1>4, <1>5

-----------------------------------------------------------------------------
(* The window part of the invariant. *)

\* A window that is closed holds nothing, whatever it held before.
LEMMA NoWindowTyped ==
    ASSUME ClientInv, NEW c \in Clients, NoWindow(c)
    PROVE  /\ mach' \in [Clients -> Machines \cup {NULL}]
           /\ seen' \in [Clients -> {-1, Disabled, Idle, InUse}]
           /\ who' \in [Clients -> Ids \cup {NULL}]
           /\ todo' \in [Clients -> [hw : 0 .. MaxTouches, st : {-1, Disabled, Idle}]]
           /\ \A d \in Clients \ {c} :
                 mach'[d] = mach[d] /\ who'[d] = who[d] /\ todo'[d] = todo[d]
  BY RentalAssumption DEF ClientInv, ClientTypes, NoWindow

\* A client that ends up at no machine relies on nothing.
LEMMA LeftMachine ==
    ASSUME ClientInv, NEW c \in Clients, NEW p \in {"main", "crashed"},
           Goto(c, p), NoWindow(c),
           room' \in [Clients -> Rooms \cup {NULL}],
           view' \in [Clients -> SUBSET Machines],
           canEdit' \in [Clients -> BOOLEAN]
    PROVE  ClientInv'
<1>1. ClientTypes'
  BY NoWindowTyped DEF ClientInv, ClientTypes, Goto
<1>2. WindowsReady'
  BY NoWindowTyped DEF ClientInv, ClientTypes, WindowsReady, Goto, AtMachine
<1> QED BY <1>1, <1>2 DEF ClientInv

LEMMA OverKeeps ==
    ASSUME ClientInv, NEW c \in Clients, Over(c)
    PROVE  ClientInv'
BY LeftMachine DEF ClientInv, ClientTypes, Over

LEMMA CrashKeeps ==
    ASSUME IInv, NEW c \in Clients, Crash(c)
    PROVE  IInv'
<1>1. ClientInv'
  BY OverKeeps DEF IInv, Crash
<1>2. DatabaseInv'
  BY DatabaseKept, RentalAssumption DEF IInv, DatabaseInv, DatabaseTypes, Crash, Time
<1> QED BY <1>1, <1>2 DEF IInv

\* The pages of the model, for the steps that move a client to one of them.
LEMMA Moved ==
    ASSUME ClientInv, NEW c \in Clients, NEW p \in Busy \cup Modal \cup {"main"}, Goto(c, p),
           UNCHANGED <<pageVars, windowVars>>,
           p \in AtMachine => mach[c] \in Machines,
           p = "rentUpdate" => who[c] \in Ids,
           p # "editRun"
    PROVE  ClientInv'
  BY DEF ClientInv, ClientTypes, WindowsReady, Goto, pageVars, windowVars

-----------------------------------------------------------------------------
(* One step of the program. *)

LEMMA InitIInv == Init => IInv
<1> SUFFICES ASSUME Init PROVE IInv
  OBVIOUS
<1>1. DatabaseInv
  BY FreshConsistent, RentalAssumption
     DEF Init, DatabaseInv, DatabaseTypes, InUseConsistent, DatesPast, Time
<1>2. ClientInv
  BY RentalAssumption
     DEF Init, ClientInv, ClientTypes, WindowsReady, AtMachine, Disabled, Idle
<1> QED BY <1>1, <1>2 DEF IInv

\* The part of the invariant about the database, for the steps that leave it alone.
LEMMA Untouched ==
    ASSUME IInv, UNCHANGED <<dbVars, now>>
    PROVE  DatabaseInv'
  BY DatabaseKept, RentalAssumption DEF IInv, DatabaseInv, DatabaseTypes, Time, dbVars

LEMMA HandlerStep ==
    ASSUME IInv, NEW c \in Clients, Handler(c)
    PROVE  IInv'
<1> USE DEF IInv
<1>a. /\ pc[c] \in AtMachine => mach[c] \in Machines
      /\ pc[c] = "rentUpdate" => who[c] \in Ids
      /\ pc[c] = "editRun" => todo[c].hw > 0 \/ todo[c].st # -1
      /\ todo[c] \in [hw : 0 .. MaxTouches, st : {-1, Disabled, Idle}]
      /\ \A m \in Machines : row[m] \in Rows
  BY DEF ClientInv, WindowsReady, ClientTypes, DatabaseInv, DatabaseTypes
<1>1. CASE LoadMachineUser(c)
  <2>1. CASE Crash(c)
    BY <2>1, CrashKeeps
  <2>2. CASE mach[c] \in exists /\ Goto(c, PageFor(row[mach[c]].status)) /\ ~Crash(c)
    <3>1. row[mach[c]].status \in {Disabled, Idle, InUse}
      BY <1>a, <1>1 DEF LoadMachineUser, AtMachine, Rows
    <3>2. PageFor(row[mach[c]].status) \in {"pageUse", "pageFree", "rentInfo"}
      BY <3>1 DEF PageFor, Disabled, Idle, InUse
    <3>3. ClientInv'
      BY <1>1, <1>a, <2>2, <3>1, <3>2
         DEF LoadMachineUser, ClientInv, ClientTypes, WindowsReady, AtMachine, Goto,
             pageVars, Busy, Modal
    <3> QED BY <1>1, <2>2, <3>3, Untouched DEF LoadMachineUser
  <2> QED BY <1>1, <2>1, <2>2 DEF LoadMachineUser
<1>2. CASE LoadRentInfo(c)
  <2>1. CASE Crash(c)
    BY <2>1, CrashKeeps
  <2>2. CASE mach[c] \in exists /\ ~Crash(c)
    <3>1. row[mach[c]].uid \in Ids \cup {NULL}
      BY <1>a, <1>2 DEF LoadRentInfo, AtMachine, Rows
    <3>2. ClientInv'
      BY <1>2, <1>a, <2>2, <3>1
         DEF LoadRentInfo, ClientInv, ClientTypes, WindowsReady, AtMachine, Goto,
             pageVars, Busy, Modal
    <3> QED BY <1>2, <2>2, <3>2, Untouched DEF LoadRentInfo
  <2> QED BY <1>2, <2>1, <2>2 DEF LoadRentInfo
<1>3. CASE RentMachine(c)
  <2> DEFINE new == [row[mach[c]] EXCEPT !.uid = who[c]]
  <2>1. mach[c] \in Machines /\ who[c] \in Ids /\ who[c] # NULL
    BY <1>3, <1>a, RentalAssumption DEF RentMachine, AtMachine, Ids
  <2>2. ClientInv'
    <3>1. CASE Over(c)
      BY <3>1, OverKeeps
    <3>2. CASE Goto(c, "done") /\ UNCHANGED <<pageVars, windowVars>>
      BY <3>2, Moved DEF AtMachine, Modal
    <3>3. CASE /\ Goto(c, "pageFree") /\ who' = [who EXCEPT ![c] = NULL]
               /\ UNCHANGED <<pageVars, mach, seen, todo>>
      <4>1. ClientTypes'
        BY <3>3 DEF ClientInv, ClientTypes, Modal, Goto, pageVars
      <4>2. WindowsReady'
        BY <2>1, <3>3 DEF ClientInv, ClientTypes, WindowsReady, Goto
      <4> QED BY <4>1, <4>2 DEF ClientInv
    <3> QED BY <1>3, <3>1, <3>2, <3>3 DEF RentMachine, AnswerLost
  <2>3. DatabaseInv'
    <3>1. CASE Update(mach[c], new)
      <4>1. new \in Rows /\ new.uid = who[c] /\ new.sdate = row[mach[c]].sdate
        BY <1>a, <2>1 DEF Rows
      <4> QED BY <1>3, <2>1, <3>1, <4>1, UpdateKeeps DEF RentMachine
    <3>2. CASE UNCHANGED dbVars
      BY <1>3, <3>2, Untouched DEF RentMachine
    <3> QED BY <1>3, <3>1, <3>2 DEF RentMachine
  <2> QED BY <2>2, <2>3
<1>4. CASE LoadMachineStatus(c)
  <2>1. mach[c] \in Machines
    BY <1>4, <1>a DEF LoadMachineStatus, AtMachine
  <2>2. ClientInv'
    BY <1>4, <1>a, <2>1
       DEF LoadMachineStatus, ClientInv, ClientTypes, WindowsReady, AtMachine, Goto,
           pageVars, Busy, Modal, Rows
  <2> QED BY <1>4, <2>2, Untouched DEF LoadMachineStatus
<1>5. CASE EditStatement(c)
  <2> DEFINE t == todo[c]
             new == IF t.hw > 0 THEN row[mach[c]] ELSE [row[mach[c]] EXCEPT !.status = t.st]
  <2>1. mach[c] \in Machines
    BY <1>5, <1>a DEF EditStatement, AtMachine
  <2>2. Rest(t) \in [hw : 0 .. MaxTouches, st : {-1, Disabled, Idle}]
    BY <1>a, RestTyped
  <2>3. ClientInv'
    <3>1. CASE /\ todo' = [todo EXCEPT ![c] = Rest(t)]
               /\ Goto(c, IF Rest(t).hw = 0 /\ Rest(t).st = -1 THEN "done" ELSE "editRun")
               /\ UNCHANGED <<pageVars, mach, seen, who>>
      BY <1>5, <2>1, <2>2, <3>1
         DEF EditStatement, ClientInv, ClientTypes, WindowsReady, AtMachine, Goto,
             pageVars, Busy, Modal
    <3>2. CASE /\ todo' = [todo EXCEPT ![c] = [hw |-> 0, st |-> -1]]
               /\ Goto(c, "edit")
               /\ UNCHANGED <<pageVars, mach, seen, who>>
      BY <1>5, <2>1, <3>2, RentalAssumption
         DEF EditStatement, ClientInv, ClientTypes, WindowsReady, AtMachine, Goto,
             pageVars, Busy, Modal
    <3>3. CASE Over(c)
      BY <3>3, OverKeeps
    <3> QED BY <1>5, <3>1, <3>2, <3>3 DEF EditStatement, AnswerLost
  <2>4. DatabaseInv'
    <3>1. CASE Update(mach[c], new)
      <4>1. row[mach[c]] \in Rows /\ (row[mach[c]].status = InUse => row[mach[c]].uid # NULL)
        BY <1>a, <2>1 DEF DatabaseInv, InUseConsistent
      <4>2. /\ new \in Rows /\ (new.status = InUse => new.uid # NULL)
            /\ new.sdate = row[mach[c]].sdate
        BY <1>5, <1>a, <4>1 DEF EditStatement, Rows, Disabled, Idle, InUse
      <4> QED BY <1>5, <2>1, <3>1, <4>2, UpdateKeeps DEF EditStatement
    <3>2. CASE UNCHANGED dbVars
      BY <1>5, <3>2, Untouched DEF EditStatement
    <3> QED BY <1>5, <3>1, <3>2 DEF EditStatement
  <2> QED BY <2>3, <2>4
<1> QED BY <1>1, <1>2, <1>3, <1>4, <1>5 DEF Handler

LEMMA GestureStep ==
    ASSUME IInv, NEW c \in Clients, Gesture(c)
    PROVE  IInv'
<1> USE DEF IInv
<1>a. /\ pc[c] \in AtMachine => mach[c] \in Machines
      /\ room[c] \in Rooms \cup {NULL}
      /\ view[c] \subseteq Machines
      /\ exists \subseteq used /\ used \subseteq Machines
  BY DEF ClientInv, WindowsReady, ClientTypes, DatabaseInv, DatabaseTypes
<1>1. CASE Restart(c)
  <2>1. ClientInv'
    BY <1>1, Moved DEF Restart, AtMachine
  <2> QED BY <1>1, <2>1, Untouched DEF Restart
<1>2. ASSUME NEW r \in Rooms, OpenRoom(c, r)
      PROVE  IInv'
  <2>1. /\ room' \in [Clients -> Rooms \cup {NULL}]
        /\ view' \in [Clients -> SUBSET Machines]
        /\ canEdit' \in [Clients -> BOOLEAN]
    BY <1>2, <1>a, RentalAssumption DEF OpenRoom, ClientInv, ClientTypes, RowsOf
  <2>2. ClientInv'
    BY <1>2, <2>1 DEF OpenRoom, ClientInv, ClientTypes, WindowsReady, windowVars
  <2> QED BY <1>2, <2>2, Untouched DEF OpenRoom
<1>3. CASE Finish(c)
  <2>1. view' \in [Clients -> SUBSET Machines]
    BY <1>3, <1>a DEF Finish, ClientInv, ClientTypes, RowsOf
  <2>2. ClientInv'
    BY <1>3, <2>1, LeftMachine DEF Finish, ClientInv, ClientTypes
  <2> QED BY <1>3, <2>2, Untouched DEF Finish
<1>4. CASE OpenAddWindow(c)
  <2>1. ClientInv'
    BY <1>4, Moved DEF OpenAddWindow, AtMachine, Modal, pageVars, windowVars
  <2> QED BY <1>4, <2>1, Untouched DEF OpenAddWindow
<1>5. CASE EndRent(c)
  <2>1. mach[c] \in Machines
    BY <1>5, <1>a DEF EndRent, AtMachine
  <2>2. ClientInv'
    <3>1. CASE UNCHANGED pc
      BY <1>5, <3>1 DEF EndRent, ClientInv, ClientTypes, WindowsReady, pageVars, windowVars
    <3>2. CASE Goto(c, "pagePay")
      BY <1>5, <2>1, <3>2, Moved DEF EndRent, AtMachine, Modal
    <3> QED BY <1>5, <3>1, <3>2 DEF EndRent
  <2>3. DatabaseInv'
    <3>1. CASE EndRentProcedure(mach[c])
      BY <1>5, <2>1, <3>1, EndRentKeeps DEF EndRent
    <3>2. CASE UNCHANGED <<row, bills>>
      BY <1>5, <3>2, Untouched DEF EndRent, dbVars
    <3> QED BY <1>5, <3>1, <3>2 DEF EndRent
  <2> QED BY <2>2, <2>3
<1>6. ASSUME NEW m \in Machines, DeleteMachine(c, m)
      PROVE  IInv'
  <2>1. ClientInv'
    BY <1>6, Moved, OverKeeps DEF DeleteMachine, AnswerLost, AtMachine, Modal
  <2>2. DatabaseInv'
    BY <1>6, <1>a, FreshKeeps DEF DeleteMachine
  <2> QED BY <2>1, <2>2
<1>7. ASSUME NEW m \in Machines, AddMachine(c, m)
      PROVE  IInv'
  <2>1. ClientInv'
    BY <1>7, Moved, OverKeeps DEF AddMachine, AnswerLost, AtMachine, Modal
  <2>2. DatabaseInv'
    BY <1>7, <1>a, FreshKeeps DEF AddMachine
  <2> QED BY <2>1, <2>2
<1>8. ASSUME NEW m \in Machines, OpenRentWindow(c, m) \/ OpenEditWindow(c, m)
      PROVE  IInv'
  <2>1. UNCHANGED <<dbVars, now>>
    BY <1>8 DEF OpenRentWindow, OpenEditWindow
  <2>2. PICK p \in {"rentLoad", "editLoad"} :
           /\ pc' = [pc EXCEPT ![c] = p] /\ mach' = [mach EXCEPT ![c] = m]
           /\ UNCHANGED <<room, view, canEdit, seen, who, todo>>
    BY <1>8 DEF OpenRentWindow, OpenEditWindow, Goto, pageVars
  <2>3. ClientTypes'
    BY <2>2 DEF ClientInv, ClientTypes, Busy
  <2>4. WindowsReady'
    BY <2>2 DEF ClientInv, ClientTypes, WindowsReady
  <2>5. ClientInv'
    BY <2>3, <2>4 DEF ClientInv
  <2> QED BY <2>1, <2>5, Untouched
<1>9. ASSUME NEW u \in Ids, ClickRent(c, u)
      PROVE  IInv'
  <2>1. ClientInv'
    BY <1>9, <1>a
       DEF ClickRent, ClientInv, ClientTypes, WindowsReady, AtMachine, Goto, pageVars, Busy
  <2> QED BY <1>9, <2>1, Untouched DEF ClickRent
<1>10. ASSUME NEW hw \in 0 .. MaxTouches, NEW box \in {Disabled, Idle}, ConfirmEdit(c, hw, box)
       PROVE  IInv'
  <2> DEFINE st == IF seen[c] \in {Disabled, Idle} \ {box} THEN box ELSE -1
  <2>1. st \in {-1, Disabled, Idle} /\ (hw > 0 \/ st # -1)
    BY <1>10 DEF ConfirmEdit
  <2>2. ClientInv'
    BY <1>10, <1>a, <2>1
       DEF ConfirmEdit, ClientInv, ClientTypes, WindowsReady, AtMachine, Goto, pageVars, Busy
  <2> QED BY <1>10, <2>2, Untouched DEF ConfirmEdit
<1> QED BY <1>1, <1>2, <1>3, <1>4, <1>5, <1>6, <1>7, <1>8, <1>9, <1>10 DEF Gesture

LEMMA NextIInv == IInv /\ [Next]_vars => IInv'
<1> SUFFICES ASSUME IInv, [Next]_vars PROVE IInv'
  OBVIOUS
<1>1. CASE Tick
  <2>1. ClientInv'
    BY <1>1 DEF Tick, IInv, ClientInv, ClientTypes, WindowsReady, pageVars, windowVars
  <2>2. now' \in Time /\ now <= now'
    BY <1>1, RentalAssumption DEF Tick, IInv, DatabaseInv, DatabaseTypes, Time
  <2> QED BY <1>1, <2>1, <2>2, DatabaseKept DEF Tick, IInv
<1>2. ASSUME NEW c \in Clients, Handler(c) \/ Gesture(c)
      PROVE  IInv'
  BY <1>2, HandlerStep, GestureStep
<1>3. CASE UNCHANGED vars
  <2>1. ClientInv'
    BY <1>3 DEF vars, IInv, ClientInv, ClientTypes, WindowsReady, pageVars, windowVars
  <2> QED BY <1>3, <2>1, Untouched DEF vars, IInv
<1> QED BY <1>1, <1>2, <1>3 DEF Next

LEMMA Invariance == Spec => []IInv
<1>1. IInv /\ [Next]_vars => IInv'
  BY NextIInv
<1> QED BY InitIInv, <1>1, PTL DEF Spec

-----------------------------------------------------------------------------
(* The way a handler takes to its end. *)

\* What ModifyMachineInfo has left after one of its statements is one less.
LEMMA RestIsShorter ==
    ASSUME NEW t \in [hw : 0 .. MaxTouches, st : {-1, Disabled, Idle}], t.hw > 0 \/ t.st # -1
    PROVE  StepsLeft("editRun", Rest(t)) < StepsLeft("editRun", t) /\ 0 < StepsLeft("editRun", t)
<1>1. CASE t.hw > 0
  BY <1>1, RentalAssumption DEF Rest, StepsLeft, Disabled, Idle
<1>2. CASE t.hw = 0 /\ t.st # -1
  BY <1>2, RentalAssumption DEF Rest, StepsLeft, Disabled, Idle
<1> QED BY <1>1, <1>2, RentalAssumption

\* A statement brings the handler nearer to its end, whatever the row is by now.
LEMMA HandlerAdvances ==
    ASSUME IInv, NEW c \in Clients, Handler(c)
    PROVE  StepsLeft(pc'[c], todo'[c]) < StepsLeft(pc[c], todo[c])
<1>a. /\ pc \in [Clients -> {"main", "crashed"} \cup Busy \cup Modal]
      /\ todo \in [Clients -> [hw : 0 .. MaxTouches, st : {-1, Disabled, Idle}]]
      /\ todo[c] \in [hw : 0 .. MaxTouches, st : {-1, Disabled, Idle}]
      /\ row \in [Machines -> Rows]
      /\ exists \subseteq Machines
      /\ pc[c] = "editRun" => todo[c].hw > 0 \/ todo[c].st # -1
  BY DEF IInv, DatabaseInv, DatabaseTypes, ClientInv, ClientTypes, WindowsReady
<1>b. /\ pc[c] = "rentLoad" => StepsLeft(pc[c], todo[c]) = 2
      /\ pc[c] \in {"rentInfo", "rentUpdate", "editLoad"} => StepsLeft(pc[c], todo[c]) = 1
  BY DEF StepsLeft
<1>c. /\ pc'[c] \in {"crashed", "pageUse", "pageFree", "edit", "done"}
            => StepsLeft(pc'[c], todo'[c]) = 0
      /\ pc'[c] = "rentInfo" => StepsLeft(pc'[c], todo'[c]) = 1
  BY DEF StepsLeft
<1>1. CASE LoadMachineUser(c)
  <2>1. mach[c] \in exists => PageFor(row[mach[c]].status) \in {"pageUse", "pageFree", "rentInfo"}
    <3>1. mach[c] \in exists => row[mach[c]].status \in {Disabled, Idle, InUse}
      BY <1>a DEF Rows
    <3> QED BY <3>1 DEF PageFor, Disabled, Idle, InUse
  <2>2. pc[c] = "rentLoad" /\ pc'[c] \in {"pageUse", "pageFree", "rentInfo", "crashed"}
    BY <1>1, <1>a, <2>1 DEF LoadMachineUser, Crash, Over, Goto
  <2> QED BY <1>b, <1>c, <2>2
<1>2. CASE LoadRentInfo(c) \/ RentMachine(c) \/ LoadMachineStatus(c)
  <2>1. /\ pc[c] \in {"rentInfo", "rentUpdate", "editLoad"}
        /\ pc'[c] \in {"crashed", "pageUse", "pageFree", "edit", "done"}
    BY <1>2, <1>a
       DEF LoadRentInfo, RentMachine, LoadMachineStatus, AnswerLost, Crash, Over, Goto
  <2> QED BY <1>b, <1>c, <2>1
<1>3. CASE EditStatement(c)
  <2>1. pc[c] = "editRun" /\ 0 < StepsLeft(pc[c], todo[c])
    BY <1>3, <1>a, RestIsShorter DEF EditStatement
  <2>2. CASE pc'[c] \in {"done", "edit", "crashed"}
    BY <1>c, <2>1, <2>2
  <2>3. CASE pc'[c] = "editRun"
    <3>1. todo'[c] = Rest(todo[c])
      BY <1>3, <1>a, <2>3 DEF EditStatement, AnswerLost, Over, Goto
    <3> QED BY <1>a, <2>1, <2>3, <3>1, RestIsShorter
  <2> QED BY <1>3, <1>a, <2>2, <2>3 DEF EditStatement, AnswerLost, Over, Goto
<1> QED BY <1>1, <1>2, <1>3 DEF Handler

\* Only its own client moves a handler: a window is modal, and the lists of
\* statements are not shared.
LEMMA OnlyItsOwn ==
    ASSUME IInv, NEW c \in Clients, pc[c] \in Busy, [Next]_vars,
           <<pc[c], todo[c]>> # <<pc'[c], todo'[c]>>
    PROVE  Handler(c)
<1>a. /\ pc \in [Clients -> {"main", "crashed"} \cup Busy \cup Modal]
      /\ todo \in [Clients -> [hw : 0 .. MaxTouches, st : {-1, Disabled, Idle}]]
  BY DEF IInv, ClientInv, ClientTypes
<1>1. CASE Tick \/ UNCHANGED vars
  BY <1>1 DEF Tick, vars, windowVars
<1>2. ASSUME NEW d \in Clients, Handler(d)
      PROVE  d = c
  BY <1>2, <1>a
     DEF Handler, LoadMachineUser, LoadRentInfo, RentMachine, LoadMachineStatus, EditStatement,
         AnswerLost, Crash, Over, NoWindow, Goto, windowVars
<1>3. ASSUME NEW d \in Clients, Gesture(d)
      PROVE  FALSE
  <2>1. pc[d] \notin Busy
    BY <1>3 DEF Gesture, Restart, OpenRoom, Finish, OpenAddWindow, EndRent, DeleteMachine,
                AddMachine, OpenRentWindow, OpenEditWindow, ClickRent, ConfirmEdit, Busy, Modal
  <2>2. d # c => pc'[c] = pc[c] /\ todo'[c] = todo[c]
    BY <1>3, <1>a
       DEF Gesture, Restart, OpenRoom, Finish, OpenAddWindow, EndRent, DeleteMachine,
           AddMachine, OpenRentWindow, OpenEditWindow, ClickRent, ConfirmEdit, AnswerLost, Over,
           NoWindow, Goto, windowVars
  <2> QED BY <2>1, <2>2
<1> QED BY <1>1, <1>2, <1>3 DEF Next

-----------------------------------------------------------------------------
(* The start dates. *)

\* What a step may do to the start date of a row: it has nobody, or it is left as
\* it was, or it is dated now.
DateStep(m) == row'[m].uid = NULL \/ row'[m] = row[m] \/ row'[m].sdate = now

\* An UPDATE dates the row it writes, if somebody is there, and no other.
LEMMA UpdateDates ==
    ASSUME row \in [Machines -> Rows], NEW n \in Machines, NEW new \in Rows, Update(n, new),
           NEW m \in Machines
    PROVE  DateStep(m)
<1>1. row' = row \/ row' = [row EXCEPT ![n] = Trigger(new)]
  BY DEF Update
<1>2. Trigger(new).uid = NULL \/ Trigger(new).sdate = now
  BY DEF Trigger, Rows
<1> QED BY <1>1, <1>2 DEF DateStep

LEMMA StepDates ==
    ASSUME IInv, [Next]_vars, NEW m \in Machines
    PROVE  DateStep(m)
<1>a. /\ row \in [Machines -> Rows] /\ row[m] \in Rows
      /\ \A n \in Machines : row[n] \in Rows
      /\ \A c \in Clients :
            /\ pc[c] \in AtMachine => mach[c] \in Machines
            /\ pc[c] = "rentUpdate" => who[c] \in Ids
            /\ todo[c].st \in {-1, Disabled, Idle}
            /\ pc[c] = "editRun" => todo[c].hw > 0 \/ todo[c].st # -1
  BY DEF IInv, DatabaseInv, DatabaseTypes, ClientInv, ClientTypes, WindowsReady
<1>0. CASE row' = row
  BY <1>0 DEF DateStep
<1>1. CASE Tick \/ UNCHANGED vars
  BY <1>0, <1>1 DEF Tick, vars, dbVars
<1>2. ASSUME NEW c \in Clients, Handler(c)
      PROVE  DateStep(m)
  <2>1. CASE RentMachine(c) /\ row' # row
    <3> DEFINE new == [row[mach[c]] EXCEPT !.uid = who[c]]
    <3>1. mach[c] \in Machines /\ new \in Rows /\ Update(mach[c], new)
      BY <2>1, <1>a DEF RentMachine, AtMachine, Rows, dbVars
    <3> QED BY <1>a, <3>1, UpdateDates
  <2>2. CASE EditStatement(c) /\ row' # row
    <3> DEFINE t == todo[c]
               new == IF t.hw > 0 THEN row[mach[c]] ELSE [row[mach[c]] EXCEPT !.status = t.st]
    <3>1. mach[c] \in Machines /\ new \in Rows /\ Update(mach[c], new)
      BY <2>2, <1>a DEF EditStatement, AtMachine, Rows, dbVars
    <3> QED BY <1>a, <3>1, UpdateDates
  <2>3. CASE LoadMachineUser(c) \/ LoadRentInfo(c) \/ LoadMachineStatus(c)
    BY <1>0, <2>3 DEF LoadMachineUser, LoadRentInfo, LoadMachineStatus, Crash, dbVars
  <2> QED BY <1>0, <1>2, <2>1, <2>2, <2>3 DEF Handler
<1>3. ASSUME NEW c \in Clients, Gesture(c)
      PROVE  DateStep(m)
  <2>1. CASE EndRent(c)
    <3>1. mach[c] \in Machines
      BY <2>1, <1>a DEF EndRent, AtMachine
    <3>2. CASE EndRentProcedure(mach[c])
      BY <1>a, <3>1, <3>2 DEF EndRentProcedure, DateStep
    <3> QED BY <1>0, <2>1, <3>2 DEF EndRent
  <2>2. ASSUME NEW n \in Machines, DeleteMachine(c, n) \/ AddMachine(c, n)
        PROVE  DateStep(m)
    <3>1. row' = [row EXCEPT ![n] = Fresh]
      BY <2>2 DEF DeleteMachine, AddMachine
    <3> QED BY <1>a, <3>1, FreshConsistent DEF DateStep
  <2> QED BY <1>0, <1>3, <2>1, <2>2
          DEF Gesture, Restart, OpenRoom, Finish, OpenAddWindow, OpenRentWindow,
              OpenEditWindow, ClickRent, ConfirmEdit, dbVars
<1> QED BY <1>1, <1>2, <1>3 DEF Next

\* A rental that goes on has a date that has passed, so that now is not before it.
LEMMA StepsDate ==
    ASSUME IInv, [Next]_vars, NEW m \in Machines, row'[m].uid # NULL
    PROVE  IF row'[m].uid = row[m].uid THEN row[m].sdate <= row'[m].sdate
                                       ELSE row'[m].sdate = now
<1>1. DateStep(m)
  BY StepDates
<1>2. CASE row'[m] = row[m]
  <2>1. row[m].sdate \in 0 .. now /\ now \in Nat
    BY <1>2 DEF IInv, DatabaseInv, DatabaseTypes, InUseConsistent, Time
  <2> QED BY <1>2, <2>1
<1>3. CASE row'[m].sdate = now
  <2>1. row[m].uid # NULL => row[m].sdate <= now
    BY DEF IInv, DatabaseInv, DatabaseTypes, InUseConsistent, Time
  <2> QED BY <1>3, <2>1
<1> QED BY <1>1, <1>2, <1>3 DEF DateStep

-----------------------------------------------------------------------------
(* The results. *)

\* The variables keep their types (RentMachineWindow, ModifyMachineWindow and
\* the columns of the machine tables).
THEOREM TypeCorrect == Spec => []TypeOK
<1>1. IInv => TypeOK
  BY DEF IInv, DatabaseInv, ClientInv, TypeOK
<1> QED BY Invariance, <1>1, PTL

\* Status, user and start date of a machine agree (the trigger of CreateRoom).
THEOREM ColumnsAgree == Spec => []InUseConsistent
<1>1. IInv => InUseConsistent
  BY DEF IInv, DatabaseInv
<1> QED BY Invariance, <1>1, PTL

\* Whoever sits down at a machine starts now, whatever date the row still holds,
\* and a running rental is never moved back (RentMachine, EndRent and the trigger
\* of CreateRoom).
THEOREM RentalsStartNow == Spec => NeverBackdated
<1> DEFINE A == \A m \in Machines : row'[m].uid # NULL =>
                   IF row'[m].uid = row[m].uid THEN row[m].sdate <= row'[m].sdate
                                               ELSE row'[m].sdate = now
<1>1. IInv /\ [Next]_vars => [A]_vars
  BY StepsDate
<1> QED BY Invariance, <1>1, PTL DEF Spec, NeverBackdated

\* Each step of a handler leaves fewer statements to run, so that none loops,
\* whatever fails and whatever other clients do to the row (LoadMachineUser,
\* GetRentInfo, RentMachine, ModifyMachineInfo).
THEOREM StatementsRunOut == Spec => HandlersAdvance
<1> DEFINE Step == \A c \in Clients :
                      pc[c] \in Busy /\ <<pc[c], todo[c]>> # <<pc'[c], todo'[c]>> =>
                         StepsLeft(pc'[c], todo'[c]) < StepsLeft(pc[c], todo[c])
<1>1. IInv /\ [Next]_vars => [Step]_vars
  BY OnlyItsOwn, HandlerAdvances
<1> QED BY Invariance, <1>1, PTL DEF Spec, HandlersAdvance
=============================================================================
