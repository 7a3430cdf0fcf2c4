-------------------------- MODULE Accounts_proofs --------------------------
(***************************************************************************)
(* Proofs about Accounts: the types, then an invariant of every client     *)
(* that says what its cached rights, list and window still have to do with *)
(* the tables, then the properties the runs check.                         *)
(***************************************************************************)
EXTENDS Accounts, TLAPS

-----------------------------------------------------------------------------
(* Types. *)

\* Where a job is at work.
Writes == {"insert", "insertLate", "modify", "modifyLate", "change"}

\* A page that needs an id has one: that of the session, of the account a job
\* writes, of the account the window is about.
Ready ==
    \A c \in Clients :
        /\ pc[c] \in MainPages \cup {"enter"} => session[c].id # NULL
        /\ pc[c] \in Writes => job[c].id # NULL /\ job[c].value # NULL
        /\ pc[c] \in {"edit", "change", "changed"} => win[c].id # NULL

TypeInv == TypeOK /\ Ready

\* The permission box and the initial records.
LEMMA SmallSets ==
    /\ Ranks = {0, 1, 2, 3} /\ USER \in Ranks /\ ADMIN \in Ranks /\ SADMIN \in Ranks
    /\ \A p \in Ranks : Offered(p) = {USER}
    /\ NoUser \in [id : Ids \cup {NULL}, permission : Ranks]
    /\ NoWin \in [id : Ids \cup {NULL}, index : {-1, 0}]
    /\ NoJob \in [id : Ids \cup {NULL}, value : Values \cup {NULL}, permission : Ranks]
    /\ {-1} \cup {r - 1 : r \in Offered(SADMIN)} = {-1, 0}
    /\ \A p, r \in Ranks : BoxIndex(p, r) \in {-1, 0}
<1>1. Ranks = {0, 1, 2, 3} /\ USER \in Ranks /\ ADMIN \in Ranks /\ SADMIN \in Ranks
  BY DEF Ranks, USER, ADMIN, SADMIN
<1>2. \A p \in Ranks : Offered(p) = {USER}
  BY <1>1 DEF Offered, SADMIN
<1>3. {r - 1 : r \in {USER}} = {0}
  BY DEF USER
<1>4. \A p, r \in Ranks : BoxIndex(p, r) \in {-1, 0}
  BY <1>2 DEF BoxIndex, USER
<1>5. {-1} \cup {r - 1 : r \in Offered(SADMIN)} = {-1, 0}
  BY <1>1, <1>2, <1>3
<1> QED BY <1>1, <1>2, <1>4, <1>5 DEF NoUser, NoWin, NoJob

\* What the queries return.
LEMMA QueriesTyped ==
    ASSUME TypeOK, NEW c \in Clients
    PROVE  /\ \A u \in Ids, old \in Ranks : GetUserInfo(u, old) \subseteq Ranks
           /\ \A wanted : FillList(c, wanted) => list' \in [Clients -> SUBSET Ids]
<1>1. \A u \in Ids, old \in Ranks : GetUserInfo(u, old) \subseteq Ranks
  BY DEF GetUserInfo, TypeOK
<1>2. \A wanted : FillList(c, wanted) => list' \in [Clients -> SUBSET Ids]
  <2> SUFFICES ASSUME NEW wanted, FillList(c, wanted) PROVE list' \in [Clients -> SUBSET Ids]
    OBVIOUS
  <2>1. PICK rows \in {wanted \cap Below(session[c].permission)} \cup (IF SqlErrors THEN {{}} ELSE {}) :
           list' = [list EXCEPT ![c] = rows]
    BY DEF FillList
  <2>2. rows \subseteq Ids
    BY DEF Below
  <2> QED BY <2>1, <2>2 DEF TypeOK
<1> QED BY <1>1, <1>2

\* The types, and what handlers rely on, from the start.
LEMMA InitTyped == Init => TypeInv
<1> SUFFICES ASSUME Init PROVE TypeInv
  OBVIOUS
<1>1. /\ info \in [Ids -> Values \cup {First, NULL}]
      /\ permission \in [Ids -> Ranks \cup {NULL}]
      /\ \A u \in Ids : permission[u] # NULL => info[u] # NULL
  BY SmallSets, AccountAssumption DEF Init
<1>2. pc \in [Clients -> LoginPages \cup MainPages \cup {"enter", "crashed"}]
  BY DEF Init, LoginPages
<1>3. connected \in [Clients -> BOOLEAN]
  BY DEF Init
<1>4. /\ session \in [Clients -> [id : Ids \cup {NULL}, permission : Ranks]]
      /\ buttons \in [Clients -> Ranks]
      /\ list \in [Clients -> SUBSET Ids]
      /\ win \in [Clients -> [id : Ids \cup {NULL}, index : {-1, 0}]]
      /\ job \in [Clients -> [id : Ids \cup {NULL}, value : Values \cup {NULL}, permission : Ranks]]
  BY SmallSets DEF Init
<1>5. /\ reply \in [Clients -> {"none", "pending", "done", "failed"}]
      /\ tx \in [Clients -> {{}, {"info"}, {"info", "permission"}}]
  BY DEF Init
<1>6. TypeOK
  BY <1>1, <1>2, <1>3, <1>4, <1>5, SmallSets DEF TypeOK
<1>7. Ready
  BY DEF Init, Ready, MainPages, Writes
<1> QED BY <1>6, <1>7 DEF TypeInv

\* What the records of a client hold, and that its handler has what it needs.
LEMMA ClientTyped ==
    ASSUME TypeInv, NEW c \in Clients
    PROVE  /\ session[c] \in [id : Ids \cup {NULL}, permission : Ranks]
           /\ job[c] \in [id : Ids \cup {NULL}, value : Values \cup {NULL}, permission : Ranks]
           /\ win[c] \in [id : Ids \cup {NULL}, index : {-1, 0}]
           /\ tx[c] \in {{}, {"info"}, {"info", "permission"}}
           /\ pc[c] \in MainPages \cup {"enter"} => session[c].id \in Ids
           /\ pc[c] \in Writes => job[c].id \in Ids /\ job[c].value \in Values
           /\ pc[c] \in {"edit", "change", "changed"} => win[c].id \in Ids
BY SmallSets DEF TypeInv, TypeOK, Ready

\* A row of info is written, and the row of user_permission with it or not.
RowsTyped ==
    /\ info \in [Ids -> Values \cup {First, NULL}]
    /\ permission \in [Ids -> Ranks \cup {NULL}]
    /\ \A u \in Ids : permission[u] # NULL => info[u] # NULL

\* A written row leaves the tables typed.
LEMMA RowWritten ==
    ASSUME TypeOK, NEW u \in Ids, NEW v \in Values, NEW p \in Ranks,
           info' = [info EXCEPT ![u] = v],
           \/ permission' = permission
           \/ permission' = [permission EXCEPT ![u] = p]
    PROVE  RowsTyped'
<1>1. info' \in [Ids -> Values \cup {First, NULL}] /\ info'[u] # NULL
  BY AccountAssumption DEF TypeOK
<1>2. permission' \in [Ids -> Ranks \cup {NULL}]
  BY DEF TypeOK
<1>3. ASSUME NEW w \in Ids, permission'[w] # NULL PROVE info'[w] # NULL
  <2>1. CASE w = u
    BY <1>1, <2>1
  <2>2. CASE w # u
    BY <1>3, <2>2 DEF TypeOK
  <2> QED BY <2>1, <2>2
<1> QED BY <1>1, <1>2, <1>3 DEF RowsTyped

\* A crash, whatever became of the rows.
LEMMA CrashTyped ==
    ASSUME TypeInv, NEW c \in Clients, Crash(c), RowsTyped'
    PROVE  TypeInv'
<1>1. TypeOK'
  BY SmallSets DEF TypeInv, TypeOK, RowsTyped, Crash, Goto
<1>2. Ready'
  BY DEF TypeInv, TypeOK, Ready, Crash, Goto, MainPages, Writes
<1> QED BY <1>1, <1>2 DEF TypeInv

\* What may be committed of an edit.
Parts == {{}, {"info"}, {"info", "permission"}}

\* The steps of ChangInfo: a row is written, or the transaction ends, and with the
\* window on "changed" both tables are committed.
LEMMA EditSteps ==
    ASSUME TypeOK, NEW c \in Clients, UpdateRow(c) \/ Commit(c)
    PROVE  /\ pc[c] = "change"
           /\ \/ /\ tx' = [tx EXCEPT ![c] = {"info"}] \/ tx' = [tx EXCEPT ![c] = {"info", "permission"}]
                 /\ UNCHANGED <<dbVars, pc, connected, session, buttons, list, win, job, reply>>
              \/ /\ \E kept \in Parts : Committed(c, kept)
                 /\ Crash(c) \/ Over(c, "edit")
              \/ Committed(c, {"info", "permission"}) /\ Over(c, "changed")
<1>1. tx[c] \in Parts
  BY DEF TypeOK, Parts
<1>2. GiveUp(c) => (\E kept \in Parts : Committed(c, kept)) /\ (Crash(c) \/ Over(c, "edit"))
  BY <1>1 DEF GiveUp, Parts
<1>3. CASE UpdateRow(c)
  BY <1>2, <1>3 DEF UpdateRow
<1>4. CASE Commit(c)
  BY <1>1, <1>2, <1>4 DEF Commit
<1> QED BY <1>3, <1>4

\* The tables change where a transaction that has written something ends.
LEMMA EditCommits ==
    ASSUME TypeOK, NEW c \in Clients, UpdateRow(c) \/ Commit(c), ~UNCHANGED dbVars
    PROVE  /\ pc[c] = "change" /\ tx[c] # {}
           /\ \E kept \in Parts : Committed(c, kept)
<1>1. pc[c] = "change"
  BY EditSteps
<1>2. tx[c] # {}
  BY DEF UpdateRow, Commit, GiveUp, Committed, dbVars
<1>3. \E kept \in Parts : Committed(c, kept)
  BY EditSteps DEF Parts
<1> QED BY <1>1, <1>2, <1>3

\* What is committed leaves the tables typed.
LEMMA CommittedTyped ==
    ASSUME TypeInv, NEW c \in Clients, pc[c] = "change", NEW kept \in Parts, Committed(c, kept)
    PROVE  RowsTyped'
<1>1. job[c].id \in Ids /\ job[c].value \in Values /\ job[c].permission \in Ranks
  BY ClientTyped DEF Writes
<1>2. TypeOK
  BY DEF TypeInv
<1>3. CASE kept = {}
  BY <1>2, <1>3 DEF Committed, RowsTyped, TypeOK
<1>4. CASE kept # {}
  <2>1. info' = [info EXCEPT ![job[c].id] = job[c].value]
    BY <1>4 DEF Committed, Parts
  <2>2. \/ permission' = permission
        \/ permission' = [permission EXCEPT ![job[c].id] = job[c].permission]
    BY DEF Committed
  <2> QED BY <1>1, <1>2, <2>1, <2>2, RowWritten
<1> QED BY <1>3, <1>4

\* Every step of a handler keeps the types.
LEMMA HandlerTyped ==
    ASSUME TypeInv, NEW c \in Clients, Handler(c)
    PROVE  TypeInv'
<1>a. TypeOK
  BY DEF TypeInv
<1> USE DEF LoginPages, MainPages, Goto, dbVars, Writes
<1>1. CASE SlotLogin(c)
  <2>1. PICK p \in Ranks : /\ session' = [session EXCEPT ![c].permission = p]
                           /\ buttons' = [buttons EXCEPT ![c] = p]
    <3>1. session[c].id \in Ids /\ session[c].permission \in Ranks
      BY <1>1, ClientTyped DEF SlotLogin
    <3>2. GetUserInfo(session[c].id, session[c].permission) \subseteq Ranks
      BY <3>1, <1>a, QueriesTyped
    <3> QED BY <1>1, <3>2 DEF SlotLogin
  <2>4. session' \in [Clients -> [id : Ids \cup {NULL}, permission : Ranks]]
    <3>1. [session[c] EXCEPT !.permission = p] \in [id : Ids \cup {NULL}, permission : Ranks]
      BY <2>1, ClientTyped
    <3> QED BY <2>1, <3>1, <1>a DEF TypeOK
  <2>2. TypeOK'
    BY <1>1, <2>1, <2>4, <1>a DEF SlotLogin, TypeOK
  <2>3. Ready'
    BY <1>1, <2>1, <1>a DEF SlotLogin, TypeOK, TypeInv, Ready
  <2> QED BY <2>2, <2>3 DEF TypeInv
<1>2. CASE Register(c)
  <2>1. job[c].id \in Ids /\ job[c].value \in Values
    BY <1>2, ClientTyped DEF Register
  <2>2. CASE connected[c]
    <3>1. \/ /\ info[job[c].id] = NULL
             /\ info' = [info EXCEPT ![job[c].id] = job[c].value]
             /\ permission' = permission \/ permission' = [permission EXCEPT ![job[c].id] = USER]
             /\ reply' = [reply EXCEPT ![c] = "done"] \/ reply' = [reply EXCEPT ![c] = "failed"]
          \/ reply' = [reply EXCEPT ![c] = "failed"] /\ UNCHANGED dbVars
      BY <1>2, <2>2 DEF Register, InsertRow
    <3>2. RowsTyped'
      <4>1. CASE UNCHANGED dbVars
        BY <4>1, <1>a DEF TypeOK, RowsTyped
      <4>2. CASE ~UNCHANGED dbVars
        BY <4>2, <2>1, <3>1, <1>a, RowWritten, SmallSets
      <4> QED BY <4>1, <4>2
    <3>3. TypeOK'
      BY <1>2, <3>1, <3>2, <1>a DEF Register, TypeOK, RowsTyped
    <3>4. Ready'
      BY <1>2 DEF Register, TypeInv, Ready
    <3> QED BY <3>3, <3>4 DEF TypeInv
  <2>3. CASE ~connected[c]
    <3>1. TypeOK'
      BY <1>2, <2>3, <1>a DEF Register, Pretend, TypeOK
    <3>2. Ready'
      BY <1>2 DEF Register, TypeInv, Ready
    <3> QED BY <3>1, <3>2 DEF TypeInv
  <2> QED BY <2>2, <2>3
<1>3. CASE RegisterAnswer(c)
  <2>1. TypeOK'
    BY <1>3, <1>a, SmallSets DEF RegisterAnswer, TypeOK
  <2>2. Ready'
    BY <1>3, <1>a DEF RegisterAnswer, TypeOK, TypeInv, Ready
  <2> QED BY <2>1, <2>2 DEF TypeInv
<1>4. CASE ModifyInfo(c)
  <2>1. job[c].id \in Ids /\ job[c].value \in Values
    BY <1>4, ClientTyped DEF ModifyInfo
  <2>2. RowsTyped'
    <3>1. CASE info' = info
      BY <1>4, <3>1, <1>a DEF ModifyInfo, TypeOK, RowsTyped
    <3>2. CASE info' = [info EXCEPT ![job[c].id] = job[c].value]
      BY <1>4, <2>1, <3>2, <1>a, RowWritten, SmallSets DEF ModifyInfo
    <3> QED BY <1>4, <3>1, <3>2 DEF ModifyInfo
  <2>3. TypeOK'
    BY <1>4, <2>2, <1>a DEF ModifyInfo, TypeOK, RowsTyped
  <2>4. Ready'
    BY <1>4 DEF ModifyInfo, TypeInv, Ready
  <2> QED BY <2>3, <2>4 DEF TypeInv
<1>5. CASE ModifyAnswer(c)
  <2>1. TypeOK'
    BY <1>5, <1>a, SmallSets DEF ModifyAnswer, TypeOK
  <2>2. Ready'
    BY <1>5, <1>a DEF ModifyAnswer, TypeOK, TypeInv, Ready
  <2> QED BY <2>1, <2>2 DEF TypeInv
<1>6. CASE TimeOut(c)
  <2>1. TypeOK'
    BY <1>6, <1>a DEF TimeOut, TypeOK
  <2>2. Ready'
    BY <1>6, <1>a DEF TimeOut, TypeOK, TypeInv, Ready
  <2> QED BY <2>1, <2>2 DEF TypeInv
<1>7. CASE UpdateRow(c) \/ Commit(c)
  <2>0. pc[c] = "change"
    BY <1>7, <1>a, EditSteps
  <2>1. CASE UNCHANGED dbVars /\ UNCHANGED <<pc, connected, session, buttons, list, win, job, reply>>
             /\ (tx' = [tx EXCEPT ![c] = {"info"}] \/ tx' = [tx EXCEPT ![c] = {"info", "permission"}])
    <3>1. TypeOK'
      BY <2>1, <1>a DEF TypeOK
    <3>2. Ready'
      BY <2>1 DEF TypeInv, Ready
    <3> QED BY <3>1, <3>2 DEF TypeInv
  <2>2. ASSUME NEW kept \in Parts, Committed(c, kept), NEW p \in {"edit", "changed"},
               Crash(c) \/ Over(c, p)
        PROVE  TypeInv'
    <3>1. RowsTyped'
      BY <2>0, <2>2, CommittedTyped
    <3>2. CASE Crash(c)
      BY <3>1, <3>2, CrashTyped
    <3>3. CASE Over(c, p)
      <4>1. pc' \in [Clients -> LoginPages \cup MainPages \cup {"enter", "crashed"}]
        BY <3>3, <1>a DEF Over, TypeOK
      <4>2. job' \in [Clients -> [id : Ids \cup {NULL}, value : Values \cup {NULL}, permission : Ranks]]
        BY <3>3, <1>a, SmallSets DEF Over, TypeOK
      <4>3. tx' \in [Clients -> {{}, {"info"}, {"info", "permission"}}]
        BY <3>3, <1>a DEF Over, TypeOK
      <4>4. TypeOK'
        BY <3>1, <3>3, <4>1, <4>2, <4>3, <1>a DEF Over, TypeOK, RowsTyped
      <4>5. pc'[c] \in {"edit", "changed"} /\ win[c].id \in Ids /\ session[c].id \in Ids
        BY <2>0, <3>3, <1>a, ClientTyped DEF Over, TypeOK
      <4>6. Ready'
        BY <3>3, <4>5, <1>a, AccountAssumption DEF Over, TypeOK, TypeInv, Ready
      <4> QED BY <4>4, <4>6 DEF TypeInv
    <3> QED BY <2>2, <3>2, <3>3
  <2> QED BY <1>7, <1>a, <2>1, <2>2, EditSteps DEF Parts
<1> QED BY <1>1, <1>2, <1>3, <1>4, <1>5, <1>6, <1>7 DEF Handler

\* And so does whatever the user does.
LEMMA GestureTyped ==
    ASSUME TypeInv, NEW c \in Clients, Gesture(c)
    PROVE  TypeInv'
<1>a. TypeOK
  BY DEF TypeInv
<1> USE DEF LoginPages, MainPages, Goto, dbVars, Writes
<1>1. CASE Restart(c)
  <2>1. TypeOK'
    <3>1. connected' \in [Clients -> BOOLEAN]
      BY <1>1, <1>a DEF Restart, TypeOK
    <3> QED BY <1>1, <3>1, <1>a DEF Restart, TypeOK
  <2>2. Ready'
    BY <1>1, <1>a DEF Restart, TypeOK, TypeInv, Ready
  <2> QED BY <2>1, <2>2 DEF TypeInv
<1>2. CASE Logout(c)
  <2>1. TypeOK'
    BY <1>2, <1>a, SmallSets DEF Logout, TypeOK
  <2>2. Ready'
    BY <1>2, <1>a DEF Logout, TypeOK, TypeInv, Ready
  <2> QED BY <2>1, <2>2 DEF TypeInv
<1>3. CASE TurnRegisterPage(c)
  <2>1. TypeOK'
    BY <1>3, <1>a, SmallSets DEF TurnRegisterPage, TypeOK
  <2>2. Ready'
    BY <1>3, <1>a DEF TurnRegisterPage, TypeOK, TypeInv, Ready
  <2> QED BY <2>1, <2>2 DEF TypeInv
<1>4. CASE DismissRegistered(c)
  <2>1. TypeOK'
    BY <1>4, <1>a, SmallSets DEF DismissRegistered, TypeOK
  <2>2. Ready'
    BY <1>4, <1>a DEF DismissRegistered, TypeOK, TypeInv, Ready
  <2> QED BY <2>1, <2>2 DEF TypeInv
<1>5. CASE Join(c)
  <2>1. TypeOK'
    BY <1>5, <1>a, SmallSets DEF Join, TypeOK
  <2>2. Ready'
    BY <1>5, <1>a DEF Join, TypeOK, TypeInv, Ready
  <2> QED BY <2>1, <2>2 DEF TypeInv
<1>6. CASE ShowMainPage(c)
  <2>1. PICK p \in Ranks : session' = [session EXCEPT ![c].permission = p]
    <3>1. session[c].id \in Ids /\ session[c].permission \in Ranks
      BY <1>6, ClientTyped DEF ShowMainPage
    <3>2. GetUserInfo(session[c].id, session[c].permission) \subseteq Ranks
      BY <3>1, <1>a, QueriesTyped
    <3> QED BY <1>6, <3>1, <3>2 DEF ShowMainPage
  <2>2. session' \in [Clients -> [id : Ids \cup {NULL}, permission : Ranks]]
    <3>1. [session[c] EXCEPT !.permission = p] \in [id : Ids \cup {NULL}, permission : Ranks]
      BY <2>1, ClientTyped
    <3> QED BY <2>1, <3>1, <1>a DEF TypeOK
  <2>3. TypeOK'
    BY <1>6, <2>1, <2>2, <1>a DEF ShowMainPage, TypeOK
  <2>4. Ready'
    BY <1>6, <2>1, <1>a DEF ShowMainPage, TypeOK, TypeInv, Ready
  <2> QED BY <2>3, <2>4 DEF TypeInv
<1>7. CASE OpenModifyWindow(c)
  <2>1. TypeOK'
    BY <1>7, <1>a, SmallSets DEF OpenModifyWindow, TypeOK
  <2>2. Ready'
    BY <1>7, <1>a DEF OpenModifyWindow, TypeOK, TypeInv, Ready
  <2> QED BY <2>1, <2>2 DEF TypeInv
<1>8. CASE CloseModifyWindow(c)
  <2>1. TypeOK'
    BY <1>8, <1>a, SmallSets DEF CloseModifyWindow, TypeOK
  <2>2. Ready'
    BY <1>8, <1>a DEF CloseModifyWindow, TypeOK, TypeInv, Ready
  <2> QED BY <2>1, <2>2 DEF TypeInv
<1>9. CASE ShowUserPage(c)
  <2>1. list' \in [Clients -> SUBSET Ids]
    BY <1>9, <1>a, QueriesTyped DEF ShowUserPage
  <2>2. TypeOK'
    BY <1>9, <2>1, <1>a, SmallSets DEF ShowUserPage, TypeOK
  <2>3. Ready'
    BY <1>9, <1>a DEF ShowUserPage, TypeOK, TypeInv, Ready
  <2> QED BY <2>2, <2>3 DEF TypeInv
<1>10. CASE FinishChange(c)
  <2>1. list' \in [Clients -> SUBSET Ids]
    BY <1>10, <1>a, QueriesTyped DEF FinishChange
  <2>2. TypeOK'
    BY <1>10, <2>1, <1>a, SmallSets DEF FinishChange, TypeOK
  <2>3. Ready'
    BY <1>10, <1>a DEF FinishChange, TypeOK, TypeInv, Ready
  <2> QED BY <2>2, <2>3 DEF TypeInv
<1>11. ASSUME NEW u \in Ids, SearchUser(c, u) PROVE TypeInv'
  <2>1. list' \in [Clients -> SUBSET Ids]
    <3>1. CASE FillList(c, {u})
      BY <3>1, <1>a, QueriesTyped
    <3>2. CASE list' = [list EXCEPT ![c] = {}]
      BY <3>2, <1>a DEF TypeOK
    <3> QED BY <1>11, <3>1, <3>2 DEF SearchUser
  <2>2. TypeOK'
    BY <1>11, <2>1, <1>a, SmallSets DEF SearchUser, TypeOK
  <2>3. Ready'
    BY <1>11, <1>a DEF SearchUser, TypeOK, TypeInv, Ready
  <2> QED BY <2>2, <2>3 DEF TypeInv
<1>12. ASSUME NEW u \in Ids, ClickLogin(c, u) PROVE TypeInv'
  <2>1. session' \in [Clients -> [id : Ids \cup {NULL}, permission : Ranks]]
    <3>1. session' = [session EXCEPT ![c].id = u]
      BY <1>12 DEF ClickLogin
    <3>2. [session[c] EXCEPT !.id = u] \in [id : Ids \cup {NULL}, permission : Ranks]
      BY ClientTyped
    <3> QED BY <3>1, <3>2, <1>a DEF TypeOK
  <2>2. TypeOK'
    BY <1>12, <2>1, <1>a DEF ClickLogin, TypeOK
  <2>3. Ready'
    BY <1>12, <1>a, AccountAssumption DEF ClickLogin, TypeOK, TypeInv, Ready
  <2> QED BY <2>2, <2>3 DEF TypeInv
<1>13. ASSUME NEW u \in Ids, OpenChangeWindow(c, u) PROVE TypeInv'
  <2>1. PICK seen \in Ranks :
           win' = [win EXCEPT ![c] = [id |-> u, index |-> BoxIndex(session[c].permission, seen)]]
    BY <1>13, <1>a, QueriesTyped, SmallSets DEF OpenChangeWindow
  <2>2. BoxIndex(session[c].permission, seen) \in {-1, 0}
    BY <2>1, ClientTyped, SmallSets
  <2>3. win' \in [Clients -> [id : Ids \cup {NULL}, index : {-1, 0}]]
    BY <2>1, <2>2, <1>a, SmallSets DEF TypeOK
  <2>4. TypeOK'
    BY <1>13, <2>3, <1>a, SmallSets DEF OpenChangeWindow, TypeOK
  <2>5. Ready'
    BY <1>13, <2>1, <1>a, AccountAssumption DEF OpenChangeWindow, TypeOK, TypeInv, Ready
  <2> QED BY <2>4, <2>5 DEF TypeInv
<1>14. ASSUME NEW u \in Ids, NEW v \in Values, ConfirmRegister(c, u, v) PROVE TypeInv'
  <2>1. [NoJob EXCEPT !.id = u, !.value = v]
           \in [id : Ids \cup {NULL}, value : Values \cup {NULL}, permission : Ranks]
    BY SmallSets DEF NoJob
  <2>2. TypeOK'
    BY <1>14, <2>1, <1>a DEF ConfirmRegister, TypeOK
  <2>3. Ready'
    BY <1>14, <1>a, AccountAssumption DEF ConfirmRegister, TypeOK, TypeInv, Ready, NoJob
  <2> QED BY <2>2, <2>3 DEF TypeInv
<1>15. ASSUME NEW v \in Values, ConfirmModify(c, v) PROVE TypeInv'
  <2>1. session[c].id \in Ids
    BY <1>15, ClientTyped DEF ConfirmModify
  <2>2. [NoJob EXCEPT !.id = session[c].id, !.value = v]
           \in [id : Ids \cup {NULL}, value : Values \cup {NULL}, permission : Ranks]
    BY <2>1, SmallSets DEF NoJob
  <2>3. TypeOK'
    BY <1>15, <2>2, <1>a DEF ConfirmModify, TypeOK
  <2>4. Ready'
    BY <1>15, <2>1, <1>a, AccountAssumption DEF ConfirmModify, TypeOK, TypeInv, Ready, NoJob
  <2> QED BY <2>3, <2>4 DEF TypeInv
<1>16. ASSUME NEW v \in Values, NEW p \in Ranks, ConfirmChange(c, v, p) PROVE TypeInv'
  <2>1. CASE Crash(c)
    <3>1. RowsTyped'
      BY <1>16, <1>a DEF ConfirmChange, TypeOK, RowsTyped
    <3> QED BY <2>1, <3>1, CrashTyped
  <2>2. CASE ~Crash(c)
    <3>1. win[c].id \in Ids /\ session[c].id \in Ids
      BY <1>16, ClientTyped DEF ConfirmChange
    <3>2. [id |-> win[c].id, value |-> v, permission |-> p]
             \in [id : Ids \cup {NULL}, value : Values \cup {NULL}, permission : Ranks]
      BY <3>1
    <3>3. /\ pc' = [pc EXCEPT ![c] = "change"]
          /\ job' = [job EXCEPT ![c] = [id |-> win[c].id, value |-> v, permission |-> p]]
          /\ UNCHANGED <<dbVars, connected, session, buttons, list, win, reply, tx>>
      BY <1>16, <2>2 DEF ConfirmChange
    <3>4. TypeOK'
      BY <3>2, <3>3, <1>a DEF TypeOK
    <3>5. Ready'
      BY <3>1, <3>3, <1>a, AccountAssumption DEF TypeOK, TypeInv, Ready
    <3> QED BY <3>4, <3>5 DEF TypeInv
  <2> QED BY <2>1, <2>2
<1> QED BY <1>1, <1>2, <1>3, <1>4, <1>5, <1>6, <1>7, <1>8, <1>9, <1>10, <1>11, <1>12, <1>13,
           <1>14, <1>15, <1>16 DEF Gesture

\* Hence every step.
LEMMA NextTyped == TypeInv /\ [Next]_vars => TypeInv'
<1> SUFFICES ASSUME TypeInv, [Next]_vars PROVE TypeInv'
  OBVIOUS
<1>1. CASE UNCHANGED vars
  BY <1>1 DEF TypeInv, TypeOK, Ready, vars, dbVars
<1> QED BY <1>1, HandlerTyped, GestureTyped DEF Next

-----------------------------------------------------------------------------
(* What a client's session, list and window have to do with the tables. *)

\* The session of c may edit the account u: whatever happens, u stays below it.
Reached(c, u) ==
    /\ permission[u] \notin {NULL, SADMIN}
    /\ permission[u] = ADMIN => session[c].permission = SADMIN

SessionInv(c) ==
    /\ pc[c] \in LoginPages \cup {"crashed"} => session[c] = NoUser
    /\ pc[c] = "enter" => session[c].permission = 0
    /\ pc[c] \in MainPages /\ SADMIN \in {session[c].permission, buttons[c]} =>
          permission[session[c].id] = SADMIN

ReachInv(c) ==
    /\ pc[c] # "users" => list[c] = {}
    /\ \A u \in list[c] : Reached(c, u)
    /\ pc[c] \in {"edit", "change", "changed"} => Reached(c, win[c].id)

JobInv(c) ==
    /\ pc[c] \in {"modify", "modifyLate"} => job[c].id = session[c].id
    /\ pc[c] = "change" => job[c].id = win[c].id
    /\ job[c].permission \in {0, USER}
    /\ tx[c] # {} => pc[c] = "change"
    /\ pc[c] = "registered" => job[c].id \in Ids /\ info[job[c].id] # NULL
    /\ pc[c] = "insert" /\ reply[c] = "done" => info[job[c].id] # NULL

ClientInv(c) == SessionInv(c) /\ ReachInv(c) /\ JobInv(c)

IInv == TypeInv /\ \A c \in Clients : ClientInv(c)

\* What a step may do to the row of u: an account stays, a super administrator
\* stays one, and nobody rises who had a permission.
RowStep(u) ==
    /\ info[u] # NULL => info'[u] # NULL
    /\ \/ permission'[u] = permission[u]
       \/ permission[u] = NULL /\ info[u] = NULL
       \/ permission[u] \notin {NULL, SADMIN} /\ permission'[u] \in {0, USER}

\* The steps of the others leave a client's invariant alone.
LEMMA OthersKept ==
    ASSUME TypeInv, NEW d \in Clients, ClientInv(d),
           \A u \in Ids : RowStep(u),
           pc'[d] = pc[d], session'[d] = session[d], buttons'[d] = buttons[d],
           list'[d] = list[d], win'[d] = win[d], job'[d] = job[d],
           reply'[d] = reply[d], tx'[d] = tx[d]
    PROVE  ClientInv(d)'
<1>1. ASSUME NEW u \in Ids, Reached(d, u) PROVE Reached(d, u)'
  BY <1>1, AccountAssumption, SmallSets DEF RowStep, Reached, USER, ADMIN, SADMIN
<1>2. SessionInv(d)'
  BY ClientTyped, AccountAssumption, SmallSets DEF ClientInv, SessionInv, RowStep, SADMIN
<1>3. ReachInv(d)'
  <2>1. \A u \in list[d] : u \in Ids
    BY DEF TypeInv, TypeOK
  <2>2. \A u \in list'[d] : Reached(d, u)'
    BY <1>1, <2>1 DEF ClientInv, ReachInv
  <2>3. pc[d] \in {"edit", "change", "changed"} => Reached(d, win[d].id)'
    BY <1>1, ClientTyped DEF ClientInv, ReachInv
  <2> QED BY <2>2, <2>3 DEF ClientInv, ReachInv
<1>4. JobInv(d)'
  BY ClientTyped DEF ClientInv, JobInv, RowStep, Writes
<1> QED BY <1>2, <1>3, <1>4 DEF ClientInv

\* A step of c leaves the other clients alone.
LEMMA OnlyOne ==
    ASSUME TypeInv, NEW c \in Clients, Handler(c) \/ Gesture(c), NEW d \in Clients, d # c
    PROVE  /\ pc'[d] = pc[d] /\ session'[d] = session[d] /\ buttons'[d] = buttons[d]
           /\ list'[d] = list[d] /\ win'[d] = win[d] /\ job'[d] = job[d]
           /\ reply'[d] = reply[d] /\ tx'[d] = tx[d]
<1> USE DEF TypeInv, TypeOK, Goto, Crash
<1>0. CASE SlotLogin(c)
  BY <1>0 DEF SlotLogin
<1>1. CASE Register(c) \/ RegisterAnswer(c) \/ ModifyInfo(c) \/ ModifyAnswer(c)
  <2>1. CASE Register(c)
    <3>1. /\ \E answer \in {"done", "failed"} : reply' = [reply EXCEPT ![c] = answer]
          /\ UNCHANGED <<pc, connected, session, buttons, list, win, job, tx>>
      BY <2>1 DEF Register, InsertRow, Pretend
    <3> QED BY <3>1
  <2>2. CASE RegisterAnswer(c) \/ ModifyInfo(c) \/ ModifyAnswer(c)
    BY <2>2 DEF RegisterAnswer, ModifyInfo, ModifyAnswer
  <2> QED BY <1>1, <2>1, <2>2
<1>2. CASE TimeOut(c) \/ UpdateRow(c) \/ Commit(c)
  <2>1. CASE TimeOut(c)
    BY <2>1 DEF TimeOut
  <2>2. CASE Crash(c) \/ (\E p : Over(c, p))
    BY <2>2 DEF Over
  <2>3. CASE \/ tx' = [tx EXCEPT ![c] = {"info"}] /\ UNCHANGED <<pc, session, buttons, list, win, job, reply>>
             \/ tx' = [tx EXCEPT ![c] = {"info", "permission"}] /\ UNCHANGED <<pc, session, buttons, list, win, job, reply>>
    BY <2>3
  <2>4. CASE UpdateRow(c) \/ Commit(c)
    <3> HIDE DEF Crash, Over
    <3> QED BY <2>2, <2>3, <2>4, EditSteps
  <2> QED BY <1>2, <2>1, <2>4
<1>3. CASE Restart(c) \/ Logout(c) \/ TurnRegisterPage(c) \/ DismissRegistered(c) \/ Join(c)
  BY <1>3 DEF Restart, Logout, TurnRegisterPage, DismissRegistered, Join
<1>4. CASE ShowMainPage(c) \/ OpenModifyWindow(c) \/ CloseModifyWindow(c)
           \/ ShowUserPage(c) \/ FinishChange(c)
  BY <1>4 DEF ShowMainPage, OpenModifyWindow, CloseModifyWindow, ShowUserPage, FinishChange, FillList
<1>5. ASSUME NEW u \in Ids, ClickLogin(c, u) \/ SearchUser(c, u) \/ OpenChangeWindow(c, u)
      PROVE  /\ pc'[d] = pc[d] /\ session'[d] = session[d] /\ buttons'[d] = buttons[d]
             /\ list'[d] = list[d] /\ win'[d] = win[d] /\ job'[d] = job[d]
             /\ reply'[d] = reply[d] /\ tx'[d] = tx[d]
  BY <1>5 DEF ClickLogin, SearchUser, OpenChangeWindow, FillList
<1>6. ASSUME NEW v \in Values, NEW x,
             \/ x \in Ids /\ ConfirmRegister(c, x, v)
             \/ ConfirmModify(c, v)
             \/ x \in Ranks /\ ConfirmChange(c, v, x)
      PROVE  /\ pc'[d] = pc[d] /\ session'[d] = session[d] /\ buttons'[d] = buttons[d]
             /\ list'[d] = list[d] /\ win'[d] = win[d] /\ job'[d] = job[d]
             /\ reply'[d] = reply[d] /\ tx'[d] = tx[d]
  BY <1>6 DEF ConfirmRegister, ConfirmModify, ConfirmChange
<1> QED BY <1>0, <1>1, <1>2, <1>3, <1>4, <1>5, <1>6 DEF Handler, Gesture

\* What the table of the user page is filled with can be edited.
LEMMA ListReached ==
    ASSUME TypeInv, NEW c \in Clients, NEW wanted, FillList(c, wanted),
           UNCHANGED <<session, permission>>
    PROVE  \A u \in list'[c] : Reached(c, u)'
<1>1. list'[c] \subseteq Below(session[c].permission)
  BY DEF FillList, TypeInv, TypeOK
<1>2. ASSUME NEW u \in list'[c] PROVE Reached(c, u)'
  <2>1. u \in Ids /\ permission[u] # NULL /\ permission[u] < session[c].permission
    BY <1>1, <1>2 DEF Below
  <2>2. permission[u] \in Ranks /\ session[c].permission \in Ranks
    BY <2>1, ClientTyped DEF TypeInv, TypeOK
  <2> QED BY <2>1, <2>2, SmallSets DEF Reached, ADMIN, SADMIN
<1> QED BY <1>2

\* The session is read again: a super administrator reads that he is one.
LEMMA SessionRead ==
    ASSUME TypeInv, NEW c \in Clients, NEW old \in Ranks, NEW p \in GetUserInfo(session[c].id, old)
    PROVE  p = old \/ p = permission[session[c].id]
BY DEF GetUserInfo

\* Where a handler crashes, its invariant is that of a program not started yet.
LEMMA CrashInv ==
    ASSUME TypeInv, NEW c \in Clients, Crash(c)
    PROVE  ClientInv(c)'
BY SmallSets DEF TypeInv, TypeOK, Crash, Goto, ClientInv, SessionInv, ReachInv, JobInv,
                 NoUser, NoJob, NoWin, LoginPages, MainPages

\* Every step of a handler keeps the invariant of its client and treats the rows well.
LEMMA HandlerInv ==
    ASSUME TypeInv, NEW c \in Clients, ClientInv(c), Handler(c)
    PROVE  ClientInv(c)' /\ \A u \in Ids : RowStep(u)
<1> USE DEF LoginPages, MainPages, Goto, dbVars, Writes, ClientInv
<1>a. TypeOK
  BY DEF TypeInv
<1>1. CASE SlotLogin(c)
  <2>a. session[c].id \in Ids /\ session[c].permission = 0 /\ session[c].permission \in Ranks
    BY <1>1, ClientTyped DEF SlotLogin, SessionInv
  <2>b. PICK p \in GetUserInfo(session[c].id, session[c].permission) :
           /\ session' = [session EXCEPT ![c].permission = p]
           /\ buttons' = [buttons EXCEPT ![c] = p]
    BY <1>1 DEF SlotLogin
  <2>c. p = session[c].permission \/ p = permission[session[c].id]
    BY <2>a, <2>b, SessionRead
  <2>0. p = 0 \/ p = permission[session[c].id]
    BY <2>a, <2>c
  <2>1. SessionInv(c)'
    BY <1>1, <1>a, <2>0, <2>b DEF SlotLogin, TypeOK, SessionInv, SADMIN
  <2>2. ReachInv(c)'
    BY <1>1, <1>a DEF SlotLogin, TypeOK, ReachInv
  <2>3. JobInv(c)'
    BY <1>1, <1>a DEF SlotLogin, TypeOK, JobInv
  <2>4. \A w \in Ids : RowStep(w)
    BY <1>1 DEF SlotLogin, RowStep
  <2> QED BY <2>1, <2>2, <2>3, <2>4
<1>2. CASE Register(c)
  <2>0. /\ job[c].id \in Ids /\ job[c].value \in Values
        /\ pc[c] \in {"insert", "insertLate"} /\ list[c] = {}
    BY <1>2, ClientTyped DEF Register, ReachInv
  <2>1. SessionInv(c)'
    BY <1>2, <2>0 DEF Register, SessionInv
  <2>2. ReachInv(c)'
    BY <1>2, <2>0 DEF Register, ReachInv
  <2>4. \A w \in Ids : RowStep(w)
    BY <1>2, <1>a, <2>0, AccountAssumption DEF Register, InsertRow, Pretend, RowStep, TypeOK
  <2>3. JobInv(c)'
    <3>1. pc[c] = "insert" /\ reply'[c] = "done" => info'[job[c].id] # NULL
      BY <1>2, <1>a, <2>0, AccountAssumption
         DEF Register, InsertRow, Pretend, TypeOK, SQL_DELAYTIME, SQL_TIMEOUT
    <3> QED BY <1>2, <2>0, <3>1 DEF Register, JobInv
  <2> QED BY <2>1, <2>2, <2>3, <2>4
<1>3. CASE RegisterAnswer(c)
  <2>1. SessionInv(c)'
    BY <1>3, <1>a, ClientTyped, SmallSets DEF RegisterAnswer, TypeOK, SessionInv, NoUser
  <2>2. ReachInv(c)'
    BY <1>3, <1>a, ClientTyped, SmallSets DEF RegisterAnswer, TypeOK, ReachInv, Reached
  <2>3. JobInv(c)'
    BY <1>3, <1>a, ClientTyped, SmallSets DEF RegisterAnswer, TypeOK, JobInv, NoJob
  <2>4. \A w \in Ids : RowStep(w)
    BY <1>3 DEF RegisterAnswer, RowStep
  <2> QED BY <2>1, <2>2, <2>3, <2>4
<1>4. CASE ModifyInfo(c)
  <2>0. job[c].id \in Ids /\ job[c].value \in Values
    BY <1>4, ClientTyped DEF ModifyInfo
  <2>1. SessionInv(c)'
    BY <1>4 DEF ModifyInfo, SessionInv
  <2>2. ReachInv(c)'
    BY <1>4 DEF ModifyInfo, ReachInv, Reached
  <2>3. JobInv(c)'
    BY <1>4 DEF ModifyInfo, JobInv
  <2>4. \A w \in Ids : RowStep(w)
    BY <1>4, <1>a, <2>0, AccountAssumption DEF ModifyInfo, RowStep, TypeOK
  <2> QED BY <2>1, <2>2, <2>3, <2>4
<1>5. CASE ModifyAnswer(c)
  <2>1. SessionInv(c)'
    BY <1>5, <1>a DEF ModifyAnswer, TypeOK, SessionInv, NoUser
  <2>2. ReachInv(c)'
    BY <1>5, <1>a DEF ModifyAnswer, TypeOK, ReachInv, Reached
  <2>3. JobInv(c)'
    BY <1>5, <1>a DEF ModifyAnswer, TypeOK, JobInv, NoJob
  <2>4. \A w \in Ids : RowStep(w)
    BY <1>5 DEF ModifyAnswer, RowStep
  <2> QED BY <2>1, <2>2, <2>3, <2>4
<1>6. CASE TimeOut(c)
  <2>1. SessionInv(c)'
    BY <1>6, <1>a DEF TimeOut, TypeOK, SessionInv, NoUser
  <2>2. ReachInv(c)'
    BY <1>6, <1>a DEF TimeOut, TypeOK, ReachInv, Reached
  <2>3. JobInv(c)'
    BY <1>6, <1>a DEF TimeOut, TypeOK, JobInv, NoJob
  <2>4. \A w \in Ids : RowStep(w)
    BY <1>6 DEF TimeOut, RowStep
  <2> QED BY <2>1, <2>2, <2>3, <2>4
\* The account of the window is one that was reached, and stays one.
<1>7. CASE UpdateRow(c) \/ Commit(c)
  <2>0. pc[c] = "change"
    BY <1>7, <1>a, EditSteps
  <2>1. /\ job[c].id \in Ids /\ job[c].value \in Values /\ job[c].permission \in {0, USER}
        /\ job[c].id = win[c].id /\ Reached(c, win[c].id) /\ list[c] = {}
        /\ session[c].id \in Ids
    BY <2>0, ClientTyped DEF JobInv, ReachInv
  <2>2. CASE UNCHANGED dbVars /\ UNCHANGED <<pc, connected, session, buttons, list, win, job, reply>>
    <3>1. SessionInv(c)'
      BY <2>2 DEF SessionInv
    <3>2. ReachInv(c)'
      BY <2>2 DEF ReachInv, Reached
    <3>3. JobInv(c)'
      BY <2>0, <2>2 DEF JobInv
    <3>4. \A w \in Ids : RowStep(w)
      BY <2>2 DEF RowStep
    <3> QED BY <3>1, <3>2, <3>3, <3>4
  <2>3. ASSUME NEW kept \in Parts, Committed(c, kept), NEW p \in {"edit", "changed"},
               Crash(c) \/ Over(c, p)
        PROVE  ClientInv(c)' /\ \A w \in Ids : RowStep(w)
    <3>1. \A w \in Ids : RowStep(w)
      BY <2>1, <2>3, <1>a, AccountAssumption DEF Committed, RowStep, Reached, TypeOK
    <3>2. CASE Crash(c)
      BY <3>1, <3>2, CrashInv
    <3>3. CASE Over(c, p)
      <4>1. /\ pc'[c] \in {"edit", "changed"} /\ job'[c] = NoJob /\ tx'[c] = {}
            /\ UNCHANGED <<connected, session, buttons, list, win, reply>>
        BY <3>3, <1>a DEF Over, TypeOK
      <4>2. SessionInv(c)'
        BY <2>0, <2>1, <3>1, <4>1, AccountAssumption, SmallSets DEF SessionInv, RowStep
      <4>3. Reached(c, win[c].id)'
        BY <2>1, <3>1, <4>1, AccountAssumption, SmallSets DEF Reached, RowStep, USER, ADMIN, SADMIN
      <4>4. ReachInv(c)'
        BY <2>1, <4>1, <4>3 DEF ReachInv
      <4>5. JobInv(c)'
        BY <4>1 DEF JobInv, NoJob
      <4> QED BY <3>1, <4>2, <4>4, <4>5
    <3> QED BY <2>3, <3>2, <3>3
  <2> QED BY <1>7, <1>a, <2>2, <2>3, EditSteps DEF Parts
<1> QED BY <1>1, <1>2, <1>3, <1>4, <1>5, <1>6, <1>7 DEF Handler

\* And so does whatever the user does.
LEMMA GestureInv ==
    ASSUME TypeInv, NEW c \in Clients, ClientInv(c), Gesture(c)
    PROVE  ClientInv(c)' /\ \A u \in Ids : RowStep(u)
<1> USE DEF LoginPages, MainPages, Goto, dbVars, Writes, ClientInv
<1>a. TypeOK
  BY DEF TypeInv
<1>1. CASE Restart(c)
  <2>1. SessionInv(c)'
    BY <1>1, <1>a DEF Restart, TypeOK, SessionInv, NoUser
  <2>2. ReachInv(c)'
    BY <1>1, <1>a DEF Restart, TypeOK, ReachInv, Reached
  <2>3. JobInv(c)'
    BY <1>1, <1>a DEF Restart, TypeOK, JobInv, NoJob
  <2>4. \A w \in Ids : RowStep(w)
    BY <1>1 DEF Restart, RowStep
  <2> QED BY <2>1, <2>2, <2>3, <2>4
<1>2. CASE Logout(c)
  <2>1. SessionInv(c)'
    BY <1>2, <1>a DEF Logout, TypeOK, SessionInv, NoUser
  <2>2. ReachInv(c)'
    BY <1>2, <1>a DEF Logout, TypeOK, ReachInv, Reached
  <2>3. JobInv(c)'
    BY <1>2, <1>a DEF Logout, TypeOK, JobInv, NoJob
  <2>4. \A w \in Ids : RowStep(w)
    BY <1>2 DEF Logout, RowStep
  <2> QED BY <2>1, <2>2, <2>3, <2>4
<1>3. CASE TurnRegisterPage(c)
  <2>1. SessionInv(c)'
    BY <1>3, <1>a DEF TurnRegisterPage, TypeOK, SessionInv, NoUser
  <2>2. ReachInv(c)'
    BY <1>3, <1>a DEF TurnRegisterPage, TypeOK, ReachInv, Reached
  <2>3. JobInv(c)'
    BY <1>3, <1>a DEF TurnRegisterPage, TypeOK, JobInv, NoJob
  <2>4. \A w \in Ids : RowStep(w)
    BY <1>3 DEF TurnRegisterPage, RowStep
  <2> QED BY <2>1, <2>2, <2>3, <2>4
<1>4. CASE DismissRegistered(c)
  <2>1. SessionInv(c)'
    BY <1>4, <1>a DEF DismissRegistered, TypeOK, SessionInv, NoUser
  <2>2. ReachInv(c)'
    BY <1>4, <1>a DEF DismissRegistered, TypeOK, ReachInv, Reached
  <2>3. JobInv(c)'
    BY <1>4, <1>a DEF DismissRegistered, TypeOK, JobInv, NoJob
  <2>4. \A w \in Ids : RowStep(w)
    BY <1>4 DEF DismissRegistered, RowStep
  <2> QED BY <2>1, <2>2, <2>3, <2>4
<1>5. CASE Join(c)
  <2>1. SessionInv(c)'
    BY <1>5, <1>a DEF Join, TypeOK, SessionInv, NoUser
  <2>2. ReachInv(c)'
    BY <1>5, <1>a DEF Join, TypeOK, ReachInv, Reached
  <2>3. JobInv(c)'
    BY <1>5, <1>a DEF Join, TypeOK, JobInv, NoJob
  <2>4. \A w \in Ids : RowStep(w)
    BY <1>5 DEF Join, RowStep
  <2> QED BY <2>1, <2>2, <2>3, <2>4
<1>6. CASE ShowMainPage(c)
  <2>a. session[c].id \in Ids /\ session[c].permission \in Ranks
    BY <1>6, ClientTyped DEF ShowMainPage
  <2>b. PICK p \in {session[c].permission} \cup GetUserInfo(session[c].id, session[c].permission) :
           session' = [session EXCEPT ![c].permission = p]
    BY <1>6 DEF ShowMainPage
  <2>0. p = session[c].permission \/ p = permission[session[c].id]
    <3>1. CASE p = session[c].permission
      BY <3>1
    <3>2. CASE p \in GetUserInfo(session[c].id, session[c].permission)
      BY <2>a, <3>2, <1>a, SessionRead DEF TypeInv
    <3> QED BY <2>b, <3>1, <3>2
  <2>1. SessionInv(c)'
    BY <1>6, <1>a, <2>0, <2>b DEF ShowMainPage, TypeOK, SessionInv
  <2>2. ReachInv(c)'
    BY <1>6, <1>a DEF ShowMainPage, TypeOK, ReachInv
  <2>3. JobInv(c)'
    BY <1>6, <1>a DEF ShowMainPage, TypeOK, JobInv
  <2>4. \A w \in Ids : RowStep(w)
    BY <1>6 DEF ShowMainPage, RowStep
  <2> QED BY <2>1, <2>2, <2>3, <2>4
<1>7. CASE OpenModifyWindow(c)
  <2>1. SessionInv(c)'
    BY <1>7, <1>a DEF OpenModifyWindow, TypeOK, SessionInv, NoUser
  <2>2. ReachInv(c)'
    BY <1>7, <1>a DEF OpenModifyWindow, TypeOK, ReachInv, Reached
  <2>3. JobInv(c)'
    BY <1>7, <1>a DEF OpenModifyWindow, TypeOK, JobInv, NoJob
  <2>4. \A w \in Ids : RowStep(w)
    BY <1>7 DEF OpenModifyWindow, RowStep
  <2> QED BY <2>1, <2>2, <2>3, <2>4
<1>8. CASE CloseModifyWindow(c)
  <2>1. SessionInv(c)'
    BY <1>8, <1>a DEF CloseModifyWindow, TypeOK, SessionInv, NoUser
  <2>2. ReachInv(c)'
    BY <1>8, <1>a DEF CloseModifyWindow, TypeOK, ReachInv, Reached
  <2>3. JobInv(c)'
    BY <1>8, <1>a DEF CloseModifyWindow, TypeOK, JobInv, NoJob
  <2>4. \A w \in Ids : RowStep(w)
    BY <1>8 DEF CloseModifyWindow, RowStep
  <2> QED BY <2>1, <2>2, <2>3, <2>4
<1>9. CASE ShowUserPage(c)
  <2>1. SessionInv(c)'
    BY <1>9, <1>a DEF ShowUserPage, TypeOK, SessionInv, NoUser
  <2>2. ReachInv(c)'
    BY <1>9, <1>a, ListReached DEF ShowUserPage, TypeOK, ReachInv, Reached
  <2>3. JobInv(c)'
    BY <1>9, <1>a DEF ShowUserPage, TypeOK, JobInv, NoJob
  <2>4. \A w \in Ids : RowStep(w)
    BY <1>9 DEF ShowUserPage, RowStep
  <2> QED BY <2>1, <2>2, <2>3, <2>4
<1>10. CASE FinishChange(c)
  <2>1. SessionInv(c)'
    BY <1>10, <1>a DEF FinishChange, TypeOK, SessionInv, NoUser
  <2>2. ReachInv(c)'
    BY <1>10, <1>a, ListReached DEF FinishChange, TypeOK, ReachInv, Reached
  <2>3. JobInv(c)'
    BY <1>10, <1>a DEF FinishChange, TypeOK, JobInv, NoJob
  <2>4. \A w \in Ids : RowStep(w)
    BY <1>10 DEF FinishChange, RowStep
  <2> QED BY <2>1, <2>2, <2>3, <2>4
<1>11. ASSUME NEW u \in Ids, SearchUser(c, u)
      PROVE  ClientInv(c)' /\ \A w \in Ids : RowStep(w)
  <2>1. SessionInv(c)'
    BY <1>11, <1>a DEF SearchUser, TypeOK, SessionInv, NoUser
  <2>2. ReachInv(c)'
    <3>1. \A w \in list'[c] : Reached(c, w)'
      <4>1. CASE FillList(c, {u})
        BY <4>1, <1>11, <1>a, ListReached DEF SearchUser
      <4>2. CASE list' = [list EXCEPT ![c] = {}]
        BY <4>2, <1>a DEF TypeOK
      <4> QED BY <1>11, <4>1, <4>2 DEF SearchUser
    <3> QED BY <3>1, <1>11, <1>a DEF SearchUser, TypeOK, ReachInv, Reached
  <2>3. JobInv(c)'
    BY <1>11, <1>a DEF SearchUser, TypeOK, JobInv, NoJob
  <2>4. \A w \in Ids : RowStep(w)
    BY <1>11 DEF SearchUser, RowStep
  <2> QED BY <2>1, <2>2, <2>3, <2>4
<1>12. ASSUME NEW u \in Ids, ClickLogin(c, u)
      PROVE  ClientInv(c)' /\ \A w \in Ids : RowStep(w)
  <2>1. SessionInv(c)'
    BY <1>12, <1>a DEF ClickLogin, TypeOK, SessionInv, NoUser
  <2>2. ReachInv(c)'
    BY <1>12, <1>a DEF ClickLogin, TypeOK, ReachInv, Reached
  <2>3. JobInv(c)'
    BY <1>12, <1>a DEF ClickLogin, TypeOK, JobInv, NoJob
  <2>4. \A w \in Ids : RowStep(w)
    BY <1>12 DEF ClickLogin, RowStep
  <2> QED BY <2>1, <2>2, <2>3, <2>4
<1>13. ASSUME NEW u \in Ids, OpenChangeWindow(c, u)
      PROVE  ClientInv(c)' /\ \A w \in Ids : RowStep(w)
  <2>1. SessionInv(c)'
    BY <1>13, <1>a DEF OpenChangeWindow, TypeOK, SessionInv, NoUser
  <2>2. ReachInv(c)'
    BY <1>13, <1>a DEF OpenChangeWindow, TypeOK, ReachInv, Reached
  <2>3. JobInv(c)'
    BY <1>13, <1>a DEF OpenChangeWindow, TypeOK, JobInv, NoJob
  <2>4. \A w \in Ids : RowStep(w)
    BY <1>13 DEF OpenChangeWindow, RowStep
  <2> QED BY <2>1, <2>2, <2>3, <2>4
<1>14. ASSUME NEW u \in Ids, NEW v \in Values, ConfirmRegister(c, u, v)
      PROVE  ClientInv(c)' /\ \A w \in Ids : RowStep(w)
  <2>1. SessionInv(c)'
    BY <1>14, <1>a, SmallSets DEF ConfirmRegister, TypeOK, SessionInv, NoUser
  <2>2. ReachInv(c)'
    BY <1>14, <1>a, SmallSets DEF ConfirmRegister, TypeOK, ReachInv, Reached
  <2>3. JobInv(c)'
    BY <1>14, <1>a, SmallSets DEF ConfirmRegister, TypeOK, JobInv, NoJob
  <2>4. \A w \in Ids : RowStep(w)
    BY <1>14 DEF ConfirmRegister, RowStep
  <2> QED BY <2>1, <2>2, <2>3, <2>4
<1>15. ASSUME NEW v \in Values, ConfirmModify(c, v)
      PROVE  ClientInv(c)' /\ \A w \in Ids : RowStep(w)
  <2>1. SessionInv(c)'
    BY <1>15, <1>a, SmallSets DEF ConfirmModify, TypeOK, SessionInv, NoUser
  <2>2. ReachInv(c)'
    BY <1>15, <1>a, SmallSets DEF ConfirmModify, TypeOK, ReachInv, Reached
  <2>3. JobInv(c)'
    BY <1>15, <1>a, SmallSets DEF ConfirmModify, TypeOK, JobInv, NoJob
  <2>4. \A w \in Ids : RowStep(w)
    BY <1>15 DEF ConfirmModify, RowStep
  <2> QED BY <2>1, <2>2, <2>3, <2>4
<1>16. ASSUME NEW v \in Values, NEW p \in Ranks, ConfirmChange(c, v, p)
       PROVE  ClientInv(c)' /\ \A w \in Ids : RowStep(w)
  <2>0. \A w \in Ids : RowStep(w)
    BY <1>16 DEF ConfirmChange, RowStep
  <2>1. CASE Crash(c)
    BY <2>0, <2>1, CrashInv
  <2>2. CASE ~Crash(c)
    <3>1. p \in {0, USER}
      BY <1>16, ClientTyped, SmallSets DEF ConfirmChange, USER
    <3>2. /\ pc[c] = "edit" /\ pc' = [pc EXCEPT ![c] = "change"]
          /\ job' = [job EXCEPT ![c] = [id |-> win[c].id, value |-> v, permission |-> p]]
          /\ UNCHANGED <<dbVars, connected, session, buttons, list, win, reply, tx>>
      BY <1>16, <2>2 DEF ConfirmChange
    <3>3. SessionInv(c)'
      BY <3>2, <1>a DEF TypeOK, SessionInv
    <3>4. ReachInv(c)'
      BY <3>2, <1>a DEF TypeOK, ReachInv, Reached
    <3>5. JobInv(c)'
      BY <3>1, <3>2, <1>a DEF TypeOK, JobInv
    <3> QED BY <2>0, <3>3, <3>4, <3>5
  <2> QED BY <2>1, <2>2
<1> QED BY <1>1, <1>2, <1>3, <1>4, <1>5, <1>6, <1>7, <1>8, <1>9, <1>10, <1>11, <1>12, <1>13,
           <1>14, <1>15, <1>16 DEF Gesture

\* The invariant holds from the start.
LEMMA InitInv == Init => IInv
<1> SUFFICES ASSUME Init PROVE IInv
  OBVIOUS
<1>1. TypeInv
  BY InitTyped
<1>2. \A c \in Clients : SessionInv(c) /\ ReachInv(c)
  BY DEF Init, SessionInv, ReachInv, MainPages
<1>3. \A c \in Clients : JobInv(c)
  BY DEF Init, JobInv, NoJob
<1> QED BY <1>1, <1>2, <1>3 DEF IInv, ClientInv

\* A step of one client keeps the invariant of all.
LEMMA StepInv ==
    ASSUME IInv, NEW c \in Clients, Handler(c) \/ Gesture(c)
    PROVE  IInv' /\ \A u \in Ids : RowStep(u)
<1>1. TypeInv /\ \A d \in Clients : ClientInv(d)
  BY DEF IInv
<1>2. ClientInv(c)' /\ \A u \in Ids : RowStep(u)
  BY <1>1, HandlerInv, GestureInv
<1>3. ASSUME NEW d \in Clients, d # c PROVE ClientInv(d)'
  <2>1. /\ pc'[d] = pc[d] /\ session'[d] = session[d] /\ buttons'[d] = buttons[d]
        /\ list'[d] = list[d] /\ win'[d] = win[d] /\ job'[d] = job[d]
        /\ reply'[d] = reply[d] /\ tx'[d] = tx[d]
    BY <1>1, <1>3, OnlyOne
  <2> QED BY <1>1, <1>2, <2>1, OthersKept
<1>4. TypeInv'
  BY <1>1, HandlerTyped, GestureTyped
<1> QED BY <1>2, <1>3, <1>4 DEF IInv

\* The invariant is inductive.
LEMMA NextInv == IInv /\ [Next]_vars => IInv'
<1> SUFFICES ASSUME IInv, [Next]_vars PROVE IInv'
  OBVIOUS
<1>1. CASE UNCHANGED vars
  <2>1. TypeInv'
    BY <1>1, NextTyped DEF IInv
  <2>2. ASSUME NEW d \in Clients PROVE ClientInv(d)'
    <3>1. \A u \in Ids : RowStep(u)
      BY <1>1 DEF RowStep, vars, dbVars
    <3> QED BY <1>1, <3>1, OthersKept DEF IInv, vars
  <2> QED BY <2>1, <2>2 DEF IInv
<1> QED BY <1>1, StepInv DEF Next

\* So it always holds.
LEMMA Invariance == Spec => []IInv
BY InitInv, NextInv, PTL DEF Spec

-----------------------------------------------------------------------------
(* The results. *)

\* The types of the variables: a row of user_permission belongs to an account,
\* and the permission box of ChangeUserInfo never has a wrong entry.
THEOREM AccountTypeCorrect == Spec => []TypeOK
<1>1. IInv => TypeOK
  BY DEF IInv, TypeInv
<1> QED BY Invariance, <1>1, PTL

\* Whoever has the buttons slot_login enables for a super administrator is one,
\* whatever other sessions change meanwhile.
THEOREM ButtonsOnlySadmin == Spec => []RoomButtonsOnlySadmin
<1>1. IInv => RoomButtonsOnlySadmin
  <2> SUFFICES ASSUME IInv, NEW c \in Clients, pc[c] \in MainPages, buttons[c] = SADMIN
               PROVE  session[c].id # NULL /\ permission[session[c].id] = SADMIN
    BY DEF RoomButtonsOnlySadmin
  <2> QED BY DEF IInv, ClientInv, SessionInv, TypeInv, Ready
<1> QED BY Invariance, <1>1, PTL

\* Whom on_pushButton_register_confirm_clicked tells that he is registered has an
\* account.
THEOREM RegisteredHasAccount == Spec => []RegisteredIsTrue
<1>1. IInv => RegisteredIsTrue
  BY DEF IInv, ClientInv, JobInv, RegisteredIsTrue
<1> QED BY Invariance, <1>1, PTL

\* ChangInfo's row locks are held while it runs, and never longer.
THEOREM LocksShort == Spec => []LocksAreShort
<1>1. IInv => LocksAreShort
  BY DEF IInv, ClientInv, JobInv, LocksAreShort
<1> QED BY Invariance, <1>1, PTL

\* An administrator's account is changed by himself or under the eyes of a super
\* administrator, although every session works on rights it has read before.
THEOREM AdminsFromAbove == Spec => AdminsChangedFromAbove
<1> DEFINE Changed(u) == <<info'[u], permission'[u]>> # <<info[u], permission[u]>>
           Allowed(u) ==
             \E c \in Clients :
                /\ job[c].id = u
                /\ \/ /\ pc[c] \in {"modify", "modifyLate"} /\ session[c].id = u
                      /\ permission'[u] = permission[u]
                   \/ /\ tx[c] # {} /\ session[c].id \notin {u, NULL}
                      /\ permission[session[c].id] = SADMIN
           A == \A u \in Ids : permission[u] \in {ADMIN, SADMIN} /\ Changed(u) => Allowed(u)
<1>1. IInv /\ [Next]_vars => [A]_vars
  <2> SUFFICES ASSUME IInv, NEW c \in Clients, Handler(c) \/ Gesture(c),
                      NEW u \in Ids, permission[u] \in {ADMIN, SADMIN}, Changed(u)
               PROVE  Allowed(u)
    BY DEF Next
  <2>1. TypeInv /\ TypeOK /\ ClientInv(c)
    BY DEF IInv, TypeInv
  <2>2. permission[u] # NULL /\ info[u] # NULL
    BY <2>1, SmallSets, AccountAssumption DEF TypeOK
  <2>3. CASE Register(c)
    <3>1. job[c].id \in Ids
      BY <2>1, <2>3, ClientTyped DEF Register, Writes
    <3>2. job[c].id # u \/ UNCHANGED dbVars
      BY <2>2, <2>3 DEF Register, InsertRow, Pretend
    <3>3. info'[u] = info[u] /\ permission'[u] = permission[u]
      BY <2>1, <2>3, <3>1, <3>2 DEF Register, InsertRow, Pretend, TypeOK, dbVars
    <3> QED BY <3>3
  <2>4. CASE ModifyInfo(c)
    <3>1. job[c].id = session[c].id /\ job[c].id \in Ids
      BY <2>1, <2>4, ClientTyped DEF ModifyInfo, Writes, ClientInv, JobInv
    <3>2. job[c].id = u /\ permission' = permission
      BY <2>1, <2>4, <3>1 DEF ModifyInfo, TypeOK
    <3> QED BY <2>4, <3>1, <3>2 DEF ModifyInfo
  <2>5. CASE (UpdateRow(c) \/ Commit(c)) /\ ~UNCHANGED dbVars
    <3>1. /\ pc[c] = "change" /\ tx[c] # {}
          /\ \E kept \in Parts : Committed(c, kept)
      BY <2>1, <2>5, EditCommits
    <3>2. job[c].id \in Ids /\ session[c].id \in Ids /\ Reached(c, job[c].id)
      BY <2>1, <3>1, ClientTyped DEF Writes, MainPages, ClientInv, JobInv, ReachInv
    <3>3. job[c].id = u
      BY <2>1, <3>1, <3>2 DEF Committed, TypeOK
    <3>4. permission[u] = ADMIN /\ session[c].permission = SADMIN
      BY <3>2, <3>3 DEF Reached
    <3>5. permission[session[c].id] = SADMIN
      BY <2>1, <3>1, <3>4 DEF ClientInv, SessionInv, MainPages
    <3> QED BY <3>1, <3>2, <3>3, <3>4, <3>5, AccountAssumption DEF ADMIN, SADMIN
  <2>6. CASE UNCHANGED dbVars
    BY <2>6 DEF dbVars
  <2>7. CASE Gesture(c)
    <3>1. UNCHANGED dbVars
      BY <2>7 DEF Gesture, Restart, Logout, TurnRegisterPage, DismissRegistered, Join, ShowMainPage,
                  OpenModifyWindow, CloseModifyWindow, ShowUserPage, FinishChange, ClickLogin,
                  SearchUser, OpenChangeWindow, ConfirmRegister, ConfirmModify, ConfirmChange, dbVars
    <3> QED BY <2>6, <3>1
  <2>8. CASE SlotLogin(c) \/ RegisterAnswer(c) \/ ModifyAnswer(c) \/ TimeOut(c)
    <3>1. UNCHANGED dbVars
      BY <2>8 DEF SlotLogin, RegisterAnswer, ModifyAnswer, TimeOut, dbVars
    <3> QED BY <2>6, <3>1
  <2> QED BY <2>3, <2>4, <2>5, <2>6, <2>7, <2>8 DEF Handler
<1>2. Spec => [][A]_vars
  BY Invariance, <1>1, PTL DEF Spec
<1> QED BY <1>2 DEF AdminsChangedFromAbove

\* Whatever fails in ChangInfo, its rollback included, a rank is changed together
\* with name and password or not at all, and success is reported for a whole edit.
THEOREM EditOrdered == Spec => EditInOrder
<1> DEFINE B(d) ==
             pc[d] = "change" /\ <<pc'[d], tx'[d]>> # <<pc[d], tx[d]>> =>
                /\ pc'[d] = "change" => UNCHANGED dbVars
                /\ pc'[d] = "changed" \/ permission' # permission =>
                      /\ info'[job[d].id] = job[d].value
                      /\ permission'[job[d].id] = job[d].permission
           A == \A c \in Clients : B(c)
<1>1. IInv /\ [Next]_vars => [A]_vars
  <2> SUFFICES ASSUME IInv, NEW c \in Clients, Handler(c) \/ Gesture(c), NEW d \in Clients,
                      pc[d] = "change", <<pc'[d], tx'[d]>> # <<pc[d], tx[d]>>
               PROVE  B(d)
    BY DEF Next
  <2>1. TypeInv /\ TypeOK /\ ClientInv(c)
    BY DEF IInv, TypeInv
  <2>2. c = d
    BY <2>1, OnlyOne
  <2>3. ~Gesture(c)
    BY <2>2 DEF Gesture, Restart, Logout, TurnRegisterPage, DismissRegistered, Join, ShowMainPage,
                OpenModifyWindow, CloseModifyWindow, ShowUserPage, FinishChange, ClickLogin,
                SearchUser, OpenChangeWindow, ConfirmRegister, ConfirmModify, ConfirmChange
  <2>4. UpdateRow(c) \/ Commit(c)
    BY <2>2, <2>3 DEF Handler, SlotLogin, Register, RegisterAnswer, ModifyInfo, ModifyAnswer, TimeOut
  <2>5. /\ job[c].id \in Ids /\ permission[job[c].id] # NULL
    BY <2>1, <2>2, ClientTyped DEF Writes, ClientInv, JobInv, ReachInv, Reached
  <2>6. CASE UNCHANGED <<dbVars, pc>>
    BY <2>2, <2>6 DEF dbVars
  <2>7. ASSUME NEW kept \in Parts, Committed(c, kept), Crash(c) \/ Over(c, "edit")
        PROVE  B(d)
    <3>1. pc'[c] \in {"crashed", "edit"}
      BY <2>1, <2>7 DEF Crash, Over, Goto, TypeOK
    <3>2. CASE permission' = permission
      BY <2>2, <3>1, <3>2
    <3>3. CASE permission' # permission
      <4>1. kept = {"info", "permission"}
        BY <2>7, <3>3 DEF Committed, Parts
      <4> QED BY <2>1, <2>2, <2>5, <2>7, <3>1, <4>1 DEF Committed, TypeOK
    <3> QED BY <3>2, <3>3
  <2>8. CASE Committed(c, {"info", "permission"}) /\ Over(c, "changed")
    <3>1. pc'[c] = "changed"
      BY <2>1, <2>8 DEF Over, Goto, TypeOK
    <3> QED BY <2>1, <2>2, <2>5, <2>8, <3>1 DEF Committed, TypeOK
  <2> QED BY <2>1, <2>4, <2>6, <2>7, <2>8, EditSteps
<1>2. Spec => [][A]_vars
  BY Invariance, <1>1, PTL DEF Spec
<1> QED BY <1>2, PTL DEF EditInOrder

-----------------------------------------------------------------------------
(* The refinement of AccountBook. *)

\* Who is logged in has an account: none is ever deleted.
LoggedIn == \A c \in Clients : session[c].id # NULL => info[session[c].id] # NULL

\* Only the login button puts an id into the session.
LEMMA SessionFrom ==
    ASSUME TypeOK, NEW c \in Clients, Handler(c) \/ Gesture(c)
    PROVE  \/ session'[c].id \in {session[c].id, NULL}
           \/ session'[c].id \in Ids /\ info[session'[c].id] # NULL
<1>a. session \in [Clients -> [id : Ids \cup {NULL}, permission : Ranks]]
  BY DEF TypeOK
<1>1. CASE Crash(c) \/ UNCHANGED session
  BY <1>1, <1>a DEF Crash, NoUser
<1>2. CASE Handler(c) /\ ~Crash(c)
  BY <1>2, <1>1, <1>a
     DEF Handler, SlotLogin, Register, RegisterAnswer, ModifyInfo, ModifyAnswer, TimeOut,
         UpdateRow, Commit, GiveUp, Over
<1>3. CASE Logout(c)
  BY <1>3, <1>a DEF Logout, NoUser
<1>4. CASE ShowMainPage(c)
  BY <1>4, <1>a DEF ShowMainPage
<1>5. ASSUME NEW u \in Ids, ClickLogin(c, u)
      PROVE  session'[c].id \in Ids /\ info[session'[c].id] # NULL
  BY <1>5, <1>a DEF ClickLogin
<1>6. CASE Gesture(c) /\ ~Crash(c) /\ ~Logout(c) /\ ~ShowMainPage(c)
            /\ ~\E u \in Ids : ClickLogin(c, u)
  <2>1. UNCHANGED session
    BY <1>6
       DEF Gesture, Restart, TurnRegisterPage, DismissRegistered, Join, OpenModifyWindow,
           CloseModifyWindow, ShowUserPage, FinishChange, SearchUser, OpenChangeWindow,
           ConfirmRegister, ConfirmModify, ConfirmChange
  <2> QED BY <1>1, <2>1
<1> QED BY <1>1, <1>2, <1>3, <1>4, <1>5, <1>6

LEMMA NextLoggedIn == IInv /\ LoggedIn /\ [Next]_vars => LoggedIn'
<1> SUFFICES ASSUME IInv, LoggedIn, [Next]_vars, NEW d \in Clients, session'[d].id # NULL
             PROVE  info'[session'[d].id] # NULL
  BY DEF LoggedIn
<1>a. TypeInv /\ TypeOK
  BY DEF IInv, TypeInv
<1>1. CASE UNCHANGED vars
  BY <1>1 DEF LoggedIn, vars, dbVars
<1>2. ASSUME NEW c \in Clients, Handler(c) \/ Gesture(c)
      PROVE  info'[session'[d].id] # NULL
  <2>1. \A u \in Ids : info[u] # NULL => info'[u] # NULL
    BY <1>2, StepInv DEF RowStep
  <2>2. session[d].id \in Ids \cup {NULL}
    BY <1>a DEF TypeOK
  <2>3. CASE d = c
    BY <1>2, <1>a, <2>1, <2>2, <2>3, SessionFrom DEF LoggedIn
  <2>4. CASE d # c
    BY <1>2, <1>a, <2>1, <2>2, <2>4, OnlyOne DEF LoggedIn
  <2> QED BY <2>3, <2>4
<1> QED BY <1>1, <1>2 DEF Next

\* Which step of AccountBook a step of a client is: the insert, the two kinds of
\* update, or none.
LEMMA BookStep ==
    ASSUME IInv, LoggedIn, NEW c \in Clients, Handler(c) \/ Gesture(c)
    PROVE  [Book!Next]_(Book!vars)
<1>a. TypeInv /\ TypeOK /\ ClientInv(c)
  BY DEF IInv, TypeInv
<1> DEFINE u == job[c].id
           v == job[c].value
<1>b. pc[c] \in Writes => u \in Ids /\ v \in Values
  BY <1>a, ClientTyped
<1>1. CASE UNCHANGED dbVars
  BY <1>1 DEF dbVars, Book!vars
<1>2. CASE Register(c) /\ ~UNCHANGED dbVars
  <2>1. Book!Enter(u, v)
    BY <1>2 DEF Register, InsertRow, Pretend, Book!Enter, Book!User, USER
  <2> QED BY <1>2, <1>b, <2>1 DEF Register, Writes, Book!Next
<1>3. CASE ModifyInfo(c) /\ ~UNCHANGED dbVars
  <2>1. info[u] # NULL
    <3>1. pc[c] \in {"modify", "modifyLate"} /\ u = session[c].id
      BY <1>3, <1>a DEF ModifyInfo, ClientInv, JobInv
    <3>2. u \in Ids
      BY <3>1, <1>b DEF Writes
    <3> QED BY <3>1, <3>2, AccountAssumption DEF LoggedIn
  <2>2. Book!ChangeNames(u, v)
    BY <1>3, <2>1 DEF ModifyInfo, dbVars, Book!ChangeNames
  <2> QED BY <1>3, <1>b, <2>2 DEF ModifyInfo, Writes, Book!Next
<1>4. CASE (UpdateRow(c) \/ Commit(c)) /\ ~UNCHANGED dbVars
  <2>1. PICK kept \in Parts : Committed(c, kept) /\ pc[c] = "change"
    BY <1>4, <1>a, EditCommits
  <2>2. /\ u \in Ids /\ v \in Values /\ Reached(c, u)
        /\ session[c].id \in Ids /\ job[c].permission \in {0, USER}
    BY <1>a, <1>b, <2>1, ClientTyped DEF Writes, MainPages, ClientInv, JobInv, ReachInv
  <2>3. permission[u] \in {0, USER, ADMIN}
    BY <1>a, <2>2, SmallSets DEF Reached, TypeOK, USER, ADMIN, SADMIN
  <2>4. permission[u] = ADMIN => permission[session[c].id] = SADMIN
    BY <1>a, <2>1, <2>2 DEF Reached, ClientInv, SessionInv, MainPages
  <2>5. permission[u] # NULL /\ info[u] # NULL
    BY <1>a, <2>2, <2>3, AccountAssumption, SmallSets DEF TypeOK
  \* The edit was cut short before the rank.
  <2>6. CASE kept = {"info"}
    <3>1. Book!ChangeNames(u, v)
      BY <2>1, <2>5, <2>6 DEF Committed, Book!ChangeNames
    <3> QED BY <2>2, <3>1 DEF Book!Next
  <2>7. CASE kept = {"info", "permission"}
    <3>1. /\ info' = [info EXCEPT ![u] = v]
          /\ permission' = [permission EXCEPT ![u] = job[c].permission]
      BY <2>1, <2>5, <2>7 DEF Committed
    <3>2. permission[u] \in 0 .. Book!Admin
      BY <2>3 DEF Book!Admin, USER, ADMIN
    <3>3. permission[u] = Book!Admin => \E boss \in Ids : permission[boss] = Book!SuperAdmin
      BY <2>2, <2>4 DEF Book!Admin, Book!SuperAdmin, ADMIN, SADMIN
    <3>4. Book!ChangeOther(u, v, job[c].permission)
      BY <3>1, <3>2, <3>3 DEF Book!ChangeOther
    <3>5. job[c].permission \in 0 .. Book!User
      BY <2>2 DEF Book!User, USER
    <3> QED BY <2>2, <3>4, <3>5 DEF Book!Next
  <2>8. CASE kept = {}
    BY <1>4, <2>1, <2>8 DEF Committed, dbVars
  <2> QED BY <2>6, <2>7, <2>8 DEF Parts
<1>5. CASE Gesture(c)
  <2>1. UNCHANGED dbVars
    BY <1>5 DEF Gesture, Restart, Logout, TurnRegisterPage, DismissRegistered, Join, ShowMainPage,
                OpenModifyWindow, CloseModifyWindow, ShowUserPage, FinishChange, ClickLogin,
                SearchUser, OpenChangeWindow, ConfirmRegister, ConfirmModify, ConfirmChange, dbVars
  <2> QED BY <1>1, <2>1
<1>6. CASE SlotLogin(c) \/ RegisterAnswer(c) \/ ModifyAnswer(c) \/ TimeOut(c)
  <2>1. UNCHANGED dbVars
    BY <1>6 DEF SlotLogin, RegisterAnswer, ModifyAnswer, TimeOut, dbVars
  <2> QED BY <1>1, <2>1
<1> QED BY <1>1, <1>2, <1>3, <1>4, <1>5, <1>6 DEF Handler

\* Whatever the sessions read long ago, and whichever statements fail, the two
\* tables change as AccountBook says: ChangInfo's two updates are one step, or
\* the first of them alone, and what its window was opened with still allows it.
THEOREM ImplementsAccountBook == Spec => BookSpec
<1>1. Init => LoggedIn /\ Book!Init
  BY DEF Init, LoggedIn, NoUser, Book!Init
<1>2. IInv /\ LoggedIn /\ [Next]_vars => [Book!Next]_(Book!vars)
  <2>1. UNCHANGED vars => UNCHANGED Book!vars
    BY DEF vars, dbVars, Book!vars
  <2> QED BY <2>1, BookStep DEF Next
<1> QED BY <1>1, <1>2, NextLoggedIn, Invariance, PTL DEF Spec, BookSpec, Book!Spec
=============================================================================
