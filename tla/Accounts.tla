------------------------------ MODULE Accounts ------------------------------
(***************************************************************************)
(* The accounts: LoginWindow, the session ComputersManager keeps in        *)
(* user_info_, the user page with ChangeUserInfo, ModifyWindow, and the    *)
(* SqlService methods they call.  Name and password of an account are one  *)
(* value here; nobody reads one without the other.  What a session may do  *)
(* is decided twice: slot_login enables buttons, and later statements use  *)
(* the permission cached in user_info_.                                    *)
(***************************************************************************)
EXTENDS Integers, FiniteSets

CONSTANTS
    Clients,     \* running copies of the program
    Ids,         \* student numbers
    Values,      \* names and passwords that are typed into the windows
    NULL,        \* "none"
    First,       \* those of the accounts that exist from the start
    Start,       \* its permission, NULL for a number without account
    SqlErrors    \* may a statement raise sql::SQLException?

USER   == 1
ADMIN  == 2
SADMIN == 3
Ranks  == 0 .. SADMIN

SQL_TIMEOUT   == 2000
SQL_DELAYTIME == 2200

ASSUME AccountAssumption ==
    /\ NULL \notin Ids \cup Values \cup {First} \cup Ranks
    /\ Start \in [Ids -> {USER, ADMIN, SADMIN, NULL}]
    /\ SqlErrors \in BOOLEAN

VARIABLES
    info,        \* the rows of user_info
    permission,  \* the rows of user_permission
    pc,          \* the window in front ("main": the main page or that of the
                 \* rooms), or where its handler is
    connected,   \* SqlService got its connection (p_stat_ is not null)
    session,     \* user_info_: id and permission
    buttons,     \* the permission for which slot_login enabled the buttons
    list,        \* the rows tableView_user shows while the user page is in front
    win,         \* the ChangeUserInfo window: id, and index of the permission box
    job,         \* what the running handler writes
    reply,       \* the statement of a std::async worker: pending, or its result
    tx           \* the tables that ChangInfo's open transaction has written

dbVars == <<info, permission>>
vars   == <<dbVars, pc, connected, session, buttons, list, win, job, reply, tx>>

NoUser == [id |-> NULL, permission |-> 0]
NoWin  == [id |-> NULL, index |-> -1]
NoJob  == [id |-> NULL, value |-> NULL, permission |-> 0]

LoginPages == {"login", "register", "insert", "insertLate", "registered"}
\* Somebody is logged in and slot_login is done.
MainPages  == {"main", "users", "edit", "change", "changed",
               "own", "modify", "modifyLate", "modified"}

-----------------------------------------------------------------------------
(* Helpers. *)

Goto(c, p) == pc' = [pc EXCEPT ![c] = p]

\* GetUserInfo joins both tables; no row, or an error, leaves the old value.
GetUserInfo(u, old) ==
    (IF info[u] # NULL /\ permission[u] # NULL THEN {permission[u]} ELSE {old})
        \cup (IF SqlErrors THEN {old} ELSE {})

\* GetUserList and GetUserNameLowPermisson: the accounts below a permission.
BelowOrEqual(p) == {u \in Ids : info[u] # NULL /\ permission[u] # NULL /\ permission[u] <= p}
Below(p)        == {u \in Ids : info[u] # NULL /\ permission[u] # NULL /\ permission[u] < p}

\* The entries of the permission box; entry i stands for the permission i + 1.
Offered(p)     == IF p > SADMIN THEN {USER, ADMIN} ELSE {USER}
\* setCurrentIndex leaves the box without an entry when there is none.
BoxIndexUnchecked(p, r) == r - 1
BoxIndex(p, r) == IF r \in Offered(p) THEN r - 1 ELSE -1

\* The transaction of d has written the rows of u: other writers wait.
Locked(u) == \E d \in Clients : tx[d] # {} /\ job[d].id = u

\* The process ends; the server rolls an open transaction back.
Crash(c) ==
    /\ Goto(c, "crashed")
    /\ session' = [session EXCEPT ![c] = NoUser]
    /\ buttons' = [buttons EXCEPT ![c] = 0]
    /\ list'    = [list    EXCEPT ![c] = {}]
    /\ win'     = [win     EXCEPT ![c] = NoWin]
    /\ job'     = [job     EXCEPT ![c] = NoJob]
    /\ reply'   = [reply   EXCEPT ![c] = "none"]
    /\ tx'      = [tx      EXCEPT ![c] = {}]
    /\ UNCHANGED connected

\* The program is started, with or without a connection.
Restart(c) ==
    /\ pc[c] = "crashed"
    /\ Goto(c, "login")
    /\ \E b \in {TRUE} \cup (IF SqlErrors THEN {FALSE} ELSE {}) :
          connected' = [connected EXCEPT ![c] = b]
    /\ UNCHANGED <<dbVars, session, buttons, list, win, job, reply, tx>>

-----------------------------------------------------------------------------
(* Logging in and out. *)

\* The login button, with the right password.  Without a connection the answer
\* is late and empty, and nobody gets in.
ClickLogin(c, u) ==
    /\ pc[c] = "login" /\ connected[c] /\ info[u] # NULL
    /\ Goto(c, "enter")
    /\ session' = [session EXCEPT ![c].id = u]
    /\ UNCHANGED <<dbVars, connected, buttons, list, win, job, reply, tx>>

\* The rest of slot_login.  InitMainPage may report a lost connection, but joins
\* its worker before the permission is looked at.
SlotLogin(c) ==
    /\ pc[c] = "enter"
    /\ Goto(c, "main")
    /\ \E p \in GetUserInfo(session[c].id, session[c].permission) :
          /\ session' = [session EXCEPT ![c].permission = p]
          /\ buttons' = [buttons EXCEPT ![c] = p]
    /\ UNCHANGED <<dbVars, connected, list, win, job, reply, tx>>

LogoutKeepsPermission(c) ==
    /\ pc[c] = "main"
    /\ Goto(c, "login")
    /\ session' = [session EXCEPT ![c].id = NULL]
    /\ UNCHANGED <<dbVars, connected, buttons, list, win, job, reply, tx>>
Logout(c) ==
    /\ pc[c] = "main"
    /\ Goto(c, "login")
    /\ session' = [session EXCEPT ![c] = NoUser]
    /\ UNCHANGED <<dbVars, connected, buttons, list, win, job, reply, tx>>

-----------------------------------------------------------------------------
(* Registration. *)

\* The register button and its cancel button.
TurnRegisterPage(c) ==
    /\ \/ pc[c] = "login" /\ Goto(c, "register")
       \/ pc[c] = "register" /\ Goto(c, "login")
    /\ UNCHANGED <<dbVars, connected, session, buttons, list, win, job, reply, tx>>

\* The form is filled in as it should be; the insert runs in a worker.
ConfirmRegister(c, u, v) ==
    /\ pc[c] = "register"
    /\ Goto(c, "insert")
    /\ job' = [job EXCEPT ![c] = [NoJob EXCEPT !.id = u, !.value = v]]
    /\ reply' = [reply EXCEPT ![c] = "pending"]
    /\ UNCHANGED <<dbVars, connected, session, buttons, list, win, tx>>

\* Register inserts into user_info only.  Where the row of user_permission comes
\* from is not in the source: it is there, or it is not.  An insert whose answer is
\* lost has failed for the client.
InsertRow(c) ==
    LET u == job[c].id IN
    \/ /\ info[u] = NULL
       /\ info' = [info EXCEPT ![u] = job[c].value]
       /\ permission' \in {permission, [permission EXCEPT ![u] = USER]}
       /\ \E answer \in {"done"} \cup (IF SqlErrors THEN {"failed"} ELSE {}) :
             reply' = [reply EXCEPT ![c] = answer]
    \/ /\ info[u] # NULL \/ SqlErrors
       /\ reply' = [reply EXCEPT ![c] = "failed"]
       /\ UNCHANGED dbVars

\* Without a connection Register does nothing for a while and returns 0.
PretendAtOnce(c) ==
    /\ reply' = [reply EXCEPT ![c] = "done"]
    /\ UNCHANGED dbVars
Pretend(c) ==
    /\ SQL_DELAYTIME > SQL_TIMEOUT => pc[c] = "insertLate"
    /\ reply' = [reply EXCEPT ![c] = "done"]
    /\ UNCHANGED dbVars

Register(c) ==
    /\ pc[c] \in {"insert", "insertLate"} /\ reply[c] = "pending"
    /\ IF connected[c] THEN InsertRow(c) ELSE Pretend(c)
    /\ UNCHANGED <<pc, connected, session, buttons, list, win, job, tx>>

\* The answer in time: back to the login page, or a message on this one.
RegisterAnswer(c) ==
    /\ pc[c] = "insert" /\ reply[c] # "pending"
    /\ Goto(c, IF reply[c] = "done" THEN "registered" ELSE "register")
    /\ reply' = [reply EXCEPT ![c] = "none"]
    /\ job' = [job EXCEPT ![c] = IF reply[c] = "done" THEN @ ELSE NoJob]
    /\ UNCHANGED <<dbVars, connected, session, buttons, list, win, tx>>

DismissRegistered(c) ==
    /\ pc[c] = "registered"
    /\ Goto(c, "login")
    /\ job' = [job EXCEPT ![c] = NoJob]
    /\ UNCHANGED <<dbVars, connected, session, buttons, list, win, reply, tx>>

-----------------------------------------------------------------------------
(* Workers that are late. *)

\* wait_for gives up: a message, while the statement goes on.
TimeOut(c) ==
    /\ reply[c] = "pending"
    /\ \/ pc[c] = "insert" /\ Goto(c, "insertLate")
       \/ pc[c] = "modify" /\ Goto(c, "modifyLate")
    /\ UNCHANGED <<dbVars, connected, session, buttons, list, win, job, reply, tx>>

\* The message is dismissed; the future's destructor joins the worker, and its
\* answer is lost.
Join(c) ==
    /\ reply[c] \in {"done", "failed"}
    /\ \/ pc[c] = "insertLate" /\ Goto(c, "register")
       \/ pc[c] = "modifyLate" /\ Goto(c, "own")
    /\ reply' = [reply EXCEPT ![c] = "none"]
    /\ job' = [job EXCEPT ![c] = NoJob]
    /\ UNCHANGED <<dbVars, connected, session, buttons, list, win, tx>>

-----------------------------------------------------------------------------
(* The main page and ModifyWindow: changing oneself. *)

\* The main page reads the session again, that of the rooms does not; the buttons
\* stay in either case.
ShowMainPage(c) ==
    /\ pc[c] \in {"main", "users"}
    /\ Goto(c, "main")
    /\ \E p \in {session[c].permission} \cup GetUserInfo(session[c].id, session[c].permission) :
          session' = [session EXCEPT ![c].permission = p]
    /\ list' = [list EXCEPT ![c] = {}]
    /\ UNCHANGED <<dbVars, connected, buttons, win, job, reply, tx>>

OpenModifyWindow(c) ==
    /\ pc[c] = "main"
    /\ Goto(c, "own")
    /\ UNCHANGED <<dbVars, connected, session, buttons, list, win, job, reply, tx>>

ConfirmModify(c, v) ==
    /\ pc[c] = "own"
    /\ Goto(c, "modify")
    /\ job' = [job EXCEPT ![c] = [NoJob EXCEPT !.id = session[c].id, !.value = v]]
    /\ reply' = [reply EXCEPT ![c] = "pending"]
    /\ UNCHANGED <<dbVars, connected, session, buttons, list, win, tx>>

\* One UPDATE, which waits for a transaction on the row; its answer may be lost.
ModifyInfo(c) ==
    LET u == job[c].id IN
    /\ pc[c] \in {"modify", "modifyLate"} /\ reply[c] = "pending"
    /\ \/ /\ ~Locked(u)
          /\ info' = [info EXCEPT ![u] = job[c].value]
          /\ \E answer \in {"done"} \cup (IF SqlErrors THEN {"failed"} ELSE {}) :
                reply' = [reply EXCEPT ![c] = answer]
       \/ /\ SqlErrors
          /\ reply' = [reply EXCEPT ![c] = "failed"]
          /\ UNCHANGED info
    /\ UNCHANGED <<permission, pc, connected, session, buttons, list, win, job, tx>>

ModifyAnswer(c) ==
    /\ pc[c] = "modify" /\ reply[c] # "pending"
    /\ Goto(c, IF reply[c] = "done" THEN "modified" ELSE "own")
    /\ reply' = [reply EXCEPT ![c] = "none"]
    /\ job' = [job EXCEPT ![c] = NoJob]
    /\ UNCHANGED <<dbVars, connected, session, buttons, list, win, tx>>

\* The window is cancelled, or its message dismissed.
CloseModifyWindow(c) ==
    /\ pc[c] \in {"own", "modified"}
    /\ Goto(c, "main")
    /\ UNCHANGED <<dbVars, connected, session, buttons, list, win, job, reply, tx>>

-----------------------------------------------------------------------------
(* The user page and ChangeUserInfo: changing others. *)

\* What a query for the accounts below the session fills the table with.
FillList(c, wanted) ==
    \E rows \in {wanted \cap Below(session[c].permission)} \cup (IF SqlErrors THEN {{}} ELSE {}) :
       list' = [list EXCEPT ![c] = rows]

\* The tool button, which slot_login hides from users.
ShowUserPage(c) ==
    /\ pc[c] \in {"main", "users"} /\ buttons[c] # USER
    /\ Goto(c, "users")
    /\ FillList(c, Ids)
    /\ UNCHANGED <<dbVars, connected, session, buttons, win, job, reply, tx>>

\* The table stays empty when the answer takes more than two milliseconds.
SearchUser(c, u) ==
    /\ pc[c] = "users"
    /\ FillList(c, {u}) \/ list' = [list EXCEPT ![c] = {}]
    /\ UNCHANGED <<dbVars, pc, connected, session, buttons, win, job, reply, tx>>

\* A double click on a row.  When GetUserInfo fails, the fields are empty.
OpenChangeWindow(c, u) ==
    /\ pc[c] = "users" /\ u \in list[c]
    /\ Goto(c, "edit")
    /\ \E seen \in GetUserInfo(u, 0) :
          win' = [win EXCEPT ![c] =
                    [id |-> u, index |-> BoxIndex(session[c].permission, seen)]]
    /\ list' = [list EXCEPT ![c] = {}]
    /\ UNCHANGED <<dbVars, connected, session, buttons, job, reply, tx>>

\* The confirm button; the box is as it was, or an entry was chosen.
\* setAutoCommit(false) is outside the try.
ConfirmChange(c, v, p) ==
    /\ pc[c] = "edit"
    /\ p \in {win[c].index + 1} \cup Offered(session[c].permission)
    /\ UNCHANGED dbVars
    /\ \/ /\ Goto(c, "change")
          /\ job' = [job EXCEPT ![c] = [id |-> win[c].id, value |-> v, permission |-> p]]
          /\ UNCHANGED <<connected, session, buttons, list, win, reply, tx>>
       \/ SqlErrors /\ Crash(c)

\* What others see when these tables of the transaction are committed; an account
\* without a row in user_permission keeps none.
Committed(c, tables) ==
    LET u == job[c].id IN
    /\ info' = IF "info" \in tables THEN [info EXCEPT ![u] = job[c].value] ELSE info
    /\ permission' = IF "permission" \in tables /\ permission[u] # NULL
                     THEN [permission EXCEPT ![u] = job[c].permission] ELSE permission

\* The transaction is over, and the window in front says what became of it.
Over(c, p) ==
    /\ Goto(c, p)
    /\ job' = [job EXCEPT ![c] = NoJob]
    /\ tx' = [tx EXCEPT ![c] = {}]
    /\ UNCHANGED <<connected, session, buttons, list, win, reply>>

\* A statement of the transaction failed: rollback, whose own error is ignored,
\* then setAutoCommit(true), which commits what a failed rollback left, and which
\* is outside the try.  The window reports an error and stays open.
GiveUpKeepsLock(c) ==
    /\ Goto(c, "edit")
    /\ UNCHANGED <<dbVars, connected, session, buttons, list, win, job, reply, tx>>
GiveUp(c) ==
    /\ \E kept \in {{}, tx[c]} : Committed(c, kept)
    /\ Over(c, "edit") \/ Crash(c)

\* The two updates of ChangInfo, seen by others after a commit only.
UpdateRowRankFirst(c) ==
    /\ pc[c] = "change" /\ tx[c] # {"info", "permission"}
    /\ \/ /\ tx[c] # {} \/ ~Locked(job[c].id)
          /\ tx' = [tx EXCEPT ![c] = IF @ = {} THEN {"permission"} ELSE {"info", "permission"}]
          /\ UNCHANGED <<dbVars, pc, connected, session, buttons, list, win, job, reply>>
       \/ SqlErrors /\ GiveUp(c)
UpdateRow(c) ==
    /\ pc[c] = "change" /\ tx[c] # {"info", "permission"}
    /\ \/ /\ tx[c] # {} \/ ~Locked(job[c].id)
          /\ tx' = [tx EXCEPT ![c] = IF @ = {} THEN {"info"} ELSE {"info", "permission"}]
          /\ UNCHANGED <<dbVars, pc, connected, session, buttons, list, win, job, reply>>
       \/ SqlErrors /\ GiveUp(c)

\* setAutoCommit(true) may end the process after all.  A commit whose answer is
\* lost may have been done.
Commit(c) ==
    /\ pc[c] = "change" /\ tx[c] = {"info", "permission"}
    /\ \/ /\ Committed(c, tx[c])
          /\ Over(c, "changed") \/ (SqlErrors /\ Crash(c))
       \/ SqlErrors /\ GiveUp(c)

\* The finish signal: the user page is filled again and the window deleted.
FinishChange(c) ==
    /\ pc[c] \in {"edit", "changed"}
    /\ Goto(c, "users")
    /\ FillList(c, Ids)
    /\ win' = [win EXCEPT ![c] = NoWin]
    /\ UNCHANGED <<dbVars, connected, session, buttons, job, reply, tx>>

-----------------------------------------------------------------------------
(* The specification. *)

Init ==
    /\ info = [u \in Ids |-> IF Start[u] = NULL THEN NULL ELSE First]
    /\ permission = Start
    /\ pc = [c \in Clients |-> "login"]
    /\ connected \in [Clients -> {TRUE} \cup (IF SqlErrors THEN {FALSE} ELSE {})]
    /\ session = [c \in Clients |-> NoUser]
    /\ buttons = [c \in Clients |-> 0]
    /\ list = [c \in Clients |-> {}]
    /\ win = [c \in Clients |-> NoWin]
    /\ job = [c \in Clients |-> NoJob]
    /\ reply = [c \in Clients |-> "none"]
    /\ tx = [c \in Clients |-> {}]

\* What runs on by itself once the user has pressed a button.
Handler(c) ==
    \/ SlotLogin(c)
    \/ Register(c) \/ RegisterAnswer(c)
    \/ ModifyInfo(c) \/ ModifyAnswer(c)
    \/ TimeOut(c)
    \/ UpdateRow(c) \/ Commit(c)

Gesture(c) ==
    \/ Restart(c)
    \/ Logout(c)
    \/ TurnRegisterPage(c) \/ DismissRegistered(c) \/ Join(c)
    \/ ShowMainPage(c) \/ OpenModifyWindow(c) \/ CloseModifyWindow(c)
    \/ ShowUserPage(c) \/ FinishChange(c)
    \/ \E u \in Ids : ClickLogin(c, u) \/ SearchUser(c, u) \/ OpenChangeWindow(c, u)
    \/ \E u \in Ids, v \in Values : ConfirmRegister(c, u, v)
    \/ \E v \in Values : ConfirmModify(c, v)
    \/ \E v \in Values, p \in Ranks : ConfirmChange(c, v, p)

Next == \E c \in Clients : Handler(c) \/ Gesture(c)

Spec == Init /\ [][Next]_vars

-----------------------------------------------------------------------------
(* Properties. *)

\* The types of the variables.  A row of user_permission belongs to an account,
\* and the index of a permission box is that of an entry or -1.
TypeOK ==
    /\ info \in [Ids -> Values \cup {First, NULL}]
    /\ permission \in [Ids -> Ranks \cup {NULL}]
    /\ \A u \in Ids : permission[u] # NULL => info[u] # NULL
    /\ pc \in [Clients -> LoginPages \cup MainPages \cup {"enter", "crashed"}]
    /\ connected \in [Clients -> BOOLEAN]
    /\ session \in [Clients -> [id : Ids \cup {NULL}, permission : Ranks]]
    /\ buttons \in [Clients -> Ranks]
    /\ list \in [Clients -> SUBSET Ids]
    /\ win \in [Clients -> [id : Ids \cup {NULL}, index : {-1} \cup {r - 1 : r \in Offered(SADMIN)}]]
    /\ job \in [Clients -> [id : Ids \cup {NULL}, value : Values \cup {NULL}, permission : Ranks]]
    /\ reply \in [Clients -> {"none", "pending", "done", "failed"}]
    /\ tx \in [Clients -> {{}, {"info"}, {"info", "permission"}}]

\* Where rooms can be created and deleted, a super administrator is logged in,
\* and still is one: no right is left over from the session before, none comes
\* from a query that failed, and nobody is demoted while his buttons are on.
RoomButtonsOnlySadmin ==
    \A c \in Clients : pc[c] \in MainPages /\ buttons[c] = SADMIN =>
        session[c].id # NULL /\ permission[session[c].id] = SADMIN

\* An administrator's account is changed by himself in ModifyWindow, or from a
\* session of somebody else who is a super administrator at that moment, however
\* old the list, the window and the cached permission of the session are.
AdminsChangedFromAbove ==
    [][\A u \in Ids :
          permission[u] \in {ADMIN, SADMIN} /\ <<info'[u], permission'[u]>> # <<info[u], permission[u]>> =>
             \E c \in Clients :
                /\ job[c].id = u
                /\ \/ /\ pc[c] \in {"modify", "modifyLate"} /\ session[c].id = u
                      /\ permission'[u] = permission[u]
                   \/ /\ tx[c] # {} /\ session[c].id \notin {u, NULL}
                      /\ permission[session[c].id] = SADMIN]_vars

\* ChangInfo shows nothing before it ends; when it reports success both tables are
\* written with what was confirmed; and when it reports an error, or the process
\* ends, an edit that is cut short has changed name and password at most: a rank
\* never changes without the rest of the edit, although a failed rollback leaves
\* its transaction to be committed.
EditInOrder ==
    [][\A c \in Clients : pc[c] = "change" /\ <<pc'[c], tx'[c]>> # <<pc[c], tx[c]>> =>
          /\ pc'[c] = "change" => UNCHANGED dbVars
          /\ pc'[c] = "changed" \/ permission' # permission =>
                /\ info'[job[c].id] = job[c].value
                /\ permission'[job[c].id] = job[c].permission]_vars

\* Whoever is told that he is registered has an account.
RegisteredIsTrue ==
    \A c \in Clients : pc[c] = "registered" => info[job[c].id] # NULL

\* No account stays locked while the administrator who edits it looks at a
\* message, and a transaction is about the account of the window that is open.
LocksAreShort ==
    \A c \in Clients : tx[c] # {} => pc[c] = "change" /\ job[c].id = win[c].id

\* The permission of an account changes to one that the box of the edit window
\* offers.
EditGivesAnOffer ==
    [][\A u \in Ids : permission[u] \notin {NULL, permission'[u]} =>
          permission'[u] \in UNION {Offered(p) : p \in Ranks}]_vars

\* The accounts as their owners see them: AccountBook promises this, whatever
\* statements fail and whatever other sessions do.
Book == INSTANCE AccountBook
BookSpec == Book!Spec
=============================================================================
