------------------------------ MODULE UsersProofs ------------------------------
(***************************************************************************)
(* Proofs about Users and about FilesSync, which mirrors its accounts, for *)
(* any set of names, requests, background syncs and failing calls.         *)
(*                                                                         *)
(* AlwaysAnAdmin is not inductive: a request that waits for the lock       *)
(* carries an old answer of accountsExist, and one that holds it a list    *)
(* that is written later.  Holder says what is known of that list, Asked   *)
(* what the old answer is still worth.                                     *)
(*                                                                         *)
(* SyncInv, in the second part, says what a sync that nothing disturbed    *)
(* knows of SFTPGo between its calls, and why the syncs that follow an     *)
(* undisturbed one may overlap freely without undoing it.                  *)
(***************************************************************************)
EXTENDS FilesSync, TLAPS


Writing(c) == call[c].pc \in {"saving", "renamed"}

Holder(c) ==
  /\ mu = c
  /\ ActiveAdmins(call[c].next) # {}
  /\ call[c].pc = "saving" => \A m \in Names : m # call[c].name => call[c].next[m] = users[m]
  /\ call[c].pc = "renamed" => file = call[c].next

Asked(c) ==
  IF call[c].boot
  THEN call[c].user = [role |-> "admin", disabled |-> FALSE]
  ELSE Accounts(users) # {}

Holders == \A c \in Calls : Writing(c) => Holder(c)

Askers == \A c \in Calls : call[c].pc = "asked" /\ call[c].op = "create" => Asked(c)

IInv == TypeOK /\ AlwaysAnAdmin /\ MemoryIsFile /\ Holders /\ Askers

(* A list with an active admin has accounts. *)
LEMMA AdminIsAccount ==
  ASSUME NEW list, ActiveAdmins(list) # {}
  PROVE  Accounts(list) # {} /\ Governed(list)
BY DEF ActiveAdmins, Accounts, Governed

(* Adding an active admin leaves one, whatever was there before. *)
LEMMA AddedAdmin ==
  ASSUME NEW list \in Lists, NEW n \in Names, NEW u \in User,
         u.role = "admin", u.disabled = FALSE
  PROVE  ActiveAdmins([list EXCEPT ![n] = u]) # {}
<1> DEFINE next == [list EXCEPT ![n] = u]
<1>1. next[n] = u
  BY DEF Lists
<1>2. n \in ActiveAdmins(next)
  BY <1>1, UsersAssumption DEF ActiveAdmins, Accounts
<1> QED BY <1>2

(* Filling a free name takes no active admin away. *)
LEMMA KeptAdmin ==
  ASSUME NEW list \in Lists, NEW n \in Names, NEW u \in User,
         list[n] = NoUser, ActiveAdmins(list) # {}
  PROVE  ActiveAdmins([list EXCEPT ![n] = u]) # {}
<1> DEFINE next == [list EXCEPT ![n] = u]
<1>1. PICK a \in Names : a \in ActiveAdmins(list)
  BY DEF ActiveAdmins, Accounts
<1>2. a # n
  BY <1>1 DEF ActiveAdmins, Accounts
<1>3. next[a] = list[a]
  BY <1>2 DEF Lists
<1>4. a \in ActiveAdmins(next)
  BY <1>1, <1>3 DEF ActiveAdmins, Accounts
<1> QED BY <1>4

(* Idle is a request. *)
LEMMA IdleType == Idle \in Call /\ Idle.pc = "idle"
BY UsersAssumption DEF UsersAssumption, Idle, Call, Ops, User, Roles, Lists, Empty

LEMMA InitIInv == Init => IInv
<1> SUFFICES ASSUME Init PROVE IInv
  OBVIOUS
<1>1. TypeOK
  BY IdleType, UsersAssumption DEF UsersAssumption, Init, TypeOK, Lists, Empty
<1>2. AlwaysAnAdmin
  BY DEF Init, AlwaysAnAdmin, Governed, Accounts, Empty
<1>3. MemoryIsFile /\ Holders /\ Askers
  BY DEF Init, MemoryIsFile, Holders, Askers, Writing, Idle
<1> QED BY <1>1, <1>2, <1>3 DEF IInv

-------------------------------------------------------------------------------

(* Taking the lock with a list that keeps an active admin and differs from *)
(* the current one in one account.                                         *)
LEMMA HoldStep ==
  ASSUME IInv, NEW c \in Calls, NEW next \in Lists,
         call[c].pc = "asked", mu = NoCall, Hold(c, next),
         ActiveAdmins(next) # {},
         \A m \in Names : m # call[c].name => next[m] = users[m]
  PROVE  IInv'
<1> USE UsersAssumption DEF UsersAssumption
<1>1. call' = [call EXCEPT ![c].pc = "saving", ![c].next = next] /\ mu' = c
      /\ UNCHANGED <<file, users, restarts>>
  BY DEF Hold
<1>2. call' \in [Calls -> Call]
  <2>1. call \in [Calls -> Call] /\ call[c] \in Call
    BY DEF IInv, TypeOK
  <2>2. [call[c] EXCEPT !.pc = "saving", !.next = next] \in Call
    BY <2>1 DEF Call
  <2> QED BY <2>1, <2>2, <1>1
<1>3. TypeOK'
  BY <1>1, <1>2 DEF IInv, TypeOK, Call
<1>4. AlwaysAnAdmin'
  BY <1>1 DEF IInv, AlwaysAnAdmin, Governed, Accounts, ActiveAdmins
<1>5. users = file
  BY DEF IInv, MemoryIsFile
<1>6. MemoryIsFile'
  BY <1>1, <1>5 DEF MemoryIsFile
<1>7. \A d \in Calls : d # c => call'[d] = call[d] /\ ~Writing(d)
  BY <1>1 DEF IInv, TypeOK, Holders, Holder
<1>8. /\ call'[c].pc = "saving" /\ call'[c].next = next
      /\ call'[c].name = call[c].name
  BY <1>1 DEF IInv, TypeOK, Call
<1>9. Holders'
  <2> SUFFICES ASSUME NEW d \in Calls, Writing(d)' PROVE Holder(d)'
    BY DEF Holders
  <2>1. d = c
    BY <1>7 DEF Writing
  <2>2. (ActiveAdmins(call[c].next) # {})'
    BY <1>8 DEF ActiveAdmins, Accounts
  <2> QED BY <2>1, <2>2, <1>1, <1>8 DEF Holder
<1>10. Askers'
  <2> SUFFICES ASSUME NEW d \in Calls, call'[d].pc = "asked", call'[d].op = "create"
               PROVE  Asked(d)'
    BY DEF Askers
  <2>1. d # c
    BY <1>8
  <2>2. Asked(d)
    BY <2>1, <1>7 DEF IInv, Askers
  <2> QED BY <2>1, <2>2, <1>1, <1>7 DEF Asked, Accounts
<1> QED BY <1>3, <1>4, <1>6, <1>9, <1>10 DEF IInv

(* A request waits for the lock, with an answer of accountsExist that is   *)
(* worth something.                                                        *)
LEMMA AskStep ==
  ASSUME IInv, NEW c \in Calls, NEW rec \in Call,
         call[c].pc = "idle", rec.pc = "asked",
         call' = [call EXCEPT ![c] = rec],
         UNCHANGED <<file, users, mu, restarts>>,
         rec.op = "create" =>
           IF rec.boot THEN rec.user = [role |-> "admin", disabled |-> FALSE]
                       ELSE Accounts(users) # {}
  PROVE  IInv'
<1>1. \A d \in Calls : call'[d] = IF d = c THEN rec ELSE call[d]
  BY DEF IInv, TypeOK
<1>2. TypeOK'
  BY DEF IInv, TypeOK
<1>3. AlwaysAnAdmin'
  BY DEF IInv, AlwaysAnAdmin, Governed, Accounts, ActiveAdmins
<1>4. MemoryIsFile'
  BY <1>1 DEF IInv, MemoryIsFile
<1>5. Holders'
  <2> SUFFICES ASSUME NEW d \in Calls, Writing(d)' PROVE Holder(d)'
    BY DEF Holders
  <2>1. d # c /\ call'[d] = call[d]
    BY <1>1 DEF Writing
  <2>2. Holder(d)
    BY <2>1 DEF IInv, Holders, Writing
  <2> QED BY <2>1, <2>2 DEF Holder, ActiveAdmins, Accounts
<1>6. Askers'
  <2> SUFFICES ASSUME NEW d \in Calls, call'[d].pc = "asked", call'[d].op = "create"
               PROVE  Asked(d)'
    BY DEF Askers
  <2>1. CASE d = c
    BY <2>1, <1>1 DEF Asked, Accounts
  <2>2. CASE d # c
    BY <2>2, <1>1 DEF IInv, Askers, Asked, Accounts
  <2> QED BY <2>1, <2>2
<1> QED BY <1>2, <1>3, <1>4, <1>5, <1>6 DEF IInv

(* A request ends without having written anything. *)
LEMMA QuitStep ==
  ASSUME IInv, NEW c \in Calls, Done(c),
         UNCHANGED <<file, users, restarts>>,
         \/ call[c].pc = "asked" /\ mu' = mu
         \/ call[c].pc = "saving" /\ mu' = NoCall
  PROVE  IInv'
<1> USE UsersAssumption DEF UsersAssumption
<1>1. \A d \in Calls : call'[d] = IF d = c THEN Idle ELSE call[d]
  BY DEF IInv, TypeOK, Done
<1>2. TypeOK'
  BY IdleType DEF IInv, TypeOK, Done
<1>3. AlwaysAnAdmin'
  BY DEF IInv, AlwaysAnAdmin, Governed, Accounts, ActiveAdmins
<1>4. MemoryIsFile'
  BY <1>1 DEF IInv, MemoryIsFile, Holders, Holder, Writing
<1>5. Holders'
  <2> SUFFICES ASSUME NEW d \in Calls, Writing(d)' PROVE Holder(d)'
    BY DEF Holders
  <2>1. d # c /\ call'[d] = call[d]
    BY <1>1, IdleType DEF Writing
  <2>2. Holder(d)
    BY <2>1 DEF IInv, Holders, Writing
  <2>3. mu' = mu
    BY <2>1, <2>2 DEF IInv, Holders, Holder, Writing
  <2> QED BY <2>1, <2>2, <2>3 DEF Holder, ActiveAdmins, Accounts
<1>6. Askers'
  <2> SUFFICES ASSUME NEW d \in Calls, call'[d].pc = "asked", call'[d].op = "create"
               PROVE  Asked(d)'
    BY DEF Askers
  <2>1. d # c /\ call'[d] = call[d]
    BY <1>1, IdleType
  <2> QED BY <2>1 DEF IInv, Askers, Asked, Accounts
<1> QED BY <1>2, <1>3, <1>4, <1>5, <1>6 DEF IInv

(* users.json is replaced. *)
LEMMA RenameStep ==
  ASSUME IInv, NEW c \in Calls, Rename(c)
  PROVE  IInv'
<1>1. /\ \A d \in Calls : d # c => call'[d] = call[d] /\ ~Writing(d)
      /\ call'[c].pc = "renamed" /\ call'[c].next = call[c].next
      /\ file' = call[c].next /\ UNCHANGED <<users, mu, restarts>>
      /\ Holder(c)
  BY DEF Rename, IInv, TypeOK, Call, Holders, Holder, Writing
<1>2. TypeOK'
  BY DEF Rename, IInv, TypeOK, Call
<1>3. AlwaysAnAdmin'
  <2>1. Governed(users)'
    BY <1>1 DEF IInv, AlwaysAnAdmin, Governed, Accounts, ActiveAdmins
  <2>2. Governed(file')
    BY <1>1, AdminIsAccount DEF Holder
  <2> QED BY <2>1, <2>2 DEF AlwaysAnAdmin, Governed, Accounts, ActiveAdmins
<1>4. MemoryIsFile'
  BY <1>1 DEF MemoryIsFile, Holder
<1>5. Holders'
  <2> SUFFICES ASSUME NEW d \in Calls, Writing(d)' PROVE Holder(d)'
    BY DEF Holders
  <2>1. d = c
    BY <1>1 DEF Writing
  <2> QED BY <2>1, <1>1 DEF Holder, ActiveAdmins, Accounts
<1>6. Askers'
  <2> SUFFICES ASSUME NEW d \in Calls, call'[d].pc = "asked", call'[d].op = "create"
               PROVE  Asked(d)'
    BY DEF Askers
  <2>1. d # c /\ call'[d] = call[d]
    BY <1>1
  <2> QED BY <2>1, <1>1 DEF IInv, Askers, Asked, Accounts
<1> QED BY <1>2, <1>3, <1>4, <1>5, <1>6 DEF IInv

(* Memory follows users.json.  Whoever was told that accounts exist stays  *)
(* right: the new list has an admin.                                       *)
LEMMA AnswerStep ==
  ASSUME IInv, NEW c \in Calls, Answer(c)
  PROVE  IInv'
<1> USE UsersAssumption DEF UsersAssumption
<1>1. /\ \A d \in Calls : call'[d] = IF d = c THEN Idle ELSE call[d]
      /\ \A d \in Calls : d # c => ~Writing(d)
      /\ users' = call[c].next /\ file' = file /\ mu' = NoCall /\ restarts' = restarts
      /\ Holder(c) /\ file = call[c].next
  BY DEF Answer, Done, IInv, TypeOK, Holders, Holder, Writing
<1>2. TypeOK'
  BY <1>1, IdleType DEF Answer, Done, IInv, TypeOK, Call
<1>3. Governed(users') /\ Accounts(users') # {}
  BY <1>1, AdminIsAccount DEF Holder
<1>4. AlwaysAnAdmin'
  BY <1>1, <1>3 DEF AlwaysAnAdmin, Governed, Accounts, ActiveAdmins
<1>5. MemoryIsFile'
  BY <1>1 DEF MemoryIsFile
<1>6. Holders'
  BY <1>1, IdleType DEF Holders, Writing
<1>7. Askers'
  <2> SUFFICES ASSUME NEW d \in Calls, call'[d].pc = "asked", call'[d].op = "create"
               PROVE  Asked(d)'
    BY DEF Askers
  <2>1. d # c /\ call'[d] = call[d]
    BY <1>1, IdleType
  <2> QED BY <2>1, <1>3 DEF IInv, Askers, Asked, Accounts
<1> QED BY <1>2, <1>4, <1>5, <1>6, <1>7 DEF IInv

LEMMA RestartStep ==
  ASSUME IInv, Restart
  PROVE  IInv'
<1>1. TypeOK'
  BY IdleType, UsersAssumption DEF UsersAssumption, Restart, IInv, TypeOK
<1>2. AlwaysAnAdmin'
  BY DEF Restart, IInv, AlwaysAnAdmin, Governed, Accounts, ActiveAdmins
<1>3. MemoryIsFile' /\ Holders' /\ Askers'
  BY DEF Restart, MemoryIsFile, Holders, Writing, Askers, Idle
<1> QED BY <1>1, <1>2, <1>3 DEF IInv

-------------------------------------------------------------------------------

(* Create, Update and Delete decide, under the lock, on the list that will *)
(* be written: it always has an active admin.                              *)
LEMMA CreateStep ==
  ASSUME IInv, NEW c \in Calls, Create(c)
  PROVE  IInv'
<1> DEFINE n == call[c].name
           next == [users EXCEPT ![n] = call[c].user]
<1>1. n \in Names /\ call[c].user \in User /\ users \in Lists /\ next \in Lists
  BY DEF IInv, TypeOK, Call, Lists
<1>2. CASE users[n] # NoUser
  <2>1. Refuse(c)
    BY <1>2 DEF Create
  <2> QED BY <2>1, QuitStep DEF Refuse, Create, Turn
<1>3. CASE users[n] = NoUser
  <2>1. Hold(c, next) /\ call[c].pc = "asked" /\ call[c].op = "create" /\ mu = NoCall
    BY <1>3 DEF Create, Turn
  <2>2. Asked(c)
    BY <2>1 DEF IInv, Askers
  <2>3. ActiveAdmins(next) # {}
    <3>1. CASE call[c].boot
      <4>1. call[c].user.role = "admin" /\ call[c].user.disabled = FALSE
        BY <3>1, <2>2 DEF Asked
      <4> QED BY <4>1, <1>1, AddedAdmin
    <3>2. CASE ~call[c].boot
      <4>1. ActiveAdmins(users) # {}
        BY <3>2, <2>2 DEF Asked, IInv, AlwaysAnAdmin, Governed
      <4> QED BY <4>1, <1>1, <1>3, KeptAdmin
    <3> QED BY <3>1, <3>2
  <2>4. \A m \in Names : m # n => next[m] = users[m]
    BY <1>1 DEF Lists
  <2> HIDE DEF next
  <2> QED BY <1>1, <2>1, <2>3, <2>4, HoldStep
<1> QED BY <1>2, <1>3

LEMMA UpdateStep ==
  ASSUME IInv, NEW c \in Calls, NEW u \in User, Update(c, u)
  PROVE  IInv'
<1> DEFINE n == call[c].name
           next == [users EXCEPT ![n] = u]
<1>1. n \in Names /\ users \in Lists /\ next \in Lists
  BY DEF IInv, TypeOK, Call, Lists
<1>2. call[c].pc = "asked" /\ mu = NoCall
  BY DEF Update, Turn
<1>3. CASE users[n] = NoUser \/ LastAdmin(next)
  <2>1. Refuse(c)
    BY <1>3 DEF Update
  <2> QED BY <2>1, <1>2, QuitStep DEF Refuse
<1>4. CASE users[n] # NoUser /\ ~LastAdmin(next)
  <2>1. Hold(c, next)
    BY <1>4 DEF Update
  <2>2. Accounts(users) # {}
    BY <1>1, <1>4 DEF Accounts
  <2>3. ActiveAdmins(next) # {}
    BY <2>2, <1>4 DEF LastAdmin, IInv, AlwaysAnAdmin, Governed
  <2>4. \A m \in Names : m # n => next[m] = users[m]
    BY <1>1 DEF Lists
  <2> HIDE DEF next
  <2> QED BY <1>1, <1>2, <2>1, <2>3, <2>4, HoldStep
<1> QED BY <1>3, <1>4

LEMMA DeleteStep ==
  ASSUME IInv, NEW c \in Calls, Delete(c)
  PROVE  IInv'
<1> DEFINE n == call[c].name
           next == [users EXCEPT ![n] = NoUser]
<1>1. n \in Names /\ users \in Lists /\ next \in Lists
  BY DEF IInv, TypeOK, Call, Lists
<1>2. call[c].pc = "asked" /\ mu = NoCall
  BY DEF Delete, Turn
<1>3. CASE users[n] = NoUser \/ LastAdmin(next)
  <2>1. Refuse(c)
    BY <1>3 DEF Delete
  <2> QED BY <2>1, <1>2, QuitStep DEF Refuse
<1>4. CASE users[n] # NoUser /\ ~LastAdmin(next)
  <2>1. Hold(c, next)
    BY <1>4 DEF Delete
  <2>2. Accounts(users) # {}
    BY <1>1, <1>4 DEF Accounts
  <2>3. ActiveAdmins(next) # {}
    BY <2>2, <1>4 DEF LastAdmin, IInv, AlwaysAnAdmin, Governed
  <2>4. \A m \in Names : m # n => next[m] = users[m]
    BY <1>1 DEF Lists
  <2> HIDE DEF next
  <2> QED BY <1>1, <1>2, <2>1, <2>3, <2>4, HoldStep
<1> QED BY <1>3, <1>4

LEMMA IInvStep == IInv /\ [Next]_vars => IInv'
<1> SUFFICES ASSUME IInv, [Next]_vars PROVE IInv'
  OBVIOUS
<1>1. ASSUME NEW c \in Calls, NEW n \in Names, NEW role \in Roles, AskCreate(c, n, role)
      PROVE  IInv'
  <2> DEFINE boot == Accounts(users) = {}
             rec == [Idle EXCEPT !.pc = "asked", !.op = "create", !.name = n, !.boot = boot,
                       !.user = [role |-> IF boot THEN "admin" ELSE role, disabled |-> FALSE]]
  <2>1. /\ rec \in Call /\ rec.pc = "asked" /\ rec.boot = boot
        /\ rec.user = [role |-> IF boot THEN "admin" ELSE role, disabled |-> FALSE]
    BY IdleType DEF Call, Ops, User, Roles
  <2>2. call[c].pc = "idle" /\ call' = [call EXCEPT ![c] = rec]
        /\ UNCHANGED <<file, users, mu, restarts>>
    BY <1>1 DEF AskCreate
  <2>3. IF rec.boot THEN rec.user = [role |-> "admin", disabled |-> FALSE]
                    ELSE Accounts(users) # {}
    BY <2>1
  <2> HIDE DEF rec
  <2> QED BY <2>1, <2>2, <2>3, AskStep
<1>2. ASSUME NEW c \in Calls, NEW n \in Names, NEW op \in Ops, AskChange(c, op, n)
      PROVE  IInv'
  <2> DEFINE rec == [Idle EXCEPT !.pc = "asked", !.op = op, !.name = n]
  <2>1. rec \in Call /\ rec.pc = "asked" /\ rec.op # "create"
    BY <1>2, IdleType DEF Call, Ops, AskChange
  <2>2. call[c].pc = "idle" /\ call' = [call EXCEPT ![c] = rec]
        /\ UNCHANGED <<file, users, mu, restarts>>
    BY <1>2 DEF AskChange
  <2> HIDE DEF rec
  <2> QED BY <2>1, <2>2, AskStep
<1>3. ASSUME NEW c \in Calls, SaveFails(c) PROVE IInv'
  BY <1>3, QuitStep DEF SaveFails
<1>4. CASE UNCHANGED vars
  BY <1>4 DEF vars, IInv, TypeOK, AlwaysAnAdmin, Governed, Accounts, ActiveAdmins,
              MemoryIsFile, Holders, Holder, Writing, Askers, Asked
<1> QED BY <1>1, <1>2, <1>3, <1>4, CreateStep, UpdateStep, DeleteStep,
           RenameStep, AnswerStep, RestartStep DEF Next

(* The inductive invariant holds. *)
LEMMA Invariant == Spec => []IInv
BY InitIInv, IInvStep, PTL DEF Spec

(* The state of the account list is always of its type. *)
THEOREM TypeCorrect == Spec => []TypeOK
BY Invariant, PTL DEF IInv

(* Vault is never left without an active admin once it has an account,     *)
(* for any number of names, concurrent requests and restarts.              *)
THEOREM AdminAlways == Spec => []AlwaysAnAdmin
BY Invariant, PTL DEF IInv

(* Memory and users.json stay together. *)
THEOREM FileFollowed == Spec => []MemoryIsFile
BY Invariant, PTL DEF IInv

(* No write to users.json carries an old copy of another account. *)
THEOREM OneAccountPerWrite == Spec => ChangesOneAccount
<1> DEFINE One == \A m, n \in Names : file'[m] # file[m] /\ file'[n] # file[n] => m = n
<1>1. IInv /\ [Next]_vars => One
  <2> SUFFICES ASSUME IInv, [Next]_vars PROVE One
    OBVIOUS
  <2>1. CASE file' = file
    BY <2>1
  <2>2. CASE \E c \in Calls : Rename(c)
    <3>1. PICK c \in Calls : Rename(c)
      BY <2>2
    <3>2. Holder(c) /\ call[c].pc = "saving" /\ file' = call[c].next
      BY <3>1 DEF Rename, IInv, Holders, Writing
    <3>3. users = file
      BY <3>2 DEF IInv, MemoryIsFile, Holder
    <3>4. \A m \in Names : m # call[c].name => file'[m] = file[m]
      BY <3>2, <3>3 DEF Holder
    <3> QED BY <3>4
  <2>3. file' = file \/ \E c \in Calls : Rename(c)
    BY DEF Next, vars, AskCreate, AskChange, Create, Update, Delete, Hold, Refuse,
           SaveFails, Answer, Restart
  <2> QED BY <2>1, <2>2, <2>3
<1>2. IInv /\ [Next]_vars => [One]_vars
  BY <1>1
<1> QED BY <1>2, Invariant, PTL DEF Spec, ChangesOneAccount

-------------------------------------------------------------------------------
(* The mirror in SFTPGo: the account list keeps its promises beside the    *)
(* syncs, one undisturbed sync puts SFTPGo right, and no user of somebody  *)
(* else is written to.                                                     *)


Values == Managed \cup {Absent, Foreign}

(* What SFTPGo should hold under a name for an account list, or another    *)
(* user that has the name.                                                 *)
Right(list, n, v) ==
  \/ v = Foreign
  \/ v = IF list[n] = NoUser THEN Absent ELSE Desired(n, list[n])

(* A sync y still has to write or to remove the user n. *)
Pending(list, y, n) == n \in y.todo \/ (list[n] = NoUser /\ y.have[n].tag = "managed")

(* Nothing changed since it was read, but a free name may be taken. *)
Same(had, now) == now = had \/ (had = Absent /\ now = Foreign)

Knows(list, there, y) ==
  /\ y.want = list
  /\ y.pc # "listing" => \A n \in y.seen :
       IF Pending(list, y, n) THEN Same(y.have[n], there[n]) ELSE Right(list, n, there[n])

(* A sync after one that put n right writes the same again, or is refused  *)
(* because it does not see the user.                                       *)
Repeats(list, y, n) ==
  /\ y.want = list
  /\ y.pc # "listing" => Right(list, n, y.have[n]) \/ y.have[n] = Absent

Works(y) ==
  /\ y.todo \subseteq Accounts(y.want)
  /\ y.pc \in {"folder", "post", "put"} <=> y.todo # {}
  /\ \A n \in Names : y.have[n] = Absent \/ n \in y.seen

SyncInv ==
  /\ \A s \in Syncs : Works(sync[s])
  /\ \A s \in Syncs : sync[s].clean => /\ Running(s) /\ Knows(users, remote, sync[s])
                                       /\ \A q \in Syncs : q # s => ~Running(q)
  /\ \A n \in settled : /\ Right(users, n, remote[n])
                        /\ \A s \in Syncs : Running(s) => Repeats(users, sync[s], n)

Record == [pc: {"off", "due", "listing", "folder", "post", "put", "removing"}, want: Lists,
           have: [Names -> Values], todo: SUBSET Names, seen: SUBSET Names, clean: BOOLEAN]

-------------------------------------------------------------------------------

(* FilesSync adds to Users and changes nothing of it. *)
LEMMA UsersStep == [SyncNext]_allVars => [Next]_vars
<1> SUFFICES ASSUME [SyncNext]_allVars PROVE [Next]_vars
  OBVIOUS
<1>1. ASSUME NEW c \in Calls, Store(c) \/ Changed(c) \/ Skip(c) PROVE [Next]_vars
  BY <1>1 DEF Store, Changed, Skip, Next
<1>2. ASSUME NEW s \in Syncs, Begin(s) \/ Step(s) PROVE [Next]_vars
  BY <1>2 DEF Begin, Step, List, EnsureFolder, PostFolder, PutUser, RemoveUser, Finish, Failing
<1>3. ASSUME NEW n \in Names, OtherUser(n) PROVE [Next]_vars
  BY <1>3 DEF OtherUser
<1>4. CASE Again  BY <1>4 DEF Again, Next
<1>5. CASE UNCHANGED allVars  BY <1>5 DEF allVars, vars
<1>6. QED  BY <1>1, <1>2, <1>3, <1>4, <1>5 DEF SyncNext

(* With the mirror beside it the account list is still the one of Users.   *)
THEOREM MirrorImplementsUsers == SyncSpec => Spec
<1>1. SyncInit => Init  BY DEF SyncInit
<1>2. QED  BY <1>1, UsersStep, PTL DEF SyncSpec, Spec

(* So there is always an admin while accounts are mirrored. *)
THEOREM AdminBesideSync == SyncSpec => [](AlwaysAnAdmin /\ MemoryIsFile)
BY MirrorImplementsUsers, AdminAlways, FileFollowed, PTL

-------------------------------------------------------------------------------

LEMMA ValueFacts ==
  /\ Absent \in Values /\ Foreign \in Values /\ Absent # Foreign
  /\ \A v \in Values : /\ v.tag = "foreign" <=> v = Foreign
                       /\ v.tag = "managed" => v \in Managed
                       /\ v.tag \notin {"managed", "foreign"} <=> v = Absent
  /\ \A v \in Managed : v.tag = "managed"
<1>1. Absent.tag = "absent" /\ Foreign.tag = "foreign"  BY DEF Absent, Foreign
<1>2. \A v \in Managed : v.tag = "managed"  BY DEF Managed
<1>3. QED  BY <1>1, <1>2 DEF Values

LEMMA DesiredType ==
  ASSUME NEW n \in Names, NEW u \in User
  PROVE  Desired(n, u) \in Managed /\ Desired(n, u) \in Values
<1>1. u.role \in {"admin", "guest", "family"}  BY DEF User, Roles
<1>2. Access[n] \in {"ro", "rw"}  BY SyncAssumption
<1>3. Desired(n, u) \in Managed
  <2>1. CASE u.role = "admin"  BY <2>1 DEF Desired, Managed, Grants
  <2>2. CASE u.role = "guest"  BY <2>2 DEF Desired, Managed, Grants
  <2>3. CASE u.role = "family"  BY <1>2, <2>3 DEF Desired, Managed, Grants
  <2>4. QED  BY <1>1, <2>1, <2>2, <2>3
<1>4. QED  BY <1>3 DEF Values

LEMMA OffFacts ==
  /\ Off \in Record /\ Off.pc = "off" /\ ~Off.clean /\ Off.todo = {} /\ Works(Off)
  /\ \A n \in Names : Off.have[n] = Absent
  /\ Empty \in Lists
<1>1. Empty \in Lists  BY DEF Empty, Lists
<1>2. [n \in Names |-> Absent] \in [Names -> Values]  BY ValueFacts
<1>3. QED  BY <1>1, <1>2 DEF Off, Record, Works

LEMMA SyncTypes == SyncTypeOK => sync \in [Syncs -> Record] /\ remote \in [Names -> Values]
BY DEF SyncTypeOK, Record, Values

(* The user a sync writes next is one of the accounts it copied. *)
LEMMA OnFacts ==
  ASSUME SyncTypeOK, NEW s \in Syncs, Works(sync[s]), sync[s].pc \in {"folder", "post", "put"}
  PROVE  /\ On(s) \in sync[s].todo /\ On(s) \in Names /\ sync[s].want[On(s)] \in User
<1>1. sync[s].todo # {} /\ sync[s].todo \subseteq Accounts(sync[s].want)  BY DEF Works
<1>2. On(s) \in sync[s].todo  BY <1>1 DEF On
<1>3. sync[s].want \in [Names -> User \cup {NoUser}]  BY SyncTypes DEF Record, Lists
<1>4. QED  BY <1>1, <1>2, <1>3 DEF Accounts

LEMMA NextFacts ==
  ASSUME SyncTypeOK, NEW s \in Syncs, Works(sync[s]), NEW todo \in SUBSET Accounts(sync[s].want)
  PROVE  /\ Next_(s, todo) \in Record /\ Works(Next_(s, todo))
         /\ Next_(s, todo).pc \notin {"off", "due", "listing"}
         /\ Next_(s, todo).todo = todo /\ Next_(s, todo).want = sync[s].want
         /\ Next_(s, todo).have = sync[s].have /\ Next_(s, todo).seen = sync[s].seen
         /\ Next_(s, todo).clean = sync[s].clean
<1>1. sync[s] \in Record  BY SyncTypes
<1>2. todo \subseteq Names  BY DEF Accounts
<1>3. QED  BY <1>1, <1>2 DEF Next_, Record, Works

-------------------------------------------------------------------------------

(* One call of a running sync s, which leaves it at to. *)
LEMMA CallStep ==
  ASSUME SyncTypeOK, SyncInv, NEW s \in Syncs, Running(s),
         NEW to \in Record, sync' = [sync EXCEPT ![s] = to], users' = users,
         Works(to),
         to.clean => sync[s].clean /\ to.pc \notin {"off", "due"} /\ Knows(users', remote', to),
         \A n \in settled' : /\ Right(users', n, remote'[n])
                             /\ to.pc \notin {"off", "due"} => Repeats(users', to, n),
         settled' \subseteq settled \/ sync[s].clean
  PROVE  SyncInv'
<1>1. sync \in [Syncs -> Record]  BY SyncTypes
<1>2. sync'[s] = to /\ \A q \in Syncs : q # s => sync'[q] = sync[q]  BY <1>1
<1>3. \A q \in Syncs : Works(sync'[q])  BY <1>2 DEF SyncInv
<1>4. \A q \in Syncs : q # s => ~sync[q].clean  BY DEF SyncInv
<1>5. ASSUME NEW q \in Syncs, sync'[q].clean
      PROVE  /\ Running(q)' /\ Knows(users', remote', sync'[q])
             /\ \A p \in Syncs : p # q => ~Running(p)'
  BY <1>2, <1>4, <1>5 DEF SyncInv, Running
<1>6. ASSUME NEW n \in settled', NEW q \in Syncs, Running(q)'
      PROVE  Repeats(users', sync'[q], n)
  <2>1. CASE q = s  BY <1>2, <1>6, <2>1 DEF Running
  <2>2. CASE q # s
    <3>1. Running(q)  BY <1>2, <1>6, <2>2 DEF Running
    <3>2. n \in settled  BY <1>6, <2>2, <3>1 DEF SyncInv
    <3>3. QED  BY <1>2, <2>2, <3>1, <3>2 DEF SyncInv, Repeats, Right
  <2>3. QED  BY <2>1, <2>2
<1>7. QED  BY <1>3, <1>5, <1>6 DEF SyncInv, Works, Accounts

(* A call of a sync that fails, wherever it leaves the sync. *)
LEMMA FailStep ==
  ASSUME SyncTypeOK, SyncInv, NEW s \in Syncs, Running(s), NEW to \in Record, Works(to),
         \A n \in settled : to.pc \in {"off", "due"} \/ Repeats(users, to, n), Failing(s, to)
  PROVE  SyncTypeOK' /\ SyncInv'
<1> DEFINE y == [to EXCEPT !.clean = FALSE]
<1>1. y \in Record /\ ~y.clean /\ y.pc = to.pc /\ y.want = to.want /\ y.have = to.have
      /\ y.todo = to.todo /\ y.seen = to.seen
  BY DEF Record
<1>2. sync' = [sync EXCEPT ![s] = y] /\ UNCHANGED <<users, remote, folder, settled>>
  BY DEF Failing, Put, vars
<1>3. Works(y)  BY <1>1 DEF Works
<1>4. \A n \in settled' : /\ Right(users', n, remote'[n])
                          /\ y.pc \notin {"off", "due"} => Repeats(users', y, n)
  BY <1>1, <1>2 DEF SyncInv, Repeats, Right
<1> HIDE DEF y
<1>5. SyncInv'  BY <1>1, <1>2, <1>3, <1>4, CallStep
<1>6. faults' \in 0 .. MaxFaults  BY SyncAssumption DEF Failing, SyncTypeOK
<1>7. SyncTypeOK'  BY <1>1, <1>2, <1>6, SyncTypes DEF SyncTypeOK, Record, Values
<1>8. QED  BY <1>5, <1>7

(* A call that succeeds and leaves settled alone. *)
LEMMA QuietCall ==
  ASSUME SyncTypeOK, SyncInv, NEW s \in Syncs, Running(s), NEW to \in Record, Works(to),
         to.pc \notin {"off", "due"}, to.clean = sync[s].clean,
         sync' = [sync EXCEPT ![s] = to], UNCHANGED <<users, settled, faults>>,
         folder' \in BOOLEAN, remote' \in [Names -> Values],
         sync[s].clean => Knows(users', remote', to),
         \A n \in settled : Right(users', n, remote'[n]) /\ Repeats(users', to, n)
  PROVE  SyncTypeOK' /\ SyncInv'
<1>1. SyncInv'  BY CallStep
<1>2. SyncTypeOK'  BY SyncTypes DEF SyncTypeOK, Record, Values
<1>3. QED  BY <1>1, <1>2

-------------------------------------------------------------------------------

LEMMA ListStep ==
  ASSUME SyncTypeOK, SyncInv, NEW s \in Syncs, List(s)
  PROVE  SyncTypeOK' /\ SyncInv'
<1>1. Running(s) /\ remote \in [Names -> Values]  BY SyncTypes DEF List, Running
<1>2. CASE Failing(s, Off)
  BY <1>1, <1>2, OffFacts, FailStep
<1>3. CASE ~Failing(s, Off)
  <2>1. PICK page \in SUBSET There :
          /\ sync' = [sync EXCEPT ![s] = [Next_(s, Accounts(sync[s].want)) EXCEPT
                        !.have = [n \in Names |-> IF n \in page THEN remote[n] ELSE Absent],
                        !.seen = {n \in Names : n \in There => n \in page}]]
          /\ UNCHANGED <<vars, remote, folder, settled, faults>>
    BY <1>3 DEF List, Pages, Put
  <2> DEFINE next == Next_(s, Accounts(sync[s].want))
             had == [n \in Names |-> IF n \in page THEN remote[n] ELSE Absent]
             seen == {n \in Names : n \in There => n \in page}
             to == [next EXCEPT !.have = had, !.seen = seen]
  <2>2. /\ next \in Record /\ Works(next) /\ next.pc \notin {"off", "due", "listing"}
        /\ next.todo = Accounts(sync[s].want) /\ next.want = sync[s].want
        /\ next.clean = sync[s].clean
    BY NextFacts DEF SyncInv
  <2>3. had \in [Names -> Values] /\ seen \in SUBSET Names  BY <1>1, ValueFacts
  <2>4. /\ to \in Record /\ Works(to) /\ to.pc \notin {"off", "due", "listing"}
        /\ to.todo = Accounts(sync[s].want) /\ to.want = sync[s].want
        /\ to.have = had /\ to.seen = seen /\ to.clean = sync[s].clean
    <3>1. \A n \in Names : had[n] = Absent \/ n \in seen  OBVIOUS
    <3> HIDE DEF next, had, seen
    <3>2. QED  BY <2>2, <2>3, <3>1 DEF Record, Works
  <2>5. /\ \A n \in Names : had[n] = remote[n] \/ had[n] = Absent
        /\ \A n \in seen : n \in Names /\ had[n] = remote[n]
    BY DEF There
  <2>6. sync' = [sync EXCEPT ![s] = to]  BY <2>1
  <2>7. /\ UNCHANGED <<users, settled, faults>> /\ folder' \in BOOLEAN
        /\ remote' = remote /\ remote' \in [Names -> Values]
    BY <1>1, <2>1 DEF vars, SyncTypeOK
  <2> HIDE DEF to, had, seen
  <2>8. sync[s].clean => Knows(users', remote', to)
    <3>1. SUFFICES ASSUME sync[s].clean, NEW n \in seen
                   PROVE  /\ to.want = users
                          /\ IF Pending(users, to, n) THEN Same(to.have[n], remote[n])
                             ELSE Right(users, n, remote[n])
      <4>1. sync[s].clean => to.want = users  BY <2>4 DEF SyncInv, Knows
      <4>2. QED  BY <2>4, <2>7, <4>1 DEF Knows
    <3>2. to.want = users  BY <2>4, <3>1 DEF SyncInv, Knows
    <3>3. n \in Names /\ to.have[n] = remote[n]  BY <2>4, <2>5
    <3>4. Pending(users, to, n) => Same(to.have[n], remote[n])  BY <3>3 DEF Same
    <3>5. ~Pending(users, to, n) => users[n] = NoUser /\ remote[n].tag # "managed"
      BY <2>4, <3>2, <3>3 DEF Pending, Accounts
    <3>6. ~Pending(users, to, n) => Right(users, n, remote[n])
      BY <1>1, <3>3, <3>5, ValueFacts DEF Right
    <3>7. QED  BY <3>2, <3>4, <3>6
  <2>9. ASSUME NEW n \in settled
        PROVE  Right(users', n, remote'[n]) /\ Repeats(users', to, n)
    <3>1. n \in Names  BY DEF SyncTypeOK
    <3>2. Right(users, n, remote[n]) /\ sync[s].want = users  BY <1>1 DEF SyncInv, Repeats
    <3>3. to.have[n] = remote[n] \/ to.have[n] = Absent  BY <2>4, <2>5, <3>1
    <3>4. QED  BY <2>4, <2>7, <3>2, <3>3 DEF Repeats, Right
  <2>10. QED  BY <1>1, <2>4, <2>6, <2>7, <2>8, <2>9, QuietCall
<1>4. QED  BY <1>2, <1>3

LEMMA FolderStep ==
  ASSUME SyncTypeOK, SyncInv, NEW s \in Syncs, EnsureFolder(s) \/ PostFolder(s)
  PROVE  SyncTypeOK' /\ SyncInv'
<1>1. PICK pc \in {"put", "post"} : \/ Failing(s, [sync[s] EXCEPT !.pc = pc])
                                    \/ /\ sync' = [sync EXCEPT ![s] = [sync[s] EXCEPT !.pc = pc]]
                                       /\ folder' \in {folder, TRUE}
                                       /\ UNCHANGED <<vars, remote, settled, faults>>
  BY DEF EnsureFolder, PostFolder, Put
<1> DEFINE to == [sync[s] EXCEPT !.pc = pc]
<1>2. sync[s] \in Record /\ sync[s].pc \in {"folder", "post"} /\ Running(s) /\ Works(sync[s])
  BY SyncTypes DEF EnsureFolder, PostFolder, Running, SyncInv
<1>3. to \in Record /\ to.pc \in {"put", "post"} /\ to.want = sync[s].want /\ to.have = sync[s].have
      /\ to.todo = sync[s].todo /\ to.seen = sync[s].seen /\ to.clean = sync[s].clean
  BY <1>1, <1>2 DEF Record
<1> HIDE DEF to
<1>4. Works(to)  BY <1>2, <1>3 DEF Works
<1>5. \A n \in settled : Repeats(users, to, n)
  BY <1>2, <1>3 DEF SyncInv, Repeats
<1>6. CASE Failing(s, to)  BY <1>2, <1>3, <1>4, <1>5, <1>6, FailStep
<1>7. CASE sync' = [sync EXCEPT ![s] = to] /\ folder' \in {folder, TRUE}
           /\ UNCHANGED <<vars, remote, settled, faults>>
  <2>1. users' = users /\ folder' \in BOOLEAN /\ remote' \in [Names -> Values]
    BY <1>7, SyncTypes DEF vars, SyncTypeOK
  <2>2. sync[s].clean => Knows(users', remote', to)
    BY <1>2, <1>3, <1>7, <2>1 DEF SyncInv, Knows, Pending, Same, Right
  <2>3. \A n \in settled : Right(users', n, remote'[n]) /\ Repeats(users', to, n)
    BY <1>5, <1>7, <2>1 DEF SyncInv, Repeats, Right
  <2>4. QED  BY <1>2, <1>3, <1>4, <1>7, <2>1, <2>2, <2>3, QuietCall
<1>8. QED  BY <1>1, <1>6, <1>7 DEF to

(* putUser: the user is Vault's to write, or it is left as it is. *)
LEMMA PutStep ==
  ASSUME SyncTypeOK, SyncInv, NEW s \in Syncs, PutUser(s)
  PROVE  SyncTypeOK' /\ SyncInv'
<1> DEFINE n == On(s)
           to == Next_(s, sync[s].todo \ {n})
           have == sync[s].have[n]
           new == IF MayWrite(have) THEN Written(have, remote[n], Desired(n, sync[s].want[n])) ELSE remote[n]
<1>1. /\ sync[s] \in Record /\ Running(s) /\ Works(sync[s]) /\ sync[s].pc = "put"
      /\ remote \in [Names -> Values]
  BY SyncTypes DEF PutUser, Running, SyncInv
<1>2. n \in sync[s].todo /\ n \in Names /\ sync[s].want[n] \in User
  BY <1>1, OnFacts
<1>3. /\ to \in Record /\ Works(to) /\ to.pc \notin {"off", "due", "listing"}
      /\ to.todo = sync[s].todo \ {n} /\ to.want = sync[s].want /\ to.have = sync[s].have
      /\ to.seen = sync[s].seen /\ to.clean = sync[s].clean
  <2>1. sync[s].todo \ {n} \in SUBSET Accounts(sync[s].want)  BY <1>1 DEF Works
  <2>2. QED  BY <1>1, <2>1, NextFacts
<1>4. \A m \in settled : Repeats(users, to, m)
  BY <1>1, <1>3 DEF SyncInv, Repeats
<1>5. have \in Values /\ new \in Values /\ new \in {remote[n], Desired(n, sync[s].want[n])}
  BY <1>1, <1>2, DesiredType DEF Record, Written
<1>6. Failing(s, to) \/ /\ sync' = [sync EXCEPT ![s] = to]
                        /\ remote' = [remote EXCEPT ![n] = new]
                        /\ UNCHANGED <<vars, folder, settled, faults>>
  BY <1>1 DEF PutUser, Put
<1>7. CASE Failing(s, to)
  <2> HIDE DEF to
  <2>1. QED  BY <1>1, <1>3, <1>4, <1>7, FailStep
<1>8. CASE sync' = [sync EXCEPT ![s] = to] /\ remote' = [remote EXCEPT ![n] = new]
           /\ UNCHANGED <<vars, folder, settled, faults>>
  <2>1. UNCHANGED <<users, settled, faults>> /\ folder' \in BOOLEAN /\ remote' \in [Names -> Values]
    BY <1>1, <1>2, <1>5, <1>8 DEF vars, SyncTypeOK
  <2>2. sync[s].want = users => users[n] # NoUser
    BY <1>1, <1>2 DEF Works, Accounts
  <2>3. ASSUME sync[s].clean, n \in sync[s].seen
        PROVE  Right(users, n, new)
    <3>1. Same(have, remote[n]) /\ sync[s].want = users
      BY <1>1, <1>2, <2>3 DEF SyncInv, Knows, Pending
    <3>2. CASE have = Foreign  BY <3>1, <3>2, ValueFacts DEF Right, Same, MayWrite
    <3>3. CASE have # Foreign
      BY <1>5, <2>2, <3>1, <3>3, ValueFacts DEF Right, Same, MayWrite, Written
    <3>4. QED  BY <3>2, <3>3
  <2>4. sync[s].clean => Knows(users', remote', to)
    <3> HIDE DEF to, new, have, n
    <3>1. SUFFICES ASSUME sync[s].clean, NEW m \in sync[s].seen
                   PROVE  /\ to.want = users
                          /\ IF Pending(users, to, m) THEN Same(to.have[m], remote'[m])
                             ELSE Right(users, m, remote'[m])
      <4>1. sync[s].clean => to.want = users  BY <1>3 DEF SyncInv, Knows
      <4>2. QED  BY <1>3, <2>1, <4>1 DEF Knows
    <3>2. /\ sync[s].want = users
          /\ IF Pending(users, sync[s], m) THEN Same(sync[s].have[m], remote[m])
             ELSE Right(users, m, remote[m])
      BY <1>1, <3>1 DEF SyncInv, Knows
    <3>3. CASE m = n
      <4>1. ~Pending(users, to, m)  BY <1>3, <2>2, <3>2, <3>3 DEF Pending
      <4>2. remote'[m] = new  BY <1>1, <1>2, <1>8, <3>3
      <4>3. QED  BY <1>3, <2>3, <3>1, <3>2, <3>3, <4>1, <4>2
    <3>4. CASE m # n
      <4>1. remote'[m] = remote[m]  BY <1>1, <1>8, <3>4
      <4>2. Pending(users, to, m) <=> Pending(users, sync[s], m)
        BY <1>3, <3>4 DEF Pending
      <4>3. QED  BY <1>3, <3>2, <4>1, <4>2
    <3>5. QED  BY <3>3, <3>4
  <2>5. ASSUME NEW m \in settled
        PROVE  Right(users', m, remote'[m]) /\ Repeats(users', to, m)
    <3>1. sync[s].want = users /\ m \in Names  BY <1>1 DEF SyncInv, Repeats, SyncTypeOK
    <3>2. m = n => Right(users, n, new)
      BY <1>2, <1>5, <2>2, <3>1 DEF SyncInv, Right
    <3> HIDE DEF to, new, have, n
    <3>3. remote'[m] = IF m = n THEN new ELSE remote[m]  BY <1>1, <1>2, <1>8, <3>1
    <3>4. Right(users', m, remote'[m])
      BY <2>1, <3>2, <3>3 DEF SyncInv
    <3>5. QED  BY <1>4, <2>1, <3>4
  <2> HIDE DEF to
  <2>6. QED  BY <1>1, <1>3, <1>8, <2>1, <2>4, <2>5, QuietCall
<1>9. QED  BY <1>6, <1>7, <1>8

(* A managed user without an account is removed. *)
LEMMA RemoveStep ==
  ASSUME SyncTypeOK, SyncInv, NEW s \in Syncs, RemoveUser(s)
  PROVE  SyncTypeOK' /\ SyncInv'
<1>1. /\ sync[s] \in Record /\ Running(s) /\ Works(sync[s]) /\ sync[s].pc = "removing"
      /\ remote \in [Names -> Values]
  BY SyncTypes DEF RemoveUser, Running, SyncInv
<1>2. PICK n \in Surplus(s) : \/ /\ remote' = [remote EXCEPT ![n] = Absent]
                                /\ sync' = [sync EXCEPT ![s] = [sync[s] EXCEPT !.have[n] = Absent]]
                                /\ UNCHANGED <<vars, folder, settled, faults>>
                             \/ Failing(s, [sync[s] EXCEPT !.have[n] = Absent])
  BY DEF RemoveUser, Put
<1> DEFINE to == [sync[s] EXCEPT !.have[n] = Absent]
<1>3. n \in Names /\ sync[s].have[n].tag = "managed" /\ sync[s].want[n] = NoUser
  BY DEF Surplus
<1>4. /\ to \in Record /\ to.pc = "removing" /\ to.todo = sync[s].todo /\ to.want = sync[s].want
      /\ to.seen = sync[s].seen /\ to.clean = sync[s].clean
      /\ to.have = [sync[s].have EXCEPT ![n] = Absent]
      /\ sync[s].have \in [Names -> Values]
  BY <1>1, <1>3, ValueFacts DEF Record
<1> HIDE DEF to
<1>5. Works(to)  BY <1>1, <1>4 DEF Works
<1>6. ASSUME NEW m \in settled
      PROVE  m # n /\ m \in Names /\ Right(users, m, remote[m]) /\ Repeats(users, to, m)
  <2>1. sync[s].want = users /\ Repeats(users, sync[s], m) /\ m \in Names /\ Right(users, m, remote[m])
    BY <1>1 DEF SyncInv, Repeats, SyncTypeOK
  <2>2. m # n
    <3>1. m = n => Right(users, n, sync[s].have[n]) \/ sync[s].have[n] = Absent
      BY <1>1, <2>1 DEF Repeats
    <3>2. QED  BY <1>1, <1>3, <2>1, <3>1, ValueFacts DEF Right
  <2>3. to.have[m] = sync[s].have[m]  BY <1>4, <2>1, <2>2
  <2>4. QED  BY <1>1, <1>4, <2>1, <2>2, <2>3 DEF Repeats
<1>7. CASE Failing(s, to)  BY <1>1, <1>4, <1>5, <1>6, <1>7, FailStep
<1>8. CASE /\ remote' = [remote EXCEPT ![n] = Absent] /\ sync' = [sync EXCEPT ![s] = to]
           /\ UNCHANGED <<vars, folder, settled, faults>>
  <2>1. UNCHANGED <<users, settled, faults>> /\ folder' \in BOOLEAN /\ remote' \in [Names -> Values]
    BY <1>1, <1>3, <1>8, ValueFacts DEF vars, SyncTypeOK
  <2>2. sync[s].clean => Knows(users', remote', to)
    <3>1. SUFFICES ASSUME sync[s].clean, NEW m \in sync[s].seen
                   PROVE  /\ to.want = users
                          /\ IF Pending(users, to, m) THEN Same(to.have[m], remote'[m])
                             ELSE Right(users, m, remote'[m])
      <4>1. sync[s].clean => to.want = users  BY <1>4 DEF SyncInv, Knows
      <4>2. QED  BY <1>4, <2>1, <4>1 DEF Knows
    <3>2. /\ sync[s].want = users
          /\ IF Pending(users, sync[s], m) THEN Same(sync[s].have[m], remote[m])
             ELSE Right(users, m, remote[m])
      BY <1>1, <3>1 DEF SyncInv, Knows
    <3>3. CASE m = n
      <4>1. to.have[m] = Absent /\ remote'[m] = Absent  BY <1>1, <1>3, <1>4, <1>8, <3>3
      <4>2. Right(users, m, Absent)  BY <1>3, <3>2, <3>3 DEF Right
      <4>3. Same(Absent, Absent)  BY DEF Same
      <4>4. QED  BY <1>4, <3>2, <4>1, <4>2, <4>3
    <3>4. CASE m # n
      <4>1. remote'[m] = remote[m] /\ to.have[m] = sync[s].have[m]  BY <1>1, <1>4, <1>8, <3>4
      <4>2. Pending(users, to, m) <=> Pending(users, sync[s], m)  BY <1>4, <4>1 DEF Pending
      <4>3. QED  BY <1>4, <3>2, <4>1, <4>2
    <3>5. QED  BY <3>3, <3>4
  <2>3. \A m \in settled : Right(users', m, remote'[m]) /\ Repeats(users', to, m)
    BY <1>1, <1>6, <1>8, <2>1
  <2>4. QED  BY <1>1, <1>4, <1>5, <1>8, <2>1, <2>2, <2>3, QuietCall
<1>9. QED  BY <1>2, <1>7, <1>8 DEF to

(* A sync ends; an undisturbed one leaves SFTPGo as the accounts are. *)
LEMMA FinishStep ==
  ASSUME SyncTypeOK, SyncInv, NEW s \in Syncs, Finish(s)
  PROVE  SyncTypeOK' /\ SyncInv'
<1>1. /\ sync[s] \in Record /\ Running(s) /\ Works(sync[s]) /\ sync[s].pc = "removing"
      /\ remote \in [Names -> Values]
  BY SyncTypes DEF Finish, Running, SyncInv
<1>2. sync' = [sync EXCEPT ![s] = Off] /\ settled' = (IF sync[s].clean THEN sync[s].seen ELSE {})
      /\ UNCHANGED <<users, remote, folder, faults>>
  BY DEF Finish, Put, vars
<1>3. ASSUME sync[s].clean, NEW n \in sync[s].seen
      PROVE  Right(users', n, remote'[n])
  <2>1. /\ sync[s].want = users /\ sync[s].todo = {}
        /\ IF Pending(users, sync[s], n) THEN Same(sync[s].have[n], remote[n])
           ELSE Right(users, n, remote[n])
    BY <1>1, <1>3 DEF SyncInv, Knows, Works
  <2>2. ~Pending(users, sync[s], n)
    BY <1>1, <2>1 DEF Pending, Finish, Surplus, Record
  <2>3. QED  BY <1>2, <2>1, <2>2
<1>4. SyncInv'
  BY <1>1, <1>2, <1>3, OffFacts, CallStep
<1>5. settled' \in SUBSET Names  BY <1>1, <1>2 DEF Record
<1>6. SyncTypeOK'
  BY <1>2, <1>5, SyncTypes, OffFacts DEF SyncTypeOK, Record, Values
<1>7. QED  BY <1>4, <1>6

-------------------------------------------------------------------------------

(* A sync that starts has company, or it is the one that is undisturbed. *)
LEMMA BeginStep ==
  ASSUME TypeOK, SyncTypeOK, SyncInv, NEW s \in Syncs, Begin(s)
  PROVE  SyncTypeOK' /\ SyncInv'
<1> DEFINE alone == \A q \in Syncs : ~Running(q)
           y == [Off EXCEPT !.pc = "listing", !.want = users, !.clean = alone]
<1>1. sync \in [Syncs -> Record] /\ remote \in [Names -> Values] /\ users \in Lists
  BY SyncTypes DEF TypeOK
<1>2. alone \in BOOLEAN  OBVIOUS
<1>3. /\ y \in Record /\ y.pc = "listing" /\ y.want = users /\ y.clean = alone
      /\ y.todo = {} /\ y.have = Off.have
  BY <1>1, <1>2, OffFacts DEF Record
<1>4. sync' = [Disturbed EXCEPT ![s] = y] /\ UNCHANGED <<users, remote, folder, settled, faults>>
  BY DEF Begin, vars
<1> HIDE DEF y
<1>5. sync'[s] = y /\ \A q \in Syncs : q # s =>
        /\ sync'[q] \in Record /\ ~sync'[q].clean /\ sync'[q].pc = sync[q].pc
        /\ sync'[q].want = sync[q].want /\ sync'[q].have = sync[q].have /\ sync'[q].todo = sync[q].todo
        /\ sync'[q].seen = sync[q].seen
  BY <1>1, <1>4 DEF Disturbed, Record
<1>6. \A q \in Syncs : Works(sync'[q])
  BY <1>3, <1>5, OffFacts DEF SyncInv, Works
<1>7. ASSUME NEW q \in Syncs, sync'[q].clean
      PROVE  Running(q)' /\ Knows(users', remote', sync'[q]) /\ \A p \in Syncs : p # q => ~Running(p)'
  BY <1>3, <1>4, <1>5, <1>7 DEF Running, Knows
<1>8. ASSUME NEW n \in settled
      PROVE  /\ Right(users', n, remote'[n])
             /\ \A q \in Syncs : Running(q)' => Repeats(users', sync'[q], n)
  BY <1>3, <1>4, <1>5 DEF SyncInv, Running, Repeats
<1>9. SyncInv'  BY <1>4, <1>6, <1>7, <1>8 DEF SyncInv
<1>10. sync' \in [Syncs -> Record]
  BY <1>1, <1>3, <1>4, <1>5 DEF Disturbed
<1>11. SyncTypeOK'
  BY <1>4, <1>10 DEF SyncTypeOK, Record, Values
<1>12. QED  BY <1>9, <1>11

(* A change of the accounts, and a restart, leave nobody undisturbed. *)
LEMMA NobodyStep ==
  ASSUME SyncTypeOK, SyncInv, UNCHANGED <<remote, folder, faults>>, settled' = {},
         sync' \in [Syncs -> Record],
         \A s \in Syncs : Works(sync'[s]) /\ ~sync'[s].clean
  PROVE  SyncTypeOK' /\ SyncInv'
<1>1. SyncTypeOK'  BY DEF SyncTypeOK, Record, Values
<1>2. SyncInv'  BY DEF SyncInv
<1>3. QED  BY <1>1, <1>2

LEMMA ChangedStep ==
  ASSUME SyncTypeOK, SyncInv, NEW c \in Calls, Changed(c)
  PROVE  SyncTypeOK' /\ SyncInv'
<1> DEFINE y == [Off EXCEPT !.pc = "due"]
<1>1. sync \in [Syncs -> Record] /\ c \in Syncs  BY SyncTypes DEF Syncs
<1>2. y \in Record /\ Works(y) /\ ~y.clean
  BY OffFacts DEF Record, Works
<1>3. sync' = [Disturbed EXCEPT ![c] = y] /\ settled' = {} /\ UNCHANGED <<remote, folder, faults>>
  BY DEF Changed
<1> HIDE DEF y
<1>4. sync' \in [Syncs -> Record] /\ \A s \in Syncs : Works(sync'[s]) /\ ~sync'[s].clean
  BY <1>1, <1>2, <1>3 DEF Disturbed, Record, SyncInv, Works
<1>5. QED  BY <1>3, <1>4, NobodyStep

LEMMA AgainStep ==
  ASSUME SyncTypeOK, SyncInv, Again
  PROVE  SyncTypeOK' /\ SyncInv'
<1>1. sync' = [s \in Syncs |-> Off] /\ settled' = {} /\ UNCHANGED <<remote, folder, faults>>
  BY DEF Again
<1>2. QED  BY <1>1, OffFacts, NobodyStep

(* Nothing about a sync is known to depend on the requests of Users. *)
LEMMA OtherStep ==
  ASSUME SyncTypeOK, SyncInv,
         \/ \E c \in Calls : Store(c) \/ Skip(c)
         \/ \E n \in Names : OtherUser(n)
         \/ UNCHANGED allVars
  PROVE  SyncTypeOK' /\ SyncInv'
<1>1. CASE (\E c \in Calls : Store(c)) \/ UNCHANGED allVars
  <2>1. UNCHANGED <<users, remote, folder, sync, settled, faults>>
    BY <1>1 DEF Store, allVars, vars, syncVars, AskCreate, AskChange, Create, Update, Delete, Hold,
                Refuse, SaveFails, Rename
  <2>2. QED  BY <2>1 DEF SyncTypeOK, SyncInv, Running
<1>2. CASE \E c \in Calls : Skip(c)
  <2>1. PICK c \in Calls : Skip(c)  BY <1>2
  <2>2. sync \in [Syncs -> Record] /\ c \in Syncs  BY SyncTypes DEF Syncs
  <2>3. /\ sync' = [sync EXCEPT ![c] = Off] /\ ~Running(c)
        /\ UNCHANGED <<users, remote, folder, settled, faults>>
    BY <2>1 DEF Skip, Put, vars, Running
  <2>4. sync'[c] = Off /\ ~Running(c)' /\ \A q \in Syncs : q # c => sync'[q] = sync[q]
    BY <2>2, <2>3, OffFacts DEF Running
  <2>5. SyncInv'  BY <2>3, <2>4, OffFacts DEF SyncInv, Running
  <2>6. SyncTypeOK'  BY <2>2, <2>3, OffFacts DEF SyncTypeOK, Record, Values
  <2>7. QED  BY <2>5, <2>6
<1>3. CASE \E n \in Names : OtherUser(n)
  <2>1. PICK n \in Names : OtherUser(n)  BY <1>3
  <2>2. /\ remote[n] = Absent /\ remote' = [remote EXCEPT ![n] = Foreign]
        /\ remote \in [Names -> Values] /\ UNCHANGED <<users, folder, sync, settled>>
    BY <2>1, SyncTypes DEF OtherUser, vars
  <2>3. ASSUME NEW s \in Syncs, sync[s].clean
        PROVE  Knows(users', remote', sync'[s])
    <3>1. Knows(users, remote, sync[s])  BY <2>3 DEF SyncInv
    <3>2. sync[s].have \in [Names -> Values]  BY SyncTypes DEF Record
    <3>3. \A m \in Names : Same(sync[s].have[m], remote[m]) => Same(sync[s].have[m], remote'[m])
      BY <2>2 DEF Same
    <3>4. \A m \in Names : Right(users, m, remote[m]) => Right(users, m, remote'[m])
      BY <2>2 DEF Right
    <3>5. QED  BY <2>2, <3>1, <3>3, <3>4 DEF Knows
  <2>4. \A m \in settled : Right(users', m, remote'[m])
    BY <2>2 DEF SyncInv, Right
  <2>5. SyncInv'  BY <2>2, <2>3, <2>4 DEF SyncInv, Running
  <2>6. faults' \in 0 .. MaxFaults  BY <2>1, SyncAssumption DEF OtherUser, SyncTypeOK
  <2>7. SyncTypeOK'  BY <2>2, <2>6, ValueFacts DEF SyncTypeOK, Values
  <2>8. QED  BY <2>5, <2>7
<1>4. QED  BY <1>1, <1>2, <1>3

-------------------------------------------------------------------------------

LEMMA SyncInvInit == SyncInit => SyncTypeOK /\ SyncInv
<1> SUFFICES ASSUME SyncInit PROVE SyncTypeOK /\ SyncInv
  OBVIOUS
<1>1. SyncTypeOK
  <2>1. remote \in [Names -> Values] /\ folder \in BOOLEAN /\ settled \in SUBSET Names /\ faults \in 0 .. MaxFaults
    <3>1. remote \in [Names -> Values]
      <4>1. remote \in [Names -> {Absent, Foreign}]  BY DEF SyncInit
      <4>2. QED  BY <4>1, ValueFacts
    <3>2. folder \in BOOLEAN /\ settled \in SUBSET Names /\ faults = 0  BY DEF SyncInit
    <3>3. 0 \in 0 .. MaxFaults  BY SyncAssumption
    <3>4. QED  BY <3>1, <3>2, <3>3
  <2>2. sync \in [Syncs -> Record]  BY OffFacts DEF SyncInit
  <2>3. QED  BY <2>1, <2>2 DEF SyncTypeOK, Record, Values
<1>2. SyncInv
  BY OffFacts DEF SyncInit, SyncInv
<1>3. QED  BY <1>1, <1>2

LEMMA SyncInvStep == TypeOK /\ SyncTypeOK /\ SyncInv /\ [SyncNext]_allVars => SyncTypeOK' /\ SyncInv'
<1> SUFFICES ASSUME TypeOK, SyncTypeOK, SyncInv, [SyncNext]_allVars PROVE SyncTypeOK' /\ SyncInv'
  OBVIOUS
<1>1. ASSUME NEW s \in Syncs, Step(s) PROVE SyncTypeOK' /\ SyncInv'
  BY <1>1, ListStep, FolderStep, PutStep, RemoveStep, FinishStep DEF Step
<1>2. QED
  BY <1>1, BeginStep, ChangedStep, AgainStep, OtherStep DEF SyncNext

LEMMA SyncInvariant == SyncSpec => [](TypeOK /\ SyncTypeOK /\ SyncInv)
<1>1. SyncSpec => []TypeOK  BY MirrorImplementsUsers, TypeCorrect, PTL
<1>2. QED  BY <1>1, SyncInvInit, SyncInvStep, PTL DEF SyncSpec

(* Types of the syncs and of SFTPGo's users. *)
THEOREM SyncTypeCorrect == SyncSpec => []SyncTypeOK
BY SyncInvariant, PTL

(* Whatever overlapped, failed or was cut off before: after one sync that  *)
(* ran alone, every user SFTPGo listed for it, and every account that had  *)
(* none, is as the accounts say, also while further syncs overlap, until   *)
(* an account changes or the last sync was not alone.  The users the list  *)
(* left out, which there are when SFTPGo has more than ListLimit, are not  *)
(* among them.                                                             *)
THEOREM LoneSyncIsEnough == SyncSpec => []LoneSyncMirrors
<1>1. SyncInv => LoneSyncMirrors  BY DEF SyncInv, LoneSyncMirrors, Right
<1>2. QED  BY <1>1, SyncInvariant, PTL

(* A user Vault did not create is written to or removed only by a sync     *)
(* that was overtaken and still takes the name for its own.                *)
THEOREM ForeignKept == SyncSpec => ForeignUntouched
<1> DEFINE Kept == \A n \in Names : remote[n] = Foreign =>
              remote'[n] = Foreign \/ \E s \in Syncs : sync[s].have[n].tag = "managed" /\ ~sync[s].clean
<1>1. ASSUME SyncTypeOK, SyncInv, [SyncNext]_allVars
      PROVE  Kept
  <2>1. SUFFICES ASSUME NEW n \in Names, remote[n] = Foreign, remote'[n] # Foreign
                 PROVE  \E s \in Syncs : sync[s].have[n].tag = "managed" /\ ~sync[s].clean
    OBVIOUS
  <2>2. remote \in [Names -> Values]  BY <1>1, SyncTypes
  <2>3. PICK s \in Syncs : PutUser(s) \/ RemoveUser(s)
    BY <1>1, <2>1, <2>2 DEF SyncNext, allVars, vars, syncVars, Step, Store, Changed, Skip, Begin, List, EnsureFolder,
           PostFolder, Finish, Failing, OtherUser, Again
  <2>4. sync[s] \in Record /\ Works(sync[s]) /\ Running(s)
    BY <1>1, <2>3, SyncTypes DEF SyncInv, Running, PutUser, RemoveUser
  <2>5. sync[s].have[n].tag = "managed" /\ (n \in sync[s].todo \/ sync[s].want[n] = NoUser)
        /\ sync[s].pc # "listing"
    <3>1. CASE PutUser(s)
      <4>1. On(s) \in sync[s].todo /\ On(s) \in Names  BY <1>1, <2>4, <3>1, OnFacts DEF PutUser
      <4>2. n = On(s) /\ MayWrite(sync[s].have[n])
            /\ remote'[n] = Written(sync[s].have[n], remote[n], Desired(n, sync[s].want[n]))
        BY <2>1, <2>2, <3>1, <4>1 DEF PutUser, Failing
      <4>3. sync[s].have[n] # Absent  BY <2>1, <4>2, ValueFacts DEF Written
      <4>4. sync[s].have[n] \in Values  BY <2>4 DEF Record
      <4>5. sync[s].have[n].tag = "managed"  BY <4>2, <4>3, <4>4, ValueFacts DEF MayWrite
      <4>6. QED  BY <3>1, <4>1, <4>2, <4>5 DEF PutUser
    <3>2. CASE RemoveUser(s)
      BY <2>1, <2>2, <3>2 DEF RemoveUser, Failing, Surplus
    <3>3. QED  BY <2>3, <3>1, <3>2
  <2>6. sync[s].clean => Same(sync[s].have[n], remote[n])
    <3>1. n \in sync[s].seen  BY <2>4, <2>5, ValueFacts DEF Works
    <3>2. QED  BY <1>1, <2>5, <3>1 DEF SyncInv, Knows, Pending
  <2>7. ~Same(sync[s].have[n], remote[n])
    BY <2>1, <2>5, ValueFacts DEF Same
  <2>8. QED  BY <2>5, <2>6, <2>7
<1>2. TypeOK /\ SyncTypeOK /\ SyncInv /\ [SyncNext]_allVars => [Kept]_allVars  BY <1>1
<1>3. QED  BY <1>2, SyncInvariant, PTL DEF SyncSpec, ForeignUntouched
===============================================================================
