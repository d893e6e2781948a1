--------------------------------- MODULE Users ---------------------------------
(***************************************************************************)
(* The account list: Store of internal/users/users.go, with the requests   *)
(* of internal/api/users_handlers.go that create, change and delete        *)
(* accounts at the same time, and crashes between writing users.json and   *)
(* answering.                                                              *)
(*                                                                         *)
(* Every request here is made by an admin or the computer's owner; gate    *)
(* lets nobody else through.  Of an account the model keeps the role and   *)
(* whether it is disabled: nothing else decides a change.                  *)
(***************************************************************************)
EXTENDS FiniteSets, Naturals

CONSTANTS
  Names,       \* usernames
  Calls,       \* requests that may run at the same time
  NoUser,      \* no account under this name
  NoCall,      \* nobody holds Store.mu
  MaxRestarts  \* bound on how often vaultd is started again

Roles == {"admin", "family", "guest"}
User == [role: Roles, disabled: BOOLEAN]

ASSUME UsersAssumption ==
  /\ Names # {} /\ IsFiniteSet(Names)
  /\ NoUser \notin User /\ NoCall \notin Calls
  /\ MaxRestarts \in Nat

VARIABLES
  file,     \* users.json (durable)
  users,    \* Store.users
  mu,       \* who holds Store.mu for writing
  call,     \* the requests
  restarts

vars == <<file, users, mu, call, restarts>>

Lists == [Names -> User \cup {NoUser}]

(***************************************************************************)
(* A request: idle; asked (its handler runs, mu not taken yet); saving     *)
(* (holds mu, next is decided); renamed (users.json is replaced).  boot    *)
(* is what accountsExist told handleCreateUser before it hashed the        *)
(* password.                                                               *)
(***************************************************************************)
Ops == {"create", "update", "delete"}
Call == [pc: {"idle", "asked", "saving", "renamed"}, op: Ops, name: Names, user: User, boot: BOOLEAN, next: Lists]

Empty == [n \in Names |-> NoUser]

Accounts(list) == {n \in Names : list[n] # NoUser}

ActiveAdmins(list) == {n \in Accounts(list) : list[n].role = "admin" /\ ~list[n].disabled}

Idle == [pc |-> "idle", op |-> "create", name |-> CHOOSE n \in Names : TRUE,
         user |-> [role |-> "guest", disabled |-> FALSE], boot |-> FALSE, next |-> Empty]

(* Mutant of LastAdmin: a disabled admin counts. *)
LastAdminDisabled(next) ==
  ActiveAdmins(users) # {} /\ \A n \in Accounts(next) : next[n].role # "admin"

(* Update and Delete: a change that would leave no active admin. *)
LastAdmin(next) == ActiveAdmins(users) # {} /\ ActiveAdmins(next) = {}

Done(c) == call' = [call EXCEPT ![c] = Idle]

(* Store.mu is taken and next is what save will write. *)
Hold(c, next) ==
  /\ mu' = c
  /\ call' = [call EXCEPT ![c].pc = "saving", ![c].next = next]
  /\ UNCHANGED <<file, users, restarts>>

(* The store refuses the change. *)
Refuse(c) ==
  /\ Done(c)
  /\ UNCHANGED <<file, users, mu, restarts>>

-------------------------------------------------------------------------------

Init ==
  /\ file = Empty
  /\ users = Empty
  /\ mu = NoCall
  /\ call = [c \in Calls |-> Idle]
  /\ restarts = 0

(* handleCreateUser: accountsExist is asked first; the very first account  *)
(* is always an admin.                                                     *)
AskCreate(c, n, role) ==
  LET boot == Accounts(users) = {}
  IN /\ call[c].pc = "idle" /\ mu = NoCall
     /\ call' = [call EXCEPT ![c] =
          [Idle EXCEPT !.pc = "asked", !.op = "create", !.name = n, !.boot = boot,
                       !.user = [role |-> IF boot THEN "admin" ELSE role, disabled |-> FALSE]]]
     /\ UNCHANGED <<file, users, mu, restarts>>

(* handleUpdateUser and handleDeleteUser. *)
AskChange(c, op, n) ==
  /\ call[c].pc = "idle" /\ op # "create"
  /\ call' = [call EXCEPT ![c] = [Idle EXCEPT !.pc = "asked", !.op = op, !.name = n]]
  /\ UNCHANGED <<file, users, mu, restarts>>

(* Mutant of Turn: the store does not lock. *)
TurnUnlocked(c, op) == call[c].pc = "asked" /\ call[c].op = op

Turn(c, op) == call[c].pc = "asked" /\ call[c].op = op /\ mu = NoCall

(* Store.Create. *)
Create(c) ==
  /\ Turn(c, "create")
  /\ IF users[call[c].name] # NoUser
     THEN Refuse(c)
     ELSE Hold(c, [users EXCEPT ![call[c].name] = call[c].user])

(* Store.Update: fn lays the fields of the request over the account as it  *)
(* is now, and can turn it into any u.                                     *)
Update(c, u) ==
  LET next == [users EXCEPT ![call[c].name] = u]
  IN /\ Turn(c, "update")
     /\ IF users[call[c].name] = NoUser \/ LastAdmin(next)
        THEN Refuse(c)
        ELSE Hold(c, next)

(* Store.Delete. *)
Delete(c) ==
  LET next == [users EXCEPT ![call[c].name] = NoUser]
  IN /\ Turn(c, "delete")
     /\ IF users[call[c].name] = NoUser \/ LastAdmin(next)
        THEN Refuse(c)
        ELSE Hold(c, next)

(* Mutant of SaveFails: the list in memory was already replaced. *)
SaveFailsLate(c) ==
  /\ call[c].pc = "saving"
  /\ users' = call[c].next
  /\ mu' = NoCall
  /\ Done(c)
  /\ UNCHANGED <<file, restarts>>

(* save fails before the rename: the old file stays, and so does memory. *)
SaveFails(c) ==
  /\ call[c].pc = "saving"
  /\ mu' = NoCall
  /\ Done(c)
  /\ UNCHANGED <<file, users, restarts>>

(* save: the rename replaces users.json in one step. *)
Rename(c) ==
  /\ call[c].pc = "saving"
  /\ file' = call[c].next
  /\ call' = [call EXCEPT ![c].pc = "renamed"]
  /\ UNCHANGED <<users, mu, restarts>>

(* The list in memory follows, mu is released, the request is answered. *)
Answer(c) ==
  /\ call[c].pc = "renamed"
  /\ users' = call[c].next
  /\ mu' = NoCall
  /\ Done(c)
  /\ UNCHANGED <<file, restarts>>

(* vaultd dies anywhere, and Open reads the file. *)
Restart ==
  /\ restarts < MaxRestarts
  /\ restarts' = restarts + 1
  /\ users' = file
  /\ mu' = NoCall
  /\ call' = [c \in Calls |-> Idle]
  /\ UNCHANGED file

Next ==
  \/ \E c \in Calls :
       \/ \E n \in Names, role \in Roles : AskCreate(c, n, role)
       \/ \E n \in Names, op \in Ops : AskChange(c, op, n)
       \/ Create(c) \/ (\E u \in User : Update(c, u)) \/ Delete(c)
       \/ SaveFails(c) \/ Rename(c) \/ Answer(c)
  \/ Restart

Spec == Init /\ [][Next]_vars

-------------------------------------------------------------------------------

(* Types, and who may write holds Store.mu. *)
TypeOK ==
  /\ file \in Lists
  /\ users \in Lists
  /\ mu \in Calls \cup {NoCall}
  /\ call \in [Calls -> Call]
  /\ \A c \in Calls : call[c].pc \in {"saving", "renamed"} => mu = c
  /\ restarts \in 0 .. MaxRestarts

(* From the first account on, Vault always has an active admin, in memory  *)
(* and in users.json: although a creator may have asked long ago whether   *)
(* accounts exist, and admins may demote, disable or delete each other at  *)
(* the same time (handleCreateUser, Update, Delete).                       *)
Governed(list) == Accounts(list) = {} \/ ActiveAdmins(list) # {}

AlwaysAnAdmin == Governed(users) /\ Governed(file)

(* Memory and users.json agree, except while the call that holds the lock  *)
(* has replaced the file and not answered yet: no failed or interrupted    *)
(* save leaves them apart.                                                 *)
MemoryIsFile ==
  users = file \/ \E c \in Calls : mu = c /\ call[c].pc = "renamed" /\ file = call[c].next

(* A write to users.json changes one account: it never carries an old copy *)
(* of another one over a newer change.                                     *)
ChangesOneAccount ==
  [][\A m, n \in Names : file'[m] # file[m] /\ file'[n] # file[n] => m = n]_vars
===============================================================================
