------------------------------- MODULE FilesSync -------------------------------
(***************************************************************************)
(* Vault's accounts mirrored into SFTPGo: Sync of internal/files/sync.go,  *)
(* its calls through internal/files/client.go, and the places of           *)
(* internal/api that start it.  It extends Users: a request that changed   *)
(* an account syncs before it answers, and OnReady, or a change of drives, *)
(* syncs on its own.                                                       *)
(*                                                                         *)
(* Nothing keeps two syncs apart.  Each one copies the account list first, *)
(* asks SFTPGo for its users next, and then writes user after user, one    *)
(* call each, from what it read.                                           *)
(***************************************************************************)
EXTENDS Users, FiniteSets

CONSTANTS
  Background,  \* syncs that no request waits for (OnReady, syncFilesAsync)
  Access,      \* what each account's folders allow: "ro" or "rw"
  ListLimit,   \* the users SFTPGo lists at most (500)
  Others,      \* its users under names that are never those of an account
  MaxFaults    \* bound on calls to SFTPGo that fail

Syncs == Calls \cup Background

ASSUME SyncAssumption ==
  /\ Background \cap Calls = {} /\ NoCall \notin Background
  /\ Access \in [Names -> {"ro", "rw"}]
  /\ ListLimit \in Nat \ {0} /\ Others \in Nat /\ MaxFaults \in Nat

VARIABLES
  remote,   \* SFTPGo's users
  folder,   \* SFTPGo's folder objects are there
  sync,     \* the syncs that run
  settled,  \* history: the names the last sync has put right, if it ran alone and without
            \* a fault on the accounts of now
  faults

syncVars == <<remote, folder, sync, settled, faults>>
allVars == <<vars, syncVars>>

(* An SFTPGo user: its own, or one that carries managedTag. *)
Absent == [tag |-> "absent"]
Foreign == [tag |-> "foreign"]

Grants == {"none", "ro", "rw"}
Managed == [tag: {"managed"}, status: 0 .. 1, home: {"vault", "own"}, root: {"list", "rw"},
            folders: Grants, webWrite: BOOLEAN]

(* Desired. *)
Desired(n, u) ==
  [tag |-> "managed",
   status |-> IF u.disabled THEN 0 ELSE 1,
   home |-> IF u.role = "admin" THEN "vault" ELSE "own",
   root |-> IF u.role = "admin" THEN "rw" ELSE "list",
   folders |-> CASE u.role = "admin" -> "none"
                 [] u.role = "guest" -> "ro"
                 [] u.role = "family" -> Access[n],
   webWrite |-> u.role # "guest"]

(* A sync: off; due (its request changed an account); listing (asks for    *)
(* SFTPGo's users); folder, post, put (writes the users of todo from the   *)
(* accounts it copied, want, and the users it saw, have); removing.  clean *)
(* says that nothing else happened since it began; seen is a history of    *)
(* the names the list told the truth about.                                *)
Off == [pc |-> "off", want |-> Empty, have |-> [n \in Names |-> Absent],
        todo |-> {}, seen |-> {}, clean |-> FALSE]

Running(s) == sync[s].pc \notin {"off", "due"}
On(s) == CHOOSE n \in sync[s].todo : TRUE

SyncInit ==
  /\ Init
  /\ remote \in [Names -> {Absent, Foreign}]
  /\ folder = FALSE
  /\ sync = [s \in Syncs |-> Off]
  /\ settled = {}
  /\ faults = 0

-------------------------------------------------------------------------------

Put(s, to) == sync' = [sync EXCEPT ![s] = to]

(* Every sync that runs has company from now on. *)
Disturbed == [s \in Syncs |-> [sync[s] EXCEPT !.clean = FALSE]]

(* syncFiles: without a client (SFTPGo does not run) nothing is done; with *)
(* one the account list is copied, which waits for Store.mu.  A background *)
(* sync begins when it likes, a request's when it is due.                  *)
Skip(c) ==
  /\ sync[c].pc = "due"
  /\ Put(c, Off)
  /\ UNCHANGED <<vars, remote, folder, settled, faults>>

Begin(s) ==
  /\ sync[s].pc = (IF s \in Background THEN "off" ELSE "due") /\ mu = NoCall
  /\ sync' = [Disturbed EXCEPT ![s] =
       [Off EXCEPT !.pc = "listing", !.want = users,
                   !.clean = \A q \in Syncs : ~Running(q)]]
  /\ UNCHANGED <<vars, remote, folder, settled, faults>>

(* Where a sync goes with the names that are left: the admins of the list  *)
(* have no folders.                                                        *)
Next_(s, todo) ==
  [sync[s] EXCEPT
     !.todo = todo,
     !.pc = IF todo = {} THEN "removing"
            ELSE IF sync[s].want[CHOOSE n \in todo : TRUE].role = "admin" THEN "put" ELSE "folder"]

(* do: a call that fails twice, or whose answer is lost.  What it asked    *)
(* for has not happened; the sync is no longer clean.                      *)
Failing(s, to) ==
  /\ faults < MaxFaults
  /\ faults' = faults + 1
  /\ Put(s, [to EXCEPT !.clean = FALSE])
  /\ UNCHANGED <<vars, remote, folder, settled>>

There == {n \in Names : remote[n] # Absent}

(* limit=500: the answer is one page, and Vault asks for no second one.    *)
(* Which users are left out is the order of SFTPGo.                        *)
Pages ==
  {page \in SUBSET There :
     IF Cardinality(There) + Others <= ListLimit
     THEN page = There
     ELSE ListLimit \in Cardinality(page) .. Cardinality(page) + Others}

(* listUsers.  Without the list Sync gives up; a user that is not on the   *)
(* page is one that SFTPGo does not have, for all that Sync knows.         *)
List(s) ==
  /\ sync[s].pc = "listing"
  /\ \/ /\ \E page \in Pages :
             Put(s, [Next_(s, Accounts(sync[s].want)) EXCEPT
                       !.have = [n \in Names |-> IF n \in page THEN remote[n] ELSE Absent],
                       !.seen = {n \in Names : n \in There => n \in page}])
        /\ UNCHANGED <<vars, remote, folder, settled, faults>>
     \/ Failing(s, Off)

(* ensureFolder: it is looked for, and made in a second call. *)
EnsureFolder(s) ==
  /\ sync[s].pc = "folder"
  /\ \/ /\ Put(s, [sync[s] EXCEPT !.pc = IF folder THEN "put" ELSE "post"])
        /\ UNCHANGED <<vars, remote, folder, settled, faults>>
     \/ Failing(s, [sync[s] EXCEPT !.pc = "put"])

PostFolder(s) ==
  /\ sync[s].pc = "post"
  /\ \/ /\ folder' = TRUE
        /\ Put(s, [sync[s] EXCEPT !.pc = "put"])
        /\ UNCHANGED <<vars, remote, settled, faults>>
     \/ Failing(s, [sync[s] EXCEPT !.pc = "put"])

(* Mutant of MayWrite: who made the user is not looked at. *)
MayWriteAny(have) == TRUE

(* A user that Vault did not create is left alone. *)
MayWrite(have) == have.tag # "foreign"

(* Mutant of Written: a user that is there already is kept as it is. *)
WrittenOnce(have, now, new) == IF now = Absent THEN new ELSE now

(* putUser: POST makes a user and refuses a name that is taken, PUT        *)
(* replaces one and refuses a name that is not there.  Which of the two    *)
(* was decided by the list of before.                                      *)
Written(have, now, new) ==
  IF (have = Absent) <=> (now = Absent) THEN new ELSE now

PutUser(s) ==
  LET n == On(s)
      have == sync[s].have[n]
      to == Next_(s, sync[s].todo \ {n})
  IN /\ sync[s].pc = "put"
     /\ \/ /\ remote' = IF MayWrite(have)
                        THEN [remote EXCEPT ![n] = Written(have, @, Desired(n, sync[s].want[n]))]
                        ELSE remote
           /\ Put(s, to)
           /\ UNCHANGED <<vars, folder, settled, faults>>
        \/ Failing(s, to)

(* The users to remove: managed when the list was asked for, and not in    *)
(* the copy of the accounts.                                               *)
Surplus(s) == {n \in Names : sync[s].have[n].tag = "managed" /\ sync[s].want[n] = NoUser}

RemoveUser(s) ==
  LET rest(n) == [sync[s] EXCEPT !.have[n] = Absent]
  IN /\ sync[s].pc = "removing"
     /\ \E n \in Surplus(s) :
          \/ /\ remote' = [remote EXCEPT ![n] = Absent]
             /\ Put(s, rest(n))
             /\ UNCHANGED <<vars, folder, settled, faults>>
          \/ Failing(s, rest(n))

Finish(s) ==
  /\ sync[s].pc = "removing" /\ Surplus(s) = {}
  /\ Put(s, Off)
  /\ settled' = IF sync[s].clean THEN sync[s].seen ELSE {}
  /\ UNCHANGED <<vars, remote, folder, faults>>

(* The admin of SFTPGo makes a user of the same name by hand. *)
OtherUser(n) ==
  /\ remote[n] = Absent
  /\ faults < MaxFaults
  /\ faults' = faults + 1
  /\ remote' = [remote EXCEPT ![n] = Foreign]
  /\ UNCHANGED <<vars, folder, sync, settled>>

-------------------------------------------------------------------------------

(* The store is changed: what a running sync copied is old.  The request   *)
(* that changed it copies the list next, if SFTPGo runs.                   *)
Changed(c) ==
  /\ Answer(c)
  /\ settled' = {}
  /\ sync' = [Disturbed EXCEPT ![c] = [Off EXCEPT !.pc = "due"]]
  /\ UNCHANGED <<remote, folder, faults>>

(* Requests and the store go on; a request whose sync runs starts nothing. *)
Store(c) ==
  /\ sync[c].pc = "off"
  /\ \/ \E n \in Names, role \in Roles : AskCreate(c, n, role)
     \/ \E n \in Names, op \in Ops : AskChange(c, op, n)
     \/ Create(c) \/ (\E u \in User : Update(c, u)) \/ Delete(c)
     \/ SaveFails(c) \/ Rename(c)
  /\ UNCHANGED syncVars

(* vaultd dies: its syncs with it, SFTPGo's users stay. *)
Again ==
  /\ Restart
  /\ sync' = [s \in Syncs |-> Off]
  /\ settled' = {}
  /\ UNCHANGED <<remote, folder, faults>>

Step(s) == List(s) \/ EnsureFolder(s) \/ PostFolder(s) \/ PutUser(s) \/ RemoveUser(s) \/ Finish(s)

SyncNext ==
  \/ \E c \in Calls : Store(c) \/ Changed(c)
  \/ \E c \in Calls : Skip(c)
  \/ \E s \in Syncs : Begin(s)
  \/ \E s \in Syncs : Step(s)
  \/ \E n \in Names : OtherUser(n)
  \/ Again

SyncSpec == SyncInit /\ [][SyncNext]_allVars

-------------------------------------------------------------------------------

(* Types of what FilesSync adds. *)
SyncTypeOK ==
  /\ remote \in [Names -> Managed \cup {Absent, Foreign}]
  /\ folder \in BOOLEAN /\ settled \in SUBSET Names
  /\ faults \in 0 .. MaxFaults
  /\ sync \in [Syncs -> [pc: {"off", "due", "listing", "folder", "post", "put", "removing"}, want: Lists,
                         have: [Names -> Managed \cup {Absent, Foreign}], todo: SUBSET Names,
                         seen: SUBSET Names, clean: BOOLEAN]]

(* One sync that runs alone puts everything right that it can see,         *)
(* whatever syncs that overlapped, failed or were cut off have left in     *)
(* SFTPGo: afterwards its managed users are Vault's accounts, enabled,     *)
(* with the home and the permissions of their role, and no others.         *)
(* sync.go says that Sync makes SFTPGo's users match Vault's; with more    *)
(* users in SFTPGo than client.go lists (500) it does so only for those    *)
(* that are on the page, and for the accounts SFTPGo has no user of.  One  *)
(* that is left out keeps what it had: it is neither renewed, disabled     *)
(* nor removed.                                                            *)
LoneSyncMirrors ==
  \A n \in settled :
    \/ remote[n] = Foreign
    \/ remote[n] = IF users[n] = NoUser THEN Absent ELSE Desired(n, users[n])

(* sync.go: users Vault did not create are never touched, also when they   *)
(* appear while a sync runs.  The exception is a user that took the name   *)
(* of one of Vault's, removed by a second sync, while a first sync still   *)
(* believes that the name is its own.                                      *)
ForeignUntouched ==
  [][\A n \in Names : remote[n] = Foreign =>
       remote'[n] = Foreign \/ \E s \in Syncs : sync[s].have[n].tag = "managed" /\ ~sync[s].clean]_allVars
===============================================================================
