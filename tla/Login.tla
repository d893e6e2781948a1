--------------------------------- MODULE Login ---------------------------------
(***************************************************************************)
(* Signing in: internal/api/auth_handlers.go and the part of               *)
(* internal/api/users_handlers.go that changes a password, a role or the   *)
(* two-factor settings, on the tables of LocalAuth and Limiter.            *)
(*                                                                         *)
(* A request is a process that takes one step per critical section: every  *)
(* handler reads the account once, works on that copy while others write,  *)
(* and writes later.  A password is the number of the version that was     *)
(* set, a two-factor secret likewise (0 is none, which is a key like any   *)
(* other for totp.go), a code of the authenticator is a secret with a time *)
(* step.  Store.Get and Store.Update *)
(* are single steps here: module Users opens them.                         *)
(***************************************************************************)
EXTENDS LocalAuth, Limiter

CONSTANTS
  Users,       \* usernames
  Reqs,        \* requests that may run at the same time, one browser each
  Codes,       \* login codes that may be issued
  Owner,       \* localIdentity: who acts from this computer
  NoUser,      \* no account
  NoCookie,    \* the browser has no session cookie
  NoCode,      \* the field for the code was left empty
  MaxPw,       \* bound on the passwords an account gets
  MaxSecret,   \* bound on the secrets an account gets
  MaxClock     \* bound on time, in steps of the authenticator

Roles == {"admin", "family"}
Account == [pw: 1 .. MaxPw, role: Roles, disabled: BOOLEAN, on: BOOLEAN,
            secret: 0 .. MaxSecret, last: 0 .. (MaxClock + 1)]

AppCode == [secret: 0 .. MaxSecret, step: 0 .. (MaxClock + 1)]

Sids == 1 .. (MaxSessions + 2 * Cardinality(Reqs))

ASSUME LoginAssumption ==
  /\ IsFiniteSet(Users) /\ IsFiniteSet(Reqs) /\ Users \cap Reqs = {}
  /\ Owner \notin Users
  /\ NoUser \notin Account /\ NoCode \notin AppCode /\ NoCookie \notin Sids
  /\ MaxPw \in Nat \ {0} /\ MaxSecret \in Nat \ {0} /\ MaxClock \in Nat \ {0}

VARIABLES
  clock,
  acct,      \* the account list
  made,      \* passwords and secrets made so far
  sessions, codes,   \* Local
  state,     \* LoginLimiter.state
  cookie,    \* the session cookie of every browser
  req,       \* the requests
  used,      \* history: codes of the authenticator that signed somebody in
  confirmed, \* history: the secret a code confirmed when two-factor was enabled
  lapse,     \* history: a two-factor write was lost, repeated or built on an old read
  mixed,     \* history: the last two-factor write built on fields others had written since
  opened     \* history: sessions a login code opened, and when the last one was allowed

tables == <<sessions, codes>>
history == <<used, confirmed, lapse, mixed, opened>>
vars == <<clock, acct, made, tables, state, cookie, req, history>>

Limited == Users \cup Reqs   \* the keys "user:" and "ip:" of the limiter

OwnOps == {"visit", "change", "setup", "enable", "switchoff"}
AdminOps == {"reset", "role", "block", "unblock", "delete", "create"}

(* Where a request stands: asked next is the store, a check, the limiter,  *)
(* the tables of Local, or the answer.                                     *)
PCs == {"idle", "read", "check", "record", "clear", "open", "swap", "admit", "own", "asked", "write", "end"}

Request == [pc: PCs, op: {"login", "redeem"} \cup OwnOps \cup AdminOps, user: Users \cup {Owner}, role: Roles,
            typed: Nat, code: AppCode \cup {NoCode}, snap: Account \cup {NoUser},
            sid: Sids \cup {NoCookie}, counter: 0 .. (MaxClock + 1), raced: BOOLEAN, stale: BOOLEAN,
            crossed: BOOLEAN]

Idle == [pc |-> "idle", op |-> "visit", user |-> Owner, role |-> "admin", typed |-> 0, code |-> NoCode,
         snap |-> NoUser, sid |-> NoCookie, counter |-> 0, raced |-> FALSE, stale |-> FALSE,
         crossed |-> FALSE]

FreshSid == CHOOSE s \in Sids :
  s \notin Keys(sessions) \cup {cookie[r] : r \in Reqs} \cup {req[r].sid : r \in Reqs}

At(r, pc) == req[r].pc = pc
Op(r) == req[r].op
Mine(r) == acct[req[r].user]
Goto(r, pc) == req' = [req EXCEPT ![r].pc = pc]
Done(r) == req' = [req EXCEPT ![r] = Idle]
LimitKeys(r) == {req[r].user, r}

(* Requests that work on a copy of the account of u. *)
Copies(r, u) == req[r].user = u /\ req[r].snap # NoUser

(* A write to the password, role or state of u passes the requests that    *)
(* read the account before.                                                *)
WithRaced(f, u) == [q \in Reqs |-> IF Copies(q, u) THEN [f[q] EXCEPT !.raced = TRUE] ELSE f[q]]

(* So does a new secret, two-factor switched on or off, and an account     *)
(* that is removed or made anew, by r.                                     *)
WithCrossed(f, r) ==
  [q \in Reqs |-> IF q # r /\ Copies(q, req[r].user) THEN [f[q] EXCEPT !.crossed = TRUE] ELSE f[q]]

(* The same for any write to the two-factor fields, the last step included. *)
WithStale(f, r) ==
  [q \in Reqs |-> IF q # r /\ Copies(q, req[r].user) THEN [f[q] EXCEPT !.stale = TRUE] ELSE f[q]]

(* Mutant of Accepts: the last code works again. *)
AcceptsAgain(code, secret, now, last) ==
  /\ code # NoCode /\ code.secret = secret
  /\ code.step \in (now - 1) .. (now + 1)
  /\ code.step >= last

(* VerifyTOTP: the step of the code, if it is near enough and after last.  *)
(* An empty secret is an empty key, and codes of it are right.             *)
Accepts(code, secret, now, last) ==
  /\ code # NoCode /\ code.secret = secret
  /\ code.step \in (now - 1) .. (now + 1)
  /\ code.step > last

-------------------------------------------------------------------------------

(* vaultd starts with the accounts of users.json, some of which may have   *)
(* two-factor sign-in already; everything else begins empty.               *)
Init ==
  /\ clock = 1
  /\ \E second \in SUBSET Users :
       LET secret == [u \in Users |-> IF u \in second THEN 1 ELSE 0]
       IN /\ acct = [u \in Users |-> [pw |-> 1, role |-> "family", disabled |-> FALSE,
                                       on |-> u \in second, secret |-> secret[u], last |-> 0]]
          /\ made = [u \in Users |-> [pw |-> 1, secret |-> secret[u]]]
          /\ confirmed = secret
  /\ sessions = {} /\ codes = {}
  /\ state = [k \in Limited |-> NoEntry]
  /\ cookie = [r \in Reqs |-> NoCookie]
  /\ req = [r \in Reqs |-> Idle]
  /\ used = [u \in Users |-> {}]
  /\ lapse = [u \in Users |-> FALSE]
  /\ mixed = [u \in Users |-> FALSE]
  /\ opened = [c \in Codes |-> [issued |-> 0, at |-> 0, count |-> 0]]

-------------------------------------------------------------------------------
(* handlePasswordLogin.  The limiter is asked first, in a step of its own. *)

LoginAsk(r, u, typed, code) ==
  /\ At(r, "idle")
  /\ ~Blocked(state, {u, r}, clock)
  /\ req' = [req EXCEPT ![r] = [Idle EXCEPT !.pc = "read", !.op = "login", !.user = u,
                                            !.typed = typed, !.code = code]]
  /\ UNCHANGED <<clock, acct, made, tables, state, cookie, history>>

LoginRead(r) ==
  /\ At(r, "read")
  /\ IF Mine(r) = NoUser
     THEN Done(r) /\ state' = Fail(state, LimitKeys(r), clock)
     ELSE req' = [req EXCEPT ![r].pc = "check", ![r].snap = Mine(r)] /\ UNCHANGED state
  /\ UNCHANGED <<clock, acct, made, tables, cookie, history>>

(* The password and the code are checked against the copy; a code that is  *)
(* missing is asked for and not counted as a failure.                      *)
LoginCheck(r) ==
  LET u == req[r].snap
      password == req[r].typed = u.pw /\ ~u.disabled
      second == u.on => Accepts(req[r].code, u.secret, clock, u.last)
  IN /\ At(r, "check") /\ Op(r) = "login"
     /\ \/ /\ password /\ second
           /\ req' = [req EXCEPT ![r].pc = IF u.on THEN "record" ELSE "clear",
                                 ![r].counter = IF u.on THEN req[r].code.step ELSE 0]
           /\ UNCHANGED state
        \/ /\ password /\ ~second /\ req[r].code = NoCode
           /\ Done(r)
           /\ UNCHANGED state
        \/ /\ ~password \/ (~second /\ req[r].code # NoCode)
           /\ Done(r)
           /\ state' = Fail(state, LimitKeys(r), clock)
     /\ UNCHANGED <<clock, acct, made, tables, cookie, history>>

(* The accepted step is written over whatever the account holds by now; if *)
(* that fails, the failure is logged and the sign-in goes on.              *)
LoginRecord(r) ==
  LET u == req[r].user
  IN /\ At(r, "record")
     /\ used' = [used EXCEPT ![u] = @ \cup {req[r].code}]
     /\ \/ /\ Mine(r) # NoUser
           /\ acct' = [acct EXCEPT ![u].last = req[r].counter]
           /\ req' = [WithStale(req, r) EXCEPT ![r].pc = "clear"]
           /\ lapse' = [lapse EXCEPT ![u] = @ \/ req[r].stale]
        \/ /\ Goto(r, "clear")
           /\ lapse' = [lapse EXCEPT ![u] = TRUE]
           /\ UNCHANGED acct
     /\ UNCHANGED <<clock, made, tables, state, cookie, confirmed, mixed, opened>>

LoginClear(r) ==
  /\ At(r, "clear")
  /\ state' = Succeed(state, LimitKeys(r))
  /\ Goto(r, "open")
  /\ UNCHANGED <<clock, acct, made, tables, cookie, history>>

(* The identity a session is opened for: of the copy, or the owner. *)
Entrance(r) ==
  IF Op(r) = "redeem"
  THEN [key |-> FreshSid, exp |-> 0, user |-> Owner, role |-> "admin", pw |-> 0, raced |-> FALSE]
  ELSE [key |-> FreshSid, exp |-> 0, user |-> req[r].user, role |-> req[r].snap.role,
        pw |-> req[r].snap.pw, raced |-> req[r].raced]

(* signIn and Redeem: NewSession, which sweeps both tables. *)
Open(r) ==
  /\ At(r, "open")
  /\ sessions' \in NewSession(sessions, Entrance(r), clock)
  /\ codes' = Kept(codes, clock)
  /\ req' = [req EXCEPT ![r].pc = "swap", ![r].sid = FreshSid]
  /\ UNCHANGED <<clock, acct, made, state, cookie, history>>

(* signIn ends the session the browser came with (handleLogin does not),   *)
(* and the answer brings the new cookie.                                   *)
Swap(r) ==
  /\ At(r, "swap")
  /\ sessions' = IF Op(r) = "redeem" THEN sessions ELSE EndSession(sessions, cookie[r])
  /\ cookie' = [cookie EXCEPT ![r] = req[r].sid]
  /\ Done(r)
  /\ UNCHANGED <<clock, acct, made, codes, state, history>>

-------------------------------------------------------------------------------
(* handleLocalLogin and handleLogin. *)

LocalLogin(c) ==
  /\ opened[c].issued = 0
  /\ CodeAllowed(codes, clock)
  /\ codes' = NewCode(codes, c, clock)
  /\ sessions' = Kept(sessions, clock)
  /\ opened' = [opened EXCEPT ![c].issued = clock]
  /\ UNCHANGED <<clock, acct, made, state, cookie, req, used, confirmed, lapse, mixed>>

(* Mutant of RedeemCode: the code stays, so that a reload works. *)
RedeemCodeKept(r, c) ==
  /\ At(r, "idle")
  /\ Redeemable(codes, c, clock)
  /\ req' = [req EXCEPT ![r] = [Idle EXCEPT !.pc = "open", !.op = "redeem"]]
  /\ opened' = [opened EXCEPT ![c].at = clock, ![c].count = @ + 1]
  /\ UNCHANGED <<clock, acct, made, sessions, codes, state, cookie, used, confirmed, lapse, mixed>>

RedeemCode(r, c) ==
  /\ At(r, "idle")
  /\ c \in Keys(codes)
  /\ codes' = Taken(codes, c)
  /\ IF Redeemable(codes, c, clock)
     THEN /\ req' = [req EXCEPT ![r] = [Idle EXCEPT !.pc = "open", !.op = "redeem"]]
          /\ opened' = [opened EXCEPT ![c].at = clock, ![c].count = @ + 1]
     ELSE UNCHANGED <<req, opened>>
  /\ UNCHANGED <<clock, acct, made, sessions, state, cookie, used, confirmed, lapse, mixed>>

-------------------------------------------------------------------------------
(* gate and identity: the session is looked up, then the account is read   *)
(* and compared with it.                                                   *)

Enter(r, op, typed, code) ==
  /\ At(r, "idle")
  /\ \E e \in Session(sessions, cookie[r], clock) :
       /\ e.user # Owner
       /\ req' = [req EXCEPT ![r] = [Idle EXCEPT !.pc = "admit", !.op = op, !.user = e.user,
                                                 !.role = e.role, !.typed = typed, !.code = code]]
  /\ UNCHANGED <<clock, acct, made, tables, state, cookie, history>>

Admit(r) ==
  /\ At(r, "admit")
  /\ IF Mine(r) # NoUser /\ ~Mine(r).disabled /\ Mine(r).role = req[r].role
     THEN /\ IF Op(r) = "visit" THEN Done(r) ELSE Goto(r, "own")
          /\ UNCHANGED sessions
     ELSE /\ sessions' = EndSession(sessions, cookie[r])
          /\ Done(r)
  /\ UNCHANGED <<clock, acct, made, codes, state, cookie, history>>

(* accountUser: the account is read again; this copy is the one checked. *)
OwnRead(r) ==
  /\ At(r, "own")
  /\ IF Mine(r) = NoUser
     THEN Done(r)
     ELSE req' = [req EXCEPT ![r].pc = IF Op(r) = "change" THEN "asked" ELSE "check", ![r].snap = Mine(r)]
  /\ UNCHANGED <<clock, acct, made, tables, state, cookie, history>>

(* handleChangePassword asks the limiter; handleTOTPDisable does not. *)
ChangeAsk(r) ==
  /\ At(r, "asked")
  /\ IF Blocked(state, {req[r].user}, clock) THEN Done(r) ELSE Goto(r, "check")
  /\ UNCHANGED <<clock, acct, made, tables, state, cookie, history>>

(* handleChangePassword, handleTOTPDisable: the current password. *)
PasswordCheck(r) ==
  /\ At(r, "check") /\ Op(r) \in {"change", "switchoff"}
  /\ IF req[r].typed = req[r].snap.pw
     THEN Goto(r, "write") /\ UNCHANGED state
     ELSE Done(r) /\ state' = Fail(state, {req[r].user}, clock)
  /\ UNCHANGED <<clock, acct, made, tables, cookie, history>>

(* Mutant of SetupAllowed: it may be set up again while it is on. *)
SetupAllowedAgain(snap) == TRUE

SetupAllowed(snap) == ~snap.on

(* handleTOTPSetup and handleTOTPEnable. *)
SecondCheck(r) ==
  LET ok == IF Op(r) = "setup" THEN SetupAllowed(req[r].snap)
            ELSE req[r].snap.secret # 0 /\ Accepts(req[r].code, req[r].snap.secret, clock, 0)
  IN /\ At(r, "check") /\ Op(r) \in {"setup", "enable"}
     /\ IF ok
        THEN req' = [req EXCEPT ![r].pc = "write",
                                ![r].counter = IF Op(r) = "enable" THEN req[r].code.step ELSE 0]
        ELSE Done(r)
     /\ UNCHANGED <<clock, acct, made, tables, state, cookie, history>>

(* The two-factor writes: fields over the account as it is now. *)
SecondWrite(r) ==
  LET u == req[r].user
      secret == made[u].secret + 1
  IN /\ At(r, "write") /\ Op(r) \in {"setup", "enable", "switchoff"}
     /\ Mine(r) # NoUser
     /\ \/ /\ Op(r) = "setup" /\ secret <= MaxSecret
           /\ acct' = [acct EXCEPT ![u].secret = secret, ![u].last = 0]
           /\ made' = [made EXCEPT ![u].secret = secret]
           /\ UNCHANGED confirmed
        \/ /\ Op(r) = "enable"
           /\ acct' = [acct EXCEPT ![u].on = TRUE, ![u].last = req[r].counter]
           /\ confirmed' = [confirmed EXCEPT ![u] = req[r].snap.secret]
           /\ UNCHANGED made
        \/ /\ Op(r) = "switchoff"
           /\ acct' = [acct EXCEPT ![u].on = FALSE, ![u].secret = 0, ![u].last = 0]
           /\ UNCHANGED <<made, confirmed>>
     /\ lapse' = [lapse EXCEPT ![u] = @ \/ req[r].stale \/ (Op(r) = "enable" /\ acct[u].on)]
     /\ mixed' = [mixed EXCEPT ![u] = req[r].crossed]
     /\ req' = [WithCrossed(WithStale(req, r), r) EXCEPT ![r] = Idle]
     /\ UNCHANGED <<clock, tables, state, cookie, used, opened>>

(* Store.Update finds no account, would lose the last admin or fails.  *)
Refused(r) ==
  /\ At(r, "write")
  /\ Done(r)
  /\ UNCHANGED <<clock, acct, made, tables, state, cookie, history>>

-------------------------------------------------------------------------------
(* handleResetPassword, handleUpdateUser, handleDeleteUser and             *)
(* handleCreateUser, asked for by the owner; handleChangePassword joins    *)
(* them once the current password is right.  It does not ask whether the   *)
(* account was disabled since the request was let in: the session it opens *)
(* for a disabled account counts as raced.                                 *)

AdminAsk(r, op, u) ==
  /\ At(r, "idle")
  /\ req' = [req EXCEPT ![r] = [Idle EXCEPT !.pc = "write", !.op = op, !.user = u]]
  /\ UNCHANGED <<clock, acct, made, tables, state, cookie, history>>

Changed(r) ==
  LET u == acct[req[r].user]
      pw == made[req[r].user].pw + 1
      other(role) == CHOOSE x \in Roles : x # role
  IN CASE Op(r) \in {"reset", "change"} -> [u EXCEPT !.pw = pw]
       [] Op(r) = "role" -> [u EXCEPT !.role = other(@)]
       [] Op(r) = "block" -> [u EXCEPT !.disabled = TRUE]
       [] Op(r) = "unblock" -> [u EXCEPT !.disabled = FALSE]
       [] Op(r) = "delete" -> NoUser
       [] Op(r) = "create" -> [pw |-> pw, role |-> "family", disabled |-> FALSE,
                               on |-> FALSE, secret |-> 0, last |-> 0]

NewPassword(op) == op \in {"reset", "change", "create"}

AccountWrite(r) ==
  LET u == req[r].user
      op == Op(r)
      passed == IF op \in {"delete", "create"} THEN WithCrossed(req, r) ELSE req
  IN /\ At(r, "write") /\ op \in AdminOps \cup {"change"}
     /\ (op = "create") <=> (Mine(r) = NoUser)
     /\ NewPassword(op) => made[u].pw < MaxPw
     /\ acct' = [acct EXCEPT ![u] = Changed(r)]
     /\ made' = IF NewPassword(op) THEN [made EXCEPT ![u].pw = @ + 1] ELSE made
     /\ req' = [WithRaced(passed, u) EXCEPT
          ![r] = IF op \in {"create", "unblock"} THEN Idle
                 ELSE [req[r] EXCEPT !.pc = "end", !.raced = (op = "change" /\ Mine(r).disabled),
                                     !.snap = IF op = "change" THEN Changed(r) ELSE NoUser]]
     /\ lapse' = IF op \in {"delete", "create"} THEN [lapse EXCEPT ![u] = TRUE] ELSE lapse
     /\ UNCHANGED <<clock, tables, state, cookie, used, confirmed, mixed, opened>>

(* EndSessionsFor, after the write; the one who changed the own password   *)
(* is signed in again.                                                     *)
EndAll(r) ==
  /\ At(r, "end")
  /\ sessions' = EndSessionsFor(sessions, req[r].user)
  /\ IF Op(r) = "change" THEN Goto(r, "open") ELSE Done(r)
  /\ UNCHANGED <<clock, acct, made, codes, state, cookie, history>>

Logout(r) ==
  /\ At(r, "idle") /\ cookie[r] # NoCookie
  /\ sessions' = EndSession(sessions, cookie[r])
  /\ cookie' = [cookie EXCEPT ![r] = NoCookie]
  /\ UNCHANGED <<clock, acct, made, codes, state, req, history>>

Tick ==
  /\ clock < MaxClock
  /\ clock' = clock + 1
  /\ UNCHANGED <<acct, made, tables, state, cookie, req, history>>

(* vaultd is started again: what is only in memory is gone. *)
Restart ==
  /\ sessions' = {} /\ codes' = {}
  /\ state' = [k \in Limited |-> NoEntry]
  /\ req' = [r \in Reqs |-> Idle]
  /\ UNCHANGED <<clock, acct, made, cookie, history>>

(* What people type: any password they ever had, and the code the phone    *)
(* shows or showed a moment ago, of any secret it was ever given, or of    *)
(* none where none is asked for.                                           *)
Typed(u) == 1 .. made[u].pw
Empty(u) == acct[u] # NoUser /\ acct[u].on /\ acct[u].secret = 0
Shown(u) ==
  {NoCode} \cup {c \in AppCode : /\ c.secret <= made[u].secret /\ c.step \in {clock - 1, clock}
                                /\ (c.secret > 0 \/ Empty(u))}

Go(r) ==
  \/ LoginRead(r) \/ LoginCheck(r) \/ LoginRecord(r) \/ LoginClear(r) \/ Open(r) \/ Swap(r)
  \/ Admit(r) \/ OwnRead(r) \/ ChangeAsk(r) \/ PasswordCheck(r) \/ SecondCheck(r) \/ SecondWrite(r)
  \/ Refused(r) \/ AccountWrite(r) \/ EndAll(r)

Start(r, op) ==
  \/ op = "login" /\ \E u \in Users : \E p \in Typed(u), c \in Shown(u) : LoginAsk(r, u, p, c)
  \/ op \in {"visit", "setup"} /\ Enter(r, op, 0, NoCode)
  \/ op \in {"change", "switchoff"} /\ \E u \in Users : \E p \in Typed(u) : Enter(r, op, p, NoCode)
  \/ op = "enable" /\ \E u \in Users : \E c \in Shown(u) : Enter(r, op, 0, c)
  \/ op \in AdminOps /\ \E u \in Users : AdminAsk(r, op, u)
  \/ op = "redeem" /\ \E c \in Codes : RedeemCode(r, c)
  \/ op = "logout" /\ Logout(r)

Next ==
  \/ \E r \in Reqs : Go(r) \/ \E op \in {"login", "redeem", "logout"} \cup OwnOps \cup AdminOps : Start(r, op)
  \/ \E c \in Codes : LocalLogin(c)
  \/ Tick \/ Restart

Spec == Init /\ [][Next]_vars

-------------------------------------------------------------------------------

(* Types. *)
TypeOK ==
  /\ clock \in 1 .. MaxClock
  /\ acct \in [Users -> Account \cup {NoUser}]
  /\ made \in [Users -> [pw: 1 .. MaxPw, secret: 0 .. MaxSecret]]
  /\ sessions \subseteq [key: Sids, exp: Nat, user: Users \cup {Owner}, role: Roles,
                         pw: 0 .. MaxPw, raced: BOOLEAN]
  /\ codes \subseteq [key: Codes, exp: Nat]
  /\ state \in [Limited -> Entry]
  /\ cookie \in [Reqs -> Sids \cup {NoCookie}]
  /\ req \in [Reqs -> Request]
  /\ used \in [Users -> SUBSET AppCode]
  /\ confirmed \in [Users -> 0 .. MaxSecret]
  /\ lapse \in [Users -> BOOLEAN] /\ mixed \in [Users -> BOOLEAN]
  /\ opened \in [Codes -> [issued: 0 .. MaxClock, at: 0 .. MaxClock, count: Nat]]

(* A session belongs to the account as it is: it exists, it is enabled, it *)
(* has the password the session was opened with, and the role.  The        *)
(* exceptions are the moment between the change and EndSessionsFor, a      *)
(* session whose sign-in read the account before the change and opened the *)
(* session after it (signIn uses the copy), and one of somebody who        *)
(* changed the own password just when the account was disabled.            *)
SessionsFollowAccount ==
  \A e \in sessions :
    \/ e.user = Owner \/ e.raced
    \/ /\ acct[e.user] # NoUser
       /\ ~acct[e.user].disabled
       /\ acct[e.user].pw = e.pw
       /\ acct[e.user].role = e.role
    \/ \E r \in Reqs : At(r, "end") /\ req[r].user = e.user

(* A login code opens one session at most, and none after its time, even   *)
(* when two browsers open the same address at once (Redeem).               *)
CodeWorksOnce ==
  \A c \in Codes : opened[c].count <= 1 /\ opened[c].at <= opened[c].issued + CodeTTL

(* A code of the authenticator signs in once, however long it stays valid  *)
(* on the phone's display: unless the counter of the account was lost,     *)
(* written from an old copy or set back by enabling again.                 *)
StepWorksOnce ==
  [][\A r \in Reqs : At(r, "record") /\ req'[r].pc = "clear" =>
       req[r].code \notin used[req[r].user] \/ lapse'[req[r].user]]_vars

(* Two-factor sign-in that is on asks for the secret a code confirmed, so  *)
(* nobody is locked out by a secret no phone has.  The exception lasts as  *)
(* long as the last two-factor write is one that was overtaken: its        *)
(* request had read the account, and before it wrote, another request set  *)
(* up, enabled or switched off two-factor, or the account was removed or   *)
(* made anew.  handleTOTPSetup, handleTOTPEnable and handleTOTPDisable     *)
(* write over the account without a second look, so an enable that races a *)
(* switch-off turns two-factor on with no secret, and a set-up that races  *)
(* an enable leaves it on with one that no code confirmed.  The next       *)
(* two-factor write that nobody overtakes ends the exception.              *)
SecretIsConfirmed ==
  \A u \in Users :
    acct[u] # NoUser /\ acct[u].on => acct[u].secret = confirmed[u] \/ mixed[u]

(* vaultd stopped: nothing that is only in memory is left. *)
Stopped ==
  /\ sessions' = {} /\ codes' = {}
  /\ state' = [k \in Limited |-> NoEntry] /\ \A r \in Reqs : req'[r] = Idle

(* Nobody is signed out without a reason: a session goes because its time  *)
(* is over, because the account changed or was left, because its own       *)
(* browser signs out or in again, because vaultd stopped, or at the limit  *)
(* when no session expires before it.  The session that is opened at the   *)
(* limit is there afterwards.                                              *)
SignedOutForAReason ==
  [][/\ \A r \in Reqs : req[r].pc = "open" /\ req'[r].pc = "swap" =>
          \E e \in sessions' : e.key = req'[r].sid
     /\ \A e \in sessions \ sessions' :
       \/ clock > e.exp
       \/ \E r \in Reqs : req[r].pc = "end" /\ req[r].user = e.user
       \/ \E r \in Reqs : cookie[r] = e.key /\ (req[r].pc \in {"admit", "swap"} \/ cookie'[r] = NoCookie)
       \/ Stopped
       \/ Cardinality(sessions) >= MaxSessions /\ \A d \in sessions : clock <= d.exp => e.exp <= d.exp]_vars

Doubles == \A n \in 0 .. 200 : Lockout(FreeAttempts + n) = IF n < 4 THEN Shift(baseLockout, n) ELSE maxLockout

(* A key is locked as long as limiter.go's own description says, for any   *)
(* count of failures that the shift of 64 bits can meet (one minute,       *)
(* doubling, and 15 minutes from then on), and a lock is never shorter     *)
(* than its failures ask for, whoever else used the limiter meanwhile.     *)
LockoutDoubles ==
  /\ Doubles
  /\ \A k \in Limited : state[k].failures >= FreeAttempts =>
       state[k].until = state[k].last + LockTicks(state[k].failures)
==============================================================================
