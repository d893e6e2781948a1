------------------------------ MODULE LoginProofs ------------------------------
(***************************************************************************)
(* Proofs about Login for any accounts, browsers, login codes and limits.  *)
(*                                                                         *)
(* Every property speaks about the account as it is, and every request     *)
(* works on a copy that was read before.  The invariant therefore says     *)
(* what is still known of a copy: Place, what the request found out before *)
(* it came where it stands; Current, that a copy no write has passed       *)
(* agrees with the account.  Behind says of the codes of the authenticator *)
(* that signed somebody in that the account remembers a step as late as    *)
(* theirs, or has another secret by now, which no used code can have.      *)
(***************************************************************************)
EXTENDS Login, FiniteSetTheorems, TLAPS

(* What a request at its place knows. *)
Place(q) ==
  /\ q.pc \in {"read", "record", "clear"} => q.op = "login"
  /\ q.pc = "check" => q.op \in {"login"} \cup (OwnOps \ {"visit"})
  /\ q.pc = "open" => q.op \in {"login", "redeem", "change"} /\ q.sid = NoCookie
  /\ q.pc \in {"admit", "own"} => q.op \in OwnOps
  /\ q.pc = "own" => q.op # "visit"
  /\ q.pc = "asked" => q.op = "change"
  /\ q.pc = "write" => q.op \in AdminOps \cup (OwnOps \ {"visit"})
  /\ q.pc = "end" => q.op \in AdminOps \cup {"change"}
  /\ q.pc \notin {"idle", "open", "swap"} \/ (q.pc = "open" /\ q.op # "redeem") => q.user \in Users
  /\ q.pc # "idle" /\ q.pc # "swap" => q.sid = NoCookie
  /\ q.pc \in {"check", "record", "clear", "asked"} => q.snap # NoUser
  /\ q.pc \in {"open", "write", "end"} /\ q.op \in {"login"} \cup OwnOps => q.snap # NoUser

(* What it found out about the copy it works on. *)
Checked(q) ==
  /\ q.snap # NoUser => q.user \in Users
  /\ q.pc \in {"record", "clear"} \/ (q.pc = "open" /\ q.op = "login") => ~q.snap.disabled
  /\ q.pc \in {"end", "open"} /\ q.op = "change" => q.raced \/ ~q.snap.disabled
  /\ q.pc = "record" => /\ q.snap.on /\ q.code # NoCode /\ q.code.secret = q.snap.secret
                        /\ q.code.step > q.snap.last /\ q.counter = q.code.step
  /\ q.pc = "write" /\ q.op = "setup" => ~q.snap.on
  /\ q.pc = "write" /\ q.op = "enable" => q.snap.secret > 0

(* What the copy is still worth, next to the account, the secrets made and *)
(* a lapse there was.  The two-factor fields of a copy nobody crossed are  *)
(* those of the account, lapse or not.                                     *)
Worth(q, account, secret, lost) ==
  q.snap # NoUser =>
    /\ ~q.raced => /\ account # NoUser
                   /\ account.pw = q.snap.pw /\ account.role = q.snap.role
                   /\ account.disabled = q.snap.disabled
    /\ ~q.stale /\ ~lost => /\ account.on = q.snap.on
                            /\ account.secret = q.snap.secret
                            /\ q.op = "login" /\ q.pc \in {"check", "record"} => account.last = q.snap.last
    /\ ~q.crossed => account.on = q.snap.on /\ account.secret = q.snap.secret
    /\ q.snap.secret <= secret

Current(q) == Worth(q, acct[q.user], made[q.user].secret, lapse[q.user])

Copied == \A r \in Reqs : Place(req[r]) /\ Checked(req[r]) /\ Current(req[r])

(* Secrets are handed out in order, and two-factor is on without one only  *)
(* after a lapse.                                                          *)
Secrets == \A u \in Users :
  /\ ~lapse[u] => acct[u] # NoUser /\ (acct[u].on => acct[u].secret > 0)
  /\ acct[u] # NoUser => acct[u].secret <= made[u].secret

Behind == \A u \in Users : \A c \in used[u] :
  /\ c.secret <= made[u].secret
  /\ ~lapse[u] => c.secret > 0
  /\ ~lapse[u] /\ acct[u].secret = c.secret => acct[u].on /\ c.step <= acct[u].last

(* A code in the table was issued once and not used; its time is known. *)
Issued ==
  /\ \A e \in codes : /\ opened[e.key].issued # 0 /\ opened[e.key].count = 0
                      /\ e.exp = opened[e.key].issued + CodeTTL
  /\ \A c \in Codes : opened[c].issued = 0 => opened[c].count = 0

Locked == \A k \in Limited : state[k].failures >= FreeAttempts =>
            state[k].until = state[k].last + LockTicks(state[k].failures)

Few == IsFiniteSet(sessions) /\ Cardinality(sessions) <= MaxSessions

IInv == TypeOK /\ Copied /\ Secrets /\ Behind /\ Issued /\ Locked /\ Few
        /\ SessionsFollowAccount /\ CodeWorksOnce /\ SecretIsConfirmed

LEMMA Limits ==
  /\ CodeTTL \in Nat /\ SessionTTL \in Nat /\ MaxCodes \in Nat /\ MaxSessions \in Nat /\ MaxSessions > 0
  /\ FreeAttempts \in Nat /\ FreeAttempts > 0 /\ Minute \in Nat /\ IdleAfter \in Nat /\ MaxFailures \in Nat
  /\ MaxPw \in Nat /\ MaxPw > 0 /\ MaxSecret \in Nat /\ MaxSecret > 0 /\ MaxClock \in Nat /\ MaxClock > 0
  /\ IsFiniteSet(Reqs) /\ Cardinality(Reqs) \in Nat
BY LocalAuthAssumption, LimiterAssumption, LoginAssumption, FS_CardinalityType
   DEF LocalAuthAssumption, LimiterAssumption, LoginAssumption

(* The answers that stand for nothing are not values. *)
LEMMA Nothing ==
  /\ \A a \in Account : a # NoUser
  /\ \A c \in AppCode : c # NoCode
  /\ \A s \in Sids : s # NoCookie
BY LoginAssumption DEF LoginAssumption

LEMMA IdleType == Idle \in Request /\ Idle.pc = "idle" /\ Idle.snap = NoUser /\ Idle.sid = NoCookie
BY Limits DEF Idle, Request, PCs, OwnOps, Roles

-------------------------------------------------------------------------------
(* The limiter. *)

LEMMA TicksType ==
  ASSUME NEW n
  PROVE  LockTicks(n) \in Nat
BY Limits DEF LockTicks

(* The limiter's table, with every lock as long as its failures make it. *)
RightTable(st) ==
  /\ st \in [Limited -> Entry]
  /\ \A k \in Limited : st[k].failures >= FreeAttempts => st[k].until = st[k].last + LockTicks(st[k].failures)

(* What the limiter does to its table, for any table and keys. *)
LEMMA LimiterMoves ==
  ASSUME NEW st, RightTable(st), NEW keys, NEW now \in Nat
  PROVE  RightTable(Fail(st, keys, now)) /\ RightTable(Succeed(st, keys))
<1> DEFINE swept(k) == IF st[k].failures > 0 /\ now - st[k].last > IdleAfter THEN NoEntry ELSE st[k]
           n(k) == IF swept(k).failures < MaxFailures THEN swept(k).failures + 1 ELSE MaxFailures
           failed(k) == [failures |-> n(k), last |-> now,
                         until |-> IF n(k) >= FreeAttempts THEN now + LockTicks(n(k)) ELSE swept(k).until]
           Right(e) == e \in Entry /\ (e.failures >= FreeAttempts => e.until = e.last + LockTicks(e.failures))
<1>1. Right(NoEntry)  BY Limits DEF NoEntry, Entry
<1>2. \A k \in Limited : Right(st[k])  BY DEF RightTable
<1>3. \A k \in Limited : Right(swept(k))  BY <1>1, <1>2
<1>4. ASSUME NEW k \in Limited PROVE Right(failed(k))
  <2> DEFINE e == swept(k)  m == n(k)
  <2>1. e.failures \in 0 .. MaxFailures /\ e.until \in Nat  BY <1>3 DEF Entry
  <2>2. m \in 0 .. MaxFailures  BY <2>1, Limits
  <2> HIDE DEF m, e
  <2>3. LockTicks(m) \in Nat  BY TicksType
  <2>4. [failures |-> m, last |-> now, until |-> IF m >= FreeAttempts THEN now + LockTicks(m) ELSE e.until]
          \in Entry
    BY <2>1, <2>2, <2>3 DEF Entry
  <2>5. QED  BY <2>4 DEF m, e
<1> HIDE DEF swept, n, failed
<1>5. Fail(st, keys, now) = [k \in Limited |-> IF k \notin keys THEN swept(k) ELSE failed(k)]
  BY DEF Fail, swept, n, failed, RightTable
<1>6. Succeed(st, keys) = [k \in Limited |-> IF k \in keys THEN NoEntry ELSE st[k]]
  BY DEF Succeed, RightTable
<1>7. \A k \in Limited : /\ Right(IF k \notin keys THEN swept(k) ELSE failed(k))
                         /\ Right(IF k \in keys THEN NoEntry ELSE st[k])
  BY <1>1, <1>2, <1>3, <1>4
<1>8. QED  BY <1>5, <1>6, <1>7 DEF RightTable

LEMMA LockoutIs ==
  ASSUME NEW k, NEW d, d = Shift(baseLockout, k - FreeAttempts)
  PROVE  Lockout(k) = IF Longer(d, maxLockout) \/ Negative(d) \/ d = {} THEN maxLockout ELSE d
BY DEF Lockout

(* A lock starts with one minute, doubles three times and is 15 minutes    *)
(* from then on, for every number of failures: a shift that overflows the  *)
(* 64 bits, or shifts everything out of them, never gives a short lock,    *)
(* because what is left is either the sign or longer than 15 minutes       *)
(* (limiter.go, Fail).                                                     *)
THEOREM EveryLockout ==
  \A n \in Nat : Lockout(FreeAttempts + n) = IF n < 4 THEN Shift(baseLockout, n) ELSE maxLockout
<1> SUFFICES ASSUME NEW n \in Nat
             PROVE  Lockout(FreeAttempts + n) = IF n < 4 THEN Shift(baseLockout, n) ELSE maxLockout
  OBVIOUS
<1> DEFINE d == Shift(baseLockout, n)
<1>1. Lockout(FreeAttempts + n) = IF Longer(d, maxLockout) \/ Negative(d) \/ d = {} THEN maxLockout ELSE d
  <2>1. PICK k \in Nat : k = FreeAttempts + n  BY Limits
  <2>2. k - FreeAttempts = n  BY <2>1, Limits
  <2>3. d = Shift(baseLockout, k - FreeAttempts)  BY <2>2
  <2> HIDE DEF d
  <2>4. Lockout(k) = IF Longer(d, maxLockout) \/ Negative(d) \/ d = {} THEN maxLockout ELSE d
    BY <2>3, LockoutIs
  <2>5. QED  BY <2>1, <2>4
<1>2. \A b : b \in d <=> b \in 0 .. 63 /\ \E a \in baseLockout : b = a + n
  BY DEF Shift, Sign
<1>3. baseLockout \subseteq 11 .. 35 /\ 11 \in baseLockout /\ 35 \in baseLockout
  BY DEF baseLockout
<1>4. maxLockout \subseteq 11 .. 39 /\ 39 \in maxLockout
  BY DEF maxLockout
<1>5. \A b \in d : b \in 11 + n .. 35 + n /\ b <= 63  BY <1>2, <1>3
<1>6. ASSUME NEW b \in d, b >= 40, ~Negative(d) PROVE Longer(d, maxLockout)
  <2>1. b \notin maxLockout /\ \A c \in maxLockout : c < b  BY <1>4, <1>5, <1>6
  <2>2. QED  BY <1>6, <2>1 DEF Longer
<1>7. CASE n < 4
  <2>1. 11 + n \in d  BY <1>2, <1>3, <1>7
  <2>2. ~Negative(d)  BY <1>5, <1>7 DEF Negative, Sign
  <2>3. 39 \in maxLockout \ d  BY <1>4, <1>5, <1>7
  <2>4. \A b \in d : ~(39 < b)  BY <1>5, <1>7
  <2>5. ~Longer(d, maxLockout)  BY <2>3, <2>4 DEF Longer
  <2>6. QED  BY <1>1, <1>7, <2>1, <2>2, <2>5
<1>8. CASE n = 4
  <2>1. d = {15, 16, 18, 20, 21, 22, 26, 31, 32, 33, 34, 35, 36, 38, 39}
    <3>1. \A b \in 0 .. 63 : (\E a \in baseLockout : b = a + 4)
            <=> b \in {15, 16, 18, 20, 21, 22, 26, 31, 32, 33, 34, 35, 36, 38, 39}
      BY DEF baseLockout
    <3>2. {15, 16, 18, 20, 21, 22, 26, 31, 32, 33, 34, 35, 36, 38, 39} \subseteq 0 .. 63  OBVIOUS
    <3>3. QED  BY <1>2, <1>8, <3>1, <3>2
  <2> HIDE DEF d
  <2>2. 35 \in d \ maxLockout /\ ~Negative(d)  BY <2>1 DEF maxLockout, Negative, Sign
  <2>3. \A c \in maxLockout \ d : c < 35  BY <2>1 DEF maxLockout
  <2>4. Longer(d, maxLockout)  BY <2>2, <2>3 DEF Longer
  <2>5. QED  BY <1>1, <1>8, <2>4
<1>9. CASE n > 4
  <2>1. CASE n <= 28
    <3>1. 35 + n \in d /\ 35 + n >= 40  BY <1>2, <1>3, <1>9, <2>1
    <3>2. QED  BY <1>1, <1>6, <1>9, <3>1
  <2>2. CASE n > 28
    <3>1. \A b \in d : b >= 40  BY <1>5, <2>2
    <3>2. QED  BY <1>1, <1>6, <1>9, <3>1
  <2>3. QED  BY <2>1, <2>2
<1>10. QED  BY <1>7, <1>8, <1>9

-------------------------------------------------------------------------------
(* Sessions: their number, and that there is always a session id nobody    *)
(* uses (the model's stand-in for 256 random bits).                        *)

SessionType == [key: Sids, exp: Nat, user: Users \cup {Owner}, role: Roles, pw: 0 .. MaxPw, raced: BOOLEAN]

(* As many values as a function has arguments, at most. *)
LEMMA Values ==
  ASSUME NEW f, f = [r \in Reqs |-> f[r]]
  PROVE  LET T == {f[r] : r \in Reqs} IN IsFiniteSet(T) /\ Cardinality(T) <= Cardinality(Reqs)
<1> DEFINE T == {f[r] : r \in Reqs}
<1>1. f \in Surjection(Reqs, T)  BY DEF Surjection
<1> HIDE DEF T
<1>2. IsFiniteSet(T) /\ Cardinality(T) <= Cardinality(Reqs)  BY <1>1, Limits, FS_Surjection
<1>3. QED  BY <1>2 DEF T

LEMMA FreshSidType ==
  ASSUME TypeOK, Few, NEW r \in Reqs, req[r].sid = NoCookie
  PROVE  /\ FreshSid \in Sids
         /\ FreshSid \notin Keys(sessions) \cup {cookie[q] : q \in Reqs} \cup {req[q].sid : q \in Reqs}
<1> DEFINE K == Keys(sessions)
           C == {cookie[q] : q \in Reqs}
           D == {req[q].sid : q \in Reqs}
           m == MaxSessions + 2 * Cardinality(Reqs)
<1>1. IsFiniteSet(K) /\ Cardinality(K) <= MaxSessions /\ Cardinality(K) \in Nat
  <2> DEFINE key == [e \in sessions |-> e.key]
  <2>1. key \in Surjection(sessions, K)  BY DEF Surjection, Keys
  <2> HIDE DEF key, K
  <2>3. IsFiniteSet(K) /\ Cardinality(K) <= Cardinality(sessions)  BY <2>1, FS_Surjection DEF Few
  <2>4. Cardinality(K) \in Nat /\ Cardinality(sessions) \in Nat  BY <2>3, FS_CardinalityType DEF Few
  <2>5. QED  BY <2>3, <2>4, Limits DEF Few
<1>2. IsFiniteSet(C) /\ Cardinality(C) <= Cardinality(Reqs) /\ Cardinality(C) \in Nat
  <2>1. cookie = [q \in Reqs |-> cookie[q]]  BY DEF TypeOK
  <2>2. QED  BY <2>1, Values, FS_CardinalityType
<1>3. IsFiniteSet(D) /\ Cardinality(D) <= Cardinality(Reqs) /\ Cardinality(D) \in Nat
  <2> DEFINE f == [q \in Reqs |-> req[q].sid]
  <2>1. f = [q \in Reqs |-> f[q]] /\ D = {f[q] : q \in Reqs}  OBVIOUS
  <2> HIDE DEF f
  <2>2. QED  BY <2>1, Values, FS_CardinalityType
<1>4. Sids \ (K \cup C \cup D) # {}
  <2> SUFFICES ASSUME Sids \subseteq K \cup C \cup D PROVE FALSE
    OBVIOUS
  <2>1. NoCookie \in D /\ NoCookie \notin Sids  BY LoginAssumption DEF LoginAssumption
  <2>2. IsFiniteSet(D \ {NoCookie}) /\ Cardinality(D \ {NoCookie}) = Cardinality(D) - 1
    BY <1>3, <2>1, FS_RemoveElement
  <2>3. Sids \subseteq (K \cup C) \cup (D \ {NoCookie})  BY <2>1
  <2>4. IsFiniteSet(K \cup C) /\ Cardinality(K \cup C) <= Cardinality(K) + Cardinality(C)
        /\ Cardinality(K \cup C) \in Nat
    <3>1. /\ IsFiniteSet(K \cup C)
          /\ Cardinality(K \cup C) = Cardinality(K) + Cardinality(C) - Cardinality(K \cap C)
      BY <1>1, <1>2, FS_Union
    <3>2. Cardinality(K \cap C) \in Nat  BY <1>1, FS_Intersection, FS_CardinalityType
    <3>3. Cardinality(K \cup C) \in Nat  BY <3>1, FS_CardinalityType
    <3>4. QED  BY <1>1, <1>2, <3>1, <3>2, <3>3
  <2> DEFINE U == (K \cup C) \cup (D \ {NoCookie})
  <2>5. IsFiniteSet(U) /\ Cardinality(U) <= Cardinality(K \cup C) + (Cardinality(D) - 1)
        /\ Cardinality(U) \in Nat
    <3>1. /\ IsFiniteSet(U)
          /\ Cardinality(U) = Cardinality(K \cup C) + Cardinality(D \ {NoCookie})
                              - Cardinality((K \cup C) \cap (D \ {NoCookie}))
      BY <2>2, <2>4, FS_Union
    <3>2. Cardinality((K \cup C) \cap (D \ {NoCookie})) \in Nat
      BY <2>4, FS_Intersection, FS_CardinalityType
    <3>3. Cardinality(U) \in Nat  BY <3>1, FS_CardinalityType
    <3>4. QED  BY <1>3, <2>2, <2>4, <3>1, <3>2, <3>3
  <2>6. Cardinality(Sids) = m
    <3>1. m \in Nat /\ m > 0  BY Limits
    <3>2. Cardinality(1 .. m) = m  BY <3>1, FS_Interval
    <3>3. QED  BY <3>2 DEF Sids
  <2>7. Cardinality(Sids) <= Cardinality(U)  BY <2>3, <2>5, FS_Subset
  <2>8. QED  BY <1>1, <1>2, <1>3, <2>4, <2>5, <2>6, <2>7, Limits
<1>5. QED  BY <1>4 DEF FreshSid

LEMMA OneMoreIs ==
  ASSUME NEW S, IsFiniteSet(S), NEW x
  PROVE  IsFiniteSet(S \cup {x}) /\ Cardinality(S \cup {x}) <= Cardinality(S) + 1
<1>1. Cardinality(S) \in Nat  BY FS_CardinalityType
<1>2. QED  BY <1>1, FS_AddElement

(* What NewSession leaves: at most as many sessions as it may, the new one *)
(* among them, and of the others none that was not there.                  *)
LEMMA NewSessionMoves ==
  ASSUME Few, NEW entry, NEW now, NEW after \in NewSession(sessions, entry, now)
  PROVE  /\ IsFiniteSet(after) /\ Cardinality(after) <= MaxSessions
         /\ after \subseteq sessions \cup {[entry EXCEPT !.exp = now + SessionTTL]}
         /\ [entry EXCEPT !.exp = now + SessionTTL] \in after
         /\ \A e \in sessions \ after :
              \/ ~(now <= e.exp)
              \/ Cardinality(sessions) >= MaxSessions /\ \A d \in sessions : now <= d.exp => e.exp <= d.exp
<1> DEFINE live == Kept(sessions, now)
           new == [entry EXCEPT !.exp = now + SessionTTL]
<1>1. live \subseteq sessions  BY DEF Kept
<1>2. IsFiniteSet(live) /\ Cardinality(live) <= Cardinality(sessions)  BY <1>1, FS_Subset DEF Few
<1>3. Cardinality(live) \in Nat /\ Cardinality(sessions) \in Nat /\ MaxSessions \in Nat
  BY <1>2, FS_CardinalityType, Limits DEF Few
<1>4. CASE Cardinality(live) < MaxSessions
  <2>1. after = live \cup {new}  BY <1>3, <1>4 DEF NewSession
  <2>2. IsFiniteSet(after) /\ Cardinality(after) <= Cardinality(live) + 1
    BY <1>2, <1>3, <2>1, OneMoreIs
  <2>3. Cardinality(after) \in Nat  BY <2>2, FS_CardinalityType
  <2>4. \A e \in sessions \ after : ~(now <= e.exp)  BY <2>1 DEF Kept
  <2>5. QED  BY <1>1, <1>3, <1>4, <2>1, <2>2, <2>3, <2>4
<1>5. CASE Cardinality(live) >= MaxSessions
  <2>1. PICK x \in Evictable(live) : after = (live \ {x}) \cup {new}
    BY <1>3, <1>5 DEF NewSession
  <2>2. x \in live /\ \A d \in live : x.exp <= d.exp  BY DEF Evictable
  <2>3. IsFiniteSet(live \ {x}) /\ Cardinality(live \ {x}) = Cardinality(live) - 1
    BY <1>2, <2>2, FS_RemoveElement
  <2>4. IsFiniteSet(after) /\ Cardinality(after) <= Cardinality(live \ {x}) + 1
    <3>1. Cardinality(live \ {x}) \in Nat  BY <2>3, FS_CardinalityType
    <3>2. QED  BY <2>1, <2>3, <3>1, OneMoreIs
  <2>5. Cardinality(after) \in Nat  BY <2>4, FS_CardinalityType
  <2>6. \A e \in sessions \ after : ~(now <= e.exp) \/ e = x  BY <2>1 DEF Kept
  <2>7. \A d \in sessions : now <= d.exp => x.exp <= d.exp  BY <2>2 DEF Kept
  <2>8. Cardinality(sessions) >= MaxSessions  BY <1>2, <1>3, <1>5
  <2>9. Cardinality(after) <= MaxSessions  BY <1>2, <1>3, <2>3, <2>4, <2>5 DEF Few
  <2>10. QED  BY <1>1, <2>1, <2>4, <2>6, <2>7, <2>8, <2>9
<1>6. QED  BY <1>3, <1>4, <1>5

-------------------------------------------------------------------------------
(* What the steps leave of the requests: a step that changes no account    *)
(* takes its request to another that knows what it must.                   *)

Known(q) == q \in Request /\ Place(q) /\ Checked(q) /\ Current(q)

Step(r) == \E q : Known(q) /\ req' = [req EXCEPT ![r] = q]

LEMMA IdleKnown == Known(Idle)
BY IdleType DEF Known, Idle, Place, Checked, Current, Worth

LEMMA NowKnown ==
  ASSUME IInv, NEW r \in Reqs
  PROVE  Known(req[r])
BY DEF IInv, TypeOK, Copied, Known

LEMMA DoneStep ==
  ASSUME NEW r \in Reqs, Done(r)
  PROVE  Step(r)
BY IdleKnown DEF Done, Step

LEMMA LoginAskStep ==
  ASSUME IInv, NEW r \in Reqs, NEW u \in Users, NEW p \in Typed(u), NEW c \in Shown(u), LoginAsk(r, u, p, c)
  PROVE  Step(r)
<1> DEFINE q == [Idle EXCEPT !.pc = "read", !.op = "login", !.user = u, !.typed = p, !.code = c]
<1>1. p \in Nat /\ c \in AppCode \cup {NoCode}
  BY DEF Typed, Shown, IInv, TypeOK
<1>2. q \in Request
  BY <1>1, IdleType DEF Request, PCs
<1>3. Known(q)
  BY <1>2 DEF Known, Place, Checked, Current, Worth, Idle
<1>4. QED  BY <1>3 DEF LoginAsk, Step

LEMMA LoginReadStep ==
  ASSUME IInv, NEW r \in Reqs, LoginRead(r)
  PROVE  Step(r)
<1>1. CASE Mine(r) = NoUser
  BY <1>1, DoneStep DEF LoginRead
<1>2. CASE Mine(r) # NoUser
  <2> DEFINE q == [req[r] EXCEPT !.pc = "check", !.snap = Mine(r)]
  <2>1. Known(req[r]) /\ req[r].pc = "read"  BY NowKnown DEF LoginRead, At
  <2>2. req[r].user \in Users /\ req[r].op = "login"  BY <2>1 DEF Known, Place
  <2>3. Mine(r) \in Account /\ Mine(r).secret <= made[req[r].user].secret
    BY <1>2, <2>2 DEF Mine, IInv, TypeOK, Secrets
  <2>4. q \in Request  BY <2>1, <2>3 DEF Known, Request, PCs
  <2>5. Place(q)  BY <1>2, <2>1, <2>2 DEF Place, Known, Request
  <2>6. Checked(q)  BY <1>2, <2>1, <2>2 DEF Checked, Known, Request
  <2>7. Current(q)  BY <1>2, <2>1, <2>2, <2>3 DEF Current, Worth, Known, Request, Mine
  <2>8. req' = [req EXCEPT ![r] = q]  BY <1>2 DEF LoginRead, IInv, TypeOK
  <2>9. QED  BY <2>4, <2>5, <2>6, <2>7, <2>8 DEF Step, Known
<1>3. QED  BY <1>1, <1>2

LEMMA LoginCheckStep ==
  ASSUME IInv, NEW r \in Reqs, LoginCheck(r)
  PROVE  Step(r)
<1> DEFINE u == req[r].snap
           password == req[r].typed = u.pw /\ ~u.disabled
           second == u.on => Accepts(req[r].code, u.secret, clock, u.last)
           q == [req[r] EXCEPT !.pc = IF u.on THEN "record" ELSE "clear",
                               !.counter = IF u.on THEN req[r].code.step ELSE 0]
<1>1. CASE Done(r)
  BY <1>1, DoneStep
<1>2. CASE password /\ second /\ req' = [req EXCEPT ![r].pc = IF u.on THEN "record" ELSE "clear",
                                            ![r].counter = IF u.on THEN req[r].code.step ELSE 0]
  <2>1. Known(req[r]) /\ req[r].pc = "check" /\ req[r].op = "login"
    BY NowKnown DEF LoginCheck, At, Op
  <2>2. req[r].user \in Users /\ u \in Account
    BY <2>1 DEF Known, Place, Request
  <2>3. u.on => /\ req[r].code \in AppCode /\ req[r].code.step \in 0 .. (MaxClock + 1)
                /\ req[r].code.secret = u.secret /\ req[r].code.step > u.last
    BY <1>2, <2>1 DEF Accepts, Known, Request, AppCode
  <2>4. q \in Request
    <3>1. (IF u.on THEN "record" ELSE "clear") \in PCs  BY DEF PCs
    <3>2. (IF u.on THEN req[r].code.step ELSE 0) \in 0 .. (MaxClock + 1)  BY <2>3, Limits
    <3>3. QED  BY <2>1, <3>1, <3>2 DEF Known, Request
  <2>5. Place(q)  BY <2>1, <2>2 DEF Place, Known, Request
  <2>6. Checked(q)
    <3>1. CASE u.on
      BY <1>2, <2>1, <2>2, <2>3, <3>1, Nothing DEF Checked, Known, Request
    <3>2. CASE ~u.on
      BY <1>2, <2>1, <2>2, <3>2 DEF Checked, Known, Request
    <3>3. QED  BY <3>1, <3>2
  <2>7. Current(q)  BY <2>1 DEF Current, Worth, Known, Request
  <2>8. req' = [req EXCEPT ![r] = q]  BY <1>2 DEF IInv, TypeOK
  <2>9. QED  BY <2>4, <2>5, <2>6, <2>7, <2>8 DEF Step, Known
<1>3. QED  BY <1>1, <1>2 DEF LoginCheck

LEMMA LoginClearStep ==
  ASSUME IInv, NEW r \in Reqs, LoginClear(r)
  PROVE  Step(r)
<1> DEFINE q == [req[r] EXCEPT !.pc = "open"]
<1>1. Known(req[r]) /\ req[r].pc = "clear"  BY NowKnown DEF LoginClear, At
<1>2. req[r].user \in Users /\ req[r].op = "login" /\ req[r].sid = NoCookie
  BY <1>1 DEF Known, Place
<1>3. q \in Request  BY <1>1 DEF Known, Request, PCs
<1>4. Place(q)  BY <1>1, <1>2 DEF Place, Known, Request
<1>5. Checked(q)  BY <1>1, <1>2 DEF Checked, Known, Request
<1>6. Current(q)  BY <1>1 DEF Current, Worth, Known, Request
<1>7. req' = [req EXCEPT ![r] = q]  BY DEF LoginClear, Goto, IInv, TypeOK
<1>8. QED  BY <1>3, <1>4, <1>5, <1>6, <1>7 DEF Step, Known

LEMMA OpenStep ==
  ASSUME IInv, NEW r \in Reqs, Open(r)
  PROVE  Step(r)
<1> DEFINE q == [req[r] EXCEPT !.pc = "swap", !.sid = FreshSid]
<1>1. Known(req[r]) /\ req[r].pc = "open"  BY NowKnown DEF Open, At
<1>2. FreshSid \in Sids  BY <1>1, FreshSidType DEF Known, Place, IInv
<1>3. q \in Request  BY <1>1, <1>2 DEF Known, Request, PCs
<1>4. Place(q)  BY <1>1 DEF Place, Known, Request
<1>5. Checked(q)  BY <1>1 DEF Checked, Known, Request
<1>6. Current(q)  BY <1>1 DEF Current, Worth, Known, Request
<1>7. req' = [req EXCEPT ![r] = q]  BY DEF Open, IInv, TypeOK
<1>8. QED  BY <1>3, <1>4, <1>5, <1>6, <1>7 DEF Step, Known

LEMMA RedeemCodeStep ==
  ASSUME IInv, NEW r \in Reqs, NEW c \in Codes, RedeemCode(r, c)
  PROVE  Step(r)
<1> DEFINE q == [Idle EXCEPT !.pc = "open", !.op = "redeem"]
<1>1. CASE UNCHANGED req
  BY <1>1, NowKnown DEF Step, IInv, TypeOK
<1>2. CASE req' = [req EXCEPT ![r] = q]
  <2>1. q \in Request  BY IdleType DEF Request, PCs
  <2>2. Known(q)  BY <2>1 DEF Known, Place, Checked, Current, Worth, Idle, OwnOps
  <2>3. QED  BY <1>2, <2>2 DEF Step
<1>3. QED  BY <1>1, <1>2 DEF RedeemCode

LEMMA EnterStep ==
  ASSUME IInv, NEW r \in Reqs, NEW op \in OwnOps, NEW p \in Nat, NEW c \in AppCode \cup {NoCode},
         Enter(r, op, p, c)
  PROVE  Step(r)
<1>1. PICK e \in Session(sessions, cookie[r], clock) :
        /\ e.user # Owner
        /\ req' = [req EXCEPT ![r] = [Idle EXCEPT !.pc = "admit", !.op = op, !.user = e.user,
                                                  !.role = e.role, !.typed = p, !.code = c]]
  BY DEF Enter
<1>2. e \in SessionType  BY DEF Session, IInv, TypeOK, SessionType
<1>3. e.user \in Users /\ e.role \in Roles  BY <1>1, <1>2 DEF SessionType
<1> DEFINE q == [Idle EXCEPT !.pc = "admit", !.op = op, !.user = e.user,
                             !.role = e.role, !.typed = p, !.code = c]
<1>4. q \in Request  BY <1>3, IdleType DEF Request, PCs
<1>5. Place(q)  BY <1>3 DEF Place, Idle
<1>6. Checked(q) /\ Current(q)  BY DEF Checked, Current, Worth, Idle
<1>7. QED  BY <1>1, <1>4, <1>5, <1>6 DEF Step, Known

(* A step that only moves its request on. *)
LEMMA GotoStep ==
  ASSUME IInv, NEW r \in Reqs, NEW pc, Goto(r, pc),
         \/ req[r].pc = "admit" /\ req[r].op # "visit" /\ pc = "own"
         \/ req[r].pc = "asked" /\ pc = "check"
         \/ req[r].pc = "check" /\ req[r].op \in {"change", "switchoff"} /\ pc = "write"
         \/ req[r].pc = "end" /\ req[r].op = "change" /\ pc = "open"
  PROVE  Step(r)
<1> DEFINE q == [req[r] EXCEPT !.pc = pc]
<1>1. Known(req[r])  BY NowKnown
<1>2. q \in Request  BY <1>1 DEF Known, Request, PCs
<1>3. Place(q)  BY <1>1 DEF Place, Known, Request, OwnOps, AdminOps
<1>4. Checked(q)  BY <1>1 DEF Checked, Known, Request
<1>5. Current(q)  BY <1>1 DEF Current, Worth, Known, Request, Place
<1>6. req' = [req EXCEPT ![r] = q]  BY DEF Goto, IInv, TypeOK
<1>7. QED  BY <1>2, <1>3, <1>4, <1>5, <1>6 DEF Step, Known

LEMMA AdmitStep ==
  ASSUME IInv, NEW r \in Reqs, Admit(r)
  PROVE  Step(r)
<1>1. CASE Done(r)
  BY <1>1, DoneStep
<1>2. CASE Goto(r, "own") /\ Op(r) # "visit"
  BY <1>2, GotoStep DEF Admit, At, Op
<1>3. QED  BY <1>1, <1>2 DEF Admit

LEMMA OwnReadStep ==
  ASSUME IInv, NEW r \in Reqs, OwnRead(r)
  PROVE  Step(r)
<1>1. CASE Mine(r) = NoUser
  BY <1>1, DoneStep DEF OwnRead
<1>2. CASE Mine(r) # NoUser
  <2> DEFINE pc == IF Op(r) = "change" THEN "asked" ELSE "check"
             q == [req[r] EXCEPT !.pc = pc, !.snap = Mine(r)]
  <2>1. Known(req[r]) /\ req[r].pc = "own"  BY NowKnown DEF OwnRead, At
  <2>2. req[r].user \in Users /\ req[r].op \in OwnOps \ {"visit"} /\ req[r].sid = NoCookie
    BY <2>1 DEF Known, Place
  <2>3. Mine(r) \in Account /\ Mine(r).secret <= made[req[r].user].secret
    BY <1>2, <2>2 DEF Mine, IInv, TypeOK, Secrets
  <2>4. req' = [req EXCEPT ![r] = q]  BY <1>2 DEF OwnRead, IInv, TypeOK
  <2>5. pc \in {"asked", "check"} /\ (pc = "asked" => req[r].op = "change")  BY DEF Op
  <2> HIDE DEF pc
  <2>6. q \in Request  BY <2>1, <2>3, <2>5 DEF Known, Request, PCs
  <2>7. Place(q)  BY <1>2, <2>1, <2>2, <2>5 DEF Place, Known, Request
  <2>8. Checked(q)  BY <1>2, <2>1, <2>2, <2>5 DEF Checked, Known, Request
  <2>9. Current(q)  BY <1>2, <2>1, <2>2, <2>3, <2>5 DEF Current, Worth, Known, Request, Mine
  <2>10. QED  BY <2>4, <2>6, <2>7, <2>8, <2>9 DEF Step, Known
<1>3. QED  BY <1>1, <1>2

LEMMA ChangeAskStep ==
  ASSUME IInv, NEW r \in Reqs, ChangeAsk(r)
  PROVE  Step(r)
<1>1. CASE Done(r)
  BY <1>1, DoneStep
<1>2. CASE Goto(r, "check")
  BY <1>2, GotoStep DEF ChangeAsk, At
<1>3. QED  BY <1>1, <1>2 DEF ChangeAsk

LEMMA PasswordCheckStep ==
  ASSUME IInv, NEW r \in Reqs, PasswordCheck(r)
  PROVE  Step(r)
<1>1. CASE Done(r)
  BY <1>1, DoneStep
<1>2. CASE Goto(r, "write")
  BY <1>2, GotoStep DEF PasswordCheck, At, Op
<1>3. QED  BY <1>1, <1>2 DEF PasswordCheck

LEMMA SecondCheckStep ==
  ASSUME IInv, NEW r \in Reqs, SecondCheck(r)
  PROVE  Step(r)
<1> DEFINE counter == IF Op(r) = "enable" THEN req[r].code.step ELSE 0
           q == [req[r] EXCEPT !.pc = "write", !.counter = counter]
           ok == IF Op(r) = "setup" THEN SetupAllowed(req[r].snap)
                 ELSE req[r].snap.secret # 0 /\ Accepts(req[r].code, req[r].snap.secret, clock, 0)
<1>1. CASE Done(r)
  BY <1>1, DoneStep
<1>2. CASE ok /\ req' = [req EXCEPT ![r].pc = "write",
                                    ![r].counter = IF Op(r) = "enable" THEN req[r].code.step ELSE 0]
  <2>1. Known(req[r]) /\ req[r].pc = "check" /\ req[r].op \in {"setup", "enable"}
    BY NowKnown DEF SecondCheck, At, Op
  <2>2. req[r].user \in Users /\ req[r].snap \in Account /\ req[r].sid = NoCookie
    BY <2>1 DEF Known, Place, Request
  <2>3. req[r].op = "enable" => req[r].code \in AppCode
    BY <1>2, <2>1 DEF Accepts, Known, Request, Op
  <2>4. counter \in 0 .. (MaxClock + 1)
    BY <2>3, Limits DEF AppCode, Op
  <2>5. /\ req[r].op = "setup" => ~req[r].snap.on
        /\ req[r].op = "enable" => req[r].snap.secret > 0
    BY <1>2, <2>1, <2>2, Limits DEF SetupAllowed, Op, Account
  <2>6. req' = [req EXCEPT ![r] = q]  BY <1>2 DEF IInv, TypeOK
  <2> HIDE DEF counter
  <2>7. q \in Request  BY <2>1, <2>4 DEF Known, Request, PCs
  <2>8. Place(q)  BY <2>1, <2>2 DEF Place, Known, Request, OwnOps
  <2>9. Checked(q)  BY <2>1, <2>2, <2>5 DEF Checked, Known, Request
  <2>10. Current(q)  BY <2>1 DEF Current, Worth, Known, Request
  <2>11. QED  BY <2>6, <2>7, <2>8, <2>9, <2>10 DEF Step, Known
<1>3. QED  BY <1>1, <1>2 DEF SecondCheck

LEMMA AdminAskStep ==
  ASSUME IInv, NEW r \in Reqs, NEW op \in AdminOps, NEW u \in Users, AdminAsk(r, op, u)
  PROVE  Step(r)
<1> DEFINE q == [Idle EXCEPT !.pc = "write", !.op = op, !.user = u]
<1>1. q \in Request  BY IdleType DEF Request, PCs
<1>2. Known(q)  BY <1>1 DEF Known, Place, Checked, Current, Worth, Idle, OwnOps, AdminOps
<1>3. QED  BY <1>2 DEF AdminAsk, Step

LEMMA SwapStep ==
  ASSUME IInv, NEW r \in Reqs, Swap(r)
  PROVE  Step(r)
BY DoneStep DEF Swap

LEMMA EndAllStep ==
  ASSUME IInv, NEW r \in Reqs, EndAll(r)
  PROVE  Step(r)
<1>1. CASE Done(r)
  BY <1>1, DoneStep
<1>2. CASE Goto(r, "open") /\ Op(r) = "change"
  BY <1>2, GotoStep DEF EndAll, At, Op
<1>3. QED  BY <1>1, <1>2 DEF EndAll

-------------------------------------------------------------------------------
(* The writes to an account pass the requests that read it before. *)

(* What a mark leaves of a request. *)
Same(p, q) ==
  /\ p \in Request /\ p.pc = q.pc /\ p.op = q.op /\ p.user = q.user /\ p.code = q.code
  /\ p.snap = q.snap /\ p.sid = q.sid /\ p.counter = q.counter
  /\ q.raced => p.raced
  /\ q.stale => p.stale
  /\ q.crossed => p.crossed

LEMMA SameKnown ==
  ASSUME NEW p, NEW q, Same(p, q), Place(q), Checked(q)
  PROVE  Place(p) /\ Checked(p)
BY DEF Same, Place, Checked

(* A mark leaves the rest of a request, whatever marks it has already. *)
LEMMA MarkedRaced ==
  ASSUME NEW p \in Request, NEW q, Same(p, q)
  PROVE  LET m == [p EXCEPT !.raced = TRUE]
         IN m \in Request /\ Same(m, q) /\ m.raced /\ m.stale = p.stale /\ m.crossed = p.crossed
<1> DEFINE m == [p EXCEPT !.raced = TRUE]
<1>1. /\ m \in Request /\ m.raced
      /\ m.pc = p.pc /\ m.op = p.op /\ m.user = p.user /\ m.code = p.code /\ m.snap = p.snap
      /\ m.sid = p.sid /\ m.counter = p.counter /\ m.stale = p.stale /\ m.crossed = p.crossed
  BY DEF Request
<1> HIDE DEF m
<1>2. Same(m, q)  BY <1>1 DEF Same
<1>3. QED  BY <1>1, <1>2 DEF m

LEMMA MarkedCrossed ==
  ASSUME NEW p \in Request, NEW q, Same(p, q)
  PROVE  LET m == [p EXCEPT !.crossed = TRUE]
         IN m \in Request /\ Same(m, q) /\ m.crossed /\ m.stale = p.stale /\ m.raced = p.raced
<1> DEFINE m == [p EXCEPT !.crossed = TRUE]
<1>1. /\ m \in Request /\ m.crossed
      /\ m.pc = p.pc /\ m.op = p.op /\ m.user = p.user /\ m.code = p.code /\ m.snap = p.snap
      /\ m.sid = p.sid /\ m.counter = p.counter /\ m.stale = p.stale /\ m.raced = p.raced
  BY DEF Request
<1> HIDE DEF m
<1>2. Same(m, q)  BY <1>1 DEF Same
<1>3. QED  BY <1>1, <1>2 DEF m

LEMMA MarkedStale ==
  ASSUME NEW p \in Request, NEW q, Same(p, q)
  PROVE  LET m == [p EXCEPT !.stale = TRUE]
         IN m \in Request /\ Same(m, q) /\ m.stale /\ m.raced = p.raced /\ m.crossed = p.crossed
<1> DEFINE m == [p EXCEPT !.stale = TRUE]
<1>1. /\ m \in Request /\ m.stale
      /\ m.pc = p.pc /\ m.op = p.op /\ m.user = p.user /\ m.code = p.code /\ m.snap = p.snap
      /\ m.sid = p.sid /\ m.counter = p.counter /\ m.raced = p.raced /\ m.crossed = p.crossed
  BY DEF Request
<1> HIDE DEF m
<1>2. Same(m, q)  BY <1>1 DEF Same
<1>3. QED  BY <1>1, <1>2 DEF m

LEMMA StaleMarks ==
  ASSUME IInv, NEW r \in Reqs
  PROVE  /\ WithStale(req, r) \in [Reqs -> Request]
         /\ WithStale(req, r)[r] = req[r]
         /\ \A x \in Reqs : LET p == WithStale(req, r)[x]
                             IN /\ Same(p, req[x])
                                /\ p.raced = req[x].raced
                                /\ x # r /\ Copies(x, req[r].user) => p.stale
<1>1. \A x \in Reqs : req[x] \in Request  BY DEF IInv, TypeOK
<1>2. \A x \in Reqs : Same(req[x], req[x])  BY <1>1 DEF Same
<1>3. \A x \in Reqs : LET m == [req[x] EXCEPT !.stale = TRUE]
                       IN m \in Request /\ Same(m, req[x]) /\ m.stale /\ m.raced = req[x].raced
  BY <1>1, <1>2, MarkedStale
<1>4. QED  BY <1>1, <1>2, <1>3 DEF WithStale

(* A mark of a two-factor write, and one of a write of r that crosses. *)
LEMMA CrossedMarks ==
  ASSUME IInv, NEW r \in Reqs, NEW f \in [Reqs -> Request], \A x \in Reqs : Same(f[x], req[x])
  PROVE  /\ WithCrossed(f, r) \in [Reqs -> Request]
         /\ WithCrossed(f, r)[r] = f[r]
         /\ \A x \in Reqs : LET p == WithCrossed(f, r)[x]
                             IN /\ Same(p, req[x])
                                /\ p.raced = f[x].raced /\ p.stale = f[x].stale
                                /\ x # r /\ Copies(x, req[r].user) => p.crossed
<1>1. \A x \in Reqs : f[x] \in Request /\ Same(f[x], req[x])  OBVIOUS
<1>2. \A x \in Reqs : LET m == [f[x] EXCEPT !.crossed = TRUE]
                       IN /\ m \in Request /\ Same(m, req[x]) /\ m.crossed
                          /\ m.raced = f[x].raced /\ m.stale = f[x].stale
  BY <1>1, MarkedCrossed
<1>3. QED  BY <1>1, <1>2 DEF WithCrossed

LEMMA RacedMarks ==
  ASSUME IInv, NEW u \in Users, NEW f \in [Reqs -> Request], \A x \in Reqs : Same(f[x], req[x])
  PROVE  /\ WithRaced(f, u) \in [Reqs -> Request]
         /\ \A x \in Reqs : LET p == WithRaced(f, u)[x]
                             IN /\ Same(p, req[x])
                                /\ p.stale = f[x].stale /\ p.crossed = f[x].crossed
                                /\ Copies(x, u) => p.raced
<1>1. \A x \in Reqs : f[x] \in Request /\ Same(f[x], req[x])  OBVIOUS
<1>2. \A x \in Reqs : LET m == [f[x] EXCEPT !.raced = TRUE]
                       IN /\ m \in Request /\ Same(m, req[x]) /\ m.raced
                          /\ m.stale = f[x].stale /\ m.crossed = f[x].crossed
  BY <1>1, MarkedRaced
<1>3. QED  BY <1>1, <1>2 DEF WithRaced

(* A write to the two-factor fields of an account leaves what the others   *)
(* know of theirs, as far as it marks them.                                *)
LEMMA OthersPassed ==
  ASSUME IInv, NEW u \in Users,
         acct'[u] # NoUser, acct[u] # NoUser,
         acct'[u].pw = acct[u].pw, acct'[u].role = acct[u].role, acct'[u].disabled = acct[u].disabled,
         \A v \in Users \ {u} : acct'[v] = acct[v] /\ lapse'[v] = lapse[v],
         \A v \in Users : made[v].secret <= made'[v].secret /\ made'[v].secret \in Nat,
         NEW x \in Reqs, Same(req'[x], req[x]), req'[x].raced = req[x].raced,
         Copies(x, u) => /\ req'[x].stale
                         /\ \/ req'[x].crossed
                            \/ acct'[u].on = acct[u].on /\ acct'[u].secret = acct[u].secret
  PROVE  /\ Place(req'[x]) /\ Checked(req'[x])
         /\ Worth(req'[x], acct'[req'[x].user], made'[req'[x].user].secret, lapse'[req'[x].user])
<1>1. /\ Same(req'[x], req[x]) /\ req'[x].raced = req[x].raced
      /\ Copies(x, u) => /\ req'[x].stale
                         /\ \/ req'[x].crossed
                            \/ acct'[u].on = acct[u].on /\ acct'[u].secret = acct[u].secret
  OBVIOUS
<1>2. Place(req[x]) /\ Checked(req[x]) /\ Current(req[x])
  BY DEF IInv, Copied
<1>3. Place(req'[x]) /\ Checked(req'[x])  BY <1>1, <1>2, SameKnown
<1>4. CASE req[x].snap = NoUser
  BY <1>1, <1>3, <1>4 DEF Same, Worth
<1>5. CASE req[x].snap # NoUser
  <2>1. req[x].user \in Users /\ req[x].snap \in Account
    BY <1>2, <1>5 DEF Checked, IInv, TypeOK, Request
  <2>2. req[x].snap.secret <= made'[req[x].user].secret
    <3>1. /\ req[x].snap.secret \in Nat /\ made[req[x].user].secret \in Nat
          /\ req[x].snap.secret <= made[req[x].user].secret
      BY <1>2, <1>5, <2>1 DEF Current, Worth, Account, IInv, TypeOK
    <3>2. QED  BY <2>1, <3>1
  <2>3. CASE req[x].user = u
    BY <1>1, <1>2, <1>3, <1>5, <2>2, <2>3 DEF Current, Worth, Same, Copies
  <2>4. CASE req[x].user # u
    BY <1>1, <1>2, <1>3, <1>5, <2>1, <2>2, <2>4 DEF Current, Worth, Same
  <2>5. QED  BY <2>3, <2>4
<1>6. QED  BY <1>4, <1>5

(* What the two-factor fields have no part in. *)
SamePerson(a, b) ==
  /\ a # NoUser <=> b # NoUser
  /\ a # NoUser => b.pw = a.pw /\ b.role = a.role /\ b.disabled = a.disabled

(* What holds when the step of a code was written, or its write failed. *)
LEMMA LoginRecordMoves ==
  ASSUME IInv, NEW r \in Reqs, LoginRecord(r)
  PROVE  /\ acct' \in [Users -> Account \cup {NoUser}] /\ req' \in [Reqs -> Request]
         /\ used' \in [Users -> SUBSET AppCode] /\ lapse' \in [Users -> BOOLEAN]
         /\ Copied' /\ Secrets' /\ Behind' /\ SecretIsConfirmed'
         /\ \A x \in Reqs : req[x].pc = "end" => req'[x].pc = "end" /\ req'[x].user = req[x].user
         /\ \A v \in Users : SamePerson(acct[v], acct'[v])
<1> DEFINE u == req[r].user
           code == req[r].code
           snap == req[r].snap
<1>1. Known(req[r]) /\ req[r].pc = "record" /\ req[r].op = "login"
  BY NowKnown DEF LoginRecord, At, Known, Place
<1>2. /\ u \in Users /\ snap \in Account /\ snap # NoUser /\ req[r].sid = NoCookie
      /\ snap.on /\ code \in AppCode /\ code.secret = snap.secret /\ code.step > snap.last
      /\ req[r].counter = code.step /\ ~snap.disabled
  BY <1>1, Nothing DEF Known, Place, Checked, Request
<1>3. /\ snap.secret <= made[u].secret
      /\ ~req[r].stale /\ ~lapse[u] => acct[u].on /\ acct[u].secret = snap.secret /\ acct[u].last = snap.last
  BY <1>1, <1>2 DEF Known, Current, Worth
<1>4. used' = [used EXCEPT ![u] = @ \cup {code}] /\ used' \in [Users -> SUBSET AppCode]
  BY <1>2 DEF LoginRecord, IInv, TypeOK
<1> DEFINE q == [req[r] EXCEPT !.pc = "clear"]
<1>5. q \in Request /\ Place(q) /\ Checked(q)
  BY <1>1, <1>2 DEF Known, Request, PCs, Place, Checked
<1>6. CASE /\ Mine(r) # NoUser
           /\ acct' = [acct EXCEPT ![u].last = req[r].counter]
           /\ req' = [WithStale(req, r) EXCEPT ![r].pc = "clear"]
           /\ lapse' = [lapse EXCEPT ![u] = @ \/ req[r].stale]
  <2>1. req'[r] = q /\ \A x \in Reqs \ {r} : req'[x] = WithStale(req, r)[x]
    BY <1>6, StaleMarks
  <2>2. req' \in [Reqs -> Request]
    BY <1>5, <1>6, <2>1, StaleMarks
  <2>3. acct[u] \in Account /\ code.step \in 0 .. (MaxClock + 1)
    BY <1>2, <1>6 DEF Mine, IInv, TypeOK, AppCode
  <2>4. /\ acct'[u] = [acct[u] EXCEPT !.last = code.step] /\ acct'[u] \in Account
        /\ \A v \in Users \ {u} : acct'[v] = acct[v]
    BY <1>2, <1>6, <2>3 DEF IInv, TypeOK, Account
  <2>5. /\ acct'[u].pw = acct[u].pw /\ acct'[u].role = acct[u].role /\ acct'[u].disabled = acct[u].disabled
        /\ acct'[u].on = acct[u].on /\ acct'[u].secret = acct[u].secret /\ acct'[u].last = code.step
        /\ acct[u] # NoUser /\ acct'[u] # NoUser
    BY <2>3, <2>4, Nothing DEF Account
  <2>6. acct' \in [Users -> Account \cup {NoUser}]
    BY <1>6, <2>4 DEF IInv, TypeOK
  <2>7. /\ lapse' \in [Users -> BOOLEAN] /\ (lapse'[u] <=> lapse[u] \/ req[r].stale)
        /\ \A v \in Users \ {u} : lapse'[v] = lapse[v]
    BY <1>1, <1>2, <1>6 DEF IInv, TypeOK, Known, Request
  <2>8. made' = made /\ confirmed' = confirmed /\ mixed' = mixed  BY DEF LoginRecord
  <2>9. Copied'
    <3>1. ASSUME NEW x \in Reqs PROVE Place(req'[x]) /\ Checked(req'[x]) /\ Worth(req'[x], acct'[req'[x].user], made'[req'[x].user].secret, lapse'[req'[x].user])
      <4>1. CASE x = r
        <5>1. Worth(req'[r], acct'[u], made'[u].secret, lapse'[u])
          BY <1>1, <1>2, <1>3, <2>1, <2>5, <2>7, <2>8 DEF Current, Worth, Known, Request
        <5>2. q.user = u  BY <1>1 DEF Known, Request
        <5>3. QED  BY <1>5, <2>1, <4>1, <5>1, <5>2
      <4>2. CASE x # r
        <5>1. \A v \in Users : made'[v].secret \in Nat /\ made[v].secret <= made'[v].secret
          BY <2>8 DEF IInv, TypeOK
        <5>2. /\ Same(req'[x], req[x]) /\ req'[x].raced = req[x].raced
              /\ Copies(x, u) => req'[x].stale
          BY <2>1, <4>2, StaleMarks
        <5>3. QED  BY <1>2, <2>4, <2>5, <2>7, <5>1, <5>2, OthersPassed
      <4>3. QED  BY <4>1, <4>2
    <3>2. QED  BY <3>1 DEF Copied, Current
  <2>10. Secrets'
    BY <2>4, <2>5, <2>7, <2>8 DEF Secrets, IInv
  <2>11. Behind'
    <3>1. ASSUME NEW v \in Users, NEW c \in used'[v]
          PROVE  /\ c.secret <= made[v].secret
                 /\ ~lapse'[v] => c.secret > 0
                 /\ ~lapse'[v] /\ acct'[v].secret = c.secret => acct'[v].on /\ c.step <= acct'[v].last
      <4>1. CASE v # u
        BY <1>4, <2>4, <2>7, <4>1 DEF IInv, TypeOK, Behind
      <4>2. CASE v = u /\ c = code
        BY <1>2, <1>3, <2>3, <2>5, <2>7, <4>2 DEF IInv, Secrets
      <4>3. CASE v = u /\ c \in used[u]
        <5>1. c \in AppCode /\ c.step \in Nat /\ snap.last \in Nat /\ code.step \in Nat
          BY <1>2, <4>3, Limits DEF IInv, TypeOK, AppCode, Account
        <5>2. /\ c.secret <= made[u].secret
              /\ ~lapse[u] => c.secret > 0
              /\ ~lapse[u] /\ acct[u].secret = c.secret => acct[u].on /\ c.step <= acct[u].last
          BY <1>2, <4>3 DEF IInv, Behind
        <5>3. QED  BY <1>2, <1>3, <2>5, <2>7, <4>3, <5>1, <5>2
      <4>4. QED  BY <1>2, <1>4, <4>1, <4>2, <4>3 DEF IInv, TypeOK
    <3>2. QED  BY <2>8, <3>1 DEF Behind
  <2>12. SecretIsConfirmed'
    BY <2>4, <2>5, <2>7, <2>8 DEF SecretIsConfirmed, IInv
  <2>13. \A x \in Reqs : req[x].pc = "end" => req'[x].pc = "end" /\ req'[x].user = req[x].user
    BY <1>1, <2>1, StaleMarks DEF Same
  <2>14. \A v \in Users : SamePerson(acct[v], acct'[v])  BY <2>4, <2>5 DEF SamePerson
  <2>15. QED  BY <1>4, <2>2, <2>6, <2>7, <2>9, <2>10, <2>11, <2>12, <2>13, <2>14
<1>7. CASE /\ Goto(r, "clear")
           /\ lapse' = [lapse EXCEPT ![u] = TRUE]
           /\ UNCHANGED acct
  <2>1. req' = [req EXCEPT ![r] = q]  BY <1>7 DEF Goto, IInv, TypeOK
  <2>2. req' \in [Reqs -> Request] /\ \A x \in Reqs \ {r} : req'[x] = req[x]
    BY <1>5, <2>1 DEF IInv, TypeOK
  <2>3. /\ lapse' \in [Users -> BOOLEAN] /\ lapse'[u]
        /\ \A v \in Users \ {u} : lapse'[v] = lapse[v]
    BY <1>2, <1>7 DEF IInv, TypeOK
  <2>4. made' = made /\ confirmed' = confirmed /\ mixed' = mixed /\ acct' = acct  BY <1>7 DEF LoginRecord
  <2>5. Copied'
    <3>1. ASSUME NEW x \in Reqs PROVE Place(req'[x]) /\ Checked(req'[x]) /\ Worth(req'[x], acct'[req'[x].user], made'[req'[x].user].secret, lapse'[req'[x].user])
      <4>1. CASE x = r
        <5>1. req'[r] = q  BY <2>1 DEF IInv, TypeOK
        <5>2. Worth(q, acct'[u], made'[u].secret, lapse'[u])
          BY <1>1, <2>3, <2>4 DEF Current, Worth, Known, Request
        <5>3. q.user = u  BY <1>1 DEF Known, Request
        <5>4. QED  BY <1>5, <4>1, <5>1, <5>2, <5>3
      <4>2. CASE x # r
        <5>1. req'[x] = req[x] /\ Place(req[x]) /\ Checked(req[x]) /\ Current(req[x])
          BY <2>2, <4>2 DEF IInv, Copied
        <5>2. req[x].snap # NoUser => req[x].user \in Users  BY <5>1 DEF Checked
        <5>3. QED  BY <2>3, <2>4, <5>1, <5>2 DEF Current, Worth
      <4>3. QED  BY <4>1, <4>2
    <3>2. QED  BY <3>1 DEF Copied, Current
  <2>6. Secrets'
    BY <2>3, <2>4 DEF Secrets, IInv
  <2>7. Behind'
    <3>1. \A v \in Users \ {u} : used'[v] = used[v]  BY <1>4 DEF IInv, TypeOK
    <3>2. used'[u] = used[u] \cup {code}  BY <1>2, <1>4 DEF IInv, TypeOK
    <3>3. QED  BY <1>2, <1>3, <2>3, <2>4, <3>1, <3>2 DEF Behind, IInv
  <2>8. SecretIsConfirmed'
    BY <2>3, <2>4 DEF SecretIsConfirmed, IInv
  <2>9. \A x \in Reqs : req[x].pc = "end" => req'[x].pc = "end" /\ req'[x].user = req[x].user
    BY <1>1, <2>2
  <2>10. \A v \in Users : SamePerson(acct[v], acct'[v])  BY <2>4 DEF SamePerson
  <2>11. QED  BY <1>4, <2>2, <2>3, <2>4, <2>5, <2>6, <2>7, <2>8, <2>9, <2>10 DEF IInv, TypeOK
<1>8. QED  BY <1>6, <1>7 DEF LoginRecord

LEMMA SecondWriteMoves ==
  ASSUME IInv, NEW r \in Reqs, SecondWrite(r)
  PROVE  /\ acct' \in [Users -> Account \cup {NoUser}] /\ req' \in [Reqs -> Request]
         /\ made' \in [Users -> [pw: 1 .. MaxPw, secret: 0 .. MaxSecret]]
         /\ confirmed' \in [Users -> 0 .. MaxSecret] /\ lapse' \in [Users -> BOOLEAN]
         /\ mixed' \in [Users -> BOOLEAN]
         /\ Copied' /\ Secrets' /\ Behind' /\ SecretIsConfirmed'
         /\ \A x \in Reqs : req[x].pc = "end" => req'[x].pc = "end" /\ req'[x].user = req[x].user
         /\ \A v \in Users : SamePerson(acct[v], acct'[v])
<1> DEFINE u == req[r].user
           snap == req[r].snap
           secret == made[u].secret + 1
           op == req[r].op
           now == acct'[u]
           known == made'[u].secret
<1>1. Known(req[r]) /\ req[r].pc = "write" /\ op \in {"setup", "enable", "switchoff"}
  BY NowKnown DEF SecondWrite, At, Op
<1>2. u \in Users /\ snap \in Account /\ snap # NoUser
  BY <1>1 DEF Known, Place, Request, OwnOps
<1>3. /\ snap.secret <= made[u].secret
      /\ ~req[r].stale /\ ~lapse[u] => (acct[u].on <=> snap.on) /\ acct[u].secret = snap.secret
      /\ ~req[r].crossed => (acct[u].on <=> snap.on) /\ acct[u].secret = snap.secret
      /\ op = "setup" => ~snap.on
      /\ op = "enable" => snap.secret > 0
  BY <1>1, <1>2 DEF Known, Current, Worth, Checked
<1>4. acct[u] \in Account /\ acct[u] # NoUser /\ made[u] \in [pw: 1 .. MaxPw, secret: 0 .. MaxSecret]
  BY <1>2 DEF SecondWrite, Mine, IInv, TypeOK
<1>5. /\ acct \in [Users -> Account \cup {NoUser}] /\ confirmed \in [Users -> 0 .. MaxSecret]
      /\ made \in [Users -> [pw: 1 .. MaxPw, secret: 0 .. MaxSecret]]
  BY DEF IInv, TypeOK
<1>6. req' = [WithCrossed(WithStale(req, r), r) EXCEPT ![r] = Idle] /\ used' = used
  BY DEF SecondWrite
<1>7. /\ req' \in [Reqs -> Request] /\ req'[r] = Idle
      /\ \A x \in Reqs \ {r} : /\ Same(req'[x], req[x]) /\ req'[x].raced = req[x].raced
                               /\ Copies(x, u) => req'[x].stale /\ req'[x].crossed
  <2> DEFINE f == WithStale(req, r)
  <2>1. /\ f \in [Reqs -> Request]
        /\ \A x \in Reqs : Same(f[x], req[x]) /\ f[x].raced = req[x].raced
                           /\ (x # r /\ Copies(x, u) => f[x].stale)
    BY StaleMarks
  <2> HIDE DEF f
  <2>2. /\ WithCrossed(f, r) \in [Reqs -> Request]
        /\ \A x \in Reqs : LET p == WithCrossed(f, r)[x]
                           IN /\ Same(p, req[x])
                              /\ p.raced = f[x].raced /\ p.stale = f[x].stale
                              /\ x # r /\ Copies(x, u) => p.crossed
    BY <2>1, CrossedMarks
  <2>3. req' = [WithCrossed(f, r) EXCEPT ![r] = Idle]  BY <1>6 DEF f
  <2>4. QED  BY <2>1, <2>2, <2>3, IdleType
<1>8. /\ lapse' \in [Users -> BOOLEAN]
      /\ ~lapse'[u] => ~lapse[u] /\ ~req[r].stale /\ (op = "enable" => ~acct[u].on)
      /\ \A v \in Users \ {u} : lapse'[v] = lapse[v]
      /\ mixed' \in [Users -> BOOLEAN] /\ mixed'[u] = req[r].crossed
      /\ \A v \in Users \ {u} : mixed'[v] = mixed[v]
  BY <1>1, <1>2, <1>4 DEF SecondWrite, Op, IInv, TypeOK, Known, Request, Account
<1>9. /\ acct' \in [Users -> Account \cup {NoUser}] /\ now \in Account
      /\ made' \in [Users -> [pw: 1 .. MaxPw, secret: 0 .. MaxSecret]]
      /\ confirmed' \in [Users -> 0 .. MaxSecret]
      /\ \A v \in Users \ {u} : acct'[v] = acct[v] /\ made'[v] = made[v] /\ confirmed'[v] = confirmed[v]
      /\ now.pw = acct[u].pw /\ now.role = acct[u].role /\ now.disabled = acct[u].disabled
      /\ \/ op = "setup" /\ now.secret = secret /\ (now.on <=> acct[u].on) /\ known = secret
         \/ op = "enable" /\ now.on /\ now.secret = acct[u].secret /\ known = made[u].secret
            /\ confirmed'[u] = snap.secret
         \/ op = "switchoff" /\ ~now.on /\ now.secret = 0 /\ known = made[u].secret
  <2>1. acct[u].secret \in 0 .. MaxSecret /\ made[u].secret \in 0 .. MaxSecret /\ 0 \in 0 .. (MaxClock + 1)
    BY <1>4, Limits DEF Account
  <2>2. CASE /\ op = "setup" /\ secret <= MaxSecret
             /\ acct' = [acct EXCEPT ![u].secret = secret, ![u].last = 0]
             /\ made' = [made EXCEPT ![u].secret = secret]
             /\ UNCHANGED confirmed
    <3>1. secret \in 0 .. MaxSecret  BY <2>1, <2>2, Limits
    <3> DEFINE to == [acct[u] EXCEPT !.secret = secret, !.last = 0]
               out == [made[u] EXCEPT !.secret = secret]
    <3>2. acct' = [acct EXCEPT ![u] = to] /\ made' = [made EXCEPT ![u] = out]
      BY <1>5, <1>2, <2>2
    <3> HIDE DEF secret
    <3>3. /\ to \in Account /\ to.pw = acct[u].pw /\ to.role = acct[u].role /\ to.disabled = acct[u].disabled
          /\ to.secret = secret /\ (to.on <=> acct[u].on)
      BY <1>4, <2>1, <3>1 DEF Account
    <3>4. out \in [pw: 1 .. MaxPw, secret: 0 .. MaxSecret] /\ out.secret = secret
      BY <1>4, <3>1
    <3> HIDE DEF to, out
    <3>5. acct' \in [Users -> Account \cup {NoUser}] /\ now = to /\ \A v \in Users \ {u} : acct'[v] = acct[v]
      BY <1>5, <1>2, <3>2, <3>3
    <3>6. /\ made' \in [Users -> [pw: 1 .. MaxPw, secret: 0 .. MaxSecret]] /\ known = secret
          /\ \A v \in Users \ {u} : made'[v] = made[v]
      BY <1>5, <1>2, <3>2, <3>4
    <3>7. QED  BY <1>5, <2>2, <3>3, <3>5, <3>6
  <2>3. CASE /\ op = "enable"
             /\ acct' = [acct EXCEPT ![u].on = TRUE, ![u].last = req[r].counter]
             /\ confirmed' = [confirmed EXCEPT ![u] = req[r].snap.secret]
             /\ UNCHANGED made
    <3> DEFINE to == [acct[u] EXCEPT !.on = TRUE, !.last = req[r].counter]
    <3>1. acct' = [acct EXCEPT ![u] = to]
      BY <1>5, <1>2, <2>3
    <3>2. req[r].counter \in 0 .. (MaxClock + 1)  BY <1>1 DEF Known, Request
    <3>3. /\ to \in Account /\ to.pw = acct[u].pw /\ to.role = acct[u].role /\ to.disabled = acct[u].disabled
          /\ to.secret = acct[u].secret /\ to.on
      BY <1>4, <3>2 DEF Account
    <3>4. snap.secret \in 0 .. MaxSecret  BY <1>2 DEF Account
    <3> HIDE DEF to
    <3>5. acct' \in [Users -> Account \cup {NoUser}] /\ now = to /\ \A v \in Users \ {u} : acct'[v] = acct[v]
      BY <1>5, <1>2, <3>1, <3>3
    <3>6. /\ confirmed' \in [Users -> 0 .. MaxSecret] /\ confirmed'[u] = snap.secret
          /\ \A v \in Users \ {u} : confirmed'[v] = confirmed[v]
      BY <1>5, <1>2, <2>3, <3>4
    <3>7. QED  BY <1>5, <2>3, <3>3, <3>5, <3>6
  <2>4. CASE /\ op = "switchoff"
             /\ acct' = [acct EXCEPT ![u].on = FALSE, ![u].secret = 0, ![u].last = 0]
             /\ UNCHANGED <<made, confirmed>>
    <3> DEFINE to == [acct[u] EXCEPT !.on = FALSE, !.secret = 0, !.last = 0]
    <3>1. acct' = [acct EXCEPT ![u] = to]
      BY <1>5, <1>2, <2>4
    <3>2. 0 \in 0 .. MaxSecret  BY Limits
    <3>3. /\ to \in Account /\ to.pw = acct[u].pw /\ to.role = acct[u].role /\ to.disabled = acct[u].disabled
          /\ to.secret = 0 /\ ~to.on
      BY <1>4, <2>1, <3>2 DEF Account
    <3> HIDE DEF to
    <3>4. acct' \in [Users -> Account \cup {NoUser}] /\ now = to /\ \A v \in Users \ {u} : acct'[v] = acct[v]
      BY <1>5, <1>2, <3>1, <3>3
    <3>5. QED  BY <1>5, <2>4, <3>3, <3>4
  <2>5. QED  BY <2>2, <2>3, <2>4 DEF SecondWrite, Op
<1>10. /\ \A v \in Users : made[v].secret <= made'[v].secret /\ made'[v].secret \in Nat /\ made[v].secret \in Nat
      /\ now # NoUser /\ acct[u].secret <= made[u].secret /\ acct[u].secret \in Nat /\ secret > made[u].secret
  <2>1. \A v \in Users : made'[v].secret \in Nat /\ made[v].secret \in Nat
    BY <1>5, <1>9
  <2>2. acct[u].secret <= made[u].secret /\ acct[u].secret \in Nat
    BY <1>2, <1>4 DEF IInv, Secrets, Account
  <2>3. known = made[u].secret \/ known = secret
    BY <1>9
  <2>4. now # NoUser  BY <1>9, Nothing
  <2>5. QED  BY <1>2, <1>9, <2>1, <2>2, <2>3, <2>4
<1> HIDE DEF secret, now, known, op
<1>11. Copied'
  <2>1. ASSUME NEW x \in Reqs
        PROVE  /\ Place(req'[x]) /\ Checked(req'[x])
               /\ Worth(req'[x], acct'[req'[x].user], made'[req'[x].user].secret, lapse'[req'[x].user])
    <3>1. CASE x = r
      BY <1>7, <3>1, IdleKnown, IdleType DEF Known, Worth
    <3>2. CASE x # r
      BY <1>2, <1>4, <1>7, <1>8, <1>9, <1>10, <3>2, OthersPassed DEF now
    <3>3. QED  BY <3>1, <3>2
  <2>2. QED  BY <2>1 DEF Copied, Current
<1>12. Secrets'
  <2>1. ASSUME NEW v \in Users
        PROVE  /\ ~lapse'[v] => acct'[v] # NoUser /\ (acct'[v].on => acct'[v].secret > 0)
               /\ acct'[v] # NoUser => acct'[v].secret <= made'[v].secret
    <3>1. CASE v = u
      <4>1. ~lapse'[u] /\ now.on => now.secret > 0
        BY <1>2, <1>3, <1>8, <1>9, <1>10 DEF now, secret, op, IInv, Secrets
      <4>2. QED  BY <1>9, <1>10, <3>1, <4>1 DEF now, known, secret
    <3>2. CASE v # u
      BY <1>8, <1>9, <3>2 DEF IInv, Secrets
    <3>3. QED  BY <3>1, <3>2
  <2>2. QED  BY <2>1 DEF Secrets
<1>13. Behind'
  <2>1. ASSUME NEW v \in Users, NEW c \in used[v]
        PROVE  /\ c.secret <= made'[v].secret
               /\ ~lapse'[v] => c.secret > 0
               /\ ~lapse'[v] /\ acct'[v].secret = c.secret => acct'[v].on /\ c.step <= acct'[v].last
    <3>1. /\ c.secret <= made[v].secret /\ c.secret \in Nat
          /\ ~lapse[v] => c.secret > 0
          /\ ~lapse[v] /\ acct[v].secret = c.secret => acct[v].on /\ c.step <= acct[v].last
      <4>1. c \in AppCode  BY DEF IInv, TypeOK
      <4>2. QED  BY <4>1 DEF IInv, Behind, AppCode
    <3>2. CASE v = u
      BY <1>8, <1>9, <1>10, <3>1, <3>2 DEF now, known, secret
    <3>3. CASE v # u
      BY <1>8, <1>9, <3>1, <3>3
    <3>4. QED  BY <3>2, <3>3
  <2>2. QED  BY <1>6, <2>1 DEF Behind
<1>14. SecretIsConfirmed'
  <2>1. ASSUME NEW v \in Users, acct'[v] # NoUser, acct'[v].on
        PROVE  acct'[v].secret = confirmed'[v] \/ mixed'[v]
    <3>1. CASE v = u
      BY <1>3, <1>8, <1>9, <2>1, <3>1 DEF now, op
    <3>2. CASE v # u
      BY <1>8, <1>9, <2>1, <3>2 DEF IInv, SecretIsConfirmed
    <3>3. QED  BY <3>1, <3>2
  <2>2. QED  BY <2>1 DEF SecretIsConfirmed
<1>15. \A x \in Reqs : req[x].pc = "end" => req'[x].pc = "end" /\ req'[x].user = req[x].user
  BY <1>1, <1>7, StaleMarks DEF Same
<1>16. \A v \in Users : SamePerson(acct[v], acct'[v])
  BY <1>4, <1>9, <1>10 DEF SamePerson, now
<1>17. QED  BY <1>7, <1>8, <1>9, <1>11, <1>12, <1>13, <1>14, <1>15, <1>16

LEMMA AccountWriteMoves ==
  ASSUME IInv, NEW r \in Reqs, AccountWrite(r)
  PROVE  /\ acct' \in [Users -> Account \cup {NoUser}] /\ req' \in [Reqs -> Request]
         /\ made' \in [Users -> [pw: 1 .. MaxPw, secret: 0 .. MaxSecret]]
         /\ lapse' \in [Users -> BOOLEAN]
         /\ Copied' /\ Secrets' /\ Behind' /\ SecretIsConfirmed' /\ SessionsFollowAccount'
<1> DEFINE u == req[r].user
           op == req[r].op
           now == acct'[u]
           next == req'[r]
<1>1. Known(req[r]) /\ req[r].pc = "write" /\ op \in AdminOps \cup {"change"}
  BY NowKnown DEF AccountWrite, At, Op
<1>2. /\ u \in Users /\ req[r].sid = NoCookie
      /\ (op = "create") <=> (acct[u] = NoUser)
      /\ acct[u] # NoUser => acct[u] \in Account
  BY <1>1 DEF AccountWrite, Op, Mine, Known, Place, IInv, TypeOK
<1>3. /\ acct \in [Users -> Account \cup {NoUser}] /\ lapse \in [Users -> BOOLEAN]
      /\ made \in [Users -> [pw: 1 .. MaxPw, secret: 0 .. MaxSecret]]
  BY DEF IInv, TypeOK
<1>4. sessions' = sessions /\ used' = used /\ confirmed' = confirmed /\ mixed' = mixed
  BY DEF AccountWrite, tables
<1>5. /\ made' \in [Users -> [pw: 1 .. MaxPw, secret: 0 .. MaxSecret]]
      /\ \A v \in Users : made'[v].secret = made[v].secret
      /\ NewPassword(op) => made[u].pw + 1 \in 1 .. MaxPw
  <2>1. made[u].pw \in 1 .. MaxPw /\ made[u].secret \in 0 .. MaxSecret  BY <1>2, <1>3
  <2>2. NewPassword(op) => made[u].pw < MaxPw  BY DEF AccountWrite, Op
  <2>3. NewPassword(op) => made[u].pw + 1 \in 1 .. MaxPw  BY <2>1, <2>2, Limits
  <2>4. CASE NewPassword(op)
    <3> DEFINE out == [made[u] EXCEPT !.pw = @ + 1]
    <3>1. made' = [made EXCEPT ![u] = out]
      BY <1>2, <1>3, <2>4 DEF AccountWrite, Op
    <3>2. out \in [pw: 1 .. MaxPw, secret: 0 .. MaxSecret] /\ out.secret = made[u].secret
      BY <1>2, <1>3, <2>3, <2>4
    <3> HIDE DEF out
    <3>3. QED  BY <1>2, <1>3, <2>3, <3>1, <3>2
  <2>5. CASE ~NewPassword(op)
    BY <1>3, <2>5 DEF AccountWrite, Op
  <2>6. QED  BY <2>4, <2>5
<1>6. /\ acct' \in [Users -> Account \cup {NoUser}]
      /\ \A v \in Users \ {u} : acct'[v] = acct[v]
      /\ now = Changed(r)
  <2>1. Changed(r) \in Account \cup {NoUser}
    <3>1. acct[u] \in Account \/ op = "create"  BY <1>2
    <3>2. CASE op \in {"reset", "change"}
      <4>1. made[u].pw + 1 \in 1 .. MaxPw  BY <1>5, <3>2 DEF NewPassword
      <4>2. [acct[u] EXCEPT !.pw = made[u].pw + 1] \in Account  BY <3>1, <3>2, <4>1 DEF Account
      <4>3. QED  BY <3>2, <4>2 DEF Changed, Op
    <3>3. CASE op = "role"
      <4> DEFINE other(role) == CHOOSE x \in Roles : x # role
      <4>1. other(acct[u].role) \in Roles
        <5>1. \E x \in Roles : x # acct[u].role  BY DEF Roles
        <5>2. QED  BY <5>1
      <4> HIDE DEF other
      <4>2. [acct[u] EXCEPT !.role = other(acct[u].role)] \in Account  BY <3>1, <3>3, <4>1 DEF Account
      <4>3. QED  BY <3>1, <3>3, <4>2 DEF Changed, Op, other
    <3>4. CASE op \in {"block", "unblock"}
      <4>1. [acct[u] EXCEPT !.disabled = TRUE] \in Account /\ [acct[u] EXCEPT !.disabled = FALSE] \in Account
        BY <3>1, <3>4 DEF Account
      <4>2. QED  BY <3>4, <4>1 DEF Changed, Op
    <3>5. CASE op = "delete"
      BY <3>5 DEF Changed, Op
    <3>6. CASE op = "create"
      <4>1. made[u].pw + 1 \in 1 .. MaxPw  BY <1>5, <3>6 DEF NewPassword
      <4>2. 0 \in 0 .. MaxSecret /\ 0 \in 0 .. (MaxClock + 1)  BY Limits
      <4>3. QED  BY <3>6, <4>1, <4>2 DEF Changed, Op, Account, Roles
    <3>7. QED  BY <1>1, <3>2, <3>3, <3>4, <3>5, <3>6 DEF AdminOps
  <2>2. acct' = [acct EXCEPT ![u] = Changed(r)]  BY DEF AccountWrite
  <2>3. QED  BY <1>2, <1>3, <2>1, <2>2
<1>7. op \notin {"delete", "create"} =>
        /\ now \in Account /\ acct[u] \in Account
        /\ (now.on <=> acct[u].on) /\ now.secret = acct[u].secret /\ now.last = acct[u].last
        /\ op = "unblock" => now.pw = acct[u].pw /\ now.role = acct[u].role /\ ~now.disabled
        /\ op = "change" => (now.disabled <=> acct[u].disabled)
  <2>1. CASE op \in {"reset", "change"}
    <3>1. now = [acct[u] EXCEPT !.pw = made[u].pw + 1]  BY <1>6, <2>1 DEF Changed, Op
    <3>2. made[u].pw + 1 \in 1 .. MaxPw /\ acct[u] \in Account  BY <1>2, <1>5, <2>1 DEF NewPassword
    <3> HIDE DEF now
    <3>3. now \in Account /\ now.on = acct[u].on /\ now.secret = acct[u].secret /\ now.last = acct[u].last
          /\ now.disabled = acct[u].disabled
      BY <3>1, <3>2 DEF Account
    <3>4. QED  BY <2>1, <3>2, <3>3
  <2>2. CASE op = "role"
    <3> DEFINE role == CHOOSE x \in Roles : x # acct[u].role
    <3>1. now = [acct[u] EXCEPT !.role = role]  BY <1>2, <1>6, <2>2 DEF Changed, Op, Account
    <3>2. role \in Roles
      <4>1. \E x \in Roles : x # acct[u].role  BY DEF Roles
      <4>2. QED  BY <4>1
    <3>3. acct[u] \in Account  BY <1>2, <2>2
    <3> HIDE DEF now, role
    <3>4. now \in Account /\ now.on = acct[u].on /\ now.secret = acct[u].secret /\ now.last = acct[u].last
      BY <3>1, <3>2, <3>3 DEF Account
    <3>5. QED  BY <2>2, <3>3, <3>4
  <2>3. CASE op \in {"block", "unblock"}
    <3>1. acct[u] \in Account  BY <1>2, <2>3
    <3>2. now = [acct[u] EXCEPT !.disabled = (op = "block")]  BY <1>6, <2>3 DEF Changed, Op
    <3>3. (op = "block") \in BOOLEAN /\ (op = "unblock" => ~(op = "block"))  OBVIOUS
    <3> HIDE DEF now
    <3>4. QED  BY <2>3, <3>1, <3>2, <3>3 DEF Account
  <2>4. QED  BY <1>1, <2>1, <2>2, <2>3 DEF AdminOps
<1>8. now = NoUser <=> op = "delete"
  <2>1. CASE op = "delete"
    BY <1>6, <2>1 DEF Changed, Op
  <2>2. CASE op = "create"
    <3>1. now.pw = made[u].pw + 1  BY <1>6, <2>2 DEF Changed, Op
    <3>2. now \in Account
      <4>1. made[u].pw + 1 \in 1 .. MaxPw  BY <1>5, <2>2 DEF NewPassword
      <4>2. 0 \in 0 .. MaxSecret /\ 0 \in 0 .. (MaxClock + 1)  BY Limits
      <4>3. QED  BY <1>6, <2>2, <4>1, <4>2 DEF Changed, Op, Account, Roles
    <3>3. QED  BY <2>2, <3>2, Nothing
  <2>3. CASE op \notin {"delete", "create"}
    BY <1>7, <2>3, Nothing
  <2>4. QED  BY <2>1, <2>2, <2>3
<1>9. now # NoUser => now \in Account /\ now.secret <= made[u].secret
  <2>1. CASE op = "create"
    BY <1>2, <1>3, <1>6, <1>8, <2>1 DEF Changed, Op
  <2>2. CASE op # "create"
    BY <1>2, <1>7, <1>8, <2>2 DEF IInv, Secrets
  <2>3. QED  BY <2>1, <2>2
<1>10. /\ lapse' \in [Users -> BOOLEAN]
       /\ lapse'[u] <=> lapse[u] \/ op \in {"delete", "create"}
       /\ \A v \in Users \ {u} : lapse'[v] = lapse[v]
  BY <1>2, <1>3 DEF AccountWrite, Op
<1>11. /\ req' \in [Reqs -> Request]
       /\ \A x \in Reqs \ {r} : /\ Same(req'[x], req[x]) /\ req'[x].stale = req[x].stale
                                /\ Copies(x, u) => /\ req'[x].raced
                                                   /\ op \in {"delete", "create"} => req'[x].crossed
       /\ op \in {"create", "unblock"} => next = Idle
       /\ op \notin {"create", "unblock"} =>
            next = [req[r] EXCEPT !.pc = "end", !.raced = (op = "change" /\ acct[u].disabled),
                                  !.snap = IF op = "change" THEN now ELSE NoUser]
  <2> DEFINE to == IF op \in {"create", "unblock"} THEN Idle
                   ELSE [req[r] EXCEPT !.pc = "end", !.raced = (op = "change" /\ acct[u].disabled),
                                       !.snap = IF op = "change" THEN now ELSE NoUser]
             f == IF op \in {"delete", "create"} THEN WithCrossed(req, r) ELSE req
  <2>1. req' = [WithRaced(f, u) EXCEPT ![r] = to]
    BY <1>6 DEF AccountWrite, Op, Mine
  <2>2. to \in Request
    <3>1. CASE op \in {"create", "unblock"}
      BY <3>1, IdleType
    <3>2. CASE op \notin {"create", "unblock"}
      <4> DEFINE raced == (op = "change" /\ acct[u].disabled)
                 snap == IF op = "change" THEN now ELSE NoUser
      <4>1. raced \in BOOLEAN /\ snap \in Account \cup {NoUser}
        BY <1>2, <1>6
      <4> HIDE DEF raced, snap
      <4>2. [req[r] EXCEPT !.pc = "end", !.raced = raced, !.snap = snap] \in Request
        BY <1>1, <4>1 DEF Known, Request, PCs
      <4>3. QED  BY <3>2, <4>2 DEF raced, snap
    <3>3. QED  BY <3>1, <3>2
  <2> HIDE DEF to
  <2>3. /\ f \in [Reqs -> Request]
        /\ \A x \in Reqs : /\ Same(f[x], req[x]) /\ f[x].stale = req[x].stale
                           /\ x # r /\ Copies(x, u) /\ op \in {"delete", "create"} => f[x].crossed
    <3>1. req \in [Reqs -> Request] /\ \A x \in Reqs : Same(req[x], req[x])
      BY DEF IInv, TypeOK, Same
    <3>2. QED  BY <3>1, CrossedMarks
  <2> HIDE DEF f
  <2>4. /\ WithRaced(f, u) \in [Reqs -> Request]
        /\ \A x \in Reqs : LET p == WithRaced(f, u)[x]
                           IN /\ Same(p, req[x])
                              /\ p.stale = f[x].stale /\ p.crossed = f[x].crossed
                              /\ Copies(x, u) => p.raced
    BY <1>2, <2>3, RacedMarks
  <2>5. /\ req' \in [Reqs -> Request] /\ next = to
        /\ \A x \in Reqs \ {r} : req'[x] = WithRaced(f, u)[x]
    BY <2>1, <2>2, <2>4
  <2>6. \A x \in Reqs \ {r} : /\ Same(req'[x], req[x]) /\ req'[x].stale = req[x].stale
                              /\ Copies(x, u) => /\ req'[x].raced
                                                 /\ op \in {"delete", "create"} => req'[x].crossed
    BY <2>3, <2>4, <2>5
  <2>7. QED  BY <2>5, <2>6 DEF to
<1> HIDE DEF now, next
<1>12. Copied'
  <2>1. ASSUME NEW x \in Reqs
        PROVE  /\ Place(req'[x]) /\ Checked(req'[x])
               /\ Worth(req'[x], acct'[req'[x].user], made'[req'[x].user].secret, lapse'[req'[x].user])
    <3>1. CASE x = r /\ op \in {"create", "unblock"}
      BY <1>11, <3>1, IdleKnown, IdleType DEF Known, Worth, next
    <3>2. CASE x = r /\ op \notin {"create", "unblock"}
      <4> DEFINE raced == (op = "change" /\ acct[u].disabled)
                 snap == IF op = "change" THEN now ELSE NoUser
                 q == [req[r] EXCEPT !.pc = "end", !.raced = raced, !.snap = snap]
      <4>1. req'[x] = q  BY <1>11, <3>2 DEF next
      <4>2. /\ raced \in BOOLEAN /\ (op = "change" => (raced <=> now.disabled))
            /\ (snap = NoUser <=> op # "change") /\ (snap # NoUser => snap = now)
        BY <1>7, <1>8, Nothing DEF Account
      <4> HIDE DEF raced, snap
      <4>3. /\ q.pc = "end" /\ q.op = op /\ q.user = u /\ q.sid = NoCookie /\ (q.raced <=> raced)
            /\ q.snap = snap
        BY <1>1, <1>2, <4>2 DEF Known, Request
      <4> HIDE DEF q
      <4>4. Place(q)  BY <1>1, <1>2, <3>2, <4>2, <4>3 DEF Place, OwnOps, AdminOps
      <4>5. Checked(q)  BY <1>2, <4>2, <4>3 DEF Checked
      <4>6. Worth(q, now, made'[u].secret, lapse'[u])
        BY <1>2, <1>5, <1>9, <4>2, <4>3 DEF Worth
      <4>7. QED  BY <4>1, <4>3, <4>4, <4>5, <4>6 DEF now
    <3>3. CASE x # r
      <4>1. /\ Same(req'[x], req[x]) /\ req'[x].stale = req[x].stale
            /\ Copies(x, u) => /\ req'[x].raced
                               /\ op \in {"delete", "create"} => req'[x].crossed
        BY <1>11, <3>3
      <4>2. Place(req[x]) /\ Checked(req[x]) /\ Current(req[x])
        BY DEF IInv, Copied
      <4>3. Place(req'[x]) /\ Checked(req'[x])  BY <4>1, <4>2, SameKnown
      <4>4. CASE req[x].snap = NoUser
        BY <4>1, <4>3, <4>4 DEF Same, Worth
      <4>5. CASE req[x].snap # NoUser
        <5>1. req[x].user \in Users  BY <4>2, <4>5 DEF Checked
        <5>2. CASE req[x].user = u
          <6>1. /\ req'[x].raced /\ req'[x].user = u /\ req'[x].snap = req[x].snap /\ req'[x].op = req[x].op
                /\ req'[x].pc = req[x].pc
            BY <4>1, <4>5, <5>2 DEF Same, Copies
          <6>2. req[x].snap.secret <= made'[u].secret
            BY <1>2, <1>5, <4>2, <4>5, <5>2 DEF Current, Worth
          <6>3. ~req[x].stale /\ ~lapse'[u] =>
                  /\ now.on = req[x].snap.on /\ now.secret = req[x].snap.secret
                  /\ req[x].op = "login" /\ req[x].pc \in {"check", "record"} => now.last = req[x].snap.last
            BY <1>7, <1>10, <4>2, <4>5, <5>2 DEF Current, Worth, Account, IInv, TypeOK, Request
          <6>4. ~req'[x].crossed => now.on = req[x].snap.on /\ now.secret = req[x].snap.secret
            <7>1. ~req'[x].crossed => ~req[x].crossed /\ op \notin {"delete", "create"}
              BY <4>1, <4>5, <5>2 DEF Same, Copies
            <7>2. QED  BY <1>7, <4>2, <4>5, <5>2, <7>1 DEF Current, Worth, Account, IInv, TypeOK, Request
          <6>5. Worth(req'[x], now, made'[u].secret, lapse'[u])
            BY <4>1, <6>1, <6>2, <6>3, <6>4 DEF Worth
          <6>6. QED  BY <4>3, <6>1, <6>5 DEF now
        <5>3. CASE req[x].user # u
          BY <1>5, <1>6, <1>10, <4>1, <4>2, <4>3, <4>5, <5>1, <5>3 DEF Current, Worth, Same
        <5>4. QED  BY <5>2, <5>3
      <4>6. QED  BY <4>4, <4>5
    <3>4. QED  BY <3>1, <3>2, <3>3
  <2>2. QED  BY <2>1 DEF Copied, Current
<1>13. Secrets'
  <2>1. ASSUME NEW v \in Users
        PROVE  /\ ~lapse'[v] => acct'[v] # NoUser /\ (acct'[v].on => acct'[v].secret > 0)
               /\ acct'[v] # NoUser => acct'[v].secret <= made'[v].secret
    <3>1. CASE v = u
      <4>1. ~lapse'[u] => (now.on => now.secret > 0)
        BY <1>2, <1>7, <1>10 DEF IInv, Secrets
      <4>2. QED  BY <1>2, <1>5, <1>8, <1>9, <1>10, <3>1, <4>1 DEF now
    <3>2. CASE v # u
      BY <1>5, <1>6, <1>10, <3>2 DEF IInv, Secrets
    <3>3. QED  BY <3>1, <3>2
  <2>2. QED  BY <2>1 DEF Secrets
<1>14. Behind'
  <2>1. ASSUME NEW v \in Users, NEW c \in used[v]
        PROVE  /\ c.secret <= made'[v].secret
               /\ ~lapse'[v] => c.secret > 0
               /\ ~lapse'[v] /\ acct'[v].secret = c.secret => acct'[v].on /\ c.step <= acct'[v].last
    <3>1. /\ c.secret <= made[v].secret
          /\ ~lapse[v] => c.secret > 0
          /\ ~lapse[v] /\ acct[v].secret = c.secret => acct[v].on /\ c.step <= acct[v].last
      BY DEF IInv, Behind
    <3>2. CASE v = u
      BY <1>5, <1>7, <1>10, <3>1, <3>2 DEF now
    <3>3. CASE v # u
      BY <1>5, <1>6, <1>10, <3>1, <3>3
    <3>4. QED  BY <3>2, <3>3
  <2>2. QED  BY <1>4, <2>1 DEF Behind
<1>15. SecretIsConfirmed'
  <2>1. ASSUME NEW v \in Users, acct'[v] # NoUser, acct'[v].on
        PROVE  acct'[v].secret = confirmed'[v] \/ mixed'[v]
    <3>1. CASE v = u
      <4>1. op = "create" => ~now.on  BY <1>6 DEF Changed, Op
      <4>2. QED  BY <1>2, <1>4, <1>7, <1>8, <2>1, <3>1, <4>1 DEF now, IInv, SecretIsConfirmed
    <3>2. CASE v # u
      BY <1>4, <1>6, <1>10, <2>1, <3>2 DEF IInv, SecretIsConfirmed
    <3>3. QED  BY <3>1, <3>2
  <2>2. QED  BY <2>1 DEF SecretIsConfirmed
<1>16. SessionsFollowAccount'
  <2>1. ASSUME NEW e \in sessions
        PROVE  \/ e.user = Owner \/ e.raced
               \/ /\ acct'[e.user] # NoUser
                  /\ ~acct'[e.user].disabled
                  /\ acct'[e.user].pw = e.pw
                  /\ acct'[e.user].role = e.role
               \/ \E x \in Reqs : req'[x].pc = "end" /\ req'[x].user = e.user
    <3>1. CASE e.user = Owner \/ e.raced
      BY <3>1
    <3>2. CASE \E x \in Reqs : At(x, "end") /\ req[x].user = e.user
      <4>1. PICK x \in Reqs : req[x].pc = "end" /\ req[x].user = e.user  BY <3>2 DEF At
      <4>2. req'[x].pc = "end" /\ req'[x].user = e.user
        BY <1>1, <1>2, <1>11, <4>1 DEF Same
      <4>3. QED  BY <4>2
    <3>3. CASE /\ acct[e.user] # NoUser /\ ~acct[e.user].disabled
               /\ acct[e.user].pw = e.pw /\ acct[e.user].role = e.role
               /\ e.user # Owner
      <4>1. e.user \in Users
        <5>1. e \in SessionType  BY DEF IInv, TypeOK, SessionType
        <5>2. QED  BY <3>3, <5>1 DEF SessionType
      <4>2. CASE e.user = u /\ op \in {"create", "unblock"}
        BY <1>2, <1>7, <1>8, <3>3, <4>2 DEF now
      <4>3. CASE e.user = u /\ op \notin {"create", "unblock"}
        <5>1. next.pc = "end" /\ next.user = u
          BY <1>1, <1>11, <4>3 DEF Known, Request
        <5>2. QED  BY <4>3, <5>1 DEF next
      <4>4. CASE e.user # u
        BY <1>6, <3>3, <4>1, <4>4
      <4>5. QED  BY <4>2, <4>3, <4>4
    <3>4. QED  BY <3>1, <3>2, <3>3 DEF IInv, SessionsFollowAccount
  <2>2. QED  BY <1>4, <2>1 DEF SessionsFollowAccount, At
<1>17. QED  BY <1>5, <1>6, <1>10, <1>11, <1>12, <1>13, <1>14, <1>15, <1>16

-------------------------------------------------------------------------------
(* The four parts of the invariant, and the steps that can disturb them. *)

Requests == req \in [Reqs -> Request] /\ Copied

Accounts ==
  /\ acct \in [Users -> Account \cup {NoUser}]
  /\ made \in [Users -> [pw: 1 .. MaxPw, secret: 0 .. MaxSecret]]
  /\ used \in [Users -> SUBSET AppCode]
  /\ confirmed \in [Users -> 0 .. MaxSecret]
  /\ lapse \in [Users -> BOOLEAN] /\ mixed \in [Users -> BOOLEAN]
  /\ Secrets /\ Behind /\ SecretIsConfirmed

Tables ==
  /\ clock \in 1 .. MaxClock
  /\ sessions \subseteq SessionType
  /\ codes \subseteq [key: Codes, exp: Nat]
  /\ state \in [Limited -> Entry]
  /\ cookie \in [Reqs -> Sids \cup {NoCookie}]
  /\ opened \in [Codes -> [issued: 0 .. MaxClock, at: 0 .. MaxClock, count: Nat]]
  /\ Issued /\ Locked /\ Few /\ CodeWorksOnce

LEMMA PartsOfIInv == IInv <=> Requests /\ Accounts /\ Tables /\ SessionsFollowAccount
BY DEF IInv, TypeOK, Requests, Accounts, Tables, SessionType

(* The steps that touch nothing but their request and the limiter. *)
Quiet(r) ==
  \/ LoginRead(r) \/ LoginCheck(r) \/ LoginClear(r) \/ OwnRead(r) \/ ChangeAsk(r)
  \/ PasswordCheck(r) \/ SecondCheck(r) \/ Refused(r)
  \/ \E u \in Users : \E p \in Typed(u), c \in Shown(u) : LoginAsk(r, u, p, c)
  \/ \E op \in OwnOps, p \in Nat, c \in AppCode \cup {NoCode} : Enter(r, op, p, c)
  \/ \E op \in AdminOps, u \in Users : AdminAsk(r, op, u)

Writing(r) == LoginRecord(r) \/ SecondWrite(r) \/ AccountWrite(r)

LEMMA NextIs ==
  ASSUME IInv, Next
  PROVE  \/ \E r \in Reqs : \/ Quiet(r) \/ Writing(r) \/ Open(r) \/ Swap(r) \/ Admit(r) \/ EndAll(r) \/ Logout(r)
                             \/ \E c \in Codes : RedeemCode(r, c)
         \/ \E c \in Codes : LocalLogin(c)
         \/ Tick
         \/ Restart
<1>1. \A u \in Users : Typed(u) \subseteq Nat /\ Shown(u) \subseteq AppCode \cup {NoCode} /\ NoCode \in Shown(u)
  BY DEF Typed, Shown, IInv, TypeOK
<1>2. ASSUME NEW r \in Reqs, NEW op \in {"login", "redeem", "logout"} \cup OwnOps \cup AdminOps, Start(r, op)
      PROVE  Quiet(r) \/ Logout(r) \/ \E c \in Codes : RedeemCode(r, c)
  <2>1. CASE op = "login" /\ \E u \in Users : \E p \in Typed(u), c \in Shown(u) : LoginAsk(r, u, p, c)
    BY <2>1 DEF Quiet
  <2>2. CASE op \in {"visit", "setup"} /\ Enter(r, op, 0, NoCode)
    BY <2>2 DEF Quiet, OwnOps
  <2>3. CASE op \in {"change", "switchoff"} /\ \E u \in Users : \E p \in Typed(u) : Enter(r, op, p, NoCode)
    BY <1>1, <2>3 DEF Quiet, OwnOps
  <2>4. CASE op = "enable" /\ \E u \in Users : \E c \in Shown(u) : Enter(r, op, 0, c)
    BY <1>1, <2>4 DEF Quiet, OwnOps
  <2>5. CASE op \in AdminOps /\ \E u \in Users : AdminAsk(r, op, u)
    BY <2>5 DEF Quiet
  <2>6. QED  BY <1>2, <2>1, <2>2, <2>3, <2>4, <2>5 DEF Start
<1>3. ASSUME NEW r \in Reqs, Go(r)
      PROVE  Quiet(r) \/ Writing(r) \/ Open(r) \/ Swap(r) \/ Admit(r) \/ EndAll(r)
  BY <1>3 DEF Go, Quiet, Writing
<1>4. QED  BY <1>2, <1>3 DEF Next

LEMMA QuietMoves ==
  ASSUME IInv, NEW r \in Reqs, Quiet(r)
  PROVE  /\ Step(r) /\ req[r].pc \notin {"end", "record", "open"}
         /\ UNCHANGED <<clock, acct, made, tables, cookie, history>>
         /\ state' \in [Limited -> Entry] /\ Locked'
<1>1. /\ state \in [Limited -> Entry] /\ clock \in Nat
      /\ Locked
  BY Limits DEF IInv, TypeOK
<1>2. RightTable(state)  BY <1>1 DEF Locked, RightTable
<1>3. ASSUME \/ state' = state
             \/ \E keys : state' \in {Fail(state, keys, clock), Succeed(state, keys)}
      PROVE  state' \in [Limited -> Entry] /\ Locked'
  <2>1. ASSUME NEW keys, state' \in {Fail(state, keys, clock), Succeed(state, keys)}
        PROVE  RightTable(state')
    <3>1. RightTable(Fail(state, keys, clock)) /\ RightTable(Succeed(state, keys))
      BY <1>1, <1>2, LimiterMoves
    <3>2. QED  BY <2>1, <3>1
  <2>2. RightTable(state')  BY <1>2, <1>3, <2>1
  <2>3. QED  BY <2>2 DEF Locked, RightTable
<1>4. CASE LoginRead(r)
  BY <1>3, <1>4, LoginReadStep DEF LoginRead, At
<1>5. CASE LoginCheck(r)
  BY <1>3, <1>5, LoginCheckStep DEF LoginCheck, At
<1>6. CASE LoginClear(r)
  BY <1>3, <1>6, LoginClearStep DEF LoginClear, At
<1>7. CASE OwnRead(r)
  BY <1>3, <1>7, OwnReadStep DEF OwnRead, At
<1>8. CASE ChangeAsk(r)
  BY <1>3, <1>8, ChangeAskStep DEF ChangeAsk, At
<1>9. CASE PasswordCheck(r)
  BY <1>3, <1>9, PasswordCheckStep DEF PasswordCheck, At
<1>10. CASE SecondCheck(r)
  BY <1>3, <1>10, SecondCheckStep DEF SecondCheck, At
<1>11. CASE Refused(r)
  BY <1>3, <1>11, DoneStep DEF Refused, At
<1>12. CASE \E u \in Users : \E p \in Typed(u), c \in Shown(u) : LoginAsk(r, u, p, c)
  BY <1>3, <1>12, LoginAskStep DEF LoginAsk, At
<1>13. CASE \E op \in OwnOps, p \in Nat, c \in AppCode \cup {NoCode} : Enter(r, op, p, c)
  BY <1>3, <1>13, EnterStep DEF Enter, At
<1>14. CASE \E op \in AdminOps, u \in Users : AdminAsk(r, op, u)
  BY <1>3, <1>14, AdminAskStep DEF AdminAsk, At
<1>15. QED  BY <1>4, <1>5, <1>6, <1>7, <1>8, <1>9, <1>10, <1>11, <1>12, <1>13, <1>14 DEF Quiet

LEMMA AccountsStep ==
  ASSUME IInv, Next
  PROVE  Accounts'
<1>1. CASE \E r \in Reqs : Writing(r)
  <2>1. PICK r \in Reqs : Writing(r)  BY <1>1
  <2>2. CASE LoginRecord(r)
    <3>1. made' = made /\ confirmed' = confirmed /\ mixed' = mixed  BY <2>2 DEF LoginRecord
    <3>2. QED  BY <2>2, <3>1, LoginRecordMoves DEF Accounts, IInv, TypeOK
  <2>3. CASE SecondWrite(r)
    <3>1. used' = used  BY <2>3 DEF SecondWrite
    <3>2. QED  BY <2>3, <3>1, SecondWriteMoves DEF Accounts, IInv, TypeOK
  <2>4. CASE AccountWrite(r)
    <3>1. used' = used /\ confirmed' = confirmed /\ mixed' = mixed  BY <2>4 DEF AccountWrite
    <3>2. QED  BY <2>4, <3>1, AccountWriteMoves DEF Accounts, IInv, TypeOK
  <2>5. QED  BY <2>1, <2>2, <2>3, <2>4 DEF Writing
<1>2. CASE ~\E r \in Reqs : Writing(r)
  <2>1. UNCHANGED <<acct, made, used, confirmed, lapse, mixed>>
    BY <1>2, NextIs, QuietMoves DEF Open, Swap, Admit, EndAll, Logout, RedeemCode, LocalLogin, Tick, Restart, history
  <2>2. Accounts  BY PartsOfIInv
  <2>3. QED  BY <2>1, <2>2 DEF Accounts, Secrets, Behind, SecretIsConfirmed
<1>3. QED  BY <1>1, <1>2

LEMMA RequestsStep ==
  ASSUME IInv, Next
  PROVE  Requests'
<1>1. CASE \E r \in Reqs : Writing(r)
  BY <1>1, LoginRecordMoves, SecondWriteMoves, AccountWriteMoves DEF Writing, Requests
<1>2. CASE ~\E r \in Reqs : Writing(r)
  <2>1. UNCHANGED <<acct, made, lapse>>
    BY <1>2, NextIs, QuietMoves DEF Open, Swap, Admit, EndAll, Logout, RedeemCode, LocalLogin, Tick, Restart, history
  <2>2. (\E r \in Reqs : Step(r)) \/ UNCHANGED req \/ req' = [r \in Reqs |-> Idle]
    BY <1>2, NextIs, QuietMoves, OpenStep, SwapStep, AdmitStep, EndAllStep, RedeemCodeStep
       DEF Logout, LocalLogin, Tick, Restart
  <2>3. \A x \in Reqs : Known(req'[x])
    <3>1. \A x \in Reqs : Known(req[x])  BY NowKnown
    <3>2. CASE \E r \in Reqs : Step(r)
      BY <3>1, <3>2 DEF Step, IInv, TypeOK
    <3>3. CASE UNCHANGED req
      BY <3>1, <3>3
    <3>4. CASE req' = [r \in Reqs |-> Idle]
      BY <3>4, IdleKnown
    <3>5. QED  BY <2>2, <3>2, <3>3, <3>4
  <2>4. req' \in [Reqs -> Request]
    BY <2>2, <2>3 DEF Step, Known, IInv, TypeOK
  <2>5. QED  BY <2>1, <2>3, <2>4 DEF Requests, Copied, Known, Current
<1>3. QED  BY <1>1, <1>2

(* Fewer sessions and codes do no harm. *)
LEMMA FewerStep ==
  ASSUME IInv, sessions' \subseteq sessions, codes' \subseteq codes, clock' \in 1 .. MaxClock,
         state' \in [Limited -> Entry], Locked', cookie' \in [Reqs -> Sids \cup {NoCookie}], opened' = opened
  PROVE  Tables'
<1>1. Tables  BY PartsOfIInv
<1>2. Few'
  <2>1. IsFiniteSet(sessions') /\ Cardinality(sessions') <= Cardinality(sessions)
    BY <1>1, FS_Subset DEF Tables, Few
  <2>2. Cardinality(sessions') \in Nat /\ Cardinality(sessions) \in Nat
    BY <1>1, <2>1, FS_CardinalityType DEF Tables, Few
  <2>3. QED  BY <1>1, <2>1, <2>2, Limits DEF Tables, Few
<1>3. Issued' /\ CodeWorksOnce'
  BY <1>1 DEF Tables, Issued, CodeWorksOnce
<1>4. QED  BY <1>1, <1>2, <1>3 DEF Tables

LEMMA Expiring ==
  ASSUME NEW k, NEW u, NEW x, NEW p, NEW b, NEW n, NEW t
  PROVE  [[key |-> k, exp |-> n, user |-> u, role |-> x, pw |-> p, raced |-> b] EXCEPT !.exp = t]
           = [key |-> k, exp |-> t, user |-> u, role |-> x, pw |-> p, raced |-> b]
OBVIOUS

(* The new session of a request at "open". *)
LEMMA EntranceIs ==
  ASSUME IInv, NEW r \in Reqs, req[r].pc = "open"
  PROVE  LET e == [Entrance(r) EXCEPT !.exp = clock + SessionTTL]
         IN /\ e \in SessionType /\ e.key = FreshSid
            /\ \/ e.user = Owner \/ e.raced
               \/ /\ acct[e.user] # NoUser /\ ~acct[e.user].disabled
                  /\ acct[e.user].pw = e.pw /\ acct[e.user].role = e.role
<1> DEFINE e == [Entrance(r) EXCEPT !.exp = clock + SessionTTL]
<1>1. Known(req[r])  BY NowKnown
<1>2. FreshSid \in Sids  BY <1>1, FreshSidType DEF Known, Place, IInv
<1>3. clock + SessionTTL \in Nat  BY Limits DEF IInv, TypeOK
<1>4. CASE req[r].op = "redeem"
  <2>1. e = [key |-> FreshSid, exp |-> clock + SessionTTL, user |-> Owner, role |-> "admin", pw |-> 0, raced |-> FALSE]
    <3>1. Entrance(r) =
            [key |-> FreshSid, exp |-> 0, user |-> Owner, role |-> "admin", pw |-> 0, raced |-> FALSE]
      BY <1>4 DEF Entrance, Op
    <3>2. \A x, p, b, n : Entrance(r) = [key |-> FreshSid, exp |-> n, user |-> Owner, role |-> x, pw |-> p, raced |-> b]
            => e = [key |-> FreshSid, exp |-> clock + SessionTTL, user |-> Owner, role |-> x, pw |-> p, raced |-> b]
      BY Expiring
    <3>3. QED  BY <3>1, <3>2, Zenon
  <2> HIDE DEF e
  <2>2. "admin" \in Roles /\ 0 \in 0 .. MaxPw  BY Limits DEF Roles
  <2>3. e \in SessionType  BY <1>2, <1>3, <2>1, <2>2 DEF SessionType
  <2>4. e.key = FreshSid /\ e.user = Owner  BY <2>1
  <2>5. QED  BY <2>3, <2>4 DEF e
<1>5. CASE req[r].op # "redeem"
  <2> DEFINE u == req[r].user  snap == req[r].snap
  <2>1. /\ req[r].op \in {"login", "change"} /\ u \in Users /\ snap \in Account /\ snap # NoUser
        /\ req[r].raced \in BOOLEAN
    BY <1>1, <1>5 DEF Known, Place, Request, OwnOps
  <2>2. e = [key |-> FreshSid, exp |-> clock + SessionTTL, user |-> u, role |-> snap.role, pw |-> snap.pw,
             raced |-> req[r].raced]
    BY <1>5 DEF Entrance, Op
  <2>3. req[r].raced \/ ~snap.disabled
    BY <1>1, <2>1 DEF Known, Checked
  <2>4. ~req[r].raced => /\ acct[u] # NoUser /\ ~acct[u].disabled
                         /\ acct[u].pw = snap.pw /\ acct[u].role = snap.role
    BY <1>1, <2>1, <2>3 DEF Known, Current, Worth
  <2>5. snap.role \in Roles /\ snap.pw \in 0 .. MaxPw
    BY <2>1, Limits DEF Account
  <2> HIDE DEF e
  <2>6. e \in SessionType
    BY <1>2, <1>3, <2>1, <2>2, <2>5 DEF SessionType
  <2>7. QED  BY <2>1, <2>2, <2>4, <2>6 DEF e
<1>6. QED  BY <1>4, <1>5

LEMMA OpenMoves ==
  ASSUME IInv, NEW r \in Reqs, Open(r)
  PROVE  Tables'
<1> DEFINE new == [Entrance(r) EXCEPT !.exp = clock + SessionTTL]
<1>1. Tables  BY PartsOfIInv
<1>2. new \in SessionType  BY EntranceIs DEF Open, At
<1>3. /\ IsFiniteSet(sessions') /\ Cardinality(sessions') <= MaxSessions
      /\ sessions' \subseteq sessions \cup {new}
  BY <1>1, NewSessionMoves DEF Open, Tables
<1>4. sessions' \subseteq SessionType  BY <1>1, <1>2, <1>3 DEF Tables
<1>5. codes' \subseteq codes  BY DEF Open, Kept
<1>6. UNCHANGED <<clock, state, cookie, opened>>  BY DEF Open, history
<1>7. Issued' /\ CodeWorksOnce' /\ Locked'
  BY <1>1, <1>5, <1>6 DEF Tables, Issued, CodeWorksOnce, Locked
<1>8. QED  BY <1>1, <1>3, <1>4, <1>5, <1>6, <1>7 DEF Tables, Few

LEMMA RedeemCodeMoves ==
  ASSUME IInv, NEW r \in Reqs, NEW c \in Codes, RedeemCode(r, c)
  PROVE  Tables'
<1>1. Tables  BY PartsOfIInv
<1>2. codes' = {e \in codes : e.key # c} /\ UNCHANGED <<clock, sessions, state, cookie>>
  BY DEF RedeemCode, Taken
<1>3. CASE UNCHANGED opened
  <2>1. Locked'  BY <1>1, <1>2 DEF Tables, Locked
  <2>2. QED  BY <1>1, <1>2, <1>3, <2>1, FewerStep DEF Tables
<1>4. CASE /\ Redeemable(codes, c, clock)
           /\ opened' = [opened EXCEPT ![c].at = clock, ![c].count = @ + 1]
  <2>1. PICK e \in codes : e.key = c /\ clock <= e.exp  BY <1>4 DEF Redeemable
  <2>2. /\ opened[c].count = 0 /\ opened[c].issued # 0 /\ clock <= opened[c].issued + CodeTTL
    BY <1>1, <2>1 DEF Tables, Issued
  <2> DEFINE o == [opened[c] EXCEPT !.at = clock, !.count = 1]
  <2>3. opened[c] \in [issued: 0 .. MaxClock, at: 0 .. MaxClock, count: Nat] /\ clock \in 0 .. MaxClock
    BY <1>1 DEF Tables
  <2>4. opened' = [opened EXCEPT ![c] = o]
    BY <1>1, <1>4, <2>2 DEF Tables
  <2>5. o \in [issued: 0 .. MaxClock, at: 0 .. MaxClock, count: Nat]
        /\ o.issued = opened[c].issued /\ o.at = clock /\ o.count = 1
    BY <2>2, <2>3
  <2> HIDE DEF o
  <2>6. /\ opened' \in [Codes -> [issued: 0 .. MaxClock, at: 0 .. MaxClock, count: Nat]]
        /\ opened'[c] = o /\ \A d \in Codes \ {c} : opened'[d] = opened[d]
    BY <1>1, <2>4, <2>5 DEF Tables
  <2>7. Issued'
    <3>1. ASSUME NEW d \in codes' PROVE /\ opened'[d.key].issued # 0 /\ opened'[d.key].count = 0
                                        /\ d.exp = opened'[d.key].issued + CodeTTL
      <4>1. d \in codes /\ d.key \in Codes \ {c}  BY <1>1, <1>2 DEF Tables
      <4>2. QED  BY <1>1, <2>6, <4>1 DEF Tables, Issued
    <3>2. \A d \in Codes : opened'[d].issued = 0 => opened'[d].count = 0
      BY <1>1, <2>2, <2>5, <2>6 DEF Tables, Issued
    <3>3. QED  BY <3>1, <3>2 DEF Issued
  <2>8. CodeWorksOnce'
    BY <1>1, <2>2, <2>5, <2>6 DEF Tables, CodeWorksOnce
  <2>9. QED  BY <1>1, <1>2, <2>6, <2>7, <2>8 DEF Tables, Locked, Few
<1>5. QED  BY <1>3, <1>4 DEF RedeemCode

LEMMA LocalLoginMoves ==
  ASSUME IInv, NEW c \in Codes, LocalLogin(c)
  PROVE  Tables'
<1>1. Tables  BY PartsOfIInv
<1>2. /\ codes' = Kept(codes, clock) \cup {[key |-> c, exp |-> clock + CodeTTL]}
      /\ sessions' \subseteq sessions /\ UNCHANGED <<clock, state, cookie>>
      /\ opened[c].issued = 0 /\ opened' = [opened EXCEPT ![c].issued = clock]
  BY DEF LocalLogin, NewCode, Kept
<1>3. Kept(codes, clock) \subseteq codes  BY DEF Kept
<1>4. clock \in 1 .. MaxClock /\ clock + CodeTTL \in Nat  BY <1>1, Limits DEF Tables
<1> DEFINE o == [opened[c] EXCEPT !.issued = clock]
<1>5. opened[c] \in [issued: 0 .. MaxClock, at: 0 .. MaxClock, count: Nat]  BY <1>1 DEF Tables
<1>6. /\ o \in [issued: 0 .. MaxClock, at: 0 .. MaxClock, count: Nat] /\ o.issued = clock
      /\ o.count = 0 /\ o.at = opened[c].at
  BY <1>1, <1>2, <1>4, <1>5 DEF Tables, Issued
<1>7. opened' = [opened EXCEPT ![c] = o]  BY <1>1, <1>2 DEF Tables
<1> HIDE DEF o
<1>8. /\ opened' \in [Codes -> [issued: 0 .. MaxClock, at: 0 .. MaxClock, count: Nat]]
      /\ opened'[c] = o /\ \A d \in Codes \ {c} : opened'[d] = opened[d]
  BY <1>1, <1>6, <1>7 DEF Tables
<1>9. codes' \subseteq [key: Codes, exp: Nat]  BY <1>1, <1>2, <1>3, <1>4 DEF Tables
<1>10. Issued'
  <2>1. ASSUME NEW d \in codes' PROVE /\ opened'[d.key].issued # 0 /\ opened'[d.key].count = 0
                                      /\ d.exp = opened'[d.key].issued + CodeTTL
    <3>1. CASE d = [key |-> c, exp |-> clock + CodeTTL]
      BY <1>4, <1>6, <1>8, <3>1
    <3>2. CASE d \in codes
      <4>1. opened[d.key].issued # 0 /\ opened[d.key].count = 0 /\ d.exp = opened[d.key].issued + CodeTTL
        BY <1>1, <3>2 DEF Tables, Issued
      <4>2. d.key \in Codes \ {c}  BY <1>1, <1>2, <3>2, <4>1 DEF Tables
      <4>3. QED  BY <1>8, <4>1, <4>2
    <3>3. QED  BY <1>2, <1>3, <3>1, <3>2
  <2>2. \A d \in Codes : opened'[d].issued = 0 => opened'[d].count = 0
    BY <1>1, <1>6, <1>8 DEF Tables, Issued
  <2>3. QED  BY <2>1, <2>2 DEF Issued
<1>11. CodeWorksOnce'
  <2>1. opened[c].at <= CodeTTL /\ opened[c].at \in Nat
    BY <1>1, <1>2, <1>5, Limits DEF Tables, CodeWorksOnce
  <2>2. o.at <= o.issued + CodeTTL /\ o.count <= 1
    BY <1>4, <1>6, <2>1, Limits
  <2>3. QED  BY <1>1, <1>8, <2>2 DEF Tables, CodeWorksOnce
<1>12. Few'
  <2>1. IsFiniteSet(sessions') /\ Cardinality(sessions') <= Cardinality(sessions)
    BY <1>1, <1>2, FS_Subset DEF Tables, Few
  <2>2. Cardinality(sessions') \in Nat /\ Cardinality(sessions) \in Nat
    BY <1>1, <2>1, FS_CardinalityType DEF Tables, Few
  <2>3. QED  BY <1>1, <2>1, <2>2, Limits DEF Tables, Few
<1>13. QED  BY <1>1, <1>2, <1>8, <1>9, <1>10, <1>11, <1>12 DEF Tables, Locked

LEMMA TablesStep ==
  ASSUME IInv, Next
  PROVE  Tables'
<1>1. Tables  BY PartsOfIInv
<1>2. ASSUME UNCHANGED state PROVE state' \in [Limited -> Entry] /\ Locked'
  BY <1>1, <1>2 DEF Tables, Locked
<1>3. CASE \E r \in Reqs : Quiet(r)
  <2>1. /\ UNCHANGED <<clock, sessions, codes, cookie, opened>>
        /\ state' \in [Limited -> Entry] /\ Locked'
    BY <1>3, QuietMoves DEF tables, history
  <2>2. QED  BY <1>1, <2>1, FewerStep DEF Tables
<1>4. CASE \E r \in Reqs : Writing(r)
  <2>1. UNCHANGED <<clock, sessions, codes, state, cookie, opened>>
    BY <1>4 DEF Writing, LoginRecord, SecondWrite, AccountWrite, tables
  <2>2. QED  BY <1>1, <1>2, <2>1, FewerStep DEF Tables
<1>5. CASE \E r \in Reqs : Open(r)
  BY <1>5, OpenMoves
<1>6. CASE \E r \in Reqs : Swap(r)
  <2>1. PICK r \in Reqs : Swap(r)  BY <1>6
  <2>2. req[r].sid \in Sids \cup {NoCookie}  BY DEF IInv, TypeOK, Request
  <2>3. /\ sessions' \subseteq sessions /\ UNCHANGED <<clock, codes, state, opened>>
        /\ cookie' = [cookie EXCEPT ![r] = req[r].sid]
    BY <2>1 DEF Swap, EndSession, history
  <2>4. cookie' \in [Reqs -> Sids \cup {NoCookie}]  BY <1>1, <2>2, <2>3 DEF Tables
  <2>5. QED  BY <1>1, <1>2, <2>3, <2>4, FewerStep DEF Tables
<1>7. CASE \E r \in Reqs : Admit(r) \/ EndAll(r)
  <2>1. sessions' \subseteq sessions /\ UNCHANGED <<clock, codes, state, cookie, opened>>
    BY <1>7 DEF Admit, EndAll, EndSession, EndSessionsFor, history
  <2>2. QED  BY <1>1, <1>2, <2>1, FewerStep DEF Tables
<1>8. CASE \E r \in Reqs : Logout(r)
  <2>1. PICK r \in Reqs : Logout(r)  BY <1>8
  <2>2. /\ sessions' \subseteq sessions /\ UNCHANGED <<clock, codes, state, opened>>
        /\ cookie' = [cookie EXCEPT ![r] = NoCookie]
    BY <2>1 DEF Logout, EndSession, history
  <2>3. cookie' \in [Reqs -> Sids \cup {NoCookie}]  BY <1>1, <2>2 DEF Tables
  <2>4. QED  BY <1>1, <1>2, <2>2, <2>3, FewerStep DEF Tables
<1>9. CASE \E r \in Reqs, c \in Codes : RedeemCode(r, c)
  BY <1>9, RedeemCodeMoves
<1>10. CASE \E c \in Codes : LocalLogin(c)
  BY <1>10, LocalLoginMoves
<1>11. CASE Tick
  <2>1. UNCHANGED <<sessions, codes, state, cookie, opened>>  BY <1>11 DEF Tick, tables, history
  <2>2. clock' \in 1 .. MaxClock  BY <1>1, <1>11, Limits DEF Tick, Tables
  <2>3. QED  BY <1>1, <1>2, <2>1, <2>2, FewerStep DEF Tables
<1>12. CASE Restart
  <2>1. sessions' \subseteq sessions /\ codes' \subseteq codes /\ UNCHANGED <<clock, cookie, opened>>
    BY <1>12 DEF Restart, history
  <2>2. state' \in [Limited -> Entry] /\ Locked'
    BY <1>12, Limits DEF Restart, NoEntry, Entry, Locked
  <2>3. QED  BY <1>1, <2>1, <2>2, FewerStep DEF Tables
<1>13. QED  BY <1>3, <1>4, <1>5, <1>6, <1>7, <1>8, <1>9, <1>10, <1>11, <1>12, NextIs

LEMMA SessionsStep ==
  ASSUME IInv, Next
  PROVE  SessionsFollowAccount'
<1> DEFINE Follows(e) == /\ acct[e.user] # NoUser /\ ~acct[e.user].disabled
                         /\ acct[e.user].pw = e.pw /\ acct[e.user].role = e.role
<1>1. \A e \in sessions : \/ e.user = Owner \/ e.raced \/ Follows(e)
                         \/ \E x \in Reqs : req[x].pc = "end" /\ req[x].user = e.user
  BY DEF IInv, SessionsFollowAccount, At
<1>2. ASSUME UNCHANGED acct,
             \A e \in sessions' : \/ e.user = Owner \/ e.raced \/ Follows(e)
                                  \/ e \in sessions /\ \A x \in Reqs :
                                       req[x].pc = "end" /\ req[x].user = e.user
                                         => req'[x].pc = "end" /\ req'[x].user = e.user
      PROVE  SessionsFollowAccount'
  BY <1>1, <1>2 DEF SessionsFollowAccount, At
<1>3. CASE \E r \in Reqs : Quiet(r) \/ Open(r) \/ Swap(r) \/ Admit(r) \/ \E c \in Codes : RedeemCode(r, c)
  <2>1. PICK r \in Reqs : Quiet(r) \/ Open(r) \/ Swap(r) \/ Admit(r) \/ \E c \in Codes : RedeemCode(r, c)
    BY <1>3
  <2>2. Step(r) /\ UNCHANGED acct
    BY <2>1, QuietMoves, OpenStep, SwapStep, AdmitStep, RedeemCodeStep DEF Open, Swap, Admit, RedeemCode
  <2>3. req[r].pc # "end"
    BY <2>1, QuietMoves DEF Open, Swap, Admit, RedeemCode, At
  <2>4. \A x \in Reqs \ {r} : req'[x] = req[x]  BY <2>2 DEF Step, IInv, TypeOK
  <2>5. \A e \in sessions' : e \in sessions \/ e.user = Owner \/ e.raced \/ Follows(e)
    <3>1. CASE Open(r)
      <4> DEFINE new == [Entrance(r) EXCEPT !.exp = clock + SessionTTL]
      <4>1. sessions' \subseteq sessions \cup {new}
        BY <3>1, NewSessionMoves DEF Open, IInv
      <4>2. new.user = Owner \/ new.raced \/ Follows(new)
        BY <3>1, EntranceIs DEF Open, At
      <4> HIDE DEF new, Follows
      <4>3. QED  BY <4>1, <4>2
    <3>2. CASE ~Open(r)
      BY <2>1, <3>2, QuietMoves DEF Swap, Admit, RedeemCode, EndSession, tables
    <3>3. QED  BY <3>1, <3>2
  <2> HIDE DEF Follows
  <2>6. QED  BY <1>2, <2>2, <2>3, <2>4, <2>5
<1>4. CASE \E r \in Reqs : Writing(r)
  <2>1. PICK r \in Reqs : Writing(r)  BY <1>4
  <2>2. CASE AccountWrite(r)
    BY <2>2, AccountWriteMoves
  <2>3. CASE LoginRecord(r) \/ SecondWrite(r)
    <3>1. sessions' = sessions  BY <2>3 DEF LoginRecord, SecondWrite, tables
    <3>2. /\ \A x \in Reqs : req[x].pc = "end" => req'[x].pc = "end" /\ req'[x].user = req[x].user
          /\ \A v \in Users : SamePerson(acct[v], acct'[v])
      BY <2>3, LoginRecordMoves, SecondWriteMoves
    <3>3. \A e \in sessions : e.user \in Users \cup {Owner}
      BY DEF IInv, TypeOK
    <3>4. ASSUME NEW e \in sessions
          PROVE  \/ e.user = Owner \/ e.raced
                 \/ /\ acct'[e.user] # NoUser /\ ~acct'[e.user].disabled
                    /\ acct'[e.user].pw = e.pw /\ acct'[e.user].role = e.role
                 \/ \E x \in Reqs : req'[x].pc = "end" /\ req'[x].user = e.user
      <4>1. CASE \E x \in Reqs : req[x].pc = "end" /\ req[x].user = e.user
        BY <3>2, <4>1
      <4>2. CASE Follows(e) /\ e.user # Owner
        <5>1. e.user \in Users  BY <3>3, <4>2
        <5>2. acct[e.user] # NoUser  BY <4>2
        <5>3. /\ acct'[e.user] # NoUser /\ acct'[e.user].pw = acct[e.user].pw
              /\ acct'[e.user].role = acct[e.user].role /\ acct'[e.user].disabled = acct[e.user].disabled
          BY <3>2, <5>1, <5>2 DEF SamePerson
        <5>4. QED  BY <4>2, <5>3
      <4>3. QED  BY <1>1, <4>1, <4>2
    <3>5. QED  BY <3>1, <3>4 DEF SessionsFollowAccount, At
  <2>4. QED  BY <2>1, <2>2, <2>3 DEF Writing
<1>5. CASE \E r \in Reqs : EndAll(r)
  <2>1. PICK r \in Reqs : EndAll(r)  BY <1>5
  <2>2. Step(r) /\ UNCHANGED acct  BY <2>1, EndAllStep DEF EndAll
  <2>3. \A x \in Reqs \ {r} : req'[x] = req[x]  BY <2>2 DEF Step, IInv, TypeOK
  <2>4. \A e \in sessions' : e \in sessions /\ e.user # req[r].user
    BY <2>1 DEF EndAll, EndSessionsFor
  <2>5. QED  BY <1>2, <2>2, <2>3, <2>4
<1>6. CASE \/ \E r \in Reqs : Logout(r)
           \/ \E c \in Codes : LocalLogin(c)
           \/ Tick
  <2>1. UNCHANGED <<acct, req>> /\ sessions' \subseteq sessions
    BY <1>6 DEF Logout, LocalLogin, Tick, EndSession, Kept, tables
  <2>2. QED  BY <1>2, <2>1
<1>7. CASE Restart
  BY <1>7 DEF Restart, SessionsFollowAccount
<1>8. QED  BY <1>3, <1>4, <1>5, <1>6, <1>7, NextIs

-------------------------------------------------------------------------------
(* The invariant and what follows from it. *)

LEMMA InitIInv ==
  ASSUME Init
  PROVE  IInv
<1>1. PICK second \in SUBSET Users :
        LET secret == [u \in Users |-> IF u \in second THEN 1 ELSE 0]
        IN /\ acct = [u \in Users |-> [pw |-> 1, role |-> "family", disabled |-> FALSE,
                                       on |-> u \in second, secret |-> secret[u], last |-> 0]]
           /\ made = [u \in Users |-> [pw |-> 1, secret |-> secret[u]]]
           /\ confirmed = secret
  BY DEF Init
<1> DEFINE s(u) == IF u \in second THEN 1 ELSE 0
           a(u) == [pw |-> 1, role |-> "family", disabled |-> FALSE, on |-> u \in second, secret |-> s(u), last |-> 0]
<1>2. /\ acct = [u \in Users |-> a(u)]
      /\ made = [u \in Users |-> [pw |-> 1, secret |-> s(u)]]
      /\ confirmed = [u \in Users |-> s(u)]
  BY <1>1
<1>3. \A u \in Users : s(u) \in 0 .. MaxSecret /\ (u \in second) \in BOOLEAN
  BY Limits
<1>4. 1 \in 1 .. MaxPw /\ 0 \in 0 .. (MaxClock + 1) /\ 1 \in 1 .. MaxClock /\ 0 \in 0 .. MaxClock /\ "family" \in Roles
  BY Limits DEF Roles
<1>5. \A u \in Users : a(u) \in Account /\ a(u) # NoUser /\ a(u).secret = s(u)
  <2>1. ASSUME NEW u \in Users, NEW b \in BOOLEAN, NEW n \in 0 .. MaxSecret
        PROVE  [pw |-> 1, role |-> "family", disabled |-> FALSE, on |-> b, secret |-> n, last |-> 0] \in Account
    BY <1>4 DEF Account
  <2>2. QED  BY <1>3, <2>1, Nothing
<1> HIDE DEF s, a
<1>6. Accounts
  <2>1. \A u \in Users : [pw |-> 1, secret |-> s(u)] \in [pw: 1 .. MaxPw, secret: 0 .. MaxSecret]
    BY <1>3, <1>4
  <2>2. /\ acct \in [Users -> Account \cup {NoUser}] /\ confirmed \in [Users -> 0 .. MaxSecret]
        /\ made \in [Users -> [pw: 1 .. MaxPw, secret: 0 .. MaxSecret]]
    BY <1>2, <1>3, <1>5, <2>1
  <2>3. used = [u \in Users |-> {}] /\ lapse = [u \in Users |-> FALSE]
        /\ mixed = [u \in Users |-> FALSE]
    BY DEF Init
  <2>4. \A u \in Users : acct[u] = a(u) /\ made[u].secret = s(u) /\ confirmed[u] = s(u)
    BY <1>2
  <2>5. Secrets /\ Behind /\ SecretIsConfirmed
    <3>1. ASSUME NEW u \in Users, a(u).on PROVE s(u) > 0
      <4>1. a(u).on = (u \in second)  BY DEF a
      <4>2. u \in second  BY <3>1, <4>1
      <4>3. QED  BY <4>2 DEF s
    <3>2. QED  BY <1>3, <1>5, <2>3, <2>4, <3>1 DEF Secrets, Behind, SecretIsConfirmed
  <2>6. QED  BY <2>2, <2>3, <2>5 DEF Accounts
<1>7. Requests
  <2>1. req = [r \in Reqs |-> Idle]  BY DEF Init
  <2>2. QED  BY <2>1, IdleKnown DEF Requests, Copied, Known
<1>8. Tables
  <2>1. /\ clock = 1 /\ sessions = {} /\ codes = {} /\ state = [k \in Limited |-> NoEntry]
        /\ cookie = [r \in Reqs |-> NoCookie]
        /\ opened = [c \in Codes |-> [issued |-> 0, at |-> 0, count |-> 0]]
    BY DEF Init
  <2>2. NoEntry \in Entry /\ NoEntry.failures = 0  BY Limits DEF NoEntry, Entry
  <2>3. state \in [Limited -> Entry] /\ Locked
    BY <2>1, <2>2, Limits DEF Locked
  <2>4. opened \in [Codes -> [issued: 0 .. MaxClock, at: 0 .. MaxClock, count: Nat]]
    BY <1>4, <2>1
  <2>5. Issued /\ CodeWorksOnce
    BY <2>1, Limits DEF Issued, CodeWorksOnce
  <2>6. Few  BY <2>1, FS_EmptySet, Limits DEF Few
  <2>7. QED  BY <1>4, <2>1, <2>3, <2>4, <2>5, <2>6 DEF Tables
<1>9. SessionsFollowAccount  BY DEF Init, SessionsFollowAccount
<1>10. QED  BY <1>6, <1>7, <1>8, <1>9, PartsOfIInv

LEMMA NextIInv ==
  ASSUME IInv, [Next]_vars
  PROVE  IInv'
<1>1. CASE Next
  BY <1>1, AccountsStep, RequestsStep, TablesStep, SessionsStep
     DEF IInv, TypeOK, Requests, Accounts, Tables, SessionType
<1>2. CASE UNCHANGED vars
  BY <1>2 DEF vars, tables, history, IInv, TypeOK, Copied, Current, Secrets, Behind, Issued, Locked, Few,
              SessionsFollowAccount, CodeWorksOnce, SecretIsConfirmed, At
<1>3. QED  BY <1>1, <1>2

LEMMA Always == Spec => []IInv
BY InitIInv, NextIInv, PTL DEF Spec

(* Every variable of Login stays within its type: no sign-in, change or    *)
(* restart leaves an account, a session or a lock the code does not know.  *)
THEOREM TypeCorrect == Spec => []TypeOK
<1>1. IInv => TypeOK  BY DEF IInv
<1>2. QED  BY <1>1, Always, PTL

(* A session belongs to the account as it is (auth_handlers.go, signIn and *)
(* gate; users_handlers.go): see SessionsFollowAccount.                    *)
THEOREM SessionsFollow == Spec => []SessionsFollowAccount
<1>1. IInv => SessionsFollowAccount  BY DEF IInv
<1>2. QED  BY <1>1, Always, PTL

(* A login code opens one session at most, in its time (local.go, Redeem). *)
THEOREM CodeOnce == Spec => []CodeWorksOnce
<1>1. IInv => CodeWorksOnce  BY DEF IInv
<1>2. QED  BY <1>1, Always, PTL

(* Two-factor sign-in that is on asks for the secret a code confirmed      *)
(* (handleTOTPSetup, handleTOTPEnable), unless the last two-factor write   *)
(* is one that another two-factor write, a removal or a new account        *)
(* overtook after its request had read the account.                        *)
THEOREM SecretConfirmed == Spec => []SecretIsConfirmed
<1>1. IInv => SecretIsConfirmed  BY DEF IInv
<1>2. QED  BY <1>1, Always, PTL

(* A key is locked as long as its failures ask for (limiter.go), for every *)
(* count of failures the run looks at and, by EveryLockout, for any.       *)
THEOREM LockoutRight == Spec => []LockoutDoubles
<1>1. Doubles  BY EveryLockout DEF Doubles
<1>2. IInv => LockoutDoubles  BY <1>1 DEF IInv, Locked, LockoutDoubles
<1>3. QED  BY <1>2, Always, PTL

(* What a write to an account leaves of the other requests. *)
LEMMA WritingLeaves ==
  ASSUME IInv, NEW q \in Reqs, Writing(q), NEW r \in Reqs \ {q}
  PROVE  req'[r].pc = req[r].pc
<1>1. CASE LoginRecord(q)
  <2>1. req'[r] = WithStale(req, q)[r] \/ req'[r] = req[r]
    BY <1>1, StaleMarks DEF LoginRecord, Goto, IInv, TypeOK
  <2>2. QED  BY <2>1, StaleMarks DEF Same
<1>2. CASE SecondWrite(q)
  <2>1. /\ WithStale(req, q) \in [Reqs -> Request]
        /\ \A x \in Reqs : Same(WithStale(req, q)[x], req[x])
    BY StaleMarks
  <2>2. /\ req'[r] = WithCrossed(WithStale(req, q), q)[r]
        /\ Same(WithCrossed(WithStale(req, q), q)[r], req[r])
    BY <1>2, <2>1, CrossedMarks DEF SecondWrite
  <2>3. QED  BY <2>2 DEF Same
<1>3. CASE AccountWrite(q)
  <2>1. req[q].user \in Users
    <3>1. Known(req[q]) /\ req[q].pc = "write"  BY <1>3, NowKnown DEF AccountWrite, At
    <3>2. QED  BY <3>1 DEF Known, Place
  <2> DEFINE f == IF Op(q) \in {"delete", "create"} THEN WithCrossed(req, q) ELSE req
  <2>2. f \in [Reqs -> Request] /\ \A x \in Reqs : Same(f[x], req[x])
    <3>1. req \in [Reqs -> Request] /\ \A x \in Reqs : Same(req[x], req[x])
      BY DEF IInv, TypeOK, Same
    <3>2. QED  BY <3>1, CrossedMarks
  <2>3. \E to : req' = [WithRaced(f, req[q].user) EXCEPT ![q] = to]
    BY <1>3 DEF AccountWrite
  <2> HIDE DEF f
  <2>4. /\ WithRaced(f, req[q].user) \in [Reqs -> Request]
        /\ Same(WithRaced(f, req[q].user)[r], req[r])
    BY <2>1, <2>2, RacedMarks
  <2>5. req'[r] = WithRaced(f, req[q].user)[r]  BY <2>3, <2>4
  <2>6. QED  BY <2>4, <2>5 DEF Same
<1>4. QED  BY <1>1, <1>2, <1>3 DEF Writing

(* A code of the authenticator signs in once (handlePasswordLogin with     *)
(* VerifyTOTP and the counter of the account): see StepWorksOnce.          *)
THEOREM StepOnce == Spec => StepWorksOnce
<1>1. ASSUME IInv, [Next]_vars, NEW r \in Reqs, At(r, "record"), req'[r].pc = "clear"
      PROVE  req[r].code \notin used[req[r].user] \/ lapse'[req[r].user]
  <2> DEFINE u == req[r].user  code == req[r].code  snap == req[r].snap
  <2>1. req[r].pc = "record"  BY <1>1 DEF At
  <2>2. Next  BY <1>1, <2>1 DEF vars
  <2>3. LoginRecord(r)
    <3>1. ASSUME NEW q \in Reqs, Step(q), req[q].pc # "record" PROVE FALSE
      BY <1>1, <2>1, <3>1 DEF Step, IInv, TypeOK
    <3>2. ~UNCHANGED req /\ req' # [q \in Reqs |-> Idle]
      BY <1>1, <2>1, IdleType
    <3>3. \E q \in Reqs : Writing(q)
      BY <1>1, <2>2, <3>1, <3>2, NextIs, QuietMoves, OpenStep, SwapStep, AdmitStep, EndAllStep, RedeemCodeStep
         DEF Open, Swap, Admit, EndAll, RedeemCode, Logout, LocalLogin, Tick, Restart, At
    <3>4. PICK q \in Reqs : Writing(q)  BY <3>3
    <3>5. q = r  BY <1>1, <2>1, <3>4, WritingLeaves
    <3>6. ~SecondWrite(r) /\ ~AccountWrite(r)  BY <2>1 DEF SecondWrite, AccountWrite, At
    <3>7. QED  BY <3>4, <3>5, <3>6 DEF Writing
  <2>4. Known(req[r])  BY <1>1, NowKnown
  <2>5. /\ u \in Users /\ snap \in Account /\ snap # NoUser /\ code \in AppCode
        /\ code.secret = snap.secret /\ code.step > snap.last
    BY <2>1, <2>4, Nothing DEF Known, Place, Checked, Request
  <2>6. ~req[r].stale /\ ~lapse[u] => acct[u].secret = snap.secret /\ acct[u].last = snap.last
    BY <2>1, <2>4, <2>5 DEF Known, Current, Worth, Place
  <2>7. ~lapse'[u] => ~req[r].stale /\ ~lapse[u]
    BY <1>1, <2>3, <2>4, <2>5 DEF LoginRecord, IInv, TypeOK, Known, Request
  <2>8. ASSUME code \in used[u], ~lapse'[u] PROVE FALSE
    <3>1. code.step <= acct[u].last
      BY <1>1, <2>5, <2>6, <2>7, <2>8 DEF IInv, Behind
    <3>2. acct[u].last = snap.last /\ code.step \in Nat /\ snap.last \in Nat
      BY <2>5, <2>6, <2>7, <2>8, Limits DEF AppCode, Account
    <3>3. QED  BY <2>5, <3>1, <3>2
  <2>9. QED  BY <2>8
<1>2. IInv /\ [Next]_vars =>
        [\A r \in Reqs : At(r, "record") /\ req'[r].pc = "clear"
           => req[r].code \notin used[req[r].user] \/ lapse'[req[r].user]]_vars
  BY <1>1
<1>3. QED  BY <1>2, Always, PTL DEF Spec, StepWorksOnce

(* Nobody is signed out without a reason (local.go with the handlers that  *)
(* end sessions): see SignedOutForAReason.                                 *)
THEOREM SignedOut == Spec => SignedOutForAReason
<1> DEFINE Reason(e) ==
       \/ clock > e.exp
       \/ \E r \in Reqs : req[r].pc = "end" /\ req[r].user = e.user
       \/ \E r \in Reqs : cookie[r] = e.key /\ (req[r].pc \in {"admit", "swap"} \/ cookie'[r] = NoCookie)
       \/ Stopped
       \/ Cardinality(sessions) >= MaxSessions /\ \A d \in sessions : clock <= d.exp => e.exp <= d.exp
<1>1. ASSUME IInv, [Next]_vars, NEW e \in sessions \ sessions'
      PROVE  Reason(e)
  <2>1. Next  BY <1>1 DEF vars, tables
  <2>2. ~(clock <= e.exp) => clock > e.exp
    <3>1. clock \in Nat /\ e.exp \in Nat  BY <1>1, Limits DEF IInv, TypeOK
    <3>2. QED  BY <3>1
  <2>3. CASE \E r \in Reqs : Quiet(r) \/ Writing(r) \/ \E c \in Codes : RedeemCode(r, c)
    <3>1. sessions' = sessions
      BY <1>1, <2>3, QuietMoves DEF Writing, LoginRecord, SecondWrite, AccountWrite, RedeemCode, tables
    <3>2. QED  BY <1>1, <3>1
  <2>4. CASE \E r \in Reqs : Open(r)
    BY <1>1, <2>2, <2>4, NewSessionMoves DEF Open, IInv
  <2>5. CASE \E r \in Reqs : Swap(r)
    BY <1>1, <2>5 DEF Swap, EndSession, At
  <2>6. CASE \E r \in Reqs : Admit(r)
    BY <1>1, <2>6 DEF Admit, EndSession, At
  <2>7. CASE \E r \in Reqs : EndAll(r)
    BY <1>1, <2>7 DEF EndAll, EndSessionsFor, At
  <2>8. CASE \E r \in Reqs : Logout(r)
    BY <1>1, <2>8 DEF Logout, EndSession, IInv, TypeOK
  <2>9. CASE \E c \in Codes : LocalLogin(c)
    BY <1>1, <2>2, <2>9 DEF LocalLogin, Kept
  <2>10. CASE Tick
    BY <1>1, <2>10 DEF Tick, tables
  <2>11. CASE Restart
    BY <2>11 DEF Restart, Stopped
  <2>12. QED  BY <1>1, <2>1, <2>3, <2>4, <2>5, <2>6, <2>7, <2>8, <2>9, <2>10, <2>11, NextIs
<1>2. ASSUME IInv, [Next]_vars, NEW r \in Reqs, req[r].pc = "open", req'[r].pc = "swap"
      PROVE  \E e \in sessions' : e.key = req'[r].sid
  <2>1. Open(r)
    <3>1. Next  BY <1>2 DEF vars
    <3>2. ASSUME NEW q \in Reqs, Step(q), req[q].pc # "open" PROVE FALSE
      BY <1>2, <3>2 DEF Step, IInv, TypeOK
    <3>3. ~UNCHANGED req /\ req' # [q \in Reqs |-> Idle]
      BY <1>2, IdleType
    <3>4. ASSUME NEW q \in Reqs, Writing(q) PROVE FALSE
      <4>1. q # r  BY <1>2, <3>4 DEF Writing, LoginRecord, SecondWrite, AccountWrite, At
      <4>2. QED  BY <1>2, <3>4, <4>1, WritingLeaves
    <3>5. \E q \in Reqs : Open(q)
      BY <1>2, <3>1, <3>2, <3>3, <3>4, NextIs, QuietMoves, SwapStep, AdmitStep, EndAllStep, RedeemCodeStep
         DEF Swap, Admit, EndAll, RedeemCode, Logout, LocalLogin, Tick, Restart, At
    <3>6. PICK q \in Reqs : Open(q)  BY <3>5
    <3>7. q = r  BY <1>2, <3>6 DEF Open, IInv, TypeOK
    <3>8. QED  BY <3>6, <3>7
  <2>2. req'[r].sid = FreshSid /\ sessions' \in NewSession(sessions, Entrance(r), clock)
    BY <1>2, <2>1 DEF Open, IInv, TypeOK
  <2>3. [Entrance(r) EXCEPT !.exp = clock + SessionTTL] \in sessions'
    BY <1>2, <2>2, NewSessionMoves DEF IInv
  <2>4. [Entrance(r) EXCEPT !.exp = clock + SessionTTL].key = FreshSid  BY DEF Entrance
  <2>5. QED  BY <2>2, <2>3, <2>4
<1>3. IInv /\ [Next]_vars =>
        [/\ \A r \in Reqs : req[r].pc = "open" /\ req'[r].pc = "swap" =>
              \E e \in sessions' : e.key = req'[r].sid
         /\ \A e \in sessions \ sessions' : Reason(e)]_vars
  BY <1>1, <1>2
<1>4. QED  BY <1>3, Always, PTL DEF Spec, SignedOutForAReason
================================================================================
