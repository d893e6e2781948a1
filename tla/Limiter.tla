-------------------------------- MODULE Limiter --------------------------------
(***************************************************************************)
(* LoginLimiter of internal/auth/limiter.go, as operators on its table.    *)
(* An entry without failures stands for a key the table does not hold.     *)
(*                                                                         *)
(* A lock lasts baseLockout << (failures - freeAttempts): the shift is     *)
(* done here in the 64 bits of a time.Duration, because failures has no    *)
(* bound.  A duration in nanoseconds is the set of its bits.               *)
(***************************************************************************)
EXTENDS Naturals

CONSTANTS
  FreeAttempts,  \* freeAttempts
  Minute,        \* a minute, in ticks of the clock
  IdleAfter,     \* an entry is forgotten after this long without a failure
  MaxFailures    \* bound on the failures of one key

ASSUME LimiterAssumption ==
  /\ FreeAttempts \in Nat \ {0} /\ Minute \in Nat \ {0}
  /\ IdleAfter \in Nat \ {0} /\ MaxFailures \in Nat

baseLockout == {11, 12, 14, 16, 17, 18, 22, 27, 28, 29, 30, 31, 32, 34, 35}   \* 60 000 000 000 ns

maxLockout == {11, 13, 17, 18, 19, 21, 26, 27, 31, 32, 36, 38, 39}   \* 900 000 000 000 ns

Sign == 63

(* d << n: what is shifted past the highest bit is lost. *)
Shift(d, n) == {b + n : b \in d} \cap (0 .. Sign)

Negative(d) == Sign \in d

(* x > y as signed integers, for a y that is not negative: the highest bit *)
(* in which they differ is x's.                                            *)
Longer(x, y) == ~Negative(x) /\ \E b \in x \ y : \A c \in y \ x : c < b

(* Mutant of Lockout: what wrapped around is not looked at. *)
LockoutWraps(n) ==
  LET d == Shift(baseLockout, n - FreeAttempts) IN IF Longer(d, maxLockout) THEN maxLockout ELSE d

(* Fail: how long the n-th failure locks the key. *)
Lockout(n) ==
  LET d == Shift(baseLockout, n - FreeAttempts)
  IN IF Longer(d, maxLockout) \/ Negative(d) \/ d = {} THEN maxLockout ELSE d

(* Lockout in ticks: a whole number of minutes, or none at all. *)
LockTicks(n) ==
  LET is(k) == Lockout(n) = Shift(baseLockout, k)
  IN CASE Lockout(n) = maxLockout -> 15 * Minute
       [] is(0) -> Minute [] is(1) -> 2 * Minute [] is(2) -> 4 * Minute [] is(3) -> 8 * Minute
       [] OTHER -> 0

Entry == [failures : 0 .. MaxFailures, until : Nat, last : Nat]

NoEntry == [failures |-> 0, until |-> 0, last |-> 0]

(* Blocked: some key is locked. *)
Blocked(state, keys, now) == \E k \in keys : now < state[k].until

(* Fail: entries that were idle for an hour go, then every key counts one  *)
(* failure more and is locked from freeAttempts on.                        *)
Fail(state, keys, now) ==
  LET swept(k) == IF state[k].failures > 0 /\ now - state[k].last > IdleAfter THEN NoEntry ELSE state[k]
      n(k) == IF swept(k).failures < MaxFailures THEN swept(k).failures + 1 ELSE MaxFailures
  IN [k \in DOMAIN state |->
        IF k \notin keys THEN swept(k)
        ELSE [failures |-> n(k), last |-> now,
              until |-> IF n(k) >= FreeAttempts THEN now + LockTicks(n(k)) ELSE swept(k).until]]

(* Succeed: the keys are cleared. *)
Succeed(state, keys) == [k \in DOMAIN state |-> IF k \in keys THEN NoEntry ELSE state[k]]
===============================================================================
