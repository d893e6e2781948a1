------------------------------- MODULE LocalAuth -------------------------------
(***************************************************************************)
(* Local of internal/auth/local.go: login codes and browser sessions, as   *)
(* operators on its two tables.  A table is a set of entries; the hash of  *)
(* a secret is the entry's key.  Every operator is what one critical       *)
(* section of Local.mu does.                                               *)
(***************************************************************************)
EXTENDS FiniteSets, Naturals

CONSTANTS
  CodeTTL, SessionTTL,    \* codeTTL, sessionTTL, in ticks
  MaxCodes, MaxSessions   \* maxCodes, maxSessions

ASSUME LocalAuthAssumption ==
  /\ CodeTTL \in Nat /\ SessionTTL \in Nat
  /\ MaxCodes \in Nat \ {0} /\ MaxSessions \in Nat \ {0}

(* gc: an entry goes when its time is over. *)
Kept(table, now) == {e \in table : now <= e.exp}

Keys(table) == {e.key : e \in table}

(* NewCode: refused while too many codes are pending. *)
CodeAllowed(codes, now) == Cardinality(Kept(codes, now)) < MaxCodes

NewCode(codes, key, now) == Kept(codes, now) \cup {[key |-> key, exp |-> now + CodeTTL]}

(* Redeem, the part under the lock: the code is gone whatever comes next. *)
Taken(codes, key) == {e \in codes : e.key # key}

(* Redeem, after the lock: the code was there and its time is not over. *)
Redeemable(codes, key, now) == \E e \in codes : e.key = key /\ now <= e.exp

(* Mutant of Evictable: the session that was opened last is dropped. *)
EvictableNewest(live) == {e \in live : \A d \in live : d.exp <= e.exp}

(* The sessions NewSession may drop at the limit: the map is walked in any *)
(* order, and one that expires first is dropped.                           *)
Evictable(live) == {e \in live : \A d \in live : e.exp <= d.exp}

(* NewSession: the tables it may leave behind. *)
NewSession(sessions, entry, now) ==
  LET live == Kept(sessions, now)
      new == {[entry EXCEPT !.exp = now + SessionTTL]}
  IN IF Cardinality(live) >= MaxSessions
     THEN {(live \ {e}) \cup new : e \in Evictable(live)}
     ELSE {live \cup new}

(* Session: the entry behind a session id, while its time is not over. *)
Session(sessions, sid, now) == {e \in sessions : e.key = sid /\ now < e.exp}

(* EndSession. *)
EndSession(sessions, sid) == {e \in sessions : e.key # sid}

(* Mutant of EndSessionsFor: only one session of the user is ended. *)
EndSessionsForOne(sessions, user) ==
  IF \E e \in sessions : e.user = user
  THEN sessions \ {CHOOSE e \in sessions : e.user = user} ELSE sessions

(* EndSessionsFor. *)
EndSessionsFor(sessions, user) == {e \in sessions : e.user # user}
===============================================================================
