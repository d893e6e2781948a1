---------------------------- MODULE TransferStore ----------------------------
(***************************************************************************)
(* The rows of the sessions table of internal/transfer/store.go and the    *)
(* statements that read and change one row.  A row is one phone link: an   *)
(* upload, download or share.  The store opens a single database           *)
(* connection, so each statement (and the transaction of Record) is        *)
(* atomic, and each is an operator on one row here.                        *)
(*                                                                         *)
(* Time is abstracted to the one thing the code asks of it: whether        *)
(* expires_at has passed, which never becomes false again.                 *)
(***************************************************************************)
EXTENDS Naturals

Session == [exists: BOOLEAN, revoked: BOOLEAN, expired: BOOLEAN,
            files: Nat, bytes: Nat, maxFiles: Nat, maxBytes: Nat]

(* No row: before Create. *)
NoSession == [exists |-> FALSE, revoked |-> FALSE, expired |-> FALSE,
              files |-> 0, bytes |-> 0, maxFiles |-> 0, maxBytes |-> 0]

(* The row Create inserts. *)
NewSession(maxFiles, maxBytes) ==
  [NoSession EXCEPT !.exists = TRUE, !.maxFiles = maxFiles, !.maxBytes = maxBytes]

UsedUp(s) == s.files >= s.maxFiles \/ s.bytes >= s.maxBytes

(* Session.Active, and the WHERE clause of Store.Active. *)
IsActive(s) == s.exists /\ ~s.revoked /\ ~s.expired /\ ~UsedUp(s)

(* The outcome of Lookup, in the order the code tests. *)
Outcome(s) ==
  CASE ~s.exists                                     -> "not_found"
    [] s.exists /\ s.revoked                         -> "revoked"
    [] s.exists /\ ~s.revoked /\ s.expired           -> "expired"
    [] s.exists /\ ~s.revoked /\ ~s.expired /\ UsedUp(s) -> "used_up"
    [] OTHER                                         -> "ok"

(* Mutants of CanReserve: one file too many; a stopped link. *)
CanReserveOneMore(s) == s.exists /\ ~s.revoked /\ s.files <= s.maxFiles /\ s.bytes < s.maxBytes

CanReserveStopped(s) == s.exists /\ ~UsedUp(s)

(* Reserve: one UPDATE whose WHERE clause is the guard; expiry is not part *)
(* of it.                                                                  *)
CanReserve(s) == s.exists /\ ~s.revoked /\ ~UsedUp(s)

Reserved(s) == [s EXCEPT !.files = @ + 1]

(* Release: files = MAX(files - 1, 0). *)
Released(s) == [s EXCEPT !.files = IF @ > 0 THEN @ - 1 ELSE 0]

(* Record: the bytes of one transfer. *)
Recorded(s, size) == [s EXCEPT !.bytes = @ + size]

(* Mutant of Remaining: what was used is not subtracted. *)
RemainingIgnoresUsed(s) == s.maxBytes

(* Remaining: how many more bytes the link accepts. *)
Remaining(s) == IF s.bytes >= s.maxBytes THEN 0 ELSE s.maxBytes - s.bytes

Stopped(s) == [s EXCEPT !.revoked = TRUE]

(* Prune deletes rows that expired more than a week ago. *)
Pruned(s) == [s EXCEPT !.exists = FALSE]
==============================================================================
