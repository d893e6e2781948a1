-------------------------------- MODULE MCUsers --------------------------------
(* Instances of Users and FilesSync for TLC. *)
EXTENDS FilesSync, TLC

(* Every folder may be written to; a guest may only read it all the same. *)
AllWritable == [n \in Names |-> "rw"]

(* Two kinds of behaviour: SFTPGo does not run and all requests are busy   *)
(* with the store, or it runs, one request at a time changes an account,   *)
(* and its sync meets the ones in the background.                          *)
VARIABLE running

First == CHOOSE n \in Names : TRUE

(* With SFTPGo: the first account is made, then the others come and go.    *)
Concerned(c) == running => (call'[c].name = First <=> Accounts(users) = {}) \/ call'[c].pc # "asked"

Active == IF running THEN {CHOOSE c \in Calls : TRUE} ELSE Calls

MCInit ==
  /\ SyncInit
  /\ running \in BOOLEAN
  /\ \A n \in Names : remote[n] = Foreign => running /\ n # First

MCNext ==
  /\ \/ \E c \in Active : (Store(c) /\ Concerned(c)) \/ Changed(c) \/ Skip(c)
     \/ running /\ \E s \in Active \cup Background : Begin(s) \/ Step(s)
     \/ running /\ \E n \in Names \ {First} : OtherUser(n)
     \/ Again
  /\ UNCHANGED running

MCSpec == MCInit /\ [][MCNext]_<<allVars, running>>
===============================================================================
