------------------------------ MODULE SafeFolder ------------------------------
(***************************************************************************)
(* What Save promises about a folder: each upload is added under one name  *)
(* that was free, in one step, or is refused and leaves nothing.  Files    *)
(* only ever appear complete, and only their owner removes them.           *)
(***************************************************************************)
CONSTANTS
  Uploads,  \* uploads into the folder
  Names,    \* file names an upload may end up with
  None,     \* no file under this name
  Foreign   \* a file somebody else put there

VARIABLES
  folder,   \* what each name shows
  outcome   \* "pending", "saved" or "refused", per upload

folderVars == <<folder, outcome>>

Init ==
  /\ folder \in [Names -> {None, Foreign}]
  /\ outcome = [u \in Uploads |-> "pending"]

Add(u, c) ==
  /\ outcome[u] = "pending" /\ folder[c] = None
  /\ folder' = [folder EXCEPT ![c] = u]
  /\ outcome' = [outcome EXCEPT ![u] = "saved"]

Refuse(u) ==
  /\ outcome[u] = "pending"
  /\ outcome' = [outcome EXCEPT ![u] = "refused"]
  /\ UNCHANGED folder

Put(c) ==
  /\ folder[c] = None
  /\ folder' = [folder EXCEPT ![c] = Foreign]
  /\ UNCHANGED outcome

Remove(c) ==
  /\ folder' = [folder EXCEPT ![c] = None]
  /\ UNCHANGED outcome

Next ==
  \/ \E u \in Uploads : Refuse(u) \/ \E c \in Names : Add(u, c)
  \/ \E c \in Names : Put(c) \/ Remove(c)

Spec == Init /\ [][Next]_folderVars
===============================================================================
