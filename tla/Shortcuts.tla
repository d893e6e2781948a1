------------------------------- MODULE Shortcuts -------------------------------
(***************************************************************************)
(* Installing and removing Vault's shortcuts: handleSaveShortcuts and      *)
(* removeShortcuts of internal/api/shortcut_handlers.go, the commands      *)
(* "shortcuts install" and "shortcuts remove" of vaultctl, and Install and *)
(* Remove of internal/shortcuts, while the user edits the same files.      *)
(*                                                                         *)
(* Nothing is locked: every request checks, reads and writes in steps of   *)
(* its own, and can end after any of them (a write that fails, a process   *)
(* that ends).                                                             *)
(***************************************************************************)
EXTENDS HyprConf

CONSTANTS
  Reqs,       \* requests of the dashboard and runs of vaultctl
  Configs,    \* the files that there may be at first: functions from their names to their lines
  Wants,      \* what the dashboard asks for: sets of id, mods and key
  UserBinds,  \* lines that the user may add
  MaxTrouble  \* bound on the user's edits, the requests that end early and the reloads that fail

VARIABLES
  files,    \* the files that exist, and their lines
  hypr,     \* the bindings of the running Hyprland
  running,  \* there is a Hyprland that hyprctl can ask
  conf,     \* the config that vaultd found when it started
  req,      \* the requests
  trouble   \* how often the user edited a config, a request ended early or a reload failed

vars == <<files, hypr, running, conf, req, trouble>>

Mains == {"hyprland.lua", "hyprland.conf"}
VaultFiles == {includeName, luaName}

IsText(text) == text \in Seq({text[i] : i \in DOMAIN text})

ASSUME ShortcutsAssumption ==
  /\ MaxTrouble \in Nat
  /\ \A f \in Configs : /\ DOMAIN f \subseteq Mains \cup VaultFiles \cup {"sourced"}
                        /\ \A name \in DOMAIN f : IsText(f[name])
  /\ \A want \in Wants : IsFiniteSet(want)

(* Hyprland itself: the bindings that a start or a reload would give. *)
Loaded(f) == parseConfigTree(f, FindConfig(f))

(* alone and moved are history: nothing else happened since the request    *)
(* began; the user edited something since it checked, or an edit was undone. *)
(* sure: what it checked was everything there is.  loaded: its reload of   *)
(* Hyprland succeeded.                                                     *)
Idle == [pc |-> "idle", op |-> "", conf |-> "", bs |-> {}, text |-> << >>,
         alone |-> FALSE, moved |-> FALSE, sure |-> FALSE, loaded |-> FALSE]

Init ==
  /\ files \in Configs
  /\ running \in BOOLEAN
  /\ hypr = IF running THEN Loaded(files) ELSE {}
  /\ conf = FindConfig(files)
  /\ req = [r \in Reqs |-> Idle]
  /\ trouble = 0

-------------------------------------------------------------------------------
(* The user and Hyprland. *)

Edited(f) ==
  /\ trouble < MaxTrouble
  /\ trouble' = trouble + 1
  /\ files' = f
  /\ req' = [r \in Reqs |-> [req[r] EXCEPT !.alone = FALSE, !.moved = TRUE]]
  /\ UNCHANGED <<hypr, running, conf>>

Drop(text, i) == [j \in 1 .. Len(text) - 1 |-> IF j < i THEN text[j] ELSE text[j + 1]]

UserEdits ==
  \E m \in Mains \cap DOMAIN files :
    \/ \E line \in UserBinds : Edited([files EXCEPT ![m] = Append(@, line)])
    \/ \E i \in DOMAIN files[m] : files[m][i].kind = "bind" /\ Edited([files EXCEPT ![m] = Drop(@, i)])
    \/ \E i \in DOMAIN files[m] : files[m][i].kind = "load" /\ Edited([files EXCEPT ![m][i].kind = "commented"])

(* The user goes over to a Lua config. *)
Ported(text) == {i \in DOMAIN text : text[i].kind \in {"bind", "source"}}

UserMigrates ==
  /\ DOMAIN files \cap Mains = {"hyprland.conf"}
  /\ Edited([f \in DOMAIN files \cup {"hyprland.lua"} |->
               IF f = "hyprland.lua" THEN Picked(files["hyprland.conf"], Ported(files["hyprland.conf"])) ELSE files[f]])

HyprReloads ==
  /\ running /\ hypr # Loaded(files)
  /\ hypr' = Loaded(files)
  /\ UNCHANGED <<files, running, conf, req, trouble>>

VaultdStarts ==
  /\ conf # FindConfig(files)
  /\ conf' = FindConfig(files)
  /\ UNCHANGED <<files, hypr, running, req, trouble>>

-------------------------------------------------------------------------------
(* The requests. *)

Become(r, new) ==
  /\ req' = [req EXCEPT ![r] = new]
  /\ UNCHANGED <<running, conf, trouble>>

Goto(r, pc) == Become(r, [req[r] EXCEPT !.pc = pc])

Same == UNCHANGED <<files, hypr>>

Lone(r) == \A q \in Reqs \ {r} : req[q].pc = "idle"

(* A request begins, and is no longer alone for the others. *)
Begins(r, new) ==
  /\ req[r].pc = "idle"
  /\ req' = [q \in Reqs |-> IF q = r THEN [new EXCEPT !.alone = Lone(r)] ELSE [req[q] EXCEPT !.alone = FALSE]]
  /\ UNCHANGED <<files, hypr, running, conf, trouble>>

Existing(c) == Bindings(files, c, hypr)

Known(c) == running \/ c \in DOMAIN files

Sure(c) == hypr = Loaded(files) \/ ~IsLua(c)

Chosen(op, c, bs) ==
  [Idle EXCEPT !.pc = "read", !.op = op, !.conf = c, !.bs = bs, !.sure = Sure(c)]

(* handleSaveShortcuts, up to Install: everything has to be free. *)
Save(r, want) ==
  /\ Known(conf) /\ conf \in DOMAIN files
  /\ AllAvailable(Existing(conf), want)
  /\ Begins(r, Chosen("save", conf, want))

(* vaultctl shortcuts install, up to Install. *)
CtlInstall(r, useSuggestions) ==
  LET c == FindConfig(files)
      bs == Choose(Existing(c), useSuggestions)
  IN /\ Known(c) /\ c \in DOMAIN files
     /\ bs # {}
     /\ Begins(r, Chosen("save", c, bs))

(* Install reads the config and makes sure that Vault's file is Vault's. *)
Read(r) ==
  /\ req[r].pc = "read"
  /\ LET c == req[r].conf
         theirs == FileFor(c) \in DOMAIN files /\ ~Written(files[FileFor(c)])
     IN IF c \notin DOMAIN files \/ theirs THEN Become(r, Idle)
        ELSE Become(r, [req[r] EXCEPT !.pc = "include", !.text = files[c]])
  /\ Same

WithFile(name, text) == [f \in DOMAIN files \cup {name} |-> IF f = name THEN text ELSE files[f]]

WithoutFile(name) == [f \in DOMAIN files \ {name} |-> files[f]]

(* The lines of a config that are not Vault's, and of these the ones that  *)
(* Vault has no leave to touch: of several empty ones in a row the first,  *)
(* and none at the end.                                                    *)
NotVaults(text) == {i \in DOMAIN text : text[i].kind \notin {"note", "load"}}

Between(text, i, j) == \E k \in NotVaults(text) : i < k /\ k < j /\ ~IsBlank(text, k)

TheirLines(text) ==
  {i \in NotVaults(text) : IsBlank(text, i) =>
     /\ Between(text, i, Len(text) + 1)
     /\ \A j \in NotVaults(text) : j < i /\ IsBlank(text, j) => Between(text, j, i)}

Theirs(text) == Picked(text, TheirLines(text))

(* writeAtomic of the config, which undoes what the user edited since it   *)
(* was read.                                                               *)
WriteConf(r, text, pc) ==
  LET undoes == req[r].conf \notin DOMAIN files \/ Theirs(files[req[r].conf]) # Theirs(req[r].text)
  IN /\ files' = WithFile(req[r].conf, text)
     /\ req' = [q \in Reqs |-> [req[q] EXCEPT !.pc = IF q = r THEN pc ELSE @, !.text = IF q = r THEN << >> ELSE @,
                                              !.moved = @ \/ undoes]]
     /\ UNCHANGED <<hypr, running, conf, trouble>>

WriteInclude(r) ==
  /\ req[r].pc = "include"
  /\ files' = WithFile(FileFor(req[r].conf), Render(req[r].bs))
  /\ IF hasLoadLine(req[r].text) THEN Become(r, [req[r] EXCEPT !.pc = "reload", !.text = << >>]) ELSE Goto(r, "load")
  /\ UNCHANGED hypr

WriteLoadLine(r) ==
  /\ req[r].pc = "load"
  /\ WriteConf(r, WithLoadLine(req[r].text, req[r].conf), "reload")

(* Remove, of the dashboard and of vaultctl: Vault's file goes first. *)
RemoveInclude(r, c) ==
  LET inc == FileFor(c)
  IN /\ inc \in DOMAIN files => Written(files[inc])
     /\ req[r].pc = "idle"
     /\ files' = WithoutFile(inc)
     /\ req' = [q \in Reqs |-> IF q = r THEN [Idle EXCEPT !.pc = "strip", !.op = "remove", !.conf = c, !.alone = Lone(r)]
                               ELSE [req[q] EXCEPT !.alone = FALSE]]
     /\ UNCHANGED <<hypr, running, conf, trouble>>

Strip(r) ==
  /\ req[r].pc = "strip"
  /\ IF req[r].conf \in DOMAIN files
     THEN Become(r, [req[r] EXCEPT !.pc = "clean", !.text = files[req[r].conf]])
     ELSE Goto(r, "old")
  /\ Same

WriteClean(r) ==
  /\ req[r].pc = "clean"
  /\ IF writeWithout(req[r].text) = req[r].text THEN Become(r, [req[r] EXCEPT !.pc = "old", !.text = << >>]) /\ Same
     ELSE WriteConf(r, writeWithout(req[r].text), "old")

(* With a Lua config, Vault's file of an older install goes too. *)
RemoveOld(r) ==
  /\ req[r].pc = "old"
  /\ files' = IF IsLua(req[r].conf) /\ includeName \in DOMAIN files /\ Written(files[includeName])
              THEN WithoutFile(includeName) ELSE files
  /\ Goto(r, "reload")
  /\ UNCHANGED hypr

(* Reload: hyprctl reload, if there is a Hyprland.  That it fails, nobody  *)
(* is told.                                                                *)
Reload(r) ==
  /\ req[r].pc = "reload"
  /\ hypr' = IF running THEN Loaded(files) ELSE hypr
  /\ Become(r, [req[r] EXCEPT !.pc = "done", !.loaded = TRUE])
  /\ UNCHANGED files

ReloadFails(r) ==
  /\ req[r].pc = "reload" /\ running /\ trouble < MaxTrouble
  /\ trouble' = trouble + 1
  /\ req' = [req EXCEPT ![r].pc = "done", ![r].loaded = FALSE]
  /\ UNCHANGED <<files, hypr, running, conf>>

Answer(r) ==
  /\ req[r].pc = "done"
  /\ Become(r, Idle)
  /\ Same

(* A write fails and the request answers an error, or its process ends. *)
Stop(r) ==
  /\ req[r].pc \notin {"idle", "done"} /\ trouble < MaxTrouble
  /\ trouble' = trouble + 1
  /\ req' = [req EXCEPT ![r] = Idle]
  /\ UNCHANGED <<files, hypr, running, conf>>

Next ==
  \/ UserEdits \/ UserMigrates \/ HyprReloads \/ VaultdStarts
  \/ \E r \in Reqs :
       \/ \E want \in Wants : Save(r, want)
       \/ \E useSuggestions \in BOOLEAN : CtlInstall(r, useSuggestions)
       \/ \E c \in {conf, FindConfig(files)} : RemoveInclude(r, c)
       \/ Read(r) \/ WriteInclude(r) \/ WriteLoadLine(r)
       \/ Strip(r) \/ WriteClean(r) \/ RemoveOld(r)
       \/ Reload(r) \/ ReloadFails(r) \/ Answer(r) \/ Stop(r)

Spec == Init /\ [][Next]_vars

-------------------------------------------------------------------------------

TypeOK ==
  /\ DOMAIN files \subseteq Mains \cup VaultFiles \cup {"sourced"}
  /\ \A f \in DOMAIN files : IsText(files[f])
  /\ conf \in Mains
  /\ \A r \in Reqs : /\ req[r].pc \in {"idle", "read", "include", "load", "strip", "clean", "old", "reload", "done"}
                     /\ req[r].op \in {"", "save", "remove"}
  /\ trouble \in 0 .. MaxTrouble

(* docs/shortcuts.md, "Only Vault's own file and its one source line are   *)
(* ever written": no request removes, adds or moves a line of the user's   *)
(* configs that is not Vault's, and of the other files it writes and       *)
(* removes only those that Vault wrote; unless the user edited the config  *)
(* after the request read it.  Empty lines of the user's are another       *)
(* matter: docs/shortcuts.md:90 has the rest of the config stay "byte for  *)
(* byte", but Remove (install.go:188-191, lua.go:148-151) makes one of     *)
(* several in a row, anywhere in the file, and drops those at its end.  So *)
(* the property keeps an empty line between two others, and no more.       *)
UserLinesKept ==
  [][ trouble' = trouble =>
        /\ DOMAIN files' \subseteq DOMAIN files \cup VaultFiles
        /\ \A f \in DOMAIN files : (f \notin DOMAIN files' \/ files'[f] # files[f]) =>
             \/ f \in VaultFiles /\ Written(files[f])
             \/ /\ f \in Mains \cap DOMAIN files'
                /\ \/ Theirs(files'[f]) = Theirs(files[f])
                   \/ \E r \in Reqs : /\ req[r].pc \in {"load", "clean"} /\ req[r].conf = f
                                      /\ req[r].moved /\ Theirs(req[r].text) # Theirs(files[f])
    ]_vars

AsPlanned(b) == [id |-> b.arg, mods |-> b.mods, key |-> b.key]

Ours(f) == {b \in Loaded(f) : b.src \in {includeName, luaName}}

(* "An existing binding is never overwritten": when shortcuts were saved,  *)
(* none of them has the keys of a binding that is not Vault's, nor of      *)
(* another one, unless the user edited something since they were checked   *)
(* (or Vault could not see everything: a Lua config without a Hyprland to  *)
(* ask, or whose Hyprland has not loaded it as it is).                     *)
NothingTaken ==
  \A r \in Reqs :
    req[r].pc = "done" /\ req[r].op = "save" /\ req[r].sure /\ ~req[r].moved =>
      \A b \in Ours(files), c \in Loaded(files) :
        AsPlanned(b) \in req[r].bs /\ sameCombo(b, c) => b = c \/ (isVault(c) /\ c.src # b.src)

(* Lines that pass for one that loads Vault's file, and none that does. *)
OnlyMentioned(text) == HasOf(text, {"mention"}) /\ ~HasOf(text, {"load", "loadish"})

(* A Lua file of Vault's that hyprland.conf does not load. *)
LeftOver(c) == IF IsLua(c) THEN {} ELSE InstalledIn(files, luaName)

(* A request that ran alone does what it answers, whatever an earlier one  *)
(* left behind: saved shortcuts are the ones that Hyprland loads and that  *)
(* the dashboard shows, and nothing of a removed one is left.  But saved   *)
(* shortcuts are not loaded where a line of the user's only passes for the *)
(* load line (Vault then adds none, install.go:88, lua.go:77); beside      *)
(* hyprland.conf the dashboard shows those of a leftover omarchy_vault.lua *)
(* (custom.go:160); and a Hyprland whose reload failed (lua.go:260) goes   *)
(* on with what it had.  (The configs of the run close their submaps, and  *)
(* take none of Vault's keys back after they loaded its file.)             *)
LoneRequestTakes ==
  \A r \in Reqs :
    LET q == req[r]
    IN q.pc = "done" /\ q.alone /\ q.conf = FindConfig(files) =>
         /\ \/ {AsPlanned(b) : b \in Ours(files)} = q.bs
            \/ q.op = "save" /\ OnlyMentioned(files[q.conf])
         /\ LeftOver(q.conf) = {} => Installed(files) = q.bs
         /\ running /\ q.loaded => Loaded(files) = hypr
         /\ q.op = "remove" => \A i \in DOMAIN files[q.conf] : ~Dropped(files[q.conf][i])
===============================================================================
