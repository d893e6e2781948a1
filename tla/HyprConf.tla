------------------------------- MODULE HyprConf --------------------------------
(***************************************************************************)
(* internal/shortcuts without its files: what a Hyprland config binds, how *)
(* Vault's shortcuts are checked against it, and the edits of its text.    *)
(*                                                                         *)
(* A config is a sequence of lines, a line is a record of its kind and of  *)
(* what it names.  "load" is exactly the line that Vault adds, "loadish" a *)
(* line of the user's that loads Vault's file too, "mention" a line of the *)
(* user's that only looks like one (a Lua string or block comment with the *)
(* file's name, a source of a file of that name in another folder), "note" *)
(* Vault's comment, "header" the first line of a file that Vault wrote.    *)
(* Modifiers are sets of canonical names (parseMods), in which "$m" stands *)
(* for a variable.                                                         *)
(***************************************************************************)
EXTENDS Naturals, Sequences, FiniteSets

Seqs == INSTANCE SequencesExt

CONSTANT Plan  \* the default shortcuts: a set of records of id, mods and key

ASSUME PlanAssumption ==
  /\ IsFiniteSet(Plan)
  /\ \A p, q \in Plan : p.id = q.id \/ p.key = q.key => p = q

Ids == {p.id : p \in Plan}

ModChoices == {"SUPER", "SHIFT", "CTRL", "ALT"}

maxSourceDepth == 8
maxConfigFiles == 200

includeName == "omarchy-vault.conf"
luaName == "omarchy_vault.lua"

IsLua(conf) == conf = "hyprland.lua"

FileFor(conf) == IF IsLua(conf) THEN luaName ELSE includeName

(* findConfig: in each folder hyprland.lua comes before hyprland.conf. *)
FindConfig(files) == IF "hyprland.lua" \in DOMAIN files THEN "hyprland.lua" ELSE "hyprland.conf"

(* normalizeMod and sameCombo: the lock modifiers are ignored. *)
sameCombo(a, b) == a.key = b.key /\ a.mods \ {"CAPS", "MOD2"} = b.mods \ {"CAPS", "MOD2"}

Without(binds, combo) == {b \in binds : ~sameCombo(b, combo)}

-------------------------------------------------------------------------------
(* parseConfigTree. The parser p: the value of the variable, the files it  *)
(* visited, the bindings so far and whether it is in a submap.             *)

subst(mods, p) == IF "$m" \in mods THEN (mods \ {"$m"}) \cup p.var ELSE mods

Combo(line, p) == [mods |-> subst(line.mods, p), key |-> line.key]

Bound(line, p, file) == [mods |-> subst(line.mods, p), key |-> line.key, arg |-> line.arg, src |-> file]

Loads(line) == line.kind \in {"source", "load", "loadish"}

parseLine(file, p, line) ==
  CASE line.kind = "var" -> [p EXCEPT !.var = subst(line.mods, p)]
    [] line.kind = "submap" -> [p EXCEPT !.submap = TRUE]
    [] line.kind = "reset" -> [p EXCEPT !.submap = FALSE]
    [] line.kind = "unbind" /\ ~p.submap -> [p EXCEPT !.binds = Without(@, Combo(line, p))]
    [] line.kind = "bind" /\ ~p.submap -> [p EXCEPT !.binds = @ \cup {Bound(line, p, file)}]
    [] OTHER -> p

Parsers ==
  [var : SUBSET STRING, visited : SUBSET STRING, submap : BOOLEAN,
   binds : SUBSET [mods : SUBSET STRING, key : STRING, arg : STRING, src : STRING]]

(* parseFile, a function of the depth, the file and the parser before it.  *)
parseFile(files) ==
  LET parse[depth \in Nat, file \in STRING, p \in Parsers] ==
        IF depth > maxSourceDepth \/ file \in p.visited \cup {""} \/ file \notin DOMAIN files
           \/ Cardinality(p.visited) >= maxConfigFiles
        THEN p
        ELSE Seqs!FoldLeft(LAMBDA q, line : IF Loads(line) THEN parse[depth + 1, line.arg, q] ELSE parseLine(file, q, line),
                           [p EXCEPT !.visited = @ \cup {file}], files[file])
  IN parse

NewParser == [var |-> {"$m"}, visited |-> {}, binds |-> {}, submap |-> FALSE]

parseConfigTree(files, root) == parseFile(files)[0, root, NewParser].binds

(* parseLuaTree: every Lua file but Vault's, whatever is loaded; a binding *)
(* made with a variable cannot be read, nor can what a binding runs.  Of   *)
(* each file the bindings come first and are then taken back, in whatever  *)
(* order they are written.                                                 *)
Literal(text, kind) == {text[i] : i \in {i \in DOMAIN text : text[i].kind = kind /\ "$m" \notin text[i].mods}}

parseLua(binds, text) ==
  {b \in binds \cup {[mods |-> l.mods, key |-> l.key, arg |-> "", src |-> "lua"] : l \in Literal(text, "bind")} :
     \A u \in Literal(text, "unbind") : ~sameCombo(b, u)}

parseLuaTree(files) ==
  parseLua(parseLua({}, files["hyprland.lua"]), IF "sourced" \in DOMAIN files THEN files["sourced"] ELSE << >>)

-------------------------------------------------------------------------------
(* The verdicts. *)

(* parseHyprctl: where a binding of the running Hyprland comes from, it    *)
(* does not tell.                                                          *)
parseHyprctl(hypr) == {[b EXCEPT !.src = "hyprctl"] : b \in hypr}

(* Inspector.collect: hypr are the bindings of the running Hyprland. *)
Bindings(files, conf, hypr) ==
  parseHyprctl(hypr) \cup (IF conf \notin DOMAIN files THEN {}
             ELSE IF IsLua(conf) THEN parseLuaTree(files) ELSE parseConfigTree(files, conf))

isVault(b) == b.arg \in Ids \/ b.src \in {includeName, luaName}

(* Build. *)
ValidCombo(c) == c.mods \subseteq ModChoices /\ c.mods \cap {"SUPER", "CTRL", "ALT"} # {}

(* Mutant of AllAvailable: the asked ones are not compared to each other. *)
AllAvailableApart(existing, want) ==
  \A w \in want : ValidCombo(w) /\ \A b \in existing : ~isVault(b) => ~sameCombo(w, b)

(* CheckAll: every shortcut that is asked for is available. *)
AllAvailable(existing, want) ==
  /\ \A w \in want : ValidCombo(w) /\ \A b \in existing : ~isVault(b) => ~sameCombo(w, b)
  /\ \A v, w \in want : sameCombo(v, w) => v = w

(* suggest: the first of these modifiers that is free with the key. *)
Alternatives == << {"SUPER", "SHIFT"}, {"SUPER", "CTRL", "ALT"}, {"SUPER", "CTRL", "SHIFT"} >>

suggest(p, existing) ==
  LET free == {i \in DOMAIN Alternatives : \A b \in existing : ~sameCombo([p EXCEPT !.mods = Alternatives[i]], b)}
  IN IF free = {} THEN {}
     ELSE {[p EXCEPT !.mods = Alternatives[CHOOSE i \in free : \A j \in free : i <= j]]}

(* Analyze and Choose: what is free, or ours already, and an alternative   *)
(* for the others if the user wants one.                                   *)
Conflict(p, existing) == \E b \in existing : sameCombo(p, b) /\ b.arg # p.id

Choose(existing, useSuggestions) ==
  {p \in Plan : ~Conflict(p, existing)}
    \cup (IF useSuggestions THEN UNION {suggest(p, existing) : p \in {q \in Plan : Conflict(q, existing)}} ELSE {})

-------------------------------------------------------------------------------
(* The texts. *)

Line(kind, arg) == [kind |-> kind, mods |-> {}, key |-> "", arg |-> arg]

(* RenderFor, and Installed, which reads it back. *)
Render(bs) ==
  << Line("header", "") >> \o Seqs!SetToSeq({[kind |-> "bind", mods |-> b.mods, key |-> b.key, arg |-> b.id] : b \in bs})

Written(file) == file # << >> /\ file[1].kind = "header"

InstalledIn(files, name) ==
  IF name \notin DOMAIN files THEN {}
  ELSE {[id |-> line.arg, mods |-> line.mods, key |-> line.key] :
          line \in {files[name][i] : i \in {i \in DOMAIN files[name] : files[name][i].kind = "bind" /\ files[name][i].arg \in Ids}}}

Installed(files) ==
  IF InstalledIn(files, luaName) # {} THEN InstalledIn(files, luaName) ELSE InstalledIn(files, includeName)

HasOf(text, kinds) == \E i \in DOMAIN text : text[i].kind \in kinds

(* Mutant of hasLoadLine: a line that is commented out counts. *)
hasLoadLineCommented(text) == HasOf(text, {"load", "loadish", "mention", "commented"})

(* hasSourceLine, hasLuaLoadLine: they go by the name in the line. *)
hasLoadLine(text) == HasOf(text, {"load", "loadish", "mention"})

WithLoadLine(text, conf) == text \o << Line("blank", ""), Line("note", ""), Line("load", FileFor(conf)) >>

(* Mutant of Dropped: whatever loads Vault's file. *)
DroppedAny(line) == line.kind \in {"note", "load", "loadish"}

(* Remove and writeWithout drop exactly the lines that Vault adds. *)
Dropped(line) == line.kind \in {"note", "load"}

(* The lines of a text at these places, in their order. *)
Place(I, n) == CHOOSE i \in I : Cardinality({j \in I : j < i}) = n - 1

Picked(text, I) == [n \in 1 .. Cardinality(I) |-> text[Place(I, n)]]

(* One empty line for several (two at the very start), none at the end:    *)
(* of an empty line the one before it or all that follow are empty too.    *)
IsBlank(text, i) == text[i].kind = "blank"

Tidied(text) ==
  {i \in DOMAIN text : i > 1 /\ IsBlank(text, i) =>
     (i > 2 => ~IsBlank(text, i - 1)) /\ \E j \in i .. Len(text) : ~IsBlank(text, j)}

Undropped(text) == {i \in DOMAIN text : ~Dropped(text[i])}

writeWithout(text) ==
  LET cleaned == Picked(text, Undropped(text))
  IN IF cleaned = << >> THEN <<Line("blank", "")>> ELSE Picked(cleaned, Tidied(cleaned))
===============================================================================
