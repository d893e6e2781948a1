------------------------------ MODULE MCShortcuts ------------------------------
EXTENDS Shortcuts, TLC

K(id, mods, key) == [id |-> id, mods |-> mods, key |-> key]

MCPlan == {K("open", {"SUPER", "ALT"}, "V"), K("upload", {"SUPER", "ALT"}, "U")}

B(mods, key, arg) == [kind |-> "bind", mods |-> mods, key |-> key, arg |-> arg]
At(kind, mods, key) == [kind |-> kind, mods |-> mods, key |-> key, arg |-> ""]

Source == Line("source", "sourced")
Blank == Line("blank", "")

(* Omarchy's defaults: one of Vault's keys is taken, another one only in a *)
(* submap.                                                                 *)
Defaults == <<B({"SUPER", "ALT"}, "U", "user"), Line("submap", ""), B({"SUPER", "SHIFT"}, "V", "user"), Line("reset", "")>>

Include(name) == name :> <<Line("header", ""), B({"SUPER", "ALT"}, "V", "open")>>

MCConfigs ==
  { \* a binding with a variable
    "hyprland.conf" :> <<At("var", {"SUPER"}, ""), Source, Blank, Blank, B({"$m", "ALT"}, "V", "user"), Blank>> @@ "sourced" :> Defaults,
    \* the file of somebody else
    "hyprland.conf" :> <<Source>> @@ "sourced" :> Defaults @@ includeName :> <<B({"SUPER", "ALT"}, "V", "user")>>,
    \* a default that is taken back, and a line of the user's own that loads Vault's file
    "hyprland.conf" :> <<Source, At("unbind", {"SUPER", "CAPS", "ALT"}, "U"), Line("loadish", includeName)>>
      @@ "sourced" :> Defaults @@ Include(includeName),
    \* a source of somebody else's file of that name, and Vault's Lua file of an earlier install
    "hyprland.conf" :> <<Source, Line("mention", "")>> @@ "sourced" :> Defaults @@ Include(luaName),
    \* Lua, and Vault's file of an older install
    "hyprland.lua" :> <<Source, At("var", {"SUPER"}, ""), B({"$m", "ALT"}, "V", "user")>>
      @@ "sourced" :> <<B({"SUPER", "ALT"}, "U", "user")>> @@ Include(includeName),
    \* Lua, with the name of Vault's file in a block comment
    "hyprland.lua" :> <<Line("mention", ""), Source>> @@ "sourced" :> Defaults }

MCWants ==
  {{K("open", {"SUPER", "SHIFT"}, "V"), K("upload", {"SUPER", "ALT"}, "U")},
   {K("open", {"SUPER", "ALT"}, "U"), K("upload", {"SUPER", "ALT"}, "U")},
   {K("open", {"SHIFT"}, "V")}}

(* A Hyprland runs where it knows what the files do not tell, or has      *)
(* loaded Vault's file.                                                    *)
MCInit == Init /\ (running => \E b \in hypr : b.arg \in Ids \/ IsLua(conf))

MCSpec == MCInit /\ [][Next]_vars

ReqSymmetry == Permutations(Reqs)

MCUserBinds == {B({"SUPER", "ALT"}, "V", "user")}
===============================================================================
