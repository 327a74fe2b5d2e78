---------------------------- MODULE MCModuleConfig ----------------------------
(* Instance of ModuleConfig for TLC: three modules, each with at most two  *)
(* dependencies in any order: cycles, loops and unknown names included.    *)
EXTENDS ModuleConfig

MCOrder == <<2, 1, 3>>
Lists == {s \in SeqOf(Modules \union {Unknown}, 2) : Len(s) = 2 => s[1] < s[2]}
MCManifests ==
    [depends : [Modules -> Lists], default : {{}, Modules}]
=============================================================================
