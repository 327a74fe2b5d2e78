----------------------------- MODULE ModuleConfig -----------------------------
(***************************************************************************)
(* Which modules are built: the manifests of app/features, the             *)
(* configuration tool tools/menuconfig.py with its file .config, and       *)
(* CMake, which reads the manifests and .config (tools/ParseConfig.cmake)  *)
(* into its cache and refuses a module whose dependency is off.            *)
(*                                                                         *)
(* The tool runs any number of times, one at a time; CMake configures at   *)
(* any moment, also while the tool saves.  tool is                         *)
(*                                                                         *)
(*    none                    not running                                  *)
(*    menu, confirm           in the menu, or asked to confirm an ESC      *)
(*    write, replace          in save_config: the temporary file being     *)
(*                            written, or complete                         *)
(*                                                                         *)
(* An exception in save_config, or a kill at any point, ends the tool.     *)
(* Left out: manifests that are malformed, the cursor and the screen, a    *)
(* line of .config that is not valid (the tool ends, as with an unknown    *)
(* entry), and machine crashes (nothing is flushed to disk).               *)
(***************************************************************************)
EXTENDS Naturals, FiniteSets, SequencesExt

CONSTANTS
    Order,          \* the modules, as sorted by the names of their manifests
    Unknown,        \* what no manifest declares
    Manifests       \* the manifests considered: depends and default by module

Modules == ToSet(Order)

ASSUME ConfigAssumption ==
    /\ Order \in Seq(Modules) /\ IsInjective(Order)
    /\ Unknown \notin Modules
    /\ \A m \in Manifests :
         m.depends \in [Modules -> Seq(Modules \union {Unknown})] /\ m.default \subseteq Modules

VARIABLES
    manifests,      \* it never changes
    tool,
    enabled,        \* the modules the tool has enabled
    dirty,
    file,           \* .config: each module "y", "n" or "unset"; all are "unset"
                    \* when there is no file
    stray,          \* .config has an entry that no manifest declares
    saved,          \* .config was written by the tool
    after_save,     \* where save_config was called: "menu" or "none"
    cache           \* CONFIG_m in the CMake cache: "y", "n" or "unset"

toolVars == <<tool, enabled, dirty, after_save>>
fileVars == <<file, stray, saved>>
vars == <<manifests, toolVars, fileVars, cache>>

DependsOn(c) == ToSet(manifests.depends[c])

(* Definitions named X_Y are X with the plausible bug Y; no action uses     *)
(* them.                                                                   *)
MayReplace_WhileWriting == tool \in {"write", "replace"}

(* What follows is about depends, the dependencies of the manifests.        *)
(*                                                                         *)
(* validate_dependency_graph: depth first, with the modules already        *)
(* visited; the result is the visited set, or a failure (an exception, so  *)
(* that nothing else is left).  A path is that of the modules entered.     *)
Failed == [ok |-> FALSE, visited |-> {}]
Visited(visited) == [ok |-> TRUE, visited |-> visited]
Validated(depends) ==
    LET visit[path \in SUBSET Modules] ==
            [c \in Modules |-> [visited \in SUBSET Modules |->
                IF c \in path THEN Failed
                ELSE IF c \in visited THEN Visited(visited)
                ELSE LET next(r, d) == IF r = Failed \/ d \notin Modules THEN Failed
                                       ELSE visit[path \union {c}][d][r.visited]
                         end == FoldLeft(next, Visited(visited), depends[c])
                     IN  IF end = Failed THEN Failed ELSE Visited(end.visited \union {c})]]
    IN  FoldLeft(LAMBDA r, c : IF r = Failed THEN Failed ELSE visit[{}][c][r.visited],
                 Visited({}), Order) # Failed

(* validate_module_dependencies of CMake keeps no visited set.             *)
CMakeValidated(depends) ==
    LET visit[path \in SUBSET Modules] ==
            [c \in Modules |->
                /\ c \notin path
                /\ \A d \in ToSet(depends[c]) : d \in Modules /\ visit[path \union {c}][d]]
    IN  \A c \in Modules : visit[{}][c]

(* normalize_dependencies: passes over the modules, until one changes      *)
(* nothing.                                                                *)
Pass(depends, E) ==
    FoldLeft(LAMBDA on, c : IF ToSet(depends[c]) \subseteq on THEN on ELSE on \ {c}, E, Order)
Repeat_Once(depends, E) == Pass(depends, E)
Repeat(depends, E) ==
    LET repeat[on \in SUBSET Modules] ==
            IF Pass(depends, on) = on THEN on ELSE repeat[Pass(depends, on)]
    IN  repeat[E]
Normalize(E) == Repeat(manifests.depends, E)

(* load_config: what .config does not mention keeps its default.           *)
Loaded == Normalize({c \in Modules : file[c] = "y" \/ (file[c] = "unset" /\ c \in manifests.default)})

MayReplace == tool = "replace"

-----------------------------------------------------------------------------
(* menuconfig.py with --write-default, and without options *)
RunWriteDefault ==
    /\ tool = "none" /\ Validated(manifests.depends)
    /\ tool' = "write" /\ after_save' = "none"
    /\ enabled' = Normalize(manifests.default) /\ dirty' = FALSE
    /\ UNCHANGED <<manifests, fileVars, cache>>

RunMenu ==
    /\ tool = "none" /\ Validated(manifests.depends)
    /\ ~stray
    /\ tool' = "menu" /\ enabled' = Loaded /\ dirty' = FALSE
    /\ UNCHANGED <<manifests, after_save, fileVars, cache>>

(* The space key. *)
Toggle(c) ==
    /\ tool = "menu"
    /\ c \in enabled \/ DependsOn(c) \subseteq enabled
    /\ enabled' = Normalize(IF c \in enabled THEN enabled \ {c} ELSE enabled \union {c})
    /\ dirty' = TRUE
    /\ UNCHANGED <<manifests, tool, after_save, fileVars, cache>>

(* S in the menu, and S after an ESC. *)
Save ==
    /\ tool \in {"menu", "confirm"}
    /\ tool' = "write" /\ enabled' = Normalize(enabled)
    /\ after_save' = IF tool = "menu" THEN "menu" ELSE "none"
    /\ UNCHANGED <<manifests, dirty, fileVars, cache>>

Escape ==
    /\ tool \in {"menu", "confirm"}
    /\ tool' = IF tool = "menu" /\ dirty THEN "confirm" ELSE "none"
    /\ UNCHANGED <<manifests, enabled, dirty, after_save, fileVars, cache>>

OtherKey ==
    /\ tool = "confirm"
    /\ tool' = "menu"
    /\ UNCHANGED <<manifests, enabled, dirty, after_save, fileVars, cache>>

WriteTemporary ==
    /\ tool = "write"
    /\ tool' = "replace"
    /\ UNCHANGED <<manifests, enabled, dirty, after_save, fileVars, cache>>

(* os.replace puts the lines written so far, all of them if the temporary  *)
(* file is complete, in the place of .config.                              *)
Replace ==
    /\ MayReplace
    /\ \E n \in (IF tool = "replace" THEN {Len(Order)} ELSE 0..Len(Order)) :
         file' = [c \in Modules |-> IF \A i \in 1..n : Order[i] # c THEN "unset"
                                    ELSE IF c \in enabled THEN "y" ELSE "n"]
    /\ stray' = FALSE /\ saved' = TRUE
    /\ tool' = after_save /\ dirty' = FALSE
    /\ UNCHANGED <<manifests, enabled, after_save, cache>>

(* An exception, a KeyboardInterrupt or a kill. *)
ToolDies ==
    /\ tool # "none"
    /\ tool' = "none"
    /\ UNCHANGED <<manifests, enabled, dirty, after_save, fileVars, cache>>

-----------------------------------------------------------------------------
(* CMake configures: .config is forced into the cache, which keeps what an *)
(* earlier run has left of the rest; options without a value take their    *)
(* default.  The modules in BUILD mode need all they depend on.            *)
Configured == [c \in Modules |->
    IF file[c] # "unset" THEN file[c]
    ELSE IF cache[c] # "unset" THEN cache[c]
    ELSE IF c \in manifests.default THEN "y" ELSE "n"]
Builds(values) ==
    \A c \in Modules : values[c] = "y" => \A d \in DependsOn(c) : values[d] = "y"

Configure ==
    /\ CMakeValidated(manifests.depends)
    /\ cache' = Configured
    /\ UNCHANGED <<manifests, toolVars, fileVars>>

-----------------------------------------------------------------------------
Init ==
    /\ manifests \in Manifests
    /\ tool = "none" /\ enabled = {} /\ dirty = FALSE /\ after_save = "none"
    /\ file \in [Modules -> {"y", "n", "unset"}] /\ stray \in BOOLEAN /\ saved = FALSE
    /\ cache = [c \in Modules |-> "unset"]

Next ==
    \/ RunWriteDefault \/ RunMenu \/ (\E c \in Modules : Toggle(c)) \/ Save \/ Escape \/ OtherKey
    \/ WriteTemporary \/ Replace \/ ToolDies
    \/ Configure

Spec == Init /\ [][Next]_vars

-----------------------------------------------------------------------------
TypeOK ==
    /\ manifests \in Manifests
    /\ tool \in {"none", "menu", "confirm", "write", "replace"} /\ after_save \in {"menu", "none"}
    /\ enabled \subseteq Modules /\ dirty \in BOOLEAN
    /\ file \in [Modules -> {"y", "n", "unset"}]
    /\ stray \in BOOLEAN /\ saved \in BOOLEAN
    /\ cache \in [Modules -> {"y", "n", "unset"}]

(* What c depends on, directly or not.                                     *)
Ancestors(depends, c) ==
    LET step[n \in 0..Len(Order)] ==
            IF n = 0 THEN ToSet(depends[c])
            ELSE step[n - 1] \union UNION {ToSet(depends[d]) : d \in step[n - 1] \cap Modules}
    IN  step[Len(Order)]

(* The graph algorithms are right on every manifest set: the search with   *)
(* a visited set, CMake's without one and the plain definition (nothing    *)
(* unknown, nothing reaches itself) accept the same graphs, and the passes *)
(* of normalize_dependencies switch off no more than they must: what they  *)
(* leave is the greatest set in which every dependency is met.             *)
GraphAlgorithmsExact ==
    LET depends == manifests.depends
        met(F)  == \A c \in F : ToSet(depends[c]) \subseteq F
    IN  /\ Validated(depends) <=> CMakeValidated(depends)
        /\ Validated(depends) <=> \A c \in Modules : Ancestors(depends, c) \subseteq Modules \ {c}
        /\ \A E \in SUBSET Modules : Repeat(depends, E) = UNION {F \in SUBSET E : met(F)}

(* A .config that the tool has written builds, at every moment: also while *)
(* the tool writes again or has died in the middle, and whatever an        *)
(* earlier configuration has left in the CMake cache.  And if the menu     *)
(* shows no change since a save, .config is what it shows.                 *)
SavedConfigBuilds ==
    saved => /\ Builds(Configured)
             /\ tool = "menu" /\ ~dirty => enabled = {c \in Modules : file[c] = "y"}
=============================================================================
