---------------------------- MODULE MCSysComponent ----------------------------
EXTENDS SysComponent

(* The dependencies considered for c: none, one, or two in either order.   *)
Deps(c) == LET others == Components \ {c}
           IN  {<<>>} \union {<<a>> : a \in others}
                      \union {<<p[1], p[2]>> : p \in {q \in others \X others : q[1] # q[2]}}

Image(order, phases, required, dependencies) ==
    [i \in DOMAIN order |-> [id |-> order[i], phase |-> phases[i],
                             required |-> required[i], dependencies |-> dependencies[order[i]]]]

(* Every phase and policy, and every dependency graph without loops on one *)
(* component, in the link order given: cycles, dependencies that are       *)
(* missing or in a later phase, and an id given twice are among them.      *)
ImagesOf(order) ==
    {Image(order, phases, required, <<a, b, c>>) :
        phases \in [DOMAIN order -> Phases], required \in [DOMAIN order -> BOOLEAN],
        a \in Deps(1), b \in Deps(2), c \in Deps(3)}

MCImages == ImagesOf(<<1, 3, 2>>) \union ImagesOf(<<2, 1>>) \union ImagesOf(<<2, 2>>)
=============================================================================
