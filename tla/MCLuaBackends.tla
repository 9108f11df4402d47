---------------------------- MODULE MCLuaBackends ---------------------------
(* Small instances of LuaBackends for TLC. *)
EXTENDS LuaBackends, TLC

CONSTANTS n1, n2, a1, a2, e1, e2, empty

\* n1 is a cluster service that scales, disappears and comes back; n2 is an
\* ExternalName service that changes and disappears.
StableLists ==
  {(n1 :> x @@ n2 :> y) : x \in {a1, empty, Absent}, y \in {e1, e2}}
    \cup {(n1 :> a2 @@ n2 :> Absent)}

\* One cluster service.
PlainLists == {(n1 :> x) : x \in {a1, a2}}

\* A service of type ExternalName that becomes a cluster service.
ChangingLists == {(n1 :> x) : x \in {a1, e1}}
=============================================================================
