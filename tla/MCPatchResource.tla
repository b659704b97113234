--------------------------- MODULE MCPatchResource ---------------------------
(* PatchResource for TLC: one visible field, one in a keyed list. *)
EXTENDS PatchResource, TLC

CONSTANTS f, g, v1, v2

Content(vf, vg) == (f :> vf) @@ (g :> vg)

\* Contents with either field, or both, and with either value of the visible one.
SomeBodies == {Content(v1, None), Content(v2, None), Content(v1, v1), Content(None, v2)}

Symmetry == Permutations(Ids) \cup Permutations(Patches)
=============================================================================
