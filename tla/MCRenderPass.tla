----------------------------- MODULE MCRenderPass -----------------------------
(* Instances of RenderPass for TLC: two colour slots and a depth-stencil      *)
(* slot; a colour image with two views, a smaller colour image, and a         *)
(* depth-stencil image.                                                      *)
EXTENDS RenderPass, TLC

CONSTANTS colour, srgb, small, depth, q1, q2, q3

MCViews == {colour, srgb, small, depth}
MCImageOf == [v \in MCViews |-> IF v = srgb THEN colour ELSE v]
MCAspectsOf == [v \in MCViews |-> IF v = depth THEN {"depth", "stencil"} ELSE {"color"}]

Bound(c0, c1, d) == [s \in 0 .. 2 |-> CASE s = 0 -> c0 [] s = 1 -> c1 [] s = 2 -> d]

(* Colour targets without a gap.                                              *)
MCTargets ==
    {Bound(NoView, NoView, NoView), Bound(colour, NoView, depth),
     Bound(srgb, NoView, depth), Bound(small, colour, NoView)}

(* The first colour slot is empty, as after OMSetRenderTargets(NULL, view).   *)
MCTargetsWithGap == {Bound(NoView, colour, NoView), Bound(colour, NoView, NoView)}

MCTypeOf == [q \in Queries |-> CASE q = q1 -> "occlusion" [] q = q2 -> "statistics" [] q = q3 -> "xfb"]
ValueSymmetry == Permutations(Values)
===============================================================================
