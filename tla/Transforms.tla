----------------------------- MODULE Transforms -----------------------------
(***************************************************************************)
(* FTransform as far as the hierarchy depends on it: a rotation after a    *)
(* scale along the axes.  The product of two of them may shear, and then   *)
(* there is no such transform.                                             *)
(*                                                                         *)
(* A transform is a turn by a multiple of 45 degrees, in a plane and up to *)
(* half a turn, after a stretch of the first axis by a power of 2.  Its    *)
(* uniform scale, the translation and the third axis are left out: they    *)
(* never shear.                                                            *)
(***************************************************************************)
EXTENDS Integers

CONSTANTS
    NoTransform,       \* where there is no transform
    MaxStretch,        \* bound: the stretch of the transforms that entities hold
    EditedTransforms   \* the transforms that callers put in

Turns == 0..3

\* The transforms within the bound.
Transforms == [turn : Turns, stretch : -MaxStretch..MaxStretch]

ASSUME TransformAssumption ==
    /\ NoTransform \notin [turn : Turns, stretch : Int]
    /\ MaxStretch \in Nat
    /\ EditedTransforms \subseteq Transforms

\* A stretch of t: that of another axis than t's own, unless t is at right angles, shears.
Stretched(t, stretch) ==
    CASE stretch = 0 \/ t.turn = 0 -> [t EXCEPT !.stretch = @ + stretch]
      [] stretch # 0 /\ t.turn = 2 -> [t EXCEPT !.stretch = @ - stretch]
      [] OTHER                     -> NoTransform

Turned(t, turn) ==
    IF t = NoTransform THEN NoTransform ELSE [t EXCEPT !.turn = (@ + turn) % 4]

TryCompose(parent, local) == Turned(Stretched(local, parent.stretch), parent.turn)

TryRelativeTo(world, parent) == Stretched(Turned(world, 4 - parent.turn), -parent.stretch)
=============================================================================
