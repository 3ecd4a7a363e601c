-------------------------- MODULE DetectionGeometry --------------------------
(***************************************************************************)
(* From the camera frame to the model's square input and back: letterbox,  *)
(* the layout of the model's output, parseOutput's boxes and the crops     *)
(* that IFF and the balloon segmentor take.  The two axes are treated      *)
(* alike, so a box is an interval.                                         *)
(*                                                                         *)
(* Fractions are pairs <<numerator, denominator>>, the denominator         *)
(* positive; rounding is where the code rounds.                            *)
(***************************************************************************)
EXTENDS Integers

CONSTANTS
    FrameSizes,     \* {<<this side, the other side>>, ...} of a frame
    InputSize,      \* config_.input_size
    Overhang,       \* how far outside the frame a predicted box may begin or end
    NumClasses,     \* config_.class_names.size()
    Predictions     \* how many boxes the model's output may hold

ASSUME GeometryAssumption ==
    /\ FrameSizes \subseteq (Nat \ {0}) \X (Nat \ {0})
    /\ InputSize \in Nat \ {0} /\ Overhang \in Nat /\ NumClasses \in Nat \ {0}
    /\ Predictions \subseteq Nat

VARIABLES
    stage,      \* "frame", "predicted", "parsed", "cropped"
    size,       \* <<this side, the other side>>
    object,     \* <<first, last>>: what the model sees, in frame pixels
    box         \* the interval of this stage: fractions, then pixels

geometry_vars == <<stage, size, object, box>>

Side  == size[1]
Large == IF size[1] > size[2] THEN size[1] ELSE size[2]
Small == IF size[1] > size[2] THEN size[2] ELSE size[1]

Trunc(n, d) == IF n >= 0 THEN n \div d ELSE -((-n) \div d)
Least(a, b) == IF a < b THEN a ELSE b
Most(a, b)  == IF a < b THEN b ELSE a

-----------------------------------------------------------------------------
\* The scale r is InputSize/Large; the resized side is rounded, what is left is
\* halved for the padding, and the picture is pasted at the padding's whole part.
NewSide == (2 * Side * InputSize + Large) \div (2 * Large)
PadTwice == InputSize - NewSide
PastedAt == PadTwice \div 2

\* Before the first frame.
GeometryInit ==
    /\ stage = "cropped" /\ size = <<1, 1>> /\ object = <<0, 0>> /\ box = <<0, 0>>

NextFrame ==
    /\ stage = "cropped" /\ stage' = "frame"
    /\ size' \in FrameSizes
    /\ object' = <<0, 0>> /\ box' = <<0, 0>>

\* The model finds the object where letterbox put it, over 2 * Side.
letterbox ==
    /\ stage = "frame" /\ stage' = "predicted"
    /\ \E a \in -Overhang..Side + Overhang, b \in -Overhang..Side + Overhang :
          /\ a < b /\ object' = <<a, b>>
          /\ box' = <<2 * Side * PastedAt + 2 * a * NewSide,
                      2 * Side * PastedAt + 2 * b * NewSide>>
    /\ UNCHANGED size

\* Back to the frame, over 2 * Side * InputSize: the padding comes off, then the scale.
Over == 2 * Side * InputSize
UnmapKeepingPad(x) == x * Large
Unmap(x) == (x - Side * PadTwice) * Large

\* A corner before the frame moves to its edge, the length stays; an end behind
\* the frame shortens the box, which may turn it inside out.
parseOutput1D(from, to) ==
    LET x1 == Most(0, Unmap(from))
        w  == (to - from) * Large
        w1 == IF x1 + w > Side * Over THEN Side * Over - x1 ELSE w
    IN  <<Trunc(x1, Over), Trunc(w1, Over)>>

parseOutput ==
    /\ stage = "predicted" /\ stage' = "parsed"
    /\ box' = parseOutput1D(box[1], box[2])
    /\ UNCHANGED <<size, object>>

\* The crop of segmentHsv and of IFF: from the corner to the end within the frame.
Crop(corner, length) == <<Most(0, corner), Least(Side, corner + length)>>

segmentHsv ==
    /\ stage = "parsed" /\ stage' = "cropped"
    /\ box' = Crop(box[1], box[2])
    /\ UNCHANGED <<size, object>>

GeometryNext == NextFrame \/ letterbox \/ parseOutput \/ segmentHsv

GeometrySpec == GeometryInit /\ [][GeometryNext]_geometry_vars

-----------------------------------------------------------------------------
\* detect(): which dimension holds the features, 4 + classes and maybe one more.
Expected == 4 + NumClasses
LooksLikeFeatures(dim) == dim >= Expected /\ dim <= Expected + 1
Layout(dim1, dim2) ==
    IF LooksLikeFeatures(dim1) THEN [feat |-> dim1, preds |-> dim2, transposed |-> FALSE]
    ELSE IF LooksLikeFeatures(dim2) THEN [feat |-> dim2, preds |-> dim1, transposed |-> TRUE]
    ELSE IF dim1 > dim2 THEN [feat |-> dim1, preds |-> dim2, transposed |-> FALSE]
    ELSE [feat |-> dim2, preds |-> dim1, transposed |-> TRUE]

-----------------------------------------------------------------------------
\* How far rounding may move an edge: one pixel of the model's input for the
\* resized side and the pasted picture, one of the frame for each truncation.
Slack == (Large + InputSize - 1) \div InputSize + 2

(***************************************************************************)
(* What the model sees comes back to its place: the crop the colours are   *)
(* counted in lies in the frame, and it holds the visible part of the      *)
(* object except for the rounding.  The model's output is read in either   *)
(* layout, unless there are no more boxes than features.                   *)
(***************************************************************************)
BoxesComeBack ==
    /\ stage = "cropped" /\ object[1] < Side /\ object[2] > 0 =>
         /\ 0 <= box[1] /\ box[2] <= Side
         /\ box[1] <= Most(0, object[1]) + Slack
         /\ box[2] >= Least(Side, object[2]) - Slack
         /\ object[1] >= 0 => box[1] >= object[1] - Slack /\ box[2] <= object[2] + Slack
    /\ stage = "cropped" => \A n \in Predictions, feat \in Expected..Expected + 1 :
         n > Expected + 1 =>
           /\ Layout(feat, n) = [feat |-> feat, preds |-> n, transposed |-> FALSE]
           /\ Layout(n, feat) = [feat |-> feat, preds |-> n, transposed |-> TRUE]
=============================================================================
