----------------------------- MODULE OutputSize -----------------------------
(* The size of a picture after --aspect-ratio or --size with --fit crop or *)
(* pad (internal/imagegen/output.go).  The code multiplies with big        *)
(* integers, and what does not fit in 64 bits is refused as too large.     *)
EXTENDS Integers

CONSTANT MaxPixels

ASSUME PixelsAssumption == MaxPixels \in Nat \ {0}

\* An aspect ratio, or a size ("exact") that is its own ratio.
Option ==
    [fit : {"crop", "pad"}, exact : BOOLEAN, ratioW : Nat \ {0}, ratioH : Nat \ {0}]

Unchanged == [fit |-> "none", exact |-> FALSE, ratioW |-> 1, ratioH |-> 1]

Wider(width, height, o)    == width * o.ratioH > height * o.ratioW
Narrower(width, height, o) == width * o.ratioH < height * o.ratioW

ScaledFloor(value, numerator, denominator) == (value * numerator) \div denominator

ScaledCeil(value, numerator, denominator) ==
    (value * numerator + denominator - 1) \div denominator

\* fitDimensions before its checks: only one side changes.
FitWidth(width, height, o) ==
    IF \/ Wider(width, height, o) /\ o.fit = "crop"
       \/ Narrower(width, height, o) /\ o.fit = "pad"
      THEN (IF o.fit = "crop" THEN ScaledFloor(height, o.ratioW, o.ratioH)
                              ELSE ScaledCeil(height, o.ratioW, o.ratioH))
      ELSE width

FitHeight(width, height, o) ==
    IF \/ Narrower(width, height, o) /\ o.fit = "crop"
       \/ Wider(width, height, o) /\ o.fit = "pad"
      THEN (IF o.fit = "crop" THEN ScaledFloor(width, o.ratioH, o.ratioW)
                              ELSE ScaledCeil(width, o.ratioH, o.ratioW))
      ELSE height

\* Neither empty nor too large.
Representable(width, height) ==
    width > 0 /\ height > 0 /\ width <= MaxPixels \div height

\* parseOutputOptions.
Parsed(o) == o.exact => Representable(o.ratioW, o.ratioH)

\* TransformOutput refuses, or crops or pads to the fitted size and then
\* resizes to an exact one.
Accepts(width, height, o) ==
    Representable(FitWidth(width, height, o), FitHeight(width, height, o))

OutputWidth(width, height, o)  == IF o.exact THEN o.ratioW ELSE FitWidth(width, height, o)
OutputHeight(width, height, o) == IF o.exact THEN o.ratioH ELSE FitHeight(width, height, o)
=============================================================================
