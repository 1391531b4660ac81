---------------------------- MODULE ConvProblem ----------------------------
(***************************************************************************)
(* The operands of linalg.conv_2d: output += input convolved with kernel.   *)
(* A number of type f32 is an integer, so that the order in which products  *)
(* are added does not matter; infinities and NaN are left out.              *)
(***************************************************************************)
EXTENDS Integers, FiniteSetsExt

CONSTANT Problems   \* the operands considered

Pixels(p) == (0 .. p.rows - 1) \X (0 .. p.cols - 1)
Taps(p) == (0 .. p.kernelRows - 1) \X (0 .. p.kernelCols - 1)
InputPixels(p) == (0 .. p.rows + p.kernelRows - 2) \X (0 .. p.cols + p.kernelCols - 2)

ProblemAssumption ==
  \A p \in Problems :
    /\ p.rows \in Nat /\ p.cols \in Nat /\ p.kernelRows \in Nat /\ p.kernelCols \in Nat
    /\ p.input \in [InputPixels(p) -> Int]
    /\ p.kernel \in [Taps(p) -> Int]
    /\ p.output \in [Pixels(p) -> Int]
ASSUME ProblemAssumption

Product(p, pixel, tap) ==
  p.kernel[tap] * p.input[<<pixel[1] + tap[1], pixel[2] + tap[2]>>]

(* What the pixel holds once the given taps have been added to it.          *)
Accumulated(p, pixel, taps) ==
  p.output[pixel] + MapThenSumSet(LAMBDA tap : Product(p, pixel, tap), taps)
Convolution(p) == [pixel \in Pixels(p) |-> Accumulated(p, pixel, Taps(p))]
=============================================================================
