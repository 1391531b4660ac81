------------------------------- MODULE Conv2D -------------------------------
(***************************************************************************)
(* What any lowering of linalg.conv_2d promises: every product of a kernel  *)
(* element and an input element is added to its output element once, in     *)
(* whatever order and however many pixels at a time.                        *)
(***************************************************************************)
EXTENDS ConvProblem

VARIABLES
  problem,  \* the operands
  output,   \* the contents of the output
  pending   \* the pairs <<pixel, tap>> whose product has still to be added

vars == <<problem, output, pending>>

Init ==
  /\ problem \in Problems
  /\ output = problem.output
  /\ pending = Pixels(problem) \X Taps(problem)

(* One element of the kernel is applied to some of the pixels.              *)
Accumulate(tap, points) ==
  /\ points \X {tap} \subseteq pending
  /\ output' = [pixel \in Pixels(problem) |->
                  IF pixel \in points THEN output[pixel] + Product(problem, pixel, tap)
                  ELSE output[pixel]]
  /\ pending' = pending \ (points \X {tap})
  /\ UNCHANGED problem

Next == \E tap \in Taps(problem) :
          \E points \in SUBSET {pixel \in Pixels(problem) : <<pixel, tap>> \in pending} :
            Accumulate(tap, points)

Safe == Init /\ [][Next]_vars

(* In the end every product has been added.                                 *)
Completion == <>(pending = {})
Spec == Safe /\ Completion
=============================================================================
