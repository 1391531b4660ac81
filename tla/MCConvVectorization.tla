------------------------ MODULE MCConvVectorization ------------------------
(* Outputs of up to 1 x 5 or 2 x 3, kernels of up to 2 x 2 with zeros and    *)
(* twos, strips of 1 to 4 lanes, tiles smaller and larger than the output.   *)
EXTENDS ConvVectorization

(* Inputs whose products tell every pixel and tap apart.                     *)
Ramp(places) == [place \in places |-> 1 + 7 * place[1] + place[2] * place[2]]
Shape(rows, cols, kernelRows, kernelCols) ==
  [rows |-> rows, cols |-> cols, kernelRows |-> kernelRows, kernelCols |-> kernelCols]
Filled(shape, kernel) ==
  [rows |-> shape.rows, cols |-> shape.cols,
   kernelRows |-> shape.kernelRows, kernelCols |-> shape.kernelCols,
   input |-> Ramp(InputPixels(shape)), kernel |-> kernel,
   output |-> [pixel \in Pixels(shape) |-> pixel[2]]]
Kernels(shape) == [Taps(shape) -> {0, 2}]

Shapes == {Shape(1, cols, 2, 2) : cols \in 0 .. 5} \cup {Shape(2, 3, 2, 2)}
            \cup {Shape(2, 3, 2, 1), Shape(2, 2, 1, 2), Shape(2, 3, 0, 2)}

MCProblems == UNION {{Filled(shape, kernel) : kernel \in Kernels(shape)} : shape \in Shapes}
MCStrides == 1 .. 4
MCTilings == {<<>>, <<1, 2>>, <<2, 2>>, <<2, 3>>, <<3, 4>>}
=============================================================================
