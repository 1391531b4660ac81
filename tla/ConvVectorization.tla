------------------------- MODULE ConvVectorization -------------------------
(***************************************************************************)
(* The loop nest that ConvVectorizationPass prints in the place of a        *)
(* linalg.conv_2d, run on the operands of the convolution.  Without tile    *)
(* sizes the columns of a row are cut into strips of `stride` lanes, the    *)
(* last of them masked; with tile sizes one two-dimensional vector is read, *)
(* multiplied and written for each element of the kernel.                   *)
(***************************************************************************)
EXTENDS ConvProblem

CONSTANTS
  Strides,   \* values of the option strip-mining
  Tilings,   \* values of the option tile-sizes: <<>>, or <<rows, columns>>
  Junk       \* what a load past the end of a memref returns

OptionAssumption ==
  /\ Strides \subseteq Nat \ {0}
  /\ Tilings \subseteq {<<>>} \cup ((Nat \ {0}) \X (Nat \ {0}))
  /\ Junk \in Int
ASSUME OptionAssumption

VARIABLES
  problem, output,       \* the operands; the memory of the output
  stride, tileSizes,     \* the options of the pass
  row, krow, kcol, strip \* the variables of the loops, outermost first

vars == <<problem, output, stride, tileSizes, row, krow, kcol, strip>>
options == <<problem, stride, tileSizes>>

(* matchAndRewrite: tile sizes choose the second form.                      *)
Splitting == tileSizes = <<>>

Init ==
  /\ problem \in Problems /\ output = problem.output
  /\ stride \in Strides /\ tileSizes \in Tilings
  /\ row = 0 /\ krow = 0 /\ kcol = 0 /\ strip = 0

Element(memref, place) == IF place \in DOMAIN memref THEN memref[place] ELSE Junk
PaddedElement(memref, place) == IF place \in DOMAIN memref THEN memref[place] ELSE 0

-----------------------------------------------------------------------------
(* The split form.                                                          *)

(* Variant: the map of the loop's bound divides without rounding up.        *)
FloorStrips == problem.cols \div stride

(* The inner loop runs from 0 to outputCol.ceilDiv(stride).                 *)
Strips == (problem.cols + stride - 1) \div stride

Lanes == 0 .. stride - 1
CurrCol == strip * stride
TailCols == problem.cols - CurrCol

(* Variant: the mask is one lane too long.                                  *)
LongMask(tail) == {lane \in Lanes : lane <= tail}

CreateMask(tail) == {lane \in Lanes : lane < tail}

(* The lanes that take part: all of them, or those of the tail's mask.      *)
Active == IF TailCols >= stride THEN Lanes ELSE CreateMask(TailCols)

OutputPlace(lane) == <<row, CurrCol + lane>>
InputPlace(lane) == <<row + krow, kcol + CurrCol + lane>>
KernelValue == problem.kernel[<<krow, kcol>>]

InStripLoop ==
  Splitting /\ row < problem.rows /\ krow < problem.kernelRows /\ kcol < problem.kernelCols

(* Variant: the element of the input is taken without the tap's column.     *)
UnshiftedStored(lane) ==
  Element(output, OutputPlace(lane)) + KernelValue * Element(problem.input, OutputPlace(lane))

(* FMAOp: what the lane stores in the output.                               *)
Stored(lane) ==
  Element(output, OutputPlace(lane)) + KernelValue * Element(problem.input, InputPlace(lane))

(* One strip; nothing is done for an element of the kernel that is zero.    *)
StripStep ==
  /\ InStripLoop /\ strip < Strips
  /\ output' = IF KernelValue = 0 THEN output
               ELSE [pixel \in DOMAIN output |->
                       IF pixel[1] = row /\ pixel[2] - CurrCol \in Active
                       THEN Stored(pixel[2] - CurrCol) ELSE output[pixel]]
  /\ strip' = strip + 1
  /\ UNCHANGED <<options, row, krow, kcol>>

NextKernelCol ==
  /\ InStripLoop /\ strip >= Strips
  /\ kcol' = kcol + 1 /\ strip' = 0
  /\ UNCHANGED <<options, output, row, krow>>

NextKernelRow ==
  /\ Splitting => row < problem.rows
  /\ krow < problem.kernelRows /\ kcol >= problem.kernelCols
  /\ krow' = krow + 1 /\ kcol' = 0
  /\ UNCHANGED <<options, output, row, strip>>

(* Variant: the loop over the rows is left one row late.                    *)
LateRow ==
  /\ Splitting /\ row <= problem.rows /\ krow >= problem.kernelRows
  /\ row' = row + 1 /\ krow' = 0
  /\ UNCHANGED <<options, output, kcol, strip>>

NextRow ==
  /\ Splitting /\ row < problem.rows /\ krow >= problem.kernelRows
  /\ row' = row + 1 /\ krow' = 0
  /\ UNCHANGED <<options, output, kcol, strip>>

-----------------------------------------------------------------------------
(* The tiled form: the tile lies at (0, 0) of the output and at the tap's   *)
(* place in the input; reads past the end are padded, writes are dropped.   *)

InTile(pixel) == pixel[1] < tileSizes[1] /\ pixel[2] < tileSizes[2]

(* Variant: the last column of the kernel is left out.                      *)
TileStepPassesEnd ==
  /\ ~Splitting /\ krow < problem.kernelRows /\ kcol < problem.kernelCols
  /\ output' = [pixel \in DOMAIN output |->
                  IF InTile(pixel) /\ kcol + 1 < problem.kernelCols
                  THEN output[pixel] + KernelValue *
                         PaddedElement(problem.input, <<krow + pixel[1], kcol + pixel[2]>>)
                  ELSE output[pixel]]
  /\ kcol' = kcol + 1
  /\ UNCHANGED <<options, row, krow, strip>>

TileStep ==
  /\ ~Splitting /\ krow < problem.kernelRows /\ kcol < problem.kernelCols
  /\ output' = [pixel \in DOMAIN output |->
                  IF InTile(pixel)
                  THEN output[pixel] + KernelValue *
                         PaddedElement(problem.input, <<krow + pixel[1], kcol + pixel[2]>>)
                  ELSE output[pixel]]
  /\ kcol' = kcol + 1
  /\ UNCHANGED <<options, row, krow, strip>>

-----------------------------------------------------------------------------
Finished ==
  IF Splitting THEN row >= problem.rows ELSE krow >= problem.kernelRows
Step == StripStep \/ NextKernelCol \/ NextKernelRow \/ NextRow \/ TileStep
Ended == Finished /\ UNCHANGED vars
Next == Step \/ Ended
Safe == Init /\ [][Next]_vars
(* The loops are one thread's: its next step is taken.                      *)
Spec == Safe /\ WF_vars(Step)

-----------------------------------------------------------------------------
(* The products that the loops have still to add: those of later rows, taps *)
(* and strips, and those of pixels that no tile covers.                     *)
LaterTap(tap) == tap[1] > krow \/ (tap[1] = krow /\ tap[2] > kcol)
ThisTap(tap) == tap = <<krow, kcol>>
StillToAdd(pixel, tap) ==
  IF Splitting
  THEN \/ pixel[1] > row
       \/ pixel[1] = row /\ (LaterTap(tap) \/ (ThisTap(tap) /\ pixel[2] >= CurrCol))
  ELSE ~InTile(pixel) \/ LaterTap(tap) \/ ThisTap(tap)
Pending == {todo \in Pixels(problem) \X Taps(problem) : StillToAdd(todo[1], todo[2])}

Conv == INSTANCE Conv2D WITH pending <- Pending

-----------------------------------------------------------------------------
(* Types and the ranges of the loop variables.                              *)
TypeOK ==
  /\ problem \in Problems /\ stride \in Strides /\ tileSizes \in Tilings
  /\ output \in [Pixels(problem) -> Int]
  /\ row \in 0 .. problem.rows /\ krow \in 0 .. problem.kernelRows
  /\ kcol \in 0 .. problem.kernelCols /\ strip \in 0 .. Strips

(* No strip reads or writes past the end of the input or of the output,     *)
(* whatever the tail of the row (the mask of lines 142-167, and the full    *)
(* vectors of lines 114-135, which have no mask).                           *)
InBounds ==
  InStripLoop /\ strip < Strips =>
    \A lane \in Active : /\ OutputPlace(lane) \in Pixels(problem)
                         /\ InputPlace(lane) \in InputPixels(problem)

(* At every moment each pixel holds what it had at first and the products   *)
(* of exactly the taps that have gone over it: strips do not overlap, leave *)
(* no column out, and an element of the kernel that is skipped changes      *)
(* nothing (lines 76-174); a padded lane of a tile adds nothing (219-228).  *)
PartialSums ==
  \A pixel \in Pixels(problem) :
    output[pixel] = Accumulated(problem, pixel,
                                {tap \in Taps(problem) : ~StillToAdd(pixel, tap)})

(* Every step of the nest applies one element of the kernel to pixels that  *)
(* have not had it, or changes nothing: it implements the convolution that  *)
(* lines 176 and 231 erase.                                                 *)
ImplementsConv == Conv!Safe

(* In the end the output is the convolution and stays so, in the split form *)
(* for every stride, in the tiled form if the output fits in one tile.      *)
Covered == Splitting \/ \A pixel \in Pixels(problem) : InTile(pixel)
EndsWithConvolution == Covered => <>[](output = Convolution(problem))
=============================================================================
