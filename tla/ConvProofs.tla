----------------------------- MODULE ConvProofs -----------------------------
(* Theorems about ConvVectorization, for all operands, strides and tiles.    *)
EXTENDS ConvVectorization, DataLemmas

ProblemTypes ==
  /\ problem \in Problems /\ stride \in Nat \ {0}
  /\ problem.rows \in Nat /\ problem.cols \in Nat
  /\ problem.kernelRows \in Nat /\ problem.kernelCols \in Nat
  /\ problem.input \in [InputPixels(problem) -> Int]
  /\ problem.kernel \in [Taps(problem) -> Int]
  /\ problem.output \in [Pixels(problem) -> Int]

LEMMA OptionsTyped == ASSUME problem \in Problems, stride \in Strides PROVE ProblemTypes
BY ProblemAssumption, OptionAssumption DEF ProblemAssumption, OptionAssumption, ProblemTypes

(* The number of strips is the least whose lanes reach the end of the row.   *)
LEMMA QuotientBounds ==
  ASSUME NEW a \in Nat, NEW s \in Nat \ {0}
  PROVE  /\ a \div s \in Nat
         /\ (a \div s) * s <= a
         /\ a < (a \div s) * s + s
BY SMT

LEMMA LaterStrip ==
  ASSUME NEW q \in Nat, NEW k \in Nat, NEW s \in Nat \ {0}, k < q
  PROVE  k * s + s <= q * s
<1>1. k + 1 <= q OBVIOUS
<1>2. (q - (k + 1)) * s >= 0 BY <1>1
<1> QED BY <1>2

LEMMA StripBounds ==
  ASSUME ProblemTypes
  PROVE  /\ Strips \in Nat
         /\ \A k \in Nat : k < Strips => k * stride < problem.cols
         /\ \A k \in Nat : k >= Strips => k * stride >= problem.cols
<1> DEFINE a == problem.cols + stride - 1
<1>0. problem.cols \in Nat /\ stride \in Nat \ {0} /\ a \in Nat BY DEF ProblemTypes
<1>1. Strips \in Nat /\ Strips * stride <= a /\ a < Strips * stride + stride
  BY <1>0, QuotientBounds DEF Strips
<1>2. ASSUME NEW k \in Nat, k < Strips PROVE k * stride < problem.cols
  <2>1. k * stride + stride <= Strips * stride BY <1>0, <1>1, <1>2, LaterStrip
  <2> QED BY <2>1, <1>0, <1>1
<1>3. ASSUME NEW k \in Nat, k >= Strips PROVE k * stride >= problem.cols
  <2>1. CASE k = Strips BY <2>1, <1>0, <1>1
  <2>2. CASE k > Strips
    <3>1. Strips * stride + stride <= k * stride BY <2>2, <1>0, <1>1, LaterStrip
    <3> QED BY <3>1, <1>0, <1>1
  <2> QED BY <2>1, <2>2, <1>1, <1>3
<1> QED BY <1>1, <1>2, <1>3

-----------------------------------------------------------------------------
(* The places that a strip and a tile touch.                                 *)
LEMMA StripPlaces ==
  ASSUME TypeOK, InStripLoop, strip < Strips
  PROVE  \A lane \in Active : /\ OutputPlace(lane) \in Pixels(problem)
                              /\ InputPlace(lane) \in InputPixels(problem)
<1>1. ProblemTypes BY OptionsTyped DEF TypeOK
<1>2. strip \in Nat /\ CurrCol \in Nat /\ CurrCol < problem.cols
  BY <1>1, StripBounds DEF TypeOK, CurrCol, ProblemTypes
<1>3. TAKE lane \in Active
<1>4. lane \in Nat /\ CurrCol + lane < problem.cols
  BY <1>1, <1>2, <1>3 DEF Active, Lanes, CreateMask, TailCols, ProblemTypes
<1>5. row \in Nat /\ krow \in Nat /\ kcol \in Nat /\ row < problem.rows
      /\ krow < problem.kernelRows /\ kcol < problem.kernelCols
  BY <1>1 DEF TypeOK, InStripLoop, ProblemTypes
<1>6. OutputPlace(lane) \in Pixels(problem)
  BY <1>1, <1>2, <1>4, <1>5 DEF OutputPlace, Pixels, ProblemTypes
<1>7. InputPlace(lane) \in InputPixels(problem)
  BY <1>1, <1>2, <1>4, <1>5 DEF InputPlace, InputPixels, ProblemTypes
<1> QED BY <1>6, <1>7

LEMMA ProductTyped ==
  ASSUME ProblemTypes, NEW pixel \in Pixels(problem), NEW tap \in Taps(problem)
  PROVE  /\ <<pixel[1] + tap[1], pixel[2] + tap[2]>> \in InputPixels(problem)
         /\ problem.kernel[tap] \in Int
         /\ problem.input[<<pixel[1] + tap[1], pixel[2] + tap[2]>>] \in Int
         /\ Product(problem, pixel, tap) \in Int
<1>1. <<pixel[1] + tap[1], pixel[2] + tap[2]>> \in InputPixels(problem)
  BY DEF ProblemTypes, Pixels, Taps, InputPixels
<1>2. problem.kernel[tap] \in Int
      /\ problem.input[<<pixel[1] + tap[1], pixel[2] + tap[2]>>] \in Int
  BY <1>1 DEF ProblemTypes
<1> QED BY <1>1, <1>2 DEF Product

-----------------------------------------------------------------------------
(* Type correctness.                                                         *)
LEMMA TypeInit == Init => TypeOK
<1> SUFFICES ASSUME Init PROVE TypeOK OBVIOUS
<1>1. ProblemTypes BY OptionsTyped DEF Init
<1>2. Strips \in Nat BY <1>1, StripBounds
<1> QED BY <1>1, <1>2 DEF Init, TypeOK, ProblemTypes

LEMMA StoredTyped ==
  ASSUME TypeOK, NEW lane PROVE Stored(lane) \in Int \/ KernelValue \notin Int
<1>1. ProblemTypes /\ Junk \in Int BY OptionsTyped, OptionAssumption DEF TypeOK, OptionAssumption
<1>2. Element(output, OutputPlace(lane)) \in Int
  BY <1>1 DEF Element, TypeOK
<1>3. Element(problem.input, InputPlace(lane)) \in Int
  BY <1>1 DEF Element, ProblemTypes
<1> QED BY <1>2, <1>3 DEF Stored

LEMMA TypeStep == TypeOK /\ [Next]_vars => TypeOK'
<1> SUFFICES ASSUME TypeOK, [Next]_vars PROVE TypeOK' OBVIOUS
<1>1. ProblemTypes BY OptionsTyped DEF TypeOK
<1>2. Strips \in Nat BY <1>1, StripBounds
<1>3. CASE StripStep
  <2>1. UNCHANGED options /\ Strips' = Strips BY <1>3 DEF StripStep, options, Strips
  <2>2. <<krow, kcol>> \in Taps(problem)
    BY <1>1, <1>3 DEF StripStep, InStripLoop, TypeOK, Taps, ProblemTypes
  <2>3. KernelValue \in Int BY <1>1, <2>2 DEF KernelValue, ProblemTypes
  <2>4. output' \in [Pixels(problem) -> Int]
    BY <1>3, <2>3, StoredTyped DEF StripStep, TypeOK
  <2>5. strip' \in 0 .. Strips BY <1>2, <1>3 DEF StripStep, TypeOK
  <2> QED BY <1>3, <2>1, <2>4, <2>5 DEF StripStep, TypeOK, options
<1>4. CASE NextKernelCol
  <2>1. UNCHANGED options /\ Strips' = Strips BY <1>4 DEF NextKernelCol, options, Strips
  <2> QED BY <1>1, <1>2, <1>4, <2>1
       DEF NextKernelCol, InStripLoop, TypeOK, options, ProblemTypes
<1>5. CASE NextKernelRow
  <2>1. UNCHANGED options /\ Strips' = Strips BY <1>5 DEF NextKernelRow, options, Strips
  <2> QED BY <1>1, <1>2, <1>5, <2>1 DEF NextKernelRow, TypeOK, options, ProblemTypes
<1>6. CASE NextRow
  <2>1. UNCHANGED options /\ Strips' = Strips BY <1>6 DEF NextRow, options, Strips
  <2> QED BY <1>1, <1>2, <1>6, <2>1 DEF NextRow, TypeOK, options, ProblemTypes
<1>7. CASE TileStep
  <2>1. UNCHANGED options /\ Strips' = Strips BY <1>7 DEF TileStep, options, Strips
  <2>2. <<krow, kcol>> \in Taps(problem)
    BY <1>1, <1>7 DEF TileStep, TypeOK, Taps, ProblemTypes
  <2>3. KernelValue \in Int BY <1>1, <2>2 DEF KernelValue, ProblemTypes
  <2>4. \A place : PaddedElement(problem.input, place) \in Int
    BY <1>1 DEF PaddedElement, ProblemTypes
  <2>5. output' \in [Pixels(problem) -> Int]
    BY <1>7, <2>3, <2>4 DEF TileStep, TypeOK
  <2>6. kcol' \in 0 .. problem.kernelCols
    BY <1>1, <1>7 DEF TileStep, TypeOK, ProblemTypes
  <2> QED BY <1>7, <2>1, <2>5, <2>6 DEF TileStep, TypeOK, options
<1>8. CASE UNCHANGED vars
  <2>1. Strips' = Strips BY <1>8 DEF vars, Strips
  <2> QED BY <1>8, <2>1 DEF vars, TypeOK
<1> QED BY <1>3, <1>4, <1>5, <1>6, <1>7, <1>8 DEF Next, Step, Ended

(* The memory of the output keeps its shape and the loops their ranges.      *)
THEOREM TypeCorrect == Safe => []TypeOK
BY TypeInit, TypeStep, PTL DEF Safe

(* The loop nest that lines 76-174 print never leaves the two memrefs.       *)
THEOREM AccessesInBounds == Safe => []InBounds
<1>1. TypeOK => InBounds BY StripPlaces DEF InBounds
<1> QED BY <1>1, TypeCorrect, PTL

-----------------------------------------------------------------------------
(* An inner loop that has ended has left its variable at zero; the tiled     *)
(* form has no strips.                                                       *)
LoopsReset ==
  /\ ~Splitting => strip = 0
  /\ kcol = problem.kernelCols => strip = 0
  /\ krow = problem.kernelRows => kcol = 0 /\ strip = 0

LEMMA ResetInit == Init => LoopsReset
BY DEF Init, LoopsReset

LEMMA ResetStep == TypeOK /\ LoopsReset /\ [Next]_vars => LoopsReset'
<1> SUFFICES ASSUME TypeOK, LoopsReset, [Next]_vars PROVE LoopsReset' OBVIOUS
<1>1. ProblemTypes BY OptionsTyped DEF TypeOK
<1>2. CASE StripStep
  BY <1>1, <1>2 DEF StripStep, InStripLoop, LoopsReset, TypeOK, ProblemTypes, options, Splitting
<1>3. CASE NextKernelCol
  BY <1>1, <1>3 DEF NextKernelCol, InStripLoop, LoopsReset, TypeOK, ProblemTypes, options, Splitting
<1>4. CASE NextKernelRow
  BY <1>1, <1>4 DEF NextKernelRow, LoopsReset, TypeOK, ProblemTypes, options, Splitting
<1>5. CASE NextRow BY <1>1, <1>5 DEF NextRow, LoopsReset, TypeOK, ProblemTypes, options, Splitting
<1>6. CASE TileStep BY <1>1, <1>6 DEF TileStep, LoopsReset, TypeOK, ProblemTypes, options, Splitting
<1>7. CASE UNCHANGED vars BY <1>7 DEF vars, LoopsReset, Splitting
<1> QED BY <1>2, <1>3, <1>4, <1>5, <1>6, <1>7 DEF Next, Step, Ended

-----------------------------------------------------------------------------
(* Refinement: the loops' variables say which products are still to add.     *)
LEMMA PairShape ==
  ASSUME ProblemTypes, NEW pixel \in Pixels(problem), NEW tap \in Taps(problem)
  PROVE  /\ pixel = <<pixel[1], pixel[2]>> /\ pixel[1] \in Nat /\ pixel[2] \in Nat
         /\ pixel[1] < problem.rows /\ pixel[2] < problem.cols
         /\ tap = <<tap[1], tap[2]>> /\ tap[1] \in Nat /\ tap[2] \in Nat
         /\ tap[1] < problem.kernelRows /\ tap[2] < problem.kernelCols
BY DEF ProblemTypes, Pixels, Taps

LEMMA InitRefines == Init => Conv!Init
<1> SUFFICES ASSUME Init PROVE Conv!Init OBVIOUS
<1>1. ProblemTypes BY OptionsTyped DEF Init
<1>2. ASSUME NEW pixel \in Pixels(problem), NEW tap \in Taps(problem)
      PROVE  StillToAdd(pixel, tap)
  BY <1>1, PairShape DEF Init, StillToAdd, LaterTap, ThisTap, CurrCol, ProblemTypes
<1>3. Pending = Pixels(problem) \X Taps(problem) BY <1>2 DEF Pending
<1> QED BY <1>3 DEF Init, Conv!Init, Conv!Pixels, Conv!Taps, Pixels, Taps

(* A step that leaves the output alone and the set of products unchanged.    *)
LEMMA SamePending ==
  ASSUME UNCHANGED problem,
         \A pixel \in Pixels(problem) : \A tap \in Taps(problem) :
           StillToAdd(pixel, tap)' <=> StillToAdd(pixel, tap)
  PROVE  Pending' = Pending
BY DEF Pending, Pixels, Taps

LEMMA KernelColRefines == TypeOK /\ NextKernelCol => UNCHANGED Conv!vars
<1> SUFFICES ASSUME TypeOK, NextKernelCol PROVE UNCHANGED Conv!vars OBVIOUS
<1>1. ProblemTypes BY OptionsTyped DEF TypeOK
<1>2. strip \in Nat /\ CurrCol >= problem.cols /\ CurrCol' = 0
  BY <1>1, StripBounds DEF NextKernelCol, TypeOK, CurrCol, options, ProblemTypes
<1>3. ASSUME NEW pixel \in Pixels(problem), NEW tap \in Taps(problem)
      PROVE  StillToAdd(pixel, tap)' <=> StillToAdd(pixel, tap)
  <2>1. kcol \in Nat /\ krow \in Nat /\ row \in Nat BY <1>1 DEF TypeOK, ProblemTypes
  <2>2. Splitting /\ Splitting' /\ row' = row /\ krow' = krow /\ kcol' = kcol + 1
    BY DEF NextKernelCol, InStripLoop, Splitting, options
  <2>3. LaterTap(tap) <=> tap[1] > krow \/ (tap[1] = krow /\ tap[2] > kcol)
    BY DEF LaterTap
  <2>4. LaterTap(tap)' <=> tap[1] > krow \/ (tap[1] = krow /\ tap[2] > kcol + 1)
    BY <2>2 DEF LaterTap
  <2>5. ThisTap(tap)' <=> tap[1] = krow /\ tap[2] = kcol + 1
    BY <1>1, <2>2, PairShape DEF ThisTap
  <2>6. LaterTap(tap) <=> LaterTap(tap)' \/ ThisTap(tap)'
    BY <1>1, <2>1, <2>3, <2>4, <2>5, PairShape
  <2>7. ~(pixel[2] >= CurrCol) /\ pixel[2] >= CurrCol'
    BY <1>1, <1>2, PairShape DEF CurrCol, TypeOK, ProblemTypes
  <2> QED BY <2>2, <2>6, <2>7 DEF StillToAdd
<1>4. Pending' = Pending BY <1>3, SamePending DEF NextKernelCol, options
<1> QED BY <1>4 DEF NextKernelCol, options, Conv!vars

LEMMA KernelRowRefines == TypeOK /\ LoopsReset /\ NextKernelRow => UNCHANGED Conv!vars
<1> SUFFICES ASSUME TypeOK, LoopsReset, NextKernelRow PROVE UNCHANGED Conv!vars OBVIOUS
<1>1. ProblemTypes BY OptionsTyped DEF TypeOK
<1>2. kcol = problem.kernelCols /\ krow \in Nat /\ row \in Nat /\ strip = 0
  BY <1>1 DEF NextKernelRow, TypeOK, LoopsReset, ProblemTypes
<1>3. CurrCol = 0 /\ CurrCol' = 0
  BY <1>1, <1>2 DEF NextKernelRow, CurrCol, options, ProblemTypes
<1>4. ASSUME NEW pixel \in Pixels(problem), NEW tap \in Taps(problem)
      PROVE  StillToAdd(pixel, tap)' <=> StillToAdd(pixel, tap)
  <2>1. /\ Splitting' = Splitting /\ InTile(pixel)' = InTile(pixel)
        /\ row' = row /\ krow' = krow + 1 /\ kcol' = 0
    BY DEF NextKernelRow, InTile, Splitting, options
  <2>2. LaterTap(tap) <=> tap[1] > krow
    BY <1>1, <1>2, PairShape DEF LaterTap, ProblemTypes
  <2>3. ~ThisTap(tap) BY <1>1, <1>2, PairShape DEF ThisTap, ProblemTypes
  <2>4. LaterTap(tap)' <=> tap[1] > krow + 1 \/ (tap[1] = krow + 1 /\ tap[2] > 0)
    BY <2>1 DEF LaterTap
  <2>5. ThisTap(tap)' <=> tap[1] = krow + 1 /\ tap[2] = 0
    BY <1>1, <2>1, PairShape DEF ThisTap
  <2>6. LaterTap(tap) <=> LaterTap(tap)' \/ ThisTap(tap)'
    BY <1>1, <1>2, <2>2, <2>4, <2>5, PairShape
  <2>7. pixel[2] >= CurrCol' BY <1>1, <1>3, PairShape
  <2> QED BY <2>1, <2>3, <2>6, <2>7 DEF StillToAdd
<1>5. Pending' = Pending BY <1>4, SamePending DEF NextKernelRow, options
<1> QED BY <1>5 DEF NextKernelRow, options, Conv!vars

LEMMA RowRefines == TypeOK /\ LoopsReset /\ NextRow => UNCHANGED Conv!vars
<1> SUFFICES ASSUME TypeOK, LoopsReset, NextRow PROVE UNCHANGED Conv!vars OBVIOUS
<1>1. ProblemTypes BY OptionsTyped DEF TypeOK
<1>2. krow = problem.kernelRows /\ kcol = 0 /\ row \in Nat /\ strip = 0
  BY <1>1 DEF NextRow, TypeOK, LoopsReset, ProblemTypes
<1>3. CurrCol = 0 /\ CurrCol' = 0 BY <1>1, <1>2 DEF NextRow, CurrCol, options, ProblemTypes
<1>4. ASSUME NEW pixel \in Pixels(problem), NEW tap \in Taps(problem)
      PROVE  StillToAdd(pixel, tap)' <=> StillToAdd(pixel, tap)
  <2>1. Splitting /\ Splitting' /\ row' = row + 1 /\ krow' = 0 /\ kcol' = kcol
    BY DEF NextRow, Splitting, options
  <2>2. ~LaterTap(tap) /\ ~ThisTap(tap)
    BY <1>1, <1>2, PairShape DEF LaterTap, ThisTap, ProblemTypes
  <2>3. LaterTap(tap)' <=> tap[1] > 0 \/ (tap[1] = 0 /\ tap[2] > 0)
    BY <1>2, <2>1 DEF LaterTap
  <2>4. ThisTap(tap)' <=> tap[1] = 0 /\ tap[2] = 0
    BY <1>1, <1>2, <2>1, PairShape DEF ThisTap
  <2>5. (LaterTap(tap)' \/ ThisTap(tap)') /\ pixel[2] >= CurrCol'
    BY <1>1, <1>3, <2>3, <2>4, PairShape
  <2>6. StillToAdd(pixel, tap) <=> pixel[1] > row BY <2>1, <2>2 DEF StillToAdd
  <2>7. StillToAdd(pixel, tap)' <=> pixel[1] > row + 1 \/ pixel[1] = row + 1
    BY <2>1, <2>5 DEF StillToAdd
  <2> QED BY <1>1, <1>2, <2>6, <2>7, PairShape
<1>5. Pending' = Pending BY <1>4, SamePending DEF NextRow, options
<1> QED BY <1>5 DEF NextRow, options, Conv!vars

(* A step that adds the products of one tap to some pixels.                  *)
LEMMA AddsProducts ==
  ASSUME ProblemTypes, UNCHANGED problem, output \in [Pixels(problem) -> Int],
         NEW tap \in Taps(problem), NEW points \in SUBSET Pixels(problem),
         \A pixel \in points : StillToAdd(pixel, tap),
         output' = [pixel \in Pixels(problem) |->
                      IF pixel \in points THEN output[pixel] + Product(problem, pixel, tap)
                      ELSE output[pixel]],
         \A pixel \in Pixels(problem) : \A other \in Taps(problem) :
           StillToAdd(pixel, other)' <=> /\ StillToAdd(pixel, other)
                                        /\ ~(pixel \in points /\ other = tap)
  PROVE  Conv!Next
<1>1. points \X {tap} \subseteq Pending BY DEF Pending
<1>2. Pending' = {todo \in Pixels(problem) \X Taps(problem) : StillToAdd(todo[1], todo[2])'}
  BY DEF Pending, Pixels, Taps
<1>3. ASSUME NEW todo \in Pixels(problem) \X Taps(problem)
      PROVE  /\ StillToAdd(todo[1], todo[2])' <=>
                  StillToAdd(todo[1], todo[2]) /\ ~(todo[1] \in points /\ todo[2] = tap)
             /\ todo \in points \X {tap} <=> todo[1] \in points /\ todo[2] = tap
  OBVIOUS
<1>4. Pending' = Pending \ (points \X {tap}) BY <1>2, <1>3 DEF Pending
<1>5. Conv!Accumulate(tap, points)
  BY <1>1, <1>4 DEF Conv!Accumulate, Conv!Pixels, Pixels, Conv!Product, Product
<1>6. points \in SUBSET {pixel \in Conv!Pixels(problem) : <<pixel, tap>> \in Pending}
  BY <1>1 DEF Conv!Pixels, Pixels
<1>7. tap \in Conv!Taps(problem) BY DEF Conv!Taps, Taps
<1> QED BY <1>5, <1>6, <1>7 DEF Conv!Next

LEMMA StripRefines == TypeOK /\ StripStep => Conv!Next
<1> SUFFICES ASSUME TypeOK, StripStep PROVE Conv!Next OBVIOUS
<1> DEFINE tap == <<krow, kcol>>
           points == {pixel \in Pixels(problem) :
                        /\ pixel[1] = row
                        /\ CurrCol <= pixel[2] /\ pixel[2] < CurrCol + stride}
<1>1. ProblemTypes BY OptionsTyped DEF TypeOK
<1>2. /\ Splitting /\ Splitting' /\ UNCHANGED <<problem, row, krow, kcol>>
      /\ row \in Nat /\ krow \in Nat /\ kcol \in Nat /\ CurrCol \in Nat
  BY <1>1 DEF StripStep, InStripLoop, TypeOK, CurrCol, Splitting, options, ProblemTypes
<1>3. CurrCol' = CurrCol + stride
  BY <1>1 DEF StripStep, TypeOK, CurrCol, options, ProblemTypes
<1>4. tap \in Taps(problem)
  BY <1>1, <1>2 DEF StripStep, InStripLoop, Taps, ProblemTypes
<1>5. ASSUME NEW pixel \in Pixels(problem)
      PROVE  pixel[1] = row /\ pixel[2] - CurrCol \in Active <=> pixel \in points
  <2>1. /\ pixel[2] \in Nat /\ pixel[2] < problem.cols /\ problem.cols \in Nat
        /\ stride \in Nat /\ CurrCol \in Nat
    BY <1>1, <1>2, <1>4, PairShape DEF ProblemTypes
  <2>2. pixel[2] - CurrCol \in Active <=> pixel[2] - CurrCol \in 0 .. stride - 1
    BY <2>1 DEF Active, Lanes, CreateMask, TailCols
  <2>3. pixel[2] - CurrCol \in 0 .. stride - 1 <=>
          CurrCol <= pixel[2] /\ pixel[2] < CurrCol + stride
    BY <2>1
  <2> QED BY <2>2, <2>3
<1>6. ASSUME NEW pixel \in points
      PROVE  Stored(pixel[2] - CurrCol) = output[pixel] + Product(problem, pixel, tap)
  <2>1. OutputPlace(pixel[2] - CurrCol) = pixel
    BY <1>1, <1>2, <1>4, PairShape DEF OutputPlace
  <2>2. InputPlace(pixel[2] - CurrCol) = <<pixel[1] + tap[1], pixel[2] + tap[2]>>
    BY <1>1, <1>2, <1>4, PairShape DEF InputPlace
  <2>3. pixel \in Pixels(problem) /\ pixel \in DOMAIN output
        /\ <<pixel[1] + tap[1], pixel[2] + tap[2]>> \in DOMAIN problem.input
    BY <1>1, <1>4, ProductTyped DEF TypeOK, ProblemTypes
  <2> QED BY <2>1, <2>2, <2>3 DEF Stored, Element, Product, KernelValue
<1>7. output' = [pixel \in Pixels(problem) |->
                   IF pixel \in points THEN output[pixel] + Product(problem, pixel, tap)
                   ELSE output[pixel]]
  <2>1. DOMAIN output = Pixels(problem) /\ output = [pixel \in Pixels(problem) |-> output[pixel]]
    BY DEF TypeOK
  <2>2. CASE KernelValue = 0
    <3>1. \A pixel \in points :
            output[pixel] \in Int /\ output[pixel] + Product(problem, pixel, tap) = output[pixel]
      <4> TAKE pixel \in points
      <4>1. problem.input[<<pixel[1] + tap[1], pixel[2] + tap[2]>>] \in Int
        BY <1>1, <1>4, ProductTyped
      <4>2. Product(problem, pixel, tap) = 0 BY <2>2, <4>1 DEF Product, KernelValue
      <4> QED BY <4>2 DEF TypeOK
    <3> QED BY <2>1, <2>2, <3>1 DEF StripStep
  <2>3. CASE KernelValue # 0
    BY <1>5, <1>6, <2>1, <2>3 DEF StripStep
  <2> QED BY <2>2, <2>3
<1>8. ASSUME NEW pixel \in Pixels(problem), NEW other \in Taps(problem)
      PROVE  StillToAdd(pixel, other)' <=> /\ StillToAdd(pixel, other)
                                          /\ ~(pixel \in points /\ other = tap)
  <2>1. LaterTap(other)' = LaterTap(other) /\ ThisTap(other)' = ThisTap(other)
    BY <1>2 DEF LaterTap, ThisTap
  <2>2. ThisTap(other) <=> other = tap BY DEF ThisTap
  <2>3. other = tap => ~LaterTap(other) BY <1>2 DEF LaterTap
  <2>4. pixel[1] \in Nat /\ pixel[2] \in Nat BY <1>1, <1>4, PairShape
  <2> QED BY <1>1, <1>2, <1>3, <2>1, <2>2, <2>3, <2>4 DEF StillToAdd, ProblemTypes
<1>9. \A pixel \in points : StillToAdd(pixel, tap)
  BY <1>2 DEF StillToAdd, ThisTap
<1> HIDE DEF tap, points
<1>10. points \in SUBSET Pixels(problem) BY DEF points
<1> QED BY <1>1, <1>2, <1>4, <1>7, <1>8, <1>9, <1>10, AddsProducts DEF TypeOK

LEMMA TileRefines == TypeOK /\ LoopsReset /\ TileStep => Conv!Next
<1> SUFFICES ASSUME TypeOK, LoopsReset, TileStep PROVE Conv!Next OBVIOUS
<1> DEFINE tap == <<krow, kcol>>
           points == {pixel \in Pixels(problem) : InTile(pixel)}
<1>1. ProblemTypes BY OptionsTyped DEF TypeOK
<1>2. /\ ~Splitting /\ ~Splitting' /\ UNCHANGED <<problem, row, krow>> /\ kcol' = kcol + 1
      /\ krow \in Nat /\ kcol \in Nat
  BY <1>1 DEF TileStep, TypeOK, Splitting, options, ProblemTypes
<1>3. tap \in Taps(problem) BY <1>1, <1>2 DEF TileStep, Taps, ProblemTypes
<1>4. ASSUME NEW pixel \in Pixels(problem)
      PROVE  KernelValue * PaddedElement(problem.input, <<krow + pixel[1], kcol + pixel[2]>>)
               = Product(problem, pixel, tap)
  <2>1. <<krow + pixel[1], kcol + pixel[2]>> = <<pixel[1] + tap[1], pixel[2] + tap[2]>>
    BY <1>1, <1>2, <1>3, PairShape
  <2>2. <<pixel[1] + tap[1], pixel[2] + tap[2]>> \in DOMAIN problem.input
    BY <1>1, <1>3, ProductTyped DEF ProblemTypes
  <2> QED BY <2>1, <2>2 DEF PaddedElement, Product, KernelValue
<1>5. output' = [pixel \in Pixels(problem) |->
                   IF pixel \in points THEN output[pixel] + Product(problem, pixel, tap)
                   ELSE output[pixel]]
  <2>1. DOMAIN output = Pixels(problem) BY DEF TypeOK
  <2> QED BY <1>4, <2>1 DEF TileStep
<1>6. ASSUME NEW pixel \in Pixels(problem), NEW other \in Taps(problem)
      PROVE  StillToAdd(pixel, other)' <=> /\ StillToAdd(pixel, other)
                                          /\ ~(pixel \in points /\ other = tap)
  <2>1. InTile(pixel)' = InTile(pixel) BY DEF TileStep, InTile, options
  <2>2. ThisTap(other) <=> other = tap BY DEF ThisTap
  <2>3. other[1] \in Nat /\ other[2] \in Nat /\ other = <<other[1], other[2]>>
    BY <1>1, PairShape, <1>3
  <2>4. LaterTap(other)' \/ ThisTap(other)' <=> LaterTap(other)
    BY <1>2, <2>3 DEF LaterTap, ThisTap
  <2>5. other = tap => ~LaterTap(other) BY <1>2 DEF LaterTap
  <2> QED BY <1>2, <2>1, <2>2, <2>4, <2>5 DEF StillToAdd
<1>7. \A pixel \in points : StillToAdd(pixel, tap) BY <1>2 DEF StillToAdd, ThisTap
<1> HIDE DEF tap, points
<1>8. points \in SUBSET Pixels(problem) BY DEF points
<1> QED BY <1>1, <1>2, <1>3, <1>5, <1>6, <1>7, <1>8, AddsProducts DEF TypeOK

LEMMA StutterRefines == UNCHANGED vars => UNCHANGED Conv!vars
BY DEF vars, Conv!vars, Pending, StillToAdd, LaterTap, ThisTap, InTile, Splitting, CurrCol,
       Pixels, Taps

LEMMA StepRefines == TypeOK /\ LoopsReset /\ [Next]_vars => [Conv!Next]_(Conv!vars)
BY StripRefines, TileRefines, KernelColRefines, KernelRowRefines, RowRefines, StutterRefines
DEF Next, Step, Ended

(* Both forms of the loop nest implement the convolution, for every shape,   *)
(* stride and tile (lines 76-176 and 209-231).                               *)
THEOREM NestImplementsConv == Safe => ImplementsConv
<1>1. Safe => [](TypeOK /\ LoopsReset)
  BY TypeInit, TypeStep, ResetInit, ResetStep, PTL DEF Safe
<1> QED BY <1>1, StepRefines, InitRefines, PTL DEF Safe, ImplementsConv, Conv!Safe

-----------------------------------------------------------------------------
(* Sums of products.  MapThenSumSet is a recursive function that is chosen,   *)
(* and so it is one of those that DataLemmas calls sums.                     *)
Products(pixel) == [tap \in Taps(problem) |-> Product(problem, pixel, tap)]

LEMMA ProductsSummed ==
  ASSUME ProblemTypes, NEW pixel, NEW done \in SUBSET Taps(problem)
  PROVE  /\ IsFiniteSet(done)
         /\ \E sums : /\ SetSums(sums, done, Products(pixel))
                      /\ Accumulated(problem, pixel, done) = problem.output[pixel] + sums[done]
<1> DEFINE Chosen(sums) ==
             sums = [s \in SUBSET done |->
                      IF s = {} THEN 0
                      ELSE Product(problem, pixel, CHOOSE x \in s : TRUE)
                             + sums[s \ {CHOOSE x \in s : TRUE}]]
           sum == CHOOSE sums : Chosen(sums)
<1>1. IsFiniteSet(done)
  <2>1. IsFiniteSet(Taps(problem))
    <3>1. problem.kernelRows - 1 \in Int /\ problem.kernelCols - 1 \in Int
      BY DEF ProblemTypes
    <3>2. /\ IsFiniteSet(0 .. problem.kernelRows - 1)
          /\ IsFiniteSet(0 .. problem.kernelCols - 1)
      BY <3>1, FS_Interval
    <3> QED BY <3>2, FS_Product DEF Taps
  <2> QED BY <2>1, FS_Subset
<1>2. ASSUME NEW s \in SUBSET done, s # {}
      PROVE  Products(pixel)[Some(s)] = Product(problem, pixel, CHOOSE x \in s : TRUE)
  <2>1. \E x \in s : TRUE BY <1>2
  <2>2. Some(s) \in s BY <2>1, Zenon DEF Some
  <2>3. Some(s) \in Taps(problem) BY <2>2
  <2> QED BY <2>3, Zenon DEF Products, Some
<1>3. ASSUME NEW sums PROVE Chosen(sums) <=> SetSums(sums, done, Products(pixel))
  <2> DEFINE a == [s \in SUBSET done |->
                     IF s = {} THEN 0
                     ELSE Product(problem, pixel, CHOOSE x \in s : TRUE)
                            + sums[s \ {CHOOSE x \in s : TRUE}]]
             b == [s \in SUBSET done |->
                     IF s = {} THEN 0 ELSE Products(pixel)[Some(s)] + sums[s \ {Some(s)}]]
  <2>1. ASSUME NEW s \in SUBSET done PROVE a[s] = b[s]
    <3>1. CASE s = {} BY <3>1, Zenon
    <3>2. CASE s # {}
      <4>1. a[s] = Product(problem, pixel, CHOOSE x \in s : TRUE)
                     + sums[s \ {CHOOSE x \in s : TRUE}]
        BY <3>2, Zenon
      <4>2. b[s] = Products(pixel)[Some(s)] + sums[s \ {Some(s)}] BY <3>2, Zenon
      <4> HIDE DEF a, b
      <4> QED BY <1>2, <3>2, <4>1, <4>2, Zenon DEF Some
    <3> QED BY <3>1, <3>2
  <2>2. a = b BY <2>1, Zenon
  <2> QED BY <2>2, Zenon DEF SetSums
<1>4. Chosen(sum)
  <2>1. \E sums : SetSums(sums, done, Products(pixel)) BY <1>1, SetSumsExist
  <2>2. PICK sums : SetSums(sums, done, Products(pixel)) BY <2>1, Zenon
  <2>3. Chosen(sums) BY <1>3, <2>2, Zenon
  <2> HIDE DEF Chosen
  <2> QED BY <2>3, Zenon
<1>5. Accumulated(problem, pixel, done) = problem.output[pixel] + sum[done]
  BY Zenon DEF Accumulated, MapThenSumSet, MapThenFoldSet
<1> HIDE DEF sum, Chosen
<1> QED BY <1>1, <1>3, <1>4, <1>5, Zenon

LEMMA AccumulatedNone ==
  ASSUME ProblemTypes, NEW pixel \in Pixels(problem)
  PROVE  Accumulated(problem, pixel, {}) = problem.output[pixel]
<1>1. {} \in SUBSET Taps(problem) OBVIOUS
<1>2. PICK sums : /\ SetSums(sums, {}, Products(pixel))
                  /\ Accumulated(problem, pixel, {}) = problem.output[pixel] + sums[{}]
  BY <1>1, ProductsSummed, Zenon
<1>3. sums[{}] = 0 BY <1>2, SetSumsEmpty
<1>4. problem.output[pixel] \in Int BY DEF ProblemTypes
<1> QED BY <1>2, <1>3, <1>4

(* One more tap adds its product.                                            *)
LEMMA AccumulatedGrows ==
  ASSUME ProblemTypes, NEW pixel \in Pixels(problem),
         NEW done \in SUBSET Taps(problem), NEW tap \in Taps(problem) \ done
  PROVE  Accumulated(problem, pixel, done \cup {tap}) =
           Accumulated(problem, pixel, done) + Product(problem, pixel, tap)
<1>1. done \cup {tap} \in SUBSET Taps(problem) /\ tap \notin done OBVIOUS
<1>2. IsFiniteSet(done) BY ProductsSummed
<1>3. PICK g : /\ SetSums(g, done, Products(pixel))
               /\ Accumulated(problem, pixel, done) = problem.output[pixel] + g[done]
  BY ProductsSummed, Zenon
<1>4. PICK h : /\ SetSums(h, done \cup {tap}, Products(pixel))
               /\ Accumulated(problem, pixel, done \cup {tap})
                    = problem.output[pixel] + h[done \cup {tap}]
  BY <1>1, ProductsSummed, Zenon
<1>5. IntegersOn(done \cup {tap}, Products(pixel))
  BY <1>1, ProductTyped DEF IntegersOn, Products
<1>6. g[done] \in Int /\ h[done \cup {tap}] = g[done] + Products(pixel)[tap]
  <2>1. SetSums(g, done, Products(pixel)) BY <1>3
  <2>2. SetSums(h, done \cup {tap}, Products(pixel)) BY <1>4
  <2>3. tap \notin done BY <1>1
  <2> QED BY <1>2, <1>5, <2>1, <2>2, <2>3, SetSumGrows
<1>7. Products(pixel)[tap] = Product(problem, pixel, tap) BY DEF Products
<1>8. problem.output[pixel] \in Int /\ Product(problem, pixel, tap) \in Int
  BY ProductTyped DEF ProblemTypes
<1> QED BY <1>3, <1>4, <1>6, <1>7, <1>8

-----------------------------------------------------------------------------
(* What a pixel holds.  It depends on the products still to add alone, and so *)
(* the steps of the abstract convolution say what becomes of it.             *)
Applied(pixel) == {tap \in Taps(problem) : ~StillToAdd(pixel, tap)}

LEMMA SumsInit == Init => PartialSums
<1> SUFFICES ASSUME Init, NEW pixel \in Pixels(problem)
             PROVE  output[pixel] = Accumulated(problem, pixel, Applied(pixel))
  BY DEF PartialSums, Applied
<1>1. ProblemTypes BY OptionsTyped DEF Init
<1>2. ASSUME NEW tap \in Taps(problem) PROVE StillToAdd(pixel, tap)
  BY <1>1, PairShape DEF Init, StillToAdd, LaterTap, ThisTap, CurrCol, ProblemTypes
<1>3. Applied(pixel) = {} BY <1>2 DEF Applied
<1>4. Accumulated(problem, pixel, {}) = problem.output[pixel] BY <1>1, AccumulatedNone
<1> QED BY <1>3, <1>4, Zenon DEF Init

LEMMA SumsKept ==
  ASSUME PartialSums, UNCHANGED Conv!vars
  PROVE  PartialSums'
<1>1. problem' = problem /\ output' = output /\ Pending' = Pending BY DEF Conv!vars
<1> SUFFICES ASSUME NEW pixel \in Pixels(problem)
             PROVE  output[pixel] = Accumulated(problem, pixel, Applied(pixel)')
  BY <1>1, Zenon DEF PartialSums, Applied
<1>2. ASSUME NEW tap \in Taps(problem)
      PROVE  StillToAdd(pixel, tap)' <=> StillToAdd(pixel, tap)
  <2>1. <<pixel, tap>> \in Pending <=> StillToAdd(pixel, tap) BY DEF Pending
  <2>2. <<pixel, tap>> \in Pending' <=> StillToAdd(pixel, tap)'
    BY <1>1 DEF Pending, Pixels, Taps
  <2> QED BY <1>1, <2>1, <2>2
<1>3. Applied(pixel)' = Applied(pixel) BY <1>1, <1>2 DEF Applied, Taps
<1> QED BY <1>3 DEF PartialSums, Applied

LEMMA SumsGrow ==
  ASSUME TypeOK, PartialSums, Conv!Next
  PROVE  PartialSums'
<1>1. PICK tap \in Taps(problem), points \in SUBSET Pixels(problem) :
        Conv!Accumulate(tap, points)
  BY DEF Conv!Next, Conv!Taps, Conv!Pixels, Taps, Pixels
<1>2. /\ problem' = problem /\ points \X {tap} \subseteq Pending
      /\ Pending' = Pending \ (points \X {tap})
      /\ output' = [pixel \in Pixels(problem) |->
                      IF pixel \in points THEN output[pixel] + Product(problem, pixel, tap)
                      ELSE output[pixel]]
  BY <1>1 DEF Conv!Accumulate, Conv!Pixels, Pixels, Conv!Product, Product
<1>3. ProblemTypes BY OptionsTyped DEF TypeOK
<1> SUFFICES ASSUME NEW pixel \in Pixels(problem)
             PROVE  output'[pixel] = Accumulated(problem, pixel, Applied(pixel)')
  BY <1>2, Zenon DEF PartialSums, Applied
<1>4. output[pixel] = Accumulated(problem, pixel, Applied(pixel))
  BY DEF PartialSums, Applied
<1>5. ASSUME NEW other \in Taps(problem)
      PROVE  StillToAdd(pixel, other)' <=>
               StillToAdd(pixel, other) /\ ~(pixel \in points /\ other = tap)
  <2>1. <<pixel, other>> \in Pending <=> StillToAdd(pixel, other) BY DEF Pending
  <2>2. <<pixel, other>> \in Pending' <=> StillToAdd(pixel, other)'
    BY <1>2 DEF Pending, Pixels, Taps
  <2> QED BY <1>2, <2>1, <2>2
<1>6. CASE pixel \notin points
  <2>1. Applied(pixel)' = Applied(pixel) BY <1>2, <1>5, <1>6 DEF Applied, Taps
  <2>2. output'[pixel] = output[pixel] BY <1>2, <1>6
  <2> QED BY <1>4, <2>1, <2>2
<1>7. CASE pixel \in points
  <2>1. StillToAdd(pixel, tap)
    <3>1. <<pixel, tap>> \in Pending BY <1>2, <1>7
    <3> QED BY <3>1 DEF Pending
  <2>2. Applied(pixel)' = Applied(pixel) \cup {tap} BY <1>2, <1>5, <1>7 DEF Applied, Taps
  <2>3. Applied(pixel) \in SUBSET Taps(problem) /\ tap \in Taps(problem) \ Applied(pixel)
    BY <2>1 DEF Applied
  <2>4. output'[pixel] = output[pixel] + Product(problem, pixel, tap) BY <1>2, <1>7
  <2>5. Accumulated(problem, pixel, Applied(pixel) \cup {tap}) =
          Accumulated(problem, pixel, Applied(pixel)) + Product(problem, pixel, tap)
    BY <1>3, <2>3, AccumulatedGrows
  <2> QED BY <1>4, <2>2, <2>4, <2>5, Zenon
<1> QED BY <1>6, <1>7

(* At every moment each pixel holds what it had at first and the products of *)
(* exactly the taps that have gone over it, for every shape, stride and tile *)
(* (lines 76-174, 219-228).                                                  *)
THEOREM PixelsHoldPartialSums == Safe => []PartialSums
<1>1. TypeOK /\ LoopsReset /\ PartialSums /\ [Next]_vars => PartialSums'
  BY StepRefines, SumsKept, SumsGrow
<1>2. Safe => [](TypeOK /\ LoopsReset)
  BY TypeInit, TypeStep, ResetInit, ResetStep, PTL DEF Safe
<1> QED BY <1>1, <1>2, SumsInit, PTL DEF Safe

(* The nest cannot end with anything but the convolution, if it is not a     *)
(* tile that leaves pixels out: what EndsWithConvolution says but for coming  *)
(* to an end (lines 76-176, 209-231).                                        *)
EndIsConvolution == Finished /\ Covered => output = Convolution(problem)

THEOREM OnlyConvolutionAtEnd == Safe => []EndIsConvolution
<1>1. TypeOK /\ PartialSums => EndIsConvolution
  <2> SUFFICES ASSUME TypeOK, PartialSums, Finished, Covered
               PROVE  output = Convolution(problem)
    BY DEF EndIsConvolution
  <2>1. ProblemTypes BY OptionsTyped DEF TypeOK
  <2>2. ASSUME NEW pixel \in Pixels(problem), NEW tap \in Taps(problem)
        PROVE  ~StillToAdd(pixel, tap)
    <3>1. /\ pixel[1] \in Nat /\ pixel[1] < problem.rows
          /\ tap[1] \in Nat /\ tap[1] < problem.kernelRows
      BY <2>1, PairShape
    <3>2. row \in Nat /\ krow \in Nat /\ problem.rows \in Nat /\ problem.kernelRows \in Nat
      BY <2>1 DEF TypeOK, ProblemTypes
    <3>3. CASE Splitting BY <3>1, <3>2, <3>3 DEF Finished, StillToAdd
    <3>4. CASE ~Splitting
      <4>1. InTile(pixel) BY <3>4 DEF Covered
      <4>2. ~LaterTap(tap) /\ ~ThisTap(tap)
        BY <3>1, <3>2, <3>4 DEF Finished, LaterTap, ThisTap
      <4> QED BY <3>4, <4>1, <4>2 DEF StillToAdd
    <3> QED BY <3>3, <3>4
  <2>3. ASSUME NEW pixel \in Pixels(problem)
        PROVE  output[pixel] = Accumulated(problem, pixel, Taps(problem))
    <3>1. {tap \in Taps(problem) : ~StillToAdd(pixel, tap)} = Taps(problem) BY <2>2
    <3> QED BY <3>1, Zenon DEF PartialSums
  <2>4. output = [pixel \in Pixels(problem) |-> output[pixel]] BY DEF TypeOK
  <2> QED BY <2>3, <2>4, Zenon DEF Convolution
<1> QED BY <1>1, TypeCorrect, PixelsHoldPartialSums, PTL
=============================================================================
