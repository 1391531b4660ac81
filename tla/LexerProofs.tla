---------------------------- MODULE LexerProofs ----------------------------
(***************************************************************************)
(* The lexer on every text: what its scans have counted, what they return   *)
(* and when they run past the buffer; types; and that it is the stream of   *)
(* lexemes that the parser reads.                                           *)
(***************************************************************************)
EXTENDS LexerChars, DataLemmas

Opens(last) == Count("[", curPtr, last)
Closes(last) == Count("]", curPtr, last)

PlacesInv ==
  /\ buffer \in Buffers /\ Len(buffer) \in Nat
  /\ curPtr \in 1 .. Len(buffer) + 1 /\ endPtr \in 1 .. Len(buffer) + 1
  /\ number \in Nat

(* Which marks a call looks for.                                            *)
MarkInv ==
  /\ call \in {"getMarkContent", "getEndChContent"} => mark # NUL
  /\ call = "getEndChContent" => mark # "["

(* Between equal marks no mark has been met.                                *)
EqualInv ==
  call = "equalMarks" =>
    /\ mark \notin {"[", NUL} /\ Char(curPtr) = mark /\ endPtr > curPtr
    /\ \A place \in curPtr + 1 .. endPtr - 1 : Char(place) # mark
EndChInv ==
  call = "getEndChContent" =>
    endPtr >= curPtr /\ \A place \in curPtr .. endPtr - 1 : Char(place) # mark

(* Between nested marks `number` is the depth, and has not been 0.          *)
NestedInv ==
  call = "nestedMarks" =>
    /\ mark = "[" /\ Char(curPtr) = "[" /\ endPtr > curPtr
    /\ number = Opens(endPtr - 1) - Closes(endPtr - 1) /\ number > 0
    /\ \A last \in curPtr .. endPtr - 1 : Opens(last) # Closes(last)

LexInv ==
  PlacesInv /\ MarkInv /\ EqualInv /\ EndChInv /\ NestedInv /\ OverrunOnlyUnclosed

-----------------------------------------------------------------------------
(* Counting.                                                                *)
LEMMA CountTyped ==
  ASSUME NEW ch, NEW first \in Nat, NEW last \in Nat
  PROVE  /\ IsFiniteSet({place \in first .. last : Char(place) = ch})
         /\ Count(ch, first, last) \in Nat
<1>1. IsFiniteSet(first .. last) BY FS_Interval
<1>2. IsFiniteSet({place \in first .. last : Char(place) = ch}) BY <1>1, FS_Subset
<1> QED BY <1>2, FS_CardinalityType DEF Count

LEMMA CountNext ==
  ASSUME NEW ch, NEW first \in Nat, NEW last \in Nat, first <= last + 1
  PROVE  Count(ch, first, last + 1) =
           Count(ch, first, last) + (IF Char(last + 1) = ch THEN 1 ELSE 0)
<1> DEFINE before == {place \in first .. last : Char(place) = ch}
           after == {place \in first .. last + 1 : Char(place) = ch}
<1>1. IsFiniteSet(before) /\ Cardinality(before) \in Nat BY CountTyped DEF Count
<1>2. CASE Char(last + 1) = ch
  <2>1. after = before \cup {last + 1} /\ last + 1 \notin before BY <1>2
  <2>2. Cardinality(after) = Cardinality(before) + 1 BY <1>1, <2>1, FS_AddElement
  <2> QED BY <1>2, <2>2 DEF Count
<1>3. CASE Char(last + 1) # ch
  <2>1. after = before BY <1>3
  <2> QED BY <1>1, <1>3, <2>1 DEF Count
<1> QED BY <1>2, <1>3

LEMMA CountNone ==
  ASSUME NEW ch, NEW first \in Nat, NEW last \in Nat,
         \A place \in first .. last : Char(place) # ch
  PROVE  Count(ch, first, last) = 0
<1>1. {place \in first .. last : Char(place) = ch} = {} OBVIOUS
<1> QED BY <1>1, FS_EmptySet DEF Count

LEMMA CountOne ==
  ASSUME NEW ch, NEW first \in Nat, NEW last \in Nat, first <= last, Char(first) = ch,
         \A place \in first + 1 .. last : Char(place) # ch
  PROVE  Count(ch, first, last) = 1
<1>1. {place \in first .. last : Char(place) = ch} = {first} OBVIOUS
<1> QED BY <1>1, FS_Singleton DEF Count

-----------------------------------------------------------------------------
(* The characters of the buffer are where there is no NUL.                  *)
LEMMA Inside ==
  ASSUME PlacesInv, NEW place \in 1 .. Len(buffer) + 1
  PROVE  Char(place) # NUL <=> place <= Len(buffer)
<1>1. /\ buffer \in Seq(ToSet(buffer) \ {NUL}) /\ Len(buffer) \in Nat
      /\ DOMAIN buffer = 1 .. Len(buffer)
  BY BufferAssumption DEF PlacesInv
<1>2. \A i \in 1 .. Len(buffer) : buffer[i] # NUL BY <1>1
<1> QED BY <1>1, <1>2 DEF Char

LEMMA LexInit == Init => LexInv
<1> SUFFICES ASSUME Init PROVE LexInv OBVIOUS
<1>1. buffer \in Seq(ToSet(buffer) \ {NUL}) BY BufferAssumption DEF Init
<1>2. Len(buffer) \in Nat BY <1>1
<1>3. /\ buffer \in Buffers /\ curPtr = 1 /\ endPtr = 1 /\ number = 0 /\ call = "none"
  BY Zenon DEF Init
<1>4. PlacesInv BY <1>2, <1>3 DEF PlacesInv
<1> QED BY <1>3, <1>4 DEF LexInv, MarkInv, EqualInv, EndChInv, NestedInv, OverrunOnlyUnclosed

(* Outside the scans only the places and the marks matter.                  *)
LEMMA NoScan ==
  ASSUME PlacesInv', MarkInv', call' \notin Scans \cup {"overrun"}
  PROVE  LexInv'
BY DEF LexInv, EqualInv, EndChInv, NestedInv, OverrunOnlyUnclosed, Scans

(* A scan that goes on.                                                     *)
LEMMA ScanOnKeeps == LexInv /\ ScanOn => LexInv'
<1> SUFFICES ASSUME LexInv, ScanOn PROVE LexInv' OBVIOUS
<1>1. /\ UNCHANGED <<buffer, curPtr, call, mark>> /\ endPtr' = endPtr + 1
      /\ call \in Scans /\ ~AtClose /\ Char(endPtr) # NUL
      /\ \A place : Char(place)' = Char(place)
  BY DEF ScanOn, Char
<1>2. endPtr <= Len(buffer) BY <1>1, Inside DEF LexInv, PlacesInv
<1>3. MarkInv' /\ OverrunOnlyUnclosed'
  BY <1>1 DEF LexInv, MarkInv, OverrunOnlyUnclosed, Scans
<1>4. CASE call = "nestedMarks"
  <2> DEFINE last == endPtr - 1
  <2>1. /\ mark = "[" /\ Char(curPtr) = "[" /\ endPtr > curPtr /\ number \in Nat
        /\ number = Opens(last) - Closes(last) /\ number > 0
        /\ \A each \in curPtr .. last : Opens(each) # Closes(each)
        /\ last \in Nat /\ curPtr \in Nat /\ curPtr <= last + 1 /\ last + 1 = endPtr
    BY <1>4 DEF LexInv, NestedInv, PlacesInv
  <2> HIDE DEF last
  <2>2. Depth # 0 /\ number' = Depth BY <1>1, <1>4 DEF AtClose, ScanOn
  <2>3. /\ Opens(endPtr) = Opens(last) + (IF Char(endPtr) = "[" THEN 1 ELSE 0)
        /\ Closes(endPtr) = Closes(last) + (IF Char(endPtr) = "]" THEN 1 ELSE 0)
    BY <2>1, CountNext DEF Opens, Closes
  <2>4. Opens(last) \in Nat /\ Closes(last) \in Nat
    BY <2>1, CountTyped DEF Opens, Closes
  <2>5. Depth = Opens(endPtr) - Closes(endPtr) /\ Depth \in Nat
    BY <2>1, <2>3, <2>4 DEF Depth, Close
  <2>6. Opens(endPtr) # Closes(endPtr) /\ Depth > 0 BY <2>2, <2>3, <2>4, <2>5
  <2>7. \A each \in curPtr .. endPtr : Opens(each) # Closes(each) BY <2>1, <2>6
  <2>8. \A each : Opens(each)' = Opens(each) /\ Closes(each)' = Closes(each)
    BY <1>1 DEF Opens, Closes, Count
  <2>9. endPtr' - 1 = endPtr BY <1>1, <2>1
  <2>10. NestedInv' BY <1>1, <2>1, <2>2, <2>5, <2>6, <2>7, <2>8, <2>9 DEF NestedInv
  <2>11. PlacesInv' BY <1>1, <1>2, <2>2, <2>5 DEF LexInv, PlacesInv
  <2> QED BY <1>1, <1>3, <1>4, <2>10, <2>11 DEF LexInv, EqualInv, EndChInv
<1>5. CASE call # "nestedMarks"
  <2>1. PlacesInv' BY <1>1, <1>2, <1>5 DEF LexInv, PlacesInv, ScanOn
  <2>2. Char(endPtr) # Close BY <1>1, <1>5 DEF AtClose
  <2>3. mark # "[" /\ Close = mark
    BY <1>1, <1>5 DEF Scans, LexInv, MarkInv, EqualInv, Close
  <2>4. EqualInv'
    <3> SUFFICES ASSUME call = "equalMarks" PROVE EqualInv' BY <1>1 DEF EqualInv
    <3>1. /\ mark \notin {"[", NUL} /\ Char(curPtr) = mark /\ endPtr > curPtr
          /\ \A place \in curPtr + 1 .. endPtr - 1 : Char(place) # mark
          /\ curPtr \in Nat /\ endPtr \in Nat
      BY DEF LexInv, EqualInv, PlacesInv
    <3>2. \A place \in curPtr + 1 .. endPtr + 1 - 1 : Char(place) # mark
      BY <2>2, <2>3, <3>1
    <3>3. endPtr + 1 > curPtr BY <3>1
    <3> QED BY <1>1, <3>1, <3>2, <3>3 DEF EqualInv
  <2>5. EndChInv'
    <3> SUFFICES ASSUME call = "getEndChContent" PROVE EndChInv' BY <1>1 DEF EndChInv
    <3>1. /\ endPtr >= curPtr /\ \A place \in curPtr .. endPtr - 1 : Char(place) # mark
          /\ curPtr \in Nat /\ endPtr \in Nat
      BY DEF LexInv, EndChInv, PlacesInv
    <3>2. \A place \in curPtr .. endPtr + 1 - 1 : Char(place) # mark
      BY <2>2, <2>3, <3>1
    <3>3. endPtr + 1 >= curPtr BY <3>1
    <3> QED BY <1>1, <3>1, <3>2, <3>3 DEF EndChInv
  <2> QED BY <1>1, <1>3, <1>5, <2>1, <2>4, <2>5 DEF LexInv, NestedInv
<1> QED BY <1>4, <1>5

(* A scan that has found the closing mark is still in the buffer.           *)
LEMMA CloseInside == ASSUME LexInv, ScanEnds PROVE endPtr <= Len(buffer)
<1>1. call \in Scans /\ AtClose BY DEF ScanEnds
<1>2. Char(endPtr) # NUL
  <2>1. CASE call = "nestedMarks"
    BY <1>1, <2>1 DEF AtClose, LexInv, NestedInv, PlacesInv, Depth, Close, NUL
  <2>2. CASE call # "nestedMarks"
    BY <1>1, <2>2 DEF AtClose, LexInv, EqualInv, MarkInv, Scans, Close, NUL
  <2> QED BY <2>1, <2>2
<1> QED BY <1>2, Inside DEF LexInv, PlacesInv

(* A scan starts behind its mark, which counts as the first.                *)
LEMMA AtMarkStarts == LexInv /\ AtMark => LexInv'
<1> SUFFICES ASSUME LexInv, AtMark PROVE LexInv' OBVIOUS
<1>1. /\ UNCHANGED <<buffer, curPtr, mark>> /\ endPtr' = curPtr + 1 /\ number' = 1
      /\ mark # NUL /\ Char(curPtr) = mark
      /\ call' = IF mark = "[" THEN "nestedMarks" ELSE "equalMarks"
      /\ \A place : Char(place)' = Char(place)
  BY DEF AtMark, LexInv, MarkInv, Close, Char
<1>2. curPtr <= Len(buffer) /\ curPtr \in Nat
  BY <1>1, Inside DEF LexInv, PlacesInv, NUL
<1>3. PlacesInv' /\ MarkInv' BY <1>1, <1>2 DEF LexInv, PlacesInv, MarkInv
<1>4. OverrunOnlyUnclosed' /\ EndChInv' BY <1>1 DEF OverrunOnlyUnclosed, EndChInv
<1>5. EqualInv' BY <1>1, <1>2 DEF EqualInv
<1>6. NestedInv'
  <2> SUFFICES ASSUME mark = "[" PROVE NestedInv' BY <1>1 DEF NestedInv
  <2>1. Opens(curPtr) = 1 BY <1>1, <1>2, CountOne DEF Opens
  <2>2. Closes(curPtr) = 0 BY <1>1, <1>2, CountNone DEF Closes
  <2>3. \A each : Opens(each)' = Opens(each) /\ Closes(each)' = Closes(each)
    BY <1>1 DEF Opens, Closes, Count
  <2>4. endPtr' - 1 = curPtr BY <1>1, <1>2
  <2>5. curPtr + 1 > curPtr BY <1>2
  <2>6. \A each \in curPtr .. curPtr : Opens(each) # Closes(each) BY <1>2, <2>1, <2>2
  <2>7. 1 = Opens(curPtr) - Closes(curPtr) BY <2>1, <2>2
  <2> QED BY <1>1, <2>3, <2>4, <2>5, <2>6, <2>7 DEF NestedInv
<1> QED BY <1>3, <1>4, <1>5, <1>6 DEF LexInv

(* A scan at the NUL has been over the whole rest of the text.              *)
LEMMA OverrunUnclosed == LexInv /\ Overrun => LexInv'
<1> SUFFICES ASSUME LexInv, Overrun PROVE LexInv' OBVIOUS
<1>1. /\ UNCHANGED <<buffer, curPtr, mark, endPtr, number>> /\ call' = "overrun"
      /\ call \in Scans /\ Char(endPtr) = NUL
      /\ \A place : Char(place)' = Char(place)
  BY DEF Overrun, Char
<1>2. /\ Len(buffer) \in Nat /\ curPtr \in Nat /\ endPtr \in Nat
      /\ endPtr = Len(buffer) + 1
  BY <1>1, Inside DEF LexInv, PlacesInv
<1>3. PlacesInv' /\ MarkInv' BY <1>1 DEF LexInv, PlacesInv, MarkInv
<1>4. EqualInv' /\ EndChInv' /\ NestedInv' BY <1>1 DEF EqualInv, EndChInv, NestedInv
<1>5. OverrunOnlyUnclosed'
  <2> SUFFICES ASSUME NEW last \in curPtr + 1 .. Len(buffer)
               PROVE  IF mark = "[" THEN ~Balanced(curPtr, last) ELSE Char(last) # mark
    BY <1>1 DEF OverrunOnlyUnclosed, Balanced, Count
  <2>1. last \in curPtr + 1 .. endPtr - 1 /\ last \in curPtr .. endPtr - 1 BY <1>2
  <2>2. CASE call = "nestedMarks"
    <3>1. mark = "[" /\ Char(curPtr) = "[" /\ Opens(last) # Closes(last)
      BY <2>1, <2>2 DEF LexInv, NestedInv
    <3> QED BY <3>1 DEF Balanced, Opens, Closes
  <2>3. CASE call = "equalMarks" BY <2>1, <2>3 DEF LexInv, EqualInv
  <2>4. CASE call = "getEndChContent" BY <2>1, <2>4 DEF LexInv, EndChInv, MarkInv
  <2> QED BY <1>1, <2>2, <2>3, <2>4 DEF Scans
<1> QED BY <1>3, <1>4, <1>5 DEF LexInv

LEMMA LexStep == LexInv /\ [Next]_vars => LexInv'
<1> SUFFICES ASSUME LexInv, [Next]_vars PROVE LexInv' OBVIOUS
<1>0. PlacesInv /\ MarkInv BY DEF LexInv
<1>1. CASE Call
  <2>0. /\ buffer' = buffer /\ curPtr' = curPtr /\ endPtr' = curPtr /\ number' = 0
        /\ call' \in {"next", "getMarkContent", "getEndChContent"}
    BY <1>1, Zenon DEF Call
  <2>1. PlacesInv' BY <1>0, <2>0 DEF PlacesInv
  <2>2. MarkInv' BY <1>1, Zenon DEF Call, MarkInv, NUL
  <2>3. CASE call' # "getEndChContent" BY <2>0, <2>1, <2>2, <2>3, NoScan DEF Scans
  <2>4. CASE call' = "getEndChContent"
    <3>1. curPtr' \in Nat /\ endPtr' = curPtr' BY <1>0, <2>0 DEF PlacesInv
    <3>2. \A n \in Nat : n >= n /\ ~\E place \in n .. n - 1 : TRUE OBVIOUS
    <3>3. EndChInv' BY <3>1, <3>2, Zenon DEF EndChInv
    <3> QED BY <2>1, <2>2, <2>4, <3>3 DEF LexInv, EqualInv, NestedInv, OverrunOnlyUnclosed
  <2> QED BY <2>3, <2>4
<1>2. CASE SkipWhitespace
  <2>1. Char(curPtr) # NUL BY <1>2, BufferAssumption DEF SkipWhitespace
  <2>2. curPtr <= Len(buffer) BY <1>0, <2>1, Inside DEF PlacesInv
  <2>3. PlacesInv' /\ MarkInv' BY <1>0, <1>2, <2>2 DEF SkipWhitespace, PlacesInv, MarkInv
  <2> QED BY <1>2, <2>3, NoScan DEF SkipWhitespace, Scans
<1>3. CASE NoLexeme
  <2>1. PlacesInv' /\ MarkInv' BY <1>0, <1>3 DEF NoLexeme, PlacesInv, MarkInv
  <2> QED BY <1>3, <2>1, NoScan DEF NoLexeme, Scans
<1>4. CASE Operator
  <2>1. Char(curPtr) # NUL BY <1>4, BufferAssumption DEF Operator
  <2>2. curPtr <= Len(buffer) BY <1>0, <2>1, Inside DEF PlacesInv
  <2>3. PlacesInv' /\ MarkInv'
    BY <1>0, <1>4, <2>2 DEF Operator, FormToken, PlacesInv, MarkInv
  <2> QED BY <1>4, <2>3, NoScan DEF Operator, FormToken, Scans
<1>5. CASE StartWord
  <2>1. Char(curPtr) # NUL BY <1>5, BufferAssumption DEF StartWord
  <2>2. curPtr <= Len(buffer) BY <1>0, <2>1, Inside DEF PlacesInv
  <2>3. PlacesInv' /\ MarkInv' BY <1>0, <1>5, <2>2 DEF StartWord, PlacesInv, MarkInv
  <2> QED BY <1>5, <2>3, NoScan DEF StartWord, Scans
<1>6. CASE GrowWord
  <2>1. Char(endPtr) # NUL BY <1>6, BufferAssumption DEF GrowWord, Body
  <2>2. endPtr <= Len(buffer) BY <1>0, <2>1, Inside DEF PlacesInv
  <2>3. PlacesInv' /\ MarkInv' BY <1>0, <1>6, <2>2 DEF GrowWord, PlacesInv, MarkInv
  <2> QED BY <1>6, <2>3, NoScan DEF GrowWord, Scans
<1>7. CASE EndWord
  <2>1. PlacesInv' /\ MarkInv' BY <1>0, <1>7 DEF EndWord, FormToken, PlacesInv, MarkInv
  <2> QED BY <1>7, <2>1, NoScan DEF EndWord, FormToken, Scans
<1>8. CASE NoMark
  <2>1. PlacesInv' /\ MarkInv' BY <1>0, <1>8 DEF NoMark, PlacesInv, MarkInv
  <2> QED BY <1>8, <2>1, NoScan DEF NoMark, Scans
<1>9. CASE AtMark BY <1>9, AtMarkStarts
<1>10. CASE ScanOn BY <1>10, ScanOnKeeps
<1>11. CASE ScanEnds
  <2>1. endPtr <= Len(buffer) BY <1>11, CloseInside
  <2>2. PlacesInv' /\ MarkInv' BY <1>0, <1>11, <2>1 DEF ScanEnds, PlacesInv, MarkInv
  <2> QED BY <1>11, <2>2, NoScan DEF ScanEnds, Scans
<1>12. CASE Overrun BY <1>12, OverrunUnclosed
<1>13. CASE UNCHANGED vars
  <2>1. /\ UNCHANGED <<buffer, curPtr, call, mark, endPtr, number>>
        /\ \A place : Char(place)' = Char(place)
        /\ \A last : Opens(last)' = Opens(last) /\ Closes(last)' = Closes(last)
    BY <1>13 DEF vars, Char, Count, Opens, Closes
  <2>2. PlacesInv' /\ MarkInv' BY <1>0, <2>1 DEF PlacesInv, MarkInv
  <2>3. EqualInv' /\ EndChInv' BY <2>1 DEF LexInv, EqualInv, EndChInv
  <2>4. NestedInv' BY <2>1 DEF LexInv, NestedInv
  <2>5. OverrunOnlyUnclosed' BY <2>1 DEF LexInv, OverrunOnlyUnclosed, Balanced, Count
  <2> QED BY <2>2, <2>3, <2>4, <2>5 DEF LexInv
<1>14. CASE call = "overrun" /\ UNCHANGED vars BY <1>13, <1>14
<1> QED BY <1>1, <1>2, <1>3, <1>4, <1>5, <1>6, <1>7, <1>8, <1>9, <1>10, <1>11, <1>12,
           <1>13, <1>14 DEF Next, Step

-----------------------------------------------------------------------------
(* What a scan returns: one more place than it has been over.               *)
LEMMA ScanBalanced ==
  ASSUME LexInv, call \in {"equalMarks", "nestedMarks"}, AtClose, endPtr <= Len(buffer)
  PROVE  ShortestBalanced(<<curPtr, endPtr>>)
<1> DEFINE before == endPtr - 1
<1>0. /\ curPtr \in Nat /\ endPtr \in Nat /\ endPtr > curPtr
      /\ before \in Nat /\ curPtr <= before + 1 /\ before + 1 = endPtr
  BY DEF LexInv, PlacesInv, EqualInv, NestedInv
<1> SUFFICES ASSUME NEW last \in curPtr .. endPtr
             PROVE  Balanced(curPtr, last) <=> last = endPtr
  BY DEF ShortestBalanced
<1> HIDE DEF before
<1>3. \A ch : Count(ch, curPtr, endPtr) = Count(ch, curPtr, before)
                                          + (IF Char(endPtr) = ch THEN 1 ELSE 0)
  <2>1. \A ch : Count(ch, curPtr, before + 1) = Count(ch, curPtr, before)
                                              + (IF Char(before + 1) = ch THEN 1 ELSE 0)
    BY <1>0, CountNext, Zenon
  <2> QED BY <1>0, <2>1, Zenon
<1>1. CASE call = "nestedMarks"
  <2>1. /\ mark = "[" /\ Char(curPtr) = "[" /\ number = Opens(before) - Closes(before)
        /\ \A each \in curPtr .. before : Opens(each) # Closes(each)
    BY <1>1 DEF LexInv, NestedInv, before
  <2>2. /\ Opens(endPtr) = Opens(before) + (IF Char(endPtr) = "[" THEN 1 ELSE 0)
        /\ Closes(endPtr) = Closes(before) + (IF Char(endPtr) = "]" THEN 1 ELSE 0)
    BY <1>3, Zenon DEF Opens, Closes
  <2>3. Opens(before) \in Nat /\ Closes(before) \in Nat
    BY <1>0, CountTyped DEF Opens, Closes
  <2>4. Depth = 0 BY <1>1 DEF AtClose
  <2>5. Opens(endPtr) = Closes(endPtr) BY <2>1, <2>2, <2>3, <2>4 DEF Depth, Close
  <2>6. Opens(last) = Closes(last) <=> last = endPtr BY <1>0, <2>1, <2>5
  <2> QED BY <2>1, <2>6 DEF Balanced, Opens, Closes
<1>2. CASE call = "equalMarks"
  <2>1. /\ mark # "[" /\ Char(curPtr) = mark
        /\ \A place \in curPtr + 1 .. before : Char(place) # mark
    BY <1>2 DEF LexInv, EqualInv, before
  <2>2. Char(endPtr) = mark BY <1>2, <2>1 DEF AtClose, Close
  <2>3. \A each \in curPtr .. before : Count(mark, curPtr, each) = 1
    BY <1>0, <2>1, CountOne
  <2>4. Count(mark, curPtr, before) = 1 BY <1>0, <2>3
  <2>5. Count(mark, curPtr, endPtr) = 2 BY <1>3, <2>2, <2>4
  <2>6. Count(mark, curPtr, last) = 2 <=> last = endPtr BY <1>0, <2>3, <2>5
  <2> QED BY <2>1, <2>6 DEF Balanced
<1> QED BY <1>1, <1>2

LEMMA StepBalanced ==
  LexInv /\ [Next]_vars =>
    [(call \in {"equalMarks", "nestedMarks"} /\ call' = "none") => ShortestBalanced(content')]_vars
<1> SUFFICES ASSUME LexInv, Next, call \in {"equalMarks", "nestedMarks"}, call' = "none"
             PROVE  ShortestBalanced(content')
  OBVIOUS
<1>1. ScanEnds
  BY DEF Next, Step, Call, SkipWhitespace, NoLexeme, Operator, StartWord, GrowWord, EndWord,
         NoMark, AtMark, ScanOn, Overrun
<1>2. content' = <<curPtr, endPtr>> /\ AtClose BY <1>1 DEF ScanEnds
<1>3. endPtr <= Len(buffer) BY <1>1, CloseInside
<1> QED BY <1>2, <1>3, ScanBalanced

-----------------------------------------------------------------------------
(* Types.  A token starts at a character of the text and ends in front of   *)
(* the next one, and each lexeme met takes up a character at least, the one *)
(* that is looked at excepted.                                              *)
TokenInv ==
  /\ token.start \in 0 .. Len(buffer) /\ token.length \in Int
  /\ token.start + token.length <= Len(buffer) + 1
  /\ token.kind \in {"unknown", "eof", "identifier", "number"} \cup Operators
                     \cup Range(KeywordMap)

CallInv ==
  /\ call \in {"none", "next", "identifier", "number", "getMarkContent", "overrun"} \cup Scans
  /\ call \in {"identifier", "number"} => endPtr > curPtr

UsedInv ==
  /\ used \in Nat /\ looked \in BOOLEAN
  /\ looked => used <= curPtr
  /\ ~looked => used + 1 <= curPtr

TypeInv == TokenInv /\ CallInv /\ UsedInv

LEMMA TypeInvImplies == LexInv /\ TypeInv => TypeOK
<1> SUFFICES ASSUME LexInv, TypeInv PROVE TypeOK OBVIOUS
<1>1. /\ buffer \in Buffers /\ Len(buffer) \in Nat /\ curPtr \in 1 .. Len(buffer) + 1
      /\ endPtr \in 1 .. Len(buffer) + 1 /\ number \in Nat
  BY DEF LexInv, PlacesInv
<1>2. MaxLexemes \in Nat /\ Len(buffer) < MaxLexemes BY <1>1, LexemeBound
<1>3. used \in 0 .. MaxLexemes BY <1>1, <1>2 DEF TypeInv, UsedInv
<1> QED BY <1>1, <1>3 DEF TypeOK, TypeInv, TokenInv, CallInv, UsedInv

LEMMA TypeInvInit == Init => TypeInv
<1> SUFFICES ASSUME Init PROVE TypeInv OBVIOUS
<1>1. Len(buffer) \in Nat BY LexInit DEF LexInv, PlacesInv
<1>2. looked = FALSE /\ used = 0 /\ curPtr = 1 BY Zenon DEF Init
<1>3. used \in Nat /\ used + 1 <= curPtr BY <1>2
<1>4. UsedInv BY <1>2, <1>3, Zenon DEF UsedInv
<1>5. token = [kind |-> "unknown", start |-> 0, length |-> 0] /\ call = "none"
  BY Zenon DEF Init
<1>6. TokenInv BY <1>1, <1>5 DEF TokenInv
<1>7. CallInv BY <1>5 DEF CallInv
<1> QED BY <1>4, <1>6, <1>7 DEF TypeInv

(* A step that leaves the token alone, and the cursor or goes forward.      *)
LEMMA UsedKept ==
  ASSUME PlacesInv, PlacesInv', UsedInv, UNCHANGED history, curPtr' >= curPtr
  PROVE  UsedInv'
<1>1. used' = used /\ looked' = looked BY DEF history
<1>2. (looked' <=> looked) /\ looked' \in BOOLEAN BY <1>1, Zenon DEF UsedInv
<1>3. /\ used \in Nat /\ curPtr \in Nat /\ curPtr' \in Nat
      /\ looked => used <= curPtr
      /\ ~looked => used + 1 <= curPtr
  BY DEF PlacesInv, UsedInv
<1>4. looked => used' <= curPtr' BY <1>1, <1>3
<1>5. ~looked => used' + 1 <= curPtr' BY <1>1, <1>3
<1>6. used' \in Nat BY <1>1, <1>3
<1> QED BY <1>2, <1>4, <1>5, <1>6, Zenon DEF UsedInv

LEMMA TokenKept == TokenInv /\ UNCHANGED <<buffer, token>> => TokenInv'
BY DEF TokenInv

(* A step that meets the lexeme at the cursor, and goes over it or not.     *)
LEMMA MetUsed ==
  ASSUME PlacesInv, PlacesInv', UsedInv, NEW still, Met(still)
  PROVE  /\ looked' = still /\ used' \in Nat /\ used' <= curPtr
         /\ curPtr \in Nat /\ curPtr' \in Nat
<1>1. looked' = still /\ used' = IF looked THEN used ELSE used + 1 BY DEF Met
<1>2. /\ used \in Nat /\ curPtr \in Nat /\ curPtr' \in Nat
      /\ looked => used <= curPtr
      /\ ~looked => used + 1 <= curPtr
  BY DEF PlacesInv, UsedInv
<1>3. used' \in Nat /\ used' <= curPtr
  <2>1. CASE looked BY <1>1, <1>2, <2>1
  <2>2. CASE ~looked
    <3>1. used' = used + 1 /\ used + 1 <= curPtr BY <1>1, <1>2, <2>2
    <3> QED BY <1>2, <3>1
  <2> QED BY <2>1, <2>2
<1> QED BY <1>1, <1>2, <1>3, Zenon

LEMMA MetBefore ==
  ASSUME PlacesInv, PlacesInv', UsedInv, Met(TRUE), curPtr' >= curPtr
  PROVE  UsedInv'
<1>1. /\ looked' = TRUE /\ used' \in Nat /\ used' <= curPtr
      /\ curPtr \in Nat /\ curPtr' \in Nat
  BY MetUsed
<1>2. used' <= curPtr' BY <1>1
<1> QED BY <1>1, <1>2, Zenon DEF UsedInv

LEMMA MetPast ==
  ASSUME PlacesInv, PlacesInv', UsedInv, Met(FALSE), curPtr' >= curPtr + 1
  PROVE  UsedInv'
<1>1. /\ looked' = FALSE /\ used' \in Nat /\ used' <= curPtr
      /\ curPtr \in Nat /\ curPtr' \in Nat
  BY MetUsed
<1>2. \A a, b, c \in Nat : a <= b /\ c >= b + 1 => a + 1 <= c OBVIOUS
<1>3. used' + 1 <= curPtr' BY <1>1, <1>2, Zenon
<1> QED BY <1>1, <1>3, Zenon DEF UsedInv

LEMMA Formed ==
  ASSUME LexInv, LexInv', TypeInv, NEW tokenEnd \in curPtr + 1 .. Len(buffer) + 1,
         curPtr <= Len(buffer), NEW kind, FormToken(tokenEnd, kind),
         kind \in {"number", "identifier"} \cup Operators \cup Range(KeywordMap)
  PROVE  TypeInv'
<1>1. Len(buffer) \in Nat /\ curPtr \in Nat /\ curPtr >= 1 BY DEF LexInv, PlacesInv
<1>2. /\ token' = [kind |-> kind, start |-> curPtr, length |-> tokenEnd - curPtr]
      /\ buffer' = buffer /\ curPtr' = tokenEnd /\ call' = "none" /\ Met(FALSE)
  BY DEF FormToken
<1>3. TokenInv' BY <1>1, <1>2 DEF TokenInv
<1>4. CallInv' BY <1>2 DEF CallInv
<1>5. UsedInv' BY <1>1, <1>2, MetPast DEF LexInv, TypeInv
<1> QED BY <1>3, <1>4, <1>5 DEF TypeInv

LEMMA TypeInvStep == LexInv /\ LexInv' /\ TypeInv /\ [Next]_vars => TypeInv'
<1> SUFFICES ASSUME LexInv, LexInv', TypeInv, [Next]_vars PROVE TypeInv' OBVIOUS
<1>0. /\ PlacesInv /\ PlacesInv' /\ TokenInv /\ CallInv /\ UsedInv
      /\ Len(buffer) \in Nat /\ curPtr \in Nat /\ curPtr >= 1 /\ endPtr \in Nat
  BY DEF LexInv, TypeInv, PlacesInv
<1>1. CASE Call
  <2>1. /\ UNCHANGED <<buffer, token, curPtr, history>>
        /\ call' \in {"next", "getMarkContent", "getEndChContent"}
    BY <1>1, Zenon DEF Call
  <2> QED BY <1>0, <2>1, TokenKept, UsedKept DEF TypeInv, CallInv, Scans
<1>2. CASE SkipWhitespace
  BY <1>0, <1>2, TokenKept, UsedKept DEF SkipWhitespace, TypeInv, CallInv
<1>3. CASE NoLexeme
  <2>1. TokenInv' BY <1>0, <1>3 DEF NoLexeme, TokenInv
  <2>2. UsedInv' BY <1>0, <1>3, MetBefore DEF NoLexeme
  <2> QED BY <1>3, <2>1, <2>2 DEF NoLexeme, TypeInv, CallInv
<1>4. CASE Operator
  <2>1. Char(curPtr) # NUL BY <1>4, BufferAssumption DEF Operator
  <2>2. curPtr <= Len(buffer) BY <1>0, <2>1, Inside DEF PlacesInv
  <2>3. curPtr + 1 \in curPtr + 1 .. Len(buffer) + 1 BY <1>0, <2>2
  <2> QED BY <1>4, <2>2, <2>3, Formed DEF Operator
<1>5. CASE StartWord
  <2>1. endPtr' > curPtr' BY <1>0, <1>5 DEF StartWord
  <2>2. UsedInv' BY <1>0, <1>5, UsedKept DEF StartWord
  <2> QED BY <1>0, <1>5, <2>1, <2>2, TokenKept DEF StartWord, TypeInv, CallInv
<1>6. CASE GrowWord
  <2>1. endPtr' > curPtr' BY <1>0, <1>6 DEF GrowWord, CallInv
  <2>2. UsedInv' BY <1>0, <1>6, UsedKept DEF GrowWord
  <2> QED BY <1>0, <1>6, <2>1, <2>2, TokenKept DEF GrowWord, TypeInv, CallInv
<1>7. CASE EndWord
  <2> DEFINE kind == IF call = "number" THEN "number"
                     ELSE GetKeyWord(SubSeq(buffer, curPtr, endPtr - 1))
  <2>1. kind \in {"number", "identifier"} \cup Range(KeywordMap) BY DEF GetKeyWord, Range
  <2>2. endPtr > curPtr /\ endPtr <= Len(buffer) + 1
    BY <1>0, <1>7 DEF EndWord, CallInv, PlacesInv
  <2>3. endPtr \in curPtr + 1 .. Len(buffer) + 1 /\ curPtr <= Len(buffer) BY <1>0, <2>2
  <2>4. FormToken(endPtr, kind) BY <1>7 DEF EndWord
  <2> HIDE DEF kind
  <2> QED BY <2>1, <2>3, <2>4, Formed
<1>8. CASE NoMark
  <2>1. UsedInv' BY <1>0, <1>8, MetBefore DEF NoMark
  <2> QED BY <1>0, <1>8, <2>1, TokenKept DEF NoMark, TypeInv, CallInv
<1>9. CASE AtMark
  <2>1. UsedInv' BY <1>0, <1>9, UsedKept DEF AtMark
  <2>2. call' \in {"equalMarks", "nestedMarks"} BY <1>9 DEF AtMark
  <2> QED BY <1>0, <1>9, <2>1, <2>2, TokenKept DEF AtMark, TypeInv, CallInv, Scans
<1>10. CASE ScanOn
  <2>1. UsedInv' BY <1>0, <1>10, UsedKept DEF ScanOn
  <2> QED BY <1>0, <1>10, <2>1, TokenKept DEF ScanOn, TypeInv, CallInv, Scans
<1>11. CASE ScanEnds
  <2>1. curPtr' >= curPtr + 1
    <3>1. endPtr >= curPtr
      BY <1>0, <1>11 DEF ScanEnds, Scans, LexInv, EqualInv, NestedInv, EndChInv
    <3> QED BY <1>0, <1>11, <3>1 DEF ScanEnds
  <2>2. UsedInv'
    <3>1. CASE call = "getEndChContent"
      <4>1. looked' = FALSE /\ used' = used BY <1>11, <3>1 DEF ScanEnds
      <4>2. used \in Nat /\ used <= curPtr BY <1>0 DEF UsedInv
      <4>3. curPtr' \in Nat BY <1>0 DEF PlacesInv
      <4>4. used + 1 <= curPtr' BY <1>0, <2>1, <4>2, <4>3
      <4> QED BY <4>1, <4>2, <4>4, Zenon DEF UsedInv
    <3>2. CASE call # "getEndChContent"
      <4>1. Met(FALSE) BY <1>11, <3>2 DEF ScanEnds
      <4> QED BY <1>0, <2>1, <4>1, MetPast
    <3> QED BY <3>1, <3>2
  <2> QED BY <1>0, <1>11, <2>2, TokenKept DEF ScanEnds, TypeInv, CallInv
<1>12. CASE Overrun
  <2>1. UsedInv' BY <1>0, <1>12, UsedKept DEF Overrun
  <2> QED BY <1>0, <1>12, <2>1, TokenKept DEF Overrun, TypeInv, CallInv
<1>13. CASE UNCHANGED vars
  BY <1>0, <1>13 DEF vars, history, TypeInv, TokenInv, CallInv, UsedInv
<1>14. CASE call = "overrun" /\ UNCHANGED vars BY <1>13, <1>14
<1> QED BY <1>1, <1>2, <1>3, <1>4, <1>5, <1>6, <1>7, <1>8, <1>9, <1>10, <1>11, <1>12,
           <1>13, <1>14 DEF Next, Step

-----------------------------------------------------------------------------
(* The cursor stays in the text, a token lies within it, and the text has   *)
(* no more lexemes than characters and an end, whatever calls are made.     *)
THEOREM LexerTyped == Spec => []TypeOK
BY LexInit, LexStep, TypeInvInit, TypeInvStep, TypeInvImplies, PTL DEF Spec

(* On every text and under every order of calls, a scan leaves the buffer   *)
(* only when the mark it looks for is missing (lines 176-187, 196).         *)
THEOREM ScansStayInside == Spec => []OverrunOnlyUnclosed
<1>1. LexInv => OverrunOnlyUnclosed BY DEF LexInv
<1> QED BY LexInit, LexStep, <1>1, PTL DEF Spec

(* getMarkContent returns the shortest text in which marks are balanced,    *)
(* on every text: quotes by the first loop, brackets by the count of the    *)
(* second (lines 166-192).                                                  *)
THEOREM ContentBalanced == Spec => MarksBalanced
BY LexInit, LexStep, StepBalanced, PTL DEF Spec, MarksBalanced

-----------------------------------------------------------------------------
(* The stream that the parser sees.  A lexeme that has been looked at has   *)
(* no white space before it; inside a word all is of its class; and a call  *)
(* that looks for a mark looks for one of two.                              *)
Texts == Idents \cup Kinds \cup Operators \cup {"7"}
Seen == IF looked THEN Ahead ELSE "unread"
TextOf(start, length) ==
  IF start = 0 THEN "uninitialized" ELSE Lexeme(start, start + length - 1)

LookedInv == looked => Char(curPtr) \notin Spaces
WordInv ==
  /\ call = "identifier" => Char(curPtr) \in Heads
  /\ call = "number" => Char(curPtr) \in Digits
  /\ call \in {"identifier", "number"} =>
       \A place \in curPtr .. endPtr - 1 : Char(place) \in Body
OpenInv == call \in {"getMarkContent", "equalMarks", "nestedMarks"} => mark \in Marks

RecordInv == token = [kind |-> token.kind, start |-> token.start, length |-> token.length]

StreamInv == LexInv /\ TypeInv /\ RecordInv /\ LookedInv /\ WordInv /\ OpenInv

LEMMA WordsApart ==
  /\ Idents \cap (Kinds \cup Operators) = {} /\ Kinds \cap Operators = {}
  /\ (Idents \cup Kinds \cup Operators) \cap {"7", "eof", "unknown", "unread"} = {}
BY WordAssumption DEF Stream!Keywords, Stream!Punctuators, Stream!Numbers, Stream!Ends,
                      Stream!Unread

(* So the vocabulary is one that the theorems on the parser assume.         *)
LEMMA VocabularyFits ==
  /\ Texts \subseteq Stream!Texts
  /\ Idents \cap (Stream!Keywords \cup Stream!Punctuators \cup Stream!Numbers
                  \cup Stream!Ends) = {}
  /\ {Stream!Unread, Stream!Uninit} \cap (Stream!Texts \cup Stream!Ends) = {}
  /\ MaxLexemes \in Nat
BY WordAssumption, LexemeBound
   DEF Texts, Stream!Texts, Stream!Keywords, Stream!Punctuators, Stream!Numbers, Stream!Ends,
       Stream!Unread, Stream!Uninit

(* A longest word ends before the first character that is not in its class, *)
(* and the NUL is in none.                                                  *)
LEMMA LongestIs ==
  ASSUME PlacesInv, NEW first \in 1 .. Len(buffer), NEW class, NUL \notin class,
         Char(first) \in class
  PROVE  /\ Longest(first, class) \in first .. Len(buffer)
         /\ \A place \in first .. Longest(first, class) : Char(place) \in class
<1> DEFINE Out == {place \in first .. Len(buffer) + 1 : Char(place) \notin class}
           Runs(last) == /\ \A place \in first .. last : Char(place) \in class
                         /\ Char(last + 1) \notin class
<1>1. Len(buffer) \in Nat BY DEF PlacesInv
<1>2. Len(buffer) + 1 \in Out
  <2>1. Len(buffer) + 1 \in 1 .. Len(buffer) + 1 /\ ~(Len(buffer) + 1 <= Len(buffer)) BY <1>1
  <2>2. Char(Len(buffer) + 1) = NUL BY <2>1, Inside
  <2> QED BY <1>1, <2>2
<1>3. PICK out \in Out : \A place \in Out : out <= place
  <2>1. Out \subseteq Nat /\ Out # {} BY <1>1, <1>2
  <2> HIDE DEF Out
  <2> QED BY <2>1, LeastNat
<1>4. out \in first + 1 .. Len(buffer) + 1 BY <1>1, <1>3
<1>5. \A place \in first .. out - 1 : place \notin Out BY <1>1, <1>3, <1>4
<1>6. \A place \in first .. out - 1 : Char(place) \in class BY <1>1, <1>4, <1>5
<1>7. Runs(out - 1) /\ out - 1 \in first .. Len(buffer)
  <2>1. out - 1 + 1 = out /\ out - 1 \in first .. Len(buffer) BY <1>1, <1>4
  <2> QED BY <1>3, <1>6, <2>1
<1> DEFINE longest == CHOOSE last \in first .. Len(buffer) : Runs(last)
<1>8. \E last \in first .. Len(buffer) : Runs(last) BY <1>7
<1>9. longest \in first .. Len(buffer) /\ Runs(longest)
  <2> HIDE DEF Runs
  <2> QED BY <1>8, Zenon
<1>10. longest = Longest(first, class) BY Zenon DEF Longest
<1> HIDE DEF longest
<1> QED BY <1>9, <1>10

LEMMA LongestUnique ==
  ASSUME PlacesInv, NEW first \in 1 .. Len(buffer), NEW class,
         NEW last \in first .. Len(buffer),
         \A place \in first .. last : Char(place) \in class, Char(last + 1) \notin class
  PROVE  Longest(first, class) = last
<1> DEFINE Runs(end) == /\ \A place \in first .. end : Char(place) \in class
                        /\ Char(end + 1) \notin class
           longest == CHOOSE end \in first .. Len(buffer) : Runs(end)
<1>1. Len(buffer) \in Nat BY DEF PlacesInv
<1>2. \E end \in first .. Len(buffer) : Runs(end) OBVIOUS
<1>3. longest \in first .. Len(buffer) /\ Runs(longest)
  <2> HIDE DEF Runs
  <2> QED BY <1>2, Zenon
<1>4. longest = Longest(first, class) BY Zenon DEF Longest
<1> HIDE DEF longest
<1>5. ~(longest < last)
  <2> SUFFICES ASSUME longest < last PROVE FALSE OBVIOUS
  <2>1. longest + 1 \in first .. last BY <1>1, <1>3
  <2> QED BY <1>3, <2>1
<1>6. ~(last < longest)
  <2> SUFFICES ASSUME last < longest PROVE FALSE OBVIOUS
  <2>1. last + 1 \in first .. longest BY <1>1, <1>3
  <2> QED BY <1>3, <2>1
<1> QED BY <1>1, <1>3, <1>4, <1>5, <1>6

(* What a word is, and what it is not.                                      *)
LEMMA WordSpelt ==
  ASSUME PlacesInv, NEW first \in 1 .. Len(buffer), NEW last \in first .. Len(buffer),
         Char(first) \in Heads,
         \A place \in first .. last : Char(place) \in Heads \cup Digits
  PROVE  LET word == SubSeq(buffer, first, last)
         IN  /\ Lexeme(first, last) = Spell(word)
             /\ IF word \in DOMAIN KeywordMap THEN Spell(word) = KeywordMap[word]
                ELSE Spell(word) \in Idents
<1> DEFINE word == SubSeq(buffer, first, last)
<1>1. /\ buffer \in Buffers /\ buffer \in Seq(ToSet(buffer) \ {NUL}) /\ Len(buffer) \in Nat
      /\ DOMAIN buffer = 1 .. Len(buffer)
  BY BufferAssumption, LenProperties DEF PlacesInv
<1>2. \A place \in first .. last : place \in DOMAIN buffer /\ Char(place) = buffer[place]
  BY <1>1 DEF Char
<1>3. ToSet(word) \subseteq Heads \cup Digits
  <2>1. /\ DOMAIN word = 1 .. last - first + 1
        /\ \A i \in 1 .. last - first + 1 : word[i] = buffer[first + i - 1]
    BY <1>1, SubSeqProperties
  <2>2. \A i \in 1 .. last - first + 1 : first + i - 1 \in first .. last BY <1>1
  <2> QED BY <1>2, <2>1, <2>2 DEF ToSet
<1>4. buffer[first] \in Heads BY <1>1, <1>2
<1>5. first \in DOMAIN buffer BY <1>1
<1>6. Lexeme(first, last) = Spell(word)
  <2>1. Char(first) \notin Digits BY ClassAssumption
  <2> QED BY <2>1, Zenon DEF Lexeme, Spelt
<1> HIDE DEF word
<1>7. IF word \in DOMAIN KeywordMap THEN Spell(word) = KeywordMap[word]
      ELSE Spell(word) \in Idents
  BY <1>1, <1>3, <1>4, <1>5, SpellingAssumption DEF word
<1> QED BY <1>6, <1>7 DEF word

(* The lexeme at the cursor, when no white space is left before it.         *)
LEMMA AheadHere ==
  ASSUME PlacesInv, Char(curPtr) \notin Spaces
  PROVE  Ahead = CASE Char(curPtr) \in Heads -> Lexeme(curPtr, Longest(curPtr, Heads \cup Digits))
                   [] Char(curPtr) \in Digits -> Lexeme(curPtr, Longest(curPtr, Digits))
                   [] Char(curPtr) \in Operators -> Char(curPtr)
                   [] OTHER -> IF Char(curPtr) = NUL THEN "eof" ELSE "unknown"
<1> DEFINE Starts(place) ==
             Char(place) \notin Spaces /\ \A each \in curPtr .. place - 1 : Char(each) \in Spaces
           first == CHOOSE place \in curPtr .. Len(buffer) + 1 : Starts(place)
<1>1. curPtr \in 1 .. Len(buffer) + 1 /\ Len(buffer) \in Nat BY DEF PlacesInv
<1>2. curPtr \in curPtr .. Len(buffer) + 1 /\ Starts(curPtr) BY <1>1
<1>3. first \in curPtr .. Len(buffer) + 1 /\ Starts(first)
  <2> HIDE DEF Starts
  <2> QED BY <1>2, Zenon
<1> HIDE DEF first
<1>4. first = curPtr
  <2> SUFFICES ASSUME first # curPtr PROVE FALSE OBVIOUS
  <2>1. curPtr \in curPtr .. first - 1 BY <1>1, <1>3
  <2> QED BY <1>3, <2>1
<1> QED BY <1>4 DEF Ahead, first

LEMMA AheadOperator ==
  ASSUME PlacesInv, Char(curPtr) \in Operators
  PROVE  /\ Ahead = Char(curPtr) /\ Lexeme(curPtr, curPtr) = Char(curPtr)
         /\ curPtr <= Len(buffer)
<1>1. Char(curPtr) \notin Heads \cup Digits \cup Spaces /\ Char(curPtr) # NUL
  BY ClassAssumption, BufferAssumption
<1>2. Ahead = Char(curPtr) BY <1>1, AheadHere
<1>3. curPtr \in 1 .. Len(buffer) /\ Len(buffer) \in Nat BY <1>1, Inside DEF PlacesInv
<1>4. /\ buffer \in Buffers /\ curPtr \in DOMAIN buffer
  BY <1>3, BufferAssumption, LenProperties DEF PlacesInv
<1>5. buffer[curPtr] = Char(curPtr) BY <1>4 DEF Char
<1>6. Spell(SubSeq(buffer, curPtr, curPtr)) = Char(curPtr)
  BY <1>4, <1>5, SpellingAssumption
<1>7. Lexeme(curPtr, curPtr) = Char(curPtr) BY <1>1, <1>6, Zenon DEF Lexeme, Spelt
<1> QED BY <1>2, <1>3, <1>7

LEMMA AheadNone ==
  ASSUME PlacesInv, Char(curPtr) \notin Spaces \cup Heads \cup Digits \cup Operators
  PROVE  Ahead = IF Char(curPtr) = NUL THEN "eof" ELSE "unknown"
BY AheadHere

LEMMA AheadNumber ==
  ASSUME PlacesInv, Char(curPtr) \in Digits
  PROVE  Ahead = "7" /\ \A last : Lexeme(curPtr, last) = "7"
<1>1. Char(curPtr) \notin Heads \cup Spaces \cup Operators BY ClassAssumption
<1>2. \A last : Lexeme(curPtr, last) = "7" BY Zenon DEF Lexeme
<1>3. Ahead = Lexeme(curPtr, Longest(curPtr, Digits)) BY <1>1, AheadHere
<1> QED BY <1>2, <1>3, Zenon

LEMMA AheadWord ==
  ASSUME PlacesInv, Char(curPtr) \in Heads
  PROVE  /\ Ahead = Lexeme(curPtr, Longest(curPtr, Heads \cup Digits))
         /\ Ahead \in Idents \cup Kinds /\ curPtr \in 1 .. Len(buffer)
<1> DEFINE last == Longest(curPtr, Heads \cup Digits)
<1>1. Char(curPtr) \notin Digits \cup Spaces \cup Operators /\ Char(curPtr) # NUL
  BY ClassAssumption, BufferAssumption
<1>2. curPtr \in 1 .. Len(buffer) BY <1>1, Inside DEF PlacesInv
<1>3. Ahead = Lexeme(curPtr, last) BY <1>1, AheadHere
<1>4. last \in curPtr .. Len(buffer)
      /\ \A place \in curPtr .. last : Char(place) \in Heads \cup Digits
  BY <1>2, BufferAssumption, LongestIs
<1> HIDE DEF last
<1>5. Lexeme(curPtr, last) \in Idents \cup Kinds
  <2> DEFINE word == SubSeq(buffer, curPtr, last)
  <2>1. /\ Lexeme(curPtr, last) = Spell(word)
        /\ IF word \in DOMAIN KeywordMap THEN Spell(word) = KeywordMap[word]
           ELSE Spell(word) \in Idents
    BY <1>2, <1>4, WordSpelt
  <2> HIDE DEF word
  <2> QED BY <2>1 DEF Kinds, Range
<1> QED BY <1>2, <1>3, <1>5 DEF last

LEMMA AheadTyped ==
  ASSUME PlacesInv, Char(curPtr) \notin Spaces
  PROVE  Ahead \in Texts \cup {"eof", "unknown"} /\ Ahead # "unread"
<1>1. Ahead \in Texts \cup {"eof", "unknown"}
  <2>1. CASE Char(curPtr) \in Heads BY <2>1, AheadWord DEF Texts
  <2>2. CASE Char(curPtr) \in Digits BY <2>2, AheadNumber DEF Texts
  <2>3. CASE Char(curPtr) \in Operators BY <2>3, AheadOperator DEF Texts
  <2>4. CASE Char(curPtr) \notin Spaces \cup Heads \cup Digits \cup Operators
    BY <2>4, AheadNone
  <2> QED BY <2>1, <2>2, <2>3, <2>4
<1> QED BY <1>1, WordsApart DEF Texts

(* What meets the lexeme at the cursor reveals it.                          *)
LEMMA Revealed ==
  ASSUME StreamInv, Char(curPtr) \notin Spaces, NEW still, Met(still)
  PROVE  Ahead \in Stream!Upcoming /\ Stream!Reveal
<1>1. Ahead \in Texts \cup {"eof", "unknown"} /\ Ahead # "unread"
  BY AheadTyped DEF StreamInv, LexInv
<1>2. used' = IF looked THEN used ELSE used + 1 BY DEF Met
<1>3. CASE looked
  <2>1. Seen = Ahead /\ Seen # "unread" BY <1>1, <1>3 DEF Seen
  <2>2. used' = used BY <1>2, <1>3
  <2> QED BY <2>1, <2>2, Zenon DEF Seen, Stream!Upcoming, Stream!Reveal, Stream!Unread
<1>4. CASE ~looked
  <2>1. Seen = "unread" BY <1>4 DEF Seen
  <2>2. used' = used + 1 BY <1>2, <1>4
  <2>3. used < MaxLexemes
    <3>1. /\ used \in Nat /\ used + 1 <= curPtr /\ buffer \in Buffers /\ Len(buffer) \in Nat
          /\ curPtr \in 1 .. Len(buffer) + 1
      BY <1>4 DEF StreamInv, LexInv, PlacesInv, TypeInv, UsedInv
    <3>2. MaxLexemes \in Nat /\ Len(buffer) < MaxLexemes BY <3>1, LexemeBound
    <3> QED BY <3>1, <3>2
  <2>4. Ahead \in Idents \cup Kinds \cup Operators \cup {"7"} \cup {"eof", "unknown"}
    BY <1>1 DEF Texts
  <2> QED BY <2>1, <2>2, <2>3, <2>4 DEF Seen, Stream!Upcoming, Stream!Reveal, Stream!Unread,
                                       Stream!Ends
<1> QED BY <1>3, <1>4

-----------------------------------------------------------------------------
(* The token and the lexeme at the cursor as the parser sees them.          *)
Shown == [kind |-> token.kind, text |-> TextOf(token.start, token.length)]
ShownEnds == {"eof", "unknown"}

LEMMA TextsStay ==
  ASSUME buffer' = buffer
  PROVE  /\ \A place : Char(place)' = Char(place)
         /\ \A first, last : Lexeme(first, last)' = Lexeme(first, last)
         /\ \A start, length : TextOf(start, length)' = TextOf(start, length)
         /\ curPtr' = curPtr => Ahead' = Ahead
<1>1. \A place : Char(place)' = Char(place) BY DEF Char
<1>2. \A first, last : Lexeme(first, last)' = Lexeme(first, last)
  <2> TAKE first, last
  <2>1. Char(first)' = Char(first) BY <1>1
  <2>2. SubSeq(buffer', first, last) = SubSeq(buffer, first, last) OBVIOUS
  <2> QED BY <2>1, <2>2, Zenon DEF Lexeme, Spelt
<1>3. \A start, length : TextOf(start, length)' = TextOf(start, length)
  BY <1>2 DEF TextOf
<1>4. curPtr' = curPtr => Ahead' = Ahead
  BY <1>1, <1>2 DEF Ahead, Longest
<1> QED BY <1>1, <1>2, <1>3, <1>4

LEMMA Advances ==
  ASSUME StreamInv, Char(curPtr) \notin Spaces, NEW still, Met(still),
         Ahead \in ShownEnds => Shown' = [Shown EXCEPT !.kind = Ahead] /\ Seen' = Ahead,
         Ahead \notin ShownEnds =>
           Shown' = [kind |-> Stream!KindOf(Ahead), text |-> Ahead] /\ Seen' = "unread"
  PROVE  Stream!StreamNext
<1>1. Ahead \in Stream!Upcoming /\ Stream!Reveal BY Revealed
<1>2. Stream!Ends = ShownEnds /\ Stream!Unread = "unread"
  BY DEF Stream!Ends, Stream!Unread, ShownEnds
<1>3. Stream!Advance
  <2>1. /\ Shown' = IF Ahead \in ShownEnds THEN [Shown EXCEPT !.kind = Ahead]
                    ELSE [kind |-> Stream!KindOf(Ahead), text |-> Ahead]
        /\ Seen' = IF Ahead \in ShownEnds THEN Ahead ELSE "unread"
    BY Zenon
  <2>2. /\ Shown' = IF Ahead \in Stream!Ends THEN [Shown EXCEPT !.kind = Ahead]
                    ELSE [kind |-> Stream!KindOf(Ahead), text |-> Ahead]
        /\ Seen' = IF Ahead \in Stream!Ends THEN Ahead ELSE Stream!Unread
    BY <1>2, <2>1, Zenon
  <2> QED BY <1>1, <2>2, Zenon DEF Stream!Advance, Shown, Seen, TextOf
<1> QED BY <1>3, Zenon DEF Stream!StreamNext

LEMMA KindsShown ==
  /\ \A lexeme \in Kinds \cup Operators : Stream!KindOf(lexeme) = lexeme
  /\ \A lexeme \in Idents : Stream!KindOf(lexeme) = "identifier"
  /\ Stream!KindOf("7") = "number"
  /\ \A lexeme \in Texts : lexeme \notin ShownEnds
BY WordsApart DEF Stream!KindOf, Stream!Numbers, Texts, ShownEnds

LEMMA NoLexemeRefines == ASSUME StreamInv, NoLexeme PROVE Stream!StreamNext
<1>1. /\ Char(curPtr) \notin Spaces \cup Heads \cup Digits \cup Operators
      /\ token' = [token EXCEPT !.kind = IF Char(curPtr) = NUL THEN "eof" ELSE "unknown"]
      /\ Met(TRUE) /\ UNCHANGED <<buffer, curPtr>>
  BY DEF NoLexeme
<1>2. Ahead = IF Char(curPtr) = NUL THEN "eof" ELSE "unknown"
  BY <1>1, AheadNone DEF StreamInv, LexInv
<1>3. Ahead \in ShownEnds BY <1>2 DEF ShownEnds
<1>4. Seen' = Ahead BY <1>1, TextsStay DEF Seen, Met
<1>5. Shown' = [Shown EXCEPT !.kind = Ahead]
  <2>1. token'.start = token.start /\ token'.length = token.length /\ token'.kind = Ahead
    BY <1>1, <1>2 DEF StreamInv, RecordInv
  <2>2. PICK start, length : start = token.start /\ length = token.length OBVIOUS
  <2>3. TextOf(start, length)' = TextOf(start, length) BY <1>1, TextsStay
  <2>4. Shown' = [kind |-> Ahead, text |-> TextOf(start, length)]
    BY <2>1, <2>2, <2>3, Zenon DEF Shown, TextOf
  <2>5. Shown = [kind |-> token.kind, text |-> TextOf(start, length)]
    BY <2>2, Zenon DEF Shown
  <2> QED BY <2>4, <2>5
<1> QED BY <1>1, <1>3, <1>4, <1>5, Advances

(* A lexeme that is taken.                                                  *)
LEMMA TakenRefines ==
  ASSUME StreamInv, NEW tokenEnd \in Nat, NEW kind, FormToken(tokenEnd, kind),
         Char(curPtr) \notin Spaces, Ahead \in Texts, kind = Stream!KindOf(Ahead),
         Ahead = Lexeme(curPtr, tokenEnd - 1)
  PROVE  Stream!StreamNext
<1>1. /\ token' = [kind |-> kind, start |-> curPtr, length |-> tokenEnd - curPtr]
      /\ buffer' = buffer /\ Met(FALSE)
  BY DEF FormToken
<1>2. curPtr \in Nat /\ curPtr # 0 BY DEF StreamInv, LexInv, PlacesInv
<1>3. Ahead \notin ShownEnds BY KindsShown
<1>4. Seen' = "unread" BY <1>1, Zenon DEF Seen, Met
<1>5. Shown' = [kind |-> Stream!KindOf(Ahead), text |-> Ahead]
  <2>1. token'.start = curPtr /\ token'.length = tokenEnd - curPtr /\ token'.kind = kind
    BY <1>1
  <2>2. curPtr + (tokenEnd - curPtr) - 1 = tokenEnd - 1 BY <1>2
  <2>3. PICK start, length : start = curPtr /\ length = tokenEnd - curPtr OBVIOUS
  <2>4. TextOf(start, length)' = TextOf(start, length) BY <1>1, TextsStay
  <2>5. TextOf(start, length) = Ahead BY <1>2, <2>2, <2>3, Zenon DEF TextOf
  <2>6. Shown' = [kind |-> kind, text |-> TextOf(start, length)]
    BY <2>1, <2>3, <2>4, Zenon DEF Shown, TextOf
  <2> QED BY <2>5, <2>6
<1> QED BY <1>1, <1>3, <1>4, <1>5, Advances

LEMMA OperatorRefines == ASSUME StreamInv, Operator PROVE Stream!StreamNext
<1>1. Char(curPtr) \in Operators /\ FormToken(curPtr + 1, Char(curPtr)) BY DEF Operator
<1>2. Ahead = Char(curPtr) /\ Lexeme(curPtr, curPtr) = Char(curPtr)
  BY <1>1, AheadOperator DEF StreamInv, LexInv
<1>3. Char(curPtr) \notin Spaces BY <1>1, ClassAssumption
<1>4. Char(curPtr) = Stream!KindOf(Ahead) BY <1>1, <1>2, KindsShown
<1>5. Ahead \in Texts BY <1>1, <1>2 DEF Texts
<1>6. PICK tokenEnd \in Nat : tokenEnd = curPtr + 1
  BY DEF StreamInv, LexInv, PlacesInv
<1>7. PICK kind : kind = Char(curPtr) OBVIOUS
<1>8. tokenEnd - 1 = curPtr BY <1>6 DEF StreamInv, LexInv, PlacesInv
<1>9. Ahead = Lexeme(curPtr, tokenEnd - 1) BY <1>2, <1>8
<1>10. FormToken(tokenEnd, kind) /\ kind = Stream!KindOf(Ahead) BY <1>1, <1>4, <1>6, <1>7
<1> QED BY <1>3, <1>5, <1>6, <1>9, <1>10, TakenRefines

LEMMA EndWordRefines == ASSUME StreamInv, EndWord PROVE Stream!StreamNext
<1>1. /\ call \in {"identifier", "number"} /\ Char(endPtr) \notin Body
      /\ PlacesInv /\ curPtr \in Nat /\ endPtr \in Nat /\ Len(buffer) \in Nat /\ endPtr > curPtr
      /\ curPtr >= 1 /\ endPtr <= Len(buffer) + 1
  BY DEF EndWord, StreamInv, LexInv, PlacesInv, TypeInv, CallInv
<1>2. \A place \in curPtr .. endPtr - 1 : Char(place) \in Body
  BY <1>1 DEF StreamInv, WordInv
<1> DEFINE word == SubSeq(buffer, curPtr, endPtr - 1)
<1>3. CASE call = "number"
  <2>1. Char(curPtr) \in Digits BY <1>3 DEF StreamInv, WordInv
  <2>2. Ahead = "7" /\ Lexeme(curPtr, endPtr - 1) = "7"
    BY <1>1, <2>1, AheadNumber
  <2>3. FormToken(endPtr, "number") BY <1>3 DEF EndWord
  <2>4. Char(curPtr) \notin Spaces BY <2>1, ClassAssumption
  <2>5. Ahead \in Texts /\ "number" = Stream!KindOf(Ahead) BY <2>2, KindsShown DEF Texts
  <2>6. Ahead = Lexeme(curPtr, endPtr - 1) BY <2>2
  <2> QED BY <1>1, <2>3, <2>4, <2>5, <2>6, TakenRefines
<1>4. CASE call = "identifier"
  <2>1. Char(curPtr) \in Heads BY <1>4 DEF StreamInv, WordInv
  <2>2. Body = Heads \cup Digits BY <1>4 DEF Body
  <2>3. curPtr \in 1 .. Len(buffer) /\ endPtr - 1 \in curPtr .. Len(buffer)
        /\ endPtr - 1 + 1 = endPtr
    BY <1>1
  <2>4. Longest(curPtr, Heads \cup Digits) = endPtr - 1
    BY <1>1, <1>2, <2>2, <2>3, LongestUnique
  <2>5. Ahead = Lexeme(curPtr, endPtr - 1)
    BY <1>1, <2>1, <2>4, AheadWord
  <2>6. /\ Lexeme(curPtr, endPtr - 1) = Spell(word)
        /\ IF word \in DOMAIN KeywordMap THEN Spell(word) = KeywordMap[word]
           ELSE Spell(word) \in Idents
    BY <1>1, <1>2, <2>1, <2>2, <2>3, WordSpelt
  <2> HIDE DEF word
  <2>7. FormToken(endPtr, GetKeyWord(word))
    <3>1. call # "number" BY <1>4
    <3> QED BY <3>1, Zenon DEF EndWord, word
  <2>8. Ahead \in Texts /\ GetKeyWord(word) = Stream!KindOf(Ahead)
    <3>1. CASE word \in DOMAIN KeywordMap
      <4>1. GetKeyWord(word) = Ahead /\ Ahead \in Kinds
        BY <2>5, <2>6, <3>1 DEF GetKeyWord, Kinds, Range
      <4> QED BY <4>1, KindsShown DEF Texts
    <3>2. CASE word \notin DOMAIN KeywordMap
      <4>1. GetKeyWord(word) = "identifier" /\ Ahead \in Idents
        BY <2>5, <2>6, <3>2 DEF GetKeyWord
      <4> QED BY <4>1, KindsShown DEF Texts
    <3> QED BY <3>1, <3>2
  <2>9. Char(curPtr) \notin Spaces BY <2>1, ClassAssumption
  <2> QED BY <1>1, <2>5, <2>7, <2>8, <2>9, TakenRefines
<1> QED BY <1>1, <1>3, <1>4

(* The token does not change.                                               *)
LEMMA ShownStays == ASSUME UNCHANGED <<buffer, token>> PROVE Shown' = Shown
<1>1. PICK start, length : start = token.start /\ length = token.length OBVIOUS
<1>2. TextOf(start, length)' = TextOf(start, length) BY TextsStay
<1> QED BY <1>1, <1>2, Zenon DEF Shown, TextOf

LEMMA NoMarkRefines == ASSUME StreamInv, NoMark PROVE Stream!StreamNext
<1>1. /\ call = "getMarkContent" /\ Char(curPtr) \notin Spaces \cup {mark} /\ Met(TRUE)
      /\ UNCHANGED <<buffer, curPtr, token>>
  BY DEF NoMark
<1>2. mark \in Marks /\ PlacesInv BY <1>1 DEF StreamInv, OpenInv, LexInv
<1>3. Ahead \in Stream!Upcoming /\ Stream!Reveal BY <1>1, Revealed
<1>4. Ahead # mark
  <2>1. mark \in Operators BY <1>2, ClassAssumption
  <2>2. CASE Char(curPtr) \in Operators BY <1>1, <1>2, <2>2, AheadOperator
  <2>3. CASE Char(curPtr) \in Heads BY <1>2, <2>1, <2>3, AheadWord, WordsApart
  <2>4. CASE Char(curPtr) \in Digits BY <1>2, <2>1, <2>4, AheadNumber, WordsApart
  <2>5. CASE Char(curPtr) \notin Heads \cup Digits \cup Operators
    BY <1>1, <1>2, <2>1, <2>5, AheadNone, WordsApart
  <2> QED BY <2>2, <2>3, <2>4, <2>5
<1>5. Seen' = Ahead
  <2>1. looked' = TRUE BY <1>1, Zenon DEF Met
  <2>2. Ahead' = Ahead BY <1>1, TextsStay
  <2> QED BY <2>1, <2>2, Zenon DEF Seen
<1>6. Stream!NoMark(mark)
  <2>1. Seen' \in Stream!Upcoming \ {mark} BY <1>3, <1>4, <1>5
  <2>2. Shown' = Shown BY <1>1, ShownStays
  <2> QED BY <1>3, <2>1, <2>2, Zenon DEF Stream!NoMark, Seen, Shown, TextOf
<1> QED BY <1>2, <1>6 DEF Stream!StreamNext, Marks

LEMMA ScanEndsRefines == ASSUME StreamInv, ScanEnds PROVE Stream!StreamNext
<1>1. /\ call \in Scans /\ UNCHANGED <<buffer, token>>
      /\ IF call = "getEndChContent" THEN looked' = FALSE /\ used' = used ELSE Met(FALSE)
  BY DEF ScanEnds
<1>2. Shown' = Shown BY <1>1, ShownStays
<1>3. Seen' = "unread"
  <2>1. looked' = FALSE BY <1>1, Zenon DEF Met
  <2> QED BY <2>1, Zenon DEF Seen
<1>4. CASE call = "getEndChContent"
  <2>1. used' = used BY <1>1, <1>4
  <2>2. Stream!EndFound
    BY <1>2, <1>3, <2>1, Zenon DEF Stream!EndFound, Stream!Unread, Shown, Seen, TextOf
  <2> QED BY <2>2, Zenon DEF Stream!StreamNext
<1>5. CASE call # "getEndChContent"
  <2>1. call \in {"equalMarks", "nestedMarks"} BY <1>1, <1>5 DEF Scans
  <2>2. mark \in Marks /\ Char(curPtr) = mark /\ PlacesInv
    BY <2>1 DEF StreamInv, OpenInv, LexInv, EqualInv, NestedInv
  <2>3. Ahead = mark /\ Char(curPtr) \notin Spaces BY <2>2, AheadOperator, ClassAssumption
  <2>4. Met(FALSE) BY <1>1, <1>5
  <2>5. mark \in Stream!Upcoming /\ Stream!Reveal BY <2>3, <2>4, Revealed
  <2>6. Stream!Marked(mark)
    BY <1>2, <1>3, <2>5, Zenon DEF Stream!Marked, Stream!Unread, Shown, Seen, TextOf
  <2> QED BY <2>2, <2>6 DEF Stream!StreamNext, Marks
<1> QED BY <1>4, <1>5

(* The steps the parser does not see.                                       *)
LEMMA HiddenRefines ==
  ASSUME UNCHANGED <<buffer, token, history>>, curPtr' = curPtr \/ ~looked
  PROVE  UNCHANGED Stream!stream
<1>1. /\ looked' = looked /\ used' = used /\ buffer' = buffer /\ token' = token BY DEF history
<1>2. Shown' = Shown BY <1>1, ShownStays
<1>3. Seen' = Seen
  <2>1. CASE curPtr' = curPtr
    <3>1. Ahead' = Ahead BY <1>1, <2>1, TextsStay
    <3> QED BY <1>1, <3>1, Zenon DEF Seen
  <2>2. CASE ~looked BY <1>1, <2>2, Zenon DEF Seen
  <2> QED BY <2>1, <2>2
<1> QED BY <1>1, <1>2, <1>3, Zenon DEF Stream!stream, Shown, Seen, TextOf

LEMMA StreamStep == StreamInv /\ [Next]_vars => [Stream!StreamNext]_(Stream!stream)
<1> SUFFICES ASSUME StreamInv, [Next]_vars, ~UNCHANGED Stream!stream PROVE Stream!StreamNext
  OBVIOUS
<1>1. CASE NoLexeme BY <1>1, NoLexemeRefines
<1>2. CASE Operator BY <1>2, OperatorRefines
<1>3. CASE EndWord BY <1>3, EndWordRefines
<1>4. CASE NoMark BY <1>4, NoMarkRefines
<1>5. CASE ScanEnds BY <1>5, ScanEndsRefines
<1>6. CASE SkipWhitespace
  <2>1. ~looked BY <1>6 DEF SkipWhitespace, StreamInv, LookedInv
  <2> QED BY <1>6, <2>1, HiddenRefines DEF SkipWhitespace
<1>7. CASE Call BY <1>7, HiddenRefines DEF Call
<1>8. CASE StartWord BY <1>8, HiddenRefines DEF StartWord
<1>9. CASE GrowWord \/ AtMark BY <1>9, HiddenRefines DEF GrowWord, AtMark
<1>10. CASE ScanOn \/ Overrun BY <1>10, HiddenRefines DEF ScanOn, Overrun
<1>11. CASE UNCHANGED vars BY <1>11, HiddenRefines DEF vars, history
<1> QED BY <1>1, <1>2, <1>3, <1>4, <1>5, <1>6, <1>7, <1>8, <1>9, <1>10, <1>11 DEF Next, Step

LEMMA StreamStart == Init => Stream!StreamInit
<1> SUFFICES ASSUME Init PROVE Stream!StreamInit OBVIOUS
<1>1. token = [kind |-> "unknown", start |-> 0, length |-> 0] /\ looked = FALSE /\ used = 0
  BY Zenon DEF Init
<1>2. Shown = [kind |-> "unknown", text |-> "uninitialized"] BY <1>1 DEF Shown, TextOf
<1>3. Seen = "unread" BY <1>1, Zenon DEF Seen
<1> QED BY <1>1, <1>2, <1>3, Zenon DEF Stream!StreamInit, Stream!Uninit, Stream!Unread,
                                     Shown, Seen, TextOf

-----------------------------------------------------------------------------
LEMMA StreamInvInit == Init => StreamInv
<1> SUFFICES ASSUME Init PROVE StreamInv OBVIOUS
<1>1. token = [kind |-> "unknown", start |-> 0, length |-> 0] /\ looked = FALSE /\ call = "none"
  BY Zenon DEF Init
<1>2. RecordInv BY <1>1 DEF RecordInv
<1>3. LookedInv BY <1>1, Zenon DEF LookedInv
<1>4. WordInv /\ OpenInv BY <1>1 DEF WordInv, OpenInv
<1> QED BY <1>2, <1>3, <1>4, LexInit, TypeInvInit DEF StreamInv

(* Nothing but a lexeme is looked at, and nothing moves the cursor then but *)
(* what takes the lexeme.                                                   *)
LEMMA LookedKept ==
  ASSUME LookedInv, UNCHANGED <<buffer, history>>, curPtr' = curPtr \/ ~looked
  PROVE  LookedInv'
<1>1. looked' = looked /\ buffer' = buffer BY DEF history
<1>2. CASE ~looked BY <1>1, <1>2, Zenon DEF LookedInv
<1>3. CASE curPtr' = curPtr
  <2>1. Char(curPtr)' = Char(curPtr) BY <1>1, <1>3 DEF Char
  <2> QED BY <1>1, <2>1, Zenon DEF LookedInv
<1> QED BY <1>2, <1>3

LEMMA LookedStep == StreamInv /\ [Next]_vars => LookedInv'
<1> SUFFICES ASSUME StreamInv, [Next]_vars PROVE LookedInv' OBVIOUS
<1>0. LookedInv BY DEF StreamInv
<1>1. CASE NoLexeme \/ NoMark
  <2>1. Char(curPtr) \notin Spaces /\ UNCHANGED <<buffer, curPtr>>
    BY <1>1 DEF NoLexeme, NoMark
  <2>2. Char(curPtr)' = Char(curPtr) BY <2>1 DEF Char
  <2> QED BY <2>1, <2>2 DEF LookedInv
<1>2. CASE Operator \/ EndWord \/ ScanEnds
  <2>1. looked' = FALSE
    BY <1>2, Zenon DEF Operator, EndWord, ScanEnds, FormToken, Met
  <2> QED BY <2>1, Zenon DEF LookedInv
<1>3. CASE SkipWhitespace
  <2>1. ~looked BY <1>3 DEF SkipWhitespace, StreamInv, LookedInv
  <2> QED BY <1>0, <1>3, <2>1, LookedKept DEF SkipWhitespace
<1>4. CASE Call BY <1>0, <1>4, LookedKept DEF Call
<1>5. CASE StartWord BY <1>0, <1>5, LookedKept DEF StartWord
<1>6. CASE GrowWord \/ AtMark BY <1>0, <1>6, LookedKept DEF GrowWord, AtMark
<1>7. CASE ScanOn \/ Overrun BY <1>0, <1>7, LookedKept DEF ScanOn, Overrun
<1>8. CASE UNCHANGED vars BY <1>0, <1>8, LookedKept DEF vars, history
<1> QED BY <1>1, <1>2, <1>3, <1>4, <1>5, <1>6, <1>7, <1>8 DEF Next, Step

LEMMA WordStep == StreamInv /\ [Next]_vars => WordInv' /\ OpenInv' /\ RecordInv'
<1> SUFFICES ASSUME StreamInv, [Next]_vars PROVE WordInv' /\ OpenInv' /\ RecordInv'
  OBVIOUS
<1>0. /\ WordInv /\ OpenInv /\ RecordInv /\ curPtr \in Nat /\ endPtr \in Nat
  BY DEF StreamInv, LexInv, PlacesInv
<1>1. CASE NoLexeme
  <2>1. RecordInv' BY <1>0, <1>1 DEF NoLexeme, RecordInv
  <2> QED BY <1>1, <2>1 DEF NoLexeme, WordInv, OpenInv
<1>2. CASE Operator \/ EndWord
  <2>1. RecordInv' /\ call' = "none" BY <1>2 DEF Operator, EndWord, FormToken, RecordInv
  <2> QED BY <2>1 DEF WordInv, OpenInv
<1>3. CASE NoMark \/ ScanEnds \/ Overrun
  <2>1. token' = token /\ call' \in {"none", "overrun"} BY <1>3 DEF NoMark, ScanEnds, Overrun
  <2> QED BY <1>0, <2>1 DEF WordInv, OpenInv, RecordInv
<1>4. CASE Call
  <2>1. /\ token' = token /\ call' \notin {"identifier", "number", "equalMarks", "nestedMarks"}
        /\ call' = "getMarkContent" => mark' \in Marks
    BY <1>4, Zenon DEF Call, Marks
  <2> QED BY <1>0, <2>1 DEF WordInv, OpenInv, RecordInv
<1>5. CASE SkipWhitespace
  BY <1>0, <1>5 DEF SkipWhitespace, WordInv, OpenInv, RecordInv
<1>6. CASE StartWord
  <2>1. /\ token' = token /\ UNCHANGED <<buffer, curPtr>> /\ endPtr' = curPtr + 1
        /\ \/ Char(curPtr) \in Heads /\ call' = "identifier"
           \/ Char(curPtr) \in Digits /\ call' = "number"
    BY <1>6 DEF StartWord
  <2>2. \A place : Char(place)' = Char(place) BY <2>1 DEF Char
  <2>3. \A place \in curPtr' .. endPtr' - 1 : place = curPtr BY <1>0, <2>1
  <2>4. WordInv' BY <2>1, <2>2, <2>3 DEF WordInv, Body
  <2> QED BY <1>0, <2>1, <2>4 DEF OpenInv, RecordInv
<1>7. CASE GrowWord
  <2>1. /\ UNCHANGED <<buffer, curPtr, token, call, mark>> /\ endPtr' = endPtr + 1
        /\ call \in {"identifier", "number"} /\ Char(endPtr) \in Body
    BY <1>7 DEF GrowWord
  <2>2. \A place : Char(place)' = Char(place) BY <2>1 DEF Char
  <2>3. \A place \in curPtr' .. endPtr' - 1 : place = endPtr \/ place \in curPtr .. endPtr - 1
    BY <1>0, <2>1
  <2>4. \A place \in curPtr .. endPtr - 1 : Char(place) \in Body BY <1>0, <2>1 DEF WordInv
  <2>5. Body' = Body BY <2>1 DEF Body
  <2>6. \A place \in curPtr' .. endPtr' - 1 : Char(place) \in Body BY <2>1, <2>3, <2>4
  <2>7. WordInv' BY <1>0, <2>1, <2>2, <2>5, <2>6 DEF WordInv
  <2> QED BY <1>0, <2>1, <2>7 DEF OpenInv, RecordInv
<1>8. CASE AtMark \/ ScanOn
  <2>1. /\ UNCHANGED <<token, mark>> /\ call' \notin {"identifier", "number"}
        /\ call' \in {"equalMarks", "nestedMarks"} =>
             call \in {"getMarkContent", "equalMarks", "nestedMarks"}
        /\ call' # "getMarkContent"
    BY <1>8 DEF AtMark, ScanOn, Scans
  <2> QED BY <1>0, <2>1 DEF WordInv, OpenInv, RecordInv
<1>9. CASE UNCHANGED vars
  <2>1. UNCHANGED <<buffer, curPtr, endPtr, token, call, mark>> BY <1>9 DEF vars
  <2>2. \A place : Char(place)' = Char(place) BY <2>1 DEF Char
  <2>3. WordInv' BY <1>0, <2>1, <2>2 DEF WordInv, Body
  <2> QED BY <1>0, <2>1, <2>3 DEF OpenInv, RecordInv
<1> QED BY <1>1, <1>2, <1>3, <1>4, <1>5, <1>6, <1>7, <1>8, <1>9 DEF Next, Step

LEMMA StreamInvStep == StreamInv /\ [Next]_vars => StreamInv'
<1> SUFFICES ASSUME StreamInv, [Next]_vars PROVE StreamInv' OBVIOUS
<1>1. LexInv' BY LexStep DEF StreamInv
<1>2. TypeInv' BY <1>1, TypeInvStep DEF StreamInv
<1> QED BY <1>1, <1>2, LookedStep, WordStep DEF StreamInv

(* Every execution of the lexer, character by character, is one of the      *)
(* stream of lexemes that the parser is modelled over, so what is proved of *)
(* a parser on every stream holds on the texts this lexer reads.            *)
THEOREM LexerIsStream == Spec => ImplementsStream
<1> QED BY StreamStart, StreamStep, StreamInvInit, StreamInvStep,
           PTL DEF Spec, ImplementsStream, Stream!StreamSpec
=============================================================================
