----------------------------- MODULE LexerChars -----------------------------
(***************************************************************************)
(* FrontendGen's Lexer, character by character.  A call of next(),          *)
(* getMarkContent() or getEndChContent() is a sequence of steps, one for    *)
(* each turn of its loops.  The buffer ends with a NUL; a scan that goes on *)
(* from there reads what is not the buffer's, and nothing is claimed then.  *)
(***************************************************************************)
EXTENDS Integers, FiniteSets, SequencesExt

CONSTANTS
  Buffers,                    \* the texts considered, characters in a sequence
  Heads, Digits, Spaces,      \* classes of characters
  Operators,                  \* characters that are tokens by themselves
  KeywordMap,                 \* the kinds of the words that are keywords
  Idents, MaxLexemes          \* for TokenStream: other words, a bound on `used`

NUL == "NUL"
(* The NUL behind a text is the only one, and in no class of characters.    *)
ASSUME BufferAssumption ==
  /\ \A text \in Buffers : text \in Seq(ToSet(text) \ {NUL})
  /\ NUL \notin Heads \cup Digits \cup Spaces \cup Operators
(* No text has more lexemes than the stream is to reveal, its end among them.*)
ASSUME LexemeBound ==
  MaxLexemes \in Nat /\ \A text \in Buffers : Len(text) < MaxLexemes

(* The word that a sequence of characters makes.                            *)
Spell(word) == FoldLeft(LAMBDA text, each : text \o each, "", word)
Marks == {"\"", "["}
Kinds == Range(KeywordMap)

(* The classes have no character in common, and the opening marks are       *)
(* operators.  Whatever begins like a word in a text is a keyword, spelt as *)
(* the kind it has, or one of the other words; an operator is spelt as it   *)
(* is.                                                                      *)
ASSUME ClassAssumption ==
  /\ Heads \cap Digits = {} /\ Spaces \cap (Heads \cup Digits) = {}
  /\ Operators \cap (Heads \cup Digits \cup Spaces) = {} /\ Marks \subseteq Operators
ASSUME SpellingAssumption ==
  \A text \in Buffers : \A first \in DOMAIN text :
    /\ text[first] \in Operators => Spell(SubSeq(text, first, first)) = text[first]
    /\ \A last \in first .. Len(text) :
         LET word == SubSeq(text, first, last) IN
         text[first] \in Heads /\ ToSet(word) \subseteq Heads \cup Digits =>
           IF word \in DOMAIN KeywordMap THEN Spell(word) = KeywordMap[word]
           ELSE Spell(word) \in Idents
VARIABLES
  buffer,
  curPtr,   \* the lexer's position: Len(buffer) + 1 at the NUL
  token,    \* kind, start and length; start is 0 until a lexeme was read
  call,     \* what runs: a procedure or a loop of one, or nothing
  mark,     \* the argument of the call: the mark or character looked for
  endPtr, number,   \* local variables
  content,  \* first and last place of the text returned by the last scan
  looked, used      \* history: the lexeme at curPtr was met; how many were

vars == <<buffer, curPtr, token, call, mark, endPtr, number, content, looked, used>>
history == <<looked, used>>

Char(place) == IF place \in DOMAIN buffer THEN buffer[place] ELSE NUL
Close == IF mark = "[" THEN "]" ELSE mark

Init ==
  /\ buffer \in Buffers /\ curPtr = 1
  /\ token = [kind |-> "unknown", start |-> 0, length |-> 0]
  /\ call = "none" /\ mark = "" /\ endPtr = 1 /\ number = 0 /\ content = <<>>
  /\ looked = FALSE /\ used = 0

(* The parser makes any of its calls.                                       *)
Call ==
  /\ call = "none"
  /\ \/ call' = "next" /\ mark' = ""
     \/ call' = "getMarkContent" /\ mark' \in {"\"", "["}
     \/ call' = "getEndChContent" /\ mark' \in {"\"", ">"}
  /\ endPtr' = curPtr /\ number' = 0 /\ content' = <<>>
  /\ UNCHANGED <<buffer, curPtr, token, history>>

Met(still) == looked' = still /\ used' = IF looked THEN used ELSE used + 1

SkipWhitespace ==
  /\ call \in {"next", "getMarkContent"} /\ Char(curPtr) \in Spaces
  /\ curPtr' = curPtr + 1
  /\ UNCHANGED <<buffer, token, call, mark, endPtr, number, content, history>>

-----------------------------------------------------------------------------
(* next()                                                                   *)

(* Variant: an unknown character is skipped.                                *)
SkipUnknown ==
  /\ call = "next" /\ Char(curPtr) \notin Spaces \cup Heads \cup Digits \cup Operators
  /\ token' = [token EXCEPT !.kind = IF Char(curPtr) = NUL THEN "eof" ELSE "unknown"]
  /\ curPtr' = IF Char(curPtr) = NUL THEN curPtr ELSE curPtr + 1
  /\ call' = "none" /\ Met(TRUE)
  /\ UNCHANGED <<buffer, mark, endPtr, number, content>>

(* The end of the text and unknown characters: the kind is all that changes.*)
NoLexeme ==
  /\ call = "next" /\ Char(curPtr) \notin Spaces \cup Heads \cup Digits \cup Operators
  /\ token' = [token EXCEPT !.kind = IF Char(curPtr) = NUL THEN "eof" ELSE "unknown"]
  /\ call' = "none" /\ Met(TRUE)
  /\ UNCHANGED <<buffer, curPtr, mark, endPtr, number, content>>

FormToken(tokenEnd, kind) ==
  /\ token' = [kind |-> kind, start |-> curPtr, length |-> tokenEnd - curPtr]
  /\ curPtr' = tokenEnd
  /\ call' = "none" /\ Met(FALSE)
  /\ UNCHANGED <<buffer, mark, endPtr, number, content>>

Operator == call = "next" /\ Char(curPtr) \in Operators
            /\ FormToken(curPtr + 1, Char(curPtr))

StartWord ==
  /\ call = "next"
  /\ \/ Char(curPtr) \in Heads /\ call' = "identifier"
     \/ Char(curPtr) \in Digits /\ call' = "number"
  /\ endPtr' = curPtr + 1
  /\ UNCHANGED <<buffer, curPtr, token, mark, number, content, history>>

Body == IF call = "identifier" THEN Heads \cup Digits ELSE Digits

GrowWord ==
  /\ call \in {"identifier", "number"} /\ Char(endPtr) \in Body
  /\ endPtr' = endPtr + 1
  /\ UNCHANGED <<buffer, curPtr, token, call, mark, number, content, history>>

GetKeyWord(name) == IF name \in DOMAIN KeywordMap THEN KeywordMap[name] ELSE "identifier"

(* Variant: the character after the word is taken with it.                  *)
EndWordLate ==
  /\ call \in {"identifier", "number"} /\ Char(endPtr) \notin Body
  /\ FormToken(endPtr + 1, IF call = "number" THEN "number"
                           ELSE GetKeyWord(SubSeq(buffer, curPtr, endPtr - 1)))

EndWord ==
  /\ call \in {"identifier", "number"} /\ Char(endPtr) \notin Body
  /\ FormToken(endPtr, IF call = "number" THEN "number"
                       ELSE GetKeyWord(SubSeq(buffer, curPtr, endPtr - 1)))

-----------------------------------------------------------------------------
(* getMarkContent() and getEndChContent()                                   *)

NoMark ==
  /\ call = "getMarkContent" /\ Char(curPtr) \notin Spaces \cup {mark}
  /\ content' = <<>> /\ call' = "none" /\ Met(TRUE)
  /\ UNCHANGED <<buffer, curPtr, token, mark, endPtr, number>>

AtMark ==
  /\ call = "getMarkContent" /\ Char(curPtr) = mark
  /\ call' = IF mark = Close THEN "equalMarks" ELSE "nestedMarks"
  /\ endPtr' = curPtr + 1 /\ number' = 1
  /\ UNCHANGED <<buffer, curPtr, token, mark, content, history>>

Scans == {"equalMarks", "nestedMarks", "getEndChContent"}
(* Variant: a mark inside the text is not counted.                          *)
FlatDepth == number - (IF Char(endPtr) = Close THEN 1 ELSE 0)

Depth == number + (IF Char(endPtr) = mark THEN 1 ELSE 0)
                - (IF Char(endPtr) = Close THEN 1 ELSE 0)
(* Variant: the nested loop ends when the depth falls below zero.           *)
BelowClose == IF call = "nestedMarks" THEN Depth < 0 ELSE Char(endPtr) = Close

AtClose == IF call = "nestedMarks" THEN Depth = 0 ELSE Char(endPtr) = Close

ScanOn ==
  /\ call \in Scans /\ ~AtClose /\ Char(endPtr) # NUL
  /\ endPtr' = endPtr + 1
  /\ number' = IF call = "nestedMarks" THEN Depth ELSE number
  /\ UNCHANGED <<buffer, curPtr, token, call, mark, content, history>>

(* The closing mark is part of the text returned, which begins at the mark, *)
(* or with the current token.                                               *)
ScanEnds ==
  /\ call \in Scans /\ AtClose
  /\ content' = <<IF call = "getEndChContent" THEN token.start ELSE curPtr, endPtr>>
  /\ curPtr' = endPtr + 1 /\ call' = "none"
  /\ IF call = "getEndChContent" THEN looked' = FALSE /\ UNCHANGED used ELSE Met(FALSE)
  /\ UNCHANGED <<buffer, token, mark, endPtr, number>>

(* Variant: the scans stop at the end of the buffer, and stay there.        *)
ScanStays ==
  call \in Scans /\ ~AtClose /\ Char(endPtr) = NUL /\ UNCHANGED vars

Overrun ==
  /\ call \in Scans /\ ~AtClose /\ Char(endPtr) = NUL
  /\ call' = "overrun"
  /\ UNCHANGED <<buffer, curPtr, token, mark, endPtr, number, content, history>>

-----------------------------------------------------------------------------
Step == \/ SkipWhitespace \/ NoLexeme \/ Operator \/ StartWord \/ GrowWord \/ EndWord
        \/ NoMark \/ AtMark \/ ScanOn \/ ScanEnds \/ Overrun
Next == Call \/ Step \/ (call = "overrun" /\ UNCHANGED vars)
(* The lexer runs in the parser's thread: a call goes on until it returns.  *)
Spec == Init /\ [][Next]_vars /\ WF_vars(Step)
-----------------------------------------------------------------------------
TypeOK ==
  /\ curPtr \in 1 .. Len(buffer) + 1 /\ endPtr \in 1 .. Len(buffer) + 1
  /\ token.start \in 0 .. Len(buffer) /\ token.start + token.length <= Len(buffer) + 1
  /\ token.kind \in {"unknown", "eof", "identifier", "number"} \cup Operators
                     \cup Range(KeywordMap)
  /\ call \in {"none", "next", "identifier", "number", "getMarkContent", "overrun"} \cup Scans
  /\ number \in Nat /\ used \in 0 .. MaxLexemes /\ looked \in BOOLEAN

(* The lexeme at a place, by the longest match: what TokenStream calls      *)
(* `ahead`.  Numbers are one lexeme to it.                                  *)
Spelt(first, last) == Spell(SubSeq(buffer, first, last))
Lexeme(first, last) == IF Char(first) \in Digits THEN "7" ELSE Spelt(first, last)
Longest(first, class) ==
  CHOOSE last \in first .. Len(buffer) :
    (\A place \in first .. last : Char(place) \in class) /\ Char(last + 1) \notin class
Ahead ==
  LET first == CHOOSE place \in curPtr .. Len(buffer) + 1 :
                 Char(place) \notin Spaces /\ \A each \in curPtr .. place - 1 : Char(each) \in Spaces
  IN  CASE Char(first) \in Heads -> Lexeme(first, Longest(first, Heads \cup Digits))
        [] Char(first) \in Digits -> Lexeme(first, Longest(first, Digits))
        [] Char(first) \in Operators -> Char(first)
        [] OTHER -> IF Char(first) = NUL THEN "eof" ELSE "unknown"

Stream == INSTANCE TokenStream WITH
            token <- [kind |-> token.kind,
                      text |-> IF token.start = 0 THEN "uninitialized"
                               ELSE Lexeme(token.start, token.start + token.length - 1)],
            ahead <- IF looked THEN Ahead ELSE "unread",
            Lexemes <- Idents \cup Kinds \cup Operators \cup {"7"}

(* The vocabulary is the stream's, and its other words are no lexemes of    *)
(* another kind, nor what it has for the end and for no text.               *)
ASSUME WordAssumption ==
  /\ Kinds \subseteq Stream!Keywords /\ Operators \subseteq Stream!Punctuators
  /\ Idents \cap (Stream!Keywords \cup Stream!Punctuators \cup Stream!Numbers
                  \cup Stream!Ends \cup {Stream!Unread, Stream!Uninit}) = {}

(* The parser is modelled over TokenStream, which deals out whole lexemes,  *)
(* sticks at the end and at unknown characters, and knows of scans only     *)
(* whether they find a mark.  Every call of this lexer is one of its steps. *)
ImplementsStream == Stream!StreamSpec

(* getMarkContent returns the shortest text from the mark in which marks    *)
(* are balanced: up to the next mark, or over all nested ones.              *)
Count(ch, first, last) == Cardinality({place \in first .. last : Char(place) = ch})
Balanced(first, last) ==
  IF Char(first) = "[" THEN Count("[", first, last) = Count("]", first, last)
  ELSE Count(Char(first), first, last) = 2
ShortestBalanced(text) ==
  \A last \in text[1] .. text[2] : Balanced(text[1], last) <=> last = text[2]
MarksBalanced ==
  [][(call \in {"equalMarks", "nestedMarks"} /\ call' = "none") => ShortestBalanced(content')]_vars

(* The scans do not test for the end of the buffer (lines 176-187, 196), so *)
(* a missing mark takes them past it; nothing else does.                    *)
OverrunOnlyUnclosed ==
  call = "overrun" => \A last \in curPtr + 1 .. Len(buffer) :
    IF mark = "[" THEN ~Balanced(curPtr, last) ELSE Char(last) # mark

(* Every call comes back or runs past the end.                              *)
CallsEnd == call # "none" ~> call \in {"none", "overrun"}
=============================================================================
