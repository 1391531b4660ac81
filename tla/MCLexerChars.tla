---------------------------- MODULE MCLexerChars ----------------------------
(* Every text of up to three characters, and longer ones of words and of     *)
(* brackets.  The keyword is `op`.                                           *)
EXTENDS LexerChars

MCHeads == {"o", "p"}
MCDigits == {"7"}
MCSpaces == {" "}
MCOperators == {"\"", "[", "]", ">"}
MCKeywordMap == [word \in {<<"o", "p">>} |-> "op"]
Alphabet == MCHeads \cup MCDigits \cup MCSpaces \cup MCOperators \cup {"!"}

MCBuffers == BoundedSeq(Alphabet, 3) \cup BoundedSeq({"o", "p"}, 4)
             \cup BoundedSeq({"[", "]"}, 6)
MCIdents == {FoldLeft(LAMBDA text, each : text \o each, "", word) :
               word \in {w \in BoundedSeq({"o", "p", "7"}, 3) \cup BoundedSeq({"o", "p"}, 4) :
                           w # <<>> /\ w[1] # "7" /\ w # <<"o", "p">>}}
=============================================================================
