---------------------------- MODULE TokenStream ----------------------------
(***************************************************************************)
(* The lexer of FrontendGen as its parser sees it: a cursor on a text whose *)
(* lexemes are revealed one at a time, each chosen when the cursor reaches  *)
(* it.  A state therefore stands for every text that begins with what has   *)
(* been read.                                                               *)
(*                                                                          *)
(* `token` is the Parser's Token object.  next() rewrites its kind and its  *)
(* text, except at the end of the text and at a character no lexeme starts  *)
(* with: there it sets the kind alone, the text stays that of an earlier    *)
(* token, and the cursor stays where it is, so the same answer comes back   *)
(* for ever.                                                                *)
(***************************************************************************)
EXTENDS Naturals, Sequences

CONSTANTS
  Idents,      \* texts that lex as identifiers
  Lexemes,     \* the lexemes a text may contain
  MaxLexemes   \* how many of them a text reveals before it ends

Keywords == {"rule", "dialect", "op"}
Punctuators == {";", ":", "'", "*", "(", ")", "?", "+", "=", "{", "}", "$",
                ",", "<", ">", "[", "]", "\""}
Numbers == {"7"}
Ends == {"eof", "unknown"}     \* kinds next() sets without reading a text
Unread == "unread"             \* the lexeme at the cursor is not known yet
Uninit == "uninitialized"      \* the text of a Token before the first lexeme

Texts == Idents \cup Keywords \cup Punctuators \cup Numbers
Kinds == {"identifier", "number"} \cup Keywords \cup Punctuators \cup Ends

ASSUME LexemeAssumption ==
  /\ Lexemes \subseteq Texts
  /\ Idents \cap (Keywords \cup Punctuators \cup Numbers \cup Ends) = {}
  /\ {Unread, Uninit} \cap (Texts \cup Ends) = {}
  /\ MaxLexemes \in Nat

VARIABLES
  token,   \* the current token: kind and text
  ahead,   \* the lexeme at the cursor when it has been looked at, or Unread
  used     \* how many lexemes the text has revealed

stream == <<token, ahead, used>>

Tokens == [kind : Kinds, text : Texts \cup {Uninit}]

StreamTypeOK ==
  /\ token \in Tokens
  /\ ahead \in Lexemes \cup Ends \cup {Unread}
  /\ used \in Nat

KindOf(lexeme) == IF lexeme \in Idents THEN "identifier"
                  ELSE IF lexeme \in Numbers THEN "number" ELSE lexeme

StreamInit ==
  /\ token = [kind |-> "unknown", text |-> Uninit]
  /\ ahead = Unread
  /\ used = 0

(* What the cursor may stand on: the text ends when MaxLexemes are out.     *)
Upcoming == IF ahead # Unread THEN {ahead}
            ELSE IF used < MaxLexemes THEN Lexemes \cup Ends ELSE {"eof"}

Reveal == used' = IF ahead = Unread THEN used + 1 ELSE used

(* Lexer::next.                                                             *)
Advance ==
  \E lexeme \in Upcoming :
    /\ token' = IF lexeme \in Ends THEN [token EXCEPT !.kind = lexeme]
                ELSE [kind |-> KindOf(lexeme), text |-> lexeme]
    /\ ahead' = IF lexeme \in Ends THEN lexeme ELSE Unread
    /\ Reveal

(* getMarkContent at a cursor that does not stand on the opening mark: the  *)
(* content is empty and the cursor stays.                                   *)
NoMark(open) ==
  /\ ahead' \in Upcoming \ {open}
  /\ Reveal
  /\ UNCHANGED token

(* getMarkContent over a closed pair of marks; the token is not touched.    *)
Marked(open) ==
  /\ open \in Upcoming
  /\ ahead' = Unread
  /\ Reveal
  /\ UNCHANGED token

(* getEndChContent over a text that holds the character looked for.         *)
EndFound == ahead' = Unread /\ UNCHANGED <<token, used>>

(* Neither scan tests for the end of the buffer: when the closing mark is   *)
(* missing it reads past it.                                                *)
MayOverrun(open) == open \in Upcoming

(* What the lexer may do at all, whoever calls it.                          *)
StreamNext == \/ Advance \/ EndFound
              \/ \E open \in {"\"", "["} : NoMark(open) \/ Marked(open)
StreamSpec == StreamInit /\ [][StreamNext]_stream

(* The kind of a token that stays for ever, and whose text is stale.        *)
AtEnd == token.kind \in Ends
============================================================================
