--------------------------------- MODULE Auth ---------------------------------
(***************************************************************************)
(* The bearer token of the ledger service (src/src/auth.rs), and the       *)
(* values that variables of the process environment have.                  *)
(*                                                                         *)
(* A value is absent, or bytes that are not Unicode, or a text.  A text is *)
(* a word, with blanks around it or without; trim gives the word.          *)
(***************************************************************************)

CONSTANTS
  Words,    (* what a variable may say                                     *)
  Ascii     (* the words that gRPC metadata can carry                      *)

ASSUME AsciiAssumption == Ascii \subseteq Words

Blank == ""

Unset == [kind |-> "unset", word |-> Blank, padded |-> FALSE]
NotUnicode == [Unset EXCEPT !.kind = "not unicode"]
Text(word) == [Unset EXCEPT !.kind = "text", !.word = word]
PaddedText(word) == [Text(word) EXCEPT !.padded = TRUE]

Values ==
  {Unset, NotUnicode} \cup {Text(w) : w \in Words} \cup {PaddedText(w) : w \in Words}

(* What reading a variable returns. *)
Ok(value) == [ok |-> TRUE, value |-> value]
Err == [ok |-> FALSE, value |-> Blank]

-----------------------------------------------------------------------------
(* No token is expected. *)
NoToken == Blank

EmptyTokenIsUnset(v) ==
  CASE v.kind = "unset" -> Ok(NoToken)
    [] v.kind = "text" -> Ok(v.word)
    [] OTHER -> Err
from_env_var(v) ==
  CASE v.kind = "unset" -> Ok(NoToken)
    [] v.kind = "text" /\ v.word # Blank -> Ok(v.word)
    [] OTHER -> Err

-----------------------------------------------------------------------------
(* The authorization metadata of a request: missing, or bytes outside      *)
(* ASCII, or a word without a space, or a scheme (whatever its case) and   *)
(* what follows the first space.                                           *)
Missing == [form |-> "missing", scheme |-> Blank, token |-> Text(Blank)]
NotAscii == [Missing EXCEPT !.form = "not ascii"]
OneWord(word) == [Missing EXCEPT !.form = "one word", !.scheme = word]
Credentials(scheme, token) == [form |-> "pair", scheme |-> scheme, token |-> token]

Schemes == {"bearer", "basic"}

Headers ==
  {Missing, NotAscii} \cup {OneWord(w) : w \in Ascii \ {Blank}}
    \cup {Credentials(s, t) : s \in Schemes, t \in {Text(w) : w \in Ascii}
                                                     \cup {PaddedText(w) : w \in Ascii}}

(* What a client sends that was given the token. *)
BearerOf(token) ==
  IF token \in Ascii THEN Credentials("bearer", Text(token)) ELSE NotAscii

check_request(expected, header) ==
  \/ expected = NoToken
  \/ /\ header.form = "pair"
     /\ header.scheme = "bearer"
     /\ header.token = Text(expected)
=============================================================================
