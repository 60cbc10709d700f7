-------------------------------- MODULE Text --------------------------------
(***************************************************************************)
(* What an editor of one file promises: the text of the file with a place  *)
(* in it, and what each key does to them.  In command mode a key moves the *)
(* place, takes the character there away or changes the mode; in insert    *)
(* mode a character is added at the place or taken away before it; a line  *)
(* ends the session, with the text written over the file or with nothing   *)
(* written.                                                                *)
(***************************************************************************)
EXTENDS Integers, Sequences, SequencesExt

CONSTANTS
  Files,       \* the files there may be, as sequences of characters
  Dropped,     \* the characters of a file that do not come into the text
  Chars,       \* the characters that are typed
  Newline,     \* what every text ends with, and the key that runs a line
  Rub, Escape, \* the keys that are no characters
  Room         \* a file with so many characters to keep is not opened

VARIABLES
  left, right, \* the text before the place and from there on
  file,        \* the characters of the file
  open,        \* the session is on
  mode,        \* 0 command, 1 insert, 2 line
  line,        \* the characters of the line
  key          \* the last key

vars == <<left, right, file, open, mode, line, key>>

\* The characters of file f that come into the text, in their order.
Kept(f) ==
  LET of[n \in 0 .. Len(f)] ==
        IF n = 0 THEN <<>>
        ELSE IF f[n] \in Dropped THEN of[n - 1] ELSE Append(of[n - 1], f[n])
  IN  of[Len(f)]

\* A text that ends with a newline.
Ended(text) ==
  IF text /= <<>> /\ Last(text) = Newline THEN text ELSE Append(text, Newline)

\* Writing from the file's beginning leaves what lies behind the written characters.
Over(old, new) == new \o SubSeq(old, Len(new) + 1, Len(old))

\* A line is read in lower case.
Lower(c) == CASE c = "W" -> "w" [] c = "Q" -> "q" [] OTHER -> c

Init ==
  \E f \in Files :
    /\ file = f
    /\ open = (Len(Kept(f)) < Room)
    /\ left = <<>>
    /\ right = IF open THEN Ended(Kept(f)) ELSE SubSeq(Kept(f), 1, Room)
    /\ mode = 0 /\ line = <<>>

\* The keys of command mode that move the place or do nothing.  The last character is
\* not taken away.
Move ==
  /\ open /\ mode = 0 /\ key' \notin {"i", ":"}
  /\ left' \o right' = left \o right /\ right' /= <<>>
  /\ key' \notin {"h", "j", "k", "l"} => left' = left
  /\ key' = "x" => Len(right) = 1
  /\ UNCHANGED <<file, open, mode, line>>

Cut ==
  /\ open /\ mode = 0 /\ key' = "x"
  /\ Len(right) > 1 /\ right' = Tail(right)
  /\ UNCHANGED <<left, file, open, mode, line>>

Switch ==
  /\ open
  /\ \/ mode = 0 /\ key' = "i" /\ mode' = 1 /\ line' = line
     \/ mode = 0 /\ key' = ":" /\ mode' = 2 /\ line' = <<":">>
     \/ mode = 1 /\ key' = Escape /\ mode' = 0 /\ line' = line
     \/ mode = 2 /\ key' = Escape /\ mode' = 0 /\ line' = <<>>
  /\ UNCHANGED <<left, right, file, open>>

Type ==
  /\ open /\ mode = 1 /\ key' \in Chars
  /\ Len(left \o right) <= Room
  /\ left' = Append(left, key')
  /\ UNCHANGED <<right, file, open, mode, line>>

\* A character for which there is no room ends the session, and the text is lost.
Full ==
  /\ open /\ mode = 1 /\ key' \in Chars
  /\ Len(left \o right) > Room
  /\ open' = FALSE
  /\ left' \o right' = left \o right
  /\ UNCHANGED <<file, mode, line>>

RubOut ==
  /\ open /\ mode = 1 /\ key' = Rub
  /\ left /= <<>> /\ left' = Front(left)
  /\ UNCHANGED <<right, file, open, mode, line>>

EditLine ==
  /\ open /\ mode = 2
  /\ \/ key' = Rub /\ line' = IF line = <<>> THEN <<>> ELSE Front(line)
     \/ key' \notin {Rub, Escape, Newline} /\ line' = Append(line, Lower(key'))
  /\ UNCHANGED <<left, right, file, open, mode>>

\* Any other line than these two does nothing.
Run ==
  /\ open /\ mode = 2 /\ key' = Newline
  /\ open' = (line \notin {<<":", "w", "q">>, <<":", "q", "!">>})
  /\ file' = IF line = <<":", "w", "q">> THEN Over(file, left \o right) ELSE file
  /\ UNCHANGED <<left, right, mode, line>>

Next == Move \/ Cut \/ Switch \/ Type \/ Full \/ RubOut \/ EditLine \/ Run

Spec == Init /\ [][Next]_vars
=============================================================================
