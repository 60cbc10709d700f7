------------------------------- MODULE Editor -------------------------------
(***************************************************************************)
(* The shell's editor, usr/myvi.c.  One key is one step: the handler of    *)
(* the mode, with the screen_flush that ends it.                           *)
(*                                                                         *)
(* Of the buffer the model keeps buffer[0 .. size - 1], the part that is   *)
(* read.  The page on the screen is the place of its first character, and  *)
(* page_end is what the last drawing of the screen has counted.  Drawing   *)
(* is modelled by that number: which character comes in which cell decides *)
(* how much fits.  The calls to the file system succeed; what they do with *)
(* the buffers of a file is FileData's part.                               *)
(***************************************************************************)
EXTENDS Integers, Sequences, FiniteSetsExt, SequencesExt

CONSTANTS
  BUFFER_SIZE,  \* the characters that fit the buffer
  ROW_LEN,      \* the rows of the page
  COLUMN_LEN,   \* the columns of a row
  TabWidth,     \* the distance of the tab stops
  Letters,      \* the printable characters that are typed into the text
  Files         \* the files that are opened; the empty one may be a new one

NL  == "nl"   \* KEYBOARD_ENTER_N
CR  == "cr"   \* KEYBOARD_ENTER_R, 13
TAB == "tab"  \* KEYBOARD_TAB
BS  == "bs"   \* 8
ESC == "esc"  \* 27

Chars == Letters \cup {NL, TAB}

ASSUME SizeAssumption ==
  /\ BUFFER_SIZE \in Nat \ {0, 1} /\ ROW_LEN \in Nat \ {0} /\ COLUMN_LEN \in Nat
  /\ TabWidth \in Nat \ {0} /\ \E m \in 1 .. COLUMN_LEN : COLUMN_LEN = m * TabWidth

\* A file may also hold carriage returns, which no key types.
ASSUME FilesAssumption == CR \notin Chars /\ Files \subseteq Seq(Chars \cup {CR})

VARIABLES
  buffer, size,
  cursor_location,
  page_location, page_end,
  key,          \* what get_key has returned last
  mode,         \* 0 command, 1 insert, 2 last line
  instruction,  \* instruction[0 .. inst_len - 1]
  err,          \* 0 while the session is on
  disk,         \* the characters of the file
  careful       \* history: all that has been typed so far is what Careful allows

session ==
  <<buffer, size, cursor_location, page_location, page_end, key, mode, instruction, err, disk>>

text == <<buffer, size>>
page == <<page_location, page_end>>
-----------------------------------------------------------------------------
(* Drawing and lines, of a buffer b with len characters *)

\* Where the next character is drawn after character c was drawn at at.
After(at, c) ==
  LET wide == CASE c = CR  -> at.col
                [] c = TAB -> (at.col \div TabWidth) * TabWidth + TabWidth
                [] OTHER   -> at.col + 1
  IN  IF c = NL \/ wide = COLUMN_LEN
      THEN [row |-> at.row + 1, col |-> 0]
      ELSE [at EXCEPT !.col = wide]

\* Where each place up to len is drawn when the page begins at p.
Drawn(b, len, p) ==
  LET at[loc \in p .. len] ==
        IF loc = p THEN [row |-> 0, col |-> 0] ELSE After(at[loc - 1], b[loc - 1])
  IN  at

\* screen_flush: the first character that the page from place p on has no room for.
PageEnd(b, len, p) ==
  LET at == Drawn(b, len, p) IN Min({loc \in p .. len : loc = len \/ at[loc].row >= ROW_LEN})

\* The loops that go up stop at the first place from loc - 1 down that is at or before
\* the beginning, or behind one of the characters ends; the ones that go down at a newline.
LineAbove(b, loc, ends) ==
  Max({p \in {-1} \cup 0 .. loc - 1 : p <= 0 \/ b[p - 1] \in ends})
LineEnd(b, len, loc) == Min({p \in loc .. len : p = len \/ b[p] = NL})

\* Variant: the first line of the text is never reached.
PageUpShort(b, p) ==
  LET loc == LineAbove(b, p, {NL, CR}) IN IF loc > 0 THEN loc ELSE p

\* page_location_last_line
PageUp(b, p) == LET loc == LineAbove(b, p, {NL, CR}) IN IF loc >= 0 THEN loc ELSE p

\* page_location_next_line
PageDown(b, len, p) == LET loc == LineEnd(b, len, p) IN IF loc + 1 < len THEN loc + 1 ELSE p

\* screen_flush with the page at p
Flush(p) ==
  /\ page_location' = p
  /\ page_end' = PageEnd(buffer', size', p)
-----------------------------------------------------------------------------
(* Opening and saving *)

\* The loop of load_file: the text after i characters, until it finds no more room.
Loaded(f) ==
  LET got[i \in 0 .. Len(f)] ==
        IF i = 0 THEN <<>>
        ELSE IF f[i] = CR \/ Len(got[i - 1]) = BUFFER_SIZE - 1 THEN got[i - 1]
        ELSE Append(got[i - 1], f[i])
  IN  got[Len(f)]

\* load_file: a file that is too long ends the session before it begins.
load_file(f) ==
  LET got  == Loaded(f)
      full == Len(got) = BUFFER_SIZE - 1
  IN  [chars |-> IF full \/ (got /= <<>> /\ Last(got) = NL) THEN got ELSE Append(got, NL),
       err   |-> IF full THEN 2 ELSE 0]

\* myvi_init, load_file and the first screen_flush
myvi_init ==
  /\ disk \in Files
  /\ LET loaded == load_file(disk)
     IN  /\ size = Len(loaded.chars)
         /\ buffer = [i \in 0 .. size - 1 |-> loaded.chars[i + 1]]
         /\ err = loaded.err
  /\ cursor_location = 0 /\ page_location = 0
  /\ page_end = PageEnd(buffer, size, 0)
  /\ mode = 0 /\ instruction = <<>> /\ key = "none"

\* fs_lseek to 0 and fs_write of size characters: the file does not get shorter.
save_file ==
  disk' = [i \in 1 .. Max({size, Len(disk)}) |-> IF i <= size THEN buffer[i - 1] ELSE disk[i]]

\* With a full buffer insert_key ends the session.
insert_key(c, site) ==
  IF size >= BUFFER_SIZE
  THEN err' = 1 /\ UNCHANGED text
  ELSE /\ buffer' = [i \in 0 .. size |->
                       IF i > site THEN buffer[i - 1] ELSE IF i = site THEN c ELSE buffer[i]]
       /\ size' = size + 1
       /\ UNCHANGED err

delete_key(site) ==
  /\ buffer' = [i \in 0 .. size - 2 |-> IF i >= site THEN buffer[i + 1] ELSE buffer[i]]
  /\ size' = size - 1
-----------------------------------------------------------------------------
(* Command mode *)

cursor_prev_line ==
  LET loc == LineAbove(buffer, cursor_location, {NL})
  IN  IF loc <= 0 THEN cursor_location ELSE loc

cursor_next_line ==
  LET loc == LineEnd(buffer, size, cursor_location) + 1
  IN  IF loc < size THEN loc ELSE cursor_location

\* What follows the switch: the page goes a line up or down, by the page_end of the
\* last drawing, and is drawn.
Follow ==
  Flush(CASE cursor_location' < page_location -> PageUp(buffer', page_location)
          [] cursor_location' >= page_location /\ cursor_location' >= page_end ->
               PageDown(buffer', size', page_location)
          [] OTHER -> page_location)

Goto(loc) ==
  /\ mode = 0
  /\ cursor_location' = loc
  /\ UNCHANGED <<text, mode, instruction, err, disk>>
  /\ Follow

NextLine == key' = "j" /\ Goto(cursor_next_line)
PrevLine == key' = "k" /\ Goto(cursor_prev_line)

Left ==
  /\ key' = "h"
  /\ Goto(IF cursor_location > 0 /\ buffer[cursor_location - 1] /= NL
          THEN cursor_location - 1 ELSE cursor_location)

Right ==
  /\ key' = "l"
  /\ Goto(IF cursor_location + 1 < size /\ buffer[cursor_location] /= NL
          THEN cursor_location + 1 ELSE cursor_location)

\* The switch has no case for the key.
NoCommand ==
  /\ key' \in (Chars \cup {BS, ESC}) \ {"j", "k", "h", "l", "x", ":", "i"}
  /\ Goto(cursor_location)

\* Variant: the last newline can be taken away.
DeleteHereAny ==
  /\ mode = 0 /\ key' = "x"
  /\ delete_key(cursor_location)
  /\ UNCHANGED <<cursor_location, mode, instruction, err, disk>>
  /\ Follow

DeleteHere ==
  /\ mode = 0 /\ key' = "x"
  /\ IF cursor_location /= size - 1 THEN delete_key(cursor_location) ELSE UNCHANGED text
  /\ UNCHANGED <<cursor_location, mode, instruction, err, disk>>
  /\ Follow

Colon ==
  /\ mode = 0 /\ key' = ":"
  /\ mode' = 2 /\ instruction' = <<":">>
  /\ UNCHANGED <<text, cursor_location, err, disk>>
  /\ Follow

StartInsert ==
  /\ mode = 0 /\ key' = "i"
  /\ mode' = 1
  /\ UNCHANGED <<text, page, cursor_location, instruction, err, disk>>

do_command_mode ==
  NextLine \/ PrevLine \/ Left \/ Right \/ NoCommand \/ DeleteHere \/ Colon \/ StartInsert
-----------------------------------------------------------------------------
(* Insert mode *)

EndInsert ==
  /\ mode = 1 /\ key' = ESC
  /\ mode' = 0
  /\ UNCHANGED <<text, page, cursor_location, instruction, err, disk>>

\* At the beginning of the text this takes the cursor to -1.
Backspace ==
  /\ mode = 1 /\ key' = BS
  /\ IF cursor_location /= 0 THEN delete_key(cursor_location - 1) ELSE UNCHANGED text
  /\ cursor_location' = cursor_location - 1
  /\ Flush(IF cursor_location' < page_location THEN PageUp(buffer', page_location)
           ELSE page_location)
  /\ UNCHANGED <<mode, instruction, err, disk>>

\* The screen is drawn first, so that page_end counts the new character.
Insert(c) ==
  /\ mode = 1 /\ key' = c
  /\ insert_key(c, cursor_location)
  /\ cursor_location' = cursor_location + 1
  /\ LET drawn == PageEnd(buffer', size', page_location)
     IN  Flush(IF cursor_location' >= drawn THEN PageDown(buffer', size', page_location)
               ELSE page_location)
  /\ UNCHANGED <<mode, instruction, disk>>

do_insert_mode == EndInsert \/ Backspace \/ \E c \in Chars : Insert(c)
-----------------------------------------------------------------------------
(* Last line *)

\* to_lower_case, of the letters that are typed here
to_lower_case(c) == CASE c = "W" -> "w" [] c = "Q" -> "q" [] OTHER -> c

\* Every key of the last line ends with a drawing of the page where it is.
LastLine ==
  /\ mode = 2
  /\ UNCHANGED <<text, cursor_location>>
  /\ Flush(page_location)

LeaveLine ==
  /\ LastLine /\ key' = ESC
  /\ mode' = 0 /\ instruction' = <<>>
  /\ UNCHANGED <<err, disk>>

RubLine ==
  /\ LastLine /\ key' = BS
  /\ instruction' = IF instruction = <<>> THEN <<>> ELSE Front(instruction)
  /\ UNCHANGED <<mode, err, disk>>

AppendLine(c) ==
  /\ LastLine /\ key' = c
  /\ instruction' = Append(instruction, to_lower_case(c))
  /\ UNCHANGED <<mode, err, disk>>

\* Variant: :wq ends the session as :q! does.
ExecuteUnsaved ==
  /\ LastLine /\ key' = NL
  /\ err' = IF instruction \in {<<":", "q", "!">>, <<":", "w", "q">>} THEN 1 ELSE err
  /\ UNCHANGED <<mode, instruction, disk>>

Execute ==
  /\ LastLine /\ key' = NL
  /\ IF instruction = <<":", "w", "q">> THEN save_file ELSE UNCHANGED disk
  /\ err' = IF instruction \in {<<":", "q", "!">>, <<":", "w", "q">>} THEN 1 ELSE err
  /\ UNCHANGED <<mode, instruction>>

do_last_line_mode ==
  LeaveLine \/ RubLine \/ Execute \/ \E c \in {"w", "W", "q", "Q", "!"} : AppendLine(c)

myvi == err = 0 /\ (do_command_mode \/ do_insert_mode \/ do_last_line_mode)
-----------------------------------------------------------------------------
SessionTypeOK ==
  /\ size \in 1 .. BUFFER_SIZE
  /\ buffer \in [0 .. size - 1 -> Chars]
  /\ cursor_location \in 0 .. size
  /\ page_location \in 0 .. size - 1 /\ page_end \in 0 .. size
  /\ mode \in 0 .. 2 /\ err \in 0 .. 2

\* Every index of the session is inside its array: the last line in instruction and, while
\* the session is on, the cursor in the text, which ends with a newline.
InArrays ==
  /\ SessionTypeOK
  /\ Len(instruction) <= COLUMN_LEN
  /\ err = 0 => cursor_location < size /\ buffer[size - 1] = NL

\* BS at the beginning of the text (line 321), and a character for which the last line
\* has no room (line 359).
RubsOutAtStart == mode = 1 /\ key' = BS /\ cursor_location = 0
LineOverflows  == mode = 2 /\ key' \notin {ESC, BS, NL} /\ Len(instruction) = COLUMN_LEN

\* The keys whose handler does not look at the bound.
Unbounded == RubsOutAtStart \/ LineOverflows

\* A careful typist types neither of these keys, and keeps every line so short that a
\* page which begins with it shows it whole.
LineStarts(b, len) == {p \in 0 .. len - 1 : p = 0 \/ b[p - 1] = NL}
LinesFit(b, len) == \A p \in LineStarts(b, len) : LineEnd(b, len, p) < PageEnd(b, len, p)

Careful == ~Unbounded /\ LinesFit(buffer', size')

\* The keys of any typist.  What the program does after an index has left its array
\* depends on what lies there, and is not modelled.
MyviInit == myvi_init /\ careful = (err = 0 => LinesFit(buffer, size))

MyviNext == InArrays /\ myvi /\ careful' = (careful /\ Careful)

MyviSpec == MyviInit /\ [][MyviNext]_<<session, careful>>
-----------------------------------------------------------------------------
\* The rows that the line which starts at p takes.
Rows(p) == Drawn(buffer, size, p)[LineEnd(buffer, size, p)].row + 1

\* While the session is on and the typist careful, the cursor is never above the page; page_end is that of the
\* text and the page as they are, also after the keys that return without drawing; and in
\* a text whose lines take one row each the cursor is on the page: the one line that the
\* page moves after a key is enough. (Behind a longer line j can leave the page, and each
\* further command brings it a line nearer.)
CursorShown ==
  careful /\ err = 0 =>
    /\ page_location <= cursor_location
    /\ page_end = PageEnd(buffer, size, page_location)
    /\ (\A p \in LineStarts(buffer, size) : Rows(p) = 1) => cursor_location < page_end

\* For a careful typist a page begins where a line begins, whatever was deleted above it.
PageBeginsLine == careful /\ err = 0 => page_location \in LineStarts(buffer, size)

\* No other key takes an index of the session out of its array, whatever was typed
\* before: the text, the cursor, the page and the last line stay in theirs through every
\* sequence of keys, up to the end of a session in a full buffer.
LeavesOnlyUnbounded == [][InArrays' \/ Unbounded]_session

Part(from, to) == [i \in 1 .. to - from |-> buffer[from + i - 1]]

Edited == INSTANCE Text WITH
  Dropped <- {CR}, Newline <- NL, Rub <- BS, Escape <- ESC, Room <- BUFFER_SIZE - 1,
  left <- Part(0, cursor_location), right <- Part(cursor_location, size),
  file <- disk, open <- (err = 0), line <- instruction

\* The session is one of Text, key for key, as long as no index has left its array: a
\* character is typed where the cursor is and in insert mode only, no key changes anything
\* else, :wq writes the text over the file, and the session ends by :wq, by :q!, or by a
\* character for which the text has no room.
TextSpec == Edited!Init /\ [][Unbounded \/ Edited!Next]_(Edited!vars)
=============================================================================
