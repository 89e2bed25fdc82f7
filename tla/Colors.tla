------------------------------- MODULE Colors -------------------------------
(***************************************************************************)
(* console_color, the codes the ANSI module sends for it and the attribute *)
(* words of the Windows console.                                           *)
(***************************************************************************)
EXTENDS Integers, Sequences

\* console_color: a sum of the bits, or "the colour the console had".
Blue == 1
Green == 2
Red == 4
Intense == 8
Original == 16
ConsoleColors == 0 .. 15

White == Red + Green + Blue
Has(color, bit) == (color \div bit) % 2 = 1

\* color_attribute.
Attribute(foreground, background) == [fg |-> foreground, bg |-> background]
NoColor == Attribute(Original, Original)
Attributes == [fg : ConsoleColors \cup {Original}, bg : ConsoleColors \cup {Original}]

\* The colours of a level: color_message_formatter_base::get_color().
GetColor(level) ==
    << Attribute(White, Original),
       Attribute(Green + Blue, Original),
       Attribute(Green, Original),
       Attribute(Red + Green, Original),
       Attribute(Red, Original),
       Attribute(White + Intense, Red) >> [level + 1]

-----------------------------------------------------------------------------
(* The attribute word of the console: the foreground in the low four bits, *)
(* the background in the next four, red, green and blue as in              *)
(* console_color.                                                          *)

Words == 0 .. 255
Word(foreground, background) == foreground + 16 * background
ForegroundOf(word) == word % 16
BackgroundOf(word) == word \div 16

\* win32: map_color(), with the map of the foreground.
MapColor(color) ==
    (IF Has(color, Red) THEN 4 ELSE 0) + (IF Has(color, Blue) THEN 1 ELSE 0)
        + (IF Has(color, Green) THEN 2 ELSE 0) + (IF Has(color, Intense) THEN 8 ELSE 0)

\* win32: convert_to_machine_attribute(), given original_machine_attribute_.
ConvertToMachineAttribute(a, original) ==
    Word(IF a.fg # Original THEN MapColor(a.fg) ELSE ForegroundOf(original),
         IF a.bg # Original THEN MapColor(a.bg) ELSE BackgroundOf(original))

-----------------------------------------------------------------------------
(* The escape codes, by their SGR numbers.                                 *)

ResetCode == 0
ForegroundMap == <<30, 34, 32, 36, 31, 35, 33, 37, 90, 94, 92, 96, 91, 95, 93, 97>>
BackgroundMap == <<40, 44, 42, 46, 41, 45, 43, 47, 100, 104, 102, 106, 101, 105, 103, 107>>
ForegroundCode(color) == ForegroundMap[color + 1]
BackgroundCode(color) == BackgroundMap[color + 1]

\* The terminal's palette counts red as 1, green as 2 and blue as 4.
Palette(n) ==
    (IF n % 2 = 1 THEN Red ELSE 0) + (IF (n \div 2) % 2 = 1 THEN Green ELSE 0)
        + (IF (n \div 4) % 2 = 1 THEN Blue ELSE 0)

\* What a terminal that interprets code n makes of its attribute word.
Interpret(n, word, default) ==
    CASE n = ResetCode -> default
      [] n \in 30 .. 37 -> Word(Palette(n - 30), BackgroundOf(word))
      [] n \in 90 .. 97 -> Word(Palette(n - 90) + Intense, BackgroundOf(word))
      [] n \in 40 .. 47 -> Word(ForegroundOf(word), Palette(n - 40))
      [] n \in 100 .. 107 -> Word(ForegroundOf(word), Palette(n - 100) + Intense)

\* The word a text with attribute a is to be shown with.
Shown(a, default) ==
    Word(IF a.fg # Original THEN a.fg ELSE ForegroundOf(default),
         IF a.bg # Original THEN a.bg ELSE BackgroundOf(default))

-----------------------------------------------------------------------------
(* ansi: set_color_attribute(), from current_machine_attribute_ cur to a.  *)

ShouldReset(cur, a) ==
    \/ cur.fg # Original /\ a.fg = Original
    \/ cur.bg # Original /\ a.bg = Original

AnsiCodes(cur, a) ==
    LET from == IF ShouldReset(cur, a) THEN NoColor ELSE cur
    IN  (IF ShouldReset(cur, a) THEN <<ResetCode>> ELSE <<>>)
            \o (IF from.fg # a.fg THEN <<ForegroundCode(a.fg)>> ELSE <<>>)
            \o (IF from.bg # a.bg THEN <<BackgroundCode(a.bg)>> ELSE <<>>)
=============================================================================
