---------------------------- MODULE ConsoleProofs ----------------------------
(***************************************************************************)
(* Proofs about Colors and Console for any modules on one console, any     *)
(* messages and colours: texts appear whole and as formatted, no escape    *)
(* code is shown raw, and the console is given back as it was.  CInv is    *)
(* inductive: it says what the console will show once it has been passed   *)
(* what the stream's buffer still holds.                                   *)
(***************************************************************************)
EXTENDS Console, SequenceLemmas

-----------------------------------------------------------------------------
(* What is shown.                                                          *)

\* On an attached console that understands codes the items lead from the word
\* from to the word to, and each text is met with the word it wants.
ItemWord(it, u, v) ==
    IF it.code >= 0 THEN v = Interpret(it.code, u, DefaultWord)
                    ELSE v = u /\ it.want = u

WordPath(items, from, to) ==
    \E ws \in [1 .. Len(items) + 1 -> Words] :
        /\ ws[1] = from /\ ws[Len(items) + 1] = to
        /\ \A i \in 1 .. Len(items) : ItemWord(items[i], ws[i], ws[i + 1])

\* The last line of the console, whether or not it understands codes.
ItemLine(it, l) ==
    IF it.code >= 0 THEN l ELSE (IF Complete(l) THEN <<>> ELSE l) \o it.text

LinePath(items, from, to) ==
    \E ls :
        /\ ls = [i \in 1 .. Len(items) + 1 |-> ls[i]]
        /\ ls[1] = from /\ ls[Len(items) + 1] = to
        /\ \A i \in 1 .. Len(items) : ls[i + 1] = ItemLine(items[i], ls[i])

\* What is said about the stream's items: the codes it may hold, the texts, and
\* that each text is to be shown with a word.
Codes == {ResetCode} \cup (30 .. 37) \cup (40 .. 47) \cup (90 .. 97) \cup (100 .. 107)
Texts == {PlainText(t, x) : t \in MessageTypes, x \in Messages}
            \cup {TextParts(t, x)[i] : t \in MessageTypes, x \in Messages, i \in 1 .. 3}
            \cup {<<>>}
Items == [code : Codes \cup {-1}, text : Texts, want : Words, auto : BOOLEAN]

\* Amid a message a coloured module holds the mutex, and has coloured nothing
\* before the first part.
Amid == {"before", "color", "text", "after"}
Coloring == {"color", "text", "after"}

IsTerminal(t) ==
    /\ t = [attr |-> t.attr, line |-> t.line, wrong |-> t.wrong, raw |-> t.raw]
    /\ t.attr \in Words /\ t.wrong \in BOOLEAN /\ t.raw \in BOOLEAN

Types ==
    /\ TypeOK
    /\ setup \in SetupType
    /\ buffer \in Seq(Items)
    /\ IsTerminal(terminal)
    /\ disturbed \in BOOLEAN /\ disorder \in BOOLEAN

\* The mutex is held amid a coloured message, and only then.
MutexInv ==
    /\ \A m \in Modules : mutex = m <=> pc[m] \in Amid
    /\ \A m \in Modules : pc[m] \in Amid => Colored(m)
    /\ \A m \in Modules : pc[m] = "write" => ~Colored(m)
    /\ \A m \in Modules : pc[m] \in Amid \cup {"write"} => msg[m] \in Messages
    /\ \A m \in Modules : pc[m] \notin Coloring => part[m] = 1

\* A module past its constructor parses colours as its mode and stream say.
Living(m) == pc[m] \notin {"none", "probed", "gone"}

ModeInv ==
    \A m \in Modules : Living(m) =>
        /\ canParse[m] = (Colored(m) /\ setup.attached)
        /\ enable[m] = (Colored(m) /\ Parses(m, mode[m], canParse[m]))

\* The living ANSI modules keep the console's mode on; the first one has found
\* the original mode, the others the one the first has set.
Found(on) == IF on THEN 1 ELSE 0

OrderedInv ==
    /\ Distinct(order)
    /\ \A m \in Modules : m \in ToSet(order) <=> Living(m) /\ Kind(m) = "ansi"

ModeKept ==
    ~disorder =>
        /\ \A k, m \in Modules : Probing(k) /\ Probing(m) => k = m
        /\ vt = (setup.vt \/ (setup.attached /\ order # <<>>))
        /\ \A i \in 1 .. Len(order) : original[order[i]] = Found(setup.vt \/ (setup.attached /\ i > 1))
        /\ \A m \in Modules : Probing(m) => original[m] = Found(vt)

\* The stream holds something only while there is a module to flush it; its
\* codes are understood.
BufferInv ==
    /\ buffer # <<>> => \E m \in Modules : Living(m)
    /\ ~disorder => \A i \in 1 .. Len(buffer) :
          buffer[i].code >= 0 => (setup.attached => vt) /\ (buffer[i].auto => setup.attached)

\* The ANSI module knows the colours it has set.
CurrentInv ==
    ~disturbed => \A m \in Modules : Kind(m) = "ansi" =>
        /\ ~ (pc[m] \in Coloring /\ enable[m]) => current[m] = NoColor
        /\ pc[m] = "text" /\ enable[m] => current[m] = PartColor(m)

\* The win32 module has read the console's own colours, and knows those it set.
WordInv ==
    ColorsHold /\ setup.attached => \A m \in Modules :
        Kind(m) = "win32" /\ enable[m] =>
            /\ pc[m] \in Coloring => original[m] = DefaultWord
            /\ pc[m] = "text" => word[m] = Shown(PartColor(m), DefaultWord)

\* The word the console has when it has been shown what the stream holds.
Expected ==
    IF mutex = Nobody THEN DefaultWord
    ELSE IF ~enable[mutex] \/ pc[mutex] = "before" THEN DefaultWord
    ELSE IF Kind(mutex) = "ansi" THEN Shown(current[mutex], DefaultWord)
    ELSE word[mutex]

ColorInv ==
    /\ ~setup.attached => terminal.attr = DefaultWord /\ ~terminal.wrong
    /\ ColorsHold /\ setup.attached => ~terminal.wrong /\ WordPath(buffer, terminal.attr, Expected)

\* The line it then has: of the message in progress what has been written, or
\* a whole message.
Fresh(l) == l = <<>> \/ \E x \in Messages : l = PlainText(setup.type, x)

Started(m, l) ==
    LET parts == TextParts(setup.type, msg[m])
    IN  IF pc[m] = "after" THEN l = PlainText(setup.type, msg[m])
        ELSE /\ part[m] = 1 => Fresh(l)
             /\ part[m] = 2 => l = parts[1]
             /\ part[m] = 3 => l = parts[1] \o parts[2]

ExpectedLine(l) == IF mutex = Nobody THEN Fresh(l) ELSE Started(mutex, l)

LineInv ==
    ~Uses("stream") =>
        /\ terminal.line = <<>> \/ \E x \in Messages : IsPrefix(terminal.line, PlainText(setup.type, x))
        /\ \E l : LinePath(buffer, terminal.line, l) /\ ExpectedLine(l)

CInv ==
    /\ Types /\ MutexInv /\ ModeInv /\ OrderedInv /\ ModeKept /\ BufferInv
    /\ AutomaticIsClean /\ CurrentInv /\ WordInv /\ ColorInv /\ LineInv

-----------------------------------------------------------------------------
(* The colours.                                                            *)

USE DEF Blue, Green, Red, Intense, Original, ConsoleColors

\* The two halves of an attribute word are its two colours.
LEMMA WordHalves ==
    ASSUME NEW f \in ConsoleColors, NEW b \in ConsoleColors
    PROVE  Word(f, b) \in Words /\ ForegroundOf(Word(f, b)) = f /\ BackgroundOf(Word(f, b)) = b
BY DEF Word, Words, ForegroundOf, BackgroundOf

LEMMA HalvesOfWord ==
    ASSUME NEW w \in Words
    PROVE  ForegroundOf(w) \in ConsoleColors /\ BackgroundOf(w) \in ConsoleColors
           /\ w = Word(ForegroundOf(w), BackgroundOf(w))
BY DEF Word, Words, ForegroundOf, BackgroundOf

\* A colour is the sum of the bits it has.
LEMMA BitsOfColor ==
    ASSUME NEW c \in ConsoleColors
    PROVE  MapColor(c) = c
<1>1. c \in {0, 1, 2, 3, 4, 5, 6, 7, 8, 9, 10, 11, 12, 13, 14, 15}
  OBVIOUS
<1>2. QED
  BY <1>1 DEF MapColor, Has

\* What is shown is the original colour wherever none is asked for: SetConsole()
\* of the win32 module sets the word that is to be shown
\* (win32_color_console_module.hpp:140).
THEOREM Win32Shows ==
    \A a \in Attributes, w \in Words : ConvertToMachineAttribute(a, w) = Shown(a, w)
<1>1. \A c \in ConsoleColors : MapColor(c) = c
  BY BitsOfColor
<1>2. QED
  BY <1>1 DEF ConvertToMachineAttribute, Shown, Attributes

\* A code of the foreground map changes the foreground, one of the background
\* map the background.
LEMMA ForegroundCodes ==
    ASSUME NEW c \in ConsoleColors, NEW w \in Words, NEW d \in Words
    PROVE  Interpret(ForegroundCode(c), w, d) = Word(c, BackgroundOf(w))
<1>1. c \in {0, 1, 2, 3, 4, 5, 6, 7, 8, 9, 10, 11, 12, 13, 14, 15}
  OBVIOUS
<1>2. ForegroundCode(c) \in 30 .. 37 => Palette(ForegroundCode(c) - 30) = c
  BY <1>1 DEF ForegroundCode, ForegroundMap, Palette
<1>3. ForegroundCode(c) \in 90 .. 97 => Palette(ForegroundCode(c) - 90) + Intense = c
  BY <1>1 DEF ForegroundCode, ForegroundMap, Palette
<1>4. ForegroundCode(c) \in 30 .. 37 \/ ForegroundCode(c) \in 90 .. 97
  BY <1>1 DEF ForegroundCode, ForegroundMap
<1>5. QED
  BY <1>2, <1>3, <1>4 DEF Interpret, ResetCode

LEMMA BackgroundCodes ==
    ASSUME NEW c \in ConsoleColors, NEW w \in Words, NEW d \in Words
    PROVE  Interpret(BackgroundCode(c), w, d) = Word(ForegroundOf(w), c)
<1>1. c \in {0, 1, 2, 3, 4, 5, 6, 7, 8, 9, 10, 11, 12, 13, 14, 15}
  OBVIOUS
<1>2. BackgroundCode(c) \in 40 .. 47 => Palette(BackgroundCode(c) - 40) = c
  BY <1>1 DEF BackgroundCode, BackgroundMap, Palette
<1>3. BackgroundCode(c) \in 100 .. 107 => Palette(BackgroundCode(c) - 100) + Intense = c
  BY <1>1 DEF BackgroundCode, BackgroundMap, Palette
<1>4. BackgroundCode(c) \in 40 .. 47 \/ BackgroundCode(c) \in 100 .. 107
  BY <1>1 DEF BackgroundCode, BackgroundMap
<1>5. QED
  BY <1>2, <1>3, <1>4 DEF Interpret, ResetCode

-----------------------------------------------------------------------------
(* The codes from one attribute to the next.                               *)

\* The word the terminal has after each code.
Interprets(ws, codes, d) ==
    \A i \in 1 .. Len(codes) : ws[i + 1] = Interpret(codes[i], ws[i], d)

Reaches(codes, from, to, d) ==
    \E ws \in [1 .. Len(codes) + 1 -> Words] :
        ws[1] = from /\ Interprets(ws, codes, d) /\ ws[Len(codes) + 1] = to

LEMMA NoCode == ASSUME NEW w \in Words, NEW d \in Words PROVE Reaches(<<>>, w, w, d)
<1>1. <<w>> \in [1 .. 1 -> Words] /\ <<w>>[1] = w
  OBVIOUS
<1>2. QED
  BY <1>1 DEF Reaches, Interprets

LEMMA OneCode ==
    ASSUME NEW c, NEW w \in Words, NEW d \in Words, Interpret(c, w, d) \in Words
    PROVE  Reaches(<<c>>, w, Interpret(c, w, d), d)
<1>1. DEFINE ws == <<w, Interpret(c, w, d)>>
<1>2. ws \in [1 .. 2 -> Words] /\ ws[1] = w /\ ws[2] = Interpret(c, w, d)
  OBVIOUS
<1>3. QED
  BY <1>2 DEF Reaches, Interprets

\* Codes one after the other.
LEMMA MoreCodes ==
    ASSUME NEW S, NEW p \in Seq(S), NEW q \in Seq(S), NEW d \in Words, NEW u, NEW v, NEW w,
           Reaches(p, u, v, d), Reaches(q, v, w, d)
    PROVE  Reaches(p \o q, u, w, d)
<1>1. Len(p) \in Nat /\ Len(q) \in Nat /\ Len(p \o q) = Len(p) + Len(q)
  OBVIOUS
<1>2. PICK ps \in [1 .. Len(p) + 1 -> Words] :
         ps[1] = u /\ Interprets(ps, p, d) /\ ps[Len(p) + 1] = v
  BY DEF Reaches
<1>3. PICK qs \in [1 .. Len(q) + 1 -> Words] :
         qs[1] = v /\ Interprets(qs, q, d) /\ qs[Len(q) + 1] = w
  BY DEF Reaches
<1>4. PICK ws : ws = [i \in 1 .. Len(p \o q) + 1 |-> IF i <= Len(p) THEN ps[i] ELSE qs[i - Len(p)]]
  OBVIOUS
<1>5. ws \in [1 .. Len(p \o q) + 1 -> Words]
  BY <1>1, <1>2, <1>3, <1>4
<1>6. ws[1] = u /\ ws[Len(p \o q) + 1] = w
  BY <1>1, <1>2, <1>3, <1>4
<1>7. ASSUME NEW i \in 1 .. Len(p \o q)
      PROVE  ws[i + 1] = Interpret((p \o q)[i], ws[i], d)
  <2>1. CASE i < Len(p)
    <3>1. i \in 1 .. Len(p) /\ (p \o q)[i] = p[i] /\ ws[i] = ps[i] /\ ws[i + 1] = ps[i + 1]
      BY <1>1, <1>4, <2>1
    <3>2. QED
      BY <1>2, <3>1 DEF Interprets
  <2>2. CASE i = Len(p)
    <3>1. i \in 1 .. Len(p) /\ (p \o q)[i] = p[i] /\ ws[i] = ps[i]
      BY <1>1, <1>4, <2>2
    <3>2. ws[i + 1] = ps[i + 1]
      BY <1>1, <1>2, <1>3, <1>4, <2>2
    <3>3. QED
      BY <1>2, <3>1, <3>2 DEF Interprets
  <2>3. CASE i > Len(p)
    <3>1. i - Len(p) \in 1 .. Len(q) /\ (p \o q)[i] = q[i - Len(p)] /\ ws[i] = qs[i - Len(p)]
      BY <1>1, <1>4, <2>3
    <3>2. ws[i + 1] = qs[(i - Len(p)) + 1]
      BY <1>1, <1>4, <2>3
    <3>3. QED
      BY <1>3, <3>1, <3>2 DEF Interprets
  <2>4. QED
    BY <1>1, <2>1, <2>2, <2>3
<1>8. QED
  BY <1>5, <1>6, <1>7 DEF Reaches, Interprets

\* The ANSI module sends the codes that lead from the colours of the text
\* before to those of the next, and none where they are the same
\* (ansi_color_console_module.hpp:236).
THEOREM AnsiShows ==
    \A cur, a \in Attributes, d \in Words :
        Reaches(AnsiCodes(cur, a), Shown(cur, d), Shown(a, d), d)
<1>1. SUFFICES ASSUME NEW cur \in Attributes, NEW a \in Attributes, NEW d \in Words
               PROVE  Reaches(AnsiCodes(cur, a), Shown(cur, d), Shown(a, d), d)
  OBVIOUS
<1> DEFINE from == IF ShouldReset(cur, a) THEN NoColor ELSE cur
           reset == IF ShouldReset(cur, a) THEN <<ResetCode>> ELSE <<>>
           fore == IF from.fg # a.fg THEN <<ForegroundCode(a.fg)>> ELSE <<>>
           back == IF from.bg # a.bg THEN <<BackgroundCode(a.bg)>> ELSE <<>>
           middle == Attribute(a.fg, from.bg)
<1>2. /\ from \in Attributes /\ middle \in Attributes
      /\ cur.fg \in ConsoleColors \cup {Original} /\ cur.bg \in ConsoleColors \cup {Original}
      /\ a.fg \in ConsoleColors \cup {Original} /\ a.bg \in ConsoleColors \cup {Original}
  BY DEF Attributes, NoColor, Attribute
<1>3. \A b \in Attributes : Shown(b, d) \in Words
  <2>1. SUFFICES ASSUME NEW b \in Attributes
                 PROVE  Shown(b, d) \in Words
    OBVIOUS
  <2>2. PICK f \in ConsoleColors, g \in ConsoleColors : Shown(b, d) = Word(f, g)
    BY HalvesOfWord DEF Shown, Attributes
  <2>3. QED
    BY <2>2, WordHalves
<1>4. Shown(NoColor, d) = d
  BY HalvesOfWord DEF Shown, NoColor, Attribute
<1>5. Reaches(reset, Shown(cur, d), Shown(from, d), d)
  <2>1. CASE ShouldReset(cur, a)
    <3>1. Interpret(ResetCode, Shown(cur, d), d) = d
      BY DEF Interpret, ResetCode
    <3>2. QED
      BY <1>2, <1>3, <1>4, <2>1, <3>1, OneCode
  <2>2. CASE ~ShouldReset(cur, a)
    BY <1>2, <1>3, <2>2, NoCode
  <2>3. QED
    BY <2>1, <2>2
<1>6. Reaches(fore, Shown(from, d), Shown(middle, d), d)
  <2>1. CASE from.fg # a.fg
    <3>1. a.fg \in ConsoleColors
      BY <1>2, <2>1 DEF ShouldReset, NoColor, Attribute
    <3>2. Interpret(ForegroundCode(a.fg), Shown(from, d), d) = Word(a.fg, BackgroundOf(Shown(from, d)))
      BY <1>2, <1>3, <3>1, ForegroundCodes
    <3>3. PICK f \in ConsoleColors, g \in ConsoleColors :
             /\ Shown(from, d) = Word(f, g)
             /\ g = IF from.bg # Original THEN from.bg ELSE BackgroundOf(d)
      BY <1>2, HalvesOfWord DEF Shown, Attributes
    <3>4. BackgroundOf(Shown(from, d)) = g
      BY <3>3, WordHalves
    <3>5. Shown(middle, d) = Word(a.fg, g)
      BY <3>1, <3>3 DEF Shown, Attribute
    <3>6. QED
      BY <1>2, <1>3, <2>1, <3>2, <3>4, <3>5, OneCode
  <2>2. CASE from.fg = a.fg
    <3>1. middle = from
      BY <1>2, <2>2 DEF Attribute, Attributes
    <3>2. QED
      BY <1>2, <1>3, <2>2, <3>1, NoCode
  <2>3. QED
    BY <2>1, <2>2
<1>7. Reaches(back, Shown(middle, d), Shown(a, d), d)
  <2>1. CASE from.bg # a.bg
    <3>1. a.bg \in ConsoleColors
      BY <1>2, <2>1 DEF ShouldReset, NoColor, Attribute
    <3>2. Interpret(BackgroundCode(a.bg), Shown(middle, d), d) = Word(ForegroundOf(Shown(middle, d)), a.bg)
      BY <1>2, <1>3, <3>1, BackgroundCodes
    <3>3. PICK f \in ConsoleColors, g \in ConsoleColors :
             /\ Shown(middle, d) = Word(f, g)
             /\ f = IF a.fg # Original THEN a.fg ELSE ForegroundOf(d)
      BY <1>2, HalvesOfWord DEF Shown, Attributes, Attribute
    <3>4. ForegroundOf(Shown(middle, d)) = f
      BY <3>3, WordHalves
    <3>5. Shown(a, d) = Word(f, a.bg)
      BY <3>1, <3>3 DEF Shown
    <3>6. QED
      BY <1>2, <1>3, <2>1, <3>2, <3>4, <3>5, OneCode
  <2>2. CASE from.bg = a.bg
    <3>1. middle = a
      BY <1>2, <2>2 DEF Attribute, Attributes
    <3>2. QED
      BY <1>2, <1>3, <2>2, <3>1, NoCode
  <2>3. QED
    BY <2>1, <2>2
<1>8. /\ reset \in Seq(Int) /\ fore \in Seq(Int) /\ back \in Seq(Int)
      /\ AnsiCodes(cur, a) = (reset \o fore) \o back
  <2>1. \A c \in ConsoleColors : ForegroundCode(c) \in Int /\ BackgroundCode(c) \in Int
    BY DEF ForegroundCode, ForegroundMap, BackgroundCode, BackgroundMap
  <2>2. (from.fg # a.fg => a.fg \in ConsoleColors) /\ (from.bg # a.bg => a.bg \in ConsoleColors)
    BY <1>2 DEF ShouldReset, NoColor, Attribute
  <2>3. QED
    BY <2>1, <2>2 DEF AnsiCodes, ResetCode
<1> HIDE DEF from, reset, fore, back, middle
<1>9. reset \o fore \in Seq(Int) /\ Reaches(reset \o fore, Shown(cur, d), Shown(middle, d), d)
  BY <1>5, <1>6, <1>8, MoreCodes
<1>10. QED
  BY <1>7, <1>8, <1>9, MoreCodes

-----------------------------------------------------------------------------
(* Paths through items.                                                    *)

\* Nothing is shown.
LEMMA NoItem ==
    /\ \A w \in Words : WordPath(<<>>, w, w)
    /\ \A l : LinePath(<<>>, l, l)
    /\ \A u, v : WordPath(<<>>, u, v) => u = v
    /\ \A k, l : LinePath(<<>>, k, l) => k = l
<1>1. Len(<<>>) = 0 /\ 1 .. 0 = {}
  BY EmptySeq
<1>2. ASSUME NEW w \in Words
      PROVE  WordPath(<<>>, w, w)
  <2>1. PICK ws : ws = <<w>>
    OBVIOUS
  <2>2. ws \in [1 .. 1 -> Words] /\ ws[1] = w
    BY <2>1
  <2>3. QED
    BY <1>1, <2>2 DEF WordPath
<1>3. ASSUME NEW l
      PROVE  LinePath(<<>>, l, l)
  <2>1. PICK ls : ls = [i \in 1 .. 1 |-> l]
    OBVIOUS
  <2>2. ls[1] = l /\ ls = [i \in 1 .. 1 |-> ls[i]]
    BY <2>1
  <2>3. QED
    BY <1>1, <2>2 DEF LinePath
<1>4. QED
  BY <1>1, <1>2, <1>3 DEF WordPath, LinePath

\* One item is shown.
LEMMA OneItem ==
    ASSUME NEW it
    PROVE  /\ \A u, v \in Words : ItemWord(it, u, v) => WordPath(<<it>>, u, v)
           /\ \A l : LinePath(<<it>>, l, ItemLine(it, l))
<1>1. Len(<<it>>) = 1 /\ <<it>>[1] = it
  OBVIOUS
<1>2. ASSUME NEW u \in Words, NEW v \in Words, ItemWord(it, u, v)
      PROVE  WordPath(<<it>>, u, v)
  <2>1. PICK ws : ws = <<u, v>>
    OBVIOUS
  <2>2. ws \in [1 .. 2 -> Words] /\ ws[1] = u /\ ws[2] = v
    BY <2>1
  <2>3. QED
    BY <1>1, <1>2, <2>2 DEF WordPath
<1>3. ASSUME NEW l
      PROVE  LinePath(<<it>>, l, ItemLine(it, l))
  <2>1. PICK k : k = ItemLine(it, l)
    OBVIOUS
  <2>2. PICK ls : ls = [i \in 1 .. 2 |-> IF i = 1 THEN l ELSE k]
    OBVIOUS
  <2>3. ls[1] = l /\ ls[2] = k /\ ls = [i \in 1 .. 2 |-> ls[i]]
    BY <2>2
  <2>4. QED
    BY <1>1, <2>1, <2>3 DEF LinePath
<1>4. QED
  BY <1>2, <1>3

\* Items are shown after others: the i-th of both together.
LEMMA ItemOf ==
    ASSUME NEW p \in Seq(Items), NEW q \in Seq(Items)
    PROVE  /\ Len(p) \in Nat /\ Len(q) \in Nat /\ p \o q \in Seq(Items) /\ Len(p \o q) = Len(p) + Len(q)
           /\ \A i \in 1 .. Len(p) : (p \o q)[i] = p[i]
           /\ \A i \in Len(p) + 1 .. Len(p) + Len(q) : i - Len(p) \in 1 .. Len(q) /\ (p \o q)[i] = q[i - Len(p)]
<1>1. /\ Len(p) \in Nat /\ Len(q) \in Nat /\ p \o q \in Seq(Items) /\ Len(p \o q) = Len(p) + Len(q)
      /\ \A i \in 1 .. Len(p) + Len(q) : (p \o q)[i] = IF i <= Len(p) THEN p[i] ELSE q[i - Len(p)]
  BY LenProperties, ConcatProperties
<1>2. \A i \in 1 .. Len(p) : i \in 1 .. Len(p) + Len(q) /\ i <= Len(p)
  BY <1>1
<1>3. \A i \in Len(p) + 1 .. Len(p) + Len(q) :
         i \in 1 .. Len(p) + Len(q) /\ ~ (i <= Len(p)) /\ i - Len(p) \in 1 .. Len(q)
  BY <1>1
<1>4. QED
  BY <1>1, <1>2, <1>3

\* A function on 1 .. n + 1 followed by one on 1 .. k + 1 that starts where the
\* first ends.
Joins(h, f, g, n, k) ==
    /\ h = [i \in 1 .. n + k + 1 |-> h[i]]
    /\ \A i \in 1 .. n + 1 : h[i] = f[i]
    /\ \A i \in n + 1 .. n + k + 1 : h[i] = g[i - n]

LEMMA Joined ==
    ASSUME NEW n \in Nat, NEW k \in Nat, NEW f, NEW g, NEW v, f[n + 1] = v, g[1] = v
    PROVE  \E h : Joins(h, f, g, n, k)
<1>1. PICK h : h = [i \in 1 .. n + k + 1 |-> IF i <= n THEN f[i] ELSE g[i - n]]
  OBVIOUS
<1>2. \A i \in 1 .. n + k + 1 : h[i] = IF i <= n THEN f[i] ELSE g[i - n]
  BY <1>1
<1>3. h = [i \in 1 .. n + k + 1 |-> h[i]]
  BY <1>1
<1>4. ASSUME NEW i \in 1 .. n + 1
      PROVE  h[i] = f[i]
  <2>1. CASE i <= n
    <3>1. i \in 1 .. n + k + 1
      OBVIOUS
    <3>2. QED
      BY <1>2, <2>1, <3>1
  <2>2. CASE i = n + 1
    <3>1. i \in 1 .. n + k + 1 /\ ~ (i <= n) /\ i - n = 1
      BY <2>2
    <3>2. h[i] = g[1]
      BY <1>2, <3>1
    <3>3. QED
      BY <2>2, <3>2
  <2>3. QED
    BY <2>1, <2>2
<1>5. ASSUME NEW i \in n + 1 .. n + k + 1
      PROVE  h[i] = g[i - n]
  <2>1. i \in 1 .. n + k + 1 /\ ~ (i <= n)
    OBVIOUS
  <2>2. QED
    BY <1>2, <2>1
<1>6. QED
  BY <1>3, <1>4, <1>5 DEF Joins

LEMMA WordConcat ==
    ASSUME NEW p \in Seq(Items), NEW q \in Seq(Items), NEW u, NEW v, NEW w,
           WordPath(p, u, v), WordPath(q, v, w)
    PROVE  WordPath(p \o q, u, w)
<1>1. PICK n \in Nat, k \in Nat : n = Len(p) /\ k = Len(q)
  BY ItemOf
<1>2. PICK r : r = p \o q
  OBVIOUS
<1>3. /\ Len(r) = n + k
      /\ \A i \in 1 .. n : r[i] = p[i]
      /\ \A i \in n + 1 .. n + k : i - n \in 1 .. k /\ r[i] = q[i - n]
  BY <1>1, <1>2, ItemOf
<1>4. PICK f \in [1 .. n + 1 -> Words] :
         /\ f[1] = u /\ f[n + 1] = v
         /\ \A i \in 1 .. n : ItemWord(p[i], f[i], f[i + 1])
  BY <1>1 DEF WordPath
<1>5. PICK g \in [1 .. k + 1 -> Words] :
         /\ g[1] = v /\ g[k + 1] = w
         /\ \A i \in 1 .. k : ItemWord(q[i], g[i], g[i + 1])
  BY <1>1 DEF WordPath
<1>6. PICK h : Joins(h, f, g, n, k)
  <2>1. f[n + 1] = v /\ g[1] = v
    BY <1>4, <1>5
  <2>2. QED
    BY <2>1, Joined
<1>7. \A i \in 1 .. n + k + 1 : h[i] \in Words
  <2>1. \A i \in n + 1 .. n + k + 1 : i - n \in 1 .. k + 1
    OBVIOUS
  <2>2. \A i \in 1 .. n + k + 1 : i \in 1 .. n + 1 \/ i \in n + 1 .. n + k + 1
    OBVIOUS
  <2>3. QED
    BY <1>4, <1>5, <1>6, <2>1, <2>2 DEF Joins
<1>8. h[1] = u /\ h[n + k + 1] = w
  <2>1. 1 \in 1 .. n + 1 /\ n + k + 1 \in n + 1 .. n + k + 1 /\ (n + k + 1) - n = k + 1
    OBVIOUS
  <2>2. h[1] = f[1]
    BY <1>6, <2>1 DEF Joins
  <2>3. h[n + k + 1] = g[(n + k + 1) - n]
    BY <1>6, <2>1 DEF Joins
  <2>4. QED
    BY <1>4, <1>5, <2>1, <2>2, <2>3
<1>9. ASSUME NEW i \in 1 .. n + k
      PROVE  ItemWord(r[i], h[i], h[i + 1])
  <2>1. CASE i <= n
    <3>1. i \in 1 .. n /\ i \in 1 .. n + 1 /\ i + 1 \in 1 .. n + 1
      BY <2>1
    <3>2. QED
      BY <1>3, <1>4, <1>6, <3>1 DEF Joins
  <2>2. CASE ~ (i <= n)
    <3>1. /\ i \in n + 1 .. n + k /\ i \in n + 1 .. n + k + 1 /\ i + 1 \in n + 1 .. n + k + 1
          /\ (i + 1) - n = (i - n) + 1
      BY <2>2
    <3>2. QED
      BY <1>3, <1>5, <1>6, <3>1 DEF Joins
  <2>3. QED
    BY <2>1, <2>2
<1>10. h \in [1 .. n + k + 1 -> Words]
  BY <1>6, <1>7 DEF Joins
<1>11. WordPath(r, u, w)
  BY <1>3, <1>8, <1>9, <1>10 DEF WordPath
<1>12. QED
  BY <1>2, <1>11

LEMMA LineConcat ==
    ASSUME NEW p \in Seq(Items), NEW q \in Seq(Items), NEW u, NEW v, NEW w,
           LinePath(p, u, v), LinePath(q, v, w)
    PROVE  LinePath(p \o q, u, w)
<1>1. PICK n \in Nat, k \in Nat : n = Len(p) /\ k = Len(q)
  BY ItemOf
<1>2. PICK r : r = p \o q
  OBVIOUS
<1>3. /\ Len(r) = n + k
      /\ \A i \in 1 .. n : r[i] = p[i]
      /\ \A i \in n + 1 .. n + k : i - n \in 1 .. k /\ r[i] = q[i - n]
  BY <1>1, <1>2, ItemOf
<1>4. PICK f :
         /\ f[1] = u /\ f[n + 1] = v
         /\ \A i \in 1 .. n : f[i + 1] = ItemLine(p[i], f[i])
  BY <1>1 DEF LinePath
<1>5. PICK g :
         /\ g[1] = v /\ g[k + 1] = w
         /\ \A i \in 1 .. k : g[i + 1] = ItemLine(q[i], g[i])
  BY <1>1 DEF LinePath
<1>6. PICK h : Joins(h, f, g, n, k)
  <2>1. f[n + 1] = v /\ g[1] = v
    BY <1>4, <1>5
  <2>2. QED
    BY <2>1, Joined
<1>8. h[1] = u /\ h[n + k + 1] = w
  <2>1. 1 \in 1 .. n + 1 /\ n + k + 1 \in n + 1 .. n + k + 1 /\ (n + k + 1) - n = k + 1
    OBVIOUS
  <2>2. h[1] = f[1]
    BY <1>6, <2>1 DEF Joins
  <2>3. h[n + k + 1] = g[(n + k + 1) - n]
    BY <1>6, <2>1 DEF Joins
  <2>4. QED
    BY <1>4, <1>5, <2>1, <2>2, <2>3
<1>9. ASSUME NEW i \in 1 .. n + k
      PROVE  h[i + 1] = ItemLine(r[i], h[i])
  <2>1. CASE i <= n
    <3>1. i \in 1 .. n /\ i \in 1 .. n + 1 /\ i + 1 \in 1 .. n + 1
      BY <2>1
    <3>2. QED
      BY <1>3, <1>4, <1>6, <3>1 DEF Joins
  <2>2. CASE ~ (i <= n)
    <3>1. /\ i \in n + 1 .. n + k /\ i \in n + 1 .. n + k + 1 /\ i + 1 \in n + 1 .. n + k + 1
          /\ (i + 1) - n = (i - n) + 1
      BY <2>2
    <3>2. QED
      BY <1>3, <1>5, <1>6, <3>1 DEF Joins
  <2>3. QED
    BY <2>1, <2>2
<1>10. n + k + 1 = Len(r) + 1
  BY <1>3
<1>11. LinePath(r, u, w)
  <2>1. /\ h = [i \in 1 .. Len(r) + 1 |-> h[i]]
        /\ h[1] = u /\ h[Len(r) + 1] = w
        /\ \A i \in 1 .. Len(r) : h[i + 1] = ItemLine(r[i], h[i])
    BY <1>3, <1>6, <1>8, <1>9, <1>10 DEF Joins
  <2>2. QED
    BY <2>1 DEF LinePath
<1>12. QED
  BY <1>2, <1>11

-----------------------------------------------------------------------------
(* ShowAll().                                                              *)

\* What ShowAll() computes for the first n items.
ShownAt(f, t, items, n) == IF n = 0 THEN t ELSE Show(f[n - 1], items[n])

Shows(f, t, items, N) == f = [n \in 0 .. N |-> ShownAt(f, t, items, n)]

\* The recursion of ShowAll() defines a function.
LEMMA ShowsExists ==
    ASSUME NEW t, NEW items, NEW N \in Nat
    PROVE  \E f : Shows(f, t, items, N)
<1> DEFINE I == {n \in Nat : \E f : Shows(f, t, items, n)}
<1>1. 0 \in I
  <2> DEFINE f == [n \in 0 .. 0 |-> t]
  <2>1. \A n \in 0 .. 0 : ShownAt(f, t, items, n) = t
    BY DEF ShownAt
  <2>2. Shows(f, t, items, 0)
    BY <2>1 DEF Shows
  <2>3. QED
    BY <2>2
<1>2. ASSUME NEW n \in Nat, n \in I
      PROVE  n + 1 \in I
  <2>1. PICK f : Shows(f, t, items, n)
    BY <1>2
  <2> DEFINE last == ShownAt(f, t, items, n + 1)
             g == [k \in 0 .. n + 1 |-> IF k = n + 1 THEN last ELSE f[k]]
  <2>2. \A k \in 0 .. n : f[k] = ShownAt(f, t, items, k)
    BY <2>1 DEF Shows
  <2>3. /\ \A k \in 0 .. n : k \in 0 .. n + 1 /\ k # n + 1
        /\ n + 1 \in 0 .. n + 1
        /\ \A k \in 0 .. n + 1 : k \in 0 .. n \/ k = n + 1
        /\ \A k \in 0 .. n + 1 : k # 0 => k - 1 \in 0 .. n
    OBVIOUS
  <2>4. (\A k \in 0 .. n : g[k] = f[k]) /\ g[n + 1] = last
    BY <2>3
  <2>5. \A k \in 0 .. n + 1 : ShownAt(g, t, items, k) = ShownAt(f, t, items, k)
    <3> HIDE DEF g
    <3>1. QED
      BY <2>3, <2>4 DEF ShownAt
  <2>6. \A k \in 0 .. n + 1 : g[k] = ShownAt(g, t, items, k)
    <3> HIDE DEF g
    <3>1. QED
      BY <2>2, <2>3, <2>4, <2>5
  <2>7. g = [k \in 0 .. n + 1 |-> g[k]]
    OBVIOUS
  <2> HIDE DEF g
  <2>8. Shows(g, t, items, n + 1)
    BY <2>6, <2>7 DEF Shows
  <2>9. QED
    BY <2>8
<1> HIDE DEF I
<1>3. Nat \subseteq I
  BY <1>1, <1>2, NatInduct
<1>4. QED
  BY <1>3 DEF I

\* ShowAll() by its steps.
LEMMA ShowAllSteps ==
    ASSUME NEW t, NEW items \in Seq(Items)
    PROVE  \E f : /\ f[0] = t
                  /\ \A n \in 1 .. Len(items) : f[n] = Show(f[n - 1], items[n])
                  /\ ShowAll(t, items) = f[Len(items)]
<1> DEFINE K == CHOOSE f : Shows(f, t, items, Len(items))
<1>1. Len(items) \in Nat
  BY LenProperties
<1>2. Shows(K, t, items, Len(items))
  BY <1>1, ShowsExists
<1>3. ShowAll(t, items) = K[Len(items)]
  BY DEF ShowAll, Shows, ShownAt
<1>4. PICK f : f = K
  OBVIOUS
<1>5. \A n \in 0 .. Len(items) : f[n] = ShownAt(f, t, items, n)
  <2>1. Shows(f, t, items, Len(items))
    BY <1>2, <1>4
  <2>2. QED
    BY <2>1 DEF Shows
<1>6. f[0] = t
  <2>1. 0 \in 0 .. Len(items)
    BY <1>1
  <2>2. QED
    BY <1>5, <2>1 DEF ShownAt
<1>7. ASSUME NEW n \in 1 .. Len(items)
      PROVE  f[n] = Show(f[n - 1], items[n])
  <2>1. n \in 0 .. Len(items) /\ n # 0
    OBVIOUS
  <2>2. QED
    BY <1>5, <2>1 DEF ShownAt
<1>8. QED
  BY <1>3, <1>4, <1>6, <1>7

\* A code leaves the console with a word.
LEMMA InterpretWord ==
    ASSUME NEW n \in Codes, NEW w \in Words, NEW d \in Words
    PROVE  Interpret(n, w, d) \in Words
<1>1. ForegroundOf(w) \in ConsoleColors /\ BackgroundOf(w) \in ConsoleColors
  BY HalvesOfWord
<1>2. CASE n = ResetCode
  BY <1>2 DEF Interpret, ResetCode
<1>3. ASSUME NEW k \in 0 .. 7
      PROVE  Palette(k) \in ConsoleColors /\ Palette(k) + Intense \in ConsoleColors
  BY DEF Palette
<1>4. CASE n \in 30 .. 37
  <2>1. Interpret(n, w, d) = Word(Palette(n - 30), BackgroundOf(w)) /\ n - 30 \in 0 .. 7
    BY <1>4 DEF Interpret, ResetCode
  <2>2. QED
    BY <1>1, <1>3, <2>1, WordHalves
<1>5. CASE n \in 90 .. 97
  <2>1. Interpret(n, w, d) = Word(Palette(n - 90) + Intense, BackgroundOf(w)) /\ n - 90 \in 0 .. 7
    BY <1>5 DEF Interpret, ResetCode
  <2>2. QED
    BY <1>1, <1>3, <2>1, WordHalves
<1>6. CASE n \in 40 .. 47
  <2>1. Interpret(n, w, d) = Word(ForegroundOf(w), Palette(n - 40)) /\ n - 40 \in 0 .. 7
    BY <1>6 DEF Interpret, ResetCode
  <2>2. QED
    BY <1>1, <1>3, <2>1, WordHalves
<1>7. CASE n \in 100 .. 107
  <2>1. Interpret(n, w, d) = Word(ForegroundOf(w), Palette(n - 100) + Intense) /\ n - 100 \in 0 .. 7
    BY <1>7 DEF Interpret, ResetCode
  <2>2. QED
    BY <1>1, <1>3, <2>1, WordHalves
<1>8. QED
  BY <1>2, <1>4, <1>5, <1>6, <1>7 DEF Codes

\* One item on the console.
LEMMA ShowItem ==
    ASSUME NEW t, IsTerminal(t), NEW it \in Items
    PROVE  /\ IsTerminal(Show(t, it))
           /\ Show(t, it).line = ItemLine(it, t.line)
           /\ ~setup.attached => Show(t, it).attr = t.attr /\ Show(t, it).wrong = t.wrong
           /\ (it.code >= 0 /\ it.auto => vt /\ setup.attached) => Show(t, it).raw = t.raw
           /\ \A w : setup.attached /\ (it.code >= 0 => vt) /\ ItemWord(it, t.attr, w) =>
                        Show(t, it).attr = w /\ Show(t, it).wrong = t.wrong
<1>1. /\ it.code \in Codes \/ it.code = -1
      /\ it.want \in Words /\ it.auto \in BOOLEAN
  BY DEF Items
<1>2. it.code \in Codes => it.code >= 0
  BY DEF Codes, ResetCode
<1>3. /\ t = [attr |-> t.attr, line |-> t.line, wrong |-> t.wrong, raw |-> t.raw]
      /\ t.attr \in Words /\ t.wrong \in BOOLEAN /\ t.raw \in BOOLEAN
  BY DEF IsTerminal
<1>4. CASE it.code >= 0 /\ vt /\ setup.attached
  <2>1. PICK w : w = Interpret(it.code, t.attr, DefaultWord)
    OBVIOUS
  <2>2. w \in Words
    BY <1>1, <1>3, <1>4, <2>1, InterpretWord, SetupAssumption
  <2>3. Show(t, it) = [t EXCEPT !.attr = w]
    BY <1>4, <2>1 DEF Show
  <2>4. PICK r : r = [attr |-> w, line |-> t.line, wrong |-> t.wrong, raw |-> t.raw]
    OBVIOUS
  <2>5. Show(t, it) = r
    BY <1>3, <2>3, <2>4
  <2>6. r.attr = w /\ r.line = t.line /\ r.wrong = t.wrong /\ r.raw = t.raw
    BY <2>4
  <2>7. IsTerminal(r)
    BY <1>3, <2>2, <2>4, <2>6 DEF IsTerminal
  <2>8. ItemLine(it, t.line) = t.line
    BY <1>4 DEF ItemLine
  <2>9. \A v : ItemWord(it, t.attr, v) => v = w
    BY <1>4, <2>1 DEF ItemWord
  <2>10. QED
    BY <1>4, <2>5, <2>6, <2>7, <2>8, <2>9
<1>5. CASE it.code >= 0 /\ ~ (vt /\ setup.attached)
  <2>1. Show(t, it) = [t EXCEPT !.raw = t.raw \/ it.auto]
    BY <1>5 DEF Show
  <2>2. PICK r \in BOOLEAN : r = (t.raw \/ it.auto)
    OBVIOUS
  <2>3. PICK s : s = [attr |-> t.attr, line |-> t.line, wrong |-> t.wrong, raw |-> r]
    OBVIOUS
  <2>4. Show(t, it) = s
    BY <1>3, <2>1, <2>2, <2>3
  <2>5. s.attr = t.attr /\ s.line = t.line /\ s.wrong = t.wrong /\ s.raw = r
    BY <2>3
  <2>6. IsTerminal(s)
    BY <1>3, <2>3, <2>5 DEF IsTerminal
  <2>7. ItemLine(it, t.line) = t.line
    BY <1>5 DEF ItemLine
  <2>8. ~it.auto => r = t.raw
    BY <1>1, <1>3, <2>2
  <2>9. QED
    BY <1>5, <2>4, <2>5, <2>6, <2>7, <2>8
<1>6. CASE ~ (it.code >= 0)
  <2>1. PICK l : l = (IF Complete(t.line) THEN <<>> ELSE t.line) \o it.text
    OBVIOUS
  <2>2. PICK b \in BOOLEAN : b = (t.wrong \/ (setup.attached /\ t.attr # it.want))
    OBVIOUS
  <2>3. Show(t, it) = [attr |-> t.attr, line |-> l, wrong |-> b, raw |-> t.raw]
    <3>1. Show(t, it) = [t EXCEPT !.line = l, !.wrong = b]
      BY <1>6, <2>1, <2>2 DEF Show
    <3>2. QED
      BY <1>3, <3>1
  <2>4. l = ItemLine(it, t.line)
    BY <1>6, <2>1 DEF ItemLine
  <2>5. ~ (setup.attached /\ t.attr # it.want) => b = t.wrong
    BY <1>3, <2>2
  <2>6. QED
    BY <1>3, <1>6, <2>2, <2>3, <2>4, <2>5 DEF IsTerminal, ItemWord
<1>7. QED
  BY <1>4, <1>5, <1>6

\* The console understands codes, if there are any.
Understood(items) == \A i \in 1 .. Len(items) : items[i].code >= 0 => vt

\* The console after each item of a sequence.
AllShown(f, t, items, N) ==
    /\ f[0] = t
    /\ \A n \in 1 .. N : f[n] = Show(f[n - 1], items[n]) /\ items[n] \in Items
    /\ \A n \in 0 .. N : IsTerminal(f[n])

LEMMA ShowAllTypes ==
    ASSUME NEW t, IsTerminal(t), NEW items \in Seq(Items), NEW r, r = ShowAll(t, items)
    PROVE  \E f : AllShown(f, t, items, Len(items)) /\ r = f[Len(items)] /\ IsTerminal(r)
<1>1. PICK N \in Nat : N = Len(items)
  BY LenProperties
<1>2. PICK f : /\ f[0] = t
               /\ \A n \in 1 .. N : f[n] = Show(f[n - 1], items[n])
               /\ r = f[N]
  BY <1>1, ShowAllSteps
<1>3. \A n \in 1 .. N : items[n] \in Items
  BY <1>1, ElementOfSeq
<1>4. \A n \in 1 .. N : n - 1 \in 0 .. N
  OBVIOUS
<1>5. ASSUME NEW n \in 0 .. N
      PROVE  IsTerminal(f[n])
  <2> DEFINE I == {k \in 0 .. N : IsTerminal(f[k])}
  <2>1. 0 \in I
    BY <1>2
  <2>2. ASSUME NEW k \in 1 .. n, k - 1 \in I
        PROVE  k \in I
    <3>1. k \in 1 .. N /\ k \in 0 .. N
      OBVIOUS
    <3>2. IsTerminal(Show(f[k - 1], items[k]))
      BY <1>3, <2>2, <3>1, ShowItem
    <3>3. QED
      BY <1>2, <3>1, <3>2
  <2> HIDE DEF I
  <2>3. n \in I
    BY <2>1, <2>2, UpTo
  <2>4. QED
    BY <2>3 DEF I
<1>6. IsTerminal(r)
  BY <1>2, <1>5
<1>7. AllShown(f, t, items, N)
  BY <1>2, <1>3, <1>5 DEF AllShown
<1>8. QED
  BY <1>1, <1>2, <1>6, <1>7

\* A stream that is no console has no attribute.
LEMMA ShowAllDetached ==
    ASSUME NEW t, IsTerminal(t), NEW items \in Seq(Items), NEW r, r = ShowAll(t, items), ~setup.attached
    PROVE  r.attr = t.attr /\ r.wrong = t.wrong
<1>1. PICK N \in Nat : N = Len(items)
  BY LenProperties
<1>2. PICK f : AllShown(f, t, items, N) /\ r = f[N]
  BY <1>1, ShowAllTypes
<1>3. /\ f[0] = t
      /\ \A n \in 1 .. N : f[n] = Show(f[n - 1], items[n]) /\ items[n] \in Items
      /\ \A n \in 0 .. N : IsTerminal(f[n])
  BY <1>2 DEF AllShown
<1> DEFINE I == {k \in 0 .. N : f[k].attr = t.attr /\ f[k].wrong = t.wrong}
<1>4. 0 \in I
  BY <1>3
<1>5. ASSUME NEW k \in 1 .. N, k - 1 \in I
      PROVE  k \in I
  <2>1. k - 1 \in 0 .. N /\ k \in 0 .. N
    OBVIOUS
  <2>2. /\ Show(f[k - 1], items[k]).attr = f[k - 1].attr
        /\ Show(f[k - 1], items[k]).wrong = f[k - 1].wrong
    BY <1>3, <2>1, ShowItem
  <2>3. QED
    BY <1>3, <1>5, <2>1, <2>2
<1> HIDE DEF I
<1>6. N \in I
  BY <1>4, <1>5, UpTo
<1>7. QED
  BY <1>1, <1>2, <1>6 DEF I

\* Codes that are understood are not shown.
LEMMA ShowAllRaw ==
    ASSUME NEW t, IsTerminal(t), NEW items \in Seq(Items), NEW r, r = ShowAll(t, items),
           \A i \in 1 .. Len(items) : items[i].code >= 0 /\ items[i].auto => vt /\ setup.attached
    PROVE  r.raw = t.raw
<1>1. PICK N \in Nat : N = Len(items)
  BY LenProperties
<1>2. PICK f : AllShown(f, t, items, N) /\ r = f[N]
  BY <1>1, ShowAllTypes
<1>3. /\ f[0] = t
      /\ \A n \in 1 .. N : f[n] = Show(f[n - 1], items[n]) /\ items[n] \in Items
      /\ \A n \in 0 .. N : IsTerminal(f[n])
  BY <1>2 DEF AllShown
<1> DEFINE I == {k \in 0 .. N : f[k].raw = t.raw}
<1>4. 0 \in I
  BY <1>3
<1>5. ASSUME NEW k \in 1 .. N, k - 1 \in I
      PROVE  k \in I
  <2>1. k - 1 \in 0 .. N /\ k \in 0 .. N
    OBVIOUS
  <2>2. Show(f[k - 1], items[k]).raw = f[k - 1].raw
    BY <1>1, <1>3, <2>1, ShowItem
  <2>3. QED
    BY <1>3, <1>5, <2>1, <2>2
<1> HIDE DEF I
<1>6. N \in I
  BY <1>4, <1>5, UpTo
<1>7. QED
  BY <1>1, <1>2, <1>6 DEF I

\* The items lead a console that understands them to the word w.
Leads(t, items, w) == setup.attached /\ Understood(items) /\ WordPath(items, t.attr, w)

Attains(t, r, w) == r.attr = w /\ r.wrong = t.wrong

\* It is left with the word the items lead to, and met each text with the one
\* it wants.
LEMMA ShowAllWord ==
    ASSUME NEW t, IsTerminal(t), NEW items \in Seq(Items), NEW r, r = ShowAll(t, items),
           NEW w, Leads(t, items, w)
    PROVE  Attains(t, r, w)
<1> USE DEF Leads, Attains
<1>1. PICK N \in Nat : N = Len(items)
  BY LenProperties
<1>2. PICK f : AllShown(f, t, items, N) /\ r = f[N]
  BY <1>1, ShowAllTypes
<1>3. /\ f[0] = t
      /\ \A n \in 1 .. N : f[n] = Show(f[n - 1], items[n]) /\ items[n] \in Items
      /\ \A n \in 0 .. N : IsTerminal(f[n])
  BY <1>2 DEF AllShown
<1>4. PICK ws \in [1 .. N + 1 -> Words] :
         /\ ws[1] = t.attr /\ ws[N + 1] = w
         /\ \A i \in 1 .. N : ItemWord(items[i], ws[i], ws[i + 1])
  BY <1>1 DEF WordPath
<1> DEFINE I == {k \in 0 .. N : f[k].attr = ws[k + 1] /\ f[k].wrong = t.wrong}
<1>5. 0 \in I
  BY <1>3, <1>4
<1>6. ASSUME NEW k \in 1 .. N, k - 1 \in I
      PROVE  k \in I
  <2>1. k - 1 \in 0 .. N /\ k \in 0 .. N /\ (k - 1) + 1 = k
    OBVIOUS
  <2>2. f[k - 1].attr = ws[k] /\ f[k - 1].wrong = t.wrong
    BY <1>6, <2>1
  <2>3. ItemWord(items[k], f[k - 1].attr, ws[k + 1])
    BY <1>4, <2>2
  <2>4. /\ Show(f[k - 1], items[k]).attr = ws[k + 1]
        /\ Show(f[k - 1], items[k]).wrong = f[k - 1].wrong
    BY <1>1, <1>3, <2>1, <2>3, ShowItem DEF Understood
  <2>5. QED
    BY <1>3, <2>1, <2>2, <2>4
<1> HIDE DEF I
<1>7. N \in I
  BY <1>5, <1>6, UpTo
<1>8. QED
  BY <1>2, <1>4, <1>7 DEF I

\* It is left with the line the items lead to.
LEMMA ShowAllLine ==
    ASSUME NEW t, IsTerminal(t), NEW items \in Seq(Items), NEW r, r = ShowAll(t, items),
           NEW l, LinePath(items, t.line, l)
    PROVE  r.line = l
<1>1. PICK N \in Nat : N = Len(items)
  BY LenProperties
<1>2. PICK f : AllShown(f, t, items, N) /\ r = f[N]
  BY <1>1, ShowAllTypes
<1>3. /\ f[0] = t
      /\ \A n \in 1 .. N : f[n] = Show(f[n - 1], items[n]) /\ items[n] \in Items
      /\ \A n \in 0 .. N : IsTerminal(f[n])
  BY <1>2 DEF AllShown
<1>4. PICK ls :
         /\ ls[1] = t.line /\ ls[N + 1] = l
         /\ \A i \in 1 .. N : ls[i + 1] = ItemLine(items[i], ls[i])
  BY <1>1 DEF LinePath
<1> DEFINE I == {k \in 0 .. N : f[k].line = ls[k + 1]}
<1>5. 0 \in I
  BY <1>3, <1>4
<1>6. ASSUME NEW k \in 1 .. N, k - 1 \in I
      PROVE  k \in I
  <2>1. k - 1 \in 0 .. N /\ k \in 0 .. N /\ (k - 1) + 1 = k
    OBVIOUS
  <2>2. f[k - 1].line = ls[k]
    BY <1>6, <2>1
  <2>3. Show(f[k - 1], items[k]).line = ItemLine(items[k], ls[k])
    <3>1. PICK u, it : u = f[k - 1] /\ it = items[k]
      OBVIOUS
    <3>2. IsTerminal(u) /\ it \in Items
      BY <1>3, <2>1, <3>1
    <3>3. Show(u, it).line = ItemLine(it, u.line)
      BY <3>2, ShowItem
    <3>4. QED
      BY <2>2, <3>1, <3>3
  <2>4. QED
    BY <1>3, <1>4, <2>1, <2>3
<1> HIDE DEF I
<1>7. N \in I
  BY <1>5, <1>6, UpTo
<1>8. QED
  BY <1>2, <1>4, <1>7 DEF I

-----------------------------------------------------------------------------
(* The colours and texts of a message.                                     *)

LEMMA ShownWord ==
    ASSUME NEW d \in Words
    PROVE  Shown(NoColor, d) = d /\ \A a \in Attributes : Shown(a, d) \in Words
<1>1. Shown(NoColor, d) = d
  BY HalvesOfWord DEF Shown, NoColor, Attribute
<1>2. ASSUME NEW a \in Attributes
      PROVE  Shown(a, d) \in Words
  <2>1. PICK f \in ConsoleColors, g \in ConsoleColors : Shown(a, d) = Word(f, g)
    BY HalvesOfWord DEF Shown, Attributes
  <2>2. QED
    BY <2>1, WordHalves
<1>3. QED
  BY <1>1, <1>2

LEMMA NoColorType == NoColor \in Attributes
BY DEF NoColor, Attribute, Attributes

LEMMA LevelColors == \A level \in Levels : GetColor(level) \in Attributes
<1>1. SUFFICES ASSUME NEW level \in Levels
               PROVE  GetColor(level) \in Attributes
  OBVIOUS
<1>2. level \in {0, 1, 2, 3, 4, 5}
  BY DEF Levels
<1>3. QED
  BY <1>2 DEF GetColor, Attributes, Attribute, White

LEMMA AnsiCodesType ==
    ASSUME NEW cur \in Attributes, NEW a \in Attributes
    PROVE  AnsiCodes(cur, a) \in Seq(Codes)
<1> DEFINE from == IF ShouldReset(cur, a) THEN NoColor ELSE cur
           reset == IF ShouldReset(cur, a) THEN <<ResetCode>> ELSE <<>>
           fore == IF from.fg # a.fg THEN <<ForegroundCode(a.fg)>> ELSE <<>>
           back == IF from.bg # a.bg THEN <<BackgroundCode(a.bg)>> ELSE <<>>
<1>1. ASSUME NEW c \in ConsoleColors
      PROVE  ForegroundCode(c) \in Codes /\ BackgroundCode(c) \in Codes
  <2>1. c \in {0, 1, 2, 3, 4, 5, 6, 7, 8, 9, 10, 11, 12, 13, 14, 15}
    OBVIOUS
  <2>2. ForegroundCode(c) \in Codes
    BY <2>1 DEF ForegroundCode, ForegroundMap, Codes
  <2>3. BackgroundCode(c) \in Codes
    BY <2>1 DEF BackgroundCode, BackgroundMap, Codes
  <2>4. QED
    BY <2>2, <2>3
<1>2. /\ cur.fg \in ConsoleColors \cup {Original} /\ cur.bg \in ConsoleColors \cup {Original}
      /\ a.fg \in ConsoleColors \cup {Original} /\ a.bg \in ConsoleColors \cup {Original}
  BY DEF Attributes
<1>3. (from.fg # a.fg => a.fg \in ConsoleColors) /\ (from.bg # a.bg => a.bg \in ConsoleColors)
  BY <1>2 DEF ShouldReset, NoColor, Attribute
<1>4. reset \in Seq(Codes)
  <2>1. ResetCode \in Codes
    BY DEF Codes
  <2>2. QED
    BY <2>1
<1>5. fore \in Seq(Codes) /\ back \in Seq(Codes)
  BY <1>1, <1>3
<1>6. AnsiCodes(cur, a) = (reset \o fore) \o back
  BY DEF AnsiCodes
<1> HIDE DEF from, reset, fore, back
<1>7. QED
  BY <1>4, <1>5, <1>6

\* A sequence that agrees with another as far as it goes is a prefix of it.
LEMMA PrefixOf ==
    ASSUME NEW S, NEW p \in Seq(S), NEW q \in Seq(S), Len(p) <= Len(q),
           \A i \in 1 .. Len(p) : p[i] = q[i]
    PROVE  IsPrefix(p, q)
<1>1. Len(p) \in Nat /\ Len(q) \in Nat
  BY LenProperties
<1>2. /\ 1 \in Int /\ Len(p) \in Int
      /\ \A i \in 1 .. Len(p) : p[i] \in S /\ q[i] \in S
  <2>1. \A i \in 1 .. Len(p) : i \in 1 .. Len(q)
    BY <1>1
  <2>2. QED
    BY <1>1, <2>1, ElementOfSeq
<1>3. PICK a, b : a = SubSeq(p, 1, Len(p)) /\ b = SubSeq(q, 1, Len(p))
  OBVIOUS
<1>4. a = p
  BY <1>3, SubSeqFull
<1>5. /\ b \in Seq(S) /\ Len(b) = IF 1 <= Len(p) THEN Len(p) - 1 + 1 ELSE 0
      /\ \A i \in 1 .. Len(p) - 1 + 1 : b[i] = q[1 + i - 1]
  BY <1>2, <1>3, SubSeqProperties
<1>6. Len(b) = Len(p) /\ \A i \in 1 .. Len(p) : b[i] = p[i]
  <2>1. Len(p) - 1 + 1 = Len(p) /\ \A i \in 1 .. Len(p) : 1 + i - 1 = i
    BY <1>1
  <2>2. QED
    BY <1>1, <1>5, <2>1
<1>7. b = p
  BY <1>5, <1>6, SeqEqual
<1>8. QED
  BY <1>3, <1>4, <1>7 DEF IsPrefix

\* A text of three parts, of which only the last ends a line.
LEMMA ThreeParts ==
    ASSUME NEW S, NEW a \in Seq(S), NEW b \in Seq(S), NEW c \in Seq(S),
           a # <<>>, b # <<>>, c # <<>>, NEW q, q = (a \o b) \o c,
           a[Len(a)] # Literal("\n"), b[Len(b)] # Literal("\n"), c[Len(c)] = Literal("\n")
    PROVE  /\ ~Complete(a) /\ ~Complete(a \o b) /\ Complete(q)
           /\ a \o b # <<>> /\ q # <<>>
           /\ IsPrefix(a, q) /\ IsPrefix(a \o b, q) /\ IsPrefix(q, q)
<1>1. Len(a) \in Nat \ {0} /\ Len(b) \in Nat \ {0} /\ Len(c) \in Nat \ {0}
  BY EmptySeq
<1>2. PICK d : d = a \o b
  OBVIOUS
<1>3. /\ d \in Seq(S) /\ Len(d) = Len(a) + Len(b)
      /\ \A i \in 1 .. Len(a) + Len(b) : d[i] = IF i <= Len(a) THEN a[i] ELSE b[i - Len(a)]
  BY <1>2, ConcatProperties
<1>4. /\ q \in Seq(S) /\ Len(q) = Len(d) + Len(c)
      /\ \A i \in 1 .. Len(d) + Len(c) : q[i] = IF i <= Len(d) THEN d[i] ELSE c[i - Len(d)]
  BY <1>2, <1>3, ConcatProperties
<1>5. d # <<>> /\ q # <<>>
  <2>1. Len(d) # 0 /\ Len(q) # 0
    BY <1>1, <1>3, <1>4
  <2>2. QED
    BY <2>1, EmptySeq
<1>6. d[Len(d)] = b[Len(b)] /\ q[Len(q)] = c[Len(c)]
  <2>1. Len(d) \in 1 .. Len(a) + Len(b) /\ ~ (Len(d) <= Len(a)) /\ Len(d) - Len(a) = Len(b)
    BY <1>1, <1>3
  <2>2. Len(q) \in 1 .. Len(d) + Len(c) /\ ~ (Len(q) <= Len(d)) /\ Len(q) - Len(d) = Len(c)
    BY <1>1, <1>3, <1>4
  <2>3. QED
    BY <1>3, <1>4, <2>1, <2>2
<1>7. ~Complete(a) /\ ~Complete(d) /\ Complete(q)
  BY <1>5, <1>6 DEF Complete
<1>8. IsPrefix(d, q)
  <2>1. Len(d) <= Len(q) /\ \A i \in 1 .. Len(d) : i \in 1 .. Len(d) + Len(c) /\ i <= Len(d)
    BY <1>1, <1>3, <1>4
  <2>2. QED
    BY <1>3, <1>4, <2>1, PrefixOf
<1>9. IsPrefix(a, q)
  <2>1. Len(a) <= Len(q) /\ \A i \in 1 .. Len(a) :
           i \in 1 .. Len(d) + Len(c) /\ i <= Len(d) /\ i \in 1 .. Len(a) + Len(b) /\ i <= Len(a)
    BY <1>1, <1>3, <1>4
  <2>2. \A i \in 1 .. Len(a) : a[i] = q[i]
    BY <1>3, <1>4, <2>1
  <2>3. QED
    BY <1>4, <2>1, <2>2, PrefixOf
<1>10. IsPrefix(q, q)
  <2>1. Len(q) <= Len(q)
    BY <1>1, <1>3, <1>4
  <2>2. QED
    BY <1>4, <2>1, PrefixOf
<1>11. QED
  BY <1>2, <1>5, <1>7, <1>8, <1>9, <1>10

\* The whole text is that of its parts.
InParts(q, p) == q = (p[1] \o p[2]) \o p[3]

LEMMA PartsOfText ==
    ASSUME NEW type \in MessageTypes, NEW x, NEW p, p = TextParts(type, x),
           NEW q, q = PlainText(type, x)
    PROVE  /\ InParts(q, p)
           /\ ~Complete(p[1]) /\ ~Complete(p[1] \o p[2]) /\ Complete(q)
           /\ p[1] # <<>> /\ p[1] \o p[2] # <<>> /\ q # <<>>
           /\ IsPrefix(p[1], q) /\ IsPrefix(p[1] \o p[2], q) /\ IsPrefix(q, q)
           /\ <<>> \o p[1] = p[1] /\ <<>> \o q = q
<1>1. PICK a, b, c : a = p[1] /\ b = p[2] /\ c = p[3]
  OBVIOUS
<1>2. PICK a1, a2, a3, a4, a5, b1, b2, b3, c1, c2, c3, c4, c5 :
         /\ a1 = a[1] /\ a2 = a[2] /\ a3 = a[3] /\ a4 = a[4] /\ a5 = a[5]
         /\ b1 = b[1] /\ b2 = b[2] /\ b3 = b[3]
         /\ c1 = c[1] /\ c2 = c[2] /\ c3 = c[3] /\ c4 = c[4] /\ c5 = c[5]
  OBVIOUS
<1>3. /\ a = <<a1, a2, a3, a4, a5>> /\ b = <<b1, b2, b3>> /\ c = <<c1, c2, c3, c4, c5>>
      /\ a5 # Literal("\n") /\ b3 # Literal("\n") /\ c5 = Literal("\n")
  <2>1. CASE type = "stream"
    BY <1>1, <1>2, <2>1 DEF TextParts, StreamFirst, StreamSecond, StreamThird, Literal
  <2>2. CASE type \in {"fmt", "format"}
    BY <1>1, <1>2, <2>2 DEF TextParts, FmtFirst, FmtSecond, FmtThird,
                            FormatFirst, FormatSecond, FormatThird, Literal
  <2>3. QED
    BY <2>1, <2>2 DEF MessageTypes
<1>4. \/ q = (a \o b) \o c
      \/ q = <<a1, a2, a3, a4, a5, b1, b2, b3, c1, c2, c3, c4, c5>>
  <2>1. CASE type = "stream"
    BY <1>1, <2>1 DEF TextParts, PlainText, StreamFormat
  <2>2. CASE type \in {"fmt", "format"}
    BY <1>1, <1>2, <2>2 DEF TextParts, PlainText, FmtFirst, FmtSecond, FmtThird, FmtFormat,
                            FormatFirst, FormatSecond, FormatThird, FormatFormat
  <2>3. QED
    BY <2>1, <2>2 DEF MessageTypes
<1>5. PICK S : S = {a1, a2, a3, a4, a5, b1, b2, b3, c1, c2, c3, c4, c5}
  OBVIOUS
<1>6. /\ a \in Seq(S) /\ b \in Seq(S) /\ c \in Seq(S)
      /\ a # <<>> /\ b # <<>> /\ c # <<>>
      /\ a[Len(a)] # Literal("\n") /\ b[Len(b)] # Literal("\n") /\ c[Len(c)] = Literal("\n")
  BY <1>3, <1>5
<1>7. q = (a \o b) \o c
  <2>1. SUFFICES ASSUME q = <<a1, a2, a3, a4, a5, b1, b2, b3, c1, c2, c3, c4, c5>>
                 PROVE  q = (a \o b) \o c
    BY <1>4
  <2>2. PICK d : d = a \o b
    OBVIOUS
  <2>3. /\ d \in Seq(S) /\ Len(d) = 8
        /\ \A i \in 1 .. 8 : d[i] = IF i <= 5 THEN a[i] ELSE b[i - 5]
    <3>1. Len(a) = 5 /\ Len(b) = 3
      BY <1>3
    <3>2. /\ d \in Seq(S) /\ Len(d) = Len(a) + Len(b)
          /\ \A i \in 1 .. Len(a) + Len(b) : d[i] = IF i <= Len(a) THEN a[i] ELSE b[i - Len(a)]
      BY <1>6, <2>2, ConcatProperties
    <3>3. QED
      BY <3>1, <3>2
  <2>4. PICK r : r = d \o c
    OBVIOUS
  <2>5. /\ r \in Seq(S) /\ Len(r) = 13
        /\ \A i \in 1 .. 13 : r[i] = IF i <= 8 THEN d[i] ELSE c[i - 8]
    <3>1. Len(c) = 5
      BY <1>3
    <3>2. /\ r \in Seq(S) /\ Len(r) = Len(d) + Len(c)
          /\ \A i \in 1 .. Len(d) + Len(c) : r[i] = IF i <= Len(d) THEN d[i] ELSE c[i - Len(d)]
      BY <1>6, <2>3, <2>4, ConcatProperties
    <3>3. QED
      BY <2>3, <3>1, <3>2
  <2>6. ASSUME NEW i \in 1 .. 13
        PROVE  q[i] = r[i]
    <3>1. CASE i \in {1, 2, 3, 4, 5}
      BY <1>3, <2>1, <2>3, <2>5, <3>1
    <3>2. CASE i \in {6, 7, 8}
      BY <1>3, <2>1, <2>3, <2>5, <3>2
    <3>3. CASE i \in {9, 10, 11, 12, 13}
      BY <1>3, <2>1, <2>5, <3>3
    <3>4. QED
      BY <3>1, <3>2, <3>3
  <2>7. q \in Seq(S) /\ Len(q) = 13
    BY <1>5, <2>1
  <2>8. q = r
    BY <2>5, <2>6, <2>7, SeqEqual
  <2>9. QED
    BY <2>2, <2>4, <2>8
<1>8. /\ ~Complete(a) /\ ~Complete(a \o b) /\ Complete(q)
      /\ a \o b # <<>> /\ q # <<>>
      /\ IsPrefix(a, q) /\ IsPrefix(a \o b, q) /\ IsPrefix(q, q)
  BY <1>6, <1>7, ThreeParts
<1>9. <<>> \o a = a /\ <<>> \o q = q
  <2>1. q \in Seq(S)
    BY <1>6, <1>7, ConcatProperties
  <2>2. QED
    BY <1>6, <2>1, ConcatEmptySeq
<1>10. QED
  BY <1>1, <1>6, <1>7, <1>8, <1>9 DEF InParts

-----------------------------------------------------------------------------
(* What a module writes.                                                   *)

\* A text leaves the attribute as it is, and is met with the one it wants.
LEMMA TextItem ==
    ASSUME NEW t \in Texts, NEW w \in Words, NEW items, items = <<Text(t, w)>>
    PROVE  /\ items \in Seq(Items)
           /\ \A i \in 1 .. Len(items) : items[i].code < 0
           /\ WordPath(items, w, w)
           /\ \A l : LinePath(items, l, (IF Complete(l) THEN <<>> ELSE l) \o t)
<1>1. PICK it : it = Text(t, w)
  OBVIOUS
<1>2. it.code = -1 /\ it.text = t /\ it.want = w
  BY <1>1 DEF Text
<1>3. it \in Items
  BY <1>1 DEF Text, Items
<1>4. ItemWord(it, w, w) /\ \A l : ItemLine(it, l) = (IF Complete(l) THEN <<>> ELSE l) \o t
  BY <1>2 DEF ItemWord, ItemLine
<1>5. WordPath(<<it>>, w, w)
  BY <1>4, OneItem
<1>6. \A l : LinePath(<<it>>, l, (IF Complete(l) THEN <<>> ELSE l) \o t)
  BY <1>4, OneItem
<1>7. <<it>> \in Seq(Items) /\ Len(<<it>>) = 1 /\ <<it>>[1] = it
  BY <1>3
<1>8. QED
  BY <1>1, <1>2, <1>5, <1>6, <1>7

\* The items of module m that lead from one pair of colours to another.
CodeItemsOf(items, m, from, to) ==
    /\ items \in Seq(Items)
    /\ \A i \in 1 .. Len(items) : items[i].code >= 0 /\ items[i].auto = (mode[m] = "automatic")
    /\ WordPath(items, Shown(from, DefaultWord), Shown(to, DefaultWord))
    /\ \A l : LinePath(items, l, l)

\* The codes of a colour lead from the colours of the text before to its own.
LEMMA CodeItems ==
    ASSUME NEW m \in Modules, NEW cur \in Attributes, NEW a \in Attributes,
           mode[m] \in Modes, NEW items,
           items = [i \in 1 .. Len(AnsiCodes(cur, a)) |-> Code(m, AnsiCodes(cur, a)[i])]
    PROVE  CodeItemsOf(items, m, cur, a)
<1> USE DEF CodeItemsOf
<1>1. PICK codes : codes = AnsiCodes(cur, a)
  OBVIOUS
<1>2. codes \in Seq(Codes)
  BY <1>1, AnsiCodesType
<1>3. PICK N \in Nat : N = Len(codes)
  BY <1>2, LenProperties
<1>4. items = [i \in 1 .. N |-> Code(m, codes[i])]
  BY <1>1, <1>3
<1>5. ASSUME NEW i \in 1 .. N
      PROVE  /\ items[i] \in Items /\ items[i].code = codes[i] /\ codes[i] >= 0
             /\ items[i].auto = (mode[m] = "automatic")
  <2>1. PICK n \in Codes : n = codes[i]
    BY <1>2, <1>3, ElementOfSeq
  <2>2. n \in Int /\ n >= 0
    BY DEF Codes, ResetCode
  <2>3. items[i] = [code |-> n, text |-> <<>>, want |-> DefaultWord, auto |-> mode[m] = "automatic"]
    BY <1>4, <2>1 DEF Code
  <2>4. PICK b \in BOOLEAN : b = (mode[m] = "automatic")
    OBVIOUS
  <2>5. items[i] = [code |-> n, text |-> <<>>, want |-> DefaultWord, auto |-> b]
    BY <2>3, <2>4
  <2>6. items[i] \in Items
    <3>1. <<>> \in Texts
      BY DEF Texts
    <3>2. QED
      BY <2>5, <3>1, SetupAssumption DEF Items
  <2>7. QED
    BY <2>1, <2>2, <2>4, <2>5, <2>6
<1>6. items \in Seq(Items) /\ Len(items) = N
  <2>1. \A i \in 1 .. N : Code(m, codes[i]) \in Items
    BY <1>4, <1>5
  <2>2. QED
    BY <1>4, <2>1
<1>7. WordPath(items, Shown(cur, DefaultWord), Shown(a, DefaultWord))
  <2>1. Reaches(codes, Shown(cur, DefaultWord), Shown(a, DefaultWord), DefaultWord)
    BY <1>1, AnsiShows, SetupAssumption
  <2>2. PICK ws \in [1 .. N + 1 -> Words] :
           /\ ws[1] = Shown(cur, DefaultWord) /\ ws[N + 1] = Shown(a, DefaultWord)
           /\ \A i \in 1 .. N : ws[i + 1] = Interpret(codes[i], ws[i], DefaultWord)
    BY <1>3, <2>1 DEF Reaches, Interprets
  <2>3. \A i \in 1 .. N : ItemWord(items[i], ws[i], ws[i + 1])
    BY <1>5, <2>2 DEF ItemWord
  <2>4. QED
    BY <1>6, <2>2, <2>3 DEF WordPath
<1>8. ASSUME NEW l
      PROVE  LinePath(items, l, l)
  <2>1. PICK ls : ls = [i \in 1 .. N + 1 |-> l]
    OBVIOUS
  <2>2. /\ ls = [i \in 1 .. N + 1 |-> ls[i]] /\ ls[1] = l /\ ls[N + 1] = l
        /\ \A i \in 1 .. N : ls[i] = l /\ ls[i + 1] = l
    BY <2>1
  <2>3. \A i \in 1 .. N : ItemLine(items[i], l) = l
    BY <1>5 DEF ItemLine
  <2>4. \A i \in 1 .. N : ls[i + 1] = ItemLine(items[i], ls[i])
    BY <2>2, <2>3
  <2>5. QED
    BY <1>6, <2>2, <2>4 DEF LinePath
<1>9. QED
  BY <1>5, <1>6, <1>7, <1>8

-----------------------------------------------------------------------------
(* The stream takes items: they stay in its buffer, or the console is      *)
(* shown all it holds.                                                     *)

Passes(items) ==
    \/ buffer' = buffer \o items /\ terminal' = terminal
    \/ buffer' = <<>> /\ terminal' = ShowAll(terminal, buffer \o items)

LEMMA Written ==
    ASSUME Types, NEW items \in Seq(Items), LogToStream(items)
    PROVE  Passes(items) /\ Len(buffer') <= setup.capacity
<1>1. setup.capacity \in Nat /\ Len(<<>>) = 0
  BY DEF Types, SetupType
<1>2. Len(buffer \o items) = Len(buffer) + Len(items)
  BY ConcatProperties DEF Types
<1>3. CASE Len(buffer) + Len(items) <= setup.capacity
  BY <1>2, <1>3 DEF LogToStream, Passes
<1>4. CASE ~ (Len(buffer) + Len(items) <= setup.capacity)
  BY <1>1, <1>4 DEF LogToStream, Passes
<1>5. QED
  BY <1>3, <1>4

LEMMA Flushed ==
    ASSUME Types, FlushStream
    PROVE  Passes(<<>>) /\ buffer' = <<>> /\ Len(buffer') <= setup.capacity
<1>1. setup.capacity \in Nat /\ Len(<<>>) = 0
  BY DEF Types, SetupType
<1>2. buffer \o <<>> = buffer
  BY ConcatEmptySeq DEF Types
<1>3. QED
  BY <1>1, <1>2 DEF FlushStream, Passes

LEMMA Untouched ==
    ASSUME Types, buffer' = buffer, terminal' = terminal
    PROVE  Passes(<<>>)
<1>1. buffer \o <<>> = buffer
  BY ConcatEmptySeq DEF Types
<1>2. QED
  BY <1>1 DEF Passes

LEMMA PassesTypes ==
    ASSUME Types, NEW items \in Seq(Items), Passes(items)
    PROVE  buffer' \in Seq(Items) /\ IsTerminal(terminal')
<1>1. buffer \in Seq(Items) /\ IsTerminal(terminal)
  BY DEF Types
<1>2. buffer \o items \in Seq(Items) /\ <<>> \in Seq(Items)
  BY <1>1, ConcatProperties
<1>3. PICK p, r : p = buffer \o items /\ r = ShowAll(terminal, p)
  OBVIOUS
<1>4. IsTerminal(r)
  BY <1>1, <1>2, <1>3, ShowAllTypes
<1>5. QED
  BY <1>1, <1>2, <1>3, <1>4 DEF Passes

\* What holds of the items in the buffer and of the new ones.
LEMMA PassesHolds ==
    ASSUME Types, NEW items \in Seq(Items), Passes(items), NEW G,
           \A i \in 1 .. Len(buffer) : buffer[i] \in G, \A i \in 1 .. Len(items) : items[i] \in G
    PROVE  /\ \A i \in 1 .. Len(buffer') : buffer'[i] \in G
           /\ \A i \in 1 .. Len(buffer \o items) : (buffer \o items)[i] \in G
<1>1. buffer \in Seq(Items)
  BY DEF Types
<1>2. PICK p : p = buffer \o items
  OBVIOUS
<1>3. PICK n \in Nat, k \in Nat : n = Len(buffer) /\ k = Len(items)
  BY <1>1, LenProperties
<1>4. /\ Len(p) = n + k
      /\ \A i \in 1 .. n : p[i] = buffer[i]
      /\ \A i \in n + 1 .. n + k : i - n \in 1 .. k /\ p[i] = items[i - n]
  BY <1>1, <1>2, <1>3, ItemOf
<1>5. ASSUME NEW i \in 1 .. n + k
      PROVE  p[i] \in G
  <2>1. i \in 1 .. n \/ i \in n + 1 .. n + k
    OBVIOUS
  <2>2. QED
    BY <1>3, <1>4, <2>1
<1>6. Len(<<>>) = 0 /\ 1 .. 0 = {}
  OBVIOUS
<1>7. QED
  BY <1>2, <1>4, <1>5, <1>6 DEF Passes

\* The line the console then has is the one there was or the new one.
LEMMA PassesLine ==
    ASSUME Types, NEW items \in Seq(Items), Passes(items), NEW k, NEW l,
           LinePath(buffer, terminal.line, k), LinePath(items, k, l)
    PROVE  LinePath(buffer', terminal'.line, l) /\ terminal'.line \in {terminal.line, l}
<1>1. buffer \in Seq(Items) /\ IsTerminal(terminal)
  BY DEF Types
<1>2. PICK p, r : p = buffer \o items /\ r = ShowAll(terminal, p)
  OBVIOUS
<1>3. p \in Seq(Items)
  BY <1>1, <1>2, ConcatProperties
<1>4. LinePath(p, terminal.line, l)
  <2>1. LinePath(buffer \o items, terminal.line, l)
    BY <1>1, LineConcat
  <2>2. QED
    BY <1>2, <2>1
<1>5. r.line = l
  BY <1>1, <1>2, <1>3, <1>4, ShowAllLine
<1>6. LinePath(<<>>, l, l)
  BY NoItem
<1>7. QED
  BY <1>2, <1>4, <1>5, <1>6 DEF Passes

\* So is its attribute, if it understands the codes.
LEMMA PassesWord ==
    ASSUME Types, NEW items \in Seq(Items), Passes(items), setup.attached,
           Understood(buffer), Understood(items),
           NEW v \in Words, NEW w \in Words,
           WordPath(buffer, terminal.attr, v), WordPath(items, v, w)
    PROVE  WordPath(buffer', terminal'.attr, w) /\ terminal'.wrong = terminal.wrong
<1>1. buffer \in Seq(Items) /\ IsTerminal(terminal)
  BY DEF Types
<1>2. PICK p, r : p = buffer \o items /\ r = ShowAll(terminal, p)
  OBVIOUS
<1>3. p \in Seq(Items)
  BY <1>1, <1>2, ConcatProperties
<1>4. WordPath(p, terminal.attr, w)
  BY <1>1, <1>2, WordConcat
<1>5. Understood(p)
  <2> DEFINE G == {it \in Items : it.code >= 0 => vt}
  <2>1. \A i \in 1 .. Len(buffer) : buffer[i] \in G
    BY <1>1, ElementOfSeq DEF Understood
  <2>2. \A i \in 1 .. Len(items) : items[i] \in G
    BY ElementOfSeq DEF Understood
  <2> HIDE DEF G
  <2>3. \A i \in 1 .. Len(p) : p[i] \in G
    BY <1>2, <2>1, <2>2, PassesHolds
  <2>4. QED
    BY <2>3 DEF G, Understood
<1>6. r.attr = w /\ r.wrong = terminal.wrong
  <2>1. PICK t : t = terminal
    OBVIOUS
  <2>2. IsTerminal(t) /\ r = ShowAll(t, p) /\ WordPath(p, t.attr, w)
    BY <1>1, <1>2, <1>4, <2>1
  <2>3. r.attr = w /\ r.wrong = t.wrong
    <3>1. IsTerminal(t) /\ p \in Seq(Items) /\ r = ShowAll(t, p) /\ Leads(t, p, w)
      BY <1>3, <1>5, <2>2 DEF Leads
    <3>2. Attains(t, r, w)
      BY <3>1, ShowAllWord
    <3>3. QED
      BY <3>2 DEF Attains
  <2>4. QED
    BY <2>1, <2>3
<1>7. WordPath(<<>>, w, w)
  BY NoItem
<1>8. QED
  BY <1>2, <1>4, <1>6, <1>7 DEF Passes

\* A stream that is no console has no attribute.
LEMMA PassesDetached ==
    ASSUME Types, NEW items \in Seq(Items), Passes(items), ~setup.attached
    PROVE  terminal'.attr = terminal.attr /\ terminal'.wrong = terminal.wrong
<1>1. buffer \in Seq(Items) /\ IsTerminal(terminal)
  BY DEF Types
<1>2. PICK p, r : p = buffer \o items /\ r = ShowAll(terminal, p)
  OBVIOUS
<1>3. p \in Seq(Items)
  BY <1>1, <1>2, ConcatProperties
<1>4. r.attr = terminal.attr /\ r.wrong = terminal.wrong
  BY <1>1, <1>2, <1>3, ShowAllDetached
<1>5. QED
  BY <1>2, <1>4 DEF Passes

\* No code is shown raw that is understood.
LEMMA PassesRaw ==
    ASSUME Types, NEW items \in Seq(Items), Passes(items),
           \A i \in 1 .. Len(buffer) : buffer[i].code >= 0 /\ buffer[i].auto => vt /\ setup.attached,
           \A i \in 1 .. Len(items) : items[i].code >= 0 /\ items[i].auto => vt /\ setup.attached
    PROVE  terminal'.raw = terminal.raw
<1>1. buffer \in Seq(Items) /\ IsTerminal(terminal)
  BY DEF Types
<1>2. PICK p, r : p = buffer \o items /\ r = ShowAll(terminal, p)
  OBVIOUS
<1>3. p \in Seq(Items)
  BY <1>1, <1>2, ConcatProperties
<1>4. \A i \in 1 .. Len(p) : p[i].code >= 0 /\ p[i].auto => vt /\ setup.attached
  <2> DEFINE G == {it \in Items : it.code >= 0 /\ it.auto => vt /\ setup.attached}
  <2>1. \A i \in 1 .. Len(buffer) : buffer[i] \in G
    BY <1>1, ElementOfSeq
  <2>2. \A i \in 1 .. Len(items) : items[i] \in G
    BY ElementOfSeq
  <2> HIDE DEF G
  <2>3. \A i \in 1 .. Len(p) : p[i] \in G
    BY <1>2, <2>1, <2>2, PassesHolds
  <2>4. QED
    BY <2>3 DEF G
<1>5. r.raw = terminal.raw
  BY <1>1, <1>2, <1>3, <1>4, ShowAllRaw
<1>6. QED
  BY <1>2, <1>5 DEF Passes

-----------------------------------------------------------------------------
(* The items of the actions.                                               *)

TextItems(items, t, w) ==
    /\ items \in Seq(Items)
    /\ \A i \in 1 .. Len(items) : items[i].code < 0
    /\ WordPath(items, w, w)
    /\ \A l : LinePath(items, l, (IF Complete(l) THEN <<>> ELSE l) \o t)

LEMMA TextWritten ==
    ASSUME Types, NEW t \in Texts, NEW w \in Words, LogToStream(<<Text(t, w)>>)
    PROVE  \E items : TextItems(items, t, w) /\ Passes(items) /\ Len(buffer') <= setup.capacity
<1>1. PICK items : items = <<Text(t, w)>>
  OBVIOUS
<1>2. TextItems(items, t, w)
  BY <1>1, TextItem DEF TextItems
<1>3. items \in Seq(Items) /\ LogToStream(items)
  BY <1>1, <1>2 DEF TextItems
<1>4. QED
  BY <1>2, <1>3, Written

LEMMA CodesWritten ==
    ASSUME Types, NEW m \in Modules, NEW a \in Attributes, SetAnsiColor(m, a)
    PROVE  /\ \E items : CodeItemsOf(items, m, current[m], a) /\ Passes(items)
           /\ Len(buffer') <= setup.capacity
           /\ current' = [current EXCEPT ![m] = a] /\ word' = word
<1>1. PICK items :
         items = [i \in 1 .. Len(AnsiCodes(current[m], a)) |-> Code(m, AnsiCodes(current[m], a)[i])]
  OBVIOUS
<1>2. PICK cur \in Attributes : cur = current[m]
  BY DEF Types, TypeOK
<1>3. mode[m] \in Modes
  BY DEF Types, TypeOK
<1>4. CodeItemsOf(items, m, cur, a)
  <2>1. items = [i \in 1 .. Len(AnsiCodes(cur, a)) |-> Code(m, AnsiCodes(cur, a)[i])]
    BY <1>1, <1>2
  <2>2. QED
    BY <1>3, <2>1, CodeItems
<1>5. items \in Seq(Items) /\ LogToStream(items)
  BY <1>1, <1>4 DEF CodeItemsOf, SetAnsiColor
<1>6. Passes(items) /\ Len(buffer') <= setup.capacity
  BY <1>5, Written
<1>7. current' = [current EXCEPT ![m] = a] /\ word' = word
  BY DEF SetAnsiColor
<1>8. QED
  BY <1>2, <1>4, <1>6, <1>7

LEMMA ConsoleSet ==
    ASSUME Types, NEW w \in Words, SetConsole(w)
    PROVE  /\ IsTerminal(terminal')
           /\ terminal'.line = terminal.line /\ terminal'.wrong = terminal.wrong
           /\ terminal'.raw = terminal.raw
           /\ terminal'.attr = IF setup.attached THEN w ELSE terminal.attr
<1>1. terminal = [attr |-> terminal.attr, line |-> terminal.line, wrong |-> terminal.wrong, raw |-> terminal.raw]
      /\ terminal.wrong \in BOOLEAN /\ terminal.raw \in BOOLEAN /\ terminal.attr \in Words
  BY DEF Types, IsTerminal
<1>2. CASE setup.attached
  <2>1. PICK t : t = [attr |-> w, line |-> terminal.line, wrong |-> terminal.wrong, raw |-> terminal.raw]
    OBVIOUS
  <2>2. terminal' = t
    <3>1. terminal' = [terminal EXCEPT !.attr = w]
      BY <1>2 DEF SetConsole
    <3>2. QED
      BY <1>1, <2>1, <3>1
  <2>3. IsTerminal(t)
    BY <1>1, <2>1 DEF IsTerminal
  <2>4. t.line = terminal.line /\ t.wrong = terminal.wrong /\ t.raw = terminal.raw /\ t.attr = w
    BY <2>1
  <2>5. QED
    BY <1>2, <2>2, <2>3, <2>4
<1>3. CASE ~setup.attached
  <2>1. terminal' = terminal
    BY <1>3 DEF SetConsole
  <2>2. QED
    BY <1>3, <2>1 DEF Types
<1>4. QED
  BY <1>2, <1>3

\* What a coloured module asks for.
LEMMA PartColorType ==
    ASSUME Types, MutexInv, NEW m \in Modules, pc[m] \in Amid
    PROVE  PartColor(m) \in Attributes /\ Shown(PartColor(m), DefaultWord) \in Words
<1>1. msg[m] \in Messages /\ part[m] \in 1 .. 3
  BY DEF MutexInv, Types, TypeOK
<1>2. CustomColors[part[m]] \in Attributes /\ msg[m].level \in Levels
  BY <1>1, SetupAssumption
<1>3. PartColor(m) \in Attributes
  BY <1>2, LevelColors, NoColorType DEF PartColor
<1>4. QED
  BY <1>3, ShownWord, SetupAssumption

\* What it, or a plain one, writes.
LEMMA TextsOf ==
    ASSUME Types, MutexInv, NEW m \in Modules, pc[m] \in Amid \cup {"write"}
    PROVE  /\ msg[m] \in Messages /\ setup.type \in MessageTypes
           /\ PlainText(setup.type, msg[m]) \in Texts
           /\ TextParts(setup.type, msg[m])[part[m]] \in Texts
<1>1. msg[m] \in Messages /\ part[m] \in 1 .. 3 /\ setup.type \in MessageTypes
  BY DEF MutexInv, Types, TypeOK, SetupType
<1>2. QED
  BY <1>1 DEF Texts

LEMMA WantType ==
    ASSUME Types, MutexInv, NEW m \in Modules, pc[m] \in Amid
    PROVE  Shown(IF enable[m] THEN PartColor(m) ELSE NoColor, DefaultWord) \in Words
<1>1. enable[m] \in BOOLEAN
  BY DEF Types, TypeOK
<1>2. QED
  BY <1>1, PartColorType, ShownWord, NoColorType, SetupAssumption

\* A step of a coloured module writes codes, or sets the attribute, or nothing.
LEMMA Win32Set ==
    ASSUME Types, NEW m \in Modules, NEW w \in Words, SetWin32Word(m, w)
    PROVE  /\ buffer' = buffer /\ current' = current
           /\ SetConsole(w)
           /\ word' = [word EXCEPT ![m] = IF setup.attached THEN w ELSE word[m]]
BY DEF SetWin32Word, Types, TypeOK

-----------------------------------------------------------------------------
(* Types.                                                                  *)

\* The variables that the stream and the console do not change.
StateTypes ==
    /\ setup \in Setups
    /\ mutex \in Modules \cup {Nobody}
    /\ pc \in [Modules -> {"none", "probed", "idle", "write", "before", "color",
                           "text", "after", "gone"}]
    /\ msg \in [Modules -> Messages \cup {Nobody}]
    /\ part \in [Modules -> 1 .. 3]
    /\ mode \in [Modules -> Modes]
    /\ enable \in [Modules -> BOOLEAN]
    /\ canParse \in [Modules -> BOOLEAN]
    /\ current \in [Modules -> Attributes]
    /\ word \in [Modules -> Words]
    /\ original \in [Modules -> Words]
    /\ vt \in BOOLEAN
    /\ order \in Seq(Modules)
    /\ setup \in SetupType
    /\ disturbed \in BOOLEAN /\ disorder \in BOOLEAN

LEMMA TypesSplit ==
    /\ Types => /\ StateTypes
                /\ IsTerminal(terminal) /\ terminal.attr \in Words
                /\ buffer \in Seq(Items) /\ Len(buffer) <= setup.capacity
    /\ StateTypes' /\ IsTerminal(terminal') /\ buffer' \in Seq(Items)
          /\ Len(buffer') <= setup'.capacity => Types'
BY DEF Types, TypeOK, StateTypes, IsTerminal

LEMMA StateTypesStep ==
    ASSUME Types, MutexInv, OrderedInv, [Next]_vars
    PROVE  StateTypes'
<1>1. StateTypes /\ terminal.attr \in Words /\ {0, 1} \subseteq Words
  BY TypesSplit DEF Words
<1>2. CASE UNCHANGED vars
  BY <1>1, <1>2 DEF StateTypes, vars, moduleVars
<1>3. ASSUME NEW m \in Modules, NEW md \in Modes, Probe(m, md)
      PROVE  StateTypes'
  BY <1>1, <1>3 DEF StateTypes, Probe, Goto
<1>4. ASSUME NEW m \in Modules, NEW md \in Modes, SetColorMode(m, md)
      PROVE  StateTypes'
  BY <1>1, <1>4 DEF StateTypes, SetColorMode, Parses
<1>5. ASSUME NEW m \in Modules, Instantiate(m)
      PROVE  StateTypes'
  <2>1. setup' = setup /\ canParse' \in [Modules -> BOOLEAN] /\ enable' \in [Modules -> BOOLEAN]
    BY <1>1, <1>5 DEF StateTypes, Instantiate, Parses
  <2>2. vt' \in BOOLEAN /\ order' \in Seq(Modules) /\ original' \in [Modules -> Words] /\ disturbed' \in BOOLEAN
    <3>1. CASE Kind(m) = "ansi"
      <4>1. vt' = (vt \/ setup.attached) /\ order' = Append(order, m)
            /\ original' = original /\ disturbed' = disturbed
        BY <1>5, <3>1 DEF Instantiate, SetVirtualTerminal
      <4>2. Append(order, m) \in Seq(Modules)
        BY <1>1, AppendProperties DEF StateTypes
      <4>3. QED
        BY <1>1, <4>1, <4>2 DEF StateTypes
    <3>2. CASE Kind(m) = "win32"
      <4>1. vt' = vt /\ order' = order /\ original' = [original EXCEPT ![m] = 0]
            /\ disturbed' = (disturbed \/ terminal.attr # original[m])
        BY <1>5, <3>2 DEF Instantiate, WriteBackAttribute
      <4>2. QED
        BY <1>1, <4>1 DEF StateTypes
    <3>3. CASE Kind(m) # "ansi" /\ Kind(m) # "win32"
      BY <1>1, <1>5, <3>3 DEF StateTypes, Instantiate
    <3>4. QED
      BY <3>1, <3>2, <3>3
  <2>3. /\ mutex' = mutex /\ msg' = msg /\ part' = part /\ mode' = mode /\ current' = current
        /\ word' = word /\ disorder' = disorder /\ pc' = [pc EXCEPT ![m] = "idle"]
    BY <1>5 DEF Instantiate, Goto
  <2>4. QED
    BY <1>1, <2>1, <2>2, <2>3 DEF StateTypes
<1>6. ASSUME NEW m \in Modules, Destroy(m)
      PROVE  StateTypes'
  <2>1. RemoveFirst(order, m) \in Seq(Modules)
    BY <1>1, RemoveFirstDistinct DEF StateTypes, OrderedInv
  <2>2. QED
    BY <1>1, <1>6, <2>1 DEF StateTypes, Destroy, Goto, moduleVars
<1>7. ASSUME NEW m \in Modules, NEW x \in Messages, LogPlain(m, x)
      PROVE  StateTypes'
  BY <1>1, <1>7 DEF StateTypes, LogPlain, Goto
<1>8. ASSUME NEW m \in Modules, NEW x \in Messages, LogColored(m, x)
      PROVE  StateTypes'
  BY <1>1, <1>8 DEF StateTypes, LogColored, Goto, Lock
<1>9. ASSUME NEW m \in Modules, WritePlain(m)
      PROVE  StateTypes'
  BY <1>1, <1>9 DEF StateTypes, WritePlain, Goto
<1>10. ASSUME NEW m \in Modules, Flush(m)
       PROVE  StateTypes'
  BY <1>1, <1>10 DEF StateTypes, Flush, moduleVars
<1>11. ASSUME NEW m \in Modules, BeforeLog(m)
       PROVE  StateTypes'
  BY <1>1, <1>11 DEF StateTypes, BeforeLog, Goto
<1>12. ASSUME NEW m \in Modules, SetPartColor(m)
       PROVE  StateTypes'
  <2>1. PICK a \in Attributes : a = PartColor(m)
    <3>1. pc[m] \in Amid
      BY <1>12 DEF SetPartColor, Amid
    <3>2. QED
      BY <3>1, PartColorType
  <2>2. current' \in [Modules -> Attributes] /\ word' \in [Modules -> Words]
    <3>1. CASE enable[m] /\ Kind(m) = "ansi"
      <4>1. SetAnsiColor(m, a)
        BY <1>12, <2>1, <3>1 DEF SetPartColor
      <4>2. current' = [current EXCEPT ![m] = a] /\ word' = word
        BY <4>1 DEF SetAnsiColor
      <4>3. QED
        BY <1>1, <4>2 DEF StateTypes
    <3>2. CASE enable[m] /\ Kind(m) = "win32"
      <4>1. PICK w \in Words : w = ConvertToMachineAttribute(a, original[m])
        BY <1>1, Win32Shows, ShownWord DEF StateTypes
      <4>2. SetWin32Word(m, w)
        BY <1>12, <2>1, <3>2, <4>1 DEF SetPartColor, SetWin32Color
      <4>3. QED
        BY <1>1, <4>2 DEF StateTypes, SetWin32Word
    <3>3. CASE ~ (enable[m] /\ Kind(m) \in {"ansi", "win32"})
      <4>1. current' = current /\ word' = word
        BY <1>12, <3>3 DEF SetPartColor
      <4>2. QED
        BY <1>1, <4>1 DEF StateTypes
    <3>4. QED
      BY <3>1, <3>2, <3>3
  <2>3. QED
    BY <1>1, <1>12, <2>2 DEF StateTypes, SetPartColor, Goto
<1>13. ASSUME NEW m \in Modules, WritePart(m)
       PROVE  StateTypes'
  <2>1. part' \in [Modules -> 1 .. 3] /\ pc' \in [Modules -> {"none", "probed", "idle", "write", "before",
                                                           "color", "text", "after", "gone"}]
    BY <1>1, <1>13 DEF StateTypes, WritePart, Goto
  <2>2. QED
    BY <1>1, <1>13, <2>1 DEF StateTypes, WritePart
<1>14. ASSUME NEW m \in Modules, AfterLog(m)
       PROVE  StateTypes'
  <2>1. current' \in [Modules -> Attributes] /\ word' \in [Modules -> Words]
    <3>1. CASE enable[m] /\ Kind(m) = "ansi"
      <4>1. current' = [current EXCEPT ![m] = NoColor] /\ word' = word
        BY <1>14, <3>1 DEF AfterLog, AfterAnsiLog, SetAnsiColor
      <4>2. QED
        BY <1>1, <4>1, NoColorType DEF StateTypes
    <3>2. CASE enable[m] /\ Kind(m) = "win32"
      <4>1. AfterWin32Log(m)
        BY <1>14, <3>2 DEF AfterLog
      <4>2. QED
        BY <1>1, <4>1 DEF StateTypes, AfterWin32Log, SetWin32Word
    <3>3. CASE ~ (enable[m] /\ Kind(m) \in {"ansi", "win32"})
      <4>1. current' = current /\ word' = word
        BY <1>14, <3>3 DEF AfterLog
      <4>2. QED
        BY <1>1, <4>1 DEF StateTypes
    <3>4. QED
      BY <3>1, <3>2, <3>3
  <2>2. /\ pc' = [pc EXCEPT ![m] = "idle"] /\ mutex' = Nobody
        /\ msg' = [msg EXCEPT ![m] = Nobody] /\ part' = [part EXCEPT ![m] = 1]
        /\ setup' = setup /\ mode' = mode /\ enable' = enable /\ canParse' = canParse
        /\ original' = original /\ vt' = vt /\ order' = order
        /\ disturbed' = disturbed /\ disorder' = disorder
    BY <1>14 DEF AfterLog, Leave, Goto
  <2>3. part' \in [Modules -> 1 .. 3]
    BY <1>1, <2>2 DEF StateTypes
  <2>4. QED
    BY <1>1, <2>1, <2>2, <2>3 DEF StateTypes
<1>15. QED
  BY <1>2, <1>3, <1>4, <1>5, <1>6, <1>7, <1>8, <1>9, <1>10, <1>11, <1>12, <1>13, <1>14 DEF Next

\* What a step does to the stream and the console.
Streams ==
    \/ \E items \in Seq(Items) : Passes(items) /\ Len(buffer') <= setup.capacity
    \/ \E w \in Words : SetConsole(w) /\ buffer' = buffer

LEMMA StreamsTypes ==
    ASSUME Types, Streams
    PROVE  buffer' \in Seq(Items) /\ IsTerminal(terminal') /\ Len(buffer') <= setup.capacity
<1>1. ASSUME NEW items \in Seq(Items), Passes(items), Len(buffer') <= setup.capacity
      PROVE  buffer' \in Seq(Items) /\ IsTerminal(terminal') /\ Len(buffer') <= setup.capacity
  BY <1>1, PassesTypes
<1>2. ASSUME NEW w \in Words, SetConsole(w), buffer' = buffer
      PROVE  buffer' \in Seq(Items) /\ IsTerminal(terminal') /\ Len(buffer') <= setup.capacity
  BY <1>2, ConsoleSet, TypesSplit
<1>3. QED
  BY <1>1, <1>2 DEF Streams

LEMMA UntouchedStreams ==
    ASSUME Types, buffer' = buffer, terminal' = terminal
    PROVE  Streams
<1>1. Passes(<<>>) /\ <<>> \in Seq(Items) /\ Len(buffer') <= setup.capacity
  BY Untouched, TypesSplit
<1>2. QED
  BY <1>1 DEF Streams

LEMMA StreamsStep ==
    ASSUME Types, MutexInv, [Next]_vars
    PROVE  Streams
<1>1. StateTypes
  BY TypesSplit
<1>2. CASE UNCHANGED vars
  BY <1>2, UntouchedStreams DEF vars
<1>3. ASSUME NEW m \in Modules, NEW md \in Modes, Probe(m, md) \/ SetColorMode(m, md)
      PROVE  Streams
  BY <1>3, UntouchedStreams DEF Probe, SetColorMode
<1>4. ASSUME NEW m \in Modules, Instantiate(m)
      PROVE  Streams
  <2>1. CASE Kind(m) = "win32"
    <3>1. buffer' = buffer /\ SetConsole(original[m])
      BY <1>4, <2>1 DEF Instantiate, WriteBackAttribute
    <3>2. original[m] \in Words
      BY <1>1 DEF StateTypes
    <3>3. QED
      BY <3>1, <3>2 DEF Streams
  <2>2. CASE Kind(m) # "win32"
    <3>1. buffer' = buffer /\ terminal' = terminal
      BY <1>4, <2>2 DEF Instantiate, SetVirtualTerminal
    <3>2. QED
      BY <3>1, UntouchedStreams
  <2>3. QED
    BY <2>1, <2>2
<1>5. ASSUME NEW m \in Modules, Destroy(m) \/ Flush(m)
      PROVE  Streams
  <2>1. FlushStream
    BY <1>5 DEF Destroy, Flush
  <2>2. Passes(<<>>) /\ <<>> \in Seq(Items) /\ Len(buffer') <= setup.capacity
    BY <2>1, Flushed
  <2>3. QED
    BY <2>2 DEF Streams
<1>6. ASSUME NEW m \in Modules, NEW x \in Messages, LogPlain(m, x) \/ LogColored(m, x)
      PROVE  Streams
  BY <1>6, UntouchedStreams DEF LogPlain, LogColored
<1>7. ASSUME NEW t \in Texts, NEW w \in Words, LogToStream(<<Text(t, w)>>)
      PROVE  Streams
  <2>1. PICK items : TextItems(items, t, w) /\ Passes(items) /\ Len(buffer') <= setup.capacity
    BY <1>7, TextWritten
  <2>2. QED
    BY <2>1 DEF TextItems, Streams
<1>8. ASSUME NEW m \in Modules, NEW a \in Attributes, SetAnsiColor(m, a)
      PROVE  Streams
  <2>1. PICK items : CodeItemsOf(items, m, current[m], a) /\ Passes(items) /\ Len(buffer') <= setup.capacity
    BY <1>8, CodesWritten
  <2>2. QED
    BY <2>1 DEF CodeItemsOf, Streams
<1>9. ASSUME NEW m \in Modules, WritePlain(m)
      PROVE  Streams
  <2>1. PlainText(setup.type, msg[m]) \in Texts
    BY <1>9, TextsOf DEF WritePlain
  <2>2. LogToStream(<<Text(PlainText(setup.type, msg[m]), DefaultWord)>>)
    BY <1>9 DEF WritePlain
  <2>3. QED
    BY <1>7, <2>1, <2>2, SetupAssumption
<1>10. ASSUME NEW m \in Modules, BeforeLog(m)
       PROVE  Streams
  BY <1>10, UntouchedStreams DEF BeforeLog
<1>11. ASSUME NEW m \in Modules, NEW w \in Words, SetWin32Word(m, w)
       PROVE  Streams
  BY <1>11 DEF SetWin32Word, Streams
<1>12. ASSUME NEW m \in Modules, SetPartColor(m)
       PROVE  Streams
  <2>1. PartColor(m) \in Attributes
    <3>1. pc[m] \in Amid
      BY <1>12 DEF SetPartColor, Amid
    <3>2. QED
      BY <3>1, PartColorType
  <2>2. CASE enable[m] /\ Kind(m) = "ansi"
    <3>1. SetAnsiColor(m, PartColor(m))
      BY <1>12, <2>2 DEF SetPartColor
    <3>2. QED
      BY <1>8, <2>1, <3>1
  <2>3. CASE enable[m] /\ Kind(m) = "win32"
    <3>1. SetWin32Word(m, ConvertToMachineAttribute(PartColor(m), original[m]))
      BY <1>12, <2>3 DEF SetPartColor, SetWin32Color
    <3>2. ConvertToMachineAttribute(PartColor(m), original[m]) \in Words
      BY <1>1, <2>1, Win32Shows, ShownWord DEF StateTypes
    <3>3. QED
      BY <1>11, <3>1, <3>2
  <2>4. CASE ~ (enable[m] /\ Kind(m) \in {"ansi", "win32"})
    BY <1>12, <2>4, UntouchedStreams DEF SetPartColor
  <2>5. QED
    BY <2>2, <2>3, <2>4
<1>13. ASSUME NEW m \in Modules, WritePart(m)
       PROVE  Streams
  <2>1. pc[m] \in Amid
    BY <1>13 DEF WritePart, Amid
  <2>2. TextParts(setup.type, msg[m])[part[m]] \in Texts
    BY <2>1, TextsOf
  <2>3. Shown(IF enable[m] THEN PartColor(m) ELSE NoColor, DefaultWord) \in Words
    BY <2>1, WantType
  <2>4. QED
    BY <1>7, <1>13, <2>2, <2>3 DEF WritePart
<1>14. ASSUME NEW m \in Modules, AfterLog(m)
       PROVE  Streams
  <2>1. CASE enable[m] /\ Kind(m) = "ansi"
    <3>1. SetAnsiColor(m, NoColor)
      BY <1>14, <2>1 DEF AfterLog, AfterAnsiLog
    <3>2. QED
      BY <1>8, <3>1, NoColorType
  <2>2. CASE enable[m] /\ Kind(m) = "win32"
    <3>1. AfterWin32Log(m)
      BY <1>14, <2>2 DEF AfterLog
    <3>2. CASE original[m] # word[m]
      BY <1>1, <1>11, <3>1, <3>2 DEF AfterWin32Log, StateTypes
    <3>3. CASE original[m] = word[m]
      BY <3>1, <3>3, UntouchedStreams DEF AfterWin32Log
    <3>4. QED
      BY <3>2, <3>3
  <2>3. CASE ~ (enable[m] /\ Kind(m) \in {"ansi", "win32"})
    BY <1>14, <2>3, UntouchedStreams DEF AfterLog
  <2>4. QED
    BY <2>1, <2>2, <2>3
<1>15. QED
  BY <1>2, <1>3, <1>4, <1>5, <1>6, <1>9, <1>10, <1>12, <1>13, <1>14 DEF Next

\* The installation stays.
LEMMA SetupStays ==
    ASSUME [Next]_vars
    PROVE  setup' = setup
BY DEF Next, vars, Probe, SetColorMode, Instantiate, Destroy, LogPlain, LogColored, WritePlain,
       Flush, BeforeLog, SetPartColor, WritePart, AfterLog

LEMMA TypesStep ==
    ASSUME Types, MutexInv, OrderedInv, [Next]_vars
    PROVE  Types'
BY StateTypesStep, StreamsStep, StreamsTypes, SetupStays, TypesSplit

-----------------------------------------------------------------------------
(* The mutex and the modes.                                                *)

LEMMA MutexStep ==
    ASSUME Types, MutexInv, [Next]_vars
    PROVE  MutexInv'
<1>1. StateTypes /\ setup' = setup
  BY TypesSplit, SetupStays
<1> DEFINE Mine(k) ==
        /\ mutex' = k <=> pc'[k] \in Amid
        /\ pc'[k] \in Amid => Colored(k)
        /\ pc'[k] = "write" => ~Colored(k)
        /\ pc'[k] \in Amid \cup {"write"} => msg'[k] \in Messages
        /\ pc'[k] \notin Coloring => part'[k] = 1
<1>2. SUFFICES ASSUME NEW k \in Modules
               PROVE  Mine(k)
  BY <1>1 DEF MutexInv, Colored, Kind
<1>3. /\ mutex = k <=> pc[k] \in Amid
      /\ pc[k] \in Amid => Colored(k)
      /\ pc[k] = "write" => ~Colored(k)
      /\ pc[k] \in Amid \cup {"write"} => msg[k] \in Messages
      /\ pc[k] \notin Coloring => part[k] = 1
      /\ k # Nobody
  BY SetupAssumption DEF MutexInv
<1>4. CASE UNCHANGED vars
  BY <1>3, <1>4 DEF vars, moduleVars
<1>5. ASSUME NEW m \in Modules, NEW md \in Modes, Probe(m, md)
      PROVE  Mine(k)
  BY <1>1, <1>3, <1>5 DEF Probe, Goto, StateTypes, Amid, Coloring
<1>6. ASSUME NEW m \in Modules, NEW md \in Modes, SetColorMode(m, md)
      PROVE  Mine(k)
  BY <1>3, <1>6 DEF SetColorMode
<1>7. ASSUME NEW m \in Modules, Instantiate(m)
      PROVE  Mine(k)
  BY <1>1, <1>3, <1>7 DEF Instantiate, Goto, StateTypes, Amid, Coloring
<1>8. ASSUME NEW m \in Modules, Destroy(m)
      PROVE  Mine(k)
  BY <1>1, <1>3, <1>8 DEF Destroy, Goto, moduleVars, StateTypes, Amid, Coloring
<1>9. ASSUME NEW m \in Modules, NEW x \in Messages, LogPlain(m, x)
      PROVE  Mine(k)
  BY <1>1, <1>3, <1>9 DEF LogPlain, Goto, StateTypes, Amid, Coloring
<1>10. ASSUME NEW m \in Modules, NEW x \in Messages, LogColored(m, x)
       PROVE  Mine(k)
  BY <1>1, <1>3, <1>10 DEF LogColored, Lock, Goto, StateTypes, Amid, Coloring
<1>11. ASSUME NEW m \in Modules, WritePlain(m)
       PROVE  Mine(k)
  BY <1>1, <1>3, <1>11 DEF WritePlain, Goto, StateTypes, Amid, Coloring
<1>12. ASSUME NEW m \in Modules, Flush(m)
       PROVE  Mine(k)
  BY <1>3, <1>12 DEF Flush, moduleVars
<1>13. ASSUME NEW m \in Modules, BeforeLog(m)
       PROVE  Mine(k)
  BY <1>1, <1>3, <1>13 DEF BeforeLog, Goto, StateTypes, Amid, Coloring
<1>14. ASSUME NEW m \in Modules, SetPartColor(m)
       PROVE  Mine(k)
  BY <1>1, <1>3, <1>14 DEF SetPartColor, Goto, StateTypes, Amid, Coloring
<1>15. ASSUME NEW m \in Modules, WritePart(m)
       PROVE  Mine(k)
  <2>1. pc[m] = "text" /\ mutex' = mutex /\ msg' = msg
    BY <1>15 DEF WritePart
  <2>2. \/ pc' = [pc EXCEPT ![m] = "color"] /\ part' = [part EXCEPT ![m] = part[m] + 1]
        \/ pc' = [pc EXCEPT ![m] = "after"] /\ part' = part
    BY <1>1, <1>15 DEF WritePart, Goto, StateTypes
  <2>3. QED
    BY <1>1, <1>3, <2>1, <2>2 DEF StateTypes, Amid, Coloring
<1>16. ASSUME NEW m \in Modules, AfterLog(m)
       PROVE  Mine(k)
  <2>1. pc[m] = "after" /\ mutex' = Nobody /\ msg' = [msg EXCEPT ![m] = Nobody]
        /\ part' = [part EXCEPT ![m] = 1] /\ pc' = [pc EXCEPT ![m] = "idle"]
    BY <1>16 DEF AfterLog, Leave, Goto
  <2>2. mutex = m
    BY <2>1 DEF MutexInv, Amid
  <2>3. QED
    BY <1>1, <1>3, <2>1, <2>2 DEF StateTypes, Amid, Coloring
<1>17. QED
  BY <1>4, <1>5, <1>6, <1>7, <1>8, <1>9, <1>10, <1>11, <1>12, <1>13, <1>14, <1>15, <1>16 DEF Next

LEMMA ModeStep ==
    ASSUME Types, ModeInv, [Next]_vars
    PROVE  ModeInv'
<1>1. StateTypes /\ setup' = setup
  BY TypesSplit, SetupStays
<1> DEFINE Mine(k) ==
        Living(k)' => /\ canParse'[k] = (Colored(k) /\ setup.attached)
                      /\ enable'[k] = (Colored(k) /\ Parses(k, mode'[k], canParse'[k]))
<1>2. SUFFICES ASSUME NEW k \in Modules
               PROVE  Mine(k)
  BY <1>1 DEF ModeInv, Living, Colored, Kind, Parses
<1>3. Living(k) => /\ canParse[k] = (Colored(k) /\ setup.attached)
                   /\ enable[k] = (Colored(k) /\ Parses(k, mode[k], canParse[k]))
  BY DEF ModeInv
<1>4. ASSUME canParse' = canParse, enable' = enable, mode' = mode, Living(k)' => Living(k)
      PROVE  Mine(k)
  BY <1>3, <1>4
<1>5. CASE UNCHANGED vars
  BY <1>4, <1>5 DEF vars, moduleVars, Living
<1>6. ASSUME NEW m \in Modules, NEW md \in Modes, Probe(m, md)
      PROVE  Mine(k)
  BY <1>1, <1>3, <1>6 DEF Probe, Goto, StateTypes, Living, Parses
<1>7. ASSUME NEW m \in Modules, NEW md \in Modes, SetColorMode(m, md)
      PROVE  Mine(k)
  BY <1>1, <1>3, <1>7 DEF SetColorMode, StateTypes, Living, Parses
<1>8. ASSUME NEW m \in Modules, Instantiate(m)
      PROVE  Mine(k)
  <2>1. /\ pc[m] = "probed" /\ pc' = [pc EXCEPT ![m] = "idle"] /\ mode' = mode
        /\ canParse' = [canParse EXCEPT ![m] = Colored(m) /\ setup.attached]
        /\ enable' = [enable EXCEPT ![m] = Colored(m) /\ Parses(m, mode[m], Colored(m) /\ setup.attached)]
    BY <1>8 DEF Instantiate, Goto
  <2>2. QED
    BY <1>1, <1>3, <2>1 DEF StateTypes, Living, Parses
<1>9. ASSUME NEW m \in Modules, Destroy(m)
      PROVE  Mine(k)
  BY <1>1, <1>4, <1>9 DEF Destroy, Goto, moduleVars, StateTypes, Living
<1>10. ASSUME NEW m \in Modules, NEW x \in Messages, LogPlain(m, x) \/ LogColored(m, x)
       PROVE  Mine(k)
  BY <1>1, <1>4, <1>10 DEF LogPlain, LogColored, Goto, StateTypes, Living
<1>11. ASSUME NEW m \in Modules, WritePlain(m)
       PROVE  Mine(k)
  BY <1>1, <1>4, <1>11 DEF WritePlain, Goto, StateTypes, Living
<1>12. ASSUME NEW m \in Modules, Flush(m)
       PROVE  Mine(k)
  BY <1>4, <1>12 DEF Flush, moduleVars, Living
<1>13. ASSUME NEW m \in Modules, BeforeLog(m)
       PROVE  Mine(k)
  BY <1>1, <1>4, <1>13 DEF BeforeLog, Goto, StateTypes, Living
<1>14. ASSUME NEW m \in Modules, SetPartColor(m)
       PROVE  Mine(k)
  BY <1>1, <1>4, <1>14 DEF SetPartColor, Goto, StateTypes, Living
<1>15. ASSUME NEW m \in Modules, WritePart(m)
       PROVE  Mine(k)
  <2>1. pc[m] = "text" /\ canParse' = canParse /\ enable' = enable /\ mode' = mode
    BY <1>15 DEF WritePart
  <2>2. pc' = [pc EXCEPT ![m] = "color"] \/ pc' = [pc EXCEPT ![m] = "after"]
    BY <1>15 DEF WritePart, Goto
  <2>3. QED
    BY <1>1, <1>4, <2>1, <2>2 DEF StateTypes, Living
<1>16. ASSUME NEW m \in Modules, AfterLog(m)
       PROVE  Mine(k)
  BY <1>1, <1>4, <1>16 DEF AfterLog, Leave, Goto, StateTypes, Living
<1>17. QED
  BY <1>5, <1>6, <1>7, <1>8, <1>9, <1>10, <1>11, <1>12, <1>13, <1>14, <1>15, <1>16 DEF Next

-----------------------------------------------------------------------------
(* The living ANSI modules and the mode of the console.                    *)

\* Only construction and destruction change which modules live.
LEMMA LivingSame ==
    ASSUME Types, [Next]_vars, \A m \in Modules : ~Instantiate(m) /\ ~Destroy(m)
    PROVE  /\ order' = order /\ vt' = vt
           /\ \A k \in Modules : Living(k)' <=> Living(k)
<1>1. StateTypes
  BY TypesSplit
<1> DEFINE Same == /\ order' = order /\ vt' = vt
                   /\ \A k \in Modules : Living(k)' <=> Living(k)
<1>2. CASE UNCHANGED vars
  BY <1>2 DEF vars, moduleVars, Living
<1>3. ASSUME NEW m \in Modules, NEW md \in Modes, Probe(m, md) \/ SetColorMode(m, md)
      PROVE  Same
  BY <1>1, <1>3 DEF Probe, SetColorMode, Goto, StateTypes, Living
<1>4. ASSUME NEW m \in Modules, NEW x \in Messages, LogPlain(m, x) \/ LogColored(m, x)
      PROVE  Same
  BY <1>1, <1>4 DEF LogPlain, LogColored, Goto, StateTypes, Living
<1>5. ASSUME NEW m \in Modules, WritePlain(m) \/ BeforeLog(m)
      PROVE  Same
  BY <1>1, <1>5 DEF WritePlain, BeforeLog, Goto, StateTypes, Living
<1>6. ASSUME NEW m \in Modules, Flush(m)
      PROVE  Same
  BY <1>6 DEF Flush, Living
<1>7. ASSUME NEW m \in Modules, SetPartColor(m)
      PROVE  Same
  BY <1>1, <1>7 DEF SetPartColor, Goto, StateTypes, Living
<1>8. ASSUME NEW m \in Modules, WritePart(m)
      PROVE  Same
  <2>1. pc[m] = "text" /\ order' = order /\ vt' = vt
    BY <1>8 DEF WritePart
  <2>2. pc' = [pc EXCEPT ![m] = "color"] \/ pc' = [pc EXCEPT ![m] = "after"]
    BY <1>8 DEF WritePart, Goto
  <2>3. QED
    BY <1>1, <2>1, <2>2 DEF StateTypes, Living
<1>9. ASSUME NEW m \in Modules, AfterLog(m)
      PROVE  Same
  BY <1>1, <1>9 DEF AfterLog, Leave, Goto, StateTypes, Living
<1>10. QED
  BY <1>2, <1>3, <1>4, <1>5, <1>6, <1>7, <1>8, <1>9 DEF Next

\* What the other two do to it.
LEMMA LivingMore ==
    ASSUME Types, NEW m \in Modules, Instantiate(m)
    PROVE  /\ ~Living(m) /\ pc[m] = "probed" /\ pc' = [pc EXCEPT ![m] = "idle"]
           /\ \A k \in Modules : Living(k)' <=> Living(k) \/ k = m
           /\ disorder' = disorder
           /\ Kind(m) = "ansi" => /\ order' = Append(order, m) /\ original' = original
                                  /\ vt' = (vt \/ setup.attached)
           /\ Kind(m) # "ansi" => /\ order' = order /\ vt' = vt
                                  /\ \A k \in Modules : k # m => original'[k] = original[k]
<1>1. pc[m] = "probed" /\ pc' = [pc EXCEPT ![m] = "idle"] /\ disorder' = disorder
  BY DEF Instantiate, Goto
<1>2. pc \in [Modules -> {"none", "probed", "idle", "write", "before", "color",
                           "text", "after", "gone"}]
  BY TypesSplit DEF StateTypes
<1>3. ~Living(m) /\ \A k \in Modules : Living(k)' <=> Living(k) \/ k = m
  BY <1>1, <1>2 DEF Living
<1>4. CASE Kind(m) = "ansi"
  BY <1>1, <1>3, <1>4 DEF Instantiate, SetVirtualTerminal
<1>5. CASE Kind(m) = "win32"
  <2>1. order' = order /\ vt' = vt /\ original' = [original EXCEPT ![m] = 0]
    BY <1>5 DEF Instantiate, WriteBackAttribute
  <2>2. \A k \in Modules : k # m => original'[k] = original[k]
    BY <2>1, TypesSplit DEF StateTypes
  <2>3. QED
    BY <1>1, <1>3, <1>5, <2>1, <2>2
<1>6. CASE Kind(m) # "ansi" /\ Kind(m) # "win32"
  BY <1>1, <1>3, <1>6 DEF Instantiate
<1>7. QED
  BY <1>4, <1>5, <1>6

LEMMA LivingLess ==
    ASSUME Types, NEW m \in Modules, Destroy(m)
    PROVE  /\ Living(m) /\ pc[m] = "idle" /\ pc' = [pc EXCEPT ![m] = "gone"]
           /\ \A k \in Modules : Living(k)' <=> Living(k) /\ k # m
           /\ original' = original /\ order' = RemoveFirst(order, m)
<1>1. pc[m] = "idle" /\ pc' = [pc EXCEPT ![m] = "gone"] /\ original' = original
      /\ order' = RemoveFirst(order, m)
  BY DEF Destroy, Goto, moduleVars
<1>2. Living(m) /\ \A k \in Modules : Living(k)' <=> Living(k) /\ k # m
  BY <1>1, TypesSplit DEF StateTypes, Living
<1>3. QED
  BY <1>1, <1>2

LEMMA OrderStep ==
    ASSUME Types, OrderedInv, [Next]_vars
    PROVE  OrderedInv'
<1>1. order \in Seq(Modules) /\ setup' = setup /\ \A k \in Modules : Kind(k)' = Kind(k)
  BY TypesSplit, SetupStays DEF StateTypes, Kind
<1>2. Distinct(order) /\ \A k \in Modules : k \in ToSet(order) <=> Living(k) /\ Kind(k) = "ansi"
  BY DEF OrderedInv
<1>3. SUFFICES Distinct(order') /\ \A k \in Modules : k \in ToSet(order') <=> Living(k)' /\ Kind(k) = "ansi"
  BY <1>1 DEF OrderedInv
<1>4. ASSUME NEW m \in Modules, Instantiate(m)
      PROVE  Distinct(order') /\ \A k \in Modules : k \in ToSet(order') <=> Living(k)' /\ Kind(k) = "ansi"
  <2>1. CASE Kind(m) = "ansi"
    <3>1. order' = Append(order, m) /\ m \notin ToSet(order)
      BY <1>2, <1>4, <2>1, LivingMore
    <3>2. Distinct(order') /\ ToSet(order') = ToSet(order) \cup {m}
      BY <1>1, <1>2, <3>1, DistinctAppend, ToSetAppend
    <3>3. QED
      BY <1>2, <1>4, <2>1, <3>2, LivingMore
  <2>2. CASE Kind(m) # "ansi"
    <3>1. order' = order
      BY <1>4, <2>2, LivingMore
    <3>2. QED
      BY <1>2, <1>4, <2>2, <3>1, LivingMore
  <2>3. QED
    BY <2>1, <2>2
<1>5. ASSUME NEW m \in Modules, Destroy(m)
      PROVE  Distinct(order') /\ \A k \in Modules : k \in ToSet(order') <=> Living(k)' /\ Kind(k) = "ansi"
  <2>1. order' = RemoveFirst(order, m)
    BY <1>5, LivingLess
  <2>2. Distinct(order') /\ ToSet(order') = ToSet(order) \ {m}
    BY <1>1, <1>2, <2>1, RemoveFirstKeeps, RemoveFirstDistinct
  <2>3. QED
    BY <1>2, <1>5, <2>2, LivingLess
<1>6. CASE \A m \in Modules : ~Instantiate(m) /\ ~Destroy(m)
  BY <1>2, <1>6, LivingSame
<1>7. QED
  BY <1>4, <1>5, <1>6

LEMMA ProbingSame ==
    ASSUME Types, [Next]_vars, \A m \in Modules : ~Instantiate(m) /\ ~Destroy(m),
           \A m \in Modules, md \in Modes : ~Probe(m, md)
    PROVE  /\ disorder' = disorder
           /\ \A k \in Modules : pc'[k] = "probed" <=> pc[k] = "probed"
           /\ \A k \in Modules : Kind(k) = "ansi" => original'[k] = original[k]
<1>1. StateTypes
  BY TypesSplit
<1> DEFINE Same == /\ disorder' = disorder
                   /\ \A k \in Modules : pc'[k] = "probed" <=> pc[k] = "probed"
                   /\ \A k \in Modules : Kind(k) = "ansi" => original'[k] = original[k]
<1>2. CASE UNCHANGED vars
  BY <1>2 DEF vars, moduleVars
<1>3. ASSUME NEW m \in Modules, NEW md \in Modes, SetColorMode(m, md)
      PROVE  Same
  BY <1>1, <1>3 DEF SetColorMode, Goto, StateTypes
<1>4. ASSUME NEW m \in Modules, NEW x \in Messages, LogPlain(m, x) \/ LogColored(m, x)
      PROVE  Same
  BY <1>1, <1>4 DEF LogPlain, LogColored, Goto, StateTypes
<1>5. ASSUME NEW m \in Modules, WritePlain(m)
      PROVE  Same
  BY <1>1, <1>5 DEF WritePlain, Goto, StateTypes
<1>6. ASSUME NEW m \in Modules, Flush(m)
      PROVE  Same
  BY <1>6 DEF Flush, moduleVars
<1>7. ASSUME NEW m \in Modules, SetPartColor(m)
      PROVE  Same
  BY <1>1, <1>7 DEF SetPartColor, Goto, StateTypes
<1>8. ASSUME NEW m \in Modules, WritePart(m)
      PROVE  Same
  <2>1. pc[m] = "text" /\ disorder' = disorder /\ original' = original
    BY <1>8 DEF WritePart
  <2>2. pc' = [pc EXCEPT ![m] = "color"] \/ pc' = [pc EXCEPT ![m] = "after"]
    BY <1>8 DEF WritePart, Goto
  <2>3. QED
    BY <1>1, <2>1, <2>2 DEF StateTypes
<1>9. ASSUME NEW m \in Modules, AfterLog(m)
      PROVE  Same
  BY <1>1, <1>9 DEF AfterLog, Leave, Goto, StateTypes
<1>10. ASSUME NEW m \in Modules, BeforeLog(m)
       PROVE  Same
  <2>1. pc[m] = "before" /\ disorder' = disorder /\ pc' = [pc EXCEPT ![m] = "color"]
    BY <1>10 DEF BeforeLog, Goto
  <2>2. \A k \in Modules : Kind(k) = "ansi" => original'[k] = original[k]
    <3>1. CASE Kind(m) = "win32"
      <4>1. \/ original' = original
            \/ \E w : original' = [original EXCEPT ![m] = w]
        BY <1>10 DEF BeforeLog
      <4>2. QED
        BY <1>1, <3>1, <4>1 DEF StateTypes
    <3>2. CASE Kind(m) # "win32"
      BY <1>10, <3>2 DEF BeforeLog
    <3>3. QED
      BY <3>1, <3>2
  <2>3. QED
    BY <1>1, <2>1, <2>2 DEF StateTypes
<1>11. QED
  BY <1>2, <1>3, <1>4, <1>5, <1>6, <1>7, <1>8, <1>9, <1>10 DEF Next

LEMMA KindsKept ==
    ASSUME [Next]_vars
    PROVE  \A k \in Modules : Kind(k)' = Kind(k) /\ Colored(k)' = Colored(k)
BY SetupStays DEF Kind, Colored

\* The members of order are living ANSI modules.
LEMMA OrderMembers ==
    ASSUME Types, OrderedInv, NEW i \in 1 .. Len(order)
    PROVE  order[i] \in Modules /\ Living(order[i]) /\ Kind(order[i]) = "ansi"
<1>1. order \in Seq(Modules)
  BY TypesSplit DEF StateTypes
<1>2. order[i] \in Modules /\ order[i] \in ToSet(order)
  BY <1>1, ElementOfSeq, ToSetOf
<1>3. QED
  BY <1>2 DEF OrderedInv

\* ModeKept, when the modules are in order.
ModeHeld ==
    /\ \A k, m \in Modules : Probing(k) /\ Probing(m) => k = m
    /\ vt = (setup.vt \/ (setup.attached /\ order # <<>>))
    /\ \A i \in 1 .. Len(order) : original[order[i]] = Found(setup.vt \/ (setup.attached /\ i > 1))
    /\ \A m \in Modules : Probing(m) => original[m] = Found(vt)

LEMMA ModeProbe ==
    ASSUME Types, OrderedInv, ModeHeld, NEW m \in Modules, NEW md \in Modes, Probe(m, md), ~disorder'
    PROVE  ModeHeld'
<1>1. StateTypes
  BY TypesSplit
<1>2. /\ pc[m] = "none" /\ pc' = [pc EXCEPT ![m] = "probed"]
      /\ setup' = setup /\ vt' = vt /\ order' = order
      /\ Kind(m) = "ansi" => \A k \in Modules : ~Probing(k)
  BY DEF Probe, Goto
<1>3. \A k \in Modules : k # m => original'[k] = original[k] /\ (Probing(k)' <=> Probing(k))
  BY <1>1, <1>2 DEF Probe, StateTypes, Probing, Kind
<1>4. Probing(m)' <=> Kind(m) = "ansi"
  BY <1>1, <1>2 DEF StateTypes, Probing, Kind
<1>5. Kind(m) = "ansi" => original'[m] = Found(vt)
  BY <1>1 DEF Probe, StateTypes, Found
<1>6. \A i \in 1 .. Len(order) : order[i] \in Modules /\ order[i] # m
  BY <1>2, OrderMembers DEF Living
<1>7. \A k, j \in Modules : Probing(k)' /\ Probing(j)' => k = j
  BY <1>2, <1>3, <1>4 DEF ModeHeld
<1>8. \A k \in Modules : Probing(k)' => original'[k] = Found(vt')
  BY <1>2, <1>3, <1>4, <1>5 DEF ModeHeld
<1>9. \A i \in 1 .. Len(order) : original'[order[i]] = Found(setup.vt \/ (setup.attached /\ i > 1))
  BY <1>3, <1>6 DEF ModeHeld
<1>10. QED
  BY <1>2, <1>7, <1>8, <1>9 DEF ModeHeld

LEMMA ModeInstantiate ==
    ASSUME Types, OrderedInv, ModeHeld, NEW m \in Modules, Instantiate(m)
    PROVE  ModeHeld'
<1>1. StateTypes /\ setup.vt \in BOOLEAN /\ setup.attached \in BOOLEAN
  BY TypesSplit DEF StateTypes, SetupType
<1>2. /\ pc[m] = "probed" /\ pc' = [pc EXCEPT ![m] = "idle"] /\ setup' = setup
      /\ Kind(m) = "ansi" => /\ order' = Append(order, m) /\ original' = original
                             /\ vt' = (vt \/ setup.attached)
      /\ Kind(m) # "ansi" => /\ order' = order /\ vt' = vt
                             /\ \A k \in Modules : k # m => original'[k] = original[k]
  BY LivingMore DEF Instantiate
<1>3. \A k \in Modules : Probing(k)' <=> Probing(k) /\ k # m
  BY <1>1, <1>2 DEF StateTypes, Probing, Kind
<1>4. \A k, j \in Modules : Probing(k)' /\ Probing(j)' => k = j
  BY <1>3 DEF ModeHeld
<1>5. CASE Kind(m) = "ansi"
  <2>1. Probing(m)
    BY <1>2, <1>5 DEF Probing
  <2>2. \A k \in Modules : ~Probing(k)'
    BY <1>3, <2>1 DEF ModeHeld
  <2>3. PICK n \in Nat : n = Len(order)
    BY <1>1, LenProperties DEF StateTypes
  <2>4. /\ Len(order') = n + 1 /\ order'[n + 1] = m
        /\ \A i \in 1 .. n : order'[i] = order[i]
        /\ order' # <<>> /\ (order # <<>> <=> n > 0)
    <3>1. /\ Len(order') = n + 1 /\ order'[n + 1] = m
          /\ \A i \in 1 .. n : order'[i] = order[i]
      <4>1. order \in Seq(Modules) /\ order' = Append(order, m)
        BY <1>1, <1>2, <1>5 DEF StateTypes
      <4>2. /\ Len(Append(order, m)) = n + 1 /\ Append(order, m)[n + 1] = m
            /\ \A i \in 1 .. n : Append(order, m)[i] = order[i]
        BY <2>3, <4>1, AppendProperties
      <4>3. QED
        BY <4>1, <4>2
    <3>2. order' # <<>> /\ (order # <<>> <=> n > 0)
      BY <1>1, <2>3, <3>1, EmptySeq DEF StateTypes
    <3>3. QED
      BY <3>1, <3>2
  <2>5. original[m] = Found(setup.vt \/ (setup.attached /\ n + 1 > 1))
    <3>1. original[m] = Found(vt)
      BY <2>1 DEF ModeHeld
    <3>2. vt = (setup.vt \/ (setup.attached /\ n + 1 > 1))
      BY <1>1, <2>3, <2>4 DEF ModeHeld, StateTypes
    <3>3. QED
      BY <3>1, <3>2
  <2>6. vt' = (setup'.vt \/ (setup'.attached /\ order' # <<>>))
    BY <1>1, <1>2, <1>5, <2>4 DEF ModeHeld, StateTypes
  <2>7. ASSUME NEW i \in 1 .. n + 1
        PROVE  original'[order'[i]] = Found(setup.vt \/ (setup.attached /\ i > 1))
    <3>1. CASE i = n + 1
      BY <1>2, <1>5, <2>4, <2>5, <3>1
    <3>2. CASE i # n + 1
      <4>1. i \in 1 .. Len(order) /\ order'[i] = order[i]
        BY <2>3, <2>4, <3>2
      <4>2. QED
        BY <1>2, <1>5, <4>1 DEF ModeHeld
    <3>3. QED
      BY <3>1, <3>2
  <2>8. QED
    BY <1>2, <1>4, <2>2, <2>4, <2>6, <2>7 DEF ModeHeld
<1>6. CASE Kind(m) # "ansi"
  <2>1. order' = order /\ vt' = vt /\ \A k \in Modules : k # m => original'[k] = original[k]
    BY <1>2, <1>6
  <2>2. \A i \in 1 .. Len(order) : order[i] \in Modules /\ order[i] # m
    BY <1>6, OrderMembers
  <2>3. \A i \in 1 .. Len(order) : original'[order[i]] = Found(setup.vt \/ (setup.attached /\ i > 1))
    BY <2>1, <2>2 DEF ModeHeld
  <2>4. \A k \in Modules : Probing(k)' => original'[k] = Found(vt')
    BY <1>3, <2>1 DEF ModeHeld
  <2>5. vt' = (setup'.vt \/ (setup'.attached /\ order' # <<>>))
    BY <1>2, <2>1 DEF ModeHeld
  <2>6. QED
    BY <1>2, <1>4, <2>1, <2>3, <2>4, <2>5 DEF ModeHeld
<1>7. QED
  BY <1>5, <1>6

LEMMA ModeDestroy ==
    ASSUME Types, ModeInv, OrderedInv, ModeHeld, NEW m \in Modules, Destroy(m), ~disorder'
    PROVE  ModeHeld'
<1>1. StateTypes /\ setup.vt \in BOOLEAN /\ setup.attached \in BOOLEAN
  BY TypesSplit DEF StateTypes, SetupType
<1>2. /\ Living(m) /\ pc[m] = "idle" /\ pc' = [pc EXCEPT ![m] = "gone"] /\ setup' = setup
      /\ original' = original /\ order' = RemoveFirst(order, m)
      /\ vt' = IF Kind(m) = "ansi" /\ canParse[m] THEN original[m] = 1 ELSE vt
      /\ Kind(m) = "ansi" => order[Len(order)] = m /\ \A k \in Modules : ~Probing(k)
  BY LivingLess DEF Destroy
<1>3. \A k \in Modules : Probing(k)' <=> Probing(k)
  BY <1>1, <1>2 DEF StateTypes, Probing, Kind
<1>4. \A k, j \in Modules : Probing(k)' /\ Probing(j)' => k = j
  BY <1>3 DEF ModeHeld
<1>5. CASE Kind(m) = "ansi"
  <2>1. \A k \in Modules : ~Probing(k)'
    BY <1>2, <1>3, <1>5
  <2>2. m \in ToSet(order)
    BY <1>2, <1>5 DEF OrderedInv
  <2>3. PICK k \in 1 .. Len(order) : order[k] = m /\ order' = RemoveAt(order, k)
    BY <1>1, <1>2, <2>2, RemoveFirstAt DEF StateTypes
  <2>4. PICK n \in Nat : n = Len(order)
    BY <1>1, LenProperties DEF StateTypes
  <2>5. k = n
    <3>1. n \in 1 .. Len(order) /\ order[n] = order[k]
      BY <1>2, <1>5, <2>3, <2>4
    <3>2. QED
      BY <3>1 DEF OrderedInv, Distinct
  <2>6. order' \in Seq(Modules) /\ Len(order') = n - 1 /\ \A i \in 1 .. n - 1 : order'[i] = order[i]
    <3>1. /\ order' \in Seq(Modules) /\ Len(order') = n - 1
          /\ \A i \in 1 .. n - 1 : order'[i] = IF i < n THEN order[i] ELSE order[i + 1]
      BY <1>1, <2>3, <2>4, <2>5, RemoveAtProperties DEF StateTypes
    <3>2. QED
      BY <3>1
  <2>7. (order' # <<>> <=> n > 1) /\ order # <<>> /\ n \in 1 .. Len(order)
    BY <1>1, <2>3, <2>4, <2>5, <2>6, EmptySeq DEF StateTypes
  <2>8. original[m] = Found(setup.vt \/ (setup.attached /\ n > 1))
    BY <1>2, <1>5, <2>4, <2>7 DEF ModeHeld
  <2>9. vt' = (setup.vt \/ (setup.attached /\ n > 1))
    <3>1. canParse[m] = setup.attached
      BY <1>1, <1>2, <1>5 DEF ModeInv, Colored, StateTypes
    <3>2. CASE setup.attached
      BY <1>1, <1>2, <1>5, <2>8, <3>1, <3>2 DEF Found
    <3>3. CASE ~setup.attached
      <4>1. vt' = vt /\ vt = setup.vt
        BY <1>1, <1>2, <3>1, <3>3 DEF ModeHeld, StateTypes
      <4>2. QED
        BY <1>1, <3>3, <4>1
    <3>4. QED
      BY <1>1, <3>2, <3>3
  <2>10. vt' = (setup'.vt \/ (setup'.attached /\ order' # <<>>))
    BY <1>1, <1>2, <2>7, <2>9
  <2>11. \A i \in 1 .. n - 1 : original'[order'[i]] = Found(setup.vt \/ (setup.attached /\ i > 1))
    <3>1. \A i \in 1 .. n - 1 : i \in 1 .. Len(order)
      BY <2>4
    <3>2. QED
      BY <1>2, <2>6, <3>1 DEF ModeHeld
  <2>12. QED
    BY <1>2, <1>4, <2>1, <2>6, <2>10, <2>11 DEF ModeHeld
<1>6. CASE Kind(m) # "ansi"
  <2>1. m \notin ToSet(order)
    BY <1>6 DEF OrderedInv
  <2>2. order' = order /\ vt' = vt
    BY <1>1, <1>2, <1>6, <2>1, RemoveFirstAt DEF StateTypes
  <2>3. QED
    BY <1>2, <1>3, <1>4, <2>2 DEF ModeHeld
<1>7. QED
  BY <1>5, <1>6

LEMMA ModeKeptStep ==
    ASSUME Types, MutexInv, ModeInv, OrderedInv, ModeKept, [Next]_vars
    PROVE  ModeKept'
<1>1. SUFFICES ASSUME ~disorder'
               PROVE  ModeHeld'
  BY DEF ModeKept, ModeHeld
<1>2. ASSUME NEW m \in Modules, NEW md \in Modes, Probe(m, md)
      PROVE  ModeHeld'
  <2>1. ModeHeld
    BY <1>1, <1>2 DEF Probe, ModeKept, ModeHeld
  <2>2. QED
    BY <1>1, <1>2, <2>1, ModeProbe
<1>3. ASSUME NEW m \in Modules, Instantiate(m)
      PROVE  ModeHeld'
  <2>1. ModeHeld
    BY <1>1, <1>3 DEF Instantiate, ModeKept, ModeHeld
  <2>2. QED
    BY <1>3, <2>1, ModeInstantiate
<1>4. ASSUME NEW m \in Modules, Destroy(m)
      PROVE  ModeHeld'
  <2>1. ModeHeld
    BY <1>1, <1>4 DEF Destroy, ModeKept, ModeHeld
  <2>2. QED
    BY <1>1, <1>4, <2>1, ModeDestroy
<1>5. CASE /\ \A m \in Modules : ~Instantiate(m) /\ ~Destroy(m)
           /\ \A m \in Modules, md \in Modes : ~Probe(m, md)
  <2>1. order' = order /\ vt' = vt /\ setup' = setup /\ \A k \in Modules : Kind(k)' = Kind(k)
    BY <1>5, LivingSame, SetupStays, KindsKept
  <2>2. /\ disorder' = disorder
        /\ \A k \in Modules : pc'[k] = "probed" <=> pc[k] = "probed"
        /\ \A k \in Modules : Kind(k) = "ansi" => original'[k] = original[k]
    BY <1>5, ProbingSame
  <2>3. ModeHeld
    BY <1>1, <2>2 DEF ModeKept, ModeHeld
  <2>4. \A k \in Modules : Probing(k)' <=> Probing(k)
    BY <2>1, <2>2 DEF Probing
  <2>5. \A i \in 1 .. Len(order) : original'[order[i]] = Found(setup.vt \/ (setup.attached /\ i > 1))
    BY <2>2, <2>3, OrderMembers DEF ModeHeld
  <2>6. \A k \in Modules : Probing(k) => original'[k] = Found(vt)
    BY <2>2, <2>3 DEF ModeHeld, Probing
  <2>7. QED
    BY <2>1, <2>3, <2>4, <2>5, <2>6 DEF ModeHeld
<1>6. QED
  BY <1>2, <1>3, <1>4, <1>5

-----------------------------------------------------------------------------
(* The codes in the buffer.                                                *)

\* A step of module m that writes items: only an ANSI module writes codes.
Writes(m, items) ==
    /\ items \in Seq(Items) /\ Passes(items)
    /\ \A i \in 1 .. Len(items) : items[i].code >= 0 =>
          Kind(m) = "ansi" /\ enable[m] /\ items[i].auto = (mode[m] = "automatic")
    /\ Living(m) /\ Living(m)' /\ vt' = vt /\ disorder' = disorder

\* A step that writes nothing.
WritesNothing ==
    /\ buffer' = buffer /\ terminal'.raw = terminal.raw
    /\ vt => vt'
    /\ disorder => disorder'
    /\ \A k \in Modules : Living(k) => Living(k)'

LEMMA WritesText ==
    ASSUME Types, NEW m \in Modules, NEW t \in Texts, NEW w \in Words, LogToStream(<<Text(t, w)>>),
           Living(m), Living(m)', vt' = vt, disorder' = disorder
    PROVE  \E items : Writes(m, items)
<1>1. PICK items : TextItems(items, t, w) /\ Passes(items) /\ Len(buffer') <= setup.capacity
  BY TextWritten
<1>2. \A i \in 1 .. Len(items) : items[i].code < 0 /\ items[i].code \in Int
  <2>1. items \in Seq(Items) /\ \A i \in 1 .. Len(items) : items[i].code < 0
    BY <1>1 DEF TextItems
  <2>2. \A i \in 1 .. Len(items) : items[i] \in Items
    BY <2>1, ElementOfSeq
  <2>3. \A it \in Items : it.code \in Int
    BY DEF Items, Codes, ResetCode
  <2>4. QED
    BY <2>1, <2>2, <2>3
<1>3. \A i \in 1 .. Len(items) : ~ (items[i].code >= 0)
  BY <1>2
<1>4. Writes(m, items)
  BY <1>1, <1>3 DEF Writes, TextItems
<1>5. QED
  BY <1>4

LEMMA WritesCodes ==
    ASSUME Types, NEW m \in Modules, NEW a \in Attributes, SetAnsiColor(m, a),
           Kind(m) = "ansi", enable[m],
           Living(m), Living(m)', vt' = vt, disorder' = disorder
    PROVE  \E items : Writes(m, items)
<1>1. PICK items : CodeItemsOf(items, m, current[m], a) /\ Passes(items) /\ Len(buffer') <= setup.capacity
  BY CodesWritten
<1>2. Writes(m, items)
  BY <1>1 DEF Writes, CodeItemsOf
<1>3. QED
  BY <1>2

LEMMA Win32WritesNothing ==
    ASSUME Types, NEW m \in Modules, NEW w \in Words, SetWin32Word(m, w),
           vt' = vt, disorder' = disorder, \A k \in Modules : Living(k) => Living(k)'
    PROVE  WritesNothing
BY Win32Set, ConsoleSet DEF WritesNothing

LEMMA StepWrites ==
    ASSUME Types, MutexInv, [Next]_vars
    PROVE  \/ FlushStream
           \/ \E m \in Modules : \E items : Writes(m, items)
           \/ WritesNothing
<1> DEFINE Goal == \/ FlushStream
                   \/ \E m \in Modules : \E items : Writes(m, items)
                   \/ WritesNothing
<1>1. StateTypes
  BY TypesSplit
<1>2. CASE UNCHANGED vars
  BY <1>2 DEF vars, moduleVars, WritesNothing, Living
<1>3. ASSUME NEW m \in Modules, NEW md \in Modes, Probe(m, md)
      PROVE  Goal
  BY <1>1, <1>3 DEF Probe, Goto, StateTypes, WritesNothing, Living
<1>4. ASSUME NEW m \in Modules, NEW md \in Modes, SetColorMode(m, md)
      PROVE  Goal
  BY <1>4 DEF SetColorMode, WritesNothing, Living
<1>5. ASSUME NEW m \in Modules, Instantiate(m)
      PROVE  Goal
  <2>1. /\ disorder' = disorder /\ buffer' = buffer
        /\ \A k \in Modules : Living(k) => Living(k)'
        /\ vt => vt'
    <3>1. CASE Kind(m) = "ansi"
      BY <1>1, <1>5, <3>1, LivingMore DEF Instantiate, StateTypes
    <3>2. CASE Kind(m) # "ansi"
      BY <1>5, <3>2, LivingMore DEF Instantiate
    <3>3. QED
      BY <3>1, <3>2
  <2>2. terminal'.raw = terminal.raw
    <3>1. CASE Kind(m) = "win32"
      <4>1. SetConsole(original[m]) /\ original[m] \in Words
        BY <1>1, <1>5, <3>1 DEF Instantiate, WriteBackAttribute, StateTypes
      <4>2. QED
        BY <4>1, ConsoleSet
    <3>2. CASE Kind(m) # "win32"
      BY <1>5, <3>2 DEF Instantiate, SetVirtualTerminal
    <3>3. QED
      BY <3>1, <3>2
  <2>3. QED
    BY <2>1, <2>2 DEF WritesNothing
<1>6. ASSUME NEW m \in Modules, Destroy(m) \/ Flush(m)
      PROVE  Goal
  BY <1>6 DEF Destroy, Flush
<1>7. ASSUME NEW m \in Modules, NEW x \in Messages, LogPlain(m, x) \/ LogColored(m, x)
      PROVE  Goal
  BY <1>1, <1>7 DEF LogPlain, LogColored, Goto, StateTypes, WritesNothing, Living
<1>8. ASSUME NEW m \in Modules, WritePlain(m)
      PROVE  Goal
  <2>1. PlainText(setup.type, msg[m]) \in Texts
    BY <1>8, TextsOf DEF WritePlain
  <2>2. Living(m) /\ Living(m)' /\ vt' = vt /\ disorder' = disorder
    BY <1>1, <1>8 DEF WritePlain, Goto, StateTypes, Living
  <2>3. LogToStream(<<Text(PlainText(setup.type, msg[m]), DefaultWord)>>)
    BY <1>8 DEF WritePlain
  <2>4. QED
    BY <2>1, <2>2, <2>3, WritesText, SetupAssumption
<1>9. ASSUME NEW m \in Modules, BeforeLog(m)
      PROVE  Goal
  BY <1>1, <1>9 DEF BeforeLog, Goto, StateTypes, WritesNothing, Living
<1>10. ASSUME NEW m \in Modules, SetPartColor(m)
       PROVE  Goal
  <2>1. /\ pc[m] \in Amid /\ vt' = vt /\ disorder' = disorder
        /\ Living(m) /\ Living(m)' /\ \A k \in Modules : Living(k) => Living(k)'
    BY <1>1, <1>10 DEF SetPartColor, Goto, StateTypes, Amid, Living
  <2>2. PICK a \in Attributes : a = PartColor(m)
    BY <2>1, PartColorType
  <2>3. CASE enable[m] /\ Kind(m) = "ansi"
    <3>1. SetAnsiColor(m, a)
      BY <1>10, <2>2, <2>3 DEF SetPartColor
    <3>2. QED
      BY <2>1, <2>3, <3>1, WritesCodes
  <2>4. CASE enable[m] /\ Kind(m) = "win32"
    <3>1. PICK w \in Words : w = ConvertToMachineAttribute(a, original[m])
      BY <1>1, Win32Shows, ShownWord DEF StateTypes
    <3>2. SetWin32Word(m, w)
      BY <1>10, <2>2, <2>4, <3>1 DEF SetPartColor, SetWin32Color
    <3>3. QED
      BY <2>1, <3>2, Win32WritesNothing
  <2>5. CASE ~ (enable[m] /\ Kind(m) \in {"ansi", "win32"})
    BY <1>10, <2>1, <2>5 DEF SetPartColor, WritesNothing
  <2>6. QED
    BY <2>3, <2>4, <2>5
<1>11. ASSUME NEW m \in Modules, WritePart(m)
       PROVE  Goal
  <2>1. pc[m] \in Amid /\ Living(m) /\ vt' = vt /\ disorder' = disorder
    BY <1>11 DEF WritePart, Amid, Living
  <2>2. Living(m)'
    <3>1. pc' = [pc EXCEPT ![m] = "color"] \/ pc' = [pc EXCEPT ![m] = "after"]
      BY <1>11 DEF WritePart, Goto
    <3>2. QED
      BY <1>1, <3>1 DEF StateTypes, Living
  <2>3. TextParts(setup.type, msg[m])[part[m]] \in Texts
    BY <2>1, TextsOf
  <2>4. Shown(IF enable[m] THEN PartColor(m) ELSE NoColor, DefaultWord) \in Words
    BY <2>1, WantType
  <2>5. QED
    BY <1>11, <2>1, <2>2, <2>3, <2>4, WritesText DEF WritePart
<1>12. ASSUME NEW m \in Modules, AfterLog(m)
       PROVE  Goal
  <2>1. /\ vt' = vt /\ disorder' = disorder
        /\ Living(m) /\ Living(m)' /\ \A k \in Modules : Living(k) => Living(k)'
    BY <1>1, <1>12 DEF AfterLog, Leave, Goto, StateTypes, Living
  <2>2. CASE enable[m] /\ Kind(m) = "ansi"
    <3>1. SetAnsiColor(m, NoColor)
      BY <1>12, <2>2 DEF AfterLog, AfterAnsiLog
    <3>2. QED
      BY <2>1, <2>2, <3>1, NoColorType, WritesCodes
  <2>3. CASE enable[m] /\ Kind(m) = "win32"
    <3>1. AfterWin32Log(m) /\ original[m] \in Words
      BY <1>1, <1>12, <2>3 DEF AfterLog, StateTypes
    <3>2. CASE original[m] # word[m]
      BY <2>1, <3>1, <3>2, Win32WritesNothing DEF AfterWin32Log
    <3>3. CASE original[m] = word[m]
      BY <2>1, <3>1, <3>3 DEF AfterWin32Log, WritesNothing
    <3>4. QED
      BY <3>2, <3>3
  <2>4. CASE ~ (enable[m] /\ Kind(m) \in {"ansi", "win32"})
    BY <1>12, <2>1, <2>4 DEF AfterLog, WritesNothing
  <2>5. QED
    BY <2>2, <2>3, <2>4
<1>13. QED
  BY <1>2, <1>3, <1>4, <1>5, <1>6, <1>7, <1>8, <1>9, <1>10, <1>11, <1>12 DEF Next

\* A code that may be in the buffer, given the mode of the console.
Clean(it, on) == it.code >= 0 => (setup.attached => on) /\ (it.auto => setup.attached)

LEMMA CodesClean ==
    ASSUME Types, ModeInv, OrderedInv, ModeHeld, NEW m \in Modules, NEW items, Writes(m, items)
    PROVE  \A i \in 1 .. Len(items) : Clean(items[i], vt)
<1>1. SUFFICES ASSUME NEW i \in 1 .. Len(items), items[i].code >= 0
               PROVE  (setup.attached => vt) /\ (items[i].auto => setup.attached)
  BY DEF Clean
<1>2. Kind(m) = "ansi" /\ enable[m] /\ items[i].auto = (mode[m] = "automatic") /\ Living(m)
  BY <1>1 DEF Writes
<1>3. m \in ToSet(order)
  BY <1>2 DEF OrderedInv
<1>4. order # <<>>
  <2>1. order \in Seq(Modules) /\ ToSet(order) = {order[j] : j \in 1 .. Len(order)}
    BY TypesSplit, ToSetOf DEF StateTypes
  <2>2. QED
    BY <1>3, <2>1, EmptySeq
<1>5. setup.attached => vt
  BY <1>4 DEF ModeHeld
<1>6. items[i].auto => setup.attached
  BY <1>2 DEF ModeInv, Parses
<1>7. QED
  BY <1>5, <1>6

LEMMA PassesClean ==
    ASSUME Types, NEW items \in Seq(Items), Passes(items),
           \A i \in 1 .. Len(buffer) : Clean(buffer[i], vt),
           \A i \in 1 .. Len(items) : Clean(items[i], vt)
    PROVE  /\ \A i \in 1 .. Len(buffer') : Clean(buffer'[i], vt)
           /\ terminal'.raw = terminal.raw
<1> DEFINE G == {it \in Items : Clean(it, vt)}
<1>1. buffer \in Seq(Items)
  BY DEF Types
<1>2. (\A i \in 1 .. Len(buffer) : buffer[i] \in G) /\ (\A i \in 1 .. Len(items) : items[i] \in G)
  BY <1>1, ElementOfSeq
<1>3. \A i \in 1 .. Len(buffer') : buffer'[i] \in G
  <2> HIDE DEF G
  <2>1. QED
    BY <1>2, PassesHolds
<1>4. \A it : Clean(it, vt) => (it.code >= 0 /\ it.auto => vt /\ setup.attached)
  BY DEF Clean
<1>5. terminal'.raw = terminal.raw
  BY <1>4, PassesRaw
<1>6. QED
  BY <1>3, <1>5

LEMMA BufferStep ==
    ASSUME Types, MutexInv, ModeInv, OrderedInv, ModeKept, BufferInv, AutomaticIsClean, [Next]_vars
    PROVE  BufferInv' /\ AutomaticIsClean'
<1>1. setup' = setup
  BY SetupStays
<1> DEFINE Goal ==
        /\ buffer' # <<>> => \E m \in Modules : Living(m)'
        /\ ~disorder' => /\ \A i \in 1 .. Len(buffer') : Clean(buffer'[i], vt')
                         /\ ~terminal'.raw
<1>2. SUFFICES Goal
  BY <1>1 DEF BufferInv, AutomaticIsClean, Clean
<1>3. /\ buffer # <<>> => \E m \in Modules : Living(m)
      /\ ~disorder => ModeHeld /\ ~terminal.raw /\ \A i \in 1 .. Len(buffer) : Clean(buffer[i], vt)
  BY DEF ModeKept, ModeHeld, BufferInv, AutomaticIsClean, Clean
<1>4. disorder => disorder'
  BY DEF Next, vars, Probe, SetColorMode, Instantiate, Destroy, LogPlain, LogColored, WritePlain,
         Flush, BeforeLog, SetPartColor, WritePart, AfterLog
<1>5. CASE FlushStream
  <2>1. Passes(<<>>) /\ buffer' = <<>> /\ <<>> \in Seq(Items) /\ Len(<<>>) = 0
    BY <1>5, Flushed
  <2>2. ASSUME ~disorder
        PROVE  terminal'.raw = terminal.raw
    <3>1. PICK items \in Seq(Items) : items = <<>>
      BY <2>1
    <3>2. Passes(items) /\ \A i \in 1 .. Len(items) : Clean(items[i], vt)
      BY <2>1, <3>1
    <3>3. QED
      BY <1>3, <2>2, <3>2, PassesClean
  <2>3. QED
    BY <1>3, <1>4, <2>1, <2>2
<1>6. ASSUME NEW m \in Modules, NEW items, Writes(m, items)
      PROVE  Goal
  <2>1. /\ items \in Seq(Items) /\ Passes(items)
        /\ Living(m)' /\ vt' = vt /\ disorder' = disorder
    BY <1>6 DEF Writes
  <2>2. ASSUME ~disorder
        PROVE  /\ \A i \in 1 .. Len(buffer') : Clean(buffer'[i], vt)
               /\ terminal'.raw = terminal.raw
    <3>1. \A i \in 1 .. Len(items) : Clean(items[i], vt)
      BY <1>3, <1>6, <2>2, CodesClean
    <3>2. QED
      BY <1>3, <2>1, <2>2, <3>1, PassesClean
  <2>3. QED
    BY <1>3, <2>1, <2>2
<1>7. CASE WritesNothing
  <2>1. /\ buffer' = buffer /\ terminal'.raw = terminal.raw /\ (vt => vt')
        /\ \A k \in Modules : Living(k) => Living(k)'
    BY <1>7 DEF WritesNothing
  <2>2. \A it : Clean(it, vt) => Clean(it, vt')
    BY <2>1 DEF Clean
  <2>3. QED
    BY <1>3, <1>4, <2>1, <2>2
<1>8. QED
  BY <1>5, <1>6, <1>7, StepWrites

-----------------------------------------------------------------------------
(* What the modules know of the colours.                                   *)

\* Once disturbed, or in disorder, the console stays so.
LEMMA HistoriesKept ==
    ASSUME [Next]_vars
    PROVE  (disturbed => disturbed') /\ (disorder => disorder') /\ (ColorsHold' => ColorsHold)
<1>1. disorder => disorder'
  BY DEF Next, vars, Probe, SetColorMode, Instantiate, Destroy, LogPlain, LogColored, WritePlain,
         Flush, BeforeLog, SetPartColor, WritePart, AfterLog
<1>2. ASSUME NEW m \in Modules, Instantiate(m)
      PROVE  disturbed => disturbed'
  <2>1. CASE Kind(m) = "ansi"
    BY <1>2, <2>1 DEF Instantiate, SetVirtualTerminal
  <2>2. CASE Kind(m) = "win32"
    BY <1>2, <2>2 DEF Instantiate, WriteBackAttribute
  <2>3. CASE Kind(m) # "ansi" /\ Kind(m) # "win32"
    BY <1>2, <2>3 DEF Instantiate
  <2>4. QED
    BY <2>1, <2>2, <2>3
<1>3. disturbed => disturbed'
  BY <1>2 DEF Next, vars, Probe, SetColorMode, Destroy, LogPlain, LogColored, WritePlain,
              Flush, BeforeLog, SetPartColor, WritePart, AfterLog
<1>4. ColorsHold' => ColorsHold
  BY <1>1, <1>3, SetupStays, KindsKept DEF ColorsHold, Uses
<1>5. QED
  BY <1>1, <1>3, <1>4

\* What a step does to the place and the text of a module.
LEMMA PartColorKept ==
    ASSUME NEW k \in Modules, setup' = setup, part'[k] = part[k], msg'[k] = msg[k]
    PROVE  PartColor(k)' = PartColor(k)
BY DEF PartColor

\* Parsing is not turned on or off amid a message.
LEMMA EnableKept ==
    ASSUME Types, [Next]_vars, ~disturbed', NEW k \in Modules, Kind(k) \in {"ansi", "win32"},
           pc'[k] \in Coloring
    PROVE  /\ enable'[k] = enable[k]
           /\ pc[k] \in Coloring \cup {"before"}
<1>1. StateTypes
  BY TypesSplit
<1> DEFINE Goal == enable'[k] = enable[k] /\ pc[k] \in Coloring \cup {"before"}
<1>2. CASE UNCHANGED vars
  BY <1>2 DEF vars, moduleVars
<1>3. ASSUME NEW m \in Modules, NEW md \in Modes, Probe(m, md)
      PROVE  Goal
  BY <1>1, <1>3 DEF Probe, Goto, StateTypes, Coloring
<1>4. ASSUME NEW m \in Modules, NEW md \in Modes, SetColorMode(m, md)
      PROVE  Goal
  <2>1. /\ pc' = pc /\ enable' = [enable EXCEPT ![m] = Parses(m, md, canParse[m])]
        /\ disturbed' = (disturbed \/ /\ pc[m] \in {"color", "text", "after"}
                                      /\ enable'[m] # enable[m])
    BY <1>4 DEF SetColorMode
  <2>2. QED
    BY <1>1, <2>1 DEF StateTypes, Coloring
<1>5. ASSUME NEW m \in Modules, Instantiate(m)
      PROVE  Goal
  <2>1. pc' = [pc EXCEPT ![m] = "idle"] /\ \E b : enable' = [enable EXCEPT ![m] = b]
    BY <1>5 DEF Instantiate, Goto
  <2>2. QED
    BY <1>1, <2>1 DEF StateTypes, Coloring
<1>6. ASSUME NEW m \in Modules, Destroy(m)
      PROVE  Goal
  BY <1>1, <1>6 DEF Destroy, Goto, moduleVars, StateTypes, Coloring
<1>7. ASSUME NEW m \in Modules, NEW x \in Messages, LogPlain(m, x) \/ LogColored(m, x)
      PROVE  Goal
  BY <1>1, <1>7 DEF LogPlain, LogColored, Goto, StateTypes, Coloring
<1>8. ASSUME NEW m \in Modules, WritePlain(m)
      PROVE  Goal
  BY <1>1, <1>8 DEF WritePlain, Goto, StateTypes, Coloring
<1>9. ASSUME NEW m \in Modules, Flush(m)
      PROVE  Goal
  BY <1>9 DEF Flush, moduleVars
<1>10. ASSUME NEW m \in Modules, BeforeLog(m)
       PROVE  Goal
  BY <1>1, <1>10 DEF BeforeLog, Goto, StateTypes, Coloring
<1>11. ASSUME NEW m \in Modules, SetPartColor(m)
       PROVE  Goal
  BY <1>1, <1>11 DEF SetPartColor, Goto, StateTypes, Coloring
<1>12. ASSUME NEW m \in Modules, WritePart(m)
       PROVE  Goal
  <2>1. pc[m] = "text" /\ enable' = enable
    BY <1>12 DEF WritePart
  <2>2. pc' = [pc EXCEPT ![m] = "color"] \/ pc' = [pc EXCEPT ![m] = "after"]
    BY <1>12 DEF WritePart, Goto
  <2>3. QED
    BY <1>1, <2>1, <2>2 DEF StateTypes, Coloring
<1>13. ASSUME NEW m \in Modules, AfterLog(m)
       PROVE  Goal
  BY <1>1, <1>13 DEF AfterLog, Leave, Goto, StateTypes, Coloring
<1>14. QED
  BY <1>2, <1>3, <1>4, <1>5, <1>6, <1>7, <1>8, <1>9, <1>10, <1>11, <1>12, <1>13 DEF Next

\* CurrentInv for one module.
Knows(k) ==
    /\ ~ (pc[k] \in Coloring /\ enable[k]) => current[k] = NoColor
    /\ pc[k] = "text" /\ enable[k] => current[k] = PartColor(k)

LEMMA CurrentStep ==
    ASSUME Types, MutexInv, CurrentInv, [Next]_vars
    PROVE  CurrentInv'
<1>1. StateTypes /\ setup' = setup
  BY TypesSplit, SetupStays
<1>2. SUFFICES ASSUME ~disturbed', NEW k \in Modules, Kind(k) = "ansi"
               PROVE  Knows(k)'
  BY KindsKept DEF CurrentInv, Knows
<1>3. Knows(k)
  BY <1>2, HistoriesKept DEF CurrentInv, Knows
<1>4. ASSUME current'[k] = current[k], ~ (pc'[k] \in Coloring), ~ (pc[k] \in Coloring)
      PROVE  Knows(k)'
  BY <1>3, <1>4 DEF Knows, Coloring
<1>5. ASSUME pc'[k] = pc[k], enable'[k] = enable[k], current'[k] = current[k],
             part'[k] = part[k], msg'[k] = msg[k]
      PROVE  Knows(k)'
  <2>1. PartColor(k)' = PartColor(k)
    BY <1>1, <1>5, PartColorKept
  <2>2. QED
    BY <1>3, <1>5, <2>1 DEF Knows
<1>6. CASE UNCHANGED vars
  BY <1>5, <1>6 DEF vars, moduleVars
<1>7. ASSUME NEW m \in Modules, NEW md \in Modes, Probe(m, md)
      PROVE  Knows(k)'
  <2>1. CASE k = m
    BY <1>1, <1>4, <1>7, <2>1 DEF Probe, Goto, StateTypes, Coloring
  <2>2. CASE k # m
    BY <1>1, <1>5, <1>7, <2>2 DEF Probe, Goto, StateTypes
  <2>3. QED
    BY <2>1, <2>2
<1>8. ASSUME NEW m \in Modules, NEW md \in Modes, SetColorMode(m, md)
      PROVE  Knows(k)'
  <2>1. pc' = pc /\ current' = current /\ part' = part /\ msg' = msg
    BY <1>8 DEF SetColorMode
  <2>2. CASE pc[k] \in Coloring
    BY <1>2, <1>5, <2>1, <2>2, EnableKept
  <2>3. CASE ~ (pc[k] \in Coloring)
    BY <1>4, <2>1, <2>3
  <2>4. QED
    BY <2>2, <2>3
<1>9. ASSUME NEW m \in Modules, Instantiate(m)
      PROVE  Knows(k)'
  <2>1. /\ pc[m] = "probed" /\ pc' = [pc EXCEPT ![m] = "idle"]
        /\ \E b : enable' = [enable EXCEPT ![m] = b]
        /\ current' = current /\ part' = part /\ msg' = msg
    BY <1>9 DEF Instantiate, Goto
  <2>2. CASE k = m
    BY <1>1, <1>4, <2>1, <2>2 DEF StateTypes, Coloring
  <2>3. CASE k # m
    BY <1>1, <1>5, <2>1, <2>3 DEF StateTypes
  <2>4. QED
    BY <2>2, <2>3
<1>10. ASSUME NEW m \in Modules, Destroy(m)
       PROVE  Knows(k)'
  <2>1. CASE k = m
    BY <1>1, <1>4, <1>10, <2>1 DEF Destroy, Goto, moduleVars, StateTypes, Coloring
  <2>2. CASE k # m
    BY <1>1, <1>5, <1>10, <2>2 DEF Destroy, Goto, moduleVars, StateTypes
  <2>3. QED
    BY <2>1, <2>2
<1>11. ASSUME NEW m \in Modules, NEW x \in Messages, LogPlain(m, x) \/ LogColored(m, x)
       PROVE  Knows(k)'
  <2>1. CASE k = m
    BY <1>1, <1>4, <1>11, <2>1 DEF LogPlain, LogColored, Goto, StateTypes, Coloring
  <2>2. CASE k # m
    BY <1>1, <1>5, <1>11, <2>2 DEF LogPlain, LogColored, Goto, StateTypes
  <2>3. QED
    BY <2>1, <2>2
<1>12. ASSUME NEW m \in Modules, WritePlain(m)
       PROVE  Knows(k)'
  <2>1. CASE k = m
    BY <1>1, <1>4, <1>12, <2>1 DEF WritePlain, Goto, StateTypes, Coloring
  <2>2. CASE k # m
    BY <1>1, <1>5, <1>12, <2>2 DEF WritePlain, Goto, StateTypes
  <2>3. QED
    BY <2>1, <2>2
<1>13. ASSUME NEW m \in Modules, Flush(m)
       PROVE  Knows(k)'
  BY <1>5, <1>13 DEF Flush, moduleVars
<1>14. ASSUME NEW m \in Modules, BeforeLog(m)
       PROVE  Knows(k)'
  <2>1. pc[m] = "before" /\ pc' = [pc EXCEPT ![m] = "color"] /\ enable' = enable
        /\ current' = current /\ part' = part /\ msg' = msg
    BY <1>14 DEF BeforeLog, Goto
  <2>2. CASE k = m
    BY <1>1, <1>3, <2>1, <2>2 DEF StateTypes, Knows, Coloring
  <2>3. CASE k # m
    BY <1>1, <1>5, <2>1, <2>3 DEF StateTypes
  <2>4. QED
    BY <2>2, <2>3
<1>15. ASSUME NEW m \in Modules, SetPartColor(m)
       PROVE  Knows(k)'
  <2>1. pc[m] = "color" /\ pc' = [pc EXCEPT ![m] = "text"] /\ enable' = enable
        /\ part' = part /\ msg' = msg
    BY <1>15 DEF SetPartColor, Goto
  <2>2. CASE k = m
    <3>1. PartColor(k)' = PartColor(k)
      BY <1>1, <2>1, PartColorKept
    <3>2. pc'[k] = "text"
      BY <1>1, <2>1, <2>2 DEF StateTypes
    <3>3. CASE enable[m]
      <4>1. SetAnsiColor(m, PartColor(m))
        BY <1>2, <1>15, <2>2, <3>3 DEF SetPartColor
      <4>2. current'[k] = PartColor(k)
        BY <1>1, <2>2, <4>1 DEF SetAnsiColor, StateTypes
      <4>3. QED
        BY <2>1, <2>2, <3>1, <3>2, <3>3, <4>2 DEF Knows, Coloring
    <3>4. CASE ~enable[m]
      <4>1. current' = current
        BY <1>15, <3>4 DEF SetPartColor
      <4>2. QED
        BY <1>3, <2>1, <2>2, <3>4, <4>1 DEF Knows
    <3>5. QED
      BY <3>3, <3>4
  <2>3. CASE k # m
    <3>1. current'[k] = current[k]
      <4>1. CASE enable[m] /\ Kind(m) = "ansi"
        <5>1. SetAnsiColor(m, PartColor(m))
          BY <1>15, <4>1 DEF SetPartColor
        <5>2. QED
          BY <1>1, <2>3, <5>1 DEF SetAnsiColor, StateTypes
      <4>2. CASE enable[m] /\ Kind(m) = "win32"
        BY <1>15, <4>2 DEF SetPartColor, SetWin32Color, SetWin32Word
      <4>3. CASE ~ (enable[m] /\ Kind(m) \in {"ansi", "win32"})
        BY <1>15, <4>3 DEF SetPartColor
      <4>4. QED
        BY <4>1, <4>2, <4>3
    <3>2. QED
      BY <1>1, <1>5, <2>1, <2>3, <3>1 DEF StateTypes
  <2>4. QED
    BY <2>2, <2>3
<1>16. ASSUME NEW m \in Modules, WritePart(m)
       PROVE  Knows(k)'
  <2>1. pc[m] = "text" /\ enable' = enable /\ current' = current /\ msg' = msg
    BY <1>16 DEF WritePart
  <2>2. /\ \/ pc' = [pc EXCEPT ![m] = "color"]
           \/ pc' = [pc EXCEPT ![m] = "after"]
        /\ part' = part \/ part' = [part EXCEPT ![m] = part[m] + 1]
    BY <1>1, <1>16 DEF WritePart, Goto, StateTypes
  <2>3. CASE k = m
    BY <1>1, <1>3, <2>1, <2>2, <2>3 DEF StateTypes, Knows, Coloring
  <2>4. CASE k # m
    BY <1>1, <1>5, <2>1, <2>2, <2>4 DEF StateTypes
  <2>5. QED
    BY <2>3, <2>4
<1>17. ASSUME NEW m \in Modules, AfterLog(m)
       PROVE  Knows(k)'
  <2>1. pc[m] = "after" /\ pc' = [pc EXCEPT ![m] = "idle"] /\ enable' = enable
        /\ part' = [part EXCEPT ![m] = 1] /\ msg' = [msg EXCEPT ![m] = Nobody]
    BY <1>17 DEF AfterLog, Leave, Goto
  <2>2. CASE k = m
    <3>1. pc'[k] = "idle"
      BY <1>1, <2>1, <2>2 DEF StateTypes
    <3>2. current'[k] = NoColor
      <4>1. CASE enable[m]
        <5>1. SetAnsiColor(m, NoColor)
          BY <1>2, <1>17, <2>2, <4>1 DEF AfterLog, AfterAnsiLog
        <5>2. QED
          BY <1>1, <2>2, <5>1 DEF SetAnsiColor, StateTypes
      <4>2. CASE ~enable[m]
        BY <1>3, <1>17, <2>2, <4>2 DEF AfterLog, Knows
      <4>3. QED
        BY <4>1, <4>2
    <3>3. QED
      BY <3>1, <3>2 DEF Knows, Coloring
  <2>3. CASE k # m
    <3>1. current'[k] = current[k]
      <4>1. CASE enable[m] /\ Kind(m) = "ansi"
        <5>1. SetAnsiColor(m, NoColor)
          BY <1>17, <4>1 DEF AfterLog, AfterAnsiLog
        <5>2. QED
          BY <1>1, <2>3, <5>1 DEF SetAnsiColor, StateTypes
      <4>2. CASE enable[m] /\ Kind(m) = "win32"
        BY <1>17, <4>2 DEF AfterLog, AfterWin32Log, SetWin32Word
      <4>3. CASE ~ (enable[m] /\ Kind(m) \in {"ansi", "win32"})
        BY <1>17, <4>3 DEF AfterLog
      <4>4. QED
        BY <4>1, <4>2, <4>3
    <3>2. QED
      BY <1>1, <1>5, <2>1, <2>3, <3>1 DEF StateTypes
  <2>4. QED
    BY <2>2, <2>3
<1>18. QED
  BY <1>6, <1>7, <1>8, <1>9, <1>10, <1>11, <1>12, <1>13, <1>14, <1>15, <1>16, <1>17 DEF Next

\* Amid a message only the steps of the message matter to a module.
Alone(k) ==
    /\ pc'[k] = pc[k] /\ original'[k] = original[k] /\ word'[k] = word[k]
    /\ part'[k] = part[k] /\ msg'[k] = msg[k]

LEMMA AmidStep ==
    ASSUME Types, [Next]_vars, NEW k \in Modules,
           pc[k] \in Coloring \cup {"before"}, pc'[k] \in Coloring
    PROVE  BeforeLog(k) \/ SetPartColor(k) \/ WritePart(k) \/ Alone(k)
<1>1. StateTypes
  BY TypesSplit
<1> DEFINE Goal == BeforeLog(k) \/ SetPartColor(k) \/ WritePart(k) \/ Alone(k)
<1>2. CASE UNCHANGED vars
  BY <1>2 DEF vars, moduleVars, Alone
<1>3. ASSUME NEW m \in Modules, NEW md \in Modes, Probe(m, md)
      PROVE  Goal
  <2>1. pc[m] = "none" /\ \E w : original' = [original EXCEPT ![m] = w]
    BY <1>3 DEF Probe
  <2>2. k # m
    BY <2>1 DEF Coloring
  <2>3. QED
    BY <1>1, <1>3, <2>1, <2>2 DEF Probe, Goto, StateTypes, Alone
<1>4. ASSUME NEW m \in Modules, NEW md \in Modes, SetColorMode(m, md)
      PROVE  Goal
  BY <1>4 DEF SetColorMode, Alone
<1>5. ASSUME NEW m \in Modules, Instantiate(m)
      PROVE  Goal
  <2>1. /\ pc[m] = "probed" /\ pc' = [pc EXCEPT ![m] = "idle"]
        /\ Kind(m) = "ansi" => original' = original
        /\ Kind(m) # "ansi" => \A j \in Modules : j # m => original'[j] = original[j]
    BY <1>5, LivingMore
  <2>2. k # m
    BY <2>1 DEF Coloring
  <2>3. word' = word /\ part' = part /\ msg' = msg
    BY <1>5 DEF Instantiate
  <2>4. QED
    BY <1>1, <2>1, <2>2, <2>3 DEF StateTypes, Alone
<1>6. ASSUME NEW m \in Modules, Destroy(m)
      PROVE  Goal
  BY <1>1, <1>6 DEF Destroy, Goto, moduleVars, StateTypes, Coloring, Alone
<1>7. ASSUME NEW m \in Modules, NEW x \in Messages, LogPlain(m, x) \/ LogColored(m, x)
      PROVE  Goal
  BY <1>1, <1>7 DEF LogPlain, LogColored, Goto, StateTypes, Coloring, Alone
<1>8. ASSUME NEW m \in Modules, WritePlain(m)
      PROVE  Goal
  BY <1>1, <1>8 DEF WritePlain, Goto, StateTypes, Coloring, Alone
<1>9. ASSUME NEW m \in Modules, Flush(m)
      PROVE  Goal
  BY <1>9 DEF Flush, moduleVars, Alone
<1>10. ASSUME NEW m \in Modules, BeforeLog(m), k # m
       PROVE  Alone(k)
  <2>1. /\ pc' = [pc EXCEPT ![m] = "color"] /\ part' = part /\ msg' = msg
        /\ \/ original' = original /\ word' = word
           \/ \E w : original' = [original EXCEPT ![m] = w] /\ word' = [word EXCEPT ![m] = w]
    BY <1>10 DEF BeforeLog, Goto
  <2>2. QED
    BY <1>1, <1>10, <2>1 DEF StateTypes, Alone
<1>11. ASSUME NEW m \in Modules, SetPartColor(m), k # m
       PROVE  Alone(k)
  <2>1. pc' = [pc EXCEPT ![m] = "text"] /\ original' = original /\ part' = part /\ msg' = msg
    BY <1>11 DEF SetPartColor, Goto
  <2>2. word' = word \/ \E w : word' = [word EXCEPT ![m] = w]
    BY <1>11 DEF SetPartColor, SetAnsiColor, SetWin32Color, SetWin32Word
  <2>3. QED
    BY <1>1, <1>11, <2>1, <2>2 DEF StateTypes, Alone
<1>12. ASSUME NEW m \in Modules, WritePart(m), k # m
       PROVE  Alone(k)
  <2>1. /\ original' = original /\ word' = word /\ msg' = msg
        /\ \E p : pc' = [pc EXCEPT ![m] = p]
        /\ part' = part \/ part' = [part EXCEPT ![m] = part[m] + 1]
    BY <1>1, <1>12 DEF WritePart, Goto, StateTypes
  <2>2. QED
    BY <1>1, <1>12, <2>1 DEF StateTypes, Alone
<1>13. ASSUME NEW m \in Modules, AfterLog(m)
       PROVE  Goal
  <2>1. pc' = [pc EXCEPT ![m] = "idle"] /\ original' = original
        /\ part' = [part EXCEPT ![m] = 1] /\ msg' = [msg EXCEPT ![m] = Nobody]
    BY <1>13 DEF AfterLog, Leave, Goto
  <2>2. word' = word \/ \E w : word' = [word EXCEPT ![m] = w]
    BY <1>13 DEF AfterLog, AfterAnsiLog, SetAnsiColor, AfterWin32Log, SetWin32Word
  <2>3. k # m
    BY <1>1, <2>1 DEF StateTypes, Coloring
  <2>4. QED
    BY <1>1, <2>1, <2>2, <2>3 DEF StateTypes, Alone
<1>14. QED
  BY <1>2, <1>3, <1>4, <1>5, <1>6, <1>7, <1>8, <1>9, <1>10, <1>11, <1>12, <1>13 DEF Next

\* A stream that holds nothing holds nothing.
LEMMA NoCapacity ==
    ASSUME Types, setup.capacity = 0
    PROVE  buffer = <<>>
<1>1. buffer \in Seq(Items) /\ Len(buffer) <= 0
  BY TypesSplit
<1>2. QED
  BY <1>1, EmptySeq

\* Before a coloured message the win32 module finds the console's own colours.
LEMMA FoundWord ==
    ASSUME Types, MutexInv, ColorInv, ColorsHold, setup.attached,
           NEW m \in Modules, Kind(m) = "win32", pc[m] = "before"
    PROVE  terminal.attr = DefaultWord
<1>1. mutex = m
  BY DEF MutexInv, Amid
<1>2. Expected = DefaultWord
  BY <1>1 DEF Expected
<1>3. setup.capacity = 0
  BY DEF ColorsHold, Uses
<1>4. WordPath(<<>>, terminal.attr, DefaultWord)
  BY <1>2, <1>3, NoCapacity DEF ColorInv
<1>5. QED
  BY <1>4, NoItem

LEMMA WordStep ==
    ASSUME Types, MutexInv, WordInv, ColorInv, [Next]_vars
    PROVE  WordInv'
<1>1. StateTypes /\ setup' = setup
  BY TypesSplit, SetupStays
<1>2. SUFFICES ASSUME ColorsHold', setup.attached, NEW k \in Modules, Kind(k) = "win32",
                      enable'[k], pc'[k] \in Coloring
               PROVE  /\ original'[k] = DefaultWord
                      /\ pc'[k] = "text" => word'[k] = Shown(PartColor(k)', DefaultWord)
  BY <1>1, KindsKept DEF WordInv, Coloring
<1>3. ColorsHold /\ ~disturbed'
  BY <1>2, HistoriesKept DEF ColorsHold
<1>4. enable[k] /\ pc[k] \in Coloring \cup {"before"}
  BY <1>2, <1>3, EnableKept
<1>5. /\ pc[k] \in Coloring => original[k] = DefaultWord
      /\ pc[k] = "text" => word[k] = Shown(PartColor(k), DefaultWord)
  BY <1>2, <1>3, <1>4 DEF WordInv
<1>6. CASE Alone(k)
  <2>1. PartColor(k)' = PartColor(k)
    BY <1>1, <1>6, PartColorKept DEF Alone
  <2>2. QED
    BY <1>2, <1>5, <1>6, <2>1 DEF Alone
<1>7. CASE BeforeLog(k)
  <2>1. terminal.attr = DefaultWord
    BY <1>2, <1>3, <1>7, FoundWord DEF BeforeLog
  <2>2. original' = [original EXCEPT ![k] = terminal.attr] /\ pc' = [pc EXCEPT ![k] = "color"]
    BY <1>2, <1>4, <1>7 DEF BeforeLog, Goto
  <2>3. QED
    BY <1>1, <2>1, <2>2 DEF StateTypes
<1>8. CASE SetPartColor(k)
  <2>1. pc[k] = "color" /\ original' = original /\ part' = part /\ msg' = msg
    BY <1>8 DEF SetPartColor
  <2>2. original[k] = DefaultWord
    BY <1>5, <2>1 DEF Coloring
  <2>3. PartColor(k) \in Attributes /\ PartColor(k)' = PartColor(k)
    BY <1>1, <2>1, PartColorType, PartColorKept DEF Amid
  <2>4. PICK w : w = ConvertToMachineAttribute(PartColor(k), original[k])
    OBVIOUS
  <2>5. w = Shown(PartColor(k), DefaultWord)
    BY <2>2, <2>3, <2>4, Win32Shows, SetupAssumption
  <2>6. SetWin32Word(k, w)
    BY <1>2, <1>4, <1>8, <2>4 DEF SetPartColor, SetWin32Color
  <2>7. word'[k] = w
    BY <1>1, <1>2, <2>6 DEF SetWin32Word, StateTypes
  <2>8. QED
    BY <2>1, <2>2, <2>3, <2>5, <2>7
<1>9. CASE WritePart(k)
  <2>1. pc[k] = "text" /\ original' = original
    BY <1>9 DEF WritePart
  <2>2. pc'[k] # "text"
    BY <1>1, <1>9 DEF WritePart, Goto, StateTypes
  <2>3. QED
    BY <1>5, <2>1, <2>2 DEF Coloring
<1>10. QED
  BY <1>2, <1>4, <1>6, <1>7, <1>8, <1>9, AmidStep

-----------------------------------------------------------------------------
(* The attribute the console has when it is shown what the stream holds.   *)

LEMMA ExpectedWord ==
    ASSUME Types, MutexInv
    PROVE  Expected \in Words
<1>1. StateTypes /\ DefaultWord \in Words
  BY TypesSplit, SetupAssumption
<1>2. mutex # Nobody => mutex \in Modules
  BY <1>1 DEF StateTypes
<1>3. QED
  BY <1>1, <1>2, ShownWord DEF StateTypes, Expected

\* A step of another module, or outside of messages, does not change it.
LEMMA ExpectedKept ==
    ASSUME Types, MutexInv, [Next]_vars, ~disturbed', mutex' = mutex, current' = current,
           word' = word, mutex # Nobody => pc'[mutex] = pc[mutex]
    PROVE  Expected' = Expected
<1>1. CASE mutex = Nobody
  BY <1>1 DEF Expected
<1>2. CASE mutex # Nobody
  <2>1. PICK k \in Modules : k = mutex
    BY <1>2, TypesSplit DEF StateTypes
  <2>2. pc[k] \in Amid /\ Kind(k) \in {"ansi", "win32"} /\ pc'[k] = pc[k] /\ Kind(k)' = Kind(k)
    BY <1>2, <2>1, KindsKept DEF MutexInv, Colored
  <2>3. CASE pc[k] = "before"
    BY <2>1, <2>2, <2>3 DEF Expected
  <2>4. CASE pc[k] # "before"
    <3>1. enable'[k] = enable[k]
      BY <2>1, <2>2, <2>4, EnableKept DEF Amid, Coloring
    <3>2. QED
      BY <1>2, <2>1, <2>2, <2>4, <3>1 DEF Expected
  <2>5. QED
    BY <2>3, <2>4
<1>3. QED
  BY <1>1, <1>2

ColorHeld == ~terminal.wrong /\ WordPath(buffer, terminal.attr, Expected)

LEMMA ColorPasses ==
    ASSUME Types, MutexInv, ColorHeld, setup.attached, NEW items \in Seq(Items), Passes(items),
           Understood(buffer), Understood(items),
           NEW w \in Words, WordPath(items, Expected, w), Expected' = w
    PROVE  ColorHeld'
<1>1. PICK v \in Words : v = Expected
  BY ExpectedWord
<1>2. WordPath(buffer, terminal.attr, v) /\ WordPath(items, v, w)
  BY <1>1 DEF ColorHeld
<1>3. WordPath(buffer', terminal'.attr, w) /\ terminal'.wrong = terminal.wrong
  BY <1>2, PassesWord
<1>4. QED
  BY <1>3 DEF ColorHeld

\* Nothing is written.
LEMMA ColorStays ==
    ASSUME Types, MutexInv, ColorHeld, setup.attached, Understood(buffer),
           \/ FlushStream
           \/ buffer' = buffer /\ terminal' = terminal,
           Expected' = Expected
    PROVE  ColorHeld'
<1>1. PICK items \in Seq(Items) : items = <<>>
  BY EmptySeq
<1>2. Passes(items)
  BY <1>1, Flushed, Untouched
<1>3. Understood(items)
  BY <1>1 DEF Understood
<1>4. PICK v \in Words : v = Expected
  BY ExpectedWord
<1>5. WordPath(items, Expected, v) /\ Expected' = v
  BY <1>1, <1>4, NoItem
<1>6. QED
  BY <1>2, <1>3, <1>5, ColorPasses

\* The attribute is set on a console whose stream holds nothing.
LEMMA ColorSet ==
    ASSUME Types, ColorHeld, setup.attached, setup.capacity = 0,
           NEW w \in Words, SetConsole(w), buffer' = buffer, Expected' = w
    PROVE  ColorHeld'
<1>1. terminal'.wrong = terminal.wrong /\ terminal'.attr = w
  BY ConsoleSet
<1>2. buffer' = <<>>
  BY NoCapacity
<1>3. WordPath(<<>>, w, w)
  BY NoItem
<1>4. QED
  BY <1>1, <1>2, <1>3 DEF ColorHeld

\* A text is met with the word it wants.
LEMMA ColorText ==
    ASSUME Types, MutexInv, ColorHeld, setup.attached, Understood(buffer),
           NEW t \in Texts, NEW w \in Words, LogToStream(<<Text(t, w)>>),
           Expected = w, Expected' = w
    PROVE  ColorHeld'
<1>1. PICK items : TextItems(items, t, w) /\ Passes(items) /\ Len(buffer') <= setup.capacity
  BY TextWritten
<1>2. items \in Seq(Items) /\ WordPath(items, Expected, w)
  BY <1>1 DEF TextItems
<1>3. Understood(items)
  <2>1. \A it \in Items : it.code \in Int
    BY DEF Items, Codes, ResetCode
  <2>2. \A i \in 1 .. Len(items) : items[i].code < 0 /\ items[i].code \in Int
    BY <1>1, <1>2, <2>1, ElementOfSeq DEF TextItems
  <2>3. QED
    BY <2>2 DEF Understood
<1>4. QED
  BY <1>1, <1>2, <1>3, ColorPasses

\* The codes lead from the colours of the text before to the next.
LEMMA ColorCodes ==
    ASSUME Types, MutexInv, ColorHeld, setup.attached, vt, NEW m \in Modules,
           NEW a \in Attributes, SetAnsiColor(m, a),
           Expected = Shown(current[m], DefaultWord), Expected' = Shown(a, DefaultWord)
    PROVE  ColorHeld'
<1>1. PICK items : CodeItemsOf(items, m, current[m], a) /\ Passes(items) /\ Len(buffer') <= setup.capacity
  BY CodesWritten
<1>2. PICK w \in Words : w = Shown(a, DefaultWord)
  BY ShownWord, SetupAssumption
<1>3. items \in Seq(Items) /\ WordPath(items, Expected, w)
  BY <1>1, <1>2 DEF CodeItemsOf
<1>4. Understood(items) /\ Understood(buffer)
  BY DEF Understood
<1>5. QED
  BY <1>1, <1>2, <1>3, <1>4, ColorPasses

LEMMA ShownNoColor == Shown(NoColor, DefaultWord) = DefaultWord
<1>1. DefaultWord \in Words
  BY SetupAssumption
<1>2. Shown(NoColor, DefaultWord) = Word(ForegroundOf(DefaultWord), BackgroundOf(DefaultWord))
  BY DEF Shown, NoColor, Attribute
<1>3. QED
  BY <1>1, <1>2, HalvesOfWord

\* The module that holds the mutex.
LEMMA Holder ==
    ASSUME Types, MutexInv
    PROVE  /\ mutex # Nobody => mutex \in Modules /\ pc[mutex] \in Amid
           /\ \A m \in Modules : pc[m] \in Amid => mutex = m /\ m # Nobody /\ Kind(m) \in {"ansi", "win32"}
BY TypesSplit, SetupAssumption DEF StateTypes, MutexInv, Colored

\* What is expected amid the message of a module.
LEMMA ExpectedAmid ==
    ASSUME NEW m \in Modules, mutex = m, m # Nobody
    PROVE  /\ ~enable[m] \/ pc[m] = "before" => Expected = DefaultWord
           /\ enable[m] /\ pc[m] # "before" /\ Kind(m) = "ansi" => Expected = Shown(current[m], DefaultWord)
           /\ enable[m] /\ pc[m] # "before" /\ Kind(m) = "win32" => Expected = word[m]
BY DEF Expected

\* A console that shows colours understands its codes.
LEMMA CodesUnderstood ==
    ASSUME Types, OrderedInv, ModeKept, BufferInv, ~disorder, setup.attached
    PROVE  /\ Understood(buffer)
           /\ \A m \in Modules : Living(m) /\ Kind(m) = "ansi" => vt
<1>1. Understood(buffer)
  BY DEF Understood, BufferInv
<1>2. ASSUME NEW m \in Modules, Living(m), Kind(m) = "ansi"
      PROVE  vt
  <2>1. m \in ToSet(order)
    BY <1>2 DEF OrderedInv
  <2>2. order \in Seq(Modules) /\ ToSet(order) = {order[j] : j \in 1 .. Len(order)}
    BY TypesSplit, ToSetOf DEF StateTypes
  <2>3. order # <<>>
    BY <2>1, <2>2, EmptySeq
  <2>4. QED
    BY <2>3 DEF ModeKept
<1>3. QED
  BY <1>1, <1>2

LEMMA ColorDetached ==
    ASSUME Types, MutexInv, ~setup.attached, [Next]_vars
    PROVE  terminal'.attr = terminal.attr /\ terminal'.wrong = terminal.wrong
<1>1. ASSUME NEW items \in Seq(Items), Passes(items)
      PROVE  terminal'.attr = terminal.attr /\ terminal'.wrong = terminal.wrong
  BY <1>1, PassesDetached
<1>2. ASSUME NEW w \in Words, SetConsole(w)
      PROVE  terminal'.attr = terminal.attr /\ terminal'.wrong = terminal.wrong
  BY <1>2, ConsoleSet
<1>3. QED
  BY <1>1, <1>2, StreamsStep DEF Streams

LEMMA ColorStep ==
    ASSUME Types, MutexInv, ModeInv, OrderedInv, ModeKept, BufferInv, CurrentInv, WordInv,
           ColorInv, [Next]_vars
    PROVE  ColorInv'
<1>1. StateTypes /\ setup' = setup /\ DefaultWord \in Words
  BY TypesSplit, SetupStays, SetupAssumption
<1>2. ~setup.attached => terminal'.attr = DefaultWord /\ ~terminal'.wrong
  BY ColorDetached DEF ColorInv
<1>3. SUFFICES ASSUME ColorsHold', setup.attached
               PROVE  ColorHeld'
  BY <1>1, <1>2 DEF ColorInv, ColorHeld
<1>4. ColorsHold /\ ~disturbed' /\ ~disorder
  BY <1>3, HistoriesKept DEF ColorsHold
<1>5. ColorHeld
  BY <1>3, <1>4 DEF ColorInv, ColorHeld
<1>6. Understood(buffer)
  BY <1>3, <1>4, CodesUnderstood
<1>7. mutex # Nobody => mutex \in Modules /\ pc[mutex] \in Amid
  BY Holder
<1>8. /\ \A m \in Modules : pc[m] \in Amid => mutex = m /\ m # Nobody /\ Kind(m) \in {"ansi", "win32"}
      /\ \A m \in Modules : Kind(m)' = Kind(m)
  BY Holder, KindsKept
<1>9. ASSUME mutex' = mutex, current' = current, word' = word,
             mutex # Nobody => pc'[mutex] = pc[mutex],
             FlushStream \/ (buffer' = buffer /\ terminal' = terminal)
      PROVE  ColorHeld'
  <2>1. Expected' = Expected
    BY <1>4, <1>9, ExpectedKept
  <2>2. QED
    BY <1>3, <1>5, <1>6, <1>9, <2>1, ColorStays
<1>10. CASE UNCHANGED vars
  BY <1>9, <1>10 DEF vars, moduleVars
<1>11. ASSUME NEW m \in Modules, NEW md \in Modes, Probe(m, md)
       PROVE  ColorHeld'
  <2>1. pc[m] = "none" /\ pc' = [pc EXCEPT ![m] = "probed"] /\ mutex' = mutex /\ current' = current
        /\ word' = word /\ buffer' = buffer /\ terminal' = terminal
    BY <1>11 DEF Probe, Goto
  <2>2. mutex # Nobody => pc'[mutex] = pc[mutex]
    BY <1>1, <1>7, <2>1 DEF StateTypes, Amid
  <2>3. QED
    BY <1>9, <2>1, <2>2
<1>12. ASSUME NEW m \in Modules, NEW md \in Modes, SetColorMode(m, md)
       PROVE  ColorHeld'
  BY <1>9, <1>12 DEF SetColorMode
<1>13. ASSUME NEW m \in Modules, Instantiate(m)
       PROVE  ColorHeld'
  <2>1. pc[m] = "probed" /\ pc' = [pc EXCEPT ![m] = "idle"] /\ mutex' = mutex /\ current' = current
        /\ word' = word /\ buffer' = buffer
    BY <1>13 DEF Instantiate, Goto
  <2>2. mutex # Nobody => pc'[mutex] = pc[mutex]
    BY <1>1, <1>7, <2>1 DEF StateTypes, Amid
  <2>3. CASE Kind(m) # "win32"
    <3>1. terminal' = terminal
      BY <1>13, <2>3 DEF Instantiate, SetVirtualTerminal
    <3>2. QED
      BY <1>9, <2>1, <2>2, <3>1
  <2>4. CASE Kind(m) = "win32"
    <3>1. SetConsole(original[m]) /\ disturbed' = (disturbed \/ terminal.attr # original[m])
      BY <1>13, <2>4 DEF Instantiate, WriteBackAttribute
    <3>2. PICK w \in Words : w = terminal.attr /\ w = original[m]
      BY <1>1, <1>4, <3>1 DEF StateTypes
    <3>3. Expected' = Expected
      BY <1>4, <2>1, <2>2, ExpectedKept
    <3>4. setup.capacity = 0
      BY <1>4, <2>4 DEF ColorsHold, Uses
    <3>5. WordPath(<<>>, terminal.attr, Expected)
      BY <1>5, <3>4, NoCapacity DEF ColorHeld
    <3>6. terminal.attr = Expected
      BY <3>5, NoItem
    <3>7. SetConsole(w) /\ Expected' = w
      BY <3>1, <3>2, <3>3, <3>6
    <3>8. QED
      BY <1>3, <1>5, <2>1, <3>4, <3>7, ColorSet
  <2>5. QED
    BY <2>3, <2>4
<1>14. ASSUME NEW m \in Modules, Destroy(m)
       PROVE  ColorHeld'
  <2>1. pc[m] = "idle" /\ pc' = [pc EXCEPT ![m] = "gone"] /\ mutex' = mutex /\ current' = current
        /\ word' = word /\ FlushStream
    BY <1>14 DEF Destroy, Goto, moduleVars
  <2>2. mutex # Nobody => pc'[mutex] = pc[mutex]
    BY <1>1, <1>7, <2>1 DEF StateTypes, Amid
  <2>3. QED
    BY <1>9, <2>1, <2>2
<1>15. ASSUME NEW m \in Modules, Flush(m)
       PROVE  ColorHeld'
  BY <1>9, <1>15 DEF Flush, moduleVars
<1>16. ASSUME NEW m \in Modules, NEW x \in Messages, LogPlain(m, x)
       PROVE  ColorHeld'
  <2>1. pc[m] = "idle" /\ pc' = [pc EXCEPT ![m] = "write"] /\ mutex' = mutex /\ current' = current
        /\ word' = word /\ buffer' = buffer /\ terminal' = terminal
    BY <1>16 DEF LogPlain, Goto
  <2>2. mutex # Nobody => pc'[mutex] = pc[mutex]
    BY <1>1, <1>7, <2>1 DEF StateTypes, Amid
  <2>3. QED
    BY <1>9, <2>1, <2>2
<1>17. ASSUME NEW m \in Modules, NEW x \in Messages, LogColored(m, x)
       PROVE  ColorHeld'
  <2>1. /\ mutex = Nobody /\ mutex' = m /\ pc' = [pc EXCEPT ![m] = "before"]
        /\ buffer' = buffer /\ terminal' = terminal
    BY <1>17 DEF LogColored, Lock, Goto
  <2>2. m # Nobody /\ pc'[m] = "before"
    BY <1>1, <2>1, SetupAssumption DEF StateTypes
  <2>3. Expected = DefaultWord /\ Expected' = DefaultWord
    BY <2>1, <2>2 DEF Expected
  <2>4. QED
    BY <1>3, <1>5, <1>6, <2>1, <2>3, ColorStays
<1>18. ASSUME NEW m \in Modules, BeforeLog(m)
       PROVE  ColorHeld'
  <2>1. /\ pc[m] = "before" /\ pc' = [pc EXCEPT ![m] = "color"] /\ mutex' = mutex
        /\ enable' = enable /\ current' = current /\ buffer' = buffer /\ terminal' = terminal
    BY <1>18 DEF BeforeLog, Goto
  <2>2. pc'[m] = "color" /\ mutex = m /\ m # Nobody /\ Kind(m) \in {"ansi", "win32"} /\ Kind(m)' = Kind(m)
    BY <1>1, <1>8, <2>1 DEF StateTypes, Amid
  <2>3. Expected = DefaultWord
    BY <2>1, <2>2, ExpectedAmid
  <2>4. Expected' = DefaultWord
    <3>1. CASE ~enable[m]
      BY <2>1, <2>2, <3>1 DEF Expected
    <3>2. CASE enable[m] /\ Kind(m) = "ansi"
      <4>1. current[m] = NoColor
        BY <1>4, <2>1, <3>2 DEF CurrentInv, ColorsHold, Coloring
      <4>2. QED
        BY <2>1, <2>2, <3>2, <4>1, ShownNoColor DEF Expected
    <3>3. CASE enable[m] /\ Kind(m) = "win32"
      <4>1. terminal.attr = DefaultWord
        BY <1>3, <1>4, <2>1, <3>3, FoundWord
      <4>2. word' = [word EXCEPT ![m] = terminal.attr]
        BY <1>3, <1>18, <3>3 DEF BeforeLog
      <4>3. word'[m] = DefaultWord
        BY <1>1, <4>1, <4>2 DEF StateTypes
      <4>4. QED
        BY <2>1, <2>2, <3>3, <4>3 DEF Expected
    <3>4. QED
      BY <2>2, <3>1, <3>2, <3>3
  <2>5. QED
    BY <1>3, <1>5, <1>6, <2>1, <2>3, <2>4, ColorStays
<1>19. ASSUME NEW m \in Modules, WritePlain(m)
       PROVE  ColorHeld'
  <2>1. pc[m] = "write" /\ (Kind(m) = "plain" => mutex = Nobody) /\ mutex' = mutex
        /\ LogToStream(<<Text(PlainText(setup.type, msg[m]), DefaultWord)>>)
    BY <1>19 DEF WritePlain
  <2>2. Kind(m) \in Kinds
    BY <1>1 DEF StateTypes, SetupType, Kind
  <2>3. Kind(m) = "plain"
    BY <1>4, <2>1, <2>2 DEF MutexInv, Colored, Kinds, ColorsHold, Uses
  <2>4. Expected = DefaultWord /\ Expected' = DefaultWord
    BY <2>1, <2>3 DEF Expected
  <2>5. PlainText(setup.type, msg[m]) \in Texts
    BY <2>1, TextsOf
  <2>6. QED
    BY <1>1, <1>3, <1>5, <1>6, <2>1, <2>4, <2>5, ColorText
<1>20. ASSUME NEW m \in Modules, SetPartColor(m)
       PROVE  ColorHeld'
  <2>1. /\ pc[m] = "color" /\ pc' = [pc EXCEPT ![m] = "text"] /\ mutex' = mutex /\ enable' = enable
    BY <1>20 DEF SetPartColor, Goto
  <2>2. pc'[m] = "text" /\ mutex = m /\ m # Nobody /\ Kind(m) \in {"ansi", "win32"} /\ Kind(m)' = Kind(m)
    BY <1>1, <1>8, <2>1 DEF StateTypes, Amid
  <2>3. PICK a \in Attributes : a = PartColor(m)
    BY <2>1, PartColorType DEF Amid
  <2>4. CASE ~enable[m]
    <3>1. buffer' = buffer /\ terminal' = terminal
      BY <1>20, <2>4 DEF SetPartColor
    <3>2. Expected = DefaultWord /\ Expected' = DefaultWord
      BY <2>1, <2>2, <2>4 DEF Expected
    <3>3. QED
      BY <1>3, <1>5, <1>6, <3>1, <3>2, ColorStays
  <2>5. CASE enable[m] /\ Kind(m) = "ansi"
    <3>1. SetAnsiColor(m, a)
      BY <1>20, <2>3, <2>5 DEF SetPartColor
    <3>2. current'[m] = a
      BY <1>1, <3>1 DEF SetAnsiColor, StateTypes
    <3>3. Expected = Shown(current[m], DefaultWord)
      BY <2>1, <2>2, <2>5, ExpectedAmid
    <3>4. Expected' = Shown(a, DefaultWord)
      BY <2>1, <2>2, <2>5, <3>2 DEF Expected
    <3>5. vt
      <4>1. Living(m)
        BY <2>1 DEF Living
      <4>2. QED
        BY <1>3, <1>4, <2>5, <4>1, CodesUnderstood
    <3>6. QED
      BY <1>3, <1>5, <3>1, <3>3, <3>4, <3>5, ColorCodes
  <2>6. CASE enable[m] /\ Kind(m) = "win32"
    <3>1. PICK w \in Words : w = ConvertToMachineAttribute(a, original[m])
      BY <1>1, Win32Shows, ShownWord DEF StateTypes
    <3>2. SetWin32Word(m, w)
      BY <1>20, <2>3, <2>6, <3>1 DEF SetPartColor, SetWin32Color
    <3>3. word'[m] = w /\ SetConsole(w) /\ buffer' = buffer
      BY <1>1, <1>3, <3>2 DEF SetWin32Word, StateTypes
    <3>4. Expected' = w
      BY <2>1, <2>2, <2>6, <3>3 DEF Expected
    <3>5. setup.capacity = 0
      BY <1>4, <2>6 DEF ColorsHold, Uses
    <3>6. QED
      BY <1>3, <1>5, <3>3, <3>4, <3>5, ColorSet
  <2>7. QED
    BY <2>2, <2>4, <2>5, <2>6
<1>21. ASSUME NEW m \in Modules, WritePart(m)
       PROVE  ColorHeld'
  <2>1. /\ pc[m] = "text" /\ mutex' = mutex /\ enable' = enable /\ current' = current /\ word' = word
        /\ LogToStream(<<Text(TextParts(setup.type, msg[m])[part[m]],
                              Shown(IF enable[m] THEN PartColor(m) ELSE NoColor, DefaultWord))>>)
    BY <1>21 DEF WritePart
  <2>2. mutex = m /\ m # Nobody /\ Kind(m) \in {"ansi", "win32"} /\ Kind(m)' = Kind(m)
    BY <1>8, <2>1 DEF Amid
  <2>3. pc'[m] \in {"color", "after"}
    BY <1>1, <1>21 DEF WritePart, Goto, StateTypes
  <2>4. Expected' = Expected
    BY <2>1, <2>2, <2>3 DEF Expected
  <2>5. PICK w \in Words : w = Shown(IF enable[m] THEN PartColor(m) ELSE NoColor, DefaultWord)
    BY <2>1, WantType DEF Amid
  <2>6. Expected = w
    <3>1. CASE ~enable[m]
      BY <2>2, <2>5, <3>1, ShownNoColor, ExpectedAmid
    <3>2. CASE enable[m] /\ Kind(m) = "ansi"
      <4>1. current[m] = PartColor(m)
        BY <1>4, <2>1, <3>2 DEF CurrentInv, ColorsHold
      <4>2. QED
        BY <2>1, <2>2, <2>5, <3>2, <4>1, ExpectedAmid
    <3>3. CASE enable[m] /\ Kind(m) = "win32"
      <4>1. word[m] = Shown(PartColor(m), DefaultWord)
        BY <1>3, <1>4, <2>1, <3>3 DEF WordInv
      <4>2. QED
        BY <2>1, <2>2, <2>5, <3>3, <4>1, ExpectedAmid
    <3>4. QED
      BY <2>2, <3>1, <3>2, <3>3
  <2>7. PICK t \in Texts : t = TextParts(setup.type, msg[m])[part[m]]
    BY <2>1, TextsOf DEF Amid
  <2>8. LogToStream(<<Text(t, w)>>)
    BY <2>1, <2>5, <2>7
  <2>9. QED
    BY <1>3, <1>5, <1>6, <2>4, <2>6, <2>8, ColorText
<1>22. ASSUME NEW m \in Modules, AfterLog(m)
       PROVE  ColorHeld'
  <2>1. pc[m] = "after" /\ mutex' = Nobody
    BY <1>22 DEF AfterLog, Leave
  <2>2. mutex = m /\ m # Nobody /\ Kind(m) \in {"ansi", "win32"}
    BY <1>8, <2>1 DEF Amid
  <2>3. Expected' = DefaultWord
    BY <2>1 DEF Expected
  <2>4. CASE ~enable[m]
    <3>1. buffer' = buffer /\ terminal' = terminal
      BY <1>22, <2>4 DEF AfterLog
    <3>2. Expected = DefaultWord
      BY <2>2, <2>4, ExpectedAmid
    <3>3. QED
      BY <1>3, <1>5, <1>6, <2>3, <3>1, <3>2, ColorStays
  <2>5. CASE enable[m] /\ Kind(m) = "ansi"
    <3>1. SetAnsiColor(m, NoColor)
      BY <1>22, <2>5 DEF AfterLog, AfterAnsiLog
    <3>2. Expected = Shown(current[m], DefaultWord)
      BY <2>1, <2>2, <2>5, ExpectedAmid
    <3>3. vt
      <4>1. Living(m)
        BY <2>1 DEF Living
      <4>2. QED
        BY <1>3, <1>4, <2>5, <4>1, CodesUnderstood
    <3>4. PICK a \in Attributes : a = NoColor
      BY NoColorType
    <3>5. SetAnsiColor(m, a) /\ Expected' = Shown(a, DefaultWord)
      BY <2>3, <3>1, <3>4, ShownNoColor
    <3>6. QED
      BY <1>3, <1>5, <3>2, <3>3, <3>5, ColorCodes
  <2>6. CASE enable[m] /\ Kind(m) = "win32"
    <3>1. original[m] = DefaultWord
      BY <1>3, <1>4, <2>1, <2>6 DEF WordInv, Coloring
    <3>2. AfterWin32Log(m)
      BY <1>22, <2>6 DEF AfterLog
    <3>3. CASE original[m] = word[m]
      <4>1. buffer' = buffer /\ terminal' = terminal
        BY <3>2, <3>3 DEF AfterWin32Log
      <4>2. Expected = DefaultWord
        BY <2>1, <2>2, <2>6, <3>1, <3>3, ExpectedAmid
      <4>3. QED
        BY <1>3, <1>5, <1>6, <2>3, <4>1, <4>2, ColorStays
    <3>4. CASE original[m] # word[m]
      <4>1. SetConsole(DefaultWord) /\ buffer' = buffer
        BY <3>1, <3>2, <3>4 DEF AfterWin32Log, SetWin32Word
      <4>2. setup.capacity = 0
        BY <1>4, <2>6 DEF ColorsHold, Uses
      <4>3. QED
        BY <1>1, <1>3, <1>5, <2>3, <4>1, <4>2, ColorSet
    <3>5. QED
      BY <3>3, <3>4
  <2>7. QED
    BY <2>2, <2>4, <2>5, <2>6
<1>23. QED
  BY <1>10, <1>11, <1>12, <1>13, <1>14, <1>15, <1>16, <1>17, <1>18, <1>19, <1>20, <1>21, <1>22 DEF Next

-----------------------------------------------------------------------------
(* The last line of the console.                                           *)

\* The line when the console has been shown what the stream holds is l.
Continues(l) == LinePath(buffer', terminal'.line, l) /\ terminal'.line \in {terminal.line, l}

LEMMA LinePasses ==
    ASSUME Types, NEW items \in Seq(Items), Passes(items), NEW k, NEW l,
           LinePath(buffer, terminal.line, k), LinePath(items, k, l)
    PROVE  Continues(l)
BY PassesLine DEF Continues

\* Nothing is written.
LEMMA LineStays ==
    ASSUME Types, NEW l, LinePath(buffer, terminal.line, l),
           \/ FlushStream
           \/ buffer' = buffer /\ terminal' = terminal
    PROVE  Continues(l)
<1>1. PICK items \in Seq(Items) : items = <<>>
  BY EmptySeq
<1>2. Passes(items)
  BY <1>1, Flushed, Untouched
<1>3. LinePath(items, l, l)
  BY <1>1, NoItem
<1>4. QED
  BY <1>2, <1>3, LinePasses

LEMMA LineSet ==
    ASSUME Types, NEW l, LinePath(buffer, terminal.line, l), NEW w \in Words, SetConsole(w),
           buffer' = buffer
    PROVE  Continues(l)
<1>1. terminal'.line = terminal.line
  BY ConsoleSet
<1>2. QED
  BY <1>1 DEF Continues

LEMMA LineCodes ==
    ASSUME Types, NEW l, LinePath(buffer, terminal.line, l), NEW m \in Modules, NEW a \in Attributes,
           SetAnsiColor(m, a)
    PROVE  Continues(l)
<1>1. PICK items : CodeItemsOf(items, m, current[m], a) /\ Passes(items)
  BY CodesWritten
<1>2. items \in Seq(Items) /\ LinePath(items, l, l)
  BY <1>1 DEF CodeItemsOf
<1>3. QED
  BY <1>1, <1>2, LinePasses

\* A text goes on with the line, unless that is complete.
LEMMA LineText ==
    ASSUME Types, NEW k, LinePath(buffer, terminal.line, k), NEW t \in Texts, NEW w \in Words,
           LogToStream(<<Text(t, w)>>), NEW l, l = (IF Complete(k) THEN <<>> ELSE k) \o t
    PROVE  Continues(l)
<1>1. PICK items : TextItems(items, t, w) /\ Passes(items)
  BY TextWritten
<1>2. items \in Seq(Items) /\ LinePath(items, k, l)
  BY <1>1 DEF TextItems
<1>3. QED
  BY <1>1, <1>2, LinePasses

\* The colours of the parts do not touch it.
LEMMA LineColored ==
    ASSUME Types, MutexInv, NEW l, LinePath(buffer, terminal.line, l), NEW m \in Modules,
           SetPartColor(m) \/ AfterLog(m)
    PROVE  Continues(l)
<1>1. StateTypes
  BY TypesSplit
<1>2. ASSUME NEW w \in Words, SetWin32Word(m, w)
      PROVE  Continues(l)
  <2>1. SetConsole(w) /\ buffer' = buffer
    BY <1>2 DEF SetWin32Word
  <2>2. QED
    BY <2>1, LineSet
<1>3. CASE SetPartColor(m)
  <2>1. PICK a \in Attributes : a = PartColor(m)
    BY <1>3, PartColorType DEF SetPartColor, Amid
  <2>2. CASE enable[m] /\ Kind(m) = "ansi"
    <3>1. SetAnsiColor(m, a)
      BY <1>3, <2>1, <2>2 DEF SetPartColor
    <3>2. QED
      BY <3>1, LineCodes
  <2>3. CASE enable[m] /\ Kind(m) = "win32"
    <3>1. PICK w \in Words : w = ConvertToMachineAttribute(a, original[m])
      BY <1>1, Win32Shows, ShownWord DEF StateTypes
    <3>2. SetWin32Word(m, w)
      BY <1>3, <2>1, <2>3, <3>1 DEF SetPartColor, SetWin32Color
    <3>3. QED
      BY <1>2, <3>2
  <2>4. CASE ~ (enable[m] /\ Kind(m) \in {"ansi", "win32"})
    <3>1. buffer' = buffer /\ terminal' = terminal
      BY <1>3, <2>4 DEF SetPartColor
    <3>2. QED
      BY <3>1, LineStays
  <2>5. QED
    BY <2>2, <2>3, <2>4
<1>4. CASE AfterLog(m)
  <2>1. CASE enable[m] /\ Kind(m) = "ansi"
    <3>1. SetAnsiColor(m, NoColor)
      BY <1>4, <2>1 DEF AfterLog, AfterAnsiLog
    <3>2. QED
      BY <3>1, NoColorType, LineCodes
  <2>2. CASE enable[m] /\ Kind(m) = "win32"
    <3>1. AfterWin32Log(m) /\ original[m] \in Words
      BY <1>1, <1>4, <2>2 DEF AfterLog, StateTypes
    <3>2. CASE original[m] # word[m]
      BY <1>2, <3>1, <3>2 DEF AfterWin32Log
    <3>3. CASE original[m] = word[m]
      <4>1. buffer' = buffer /\ terminal' = terminal
        BY <3>1, <3>3 DEF AfterWin32Log
      <4>2. QED
        BY <4>1, LineStays
    <3>4. QED
      BY <3>2, <3>3
  <2>3. CASE ~ (enable[m] /\ Kind(m) \in {"ansi", "win32"})
    <3>1. buffer' = buffer /\ terminal' = terminal
      BY <1>4, <2>3 DEF AfterLog
    <3>2. QED
      BY <3>1, LineStays
  <2>4. QED
    BY <2>1, <2>2, <2>3
<1>5. QED
  BY <1>3, <1>4

\* The beginning of a message.
Begins(l) == l = <<>> \/ \E x \in Messages : IsPrefix(l, PlainText(setup.type, x))

LEMMA PartsBegin ==
    ASSUME Types, NEW x \in Messages, NEW p, p = TextParts(setup.type, x), NEW l,
           l = p[1] \/ l = p[1] \o p[2] \/ l = PlainText(setup.type, x)
    PROVE  Begins(l)
<1>1. setup.type \in MessageTypes
  BY DEF Types, SetupType
<1>2. PICK q : q = PlainText(setup.type, x)
  OBVIOUS
<1>3. IsPrefix(p[1], q) /\ IsPrefix(p[1] \o p[2], q) /\ IsPrefix(q, q)
  BY <1>1, <1>2, PartsOfText
<1>4. QED
  BY <1>2, <1>3 DEF Begins

LEMMA ExpectedBegins ==
    ASSUME Types, MutexInv, NEW l, ExpectedLine(l)
    PROVE  Begins(l)
<1>1. ASSUME Fresh(l)
      PROVE  Begins(l)
  <2>1. ASSUME NEW x \in Messages, l = PlainText(setup.type, x)
        PROVE  Begins(l)
    BY <2>1, PartsBegin
  <2>2. QED
    BY <1>1, <2>1 DEF Fresh, Begins
<1>2. CASE mutex = Nobody
  BY <1>1, <1>2 DEF ExpectedLine
<1>3. CASE mutex # Nobody
  <2>1. PICK k \in Modules : k = mutex /\ pc[k] \in Amid
    BY <1>3, Holder
  <2>2. msg[k] \in Messages /\ part[k] \in 1 .. 3
    BY <2>1, TypesSplit DEF MutexInv, StateTypes
  <2>3. PICK p : p = TextParts(setup.type, msg[k])
    OBVIOUS
  <2>4. Fresh(l) \/ l = p[1] \/ l = p[1] \o p[2] \/ l = PlainText(setup.type, msg[k])
    <3>1. Started(k, l)
      BY <1>3, <2>1 DEF ExpectedLine
    <3>2. PICK q : q = PlainText(setup.type, msg[k])
      OBVIOUS
    <3>3. IF pc[k] = "after" THEN l = q
          ELSE (part[k] = 1 => Fresh(l)) /\ (part[k] = 2 => l = p[1]) /\ (part[k] = 3 => l = p[1] \o p[2])
      BY <2>3, <3>1, <3>2 DEF Started
    <3>4. part[k] = 1 \/ part[k] = 2 \/ part[k] = 3
      BY <2>2
    <3>5. QED
      BY <3>2, <3>3, <3>4
  <2>5. QED
    BY <1>1, <2>2, <2>3, <2>4, PartsBegin
<1>4. QED
  BY <1>2, <1>3

\* Outside of the writing of parts it stays what is expected.
LEMMA LineKept ==
    ASSUME Types, MutexInv, setup' = setup, mutex' = mutex, NEW l, ExpectedLine(l),
           mutex # Nobody => /\ part'[mutex] = part[mutex] /\ msg'[mutex] = msg[mutex]
                             /\ pc'[mutex] = "after" <=> pc[mutex] = "after"
    PROVE  ExpectedLine(l)'
<1>1. Fresh(l)' <=> Fresh(l)
  BY DEF Fresh
<1>2. CASE mutex = Nobody
  BY <1>1, <1>2 DEF ExpectedLine
<1>3. CASE mutex # Nobody
  <2>1. Started(mutex, l)
    BY <1>3 DEF ExpectedLine
  <2>2. PICK p, q, k : p = TextParts(setup.type, msg[mutex]) /\ q = PlainText(setup.type, msg[mutex]) /\ k = mutex
    OBVIOUS
  <2>3. IF pc[k] = "after" THEN l = q
        ELSE (part[k] = 1 => Fresh(l)) /\ (part[k] = 2 => l = p[1]) /\ (part[k] = 3 => l = p[1] \o p[2])
    BY <2>1, <2>2 DEF Started
  <2>4. p = TextParts(setup'.type, msg'[k]) /\ q = PlainText(setup'.type, msg'[k])
    BY <1>3, <2>2
  <2>5. k = mutex' /\ k # Nobody /\ part'[k] = part[k] /\ (pc'[k] = "after" <=> pc[k] = "after")
    BY <1>3, <2>2
  <2>6. QED
    BY <1>1, <2>3, <2>4, <2>5 DEF ExpectedLine, Started
<1>4. QED
  BY <1>2, <1>3

\* A message starts a new line.
LEMMA FreshLine ==
    ASSUME Types, MutexInv, NEW l, Fresh(l)
    PROVE  (IF Complete(l) THEN <<>> ELSE l) = <<>>
<1>1. setup.type \in MessageTypes
  BY DEF Types, SetupType
<1>2. ASSUME NEW x \in Messages, l = PlainText(setup.type, x)
      PROVE  Complete(l)
  BY <1>1, <1>2, PartsOfText
<1>3. QED
  BY <1>2 DEF Fresh

LEMMA LinePlain ==
    ASSUME Types, MutexInv, NEW m \in Modules, WritePlain(m), Kind(m) = "plain", NEW k,
           LinePath(buffer, terminal.line, k), ExpectedLine(k)
    PROVE  \E l : Continues(l) /\ ExpectedLine(l)' /\ Begins(l)
<1>1. /\ pc[m] = "write" /\ mutex = Nobody /\ mutex' = mutex /\ setup' = setup
      /\ LogToStream(<<Text(PlainText(setup.type, msg[m]), DefaultWord)>>)
  BY DEF WritePlain
<1>2. msg[m] \in Messages /\ setup.type \in MessageTypes /\ PlainText(setup.type, msg[m]) \in Texts
  BY <1>1, TextsOf
<1>3. PICK t \in Texts : t = PlainText(setup.type, msg[m])
  BY <1>2
<1>4. <<>> \o t = t
  BY <1>2, <1>3, PartsOfText
<1>5. Fresh(k)
  BY <1>1 DEF ExpectedLine
<1>6. t = (IF Complete(k) THEN <<>> ELSE k) \o t
  BY <1>4, <1>5, FreshLine
<1>7. LogToStream(<<Text(t, DefaultWord)>>) /\ DefaultWord \in Words
  BY <1>1, <1>3, SetupAssumption
<1>8. Continues(t)
  BY <1>6, <1>7, LineText
<1>9. ExpectedLine(t)'
  BY <1>1, <1>2, <1>3 DEF ExpectedLine, Fresh
<1>10. Begins(t)
  BY <1>2, <1>3, PartsBegin
<1>11. QED
  BY <1>8, <1>9, <1>10

LEMMA LinePart ==
    ASSUME Types, MutexInv, NEW m \in Modules, WritePart(m), NEW k,
           LinePath(buffer, terminal.line, k), ExpectedLine(k)
    PROVE  \E l : Continues(l) /\ ExpectedLine(l)' /\ Begins(l)
<1>1. /\ pc[m] = "text" /\ mutex' = mutex /\ setup' = setup /\ msg' = msg
      /\ LogToStream(<<Text(TextParts(setup.type, msg[m])[part[m]],
                            Shown(IF enable[m] THEN PartColor(m) ELSE NoColor, DefaultWord))>>)
  BY DEF WritePart
<1>2. mutex = m /\ m # Nobody
  BY <1>1, Holder DEF Amid
<1>3. msg[m] \in Messages /\ setup.type \in MessageTypes /\ part[m] \in 1 .. 3
      /\ TextParts(setup.type, msg[m])[part[m]] \in Texts
  BY <1>1, TextsOf, TypesSplit DEF StateTypes, Amid
<1>4. PICK p, q : p = TextParts(setup.type, msg[m]) /\ q = PlainText(setup.type, msg[m])
  OBVIOUS
<1>5. PICK t \in Texts : t = p[part[m]]
  BY <1>3, <1>4
<1>6. PICK w \in Words : w = Shown(IF enable[m] THEN PartColor(m) ELSE NoColor, DefaultWord)
  BY <1>1, WantType DEF Amid
<1>7. LogToStream(<<Text(t, w)>>)
  BY <1>1, <1>4, <1>5, <1>6
<1>8. PICK l : l = (IF Complete(k) THEN <<>> ELSE k) \o t
  OBVIOUS
<1>9. Continues(l)
  BY <1>7, <1>8, LineText
<1>10. PICK d : /\ d = p[1] \o p[2] /\ d \o p[3] = q
                /\ ~Complete(p[1]) /\ ~Complete(d) /\ <<>> \o p[1] = p[1]
  <2>1. PICK type \in MessageTypes : type = setup.type
    BY <1>3
  <2>2. PICK x : x = msg[m]
    OBVIOUS
  <2>3. p = TextParts(type, x) /\ q = PlainText(type, x)
    BY <1>4, <2>1, <2>2
  <2>4. InParts(q, p)
    BY <2>3, PartsOfText
  <2>5. ~Complete(p[1]) /\ ~Complete(p[1] \o p[2])
    BY <2>3, PartsOfText
  <2>6. <<>> \o p[1] = p[1]
    BY <2>3, PartsOfText
  <2>7. PICK d : d = p[1] \o p[2]
    OBVIOUS
  <2>8. QED
    BY <2>4, <2>5, <2>6, <2>7 DEF InParts
<1>11. /\ part[m] = 1 => Fresh(k)
       /\ part[m] = 2 => k = p[1]
       /\ part[m] = 3 => k = d
  <2>1. Started(m, k)
    BY <1>2 DEF ExpectedLine
  <2>2. QED
    BY <1>1, <1>4, <1>10, <2>1 DEF Started
<1>12. /\ part[m] = 1 => l = p[1]
       /\ part[m] = 2 => l = d
       /\ part[m] = 3 => l = q
  <2>1. CASE part[m] = 1
    <3>1. l = <<>> \o t
      BY <1>8, <1>11, <2>1, FreshLine
    <3>2. QED
      BY <1>5, <1>10, <2>1, <3>1
  <2>2. CASE part[m] = 2
    <3>1. k = p[1] /\ t = p[2]
      BY <1>5, <1>11, <2>2
    <3>2. l = k \o t
      BY <1>8, <1>10, <3>1
    <3>3. QED
      BY <1>10, <2>2, <3>1, <3>2
  <2>3. CASE part[m] = 3
    <3>1. k = d /\ t = p[3]
      BY <1>5, <1>11, <2>3
    <3>2. l = k \o t
      BY <1>8, <1>10, <3>1
    <3>3. QED
      BY <1>10, <2>3, <3>1, <3>2
  <2>4. QED
    BY <1>3, <2>1, <2>2, <2>3
<1>13. l = p[1] \/ l = p[1] \o p[2] \/ l = q
  <2>1. part[m] = 1 \/ part[m] = 2 \/ part[m] = 3
    BY <1>3
  <2>2. QED
    BY <1>10, <1>12, <2>1
<1>14. Begins(l)
  BY <1>3, <1>4, <1>13, PartsBegin
<1>15. /\ part[m] # 3 => part'[m] = part[m] + 1 /\ pc'[m] = "color"
       /\ part[m] = 3 => pc'[m] = "after"
  BY <1>3, TypesSplit DEF WritePart, Goto, StateTypes
<1>16. Started(m, l)'
  <2>1. p = TextParts(setup'.type, msg'[m]) /\ q = PlainText(setup'.type, msg'[m])
    BY <1>1, <1>4
  <2>2. IF pc'[m] = "after" THEN l = q
        ELSE part'[m] # 1 /\ (part'[m] = 2 => l = p[1]) /\ (part'[m] = 3 => l = d)
    BY <1>3, <1>12, <1>15
  <2>3. QED
    BY <1>10, <2>1, <2>2 DEF Started
<1>17. ExpectedLine(l)'
  BY <1>1, <1>2, <1>16 DEF ExpectedLine
<1>18. QED
  BY <1>9, <1>14, <1>17

LEMMA LineStep ==
    ASSUME Types, MutexInv, LineInv, [Next]_vars
    PROVE  LineInv'
<1>1. StateTypes /\ setup' = setup
  BY TypesSplit, SetupStays
<1> DEFINE Goal == \E l : Continues(l) /\ ExpectedLine(l)' /\ Begins(l)
<1>2. SUFFICES ASSUME ~Uses("stream")
               PROVE  Goal
  <2>1. Uses("stream")' <=> Uses("stream")
    BY KindsKept DEF Uses
  <2>2. ASSUME ~Uses("stream"), NEW l, Continues(l), ExpectedLine(l)', Begins(l)
        PROVE  LineInv'
    <3>1. Begins(terminal.line)
      BY <2>2 DEF LineInv, Begins
    <3>2. Begins(terminal'.line)
      BY <2>2, <3>1 DEF Continues
    <3>3. QED
      BY <1>1, <2>2, <3>2 DEF LineInv, Continues, Begins
  <2>3. QED
    BY <2>1, <2>2 DEF LineInv
<1>3. PICK k : LinePath(buffer, terminal.line, k) /\ ExpectedLine(k)
  BY <1>2 DEF LineInv
<1>4. Begins(k)
  BY <1>3, ExpectedBegins
<1>5. mutex # Nobody => mutex \in Modules /\ pc[mutex] \in Amid
  BY Holder
<1>6. ASSUME mutex' = mutex,
             mutex # Nobody => /\ part'[mutex] = part[mutex] /\ msg'[mutex] = msg[mutex]
                               /\ pc'[mutex] = "after" <=> pc[mutex] = "after",
             Continues(k)
      PROVE  Goal
  <2>1. ExpectedLine(k)'
    BY <1>1, <1>3, <1>6, LineKept
  <2>2. QED
    BY <1>4, <1>6, <2>1
<1>7. ASSUME NEW m \in Modules, pc[m] \notin Amid, NEW place, pc' = [pc EXCEPT ![m] = place],
             mutex' = mutex, part' = part,
             msg' = msg \/ (\E x : msg' = [msg EXCEPT ![m] = x]),
             Continues(k)
      PROVE  Goal
  <2>1. mutex # Nobody => mutex # m
    BY <1>5, <1>7
  <2>2. mutex # Nobody => msg'[mutex] = msg[mutex] /\ pc'[mutex] = pc[mutex]
    BY <1>1, <1>5, <1>7, <2>1 DEF StateTypes
  <2>3. QED
    BY <1>6, <1>7, <2>2
<1>8. CASE UNCHANGED vars
  <2>1. Continues(k)
    BY <1>3, <1>8, LineStays DEF vars
  <2>2. QED
    BY <1>6, <1>8, <2>1 DEF vars, moduleVars
<1>9. ASSUME NEW m \in Modules, NEW md \in Modes, Probe(m, md)
      PROVE  Goal
  <2>1. pc[m] = "none" /\ pc' = [pc EXCEPT ![m] = "probed"] /\ mutex' = mutex /\ part' = part
        /\ msg' = msg /\ buffer' = buffer /\ terminal' = terminal
    BY <1>9 DEF Probe, Goto
  <2>2. Continues(k)
    BY <1>3, <2>1, LineStays
  <2>3. QED
    BY <1>7, <2>1, <2>2 DEF Amid
<1>10. ASSUME NEW m \in Modules, NEW md \in Modes, SetColorMode(m, md)
       PROVE  Goal
  <2>1. pc' = pc /\ mutex' = mutex /\ part' = part /\ msg' = msg /\ buffer' = buffer /\ terminal' = terminal
    BY <1>10 DEF SetColorMode
  <2>2. Continues(k)
    BY <1>3, <2>1, LineStays
  <2>3. QED
    BY <1>6, <2>1, <2>2
<1>11. ASSUME NEW m \in Modules, Instantiate(m)
       PROVE  Goal
  <2>1. pc[m] = "probed" /\ pc' = [pc EXCEPT ![m] = "idle"] /\ mutex' = mutex /\ part' = part
        /\ msg' = msg /\ buffer' = buffer
    BY <1>11 DEF Instantiate, Goto
  <2>2. Continues(k)
    <3>1. CASE Kind(m) = "win32"
      <4>1. SetConsole(original[m]) /\ original[m] \in Words
        BY <1>1, <1>11, <3>1 DEF Instantiate, WriteBackAttribute, StateTypes
      <4>2. QED
        BY <1>3, <2>1, <4>1, LineSet
    <3>2. CASE Kind(m) # "win32"
      <4>1. terminal' = terminal
        BY <1>11, <3>2 DEF Instantiate, SetVirtualTerminal
      <4>2. QED
        BY <1>3, <2>1, <4>1, LineStays
    <3>3. QED
      BY <3>1, <3>2
  <2>3. QED
    BY <1>7, <2>1, <2>2 DEF Amid
<1>12. ASSUME NEW m \in Modules, Destroy(m)
       PROVE  Goal
  <2>1. pc[m] = "idle" /\ pc' = [pc EXCEPT ![m] = "gone"] /\ mutex' = mutex /\ part' = part
        /\ msg' = msg /\ FlushStream
    BY <1>12 DEF Destroy, Goto, moduleVars
  <2>2. Continues(k)
    BY <1>3, <2>1, LineStays
  <2>3. QED
    BY <1>7, <2>1, <2>2 DEF Amid
<1>13. ASSUME NEW m \in Modules, Flush(m)
       PROVE  Goal
  <2>1. pc' = pc /\ mutex' = mutex /\ part' = part /\ msg' = msg /\ FlushStream
    BY <1>13 DEF Flush, moduleVars
  <2>2. Continues(k)
    BY <1>3, <2>1, LineStays
  <2>3. QED
    BY <1>6, <2>1, <2>2
<1>14. ASSUME NEW m \in Modules, NEW x \in Messages, LogPlain(m, x)
       PROVE  Goal
  <2>1. pc[m] = "idle" /\ pc' = [pc EXCEPT ![m] = "write"] /\ mutex' = mutex /\ part' = part
        /\ msg' = [msg EXCEPT ![m] = x] /\ buffer' = buffer /\ terminal' = terminal
    BY <1>14 DEF LogPlain, Goto
  <2>2. Continues(k)
    BY <1>3, <2>1, LineStays
  <2>3. QED
    BY <1>7, <2>1, <2>2 DEF Amid
<1>15. ASSUME NEW m \in Modules, NEW x \in Messages, LogColored(m, x)
       PROVE  Goal
  <2>1. /\ pc[m] = "idle" /\ pc' = [pc EXCEPT ![m] = "before"] /\ mutex = Nobody /\ mutex' = m
        /\ part' = part /\ buffer' = buffer /\ terminal' = terminal
    BY <1>15 DEF LogColored, Lock, Goto
  <2>2. Continues(k)
    BY <1>3, <2>1, LineStays
  <2>3. m # Nobody /\ pc'[m] = "before" /\ part'[m] = 1
    BY <1>1, <2>1, SetupAssumption DEF StateTypes, MutexInv, Coloring
  <2>4. Fresh(k) /\ Fresh(k)'
    BY <1>1, <1>3, <2>1 DEF ExpectedLine, Fresh
  <2>5. Started(m, k)'
    BY <2>3, <2>4 DEF Started
  <2>6. ExpectedLine(k)'
    BY <2>1, <2>3, <2>5 DEF ExpectedLine
  <2>7. QED
    BY <1>4, <2>2, <2>6
<1>16. ASSUME NEW m \in Modules, BeforeLog(m)
       PROVE  Goal
  <2>1. pc[m] = "before" /\ pc' = [pc EXCEPT ![m] = "color"] /\ mutex' = mutex /\ part' = part
        /\ msg' = msg /\ buffer' = buffer /\ terminal' = terminal
    BY <1>16 DEF BeforeLog, Goto
  <2>2. Continues(k)
    BY <1>3, <2>1, LineStays
  <2>3. mutex # Nobody => (pc'[mutex] = "after" <=> pc[mutex] = "after")
    BY <1>1, <1>5, <2>1 DEF StateTypes
  <2>4. QED
    BY <1>6, <2>1, <2>2, <2>3
<1>17. ASSUME NEW m \in Modules, SetPartColor(m)
       PROVE  Goal
  <2>1. pc[m] = "color" /\ pc' = [pc EXCEPT ![m] = "text"] /\ mutex' = mutex /\ part' = part
        /\ msg' = msg
    BY <1>17 DEF SetPartColor, Goto
  <2>2. Continues(k)
    BY <1>3, <1>17, LineColored
  <2>3. mutex # Nobody => (pc'[mutex] = "after" <=> pc[mutex] = "after")
    BY <1>1, <1>5, <2>1 DEF StateTypes
  <2>4. QED
    BY <1>6, <2>1, <2>2, <2>3
<1>18. ASSUME NEW m \in Modules, WritePlain(m)
       PROVE  Goal
  <2>1. Kind(m) = "plain"
    <3>1. pc[m] = "write" /\ Kind(m) \in Kinds
      BY <1>1, <1>18 DEF WritePlain, StateTypes, SetupType, Kind
    <3>2. QED
      BY <1>2, <3>1 DEF MutexInv, Colored, Kinds, Uses
  <2>2. QED
    BY <1>3, <1>18, <2>1, LinePlain
<1>19. ASSUME NEW m \in Modules, WritePart(m)
       PROVE  Goal
  BY <1>3, <1>19, LinePart
<1>20. ASSUME NEW m \in Modules, AfterLog(m)
       PROVE  Goal
  <2>1. pc[m] = "after" /\ mutex' = Nobody
    BY <1>20 DEF AfterLog, Leave
  <2>2. mutex = m /\ m # Nobody /\ msg[m] \in Messages
    BY <2>1, Holder DEF Amid, MutexInv
  <2>3. k = PlainText(setup.type, msg[m])
    BY <1>3, <2>1, <2>2 DEF ExpectedLine, Started
  <2>4. ExpectedLine(k)'
    BY <1>1, <2>1, <2>2, <2>3 DEF ExpectedLine, Fresh
  <2>5. Continues(k)
    BY <1>3, <1>20, LineColored
  <2>6. QED
    BY <1>4, <2>4, <2>5
<1>21. QED
  BY <1>8, <1>9, <1>10, <1>11, <1>12, <1>13, <1>14, <1>15, <1>16, <1>17, <1>18, <1>19, <1>20 DEF Next

-----------------------------------------------------------------------------
(* The theorems.                                                           *)

LEMMA InitTypes ==
    ASSUME Init
    PROVE  /\ Types /\ setup \in SetupType
           /\ mutex = Nobody /\ pc = [m \in Modules |-> "none"] /\ part = [m \in Modules |-> 1]
           /\ buffer = <<>> /\ order = <<>> /\ vt = setup.vt /\ ~disturbed
           /\ current = [m \in Modules |-> NoColor]
           /\ terminal.attr = DefaultWord /\ terminal.line = <<>> /\ ~terminal.wrong /\ ~terminal.raw
<1>1. setup \in SetupType /\ DefaultWord \in Words /\ 0 \in Words /\ NoColor \in Attributes
  BY SetupAssumption, NoColorType DEF Init, Words
<1>2. setup.capacity \in Nat /\ setup.vt \in BOOLEAN
  BY <1>1 DEF SetupType
<1>3. Len(<<>>) = 0 /\ <<>> \in Seq(Items) /\ <<>> \in Seq(Modules)
  OBVIOUS
<1>4. IsTerminal(terminal)
  BY <1>1 DEF Init, IsTerminal
<1>5. TypeOK
  BY <1>1, <1>2, <1>3 DEF Init, TypeOK, Modes
<1>6. Types
  BY <1>1, <1>3, <1>4, <1>5 DEF Init, Types
<1>7. QED
  BY <1>1, <1>6 DEF Init

LEMMA InitCInv ==
    ASSUME Init
    PROVE  CInv
<1>1. /\ Types /\ setup \in SetupType
      /\ mutex = Nobody /\ pc = [m \in Modules |-> "none"] /\ part = [m \in Modules |-> 1]
      /\ buffer = <<>> /\ order = <<>> /\ vt = setup.vt /\ ~disturbed
      /\ current = [m \in Modules |-> NoColor]
      /\ terminal.attr = DefaultWord /\ terminal.line = <<>> /\ ~terminal.wrong /\ ~terminal.raw
  BY InitTypes
<1>2. \A m \in Modules : pc[m] = "none" /\ part[m] = 1 /\ current[m] = NoColor /\ m # Nobody
  BY <1>1, SetupAssumption
<1>3. MutexInv
  BY <1>1, <1>2 DEF MutexInv, Amid, Coloring
<1>4. ModeInv
  BY <1>2 DEF ModeInv, Living
<1>5. Len(<<>>) = 0 /\ 1 .. 0 = {} /\ <<>> \in Seq(Modules)
  OBVIOUS
<1>6. OrderedInv
  <2>1. Distinct(<<>>)
    BY <1>5 DEF Distinct
  <2>2. ToSet(<<>>) = {}
    <3>1. PICK q \in Seq(Modules) : q = <<>>
      BY EmptySeq
    <3>2. ToSet(q) = {q[i] : i \in 1 .. Len(q)}
      BY ToSetOf
    <3>3. QED
      BY <1>5, <3>1, <3>2
  <2>3. QED
    BY <1>1, <1>2, <2>1, <2>2 DEF OrderedInv, Living
<1>7. ModeKept
  <2>1. setup.vt \in BOOLEAN
    BY <1>1 DEF SetupType
  <2>2. QED
    BY <1>1, <1>2, <1>5, <2>1 DEF ModeKept, Probing
<1>8. BufferInv /\ AutomaticIsClean
  BY <1>1, <1>5 DEF BufferInv, AutomaticIsClean
<1>9. CurrentInv /\ WordInv
  BY <1>2 DEF CurrentInv, WordInv, Coloring
<1>10. ColorInv
  <2>1. WordPath(<<>>, DefaultWord, DefaultWord)
    BY SetupAssumption, NoItem
  <2>2. Expected = DefaultWord
    BY <1>1 DEF Expected
  <2>3. QED
    BY <1>1, <2>1, <2>2 DEF ColorInv
<1>11. LineInv
  <2>1. LinePath(<<>>, <<>>, <<>>)
    BY NoItem
  <2>2. PICK l : l = <<>>
    OBVIOUS
  <2>3. LinePath(buffer, terminal.line, l) /\ ExpectedLine(l)
    BY <1>1, <2>1, <2>2 DEF ExpectedLine, Fresh
  <2>4. QED
    BY <1>1, <2>3 DEF LineInv
<1>12. QED
  BY <1>1, <1>3, <1>4, <1>6, <1>7, <1>8, <1>9, <1>10, <1>11 DEF CInv

LEMMA CInvStep ==
    ASSUME CInv, [Next]_vars
    PROVE  CInv'
<1>1. /\ Types /\ MutexInv /\ ModeInv /\ OrderedInv /\ ModeKept /\ BufferInv
      /\ AutomaticIsClean /\ CurrentInv /\ WordInv /\ ColorInv /\ LineInv
  BY DEF CInv
<1>2. Types' /\ MutexInv' /\ ModeInv' /\ OrderedInv'
  BY <1>1, TypesStep, MutexStep, ModeStep, OrderStep
<1>3. ModeKept' /\ BufferInv' /\ AutomaticIsClean'
  BY <1>1, ModeKeptStep, BufferStep
<1>4. CurrentInv' /\ WordInv'
  BY <1>1, CurrentStep, WordStep
<1>5. ColorInv'
  BY <1>1, ColorStep
<1>6. LineInv'
  BY <1>1, LineStep
<1>7. QED
  BY <1>2, <1>3, <1>4, <1>5, <1>6 DEF CInv

\* What the modules know of the console and of each other, and what the console
\* shows once it is passed what the stream holds, whatever the modules do in turn.
THEOREM ConsoleInvariance == Spec => []CInv
<1>1. Init => CInv
  BY InitCInv
<1>2. CInv /\ [Next]_vars => CInv'
  BY CInvStep
<1>3. QED
  BY <1>1, <1>2, PTL DEF Spec

\* The variables of Console keep their types.
THEOREM ConsoleTypes == Spec => []TypeOK
<1>1. CInv => TypeOK
  BY DEF CInv, Types
<1>2. QED
  BY <1>1, ConsoleInvariance, PTL

\* Under the conditions of ColorsHold each text is shown in the colours its formatter
\* gave it, and a plain one in the console's own, although a module changes the
\* colours of all (color_console_module_base.hpp).
THEOREM ColorsHeld == Spec => []ColorsAsFormatted
<1>1. CInv => ColorsAsFormatted
  BY DEF CInv, ColorInv, ColorsAsFormatted
<1>2. QED
  BY <1>1, ConsoleInvariance, PTL

\* The parts of a coloured message appear together and in order: the mutex is held
\* from the first to the last.
THEOREM LinesKept == Spec => []LinesWhole
<1>1. CInv => LinesWhole
  BY DEF CInv, LineInv, LinesWhole
<1>2. QED
  BY <1>1, ConsoleInvariance, PTL

\* In automatic mode no code is written that the console would show as text, if
\* the ANSI modules are destroyed in the reverse order of their construction.
THEOREM NoRawCode == Spec => []AutomaticIsClean
<1>1. CInv => AutomaticIsClean
  BY DEF CInv
<1>2. QED
  BY <1>1, ConsoleInvariance, PTL

LEMMA AllGone ==
    ASSUME CInv, \A m \in Modules : pc[m] = "gone", ~disorder
    PROVE  vt = setup.vt /\ (ColorsHold => terminal.attr = DefaultWord)
<1>1. Types /\ MutexInv /\ OrderedInv /\ ModeKept /\ BufferInv /\ ColorInv
  BY DEF CInv
<1>2. \A m \in Modules : ~Living(m)
  BY DEF Living
<1>3. order = <<>>
  <2>1. ~ (1 \in 1 .. Len(order))
    BY <1>1, <1>2, OrderMembers
  <2>2. order \in Seq(Modules)
    BY <1>1, TypesSplit DEF StateTypes
  <2>3. QED
    BY <2>1, <2>2, EmptySeq
<1>4. vt = setup.vt
  <2>1. vt \in BOOLEAN /\ setup.vt \in BOOLEAN
    BY <1>1, TypesSplit DEF StateTypes, SetupType
  <2>2. vt = (setup.vt \/ (setup.attached /\ order # <<>>))
    BY <1>1 DEF ModeKept
  <2>3. QED
    BY <1>3, <2>1, <2>2
<1>5. buffer = <<>>
  BY <1>1, <1>2 DEF BufferInv
<1>6. mutex = Nobody
  BY <1>1, Holder DEF Amid
<1>7. Expected = DefaultWord
  BY <1>6 DEF Expected
<1>8. CASE setup.attached /\ ColorsHold
  <2>1. WordPath(<<>>, terminal.attr, DefaultWord)
    BY <1>1, <1>5, <1>7, <1>8 DEF ColorInv
  <2>2. QED
    BY <1>4, <2>1, NoItem
<1>9. CASE ~setup.attached
  BY <1>1, <1>4, <1>9 DEF ColorInv
<1>10. QED
  BY <1>4, <1>8, <1>9

\* When the modules are gone the console has its mode back, if the ANSI modules
\* were destroyed in the reverse order of their construction, and its colours, if
\* they held (tidy(), after_log(), detect_handle_can_parse_color()).
THEOREM ConsoleGivenBack == Spec => []ConsoleRestored
<1>1. CInv => ConsoleRestored
  BY AllGone DEF ConsoleRestored
<1>2. QED
  BY <1>1, ConsoleInvariance, PTL

=============================================================================
