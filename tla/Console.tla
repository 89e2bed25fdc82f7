------------------------------- MODULE Console -------------------------------
(***************************************************************************)
(* The modules that write to one console of Windows through one stream:    *)
(* console_module and ostream_module write a plain text in one go, the     *)
(* ANSI and the win32 module write it in coloured parts, the first with    *)
(* escape codes in the text, the second with the attribute of the console  *)
(* that applies to whatever is shown next.  Each is called by one worker   *)
(* at a time (that of its sink); they share a global mutex, the stream,    *)
(* the console's attribute and its virtual-terminal mode.                  *)
(*                                                                         *)
(* A single write() or flush() of the stream is atomic, as those of the    *)
(* standard streams are.                                                   *)
(***************************************************************************)
EXTENDS MessageText, Colors, SequencesExt

CONSTANTS
    Modules,
    Messages,       \* message packs
    CustomColors,   \* the colours a user's formatter gives to the three parts
    DefaultWord,    \* the attribute the console has at first
    Setups,         \* the installations to explore
    Nobody          \* the owner of the free console mutex, no message

Kinds == {"plain", "stream", "ansi", "win32"}
Modes == {"on", "automatic", "off"}

\* kind: the class of each module; attached: the stream is a console that lets
\* its mode and its attribute be set, not a file or a console that refuses both
\* (to a module the two are the same); vt: its virtual-terminal mode at first; capacity: what the stream
\* buffers; type and levelColors: the message type, and its own formatter
\* rather than the user's.
SetupType ==
    [kind : [Modules -> Kinds], attached : BOOLEAN, vt : BOOLEAN, capacity : Nat,
     type : MessageTypes, levelColors : BOOLEAN]

ASSUME SetupAssumption ==
    /\ Setups \subseteq SetupType
    /\ Nobody \notin Modules \cup Messages
    /\ DefaultWord \in Words
    /\ CustomColors \in [1 .. 3 -> Attributes]
    /\ \A m \in Messages : m.level \in Levels

VARIABLES
    setup,
    mutex,      \* the module that holds console_mutex::mutex()
    pc,         \* what each module is doing
    msg,        \* the message it logs, or Nobody
    part,       \* the coloured part it writes
    mode,       \* color_mode_
    enable,     \* is_color_parse_enable_
    canParse,   \* can_parse_color_
    current,    \* ansi: current_machine_attribute_
    word,       \* win32: current_machine_attribute_
    original,   \* win32: original_machine_attribute_; ansi: its original_mode_
    vt,         \* the console interprets escape codes
    buffer,     \* what the stream has not passed on
    terminal,   \* the console's attribute and its last line, and two histories:
                \* a text was shown with a wrong attribute, a code was shown raw
    order,      \* history: the living ANSI modules in the order of construction
    disturbed,  \* history: parsing was turned on or off amid a message, or the
                \* attribute changed while a constructor was probing it
    disorder    \* history: ANSI modules not destroyed last-constructed-first,
                \* or one constructed while another was being constructed

moduleVars == <<msg, part, mode, enable, canParse, current, word, original>>
vars == <<setup, mutex, pc, moduleVars, vt, buffer, terminal, order, disturbed, disorder>>

Kind(m) == setup.kind[m]
Colored(m) == Kind(m) \in {"ansi", "win32"}

TypeOK ==
    /\ setup \in Setups
    /\ mutex \in Modules \cup {Nobody}
    /\ pc \in [Modules -> {"none", "probed", "idle", "write", "before", "color",
                           "text", "after", "gone"}]
    /\ msg \in [Modules -> Messages \cup {Nobody}]
    /\ part \in [Modules -> 1 .. 3]
    /\ mode \in [Modules -> Modes]
    /\ enable \in [Modules -> BOOLEAN]
    /\ canParse \in [Modules -> BOOLEAN]
    /\ current \in [Modules -> Attributes]
    /\ word \in [Modules -> Words]
    /\ original \in [Modules -> Words]
    /\ vt \in BOOLEAN
    /\ Len(buffer) <= setup.capacity
    /\ terminal.attr \in Words
    /\ order \in Seq(Modules)

Init ==
    /\ setup \in Setups
    /\ mutex = Nobody
    /\ pc = [m \in Modules |-> "none"]
    /\ msg = [m \in Modules |-> Nobody]
    /\ part = [m \in Modules |-> 1]
    /\ mode = [m \in Modules |-> "off"]
    /\ enable = [m \in Modules |-> FALSE]
    /\ canParse = [m \in Modules |-> FALSE]
    /\ current = [m \in Modules |-> NoColor]
    /\ word = [m \in Modules |-> 0]
    /\ original = [m \in Modules |-> 0]
    /\ vt = setup.vt
    /\ buffer = <<>>
    /\ terminal = [attr |-> DefaultWord, line |-> <<>>, wrong |-> FALSE, raw |-> FALSE]
    /\ order = <<>>
    /\ disturbed = FALSE
    /\ disorder = FALSE

-----------------------------------------------------------------------------
(* The stream and the console.                                             *)

\* A code of module m, and a text that is to be shown with the word w.
Code(m, n) == [code |-> n, text |-> <<>>, want |-> DefaultWord, auto |-> mode[m] = "automatic"]
Text(t, w) == [code |-> -1, text |-> t, want |-> w, auto |-> FALSE]

Complete(line) == line # <<>> /\ line[Len(line)] = Literal("\n")

Show(t, item) ==
    IF item.code >= 0
    THEN IF vt /\ setup.attached
         THEN [t EXCEPT !.attr = Interpret(item.code, @, DefaultWord)]
         ELSE [t EXCEPT !.raw = @ \/ item.auto]
    ELSE [t EXCEPT !.line = (IF Complete(@) THEN <<>> ELSE @) \o item.text,
                   !.wrong = @ \/ (setup.attached /\ t.attr # item.want)]

\* The console is shown one item after the other.
ShowAll(t, items) ==
    LET shown[n \in 0 .. Len(items)] ==
            IF n = 0 THEN t ELSE Show(shown[n - 1], items[n])
    IN  shown[Len(items)]

\* The buffer grows instead of being passed on.
FaultyLogToStream(items) == buffer' = buffer \o items /\ UNCHANGED terminal

\* std::ostream::write(): what does not fit the buffer goes to the console.
LogToStream(items) ==
    IF Len(buffer) + Len(items) <= setup.capacity
    THEN buffer' = buffer \o items /\ UNCHANGED terminal
    ELSE buffer' = <<>> /\ terminal' = ShowAll(terminal, buffer \o items)

FlushStream ==
    /\ buffer' = <<>>
    /\ terminal' = ShowAll(terminal, buffer)

\* SetConsoleTextAttribute() takes effect at once; it fails where the stream is
\* not attached.
SetConsole(w) ==
    terminal' = IF setup.attached THEN [terminal EXCEPT !.attr = w] ELSE terminal

Goto(m, place) == pc' = [pc EXCEPT ![m] = place]
Lock(m) == mutex = Nobody /\ mutex' = m

Probing(m) == Kind(m) = "ansi" /\ pc[m] = "probed"

-----------------------------------------------------------------------------
(* Construction and destruction.                                           *)

\* GetConsoleMode(), GetConsoleScreenBufferInfo().
Probe(m, md) ==
    /\ pc[m] = "none"
    /\ mode' = [mode EXCEPT ![m] = md]
    /\ original' = [original EXCEPT ![m] =
          IF Kind(m) = "ansi" /\ vt THEN 1
          ELSE IF Kind(m) = "win32" THEN terminal.attr ELSE 0]
    /\ disorder' = (disorder \/ (Kind(m) = "ansi" /\ \E k \in Modules : Probing(k)))
    /\ Goto(m, "probed")
    /\ UNCHANGED <<setup, mutex, msg, part, enable, canParse, current, word, vt,
                   buffer, terminal, order, disturbed>>

\* Automatic mode trusts every stream.
FaultyParses(m, md, can) == md # "off"

\* set_color_mode_implement() of both classes.
Parses(m, md, can) == md = "on" \/ (md = "automatic" /\ can)

\* The second half of set_virtual_terminal_processing().
SetVirtualTerminal(m) ==
    /\ vt' = (vt \/ setup.attached)
    /\ order' = Append(order, m)
    /\ UNCHANGED <<original, terminal, disturbed>>

\* The second half of detect_handle_can_parse_color() writes back the attribute
\* it has read.
WriteBackAttribute(m) ==
    /\ SetConsole(original[m])
    /\ original' = [original EXCEPT ![m] = 0]
    /\ disturbed' = (disturbed \/ terminal.attr # original[m])
    /\ UNCHANGED <<vt, order>>

\* The constructor, from the probe on.
Instantiate(m) ==
    /\ pc[m] = "probed"
    /\ LET can == Colored(m) /\ setup.attached
       IN  /\ canParse' = [canParse EXCEPT ![m] = can]
           /\ enable' = [enable EXCEPT ![m] = Colored(m) /\ Parses(m, mode[m], can)]
    /\ CASE Kind(m) = "ansi" -> SetVirtualTerminal(m)
         [] Kind(m) = "win32" -> WriteBackAttribute(m)
         [] OTHER -> UNCHANGED <<vt, order, original, terminal, disturbed>>
    /\ Goto(m, "idle")
    /\ UNCHANGED <<setup, mutex, msg, part, mode, current, word, buffer, disorder>>

\* The console's mode is left as the constructor has set it.
FaultyDestroy(m) ==
    /\ pc[m] = "idle"
    /\ Kind(m) = "plain" => mutex = Nobody
    /\ FlushStream
    /\ order' = RemoveFirst(order, m)
    /\ disorder' = (disorder \/ (Kind(m) = "ansi" /\ order[Len(order)] # m))
    /\ Goto(m, "gone")
    /\ UNCHANGED <<vt, setup, mutex, moduleVars, disturbed>>

\* ~sink() flushes the module; tidy() restores the mode the constructor read.
Destroy(m) ==
    /\ pc[m] = "idle"
    /\ Kind(m) = "plain" => mutex = Nobody
    /\ FlushStream
    /\ vt' = IF Kind(m) = "ansi" /\ canParse[m] THEN original[m] = 1 ELSE vt
    /\ order' = RemoveFirst(order, m)
    /\ disorder' = (disorder \/ /\ Kind(m) = "ansi"
                                /\ \/ order[Len(order)] # m
                                   \/ \E k \in Modules : Probing(k))
    /\ Goto(m, "gone")
    /\ UNCHANGED <<setup, mutex, moduleVars, disturbed>>

\* No mutex is taken, whatever the module is doing.
SetColorMode(m, md) ==
    /\ Colored(m)
    /\ pc[m] \notin {"none", "probed", "gone"}
    /\ mode' = [mode EXCEPT ![m] = md]
    /\ enable' = [enable EXCEPT ![m] = Parses(m, md, canParse[m])]
    /\ disturbed' = (disturbed \/ /\ pc[m] \in {"color", "text", "after"}
                                  /\ enable'[m] # enable[m])
    /\ UNCHANGED <<setup, mutex, pc, msg, part, canParse, current, word, original,
                   vt, buffer, terminal, order, disorder>>

-----------------------------------------------------------------------------
(* console_module and ostream_module.                                      *)

\* The text is formatted before the mutex is taken.
LogPlain(m, x) ==
    /\ pc[m] = "idle" /\ ~Colored(m)
    /\ msg' = [msg EXCEPT ![m] = x]
    /\ Goto(m, "write")
    /\ UNCHANGED <<setup, mutex, part, mode, enable, canParse, current, word, original,
                   vt, buffer, terminal, order, disturbed, disorder>>

\* console_module writes without the mutex.
FaultyWritePlain(m) ==
    /\ pc[m] = "write"
    /\ LogToStream(<<Text(PlainText(setup.type, msg[m]), DefaultWord)>>)
    /\ msg' = [msg EXCEPT ![m] = Nobody]
    /\ Goto(m, "idle")
    /\ UNCHANGED <<setup, mutex, part, mode, enable, canParse, current, word,
                   original, vt, order, disturbed, disorder>>

\* One write() under the mutex; ostream_module knows no mutex.
WritePlain(m) ==
    /\ pc[m] = "write"
    /\ Kind(m) = "plain" => mutex = Nobody
    /\ LogToStream(<<Text(PlainText(setup.type, msg[m]), DefaultWord)>>)
    /\ msg' = [msg EXCEPT ![m] = Nobody]
    /\ Goto(m, "idle")
    /\ UNCHANGED <<setup, mutex, part, mode, enable, canParse, current, word,
                   original, vt, order, disturbed, disorder>>

\* flush() of console_module takes the mutex, those of the others do not.
Flush(m) ==
    /\ pc[m] = "idle"
    /\ Kind(m) = "plain" => mutex = Nobody
    /\ FlushStream
    /\ UNCHANGED <<setup, mutex, pc, moduleVars, vt, order, disturbed, disorder>>

-----------------------------------------------------------------------------
(* color_console_module_base::log_message(), under the mutex throughout.   *)

PartColor(m) ==
    IF ~setup.levelColors THEN CustomColors[part[m]]
    ELSE IF part[m] = 2 THEN GetColor(msg[m].level) ELSE NoColor

\* A formatter that throws releases the mutex and leaves nothing behind.
LogColored(m, x) ==
    /\ pc[m] = "idle" /\ Colored(m)
    /\ Lock(m)
    /\ msg' = [msg EXCEPT ![m] = x]
    /\ Goto(m, "before")
    /\ UNCHANGED <<setup, part, mode, enable, canParse, current, word, original, vt,
                   buffer, terminal, order, disturbed, disorder>>

\* The win32 module takes the console's attribute for the original one.
BeforeLog(m) ==
    /\ pc[m] = "before"
    /\ IF enable[m] /\ Kind(m) = "win32"
       THEN LET w == IF setup.attached THEN terminal.attr ELSE 0
            IN  /\ original' = [original EXCEPT ![m] = w]
                /\ word' = [word EXCEPT ![m] = w]
       ELSE UNCHANGED <<original, word>>
    /\ Goto(m, "color")
    /\ UNCHANGED <<setup, mutex, msg, part, mode, enable, canParse, current, vt,
                   buffer, terminal, order, disturbed, disorder>>

\* set_color_attribute() of either class.
SetAnsiColor(m, a) ==
    /\ LogToStream([i \in 1 .. Len(AnsiCodes(current[m], a)) |->
                       Code(m, AnsiCodes(current[m], a)[i])])
    /\ current' = [current EXCEPT ![m] = a]
    /\ UNCHANGED word

SetWin32Word(m, w) ==
    /\ SetConsole(w)
    /\ word' = [word EXCEPT ![m] = IF setup.attached THEN w ELSE @]
    /\ UNCHANGED <<buffer, current>>

SetWin32Color(m, a) == SetWin32Word(m, ConvertToMachineAttribute(a, original[m]))

SetPartColor(m) ==
    /\ pc[m] = "color"
    /\ CASE enable[m] /\ Kind(m) = "ansi" -> SetAnsiColor(m, PartColor(m))
         [] enable[m] /\ Kind(m) = "win32" -> SetWin32Color(m, PartColor(m))
         [] OTHER -> UNCHANGED <<buffer, terminal, current, word>>
    /\ Goto(m, "text")
    /\ UNCHANGED <<setup, mutex, msg, part, mode, enable, canParse, original, vt,
                   order, disturbed, disorder>>

WritePart(m) ==
    /\ pc[m] = "text"
    /\ LogToStream(<<Text(TextParts(setup.type, msg[m])[part[m]],
                          Shown(IF enable[m] THEN PartColor(m) ELSE NoColor, DefaultWord))>>)
    /\ IF part[m] < 3
       THEN part' = [part EXCEPT ![m] = @ + 1] /\ Goto(m, "color")
       ELSE Goto(m, "after") /\ UNCHANGED part
    /\ UNCHANGED <<setup, mutex, msg, mode, enable, canParse, current, word, original,
                   vt, order, disturbed, disorder>>

\* log_message() returns.
Leave(m) ==
    /\ mutex' = Nobody
    /\ msg' = [msg EXCEPT ![m] = Nobody]
    /\ part' = [part EXCEPT ![m] = 1]
    /\ Goto(m, "idle")

\* The last colour is kept.
FaultyAfterLog(m) ==
    /\ pc[m] = "after"
    /\ Leave(m)
    /\ UNCHANGED <<setup, mode, enable, canParse, current, word, original, vt,
                   buffer, terminal, order, disturbed, disorder>>

\* after_log() of the ANSI class resets both colours.
AfterAnsiLog(m) == SetAnsiColor(m, NoColor)

\* That of the win32 class restores the attribute, unless it is the last one set.
AfterWin32Log(m) ==
    IF original[m] # word[m]
    THEN SetWin32Word(m, original[m])
    ELSE UNCHANGED <<buffer, terminal, current, word>>

AfterLog(m) ==
    /\ pc[m] = "after"
    /\ CASE enable[m] /\ Kind(m) = "ansi" -> AfterAnsiLog(m)
         [] enable[m] /\ Kind(m) = "win32" -> AfterWin32Log(m)
         [] OTHER -> UNCHANGED <<buffer, terminal, current, word>>
    /\ Leave(m)
    /\ UNCHANGED <<setup, mode, enable, canParse, original, vt, order,
                   disturbed, disorder>>

-----------------------------------------------------------------------------

Next ==
    \E m \in Modules :
        \/ \E md \in Modes : Probe(m, md) \/ SetColorMode(m, md)
        \/ Instantiate(m)
        \/ Destroy(m)
        \/ \E x \in Messages : LogPlain(m, x) \/ LogColored(m, x)
        \/ WritePlain(m)
        \/ Flush(m)
        \/ BeforeLog(m)
        \/ SetPartColor(m)
        \/ WritePart(m)
        \/ AfterLog(m)

Spec == Init /\ [][Next]_vars

-----------------------------------------------------------------------------
(* Properties.                                                             *)

Uses(kind) == \E m \in Modules : Kind(m) = kind

\* The win32 module colours what the stream shows next: it needs a stream
\* without a buffer.  No module can protect itself from ostream_module.
ColorsHold ==
    /\ ~disturbed /\ ~disorder
    /\ ~Uses("stream")
    /\ Uses("win32") => setup.capacity = 0

\* Where ColorsHold, every text appears in the colours its formatter gave it,
\* and a plain one in those the console had, whatever modules write to the
\* console in turn: parsing is not turned on or off amid a message, no attribute
\* changes under a constructor that probes it, the ANSI modules come and go in
\* order, and a win32 module has a stream without a buffer.  The code does not
\* ensure any of these four.
ColorsAsFormatted == ColorsHold => ~terminal.wrong

\* A line of the console is (the beginning of) one message as the plain modules
\* write it: the parts come together and in order, no other text amid them.
LinesWhole ==
    ~Uses("stream") /\ terminal.line # <<>> =>
        \E x \in Messages : IsPrefix(terminal.line, PlainText(setup.type, x))

\* If the ANSI modules are constructed one at a time and destroyed in the
\* reverse order, no escape code is shown as text in automatic mode, although
\* each module restores the mode of the console.  Nothing in the library keeps
\* to that order: ~manager() destroys its sinks in that of an unordered_map, and
\* the first module constructed takes the mode away from those that outlive it.
AutomaticIsClean == ~disorder => ~terminal.raw

\* When all modules are destroyed the console has its mode again, if the ANSI
\* modules were constructed one at a time and destroyed in the reverse order
\* (which ~manager() does not ensure), and its attribute, if the colours held.
ConsoleRestored ==
    (\A m \in Modules : pc[m] = "gone") /\ ~disorder =>
        /\ vt = setup.vt
        /\ ColorsHold => terminal.attr = DefaultWord
=============================================================================
