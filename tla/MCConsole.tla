------------------------------ MODULE MCConsole ------------------------------
(* A small instance of Console for TLC: two modules of every two kinds.     *)
EXTENDS Console

CONSTANTS m1, m2

TwoModules == {m1, m2}
\* Cyan, and intense white on red.
TwoMessages ==
    {MessagePack("a", 1, "x", 1500), MessagePack("b", 5, "y", 2001)}
\* Adjacent parts of which the second drops the foreground of the first and
\* the third adds one to its background.
ThreeColors ==
    <<Attribute(Red, Original), Attribute(Original, Green),
      Attribute(Blue + Intense, Green)>>

Setup(k1, k2, attached, on, capacity, type, levelColors) ==
    [kind |-> (m1 :> k1) @@ (m2 :> k2), attached |-> attached, vt |-> on,
     capacity |-> capacity, type |-> type, levelColors |-> levelColors]

SomeSetups == {
    Setup("ansi", "ansi", TRUE, FALSE, 0, "fmt", TRUE),
    Setup("ansi", "ansi", TRUE, TRUE, 0, "stream", FALSE),
    Setup("ansi", "plain", TRUE, FALSE, 3, "format", TRUE),
    Setup("ansi", "plain", FALSE, FALSE, 2, "fmt", TRUE),
    Setup("ansi", "win32", TRUE, FALSE, 0, "stream", TRUE),
    Setup("win32", "win32", TRUE, FALSE, 0, "fmt", FALSE),
    Setup("win32", "plain", TRUE, FALSE, 2, "fmt", TRUE),
    Setup("win32", "stream", FALSE, FALSE, 0, "stream", TRUE)}
=============================================================================
