----------------------------- MODULE MessageText -----------------------------
(***************************************************************************)
(* The text of a message, whole as the plain modules write it and in the   *)
(* three coloured parts of the console modules.  A text is a sequence of   *)
(* pieces <<s, n>>: a literal or a name s (n = 0), or a number n of the    *)
(* kind s.                                                                 *)
(***************************************************************************)
EXTENDS Integers, Sequences

\* The ready-made message types.  A stream_message is printed in parts and in
\* local time, the other two with one format string and in UTC.
MessageTypes == {"stream", "fmt", "format"}

Literal(s) == <<s, 0>>

LogString == <<"trace", "debug", "info", "warning", "error", "critical">>
Levels == 0 .. 5
GetLogString(level) == LogString[level + 1]

\* The level is right-aligned in eight columns.
LevelField(level) == <<GetLogString(level), 8>>

\* A time is a number of milliseconds since the epoch.
GetMs(time) == <<"ms", time % 1000>>
LocalTime(time) == <<"local time", time \div 1000>>
UtcTime(time) == <<"utc", time \div 1000>>

\* A message is its level, its content and the time of its construction; the
\* name of the logger is passed along with it.
MessagePack(logger, level, content, time) ==
    [logger |-> logger, level |-> level, content |-> content, time |-> time]

-----------------------------------------------------------------------------
(* stream_message.                                                         *)

StreamFirst(m) ==
    <<Literal("["), LocalTime(m.time), Literal("."), GetMs(m.time), Literal("] ")>>

StreamSecond(m) == <<Literal("["), LevelField(m.level), Literal("]")>>

StreamThird(m) ==
    <<Literal(" ["), Literal(m.logger), Literal("] "), Literal(m.content), Literal("\n")>>

StreamFormat(m) == StreamFirst(m) \o StreamSecond(m) \o StreamThird(m)

-----------------------------------------------------------------------------
(* fmt_message and format_message: the whole text has a format string of   *)
(* its own, beside those of the parts.                                     *)

FmtFirst(m) ==
    <<Literal("["), UtcTime(m.time), Literal("."), GetMs(m.time), Literal("] ")>>

FmtSecond(m) == <<Literal("["), LevelField(m.level), Literal("]")>>

FmtThird(m) ==
    <<Literal(" ["), Literal(m.logger), Literal("] "), Literal(m.content), Literal("\n")>>

FmtFormat(m) ==
    <<Literal("["), UtcTime(m.time), Literal("."), GetMs(m.time), Literal("] "),
      Literal("["), LevelField(m.level), Literal("]"),
      Literal(" ["), Literal(m.logger), Literal("] "), Literal(m.content), Literal("\n")>>

\* format_message.hpp has the same four functions with std::format.
FormatFirst(m) == FmtFirst(m)
FormatSecond(m) == FmtSecond(m)
FormatThird(m) == FmtThird(m)
FormatFormat(m) == FmtFormat(m)

-----------------------------------------------------------------------------
(* The formatters of the console modules.                                  *)

\* message_formatter_base.
PlainText(type, m) ==
    CASE type = "stream" -> StreamFormat(m)
      [] type = "fmt" -> FmtFormat(m)
      [] type = "format" -> FormatFormat(m)

\* The texts color_message_formatter_base gives colours to.
TextParts(type, m) ==
    CASE type = "stream" -> <<StreamFirst(m), StreamSecond(m), StreamThird(m)>>
      [] type = "fmt" -> <<FmtFirst(m), FmtSecond(m), FmtThird(m)>>
      [] type = "format" -> <<FormatFirst(m), FormatSecond(m), FormatThird(m)>>
=============================================================================
