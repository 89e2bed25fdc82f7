------------------------- MODULE RotationFileProofs -------------------------
(***************************************************************************)
(* Theorems about RotationFile: types, the size of the files, that a       *)
(* rotation overwrites the oldest archive only, and that the module is a   *)
(* LogWindow, for every size and number of files, all messages and         *)
(* whichever calls fail.                                                   *)
(***************************************************************************)
EXTENDS RotationFile, SequenceLemmas

\* A content without a message has no size, and its sizes agree as far as
\* those of the messages do.
Sane(f) ==
    /\ f.text = <<>> => f.units = 0
    /\ f.units <= f.bytes
    /\ f.bytes <= BytesPerUnit * f.units

\* The number of messages of a content.
Count(f) == Len(f.text)

Bounded(f) == f.units < FileSize \/ Count(f) = 1

\* A file is open outside of rotations only, and then it exists.
PcInv ==
    /\ pc = "rename" => index > 0 /\ file = "null"
    /\ pc = "open" => index = 0 /\ file = "null"
    /\ pc = "down" => file = "null"
    /\ pc = "wrote" => file = "open"
    /\ pc = "write" => message # NoMessage
    /\ file = "null" => buffer = Empty
    /\ file # "null" => Exists(0)

\* The name that the next rename overwrites has been renamed before, unless
\* it is that of the last archive.
GapInv ==
    /\ pc = "rename" /\ index < FileCount - 1 => ~Exists(index)
    /\ pc = "open" /\ FileCount > 1 => ~Exists(0)

SaneInv ==
    /\ \A name \in Names : Exists(name) => Sane(disk[name])
    /\ Sane(buffer)

\* A file is bounded together with what its stream has not written yet, and
\* current_size is at least the size of both: it starts with the bytes that
\* the file has and counts the code units that are added to it.
BoundInv ==
    FileCount > 1 /\ "size" \notin Failing =>
        /\ \A name \in Names : Exists(name) => Bounded(disk[name])
        /\ file # "null" => Bounded(Join(disk[0], buffer))
        /\ file = "open" => current_size >= disk[0].units + buffer.units
        /\ pc = "write" /\ file = "open" =>
            \/ disk[0].units + buffer.units + SizeOf[message] < FileSize
            \/ disk[0].text = <<>> /\ buffer.text = <<>>

\* The log: the files, from the oldest archive to the current one, and then
\* what the current one has in its buffer.
Disks == [Names -> Contents \cup {NoFile}]

TextIn(d, name) == IF d[name] # NoFile THEN d[name].text ELSE <<>>

TextsOf(d) == [k \in 1 .. FileCount |-> TextIn(d, FileCount - k)]

LogOf(d) == FlattenSeq(TextsOf(d))

Kept == LogOf(disk) \o buffer.text

\* A message that is being logged is not in the log, and nothing in the
\* buffer has been flushed.
OnRecord == accepted \cup durable \cup ToSet(Kept)

FreshInv ==
    /\ OnRecord \subseteq logged
    /\ message # NoMessage => message \in logged \ OnRecord
    /\ ToSet(buffer.text) \cap durable = {}

RInv == TypeOK /\ PcInv /\ GapInv /\ SaneInv /\ BoundInv /\ FreshInv

-----------------------------------------------------------------------------
(* Contents                                                                *)

\* Multiplication, for the sizes of contents that are joined.
LEMMA TimesSum ==
    ASSUME NEW k \in Nat, NEW a \in Nat, NEW b \in Nat
    PROVE  /\ k * (a + b) = k * a + k * b
           /\ k * a \in Nat /\ k * b \in Nat
           /\ k > 0 /\ a < b => k * a < k * b
OBVIOUS

\* The empty content is a sane and bounded content.
LEMMA EmptyContent == Empty \in Contents /\ Sane(Empty) /\ Bounded(Empty)
BY RotateInfoAssumption, EncodingAssumption DEF Empty, Contents, Sane, Bounded, Count

\* What a content consists of.
LEMMA ContentParts ==
    ASSUME NEW f \in Contents
    PROVE  /\ f.text \in Seq(Messages) /\ f.units \in Nat /\ f.bytes \in Nat
           /\ Count(f) \in Nat
           /\ f.text = <<>> <=> Count(f) = 0
           /\ f = [text |-> f.text, units |-> f.units, bytes |-> f.bytes]
<1>1. f.text \in Seq(Messages) /\ f.units \in Nat /\ f.bytes \in Nat
      /\ f = [text |-> f.text, units |-> f.units, bytes |-> f.bytes]
  BY DEF Contents
<1> QED BY <1>1, EmptySeq, LenProperties DEF Count

\* Joining contents makes a content; it is sane if both are.
LEMMA JoinContent ==
    ASSUME NEW f \in Contents, NEW g \in Contents
    PROVE  /\ Join(f, g) \in Contents
           /\ Join(f, g).units = f.units + g.units
           /\ Count(Join(f, g)) = Count(f) + Count(g)
           /\ Sane(f) /\ Sane(g) => Sane(Join(f, g))
<1>1. f.text \in Seq(Messages) /\ g.text \in Seq(Messages)
      /\ f.units \in Nat /\ g.units \in Nat
      /\ f.bytes \in Nat /\ g.bytes \in Nat
  BY ContentParts
<1>2. f.text \o g.text \in Seq(Messages)
      /\ Len(f.text \o g.text) = Count(f) + Count(g)
  BY <1>1, ConcatProperties DEF Count
<1>3. Join(f, g) \in Contents
  BY <1>1, <1>2 DEF Join, Contents
<1>4. /\ Join(f, g).units = f.units + g.units
      /\ Join(f, g).bytes = f.bytes + g.bytes
      /\ Count(Join(f, g)) = Count(f) + Count(g)
  BY <1>2 DEF Join, Count
<1>5. ASSUME Sane(f), Sane(g), Join(f, g).text = <<>>
      PROVE  Join(f, g).units = 0
  <2>1. Count(f) + Count(g) = 0
    BY <1>3, <1>4, <1>5, ContentParts
  <2>2. Count(f) = 0 /\ Count(g) = 0
    <3>1. Count(f) \in Nat /\ Count(g) \in Nat
      BY ContentParts
    <3> QED BY <2>1, <3>1
  <2>3. f.units = 0 /\ g.units = 0
    BY <1>5, <2>2, ContentParts DEF Sane
  <2> QED BY <1>4, <2>3
<1>6. ASSUME Sane(f), Sane(g)
      PROVE  /\ Join(f, g).units <= Join(f, g).bytes
             /\ Join(f, g).bytes <= BytesPerUnit * Join(f, g).units
  <2>1. BytesPerUnit * (f.units + g.units)
          = BytesPerUnit * f.units + BytesPerUnit * g.units
    BY <1>1, EncodingAssumption, TimesSum
  <2>2. BytesPerUnit * f.units \in Nat /\ BytesPerUnit * g.units \in Nat
    BY <1>1, EncodingAssumption, TimesSum
  <2> QED BY <1>1, <1>4, <1>6, <2>1, <2>2 DEF Sane
<1> QED BY <1>3, <1>4, <1>5, <1>6 DEF Sane

\* A message behind a content makes a content, a sane one behind a sane one.
LEMMA PlusContent ==
    ASSUME NEW f \in Contents, NEW m \in Messages
    PROVE  /\ Plus(f, m) \in Contents
           /\ Sane(f) => Sane(Plus(f, m))
           /\ Plus(f, m).units = f.units + SizeOf[m]
           /\ Count(Plus(f, m)) = Count(f) + 1
<1>1. /\ f.text \in Seq(Messages) /\ f.units \in Nat /\ f.bytes \in Nat
      /\ SizeOf[m] \in Nat /\ BytesOf[m] \in Nat
  BY ContentParts, MessagesAssumption
<1>2. /\ Append(f.text, m) \in Seq(Messages)
      /\ Append(f.text, m) # <<>>
      /\ Len(Append(f.text, m)) = Count(f) + 1
  BY <1>1, AppendProperties DEF Count
<1>3. ASSUME Sane(f)
      PROVE  /\ f.units + SizeOf[m] <= f.bytes + BytesOf[m]
             /\ f.bytes + BytesOf[m] <= BytesPerUnit * (f.units + SizeOf[m])
  <2>1. BytesPerUnit * (f.units + SizeOf[m])
          = BytesPerUnit * f.units + BytesPerUnit * SizeOf[m]
    BY <1>1, EncodingAssumption, TimesSum
  <2>2. BytesPerUnit * f.units \in Nat /\ BytesPerUnit * SizeOf[m] \in Nat
    BY <1>1, EncodingAssumption, TimesSum
  <2>3. SizeOf[m] <= BytesOf[m] /\ BytesOf[m] <= BytesPerUnit * SizeOf[m]
    BY EncodingAssumption
  <2> QED BY <1>1, <1>3, <2>1, <2>2, <2>3 DEF Sane
<1>4. /\ Plus(f, m).text = Append(f.text, m)
      /\ Plus(f, m).units = f.units + SizeOf[m]
      /\ Plus(f, m).bytes = f.bytes + BytesOf[m]
  BY DEF Plus
<1>5. Plus(f, m) \in Contents
  BY <1>1, <1>2 DEF Plus, Contents
<1> QED BY <1>2, <1>3, <1>4, <1>5 DEF Sane, Count

\* Nothing changes when an empty buffer is written.
LEMMA JoinEmpty ==
    ASSUME NEW f \in Contents
    PROVE  Join(f, Empty) = f
<1>1. /\ f = [text |-> f.text, units |-> f.units, bytes |-> f.bytes]
      /\ f.text \in Seq(Messages) /\ f.units \in Nat /\ f.bytes \in Nat
  BY ContentParts
<1>2. f.text \o <<>> = f.text
  BY <1>1, ConcatEmptySeq
<1>3. f.units + 0 = f.units /\ f.bytes + 0 = f.bytes
  BY <1>1
<1> QED BY <1>1, <1>2, <1>3 DEF Join, Empty

\* What is bounded together with a buffer is bounded without it.
LEMMA JoinBounded ==
    ASSUME NEW f \in Contents, NEW g \in Contents, Sane(f),
           Bounded(Join(f, g))
    PROVE  Bounded(f)
<1>1. /\ f.units \in Nat /\ g.units \in Nat
      /\ Count(f) \in Nat /\ Count(g) \in Nat
  BY ContentParts
<1>2. f.units + g.units < FileSize \/ Count(f) + Count(g) = 1
  BY JoinContent DEF Bounded
<1>3. Count(f) = 0 => f.units = 0
  BY ContentParts DEF Sane
<1>4. FileSize \in Nat /\ FileSize > 0
  BY RotateInfoAssumption
<1>5. f.units < FileSize \/ Count(f) = 1
  BY <1>1, <1>2, <1>3, <1>4
<1> QED BY <1>5 DEF Bounded

\* A message that fits, or that is alone, leaves a bounded content.
LEMMA PlusBounded ==
    ASSUME NEW f \in Contents, NEW g \in Contents, NEW m \in Messages,
           \/ f.units + g.units + SizeOf[m] < FileSize
           \/ f.text = <<>> /\ g.text = <<>>
    PROVE  Bounded(Join(f, Plus(g, m)))
<1>1. f.units \in Nat /\ g.units \in Nat /\ SizeOf[m] \in Nat
  BY ContentParts, MessagesAssumption
<1>2. /\ Join(f, Plus(g, m)).units = f.units + g.units + SizeOf[m]
      /\ Count(Join(f, Plus(g, m))) = Count(f) + Count(g) + 1
  <2>1. Plus(g, m) \in Contents
    BY PlusContent
  <2>2. /\ Plus(g, m).units = g.units + SizeOf[m]
        /\ Count(Plus(g, m)) = Count(g) + 1
    BY PlusContent
  <2>3. Count(f) \in Nat /\ Count(g) \in Nat
    BY ContentParts
  <2>4. /\ Join(f, Plus(g, m)).units = f.units + Plus(g, m).units
        /\ Count(Join(f, Plus(g, m))) = Count(f) + Count(Plus(g, m))
    BY <2>1, JoinContent
  <2> QED BY <1>1, <2>2, <2>3, <2>4
<1>3. CASE f.units + g.units + SizeOf[m] < FileSize
  BY <1>2, <1>3 DEF Bounded
<1>4. CASE f.text = <<>> /\ g.text = <<>>
  <2>1. Count(f) = 0 /\ Count(g) = 0
    BY <1>4, ContentParts
  <2>2. Count(Join(f, Plus(g, m))) = 1
    BY <1>2, <2>1
  <2> QED BY <2>2 DEF Bounded
<1> QED BY <1>3, <1>4

-----------------------------------------------------------------------------
(* The disk                                                                *)

\* The module's names; the loop starts at one of them.
LEMMA NamesFacts == 0 \in Names /\ FirstIndex \in Names /\ Names \subseteq Nat
BY RotateInfoAssumption DEF Names, FirstIndex

\* Handing the buffer of an open file to the system changes that file only.
LEMMA SyncedDisk ==
    ASSUME TypeOK, Exists(0)
    PROVE  /\ Synced \in [Names -> Contents \cup {NoFile}]
           /\ Synced[0] = Join(disk[0], buffer)
           /\ Synced[0] \in Contents
           /\ \A name \in Names : name # 0 => Synced[name] = disk[name]
<1>1. /\ disk \in [Names -> Contents \cup {NoFile}] /\ buffer \in Contents
      /\ disk[0] \in Contents
  BY NamesFacts DEF TypeOK, Exists
<1>2. Join(disk[0], buffer) \in Contents
  BY <1>1, JoinContent
<1> QED BY <1>1, <1>2, NamesFacts DEF Synced

\* Closing a file leaves the names that exist, and changes the open file only.
LEMMA ClosedDisk ==
    ASSUME TypeOK, file # "null" => Exists(0), NEW d \in AfterClose
    PROVE  /\ d \in [Names -> Contents \cup {NoFile}]
           /\ \A name \in Names : d[name] # NoFile <=> Exists(name)
           /\ \A name \in Names : name # 0 => d[name] = disk[name]
           /\ \/ d[0] = disk[0]
              \/ file # "null" /\ d[0] = Join(disk[0], buffer)
<1>1. CASE d = disk
  BY <1>1 DEF TypeOK, Exists
<1>2. CASE d # disk
  <2>1. file # "null" /\ d = Synced
    BY <1>2 DEF AfterClose
  <2>2. Synced[0] # NoFile
    BY <2>1, SyncedDisk, NoFileAssumption
  <2> QED BY <2>1, <2>2, SyncedDisk DEF Exists
<1> QED BY <1>1, <1>2

\* What open_file() finds is a content, whose size is what it reads if the
\* size can be read.
LEMMA OpenedContent ==
    ASSUME TypeOK
    PROVE  /\ Opened \in Contents
           /\ [disk EXCEPT ![0] = Opened] \in [Names -> Contents \cup {NoFile}]
           /\ SizeOnOpen \subseteq Nat
           /\ "size" \notin Failing => SizeOnOpen = {Opened.bytes}
<1>1. Opened \in Contents
  BY NamesFacts, EmptyContent DEF Opened, Exists, TypeOK
<1>2. [disk EXCEPT ![0] = Opened] \in [Names -> Contents \cup {NoFile}]
  BY <1>1, NamesFacts DEF TypeOK
<1>3. Opened.bytes \in Nat
  BY <1>1, ContentParts
<1> QED BY <1>1, <1>2, <1>3 DEF SizeOnOpen

-----------------------------------------------------------------------------
(* Each part of RInv is preserved.                                         *)

\* The first state is well typed.
LEMMA TypeInit == Init => TypeOK
<1> SUFFICES ASSUME Init PROVE TypeOK
  OBVIOUS
<1>1. PICK first \in {NoFile} \cup {Plus(Empty, m) : m \in Earlier} :
        disk = [name \in Names |-> IF name = 0 THEN first ELSE NoFile]
  BY DEF Init
<1>2. first \in Contents \cup {NoFile}
  BY PlusContent, EmptyContent, MessagesAssumption
<1>3. disk \in [Names -> Contents \cup {NoFile}]
  BY <1>1, <1>2
<1>4. logged \subseteq Messages
  <2>1. CASE Exists(0)
    <3>1. disk[0].text \in Seq(Messages)
      BY <1>3, <2>1, NamesFacts, ContentParts DEF Exists
    <3> QED BY <2>1, <3>1, ToSetOf DEF Init
  <2>2. CASE ~Exists(0)
    BY <2>2 DEF Init
  <2> QED BY <2>1, <2>2
<1>5. accepted \subseteq Messages /\ durable \subseteq Messages
  BY <1>4 DEF Init
<1>6. starts \in 0 .. MaxStarts /\ current_size \in Nat
  BY BoundsAssumption DEF Init
<1>7. buffer \in Contents /\ index \in Names /\ message = NoMessage
  BY NamesFacts, EmptyContent DEF Init
<1>8. pc = "down" /\ file = "null" /\ fault = FALSE
  BY DEF Init
<1> QED BY <1>3, <1>4, <1>5, <1>6, <1>7, <1>8 DEF TypeOK

\* Every step keeps the types.
LEMMA TypeNext ==
    ASSUME TypeOK, PcInv, [Next]_vars
    PROVE  TypeOK'
<1> USE DEF TypeOK
<1>1. ASSUME NEW m \in Messages \cup {NoMessage}, StartRotation(m)
      PROVE  /\ disk' \in [Names -> Contents \cup {NoFile}]
             /\ file' = "null" /\ buffer' \in Contents /\ message' = m
             /\ index' \in Names /\ pc' \in {"rename", "open"}
  BY <1>1, ClosedDisk, EmptyContent, NamesFacts DEF StartRotation, PcInv
<1>2. ASSUME NEW mode, Construct(mode)
      PROVE  TypeOK'
  <2>1. PICK size \in SizeOnOpen :
          /\ current_size' = size
          /\ IF Exists(0) /\ (mode = "create_new_file" \/ ShouldRotate(size, 0))
             THEN StartRotation(NoMessage)
             ELSE /\ disk' = [disk EXCEPT ![0] = Opened]
                  /\ file' = "open"
                  /\ pc' = "ready"
                  /\ UNCHANGED <<message, index, buffer>>
    BY <1>2 DEF Construct
  <2>2. current_size' \in Nat
    BY <2>1, OpenedContent
  <2>3. starts' \in 0 .. MaxStarts
    BY <1>2, BoundsAssumption DEF Construct
  <2>4. CASE StartRotation(NoMessage)
    BY <1>1, <1>2, <2>2, <2>3, <2>4 DEF Construct
  <2>5. CASE ~StartRotation(NoMessage)
    BY <1>2, <2>1, <2>2, <2>3, <2>5, OpenedContent DEF Construct
  <2> QED BY <2>4, <2>5
<1>3. CASE Rename
  <2>1. index \in Names /\ index - 1 \in Names
    BY <1>3, RotateInfoAssumption DEF Rename, PcInv, Names
  <2> QED BY <1>3, <2>1 DEF Rename
<1>4. CASE RenameFails \/ OpenFails \/ WriteRefused
  BY <1>4 DEF RenameFails, OpenFails, WriteRefused, Throw
<1>5. CASE OpenFile
  BY <1>5, OpenedContent DEF OpenFile
<1>6. ASSUME NEW m \in Messages, LogMessage(m)
      PROVE  TypeOK'
  BY <1>1, <1>6 DEF LogMessage
<1>7. CASE Write
  <2>1. message \in Messages
    BY <1>7 DEF Write, PcInv
  <2>2. SizeOf[message] \in Nat
    BY <2>1, MessagesAssumption
  <2> QED BY <1>7, <2>1, <2>2, PlusContent DEF Write
<1>8. CASE WriteFails
  <2>1. message \in Messages
    BY <1>8 DEF WriteFails, PcInv
  <2>2. buffer' \in Contents
    BY <1>8, <2>1, PlusContent DEF WriteFails
  <2> QED BY <1>8, <2>2 DEF WriteFails, Throw
<1>9. CASE WriteNull \/ Crash
  BY <1>9, EmptyContent DEF WriteNull, Crash, EndProcess
<1>10. CASE Spill
  BY <1>10, SyncedDisk, EmptyContent DEF Spill, PcInv
<1>11. CASE Flush
  <2>1. disk' \in [Names -> Contents \cup {NoFile}]
    BY <1>11, SyncedDisk DEF Flush, PcInv
  <2>2. \A name \in {k \in Names : disk'[k] # NoFile} :
            ToSet(disk'[name].text) \subseteq Messages
    <3>1. \A name \in {k \in Names : disk'[k] # NoFile} : disk'[name] \in Contents
      BY <2>1
    <3> QED BY <3>1, ContentParts, ToSetOf
  <2>3. durable' \subseteq Messages
    BY <1>11, <2>2 DEF Flush
  <2> QED BY <1>11, <2>1, <2>3, EmptyContent DEF Flush
<1>12. CASE FlushFails \/ ConstructFails
  BY <1>12, BoundsAssumption DEF FlushFails, ConstructFails
<1>13. CASE Destroy
  BY <1>13, ClosedDisk, EmptyContent DEF Destroy, PcInv
<1>14. CASE UNCHANGED vars
  BY <1>14 DEF vars
<1> QED
  BY <1>2, <1>3, <1>4, <1>5, <1>6, <1>7, <1>8, <1>9, <1>10, <1>11, <1>12, <1>13,
     <1>14 DEF Next

\* No file is open at first.
LEMMA PcInit == Init => PcInv
BY DEF Init, PcInv

\* Every step keeps the file's state in line with what the worker does.
LEMMA PcNext ==
    ASSUME TypeOK, PcInv, [Next]_vars
    PROVE  PcInv'
<1> USE DEF PcInv
<1>1. ASSUME NEW m, StartRotation(m)
      PROVE  PcInv'
  BY <1>1, RotateInfoAssumption DEF StartRotation, FirstIndex
<1>2. Opened # NoFile
  BY OpenedContent, NoFileAssumption
<1>3. [disk EXCEPT ![0] = Opened][0] = Opened
  BY NamesFacts DEF TypeOK
<1>4. Exists(0) => Synced[0] # NoFile
  BY SyncedDisk, NoFileAssumption
<1>5. ASSUME NEW mode, Construct(mode)
      PROVE  PcInv'
  <2>1. CASE StartRotation(NoMessage)
    BY <1>1, <2>1
  <2>2. CASE ~StartRotation(NoMessage)
    BY <1>2, <1>3, <1>5, <2>2 DEF Construct, Exists
  <2> QED BY <2>1, <2>2
<1>6. CASE Rename
  <2>1. index \in Nat /\ index > 0
    BY <1>6, NamesFacts DEF Rename, TypeOK
  <2> QED BY <1>6, <2>1 DEF Rename
<1>7. CASE RenameFails \/ OpenFails \/ WriteRefused
  BY <1>7 DEF RenameFails, OpenFails, WriteRefused, Throw, Exists
<1>8. CASE OpenFile
  BY <1>2, <1>3, <1>8 DEF OpenFile, Exists
<1>9. ASSUME NEW m \in Messages, LogMessage(m)
      PROVE  PcInv'
  <2>1. CASE StartRotation(m)
    BY <1>1, <2>1
  <2>2. CASE ~StartRotation(m)
    BY <1>9, <2>2, MessagesAssumption DEF LogMessage, Exists
  <2> QED BY <2>1, <2>2
<1>10. CASE Write \/ WriteFails \/ FlushFails
  BY <1>10 DEF Write, WriteFails, FlushFails, Throw, Exists
<1>11. CASE WriteNull \/ Crash
  BY <1>11 DEF WriteNull, Crash, EndProcess
<1>12. CASE Spill \/ Flush
  BY <1>4, <1>12 DEF Spill, Flush, Exists
<1>13. CASE Destroy \/ ConstructFails
  BY <1>13 DEF Destroy, ConstructFails, Exists
<1>14. CASE UNCHANGED vars
  BY <1>14 DEF vars, Exists
<1> QED
  BY <1>5, <1>6, <1>7, <1>8, <1>9, <1>10, <1>11, <1>12, <1>13, <1>14 DEF Next

\* No rotation is under way at first.
LEMMA GapInit == Init => GapInv
BY DEF Init, GapInv

\* Every step of a rotation makes room for the next one.
LEMMA GapNext ==
    ASSUME TypeOK, PcInv, GapInv, [Next]_vars
    PROVE  GapInv'
<1> USE DEF GapInv
<1>1. ASSUME NEW m, StartRotation(m)
      PROVE  GapInv'
  BY <1>1, RotateInfoAssumption DEF StartRotation, FirstIndex
<1>2. ASSUME NEW mode, Construct(mode)
      PROVE  GapInv'
  BY <1>1, <1>2 DEF Construct
<1>3. CASE Rename
  <2>1. /\ index \in Names /\ index - 1 \in Names /\ index \in Nat /\ index > 0
        /\ FileCount \in Nat
    BY <1>3, RotateInfoAssumption DEF Rename, PcInv, TypeOK, Names
  <2>2. disk'[index - 1] = NoFile
    BY <1>3, <2>1 DEF Rename, TypeOK, Exists
  <2>3. index = 1 => disk'[0] = NoFile
    BY <2>2
  <2> QED BY <1>3, <2>1, <2>2, <2>3 DEF Rename, Exists
<1>4. CASE RenameFails \/ OpenFails \/ WriteRefused \/ WriteFails
  BY <1>4 DEF RenameFails, OpenFails, WriteRefused, WriteFails, Throw
<1>5. CASE OpenFile
  BY <1>5 DEF OpenFile
<1>6. ASSUME NEW m \in Messages, LogMessage(m)
      PROVE  GapInv'
  BY <1>1, <1>6 DEF LogMessage
<1>7. CASE Write \/ Flush \/ FlushFails \/ Destroy \/ ConstructFails
  BY <1>7 DEF Write, Flush, FlushFails, Destroy, ConstructFails
<1>8. CASE WriteNull \/ Crash
  BY <1>8 DEF WriteNull, Crash, EndProcess
<1>9. CASE Spill
  BY <1>9 DEF Spill, PcInv
<1>10. CASE UNCHANGED vars
  BY <1>10 DEF vars, Exists
<1> QED
  BY <1>2, <1>3, <1>4, <1>5, <1>6, <1>7, <1>8, <1>9, <1>10 DEF Next

-----------------------------------------------------------------------------
(* The oldest archive is the only one that a rotation drops.               *)

\* A content keeps its messages when others are written behind them.
LEMMA JoinKeeps ==
    ASSUME NEW f \in Contents, NEW g \in Contents
    PROVE  ToSet(f.text) \subseteq ToSet(Join(f, g).text)
<1>1. f.text \in Seq(Messages) /\ g.text \in Seq(Messages)
  BY ContentParts
<1>2. PICK p, q : p = f.text /\ q = g.text
  OBVIOUS
<1>3. ToSet(p \o q) = ToSet(p) \cup ToSet(q)
  BY <1>1, <1>2, ToSetConcat
<1> QED BY <1>2, <1>3 DEF Join

\* A step that shortens no file drops nothing.
LEMMA NothingDropped ==
    ASSUME \A name \in Names : Exists(name) =>
               Exists(name)' /\ ToSet(disk[name].text) \subseteq ToSet(disk'[name].text)
    PROVE  OnDisk \subseteq OnDisk'
<1>1. ASSUME NEW name \in Names
      PROVE  ToSet(Text(name)) \subseteq ToSet(Text(name))'
  <2>1. CASE Exists(name)
    BY <2>1 DEF Text, Exists
  <2>2. CASE ~Exists(name)
    <3>1. ToSet(Text(name)) = {}
      BY <2>2 DEF Text, ToSet
    <3> QED BY <3>1
  <2> QED BY <2>1, <2>2
<1> QED BY <1>1 DEF OnDisk

\* A step keeps every message on the disk, or drops it from the last archive.
LEMMA DropStep ==
    ASSUME TypeOK, PcInv, GapInv, [Next]_vars
    PROVE  \A m \in OnDisk : m \in OnDisk' \/ m \in ToSet(Text(FileCount - 1))
<1> DEFINE Oldest == ToSet(Text(FileCount - 1))
<1>1. CASE Rename /\ Exists(index - 1)
  <2>1. /\ index \in Names /\ index - 1 \in Names /\ index - 1 # index
        /\ index < FileCount - 1 \/ index = FileCount - 1
    BY <1>1, RotateInfoAssumption DEF Rename, PcInv, TypeOK, Names
  <2>2. /\ disk'[index] = disk[index - 1]
        /\ \A name \in Names : name # index /\ name # index - 1 =>
               disk'[name] = disk[name]
    BY <1>1, <2>1 DEF Rename, TypeOK
  <2>3. ASSUME NEW name \in Names, NEW m \in ToSet(Text(name))
        PROVE  m \in OnDisk' \/ m \in Oldest
    <3>1. CASE name = index - 1
      <4>1. PICK k \in Names : k = index
        BY <2>1
      <4>2. disk'[k] = disk[name]
        BY <2>2, <3>1, <4>1
      <4>3. m \in ToSet(Text(k))'
        BY <2>3, <4>2 DEF Text, Exists
      <4> QED BY <4>3 DEF OnDisk
    <3>2. CASE name = index /\ index < FileCount - 1
      <4>1. ~Exists(name)
        BY <1>1, <3>2 DEF Rename, GapInv
      <4>2. ToSet(Text(name)) = {}
        BY <4>1 DEF Text, ToSet
      <4> QED BY <2>3, <4>2
    <3>3. CASE name = index /\ index = FileCount - 1
      BY <2>3, <3>3
    <3>4. CASE name # index /\ name # index - 1
      <4>1. m \in ToSet(Text(name))'
        BY <2>2, <2>3, <3>4 DEF Text, Exists
      <4> QED BY <4>1 DEF OnDisk
    <3> QED BY <2>1, <3>1, <3>2, <3>3, <3>4
  <2> QED BY <2>3 DEF OnDisk
<1>2. CASE disk' = disk
  BY <1>2, NothingDropped DEF Exists
<1>3. CASE disk' \in AfterClose
  <2>1. ASSUME NEW name \in Names, Exists(name)
        PROVE  Exists(name)' /\ ToSet(disk[name].text) \subseteq ToSet(disk'[name].text)
    <3>1. /\ disk'[name] # NoFile
          /\ \/ disk'[name] = disk[name]
             \/ disk'[name] = Join(disk[name], buffer)
      BY <1>3, <2>1, ClosedDisk DEF PcInv
    <3>2. disk[name] \in Contents /\ buffer \in Contents
      BY <2>1 DEF TypeOK, Exists
    <3> QED BY <3>1, <3>2, JoinKeeps DEF Exists
  <2> QED BY <2>1, NothingDropped
<1>4. CASE disk' = [disk EXCEPT ![0] = Opened]
  <2>1. ASSUME NEW name \in Names, Exists(name)
        PROVE  disk'[name] = disk[name]
    BY <1>4, <2>1 DEF Opened, TypeOK
  <2> QED BY <2>1, NothingDropped DEF Exists
<1>5. CASE disk' = Synced /\ Exists(0)
  <2>1. ASSUME NEW name \in Names, Exists(name)
        PROVE  Exists(name)' /\ ToSet(disk[name].text) \subseteq ToSet(disk'[name].text)
    <3>1. disk'[name] = disk[name] \/ disk'[name] = Join(disk[name], buffer)
      BY <1>5, SyncedDisk
    <3>2. disk[name] \in Contents /\ buffer \in Contents
      BY <2>1 DEF TypeOK, Exists
    <3>3. disk'[name] # NoFile
      BY <3>1, <3>2, JoinContent, NoFileAssumption
    <3> QED BY <3>1, <3>2, <3>3, JoinKeeps DEF Exists
  <2> QED BY <2>1, NothingDropped
<1>6. \/ Rename /\ Exists(index - 1)
      \/ disk' = disk
      \/ disk' \in AfterClose
      \/ disk' = [disk EXCEPT ![0] = Opened]
      \/ disk' = Synced /\ Exists(0)
  BY DEF Next, vars, Construct, Rename, RenameFails, OpenFile, OpenFails,
         LogMessage, Write, WriteFails, WriteRefused, WriteNull, Spill, Flush,
         FlushFails, Destroy, ConstructFails, Crash, EndProcess, StartRotation, PcInv
<1> QED BY <1>1, <1>2, <1>3, <1>4, <1>5, <1>6

-----------------------------------------------------------------------------
(* The size of the files.                                                  *)

\* Nothing but messages takes room at first.
LEMMA SaneInit == Init => SaneInv
<1> SUFFICES ASSUME Init PROVE SaneInv
  OBVIOUS
<1>1. PICK first \in {NoFile} \cup {Plus(Empty, m) : m \in Earlier} :
        disk = [name \in Names |-> IF name = 0 THEN first ELSE NoFile]
  BY DEF Init
<1>2. first # NoFile => Sane(first)
  BY PlusContent, EmptyContent, MessagesAssumption
<1>3. Sane(buffer)
  BY EmptyContent DEF Init
<1> QED BY <1>1, <1>2, <1>3 DEF SaneInv, Exists

\* Every step keeps contents without messages empty.
LEMMA SaneNext ==
    ASSUME TypeOK, PcInv, SaneInv, [Next]_vars
    PROVE  SaneInv'
<1>1. Sane(Empty) /\ Sane(buffer)
  BY EmptyContent DEF SaneInv
<1>2. Exists(0) => Sane(Join(disk[0], buffer))
  <2>1. Exists(0) => disk[0] \in Contents /\ buffer \in Contents /\ Sane(disk[0])
    BY NamesFacts DEF TypeOK, Exists, SaneInv
  <2> QED BY <1>1, <2>1, JoinContent
<1>3. Sane(buffer')
  <2>1. \/ buffer' = buffer
        \/ buffer' = Empty
        \/ buffer' = Plus(buffer, message) /\ message \in Messages
    BY DEF Next, vars, Construct, Rename, RenameFails, OpenFile, OpenFails,
           LogMessage, Write, WriteFails, WriteRefused, WriteNull, Spill, Flush,
           FlushFails, Destroy, ConstructFails, Crash, EndProcess, StartRotation, PcInv, TypeOK
  <2>2. buffer \in Contents
    BY DEF TypeOK
  <2> QED BY <1>1, <2>1, <2>2, PlusContent
<1>4. CASE Rename
  <2>1. index \in Names /\ index - 1 \in Names
    BY <1>4, RotateInfoAssumption DEF Rename, PcInv, TypeOK, Names
  <2> QED BY <1>3, <1>4, <2>1 DEF Rename, TypeOK, SaneInv, Exists
<1>5. CASE disk' = disk
  BY <1>3, <1>5 DEF SaneInv, Exists
<1>6. CASE disk' \in AfterClose
  <2>1. \A name \in Names : disk'[name] = disk[name] \/
            (name = 0 /\ Exists(0) /\ disk'[name] = Join(disk[0], buffer))
    BY <1>6, ClosedDisk, NamesFacts DEF PcInv
  <2> QED BY <1>2, <1>3, <2>1 DEF SaneInv, Exists
<1>7. CASE disk' = [disk EXCEPT ![0] = Opened]
  <2>1. Sane(Opened)
    BY <1>1, NamesFacts DEF Opened, SaneInv
  <2> QED BY <1>3, <1>7, <2>1 DEF SaneInv, Exists, TypeOK
<1>8. CASE disk' = Synced /\ Exists(0)
  BY <1>2, <1>3, <1>8, SyncedDisk DEF SaneInv, Exists
<1>9. \/ Rename
      \/ disk' = disk
      \/ disk' \in AfterClose
      \/ disk' = [disk EXCEPT ![0] = Opened]
      \/ disk' = Synced /\ Exists(0)
  BY DEF Next, vars, Construct, RenameFails, OpenFile, OpenFails,
         LogMessage, Write, WriteFails, WriteRefused, WriteNull, Spill, Flush,
         FlushFails, Destroy, ConstructFails, Crash, EndProcess, StartRotation, PcInv
<1> QED BY <1>4, <1>5, <1>6, <1>7, <1>8, <1>9

\* The file of an earlier run holds a single message.
LEMMA BoundInit == Init => BoundInv
<1> SUFFICES ASSUME Init, NEW name \in Names, Exists(name)
             PROVE  Bounded(disk[name])
  BY DEF BoundInv, Init
<1>1. PICK first \in {NoFile} \cup {Plus(Empty, m) : m \in Earlier} :
        disk = [n \in Names |-> IF n = 0 THEN first ELSE NoFile]
  BY DEF Init
<1>2. PICK m \in Messages : disk[name] = Plus(Empty, m)
  BY <1>1, MessagesAssumption DEF Exists
<1>3. Count(Plus(Empty, m)) = Count(Empty) + 1 /\ Count(Empty) = 0
  BY EmptyContent, PlusContent, ContentParts DEF Empty
<1> QED BY <1>2, <1>3 DEF Bounded

\* Every step keeps the files bounded and current_size exact.
LEMMA BoundNext ==
    ASSUME TypeOK, PcInv, GapInv, SaneInv, BoundInv, [Next]_vars
    PROVE  BoundInv'
<1> SUFFICES ASSUME FileCount > 1, "size" \notin Failing
             PROVE  /\ \A name \in Names : Exists(name)' => Bounded(disk'[name])
                    /\ file' # "null" => Bounded(Join(disk'[0], buffer'))
                    /\ file' = "open" => current_size' >= disk'[0].units + buffer'.units
                    /\ pc' = "write" /\ file' = "open" =>
                        \/ disk'[0].units + buffer'.units + SizeOf[message'] < FileSize
                        \/ disk'[0].text = <<>> /\ buffer'.text = <<>>
  BY DEF BoundInv, Bounded, Join, Count
<1> DEFINE Fits == /\ \A name \in Names : Exists(name)' => Bounded(disk'[name])
                   /\ file' # "null" => Bounded(Join(disk'[0], buffer'))
                   /\ file' = "open" => current_size' >= disk'[0].units + buffer'.units
                   /\ pc' = "write" /\ file' = "open" =>
                       \/ disk'[0].units + buffer'.units + SizeOf[message'] < FileSize
                       \/ disk'[0].text = <<>> /\ buffer'.text = <<>>
<1>1. /\ \A name \in Names : Exists(name) => Bounded(disk[name])
      /\ file # "null" => Bounded(Join(disk[0], buffer))
      /\ file = "open" => current_size >= disk[0].units + buffer.units
      /\ pc = "write" /\ file = "open" =>
          \/ disk[0].units + buffer.units + SizeOf[message] < FileSize
          \/ disk[0].text = <<>> /\ buffer.text = <<>>
  BY DEF BoundInv
<1>2. /\ 0 \in Names /\ buffer \in Contents /\ Sane(buffer)
      /\ disk \in [Names -> Contents \cup {NoFile}]
      /\ Exists(0) => disk[0] \in Contents /\ Sane(disk[0])
      /\ FileSize \in Nat /\ current_size \in Nat
  BY NamesFacts, RotateInfoAssumption DEF TypeOK, SaneInv, Exists
<1>3. ASSUME disk' \in AfterClose
      PROVE  \A name \in Names : Exists(name)' => Bounded(disk'[name])
  <2>1. \A name \in Names : /\ disk'[name] # NoFile <=> Exists(name)
                            /\ \/ disk'[name] = disk[name]
                               \/ /\ name = 0 /\ file # "null"
                                  /\ disk'[name] = Join(disk[0], buffer)
    BY <1>3, ClosedDisk DEF PcInv
  <2> QED BY <1>1, <2>1 DEF Exists
<1>4. ASSUME NEW m, StartRotation(m)
      PROVE  Fits
  BY <1>3, <1>4 DEF StartRotation
<1>5. CASE UNCHANGED <<disk, file, buffer, current_size>> /\ pc' # "write"
  BY <1>1, <1>5 DEF Exists
<1>6. CASE file' = "null" /\ disk' \in AfterClose
  BY <1>3, <1>6
<1>7. CASE file' = "null" /\ disk' = disk
  BY <1>1, <1>7 DEF Exists
<1>8. CASE Rename
  <2>1. index \in Names /\ index - 1 \in Names
    BY <1>8, RotateInfoAssumption DEF Rename, PcInv, TypeOK, Names
  <2>2. ASSUME NEW name \in Names, Exists(name)'
        PROVE  Bounded(disk'[name])
    BY <1>1, <1>2, <1>8, <2>1, <2>2 DEF Rename, Exists
  <2>3. file' = "null"
    BY <1>8 DEF Rename, PcInv
  <2> QED BY <2>2, <2>3
<1>9. ASSUME disk' = [disk EXCEPT ![0] = Opened], Bounded(Opened), Sane(Opened),
             buffer' = Empty,
             file' = "open", current_size' \in SizeOnOpen,
             pc' = "write" => Opened = Empty
      PROVE  Fits
  <2>1. Opened \in Contents /\ current_size' = Opened.bytes
    BY <1>9, OpenedContent
  <2>2. disk'[0] = Opened /\ \A name \in Names : name # 0 => disk'[name] = disk[name]
    BY <1>2, <1>9
  <2>3. Join(disk'[0], buffer') = Opened
    BY <1>9, <2>1, <2>2, JoinEmpty
  <2>4. current_size' >= disk'[0].units + buffer'.units
    <3>1. disk'[0].units + buffer'.units = Opened.units
      BY <1>9, <2>1, <2>2, ContentParts DEF Empty
    <3>2. Opened.units <= Opened.bytes
      BY <1>9 DEF Sane
    <3> QED BY <2>1, <3>1, <3>2
  <2>5. pc' = "write" => disk'[0].text = <<>> /\ buffer'.text = <<>>
    BY <1>9, <2>2 DEF Empty
  <2> QED BY <1>1, <1>9, <2>1, <2>2, <2>3, <2>4, <2>5 DEF Exists
<1>10. ASSUME NEW mode, Construct(mode)
       PROVE  Fits
  <2>1. PICK size \in SizeOnOpen :
          /\ current_size' = size
          /\ IF Exists(0) /\ (mode = "create_new_file" \/ ShouldRotate(size, 0))
             THEN StartRotation(NoMessage)
             ELSE /\ disk' = [disk EXCEPT ![0] = Opened]
                  /\ file' = "open"
                  /\ pc' = "ready"
                  /\ UNCHANGED <<message, index, buffer>>
    BY <1>10 DEF Construct
  <2>2. CASE StartRotation(NoMessage)
    BY <1>4, <2>2
  <2>3. CASE ~StartRotation(NoMessage)
    <3>1. Bounded(Opened) /\ Sane(Opened)
      BY <1>1, <1>2, NamesFacts, EmptyContent DEF Opened
    <3>2. buffer' = Empty
      BY <1>10, <2>1, <2>3 DEF Construct, PcInv
    <3> QED BY <1>9, <2>1, <2>3, <3>1, <3>2
  <2> QED BY <2>2, <2>3
<1>11. CASE OpenFile
  <2>1. Opened = Empty
    BY <1>11 DEF OpenFile, GapInv, Opened
  <2> QED BY <1>9, <1>11, <2>1, EmptyContent DEF OpenFile, PcInv
<1>12. ASSUME NEW m \in Messages, LogMessage(m)
       PROVE  Fits
  <2>1. CASE StartRotation(m)
    BY <1>4, <2>1
  <2>2. CASE ~StartRotation(m)
    <3>1. /\ ~ShouldRotate(current_size, SizeOf[m])
          /\ UNCHANGED <<disk, file, buffer, current_size>> /\ message' = m
      BY <1>12, <2>2 DEF LogMessage
    <3>2. SizeOf[m] \in Nat
      BY MessagesAssumption
    <3>3. current_size + SizeOf[m] < FileSize
      BY <1>2, <3>1, <3>2 DEF ShouldRotate
    <3>4. ASSUME file = "open"
          PROVE  disk[0].units + buffer.units + SizeOf[m] < FileSize
      <4>1. /\ disk[0].units \in Nat /\ buffer.units \in Nat
            /\ current_size >= disk[0].units + buffer.units
        BY <1>1, <1>2, <3>4, ContentParts DEF PcInv
      <4> QED BY <1>2, <3>2, <3>3, <4>1
    <3> QED BY <1>1, <3>1, <3>4 DEF Exists
  <2> QED BY <2>1, <2>2
<1>13. CASE Write \/ WriteFails
  <2>1. /\ pc = "write" /\ file = "open" /\ message \in Messages
        /\ disk' = disk /\ disk[0] \in Contents /\ pc' # "write"
    BY <1>2, <1>13 DEF Write, WriteFails, PcInv, TypeOK, Throw
  <2>2. Bounded(Join(disk[0], Plus(buffer, message)))
    BY <1>1, <1>2, <2>1, PlusBounded
  <2>3. Bounded(Join(disk'[0], buffer'))
    BY <1>1, <1>13, <2>1, <2>2 DEF Write, WriteFails
  <2>4. file' = "open" => current_size' >= disk'[0].units + buffer'.units
    <3>1. CASE Write
      <4>1. buffer'.units = buffer.units + SizeOf[message]
        BY <1>2, <2>1, <3>1, PlusContent DEF Write
      <4>2. /\ buffer.units \in Nat /\ disk[0].units \in Nat
            /\ SizeOf[message] \in Nat
        BY <1>2, <2>1, ContentParts, MessagesAssumption
      <4>3. /\ current_size >= disk[0].units + buffer.units
            /\ current_size' = current_size + SizeOf[message]
        BY <1>1, <2>1, <3>1 DEF Write
      <4>4. current_size' >= disk[0].units + (buffer.units + SizeOf[message])
        BY <1>2, <4>2, <4>3
      <4> QED BY <2>1, <4>1, <4>4
    <3>2. CASE WriteFails
      BY <3>2 DEF WriteFails
    <3> QED BY <1>13, <3>1, <3>2
  <2> QED BY <1>1, <2>1, <2>3, <2>4 DEF Exists
<1>14. CASE Spill \/ Flush
  <2>1. /\ file = "open" /\ file' = "open" /\ disk' = Synced /\ buffer' = Empty
        /\ current_size' = current_size /\ message' = message
        /\ pc' = "write" => pc = "write"
        /\ disk[0] \in Contents /\ Exists(0)
    BY <1>2, <1>14 DEF Spill, Flush, PcInv
  <2>2. disk'[0] = Join(disk[0], buffer) /\ disk'[0] \in Contents
        /\ \A name \in Names : name # 0 => disk'[name] = disk[name]
    BY <2>1, SyncedDisk
  <2>3. Join(disk'[0], buffer') = disk'[0]
    BY <2>1, <2>2, JoinEmpty
  <2>4. disk'[0].units + buffer'.units = disk[0].units + buffer.units
    <3>1. disk'[0].units = disk[0].units + buffer.units
      BY <1>2, <2>1, <2>2, JoinContent
    <3>2. buffer'.units = 0 /\ disk'[0].units \in Nat
      BY <2>1, <2>2, ContentParts DEF Empty
    <3> QED BY <3>1, <3>2
  <2>5. disk[0].text = <<>> /\ buffer.text = <<>> =>
            disk'[0].text = <<>> /\ buffer'.text = <<>>
    <3>1. <<>> \o <<>> = <<>>
      OBVIOUS
    <3> QED BY <2>1, <2>2, <3>1 DEF Join, Empty
  <2>6. \A name \in Names : Exists(name)' => Bounded(disk'[name])
    BY <1>1, <2>1, <2>2 DEF Exists
  <2>7. file' # "null" => Bounded(Join(disk'[0], buffer'))
    BY <1>1, <2>1, <2>2, <2>3
  <2>8. current_size' >= disk'[0].units + buffer'.units
    BY <1>1, <2>1, <2>4
  <2>9. pc' = "write" =>
          \/ disk'[0].units + buffer'.units + SizeOf[message'] < FileSize
          \/ disk'[0].text = <<>> /\ buffer'.text = <<>>
    BY <1>1, <2>1, <2>4, <2>5
  <2> QED BY <2>6, <2>7, <2>8, <2>9
<1>15. CASE FlushFails
  BY <1>1, <1>15 DEF FlushFails, PcInv, Exists
<1>16. CASE RenameFails \/ OpenFails \/ WriteRefused \/ ConstructFails
  BY <1>5, <1>16 DEF RenameFails, OpenFails, WriteRefused, ConstructFails, Throw
<1>17. CASE Destroy
  BY <1>6, <1>17 DEF Destroy
<1>18. CASE WriteNull \/ Crash
  BY <1>7, <1>18 DEF WriteNull, Crash, EndProcess
<1>19. CASE UNCHANGED vars
  BY <1>1, <1>19 DEF vars, Exists
<1> QED
  BY <1>8, <1>10, <1>11, <1>12, <1>13, <1>14, <1>15, <1>16, <1>17, <1>18, <1>19
     DEF Next

-----------------------------------------------------------------------------
(* The log: the files from the oldest archive to the current one.          *)

\* The texts of a disk, and the log they make.
LEMMA LogTypes ==
    ASSUME NEW d \in Disks
    PROVE  /\ TextsOf(d) \in Seq(Seq(Messages)) /\ TextsOf(d) # <<>>
           /\ Len(TextsOf(d)) = FileCount
           /\ \A name \in Names : TextIn(d, name) \in Seq(Messages)
           /\ LogOf(d) \in Seq(Messages)
<1>1. \A name \in Names : TextIn(d, name) \in Seq(Messages)
  <2>1. SUFFICES ASSUME NEW name \in Names
                 PROVE  TextIn(d, name) \in Seq(Messages)
    OBVIOUS
  <2>2. CASE d[name] = NoFile
    BY <2>2, EmptySeq DEF TextIn
  <2>3. CASE d[name] # NoFile
    <3>1. d[name] \in Contents
      BY <2>3 DEF Disks
    <3>2. QED
      BY <2>3, <3>1, ContentParts DEF TextIn
  <2>4. QED
    BY <2>2, <2>3
<1>2. FileCount \in Nat \ {0} /\ \A k \in 1 .. FileCount : FileCount - k \in Names
  BY RotateInfoAssumption DEF Names
<1>3. \A k \in 1 .. FileCount : TextIn(d, FileCount - k) \in Seq(Messages)
  BY <1>1, <1>2
<1>4. TextsOf(d) \in Seq(Seq(Messages)) /\ Len(TextsOf(d)) = FileCount
  BY <1>2, <1>3 DEF TextsOf
<1>5. TextsOf(d) # <<>>
  BY <1>2, <1>4, EmptySeq
<1>6. LogOf(d) \in Seq(Messages)
  BY <1>4, <1>5, FlattenType DEF LogOf
<1>7. QED
  BY <1>1, <1>4, <1>5, <1>6

\* The log has the messages of the files.
LEMMA LogElements ==
    ASSUME NEW d \in Disks
    PROVE  ToSet(LogOf(d)) = UNION {ToSet(TextIn(d, name)) : name \in Names}
<1>1. PICK q : q = TextsOf(d)
  OBVIOUS
<1>2. q \in Seq(Seq(Messages)) /\ q # <<>> /\ Len(q) = FileCount
  BY <1>1, LogTypes
<1>3. ToSet(FlattenSeq(q)) = UNION {ToSet(q[k]) : k \in 1 .. FileCount}
  BY <1>2, FlattenElements
<1>4. /\ \A k \in 1 .. FileCount : q[k] = TextIn(d, FileCount - k) /\ FileCount - k \in Names
      /\ \A name \in Names : FileCount - name \in 1 .. FileCount
                             /\ q[FileCount - name] = TextIn(d, name)
  <2>1. FileCount \in Nat
    BY RotateInfoAssumption
  <2>2. \A k \in 1 .. FileCount : q[k] = TextIn(d, FileCount - k) /\ FileCount - k \in Names
    BY <1>1, <2>1 DEF TextsOf, Names
  <2>3. \A name \in Names : FileCount - name \in 1 .. FileCount
                            /\ FileCount - (FileCount - name) = name
    BY <2>1 DEF Names
  <2>4. QED
    BY <2>2, <2>3
<1>5. UNION {ToSet(q[k]) : k \in 1 .. FileCount} = UNION {ToSet(TextIn(d, name)) : name \in Names}
  BY <1>4
<1>6. QED
  BY <1>1, <1>3, <1>5 DEF LogOf

\* Files with the same texts make the same log.
LEMMA LogSame ==
    ASSUME NEW d, NEW e, \A name \in Names : TextIn(e, name) = TextIn(d, name)
    PROVE  LogOf(e) = LogOf(d)
<1>1. \A k \in 1 .. FileCount : FileCount - k \in Names
  BY RotateInfoAssumption DEF Names
<1>2. TextsOf(e) = TextsOf(d)
  BY <1>1 DEF TextsOf
<1>3. QED
  BY <1>2 DEF LogOf

\* What the file grows by, the log grows by.
LEMMA LogGrows ==
    ASSUME NEW d \in Disks, NEW e \in Disks, NEW b \in Seq(Messages),
           TextIn(e, 0) = TextIn(d, 0) \o b,
           \A name \in Names : name # 0 => TextIn(e, name) = TextIn(d, name)
    PROVE  LogOf(e) = LogOf(d) \o b
<1>1. PICK N : N = FileCount
  OBVIOUS
<1>2. PICK q, r : q = TextsOf(d) /\ r = TextsOf(e)
  OBVIOUS
<1>3. N \in Nat \ {0}
  BY <1>1, RotateInfoAssumption
<1>4. q \in Seq(Seq(Messages)) /\ Len(q) = N
  BY <1>1, <1>2, LogTypes
<1>5. r \in Seq(Seq(Messages)) /\ Len(r) = N
  BY <1>1, <1>2, LogTypes
<1>6. \A k \in 1 .. N : /\ q[k] = TextIn(d, N - k) /\ r[k] = TextIn(e, N - k)
                        /\ N - k \in Names /\ (N - k = 0 <=> k = N)
  BY <1>1, <1>2, <1>3 DEF TextsOf, Names
<1>7. r[N] = q[N] \o b
  <2>1. N \in 1 .. N /\ N - N = 0
    BY <1>3
  <2>2. q[N] = TextIn(d, N - N) /\ r[N] = TextIn(e, N - N)
    BY <1>6, <2>1
  <2>3. QED
    BY <2>1, <2>2
<1>8. \A k \in 1 .. N : k # N => r[k] = q[k]
  BY <1>6
<1>9. FlattenSeq(r) = FlattenSeq(q) \o b
  BY <1>3, <1>4, <1>5, <1>7, <1>8, FlattenGrows
<1>10. QED
  BY <1>2, <1>9 DEF LogOf

\* A file gets the next number: the log loses what that number held before.
LEMMA LogMoves ==
    ASSUME NEW d \in Disks, NEW e \in Disks, NEW i \in 1 .. FileCount - 1,
           TextIn(e, i) = TextIn(d, i - 1), TextIn(e, i - 1) = <<>>,
           \A name \in Names : name # i /\ name # i - 1 => TextIn(e, name) = TextIn(d, name),
           i = FileCount - 1 \/ TextIn(d, i) = <<>>
    PROVE  LogOf(d) = TextIn(d, i) \o LogOf(e)
<1>1. PICK N : N = FileCount
  OBVIOUS
<1>2. PICK q, r, p, k : q = TextsOf(d) /\ r = TextsOf(e) /\ p = TextIn(d, i) /\ k = N - i
  OBVIOUS
<1>3. /\ N \in Nat \ {0} /\ i \in 1 .. N - 1 /\ k \in 1 .. N - 1 /\ k \in 1 .. N /\ k + 1 \in 1 .. N
      /\ N - k = i /\ N - (k + 1) = i - 1 /\ i \in Names /\ (i = N - 1 => k = 1)
  BY <1>1, <1>2, RotateInfoAssumption DEF Names
<1>4. q \in Seq(Seq(Messages)) /\ Len(q) = N
  BY <1>1, <1>2, LogTypes
<1>5. r \in Seq(Seq(Messages)) /\ Len(r) = N
  BY <1>1, <1>2, LogTypes
<1>6. \A j \in 1 .. N : q[j] = TextIn(d, N - j) /\ r[j] = TextIn(e, N - j)
  BY <1>1, <1>2 DEF TextsOf
<1>7. r[k] = q[k + 1] /\ r[k + 1] = <<>> /\ p = q[k]
  BY <1>2, <1>3, <1>6
<1>8. ASSUME NEW j \in 1 .. N, j # k, j # k + 1
      PROVE  r[j] = q[j]
  <2>1. N - j \in Names /\ N - j # i /\ N - j # i - 1
    BY <1>1, <1>3, <1>8 DEF Names
  <2>2. QED
    BY <1>6, <2>1
<1>9. p \in Seq(Messages)
  BY <1>2, <1>3, LogTypes
<1>10. k = 1 \/ p = <<>>
  BY <1>1, <1>2, <1>3
<1>11. Moved(q, r, k, p)
  BY <1>4, <1>7, <1>8 DEF Moved
<1>12. FlattenSeq(q) = p \o FlattenSeq(r)
  BY <1>3, <1>4, <1>5, <1>9, <1>10, <1>11, FlattenMove
<1>13. QED
  BY <1>2, <1>12 DEF LogOf

-----------------------------------------------------------------------------
(* The log and the buffer of the file are a LogWindow.                      *)

\* What a log may be after a step: the windows of LogWindow.
KeptSame == Kept' = Kept /\ UNCHANGED <<accepted, durable>>

KeptGrows ==
    /\ message \in Messages /\ message' = NoMessage
    /\ Kept' = Append(Kept, message)
    /\ accepted' \in {accepted, accepted \cup {message}}
    /\ UNCHANGED durable

KeptFlushed == Kept' = Kept /\ durable' = durable \cup ToSet(Kept) /\ UNCHANGED accepted

KeptLosesOldest ==
    /\ \E p \in Seq(Messages) : Kept = p \o Kept'
    /\ Kept' \in Seq(Messages)
    /\ UNCHANGED <<accepted, durable>>

KeptLosesBuffer == Kept' = LogOf(disk) /\ UNCHANGED <<accepted, durable>>

KeptStep == KeptSame \/ KeptGrows \/ KeptFlushed \/ KeptLosesOldest \/ KeptLosesBuffer

\* Types of the log and of its buffer, before and after a step.
LEMMA KeptTypes ==
    ASSUME TypeOK
    PROVE  /\ disk \in Disks /\ buffer \in Contents /\ buffer.text \in Seq(Messages)
           /\ LogOf(disk) \in Seq(Messages)
           /\ Kept \in Seq(Messages)
           /\ ToSet(Kept) = ToSet(LogOf(disk)) \cup ToSet(buffer.text)
           /\ Exists(0) => disk[0] \in Contents
<1>1. disk \in Disks /\ buffer \in Contents /\ (Exists(0) => disk[0] \in Contents)
  BY NamesFacts DEF TypeOK, Disks, Exists
<1>2. buffer.text \in Seq(Messages)
  BY <1>1, ContentParts
<1>3. LogOf(disk) \in Seq(Messages)
  BY <1>1, LogTypes
<1>4. PICK p, q : p = LogOf(disk) /\ q = buffer.text
  OBVIOUS
<1>5. p \in Seq(Messages) /\ q \in Seq(Messages)
  BY <1>2, <1>3, <1>4
<1>6. p \o q \in Seq(Messages) /\ ToSet(p \o q) = ToSet(p) \cup ToSet(q)
  BY <1>5, ToSetConcat
<1>7. QED
  BY <1>1, <1>2, <1>3, <1>4, <1>6 DEF Kept

\* With the buffer in the file, the log ends with the buffer.
LEMMA SyncedLog ==
    ASSUME TypeOK, Exists(0)
    PROVE  Synced \in Disks /\ LogOf(Synced) = Kept
<1>1. PICK e, b : e = Synced /\ b = buffer.text
  OBVIOUS
<1>2. /\ e \in Disks /\ e[0] = Join(disk[0], buffer) /\ e[0] \in Contents
      /\ \A name \in Names : name # 0 => e[name] = disk[name]
  BY <1>1, SyncedDisk DEF Disks
<1>3. disk \in Disks /\ b \in Seq(Messages)
  BY <1>1, KeptTypes
<1>4. TextIn(e, 0) = TextIn(disk, 0) \o b
  <2>1. TextIn(e, 0) = e[0].text /\ TextIn(disk, 0) = disk[0].text
    BY <1>2, NoFileAssumption DEF TextIn, Exists
  <2>2. e[0].text = disk[0].text \o b
    <3>1. PICK f : f = Join(disk[0], buffer)
      OBVIOUS
    <3>2. f.text = disk[0].text \o buffer.text
      BY <3>1 DEF Join
    <3>3. QED
      BY <1>1, <1>2, <3>1, <3>2
  <2>3. QED
    BY <2>1, <2>2
<1>5. \A name \in Names : name # 0 => TextIn(e, name) = TextIn(disk, name)
  BY <1>2 DEF TextIn
<1>6. LogOf(e) = LogOf(disk) \o b
  BY <1>2, <1>3, <1>4, <1>5, LogGrows
<1>7. QED
  BY <1>1, <1>2, <1>6 DEF Kept

\* With an empty buffer the log is what the files make.
LEMMA KeptEmptyBuffer ==
    ASSUME NEW d \in Disks
    PROVE  LogOf(d) \o Empty.text = LogOf(d)
<1>1. PICK p : p = LogOf(d)
  OBVIOUS
<1>2. p \in Seq(Messages)
  BY <1>1, LogTypes
<1>3. p \o <<>> = p
  BY <1>2, ConcatEmptySeq
<1>4. QED
  BY <1>1, <1>3 DEF Empty

\* Closing the file keeps the log, or loses what was in the buffer only.
LEMMA KeptOnClose ==
    ASSUME TypeOK, PcInv, disk' \in AfterClose, buffer' = Empty,
           UNCHANGED <<accepted, durable>>
    PROVE  KeptStep
<1>1. disk \in Disks
  BY KeptTypes
<1>2. CASE disk' = disk
  <2>1. Kept' = LogOf(disk)
    BY <1>1, <1>2, KeptEmptyBuffer DEF Kept
  <2>2. QED
    BY <2>1 DEF KeptStep, KeptLosesBuffer
<1>3. CASE disk' = Synced /\ Exists(0)
  <2>1. PICK e : e = Synced
    OBVIOUS
  <2>2. e \in Disks /\ LogOf(e) = Kept
    BY <1>3, <2>1, SyncedLog
  <2>3. LogOf(e) \o Empty.text = LogOf(e)
    BY <2>2, KeptEmptyBuffer
  <2>4. Kept' = Kept
    BY <1>3, <2>1, <2>2, <2>3 DEF Kept
  <2>5. QED
    BY <2>4 DEF KeptStep, KeptSame
<1>4. disk' = disk \/ (disk' = Synced /\ Exists(0))
  BY DEF AfterClose, PcInv
<1>5. QED
  BY <1>2, <1>3, <1>4

\* A rename keeps the log, or drops the whole last archive.
LEMMA KeptOnRename ==
    ASSUME TypeOK, PcInv, GapInv, TypeOK', Rename
    PROVE  KeptStep
<1>1. CASE ~ Exists(index - 1)
  BY <1>1 DEF Rename, Kept, KeptStep, KeptSame
<1>2. CASE Exists(index - 1)
  <2>1. PICK e, i, b : e = disk' /\ i = index /\ b = buffer.text
    OBVIOUS
  <2>2. /\ i \in 1 .. FileCount - 1 /\ i \in Names /\ i - 1 \in Names /\ i # i - 1
        /\ i < FileCount - 1 \/ i = FileCount - 1
    BY <2>1, RotateInfoAssumption DEF Rename, PcInv, TypeOK, Names
  <2>3. e \in Disks /\ disk \in Disks /\ b \in Seq(Messages)
    BY <2>1, KeptTypes DEF TypeOK, Disks
  <2>4. e = [disk EXCEPT ![i] = disk[i - 1], ![i - 1] = NoFile]
    BY <1>2, <2>1 DEF Rename
  <2>5. /\ e[i] = disk[i - 1] /\ e[i - 1] = NoFile
        /\ \A name \in Names : name # i /\ name # i - 1 => e[name] = disk[name]
    BY <2>2, <2>3, <2>4 DEF Disks
  <2>6. TextIn(e, i) = TextIn(disk, i - 1) /\ TextIn(e, i - 1) = <<>>
    BY <2>5 DEF TextIn
  <2>7. \A name \in Names : name # i /\ name # i - 1 => TextIn(e, name) = TextIn(disk, name)
    BY <2>5 DEF TextIn
  <2>8. i = FileCount - 1 \/ TextIn(disk, i) = <<>>
    BY <2>1, <2>2 DEF TextIn, Exists, GapInv, Rename
  <2>9. LogOf(disk) = TextIn(disk, i) \o LogOf(e)
    BY <2>2, <2>3, <2>6, <2>7, <2>8, LogMoves
  <2>10. PICK p, q : p = TextIn(disk, i) /\ q = LogOf(e)
    OBVIOUS
  <2>11. p \in Seq(Messages) /\ q \in Seq(Messages)
    BY <2>2, <2>3, <2>10, LogTypes
  <2>12. (p \o q) \o b = p \o (q \o b)
    BY <2>3, <2>11, ConcatAssociative
  <2>13. Kept = (p \o q) \o b /\ Kept' = q \o b
    BY <2>1, <2>9, <2>10 DEF Kept, Rename
  <2>14. q \o b \in Seq(Messages)
    BY <2>3, <2>11, ConcatProperties
  <2>15. QED
    BY <2>11, <2>12, <2>13, <2>14 DEF KeptStep, KeptLosesOldest, Rename
<1>3. QED
  BY <1>1, <1>2

\* Opening the file creates it at most.
LEMMA KeptOnOpen ==
    ASSUME TypeOK, disk' = [disk EXCEPT ![0] = Opened],
           UNCHANGED <<buffer, accepted, durable>>
    PROVE  KeptStep
<1>1. PICK e : e = [disk EXCEPT ![0] = Opened]
  OBVIOUS
<1>2. disk \in [Names -> Contents \cup {NoFile}] /\ 0 \in Names
  BY NamesFacts DEF TypeOK
<1>3. e[0] = Opened /\ \A name \in Names : name # 0 => e[name] = disk[name]
  BY <1>1, <1>2
<1>4. Opened # NoFile
  BY OpenedContent, NoFileAssumption
<1>5. TextIn(e, 0) = TextIn(disk, 0)
  BY <1>3, <1>4 DEF TextIn, Opened, Exists, Empty
<1>6. \A name \in Names : TextIn(e, name) = TextIn(disk, name)
  BY <1>3, <1>5 DEF TextIn
<1>7. LogOf(e) = LogOf(disk)
  BY <1>6, LogSame
<1>8. QED
  BY <1>1, <1>7 DEF Kept, KeptStep, KeptSame

\* A message is written to the buffer.
LEMMA KeptOnWrite ==
    ASSUME TypeOK, message \in Messages, message' = NoMessage, disk' = disk,
           buffer' = Plus(buffer, message), UNCHANGED durable,
           accepted' \in {accepted, accepted \cup {message}}
    PROVE  KeptStep
<1>1. PICK p, q : p = LogOf(disk) /\ q = buffer.text
  OBVIOUS
<1>2. p \in Seq(Messages) /\ q \in Seq(Messages)
  BY <1>1, KeptTypes
<1>3. p \o Append(q, message) = Append(p \o q, message)
  BY <1>2, AppendConcat
<1>4. Kept' = Append(Kept, message)
  BY <1>1, <1>3 DEF Kept, Plus
<1>5. QED
  BY <1>4 DEF KeptStep, KeptGrows

\* Flushing covers the whole log.
LEMMA KeptOnFlush ==
    ASSUME TypeOK, PcInv, TypeOK', Flush
    PROVE  KeptStep
<1>1. PICK e : e = Synced
  OBVIOUS
<1>2. e \in Disks /\ LogOf(e) = Kept
  BY <1>1, SyncedLog DEF Flush, PcInv
<1>3. LogOf(e) \o Empty.text = LogOf(e)
  BY <1>2, KeptEmptyBuffer
<1>4. Kept' = Kept
  BY <1>1, <1>2, <1>3 DEF Kept, Flush
<1>5. UNION {ToSet(e[name].text) : name \in {k \in Names : e[k] # NoFile}}
        = UNION {ToSet(TextIn(e, name)) : name \in Names}
  <2>1. ToSet(<<>>) = {}
    BY DEF ToSet
  <2>2. ASSUME NEW name \in Names
        PROVE  ToSet(TextIn(e, name)) = IF e[name] # NoFile THEN ToSet(e[name].text) ELSE {}
    BY <2>1 DEF TextIn
  <2>3. QED
    BY <2>2
<1>6. durable' = durable \cup ToSet(Kept)
  <2>1. ToSet(LogOf(e)) = UNION {ToSet(TextIn(e, name)) : name \in Names}
    BY <1>2, LogElements
  <2>2. durable' = durable \cup UNION {ToSet(e[name].text) : name \in {k \in Names : e[k] # NoFile}}
    BY <1>1 DEF Flush
  <2>3. QED
    BY <1>2, <1>5, <2>1, <2>2
<1>7. QED
  BY <1>4, <1>6 DEF KeptStep, KeptFlushed, Flush

\* Every step changes the log in one of these ways.
LEMMA KeptNext ==
    ASSUME TypeOK, PcInv, GapInv, TypeOK', [Next]_vars
    PROVE  KeptStep
<1>1. ASSUME UNCHANGED <<disk, buffer, accepted, durable>>
      PROVE  KeptStep
  BY <1>1 DEF Kept, KeptStep, KeptSame
<1>2. ASSUME NEW m, StartRotation(m), UNCHANGED <<accepted, durable>>
      PROVE  KeptStep
  BY <1>2, KeptOnClose DEF StartRotation
<1>3. ASSUME NEW mode, Construct(mode)
      PROVE  KeptStep
  <2>1. CASE StartRotation(NoMessage)
    BY <1>2, <1>3, <2>1 DEF Construct
  <2>2. CASE ~ StartRotation(NoMessage)
    BY <1>3, <2>2, KeptOnOpen DEF Construct
  <2>3. QED
    BY <2>1, <2>2
<1>4. ASSUME NEW m \in Messages, LogMessage(m)
      PROVE  KeptStep
  <2>1. CASE StartRotation(m)
    BY <1>2, <1>4, <2>1 DEF LogMessage
  <2>2. CASE ~ StartRotation(m)
    BY <1>1, <1>4, <2>2 DEF LogMessage
  <2>3. QED
    BY <2>1, <2>2
<1>5. CASE Rename
  BY <1>5, KeptOnRename
<1>6. CASE OpenFile
  BY <1>6, KeptOnOpen DEF OpenFile
<1>7. CASE Write
  <2>1. message \in Messages
    BY <1>7 DEF Write, PcInv, TypeOK
  <2>2. QED
    BY <1>7, <2>1, KeptOnWrite DEF Write
<1>8. CASE WriteFails
  <2>1. message \in Messages
    BY <1>8 DEF WriteFails, PcInv, TypeOK
  <2>2. /\ UNCHANGED <<disk, accepted, durable>> /\ message' = NoMessage
        /\ buffer' \in {buffer, Plus(buffer, message)}
    BY <1>8 DEF WriteFails, Throw
  <2>3. QED
    BY <1>1, <2>1, <2>2, KeptOnWrite
<1>9. CASE Spill
  <2>1. PICK e : e = Synced
    OBVIOUS
  <2>2. e \in Disks /\ LogOf(e) = Kept
    BY <1>9, <2>1, SyncedLog DEF Spill, PcInv
  <2>3. LogOf(e) \o Empty.text = LogOf(e)
    BY <2>2, KeptEmptyBuffer
  <2>4. Kept' = Kept
    BY <1>9, <2>1, <2>2, <2>3 DEF Kept, Spill
  <2>5. QED
    BY <1>9, <2>4 DEF KeptStep, KeptSame, Spill
<1>10. CASE Flush
  BY <1>10, KeptOnFlush
<1>11. CASE Destroy
  BY <1>11, KeptOnClose DEF Destroy
<1>12. CASE WriteNull \/ Crash
  <2>1. disk' = disk /\ buffer' = Empty /\ UNCHANGED <<accepted, durable>>
    BY <1>12 DEF WriteNull, Crash, EndProcess
  <2>2. disk \in Disks
    BY KeptTypes
  <2>3. Kept' = LogOf(disk)
    BY <2>1, <2>2, KeptEmptyBuffer DEF Kept
  <2>4. QED
    BY <2>1, <2>3 DEF KeptStep, KeptLosesBuffer
<1>13. CASE RenameFails \/ OpenFails \/ WriteRefused
  BY <1>1, <1>13 DEF RenameFails, OpenFails, WriteRefused, Throw
<1>14. CASE FlushFails \/ ConstructFails \/ UNCHANGED vars
  BY <1>1, <1>14 DEF FlushFails, ConstructFails, vars
<1>15. QED
  BY <1>3, <1>4, <1>5, <1>6, <1>7, <1>8, <1>9, <1>10, <1>11, <1>12, <1>13, <1>14
     DEF Next

\* A step brings no message on record but the one that is being logged.
LEMMA RecordGrows ==
    ASSUME TypeOK, KeptStep
    PROVE  /\ OnRecord' \subseteq OnRecord \cup {message}
           /\ ~ KeptGrows => OnRecord' \subseteq OnRecord
<1>1. PICK k, l : k = Kept /\ l = Kept'
  OBVIOUS
<1>2. k \in Seq(Messages)
  BY <1>1, KeptTypes
<1>3. OnRecord = accepted \cup durable \cup ToSet(k) /\ OnRecord' = accepted' \cup durable' \cup ToSet(l)
  BY <1>1 DEF OnRecord
<1>4. CASE KeptSame
  BY <1>1, <1>3, <1>4 DEF KeptSame
<1>5. CASE KeptGrows
  <2>1. ToSet(Append(k, message)) = ToSet(k) \cup {message}
    BY <1>2, <1>5, ToSetAppend DEF KeptGrows
  <2>2. QED
    BY <1>1, <1>3, <1>5, <2>1 DEF KeptGrows
<1>6. CASE KeptFlushed
  BY <1>1, <1>3, <1>6 DEF KeptFlushed
<1>7. CASE KeptLosesOldest
  <2>1. PICK p \in Seq(Messages) : k = p \o l
    BY <1>1, <1>7 DEF KeptLosesOldest
  <2>2. l \in Seq(Messages)
    BY <1>1, <1>7 DEF KeptLosesOldest
  <2>3. ToSet(p \o l) = ToSet(p) \cup ToSet(l)
    BY <2>2, ToSetConcat
  <2>4. QED
    BY <1>3, <1>7, <2>1, <2>3 DEF KeptLosesOldest
<1>8. CASE KeptLosesBuffer
  <2>1. ToSet(l) \subseteq ToSet(k)
    BY <1>1, <1>8, KeptTypes DEF KeptLosesBuffer
  <2>2. QED
    BY <1>3, <1>8, <2>1 DEF KeptLosesBuffer
<1>9. QED
  BY <1>4, <1>5, <1>6, <1>7, <1>8 DEF KeptStep

\* The log of the first state, and everything that is on record then.
LEMMA KeptInit ==
    ASSUME Init
    PROVE  /\ Kept \in {<<>>} \cup {<<m>> : m \in Messages}
           /\ accepted = ToSet(Kept) /\ durable = ToSet(Kept)
<1>1. TypeOK
  BY TypeInit
<1>2. PICK t, N : t = Text(0) /\ N = FileCount
  OBVIOUS
<1>3. t \in {<<>>} \cup {<<m>> : m \in Messages}
  <2>1. PICK first \in {NoFile} \cup {Plus(Empty, m) : m \in Earlier} :
          disk = [name \in Names |-> IF name = 0 THEN first ELSE NoFile]
    BY DEF Init
  <2>2. disk[0] = first
    BY <2>1, NamesFacts
  <2>3. CASE first = NoFile
    BY <1>2, <2>2, <2>3 DEF Text, Exists
  <2>4. ASSUME NEW m \in Earlier, first = Plus(Empty, m)
        PROVE  t = <<m>> /\ m \in Messages
    <3>1. Plus(Empty, m).text = <<m>>
      BY DEF Plus, Empty
    <3>2. first # NoFile
      BY <2>4, PlusContent, EmptyContent, MessagesAssumption, NoFileAssumption
    <3>3. QED
      BY <1>2, <2>2, <2>4, <3>1, <3>2, MessagesAssumption DEF Text, Exists
  <2>5. QED
    BY <2>1, <2>3, <2>4
<1>4. t \in Seq(Messages)
  <2>1. <<>> \in Seq(Messages)
    BY EmptySeq
  <2>2. \A m \in Messages : <<m>> \in Seq(Messages)
    OBVIOUS
  <2>3. QED
    BY <1>3, <2>1, <2>2
<1> DEFINE none == [name \in Names |-> NoFile]
<1>5. none \in Disks /\ disk \in Disks
  BY <1>1, KeptTypes DEF Disks
<1>6. /\ TextIn(disk, 0) = t
      /\ \A name \in Names : TextIn(none, name) = <<>> /\ (name # 0 => TextIn(disk, name) = <<>>)
  BY <1>2, NamesFacts DEF Init, TextIn, Text, Exists
<1>7. LogOf(none) \in Seq(Messages) /\ ToSet(LogOf(none)) = {}
  <2>1. ToSet(LogOf(none)) = UNION {ToSet(TextIn(none, name)) : name \in Names}
    BY <1>5, LogElements
  <2>2. ToSet(<<>>) = {}
    BY DEF ToSet
  <2>3. LogOf(none) \in Seq(Messages)
    BY <1>5, LogTypes
  <2>4. QED
    BY <1>6, <2>1, <2>2, <2>3
<1> HIDE DEF none
<1>8. LogOf(none) = <<>>
  <2>1. PICK q : q = LogOf(none)
    OBVIOUS
  <2>2. q \in Seq(Messages) /\ ToSet(q) = {}
    BY <1>7, <2>1
  <2>3. ToSet(q) = {q[i] : i \in 1 .. Len(q)} /\ Len(q) \in Nat
    BY <2>2, ToSetOf, LenProperties
  <2>4. Len(q) = 0
    <3>1. Len(q) > 0 => 1 \in 1 .. Len(q)
      BY <2>3
    <3>2. Len(q) > 0 => q[1] \in ToSet(q)
      BY <2>3, <3>1
    <3>3. QED
      BY <2>2, <2>3, <3>2
  <2>5. q = <<>>
    BY <2>2, <2>4, EmptySeq
  <2>6. QED
    BY <2>1, <2>5
<1>9. <<>> \o t = t
  BY <1>4, ConcatEmptySeq
<1>10. LogOf(disk) = t
  <2>1. PICK d, e : d = none /\ e = disk
    OBVIOUS
  <2>2. d \in Disks /\ e \in Disks
    BY <1>5, <2>1
  <2>3. TextIn(e, 0) = TextIn(d, 0) \o t
    BY <1>6, <1>9, <2>1, NamesFacts
  <2>4. \A name \in Names : name # 0 => TextIn(e, name) = TextIn(d, name)
    BY <1>6, <2>1
  <2>5. LogOf(e) = LogOf(d) \o t
    BY <1>4, <2>2, <2>3, <2>4, LogGrows
  <2>6. QED
    BY <1>8, <1>9, <2>1, <2>5
<1>11. Kept = t
  <2>1. LogOf(disk) \o Empty.text = LogOf(disk)
    BY <1>5, KeptEmptyBuffer
  <2>2. QED
    BY <1>10, <2>1 DEF Kept, Init
<1>12. ToSet(t) = logged
  <2>1. ToSet(<<>>) = {}
    BY DEF ToSet
  <2>2. QED
    BY <1>2, <2>1 DEF Init, Text
<1>13. QED
  BY <1>3, <1>11, <1>12 DEF Init

\* Nothing is being logged at first.
LEMMA FreshInit == Init => FreshInv
<1> SUFFICES ASSUME Init
             PROVE  FreshInv
  OBVIOUS
<1>1. ToSet(Empty.text) = {}
  BY DEF Empty, ToSet
<1>2. QED
  BY <1>1, KeptInit DEF FreshInv, OnRecord, Init

\* Every message is logged once, so a message that is being logged is new.
LEMMA FreshNext ==
    ASSUME TypeOK, PcInv, GapInv, FreshInv, TypeOK', [Next]_vars
    PROVE  FreshInv'
<1>1. OnRecord' \subseteq OnRecord \cup {message} /\ (~ KeptGrows => OnRecord' \subseteq OnRecord)
  BY KeptNext, RecordGrows
<1>2. /\ OnRecord \subseteq logged
      /\ message # NoMessage => message \in logged \ OnRecord
      /\ ToSet(buffer.text) \cap durable = {}
  BY DEF FreshInv
<1>3. KeptGrows => message # NoMessage
  BY MessagesAssumption DEF KeptGrows
<1>4. logged \subseteq logged'
  BY DEF Next, vars, Construct, Rename, RenameFails, OpenFile, OpenFails,
         LogMessage, Write, WriteFails, WriteRefused, WriteNull, Spill, Flush,
         FlushFails, Destroy, ConstructFails, Crash, EndProcess, Throw
<1>5. OnRecord' \subseteq logged'
  BY <1>1, <1>2, <1>3, <1>4
<1>6. ASSUME message' # NoMessage
      PROVE  message' \in logged' \ OnRecord'
  <2>1. OnRecord' \subseteq OnRecord
    BY <1>1, <1>6 DEF KeptGrows
  <2>2. message' = message \/ \E m \in Messages : LogMessage(m)
    BY <1>6 DEF Next, vars, Construct, StartRotation, Rename, RenameFails,
         OpenFile, OpenFails, Write, WriteFails, WriteRefused, WriteNull, Spill,
         Flush, FlushFails, Destroy, ConstructFails, Crash, EndProcess, Throw
  <2>3. ASSUME NEW m \in Messages, LogMessage(m)
        PROVE  message' \in logged' \ OnRecord
    <3>1. message' = m /\ m \notin logged /\ m \in logged'
      BY <2>3 DEF LogMessage, StartRotation
    <3>2. QED
      BY <1>2, <3>1
  <2>4. QED
    BY <1>2, <1>4, <1>6, <2>1, <2>2, <2>3
<1>7. ToSet(buffer'.text) \cap durable' = {}
  <2>1. ToSet(Empty.text) = {}
    BY DEF Empty, ToSet
  <2>2. CASE UNCHANGED <<buffer, durable>>
    BY <1>2, <2>2
  <2>3. CASE buffer' = Empty
    BY <2>1, <2>3
  <2>4. CASE buffer' = Plus(buffer, message) /\ message \in Messages /\ durable' = durable
    <3>1. PICK q : q = buffer.text
      OBVIOUS
    <3>2. q \in Seq(Messages)
      BY <3>1, KeptTypes
    <3>3. ToSet(Append(q, message)) = ToSet(q) \cup {message}
      BY <2>4, <3>2, ToSetAppend
    <3>4. message \notin durable
      BY <1>2, <2>4, MessagesAssumption DEF OnRecord
    <3>5. buffer'.text = Append(q, message)
      BY <2>4, <3>1 DEF Plus
    <3>6. QED
      BY <1>2, <2>4, <3>1, <3>3, <3>4, <3>5
  <2>5. \/ UNCHANGED <<buffer, durable>>
        \/ buffer' = Empty
        \/ buffer' = Plus(buffer, message) /\ message \in Messages /\ durable' = durable
    BY DEF Next, vars, Construct, StartRotation, Rename, RenameFails, OpenFile,
         OpenFails, LogMessage, Write, WriteFails, WriteRefused, WriteNull, Spill,
         Flush, FlushFails, Destroy, ConstructFails, Crash, EndProcess, Throw, PcInv, TypeOK
  <2>6. QED
    BY <2>2, <2>3, <2>4, <2>5
<1>8. QED
  BY <1>5, <1>6, <1>7 DEF FreshInv

\* The first state is one of LogWindow.
LEMMA WindowInit == Init => Window!WInit
<1> SUFFICES ASSUME Init
             PROVE  Window!WInit
  OBVIOUS
<1>1. /\ Kept \in {<<>>} \cup {<<m>> : m \in Messages}
      /\ accepted = ToSet(Kept) /\ durable = ToSet(Kept)
  BY KeptInit
<1>2. QED
  BY <1>1 DEF Window!WInit, Window!ToSet, ToSet, Kept, LogOf, TextsOf, TextIn, Text, Exists

\* Every step is one of LogWindow or a stutter.
LEMMA WindowNext ==
    ASSUME TypeOK, FreshInv, KeptStep
    PROVE  [Window!WNext]_(Window!wvars)
<1>1. CASE KeptSame
  BY <1>1 DEF KeptSame, Window!wvars, Kept, LogOf, TextsOf, TextIn, Text, Exists
<1>2. CASE KeptGrows
  <2>1. message \notin accepted \cup ToSet(Kept)
    BY <1>2, MessagesAssumption DEF KeptGrows, FreshInv, OnRecord
  <2>2. CASE accepted' = accepted
    <3>1. Window!WReject(message)
      BY <1>2, <2>1, <2>2 DEF KeptGrows, Window!WReject, Window!ToSet, ToSet,
                             Kept, LogOf, TextsOf, TextIn, Text, Exists
    <3>2. QED
      BY <1>2, <3>1 DEF KeptGrows, Window!WNext
  <2>3. CASE accepted' = accepted \cup {message}
    <3>1. Window!WLog(message)
      BY <1>2, <2>1, <2>3 DEF KeptGrows, Window!WLog, Kept, LogOf, TextsOf, TextIn, Text, Exists
    <3>2. QED
      BY <1>2, <3>1 DEF KeptGrows, Window!WNext
  <2>4. QED
    BY <1>2, <2>2, <2>3 DEF KeptGrows
<1>3. CASE KeptFlushed
  <2>1. Window!WFlush
    BY <1>3 DEF KeptFlushed, Window!WFlush, Window!ToSet, ToSet, Kept, LogOf, TextsOf, TextIn, Text, Exists
  <2>2. QED
    BY <2>1 DEF Window!WNext
<1>4. CASE KeptLosesOldest
  <2>1. PICK p, k, l : /\ k = Kept /\ l = Kept' /\ k = p \o l
                       /\ p \in Seq(Messages) /\ l \in Seq(Messages)
    BY <1>4 DEF KeptLosesOldest
  <2>2. CASE p = <<>>
    <3>1. k = l
      BY <2>1, <2>2, ConcatEmptySeq
    <3>2. KeptSame
      BY <1>4, <2>1, <3>1 DEF KeptLosesOldest, KeptSame
    <3>3. QED
      BY <1>1, <3>2
  <2>3. CASE p # <<>>
    <3>1. PICK n : n = Len(p)
      OBVIOUS
    <3>2. n \in 1 .. Len(k) /\ l = SubSeq(k, n + 1, Len(k))
      BY <2>1, <2>3, <3>1, DropFirst
    <3>3. Window!WDropOldest
      <4>1. \E j \in 1 .. Len(Kept) : Kept' = SubSeq(Kept, j + 1, Len(Kept))
        BY <2>1, <3>2
      <4>2. QED
        BY <1>4, <4>1 DEF KeptLosesOldest, Window!WDropOldest, Kept, LogOf, TextsOf, TextIn, Text, Exists
    <3>4. QED
      BY <3>3 DEF Window!WNext
  <2>4. QED
    BY <2>2, <2>3
<1>5. CASE KeptLosesBuffer
  <2>1. PICK p, q, k : p = LogOf(disk) /\ q = buffer.text /\ k = Kept
    OBVIOUS
  <2>2. p \in Seq(Messages) /\ q \in Seq(Messages) /\ k = p \o q
    BY <2>1, KeptTypes DEF Kept
  <2>3. CASE q = <<>>
    <3>1. k = p
      BY <2>2, <2>3, ConcatEmptySeq
    <3>2. KeptSame
      BY <1>5, <2>1, <3>1 DEF KeptLosesBuffer, KeptSame
    <3>3. QED
      BY <1>1, <3>2
  <2>4. CASE q # <<>>
    <3>1. PICK n : n = Len(p) + 1
      OBVIOUS
    <3>2. EndsAt(k, p, n, ToSet(q))
      BY <2>2, <2>4, <3>1, DropLast
    <3>3. Window!WLoseNewest
      <4>1. \A e \in ToSet(q) : e \notin durable
        BY <2>1 DEF FreshInv
      <4>2. \E j \in 1 .. Len(k) : (\A i \in j .. Len(k) : k[i] \notin durable)
                                   /\ p = SubSeq(k, 1, j - 1)
        BY <3>2, <4>1 DEF EndsAt
      <4>3. \E j \in 1 .. Len(Kept) : /\ \A i \in j .. Len(Kept) : Kept[i] \notin durable
                                      /\ Kept' = SubSeq(Kept, 1, j - 1)
        BY <1>5, <2>1, <4>2 DEF KeptLosesBuffer
      <4>4. QED
        BY <1>5, <4>3 DEF KeptLosesBuffer, Window!WLoseNewest, Kept, LogOf, TextsOf, TextIn, Text, Exists
    <3>4. QED
      BY <3>3 DEF Window!WNext
  <2>5. QED
    BY <2>3, <2>4
<1>6. QED
  BY <1>1, <1>2, <1>3, <1>4, <1>5 DEF KeptStep

-----------------------------------------------------------------------------
(* A module that can rename and open its files always has an open one.     *)

OpenInv == ~fault /\ (pc \in {"ready", "write", "wrote"} => file # "null")

\* Every step keeps a file open outside of rotations, unless one fails.
LEMMA OpenNext ==
    ASSUME "open" \notin Failing, "rename" \notin Failing, PcInv, OpenInv,
           [Next]_vars
    PROVE  OpenInv'
<1> USE DEF OpenInv
<1>1. ASSUME NEW m, StartRotation(m), UNCHANGED fault
      PROVE  OpenInv'
  BY <1>1 DEF StartRotation
<1>2. ASSUME NEW mode, Construct(mode)
      PROVE  OpenInv'
  BY <1>1, <1>2 DEF Construct
<1>3. ASSUME NEW m \in Messages, LogMessage(m)
      PROVE  OpenInv'
  BY <1>1, <1>3 DEF LogMessage
<1>4. CASE Rename \/ OpenFile \/ ConstructFails \/ Destroy \/ Crash
  BY <1>4 DEF Rename, OpenFile, ConstructFails, Destroy, Crash, EndProcess
<1>5. CASE RenameFails \/ OpenFails
  BY <1>5 DEF RenameFails, OpenFails
<1>6. CASE Write \/ WriteFails \/ WriteRefused \/ Spill \/ Flush \/ FlushFails
  BY <1>6 DEF Write, WriteFails, WriteRefused, Throw, Spill, Flush, FlushFails, PcInv
<1>7. CASE WriteNull
  BY <1>7 DEF WriteNull
<1>8. CASE UNCHANGED vars
  BY <1>8 DEF vars
<1>9. QED
  BY <1>2, <1>3, <1>4, <1>5, <1>6, <1>7, <1>8 DEF Next

-----------------------------------------------------------------------------
(* The theorems.                                                           *)

\* RInv is inductive: it holds in every state of every behaviour.
THEOREM RotationInvariance == Spec => []RInv
<1>1. Init => RInv
  BY TypeInit, PcInit, GapInit, SaneInit, BoundInit, FreshInit DEF RInv
<1>2. RInv /\ [Next]_vars => RInv'
  BY TypeNext, PcNext, GapNext, SaneNext, BoundNext, FreshNext DEF RInv
<1> QED BY <1>1, <1>2, PTL DEF Spec

\* Every variable of the rotating file module keeps its type.
THEOREM RotationTypes == Spec => []TypeOK
<1>1. RInv => TypeOK
  BY DEF RInv
<1> QED BY <1>1, RotationInvariance, PTL

\* With archives, only a file of a single message reaches file_size code
\* units, or BytesPerUnit times file_size bytes (file_size bytes where a code
\* unit takes one), whichever calls but that of reading a size fail and
\* whenever the process ends and starts again.
THEOREM RotationSize == Spec => []SizeBound
<1>1. ASSUME RInv, FileCount > 1, "size" \notin Failing,
             NEW name \in Names, Exists(name), Len(disk[name].text) # 1
      PROVE  /\ disk[name].units < FileSize
             /\ disk[name].bytes < BytesPerUnit * FileSize
  <2>1. disk[name].units < FileSize
    BY <1>1 DEF RInv, BoundInv, Bounded, Count
  <2>2. /\ disk[name].units \in Nat /\ disk[name].bytes \in Nat
        /\ disk[name].bytes <= BytesPerUnit * disk[name].units
    BY <1>1, ContentParts DEF RInv, TypeOK, SaneInv, Sane, Exists
  <2>3. BytesPerUnit * disk[name].units < BytesPerUnit * FileSize
    BY <2>1, <2>2, RotateInfoAssumption, EncodingAssumption, TimesSum
  <2>4. BytesPerUnit * disk[name].units \in Nat /\ BytesPerUnit * FileSize \in Nat
    BY <2>2, RotateInfoAssumption, EncodingAssumption, TimesSum
  <2> QED BY <2>1, <2>2, <2>3, <2>4
<1>2. RInv => SizeBound
  BY <1>1 DEF SizeBound
<1> QED BY <1>2, RotationInvariance, PTL

\* Rotations overwrite the oldest archive and no other file.
THEOREM RotationDropsOldest == Spec => OnlyOldestDropped
<1>1. RInv /\ [Next]_vars =>
        [\A m \in OnDisk : m \in OnDisk' \/ m \in ToSet(Text(FileCount - 1))]_vars
  BY DropStep DEF RInv
<1> QED BY <1>1, RotationInvariance, PTL DEF Spec, OnlyOldestDropped

\* The module keeps the promise of a LogWindow: the files and the buffer hold
\* the messages in the order of their log_message() calls without a gap, lose
\* the oldest by rotation and the newest, unless flushed, by a failure.
THEOREM WindowImplemented == Spec => ImplementsWindow
<1>1. RInv /\ RInv' /\ [Next]_vars => [Window!WNext]_(Window!wvars)
  BY KeptNext, WindowNext DEF RInv
<1>2. QED
  BY <1>1, WindowInit, RotationInvariance, PTL DEF Spec, ImplementsWindow, Window!WSpec

\* Only a rotation that fails to rename or to open a file makes the module
\* write to a file that is not open.
THEOREM OpenUnlessRotationFails ==
    ASSUME "open" \notin Failing, "rename" \notin Failing
    PROVE  Spec => []FileIsOpen
<1>1. Init => OpenInv
  BY DEF Init, OpenInv
<1>2. RInv /\ OpenInv /\ [Next]_vars => OpenInv'
  BY OpenNext DEF RInv
<1>3. OpenInv => FileIsOpen
  BY DEF OpenInv, FileIsOpen
<1>4. QED
  BY <1>1, <1>2, <1>3, RotationInvariance, PTL DEF Spec
=============================================================================
