---------------------------- MODULE RotationFile ----------------------------
(***************************************************************************)
(* logency::sink_module::rotation_file_module and the detail::file::       *)
(* basic_file it writes to.  The worker that operates the sink is the only *)
(* caller, so the actors are that worker, the devices that may fail it and *)
(* the process, which may end between any two steps.                       *)
(*                                                                         *)
(* A step is one call that reaches the file system.  A file is its         *)
(* messages and two sizes: log_message() counts the code units of the      *)
(* messages, the file system the bytes that text mode and the encoding of  *)
(* the stream make of them.  Asserts are compiled out, as in a release     *)
(* build.                                                                  *)
(***************************************************************************)
EXTENDS Naturals, SequencesExt

CONSTANTS
    Messages,    \* formatted messages, each of them logged at most once
    SizeOf,      \* formatted_message.size(): its code units
    BytesOf,     \* the bytes a formatted message takes in the file
    BytesPerUnit,\* at most so many bytes are written for a code unit
    Earlier,     \* messages that may be in the file before the first start
    FileSize,    \* rotate_info::file_size
    FileCount,   \* rotate_info::file_count
    Failing,     \* the calls that may fail: a subset of Calls
    MaxStarts,   \* bound: how often a module is constructed
    NoFile,      \* the content of a name that does not exist
    NoMessage    \* the constructor rotates for no message

Calls == {"open", "rename", "write", "size"}

\* The constructor refuses a size and a count that are not positive.
ASSUME RotateInfoAssumption == FileSize \in Nat \ {0} /\ FileCount \in Nat \ {0}
ASSUME MessagesAssumption ==
    /\ SizeOf \in [Messages -> Nat]
    /\ BytesOf \in [Messages -> Nat]
    /\ Earlier \subseteq Messages
    /\ NoMessage \notin Messages
\* Text mode only adds bytes ("\r" on Windows), and an encoding has at least
\* one for a code unit.
ASSUME EncodingAssumption ==
    /\ BytesPerUnit \in Nat \ {0}
    /\ \A m \in Messages : SizeOf[m] <= BytesOf[m]
                          /\ BytesOf[m] <= BytesPerUnit * SizeOf[m]
ASSUME BoundsAssumption == Failing \subseteq Calls /\ MaxStarts \in Nat

VARIABLES
    disk,          \* the files: name is number 0, its archives 1, 2, ...
    pc,            \* where the worker is
    message,       \* the message being logged
    index,         \* i of the loop in rotate_file()
    file,          \* file_: null, or the state of its stream
    buffer,        \* what the stream has not handed to the system yet
    current_size,  \* current_size_
    starts,        \* the modules constructed so far
    logged,        \* the messages ever passed to log_message()
    accepted,      \* those for which it returned normally
    durable,       \* the messages a flush() has covered
    fault          \* a null file_ was dereferenced

vars == <<disk, pc, message, index, file, buffer, current_size, starts,
          logged, accepted, durable, fault>>

Names == 0 .. FileCount - 1
Contents == [text : Seq(Messages), units : Nat, bytes : Nat]
Empty == [text |-> <<>>, units |-> 0, bytes |-> 0]

ASSUME NoFileAssumption == NoFile \notin Contents

TypeOK ==
    /\ disk \in [Names -> Contents \cup {NoFile}]
    /\ pc \in {"down", "ready", "rename", "open", "write", "wrote"}
    /\ message \in Messages \cup {NoMessage}
    /\ index \in Names
    /\ file \in {"null", "open", "bad"}
    /\ buffer \in Contents
    /\ current_size \in Nat
    /\ starts \in 0 .. MaxStarts
    /\ logged \subseteq Messages
    /\ accepted \subseteq Messages
    /\ durable \subseteq Messages
    /\ fault \in BOOLEAN

Exists(name) == disk[name] # NoFile

\* The content f with the content g, or with the message m, behind it.
Join(f, g) == [text |-> f.text \o g.text, units |-> f.units + g.units,
               bytes |-> f.bytes + g.bytes]
Plus(f, m) == [text |-> Append(f.text, m), units |-> f.units + SizeOf[m],
               bytes |-> f.bytes + BytesOf[m]]

\* Operators named Faulty... are edits of the definition they precede; no
\* specification uses them, they show what the properties detect.
FaultyShouldRotate(size, offset) == size >= FileSize

\* should_rotate()
ShouldRotate(size, offset) == size + offset >= FileSize

FaultyFirstIndex == FileCount
FaultyShortFirstIndex == IF FileCount > 2 THEN FileCount - 2 ELSE FileCount - 1

\* The loop in rotate_file() starts with the name of the last archive.
FirstIndex == FileCount - 1

FaultyOpened == Empty

\* open_file() opens name in append mode, which creates it if necessary.
Opened == IF Exists(0) THEN disk[0] ELSE Empty

\* get_file_size(): the bytes of the file; what cannot be read counts as zero.
SizeOnOpen == {Opened.bytes} \cup (IF "size" \in Failing THEN {0} ELSE {})

\* The disk with the buffer handed to the system.
Synced == [disk EXCEPT ![0] = Join(@, buffer)]

\* The disks that ~basic_file() can leave: it reports no failure.
AfterClose ==
    IF file = "null" THEN {disk}
    ELSE {Synced} \cup (IF file = "bad" \/ "write" \in Failing
                        THEN {disk} ELSE {})

Init ==
    /\ \E first \in {NoFile} \cup {Plus(Empty, m) : m \in Earlier} :
        disk = [name \in Names |-> IF name = 0 THEN first ELSE NoFile]
    /\ pc = "down"
    /\ message = NoMessage
    /\ index = 0
    /\ file = "null"
    /\ buffer = Empty
    /\ current_size = 0
    /\ starts = 0
    /\ logged = IF Exists(0) THEN ToSet(disk[0].text) ELSE {}
    /\ accepted = logged
    /\ durable = logged
    /\ fault = FALSE

-----------------------------------------------------------------------------
(* rotate(), on behalf of the message m or of the constructor.             *)

\* close_file(), up to the first rename.
StartRotation(m) ==
    /\ disk' \in AfterClose
    /\ file' = "null"
    /\ buffer' = Empty
    /\ message' = m
    /\ index' = FirstIndex
    /\ pc' = IF FirstIndex > 0 THEN "rename" ELSE "open"

\* One turn of the loop in rotate_file(): a name that is missing is skipped.
Rename ==
    /\ pc = "rename"
    /\ disk' = IF Exists(index - 1)
               THEN [disk EXCEPT ![index] = disk[index - 1], ![index - 1] = NoFile]
               ELSE disk
    /\ index' = index - 1
    /\ pc' = IF index = 1 THEN "open" ELSE "rename"
    /\ UNCHANGED <<message, file, buffer, current_size, starts, logged,
                   accepted, durable, fault>>

\* An exception leaves log_message(), or the constructor.
Throw ==
    /\ pc' = IF message = NoMessage THEN "down" ELSE "ready"
    /\ message' = NoMessage
    /\ UNCHANGED <<index, current_size, starts, logged, accepted, durable, fault>>

RenameFails ==
    /\ pc = "rename"
    /\ "rename" \in Failing
    /\ Exists(index - 1)
    /\ Throw
    /\ UNCHANGED <<disk, file, buffer>>

\* open_file() at the end of rotate().
OpenFile ==
    /\ pc = "open"
    /\ disk' = [disk EXCEPT ![0] = Opened]
    /\ file' = "open"
    /\ current_size' \in SizeOnOpen
    /\ pc' = IF message = NoMessage THEN "ready" ELSE "write"
    /\ UNCHANGED <<message, index, buffer, starts, logged, accepted, durable,
                   fault>>

OpenFails ==
    /\ pc = "open"
    /\ "open" \in Failing
    /\ Throw
    /\ UNCHANGED <<disk, file, buffer>>

-----------------------------------------------------------------------------
(* The constructor, in either construct_mode, and the destructor.          *)

Construct(mode) ==
    /\ pc = "down"
    /\ starts < MaxStarts
    /\ starts' = starts + 1
    /\ \E size \in SizeOnOpen :
        /\ current_size' = size
        /\ IF Exists(0) /\ (mode = "create_new_file" \/ ShouldRotate(size, 0))
           THEN StartRotation(NoMessage)
           ELSE /\ disk' = [disk EXCEPT ![0] = Opened]
                /\ file' = "open"
                /\ pc' = "ready"
                /\ UNCHANGED <<message, index, buffer>>
    /\ UNCHANGED <<logged, accepted, durable, fault>>

\* The first open_file() of the constructor fails.
ConstructFails ==
    /\ pc = "down"
    /\ "open" \in Failing
    /\ starts < MaxStarts
    /\ starts' = starts + 1
    /\ UNCHANGED <<disk, pc, message, index, file, buffer, current_size, logged,
                   accepted, durable, fault>>

Destroy ==
    /\ pc \in {"ready", "wrote"}
    /\ pc' = "down"
    /\ disk' \in AfterClose
    /\ file' = "null"
    /\ buffer' = Empty
    /\ UNCHANGED <<message, index, current_size, starts, logged, accepted,
                   durable, fault>>

\* What remains of the module when the process ends in the middle of it.
EndProcess ==
    /\ pc' = "down"
    /\ message' = NoMessage
    /\ file' = "null"
    /\ buffer' = Empty
    /\ UNCHANGED <<disk, index, current_size, starts, logged, accepted, durable>>

Crash ==
    /\ pc # "down"
    /\ EndProcess
    /\ UNCHANGED fault

-----------------------------------------------------------------------------
(* log_message() and flush().                                              *)

LogMessage(m) ==
    /\ pc \in {"ready", "wrote"}
    /\ m \notin logged
    /\ logged' = logged \cup {m}
    /\ IF ShouldRotate(current_size, SizeOf[m])
       THEN StartRotation(m)
       ELSE /\ pc' = "write"
            /\ message' = m
            /\ UNCHANGED <<disk, index, file, buffer>>
    /\ UNCHANGED <<current_size, starts, accepted, durable, fault>>

Write ==
    /\ pc = "write"
    /\ file = "open"
    /\ buffer' = Plus(buffer, message)
    /\ current_size' = current_size + SizeOf[message]
    /\ accepted' = accepted \cup {message}
    /\ message' = NoMessage
    /\ pc' = "wrote"
    /\ UNCHANGED <<disk, index, file, starts, logged, durable, fault>>

\* The device refuses the content; the message may stay in the buffer.
WriteFails ==
    /\ pc = "write"
    /\ file = "open"
    /\ "write" \in Failing
    /\ buffer' \in {buffer, Plus(buffer, message)}
    /\ file' = "bad"
    /\ Throw
    /\ UNCHANGED disk

\* A stream that went bad stays bad: nothing is written any more.
WriteRefused ==
    /\ pc = "write"
    /\ file = "bad"
    /\ Throw
    /\ UNCHANGED <<disk, file, buffer>>

\* file_ is null: undefined, the access to the stream ends the process.
WriteNull ==
    /\ pc = "write"
    /\ file = "null"
    /\ fault' = TRUE
    /\ EndProcess

\* The stream empties its buffer whenever it likes to.
Spill ==
    /\ file = "open"
    /\ buffer # Empty
    /\ disk' = Synced
    /\ buffer' = Empty
    /\ UNCHANGED <<pc, message, index, file, current_size, starts, logged,
                   accepted, durable, fault>>

\* The sink calls flush() after a log_message() that returned normally.
Flush ==
    /\ pc = "wrote"
    /\ pc' = "ready"
    /\ disk' = Synced
    /\ buffer' = Empty
    /\ durable' = durable \cup UNION {ToSet(disk'[name].text) :
                                      name \in {k \in Names : disk'[k] # NoFile}}
    /\ UNCHANGED <<message, index, file, current_size, starts, logged,
                   accepted, fault>>

FlushFails ==
    /\ pc = "wrote"
    /\ "write" \in Failing
    /\ pc' = "ready"
    /\ file' = "bad"
    /\ UNCHANGED <<disk, message, index, buffer, current_size, starts, logged,
                   accepted, durable, fault>>

-----------------------------------------------------------------------------
Next ==
    \/ \E mode \in {"append_previous", "create_new_file"} : Construct(mode)
    \/ ConstructFails
    \/ Rename
    \/ RenameFails
    \/ OpenFile
    \/ OpenFails
    \/ \E m \in Messages : LogMessage(m)
    \/ Write
    \/ WriteFails
    \/ WriteRefused
    \/ WriteNull
    \/ Spill
    \/ Flush
    \/ FlushFails
    \/ Destroy
    \/ Crash

Spec == Init /\ [][Next]_vars

-----------------------------------------------------------------------------
(* Properties                                                              *)

Text(name) == IF Exists(name) THEN disk[name].text ELSE <<>>

OnDisk == UNION {ToSet(Text(name)) : name \in Names}

\* With archives, a file that holds more than one message has less than
\* file_size code units, whatever else failed and however often the module was
\* restarted: current_size_ is never less than what the file holds.  In bytes
\* this is a bound of file_size only if each code unit takes one byte
\* (BytesPerUnit = 1: char and an open mode that translates nothing); in text
\* mode on Windows, or with wchar_t, the file may outgrow file_size, but not
\* BytesPerUnit times as much.
\* (With file_count 1 nothing is renamed and the file grows without a bound.)
SizeBound ==
    FileCount > 1 /\ "size" \notin Failing =>
        \A name \in Names : Exists(name) =>
            \/ /\ disk[name].units < FileSize
               /\ disk[name].bytes < BytesPerUnit * FileSize
            \/ Len(disk[name].text) = 1

\* A message leaves the disk only from the last archive, when rotate_file()
\* replaces it: no rename, no restart after a half done rotation and no
\* reopening overwrites any other file.
OnlyOldestDropped ==
    [][\A m \in OnDisk : m \in OnDisk' \/ m \in ToSet(Text(FileCount - 1))]_vars

\* From the last archive to the file and its buffer, the messages are in the
\* order of their log_message() calls without a gap: see LogWindow.
Window == INSTANCE LogWindow WITH
    kept <- FlattenSeq([k \in 1 .. FileCount |-> Text(FileCount - k)])
            \o buffer.text

ImplementsWindow == Window!WSpec

\* basic_file::write() asserts that its stream is open: the module never
\* writes to a file that a failed rotation has closed.
FileIsOpen == ~fault
=============================================================================
