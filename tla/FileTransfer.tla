---------------------------- MODULE FileTransfer ----------------------------
(***************************************************************************)
(* ServerConnector's two copy loops and the end of the handlers that call  *)
(* them: the backup page downloads the dump of the database, the restore   *)
(* page uploads one.  A file is the sequence of its bytes; one action is   *)
(* one call of SFTP or of the file system and what the code makes of it.   *)
(* The file on the server is the same for all clients, so others write it, *)
(* too; the file at the client is its own.                                 *)
(***************************************************************************)
EXTENDS Integers, Sequences

CONSTANTS
    Bytes,    \* what a byte of a file may be
    NUL,      \* the byte memset leaves in the buffer
    Text,     \* what a byte becomes in a file opened without ios::binary
    Chunk,    \* sizeof(buffer), 1024 in the code
    IntMax,   \* the largest int
    MaxLen    \* bound of the length of a file that others write

ASSUME TransferAssumption ==
    /\ NUL \in Bytes
    /\ Text \in [Bytes -> Bytes]
    /\ IntMax \in Nat /\ MaxLen \in Nat
    /\ Chunk \in 1 .. IntMax

VARIABLES
    remote,   \* /home/<user>/CMDB.sql on the server
    local,    \* CMDB.sql at the client
    pc,       \* where the handler is, and which message ended it
    size,     \* what "ls -l" announced
    left,     \* file_size, counted down
    pos,      \* the position of the reading side
    off,      \* the position of the SFTP handle that writes
    clean     \* history: since the transfer began every call has delivered or
              \* taken what it could, and nobody else wrote the server's file

files == <<remote, local>>
vars  == <<files, pc, size, left, pos, off, clean>>

Least(a, b)    == IF a <= b THEN a ELSE b
Greatest(a, b) == IF a <= b THEN b ELSE a

Files == UNION {[1 .. n -> Bytes] : n \in 0 .. MaxLen}

\* What a number becomes in an int.
WrapNot(n) == n
Wrap(n) == ((n + IntMax + 1) % (2 * (IntMax + 1))) - (IntMax + 1)

\* How much a read at position p of f delivers when it delivers all it can.
Full(f, p) == Least(Chunk, Len(f) - p)

\* f with d written at offset o; a gap is filled with zero bytes.
WriteAt(f, o, d) ==
    [i \in 1 .. Greatest(Len(f), o + Len(d)) |->
        IF i > o /\ i <= o + Len(d) THEN d[i - o]
        ELSE IF i <= Len(f) THEN f[i] ELSE NUL]

-----------------------------------------------------------------------------
(* Backup: DownloadFileFromServer2Local. *)

\* The size comes from "ls -l" through atoi; the answer may also fail to
\* arrive.  When the command cannot be run the function returns quietly, and
\* the handler reports success.
MeasureSize ==
    /\ pc = "idle"
    /\ \/ /\ size' = Least(Len(remote), IntMax)
          /\ pc' = "open" /\ clean' = TRUE
       \/ /\ size' = 0
          /\ pc' \in {"open", "saved"} /\ clean' = FALSE
    /\ UNCHANGED <<files, left, pos, off>>

\* The remote file, then the local one, which is created or emptied.
OpenLocal ==
    /\ pc = "open"
    /\ \/ /\ local' = <<>>
          /\ left' = size
          /\ pos' = 0
          /\ pc' = "read"
          /\ UNCHANGED clean
       \/ /\ pc' = "failed" /\ clean' = FALSE
          /\ UNCHANGED <<local, left, pos>>
    /\ UNCHANGED <<remote, size, off>>

\* The buffer after a read of n bytes: the rest is zero.
Buffer(n) == [i \in 1 .. Chunk |-> IF i <= n THEN remote[pos + i] ELSE NUL]

\* How much of the buffer is written: what is left of the announced size, not
\* what was read.  A negative count writes nothing.
ToWriteUncapped == Chunk
ToWrite == Greatest(0, Least(left, Chunk))

ReadChunk ==
    /\ pc = "read" /\ pos < Len(remote)
    /\ \E n \in 1 .. Full(remote, pos) :
          /\ local' = local \o [i \in 1 .. ToWrite |-> Text[Buffer(n)[i]]]
          /\ pos' = pos + n
          /\ clean' = (clean /\ n = Full(remote, pos))
    /\ left' = Wrap(left - Chunk)
    /\ UNCHANGED <<remote, pc, size, off>>

\* End of file ends the loop, and so does an error.  A local disk that fills up
\* is not noticed either: the copy ends there, as after an error.
ReadEndRetries ==
    /\ pc = "read" /\ pos >= Len(remote)
    /\ IF Len(local) = size THEN pc' = "saved" /\ UNCHANGED <<local, pos, left>>
       ELSE local' = <<>> /\ pos' = 0 /\ left' = size /\ UNCHANGED pc
    /\ UNCHANGED <<remote, size, off, clean>>
ReadEnd ==
    /\ pc = "read"
    /\ \/ pos >= Len(remote) /\ UNCHANGED clean
       \/ clean' = FALSE
    /\ pc' = "saved"
    /\ UNCHANGED <<files, size, left, pos, off>>

-----------------------------------------------------------------------------
(* Restore: UploadFileFromLocal2Server. *)

\* The file on the server is emptied before the local one is opened.
Truncate ==
    /\ pc = "idle"
    /\ \/ /\ remote' = <<>>
          /\ pos' = 0 /\ off' = 0
          /\ pc' = "write" /\ clean' = TRUE
       \/ /\ remote' \in {remote, <<>>}
          /\ pc' = "failed" /\ clean' = FALSE
          /\ UNCHANGED <<pos, off>>
    /\ UNCHANGED <<local, size, left>>

\* What is handed to sftp_write after fread delivered n bytes.
OutgoingPadded(n) == [i \in 1 .. Chunk |-> IF i <= n THEN local[pos + i] ELSE NUL]
Outgoing(n) == [i \in 1 .. n |-> local[pos + i]]

\* fread fills the buffer while it can; nobody looks at what sftp_write took.
WriteChunk ==
    /\ pc = "write" /\ pos < Len(local)
    /\ LET out == Outgoing(Full(local, pos)) IN
       \E k \in 0 .. Len(out) :
          /\ remote' = WriteAt(remote, off, [i \in 1 .. k |-> out[i]])
          /\ off' = off + k
          /\ clean' = (clean /\ k = Len(out))
    /\ pos' = pos + Full(local, pos)
    /\ UNCHANGED <<local, pc, size, left>>

\* fread returns 0 at the end and after an error; the loop cannot tell.
WriteEnd ==
    /\ pc = "write"
    /\ \/ pos >= Len(local) /\ UNCHANGED clean
       \/ clean' = FALSE
    /\ pc' = "restored"
    /\ UNCHANGED <<files, size, left, pos, off>>

-----------------------------------------------------------------------------
(* The message box, and the other clients. *)

\* The message is dismissed; nothing of the function's frame is left.
Dismiss ==
    /\ pc \in {"saved", "restored", "failed"}
    /\ pc' = "idle"
    /\ size' = 0 /\ left' = 0 /\ pos' = 0 /\ off' = 0
    /\ UNCHANGED <<files, clean>>

\* Another client's dump or upload empties the file and then fills it.
OtherEmpties ==
    /\ remote' = <<>>
    /\ clean' = FALSE
    /\ UNCHANGED <<local, pc, size, left, pos, off>>

OtherWrites(b) ==
    /\ Len(remote) < MaxLen
    /\ remote' = Append(remote, b)
    /\ clean' = FALSE
    /\ UNCHANGED <<local, pc, size, left, pos, off>>

-----------------------------------------------------------------------------
(* The specification. *)

Init ==
    /\ remote \in Files
    /\ local \in Files
    /\ pc = "idle"
    /\ size = 0 /\ left = 0 /\ pos = 0 /\ off = 0
    /\ clean = TRUE

Copying == OpenLocal \/ ReadChunk \/ ReadEnd \/ WriteChunk \/ WriteEnd

Next ==
    \/ MeasureSize \/ Truncate
    \/ Copying
    \/ Dismiss
    \/ OtherEmpties
    \/ \E b \in Bytes : OtherWrites(b)

Spec == Init /\ [][Next]_vars

\* The loops run on by themselves.
FairSpec == Spec /\ WF_vars(Copying)

-----------------------------------------------------------------------------
(* Properties. *)

\* What the first n bytes of a file become in a file written as text.
Translated(f, n) == [i \in 1 .. n |-> Text[f[i]]]

\* The types; the countdown of the download stays an int.
TypeOK ==
    /\ remote \in Seq(Bytes) /\ local \in Seq(Bytes)
    /\ pc \in {"idle", "open", "read", "saved", "write", "restored", "failed"}
    /\ size \in 0 .. IntMax
    /\ left \in -(IntMax + 1) .. IntMax
    /\ pos \in Nat /\ off \in Nat
    /\ clean \in BOOLEAN

\* A download in which every read was full and nobody else wrote the file
\* ends with every byte of it, as text, up to the number an int can hold:
\* counting down the announced size cuts the last bufferful at the right byte.
\* Beyond twice that number the countdown starts over and so does the writing.
DownloadComplete ==
    pc = "saved" /\ clean /\ Len(remote) <= 2 * IntMax + 2
        => local = Translated(remote, Least(Len(remote), IntMax))

\* An upload in which every write took all it was given puts the whole local
\* file on the server, whatever was there before.
UploadComplete == pc = "restored" /\ clean => remote = local

\* One of the two functions has its loop before it, or is in it.
Running == pc \in {"open", "read", "write"}

\* Each of the loops comes to its end, even while others change the file.
LoopsEnd == Running ~> pc \in {"saved", "restored", "failed"}

\* How many more calls the function makes at most: a file that others write does
\* not grow beyond what it is or may become.
CallsLeft ==
    CASE pc = "open"  -> 2 + Greatest(MaxLen, Len(remote))
      [] pc = "read"  -> 1 + Greatest(0, Greatest(MaxLen, Len(remote)) - pos)
      [] pc = "write" -> 1 + Len(local) - pos
      [] OTHER        -> 0

\* What makes them end: every call, also one that delivers or takes only part,
\* brings the end nearer, and nothing others do to the file puts it off.
LoopsAdvance ==
    [][Running =>
          /\ CallsLeft' <= CallsLeft
          /\ <<pc', pos'>> # <<pc, pos>> => CallsLeft' < CallsLeft]_vars
=============================================================================
